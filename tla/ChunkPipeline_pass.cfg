\* Seven elements in windows of two: four chunks, the last one short; two workers.
CONSTANTS
    Items = 7
    ChunkSize = 2
    MaxWorkers = 2
    ReadErrors = TRUE
SPECIFICATION Spec
INVARIANTS
    PipelineTypeOK
    StepWaitsForWorkers
    OnlyWholeChunksCommitted
    CompletedCoversSource
PROPERTY StepReturns
