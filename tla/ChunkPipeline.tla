--------------------------- MODULE ChunkPipeline ---------------------------
(***************************************************************************)
(* processRelationChunks: one pass over a dump file by the goroutines of   *)
(* one import step.  The parser emits elements into windows, a dispatcher  *)
(* (the ForEach callback) turns windows into chunks and hands them to at   *)
(* most MaxWorkers workers, workers write and report over an unbuffered    *)
(* channel, the collector sums the reports and completes the entity.       *)
(*                                                                         *)
(* All channels are unbuffered: while a chunk waits for the dispatcher the *)
(* windows before it are blocked, so the parser is never ahead by more     *)
(* than one window.  Two contexts can be cancelled: the one of the         *)
(* invocation (an interrupt) and the pass's own, which derives from it.    *)
(***************************************************************************)
EXTENDS Integers, FiniteSets, FiniteSetsExt

CONSTANTS
    Items,       \* elements of the dump file
    ChunkSize,   \* --chunk-size
    MaxWorkers,  \* --max-workers
    ReadErrors   \* may reading or decoding an element fail?

ASSUME ConstantsAssumption ==
    /\ Items \in Nat
    /\ ChunkSize \in Nat \ {0}
    /\ MaxWorkers \in Nat \ {0}
    /\ ReadErrors \in BOOLEAN

VARIABLES
    parser,      \* the reading goroutine
    pos,         \* elements it has emitted
    readError,   \* did it emit an error?
    window,      \* elements in the open window
    slice,       \* size of the mapped window that waits for the dispatcher, 0 if none
    dispatcher,  \* the ForEach goroutine
    current,     \* the chunk it submits
    totalItems, totalChunks,
    wg,          \* the counter of the workers' WaitGroup
    workers,     \* goroutines at work, each with its chunk
    inventory,   \* chunks the ledger held when the pass started
    ledger,      \* committed chunks
    cancelled,   \* the pass's context
    interrupted, \* the invocation's context
    sourceError, \* sourceErrorRecorder
    workerError, \* an error among the collected results
    collector    \* the goroutine of the step

source   == <<parser, pos, readError, window, slice>>
dispatch == <<dispatcher, current, totalItems, totalChunks>>
pool     == <<wg, workers>>
contexts == <<cancelled, interrupted>>
errors   == <<sourceError, workerError>>
vars     == <<source, dispatch, pool, inventory, ledger, contexts, errors, collector>>

-----------------------------------------------------------------------------
(***************************************************************************)
(* Chunks.                                                                 *)
(***************************************************************************)
ChunkMetadata(index, first, count) == [index |-> index, first |-> first, count |-> count]
Chunk == [index : 0..Items, first : 0..Items, count : 1..ChunkSize]
NoChunk == ChunkMetadata(0, 0, 0)

\* The chunks a complete read of the file makes.
ChunkCount == (Items + ChunkSize - 1) \div ChunkSize
WholeChunks ==
    {ChunkMetadata(k, k * ChunkSize,
        IF Items - k * ChunkSize < ChunkSize THEN Items - k * ChunkSize ELSE ChunkSize)
        : k \in 0..(ChunkCount - 1)}

\* completeEntityProgress: the ledger tiles the given totals.
Covers(L, items, chunks) ==
    /\ MapThenSumSet(LAMBDA c : c.count, L) = items
    /\ Cardinality(L) = chunks
    /\ \A c \in L :
         /\ c.index < chunks
         /\ c.first = c.index * ChunkSize
         /\ c.count = IF c.index = chunks - 1 THEN items - c.first ELSE ChunkSize

\* The ledgers an earlier attempt can leave: whole chunks and, after a malformed read, a
\* shorter one.
Inventories ==
    (SUBSET WholeChunks) \cup
    (IF ReadErrors
     THEN {{[c EXCEPT !.count = n]} : c \in WholeChunks, n \in 1..(ChunkSize - 1)}
     ELSE {})

Init ==
    /\ parser = "reading"
    /\ pos = 0
    /\ readError = FALSE
    /\ window = 0
    /\ slice = 0
    /\ dispatcher = "ready"
    /\ current = NoChunk
    /\ totalItems = 0
    /\ totalChunks = 0
    /\ wg = 0
    /\ workers = {}
    /\ inventory \in Inventories
    /\ ledger = inventory
    /\ cancelled = FALSE
    /\ interrupted = FALSE
    /\ sourceError = FALSE
    /\ workerError = FALSE
    /\ collector = "receiving"

\* ctx.Err() # nil of the pass's context.
Cancelled == cancelled \/ interrupted

-----------------------------------------------------------------------------
(***************************************************************************)
(* The parser: Parse and emit.  The context is looked at before an element *)
(* is decoded; a cancellation after that may or may not stop its delivery. *)
(***************************************************************************)
Decode ==
    /\ parser = "reading"
    /\ ~Cancelled
    /\ pos < Items
    /\ parser' = "emitting"
    /\ UNCHANGED <<pos, readError, window, slice, dispatch, pool, inventory, ledger,
                   contexts, errors, collector>>

\* The element joins the open window; a full window becomes a slice.
Emit ==
    /\ parser = "emitting"
    /\ slice = 0
    /\ parser' = "reading"
    /\ pos' = pos + 1
    /\ IF window + 1 = ChunkSize
       THEN slice' = ChunkSize /\ window' = 0
       ELSE window' = window + 1 /\ UNCHANGED slice
    /\ UNCHANGED <<readError, dispatch, pool, inventory, ledger, contexts, errors, collector>>

\* io.EOF, or the context is done: the stream ends without an error item.
EndParse ==
    /\ \/ parser = "reading" /\ (pos = Items \/ Cancelled)
       \/ parser = "emitting" /\ Cancelled
    /\ parser' = "stopped"
    /\ UNCHANGED <<pos, readError, window, slice, dispatch, pool, inventory, ledger,
                   contexts, errors, collector>>

\* A read or decode error: the error item ends the open window and the stream of windows,
\* and MapWindowedSlice skips items without a value, so nobody after it sees the error.
FailParse ==
    /\ ReadErrors
    /\ parser = "reading"
    /\ ~Cancelled
    /\ slice = 0
    /\ readError' = TRUE
    /\ parser' = "stopped"
    /\ UNCHANGED <<pos, window, slice, dispatch, pool, inventory, ledger, contexts, errors,
                   collector>>

\* The stream has ended: what the open window holds becomes the last slice.
CloseWindow ==
    /\ parser = "stopped"
    /\ window > 0
    /\ slice = 0
    /\ slice' = window
    /\ window' = 0
    /\ UNCHANGED <<parser, pos, readError, dispatch, pool, inventory, ledger, contexts,
                   errors, collector>>

Source == Decode \/ Emit \/ EndParse \/ FailParse \/ CloseWindow

-----------------------------------------------------------------------------
(***************************************************************************)
(* The dispatcher.                                                         *)
(***************************************************************************)
\* A slice becomes the next chunk.  The inventory may already hold it; with another range
\* that is an error, which cancels the pass.
Dispatch ==
    /\ dispatcher = "ready"
    /\ slice > 0
    /\ LET c == ChunkMetadata(totalChunks, totalItems, slice)
           known == \E k \in inventory : k.index = c.index
       IN  /\ current' = IF known THEN NoChunk ELSE c
           /\ wg' = IF known THEN wg ELSE wg + 1
           /\ dispatcher' = IF known THEN "ready" ELSE "submitting"
           /\ IF known /\ c \notin inventory
              THEN sourceError' = TRUE /\ cancelled' = TRUE
              ELSE UNCHANGED <<sourceError, cancelled>>
    /\ totalChunks' = totalChunks + 1
    /\ totalItems' = totalItems + slice
    /\ slice' = 0
    /\ UNCHANGED <<parser, pos, readError, window, workers, inventory, ledger, interrupted,
                   workerError, collector>>

\* Mutation: only the select looks at the context.
MaySelectAlways == TRUE

\* submitWorker's first look at the context.
MaySelect == ~Cancelled

Select ==
    /\ dispatcher = "submitting"
    /\ MaySelect
    /\ dispatcher' = "selecting"
    /\ UNCHANGED <<source, current, totalItems, totalChunks, pool, inventory, ledger,
                   contexts, errors, collector>>

\* Mutation: the WaitGroup is not decremented.
AfterRefusalKept(n) == n

AfterRefusal(n) == n - 1

\* submitWorker returns false: the chunk is dropped and the context's error recorded.
Refuse ==
    /\ \/ dispatcher = "submitting" /\ ~MaySelect
       \/ dispatcher = "selecting" /\ Cancelled
    /\ dispatcher' = "ready"
    /\ current' = NoChunk
    /\ wg' = AfterRefusal(wg)
    /\ sourceError' = TRUE
    /\ UNCHANGED <<source, totalItems, totalChunks, workers, inventory, ledger, contexts,
                   workerError, collector>>

\* A slot of the semaphore is free: a worker starts.  (A done context may lose the select.)
StartWorker ==
    /\ dispatcher = "selecting"
    /\ Cardinality(workers) < MaxWorkers
    /\ workers' = workers \cup {[chunk |-> current, phase |-> "writing"]}
    /\ dispatcher' = "ready"
    /\ current' = NoChunk
    /\ UNCHANGED <<source, totalItems, totalChunks, wg, inventory, ledger, contexts, errors,
                   collector>>

EndDispatch ==
    /\ dispatcher = "ready"
    /\ parser = "stopped"
    /\ window = 0
    /\ slice = 0
    /\ dispatcher' = "draining"
    /\ UNCHANGED <<source, current, totalItems, totalChunks, pool, inventory, ledger,
                   contexts, errors, collector>>

\* Mutation: the results are closed as soon as the stream ends.
WorkersDoneAlways == TRUE

WorkersDone == wg = 0

\* The completion callback: workers.Wait, then close(results).
CloseResults ==
    /\ dispatcher = "draining"
    /\ WorkersDone
    /\ dispatcher' = "closed"
    /\ UNCHANGED <<source, current, totalItems, totalChunks, pool, inventory, ledger,
                   contexts, errors, collector>>

Dispatcher ==
    Dispatch \/ Select \/ Refuse \/ StartWorker \/ EndDispatch \/ CloseResults

-----------------------------------------------------------------------------
(***************************************************************************)
(* Workers.                                                                *)
(***************************************************************************)
Enter(w, phase) == workers' = (workers \ {w}) \cup {[w EXCEPT !.phase = phase]}

\* The chunk transaction commits.
Write(w) ==
    /\ w.phase = "writing"
    /\ ledger' = ledger \cup {w.chunk}
    /\ Enter(w, "written")
    /\ UNCHANGED <<source, dispatch, wg, inventory, contexts, errors, collector>>

\* It fails; the worker cancels the pass.
FailWrite(w) ==
    /\ w.phase = "writing"
    /\ Enter(w, "failed")
    /\ cancelled' = TRUE
    /\ UNCHANGED <<source, dispatch, wg, inventory, ledger, interrupted, errors, collector>>

\* results <- written: the collector takes the result.
Report(w) ==
    /\ w.phase \in {"written", "failed"}
    /\ collector = "receiving"
    /\ dispatcher # "closed"
    /\ workerError' = (workerError \/ w.phase = "failed")
    /\ Enter(w, "leaving")
    /\ UNCHANGED <<source, dispatch, wg, inventory, ledger, contexts, sourceError, collector>>

\* workers.Done, and the slot is free again.
LeavePool(w) ==
    /\ w.phase = "leaving"
    /\ workers' = workers \ {w}
    /\ wg' = wg - 1
    /\ UNCHANGED <<source, dispatch, inventory, ledger, contexts, errors, collector>>

Worker(w) == Write(w) \/ FailWrite(w) \/ Report(w) \/ LeavePool(w)

-----------------------------------------------------------------------------
(***************************************************************************)
(* The collector.                                                          *)
(***************************************************************************)
\* The results are closed and drained; without an error the finalizer runs.
EndCollect ==
    /\ collector = "receiving"
    /\ dispatcher = "closed"
    /\ collector' = IF workerError \/ sourceError THEN "failed" ELSE "finalizing"
    /\ cancelled' = (cancelled \/ workerError \/ sourceError)
    /\ UNCHANGED <<source, dispatch, pool, inventory, ledger, interrupted, errors>>

\* Mutation: the entity is completed under a context that is never cancelled.
CompletableAlways == Covers(ledger, totalItems, totalChunks)

\* completeEntityProgress runs under the invocation's context.
Completable == ~interrupted /\ Covers(ledger, totalItems, totalChunks)

\* The finalizer returns, and the deferred cancel ends what is left of the pass.
Finalize ==
    /\ collector = "finalizing"
    /\ \/ Completable /\ collector' = "completed"
       \/ collector' = "failed"
    /\ cancelled' = TRUE
    /\ UNCHANGED <<source, dispatch, pool, inventory, ledger, interrupted, errors>>

Collector == EndCollect \/ Finalize

Returned == collector \in {"completed", "failed"}

\* SIGINT or SIGTERM cancels the invocation's context.
Interrupt ==
    /\ ~interrupted
    /\ ~Returned
    /\ interrupted' = TRUE
    /\ UNCHANGED <<source, dispatch, pool, inventory, ledger, cancelled, errors, collector>>

Terminated == Returned /\ parser = "stopped" /\ UNCHANGED vars

Next ==
    \/ Source
    \/ Dispatcher
    \/ \E w \in workers : Worker(w)
    \/ Collector
    \/ Interrupt
    \/ Terminated

\* Goroutines are scheduled fairly and database statements return: every worker, whatever
\* its chunk, makes its next step.
Fairness ==
    /\ WF_vars(Source)
    /\ WF_vars(Dispatcher)
    /\ \A c \in WholeChunks : WF_vars(\E w \in workers : w.chunk.index = c.index /\ Worker(w))
    /\ WF_vars(Collector)

Spec == Init /\ [][Next]_vars /\ Fairness
-----------------------------------------------------------------------------
(***************************************************************************)
(* Properties.                                                             *)
(***************************************************************************)
\* Positions stay inside the file and the WaitGroup counts what was added and not done.
PipelineTypeOK ==
    /\ parser \in {"reading", "emitting", "stopped"}
    /\ pos \in 0..Items
    /\ readError \in BOOLEAN
    /\ window \in 0..(ChunkSize - 1)
    /\ slice \in 0..ChunkSize
    /\ dispatcher \in {"ready", "submitting", "selecting", "draining", "closed"}
    /\ current \in Chunk \cup {NoChunk}
    /\ totalItems \in 0..Items
    /\ totalChunks \in 0..ChunkCount
    /\ wg \in 0..(MaxWorkers + 1)
    /\ workers \subseteq
         [chunk : Chunk, phase : {"writing", "written", "failed", "leaving"}]
    /\ inventory \subseteq Chunk
    /\ ledger \subseteq Chunk
    /\ {cancelled, interrupted, sourceError, workerError} \subseteq BOOLEAN
    /\ collector \in {"receiving", "finalizing", "completed", "failed"}

\* The step never returns, and the results are never closed, while a worker still has a
\* transaction open or a result to send: a failed run is recorded as failed only when
\* nothing of it can still commit, and no worker sends on a closed channel.
StepWaitsForWorkers == dispatcher = "closed" => workers = {}

\* A stream that a cancellation cut short leaves no short chunk behind: its last window is
\* refused, so the ledger of the interrupted run still fits the windows of a rerun.
OnlyWholeChunksCommitted == ~readError => ledger \ inventory \subseteq WholeChunks

\* An entity completes only when every element of its file is in a committed chunk, whenever
\* the interrupt, the failed writes and the end of the stream came.
CompletedCoversSource ==
    collector = "completed" /\ ~readError => ledger = WholeChunks

\* A pass whose source could not be read to its end does not complete the entity.
MalformedSourceFails == readError => collector # "completed"

\* Every pass returns, and no goroutine of it is blocked for ever: not the parser on a
\* window, not the dispatcher on a slot or on the WaitGroup, not a worker on its result.
StepReturns == <>(Returned /\ parser = "stopped" /\ workers = {})
=============================================================================
