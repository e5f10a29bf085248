------------------------- MODULE ChunkPipelineProofs ------------------------
(***************************************************************************)
(* Proofs about the chunk pipeline: for any file, chunk size and number of *)
(* workers, the step waits for its workers, commits whole chunks and       *)
(* completes whole files only.                                             *)
(***************************************************************************)
EXTENDS ChunkPipeline, TLAPS, FiniteSetTheorems

-----------------------------------------------------------------------------
(***************************************************************************)
(* The inductive invariant.                                                *)
(***************************************************************************)
\* The chunk of index k of a complete read.
Whole(k) ==
    ChunkMetadata(k, k * ChunkSize,
        IF Items - k * ChunkSize < ChunkSize THEN Items - k * ChunkSize ELSE ChunkSize)

\* A chunk is on its way to a worker.
Submitting == dispatcher \in {"submitting", "selecting"}

\* Nothing shortened what the pass has read so far.
Unbroken == ~Cancelled /\ ~readError

TypeInv ==
    /\ parser \in {"reading", "emitting", "stopped"}
    /\ pos \in 0..Items
    /\ readError \in BOOLEAN
    /\ window \in 0..(ChunkSize - 1)
    /\ slice \in 0..ChunkSize
    /\ dispatcher \in {"ready", "submitting", "selecting", "draining", "closed"}
    /\ current \in Chunk \cup {NoChunk}
    /\ totalItems \in Nat
    /\ totalChunks \in Nat
    /\ workers \subseteq [chunk : Chunk, phase : {"writing", "written", "failed", "leaving"}]
    /\ inventory \subseteq Chunk
    /\ ledger \subseteq Chunk
    /\ cancelled \in BOOLEAN
    /\ interrupted \in BOOLEAN
    /\ sourceError \in BOOLEAN
    /\ workerError \in BOOLEAN
    /\ collector \in {"receiving", "finalizing", "completed", "failed"}

\* What was emitted is in dispatched chunks, in the slice and in the window, and every
\* dispatched chunk but the last of a stream that has ended is full.
ReadInv ==
    /\ totalItems + slice + window = pos
    /\ parser = "emitting" => pos < Items
    /\ slice > 0 \/ window > 0 \/ parser # "stopped" => totalItems = totalChunks * ChunkSize
    /\ slice > 0 /\ slice < ChunkSize => parser = "stopped" /\ window = 0
    /\ totalItems <= totalChunks * ChunkSize
    /\ totalChunks * ChunkSize < totalItems + ChunkSize
    /\ parser = "stopped" /\ Unbroken => pos = Items
    /\ dispatcher \in {"draining", "closed"} => parser = "stopped" /\ slice = 0 /\ window = 0

\* Every chunk has one worker, and the WaitGroup counts the workers and the submission.
PoolInv ==
    /\ IsFiniteSet(workers)
    /\ Cardinality(workers) <= MaxWorkers
    /\ wg = Cardinality(workers) + (IF Submitting THEN 1 ELSE 0)
    /\ Submitting => current \in Chunk /\ current.index + 1 = totalChunks
    /\ \A w \in workers : w.chunk.index < totalChunks /\ (Submitting => w.chunk.index < current.index)
    /\ \A v, w \in workers : v.chunk.index = w.chunk.index => v = w
    /\ dispatcher = "closed" => workers = {}

\* Without a read error only whole chunks pass the looks at the context.
ChunkInv ==
    /\ dispatcher = "submitting" => ~Unbroken \/ current = Whole(current.index)
    /\ dispatcher = "selecting" => readError \/ current = Whole(current.index)
    /\ \A w \in workers : readError \/ w.chunk = Whole(w.chunk.index)
    /\ readError \/ ledger \ inventory \subseteq WholeChunks

\* What has become of every dispatched chunk while nothing is broken.
LedgerInv ==
    /\ inventory \subseteq ledger
    /\ \A c \in inventory : c.index < ChunkCount
    /\ \A b, c \in inventory : b.index = c.index => b = c
    /\ Unbroken =>
         /\ \A k \in 0..(totalChunks - 1) :
               \/ Whole(k) \in ledger
               \/ Submitting /\ k = current.index
               \/ \E w \in workers : w.chunk.index = k /\ w.phase = "writing"
         /\ \A c \in inventory : c.index < totalChunks => c = Whole(c.index)

\* A cancellation of the pass has a cause that the collector will see.
CauseInv ==
    /\ cancelled =>
         \/ sourceError \/ workerError \/ Returned
         \/ \E w \in workers : w.phase = "failed"
    /\ collector # "receiving" => dispatcher = "closed"
    /\ collector = "finalizing" => ~sourceError /\ ~workerError
    /\ collector = "completed" => readError \/ ledger = WholeChunks

IInv == TypeInv /\ ReadInv /\ PoolInv /\ ChunkInv /\ LedgerInv /\ CauseInv
-----------------------------------------------------------------------------
(***************************************************************************)
(* Arithmetic of chunks.                                                   *)
(***************************************************************************)
\* Products with the chunk size keep the order of their factors.
LEMMA Monotone ==
    ASSUME NEW a \in Nat, NEW b \in Nat, a <= b
    PROVE  /\ a * ChunkSize \in Nat
           /\ a * ChunkSize <= b * ChunkSize
           /\ (a + 1) * ChunkSize = a * ChunkSize + ChunkSize
<1>1. ChunkSize \in Nat
    BY ConstantsAssumption
<1>2. PICK n \in Nat : b = a + n
    <2>1. b - a \in Nat /\ b = a + (b - a)
        BY SMT
    <2> QED
        BY <2>1
<1>3. n * ChunkSize \in Nat /\ a * ChunkSize \in Nat
    BY <1>1, SMT
<1>4. b * ChunkSize = a * ChunkSize + n * ChunkSize
    BY <1>1, <1>2, SMT
<1>5. (a + 1) * ChunkSize = a * ChunkSize + ChunkSize
    BY <1>1, SMT
<1> QED
    BY <1>3, <1>4, <1>5, SMT

\* ChunkCount is Items / ChunkSize, rounded up.
LEMMA CountBounds ==
    /\ ChunkCount \in Nat
    /\ Items <= ChunkCount * ChunkSize
    /\ ChunkCount * ChunkSize < Items + ChunkSize
<1>1. ChunkSize \in Nat /\ ChunkSize > 0 /\ Items \in Nat
    BY ConstantsAssumption
<1> DEFINE a == Items + ChunkSize - 1
<1>2. a \in Nat
    BY <1>1, SMT
<1>3. a \div ChunkSize \in Nat
    BY <1>1, <1>2, SMT
<1>4. ChunkSize * (a \div ChunkSize) <= a /\ a < ChunkSize * (a \div ChunkSize) + ChunkSize
    BY <1>1, <1>2, SMT
<1>5. ChunkSize * (a \div ChunkSize) = (a \div ChunkSize) * ChunkSize
    BY <1>1, <1>3, SMT
<1> QED
    BY <1>1, <1>3, <1>4, <1>5, SMT DEF ChunkCount

\* A chunk that begins inside the file is one of its chunks.
LEMMA IndexBound ==
    ASSUME NEW k \in Nat, k * ChunkSize < Items
    PROVE  k < ChunkCount /\ k \in 0..Items /\ k * ChunkSize \in 0..Items
<1>1. ChunkSize \in Nat /\ ChunkSize > 0 /\ Items \in Nat /\ k * ChunkSize \in Nat
    BY ConstantsAssumption, Monotone
<1>2. ASSUME k >= ChunkCount PROVE FALSE
    BY <1>1, <1>2, CountBounds, Monotone, SMT
<1>3. k <= k * ChunkSize
    <2>1. k * (ChunkSize - 1) \in Nat /\ k * ChunkSize = k + k * (ChunkSize - 1)
        BY <1>1, SMT
    <2> QED
        BY <1>1, <2>1, SMT
<1> QED
    BY <1>1, <1>2, <1>3, CountBounds, SMT

\* A complete read makes ChunkCount chunks.
LEMMA CountIs ==
    ASSUME NEW n \in Nat, Items <= n * ChunkSize, n * ChunkSize < Items + ChunkSize
    PROVE  n = ChunkCount
<1>1. ChunkSize \in Nat /\ Items \in Nat /\ n * ChunkSize \in Nat
    BY ConstantsAssumption, Monotone
<1>2. ASSUME n < ChunkCount PROVE FALSE
    <2>1. n + 1 \in Nat /\ n + 1 <= ChunkCount
        BY <1>2, CountBounds, SMT
    <2>2. (n + 1) * ChunkSize <= ChunkCount * ChunkSize
        BY <2>1, CountBounds, Monotone
    <2> QED
        BY <1>1, <2>2, CountBounds, Monotone, SMT
<1>3. ASSUME ChunkCount < n PROVE FALSE
    <2>1. ChunkCount + 1 \in Nat /\ ChunkCount + 1 <= n
        BY <1>3, CountBounds, SMT
    <2>2. (ChunkCount + 1) * ChunkSize <= n * ChunkSize
        BY <2>1, CountBounds, Monotone
    <2>3. ChunkCount * ChunkSize \in Nat
          /\ (ChunkCount + 1) * ChunkSize = ChunkCount * ChunkSize + ChunkSize
        BY CountBounds, Monotone
    <2> QED
        BY <1>1, <2>2, <2>3, CountBounds, SMT
<1> QED
    BY <1>2, <1>3, CountBounds, SMT

LEMMA WholeIndex == \A k : Whole(k).index = k
    BY DEF Whole, ChunkMetadata

LEMMA WholeTyped ==
    ASSUME NEW k \in 0..(ChunkCount - 1)
    PROVE  /\ Whole(k) \in Chunk
           /\ Whole(k) \in WholeChunks
<1>1. ChunkSize \in Nat /\ ChunkSize > 0 /\ Items \in Nat /\ k \in Nat
    BY ConstantsAssumption, CountBounds, SMT
<1>2. k * ChunkSize \in Nat /\ k * ChunkSize < Items
    <2>1. k + 1 \in Nat /\ k + 1 <= ChunkCount
        BY CountBounds, SMT
    <2>2. (k + 1) * ChunkSize <= ChunkCount * ChunkSize
        BY <2>1, CountBounds, Monotone
    <2>3. k * ChunkSize \in Nat /\ (k + 1) * ChunkSize = k * ChunkSize + ChunkSize
        BY <1>1, Monotone
    <2> QED
        BY <1>1, <2>2, <2>3, CountBounds, Monotone, SMT
<1>3. k \in 0..Items
    BY <1>1, <1>2, IndexBound
<1>4. Whole(k) \in Chunk
    BY <1>1, <1>2, <1>3, SMT DEF Whole, ChunkMetadata, Chunk
<1> QED
    BY <1>4 DEF Whole, WholeChunks

\* The elements of the set, and that they are determined by their index.
LEMMA WholeIs ==
    ASSUME NEW c \in WholeChunks
    PROVE  c.index \in 0..(ChunkCount - 1) /\ c = Whole(c.index) /\ c \in Chunk
<1>1. PICK k \in 0..(ChunkCount - 1) : c = Whole(k)
    BY DEF WholeChunks, Whole
<1> QED
    BY <1>1, WholeIndex, WholeTyped

\* A slice read after full chunks is a whole chunk if it is full or ends the file.
LEMMA DispatchedWhole ==
    ASSUME NEW k \in Nat, NEW n \in 1..ChunkSize,
           k * ChunkSize + n <= Items,
           n = ChunkSize \/ k * ChunkSize + n = Items
    PROVE  /\ ChunkMetadata(k, k * ChunkSize, n) = Whole(k)
           /\ k \in 0..(ChunkCount - 1)
<1>1. ChunkSize \in Nat /\ Items \in Nat /\ k * ChunkSize \in Nat
    BY ConstantsAssumption, Monotone
<1>2. k * ChunkSize < Items
    BY <1>1, SMT
<1>3. k < ChunkCount
    BY <1>2, IndexBound
<1>4. n = IF Items - k * ChunkSize < ChunkSize THEN Items - k * ChunkSize ELSE ChunkSize
    BY <1>1, SMT
<1> QED
    BY <1>3, <1>4, CountBounds, SMT DEF Whole

LEMMA ChunkOfFile ==
    ASSUME NEW c \in Chunk, c = Whole(c.index)
    PROVE  c \in WholeChunks
<1>1. ChunkSize \in Nat /\ ChunkSize > 0 /\ Items \in Nat /\ c.index \in Nat /\ c.count > 0
    BY ConstantsAssumption, SMT DEF Chunk
<1>2. c.index * ChunkSize \in Nat
    BY <1>1, Monotone
<1>3. c.count = IF Items - c.index * ChunkSize < ChunkSize
                THEN Items - c.index * ChunkSize ELSE ChunkSize
    BY DEF Whole, ChunkMetadata
<1>4. c.index * ChunkSize < Items
    BY <1>1, <1>2, <1>3, SMT
<1>5. c.index \in 0..(ChunkCount - 1)
    BY <1>1, <1>4, IndexBound, CountBounds, SMT
<1> QED
    BY <1>5, WholeTyped

-----------------------------------------------------------------------------
(***************************************************************************)
(* The initial states.                                                     *)
(***************************************************************************)
\* The inventory of an earlier attempt has chunks of the file, at most one of an index.
LEMMA InventoryTyped ==
    ASSUME NEW I \in Inventories
    PROVE  /\ I \subseteq Chunk
           /\ \A c \in I : c.index < ChunkCount
           /\ \A b, c \in I : b.index = c.index => b = c
<1>1. CASE I \subseteq WholeChunks
    <2>1. \A c \in I : c.index \in 0..(ChunkCount - 1) /\ c = Whole(c.index) /\ c \in Chunk
        BY <1>1, WholeIs
    <2>2. \A c \in I : c.index < ChunkCount
        BY <2>1, CountBounds, SMT
    <2> QED
        BY <2>1, <2>2
<1>2. CASE \E c \in WholeChunks, n \in 1..(ChunkSize - 1) : I = {[c EXCEPT !.count = n]}
    <2>1. PICK c \in WholeChunks, n \in 1..(ChunkSize - 1) : I = {[c EXCEPT !.count = n]}
        BY <1>2
    <2>2. c.index \in 0..(ChunkCount - 1) /\ c \in Chunk
        BY WholeIs
    <2>3. n \in 1..ChunkSize
        BY ConstantsAssumption, SMT
    <2>4. [c EXCEPT !.count = n] \in Chunk /\ [c EXCEPT !.count = n].index = c.index
        BY <2>2, <2>3 DEF Chunk
    <2>5. c.index < ChunkCount
        BY <2>2, CountBounds, SMT
    <2> QED
        BY <2>1, <2>4, <2>5
<1> QED
    BY <1>1, <1>2 DEF Inventories

LEMMA InitHolds == Init => IInv
<1> SUFFICES ASSUME Init PROVE IInv
    OBVIOUS
<1>0. ChunkSize \in Nat /\ ChunkSize > 0 /\ Items \in Nat /\ MaxWorkers \in Nat
    BY ConstantsAssumption
<1>1. inventory \in Inventories
    BY DEF Init
<1>2. TypeInv
    <2>1. inventory \subseteq Chunk /\ ledger \subseteq Chunk
        BY <1>1, InventoryTyped DEF Init
    <2>2. pos \in 0..Items /\ window \in 0..(ChunkSize - 1) /\ slice \in 0..ChunkSize
          /\ totalItems \in Nat /\ totalChunks \in Nat
        BY <1>0, SMT DEF Init
    <2>3. readError \in BOOLEAN /\ cancelled \in BOOLEAN /\ interrupted \in BOOLEAN
          /\ sourceError \in BOOLEAN /\ workerError \in BOOLEAN
        BY DEF Init
    <2>4. /\ parser = "reading" /\ dispatcher = "ready" /\ collector = "receiving"
          /\ current = NoChunk /\ workers = {}
        BY DEF Init
    <2> QED
        BY <2>1, <2>2, <2>3, <2>4, SMT DEF TypeInv
<1>3. ReadInv
    <2>1. 0 * ChunkSize = 0
        BY <1>0, SMT
    <2>2. totalItems = 0 /\ totalChunks = 0 /\ slice = 0 /\ window = 0 /\ pos = 0
          /\ parser = "reading" /\ dispatcher = "ready"
        BY DEF Init
    <2> QED
        BY <1>0, <2>1, <2>2, SMT DEF ReadInv
<1>4. PoolInv
    <2>1. IsFiniteSet(workers) /\ Cardinality(workers) = 0
        BY FS_EmptySet DEF Init
    <2>2. wg = 0 /\ workers = {} /\ dispatcher = "ready"
        BY DEF Init
    <2>3. ~Submitting
        BY <2>2 DEF Submitting
    <2> QED
        BY <1>0, <2>1, <2>2, <2>3, SMT DEF PoolInv
<1>5. ChunkInv
    BY DEF Init, ChunkInv
<1>6. LedgerInv
    <2>1. totalChunks = 0 /\ ledger = inventory
        BY DEF Init
    <2>2. \A c \in inventory : c.index \in Nat
        BY <1>1, <1>0, InventoryTyped, SMT DEF Chunk
    <2>3. \A k \in 0..(totalChunks - 1) : FALSE
        BY <2>1, SMT
    <2>4. \A c \in inventory : ~(c.index < totalChunks)
        BY <2>1, <2>2, SMT
    <2> QED
        BY <1>1, <2>1, <2>3, <2>4, InventoryTyped DEF LedgerInv
<1>7. CauseInv
    BY DEF Init, CauseInv
<1> QED
    BY <1>2, <1>3, <1>4, <1>5, <1>6, <1>7 DEF IInv

-----------------------------------------------------------------------------
(***************************************************************************)
(* What a step leaves alone.                                               *)
(***************************************************************************)
\* What is broken stays broken.
Onward ==
    /\ readError => readError'
    /\ cancelled => cancelled'
    /\ interrupted => interrupted'

LEMMA OnwardBroken == Onward => (Unbroken' => Unbroken)
    BY DEF Onward, Unbroken, Cancelled

LEMMA ReadFrame ==
    ASSUME ReadInv, Onward, UNCHANGED <<source, totalItems, totalChunks>>,
           dispatcher' \in {"draining", "closed"} =>
               parser = "stopped" /\ slice = 0 /\ window = 0
    PROVE  ReadInv'
    BY OnwardBroken DEF ReadInv, source

LEMMA PoolFrame ==
    ASSUME PoolInv, UNCHANGED <<dispatcher, current, totalChunks, wg, workers>>
    PROVE  PoolInv'
    BY DEF PoolInv, Submitting

LEMMA ChunkFrame ==
    ASSUME ChunkInv, Onward, UNCHANGED <<dispatcher, current, workers, inventory, ledger>>
    PROVE  ChunkInv'
    BY OnwardBroken DEF ChunkInv, Onward

LEMMA LedgerFrame ==
    ASSUME LedgerInv, Onward,
           UNCHANGED <<dispatcher, current, totalChunks, workers, inventory, ledger>>
    PROVE  LedgerInv'
    BY OnwardBroken DEF LedgerInv, Submitting

LEMMA CauseFrame ==
    ASSUME CauseInv, Onward,
           UNCHANGED <<dispatcher, workers, ledger, cancelled, errors, collector>>
    PROVE  CauseInv'
    BY DEF CauseInv, Onward, errors, Returned

-----------------------------------------------------------------------------
(***************************************************************************)
(* The parser and an interrupt.                                            *)
(***************************************************************************)
LEMMA SourceKeeps ==
    ASSUME IInv, Source
    PROVE  IInv'
<1>1. ChunkSize \in Nat /\ ChunkSize > 0 /\ Items \in Nat
    BY ConstantsAssumption
<1>2. /\ UNCHANGED <<dispatcher, current, totalItems, totalChunks, wg, workers, inventory>>
      /\ UNCHANGED <<ledger, cancelled, interrupted, sourceError, workerError, collector>>
    BY DEF Source, Decode, Emit, EndParse, FailParse, CloseWindow, dispatch, pool, contexts,
           errors
<1>3. Onward
    BY <1>2 DEF Source, Decode, Emit, EndParse, FailParse, CloseWindow, Onward
<1>4. TypeInv'
    <2>1. parser' \in {"reading", "emitting", "stopped"} /\ pos' \in 0..Items
          /\ window' \in 0..(ChunkSize - 1) /\ slice' \in 0..ChunkSize /\ readError' \in BOOLEAN
        <3>1. CASE Decode \/ EndParse \/ FailParse
            BY <1>1, <3>1 DEF IInv, TypeInv, Decode, EndParse, FailParse
        <3>2. CASE Emit
            BY <1>1, <3>2, SMT DEF IInv, TypeInv, ReadInv, Emit
        <3>3. CASE CloseWindow
            BY <1>1, <3>3, SMT DEF IInv, TypeInv, CloseWindow
        <3> QED
            BY <3>1, <3>2, <3>3 DEF Source
    <2> QED
        BY <1>2, <2>1 DEF IInv, TypeInv
<1>5. ReadInv'
    <2>1. totalChunks * ChunkSize \in Nat
        BY Monotone DEF IInv, TypeInv
    <2>2. CASE Decode
        BY <1>1, <1>2, <2>1, <2>2, SMT DEF IInv, TypeInv, ReadInv, Decode, Unbroken, Cancelled
    <2>3. CASE Emit
        BY <1>1, <1>2, <2>1, <2>3, SMT DEF IInv, TypeInv, ReadInv, Emit, Unbroken, Cancelled
    <2>4. CASE EndParse
        BY <1>1, <1>2, <2>1, <2>4, SMT DEF IInv, TypeInv, ReadInv, EndParse, Unbroken, Cancelled
    <2>5. CASE FailParse
        BY <1>1, <1>2, <2>1, <2>5, SMT DEF IInv, TypeInv, ReadInv, FailParse, Unbroken, Cancelled
    <2>6. CASE CloseWindow
        BY <1>1, <1>2, <2>1, <2>6, SMT DEF IInv, TypeInv, ReadInv, CloseWindow, Unbroken, Cancelled
    <2> QED
        BY <2>2, <2>3, <2>4, <2>5, <2>6 DEF Source
<1> QED
    BY <1>2, <1>3, <1>4, <1>5, PoolFrame, ChunkFrame, LedgerFrame, CauseFrame DEF IInv, errors

LEMMA InterruptKeeps ==
    ASSUME IInv, Interrupt
    PROVE  IInv'
<1>1. /\ UNCHANGED <<source, dispatch, pool, inventory, ledger, cancelled, errors, collector>>
      /\ interrupted' = TRUE
    BY DEF Interrupt
<1>2. Onward
    BY <1>1 DEF Onward, source
<1>3. TypeInv'
    BY <1>1 DEF IInv, TypeInv, source, dispatch, pool, errors
<1>4. ReadInv'
    BY <1>1, <1>2, ReadFrame DEF IInv, ReadInv, dispatch
<1> QED
    BY <1>1, <1>2, <1>3, <1>4, PoolFrame, ChunkFrame, LedgerFrame, CauseFrame
    DEF IInv, dispatch, pool

-----------------------------------------------------------------------------
(***************************************************************************)
(* The dispatcher.                                                         *)
(***************************************************************************)
\* What the next slice becomes.
NextChunk == ChunkMetadata(totalChunks, totalItems, slice)

\* The inventory has a chunk of its index.
InInventory == \E c \in inventory : c.index = totalChunks

\* The next slice is a chunk of the file, and a whole one if nothing is broken.
LEMMA NextSlice ==
    ASSUME IInv, slice > 0
    PROVE  /\ NextChunk \in Chunk
           /\ Unbroken => NextChunk = Whole(totalChunks)
           /\ totalItems = totalChunks * ChunkSize
           /\ totalItems + slice <= Items
<1>1. ChunkSize \in Nat /\ ChunkSize > 0 /\ Items \in Nat /\ totalChunks \in Nat
      /\ slice \in 1..ChunkSize /\ window \in 0..(ChunkSize - 1) /\ pos \in 0..Items
    BY ConstantsAssumption, SMT DEF IInv, TypeInv
<1>2. totalItems = totalChunks * ChunkSize /\ totalItems + slice + window = pos
      /\ (slice < ChunkSize => parser = "stopped" /\ window = 0)
      /\ (parser = "stopped" /\ Unbroken => pos = Items)
    BY DEF IInv, ReadInv
<1>3. totalChunks * ChunkSize \in Nat
    BY <1>1, Monotone
<1>4. totalItems + slice <= Items /\ totalChunks * ChunkSize < Items
    BY <1>1, <1>2, <1>3, SMT
<1>5. totalChunks \in 0..Items /\ totalItems \in 0..Items
    BY <1>1, <1>2, <1>4, IndexBound
<1>6. NextChunk \in Chunk
    BY <1>1, <1>5 DEF NextChunk, Chunk, ChunkMetadata
<1>7. ASSUME Unbroken PROVE NextChunk = Whole(totalChunks)
    <2>1. slice = ChunkSize \/ totalItems + slice = Items
        BY <1>1, <1>2, <1>3, <1>7, SMT
    <2> QED
        BY <1>1, <1>2, <1>4, <2>1, DispatchedWhole DEF NextChunk
<1> QED
    BY <1>2, <1>4, <1>6, <1>7

LEMMA DispatchKeeps ==
    ASSUME IInv, Dispatch
    PROVE  IInv'
<1>0. ChunkSize \in Nat /\ ChunkSize > 0 /\ Items \in Nat
    BY ConstantsAssumption
<1>1. /\ dispatcher = "ready" /\ slice > 0
      /\ totalChunks' = totalChunks + 1 /\ totalItems' = totalItems + slice /\ slice' = 0
      /\ UNCHANGED <<parser, pos, readError, window, workers, inventory, ledger>>
      /\ UNCHANGED <<interrupted, workerError, collector>>
    BY DEF Dispatch
<1>2. NextChunk.index = totalChunks
    BY DEF NextChunk, ChunkMetadata
<1>3. InInventory => current' = NoChunk /\ wg' = wg /\ dispatcher' = "ready"
    BY DEF Dispatch, InInventory, ChunkMetadata
<1>4. ~InInventory =>
        /\ current' = NextChunk /\ wg' = wg + 1 /\ dispatcher' = "submitting"
        /\ UNCHANGED <<sourceError, cancelled>>
    BY DEF Dispatch, InInventory, NextChunk, ChunkMetadata
<1>5. InInventory =>
        IF NextChunk \notin inventory
        THEN sourceError' = TRUE /\ cancelled' = TRUE
        ELSE UNCHANGED <<sourceError, cancelled>>
    BY DEF Dispatch, InInventory, NextChunk, ChunkMetadata
<1>6. /\ sourceError' \in BOOLEAN /\ cancelled' \in BOOLEAN
      /\ sourceError => sourceError'
      /\ cancelled => cancelled'
      /\ cancelled' => cancelled \/ sourceError'
    <2>1. sourceError \in BOOLEAN /\ cancelled \in BOOLEAN
        BY DEF IInv, TypeInv
    <2>2. \/ sourceError' = TRUE /\ cancelled' = TRUE
          \/ sourceError' = sourceError /\ cancelled' = cancelled
        BY <1>4, <1>5
    <2>3. CASE sourceError' = TRUE /\ cancelled' = TRUE
        BY <2>3
    <2>4. CASE sourceError' = sourceError /\ cancelled' = cancelled
        BY <2>1, <2>4
    <2> QED
        BY <2>2, <2>3, <2>4
<1>7. Onward
    BY <1>1, <1>6 DEF Onward
<1>8. Unbroken' /\ InInventory => NextChunk \in inventory
    BY <1>5 DEF Unbroken, Cancelled
<1>9. totalChunks \in Nat /\ totalItems \in Nat /\ slice \in 1..ChunkSize
      /\ window \in 0..(ChunkSize - 1) /\ pos \in 0..Items
    BY <1>0, <1>1, SMT DEF IInv, TypeInv
<1>10. NextChunk \in Chunk /\ (Unbroken' => NextChunk = Whole(totalChunks))
       /\ totalItems = totalChunks * ChunkSize
    BY <1>1, <1>7, OnwardBroken, NextSlice
<1>11. TypeInv'
    <2>1. totalChunks' \in Nat /\ totalItems' \in Nat /\ slice' \in 0..ChunkSize
        BY <1>0, <1>1, <1>9, SMT
    <2>2. current' \in Chunk \cup {NoChunk} /\ dispatcher' \in {"ready", "submitting"}
        BY <1>3, <1>4, <1>10
    <2> QED
        BY <1>1, <1>6, <2>1, <2>2 DEF IInv, TypeInv
<1>12. ReadInv'
    <2>1. totalItems + slice + window = pos
          /\ (parser = "emitting" => pos < Items)
          /\ (slice < ChunkSize => parser = "stopped" /\ window = 0)
          /\ (parser = "stopped" /\ Unbroken => pos = Items)
        BY <1>1 DEF IInv, ReadInv
    <2>2. totalChunks' * ChunkSize = totalChunks * ChunkSize + ChunkSize
          /\ totalChunks * ChunkSize \in Nat
        BY <1>1, <1>9, Monotone
    <2>3. window > 0 \/ parser # "stopped" => totalItems' = totalChunks' * ChunkSize
        BY <1>0, <1>1, <1>9, <1>10, <2>1, <2>2, SMT
    <2>4. /\ totalItems' + slice' + window' = pos'
          /\ totalItems' <= totalChunks' * ChunkSize
          /\ totalChunks' * ChunkSize < totalItems' + ChunkSize
        BY <1>0, <1>1, <1>9, <1>10, <2>1, <2>2, SMT
    <2>5. dispatcher' \notin {"draining", "closed"} /\ ~(slice' > 0)
        BY <1>1, <1>3, <1>4
    <2> QED
        BY <1>1, <1>7, <2>1, <2>3, <2>4, <2>5, OnwardBroken DEF ReadInv
<1>13. PoolInv'
    <2>1. ~Submitting /\ dispatcher' # "closed"
        BY <1>1, <1>3, <1>4 DEF Submitting
    <2>2. Cardinality(workers) \in Nat
        BY FS_CardinalityType DEF IInv, PoolInv
    <2>3. \A w \in workers : w.chunk.index \in Nat /\ w.chunk.index < totalChunks
        BY <1>0, SMT DEF IInv, TypeInv, PoolInv, Chunk
    <2>4. \A w \in workers : w.chunk.index < totalChunks'
        BY <1>1, <1>9, <2>3, SMT
    <2>5. wg = Cardinality(workers)
        BY <2>1, <2>2 DEF IInv, PoolInv
    <2>6. CASE InInventory
        <3>1. ~Submitting'
            BY <1>3, <2>6 DEF Submitting
        <3>2. wg' = Cardinality(workers)
            BY <1>3, <2>5, <2>6
        <3> QED
            BY <1>1, <2>1, <2>2, <2>4, <3>1, <3>2 DEF IInv, PoolInv
    <2>7. CASE ~InInventory
        <3>1. Submitting' /\ current'.index = totalChunks
            BY <1>2, <1>4, <2>7 DEF Submitting
        <3>2. wg' = Cardinality(workers) + 1
            BY <1>4, <2>5, <2>7
        <3>3. current' \in Chunk
            BY <1>4, <1>10, <2>7
        <3> QED
            BY <1>1, <2>1, <2>2, <2>3, <2>4, <3>1, <3>2, <3>3 DEF IInv, PoolInv
    <2> QED
        BY <2>6, <2>7
<1>14. ChunkInv'
    <2>1. dispatcher' # "selecting"
        BY <1>3, <1>4
    <2>2. dispatcher' = "submitting" => ~Unbroken' \/ current' = Whole(current'.index)
        BY <1>2, <1>3, <1>4, <1>10
    <2> QED
        BY <1>1, <2>1, <2>2 DEF IInv, ChunkInv
<1>15. LedgerInv'
    <2> SUFFICES ASSUME Unbroken'
                 PROVE  /\ \A k \in 0..(totalChunks' - 1) :
                             \/ Whole(k) \in ledger
                             \/ Submitting' /\ k = current'.index
                             \/ \E w \in workers : w.chunk.index = k /\ w.phase = "writing"
                        /\ \A c \in inventory : c.index < totalChunks' => c = Whole(c.index)
        BY <1>1 DEF IInv, LedgerInv
    <2>1. Unbroken /\ ~Submitting
        BY <1>1, <1>7, OnwardBroken DEF Submitting
    <2>2. ASSUME NEW k \in 0..(totalChunks' - 1)
          PROVE  \/ Whole(k) \in ledger
                 \/ Submitting' /\ k = current'.index
                 \/ \E w \in workers : w.chunk.index = k /\ w.phase = "writing"
        <3>1. k \in 0..(totalChunks - 1) \/ k = totalChunks
            BY <1>1, <1>9, SMT
        <3>2. CASE k \in 0..(totalChunks - 1)
            BY <2>1, <3>2 DEF IInv, LedgerInv
        <3>3. CASE k = totalChunks /\ InInventory
            BY <1>8, <1>10, <3>3 DEF IInv, LedgerInv
        <3>4. CASE k = totalChunks /\ ~InInventory
            BY <1>2, <1>4, <3>4 DEF Submitting
        <3> QED
            BY <3>1, <3>2, <3>3, <3>4
    <2>3. ASSUME NEW c \in inventory, c.index < totalChunks'
          PROVE  c = Whole(c.index)
        <3>1. c.index \in Nat
            BY <1>0, SMT DEF IInv, TypeInv, Chunk
        <3>2. c.index < totalChunks \/ c.index = totalChunks
            BY <1>1, <1>9, <2>3, <3>1, SMT
        <3>3. CASE c.index < totalChunks
            BY <2>1, <3>3 DEF IInv, LedgerInv
        <3>4. CASE c.index = totalChunks
            <4>1. InInventory
                BY <3>4 DEF InInventory
            <4>2. c = NextChunk
                BY <1>2, <1>8, <3>4, <4>1 DEF IInv, LedgerInv
            <4> QED
                BY <1>10, <3>4, <4>2
        <3> QED
            BY <3>2, <3>3, <3>4
    <2> QED
        BY <2>2, <2>3
<1>16. CauseInv'
    BY <1>1, <1>6 DEF IInv, CauseInv, Returned
<1> QED
    BY <1>11, <1>12, <1>13, <1>14, <1>15, <1>16 DEF IInv

LEMMA SelectKeeps ==
    ASSUME IInv, Select
    PROVE  IInv'
<1>1. /\ dispatcher = "submitting" /\ dispatcher' = "selecting" /\ ~Cancelled
      /\ UNCHANGED <<source, current, totalItems, totalChunks, wg, workers, inventory, ledger>>
      /\ UNCHANGED <<cancelled, interrupted, errors, collector>>
    BY DEF Select, MaySelect, pool, contexts
<1>2. Onward
    BY <1>1 DEF Onward, source
<1>3. TypeInv'
    BY <1>1 DEF IInv, TypeInv, source, errors
<1>4. ReadInv'
    BY <1>1, <1>2, ReadFrame DEF IInv
<1>5. PoolInv'
    BY <1>1 DEF IInv, PoolInv, Submitting
<1>6. ChunkInv'
    BY <1>1 DEF IInv, ChunkInv, Unbroken, Cancelled, source
<1>7. LedgerInv'
    BY <1>1, <1>2, OnwardBroken DEF IInv, LedgerInv, Submitting
<1>8. CauseInv'
    BY <1>1 DEF IInv, CauseInv, Returned, errors, source
<1> QED
    BY <1>3, <1>4, <1>5, <1>6, <1>7, <1>8 DEF IInv

LEMMA RefuseKeeps ==
    ASSUME IInv, Refuse
    PROVE  IInv'
<1>1. /\ Submitting /\ Cancelled
      /\ dispatcher' = "ready" /\ current' = NoChunk /\ wg' = wg - 1 /\ sourceError' = TRUE
      /\ UNCHANGED <<source, totalItems, totalChunks, workers, inventory, ledger>>
      /\ UNCHANGED <<cancelled, interrupted, workerError, collector>>
    BY DEF Refuse, MaySelect, AfterRefusal, Submitting, contexts
<1>2. Onward
    BY <1>1 DEF Onward, source
<1>3. ~Unbroken' /\ ~Submitting'
    BY <1>1 DEF Unbroken, Cancelled, Submitting
<1>4. TypeInv'
    BY <1>1 DEF IInv, TypeInv, source
<1>5. ReadInv'
    BY <1>1, <1>2, ReadFrame DEF IInv
<1>6. PoolInv'
    <2>1. Cardinality(workers) \in Nat
        BY FS_CardinalityType DEF IInv, PoolInv
    <2>2. wg' = Cardinality(workers)
        BY <1>1, <2>1 DEF IInv, PoolInv
    <2> QED
        BY <1>1, <1>3, <2>1, <2>2 DEF IInv, PoolInv
<1>7. ChunkInv'
    BY <1>1 DEF IInv, ChunkInv, source
<1>8. LedgerInv'
    BY <1>1, <1>3 DEF IInv, LedgerInv
<1>9. CauseInv'
    BY <1>1 DEF IInv, CauseInv, Returned, Submitting, source
<1> QED
    BY <1>4, <1>5, <1>6, <1>7, <1>8, <1>9 DEF IInv

LEMMA StartWorkerKeeps ==
    ASSUME IInv, StartWorker
    PROVE  IInv'
<1> DEFINE new == [chunk |-> current, phase |-> "writing"]
<1>0. ChunkSize \in Nat /\ Items \in Nat /\ MaxWorkers \in Nat
    BY ConstantsAssumption
<1>1. /\ dispatcher = "selecting" /\ dispatcher' = "ready" /\ current' = NoChunk
      /\ Cardinality(workers) < MaxWorkers
      /\ workers' = workers \cup {new}
      /\ UNCHANGED <<source, totalItems, totalChunks, wg, inventory, ledger>>
      /\ UNCHANGED <<cancelled, interrupted, sourceError, workerError, collector>>
    BY DEF StartWorker, contexts, errors
<1>2. Onward
    BY <1>1 DEF Onward, source
<1>3. Submitting /\ ~Submitting'
    BY <1>1 DEF Submitting
<1>4. totalChunks \in Nat /\ current.index + 1 = totalChunks
    BY <1>3 DEF IInv, TypeInv, PoolInv
<1>5. current \in Chunk /\ new \notin workers
    <2>1. current \in Chunk
        BY <1>3 DEF IInv, PoolInv
    <2>2. \A w \in workers : w.chunk.index < current.index
        BY <1>3 DEF IInv, PoolInv
    <2>3. ~(current.index < current.index)
        BY <1>0, <2>1, SMT DEF Chunk
    <2> QED
        BY <2>1, <2>2, <2>3
<1>6. TypeInv'
    <2>1. new \in [chunk : Chunk, phase : {"writing", "written", "failed", "leaving"}]
        BY <1>5
    <2> QED
        BY <1>1, <2>1 DEF IInv, TypeInv, source
<1>7. ReadInv'
    BY <1>1, <1>2, ReadFrame DEF IInv
<1>8. PoolInv'
    <2>1. IsFiniteSet(workers) /\ Cardinality(workers) \in Nat
        BY FS_CardinalityType DEF IInv, PoolInv
    <2>2. IsFiniteSet(workers') /\ Cardinality(workers') = Cardinality(workers) + 1
        BY <1>1, <1>5, <2>1, FS_AddElement
    <2>3. wg' = Cardinality(workers') /\ Cardinality(workers') <= MaxWorkers
        BY <1>0, <1>1, <1>3, <2>1, <2>2, SMT DEF IInv, PoolInv
    <2>4. \A w \in workers : w.chunk.index \in Nat /\ w.chunk.index < current.index
                             /\ w.chunk.index < totalChunks
        BY <1>0, <1>3, SMT DEF IInv, TypeInv, PoolInv, Chunk
    <2>5. current.index \in Nat /\ current.index < totalChunks
        BY <1>0, <1>4, <1>5, SMT DEF Chunk
    <2>6. \A w \in workers' : w.chunk.index < totalChunks'
        BY <1>1, <2>4, <2>5
    <2>7. \A w \in workers : w.chunk.index # new.chunk.index
        BY <2>4, <2>5, SMT
    <2>8. \A v, w \in workers' : v.chunk.index = w.chunk.index => v = w
        <3>1. \A v, w \in workers : v.chunk.index = w.chunk.index => v = w
            BY DEF IInv, PoolInv
        <3>2. \A v \in workers' : v \in workers \/ v = new
            BY <1>1
        <3> HIDE DEF new
        <3> QED
            BY <2>7, <3>1, <3>2
    <2>9. dispatcher' # "closed"
        BY <1>1
    <2>10. Cardinality(workers') \in Nat
        BY <2>1, <2>2, SMT
    <2> QED
        BY <1>3, <2>2, <2>3, <2>6, <2>8, <2>9, <2>10 DEF PoolInv
<1>9. ChunkInv'
    <2>1. readError \/ current = Whole(current.index)
        BY <1>1 DEF IInv, ChunkInv
    <2>2. \A w \in workers' : readError' \/ w.chunk = Whole(w.chunk.index)
        BY <1>1, <2>1 DEF IInv, ChunkInv, source
    <2> QED
        BY <1>1, <2>2 DEF IInv, ChunkInv, source
<1>10. LedgerInv'
    <2>1. Unbroken' =>
            \A k \in 0..(totalChunks - 1) :
                \/ Whole(k) \in ledger
                \/ \E w \in workers' : w.chunk.index = k /\ w.phase = "writing"
        <3> SUFFICES ASSUME Unbroken', NEW k \in 0..(totalChunks - 1), Whole(k) \notin ledger
                     PROVE  \E w \in workers' : w.chunk.index = k /\ w.phase = "writing"
            OBVIOUS
        <3>1. \/ k = current.index
              \/ \E w \in workers : w.chunk.index = k /\ w.phase = "writing"
            BY <1>2, OnwardBroken DEF IInv, LedgerInv
        <3>2. new \in workers' /\ new.chunk.index = current.index /\ new.phase = "writing"
            BY <1>1
        <3> QED
            BY <1>1, <3>1, <3>2
    <2> QED
        BY <1>1, <1>2, <2>1, OnwardBroken DEF IInv, LedgerInv
<1>11. CauseInv'
    <2>1. collector = "receiving"
        BY <1>1 DEF IInv, CauseInv
    <2>2. workers \subseteq workers'
        BY <1>1
    <2> QED
        BY <1>1, <2>1, <2>2 DEF IInv, CauseInv, Returned
<1> QED
    BY <1>6, <1>7, <1>8, <1>9, <1>10, <1>11 DEF IInv

LEMMA EndDispatchKeeps ==
    ASSUME IInv, EndDispatch \/ CloseResults
    PROVE  IInv'
<1>1. /\ dispatcher \in {"ready", "draining"} /\ dispatcher' \in {"draining", "closed"}
      /\ parser = "stopped" /\ slice = 0 /\ window = 0
      /\ dispatcher' = "closed" => dispatcher = "draining" /\ wg = 0
      /\ UNCHANGED <<source, current, totalItems, totalChunks, wg, workers, inventory, ledger>>
      /\ UNCHANGED <<cancelled, interrupted, errors, collector>>
    BY DEF EndDispatch, CloseResults, WorkersDone, IInv, ReadInv, pool, contexts
<1>2. Onward
    BY <1>1 DEF Onward, source
<1>3. ~Submitting /\ ~Submitting'
    BY <1>1 DEF Submitting
<1>4. TypeInv'
    BY <1>1 DEF IInv, TypeInv, source, errors
<1>5. ReadInv'
    BY <1>1, <1>2, ReadFrame DEF IInv
<1>6. PoolInv'
    <2>1. IsFiniteSet(workers) /\ Cardinality(workers) \in Nat
        BY FS_CardinalityType DEF IInv, PoolInv
    <2>2. dispatcher' = "closed" => Cardinality(workers) = 0
        BY <1>1, <1>3, <2>1 DEF IInv, PoolInv
    <2>3. dispatcher' = "closed" => workers' = {}
        BY <1>1, <2>1, <2>2, FS_EmptySet
    <2> QED
        BY <1>1, <1>3, <2>3 DEF IInv, PoolInv
<1>7. ChunkInv'
    BY <1>1 DEF IInv, ChunkInv, source
<1>8. LedgerInv'
    BY <1>1, <1>2, <1>3, OnwardBroken DEF IInv, LedgerInv
<1>9. CauseInv'
    BY <1>1 DEF IInv, CauseInv, Returned, errors, source
<1> QED
    BY <1>4, <1>5, <1>6, <1>7, <1>8, <1>9 DEF IInv

-----------------------------------------------------------------------------
(***************************************************************************)
(* The workers.                                                            *)
(***************************************************************************)
\* A worker enters its next phase with the chunk it has.
LEMMA EnterKeepsPool ==
    ASSUME TypeInv, PoolInv, NEW w \in workers,
           NEW p \in {"writing", "written", "failed", "leaving"}, Enter(w, p),
           UNCHANGED <<dispatcher, current, totalChunks, wg>>
    PROVE  /\ workers' = (workers \ {w}) \cup {[chunk |-> w.chunk, phase |-> p]}
           /\ workers' \subseteq [chunk : Chunk, phase : {"writing", "written", "failed", "leaving"}]
           /\ PoolInv'
<1> DEFINE new == [chunk |-> w.chunk, phase |-> p]
<1>1. w \in [chunk : Chunk, phase : {"writing", "written", "failed", "leaving"}]
    BY DEF TypeInv
<1>2. [w EXCEPT !.phase = p] = new
    BY <1>1
<1>3. workers' = (workers \ {w}) \cup {new}
    BY <1>2 DEF Enter
<1>4. workers' \subseteq [chunk : Chunk, phase : {"writing", "written", "failed", "leaving"}]
    BY <1>1, <1>3 DEF TypeInv
<1>5. \A v \in workers \ {w} : v.chunk.index # new.chunk.index
    BY DEF PoolInv
<1>6. IsFiniteSet(workers') /\ Cardinality(workers') = Cardinality(workers)
    <2>1. IsFiniteSet(workers) /\ Cardinality(workers) \in Nat
        BY FS_CardinalityType DEF PoolInv
    <2>2. IsFiniteSet(workers \ {w}) /\ Cardinality(workers \ {w}) = Cardinality(workers) - 1
        BY <2>1, FS_RemoveElement
    <2>3. new \notin workers \ {w}
        BY <1>5
    <2>4. Cardinality(workers') = Cardinality(workers \ {w}) + 1 /\ IsFiniteSet(workers')
        BY <1>3, <2>2, <2>3, FS_AddElement
    <2> QED
        BY <2>1, <2>2, <2>4
<1>7. \A u, v \in workers' : u.chunk.index = v.chunk.index => u = v
    BY <1>3, <1>5 DEF PoolInv
<1>8. \A v \in workers' : \E u \in workers : v.chunk = u.chunk
    BY <1>3
<1>9. dispatcher # "closed"
    BY DEF PoolInv
<1> QED
    BY <1>3, <1>4, <1>6, <1>7, <1>8, <1>9 DEF PoolInv, Submitting

LEMMA WriteKeeps ==
    ASSUME IInv, NEW w \in workers, Write(w)
    PROVE  IInv'
<1>1. /\ w.phase = "writing" /\ Enter(w, "written") /\ ledger' = ledger \cup {w.chunk}
      /\ UNCHANGED <<source, dispatch, wg, inventory, cancelled, interrupted, errors, collector>>
    BY DEF Write, contexts
<1>2. Onward
    BY <1>1 DEF Onward, source
<1>3. /\ workers' = (workers \ {w}) \cup {[chunk |-> w.chunk, phase |-> "written"]}
      /\ workers' \subseteq [chunk : Chunk, phase : {"writing", "written", "failed", "leaving"}]
      /\ PoolInv'
    BY <1>1, EnterKeepsPool DEF IInv, dispatch
<1>4. w.chunk \in Chunk
    BY DEF IInv, TypeInv
<1>5. TypeInv'
    BY <1>1, <1>3, <1>4 DEF IInv, TypeInv, source, dispatch, errors
<1>6. ReadInv'
    BY <1>1, <1>2, ReadFrame DEF IInv, ReadInv, dispatch
<1>7. ChunkInv'
    <2>1. readError \/ w.chunk = Whole(w.chunk.index)
        BY DEF IInv, ChunkInv
    <2>2. ~readError => w.chunk \in WholeChunks
        BY <1>4, <2>1, ChunkOfFile
    <2> QED
        BY <1>1, <1>3, <2>1, <2>2 DEF IInv, ChunkInv, source, dispatch, Unbroken, Cancelled
<1>8. LedgerInv'
    <2>1. ASSUME Unbroken', NEW k \in 0..(totalChunks - 1), Whole(k) \notin ledger',
                 ~(Submitting /\ k = current.index)
          PROVE  \E v \in workers' : v.chunk.index = k /\ v.phase = "writing"
        <3>1. PICK v \in workers : v.chunk.index = k /\ v.phase = "writing"
            BY <1>1, <1>2, <2>1, OnwardBroken DEF IInv, LedgerInv
        <3>2. v # w
            <4>1. ~readError
                BY <1>2, <2>1, OnwardBroken DEF Unbroken
            <4> QED
                BY <1>1, <2>1, <3>1, <4>1 DEF IInv, ChunkInv
        <3> QED
            BY <1>3, <3>1, <3>2
    <2>2. Submitting' = Submitting
        BY <1>1 DEF Submitting, dispatch
    <2> QED
        BY <1>1, <1>2, <2>1, <2>2, OnwardBroken DEF IInv, LedgerInv, dispatch
<1>9. CauseInv'
    <2>1. collector = "receiving"
        BY DEF IInv, CauseInv, PoolInv
    <2>2. \A v \in workers : v.phase = "failed" => v \in workers'
        BY <1>1, <1>3
    <2> QED
        BY <1>1, <2>1, <2>2 DEF IInv, CauseInv, Returned, errors, dispatch
<1> QED
    BY <1>3, <1>5, <1>6, <1>7, <1>8, <1>9 DEF IInv

LEMMA FailWriteKeeps ==
    ASSUME IInv, NEW w \in workers, FailWrite(w)
    PROVE  IInv'
<1>1. /\ w.phase = "writing" /\ Enter(w, "failed") /\ cancelled' = TRUE
      /\ UNCHANGED <<source, dispatch, wg, inventory, ledger, interrupted, errors, collector>>
    BY DEF FailWrite
<1>2. Onward /\ ~Unbroken'
    BY <1>1 DEF Onward, source, Unbroken, Cancelled
<1>3. /\ workers' = (workers \ {w}) \cup {[chunk |-> w.chunk, phase |-> "failed"]}
      /\ workers' \subseteq [chunk : Chunk, phase : {"writing", "written", "failed", "leaving"}]
      /\ PoolInv'
    BY <1>1, EnterKeepsPool DEF IInv, dispatch
<1>4. TypeInv'
    BY <1>1, <1>3 DEF IInv, TypeInv, source, dispatch, errors
<1>5. ReadInv'
    BY <1>1, <1>2, ReadFrame DEF IInv, ReadInv, dispatch
<1>6. ChunkInv'
    BY <1>1, <1>2, <1>3 DEF IInv, ChunkInv, source, dispatch
<1>7. LedgerInv'
    BY <1>1, <1>2 DEF IInv, LedgerInv
<1>8. CauseInv'
    <2>1. collector = "receiving"
        BY DEF IInv, CauseInv, PoolInv
    <2>2. [chunk |-> w.chunk, phase |-> "failed"] \in workers'
        BY <1>3
    <2>3. \E v \in workers' : v.phase = "failed"
        BY <2>2
    <2> QED
        BY <1>1, <2>1, <2>3 DEF IInv, CauseInv
<1> QED
    BY <1>3, <1>4, <1>5, <1>6, <1>7, <1>8 DEF IInv

LEMMA ReportKeeps ==
    ASSUME IInv, NEW w \in workers, Report(w)
    PROVE  IInv'
<1>1. /\ w.phase \in {"written", "failed"} /\ Enter(w, "leaving")
      /\ workerError' = (workerError \/ w.phase = "failed")
      /\ UNCHANGED <<source, dispatch, wg, inventory, ledger, contexts, sourceError, collector>>
    BY DEF Report
<1>2. Onward
    BY <1>1 DEF Onward, source, contexts
<1>3. /\ workers' = (workers \ {w}) \cup {[chunk |-> w.chunk, phase |-> "leaving"]}
      /\ workers' \subseteq [chunk : Chunk, phase : {"writing", "written", "failed", "leaving"}]
      /\ PoolInv'
    BY <1>1, EnterKeepsPool DEF IInv, dispatch
<1>4. TypeInv'
    <2>1. workerError' \in BOOLEAN
        BY <1>1
    <2> QED
        BY <1>1, <1>3, <2>1 DEF IInv, TypeInv, source, dispatch, contexts
<1>5. ReadInv'
    BY <1>1, <1>2, ReadFrame DEF IInv, ReadInv, dispatch
<1>6. ChunkInv'
    <2>1. readError \/ w.chunk = Whole(w.chunk.index)
        BY DEF IInv, ChunkInv
    <2> QED
        BY <1>1, <1>3, <2>1 DEF IInv, ChunkInv, source, dispatch, contexts, Unbroken, Cancelled
<1>7. LedgerInv'
    <2>1. \A v \in workers : v.phase = "writing" => v \in workers'
        BY <1>1, <1>3
    <2>2. Submitting' = Submitting
        BY <1>1 DEF Submitting, dispatch
    <2> QED
        BY <1>1, <1>2, <2>1, <2>2, OnwardBroken DEF IInv, LedgerInv, dispatch
<1>8. CauseInv'
    <2>1. collector = "receiving"
        BY DEF IInv, CauseInv, PoolInv
    <2>2. workerError => workerError'
        BY <1>1
    <2>3. \A v \in workers : v.phase = "failed" => v \in workers' \/ workerError'
        BY <1>1, <1>3
    <2> QED
        BY <1>1, <2>1, <2>2, <2>3 DEF IInv, CauseInv, Returned, contexts
<1> QED
    BY <1>3, <1>4, <1>5, <1>6, <1>7, <1>8 DEF IInv

LEMMA LeavePoolKeeps ==
    ASSUME IInv, NEW w \in workers, LeavePool(w)
    PROVE  IInv'
<1>1. /\ w.phase = "leaving" /\ workers' = workers \ {w} /\ wg' = wg - 1
      /\ UNCHANGED <<source, dispatch, inventory, ledger, contexts, errors, collector>>
    BY DEF LeavePool
<1>2. Onward
    BY <1>1 DEF Onward, source, contexts
<1>3. TypeInv'
    BY <1>1 DEF IInv, TypeInv, source, dispatch, contexts, errors
<1>4. ReadInv'
    BY <1>1, <1>2, ReadFrame DEF IInv, ReadInv, dispatch
<1>5. Submitting' = Submitting
    BY <1>1 DEF Submitting, dispatch
<1>6. PoolInv'
    <2>1. IsFiniteSet(workers) /\ Cardinality(workers) \in Nat
        BY FS_CardinalityType DEF IInv, PoolInv
    <2>2. IsFiniteSet(workers') /\ Cardinality(workers') = Cardinality(workers) - 1
        BY <1>1, <2>1, FS_RemoveElement
    <2>3. Cardinality(workers') \in Nat
        BY <2>2, FS_CardinalityType
    <2>4. /\ wg' = Cardinality(workers') + (IF Submitting' THEN 1 ELSE 0)
          /\ Cardinality(workers') <= MaxWorkers
        <3>1. wg = Cardinality(workers) + (IF Submitting THEN 1 ELSE 0)
              /\ Cardinality(workers) <= MaxWorkers
            BY DEF IInv, PoolInv
        <3>2. CASE Submitting
            BY <1>1, <1>5, <2>1, <2>2, <2>3, <3>1, <3>2, ConstantsAssumption
        <3>3. CASE ~Submitting
            BY <1>1, <1>5, <2>1, <2>2, <2>3, <3>1, <3>3, ConstantsAssumption
        <3> QED
            BY <3>2, <3>3
    <2> QED
        BY <1>1, <1>5, <2>2, <2>4 DEF IInv, PoolInv, dispatch
<1>7. ChunkInv'
    BY <1>1 DEF IInv, ChunkInv, source, dispatch, contexts, Unbroken, Cancelled
<1>8. LedgerInv'
    <2>1. \A v \in workers : v.phase = "writing" => v \in workers'
        BY <1>1
    <2> QED
        BY <1>1, <1>2, <1>5, <2>1, OnwardBroken DEF IInv, LedgerInv, dispatch
<1>9. CauseInv'
    <2>1. \A v \in workers : v.phase = "failed" => v \in workers'
        BY <1>1
    <2> QED
        BY <1>1, <2>1 DEF IInv, CauseInv, Returned, contexts, errors, source, dispatch
<1> QED
    BY <1>3, <1>4, <1>6, <1>7, <1>8, <1>9 DEF IInv

-----------------------------------------------------------------------------
(***************************************************************************)
(* The collector.                                                          *)
(***************************************************************************)
LEMMA EndCollectKeeps ==
    ASSUME IInv, EndCollect
    PROVE  IInv'
<1>1. /\ dispatcher = "closed"
      /\ collector' = IF workerError \/ sourceError THEN "failed" ELSE "finalizing"
      /\ cancelled' = (cancelled \/ workerError \/ sourceError)
      /\ UNCHANGED <<source, dispatch, pool, inventory, ledger, interrupted, errors>>
    BY DEF EndCollect
<1>2. cancelled' \in BOOLEAN /\ (cancelled => cancelled')
    BY <1>1
<1>3. Onward
    BY <1>1, <1>2 DEF Onward, source
<1>4. TypeInv'
    <2>1. collector' \in {"finalizing", "failed"}
        BY <1>1
    <2> QED
        BY <1>1, <1>2, <2>1 DEF IInv, TypeInv, source, dispatch, pool, errors
<1>5. ReadInv'
    BY <1>1, <1>3, ReadFrame DEF IInv, ReadInv, dispatch
<1>6. CauseInv'
    <2>1. CASE workerError \/ sourceError
        BY <1>1, <2>1 DEF CauseInv, Returned, dispatch
    <2>2. CASE ~workerError /\ ~sourceError
        <3>1. collector' = "finalizing" /\ (cancelled' => cancelled)
            BY <1>1, <2>2
        <3>2. collector = "receiving"
            BY DEF EndCollect
        <3> QED
            BY <1>1, <2>2, <3>1, <3>2 DEF IInv, CauseInv, Returned, dispatch, pool, errors
    <2> QED
        BY <2>1, <2>2
<1> QED
    BY <1>1, <1>3, <1>4, <1>5, <1>6, PoolFrame, ChunkFrame, LedgerFrame DEF IInv, dispatch, pool

\* With nothing broken, the ledger of a pass whose results are closed is the file.
LEMMA ClosedCovers ==
    ASSUME IInv, dispatcher = "closed", Unbroken
    PROVE  ledger = WholeChunks
<1>1. totalChunks \in Nat /\ totalItems \in Nat /\ Items \in Nat
    BY ConstantsAssumption DEF IInv, TypeInv
<1>2. workers = {} /\ ~Submitting /\ totalItems = Items
    BY <1>1 DEF IInv, PoolInv, ReadInv, Submitting
<1>3. totalChunks = ChunkCount
    BY <1>1, <1>2, CountIs DEF IInv, ReadInv
<1>4. \A k \in 0..(ChunkCount - 1) : Whole(k) \in ledger
    BY <1>2, <1>3 DEF IInv, LedgerInv
<1>5. WholeChunks \subseteq ledger
    <2> SUFFICES ASSUME NEW c \in WholeChunks PROVE c \in ledger
        OBVIOUS
    <2>1. c.index \in 0..(ChunkCount - 1) /\ c = Whole(c.index)
        BY WholeIs
    <2> QED
        BY <1>4, <2>1
<1>6. inventory \subseteq WholeChunks
    <2> SUFFICES ASSUME NEW c \in inventory PROVE c \in WholeChunks
        OBVIOUS
    <2>1. c \in Chunk /\ c = Whole(c.index)
        BY <1>3 DEF IInv, TypeInv, LedgerInv
    <2> QED
        BY <2>1, ChunkOfFile
<1>7. ledger \ inventory \subseteq WholeChunks
    BY DEF IInv, ChunkInv, Unbroken
<1> QED
    BY <1>5, <1>6, <1>7

LEMMA FinalizeKeeps ==
    ASSUME IInv, Finalize
    PROVE  IInv'
<1>1. /\ collector = "finalizing" /\ cancelled' = TRUE
      /\ collector' \in {"completed", "failed"}
      /\ collector' = "completed" => ~interrupted
      /\ UNCHANGED <<source, dispatch, pool, inventory, ledger, interrupted, errors>>
    BY DEF Finalize, Completable
<1>2. Onward
    BY <1>1 DEF Onward, source
<1>3. TypeInv'
    BY <1>1 DEF IInv, TypeInv, source, dispatch, pool, errors
<1>4. ReadInv'
    BY <1>1, <1>2, ReadFrame DEF IInv, ReadInv, dispatch
<1>5. CauseInv'
    <2>1. dispatcher = "closed" /\ ~cancelled
        BY <1>1 DEF IInv, CauseInv, PoolInv, Returned
    <2>2. ASSUME collector' = "completed", ~readError PROVE ledger = WholeChunks
        BY <1>1, <2>1, <2>2, ClosedCovers DEF Unbroken, Cancelled
    <2> QED
        BY <1>1, <2>1, <2>2 DEF IInv, CauseInv, Returned, source, dispatch
<1> QED
    BY <1>1, <1>2, <1>3, <1>4, <1>5, PoolFrame, ChunkFrame, LedgerFrame DEF IInv, dispatch, pool

-----------------------------------------------------------------------------
(***************************************************************************)
(* The invariant and the theorems.                                         *)
(***************************************************************************)
LEMMA NextKeeps == IInv /\ [Next]_vars => IInv'
<1> SUFFICES ASSUME IInv, [Next]_vars PROVE IInv'
    OBVIOUS
<1>1. CASE Source
    BY <1>1, SourceKeeps
<1>2. CASE Dispatcher
    BY <1>2, DispatchKeeps, SelectKeeps, RefuseKeeps, StartWorkerKeeps, EndDispatchKeeps
    DEF Dispatcher
<1>3. CASE \E w \in workers : Worker(w)
    BY <1>3, WriteKeeps, FailWriteKeeps, ReportKeeps, LeavePoolKeeps DEF Worker
<1>4. CASE Collector
    BY <1>4, EndCollectKeeps, FinalizeKeeps DEF Collector
<1>5. CASE Interrupt
    BY <1>5, InterruptKeeps
<1>6. CASE UNCHANGED vars
    <2>1. /\ UNCHANGED <<source, dispatch, pool, inventory, ledger, contexts, errors, collector>>
        BY <1>6 DEF vars
    <2>2. Onward
        BY <2>1 DEF Onward, source, contexts
    <2>3. TypeInv'
        BY <2>1 DEF IInv, TypeInv, source, dispatch, pool, contexts, errors
    <2>4. ReadInv'
        BY <2>1, <2>2, ReadFrame DEF IInv, ReadInv, dispatch
    <2> QED
        BY <2>1, <2>2, <2>3, <2>4, PoolFrame, ChunkFrame, LedgerFrame, CauseFrame
        DEF IInv, dispatch, pool, contexts
<1> QED
    BY <1>1, <1>2, <1>3, <1>4, <1>5, <1>6 DEF Next, Terminated

LEMMA IInvHolds == Spec => []IInv
<1> QED
    BY InitHolds, NextKeeps, PTL DEF Spec

\* Every goroutine's memory is well typed, and the WaitGroup counts at most the pool and the
\* chunk that is submitted (processRelationChunksWithFinalizer).
THEOREM PipelineTypeCorrect == Spec => []PipelineTypeOK
<1>1. IInv => PipelineTypeOK
    <2> SUFFICES ASSUME IInv PROVE PipelineTypeOK
        OBVIOUS
    <2>1. Cardinality(workers) \in Nat
        BY FS_CardinalityType DEF IInv, PoolInv
    <2>2. wg \in 0..(MaxWorkers + 1)
        <3>1. wg = Cardinality(workers) \/ wg = Cardinality(workers) + 1
            BY <2>1 DEF IInv, PoolInv
        <3> QED
            BY <2>1, <3>1, ConstantsAssumption, SMT DEF IInv, PoolInv
    <2>3. totalItems \in 0..Items
        BY ConstantsAssumption, SMT DEF IInv, TypeInv, ReadInv
    <2>4. totalChunks \in 0..ChunkCount
        <3>1. ChunkSize \in Nat /\ ChunkSize > 0 /\ Items \in Nat /\ totalChunks \in Nat
              /\ totalItems \in 0..Items /\ totalChunks * ChunkSize < totalItems + ChunkSize
            BY <2>3, ConstantsAssumption DEF IInv, TypeInv, ReadInv
        <3>2. CASE totalChunks = 0
            BY <3>2, CountBounds, SMT
        <3>3. CASE totalChunks > 0
            <4>1. totalChunks - 1 \in Nat /\ (totalChunks - 1) + 1 = totalChunks
                BY <3>1, <3>3, SMT
            <4>2. (totalChunks - 1) * ChunkSize \in Nat
                  /\ totalChunks * ChunkSize = (totalChunks - 1) * ChunkSize + ChunkSize
                BY <4>1, Monotone
            <4>3. (totalChunks - 1) * ChunkSize < Items
                BY <3>1, <4>2, SMT
            <4>4. totalChunks - 1 < ChunkCount
                BY <4>1, <4>3, IndexBound
            <4> QED
                BY <3>1, <4>1, <4>4, CountBounds, SMT
        <3> QED
            BY <3>1, <3>2, <3>3, SMT
    <2>5. {cancelled, interrupted, sourceError, workerError} \subseteq BOOLEAN
        BY DEF IInv, TypeInv
    <2> QED
        BY <2>2, <2>3, <2>4, <2>5 DEF IInv, TypeInv, PipelineTypeOK
<1> QED
    BY <1>1, IInvHolds, PTL

\* The step does not return while a worker has a transaction open or a result to send.
THEOREM WorkersAwaited == Spec => []StepWaitsForWorkers
<1>1. IInv => StepWaitsForWorkers
    BY DEF IInv, PoolInv, StepWaitsForWorkers
<1> QED
    BY <1>1, IInvHolds, PTL

\* What a cancellation cut short is never committed as a chunk (submitWorker).
THEOREM WholeChunksOnly == Spec => []OnlyWholeChunksCommitted
<1>1. IInv => OnlyWholeChunksCommitted
    BY DEF IInv, ChunkInv, OnlyWholeChunksCommitted
<1> QED
    BY <1>1, IInvHolds, PTL

\* A pass that completes its entity has committed every chunk of the file.
THEOREM CompletedCovers == Spec => []CompletedCoversSource
<1>1. IInv => CompletedCoversSource
    BY DEF IInv, CauseInv, CompletedCoversSource
<1> QED
    BY <1>1, IInvHolds, PTL
=============================================================================
