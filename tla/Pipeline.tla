------------------------------ MODULE Pipeline ------------------------------
(***************************************************************************)
(* Pipeline.run: the goroutines of one backup and the channels between     *)
(* them.                                                                   *)
(*                                                                         *)
(*   chunker --chunkCh--> hash workers --preparedCh--> sequencer           *)
(*           --orderedCh--> store loop (run's own goroutine)               *)
(*                                                                         *)
(* Chunk k of the source is the number k, its position in the stream.  The *)
(* context is cancelled by the caller (SIGINT), by a worker whose          *)
(* encryption fails, and by run itself when it returns.  A select with     *)
(* both cases ready takes either.                                          *)
(***************************************************************************)
EXTENDS Naturals, Sequences, FiniteSets

CONSTANTS
    N,               \* chunks in the source
    Worker,          \* the hash workers
    Cap,             \* capacity of each channel
    CallerCancels,   \* may the caller cancel?
    StepsFail        \* may encryption, a read, a store or the save fail?

ASSUME PipelineAssumption ==
    /\ N \in Nat /\ Cap \in Nat \ {0}
    /\ IsFiniteSet(Worker) /\ Worker # {}
    /\ CallerCancels \in BOOLEAN /\ StepsFail \in BOOLEAN

VARIABLES
    chunker,         \* "next": about to read; "send": holds chunk seq; "done"
    seq,             \* the chunker's current chunk
    chunkerDone,     \* the value sent on chunkerDone: "none", "nil" or "err"
    chunkCh,         \* closed when the chunker is done
    worker,          \* Idle: receiving; k: holds chunk k; Gone: returned
    preparedCh,      \* closed when every worker is done
    sequencer,       \* "recv", "emit", "drain" or "done"
    heap, nextSeq,   \* the sequencer's min-heap and next chunk to emit
    orderedCh,       \* closed when the sequencer is done
    entries,         \* the chunks stored and written to the sidecar, in order
    ckpt,            \* [at, prefix] of the last checkpoint; at = 0: none
    cancelled,       \* ctx.Err() # nil
    parent,          \* parentCtx.Err() # nil
    workerErr,       \* a worker's encryption failed
    run              \* where run is, and the verdict it will return

vars == <<chunker, seq, chunkerDone, chunkCh, worker, preparedCh, sequencer,
          heap, nextSeq, orderedCh, entries, ckpt, cancelled, parent,
          workerErr, run>>

Chunk     == 1 .. N
RunAt     == {"loop", "await", "unwind", "returned"}
Verdict   == {"none", "saved", "failed", "suspended"}
NoCkpt    == [at |-> 0, prefix |-> <<>>]
UpTo(k)   == [i \in 1 .. k |-> i]
Minimum(S) == CHOOSE x \in S : \A y \in S : x <= y

Idle == 0
Gone == N + 1
WorkersDone == \A w \in Worker : worker[w] = Gone

Init ==
    /\ chunker = "next" /\ seq = 1 /\ chunkerDone = "none" /\ chunkCh = <<>>
    /\ worker = [w \in Worker |-> Idle] /\ preparedCh = <<>>
    /\ sequencer = "recv" /\ heap = {} /\ nextSeq = 1 /\ orderedCh = <<>>
    /\ entries = <<>> /\ ckpt = NoCkpt
    /\ cancelled = FALSE /\ parent = FALSE /\ workerErr = FALSE
    /\ run = [at |-> "loop", verdict |-> "none"]

CallerCancel ==
    /\ CallerCancels /\ ~parent
    /\ run.at # "returned"
    /\ parent' = TRUE /\ cancelled' = TRUE
    /\ UNCHANGED <<chunker, seq, chunkerDone, chunkCh, worker, preparedCh,
                   sequencer, heap, nextSeq, orderedCh, entries, ckpt,
                   workerErr, run>>

-----------------------------------------------------------------------------
(* Stage 1: the chunker *)

ChunkerExit(result) == chunker' = "done" /\ chunkerDone' = result

ChunkerNext ==
    /\ chunker = "next"
    /\ \/ cancelled /\ ChunkerExit("err")
       \/ ~cancelled /\ seq > N /\ ChunkerExit("nil")
       \/ ~cancelled /\ StepsFail /\ ChunkerExit("err")
       \/ ~cancelled /\ seq <= N /\ chunker' = "send" /\ UNCHANGED chunkerDone
    /\ UNCHANGED <<seq, chunkCh, worker, preparedCh, sequencer, heap, nextSeq,
                   orderedCh, entries, ckpt, cancelled, parent, workerErr, run>>

\* Altered: a send that does not wait for room in the channel.
ChunkerSendUnbounded ==
    /\ chunker = "send"
    /\ chunkCh' = Append(chunkCh, seq) /\ seq' = seq + 1
    /\ chunker' = "next"
    /\ UNCHANGED <<chunkerDone, worker, preparedCh, sequencer, heap, nextSeq,
                   orderedCh, entries, ckpt, cancelled, parent, workerErr, run>>

ChunkerSend ==
    /\ chunker = "send"
    /\ \/ /\ Len(chunkCh) < Cap
          /\ chunkCh' = Append(chunkCh, seq) /\ seq' = seq + 1
          /\ chunker' = "next" /\ UNCHANGED chunkerDone
       \/ /\ cancelled
          /\ ChunkerExit("err")
          /\ UNCHANGED <<chunkCh, seq>>
    /\ UNCHANGED <<worker, preparedCh, sequencer, heap, nextSeq, orderedCh,
                   entries, ckpt, cancelled, parent, workerErr, run>>

-----------------------------------------------------------------------------
(* Stage 2: the hash workers *)

WorkerRecv(w) ==
    /\ worker[w] = Idle
    /\ \/ /\ chunkCh # <<>>
          /\ worker' = [worker EXCEPT ![w] = Head(chunkCh)]
          /\ chunkCh' = Tail(chunkCh)
       \/ /\ chunkCh = <<>> /\ chunker = "done"
          /\ worker' = [worker EXCEPT ![w] = Gone]
          /\ UNCHANGED chunkCh
    /\ UNCHANGED <<chunker, seq, chunkerDone, preparedCh, sequencer, heap,
                   nextSeq, orderedCh, entries, ckpt, cancelled, parent,
                   workerErr, run>>

WorkerEncryptFails(w) ==
    /\ StepsFail /\ worker[w] \in Chunk
    /\ workerErr' = TRUE /\ cancelled' = TRUE
    /\ worker' = [worker EXCEPT ![w] = Gone]
    /\ UNCHANGED <<chunker, seq, chunkerDone, chunkCh, preparedCh, sequencer,
                   heap, nextSeq, orderedCh, entries, ckpt, parent, run>>

\* Altered: a plain send, without the ctx.Done case of the select.
WorkerDeliverBlocks(w) ==
    /\ worker[w] \in Chunk /\ Len(preparedCh) < Cap
    /\ preparedCh' = Append(preparedCh, worker[w])
    /\ worker' = [worker EXCEPT ![w] = Idle]
    /\ UNCHANGED <<chunker, seq, chunkerDone, chunkCh, sequencer, heap, nextSeq,
                   orderedCh, entries, ckpt, cancelled, parent, workerErr, run>>

WorkerDeliver(w) ==
    /\ worker[w] \in Chunk
    /\ \/ /\ Len(preparedCh) < Cap
          /\ preparedCh' = Append(preparedCh, worker[w])
          /\ worker' = [worker EXCEPT ![w] = Idle]
       \/ /\ cancelled
          /\ worker' = [worker EXCEPT ![w] = Gone]
          /\ UNCHANGED preparedCh
    /\ UNCHANGED <<chunker, seq, chunkerDone, chunkCh, sequencer, heap, nextSeq,
                   orderedCh, entries, ckpt, cancelled, parent, workerErr, run>>

-----------------------------------------------------------------------------
(* The sequencer *)

SequencerRecv ==
    /\ sequencer = "recv"
    /\ \/ /\ preparedCh # <<>>
          /\ heap' = heap \cup {Head(preparedCh)}
          /\ preparedCh' = Tail(preparedCh)
          /\ sequencer' = "emit"
       \/ /\ preparedCh = <<>> /\ WorkersDone
          /\ sequencer' = "drain"
          /\ UNCHANGED <<heap, preparedCh>>
    /\ UNCHANGED <<chunker, seq, chunkerDone, chunkCh, worker, nextSeq,
                   orderedCh, entries, ckpt, cancelled, parent, workerErr, run>>

\* Altered: emits the least chunk it holds, whether or not it is the next.
SequencerEmitAny ==
    /\ sequencer = "emit"
    /\ \/ /\ heap = {}
          /\ sequencer' = "recv"
          /\ UNCHANGED <<heap, nextSeq, orderedCh>>
       \/ /\ heap # {} /\ Len(orderedCh) < Cap
          /\ orderedCh' = Append(orderedCh, Minimum(heap))
          /\ heap' = heap \ {Minimum(heap)} /\ nextSeq' = Minimum(heap) + 1
          /\ UNCHANGED sequencer
       \/ /\ heap # {} /\ cancelled
          /\ sequencer' = "done"
          /\ UNCHANGED <<heap, nextSeq, orderedCh>>
    /\ UNCHANGED <<chunker, seq, chunkerDone, chunkCh, worker, preparedCh,
                   entries, ckpt, cancelled, parent, workerErr, run>>

SequencerEmit ==
    /\ sequencer = "emit"
    /\ \/ /\ nextSeq \notin heap
          /\ sequencer' = "recv"
          /\ UNCHANGED <<heap, nextSeq, orderedCh>>
       \/ /\ nextSeq \in heap /\ Len(orderedCh) < Cap
          /\ orderedCh' = Append(orderedCh, nextSeq)
          /\ heap' = heap \ {nextSeq} /\ nextSeq' = nextSeq + 1
          /\ UNCHANGED sequencer
       \/ /\ nextSeq \in heap /\ cancelled
          /\ sequencer' = "done"
          /\ UNCHANGED <<heap, nextSeq, orderedCh>>
    /\ UNCHANGED <<chunker, seq, chunkerDone, chunkCh, worker, preparedCh,
                   entries, ckpt, cancelled, parent, workerErr, run>>

\* After preparedCh closes: whatever is left, in order, gaps or not.
SequencerDrain ==
    /\ sequencer = "drain"
    /\ \/ /\ heap = {}
          /\ sequencer' = "done"
          /\ UNCHANGED <<heap, orderedCh>>
       \/ /\ heap # {} /\ Len(orderedCh) < Cap
          /\ orderedCh' = Append(orderedCh, Minimum(heap))
          /\ heap' = heap \ {Minimum(heap)}
          /\ UNCHANGED sequencer
       \/ /\ heap # {} /\ cancelled
          /\ sequencer' = "done"
          /\ UNCHANGED <<heap, orderedCh>>
    /\ UNCHANGED <<chunker, seq, chunkerDone, chunkCh, worker, preparedCh,
                   nextSeq, entries, ckpt, cancelled, parent, workerErr, run>>

-----------------------------------------------------------------------------
(* Stage 3: the store loop, and how run returns *)

\* Deferred: cancel the context, wait for the workers.
Unwind(verdict) ==
    /\ run' = [at |-> "unwind", verdict |-> verdict]
    /\ cancelled' = TRUE

\* seal: storing this chunk began a new pack, so a checkpoint is written that
\* resumes at it.
StoreChunk(seal) ==
    /\ run.at = "loop" /\ orderedCh # <<>>
    /\ ckpt' = IF seal THEN [at |-> Head(orderedCh), prefix |-> entries]
               ELSE ckpt
    /\ entries' = Append(entries, Head(orderedCh))
    /\ orderedCh' = Tail(orderedCh)
    /\ UNCHANGED <<chunker, seq, chunkerDone, chunkCh, worker, preparedCh,
                   sequencer, heap, nextSeq, cancelled, parent, workerErr, run>>

StoreFails ==
    /\ StepsFail
    /\ run.at = "loop" /\ orderedCh # <<>>
    /\ Unwind("failed")
    /\ orderedCh' = Tail(orderedCh)
    /\ UNCHANGED <<chunker, seq, chunkerDone, chunkCh, worker, preparedCh,
                   sequencer, heap, nextSeq, entries, ckpt, parent, workerErr>>

\* Altered: the workers' error is not looked at.
LoopEndsUnchecked ==
    /\ run.at = "loop" /\ orderedCh = <<>> /\ sequencer = "done"
    /\ run' = [run EXCEPT !.at = "await"]
    /\ UNCHANGED <<chunker, seq, chunkerDone, chunkCh, worker, preparedCh,
                   sequencer, heap, nextSeq, orderedCh, entries, ckpt, cancelled,
                   parent, workerErr>>

\* orderedCh is closed and empty: look at the workers' error ...
LoopEnds ==
    /\ run.at = "loop" /\ orderedCh = <<>> /\ sequencer = "done"
    /\ \/ workerErr /\ Unwind("failed")
       \/ /\ ~workerErr
          /\ run' = [run EXCEPT !.at = "await"]
          /\ UNCHANGED cancelled
    /\ UNCHANGED <<chunker, seq, chunkerDone, chunkCh, worker, preparedCh,
                   sequencer, heap, nextSeq, orderedCh, entries, ckpt, parent,
                   workerErr>>

\* ... and at the chunker's, which is all that stands before the save.
Finish ==
    /\ run.at = "await" /\ chunkerDone # "none"
    /\ \/ chunkerDone = "err" /\ ckpt # NoCkpt /\ parent /\ Unwind("suspended")
       \/ chunkerDone = "err" /\ ~(ckpt # NoCkpt /\ parent) /\ Unwind("failed")
       \/ chunkerDone = "nil" /\ Unwind("saved")
       \/ chunkerDone = "nil" /\ StepsFail /\ Unwind("failed")
    /\ UNCHANGED <<chunker, seq, chunkerDone, chunkCh, worker, preparedCh,
                   sequencer, heap, nextSeq, orderedCh, entries, ckpt, parent,
                   workerErr>>

Return ==
    /\ run.at = "unwind" /\ WorkersDone
    /\ run' = [run EXCEPT !.at = "returned"]
    /\ UNCHANGED <<chunker, seq, chunkerDone, chunkCh, worker, preparedCh,
                   sequencer, heap, nextSeq, orderedCh, entries, ckpt,
                   cancelled, parent, workerErr>>

-----------------------------------------------------------------------------

ChunkerStep   == ChunkerNext \/ ChunkerSend
WorkerStep(w) == WorkerRecv(w) \/ WorkerEncryptFails(w) \/ WorkerDeliver(w)
SequencerStep == SequencerRecv \/ SequencerEmit \/ SequencerDrain
RunStep       == \/ \E seal \in BOOLEAN : StoreChunk(seal)
                 \/ StoreFails \/ LoopEnds \/ Finish \/ Return

Next ==
    \/ CallerCancel
    \/ ChunkerStep
    \/ \E w \in Worker : WorkerStep(w)
    \/ SequencerStep
    \/ RunStep

\* The Go scheduler runs every goroutine that can proceed; nothing has to fail.
Fairness ==
    /\ WF_vars(ChunkerStep)
    /\ \A w \in Worker : WF_vars(WorkerRecv(w) \/ WorkerDeliver(w))
    /\ WF_vars(SequencerStep)
    /\ WF_vars(RunStep)

Spec == Init /\ [][Next]_vars /\ Fairness

-----------------------------------------------------------------------------
(* Properties *)

\* The type of every variable; the channels stay within their capacity.
TypeOK ==
    /\ chunker \in {"next", "send", "done"} /\ seq \in 1 .. N + 1
    /\ chunkerDone \in {"none", "nil", "err"}
    /\ chunkCh \in Seq(Chunk) /\ Len(chunkCh) <= Cap
    /\ worker \in [Worker -> 0 .. N + 1]
    /\ preparedCh \in Seq(Chunk) /\ Len(preparedCh) <= Cap
    /\ sequencer \in {"recv", "emit", "drain", "done"}
    /\ heap \subseteq Chunk /\ nextSeq \in 1 .. N + 1
    /\ orderedCh \in Seq(Chunk) /\ Len(orderedCh) <= Cap
    /\ entries \in Seq(Chunk)
    /\ ckpt \in [at : 0 .. N, prefix : Seq(Chunk)]
    /\ cancelled \in BOOLEAN /\ parent \in BOOLEAN /\ workerErr \in BOOLEAN
    /\ run \in [at : RunAt, verdict : Verdict]

\* "keeps entries in the sidecar sorted by VolumeOffset without any
\* post-processing sort" (pipeline.go): under any interleaving of the workers
\* and any cancellation, no chunk is recorded twice or out of order.
EntriesAscend ==
    \A i, j \in 1 .. Len(entries) : i < j => entries[i] < entries[j]

\* "emits each chunk only when all earlier chunks have been emitted"
\* (pipeline.go): while nothing has cancelled the context, the sidecar is a
\* prefix of the source.
NoGapUntilCancelled ==
    ~cancelled => entries = UpTo(Len(entries))

\* A backup is saved only with every chunk of its source.
SavedIsComplete ==
    run.verdict = "saved" => entries = UpTo(N)

\* The checkpoint of a suspended backup describes everything before the chunk
\* at which the resume re-reads the source.
SuspendedIsPrefix ==
    run.verdict = "suspended" => ckpt.prefix = UpTo(ckpt.at - 1)

\* run always returns, and every goroutine it started ends: nobody waits for
\* ever on a channel, whatever was cancelled or failed.
AllReturn ==
    <>(run.at = "returned" /\ chunker = "done" /\ WorkersDone
         /\ sequencer = "done")

\* How far the sidecar is a prefix of the source.
Prefixes(s) == {k \in Chunk : k <= Len(s) /\ SubSeq(s, 1, k) = UpTo(k)}
Recorded    == Cardinality(Prefixes(entries))

\* What the goroutines implement together (module OrderedBackup): a loop that
\* records the chunks one after the other, and, unless the caller interrupted
\* it, saves only when it has them all.
Sequential == INSTANCE OrderedBackup WITH
    recorded <- Recorded,
    interrupted <- parent,
    verdict <- run.verdict
ImplementsOrderedBackup == Sequential!Spec
=============================================================================
