--------------------------- MODULE PipelineProofs ---------------------------
(***************************************************************************)
(* For every number of chunks and workers and every capacity of the        *)
(* channels: the sidecar of a backup ascends, it has no gap until the      *)
(* context is cancelled, and a backup nobody interrupted is saved only with *)
(* every chunk of its source.                                              *)
(***************************************************************************)
EXTENDS Pipeline, Integers, SequenceTheorems, WellFoundedInduction, TLAPS

-----------------------------------------------------------------------------
(* Facts about sequences *)

Rng(s)       == {s[i] : i \in 1 .. Len(s)}
Distinct(s)  == \A i, j \in 1 .. Len(s) : i # j => s[i] # s[j]
Ascending(s) == \A i, j \in 1 .. Len(s) : i < j => s[i] < s[j]
\* s continues a count that has reached n.
Counts(s, n) == \A i \in 1 .. Len(s) : s[i] = n + i

\* The elements of s after a send of x on a channel.
LEMMA AppendFacts ==
    ASSUME NEW S, NEW s \in Seq(S), NEW x \in S
    PROVE  /\ Append(s, x) \in Seq(S)
           /\ Len(Append(s, x)) = Len(s) + 1
           /\ \A i \in 1 .. Len(s) : Append(s, x)[i] = s[i]
           /\ Append(s, x)[Len(s) + 1] = x
           /\ Rng(Append(s, x)) = Rng(s) \cup {x}
<1>1. /\ Append(s, x) \in Seq(S)
      /\ Len(Append(s, x)) = Len(s) + 1
      /\ \A i \in 1 .. Len(s) : Append(s, x)[i] = s[i]
      /\ Append(s, x)[Len(s) + 1] = x
  BY AppendProperties
<1>2. Len(s) \in Nat
  BY LenProperties
<1>3. Rng(Append(s, x)) = Rng(s) \cup {x}
  <2>1. ASSUME NEW i \in 1 .. Len(s) + 1
        PROVE  Append(s, x)[i] \in Rng(s) \cup {x}
    BY <1>1, <1>2 DEF Rng
  <2>2. ASSUME NEW y \in Rng(s) PROVE y \in Rng(Append(s, x))
    BY <1>1, <1>2 DEF Rng
  <2>3. x \in Rng(Append(s, x))
    BY <1>1, <1>2 DEF Rng
  <2>4. \A y \in Rng(Append(s, x)) : y \in Rng(s) \cup {x}
    BY <1>1, <2>1 DEF Rng
  <2> QED
    BY <2>2, <2>3, <2>4
<1> QED
  BY <1>1, <1>3

\* ... and after a receive, which takes Head(s).
LEMMA TailFacts ==
    ASSUME NEW S, NEW s \in Seq(S), s # <<>>
    PROVE  /\ Tail(s) \in Seq(S)
           /\ Len(s) \in Nat \ {0} /\ Len(Tail(s)) = Len(s) - 1
           /\ Head(s) = s[1] /\ Head(s) \in S
           /\ \A i \in 1 .. Len(Tail(s)) : Tail(s)[i] = s[i + 1]
           /\ Rng(s) = Rng(Tail(s)) \cup {Head(s)}
<1>1. /\ Head(s) \in S
      /\ Tail(s) \in Seq(S)
      /\ Len(Tail(s)) = Len(s) - 1
      /\ \A i \in 1 .. Len(Tail(s)) : Tail(s)[i] = s[i + 1]
  BY HeadTailProperties
<1>2. Len(s) \in Nat \ {0} /\ Head(s) = s[1]
  BY EmptySeq
<1>3. \A y \in Rng(Tail(s)) : y \in Rng(s)
  BY <1>1, <1>2 DEF Rng
<1>4. Head(s) \in Rng(s)
  BY <1>2 DEF Rng
<1>5. ASSUME NEW i \in 1 .. Len(s) PROVE s[i] \in Rng(Tail(s)) \cup {Head(s)}
  <2>1. CASE i = 1
    BY <2>1, <1>2
  <2>2. CASE i # 1
    <3>1. i - 1 \in 1 .. Len(Tail(s)) /\ s[i] = Tail(s)[i - 1]
      BY <2>2, <1>1, <1>2
    <3> QED
      BY <3>1, SMTT(20) DEF Rng
  <2> QED
    BY <2>1, <2>2
<1>6. \A y \in Rng(s) : y \in Rng(Tail(s)) \cup {Head(s)}
  BY <1>5 DEF Rng
<1> QED
  BY <1>1, <1>2, <1>3, <1>4, <1>6

\* A closed, drained channel holds nothing.
LEMMA EmptyFacts == Rng(<<>>) = {} /\ Len(<<>>) = 0
  BY DEF Rng

\* What is distinct stays distinct, and what was received is gone.
LEMMA DistinctFacts ==
    ASSUME NEW S, NEW s \in Seq(S), Distinct(s)
    PROVE  /\ \A x \in S : x \notin Rng(s) => Distinct(Append(s, x))
           /\ s # <<>> => Distinct(Tail(s)) /\ Head(s) \notin Rng(Tail(s))
<1>1. ASSUME NEW x \in S, x \notin Rng(s) PROVE Distinct(Append(s, x))
  <2>1. \A i \in 1 .. Len(s) : s[i] # x
    BY <1>1 DEF Rng
  <2> QED
    BY <2>1, AppendFacts, LenProperties DEF Distinct
<1>2. ASSUME s # <<>> PROVE Distinct(Tail(s)) /\ Head(s) \notin Rng(Tail(s))
  BY <1>2, TailFacts DEF Distinct, Rng
<1> QED
  BY <1>1, <1>2

\* The same of an ascending sequence.
LEMMA AscendingFacts ==
    ASSUME NEW s \in Seq(Chunk), Ascending(s)
    PROVE  /\ \A x \in Chunk : (\A y \in Rng(s) : y < x) => Ascending(Append(s, x))
           /\ s # <<>> => /\ Ascending(Tail(s))
                          /\ \A y \in Rng(Tail(s)) : Head(s) < y
<1>1. ASSUME NEW x \in Chunk, \A y \in Rng(s) : y < x
      PROVE  Ascending(Append(s, x))
  <2>1. \A i \in 1 .. Len(s) : s[i] < x
    BY <1>1 DEF Rng
  <2> QED
    BY <2>1, AppendFacts, LenProperties DEF Ascending
<1>2. ASSUME s # <<>>
      PROVE Ascending(Tail(s)) /\ \A y \in Rng(Tail(s)) : Head(s) < y
  BY <1>2, TailFacts DEF Ascending, Rng
<1> QED
  BY <1>1, <1>2

\* The same of a count.
LEMMA CountsFacts ==
    ASSUME NEW s \in Seq(Chunk), NEW n \in Nat, Counts(s, n)
    PROVE  /\ \A x \in Chunk : x = n + Len(s) + 1 => Counts(Append(s, x), n)
           /\ s # <<>> => Head(s) = n + 1 /\ Counts(Tail(s), n + 1)
<1>1. ASSUME NEW x \in Chunk, x = n + Len(s) + 1 PROVE Counts(Append(s, x), n)
  BY <1>1, AppendFacts, LenProperties DEF Counts
<1>2. ASSUME s # <<>> PROVE Head(s) = n + 1 /\ Counts(Tail(s), n + 1)
  BY <1>2, TailFacts DEF Counts
<1> QED
  BY <1>1, <1>2

\* A sequence that counts from one is a prefix of the source.
LEMMA CountsIsUpTo ==
    ASSUME NEW s \in Seq(Chunk), Counts(s, 0)
    PROVE  s = UpTo(Len(s))
<1>1. Len(s) \in Nat /\ DOMAIN s = 1 .. Len(s) /\ s = [i \in 1 .. Len(s) |-> s[i]]
  BY LenProperties
<1>2. \A i \in 1 .. Len(s) : s[i] = i
  BY <1>1 DEF Counts
<1> QED
  BY <1>1, <1>2 DEF UpTo

-----------------------------------------------------------------------------
(* The inductive invariant *)

Held    == {worker[w] : w \in Worker} \cap Chunk
Pending == Rng(chunkCh) \cup Held \cup Rng(preparedCh) \cup heap

Typed == TypeOK /\ (chunker = "send" => seq <= N)

\* A chunk on its way to the sequencer is in one place, and has been read.
Once ==
    /\ Distinct(chunkCh) /\ Distinct(preparedCh)
    /\ \A v, w \in Worker : v # w /\ worker[v] \in Chunk => worker[v] # worker[w]
    /\ \A k \in Rng(chunkCh) : k \notin Held \cup Rng(preparedCh) \cup heap
    /\ \A k \in Held : k \notin Rng(preparedCh) \cup heap
    /\ \A k \in Rng(preparedCh) : k \notin heap
    /\ nextSeq <= seq /\ \A k \in Pending : k < seq

\* What is stored, what is in orderedCh and what the sequencer still holds
\* ascend; while it receives, nextSeq lies between what it sent and what comes.
Ordered ==
    /\ Ascending(entries) /\ Ascending(orderedCh)
    /\ \A x \in Rng(entries) : \A y \in Rng(orderedCh) \cup heap : x < y
    /\ \A x \in Rng(orderedCh) : \A y \in heap : x < y
    /\ sequencer \in {"recv", "emit"} =>
          /\ \A x \in Rng(entries) \cup Rng(orderedCh) : x < nextSeq
          /\ \A k \in Pending : nextSeq <= k

\* While nothing has cancelled the context no chunk is lost: every one that was
\* read is stored, sent, or pending, and the stages end one after the other.
NoLoss ==
    ~cancelled =>
        /\ Counts(entries, 0) /\ Counts(orderedCh, Len(entries))
        /\ nextSeq = Len(entries) + Len(orderedCh) + 1
        /\ \A k \in Chunk : nextSeq <= k /\ k < seq => k \in Pending
        /\ sequencer = "recv" => nextSeq \notin heap
        /\ \A w \in Worker : worker[w] = Gone => chunker = "done" /\ chunkCh = <<>>
        /\ sequencer \in {"drain", "done"} =>
              WorkersDone /\ preparedCh = <<>> /\ heap = {}

\* Why run's verdict can be believed when the caller did not interrupt it.
Verdicts ==
    /\ chunkerDone # "none" => chunker = "done"
    /\ chunkerDone = "nil" => seq = N + 1
    /\ run.at \in {"loop", "await"} => run.verdict = "none"
    /\ ~parent =>
          /\ cancelled /\ run.at = "loop" => workerErr
          /\ run.at = "await" => ~cancelled /\ sequencer = "done" /\ orderedCh = <<>>
          /\ run.verdict = "saved" => Counts(entries, 0) /\ Len(entries) = N

PipelineInv == Typed /\ Once /\ Ordered /\ NoLoss /\ Verdicts

\* Pipeline.run: a backup the caller did not interrupt is saved only with every
\* chunk of its source, in order.
UninterruptedIsComplete ==
    run.verdict = "saved" /\ ~parent => entries = UpTo(N)

-----------------------------------------------------------------------------
(* Each action keeps it *)

\* The least of a set of chunks, which the sequencer's drain sends next.
LEMMA MinimumFacts ==
    ASSUME NEW T, T \subseteq Chunk, T # {}
    PROVE  Minimum(T) \in T /\ \A y \in T : Minimum(T) <= y
<1>1. T \subseteq Nat
  BY PipelineAssumption DEF Chunk
<1>2. PICK x \in T : \A y \in T : ~ (<<y, x>> \in OpToRel(<, Nat))
  BY <1>1, NatLessThanWellFounded, WFMin, Zenon
<1>3. ASSUME NEW y \in T PROVE x <= y
  <2>1. <<y, x>> \notin {ss \in Nat \X Nat : ss[1] < ss[2]}
    BY <1>2, Zenon DEF OpToRel
  <2> QED
    BY <2>1, <1>1
<1> QED
  BY <1>3, Zenon DEF Minimum

\* Chunks are numbers, wherever they are.
LEMMA ChunksAreNumbers ==
    ASSUME Typed
    PROVE  /\ Pending \subseteq Chunk /\ Chunk \subseteq Nat
           /\ Rng(entries) \cup Rng(orderedCh) \subseteq Chunk
           /\ nextSeq \in Nat /\ seq \in Nat
<1>1. ASSUME NEW s \in Seq(Chunk) PROVE Rng(s) \subseteq Chunk
  BY ElementOfSeq DEF Rng
<1>2. Chunk \subseteq Nat /\ nextSeq \in Nat /\ seq \in Nat
  BY PipelineAssumption DEF Chunk, Typed, TypeOK
<1> QED
  BY <1>1, <1>2, Zenon DEF Typed, TypeOK, Pending, Held

\* Before the first step nothing has been read.
LEMMA InitInv == Init => PipelineInv
<1> SUFFICES ASSUME Init PROVE PipelineInv
  OBVIOUS
<1>1. Typed
  <2>1. <<>> \in Seq(Chunk) /\ Len(<<>>) = 0
    BY EmptySeq
  <2>2. 0 \in 0 .. N /\ 0 \in 0 .. N + 1 /\ 1 \in 1 .. N + 1 /\ 0 <= Cap
    BY PipelineAssumption
  <2>3. ckpt \in [at : 0 .. N, prefix : Seq(Chunk)]
    BY <2>1, <2>2 DEF Init, NoCkpt
  <2>4. run \in [at : RunAt, verdict : Verdict]
    BY DEF Init, RunAt, Verdict
  <2> QED
    BY <2>1, <2>2, <2>3, <2>4, Zenon DEF Init, Typed, TypeOK, Idle
<1>2. Pending = {}
  BY EmptyFacts DEF Init, Pending, Held, Idle, Chunk
<1>3. Once
  BY <1>2, EmptyFacts DEF Init, Once, Distinct, Pending, Idle, Chunk
<1>4. Ordered
  BY <1>2, EmptyFacts DEF Init, Ordered, Ascending
<1>5. NoLoss
  BY PipelineAssumption, EmptyFacts DEF Init, NoLoss, Counts, Idle, Gone, Chunk
<1>6. Verdicts
  BY DEF Init, Verdicts
<1> QED
  BY <1>1, <1>3, <1>4, <1>5, <1>6 DEF PipelineInv

\* The caller's cancellation moves nothing.
LEMMA CallerCancelKeeps == PipelineInv /\ CallerCancel => PipelineInv'
<1> SUFFICES ASSUME PipelineInv, CallerCancel PROVE PipelineInv'
  OBVIOUS
<1> USE DEF PipelineInv, CallerCancel
<1>1. Typed'
  BY DEF Typed, TypeOK
<1>2. Once' /\ Ordered'
  BY DEF Once, Ordered, Pending, Held
<1>3. NoLoss' /\ Verdicts'
  BY DEF NoLoss, Verdicts
<1> QED
  BY <1>1, <1>2, <1>3

\* Reading on, or ending: the chunker reports nil only past the last chunk.
LEMMA ChunkerNextKeeps == PipelineInv /\ ChunkerNext => PipelineInv'
<1> SUFFICES ASSUME PipelineInv, ChunkerNext PROVE PipelineInv'
  OBVIOUS
<1> USE DEF PipelineInv, ChunkerNext, ChunkerExit
<1>1. Typed'
  BY PipelineAssumption DEF Typed, TypeOK
<1>2. Once' /\ Ordered'
  BY DEF Once, Ordered, Pending, Held
<1>3. NoLoss'
  BY DEF NoLoss, Pending, Held, WorkersDone
<1>4. Verdicts'
  BY PipelineAssumption DEF Verdicts, Typed, TypeOK
<1> QED
  BY <1>1, <1>2, <1>3, <1>4

\* A send puts the chunk just read behind all that were read before it.
LEMMA ChunkerSendKeeps == PipelineInv /\ ChunkerSend => PipelineInv'
<1> SUFFICES ASSUME PipelineInv, ChunkerSend PROVE PipelineInv'
  OBVIOUS
<1> USE DEF PipelineInv
<1>1. CASE chunkCh' = chunkCh /\ seq' = seq
  <2>1. Typed'
    BY <1>1 DEF ChunkerSend, ChunkerExit, Typed, TypeOK
  <2>2. Once' /\ Ordered'
    BY <1>1 DEF ChunkerSend, Once, Ordered, Pending, Held
  <2>3. NoLoss' /\ Verdicts'
    BY <1>1 DEF ChunkerSend, ChunkerExit, NoLoss, Verdicts, Pending, Held,
                WorkersDone, Typed, TypeOK
  <2> QED
    BY <2>1, <2>2, <2>3
<1>2. CASE /\ Len(chunkCh) < Cap
           /\ chunkCh' = Append(chunkCh, seq) /\ seq' = seq + 1
           /\ chunker' = "next" /\ UNCHANGED chunkerDone
  <2>1. chunkCh \in Seq(Chunk) /\ seq \in Chunk /\ chunker = "send" /\ seq \in Nat
    BY PipelineAssumption DEF ChunkerSend, Typed, TypeOK, Chunk
  <2>2. seq \notin Pending
    BY <2>1 DEF Once
  <2>3. /\ Rng(chunkCh') = Rng(chunkCh) \cup {seq} /\ chunkCh' \in Seq(Chunk)
        /\ Len(chunkCh') = Len(chunkCh) + 1 /\ Distinct(chunkCh')
    BY <1>2, <2>1, <2>2, AppendFacts, DistinctFacts DEF Once, Pending
  <2>4. Pending' = Pending \cup {seq} /\ Held' = Held
    BY <2>3 DEF ChunkerSend, Pending, Held
  <2>5. Typed'
    BY <1>2, <2>1, <2>3, PipelineAssumption, LenProperties
    DEF ChunkerSend, Typed, TypeOK, Chunk
  <2>6. nextSeq' <= seq' /\ \A k \in Pending' : k < seq'
    BY <1>2, <2>4, ChunksAreNumbers DEF ChunkerSend, Once
  <2>7. Once'
    BY <1>2, <2>2, <2>3, <2>4, <2>6 DEF ChunkerSend, Once, Pending, Held
  <2>8. Ordered'
    BY <2>4 DEF ChunkerSend, Ordered, Once
  <2>9. NoLoss'
    BY <1>2, <2>1, <2>4 DEF ChunkerSend, NoLoss, WorkersDone, Chunk
  <2>10. Verdicts'
    BY <1>2, <2>1 DEF ChunkerSend, Verdicts
  <2> QED
    BY <2>5, <2>7, <2>8, <2>9, <2>10
<1> QED
  BY <1>1, <1>2 DEF ChunkerSend

\* A worker takes the head of the channel, or leaves once it is closed.
LEMMA WorkerRecvKeeps ==
    ASSUME PipelineInv, NEW w \in Worker, WorkerRecv(w)
    PROVE  PipelineInv'
<1> USE DEF PipelineInv
<1>a. /\ worker \in [Worker -> 0 .. N + 1] /\ chunkCh \in Seq(Chunk)
      /\ Idle \notin Chunk /\ Gone \notin Chunk /\ Gone # Idle
      /\ Gone \in 0 .. N + 1 /\ Chunk \subseteq 0 .. N + 1 /\ N \in Nat
  BY PipelineAssumption DEF Typed, TypeOK, Idle, Gone, Chunk
<1>1. CASE /\ chunkCh # <<>>
           /\ worker' = [worker EXCEPT ![w] = Head(chunkCh)]
           /\ chunkCh' = Tail(chunkCh)
  <2> DEFINE h == Head(chunkCh)
  <2>1. /\ chunkCh' \in Seq(Chunk) /\ h \in Chunk /\ Distinct(chunkCh')
        /\ Len(chunkCh') = Len(chunkCh) - 1 /\ Len(chunkCh) \in Nat
        /\ Rng(chunkCh) = Rng(chunkCh') \cup {h} /\ h \notin Rng(chunkCh')
    <3>1. Distinct(chunkCh') /\ h \notin Rng(chunkCh')
      BY <1>1, <1>a, DistinctFacts DEF Once
    <3> QED
      BY <1>1, <1>a, <3>1, TailFacts
  <2> HIDE DEF h
  <2>2. /\ worker[w] = Idle /\ worker' \in [Worker -> 0 .. N + 1]
        /\ worker'[w] = h /\ \A v \in Worker : v # w => worker'[v] = worker[v]
    BY <1>1, <1>a, <2>1, Zenon DEF WorkerRecv, h
  <2>3. Held' = Held \cup {h}
    <3>1. ASSUME NEW k \in Held PROVE k \in Held'
      BY <3>1, <2>2, <1>a DEF Held, Chunk
    <3>2. h \in Held'
      BY <2>1, <2>2 DEF Held, Chunk
    <3>3. ASSUME NEW k \in Held' PROVE k \in Held \cup {h}
      BY <3>3, <2>2 DEF Held, Chunk
    <3> QED
      BY <3>1, <3>2, <3>3
  <2>4. Pending' = Pending /\ UNCHANGED <<preparedCh, heap, seq, nextSeq>>
    BY <2>1, <2>3 DEF WorkerRecv, Pending
  <2>5. Typed'
    <3>1. Len(chunkCh') <= Cap
      BY <2>1, PipelineAssumption DEF Typed, TypeOK
    <3> QED
      BY <3>1, <2>1, <2>2 DEF WorkerRecv, Typed, TypeOK, Chunk
  <2>6. \A u, v \in Worker : u # v /\ worker'[u] \in Chunk => worker'[u] # worker'[v]
    <3>1. \A v \in Worker : worker[v] # h
      BY <2>1, <1>a DEF Once, Held
    <3> QED
      BY <3>1, <2>2, <1>a DEF Once
  <2>7. Once'
    BY <2>1, <2>3, <2>4, <2>6 DEF Once, Chunk
  <2>8. Ordered'
    BY <2>4 DEF WorkerRecv, Ordered
  <2>9. ~cancelled => \A v \in Worker : worker[v] # Gone /\ worker'[v] # Gone
    BY <1>1, <2>1, <2>2, <1>a DEF NoLoss
  <2>10. NoLoss'
    BY <2>4, <2>9, PipelineAssumption DEF WorkerRecv, NoLoss, WorkersDone, Chunk
  <2>11. Verdicts'
    BY DEF WorkerRecv, Verdicts
  <2> QED
    BY <2>5, <2>7, <2>8, <2>10, <2>11
<1>2. CASE /\ chunkCh = <<>> /\ chunker = "done"
           /\ worker' = [worker EXCEPT ![w] = Gone]
           /\ UNCHANGED chunkCh
  <2>1. /\ worker[w] = Idle /\ worker' \in [Worker -> 0 .. N + 1]
        /\ worker'[w] = Gone /\ \A v \in Worker : v # w => worker'[v] = worker[v]
    BY <1>2, <1>a DEF WorkerRecv
  <2>2. Held' = Held
    BY <2>1, <1>a DEF Held, Chunk
  <2>3. Pending' = Pending /\ UNCHANGED <<preparedCh, heap, seq, nextSeq>>
    BY <1>2, <2>2 DEF WorkerRecv, Pending
  <2>4. Typed'
    BY <1>2, <2>1 DEF WorkerRecv, Typed, TypeOK, Chunk
  <2>5. Once'
    BY <1>2, <1>a, <2>1, <2>2, <2>3 DEF Once, Chunk
  <2>6. Ordered'
    BY <2>3 DEF WorkerRecv, Ordered
  <2>7. NoLoss'
    BY <1>2, <2>1, <2>3 DEF WorkerRecv, NoLoss, WorkersDone, Chunk, Gone
  <2>8. Verdicts'
    BY DEF WorkerRecv, Verdicts
  <2> QED
    BY <2>4, <2>5, <2>6, <2>7, <2>8
<1> QED
  BY <1>1, <1>2 DEF WorkerRecv

\* A worker that leaves with its chunk does so in a cancelled run.
LEMMA WorkerLeavesKeeps ==
    ASSUME PipelineInv, NEW w \in Worker, worker[w] \in Chunk, cancelled',
           worker' = [worker EXCEPT ![w] = Gone],
           UNCHANGED <<chunker, seq, chunkerDone, chunkCh, preparedCh, sequencer,
                       heap, nextSeq, orderedCh, entries, ckpt, parent, run>>,
           workerErr' \in BOOLEAN, cancelled' \in BOOLEAN,
           workerErr => workerErr', ~cancelled => workerErr'
    PROVE  PipelineInv'
<1> USE DEF PipelineInv
<1>1. /\ worker \in [Worker -> 0 .. N + 1]
      /\ Gone \notin Chunk /\ Gone \in 0 .. N + 1
  BY PipelineAssumption DEF Typed, TypeOK, Gone, Chunk
<1>2. /\ worker' \in [Worker -> 0 .. N + 1]
      /\ worker'[w] = Gone /\ \A v \in Worker : v # w => worker'[v] = worker[v]
  BY <1>1
<1>3. Held' \subseteq Held
  BY <1>1, <1>2 DEF Held, Chunk
<1>4. Pending' \subseteq Pending
  BY <1>3 DEF Pending
<1>5. Typed'
  BY <1>2 DEF Typed, TypeOK, Chunk
<1>6. Once'
  BY <1>1, <1>2, <1>3, <1>4 DEF Once, Chunk
<1>7. Ordered'
  BY <1>4 DEF Ordered
<1>8. NoLoss'
  BY DEF NoLoss
<1>9. Verdicts'
  <2>1. ~parent => run.at # "await"
    <3>1. worker[w] # Gone
      BY <1>1
    <3>2. ~cancelled /\ sequencer = "done" => worker[w] = Gone
      BY DEF NoLoss, WorkersDone
    <3> QED
      BY <3>1, <3>2 DEF Verdicts
  <2> QED
    BY <2>1 DEF Verdicts
<1> QED
  BY <1>5, <1>6, <1>7, <1>8, <1>9

\* A failed encryption.
LEMMA WorkerEncryptFailsKeeps ==
    ASSUME PipelineInv, NEW w \in Worker, WorkerEncryptFails(w)
    PROVE  PipelineInv'
  BY WorkerLeavesKeeps, Zenon DEF WorkerEncryptFails

\* A delivery moves the chunk from the worker to the channel.
LEMMA WorkerDeliverKeeps ==
    ASSUME PipelineInv, NEW w \in Worker, WorkerDeliver(w)
    PROVE  PipelineInv'
<1> USE DEF PipelineInv
<1>1. CASE cancelled /\ worker' = [worker EXCEPT ![w] = Gone] /\ UNCHANGED preparedCh
  <2>1. workerErr \in BOOLEAN /\ cancelled \in BOOLEAN
    BY DEF Typed, TypeOK
  <2> QED
    BY <1>1, <2>1, WorkerLeavesKeeps, Zenon DEF WorkerDeliver
<1>2. CASE /\ Len(preparedCh) < Cap
           /\ preparedCh' = Append(preparedCh, worker[w])
           /\ worker' = [worker EXCEPT ![w] = Idle]
  <2> DEFINE h == worker[w]
  <2>1. /\ worker \in [Worker -> 0 .. N + 1] /\ preparedCh \in Seq(Chunk)
        /\ Idle \notin Chunk /\ Idle \in 0 .. N + 1 /\ Idle # Gone
        /\ h \in Chunk /\ h # Gone /\ h \in Held
    <3>1. h \in Chunk /\ worker \in [Worker -> 0 .. N + 1] /\ preparedCh \in Seq(Chunk)
      BY DEF WorkerDeliver, Typed, TypeOK
    <3>2. h \in Held
      BY <3>1 DEF Held
    <3>3. /\ Idle \notin Chunk /\ Idle \in 0 .. N + 1 /\ Idle # Gone
          /\ Gone \notin Chunk
      BY PipelineAssumption DEF Idle, Gone, Chunk
    <3> HIDE DEF h
    <3> QED
      BY <3>1, <3>2, <3>3
  <2>2. /\ preparedCh' \in Seq(Chunk) /\ Distinct(preparedCh')
        /\ Len(preparedCh') = Len(preparedCh) + 1 /\ Len(preparedCh) \in Nat
        /\ Rng(preparedCh') = Rng(preparedCh) \cup {h}
    BY <1>2, <2>1, AppendFacts, DistinctFacts, LenProperties DEF Once
  <2>3. /\ worker' \in [Worker -> 0 .. N + 1]
        /\ worker'[w] = Idle /\ \A v \in Worker : v # w => worker'[v] = worker[v]
    BY <1>2, <2>1
  <2>4. Held' = Held \ {h}
    <3>1. ASSUME NEW k \in Held, k # h PROVE k \in Held'
      BY <3>1, <2>3 DEF Held, Chunk
    <3>2. ASSUME NEW k \in Held' PROVE k \in Held /\ k # h
      BY <3>2, <2>1, <2>3 DEF Held, Chunk, Once
    <3> QED
      BY <3>1, <3>2
  <2> HIDE DEF h
  <2>5. Pending' = Pending /\ UNCHANGED <<chunkCh, heap, seq, nextSeq>>
    BY <2>1, <2>2, <2>4 DEF WorkerDeliver, Pending
  <2>6. Typed'
    <3>1. Len(preparedCh') <= Cap
      BY <1>2, <2>2, PipelineAssumption
    <3> QED
      BY <3>1, <2>2, <2>3 DEF WorkerDeliver, Typed, TypeOK, Chunk
  <2>7. Once'
    <3>1. \A u, v \in Worker : u # v /\ worker'[u] \in Chunk => worker'[u] # worker'[v]
      BY <2>1, <2>3 DEF Once
    <3> QED
      BY <3>1, <2>1, <2>2, <2>4, <2>5 DEF Once, Chunk
  <2>8. Ordered'
    BY <2>5 DEF WorkerDeliver, Ordered
  <2>9. ~cancelled => sequencer \notin {"drain", "done"}
    BY <2>1 DEF NoLoss, WorkersDone, h
  <2>10. NoLoss'
    BY <2>1, <2>3, <2>5, <2>9 DEF WorkerDeliver, NoLoss, WorkersDone, Chunk, Gone
  <2>11. Verdicts'
    BY DEF WorkerDeliver, Verdicts
  <2> QED
    BY <2>6, <2>7, <2>8, <2>10, <2>11
<1> QED
  BY <1>1, <1>2 DEF WorkerDeliver

\* The sequencer receives a chunk; or, the channel closed, has all that comes.
LEMMA SequencerRecvKeeps == PipelineInv /\ SequencerRecv => PipelineInv'
<1> SUFFICES ASSUME PipelineInv, SequencerRecv PROVE PipelineInv'
  OBVIOUS
<1> USE DEF PipelineInv
<1>1. CASE /\ preparedCh # <<>>
           /\ heap' = heap \cup {Head(preparedCh)}
           /\ preparedCh' = Tail(preparedCh)
           /\ sequencer' = "emit"
  <2> DEFINE h == Head(preparedCh)
  <2>1. /\ preparedCh' \in Seq(Chunk) /\ h \in Chunk /\ Distinct(preparedCh')
        /\ Len(preparedCh') = Len(preparedCh) - 1 /\ Len(preparedCh) \in Nat
        /\ Rng(preparedCh) = Rng(preparedCh') \cup {h} /\ h \notin Rng(preparedCh')
    BY <1>1, TailFacts, DistinctFacts DEF Once, Typed, TypeOK
  <2>2. heap' = heap \cup {h} /\ sequencer = "recv"
    BY <1>1 DEF SequencerRecv
  <2> HIDE DEF h
  <2>3. Held' = Held /\ UNCHANGED <<chunkCh, seq, nextSeq, worker, entries, orderedCh>>
    BY DEF SequencerRecv, Held
  <2>4. Pending' = Pending /\ h \in Pending
    BY <2>1, <2>2, <2>3 DEF Pending
  <2>5. Typed'
    <3>1. Len(preparedCh') <= Cap
      BY <2>1, PipelineAssumption DEF Typed, TypeOK
    <3> QED
      BY <1>1, <3>1, <2>1, <2>2, Zenon DEF SequencerRecv, Typed, TypeOK, Chunk
  <2>6. Once'
    BY <2>1, <2>2, <2>3, <2>4 DEF Once, Chunk
  <2>7. Ordered'
    <3>1. \A x \in Rng(entries) \cup Rng(orderedCh) : x < h
      BY <2>2, <2>4, ChunksAreNumbers DEF Ordered
    <3> QED
      BY <1>1, <2>2, <2>3, <2>4, <3>1 DEF Ordered
  <2>8. NoLoss'
    BY <1>1, <2>2, <2>3, <2>4 DEF SequencerRecv, NoLoss, WorkersDone, Chunk, Gone
  <2>9. Verdicts'
    BY <1>1, <2>2 DEF SequencerRecv, Verdicts
  <2> QED
    BY <2>5, <2>6, <2>7, <2>8, <2>9
<1>2. CASE /\ preparedCh = <<>> /\ WorkersDone
           /\ sequencer' = "drain"
           /\ UNCHANGED <<heap, preparedCh>>
  <2>1. /\ Held' = Held /\ Pending' = Pending /\ sequencer = "recv"
        /\ UNCHANGED <<chunkCh, seq, nextSeq, worker, entries, orderedCh>>
    BY <1>2 DEF SequencerRecv, Held, Pending
  <2>2. Typed'
    BY <1>2 DEF SequencerRecv, Typed, TypeOK, Chunk
  <2>3. Once'
    BY <1>2, <2>1 DEF Once, Chunk
  <2>4. Ordered'
    BY <1>2, <2>1 DEF Ordered
  \* Every chunk read is in the heap, the next one is not, so it is empty.
  <2>5. ~cancelled => heap = {}
    <3> SUFFICES ASSUME ~cancelled, NEW k \in heap PROVE FALSE
      OBVIOUS
    <3>1. Held = {}
      BY <1>2, PipelineAssumption DEF Held, WorkersDone, Gone, Chunk
    <3>2. chunkCh = <<>>
      BY <1>2, PipelineAssumption DEF NoLoss, WorkersDone
    <3>3. Pending = heap
      BY <1>2, <3>1, <3>2, EmptyFacts DEF Pending
    <3>4. nextSeq <= k /\ k < seq /\ k \in Nat /\ nextSeq \in Nat /\ nextSeq # k
      BY <2>1, <3>3, ChunksAreNumbers DEF Ordered, Once, NoLoss
    <3>5. nextSeq \in Chunk
      BY <3>4, PipelineAssumption DEF Typed, TypeOK, Chunk
    <3>6. nextSeq < seq
      BY <3>4, ChunksAreNumbers
    <3>7. nextSeq \in heap
      BY <3>3, <3>4, <3>5, <3>6 DEF NoLoss
    <3> QED
      BY <3>7, <2>1 DEF NoLoss
  <2>6. NoLoss'
    BY <1>2, <2>1, <2>5 DEF SequencerRecv, NoLoss, WorkersDone, Chunk, Gone
  <2>7. Verdicts'
    BY <1>2, <2>1 DEF SequencerRecv, Verdicts
  <2> QED
    BY <2>2, <2>3, <2>4, <2>6, <2>7
<1> QED
  BY <1>1, <1>2 DEF SequencerRecv

\* The sequencer changes its state and nothing else.
LEMMA SequencerTurnsKeeps ==
    ASSUME PipelineInv, sequencer' \in {"recv", "emit", "drain", "done"},
           sequencer \in {"emit", "drain"},
           sequencer = "drain" => sequencer' = "done",
           sequencer' = "recv" => nextSeq \notin heap,
           sequencer' = "done" /\ ~cancelled => sequencer = "drain" /\ heap = {},
           sequencer' # "drain",
           UNCHANGED <<chunker, seq, chunkerDone, chunkCh, worker, preparedCh, heap,
                       nextSeq, orderedCh, entries, ckpt, cancelled, parent,
                       workerErr, run>>
    PROVE  PipelineInv'
<1> USE DEF PipelineInv
<1>1. Held' = Held /\ Pending' = Pending
  BY DEF Held, Pending
<1>2. Typed'
  BY DEF Typed, TypeOK, Chunk
<1>3. Once'
  BY <1>1 DEF Once, Chunk
<1>4. Ordered'
  BY <1>1 DEF Ordered
<1>5. NoLoss'
  BY <1>1 DEF NoLoss, WorkersDone, Chunk, Gone
<1>6. Verdicts'
  BY DEF Verdicts
<1> QED
  BY <1>2, <1>3, <1>4, <1>5, <1>6

\* The sequencer sends the least chunk it holds.
LEMMA SequencerSendsKeeps ==
    ASSUME PipelineInv, NEW x \in heap, \A y \in heap : x <= y,
           Len(orderedCh) < Cap,
           orderedCh' = Append(orderedCh, x), heap' = heap \ {x},
           \/ sequencer = "drain" /\ nextSeq' = nextSeq
           \/ sequencer = "emit" /\ x = nextSeq /\ nextSeq' = nextSeq + 1,
           UNCHANGED <<sequencer, chunker, seq, chunkerDone, chunkCh, worker,
                       preparedCh, entries, ckpt, cancelled, parent, workerErr, run>>
    PROVE  PipelineInv'
<1> USE DEF PipelineInv
<1>1. /\ x \in Chunk /\ x \in Nat /\ x \in Pending /\ Chunk \subseteq Nat
      /\ orderedCh \in Seq(Chunk) /\ x < seq /\ heap \subseteq Nat
  <2>1. x \in Pending /\ heap \subseteq Chunk /\ orderedCh \in Seq(Chunk)
    BY Zenon DEF Typed, TypeOK, Pending
  <2> QED
    BY <2>1, ChunksAreNumbers DEF Once
<1>2. /\ orderedCh' \in Seq(Chunk) /\ Len(orderedCh') = Len(orderedCh) + 1
      /\ Len(orderedCh) \in Nat /\ Rng(orderedCh') = Rng(orderedCh) \cup {x}
  BY <1>1, AppendFacts, LenProperties
<1>3. Ascending(orderedCh')
  BY <1>1, AscendingFacts DEF Ordered
<1>4. Held' = Held /\ Pending' = Pending \ {x}
  <2>1. Held' = Held
    BY DEF Held
  <2> QED
    BY <2>1 DEF Pending, Once
<1>5. nextSeq' \in 1 .. N + 1 /\ nextSeq' <= seq
  <2>1. nextSeq \in 1 .. N + 1 /\ nextSeq <= seq /\ seq \in Nat /\ x \in 1 .. N
    BY <1>1, ChunksAreNumbers DEF Typed, TypeOK, Chunk, Once
  <2> QED
    BY <2>1, <1>1, PipelineAssumption
<1>6. Typed'
  <2>1. Len(orderedCh') <= Cap
    BY <1>2, PipelineAssumption
  <2> QED
    BY <2>1, <1>2, <1>5, Zenon DEF Typed, TypeOK, Chunk
<1>7. Once'
  BY <1>4, <1>5 DEF Once, Chunk
<1>8. Ordered'
  <2>1. \A y \in heap' : x < y
    BY <1>1
  <2>2. \A u \in Rng(entries) : \A y \in Rng(orderedCh') \cup heap' : u < y
    BY <1>2 DEF Ordered
  <2>3. \A u \in Rng(orderedCh') : \A y \in heap' : u < y
    BY <1>2, <2>1 DEF Ordered
  <2>4. sequencer = "emit" => /\ \A u \in Rng(entries) \cup Rng(orderedCh') : u < nextSeq'
                             /\ \A k \in Pending' : nextSeq' <= k
    <3> SUFFICES ASSUME sequencer = "emit"
                 PROVE  /\ \A u \in Rng(entries) \cup Rng(orderedCh') : u < nextSeq'
                        /\ \A k \in Pending' : nextSeq' <= k
      OBVIOUS
    <3>1. /\ x = nextSeq /\ nextSeq' = nextSeq + 1 /\ nextSeq \in Nat
          /\ Rng(entries) \subseteq Nat /\ Rng(orderedCh) \subseteq Nat
          /\ Pending \subseteq Nat
      BY ChunksAreNumbers
    <3>2. ASSUME NEW u \in Rng(entries) \cup Rng(orderedCh') PROVE u < nextSeq'
      <4>1. u < nextSeq \/ u = x
        BY <1>2 DEF Ordered
      <4> QED
        BY <3>1, <4>1, <1>2
    <3>3. ASSUME NEW k \in Pending' PROVE nextSeq' <= k
      <4>1. nextSeq <= k /\ k # x /\ k \in Nat
        BY <1>4, <3>1 DEF Ordered
      <4> QED
        BY <3>1, <4>1
    <3> QED
      BY <3>2, <3>3
  <2> QED
    BY <1>3, <2>2, <2>3, <2>4 DEF Ordered
<1>9. NoLoss'
  <2> SUFFICES ASSUME ~cancelled PROVE NoLoss'
    BY DEF NoLoss
  <2>1. sequencer = "emit" /\ x = nextSeq /\ nextSeq' = nextSeq + 1
    BY DEF NoLoss
  <2>2. Len(entries) \in Nat
    BY LenProperties DEF Typed, TypeOK
  <2>3. /\ Counts(orderedCh', Len(entries))
        /\ nextSeq' = Len(entries) + Len(orderedCh') + 1
    BY <1>1, <1>2, <2>1, <2>2, CountsFacts DEF NoLoss
  <2>4. \A k \in Chunk : nextSeq' <= k /\ k < seq => k \in Pending'
    BY <1>1, <1>4, <2>1 DEF NoLoss
  <2> QED
    BY <2>1, <2>3, <2>4 DEF NoLoss, WorkersDone, Chunk, Gone
<1>10. Verdicts'
  BY DEF Verdicts
<1> QED
  BY <1>6, <1>7, <1>8, <1>9, <1>10

\* The inner loop of the sequencer.
LEMMA SequencerEmitKeeps == PipelineInv /\ SequencerEmit => PipelineInv'
<1> SUFFICES ASSUME PipelineInv, SequencerEmit PROVE PipelineInv'
  OBVIOUS
<1>1. CASE /\ nextSeq \in heap /\ Len(orderedCh) < Cap
           /\ orderedCh' = Append(orderedCh, nextSeq)
           /\ heap' = heap \ {nextSeq} /\ nextSeq' = nextSeq + 1
           /\ UNCHANGED sequencer
  <2>1. \A y \in heap : nextSeq <= y
    BY DEF SequencerEmit, PipelineInv, Ordered, Pending
  <2> QED
    BY <1>1, <2>1, SequencerSendsKeeps DEF SequencerEmit
<1>2. CASE UNCHANGED <<heap, nextSeq, orderedCh>>
  BY <1>2, SequencerTurnsKeeps DEF SequencerEmit
<1> QED
  BY <1>1, <1>2 DEF SequencerEmit

\* Its drain.
LEMMA SequencerDrainKeeps == PipelineInv /\ SequencerDrain => PipelineInv'
<1> SUFFICES ASSUME PipelineInv, SequencerDrain PROVE PipelineInv'
  OBVIOUS
<1>1. CASE /\ heap # {} /\ Len(orderedCh) < Cap
           /\ orderedCh' = Append(orderedCh, Minimum(heap))
           /\ heap' = heap \ {Minimum(heap)}
           /\ UNCHANGED sequencer
  <2>1. Minimum(heap) \in heap /\ \A y \in heap : Minimum(heap) <= y
    BY <1>1, MinimumFacts, Zenon DEF PipelineInv, Typed, TypeOK
  <2> QED
    BY <1>1, <2>1, SequencerSendsKeeps DEF SequencerDrain
<1>2. CASE UNCHANGED <<heap, orderedCh>>
  BY <1>2, SequencerTurnsKeeps DEF SequencerDrain
<1> QED
  BY <1>1, <1>2 DEF SequencerDrain

\* The store loop records the head of orderedCh.
LEMMA StoreChunkKeeps ==
    ASSUME PipelineInv, NEW seal \in BOOLEAN, StoreChunk(seal)
    PROVE  PipelineInv'
<1> USE DEF PipelineInv
<1> DEFINE h == Head(orderedCh)
<1>1. /\ orderedCh \in Seq(Chunk) /\ entries \in Seq(Chunk) /\ orderedCh # <<>>
      /\ orderedCh' = Tail(orderedCh) /\ entries' = Append(entries, h)
  BY DEF StoreChunk, Typed, TypeOK
<1>2. /\ orderedCh' \in Seq(Chunk) /\ h \in Chunk
      /\ Len(orderedCh') = Len(orderedCh) - 1 /\ Len(orderedCh) \in Nat
      /\ Rng(orderedCh) = Rng(orderedCh') \cup {h}
  BY <1>1, TailFacts
<1>3. Ascending(orderedCh') /\ \A y \in Rng(orderedCh') : h < y
  BY <1>1, AscendingFacts DEF Ordered
<1>4. /\ entries' \in Seq(Chunk) /\ Len(entries') = Len(entries) + 1
      /\ Len(entries) \in Nat /\ Rng(entries') = Rng(entries) \cup {h}
  BY <1>1, <1>2, AppendFacts, LenProperties
<1>5. Ascending(entries')
  BY <1>1, <1>2, AscendingFacts DEF Ordered
<1>6. /\ Held' = Held /\ Pending' = Pending
      /\ UNCHANGED <<chunkCh, worker, preparedCh, heap, seq, nextSeq, sequencer>>
  BY DEF StoreChunk, Held, Pending
<1>7. ckpt' \in [at : 0 .. N, prefix : Seq(Chunk)]
  <2>1. h \in 0 .. N
    BY <1>2, PipelineAssumption DEF Chunk
  <2> HIDE DEF h
  <2> QED
    BY <2>1, <1>1 DEF StoreChunk, Typed, TypeOK, h
<1>8. Typed'
  <2>1. Len(orderedCh') <= Cap
    BY <1>2, PipelineAssumption DEF Typed, TypeOK
  <2> QED
    BY <2>1, <1>2, <1>4, <1>7 DEF StoreChunk, Typed, TypeOK, Chunk
<1>9. Once'
  BY <1>6 DEF Once, Chunk
<1> HIDE DEF h
<1>10. Ordered'
  BY <1>2, <1>3, <1>4, <1>5, <1>6, Zenon DEF Ordered
<1>11. NoLoss'
  <2> SUFFICES ASSUME ~cancelled PROVE NoLoss'
    BY DEF NoLoss, StoreChunk
  <2>1. h = Len(entries) + 1 /\ Counts(orderedCh', Len(entries) + 1)
    BY <1>1, <1>4, CountsFacts DEF NoLoss, h
  <2>2. Counts(entries', 0)
    BY <1>1, <1>2, <1>4, <2>1, CountsFacts DEF NoLoss
  <2>3. nextSeq' = Len(entries') + Len(orderedCh') + 1
    BY <1>2, <1>4, <1>6 DEF NoLoss
  <2> QED
    BY <1>4, <1>6, <2>1, <2>2, <2>3 DEF StoreChunk, NoLoss, WorkersDone, Chunk, Gone
<1>12. Verdicts'
  BY DEF StoreChunk, Verdicts
<1> QED
  BY <1>8, <1>9, <1>10, <1>11, <1>12

\* A failed store takes a chunk from the channel and gives the run up.
LEMMA StoreFailsKeeps == PipelineInv /\ StoreFails => PipelineInv'
<1> SUFFICES ASSUME PipelineInv, StoreFails PROVE PipelineInv'
  OBVIOUS
<1> USE DEF PipelineInv
<1>1. /\ orderedCh' \in Seq(Chunk) /\ Len(orderedCh') <= Cap
      /\ \A y \in Rng(orderedCh') : y \in Rng(orderedCh)
  BY TailFacts, PipelineAssumption DEF StoreFails, Typed, TypeOK
<1>2. Ascending(orderedCh')
  <2>1. orderedCh \in Seq(Chunk) /\ orderedCh # <<>> /\ orderedCh' = Tail(orderedCh)
    BY DEF StoreFails, Typed, TypeOK
  <2> QED
    BY <2>1, AscendingFacts DEF Ordered
<1>3. /\ Held' = Held /\ Pending' = Pending
      /\ UNCHANGED <<chunkCh, worker, preparedCh, heap, seq, nextSeq, sequencer>>
  BY DEF StoreFails, Held, Pending
<1>4. Typed'
  BY <1>1 DEF StoreFails, Unwind, Typed, TypeOK, Chunk, RunAt, Verdict
<1>5. Once'
  BY <1>3 DEF Once, Chunk
<1>6. Ordered'
  BY <1>1, <1>2, <1>3 DEF StoreFails, Ordered
<1>7. NoLoss' /\ Verdicts'
  BY DEF StoreFails, Unwind, NoLoss, Verdicts
<1> QED
  BY <1>4, <1>5, <1>6, <1>7

\* The steps in which run moves on leave the chunks where they are.
LEMMA RunMovesKeeps ==
    ASSUME PipelineInv, run' \in [at : RunAt, verdict : Verdict],
           cancelled' \in BOOLEAN, cancelled => cancelled',
           UNCHANGED <<chunker, seq, chunkerDone, chunkCh, worker, preparedCh,
                       sequencer, heap, nextSeq, orderedCh, entries, ckpt, parent,
                       workerErr>>
    PROVE  (Typed /\ Once /\ Ordered /\ NoLoss)'
<1> USE DEF PipelineInv
<1>1. Held' = Held /\ Pending' = Pending
  BY DEF Held, Pending
<1>2. Typed'
  BY ZenonT(30) DEF Typed, TypeOK
<1>3. Once' /\ Ordered'
  BY <1>1 DEF Once, Ordered, Chunk
<1>4. NoLoss'
  BY <1>1 DEF NoLoss, WorkersDone, Chunk, Gone
<1> QED
  BY <1>2, <1>3, <1>4

\* The loop ends: a run that was cancelled by nobody but a worker has failed.
LEMMA LoopEndsKeeps == PipelineInv /\ LoopEnds => PipelineInv'
<1> SUFFICES ASSUME PipelineInv, LoopEnds PROVE PipelineInv'
  OBVIOUS
<1> USE DEF PipelineInv
<1>1. /\ run \in [at : RunAt, verdict : Verdict] /\ cancelled \in BOOLEAN
      /\ workerErr \in BOOLEAN
  BY DEF Typed, TypeOK
<1>2. (Typed /\ Once /\ Ordered /\ NoLoss)'
  <2>1. run' \in [at : RunAt, verdict : Verdict]
    BY <1>1 DEF LoopEnds, Unwind, RunAt, Verdict
  <2>2. cancelled' \in BOOLEAN /\ (cancelled => cancelled')
    BY <1>1, Zenon DEF LoopEnds, Unwind
  <2> QED
    BY <2>1, <2>2, RunMovesKeeps DEF LoopEnds
<1>3. Verdicts'
  BY <1>1 DEF LoopEnds, Unwind, Verdicts, RunAt, Verdict
<1> QED
  BY <1>2, <1>3

\* The verdict: with the chunker at the end, nobody cancelled and every worker
\* gone, nothing is pending, so everything is stored.
LEMMA FinishKeeps == PipelineInv /\ Finish => PipelineInv'
<1> SUFFICES ASSUME PipelineInv, Finish PROVE PipelineInv'
  OBVIOUS
<1> USE DEF PipelineInv
<1>1. /\ run \in [at : RunAt, verdict : Verdict] /\ cancelled \in BOOLEAN
      /\ parent \in BOOLEAN
  BY DEF Typed, TypeOK
<1>2. (Typed /\ Once /\ Ordered /\ NoLoss)'
  <2>1. run' \in [at : RunAt, verdict : Verdict]
    BY <1>1 DEF Finish, Unwind, RunAt, Verdict
  <2>2. cancelled' \in BOOLEAN /\ (cancelled => cancelled')
    BY <1>1, Zenon DEF Finish, Unwind
  <2> QED
    BY <2>1, <2>2, RunMovesKeeps DEF Finish
<1>3. ASSUME ~parent, chunkerDone = "nil"
      PROVE  Counts(entries, 0) /\ Len(entries) = N
  <2>1. ~cancelled /\ sequencer = "done" /\ orderedCh = <<>> /\ seq = N + 1
    BY <1>3 DEF Finish, Verdicts
  <2>2. /\ WorkersDone /\ preparedCh = <<>> /\ heap = {} /\ Counts(entries, 0)
        /\ nextSeq = Len(entries) + Len(orderedCh) + 1
        /\ \A k \in Chunk : nextSeq <= k /\ k < seq => k \in Pending
    BY <2>1 DEF NoLoss
  <2>3. chunkCh = <<>>
    BY <2>1, <2>2, PipelineAssumption DEF NoLoss, WorkersDone
  <2>4. Held = {}
    BY <2>2, PipelineAssumption DEF Held, WorkersDone, Gone, Chunk
  <2>5. Pending = {}
    BY <2>2, <2>3, <2>4, EmptyFacts DEF Pending
  <2>6. nextSeq = N + 1
    <3>1. nextSeq \notin Chunk
      BY <2>1, <2>2, <2>5, PipelineAssumption, ChunksAreNumbers DEF Chunk
    <3> QED
      BY <3>1, PipelineAssumption DEF Chunk, Typed, TypeOK
  <2>7. Len(entries) \in Nat
    BY LenProperties DEF Typed, TypeOK
  <2> QED
    BY <2>1, <2>2, <2>6, <2>7, EmptyFacts, PipelineAssumption
<1>4. run'.at = "unwind" /\ (run'.verdict = "saved" => chunkerDone = "nil")
  BY DEF Finish, Unwind
<1>5. Verdicts'
  BY <1>3, <1>4 DEF Finish, Verdicts
<1> QED
  BY <1>2, <1>5

\* run returns.
LEMMA ReturnKeeps == PipelineInv /\ Return => PipelineInv'
<1> SUFFICES ASSUME PipelineInv, Return PROVE PipelineInv'
  OBVIOUS
<1> USE DEF PipelineInv
<1>1. run \in [at : RunAt, verdict : Verdict] /\ cancelled \in BOOLEAN
  BY DEF Typed, TypeOK
<1>2. (Typed /\ Once /\ Ordered /\ NoLoss)'
  BY <1>1, RunMovesKeeps DEF Return, RunAt
<1>3. Verdicts'
  BY <1>1 DEF Return, Verdicts, RunAt
<1> QED
  BY <1>2, <1>3

\* Every step of every goroutine keeps the invariant.
LEMMA NextKeeps == PipelineInv /\ [Next]_vars => PipelineInv'
<1> SUFFICES ASSUME PipelineInv, [Next]_vars PROVE PipelineInv'
  OBVIOUS
<1>1. CASE CallerCancel
  BY <1>1, CallerCancelKeeps
<1>2. CASE ChunkerStep
  BY <1>2, ChunkerNextKeeps, ChunkerSendKeeps DEF ChunkerStep
<1>3. ASSUME NEW w \in Worker, WorkerStep(w) PROVE PipelineInv'
  BY <1>3, WorkerRecvKeeps, WorkerEncryptFailsKeeps, WorkerDeliverKeeps
  DEF WorkerStep
<1>4. CASE SequencerStep
  BY <1>4, SequencerRecvKeeps, SequencerEmitKeeps, SequencerDrainKeeps
  DEF SequencerStep
<1>5. ASSUME NEW seal \in BOOLEAN, StoreChunk(seal) PROVE PipelineInv'
  BY <1>5, StoreChunkKeeps
<1>6. CASE RunStep
  <2>1. CASE \E seal \in BOOLEAN : StoreChunk(seal)
    BY <1>5, <2>1
  <2>2. CASE StoreFails
    BY <2>2, StoreFailsKeeps, Zenon
  <2>3. CASE LoopEnds
    BY <2>3, LoopEndsKeeps, Zenon
  <2>4. CASE Finish
    BY <2>4, FinishKeeps, Zenon
  <2>5. CASE Return
    BY <2>5, ReturnKeeps, Zenon
  <2> QED
    BY <1>6, <2>1, <2>2, <2>3, <2>4, <2>5 DEF RunStep
<1>7. CASE UNCHANGED vars
  <2>1. /\ run' \in [at : RunAt, verdict : Verdict]
        /\ cancelled' \in BOOLEAN /\ (cancelled => cancelled')
    BY <1>7, Zenon DEF vars, PipelineInv, Typed, TypeOK
  <2>2. (Typed /\ Once /\ Ordered /\ NoLoss)'
    BY <1>7, <2>1, RunMovesKeeps DEF vars
  <2>3. Verdicts'
    BY <1>7 DEF vars, PipelineInv, Verdicts
  <2> QED
    BY <2>2, <2>3 DEF PipelineInv
<1> QED
  BY <1>1, <1>2, <1>3, <1>4, <1>6, <1>7 DEF Next

-----------------------------------------------------------------------------
(* The theorems *)

\* In every interleaving of the goroutines of Pipeline.run, no chunk is in two
\* places, what is emitted ascends, and nothing is lost before a cancellation.
THEOREM PipelineInvariant == Spec => []PipelineInv
<1> QED
  BY InitInv, NextKeeps, PTL DEF Spec

\* The variables keep their types and the channels their capacity.
THEOREM ChannelsBounded == Spec => []TypeOK
<1>1. PipelineInv => TypeOK
  BY DEF PipelineInv, Typed
<1> QED
  BY <1>1, PipelineInvariant, PTL

\* The sidecar is in stream order and has no chunk twice, whatever the
\* scheduler does and whenever the context is cancelled (the sequencer).
THEOREM SidecarAscends == Spec => []EntriesAscend
<1>1. PipelineInv => EntriesAscend
  BY DEF PipelineInv, Ordered, Ascending, EntriesAscend
<1> QED
  BY <1>1, PipelineInvariant, PTL

\* Until something cancels the context, the sidecar is a prefix of the source.
THEOREM SidecarIsPrefix == Spec => []NoGapUntilCancelled
<1>1. PipelineInv => NoGapUntilCancelled
  BY CountsIsUpTo DEF PipelineInv, NoLoss, NoGapUntilCancelled, Typed, TypeOK
<1> QED
  BY <1>1, PipelineInvariant, PTL

\* A backup its caller did not interrupt is saved only with every chunk of its
\* source: a worker that failed, a read that failed or a failed store is always
\* seen before the manifest is saved.
THEOREM SavedUninterrupted == Spec => []UninterruptedIsComplete
<1>1. PipelineInv => UninterruptedIsComplete
  <2> SUFFICES ASSUME PipelineInv, run.verdict = "saved", ~parent
               PROVE  entries = UpTo(N)
    BY DEF UninterruptedIsComplete
  <2>1. entries \in Seq(Chunk) /\ Counts(entries, 0) /\ Len(entries) = N
    BY DEF PipelineInv, Verdicts, Typed, TypeOK
  <2> QED
    BY <2>1, CountsIsUpTo
<1> QED
  BY <1>1, PipelineInvariant, PTL
=============================================================================
