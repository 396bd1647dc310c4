------------------------- MODULE PipelineRefinement -------------------------
(***************************************************************************)
(* The goroutines of Pipeline implement the sequential backup of           *)
(* OrderedBackup, for every number of chunks and workers and every         *)
(* capacity of the channels.                                               *)
(***************************************************************************)
EXTENDS PipelineProofs, FiniteSetTheorems

\* k chunks are recorded when the first k entries count from one to k.
LEMMA PrefixesCount ==
    ASSUME NEW s \in Seq(Chunk)
    PROVE  Prefixes(s) =
             {k \in Chunk : k <= Len(s) /\ \A i \in 1 .. k : s[i] = i}
<1> SUFFICES ASSUME NEW k \in Chunk, k <= Len(s)
             PROVE  SubSeq(s, 1, k) = UpTo(k) <=> \A i \in 1 .. k : s[i] = i
  BY DEF Prefixes
<1>1. Len(s) \in Nat /\ k \in Nat \ {0} /\ \A i \in 1 .. k : s[i] \in Chunk
  BY LenProperties, ElementOfSeq, PipelineAssumption DEF Chunk
<1>2. SubSeq(s, 1, k) = [i \in 1 .. k |-> s[i]]
  BY <1>1
<1> QED
  BY <1>2 DEF UpTo

\* Recording one more chunk moves the prefix on by one, or leaves it where the
\* first gap is.
LEMMA AppendRecords ==
    ASSUME NEW s \in Seq(Chunk), NEW x \in Chunk
    PROVE  /\ Cardinality(Prefixes(s)) \in Nat
           /\ \/ Cardinality(Prefixes(Append(s, x))) = Cardinality(Prefixes(s))
              \/ /\ Cardinality(Prefixes(s)) < N
                 /\ Cardinality(Prefixes(Append(s, x))) = Cardinality(Prefixes(s)) + 1
<1> DEFINE t == Append(s, x)
           n == Len(s)
<1>1. /\ t \in Seq(Chunk) /\ Len(t) = n + 1 /\ n \in Nat /\ t[n + 1] = x
      /\ \A i \in 1 .. n : t[i] = s[i]
  BY AppendFacts, LenProperties
<1>2. IsFiniteSet(Prefixes(s)) /\ Cardinality(Prefixes(s)) \in Nat
  <2>1. IsFiniteSet(1 .. N)
    BY FS_Interval, PipelineAssumption
  <2>2. Prefixes(s) \in SUBSET (1 .. N)
    BY DEF Prefixes, Chunk
  <2> QED
    BY <2>1, <2>2, FS_Subset, FS_CardinalityType, Zenon
<1>3. Chunk \subseteq Nat \ {0}
  BY PipelineAssumption DEF Chunk
<1> HIDE DEF t, n
<1>4. Prefixes(s) = {k \in Chunk : k <= n /\ \A i \in 1 .. k : s[i] = i}
  BY PrefixesCount DEF n
<1>5. Prefixes(t) = {k \in Chunk : k <= n + 1 /\ \A i \in 1 .. k : t[i] = i}
  BY <1>1, PrefixesCount
<1>6. ASSUME NEW k \in Chunk, k <= n PROVE k \in Prefixes(s) <=> k \in Prefixes(t)
  BY <1>1, <1>3, <1>4, <1>5, <1>6
<1>7. ASSUME NEW k \in Prefixes(t), k # n + 1 PROVE k \in Chunk /\ k <= n
  <2>1. k \in Chunk /\ k <= n + 1
    BY <1>5
  <2> QED
    BY <1>1, <1>3, <1>7, <2>1
<1>8. CASE n + 1 \notin Prefixes(t)
  <2>1. \A k \in Prefixes(t) : k <= n
    BY <1>8, <1>7
  <2>2. Prefixes(t) = Prefixes(s)
    BY <1>4, <1>5, <1>6, <2>1
  <2> QED
    BY <1>2, <2>2 DEF t
<1>9. CASE n + 1 \in Prefixes(t)
  <2>1. n + 1 \in 1 .. N /\ \A i \in 1 .. n : s[i] = i
    BY <1>1, <1>5, <1>9 DEF Chunk
  <2>2. Prefixes(s) = 1 .. n
    BY <1>1, <1>4, <2>1, PipelineAssumption DEF Chunk
  <2>3. Cardinality(Prefixes(s)) = n
    BY <1>1, <2>2, FS_Interval
  <2>4. Prefixes(t) = Prefixes(s) \cup {n + 1}
    <3>1. \A k \in Prefixes(t) : k \in Prefixes(s) \cup {n + 1}
      BY <1>6, <1>7
    <3>2. \A k \in Prefixes(s) : k \in Prefixes(t)
      BY <1>4, <1>6
    <3> QED
      BY <1>9, <3>1, <3>2
  <2>5. n + 1 \notin Prefixes(s)
    BY <1>1, <2>2
  <2>6. Cardinality(Prefixes(t)) = Cardinality(Prefixes(s)) + 1
    BY <1>2, <2>4, <2>5, FS_AddElement, Zenon
  <2> QED
    BY <1>1, <1>2, <2>1, <2>3, <2>6, PipelineAssumption DEF t
<1> QED
  BY <1>8, <1>9

\* The goroutines of Pipeline.run implement a loop that records one chunk after
\* the other and, unless interrupted, saves only when it has them all.
THEOREM Refinement == Spec => ImplementsOrderedBackup
<1>1. Init => Sequential!Init
  <2> SUFFICES ASSUME Init PROVE Sequential!Init
    OBVIOUS
  <2>1. Prefixes(entries) = {}
    BY PipelineAssumption, EmptyFacts DEF Init, Prefixes, Chunk
  <2>2. Recorded = 0
    BY <2>1, FS_EmptySet DEF Recorded
  <2> QED
    BY <2>2 DEF Init, Sequential!Init
<1>2. PipelineInv /\ PipelineInv' /\ [Next]_vars
        => [Sequential!Next]_(Sequential!vars)
  <2> SUFFICES ASSUME PipelineInv, PipelineInv', [Next]_vars
               PROVE  [Sequential!Next]_(Sequential!vars)
    OBVIOUS
  <2>1. ASSUME NEW seal \in BOOLEAN, StoreChunk(seal)
        PROVE  [Sequential!Next]_(Sequential!vars)
    <3>1. /\ entries \in Seq(Chunk) /\ orderedCh \in Seq(Chunk)
          /\ orderedCh # <<>> /\ entries' = Append(entries, Head(orderedCh))
          /\ UNCHANGED <<parent, run>> /\ run.verdict = "none"
      BY <2>1 DEF StoreChunk, PipelineInv, Typed, TypeOK, Verdicts
    <3>2. Head(orderedCh) \in Chunk
      BY <3>1, TailFacts
    <3>3. Recorded' = Recorded \/ (Recorded < N /\ Recorded' = Recorded + 1)
      BY <3>1, <3>2, AppendRecords DEF Recorded
    <3> QED
      BY <3>1, <3>3, Zenon DEF Sequential!Next, Sequential!Record, Sequential!vars
  <2>2. entries' = entries => Recorded' = Recorded
    BY DEF Recorded
  <2>3. CASE UNCHANGED <<entries, parent, run>>
    BY <2>2, <2>3 DEF Sequential!vars
  <2>4. CASE CallerCancel
    BY <2>2, <2>4 DEF CallerCancel, Sequential!Next, Sequential!Interrupt
  <2>5. CASE StoreFails \/ LoopEnds
    <3>1. UNCHANGED <<entries, parent>> /\ run.verdict = "none"
      BY <2>5 DEF StoreFails, LoopEnds, PipelineInv, Verdicts
    <3>2. run'.verdict \in {"none", "failed"}
      BY <2>5, <3>1 DEF StoreFails, LoopEnds, Unwind, PipelineInv, Typed, TypeOK
    <3> QED
      BY <2>2, <3>1, <3>2 DEF Sequential!Next, Sequential!Stop, Sequential!vars
  <2>6. CASE Finish
    <3>1. UNCHANGED <<entries, parent>> /\ run.verdict = "none"
      BY <2>6 DEF Finish, PipelineInv, Verdicts
    <3>2. run'.verdict \in {"saved", "failed", "suspended"}
      BY <2>6 DEF Finish, Unwind
    <3>3. ASSUME run'.verdict = "saved", ~parent PROVE Recorded = N
      <4>1. Counts(entries, 0) /\ Len(entries) = N /\ entries \in Seq(Chunk)
        BY <3>1, <3>3 DEF PipelineInv, Verdicts, Typed, TypeOK
      <4>2. Prefixes(entries) = 1 .. N
        <5>1. \A i \in 1 .. N : entries[i] = i
          BY <4>1, PipelineAssumption DEF Counts
        <5>2. Prefixes(entries) =
                {k \in Chunk : k <= N /\ \A i \in 1 .. k : entries[i] = i}
          BY <4>1, PrefixesCount
        <5>3. ASSUME NEW k \in 1 .. N PROVE k <= N /\ \A i \in 1 .. k : entries[i] = i
          BY <5>1, PipelineAssumption
        <5> QED
          BY <5>2, <5>3 DEF Chunk
      <4> QED
        <5>1. Cardinality(1 .. N) = N
          BY FS_Interval, PipelineAssumption
        <5> QED
          BY <4>2, <5>1, Zenon DEF Recorded
    <3> QED
      BY <2>2, <3>1, <3>2, <3>3, Zenon
      DEF Sequential!Next, Sequential!Save, Sequential!Stop
  <2>7. CASE Return
    BY <2>2, <2>7 DEF Return, PipelineInv, Typed, TypeOK, Sequential!vars
  <2>8. CASE RunStep
    BY <2>1, <2>5, <2>6, <2>7, <2>8 DEF RunStep
  <2>9. CASE ChunkerStep \/ SequencerStep \/ \E w \in Worker : WorkerStep(w)
    <3>1. UNCHANGED <<entries, parent, run>>
      BY <2>9 DEF ChunkerStep, ChunkerNext, ChunkerSend, SequencerStep, SequencerRecv,
                  SequencerEmit, SequencerDrain, WorkerStep, WorkerRecv,
                  WorkerEncryptFails, WorkerDeliver
    <3> QED
      BY <2>3, <3>1, Zenon
  <2>10. CASE UNCHANGED vars
    BY <2>3, <2>10 DEF vars
  <2> QED
    BY <2>4, <2>8, <2>9, <2>10 DEF Next
<1> QED
  BY <1>1, <1>2, PipelineInvariant, PTL
  DEF Spec, ImplementsOrderedBackup, Sequential!Spec
=============================================================================
