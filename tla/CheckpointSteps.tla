-------------------------- MODULE CheckpointSteps ---------------------------
(***************************************************************************)
(* The inductive invariant IInv of Checkpoint, and the lemmas that every   *)
(* step preserves its parts about types, the sidecar and what a run has    *)
(* recorded.                                                               *)
(***************************************************************************)
EXTENDS Checkpoint, Integers, WellFoundedInduction, TLAPS

-----------------------------------------------------------------------------
(* The inductive invariant *)

\* A run is in progress.
Live == pc \notin {"idle", "saved", "done"}
\* The run is writing a checkpoint (emitCheckpoint, pipeline.go).
Emitting == pc \in {"sync", "segment", "checkpoint"}
\* The first k segments of the segments file.
First(k) == SubSeq(segs, 1, k)
\* The first k segments are whole and numbered in order: ParseSegments keeps
\* them.
SegValid(k) == \A i \in 1 .. k : segs[i].ok /\ segs[i].seq = i - 1
\* The entries S lead from each of the first n chunks of the source.
Covered(n, S) == \A i \in 1 .. n : Source[i] \in Hashes(S)

\* What a run knows of its sidecar and of the checkpoint before it: the sidecar is
\* the source up to the next chunk, and prevLen and ckptSeq continue the
\* checkpoint on disk.
RunSide ==
  Live =>
    /\ sideHere /\ manifest = <<>> /\ side = SubSeq(Source, 1, pos - 1)
    /\ pc \in {"flush", "save"} => pos = N + 1
    /\ prevLen <= pos - 1
    /\ IF ckpt.here THEN prevLen = ckpt.len /\ ckptSeq = ckpt.seq + 1
       ELSE prevLen = 0 /\ ckptSeq = 0
    /\ pc \in {"segment", "checkpoint"} => sideSynced = Len(side)

\* The pack a run appends to is the last one or a new one, and the frame just
\* stored is there.
RunCur ==
  Live =>
    /\ pack \in {Len(packs), Len(packs) + 1} /\ cur.pack \in {0, pack}
    /\ (Emitting \/ pc = "record") =>
         pos <= N /\ cur.h = Source[pos] /\ cur \in Entry /\ Holds(cur) /\ cur.pack = pack

\* Whatever the run has recorded can be found.
RunCover ==
  Live => /\ Covered(pos - 1, index \cup session)
          /\ pc = "save" => Covered(N, index)

\* What a run believes to be stored is there: the frames of full packs for good,
\* those of its own pack until the power goes.
RunFrames ==
  Live =>
    /\ \A e \in index : Holds(e)
    /\ \A e \in session \cup pending :
         /\ Holds(e) /\ e.pack <= pack
         /\ e.pack < pack => Sealed(e)
         /\ e.pack = pack => cur.pack = pack
    /\ pc \in {"flush", "save"} => \A e \in session : Sealed(e)

\* The inserts not yet in a segment are of the pack the next checkpoint seals.
RunPending ==
  Live =>
    /\ pc = "loop" => pack <= curPack \/ pending = {}
    /\ Emitting => \A e \in pending : e.pack < pack
    /\ pc = "record" => pack <= curPack

\* The invariant of a run in progress.
RunInv == RunSide /\ RunCur /\ RunCover /\ RunFrames /\ RunPending

\* A checkpoint says how much of the sidecar is on disk for good, and that this is
\* the source before the resume point.
CkptInv ==
  ckpt.here =>
    /\ ckpt.resume \in 1 .. N /\ ckpt.len = ckpt.resume - 1
    /\ sideHere => /\ sideSynced >= ckpt.len
                   /\ SubSeq(side, 1, ckpt.len) = SubSeq(Source, 1, ckpt.len)

\* The first k segments hold a prefix of the source, with an entry for each of its
\* chunks; those of the checkpoint hold its prefix.
SegBase(k) ==
  /\ Len(Bytes(First(k))) <= N
  /\ Bytes(First(k)) = SubSeq(Source, 1, Len(Bytes(First(k))))
  /\ Covered(Len(Bytes(First(k))), index \cup Inserts(First(k)))
  /\ (ckpt.here /\ k = Keep) => Len(Bytes(First(k))) = ckpt.len
\* What the segments up to the number the run is at hold: with the inserts still
\* pending, all that the run has recorded.
SegRun(k) ==
  (Live /\ pc # "checkpoint") =>
    /\ k <= ckptSeq
    /\ k = ckptSeq =>
         /\ Len(Bytes(First(k))) = prevLen
         /\ Covered(pos - 1, index \cup Inserts(First(k)) \cup pending)
         /\ Hashes(session) \subseteq Hashes(index \cup Inserts(First(k)) \cup pending)
\* The same between the append of a segment and its checkpoint.
SegEmitted(k) ==
  pc = "checkpoint" =>
    /\ k <= ckptSeq + 1
    /\ k = ckptSeq + 1 =>
         /\ Len(Bytes(First(k))) = Len(side)
         /\ Hashes(session) \subseteq Hashes(index \cup Inserts(First(k)))
\* Every insert of a segment names a frame that is on disk for good.
SegsSealed == \A e \in Inserts(segs) : Sealed(e)
\* The invariant of the segments file: SegBase and the like hold of each part of
\* it that ParseSegments can keep, torn and stale segments after it or not.
SegsInv ==
  /\ SegsSealed
  /\ \A k \in 0 .. Len(segs) : SegValid(k) => SegBase(k) /\ SegRun(k) /\ SegEmitted(k)

\* A saved manifest is the source, and the index leads from each of its chunks.
SavedInv ==
  /\ manifest # <<>> => manifest = Source /\ ~Live /\ Covered(N, index)
  /\ pc \in {"saved", "done"} => manifest = Source
  /\ pc = "saved" => \A e \in index : Holds(e)

\* No resume has taken the slow path.
FastRegime == ~ckpt.here \/ (segs # <<>> /\ SegValid(1))
\* Where the index was never rebuilt from unsynced packs it names frames that are
\* on disk for good.
IndexInv ==
  (world.managed \/ (manifest = <<>> /\ FastRegime)) => \A e \in index : Sealed(e)

\* The inductive invariant.
IInv == TypeOK /\ RunInv /\ CkptInv /\ SegsInv /\ SavedInv /\ IndexInv

\* The backup failed after a checkpoint: no run can continue it.
Dead == pc = "idle" /\ ckpt.here /\ ~sideHere /\ manifest = <<>>
\* Where the process is never killed, a pack no run is writing is synced to its
\* end, so a rebuilt index is safe as well.
NoKillInv ==
  ~world.kill =>
    /\ pc = "idle" => \A p \in 1 .. Len(packs) : synced[p] = Len(packs[p])
    /\ Running => \A p \in 1 .. Len(packs) :
         (p # pack \/ cur.pack # pack) => synced[p] = Len(packs[p])
    /\ \A e \in index : Sealed(e)
\* Where it may be killed and no segment is torn, a resume takes the fast path, or
\* the sidecar is gone and no run continues.
KillInv ==
  (world.kill /\ ~world.tornSegment) =>
    /\ SegValid(Len(segs))
    /\ Live => Len(segs) = IF pc = "checkpoint" THEN ckptSeq + 1 ELSE ckptSeq
    /\ (ckpt.here /\ sideHere /\ manifest = <<>>) => Len(segs) >= Keep
    /\ Dead \/ \A e \in index : Sealed(e)

-----------------------------------------------------------------------------
(* Sequences, segments and packs *)

\* A segment whose inserts are in E.
Segment(E) == [ok : BOOLEAN, seq : Nat, bytes : Seq(Hash), inserts : SUBSET E]

\* What the assumption on the constants says of the source.
LEMMA SourceFacts ==
  /\ N \in Nat /\ N > 0 /\ Source \in Seq(Hash) /\ Len(Source) = N
  /\ \A i \in 1 .. N : Source[i] \in Hash
  /\ PackFrames \in Nat /\ PackFrames > 0 /\ MaxStops \in Nat
  /\ Earlier \in Seq(Hash) /\ Len(Earlier) <= PackFrames
BY CheckpointAssumption DEF N

\* What is appended does not change a prefix.
LEMMA PrefixOfAppend ==
  ASSUME NEW S, NEW s \in Seq(S), NEW x \in S
  PROVE  /\ \A k \in 0 .. Len(s) : SubSeq(Append(s, x), 1, k) = SubSeq(s, 1, k)
         /\ SubSeq(Append(s, x), 1, Len(s) + 1) = Append(s, x)
         /\ SubSeq(s, 1, Len(s)) = s
  OBVIOUS

\* A prefix of a prefix.
LEMMA PrefixOfPrefix ==
  ASSUME NEW S, NEW s \in Seq(S), NEW n \in 0 .. Len(s), NEW k \in 0 .. n
  PROVE  SubSeq(SubSeq(s, 1, n), 1, k) = SubSeq(s, 1, k)
  OBVIOUS

\* A prefix is a sequence of its length with the same components.
LEMMA PrefixType ==
  ASSUME NEW S, NEW s \in Seq(S), NEW n \in 0 .. Len(s)
  PROVE  /\ SubSeq(s, 1, n) \in Seq(S) /\ Len(SubSeq(s, 1, n)) = n
         /\ \A i \in 1 .. n : SubSeq(s, 1, n)[i] = s[i]
  OBVIOUS

\* Every nonempty set of natural numbers has a least element.
LEMMA NatMin ==
  ASSUME NEW T \in SUBSET Nat, T # {}
  PROVE  \E n \in T : \A m \in T : n <= m
<1> DEFINE R == {ss \in Nat \X Nat : ss[1] < ss[2]}
<1>1. IsWellFoundedOn(R, Nat)
  BY NatLessThanWellFounded DEF OpToRel
<1>2. PICK n \in T : \A m \in T : ~(<<m, n>> \in R)
  BY Zenon, <1>1, WFMin
<1>3. ASSUME NEW m \in T PROVE n <= m
  <2>1. <<m, n>> \in Nat \X Nat /\ m \in Nat /\ n \in Nat
    OBVIOUS
  <2>2. ~(m < n)
    BY <1>2, <2>1 DEF R
  <2> QED BY <2>1, <2>2
<1> QED BY <1>3

\* A set that contains 0 and the successor of each of its members contains
\* every natural number.
LEMMA NatSetInd ==
  ASSUME NEW T, 0 \in T, \A n \in Nat : n \in T => n + 1 \in T
  PROVE  Nat \subseteq T
<1> DEFINE C == Nat \ T
<1>1. SUFFICES ASSUME C # {} PROVE FALSE
  OBVIOUS
<1>2. PICK n \in C : \A m \in C : n <= m
  BY Zenon, <1>1, NatMin
<1>3. n \in Nat /\ n # 0 /\ n \notin T
  OBVIOUS
<1> HIDE DEF C
<1>4. n - 1 \in Nat /\ n - 1 \notin C
  BY <1>2, <1>3
<1>5. n - 1 \in T
  BY <1>4 DEF C
<1>6. (n - 1) + 1 \in T
  BY <1>4, <1>5
<1> QED BY <1>3, <1>6

\* f holds, for each k up to n, what the first k segments of sg contain.
Concats(f, sg, n) ==
  f = [k \in 0 .. n |-> IF k = 0 THEN <<>> ELSE f[k - 1] \o sg[k].bytes]

\* What Bytes chooses, with the recursive function named.
LEMMA BytesDef ==
  ASSUME NEW sg
  PROVE  Bytes(sg) = (CHOOSE f : Concats(f, sg, Len(sg)))[Len(sg)]
  BY DEF Bytes, Concats

\* One step of the recursion.
LEMMA ConcatsAt ==
  ASSUME NEW f, NEW sg, NEW n, Concats(f, sg, n), NEW k \in 0 .. n
  PROVE  f[k] = IF k = 0 THEN <<>> ELSE f[k - 1] \o sg[k].bytes
<1>1. f[k] = [j \in 0 .. n |-> IF j = 0 THEN <<>> ELSE f[j - 1] \o sg[j].bytes][k]
  BY Zenon DEF Concats
<1> QED BY <1>1

\* The recursion has a solution at every length.
LEMMA ConcatsExists ==
  ASSUME NEW sg, NEW n \in Nat
  PROVE  \E f : Concats(f, sg, n)
<1> DEFINE T == {k \in Nat : \E f : Concats(f, sg, k)}
<1>1. 0 \in T
  <2> DEFINE f == [i \in 0 .. 0 |-> <<>>]
  <2>1. f = [k \in 0 .. 0 |-> IF k = 0 THEN <<>> ELSE f[k - 1] \o sg[k].bytes]
    OBVIOUS
  <2>2. Concats(f, sg, 0)
    BY <2>1 DEF Concats
  <2> HIDE DEF f
  <2> QED BY <2>2
<1>2. ASSUME NEW m \in Nat, m \in T PROVE m + 1 \in T
  <2>1. PICK f : Concats(f, sg, m)
    BY <1>2
  <2> DEFINE g == [k \in 0 .. m + 1 |-> IF k = 0 THEN <<>> ELSE f[k - 1] \o sg[k].bytes]
  <2>2. ASSUME NEW k \in 0 .. m PROVE g[k] = f[k]
    <3>1. f[k] = IF k = 0 THEN <<>> ELSE f[k - 1] \o sg[k].bytes
      BY <2>1, ConcatsAt
    <3>2. k \in 0 .. m + 1
      OBVIOUS
    <3> QED BY <3>1, <3>2
  <2>3. ASSUME NEW k \in 0 .. m + 1, k # 0 PROVE g[k] = g[k - 1] \o sg[k].bytes
    <3>1. k - 1 \in 0 .. m
      BY <2>3
    <3>2. g[k - 1] = f[k - 1]
      BY Zenon, <2>2, <3>1
    <3>3. g[k] = f[k - 1] \o sg[k].bytes
      BY Zenon, <2>3
    <3> QED BY Zenon, <3>2, <3>3
  <2>4. ASSUME NEW k \in 0 .. m + 1
        PROVE  g[k] = IF k = 0 THEN <<>> ELSE g[k - 1] \o sg[k].bytes
    BY Zenon, <2>3
  <2>5. g = [k \in 0 .. m + 1 |-> g[k]]
    OBVIOUS
  <2> HIDE DEF g
  <2>6. Concats(g, sg, m + 1)
    BY <2>4, <2>5 DEF Concats
  <2> QED BY <2>6
<1> HIDE DEF T
<1>3. Nat \subseteq T
  BY <1>1, <1>2, NatSetInd
<1> QED BY <1>3 DEF T

\* What the first k segments contain depends on them alone.
LEMMA ConcatsAgree ==
  ASSUME NEW sg, NEW n \in Nat, NEW f, Concats(f, sg, n),
         NEW tt, NEW m \in Nat, NEW g, Concats(g, tt, m),
         n <= m, \A i \in 1 .. n : sg[i] = tt[i]
  PROVE  \A k \in 0 .. n : f[k] = g[k]
<1> DEFINE T == {k \in Nat : k <= n => f[k] = g[k]}
<1>0. ASSUME NEW k \in 0 .. n
      PROVE  /\ f[k] = IF k = 0 THEN <<>> ELSE f[k - 1] \o sg[k].bytes
             /\ g[k] = IF k = 0 THEN <<>> ELSE g[k - 1] \o tt[k].bytes
             /\ k # 0 => sg[k] = tt[k]
  <2>1. k \in 0 .. m /\ (k # 0 => k \in 1 .. n)
    OBVIOUS
  <2> QED BY <2>1, ConcatsAt
<1>1. 0 \in T
  BY <1>0
<1>2. ASSUME NEW k \in Nat, k \in T PROVE k + 1 \in T
  <2>1. SUFFICES ASSUME k + 1 <= n PROVE f[k + 1] = g[k + 1]
    OBVIOUS
  <2>2. k + 1 \in 0 .. n /\ k + 1 # 0 /\ (k + 1) - 1 = k /\ f[k] = g[k]
    BY <1>2, <2>1
  <2> QED BY <1>0, <2>2
<1> HIDE DEF T
<1>3. Nat \subseteq T
  BY <1>1, <1>2, NatSetInd
<1> QED BY <1>3 DEF T

\* No segments hold nothing.
LEMMA BytesEmpty == Bytes(<<>>) = <<>>
<1>1. PICK f : f = (CHOOSE h : Concats(h, <<>>, 0))
  OBVIOUS
<1>2. Concats(f, <<>>, 0)
  BY <1>1, ConcatsExists
<1>3. f[0] = <<>>
  BY <1>2, ConcatsAt
<1> QED BY <1>1, <1>3, BytesDef

\* The fields of a segment.
LEMMA SegmentFields ==
  ASSUME NEW E, NEW x \in Segment(E)
  PROVE  x.ok \in BOOLEAN /\ x.seq \in Nat /\ x.bytes \in Seq(Hash) /\ x.inserts \subseteq E
  BY DEF Segment

\* One more segment adds its bytes.
LEMMA BytesAppend ==
  ASSUME NEW E, NEW sg \in Seq(Segment(E)), NEW x \in Segment(E)
  PROVE  Bytes(Append(sg, x)) = Bytes(sg) \o x.bytes
<1> DEFINE tt == Append(sg, x)
           n  == Len(sg)
<1>1. n \in Nat /\ Len(tt) = n + 1 /\ tt[n + 1] = x /\ \A i \in 1 .. n : sg[i] = tt[i]
  OBVIOUS
<1>2. PICK f : f = (CHOOSE h : Concats(h, sg, n))
  OBVIOUS
<1>3. PICK g : g = (CHOOSE h : Concats(h, tt, n + 1))
  OBVIOUS
<1>6. Bytes(tt) = g[Len(tt)] /\ Bytes(sg) = f[n]
  <2>1. Bytes(tt) = (CHOOSE h : Concats(h, tt, n + 1))[Len(tt)]
    BY Zenon, <1>1, BytesDef
  <2> QED BY <2>1, <1>2, <1>3, BytesDef
<1> HIDE DEF tt, n
<1>a. n + 1 \in Nat /\ n <= n + 1 /\ n + 1 \in 0 .. n + 1 /\ n \in 0 .. n /\ n + 1 # 0 /\ (n + 1) - 1 = n
  BY <1>1
<1>4. Concats(f, sg, n)
  BY Zenon, <1>1, <1>2, ConcatsExists
<1>5. Concats(g, tt, n + 1)
  BY Zenon, <1>a, <1>3, ConcatsExists
<1>7. g[n + 1] = g[n] \o x.bytes
  <2>0. PICK j : j = n + 1
    OBVIOUS
  <2>1. j # 0 /\ j - 1 = n
    BY <1>a, <2>0
  <2>2. Concats(g, tt, j)
    BY <1>5, <2>0
  <2>3. j \in 0 .. j
    BY <1>a, <2>0
  <2>4. g[j] = IF j = 0 THEN <<>> ELSE g[j - 1] \o tt[j].bytes
    BY <2>2, <2>3, ConcatsAt
  <2> QED BY Zenon, <1>1, <2>0, <2>1, <2>4
<1>8. \A k \in 0 .. n : f[k] = g[k]
  BY <1>1, <1>4, <1>5, <1>a, ConcatsAgree
<1>9. f[n] = g[n]
  BY <1>8, <1>a
<1> QED BY <1>1, <1>6, <1>7, <1>9 DEF tt

\* The segments hold hashes.
LEMMA BytesType ==
  ASSUME NEW E, NEW sg \in Seq(Segment(E))
  PROVE  Bytes(sg) \in Seq(Hash)
<1> DEFINE n == Len(sg)
           T == {k \in Nat : k <= n => \A f : Concats(f, sg, n) => f[k] \in Seq(Hash)}
<1>n. n \in Nat
  OBVIOUS
<1>0. \A i \in 1 .. n : sg[i].bytes \in Seq(Hash)
  BY SegmentFields
<1> HIDE DEF n
<1>1. 0 \in T
  <2>1. ASSUME NEW f, Concats(f, sg, n) PROVE f[0] \in Seq(Hash)
    <3>1. 0 \in 0 .. n
      BY <1>n
    <3>2. f[0] = <<>>
      BY <2>1, <3>1, ConcatsAt
    <3> QED BY <3>2
  <2> QED BY <2>1
<1>2. ASSUME NEW k \in Nat, k \in T PROVE k + 1 \in T
  <2>1. SUFFICES ASSUME k + 1 <= n, NEW f, Concats(f, sg, n) PROVE f[k + 1] \in Seq(Hash)
    OBVIOUS
  <2>2. k + 1 \in 0 .. n /\ k + 1 \in 1 .. n /\ k + 1 # 0 /\ (k + 1) - 1 = k /\ k <= n
    BY <1>n, <2>1
  <2>3. f[k + 1] = f[k] \o sg[k + 1].bytes
    <3>0. PICK j : j = k + 1
      OBVIOUS
    <3>1. j # 0 /\ j - 1 = k
      BY <2>2, <3>0
    <3>2. j \in 0 .. n
      BY <2>2, <3>0
    <3>3. f[j] = IF j = 0 THEN <<>> ELSE f[j - 1] \o sg[j].bytes
      BY <2>1, <3>2, ConcatsAt
    <3> QED BY Zenon, <3>0, <3>1, <3>3
  <2>4. f[k] \in Seq(Hash) /\ sg[k + 1].bytes \in Seq(Hash)
    BY <1>0, <1>2, <2>1, <2>2
  <2> QED BY <2>3, <2>4
<1> HIDE DEF T
<1>3. Nat \subseteq T
  BY <1>1, <1>2, NatSetInd
<1>4. PICK f : f = (CHOOSE h : Concats(h, sg, n))
  OBVIOUS
<1>5. Concats(f, sg, n)
  BY Zenon, <1>n, <1>4, ConcatsExists
<1>6. f[n] \in Seq(Hash)
  BY <1>n, <1>3, <1>5 DEF T
<1> QED BY <1>4, <1>6, BytesDef DEF n

\* One component of a sequence is replaced.
LEMMA ExceptSeq ==
  ASSUME NEW S, NEW s \in Seq(S), NEW i \in 1 .. Len(s), NEW e \in S
  PROVE  /\ [s EXCEPT ![i] = e] \in Seq(S)
         /\ Len([s EXCEPT ![i] = e]) = Len(s)
         /\ \A j \in 1 .. Len(s) : [s EXCEPT ![i] = e][j] = IF j = i THEN e ELSE s[j]
  OBVIOUS

\* One more segment adds its inserts.
LEMMA InsertsAppend ==
  ASSUME NEW E, NEW sg \in Seq(Segment(E)), NEW x \in Segment(E)
  PROVE  Inserts(Append(sg, x)) = Inserts(sg) \cup x.inserts
<1> DEFINE t == Append(sg, x)
           n == Len(sg)
<1>1. n \in Nat /\ Len(t) = n + 1 /\ t[n + 1] = x /\ \A i \in 1 .. n : t[i] = sg[i]
  OBVIOUS
<1>2. 1 .. n + 1 = (1 .. n) \cup {n + 1}
  BY <1>1
<1> HIDE DEF t, n
<1>3. UNION {t[i].inserts : i \in 1 .. n + 1} = (UNION {t[i].inserts : i \in 1 .. n}) \cup t[n + 1].inserts
  BY <1>2
<1>4. {t[i].inserts : i \in 1 .. n} = {sg[i].inserts : i \in 1 .. n}
  BY <1>1
<1> QED BY <1>1, <1>3, <1>4 DEF Inserts, t, n

\* A prefix of the segments has no other inserts.
LEMMA InsertsPrefix ==
  ASSUME NEW S, NEW sg \in Seq(S), NEW k \in 0 .. Len(sg)
  PROVE  Inserts(SubSeq(sg, 1, k)) \subseteq Inserts(sg)
<1>1. Len(SubSeq(sg, 1, k)) = k /\ 1 .. k \subseteq 1 .. Len(sg)
      /\ \A i \in 1 .. k : SubSeq(sg, 1, k)[i] = sg[i]
  OBVIOUS
<1>2. {SubSeq(sg, 1, k)[i].inserts : i \in 1 .. k} \subseteq {sg[i].inserts : i \in 1 .. Len(sg)}
  BY <1>1
<1> QED BY <1>1, <1>2 DEF Inserts

\* The inserts of segments over E are in E.
LEMMA InsertsType ==
  ASSUME NEW E, NEW sg \in Seq(Segment(E))
  PROVE  Inserts(sg) \subseteq E
<1>1. \A i \in 1 .. Len(sg) : sg[i].inserts \subseteq E
  BY SegmentFields
<1> QED BY <1>1 DEF Inserts

-----------------------------------------------------------------------------
(* What a step leaves alone *)

\* Which steps change which part of the disk.
LEMMA Frame ==
  ASSUME [Next]_vars
  PROVE  /\ StoreNew \/ PowerLoss \/ UNCHANGED packs
         /\ StoreNew \/ PowerLoss \/ CloseStore \/ Interrupt \/ Fail \/ UNCHANGED synced
         /\ PowerLoss \/ UNCHANGED torn
         /\ ReconcileSlow \/ FlushIndex \/ UNCHANGED index
         /\ Start \/ ReconcileFast \/ ReconcileSlow \/ EmitSegment \/ RemoveCheckpoint
            \/ PowerLoss \/ UNCHANGED segs
         /\ EmitCheckpoint \/ RemoveCheckpoint \/ UNCHANGED ckpt
         /\ SaveManifest \/ UNCHANGED manifest
         /\ UNCHANGED world
<1> USE DEF packfiles, sidecar, resumables, loop, env, Stop, DropSidecar, Continue, Refuse
<1>1. CASE Start
  BY <1>1 DEF Start
<1>2. CASE ReconcileFast
  BY <1>2 DEF ReconcileFast
<1>3. CASE ReconcileSlow
  BY Zenon, <1>3 DEF ReconcileSlow
<1>4. CASE StoreKnown
  BY <1>4 DEF StoreKnown
<1>5. CASE StoreNew
  BY <1>5 DEF StoreNew
<1>6. CASE EmitSync
  BY <1>6 DEF EmitSync
<1>7. CASE EmitSegment
  BY <1>7 DEF EmitSegment
<1>8. CASE EmitCheckpoint
  BY Zenon, <1>8 DEF EmitCheckpoint
<1>9. CASE Record
  BY <1>9 DEF Record
<1>10. CASE CloseStore
  BY <1>10 DEF CloseStore
<1>11. CASE FlushIndex
  BY <1>11 DEF FlushIndex
<1>12. CASE SaveManifest
  BY <1>12 DEF SaveManifest
<1>13. CASE RemoveCheckpoint
  BY <1>13 DEF RemoveCheckpoint
<1>14. CASE Kill
  BY <1>14 DEF Kill
<1>15. CASE PowerLoss
  BY Zenon, <1>15 DEF PowerLoss
<1>16. CASE Interrupt
  BY <1>16 DEF Interrupt
<1>17. CASE Fail
  BY <1>17 DEF Fail
<1>20. CASE UNCHANGED vars
  BY <1>20 DEF vars
<1> QED BY Zenon, <1>1, <1>2, <1>3, <1>4, <1>5, <1>6, <1>7, <1>8, <1>9, <1>10, <1>11, <1>12,
           <1>13, <1>14, <1>15, <1>16, <1>17, <1>20 DEF Next, Step, Resume, Emit

-----------------------------------------------------------------------------
(* The packs *)

\* The conjuncts of TypeOK, one group of variables each.
TPacks ==
  /\ packs \in Seq(Seq(Hash)) /\ synced \in Seq(Nat) /\ Len(synced) = Len(packs)
  /\ \A p \in 1 .. Len(packs) : /\ Len(packs[p]) <= PackFrames
                                 /\ synced[p] \in 0 .. Len(packs[p])

\* What StoreRaw does to the packs: one frame more, in the pack of the run or in
\* the next one, and the full pack synced (store.go rotatePack).
LEMMA StoreNewPacks ==
  ASSUME TPacks, StoreNew, pack \in Nat \ {0}, pack \in {Len(packs), Len(packs) + 1},
         pos \in 1 .. N
  PROVE  /\ packs' \in Seq(Seq(Hash)) /\ synced' \in Seq(Nat)
         /\ pack' = Len(packs') /\ pack' \in {pack, pack + 1}
         /\ Len(packs') \in {Len(packs), Len(packs) + 1} /\ Len(synced') = Len(packs')
         /\ \A q \in 1 .. Len(packs) : q # pack' => packs'[q] = packs[q]
         /\ pack' <= Len(packs) => /\ packs'[pack'] = Append(packs[pack'], Source[pos])
                                   /\ Len(packs[pack']) < PackFrames
         /\ pack' > Len(packs) => packs'[pack'] = <<Source[pos]>> /\ synced'[pack'] = 0
         /\ \A q \in 1 .. Len(packs) :
              synced'[q] = IF q = pack /\ pack' # pack THEN PackFrames ELSE synced[q]
         /\ (pack' # pack) => (pack <= Len(packs) /\ Len(packs[pack]) = PackFrames)
         /\ cur' = [h |-> Source[pos], pack |-> pack', off |-> Len(packs'[pack'])]
<1> USE SourceFacts
<1>0. Source[pos] \in Hash /\ Len(packs) \in Nat /\ pack \in 1 .. Len(packs) + 1
      /\ \A q \in 1 .. Len(packs) : packs[q] \in Seq(Hash) /\ Len(packs[q]) \in Nat
  BY DEF TPacks
<1> DEFINE p == IF Full(pack) THEN pack + 1 ELSE pack
<1>1. /\ pack' = p
      /\ packs' = IF p > Len(packs) THEN Append(packs, <<Source[pos]>>)
                  ELSE [packs EXCEPT ![p] = Append(@, Source[pos])]
      /\ synced' = LET s == IF p # pack THEN [synced EXCEPT ![pack] = PackFrames]
                            ELSE synced
                   IN IF p > Len(packs) THEN Append(s, 0) ELSE s
      /\ cur' = [h |-> Source[pos], pack |-> p, off |-> Len(packs'[p])]
  BY DEF StoreNew
<1>2. CASE Full(pack)
  <2>1. pack <= Len(packs) /\ Len(packs[pack]) >= PackFrames
    BY <1>2 DEF Full
  <2>2. pack = Len(packs) /\ p = Len(packs) + 1 /\ Len(packs[pack]) = PackFrames
    BY <1>0, <1>2, <2>1 DEF TPacks
  <2>3. packs' = Append(packs, <<Source[pos]>>) /\ <<Source[pos]>> \in Seq(Hash)
    BY <1>0, <1>1, <2>2
  <2> DEFINE s == [synced EXCEPT ![pack] = PackFrames]
  <2>4. synced' = Append(s, 0)
    BY <1>0, <1>1, <2>2
  <2>5. s \in Seq(Nat) /\ Len(s) = Len(packs)
        /\ \A q \in 1 .. Len(packs) : s[q] = IF q = pack THEN PackFrames ELSE synced[q]
    BY SMTT(30), <1>0, <2>2, ExceptSeq DEF TPacks
  <2> HIDE DEF s
  <2>6. synced' \in Seq(Nat) /\ Len(synced') = Len(packs) + 1 /\ synced'[Len(packs) + 1] = 0
        /\ \A q \in 1 .. Len(packs) : synced'[q] = s[q]
    BY <1>0, <2>4, <2>5
  <2>7. packs' \in Seq(Seq(Hash)) /\ Len(packs') = Len(packs) + 1
        /\ packs'[Len(packs) + 1] = <<Source[pos]>>
        /\ \A q \in 1 .. Len(packs) : packs'[q] = packs[q]
    BY <1>0, <2>3 DEF TPacks
  <2> HIDE DEF p
  <2>8. pack' = Len(packs) + 1 /\ pack = Len(packs)
        /\ cur' = [h |-> Source[pos], pack |-> pack', off |-> Len(packs'[pack'])]
    BY <1>1, <2>2
  <2>9. /\ pack' = Len(packs') /\ pack' > Len(packs) /\ ~(pack' <= Len(packs))
        /\ packs'[pack'] = <<Source[pos]>> /\ synced'[pack'] = 0
    BY <1>0, <2>6, <2>7, <2>8
  <2>10. \A q \in 1 .. Len(packs) :
           synced'[q] = IF q = pack /\ pack' # pack THEN PackFrames ELSE synced[q]
    BY SMTT(30), <1>0, <2>5, <2>6, <2>8
  <2> QED BY <1>0, <2>2, <2>6, <2>7, <2>8, <2>9, <2>10
<1>3. CASE ~Full(pack) /\ pack = Len(packs) + 1
  <2>1. p = Len(packs) + 1
    BY <1>3
  <2> HIDE DEF p
  <2>2. packs' = Append(packs, <<Source[pos]>>) /\ synced' = Append(synced, 0)
        /\ <<Source[pos]>> \in Seq(Hash)
    BY <1>0, <1>1, <1>3, <2>1
  <2>3. synced' \in Seq(Nat) /\ Len(synced') = Len(packs) + 1 /\ synced'[Len(packs) + 1] = 0
        /\ \A q \in 1 .. Len(packs) : synced'[q] = synced[q]
    BY <1>0, <2>2 DEF TPacks
  <2>4. packs' \in Seq(Seq(Hash)) /\ Len(packs') = Len(packs) + 1
        /\ packs'[Len(packs) + 1] = <<Source[pos]>>
        /\ \A q \in 1 .. Len(packs) : packs'[q] = packs[q]
    BY <1>0, <2>2 DEF TPacks
  <2>5. pack' = Len(packs) + 1 /\ pack = Len(packs) + 1
        /\ cur' = [h |-> Source[pos], pack |-> pack', off |-> Len(packs'[pack'])]
    BY <1>1, <1>3, <2>1
  <2>6. /\ pack' = Len(packs') /\ pack' > Len(packs) /\ ~(pack' <= Len(packs)) /\ pack' = pack
        /\ packs'[pack'] = <<Source[pos]>> /\ synced'[pack'] = 0
    BY <1>0, <2>3, <2>4, <2>5
  <2> QED BY Zenon, <1>0, <2>3, <2>4, <2>5, <2>6
<1>4. CASE ~Full(pack) /\ pack = Len(packs)
  <2>1. p = pack /\ pack \in 1 .. Len(packs) /\ Len(packs[pack]) < PackFrames
    BY <1>0, <1>4 DEF Full
  <2> HIDE DEF p
  <2>2. packs' = [packs EXCEPT ![pack] = Append(packs[pack], Source[pos])] /\ synced' = synced
    BY <1>0, <1>1, <1>4, <2>1
  <2>3. Append(packs[pack], Source[pos]) \in Seq(Hash)
    BY <1>0, <2>1
  <2>4. packs' \in Seq(Seq(Hash)) /\ Len(packs') = Len(packs)
        /\ \A q \in 1 .. Len(packs) : packs'[q] = IF q = pack THEN Append(packs[pack], Source[pos]) ELSE packs[q]
    BY SMTT(30), <2>1, <2>2, <2>3, ExceptSeq DEF TPacks
  <2>5. pack' = pack /\ pack' = Len(packs') /\ Len(packs') = Len(packs)
        /\ cur' = [h |-> Source[pos], pack |-> pack', off |-> Len(packs'[pack'])]
    BY <1>1, <1>4, <2>1, <2>4
  <2>6. synced' \in Seq(Nat) /\ Len(synced') = Len(packs')
        /\ \A q \in 1 .. Len(packs) : synced'[q] = synced[q]
    BY <2>2, <2>5 DEF TPacks
  <2>7. packs'[pack'] = Append(packs[pack'], Source[pos])
        /\ \A q \in 1 .. Len(packs) : q # pack' => packs'[q] = packs[q]
    BY Zenon, <2>1, <2>4, <2>5
  <2> QED BY <1>0, <1>4, <2>1, <2>4, <2>5, <2>6, <2>7
<1> QED BY Zenon, <1>0, <1>2, <1>3, <1>4

\* A power loss keeps of each pack what was synced and any part of the rest.
LEMMA PowerLossPacks ==
  ASSUME TPacks, PowerLoss
  PROVE  /\ packs' \in Seq(Seq(Hash)) /\ synced' \in Seq(Nat)
         /\ Len(packs') = Len(packs) /\ Len(synced') = Len(packs)
         /\ \A p \in 1 .. Len(packs) :
              /\ Len(packs'[p]) = synced'[p] /\ synced'[p] \in synced[p] .. Len(packs[p])
              /\ \A o \in 1 .. synced'[p] : packs'[p][o] = packs[p][o]
<1>1. PICK keep \in [1 .. Len(packs) -> 0 .. PackFrames] :
          /\ \A p \in 1 .. Len(packs) : keep[p] \in synced[p] .. Len(packs[p])
          /\ packs' = [p \in 1 .. Len(packs) |-> SubSeq(packs[p], 1, keep[p])]
          /\ synced' = [p \in 1 .. Len(packs) |-> keep[p]]
  BY Zenon DEF PowerLoss
<1>2. Len(packs) \in Nat /\ PackFrames \in Nat
  BY SourceFacts DEF TPacks
<1>3. ASSUME NEW p \in 1 .. Len(packs)
      PROVE  /\ SubSeq(packs[p], 1, keep[p]) \in Seq(Hash)
             /\ Len(SubSeq(packs[p], 1, keep[p])) = keep[p]
             /\ \A o \in 1 .. keep[p] : SubSeq(packs[p], 1, keep[p])[o] = packs[p][o]
             /\ keep[p] \in Nat
  <2>1. packs[p] \in Seq(Hash) /\ synced[p] \in Nat /\ keep[p] \in synced[p] .. Len(packs[p])
    BY <1>1 DEF TPacks
  <2>2. keep[p] \in 0 .. Len(packs[p])
    BY <2>1
  <2> QED BY <2>1, <2>2, PrefixType
<1>4. packs' \in Seq(Seq(Hash)) /\ Len(packs') = Len(packs)
  BY <1>1, <1>2, <1>3
<1>5. synced' \in Seq(Nat) /\ Len(synced') = Len(packs)
  BY <1>1, <1>2, <1>3
<1>6. ASSUME NEW p \in 1 .. Len(packs)
      PROVE  packs'[p] = SubSeq(packs[p], 1, keep[p]) /\ synced'[p] = keep[p]
  BY <1>1
<1> QED BY <1>1, <1>3, <1>4, <1>5, <1>6

\* Closing the store syncs the pack the run wrote, if it wrote one.
LEMMA SyncedAtCloseFacts ==
  ASSUME TPacks, cur.pack = pack => pack \in 1 .. Len(packs), synced' = SyncedAtClose
  PROVE  /\ synced' \in Seq(Nat) /\ Len(synced') = Len(packs)
         /\ \A p \in 1 .. Len(packs) :
              synced'[p] = IF p = pack /\ cur.pack = pack THEN Len(packs[p]) ELSE synced[p]
<1>1. CASE cur.pack = pack
  <2>1. pack \in 1 .. Len(synced) /\ synced \in Seq(Nat) /\ Len(synced) = Len(packs)
        /\ Len(packs[pack]) \in Nat
    BY <1>1 DEF TPacks
  <2>2. synced' = [synced EXCEPT ![pack] = Len(packs[pack])]
    BY <1>1 DEF SyncedAtClose
  <2> QED BY <1>1, <2>1, <2>2, ExceptSeq
<1>2. CASE cur.pack # pack
  BY <1>2 DEF SyncedAtClose, TPacks
<1> QED BY <1>1, <1>2

\* What the run knows of its packs.
PackAt ==
  /\ cur \in Entry \cup {NoCur}
  /\ pack \in Nat \ {0}
  /\ pc = "loop" => pack \in {Len(packs), Len(packs) + 1} /\ pos \in Nat \ {0}
  /\ cur.pack = pack => pack \in 1 .. Len(packs)

\* No step loses what is synced; only a power loss loses what is not.
LEMMA PacksStep ==
  ASSUME TPacks, PackAt, [Next]_vars
  PROVE  /\ TPacks' /\ Len(packs) <= Len(packs') /\ Entry \subseteq Entry'
         /\ \A e \in Entry : Sealed(e) => Sealed(e)'
         /\ ~PowerLoss => \A e \in Entry : Holds(e) => Holds(e)'
<1> USE SourceFacts
<1>0. /\ Len(packs) \in Nat
      /\ \A e \in Entry : e.pack \in 1 .. Len(packs) /\ e.off \in Nat \ {0} /\ e.h \in Hash
      /\ \A p \in 1 .. Len(packs) : packs[p] \in Seq(Hash) /\ Len(packs[p]) \in Nat /\ synced[p] \in Nat
  BY SMTT(30) DEF TPacks, Entry
<1>1. CASE StoreNew
  <2>1. pc = "loop" /\ pos \in 1 .. N
    BY <1>1 DEF StoreNew, PackAt
  <2>2. pack \in {Len(packs), Len(packs) + 1} /\ pack \in Nat \ {0}
    BY <2>1 DEF PackAt
  <2>3. /\ packs' \in Seq(Seq(Hash)) /\ synced' \in Seq(Nat)
        /\ pack' = Len(packs') /\ pack' \in {pack, pack + 1}
        /\ Len(packs') \in {Len(packs), Len(packs) + 1} /\ Len(synced') = Len(packs')
        /\ \A q \in 1 .. Len(packs) : q # pack' => packs'[q] = packs[q]
        /\ pack' <= Len(packs) => /\ packs'[pack'] = Append(packs[pack'], Source[pos])
                                  /\ Len(packs[pack']) < PackFrames
        /\ pack' > Len(packs) => packs'[pack'] = <<Source[pos]>> /\ synced'[pack'] = 0
        /\ \A q \in 1 .. Len(packs) :
             synced'[q] = IF q = pack /\ pack' # pack THEN PackFrames ELSE synced[q]
        /\ (pack' # pack) => (pack <= Len(packs) /\ Len(packs[pack]) = PackFrames)
    BY Zenon, <1>1, <2>1, <2>2, StoreNewPacks
  <2>4. ASSUME NEW q \in 1 .. Len(packs)
        PROVE  /\ Len(packs[q]) <= Len(packs'[q]) /\ Len(packs'[q]) <= PackFrames
               /\ \A o \in 1 .. Len(packs[q]) : packs'[q][o] = packs[q][o]
               /\ synced[q] <= synced'[q] /\ synced'[q] \in 0 .. Len(packs'[q])
    <3>1. packs[q] \in Seq(Hash) /\ Source[pos] \in Hash /\ Len(packs[q]) <= PackFrames
          /\ synced[q] \in 0 .. Len(packs[q])
      BY <2>1 DEF TPacks
    <3>2. CASE q # pack'
      <4>1. packs'[q] = packs[q]
        BY <2>3, <3>2
      <4>2. q = pack /\ pack' # pack => Len(packs[q]) = PackFrames
        BY <2>3
      <4>3. synced'[q] = IF q = pack /\ pack' # pack THEN PackFrames ELSE synced[q]
        BY <2>3
      <4> QED BY <3>1, <4>1, <4>2, <4>3
    <3>3. CASE q = pack'
      <4>1. packs'[q] = Append(packs[q], Source[pos]) /\ Len(packs[q]) < PackFrames
        BY <1>0, <2>3, <3>3
      <4>2. synced'[q] = synced[q]
        BY <2>3, <3>3
      <4> QED BY <1>0, <3>1, <4>1, <4>2
    <3> QED BY <3>2, <3>3
  <2>5. ASSUME NEW q \in 1 .. Len(packs'), q \notin 1 .. Len(packs)
        PROVE  Len(packs'[q]) <= PackFrames /\ synced'[q] \in 0 .. Len(packs'[q])
    <3>1. q = pack' /\ pack' > Len(packs)
      BY SMTT(30), <1>0, <2>3, <2>5
    <3>2. packs'[q] = <<Source[pos]>> /\ synced'[q] = 0
      BY <2>3, <3>1
    <3> QED BY <3>2
  <2>6. TPacks'
    BY Zenon, <2>3, <2>4, <2>5 DEF TPacks
  <2>7. Len(packs) <= Len(packs') /\ Len(packs') \in Nat
    BY <1>0, <2>3
  <2>8. Entry \subseteq Entry'
    BY <1>0, <2>7 DEF Entry
  <2>9. ASSUME NEW e \in Entry, Holds(e) PROVE Holds(e)'
    <3>1. e.pack \in 1 .. Len(packs) /\ e.off \in Nat \ {0}
      BY <1>0 DEF Entry
    <3>2. e.off <= Len(packs[e.pack]) /\ packs[e.pack][e.off] = e.h
      BY <2>9 DEF Holds
    <3>3. e.pack <= Len(packs') /\ e.pack \in 1 .. Len(packs')
      BY <1>0, <2>7, <3>1
    <3> QED BY SMTT(30), <1>0, <2>4, <3>1, <3>2, <3>3 DEF Holds
  <2>10. ASSUME NEW e \in Entry, Sealed(e) PROVE Sealed(e)'
    <3>1. Holds(e) /\ Holds(e)' /\ e.off <= synced[e.pack] /\ e.pack \in 1 .. Len(packs)
      BY <1>0, <2>9, <2>10 DEF Sealed
    <3>2. synced[e.pack] <= synced'[e.pack] /\ synced'[e.pack] \in Nat
      BY <1>0, <2>4, <3>1
    <3>3. e.off <= synced'[e.pack]
      BY <1>0, <3>1, <3>2
    <3> QED BY <3>1, <3>3 DEF Sealed
  <2> QED BY <2>6, <2>7, <2>8, <2>9, <2>10
<1>2. CASE PowerLoss
  <2>1. /\ packs' \in Seq(Seq(Hash)) /\ synced' \in Seq(Nat)
        /\ Len(packs') = Len(packs) /\ Len(synced') = Len(packs)
        /\ \A p \in 1 .. Len(packs) :
             /\ Len(packs'[p]) = synced'[p] /\ synced'[p] \in synced[p] .. Len(packs[p])
             /\ \A o \in 1 .. synced'[p] : packs'[p][o] = packs[p][o]
    BY Zenon, <1>2, PowerLossPacks
  <2>a. ASSUME NEW p \in 1 .. Len(packs)
        PROVE  /\ Len(packs'[p]) = synced'[p] /\ synced'[p] \in Nat
               /\ synced[p] <= synced'[p] /\ synced'[p] <= PackFrames
    <3>1. synced[p] \in Nat /\ Len(packs[p]) \in Nat /\ Len(packs[p]) <= PackFrames
      BY DEF TPacks
    <3>2. Len(packs'[p]) = synced'[p] /\ synced'[p] \in synced[p] .. Len(packs[p])
      BY <2>1
    <3> QED BY <3>1, <3>2
  <2>2. TPacks'
    <3>1. ASSUME NEW p \in 1 .. Len(packs')
          PROVE  Len(packs'[p]) <= PackFrames /\ synced'[p] \in 0 .. Len(packs'[p])
      BY <2>1, <2>a
    <3> QED BY Zenon, <2>1, <3>1 DEF TPacks
  <2>3. Entry' = Entry
    BY <2>1 DEF Entry
  <2>4. ASSUME NEW e \in Entry, Sealed(e) PROVE Sealed(e)'
    <3>1. e.pack \in 1 .. Len(packs) /\ e.off \in 1 .. synced[e.pack] /\ packs[e.pack][e.off] = e.h
      BY <1>0, <2>4 DEF Sealed, Holds
    <3>2. e.off \in 1 .. synced'[e.pack] /\ e.off <= Len(packs'[e.pack])
      <4>1. e.off \in Nat \ {0} /\ synced[e.pack] \in Nat
        BY <1>0, <3>1
      <4>2. /\ Len(packs'[e.pack]) = synced'[e.pack] /\ synced'[e.pack] \in Nat
            /\ synced[e.pack] <= synced'[e.pack]
        BY <2>a, <3>1
      <4> QED BY <3>1, <4>1, <4>2
    <3>3. packs'[e.pack][e.off] = e.h /\ e.pack <= Len(packs')
      <4>1. PICK p \in 1 .. Len(packs) : p = e.pack
        BY <3>1
      <4>2. packs'[p][e.off] = packs[p][e.off]
        BY Zenon, <2>1, <3>2, <4>1
      <4> QED BY <2>1, <3>1, <4>1, <4>2
    <3> QED BY <3>2, <3>3 DEF Sealed, Holds
  <2> QED BY <1>0, <1>2, <2>1, <2>2, <2>3, <2>4
<1>3. CASE UNCHANGED packs /\ (CloseStore \/ Interrupt \/ Fail)
  <2>1. synced' = SyncedAtClose
    BY <1>3 DEF CloseStore, Interrupt, Fail, DropSidecar
  <2>2. /\ synced' \in Seq(Nat) /\ Len(synced') = Len(packs)
        /\ \A p \in 1 .. Len(packs) :
             synced'[p] = IF p = pack /\ cur.pack = pack THEN Len(packs[p]) ELSE synced[p]
    BY <2>1, SyncedAtCloseFacts DEF PackAt
  <2>3. TPacks'
    <3>1. ASSUME NEW p \in 1 .. Len(packs)
          PROVE  Len(packs[p]) <= PackFrames /\ synced'[p] \in 0 .. Len(packs[p])
      <4>1. Len(packs[p]) \in Nat /\ Len(packs[p]) <= PackFrames /\ synced[p] \in 0 .. Len(packs[p])
        BY DEF TPacks
      <4>2. synced'[p] = IF p = pack /\ cur.pack = pack THEN Len(packs[p]) ELSE synced[p]
        BY <2>2
      <4> QED BY <4>1, <4>2
    <3> QED BY <1>3, <2>2, <3>1 DEF TPacks
  <2>4. Entry' = Entry /\ Len(packs') = Len(packs)
    BY <1>3 DEF Entry
  <2>5. ASSUME NEW e \in Entry, Holds(e) PROVE Holds(e)'
    BY <1>3, <2>5 DEF Holds
  <2>6. ASSUME NEW e \in Entry, Sealed(e) PROVE Sealed(e)'
    <3>1. Holds(e) /\ Holds(e)' /\ e.off <= synced[e.pack] /\ e.pack \in 1 .. Len(packs)
          /\ e.off <= Len(packs[e.pack])
      BY <1>0, <2>5, <2>6 DEF Sealed, Holds
    <3>2. synced'[e.pack] = IF e.pack = pack /\ cur.pack = pack THEN Len(packs[e.pack]) ELSE synced[e.pack]
      BY <2>2, <3>1
    <3> QED BY <3>1, <3>2 DEF Sealed
  <2> QED BY <1>0, <2>3, <2>4, <2>5, <2>6
<1>4. CASE UNCHANGED <<packs, synced>>
  BY <1>0, <1>4 DEF TPacks, Entry, Sealed, Holds
<1> QED BY <1>1, <1>2, <1>3, <1>4, Frame

-----------------------------------------------------------------------------
(* Types *)

TTorn == torn \subseteq [pack : 1 .. Len(packs), at : 0 .. PackFrames]
TEntries == index \cup session \cup pending \subseteq Entry /\ cur \in Entry \cup {NoCur}
TSide == /\ side \in Seq(Hash) /\ manifest \in Seq(Hash)
         /\ sideHere \in BOOLEAN /\ sideSynced \in 0 .. Len(side)
TSegs == segs \in Seq(Segment(Entry))
TCkpt == ckpt \in [here : BOOLEAN, seq : Nat, len : 0 .. N, resume : 0 .. N]
TLoop ==
  /\ pc \in {"idle", "loop", "sync", "segment", "checkpoint", "record",
             "flush", "save", "saved", "done"}
  /\ pos \in 1 .. N + 1
  /\ pack \in 1 .. Len(packs) + 1 /\ curPack \in 1 .. Len(packs) + 1
  /\ ckptSeq \in Nat /\ prevLen \in 0 .. N /\ wrote \in BOOLEAN
  /\ world \in Worlds /\ stops \in 0 .. MaxStops

\* The groups are TypeOK.
LEMMA TypeParts ==
  TypeOK <=> TPacks /\ TTorn /\ TEntries /\ TSide /\ TSegs /\ TCkpt /\ TLoop
BY Zenon DEF TypeOK, TPacks, TTorn, TEntries, TSide, TSegs, TCkpt, TLoop, Segment

\* The initial states are well typed.
LEMMA TypeInit == Init => TypeOK
<1> SUFFICES ASSUME Init PROVE TypeOK
  OBVIOUS
<1> USE SourceFacts
<1>1. TPacks
  <2>1. CASE Earlier = <<>>
    BY <2>1 DEF Init, TPacks
  <2>2. CASE Earlier # <<>>
    <3>1. packs = <<Earlier>> /\ synced = <<Len(Earlier)>> /\ Len(Earlier) \in Nat
      BY <2>2 DEF Init
    <3> QED BY <3>1 DEF TPacks
  <2> QED BY <2>1, <2>2
<1>2. TTorn /\ TSegs
  BY DEF Init, TTorn, TSegs
<1>3. TEntries
  BY DEF Init, TEntries, LastOfEach, Frames
<1>4. TSide
  <2>1. <<>> \in Seq(Hash) /\ Len(<<>>) = 0 /\ 0 \in 0 .. 0
    OBVIOUS
  <2>2. side = <<>> /\ manifest = <<>> /\ sideHere = FALSE /\ sideSynced = 0
    BY DEF Init
  <2> QED BY Zenon, <2>1, <2>2 DEF TSide
<1>5. TCkpt
  <2>1. 0 \in 0 .. N /\ ckpt = [here |-> FALSE, seq |-> 0, len |-> 0, resume |-> 0]
    BY DEF Init, NoCkpt
  <2> QED BY <2>1 DEF TCkpt
<1>6. TLoop
  <2>1. Len(packs) \in Nat /\ 1 \in 1 .. Len(packs) + 1 /\ 1 \in 1 .. N + 1
        /\ 0 \in 0 .. N /\ 0 \in 0 .. MaxStops
    BY <1>1 DEF TPacks
  <2> QED BY Zenon, <2>1 DEF Init, TLoop
<1> QED BY <1>1, <1>2, <1>3, <1>4, <1>5, <1>6, TypeParts

\* The variables of the loop keep their types.
LEMMA LoopStep ==
  ASSUME TypeOK, RunInv, CkptInv, [Next]_vars, TPacks', Len(packs) <= Len(packs')
  PROVE  TLoop'
<1> USE SourceFacts
<1>0. Len(packs) \in Nat /\ Len(packs') \in Nat /\ TLoop /\ TCkpt /\ TSide
  BY TypeParts DEF TPacks
<1>00. ckpt.here \in BOOLEAN /\ ckpt.seq \in Nat /\ ckpt.len \in 0 .. N /\ ckpt.resume \in 0 .. N
  BY <1>0 DEF TCkpt
<1> USE DEF loop, env, Stop
<1>a. ASSUME NEW S, ckpt.here, Continue(S) PROVE TLoop'
  <2>1. packs' = packs /\ pos' \in 1 .. N /\ pack' = Len(packs) + 1 /\ curPack' = Len(packs) + 1
        /\ ckptSeq' \in Nat /\ prevLen' \in 0 .. N /\ pc' = "loop" /\ wrote' = FALSE
        /\ UNCHANGED <<world, stops>>
    BY <1>00, <1>a DEF Continue, packfiles, CkptInv
  <2>2. pos' \in 1 .. N + 1 /\ pack' \in 1 .. Len(packs') + 1 /\ curPack' \in 1 .. Len(packs') + 1
    BY <1>0, <2>1
  <2>3. world' \in Worlds /\ stops' \in 0 .. MaxStops
    BY <1>0, <2>1 DEF TLoop
  <2> QED BY Zenon, <2>1, <2>2, <2>3 DEF TLoop
<1>b. ASSUME Refuse PROVE TLoop'
  BY <1>0, <1>b DEF Refuse, TLoop, packfiles
<1>1. CASE Start
  <2>1. packs' = packs /\ (packs # <<>> => Len(packs) >= 1)
    BY <1>1 DEF Start, packfiles, TPacks
  <2>2. pack' \in 1 .. Len(packs') + 1 /\ 1 \in 1 .. Len(packs') + 1
    BY <1>0, <1>1, <2>1 DEF Start
  <2>3. /\ pc' = "loop" /\ pos' = 1 /\ curPack' = 1 /\ ckptSeq' = 0 /\ prevLen' = 0
        /\ wrote' = FALSE /\ UNCHANGED <<world, stops>>
    BY <1>1 DEF Start
  <2>4. world' \in Worlds /\ stops' \in 0 .. MaxStops /\ 1 \in 1 .. N + 1 /\ 0 \in 0 .. N
    BY <1>0, <2>3 DEF TLoop
  <2> QED BY Zenon, <2>2, <2>3, <2>4 DEF TLoop
<1>2. CASE ReconcileFast
  BY <1>2, <1>a DEF ReconcileFast
<1>3. CASE ReconcileSlow
  BY <1>3, <1>a, <1>b DEF ReconcileSlow
<1>4. CASE StoreKnown
  BY <1>0, <1>00, <1>4 DEF TLoop, StoreKnown
<1>5. CASE StoreNew
  BY <1>0, <1>00, <1>5 DEF TLoop, StoreNew
<1>6. CASE EmitSync
  BY <1>0, <1>00, <1>6 DEF TLoop, EmitSync
<1>7. CASE EmitSegment
  BY SMTT(30), <1>0, <1>00, <1>7 DEF TLoop, EmitSegment
<1>8. CASE EmitCheckpoint
  <2>1. side = SubSeq(Source, 1, pos - 1) /\ pos <= N /\ pos \in Nat \ {0}
    BY SMTT(30), <1>0, <1>8 DEF EmitCheckpoint, RunInv, RunSide, RunCur, Live, Emitting, TLoop
  <2>2. Len(side) \in 0 .. N
    BY <2>1
  <2>3. packs' = packs
    BY <1>8 DEF EmitCheckpoint, packfiles
  <2> QED BY <1>0, <1>00, <1>8, <2>2, <2>3 DEF TLoop, EmitCheckpoint
<1>9. CASE Record
  <2>1. pos <= N
    BY <1>9 DEF Record, RunInv, RunCur, Live, Emitting
  <2> QED BY <1>0, <1>00, <1>9, <2>1 DEF TLoop, Record
<1>10. CASE CloseStore
  BY <1>0, <1>00, <1>10 DEF TLoop, CloseStore
<1>11. CASE FlushIndex
  BY <1>0, <1>00, <1>11 DEF TLoop, FlushIndex
<1>12. CASE SaveManifest
  BY <1>0, <1>00, <1>12 DEF TLoop, SaveManifest
<1>13. CASE RemoveCheckpoint
  BY <1>0, <1>00, <1>13 DEF TLoop, RemoveCheckpoint
<1>14. CASE Kill
  BY SMTT(30), <1>0, <1>00, <1>14 DEF TLoop, Kill
<1>15. CASE PowerLoss
  <2>1. Stop /\ UNCHANGED loop
    BY <1>15 DEF PowerLoss
  <2> QED BY <1>0, <2>1 DEF TLoop
<1>16. CASE Interrupt
  BY <1>0, <1>00, <1>16 DEF TLoop, Interrupt
<1>17. CASE Fail
  BY <1>0, <1>00, <1>17 DEF TLoop, Fail
<1>20. CASE UNCHANGED vars
  BY <1>0, <1>20 DEF TLoop, vars
<1> QED BY <1>1, <1>2, <1>3, <1>4, <1>5, <1>6, <1>7, <1>8, <1>9, <1>10, <1>11, <1>12, <1>13,
           <1>14, <1>15, <1>16, <1>17, <1>20 DEF Next, Step, Resume, Emit

-----------------------------------------------------------------------------
(* Resuming and stopping *)

\* A continued run of the slow path.
SlowContinue ==
  /\ Idle /\ ckpt.here /\ ~FastPath /\ segs' = <<>> /\ index' = LastOfEach(Frames)
  /\ ~world.managed /\ torn = {}
  /\ sideHere /\ Len(side) >= ckpt.len /\ PrefixPresent /\ Continue({})

\* A resume the slow path refuses.
SlowRefuse ==
  /\ Idle /\ ckpt.here /\ ~FastPath /\ segs' = <<>> /\ Refuse
  /\ \/ world.managed /\ UNCHANGED index
     \/ ~world.managed /\ index' \subseteq Frames

\* The slow path continues or refuses.
LEMMA SlowCases == ReconcileSlow => SlowContinue \/ SlowRefuse
<1> SUFFICES ASSUME ReconcileSlow PROVE SlowContinue \/ SlowRefuse
  OBVIOUS
<1>1. Idle /\ ckpt.here /\ ~FastPath /\ segs' = <<>>
  BY DEF ReconcileSlow
<1>2. CASE world.managed /\ UNCHANGED index /\ Refuse
  BY <1>1, <1>2 DEF SlowRefuse
<1>3. CASE /\ ~world.managed /\ torn # {}
           /\ \E t \in torn :
                /\ \A u \in torn : t.pack <= u.pack
                /\ index' = LastOfEach({e \in Frames : \/ e.pack < t.pack
                                                       \/ e.pack = t.pack /\ e.off <= t.at})
           /\ Refuse
  <2>1. index' \subseteq Frames
    BY <1>3 DEF LastOfEach
  <2> QED BY <1>1, <1>3, <2>1 DEF SlowRefuse
<1>4. CASE /\ ~world.managed /\ torn = {}
           /\ index' = LastOfEach(Frames)
           /\ IF sideHere /\ Len(side) >= ckpt.len /\ PrefixPresent
              THEN Continue({}) ELSE Refuse
  <2>1. index' \subseteq Frames
    BY <1>4 DEF LastOfEach
  <2>2. CASE sideHere /\ Len(side) >= ckpt.len /\ PrefixPresent
    BY <1>1, <1>4, <2>2 DEF SlowContinue
  <2>3. CASE ~(sideHere /\ Len(side) >= ckpt.len /\ PrefixPresent)
    BY <1>1, <1>4, <2>1, <2>3 DEF SlowRefuse
  <2> QED BY <2>2, <2>3
<1> QED BY <1>2, <1>3, <1>4 DEF ReconcileSlow

\* The ways to stop.
Stopped == Kill \/ PowerLoss \/ Interrupt \/ Fail

\* What every stop leaves alone.
LEMMA StoppedFacts ==
  Stopped => Stop /\ pc' = "idle" /\ UNCHANGED <<index, ckpt, manifest, loop, world>>
BY DEF Stopped, Kill, PowerLoss, Interrupt, Fail, Stop, resumables, DropSidecar

\* The steps after which a run is in progress.
LEMMA LiveSteps ==
  ASSUME [Next]_vars, Live'
  PROVE  \/ Start \/ ReconcileFast \/ SlowContinue \/ StoreKnown \/ StoreNew
         \/ EmitSync \/ EmitSegment \/ EmitCheckpoint \/ Record
         \/ CloseStore \/ FlushIndex \/ UNCHANGED vars
<1>1. ~Stopped
  BY StoppedFacts DEF Live
<1>2. ~SaveManifest /\ ~RemoveCheckpoint
  BY DEF SaveManifest, RemoveCheckpoint, Live
<1>3. ~SlowRefuse
  BY DEF SlowRefuse, Refuse, Live, Idle
<1> QED BY <1>1, <1>2, <1>3, SlowCases DEF Stopped, Next, Step, Resume, Emit

-----------------------------------------------------------------------------
(* What ParseSegments and ReplaySegments return *)

\* The last index up to which a property that holds of 0 holds.
LEMMA GreatestIn ==
  ASSUME NEW n \in Nat, NEW S \in SUBSET (0 .. n), 0 \in S
  PROVE  \E k \in S : \A j \in k + 1 .. n : j \notin S
<1> DEFINE D == {d \in 0 .. n : n - d \in S}
<1>1. D \subseteq Nat /\ n \in D
  OBVIOUS
<1>2. PICK d \in D : \A x \in D : d <= x
  BY Zenon, <1>1, NatMin
<1>3. n - d \in S /\ d \in 0 .. n
  OBVIOUS
<1>4. ASSUME NEW j \in (n - d) + 1 .. n, j \in S PROVE FALSE
  <2>1. n - j \in D /\ n - j < d
    BY <1>3, <1>4
  <2> QED BY <1>2, <1>3, <2>1
<1> QED BY <1>3, <1>4

\* ParseSegments keeps the longest part of the file that is whole and in order.
LEMMA Parse ==
  ASSUME TSegs
  PROVE  \E n \in 0 .. Len(segs) :
           /\ ParseSegments = First(n) /\ SegValid(n)
           /\ \A j \in n + 1 .. Len(segs) : ~SegValid(j)
<1> DEFINE Valid(k) == \A i \in 1 .. k : segs[i].ok /\ segs[i].seq = i - 1
           P(k) == Valid(k) /\ \A j \in k + 1 .. Len(segs) : ~Valid(j)
           n == CHOOSE k \in 0 .. Len(segs) : P(k)
           V == {k \in 0 .. Len(segs) : Valid(k)}
<1>1. Len(segs) \in Nat
  BY DEF TSegs
<1>2. 0 \in V
  BY <1>1
<1>3. \E k \in V : \A j \in k + 1 .. Len(segs) : j \notin V
  BY Zenon, <1>1, <1>2, GreatestIn
<1>4. \E k \in 0 .. Len(segs) : P(k)
  <2>1. PICK k \in V : \A j \in k + 1 .. Len(segs) : j \notin V
    BY <1>3
  <2> HIDE DEF Valid
  <2>2. k \in 0 .. Len(segs) /\ Valid(k)
    OBVIOUS
  <2>3. \A j \in k + 1 .. Len(segs) : j \in 0 .. Len(segs)
    BY <1>1, <2>2
  <2>4. \A j \in k + 1 .. Len(segs) : ~Valid(j)
    BY <2>1, <2>3
  <2> QED BY <2>2, <2>4
<1>5. n \in 0 .. Len(segs) /\ P(n)
  BY Zenon, <1>4
<1>6. ParseSegments = SubSeq(segs, 1, n)
  BY DEF ParseSegments
<1> QED BY Zenon, <1>5, <1>6 DEF First, SegValid

\* Type, length and prefixes of the first k segments.
LEMMA FirstFacts ==
  ASSUME TSegs, NEW k \in 0 .. Len(segs)
  PROVE  /\ First(k) \in Seq(Segment(Entry)) /\ Len(First(k)) = k
         /\ \A j \in 0 .. k : SubSeq(First(k), 1, j) = First(j)
         /\ Bytes(First(k)) \in Seq(Hash) /\ Inserts(First(k)) \subseteq Inserts(segs)
         /\ Inserts(First(k)) \subseteq Entry
         /\ First(Len(segs)) = segs /\ First(0) = <<>>
<1>1. segs \in Seq(Segment(Entry)) /\ Len(segs) \in Nat
  BY DEF TSegs
<1>2. First(k) \in Seq(Segment(Entry)) /\ Len(First(k)) = k
  BY <1>1, PrefixType DEF First
<1>3. \A j \in 0 .. k : SubSeq(First(k), 1, j) = First(j)
  BY <1>1, PrefixOfPrefix DEF First
<1>4. Bytes(First(k)) \in Seq(Hash) /\ Inserts(First(k)) \subseteq Entry
  BY <1>2, BytesType, InsertsType
<1>5. Inserts(First(k)) \subseteq Inserts(segs)
  BY <1>1, InsertsPrefix DEF First
<1>6. First(Len(segs)) = segs /\ First(0) = <<>>
  BY <1>1 DEF First
<1> QED BY <1>2, <1>3, <1>4, <1>5, <1>6

\* What the fast path finds: the segments up to the checkpoint's are whole, and
\* the inserts it replays are those of some of them that cover the prefix.
LEMMA FastSegments ==
  ASSUME TSegs, TCkpt, FastPath
  PROVE  /\ Keep \in 1 .. Len(segs) /\ SegValid(Keep) /\ Covering = First(Keep)
         /\ Len(ParseSegments) \in Nat /\ Len(ParseSegments) <= Len(segs)
         /\ Len(ParseSegments) > Keep \/ \A j \in Keep + 1 .. Len(segs) : ~SegValid(j)
         /\ Len(Bytes(First(Keep))) >= ckpt.len /\ sideHere /\ Len(side) >= ckpt.len
         /\ \E k \in 0 .. Keep : /\ Replayed = Inserts(First(k))
                                  /\ Len(Bytes(First(k))) >= ckpt.len
<1>1. PICK n \in 0 .. Len(segs) :
           /\ ParseSegments = First(n) /\ SegValid(n)
           /\ \A j \in n + 1 .. Len(segs) : ~SegValid(j)
  BY Parse
<1>2. Len(segs) \in Nat /\ ckpt.seq \in Nat /\ Keep = ckpt.seq + 1 /\ ckpt.len \in Nat
  BY SourceFacts DEF TSegs, TCkpt, Keep
<1>3. Len(First(n)) = n
  BY FirstFacts
<1>4. n >= Keep /\ Keep \in 1 .. Len(segs) /\ Keep \in 0 .. n
  BY <1>1, <1>2, <1>3 DEF FastPath
<1>5. SegValid(Keep)
  <2>1. 1 .. Keep \subseteq 1 .. n
    BY <1>2, <1>4
  <2>2. SegValid(n)
    BY <1>1
  <2> QED BY <2>1, <2>2 DEF SegValid
<1>6. Covering = First(Keep)
  BY Zenon, <1>1, <1>4, FirstFacts DEF Covering
<1>7. Len(Bytes(First(Keep))) >= ckpt.len /\ sideHere /\ Len(side) >= ckpt.len
  BY <1>6 DEF FastPath
<1>8. n > Keep \/ \A j \in Keep + 1 .. Len(segs) : ~SegValid(j)
  BY <1>1, <1>2, <1>4
<1>9. \E k \in 0 .. Keep : /\ Replayed = Inserts(First(k))
                            /\ Len(Bytes(First(k))) >= ckpt.len
  <2> DEFINE L(k) == Len(Bytes(SubSeq(Covering, 1, k)))
             P(k) == L(k) >= ckpt.len /\ \A j \in 0 .. k - 1 : L(j) < ckpt.len
             V == {k \in 0 .. Keep : L(k) >= ckpt.len}
             m == CHOOSE k \in 0 .. Keep : P(k)
  <2>1. \A k \in 0 .. Keep : SubSeq(Covering, 1, k) = First(k)
    <3>1. Keep \in 0 .. Len(segs)
      BY <1>2, <1>4
    <3>2. \A k \in 0 .. Keep : SubSeq(First(Keep), 1, k) = First(k)
      BY <3>1, FirstFacts
    <3> QED BY <1>6, <3>2
  <2>2. \A k \in 0 .. Keep : k \in 0 .. Len(segs)
    BY <1>2, <1>4
  <2>3. \A k \in 0 .. Keep : L(k) \in Nat
    BY <2>1, <2>2, FirstFacts
  <2>4. Keep \in V
    <3>1. Keep \in 0 .. Keep
      BY <1>2, <1>4
    <3>2. L(Keep) >= ckpt.len
      BY Zenon, <1>7, <2>1, <3>1
    <3> QED BY <3>1, <3>2
  <2> HIDE DEF L
  <2>5. PICK k \in V : \A j \in V : k <= j
    <3>1. V \in SUBSET Nat
      BY <1>2, <1>4
    <3> QED BY Zenon, <2>4, <3>1, NatMin
  <2>6. \A j \in 0 .. k - 1 : L(j) < ckpt.len
    <3>1. SUFFICES ASSUME NEW j \in 0 .. k - 1 PROVE L(j) < ckpt.len
      OBVIOUS
    <3>2. k \in 0 .. Keep /\ j \in 0 .. Keep /\ j < k
      BY <1>2, <1>4
    <3>3. j \notin V
      BY <2>5, <3>2
    <3> QED BY <1>2, <2>3, <3>2, <3>3
  <2>7. \E i \in 0 .. Keep : P(i)
    BY <2>6
  <2>8. m \in 0 .. Keep /\ P(m)
    BY <2>7
  <2>9. Replayed = Inserts(SubSeq(Covering, 1, m))
    BY DEF Replayed, L
  <2>10. Replayed = Inserts(First(m)) /\ L(m) = Len(Bytes(First(m))) /\ L(m) >= ckpt.len
    <3> HIDE DEF m
    <3> QED BY Zenon, <2>1, <2>8, <2>9 DEF L
  <2> QED BY Zenon, <2>8, <2>10
<1> QED BY <1>1, <1>2, <1>3, <1>4, <1>5, <1>6, <1>7, <1>8, <1>9

-----------------------------------------------------------------------------
(* The types *)

\* Which steps change which variable of a run.
LEMMA FrameRun ==
  ASSUME [Next]_vars
  PROVE  /\ Start \/ ReconcileFast \/ SlowContinue \/ Record \/ UNCHANGED session
         /\ Start \/ ReconcileFast \/ SlowContinue \/ EmitCheckpoint \/ Record
            \/ UNCHANGED pending
         /\ Start \/ ReconcileFast \/ SlowContinue \/ StoreNew \/ UNCHANGED cur
         /\ Start \/ ReconcileFast \/ SlowContinue \/ StoreKnown \/ EmitSync \/ Record
            \/ SaveManifest \/ Stopped \/ UNCHANGED sidecar
<1> USE DEF sidecar, loop
<1>1. CASE StoreKnown
  BY <1>1 DEF StoreKnown
<1>2. CASE StoreNew
  BY Zenon, <1>2 DEF StoreNew
<1>3. CASE EmitSync \/ EmitSegment
  BY <1>3 DEF EmitSync, EmitSegment
<1>4. CASE EmitCheckpoint
  BY Zenon, <1>4 DEF EmitCheckpoint
<1>5. CASE CloseStore \/ FlushIndex
  BY <1>5 DEF CloseStore, FlushIndex
<1>6. CASE SaveManifest \/ RemoveCheckpoint
  BY <1>6 DEF SaveManifest, RemoveCheckpoint
<1>7. CASE Stopped
  BY <1>7, StoppedFacts
<1>8. CASE SlowRefuse
  BY <1>8 DEF SlowRefuse, Refuse
<1>9. CASE UNCHANGED vars
  BY <1>9 DEF vars
<1>10. CASE Record
  BY <1>10 DEF Record
<1> QED BY Zenon, <1>1, <1>2, <1>3, <1>4, <1>5, <1>6, <1>7, <1>8, <1>9, <1>10, SlowCases
        DEF Stopped, Next, Step, Resume, Emit

\* The fields of the checkpoint.
LEMMA CkptFields ==
  ASSUME TCkpt
  PROVE  /\ ckpt.here \in BOOLEAN /\ ckpt.seq \in Nat /\ ckpt.len \in Nat /\ ckpt.len <= N
         /\ ckpt.resume \in Nat /\ ckpt.resume <= N /\ Keep = ckpt.seq + 1 /\ Keep \in Nat
BY SourceFacts DEF TCkpt, Keep

\* Half-written frames are of packs that exist.
LEMMA TornStep ==
  ASSUME TPacks, TTorn, [Next]_vars, Len(packs) <= Len(packs'), TPacks'
  PROVE  TTorn'
<1>1. Len(packs) \in Nat /\ Len(packs') \in Nat
  BY DEF TPacks
<1>2. 1 .. Len(packs) \subseteq 1 .. Len(packs')
  BY <1>1
<1>3. CASE UNCHANGED torn
  BY <1>2, <1>3 DEF TTorn
<1>4. CASE PowerLoss
  <2>1. PICK keep \in [1 .. Len(packs) -> 0 .. PackFrames] :
          torn' \in {torn} \cup
               {torn \cup {[pack |-> p, at |-> keep[p]]} :
                   p \in {q \in 1 .. Len(packs) :
                            world.tornPack /\ keep[q] < Len(packs[q])}}
    BY Zenon, <1>4 DEF PowerLoss
  <2>2. \/ torn' = torn
        \/ \E p \in 1 .. Len(packs) : torn' = torn \cup {[pack |-> p, at |-> keep[p]]}
    BY <2>1
  <2> QED BY <1>2, <2>2 DEF TTorn
<1> QED BY <1>3, <1>4, Frame

\* The sidecar and the manifest keep their types.
LEMMA SideStep ==
  ASSUME TypeOK, RunInv, CkptInv, [Next]_vars
  PROVE  TSide'
<1> USE SourceFacts DEF sidecar
<1>0. TSide /\ TCkpt /\ TLoop /\ TSegs
  BY TypeParts
<1>00. side \in Seq(Hash) /\ manifest \in Seq(Hash) /\ Len(side) \in Nat /\ <<>> \in Seq(Hash) /\ Len(<<>>) = 0
       /\ sideHere \in BOOLEAN /\ sideSynced \in Nat /\ sideSynced <= Len(side)
  BY <1>0 DEF TSide
<1>m. manifest' \in Seq(Hash)
  BY Zenon, <1>00, Frame DEF SaveManifest
<1>a. ASSUME NEW S, Continue(S), Len(side) >= ckpt.len PROVE TSide'
  <2>1. ckpt.len \in 0 .. Len(side)
    BY <1>0, <1>00, <1>a, CkptFields
  <2>2. side' \in Seq(Hash) /\ Len(side') = ckpt.len /\ sideSynced' = ckpt.len /\ sideHere' = sideHere
    BY <1>00, <1>a, <2>1, PrefixType DEF Continue
  <2> QED BY <1>00, <1>m, <2>1, <2>2 DEF TSide
<1>b. ASSUME NEW k \in sideSynced .. Len(side), side' = SubSeq(side, 1, k), sideHere' = sideHere,
             sideSynced' \in {sideSynced, k}
      PROVE  TSide'
  <2>1. k \in 0 .. Len(side)
    BY <1>00
  <2>2. side' \in Seq(Hash) /\ Len(side') = k
    BY <1>00, <1>b, <2>1, PrefixType
  <2>3. sideSynced' \in 0 .. k
    BY <1>00, <1>b
  <2> QED BY <1>00, <1>m, <1>b, <2>2, <2>3 DEF TSide
<1>c. ASSUME side' = <<>>, sideHere' \in BOOLEAN, sideSynced' = 0 PROVE TSide'
  <2>1. Len(side') = 0 /\ 0 \in 0 .. 0 /\ side' \in Seq(Hash)
    BY <1>00, <1>c
  <2> QED BY <1>m, <1>c, <2>1 DEF TSide
<1>d. ASSUME NEW h \in Hash, side' = Append(side, h), UNCHANGED <<sideHere, sideSynced>> PROVE TSide'
  <2>1. side' \in Seq(Hash) /\ Len(side') = Len(side) + 1
    BY <1>00, <1>d
  <2> QED BY <1>00, <1>m, <1>d, <2>1 DEF TSide
<1>1. CASE Start
  BY <1>1, <1>c DEF Start
<1>2. CASE ReconcileFast
  BY <1>0, <1>2, <1>a, FastSegments DEF ReconcileFast
<1>3. CASE SlowContinue
  BY <1>3, <1>a DEF SlowContinue
<1>4. CASE StoreKnown
  <2>1. Source[pos] \in Hash
    BY <1>0, <1>4 DEF StoreKnown, TLoop
  <2> QED BY <1>4, <1>d, <2>1 DEF StoreKnown
<1>5. CASE EmitSync
  BY <1>00, <1>m, <1>5 DEF EmitSync, TSide
<1>6. CASE Record
  <2>1. cur.h = Source[pos] /\ pos \in 1 .. N
    BY SMTT(30), <1>0, <1>6 DEF Record, RunInv, RunCur, Live, Emitting, TLoop
  <2>2. cur.h \in Hash
    BY <2>1
  <2> QED BY Zenon, <1>6, <1>d, <2>2 DEF Record
<1>7. CASE SaveManifest
  BY Zenon, <1>7, <1>c DEF SaveManifest
<1>8. CASE Kill
  <2>1. PICK k \in sideSynced .. Len(side) : side' = SubSeq(side, 1, k)
    BY <1>8 DEF Kill
  <2> QED BY <1>8, <1>b, <2>1 DEF Kill
<1>9. CASE PowerLoss
  <2>1. PICK k \in sideSynced .. Len(side) : side' = SubSeq(side, 1, k) /\ sideSynced' = k
    BY <1>9 DEF PowerLoss
  <2>2. sideHere' = sideHere
    BY <1>9 DEF PowerLoss
  <2> QED BY <1>b, <2>1, <2>2
<1>10. CASE UNCHANGED sidecar
  BY <1>00, <1>m, <1>10 DEF TSide
<1>11. CASE Interrupt \/ Fail
  BY Zenon, <1>10, <1>11, <1>c DEF Interrupt, Fail, DropSidecar
<1> QED BY <1>1, <1>2, <1>3, <1>4, <1>5, <1>6, <1>7, <1>8, <1>9, <1>10, <1>11, FrameRun DEF Stopped

\* The checkpoint keeps its type.
LEMMA CkptStep ==
  ASSUME TypeOK, RunInv, [Next]_vars
  PROVE  TCkpt'
<1> USE SourceFacts
<1>0. TSide /\ TCkpt /\ TLoop
  BY TypeParts
<1>1. CASE EmitCheckpoint
  <2>1. side = SubSeq(Source, 1, pos - 1) /\ pos \in 1 .. N
    <3>1. pc = "checkpoint"
      BY <1>1 DEF EmitCheckpoint
    <3>2. Live /\ Emitting
      BY <3>1 DEF Live, Emitting
    <3>3. RunSide /\ RunCur
      BY DEF RunInv
    <3>4. side = SubSeq(Source, 1, pos - 1)
      BY <3>2, <3>3 DEF RunSide
    <3>5. pos <= N
      BY <3>2, <3>3 DEF RunCur
    <3> QED BY <1>0, <3>4, <3>5 DEF TLoop
  <2>2. Len(side) \in 0 .. N /\ pos \in 0 .. N /\ ckptSeq \in Nat
    BY <1>0, <2>1 DEF TLoop
  <2>3. ckpt' = [here |-> TRUE, seq |-> ckptSeq, len |-> Len(side), resume |-> pos]
    BY Zenon, <1>1 DEF EmitCheckpoint
  <2> QED BY Zenon, <2>2, <2>3 DEF TCkpt
<1>2. CASE RemoveCheckpoint
  <2>1. ckpt' = [here |-> FALSE, seq |-> 0, len |-> 0, resume |-> 0] /\ 0 \in 0 .. N
    BY <1>2 DEF RemoveCheckpoint, NoCkpt
  <2> QED BY <2>1 DEF TCkpt
<1>3. CASE UNCHANGED ckpt
  BY <1>0, <1>3 DEF TCkpt
<1> QED BY <1>1, <1>2, <1>3, Frame

\* The segments keep their type.
LEMMA SegsStep ==
  ASSUME TypeOK, RunInv, [Next]_vars, Entry \subseteq Entry'
  PROVE  TSegs'
<1> USE SourceFacts
<1>0. TSide /\ TCkpt /\ TLoop /\ TSegs /\ TEntries
  BY TypeParts
<1>1. \A k \in 0 .. Len(segs) : First(k) \in Seq(Segment(Entry))
  BY <1>0, FirstFacts
<1>2. segs \in Seq(Segment(Entry)) /\ Len(segs) \in Nat
  BY <1>0 DEF TSegs
<1>3. Seq(Segment(Entry)) \subseteq Seq(Segment(Entry'))
  <2>1. Segment(Entry) \subseteq Segment(Entry')
    BY DEF Segment
  <2> HIDE DEF Segment
  <2> QED BY <2>1
<1>4. SUFFICES segs' \in Seq(Segment(Entry))
  <2>1. Segment(Entry)' = Segment(Entry')
    BY DEF Segment, Hash
  <2> QED BY <1>3, <2>1 DEF TSegs
<1>5. CASE Start \/ SlowContinue \/ SlowRefuse \/ RemoveCheckpoint
  <2>1. segs' = <<>>
    BY <1>5 DEF Start, SlowContinue, SlowRefuse, RemoveCheckpoint
  <2> QED BY <2>1
<1>6. CASE ReconcileFast
  <2>1. Keep \in 1 .. Len(segs)
    BY <1>0, <1>6, FastSegments DEF ReconcileFast
  <2>2. Keep \in 0 .. Len(segs)
    BY <1>2, <2>1
  <2>3. segs' = First(Keep) \/ segs' = segs
    BY Zenon, <1>6 DEF ReconcileFast, First
  <2> QED BY <1>1, <1>2, <2>2, <2>3
<1>7. CASE EmitSegment
  <2> DEFINE x == [ok |-> TRUE, seq |-> ckptSeq, bytes |-> SubSeq(side, prevLen + 1, Len(side)),
                   inserts |-> pending]
  <2>1. segs' = Append(segs, x)
    BY <1>7 DEF EmitSegment
  <2>2. SubSeq(side, prevLen + 1, Len(side)) \in Seq(Hash)
    BY <1>0 DEF TSide, TLoop
  <2>3. ckptSeq \in Nat /\ pending \subseteq Entry
    BY <1>0 DEF TLoop, TEntries
  <2>4. x \in Segment(Entry)
    BY <2>2, <2>3 DEF Segment
  <2> HIDE DEF x
  <2> QED BY <1>2, <2>1, <2>4
<1>8. CASE PowerLoss
  <2>1. segs' = segs \/ segs' = Append(segs, Torn)
    BY <1>8 DEF PowerLoss
  <2>2. Torn \in Segment(Entry)
    BY DEF Torn, Segment
  <2> QED BY <1>2, <2>1, <2>2
<1>9. CASE UNCHANGED segs
  BY <1>2, <1>9
<1> QED BY <1>5, <1>6, <1>7, <1>8, <1>9, Frame, SlowCases

\* A step stores frames; what entries there were stay entries.
LEMMA EntriesStep ==
  ASSUME TypeOK, RunInv, [Next]_vars, Entry \subseteq Entry', TPacks'
  PROVE  TEntries'
<1> USE SourceFacts
<1>0. TSide /\ TCkpt /\ TLoop /\ TSegs /\ TEntries /\ TPacks
  BY TypeParts
<1>1. index \subseteq Entry /\ session \subseteq Entry /\ pending \subseteq Entry
      /\ cur \in Entry \cup {NoCur}
  BY <1>0 DEF TEntries
<1>2. Frames \subseteq Entry /\ LastOfEach(Frames) \subseteq Entry
  BY DEF Frames, LastOfEach
<1>3. index' \subseteq Entry
  BY <1>1, <1>2, Frame, SlowCases DEF SlowContinue, SlowRefuse, FlushIndex, Merge
<1>r. Record => cur \in Entry
  BY Zenon DEF Record, RunInv, RunCur, Live, Emitting
<1>4. session' \subseteq Entry
  <2>1. CASE ReconcileFast
    <3>1. PICK k \in 0 .. Keep : Replayed = Inserts(First(k))
      BY <1>0, <2>1, FastSegments DEF ReconcileFast
    <3>2. k \in 0 .. Len(segs)
      <4>1. Keep \in 1 .. Len(segs) /\ Len(segs) \in Nat
        BY <1>0, <2>1, FastSegments DEF ReconcileFast, TSegs
      <4> QED BY <3>1, <4>1
    <3>3. Replayed \subseteq Entry
      BY <1>0, <3>1, <3>2, FirstFacts
    <3> QED BY <2>1, <3>3 DEF ReconcileFast, Continue
  <2>2. CASE Start \/ SlowContinue
    BY <2>2 DEF Start, SlowContinue, Continue
  <2>3. CASE Record
    BY <1>1, <1>r, <2>3 DEF Record, Merge
  <2>4. CASE UNCHANGED session
    BY <1>1, <2>4
  <2> QED BY <2>1, <2>2, <2>3, <2>4, FrameRun
<1>5. pending' \subseteq Entry
  <2>1. CASE Start \/ ReconcileFast \/ SlowContinue \/ EmitCheckpoint
    BY Zenon, <2>1 DEF Start, ReconcileFast, SlowContinue, EmitCheckpoint, Continue
  <2>2. CASE Record
    BY <1>1, <1>r, <2>2 DEF Record
  <2>3. CASE UNCHANGED pending
    BY <1>1, <2>3
  <2> QED BY <2>1, <2>2, <2>3, FrameRun
<1>6. cur' \in Entry' \cup {NoCur}
  <2>1. CASE Start \/ ReconcileFast \/ SlowContinue
    BY Zenon, <2>1 DEF Start, ReconcileFast, SlowContinue, Continue
  <2>2. CASE UNCHANGED cur
    BY <1>1, <2>2
  <2>3. CASE StoreNew
    <3>l. Live
      BY Zenon, <2>3 DEF StoreNew, Live
    <3>1. pos \in 1 .. N /\ pack \in {Len(packs), Len(packs) + 1} /\ pack \in Nat \ {0}
      <4>1. pos <= N
        BY Zenon, <2>3 DEF StoreNew
      <4>2. pack \in {Len(packs), Len(packs) + 1}
        BY <3>l DEF RunInv, RunCur
      <4> QED BY <1>0, <4>1, <4>2 DEF TLoop
    <3>c. cur' = [h |-> Source[pos], pack |-> pack', off |-> Len(packs'[pack'])]
      BY Zenon, <1>0, <2>3, <3>1, StoreNewPacks
    <3>2. /\ pack' = Len(packs') /\ pack' \in {pack, pack + 1}
          /\ pack' <= Len(packs) => packs'[pack'] = Append(packs[pack'], Source[pos])
          /\ pack' > Len(packs) => packs'[pack'] = <<Source[pos]>>
      BY Zenon, <1>0, <2>3, <3>1, StoreNewPacks
    <3>3. pack' \in 1 .. Len(packs') /\ Len(packs') \in Nat
      <4>1. Len(packs') \in Nat
        BY DEF TPacks
      <4>2. pack' # 0
        BY <3>1, <3>2
      <4> QED BY <3>2, <4>1, <4>2
    <3>4. Len(packs'[pack']) \in 1 .. PackFrames
      <4>1. Len(packs'[pack']) <= PackFrames
        BY <3>3 DEF TPacks
      <4>2. Len(packs'[pack']) \in Nat \ {0}
        <5>1. CASE pack' <= Len(packs)
          <6>1. packs[pack'] \in Seq(Hash)
            BY <1>0, <3>3, <5>1 DEF TPacks
          <6>2. packs'[pack'] = Append(packs[pack'], Source[pos]) /\ Source[pos] \in Hash
            BY <3>1, <3>2, <5>1
          <6>3. Len(Append(packs[pack'], Source[pos])) = Len(packs[pack']) + 1 /\ Len(packs[pack']) \in Nat
            BY <6>1, <6>2
          <6> QED BY <6>2, <6>3
        <5>2. CASE pack' > Len(packs)
          <6>1. packs'[pack'] = <<Source[pos]>>
            BY <3>2, <5>2
          <6> QED BY <6>1
        <5>3. Len(packs) \in Nat /\ pack' \in Nat
          BY <1>0, <3>3 DEF TPacks
        <5> QED BY <5>1, <5>2, <5>3
      <4> QED BY <4>1, <4>2
    <3>5. Source[pos] \in Hash
      BY <3>1
    <3>6. cur' \in [h : Hash, pack : 1 .. Len(packs'), off : 1 .. PackFrames]
      BY Zenon, <3>c, <3>3, <3>4, <3>5
    <3> QED BY <3>6 DEF Entry
  <2> QED BY <2>1, <2>2, <2>3, FrameRun
<1> QED BY <1>3, <1>4, <1>5, <1>6 DEF TEntries, NoCur

\* A power loss aside, and sealed frames always: the run's packs are as it
\* knows them.
LEMMA RunPackAt == TypeOK /\ RunInv => TPacks /\ PackAt
<1> SUFFICES ASSUME TypeOK, RunInv PROVE TPacks /\ PackAt
  OBVIOUS
<1>1. TPacks /\ TLoop /\ TEntries /\ Len(packs) \in Nat
  BY TypeParts DEF TPacks
<1>2. cur.pack = pack => pack \in 1 .. Len(packs)
  <2>1. cur \in Entry => cur.pack \in 1 .. Len(packs)
    BY DEF Entry
  <2>2. NoCur.pack = 0 /\ pack # 0
    BY <1>1 DEF NoCur, TLoop
  <2> QED BY <1>1, <2>1, <2>2 DEF TEntries
<1> QED BY <1>1, <1>2, SourceFacts DEF PackAt, TLoop, TEntries, RunInv, RunCur, Live

\* No step leaves the types, given what a run knows of its sidecar and packs.
LEMMA TypeStep ==
  ASSUME TypeOK, RunInv, CkptInv, [Next]_vars
  PROVE  TypeOK'
<1>1. TPacks' /\ Len(packs) <= Len(packs') /\ Entry \subseteq Entry'
  BY RunPackAt, PacksStep
<1>2. TPacks /\ TTorn
  BY TypeParts
<1>3. TTorn'
  BY <1>1, <1>2, TornStep
<1>4. TSide' /\ TCkpt'
  BY SideStep, CkptStep
<1>5. TEntries' /\ TSegs'
  BY <1>1, EntriesStep, SegsStep
<1>6. TLoop'
  BY <1>1, LoopStep
<1> QED BY Zenon, <1>1, <1>3, <1>4, <1>5, <1>6
   DEF TypeOK, TPacks, TTorn, TEntries, TSide, TSegs, TCkpt, TLoop, Segment

-----------------------------------------------------------------------------
(* A run in progress *)

\* The parts of TypeOK that the proofs below use most.
LEMMA LoopFields ==
  ASSUME TypeOK
  PROVE  /\ pos \in Nat \ {0} /\ pos <= N + 1 /\ pack \in Nat \ {0} /\ curPack \in Nat \ {0}
         /\ pack <= Len(packs) + 1 /\ ckptSeq \in Nat /\ prevLen \in Nat /\ prevLen <= N
         /\ wrote \in BOOLEAN /\ world \in Worlds /\ Len(packs) \in Nat
         /\ index \subseteq Entry /\ session \subseteq Entry /\ pending \subseteq Entry
         /\ cur \in Entry \cup {NoCur} /\ side \in Seq(Hash) /\ Len(side) \in Nat
         /\ sideSynced \in Nat /\ sideSynced <= Len(side)
         /\ segs \in Seq(Segment(Entry)) /\ Len(segs) \in Nat /\ sideHere \in BOOLEAN
         /\ TSegs /\ TCkpt /\ TPacks /\ TSide /\ TLoop
<1>1. TPacks /\ TTorn /\ TEntries /\ TSide /\ TSegs /\ TCkpt /\ TLoop
  BY TypeParts
<1> QED BY SMTT(30), <1>1, SourceFacts DEF TPacks, TEntries, TSide, TSegs, TLoop

\* The next chunk appended to a prefix of the source.
LEMMA PrefixGrows ==
  ASSUME NEW S, NEW s \in Seq(S), NEW n \in 1 .. Len(s)
  PROVE  Append(SubSeq(s, 1, n - 1), s[n]) = SubSeq(s, 1, n)
  OBVIOUS

\* Every step keeps the sidecar of a run the source up to the next chunk.
LEMMA RunSideStep ==
  ASSUME TypeOK, RunInv, CkptInv, [Next]_vars
  PROVE  RunSide'
<1> SUFFICES ASSUME Live' PROVE
      (/\ sideHere /\ manifest = <<>> /\ side = SubSeq(Source, 1, pos - 1)
       /\ pc \in {"flush", "save"} => pos = N + 1
       /\ prevLen <= pos - 1
       /\ IF ckpt.here THEN prevLen = ckpt.len /\ ckptSeq = ckpt.seq + 1
          ELSE prevLen = 0 /\ ckptSeq = 0
       /\ pc \in {"segment", "checkpoint"} => sideSynced = Len(side))'
  BY DEF RunSide
<1> USE DEF sidecar, loop, resumables
<1>f. pos \in Nat \ {0} /\ pos <= N + 1 /\ N \in Nat /\ Source \in Seq(Hash) /\ Len(Source) = N
      /\ prevLen \in Nat /\ Len(side) \in Nat
  BY SourceFacts, LoopFields
<1>g. ckpt.seq \in Nat /\ ckpt.len \in Nat /\ ckpt.resume \in Nat /\ TSegs /\ TCkpt
  BY LoopFields, CkptFields
<1>0. Live => /\ sideHere /\ manifest = <<>> /\ side = SubSeq(Source, 1, pos - 1)
              /\ pc \in {"flush", "save"} => pos = N + 1
              /\ prevLen <= pos - 1
              /\ IF ckpt.here THEN prevLen = ckpt.len /\ ckptSeq = ckpt.seq + 1
                 ELSE prevLen = 0 /\ ckptSeq = 0
              /\ pc \in {"segment", "checkpoint"} => sideSynced = Len(side)
  BY DEF RunInv, RunSide
<1>a. ASSUME NEW S, Continue(S), Idle, ckpt.here, sideHere
      PROVE  /\ sideHere' /\ manifest' = <<>> /\ side' = SubSeq(Source, 1, pos' - 1) /\ pc' = "loop"
             /\ prevLen' = pos' - 1 /\ ckpt'.here /\ prevLen' = ckpt'.len /\ ckptSeq' = ckpt'.seq + 1
             /\ prevLen' \in Nat
  BY <1>f, <1>g, <1>a DEF Continue, CkptInv, Idle
<1>1. CASE Start
  <2>1. SubSeq(Source, 1, 1 - 1) = <<>>
    OBVIOUS
  <2> QED BY <1>1, <2>1 DEF Start, Idle
<1>2. CASE ReconcileFast
  <2>1. Continue(Replayed) /\ Idle /\ ckpt.here /\ sideHere
    BY <1>2, <1>g, FastSegments DEF ReconcileFast
  <2> QED BY <1>a, <2>1
<1>3. CASE SlowContinue
  <2>1. Continue({}) /\ Idle /\ ckpt.here /\ sideHere
    BY <1>3 DEF SlowContinue
  <2> QED BY <1>a, <2>1
<1>4. CASE StoreKnown
  <2>1. Live /\ pos \in 1 .. N /\ pc = "loop"
    BY <1>f, <1>4 DEF StoreKnown, Live
  <2>2. side' = SubSeq(Source, 1, pos)
    BY <1>0, <1>f, <1>4, <2>1, PrefixGrows DEF StoreKnown
  <2>3. pos' - 1 = pos /\ pc' = "loop" /\ UNCHANGED <<sideHere, manifest, prevLen, ckpt, ckptSeq>>
    BY <1>f, <1>4 DEF StoreKnown
  <2>4. prevLen' <= pos' - 1
    BY <1>0, <1>f, <2>1, <2>3
  <2> QED BY <1>0, <2>1, <2>2, <2>3, <2>4
<1>5. CASE StoreNew
  <2>1. Live /\ pc' \in {"sync", "record"}
        /\ UNCHANGED <<sideHere, side, manifest, pos, prevLen, ckpt, ckptSeq>>
    BY Zenon, <1>5 DEF StoreNew, Live
  <2> QED BY <1>0, <2>1
<1>6. CASE EmitSync
  <2>1. Live /\ pc' = "segment" /\ sideSynced' = Len(side)
        /\ UNCHANGED <<sideHere, side, manifest, pos, prevLen, ckpt, ckptSeq>>
    BY <1>6 DEF EmitSync, Live
  <2> QED BY <1>0, <2>1
<1>7. CASE EmitSegment
  <2>1. Live /\ pc = "segment" /\ pc' = "checkpoint"
        /\ UNCHANGED <<sideHere, side, sideSynced, manifest, pos, prevLen, ckpt, ckptSeq>>
    BY <1>7 DEF EmitSegment, Live
  <2> QED BY <1>0, <2>1
<1>8. CASE EmitCheckpoint
  <2>1. Live /\ pc = "checkpoint" /\ pc' = "record" /\ UNCHANGED <<sideHere, side, manifest, pos>>
        /\ ckpt' = [here |-> TRUE, seq |-> ckptSeq, len |-> Len(side), resume |-> pos]
        /\ ckptSeq' = ckptSeq + 1 /\ prevLen' = Len(side)
    BY Zenon, <1>8 DEF EmitCheckpoint, Live
  <2>2. side = SubSeq(Source, 1, pos - 1) /\ sideHere /\ manifest = <<>>
    BY <1>0, <2>1
  <2>3. Len(side) = pos - 1
    <3>1. pos - 1 \in 0 .. Len(Source)
      BY <1>f
    <3> QED BY <1>f, <2>2, <3>1, PrefixType
  <2>4. prevLen' <= pos' - 1
    BY <1>f, <2>1, <2>3
  <2> QED BY Zenon, <2>1, <2>2, <2>4
<1>9. CASE Record
  <2>1. Live /\ pos \in 1 .. N /\ cur.h = Source[pos]
    <3>1. pc = "record"
      BY <1>9 DEF Record
    <3>2. Live
      BY <3>1 DEF Live
    <3>3. pos <= N /\ cur.h = Source[pos]
      BY <3>1, <3>2 DEF RunInv, RunCur
    <3> QED BY <1>f, <3>2, <3>3
  <2>2. side' = SubSeq(Source, 1, pos)
    BY Zenon, <1>0, <1>f, <1>9, <2>1, PrefixGrows DEF Record
  <2>3. pos' - 1 = pos /\ pc' = "loop" /\ UNCHANGED <<sideHere, manifest, prevLen, ckpt, ckptSeq>>
    BY <1>f, <1>9 DEF Record
  <2>4. prevLen' <= pos' - 1
    BY <1>0, <1>f, <2>1, <2>3
  <2> QED BY Zenon, <1>0, <2>1, <2>2, <2>3, <2>4
<1>10. CASE CloseStore
  <2>1. Live /\ pc' = "flush" /\ pos > N
        /\ UNCHANGED <<sideHere, side, manifest, pos, prevLen, ckpt, ckptSeq>>
    BY <1>10 DEF CloseStore, Live
  <2> QED BY <1>0, <1>f, <2>1
<1>11. CASE FlushIndex
  <2>1. Live /\ pc = "flush" /\ pc' = "save"
        /\ UNCHANGED <<sideHere, side, manifest, pos, prevLen, ckpt, ckptSeq>>
    BY <1>11 DEF FlushIndex, Live
  <2> QED BY <1>0, <2>1
<1>12. CASE UNCHANGED vars
  <2>1. UNCHANGED <<sideHere, side, sideSynced, manifest, pos, prevLen, ckpt, ckptSeq, pc>>
    BY <1>12 DEF vars
  <2> QED BY <1>0, <2>1 DEF Live
<1> QED BY Zenon, <1>1, <1>2, <1>3, <1>4, <1>5, <1>6, <1>7, <1>8, <1>9, <1>10, <1>11, <1>12,
           LiveSteps

\* Every step keeps the frame just stored where the run believes it.
LEMMA RunCurStep ==
  ASSUME TypeOK, RunInv, [Next]_vars, TypeOK'
  PROVE  RunCur'
<1> SUFFICES ASSUME Live' PROVE
      (/\ pack \in {Len(packs), Len(packs) + 1} /\ cur.pack \in {0, pack}
       /\ (Emitting \/ pc = "record") =>
            pos <= N /\ cur.h = Source[pos] /\ cur \in Entry /\ Holds(cur) /\ cur.pack = pack)'
  BY Zenon DEF RunCur
<1> USE DEF packfiles, loop
<1>f. pos \in Nat \ {0} /\ N \in Nat /\ pack \in Nat \ {0} /\ Len(packs) \in Nat /\ TPacks
      /\ \A i \in 1 .. N : Source[i] \in Hash
  BY SourceFacts, LoopFields
<1>0. Live => /\ pack \in {Len(packs), Len(packs) + 1} /\ cur.pack \in {0, pack}
              /\ (Emitting \/ pc = "record") =>
                    pos <= N /\ cur.h = Source[pos] /\ cur \in Entry /\ Holds(cur) /\ cur.pack = pack
  BY DEF RunInv, RunCur
<1>k. ASSUME UNCHANGED <<packs, pack, cur>>, Live,
             (Emitting \/ pc = "record")' => (Emitting \/ pc = "record") /\ pos' = pos
      PROVE  (/\ pack \in {Len(packs), Len(packs) + 1} /\ cur.pack \in {0, pack}
              /\ (Emitting \/ pc = "record") =>
                   pos <= N /\ cur.h = Source[pos] /\ cur \in Entry /\ Holds(cur) /\ cur.pack = pack)'
  <2>1. (cur \in Entry /\ Holds(cur)) => (cur \in Entry /\ Holds(cur))'
    BY <1>k DEF Entry, Holds
  <2> QED BY Zenon, <1>0, <1>k, <2>1
<1>1. CASE Start
  <2>1. packs' = packs /\ pc' = "loop" /\ cur'.pack = 0 /\ pack' = IF packs = <<>> THEN 1 ELSE Len(packs)
    BY <1>1 DEF Start, NoCur
  <2>2. packs = <<>> => Len(packs) = 0
    OBVIOUS
  <2> QED BY <1>f, <2>1, <2>2 DEF Emitting
<1>2. CASE ReconcileFast \/ SlowContinue
  <2>1. packs' = packs /\ pc' = "loop" /\ cur'.pack = 0 /\ pack' = Len(packs) + 1
    BY SMTT(30), <1>2 DEF ReconcileFast, SlowContinue, Continue, NoCur
  <2> QED BY <2>1 DEF Emitting
<1>4. CASE StoreKnown
  BY Zenon, <1>4, <1>k DEF StoreKnown, Live, Emitting
<1>5. CASE StoreNew
  <2>1. pos \in 1 .. N /\ pack \in {Len(packs), Len(packs) + 1} /\ TPacks
    <3>1. pc = "loop" /\ pos <= N
      BY Zenon, <1>5 DEF StoreNew
    <3>2. Live
      BY <3>1 DEF Live
    <3> QED BY <1>0, <1>f, <3>1, <3>2
  <2>2. cur' = [h |-> Source[pos], pack |-> pack', off |-> Len(packs'[pack'])]
    BY Zenon, <1>f, <1>5, <2>1, StoreNewPacks
  <2>3. /\ pack' = Len(packs')
        /\ pack' <= Len(packs) => packs'[pack'] = Append(packs[pack'], Source[pos])
        /\ pack' > Len(packs) => packs'[pack'] = <<Source[pos]>>
    BY Zenon, <1>f, <1>5, <2>1, StoreNewPacks
  <2>4. pos' = pos /\ pack' # 0 /\ pack' \in Nat
    <3>1. pos' = pos
      BY Zenon, <1>5 DEF StoreNew
    <3>2. pack' \in 1 .. Len(packs') + 1
      BY Zenon DEF TypeOK
    <3> QED BY <3>1, <3>2
  <2>5. cur'.pack = pack' /\ cur'.h = Source[pos] /\ cur'.off = Len(packs'[pack'])
    BY <2>2
  <2>6. cur' \in Entry'
    <3>1. cur' \in Entry' \/ cur' = NoCur
      BY Zenon DEF TypeOK, NoCur
    <3> QED BY <2>4, <2>5, <3>1 DEF NoCur
  <2>7. packs'[pack'][Len(packs'[pack'])] = Source[pos]
    <3>1. CASE pack' <= Len(packs)
      <4>1. packs[pack'] \in Seq(Hash) /\ Source[pos] \in Hash
        BY <1>f, <2>1, <2>4, <3>1 DEF TPacks
      <4>2. packs'[pack'] = Append(packs[pack'], Source[pos])
        BY <2>3, <3>1
      <4> QED BY <4>1, <4>2
    <3>2. CASE pack' > Len(packs)
      <4>1. packs'[pack'] = <<Source[pos]>>
        BY <2>3, <3>2
      <4> QED BY <4>1
    <3> QED BY <1>f, <2>4, <3>1, <3>2
  <2>8. Holds(cur)'
    <3>1. cur'.pack <= Len(packs') /\ cur'.off <= Len(packs'[cur'.pack])
      <4>1. Len(packs'[pack']) \in Nat
        BY <2>5, <2>6 DEF Entry
      <4> QED BY <2>3, <2>4, <2>5, <4>1
    <3> QED BY <2>5, <2>7, <3>1 DEF Holds
  <2> QED BY SMTT(30), <2>1, <2>3, <2>4, <2>5, <2>6, <2>8
<1>6. CASE EmitSync \/ EmitSegment \/ EmitCheckpoint
  BY Zenon, <1>6, <1>k DEF EmitSync, EmitSegment, EmitCheckpoint, Live, Emitting
<1>9. CASE Record \/ CloseStore \/ FlushIndex
  BY Zenon, <1>9, <1>k DEF Record, CloseStore, FlushIndex, Live, Emitting
<1>12. CASE UNCHANGED vars
  BY Zenon, <1>12, <1>k DEF vars, Live, Emitting
<1> QED BY Zenon, <1>1, <1>2, <1>4, <1>5, <1>6, <1>9, <1>12, LiveSteps

\* A merge has the hashes of both sides, and no entry that was in neither.
LEMMA MergeFacts ==
  ASSUME NEW S, NEW T
  PROVE  /\ Hashes(Merge(S, T)) = Hashes(S) \cup Hashes(T)
         /\ Merge(S, T) \subseteq S \cup T
BY DEF Hashes, Merge

\* The hashes of a union, and of a subset.
LEMMA HashesFacts ==
  ASSUME NEW S, NEW T
  PROVE  /\ Hashes(S \cup T) = Hashes(S) \cup Hashes(T)
         /\ S \subseteq T => Hashes(S) \subseteq Hashes(T)
BY DEF Hashes

\* More hashes on one side are more in the union.
LEMMA HashesGrow ==
  ASSUME NEW S, NEW T, Hashes(S) \subseteq Hashes(T), NEW U
  PROVE  Hashes(S \cup U) \subseteq Hashes(T \cup U)
<1>1. Hashes(S \cup U) = Hashes(S) \cup Hashes(U) /\ Hashes(T \cup U) = Hashes(T) \cup Hashes(U)
  BY HashesFacts
<1> QED BY Zenon, <1>1

\* Fewer chunks are covered by entries with more hashes.
LEMMA CoveredMore ==
  ASSUME NEW S, NEW T, Hashes(S) \subseteq Hashes(T), NEW n \in Nat, NEW m \in Nat, m <= n,
         Covered(n, S)
  PROVE  Covered(m, T)
<1>1. 1 .. m \subseteq 1 .. n
  OBVIOUS
<1> QED BY <1>1 DEF Covered

\* As many chunks are covered by entries with more hashes.
LEMMA CoveredBy ==
  ASSUME NEW n, NEW S, Covered(n, S), NEW T, Hashes(S) \subseteq Hashes(T)
  PROVE  Covered(n, T)
BY DEF Covered

\* One more chunk is covered once its hash is.
LEMMA CoveredNext ==
  ASSUME NEW S, NEW n \in Nat \ {0}, Covered(n - 1, S), Source[n] \in Hashes(S)
  PROVE  Covered(n, S)
<1>1. \A i \in 1 .. n : i \in 1 .. n - 1 \/ i = n
  OBVIOUS
<1> QED BY <1>1 DEF Covered

\* What the fast path replays covers the prefix of the checkpoint
\* (reconcile.go, ReplaySegments).
LEMMA FastCovers ==
  ASSUME TypeOK, SegsInv, ckpt.here, FastPath
  PROVE  /\ Covered(ckpt.len, index \cup Replayed)
         /\ Replayed \subseteq Inserts(First(Keep)) /\ Inserts(First(Keep)) \subseteq Inserts(segs)
         /\ Replayed \subseteq Entry
<1>1. TSegs /\ TCkpt /\ Len(segs) \in Nat /\ ckpt.len \in Nat
  BY LoopFields, CkptFields
<1>2. Keep \in 1 .. Len(segs) /\ SegValid(Keep)
  BY <1>1, FastSegments
<1>3. PICK k \in 0 .. Keep : Replayed = Inserts(First(k)) /\ Len(Bytes(First(k))) >= ckpt.len
  BY <1>1, FastSegments
<1>4. k \in 0 .. Len(segs) /\ Keep \in 0 .. Len(segs) /\ 1 .. k \subseteq 1 .. Keep
  BY <1>1, <1>2
<1>5. SegValid(k)
  BY <1>2, <1>4 DEF SegValid
<1>6. Covered(Len(Bytes(First(k))), index \cup Inserts(First(k)))
  BY <1>4, <1>5 DEF SegsInv, SegBase
<1>7. Len(Bytes(First(k))) \in Nat
  BY <1>1, <1>4, FirstFacts
<1>8. Covered(ckpt.len, index \cup Replayed)
  BY Zenon, <1>1, <1>3, <1>6, <1>7, CoveredMore
<1>9. First(k) = SubSeq(First(Keep), 1, k) /\ Len(First(Keep)) = Keep
      /\ First(Keep) \in Seq(Segment(Entry)) /\ Inserts(First(Keep)) \subseteq Inserts(segs)
      /\ Inserts(First(k)) \subseteq Entry
  BY <1>1, <1>4, FirstFacts
<1>10. Inserts(First(k)) \subseteq Inserts(First(Keep))
  BY <1>9, InsertsPrefix
<1> QED BY <1>3, <1>8, <1>9, <1>10

\* Every step keeps what was recorded covered, a resume included.
LEMMA RunCoverStep ==
  ASSUME TypeOK, RunInv, CkptInv, SegsInv, [Next]_vars
  PROVE  RunCover'
<1> SUFFICES ASSUME Live'
             PROVE  Covered(pos' - 1, index' \cup session') /\ (pc' = "save" => Covered(N, index'))
  BY DEF RunCover, Covered, N, Hashes
<1>f. pos \in Nat \ {0} /\ pos <= N + 1 /\ N \in Nat /\ TSegs /\ TCkpt /\ ckpt.len \in Nat
  BY SourceFacts, LoopFields, CkptFields
<1>0. Live => Covered(pos - 1, index \cup session) /\ (pc = "save" => Covered(N, index))
  BY DEF RunInv, RunCover
<1> USE DEF loop
<1>a. ckpt.here => ckpt.len = ckpt.resume - 1
  BY DEF CkptInv
<1>1. CASE Start
  <2>1. pos' - 1 = 0 /\ pc' = "loop"
    BY <1>1 DEF Start
  <2> QED BY <2>1 DEF Covered
<1>2. CASE ReconcileFast
  <2>1. Covered(ckpt.len, index \cup Replayed) /\ ckpt.len = ckpt.resume - 1
    BY <1>a, <1>2, FastCovers DEF ReconcileFast
  <2>2. index' = index /\ session' = Replayed /\ pos' = ckpt.resume /\ pc' = "loop"
    BY <1>2 DEF ReconcileFast, Continue
  <2> QED BY <2>1, <2>2
<1>3. CASE SlowContinue
  <2>1. index' = LastOfEach(Frames) /\ pos' - 1 = ckpt.len /\ pc' = "loop"
    BY <1>a, <1>3 DEF SlowContinue, Continue
  <2>2. ASSUME NEW i \in 1 .. ckpt.len PROVE Source[i] \in Hashes(LastOfEach(Frames))
    <3>1. side[i] \in Hashes(LastOfEach(Frames))
      BY <1>3 DEF SlowContinue, PrefixPresent
    <3>2. SubSeq(side, 1, ckpt.len) = SubSeq(Source, 1, ckpt.len) /\ Len(side) >= ckpt.len
      BY <1>3 DEF SlowContinue, CkptInv
    <3>3. ckpt.len \in 0 .. Len(side) /\ ckpt.len \in 0 .. Len(Source) /\ side \in Seq(Hash) /\ Source \in Seq(Hash)
      BY SMTT(30), <1>f, <3>2, SourceFacts, LoopFields, CkptFields
    <3>4. SubSeq(side, 1, ckpt.len)[i] = side[i] /\ SubSeq(Source, 1, ckpt.len)[i] = Source[i]
      BY <3>3, PrefixType
    <3> QED BY Zenon, <3>1, <3>2, <3>4
  <2>3. Covered(ckpt.len, LastOfEach(Frames))
    BY <2>2 DEF Covered
  <2>4. Hashes(index') \subseteq Hashes(index' \cup session')
    BY HashesFacts
  <2>5. Covered(ckpt.len, index' \cup session')
    BY <2>1, <2>3, <2>4, CoveredBy
  <2> QED BY <2>1, <2>5
<1>4. CASE StoreKnown
  <2>1. Covered(pos - 1, index \cup session) /\ Source[pos] \in Hashes(index \cup session)
    BY <1>0, <1>4 DEF StoreKnown, Live, Known
  <2>2. Covered(pos, index \cup session)
    BY <1>f, <2>1, CoveredNext
  <2>3. pos' - 1 = pos /\ index' = index /\ session' = session /\ pc' = "loop"
    BY <1>f, <1>4 DEF StoreKnown
  <2> QED BY <2>2, <2>3
<1>5. CASE StoreNew \/ EmitSync \/ EmitSegment \/ EmitCheckpoint \/ CloseStore
  <2>1. Live /\ pc' # "save" /\ UNCHANGED <<pos, index, session>>
    BY Zenon, <1>5 DEF StoreNew, EmitSync, EmitSegment, EmitCheckpoint, CloseStore, Live
  <2> QED BY <1>0, <2>1
<1>6. CASE Record
  <2>1. Covered(pos - 1, index \cup session) /\ cur.h = Source[pos]
    BY Zenon, <1>0, <1>6 DEF Record, Live, RunInv, RunCur
  <2>2. index' = index /\ session' = Merge(session, {cur}) /\ pos' - 1 = pos /\ pc' = "loop"
    BY <1>f, <1>6 DEF Record
  <2>3. Hashes(session') = Hashes(session) \cup Hashes({cur}) /\ cur.h \in Hashes({cur})
    <3>1. cur.h \in Hashes({cur})
      BY DEF Hashes
    <3> QED BY <2>2, <3>1, MergeFacts
  <2>4. Hashes(index' \cup session') = Hashes(index') \cup Hashes(session')
        /\ Hashes(index \cup session) = Hashes(index) \cup Hashes(session)
    BY HashesFacts
  <2>5. Hashes(index \cup session) \subseteq Hashes(index' \cup session')
        /\ Source[pos] \in Hashes(index' \cup session')
    BY Zenon, <2>1, <2>2, <2>3, <2>4
  <2>6. Covered(pos - 1, index' \cup session')
    BY Zenon, <2>1, <2>5, CoveredBy
  <2> QED BY <1>f, <2>2, <2>5, <2>6, CoveredNext
<1>7. CASE FlushIndex
  <2>1. Covered(pos - 1, index \cup session) /\ pos - 1 = N
    BY <1>0, <1>f, <1>7 DEF FlushIndex, Live, RunInv, RunSide
  <2>2. index' = Merge(index, session) /\ UNCHANGED <<session, pos>>
    BY <1>7 DEF FlushIndex
  <2>3. Hashes(index \cup session) \subseteq Hashes(index')
        /\ Hashes(index') \subseteq Hashes(index' \cup session')
    BY <2>2, MergeFacts, HashesFacts
  <2>4. Covered(N, index')
    <3>1. Covered(N, index \cup session)
      BY <2>1
    <3> QED BY <2>3, <3>1, CoveredBy
  <2>5. Covered(N, index' \cup session')
    BY <2>3, <2>4, CoveredBy
  <2> QED BY <2>1, <2>2, <2>4, <2>5
<1>8. CASE UNCHANGED vars
  BY <1>0, <1>8 DEF vars, Live
<1> QED BY <1>1, <1>2, <1>3, <1>4, <1>5, <1>6, <1>7, <1>8, LiveSteps

\* Every step keeps the pending inserts those of the unsealed pack.
LEMMA RunPendingStep ==
  ASSUME TypeOK, RunInv, [Next]_vars
  PROVE  RunPending'
<1> SUFFICES ASSUME Live'
             PROVE  /\ pc' = "loop" => pack' <= curPack' \/ pending' = {}
                    /\ Emitting' => \A e \in pending' : e.pack < pack'
                    /\ pc' = "record" => pack' <= curPack'
  BY DEF RunPending
<1>0. Live => /\ pc = "loop" => pack <= curPack \/ pending = {}
              /\ Emitting => \A e \in pending : e.pack < pack
              /\ pc = "record" => pack <= curPack
  BY DEF RunInv, RunPending
<1>f. pack \in Nat \ {0} /\ curPack \in Nat \ {0} /\ pending \subseteq Entry /\ Len(packs) \in Nat
      /\ pos \in Nat \ {0}
  BY LoopFields
<1> USE DEF loop
<1>1. CASE Start \/ ReconcileFast \/ SlowContinue
  <2>1. pc' = "loop" /\ pending' = {}
    BY Zenon, <1>1 DEF Start, ReconcileFast, SlowContinue, Continue
  <2> QED BY <2>1
<1>2. CASE StoreKnown
  BY <1>0, <1>2 DEF StoreKnown, Live, Emitting
<1>3. CASE StoreNew
  <2>1. pc = "loop" /\ Live /\ curPack' = curPack /\ pending' = pending
        /\ pc' = (IF pack' > curPack' THEN "sync" ELSE "record")
    BY Zenon, <1>3 DEF StoreNew, Live
  <2>2. pack' \in Nat
    BY SMTT(30), <1>f, <1>3 DEF StoreNew
  <2>3. ASSUME NEW e \in pending, pack' > curPack PROVE e.pack < pack'
    <3>1. pack <= curPack
      BY <1>0, <2>1
    <3>2. e.pack <= pack /\ e.pack \in Nat
      BY <1>f, <2>1 DEF RunInv, RunFrames, Entry
    <3> QED BY <1>f, <2>2, <2>3, <3>1, <3>2
  <2> QED BY <1>f, <2>1, <2>2, <2>3 DEF Emitting
<1>4. CASE EmitSync \/ EmitSegment
  BY Zenon, <1>0, <1>4 DEF EmitSync, EmitSegment, Live, Emitting
<1>5. CASE EmitCheckpoint
  <2>1. pc' = "record" /\ pack' = pack /\ curPack' = pack /\ pending' = {}
    BY <1>5 DEF EmitCheckpoint
  <2> QED BY <1>f, <2>1 DEF Emitting
<1>6. CASE Record
  BY <1>0, <1>6 DEF Record, Live, Emitting
<1>7. CASE CloseStore \/ FlushIndex
  BY <1>7 DEF CloseStore, FlushIndex, Emitting
<1>8. CASE UNCHANGED vars
  BY <1>0, <1>8 DEF vars, Live, Emitting
<1> QED BY Zenon, <1>1, <1>2, <1>3, <1>4, <1>5, <1>6, <1>7, <1>8, LiveSteps
=============================================================================
