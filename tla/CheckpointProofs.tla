-------------------------- MODULE CheckpointProofs --------------------------
(***************************************************************************)
(* IInv is an invariant of Checkpoint for every source, pack size and set  *)
(* of worlds, and the properties of Checkpoint that follow from it.        *)
(***************************************************************************)
EXTENDS CheckpointSteps

-----------------------------------------------------------------------------
(* A run in progress, the checkpoint and the manifest *)

\* Every step keeps the frames a run believes in.
LEMMA RunFramesStep ==
  ASSUME TypeOK, RunInv, SegsInv, IndexInv, [Next]_vars
  PROVE  RunFrames'
<1> SUFFICES ASSUME Live'
             PROVE  /\ \A e \in index' : Holds(e)'
                    /\ \A e \in session' \cup pending' :
                         /\ Holds(e)' /\ e.pack <= pack'
                         /\ e.pack < pack' => Sealed(e)'
                         /\ e.pack = pack' => cur'.pack = pack'
                    /\ pc' \in {"flush", "save"} => \A e \in session' : Sealed(e)'
  BY DEF RunFrames
<1>f. /\ index \subseteq Entry /\ session \subseteq Entry /\ pending \subseteq Entry
      /\ Len(packs) \in Nat /\ pack \in Nat \ {0} /\ pos \in Nat \ {0}
      /\ TPacks /\ TSegs /\ TCkpt
  BY LoopFields
<1>g. \A e \in Entry : e.pack \in Nat /\ e.pack <= Len(packs) /\ e.off \in Nat /\ e.off <= PackFrames
  BY <1>f, SourceFacts DEF Entry
<1>0. Live => /\ \A e \in index : Holds(e)
              /\ \A e \in session \cup pending :
                   /\ Holds(e) /\ e.pack <= pack
                   /\ e.pack < pack => Sealed(e)
                   /\ e.pack = pack => cur.pack = pack
              /\ pc \in {"flush", "save"} => \A e \in session : Sealed(e)
  BY DEF RunInv, RunFrames
<1>s. \A e \in Entry : Sealed(e) => Sealed(e)'
  BY RunPackAt, PacksStep
<1>h. \A e \in Entry : Holds(e) => Holds(e)'
  <2>1. ~PowerLoss
    BY StoppedFacts DEF Stopped, Live
  <2> QED BY <2>1, RunPackAt, PacksStep
<1>sh. \A e : Sealed(e) => Holds(e)
  BY DEF Sealed
<1> USE DEF loop
<1>k. ASSUME UNCHANGED <<index, session, pack, cur>>, pending' \subseteq pending, Live,
             pc' \in {"flush", "save"} => pc \in {"flush", "save"}
      PROVE  /\ \A e \in index' : Holds(e)'
             /\ \A e \in session' \cup pending' :
                  /\ Holds(e)' /\ e.pack <= pack'
                  /\ e.pack < pack' => Sealed(e)'
                  /\ e.pack = pack' => cur'.pack = pack'
             /\ pc' \in {"flush", "save"} => \A e \in session' : Sealed(e)'
  BY <1>f, <1>0, <1>s, <1>h, <1>k
<1>1. CASE Start
  <2>1. \A e \in index : Sealed(e)
    BY <1>1 DEF Start, Idle, IndexInv, FastRegime
  <2>2. index' = index /\ session' = {} /\ pending' = {} /\ pc' = "loop"
    BY <1>1 DEF Start
  <2> QED BY <1>f, <1>h, <1>sh, <2>1, <2>2
<1>2. CASE ReconcileFast
  <2>1. ckpt.here /\ FastPath /\ manifest = <<>>
    BY <1>2 DEF ReconcileFast, Idle
  <2>2. Replayed \subseteq Entry /\ Replayed \subseteq Inserts(segs)
    BY <2>1, FastCovers
  <2>3. Keep \in 1 .. Len(segs) /\ SegValid(Keep)
    BY <1>f, <2>1, FastSegments
  <2>4. FastRegime
    <3>1. segs # <<>>
      BY <1>f, <2>3 DEF TSegs
    <3>2. 1 .. 1 \subseteq 1 .. Keep
      BY <1>f, <2>3, CkptFields
    <3>3. SegValid(1)
      BY <2>3, <3>2 DEF SegValid
    <3> QED BY <3>1, <3>3 DEF FastRegime
  <2>5. \A e \in index : Sealed(e)
    BY <2>1, <2>4 DEF IndexInv
  <2>6. \A e \in Replayed : Sealed(e)
    BY <2>2 DEF SegsInv, SegsSealed
  <2>7. index' = index /\ session' = Replayed /\ pending' = {} /\ pc' = "loop" /\ pack' = Len(packs) + 1
    BY <1>2 DEF ReconcileFast, Continue
  <2>8. \A e \in Replayed : Sealed(e)' /\ Holds(e)' /\ e.pack < pack'
    BY <1>f, <1>g, <1>s, <1>h, <1>sh, <2>2, <2>6, <2>7
  <2>9. \A e \in Replayed : e.pack <= pack' /\ e.pack # pack'
    BY <1>f, <1>g, <2>2, <2>7
  <2> QED BY <1>f, <1>h, <1>sh, <2>5, <2>7, <2>8, <2>9
<1>3. CASE SlowContinue
  <2>1. index' = LastOfEach(Frames) /\ session' = {} /\ pending' = {} /\ pc' = "loop"
    BY <1>3 DEF SlowContinue, Continue
  <2>2. \A e \in index' : e \in Entry /\ Holds(e)
    BY <2>1 DEF LastOfEach, Frames
  <2> QED BY <1>h, <2>1, <2>2
<1>4. CASE StoreKnown
  BY <1>4, <1>k DEF StoreKnown, Live
<1>5. CASE StoreNew
  <2>1. /\ UNCHANGED <<index, session, pending>> /\ Live /\ pc = "loop" /\ pos \in 1 .. N
        /\ pc' \in {"sync", "record"}
    BY <1>f, <1>5, SourceFacts DEF StoreNew, Live
  <2>2. pack \in {Len(packs), Len(packs) + 1}
    BY <2>1 DEF RunInv, RunCur
  <2>3. cur' = [h |-> Source[pos], pack |-> pack', off |-> Len(packs'[pack'])]
    BY <1>f, <1>5, <2>1, <2>2, StoreNewPacks
  <2>4. /\ pack' \in {pack, pack + 1}
        /\ \A q \in 1 .. Len(packs) :
             synced'[q] = IF q = pack /\ pack' # pack THEN PackFrames ELSE synced[q]
    BY Zenon, <1>f, <1>5, <2>1, <2>2, StoreNewPacks
  <2>5. cur'.pack = pack'
    BY <2>3
  <2>6. ASSUME NEW e \in session \cup pending
        PROVE  /\ Holds(e)' /\ e.pack <= pack' /\ (e.pack < pack' => Sealed(e)')
    <3>1. e \in Entry /\ Holds(e) /\ e.pack <= pack /\ (e.pack < pack => Sealed(e))
      BY <1>f, <1>0, <2>1
    <3>2. Holds(e)' /\ (e.pack < pack => Sealed(e)')
      BY <1>s, <1>h, <3>1
    <3>3. e.pack <= pack'
      BY <1>f, <1>g, <2>4, <3>1
    <3>4. ASSUME e.pack = pack, pack' # pack PROVE Sealed(e)'
      <4>1. e.pack \in 1 .. Len(packs) /\ e.off \in Nat /\ e.off <= PackFrames
        BY <3>1, <1>g DEF Entry
      <4>2. synced'[e.pack] = PackFrames
        BY <2>4, <3>4, <4>1
      <4> QED BY <3>2, <4>1, <4>2 DEF Sealed
    <3>5. e.pack < pack' => e.pack < pack \/ (e.pack = pack /\ pack' # pack)
      BY <1>f, <1>g, <2>4, <3>1
    <3> QED BY <3>2, <3>3, <3>4, <3>5
  <2>7. \A e \in index' : Holds(e)'
    BY <1>f, <1>0, <1>h, <2>1
  <2> QED BY <2>1, <2>5, <2>6, <2>7
<1>6. CASE EmitSync \/ EmitSegment
  BY <1>6, <1>k DEF EmitSync, EmitSegment, Live
<1>7. CASE EmitCheckpoint
  BY <1>7, <1>k DEF EmitCheckpoint, Live
<1>8. CASE Record
  <2>1. Live /\ cur \in Entry /\ Holds(cur) /\ cur.pack = pack /\ pc' = "loop"
        /\ UNCHANGED <<index, pack, cur>> /\ session' = Merge(session, {cur})
        /\ pending' = pending \cup {cur}
    BY <1>8 DEF Record, Live, RunInv, RunCur
  <2>2. session' \subseteq session \cup {cur}
    BY <2>1, MergeFacts
  <2>3. Holds(cur)' /\ cur.pack <= pack' /\ ~(cur.pack < pack') /\ cur'.pack = pack'
    BY <1>f, <1>h, <2>1
  <2>4. \A e \in session \cup pending :
                   /\ Holds(e)' /\ e.pack <= pack'
                   /\ e.pack < pack' => Sealed(e)'
    BY <1>f, <1>0, <1>s, <1>h, <2>1
  <2>5. \A e \in index' : Holds(e)'
    BY <1>f, <1>0, <1>h, <2>1
  <2> QED BY Zenon, <2>1, <2>2, <2>3, <2>4, <2>5
<1>9. CASE CloseStore
  <2>1. Live /\ pc = "loop" /\ UNCHANGED <<packs, index, session, pending, pack, cur>>
        /\ synced' = SyncedAtClose
    BY <1>9 DEF CloseStore, Live
  <2>2. cur.pack = pack => pack \in 1 .. Len(packs)
    BY RunPackAt DEF PackAt
  <2>3. \A p \in 1 .. Len(packs) :
          synced'[p] = IF p = pack /\ cur.pack = pack THEN Len(packs[p]) ELSE synced[p]
    BY <1>f, <2>1, <2>2, SyncedAtCloseFacts
  <2>4. ASSUME NEW e \in session PROVE Sealed(e)'
    <3>1. e \in Entry /\ Holds(e) /\ e.pack <= pack /\ (e.pack < pack => Sealed(e))
          /\ (e.pack = pack => cur.pack = pack)
      BY <1>f, <1>0, <2>1
    <3>2. CASE e.pack < pack
      BY <1>s, <3>1, <3>2
    <3>3. CASE e.pack = pack
      <4>1. Holds(e)' /\ e.off <= Len(packs[e.pack]) /\ e.pack \in 1 .. Len(packs)
        BY <1>h, <3>1 DEF Holds, Entry
      <4>2. synced'[e.pack] = Len(packs[e.pack])
        BY <2>3, <3>1, <3>3, <4>1
      <4> QED BY <4>1, <4>2 DEF Sealed
    <3> QED BY <1>f, <1>g, <3>1, <3>2, <3>3
  <2>5. \A e \in session \cup pending :
                   /\ Holds(e)' /\ e.pack <= pack'
                   /\ e.pack < pack' => Sealed(e)'
                   /\ e.pack = pack' => cur'.pack = pack'
    BY <1>f, <1>0, <1>s, <1>h, <2>1
  <2>6. \A e \in index' : Holds(e)'
    BY <1>f, <1>0, <1>h, <2>1
  <2> QED BY <2>1, <2>4, <2>5, <2>6
<1>10. CASE FlushIndex
  <2>1. Live /\ pc = "flush" /\ index' = Merge(index, session) /\ UNCHANGED <<session, pending, pack, cur>>
    BY <1>10 DEF FlushIndex, Live
  <2>2. index' \subseteq index \cup session
    BY <2>1, MergeFacts
  <2>3. \A e \in index' : Holds(e)'
    BY <1>f, <1>0, <1>h, <2>1, <2>2
  <2>4. \A e \in session \cup pending :
                   /\ Holds(e)' /\ e.pack <= pack'
                   /\ e.pack < pack' => Sealed(e)'
                   /\ e.pack = pack' => cur'.pack = pack'
    BY <1>f, <1>0, <1>s, <1>h, <2>1
  <2>5. \A e \in session : Sealed(e)'
    BY <1>f, <1>0, <1>s, <2>1
  <2> QED BY <2>1, <2>3, <2>4, <2>5
<1>11. CASE UNCHANGED vars
  BY <1>11, <1>k DEF vars, Live
<1> QED BY <1>1, <1>2, <1>3, <1>4, <1>5, <1>6, <1>7, <1>8, <1>9, <1>10, <1>11, LiveSteps

\* Every step keeps the promise of the checkpoint.
LEMMA CkptInvStep ==
  ASSUME TypeOK, RunInv, CkptInv, [Next]_vars
  PROVE  CkptInv'
<1> SUFFICES ASSUME ckpt'.here
             PROVE  /\ ckpt'.resume \in 1 .. N /\ ckpt'.len = ckpt'.resume - 1
                    /\ sideHere' => /\ sideSynced' >= ckpt'.len
                                    /\ SubSeq(side', 1, ckpt'.len) = SubSeq(Source, 1, ckpt'.len)
  BY DEF CkptInv
<1>f. /\ side \in Seq(Hash) /\ Len(side) \in Nat /\ sideSynced \in Nat /\ sideSynced <= Len(side)
      /\ sideHere \in BOOLEAN /\ pos \in Nat \ {0} /\ TCkpt /\ TSegs /\ N \in Nat /\ Source \in Seq(Hash)
      /\ Len(Source) = N
  BY LoopFields, SourceFacts
<1>g. ckpt.len \in Nat /\ ckpt.resume \in Nat
  BY <1>f, CkptFields
<1>1. CASE EmitCheckpoint
  <2>1. /\ ckpt' = [here |-> TRUE, seq |-> ckptSeq, len |-> Len(side), resume |-> pos]
        /\ UNCHANGED sidecar /\ pc = "checkpoint"
    BY <1>1 DEF EmitCheckpoint
  <2>2. side = SubSeq(Source, 1, pos - 1) /\ pos <= N /\ sideSynced = Len(side)
    BY <2>1 DEF RunInv, RunSide, RunCur, Live, Emitting
  <2>3. pos - 1 \in 0 .. Len(Source)
    BY <1>f, <2>2
  <2>4. Len(side) = pos - 1
    BY <1>f, <2>2, <2>3, PrefixType
  <2>5. SubSeq(side, 1, Len(side)) = side
    BY <1>f
  <2> QED BY <1>f, <2>1, <2>2, <2>4, <2>5 DEF sidecar
<1>2. CASE RemoveCheckpoint
  BY <1>2 DEF RemoveCheckpoint, NoCkpt
<1>3. CASE UNCHANGED ckpt
  <2>1. /\ ckpt.resume \in 1 .. N /\ ckpt.len = ckpt.resume - 1
        /\ sideHere => /\ sideSynced >= ckpt.len
                       /\ SubSeq(side, 1, ckpt.len) = SubSeq(Source, 1, ckpt.len)
    BY <1>3 DEF CkptInv
  <2> SUFFICES ASSUME sideHere' PROVE sideSynced' >= ckpt.len
                                     /\ SubSeq(side', 1, ckpt.len) = SubSeq(Source, 1, ckpt.len)
    BY <1>3, <2>1
  <2> USE DEF sidecar
  <2>a. ASSUME NEW k \in ckpt.len .. Len(side), side' = SubSeq(side, 1, k), sideSynced' >= ckpt.len,
               sideHere
        PROVE  sideSynced' >= ckpt.len /\ SubSeq(side', 1, ckpt.len) = SubSeq(Source, 1, ckpt.len)
    <3>1. k \in 0 .. Len(side) /\ ckpt.len \in 0 .. k
      BY <1>f, <1>g
    <3>2. SubSeq(side', 1, ckpt.len) = SubSeq(side, 1, ckpt.len)
      BY <1>f, <2>a, <3>1, PrefixOfPrefix
    <3> QED BY <2>1, <2>a, <3>2
  <2>b. ASSUME NEW h \in Hash, side' = Append(side, h), UNCHANGED <<sideSynced, sideHere>>
        PROVE  sideSynced' >= ckpt.len /\ SubSeq(side', 1, ckpt.len) = SubSeq(Source, 1, ckpt.len)
    <3>1. sideSynced >= ckpt.len /\ SubSeq(side, 1, ckpt.len) = SubSeq(Source, 1, ckpt.len)
      BY <2>1, <2>b
    <3>2. ckpt.len \in 0 .. Len(side)
      BY <1>f, <1>g, <3>1
    <3>3. SubSeq(side', 1, ckpt.len) = SubSeq(side, 1, ckpt.len)
      BY <1>f, <2>b, <3>2, PrefixOfAppend
    <3> QED BY Zenon, <2>b, <3>1, <3>3
  <2>2. CASE Start
    BY <1>3, <2>2 DEF Start
  <2>3. CASE ReconcileFast \/ SlowContinue
    <3>1. side' = SubSeq(side, 1, ckpt.len) /\ sideSynced' = ckpt.len /\ sideHere' = sideHere
      BY Zenon, <2>3 DEF ReconcileFast, SlowContinue, Continue
    <3>2. Len(side) >= ckpt.len
      BY <1>f, <2>3, FastSegments DEF ReconcileFast, SlowContinue
    <3>3. ckpt.len \in ckpt.len .. Len(side) /\ sideSynced' >= ckpt.len
      BY <1>f, <1>g, <3>1, <3>2
    <3> QED BY <2>a, <3>1, <3>3
  <2>4. CASE StoreKnown
    <3>1. Source[pos] \in Hash
      BY <1>f, <2>4, SourceFacts DEF StoreKnown
    <3> QED BY Zenon, <2>4, <2>b, <3>1 DEF StoreKnown
  <2>5. CASE EmitSync
    <3>1. UNCHANGED <<side, sideHere>> /\ sideSynced' = Len(side)
      BY Zenon, <2>5 DEF EmitSync
    <3> QED BY <1>f, <1>g, <2>1, <3>1
  <2>6. CASE Record
    <3>1. cur.h = Source[pos] /\ pos \in 1 .. N
      BY <1>f, <2>6 DEF Record, RunInv, RunCur, Live
    <3>2. cur.h \in Hash
      BY <3>1, SourceFacts
    <3> QED BY Zenon, <2>6, <2>b, <3>2 DEF Record
  <2>7. CASE SaveManifest
    BY <2>7 DEF SaveManifest
  <2>8. CASE Kill
    <3>1. PICK k \in sideSynced .. Len(side) : side' = SubSeq(side, 1, k)
      BY <2>8 DEF Kill
    <3>2. UNCHANGED <<sideHere, sideSynced>>
      BY Zenon, <2>8 DEF Kill
    <3>3. k \in ckpt.len .. Len(side) /\ sideSynced' >= ckpt.len /\ sideHere
      BY <1>f, <1>g, <2>1, <3>2
    <3> QED BY Zenon, <2>a, <3>1, <3>3
  <2>9. CASE PowerLoss
    <3>1. PICK k \in sideSynced .. Len(side) : side' = SubSeq(side, 1, k) /\ sideSynced' = k
      BY <2>9 DEF PowerLoss
    <3>2. UNCHANGED sideHere
      BY Zenon, <2>9 DEF PowerLoss
    <3>3. k \in ckpt.len .. Len(side) /\ sideSynced' >= ckpt.len /\ sideHere
      BY <1>f, <1>g, <2>1, <3>1, <3>2
    <3> QED BY Zenon, <2>a, <3>1, <3>3
  <2>10. CASE UNCHANGED sidecar
    BY <2>1, <2>10
  <2>11. CASE Interrupt \/ Fail
    BY Zenon, <2>10, <2>11 DEF Interrupt, Fail, DropSidecar
  <2> QED BY Zenon, <2>2, <2>3, <2>4, <2>5, <2>6, <2>7, <2>8, <2>9, <2>10, <2>11, FrameRun DEF
             Stopped
<1> QED BY <1>1, <1>2, <1>3, Frame

-----------------------------------------------------------------------------
(* The index *)

\* Only a whole sidecar over a covering index is saved.
LEMMA SavedInvStep ==
  ASSUME TypeOK, RunInv, SavedInv, [Next]_vars
  PROVE  SavedInv'
<1>f. N \in Nat /\ N > 0 /\ Source \in Seq(Hash) /\ Len(Source) = N /\ pos \in Nat /\ index \subseteq Entry
  BY SourceFacts, LoopFields
<1>1. CASE SaveManifest
  <2>1. pc = "save" /\ Live /\ manifest' = side /\ pc' = "saved" /\ UNCHANGED <<packs, index>>
    BY <1>1 DEF SaveManifest, Live, packfiles
  <2>2. side = SubSeq(Source, 1, pos - 1) /\ pos = N + 1 /\ Covered(N, index)
    BY <2>1 DEF RunInv, RunSide, RunCover
  <2>3. pos - 1 = N
    BY <1>f, <2>2
  <2>4. manifest' = Source
    BY <1>f, <2>1, <2>2, <2>3
  <2>5. \A e \in index : Holds(e)
    BY <2>1 DEF RunInv, RunFrames
  <2>6. Covered(N, index)'
    BY <2>1, <2>2 DEF Covered, Hashes, N
  <2>7. \A e \in index' : Holds(e)'
    BY <2>1, <2>5 DEF Holds
  <2> QED BY <2>1, <2>4, <2>6, <2>7 DEF SavedInv, Live
<1>2. CASE UNCHANGED manifest /\ manifest = <<>>
  <2>1. pc # "saved" /\ pc # "done"
    <3>1. Source # <<>>
      BY <1>f
    <3> QED BY <1>2, <3>1 DEF SavedInv
  <2>2. pc' # "saved" /\ pc' # "done"
    <3>1. CASE Live'
      BY <3>1 DEF Live
    <3>2. CASE Stopped
      BY <3>2, StoppedFacts
    <3>3. CASE RemoveCheckpoint \/ SlowRefuse \/ UNCHANGED vars
      BY <2>1, <3>3 DEF RemoveCheckpoint, SlowRefuse, Refuse, vars, Idle
    <3>4. CASE SaveManifest
      <4>1. side = SubSeq(Source, 1, pos - 1) /\ pos = N + 1
        BY <3>4 DEF SaveManifest, RunInv, RunSide, Live
      <4>2. pos - 1 = N
        BY <1>f, <4>1
      <4>3. side = Source
        BY <1>f, <4>1, <4>2
      <4> QED BY <1>f, <1>2, <3>4, <4>3 DEF SaveManifest
    <3>5. Start \/ ReconcileFast \/ SlowContinue \/ StoreKnown \/ StoreNew
         \/ EmitSync \/ EmitSegment \/ EmitCheckpoint \/ Record \/ CloseStore \/ FlushIndex => Live'
      BY Zenon DEF Start, ReconcileFast, SlowContinue, Continue, StoreKnown, StoreNew, EmitSync,
             EmitSegment, EmitCheckpoint, Record, CloseStore, FlushIndex, Live
    <3> QED BY <3>1, <3>2, <3>3, <3>4, <3>5, SlowCases DEF Stopped, Next, Step, Resume, Emit
  <2> QED BY <1>2, <2>2 DEF SavedInv
<1>3. CASE UNCHANGED manifest /\ manifest # <<>>
  <2>1. manifest = Source /\ ~Live /\ Covered(N, index)
    BY <1>3 DEF SavedInv
  <2>2. Stopped \/ RemoveCheckpoint \/ SaveManifest \/ UNCHANGED vars
    BY Zenon, <1>3, <2>1 DEF Next, Step, Resume, Emit, Stopped, Start, ReconcileFast,
       ReconcileSlow, Idle,
      StoreKnown, StoreNew, EmitSync, EmitSegment, EmitCheckpoint, Record, CloseStore, FlushIndex, Live
  <2>3. ~SaveManifest
    BY <2>1 DEF SaveManifest, Live
  <2>4. UNCHANGED index /\ (pc' \in {"idle", "done"} \/ UNCHANGED vars)
    BY <2>2, <2>3, StoppedFacts DEF RemoveCheckpoint, vars
  <2>5. Covered(N, index)'
    BY <2>1, <2>4 DEF Covered, Hashes, N
  <2>6. ~Live'
    BY <2>1, <2>4 DEF Live, vars
  <2>7. pc' = "saved" => \A e \in index' : Holds(e)'
    <3>1. SUFFICES ASSUME pc' = "saved" PROVE \A e \in index' : Holds(e)'
      OBVIOUS
    <3>2. UNCHANGED vars
      BY <2>4, <3>1
    <3>3. UNCHANGED <<packs, pc, index>>
      BY <3>2 DEF vars, packfiles
    <3>4. \A e \in index : Holds(e)
      BY <3>1, <3>3 DEF SavedInv
    <3> QED BY <3>3, <3>4 DEF Holds
  <2> QED BY <1>3, <2>1, <2>5, <2>6, <2>7 DEF SavedInv
<1> QED BY <1>1, <1>2, <1>3, Frame

\* The fast regime is never entered again once it is left.
LEMMA RegimeStep ==
  ASSUME TypeOK, RunInv, CkptInv, SavedInv, [Next]_vars, manifest' = <<>>, FastRegime'
  PROVE  FastRegime /\ manifest = <<>>
<1>f. segs \in Seq(Segment(Entry)) /\ Len(segs) \in Nat /\ TSegs /\ TCkpt /\ ckptSeq \in Nat /\ ckpt.seq \in Nat
  BY LoopFields, CkptFields
<1>m. manifest = <<>>
  <2>1. SaveManifest => FALSE
    <3>1. SUFFICES ASSUME SaveManifest PROVE FALSE
      OBVIOUS
    <3>2. side = SubSeq(Source, 1, pos - 1) /\ pos = N + 1
      BY <3>1 DEF SaveManifest, RunInv, RunSide, Live
    <3>3. pos - 1 = N /\ N > 0 /\ Len(Source) = N /\ Source \in Seq(Hash)
      BY <3>2, SourceFacts
    <3>4. side = Source
      BY <3>2, <3>3
    <3> QED BY <3>1, <3>3, <3>4 DEF SaveManifest
  <2> QED BY <2>1, Frame
<1>n. pc # "saved"
  BY <1>m, SourceFacts DEF SavedInv
<1> SUFFICES ASSUME ckpt.here PROVE segs # <<>> /\ SegValid(1)
  BY <1>m DEF FastRegime
<1>a. ASSUME NEW x, segs' = Append(segs, x), ~(x.ok /\ x.seq = 0), ckpt'.here
      PROVE  segs # <<>> /\ SegValid(1)
  <2>1. segs'[1].ok /\ segs'[1].seq = 0
    <3>1. SegValid(1)'
      BY <1>a DEF FastRegime
    <3> QED BY <3>1 DEF SegValid
  <2>2. CASE segs = <<>>
    <3>1. segs'[1] = x
      BY <1>a, <2>2
    <3> QED BY <1>a, <2>1, <3>1
  <2>3. CASE segs # <<>>
    <3>1. segs'[1] = segs[1]
      BY <1>f, <1>a, <2>3
    <3> QED BY <2>1, <2>3, <3>1 DEF SegValid
  <2> QED BY <2>2, <2>3
<1>b. ckpt'.here
  <2>1. CASE EmitCheckpoint
    <3>1. ckpt' = [here |-> TRUE, seq |-> ckptSeq, len |-> Len(side), resume |-> pos]
      BY <2>1 DEF EmitCheckpoint
    <3> QED BY <3>1
  <2>2. ~RemoveCheckpoint
    BY <1>n DEF RemoveCheckpoint
  <2> QED BY <2>1, <2>2, Frame
<1>c. segs' # <<>> /\ SegValid(1)'
  BY <1>b DEF FastRegime
<1>1. CASE UNCHANGED segs
  BY <1>c, <1>1 DEF SegValid
<1>2. CASE Start \/ SlowContinue \/ SlowRefuse \/ RemoveCheckpoint
  <2>1. segs' = <<>>
    BY <1>2 DEF Start, SlowContinue, SlowRefuse, RemoveCheckpoint
  <2> QED BY <1>c, <2>1
<1>3. CASE ReconcileFast
  <2>1. Keep \in 1 .. Len(segs) /\ SegValid(Keep)
    BY <1>f, <1>3, FastSegments DEF ReconcileFast
  <2>2. 1 .. 1 \subseteq 1 .. Keep /\ segs # <<>>
    BY <1>f, <2>1, CkptFields
  <2> QED BY <2>1, <2>2 DEF SegValid
<1>4. CASE EmitSegment
  <2>1. segs' = Append(segs, [ok |-> TRUE, seq |-> ckptSeq,
                              bytes |-> SubSeq(side, prevLen + 1, Len(side)),
                              inserts |-> pending])
    BY <1>4 DEF EmitSegment
  <2>2. ckptSeq = ckpt.seq + 1
    BY <1>4 DEF EmitSegment, RunInv, RunSide, Live
  <2>3. ckptSeq # 0
    BY <1>f, <2>2
  <2> QED BY <1>a, <1>b, <2>1, <2>3
<1>5. CASE PowerLoss
  <2>1. segs' = segs \/ segs' = Append(segs, Torn)
    BY <1>5 DEF PowerLoss
  <2>2. ~Torn.ok
    BY DEF Torn
  <2> QED BY <1>1, <1>a, <1>b, <2>1, <2>2
<1> QED BY <1>1, <1>2, <1>3, <1>4, <1>5, Frame, SlowCases

\* What enters the index has been synced, the slow path aside.
LEMMA IndexInvStep ==
  ASSUME TypeOK, RunInv, CkptInv, SavedInv, IndexInv, [Next]_vars
  PROVE  IndexInv'
<1> SUFFICES ASSUME world'.managed \/ (manifest' = <<>> /\ FastRegime')
             PROVE  \A e \in index' : Sealed(e)'
  BY DEF IndexInv
<1>1. world' = world
  BY Frame
<1>2. \A e \in index : Sealed(e)
  BY <1>1, RegimeStep DEF IndexInv
<1>3. index \subseteq Entry /\ session \subseteq Entry
  BY LoopFields
<1>4. \A e \in Entry : Sealed(e) => Sealed(e)'
  BY RunPackAt, PacksStep
<1>5. CASE UNCHANGED index
  BY <1>2, <1>3, <1>4, <1>5
<1>6. CASE FlushIndex
  <2>1. index' = Merge(index, session) /\ pc = "flush" /\ Live
    BY <1>6 DEF FlushIndex, Live
  <2>2. index' \subseteq index \cup session
    BY <2>1, MergeFacts
  <2>3. \A e \in session : Sealed(e)
    BY <2>1 DEF RunInv, RunFrames
  <2> QED BY <1>2, <1>3, <1>4, <2>2, <2>3
<1>7. CASE ReconcileSlow
  <2>1. SlowContinue \/ SlowRefuse
    BY <1>7, SlowCases
  <2>2. segs' = <<>> /\ ckpt'.here
    BY <2>1 DEF SlowContinue, SlowRefuse, Continue, Refuse
  <2>3. world.managed
    BY <1>1, <2>2 DEF FastRegime
  <2>4. UNCHANGED index
    BY <2>1, <2>3 DEF SlowContinue, SlowRefuse
  <2> QED BY <1>5, <2>4
<1> QED BY <1>5, <1>6, <1>7, Frame

-----------------------------------------------------------------------------
(* The segments file *)

\* No segments have no inserts.
LEMMA InsertsEmpty == Inserts(<<>>) = {}
BY DEF Inserts

\* The length and the components of a concatenation.
LEMMA ConcatType ==
  ASSUME NEW S, NEW r \in Seq(S), NEW q \in Seq(S)
  PROVE  /\ r \o q \in Seq(S)
         /\ Len(r \o q) = Len(r) + Len(q)
         /\ \A i \in 1 .. Len(r) + Len(q) :
              (r \o q)[i] = IF i <= Len(r) THEN r[i] ELSE q[i - Len(r)]
  OBVIOUS

\* A prefix and what lies between it and a longer one are the longer one: the
\* bytes of a new segment continue those before it.
LEMMA PrefixSplit ==
  ASSUME NEW S, NEW s \in Seq(S), NEW m \in 0 .. Len(s), NEW n \in 0 .. m
  PROVE  SubSeq(s, 1, n) \o SubSeq(SubSeq(s, 1, m), n + 1, m) = SubSeq(s, 1, m)
<1>0. PICK p, q, r : /\ p = SubSeq(s, 1, m) /\ q = SubSeq(p, n + 1, m) /\ r = SubSeq(s, 1, n)
  BY Zenon
<1>1. p \in Seq(S) /\ Len(p) = m /\ \A i \in 1 .. m : p[i] = s[i]
  BY <1>0
<1>2. q \in Seq(S) /\ Len(q) = m - n /\ \A i \in 1 .. m - n : q[i] = p[n + i]
  BY <1>0, <1>1
<1>3. r \in Seq(S) /\ Len(r) = n /\ \A i \in 1 .. n : r[i] = s[i]
  BY <1>0
<1>4. PICK t : t = r \o q
  BY Zenon
<1>5. /\ t \in Seq(S) /\ Len(t) = m
      /\ \A i \in 1 .. m : t[i] = IF i <= n THEN r[i] ELSE q[i - n]
  <2>0. r \in Seq(S) /\ q \in Seq(S) /\ Len(r) = n /\ Len(q) = m - n
    BY Zenon, <1>2, <1>3
  <2>1. /\ t \in Seq(S) /\ Len(t) = Len(r) + Len(q)
        /\ \A i \in 1 .. Len(r) + Len(q) : t[i] = IF i <= Len(r) THEN r[i] ELSE q[i - Len(r)]
    BY Zenon, <1>4, <2>0, ConcatType
  <2>2. Len(r) + Len(q) = m
    BY <2>0
  <2> QED BY Zenon, <2>0, <2>1, <2>2
<1>6. ASSUME NEW i \in 1 .. m PROVE t[i] = p[i]
  <2>1. CASE i <= n
    <3>1. i \in 1 .. n
      BY <2>1
    <3> QED BY <1>1, <1>3, <1>5, <2>1, <3>1
  <2>2. CASE ~(i <= n)
    <3>1. i - n \in 1 .. m - n /\ n + (i - n) = i
      BY <2>2
    <3>2. q[i - n] = p[n + (i - n)]
      BY <1>2, <3>1
    <3> QED BY <1>5, <2>2, <3>1, <3>2
  <2> QED BY <2>1, <2>2
<1>7. t = p
  BY <1>1, <1>5, <1>6
<1> QED BY Zenon, <1>0, <1>4, <1>7

\* A segment is appended only after the seal of the pack its inserts name.
LEMMA SegsSealedStep ==
  ASSUME TypeOK, RunInv, SegsSealed, [Next]_vars
  PROVE  SegsSealed'
<1>f. /\ segs \in Seq(Segment(Entry)) /\ TSegs /\ TCkpt /\ pending \subseteq Entry
      /\ TSide /\ TLoop /\ Len(segs) \in Nat
  BY LoopFields
<1>1. \A e \in Entry : Sealed(e) => Sealed(e)'
  BY RunPackAt, PacksStep
<1>2. Inserts(segs) \subseteq Entry
  BY <1>f, InsertsType
<1>3. SUFFICES ASSUME NEW e \in Inserts(segs') PROVE e \in Entry /\ Sealed(e)
  BY <1>1 DEF SegsSealed, Inserts
<1>4. CASE e \in Inserts(segs)
  BY <1>2, <1>4 DEF SegsSealed
<1>5. CASE Start \/ SlowContinue \/ SlowRefuse \/ RemoveCheckpoint
  <2>1. segs' = <<>>
    BY <1>5 DEF Start, SlowContinue, SlowRefuse, RemoveCheckpoint
  <2> QED BY <2>1, InsertsEmpty
<1>6. CASE ReconcileFast
  <2>1. Keep \in 0 .. Len(segs)
    BY <1>f, <1>6, FastSegments DEF ReconcileFast
  <2>2. segs' = First(Keep) \/ segs' = segs
    BY Zenon, <1>6 DEF ReconcileFast, First
  <2> QED BY <1>f, <1>4, <2>1, <2>2, FirstFacts
<1>7. CASE EmitSegment
  <2> DEFINE x == [ok |-> TRUE, seq |-> ckptSeq, bytes |-> SubSeq(side, prevLen + 1, Len(side)),
                   inserts |-> pending]
  <2>1. segs' = Append(segs, x) /\ Live /\ Emitting
    BY <1>7 DEF EmitSegment, Live, Emitting
  <2>2. x \in Segment(Entry) /\ x.inserts = pending
    <3>1. SubSeq(side, prevLen + 1, Len(side)) \in Seq(Hash) /\ ckptSeq \in Nat
      BY <1>f DEF TSide, TLoop
    <3> QED BY <1>f, <3>1 DEF Segment
  <2> HIDE DEF x
  <2>3. Inserts(segs') = Inserts(segs) \cup pending
    BY <1>f, <2>1, <2>2, InsertsAppend
  <2>4. \A p \in pending : Sealed(p)
    BY <2>1 DEF RunInv, RunFrames, RunPending
  <2> QED BY <1>f, <1>4, <2>3, <2>4
<1>8. CASE PowerLoss
  <2>1. segs' = segs \/ segs' = Append(segs, Torn)
    BY <1>8 DEF PowerLoss
  <2>2. Torn \in Segment(Entry) /\ Torn.inserts = {}
    BY DEF Torn, Segment
  <2>3. Inserts(Append(segs, Torn)) = Inserts(segs)
    BY Zenon, <1>f, <2>2, InsertsAppend
  <2> QED BY Zenon, <1>4, <2>1, <2>3
<1>9. CASE UNCHANGED segs
  BY <1>4, <1>9
<1> QED BY <1>5, <1>6, <1>7, <1>8, <1>9, Frame, SlowCases

\* What SegsInv says of the first k segments.
SegAll(k) == SegBase(k) /\ SegRun(k) /\ SegEmitted(k)

\* With no segments there is nothing to be wrong, if the run has none either.
LEMMA NoSegments ==
  ASSUME segs' = <<>>, ckpt'.seq \in Nat, pos' \in Nat \ {0}, ckptSeq' \in Nat,
         (Live' /\ ckptSeq' = 0) => prevLen' = 0 /\ pos' = 1 /\ session' = {},
         pc' # "checkpoint", NEW k \in 0 .. Len(segs')
  PROVE  SegAll(k)'
<1>1. k = 0 /\ First(k)' = <<>>
  BY DEF First
<1>2. Bytes(First(k)') = <<>> /\ Len(Bytes(First(k)')) = 0 /\ Inserts(First(k)') = {}
  BY <1>1, BytesEmpty, InsertsEmpty
<1>3. SubSeq(Source, 1, 0) = <<>> /\ N \in Nat /\ 0 <= N
  BY SourceFacts
<1>4. \A S : Covered(0, S)
  BY DEF Covered
<1>5. k # Keep'
  BY <1>1 DEF Keep
<1>6. SegBase(k)'
  BY Zenon, <1>2, <1>3, <1>4, <1>5 DEF SegBase, Covered, Bytes, Inserts, N, Hashes
<1>7. Hashes({}) = {}
  BY DEF Hashes
<1>8. SegRun(k)'
  <2>0. 0 <= ckptSeq'
    OBVIOUS
  <2>1. SUFFICES ASSUME Live', pc' # "checkpoint", k = ckptSeq'
                 PROVE  /\ Len(Bytes(First(k)')) = prevLen'
                        /\ Covered(pos' - 1, index' \cup Inserts(First(k)') \cup pending')
                        /\ Hashes(session') \subseteq Hashes(index' \cup Inserts(First(k)') \cup pending')
    BY Zenon, <1>1, <2>0 DEF SegRun, Bytes, Inserts, Covered, Hashes
  <2>2. prevLen' = 0 /\ pos' - 1 = 0 /\ session' = {}
    BY <1>1, <2>1
  <2> QED BY <1>2, <1>4, <1>7, <2>2
<1> QED BY Zenon, <1>6, <1>8 DEF SegAll, SegEmitted

\* What holds of the first k segments goes on holding while neither they nor the
\* checkpoint change and the index loses no hash.
LEMMA SegBaseKept ==
  ASSUME NEW k, SegBase(k), First(k)' = First(k), UNCHANGED ckpt,
         Hashes(index) \subseteq Hashes(index')
  PROVE  SegBase(k)'
<1>1. Bytes(First(k))' = Bytes(First(k)) /\ Inserts(First(k))' = Inserts(First(k))
  BY Zenon DEF Bytes, Inserts
<1>2. Hashes(index \cup Inserts(First(k))) \subseteq Hashes(index' \cup Inserts(First(k)))
  BY Zenon, HashesGrow
<1>3. Covered(Len(Bytes(First(k))), index' \cup Inserts(First(k)))
  BY Zenon, <1>2, CoveredBy DEF SegBase
<1>4. Keep' = Keep
  BY DEF Keep
<1> QED BY <1>1, <1>3, <1>4 DEF SegBase, Covered, Hashes, N

\* The same of what the run knows of them.
LEMMA SegRunKept ==
  ASSUME NEW k, SegRun(k), First(k)' = First(k),
         Live' => Live /\ pc # "checkpoint" /\ pc' # "checkpoint",
         UNCHANGED <<ckptSeq, prevLen, pos, session, pending>>,
         Hashes(index) \subseteq Hashes(index')
  PROVE  SegRun(k)' /\ (SegEmitted(k)' \/ pc' = "checkpoint")
<1>1. Bytes(First(k))' = Bytes(First(k)) /\ Inserts(First(k))' = Inserts(First(k))
  BY DEF Bytes, Inserts
<1> DEFINE S == Inserts(First(k)) \cup pending
<1>2. Hashes(index \cup S) \subseteq Hashes(index' \cup S)
  BY Zenon, HashesGrow
<1>3. index \cup Inserts(First(k)) \cup pending = index \cup S
      /\ index' \cup Inserts(First(k)) \cup pending = index' \cup S
  OBVIOUS
<1> HIDE DEF S
<1>4. Covered(pos - 1, index \cup S) => Covered(pos - 1, index' \cup S)
  BY <1>2, CoveredBy
<1>5. SegRun(k)'
  BY Zenon, <1>1, <1>2, <1>3, <1>4 DEF SegRun, Covered, Hashes
<1> QED BY <1>5 DEF SegEmitted

\* A step that leaves the segments alone keeps what holds of them.
LEMMA SegsUnchanged ==
  ASSUME TypeOK, RunInv, UNCHANGED segs, [Next]_vars, ~ReconcileSlow, ~ReconcileFast, ~Start,
         NEW k \in 0 .. Len(segs), SegAll(k)
  PROVE  SegAll(k)'
<1>f. k \in Nat /\ pos \in Nat \ {0} /\ ckptSeq \in Nat /\ N \in Nat /\ Len(side) \in Nat
      /\ TSegs /\ TCkpt
  BY LoopFields, SourceFacts
<1>1. First(k)' = First(k)
  BY DEF First
<1>2. Hashes(index) \subseteq Hashes(index')
  <2>1. UNCHANGED index \/ FlushIndex
    BY Frame
  <2>2. CASE UNCHANGED index
    BY <2>2
  <2>3. CASE FlushIndex
    <3>1. index' = Merge(index, session)
      BY <2>3 DEF FlushIndex
    <3>2. Hashes(index') = Hashes(index) \cup Hashes(session)
      BY <3>1, MergeFacts
    <3> QED BY <3>2
  <2> QED BY <2>1, <2>2, <2>3
<1>3. SegBase(k) /\ SegRun(k) /\ SegEmitted(k)
  BY DEF SegAll
<1>s. Bytes(First(k))' = Bytes(First(k)) /\ Inserts(First(k))' = Inserts(First(k))
  BY <1>1 DEF Bytes, Inserts
<1> USE DEF loop
<1>4. CASE ~Live'
  <2>1. UNCHANGED ckpt \/ RemoveCheckpoint
    BY Zenon, <1>4, Frame DEF EmitCheckpoint, Live
  <2>2. SegBase(k)'
    <3>1. CASE UNCHANGED ckpt
      BY <1>1, <1>2, <1>3, <3>1, SegBaseKept
    <3>2. CASE RemoveCheckpoint
      <4>1. ckpt'.here = FALSE /\ index' = index
        BY <3>2 DEF RemoveCheckpoint, NoCkpt
      <4> QED BY <1>1, <1>3, <4>1, <1>s DEF SegBase, Covered, Hashes, N
    <3> QED BY <2>1, <3>1, <3>2
  <2> QED BY <1>4, <2>2 DEF SegAll, SegRun, SegEmitted, Live
<1>5. CASE StoreNew \/ EmitSync \/ CloseStore \/ FlushIndex
  <2>1. Live /\ pc # "checkpoint" /\ pc' # "checkpoint" /\ UNCHANGED <<ckptSeq, prevLen, pos, session, pending, ckpt>>
    BY Zenon, <1>5 DEF StoreNew, EmitSync, CloseStore, FlushIndex, Live, resumables
  <2> QED BY <1>1, <1>2, <1>3, <2>1, SegBaseKept, SegRunKept DEF SegAll
<1>6. CASE StoreKnown
  <2>1. Live /\ pc = "loop" /\ pc' = "loop" /\ pos' = pos + 1
        /\ UNCHANGED <<ckptSeq, prevLen, session, pending, ckpt, index>>
        /\ Source[pos] \in Hashes(index \cup session)
    BY <1>6 DEF StoreKnown, Live, resumables, Known
  <2>2. SegBase(k)'
    BY <1>1, <1>2, <1>3, <2>1, SegBaseKept
  <2> DEFINE S == index \cup Inserts(First(k)) \cup pending
  <2>3. k = ckptSeq => Covered(pos - 1, S) /\ Hashes(session) \subseteq Hashes(S)
    BY Zenon, <1>3, <2>1 DEF SegRun
  <2>4. Hashes(index \cup session) = Hashes(index) \cup Hashes(session) /\ Hashes(index) \subseteq Hashes(S)
    BY HashesFacts
  <2> HIDE DEF S
  <2>5. k = ckptSeq => Covered(pos, S)
    BY Zenon, <1>f, <2>1, <2>3, <2>4, CoveredNext
  <2>6. pos' - 1 = pos
    BY <1>f, <2>1
  <2>7. SegRun(k)'
    BY Zenon, <1>3, <1>s, <2>1, <2>3, <2>5, <2>6 DEF SegRun, S, Covered, Hashes
  <2> QED BY <2>1, <2>2, <2>7 DEF SegAll, SegEmitted
<1>7. CASE Record
  <2>1. Live /\ pc = "record" /\ pc' = "loop" /\ pos' = pos + 1 /\ cur.h = Source[pos]
        /\ UNCHANGED <<ckptSeq, prevLen, ckpt, index>>
        /\ pending' = pending \cup {cur} /\ session' = Merge(session, {cur})
    BY Zenon, <1>7 DEF Record, Live, resumables, RunInv, RunCur
  <2>2. SegBase(k)'
    BY Zenon, <1>1, <1>2, <1>3, <2>1, SegBaseKept
  <2> DEFINE S == index \cup Inserts(First(k)) \cup pending
             T == index \cup Inserts(First(k)) \cup (pending \cup {cur})
  <2>3. k = ckptSeq => Covered(pos - 1, S) /\ Hashes(session) \subseteq Hashes(S)
    BY Zenon, <1>3, <2>1 DEF SegRun
  <2>4. Hashes(S) \subseteq Hashes(T) /\ cur.h \in Hashes(T) /\ Hashes({cur}) \subseteq Hashes(T)
    BY DEF Hashes
  <2>5. Hashes(Merge(session, {cur})) = Hashes(session) \cup Hashes({cur})
    BY MergeFacts
  <2> HIDE DEF S, T
  <2>6. k = ckptSeq => Covered(pos, T) /\ Hashes(session') \subseteq Hashes(T)
    <3>1. SUFFICES ASSUME k = ckptSeq PROVE Covered(pos, T) /\ Hashes(session') \subseteq Hashes(T)
      OBVIOUS
    <3>2. Covered(pos - 1, T)
      BY <2>3, <2>4, <3>1, CoveredBy
    <3>3. Covered(pos, T)
      BY <1>f, <2>1, <2>4, <3>2, CoveredNext
    <3> QED BY Zenon, <2>1, <2>3, <2>4, <2>5, <3>1, <3>3
  <2>7. pos' - 1 = pos
    BY <1>f, <2>1
  <2>8. SegRun(k)'
    BY Zenon, <1>3, <1>s, <2>1, <2>6, <2>7 DEF SegRun, T, Covered, Hashes
  <2> QED BY Zenon, <2>1, <2>2, <2>8 DEF SegAll, SegEmitted
<1>8. CASE EmitCheckpoint
  <2>1. /\ Live /\ pc = "checkpoint" /\ pc' = "record" /\ ckptSeq' = ckptSeq + 1 /\ prevLen' = Len(side)
        /\ pending' = {} /\ UNCHANGED <<pos, session, index>>
    BY <1>8 DEF EmitCheckpoint, Live
  <2>2. ckpt' = [here |-> TRUE, seq |-> ckptSeq, len |-> Len(side), resume |-> pos]
    BY Zenon, <1>8 DEF EmitCheckpoint
  <2>3. ckpt'.here /\ ckpt'.len = Len(side) /\ Keep' = ckptSeq + 1
    BY <2>2 DEF Keep
  <2>4. /\ k <= ckptSeq + 1
        /\ k = ckptSeq + 1 => /\ Len(Bytes(First(k))) = Len(side)
                              /\ Hashes(session) \subseteq Hashes(index \cup Inserts(First(k)))
    BY Zenon, <1>3, <2>1 DEF SegEmitted
  <2>5. SegBase(k)'
    BY Zenon, <1>3, <1>s, <2>1, <2>3, <2>4 DEF SegBase, Covered, Hashes, N
  <2>6. Len(side) = pos - 1
    <3>1. side = SubSeq(Source, 1, pos - 1) /\ pos <= N
      BY <2>1 DEF RunInv, RunSide, RunCur, Emitting
    <3>2. pos - 1 \in 0 .. Len(Source) /\ Source \in Seq(Hash)
      BY <1>f, <3>1, SourceFacts
    <3> QED BY <3>1, <3>2, PrefixType
  <2>7. k = ckptSeq + 1 => Covered(pos - 1, index \cup Inserts(First(k)))
    BY <1>3, <2>4, <2>6 DEF SegBase
  <2>8. index \cup Inserts(First(k)) \cup {} = index \cup Inserts(First(k))
    OBVIOUS
  <2>9. SegRun(k)'
    BY Zenon, <1>s, <2>1, <2>4, <2>7, <2>8 DEF SegRun, Covered, Hashes
  <2> QED BY <2>1, <2>5, <2>9 DEF SegAll, SegEmitted
<1>9. CASE UNCHANGED vars
  <2>1. UNCHANGED <<index, ckpt, pc, ckptSeq, prevLen, pos, session, pending, side>>
    BY <1>9 DEF vars, sidecar, resumables
  <2>2. SegBase(k)'
    BY <1>1, <1>2, <1>3, <2>1, SegBaseKept
  <2>3. SegRun(k)'
    BY Zenon, <1>3, <1>s, <2>1 DEF SegRun, Covered, Hashes, Live
  <2>4. SegEmitted(k)'
    BY Zenon, <1>3, <1>s, <2>1 DEF SegEmitted, Hashes
  <2> QED BY <2>2, <2>3, <2>4 DEF SegAll
<1>10. CASE EmitSegment
  <2>1. segs' = Append(segs, [ok |-> TRUE, seq |-> ckptSeq,
                             bytes |-> SubSeq(side, prevLen + 1, Len(side)),
                             inserts |-> pending])
    BY <1>10 DEF EmitSegment
  <2>2. Len(segs') = Len(segs) + 1 /\ Len(segs) \in Nat
    BY <2>1, <1>f DEF TSegs
  <2> QED BY <2>2
<1> QED BY <1>4, <1>5, <1>6, <1>7, <1>8, <1>9, <1>10, LiveSteps, SlowCases DEF ReconcileSlow,
           SlowContinue

\* Every step keeps the invariant of the segments file: the append of the next
\* segment, the torn one of a power loss, the cut of a resume.
LEMMA SegsInvStep ==
  ASSUME TypeOK, RunInv, CkptInv, SegsInv, [Next]_vars, TypeOK'
  PROVE  SegsInv'
<1>f. /\ segs \in Seq(Segment(Entry)) /\ Len(segs) \in Nat /\ TSegs /\ TCkpt /\ N \in Nat
      /\ pos \in Nat \ {0} /\ ckptSeq \in Nat /\ prevLen \in Nat /\ side \in Seq(Hash) /\ Len(side) \in Nat
      /\ pending \subseteq Entry
  BY LoopFields, SourceFacts
<1>g. ckpt.seq \in Nat /\ ckpt.len \in Nat /\ Keep = ckpt.seq + 1
  BY <1>f, CkptFields
<1>p. ckpt'.seq \in Nat /\ pos' \in Nat \ {0} /\ ckptSeq' \in Nat
  <2>1. ckpt' \in [here : BOOLEAN, seq : Nat, len : 0 .. N, resume : 0 .. N]
    BY DEF TypeOK, N
  <2> QED BY <2>1, SourceFacts DEF TypeOK, N
<1>s. SegsSealed'
  BY SegsSealedStep DEF SegsInv
<1>1. SUFFICES \A k \in 0 .. Len(segs') : SegValid(k)' => SegAll(k)'
  BY <1>s DEF SegsInv, SegAll
<1>0. \A k \in 0 .. Len(segs) : SegValid(k) => SegAll(k)
  BY DEF SegsInv, SegAll
<1>2. CASE Start \/ SlowContinue \/ SlowRefuse \/ RemoveCheckpoint
  <2>1. segs' = <<>> /\ pc' # "checkpoint"
    BY <1>2 DEF Start, SlowContinue, SlowRefuse, RemoveCheckpoint, Continue, Refuse, Idle
  <2>2. (Live' /\ ckptSeq' = 0) => prevLen' = 0 /\ pos' = 1 /\ session' = {}
    <3>1. CASE Start
      BY <3>1 DEF Start
    <3>2. CASE SlowContinue
      BY <1>g, <3>2 DEF SlowContinue, Continue
    <3>3. CASE SlowRefuse \/ RemoveCheckpoint
      BY <3>3 DEF SlowRefuse, RemoveCheckpoint, Refuse, Idle, Live
    <3> QED BY <1>2, <3>1, <3>2, <3>3
  <2> QED BY <1>p, <2>1, <2>2, NoSegments
<1>3. CASE UNCHANGED segs /\ ~Start /\ ~ReconcileFast /\ ~ReconcileSlow
  <2>1. ASSUME NEW k \in 0 .. Len(segs), SegValid(k)' PROVE SegAll(k)'
    <3>1. SegValid(k)
      BY <1>3, <2>1 DEF SegValid
    <3> QED BY <1>0, <1>3, <3>1, SegsUnchanged
  <2> QED BY <1>3, <2>1
<1>4. CASE ReconcileFast
  <2>1. /\ Idle /\ ckpt.here /\ FastPath /\ UNCHANGED <<index, ckpt>> /\ pc' = "loop"
        /\ pos' = ckpt.resume /\ session' = Replayed /\ pending' = {} /\ ckptSeq' = ckpt.seq + 1
        /\ prevLen' = ckpt.len
    BY <1>4 DEF ReconcileFast, Continue
  <2>2. /\ Keep \in 1 .. Len(segs) /\ SegValid(Keep) /\ Len(ParseSegments) \in Nat
        /\ Len(ParseSegments) > Keep \/ \A j \in Keep + 1 .. Len(segs) : ~SegValid(j)
        /\ Len(ParseSegments) >= Keep
    BY Zenon, <1>f, <2>1, FastSegments DEF FastPath
  <2>3. Covered(ckpt.len, index \cup Replayed) /\ Replayed \subseteq Inserts(First(Keep))
    BY <2>1, FastCovers
  <2>4. ckpt.len = ckpt.resume - 1
    BY <2>1 DEF CkptInv
  <2>5. SUFFICES ASSUME NEW k \in 0 .. Len(segs'), SegValid(k)' PROVE SegAll(k)'
    OBVIOUS
  <2>6. /\ k \in 0 .. Len(segs) /\ k <= Keep
        /\ First(k)' = First(k) /\ SegValid(k)
    <3>1. CASE Len(ParseSegments) > Keep
      <4>1. segs' = SubSeq(segs, 1, Keep)
        BY Zenon, <1>4, <3>1 DEF ReconcileFast
      <4>2. Keep \in 0 .. Len(segs)
        BY <1>f, <2>2
      <4>3. Len(segs') = Keep /\ segs' \in Seq(Segment(Entry)) /\ \A i \in 1 .. Keep : segs'[i] = segs[i]
        BY <1>f, <4>1, <4>2, PrefixType
      <4>4. k \in 0 .. Keep /\ k \in Nat /\ k <= Keep /\ k <= Len(segs)
        BY <1>f, <4>2, <4>3
      <4>5. First(k)' = First(k)
        BY <1>f, <4>1, <4>2, <4>4, PrefixOfPrefix DEF First
      <4>6. SegValid(k)
        <5>1. \A i \in 1 .. k : segs'[i] = segs[i]
          BY <1>g, <4>3, <4>4
        <5> QED BY Zenon, <2>5, <5>1 DEF SegValid
      <4> QED BY <4>4, <4>5, <4>6
    <3>2. CASE ~(Len(ParseSegments) > Keep)
      <4>1. segs' = segs
        BY <1>4, <3>2 DEF ReconcileFast
      <4>2. SegValid(k) /\ First(k)' = First(k) /\ k \in 0 .. Len(segs)
        BY <2>5, <4>1 DEF SegValid, First
      <4>3. k <= Keep
        BY <1>f, <1>g, <2>2, <3>2, <4>2
      <4> QED BY <4>2, <4>3
    <3> QED BY <3>1, <3>2
  <2>7. SegBase(k)
    BY <1>0, <2>6 DEF SegAll
  <2>8. SegBase(k)'
    BY <2>1, <2>6, <2>7, SegBaseKept
  <2>9. k = Keep => /\ Len(Bytes(First(k))) = ckpt.len
                    /\ Covered(ckpt.len, index \cup Inserts(First(k)))
    BY <2>1, <2>7 DEF SegBase
  <2>10. Bytes(First(k))' = Bytes(First(k)) /\ Inserts(First(k))' = Inserts(First(k))
    BY <2>6 DEF Bytes, Inserts
  <2>11. index \cup Inserts(First(k)) \cup {} = index \cup Inserts(First(k))
         /\ Hashes(Inserts(First(k))) \subseteq Hashes(index \cup Inserts(First(k)))
    BY HashesFacts
  <2>12. k = Keep => Hashes(Replayed) \subseteq Hashes(index \cup Inserts(First(k)))
    BY <2>3, <2>11, HashesFacts
  <2>13. SegRun(k)'
    BY Zenon, <1>g, <2>1, <2>4, <2>6, <2>9, <2>10, <2>11, <2>12 DEF SegRun, Covered, Hashes
  <2> QED BY <2>1, <2>8, <2>13 DEF SegAll, SegEmitted
<1>5. ASSUME NEW x \in Segment(Entry), segs' = Append(segs, x)
      PROVE  /\ Len(segs') = Len(segs) + 1
             /\ \A k \in 0 .. Len(segs) : First(k)' = First(k)
             /\ \A k \in 0 .. Len(segs) : SegValid(k)' => SegValid(k)
             /\ First(Len(segs)) = segs
             /\ \A k \in {Len(segs) + 1} :
                  /\ First(k)' = Append(segs, x)
                  /\ SegValid(k)' => SegValid(Len(segs)) /\ x.ok /\ x.seq = Len(segs)
  <2>1. /\ Len(segs') = Len(segs) + 1 /\ segs'[Len(segs) + 1] = x
        /\ \A i \in 1 .. Len(segs) : segs'[i] = segs[i]
    BY <1>f, <1>5
  <2>2. \A k \in 0 .. Len(segs) : First(k)' = First(k)
    BY <1>f, <1>5, PrefixOfAppend DEF First
  <2>3. SubSeq(segs', 1, Len(segs) + 1) = Append(segs, x) /\ First(Len(segs)) = segs
    BY <1>f, <1>5, PrefixOfAppend DEF First
  <2>4. ASSUME NEW k \in 0 .. Len(segs), SegValid(k)' PROVE SegValid(k)
    <3>1. 1 .. k \subseteq 1 .. Len(segs)
      BY <1>f
    <3> QED BY <2>1, <2>4, <3>1 DEF SegValid
  <2>5. ASSUME NEW k, k = Len(segs) + 1, SegValid(k)'
        PROVE  SegValid(Len(segs)) /\ x.ok /\ x.seq = Len(segs)
    <3>1. 1 .. Len(segs) \subseteq 1 .. k /\ k \in 1 .. k /\ k - 1 = Len(segs)
      BY <1>f, <2>5
    <3>2. \A i \in 1 .. k : segs'[i].ok /\ segs'[i].seq = i - 1
      BY <2>5 DEF SegValid
    <3>3. segs'[k] = x
      BY <2>1, <2>5
    <3>4. x.ok /\ x.seq = Len(segs)
      BY <3>1, <3>2, <3>3
    <3> QED BY <2>1, <3>1, <3>2, <3>4 DEF SegValid
  <2>6. \A k \in {Len(segs) + 1} : First(k)' = Append(segs, x)
    BY <2>3 DEF First
  <2> QED BY <2>1, <2>2, <2>3, <2>4, <2>5, <2>6
<1>6. CASE EmitSegment
  <2> DEFINE x == [ok |-> TRUE, seq |-> ckptSeq, bytes |-> SubSeq(side, prevLen + 1, Len(side)),
                   inserts |-> pending]
             n == Len(segs) + 1
  <2>1. segs' = Append(segs, x) /\ pc = "segment" /\ pc' = "checkpoint" /\ Live
        /\ UNCHANGED <<index, ckpt, ckptSeq, side, session>>
    BY <1>6 DEF EmitSegment, Live, sidecar, loop
  <2>2. x \in Segment(Entry) /\ x.seq = ckptSeq /\ x.inserts = pending
        /\ x.bytes = SubSeq(side, prevLen + 1, Len(side))
    <3>1. SubSeq(side, prevLen + 1, Len(side)) \in Seq(Hash)
      BY <1>f
    <3> QED BY <1>f, <3>1 DEF Segment
  <2> HIDE DEF x
  <2>3. /\ side = SubSeq(Source, 1, pos - 1) /\ prevLen <= pos - 1 /\ pos <= N
        /\ ckpt.here => ckptSeq = ckpt.seq + 1
    BY Zenon, <2>1 DEF RunInv, RunSide, RunCur, Emitting
  <2>4. pos - 1 \in 0 .. Len(Source) /\ prevLen \in 0 .. pos - 1 /\ Source \in Seq(Hash)
    BY <1>f, <2>3, SourceFacts
  <2>5. Len(side) = pos - 1
    BY <2>3, <2>4, PrefixType
  <2>6. SUFFICES ASSUME NEW k \in 0 .. Len(segs'), SegValid(k)' PROVE SegAll(k)'
    OBVIOUS
  <2>7. CASE k \in 0 .. Len(segs)
    <3>1. SegValid(k) /\ First(k)' = First(k)
      BY <1>5, <2>1, <2>2, <2>6, <2>7
    <3>2. SegBase(k) /\ SegRun(k)
      BY <1>0, <2>7, <3>1 DEF SegAll
    <3>3. SegBase(k)'
      BY <2>1, <3>1, <3>2, SegBaseKept
    <3>4. k <= ckptSeq
      BY <2>1, <3>2 DEF SegRun
    <3>5. k <= ckptSeq + 1 /\ k # ckptSeq + 1
      BY <1>f, <2>7, <3>4
    <3> QED BY <2>1, <3>3, <3>5 DEF SegAll, SegRun, SegEmitted
  <2>8. CASE k = n
    <3>1. SegValid(Len(segs)) /\ ckptSeq = Len(segs) /\ First(k)' = Append(segs, x) /\ First(Len(segs)) = segs
      <4>1. k \in {Len(segs) + 1}
        BY <2>8
      <4> QED BY <1>5, <2>1, <2>2, <2>6, <4>1
    <3>2. SegBase(Len(segs)) /\ SegRun(Len(segs))
      <4>1. Len(segs) \in 0 .. Len(segs)
        BY <1>f
      <4> QED BY <1>0, <3>1, <4>1 DEF SegAll
    <3>3. /\ Len(Bytes(segs)) = prevLen /\ Bytes(segs) = SubSeq(Source, 1, prevLen)
          /\ Covered(pos - 1, index \cup Inserts(segs) \cup pending)
          /\ Hashes(session) \subseteq Hashes(index \cup Inserts(segs) \cup pending)
      BY Zenon, <2>1, <3>1, <3>2 DEF SegBase, SegRun
    <3>4. Bytes(First(k)') = side
      <4>1. Bytes(First(k)') = Bytes(segs) \o SubSeq(side, prevLen + 1, Len(side))
        BY Zenon, <1>f, <2>2, <3>1, BytesAppend
      <4>2. SubSeq(side, prevLen + 1, Len(side)) = SubSeq(SubSeq(Source, 1, pos - 1), prevLen + 1, pos - 1)
        BY Zenon, <2>3, <2>5
      <4>3. SubSeq(Source, 1, prevLen) \o SubSeq(SubSeq(Source, 1, pos - 1), prevLen + 1, pos - 1)
              = SubSeq(Source, 1, pos - 1)
        BY <2>4, PrefixSplit
      <4> QED BY Zenon, <2>3, <3>3, <4>1, <4>2, <4>3
    <3>5. Inserts(First(k)') = Inserts(segs) \cup pending
      BY Zenon, <1>f, <2>2, <3>1, InsertsAppend
    <3>6. index \cup Inserts(First(k)') = index \cup Inserts(segs) \cup pending
      BY <3>5
    <3>7. Bytes(First(k))' = side /\ Inserts(First(k))' = Inserts(First(k)')
      BY <3>4 DEF Bytes, Inserts
    <3>8. ~(ckpt'.here /\ k = Keep')
      BY <1>f, <1>g, <2>1, <2>3, <2>8, <3>1 DEF Keep
    <3>9. Len(side) <= N
      BY <1>f, <2>3, <2>5
    <3>10. SegBase(k)'
      BY Zenon, <2>1, <2>3, <2>5, <3>3, <3>6, <3>7, <3>8, <3>9 DEF SegBase, Covered, Hashes, N
    <3>11. SegEmitted(k)'
      <4>1. k = ckptSeq + 1 /\ k <= ckptSeq + 1
        BY <1>f, <2>8, <3>1
      <4> QED BY Zenon, <2>1, <3>3, <3>6, <3>7, <4>1 DEF SegEmitted, Hashes
    <3> QED BY <2>1, <3>10, <3>11 DEF SegAll, SegRun
  <2>9. k \in 0 .. Len(segs) \/ k = n
    BY <1>5, <1>f, <2>1, <2>2
  <2> QED BY <2>7, <2>8, <2>9
<1>7. CASE PowerLoss
  <2>1. segs' = segs \/ segs' = Append(segs, Torn)
    BY <1>7 DEF PowerLoss
  <2>2. UNCHANGED <<index, ckpt>> /\ pc' = "idle"
    BY <1>7, StoppedFacts DEF Stopped
  <2>3. SUFFICES ASSUME NEW k \in 0 .. Len(segs'), SegValid(k)' PROVE SegAll(k)'
    OBVIOUS
  <2>4. Torn \in Segment(Entry) /\ ~Torn.ok
    BY DEF Torn, Segment
  <2>5. k \in 0 .. Len(segs) /\ SegValid(k) /\ First(k)' = First(k)
    <3>1. CASE segs' = segs
      BY <2>3, <3>1 DEF SegValid, First
    <3>2. CASE segs' = Append(segs, Torn)
      <4>1. k # Len(segs) + 1
        <5>1. SUFFICES ASSUME k \in {Len(segs) + 1} PROVE FALSE
          OBVIOUS
        <5> QED BY <1>5, <2>3, <2>4, <3>2, <5>1
      <4>2. Len(segs') = Len(segs) + 1
        BY <1>5, <2>4, <3>2
      <4>3. k \in 0 .. Len(segs)
        BY <1>f, <4>1, <4>2
      <4> QED BY <1>5, <2>3, <2>4, <3>2, <4>3
    <3> QED BY <2>1, <3>1, <3>2
  <2>6. SegBase(k)
    BY <1>0, <2>5 DEF SegAll
  <2>7. SegBase(k)'
    BY <2>2, <2>5, <2>6, SegBaseKept
  <2> QED BY <2>2, <2>7 DEF SegAll, SegRun, SegEmitted, Live
<1> QED BY <1>2, <1>3, <1>4, <1>6, <1>7, Frame, SlowCases

-----------------------------------------------------------------------------
(* The invariant, and what follows from it *)

\* The initial states satisfy the invariant.
LEMMA InvInit == Init => IInv
<1> SUFFICES ASSUME Init PROVE IInv
  OBVIOUS
<1>1. TypeOK
  BY TypeInit
<1>2. pc = "idle" /\ manifest = <<>> /\ ckpt.here = FALSE /\ segs = <<>>
  BY DEF Init, NoCkpt
<1>3. RunInv
  BY Zenon, <1>2 DEF RunInv, RunSide, RunCur, RunCover, RunFrames, RunPending, Live
<1>4. CkptInv /\ SavedInv
  BY <1>2 DEF CkptInv, SavedInv
<1>5. SegsInv
  <2>1. SegsSealed
    BY <1>2, InsertsEmpty DEF SegsSealed
  <2>2. ASSUME NEW k \in 0 .. Len(segs) PROVE SegBase(k) /\ SegRun(k) /\ SegEmitted(k)
    <3>1. First(k) = <<>>
      BY <1>2 DEF First
    <3>2. Bytes(First(k)) = <<>> /\ Len(Bytes(First(k))) = 0
      BY <3>1, BytesEmpty
    <3>3. SubSeq(Source, 1, 0) = <<>> /\ 0 <= N
      BY SourceFacts
    <3>4. \A S : Covered(0, S)
      BY DEF Covered
    <3> QED BY <1>2, <3>2, <3>3, <3>4 DEF SegBase, SegRun, SegEmitted, Live
  <2> QED BY <2>1, <2>2 DEF SegsInv
<1>6. IndexInv
  <2>1. SUFFICES ASSUME NEW e \in index PROVE Sealed(e)
    BY DEF IndexInv
  <2>2. e \in Entry /\ Holds(e)
    BY DEF Init, LastOfEach, Frames
  <2>3. CASE Earlier = <<>>
    <3>1. Len(packs) = 0
      BY <2>3 DEF Init
    <3> QED BY <2>2, <3>1 DEF Entry
  <2>4. CASE Earlier # <<>>
    <3>1. packs = <<Earlier>> /\ synced = <<Len(Earlier)>>
      BY <2>4 DEF Init
    <3>2. Len(packs) = 1 /\ packs[1] = Earlier /\ synced[1] = Len(Earlier)
      BY <3>1
    <3>3. e.pack = 1
      BY <2>2, <3>2 DEF Entry
    <3> QED BY <2>2, <3>2, <3>3 DEF Sealed, Holds
  <2> QED BY <2>3, <2>4
<1> QED BY <1>1, <1>3, <1>4, <1>5, <1>6 DEF IInv

\* Every step preserves the invariant.
LEMMA InvStep == IInv /\ [Next]_vars => IInv'
<1> SUFFICES ASSUME IInv, [Next]_vars PROVE IInv'
  OBVIOUS
<1>0. TypeOK /\ RunInv /\ CkptInv /\ SegsInv /\ SavedInv /\ IndexInv
  BY DEF IInv
<1>1. TypeOK'
  BY <1>0, TypeStep
<1>2. RunSide' /\ RunPending'
  BY <1>0, RunSideStep, RunPendingStep
<1>3. RunCur'
  BY <1>0, <1>1, RunCurStep
<1>4. RunCover' /\ RunFrames'
  BY <1>0, RunCoverStep, RunFramesStep
<1>5. RunInv'
  BY <1>2, <1>3, <1>4 DEF RunInv
<1>6. CkptInv' /\ SavedInv' /\ IndexInv'
  BY <1>0, CkptInvStep, SavedInvStep, IndexInvStep
<1>7. SegsInv'
  BY <1>0, <1>1, SegsInvStep
<1> QED BY <1>1, <1>5, <1>6, <1>7 DEF IInv

\* IInv holds in every state of every behaviour, for every source, pack size and
\* set of worlds: kills, power losses, torn writes, interrupts, failures and
\* resumes in any order (pipeline.go, reconcile.go, segment.go).
THEOREM Invariance == Spec => []IInv
<1>1. IInv /\ UNCHANGED vars => IInv'
  BY InvStep
<1> QED BY InvInit, InvStep, PTL DEF Spec

\* Every variable keeps its type: no pack is over-filled, none is synced beyond
\* its end, and a resume point lies in the source (store.go, pipeline.go).
THEOREM TypeCorrect == Spec => []TypeOK
<1>1. IInv => TypeOK
  BY DEF IInv
<1> QED BY <1>1, Invariance, PTL

\* The checkpoint lags the durable seal (pipeline.go emitCheckpoint, segment.go):
\* CheckpointLagsSeal holds in every state, a power loss at any moment.
THEOREM LagsSeal == Spec => []CheckpointLagsSeal
<1>1. IInv => CheckpointLagsSeal
  BY DEF IInv, CkptInv, SegsInv, SegsSealed, CheckpointLagsSeal
<1> QED BY <1>1, Invariance, PTL

\* The index of a managed repository names only synced frames, however its backup
\* is stopped and resumed (pipeline.go, reconcile.go).
THEOREM ManagedSealed == Spec => []ManagedIndexSealed
<1>1. IInv => ManagedIndexSealed
  BY DEF IInv, IndexInv, ManagedIndexSealed
<1> QED BY <1>1, Invariance, PTL

\* No step and no stop moves the resume point of a backup backwards
\* (pipeline.go, reconcile.go).
THEOREM Advances == Spec => ResumePointAdvances
<1>1. IInv /\ [Next]_vars => [ckpt.here /\ ckpt'.here => ckpt'.resume >= ckpt.resume]_vars
  <2> SUFFICES ASSUME IInv, [Next]_vars, ckpt.here, ckpt'.here PROVE ckpt'.resume >= ckpt.resume
    OBVIOUS
  <2>0. TypeOK /\ RunInv /\ CkptInv
    BY DEF IInv
  <2>f. ckpt.resume \in Nat /\ ckpt.len \in Nat /\ pos \in Nat
    BY <2>0, LoopFields, CkptFields
  <2>1. CASE UNCHANGED ckpt
    BY <2>f, <2>1
  <2>2. CASE EmitCheckpoint
    <3>1. ckpt' = [here |-> TRUE, seq |-> ckptSeq, len |-> Len(side), resume |-> pos]
      BY Zenon, <2>2 DEF EmitCheckpoint
    <3>2. prevLen = ckpt.len /\ prevLen <= pos - 1
      BY <2>0, <2>2 DEF EmitCheckpoint, RunInv, RunSide, Live
    <3>3. ckpt.len = ckpt.resume - 1
      BY <2>0 DEF CkptInv
    <3>4. ckpt'.resume = pos
      BY <3>1
    <3> QED BY <2>f, <3>2, <3>3, <3>4
  <2>3. CASE RemoveCheckpoint
    BY <2>3 DEF RemoveCheckpoint, NoCkpt
  <2> QED BY <2>1, <2>2, <2>3, Frame
<1> QED BY <1>1, Invariance, PTL DEF Spec, ResumePointAdvances

\* In every world, what is saved is the whole source in order, with an entry of
\* the index for each of its chunks (BackupResume): where the process is killed
\* and a segment torn as well, only the frame such an entry names can be missing.
THEOREM SavedInOrder == Spec => [](manifest # <<>> => manifest = Source /\ Covered(N, index))
<1>1. IInv => (manifest # <<>> => manifest = Source /\ Covered(N, index))
  BY DEF IInv, SavedInv
<1> QED
  BY <1>1, Invariance, PTL

-----------------------------------------------------------------------------
(* What a saved manifest leads to *)

\* Every step preserves NoKillInv: a run stopped without a kill closes its packs
\* or loses with the power what was not synced.
LEMMA NoKillStep ==
  ASSUME IInv, NoKillInv, [Next]_vars
  PROVE  NoKillInv'
<1>0. TypeOK /\ RunInv /\ TPacks /\ PackAt
  BY RunPackAt DEF IInv
<1>f. /\ Len(packs) \in Nat /\ pack \in Nat \ {0} /\ pos \in Nat \ {0}
      /\ index \subseteq Entry /\ session \subseteq Entry
  BY <1>0, LoopFields
<1>w. world' = world
  BY Frame
<1> SUFFICES ASSUME ~world.kill
    PROVE  /\ pc' = "idle" => \A p \in 1 .. Len(packs') : synced'[p] = Len(packs'[p])
           /\ Running' => \A p \in 1 .. Len(packs') :
                (p # pack' \/ cur'.pack # pack') => synced'[p] = Len(packs'[p])
           /\ \A e \in index' : Sealed(e)'
  BY <1>w DEF NoKillInv
<1>1. /\ pc = "idle" => \A p \in 1 .. Len(packs) : synced[p] = Len(packs[p])
      /\ Running => \A p \in 1 .. Len(packs) :
           (p # pack \/ cur.pack # pack) => synced[p] = Len(packs[p])
      /\ \A e \in index : Sealed(e)
  BY DEF NoKillInv
<1>2. \A e \in index' : Sealed(e)'
  <2>1. \A e \in Entry : Sealed(e) => Sealed(e)'
    BY <1>0, PacksStep
  <2>2. CASE UNCHANGED index
    BY <1>f, <1>1, <2>1, <2>2
  <2>3. CASE FlushIndex
    <3>1. index' = Merge(index, session) /\ pc = "flush" /\ Live
      BY <2>3 DEF FlushIndex, Live
    <3>2. index' \subseteq index \cup session
      BY <3>1, MergeFacts
    <3>3. \A e \in session : Sealed(e)
      BY <1>0, <3>1 DEF RunInv, RunFrames
    <3> QED BY <1>f, <1>1, <2>1, <3>2, <3>3
  <2>4. CASE SlowContinue \/ SlowRefuse
    <3>1. pc = "idle" /\ (index' \subseteq Frames \/ UNCHANGED index)
      BY <2>4 DEF SlowContinue, SlowRefuse, Idle, LastOfEach
    <3>2. ASSUME NEW e \in Frames PROVE e \in Entry /\ Sealed(e)
      <4>1. e \in Entry /\ Holds(e) /\ e.pack \in 1 .. Len(packs)
        BY DEF Frames, Entry
      <4>2. synced[e.pack] = Len(packs[e.pack])
        BY <1>1, <3>1, <4>1
      <4> QED BY <4>1, <4>2 DEF Sealed, Holds
    <3> QED BY <2>1, <2>2, <3>1, <3>2
  <2> QED BY <2>2, <2>3, <2>4, Frame, SlowCases
<1> DEFINE G == /\ pc' = "idle" => \A p \in 1 .. Len(packs') : synced'[p] = Len(packs'[p])
                /\ Running' => \A p \in 1 .. Len(packs') :
                     (p # pack' \/ cur'.pack # pack') => synced'[p] = Len(packs'[p])
<1> SUFFICES G
  BY <1>2
<1>k. ASSUME UNCHANGED <<packs, synced>>, pc' = "idle" => pc = "idle",
             pc = "idle" \/ (Running /\ UNCHANGED <<pack, cur>>)
      PROVE  G
  BY <1>1, <1>k
<1> HIDE DEF G
<1> USE DEF loop, packfiles
<1>3. CASE Start \/ ReconcileFast \/ SlowContinue
  <2>1. UNCHANGED <<packs, synced>> /\ pc = "idle"
    BY Zenon, <1>3 DEF Start, ReconcileFast, SlowContinue, Continue, Idle
  <2> QED BY <1>k, <2>1
<1>4. CASE SlowRefuse
  BY <1>4, <1>k DEF SlowRefuse, Refuse, Idle
<1>5. CASE StoreKnown \/ EmitSync \/ EmitSegment \/ EmitCheckpoint \/ Record \/ FlushIndex \/ SaveManifest
  BY Zenon, <1>5, <1>k DEF StoreKnown, EmitSync, EmitSegment, EmitCheckpoint, Record,
     FlushIndex, SaveManifest, Running
<1>6. CASE RemoveCheckpoint
  BY <1>6 DEF RemoveCheckpoint, G, Running
<1>7. CASE StoreNew
  <2>1. pc = "loop" /\ Running /\ Live /\ pos \in 1 .. N /\ pc' # "idle"
    BY SMTT(30), <1>f, <1>7, SourceFacts DEF StoreNew, Running, Live
  <2>2. pack \in {Len(packs), Len(packs) + 1}
    BY <1>0, <2>1 DEF RunInv, RunCur
  <2>3. cur' = [h |-> Source[pos], pack |-> pack', off |-> Len(packs'[pack'])]
    BY Zenon, <1>0, <1>f, <1>7, <2>1, <2>2, StoreNewPacks
  <2>4. cur'.pack = pack'
    BY <2>3
  <2>5. /\ pack' = Len(packs') /\ pack' \in {pack, pack + 1}
        /\ Len(packs') \in {Len(packs), Len(packs) + 1}
        /\ \A q \in 1 .. Len(packs) : q # pack' => packs'[q] = packs[q]
        /\ \A q \in 1 .. Len(packs) :
             synced'[q] = IF q = pack /\ pack' # pack THEN PackFrames ELSE synced[q]
        /\ (pack' # pack) => (pack <= Len(packs) /\ Len(packs[pack]) = PackFrames)
    BY Zenon, <1>0, <1>f, <1>7, <2>1, <2>2, StoreNewPacks
  <2>6. ASSUME NEW p \in 1 .. Len(packs'), p # pack' PROVE synced'[p] = Len(packs'[p])
    <3>1. p \in 1 .. Len(packs)
      <4>1. PICK n \in Nat : n = Len(packs)
        BY <1>f
      <4>2. PICK m : m = pack' /\ m \in {n, n + 1} /\ p \in 1 .. m /\ p # m
        BY Zenon, <2>5, <2>6, <4>1
      <4>3. p \in 1 .. n
        BY <4>2
      <4> QED BY <4>1, <4>3
    <3>2. packs'[p] = packs[p]
      BY Zenon, <2>5, <2>6, <3>1
    <3>3. CASE p = pack
      BY Zenon, <2>5, <2>6, <3>1, <3>2, <3>3
    <3>4. CASE p # pack
      <4>1. synced[p] = Len(packs[p])
        BY <1>1, <2>1, <3>1, <3>4
      <4> QED BY <2>5, <3>1, <3>2, <3>4, <4>1
    <3> QED BY <3>3, <3>4
  <2> QED BY <2>1, <2>4, <2>6 DEF G
<1>8. CASE PowerLoss
  <2>1. /\ Len(packs') = Len(packs)
        /\ \A p \in 1 .. Len(packs) : Len(packs'[p]) = synced'[p]
    BY <1>0, <1>8, PowerLossPacks
  <2>2. pc' = "idle"
    BY <1>8, StoppedFacts DEF Stopped
  <2> QED BY <2>1, <2>2 DEF G, Running
<1>9. CASE CloseStore \/ Interrupt \/ Fail
  <2>1. packs' = packs /\ synced' = SyncedAtClose /\ UNCHANGED <<pack, cur>> /\ Running
    BY <1>9 DEF CloseStore, Interrupt, Fail, DropSidecar, Stop, Running
  <2>2. \A p \in 1 .. Len(packs) :
          synced'[p] = IF p = pack /\ cur.pack = pack THEN Len(packs[p]) ELSE synced[p]
    BY <1>0, <2>1, SyncedAtCloseFacts DEF PackAt
  <2>3. \A p \in 1 .. Len(packs) : synced'[p] = Len(packs[p])
    BY <1>1, <2>1, <2>2
  <2> QED BY <2>1, <2>3 DEF G
<1>10. CASE Kill
  BY <1>10 DEF Kill
<1>11. CASE UNCHANGED vars
  <2>1. UNCHANGED <<packs, synced, pc, pack, cur>>
    BY <1>11 DEF vars
  <2> QED BY <1>1, <2>1 DEF G, Running
<1> QED BY <1>3, <1>4, <1>5, <1>6, <1>7, <1>8, <1>9, <1>10, <1>11, SlowCases
        DEF Next, Step, Resume, Emit

-----------------------------------------------------------------------------

\* With whole segments up to the checkpoint's and the sidecar there, the fast
\* path is taken.
LEMMA TakesFastPath ==
  ASSUME IInv, ckpt.here, sideHere, SegValid(Len(segs)), Len(segs) >= Keep
  PROVE  FastPath /\ Len(ParseSegments) = Len(segs)
<1>0. TypeOK /\ CkptInv /\ SegsInv
  BY DEF IInv
<1>f. /\ TSegs /\ TCkpt /\ Len(segs) \in Nat /\ side \in Seq(Hash) /\ Len(side) \in Nat
      /\ sideSynced \in Nat /\ sideSynced <= Len(side) /\ segs \in Seq(Segment(Entry))
  BY <1>0, LoopFields
<1>g. ckpt.len \in Nat /\ Keep \in Nat /\ ckpt.len <= N /\ Source \in Seq(Hash) /\ Len(Source) = N /\ N \in Nat
  BY <1>f, CkptFields, SourceFacts
<1>1. PICK n \in 0 .. Len(segs) :
           /\ ParseSegments = First(n) /\ SegValid(n)
           /\ \A j \in n + 1 .. Len(segs) : ~SegValid(j)
  BY <1>f, Parse
<1>2. n = Len(segs)
  BY <1>f, <1>1
<1>3. ParseSegments = segs /\ Len(ParseSegments) = Len(segs)
  BY <1>f, <1>1, <1>2, FirstFacts
<1>4. Keep \in 0 .. Len(segs) /\ 1 .. Keep \subseteq 1 .. Len(segs)
  BY <1>f, <1>g
<1>5. SegValid(Keep)
  BY <1>4 DEF SegValid
<1>6. SegBase(Keep)
  BY <1>0, <1>4, <1>5 DEF SegsInv
<1>7. Covering = First(Keep)
  BY <1>3 DEF Covering, First
<1>8. Len(Bytes(Covering)) = ckpt.len /\ Bytes(Covering) = SubSeq(Source, 1, ckpt.len)
  BY <1>6, <1>7 DEF SegBase
<1>9. sideSynced >= ckpt.len /\ SubSeq(side, 1, ckpt.len) = SubSeq(Source, 1, ckpt.len)
  BY <1>0 DEF CkptInv
<1>10. Len(side) >= ckpt.len
  BY <1>f, <1>g, <1>9
<1>11. SubSeq(Bytes(Covering), 1, ckpt.len) = SubSeq(Source, 1, ckpt.len)
  <2>1. ckpt.len \in 0 .. Len(Source) /\ ckpt.len \in 0 .. ckpt.len
    BY <1>g
  <2> QED BY <1>8, <1>g, <2>1, PrefixOfPrefix
<1>12. Len(Bytes(Covering)) >= ckpt.len
  BY <1>8, <1>g
<1> QED BY Zenon, <1>3, <1>9, <1>10, <1>11, <1>12 DEF FastPath

\* Without torn segments, how many segments there are.
KillSegs ==
  /\ SegValid(Len(segs))
  /\ Live => Len(segs) = IF pc = "checkpoint" THEN ckptSeq + 1 ELSE ckptSeq
  /\ (ckpt.here /\ sideHere /\ manifest = <<>>) => Len(segs) >= Keep

\* Every step preserves KillSegs, and the slow path is only taken to refuse.
LEMMA KillSegsStep ==
  ASSUME IInv, KillSegs, ~world.tornSegment, [Next]_vars
  PROVE  KillSegs' /\ (ReconcileSlow => ~sideHere /\ SlowRefuse)
<1>0. TypeOK /\ RunInv
  BY DEF IInv
<1>f. /\ TSegs /\ TCkpt /\ Len(segs) \in Nat /\ segs \in Seq(Segment(Entry)) /\ ckptSeq \in Nat
      /\ sideHere \in BOOLEAN
  BY <1>0, LoopFields
<1>g. ckpt.seq \in Nat /\ Keep = ckpt.seq + 1
  BY <1>f, CkptFields
<1>1. /\ SegValid(Len(segs))
      /\ Live => Len(segs) = IF pc = "checkpoint" THEN ckptSeq + 1 ELSE ckptSeq
      /\ (ckpt.here /\ sideHere /\ manifest = <<>>) => Len(segs) >= Keep
  BY DEF KillSegs
<1>s. ReconcileSlow => ~sideHere /\ SlowRefuse
  <2>1. SUFFICES ASSUME ReconcileSlow PROVE ~sideHere /\ SlowRefuse
    OBVIOUS
  <2>2. ckpt.here /\ ~FastPath /\ manifest = <<>>
    BY <2>1 DEF ReconcileSlow, Idle
  <2>3. ~sideHere
    BY <1>1, <2>2, TakesFastPath
  <2> QED BY <2>1, <2>3, SlowCases DEF SlowContinue
<1> SUFFICES KillSegs'
  BY <1>s
<1> USE DEF loop, sidecar, resumables
<1>m. manifest' = <<>> => manifest = <<>> \/ SaveManifest
  BY Frame
<1>k. ASSUME UNCHANGED <<segs, ckpt>>, sideHere' = sideHere \/ sideHere' = FALSE,
             manifest' = manifest \/ sideHere' = FALSE,
             Live' => Live /\ ckptSeq' = ckptSeq /\ pc # "checkpoint" /\ pc' # "checkpoint"
      PROVE  KillSegs'
  BY <1>1, <1>k DEF KillSegs, SegValid, Keep
<1>2. CASE Start
  <2>1. segs' = <<>> /\ Len(segs') = 0 /\ ckptSeq' = 0 /\ pc' = "loop" /\ ~ckpt'.here
    BY <1>2 DEF Start
  <2> QED BY <2>1 DEF KillSegs, SegValid
<1>3. CASE ReconcileFast
  <2>1. /\ ckpt.here /\ FastPath /\ ckpt' = ckpt /\ pc' = "loop" /\ ckptSeq' = ckpt.seq + 1
        /\ segs' = IF Len(ParseSegments) > Keep THEN SubSeq(segs, 1, Keep) ELSE segs
    BY <1>3 DEF ReconcileFast, Continue
  <2>2. Keep \in 1 .. Len(segs) /\ SegValid(Keep) /\ Len(ParseSegments) = Len(segs)
    <3>1. Keep \in 1 .. Len(segs) /\ SegValid(Keep) /\ sideHere
      BY <1>f, <2>1, FastSegments
    <3>2. Len(segs) >= Keep
      BY <1>f, <1>g, <3>1
    <3> QED BY <1>1, <2>1, <3>1, <3>2, TakesFastPath
  <2>3. Len(segs') = Keep /\ \A i \in 1 .. Keep : segs'[i] = segs[i]
    <3>1. CASE Len(segs) > Keep
      <4>1. segs' = SubSeq(segs, 1, Keep)
        BY <2>1, <2>2, <3>1
      <4>2. Keep \in 0 .. Len(segs)
        BY <1>f, <2>2
      <4> QED BY <1>f, <4>1, <4>2, PrefixType
    <3>2. CASE ~(Len(segs) > Keep)
      <4>1. segs' = segs /\ Len(segs) = Keep
        BY <1>f, <1>g, <2>1, <2>2, <3>2
      <4> QED BY <4>1
    <3> QED BY <3>1, <3>2
  <2>4. SegValid(Len(segs))'
    BY <2>2, <2>3 DEF SegValid
  <2>5. Keep' = Keep /\ Keep \in Nat /\ Len(segs') >= Keep'
    BY <1>g, <2>1, <2>3 DEF Keep
  <2> QED BY <1>g, <2>1, <2>3, <2>4, <2>5 DEF KillSegs
<1>4. CASE ReconcileSlow
  <2>1. ~sideHere /\ SlowRefuse
    BY <1>4, <1>s
  <2>2. segs' = <<>> /\ Len(segs') = 0 /\ ~sideHere' /\ pc' = "idle"
    BY <2>1 DEF SlowRefuse, Refuse, Idle
  <2> QED BY <2>2 DEF KillSegs, SegValid, Live
<1>5. CASE StoreKnown \/ StoreNew \/ EmitSync \/ Record \/ CloseStore \/ FlushIndex
  <2>1. /\ UNCHANGED <<segs, ckpt, sideHere, manifest, ckptSeq>> /\ Live
        /\ pc # "checkpoint" /\ pc' # "checkpoint"
    BY Zenon, <1>5 DEF StoreKnown, StoreNew, EmitSync, Record, CloseStore, FlushIndex, Live
  <2> QED BY <1>k, <2>1
<1>6. CASE SaveManifest
  <2>1. UNCHANGED <<segs, ckpt>> /\ sideHere' = FALSE /\ ~Live'
    BY <1>6 DEF SaveManifest, Live
  <2> QED BY Zenon, <1>k, <2>1
<1>7. CASE EmitSegment
  <2> DEFINE x == [ok |-> TRUE, seq |-> ckptSeq, bytes |-> SubSeq(side, prevLen + 1, Len(side)),
                   inserts |-> pending]
  <2>1. segs' = Append(segs, x) /\ pc = "segment" /\ pc' = "checkpoint"
        /\ UNCHANGED <<ckpt, sideHere, manifest, ckptSeq>>
    BY <1>7 DEF EmitSegment
  <2>2. x.ok /\ x.seq = ckptSeq
    OBVIOUS
  <2> HIDE DEF x
  <2>3. Len(segs) = ckptSeq
    BY <1>1, <2>1 DEF Live
  <2>4. Len(segs') = Len(segs) + 1 /\ segs'[Len(segs) + 1] = x /\ \A i \in 1 .. Len(segs) : segs'[i] = segs[i]
    BY <1>f, <2>1
  <2>5. SegValid(Len(segs))'
    <3>1. SUFFICES ASSUME NEW i \in 1 .. Len(segs) + 1 PROVE segs'[i].ok /\ segs'[i].seq = i - 1
      BY <2>4 DEF SegValid
    <3>2. CASE i \in 1 .. Len(segs)
      BY <1>1, <2>4, <3>2 DEF SegValid
    <3>3. CASE i = Len(segs) + 1
      BY <1>f, <2>2, <2>3, <2>4, <3>3
    <3> QED BY <1>f, <3>2, <3>3
  <2>6. (ckpt'.here /\ sideHere' /\ manifest' = <<>>) => Len(segs') >= Keep'
    BY <1>1, <1>f, <1>g, <2>1, <2>4 DEF Keep
  <2> QED BY Zenon, <2>1, <2>3, <2>4, <2>5, <2>6 DEF KillSegs
<1>8. CASE EmitCheckpoint
  <2>1. /\ pc = "checkpoint" /\ pc' = "record" /\ ckptSeq' = ckptSeq + 1 /\ segs' = segs
        /\ ckpt' = [here |-> TRUE, seq |-> ckptSeq, len |-> Len(side), resume |-> pos]
    BY Zenon, <1>8 DEF EmitCheckpoint
  <2>2. Len(segs) = ckptSeq + 1
    BY <1>1, <2>1 DEF Live
  <2>3. Keep' = ckptSeq + 1
    BY <2>1 DEF Keep
  <2>4. Len(segs') >= Keep'
    BY <1>f, <2>1, <2>2, <2>3
  <2>5. SegValid(Len(segs))'
    BY Zenon, <1>1, <2>1 DEF SegValid
  <2> QED BY <2>1, <2>2, <2>4, <2>5 DEF KillSegs
<1>9. CASE RemoveCheckpoint
  <2>1. segs' = <<>> /\ Len(segs') = 0 /\ pc' = "done" /\ ~ckpt'.here
    BY <1>9 DEF RemoveCheckpoint, NoCkpt
  <2> QED BY <2>1 DEF KillSegs, SegValid, Live
<1>10. CASE Stopped
  <2>1. UNCHANGED <<ckpt, manifest>> /\ ~Live'
    BY <1>10, StoppedFacts DEF Live
  <2>2. segs' = segs
    BY Zenon, <1>10 DEF Stopped, Kill, PowerLoss, Interrupt, Fail
  <2>3. sideHere' = sideHere \/ sideHere' = FALSE
    BY Zenon, <1>10 DEF Stopped, Kill, PowerLoss, Interrupt, Fail, DropSidecar
  <2> QED BY Zenon, <1>k, <2>1, <2>2, <2>3
<1>11. CASE UNCHANGED vars
  <2>1. UNCHANGED <<segs, ckpt, sideHere, manifest, pc, ckptSeq>>
    BY <1>11 DEF vars
  <2> QED BY Zenon, <1>1, <2>1 DEF KillSegs, SegValid, Keep, Live
<1> QED BY <1>2, <1>3, <1>4, <1>5, <1>6, <1>7, <1>8, <1>9, <1>10, <1>11
        DEF Stopped, Next, Step, Resume, Emit

\* Every step preserves KillInv.
LEMMA KillStep ==
  ASSUME IInv, KillInv, [Next]_vars
  PROVE  KillInv'
<1>w. world' = world
  BY Frame
<1> SUFFICES ASSUME world.kill, ~world.tornSegment
    PROVE  KillSegs' /\ (Dead' \/ \A e \in index' : Sealed(e)')
  BY <1>w DEF KillInv, KillSegs
<1>1. KillSegs /\ (Dead \/ \A e \in index : Sealed(e))
  BY DEF KillInv, KillSegs
<1>2. KillSegs' /\ (ReconcileSlow => ~sideHere /\ SlowRefuse)
  BY <1>1, KillSegsStep
<1>3. TypeOK /\ RunInv /\ index \subseteq Entry /\ session \subseteq Entry /\ TSegs /\ TCkpt
  BY LoopFields DEF IInv
<1>4. \A e \in Entry : Sealed(e) => Sealed(e)'
  BY <1>3, RunPackAt, PacksStep
<1>5. CASE ReconcileSlow
  <2>1. Dead'
    BY <1>2, <1>5 DEF SlowRefuse, Refuse, Idle, Dead, sidecar
  <2> QED BY <1>2, <2>1
<1>6. CASE Dead /\ ~ReconcileSlow
  <2>1. ~FastPath
    BY <1>6 DEF FastPath, Dead
  <2>2. UNCHANGED vars
    BY Zenon, <1>6, <2>1 DEF Dead, Next, Step, Resume, Emit, Start, ReconcileFast, StoreKnown,
       StoreNew,
      EmitSync, EmitSegment, EmitCheckpoint, Record, CloseStore, FlushIndex, SaveManifest,
      RemoveCheckpoint, Kill, PowerLoss, Interrupt, Fail, Stop, Running
  <2> QED BY <1>2, <1>6, <2>2 DEF Dead, vars, sidecar, resumables
<1>7. CASE UNCHANGED index /\ \A e \in index : Sealed(e)
  BY <1>2, <1>3, <1>4, <1>7
<1>8. CASE FlushIndex /\ \A e \in index : Sealed(e)
  <2>1. index' = Merge(index, session) /\ pc = "flush" /\ Live
    BY <1>8 DEF FlushIndex, Live
  <2>2. index' \subseteq index \cup session
    BY <2>1, MergeFacts
  <2>3. \A e \in session : Sealed(e)
    BY <1>3, <2>1 DEF RunInv, RunFrames
  <2> QED BY <1>2, <1>3, <1>4, <1>8, <2>2, <2>3
<1> QED BY <1>1, <1>5, <1>6, <1>7, <1>8, Frame

\* What SavedIsWhole needs beside IInv.
FullInv == IInv /\ NoKillInv /\ KillInv

\* The initial states satisfy it.
LEMMA FullInit == Init => FullInv
<1> SUFFICES ASSUME Init PROVE FullInv
  OBVIOUS
<1>1. IInv
  BY InvInit
<1>2. pc = "idle" /\ manifest = <<>> /\ ckpt.here = FALSE /\ segs = <<>>
  BY DEF Init, NoCkpt
<1>3. \A e \in index : Sealed(e)
  BY <1>1, <1>2 DEF IInv, IndexInv, FastRegime
<1>4. \A p \in 1 .. Len(packs) : synced[p] = Len(packs[p])
  <2>1. CASE Earlier = <<>>
    BY <2>1 DEF Init
  <2>2. CASE Earlier # <<>>
    <3>1. packs = <<Earlier>> /\ synced = <<Len(Earlier)>>
      BY <2>2 DEF Init
    <3> QED BY <3>1
  <2> QED BY <2>1, <2>2
<1>5. NoKillInv
  BY <1>2, <1>3, <1>4 DEF NoKillInv, Running
<1>6. KillInv
  BY <1>2, <1>3 DEF KillInv, SegValid, Live
<1> QED BY <1>1, <1>5, <1>6 DEF FullInv

\* FullInv holds in every state.
THEOREM FullInvariance == Spec => []FullInv
<1>1. FullInv /\ [Next]_vars => FullInv'
  BY InvStep, NoKillStep, KillStep DEF FullInv
<1> QED BY <1>1, FullInit, PTL DEF Spec

\* What is saved is the whole source in order, and the index leads from every
\* chunk of it to a frame of that chunk (BackupResume), in worlds that do not both
\* kill the process and tear a segment.
THEOREM SavedWhole ==
  ASSUME \A w \in Worlds : ~(w.kill /\ w.tornSegment)
  PROVE  Spec => []SavedIsWhole
<1>1. FullInv => SavedIsWhole
  <2> SUFFICES ASSUME FullInv, manifest # <<>>
               PROVE  manifest = Source /\ \A i \in 1 .. N : \E e \in index : e.h = Source[i] /\ Holds(e)
    BY DEF SavedIsWhole
  <2>1. manifest = Source /\ Covered(N, index)
    BY DEF FullInv, IInv, SavedInv
  <2>2. world \in Worlds
    BY DEF FullInv, IInv, TypeOK
  <2>3. ~(world.kill /\ world.tornSegment)
    BY <2>2
  <2>4. \A e \in index : Sealed(e)
    <3>1. ~Dead
      BY DEF Dead
    <3> QED BY <2>3, <3>1 DEF FullInv, NoKillInv, KillInv
  <2> QED BY <2>1, <2>4 DEF Covered, Hashes, Sealed
<1> QED BY <1>1, FullInvariance, PTL
=============================================================================
