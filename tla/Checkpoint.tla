----------------------------- MODULE Checkpoint -----------------------------
(***************************************************************************)
(* One resumable backup: the store loop that writes a checkpoint at every  *)
(* pack seal, the ways it stops (killed, power lost, interrupted, failed), *)
(* and resume.Reconcile, which decides how the next run continues it.      *)
(*                                                                         *)
(* A chunk is its hash.  Pack file n is packs[n + 1], the sequence of the  *)
(* hashes of its frames; the first synced[n + 1] of them have been         *)
(* fsynced.  The entries sidecar is the sequence of the hashes recorded,   *)
(* of which sideSynced are fsynced.  What a file holds beyond that survives*)
(* a killed process and may be lost with the power.                        *)
(***************************************************************************)
EXTENDS Naturals, Sequences

CONSTANTS
    Source,          \* the chunks of the source, in stream order
    Earlier,         \* the frames of an earlier backup, in pack 0
    PackFrames,      \* frames that fill a pack (PackFileMaxSize)
    MaxStops,        \* bound: times the backup is stopped
    Worlds           \* the repositories and the faults considered

\* managed: encryption is managed (then index.Rebuild refuses); kill: the
\* process may be killed; tornSegment, tornPack: a power loss may tear the
\* segment being appended, the frame being written; early: a resumed run may be
\* interrupted before its first seal; fail: a step may return an error.
World == [managed : BOOLEAN, kill : BOOLEAN, tornSegment : BOOLEAN,
          tornPack : BOOLEAN, early : BOOLEAN, fail : BOOLEAN]

N == Len(Source)
Hash == {Source[i] : i \in 1 .. N} \cup {Earlier[i] : i \in 1 .. Len(Earlier)}

ASSUME CheckpointAssumption ==
    /\ Source \in Seq(Hash) /\ Earlier \in Seq(Hash)
    /\ N > 0 /\ PackFrames \in Nat \ {0} /\ MaxStops \in Nat
    /\ Len(Earlier) <= PackFrames
    /\ Worlds \subseteq World

VARIABLES
    packs, synced, torn,          \* torn: [pack, at] of a half-written frame
    index,                        \* the durable index: entries [h, pack, off]
    side, sideHere, sideSynced,   \* the entries sidecar
    segs, ckpt, manifest,         \* segments file, checkpoint, saved manifest
    pc, pos, session,             \* the run: its place, next chunk, inserts
    pack, curPack,                \* pack being appended to, pack of last seal
    cur,                          \* index entry of the frame just stored
    pending, ckptSeq, prevLen, wrote,  \* the loop's checkpoint bookkeeping
    world, stops                  \* the world this is; times stopped

env        == <<world, stops>>
packfiles  == <<packs, synced, torn>>
sidecar    == <<side, sideHere, sideSynced>>
resumables == <<segs, ckpt>>
loop       == <<pos, session, pack, curPack, cur, pending, ckptSeq, prevLen,
                wrote>>
vars == <<packfiles, index, sidecar, resumables, manifest, pc, loop, env>>

Hashes(S)      == {e.h : e \in S}
Inserts(sg)    == UNION {sg[i].inserts : i \in 1 .. Len(sg)}
Merge(old, new) == new \cup {e \in old : e.h \notin Hashes(new)}
NoCkpt == [here |-> FALSE, seq |-> 0, len |-> 0, resume |-> 0]
NoCur  == [h |-> Source[1], pack |-> 0, off |-> 0]
Torn   == [ok |-> FALSE, seq |-> 0, bytes |-> <<>>, inserts |-> {}]
Bytes(sg) ==
    LET upTo[k \in 0 .. Len(sg)] == IF k = 0 THEN <<>> ELSE upTo[k - 1] \o sg[k].bytes
    IN  upTo[Len(sg)]

Entry == [h : Hash, pack : 1 .. Len(packs), off : 1 .. PackFrames]
Holds(e)  == e.pack <= Len(packs) /\ e.off <= Len(packs[e.pack])
               /\ packs[e.pack][e.off] = e.h
Sealed(e) == Holds(e) /\ e.off <= synced[e.pack]
\* Every frame of packs, as an index entry.
Frames == {e \in Entry : Holds(e)}
Before(e, f) == e.pack < f.pack \/ (e.pack = f.pack /\ e.off < f.off)
\* Streamed in order, a later frame of a hash replaces an earlier one.
LastOfEach(S) == {e \in S : ~ \E f \in S : f.h = e.h /\ Before(e, f)}

Init ==
    /\ packs = IF Earlier = <<>> THEN <<>> ELSE <<Earlier>>
    /\ synced = IF Earlier = <<>> THEN <<>> ELSE <<Len(Earlier)>>
    /\ torn = {} /\ index = LastOfEach(Frames)
    /\ side = <<>> /\ sideHere = FALSE /\ sideSynced = 0
    /\ segs = <<>> /\ ckpt = NoCkpt /\ manifest = <<>>
    /\ pc = "idle" /\ pos = 1 /\ session = {} /\ pack = 1 /\ curPack = 1
    /\ cur = NoCur /\ pending = {} /\ ckptSeq = 0 /\ prevLen = 0
    /\ wrote = FALSE /\ world \in Worlds /\ stops = 0

Idle == pc = "idle" /\ manifest = <<>>

-----------------------------------------------------------------------------
(* Starting and resuming *)

\* Altered: begins anew although there is a checkpoint.
StartAnew ==
    /\ Idle
    /\ pc' = "loop" /\ pos' = 1 /\ session' = {}
    /\ pack' = IF packs = <<>> THEN 1 ELSE Len(packs)
    /\ curPack' = 1
    /\ side' = <<>> /\ sideHere' = TRUE /\ sideSynced' = 0
    /\ pending' = {} /\ ckptSeq' = 0 /\ prevLen' = 0 /\ wrote' = FALSE
    /\ cur' = NoCur /\ segs' = <<>>
    /\ UNCHANGED <<packfiles, index, ckpt, manifest, env>>

\* A fresh backup has a new BackupID, so files of its own, and appends to the
\* latest pack.
Start ==
    /\ Idle /\ ~ckpt.here
    /\ pc' = "loop" /\ pos' = 1 /\ session' = {}
    /\ pack' = IF packs = <<>> THEN 1 ELSE Len(packs)
    /\ curPack' = 1
    /\ side' = <<>> /\ sideHere' = TRUE /\ sideSynced' = 0
    /\ pending' = {} /\ ckptSeq' = 0 /\ prevLen' = 0 /\ wrote' = FALSE
    /\ cur' = NoCur /\ segs' = <<>>
    /\ UNCHANGED <<packfiles, index, ckpt, manifest, env>>

\* ParseSegments: up to the first torn segment or gap in the numbering.
ParseSegments ==
    LET Valid(k) == \A i \in 1 .. k : segs[i].ok /\ segs[i].seq = i - 1
        n == CHOOSE k \in 0 .. Len(segs) :
                /\ Valid(k)
                /\ \A j \in k + 1 .. Len(segs) : ~Valid(j)
    IN SubSeq(segs, 1, n)

Keep == ckpt.seq + 1
Covering == SubSeq(ParseSegments, 1, Keep)
FastPath ==
    /\ Len(ParseSegments) >= Keep
    /\ Len(Bytes(Covering)) >= ckpt.len
    /\ sideHere /\ Len(side) >= ckpt.len
    /\ SubSeq(side, 1, ckpt.len) = SubSeq(Bytes(Covering), 1, ckpt.len)

\* ReplaySegments stops adding inserts once the prefix is covered.
Replayed ==
    Inserts(SubSeq(Covering, 1,
        CHOOSE k \in 0 .. Keep :
            /\ Len(Bytes(SubSeq(Covering, 1, k))) >= ckpt.len
            /\ \A j \in 0 .. k - 1 :
                  Len(Bytes(SubSeq(Covering, 1, j))) < ckpt.len))

\* Altered: the sidecar is appended to without cutting its tail.
ContinueKeepsTail(preload) ==
    /\ pc' = "loop" /\ pos' = ckpt.resume /\ session' = preload
    /\ pack' = Len(packs) + 1 /\ curPack' = Len(packs) + 1
    /\ ckptSeq' = ckpt.seq + 1 /\ prevLen' = ckpt.len
    /\ cur' = NoCur /\ pending' = {} /\ wrote' = FALSE
    /\ UNCHANGED <<packfiles, sidecar, ckpt, manifest, env>>

\* BackupResume: cut the sidecar back to the checkpoint, continue in a pack of
\* its own.
Continue(preload) ==
    /\ pc' = "loop" /\ pos' = ckpt.resume /\ session' = preload
    /\ side' = SubSeq(side, 1, ckpt.len) /\ sideSynced' = ckpt.len
    /\ pack' = Len(packs) + 1 /\ curPack' = Len(packs) + 1
    /\ ckptSeq' = ckpt.seq + 1 /\ prevLen' = ckpt.len
    /\ cur' = NoCur /\ pending' = {} /\ wrote' = FALSE
    /\ UNCHANGED <<packfiles, sideHere, ckpt, manifest, env>>

Refuse ==
    UNCHANGED <<packfiles, sidecar, ckpt, manifest, pc, loop, env>>

ReconcileFast ==
    /\ Idle /\ ckpt.here /\ FastPath
    /\ segs' = IF Len(ParseSegments) > Keep THEN SubSeq(segs, 1, Keep) ELSE segs
    /\ Continue(Replayed)
    /\ UNCHANGED index

PrefixPresent ==
    \A i \in 1 .. ckpt.len : side[i] \in Hashes(LastOfEach(Frames))

\* Not the fast path: the segments are removed and the index rebuilt from the
\* packs; a managed repository refuses that, and a half-written frame ends it.
ReconcileSlow ==
    /\ Idle /\ ckpt.here /\ ~FastPath
    /\ segs' = <<>>
    /\ \/ world.managed /\ UNCHANGED index /\ Refuse
       \/ /\ ~world.managed /\ torn # {}
          /\ \E t \in torn :
                /\ \A u \in torn : t.pack <= u.pack
                /\ index' = LastOfEach({e \in Frames : \/ e.pack < t.pack
                                                       \/ e.pack = t.pack /\ e.off <= t.at})
          /\ Refuse
       \/ /\ ~world.managed /\ torn = {}
          /\ index' = LastOfEach(Frames)
          /\ IF sideHere /\ Len(side) >= ckpt.len /\ PrefixPresent
             THEN Continue({}) ELSE Refuse

-----------------------------------------------------------------------------
(* The store loop *)

Known(h) == h \in Hashes(index \cup session)
\* Altered: one frame too many.
OverFull(p) == p <= Len(packs) /\ Len(packs[p]) > PackFrames
Full(p)  == p <= Len(packs) /\ Len(packs[p]) >= PackFrames

StoreKnown ==
    /\ pc = "loop" /\ pos <= N /\ Known(Source[pos])
    /\ side' = Append(side, Source[pos]) /\ pos' = pos + 1
    /\ UNCHANGED <<packfiles, index, sideHere, sideSynced, resumables, manifest,
                   pc, session, pack, curPack, cur, pending, ckptSeq, prevLen,
                   wrote, env>>

\* StoreRaw: rotatePack syncs the full pack, then the frame is written.
StoreNew ==
    LET p == IF Full(pack) THEN pack + 1 ELSE pack IN
    /\ pc = "loop" /\ pos <= N /\ ~Known(Source[pos])
    /\ pack' = p
    /\ packs' = IF p > Len(packs) THEN Append(packs, <<Source[pos]>>)
                ELSE [packs EXCEPT ![p] = Append(@, Source[pos])]
    /\ synced' = LET s == IF p # pack THEN [synced EXCEPT ![pack] = PackFrames]
                          ELSE synced
                 IN IF p > Len(packs) THEN Append(s, 0) ELSE s
    /\ cur' = [h |-> Source[pos], pack |-> p, off |-> Len(packs'[p])]
    /\ pc' = IF p > curPack THEN "sync" ELSE "record"
    /\ UNCHANGED <<torn, index, sidecar, resumables, manifest, pos, session,
                   curPack, pending, ckptSeq, prevLen, wrote, env>>

\* Altered: the sidecar is flushed and not synced.
EmitWithoutSync ==
    /\ pc = "sync" /\ pc' = "segment"
    /\ UNCHANGED <<packfiles, index, sidecar, resumables, manifest, loop, env>>

EmitSync ==
    /\ pc = "sync"
    /\ sideSynced' = Len(side) /\ pc' = "segment"
    /\ UNCHANGED <<packfiles, index, side, sideHere, resumables, manifest, loop,
                   env>>

\* AppendSegmentLocal: the sidecar bytes and inserts since the last one.
EmitSegment ==
    /\ pc = "segment"
    /\ segs' = Append(segs, [ok |-> TRUE, seq |-> ckptSeq,
                             bytes |-> SubSeq(side, prevLen + 1, Len(side)),
                             inserts |-> pending])
    /\ pc' = "checkpoint"
    /\ UNCHANGED <<packfiles, index, sidecar, ckpt, manifest, loop, env>>

EmitCheckpoint ==
    /\ pc = "checkpoint"
    /\ ckpt' = [here |-> TRUE, seq |-> ckptSeq, len |-> Len(side), resume |-> pos]
    /\ wrote' = TRUE /\ curPack' = pack /\ ckptSeq' = ckptSeq + 1
    /\ prevLen' = Len(side) /\ pending' = {} /\ pc' = "record"
    /\ UNCHANGED <<packfiles, index, sidecar, segs, manifest, pos, session, pack,
                   cur, env>>

Record ==
    /\ pc = "record"
    /\ session' = Merge(session, {cur}) /\ pending' = pending \cup {cur}
    /\ side' = Append(side, cur.h) /\ pos' = pos + 1 /\ pc' = "loop"
    /\ UNCHANGED <<packfiles, index, sideHere, sideSynced, resumables, manifest,
                   pack, curPack, cur, ckptSeq, prevLen, wrote, env>>

\* chunkStore.Close: sync the pack this run wrote, if it wrote one.
SyncedAtClose ==
    IF cur.pack = pack
    THEN [synced EXCEPT ![pack] = Len(packs[pack])] ELSE synced

\* Altered: the last pack is closed without a sync.
CloseUnsynced ==
    /\ pc = "loop" /\ pos > N /\ pc' = "flush"
    /\ UNCHANGED <<packfiles, index, sidecar, resumables, manifest, loop, env>>

CloseStore ==
    /\ pc = "loop" /\ pos > N
    /\ synced' = SyncedAtClose /\ pc' = "flush"
    /\ UNCHANGED <<packs, torn, index, sidecar, resumables, manifest, loop, env>>

FlushIndex ==
    /\ pc = "flush"
    /\ index' = Merge(index, session) /\ pc' = "save"
    /\ UNCHANGED <<packfiles, sidecar, resumables, manifest, loop, env>>

\* Save embeds the sidecar and deletes it.
SaveManifest ==
    /\ pc = "save"
    /\ manifest' = side /\ side' = <<>> /\ sideHere' = FALSE /\ sideSynced' = 0
    /\ pc' = "saved"
    /\ UNCHANGED <<packfiles, index, resumables, loop, env>>

RemoveCheckpoint ==
    /\ pc = "saved"
    /\ ckpt' = NoCkpt /\ segs' = <<>> /\ pc' = "done"
    /\ UNCHANGED <<packfiles, index, sidecar, manifest, loop, env>>

-----------------------------------------------------------------------------
(* Stopping *)

Running == pc \notin {"idle", "done"}
Stop ==
    /\ Running /\ stops < MaxStops /\ pc' = "idle"
    /\ stops' = stops + 1 /\ UNCHANGED world

\* The process is killed: every write so far is in the file, synced or not; of
\* the sidecar's write buffer, any part.
Kill ==
    /\ world.kill /\ Stop
    /\ \E k \in sideSynced .. Len(side) : side' = SubSeq(side, 1, k)
    /\ UNCHANGED <<packfiles, index, sideHere, sideSynced, resumables, manifest,
                   loop>>

\* Unsynced tails are lost from where the power went; packs other than the
\* last of this run may hold unsynced frames too.
PowerLoss ==
    /\ Stop
    /\ \E keep \in [1 .. Len(packs) -> 0 .. PackFrames] :
          /\ \A p \in 1 .. Len(packs) : keep[p] \in synced[p] .. Len(packs[p])
          /\ packs' = [p \in 1 .. Len(packs) |-> SubSeq(packs[p], 1, keep[p])]
          /\ synced' = [p \in 1 .. Len(packs) |-> keep[p]]
          /\ torn' \in {torn} \cup
               {torn \cup {[pack |-> p, at |-> keep[p]]} :
                   p \in {q \in 1 .. Len(packs) :
                            world.tornPack /\ keep[q] < Len(packs[q])}}
    /\ \E k \in sideSynced .. Len(side) :
          side' = SubSeq(side, 1, k) /\ sideSynced' = k
    /\ segs' \in {segs} \cup
         (IF world.tornSegment /\ pc = "segment" THEN {Append(segs, Torn)} ELSE {})
    /\ UNCHANGED <<index, sideHere, ckpt, manifest, loop>>

\* The deferred cleanups of run after an error.
DropSidecar ==
    /\ side' = <<>> /\ sideHere' = FALSE /\ sideSynced' = 0
    /\ synced' = SyncedAtClose

\* Altered: an interrupted backup has failed, checkpoint or not.
InterruptFails ==
    /\ pc = "loop" /\ Stop
    /\ ckpt.here /\ ~wrote => world.early
    /\ DropSidecar
    /\ UNCHANGED <<packs, torn, index, resumables, manifest, loop>>

\* SIGINT, seen between two chunks: with a checkpoint written by this run the
\* backup is suspended, otherwise it has failed.
Interrupt ==
    /\ pc = "loop" /\ Stop
    /\ ckpt.here /\ ~wrote => world.early
    /\ IF wrote THEN synced' = SyncedAtClose /\ UNCHANGED sidecar
       ELSE DropSidecar
    /\ UNCHANGED <<packs, torn, index, resumables, manifest, loop>>

Fail ==
    /\ world.fail /\ Stop /\ pc # "saved"
    /\ DropSidecar
    /\ UNCHANGED <<packs, torn, index, resumables, manifest, loop>>

-----------------------------------------------------------------------------

Resume == ReconcileFast \/ ReconcileSlow
Emit == EmitSync \/ EmitSegment \/ EmitCheckpoint
Step ==
    \/ Start \/ Resume
    \/ StoreKnown \/ StoreNew \/ Emit \/ Record
    \/ CloseStore \/ FlushIndex \/ SaveManifest \/ RemoveCheckpoint
Next == Step \/ Kill \/ PowerLoss \/ Interrupt \/ Fail

Spec == Init /\ [][Next]_vars
\* The program runs, and is run again, until the backup is done.
FairSpec == Spec /\ WF_vars(Step)

-----------------------------------------------------------------------------
(* Properties *)

\* The type of every variable; no pack is over-filled, none synced beyond its
\* end, and a checkpoint's resume point lies in the source.
TypeOK ==
    /\ packs \in Seq(Seq(Hash)) /\ synced \in Seq(Nat) /\ Len(synced) = Len(packs)
    /\ \A p \in 1 .. Len(packs) : /\ Len(packs[p]) <= PackFrames
                                   /\ synced[p] \in 0 .. Len(packs[p])
    /\ torn \subseteq [pack : 1 .. Len(packs), at : 0 .. PackFrames]
    /\ index \cup session \cup pending \subseteq Entry
    /\ side \in Seq(Hash) /\ manifest \in Seq(Hash)
    /\ sideHere \in BOOLEAN /\ sideSynced \in 0 .. Len(side)
    /\ segs \in Seq([ok : BOOLEAN, seq : Nat, bytes : Seq(Hash),
                     inserts : SUBSET Entry])
    /\ ckpt \in [here : BOOLEAN, seq : Nat, len : 0 .. N, resume : 0 .. N]
    /\ pc \in {"idle", "loop", "sync", "segment", "checkpoint", "record",
               "flush", "save", "saved", "done"}
    /\ pos \in 1 .. N + 1 /\ cur \in Entry \cup {NoCur}
    /\ pack \in 1 .. Len(packs) + 1 /\ curPack \in 1 .. Len(packs) + 1
    /\ ckptSeq \in Nat /\ prevLen \in 0 .. N /\ wrote \in BOOLEAN
    /\ world \in Worlds /\ stops \in 0 .. MaxStops

\* "so the checkpoint lags the durable seal" (pipeline.go), "so a valid
\* checkpoint always has its covering segments durable" (segment.go): at every
\* moment at which the power may go, the sidecar of a checkpoint holds in
\* fsynced bytes exactly the source before the resume point, and every insert
\* of a segment names a frame that is on disk for good.
CheckpointLagsSeal ==
    /\ ckpt.here /\ sideHere =>
          /\ sideSynced >= ckpt.len
          /\ SubSeq(side, 1, ckpt.len) = SubSeq(Source, 1, ckpt.resume - 1)
    /\ \A e \in Inserts(segs) : Sealed(e)

\* BackupResume: "The completed restore is byte-identical to an uninterrupted
\* backup of the same source": however often the backup was stopped, and
\* whichever way it was resumed, what is saved is the whole source in order,
\* and the durable index leads from every chunk of it to a frame of that chunk.
SavedIsWhole ==
    manifest # <<>> =>
        /\ manifest = Source
        /\ \A i \in 1 .. N :
              \E e \in index : e.h = Source[i] /\ Holds(e)

\* No step, and no stop, moves the resume point of a backup backwards: the work
\* a checkpoint covers is never done again.
ResumePointAdvances ==
    [][ckpt.here /\ ckpt'.here => ckpt'.resume >= ckpt.resume]_vars

\* "SUSPENDED, not failed: preserve its sealed packs and entries sidecar so
\* re-running resumes from the checkpoint" (pipeline.go): a backup killed,
\* interrupted after a seal or cut by power losses finitely often is completed by
\* running it again, where no write is torn and no step returns an error.
Completes ==
    ~(world.tornSegment \/ world.tornPack \/ world.early \/ world.fail)
        => <>(manifest # <<>>)

\* "a FAILED backup must not durably record inserts referencing chunks in a
\* pack that was never sealed" (pipeline.go): the index on disk of a managed
\* repository, which has no slow path, names only frames that were fsynced,
\* however its backup is stopped and resumed.
ManagedIndexSealed == world.managed => \A e \in index : Sealed(e)

\* segment.go: "a valid checkpoint always has its covering segments durable".
CheckpointCovered ==
    ckpt.here /\ manifest = <<>> => Len(ParseSegments) >= Keep
=============================================================================
