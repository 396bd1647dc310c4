-------------------------------- MODULE Repo --------------------------------
(***************************************************************************)
(* A local repository on disk and the commands that change it: backup,     *)
(* resume, forget, index rebuild and prune, with a crash possible between  *)
(* any two file-system steps of a command.                                 *)
(*                                                                         *)
(* A pack directory is an append-only log of frames.  A frame, and an      *)
(* index entry, is a record [loc, h]: "the chunk with hash h is at loc",   *)
(* where loc stands for (pack number, offset).  A directory is a record    *)
(* whose field here says whether it exists, so a rename is an assignment.  *)
(* The caller runs one command at a time (the engine takes no lock); pc is *)
(* the point the command has reached, and is "idle" between commands.      *)
(***************************************************************************)
EXTENDS Naturals, FiniteSets

CONSTANTS
    Hash,         \* chunk hashes
    MaxFrames,    \* bound: frames one pack directory ever holds
    MaxManifests, \* bound: backups kept at once
    MaxGens,      \* bound: pack-layout generations issued
    MaxCrashes    \* bound: commands that die or fail

ASSUME BoundsAssumption ==
    /\ MaxFrames \in Nat
    /\ MaxManifests \in Nat
    /\ MaxGens \in Nat
    /\ MaxCrashes \in Nat

VARIABLES
    chunks, index,         \* <repo>/chunks and <repo>/index
    oldChunks, oldIndex,   \* chunks.prune-old and index.prune-old
    staging,               \* does .prune-staging exist?
    stChunks, stIndex,     \* .prune-staging/chunks and .prune-staging/index
    manifests,             \* the set of saved backups, each its set of hashes
    ckpt,                  \* the checkpoint of a suspended backup
    pc,                    \* what the running command does next
    session,               \* backup: index inserts not yet flushed
    entries,               \* backup: hashes written to the entries sidecar
    plan,                  \* prune: the index entries to be kept
    gens,                  \* generations issued so far; 0 is "no .generation"
    crashes

disk == <<chunks, index, oldChunks, oldIndex, staging, stChunks, stIndex,
          manifests, ckpt>>
mem  == <<session, entries, plan>>
vars == <<disk, pc, mem, gens, crashes>>

Loc == Nat \ {0}
Rec == [loc : Loc, h : Hash]

ChunkDir == [here : BOOLEAN, gen : Nat, end : Nat, recs : SUBSET Rec]
IndexDir == [here : BOOLEAN, recs : SUBSET Rec]

NoChunks    == [here |-> FALSE, gen |-> 0, end |-> 0, recs |-> {}]
EmptyChunks == [here |-> TRUE,  gen |-> 0, end |-> 0, recs |-> {}]
NoIndex     == [here |-> FALSE, recs |-> {}]
IndexOf(rs) == [here |-> TRUE, recs |-> rs]

NoCkpt == [here |-> FALSE, gen |-> 0, entries |-> {}, inserts |-> {}]
Ckpt   == [here : BOOLEAN, gen : Nat, entries : SUBSET Hash,
           inserts : SUBSET Rec]

BackupPC  == {"store", "save"}
RecoverPC == {"recover", "rollIndex", "dropIndex", "instIndex", "dropOld",
              "tidyIndex", "tidyStaging"}
SwapPC    == {"scan", "rewrite", "stamp", "aside", "chunksIn", "indexAside",
              "indexIn", "rmOldChunks", "rmOldIndex", "rmStaging"}
RollPC    == {"undoIndex", "undoChunksIn", "undoAside"}
PC        == {"idle"} \cup BackupPC \cup RecoverPC \cup SwapPC \cup RollPC

HashesOf(rs) == {r.h : r \in rs}

\* HashIndex.Flush: an entry of the session replaces the entry of its hash.
Merge(rs, new) == {r \in rs : r.h \notin HashesOf(new)} \cup new

\* Rebuild streams the packs in order and inserts every frame: the last
\* frame of a hash is the one its entry points to.
Latest(rs) == {r \in rs : \A q \in rs : q.h = r.h => q.loc <= r.loc}

\* os.MkdirAll in newChunkStore and NewDedupIndex.
MadeChunks == IF chunks.here THEN chunks ELSE EmptyChunks
MadeIndex  == IF index.here THEN index ELSE IndexOf({})

PruneRecoveryPending == staging \/ oldChunks.here \/ oldIndex.here

Init ==
    /\ chunks = EmptyChunks /\ index = IndexOf({})
    /\ oldChunks = NoChunks /\ oldIndex = NoIndex
    /\ staging = FALSE /\ stChunks = NoChunks /\ stIndex = NoIndex
    /\ manifests = {} /\ ckpt = NoCkpt
    /\ pc = "idle" /\ session = {} /\ entries = {} /\ plan = {}
    /\ gens = 0 /\ crashes = 0

-----------------------------------------------------------------------------
(* Backup *)

BackupOpen ==
    /\ pc = "idle"
    /\ Cardinality(manifests) < MaxManifests
    /\ pc' = "store" /\ session' = {} /\ entries' = {}
    /\ chunks' = MadeChunks /\ index' = MadeIndex
    /\ UNCHANGED <<oldChunks, oldIndex, staging, stChunks, stIndex,
                   manifests, ckpt, plan, gens, crashes>>

\* One turn of the store loop: a chunk the index knows is only recorded, a
\* new one is appended to the packs and inserted into the session's index.
BackupChunk(h) ==
    /\ pc = "store"
    /\ h \notin entries
    /\ entries' = entries \cup {h}
    /\ \/ /\ h \in HashesOf(index.recs \cup session)
          /\ UNCHANGED <<chunks, session>>
       \/ /\ h \notin HashesOf(index.recs \cup session)
          /\ chunks.end < MaxFrames
          /\ LET r == [loc |-> chunks.end + 1, h |-> h]
             IN  /\ chunks' = [chunks EXCEPT !.end = @ + 1,
                                             !.recs = @ \cup {r}]
                 /\ session' = session \cup {r}
    /\ UNCHANGED <<index, oldChunks, oldIndex, staging, stChunks, stIndex,
                   manifests, ckpt, pc, plan, gens, crashes>>

\* A pack seal: the prefix written so far becomes resumable.
BackupCheckpoint ==
    /\ pc = "store"
    /\ entries # {}
    /\ ckpt' = [here |-> TRUE, gen |-> chunks.gen, entries |-> entries,
                inserts |-> session]
    /\ UNCHANGED <<chunks, index, oldChunks, oldIndex, staging, stChunks,
                   stIndex, manifests, pc, mem, gens, crashes>>

BackupFlushesNothing ==    \* altered form: the session's inserts are dropped
    /\ pc = "store"
    /\ pc' = "save"
    /\ UNCHANGED <<disk, mem, gens, crashes>>

\* The packs are closed, then the index is flushed ...
BackupFlush ==
    /\ pc = "store"
    /\ index' = IndexOf(Merge(index.recs, session))
    /\ pc' = "save"
    /\ UNCHANGED <<chunks, oldChunks, oldIndex, staging, stChunks, stIndex,
                   manifests, ckpt, mem, gens, crashes>>

\* ... and only then does the manifest appear.  The caller then removes the
\* checkpoint if it was this backup's.
BackupSave ==
    /\ pc = "save"
    /\ manifests' = manifests \cup {entries}
    /\ ckpt' \in {ckpt, NoCkpt}
    /\ pc' = "idle" /\ session' = {} /\ entries' = {}
    /\ UNCHANGED <<chunks, index, oldChunks, oldIndex, staging, stChunks,
                   stIndex, plan, gens, crashes>>

\* tryFastPath: the pack layout is the one the checkpoint was written under,
\* so its inserts are preloaded into the session as they are.
ResumeFast ==
    /\ pc = "idle" /\ ckpt.here
    /\ Cardinality(manifests) < MaxManifests
    /\ chunks.gen = ckpt.gen
    /\ pc' = "store" /\ session' = ckpt.inserts /\ entries' = ckpt.entries
    /\ chunks' = MadeChunks /\ index' = MadeIndex
    /\ UNCHANGED <<oldChunks, oldIndex, staging, stChunks, stIndex,
                   manifests, ckpt, plan, gens, crashes>>

\* The segments are stale, torn or gone: rebuild the index from the packs and
\* go on only when every chunk of the prefix is in it.
ResumeSlow ==
    /\ pc = "idle" /\ ckpt.here
    /\ Cardinality(manifests) < MaxManifests
    /\ chunks.recs # {}
    /\ index' = IndexOf(Latest(chunks.recs))
    /\ \/ /\ ckpt.entries \subseteq HashesOf(chunks.recs)
          /\ pc' = "store" /\ session' = {} /\ entries' = ckpt.entries
       \/ /\ ~(ckpt.entries \subseteq HashesOf(chunks.recs))
          /\ UNCHANGED <<pc, session, entries>>
    /\ UNCHANGED <<chunks, oldChunks, oldIndex, staging, stChunks, stIndex,
                   manifests, ckpt, plan, gens, crashes>>

-----------------------------------------------------------------------------
(* Other commands *)

Forget(m) ==
    /\ pc = "idle"
    /\ manifests' = manifests \ {m}
    /\ UNCHANGED <<chunks, index, oldChunks, oldIndex, staging, stChunks,
                   stIndex, ckpt, pc, mem, gens, crashes>>

\* index.Rebuild to the end.
Rebuild ==
    /\ pc = "idle" /\ chunks.recs # {}
    /\ index' = IndexOf(Latest(chunks.recs))
    /\ UNCHANGED <<chunks, oldChunks, oldIndex, staging, stChunks, stIndex,
                   manifests, ckpt, pc, mem, gens, crashes>>

\* index.Rebuild cancelled, or failing on a pack: HashIndex.Close persists the
\* entries of the frames scanned so far as the repository's index.
RebuildCut ==
    /\ pc = "idle" /\ chunks.recs # {}
    /\ crashes < MaxCrashes /\ crashes' = crashes + 1
    /\ \E k \in 0 .. chunks.end - 1 :
          index' = IndexOf(Latest({r \in chunks.recs : r.loc <= k}))
    /\ UNCHANGED <<chunks, oldChunks, oldIndex, staging, stChunks, stIndex,
                   manifests, ckpt, pc, mem, gens>>

\* Restore, verify and export read; opening the store and the index makes
\* their directories.
OpenStore ==
    /\ pc = "idle"
    /\ chunks' = MadeChunks /\ index' = MadeIndex
    /\ UNCHANGED <<oldChunks, oldIndex, staging, stChunks, stIndex,
                   manifests, ckpt, pc, mem, gens, crashes>>

-----------------------------------------------------------------------------
(* Prune: crash recovery first (recoverIfNeeded) *)

Go(next) == pc' = next /\ UNCHANGED <<mem, manifests, ckpt, gens, crashes>>

PruneBegin ==
    /\ pc = "idle"
    /\ Go("recover")
    /\ UNCHANGED <<chunks, index, oldChunks, oldIndex, staging, stChunks,
                   stIndex>>

RecoverNothing ==
    /\ pc = "recover" /\ ~PruneRecoveryPending
    /\ Go("scan")
    /\ UNCHANGED <<chunks, index, oldChunks, oldIndex, staging, stChunks,
                   stIndex>>

\* chunks/ was moved aside and nothing took its place: move it back.
RecoverRollBack ==
    /\ pc = "recover" /\ oldChunks.here /\ ~chunks.here
    /\ chunks' = oldChunks /\ oldChunks' = NoChunks
    /\ Go("rollIndex")
    /\ UNCHANGED <<index, oldIndex, staging, stChunks, stIndex>>

PreferOldIndexForward ==   \* altered form: keeps the old index
    /\ pc = "recover" /\ oldChunks.here /\ chunks.here
    /\ IF ~index.here /\ oldIndex.here
          THEN index' = oldIndex /\ oldIndex' = NoIndex
          ELSE UNCHANGED <<index, oldIndex>>
    /\ Go("dropOld")
    /\ UNCHANGED <<chunks, oldChunks, staging, stChunks, stIndex>>

\* chunks/ is taken to hold the new packs: roll the swap forward.
RecoverForward ==
    /\ pc = "recover" /\ oldChunks.here /\ chunks.here
    /\ \/ /\ stIndex.here
          /\ Go("dropIndex")
          /\ UNCHANGED <<index, oldIndex>>
       \/ /\ ~stIndex.here /\ (index.here \/ ~oldIndex.here)
          /\ Go("dropOld")
          /\ UNCHANGED <<index, oldIndex>>
       \/ /\ ~stIndex.here /\ ~index.here /\ oldIndex.here
          /\ index' = oldIndex /\ oldIndex' = NoIndex
          /\ Go("dropOld")
    /\ UNCHANGED <<chunks, oldChunks, staging, stChunks, stIndex>>

RecoverDropIndex ==
    /\ pc = "dropIndex"
    /\ index' = NoIndex
    /\ Go("instIndex")
    /\ UNCHANGED <<chunks, oldChunks, oldIndex, staging, stChunks, stIndex>>

RecoverInstallIndex ==
    /\ pc = "instIndex"
    /\ index' = stIndex /\ stIndex' = NoIndex
    /\ Go("dropOld")
    /\ UNCHANGED <<chunks, oldChunks, oldIndex, staging, stChunks>>

RecoverDropOldChunks ==
    /\ pc = "dropOld"
    /\ oldChunks' = NoChunks
    /\ Go("tidyIndex")
    /\ UNCHANGED <<chunks, index, oldIndex, staging, stChunks, stIndex>>

\* Only staging, or the leftovers of the final clean-up.
RecoverNoOldChunks ==
    /\ pc = "recover" /\ PruneRecoveryPending /\ ~oldChunks.here
    /\ Go("rollIndex")
    /\ UNCHANGED <<chunks, index, oldChunks, oldIndex, staging, stChunks,
                   stIndex>>

\* The rename both of these cases end with.
RecoverIndexBack ==
    /\ pc = "rollIndex"
    /\ IF oldIndex.here /\ ~index.here
          THEN index' = oldIndex /\ oldIndex' = NoIndex
          ELSE UNCHANGED <<index, oldIndex>>
    /\ Go("tidyIndex")
    /\ UNCHANGED <<chunks, oldChunks, staging, stChunks, stIndex>>

RecoverTidyIndex ==
    /\ pc = "tidyIndex"
    /\ oldIndex' = IF index.here THEN NoIndex ELSE oldIndex
    /\ Go("tidyStaging")
    /\ UNCHANGED <<chunks, index, oldChunks, staging, stChunks, stIndex>>

RecoverKeepsStaging ==     \* altered form: staging is emptied, not removed
    /\ pc = "tidyStaging"
    /\ stChunks' = NoChunks /\ stIndex' = NoIndex
    /\ Go("scan")
    /\ UNCHANGED <<chunks, index, oldChunks, oldIndex, staging>>

RecoverTidyStaging ==
    /\ pc = "tidyStaging"
    /\ staging' = FALSE /\ stChunks' = NoChunks /\ stIndex' = NoIndex
    /\ Go("scan")
    /\ UNCHANGED <<chunks, index, oldChunks, oldIndex>>

RecoverStep ==
    \/ RecoverNothing \/ RecoverRollBack \/ RecoverForward
    \/ RecoverDropIndex \/ RecoverInstallIndex \/ RecoverDropOldChunks
    \/ RecoverNoOldChunks \/ RecoverIndexBack
    \/ RecoverTidyIndex \/ RecoverTidyStaging

-----------------------------------------------------------------------------
(* Prune: choose what to keep and copy it to staging (Run, rewriteChunks) *)

ReferencedByResume(extra) == extra    \* altered form: forgets the manifests

Referenced(extra) == UNION manifests \cup extra

\* "Keep first occurrence only": one entry for each referenced hash.
OnePerHash(rs) ==
    {p \in SUBSET rs : \A h \in HashesOf(rs) :
                          \E e \in p : e.h = h /\ \A d \in p : d.h = h => d = e}

\* The caller may protect the prefix of a suspended backup (extra).
PruneScan(extra) ==
    /\ pc = "scan"
    /\ LET ref == {e \in index.recs : e.h \in Referenced(extra)}
       IN  \/ /\ ref = index.recs /\ ref \in OnePerHash(ref)
              /\ pc' = "idle" /\ plan' = {}
              /\ index' = MadeIndex
              /\ UNCHANGED <<chunks, staging, stChunks, stIndex>>
           \/ /\ ~(ref = index.recs /\ ref \in OnePerHash(ref))
              /\ pc' = "rewrite" /\ plan' \in OnePerHash(ref)
              /\ chunks' = MadeChunks /\ index' = MadeIndex
              /\ staging' = TRUE
              /\ stChunks' = EmptyChunks /\ stIndex' = IndexOf({})
    /\ UNCHANGED <<oldChunks, oldIndex, manifests, ckpt, session, entries,
                   gens, crashes>>

RankFromZero(e) == Cardinality({q \in plan : q.loc < e.loc})  \* altered form

\* The position of e when plan is sorted by location: where its frame lands.
Rank(e) == Cardinality({q \in plan : q.loc <= e.loc})

\* Frames are copied as they are; what they hold is not compared with the
\* hash the index gives for them.
PruneRewrite ==
    /\ pc = "rewrite"
    /\ \A e \in plan : \E f \in chunks.recs : f.loc = e.loc
    /\ stChunks' = [stChunks EXCEPT
                      !.end = Cardinality(plan),
                      !.recs = UNION {{[loc |-> Rank(e), h |-> f.h] :
                                         f \in {g \in chunks.recs :
                                                   g.loc = e.loc}} : e \in plan}]
    /\ stIndex' = IndexOf({[loc |-> Rank(e), h |-> e.h] : e \in plan})
    /\ pc' = "stamp"
    /\ UNCHANGED <<chunks, index, oldChunks, oldIndex, staging, manifests, ckpt,
                   mem, gens, crashes>>

\* An error return before the swap: an unreadable manifest or frame, a
\* cancelled context, a full disk.  Staging stays behind.
PruneFails ==
    /\ pc \in {"scan", "rewrite", "stamp"}
    /\ pc' = "idle" /\ plan' = {}
    /\ UNCHANGED <<disk, session, entries, gens, crashes>>

-----------------------------------------------------------------------------
(* Prune: the directory swap (atomicSwap) *)

SwapKeepsGeneration ==     \* altered form: the new packs keep the old generation
    /\ pc = "stamp" /\ gens < MaxGens
    /\ gens' = gens + 1
    /\ stChunks' = [stChunks EXCEPT !.gen = chunks.gen]
    /\ pc' = "aside"
    /\ UNCHANGED <<chunks, index, oldChunks, oldIndex, staging, stIndex,
                   manifests, ckpt, mem, crashes>>

SwapStamp ==
    /\ pc = "stamp" /\ gens < MaxGens
    /\ gens' = gens + 1
    /\ stChunks' = [stChunks EXCEPT !.gen = gens + 1]
    /\ pc' = "aside"
    /\ UNCHANGED <<chunks, index, oldChunks, oldIndex, staging, stIndex,
                   manifests, ckpt, mem, crashes>>

SwapChunksAside ==
    /\ pc = "aside"
    /\ oldChunks' = chunks /\ chunks' = NoChunks
    /\ Go("chunksIn")
    /\ UNCHANGED <<index, oldIndex, staging, stChunks, stIndex>>

SwapChunksIn ==
    /\ pc = "chunksIn"
    /\ chunks' = stChunks /\ stChunks' = NoChunks
    /\ Go("indexAside")
    /\ UNCHANGED <<index, oldChunks, oldIndex, staging, stIndex>>

SwapIndexAside ==
    /\ pc = "indexAside"
    /\ oldIndex' = index /\ index' = NoIndex
    /\ Go("indexIn")
    /\ UNCHANGED <<chunks, oldChunks, staging, stChunks, stIndex>>

SwapIndexIn ==
    /\ pc = "indexIn"
    /\ index' = stIndex /\ stIndex' = NoIndex
    /\ Go("rmOldChunks")
    /\ UNCHANGED <<chunks, oldChunks, oldIndex, staging, stChunks>>

SwapRemoveOldChunks ==
    /\ pc = "rmOldChunks"
    /\ oldChunks' = NoChunks
    /\ Go("rmOldIndex")
    /\ UNCHANGED <<chunks, index, oldIndex, staging, stChunks, stIndex>>

SwapRemoveOldIndex ==
    /\ pc = "rmOldIndex"
    /\ oldIndex' = NoIndex
    /\ Go("rmStaging")
    /\ UNCHANGED <<chunks, index, oldChunks, staging, stChunks, stIndex>>

SwapRemoveStaging ==
    /\ pc = "rmStaging"
    /\ staging' = FALSE /\ stChunks' = NoChunks /\ stIndex' = NoIndex
    /\ pc' = "idle" /\ plan' = {}
    /\ UNCHANGED <<chunks, index, oldChunks, oldIndex, manifests, ckpt, session,
                   entries, gens, crashes>>

\* A rename of the swap fails: undo the ones already made, last one first.
SwapRenameFails ==
    /\ crashes < MaxCrashes /\ crashes' = crashes + 1
    /\ \/ pc = "aside" /\ pc' = "idle" /\ plan' = {}
       \/ pc = "chunksIn" /\ pc' = "undoAside" /\ UNCHANGED plan
       \/ pc = "indexAside" /\ pc' = "undoChunksIn" /\ UNCHANGED plan
       \/ pc = "indexIn" /\ pc' = "undoIndex" /\ UNCHANGED plan
    /\ UNCHANGED <<disk, session, entries, gens>>

UndoIndexAside ==
    /\ pc = "undoIndex"
    /\ index' = oldIndex /\ oldIndex' = NoIndex
    /\ Go("undoChunksIn")
    /\ UNCHANGED <<chunks, oldChunks, staging, stChunks, stIndex>>

UndoChunksIn ==
    /\ pc = "undoChunksIn"
    /\ stChunks' = chunks /\ chunks' = NoChunks
    /\ Go("undoAside")
    /\ UNCHANGED <<index, oldChunks, oldIndex, staging, stIndex>>

UndoChunksAside ==
    /\ pc = "undoAside"
    /\ chunks' = oldChunks /\ oldChunks' = NoChunks
    /\ pc' = "idle" /\ plan' = {}
    /\ UNCHANGED <<index, oldIndex, staging, stChunks, stIndex, manifests, ckpt,
                   session, entries, gens, crashes>>

-----------------------------------------------------------------------------
(* The running command dies, or returns an error.  Its memory is gone, what  *)
(* it did to the disk stays.                                                 *)

Died ==
    /\ crashes < MaxCrashes /\ crashes' = crashes + 1
    /\ pc' = "idle" /\ session' = {} /\ entries' = {} /\ plan' = {}
    /\ UNCHANGED <<manifests, ckpt, gens>>

Crash ==
    /\ pc # "idle"
    /\ Died
    /\ UNCHANGED <<chunks, index, oldChunks, oldIndex, staging, stChunks,
                   stIndex>>

\* os.RemoveAll is not atomic: a death inside it leaves part of the directory.
CrashInRemove ==
    /\ Died
    /\ \/ /\ pc = "dropIndex" /\ index.here
          /\ \E rs \in SUBSET index.recs : index' = IndexOf(rs)
          /\ UNCHANGED <<oldChunks, oldIndex, stChunks, stIndex>>
       \/ /\ pc \in {"dropOld", "rmOldChunks"}
          /\ \E rs \in SUBSET oldChunks.recs :
                oldChunks' = [oldChunks EXCEPT !.recs = rs]
          /\ UNCHANGED <<index, oldIndex, stChunks, stIndex>>
       \/ /\ pc \in {"tidyIndex", "rmOldIndex"} /\ index.here /\ oldIndex.here
          /\ \E rs \in SUBSET oldIndex.recs : oldIndex' = IndexOf(rs)
          /\ UNCHANGED <<index, oldChunks, stChunks, stIndex>>
       \/ /\ pc = "tidyStaging"
          /\ stChunks' \in {stChunks, NoChunks}
          /\ stIndex' \in {stIndex, NoIndex}
          /\ UNCHANGED <<index, oldChunks, oldIndex>>
    /\ UNCHANGED <<chunks, staging>>

-----------------------------------------------------------------------------
(* Specifications *)

BackupStep ==
    \/ \E h \in Hash : BackupChunk(h)
    \/ BackupCheckpoint \/ BackupFlush \/ BackupSave

SwapStep ==
    \/ \E extra \in {{}, ckpt.entries} : PruneScan(extra)
    \/ PruneRewrite \/ PruneFails \/ SwapStamp
    \/ SwapChunksAside \/ SwapChunksIn \/ SwapIndexAside \/ SwapIndexIn
    \/ SwapRemoveOldChunks \/ SwapRemoveOldIndex \/ SwapRemoveStaging
    \/ UndoIndexAside \/ UndoChunksIn \/ UndoChunksAside

PruneStep == PruneBegin \/ RecoverStep \/ SwapStep

\* The commands that may be given between two prunes.
Command ==
    \/ BackupOpen \/ ResumeFast \/ ResumeSlow
    \/ \E m \in manifests : Forget(m)
    \/ Rebuild \/ OpenStore

Failure == SwapRenameFails \/ Crash \/ CrashInRemove

\* Nothing else touches the repository while an interrupted prune waits for
\* its recovery, which only the next prune performs.
RecoverFirstNext ==
    \/ BackupStep \/ PruneStep \/ Failure
    \/ ~PruneRecoveryPending /\ Command

\* What the code allows: no command but prune looks for an interrupted one.
AnyOrderNext == BackupStep \/ PruneStep \/ Failure \/ Command

\* The first of these with an index rebuild that may be interrupted.
RebuildCutNext == RecoverFirstNext \/ (~PruneRecoveryPending /\ RebuildCut)

Spec           == Init /\ [][RecoverFirstNext]_vars
FairSpec       == Spec /\ WF_vars(PruneStep)
AnyOrderSpec   == Init /\ [][AnyOrderNext]_vars
RebuildCutSpec == Init /\ [][RebuildCutNext]_vars

-----------------------------------------------------------------------------
(* Properties *)

\* The type of every variable: what the directories, the checkpoint and the
\* command's memory may hold.
TypeOK ==
    /\ chunks \in ChunkDir /\ oldChunks \in ChunkDir /\ stChunks \in ChunkDir
    /\ index \in IndexDir /\ oldIndex \in IndexDir /\ stIndex \in IndexDir
    /\ staging \in BOOLEAN
    /\ manifests \subseteq SUBSET Hash
    /\ ckpt \in Ckpt
    /\ pc \in PC
    /\ session \subseteq Rec /\ entries \subseteq Hash /\ plan \subseteq Rec
    /\ gens \in Nat /\ crashes \in Nat

\* The directories the repository would have after recoverIfNeeded, were the
\* process to die now.
RecoveredChunks == IF oldChunks.here /\ ~chunks.here THEN oldChunks ELSE chunks

RecoveredIndex ==
    IF oldChunks.here /\ chunks.here /\ stIndex.here THEN stIndex
    ELSE IF ~index.here /\ oldIndex.here THEN oldIndex ELSE index

\* "chunks/ and index/ must always be consistent with each other"
\* (prune.go): at every step of a prune, of its rollback and of its recovery,
\* and wherever they are cut, recovery ends with an index whose every entry
\* points at the frame of its hash.
RecoveredConsistent ==
    RecoveredChunks.here /\ RecoveredIndex.here
      /\ RecoveredIndex.recs \subseteq RecoveredChunks.recs

\* Every chunk of every saved backup resolves through the index that recovery
\* ends with: a prune, however often interrupted, loses no backup.
Resolvable(m) == m \subseteq HashesOf(RecoveredIndex.recs \cap RecoveredChunks.recs)
ManifestsSurvive == \A m \in manifests : Resolvable(m)

\* The fast path of a resume replays absolute locations when the generation
\* of the packs is the checkpoint's: then every one of them still holds.
FastPathSound ==
    ckpt.here /\ ckpt.gen = RecoveredChunks.gen
      => ckpt.inserts \subseteq RecoveredChunks.recs

\* Index i leads from every hash of the backups ms to a frame of packs c ...
Covers(i, c, ms) ==
    /\ i.here /\ c.here /\ i.recs \subseteq c.recs
    /\ \A m \in ms : m \subseteq HashesOf(i.recs)

\* ... and so does it, with the replayed inserts, for the prefix of checkpoint
\* k if that was written under the generation of c.
Serves(i, c, ms, k) ==
    /\ Covers(i, c, ms)
    /\ k.here /\ k.gen = c.gen =>
          /\ k.inserts \subseteq c.recs
          /\ k.entries \subseteq HashesOf(i.recs \cup k.inserts)

\* The frames of c are finitely many, below its end, and of a generation issued.
PackLog(c, g) ==
    /\ IsFiniteSet(c.recs) /\ c.gen <= g
    /\ \A r \in c.recs : r.loc <= c.end

\* Which directories exist at each point of the swap, of its rollback and of
\* the recovery, and what the ones not yet installed must already provide.
AtEachStep ==
    /\ pc \in BackupPC =>
          /\ ~PruneRecoveryPending /\ session \subseteq chunks.recs
          /\ entries \subseteq HashesOf(index.recs \cup session)
    /\ pc = "save" => entries \subseteq HashesOf(index.recs)
    /\ pc = "rollIndex" => ~oldChunks.here
    /\ pc \in {"dropIndex", "instIndex"} =>
          chunks.here /\ oldChunks.here /\ stIndex.here
    /\ pc \in {"dropOld", "rmOldChunks"} =>
          chunks.here /\ index.here /\ ~stIndex.here
    /\ pc \in {"tidyIndex", "rmOldIndex", "tidyStaging", "rmStaging", "scan",
               "rewrite", "stamp", "aside"} =>
          chunks.here /\ index.here /\ ~oldChunks.here
    /\ pc \in {"tidyStaging", "rmStaging", "scan", "rewrite", "stamp", "aside",
               "chunksIn", "indexAside", "undoChunksIn", "undoAside"} =>
          index.here /\ ~oldIndex.here
    /\ pc = "rewrite" =>
          /\ stChunks.here /\ plan \subseteq index.recs
          /\ \A m \in manifests : m \subseteq HashesOf(plan)
    /\ pc = "stamp" => Covers(stIndex, stChunks, manifests)
    /\ pc \in {"aside", "chunksIn"} => Serves(stIndex, stChunks, manifests, ckpt)
    /\ pc \in {"chunksIn", "undoAside"} => oldChunks.here /\ ~chunks.here
    /\ pc \in {"indexAside", "undoChunksIn"} =>
          chunks.here /\ stIndex.here /\ Serves(index, oldChunks, manifests, ckpt)
    /\ pc \in {"indexIn", "undoIndex"} =>
          /\ chunks.here /\ stIndex.here /\ ~index.here
          /\ Serves(oldIndex, oldChunks, manifests, ckpt)

\* The inductive invariant: at every step of every command the directories
\* recovery would end with serve every backup and the suspended one, and each
\* step of the swap finds the directories it is about to rename.
RepoInv ==
    /\ TypeOK
    /\ PackLog(chunks, gens) /\ PackLog(oldChunks, gens) /\ PackLog(stChunks, gens)
    /\ ckpt.gen <= gens
    /\ Serves(RecoveredIndex, RecoveredChunks, manifests, ckpt)
    /\ AtEachStep

\* However a prune was interrupted, running prune again clears the leftovers.
RecoveryConverges == PruneRecoveryPending ~> ~PruneRecoveryPending

\* What the repository promises (module Catalog): a backup, once saved, can be
\* restored until it is forgotten.
Abstract == INSTANCE Catalog WITH
              listed     <- manifests,
              restorable <- {m \in manifests : Resolvable(m)}
ImplementsCatalog == Abstract!Spec

\* "rewrites referenced chunks into new pack files" (prune.go): a frame of
\* every chunk of every saved backup is on disk, in whichever directory.
ReferencedChunksKept ==
    UNION manifests
      \subseteq HashesOf(chunks.recs \cup oldChunks.recs \cup stChunks.recs)

=============================================================================
