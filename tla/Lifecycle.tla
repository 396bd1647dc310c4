------------------------------ MODULE Lifecycle ------------------------------
(***************************************************************************)
(* The life of the backups of one repository: taken, expired by forget or  *)
(* by the retention ladder, exported to an archive, imported again, their  *)
(* chunks reclaimed by prune.  Commands run one at a time; a command that  *)
(* deletes or installs several manifests does so one by one, and may fail  *)
(* or die in between.                                                      *)
(*                                                                         *)
(* Backup b stores the chunks {0, b}: chunk 0 is common to all.  A frame   *)
(* is a hash and the key it was written under; the index is the set of     *)
(* hashes it leads from.                                                   *)
(***************************************************************************)
EXTENDS Retention

CONSTANTS Id,              \* the backups' ids: naturals, ordered as their names
          Sources, Modes,  \* encryption modes a repository may have
          ForgetPolicies, RetainPolicies,
          Foreign,         \* archives of other repositories
          MaxTime, MaxRuns, MaxFaults

ASSUME LifeBounds == Id \subseteq Nat \ {0} /\ {MaxTime, MaxRuns, MaxFaults} \subseteq Nat

\* Every repository has a key of its own.
ASSUME ForeignKeys == \A a \in Foreign : \E f \in a.frames : f.key \notin Modes

VARIABLES mode,     \* the repository's encryption mode
          now,
          made,     \* the metadata of every backup ever begun or imported
          listed,   \* the ids in manifests/
          damaged,  \* those of them whose manifest cannot be read
          packs, index,
          archive,  \* the zip file
          job,      \* the command that runs
          runs, faults

repo == <<made, listed, damaged, packs, index>>
bounds == <<runs, faults>>
vars == <<mode, now, repo, archive, job, bounds>>

Chunks(b) == {0, b}
Frame(h) == [h |-> h, key |-> mode]
NoArchive == [whole |-> FALSE, cat |-> <<>>, frames |-> {}]
Idle == [kind |-> "idle", plan |-> {}, todo |-> {}, failed |-> FALSE, parent |-> 0]

Restrict1(f, ids) == [i \in ids |-> f[i]]
With(f, i, v) == [j \in DOMAIN f \cup {i} |-> IF j = i THEN v ELSE f[j]]

\* What the manifests that are there say, and the retention service's own list.
Catalog == Restrict1(made, listed)
Known == Restrict1(made, listed \cup {b \in DOMAIN made : ~made[b].done})

Readable(b) == b \in listed \ damaged
Resolved(b) == \A h \in Chunks(b) : h \in index /\ Frame(h) \in packs

\* CollectBackupSet: everything the backups refer to; an error when one is gone.
Closure(b) == LeastClosed({b}, DOMAIN made, [x \in DOMAIN made |-> ReferenceEdges(made[x])])
Restorable(b) == Readable(b) /\ \A x \in Closure(b) : Readable(x) /\ Resolved(x)

Init ==
    /\ mode \in Modes
    /\ now = 0 /\ made = <<>> /\ listed = {} /\ damaged = {}
    /\ packs = {} /\ index = {}
    /\ archive \in {NoArchive} \cup Foreign
    /\ job = Idle /\ runs = 0 /\ faults = 0

Tick == /\ job = Idle /\ now < MaxTime /\ now' = now + 1
        /\ UNCHANGED <<mode, repo, archive, job, bounds>>

Fault == faults < MaxFaults /\ faults' = faults + 1

Crash == /\ job # Idle /\ Fault /\ job' = Idle
         /\ UNCHANGED <<mode, now, repo, archive, runs>>

\* A manifest file goes bad.
Damage(b) == /\ job = Idle /\ Readable(b) /\ Fault /\ damaged' = damaged \cup {b}
             /\ UNCHANGED <<mode, now, made, listed, packs, index, archive, job, runs>>

Begin(kind, plan) ==
    /\ job = Idle /\ runs < MaxRuns
    /\ job' = [Idle EXCEPT !.kind = kind, !.plan = plan, !.todo = plan]
    /\ runs' = runs + 1

\* Whether it is x's turn: forget goes through its plan from the most recent
\* backup on, every other command in the order of the names.
Turn(x) ==
    /\ x \in job.todo
    /\ \A y \in job.todo \ {x} : IF job.kind = "forget" THEN MoreRecent(made, x, y) ELSE x < y

(***************************************************************************)
(* Backups.  An incremental is saved as a full backup and its parent       *)
(* stamped on the manifest afterwards; a watcher's incremental carries     *)
(* parent and data pointers from the start.                                *)
(***************************************************************************)
Unused == Id \ DOMAIN made

Meta(s, parent, data, snap, done) ==
    [src |-> s, at |-> now, started |-> now, parent |-> parent, data |-> data,
     snap |-> snap, done |-> done]

Save(ids, meta) ==
    LET hashes == UNION {Chunks(b) : b \in ids}
    IN  /\ made' = [j \in DOMAIN made \cup ids |-> IF j \in ids THEN meta ELSE made[j]]
        /\ listed' = listed \cup ids
        /\ packs' = packs \cup {Frame(h) : h \in hashes \ index}
        /\ index' = index \cup hashes
        /\ UNCHANGED <<mode, now, damaged, archive, bounds>>

BackupFull(b, s) ==
    /\ job = Idle /\ b \in Unused
    /\ Save({b}, Meta(s, 0, {}, 0, TRUE))
    /\ UNCHANGED job

\* Two members of a machine snapshot (its orchestration is outside).
BackupSnapshot(b, c, s) ==
    /\ job = Idle /\ {b, c} \subseteq Unused /\ b < c
    /\ Save({b, c}, Meta(s, 0, {}, b, TRUE))
    /\ UNCHANGED job

\* BackupIncremental: the manifest first, the lineage in a second step.
BackupIncremental(b, parent) ==
    /\ job = Idle /\ b \in Unused /\ Readable(parent)
    /\ Save({b}, Meta(made[parent].src, 0, {}, 0, TRUE))
    /\ job' = [Idle EXCEPT !.kind = "stamp", !.todo = {b}, !.parent = parent]

\* ApplyParentLineage: a parent that is gone counts as an empty one; one that
\* cannot be read is an error, and the backup stays a full one.
ApplyParentLineage ==
    /\ job.kind = "stamp" /\ job' = Idle
    /\ \E b \in job.todo : made' = IF job.parent \in damaged THEN made
                                   ELSE [made EXCEPT ![b].parent = job.parent]
    /\ UNCHANGED <<mode, now, listed, damaged, packs, index, archive, bounds>>

\* The watcher (outside this repository) keeps unchanged files as pointers.
BackupWatcher(b, parent) ==
    /\ job = Idle /\ b \in Unused /\ Readable(parent)
    /\ \E d \in {parent} \cup made[parent].data :
          Readable(d) /\ Save({b}, Meta(made[parent].src, parent, {d}, 0, TRUE))
    /\ UNCHANGED job

\* Interrupted, then completed by a later run; the checkpoint keeps the parent.
BackupSuspend(b, s, parent) ==
    /\ job = Idle /\ b \in Unused
    /\ parent = 0 \/ (Readable(parent) /\ made[parent].src = s /\ parent \in NewestOfSource(Catalog))
    /\ made' = With(made, b, Meta(s, parent, {}, 0, FALSE))
    /\ UNCHANGED <<mode, now, listed, damaged, packs, index, archive, job, bounds>>

BackupResume(b) ==
    /\ job = Idle /\ b \in DOMAIN made /\ ~made[b].done
    /\ Save({b}, [made[b] EXCEPT !.done = TRUE, !.at = now, !.parent = 0])
    /\ job' = IF made[b].parent = 0 THEN Idle
              ELSE [Idle EXCEPT !.kind = "stamp", !.todo = {b}, !.parent = made[b].parent]

(***************************************************************************)
(* Forgetting.                                                             *)
(***************************************************************************)
\* An altered form: the keep set is not closed under references.
ForgetUnprotected ==
    \E policy \in ForgetPolicies :
        LET plan == listed \ SelectByPolicy(Catalog, policy, now)
        IN  /\ listed # {} /\ damaged = {} /\ plan # listed
            /\ Begin("forget", plan)
            /\ UNCHANGED <<mode, now, repo, archive, faults>>

\* forget.Run up to the first deletion; it wants every manifest readable, and
\* refuses to delete everything.
Forget ==
    \E policy \in ForgetPolicies :
        LET plan == listed \ Protect(Catalog, SelectByPolicy(Catalog, policy, now))
        IN  /\ ~PolicyKeepsNothing(policy)
            /\ listed # {} /\ damaged = {} /\ plan # listed
            /\ Begin("forget", plan)
            /\ UNCHANGED <<mode, now, repo, archive, faults>>

\* The retention service evaluates the ladder and deletes what it returns.
Retain ==
    \E policy \in RetainPolicies :
        LET plan == Select(Known, policy, now) \cap listed
        IN  /\ Begin("retain", plan)
            /\ UNCHANGED <<mode, now, repo, archive, faults>>

Deleting(b) == job.kind \in {"forget", "retain"} /\ Turn(b)

DeleteNext ==
    \E b \in job.todo :
        /\ Deleting(b)
        /\ listed' = listed \ {b} /\ damaged' = damaged \ {b}
        /\ job' = [job EXCEPT !.todo = @ \ {b}]
        /\ UNCHANGED <<mode, now, made, packs, index, archive, bounds>>

\* A deletion fails; the others go on.
DeleteFails ==
    \E b \in job.todo :
        /\ Deleting(b) /\ Fault
        /\ job' = [job EXCEPT !.todo = @ \ {b}, !.failed = TRUE]
        /\ UNCHANGED <<mode, now, repo, archive, runs>>

\* A forget that deleted all it planned goes on to prune when told to, one that
\* failed returns.
DeletesDone ==
    /\ job.kind \in {"forget", "retain"} /\ job.todo = {}
    /\ \/ job' = Idle
       \/ job.kind = "forget" /\ ~job.failed /\ job.plan # {} /\ job' = [job EXCEPT !.kind = "prune"]
    /\ UNCHANGED <<mode, now, repo, archive, bounds>>

(***************************************************************************)
(* Prune, as one step (Repo has its inside): only what the index names and *)
(* a manifest refers to is kept; with no orphan in the index it does       *)
(* nothing; a manifest it cannot read stops it.                            *)
(***************************************************************************)
Prune ==
    /\ \/ job.kind = "prune" /\ UNCHANGED runs
       \/ job = Idle /\ runs < MaxRuns /\ runs' = runs + 1
    /\ LET kept == index \cap UNION {Chunks(b) : b \in listed}
       IN  IF damaged # {} \/ kept = index THEN UNCHANGED <<packs, index>>
           ELSE packs' = {f \in packs : f.h \in kept} /\ index' = kept
    /\ job' = Idle
    /\ UNCHANGED <<mode, now, made, listed, damaged, archive, faults>>

\* The operator's index --rebuild-all; a managed repository refuses it.
RebuildAll ==
    /\ job = Idle /\ mode # "managed" /\ packs # {}
    /\ \A f \in packs : f.key = mode
    /\ index' = {f.h : f \in packs}
    /\ UNCHANGED <<mode, now, made, listed, damaged, packs, archive, job, bounds>>

(***************************************************************************)
(* Export and import.                                                      *)
(***************************************************************************)
\* Export stages the closure's manifests and raw frames, then zips them; an
\* export that dies there leaves a zip without its directory.
Export(b) ==
    /\ job = Idle /\ runs < MaxRuns /\ runs' = runs + 1 /\ Readable(b)
    /\ \A x \in Closure(b) :
          Readable(x) /\ \A h \in Chunks(x) : h \in index /\ \E f \in packs : f.h = h
    /\ \/ /\ archive' = [whole  |-> TRUE, cat |-> Restrict1(made, Closure(b)),
                         frames |-> {f \in packs : \E x \in Closure(b) : f.h \in Chunks(x)}]
          /\ UNCHANGED faults
       \/ archive' = NoArchive /\ Fault
    /\ UNCHANGED <<mode, now, repo, job>>

\* An altered form: frames are not proved to be this repository's.
ImportUnverified ==
    /\ job = Idle /\ archive.whole
    /\ job' = [Idle EXCEPT !.kind = "store",
                  !.todo = {f.h : f \in archive.frames}]
    /\ UNCHANGED <<mode, now, repo, archive, bounds>>

\* An altered form: an archive whose backups are partly here is refused.
ImportNewOnly ==
    /\ job = Idle /\ archive.whole /\ DOMAIN archive.cat \cap listed = {}
    /\ \A f \in archive.frames : f.key = mode
    /\ job' = [Idle EXCEPT !.kind = "store",
                  !.todo = {f.h : f \in archive.frames}]
    /\ UNCHANGED <<mode, now, repo, archive, bounds>>

\* Unzip, Bind and verifyArchiveFrames: nothing is written before every frame
\* is proved to decode here.
Import ==
    /\ job = Idle /\ archive.whole
    /\ \A f \in archive.frames : f.key = mode
    /\ job' = [Idle EXCEPT !.kind = "store",
                  !.todo = {f.h : f \in archive.frames}]
    /\ UNCHANGED <<mode, now, repo, archive, bounds>>

\* A frame whose hash the index has is skipped, any other is appended.
ImportChunk ==
    \E h \in job.todo :
        /\ job.kind = "store" /\ Turn(h)
        /\ packs' = packs \cup {f \in archive.frames : f.h = h /\ h \notin index}
        /\ job' = [job EXCEPT !.todo = @ \ {h}]
        /\ UNCHANGED <<mode, now, made, listed, damaged, index, archive, bounds>>

\* An altered form: the manifests first, the index afterwards.
ImportNoRebuild ==
    /\ job.kind = "store" /\ job.todo = {}
    /\ job' = [job EXCEPT !.kind = "install", !.todo = DOMAIN archive.cat]
    /\ UNCHANGED <<mode, now, repo, archive, bounds>>

\* The index is rebuilt from all packs before a manifest appears; in a managed
\* repository it is left as it is.
ImportRebuild ==
    /\ job.kind = "store" /\ job.todo = {}
    /\ IF mode = "managed" THEN UNCHANGED index
       ELSE (\A f \in packs : f.key = mode) /\ index' = {f.h : f \in packs}
    /\ job' = [job EXCEPT !.kind = "install", !.todo = DOMAIN archive.cat]
    /\ UNCHANGED <<mode, now, made, listed, damaged, packs, archive, bounds>>

\* installManifests: one atomic copy after the other.
ImportInstall ==
    \E b \in job.todo :
        /\ job.kind = "install" /\ Turn(b)
        /\ made' = With(made, b, archive.cat[b])
        /\ listed' = listed \cup {b} /\ damaged' = damaged \ {b}
        /\ job' = [job EXCEPT !.todo = @ \ {b}]
        /\ UNCHANGED <<mode, now, packs, index, archive, bounds>>

ImportDone ==
    /\ job.kind = "install" /\ job.todo = {} /\ job' = Idle
    /\ UNCHANGED <<mode, now, repo, archive, bounds>>

\* The steps a command takes until it returns, without the failing ones.
JobStep == \/ ApplyParentLineage \/ DeleteNext \/ DeletesDone
           \/ ImportChunk \/ ImportRebuild \/ ImportInstall \/ ImportDone

TakeBackup(b) ==
    \/ BackupResume(b)
    \/ \E s \in Sources : BackupFull(b, s) \/ \E c \in Id : BackupSnapshot(b, c, s)
    \/ \E p \in listed : BackupIncremental(b, p) \/ BackupWatcher(b, p)
    \/ \E s \in Sources, p \in listed \cup {0} : BackupSuspend(b, s, p)

Next ==
    \/ Tick \/ Crash \/ JobStep \/ DeleteFails
    \/ \E b \in Id : TakeBackup(b) \/ Damage(b) \/ Export(b)
    \/ Forget \/ Retain \/ Prune \/ RebuildAll \/ Import

Spec == Init /\ [][Next]_vars

\* A command that runs gets on, and an import that failed is run again.
FairSpec == Spec /\ WF_vars(JobStep) /\ WF_vars(Import) /\ WF_vars(job.kind = "prune" /\ Prune)

(***************************************************************************)
(* Properties.                                                             *)
(***************************************************************************)
\* Every variable has its type; no frame is under another repository's key.
TypeOK ==
    /\ mode \in Modes /\ now \in 0 .. MaxTime
    /\ DOMAIN made \subseteq Nat /\ listed \subseteq Completed(made)
    /\ damaged \subseteq listed
    /\ \A f \in packs : f.h \in Nat /\ f.key = mode
    /\ index \subseteq {f.h : f \in packs}
    /\ job.kind \in {"idle", "stamp", "forget", "retain", "prune", "store", "install"}

\* A listed backup's own chunks can be read, whenever an import, a forget or a
\* prune is cut: the index is rebuilt before a manifest is installed, and prune
\* keeps what a manifest refers to (Import, installManifests, prune.Run).  In a
\* managed repository an import does not rebuild the index.
ListedResolves ==
    mode # "managed" => \A b \in listed : Resolved(b)

\* The plan of the retention service never holds the newest backup of a source,
\* an active one, an ancestor of a kept one, or a part of a machine snapshot
\* (Select, the prime directive of core/retention).
PrimeDirective ==
    job.kind = "retain" /\ job.todo = job.plan =>
        /\ \A b \in job.plan :
              /\ made[b].done
              /\ \E k \in listed \ job.plan : made[k].src = made[b].src /\ made[k].at >= made[b].at
        /\ \A k \in DOMAIN Known \ job.plan :
              /\ made[k].parent \notin job.plan
              /\ \A b \in job.plan : made[b].snap = 0 \/ made[b].snap # made[k].snap

\* A backup that a run of forget, of the retention service or of prune did not
\* plan to remove, and that could be restored, can be restored after each of its
\* steps, deletions that fail included: the backups it refers to, and all of
\* their chunks, are still there (Protect, Select, collectReferencedHashes).
KeptStayRestorable ==
    [][job.kind \in {"forget", "retain", "prune"} \/ runs' # runs =>
          \A b \in listed \ job.plan : Restorable(b) => Restorable(b)']_vars

\* An import that was cut, wherever, and is run again ends with every backup of
\* the archive restorable, its ancestors included (Import, installManifests).
ImportConverges ==
    (job.kind \in {"store", "install"}) ~> (\A b \in DOMAIN archive.cat : Restorable(b))
==============================================================================
