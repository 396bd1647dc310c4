-------------------------- MODULE LifecycleProofs ---------------------------
(***************************************************************************)
(* LifeInv is an invariant of Lifecycle for every set of backups, policy   *)
(* and ladder, and the properties of Lifecycle that follow from it.        *)
(***************************************************************************)
EXTENDS Lifecycle, WellFoundedInduction, TLAPS

-----------------------------------------------------------------------------
(* The inductive invariant *)

\* What a manifest says, what a command that runs is at, and a frame under a key.
MetaT == [src : Sources, at : Nat, started : Nat, parent : Nat, data : SUBSET Nat,
          snap : Nat, done : BOOLEAN]
\* The commands that take more than one step.
Kinds == {"idle", "stamp", "forget", "retain", "prune", "store", "install"}
\* The job that runs.
JobT == [kind : Kinds, plan : SUBSET Nat, todo : SUBSET Nat, failed : BOOLEAN, parent : Nat]
\* A frame under a key.
FrameT(key) == [h : Nat, key : {key}]

\* What is known of every backup ever begun: a catalog m at time t.
MadeOK(m, t) ==
    /\ DOMAIN m \subseteq Id
    /\ m \in [DOMAIN m -> MetaT]
    /\ \A b \in DOMAIN m :
          /\ m[b].at <= t /\ m[b].started <= t
          /\ m[b].parent \in {0} \cup Completed(m)
          /\ m[b].done \/ m[b].data = {}

\* The backups that a backup's unchanged files point at are among its ancestors:
\* a set that holds every parent of its members holds their data as well.
Lineage(m) ==
    \A x \in DOMAIN m : \A S \in SUBSET DOMAIN m :
        x \in S /\ (\A y \in S : m[y].parent \in S \cup {0}) => m[x].data \subseteq S

\* What is listed is complete, and outside managed mode all of its chunks are in
\* the index; the index leads to frames under the repository's key.
StoreInv ==
    /\ listed \subseteq Completed(made)
    /\ damaged \subseteq listed
    /\ packs \subseteq FrameT(mode)
    /\ index \subseteq {f.h : f \in packs}
    /\ mode # "managed" => \A b \in listed : Chunks(b) \subseteq index

\* An archive that can be imported here was exported here.
ArchInv ==
    archive.whole /\ archive \notin Foreign =>
        /\ DOMAIN archive.cat \subseteq Completed(made)
        /\ archive.frames \subseteq FrameT(mode)
        /\ \A b \in DOMAIN archive.cat :
              archive.cat[b] = made[b] /\ Chunks(b) \subseteq {f.h : f \in archive.frames}

\* A backup whose lineage is about to be stamped has none yet, and was not
\* exported before.
StampInv ==
    job.kind = "stamp" =>
        /\ job.parent \in Completed(made)
        /\ \A b \in job.todo : 
              /\ b \in Completed(made) /\ made[b].parent = 0
              /\ archive.whole /\ archive \notin Foreign => b \notin DOMAIN archive.cat

\* What is planned for removal is no parent of what is kept.
PlanInv ==
    job.kind \in {"forget", "retain"} =>
        /\ job.todo \subseteq job.plan
        /\ \A k \in listed \ job.plan : made[k].parent \notin job.plan

\* What an import has stored so far, and that the index leads to all of it before
\* the first manifest is installed.
ImportInv ==
    /\ job.kind \in {"store", "install"} => archive.whole /\ archive \notin Foreign
    /\ job.kind = "store" =>
          {f.h : f \in archive.frames} \ job.todo \subseteq {f.h : f \in packs}
    /\ job.kind = "install" =>
          /\ job.todo \subseteq DOMAIN archive.cat
          /\ mode # "managed" => {f.h : f \in archive.frames} \subseteq index

\* The inductive invariant.
LifeInv ==
    /\ mode \in Modes /\ now \in 0 .. MaxTime
    /\ job \in JobT
    /\ MadeOK(made, now) /\ Lineage(made)
    /\ StoreInv /\ ArchInv /\ StampInv /\ PlanInv /\ ImportInv /\ PrimeDirective

-----------------------------------------------------------------------------
(* Closed sets and catalogs *)

\* The least closed set is closed, holds what was chosen, and lies in every
\* closed set that does.
LEMMA LeastClosedFacts ==
  ASSUME NEW chosen, NEW all, NEW needs, NEW C, C = LeastClosed(chosen, all, needs)
  PROVE  /\ C \subseteq all
         /\ chosen \cap all \subseteq C
         /\ \A x \in C : needs[x] \cap all \subseteq C
         /\ \A T \in SUBSET all :
              chosen \subseteq T /\ (\A x \in T : needs[x] \cap all \subseteq T) => C \subseteq T
<1>1. C \subseteq all
  BY DEF LeastClosed
<1>2. chosen \cap all \subseteq C
  BY DEF LeastClosed
<1>3. ASSUME NEW x \in C, NEW y \in needs[x] \cap all PROVE y \in C
  <2>1. SUFFICES ASSUME NEW set \in SUBSET all, chosen \subseteq set,
                        \A z \in set : needs[z] \cap all \subseteq set
                 PROVE  y \in set
    BY <1>3 DEF LeastClosed
  <2>2. x \in set
    BY <1>3, <2>1 DEF LeastClosed
  <2> QED BY <2>1, <2>2, <1>3
<1>4. ASSUME NEW T \in SUBSET all, chosen \subseteq T, \A x \in T : needs[x] \cap all \subseteq T
      PROVE  C \subseteq T
  BY <1>4 DEF LeastClosed
<1> QED BY <1>1, <1>2, <1>3, <1>4

\* A backup that is begun, completed or resumed keeps what is known of the others.
LEMMA AddMade ==
  ASSUME NEW m, NEW t \in Nat, MadeOK(m, t), Lineage(m),
         NEW ids \in SUBSET Id, NEW meta \in MetaT,
         \A b \in ids : b \notin DOMAIN m \/ ~m[b].done,
         meta.at <= t, meta.started <= t,
         meta.parent \in {0} \cup Completed(m),
         meta.done \/ meta.data = {},
         meta.data = {} \/ (meta.parent # 0 /\ meta.data \subseteq {meta.parent} \cup m[meta.parent].data),
         NEW n, n = [j \in DOMAIN m \cup ids |-> IF j \in ids THEN meta ELSE m[j]]
  PROVE  /\ MadeOK(n, t) /\ Lineage(n)
         /\ DOMAIN n = DOMAIN m \cup ids
         /\ Completed(m) \subseteq Completed(n)
         /\ \A b \in Completed(m) : n[b] = m[b] /\ b \notin ids
<1>d. DOMAIN n = DOMAIN m \cup ids
  OBVIOUS
<1>m. m \in [DOMAIN m -> MetaT] /\ DOMAIN m \subseteq Id
  BY DEF MadeOK
<1>n. n \in [DOMAIN n -> MetaT]
  BY <1>d, <1>m
<1>a. \A b \in ids : n[b] = meta
  BY <1>d
<1>b. \A b \in DOMAIN m : b \notin ids => n[b] = m[b]
  BY <1>d
<1>c. \A b \in Completed(m) : n[b] = m[b] /\ b \notin ids
  BY <1>b DEF Completed
<1>e. Completed(m) \subseteq Completed(n)
  BY <1>c, <1>d DEF Completed
<1>1. MadeOK(n, t)
  <2>1. ASSUME NEW b \in DOMAIN n
        PROVE  /\ n[b].at <= t /\ n[b].started <= t
               /\ n[b].parent \in {0} \cup Completed(n)
               /\ n[b].done \/ n[b].data = {}
    <3>1. CASE b \in ids
      BY <3>1, <1>a, <1>e
    <3>2. CASE b \notin ids
      BY Zenon, <3>2, <1>b, <1>d, <1>e DEF MadeOK
    <3> QED BY <3>1, <3>2
  <2> QED BY Zenon, <2>1, <1>n, <1>d, <1>m DEF MadeOK
<1>2. ASSUME NEW x \in DOMAIN n, NEW S \in SUBSET DOMAIN n, x \in S,
             \A y \in S : n[y].parent \in S \cup {0}
      PROVE  n[x].data \subseteq S
  <2> DEFINE T == S \ ids
  <2>1. T \in SUBSET DOMAIN m
    BY <1>d
  <2>2. ASSUME NEW y \in T PROVE m[y].parent \in T \cup {0}
    <3>1. y \in DOMAIN m /\ n[y] = m[y] /\ n[y].parent \in S \cup {0}
      BY <1>2, <1>b, <1>d
    <3>2. m[y].parent \in {0} \cup Completed(m)
      BY <3>1 DEF MadeOK
    <3> QED BY Zenon, <3>1, <3>2, <1>c
  <2>3. ASSUME NEW z \in T PROVE m[z].data \subseteq T
    BY Zenon, <2>1, <2>2, <2>3 DEF Lineage
  <2>4. CASE x \in ids /\ meta.data # {}
    <3>1. meta.parent \in Completed(m) /\ meta.data \subseteq {meta.parent} \cup m[meta.parent].data
      BY <2>4
    <3>2. meta.parent \in S
      BY Zenon, <2>4, <3>1, <1>2, <1>a
    <3>3. meta.parent \in T
      BY Zenon, <3>1, <3>2, <1>c
    <3> QED BY <3>1, <3>3, <2>3, <2>4, <1>a
  <2>5. CASE x \in ids /\ meta.data = {}
    BY <2>5, <1>a
  <2>6. CASE x \notin ids
    <3>1. x \in T /\ n[x] = m[x]
      BY <2>6, <1>2, <1>b, <1>d
    <3> QED BY <3>1, <2>3
  <2> QED BY <2>4, <2>5, <2>6
<1>3. Lineage(n)
  BY Zenon, <1>2 DEF Lineage
<1> QED BY <1>1, <1>3, <1>c, <1>d, <1>e

\* The catalog m with p for the parent of b.
Stamped(m, b, p) == [m EXCEPT ![b].parent = p]

\* The lineage of a backup that had none may be stamped on it.
LEMMA StampMade ==
  ASSUME NEW m, NEW t \in Nat, MadeOK(m, t), Lineage(m),
         NEW b \in Completed(m), m[b].parent = 0, NEW p \in Completed(m),
         NEW n, n = Stamped(m, b, p)
  PROVE  /\ MadeOK(n, t) /\ Lineage(n)
         /\ Completed(n) = Completed(m) /\ DOMAIN n = DOMAIN m
         /\ \A c \in DOMAIN m : c # b => n[c] = m[c]
<1>m. m \in [DOMAIN m -> MetaT] /\ DOMAIN m \subseteq Id /\ b \in DOMAIN m
  BY DEF MadeOK, Completed
<1>p. p \in Nat
  BY <1>m, LifeBounds DEF Completed
<1>d. DOMAIN n = DOMAIN m
  BY <1>m DEF Stamped
<1>c. \A c \in DOMAIN m : c # b => n[c] = m[c]
  BY <1>m DEF Stamped
<1>b. n[b] = [m[b] EXCEPT !.parent = p]
  BY <1>m DEF Stamped
<1>t. m[b] \in MetaT
  BY <1>m
<1>f. /\ n[b] \in MetaT /\ n[b].parent = p /\ n[b].at = m[b].at
      /\ n[b].started = m[b].started /\ n[b].done = m[b].done /\ n[b].data = m[b].data
  BY <1>b, <1>t, <1>p DEF MetaT
<1>n. n \in [DOMAIN n -> MetaT]
  BY <1>d, <1>c, <1>f, <1>m DEF Stamped
<1>e. Completed(n) = Completed(m)
  BY <1>d, <1>c, <1>f DEF Completed
<1>1. MadeOK(n, t)
  <2>1. ASSUME NEW c \in DOMAIN n
        PROVE  /\ n[c].at <= t /\ n[c].started <= t
               /\ n[c].parent \in {0} \cup Completed(n)
               /\ n[c].done \/ n[c].data = {}
    <3>1. CASE c = b
      BY <3>1, <1>f, <1>e, <1>m DEF MadeOK
    <3>2. CASE c # b
      BY <3>2, <1>c, <1>d, <1>e DEF MadeOK
    <3> QED BY <3>1, <3>2
  <2> QED BY <2>1, <1>n, <1>d, <1>m DEF MadeOK
<1>2. ASSUME NEW x \in DOMAIN n, NEW S \in SUBSET DOMAIN n, x \in S,
             \A y \in S : n[y].parent \in S \cup {0}
      PROVE  n[x].data \subseteq S
  <2>1. ASSUME NEW y \in S PROVE m[y].parent \in S \cup {0}
    BY <1>2, <1>c, <1>d
  <2>2. n[x].data = m[x].data
    BY <1>c, <1>d, <1>f
  <2> QED BY <2>1, <2>2, <1>2, <1>d DEF Lineage
<1>3. Lineage(n)
  BY <1>2 DEF Lineage
<1> QED BY <1>1, <1>3, <1>c, <1>d, <1>e

\* What a set of kept backups that knows its parents keeps of a restorable one.
LEMMA ClosureAvoids ==
  ASSUME MadeOK(made, now), Lineage(made), NEW plan, NEW b \in listed \ plan,
         listed \subseteq DOMAIN made,
         \A k \in listed \ plan : made[k].parent \notin plan,
         \A x \in Closure(b) : x \in listed
  PROVE  Closure(b) \cap plan = {}
<1>0. PICK needs : needs = [x \in DOMAIN made |-> ReferenceEdges(made[x])]
  BY Zenon
<1>1. PICK C : C = Closure(b)
  OBVIOUS
<1> DEFINE T == C \ plan
<1>a. C = LeastClosed({b}, DOMAIN made, needs)
  BY <1>0, <1>1 DEF Closure
<1>2. /\ C \subseteq DOMAIN made /\ {b} \cap DOMAIN made \subseteq C
      /\ \A x \in C : needs[x] \cap DOMAIN made \subseteq C
      /\ \A U \in SUBSET DOMAIN made :
           {b} \subseteq U /\ (\A x \in U : needs[x] \cap DOMAIN made \subseteq U) => C \subseteq U
  BY <1>a, LeastClosedFacts
<1>3. b \in T
  BY <1>2
<1>4. ASSUME NEW y \in T PROVE made[y].parent \in T \cup {0}
  <2>1. y \in listed \ plan /\ y \in DOMAIN made
    BY <1>1, <1>2
  <2>2. made[y].parent \in {0} \cup DOMAIN made
    BY <2>1 DEF MadeOK, Completed
  <2>3. made[y].parent # 0 => made[y].parent \in needs[y]
    BY <2>1, <1>0 DEF ReferenceEdges
  <2> QED BY <2>1, <2>2, <2>3, <1>2
<1>5. ASSUME NEW x \in T PROVE made[x].data \subseteq T
  BY Zenon, <1>4, <1>2 DEF Lineage
<1>6. ASSUME NEW x \in T PROVE needs[x] \cap DOMAIN made \subseteq T
  <2>1. needs[x] \subseteq ({made[x].parent} \cup made[x].data) /\ (made[x].parent = 0 => needs[x] = made[x].data)
    BY Zenon, <1>0, <1>2 DEF ReferenceEdges
  <2> QED BY <2>1, <1>4, <1>5
<1>t. T \in SUBSET DOMAIN made /\ {b} \subseteq T
  BY <1>2, <1>3
<1>7. C \subseteq T
  <2> HIDE DEF T
  <2> QED BY <1>2, <1>t, <1>6
<1> QED BY <1>1, <1>7

\* Every nonempty set of natural numbers has a least element.
LEMMA NatMin ==
  ASSUME NEW T \in SUBSET Nat, T # {}
  PROVE  \E n \in T : \A m \in T : n <= m
<1> DEFINE R == {ss \in Nat \X Nat : ss[1] < ss[2]}
<1>1. IsWellFoundedOn(R, Nat)
  BY NatLessThanWellFounded DEF OpToRel
<1>2. PICK n \in T : \A m \in T : ~(<<m, n>> \in R)
  BY Zenon, <1>1, WFMin
<1>3. ASSUME NEW m \in T PROVE n <= m
  <2>1. <<m, n>> \in Nat \X Nat /\ m \in Nat /\ n \in Nat
    OBVIOUS
  <2>2. ~(m < n)
    BY <1>2, <2>1 DEF R
  <2> QED BY <2>1, <2>2
<1> QED BY <1>3

\* Every source with a completed backup has a newest one.
LEMMA NewestExists ==
  ASSUME NEW m, NEW t \in Nat, DOMAIN m \subseteq Nat,
         \A b \in DOMAIN m : /\ m[b].at \in Nat /\ m[b].at <= t
                             /\ m[b].started \in Nat /\ m[b].started <= t,
         NEW b \in Completed(m)
  PROVE  \E k \in NewestOfSource(m) : m[k].src = m[b].src /\ m[k].at >= m[b].at
<1> DEFINE P == Peers(m, b)
           A == {t - m[p].at : p \in P}
<1>p. P \subseteq DOMAIN m /\ b \in P /\ P \subseteq Completed(m)
  BY DEF Peers, Completed
<1>1. PICK p1 \in P : \A p \in P : m[p].at <= m[p1].at
  <2>1. A \in SUBSET Nat /\ A # {}
    BY <1>p
  <2>2. PICK n \in A : \A j \in A : n <= j
    BY Zenon, <2>1, NatMin
  <2>3. PICK p1 \in P : n = t - m[p1].at
    BY <2>2
  <2>4. ASSUME NEW p \in P PROVE m[p].at <= m[p1].at
    <3>1. n <= t - m[p].at
      BY <2>2
    <3> QED BY <3>1, <2>3, <1>p
  <2> QED BY <2>4
<1> DEFINE P1 == {p \in P : m[p].at = m[p1].at}
           B == {t - m[p].started : p \in P1}
<1>2. PICK p2 \in P1 : \A p \in P1 : m[p].started <= m[p2].started
  <2>1. B \in SUBSET Nat /\ B # {}
    BY <1>p
  <2>2. PICK n \in B : \A j \in B : n <= j
    BY Zenon, <2>1, NatMin
  <2>3. PICK p2 \in P1 : n = t - m[p2].started
    BY <2>2
  <2>4. ASSUME NEW p \in P1 PROVE m[p].started <= m[p2].started
    <3>1. n <= t - m[p].started
      BY <2>2
    <3> QED BY <3>1, <2>3, <1>p
  <2> QED BY <2>4
<1> DEFINE P2 == {p \in P1 : m[p].started = m[p2].started}
<1>3. PICK k \in P2 : \A p \in P2 : k <= p
  <2>1. P2 \in SUBSET Nat /\ P2 # {}
    BY <1>p, <1>2
  <2> QED BY Zenon, <2>1, NatMin
<1>4. k \in P /\ m[k].src = m[b].src /\ k \in Completed(m)
  BY <1>3, <1>p DEF Peers
<1>5. Peers(m, k) = P
  BY <1>4 DEF Peers
<1>6. ASSUME NEW p \in P \ {k} PROVE Newer(m, k, p)
  <2>1. /\ m[p].at \in Nat /\ m[p].started \in Nat /\ p \in Nat
        /\ m[k].at \in Nat /\ m[k].started \in Nat /\ k \in Nat
    BY <1>p, <1>4
  <2>2. m[p].at <= m[k].at
    BY <1>1, <1>3
  <2>3. m[p].at = m[k].at => m[p].started <= m[k].started
    BY <1>2, <1>3
  <2>4. m[p].at = m[k].at /\ m[p].started = m[k].started => k < p
    <3>1. SUFFICES ASSUME m[p].at = m[k].at, m[p].started = m[k].started PROVE k < p
      OBVIOUS
    <3>2. p \in P2
      BY <3>1, <1>3
    <3> QED BY <3>2, <1>3, <2>1
  <2> HIDE DEF P, P1, P2
  <2> QED BY <2>1, <2>2, <2>3, <2>4 DEF Newer
<1>7. k \in NewestOfSource(m)
  BY <1>4, <1>5, <1>6 DEF NewestOfSource
<1>8. m[k].at >= m[b].at
  <2>1. m[k].at = m[p1].at /\ m[b].at <= m[p1].at /\ m[p1].at \in Nat /\ m[b].at \in Nat
    BY <1>1, <1>3, <1>p
  <2> QED BY <2>1
<1> QED BY <1>4, <1>7, <1>8

\* A catalog without some of its backups.
LEMMA RestrictFacts ==
  ASSUME NEW f, NEW ids, NEW i \in ids
  PROVE  DOMAIN Restrict1(f, ids) = ids /\ Restrict1(f, ids)[i] = f[i]
BY DEF Restrict1

-----------------------------------------------------------------------------
(* The backup commands *)

\* The backups ids may be begun, or completed, with the metadata meta.
Fresh(ids, meta) ==
    /\ ids \in SUBSET Id /\ meta \in MetaT
    /\ \A b \in ids : b \notin DOMAIN made \/ ~made[b].done
    /\ meta.at <= now /\ meta.started <= now
    /\ meta.done \/ meta.data = {}
    /\ meta.parent \in {0} \cup Completed(made)
    /\ meta.data = {} \/ (meta.parent # 0 /\ meta.data \subseteq {meta.parent} \cup made[meta.parent].data)

\* What the command goes on with: nothing, or the stamping of the lineage.
GoesOn(ids, meta) ==
    \/ job' = Idle
    \/ \E p \in Completed(made) :
          /\ meta.parent = 0
          /\ job' = [Idle EXCEPT !.kind = "stamp", !.todo = ids, !.parent = p]

\* A run of the backup command that saves the backups ids.
Saving(ids, meta) ==
    job = Idle /\ Fresh(ids, meta) /\ meta.done /\ Save(ids, meta) /\ GoesOn(ids, meta)

\* One that is interrupted.
Suspending(ids, meta) ==
    /\ job = Idle /\ Fresh(ids, meta) /\ ids \cap DOMAIN made = {}
    /\ made' = [j \in DOMAIN made \cup ids |-> IF j \in ids THEN meta ELSE made[j]]
    /\ UNCHANGED <<mode, now, listed, damaged, packs, index, archive, job, bounds>>

\* The parts of the invariant that the proofs below use most.
LEMMA BasicFacts ==
  ASSUME LifeInv
  PROVE  /\ now \in Nat /\ Id \subseteq Nat /\ 0 \notin Id
         /\ DOMAIN made \subseteq Id /\ made \in [DOMAIN made -> MetaT]
         /\ Completed(made) \subseteq DOMAIN made
         /\ listed \subseteq Completed(made)
         /\ \A b \in DOMAIN made : /\ made[b].at <= now /\ made[b].started <= now
                                   /\ made[b].parent \in {0} \cup Completed(made)
                                   /\ made[b].done \/ made[b].data = {}
         /\ \A b \in Completed(made) : made[b].done
<1>1. now \in Nat /\ Id \subseteq Nat /\ 0 \notin Id
  BY LifeBounds DEF LifeInv
<1>2. Completed(made) \subseteq DOMAIN made /\ \A b \in Completed(made) : made[b].done
  BY DEF Completed
<1> QED BY <1>1, <1>2 DEF LifeInv, MadeOK, StoreInv

\* Each of the backup commands saves new or suspended backups, or suspends one
\* (BackupFull, BackupIncremental, BackupResume, ...).
LEMMA BackupCases ==
  ASSUME LifeInv, NEW b \in Id, TakeBackup(b)
  PROVE  (\E ids, meta : Saving(ids, meta)) \/ (\E ids, meta : Suspending(ids, meta))
<1>f. /\ now \in Nat /\ Id \subseteq Nat /\ 0 \notin Id
      /\ DOMAIN made \subseteq Id /\ made \in [DOMAIN made -> MetaT]
      /\ Completed(made) \subseteq DOMAIN made
      /\ listed \subseteq Completed(made)
      /\ \A x \in DOMAIN made : /\ made[x].at <= now /\ made[x].started <= now
                                /\ made[x].parent \in {0} \cup Completed(made)
                                /\ made[x].done \/ made[x].data = {}
      /\ \A x \in Completed(made) : made[x].done
  BY BasicFacts
<1>t. \A x \in DOMAIN made : /\ made[x].src \in Sources /\ made[x].data \in SUBSET Nat
                             /\ made[x].parent \in Nat /\ made[x].started \in Nat
                             /\ made[x].done \in BOOLEAN /\ made[x] \in MetaT
  BY <1>f DEF MetaT
<1>s. \A x : x \in Unused => {x} \in SUBSET Id /\ x \notin DOMAIN made
  BY DEF Unused
<1>1. ASSUME NEW s \in Sources, BackupFull(b, s) PROVE \E ids, meta : Saving(ids, meta)
  <2>1. PICK x : x = Meta(s, 0, {}, 0, TRUE)
    BY Zenon
  <2>2. x \in MetaT /\ x.at = now /\ x.started = now /\ x.parent = 0 /\ x.data = {} /\ x.done
    BY <2>1, <1>f DEF Meta, MetaT
  <2>3. Save({b}, x) /\ job = Idle /\ job' = Idle /\ b \in Unused
    BY Zenon, <1>1, <2>1 DEF BackupFull
  <2>x. Fresh({b}, x)
    BY <2>2, <2>3, <1>f, <1>s DEF Fresh
  <2>y. GoesOn({b}, x)
    BY <2>2, <2>3, <1>f, <1>s DEF GoesOn
  <2>4. Saving({b}, x)
    BY <2>x, <2>y, <2>2, <2>3 DEF Saving
  <2> QED BY <2>4
<1>2. ASSUME NEW s \in Sources, NEW c \in Id, BackupSnapshot(b, c, s) PROVE \E ids, meta : Saving(ids, meta)
  <2>1. PICK x : x = Meta(s, 0, {}, b, TRUE)
    BY Zenon
  <2>2. x \in MetaT /\ x.at = now /\ x.started = now /\ x.parent = 0 /\ x.data = {} /\ x.done
    BY <2>1, <1>f DEF Meta, MetaT
  <2>3. Save({b, c}, x) /\ job = Idle /\ job' = Idle /\ {b, c} \subseteq Unused
    BY Zenon, <1>2, <2>1 DEF BackupSnapshot
  <2>x. Fresh({b, c}, x)
    BY <2>2, <2>3, <1>f, <1>s DEF Fresh
  <2>y. GoesOn({b, c}, x)
    BY <2>2, <2>3, <1>f, <1>s DEF GoesOn
  <2>4. Saving({b, c}, x)
    BY <2>x, <2>y, <2>2, <2>3 DEF Saving
  <2> QED BY <2>4
<1>3. ASSUME NEW p \in listed, BackupIncremental(b, p) PROVE \E ids, meta : Saving(ids, meta)
  <2>1. PICK x : x = Meta(made[p].src, 0, {}, 0, TRUE)
    BY Zenon
  <2>0. p \in Completed(made) /\ made[p].src \in Sources
    BY <1>f, <1>t
  <2>2. x \in MetaT /\ x.at = now /\ x.started = now /\ x.parent = 0 /\ x.data = {} /\ x.done
    BY <2>0, <2>1, <1>f DEF Meta, MetaT
  <2>3. /\ Save({b}, x) /\ job = Idle /\ b \in Unused
        /\ job' = [Idle EXCEPT !.kind = "stamp", !.todo = {b}, !.parent = p]
    BY Zenon, <1>3, <2>1 DEF BackupIncremental
  <2>x. Fresh({b}, x)
    BY <2>2, <2>3, <1>f, <1>s DEF Fresh
  <2>y. GoesOn({b}, x)
    BY Zenon, <2>2, <2>3, <1>f, <1>s DEF GoesOn
  <2>4. Saving({b}, x)
    BY <2>x, <2>y, <2>2, <2>3 DEF Saving
  <2> QED BY <2>4
<1>4. ASSUME NEW p \in listed, BackupWatcher(b, p) PROVE \E ids, meta : Saving(ids, meta)
  <2>0. p \in Completed(made) /\ made[p].src \in Sources /\ p \in Nat /\ p # 0 /\ made[p].data \in SUBSET Nat
    BY <1>f, <1>t
  <2>1. PICK d \in {p} \cup made[p].data : Save({b}, Meta(made[p].src, p, {d}, 0, TRUE))
    BY Zenon, <1>4 DEF BackupWatcher
  <2>2. PICK x : x = Meta(made[p].src, p, {d}, 0, TRUE)
    BY Zenon
  <2>d. {d} \in SUBSET Nat
    BY <2>0
  <2>3. x \in MetaT /\ x.at = now /\ x.started = now /\ x.parent = p /\ x.data = {d} /\ x.done
    BY <2>0, <2>d, <2>2, <1>f DEF Meta, MetaT
  <2>4. Save({b}, x) /\ job = Idle /\ job' = Idle /\ b \in Unused
    BY Zenon, <1>4, <2>1, <2>2 DEF BackupWatcher
  <2>x. Fresh({b}, x)
    BY <2>0, <2>3, <2>4, <1>f, <1>s DEF Fresh
  <2>y. GoesOn({b}, x)
    BY <2>0, <2>3, <2>4, <1>f, <1>s DEF GoesOn
  <2>5. Saving({b}, x)
    BY <2>x, <2>y, <2>0, <2>3, <2>4 DEF Saving
  <2> QED BY <2>5
<1>5. ASSUME NEW s \in Sources, NEW p \in listed \cup {0}, BackupSuspend(b, s, p)
      PROVE  \E ids, meta : Suspending(ids, meta)
  <2>0. p \in Nat /\ p \in {0} \cup Completed(made)
    BY <1>f
  <2>1. PICK x : x = Meta(s, p, {}, 0, FALSE)
    BY Zenon
  <2>2. x \in MetaT /\ x.at = now /\ x.started = now /\ x.parent = p /\ x.data = {} /\ ~x.done
    BY <2>0, <2>1, <1>f DEF Meta, MetaT
  <2>3. /\ job = Idle /\ b \in Unused /\ made' = With(made, b, x)
        /\ UNCHANGED <<mode, now, listed, damaged, packs, index, archive, job, bounds>>
    BY <1>5, <2>1 DEF BackupSuspend
  <2>4. made' = [j \in DOMAIN made \cup {b} |-> IF j \in {b} THEN x ELSE made[j]]
    BY <2>3 DEF With
  <2>x. Fresh({b}, x)
    BY <2>0, <2>2, <2>3, <1>f, <1>s DEF Fresh
  <2>5. Suspending({b}, x)
    BY <2>x, <2>3, <2>4, <1>s DEF Suspending
  <2> QED BY <2>5
<1>6. ASSUME BackupResume(b) PROVE \E ids, meta : Saving(ids, meta)
  <2>0. b \in DOMAIN made /\ ~made[b].done /\ made[b] \in MetaT /\ made[b].data = {}
        /\ made[b].parent \in {0} \cup Completed(made) /\ made[b].started <= now
    BY <1>6, <1>f, <1>t DEF BackupResume
  <2>1. PICK x : x = [made[b] EXCEPT !.done = TRUE, !.at = now, !.parent = 0]
    OBVIOUS
  <2>2. x \in MetaT /\ x.at = now /\ x.started = made[b].started /\ x.parent = 0 /\ x.data = {} /\ x.done
    BY Zenon, <2>0, <2>1, <1>f DEF MetaT
  <2>3. /\ Save({b}, x) /\ job = Idle
        /\ job' = IF made[b].parent = 0 THEN Idle
                  ELSE [Idle EXCEPT !.kind = "stamp", !.todo = {b}, !.parent = made[b].parent]
    BY <1>6, <2>1 DEF BackupResume
  <2>4. \/ job' = Idle
        \/ made[b].parent \in Completed(made) /\ job' = [Idle EXCEPT !.kind = "stamp", !.todo = {b}, !.parent = made[b].parent]
    BY <2>0, <2>3
  <2>x. Fresh({b}, x)
    BY <2>0, <2>2, <2>3, <1>f DEF Fresh
  <2>y. GoesOn({b}, x)
    BY Zenon, <2>0, <2>2, <2>3, <1>f DEF GoesOn
  <2>5. Saving({b}, x)
    BY <2>x, <2>y, <2>0, <2>2, <2>3 DEF Saving
  <2> QED BY <2>5
<1> QED BY <1>1, <1>2, <1>3, <1>4, <1>5, <1>6 DEF TakeBackup

-----------------------------------------------------------------------------
(* The steps, one part of the invariant at a time *)

\* The steps of the specification, with the backup command reduced to what it saves.
LEMMA StepCases ==
  ASSUME LifeInv, [Next]_vars
  PROVE  \/ UNCHANGED vars \/ Tick \/ Crash
         \/ \E ids, meta : Saving(ids, meta)
         \/ \E ids, meta : Suspending(ids, meta)
         \/ ApplyParentLineage \/ Forget \/ Retain \/ DeleteNext \/ DeleteFails \/ DeletesDone
         \/ Prune \/ RebuildAll \/ (\E b \in Id : Damage(b)) \/ (\E b \in Id : Export(b))
         \/ Import \/ ImportChunk \/ ImportRebuild \/ ImportInstall \/ ImportDone
<1>1. ASSUME NEW b \in Id, TakeBackup(b)
      PROVE  (\E ids, meta : Saving(ids, meta)) \/ (\E ids, meta : Suspending(ids, meta))
  BY <1>1, BackupCases
<1> QED BY <1>1, Zenon DEF Next, JobStep

\* An import installs what was exported, and what was exported has not changed.
LEMMA InstallKeepsMade ==
  ASSUME LifeInv, ImportInstall
  PROVE  made' = made /\ \E b \in job.todo : b \in Completed(made) /\ b \in DOMAIN archive.cat
                           /\ listed' = listed \cup {b} /\ damaged' = damaged \ {b}
                           /\ job' = [job EXCEPT !.todo = @ \ {b}]
<1>1. PICK b \in job.todo : /\ job.kind = "install"
                            /\ made' = With(made, b, archive.cat[b])
                            /\ listed' = listed \cup {b} /\ damaged' = damaged \ {b}
                            /\ job' = [job EXCEPT !.todo = @ \ {b}]
  BY Zenon DEF ImportInstall
<1>2. b \in DOMAIN archive.cat /\ archive.whole /\ archive \notin Foreign
  BY <1>1 DEF LifeInv, ImportInv
<1>3. b \in Completed(made) /\ archive.cat[b] = made[b]
  BY <1>2 DEF LifeInv, ArchInv
<1>4. made \in [DOMAIN made -> MetaT] /\ b \in DOMAIN made
  BY <1>3, BasicFacts
<1>5. With(made, b, made[b]) = made
  BY <1>4 DEF With
<1> QED BY Zenon, <1>1, <1>2, <1>3, <1>5

\* No step changes what is known of a completed backup, except the stamping of a
\* lineage (ApplyParentLineage).
LEMMA MadeStep ==
  ASSUME LifeInv, [Next]_vars
  PROVE  /\ MadeOK(made', now') /\ Lineage(made')
         /\ \A b \in Completed(made) :
              b \in Completed(made') /\ (made'[b] = made[b] \/ (job.kind = "stamp" /\ b \in job.todo))
<1>f. now \in Nat /\ MadeOK(made, now) /\ Lineage(made)
  BY BasicFacts DEF LifeInv
<1> DEFINE Goal == /\ MadeOK(made', now') /\ Lineage(made')
                   /\ \A b \in Completed(made) :
                        b \in Completed(made') /\ (made'[b] = made[b] \/ (job.kind = "stamp" /\ b \in job.todo))
<1>a. ASSUME made' = made, now' = now \/ now' = now + 1 PROVE Goal
  <2>1. MadeOK(made, now')
    <3>1. ASSUME NEW b \in DOMAIN made PROVE made[b].at <= now' /\ made[b].started <= now'
      <4>1. made[b].at \in Nat /\ made[b].started \in Nat /\ made[b].at <= now /\ made[b].started <= now
        BY <1>f DEF MadeOK, MetaT
      <4> QED BY <4>1, <1>a, <1>f
    <3> QED BY <3>1, <1>f DEF MadeOK
  <2> QED BY <2>1, <1>a, <1>f
<1>b. ASSUME NEW ids, NEW meta, Fresh(ids, meta), now' = now,
             made' = [j \in DOMAIN made \cup ids |-> IF j \in ids THEN meta ELSE made[j]]
      PROVE  Goal
  <2>1. /\ ids \in SUBSET Id /\ meta \in MetaT
        /\ \A b \in ids : b \notin DOMAIN made \/ ~made[b].done
        /\ meta.at <= now /\ meta.started <= now
        /\ meta.done \/ meta.data = {}
        /\ meta.parent \in {0} \cup Completed(made)
        /\ meta.data = {} \/ (meta.parent # 0 /\ meta.data \subseteq {meta.parent} \cup made[meta.parent].data)
    BY <1>b DEF Fresh
  <2>2. /\ MadeOK(made', now) /\ Lineage(made')
        /\ Completed(made) \subseteq Completed(made')
        /\ \A b \in Completed(made) : made'[b] = made[b]
    BY <2>1, <1>b, <1>f, AddMade
  <2> QED BY <2>2, <1>b
<1>1. CASE \E ids, meta : Saving(ids, meta)
  BY Zenon, <1>1, <1>b DEF Saving, Save
<1>2. CASE \E ids, meta : Suspending(ids, meta)
  BY Zenon, <1>2, <1>b DEF Suspending
<1>3. CASE ApplyParentLineage
  <2>1. PICK b \in job.todo : made' = IF job.parent \in damaged THEN made
                                      ELSE [made EXCEPT ![b].parent = job.parent]
    BY Zenon, <1>3 DEF ApplyParentLineage
  <2>2. now' = now /\ job.kind = "stamp"
    BY <1>3 DEF ApplyParentLineage
  <2>3. b \in Completed(made) /\ made[b].parent = 0 /\ job.parent \in Completed(made)
    BY <2>2 DEF LifeInv, StampInv
  <2>4. CASE made' = [made EXCEPT ![b].parent = job.parent]
    <3>1. /\ MadeOK(made', now) /\ Lineage(made') /\ Completed(made') = Completed(made)
          /\ \A c \in DOMAIN made : c # b => made'[c] = made[c]
      <4>1. PICK p : p = job.parent
        OBVIOUS
      <4>2. PICK n : n = Stamped(made, b, p)
        OBVIOUS
      <4>3. p \in Completed(made) /\ made' = n
        BY <4>1, <4>2, <2>3, <2>4 DEF Stamped
      <4>4. /\ MadeOK(n, now) /\ Lineage(n) /\ Completed(n) = Completed(made)
            /\ \A c \in DOMAIN made : c # b => n[c] = made[c]
        BY <4>2, <4>3, <2>3, <1>f, StampMade
      <4> QED BY <4>3, <4>4
    <3>2. Completed(made) \subseteq DOMAIN made
      BY DEF Completed
    <3> QED BY <3>1, <3>2, <2>2
  <2> QED BY Zenon, <2>1, <2>2, <2>4, <1>a
<1>4. CASE ImportInstall
  <2>1. made' = made /\ now' = now
    BY Zenon, <1>4, InstallKeepsMade DEF ImportInstall
  <2> QED BY <2>1, <1>a
<1>5. CASE \/ UNCHANGED vars \/ Tick \/ Crash \/ Forget \/ Retain \/ DeleteNext \/ DeleteFails
           \/ DeletesDone \/ Prune \/ RebuildAll \/ (\E b \in Id : Damage(b)) \/ (\E b \in Id : Export(b))
           \/ Import \/ ImportChunk \/ ImportRebuild \/ ImportDone
  <2>1. made' = made
    BY Zenon, <1>5 DEF vars, repo, Tick, Crash, Forget, Retain, DeleteNext, DeleteFails, DeletesDone,
                Prune, RebuildAll, Damage, Export, Import, ImportChunk, ImportRebuild, ImportDone
  <2>2. now' = now \/ now' = now + 1
    BY Zenon, <1>5 DEF vars, repo, Tick, Crash, Forget, Retain, DeleteNext, DeleteFails, DeletesDone,
                Prune, RebuildAll, Damage, Export, Import, ImportChunk, ImportRebuild, ImportDone
  <2> QED BY <2>1, <2>2, <1>a
<1> QED BY <1>1, <1>2, <1>3, <1>4, <1>5, StepCases

\* The hashes of a set of frames.
HashesOf(fs) == {f.h : f \in fs}

\* No command but a backup and an import adds a listed backup or drops a chunk
\* that one needs.
LEMMA StoreStep ==
  ASSUME LifeInv, [Next]_vars
  PROVE  StoreInv'
<1>i. /\ listed \subseteq Completed(made) /\ damaged \subseteq listed
      /\ packs \subseteq FrameT(mode) /\ index \subseteq HashesOf(packs)
      /\ mode # "managed" => \A b \in listed : Chunks(b) \subseteq index
  BY DEF LifeInv, StoreInv, HashesOf
<1>m. Completed(made) \subseteq Completed(made')
  BY MadeStep
<1>f. Id \subseteq Nat /\ 0 \in Nat
  BY BasicFacts
<1>mode. mode' = mode
  BY Zenon, StepCases DEF vars, repo, Tick, Crash, Saving, Save, Suspending, ApplyParentLineage,
     Forget, Retain,
     DeleteNext, DeleteFails, DeletesDone, Prune, RebuildAll, Damage, Export, Import,
     ImportChunk, ImportRebuild, ImportInstall, ImportDone
<1> DEFINE Goal == /\ listed' \subseteq Completed(made') /\ damaged' \subseteq listed'
                   /\ packs' \subseteq FrameT(mode) /\ index' \subseteq HashesOf(packs')
                   /\ mode # "managed" => \A b \in listed' : Chunks(b) \subseteq index'
<1>g. SUFFICES Goal
  BY <1>mode DEF StoreInv, HashesOf, Chunks
<1>a. ASSUME listed' \subseteq listed, damaged' \subseteq listed', UNCHANGED <<packs, index>> PROVE Goal
  BY <1>a, <1>i, <1>m
<1>1. CASE \/ UNCHANGED vars \/ Tick \/ Crash \/ (\E ids, meta : Suspending(ids, meta))
           \/ ApplyParentLineage \/ Forget \/ Retain \/ DeleteFails \/ DeletesDone
           \/ (\E b \in Id : Export(b)) \/ Import \/ ImportDone
  <2>1. UNCHANGED <<listed, damaged, packs, index>>
    BY Zenon, <1>1 DEF vars, repo, Tick, Crash, Suspending, ApplyParentLineage, Forget, Retain,
       DeleteFails,
                DeletesDone, Export, Import, ImportDone
  <2> QED BY <2>1, <1>a, <1>i
<1>2. CASE DeleteNext
  <2>1. PICK b : listed' = listed \ {b} /\ damaged' = damaged \ {b} /\ UNCHANGED <<packs, index>>
    BY <1>2 DEF DeleteNext
  <2> QED BY <2>1, <1>a, <1>i
<1>3. CASE \E b \in Id : Damage(b)
  <2>1. PICK b : damaged' = damaged \cup {b} /\ b \in listed /\ UNCHANGED <<listed, packs, index>>
    BY <1>3 DEF Damage, Readable
  <2> QED BY <2>1, <1>a, <1>i
<1>4. CASE \E ids, meta : Saving(ids, meta)
  <2>1. PICK ids, meta : Saving(ids, meta)
    BY <1>4
  <2>2. ids \subseteq Id /\ meta.done
    BY <2>1 DEF Saving, Fresh
  <2>3. PICK hashes : hashes = UNION {Chunks(b) : b \in ids}
    BY Zenon
  <2>4. /\ made' = [j \in DOMAIN made \cup ids |-> IF j \in ids THEN meta ELSE made[j]]
        /\ listed' = listed \cup ids
        /\ packs' = packs \cup {Frame(h) : h \in hashes \ index}
        /\ index' = index \cup hashes /\ damaged' = damaged
    BY <2>1, <2>3 DEF Saving, Save
  <2>5. hashes \subseteq Nat /\ \A b \in ids : Chunks(b) \subseteq hashes
    BY <2>2, <2>3, <1>f DEF Chunks
  <2>6. ids \subseteq Completed(made')
    BY <2>2, <2>4 DEF Completed
  <2>7. packs' \subseteq FrameT(mode)
    BY <2>4, <2>5, <1>i DEF Frame, FrameT
  <2>8. hashes \ index \subseteq HashesOf(packs')
    <3>1. ASSUME NEW h \in hashes \ index PROVE h \in HashesOf(packs')
      <4>1. Frame(h) \in packs' /\ Frame(h).h = h
        BY <2>4 DEF Frame
      <4> QED BY <4>1 DEF HashesOf
    <3> QED BY <3>1
  <2>9. HashesOf(packs) \subseteq HashesOf(packs')
    BY <2>4 DEF HashesOf
  <2>10. listed' \subseteq Completed(made') /\ damaged' \subseteq listed'
    BY <2>4, <2>6, <1>i, <1>m
  <2>11. index' \subseteq HashesOf(packs')
    BY <2>4, <2>8, <2>9, <1>i
  <2>12. ASSUME mode # "managed", NEW b \in listed' PROVE Chunks(b) \subseteq index'
    BY <2>12, <2>4, <2>5, <1>i
  <2> QED BY <2>7, <2>10, <2>11, <2>12
<1>5. CASE Prune
  <2>1. PICK kept : kept = index \cap UNION {Chunks(b) : b \in listed}
    BY Zenon
  <2>2. /\ UNCHANGED <<made, listed, damaged>>
        /\ UNCHANGED <<packs, index>> \/ (packs' = {f \in packs : f.h \in kept} /\ index' = kept)
    BY <1>5, <2>1 DEF Prune
  <2>3. CASE packs' = {f \in packs : f.h \in kept} /\ index' = kept
    <3>1. kept \subseteq HashesOf(packs')
      <4>1. ASSUME NEW h \in kept PROVE h \in HashesOf(packs')
        <5>1. PICK f \in packs : f.h = h
          BY <1>i, <2>1 DEF HashesOf
        <5> QED BY <5>1, <2>3 DEF HashesOf
      <4> QED BY <4>1
    <3>2. ASSUME mode # "managed", NEW b \in listed PROVE Chunks(b) \subseteq kept
      BY <3>2, <2>1, <1>i
    <3>3. packs' \subseteq FrameT(mode)
      BY <2>3, <1>i
    <3> QED BY <3>1, <3>2, <3>3, <2>2, <2>3, <1>i, <1>m
  <2> QED BY <2>2, <2>3, <1>a, <1>i
<1>6. CASE ImportInstall
  <2>1. PICK b \in job.todo : /\ b \in Completed(made) /\ b \in DOMAIN archive.cat
                              /\ listed' = listed \cup {b} /\ damaged' = damaged \ {b}
    BY <1>6, InstallKeepsMade
  <2>2. UNCHANGED <<packs, index>> /\ job.kind = "install"
    BY <1>6 DEF ImportInstall
  <2>3. archive.whole /\ archive \notin Foreign /\ (mode # "managed" => HashesOf(archive.frames) \subseteq index)
    BY <2>2 DEF LifeInv, ImportInv, HashesOf
  <2>4. Chunks(b) \subseteq HashesOf(archive.frames)
    BY <2>1, <2>3 DEF LifeInv, ArchInv, HashesOf
  <2>5. ASSUME mode # "managed", NEW c \in listed' PROVE Chunks(c) \subseteq index'
    BY <2>5, <2>1, <2>2, <2>3, <2>4, <1>i
  <2> QED BY <2>1, <2>2, <2>5, <1>i, <1>m
<1>7. CASE RebuildAll \/ ImportRebuild
  <2>1. UNCHANGED <<listed, damaged, packs>> /\ (UNCHANGED index \/ index' = HashesOf(packs))
    BY <1>7 DEF RebuildAll, ImportRebuild, HashesOf
  <2> QED BY <2>1, <1>i, <1>m, <1>a
<1>8. CASE ImportChunk
  <2>1. PICK h : packs' = packs \cup {f \in archive.frames : f.h = h /\ h \notin index}
    BY <1>8 DEF ImportChunk
  <2>2. UNCHANGED <<listed, damaged, index>> /\ job.kind = "store"
    BY <1>8 DEF ImportChunk
  <2>3. archive.frames \subseteq FrameT(mode)
    BY <2>2 DEF LifeInv, ImportInv, ArchInv
  <2>4. HashesOf(packs) \subseteq HashesOf(packs') /\ packs' \subseteq FrameT(mode)
    BY <2>1, <2>3, <1>i DEF HashesOf
  <2> QED BY <2>2, <2>4, <1>i, <1>m
<1> QED BY <1>1, <1>2, <1>3, <1>4, <1>5, <1>6, <1>7, <1>8, StepCases

\* Only an export changes the archive, and nothing changes the mode.
LEMMA ArchiveFrame ==
  ASSUME LifeInv, [Next]_vars
  PROVE  mode' = mode /\ (archive' = archive \/ \E b \in Id : Export(b))
BY Zenon, StepCases DEF vars, repo, Tick, Crash, Saving, Save, Suspending, ApplyParentLineage,
   Forget, Retain,
     DeleteNext, DeleteFails, DeletesDone, Prune, RebuildAll, Damage, Import,
     ImportChunk, ImportRebuild, ImportInstall, ImportDone, Export

\* What an archive made here holds.
Exported(a, m, key) ==
    /\ DOMAIN a.cat \subseteq Completed(m)
    /\ a.frames \subseteq FrameT(key)
    /\ \A b \in DOMAIN a.cat : a.cat[b] = m[b] /\ Chunks(b) \subseteq HashesOf(a.frames)

\* The invariant of the archive is that it was exported here.
LEMMA ArchExported == ArchInv <=> (archive.whole /\ archive \notin Foreign => Exported(archive, made, mode))
BY DEF ArchInv, Exported, HashesOf

\* An archive goes on being what was exported, since nothing it holds is changed
\* (exportimport Export).
LEMMA ArchStep ==
  ASSUME LifeInv, [Next]_vars
  PROVE  ArchInv'
<1>0. SUFFICES ASSUME archive'.whole, archive' \notin Foreign
               PROVE  Exported(archive', made', mode)
  BY ArchiveFrame DEF ArchInv, Exported, HashesOf, Chunks
<1>m. /\ \A b \in Completed(made) :
              b \in Completed(made') /\ (made'[b] = made[b] \/ (job.kind = "stamp" /\ b \in job.todo))
  BY MadeStep
<1>1. CASE archive' = archive
  <2>1. Exported(archive, made, mode)
    BY <1>0, <1>1, ArchExported DEF LifeInv
  <2>2. ASSUME NEW b \in DOMAIN archive.cat PROVE ~(job.kind = "stamp" /\ b \in job.todo)
    BY <1>0, <1>1 DEF LifeInv, StampInv
  <2>3. ASSUME NEW b \in DOMAIN archive.cat
        PROVE  b \in Completed(made') /\ archive.cat[b] = made'[b] /\ Chunks(b) \subseteq HashesOf(archive.frames)
    BY <2>1, <2>2, <1>m DEF Exported
  <2>4. archive.frames \subseteq FrameT(mode)
    BY <2>1 DEF Exported
  <2> QED BY <2>3, <2>4, <1>1 DEF Exported
<1>2. CASE \E b \in Id : Export(b)
  <2>1. PICK b \in Id : Export(b)
    BY <1>2
  <2>2. PICK C : C = Closure(b)
    OBVIOUS
  <2>3. /\ made' = made
        /\ \A x \in C : x \in listed /\ \A h \in Chunks(x) : \E f \in packs : f.h = h
    BY <2>1, <2>2 DEF Export, Readable, repo
  <2>4. PICK F : F = {f \in packs : \E x \in C : f.h \in Chunks(x)}
    BY Zenon
  <2>5. archive' = [whole |-> TRUE, cat |-> Restrict1(made, C), frames |-> F]
    BY <2>1, <2>2, <2>4, <1>0 DEF Export, NoArchive
  <2>6. archive'.cat = Restrict1(made, C) /\ archive'.frames = F
    BY <2>5
  <2>7. DOMAIN Restrict1(made, C) = C /\ \A x \in C : Restrict1(made, C)[x] = made[x]
    BY DEF Restrict1
  <2>8. F \subseteq FrameT(mode) /\ C \subseteq Completed(made)
    BY <2>3, <2>4 DEF LifeInv, StoreInv
  <2>9. ASSUME NEW x \in C, NEW h \in Chunks(x) PROVE h \in HashesOf(F)
    <3>1. PICK f \in packs : f.h = h
      BY <2>3
    <3>2. f \in F
      BY <3>1, <2>4
    <3> QED BY <3>1, <3>2 DEF HashesOf
  <2> QED BY <2>3, <2>6, <2>7, <2>8, <2>9 DEF Exported
<1> QED BY <1>1, <1>2, ArchiveFrame

\* The steps that begin a command or go on with one, and what the job is after
\* them; after every other step nothing runs, or what ran before.
LEMMA JobCases ==
  ASSUME LifeInv, [Next]_vars
  PROVE  \/ job' = Idle
         \/ UNCHANGED vars
         \/ job' = job /\ job = Idle
         \/ \E ids, meta : Saving(ids, meta)
         \/ Forget \/ Retain \/ DeleteNext \/ DeleteFails \/ DeletesDone
         \/ Import \/ ImportChunk \/ ImportRebuild \/ ImportInstall
BY Zenon, StepCases DEF Tick, Crash, Suspending, ApplyParentLineage, Prune, RebuildAll, Damage,
   Export, ImportDone

\* The fields of the job.
LEMMA JobFields ==
  ASSUME LifeInv
  PROVE  /\ job.kind \in Kinds /\ job.plan \in SUBSET Nat /\ job.todo \in SUBSET Nat
         /\ job.failed \in BOOLEAN /\ job.parent \in Nat
         /\ job = [kind |-> job.kind, plan |-> job.plan, todo |-> job.todo, failed |-> job.failed, parent |-> job.parent]
         /\ Idle \in JobT /\ Idle.kind = "idle" /\ Idle.plan = {} /\ Idle.todo = {}
BY DEF LifeInv, JobT, Idle, Kinds

\* What an import may begin with was exported here: the frames of other
\* repositories are under other keys.
LEMMA ImportFacts ==
  ASSUME LifeInv, Import
  PROVE  archive.whole /\ archive \notin Foreign /\ HashesOf(archive.frames) \subseteq Nat
         /\ job' = [Idle EXCEPT !.kind = "store", !.todo = HashesOf(archive.frames)]
<1>1. archive.whole /\ (\A f \in archive.frames : f.key = mode)
      /\ job' = [Idle EXCEPT !.kind = "store", !.todo = HashesOf(archive.frames)]
  BY DEF Import, HashesOf
<1>2. mode \in Modes
  BY DEF LifeInv
<1>3. archive \notin Foreign
  <2>1. SUFFICES ASSUME archive \in Foreign PROVE FALSE
    OBVIOUS
  <2>2. PICK f \in archive.frames : f.key \notin Modes
    BY <2>1, ForeignKeys
  <2> QED BY <2>2, <1>1, <1>2
<1>4. archive.frames \subseteq FrameT(mode)
  BY <1>1, <1>3, ArchExported DEF LifeInv, Exported
<1>5. HashesOf(archive.frames) \subseteq Nat
  BY <1>4 DEF HashesOf, FrameT
<1> QED BY <1>1, <1>3, <1>5

\* The job keeps its type.
LEMMA JobStepType ==
  ASSUME LifeInv, [Next]_vars
  PROVE  job' \in JobT
<1>f. /\ job \in JobT /\ job.kind \in Kinds /\ job.todo \in SUBSET Nat /\ job.plan \in SUBSET Nat
      /\ Idle \in JobT /\ Idle.kind \in Kinds
  BY JobFields DEF LifeInv, Kinds
<1>l. listed \in SUBSET Nat /\ Completed(made) \in SUBSET Nat
  BY BasicFacts
<1>a. ASSUME NEW k \in Kinds, NEW T \in SUBSET Nat, job' = [Idle EXCEPT !.kind = k, !.plan = T, !.todo = T]
      PROVE  job' \in JobT
  BY Zenon, <1>a DEF Idle, JobT, Kinds
<1>b. ASSUME NEW k \in Kinds, NEW T \in SUBSET Nat, NEW p \in Nat,
             job' = [Idle EXCEPT !.kind = k, !.todo = T, !.parent = p]
      PROVE  job' \in JobT
  BY Zenon, <1>b DEF Idle, JobT, Kinds
<1>c. ASSUME NEW k \in Kinds, NEW T \in SUBSET Nat, NEW x \in BOOLEAN,
             job' = [job EXCEPT !.kind = k, !.todo = T, !.failed = x]
      PROVE  job' \in JobT
  BY Zenon, <1>c, <1>f DEF JobT, Kinds
<1>1. CASE job' = Idle \/ UNCHANGED vars \/ (job' = job /\ job = Idle)
  BY <1>1, <1>f DEF vars
<1>2. CASE \E ids, meta : Saving(ids, meta)
  <2>1. PICK ids, meta : ids \in SUBSET Id /\ GoesOn(ids, meta)
    BY Zenon, <1>2 DEF Saving, Fresh
  <2>2. CASE job' = Idle
    BY <2>2, <1>f
  <2>3. ASSUME NEW p \in Completed(made), job' = [Idle EXCEPT !.kind = "stamp", !.todo = ids, !.parent = p]
        PROVE  job' \in JobT
    <3>1. ids \in SUBSET Nat /\ p \in Nat /\ "stamp" \in Kinds
      BY <2>1, <1>l, BasicFacts DEF Kinds
    <3> QED BY Zenon, <2>3, <3>1, <1>b
  <2> QED BY Zenon, <2>1, <2>2, <2>3 DEF GoesOn
<1>3. CASE Forget
  <2>1. PICK policy \in ForgetPolicies :
          job' = [Idle EXCEPT !.kind = "forget",
                    !.plan = listed \ Protect(Catalog, SelectByPolicy(Catalog, policy, now)),
                    !.todo = listed \ Protect(Catalog, SelectByPolicy(Catalog, policy, now))]
    BY Zenon, <1>3 DEF Forget, Begin
  <2>2. PICK T : T = listed \ Protect(Catalog, SelectByPolicy(Catalog, policy, now))
    BY Zenon
  <2>3. T \in SUBSET Nat /\ "forget" \in Kinds
    BY Zenon, <2>2, <1>l DEF Kinds
  <2>4. job' = [Idle EXCEPT !.kind = "forget", !.plan = T, !.todo = T]
    BY <2>1, <2>2
  <2> QED BY Zenon, <2>3, <2>4, <1>a
<1>4. CASE Retain
  <2>1. PICK policy \in RetainPolicies :
          job' = [Idle EXCEPT !.kind = "retain", !.plan = Select(Known, policy, now) \cap listed,
                              !.todo = Select(Known, policy, now) \cap listed]
    BY Zenon, <1>4 DEF Retain, Begin
  <2>2. PICK T : T = Select(Known, policy, now) \cap listed
    BY Zenon
  <2>3. T \in SUBSET Nat /\ "retain" \in Kinds
    BY Zenon, <2>2, <1>l DEF Kinds
  <2>4. job' = [Idle EXCEPT !.kind = "retain", !.plan = T, !.todo = T]
    BY <2>1, <2>2
  <2> QED BY Zenon, <2>3, <2>4, <1>a
<1>5. CASE DeleteNext \/ DeleteFails \/ ImportChunk \/ ImportInstall
  <2>1. PICK b : job' = [job EXCEPT !.todo = @ \ {b}] \/ job' = [job EXCEPT !.todo = @ \ {b}, !.failed = TRUE]
    BY Zenon, <1>5 DEF DeleteNext, DeleteFails, ImportChunk, ImportInstall
  <2>2. job.todo \ {b} \in SUBSET Nat
    BY <1>f DEF JobT
  <2>3. CASE job' = [job EXCEPT !.todo = @ \ {b}]
    BY Zenon, <1>f, <2>2, <2>3 DEF JobT
  <2>4. CASE job' = [job EXCEPT !.todo = @ \ {b}, !.failed = TRUE]
    BY Zenon, <1>f, <2>2, <2>4 DEF JobT
  <2> QED BY Zenon, <2>1, <2>3, <2>4
<1>6. CASE DeletesDone
  <2>1. job' = Idle \/ job' = [job EXCEPT !.kind = "prune"]
    BY <1>6 DEF DeletesDone
  <2> QED BY <2>1, <1>f DEF JobT, Kinds
<1>7. CASE Import
  <2>1. PICK T : T = HashesOf(archive.frames)
    OBVIOUS
  <2>2. T \in SUBSET Nat /\ job' = [Idle EXCEPT !.kind = "store", !.todo = T]
    BY <2>1, <1>7, ImportFacts
  <2> QED BY Zenon, <2>2 DEF Idle, JobT, Kinds
<1>8. CASE ImportRebuild
  <2>1. PICK T : T = DOMAIN archive.cat
    OBVIOUS
  <2>2. job' = [job EXCEPT !.kind = "install", !.todo = T] /\ job.kind = "store"
    BY <1>8, <2>1 DEF ImportRebuild
  <2>3. archive.whole /\ archive \notin Foreign
    BY <2>2 DEF LifeInv, ImportInv
  <2>4. T \in SUBSET Nat
    BY Zenon, <2>1, <2>3, <1>l, ArchExported DEF LifeInv, Exported
  <2> QED BY Zenon, <2>2, <2>4, <1>f DEF JobT, Kinds
<1> QED BY <1>1, <1>2, <1>3, <1>4, <1>5, <1>6, <1>7, <1>8, JobCases

\* Every step preserves StampInv: a lineage is stamped on the backup just saved.
LEMMA StampStep ==
  ASSUME LifeInv, [Next]_vars
  PROVE  StampInv'
<1>0. SUFFICES ASSUME job'.kind = "stamp"
               PROVE  /\ job'.parent \in Completed(made')
                      /\ \A b \in job'.todo :
                            /\ b \in Completed(made') /\ made'[b].parent = 0
                            /\ archive'.whole /\ archive' \notin Foreign => b \notin DOMAIN archive'.cat
  BY DEF StampInv
<1>j. job = [kind |-> job.kind, plan |-> job.plan, todo |-> job.todo, failed |-> job.failed, parent |-> job.parent]
      /\ Idle.kind = "idle" /\ job.kind \in Kinds
  BY JobFields
<1>1. CASE UNCHANGED vars
  BY Zenon, <1>0, <1>1 DEF vars, repo, LifeInv, StampInv
<1>2. CASE \E ids, meta : Saving(ids, meta)
  <2>1. PICK ids, meta : Saving(ids, meta)
    BY <1>2
  <2>2. PICK p \in Completed(made) : /\ meta.parent = 0
                                     /\ job' = [Idle EXCEPT !.kind = "stamp", !.todo = ids, !.parent = p]
    BY Zenon, <2>1, <1>0, <1>j DEF Saving, GoesOn
  <2>3. job'.todo = ids /\ job'.parent = p
    BY <2>2 DEF Idle
  <2>4. /\ made' = [j \in DOMAIN made \cup ids |-> IF j \in ids THEN meta ELSE made[j]]
        /\ archive' = archive /\ meta.done
        /\ \A b \in ids : b \notin DOMAIN made \/ ~made[b].done
    BY <2>1 DEF Saving, Save, Fresh
  <2>5. \A b \in ids : b \in Completed(made') /\ made'[b].parent = 0 /\ b \notin Completed(made)
    BY <2>2, <2>4 DEF Completed
  <2>6. archive.whole /\ archive \notin Foreign => DOMAIN archive.cat \subseteq Completed(made)
    BY DEF LifeInv, ArchInv
  <2>7. p \in Completed(made')
    BY MadeStep
  <2> QED BY <2>3, <2>4, <2>5, <2>6, <2>7
<1>3. CASE Forget \/ Retain \/ Import
  <2>1. job'.kind \in {"forget", "retain", "store"}
    BY Zenon, <1>3 DEF Forget, Retain, Import, Begin, Idle
  <2> QED BY <2>1, <1>0
<1>4. CASE DeletesDone \/ ImportRebuild
  <2>1. job' = Idle \/ job' = [job EXCEPT !.kind = "prune"] \/ job' = [job EXCEPT !.kind = "install", !.todo = DOMAIN archive.cat]
    BY <1>4 DEF DeletesDone, ImportRebuild
  <2>2. job \in JobT
    BY DEF LifeInv
  <2>3. job'.kind \in {"idle", "prune", "install"}
    BY Zenon, <2>1, <2>2, <1>j DEF JobT
  <2> QED BY <2>3, <1>0
<1>5. CASE DeleteNext \/ DeleteFails \/ ImportChunk \/ ImportInstall
  <2>1. PICK b : job' = [job EXCEPT !.todo = @ \ {b}] \/ job' = [job EXCEPT !.todo = @ \ {b}, !.failed = TRUE]
    BY Zenon, <1>5 DEF DeleteNext, DeleteFails, ImportChunk, ImportInstall
  <2>2. job.kind \in {"forget", "retain", "store", "install"}
    BY Zenon, <1>5 DEF DeleteNext, DeleteFails, ImportChunk, ImportInstall, Deleting
  <2> QED BY Zenon, <2>1, <2>2, <1>0, <1>j
<1> QED BY Zenon, <1>0, <1>j, <1>1, <1>2, <1>3, <1>4, <1>5, JobCases

\* A plan to remove backups: none of them is a parent of one that stays.
SoundPlan(T) == T \subseteq listed /\ \A k \in listed \ T : made[k].parent \notin T

\* forget: what a kept backup refers to is kept (Protect).
LEMMA ForgetPlan ==
  ASSUME LifeInv, NEW keep, NEW T, T = listed \ Protect(Catalog, keep)
  PROVE  SoundPlan(T)
<1>1. PICK needs : needs = [b \in DOMAIN Catalog |-> ReferenceEdges(Catalog[b])]
  BY Zenon
<1>2. PICK C : C = LeastClosed(keep, DOMAIN Catalog, needs)
  OBVIOUS
<1>3. \A x \in C : needs[x] \cap DOMAIN Catalog \subseteq C
  BY <1>2, LeastClosedFacts
<1>4. DOMAIN Catalog = listed /\ \A x \in listed : Catalog[x] = made[x]
  BY DEF Catalog, Restrict1
<1>5. T = listed \ C
  BY <1>1, <1>2 DEF Protect
<1>6. ASSUME NEW k \in listed \ T PROVE made[k].parent \notin T
  <2>1. k \in C /\ needs[k] = ReferenceEdges(made[k])
    BY <1>1, <1>4, <1>5
  <2>2. made[k].parent # 0 => made[k].parent \in needs[k]
    BY <2>1 DEF ReferenceEdges
  <2>3. 0 \notin listed
    BY BasicFacts
  <2> QED BY <2>1, <2>2, <2>3, <1>3, <1>4, <1>5
<1> QED BY <1>5, <1>6 DEF SoundPlan

\* The prime directive of a plan.
Prime(T) ==
    /\ \A b \in T :
          /\ made[b].done
          /\ \E k \in listed \ T : made[k].src = made[b].src /\ made[k].at >= made[b].at
    /\ \A k \in DOMAIN Known \ T :
          /\ made[k].parent \notin T
          /\ \A b \in T : made[b].snap = 0 \/ made[b].snap # made[k].snap

\* What the retention service lists: the manifests and the active backups.
LEMMA KnownFacts ==
  ASSUME LifeInv
  PROVE  /\ DOMAIN Known = listed \cup {b \in DOMAIN made : ~made[b].done}
         /\ DOMAIN Known \subseteq DOMAIN made
         /\ \A b \in DOMAIN Known : Known[b] = made[b]
         /\ Completed(Known) = listed
<1>1. DOMAIN Known = listed \cup {b \in DOMAIN made : ~made[b].done}
  BY DEF Known, Restrict1
<1>2. \A b \in DOMAIN Known : Known[b] = made[b]
  BY DEF Known, Restrict1
<1>3. listed \subseteq DOMAIN made /\ \A b \in listed : made[b].done
  BY BasicFacts
<1> QED BY <1>1, <1>2, <1>3 DEF Completed

\* The ladder: what Select keeps is closed under parents and siblings and holds
\* the newest of every source.
LEMMA RetainPlan ==
  ASSUME LifeInv, NEW policy, NEW T, T = Select(Known, policy, now) \cap listed
  PROVE  SoundPlan(T) /\ Prime(T)
<1>k. /\ DOMAIN Known = listed \cup {b \in DOMAIN made : ~made[b].done}
      /\ DOMAIN Known \subseteq DOMAIN made
      /\ \A b \in DOMAIN Known : Known[b] = made[b]
      /\ Completed(Known) = listed
  BY KnownFacts
<1>f. /\ now \in Nat /\ DOMAIN made \subseteq Nat /\ 0 \notin DOMAIN made
      /\ made \in [DOMAIN made -> MetaT]
      /\ \A b \in DOMAIN made : made[b].at <= now /\ made[b].started <= now
      /\ \A b \in listed : made[b].done
  BY BasicFacts
<1>1. PICK chosen : chosen = (DOMAIN Known \ Completed(Known)) \cup NewestOfSource(Known)
                               \cup Ladder(Known, policy, now)
  BY Zenon
<1>2. PICK needs : needs = [b \in DOMAIN Known |-> {Known[b].parent} \cup Siblings(Known, b)]
  BY Zenon
<1>3. PICK C : C = LeastClosed(chosen, DOMAIN Known, needs)
  OBVIOUS
<1>4. /\ chosen \cap DOMAIN Known \subseteq C
      /\ \A x \in C : needs[x] \cap DOMAIN Known \subseteq C
      /\ C \subseteq DOMAIN Known
  BY SMTT(30), <1>3, LeastClosedFacts
<1>5. Select(Known, policy, now) = DOMAIN Known \ C
  BY Zenon, <1>1, <1>2, <1>3 DEF Select
<1>6. T = listed \ C
  BY Zenon, <1>5, <1>k
<1>7. DOMAIN Known \ T \subseteq C
  BY <1>1, <1>4, <1>6, <1>k
<1>8. ASSUME NEW k \in DOMAIN Known \ T PROVE made[k].parent \notin T
  <2>1. k \in C /\ made[k].parent \in needs[k]
    BY Zenon, <1>2, <1>7, <1>k
  <2> QED BY Zenon, <2>1, <1>4, <1>6, <1>k
<1>9. ASSUME NEW k \in DOMAIN Known \ T, NEW b \in T, made[b].snap # 0, made[b].snap = made[k].snap PROVE FALSE
  <2>1. b \in Siblings(Known, k) /\ k \in C
    BY <1>9, <1>6, <1>7, <1>k DEF Siblings
  <2>2. b \in needs[k]
    BY <2>1, <1>2
  <2> QED BY <2>1, <2>2, <1>4, <1>6, <1>k
<1>10. ASSUME NEW b \in T
       PROVE  \E k \in listed \ T : made[k].src = made[b].src /\ made[k].at >= made[b].at
  <2>1. PICK K : K = Known
    OBVIOUS
  <2>2. DOMAIN K \subseteq Nat
    BY <2>1, <1>k, <1>f
  <2>3. \A x \in DOMAIN K : /\ K[x].at \in Nat /\ K[x].at <= now
                            /\ K[x].started \in Nat /\ K[x].started <= now
    <3>1. \A x \in DOMAIN made : made[x].at \in Nat /\ made[x].started \in Nat
      BY <1>f DEF MetaT
    <3> QED BY <3>1, <2>1, <1>k, <1>f
  <2>4. b \in Completed(K)
    BY <2>1, <1>6, <1>k
  <2>5. PICK k \in NewestOfSource(K) : K[k].src = K[b].src /\ K[k].at >= K[b].at
    BY <2>2, <2>3, <2>4, <1>f, NewestExists
  <2>6. k \in listed
    BY <2>1, <2>5, <1>k DEF NewestOfSource
  <2>7. k \in C
    BY <2>1, <2>5, <2>6, <1>1, <1>4, <1>k
  <2>8. K[k] = made[k] /\ K[b] = made[b]
    BY <2>1, <2>6, <1>6, <1>k
  <2> QED BY <2>5, <2>6, <2>7, <2>8, <1>6
<1>11. SoundPlan(T)
  BY <1>6, <1>8, <1>k DEF SoundPlan
<1>12. Prime(T)
  BY <1>6, <1>8, <1>9, <1>10, <1>f DEF Prime
<1> QED BY <1>11, <1>12

\* The job of a command that begins to remove the backups of T.
LEMMA BeginFields ==
  ASSUME NEW k, NEW T, Begin(k, T)
  PROVE  job'.kind = k /\ job'.plan = T /\ job'.todo = T
BY DEF Begin, Idle

\* What is left to remove after one of them.
LEMMA TodoShrinks ==
  ASSUME LifeInv, DeleteNext \/ DeleteFails \/ ImportChunk \/ ImportInstall
  PROVE  \E b \in job.todo : /\ job'.todo = job.todo \ {b} /\ job'.plan = job.plan /\ job'.kind = job.kind
                             /\ Turn(b)
<1>1. PICK b \in job.todo : /\ job' = [job EXCEPT !.todo = @ \ {b}] \/ job' = [job EXCEPT !.todo = @ \ {b}, !.failed = TRUE]
                            /\ Turn(b)
  BY Zenon DEF DeleteNext, DeleteFails, ImportChunk, ImportInstall, Deleting
<1>2. job \in JobT
  BY DEF LifeInv
<1> QED BY Zenon, <1>1, <1>2 DEF JobT

\* The kinds of the other steps.
LEMMA OtherKinds ==
  ASSUME LifeInv, [Next]_vars
  PROVE  \/ job'.kind \in {"idle", "stamp", "prune"}
         \/ UNCHANGED vars
         \/ Forget \/ Retain \/ DeleteNext \/ DeleteFails
         \/ Import \/ ImportChunk \/ ImportRebuild \/ ImportInstall
<1>1. job \in JobT /\ Idle.kind = "idle"
  BY DEF LifeInv, Idle
<1>2. CASE \E ids, meta : Saving(ids, meta)
  BY Zenon, <1>2, <1>1 DEF Saving, GoesOn, Idle
<1>3. CASE DeletesDone
  BY <1>3, <1>1 DEF DeletesDone, JobT
<1> QED BY <1>1, <1>2, <1>3, JobCases

\* Every plan is sound, the one of the retention service obeys the prime
\* directive, and both stay so while the deletions go on.
LEMMA PlanStep ==
  ASSUME LifeInv, [Next]_vars
  PROVE  PlanInv' /\ PrimeDirective'
<1>i. PlanInv /\ PrimeDirective
  BY DEF LifeInv
<1>1. CASE job'.kind \in {"idle", "stamp", "prune"}
  BY <1>1 DEF PlanInv, PrimeDirective
<1>2. CASE UNCHANGED vars
  BY SMTT(30), <1>2, <1>i DEF vars, repo, PlanInv, PrimeDirective, Known, Restrict1
<1>3. CASE Forget
  <2>1. PICK keep, T : T = listed \ Protect(Catalog, keep) /\ Begin("forget", T)
    BY <1>3 DEF Forget
  <2>2. UNCHANGED <<made, listed>>
    BY <1>3 DEF Forget, repo
  <2>3. job'.kind = "forget" /\ job'.plan = T /\ job'.todo = T
    BY <2>1, BeginFields
  <2>4. SoundPlan(T)
    BY <2>1, ForgetPlan
  <2> QED BY Zenon, <2>2, <2>3, <2>4 DEF PlanInv, PrimeDirective, SoundPlan
<1>4. CASE Retain
  <2>1. PICK policy, T : T = Select(Known, policy, now) \cap listed /\ Begin("retain", T)
    BY <1>4 DEF Retain
  <2>2. UNCHANGED <<made, listed>>
    BY <1>4 DEF Retain, repo
  <2>3. job'.kind = "retain" /\ job'.plan = T /\ job'.todo = T
    BY <2>1, BeginFields
  <2>4. SoundPlan(T) /\ Prime(T)
    BY <2>1, RetainPlan
  <2>5. PlanInv'
    BY <2>2, <2>3, <2>4 DEF PlanInv, SoundPlan
  <2>6. Known' = Known
    BY <2>2 DEF Known, Restrict1
  <2>7. PrimeDirective'
    BY <2>2, <2>3, <2>4, <2>6 DEF PrimeDirective, Prime
  <2> QED BY <2>5, <2>7
<1>5. CASE DeleteNext \/ DeleteFails
  <2>1. PICK b \in job.todo : job'.todo = job.todo \ {b} /\ job'.plan = job.plan /\ job'.kind = job.kind
    BY <1>5, TodoShrinks
  <2>2. made' = made /\ listed' \subseteq listed /\ job.kind \in {"forget", "retain"}
    BY Zenon, <1>5 DEF DeleteNext, DeleteFails, repo, Deleting
  <2>3. job.todo \subseteq job.plan /\ \A k \in listed \ job.plan : made[k].parent \notin job.plan
    BY <2>2, <1>i DEF PlanInv
  <2>4. job'.todo # job'.plan
    BY <2>1, <2>3
  <2> QED BY <2>1, <2>2, <2>3, <2>4 DEF PlanInv, PrimeDirective
<1>6. CASE Import \/ ImportChunk \/ ImportRebuild \/ ImportInstall
  <2>1. job'.kind \in {"store", "install"}
    <3>1. job \in JobT
      BY DEF LifeInv
    <3> QED BY Zenon, <1>6, <3>1 DEF Import, ImportChunk, ImportRebuild, ImportInstall, Idle, JobT
  <2> QED BY <2>1 DEF PlanInv, PrimeDirective
<1> QED BY <1>1, <1>2, <1>3, <1>4, <1>5, <1>6, OtherKinds

\* An import has stored what it has gone through, and when it installs manifests
\* the index leads to all of it.
LEMMA ImportStep ==
  ASSUME LifeInv, [Next]_vars
  PROVE  ImportInv'
<1> DEFINE A == HashesOf(archive.frames)
<1>i. /\ job.kind \in {"store", "install"} => archive.whole /\ archive \notin Foreign
      /\ job.kind = "store" => A \ job.todo \subseteq HashesOf(packs)
      /\ job.kind = "install" =>
            /\ job.todo \subseteq DOMAIN archive.cat
            /\ mode # "managed" => A \subseteq index
      /\ index \subseteq HashesOf(packs)
  BY DEF LifeInv, ImportInv, StoreInv, HashesOf
<1>j. job \in JobT
  BY DEF LifeInv
<1>1. CASE job'.kind \in {"idle", "stamp", "prune", "forget", "retain"}
  BY <1>1 DEF ImportInv
<1>2. CASE UNCHANGED vars
  BY Zenon, <1>2 DEF vars, repo, LifeInv, ImportInv
<1>3. CASE Forget \/ Retain
  <2>1. job'.kind \in {"forget", "retain"}
    BY Zenon, <1>3, BeginFields DEF Forget, Retain
  <2> QED BY <2>1, <1>1
<1>4. CASE DeleteNext \/ DeleteFails
  <2>1. job'.kind \in {"forget", "retain"}
    BY Zenon, <1>4, <1>j DEF DeleteNext, DeleteFails, Deleting, JobT
  <2> QED BY <2>1, <1>1
<1>5. CASE Import
  <2>1. archive.whole /\ archive \notin Foreign /\ archive' = archive
        /\ job' = [Idle EXCEPT !.kind = "store", !.todo = A]
    BY <1>5, ImportFacts DEF Import
  <2>2. job'.kind = "store" /\ job'.todo = A
    BY <2>1 DEF Idle
  <2> QED BY <2>1, <2>2 DEF ImportInv, HashesOf
<1>6. CASE ImportChunk
  <2>1. PICK h \in job.todo : /\ job.kind = "store" /\ archive' = archive
                              /\ packs' = packs \cup {f \in archive.frames : f.h = h /\ h \notin index}
                              /\ job' = [job EXCEPT !.todo = @ \ {h}]
    BY Zenon, <1>6 DEF ImportChunk
  <2>2. job'.kind = "store" /\ job'.todo = job.todo \ {h}
    BY <2>1, <1>j DEF JobT
  <2>3. HashesOf(packs) \subseteq HashesOf(packs')
    BY <2>1 DEF HashesOf
  <2>4. h \in A => h \in HashesOf(packs')
    <3>1. CASE h \in index
      BY <3>1, <2>3, <1>i
    <3>2. ASSUME h \notin index, h \in A PROVE h \in HashesOf(packs')
      <4>1. PICK f \in archive.frames : f.h = h
        BY <3>2 DEF HashesOf
      <4>2. f \in packs'
        BY <4>1, <3>2, <2>1
      <4> QED BY <4>1, <4>2 DEF HashesOf
    <3> QED BY <3>1, <3>2
  <2>5. A \ job'.todo \subseteq HashesOf(packs')
    <3> HIDE DEF A
    <3> QED BY Zenon, <2>1, <2>2, <2>3, <2>4, <1>i
  <2> QED BY <2>1, <2>2, <2>5, <1>i DEF ImportInv, HashesOf
<1>7. CASE ImportRebuild
  <2>1. /\ job.kind = "store" /\ job.todo = {} /\ UNCHANGED <<mode, archive, packs>>
        /\ mode # "managed" => index' = HashesOf(packs)
        /\ job' = [job EXCEPT !.kind = "install", !.todo = DOMAIN archive.cat]
    BY <1>7 DEF ImportRebuild, HashesOf
  <2>2. job'.kind = "install" /\ job'.todo = DOMAIN archive.cat
    BY <2>1, <1>j DEF JobT
  <2>3. A \subseteq HashesOf(packs)
    <3> HIDE DEF A
    <3> QED BY <2>1, <1>i
  <2>4. mode' # "managed" => A \subseteq index'
    <3> HIDE DEF A
    <3> QED BY <2>1, <2>3
  <2> QED BY <2>1, <2>2, <2>4, <1>i DEF ImportInv, HashesOf
<1>8. CASE ImportInstall
  <2>1. PICK b \in job.todo : job'.todo = job.todo \ {b} /\ job'.kind = job.kind
    BY <1>8, TodoShrinks
  <2>2. job.kind = "install" /\ UNCHANGED <<mode, archive, index>>
    BY <1>8 DEF ImportInstall
  <2> QED BY <2>1, <2>2, <1>i DEF ImportInv, HashesOf
<1> QED BY <1>1, <1>2, <1>3, <1>4, <1>5, <1>6, <1>7, <1>8, OtherKinds

-----------------------------------------------------------------------------
(* The invariant, and what follows from it *)

\* The initial states satisfy the invariant.
LEMMA LifeInit == Init => LifeInv
<1> SUFFICES ASSUME Init PROVE LifeInv
  OBVIOUS
<1>1. made = <<>> /\ DOMAIN made = {}
  BY DEF Init
<1>2. MadeOK(made, now) /\ Lineage(made)
  BY <1>1 DEF MadeOK, Lineage, Completed
<1>3. StoreInv
  BY DEF Init, StoreInv
<1>4. ArchInv
  BY DEF Init, ArchInv, NoArchive
<1>5. job \in JobT /\ job.kind = "idle"
  BY DEF Init, Idle, JobT, Kinds
<1>6. StampInv /\ PlanInv /\ ImportInv /\ PrimeDirective
  BY <1>5 DEF StampInv, PlanInv, ImportInv, PrimeDirective
<1>7. mode \in Modes /\ now \in 0 .. MaxTime
  BY LifeBounds DEF Init
<1> QED BY <1>2, <1>3, <1>4, <1>5, <1>6, <1>7 DEF LifeInv

\* Every step preserves the invariant.
LEMMA LifeStep == LifeInv /\ [Next]_vars => LifeInv'
<1> SUFFICES ASSUME LifeInv, [Next]_vars PROVE LifeInv'
  OBVIOUS
<1>1. mode' = mode
  BY ArchiveFrame
<1>2. now' = now \/ (now < MaxTime /\ now' = now + 1)
  BY Zenon, StepCases DEF vars, Tick, Crash, Saving, Save, Suspending, ApplyParentLineage, Forget,
     Retain,
     DeleteNext, DeleteFails, DeletesDone, Prune, RebuildAll, Damage, Export, Import,
     ImportChunk, ImportRebuild, ImportInstall, ImportDone
<1>3. now \in 0 .. MaxTime /\ mode \in Modes /\ MaxTime \in Nat
  BY LifeBounds DEF LifeInv
<1>4. now' \in 0 .. MaxTime /\ mode' \in Modes
  BY <1>1, <1>2, <1>3
<1>5. (MadeOK(made, now))' /\ (Lineage(made))'
  BY MadeStep DEF MadeOK, Lineage, Completed
<1>6. job' \in JobT
  BY JobStepType
<1> QED
  BY <1>4, <1>5, <1>6, StoreStep, ArchStep, StampStep, PlanStep, ImportStep DEF LifeInv, JobT, Kinds

\* LifeInv holds in every state, for every set of backups, policy, ladder and
\* bound: forget, retain, prune, export and import, cut and failed anywhere.
THEOREM LifeInvariance == Spec => []LifeInv
<1>1. LifeInv /\ UNCHANGED vars => LifeInv'
  BY LifeStep
<1> QED BY LifeInit, LifeStep, PTL DEF Spec

\* Every variable keeps its type, and no frame of another repository enters the
\* packs: Import proves every frame to be under this one's key first
\* (verifyArchiveFrames).
THEOREM TypeCorrect == Spec => []TypeOK
<1>1. LifeInv => TypeOK
  <2> SUFFICES ASSUME LifeInv PROVE TypeOK
    OBVIOUS
  <2>1. DOMAIN made \subseteq Nat /\ listed \subseteq Completed(made)
    BY BasicFacts
  <2>2. \A f \in packs : f.h \in Nat /\ f.key = mode
    BY DEF LifeInv, StoreInv, FrameT
  <2>3. job.kind \in Kinds
    BY JobFields
  <2> QED BY <2>1, <2>2, <2>3 DEF TypeOK, LifeInv, StoreInv, Kinds
<1> QED BY <1>1, LifeInvariance, PTL

\* A listed backup's chunks can be read in every state: the index is rebuilt before
\* a manifest is installed, and prune keeps what a manifest refers to (Import,
\* installManifests, prune.Run).
THEOREM Resolves == Spec => []ListedResolves
<1>1. LifeInv => ListedResolves
  <2> SUFFICES ASSUME LifeInv, mode # "managed", NEW b \in listed, NEW h \in Chunks(b)
               PROVE  h \in index /\ Frame(h) \in packs
    BY DEF ListedResolves, Resolved
  <2>1. h \in index /\ packs \subseteq FrameT(mode)
    BY DEF LifeInv, StoreInv
  <2>2. PICK f \in packs : f.h = h
    BY <2>1 DEF LifeInv, StoreInv
  <2>3. f = Frame(h)
    BY <2>1, <2>2 DEF FrameT, Frame
  <2> QED BY <2>1, <2>2, <2>3
<1> QED BY <1>1, LifeInvariance, PTL

\* No plan of the retention service holds the newest backup of a source, an active
\* one, an ancestor of a kept one or a part of a machine snapshot, for every ladder
\* and catalog (retention.Select).
THEOREM PrimeDirectiveHolds == Spec => []PrimeDirective
<1>1. LifeInv => PrimeDirective
  BY DEF LifeInv
<1> QED BY <1>1, LifeInvariance, PTL

\* What a step of forget, of the retention service or of prune leaves of a backup
\* that was not to be removed.
LEMMA KeptStep ==
  ASSUME LifeInv, [Next]_vars, job.kind \in {"forget", "retain", "prune"} \/ runs' # runs,
         NEW b \in listed \ job.plan, Restorable(b)
  PROVE  Restorable(b)'
<1>r. /\ b \in listed \ damaged
      /\ \A x \in Closure(b) : /\ x \in listed \ damaged
                               /\ \A h \in Chunks(x) : h \in index /\ Frame(h) \in packs
  BY DEF Restorable, Readable, Resolved
<1>m. mode' = mode
  BY ArchiveFrame
<1>s. ASSUME made' = made, b \in listed' \ damaged',
             \A x \in Closure(b) : /\ x \in listed' \ damaged'
                                   /\ \A h \in Chunks(x) : h \in index' /\ Frame(h) \in packs'
      PROVE  Restorable(b)'
  <2>1. Closure(b)' = Closure(b)
    BY Zenon, <1>s DEF Closure
  <2>2. \A h : Frame(h)' = Frame(h)
    BY <1>m DEF Frame
  <2>3. \A x : Chunks(x)' = Chunks(x)
    BY DEF Chunks
  <2> QED BY <2>1, <2>2, <2>3, <1>s DEF Restorable, Readable, Resolved
<1>1. CASE UNCHANGED repo
  BY <1>1, <1>r, <1>s DEF repo
<1>2. CASE DeleteNext
  <2>1. PICK d \in job.todo : /\ listed' = listed \ {d} /\ damaged' = damaged \ {d}
                              /\ UNCHANGED <<made, packs, index>> /\ job.kind \in {"forget", "retain"}
    BY <1>2 DEF DeleteNext, Deleting
  <2>2. d \in job.plan /\ \A k \in listed \ job.plan : made[k].parent \notin job.plan
    BY Zenon, <2>1 DEF LifeInv, PlanInv
  <2>3. Closure(b) \cap job.plan = {}
    <3>1. PICK plan : plan = job.plan
      OBVIOUS
    <3>2. \A k \in listed \ plan : made[k].parent \notin plan
      BY <3>1, <2>2
    <3>3. listed \subseteq DOMAIN made /\ MadeOK(made, now) /\ Lineage(made)
      BY BasicFacts DEF LifeInv
    <3>4. \A x \in Closure(b) : x \in listed
      BY <1>r
    <3>5. b \in listed \ plan
      BY <3>1
    <3>6. Closure(b) \cap plan = {}
      BY <3>2, <3>3, <3>4, <3>5, ClosureAvoids
    <3> QED BY <3>1, <3>6
  <2> QED BY Zenon, <2>1, <2>2, <2>3, <1>r, <1>s
<1>3. CASE Prune
  <2>1. PICK kept : kept = index \cap UNION {Chunks(c) : c \in listed}
    BY Zenon
  <2>2. /\ UNCHANGED <<made, listed, damaged>>
        /\ UNCHANGED <<packs, index>> \/ (packs' = {f \in packs : f.h \in kept} /\ index' = kept)
    BY Zenon, <1>3, <2>1 DEF Prune
  <2>3. ASSUME NEW x \in Closure(b), NEW h \in Chunks(x) PROVE h \in index' /\ Frame(h) \in packs'
    <3>1. x \in listed /\ h \in index /\ Frame(h) \in packs /\ Frame(h).h = h
      BY <1>r DEF Frame
    <3>2. h \in kept
      BY <3>1, <2>1
    <3> QED BY <3>1, <3>2, <2>2
  <2> QED BY Zenon, <2>2, <2>3, <1>r, <1>s
<1> QED
  <2>1. CASE \/ UNCHANGED vars \/ Tick \/ Crash \/ Forget \/ Retain \/ DeleteFails \/ DeletesDone
             \/ (\E c \in Id : Export(c)) \/ Import \/ ImportDone
    <3>1. UNCHANGED repo
      BY Zenon, <2>1 DEF vars, Tick, Crash, Forget, Retain, DeleteFails, DeletesDone, Export,
         Import, ImportDone
    <3> QED BY <3>1, <1>1
  <2>2. CASE \/ \E ids, meta : Saving(ids, meta)
             \/ \E ids, meta : Suspending(ids, meta)
             \/ ApplyParentLineage \/ RebuildAll \/ (\E c \in Id : Damage(c))
             \/ ImportChunk \/ ImportRebuild \/ ImportInstall
    <3>1. runs' = runs
      BY Zenon, <2>2 DEF Saving, Save, Suspending, ApplyParentLineage, RebuildAll, Damage, bounds,
                  ImportChunk, ImportRebuild, ImportInstall
    <3>2. job = Idle \/ job.kind \in {"stamp", "store", "install"}
      BY Zenon, <2>2 DEF Saving, Suspending, ApplyParentLineage, RebuildAll, Damage,
                  ImportChunk, ImportRebuild, ImportInstall
    <3>3. job.kind \in {"idle", "stamp", "store", "install"}
      BY <3>2, JobFields
    <3> QED BY <3>1, <3>3
  <2> QED BY Zenon, <2>1, <2>2, <1>2, <1>3, StepCases

\* A backup that a command was not to remove stays restorable through each of its
\* steps, for every policy and catalog (forget.Protect, retention.Select,
\* collectReferencedHashes).
THEOREM KeptRestorable == Spec => KeptStayRestorable
<1>1. LifeInv /\ [Next]_vars =>
        [job.kind \in {"forget", "retain", "prune"} \/ runs' # runs =>
            \A b \in listed \ job.plan : Restorable(b) => Restorable(b)']_vars
  BY KeptStep
<1> QED BY <1>1, LifeInvariance, PTL DEF Spec, KeptStayRestorable
=============================================================================
