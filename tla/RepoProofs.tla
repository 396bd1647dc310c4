----------------------------- MODULE RepoProofs -----------------------------
(***************************************************************************)
(* RepoInv is an invariant of Repo for every set of hashes and every bound, *)
(* and what follows from it.                                                *)
(***************************************************************************)
EXTENDS Repo, Integers, FiniteSetTheorems, WellFoundedInduction, TLAPS

-----------------------------------------------------------------------------
(* Facts about numbers, hashes and frames *)

\* Every non-empty set of naturals has a least element.
LEMMA LeastNatural ==
    ASSUME NEW T, T \subseteq Nat, T # {}
    PROVE  \E x \in T : \A y \in T : x <= y
<1>1. PICK x \in T : \A y \in T : ~ (<<y, x>> \in OpToRel(<, Nat))
  BY NatLessThanWellFounded, WFMin, Zenon
<1>2. ASSUME NEW y \in T PROVE x <= y
  <2>1. <<y, x>> \notin {ss \in Nat \X Nat : ss[1] < ss[2]}
    BY <1>1, Zenon DEF OpToRel
  <2> QED
    BY <2>1
<1> QED
  BY <1>2

\* Every non-empty bounded set of naturals has a greatest element.
LEMMA GreatestNatural ==
    ASSUME NEW T, T \subseteq Nat, T # {}, NEW n \in Nat,
           \A x \in T : x <= n
    PROVE  \E x \in T : \A y \in T : y <= x
<1> DEFINE D == {n - x : x \in T}
<1>1. D \subseteq Nat
  OBVIOUS
<1>2. D # {}
  <2>1. PICK t \in T : TRUE
    BY Zenon
  <2>2. n - t \in D
    BY <2>1
  <2> QED
    BY <2>2
<1>3. PICK d \in D : \A e \in D : d <= e
  <2> HIDE DEF D
  <2> QED
    BY <1>1, <1>2, LeastNatural, Zenon
<1>4. PICK x \in T : d = n - x
  BY <1>3
<1>5. \A y \in T : n - x <= n - y
  BY <1>3, <1>4
<1> QED
  BY <1>5

\* The image of a finite set is finite.
LEMMA FiniteImage ==
    ASSUME NEW S, IsFiniteSet(S), NEW f, DOMAIN f = S
    PROVE  IsFiniteSet({f[x] : x \in S})
<1> DEFINE T == {f[x] : x \in S}
           F == [x \in S |-> f[x]]
<1>1. F \in Surjection(S, T)
  BY DEF Surjection
<1> QED
  BY <1>1, FS_Surjection

\* HashesOf distributes over union and respects inclusion.
LEMMA HashesOfUnion ==
    ASSUME NEW A, NEW B
    PROVE  HashesOf(A \cup B) = HashesOf(A) \cup HashesOf(B)
BY DEF HashesOf

\* More records name more hashes.
LEMMA HashesOfMonotone ==
    ASSUME NEW A, NEW B, A \subseteq B
    PROVE  HashesOf(A) \subseteq HashesOf(B)
BY DEF HashesOf

\* A flush forgets no hash, and points only where the session and the old
\* index pointed.
LEMMA MergeKeeps ==
    ASSUME NEW rs, NEW new
    PROVE  /\ Merge(rs, new) \subseteq rs \cup new
           /\ HashesOf(Merge(rs, new)) = HashesOf(rs \cup new)
BY DEF Merge, HashesOf

\* A rebuild from a pack log finds every hash that has a frame.
LEMMA LatestKeeps ==
    ASSUME NEW rs \in SUBSET Rec, NEW n \in Nat, \A r \in rs : r.loc <= n
    PROVE  Latest(rs) \subseteq rs /\ HashesOf(Latest(rs)) = HashesOf(rs)
<1>1. Latest(rs) \subseteq rs
  BY DEF Latest
<1>2. ASSUME NEW r \in rs PROVE r.h \in HashesOf(Latest(rs))
  <2> DEFINE T == {q.loc : q \in {p \in rs : p.h = r.h}}
  <2>1. T \subseteq Nat /\ T # {} /\ \A x \in T : x <= n
    BY <1>2 DEF Rec, Loc
  <2>2. PICK x \in T : \A y \in T : y <= x
    <3> HIDE DEF T
    <3> QED
      BY <2>1, GreatestNatural, Zenon
  <2>3. PICK q \in rs : q.h = r.h /\ q.loc = x
    BY <2>2
  <2>4. \A p \in rs : p.h = q.h => p.loc <= q.loc
    BY <2>2, <2>3
  <2>5. q \in Latest(rs)
    BY <2>3, <2>4 DEF Latest
  <2> QED
    BY <2>3, <2>5 DEF HashesOf
<1> QED
  BY <1>1, <1>2 DEF HashesOf

\* A plan keeps one entry of every hash it may keep.
LEMMA OnePerHashKeeps ==
    ASSUME NEW rs, NEW p \in OnePerHash(rs)
    PROVE  p \subseteq rs /\ HashesOf(p) = HashesOf(rs)
BY DEF OnePerHash, HashesOf

\* The rank of an entry in a finite plan is a position of the new pack log.
LEMMA RankType ==
    ASSUME NEW e \in plan, IsFiniteSet(plan), plan \subseteq Rec
    PROVE  Rank(e) \in 1 .. Cardinality(plan)
<1> DEFINE Q == {q \in plan : q.loc <= e.loc}
<1>1. e \in Q
  BY DEF Rec, Loc
<1>2. IsFiniteSet(Q) /\ Cardinality(Q) <= Cardinality(plan)
  BY FS_Subset
<1>3. Cardinality(Q) # 0
  BY <1>1, <1>2, FS_EmptySet
<1> QED
  BY <1>2, <1>3, FS_CardinalityType DEF Rank


-----------------------------------------------------------------------------
(* Facts about the directories *)

\* Directories that serve the backups exist.
LEMMA ServesHere ==
    ASSUME NEW i, NEW c, NEW ms, NEW k, Serves(i, c, ms, k)
    PROVE  i.here /\ c.here
BY DEF Serves, Covers

\* The directories a fresh repository starts with are well formed.
LEMMA EmptyLogs ==
    ASSUME NEW g \in Nat
    PROVE  PackLog(NoChunks, g) /\ PackLog(EmptyChunks, g)
BY FS_EmptySet DEF PackLog, NoChunks, EmptyChunks

\* The constant directories have the types of the variables that hold them.
LEMMA DirTypes ==
    /\ NoChunks \in ChunkDir /\ EmptyChunks \in ChunkDir
    /\ NoIndex \in IndexDir /\ NoCkpt \in Ckpt
    /\ \A rs \in SUBSET Rec : IndexOf(rs) \in IndexDir
    /\ ~NoChunks.here /\ ~NoIndex.here /\ EmptyChunks.here
    /\ \A rs : IndexOf(rs).here /\ IndexOf(rs).recs = rs
    /\ NoCkpt.here = FALSE /\ NoCkpt.gen = 0
BY DEF NoChunks, EmptyChunks, NoIndex, IndexOf, NoCkpt, ChunkDir, IndexDir, Ckpt

\* The initial repository is empty, and serves the empty set of backups.
LEMMA InitInv == Init => RepoInv
<1> SUFFICES ASSUME Init PROVE RepoInv
  OBVIOUS
<1>1. TypeOK
  BY DirTypes, Zenon DEF Init, TypeOK, PC
<1>2. PackLog(chunks, gens) /\ PackLog(oldChunks, gens) /\ PackLog(stChunks, gens)
  BY EmptyLogs DEF Init
<1>3. Serves(RecoveredIndex, RecoveredChunks, manifests, ckpt)
  BY DirTypes DEF Init, Serves, Covers, RecoveredIndex, RecoveredChunks
<1>4. AtEachStep
  BY DEF Init, AtEachStep, BackupPC
<1> QED
  BY <1>1, <1>2, <1>3, <1>4, DirTypes DEF RepoInv, Init

\* The steps of recoverIfNeeded keep the invariant.
LEMMA RecoverKeepsInv ==
    ASSUME RepoInv,
           \/ PruneBegin
           \/ RecoverNothing
           \/ RecoverRollBack
           \/ RecoverForward
           \/ RecoverDropIndex
           \/ RecoverInstallIndex
           \/ RecoverDropOldChunks
           \/ RecoverNoOldChunks
           \/ RecoverIndexBack
           \/ RecoverTidyIndex
           \/ RecoverTidyStaging
    PROVE  RepoInv'
<1> USE DirTypes, EmptyLogs DEF RepoInv
<1>1. CASE PruneBegin
  <2>1. TypeOK'
    BY <1>1 DEF PruneBegin, Go, mem, disk, TypeOK, PC, RecoverPC, SwapPC, RollPC
  <2>2. (PackLog(chunks, gens) /\ PackLog(oldChunks, gens) /\ PackLog(stChunks, gens))'
    BY <1>1 DEF PruneBegin, Go, TypeOK
  <2>3. Serves(RecoveredIndex, RecoveredChunks, manifests, ckpt)'
    BY <1>1, ServesHere DEF PruneBegin, Go, RecoveredIndex, RecoveredChunks,
       AtEachStep
  <2>4. AtEachStep'
    BY <1>1, ServesHere DEF PruneBegin, Go, RecoveredIndex, RecoveredChunks,
       AtEachStep, BackupPC
  <2> QED
    BY <1>1, <2>1, <2>2, <2>3, <2>4 DEF PruneBegin, Go
<1>2. CASE RecoverNothing
  <2>1. TypeOK'
    BY <1>2 DEF RecoverNothing, Go, PruneRecoveryPending, mem, disk, TypeOK, PC,
       RecoverPC, SwapPC, RollPC
  <2>2. (PackLog(chunks, gens) /\ PackLog(oldChunks, gens) /\ PackLog(stChunks, gens))'
    BY <1>2 DEF RecoverNothing, Go, PruneRecoveryPending, TypeOK
  <2>3. Serves(RecoveredIndex, RecoveredChunks, manifests, ckpt)'
    BY <1>2, ServesHere DEF RecoverNothing, Go, PruneRecoveryPending,
       RecoveredIndex, RecoveredChunks, AtEachStep
  <2>4. AtEachStep'
    BY <1>2, ServesHere DEF RecoverNothing, Go, PruneRecoveryPending,
       RecoveredIndex, RecoveredChunks, AtEachStep, BackupPC
  <2> QED
    BY <1>2, <2>1, <2>2, <2>3, <2>4 DEF RecoverNothing, Go, PruneRecoveryPending
<1>3. CASE RecoverRollBack
  <2>1. TypeOK'
    BY <1>3 DEF RecoverRollBack, Go, mem, disk, TypeOK, PC, RecoverPC, SwapPC,
       RollPC
  <2>2. (PackLog(chunks, gens) /\ PackLog(oldChunks, gens) /\ PackLog(stChunks, gens))'
    BY <1>3 DEF RecoverRollBack, Go, TypeOK
  <2>3. Serves(RecoveredIndex, RecoveredChunks, manifests, ckpt)'
    BY <1>3, ServesHere DEF RecoverRollBack, Go, RecoveredIndex, RecoveredChunks,
       AtEachStep
  <2>4. AtEachStep'
    BY <1>3, ServesHere DEF RecoverRollBack, Go, RecoveredIndex, RecoveredChunks,
       AtEachStep, BackupPC
  <2> QED
    BY <1>3, <2>1, <2>2, <2>3, <2>4 DEF RecoverRollBack, Go
<1>4. CASE RecoverForward
  <2>1. TypeOK'
    BY <1>4 DEF RecoverForward, Go, mem, disk, TypeOK, PC, RecoverPC, SwapPC, RollPC
  <2>2. (PackLog(chunks, gens) /\ PackLog(oldChunks, gens) /\ PackLog(stChunks, gens))'
    BY <1>4 DEF RecoverForward, Go, TypeOK
  <2>3. Serves(RecoveredIndex, RecoveredChunks, manifests, ckpt)'
    BY <1>4, ServesHere DEF RecoverForward, Go, RecoveredIndex, RecoveredChunks,
       AtEachStep
  <2>4. AtEachStep'
    BY <1>4, ServesHere DEF RecoverForward, Go, RecoveredIndex, RecoveredChunks,
       AtEachStep, BackupPC
  <2> QED
    BY <1>4, <2>1, <2>2, <2>3, <2>4 DEF RecoverForward, Go
<1>5. CASE RecoverDropIndex
  <2>1. TypeOK'
    BY <1>5 DEF RecoverDropIndex, Go, mem, disk, TypeOK, PC, RecoverPC, SwapPC,
       RollPC
  <2>2. (PackLog(chunks, gens) /\ PackLog(oldChunks, gens) /\ PackLog(stChunks, gens))'
    BY <1>5 DEF RecoverDropIndex, Go, TypeOK
  <2>3. Serves(RecoveredIndex, RecoveredChunks, manifests, ckpt)'
    BY <1>5, ServesHere DEF RecoverDropIndex, Go, RecoveredIndex, RecoveredChunks,
       AtEachStep
  <2>4. AtEachStep'
    BY <1>5, ServesHere DEF RecoverDropIndex, Go, RecoveredIndex, RecoveredChunks,
       AtEachStep, BackupPC
  <2> QED
    BY <1>5, <2>1, <2>2, <2>3, <2>4 DEF RecoverDropIndex, Go
<1>6. CASE RecoverInstallIndex
  <2>1. TypeOK'
    BY <1>6 DEF RecoverInstallIndex, Go, mem, disk, TypeOK, PC, RecoverPC, SwapPC,
       RollPC
  <2>2. (PackLog(chunks, gens) /\ PackLog(oldChunks, gens) /\ PackLog(stChunks, gens))'
    BY <1>6 DEF RecoverInstallIndex, Go, TypeOK
  <2>3. Serves(RecoveredIndex, RecoveredChunks, manifests, ckpt)'
    BY <1>6, ServesHere DEF RecoverInstallIndex, Go, RecoveredIndex,
       RecoveredChunks, AtEachStep
  <2>4. AtEachStep'
    BY <1>6, ServesHere DEF RecoverInstallIndex, Go, RecoveredIndex,
       RecoveredChunks, AtEachStep, BackupPC
  <2> QED
    BY <1>6, <2>1, <2>2, <2>3, <2>4 DEF RecoverInstallIndex, Go
<1>7. CASE RecoverDropOldChunks
  <2>1. TypeOK'
    BY <1>7 DEF RecoverDropOldChunks, Go, mem, disk, TypeOK, PC, RecoverPC,
       SwapPC, RollPC
  <2>2. (PackLog(chunks, gens) /\ PackLog(oldChunks, gens) /\ PackLog(stChunks, gens))'
    BY <1>7 DEF RecoverDropOldChunks, Go, TypeOK
  <2>3. Serves(RecoveredIndex, RecoveredChunks, manifests, ckpt)'
    BY <1>7, ServesHere DEF RecoverDropOldChunks, Go, RecoveredIndex,
       RecoveredChunks, AtEachStep
  <2>4. AtEachStep'
    BY <1>7, ServesHere DEF RecoverDropOldChunks, Go, RecoveredIndex,
       RecoveredChunks, AtEachStep, BackupPC
  <2> QED
    BY <1>7, <2>1, <2>2, <2>3, <2>4 DEF RecoverDropOldChunks, Go
<1>8. CASE RecoverNoOldChunks
  <2>1. TypeOK'
    BY <1>8 DEF RecoverNoOldChunks, Go, mem, disk, TypeOK, PC, RecoverPC, SwapPC,
       RollPC
  <2>2. (PackLog(chunks, gens) /\ PackLog(oldChunks, gens) /\ PackLog(stChunks, gens))'
    BY <1>8 DEF RecoverNoOldChunks, Go, TypeOK
  <2>3. Serves(RecoveredIndex, RecoveredChunks, manifests, ckpt)'
    BY <1>8, ServesHere DEF RecoverNoOldChunks, Go, RecoveredIndex,
       RecoveredChunks, AtEachStep
  <2>4. AtEachStep'
    BY <1>8, ServesHere DEF RecoverNoOldChunks, Go, RecoveredIndex,
       RecoveredChunks, AtEachStep, BackupPC
  <2> QED
    BY <1>8, <2>1, <2>2, <2>3, <2>4, Zenon DEF RecoverNoOldChunks, Go
<1>9. CASE RecoverIndexBack
  <2>1. TypeOK'
    BY <1>9 DEF RecoverIndexBack, Go, mem, disk, TypeOK, PC, RecoverPC, SwapPC,
       RollPC
  <2>2. (PackLog(chunks, gens) /\ PackLog(oldChunks, gens) /\ PackLog(stChunks, gens))'
    BY <1>9 DEF RecoverIndexBack, Go, TypeOK
  <2>3. Serves(RecoveredIndex, RecoveredChunks, manifests, ckpt)'
    BY <1>9, ServesHere DEF RecoverIndexBack, Go, RecoveredIndex, RecoveredChunks,
       AtEachStep
  <2>4. AtEachStep'
    BY <1>9, ServesHere DEF RecoverIndexBack, Go, RecoveredIndex, RecoveredChunks,
       AtEachStep, BackupPC
  <2> QED
    BY <1>9, <2>1, <2>2, <2>3, <2>4 DEF RecoverIndexBack, Go
<1>10. CASE RecoverTidyIndex
  <2>1. TypeOK'
    BY <1>10 DEF RecoverTidyIndex, Go, mem, disk, TypeOK, PC, RecoverPC, SwapPC,
       RollPC
  <2>2. (PackLog(chunks, gens) /\ PackLog(oldChunks, gens) /\ PackLog(stChunks, gens))'
    BY <1>10 DEF RecoverTidyIndex, Go, TypeOK
  <2>3. Serves(RecoveredIndex, RecoveredChunks, manifests, ckpt)'
    BY <1>10, ServesHere DEF RecoverTidyIndex, Go, RecoveredIndex,
       RecoveredChunks, AtEachStep
  <2>4. AtEachStep'
    BY <1>10, ServesHere DEF RecoverTidyIndex, Go, RecoveredIndex,
       RecoveredChunks, AtEachStep, BackupPC
  <2> QED
    BY <1>10, <2>1, <2>2, <2>3, <2>4 DEF RecoverTidyIndex, Go
<1>11. CASE RecoverTidyStaging
  <2>1. TypeOK'
    BY <1>11, Zenon DEF RecoverTidyStaging, Go, mem, disk, TypeOK, PC, RecoverPC, SwapPC,
       RollPC
  <2>2. (PackLog(chunks, gens) /\ PackLog(oldChunks, gens) /\ PackLog(stChunks, gens))'
    BY <1>11 DEF RecoverTidyStaging, Go, TypeOK
  <2>3. Serves(RecoveredIndex, RecoveredChunks, manifests, ckpt)'
    BY <1>11, ServesHere DEF RecoverTidyStaging, Go, RecoveredIndex,
       RecoveredChunks, AtEachStep
  <2>4. AtEachStep'
    BY <1>11, ServesHere DEF RecoverTidyStaging, Go, RecoveredIndex,
       RecoveredChunks, AtEachStep, BackupPC
  <2> QED
    BY <1>11, <2>1, <2>2, <2>3, <2>4, Zenon DEF RecoverTidyStaging, Go
<1> QED
  BY <1>1, <1>2, <1>3, <1>4, <1>5, <1>6, <1>7, <1>8, <1>9, <1>10, <1>11

\* The renames and removals of atomicSwap, and their undoing, keep it.
LEMMA SwapKeepsInv ==
    ASSUME RepoInv,
           \/ SwapChunksAside
           \/ SwapChunksIn
           \/ SwapIndexAside
           \/ SwapIndexIn
           \/ SwapRemoveOldChunks
           \/ SwapRemoveOldIndex
           \/ SwapRemoveStaging
           \/ SwapRenameFails
           \/ UndoIndexAside
           \/ UndoChunksIn
           \/ UndoChunksAside
           \/ PruneFails
    PROVE  RepoInv'
<1> USE DirTypes, EmptyLogs DEF RepoInv
<1>1. CASE SwapChunksAside
  <2>1. TypeOK'
    BY <1>1, Zenon DEF SwapChunksAside, Go, mem, disk, TypeOK, PC, RecoverPC, SwapPC,
       RollPC
  <2>2. (PackLog(chunks, gens) /\ PackLog(oldChunks, gens) /\ PackLog(stChunks, gens))'
    BY <1>1 DEF SwapChunksAside, Go, TypeOK
  <2>3. Serves(RecoveredIndex, RecoveredChunks, manifests, ckpt)'
    BY <1>1, ServesHere, Zenon DEF SwapChunksAside, Go, RecoveredIndex, RecoveredChunks,
       AtEachStep
  <2>4. AtEachStep'
    BY <1>1, ServesHere, Zenon DEF SwapChunksAside, Go, RecoveredIndex, RecoveredChunks,
       AtEachStep, BackupPC
  <2> QED
    BY <1>1, <2>1, <2>2, <2>3, <2>4, Zenon DEF SwapChunksAside, Go
<1>2. CASE SwapChunksIn
  <2>1. TypeOK'
    BY <1>2, Zenon DEF SwapChunksIn, Go, mem, disk, TypeOK, PC, RecoverPC, SwapPC, RollPC
  <2>2. (PackLog(chunks, gens) /\ PackLog(oldChunks, gens) /\ PackLog(stChunks, gens))'
    BY <1>2 DEF SwapChunksIn, Go, TypeOK
  <2>3. Serves(RecoveredIndex, RecoveredChunks, manifests, ckpt)'
    BY <1>2, ServesHere DEF SwapChunksIn, Go, RecoveredIndex, RecoveredChunks,
       AtEachStep
  <2>4. AtEachStep'
    BY <1>2, ServesHere DEF SwapChunksIn, Go, RecoveredIndex, RecoveredChunks,
       AtEachStep, BackupPC
  <2> QED
    BY <1>2, <2>1, <2>2, <2>3, <2>4, Zenon DEF SwapChunksIn, Go
<1>3. CASE SwapIndexAside
  <2>1. TypeOK'
    BY <1>3 DEF SwapIndexAside, Go, mem, disk, TypeOK, PC, RecoverPC, SwapPC, RollPC
  <2>2. (PackLog(chunks, gens) /\ PackLog(oldChunks, gens) /\ PackLog(stChunks, gens))'
    BY <1>3 DEF SwapIndexAside, Go, TypeOK
  <2>3. Serves(RecoveredIndex, RecoveredChunks, manifests, ckpt)'
    BY <1>3, ServesHere DEF SwapIndexAside, Go, RecoveredIndex, RecoveredChunks,
       AtEachStep
  <2>4. AtEachStep'
    BY <1>3, ServesHere, Zenon DEF SwapIndexAside, Go, RecoveredIndex, RecoveredChunks,
       AtEachStep, BackupPC
  <2> QED
    BY <1>3, <2>1, <2>2, <2>3, <2>4, Zenon DEF SwapIndexAside, Go
<1>4. CASE SwapIndexIn
  <2>1. TypeOK'
    BY <1>4 DEF SwapIndexIn, Go, mem, disk, TypeOK, PC, RecoverPC, SwapPC, RollPC
  <2>2. (PackLog(chunks, gens) /\ PackLog(oldChunks, gens) /\ PackLog(stChunks, gens))'
    BY <1>4 DEF SwapIndexIn, Go, TypeOK
  <2>3. Serves(RecoveredIndex, RecoveredChunks, manifests, ckpt)'
    BY <1>4, ServesHere DEF SwapIndexIn, Go, RecoveredIndex, RecoveredChunks,
       AtEachStep
  <2>4. AtEachStep'
    BY <1>4, ServesHere, Zenon DEF SwapIndexIn, Go, RecoveredIndex, RecoveredChunks,
       AtEachStep, BackupPC
  <2> QED
    BY <1>4, <2>1, <2>2, <2>3, <2>4, Zenon DEF SwapIndexIn, Go
<1>5. CASE SwapRemoveOldChunks
  <2>1. TypeOK'
    BY <1>5, Zenon DEF SwapRemoveOldChunks, Go, mem, disk, TypeOK, PC, RecoverPC, SwapPC,
       RollPC
  <2>2. (PackLog(chunks, gens) /\ PackLog(oldChunks, gens) /\ PackLog(stChunks, gens))'
    BY <1>5, Zenon DEF SwapRemoveOldChunks, Go, TypeOK
  <2>3. Serves(RecoveredIndex, RecoveredChunks, manifests, ckpt)'
    BY <1>5, ServesHere DEF SwapRemoveOldChunks, Go, RecoveredIndex,
       RecoveredChunks, AtEachStep
  <2>4. AtEachStep'
    BY <1>5, ServesHere, Zenon DEF SwapRemoveOldChunks, Go, RecoveredIndex,
       RecoveredChunks, AtEachStep, BackupPC
  <2> QED
    BY <1>5, <2>1, <2>2, <2>3, <2>4, Zenon DEF SwapRemoveOldChunks, Go
<1>6. CASE SwapRemoveOldIndex
  <2>1. TypeOK'
    BY <1>6 DEF SwapRemoveOldIndex, Go, mem, disk, TypeOK, PC, RecoverPC, SwapPC,
       RollPC
  <2>2. (PackLog(chunks, gens) /\ PackLog(oldChunks, gens) /\ PackLog(stChunks, gens))'
    BY <1>6 DEF SwapRemoveOldIndex, Go, TypeOK
  <2>3. Serves(RecoveredIndex, RecoveredChunks, manifests, ckpt)'
    BY <1>6, ServesHere DEF SwapRemoveOldIndex, Go, RecoveredIndex,
       RecoveredChunks, AtEachStep
  <2>4. AtEachStep'
    BY <1>6, ServesHere, Zenon DEF SwapRemoveOldIndex, Go, RecoveredIndex,
       RecoveredChunks, AtEachStep, BackupPC
  <2> QED
    BY <1>6, <2>1, <2>2, <2>3, <2>4, Zenon DEF SwapRemoveOldIndex, Go
<1>7. CASE SwapRemoveStaging
  <2>1. TypeOK'
    BY <1>7, Zenon DEF SwapRemoveStaging, mem, disk, TypeOK, PC, RecoverPC, SwapPC, RollPC
  <2>2. (PackLog(chunks, gens) /\ PackLog(oldChunks, gens) /\ PackLog(stChunks, gens))'
    BY <1>7 DEF SwapRemoveStaging, disk, TypeOK
  <2>3. Serves(RecoveredIndex, RecoveredChunks, manifests, ckpt)'
    BY <1>7, ServesHere, Zenon DEF SwapRemoveStaging, disk, RecoveredIndex,
       RecoveredChunks, AtEachStep
  <2>4. AtEachStep'
    BY <1>7, ServesHere, Zenon DEF SwapRemoveStaging, disk, RecoveredIndex,
       RecoveredChunks, AtEachStep, BackupPC
  <2> QED
    BY <1>7, <2>1, <2>2, <2>3, <2>4, Zenon DEF SwapRemoveStaging, disk
<1>8. CASE SwapRenameFails
  <2>1. TypeOK'
    BY <1>8 DEF SwapRenameFails, mem, disk, TypeOK, PC, RecoverPC, SwapPC, RollPC
  <2>2. (PackLog(chunks, gens) /\ PackLog(oldChunks, gens) /\ PackLog(stChunks, gens))'
    BY <1>8 DEF SwapRenameFails, disk, TypeOK
  <2>3. Serves(RecoveredIndex, RecoveredChunks, manifests, ckpt)'
    BY <1>8, ServesHere, Zenon DEF SwapRenameFails, disk, RecoveredIndex,
       RecoveredChunks, AtEachStep
  <2>4. AtEachStep'
    BY <1>8, ServesHere, Zenon DEF SwapRenameFails, disk, RecoveredIndex,
       RecoveredChunks, AtEachStep, BackupPC
  <2> QED
    BY <1>8, <2>1, <2>2, <2>3, <2>4, Zenon DEF SwapRenameFails, disk
<1>9. CASE UndoIndexAside
  <2>1. TypeOK'
    BY <1>9 DEF UndoIndexAside, Go, mem, disk, TypeOK, PC, RecoverPC, SwapPC, RollPC
  <2>2. (PackLog(chunks, gens) /\ PackLog(oldChunks, gens) /\ PackLog(stChunks, gens))'
    BY <1>9 DEF UndoIndexAside, Go, TypeOK
  <2>3. Serves(RecoveredIndex, RecoveredChunks, manifests, ckpt)'
    BY <1>9, ServesHere, Zenon DEF UndoIndexAside, Go, RecoveredIndex,
       RecoveredChunks, AtEachStep
  <2>4. AtEachStep'
    BY <1>9, ServesHere, Zenon DEF UndoIndexAside, Go, RecoveredIndex, RecoveredChunks,
       AtEachStep, BackupPC
  <2> QED
    BY <1>9, <2>1, <2>2, <2>3, <2>4, Zenon DEF UndoIndexAside, Go
<1>10. CASE UndoChunksIn
  <2>1. TypeOK'
    BY <1>10, Zenon DEF UndoChunksIn, Go, mem, disk, TypeOK, PC, RecoverPC, SwapPC, RollPC
  <2>2. (PackLog(chunks, gens) /\ PackLog(oldChunks, gens) /\ PackLog(stChunks, gens))'
    BY <1>10 DEF UndoChunksIn, Go, TypeOK
  <2>3. Serves(RecoveredIndex, RecoveredChunks, manifests, ckpt)'
    BY <1>10, ServesHere DEF UndoChunksIn, Go, RecoveredIndex, RecoveredChunks,
       AtEachStep
  <2>4. AtEachStep'
    BY <1>10, ServesHere, Zenon DEF UndoChunksIn, Go, RecoveredIndex, RecoveredChunks,
       AtEachStep, BackupPC
  <2> QED
    BY <1>10, <2>1, <2>2, <2>3, <2>4, Zenon DEF UndoChunksIn, Go
<1>11. CASE UndoChunksAside
  <2>1. TypeOK'
    BY <1>11 DEF UndoChunksAside, mem, disk, TypeOK, PC, RecoverPC, SwapPC, RollPC
  <2>2. (PackLog(chunks, gens) /\ PackLog(oldChunks, gens) /\ PackLog(stChunks, gens))'
    BY <1>11 DEF UndoChunksAside, disk, TypeOK
  <2>3. Serves(RecoveredIndex, RecoveredChunks, manifests, ckpt)'
    BY <1>11, ServesHere, Zenon DEF UndoChunksAside, disk, RecoveredIndex,
       RecoveredChunks, AtEachStep
  <2>4. AtEachStep'
    BY <1>11, ServesHere, Zenon DEF UndoChunksAside, disk, RecoveredIndex,
       RecoveredChunks, AtEachStep, BackupPC
  <2> QED
    BY <1>11, <2>1, <2>2, <2>3, <2>4, Zenon DEF UndoChunksAside, disk
<1>12. CASE PruneFails
  <2>1. TypeOK'
    BY <1>12 DEF PruneFails, mem, disk, TypeOK, PC, RecoverPC, SwapPC, RollPC
  <2>2. (PackLog(chunks, gens) /\ PackLog(oldChunks, gens) /\ PackLog(stChunks, gens))'
    BY <1>12 DEF PruneFails, disk, TypeOK
  <2>3. Serves(RecoveredIndex, RecoveredChunks, manifests, ckpt)'
    BY <1>12, ServesHere, Zenon DEF PruneFails, disk, RecoveredIndex, RecoveredChunks,
       AtEachStep
  <2>4. AtEachStep'
    BY <1>12, ServesHere, Zenon DEF PruneFails, disk, RecoveredIndex, RecoveredChunks,
       AtEachStep, BackupPC
  <2> QED
    BY <1>12, <2>1, <2>2, <2>3, <2>4, Zenon DEF PruneFails, disk
<1> QED
  BY <1>1, <1>2, <1>3, <1>4, <1>5, <1>6, <1>7, <1>8, <1>9, <1>10, <1>11, <1>12, Zenon


-----------------------------------------------------------------------------
(* Facts about serving *)

\* More frames do not hurt.
LEMMA ServesMoreFrames ==
    ASSUME NEW i, NEW c, NEW d, NEW ms, NEW k, Serves(i, c, ms, k),
           d.here, d.gen = c.gen, c.recs \subseteq d.recs
    PROVE  Serves(i, d, ms, k)
BY Zenon DEF Serves, Covers

\* Neither does another index of the same packs that knows as many hashes.
LEMMA ServesOtherIndex ==
    ASSUME NEW i, NEW j, NEW c, NEW ms, NEW k, Serves(i, c, ms, k),
           j.here, j.recs \subseteq c.recs,
           HashesOf(i.recs) \subseteq HashesOf(j.recs)
    PROVE  Serves(j, c, ms, k)
<1>1. \A m \in ms : m \subseteq HashesOf(j.recs)
  BY DEF Serves, Covers
<1>2. HashesOf(i.recs \cup k.inserts) \subseteq HashesOf(j.recs \cup k.inserts)
  <2>1. /\ HashesOf(i.recs \cup k.inserts) = HashesOf(i.recs) \cup HashesOf(k.inserts)
        /\ HashesOf(j.recs \cup k.inserts) = HashesOf(j.recs) \cup HashesOf(k.inserts)
    BY HashesOfUnion, Zenon
  <2> QED
    BY <2>1
<1> QED
  BY <1>1, <1>2, Zenon DEF Serves, Covers

\* With no prune to recover from, what recovery would end with is what is there.
LEMMA Settled ==
    ASSUME RepoInv, ~PruneRecoveryPending
    PROVE  /\ RecoveredChunks = chunks /\ RecoveredIndex = index
           /\ Serves(index, chunks, manifests, ckpt)
           /\ chunks.here /\ index.here
           /\ MadeChunks = chunks /\ MadeIndex = index
<1>1. RecoveredChunks = chunks /\ RecoveredIndex = index
  BY DEF PruneRecoveryPending, RecoveredChunks, RecoveredIndex
<1>2. Serves(index, chunks, manifests, ckpt)
  BY <1>1 DEF RepoInv
<1> QED
  BY <1>1, <1>2, ServesHere DEF MadeChunks, MadeIndex

\* And the invariant then asks for no more than this.
LEMMA SettledInv ==
    ASSUME TypeOK', PackLog(chunks, gens)', PackLog(oldChunks, gens)',
           PackLog(stChunks, gens)', (ckpt.gen <= gens)',
           ~PruneRecoveryPending',
           Serves(index, chunks, manifests, ckpt)',
           pc' \in {"idle"} \cup BackupPC,
           (pc \in BackupPC =>
              /\ session \subseteq chunks.recs
              /\ entries \subseteq HashesOf(index.recs \cup session))',
           (pc = "save" => entries \subseteq HashesOf(index.recs))'
    PROVE  RepoInv'
<1>1. Serves(RecoveredIndex, RecoveredChunks, manifests, ckpt)'
  BY DEF PruneRecoveryPending, RecoveredIndex, RecoveredChunks
<1>2. AtEachStep'
  BY DEF AtEachStep, BackupPC
<1> QED
  BY <1>1, <1>2 DEF RepoInv

\* What a partial removal leaves of a pack log is one.
LEMMA PartOfLog ==
    ASSUME NEW c \in ChunkDir, NEW g, NEW rs \in SUBSET c.recs, PackLog(c, g)
    PROVE  /\ PackLog([c EXCEPT !.recs = rs], g)
           /\ [c EXCEPT !.recs = rs] \in ChunkDir
           /\ [c EXCEPT !.recs = rs].here = c.here
<1>1. IsFiniteSet(rs)
  BY FS_Subset DEF PackLog
<1> QED
  BY <1>1 DEF PackLog, ChunkDir

-----------------------------------------------------------------------------
(* A crash *)

\* A crash, which loses the memory of the command but no directory, keeps the
\* invariant.
LEMMA CrashKeepsInv ==
    ASSUME RepoInv, Crash
    PROVE  RepoInv'
<1> USE DEF RepoInv, Crash, Died
<1>1. TypeOK'
  BY DEF TypeOK, PC
<1>2. Serves(RecoveredIndex, RecoveredChunks, manifests, ckpt)'
  BY DEF RecoveredIndex, RecoveredChunks
<1>3. AtEachStep'
  BY DEF AtEachStep, BackupPC
<1> QED
  BY <1>1, <1>2, <1>3

\* What a death inside RemoveAll leaves half-removed is never what recovery
\* ends with.
LEMMA CrashInRemoveKeepsInv ==
    ASSUME RepoInv, CrashInRemove
    PROVE  RepoInv'
<1> USE DirTypes, EmptyLogs DEF RepoInv
<1>1. /\ pc' = "idle" /\ session' = {} /\ entries' = {} /\ plan' = {}
      /\ crashes' = crashes + 1
      /\ UNCHANGED <<manifests, ckpt, gens, chunks, staging>>
  BY DEF CrashInRemove, Died
<1>2. AtEachStep'
  BY <1>1, Zenon DEF AtEachStep, BackupPC
<1>3. CASE /\ pc = "dropIndex" /\ index.here
           /\ \E rs \in SUBSET index.recs : index' = IndexOf(rs)
           /\ UNCHANGED <<oldChunks, oldIndex, stChunks, stIndex>>
  <2>1. index' \in IndexDir
    BY <1>3 DEF TypeOK, IndexDir
  <2>2. TypeOK'
    BY <1>1, <1>3, <2>1 DEF TypeOK, PC
  <2>3. Serves(RecoveredIndex, RecoveredChunks, manifests, ckpt)'
    BY <1>1, <1>3, Zenon DEF RecoveredIndex, RecoveredChunks, AtEachStep
  <2> QED
    BY <1>1, <1>2, <1>3, <2>2, <2>3
<1>4. CASE /\ pc \in {"dropOld", "rmOldChunks"}
           /\ \E rs \in SUBSET oldChunks.recs :
                 oldChunks' = [oldChunks EXCEPT !.recs = rs]
           /\ UNCHANGED <<index, oldIndex, stChunks, stIndex>>
  <2>1. /\ PackLog(oldChunks', gens) /\ oldChunks' \in ChunkDir
        /\ oldChunks'.here = oldChunks.here
    <3>1. PICK rs \in SUBSET oldChunks.recs :
             oldChunks' = [oldChunks EXCEPT !.recs = rs]
      BY <1>4
    <3>2. oldChunks \in ChunkDir /\ PackLog(oldChunks, gens)
      BY Zenon DEF TypeOK
    <3> QED
      BY <3>1, <3>2, PartOfLog, Zenon
  <2>2. TypeOK'
    BY <1>1, <1>4, <2>1 DEF TypeOK, PC
  <2>3. Serves(RecoveredIndex, RecoveredChunks, manifests, ckpt)'
    BY <1>1, <1>4, <2>1 DEF RecoveredIndex, RecoveredChunks, AtEachStep
  <2> QED
    BY <1>1, <1>2, <1>4, <2>1, <2>2, <2>3
<1>5. CASE /\ pc \in {"tidyIndex", "rmOldIndex"} /\ index.here /\ oldIndex.here
           /\ \E rs \in SUBSET oldIndex.recs : oldIndex' = IndexOf(rs)
           /\ UNCHANGED <<index, oldChunks, stChunks, stIndex>>
  <2>1. oldIndex' \in IndexDir
    BY <1>5 DEF TypeOK, IndexDir
  <2>2. TypeOK'
    BY <1>1, <1>5, <2>1 DEF TypeOK, PC
  <2>3. Serves(RecoveredIndex, RecoveredChunks, manifests, ckpt)'
    BY <1>1, <1>5, Zenon DEF RecoveredIndex, RecoveredChunks, AtEachStep
  <2> QED
    BY <1>1, <1>2, <1>5, <2>2, <2>3, Zenon
<1>6. CASE /\ pc = "tidyStaging"
           /\ stChunks' \in {stChunks, NoChunks}
           /\ stIndex' \in {stIndex, NoIndex}
           /\ UNCHANGED <<index, oldChunks, oldIndex>>
  <2> stChunks' \in ChunkDir /\ stIndex' \in IndexDir
    BY <1>6 DEF TypeOK
  <2>1. TypeOK'
    BY <1>1, <1>6 DEF TypeOK, PC
  <2>2. Serves(RecoveredIndex, RecoveredChunks, manifests, ckpt)'
    BY <1>1, <1>6, Zenon DEF RecoveredIndex, RecoveredChunks, AtEachStep
  <2> QED
    BY <1>1, <1>2, <1>6, <2>1, <2>2, Zenon DEF TypeOK
<1> QED
  BY <1>3, <1>4, <1>5, <1>6 DEF CrashInRemove

-----------------------------------------------------------------------------
(* Commands given to a repository with nothing to recover *)

\* Opening the store, alone or to begin a backup, keeps it.
LEMMA OpenKeepsInv ==
    ASSUME RepoInv, ~PruneRecoveryPending, BackupOpen \/ OpenStore
    PROVE  RepoInv'
<1> USE DEF RepoInv
<1>1. /\ UNCHANGED <<disk, plan, gens, crashes>>
      /\ \/ pc' = "store" /\ session' = {} /\ entries' = {}
         \/ pc = "idle" /\ pc' = "idle" /\ UNCHANGED <<session, entries>>
  BY Settled DEF BackupOpen, OpenStore, disk, mem
<1>2. TypeOK'
  BY <1>1 DEF TypeOK, PC, BackupPC, disk
<1> QED
  BY <1>1, <1>2, Settled, SettledInv DEF disk, PruneRecoveryPending, BackupPC

\* Forgetting a backup keeps it: fewer manifests ask for less.
LEMMA ForgetKeepsInv ==
    ASSUME RepoInv, ~PruneRecoveryPending, NEW m, Forget(m)
    PROVE  RepoInv'
<1> USE DEF RepoInv, Forget
<1>1. TypeOK'
  BY DEF TypeOK, mem
<1>2. Serves(index, chunks, manifests, ckpt)'
  BY Settled, Zenon DEF Serves, Covers
<1> QED
  BY <1>1, <1>2, SettledInv DEF PruneRecoveryPending, BackupPC

\* Rebuilding the index of a served repository leaves it served.
LEMMA RebuiltServes ==
    ASSUME RepoInv, ~PruneRecoveryPending
    PROVE  /\ IndexOf(Latest(chunks.recs)) \in IndexDir
           /\ Serves(IndexOf(Latest(chunks.recs)), chunks, manifests, ckpt)
           /\ HashesOf(Latest(chunks.recs)) = HashesOf(chunks.recs)
<1>1. chunks.recs \in SUBSET Rec /\ chunks.end \in Nat
  BY DEF RepoInv, TypeOK, ChunkDir
<1>2. \A r \in chunks.recs : r.loc <= chunks.end
  BY DEF RepoInv, PackLog
<1>3. /\ Latest(chunks.recs) \subseteq chunks.recs
      /\ HashesOf(Latest(chunks.recs)) = HashesOf(chunks.recs)
  BY <1>1, <1>2, LatestKeeps
<1>4. HashesOf(index.recs) \subseteq HashesOf(chunks.recs)
  BY Settled, HashesOfMonotone DEF Serves, Covers
<1>5. Serves(IndexOf(Latest(chunks.recs)), chunks, manifests, ckpt)
  BY <1>3, <1>4, Settled, ServesOtherIndex, DirTypes
<1> QED
  BY <1>1, <1>3, <1>5, DirTypes

\* Rebuilding the index from the packs keeps it.
LEMMA RebuildKeepsInv ==
    ASSUME RepoInv, ~PruneRecoveryPending, Rebuild
    PROVE  RepoInv'
<1> USE DEF RepoInv, Rebuild
<1>1. TypeOK'
  BY RebuiltServes, Zenon DEF TypeOK, mem
<1> QED
  BY <1>1, RebuiltServes, SettledInv DEF PruneRecoveryPending, BackupPC


\* A resume that replays the segments keeps it.
LEMMA ResumeFastKeepsInv ==
    ASSUME RepoInv, ~PruneRecoveryPending, ResumeFast
    PROVE  RepoInv'
<1> USE DEF RepoInv
<1>1. /\ UNCHANGED <<disk, plan, gens, crashes>>
      /\ pc' = "store" /\ session' = ckpt.inserts /\ entries' = ckpt.entries
  BY Settled DEF ResumeFast, disk
<1>2. /\ ckpt.inserts \subseteq chunks.recs
      /\ ckpt.entries \subseteq HashesOf(index.recs \cup ckpt.inserts)
  BY Settled, Zenon DEF ResumeFast, Serves
<1>3. TypeOK'
  BY <1>1 DEF TypeOK, PC, BackupPC, disk, Ckpt
<1> QED
  BY <1>1, <1>2, <1>3, Settled, SettledInv DEF disk, PruneRecoveryPending, BackupPC

\* A resume that rebuilds the index keeps it.
LEMMA ResumeSlowKeepsInv ==
    ASSUME RepoInv, ~PruneRecoveryPending, ResumeSlow
    PROVE  RepoInv'
<1> USE DEF RepoInv
<1> DEFINE ri == IndexOf(Latest(chunks.recs))
<1>1. /\ index' = ri
      /\ UNCHANGED <<chunks, oldChunks, oldIndex, staging, stChunks, stIndex,
                     manifests, ckpt, plan, gens, crashes>>
  BY Zenon DEF ResumeSlow
<1>2. \/ /\ ckpt.entries \subseteq HashesOf(chunks.recs)
         /\ pc' = "store" /\ session' = {} /\ entries' = ckpt.entries
      \/ pc' = "idle" /\ UNCHANGED <<session, entries>>
  BY DEF ResumeSlow
<1>3. /\ ri \in IndexDir /\ Serves(ri, chunks, manifests, ckpt)
      /\ HashesOf(ri.recs) = HashesOf(chunks.recs)
  BY RebuiltServes, DirTypes
<1> HIDE DEF ri
<1>4. TypeOK'
  BY <1>1, <1>2, <1>3 DEF TypeOK, PC, BackupPC, Ckpt
<1>5. (pc \in BackupPC =>
         /\ session \subseteq chunks.recs
         /\ entries \subseteq HashesOf(index.recs \cup session))'
  BY <1>1, <1>2, <1>3, HashesOfUnion DEF BackupPC
<1> QED
  BY <1>1, <1>2, <1>3, <1>4, <1>5, SettledInv DEF PruneRecoveryPending, BackupPC

-----------------------------------------------------------------------------
(* The steps of a backup *)

\* A frame appended to a pack log gives a pack log.
LEMMA AppendFrame ==
    ASSUME NEW c \in ChunkDir, NEW g, PackLog(c, g), NEW r \in Rec,
           r.loc = c.end + 1
    PROVE  LET d == [c EXCEPT !.end = @ + 1, !.recs = @ \cup {r}]
           IN  /\ d \in ChunkDir /\ PackLog(d, g)
               /\ d.here = c.here /\ d.gen = c.gen /\ d.recs = c.recs \cup {r}
<1> DEFINE d == [c EXCEPT !.end = @ + 1, !.recs = @ \cup {r}]
<1>1. /\ d.here = c.here /\ d.gen = c.gen
      /\ d.end = c.end + 1 /\ d.recs = c.recs \cup {r}
  BY DEF ChunkDir
<1>2. /\ c.here \in BOOLEAN /\ c.gen \in Nat /\ c.end + 1 \in Nat
      /\ c.recs \cup {r} \in SUBSET Rec
  BY DEF ChunkDir
<1>3. d \in ChunkDir
  BY <1>2, Zenon DEF ChunkDir
<1>4. IsFiniteSet(c.recs)
  BY DEF PackLog
<1>5. IsFiniteSet(d.recs)
  BY <1>1, <1>4, FS_AddElement
<1>6. \A q \in d.recs : q.loc <= d.end
  BY <1>1 DEF PackLog, ChunkDir, Rec, Loc
<1> QED
  BY <1>1, <1>3, <1>5, <1>6 DEF PackLog

\* Storing, or deduplicating, a chunk of a backup keeps it.
LEMMA BackupChunkKeepsInv ==
    ASSUME RepoInv, NEW h \in Hash, BackupChunk(h)
    PROVE  RepoInv'
<1> USE DEF RepoInv
<1>1. /\ ~PruneRecoveryPending /\ session \subseteq chunks.recs
      /\ entries \subseteq HashesOf(index.recs \cup session)
  BY DEF BackupChunk, AtEachStep, BackupPC
<1>2. /\ pc = "store" /\ pc' = "store" /\ entries' = entries \cup {h}
      /\ UNCHANGED <<index, oldChunks, oldIndex, staging, stChunks, stIndex,
                     manifests, ckpt, plan, gens, crashes>>
  BY DEF BackupChunk
<1>3. CASE h \in HashesOf(index.recs \cup session) /\ UNCHANGED <<chunks, session>>
  <2>1. TypeOK'
    BY <1>2, <1>3, Zenon DEF TypeOK
  <2> QED
    BY <1>1, <1>2, <1>3, <2>1, Settled, SettledInv DEF PruneRecoveryPending,
       BackupPC
<1>4. CASE LET r == [loc |-> chunks.end + 1, h |-> h]
           IN  /\ chunks' = [chunks EXCEPT !.end = @ + 1, !.recs = @ \cup {r}]
               /\ session' = session \cup {r}
  <2> DEFINE r == [loc |-> chunks.end + 1, h |-> h]
  <2>1. r \in Rec /\ chunks \in ChunkDir /\ r.h = h /\ r.loc = chunks.end + 1
    BY DEF Rec, Loc, TypeOK, ChunkDir
  <2>0. /\ chunks' = [chunks EXCEPT !.end = @ + 1, !.recs = @ \cup {r}]
        /\ session' = session \cup {r}
    BY <1>4
  <2> HIDE DEF r
  <2>2. /\ chunks' \in ChunkDir /\ PackLog(chunks', gens)
        /\ chunks'.here = chunks.here /\ chunks'.gen = chunks.gen
        /\ chunks'.recs = chunks.recs \cup {r}
    <3> DEFINE d == [chunks EXCEPT !.end = @ + 1, !.recs = @ \cup {r}]
    <3>1. PackLog(chunks, gens)
      OBVIOUS
    <3>2. /\ d \in ChunkDir /\ PackLog(d, gens) /\ d.here = chunks.here
          /\ d.gen = chunks.gen /\ d.recs = chunks.recs \cup {r}
      BY <2>1, <3>1, AppendFrame, Zenon
    <3> QED
      BY <2>0, <3>2
  <2>3. TypeOK'
    BY <1>2, <2>0, <2>1, <2>2 DEF TypeOK
  <2>4. PackLog(chunks, gens)'
    BY <1>2, <2>2
  <2>5. Serves(index, chunks, manifests, ckpt)'
    BY <1>1, <1>2, <2>2, Settled, ServesMoreFrames
  <2>6. session' \subseteq chunks'.recs
    BY <1>1, <2>0, <2>2
  <2>7. entries' \subseteq HashesOf(index'.recs \cup session')
    <3>1. h \in HashesOf({r})
      BY <2>1 DEF HashesOf
    <3>2. index'.recs \cup session' = (index.recs \cup session) \cup {r}
      BY <1>2, <2>0
    <3>3. HashesOf((index.recs \cup session) \cup {r})
            = HashesOf(index.recs \cup session) \cup HashesOf({r})
      BY HashesOfUnion
    <3>4. HashesOf(index'.recs \cup session')
            = HashesOf(index.recs \cup session) \cup HashesOf({r})
      BY <3>2, <3>3
    <3> HIDE DEF RepoInv
    <3> QED
      BY <1>1, <1>2, <3>1, <3>4
  <2> QED
    BY <1>1, <1>2, <2>3, <2>4, <2>5, <2>6, <2>7, SettledInv
       DEF PruneRecoveryPending, BackupPC
<1> QED
  BY <1>3, <1>4 DEF BackupChunk

\* Writing a checkpoint keeps it.
LEMMA BackupCheckpointKeepsInv ==
    ASSUME RepoInv, BackupCheckpoint
    PROVE  RepoInv'
<1> USE DEF RepoInv
<1>1. /\ ~PruneRecoveryPending /\ session \subseteq chunks.recs
      /\ entries \subseteq HashesOf(index.recs \cup session)
  BY Zenon DEF BackupCheckpoint, AtEachStep, BackupPC
<1>2. /\ pc = "store"
      /\ UNCHANGED <<chunks, index, oldChunks, oldIndex, staging, stChunks,
                     stIndex, manifests, pc, session, entries, plan, gens, crashes>>
      /\ ckpt' = [here |-> TRUE, gen |-> chunks.gen, entries |-> entries,
                  inserts |-> session]
  BY DEF BackupCheckpoint, mem
<1>3. TypeOK'
  BY <1>2 DEF TypeOK, Ckpt, ChunkDir
<1>4. Serves(index, chunks, manifests, ckpt)'
  BY <1>1, <1>2, Settled, Zenon DEF Serves
<1> QED
  BY <1>1, <1>2, <1>3, <1>4, SettledInv, Zenon DEF PruneRecoveryPending, BackupPC, PackLog

\* Flushing the index of a backup keeps it.
LEMMA BackupFlushKeepsInv ==
    ASSUME RepoInv, BackupFlush
    PROVE  RepoInv'
<1> USE DEF RepoInv
<1> DEFINE rs == Merge(index.recs, session)
<1>1. /\ ~PruneRecoveryPending /\ session \subseteq chunks.recs
      /\ entries \subseteq HashesOf(index.recs \cup session)
  BY Zenon DEF BackupFlush, AtEachStep, BackupPC
<1>2. /\ pc' = "save" /\ index' = IndexOf(rs)
      /\ UNCHANGED <<chunks, oldChunks, oldIndex, staging, stChunks, stIndex,
                     manifests, ckpt, session, entries, plan, gens, crashes>>
  BY DEF BackupFlush, mem
<1>3. /\ rs \subseteq index.recs \cup session
      /\ HashesOf(rs) = HashesOf(index.recs \cup session)
  BY MergeKeeps, Zenon
<1>4. index.recs \subseteq chunks.recs /\ index.recs \subseteq Rec /\ session \subseteq Rec
  BY <1>1, Settled, Zenon DEF Serves, Covers, TypeOK, IndexDir
<1> HIDE DEF rs
<1>5. index'.here /\ index'.recs = rs /\ index' \in IndexDir
  BY <1>2, <1>3, <1>4, DirTypes, Zenon
<1>6. TypeOK'
  BY <1>2, <1>5 DEF TypeOK, PC, BackupPC
<1>7. Serves(index, chunks, manifests, ckpt)'
  <2>1. rs \subseteq chunks.recs
    BY <1>1, <1>3, <1>4
  <2>2. HashesOf(index.recs) \subseteq HashesOf(rs)
    BY <1>3, HashesOfUnion
  <2> QED
    BY <1>1, <1>2, <1>5, <2>1, <2>2, Settled, ServesOtherIndex, Zenon
<1>8. entries' \subseteq HashesOf(index'.recs)
  BY <1>1, <1>2, <1>3, <1>5, Zenon
<1>9. entries' \subseteq HashesOf(index'.recs \cup session')
  BY <1>8, HashesOfUnion
<1> QED
  BY <1>1, <1>2, <1>6, <1>7, <1>8, <1>9, SettledInv, Zenon DEF PruneRecoveryPending,
     BackupPC

\* Saving the manifest keeps it: every entry is indexed by then.
LEMMA BackupSaveKeepsInv ==
    ASSUME RepoInv, BackupSave
    PROVE  RepoInv'
<1> USE DEF RepoInv
<1>1. ~PruneRecoveryPending /\ entries \subseteq HashesOf(index.recs)
  BY Zenon DEF BackupSave, AtEachStep, BackupPC
<1>2. /\ pc' = "idle" /\ session' = {} /\ entries' = {}
      /\ manifests' = manifests \cup {entries}
      /\ ckpt' = ckpt \/ ckpt' = NoCkpt
      /\ UNCHANGED <<chunks, index, oldChunks, oldIndex, staging, stChunks,
                     stIndex, plan, gens, crashes>>
  BY DEF BackupSave
<1> ckpt' \in Ckpt /\ manifests' \subseteq SUBSET Hash
  BY <1>2, DirTypes DEF TypeOK
<1>3. TypeOK'
  BY <1>2 DEF TypeOK, PC
<1>4. Serves(index, chunks, manifests, ckpt)'
  BY <1>1, <1>2, Settled, DirTypes, Zenon DEF Serves, Covers
<1>5. (ckpt.gen <= gens)'
  BY <1>2, DirTypes DEF TypeOK
<1> QED
  BY <1>1, <1>2, <1>3, <1>4, <1>5, SettledInv, Zenon DEF PruneRecoveryPending, BackupPC


-----------------------------------------------------------------------------
(* Prune: the plan, the rewrite and the new generation *)

\* Choosing the entries a prune copies keeps it.
LEMMA PruneScanKeepsInv ==
    ASSUME RepoInv, NEW extra, PruneScan(extra)
    PROVE  RepoInv'
<1> USE DEF RepoInv
<1> DEFINE ref == {e \in index.recs : e.h \in Referenced(extra)}
<1>1. /\ chunks.here /\ index.here /\ ~oldChunks.here /\ ~oldIndex.here
      /\ pc = "scan" /\ MadeChunks = chunks /\ MadeIndex = index
  BY Zenon DEF PruneScan, AtEachStep, MadeChunks, MadeIndex
<1>2. Serves(index, chunks, manifests, ckpt)
  BY <1>1 DEF RecoveredIndex, RecoveredChunks
<1>3. UNCHANGED <<chunks, index, oldChunks, oldIndex, manifests, ckpt, session,
                  entries, gens, crashes>>
  BY <1>1 DEF PruneScan
<1>4. Serves(RecoveredIndex, RecoveredChunks, manifests, ckpt)'
  BY <1>1, <1>2, <1>3 DEF RecoveredIndex, RecoveredChunks
<1>5. CASE pc' = "idle" /\ plan' = {} /\ UNCHANGED <<staging, stChunks, stIndex>>
  <2>1. TypeOK'
    BY <1>3, <1>5 DEF TypeOK, PC
  <2>2. AtEachStep'
    BY <1>5, Zenon DEF AtEachStep, BackupPC
  <2> QED
    BY <1>3, <1>4, <1>5, <2>1, <2>2
<1>6. CASE /\ pc' = "rewrite" /\ plan' \in OnePerHash(ref) /\ staging' = TRUE
           /\ stChunks' = EmptyChunks /\ stIndex' = IndexOf({})
  <2>1. plan' \subseteq ref /\ HashesOf(plan') = HashesOf(ref)
    BY <1>6, OnePerHashKeeps
  <2>2. plan' \subseteq index.recs /\ plan' \subseteq Rec
    BY <2>1 DEF TypeOK, IndexDir
  <2>3. TypeOK'
    BY <1>3, <1>6, <2>2, DirTypes, Zenon DEF TypeOK, PC, SwapPC
  <2>4. \A m \in manifests : m \subseteq HashesOf(plan')
    <3> SUFFICES ASSUME NEW m \in manifests, NEW h \in m PROVE h \in HashesOf(ref)
      BY <2>1
    <3>1. PICK e \in index.recs : e.h = h
      BY <1>2 DEF Serves, Covers, HashesOf
    <3>2. h \in Referenced(extra)
      BY DEF Referenced
    <3> QED
      BY <3>1, <3>2 DEF HashesOf
  <2>5. AtEachStep'
    BY <1>1, <1>3, <1>6, <2>2, <2>4, DirTypes, Zenon DEF AtEachStep, BackupPC
  <2>6. (PackLog(chunks, gens) /\ PackLog(oldChunks, gens) /\ PackLog(stChunks, gens))'
    BY <1>3, <1>6, EmptyLogs, Zenon DEF TypeOK
  <2> QED
    BY <1>3, <1>4, <2>3, <2>5, <2>6
<1> QED
  BY <1>1, <1>5, <1>6, Zenon DEF PruneScan

\* The new packs and the new index serve what the plan covers.
LEMMA PruneRewriteKeepsInv ==
    ASSUME RepoInv, PruneRewrite
    PROVE  RepoInv'
<1> USE DEF RepoInv
<1> DEFINE Copies(e) == {[loc |-> Rank(e), h |-> f.h] :
                           f \in {g \in chunks.recs : g.loc = e.loc}}
           newFrames == UNION {Copies(e) : e \in plan}
           newIndex  == {[loc |-> Rank(e), h |-> e.h] : e \in plan}
<1>1. /\ chunks.here /\ index.here /\ ~oldChunks.here /\ ~oldIndex.here
      /\ stChunks.here /\ plan \subseteq index.recs
      /\ \A m \in manifests : m \subseteq HashesOf(plan)
  BY DEF PruneRewrite, AtEachStep
<1>2. /\ pc' = "stamp" /\ stIndex' = IndexOf(newIndex)
      /\ stChunks' = [stChunks EXCEPT !.end = Cardinality(plan), !.recs = newFrames]
      /\ UNCHANGED <<chunks, index, oldChunks, oldIndex, staging, manifests, ckpt,
                     session, entries, plan, gens, crashes>>
  BY DEF PruneRewrite, mem
<1>3. Serves(index, chunks, manifests, ckpt)
  BY <1>1 DEF RecoveredIndex, RecoveredChunks
<1>4. plan \subseteq chunks.recs /\ chunks.recs \subseteq Rec /\ IsFiniteSet(chunks.recs)
  BY <1>1, <1>3, Zenon DEF Serves, Covers, TypeOK, ChunkDir, PackLog
<1>5. plan \subseteq Rec /\ IsFiniteSet(plan) /\ Cardinality(plan) \in Nat
  BY <1>4, FS_Subset, FS_CardinalityType
<1>6. \A e \in plan : Rank(e) \in 1 .. Cardinality(plan)
  BY <1>5, RankType
<1>7. newIndex \subseteq Rec /\ newFrames \subseteq Rec
  BY <1>4, <1>5, <1>6 DEF Rec, Loc
<1>8. newIndex \subseteq newFrames
  BY <1>4
<1>9. \A q \in newFrames : q.loc <= Cardinality(plan)
  BY <1>5, <1>6
<1>10. IsFiniteSet(newFrames)
  <2>1. ASSUME NEW e \in plan PROVE IsFiniteSet(Copies(e))
    <3> DEFINE G == {g \in chunks.recs : g.loc = e.loc}
    <3>1. IsFiniteSet(G)
      BY <1>4, FS_Subset
    <3> DEFINE copy == [f \in G |-> [loc |-> Rank(e), h |-> f.h]]
    <3>2. Copies(e) = {copy[f] : f \in G}
      BY Zenon
    <3> HIDE DEF G
    <3>3. DOMAIN copy = G
      OBVIOUS
    <3> HIDE DEF copy, Copies
    <3> QED
      BY <3>1, <3>2, <3>3, FiniteImage
  <2> HIDE DEF Copies
  <2>2. IsFiniteSet({Copies(e) : e \in plan})
    <3> DEFINE all == [e \in plan |-> Copies(e)]
    <3>1. {Copies(e) : e \in plan} = {all[e] : e \in plan} /\ DOMAIN all = plan
      OBVIOUS
    <3> HIDE DEF all
    <3>2. IsFiniteSet({all[e] : e \in plan})
      BY <1>5, <3>1, FiniteImage
    <3> QED
      BY <3>1, <3>2, Zenon
  <2> QED
    BY <2>1, <2>2, FS_UNION, Zenon
<1>11. HashesOf(plan) \subseteq HashesOf(newIndex)
  <2> SUFFICES ASSUME NEW e \in plan PROVE e.h \in HashesOf(newIndex)
    BY DEF HashesOf
  <2>1. [loc |-> Rank(e), h |-> e.h] \in newIndex
    OBVIOUS
  <2>2. [loc |-> Rank(e), h |-> e.h].h = e.h
    OBVIOUS
  <2> HIDE DEF newIndex
  <2> QED
    BY <2>1, <2>2 DEF HashesOf
<1> HIDE DEF Copies, newFrames, newIndex
<1>12. /\ stChunks' \in ChunkDir /\ stChunks'.here = stChunks.here
       /\ stChunks'.gen = stChunks.gen /\ stChunks'.end = Cardinality(plan)
       /\ stChunks'.recs = newFrames
  BY <1>2, <1>5, <1>7, Zenon DEF TypeOK, ChunkDir
<1>13. TypeOK'
  BY <1>2, <1>7, <1>12, DirTypes DEF TypeOK, PC, SwapPC
<1>14. PackLog(stChunks, gens)'
  BY <1>2, <1>9, <1>10, <1>12 DEF PackLog
<1>15. Covers(stIndex, stChunks, manifests)'
  BY <1>1, <1>2, <1>8, <1>11, <1>12, DirTypes DEF Covers
<1>16. Serves(RecoveredIndex, RecoveredChunks, manifests, ckpt)'
  BY <1>1, <1>2, <1>3 DEF RecoveredIndex, RecoveredChunks
<1>17. AtEachStep'
  BY <1>1, <1>2, <1>15 DEF AtEachStep, BackupPC
<1> QED
  BY <1>2, <1>13, <1>14, <1>16, <1>17

\* A generation never issued before is not the checkpoint's.
LEMMA SwapStampKeepsInv ==
    ASSUME RepoInv, SwapStamp
    PROVE  RepoInv'
<1> USE DEF RepoInv
<1>1. /\ pc' = "aside" /\ gens' = gens + 1
      /\ stChunks' = [stChunks EXCEPT !.gen = gens + 1]
      /\ UNCHANGED <<chunks, index, oldChunks, oldIndex, staging, stIndex,
                     manifests, ckpt, session, entries, plan, crashes>>
  BY DEF SwapStamp, mem
<1>2. /\ chunks.here /\ index.here /\ ~oldChunks.here /\ ~oldIndex.here
      /\ Covers(stIndex, stChunks, manifests)
  BY DEF SwapStamp, AtEachStep
<1>3. gens \in Nat /\ ckpt.gen \in Nat /\ ckpt.gen <= gens
  BY DEF TypeOK, Ckpt
<1>4. /\ stChunks' \in ChunkDir /\ stChunks'.here = stChunks.here
      /\ stChunks'.gen = gens + 1 /\ stChunks'.end = stChunks.end
      /\ stChunks'.recs = stChunks.recs
  BY <1>1, <1>3 DEF TypeOK, ChunkDir
<1>5. TypeOK'
  BY <1>1, <1>3, <1>4 DEF TypeOK, PC, SwapPC
<1>6. Serves(stIndex, stChunks, manifests, ckpt)'
  BY <1>1, <1>2, <1>3, <1>4 DEF Serves, Covers
<1>7. (PackLog(chunks, gens) /\ PackLog(oldChunks, gens) /\ PackLog(stChunks, gens))'
  BY <1>1, <1>3, <1>4 DEF PackLog, TypeOK, ChunkDir
<1>8. Serves(RecoveredIndex, RecoveredChunks, manifests, ckpt)'
  BY <1>1, <1>2 DEF RecoveredIndex, RecoveredChunks
<1>9. AtEachStep'
  BY <1>1, <1>2, <1>6 DEF AtEachStep, BackupPC
<1> QED
  BY <1>1, <1>3, <1>5, <1>7, <1>8, <1>9

-----------------------------------------------------------------------------
(* The theorems *)

\* Every step that Spec allows keeps the invariant.
LEMMA NextKeepsInv == RepoInv /\ [RecoverFirstNext]_vars => RepoInv'
<1> SUFFICES ASSUME RepoInv, [RecoverFirstNext]_vars PROVE RepoInv'
  OBVIOUS
<1>1. CASE BackupStep
  BY <1>1, BackupChunkKeepsInv, BackupCheckpointKeepsInv, BackupFlushKeepsInv,
     BackupSaveKeepsInv DEF BackupStep
<1>2. CASE PruneBegin \/ RecoverStep
  BY <1>2, RecoverKeepsInv DEF RecoverStep
<1>3. CASE SwapStep
  BY <1>3, PruneScanKeepsInv, PruneRewriteKeepsInv, SwapStampKeepsInv,
     SwapKeepsInv DEF SwapStep
<1>4. CASE Failure
  BY <1>4, SwapKeepsInv, CrashKeepsInv, CrashInRemoveKeepsInv DEF Failure
<1>5. CASE ~PruneRecoveryPending /\ Command
  BY <1>5, OpenKeepsInv, ForgetKeepsInv, RebuildKeepsInv, ResumeFastKeepsInv,
     ResumeSlowKeepsInv DEF Command
<1>6. CASE UNCHANGED vars
  BY <1>6, Zenon DEF vars, disk, mem, RepoInv, TypeOK, RecoveredIndex, RecoveredChunks,
     AtEachStep, PruneRecoveryPending
<1> QED
  BY <1>1, <1>2, <1>3, <1>4, <1>5, <1>6 DEF RecoverFirstNext, PruneStep

\* RepoInv is an invariant of the repository as long as an interrupted prune is
\* recovered before anything else is done.
THEOREM RepoInvariant == Spec => []RepoInv
BY InitInv, NextKeepsInv, PTL DEF Spec

\* Every variable keeps its type: in particular a rewritten frame lands at a
\* position of the new pack log (rewriteChunks).
THEOREM TypeCorrect == Spec => []TypeOK
<1>1. RepoInv => TypeOK
  BY DEF RepoInv
<1> QED
  BY <1>1, RepoInvariant, PTL

\* chunks/ and index/ are consistent with each other after the recovery from a
\* crash at any point of a prune, of its rollback or of an earlier recovery.
THEOREM CrashConsistency == Spec => []RecoveredConsistent
<1>1. RepoInv => RecoveredConsistent
  BY DEF RepoInv, RecoveredConsistent, Serves, Covers
<1> QED
  BY <1>1, RepoInvariant, PTL

\* A saved backup resolves whenever the invariant holds.
LEMMA InvSurvive == RepoInv => ManifestsSurvive
<1> SUFFICES ASSUME RepoInv, NEW m \in manifests PROVE Resolvable(m)
  BY DEF ManifestsSurvive
<1>1. /\ RecoveredIndex.recs \subseteq RecoveredChunks.recs
      /\ m \subseteq HashesOf(RecoveredIndex.recs)
  BY DEF RepoInv, Serves, Covers
<1>2. RecoveredIndex.recs \cap RecoveredChunks.recs = RecoveredIndex.recs
  BY <1>1
<1> QED
  BY <1>1, <1>2, Zenon DEF Resolvable

\* A saved backup resolves, chunk by chunk, through every crash and prune.
THEOREM BackupsSurvive == Spec => []ManifestsSurvive
BY InvSurvive, RepoInvariant, PTL

\* Only BackupSave and Forget change the set of saved backups.
LEMMA ManifestSteps ==
    ASSUME RepoInv, [RecoverFirstNext]_vars
    PROVE  \/ UNCHANGED manifests
           \/ \E m \in SUBSET Hash : manifests' = manifests \cup {m}
           \/ \E m \in SUBSET Hash : manifests' = manifests \ {m}
<1>1. CASE BackupStep
  BY <1>1, Zenon DEF BackupStep, BackupChunk, BackupCheckpoint, BackupFlush, BackupSave,
     RepoInv, TypeOK
<1>2. CASE PruneBegin \/ RecoverStep
  BY <1>2 DEF PruneBegin, RecoverStep, RecoverNothing, RecoverRollBack,
     RecoverForward, RecoverDropIndex, RecoverInstallIndex, RecoverDropOldChunks,
     RecoverNoOldChunks, RecoverIndexBack, RecoverTidyIndex, RecoverTidyStaging, Go
<1>3. CASE SwapStep
  BY <1>3 DEF SwapStep, PruneScan, PruneRewrite, PruneFails, SwapStamp,
     SwapChunksAside, SwapChunksIn, SwapIndexAside, SwapIndexIn,
     SwapRemoveOldChunks, SwapRemoveOldIndex, SwapRemoveStaging, UndoIndexAside,
     UndoChunksIn, UndoChunksAside, Go, disk
<1>4. CASE Failure
  BY <1>4 DEF Failure, SwapRenameFails, Crash, CrashInRemove, Died, disk
<1>5. CASE Command
  BY <1>5, Zenon DEF Command, BackupOpen, ResumeFast, ResumeSlow, Forget, Rebuild,
     OpenStore, RepoInv, TypeOK
<1>6. CASE UNCHANGED vars
  BY <1>6 DEF vars, disk
<1> QED
  BY <1>1, <1>2, <1>3, <1>4, <1>5, <1>6 DEF RecoverFirstNext, PruneStep

\* The repository implements what it promises: a backup can be restored from
\* the step that saves it to the step that forgets it.
THEOREM Refinement == Spec => ImplementsCatalog
<1> DEFINE ok == {m \in manifests : Resolvable(m)}
<1>1. RepoInv => ok = manifests
  BY InvSurvive DEF ManifestsSurvive
<1>2. Init => Abstract!Init
  BY DEF Init, Abstract!Init
<1>3. RepoInv /\ RepoInv' /\ [RecoverFirstNext]_vars
        => [Abstract!Next]_(Abstract!vars)
  <2> SUFFICES ASSUME RepoInv, RepoInv', [RecoverFirstNext]_vars
               PROVE  [Abstract!Next]_(Abstract!vars)
    OBVIOUS
  <2>1. ok = manifests /\ ok' = manifests'
    <3>1. ok = manifests
      BY <1>1
    <3>2. ManifestsSurvive'
      BY InvSurvive, PTL
    <3>3. ok' = manifests'
      BY <3>2 DEF ManifestsSurvive
    <3> QED
      BY <3>1, <3>3
  <2> HIDE DEF ok
  <2>2. CASE UNCHANGED manifests
    BY <2>1, <2>2 DEF Abstract!vars, ok
  <2>3. ASSUME NEW m \in SUBSET Hash, manifests' = manifests \cup {m}
        PROVE  Abstract!Next
    BY <2>1, <2>3 DEF Abstract!Next, Abstract!Save, ok
  <2>4. ASSUME NEW m \in SUBSET Hash, manifests' = manifests \ {m}
        PROVE  Abstract!Next
    BY <2>1, <2>4 DEF Abstract!Next, Abstract!Forget, ok
  <2> QED
    BY <2>2, <2>3, <2>4, ManifestSteps
<1> QED
  BY <1>2, <1>3, RepoInvariant, PTL DEF Spec, ImplementsCatalog, Abstract!Spec

\* The fast path of a resume never replays a location that a prune has moved.
THEOREM FastPathCorrect == Spec => []FastPathSound
<1>1. RepoInv => FastPathSound
  BY DEF RepoInv, FastPathSound, Serves
<1> QED
  BY <1>1, RepoInvariant, PTL

=============================================================================
