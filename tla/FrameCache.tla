----------------------------- MODULE FrameCache -----------------------------
(***************************************************************************)
(* The frame cache of a ChunkStore (core/store/store.go): a concurrent map *)
(* that readers consult without a lock, and, under a mutex, the order in   *)
(* which frames came in and the bytes they hold.  CacheFrame publishes a   *)
(* frame in the map first and accounts for it afterwards, so the two views *)
(* differ while a caller is between the two steps.                         *)
(*                                                                         *)
(* A location is <<pack, offset>>.  A pack is immutable, so the length of  *)
(* the frame at a location is a constant.                                  *)
(***************************************************************************)
EXTENDS Integers, Sequences, FiniteSets, Functions

CONSTANTS
  Loc,         \* the locations of frames
  Caller,      \* the goroutines that cache frames
  FrameSize,   \* FrameSize[l]: the length of the frame at l
  MaxBytes     \* FrameCacheMaxBytes

ASSUME CacheAssumption ==
  /\ FrameSize \in [Loc -> Nat]
  /\ MaxBytes \in Nat
  /\ \A l \in Loc : l = <<l[1], l[2]>>

VARIABLES
  frameCache,       \* the locations whose frame is in the map
  frameOrder,       \* the accounted locations, oldest first
  frameCacheBytes,  \* the bytes accounted for
  adding            \* adding[c]: what c has published and not yet accounted

cacheVars == <<frameCache, frameOrder, frameCacheBytes, adding>>

\* The bytes of a set of frames.
BytesOf(S) == SumFunctionOnSet(FrameSize, S)

\* What is in the map and not yet accounted for.
Adding == UNION {adding[c] : c \in Caller}

CacheInit ==
  /\ frameCache = {}
  /\ frameOrder = << >>
  /\ frameCacheBytes = 0
  /\ adding = [c \in Caller |-> {}]

\* An altered form: a frame that is already in the map is accounted for again.
LoadOrStoreAgain(c, l) ==
  /\ adding[c] = {}
  /\ frameCache' = frameCache \union {l}
  /\ adding' = [adding EXCEPT ![c] = {l}]
  /\ UNCHANGED <<frameOrder, frameCacheBytes>>

\* CacheFrame, before the lock: the first caller to bring a frame publishes it.
LoadOrStore(c, l) ==
  /\ adding[c] = {}
  /\ frameCache' = frameCache \union {l}
  /\ adding' = [adding EXCEPT ![c] = {l} \ frameCache]
  /\ UNCHANGED <<frameOrder, frameCacheBytes>>

\* The order and the bytes after the first k frames of ord have been evicted.
Oldest(ord, k) == {ord[i] : i \in 1..k}
BytesLeft(ord, bytes, k) == bytes - BytesOf(Oldest(ord, k) \intersect frameCache)

\* An altered form: the eviction stops one frame early.
StopsEarly(ord, bytes, k) ==
  BytesLeft(ord, bytes, k + 1) <= MaxBytes \/ k = Len(ord) - 1

\* The loop of CacheFrame evicts until the bytes fit or one frame is left.
Stops(ord, bytes, k) == BytesLeft(ord, bytes, k) <= MaxBytes \/ k = Len(ord) - 1

\* CacheFrame, under the lock.
Account(c) ==
  \E l \in adding[c], k \in 0..Len(frameOrder) :
    LET ord == Append(frameOrder, l)
        bytes == frameCacheBytes + FrameSize[l]
    IN  /\ Stops(ord, bytes, k)
        /\ \A j \in 0..(k - 1) : ~Stops(ord, bytes, j)
        /\ frameOrder' = SubSeq(ord, k + 1, Len(ord))
        /\ frameCacheBytes' = BytesLeft(ord, bytes, k)
        /\ frameCache' = frameCache \ Oldest(ord, k)
        /\ adding' = [adding EXCEPT ![c] = {}]

\* DropFrames: forget the accounted frames of one pack; the others keep their
\* order.
DropFrames(p) ==
  LET kept == {i \in 1..Len(frameOrder) : frameOrder[i][1] # p}
      n == Cardinality(kept)
      gone == {l \in Range(frameOrder) : l[1] = p}
  IN  /\ \E at \in Bijection(1..n, kept) :
           /\ \A i, j \in 1..n : i < j => at[i] < at[j]
           /\ frameOrder' = [i \in 1..n |-> frameOrder[at[i]]]
      /\ frameCacheBytes' = frameCacheBytes - BytesOf(gone \intersect frameCache)
      /\ frameCache' = frameCache \ gone
      /\ UNCHANGED adding

CacheNext ==
  \/ \E c \in Caller, l \in Loc : LoadOrStore(c, l)
  \/ \E c \in Caller : Account(c)
  \/ \E l \in Loc : DropFrames(l[1])

CacheSpec == CacheInit /\ [][CacheNext]_cacheVars

-----------------------------------------------------------------------------
CacheTypeOK ==
  /\ frameCache \subseteq Loc
  /\ frameOrder \in Seq(Loc)
  /\ frameCacheBytes \in Int
  /\ adding \in [Caller -> SUBSET Loc]

\* A frame in the map is either accounted for, once, or being accounted for by
\* exactly one caller: the unlocked LoadOrStore and the locked bookkeeping
\* (store.go:483-501) never disagree for longer than that.
CacheTracked ==
  /\ \A i, j \in 1..Len(frameOrder) : frameOrder[i] = frameOrder[j] => i = j
  /\ \A c \in Caller : Range(frameOrder) \intersect adding[c] = {}
  /\ \A c, d \in Caller : c # d => adding[c] \intersect adding[d] = {}
  /\ frameCache = Range(frameOrder) \union Adding

\* The bytes accounted for are those of the frames held, and stay within the
\* ceiling unless one frame alone exceeds it (store.go:490-499).
CacheBounded ==
  /\ frameCacheBytes = BytesOf(Range(frameOrder))
  /\ frameCacheBytes <= MaxBytes \/ Len(frameOrder) = 1
=============================================================================
