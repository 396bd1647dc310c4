----------------------------- MODULE PackReader -----------------------------
(***************************************************************************)
(* Reading a chunk (ChunkStore.Retrieve, core/store/store.go), with the    *)
(* fetch policy of restoreplan: the frame cache first; then the local pack *)
(* file; and, when the repository is remote, a ranged read of one frame,   *)
(* or the download of the whole pack when the plan says it is dense.       *)
(*                                                                         *)
(* The reader is one of the callers of the frame cache; Bulk is another, a *)
(* batch fetcher that caches frames and drops packs while the reader runs. *)
(***************************************************************************)
EXTENDS FrameCache, Entries

CONSTANTS
  Pack,         \* the packs of the repository
  Located,      \* Located[h]: where the index says the frame of chunk h is
  LruWindow,    \* how many downloaded packs stay on disk
  PackMax,      \* the size of a full pack
  DenseFloor,   \* the least number of needed chunks that makes a pack dense
  MaxFaults,    \* bound on failed fetches and other transient faults
  MaxBulk       \* bound on the calls of the batch fetcher

Reader == "reader"
Bulk == "bulk"

VARIABLES
  damage,  \* what is wrong with the repository, fixed at the start
  wiring,  \* "local": the packs are on disk; "cloud": the hooks are set;
           \* "staged": a caller brings the frames of one span at a time
  disk,    \* disk[p]: the local file of pack p
  recent,  \* the downloaded packs, least recently used first
  dense,   \* the packs the plan downloads whole
  call,    \* the reader's pending Retrieve
  faults,  \* how many faults have occurred
  bulk     \* how many calls the batch fetcher has made

readerVars == <<damage, wiring, disk, recent, dense, call, faults, bulk>>

\* A pack file: whether it exists, how many frame slots it spans, and the
\* slots that are not holes.
NoFile == [there |-> FALSE, span |-> 0, has |-> {}]
EmptyFile == [there |-> TRUE, span |-> 0, has |-> {}]
LocsOf(p) == {l \in Loc : l[1] = p}
Whole(p) == [there |-> TRUE, span |-> Cardinality(LocsOf(p)), has |-> LocsOf(p)]

\* What a Retrieve returns: the bytes of chunk h (0: bytes of no known chunk),
\* an error that judges the chunk, or a FetchError, which judges nothing.
Data(h) == [kind |-> "data", h |-> h]
Error == [kind |-> "error", h |-> 0]
FetchError == [kind |-> "fetch", h |-> 0]
NoCall == [at |-> "idle", loc |-> << >>, ans |-> Error]

Answer(a) == call' = [call EXCEPT !.at = "answered", !.ans = a]
AtStep(s) == call' = [call EXCEPT !.at = s]

\* LookupDirect, as readers use it: the frame's location, if the index has it.
Found(h) == h \in DOMAIN Located \ damage.unindexed

\* RetrieveFromFrame and the tail of Retrieve: decrypt and decompress.
Decode(l) ==
  IF damage.frame[l] = "garbled" THEN Error
  ELSE IF damage.frame[l] = "altered" THEN Data(0)
  ELSE Data(CHOOSE h \in DOMAIN Located : Located[h] = l)

\* What is read at a frame's offset of a local file: in a hole, zeros, which
\* decode to bytes of no chunk.
ReadAt(l) == IF l \in disk[l[1]].has THEN Decode(l) ELSE Data(0)

\* ExtractFrames: rewrite a pack file to the wanted frames, with holes elsewhere
\* and the same extent; a temporary file and a rename make it one step.
ExtractFrames(p, wanted) == [Whole(p) EXCEPT !.has = @ \intersect wanted]

-----------------------------------------------------------------------------
\* restoreplan.BuildFrom: count the needed chunks of each pack.  The floor is
\* 4 in the code, and a 64th of a pack's capacity in chunks of average size.
BuildFrom(es) ==
  LET needed == {i \in 1..Len(es) : ~es[i].ex /\ Found(es[i].h)}
      In(p) == {i \in needed : Located[es[i].h][1] = p}
      total == SumFunctionOnSet([i \in 1..Len(es) |-> es[i].len], needed)
      avg == total \div Cardinality(needed)
      capacity == PackMax \div (IF avg > 0 THEN avg ELSE 1)
      share == capacity \div 64
      threshold == IF share < DenseFloor THEN DenseFloor ELSE share
  IN  IF needed = {} THEN {}
      ELSE {p \in Pack : Cardinality(In(p)) >= threshold}

\* The pack source of the wiring (external): recency and its eviction.
Touch(r, p) == Append(SelectSeq(r, LAMBDA q : q # p), p)
EvictLRUPacks(r) ==
  IF Len(r) > LruWindow THEN SubSeq(r, Len(r) - LruWindow + 1, Len(r)) ELSE r

-----------------------------------------------------------------------------
Retrieve(l) ==
  /\ call = NoCall
  /\ call' = [at |-> "lookup", loc |-> l, ans |-> Error]
  /\ UNCHANGED <<bulk, damage, wiring, disk, recent, dense, faults, cacheVars>>

\* The frame cache, without a lock; on a miss, where the bytes come from.
LookInCache ==
  /\ call.at = "lookup"
  /\ LET l == call.loc
         p == l[1]
     IN  IF l \in frameCache THEN Answer(Decode(l))
         ELSE IF wiring = "cloud" /\ ~disk[p].there /\ p \notin dense THEN AtStep("fetch")
         ELSE AtStep("open")
  /\ UNCHANGED <<bulk, damage, wiring, disk, recent, dense, faults, cacheVars>>

\* chunkFetch: one ranged read.  A pack that is gone is loss, any other failure
\* is a FetchError; a frame is cached before it is decoded.
FetchChunk ==
  /\ call.at = "fetch"
  /\ \/ /\ call.loc[1] \in damage.gone
        /\ Answer(Error)
        /\ UNCHANGED <<faults, cacheVars>>
     \/ /\ faults < MaxFaults
        /\ faults' = faults + 1
        /\ Answer(FetchError)
        /\ UNCHANGED cacheVars
     \/ /\ call.loc[1] \notin damage.gone
        /\ LoadOrStore(Reader, call.loc)
        /\ AtStep("cached")
        /\ UNCHANGED faults
  /\ UNCHANGED <<bulk, damage, wiring, disk, recent, dense>>

\* The rest of CacheFrame, if the frame was new, and the decoding.
CacheFetched ==
  /\ call.at = "cached"
  /\ IF adding[Reader] = {} THEN UNCHANGED cacheVars ELSE Account(Reader)
  /\ Answer(Decode(call.loc))
  /\ UNCHANGED <<bulk, damage, wiring, disk, recent, dense, faults>>

\* openPackForRead, and the header read: past the end of a short file the
\* hooks are asked again.
OpenPack ==
  /\ call.at = "open"
  /\ LET l == call.loc
         p == l[1]
     IN  /\ IF disk[p].there
            THEN IF l[2] < disk[p].span THEN Answer(ReadAt(l))
                 ELSE IF wiring # "cloud" THEN Answer(Error)
                 ELSE AtStep(IF p \in dense THEN "download" ELSE "fetch")
            ELSE IF wiring # "cloud" THEN Answer(Error) ELSE AtStep("download")
         /\ recent' = IF disk[p].there /\ wiring = "cloud" THEN Touch(recent, p) ELSE recent
  /\ UNCHANGED <<bulk, damage, wiring, disk, dense, faults, cacheVars>>

\* fetchAndOpenPack with the hook of Wire: download, touch, evict, open, read.
DownloadPack ==
  /\ call.at = "download"
  /\ LET l == call.loc
         p == l[1]
         now == EvictLRUPacks(Touch(recent, p))
     IN  \/ /\ p \in damage.gone
            /\ Answer(Error)
            /\ UNCHANGED <<disk, recent, faults>>
         \/ /\ faults < MaxFaults
            /\ faults' = faults + 1
            /\ Answer(FetchError)
            /\ UNCHANGED <<disk, recent>>
         \/ /\ p \notin damage.gone
            /\ disk' = [q \in Pack |->
                 IF q = p THEN Whole(q)
                 ELSE IF q \in Range(recent) \ Range(now) THEN NoFile ELSE disk[q]]
            /\ recent' = now
            /\ Answer(Decode(l))
            /\ UNCHANGED faults
  /\ UNCHANGED <<bulk, damage, wiring, dense, cacheVars>>

ReaderStep == LookInCache \/ FetchChunk \/ CacheFetched \/ OpenPack \/ DownloadPack

\* The batch fetcher (external) publishes, accounts for and drops frames.
BulkStep ==
  /\ wiring = "cloud"
  /\ \/ /\ bulk < MaxBulk
        /\ \/ \E l \in Loc : l[1] \notin damage.gone /\ LoadOrStore(Bulk, l)
           \/ \E p \in Pack : DropFrames(p)
        /\ bulk' = bulk + 1
     \/ Account(Bulk) /\ UNCHANGED bulk
  /\ UNCHANGED <<damage, wiring, disk, recent, dense, call, faults>>

ReaderInit ==
  /\ CacheInit
  /\ wiring \in {"local", "cloud", "staged"}
  /\ recent = << >>
  /\ call = NoCall
  /\ faults = 0
  /\ bulk = 0
  /\ \/ wiring = "local" /\ disk = [p \in Pack |-> IF p \in damage.gone THEN NoFile ELSE Whole(p)]
     \/ wiring = "cloud" /\ disk \in {[p \in Pack |-> IF p \in e THEN EmptyFile ELSE NoFile] :
                                       e \in {{}, {0}}}
     \/ wiring = "staged" /\ disk = [p \in Pack |-> NoFile]

ReaderTypeOK ==
  /\ CacheTypeOK
  /\ wiring \in {"local", "cloud", "staged"}
  /\ disk \in [Pack -> [there : BOOLEAN, span : Nat, has : SUBSET Loc]]
  /\ recent \in Seq(Pack)
  /\ dense \subseteq Pack
  /\ call.at \in {"idle", "lookup", "fetch", "cached", "open", "download", "answered"}
  /\ faults \in 0..MaxFaults
  /\ bulk \in 0..MaxBulk
=============================================================================
