----------------------------- MODULE FileRestore -----------------------------
(***************************************************************************)
(* FileRestorer (core/restore/filerestore.go) and its frame prefetcher     *)
(* (core/restore/prefetch.go): RestoreFiles writes the files of a backup's *)
(* catalog one after the other, ExtractFile writes one of them.  A file is *)
(* a region of the stream, a list of extents of a volume, bytes kept in    *)
(* the catalog, or unchanged since another backup that holds its data.     *)
(*                                                                         *)
(* A catalog row is [path, src, size, kind, regions, inline, hash]; a      *)
(* region is [file, vol, len]: len bytes at offset file of the file are at *)
(* offset vol of the stream.  kind "unchanged" refers to the backup RefRows.*)
(***************************************************************************)
EXTENDS VolumeRestore

CONSTANTS
  FileJobs,          \* the catalogs restored: [kind, parts, rows, content, links]
  RefRows,           \* the catalog of the backup that unchanged files refer to
  RefParts,          \* its entries
  MaxPrefetchBytes,  \* the budget of a window, in bytes
  MaxPrefetchChunks, \* and in chunks
  Slack              \* prefetchFrameSlack

VARIABLES
  out,     \* out[i]: the file at the path of row i: << >> or <<its bytes>>
  window,  \* the prefetched frames: window[l] is "none", "frame" or "unusable"
  dirs     \* the directories: "absent", "widened" or "final"

fileVars == <<out, window, dirs>>
NoWindow == [l \in Loc |-> "none"]
OldFile == <<99>>

FileJob(j, ignore) ==
  [kind |-> j.kind, pc |-> "dirs", spec |-> j, ignore |-> ignore, fi |-> 1, la |-> 1,
   pieces |-> << >>, written |-> 0, total |-> 0, restored |-> {}]

\* ExtractFile: one row, found by its path; no directory is made writable.
ExtractJob(j, ignore) == [FileJob(j, ignore) EXCEPT !.pc = "file"]

InFiles(pc) == job.kind \in {"files", "extract"} /\ job.pc = pc
Row == job.spec.rows[job.fi]

-----------------------------------------------------------------------------
\* findEntry: the row of (source, path), or else the first row of the path.
FindEntry(src, path) ==
  LET named == SelectSeq(RefRows, LAMBDA r : r.path = path)
      exact == SelectSeq(named, LAMBDA r : r.src = src)
  IN  IF exact # << >> THEN SubSeq(exact, 1, 1) ELSE SubSeq(named, 1, IF named = << >> THEN 0 ELSE 1)

\* The row that says where a file's data is, and the entries it refers to.
DataRow(r) == IF r.kind = "unchanged" THEN FindEntry(r.src, r.path) ELSE <<r>>
DataParts(r) == IF r.kind = "unchanged" THEN RefParts ELSE parts

\* The chunks of a file, region by region.
PiecesOf(ps, regions) ==
  FlattenSeq([k \in 1..Len(regions) |->
    LET g == regions[k]
        es == Covering(ps, g.vol, g.vol + g.len)
    IN  [i \in 1..Len(es) |-> [e |-> es[i], g |-> g, first |-> i = 1]]])

\* An altered form: a chunk that starts before the region is not cut there.
SliceUncut(bs, e, g) ==
  SubSeq(bs, 1, Len(bs) - (IF e.off + e.len > g.vol + g.len THEN e.off + e.len - g.vol - g.len ELSE 0))

\* The part of a chunk that lies in its region.
Slice(bs, e, g) ==
  SubSeq(bs, (IF e.off < g.vol THEN g.vol - e.off ELSE 0) + 1,
         Len(bs) - (IF e.off + e.len > g.vol + g.len THEN e.off + e.len - g.vol - g.len ELSE 0))

-----------------------------------------------------------------------------
\* The prefetcher.  A plan is [batch, cost, full].
Cost(h) == ChunkLen[h] + Slack
EmptyPlan == [batch |-> << >>, cost |-> 0, full |-> FALSE]

\* An altered form: the budget of bytes is not consulted.
AddUnbounded(plan, h) ==
  LET l == Located[h]
  IN  IF plan.full \/ l \in Range(plan.batch) \union frameCache THEN plan
      ELSE IF plan.batch # << >> /\ Len(plan.batch) >= MaxPrefetchChunks
      THEN [plan EXCEPT !.full = TRUE]
      ELSE [plan EXCEPT !.batch = Append(@, l), !.cost = @ + Cost(h)]

\* ensure's add: frames that are planned or cached are skipped, the first frame
\* is always taken, and the plan is full when the next would exceed a budget.
Add(plan, h) ==
  LET l == Located[h]
  IN  IF plan.full \/ l \in Range(plan.batch) \union frameCache THEN plan
      ELSE IF /\ plan.batch # << >>
              /\ \/ plan.cost + Cost(h) > MaxPrefetchBytes
                 \/ Len(plan.batch) >= MaxPrefetchChunks
      THEN [plan EXCEPT !.full = TRUE]
      ELSE [plan EXCEPT !.batch = Append(@, l), !.cost = @ + Cost(h)]

AddAll(plan, hs) == FoldLeft(Add, plan, SelectSeq(hs, Found))
HashesOf(es) == [i \in 1..Len(es) |-> es[i].h]

\* fileLookahead.refs: the rows from la on, as many as the budget left over
\* allows; only stream files of this backup have chunks to offer.
LookaheadRows(plan, la) ==
  LET rows == job.spec.rows
      Chunks(i) == IF rows[i].kind = "stream" /\ rows[i].regions # << >>
                   THEN SelectSeq(HashesOf(Covering(parts, rows[i].regions[1].vol,
                          rows[i].regions[1].vol + rows[i].regions[1].len)), Found)
                   ELSE << >>
      HashesTo(n) == FlattenSeq([k \in 1..(n - la + 1) |-> Chunks(la + k - 1)])
      CostOf(hs) == SumFunction([k \in 1..Len(hs) |-> Cost(hs[k])])
      Room(hs) == /\ Len(plan.batch) + Len(hs) < MaxPrefetchChunks
                  /\ plan.cost + CostOf(hs) < MaxPrefetchBytes
      reached == {n \in la..Len(rows) :
                    \A m \in (la - 1)..(n - 1) : Room(HashesTo(m))}
      last == IF reached = {} THEN la - 1 ELSE Max(reached)
      hs == HashesTo(last)
      taken == {k \in 1..Len(hs) : \A m \in 0..(k - 1) : Room(SubSeq(hs, 1, m))}
  IN  [la |-> last + 1, hs |-> SubSeq(hs, 1, Cardinality(taken))]

\* The plan of the region being read, from the chunk at hand.
OwnPlan ==
  LET p == job.pieces
      here == {k \in 1..Len(p) : \A m \in 2..k : ~p[m].first}
  IN  AddAll(EmptyPlan, [k \in 1..Cardinality(here) |-> p[k].e.h])

\* The files after this one, if the plan has room; an extraction has none.
Lookahead(own) ==
  LET la == IF job.la <= job.fi THEN job.fi + 1 ELSE job.la
  IN  IF job.kind = "extract" \/ own.full THEN [la |-> la, hs |-> << >>]
      ELSE LookaheadRows(own, la)

\* What a batch fetch returns (external): each frame, unless its pack is gone;
\* a fault loses one of them or makes it unusable.
Batches(batch) ==
  LET whole == [l \in Loc |->
        IF l \in Range(batch) /\ l[1] \notin damage.gone
        THEN (IF damage.frame[l] = "garbled" THEN "unusable" ELSE "frame") ELSE "none"]
  IN  {[w |-> whole, n |-> 0]} \union
      {[w |-> [whole EXCEPT ![l] = s], n |-> 1] :
         l \in {k \in Loc : whole[k] = "frame"}, s \in {"none", "unusable"}}

-----------------------------------------------------------------------------
KeepReader == UNCHANGED <<parts, digest, target, bulk, damage, wiring, recent, disk, dense, cacheVars>>

\* Phase 1: the directories, writable until the end.
MakeDirs ==
  /\ InFiles("dirs")
  /\ dirs' = "widened"
  /\ job' = [job EXCEPT !.pc = "file"]
  /\ KeepReader /\ UNCHANGED <<out, window, call, faults>>

\* The next row, after this one ended; with its output, or without.
NextRow(j) == [j EXCEPT !.pc = "file", !.fi = @ + 1, !.pieces = << >>, !.written = 0,
                         !.total = 0]
Restored == NextRow([job EXCEPT !.restored = @ \union {job.fi}])
Skipped == IF job.ignore THEN NextRow(job) ELSE [job EXCEPT !.pc = "failed"]

\* A row that needs no chunk: refused before any output exists, written from the
\* catalog, or empty.
StartPlain(r) ==
  LET refused == r.kind = "excluded" \/ (r.kind = "stream" /\ r.size > 0)
  IN  IF refused THEN job' = Skipped /\ UNCHANGED out
      ELSE /\ out' = [out EXCEPT ![job.fi] = <<r.inline>>]
           /\ job' = Restored

\* A row with chunks: create the output and list its pieces.
StartPieces(r) ==
  /\ out' = [out EXCEPT ![job.fi] = <<<< >>>>]
  /\ job' = [job EXCEPT !.pc = "piece", !.pieces = PiecesOf(DataParts(Row), r.regions)]

\* Phase 2, one file: find its data; an unchanged file that the other backup
\* does not have ends the whole restore.
StartFile ==
  /\ InFiles("file") /\ job.fi <= Len(job.spec.rows)
  /\ LET found == DataRow(Row)
     IN  IF found = << >> THEN job' = [job EXCEPT !.pc = "failed"] /\ UNCHANGED out
         ELSE IF found[1].regions = << >> \/ found[1].kind = "excluded"
         THEN StartPlain(found[1])
         ELSE StartPieces(found[1])
  /\ KeepReader /\ UNCHANGED <<window, dirs, call, faults>>

\* An altered form: what was written stays when a file fails.
LeavePartial ==
  /\ job' = Skipped
  /\ UNCHANGED out

\* A failure after the output was created removes it.
FailPartial ==
  /\ out' = [out EXCEPT ![job.fi] = << >>]
  /\ job' = Skipped

\* ensure: plan a window from the chunk at hand and the files that follow, drop
\* the old window, fetch the new one.  The chunk is then read.
Ensure ==
  /\ InFiles("piece") /\ job.pieces # << >>
  /\ Found(job.pieces[1].e.h)
  /\ IF wiring # "cloud" \/ window[Located[job.pieces[1].e.h]] # "none"
     THEN job' = [job EXCEPT !.pc = "read"] /\ UNCHANGED <<window, faults>>
     ELSE \E own \in {OwnPlan} : \E ahead \in {Lookahead(own)} :
          \E plan \in {AddAll(own, ahead.hs)} :
            /\ job' = [job EXCEPT !.pc = "read", !.la = ahead.la]
            /\ IF plan.batch = << >> THEN UNCHANGED <<window, faults>>
               ELSE \E b \in Batches(plan.batch) :
                      /\ faults + b.n <= MaxFaults
                      /\ faults' = faults + b.n
                      /\ window' = b.w
  /\ KeepReader /\ UNCHANGED <<out, dirs, call>>

\* A chunk the index does not have fails its file.
PieceUnknown ==
  /\ InFiles("piece") /\ job.pieces # << >>
  /\ ~Found(job.pieces[1].e.h)
  /\ FailPartial
  /\ KeepReader /\ UNCHANGED <<window, dirs, call, faults>>

\* The hash is checked, and the chunk's part of the region written at its place.
WritePiece(h) ==
  LET p == job.pieces[1]
      at == IF p.first THEN 0 ELSE job.written
      bs == Slice(ChunkBytes(h, ChunkLen[h]), p.e, p.g)
  IN  IF h # p.e.h THEN FailPartial
      ELSE /\ out' = [out EXCEPT ![job.fi] = <<WriteAt(@[1], p.g.file + at, bs)>>]
           /\ job' = [job EXCEPT !.pc = "piece", !.pieces = Tail(@), !.written = at + Len(bs),
                                 !.total = @ + Len(bs)]

\* chunkData, from the window: a frame that decodes is used.
ReadWindow ==
  /\ InFiles("read") /\ call = NoCall
  /\ LET l == Located[job.pieces[1].e.h]
     IN  window[l] = "frame" /\ WritePiece(Decode(l).h)
  /\ KeepReader /\ UNCHANGED <<window, dirs, call, faults>>

\* chunkData, from the store: no frame in the window, or one that is unusable.
ReadStore ==
  /\ InFiles("read")
  /\ LET l == Located[job.pieces[1].e.h] IN window[l] # "frame" /\ Retrieve(l)
  /\ UNCHANGED <<jobVars, fileVars>>

\* An altered form: what the store cannot give is asked for again.
ReadAnsweredRetries ==
  /\ InFiles("read") /\ call.at = "answered"
  /\ IF call.ans.kind = "data" THEN WritePiece(call.ans.h) ELSE UNCHANGED <<out, job>>
  /\ call' = NoCall
  /\ KeepReader /\ UNCHANGED <<window, dirs, faults>>

\* What the store returned is written, or fails the file.
ReadAnswered ==
  /\ InFiles("read") /\ call.at = "answered"
  /\ IF call.ans.kind = "data" THEN WritePiece(call.ans.h) ELSE FailPartial
  /\ call' = NoCall
  /\ KeepReader /\ UNCHANGED <<window, dirs, faults>>

\* verifyExtractCovering: the chunks used against the row's content hash.
CoveringAgrees(r) ==
  r.hash # << >> => ContentHash(DataParts(Row), r.regions) = r.hash

\* ExtractFile's last check fails, and the output is removed, --ignore-error or not.
ExtractRefused(r) == job.kind = "extract" /\ ~CoveringAgrees(r)

\* All pieces are written.  A stream file must have its length; a file of
\* extents is cut or extended to its size, if the bytes written are not as many.
FinishFile ==
  /\ InFiles("piece") /\ job.pieces = << >>
  /\ LET r == DataRow(Row)[1]
         bytes == out[job.fi][1]
         lens == SumFunction([k \in 1..Len(r.regions) |-> r.regions[k].len])
     IN  IF r.kind = "stream" /\ job.total # lens THEN FailPartial
         ELSE IF ExtractRefused(r)
         THEN /\ out' = [out EXCEPT ![job.fi] = << >>]
              /\ job' = [job EXCEPT !.pc = "failed"]
         ELSE /\ job' = Restored
              /\ out' = IF r.kind = "extents" /\ r.size > 0 /\ job.total # r.size
                        THEN [out EXCEPT ![job.fi] = <<Truncate(bytes, r.size)>>] ELSE out
  /\ KeepReader /\ UNCHANGED <<window, dirs, call, faults>>

\* The context is cancelled between two files.
FilesCancelled ==
  /\ InFiles("file") /\ faults < MaxFaults
  /\ faults' = faults + 1
  /\ job' = [job EXCEPT !.pc = "failed"]
  /\ KeepReader /\ UNCHANGED <<out, window, dirs, call>>

\* Phases 3 and 4: symbolic links, refused where something is in the way; then
\* the directories get their modes back, and the window is released.
FinishFiles ==
  /\ InFiles("file") /\ job.fi > Len(job.spec.rows)
  /\ IF job.kind = "files" /\ job.spec.linkBlocked
     THEN job' = [job EXCEPT !.pc = "failed"] /\ UNCHANGED dirs
     ELSE /\ job' = [job EXCEPT !.pc = "done"]
          /\ dirs' = IF job.kind = "files" THEN "final" ELSE dirs
  /\ window' = NoWindow
  /\ KeepReader /\ UNCHANGED <<out, call, faults>>

FileStep ==
  \/ MakeDirs \/ StartFile \/ Ensure \/ PieceUnknown \/ ReadWindow \/ ReadStore
  \/ ReadAnswered \/ FinishFile \/ FinishFiles
=============================================================================
