---------------------------- MODULE StreamVerify ----------------------------
(***************************************************************************)
(* Verification (core/restore/verify.go, sample.go): a walk over entries   *)
(* that retrieves and hashes each chunk and folds the stream into a digest *)
(* as it goes.  VerifyStreamed is one range over everything; a span worker *)
(* walks ranges, staging the frames of each, takes a checkpoint after a    *)
(* range and, when a range fails, continues from the checkpoint in a later *)
(* process; a sampled verify walks some of the entries and claims nothing  *)
(* about the stream.                                                       *)
(***************************************************************************)
EXTENDS VolumeRestore, FiniteSetsExt

CONSTANTS
  Percents,   \* the percentages of sampled verifies
  SpanSizes   \* how many entries a caller ranges over at a time

\* The fold: whether it is still alive, the bytes folded, the verdict if not.
FoldOf(alive) ==
  [alive |-> alive, bytes |-> << >>, verdict |-> IF alive THEN "none" ELSE "not-verifiable"]
Fold(f, bs) == IF f.alive THEN [f EXCEPT !.bytes = @ \o bs] ELSE f
AbortFold(f) == [f EXCEPT !.alive = FALSE, !.bytes = << >>, !.verdict = "none"]

\* NewStreamVerify over the whole list, and newDigestFold for a selection: a
\* fold only over everything, in order.
WalkOf(indices, alive) ==
  [kind |-> "verify", pc |-> "ranged", walk |-> indices, next |-> 0, hi |-> 0, pos |-> 0,
   errors |-> {}, verified |-> 0, fold |-> FoldOf(alive), saved |-> << >>, verdict |-> "none"]
NoClaim(w) == [w EXCEPT !.fold.verdict = "none"]
All(n) == [i \in 1..n |-> i - 1]

\* SampleEntryIndices: k of the entries that are not excluded, k rounded up.
SampleSize(percent, n) ==
  LET k == (percent * n + 99) \div 100 IN IF k < 1 THEN 1 ELSE IF k > n THEN n ELSE k
Samples(percent, es) ==
  LET pop == {i \in 0..(Len(es) - 1) : ~es[i + 1].ex}
  IN  IF pop = {} THEN {{}} ELSE kSubset(SampleSize(percent, Cardinality(pop)), pop)

\* VerifySelected: the digest is folded when the selection is everything.
Selected(S, es) ==
  LET indices == SetToSortSeq(S, <)
  IN  IF indices = All(Len(es)) THEN WalkOf(indices, digest) ELSE NoClaim(WalkOf(indices, FALSE))

VerifyJobs ==
  IF Count(parts) = 0 /\ Len(Captured) > 0 THEN {}  \* refused: no entries
  ELSE LET es == AllEntries
       IN  {WalkOf(All(Len(es)), digest)}
             \union UNION {{Selected(S, es) : S \in Samples(p, es)} : p \in Percents}

-----------------------------------------------------------------------------
Total == Len(job.walk)
Streams == job.walk = All(Count(parts))
Verifying(pc) == job.kind = "verify" /\ job.pc = pc

\* Range(next, hi).  A span worker first stages the frames of the range.
BeginRange ==
  /\ Verifying("ranged")
  /\ job.next < Total
  /\ \E hi \in (IF Streams THEN {Min({job.next + n, Total}) : n \in SpanSizes} ELSE {Total}) :
       LET span == {At(parts, job.walk[i]).h : i \in (job.next + 1)..hi}
           locs == {Located[h] : h \in {g \in span : Found(g)}}
       IN  /\ job' = [job EXCEPT !.pc = "range", !.hi = hi, !.pos = job.next]
           /\ disk' = IF wiring # "staged" THEN disk
                      ELSE [p \in Pack |-> IF p \in damage.gone \/ LocsOf(p) \intersect locs = {}
                                           THEN NoFile ELSE ExtractFrames(p, locs)]
  /\ UNCHANGED <<parts, digest, target, bulk, damage, wiring, recent, dense, call, faults, cacheVars>>

Entry == At(parts, job.walk[job.pos + 1])

\* The outcomes of one entry: folded, or filed as an error, which ends the fold.
Passed(bs, n) == [job EXCEPT !.pos = @ + 1, !.fold = Fold(@, bs), !.verified = @ + n]
Filed == [job EXCEPT !.pos = @ + 1, !.errors = @ \union {job.walk[job.pos + 1]},
                     !.fold = AbortFold(@)]

\* An entry that needs no chunk, or whose chunk the index does not know.
VerifyUnread ==
  /\ Verifying("range") /\ job.pos < job.hi /\ call = NoCall
  /\ Entry.ex \/ ~Found(Entry.h)
  /\ job' = IF Entry.ex THEN Passed(Zeros(Entry.len), 0) ELSE Filed
  /\ UNCHANGED <<parts, digest, target, cacheVars, readerVars>>

VerifyAsk ==
  /\ Verifying("range") /\ job.pos < job.hi
  /\ ~Entry.ex /\ Found(Entry.h)
  /\ Retrieve(Located[Entry.h])
  /\ UNCHANGED jobVars

\* An altered form: a chunk that could not be fetched is filed as an error.
JudgeAll(a, e) ==
  IF a.kind = "data" /\ a.h = e.h /\ ChunkLen[a.h] = e.len
  THEN Passed(ChunkBytes(a.h, ChunkLen[a.h]), 1) ELSE Filed

\* verifyEntry on what Retrieve returned.  A FetchError judges nothing: the walk
\* stops where it is.
Judge(a, e) ==
  IF a.kind = "fetch" THEN [job EXCEPT !.pc = "stopped"]
  ELSE IF a.kind = "data" /\ a.h = e.h /\ ChunkLen[a.h] = e.len
  THEN Passed(ChunkBytes(a.h, ChunkLen[a.h]), 1) ELSE Filed

VerifyEntry ==
  /\ Verifying("range") /\ call.at = "answered"
  /\ job' = Judge(call.ans, Entry)
  /\ call' = NoCall
  /\ UNCHANGED <<parts, digest, target, bulk, damage, wiring, disk, recent, dense, faults, cacheVars>>

\* An altered form: the position is one past the range.
EndRangePast ==
  /\ Verifying("range") /\ job.pos = job.hi
  /\ job' = [job EXCEPT !.pc = "ranged", !.next = job.hi + 1]
  /\ UNCHANGED <<parts, digest, target, cacheVars, readerVars>>

\* Range returns: the fold is at hi.
EndRange ==
  /\ Verifying("range") /\ job.pos = job.hi
  /\ job' = [job EXCEPT !.pc = "ranged", !.next = job.hi]
  /\ UNCHANGED <<parts, digest, target, cacheVars, readerVars>>

\* The context is cancelled, or the process ends, inside a range.
VerifyCancelled ==
  /\ Verifying("range") /\ call = NoCall /\ job.pos < job.hi
  /\ faults < MaxFaults
  /\ faults' = faults + 1
  /\ job' = [job EXCEPT !.pc = "stopped"]
  /\ UNCHANGED <<parts, digest, target, bulk, damage, wiring, disk, recent, dense, call, cacheVars>>

\* Checkpoint: the position, the counters and the state of the fold.
Checkpoint ==
  /\ Verifying("ranged") /\ Streams /\ job.errors = {}
  /\ job' = [job EXCEPT !.saved =
       <<[next |-> job.next, verified |-> job.verified, bytes |-> job.fold.bytes]>>]
  /\ job' # job
  /\ UNCHANGED <<parts, digest, target, cacheVars, readerVars>>

\* ResumeStreamVerify, in another process: a new walk from the checkpoint, or
\* from the start when there is none.
Resume ==
  /\ Verifying("stopped") /\ Streams
  /\ LET new == WalkOf(All(Count(parts)), digest)
         cp == job.saved[1]
     IN  job' = IF job.saved = << >> THEN new
                ELSE [new EXCEPT !.next = cp.next, !.verified = cp.verified,
                                 !.fold.bytes = cp.bytes, !.saved = job.saved]
  /\ UNCHANGED <<parts, digest, target, cacheVars, readerVars>>

\* The caller keeps the walk: Range starts again at next, which it did not move.
Reuse ==
  /\ Verifying("stopped") /\ Streams
  /\ job' = [job EXCEPT !.pc = "ranged"]
  /\ UNCHANGED <<parts, digest, target, cacheVars, readerVars>>

\* A failed sampled verify returns its error.
GiveUp ==
  /\ Verifying("stopped") /\ ~Streams
  /\ job' = [job EXCEPT !.pc = "failed"]
  /\ UNCHANGED <<parts, digest, target, cacheVars, readerVars>>

\* Finish: a partial walk makes no claim; else the fold is judged.
Finish ==
  /\ Verifying("ranged")
  /\ LET f == IF job.next # Total THEN AbortFold(job.fold) ELSE job.fold
     IN  job' = [job EXCEPT !.pc = "done", !.fold = f, !.verdict =
                   IF f.alive THEN DigestVerdict(f.bytes) ELSE f.verdict]
  /\ UNCHANGED <<parts, digest, target, cacheVars, readerVars>>

VerifyStep ==
  BeginRange \/ VerifyUnread \/ VerifyAsk \/ VerifyEntry \/ EndRange \/ Resume \/ GiveUp
=============================================================================
