------------------------------ MODULE ReadPath ------------------------------
(***************************************************************************)
(* What reads a repository: one job (a volume restore, a verification, a   *)
(* restore of files or of one file) over the chunk reader, with a batch    *)
(* fetcher that shares the frame cache, on a repository that may be        *)
(* damaged in one place.                                                   *)
(***************************************************************************)
EXTENDS StreamVerify, FileRestore

CONSTANTS
  Lists  \* the entries a volume restore or a verification may be handed

vars == <<cacheVars, readerVars, jobVars, fileVars>>

\* One thing is wrong with the repository, or nothing; a backup without a digest
\* is read from a sound one.
Sound == [frame |-> [l \in Loc |-> "ok"], gone |-> {}, unindexed |-> {}]
Damages ==
  {Sound}
    \union {[Sound EXCEPT !.frame[l] = d] : l \in Loc, d \in {"garbled", "altered"}}
    \union {[Sound EXCEPT !.gone = {p}] : p \in Pack}
    \union {[Sound EXCEPT !.unindexed = {h}] : h \in DOMAIN Located}

Init ==
  /\ \/ /\ parts \in Lists
        /\ digest \in BOOLEAN
        /\ job \in {RestoreJob} \union VerifyJobs
        /\ out = << >>
     \/ \E j \in FileJobs, ignore \in BOOLEAN :
          /\ parts = j.parts
          /\ digest = TRUE
          /\ job = IF j.kind = "files" THEN FileJob(j, ignore) ELSE ExtractJob(j, ignore)
          /\ out \in {[i \in 1..Len(j.rows) |-> f] : f \in {<< >>, <<OldFile>>}}
  /\ damage \in IF digest THEN Damages ELSE {Sound}
  /\ ReaderInit
  /\ wiring = "staged" => job.kind = "verify"
  /\ dense \in IF wiring = "cloud" THEN {BuildFrom(es) : es \in {AllEntries}} ELSE {{}}
  /\ target = [i \in 1..Len(Captured) |-> 99]
  /\ window = NoWindow
  /\ dirs = "absent"

\* The job and the reader it calls: one thread.
Work ==
  \/ ReaderStep /\ UNCHANGED <<jobVars, fileVars>>
  \/ (RestoreStep \/ VerifyStep) /\ UNCHANGED fileVars
  \/ FileStep

\* What others do, and what a caller may do: share the cache, cancel, take a
\* checkpoint, end a verification early.
Disturb ==
  \/ BulkStep /\ UNCHANGED <<jobVars, fileVars>>
  \/ (RestoreCancelled \/ VerifyCancelled \/ Checkpoint \/ Finish) /\ UNCHANGED fileVars
  \/ FilesCancelled

\* The job has ended.
Ended == job.pc \in {"done", "failed"}

Next == Work \/ Disturb \/ (Ended /\ UNCHANGED vars)

Spec == Init /\ [][Next]_vars

\* A caller keeps a walk whose Range failed, and goes on with it.
ReuseSpec == Init /\ [][Next \/ (Reuse /\ UNCHANGED fileVars)]_vars

\* The thread of the job runs on, and a walk that is complete is finished.  Every
\* step of Work changes the job or its call, and Work can be taken until the job
\* has ended or waits for Finish (any other state would be a deadlock, since the
\* disturbances run out): the second conjunct is weak fairness of Work.
FairSpec ==
  /\ Spec
  /\ []<>(Ended \/ (Verifying("ranged") /\ job.next = Total)) \/ []<><<TRUE>>_<<job, call>>
  /\ WF_vars(Finish /\ job.next = Total /\ UNCHANGED fileVars)

-----------------------------------------------------------------------------
TypeOK ==
  /\ ReaderTypeOK
  /\ job.pc \in {"start", "chunks", "ranged", "range", "stopped", "dirs", "file", "piece",
                 "read", "done", "failed"}
  /\ job.kind = "verify" => job.next \in 0..Total /\ job.hi \in 0..Total /\ job.pos \in 0..job.hi
  /\ job.kind \in {"files", "extract"} => job.fi \in 1..(Len(job.spec.rows) + 1)
  /\ target \in Seq(0..99)
  /\ window \in [Loc -> {"none", "frame", "unusable"}]
  /\ dirs \in {"absent", "widened", "final"}

\* Whether the chunk of an entry can be read and is the one its hash names.
Damaged(e) ==
  ~e.ex /\ \/ ~Found(e.h)
           \/ damage.frame[Located[e.h]] # "ok"
           \/ Located[e.h][1] \in damage.gone

\* A volume restore that ends without an error over the entries of the capture
\* has written the captured stream, byte for byte, although it writes zeros
\* first and the chunks in the order of the packs (restore_entries.go:63-139);
\* and the read-back says "match" of nothing else (writtendigest.go:33-49).
RestoreExact ==
  job.kind = "restore" /\ job.pc = "done" =>
    /\ StreamOf(parts[1]) = Captured => target = Captured
    /\ job.verdict = "match" => target = Captured

\* The verdict of a verification is true (verify.go:150-207, 287-295): a match
\* says that everything was walked and is the captured stream, a mismatch that
\* it is not, and the errors filed are those of the damaged chunks walked,
\* whatever fetches failed, spans were staged or processes died on the way.
VerdictTrue ==
  job.kind = "verify" /\ job.pc = "done" =>
    LET es == AllEntries
        bad == {i \in Range(SubSeq(job.walk, 1, job.next)) : Damaged(es[i + 1])}
    IN  /\ job.verdict = "match" => Streams /\ job.next = Total /\ StreamOf(es) = Captured
        /\ job.verdict = "mismatch" => StreamOf(es) # Captured
        /\ job.errors = bad
        /\ job.errors # {} => job.verdict = "none"

\* A file reported as restored has its content, and a file that failed leaves
\* nothing half written: its path is empty or as it was (filerestore.go:237-247,
\* 458-468, 574-580).
FilesExact ==
  job.kind \in {"files", "extract"} =>
    \A i \in 1..Len(job.spec.rows) :
      /\ i \in job.restored => out[i] = <<job.spec.content[i]>>
      /\ i \notin job.restored /\ (i < job.fi \/ job.pc \in {"done", "failed"}) =>
           out[i] \in {<< >>, <<OldFile>>}

\* The window never holds more than its budget, except a single frame
\* (prefetch.go:20-25: "a restore holds AT MOST one window of raw frames").
WindowBounded ==
  LET held == {h \in DOMAIN Located : window[Located[h]] # "none"}
      cost == SumFunctionOnSet([h \in DOMAIN Located |-> Cost(h)], held)
  IN  Cardinality(held) > 1 => cost <= MaxPrefetchBytes /\ Cardinality(held) <= MaxPrefetchChunks

\* Every job ends, whatever fails: nothing waits for an answer that does not come.
JobEnds == <>Ended
=============================================================================
