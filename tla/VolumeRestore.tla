---------------------------- MODULE VolumeRestore ----------------------------
(***************************************************************************)
(* Restorer.RestoreEntries (core/restore/restore_entries.go): a whole      *)
(* backup written to a target, zeros first, then the chunks in the order   *)
(* of the packs, so that every pack is fetched once; and the read-back of  *)
(* the target against the digest of the captured stream                    *)
(* (core/restore/writtendigest.go).                                        *)
(***************************************************************************)
EXTENDS PackReader

CONSTANTS
  Captured,  \* the stream the backup captured, as bytes
  ChunkLen   \* ChunkLen[h]: the length of chunk h

VARIABLES
  parts,   \* the entries handed to the reader: a list, or a chain of lists
  digest,  \* whether the manifest carries a digest of the stream
  job,     \* the operation that reads, and how far it has come
  target   \* the bytes on the target of a volume restore

jobVars == <<parts, digest, job, target>>

\* WriteAt, which extends a file with zeros where it must.
WriteAt(t, off, bs) ==
  LET end == IF Len(t) < off + Len(bs) THEN off + Len(bs) ELSE Len(t)
  IN  [i \in 1..end |->
        IF off < i /\ i <= off + Len(bs) THEN bs[i - off]
        ELSE IF i <= Len(t) THEN t[i] ELSE 0]

\* Truncate, which shortens a file or extends it with zeros.
Truncate(t, size) == [i \in 1..size |-> IF i <= Len(t) THEN t[i] ELSE 0]

AllEntries == EntryRange(parts, 0, Count(parts))

RestoreJob == [kind |-> "restore", pc |-> "start", todo |-> << >>, verdict |-> "none"]

\* The digest of the bytes read, judged against the manifest's.
DigestVerdict(bytes) ==
  IF ~digest THEN "not-verifiable" ELSE IF bytes = Captured THEN "match" ELSE "mismatch"

-----------------------------------------------------------------------------
\* The refs of pass 1, sorted by pack and offset.
PackMajor(refs) ==
  LET Before(a, b) == \/ a.loc[1] < b.loc[1]
                      \/ a.loc[1] = b.loc[1] /\ a.loc[2] < b.loc[2]
  IN  SortSeq(refs, Before)

\* An altered form: excluded regions are left as the target had them.
ZeroNothing(t, es) == t

\* Pass 1 writes zeros over what was excluded.
ZeroExcluded(t, es) ==
  FoldLeft(LAMBDA u, e : IF e.ex THEN WriteAt(u, e.off, Zeros(e.len)) ELSE u, t, es)

\* Pass 1 stops at the first chunk the index lacks, and sorts the refs.
RestorePass1 ==
  /\ job.kind = "restore" /\ job.pc = "start"
  /\ LET es == AllEntries
         lost == {i \in 1..Len(es) : ~es[i].ex /\ ~Found(es[i].h)}
         read == IF lost = {} THEN Len(es) ELSE Min(lost) - 1
         chunks == SelectSeq([i \in 1..Len(es) |-> i - 1], LAMBDA i : ~es[i + 1].ex)
     IN  IF Len(es) = 0 /\ Len(Captured) > 0
         THEN job' = [job EXCEPT !.pc = "failed"] /\ UNCHANGED target
         ELSE /\ target' = ZeroExcluded(Truncate(target, Len(Captured)), SubSeq(es, 1, read))
              /\ job' = IF lost # {} THEN [job EXCEPT !.pc = "failed"]
                        ELSE [job EXCEPT !.pc = "chunks", !.todo =
                               PackMajor([k \in 1..Len(chunks) |->
                                 [i |-> chunks[k], loc |-> Located[es[chunks[k] + 1].h]]])]
  /\ UNCHANGED <<parts, digest, cacheVars, readerVars>>

\* Pass 2, one chunk: ask for it,
RestoreAsk ==
  /\ job.kind = "restore" /\ job.pc = "chunks" /\ job.todo # << >>
  /\ Retrieve(job.todo[1].loc)
  /\ UNCHANGED jobVars

\* check it against its entry, and write it where the entry says.
RestoreChunk ==
  /\ job.kind = "restore" /\ call.at = "answered"
  /\ LET e == At(parts, job.todo[1].i)
         a == call.ans
     IN  IF a.kind = "data" /\ a.h = e.h /\ ChunkLen[a.h] = e.len
         THEN /\ target' = WriteAt(target, e.off, ChunkBytes(a.h, ChunkLen[a.h]))
              /\ job' = [job EXCEPT !.todo = Tail(@)]
         ELSE /\ job' = [job EXCEPT !.pc = "failed"]
              /\ UNCHANGED target
  /\ call' = NoCall
  /\ UNCHANGED <<parts, digest, bulk, damage, wiring, disk, recent, dense, faults, cacheVars>>

\* Sync, and VerifyWrittenDigest on what is read back.
RestoreVerified ==
  /\ job.kind = "restore" /\ job.pc = "chunks" /\ job.todo = << >>
  /\ job' = [job EXCEPT !.pc = "done", !.verdict =
               DigestVerdict(SubSeq(target, 1, Len(Captured)))]
  /\ UNCHANGED <<parts, digest, target, cacheVars, readerVars>>

\* The context is cancelled between two chunks.
RestoreCancelled ==
  /\ job.kind = "restore" /\ job.pc = "chunks" /\ call = NoCall
  /\ faults < MaxFaults
  /\ faults' = faults + 1
  /\ job' = [job EXCEPT !.pc = "failed"]
  /\ UNCHANGED <<parts, digest, target, bulk, damage, wiring, disk, recent, dense, call, cacheVars>>

RestoreStep == RestorePass1 \/ RestoreAsk \/ RestoreChunk \/ RestoreVerified
=============================================================================
