----------------------------- MODULE DedupIndex -----------------------------
(***************************************************************************)
(* The dedup index of one repository (core/index): the files bloom.bin and *)
(* hash-index.db with their encrypted forms, the pending deltas, and the   *)
(* sessions that open them, one at a time.  A flush is a sequence of file  *)
(* operations; the process may die between any two, and while it writes    *)
(* the bloom file, which is not replaced by a rename.                      *)
(*                                                                         *)
(* packs is the sequence of hashes whose frames were stored: frame i is at *)
(* location i.  A bloom filter is the set of its bits.                     *)
(***************************************************************************)
EXTENDS HashTable

CONSTANTS Bits,         \* the bits of a chunk's weak hash in the filter
          FoldBudget,   \* records one pass of the fold may hold
          MaxFrames,    \* bound on stored frames
          MaxSessions,  \* bound on opens and folds
          MaxFaults,    \* bound on deaths, failed steps and lost bloom files
          Launder       \* whether export and fold run on an index that lost its bloom

ASSUME IndexBounds == /\ FoldBudget \in Nat \ {0}
                      /\ {MaxFrames, MaxSessions, MaxFaults} \subseteq Nat
                      /\ Launder \in BOOLEAN

VARIABLES key,       \* whether the repository's index has a key (IndexKeyFor)
          shared,    \* whether backups publish deltas (Pipeline.IndexDeltaPath)
          files,     \* the directory index/
          packs,     \* the frames stored so far
          pc,        \* the step the session or the fold has reached
          mem,       \* the session: a DedupIndex in memory
          flushed,   \* history: the map the last completed flush recorded
          sessions, faults

bounds == <<sessions, faults>>
repo == <<key, shared>>
vars == <<key, shared, files, packs, pc, mem, flushed, sessions, faults>>

(***************************************************************************)
(* Files.  A bloom file is absent, torn (shorter than its header says) or  *)
(* whole; the sorted index file is absent or a sequence of entries.        *)
(***************************************************************************)
NoBloom == [st |-> "none", bits |-> {}]
BloomFile(b) == [st |-> "whole", bits |-> b]
TornBloom == [st |-> "torn", bits |-> {}]

NoDb == [here |-> FALSE, file |-> <<>>]
Db(file) == [here |-> TRUE, file |-> file]

\* A delta object: valid when its header's count and digest cover the body.
NoDelta == [stamp |-> -1, body |-> <<>>]
ValidDelta(d) == d.stamp = Len(d.body)

NoTable == [slots |-> <<>>, count |-> 0]

NoSession == [kind |-> "none", key |-> FALSE, bloom |-> {}, missing |-> FALSE, buf |-> {},
              dirty |-> FALSE, htab |-> NoTable, armed |-> FALSE, closing |-> FALSE, at |-> 0,
              start |-> [h \in Hash |-> 0]]

\* Later entries win over earlier ones of the same hash.
Newest(seq) ==
    {seq[i] : i \in {i \in DOMAIN seq : \A j \in i + 1 .. Len(seq) : seq[j].h # seq[i].h}}

MergeEntries(old, new) == {e \in old : \A n \in new : n.h # e.h} \cup new

Over(new, old) == [h \in Hash |-> IF new[h] # 0 THEN new[h] ELSE old[h]]
MapOf(seq) ==
    [h \in Hash |-> LET at == {i \in DOMAIN seq : seq[i].h = h}
                   IN  IF at = {} THEN 0 ELSE seq[Max(at)].l]

Records == FoldLeft(LAMBDA all, d : all \o d.body, <<>>, files.deltas)

BloomOf(entries) == UNION {Bits[e.h] : e \in entries}

(***************************************************************************)
(* Lookups of the session.                                                 *)
(***************************************************************************)
Lookup(h) ==
    LET mine == {e \in mem.buf : e.h = h}
    IN  IF mine # {} THEN CHOOSE e \in mine : TRUE
        ELSE IF mem.htab = NoTable THEN DiskLookup(files.db.file, h)
        ELSE LookupTable(mem.htab, h)

MayContain(h) == Bits[h] \subseteq mem.bloom

\* Check: the bloom filter's no is final.
IsNew(h) == ~MayContain(h) \/ Lookup(h) = Missing

InSession == pc # "closed" /\ mem.kind # "fold"

Count(s) == s.htab.count + Cardinality({e \in s.buf : LookupTable(s.htab, e.h) = Missing})
BloomSuspect(s) == s.missing /\ Count(s) > 0

Init ==
    /\ key \in BOOLEAN /\ shared \in BOOLEAN
    /\ files = [bloom |-> NoBloom, bloomEnc |-> NoBloom, db |-> NoDb, dbEnc |-> NoDb,
                deltas |-> <<>>, journal |-> NoDelta]
    /\ packs = <<>>
    /\ pc = "closed"
    /\ mem = NoSession
    /\ flushed = [h \in Hash |-> 0]
    /\ sessions = 0 /\ faults = 0

(***************************************************************************)
(* Opening.  The encrypted files, when there are any, replace the working  *)
(* copies; pending deltas go to the write buffer and the bloom filter.     *)
(***************************************************************************)
BloomFound(k) == IF k /\ files.bloomEnc.st # "none" THEN files.bloomEnc ELSE files.bloom
DbFound(k) == IF k /\ files.dbEnc.here THEN files.dbEnc ELSE files.db

\* The map an open would present.
View(k) == MapOf(DbFound(k).file \o Records)

\* refuseEncryptedWithoutKey, and the same refusal for an encrypted delta.
NeedsKey == \/ files.bloomEnc.st # "none" \/ files.dbEnc.here
            \/ key /\ files.deltas # <<>>

Opened(kind, k, table) ==
    LET base == DbFound(k).file
        new  == Newest(Records)
    IN  [NoSession EXCEPT
            !.kind = kind, !.key = k,
            !.bloom = BloomFound(k).bits \cup BloomOf(new),
            !.missing = table /\ BloomFound(k).st = "none" /\ ~(new # {} /\ base = <<>>),
            !.buf = new, !.dirty = new # {}, !.start = View(k),
            !.htab = IF table THEN BuildTable(base) ELSE NoTable]

WorkingCopies(k) ==
    [files EXCEPT !.bloom = IF k THEN NoBloom ELSE @, !.db = Db(DbFound(k).file)]

\* CloseDiscard: an encrypted repository loses its working copies.
Discarded(f, k) ==
    [f EXCEPT !.bloom = IF k THEN NoBloom ELSE @, !.db = IF k THEN NoDb ELSE @,
              !.journal = NoDelta]

CanOpen(k) ==
    /\ pc = "closed" /\ sessions < MaxSessions
    /\ k \/ ~NeedsKey
    /\ BloomFound(k).st # "torn"
    /\ \A i \in DOMAIN files.deltas : ValidDelta(files.deltas[i])

OpenSession(kind, k, table) ==
    /\ CanOpen(k)
    /\ pc' = "open" /\ mem' = Opened(kind, k, table) /\ files' = WorkingCopies(k)
    /\ sessions' = sessions + 1
    /\ UNCHANGED <<repo, packs, flushed, faults>>

\* An altered form: the guard of the write path is gone.
OpenBackupUnguarded ==
    /\ CanOpen(key)
    /\ pc' = "open" /\ mem' = Opened("backup", key, TRUE) /\ files' = WorkingCopies(key)
    /\ sessions' = sessions + 1
    /\ UNCHANGED <<repo, packs, flushed, faults>>

\* An altered form: applying the pending deltas journals them again.
OpenBackupJournals ==
    /\ CanOpen(key)
    /\ pc' = "open" /\ mem' = [Opened("backup", key, TRUE) EXCEPT !.armed = shared]
    /\ files' = [WorkingCopies(key) EXCEPT !.journal = [NoDelta EXCEPT !.body = Records]]
    /\ sessions' = sessions + 1
    /\ UNCHANGED <<repo, packs, flushed, faults>>

\* A backup refuses an index that lost its bloom, and may capture a delta.
OpenBackup ==
    /\ CanOpen(key)
    /\ LET s == Opened("backup", key, TRUE)
       IN  IF BloomSuspect(s)
           THEN files' = Discarded(WorkingCopies(key), key) /\ UNCHANGED <<pc, mem>>
           ELSE /\ pc' = "open"
                /\ mem' = [s EXCEPT !.armed = shared]
                /\ files' = IF shared THEN [WorkingCopies(key) EXCEPT !.journal = NoDelta]
                            ELSE WorkingCopies(key)
    /\ sessions' = sessions + 1
    /\ UNCHANGED <<repo, packs, flushed, faults>>

\* Export opens the index with its table and closes it with a flush.
OpenExport == /\ Launder \/ BloomFound(key).st # "none"
              /\ OpenSession("export", key, TRUE)

\* Prune's scan and the prefix check of a resume; with or without the key.
OpenScan == \E k \in {key, FALSE} : OpenSession("scan", k, FALSE)

(***************************************************************************)
(* The work of a session.                                                  *)
(***************************************************************************)
\* The store loop: a new chunk is stored, inserted and captured.
StoreChunk(h) ==
    /\ pc = "open" /\ mem.kind = "backup" /\ Len(packs) < MaxFrames
    /\ IsNew(h)
    /\ LET e == [h |-> h, l |-> Len(packs) + 1]
       IN  /\ packs' = Append(packs, h)
           /\ mem' = [mem EXCEPT !.bloom = @ \cup Bits[h], !.dirty = TRUE,
                                 !.buf = MergeEntries(@, {e})]
           /\ files' = IF mem.armed THEN [files EXCEPT !.journal.body = Append(@, e)] ELSE files
    /\ UNCHANGED <<repo, pc, flushed, bounds>>

\* FlushDelta: the buffer, in any order, goes to the table, which may grow.
FlushDelta ==
    /\ pc = "open" /\ mem.kind = "backup" /\ mem.buf # {}
    /\ \E order \in SetToSeqs(mem.buf) :
          mem' = [mem EXCEPT !.htab = FoldLeft(InsertGrowing, @, order), !.buf = {}]
    /\ UNCHANGED <<repo, files, packs, pc, flushed, bounds>>

\* HashIndex.Flush: the table (or the file) and the buffer, sorted, renamed
\* into place; the table is built again.
FlushedDb ==
    IF ~mem.dirty /\ mem.buf = {} THEN {files.db}
    ELSE LET kept == ToSet(IF mem.htab = NoTable THEN files.db.file ELSE ReadTable(mem.htab))
         IN  {Db(f) : f \in SortedFiles(MergeEntries(kept, mem.buf))}

AfterFlush(db) ==
    [mem EXCEPT !.buf = {}, !.dirty = FALSE,
                !.htab = IF @ = NoTable \/ ~mem.dirty THEN @ ELSE BuildTable(db.file)]

FlushHashIndex ==
    \E db \in FlushedDb : files' = [files EXCEPT !.db = db] /\ mem' = AfterFlush(db)

\* ReadAllEntries flushes what the open merged before it reads the file.
ReadAllEntries ==
    /\ pc = "open" /\ mem.kind = "scan" /\ mem.dirty
    /\ FlushHashIndex
    /\ UNCHANGED <<repo, packs, pc, flushed, bounds>>

CloseDiscard ==
    /\ pc = "open" /\ mem.kind # "export"
    /\ files' = Discarded(files, mem.key) /\ pc' = "closed" /\ mem' = NoSession
    /\ UNCHANGED <<repo, packs, flushed, bounds>>

(***************************************************************************)
(* DedupIndex.Flush, step by step: a backup flushes before it saves its    *)
(* manifest and again when it closes; an export when it closes.            *)
(***************************************************************************)
SaveBloomCreate ==
    /\ \/ pc = "open" /\ mem.kind \in {"backup", "export"}
       \/ pc = "saved"
    /\ pc' = "bloom" /\ files' = [files EXCEPT !.bloom = TornBloom]
    /\ mem' = [mem EXCEPT !.closing = pc = "saved" \/ mem.kind = "export"]
    /\ UNCHANGED <<repo, packs, flushed, bounds>>

SaveBloomWrite ==
    /\ pc = "bloom" /\ pc' = "db" /\ files' = [files EXCEPT !.bloom = BloomFile(mem.bloom)]
    /\ UNCHANGED <<repo, packs, mem, flushed, bounds>>

FlushDb ==
    /\ pc = "db" /\ pc' = IF mem.key THEN "encBloom" ELSE "delta"
    /\ FlushHashIndex
    /\ UNCHANGED <<repo, packs, flushed, bounds>>

EncryptBloom ==
    /\ pc = "encBloom" /\ pc' = "rmBloom" /\ files' = [files EXCEPT !.bloomEnc = files.bloom]
    /\ UNCHANGED <<repo, packs, mem, flushed, bounds>>

RemoveBloom ==
    /\ pc = "rmBloom" /\ pc' = "encDb" /\ files' = [files EXCEPT !.bloom = NoBloom]
    /\ UNCHANGED <<repo, packs, mem, flushed, bounds>>

EncryptDb ==
    /\ pc = "encDb" /\ pc' = "delta" /\ files' = [files EXCEPT !.dbEnc = files.db]
    /\ UNCHANGED <<repo, packs, mem, flushed, bounds>>

\* WriteDeltaObject stamps the journal; the flush returns.
WriteDelta ==
    /\ pc = "delta" /\ pc' = IF mem.closing THEN "closing" ELSE "saved"
    /\ files' = IF mem.armed THEN [files EXCEPT !.journal.stamp = Len(files.journal.body)]
                ELSE files
    /\ flushed' = [h \in Hash |-> Lookup(h).l]
    /\ UNCHANGED <<repo, packs, mem, bounds>>

\* closeDelta removes an empty journal; the working copy of the index goes.
FinishClose ==
    /\ pc = "closing" /\ pc' = "closed" /\ mem' = NoSession
    /\ files' = [files EXCEPT
                    !.journal = IF @.body = <<>> THEN NoDelta ELSE @,
                    !.db = IF mem.key THEN NoDb ELSE @]
    /\ UNCHANGED <<repo, packs, flushed, bounds>>

Flushing == {"bloom", "db", "encBloom", "rmBloom", "encDb", "delta"}

\* A step of the backup's flush fails: the session is discarded.
FlushFails ==
    /\ pc \in Flushing /\ ~mem.closing /\ faults < MaxFaults
    /\ files' = Discarded(files, mem.key) /\ pc' = "closed" /\ mem' = NoSession
    /\ faults' = faults + 1
    /\ UNCHANGED <<repo, packs, flushed, sessions>>

\* A step of Close's flush fails: the delta is dropped, the hash index closed
\* with a flush of its own, and the working copies stay behind.
CloseFails ==
    /\ pc \in Flushing /\ mem.closing /\ faults < MaxFaults
    /\ \E db \in FlushedDb : files' = [files EXCEPT !.db = db, !.journal = NoDelta]
    /\ pc' = "closed" /\ mem' = NoSession /\ faults' = faults + 1
    /\ UNCHANGED <<repo, packs, flushed, sessions>>

(***************************************************************************)
(* FoldDeltasStreamed: the records of all deltas, in order of the object   *)
(* names, in passes of at most FoldBudget; each pass rewrites the base.    *)
(***************************************************************************)
\* An altered form: the winners go behind the base.
MergePassAppends(base, recs) ==
    SelectSeq(base, LAMBDA e : \A w \in Newest(recs) : w.h # e.h) \o SetToSeq(Newest(recs))

\* One pass: base and winners merged prefix by prefix.
MergePass(base, recs) ==
    LET wins     == Newest(recs)
        prefixes == {Prefix[e.h] : e \in wins \cup ToSet(base)}
        of(p) == SelectSeq(base, LAMBDA e : Prefix[e.h] = p /\ \A w \in wins : w.h # e.h)
                 \o SetToSortSeq({w \in wins : Prefix[w.h] = p}, LAMBDA a, b : a.h < b.h)
        order == SetToSortSeq(prefixes, LAMBDA a, b : a < b)
    IN  FlattenSeq([i \in DOMAIN order |-> of(order[i])])

BaseInDeltas == \A e \in ToSet(files.db.file) : \E r \in ToSet(Records) : r.h = e.h

FoldStart ==
    /\ pc = "closed" /\ ~key /\ files.deltas # <<>> /\ sessions < MaxSessions
    /\ files.bloom.st # "torn"
    /\ \A i \in DOMAIN files.deltas : ValidDelta(files.deltas[i])
    /\ Launder \/ files.bloom.st = "whole" \/ BaseInDeltas
    /\ mem' = [NoSession EXCEPT !.kind = "fold", !.bloom = files.bloom.bits]
    /\ pc' = "fold" /\ sessions' = sessions + 1
    /\ UNCHANGED <<repo, files, packs, flushed, faults>>

FoldPass ==
    /\ pc = "fold" /\ mem.at < Len(Records)
    /\ LET to   == Min({mem.at + FoldBudget, Len(Records)})
           recs == SubSeq(Records, mem.at + 1, to)
       IN  /\ files' = [files EXCEPT !.db = Db(MergePass(files.db.file, recs))]
           /\ mem' = [mem EXCEPT !.bloom = @ \cup BloomOf(ToSet(recs)), !.at = to]
    /\ UNCHANGED <<repo, packs, pc, flushed, bounds>>

FoldSaveCreate ==
    /\ pc = "fold" /\ mem.at = Len(Records)
    /\ pc' = "foldBloom" /\ files' = [files EXCEPT !.bloom = TornBloom]
    /\ UNCHANGED <<repo, packs, mem, flushed, bounds>>

FoldSaveWrite ==
    /\ pc = "foldBloom" /\ pc' = "folded" /\ files' = [files EXCEPT !.bloom = BloomFile(mem.bloom)]
    /\ UNCHANGED <<repo, packs, mem, flushed, bounds>>

(***************************************************************************)
(* The world around: deltas come and go by the synchronisation that        *)
(* publishes them (outside this repository), files get lost, a rebuild     *)
(* reads the packs again.                                                  *)
(***************************************************************************)
\* Deltas apply in the order of their names, which need not be that of arrival.
Staged(delta) == {Append(files.deltas, delta), <<delta>> \o files.deltas}

\* Another writer, who did not see this index, published a chunk.
Stage(h) ==
    /\ pc = "closed" /\ shared /\ Len(packs) < MaxFrames
    /\ packs' = Append(packs, h)
    /\ \E ds \in Staged([stamp |-> 1, body |-> <<[h |-> h, l |-> Len(packs) + 1]>>]) :
          files' = [files EXCEPT !.deltas = ds]
    /\ flushed' = Over(MapOf(Records'), flushed)
    /\ UNCHANGED <<repo, pc, mem, bounds>>

\* The captured delta is published; DeltaEntryCount checks it first.
Publish ==
    /\ pc = "closed" /\ files.journal.body # <<>> /\ ValidDelta(files.journal)
    /\ \E ds \in Staged(files.journal) :
          files' = [files EXCEPT !.deltas = ds, !.journal = NoDelta]
    /\ flushed' = Over(MapOf(Records'), flushed)
    /\ UNCHANGED <<repo, packs, pc, mem, bounds>>

\* The folded deltas are deleted.
Unstage ==
    /\ pc = "folded" /\ pc' = "closed" /\ mem' = NoSession
    /\ files' = [files EXCEPT !.deltas = <<>>]
    /\ UNCHANGED <<repo, packs, flushed, bounds>>

LoseBloom ==
    /\ pc = "closed" /\ faults < MaxFaults /\ BloomFound(key).st # "none"
    /\ files' = [files EXCEPT !.bloom = NoBloom, !.bloomEnc = NoBloom]
    /\ faults' = faults + 1
    /\ UNCHANGED <<repo, packs, pc, mem, flushed, sessions>>

\* Rebuild with RebuildBloom alone, on a flushed index that lost its filter.
RebuildBloom ==
    /\ pc = "closed" /\ packs # <<>> /\ BloomFound(key).st # "whole"
    /\ IF key THEN files.dbEnc.here ELSE files.db.here
    /\ LET b == BloomFile(UNION {Bits[h] : h \in ToSet(packs)})
       IN  files' = [files EXCEPT !.bloom = IF key THEN NoBloom ELSE b,
                                  !.bloomEnc = IF key THEN b ELSE @]
    /\ UNCHANGED <<repo, packs, pc, mem, flushed, bounds>>

Crash ==
    /\ pc # "closed" /\ faults < MaxFaults
    /\ pc' = "closed" /\ mem' = NoSession /\ faults' = faults + 1
    /\ UNCHANGED <<repo, files, packs, flushed, sessions>>

Next ==
    \/ OpenBackup \/ OpenExport \/ OpenScan
    \/ \E h \in Hash : StoreChunk(h) \/ Stage(h)
    \/ FlushDelta \/ ReadAllEntries \/ CloseDiscard
    \/ SaveBloomCreate \/ SaveBloomWrite \/ FlushDb \/ EncryptBloom \/ RemoveBloom
    \/ EncryptDb \/ WriteDelta \/ FinishClose \/ FlushFails \/ CloseFails
    \/ FoldStart \/ FoldPass \/ FoldSaveCreate \/ FoldSaveWrite
    \/ Publish \/ Unstage \/ LoseBloom \/ RebuildBloom \/ Crash

Spec == Init /\ [][Next]_vars

(***************************************************************************)
(* Properties.                                                             *)
(***************************************************************************)
\* Every variable has its type; a table's count is the number of its entries,
\* and the index files are sorted by prefix with one entry per hash.
TypeOK ==
    /\ {key, shared} \subseteq BOOLEAN /\ packs \in Seq(Hash)
    /\ pc \in {"closed", "open", "saved", "closing", "fold", "foldBloom", "folded"} \cup Flushing
    /\ \A d \in {files.db, files.dbEnc} :
          /\ d.file \in Seq(Entry) /\ ByPrefix(d.file)
          /\ \A i, j \in DOMAIN d.file : d.file[i].h = d.file[j].h => i = j
    /\ mem.htab # NoTable => mem.htab.count = Len(ReadTable(mem.htab))
    /\ flushed \in [Hash -> 0 .. Len(packs)]

\* The index is a map.  Lookups, through buffer, table or binary search, answer
\* from the durable map and the session's inserts; flushes, folds, crashes and
\* discards change the durable map only as ChunkMap says: a chunk a completed
\* flush recorded is found at every later open (Lookup, Flush, CloseDiscard,
\* FoldDeltasStreamed).
Abstract == INSTANCE ChunkMap WITH
    Loc     <- 1 .. MaxFrames,
    durable <- View(key),
    open    <- InSession,
    session <- [h \in Hash |-> IF InSession THEN Lookup(h).l ELSE 0]

ImplementsChunkMap == Abstract!Spec

\* A backup never takes a chunk that a completed flush recorded for a new one,
\* whatever became of the bloom file before (Check, BloomSuspect).
NoFalseNew ==
    pc = "open" /\ mem.kind = "backup" => \A h \in Hash : IsNew(h) => flushed[h] = 0

\* The delta a backup captured is whole when its flush returns, and is exactly
\* the change that flush made: merged over what the session found at its open,
\* it gives what the flush recorded; what came in another writer's delta is not
\* in it (captureInsert, insertNoCapture, WriteDeltaObject).
DeltaIsTheChange ==
    pc = "saved" /\ mem.armed =>
        /\ ValidDelta(files.journal)
        /\ Over(MapOf(files.journal.body), mem.start) = flushed
        /\ \A e \in ToSet(files.journal.body), r \in ToSet(Records) : e.h # r.h
=============================================================================
