---------------------------- MODULE DiskRestore ----------------------------
(***************************************************************************)
(* Whole disks (package bmr): Capture binds the backups of a disk's        *)
(* partitions and its tables into one machine snapshot; RestoreDisk and    *)
(* RestoreDiskFit write a snapshot's disk to a target, CloneDisk copies a  *)
(* disk to another.  The target is a device or a new image file            *)
(* (DiskImage), the plan for a target of another size that of DiskFit.     *)
(*                                                                         *)
(* job is what the caller asked for: op ("restore", "fit", "clone"; "plan" *)
(* only plans), the source disk, tg (the target's geometry), opts and      *)
(* fitted (a plan is made), kinds (how each partition is captured), fmt    *)
(* (what the target is), readback (the target is read back), digest (the   *)
(* backups carry a capture digest).  A member is restored as a whole, Buf  *)
(* sectors at a time; how RestoreEntries gets its bytes is in              *)
(* VolumeRestore.  flat is what was written, as a plain disk.              *)
(***************************************************************************)
EXTENDS DiskFit, DiskImage

CONSTANTS Jobs, Buf, MaxFaults, MaxRetries

VARIABLES job, cap, saved, backups, plan, staged, tgt, flat, pc, m, off, faults, retries, warned

vars == <<job, cap, saved, backups, plan, staged, tgt, flat, pc, m, off, faults, retries, warned>>

NoCapture == [layout |-> NotParsed, prim |-> NoBytes, bak |-> NoBytes, aux |-> <<>>, members |-> <<>>]

Init ==
  /\ job \in Jobs
  /\ cap = IF job.op = "plan" THEN [NoCapture EXCEPT !.layout = job.layout] ELSE NoCapture
  /\ pc = IF job.op = "plan" THEN "captured" ELSE "start"
  /\ saved = FALSE /\ backups = NoBytes /\ plan = NoPlan /\ staged = {}
  /\ tgt = Create(job.fmt, job.tg.size)
  /\ flat = [s \in 0 .. job.tg.size - 1 |-> IF job.fmt = "device" THEN Stale ELSE Zero]
  /\ m = 1 /\ off = 0 /\ faults = 0 /\ retries = 0 /\ warned = FALSE

---------------------------------------------------------------------------
(* Capture: tables and layout, one backup per member, the manifest last.   *)

SourceSize == Cardinality(DOMAIN job.disk)

readRegions(l) ==
  [layout |-> l, prim |-> Region(job.disk, l.prim), bak |-> Region(job.disk, l.bak),
   aux |-> [i \in DOMAIN l.aux |-> job.disk[l.aux[i]]], members |-> <<>>]

\* captureOneDisk and CloneDisk both begin by parsing the disk and reading
\* its tables.
ReadTables ==
  /\ pc = "start"
  /\ \E l \in {Parse(job.disk, SourceSize)} :
       IF l = NotParsed THEN pc' = "refused" /\ UNCHANGED cap
       ELSE /\ cap' = readRegions(l)
            /\ pc' = IF job.op = "clone" THEN "captured" ELSE "capture"
  /\ UNCHANGED <<job, saved, backups, plan, staged, tgt, flat, m, off, faults, retries, warned>>

CaptureMember ==
  /\ pc = "capture" /\ m <= Len(cap.layout.parts)
  /\ \E p \in {cap.layout.parts[m]} :
       /\ cap' = [cap EXCEPT !.members = Append(@, [index |-> p.index, kind |-> job.kinds[p.index]])]
       /\ backups' = IF job.kinds[p.index] = "skipped" THEN backups
                     ELSE Put(backups, One(p.index, Region(job.disk, [off |-> p.first, len |-> p.last - p.first + 1])))
  /\ m' = m + 1
  /\ UNCHANGED <<job, saved, plan, staged, tgt, flat, pc, off, faults, retries, warned>>

\* MachineManifest.validate.
validate(d) ==
  /\ \A i, j \in DOMAIN d.members : d.members[i].index = d.members[j].index => i = j
  /\ {d.members[i].index : i \in DOMAIN d.members} = {d.layout.parts[i].index : i \in DOMAIN d.layout.parts}
  /\ Cardinality(DOMAIN d.prim) = d.layout.prim.len
  /\ Cardinality(DOMAIN d.bak) = d.layout.bak.len
  /\ Len(d.aux) = Len(d.layout.aux)

SaveMachineManifest ==
  /\ pc = "capture" /\ m > Len(cap.layout.parts)
  /\ saved' = validate(cap)
  /\ pc' = IF validate(cap) THEN "captured" ELSE "refused"
  /\ m' = 1
  /\ UNCHANGED <<job, cap, backups, plan, staged, tgt, flat, off, faults, retries, warned>>

---------------------------------------------------------------------------
(* Planning, and the shrinking that happens outside the engine.            *)

Plan ==
  /\ pc = "captured"
  /\ plan' \in IF job.fitted THEN {PlanFit(cap.layout, job.tg, job.opts)} ELSE {NoPlan}
  /\ pc' = "planned"
  /\ UNCHANGED <<job, cap, saved, backups, staged, tgt, flat, m, off, faults, retries, warned>>

HasMember(i) == \E j \in DOMAIN cap.members : cap.members[j].index = i /\ cap.members[j].kind # "skipped"

\* RestoreMemberTo restores one member to a scratch file, where the
\* filesystem's tools shrink it; a clone's caller copies it there.
RestoreMemberTo(i) ==
  /\ pc = "planned" /\ job.op \in {"fit", "clone"}
  /\ \E pp \in Range(plan.parts) : pp.index = i /\ pp.shrink
  /\ job.op = "fit" => HasMember(i)
  /\ staged' = staged \cup {i}
  /\ staged' # staged
  /\ UNCHANGED <<job, cap, saved, backups, plan, tgt, flat, pc, m, off, faults, retries, warned>>

---------------------------------------------------------------------------
(* Where things go.                                                        *)

Fitted == job.fitted /\ job.op # "restore"

\* A plan refused before anything was placed has no partitions.
placementFor(index) ==
  LET p == CHOOSE q \in Range(cap.layout.parts) : q.index = index
      old == [base |-> p.first, len |-> p.last - p.first + 1, old |-> p.last - p.first + 1,
              shrink |-> FALSE, grow |-> FALSE]
  IN IF ~Fitted THEN old
     ELSE LET pp == Planned(plan, index) IN
          [old EXCEPT !.base = pp.first, !.len = sizeOf(pp), !.shrink = pp.shrink, !.grow = pp.grow]

bootStructures ==
  IF ~Fitted THEN RelocateGPT(cap.layout, cap.prim, cap.bak, job.tg.size)
  ELSE IF ~plan.ok \/ plan.size # job.tg.size THEN Refused
  ELSE ApplyFit(cap.layout, plan, cap.prim, cap.bak)

\* The members of a snapshot, or the partitions of a disk to clone.
Members == IF job.op = "clone" THEN cap.layout.parts ELSE cap.members
Index == Members[m].index

\* How a member is written: zeros for a skipped one, the staged bytes for one
\* that shrinks, else its captured bytes at its new place.
Mode(i, pl) ==
  IF job.op # "clone" /\ ~HasMember(i) THEN "zeros"
  ELSE IF pl.shrink THEN "staged" ELSE "copy"

Length(mode, pl) == IF mode = "copy" THEN pl.old ELSE pl.len
Grows(pl) == pl.grow /\ pl.len > pl.old

Content(i, mode, s) ==
  CASE mode = "zeros"  -> Zero
    [] mode = "staged" -> [k |-> "shrunk", p |-> i, s |-> s]
    [] OTHER           -> IF job.op # "clone" THEN backups[i][s]
                          ELSE job.disk[(CHOOSE q \in Range(cap.layout.parts) : q.index = i).first + s]

Write(at, bytes) ==
  /\ tgt' = WriteAt(tgt, at, bytes)
  /\ flat' = Put(flat, [c \in {at + s : s \in DOMAIN bytes} |-> bytes[c - at]])

---------------------------------------------------------------------------
(* The three operations.  RestoreDisk writes the tables and then the       *)
(* members; RestoreDiskFit and CloneDisk the members and then the tables.  *)

\* Altered form: every operation writes the tables first.
BeginTablesFirst ==
  /\ pc = "planned" /\ job.op # "plan"
  /\ pc' = IF ~Fitted /\ job.tg.size < cap.layout.size THEN "refused" ELSE "boot"
  /\ m' = 1 /\ off' = 0
  /\ UNCHANGED <<job, cap, saved, backups, plan, staged, tgt, flat, faults, retries, warned>>

Begin ==
  /\ pc = "planned" /\ job.op # "plan"
  /\ pc' = IF \/ ~Fitted /\ job.tg.size < cap.layout.size
              \/ job.op # "clone" /\ ~saved
           THEN "refused" ELSE IF job.op = "restore" THEN "boot" ELSE "member"
  /\ m' = 1 /\ off' = 0
  /\ UNCHANGED <<job, cap, saved, backups, plan, staged, tgt, flat, faults, retries, warned>>

\* What follows a phase of member m: RestoreDisk and RestoreDiskFit read back
\* a copied member before the grown tail is zeroed, CloneDisk every one after.
Then(phase, mode, pl) ==
  LET reads == job.readback /\ (job.op = "clone" \/ mode = "copy")
      tail == mode = "copy" /\ Grows(pl)
      order == IF job.op = "clone" THEN <<"member", "tail", "readback">>
               ELSE <<"member", "readback", "tail">>
      left == SelectSeq(order, LAMBDA p :
                p = phase \/ (p = "tail" /\ tail) \/ (p = "readback" /\ reads))
      at == CHOOSE i \in DOMAIN left : left[i] = phase
  IN IF at = Len(left) THEN "next" ELSE left[at + 1]

\* Altered form: the next member starts where the last one ended.
AdvanceKeepsOffset(phase, mode, pl) ==
  \E next \in {Then(phase, mode, pl)} :
    /\ UNCHANGED off
    /\ IF next = "next" THEN pc' = "member" /\ m' = m + 1 ELSE pc' = next /\ UNCHANGED m

Advance(phase, mode, pl) ==
  \E next \in {Then(phase, mode, pl)} :
    /\ off' = 0
    /\ IF next = "next" THEN pc' = "member" /\ m' = m + 1 ELSE pc' = next /\ UNCHANGED m

Fits(at, n) == at + n <= job.tg.size

\* One buffer of the member; lost, when the device acknowledges it and drops
\* it.
WriteBuffer(lost) ==
  /\ pc = "member" /\ m <= Len(Members)
  /\ Fitted => plan.parts # <<>>
  /\ \E pl \in {placementFor(Index)} : \E mode \in {Mode(Index, pl)} :
     \E n \in {LET rest == Length(mode, pl) - off IN IF rest < Buf THEN rest ELSE Buf} :
       /\ mode = "staged" => Index \in staged
       /\ Fits(pl.base + off, n)
       /\ IF lost THEN (job.op = "clone" \/ (mode = "copy" /\ job.digest)) /\ UNCHANGED <<tgt, flat>>
          ELSE Write(pl.base + off, [s \in 0 .. n - 1 |-> Content(Index, mode, off + s)])
       /\ IF off + n < Length(mode, pl) THEN off' = off + n /\ UNCHANGED <<pc, m>>
          ELSE Advance("member", mode, pl)
  /\ UNCHANGED <<job, cap, saved, backups, plan, staged, retries, warned>>

WriteMember == WriteBuffer(FALSE) /\ UNCHANGED faults

\* Only writes that are read back and compared are lost: nothing notices the
\* others.
LoseWrite ==
  /\ pc = "member" /\ faults < MaxFaults /\ job.readback /\ job.fmt = "device"
  /\ WriteBuffer(TRUE)
  /\ faults' = faults + 1

\* The plan does not name the partition, its shrunk bytes were not supplied,
\* or a refused plan places it past the end of the target.
MemberRefused ==
  /\ pc = "member" /\ m <= Len(Members) /\ Fitted
  /\ plan.parts # <<>> =>
       \E pl \in {placementFor(Index)} : \E mode \in {Mode(Index, pl)} :
         \/ mode = "staged" /\ Index \notin staged
         \/ LET rest == Length(mode, pl) - off IN
            ~Fits(pl.base + off, IF rest < Buf THEN rest ELSE Buf)
  /\ pc' = "failed"
  /\ UNCHANGED <<job, cap, saved, backups, plan, staged, tgt, flat, m, off, faults, retries, warned>>

ZeroTail ==
  /\ pc = "tail"
  /\ \E pl \in {placementFor(Index)} :
       /\ Write(pl.base + pl.old, [s \in 0 .. pl.len - pl.old - 1 |-> Zero])
       /\ Advance("tail", Mode(Index, pl), pl)
  /\ UNCHANGED <<job, cap, saved, backups, plan, staged, faults, retries, warned>>

\* Whether the bytes read back are those written: either, when only the
\* leftovers of a buffer can differ.
ReadsBack(i, mode, pl) ==
  LET at(s) == ReadAt(tgt, pl.base + s)
      span == 0 .. Length(mode, pl) - 1
  IN IF \E s \in span : at(s) \notin {Content(i, mode, s), Unset} THEN {FALSE}
     ELSE IF \E s \in span : at(s) = Unset THEN BOOLEAN
     ELSE {TRUE}

\* A restore compares with the capture digest, if there is one; a clone with
\* what it wrote.
ReadBack ==
  /\ pc = "readback"
  /\ \E pl \in {placementFor(Index)} : \E mode \in {Mode(Index, pl)} :
     \E same \in ReadsBack(Index, mode, pl) :
       IF (job.op = "clone" \/ job.digest) /\ ~same
       THEN pc' = "failed" /\ UNCHANGED <<m, off>>
       ELSE Advance("readback", mode, pl)
  /\ UNCHANGED <<job, cap, saved, backups, plan, staged, tgt, flat, faults, retries, warned>>

\* The target cannot be read: a restore warns and goes on, a clone fails.
ReadBackFails ==
  /\ pc = "readback" /\ faults < MaxFaults
  /\ faults' = faults + 1
  /\ IF job.op = "clone" THEN pc' = "failed" /\ UNCHANGED <<m, off, warned>>
     ELSE /\ warned' = TRUE
          /\ \E pl \in {placementFor(Index)} : Advance("readback", Mode(Index, pl), pl)
  /\ UNCHANGED <<job, cap, saved, backups, plan, staged, tgt, flat, retries>>

MembersDone ==
  /\ pc = "member" /\ m > Len(Members)
  /\ pc' = CASE job.op = "restore" -> "sync" [] job.op = "fit" -> "boot" [] OTHER -> "gaps"
  /\ UNCHANGED <<job, cap, saved, backups, plan, staged, tgt, flat, m, off, faults, retries, warned>>

\* Every sector that is neither a partition nor a table on the target: from
\* the source when nothing moved, else zeros.
Holes ==
  LET span(i) == LET pl == placementFor(i) IN pl.base .. pl.base + pl.len - 1
      bak == IF cap.layout.bak.len = 0 THEN {}
             ELSE IF ~Fitted /\ job.tg.size = cap.layout.size THEN cap.layout.bak.off .. job.tg.size - 1
             ELSE job.tg.size - cap.layout.bak.len .. job.tg.size - 1
  IN (0 .. job.tg.size - 1)
     \ UNION ({0 .. cap.layout.prim.len - 1, Range(cap.layout.aux), bak}
              \cup {span(cap.layout.parts[i].index) : i \in DOMAIN cap.layout.parts})

writeGaps ==
  /\ pc = "gaps"
  /\ \E verbatim \in {~Fitted /\ job.tg.size = cap.layout.size} : \E holes \in {Holes} :
     \E runs \in {[s \in holes |-> IF verbatim THEN job.disk[s] ELSE Zero]} :
       Write(0, runs)
  /\ pc' = "boot"
  /\ UNCHANGED <<job, cap, saved, backups, plan, staged, m, off, faults, retries, warned>>

WritePrimary ==
  /\ pc = "boot"
  /\ \E boot \in {bootStructures} :
       IF ~boot.ok
       THEN pc' = (IF job.op = "restore" THEN "refused" ELSE "failed") /\ UNCHANGED <<tgt, flat>>
       ELSE Write(0, boot.prim) /\ pc' = "backup"
  /\ UNCHANGED <<job, cap, saved, backups, plan, staged, m, off, faults, retries, warned>>

\* The backup GPT, which an MBR disk does not have.
WriteBackup ==
  /\ pc = "backup"
  /\ \E boot \in {bootStructures} :
       IF boot.bak = NoBytes THEN UNCHANGED <<tgt, flat>> ELSE Write(boot.off, boot.bak)
  /\ pc' = "aux"
  /\ UNCHANGED <<job, cap, saved, backups, plan, staged, m, off, faults, retries, warned>>

\* The EBR chain, verbatim.
WriteAux ==
  /\ pc = "aux"
  /\ \E l \in {cap.layout} :
       Write(0, [c \in Range(l.aux) |-> cap.aux[CHOOSE i \in DOMAIN l.aux : l.aux[i] = c]])
  /\ pc' = IF job.op = "restore" THEN "member" ELSE "sync"
  /\ UNCHANGED <<job, cap, saved, backups, plan, staged, m, off, faults, retries, warned>>

Sync ==
  /\ pc = "sync" /\ pc' = "done"
  /\ UNCHANGED <<job, cap, saved, backups, plan, staged, tgt, flat, m, off, faults, retries, warned>>

\* The caller closes a finished image, one write of Close at a time.
CloseImage ==
  /\ pc = "done" /\ job.fmt # "device" /\ tgt.step # "closed"
  /\ tgt' = Close(tgt)
  /\ UNCHANGED <<job, cap, saved, backups, plan, staged, flat, pc, m, off, faults, retries, warned>>

Writing == {"member", "tail", "readback", "gaps", "boot", "backup", "aux", "sync"}

\* A write fails, a chunk cannot be read, the caller cancels or the machine
\* stops; the operator runs the job again over what is there.  An image is
\* never written over.
Retry ==
  /\ pc \in Writing \cup {"failed"} /\ retries < MaxRetries
  /\ job.fmt = "device"
  /\ pc' = "planned" /\ retries' = retries + 1 /\ warned' = FALSE
  /\ UNCHANGED <<job, cap, saved, backups, plan, staged, tgt, flat, m, off, faults>>

Next ==
  \/ ReadTables \/ CaptureMember \/ SaveMachineManifest \/ Plan
  \/ \E i \in {plan.parts[j].index : j \in DOMAIN plan.parts} : RestoreMemberTo(i)
  \/ Begin \/ WriteMember \/ LoseWrite \/ MemberRefused \/ ZeroTail
  \/ ReadBack \/ ReadBackFails \/ MembersDone \/ writeGaps
  \/ WritePrimary \/ WriteBackup \/ WriteAux \/ Sync \/ CloseImage \/ Retry

Spec == Init /\ [][Next]_vars

---------------------------------------------------------------------------
\* What the target holds.
Disk == [s \in 0 .. job.tg.size - 1 |-> LET v == ReadAt(tgt, s) IN IF v = Unset THEN Zero ELSE v]

\* A partition of the finished target: its bytes at their place, zeros behind
\* them when it grew.
InPlace(i, disk) ==
  \E pl \in {placementFor(i)} : \E mode \in {Mode(i, pl)} :
    \A s \in 0 .. pl.len - 1 :
      disk[pl.base + s] = IF s < Length(mode, pl) THEN Content(i, mode, s) ELSE Zero

Indices == {cap.layout.parts[i].index : i \in DOMAIN cap.layout.parts}
Extents(l) == {<<l.parts[i].index, l.parts[i].first, l.parts[i].last>> : i \in DOMAIN l.parts}

\* The variables have their types; a position stays inside the member being
\* written, and the writer's tables name places it has given out.
TypeOK ==
  /\ pc \in {"start", "capture", "captured", "planned", "done", "failed", "refused"} \cup Writing
  /\ saved \in BOOLEAN /\ warned \in BOOLEAN
  /\ faults \in 0 .. MaxFaults /\ retries \in 0 .. MaxRetries
  /\ staged \subseteq Indices
  /\ (pc = "member" /\ off > 0) =>
       /\ m <= Len(Members)
       /\ \E pl \in {placementFor(Index)} : off < Length(Mode(Index, pl), pl)
  /\ DOMAIN flat = 0 .. job.tg.size - 1
  /\ job.fmt # "device" => \A c \in DOMAIN tgt.file : c < tgt.len
  /\ job.fmt \in Sparse => \A u \in DOMAIN tgt.map : tgt.map[u] < tgt.next

\* A plan that PlanFit accepts: partitions do not overlap, stay clear of the
\* boot region, the EBRs and the backup table; only data partitions change
\* size and none goes below its minimum; logical partitions stay put.
PlanSound ==
  plan.ok =>
    LET l == cap.layout
        end == job.tg.size - l.bak.len
        span(pp) == pp.first .. pp.last
        same(pp) == pp.last - pp.first = pp.oldLast - pp.oldFirst
    IN /\ \A i, j \in DOMAIN plan.parts : i # j => span(plan.parts[i]) \cap span(plan.parts[j]) = {}
       /\ \A pp \in Range(plan.parts) :
            /\ pp.first <= pp.last /\ pp.last < end
            /\ pp.first >= l.prim.len /\ pp.first >= l.firstUsable
            /\ span(pp) \cap Range(l.aux) = {}
            /\ ~isData(pp) => same(pp)
            /\ same(pp) \/ sizeOf(pp) >= (IF pp.index \in DOMAIN job.opts.min THEN job.opts.min[pp.index] ELSE 1)
            /\ isLogical(l, pp) => pp.first = pp.oldFirst /\ same(pp)
       /\ {pp.index : pp \in Range(plan.parts)} = Indices

\* A restore or clone that reports success without a warning left a target
\* whose tables parse to the planned partitions, with a valid backup table
\* naming the end of this drive, every partition in place and the EBRs as
\* captured; a clone has no sector of the target's past, and one of the same
\* size without a plan is the source, sector for sector.
TargetExact ==
  (pc = "done" /\ ~warned) =>
    \E disk \in {Disk} : \E l \in {Parse(disk, job.tg.size)} :
      /\ l.scheme = cap.layout.scheme
      /\ Extents(l) = IF Fitted THEN Extents(plan) ELSE Extents(cap.layout)
      /\ l.scheme = "gpt" => VerifyBackupHeader(l, disk) /\ l.alt = job.tg.size - 1
      /\ \A i \in Indices : InPlace(i, disk)
      /\ \A i \in DOMAIN cap.aux : disk[cap.layout.aux[i]] = cap.aux[i]
      /\ job.op = "clone" =>
           /\ \A s \in DOMAIN disk : disk[s] # Stale
           /\ (~Fitted /\ job.tg.size = cap.layout.size) => disk = job.disk

\* RestoreDiskFit and CloneDisk: "a target that dies mid-way has no valid
\* table pointing at half-written partitions".  Whatever step they stop at, if
\* the target has a table then every partition is in place.
TableLast ==
  (job.op \in {"fit", "clone"} /\ pc \in Writing \cup {"failed", "done"} /\ ~warned) =>
    \E disk \in {Disk} :
      Parse(disk, job.tg.size) # NotParsed => \A i \in Indices : InPlace(i, disk)

\* An image is the flat disk that was written into it: through the writer's
\* own tables at every step (except that zeros behind the end of the file are
\* not read), and through the reader as soon as the reader accepts the file.
\* A closed one is accepted; a closed qcow2 file counts every cluster once.
ImageExact ==
  job.fmt # "device" =>
    /\ \A s \in DOMAIN flat : ReadAt(tgt, s) = flat[s] \/ (ReadAt(tgt, s) = Unset /\ flat[s] = Zero)
    /\ tgt.step = "closed" => Open(tgt)
    /\ Open(tgt) => \A s \in DOMAIN flat : ReadFinished(tgt, s) = flat[s]
    /\ (job.fmt = "qcow2" /\ tgt.step = "closed") => checkRefcounts(tgt)

\* "a restore's read-back verification works before the image is finished":
\* RestoreDisk, which fails only when a partition reads back different from its
\* capture digest, does not fail when no write was lost.
ReadBackWorks == (job.op = "restore" /\ pc = "failed") => faults > 0
=============================================================================
