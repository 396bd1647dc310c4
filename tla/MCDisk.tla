------------------------------ MODULE MCDisk ------------------------------
(***************************************************************************)
(* Instance for TLC.  Jobs that only plan cover many layouts, drive sizes  *)
(* and options; jobs that write cover the operations, target formats and   *)
(* faults on a few disks.                                                  *)
(***************************************************************************)
EXTENDS DiskRestore

CONSTANT RealignSchemes   \* schemes whose disks are realigned

AllOpts(mins) == [grow : BOOLEAN, move : BOOLEAN, realign : BOOLEAN, min : mins]
Opts(g, v, r, mins) == [grow |-> g, move |-> v, realign |-> r, min |-> mins]
NoMin == [i \in {} |-> 0]

---------------------------------------------------------------------------
(* Layouts to plan for: up to three partitions behind gaps on a disk of 32 *)
(* sectors, the last one logical on some MBR disks (its EBR before it).    *)

Shape == [gap : {0, 3}, n : {2, 5}, type : {"data", "esp"}]
Shapes == UNION {[1 .. k -> Shape] : k \in 1 .. 3}

FirstOf(sh, start, logical) ==
  LET f[i \in 1 .. Len(sh)] ==
        (IF i = 1 THEN start ELSE f[i - 1] + sh[i - 1].n) + sh[i].gap
        + (IF logical /\ i = Len(sh) THEN 1 ELSE 0)
  IN f

LayoutOf(sh, scheme, start, logical) ==
  LET f == FirstOf(sh, start, logical)
      n == Len(sh)
  IN [scheme |-> scheme, size |-> 32, firstUsable |-> IF scheme = "gpt" THEN 3 ELSE 0,
      alt |-> IF scheme = "gpt" THEN 31 ELSE 0,
      parts |-> [i \in 1 .. n |-> [index |-> i - 1, type |-> sh[i].type,
                                   first |-> f[i], last |-> f[i] + sh[i].n - 1]],
      aux |-> IF logical THEN <<f[n] - 1>> ELSE <<>>,
      prim |-> [off |-> 0, len |-> IF scheme = "gpt" THEN 3 ELSE f[1] - IF logical /\ n = 1 THEN 1 ELSE 0],
      bak |-> IF scheme = "gpt" THEN [off |-> 30, len |-> 2] ELSE [off |-> 0, len |-> 0]]

Layouts ==
  {LayoutOf(sh, "gpt", 4, FALSE) : sh \in Shapes}
  \cup {LayoutOf(sh, "mbr", 1, lg) : sh \in {x \in Shapes : Len(x) < 3 \/ x[1].gap = 3}, lg \in BOOLEAN}

PlanJobs ==
  {[op |-> "plan", layout |-> l, tg |-> [size |-> n, sector |-> sec], opts |-> o, fitted |-> TRUE, fmt |-> "raw"] :
     l \in Layouts, n \in {18, 23, 36, 48}, sec \in {"same"},
     o \in {x \in AllOpts({NoMin, [i \in 0 .. 2 |-> 3]}) : x.grow \/ ~x.move}}

---------------------------------------------------------------------------
(* Disks to capture and to clone.                                          *)

\* The first partition ends in zeros, the others have some in the middle.
Byte(p, s) == IF s \in (IF p = 0 THEN {2, 3, 4} ELSE {1, 2}) THEN Zero ELSE [k |-> "data", p |-> p, s |-> s]

Filled(n, parts, tables) ==
  [s \in 0 .. n - 1 |->
     IF s \in DOMAIN tables THEN tables[s]
     ELSE IF \E i \in DOMAIN parts : s \in parts[i].first .. LastOf(parts[i])
     THEN LET i == CHOOSE j \in DOMAIN parts : s \in parts[j].first .. LastOf(parts[j])
          IN Byte(i - 1, s - parts[i].first)
     ELSE [k |-> "gap", s |-> s]]

Slot(type, first, n) == [type |-> type, first |-> first, n |-> n]

GPTDisk(n, parts) ==
  LET h == [my |-> 1, alt |-> n - 1, first |-> 3, last |-> n - 3, ent |-> 2, entCrc |-> parts]
      ent == [k |-> "ent", e |-> parts]
      bak == BackupAtEnd(h, ent, n)
  IN Filled(n, parts,
       [s \in {0, 1, 2, n - 2, n - 1} |->
          CASE s = 0 -> Protective [] s = 1 -> recomputeHeaderCRC(h) [] s = 2 -> ent
            [] OTHER -> bak[s - (n - 2)]])

\* An empty slot between the two partitions.
G == GPTDisk(20, <<Slot("data", 4, 5), NoSlot, Slot("esp", 11, 3)>>)
\* Two data partitions and a gap between them.
G2 == GPTDisk(20, <<Slot("data", 4, 5), Slot("data", 10, 4)>>)

\* A primary, an extended container with two logicals, and a primary behind.
MBRDisk ==
  Filled(20, <<Slot("data", 3, 3), Slot("data", 13, 4), Slot("data", 7, 2), Slot("esp", 10, 1)>>,
    [s \in {0, 6, 9} |->
       CASE s = 0 -> [k |-> "mbr", e |-> <<Slot("data", 3, 3), Slot("ext", 6, 6), NoSlot, Slot("data", 13, 4)>>]
         [] s = 6 -> [k |-> "ebr", log |-> Slot("data", 1, 2), next |-> Slot("ext", 3, 2)]
         [] s = 9 -> [k |-> "ebr", log |-> Slot("esp", 1, 1), next |-> NoSlot]])

\* Two primaries, the data partition last.
MBR2 == Filled(20, <<Slot("esp", 2, 3), Slot("data", 6, 6)>>,
          [s \in {0} |-> [k |-> "mbr", e |-> <<NoSlot, Slot("esp", 2, 3), NoSlot, Slot("data", 6, 6)>>]])

Unparsable == [s \in 0 .. 19 |-> Stale]

AllRaw == [i \in 0 .. 3 |-> "raw"]
OneSkipped == [AllRaw EXCEPT ![0] = "skipped"]

Job(op, disk, n, fitted, opts, kinds, fmt, readback, digest) ==
  [op |-> op, disk |-> disk, tg |-> [size |-> n, sector |-> "same"], fitted |-> fitted, opts |-> opts,
   kinds |-> kinds, fmt |-> fmt, readback |-> readback, digest |-> digest]

Disks == {G, G2, MBRDisk, MBR2}
Plain == Opts(FALSE, FALSE, FALSE, NoMin)
GrowMove(disk) ==
  Opts(TRUE, TRUE, IF disk[0].k = "mbr" THEN "mbr" \in RealignSchemes ELSE "gpt" \in RealignSchemes, NoMin)
MinAll == Opts(FALSE, FALSE, FALSE, [i \in 0 .. 2 |-> 2])

DeviceJobs ==
  {Job(op, d, n, FALSE, Plain, k, "device", rb, dg) :
     op \in {"restore", "fit", "clone"}, d \in Disks, n \in {18, 20, 23}, k \in {AllRaw, OneSkipped},
     rb \in BOOLEAN, dg \in BOOLEAN}
  \cup {Job(op, d, 26, TRUE, GrowMove(d), AllRaw, "device", rb, TRUE) :
     op \in {"fit", "clone"}, d \in Disks, rb \in BOOLEAN}
  \cup {Job(op, d, n, TRUE, MinAll, k, "device", TRUE, TRUE) :
     op \in {"fit", "clone"}, d \in Disks, n \in {3, 11, 14}, k \in {AllRaw, OneSkipped}}
  \cup {Job(op, Unparsable, 20, FALSE, Plain, AllRaw, "device", FALSE, FALSE) : op \in {"restore", "clone"}}

ImageJobs ==
  {Job("restore", d, n, FALSE, Plain, AllRaw, f, TRUE, TRUE) :
     d \in Disks, n \in {20, 25}, f \in {"raw", "vmdk", "vhdfixed", "vhd", "qcow2"}}
  \cup {Job("fit", d, 26, TRUE, GrowMove(d), OneSkipped, f, FALSE, TRUE) : d \in Disks, f \in {"vhd", "qcow2"}}

WriteJobs == DeviceJobs \cup ImageJobs

MCJobs == WriteJobs \cup {j \in PlanJobs : j.opts.realign => j.layout.scheme \in RealignSchemes}
=============================================================================
