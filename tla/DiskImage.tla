----------------------------- MODULE DiskImage -----------------------------
(***************************************************************************)
(* What a disk restore writes into (bmr.Target): a device, or a new image  *)
(* file of package diskimage (sparse raw, fixed and dynamic VHD, qcow2,    *)
(* VMDK), and the readers of finished images.                              *)
(*                                                                         *)
(* A target is a record.  file is the file as a partial function from cell *)
(* numbers to contents (a hole reads as zeros) and len its length in       *)
(* cells; a cell is one sector.  map is the writer's own table from units  *)
(* of the virtual disk (VHD blocks, qcow2 clusters) to their place in the  *)
(* file, l1 the qcow2 level-1 table, next the next free place.  step is    *)
(* how far Close has got.  A table occupies its place in the file as one   *)
(* record in its first cell.                                               *)
(***************************************************************************)
EXTENDS DiskTable

CONSTANTS Page,           \* sectors of a page: zero runs are elided by pages
          Unit,           \* sectors of a VHD block and of a qcow2 cluster
          Ptrs,           \* table entries that fit a qcow2 cluster
          RefsPerBlock    \* refcounts that fit a qcow2 cluster

Sparse == {"vhd", "qcow2"}
Flat == {"raw", "vhdfixed", "vmdk"}

ceilDiv(a, b) == (a + b - 1) \div b
At(file, c) == IF c \in DOMAIN file THEN file[c] ELSE Zero

\* Cells [c, v] written over a file.
Put(file, new) == [c \in DOMAIN file \cup DOMAIN new |-> IF c \in DOMAIN new THEN new[c] ELSE file[c]]
One(c, v) == [x \in {c} |-> v]

Units(t) == 0 .. ceilDiv(t.size, Unit) - 1
l1Size(t) == ceilDiv(ceilDiv(t.size, Unit), Ptrs)
l1Clusters(t) == ceilDiv(l1Size(t), Ptrs)

writeHeader(t, refTable, refClusters) ==
  One(0, [k |-> "qcow2", size |-> t.size, l1Size |-> l1Size(t), l1 |-> Unit,
          refTable |-> refTable, refClusters |-> refClusters])

vhdFooter(t, type) == [k |-> "footer", size |-> t.size, type |-> type]

\* The dynamic header behind the footer copy, and the BAT behind it.
batOffset == 3
writeBAT(t) == One(batOffset, [k |-> "bat", bat |-> t.map])

Empty(fmt, n) ==
  [fmt |-> fmt, size |-> n, file |-> NoBytes, len |-> 0, next |-> 0, step |-> "open",
   map |-> [u \in 0 .. ceilDiv(n, Unit) - 1 |-> -1],
   l1 |-> [i \in 0 .. ceilDiv(ceilDiv(n, Unit), Ptrs) - 1 |-> -1]]

newRaw(t, len) == [t EXCEPT !.len = len]

newFixedVHD(t) == [newRaw(t, t.size + 1) EXCEPT !.file = One(t.size, vhdFooter(t, "fixed"))]

newDynamicVHD(t) ==
  [t EXCEPT !.next = batOffset + 1, !.len = batOffset + 1,
            !.file = Put(writeBAT(t),
                         Put(One(0, vhdFooter(t, "dynamic")),
                             One(1, [k |-> "dyn", table |-> batOffset,
                                     entries |-> Cardinality(Units(t))])))]

newQCOW2(t) ==
  [t EXCEPT !.next = 1 + l1Clusters(t), !.len = Unit, !.file = writeHeader(t, 0, 0)]

\* A new image, or a device that holds whatever it held before.
Create(fmt, n) ==
  LET t == Empty(fmt, n) IN
  CASE fmt = "device"   -> [t EXCEPT !.file = [c \in 0 .. n - 1 |-> Stale], !.len = n]
    [] fmt \in {"raw", "vmdk"} -> newRaw(t, n)
    [] fmt = "vhdfixed" -> newFixedVHD(t)
    [] fmt = "vhd"      -> newDynamicVHD(t)
    [] fmt = "qcow2"    -> newQCOW2(t)

\* The sectors of a write that are stored: those on a page where the write
\* has a sector that is not zeros.
forEachDataRun(off, bytes) ==
  {s \in DOMAIN bytes : \E r \in DOMAIN bytes :
     (off + r) \div Page = (off + s) \div Page /\ bytes[r] # Zero}

\* Where the data of an allocated unit starts in the file: behind the VHD
\* block's bitmap, or at its cluster.
DataAt(t, u) == IF t.fmt = "vhd" THEN t.map[u] + 1 ELSE t.map[u] * Unit

\* A VHD block gets a zeroed bitmap and room for its sectors.
allocBlock(t, u) ==
  [t EXCEPT !.map[u] = t.next, !.next = @ + 1 + Unit,
            !.file = Put(@, One(t.next, [k |-> "bits", s |-> {}]))]

\* A qcow2 cluster; the first of its level-2 table allocates the table too.
alloc(t, u) ==
  LET i == u \div Ptrs IN
  IF t.l1[i] = -1 THEN [t EXCEPT !.l1[i] = t.next, !.map[u] = t.next + 1, !.next = @ + 2]
  ELSE [t EXCEPT !.map[u] = t.next, !.next = @ + 1]

\* The stored sectors of a write, unit by unit from the first: allocate what
\* is missing, write the data, mark the VHD block's bitmap.
writeRun(t, off, bytes, stored) ==
  FoldLeft(LAMBDA acc, u :
    LET mine == {s \in stored : (off + s) \div Unit = u}
        got == IF acc.map[u] # -1 THEN acc
               ELSE IF acc.fmt = "vhd" THEN allocBlock(acc, u) ELSE alloc(acc, u)
        data == [c \in {DataAt(got, u) + ((off + s) % Unit) : s \in mine} |->
                   bytes[c - DataAt(got, u) + u * Unit - off]]
        marked == [k |-> "bits", s |-> {(off + s) % Unit : s \in mine}
                                       \cup IF got.fmt = "vhd" THEN got.file[got.map[u]].s ELSE {}]
        file == Put(got.file, data)
    IN [got EXCEPT !.file = IF got.fmt = "vhd" THEN Put(file, One(got.map[u], marked)) ELSE file,
                   !.len = CHOOSE n \in {c + 1 : c \in DOMAIN file} : \A c \in DOMAIN file : c < n],
    t, SetToSortSeq({(off + s) \div Unit : s \in stored}, <))

WriteAt(t, off, bytes) ==
  IF t.fmt = "device" THEN [t EXCEPT !.file = Put(@, [c \in {off + s : s \in DOMAIN bytes} |-> bytes[c - off]])]
  ELSE LET stored == forEachDataRun(off, bytes) IN
       IF t.fmt \in Flat
       THEN [t EXCEPT !.file = Put(@, [c \in {off + s : s \in stored} |-> bytes[c - off]])]
       ELSE writeRun(t, off, bytes, stored)

\* What a read behind the end of the file leaves in the caller's buffer: the
\* end of file is not an error, and the buffer keeps what it held.
Unset == [k |-> "unset"]

\* Reading back through the writer's own tables, before Close.
ReadAt(t, s) ==
  IF t.fmt = "device" \/ t.fmt \in Flat THEN At(t.file, s)
  ELSE IF t.map[s \div Unit] = -1 THEN Zero
  ELSE LET c == DataAt(t, s \div Unit) + (s % Unit) IN IF c < t.len THEN At(t.file, c) ELSE Unset

---------------------------------------------------------------------------
(* Close, in the order its writes reach the file.                          *)

CloseBAT(t) == [t EXCEPT !.file = Put(@, writeBAT(t)), !.step = "tables"]

CloseFooter(t) ==
  [t EXCEPT !.file = Put(Put(@, One(t.next, vhdFooter(t, "dynamic"))), One(0, vhdFooter(t, "dynamic"))),
            !.len = t.next + 1, !.step = "closed"]

\* Level-2 tables, then the level-1 table.
finishTables(t) ==
  LET l2(i) == [k |-> "l2", t |-> [u \in {v \in Units(t) : v \div Ptrs = i} |-> t.map[u]]]
      used == {i \in DOMAIN t.l1 : t.l1[i] # -1}
      tables == [c \in {t.l1[i] * Unit : i \in used} |->
                   l2(CHOOSE i \in used : t.l1[i] * Unit = c)]
  IN [t EXCEPT !.file = Put(Put(@, tables), One(Unit, [k |-> "l1", t |-> t.l1])), !.step = "tables"]

\* Altered form: the structures are counted without themselves.
refStructuresOnce(used) ==
  LET nb == ceilDiv(used, RefsPerBlock) IN <<nb, ceilDiv(nb, Ptrs)>>

\* The refcount structures count themselves: iterate to a fixed point.
\* <<blocks, table clusters>> for a file of used clusters before them.
refStructures(used) ==
  LET next(x) == LET nb == ceilDiv(used + x[1] + x[2], RefsPerBlock) IN <<nb, ceilDiv(nb, Ptrs)>>
      iter[i \in 0 .. used + 4] == IF i = 0 THEN <<0, 0>> ELSE next(iter[i - 1])
  IN iter[used + 4]

finishRefcounts(t) ==
  LET rs == refStructures(t.next)
      total == t.next + rs[1] + rs[2]
      block(i) == (t.next + rs[2] + i) * Unit
      table == [k |-> "reftable", t |-> [i \in 0 .. rs[1] - 1 |-> block(i)]]
      counts(i) == [k |-> "refs", counted |-> {c \in i * RefsPerBlock .. (i + 1) * RefsPerBlock - 1 : c < total}]
      blocks == [c \in {block(i) : i \in 0 .. rs[1] - 1} |->
                   counts(CHOOSE i \in 0 .. rs[1] - 1 : block(i) = c)]
  IN [t EXCEPT !.file = Put(Put(@, One(t.next * Unit, table)), blocks),
               !.len = total * Unit, !.step = "refcounts"]

finishHeader(t) ==
  [t EXCEPT !.file = Put(@, writeHeader(t, t.next * Unit, refStructures(t.next)[2])), !.step = "closed"]

\* The next write of Close.  A raw file, a fixed VHD and a VMDK have none.
Close(t) ==
  CASE t.fmt = "vhd" /\ t.step = "open"          -> CloseBAT(t)
    [] t.fmt = "vhd" /\ t.step = "tables"        -> CloseFooter(t)
    [] t.fmt = "qcow2" /\ t.step = "open"        -> finishTables(t)
    [] t.fmt = "qcow2" /\ t.step = "tables"      -> finishRefcounts(t)
    [] t.fmt = "qcow2" /\ t.step = "refcounts"   -> finishHeader(t)
    [] OTHER                                     -> [t EXCEPT !.step = "closed"]

---------------------------------------------------------------------------
(* The readers: only the file, none of the writer's tables.                *)

openVHD(f, len) ==
  LET footer == At(f, len - 1) IN
  IF footer.k # "footer" THEN FALSE
  ELSE IF footer.type = "fixed" THEN len = footer.size + 1
  ELSE /\ At(f, 1).k = "dyn"
       /\ At(f, 1).entries * Unit >= footer.size
       /\ At(f, At(f, 1).table).k = "bat"

openQCOW2(f, len) ==
  /\ At(f, 0).k = "qcow2"
  /\ len % Unit = 0
  /\ At(f, 0).l1Size * Ptrs * Unit >= At(f, 0).size
  /\ At(f, 0).refTable # 0 /\ At(f, 0).refClusters # 0

Open(t) ==
  CASE t.fmt \in {"vhd", "vhdfixed"} -> openVHD(t.file, t.len)
    [] t.fmt = "qcow2"               -> openQCOW2(t.file, t.len)
    [] OTHER                         -> t.len = t.size

readVHD(f, s) ==
  LET bat == f[f[1].table].bat
      block == bat[s \div Unit]
  IN IF block = -1 \/ (s % Unit) \notin f[block].s THEN Zero ELSE At(f, block + 1 + (s % Unit))

\* The file cluster of a guest cluster, -1 if there is none.
dataCluster(f, u) ==
  LET l1 == f[f[0].l1].t IN
  IF l1[u \div Ptrs] = -1 THEN -1 ELSE f[l1[u \div Ptrs] * Unit].t[u]

readQCOW2(f, s) ==
  LET c == dataCluster(f, s \div Unit) IN IF c = -1 THEN Zero ELSE At(f, c * Unit + (s % Unit))

ReadFinished(t, s) ==
  CASE t.fmt = "vhd"   -> readVHD(t.file, s)
    [] t.fmt = "qcow2" -> readQCOW2(t.file, s)
    [] OTHER           -> At(t.file, s)

\* Every cluster of a finished qcow2 file is used once and counted once.
checkRefcounts(t) ==
  LET f == t.file
      h == f[0]
      l1 == f[h.l1].t
      l2s == {l1[i] : i \in DOMAIN l1} \ {-1}
      data == UNION {{<<c, u>> : u \in DOMAIN f[c * Unit].t} : c \in l2s}
      rt == f[h.refTable].t
      marks == <<0>>
        \o [i \in 1 .. ceilDiv(h.l1Size, Ptrs) |-> (h.l1 \div Unit) + i - 1]
        \o SetToSeq(l2s)
        \o SelectSeq([i \in 1 .. Cardinality(data) |->
                        LET x == SetToSeq(data)[i] IN f[x[1] * Unit].t[x[2]]], LAMBDA c : c # -1)
        \o [i \in 1 .. h.refClusters |-> (h.refTable \div Unit) + i - 1]
        \o [i \in 1 .. Cardinality(DOMAIN rt) |-> rt[i - 1] \div Unit]
  IN /\ \A c \in 0 .. (t.len \div Unit) - 1 :
          /\ Cardinality({i \in DOMAIN marks : marks[i] = c}) = 1
          /\ \E i \in DOMAIN rt : c \in f[rt[i]].counted
     /\ \A i \in DOMAIN rt : \A c \in f[rt[i]].counted : c < t.len \div Unit
=============================================================================
