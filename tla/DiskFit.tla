------------------------------ MODULE DiskFit ------------------------------
(***************************************************************************)
(* Fitting a captured layout onto a drive of another size                  *)
(* (core/disklayout/fit.go): PlanFit decides where every partition lands,  *)
(* ApplyFit rewrites the captured tables to match.                         *)
(*                                                                         *)
(* Sizes are in sectors, the alignment unit is Align, and sector numbers   *)
(* wrap at Word as the code's unsigned ones do.  A plan is                 *)
(* [ok, size, lastUsable, parts]; parts are in disk order, each with its   *)
(* captured and its planned extent.  Warnings are left out.                *)
(***************************************************************************)
EXTENDS DiskTable

CONSTANTS Align,          \* 1 MiB, or the physical sector when larger
          Word,           \* sector numbers are unsigned integers below Word
          MaxPasses       \* shrinking passes

Wrap(n) == n % Word
alignUp(lba) == IF lba % Align = 0 THEN lba ELSE lba + Align - (lba % Align)
alignDown(lba) == lba - (lba % Align)

isData(p) == p.type = "data"
sizeOf(pp) == Wrap(pp.last - pp.first + 1)

NoPlan == [ok |-> FALSE, size |-> 0, lastUsable |-> 0, parts |-> <<>>]

auxStart(l) == CHOOSE a \in Range(l.aux) : \A b \in Range(l.aux) : a <= b

mbrPrimarySlots(l) ==
  Len(SelectSeq(l.parts, LAMBDA p : l.aux = <<>> \/ p.first < auxStart(l)))

isLogical(l, pp) == l.scheme = "mbr" /\ pp.index >= mbrPrimarySlots(l)

\* Where everything is before anything is decided.
Captured(l) ==
  LET parts == SortSeq(l.parts, LAMBDA p, q : p.first < q.first) IN
  [i \in DOMAIN parts |->
     [index |-> parts[i].index, type |-> parts[i].type,
      oldFirst |-> parts[i].first, oldLast |-> parts[i].last,
      first |-> parts[i].first, last |-> parts[i].last,
      shrink |-> FALSE, grow |-> FALSE, moved |-> FALSE]]

Place(pp, first) == [pp EXCEPT !.first = first, !.last = first + sizeOf(pp) - 1, !.moved = TRUE]

LastData(planned) ==
  LET data == {i \in DOMAIN planned : isData(planned[i])} IN
  IF data = {} THEN 0 ELSE CHOOSE i \in data : \A j \in data : j <= i

\* The last data partition k grows to the end of the drive.  What follows it
\* blocks it, or is first packed at the end, the last partition last.
Grow(l, planned, lastUsable, opts) ==
  LET k == LastData(planned)
      n == Len(planned)
      place[i \in k + 1 .. n] ==
        LET end == IF i = n THEN lastUsable ELSE Wrap(place[i + 1] - 1) IN
        alignDown(Wrap(end + 1 - sizeOf(planned[i])))
      growTo == IF k = n THEN lastUsable ELSE Wrap(place[k + 1] - 1)
      packed == [i \in 1 .. n |-> IF i > k THEN Place(planned[i], place[i]) ELSE planned[i]]
  IN IF \/ ~opts.grow \/ k = 0 \/ lastUsable = planned[n].oldLast
        \/ isLogical(l, planned[k])
        \/ k < n /\ (~opts.move \/ \E i \in k + 1 .. n : isLogical(l, planned[i]))
     THEN planned
     ELSE IF growTo <= planned[k].last THEN packed
     ELSE [packed EXCEPT ![k].last = growTo, ![k].grow = TRUE]

\* The smallest a partition may become: its filesystem's minimum, aligned up,
\* or one unit when that is not known.
minSectorsOf(pp, opts) == IF pp.index \in DOMAIN opts.min THEN alignUp(opts.min[pp.index]) ELSE Align

\* After a shrink every later partition follows its predecessor, aligned; a
\* logical partition in the way makes the plan refused.
relayout(l, st) ==
  FoldLeft(LAMBDA acc, i :
             LET pp == acc.planned[i]
                 shifted == \E j \in 1 .. i - 1 : acc.planned[j].shrink
                 first == alignUp(Wrap(acc.planned[i - 1].last + 1))
             IN IF ~shifted THEN acc
                ELSE IF isLogical(l, pp) THEN [acc EXCEPT !.refused = TRUE]
                ELSE IF first = pp.first THEN acc
                ELSE [acc EXCEPT !.planned[i] = Place(pp, first)],
           st, [i \in DOMAIN st.planned |-> i])

\* One pass: take what is needed from the data partitions, last one first,
\* then lay out again and measure what is still missing, in whole units.
ShrinkPass(l, lastUsable, opts, st) ==
  LET take(i, acc) ==
        LET pp == acc.planned[i]
            min == minSectorsOf(pp, opts)
            allowance == IF sizeOf(pp) > min THEN sizeOf(pp) - min ELSE 0
            taken == IF acc.need > allowance THEN allowance ELSE acc.need
        IN IF ~isData(pp) \/ isLogical(l, pp) \/ taken = 0 THEN acc
           ELSE [acc EXCEPT !.planned[i].last = @ - taken, !.planned[i].shrink = TRUE,
                            !.need = @ - taken]
      taken == FoldRight(take, [i \in DOMAIN st.planned |-> i], st)
      laid == relayout(l, taken)
      end == laid.planned[Len(laid.planned)].last
  IN IF taken.need = st.need THEN [taken EXCEPT !.stuck = TRUE]
     ELSE [laid EXCEPT !.need = IF end > lastUsable THEN alignUp(end - lastUsable) ELSE 0]

Shrink(l, planned, lastUsable, opts) ==
  LET st == FoldLeft(LAMBDA acc, pass :
                       IF acc.need = 0 \/ acc.stuck THEN acc
                       ELSE ShrinkPass(l, lastUsable, opts, acc),
                     [planned |-> planned, need |-> planned[Len(planned)].oldLast - lastUsable,
                      stuck |-> FALSE, refused |-> FALSE],
                     [pass \in 1 .. MaxPasses |-> pass])
  IN [st EXCEPT !.refused = @ \/ st.need > 0]

\* Every partition but the logical ones to the next boundary, in order.  When
\* that pushes the last one off the drive, what moved and did not shrink goes
\* back to where it was captured.
Realign(l, planned, lastUsable) ==
  LET put(acc, i) ==
        LET pp == acc.planned[i]
            first == alignUp(acc.pos)
            new == IF first = pp.first THEN pp ELSE Place(pp, first)
        IN IF isLogical(l, pp) THEN acc
           ELSE [planned |-> [acc.planned EXCEPT ![i] = new], pos |-> new.last + 1]
      put0 == [planned |-> planned, pos |-> alignUp(l.firstUsable)]
      aligned == FoldLeft(put, put0, [i \in DOMAIN planned |-> i]).planned
  IN IF aligned[Len(aligned)].last <= lastUsable THEN aligned
     ELSE [i \in DOMAIN aligned |->
             IF aligned[i].moved /\ ~aligned[i].shrink
             THEN [aligned[i] EXCEPT !.first = aligned[i].oldFirst,
                                     !.last = aligned[i].oldLast, !.moved = FALSE]
             ELSE aligned[i]]

\* The final check: no empty partition, no overlap, nothing past the end.
Sound(planned, lastUsable) ==
  \A i \in DOMAIN planned :
    /\ planned[i].last >= planned[i].first
    /\ i > 1 => planned[i].first > planned[i - 1].last
    /\ planned[i].last <= lastUsable

\* Altered form: the backup header's own sector counts as usable.
LastUsableOverlaps(l, n) == IF l.scheme = "gpt" THEN n - 1 - (l.bak.len - 1) ELSE n - 1

LastUsable(l, n) == IF l.scheme = "gpt" THEN n - 1 - (l.bak.len - 1) - 1 ELSE n - 1

\* tg = [size, sector]: the drive and whether its logical sectors are those
\* of the captured disk.
PlanFit(l, tg, opts) ==
  IF \/ tg.sector # "same" \/ tg.size <= 0
     \/ l.scheme = "gpt" /\ tg.size < l.bak.len - 1 + 3
  THEN [NoPlan EXCEPT !.size = tg.size]
  ELSE LET lastUsable == LastUsable(l, tg.size)
           planned == Captured(l)
           fits == lastUsable >= planned[Len(planned)].oldLast
           st == IF fits THEN [planned |-> Grow(l, planned, lastUsable, opts), refused |-> FALSE]
                 ELSE Shrink(l, planned, lastUsable, opts)
           final == IF opts.realign /\ ~st.refused THEN Realign(l, st.planned, lastUsable)
                    ELSE st.planned
       IN [ok |-> ~st.refused /\ Sound(final, lastUsable), size |-> tg.size,
           lastUsable |-> lastUsable, parts |-> final]

\* The planned extent of the partition with a given slot.
Planned(plan, index) == CHOOSE pp \in Range(plan.parts) : pp.index = index

\* The k-th used slot of the boot sector that is not the extended one.
slotOf(e, k) ==
  CHOOSE s \in DOMAIN e :
    /\ Used(e[s]) /\ e[s].type # "ext"
    /\ Cardinality({t \in 1 .. s - 1 : Used(e[t]) /\ e[t].type # "ext"}) = k

applyFitMBR(plan, prim) ==
  LET e == prim[0].e
      primaries == Cardinality({s \in DOMAIN e : Used(e[s]) /\ e[s].type # "ext"})
      changed(pp) == pp.moved \/ pp.shrink \/ pp.grow
  IN IF \E pp \in Range(plan.parts) : pp.index >= primaries /\ changed(pp) THEN Refused
     ELSE [ok |-> TRUE, off |-> 0, bak |-> NoBytes,
           prim |-> [prim EXCEPT ![0].e =
             [s \in DOMAIN e |->
                IF \E k \in 0 .. primaries - 1 : slotOf(e, k) = s
                THEN LET pp == Planned(plan, CHOOSE k \in 0 .. primaries - 1 : slotOf(e, k) = s)
                     IN [e[s] EXCEPT !.first = pp.first, !.n = sizeOf(pp)]
                ELSE e[s]]]]

\* The captured tables with the plan's extents, the new last usable sector
\* and the new place of the backup, every CRC recomputed.
ApplyFit(l, plan, prim, bak) ==
  IF ~plan.ok THEN Refused
  ELSE IF l.scheme = "mbr" THEN applyFitMBR(plan, prim)
  ELSE LET h == prim[1].h
           entries == [i \in DOMAIN h.entCrc |->
             IF \E pp \in Range(plan.parts) : pp.index = i - 1
             THEN LET pp == Planned(plan, i - 1) IN
                  [h.entCrc[i] EXCEPT !.first = pp.first, !.n = sizeOf(pp)]
             ELSE h.entCrc[i]]
           sector == [k |-> "ent", e |-> entries]
           hdr == [h EXCEPT !.alt = plan.size - 1, !.last = plan.lastUsable, !.entCrc = entries]
       IN [ok |-> TRUE, off |-> plan.size - 2,
           prim |-> [prim EXCEPT ![1] = recomputeHeaderCRC(hdr), ![h.ent] = sector],
           bak |-> BackupAtEnd(hdr, sector, plan.size)]
=============================================================================
