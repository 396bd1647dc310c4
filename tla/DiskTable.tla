----------------------------- MODULE DiskTable -----------------------------
(***************************************************************************)
(* Partition tables (core/disklayout): what Parse reads from a disk, and   *)
(* how RelocateGPT adapts the captured tables to a larger drive.           *)
(*                                                                         *)
(* A disk is a function from sector numbers to sector contents; a content  *)
(* is a record whose field k says what it is.  A CRC is modelled by what   *)
(* it was computed over: a header carries a copy of its own fields (crc)   *)
(* and of the entry array (entCrc), and is valid while they agree.  The    *)
(* entry array takes one sector.  GUIDs, names and attributes are never    *)
(* changed and are left out.                                               *)
(***************************************************************************)
EXTENDS Integers, Sequences, FiniteSets, SequencesExt

CONSTANT MaxLogicals

Zero == [k |-> "zero"]
Stale == [k |-> "stale"]
Protective == [k |-> "pmbr"]
NoBytes == [i \in {} |-> Zero]

NoSlot == [type |-> "empty", first |-> 0, n |-> 0]
NotParsed ==
  [scheme |-> "none", size |-> 0, firstUsable |-> 0, alt |-> 0, parts |-> <<>>, aux |-> <<>>,
   prim |-> [off |-> 0, len |-> 0], bak |-> [off |-> 0, len |-> 0]]

\* A sector of a header whose CRC has just been recomputed.
recomputeHeaderCRC(h) == [k |-> "hdr", h |-> h, crc |-> h]

Region(d, r) == [i \in 0 .. r.len - 1 |-> d[r.off + i]]

Used(slot) == slot.type # "empty" /\ slot.n # 0
LastOf(slot) == slot.first + slot.n - 1

\* The GPT of a disk of n sectors: LBA 0 signed, the header and the entry
\* array intact, every partition inside the disk, the backup inside it too.
ParseWithSector(d, n) ==
  IF ~ /\ n >= 3
       /\ d[0].k \in {"pmbr", "mbr"}
       /\ d[1].k = "hdr"
       /\ d[1].crc = d[1].h
       /\ d[1].h.my = 1
       /\ d[1].h.ent \in DOMAIN d
       /\ d[d[1].h.ent].k = "ent"
       /\ d[d[1].h.ent].e = d[1].h.entCrc
       /\ \A i \in DOMAIN d[1].h.entCrc :
            LET slot == d[1].h.entCrc[i] IN
            slot.type # "empty" => slot.n > 0 /\ LastOf(slot) < n
       /\ d[1].h.alt - 1 >= 0 /\ d[1].h.alt < n
  THEN NotParsed
  ELSE LET h == d[1].h
           slots == [i \in DOMAIN h.entCrc |->
                      [index |-> i - 1, type |-> h.entCrc[i].type,
                       first |-> h.entCrc[i].first, last |-> LastOf(h.entCrc[i])]]
       IN [scheme |-> "gpt", size |-> n, firstUsable |-> h.first, alt |-> h.alt,
           parts |-> SelectSeq(slots, LAMBDA p : p.type # "empty"),
           aux |-> <<>>,
           prim |-> [off |-> 0, len |-> h.ent + 1],
           bak |-> [off |-> h.alt - 1, len |-> 2]]

\* The EBR chain from the start of the extended partition: the LBAs of the
\* EBRs in order, or ok = FALSE for a chain that leaves the disk, meets an
\* unsigned sector or has more links than MaxLogicals.
walkEBRChain(d, n, ext) ==
  LET step(st, i) ==
        IF st.end \/ ~st.ok THEN st
        ELSE IF st.at >= n \/ d[st.at].k # "ebr" THEN [st EXCEPT !.ok = FALSE]
        ELSE [st EXCEPT !.ebrs = Append(@, st.at),
                        !.end = ~Used(d[st.at].next),
                        !.at = ext + d[st.at].next.first]
      walked == FoldLeft(step, [ok |-> TRUE, end |-> FALSE, at |-> ext, ebrs |-> <<>>],
                         [i \in 1 .. MaxLogicals |-> i])
  IN [ok |-> walked.ok /\ walked.end, ebrs |-> walked.ebrs]

\* Primaries in slot order, then the logicals the chain names; the boot track
\* reaches to the first partition.  FirstUsableLBA is never set: it stays 0.
parseMBR(d, n) ==
  LET slots == SelectSeq(d[0].e, LAMBDA s : Used(s))
      prims == SelectSeq(slots, LAMBDA s : s.type # "ext")
      exts == SelectSeq(slots, LAMBDA s : s.type = "ext")
      chain == IF exts = <<>> THEN [ok |-> TRUE, ebrs |-> <<>>]
               ELSE walkEBRChain(d, n, exts[1].first)
      logs == SelectSeq([i \in DOMAIN chain.ebrs |->
                           [d[chain.ebrs[i]].log EXCEPT !.first = chain.ebrs[i] + @]],
                        LAMBDA s : Used(s))
      all == prims \o logs
  IN IF Len(exts) > 1 \/ slots = <<>> \/ ~chain.ok THEN NotParsed
     ELSE [scheme |-> "mbr", size |-> n, firstUsable |-> 0, alt |-> 0,
           parts |-> [i \in DOMAIN all |->
                        [index |-> i - 1, type |-> all[i].type,
                         first |-> all[i].first, last |-> LastOf(all[i])]],
           aux |-> chain.ebrs,
           prim |-> [off |-> 0,
                     len |-> CHOOSE f \in {slots[i].first : i \in DOMAIN slots} :
                               \A i \in DOMAIN slots : f <= slots[i].first],
           bak |-> [off |-> 0, len |-> 0]]

\* A GPT if there is a valid one, else a real MBR table.  A protective entry
\* without a valid GPT is an error.
Parse(d, n) ==
  LET gpt == ParseWithSector(d, n) IN
  IF gpt # NotParsed THEN gpt
  ELSE IF d[0].k = "mbr" /\ \E i \in DOMAIN d[0].e : Used(d[0].e[i]) THEN parseMBR(d, n)
  ELSE NotParsed

VerifyBackupHeader(l, d) ==
  /\ l.alt \in DOMAIN d
  /\ d[l.alt].k = "hdr"
  /\ d[l.alt].crc = d[l.alt].h

Refused == [ok |-> FALSE]

\* The backup structures of a drive of n sectors: the entries, then a header
\* rebuilt from the primary one with the roles swapped.
BackupAtEnd(h, entries, n) ==
  [i \in 0 .. 1 |->
     IF i = 0 THEN entries
     ELSE recomputeHeaderCRC([h EXCEPT !.my = n - 1, !.alt = 1, !.ent = n - 2])]

\* Altered form: the primary header keeps naming the old backup.
RelocateGPTStale(l, prim, bak, n) ==
  IF l.scheme = "mbr" THEN [ok |-> TRUE, prim |-> prim, off |-> 0, bak |-> NoBytes]
  ELSE IF n < l.size THEN Refused
  ELSE [ok |-> TRUE, prim |-> prim, off |-> n - 2, bak |-> BackupAtEnd(prim[1].h, bak[0], n)]

\* The captured tables for a target of n sectors: verbatim on the same size,
\* the backup moved to the new end on a larger one; never a smaller one.
RelocateGPT(l, prim, bak, n) ==
  IF l.scheme = "mbr" THEN [ok |-> TRUE, prim |-> prim, off |-> 0, bak |-> NoBytes]
  ELSE IF n < l.size THEN Refused
  ELSE IF n = l.size THEN [ok |-> TRUE, prim |-> prim, off |-> l.bak.off, bak |-> bak]
  ELSE LET h == [prim[1].h EXCEPT !.alt = n - 1] IN
       [ok |-> TRUE, prim |-> [prim EXCEPT ![1] = recomputeHeaderCRC(h)],
        off |-> n - 2, bak |-> BackupAtEnd(h, bak[0], n)]
=============================================================================
