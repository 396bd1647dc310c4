------------------------------ MODULE HashTable ------------------------------
(***************************************************************************)
(* The data structures below a lookup in the hash index                    *)
(* (core/index/hashtable.go, hashindex.go): the open-addressed table of    *)
(* one session and the sorted file it is built from.  An entry [h, l]      *)
(* leads from a chunk's hash to the location of its frame; only the 8-byte *)
(* prefix of a hash decides its slot and its place in the file.            *)
(***************************************************************************)
EXTENDS Integers, Sequences, FiniteSets, SequencesExt, FiniteSetsExt

CONSTANTS Hash,      \* the chunks' hashes: naturals, ordered as their bytes
          Prefix,    \* the value of the first eight bytes of a hash
          MinSlots,  \* the least number of slots of a table (1024)
          Segments   \* the number of segments a table is built in (htabBuildK)

ASSUME TableBounds == MinSlots \in Nat \ {0} /\ Segments \in Nat \ {0}

Entry == [h: Hash, l: Nat]
Missing == [h |-> 0, l |-> 0]  \* an empty slot; also "not found"

ByPrefix(file) == \A i, j \in DOMAIN file : i < j => Prefix[file[i].h] <= Prefix[file[j].h]

\* The files that hold these entries in the order sort.Slice may leave them.
SortedFiles(entries) == {f \in SetToSeqs(entries) : ByPrefix(f)}

(***************************************************************************)
(* The table: linear probing from the home slot.                           *)
(***************************************************************************)
NewTable(n) == [slots |-> [i \in 1 .. n |-> Missing], count |-> 0]
Size(t) == Len(t.slots)
ProbeSlot(h, n, k) == (((Prefix[h] % n) + k) % n) + 1

\* The probes that end a search: an empty slot, or the hash itself.
Stops(t, h) ==
    {k \in 0 .. Size(t) - 1 : t.slots[ProbeSlot(h, Size(t), k)].h \in {0, h}}

LookupTable(t, h) ==
    LET ends == Stops(t, h)
    IN  IF ends = {} THEN Missing ELSE t.slots[ProbeSlot(h, Size(t), Min(ends))]

\* Insert refuses above 85% of the slots, or when no probe ends.
TableFull(t, e) == t.count > (Size(t) * 85) \div 100 \/ Stops(t, e.h) = {}

Put(t, e) ==
    LET i == ProbeSlot(e.h, Size(t), Min(Stops(t, e.h)))
    IN  [slots |-> [t.slots EXCEPT ![i] = e],
         count |-> t.count + IF t.slots[i] = Missing THEN 1 ELSE 0]

ReadTable(t) ==
    LET at == [i \in 1 .. Size(t) |-> t.slots[i]]
    IN  SelectSeq(at, LAMBDA e : e # Missing)

\* growHashTable: every entry, in slot order, into a table of twice the size.
Grow(t) == FoldLeft(Put, NewTable(2 * Size(t)), ReadTable(t))

InsertGrowing(t, e) == IF TableFull(t, e) THEN Put(Grow(t), e) ELSE Put(t, e)

(***************************************************************************)
(* buildHashTable: the slots are cut into segments; a segment is filled    *)
(* with what the previous one carried over, then with its own bucket in    *)
(* order of the home slots; what the last one carries wraps to slot 0.     *)
(***************************************************************************)
Slots(file) == Max({2 * Len(file), MinSlots})
SegmentSize(n) == (n + Segments - 1) \div Segments
Home(e, n) == Prefix[e.h] % n

\* The entries of segment k, in the order of the file.
Bucketed(file, n, k) ==
    SelectSeq(file, LAMBDA e : Min({Home(e, n) \div SegmentSize(n), Segments - 1}) = k)

PlaceWithin(st, e, from, to) ==
    LET room == {i \in from .. to : st.slots[i].h \in {0, e.h}}
    IN  IF room = {} THEN [st EXCEPT !.carry = Append(@, e)]
        ELSE IF st.slots[Min(room)] # Missing THEN st
        ELSE [st EXCEPT !.slots[Min(room)] = e, !.count = @ + 1]

BuildSegment(file, n, st, k) ==
    LET first  == k * SegmentSize(n) + 1
        last   == Min({(k + 1) * SegmentSize(n), n})
        bucket == SortSeq(Bucketed(file, n, k), LAMBDA a, b : Home(a, n) < Home(b, n))
        carried == FoldLeft(LAMBDA s, e : PlaceWithin(s, e, first, last),
                            [st EXCEPT !.carry = <<>>], st.carry)
    IN  FoldLeft(LAMBDA s, e : PlaceWithin(s, e, Home(e, n) + 1, last), carried, bucket)

BuildSegments(file) ==
    LET n == Slots(file)
    IN  FoldLeft(LAMBDA st, k : BuildSegment(file, n, st, k),
                 [slots |-> NewTable(n).slots, count |-> 0, carry |-> <<>>],
                 [k \in 1 .. Segments |-> k - 1])

\* An altered form: what the last segment carries is dropped.
BuildTableWithoutWrap(file) ==
    LET built == BuildSegments(file) IN [slots |-> built.slots, count |-> built.count]

BuildTable(file) ==
    LET built   == BuildSegments(file)
        wrapped == FoldLeft(LAMBDA s, e : PlaceWithin(s, e, 1, Slots(file)),
                            [built EXCEPT !.carry = <<>>], built.carry)
    IN  [slots |-> wrapped.slots, count |-> wrapped.count]

(***************************************************************************)
(* diskLookup: the first entry of the wanted prefix by binary search, then *)
(* the run of equal prefixes.                                              *)
(***************************************************************************)
LowerBound(file, want) ==
    LET search[lo \in 0 .. Len(file), hi \in 0 .. Len(file)] ==
            IF lo >= hi THEN lo
            ELSE LET mid == (lo + hi) \div 2
                 IN  IF Prefix[file[mid + 1].h] < want THEN search[mid + 1, hi]
                     ELSE search[lo, mid]
    IN  search[0, Len(file)]

DiskLookup(file, h) ==
    LET from == LowerBound(file, Prefix[h]) + 1
        run  == {i \in from .. Len(file) :
                    \A j \in from .. i : Prefix[file[j].h] = Prefix[h]}
        hit  == {i \in run : file[i].h = h}
    IN  IF hit = {} THEN Missing ELSE file[Min(hit)]
==============================================================================
