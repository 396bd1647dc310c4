------------------------------- MODULE Entries -------------------------------
(***************************************************************************)
(* The entries of a backup and how readers address them                    *)
(* (core/manifest/entry_accessor.go, entry_chain.go, contenthash.go).      *)
(*                                                                         *)
(* An entry is [off, len, h, ex]: its place in the stream, its length, its *)
(* chunk's hash, and whether it was excluded from the capture.  Indices    *)
(* are those of the code, from 0.  Byte j of chunk h is 10 * h + j, and a  *)
(* zero byte is 0, so that a byte tells where it came from.                *)
(***************************************************************************)
EXTENDS Integers, Sequences, SequencesExt

ChunkBytes(h, len) == [j \in 1..len |-> 10 * h + j]
Zeros(len) == [j \in 1..len |-> 0]

\* What an entry stands for in the captured stream.
EntryBytes(e) == IF e.ex THEN Zeros(e.len) ELSE ChunkBytes(e.h, e.len)

\* The stream a list of entries describes.
StreamOf(es) == FlattenSeq([i \in 1..Len(es) |-> EntryBytes(es[i])])

-----------------------------------------------------------------------------
\* chainEntryAccessor: several lists presented as one, in order.
Count(parts) == SumFunction([i \in 1..Len(parts) |-> Len(parts[i])])

\* The index at which each part starts.
Starts(parts) == [i \in 1..Len(parts) |-> Count(SubSeq(parts, 1, i - 1))]

\* part: the part that holds index i, by binary search on the starts.
PartOf(parts, i) ==
  LET starts == Starts(parts)
      find[lo \in 1..Len(parts), hi \in 0..Len(parts)] ==
        IF lo >= hi THEN lo
        ELSE LET mid == (lo + hi + 1) \div 2
             IN  IF starts[mid] <= i THEN find[mid, hi] ELSE find[lo, mid - 1]
  IN  find[1, Len(parts)]

\* At: entry i of the chain.
At(parts, i) ==
  LET p == PartOf(parts, i) IN parts[p][i - Starts(parts)[p] + 1]

\* Range: entries lo to hi - 1 of the chain, taken across the parts.
EntryRange(parts, lo, hi) == SubSeq(FlattenSeq(parts), lo + 1, hi)

-----------------------------------------------------------------------------
\* The first index at which Before no longer holds, by halving the interval.
FirstNot(parts, Before(_)) ==
  LET n == Count(parts)
      find[lo \in 0..n, hi \in 0..n] ==
        IF lo >= hi THEN lo
        ELSE LET mid == (lo + hi) \div 2
             IN  IF Before(At(parts, mid)) THEN find[mid + 1, hi] ELSE find[lo, mid]
  IN  find[0, n]

\* An altered form: the chunk that straddles the target is passed over.
SearchEntriesPast(parts, target) ==
  LET Before(e) == e.off < target IN FirstNot(parts, Before)

SearchEntries(parts, target) ==
  LET Before(e) == e.off + e.len <= target IN FirstNot(parts, Before)

SearchEntriesEnd(parts, target) ==
  LET Before(e) == e.off < target IN FirstNot(parts, Before)

\* The entries a reader visits for the region [from, to) of the stream.
Covering(parts, from, to) ==
  EntryRange(parts, SearchEntries(parts, from), SearchEntriesEnd(parts, to))

\* ComputeContentHashesForFile and -ForVolumeFile: the chunk hashes over a
\* file's regions; a stream file is one region.  The empty hash list stands
\* for a row without a content hash.
ContentHash(parts, regions) ==
  FlattenSeq([r \in 1..Len(regions) |->
    LET es == Covering(parts, regions[r].vol, regions[r].vol + regions[r].len)
    IN  [i \in 1..Len(es) |-> es[i].h]])
=============================================================================
