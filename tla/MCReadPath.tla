----------------------------- MODULE MCReadPath -----------------------------
(* Three chunks in two packs; a volume with an excluded region and repeated  *)
(* chunks; a tree of files over a stream; files of a volume; one file.        *)
EXTENDS ReadPath

MCLoc == {<<0, 0>>, <<0, 1>>, <<1, 0>>}
MCLocated == <<<<0, 0>>, <<1, 0>>, <<0, 1>>>>
MCChunkLen == <<3, 2, 1>>
MCFrameSize == [l \in MCLoc |-> MCChunkLen[CHOOSE h \in 1..3 : MCLocated[h] = l]]

\* Entries for a list of chunks laid end to end; 0 is an excluded region of 2.
LenOf(h) == IF h = 0 THEN 2 ELSE MCChunkLen[h]
Laid(hs) ==
  [i \in 1..Len(hs) |->
    [off |-> SumFunction([j \in 1..(i - 1) |-> LenOf(hs[j])]), len |-> LenOf(hs[i]),
     h |-> hs[i], ex |-> hs[i] = 0]]

Volume == Laid(<<1, 0, 2, 1, 3, 2>>)
MCCaptured == StreamOf(Volume)
Without(es, i) == SubSeq(es, 1, i - 1) \o SubSeq(es, i + 1, Len(es))

\* The entries of the capture, a list that lost one, a list with one twice, none.
MCLists == {<<Volume>>, <<Without(Volume, 3)>>, <<Volume \o <<Volume[1]>>>>, <<<< >>>>}

\* An incremental's entries followed by its parent's: the first chunk of the
\* volume was chunk 2 and something else before.
Parent == Laid(<<2, 3, 0, 2, 1, 3, 2>>)
MCChained == {<<Volume, Parent>>}

FileStream == Laid(<<1, 2, 3, 2>>)
RowOf(path, src, size, kind, regions, inline, hash) ==
  [path |-> path, src |-> src, size |-> size, kind |-> kind, regions |-> regions,
   inline |-> inline, hash |-> hash]
Region(f, v, n) == [file |-> f, vol |-> v, len |-> n]

MCRefParts == <<Laid(<<3, 1>>)>>
MCRefRows == <<RowOf("d", 1, 1, "stream", <<Region(0, 0, 1)>>, << >>, <<3>>),
               RowOf("d", 2, 3, "stream", <<Region(0, 1, 3)>>, << >>, <<1>>)>>

Tree == <<RowOf("a", 1, 3, "stream", <<Region(0, 1, 3)>>, << >>, <<1, 2>>),
          RowOf("b", 1, 4, "stream", <<Region(0, 4, 4)>>, << >>, <<2, 3, 2>>),
          RowOf("d", 2, 3, "unchanged", << >>, << >>, << >>),
          RowOf("c", 1, 0, "stream", << >>, << >>, << >>)>>
TreeContent == <<<<12, 13, 21>>, <<22, 31, 21, 22>>, <<11, 12, 13>>, << >>>>

Sparse == <<Region(0, 6, 2), Region(4, 9, 2)>>
OnVolume == <<RowOf("e", 1, 5, "extents", Sparse, << >>, ContentHash(<<Volume>>, Sparse)),
              RowOf("x", 1, 2, "excluded", <<Region(0, 3, 2)>>, << >>, << >>),
              RowOf("t", 1, 4, "extents", <<Region(0, 11, 2)>>, << >>, << >>),
              RowOf("i", 1, 1, "inline", << >>, <<71>>, << >>),
              RowOf("z", 1, 2, "extents", <<Region(0, 2, 2)>>, << >>, << >>),
              RowOf("n", 1, 3, "stream", << >>, << >>, << >>)>>
VolumeContent == <<<<22, 11, 0, 0, 13>>, << >>, <<21, 22, 0, 0>>, <<71>>, << >>, << >>>>

JobOf(kind, ps, rows, content, blocked) ==
  [kind |-> kind, parts |-> ps, rows |-> rows, content |-> content, linkBlocked |-> blocked]

MCFileJobs ==
  {JobOf("files", <<FileStream>>, Tree, TreeContent, FALSE),
   JobOf("files", <<Without(FileStream, 2)>>, Tree, TreeContent, TRUE),
   JobOf("files", <<Volume>>, OnVolume, VolumeContent, FALSE),
   JobOf("extract", <<Volume>>, SubSeq(OnVolume, 1, 1), VolumeContent, FALSE),
   JobOf("extract", <<Without(Volume, 4)>>, SubSeq(OnVolume, 1, 1), VolumeContent, FALSE),
   JobOf("extract", <<FileStream>>, SubSeq(Tree, 3, 3), SubSeq(TreeContent, 3, 3), FALSE)}
=============================================================================
