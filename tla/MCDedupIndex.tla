---------------------------- MODULE MCDedupIndex ----------------------------
(***************************************************************************)
(* Three chunks, two of which share a hash prefix; the bits of the third   *)
(* are covered by those of the other two.  Tables start with one slot, so  *)
(* probes collide, wrap around and tables grow.                            *)
(***************************************************************************)
EXTENDS DedupIndex

MCPrefix == <<3, 3, 1>>
MCBits == <<{1, 2}, {2, 3}, {1, 3}>>
=============================================================================
