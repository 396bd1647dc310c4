---------------------------- MODULE MCCheckpoint ----------------------------
(***************************************************************************)
(* Checkpoint on one source of six chunks: one of them repeated, one     *)
(* known from an earlier backup, enough new ones to seal two packs.        *)
(***************************************************************************)
EXTENDS Checkpoint

CONSTANTS a, b, c, d, e

SourceChunks == <<a, b, c, a, d, e>>
EarlierChunks == <<b>>

\* Power losses that tear what is being written, interrupts at any time, errors.
Harsh == [managed : BOOLEAN, kill : {FALSE}, tornSegment : {TRUE},
          tornPack : {TRUE}, early : {TRUE}, fail : {TRUE}]
\* Kills, power losses between writes, interrupts after a seal.
Gentle == [managed : BOOLEAN, kill : {TRUE}, tornSegment : {FALSE},
           tornPack : {FALSE}, early : {FALSE}, fail : {FALSE}]
AllWorlds == Harsh \cup Gentle

\* A managed repository whose segment a power loss may tear.
TornManaged == [managed : {TRUE}, kill : {FALSE}, tornSegment : {TRUE},
                tornPack : {FALSE}, early : {FALSE}, fail : {FALSE}]
=============================================================================
