----------------------------- MODULE MCPipeline -----------------------------
(***************************************************************************)
(* Pipeline with two hash workers.                                         *)
(***************************************************************************)
EXTENDS Pipeline

CONSTANTS w1, w2
=============================================================================
