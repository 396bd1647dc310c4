------------------------------- MODULE MCRepo -------------------------------
(* Instance of Repo for TLC: two chunk hashes. *)
EXTENDS Repo

CONSTANTS a, b
=============================================================================
