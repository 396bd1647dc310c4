---------------------------- MODULE OrderedBackup ----------------------------
(***************************************************************************)
(* A backup as its caller sees it: chunks 1 .. N of the source are         *)
(* recorded in order, and the backup is saved only when all of them are,   *)
(* or after an interrupt.  It may fail or be suspended at any time.        *)
(***************************************************************************)
EXTENDS Naturals

CONSTANT N

VARIABLES recorded, interrupted, verdict

vars == <<recorded, interrupted, verdict>>

Init == recorded = 0 /\ ~interrupted /\ verdict = "none"

Record ==
    /\ verdict = "none" /\ recorded < N
    /\ recorded' = recorded + 1
    /\ UNCHANGED <<interrupted, verdict>>

Save ==
    /\ verdict = "none" /\ (recorded = N \/ interrupted)
    /\ verdict' = "saved"
    /\ UNCHANGED <<recorded, interrupted>>

Stop ==
    /\ verdict = "none"
    /\ verdict' \in {"failed", "suspended"}
    /\ UNCHANGED <<recorded, interrupted>>

Interrupt ==
    /\ interrupted' = TRUE
    /\ UNCHANGED <<recorded, verdict>>

Next == Record \/ Save \/ Stop \/ Interrupt

Spec == Init /\ [][Next]_vars
=============================================================================
