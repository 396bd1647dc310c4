------------------------------- MODULE Catalog -------------------------------
(***************************************************************************)
(* What a backup repository promises: a backup that is listed can be       *)
(* restored, from the step that saves it to the step that forgets it.  No  *)
(* other command, and no crash, changes either set.                        *)
(***************************************************************************)
CONSTANT Hash

VARIABLES listed, restorable

vars == <<listed, restorable>>

Init == listed = {} /\ restorable = {}

Save(m) ==
    /\ listed' = listed \cup {m}
    /\ restorable' = restorable \cup {m}

Forget(m) ==
    /\ listed' = listed \ {m}
    /\ restorable' = restorable \ {m}

Next == \E m \in SUBSET Hash : Save(m) \/ Forget(m)

Spec == Init /\ [][Next]_vars
=============================================================================
