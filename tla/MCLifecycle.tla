----------------------------- MODULE MCLifecycle -----------------------------
(***************************************************************************)
(* Two keep rules of forget (the last one; one per period of two steps and *)
(* a window), one ladder, and the archive of another repository, whose     *)
(* frames are under another key.  A week is one step.                      *)
(***************************************************************************)
EXTENDS Lifecycle

MCForgetPolicies ==
    {[last |-> 1, periods |-> <<0, 0>>, within |-> 0],
     [last |-> 0, periods |-> <<0, 1>>, within |-> 1]}

MCRetainPolicies ==
    {[withinWeek |-> 1, afterWeek |-> 2, after90Days |-> 0, afterYear |-> 3]}

MCForeign ==
    {[whole  |-> TRUE,
      cat    |-> [b \in {4} |-> [src |-> "s", at |-> 0, started |-> 0, parent |-> 0, data |-> {},
                                snap |-> 0, done |-> TRUE]],
      frames |-> {[h |-> 0, key |-> "other"], [h |-> 4, key |-> "other"]}]}
==============================================================================
