------------------------------- MODULE ChunkMap -------------------------------
(***************************************************************************)
(* What the dedup index promises: it is a map from hashes to locations.    *)
(* A session sees the durable map and its own inserts; a flush makes them  *)
(* durable; however a session ends, no chunk that a completed flush        *)
(* recorded is forgotten.                                                  *)
(***************************************************************************)
EXTENDS Naturals

CONSTANTS Hash, Loc  \* Loc: the locations, numbers above 0

VARIABLES durable,  \* what the next open will find
          flushed,  \* what the last completed flush recorded
          open,     \* whether there is a session
          session   \* what its lookups answer

vars == <<open, flushed, durable, session>>

Unknown == [h \in Hash |-> 0]  \* location 0: no entry

Init == durable = Unknown /\ flushed = Unknown /\ ~open /\ session = Unknown

Open == open' /\ session' = durable /\ UNCHANGED <<durable, flushed>>

\* An open that is refused drops what a cut flush had written.
Refuse == durable' = flushed /\ UNCHANGED <<open, flushed, session>>

\* Another writer's entries arrive as a delta: chunks appear, or move.
Learn ==
    /\ UNCHANGED <<open, session>>
    /\ LET old == durable
           new == durable'
       IN  \A h \in Hash :
              /\ new[h] \in Loc \cup {0} /\ (old[h] # 0 => new[h] # 0)
              /\ flushed'[h] \in IF new[h] = old[h] THEN {flushed[h], old[h]} ELSE {new[h]}

Insert ==
    /\ open' /\ UNCHANGED <<flushed, durable>>
    /\ LET old == session
           new == session'
       IN  \E h \in Hash : new[h] \in Loc /\ \A g \in Hash \ {h} : new[g] = old[g]

\* The rename, or the encryption, that makes the session's map the durable one.
Write == open' /\ UNCHANGED <<flushed, session>> /\ durable' = session

\* A flush returns.
Complete == open' /\ UNCHANGED session /\ flushed' = session /\ durable' = session

\* Closed, discarded or killed; a discard may drop what a cut flush had written.
End == /\ ~open' /\ session' = Unknown
       /\ durable' \in {durable, flushed} /\ UNCHANGED flushed

\* Most steps of an implementation leave the map alone.
Next == \/ UNCHANGED vars
        \/ IF open THEN Insert \/ Write \/ Complete \/ End ELSE Open \/ Refuse \/ Learn

Spec == Init /\ [][Next]_vars
==============================================================================
