------------------------------ MODULE Retention ------------------------------
(***************************************************************************)
(* What retention decides: the keep rules of forget (core/forget) and the  *)
(* ladder of core/retention, and what each of them keeps beside its own    *)
(* choice because a kept backup needs it.  Pure: a catalog is a function   *)
(* from the ids of backups to what their manifests say.                    *)
(***************************************************************************)
EXTENDS Integers, FiniteSets

CONSTANTS Week, NinetyDays, Year  \* the tiers of the ladder, in time steps

ASSUME TierBounds == /\ {Week, NinetyDays, Year} \subseteq Nat
                     /\ Week <= NinetyDays /\ NinetyDays <= Year

\* parent and snap are 0 when there is none; data holds the backups that this
\* one's unchanged files point at (DataBackupID).
Newer(cat, a, b) ==
    \/ cat[a].at > cat[b].at
    \/ cat[a].at = cat[b].at /\ cat[a].started > cat[b].started
    \/ cat[a].at = cat[b].at /\ cat[a].started = cat[b].started /\ a < b

(***************************************************************************)
(* retention.Select.                                                       *)
(***************************************************************************)
CadenceFor(policy, age) ==
    CASE age < Week       -> policy.withinWeek
      [] age < NinetyDays -> policy.afterWeek
      [] age < Year       -> policy.after90Days
      [] OTHER            -> policy.afterYear

Completed(cat) == {b \in DOMAIN cat : cat[b].done}
Peers(cat, b) == {p \in Completed(cat) : cat[p].src = cat[b].src}

NewestOfSource(cat) ==
    {b \in Completed(cat) : \A p \in Peers(cat, b) \ {b} : Newer(cat, b, p)}

Bucket(policy, age) ==
    LET cadence == CadenceFor(policy, age) IN <<cadence, age \div cadence>>

\* The newest of every bucket of a source; no cadence, no bucket.
Ladder(cat, policy, now) ==
    LET age(b) == now - cat[b].at
    IN  {b \in Completed(cat) :
            \/ CadenceFor(policy, age(b)) = 0
            \/ \A p \in Peers(cat, b) \ {b} :
                  CadenceFor(policy, age(p)) > 0 /\ Bucket(policy, age(p)) = Bucket(policy, age(b))
                      => Newer(cat, b, p)}

Siblings(cat, b) == {s \in DOMAIN cat : cat[b].snap # 0 /\ cat[s].snap = cat[b].snap}

\* The least set around the chosen ones that needs does not leave: needs[b] is
\* what b asks for, whether it is there or not.
LeastClosed(chosen, all, needs) ==
    {b \in all : \A set \in SUBSET all :
        chosen \subseteq set /\ (\A x \in set : needs[x] \cap all \subseteq set) => b \in set}

\* An altered form: siblings are added once, before the ancestors.
SelectOnce(cat, policy, now) ==
    LET chosen == (DOMAIN cat \ Completed(cat)) \cup NewestOfSource(cat) \cup Ladder(cat, policy, now)
        whole  == chosen \cup UNION {Siblings(cat, b) : b \in chosen}
    IN  DOMAIN cat \ LeastClosed(whole, DOMAIN cat, [b \in DOMAIN cat |-> {cat[b].parent}])

\* The set of backups to forget.
Select(cat, policy, now) ==
    LET chosen == (DOMAIN cat \ Completed(cat)) \cup NewestOfSource(cat) \cup Ladder(cat, policy, now)
        kept   == LeastClosed(chosen, DOMAIN cat,
                              [b \in DOMAIN cat |-> {cat[b].parent} \cup Siblings(cat, b)])
    IN  DOMAIN cat \ kept

(***************************************************************************)
(* forget: keep the last n, the newest of each of the last n periods, and  *)
(* what lies within a window; then whatever these refer to (Protect).      *)
(***************************************************************************)
MoreRecent(cat, a, b) == cat[a].at > cat[b].at \/ (cat[a].at = cat[b].at /\ a > b)

PolicyKeepsNothing(policy) ==
    policy.last = 0 /\ (\A p \in DOMAIN policy.periods : policy.periods[p] = 0) /\ policy.within = 0

\* The first n of a set of backups, the most recent first.
MostRecent(cat, set, n) ==
    {b \in set : Cardinality({c \in set : MoreRecent(cat, c, b)}) < n}

\* The newest backup of every period of length p: no more recent one is in it.
NewestOfPeriod(cat, p) ==
    {b \in DOMAIN cat : \A c \in DOMAIN cat :
        MoreRecent(cat, c, b) => cat[c].at \div p # cat[b].at \div p}

\* policy.periods gives, for the length of a period, how many of them to keep.
SelectByPolicy(cat, policy, now) ==
    LET within == {b \in DOMAIN cat : policy.within > 0 /\ cat[b].at >= now - policy.within}
    IN  MostRecent(cat, DOMAIN cat, policy.last) \cup within
          \cup UNION {MostRecent(cat, NewestOfPeriod(cat, p), policy.periods[p]) :
                          p \in DOMAIN policy.periods}

ReferenceEdges(meta) == (IF meta.parent = 0 THEN {} ELSE {meta.parent}) \cup meta.data

\* References to backups that are gone are noted and skipped.
Protect(cat, keep) == LeastClosed(keep, DOMAIN cat, [b \in DOMAIN cat |-> ReferenceEdges(cat[b])])
==============================================================================
