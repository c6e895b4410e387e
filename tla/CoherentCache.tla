--------------------------- MODULE CoherentCache ---------------------------
(***************************************************************************)
(* What the edge cache promises to those who ask it: a grant that is       *)
(* served was true at some time in the past, and no change that the cache  *)
(* has acknowledged since it took the grant has outdated it.  The cache    *)
(* may forget any grant at any time.  It does not promise that a grant is  *)
(* as new as the last acknowledged change: an answer that was under way    *)
(* when the change was acknowledged may still be taken.                    *)
(***************************************************************************)
EXTENDS FGARelation, Integers

VARIABLES
    history,        \* the changes of the backend, in order
    acknowledged,   \* the positions of the changes the cache knows of
    grants          \* the grants that the cache may serve

Change == [resources : SUBSET Resources, targets : SUBSET Targets,
           schemaChanged : BOOLEAN]

\* asOf is the number of changes that the decision of the backend took into account.
Grant == [relation : Relations, direct : BOOLEAN, asOf : Nat]

\* A direct grant depends on its own resource and target, an indirect one on any.
Outdates(i, g) ==
    /\ i > g.asOf
    /\ \/ history[i].schemaChanged
       \/ ~ g.direct
       \/ g.relation.resource \in history[i].resources
       \/ g.relation.target \in history[i].targets

Init ==
    /\ history = <<>>
    /\ acknowledged = {}
    /\ grants = {}

Happens ==
    /\ \E c \in Change : history' = Append(history, c)
    /\ UNCHANGED <<acknowledged, grants>>

\* Grants are learnt from the past, or forgotten; nothing is acknowledged.
Learns ==
    /\ \A g \in grants' \ grants : g \in Grant /\ g.asOf <= Len(history)
    /\ UNCHANGED <<history, acknowledged>>

\* What the newly acknowledged changes outdate is forgotten, and nothing is learnt.
Acknowledges ==
    /\ acknowledged \subseteq acknowledged'
    /\ acknowledged' \subseteq 1..Len(history)
    /\ grants' \subseteq grants
    /\ \A i \in acknowledged' \ acknowledged, g \in grants' : ~ Outdates(i, g)
    /\ UNCHANGED history

Next == Happens \/ Learns \/ Acknowledges

Spec == Init /\ [][Next]_<<history, acknowledged, grants>>

=============================================================================
