----------------------------- MODULE SweptStore -----------------------------
(***************************************************************************)
(* What the direct relation cache promises to the rest of the edge cache:  *)
(* a bounded set of entries, one for each key, from which an entry may be  *)
(* evicted only to make room for one with another key, and from which      *)
(* every entry of a changed resource or a changed target is removed.  No   *)
(* other entry is removed with them, unless it shares its key with a tuple *)
(* of a changed resource or target.                                        *)
(***************************************************************************)
EXTENDS FGARelation, Naturals, FiniteSets

CONSTANT Capacity

VARIABLE entries

\* What is stored of a tuple: its key, and what the sweeps know it by.
Entry(r) == [key |-> key(r), resource |-> r.resource, target |-> r.target]

Init == entries = {}

KeysOf(E) == { e.key : e \in E }

(***************************************************************************)
(* Store the tuples, one after the other.  The last of them with a key     *)
(* takes the place of the entry of that key.  Where there is no room for   *)
(* all, entries leave the full store, the new ones after the old ones.     *)
(***************************************************************************)
Put(rels) ==
    LET new == { key(r) : r \in rels }
        all == KeysOf(entries) \cup new
        kept == KeysOf(entries')
    IN  /\ \A e \in entries' : \/ e \in entries /\ e.key \notin new
                               \/ \E r \in rels : e = Entry(r)
        /\ \A e, f \in entries' : e.key = f.key => e = f
        /\ \/ kept = all /\ Cardinality(all) <= Capacity
           \/ Cardinality(kept) = Capacity
        /\ new \subseteq kept \/ kept \subseteq new

\* Does a change of the resources R and the targets T concern the tuple or entry e?
Concerns(R, T, e) == e.resource \in R \/ e.target \in T

\* What a sweep has to remove, and what it may remove.
Swept(R, T) == { e \in entries : Concerns(R, T, e) }

Reached(R, T) ==
    { e \in entries : \E r \in Relations : e.key = key(r) /\ Concerns(R, T, r) }

Sweep(R, T) ==
    \E gone \in SUBSET Reached(R, T) :
        Swept(R, T) \subseteq gone /\ entries' = entries \ gone

Clear == entries' = {}

Next ==
    \/ \E rels \in SUBSET Relations : Put(rels)
    \/ \E R \in SUBSET Resources, T \in SUBSET Targets : Sweep(R, T)
    \/ Clear

Spec == Init /\ [][Next]_entries

=============================================================================
