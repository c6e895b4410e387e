---------------------------- MODULE FGARelation ----------------------------
(***************************************************************************)
(* The relation tuples of a fine-grained authorization request and the     *)
(* cache key the edge cache derives from them.                             *)
(*                                                                         *)
(* A resource, a target and a relation name are strings.  The only thing   *)
(* the code ever does with them is to compare them and to join them with   *)
(* colons, so a string is represented by the sequence of its colon-free    *)
(* segments: "doc1" is <<"doc1">> and "org:r1" is <<"org", "r1">>.  The    *)
(* Go expression a + ":" + b is then exactly a \o b, including the case in *)
(* which two different tuples produce the same string.                     *)
(***************************************************************************)
EXTENDS Sequences

CONSTANT
    Relations   \* the tuples that occur, records with the fields of [resource, target, relation]

(***************************************************************************)
(* Key of a tuple in both relation caches.  ResourceType and TargetType    *)
(* are not part of it.                                                     *)
(***************************************************************************)
key(r) == r.resource \o r.target \o r.relation

Keys == { key(r) : r \in Relations }
Resources == { r.resource : r \in Relations }
Targets == { r.target : r \in Relations }

(***************************************************************************)
(* Tuples with the same key have the same resource and target, so that a   *)
(* key says what it is about.  Identifiers with colons can break this: the *)
(* code and the results below live without it.                             *)
(***************************************************************************)
KeysIdentifyPlaces ==
    \A r, s \in Relations :
        key(r) = key(s) => r.resource = s.resource /\ r.target = s.target

=============================================================================
