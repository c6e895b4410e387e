----------------------- MODULE MCDirectRelationCache -----------------------
(***************************************************************************)
(* An instance of DirectRelationCache for TLC.                             *)
(***************************************************************************)
EXTENDS DirectRelationCache

Tuple(r, t, relation) ==
    [resource |-> r, target |-> t, relation |-> relation]

(***************************************************************************)
(* Two tuples of one resource and target, a tuple that shares its key with *)
(* the first (a resource is called "org:d1", another "org", and a target   *)
(* "d1:u1"), and a tuple that shares its target with the first and its     *)
(* resource with the third.                                                *)
(***************************************************************************)
FourRelations ==
    { Tuple(<<"org", "d1">>, <<"u1">>, <<"owner">>),
      Tuple(<<"org", "d1">>, <<"u1">>, <<"viewer">>),
      Tuple(<<"org">>, <<"d1", "u1">>, <<"owner">>),
      Tuple(<<"org">>, <<"u1">>, <<"owner">>) }

ASSUME TwoTuplesShareAKey == Cardinality({ key(r) : r \in FourRelations }) = 3

=============================================================================
