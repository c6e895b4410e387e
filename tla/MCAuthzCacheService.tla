------------------------- MODULE MCAuthzCacheService -------------------------
(***************************************************************************)
(* Instances of AuthzCacheService for TLC.                                 *)
(***************************************************************************)
EXTENDS AuthzCacheService, TLC

D1OfU1 == [resource |-> <<"d1">>, target |-> <<"u1">>, relation |-> <<"owner">>]
OneRelation == {D1OfU1}

Singletons == { {r} : r \in Relations }

(***************************************************************************)
(* Two tuples with one key, as owner of org:d1 is u1 and owner of org is   *)
(* d1:u1, and one that shares its resource with the second and its target  *)
(* with the first.                                                         *)
(***************************************************************************)
OrgD1OfU1 == [resource |-> <<"org", "d1">>, target |-> <<"u1">>, relation |-> <<"owner">>]
OrgOfD1U1 == [resource |-> <<"org">>, target |-> <<"d1", "u1">>, relation |-> <<"owner">>]
OrgOfU1 == [resource |-> <<"org">>, target |-> <<"u1">>, relation |-> <<"owner">>]
SharingAKey == {OrgD1OfU1, OrgOfD1U1, OrgOfU1}

\* Requests are about the first tuple, or about the other two.
FirstOrOthers == { {OrgD1OfU1}, {OrgOfD1U1, OrgOfU1} }

\* Others change the target of the first and the third.
TargetU1 == { [resources |-> {}, targets |-> {<<"u1">>}, schemaChanged |-> FALSE] }

\* Others change the resource d1, the target u1, or the schema.
ResourceTargetOrSchema ==
    { [resources |-> {<<"d1">>}, targets |-> {}, schemaChanged |-> FALSE],
      [resources |-> {}, targets |-> {<<"u1">>}, schemaChanged |-> FALSE],
      SchemaChange }

\* Others change the tuple, or the schema.
TupleOrSchema == {RelationChange(Relations), SchemaChange}

Shape(direct, conditional, conds) ==
    [direct |-> direct, conditional |-> conditional, factUsed |-> FALSE,
     missing |-> FALSE, conds |-> conds]

UnconditionalResults == {Shape(TRUE, FALSE, {}), Shape(FALSE, FALSE, {})}

\* A plain result and one that makes the Check look for the schema.
PlainAndConditional == {Shape(TRUE, FALSE, {}), Shape(FALSE, TRUE, Conditions)}

(***************************************************************************)
(* A plain result, conditional ones with a certificate that can be         *)
(* re-evaluated here and with one that cannot, and conditional results     *)
(* that used a fact or lacked a parameter.                                 *)
(***************************************************************************)
ConditionalResults ==
    { Shape(TRUE, FALSE, {}),
      Shape(FALSE, TRUE, Conditions \ Uncompilable),
      Shape(TRUE, TRUE, Conditions),
      [Shape(FALSE, TRUE, Conditions \ Uncompilable) EXCEPT !.factUsed = TRUE],
      [Shape(TRUE, TRUE, Conditions \ Uncompilable) EXCEPT !.missing = TRUE] }

Symmetry == Permutations(Requests)

=============================================================================
