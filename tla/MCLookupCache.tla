---------------------------- MODULE MCLookupCache ----------------------------
(***************************************************************************)
(* An instance of LookupCache for TLC.                                     *)
(***************************************************************************)
EXTENDS LookupCache

Tuple(resource, target) ==
    [resource |-> resource, relation |-> <<"viewer">>, namespace |-> <<"doc">>,
     target |-> target]

(***************************************************************************)
(* Two resources of one target.  One of them is called "org:d1"; the other *)
(* is "d2|x", whose encoded candidate is read back as another one.         *)
(***************************************************************************)
OrgD1 == Tuple(<<"org", ":", "d1">>, <<"u1">>)
ColonAndPipe == {OrgD1, Tuple(<<"d2", "|", "x">>, <<"u1">>)}

=============================================================================
