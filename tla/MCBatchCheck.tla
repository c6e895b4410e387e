---------------------------- MODULE MCBatchCheck ----------------------------
(***************************************************************************)
(* An instance of BatchCheck for TLC.                                      *)
(***************************************************************************)
EXTENDS BatchCheck

Tuple(resource, type, target, targetType) ==
    [resource |-> <<resource>>, type |-> type, relation |-> <<"owner">>,
     target |-> <<target>>, targetType |-> targetType]

\* d1 is a doc and a folder; the candidates of a lookup have the target type "*".
Doc == Tuple("d1", "doc", "u1", "user")
Folder == Tuple("d1", "folder", "u1", "user")
Gated == Tuple("d2", "doc", "u1", "user")
GatedAny == Tuple("d2", "doc", "u1", "*")
Twice == Tuple("d3", "doc", "u1", "user")
Facts == Tuple("d4", "doc", "u1", "user")
AllRelations == {Doc, Folder, Gated, GatedAny, Twice, Facts}

PathOf(allowed, direct, trueConds, falseConds, whenFact) ==
    [allowed |-> allowed, direct |-> direct, trueConds |-> trueConds,
     falseConds |-> falseConds, whenFact |-> whenFact]

GatedPaths == { PathOf(TRUE, TRUE, {"c1"}, {}, BOOLEAN),
                PathOf(FALSE, TRUE, {}, {"c1"}, BOOLEAN) }

(***************************************************************************)
(* Twice is granted directly if c1 holds and c2 does not, and through      *)
(* another relation if both hold.  The condition c3 does not compile.      *)
(***************************************************************************)
AllPaths ==
    [r \in AllRelations |->
        CASE r = Doc -> { PathOf(TRUE, TRUE, {}, {}, BOOLEAN) }
          [] r = Folder -> { PathOf(FALSE, TRUE, {}, {}, BOOLEAN) }
          [] r \in {Gated, GatedAny} -> GatedPaths
          [] r = Twice -> { PathOf(TRUE, TRUE, {"c1"}, {"c2"}, BOOLEAN),
                            PathOf(TRUE, FALSE, {"c1", "c2"}, {}, BOOLEAN),
                            PathOf(FALSE, FALSE, {}, {"c1"}, BOOLEAN) }
          [] r = Facts -> { PathOf(TRUE, TRUE, {}, {}, {TRUE}),
                            PathOf(FALSE, TRUE, {}, {"c3"}, {FALSE}),
                            PathOf(TRUE, FALSE, {"c3"}, {}, {FALSE}) }]

SomeBatches ==
    { <<>>, <<Doc, Gated>>, <<Gated, Doc, Twice>>, <<Folder, Doc>>,
      <<Twice, Gated, Twice>>, <<Facts, Doc, Facts>>,
      <<GatedAny, Twice>>, <<Gated, GatedAny, Folder>> }

ExprOf == [c \in {"c1", "c2", "c3"} |-> IF c = "c3" THEN "empty" ELSE "valid"]

ParamsOf == [c \in {"c1", "c2", "c3"} |-> IF c = "c2" THEN {"x", "y"} ELSE {"x"}]

\* c1 and c3 ask for an x of 1, c2 compares x with y and fails if y is 0.
ProgramOf(c, values) ==
    CASE c \in {"c1", "c3"} -> IF values["x"] = 1 THEN "true" ELSE "false"
      [] c = "c2" -> IF values["y"] = 0 THEN "undecided"
                     ELSE IF values["x"] = values["y"] THEN "true" ELSE "false"

Values == 0..3
BadValues == {3}

\* Contexts without x, without y, with values that are not coerced, and complete ones.
SomeContexts ==
    { [p \in {} |-> 0], [p \in {"x"} |-> 1], [p \in {"x"} |-> 2] } \cup
    { [p \in {"x", "y"} |-> IF p = "x" THEN v ELSE w] :
        <<v, w>> \in {<<1, 1>>, <<1, 2>>, <<1, 0>>, <<3, 1>>, <<2, 2>>} }

=============================================================================
