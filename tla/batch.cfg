CONSTANTS
    Relations <- AllRelations
    Batches <- SomeBatches
    Conditions = {"c1", "c2", "c3"}
    CheckedExpr <- ExprOf
    Params <- ParamsOf
    Contexts <- SomeContexts
    Mistyped <- BadValues
    Program <- ProgramOf
    Paths <- AllPaths
    NoGrant = NoGrant
SPECIFICATION Spec
INVARIANTS TypeOK EveryRelationGetsItsResult AnswersAreTheBackends CandidatesAreVerified
