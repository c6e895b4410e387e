CONSTANTS
    Projects = {p1, empty}
    EmptyProjectID = empty
    Requests = {q1, q2}
    MaxChanges = 3
    NoCache = NoCache
    NoGrant = NoGrant
SPECIFICATION Spec
SYMMETRY RequestSymmetry
INVARIANTS TypeOK RegisteredCacheIsPolled PollersAreBounded
PROPERTY OnlyLateAnswersGoUnnoticed
