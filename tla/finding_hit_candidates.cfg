CONSTANTS
    Projects = {p1, p2}
    Check = Check
    WhoCanAccess = WhoCanAccess
    APIs = {Check, WhoCanAccess}
    Calls = {c1, c2, c3}
    Outcomes <- RecordedOutcomes
    MaxInt64 = 99
    NoMetrics = NoMetrics
    NoAggregate = NoAggregate
    NoCall = NoCall
SPECIFICATION Spec
INVARIANT HitCandidatesAreOfHits
