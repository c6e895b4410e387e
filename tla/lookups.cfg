CONSTANTS
    Relations <- ColonAndPipe
    LookupSize = 2
    TTL = 2
    MaxResult = 1
    Lookups = {q1}
    Writes = {w1}
    Observed <- OrgD1
    MaxTime = 3
    NoEntry = NoEntry
    NoQuery = NoQuery
    Never = Never
SPECIFICATION Spec
INVARIANTS TypeOK OmissionsEndWithTTL CreatedAreCandidates
