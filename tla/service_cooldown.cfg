CONSTANTS
    Relations <- OneRelation
    DirectCacheSize = 1
    IndirectCacheSize = 1
    PurgeCooldown = TRUE
    Conditions = {c1}
    Uncompilable = {}
    TimerIds = {t1, t2}
    Requests = {q1}
    Batches <- Singletons
    Results <- PlainAndConditional
    OthersChanges <- TupleOrSchema
    MaxChanges = 2
    ClockLags = {0, 1}
    NoSchema = NoSchema
    NoGrant = NoGrant
    NoTimer = NoTimer
    Unlocked = Unlocked
    NoReply = NoReply
SPECIFICATION FairSpec
INVARIANTS TrackedGrantsAreFresh PendingChangesAreReported CooldownHasTimer
PROPERTIES EveryChangeIsApplied RequestsFinish
