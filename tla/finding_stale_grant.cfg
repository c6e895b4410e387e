CONSTANTS
    Relations <- OneRelation
    DirectCacheSize = 2
    IndirectCacheSize = 1
    PurgeCooldown = FALSE
    Conditions = {}
    Uncompilable = {}
    TimerIds = {}
    Requests = {q1}
    Batches <- Singletons
    Results <- UnconditionalResults
    OthersChanges <- ResourceTargetOrSchema
    MaxChanges = 2
    ClockLags = {0}
    NoSchema = NoSchema
    NoGrant = NoGrant
    NoTimer = NoTimer
    Unlocked = Unlocked
    NoReply = NoReply
SPECIFICATION Spec
INVARIANT FreshAsOfLastPoll
