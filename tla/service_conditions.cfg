CONSTANTS
    Relations <- OneRelation
    DirectCacheSize = 1
    IndirectCacheSize = 1
    PurgeCooldown = FALSE
    Conditions = {c1, c2}
    Uncompilable = {c2}
    TimerIds = {}
    Requests = {q1, q2}
    Batches <- Singletons
    Results <- ConditionalResults
    OthersChanges <- ResourceTargetOrSchema
    MaxChanges = 2
    ClockLags = {0}
    NoSchema = NoSchema
    NoGrant = NoGrant
    NoTimer = NoTimer
    Unlocked = Unlocked
    NoReply = NoReply
SPECIFICATION Spec
INVARIANT CertificatesMatchLoadedSchema
PROPERTIES SchemaChangeUnloadsSchema CoherentSpec
