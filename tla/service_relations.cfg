CONSTANTS
    Relations <- SharingAKey
    DirectCacheSize = 1
    IndirectCacheSize = 2
    PurgeCooldown = FALSE
    Conditions = {}
    Uncompilable = {}
    TimerIds = {}
    Requests = {q1, q2}
    Batches <- FirstOrOthers
    Results <- UnconditionalResults
    OthersChanges <- TargetU1
    MaxChanges = 2
    ClockLags = {0}
    NoSchema = NoSchema
    NoGrant = NoGrant
    NoTimer = NoTimer
    Unlocked = Unlocked
    NoReply = NoReply
SPECIFICATION Spec
SYMMETRY Symmetry
INVARIANTS TypeOK TrackedGrantsAreFresh PendingChangesAreReported
PROPERTIES CoherentSpec DirectStoreSpec
