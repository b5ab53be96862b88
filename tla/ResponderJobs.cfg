CONSTANTS
    hook = hook
    mail = mail
    Jobs = {hook, mail}
    Kind <- MCKind
    Delays <- MCDelays
    Admins = {a1, a2}
    MaxRequeues = 2
SPECIFICATION JobsSpec
INVARIANTS
    WithinBudget
    NothingVanishes
PROPERTIES
    RejectedIsFinal
    EventuallyRun
CHECK_DEADLOCK FALSE
