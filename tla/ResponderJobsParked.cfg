CONSTANTS
    hook = hook
    mail = mail
    Jobs = {hook}
    Kind <- MCKindHook
    Delays <- DefaultDelays
    Admins = {a1}
    MaxRequeues = 1
SPECIFICATION JobsSpec
PROPERTIES
    FailuresSurface
CHECK_DEADLOCK FALSE
