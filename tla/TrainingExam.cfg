CONSTANTS
    Requests = {r1, r2}
    Authors = {a1, a2}
    Questions = {q1, q2}
    PassMark = 70
    MaxVersions = 2
    MaxModules = 2
    MaxEdits = 1
SYMMETRY Symmetry
SPECIFICATION Spec
INVARIANTS
    CertIsEarned
    OneActiveVersion
    ScoredAsShown
PROPERTIES
    FrozenAttempt
    BackwardsNeedsOverlap
CHECK_DEADLOCK FALSE
