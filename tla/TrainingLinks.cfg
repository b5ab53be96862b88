CONSTANTS
    t1 = t1
    t2 = t2
    c1 = c1
    r1 = r1
    r2 = r2
    l1 = l1
    l2 = l2
    AnyValue = AnyValue
    Scheduler = scheduler
    Evaluator = evaluator
    Trainees = {t1, t2}
    Leavers = {t2}
    Courses = {c1}
    Admins = {admin}
    Role <- MCRole
    Line <- MCLine
    Assignments <- MCAssignments
    LinkTtl = 1
    Validity = 2
    Lead = 1
    Horizon = 3
    MaxRows = 2
    MaxBusy = 1
    MaxDeaths = 1
SPECIFICATION Spec
INVARIANTS
    DoubleNeedsOverlap
    DashboardAgrees
PROPERTIES
    OnlyDeathsOrphan
    DueIsServed
