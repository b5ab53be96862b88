SPECIFICATION Spec
CONSTANTS
  Tickets = {t1}
  Requests = {q1, q2}
  Users = {ann, bob}
  Closers = {bob}
  None = None
  MaxTime = 4
SYMMETRY Symmetry
INVARIANTS
  StatusIsLastEvent
  ClosedByCloser
  HistoryReplays
PROPERTIES
  ImplementsLifecycle
