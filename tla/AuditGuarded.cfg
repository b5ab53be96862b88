SPECIFICATION Spec
CONSTANTS
  Sessions = {s1, s2}
  NoSession = NoSession
  Contents = {a, b}
  Hash <- MCHash
  Genesis <- MCGenesis
  Blank <- MCBlank
  Guards = {TRUE}
  MaxId = 3
INVARIANT RecordNeverRefused
