SPECIFICATION Spec
CONSTANTS
  Sessions = {s1, s2, s3}
  NoSession = NoSession
  Contents = {a, b}
  Hash <- MCHash
  Genesis <- MCGenesis
  Blank <- MCBlank
  Guards = {FALSE, TRUE}
  MaxId = 4
SYMMETRY Symmetry
INVARIANTS
  ChainIntact
PROPERTIES
  AppendOnly
  ImplementsLedger
