SPECIFICATION RSpec
CONSTANTS
  ann = ann
  bob = bob
  Sessions = {r1, r2, w1}
  Redactors = {r1, r2}
  NoSession = NoSession
  People = {ann, bob}
  Nobody = Nobody
  Data = Data
  History <- MCHistory
  Contents <- MCContents
  Hash <- MCHash
  Genesis <- MCGenesis
  Blank <- MCBlank
  Guards = {FALSE, TRUE}
  MaxId = 5
SYMMETRY Symmetry
INVARIANTS
  IntactUnlessRaced
PROPERTIES
  RedactionIsExact
  RedactionSticks
