SPECIFICATION RSpec
CONSTANTS
  ann = ann
  bob = bob
  Sessions = {r1, w1}
  Redactors = {r1}
  NoSession = NoSession
  People = {ann, bob}
  Nobody = Nobody
  Data = Data
  History <- MCHistory
  Contents <- MCContents
  Hash <- MCHash
  Genesis <- MCGenesis
  Blank <- MCBlank
  Guards = {FALSE}
  MaxId = 4
INVARIANT ChainVerifiesAfterRedaction
