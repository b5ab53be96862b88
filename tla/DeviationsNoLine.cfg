SPECIFICATION DevSpec
CONSTANTS
  Creators = {c1, c2}
  Nobody = Nobody
  PerCall = 2
  Base = 2
  Width = 3
  MaxNumber = 6
  Points <- MCPoints
  Readings <- Degrees
  Items = {i1}
  Unlimited = Unlimited
INVARIANT FailedItemHasTicket
