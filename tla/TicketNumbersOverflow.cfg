SPECIFICATION Spec
CONSTANTS
  Creators = {c1}
  Nobody = Nobody
  PerCall = 1
  Base = 2
  Width = 3
  MaxNumber = 10
PROPERTY GeneratedIsNew
