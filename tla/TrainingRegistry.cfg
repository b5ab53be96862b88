SPECIFICATION RegistrySpec
CONSTANTS
    Managers = {m1, m2}
    Emps = {e1, e2}
    Phones = {p1, p2, p3}
    NoEmp = NoEmp
    None = None
    Forms <- MCForms
    FileRows <- MCFileRows
    MaxFileRows = 2
    MaxTrainees = 2
SYMMETRY Symmetry
INVARIANTS CleanIsStored
PROPERTIES PhonesStay ReachableUnlessOverlapped
