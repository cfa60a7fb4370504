SPECIFICATION Spec
CONSTANTS
  Pods = {p1, p2, p3}
  Containers = {c1, c2}
  FirstVlan = 2
  LastVlan = 3
  CniLastVlan = 3
  Torn = Torn
  MaxCrashes = 1
  MaxFaults = 2
SYMMETRY Symmetry
CONSTRAINT Bounded
INVARIANTS
  TypeOK
  VlanKept
  VlanIsolated
PROPERTIES
  AppliedExactly
  RollbackIsComplete
CHECK_DEADLOCK FALSE
