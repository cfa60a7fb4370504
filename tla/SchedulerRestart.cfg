SPECIFICATION RSpec
CONSTANTS
  Pods = {p, q, r}
  Portless = {r}
  Nodes = {n1, n2}
  NoNode = NoNode
  Room = 3
  HostPorts <- SamePort
  MaxLosses = 1
  MaxFaults = 1
  MaxRestarts = 1
SYMMETRY Symmetry
CONSTRAINT Bounded
INVARIANTS
  RTypeOK
  ClaimsMatchPlacements
  PlacedOnce
  StoredPlacementsAreCounted
  
  
  RemovedThroughRestarts

  
CHECK_DEADLOCK FALSE
