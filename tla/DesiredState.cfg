SPECIFICATION DSFairSpec
CONSTANTS
  Pods = {p, q}
  Nodes = {n1}
  NoNode = NoNode
  Calls = {c1}
  Mtls = TRUE
  MaxLives = 1
  MaxVersion = 2
  Agents = {n1}
  Capacity = 1
INVARIANTS
  DSTypeOK
  AssignedIsTold
PROPERTY AssignedIsRun
