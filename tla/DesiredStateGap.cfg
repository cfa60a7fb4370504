SPECIFICATION DSSpec
CONSTANTS
  Pods = {p}
  Nodes = {n1, n2}
  NoNode = NoNode
  Calls = {c1, c2}
  Mtls = TRUE
  MaxLives = 1
  MaxVersion = 3
  Agents = {n1}
  Capacity = 2
INVARIANT NothingLostOnConnect
