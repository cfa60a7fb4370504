SPECIFICATION Spec
CONSTANTS
  Pods = {p}
  Nodes = {n1, n2}
  NoNode = NoNode
  Calls = {c1, c2}
  Mtls = TRUE
  MaxLives = 2
  MaxVersion = 2
INVARIANT SpecIsCreated
