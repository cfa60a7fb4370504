SPECIFICATION Spec
CONSTANTS
  Pods = {p}
  Nodes = {n1, n2}
  NoNode = NoNode
  Calls = {c1, c2}
  Mtls = FALSE
  MaxLives = 3
  MaxVersion = 3
SYMMETRY Symmetry
INVARIANTS
  TypeOK
  AnnouncedRemovalIsFinal
PROPERTIES
  ImplementsRegistry
  NoResurrection
