SPECIFICATION Spec
CONSTANTS
  Pods = {p, q}
  Portless = {}
  Nodes = {n1}
  NoNode = NoNode
  Room = 3
  HostPorts <- SamePort
  MaxLosses = 0
  MaxFaults = 0
INVARIANT UnplacedIsPending
CHECK_DEADLOCK FALSE
