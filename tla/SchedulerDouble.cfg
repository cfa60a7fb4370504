SPECIFICATION Spec
CONSTANTS
  Pods = {p}
  Portless = {p}
  Nodes = {n1, n2, n3}
  NoNode = NoNode
  Room = 3
  HostPorts <- SamePort
  MaxLosses = 1
  MaxFaults = 0
INVARIANT NoDoublePlacement
CHECK_DEADLOCK FALSE
