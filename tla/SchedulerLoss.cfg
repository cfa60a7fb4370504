SPECIFICATION FairSpec
CONSTANTS
  Pods = {p}
  Portless = {}
  Nodes = {n1, n2}
  NoNode = NoNode
  Room = 3
  HostPorts <- SamePort
  MaxLosses = 2
  MaxFaults = 1
PROPERTY ComesToRest
CHECK_DEADLOCK FALSE
