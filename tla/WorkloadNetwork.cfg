SPECIFICATION Spec
CONSTANTS
  Workloads = {w1, w2, w3}
  Addresses = {a1, a2}
  NoAddress = NoAddress
  Ports = {h1, h2}
  Peers = {n1, n2}
  MaxCrashes = 2
  MaxFaults = 2
SYMMETRY Symmetry
INVARIANTS
  TypeOK
  AllocationsHeld
  EndpointsDistinct
  NoAddressLeaks
  
  HostIsReady
PROPERTY ForgottenEntirely
