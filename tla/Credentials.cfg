SPECIFICATION Spec
CONSTANTS
  Nodes = {"n1"}
  Api = "api"
  Scheduler = "scheduler"
  User = "barectl"
  NoCert = NoCert
  Ca = "ca"
  Operators = {o1, o2}
  MaxKeys = 4
  MaxStops = 1
  MaxPurges = 1
SYMMETRY Symmetry
CONSTRAINT Bounded
INVARIANTS
  CredTypeOK
  Entitled
  PairsFit
  
  WiredToWork
