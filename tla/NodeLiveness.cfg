SPECIFICATION FairSpec
CONSTANTS
  Nodes = {n1, n2}
  Slots = {k1, k2}
INVARIANTS
  TypeOK
  CountMatchesStreams
  WatchedNodeIsReady
  ReadyNodeHasStream
PROPERTIES
  ReconnectKeepsReady
  StreamEventsAreCurrent
  LostAgentNoticed
