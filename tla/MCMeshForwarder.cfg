SPECIFICATION CooperativeSpec
CONSTANTS
  Clients = {c1, c2}
  Owner = Owner
  Acceptor = Acceptor
  NoClient = NoClient
INVARIANTS ClosedOnce CloseLeavesNothing NoOrphanSocket ActiveMeansListening
PROPERTIES CloseReturns BridgeEnds
