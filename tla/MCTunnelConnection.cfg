SPECIFICATION CooperativeSpec
CONSTANTS
  Clients = {c1, c2, c3}
  Owner = Owner
  Worker = Worker
  NoClient = NoClient
INVARIANTS NoUseAfterFree CloseLeavesNothing NoOrphanSocket
PROPERTIES CloseReturns DropEndsForwarding
