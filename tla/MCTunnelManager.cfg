SPECIFICATION FairSpec
CONSTANTS
  Clients = {c1, c2}
  Handles = {h1, h2}
  MaxTunnels = 2
  NoClient = NoClient
  NoHandle = NoHandle
INVARIANTS NoLeak SoleOwner
PROPERTIES PortUnlessClosed CloseAnswersTruthfully RegistrySpec MutexReleased
