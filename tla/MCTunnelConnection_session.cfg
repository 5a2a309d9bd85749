SPECIFICATION Spec
CONSTANTS
  Clients = {c1, c2}
  Owner = Owner
  Worker = Worker
  NoClient = NoClient
INVARIANT SessionExclusive
