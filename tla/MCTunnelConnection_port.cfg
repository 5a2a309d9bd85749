SPECIFICATION Spec
CONSTANTS
  Clients = {c1}
  Owner = Owner
  Worker = Worker
  NoClient = NoClient
PROPERTY CreatedMeansListening
