SPECIFICATION Spec
CONSTANTS
  Clients = {c1}
  Owner = Owner
  Acceptor = Acceptor
  NoClient = NoClient
PROPERTY ResponseSurvivesEof
