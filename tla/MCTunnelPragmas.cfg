SPECIFICATION Spec
CONSTANTS
  Connections = {c1}
  Names <- MCNames
  Definitions <- MCDefinitions
  Requests <- MCRequests
  HasMesh = TRUE
  ServerPort = 40000
  MaxId = 1
  MaxLoads = 1
INVARIANTS TypeOK RunsOnItsSecret PortsAsAsked
