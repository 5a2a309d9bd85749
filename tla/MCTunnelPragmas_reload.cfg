SPECIFICATION Spec
CONSTANTS
  Connections = {c1, c2}
  Names <- MCNames
  Definitions <- OnePassword
  Requests <- OneImport
  HasMesh = TRUE
  ServerPort = 40000
  MaxId = 2
  MaxLoads = 2
INVARIANTS IdsNameOneTunnel
