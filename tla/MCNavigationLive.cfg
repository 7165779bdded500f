\* Enough memory: only the user and the network choose.
SPECIFICATION Spec
CONSTANTS
  a1 = a1
  a2 = a2
  a3 = a3
  a4 = a4
  a5 = a5
  Ids <- MCIds
  NoId = NoId
  NoScreen = NoScreen
  MaxDir = 2
  MayFail <- NoKinds
PROPERTIES
  TickCompletes
  BackLeadsHome
