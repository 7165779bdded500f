SPECIFICATION Spec
CONSTANTS
  a1 = a1
  a2 = a2
  a3 = a3
  a4 = a4
  a5 = a5
  Ids <- MCIds
  NoId = NoId
  NoScreen = NoScreen
  MaxDir = 1
  MayFail <- AllKinds
SYMMETRY Addresses
INVARIANTS
  Lineage
  RefsAlive
  SessionOwnsHeap
  PanelCurrent
  JumpLandsOnReader
  ReplaceAtRoot
