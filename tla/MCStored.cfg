SPECIFICATION StoredSpec
CONSTANTS
  ByteBits = 2
  MaxBits = 2
  Literals = 1
  MaxLCodes = 3
  MaxDCodes = 1
  FixLCodes = 4
  FixedDistance = 1
  NlenBits = 1
  NdistBits = 1
  NcodeBits = 1
  ClBits = 1
  MinCl = 5
  Window = 4
  OutLen = 3
  Pieces = {1, 2}
  FixedLengths <- MCFixedLengths
  LengthBase <- MCLengthBase
  LengthExtra <- MCLengthExtra
  DistBase <- MCDistBase
  DistExtra <- MCDistExtra
  Order <- MCOrder
  Repeat <- MCRepeat
  MinBytes = 8
  Limit = 20
  Header = 6
  SegHeader = 2
  Trailer = 4
  Align = 4
  MaxSegments = 2
  ImageChunk = 3
  Wrap = 32
  MaxFile = 22
  BitsPerByte = 2
  Screens <- MCScreens
  PageSizes <- MCPageSizes
  PlaneBits = 6
  HeaderSize = 2
  EntrySize = 3
  MaxSize = 8
  MaxPages = 3
  ByteValues = {65, 127, 128, 143, 144, 159, 160, 191, 193, 194, 224, 237, 240, 244, 245}
  TextLen = 4
  Glyphs <- MCGlyphs
  LeftClass <- MCLeftClass
  RightClass <- MCRightClass
  KernMatrix <- MCKernMatrix
  Ligatures <- MCLigatures
  Marks = {7}
  Codepoints = {1, 2, 3, 7, 8}
  TextLength = 4
  LogicalWidth = 24
  MaxLogLines = 3
  Garbage <- MCGarbage
  MaxLines = 5
  MaxResets = 3
  Books <- MCBooks
  ForeignHeads <- MCForeignHeads
  MaxChanges = 2
  PageNames = {"b", "d"}
  ProtectedNames = {".h"}
  FirstTree <- MCFirstTree
  MaxDepth = 2
  MaxRequests = 4
  LetterRows <- MCLetterRows
  SymbolRows <- MCSymbolRows
  MaxText = 2
  PageCounts = {1, 12}
  Card <- MCCard
  ChapterLists <- MCChapterLists
  LastPage = 26
  Scans <- MCScans
  Width = 480
  Height = 800
  LineHeight = 29
  MaxQueue = 2
  ExtraCodepoints = {65, 1467, 1468, 1473, 1474, 65056, 65533, 65638, 1114111}
INVARIANTS
  DecodesCanonical
  ImageExact
  PaintsAgree
  ChaptersSound
  ReadsEveryCharacter
  InkMeasured
  ReportTrue
  RestartKeeps
  PageTrue
  KeysAsShown
  RowsAsShown
  LookupsExact
PROPERTIES
  InflateTrue
CHECK_DEADLOCK FALSE
