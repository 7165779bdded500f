SPECIFICATION Spec
CONSTANTS
  Long = Long
  Edited = Edited
  Books = {Long, Edited}
  PageCount <- MCPageCount
  WindowSize = 3
  Lookbehind = 1
  LruSize = 2
  MaxDelta = 2
  NoBook = NoBook
  NoPage = NoPage
  Junk = Junk
  NoBuffer = NoBuffer
  NoFile = NoFile
  Short = Short
  Message = Message
  Other = Other
  White = White
INVARIANTS PanelShowsPage CachesTrue ProgressKept
PROPERTIES GrayResynced
