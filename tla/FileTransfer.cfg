SPECIFICATION Spec
CONSTANTS
  Names = {Book, Hidden}
  Protected = {Hidden}
  BufferSize = 2
  MaxSize = 3
  MaxUploads = 3
  NoName = NoName
  NoFile = NoFile
INVARIANTS AnswerTrue
PROPERTIES OthersKept
