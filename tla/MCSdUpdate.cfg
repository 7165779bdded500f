SPECIFICATION Spec
CONSTANTS
  Small = Small
  Large = Large
  Images = {Small, Large}
  Size <- MCSize
  Part = 6
  Sector = 2
  Blk = 4
  Chunk = 2
  Erased = Erased
  Junk = Junk
  Blank = Blank
  NoImage = NoImage
  MaxSeq = 5
INVARIANTS Bootable WritesErased
PROPERTIES FlashEnds Atomic
