SPECIFICATION Spec
CONSTANT
  MaxTaps = 2
INVARIANTS
  ReaderTapsCountAlike
  LatchExact
