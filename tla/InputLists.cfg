SPECIFICATION Spec
CONSTANT
  MaxTaps = 2
INVARIANT
  ListTapsCountAlike
