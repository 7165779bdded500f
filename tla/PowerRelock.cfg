SPECIFICATION Spec
CONSTANTS
  Short = 1
  WakeGuard = 1
  Saving = 1
  LightTimes = {0, 1}
  DeepTimes = {0, 2}
  IdleMax = 2
INVARIANT NoRelock
