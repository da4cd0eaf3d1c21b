CONSTANTS
  Slots = 3
  Functions = 3
  MaxDevs = 4
  Device = {"e1000", "svga", "ide", "uhci"}
  NoDevice = "none"
  Drive = {1, 2}
  Machine <- MCMachine
  Mode <- MCMode
  BootMode = {3, 5}
  Least = 2
  Most = 4
  BackPitch = 5
  Address = {"a", "b"}
  NoAddress = "zero"
  Step <- MCStep
  MaxChanges = 2
SPECIFICATION DisplaySpec
CHECK_DEADLOCK FALSE
INVARIANTS TableExact RegistryTrue ScreenFollows CursorInside
