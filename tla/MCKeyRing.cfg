CONSTANTS
  a = a
  b = b
  Key <- MCKey
  Codes <- MCCodes
  NoKey = NoKey
  Wrap = 5
  Size = 5
SPECIFICATION Spec
PROPERTIES QueueSpec
