CONSTANTS
  Key <- MCKey
  Delta = {9}
  MaxTouches = 2
  MaxPackets = 2
SPECIFICATION Ps2Spec
CHECK_DEADLOCK FALSE
INVARIANTS ModifiersFollow KeyboardStaysOn PacketsFramed
PROPERTIES InitEnds
