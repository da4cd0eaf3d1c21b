CONSTANTS
  Kind = {"switch", "tab", "enter", "esc", "char"}
  MaxKeys = 3
  KbdCap = 2
  AppCap = 3
SPECIFICATION FairSpec
INVARIANTS KeysInOrder SwitcherKeysStayOut
PROPERTIES ShellServed HotkeyServed
