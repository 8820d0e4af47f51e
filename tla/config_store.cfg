SPECIFICATION Spec
CONSTANTS
  Layouts = {"two-set", "three-set"}
  Contexts = {c1}
  c1 = c1
  Start <- MCStart
  MaxWrites = 3
INVARIANTS ConfigTypeOK
PROPERTIES HotkeyRebases FirstSaveKeepsUnedited ChangeReachesFile EnginesFollow
CHECK_DEADLOCK FALSE
