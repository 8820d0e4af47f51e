\* A field, its module and its daemon: replies against signals, crash, timeout.
SPECIFICATION Spec
CONSTANTS
  Events = {"syllable", "fix", "navigation", "hanja", "digit", "select", "cancel", "closeEmoji", "idleFlush", "focusOut", "timeout", "reset", "die"}
  MaxTyped = 4
  MaxSignals = 5
CHECK_DEADLOCK FALSE
INVARIANTS FieldTextIntact BypassSafe
PROPERTY FixArrives
