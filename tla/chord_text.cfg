\* Chords ended in every way: by keys of every kind, timers, resets, changes of layout.
SPECIFICATION Spec
CONSTANTS
  Inputs = {"cho", "jung", "symbol", "space", "enter", "backspace", "escape", "shortcut", "rebuild", "reset"}
  Compounds = {"cho"}
  ChordBufferMax = 2
  MaxPressed = 4
  MaxResets = 1
CHECK_DEADLOCK FALSE
INVARIANTS ChordTypeOK ChordTextIntact EpochNamesChordOfEngine
PROPERTY ChordEnds
