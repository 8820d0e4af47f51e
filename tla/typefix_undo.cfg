\* The undo of a correction in a field of syllables.
SPECIFICATION Spec
CONSTANTS
  DictionaryWords <- MCDictionary
  ReverseWords <- MCReverse
  Threshold = 2
  WordModes = {FALSE}
  Earlier = {}
  MaxKeys = 4
PROPERTY UndoTakesOwnText
