\* A field of syllables or of words: fixes in both directions, rollbacks and undo.
SPECIFICATION Spec
CONSTANTS
  DictionaryWords <- MCDictionary
  ReverseWords <- MCReverse
  Threshold = 2
  WordModes = {TRUE, FALSE}
  Earlier <- MCEarlier
  MaxKeys = 5
INVARIANTS LiveUndoIsComposition PasswordNotKept
PROPERTIES FixKeepsText RejectedNotFixed LiveUndoRestores
