SPECIFICATION Spec
CONSTANTS
  Rows = 2
  Columns = 2
  Hanja = 3
  Specials = 5
  Emojis <- MCEmojis
  Keys <- MCKeys
  MaxPopups = 2
  MaxMarks = 1
  MaxInFlight = 2
INVARIANTS PopupTypeOK ConversionEndsOnce HighlightIsCursor
PROPERTIES NavigationFindsCandidate BookmarkKeepsCursor WindowAgrees
CHECK_DEADLOCK FALSE
