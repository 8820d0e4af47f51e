CONSTANTS
  Layouts <- MCLayouts
  Keys <- MCKeys
  Compounds <- MCCompounds
  ChoOnly <- MCChoOnly
  MaxWord <- MCMaxWord
  MaxChord = 3
SPECIFICATION Spec
INVARIANTS HangulTypeOK WordKeysComposeText BackspaceUndoesKey ChordKeepsText
PROPERTY KeyKeepsText
