CONSTANTS
  Layouts <- MCTwoSet
  Keys <- MCKeys
  Compounds <- MCCompounds
  ChoOnly <- MCChoOnly
  MaxWord <- MCMaxWord
  MaxChord = 3
SPECIFICATION Spec
PROPERTY CommitKeepsPreedit
