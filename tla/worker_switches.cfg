\* The hotkeys that write the file and turn the category under a composition.
SPECIFICATION Spec
CONSTANTS
  c1 = c1
  c2 = c2
  c3 = c3
  editor = editor
  terminal = terminal
  syllables = syllables
  words = words
  Ctx = {c1, c2}
  NoCtx = NoCtx
  Apps = {editor, terminal}
  Layouts = {syllables, words}
  InitialLayout = syllables
  WordGate <- MCWordGate
  AppOf <- MCTwoApps
  AppRules <- MCNoRules
  Configs <- MCPlainLayouts
  InitialConfig <- MCPerAppSyllables
  Requests = {"create", "key", "focusIn", "focusOut", "typefix"}
  KeyClasses = {"jamo", "char", "toggle", "atf"}
  Orderly = TRUE
  MaxTyped = 2
  MaxWrites = 2
INVARIANT TextKept
