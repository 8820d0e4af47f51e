\* One category for all contexts, several of which compose at once: words, fixes.
SPECIFICATION Spec
CONSTANTS
  c1 = c1
  c2 = c2
  c3 = c3
  editor = editor
  terminal = terminal
  syllables = syllables
  words = words
  Ctx = {c1, c2, c3}
  NoCtx = NoCtx
  Apps = {editor, terminal}
  Layouts = {syllables, words}
  InitialLayout = words
  WordGate <- MCWordGate
  AppOf <- MCThreeApps
  AppRules <- MCNoRules
  Configs <- MCNoWrites
  InitialConfig <- MCGlobalFix
  Requests = {"create", "key", "focusIn", "setGlobalMode"}
  KeyClasses = {"jamo", "char", "other", "backspace", "auto", "toggle", "shortcut"}
  Orderly = FALSE
  MaxTyped = 4
  MaxWrites = 0
INVARIANTS TextIntact GlobalModeShared
