\* Separate categories per application: unordered clients, password fields, fixes, reloads.
SPECIFICATION Spec
CONSTANTS
  c1 = c1
  c2 = c2
  c3 = c3
  editor = editor
  terminal = terminal
  syllables = syllables
  words = words
  Ctx = {c1, c2}
  NoCtx = NoCtx
  Apps = {editor, terminal}
  Layouts = {words}
  InitialLayout = words
  WordGate <- MCWordGate
  AppOf <- MCTwoApps
  AppRules <- MCEnglishRule
  Configs <- MCNoWrites
  InitialConfig <- MCPerAppFix
  Requests = {"create", "destroy", "key", "focusIn", "focusOut", "reset", "contentType"}
  KeyClasses = {"jamo", "char", "auto", "toggle"}
  Orderly = FALSE
  MaxTyped = 2
  MaxWrites = 0
INVARIANTS TextInOrder EnglishNeverComposes PasswordNeverComposes
PROPERTY PerAppIndependent
