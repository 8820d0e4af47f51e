\* One field after another in two applications; syllables; popups and reloads.
SPECIFICATION Spec
CONSTANTS
  c1 = c1
  c2 = c2
  c3 = c3
  editor = editor
  terminal = terminal
  syllables = syllables
  words = words
  Ctx = {c1, c2, c3}
  NoCtx = NoCtx
  Apps = {editor, terminal}
  Layouts = {syllables, words}
  InitialLayout = syllables
  WordGate = {}
  AppOf <- MCThreeApps
  AppRules <- MCEnglishRule
  Configs <- MCPlainLayouts
  InitialConfig <- MCPerAppSyllables
  Requests = {"create", "destroy", "key", "focusIn", "focusOut", "reset", "getHanja", "select", "cancel", "cancelPopup"}
  KeyClasses = {"jamo", "char", "other", "backspace", "auto", "toggle", "shortcut", "hanja"}
  Orderly = TRUE
  MaxTyped = 3
  MaxWrites = 2
INVARIANTS TypeOK TextIntact LayoutApplied
PROPERTIES ReloadKeepsText ImplementsTextFields
