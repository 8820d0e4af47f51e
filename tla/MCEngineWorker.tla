--------------------------- MODULE MCEngineWorker ---------------------------
(* Small instances of EngineWorker: values for its constants. *)
EXTENDS EngineWorker

CONSTANTS c1, c2, c3, editor, terminal, syllables, words

MCOneApp    == (c1 :> editor) @@ (c2 :> editor)
MCTwoApps   == (c1 :> editor) @@ (c2 :> terminal)
MCThreeApps == (c1 :> editor) @@ (c2 :> terminal) @@ (c3 :> editor)

MCNoRules      == [a \in Apps |-> None]
MCEnglishRule  == (editor :> None) @@ (terminal :> "English")

\* The word unit is allowed in the editor, never in the terminal.
MCWordGate == {<<words, editor>>}

MCPerApp(layout, atf) ==
  [sharing |-> "PerApp", deflt |-> "Korean", kor |-> layout, atf |-> atf]
MCGlobal(layout, atf) ==
  [sharing |-> "Global", deflt |-> "Korean", kor |-> layout, atf |-> atf]

MCPerAppSyllables == MCPerApp(syllables, FALSE)
MCPerAppFix       == MCPerApp(words, TRUE)
MCPlainLayouts    == {MCPerApp(l, FALSE) : l \in Layouts}
MCGlobalFix       == MCGlobal(words, TRUE)
MCGlobalPlain     == MCGlobal(syllables, FALSE)
MCNoWrites        == {}
=============================================================================
