------------------------- MODULE EngineWorkerProofs -------------------------
(***************************************************************************)
(* Theorems about EngineWorker, for every set of contexts, applications,    *)
(* layouts, requests and keys, and without bounds on what is typed:         *)
(*                                                                          *)
(*   TypeCorrect     the state is well formed;                              *)
(*   EnglishNever, PasswordNever                                            *)
(*                   nothing composes in English or in a password field;    *)
(*   LayoutPending   a changed layout is in force or its engine waits;      *)
(*   LayoutInForce   what LayoutPending means for the handlers;             *)
(*   PrologueKeeps   the prologue ends no composition;                      *)
(*   PerAppApart     PerApp: a step turns the category of one context at    *)
(*                   most, and is remembered for its application only;      *)
(*   OneSharedMode   Global: every context has the default category, if     *)
(*                   nothing outside the worker's own keys and set_global_  *)
(*                   mode turns a category or replaces the configuration.   *)
(*                                                                          *)
(*   PressKeyKeeps   a key, in any state of an engine, leaves an engine,    *)
(*                   built of the same layout, and no composition begins    *)
(*                   where none may be;                                     *)
(*   PressKeyText    of its text none is lost, and one character comes at   *)
(*                   its end, or goes, or none does.                        *)
(*                                                                          *)
(* The last two are facts about the operators of Engine, and come first:    *)
(* Keeps for each method of the engine, then what it does to the text.      *)
(* The theorems about the worker but PerAppApart and OneSharedMode follow   *)
(* from one lemma per handler, which says                                   *)
(* that it leaves a well-formed state and is Handled.  PerAppApart needs no *)
(* invariant but TypeOK: what a handler changes is one context's own        *)
(* (OwnChange), or turns no category (CatsKept).  OneSharedMode is          *)
(* inductive together with a file that has no news (OneMode): each handler  *)
(* leaves every context with the default it leaves (StaysShared).           *)
(***************************************************************************)
EXTENDS EngineWorker, TLAPS, SequenceTheorems

-----------------------------------------------------------------------------
(* An engine. *)

\* Only a Korean field that is not a password composes.
Quiet(e) == IsComposing(e) => e.cat = "Korean" /\ ~ShouldBlockHangul(e.purpose)

\* What every operator does to the engine it is given.
Keeps(e, f) == f \in Engine /\ f.kor = e.kor /\ (Quiet(e) => Quiet(f))

LEMMA KeepsTrans ==
  ASSUME NEW e, NEW f, NEW g, Keeps(e, f), Keeps(f, g)
  PROVE  Keeps(e, g)
BY DEF Keeps

LEMMA KeepsSelf == ASSUME NEW e \in Engine PROVE Keeps(e, e)
BY DEF Keeps

LEMMA EmptyText == <<>> \in Text
BY DEF Text

LEMMA EngineFields ==
  ASSUME NEW e \in Engine
  PROVE  /\ e.cat \in Categories /\ e.purpose \in Purposes
         /\ e.saved \in Categories \cup {None} /\ e.kor \in Layouts
         /\ e.word \in BOOLEAN /\ e.preedit \in Text /\ e.commit \in Text
         /\ e.conv \in BOOLEAN /\ e.popup \in Popups /\ e.target \in Text
BY DEF Engine

LEMMA ConcatText == ASSUME NEW s \in Text, NEW t \in Text PROVE s \o t \in Text
BY DEF Text

LEMMA TypeCharText ==
  ASSUME NEW s \in Text, NEW t \in Text
  PROVE  Append(s, Len(t) + 1) \in Text
<1>1. Len(t) + 1 \in Nat \ {0}
  BY DEF Text
<1>. QED BY <1>1 DEF Text

LEMMA FrontText == ASSUME NEW s \in Text PROVE Front(s) \in Text
<1>1. CASE s = <<>>
  <2>1. Front(s) = <<>>
    BY <1>1 DEF Front
  <2>. QED BY <2>1, EmptyText
<1>2. CASE s # <<>>
  <2>1. Len(s) - 1 \in Nat /\ s \in Seq(Nat \ {0})
    BY <1>2 DEF Text
  <2>2. SubSeq(s, 1, Len(s) - 1) \in Seq(Nat \ {0})
    BY <2>1, SubSeqProperties
  <2>. QED BY <2>2 DEF Front, Text
<1>. QED BY <1>1, <1>2

LEMMA LastText == ASSUME NEW s \in Text, s # <<>> PROVE <<Last(s)>> \in Text
<1>1. Len(s) \in 1..Len(s)
  BY DEF Text
<1>2. s[Len(s)] \in Nat \ {0}
  BY <1>1 DEF Text
<1>. QED BY <1>2 DEF Last, Text

-----------------------------------------------------------------------------

\* A flush leaves nothing composed.
LEMMA Flush ==
  ASSUME NEW e \in Engine
  PROVE  /\ Keeps(e, FlushPreedit(e)) /\ ~IsComposing(FlushPreedit(e))
         /\ FlushPreedit(e).cat = e.cat /\ FlushPreedit(e).purpose = e.purpose
         /\ FlushPreedit(e).saved = e.saved
<1>. DEFINE f == FlushPreedit(e)
<1>1. e.commit \o e.preedit \in Text
  BY EngineFields, ConcatText
<1>2. f \in Engine
  BY <1>1, EmptyText DEF FlushPreedit, Engine
<1>3. f.kor = e.kor /\ f.preedit = <<>> /\ f.cat = e.cat /\ f.purpose = e.purpose /\ f.saved = e.saved
  BY DEF FlushPreedit, Engine
<1>. QED BY <1>2, <1>3 DEF Keeps, Quiet, IsComposing

\* Setting the category ends the composition, unless it was set already.
LEMMA SetCategory ==
  ASSUME NEW e \in Engine, NEW cat \in Categories
  PROVE  /\ Keeps(e, SetInputCategory(e, cat))
         /\ SetInputCategory(e, cat).cat = cat
         /\ SetInputCategory(e, cat).purpose = e.purpose
<1>1. CASE e.cat = cat
  BY <1>1, KeepsSelf DEF SetInputCategory
<1>2. CASE e.cat # cat
  <2>. DEFINE g == FlushPreedit(e)
              f == [g EXCEPT !.cat = cat]
  <2>1. g \in Engine /\ g.kor = e.kor /\ g.preedit = <<>> /\ g.purpose = e.purpose
    BY Flush DEF Keeps, IsComposing
  <2>2. f \in Engine /\ f.kor = g.kor /\ f.preedit = g.preedit /\ f.cat = cat /\ f.purpose = g.purpose
    BY <2>1 DEF Engine
  <2>3. SetInputCategory(e, cat) = f
    BY <1>2 DEF SetInputCategory
  <2>. HIDE DEF g, f
  <2>. QED BY <2>1, <2>2, <2>3 DEF Keeps, Quiet, IsComposing
<1>. QED BY <1>1, <1>2

LEMMA SetWord ==
  ASSUME NEW e \in Engine, NEW on \in BOOLEAN
  PROVE  /\ Keeps(e, SetWordMode(e, on))
         /\ SetWordMode(e, on).cat = e.cat /\ SetWordMode(e, on).purpose = e.purpose
<1>. DEFINE g == FlushPreedit(e)
            f == [g EXCEPT !.word = on]
<1>1. g \in Engine /\ g.kor = e.kor /\ g.preedit = <<>> /\ g.cat = e.cat /\ g.purpose = e.purpose
  BY Flush DEF Keeps, IsComposing
<1>2. f \in Engine /\ f.kor = g.kor /\ f.preedit = g.preedit /\ f.cat = g.cat /\ f.purpose = g.purpose
  BY <1>1 DEF Engine
<1>3. SetWordMode(e, on) = f
  BY DEF SetWordMode
<1>. HIDE DEF g, f
<1>. QED BY <1>1, <1>2, <1>3 DEF Keeps, Quiet, IsComposing

LEMMA ApplyGate ==
  ASSUME NEW e \in Engine, NEW on \in BOOLEAN
  PROVE  Keeps(e, ApplyWordGate(e, on))
BY SetWord, KeepsSelf DEF ApplyWordGate

\* A rebuilt engine has the new layout and composes nothing.
LEMMA Rebuild ==
  ASSUME NEW e \in Engine, NEW layout \in Layouts
  PROVE  /\ RebuildKoreanContext(e, layout) \in Engine
         /\ RebuildKoreanContext(e, layout).kor = layout
         /\ ~IsComposing(RebuildKoreanContext(e, layout))
<1>. DEFINE g == FlushPreedit(e)
            f == [g EXCEPT !.kor = layout, !.word = FALSE]
<1>1. g \in Engine /\ g.preedit = <<>>
  BY Flush DEF Keeps, IsComposing
<1>2. f \in Engine /\ f.kor = layout /\ f.preedit = g.preedit
  BY <1>1 DEF Engine
<1>3. RebuildKoreanContext(e, layout) = f
  BY DEF RebuildKoreanContext
<1>. HIDE DEF g, f
<1>. QED BY <1>1, <1>2, <1>3 DEF IsComposing

LEMMA New ==
  ASSUME NEW layout \in Layouts, NEW cat \in Categories
  PROVE  /\ NewEngine(layout, cat) \in Engine
         /\ NewEngine(layout, cat).kor = layout
         /\ Quiet(NewEngine(layout, cat))
BY EmptyText DEF NewEngine, Engine, Quiet, IsComposing, Purposes, Popups

LEMMA ResetComp ==
  ASSUME NEW e \in Engine
  PROVE  /\ Keeps(e, ResetComposition(e))
         /\ ResetComposition(e).cat = e.cat
         /\ ResetComposition(e).purpose = e.purpose
<1>. DEFINE f == ResetComposition(e)
<1>1. f \in Engine
  BY EmptyText DEF ResetComposition, Engine, Popups
<1>2. f.kor = e.kor /\ f.preedit = <<>> /\ f.cat = e.cat /\ f.purpose = e.purpose
  BY DEF ResetComposition, Engine
<1>. QED BY <1>1, <1>2 DEF Keeps, Quiet, IsComposing

\* Entering a blocking purpose forces English and leaving it restores the
\* category kept, both by ending the composition if the category changes.
LEMMA ContentPurpose ==
  ASSUME NEW e \in Engine, NEW purpose \in Purposes
  PROVE  Keeps(e, SetContentPurpose(e, purpose))
<1>. DEFINE told == [e EXCEPT !.purpose = purpose]
<1>1. /\ told \in Engine /\ told.kor = e.kor /\ told.preedit = e.preedit
      /\ told.cat = e.cat /\ told.purpose = purpose
  BY DEF Engine
<1>2. CASE e.purpose = purpose
  BY <1>2, KeepsSelf DEF SetContentPurpose
<1>3. CASE e.purpose # purpose /\ ShouldBlockHangul(purpose)
  <2>. DEFINE f == [told EXCEPT !.saved = IF @ = None THEN e.cat ELSE @]
  <2>1. f \in Engine /\ f.kor = e.kor /\ f.preedit = e.preedit /\ f.cat = e.cat
    BY <1>1 DEF Engine
  <2>2. "English" \in Categories
    BY DEF Categories
  <2>3. SetContentPurpose(e, purpose) = SetInputCategory(f, "English")
    BY <1>3 DEF SetContentPurpose
  <2>4. Keeps(f, SetInputCategory(f, "English"))
    BY <2>1, <2>2, SetCategory
  <2>5. IsComposing(SetInputCategory(f, "English")) => e.cat = "English" /\ IsComposing(e)
    <3>1. f.cat = "English" => SetInputCategory(f, "English") = f
      BY DEF SetInputCategory
    <3>2. f.cat # "English" => ~IsComposing(SetInputCategory(f, "English"))
      <4>. DEFINE g == FlushPreedit(f)
      <4>1. g \in Engine /\ g.preedit = <<>>
        BY <2>1, Flush DEF Keeps, IsComposing
      <4>2. [g EXCEPT !.cat = "English"].preedit = g.preedit
        BY <4>1 DEF Engine
      <4>3. f.cat # "English" => SetInputCategory(f, "English") = [g EXCEPT !.cat = "English"]
        BY DEF SetInputCategory
      <4>. HIDE DEF g
      <4>. QED BY <4>1, <4>2, <4>3 DEF IsComposing
    <3>. HIDE DEF f
    <3>. QED BY <2>1, <3>1, <3>2 DEF IsComposing
  <2>. HIDE DEF f
  <2>. QED BY <2>1, <2>3, <2>4, <2>5 DEF Keeps, Quiet
<1>4. CASE e.purpose # purpose /\ ~ShouldBlockHangul(purpose) /\ e.saved = None
  <2>1. SetContentPurpose(e, purpose) = told
    BY <1>4 DEF SetContentPurpose
  <2>. HIDE DEF told
  <2>. QED BY <1>1, <1>4, <2>1 DEF Keeps, Quiet, IsComposing
<1>5. CASE e.purpose # purpose /\ ~ShouldBlockHangul(purpose) /\ e.saved # None
  <2>. DEFINE f == [told EXCEPT !.saved = None]
  <2>1. f \in Engine /\ f.kor = e.kor /\ f.preedit = e.preedit /\ f.cat = e.cat /\ f.purpose = purpose
    BY <1>1 DEF Engine
  <2>2. e.saved \in Categories
    BY <1>5, EngineFields
  <2>3. SetContentPurpose(e, purpose) = SetInputCategory(f, e.saved)
    BY <1>5 DEF SetContentPurpose
  <2>4. Keeps(f, SetInputCategory(f, e.saved))
    BY <2>1, <2>2, SetCategory
  <2>. HIDE DEF f
  <2>. QED BY <1>5, <2>1, <2>3, <2>4 DEF Keeps, Quiet, IsComposing
<1>. QED BY <1>2, <1>3, <1>4, <1>5

LEMMA Typefix ==
  ASSUME NEW e \in Engine, NEW cat \in Categories
  PROVE  TypefixConvert(e, cat) \in Engine /\ TypefixConvert(e, cat).kor = e.kor
BY DEF TypefixConvert, Engine

\* Neither opening nor closing a popup begins a composition.
LEMMA HanjaStart ==
  ASSUME NEW e \in Engine, NEW f \in StartHanjaConversion(e)
  PROVE  Keeps(e, f)
<1>1. CASE f = e
  BY <1>1, KeepsSelf
<1>2. CASE f # e
  <2>1. IsComposing(e) /\ f = [e EXCEPT !.conv = TRUE, !.popup = "conv", !.target = <<Last(e.preedit)>>]
    BY <1>2 DEF StartHanjaConversion
  <2>2. <<Last(e.preedit)>> \in Text
    BY <2>1, EngineFields, LastText DEF IsComposing
  <2>3. f \in Engine
    BY <2>1, <2>2 DEF Engine, Popups
  <2>4. f.kor = e.kor /\ f.preedit = e.preedit /\ f.cat = e.cat /\ f.purpose = e.purpose
    BY <2>1 DEF Engine
  <2>. QED BY <2>3, <2>4 DEF Keeps, Quiet, IsComposing
<1>. QED BY <1>1, <1>2

LEMMA EmojiPopups ==
  ASSUME NEW e \in Engine
  PROVE  Keeps(e, StartEmojiPopup(e)) /\ Keeps(e, CancelEmojiPopup(e))
<1>1. StartEmojiPopup(e) \in Engine /\ CancelEmojiPopup(e) \in Engine
  BY DEF StartEmojiPopup, CancelEmojiPopup, Engine, Popups
<1>2. \A f \in {StartEmojiPopup(e), CancelEmojiPopup(e)} :
        f.kor = e.kor /\ f.preedit = e.preedit /\ f.cat = e.cat /\ f.purpose = e.purpose
  BY DEF StartEmojiPopup, CancelEmojiPopup, Engine
<1>. QED BY <1>1, <1>2 DEF Keeps, Quiet, IsComposing

LEMMA Cancel ==
  ASSUME NEW e \in Engine
  PROVE  Keeps(e, CancelConversion(e)) /\ Keeps(e, SelectConversion(e))
<1>1. CancelConversion(e) \in Engine
  BY EmptyText DEF CancelConversion, Engine, Popups
<1>2. CancelConversion(e).kor = e.kor /\ CancelConversion(e).preedit = <<>>
  BY DEF CancelConversion, Engine
<1>. QED BY <1>1, <1>2 DEF Keeps, Quiet, IsComposing, SelectConversion

\* Adding confirmed text changes nothing else.
LEMMA AddCommit ==
  ASSUME NEW e \in Engine, NEW text \in Text
  PROVE  /\ [e EXCEPT !.commit = text] \in Engine
         /\ [e EXCEPT !.commit = text].kor = e.kor
         /\ Keeps(e, [e EXCEPT !.commit = text])
<1>1. [e EXCEPT !.commit = text] \in Engine
  BY DEF Engine
<1>2. \A f : f = [e EXCEPT !.commit = text] =>
        f.kor = e.kor /\ f.preedit = e.preedit /\ f.cat = e.cat /\ f.purpose = e.purpose
  BY DEF Engine
<1>. QED BY <1>1, <1>2 DEF Keeps, Quiet, IsComposing

LEMMA ClosePopup ==
  ASSUME NEW e \in Engine, NEW taken \in Text
  PROVE  /\ Keeps(e, PopupCancel(e))
         /\ Keeps(e, PopupSelect(e, Len(taken) + 1))
<1>. DEFINE f == [e EXCEPT !.commit = e.commit \o e.target]
            g == [e EXCEPT !.commit = Append(e.commit, Len(taken) + 1)]
<1>1. e.commit \o e.target \in Text /\ Append(e.commit, Len(taken) + 1) \in Text
  BY EngineFields, ConcatText, TypeCharText
<1>2. Keeps(e, f) /\ f \in Engine /\ Keeps(e, g) /\ g \in Engine
  BY <1>1, AddCommit
<1>3. Keeps(e, CancelConversion(f)) /\ Keeps(e, SelectConversion(f)) /\ Keeps(e, CancelEmojiPopup(g))
  BY <1>2, Cancel, EmojiPopups, KeepsTrans
<1>4. Keeps(e, CancelEmojiPopup(e))
  BY EmojiPopups
<1>5. PopupCancel(e) = IF e.conv THEN CancelConversion(f) ELSE CancelEmojiPopup(e)
  BY DEF PopupCancel
<1>6. PopupSelect(e, Len(taken) + 1) = IF e.conv THEN SelectConversion(f) ELSE CancelEmojiPopup(g)
  BY DEF PopupSelect
<1>. HIDE DEF f, g
<1>. QED BY <1>3, <1>4, <1>5, <1>6

-----------------------------------------------------------------------------
(* Keys. *)

\* Every outcome of a key keeps what the engine is, and types well-formed text.
KeepsAll(e, outcomes) == \A o \in outcomes : Keeps(e, o.engine) /\ o.typed \in Text

LEMMA KeepsOne ==
  ASSUME NEW e, NEW f, NEW taken \in Text, Keeps(e, f)
  PROVE  KeepsAll(e, {Outcome(f, taken)})
BY DEF KeepsAll, Outcome

LEMMA KeepsAllTrans ==
  ASSUME NEW e, NEW f, NEW outcomes, Keeps(e, f), KeepsAll(f, outcomes)
  PROVE  KeepsAll(e, outcomes)
BY DEF KeepsAll, Keeps

LEMMA CommitOne ==
  ASSUME NEW e \in Engine, NEW taken \in Text
  PROVE  KeepsAll(e, {CommitChar(e, taken)})
<1>1. Append(e.commit, Len(taken) + 1) \in Text /\ Append(taken, Len(taken) + 1) \in Text
  BY EngineFields, TypeCharText
<1>2. Keeps(e, [e EXCEPT !.commit = Append(e.commit, Len(taken) + 1)])
  BY <1>1, AddCommit
<1>. QED BY <1>1, <1>2, KeepsOne DEF CommitChar, TypeChar

\* A jamo composes, and only reaches a Korean field that is not a password.
LEMMA Jamo ==
  ASSUME NEW e \in Engine, NEW taken \in Text,
         e.cat = "Korean", ~ShouldBlockHangul(e.purpose)
  PROVE  KeepsAll(e, ProcessJamo(e, taken))
<1>. DEFINE kept == IF e.word THEN e ELSE FlushPreedit(e)
            n    == Len(taken) + 1
            f    == [kept EXCEPT !.preedit = Append(kept.preedit, n)]
<1>1. kept \in Engine /\ kept.kor = e.kor /\ kept.cat = e.cat /\ kept.purpose = e.purpose
  BY Flush DEF Keeps
<1>. HIDE DEF kept
<1>2. Append(kept.preedit, n) \in Text /\ Append(taken, n) \in Text
  BY <1>1, EngineFields, TypeCharText
<1>3. f \in Engine
  BY <1>1, <1>2 DEF Engine
<1>4. f.kor = e.kor /\ f.cat = e.cat /\ f.purpose = e.purpose
  BY <1>1 DEF Engine
<1>. HIDE DEF n, f
<1>5. Keeps(e, f)
  BY <1>3, <1>4 DEF Keeps, Quiet
<1>6. \A o \in ProcessJamo(e, taken) :
        o = Outcome(f, Append(taken, n)) \/ o = Outcome(e, taken)
  BY DEF ProcessJamo, f, n, kept, TypeChar
<1>7. \A o \in ProcessJamo(e, taken) :
        \/ o.engine = f /\ o.typed = Append(taken, n)
        \/ o.engine = e /\ o.typed = taken
  BY <1>6 DEF Outcome
<1>8. Keeps(e, e)
  BY KeepsSelf
<1>. QED BY <1>2, <1>5, <1>7, <1>8 DEF KeepsAll

LEMMA BackspaceKey ==
  ASSUME NEW e \in Engine, NEW taken \in Text
  PROVE  KeepsAll(e, ProcessBackspace(e, taken))
<1>1. CASE IsComposing(e)
  <2>. DEFINE f == [e EXCEPT !.preedit = Front(e.preedit)]
  <2>1. Front(e.preedit) \in Text /\ Front(taken) \in Text
    BY EngineFields, FrontText
  <2>2. f \in Engine
    BY <2>1 DEF Engine
  <2>3. f.kor = e.kor /\ f.cat = e.cat /\ f.purpose = e.purpose
    BY DEF Engine
  <2>4. ProcessBackspace(e, taken) = {Outcome(e, taken), Outcome(f, Front(taken))}
    BY <1>1 DEF ProcessBackspace
  <2>. HIDE DEF f
  <2>5. Keeps(e, f)
    BY <1>1, <2>2, <2>3 DEF Keeps, Quiet
  <2>. QED BY <2>1, <2>4, <2>5, KeepsSelf DEF KeepsAll, Outcome
<1>2. CASE ~IsComposing(e)
  BY <1>2, KeepsSelf, KeepsOne DEF ProcessBackspace
<1>. QED BY <1>1, <1>2

LEMMA FlushEnglish ==
  ASSUME NEW e \in Engine
  PROVE  /\ SetInputCategory(FlushPreedit(e), "English") \in Engine
         /\ Keeps(e, SetInputCategory(FlushPreedit(e), "English"))
<1>1. Keeps(e, FlushPreedit(e)) /\ FlushPreedit(e) \in Engine
  BY Flush DEF Keeps
<1>2. Keeps(FlushPreedit(e), SetInputCategory(FlushPreedit(e), "English"))
  BY <1>1, SetCategory DEF Categories
<1>. QED BY <1>1, <1>2, KeepsTrans DEF Keeps

LEMMA AutoKey ==
  ASSUME NEW e \in Engine, NEW taken \in Text
  PROVE  KeepsAll(e, AutoEnglish(e, taken))
<1>. DEFINE f == SetInputCategory(FlushPreedit(e), "English")
<1>1. f \in Engine /\ Keeps(e, f)
  BY FlushEnglish
<1>. HIDE DEF f
<1>2. KeepsAll(f, {CommitChar(f, taken)}) /\ KeepsAll(e, {Outcome(f, taken)})
  BY <1>1, CommitOne, KeepsOne
<1>3. KeepsAll(e, {CommitChar(f, taken)})
  BY <1>1, <1>2, KeepsAllTrans
<1>4. AutoEnglish(e, taken) = {Outcome(f, taken)} \cup {CommitChar(f, taken)}
  BY DEF AutoEnglish, f
<1>. QED BY <1>2, <1>3, <1>4 DEF KeepsAll

LEMMA KoreanKey ==
  ASSUME NEW e \in Engine, NEW taken \in Text,
         NEW key \in {"jamo", "char", "other", "backspace", "auto"},
         e.cat = "Korean", ~ShouldBlockHangul(e.purpose)
  PROVE  KeepsAll(e, ProcessKoreanKey(e, key, taken))
<1>1. CASE key = "jamo"
  BY <1>1, Jamo DEF ProcessKoreanKey
<1>2. CASE key \in {"char", "other"}
  <2>1. FlushPreedit(e) \in Engine /\ Keeps(e, FlushPreedit(e))
    BY Flush DEF Keeps
  <2>2. KeepsAll(e, {CommitChar(FlushPreedit(e), taken)})
    BY <2>1, CommitOne, KeepsAllTrans
  <2>3. KeepsAll(e, {Outcome(FlushPreedit(e), taken)})
    BY <2>1, KeepsOne
  <2>. QED BY <1>2, <2>2, <2>3 DEF ProcessKoreanKey
<1>3. CASE key = "backspace"
  BY <1>3, BackspaceKey DEF ProcessKoreanKey
<1>4. CASE key = "auto"
  BY <1>4, AutoKey DEF ProcessKoreanKey
<1>. QED BY <1>1, <1>2, <1>3, <1>4

LEMMA EnglishKey ==
  ASSUME NEW e \in Engine, NEW taken \in Text, NEW key
  PROVE  KeepsAll(e, ProcessEnglishKey(e, key, taken))
BY CommitOne, KeepsOne, KeepsSelf DEF ProcessEnglishKey

LEMMA Toggle ==
  ASSUME NEW e \in Engine, NEW taken \in Text
  PROVE  KeepsAll(e, ToggleKey(e, taken))
<1>. DEFINE g == FlushPreedit(e)
            f == [g EXCEPT !.cat = IF @ = "Korean" THEN "English" ELSE "Korean"]
<1>1. g \in Engine /\ g.preedit = <<>> /\ g.kor = e.kor
  BY Flush DEF Keeps, IsComposing
<1>2. f \in Engine /\ f.kor = g.kor /\ f.preedit = g.preedit
  BY <1>1 DEF Engine, Categories
<1>3. ToggleKey(e, taken) = {Outcome(e, taken)} \/ ToggleKey(e, taken) = {Outcome(f, taken)}
  BY DEF ToggleKey
<1>. HIDE DEF g, f
<1>4. Keeps(e, f)
  BY <1>1, <1>2 DEF Keeps, Quiet, IsComposing
<1>. QED BY <1>3, <1>4, KeepsSelf, KeepsOne

LEMMA Shortcut ==
  ASSUME NEW e \in Engine, NEW taken \in Text
  PROVE  KeepsAll(e, ShortcutKey(e, taken))
<1>1. Keeps(e, FlushPreedit(e))
  BY Flush
<1>2. Keeps(e, SetInputCategory(FlushPreedit(e), "English"))
  BY FlushEnglish
<1>. QED BY <1>1, <1>2 DEF ShortcutKey, KeepsAll, Outcome

LEMMA Hanja ==
  ASSUME NEW e \in Engine, NEW taken \in Text
  PROVE  KeepsAll(e, HanjaKey(e, taken))
<1>1. CASE IsComposing(e)
  BY <1>1, HanjaStart DEF HanjaKey, KeepsAll, Outcome
<1>2. CASE ~IsComposing(e)
  BY <1>2, EmojiPopups, KeepsOne DEF HanjaKey
<1>. QED BY <1>1, <1>2

\* After ForceEnglish a Korean engine is not in a password field.
LEMMA Forced ==
  ASSUME NEW e \in Engine
  PROVE  /\ ForceEnglish(e) \in Engine /\ Keeps(e, ForceEnglish(e))
         /\ ForceEnglish(e).cat = "Korean" => ~ShouldBlockHangul(ForceEnglish(e).purpose)
<1>1. CASE ShouldBlockHangul(e.purpose)
  <2>1. Keeps(e, SetInputCategory(e, "English")) /\ SetInputCategory(e, "English").cat = "English"
    BY SetCategory DEF Categories
  <2>. QED BY <1>1, <2>1 DEF ForceEnglish, Keeps
<1>2. CASE ~ShouldBlockHangul(e.purpose)
  BY <1>2, KeepsSelf DEF ForceEnglish
<1>. QED BY <1>1, <1>2

LEMMA KeyNoPopup ==
  ASSUME NEW e \in Engine, NEW taken \in Text, NEW key \in Keys
  PROVE  KeepsAll(e, PressKeyNoPopup(e, key, taken))
<1>. DEFINE f == ForceEnglish(e)
<1>1. f \in Engine /\ Keeps(e, f) /\ (f.cat = "Korean" => ~ShouldBlockHangul(f.purpose))
  BY Forced
<1>. HIDE DEF f
<1>2. CASE key = "toggle"
  BY <1>2, Toggle DEF PressKeyNoPopup
<1>3. CASE key = "atf"
  BY <1>3, KeepsSelf, KeepsOne DEF PressKeyNoPopup
<1>4. CASE key = "shortcut"
  BY <1>4, Shortcut DEF PressKeyNoPopup
<1>5. CASE key = "hanja"
  <2>1. KeepsAll(e, HanjaKey(f, taken))
    BY <1>1, Hanja, KeepsAllTrans
  <2>. QED BY <1>5, <2>1 DEF PressKeyNoPopup, f
<1>6. CASE key \in {"jamo", "char", "other", "backspace", "auto"}
  <2>1. PressKeyNoPopup(e, key, taken) = IF f.cat = "Korean" THEN ProcessKoreanKey(f, key, taken)
                                         ELSE ProcessEnglishKey(f, key, taken)
    BY <1>6 DEF PressKeyNoPopup, f
  <2>2. f.cat = "Korean" => KeepsAll(e, ProcessKoreanKey(f, key, taken))
    BY <1>1, <1>6, KoreanKey, KeepsAllTrans
  <2>3. KeepsAll(e, ProcessEnglishKey(f, key, taken))
    BY <1>1, EnglishKey, KeepsAllTrans
  <2>. QED BY <2>1, <2>2, <2>3
<1>. QED BY <1>2, <1>3, <1>4, <1>5, <1>6 DEF Keys

\* press_key: whatever the key and the popup, the engine stays an engine of the
\* same layout that composes only where it may.
THEOREM PressKeyKeeps ==
  ASSUME NEW e \in Engine, NEW taken \in Text, NEW key \in Keys
  PROVE  KeepsAll(e, PressKey(e, key, taken))
<1>1. KeepsAll(e, PressKeyNoPopup(e, key, taken))
  BY KeyNoPopup
<1>2. KeepsAll(e, ProcessPopupKey(e, key, taken))
  <2>. DEFINE f == PopupCancel(e)
              g == PopupSelect(e, Len(taken) + 1)
              t == IF e.conv THEN taken ELSE TypeChar(taken)
  <2>1. Keeps(e, f) /\ f \in Engine /\ Keeps(e, g)
    BY ClosePopup DEF Keeps
  <2>2. t \in Text
    BY TypeCharText DEF TypeChar
  <2>3. KeepsAll(e, PressKeyNoPopup(f, key, taken))
    BY <2>1, KeyNoPopup, KeepsAllTrans
  <2>4. \A o \in ProcessPopupKey(e, key, taken) :
          \/ o \in PressKeyNoPopup(f, key, taken)
          \/ o = Outcome(e, taken) \/ o = Outcome(f, taken) \/ o = Outcome(g, t)
    BY DEF ProcessPopupKey
  <2>. HIDE DEF f, g, t
  <2>. QED BY <2>1, <2>2, <2>3, <2>4, KeepsSelf DEF KeepsAll, Outcome
<1>. QED BY <1>1, <1>2 DEF PressKey

-----------------------------------------------------------------------------
(* Text.  What an operator does to the characters an engine holds. *)

\* The text that was typed and not handed over: confirmed, and then composed.
Held(e) == e.commit \o e.preedit

\* A conversion is of all that is composed, and nothing is composed under emoji.
Sound(e) ==
  /\ IF e.conv THEN e.target = e.preedit /\ Len(e.preedit) = 1
     ELSE e.target = <<>> /\ e.popup # "conv"
  /\ e.popup = "emoji" => ~e.conv /\ e.preedit = <<>>

\* No conversion and no popup.
Plain(e) == ~e.conv /\ e.popup = "none"

\* The unit is not the word: what is composed is a syllable at most.
Single(e) == ~e.word /\ Len(e.preedit) <= 1

\* What f holds is what e holds, and confirmed if it is not as it was.
Confirms(e, f) ==
  /\ Held(f) = Held(e)
  /\ f.preedit = <<>> \/ (f.preedit = e.preedit /\ f.commit = e.commit)

SamePopup(e, f) == f.conv = e.conv /\ f.popup = e.popup /\ f.target = e.target

LEMMA HeldText == ASSUME NEW e \in Engine PROVE Held(e) \in Text
BY EngineFields, ConcatText DEF Held

LEMMA ConcatNone == ASSUME NEW s \in Text PROVE s \o <<>> = s /\ <<>> \o s = s
BY ConcatEmptySeq DEF Text

LEMMA ConcatThree ==
  ASSUME NEW s \in Text, NEW t \in Text, NEW u \in Text
  PROVE  (s \o t) \o u = s \o (t \o u)
BY ConcatAssociative DEF Text

\* A character more at the end, or one less, of the whole is one of its last part.
LEMMA ConcatAppend ==
  ASSUME NEW s \in Text, NEW t \in Text, NEW n \in Nat \ {0}
  PROVE  s \o Append(t, n) = Append(s \o t, n)
<1>1. <<n>> \in Text /\ s \o t \in Text
  BY ConcatText DEF Text
<1>2. Append(t, n) = t \o <<n>> /\ Append(s \o t, n) = (s \o t) \o <<n>>
  BY <1>1, AppendIsConcat DEF Text
<1>. QED BY <1>1, <1>2, ConcatThree

LEMMA ConcatFront ==
  ASSUME NEW s \in Text, NEW t \in Text, t # <<>>
  PROVE  s \o Front(t) = Front(s \o t) /\ s \o t # <<>>
<1>1. PICK u \in Text, n \in Nat \ {0} : t = Append(u, n)
  BY SequenceEmptyOrAppend DEF Text
<1>2. \A v \in Text : Front(Append(v, n)) = v /\ Append(v, n) # <<>>
  <2>. SUFFICES ASSUME NEW v \in Text PROVE Front(Append(v, n)) = v /\ Append(v, n) # <<>>
    OBVIOUS
  <2>2. Len(v) \in Nat /\ v \in Seq(Nat \ {0})
    BY DEF Text
  <2>1. /\ Append(v, n) \in Seq(Nat \ {0}) /\ Len(Append(v, n)) = Len(v) + 1
        /\ Append(v, n) # <<>> /\ \A i \in 1..Len(v) : Append(v, n)[i] = v[i]
    <3>1. Append(v, n) \in Seq(Nat \ {0}) /\ Len(Append(v, n)) = Len(v) + 1
      BY <2>2
    <3>2. Append(v, n) # <<>>
      BY <2>2
    <3>3. \A i \in 1..Len(v) : Append(v, n)[i] = v[i]
      BY <2>2
    <3>. QED BY <3>1, <3>2, <3>3
  <2>3. Front(Append(v, n)) = SubSeq(Append(v, n), 1, Len(v))
    BY <2>1, <2>2 DEF Front
  <2>4. /\ SubSeq(Append(v, n), 1, Len(v)) \in Seq(Nat \ {0})
        /\ Len(SubSeq(Append(v, n), 1, Len(v))) = Len(v)
        /\ \A i \in 1..Len(v) : SubSeq(Append(v, n), 1, Len(v))[i] = v[i]
    <3>1. \A i \in 1..Len(v) : Append(v, n)[i] \in Nat \ {0}
      BY <2>1, <2>2
    <3>. QED BY <2>1, <2>2, <3>1, SubSeqProperties
  <2>5. SubSeq(Append(v, n), 1, Len(v)) = v
    BY <2>2, <2>4, SeqEqual
  <2>. QED BY <2>1, <2>3, <2>5
<1>3. s \o t = Append(s \o u, n) /\ s \o u \in Text
  BY <1>1, ConcatAppend, ConcatText
<1>. QED BY <1>1, <1>2, <1>3

LEMMA FrontLen ==
  ASSUME NEW s \in Text, s # <<>>
  PROVE  Len(s) \in Nat \ {0} /\ Front(s) \in Text /\ Len(Front(s)) = Len(s) - 1
<1>. DEFINE m == Len(s) - 1
<1>1. Len(s) \in Nat \ {0} /\ s \in Seq(Nat \ {0}) /\ m \in Nat
  BY DEF Text
<1>2. \A i \in 1..m : s[i] \in Nat \ {0}
  BY <1>1
<1>. HIDE DEF m
<1>3. Len(SubSeq(s, 1, m)) = IF 1 <= m THEN m - 1 + 1 ELSE 0
  BY <1>1, <1>2, SubSeqProperties
<1>4. Len(SubSeq(s, 1, m)) = m
  BY <1>1, <1>3
<1>. QED BY <1>1, <1>4, FrontText DEF Front, m

LEMMA LastOfOne ==
  ASSUME NEW s \in Text, s # <<>>, Len(s) <= 1
  PROVE  s = <<Last(s)>> /\ Len(s) = 1
<1>1. s \in Seq(Nat \ {0}) /\ Len(s) = 1
  <2>. DEFINE m == Len(s)
  <2>1. m \in Nat \ {0}
    BY FrontLen
  <2>2. m <= 1
    OBVIOUS
  <2>. HIDE DEF m
  <2>3. m = 1
    BY <2>1, <2>2
  <2>. QED BY <2>3 DEF m, Text
<1>2. <<Last(s)>> \in Seq(Nat \ {0}) /\ Last(s) = s[1]
  BY <1>1, LastText DEF Last, Text
<1>3. Len(<<Last(s)>>) = 1 /\ <<Last(s)>>[1] = Last(s)
  OBVIOUS
<1>4. \A i \in 1..Len(s) : s[i] = <<Last(s)>>[i]
  BY <1>1, <1>2, <1>3
<1>. QED BY <1>1, <1>2, <1>3, <1>4, SeqEqual

LEMMA ConfirmsSelf == ASSUME NEW e PROVE Confirms(e, e) /\ SamePopup(e, e)
BY DEF Confirms, SamePopup

LEMMA ConfirmsTrans ==
  ASSUME NEW e, NEW f, NEW g, Confirms(e, f), Confirms(f, g)
  PROVE  Confirms(e, g)
BY DEF Confirms

\* An engine that composes nothing has nothing to confirm.
LEMMA ConfirmsIdle ==
  ASSUME NEW e \in Engine, NEW f \in Engine, Confirms(e, f), e.preedit = <<>>
  PROVE  f.preedit = <<>> /\ f.commit = e.commit
<1>1. f.preedit = <<>>
  BY DEF Confirms
<1>2. f.commit \o <<>> = e.commit \o <<>>
  BY <1>1 DEF Confirms, Held
<1>. QED BY <1>1, <1>2, EngineFields, ConcatNone

\* Unless a conversion is under way, confirming leaves no popup without its text.
LEMMA ConfirmsSound ==
  ASSUME NEW e, NEW f, Confirms(e, f), SamePopup(e, f), Sound(e), ~e.conv \/ f.preedit = e.preedit
  PROVE  Sound(f) /\ (Plain(e) => Plain(f))
BY DEF Confirms, SamePopup, Sound, Plain

LEMMA FlushText ==
  ASSUME NEW e \in Engine
  PROVE  LET f == FlushPreedit(e)
         IN  Confirms(e, f) /\ SamePopup(e, f) /\ f.word = e.word /\ f.preedit = <<>>
<1>. DEFINE f == FlushPreedit(e)
<1>1. /\ f.commit = Held(e) /\ f.preedit = <<>> /\ f.word = e.word
      /\ f.conv = e.conv /\ f.popup = e.popup /\ f.target = e.target
  BY DEF FlushPreedit, Engine, Held
<1>2. Held(f) = Held(e)
  BY <1>1, HeldText, ConcatNone DEF Held
<1>. QED BY <1>1, <1>2 DEF Confirms, SamePopup

LEMMA SetCategoryText ==
  ASSUME NEW e \in Engine, NEW cat \in Categories
  PROVE  LET f == SetInputCategory(e, cat)
         IN  Confirms(e, f) /\ SamePopup(e, f) /\ f.word = e.word
<1>1. CASE e.cat = cat
  BY <1>1, ConfirmsSelf DEF SetInputCategory
<1>2. CASE e.cat # cat
  <2>. DEFINE g == FlushPreedit(e)
              f == [g EXCEPT !.cat = cat]
  <2>1. g \in Engine /\ Confirms(e, g) /\ SamePopup(e, g) /\ g.word = e.word
    BY Flush, FlushText DEF Keeps
  <2>. HIDE DEF g
  <2>2. f.commit = g.commit /\ f.preedit = g.preedit /\ f.word = g.word
        /\ f.conv = g.conv /\ f.popup = g.popup /\ f.target = g.target
    BY <2>1 DEF Engine
  <2>3. SetInputCategory(e, cat) = f
    BY <1>2 DEF SetInputCategory, g
  <2>. HIDE DEF f
  <2>. QED BY <2>1, <2>2, <2>3 DEF Confirms, SamePopup, Held
<1>. QED BY <1>1, <1>2

LEMMA SetWordText ==
  ASSUME NEW e \in Engine, NEW on \in BOOLEAN
  PROVE  LET f == SetWordMode(e, on)
         IN  Confirms(e, f) /\ SamePopup(e, f) /\ f.word = on /\ f.preedit = <<>>
<1>. DEFINE g == FlushPreedit(e)
            f == [g EXCEPT !.word = on]
<1>1. g \in Engine /\ Confirms(e, g) /\ SamePopup(e, g) /\ g.preedit = <<>>
  BY Flush, FlushText DEF Keeps
<1>. HIDE DEF g
<1>2. f.commit = g.commit /\ f.preedit = g.preedit /\ f.word = on
      /\ f.conv = g.conv /\ f.popup = g.popup /\ f.target = g.target
  BY <1>1 DEF Engine
<1>3. SetWordMode(e, on) = f
  BY DEF SetWordMode, g
<1>. HIDE DEF f
<1>. QED BY <1>1, <1>2, <1>3 DEF Confirms, SamePopup, Held

LEMMA GateText ==
  ASSUME NEW e \in Engine, NEW on \in BOOLEAN
  PROVE  LET f == ApplyWordGate(e, on)
         IN  Confirms(e, f) /\ SamePopup(e, f) /\ f.word = on /\ (f.word = e.word => f = e)
BY SetWordText, ConfirmsSelf DEF ApplyWordGate

LEMMA RebuildText ==
  ASSUME NEW e \in Engine, NEW layout \in Layouts
  PROVE  LET f == RebuildKoreanContext(e, layout)
         IN  Confirms(e, f) /\ SamePopup(e, f)
<1>. DEFINE g == FlushPreedit(e)
            f == [g EXCEPT !.kor = layout, !.word = FALSE]
<1>1. g \in Engine /\ Confirms(e, g) /\ SamePopup(e, g)
  BY Flush, FlushText DEF Keeps
<1>. HIDE DEF g
<1>2. f.commit = g.commit /\ f.preedit = g.preedit
      /\ f.conv = g.conv /\ f.popup = g.popup /\ f.target = g.target
  BY <1>1 DEF Engine
<1>3. RebuildKoreanContext(e, layout) = f
  BY DEF RebuildKoreanContext, g
<1>. HIDE DEF f
<1>. QED BY <1>1, <1>2, <1>3 DEF Confirms, SamePopup, Held

LEMMA ContentPurposeText ==
  ASSUME NEW e \in Engine, NEW purpose \in Purposes
  PROVE  LET f == SetContentPurpose(e, purpose)
         IN  Confirms(e, f) /\ SamePopup(e, f) /\ f.word = e.word
<1>. DEFINE told == [e EXCEPT !.purpose = purpose]
<1>1. /\ told \in Engine /\ told.commit = e.commit /\ told.preedit = e.preedit
      /\ told.word = e.word /\ SamePopup(e, told)
  BY DEF Engine, SamePopup
<1>. HIDE DEF told
<1>2. CASE e.purpose = purpose
  BY <1>2, ConfirmsSelf DEF SetContentPurpose
<1>3. CASE e.purpose # purpose /\ ~ShouldBlockHangul(purpose) /\ e.saved = None
  BY <1>1, <1>3 DEF SetContentPurpose, told, Confirms, Held
<1>4. CASE e.purpose # purpose /\ (ShouldBlockHangul(purpose) \/ e.saved # None)
  <2>1. PICK saved \in Categories \cup {None}, cat \in Categories :
          SetContentPurpose(e, purpose) = SetInputCategory([told EXCEPT !.saved = saved], cat)
    <3>1. CASE ShouldBlockHangul(purpose)
      <4>1. SetContentPurpose(e, purpose) =
              SetInputCategory([told EXCEPT !.saved = IF told.saved = None THEN e.cat
                                                      ELSE told.saved], "English")
        BY <1>4, <3>1 DEF SetContentPurpose, told
      <4>. QED BY <1>1, <4>1, EngineFields DEF Categories
    <3>2. CASE ~ShouldBlockHangul(purpose)
      <4>1. e.saved \in Categories
        BY <1>4, <3>2, EngineFields
      <4>2. SetContentPurpose(e, purpose) = SetInputCategory([told EXCEPT !.saved = None], e.saved)
        BY <1>4, <3>2 DEF SetContentPurpose, told
      <4>. QED BY <4>1, <4>2
    <3>. QED BY <3>1, <3>2
  <2>. DEFINE f == [told EXCEPT !.saved = saved]
  <2>2. f \in Engine /\ f.commit = e.commit /\ f.preedit = e.preedit /\ f.word = e.word /\ SamePopup(e, f)
    BY <1>1 DEF Engine, SamePopup
  <2>. HIDE DEF f
  <2>3. /\ Confirms(f, SetInputCategory(f, cat)) /\ SamePopup(f, SetInputCategory(f, cat))
        /\ SetInputCategory(f, cat).word = f.word
    BY <2>2, SetCategoryText
  <2>4. Confirms(e, f)
    BY <2>2 DEF Confirms, Held
  <2>. QED BY <2>1, <2>2, <2>3, <2>4, ConfirmsTrans DEF f, SamePopup
<1>. QED BY <1>2, <1>3, <1>4

LEMMA NewText ==
  ASSUME NEW layout, NEW cat
  PROVE  LET f == NewEngine(layout, cat)
         IN  /\ f.commit = <<>> /\ f.preedit = <<>> /\ Held(f) = <<>> /\ f.word = FALSE
             /\ Plain(f) /\ Sound(f)
BY EmptyText, ConcatNone DEF NewEngine, Held, Plain, Sound

LEMMA StartText ==
  ASSUME NEW e \in Engine, Sound(e), Single(e), NEW f \in StartHanjaConversion(e)
  PROVE  Held(f) = Held(e) /\ f.commit = e.commit /\ f.preedit = e.preedit /\ Sound(f) /\ Single(f)
<1>1. CASE f = e
  BY <1>1
<1>2. CASE f # e
  <2>1. IsComposing(e) /\ f = [e EXCEPT !.conv = TRUE, !.popup = "conv", !.target = <<Last(e.preedit)>>]
    BY <1>2 DEF StartHanjaConversion
  <2>2. /\ f.conv = TRUE /\ f.popup = "conv" /\ f.target = <<Last(e.preedit)>>
        /\ f.commit = e.commit /\ f.preedit = e.preedit /\ f.word = e.word
    BY <2>1 DEF Engine
  <2>3. e.preedit \in Text /\ e.preedit # <<>> /\ Len(e.preedit) <= 1
    BY <2>1, EngineFields DEF IsComposing, Single
  <2>4. e.preedit = <<Last(e.preedit)>> /\ Len(e.preedit) = 1
    BY <2>3, LastOfOne
  <2>. QED BY <2>2, <2>4 DEF Held, Sound, Single
<1>. QED BY <1>1, <1>2

\* A popup closed by a key leaves its text confirmed.
LEMMA PopupCancelText ==
  ASSUME NEW e \in Engine, Sound(e)
  PROVE  LET f == PopupCancel(e)
         IN  Confirms(e, f) /\ Sound(f) /\ Plain(f) /\ f.word = e.word
<1>. DEFINE h == [e EXCEPT !.commit = e.commit \o e.target]
            f == PopupCancel(e)
<1>1. CASE e.conv
  <2>1. h \in Engine /\ h.commit = Held(e) /\ h.word = e.word
    BY <1>1, HeldText DEF Engine, Sound, Held
  <2>2. f = CancelConversion(h)
    BY <1>1 DEF PopupCancel
  <2>. HIDE DEF h
  <2>3. /\ f.commit = Held(e) /\ f.preedit = <<>> /\ f.word = e.word
        /\ f.conv = FALSE /\ f.popup = "none" /\ f.target = <<>>
    BY <2>1, <2>2 DEF CancelConversion, Engine
  <2>4. Held(f) = Held(e)
    BY <2>3, HeldText, ConcatNone DEF Held
  <2>. QED BY <2>3, <2>4 DEF Confirms, Sound, Plain
<1>2. CASE ~e.conv
  <2>1. f = CancelEmojiPopup(e)
    BY <1>2 DEF PopupCancel
  <2>2. /\ f.commit = e.commit /\ f.preedit = e.preedit /\ f.word = e.word
        /\ f.conv = e.conv /\ f.popup = "none" /\ f.target = e.target
    BY <2>1 DEF CancelEmojiPopup, Engine
  <2>. QED BY <1>2, <2>2 DEF Confirms, Held, Sound, Plain
<1>. QED BY <1>1, <1>2

-----------------------------------------------------------------------------
(* What a key does to the text: nothing, or a character more at its end, or one *)
(* less.  A character of an English engine that composes, which is not Quiet,   *)
(* comes before the composition.                                                *)

Stays(e, taken, o)  == o.typed = taken /\ Held(o.engine) = Held(e)
Adds(e, taken, o)   == /\ o.typed = TypeChar(taken)
                       /\ Held(o.engine) = Append(Held(e), Len(taken) + 1)
Inserts(e, taken, o) == /\ o.typed = TypeChar(taken) /\ ~Quiet(e)
                        /\ Held(o.engine) = Append(e.commit, Len(taken) + 1) \o e.preedit
Erases(e, taken, o) == /\ o.typed = Front(taken) /\ e.preedit # <<>>
                       /\ o.engine.commit = e.commit /\ o.engine.preedit = Front(e.preedit)

KeyText(e, key, taken, o) ==
  /\ \/ Stays(e, taken, o) \/ Adds(e, taken, o) \/ Inserts(e, taken, o)
     \/ key = "backspace" /\ Erases(e, taken, o)
  /\ Sound(o.engine)
  /\ Single(e) => Single(o.engine)
  /\ key # "hanja" /\ Plain(e) => Plain(o.engine)

\* A key pressed after something was confirmed.
LEMMA KeyTextAfter ==
  ASSUME NEW e, NEW f, NEW key, NEW taken, NEW o, Confirms(e, f), Keeps(e, f), f.word = e.word,
         Plain(e) => Plain(f), KeyText(f, key, taken, o)
  PROVE  KeyText(e, key, taken, o)
<1>1. Single(e) => Single(f)
  <2>1. Len(<<>>) <= 1
    OBVIOUS
  <2>. QED BY <2>1 DEF Confirms, Single
<1>2. ~Quiet(f) => ~Quiet(e) /\ f.preedit = e.preedit /\ f.commit = e.commit
  BY DEF Keeps, Quiet, IsComposing, Confirms
<1>3. f.preedit # <<>> => f.preedit = e.preedit /\ f.commit = e.commit
  BY DEF Confirms
<1>4. Held(f) = Held(e)
  BY DEF Confirms
<1>. QED BY <1>1, <1>2, <1>3, <1>4 DEF KeyText, Stays, Adds, Inserts, Erases

\* A key that only confirms.
LEMMA StaysText ==
  ASSUME NEW e, NEW f, NEW key, NEW taken, Confirms(e, f), f.word = e.word, Sound(f),
         Plain(e) => Plain(f)
  PROVE  KeyText(e, key, taken, Outcome(f, taken))
<1>1. Single(e) => Single(f)
  <2>1. Len(<<>>) <= 1
    OBVIOUS
  <2>. QED BY <2>1 DEF Confirms, Single
<1>. QED BY <1>1 DEF KeyText, Stays, Confirms, Outcome

\* A character confirmed at once.
LEMMA CommitCharText ==
  ASSUME NEW e \in Engine, NEW key, NEW taken \in Text, Sound(e),
         e.preedit = <<>> \/ ~Quiet(e)
  PROVE  KeyText(e, key, taken, CommitChar(e, taken))
<1>. DEFINE n == Len(taken) + 1
            f == [e EXCEPT !.commit = Append(e.commit, n)]
<1>1. /\ f.commit = Append(e.commit, n) /\ f.preedit = e.preedit /\ f.word = e.word
      /\ f.conv = e.conv /\ f.popup = e.popup /\ f.target = e.target
  BY DEF Engine
<1>2. CommitChar(e, taken) = Outcome(f, TypeChar(taken))
  BY DEF CommitChar
<1>3. Append(e.commit, n) \in Text
  BY EngineFields, TypeCharText
<1>. HIDE DEF f
<1>4. e.preedit = <<>> => Held(f) = Append(Held(e), n)
  BY <1>1, <1>3, ConcatNone, EngineFields DEF Held
<1>5. Held(f) = Append(e.commit, n) \o e.preedit
  BY <1>1 DEF Held
<1>6. Sound(f) /\ (Single(e) => Single(f)) /\ (Plain(e) => Plain(f))
  BY <1>1 DEF Sound, Single, Plain
<1>. DEFINE o == Outcome(f, TypeChar(taken))
<1>7. o.engine = f /\ o.typed = TypeChar(taken)
  BY DEF Outcome
<1>. HIDE DEF o
<1>8. Adds(e, taken, o) \/ Inserts(e, taken, o)
  BY <1>4, <1>5, <1>7 DEF Adds, Inserts
<1>. QED BY <1>2, <1>6, <1>7, <1>8 DEF KeyText, o

LEMMA JamoText ==
  ASSUME NEW e \in Engine, NEW taken \in Text, Sound(e), Plain(e), NEW o \in ProcessJamo(e, taken)
  PROVE  KeyText(e, "jamo", taken, o)
<1>. DEFINE n    == Len(taken) + 1
            kept == IF e.word THEN e ELSE FlushPreedit(e)
            f    == [kept EXCEPT !.preedit = Append(kept.preedit, n)]
<1>1. o = Outcome(f, TypeChar(taken)) \/ o = Outcome(e, taken)
  BY DEF ProcessJamo
<1>2. KeyText(e, "jamo", taken, Outcome(e, taken))
  BY ConfirmsSelf, StaysText
<1>3. /\ kept \in Engine /\ Confirms(e, kept) /\ SamePopup(e, kept) /\ kept.word = e.word
      /\ ~e.word => kept.preedit = <<>>
  BY Flush, FlushText, ConfirmsSelf DEF Keeps
<1>. HIDE DEF kept
<1>4. /\ f.commit = kept.commit /\ f.preedit = Append(kept.preedit, n) /\ f.word = kept.word
      /\ f.conv = kept.conv /\ f.popup = kept.popup /\ f.target = kept.target
  BY <1>3 DEF Engine
<1>. HIDE DEF f
<1>5. n \in Nat \ {0}
  BY DEF Text
<1>6. Held(f) = Append(Held(e), n)
  <2>1. kept.commit \in Text /\ kept.preedit \in Text
    BY <1>3, EngineFields
  <2>2. Held(f) = kept.commit \o Append(kept.preedit, n)
    BY <1>4 DEF Held
  <2>3. Held(f) = Append(Held(kept), n)
    BY <1>5, <2>1, <2>2, ConcatAppend DEF Held
  <2>. QED BY <1>3, <2>3 DEF Confirms
<1>7. Sound(f) /\ Plain(f)
  BY <1>3, <1>4 DEF Sound, Plain, SamePopup
<1>8. Single(e) => Single(f)
  <2>1. Len(Append(<<>>, n)) = 1
    BY <1>5
  <2>. QED BY <1>3, <1>4, <2>1 DEF Single
<1>. HIDE DEF n
<1>9. KeyText(e, "jamo", taken, Outcome(f, TypeChar(taken)))
  BY <1>6, <1>7, <1>8 DEF KeyText, Adds, Outcome, n
<1>. QED BY <1>1, <1>2, <1>9

LEMMA BackspaceText ==
  ASSUME NEW e \in Engine, NEW taken, Sound(e), Plain(e), NEW o \in ProcessBackspace(e, taken)
  PROVE  KeyText(e, "backspace", taken, o)
<1>1. KeyText(e, "backspace", taken, Outcome(e, taken))
  BY ConfirmsSelf, StaysText
<1>2. CASE o # Outcome(e, taken)
  <2>. DEFINE f == [e EXCEPT !.preedit = Front(e.preedit)]
  <2>1. IsComposing(e) /\ o = Outcome(f, Front(taken))
    BY <1>2 DEF ProcessBackspace
  <2>2. /\ f.commit = e.commit /\ f.preedit = Front(e.preedit) /\ f.word = e.word
        /\ f.conv = e.conv /\ f.popup = e.popup /\ f.target = e.target
    BY DEF Engine
  <2>. HIDE DEF f
  <2>3. e.preedit # <<>> /\ e.preedit \in Text
    BY <2>1, EngineFields DEF IsComposing
  <2>4. Sound(f) /\ Plain(f)
    BY <2>2 DEF Sound, Plain
  <2>5. Single(e) => Single(f)
    <3>1. Len(Front(e.preedit)) <= Len(e.preedit) /\ Len(e.preedit) \in Nat /\ Len(Front(e.preedit)) \in Nat
      BY <2>3, FrontLen
    <3>. QED BY <2>2, <3>1 DEF Single
  <2>. QED BY <2>1, <2>2, <2>3, <2>4, <2>5 DEF KeyText, Erases, Outcome
<1>. QED BY <1>1, <1>2

LEMMA AutoText ==
  ASSUME NEW e \in Engine, NEW taken \in Text, Sound(e), Plain(e), NEW o \in AutoEnglish(e, taken)
  PROVE  KeyText(e, "auto", taken, o)
<1>. DEFINE g == FlushPreedit(e)
            f == SetInputCategory(g, "English")
<1>1. g \in Engine /\ Keeps(e, g) /\ Confirms(e, g) /\ SamePopup(e, g) /\ g.word = e.word /\ g.preedit = <<>>
  BY Flush, FlushText DEF Keeps
<1>. HIDE DEF g
<1>2. f \in Engine /\ Keeps(g, f) /\ Confirms(g, f) /\ SamePopup(g, f) /\ f.word = g.word
  BY <1>1, SetCategory, SetCategoryText DEF Keeps, Categories
<1>. HIDE DEF f
<1>3. Keeps(e, f) /\ Confirms(e, f) /\ SamePopup(e, f) /\ f.preedit = <<>> /\ f.word = e.word
  BY <1>1, <1>2, KeepsTrans, ConfirmsTrans DEF SamePopup, Confirms
<1>4. Sound(f) /\ Plain(f)
  BY <1>3, ConfirmsSound DEF Plain
<1>5. KeyText(e, "auto", taken, Outcome(f, taken))
  BY <1>3, <1>4, StaysText
<1>6. KeyText(f, "auto", taken, CommitChar(f, taken))
  BY <1>2, <1>3, <1>4, CommitCharText
<1>7. KeyText(e, "auto", taken, CommitChar(f, taken))
  BY <1>3, <1>4, <1>6, KeyTextAfter
<1>8. o = Outcome(f, taken) \/ o = CommitChar(f, taken)
  BY DEF AutoEnglish, f, g
<1>. QED BY <1>5, <1>7, <1>8

LEMMA KoreanKeyText ==
  ASSUME NEW e \in Engine, NEW taken \in Text, Sound(e), Plain(e),
         NEW key \in {"jamo", "char", "other", "backspace", "auto"},
         NEW o \in ProcessKoreanKey(e, key, taken)
  PROVE  KeyText(e, key, taken, o)
<1>1. CASE key = "jamo"
  BY <1>1, JamoText DEF ProcessKoreanKey
<1>2. CASE key \in {"char", "other"}
  <2>. DEFINE f == FlushPreedit(e)
  <2>1. f \in Engine /\ Keeps(e, f) /\ Confirms(e, f) /\ SamePopup(e, f) /\ f.word = e.word /\ f.preedit = <<>>
    BY Flush, FlushText DEF Keeps
  <2>2. o = CommitChar(f, taken) \/ o = Outcome(f, taken)
    BY <1>2 DEF ProcessKoreanKey
  <2>. HIDE DEF f
  <2>3. Sound(f) /\ Plain(f)
    BY <2>1, ConfirmsSound DEF Plain
  <2>4. KeyText(e, key, taken, Outcome(f, taken))
    BY <2>1, <2>3, StaysText
  <2>5. KeyText(f, key, taken, CommitChar(f, taken))
    BY <2>1, <2>3, CommitCharText
  <2>6. KeyText(e, key, taken, CommitChar(f, taken))
    BY <2>1, <2>3, <2>5, KeyTextAfter
  <2>. QED BY <2>2, <2>4, <2>6
<1>3. CASE key = "backspace"
  BY <1>3, BackspaceText DEF ProcessKoreanKey
<1>4. CASE key = "auto"
  BY <1>4, AutoText DEF ProcessKoreanKey
<1>. QED BY <1>1, <1>2, <1>3, <1>4

LEMMA EnglishKeyText ==
  ASSUME NEW e \in Engine, NEW taken \in Text, Sound(e), e.cat # "Korean", NEW key,
         NEW o \in ProcessEnglishKey(e, key, taken)
  PROVE  KeyText(e, key, taken, o)
<1>1. o = CommitChar(e, taken) \/ o = Outcome(e, taken)
  BY DEF ProcessEnglishKey
<1>2. KeyText(e, key, taken, Outcome(e, taken))
  BY ConfirmsSelf, StaysText
<1>3. e.preedit = <<>> \/ ~Quiet(e)
  BY DEF Quiet, IsComposing
<1>4. KeyText(e, key, taken, CommitChar(e, taken))
  BY <1>3, CommitCharText
<1>. QED BY <1>1, <1>2, <1>4

LEMMA ToggleText ==
  ASSUME NEW e \in Engine, NEW taken \in Text, Sound(e), Plain(e), NEW o \in ToggleKey(e, taken)
  PROVE  KeyText(e, "toggle", taken, o)
<1>. DEFINE g == FlushPreedit(e)
            f == [g EXCEPT !.cat = IF @ = "Korean" THEN "English" ELSE "Korean"]
<1>1. o = Outcome(e, taken) \/ o = Outcome(f, taken)
  BY DEF ToggleKey
<1>2. g \in Engine /\ Confirms(e, g) /\ SamePopup(e, g) /\ g.word = e.word
  BY Flush, FlushText DEF Keeps
<1>. HIDE DEF g
<1>3. /\ f.commit = g.commit /\ f.preedit = g.preedit /\ f.word = g.word
      /\ f.conv = g.conv /\ f.popup = g.popup /\ f.target = g.target
  BY <1>2 DEF Engine
<1>. HIDE DEF f
<1>4. Confirms(e, f) /\ SamePopup(e, f) /\ f.word = e.word
  BY <1>2, <1>3 DEF Confirms, SamePopup, Held
<1>5. Sound(f) /\ Plain(f)
  BY <1>4, ConfirmsSound DEF Plain
<1>. QED BY <1>1, <1>4, <1>5, StaysText, ConfirmsSelf

LEMMA ShortcutText ==
  ASSUME NEW e \in Engine, NEW taken \in Text, Sound(e), Plain(e), NEW o \in ShortcutKey(e, taken)
  PROVE  KeyText(e, "shortcut", taken, o)
<1>. DEFINE g == FlushPreedit(e)
            f == SetInputCategory(g, "English")
<1>1. o = Outcome(g, taken) \/ o = Outcome(f, taken)
  BY DEF ShortcutKey
<1>2. g \in Engine /\ Confirms(e, g) /\ SamePopup(e, g) /\ g.word = e.word
  BY Flush, FlushText DEF Keeps
<1>. HIDE DEF g
<1>3. Confirms(g, f) /\ SamePopup(g, f) /\ f.word = g.word
  BY <1>2, SetCategoryText DEF Categories
<1>. HIDE DEF f
<1>4. Confirms(e, f) /\ SamePopup(e, f) /\ f.word = e.word
  BY <1>2, <1>3, ConfirmsTrans DEF SamePopup
<1>5. Sound(f) /\ Plain(f) /\ Sound(g) /\ Plain(g)
  BY <1>2, <1>4, ConfirmsSound DEF Plain
<1>. QED BY <1>1, <1>2, <1>4, <1>5, StaysText

LEMMA HanjaText ==
  ASSUME NEW e \in Engine, NEW taken \in Text, Sound(e), Plain(e), Single(e),
         NEW o \in HanjaKey(e, taken)
  PROVE  KeyText(e, "hanja", taken, o)
<1>1. CASE IsComposing(e)
  <2>1. PICK f \in StartHanjaConversion(e) : o = Outcome(f, taken)
    BY <1>1 DEF HanjaKey
  <2>2. o.engine = f /\ o.typed = taken
    BY <2>1 DEF Outcome
  <2>. QED BY <2>2, StartText DEF KeyText, Stays
<1>2. CASE ~IsComposing(e)
  <2>. DEFINE f == StartEmojiPopup(e)
  <2>1. o = Outcome(f, taken)
    BY <1>2 DEF HanjaKey
  <2>2. /\ f.commit = e.commit /\ f.preedit = e.preedit /\ f.word = e.word
        /\ f.conv = e.conv /\ f.popup = "emoji" /\ f.target = e.target
    BY DEF StartEmojiPopup, Engine
  <2>. HIDE DEF f
  <2>3. Held(f) = Held(e) /\ Sound(f) /\ Single(f)
    BY <1>2, <2>2 DEF Held, Sound, Single, Plain, IsComposing
  <2>4. o.engine = f /\ o.typed = taken
    BY <2>1 DEF Outcome
  <2>. QED BY <2>3, <2>4 DEF KeyText, Stays
<1>. QED BY <1>1, <1>2

LEMMA ForcedText ==
  ASSUME NEW e \in Engine
  PROVE  LET f == ForceEnglish(e) IN Confirms(e, f) /\ SamePopup(e, f) /\ f.word = e.word
BY SetCategoryText, ConfirmsSelf DEF ForceEnglish, Categories

LEMMA NoPopupText ==
  ASSUME NEW e \in Engine, NEW taken \in Text, NEW key \in Keys, Sound(e), Plain(e),
         key = "hanja" => Single(e), NEW o \in PressKeyNoPopup(e, key, taken)
  PROVE  KeyText(e, key, taken, o)
<1>. DEFINE f == ForceEnglish(e)
<1>1. CASE key = "toggle"
  BY <1>1, ToggleText DEF PressKeyNoPopup
<1>2. CASE key = "atf"
  BY <1>2, ConfirmsSelf, StaysText DEF PressKeyNoPopup
<1>3. CASE key = "shortcut"
  BY <1>3, ShortcutText DEF PressKeyNoPopup
<1>4. CASE key \in {"hanja", "jamo", "char", "other", "backspace", "auto"}
  <2>1. f \in Engine /\ Keeps(e, f) /\ Confirms(e, f) /\ SamePopup(e, f) /\ f.word = e.word
    BY Forced, ForcedText
  <2>2. \/ key = "hanja" /\ o \in HanjaKey(f, taken)
        \/ key # "hanja" /\ f.cat = "Korean" /\ o \in ProcessKoreanKey(f, key, taken)
        \/ f.cat # "Korean" /\ o \in ProcessEnglishKey(f, key, taken)
    BY <1>4 DEF PressKeyNoPopup
  <2>. HIDE DEF f
  <2>3. Sound(f) /\ Plain(f)
    BY <2>1, ConfirmsSound DEF Plain
  <2>4. key = "hanja" => Single(f)
    <3>1. Len(<<>>) <= 1
      OBVIOUS
    <3>. QED BY <2>1, <3>1 DEF Single, Confirms
  <2>5. KeyText(f, key, taken, o)
    BY <1>4, <2>1, <2>2, <2>3, <2>4, HanjaText, KoreanKeyText, EnglishKeyText
  <2>. QED BY <2>1, <2>3, <2>5, KeyTextAfter
<1>. QED BY <1>1, <1>2, <1>3, <1>4 DEF Keys

\* press_key: no key loses or moves text, whatever popup it closes; an emoji is a
\* character of its own.
THEOREM PressKeyText ==
  ASSUME NEW e \in Engine, NEW taken \in Text, NEW key \in Keys, Sound(e),
         key = "hanja" => Single(e), NEW o \in PressKey(e, key, taken)
  PROVE  KeyText(e, key, taken, o)
<1>1. CASE ~PopupActive(e)
  <2>1. Plain(e)
    BY <1>1, EngineFields DEF PopupActive, Plain, Sound, Popups
  <2>. QED BY <1>1, <2>1, NoPopupText DEF PressKey
<1>2. CASE PopupActive(e)
  <2>. DEFINE n == Len(taken) + 1
              f == PopupCancel(e)
              g == PopupSelect(e, n)
              t == IF e.conv THEN taken ELSE TypeChar(taken)
  <2>1. \/ o \in PressKeyNoPopup(f, key, taken)
        \/ o = Outcome(e, taken) \/ o = Outcome(f, taken) \/ o = Outcome(g, t)
    BY <1>2 DEF PressKey, ProcessPopupKey
  <2>2. f \in Engine /\ Keeps(e, f) /\ Confirms(e, f) /\ Sound(f) /\ Plain(f) /\ f.word = e.word
    BY ClosePopup, PopupCancelText DEF Keeps
  <2>3. Single(e) => Single(f)
    <3>1. Len(<<>>) <= 1
      OBVIOUS
    <3>. QED BY <2>2, <3>1 DEF Single, Confirms
  <2>4. CASE o \in PressKeyNoPopup(f, key, taken)
    <3>. HIDE DEF f
    <3>1. KeyText(f, key, taken, o)
      BY <2>2, <2>3, <2>4, NoPopupText
    <3>. QED BY <2>2, <3>1, KeyTextAfter
  <2>5. CASE o = Outcome(e, taken)
    BY <2>5, ConfirmsSelf, StaysText
  <2>6. CASE o = Outcome(f, taken)
    BY <2>2, <2>6, StaysText
  <2>7. CASE o = Outcome(g, t) /\ e.conv
    <3>1. g = f
      BY <2>7 DEF PopupSelect, PopupCancel, SelectConversion
    <3>. QED BY <2>2, <2>7, <3>1, StaysText
  <2>8. CASE o = Outcome(g, t) /\ ~e.conv
    <3>1. /\ g.commit = Append(e.commit, n) /\ g.preedit = e.preedit /\ g.word = e.word
          /\ g.conv = e.conv /\ g.popup = "none" /\ g.target = e.target
      BY <2>8 DEF PopupSelect, CancelEmojiPopup, Engine
    <3>2. e.preedit = <<>> /\ Append(e.commit, n) \in Text /\ e.commit \in Text
      BY <1>2, <2>8, TypeCharText, EngineFields DEF PopupActive, Sound
    <3>3. Held(g) = Append(Held(e), n)
      BY <3>1, <3>2, ConcatNone DEF Held
    <3>. HIDE DEF g
    <3>4. Sound(g) /\ Plain(g) /\ (Single(e) => Single(g))
      BY <2>8, <3>1 DEF Sound, Plain, Single
    <3>5. o.engine = g /\ o.typed = TypeChar(taken)
      BY <2>8 DEF Outcome
    <3>. QED BY <3>3, <3>4, <3>5 DEF KeyText, Adds
  <2>. QED BY <2>1, <2>4, <2>5, <2>6, <2>7, <2>8
<1>. QED BY <1>1, <1>2

-----------------------------------------------------------------------------
(* The worker. *)

\* What a handler may do to the engines: compose only where Quiet lets it, unless
\* it converts a selection; keep the layout of each or give it that of the
\* configuration.
Handled ==
  /\ "typefix" \notin Requests => \A d \in Ctx : Quiet(engines[d]) => Quiet(engines'[d])
  /\ \A d \in contexts' :
       \/ engines'[d].kor = cfg.kor
       \/ d \in contexts /\ engines'[d].kor = engines[d].kor

\* What a handler leaves to the prologue, the auto-typefix hotkey apart.
HandlerFrame ==
  /\ phase = "handle" /\ phase' = "poll"
  /\ koreanFp' = koreanFp /\ pending' = pending
  /\ "atf" \notin KeyClasses => cfg'.kor = cfg.kor

-----------------------------------------------------------------------------
(* The engines of a step. *)

LEMMA ConfigFields ==
  ASSUME NEW config \in Config
  PROVE  /\ config.sharing \in Sharings /\ config.deflt \in Categories
         /\ config.kor \in Layouts /\ config.atf \in BOOLEAN
BY DEF Config

LEMMA GateKeeps ==
  ASSUME NEW e \in Engine, NEW config, NEW c
  PROVE  Keeps(e, Gated(e, config, c))
<1>1. DesiredWordMode(config, c) \in BOOLEAN
  BY DEF DesiredWordMode
<1>. QED BY <1>1, ApplyGate DEF Gated

\* Text delivered to one application leaves every application's text well formed.
LEMMA DeliverType ==
  ASSUME TypeOK, NEW c \in Ctx, NEW text \in Text, Deliver(c, text)
  PROVE  delivered' \in [Ctx -> Text]
<1>1. delivered[c] \o text \in Text
  BY ConcatText DEF TypeOK
<1>. QED BY <1>1 DEF TypeOK, Deliver

\* A handler that changes one engine.
LEMMA OneEngine ==
  ASSUME TypeOK, NEW c \in Ctx, NEW f \in Engine,
         engines' = [engines EXCEPT ![c] = f],
         Quiet(engines[c]) => Quiet(f),
         f.kor = cfg.kor \/ (c \in contexts /\ f.kor = engines[c].kor),
         contexts' \subseteq contexts \cup {c}
  PROVE  engines' \in [Ctx -> Engine] /\ Handled
<1>1. engines' \in [Ctx -> Engine]
  BY DEF TypeOK
<1>2. \A d \in Ctx : engines'[d] = IF d = c THEN f ELSE engines[d]
  BY DEF TypeOK
<1>3. \A d \in contexts' : d \in Ctx /\ (d # c => d \in contexts)
  BY DEF TypeOK
<1>. QED BY <1>1, <1>2, <1>3 DEF Handled

\* The same, by an operator that keeps the engine's layout.
LEMMA OneKept ==
  ASSUME TypeOK, NEW c \in contexts, NEW f, Keeps(engines[c], f),
         engines' = [engines EXCEPT ![c] = f], contexts' = contexts
  PROVE  engines' \in [Ctx -> Engine] /\ Handled
<1>1. c \in Ctx
  BY DEF TypeOK
<1>. QED BY <1>1, OneEngine DEF Keeps

\* A handler that leaves the engines alone.
LEMMA NoEngine ==
  ASSUME TypeOK, engines' = engines, contexts' = contexts
  PROVE  engines' \in [Ctx -> Engine] /\ Handled
BY DEF TypeOK, Handled

LEMMA PropagateKeeps ==
  ASSUME NEW es \in [Ctx -> Engine], NEW c, NEW cat \in Categories
  PROVE  /\ Propagate(es, c, cat) \in [Ctx -> Engine]
         /\ \A d \in Ctx : Keeps(es[d], Propagate(es, c, cat)[d])
<1>1. \A d \in Ctx : Keeps(es[d], SetInputCategory(es[d], cat)) /\ Keeps(es[d], es[d])
  BY SetCategory, KeepsSelf
<1>2. \A d \in Ctx : Keeps(es[d], Propagate(es, c, cat)[d])
  BY <1>1 DEF Propagate
<1>3. \A d \in Ctx : SetInputCategory(es[d], cat) \in Engine
  BY <1>1 DEF Keeps
<1>. QED BY <1>2, <1>3 DEF Propagate

\* A handler that changes one engine, then every other one's category or none.
LEMMA OnePropagated ==
  ASSUME TypeOK, NEW c \in contexts, NEW f, Keeps(engines[c], f), NEW cat \in Categories,
         \/ engines' = [engines EXCEPT ![c] = f]
         \/ engines' = Propagate([engines EXCEPT ![c] = f], c, cat),
         contexts' = contexts
  PROVE  engines' \in [Ctx -> Engine] /\ Handled
<1>. DEFINE es == [engines EXCEPT ![c] = f]
<1>1. CASE engines' = es
  BY <1>1, OneKept
<1>2. CASE engines' = Propagate(es, c, cat)
  <2>1. c \in Ctx /\ f \in Engine
    BY DEF TypeOK, Keeps
  <2>2. es \in [Ctx -> Engine]
    BY <2>1 DEF TypeOK
  <2>3. \A d \in Ctx : Keeps(engines[d], es[d])
    BY <2>1, KeepsSelf DEF TypeOK
  <2>. HIDE DEF es
  <2>4. engines' \in [Ctx -> Engine] /\ \A d \in Ctx : Keeps(es[d], engines'[d])
    BY <1>2, <2>2, PropagateKeeps
  <2>5. \A d \in Ctx : Keeps(engines[d], engines'[d])
    BY <2>3, <2>4, KeepsTrans
  <2>. QED BY <2>4, <2>5 DEF TypeOK, Handled, Keeps
<1>. QED BY <1>1, <1>2

\* A new engine, as CreateContext, FocusOut and Reset make it.
LEMMA NewKeeps ==
  ASSUME TypeOK, NEW cat \in Categories, NEW c
  PROVE  LET f == Gated(NewEngine(cfg.kor, cat), cfg, c)
         IN  f \in Engine /\ Quiet(f) /\ f.kor = cfg.kor
<1>. DEFINE g == NewEngine(cfg.kor, cat)
            f == Gated(g, cfg, c)
<1>1. g \in Engine /\ g.kor = cfg.kor /\ Quiet(g)
  BY New, ConfigFields DEF TypeOK
<1>2. Keeps(g, f)
  BY <1>1, GateKeeps
<1>. QED BY <1>1, <1>2 DEF Keeps

-----------------------------------------------------------------------------
(* One lemma per handler. *)

LEMMA AppOfType == \A c \in Ctx : AppOf[c] \in Apps
BY WorkerAssumption

LEMMA CreateStep ==
  ASSUME TypeOK, NEW c \in Ctx, CreateContext(c)
  PROVE  TypeOK' /\ Handled /\ HandlerFrame
<1>. DEFINE saved == appModes[AppOf[c]]
            cat   == IF cfg.sharing = "PerApp" /\ saved # None THEN saved ELSE cfg.deflt
            f     == Gated(NewEngine(cfg.kor, cat), cfg, c)
<1>1. saved \in Categories \cup {None} /\ cfg \in Config
  BY AppOfType DEF TypeOK
<1>2. cat \in Categories
  BY <1>1, ConfigFields
<1>3. engines' = [engines EXCEPT ![c] = f] /\ contexts' \subseteq contexts \cup {c}
  BY DEF CreateContext
<1>. HIDE DEF cat
<1>4. f \in Engine /\ Quiet(f) /\ f.kor = cfg.kor
  BY <1>2, NewKeeps
<1>. HIDE DEF f
<1>5. engines' \in [Ctx -> Engine] /\ Handled
  BY <1>3, <1>4, OneEngine
<1>. QED BY <1>5 DEF CreateContext, TypeOK, HandlerFrame, Done, Handling, clientVars

LEMMA DestroyStep ==
  ASSUME TypeOK, NEW c \in Ctx, DestroyContext(c)
  PROVE  TypeOK' /\ Handled /\ HandlerFrame
<1>. DEFINE f == NewEngine(InitialLayout, "Korean")
<1>1. f \in Engine /\ Quiet(f)
  BY New, EngineAssumption DEF Categories
<1>2. engines' = [engines EXCEPT ![c] = f] /\ contexts' = contexts \ {c}
  BY DEF DestroyContext
<1>. HIDE DEF f
<1>3. engines' \in [Ctx -> Engine] /\ \A d \in Ctx : engines'[d] = IF d = c THEN f ELSE engines[d]
  BY <1>1, <1>2 DEF TypeOK
<1>4. Handled
  BY <1>1, <1>2, <1>3 DEF TypeOK, Handled
<1>5. typed' \in [Ctx -> Text] /\ delivered' \in [Ctx -> Text]
  BY EmptyText DEF DestroyContext, TypeOK
<1>. QED BY <1>2, <1>3, <1>4, <1>5
         DEF DestroyContext, TypeOK, HandlerFrame, Done, Handling, Purposes

LEMMA FocusInStep ==
  ASSUME TypeOK, NEW c \in Ctx, FocusIn(c)
  PROVE  TypeOK' /\ Handled /\ HandlerFrame
<1>1. c \in contexts /\ engines[c] \in Engine /\ AppOf[c] \in Apps
  BY AppOfType DEF FocusIn, TypeOK
<1>2. FocusInCategory(c) \in Categories
  BY <1>1, ConfigFields, EngineFields DEF FocusInCategory, TypeOK, Sharings
<1>3. RuleApplies(c) => AppRules[AppOf[c]] \in Categories
  BY <1>1, WorkerAssumption DEF RuleApplies
<1>. DEFINE restored == SetInputCategory(engines[c], FocusInCategory(c))
            ruled == IF RuleApplies(c) THEN SetInputCategory(restored, AppRules[AppOf[c]])
                     ELSE restored
<1>4. restored \in Engine /\ Keeps(engines[c], restored)
  BY <1>1, <1>2, SetCategory DEF Keeps
<1>. HIDE DEF restored
<1>5. Keeps(restored, ruled)
  BY <1>3, <1>4, SetCategory, KeepsSelf
<1>6. Keeps(engines[c], ruled) /\ ruled \in Engine
  BY <1>4, <1>5, KeepsTrans DEF Keeps
<1>7. FocusInEngine(c) = Gated(ruled, cfg, c)
  BY DEF FocusInEngine, restored
<1>. HIDE DEF ruled
<1>8. Keeps(engines[c], FocusInEngine(c))
  BY <1>6, <1>7, GateKeeps, KeepsTrans
<1>9. engines' \in [Ctx -> Engine] /\ Handled
  BY <1>1, <1>8, OneKept DEF FocusIn
<1>10. appModes' \in [Apps -> Categories \cup {None}]
  BY <1>1, <1>3 DEF FocusIn, TypeOK
<1>. QED BY <1>9, <1>10 DEF FocusIn, TypeOK, HandlerFrame, Done, Handling, Purposes

\* What FocusOut and Reset give the application, and the engine they leave.
LEMMA ResetKeeps ==
  ASSUME TypeOK, NEW c \in Ctx, NEW preserve \in BOOLEAN
  PROVE  /\ CapturedCommit(engines[c]) \in Text
         /\ LET f == ResetEngine(engines[c], c, preserve)
            IN  f \in Engine /\ Quiet(f) /\ f.kor = cfg.kor
<1>1. engines[c] \in Engine /\ cfg \in Config
  BY DEF TypeOK
<1>2. CapturedCommit(engines[c]) \in Text
  BY <1>1, EngineFields DEF CapturedCommit
<1>. DEFINE cat == IF preserve THEN engines[c].cat ELSE cfg.deflt
<1>3. cat \in Categories
  BY <1>1, EngineFields, ConfigFields
<1>4. ResetEngine(engines[c], c, preserve) = Gated(NewEngine(cfg.kor, cat), cfg, c)
  BY DEF ResetEngine
<1>. HIDE DEF cat
<1>. QED BY <1>2, <1>3, <1>4, NewKeeps

LEMMA FocusOutStep ==
  ASSUME TypeOK, NEW c \in Ctx, FocusOut(c)
  PROVE  TypeOK' /\ Handled /\ HandlerFrame
<1>. DEFINE shared == cfg.sharing # "Global"
            f      == ResetEngine(engines[c], c, shared)
<1>1. CapturedCommit(engines[c]) \in Text /\ f \in Engine /\ Quiet(f) /\ f.kor = cfg.kor
  BY ResetKeeps
<1>2. engines' = [engines EXCEPT ![c] = f] /\ contexts' \subseteq contexts \cup {c}
  BY DEF FocusOut
<1>. HIDE DEF f
<1>3. engines' \in [Ctx -> Engine] /\ Handled
  BY <1>1, <1>2, OneEngine
<1>4. delivered' \in [Ctx -> Text]
  BY <1>1, DeliverType DEF FocusOut
<1>. QED BY <1>3, <1>4 DEF FocusOut, TypeOK, HandlerFrame, Done, Handling, Purposes

LEMMA ResetStep ==
  ASSUME TypeOK, NEW c \in Ctx, Reset(c)
  PROVE  TypeOK' /\ Handled /\ HandlerFrame
<1>. DEFINE f == ResetEngine(engines[c], c, TRUE)
<1>1. CapturedCommit(engines[c]) \in Text /\ f \in Engine /\ Quiet(f) /\ f.kor = cfg.kor
  BY ResetKeeps
<1>2. engines' = [engines EXCEPT ![c] = f] /\ contexts' \subseteq contexts \cup {c}
  BY DEF Reset
<1>. HIDE DEF f
<1>3. engines' \in [Ctx -> Engine] /\ Handled
  BY <1>1, <1>2, OneEngine
<1>4. delivered' \in [Ctx -> Text]
  BY <1>1, DeliverType DEF Reset
<1>. QED BY <1>3, <1>4 DEF Reset, TypeOK, HandlerFrame, Done, Handling

\* A key with its bookkeeping of the category.
LEMMA NoFixStep ==
  ASSUME TypeOK, NEW c \in contexts, NEW e, Keeps(engines[c], e), PressNoFix(c, e),
         contexts' = contexts
  PROVE  /\ engines' \in [Ctx -> Engine] /\ Handled
         /\ delivered' \in [Ctx -> Text] /\ appModes' \in [Apps -> Categories \cup {None}]
         /\ cfg' \in Config /\ cfg'.kor = cfg.kor
<1>1. c \in Ctx /\ e \in Engine /\ cfg \in Config
  BY DEF TypeOK, Keeps
<1>2. e.cat \in Categories /\ e.commit \in Text
  BY <1>1, EngineFields
<1>. DEFINE f == [e EXCEPT !.commit = <<>>]
<1>3. Keeps(engines[c], f)
  BY <1>1, EmptyText, AddCommit, KeepsTrans
<1>4. \/ engines' = [engines EXCEPT ![c] = f]
      \/ engines' = Propagate([engines EXCEPT ![c] = f], c, e.cat)
  BY DEF PressNoFix
<1>. HIDE DEF f
<1>5. engines' \in [Ctx -> Engine] /\ Handled
  BY <1>2, <1>3, <1>4, OnePropagated
<1>6. delivered' \in [Ctx -> Text]
  BY <1>1, <1>2, DeliverType DEF PressNoFix
<1>7. cfg' \in Config /\ cfg'.kor = cfg.kor
  <2>1. cfg' = cfg \/ cfg' = [cfg EXCEPT !.deflt = e.cat]
    BY DEF PressNoFix
  <2>2. [cfg EXCEPT !.deflt = e.cat] \in Config /\ [cfg EXCEPT !.deflt = e.cat].kor = cfg.kor
    BY <1>1, <1>2 DEF Config
  <2>. QED BY <1>1, <2>1, <2>2
<1>8. appModes' \in [Apps -> Categories \cup {None}]
  BY <1>2, AppOfType DEF PressNoFix, TypeOK
<1>. QED BY <1>5, <1>6, <1>7, <1>8

\* A fix composes only when it turns a field that may compose to Korean.
LEMMA FixKeeps ==
  ASSUME TypeOK, NEW c \in Ctx, NEW e \in Engine, ~ShouldBlockHangul(e.purpose),
         NEW text \in Text, NEW n \in 0..Len(text), e.cat = "Korean" => n = 0
  PROVE  /\ Keeps(e, FixedEngine(c, e, n, text))
         /\ SubSeq(text, 1, Len(text) - n) \in Text
<1>. DEFINE cat   == IF e.cat = "Korean" THEN "English" ELSE "Korean"
            set   == SetInputCategory(e, cat)
            reset == ResetComposition(set)
            on    == DesiredWordMode(cfg, c)
            gated == SetWordMode(reset, on)
            live  == IF e.word /\ n > 0 THEN SetWordMode(gated, TRUE) ELSE gated
            tail  == SubSeq(text, Len(text) - n + 1, Len(text))
            f     == [live EXCEPT !.preedit = tail]
<1>1. Len(text) \in Nat /\ text \in Seq(Nat \ {0}) /\ n \in Nat /\ n <= Len(text)
  BY DEF Text
<1>2. tail \in Text /\ Len(tail) = n
  <2>1. Len(text) - n + 1 \in 1..Len(text) + 1 /\ Len(text) \in (Len(text) - n + 1) - 1..Len(text)
    BY <1>1
  <2>2. tail \in Seq(Nat \ {0}) /\ Len(tail) = IF Len(text) - n + 1 <= Len(text)
                                               THEN Len(text) - (Len(text) - n + 1) + 1 ELSE 0
    BY <1>1, <2>1, SubSeqProperties
  <2>. QED BY <1>1, <2>2 DEF Text
<1>3. SubSeq(text, 1, Len(text) - n) \in Text
  BY <1>1, SubSeqProperties DEF Text
<1>4. cat \in Categories /\ on \in BOOLEAN
  BY DEF Categories, DesiredWordMode
<1>. HIDE DEF on
<1>5. Keeps(e, set) /\ set \in Engine /\ set.cat = cat /\ set.purpose = e.purpose
  BY <1>4, SetCategory DEF Keeps
<1>. HIDE DEF set
<1>6. /\ Keeps(set, reset) /\ reset \in Engine
      /\ reset.cat = cat /\ reset.purpose = e.purpose
  BY <1>5, ResetComp DEF Keeps
<1>. HIDE DEF reset
<1>7. /\ Keeps(reset, gated) /\ gated \in Engine
      /\ gated.cat = cat /\ gated.purpose = e.purpose
  BY <1>4, <1>6, SetWord DEF Keeps
<1>. HIDE DEF gated
<1>8. /\ Keeps(gated, live) /\ live \in Engine
      /\ live.cat = cat /\ live.purpose = e.purpose
  <2>1. live = gated \/ live = SetWordMode(gated, TRUE)
    OBVIOUS
  <2>. HIDE DEF live
  <2>2. CASE live = gated
    BY <1>7, <2>2, KeepsSelf
  <2>3. CASE live = SetWordMode(gated, TRUE)
    BY <1>7, <2>3, SetWord DEF Keeps
  <2>. QED BY <2>1, <2>2, <2>3
<1>. HIDE DEF live
<1>9. live.kor = e.kor
  BY <1>5, <1>6, <1>7, <1>8 DEF Keeps
<1>10. f \in Engine /\ f.kor = e.kor /\ f.preedit = tail /\ f.cat = cat /\ f.purpose = e.purpose
  BY <1>2, <1>8, <1>9 DEF Engine
<1>11. tail # <<>> => cat = "Korean"
  <2>1. tail # <<>> => n # 0
    BY <1>2 DEF Text
  <2>. QED BY <2>1
<1>12. FixedEngine(c, e, n, text) = f
  BY DEF FixedEngine, f, tail, live, gated, on, reset, set
<1>. HIDE DEF tail, cat, f
<1>13. Keeps(e, f)
  BY <1>10, <1>11 DEF Keeps, Quiet, IsComposing
<1>. QED BY <1>3, <1>12, <1>13

LEMMA FixStep ==
  ASSUME TypeOK, NEW c \in contexts, NEW e, Keeps(engines[c], e), PressFix(c, e),
         contexts' = contexts
  PROVE  /\ engines' \in [Ctx -> Engine] /\ Handled
         /\ delivered' \in [Ctx -> Text] /\ appModes' \in [Apps -> Categories \cup {None}]
         /\ cfg' \in Config /\ cfg'.kor = cfg.kor
<1>. DEFINE text == delivered[c] \o e.commit \o e.preedit
<1>1. c \in Ctx /\ e \in Engine /\ cfg \in Config
  BY DEF TypeOK, Keeps
<1>2. text \in Text
  BY <1>1, EngineFields, ConcatText DEF TypeOK
<1>. HIDE DEF text
<1>3. PICK n \in 0..Len(text) :
        /\ e.cat = "Korean" => n = 0
        /\ cfg' = [cfg EXCEPT !.deflt = FixedEngine(c, e, n, text).cat]
        /\ \/ engines' = [engines EXCEPT ![c] = FixedEngine(c, e, n, text)]
           \/ engines' = Propagate([engines EXCEPT ![c] = FixedEngine(c, e, n, text)], c,
                                   FixedEngine(c, e, n, text).cat)
        /\ delivered' = [delivered EXCEPT ![c] = SubSeq(text, 1, Len(text) - n)]
  BY DEF PressFix, text
<1>4. ~ShouldBlockHangul(e.purpose) /\ appModes' = appModes
  BY DEF PressFix, FixAllowed
<1>. DEFINE f == FixedEngine(c, e, n, text)
<1>5. Keeps(e, f) /\ SubSeq(text, 1, Len(text) - n) \in Text
  BY <1>1, <1>2, <1>3, <1>4, FixKeeps
<1>6. Keeps(engines[c], f) /\ f.cat \in Categories
  BY <1>5, KeepsTrans, EngineFields DEF Keeps
<1>. HIDE DEF f
<1>7. engines' \in [Ctx -> Engine] /\ Handled
  BY <1>3, <1>6, OnePropagated DEF f
<1>8. delivered' \in [Ctx -> Text]
  BY <1>1, <1>3, <1>5 DEF TypeOK
<1>9. cfg' \in Config /\ cfg'.kor = cfg.kor
  BY <1>1, <1>3, <1>6 DEF Config, f
<1>. QED BY <1>4, <1>7, <1>8, <1>9 DEF TypeOK

LEMMA HotkeyStep ==
  ASSUME TypeOK, NEW c \in contexts, NEW e, Keeps(engines[c], e), ToggleAutoTypefix(c, e),
         contexts' = contexts
  PROVE  /\ engines' \in [Ctx -> Engine] /\ Handled
         /\ delivered' \in [Ctx -> Text] /\ appModes' \in [Apps -> Categories \cup {None}]
         /\ cfg' \in Config /\ file' \in Config /\ newer' \in BOOLEAN
<1>1. c \in Ctx /\ e \in Engine
  BY DEF TypeOK, Keeps
<1>2. LatestConfig \in Config
  BY DEF TypeOK, LatestConfig
<1>3. [LatestConfig EXCEPT !.atf = ~@] \in Config
  BY <1>2 DEF Config
<1>4. Keeps(engines[c], [e EXCEPT !.commit = <<>>])
  BY <1>1, EmptyText, AddCommit, KeepsTrans
<1>5. engines' = [engines EXCEPT ![c] = [e EXCEPT !.commit = <<>>]]
  BY DEF ToggleAutoTypefix
<1>6. engines' \in [Ctx -> Engine] /\ Handled
  BY <1>4, <1>5, OneKept
<1>7. delivered' \in [Ctx -> Text]
  BY <1>1, EngineFields, DeliverType DEF ToggleAutoTypefix
<1>. QED BY <1>3, <1>6, <1>7 DEF ToggleAutoTypefix, TypeOK

LEMMA KeyStep ==
  ASSUME TypeOK, NEW c \in Ctx, NEW key \in KeyClasses, ProcessKey(c, key)
  PROVE  TypeOK' /\ Handled /\ HandlerFrame
<1>1. c \in contexts /\ key \in Keys /\ contexts' = contexts
  BY WorkerAssumption DEF ProcessKey, MayType
<1>2. PICK o \in PressKey(engines[c], key, typed[c]) :
        /\ typed' = [typed EXCEPT ![c] = o.typed]
        /\ \/ PressNoFix(c, o.engine)
           \/ PressFix(c, o.engine)
           \/ key = "atf" /\ ToggleAutoTypefix(c, o.engine)
  BY DEF ProcessKey
<1>3. Keeps(engines[c], o.engine) /\ o.typed \in Text
  BY <1>1, <1>2, PressKeyKeeps DEF TypeOK, KeepsAll
<1>4. typed' \in [Ctx -> Text]
  BY <1>2, <1>3 DEF TypeOK
<1>5. /\ phase = "handle" /\ phase' = "poll" /\ koreanFp' = koreanFp /\ pending' = pending
      /\ writes' = writes
      /\ contexts' = contexts /\ lastFocused' = lastFocused /\ focus' = focus
  BY DEF ProcessKey, Handling, Done
<1>6. CASE PressNoFix(c, o.engine)
  <2>1. file' = file /\ newer' = newer
    BY <1>6 DEF PressNoFix
  <2>. QED BY <1>1, <1>3, <1>4, <1>5, <1>6, <2>1, NoFixStep DEF TypeOK, HandlerFrame
<1>7. CASE PressFix(c, o.engine)
  <2>1. file' = file /\ newer' = newer
    BY <1>7 DEF PressFix
  <2>. QED BY <1>1, <1>3, <1>4, <1>5, <1>7, <2>1, FixStep DEF TypeOK, HandlerFrame
<1>8. CASE key = "atf" /\ ToggleAutoTypefix(c, o.engine)
  BY <1>1, <1>3, <1>4, <1>5, <1>8, HotkeyStep DEF TypeOK, HandlerFrame
<1>. QED BY <1>2, <1>6, <1>7, <1>8

LEMMA SetGlobalModeStep ==
  ASSUME TypeOK, SetGlobalMode
  PROVE  TypeOK' /\ Handled /\ HandlerFrame
<1>1. PICK cat \in Categories :
        /\ cfg' = [cfg EXCEPT !.deflt = cat]
        /\ engines' = Propagate(engines, NoCtx, cat) \/ engines' = engines
  BY DEF SetGlobalMode
<1>2. cfg' \in Config /\ cfg'.kor = cfg.kor
  BY <1>1 DEF TypeOK, Config
<1>3. contexts' = contexts
  BY DEF SetGlobalMode
<1>4. engines' \in [Ctx -> Engine] /\ Handled
  <2>1. CASE engines' = Propagate(engines, NoCtx, cat)
    BY <1>3, <2>1, PropagateKeeps DEF TypeOK, Handled, Keeps
  <2>2. CASE engines' = engines
    BY <1>3, <2>2, NoEngine
  <2>. QED BY <1>1, <2>1, <2>2
<1>. QED BY <1>2, <1>3, <1>4
         DEF SetGlobalMode, TypeOK, HandlerFrame, Done, Handling, clientVars

LEMMA SetContentTypeStep ==
  ASSUME TypeOK, NEW c \in Ctx, SetContentType(c)
  PROVE  TypeOK' /\ Handled /\ HandlerFrame
<1>1. PICK purpose \in Purposes :
        engines' = [engines EXCEPT ![c] = SetContentPurpose(engines[c], purpose)]
  BY DEF SetContentType
<1>2. c \in contexts /\ contexts' = contexts
  BY DEF SetContentType
<1>3. Keeps(engines[c], SetContentPurpose(engines[c], purpose))
  BY ContentPurpose DEF TypeOK
<1>4. engines' \in [Ctx -> Engine] /\ Handled
  BY <1>1, <1>2, <1>3, OneKept
<1>. QED BY <1>2, <1>4
         DEF SetContentType, TypeOK, HandlerFrame, Done, Handling, clientVars

LEMMA GlobalTypeFixStep ==
  ASSUME TypeOK, GlobalTypeFix
  PROVE  TypeOK' /\ Handled /\ HandlerFrame
<1>. DEFINE c == lastFocused
<1>1. PICK cat \in Categories : engines' = [engines EXCEPT ![c] = TypefixConvert(engines[c], cat)]
  BY DEF GlobalTypeFix
<1>2. c \in contexts /\ c \in Ctx /\ contexts' = contexts /\ "typefix" \in Requests
  BY DEF GlobalTypeFix, Handling, TypeOK
<1>. HIDE DEF c
<1>. DEFINE f == TypefixConvert(engines[c], cat)
<1>3. f \in Engine /\ f.kor = engines[c].kor
  BY <1>2, Typefix DEF TypeOK
<1>. HIDE DEF f
<1>4. engines' \in [Ctx -> Engine] /\ \A d \in Ctx : engines'[d] = IF d = c THEN f ELSE engines[d]
  BY <1>1, <1>2, <1>3 DEF TypeOK, f
<1>5. Handled
  BY <1>2, <1>3, <1>4 DEF Handled, TypeOK
<1>. QED BY <1>2, <1>4, <1>5 DEF GlobalTypeFix, TypeOK, HandlerFrame, Done, Handling, clientVars

LEMMA GetHanjaStep ==
  ASSUME TypeOK, NEW c \in Ctx, GetHanjaCandidates(c)
  PROVE  TypeOK' /\ Handled /\ HandlerFrame
<1>1. PICK f \in StartHanjaConversion(engines[c]) : engines' = [engines EXCEPT ![c] = f]
  BY DEF GetHanjaCandidates
<1>2. c \in contexts /\ contexts' = contexts
  BY DEF GetHanjaCandidates, MayType
<1>3. Keeps(engines[c], f)
  BY HanjaStart DEF TypeOK
<1>4. engines' \in [Ctx -> Engine] /\ Handled
  BY <1>1, <1>2, <1>3, OneKept
<1>. QED BY <1>2, <1>4 DEF GetHanjaCandidates, TypeOK, HandlerFrame, Done, Handling, clientVars

\* A popup's answer goes to a live context.
LEMMA OwnersLive ==
  ASSUME TypeOK, NEW c \in contexts, NEW owner \in PopupOwners(c)
  PROVE  /\ owner \in contexts /\ engines[owner] \in Engine
         /\ RedirectTarget(c) \in Ctx
BY DEF TypeOK, PopupOwners, Showing, RedirectTarget

LEMMA SelectStep ==
  ASSUME TypeOK, NEW c \in Ctx, SelectHanja(c)
  PROVE  TypeOK' /\ Handled /\ HandlerFrame
<1>1. c \in contexts /\ contexts' = contexts
  BY DEF SelectHanja
<1>2. PICK owner \in PopupOwners(c) :
        /\ engines' = [engines EXCEPT ![owner] = SelectConversion(engines[owner])]
        /\ Deliver(RedirectTarget(c), engines[owner].target)
  BY DEF SelectHanja
<1>3. owner \in contexts /\ engines[owner] \in Engine /\ RedirectTarget(c) \in Ctx
  BY <1>1, OwnersLive
<1>4. Keeps(engines[owner], SelectConversion(engines[owner]))
  BY <1>3, Cancel
<1>5. engines' \in [Ctx -> Engine] /\ Handled
  BY <1>1, <1>2, <1>3, <1>4, OneKept
<1>6. delivered' \in [Ctx -> Text]
  BY <1>2, <1>3, EngineFields, DeliverType
<1>. QED BY <1>1, <1>5, <1>6 DEF SelectHanja, TypeOK, HandlerFrame, Done, Handling

LEMMA CancelStep ==
  ASSUME TypeOK, NEW c \in Ctx, CancelHanja(c)
  PROVE  TypeOK' /\ Handled /\ HandlerFrame
<1>1. c \in contexts /\ contexts' = contexts
  BY DEF CancelHanja
<1>2. PICK owner \in PopupOwners(c) :
        /\ engines' = [engines EXCEPT ![owner] = CancelConversion(engines[owner])]
        /\ Deliver(RedirectTarget(c), engines[owner].target)
  BY DEF CancelHanja
<1>3. owner \in contexts /\ engines[owner] \in Engine /\ RedirectTarget(c) \in Ctx
  BY <1>1, OwnersLive
<1>4. Keeps(engines[owner], CancelConversion(engines[owner]))
  BY <1>3, Cancel
<1>5. engines' \in [Ctx -> Engine] /\ Handled
  BY <1>1, <1>2, <1>3, <1>4, OneKept
<1>6. delivered' \in [Ctx -> Text]
  BY <1>2, <1>3, EngineFields, DeliverType
<1>. QED BY <1>1, <1>5, <1>6 DEF CancelHanja, TypeOK, HandlerFrame, Done, Handling

LEMMA CancelPopupStep ==
  ASSUME TypeOK, NEW c \in Ctx, CancelPopup(c)
  PROVE  TypeOK' /\ Handled /\ HandlerFrame
<1>1. c \in contexts /\ contexts' = contexts
  BY DEF CancelPopup
<1>2. PICK owner \in PopupOwners(c) :
        engines' = [engines EXCEPT ![owner] = CancelEmojiPopup(engines[owner])]
  BY DEF CancelPopup
<1>3. owner \in contexts /\ engines[owner] \in Engine
  BY <1>1, OwnersLive
<1>4. Keeps(engines[owner], CancelEmojiPopup(engines[owner]))
  BY <1>3, EmojiPopups
<1>5. engines' \in [Ctx -> Engine] /\ Handled
  BY <1>1, <1>2, <1>3, <1>4, OneKept
<1>. QED BY <1>1, <1>5 DEF CancelPopup, TypeOK, HandlerFrame, Done, Handling, clientVars

-----------------------------------------------------------------------------
(* The prologue and the file's writers. *)

\* f has the text and the category of e.
SameText(e, f) == f.preedit = e.preedit /\ f.commit = e.commit /\ f.cat = e.cat

LEMMA FlushIdle ==
  ASSUME NEW e \in Engine, ~IsComposing(e)
  PROVE  FlushPreedit(e) \in Engine /\ SameText(e, FlushPreedit(e))
<1>. DEFINE f == FlushPreedit(e)
<1>1. f \in Engine /\ f.cat = e.cat /\ f.preedit = <<>> /\ e.preedit = <<>>
  BY Flush DEF Keeps, IsComposing
<1>2. f.commit = e.commit \o <<>>
  BY <1>1 DEF FlushPreedit, Engine
<1>3. e.commit \o <<>> = e.commit
  BY EngineFields, ConcatEmptySeq DEF Text
<1>. QED BY <1>1, <1>2, <1>3 DEF SameText

LEMMA GateIdle ==
  ASSUME NEW e \in Engine, ~IsComposing(e), NEW on \in BOOLEAN
  PROVE  SameText(e, ApplyWordGate(e, on))
<1>1. CASE e.word = on
  BY <1>1 DEF ApplyWordGate, SameText
<1>2. CASE e.word # on
  <2>. DEFINE g == FlushPreedit(e)
              f == [g EXCEPT !.word = on]
  <2>1. g \in Engine /\ SameText(e, g)
    BY FlushIdle
  <2>. HIDE DEF g
  <2>2. SameText(e, f)
    BY <2>1 DEF Engine, SameText
  <2>. QED BY <1>2, <2>2 DEF ApplyWordGate, SetWordMode, g
<1>. QED BY <1>1, <1>2

\* An engine that composes nothing is rebuilt without a change to its text.
LEMMA RebuiltIdle ==
  ASSUME NEW e \in Engine, ~IsComposing(e), NEW config \in Config, NEW c
  PROVE  LET f == ApplyKoreanRebuild(e, config, c)
         IN  f \in Engine /\ f.kor = config.kor /\ ~IsComposing(f) /\ SameText(e, f)
<1>. DEFINE h == FlushPreedit(e)
            g == [h EXCEPT !.kor = config.kor, !.word = FALSE]
            f == Gated(g, config, c)
<1>1. h \in Engine /\ SameText(e, h) /\ config.kor \in Layouts
  BY FlushIdle, ConfigFields
<1>. HIDE DEF h
<1>2. g \in Engine /\ g.kor = config.kor /\ SameText(e, g)
  BY <1>1 DEF Engine, SameText
<1>3. ApplyKoreanRebuild(e, config, c) = f
  BY DEF ApplyKoreanRebuild, RebuildKoreanContext, h
<1>. HIDE DEF g
<1>4. ~IsComposing(g)
  BY <1>2 DEF SameText, IsComposing
<1>5. SameText(g, f)
  <2>1. DesiredWordMode(config, c) \in BOOLEAN
    BY DEF DesiredWordMode
  <2>. QED BY <1>2, <1>4, <2>1, GateIdle DEF Gated
<1>6. f \in Engine /\ f.kor = config.kor
  BY <1>2, GateKeeps DEF Keeps
<1>. QED BY <1>2, <1>3, <1>5, <1>6, <1>4 DEF SameText, IsComposing

LEMMA PollStep ==
  ASSUME TypeOK, Poll
  PROVE  /\ TypeOK'
         /\ \A d \in Ctx : SameText(engines[d], engines'[d])
         /\ \A d \in Ctx : Quiet(engines[d]) => Quiet(engines'[d])
         /\ LayoutFresh => LayoutFresh'
<1>1. PICK reload \in {FALSE} \cup {newer} :
        LET config  == IF reload THEN file ELSE cfg
            changed == reload /\ config.kor # koreanFp
            ready   == {d \in Unbuilt(changed) : ~IsMidComposition(engines[d])}
        IN  /\ cfg' = config
            /\ newer' = (newer /\ ~reload)
            /\ koreanFp' = IF reload THEN config.kor ELSE koreanFp
            /\ engines' = [d \in Ctx |-> IF d \in ready
                                         THEN ApplyKoreanRebuild(engines[d], config, d)
                                         ELSE engines[d]]
            /\ pending' = Unbuilt(changed) \ ready
  BY DEF Poll
<1>2. reload \in BOOLEAN
  BY DEF TypeOK
<1>. DEFINE config  == IF reload THEN file ELSE cfg
            changed == reload /\ config.kor # koreanFp
            ready   == {d \in Unbuilt(changed) : ~IsMidComposition(engines[d])}
<1>3. config \in Config /\ config.kor \in Layouts
  BY ConfigFields DEF TypeOK
<1>4. Unbuilt(changed) \subseteq contexts
  BY DEF Unbuilt
<1>5. \A d \in ready : d \in Ctx /\ engines[d] \in Engine /\ ~IsComposing(engines[d])
  BY <1>4 DEF TypeOK, IsMidComposition
<1>6. /\ cfg' = config /\ newer' \in BOOLEAN
      /\ koreanFp' = IF reload THEN config.kor ELSE koreanFp
      /\ pending' = Unbuilt(changed) \ ready
      /\ engines' = [d \in Ctx |-> IF d \in ready THEN ApplyKoreanRebuild(engines[d], config, d)
                                   ELSE engines[d]]
  BY <1>1, <1>2 DEF TypeOK
<1>7. contexts' = contexts /\ phase' = "handle"
  BY DEF Poll
<1>8. \A d \in contexts : \/ d \in ready
                          \/ changed /\ IsComposing(engines[d]) /\ d \in pending'
                          \/ ~changed /\ (d \in pending => IsComposing(engines[d]) /\ d \in pending')
  BY <1>6 DEF Unbuilt, IsMidComposition
<1>9. koreanFp' \in Layouts /\ pending' \subseteq Ctx
  BY <1>3, <1>4, <1>6 DEF TypeOK
<1>10. ~changed /\ LayoutFresh => config.kor = cfg.kor
  BY <1>2 DEF LayoutFresh
<1>11. LayoutFresh => koreanFp' = config.kor
  BY <1>2, <1>6 DEF LayoutFresh
<1>. HIDE DEF config, changed, ready
<1>12. \A d \in ready : LET f == ApplyKoreanRebuild(engines[d], config, d)
                        IN  f \in Engine /\ f.kor = config.kor /\ ~IsComposing(f)
                            /\ SameText(engines[d], f)
  BY <1>3, <1>5, RebuiltIdle
<1>13. \A d \in Ctx : \/ d \in ready /\ engines'[d] \in Engine /\ engines'[d].kor = config.kor
                         /\ ~IsComposing(engines'[d]) /\ SameText(engines[d], engines'[d])
                      \/ d \notin ready /\ engines'[d] = engines[d]
  BY <1>6, <1>12
<1>14. engines' \in [Ctx -> Engine]
  BY <1>6, <1>13 DEF TypeOK
<1>15. TypeOK'
  BY <1>3, <1>6, <1>9, <1>14 DEF Poll, TypeOK, clientVars
<1>16. \A d \in Ctx : SameText(engines[d], engines'[d])
  BY <1>13 DEF SameText
<1>17. \A d \in Ctx : Quiet(engines[d]) => Quiet(engines'[d])
  BY <1>13 DEF Quiet
<1>18. LayoutFresh => LayoutFresh'
  <2>. SUFFICES ASSUME LayoutFresh PROVE LayoutFresh'
    OBVIOUS
  <2>1. koreanFp' = cfg'.kor
    BY <1>6, <1>11
  <2>2. ASSUME NEW d \in contexts', engines'[d].kor # cfg'.kor
        PROVE  d \in pending' /\ IsComposing(engines'[d])
    <3>1. d \in contexts /\ d \in Ctx /\ d \notin ready /\ engines'[d] = engines[d]
      BY <1>6, <1>7, <1>13, <2>2 DEF TypeOK
    <3>2. ~changed => d \in pending
      BY <1>6, <1>10, <2>2, <3>1 DEF LayoutFresh
    <3>. QED BY <1>8, <3>1, <3>2
  <2>. QED BY <2>1, <2>2 DEF LayoutFresh
<1>. QED BY <1>15, <1>16, <1>17, <1>18

LEMMA WriteStep ==
  ASSUME TypeOK, WriteFile
  PROVE  TypeOK'
<1>1. file' \in Config
  BY WorkerAssumption DEF WriteFile
<1>2. writes' \in 0..MaxWrites
  BY WorkerAssumption DEF WriteFile, TypeOK
<1>. QED BY <1>1, <1>2 DEF WriteFile, TypeOK, workerVars, clientVars

\* Every step is the prologue's, a writer's or a handler's.
LEMMA StepCases ==
  ASSUME TypeOK, Next
  PROVE  Poll \/ WriteFile \/ (TypeOK' /\ Handled /\ HandlerFrame)
<1>1. ASSUME NEW c \in Ctx, CreateContext(c) \/ DestroyContext(c)
      PROVE  TypeOK' /\ Handled /\ HandlerFrame
  BY <1>1, CreateStep, DestroyStep
<1>2. ASSUME NEW c \in Ctx, FocusIn(c) \/ FocusOut(c) \/ Reset(c)
      PROVE  TypeOK' /\ Handled /\ HandlerFrame
  BY <1>2, FocusInStep, FocusOutStep, ResetStep
<1>3. ASSUME NEW c \in Ctx, NEW key \in KeyClasses, ProcessKey(c, key)
      PROVE  TypeOK' /\ Handled /\ HandlerFrame
  BY <1>3, KeyStep
<1>4. ASSUME NEW c \in Ctx, SetContentType(c) \/ GetHanjaCandidates(c)
      PROVE  TypeOK' /\ Handled /\ HandlerFrame
  BY <1>4, SetContentTypeStep, GetHanjaStep
<1>5. ASSUME NEW c \in Ctx, SelectHanja(c) \/ CancelHanja(c) \/ CancelPopup(c)
      PROVE  TypeOK' /\ Handled /\ HandlerFrame
  BY <1>5, SelectStep, CancelStep, CancelPopupStep
<1>6. ASSUME SetGlobalMode \/ GlobalTypeFix
      PROVE  TypeOK' /\ Handled /\ HandlerFrame
  BY <1>6, SetGlobalModeStep, GlobalTypeFixStep
<1>. QED BY <1>1, <1>2, <1>3, <1>4, <1>5, <1>6 DEF Next

-----------------------------------------------------------------------------
(* The theorems. *)

LEMMA InitType == Init => TypeOK
<1>1. NewEngine(InitialLayout, "Korean") \in Engine
  BY New, EngineAssumption DEF Categories
<1>2. InitialConfig \in Config /\ InitialLayout \in Layouts /\ 0 \in 0..MaxWrites
  BY EngineAssumption, WorkerAssumption
<1>. QED BY <1>1, <1>2, EmptyText DEF Init, TypeOK, Purposes

LEMMA StepType == TypeOK /\ [Next]_vars => TypeOK'
<1>. SUFFICES ASSUME TypeOK, [Next]_vars PROVE TypeOK'
  OBVIOUS
<1>1. CASE Next
  BY <1>1, StepCases, PollStep, WriteStep
<1>2. CASE UNCHANGED vars
  BY <1>2 DEF TypeOK, vars, workerVars, fileVars, clientVars
<1>. QED BY <1>1, <1>2

\* The worker's state is well formed whatever its clients do: in particular no
\* engine is ever given the category None of an application it has not met.
THEOREM TypeCorrect == Spec => []TypeOK
BY InitType, StepType, PTL DEF Spec

\* Nothing composes where it may not.
AllQuiet == \A c \in Ctx : Quiet(engines[c])

LEMMA StepQuiet ==
  ASSUME "typefix" \notin Requests
  PROVE  TypeOK /\ AllQuiet /\ [Next]_vars => AllQuiet'
<1>. SUFFICES ASSUME TypeOK, AllQuiet, [Next]_vars PROVE AllQuiet'
  OBVIOUS
<1>1. CASE Poll
  BY <1>1, PollStep DEF AllQuiet
<1>2. CASE WriteFile
  BY <1>2 DEF WriteFile, workerVars, AllQuiet
<1>3. CASE Handled
  BY <1>3 DEF Handled, AllQuiet
<1>4. CASE UNCHANGED vars
  BY <1>4 DEF vars, workerVars, AllQuiet
<1>. QED BY <1>1, <1>2, <1>3, <1>4, StepCases

LEMMA AlwaysQuiet ==
  ASSUME "typefix" \notin Requests
  PROVE  Spec => []AllQuiet
<1>1. Init => AllQuiet
  BY New, EngineAssumption DEF Init, AllQuiet, Categories
<1>. QED BY <1>1, StepQuiet, TypeCorrect, PTL DEF Spec

\* An engine in English composes nothing, unless a selection was converted:
\* every other change of category goes through set_input_category's flush.
THEOREM EnglishNever ==
  ASSUME "typefix" \notin Requests
  PROVE  Spec => []EnglishNeverComposes
<1>1. AllQuiet => EnglishNeverComposes
  BY DEF AllQuiet, Quiet, EnglishNeverComposes
<1>. QED BY <1>1, AlwaysQuiet, PTL

\* A password or PIN field composes nothing, under the same condition.
THEOREM PasswordNever ==
  ASSUME "typefix" \notin Requests
  PROVE  Spec => []PasswordNeverComposes
<1>1. AllQuiet => PasswordNeverComposes
  BY DEF AllQuiet, Quiet, PasswordNeverComposes
<1>. QED BY <1>1, AlwaysQuiet, PTL

LEMMA StepLayout ==
  ASSUME "atf" \notin KeyClasses
  PROVE  TypeOK /\ LayoutFresh /\ [Next]_vars => LayoutFresh'
<1>. SUFFICES ASSUME TypeOK, LayoutFresh, [Next]_vars PROVE LayoutFresh'
  OBVIOUS
<1>1. CASE Poll
  BY <1>1, PollStep
<1>2. CASE WriteFile
  BY <1>2 DEF WriteFile, workerVars, LayoutFresh
<1>3. CASE Handled /\ HandlerFrame
  BY <1>3 DEF Handled, HandlerFrame, LayoutFresh
<1>4. CASE UNCHANGED vars
  BY <1>4 DEF vars, workerVars, LayoutFresh
<1>. QED BY <1>1, <1>2, <1>3, <1>4, StepCases

\* Unless the hotkey reloads the file behind its back, the prologue forgets no
\* engine: one with an old layout waits in pending_korean_rebuild, and composes
\* when a handler meets it.
THEOREM LayoutPending ==
  ASSUME "atf" \notin KeyClasses
  PROVE  Spec => []LayoutFresh
<1>1. Init => LayoutFresh
  BY WorkerAssumption DEF Init, LayoutFresh
<1>. QED BY <1>1, StepLayout, TypeCorrect, PTL DEF Spec

\* Hence a handler meets an idle engine with the layout in force only.
THEOREM LayoutInForce ==
  ASSUME "atf" \notin KeyClasses
  PROVE  Spec => []LayoutApplied
<1>1. LayoutFresh => LayoutApplied
  BY DEF LayoutFresh, LayoutApplied
<1>. QED BY <1>1, LayoutPending, PTL

\* The prologue changes no engine's text or category, though it may rebuild all.
THEOREM PrologueKeeps == Spec => ReloadKeepsText
<1>. DEFINE Kept == phase = "poll" /\ phase' = "handle" =>
                      \A c \in Ctx : /\ engines'[c].preedit = engines[c].preedit
                                     /\ engines'[c].commit = engines[c].commit
                                     /\ engines'[c].cat = engines[c].cat
<1>1. ASSUME TypeOK, [Next]_vars PROVE [Kept]_vars
  <2>1. CASE Poll
    BY <1>1, <2>1, PollStep DEF SameText
  <2>2. CASE WriteFile
    BY <2>2 DEF WriteFile
  <2>3. CASE HandlerFrame
    BY <2>3 DEF HandlerFrame
  <2>4. CASE UNCHANGED vars
    BY <2>4
  <2>. QED BY <1>1, <2>1, <2>2, <2>3, <2>4, StepCases
<1>. QED BY <1>1, TypeCorrect, PTL DEF Spec, ReloadKeepsText

-----------------------------------------------------------------------------
(* The two ways of keeping categories. *)


\* Only c's engine and what is remembered for c's application may change.
OwnChange(c) ==
  /\ \A d \in Ctx : d # c => engines'[d] = engines[d]
  /\ \A a \in Apps : a # AppOf[c] => appModes'[a] = appModes[a]

\* No category turns.
CatsKept == \A c \in contexts \cap contexts' : engines'[c].cat = engines[c].cat

\* The consequent of PerAppIndependent.
Apart ==
  /\ \A c, d \in contexts \cap contexts' :
       engines'[c].cat # engines[c].cat /\ engines'[d].cat # engines[d].cat => c = d
  /\ \A c \in contexts \cap contexts', a \in Apps :
       engines'[c].cat # engines[c].cat /\ appModes'[a] # appModes[a] => a = AppOf[c]

LEMMA OwnApart ==
  ASSUME TypeOK, NEW c \in Ctx, OwnChange(c)
  PROVE  Apart
<1>1. contexts \cap contexts' \subseteq Ctx
  BY DEF TypeOK
<1>. QED BY <1>1 DEF Apart, OwnChange

LEMMA OneOwn ==
  ASSUME TypeOK, NEW c \in Ctx, NEW f, engines' = [engines EXCEPT ![c] = f],
         appModes' = appModes
  PROVE  Apart
<1>1. OwnChange(c)
  BY DEF TypeOK, OwnChange
<1>. QED BY <1>1, OwnApart

LEMMA KeptApart == ASSUME CatsKept PROVE Apart
BY DEF CatsKept, Apart

-----------------------------------------------------------------------------
(* PerApp. *)

LEMMA KeyApart ==
  ASSUME TypeOK, cfg.sharing = "PerApp", NEW c \in Ctx, NEW key, ProcessKey(c, key)
  PROVE  Apart
<1>1. PICK o \in PressKey(engines[c], key, typed[c]) :
        \/ PressNoFix(c, o.engine)
        \/ PressFix(c, o.engine)
        \/ ToggleAutoTypefix(c, o.engine)
  BY DEF ProcessKey
<1>2. ~Shared
  BY DEF Shared
<1>3. CASE PressNoFix(c, o.engine)
  <2>1. engines' = [engines EXCEPT ![c] = [o.engine EXCEPT !.commit = <<>>]]
    BY <1>2, <1>3 DEF PressNoFix
  <2>2. \A a \in Apps : a # AppOf[c] => appModes'[a] = appModes[a]
    BY <1>3 DEF PressNoFix, TypeOK
  <2>3. \A d \in Ctx : d # c => engines'[d] = engines[d]
    BY <2>1 DEF TypeOK
  <2>. QED BY <2>2, <2>3, OwnApart DEF OwnChange
<1>4. CASE PressFix(c, o.engine)
  <2>. DEFINE text == delivered[c] \o o.engine.commit \o o.engine.preedit
  <2>1. PICK n \in 0..Len(text) :
          engines' = [engines EXCEPT ![c] = FixedEngine(c, o.engine, n, text)]
    BY <1>2, <1>4 DEF PressFix
  <2>2. appModes' = appModes
    BY <1>4 DEF PressFix
  <2>. QED BY <2>1, <2>2, OneOwn
<1>5. CASE ToggleAutoTypefix(c, o.engine)
  BY <1>5, OneOwn DEF ToggleAutoTypefix
<1>. QED BY <1>1, <1>3, <1>4, <1>5

LEMMA FocusInApart ==
  ASSUME TypeOK, NEW c \in Ctx, FocusIn(c)
  PROVE  Apart
<1>1. engines' = [engines EXCEPT ![c] = FocusInEngine(c)]
  BY DEF FocusIn
<1>2. \A a \in Apps : a # AppOf[c] => appModes'[a] = appModes[a]
  BY DEF FocusIn, TypeOK
<1>3. \A d \in Ctx : d # c => engines'[d] = engines[d]
  BY <1>1 DEF TypeOK
<1>. QED BY <1>2, <1>3, OwnApart DEF OwnChange

LEMMA PopupApart ==
  ASSUME TypeOK, NEW c \in Ctx, SelectHanja(c) \/ CancelHanja(c) \/ CancelPopup(c)
  PROVE  Apart
<1>1. c \in contexts /\ appModes' = appModes
  BY DEF SelectHanja, CancelHanja, CancelPopup
<1>2. PICK owner \in PopupOwners(c) :
        \/ engines' = [engines EXCEPT ![owner] = SelectConversion(engines[owner])]
        \/ engines' = [engines EXCEPT ![owner] = CancelConversion(engines[owner])]
        \/ engines' = [engines EXCEPT ![owner] = CancelEmojiPopup(engines[owner])]
  BY DEF SelectHanja, CancelHanja, CancelPopup
<1>3. owner \in Ctx
  BY <1>1, OwnersLive DEF TypeOK
<1>. QED BY <1>1, <1>2, <1>3, OneOwn

LEMMA PerAppStep ==
  ASSUME TypeOK, Next, cfg.sharing = "PerApp"
  PROVE  Apart
<1>1. CASE Poll
  <2>1. \A d \in Ctx : engines'[d].cat = engines[d].cat
    BY <1>1, PollStep DEF SameText
  <2>. QED BY <2>1, KeptApart DEF CatsKept, TypeOK
<1>2. CASE WriteFile
  BY <1>2, KeptApart DEF WriteFile, workerVars, CatsKept
<1>3. ASSUME NEW c \in Ctx, CreateContext(c) PROVE Apart
  BY <1>3, OneOwn DEF CreateContext
<1>4. ASSUME NEW c \in Ctx, DestroyContext(c) PROVE Apart
  BY <1>4, OneOwn DEF DestroyContext
<1>5. ASSUME NEW c \in Ctx, FocusOut(c) PROVE Apart
  BY <1>5, OneOwn DEF FocusOut
<1>6. ASSUME NEW c \in Ctx, Reset(c) PROVE Apart
  BY <1>6, OneOwn DEF Reset
<1>7. ASSUME NEW c \in Ctx, SetContentType(c) PROVE Apart
  BY <1>7, OneOwn DEF SetContentType
<1>8. ASSUME NEW c \in Ctx, GetHanjaCandidates(c) PROVE Apart
  BY <1>8, OneOwn DEF GetHanjaCandidates
<1>9. CASE SetGlobalMode
  <2>1. engines' = engines
    BY <1>9 DEF SetGlobalMode, Shared
  <2>. QED BY <2>1, KeptApart DEF CatsKept
<1>10. CASE GlobalTypeFix
  <2>1. lastFocused \in Ctx /\ appModes' = appModes
    BY <1>10 DEF GlobalTypeFix, TypeOK
  <2>2. PICK cat \in Categories :
          engines' = [engines EXCEPT ![lastFocused] = TypefixConvert(engines[lastFocused], cat)]
    BY <1>10 DEF GlobalTypeFix
  <2>. QED BY <2>1, <2>2, OneOwn
<1>. QED BY <1>1, <1>2, <1>3, <1>4, <1>5, <1>6, <1>7, <1>8, <1>9, <1>10,
            KeyApart, FocusInApart, PopupApart DEF Next

\* ModeSharingMode::PerApp keeps its word on every path (the keys, the focus,
\* the popups of another context, the propagation that Global does): the category
\* of one context turns, and only its application remembers it.
THEOREM PerAppApart == Spec => PerAppIndependent
<1>. DEFINE A == cfg.sharing = "PerApp" /\ cfg'.sharing = "PerApp" => Apart
<1>1. ASSUME TypeOK, [Next]_vars PROVE [A]_vars
  BY <1>1, PerAppStep
<1>2. Spec => [][A]_vars
  BY <1>1, TypeCorrect, PTL DEF Spec
<1>. QED BY <1>2 DEF PerAppIndependent, Apart

-----------------------------------------------------------------------------
(* Global. *)

\* Nothing but the users' keys, set_global_mode and the focus turns a category,
\* and the configuration stays as the worker leaves it: no password field, no
\* converted selection, no app rule, no save of the settings, no hotkey.
OnlyKeysTurn ==
  /\ MaxWrites = 0
  /\ "contentType" \notin Requests /\ "typefix" \notin Requests
  /\ "atf" \notin KeyClasses
  /\ \A a \in Apps : AppRules[a] = None

\* A step that ends with one category if it began with one.
StaysShared ==
  /\ newer' = newer /\ cfg'.sharing = cfg.sharing
  /\ cfg.sharing = "Global" => \A c \in contexts' : engines'[c].cat = cfg'.deflt

LEMMA GateCat ==
  ASSUME NEW e \in Engine, NEW config, NEW c
  PROVE  Gated(e, config, c).cat = e.cat
<1>1. DesiredWordMode(config, c) \in BOOLEAN
  BY DEF DesiredWordMode
<1>. QED BY <1>1, SetWord DEF Gated, ApplyWordGate

LEMMA NewCat ==
  ASSUME TypeOK, NEW cat \in Categories, NEW c
  PROVE  Gated(NewEngine(cfg.kor, cat), cfg, c).cat = cat
<1>1. NewEngine(cfg.kor, cat) \in Engine
  BY New, ConfigFields DEF TypeOK
<1>2. NewEngine(cfg.kor, cat).cat = cat
  BY DEF NewEngine
<1>. QED BY <1>1, <1>2, GateCat

LEMMA PropagateCat ==
  ASSUME NEW es \in [Ctx -> Engine], NEW c, NEW cat \in Categories, NEW d \in contexts \cap Ctx
  PROVE  Propagate(es, c, cat)[d].cat = IF d = c THEN es[d].cat ELSE cat
<1>1. es[d] \in Engine
  OBVIOUS
<1>2. SetInputCategory(es[d], cat).cat = cat
  BY <1>1, SetCategory
<1>. QED BY <1>2 DEF Propagate

\* A handler that changes one engine, and leaves it the default category.
LEMMA OneStays ==
  ASSUME TypeOK, GlobalModeShared, NEW c \in Ctx, NEW f,
         engines' = [engines EXCEPT ![c] = f],
         cfg.sharing = "Global" /\ c \in contexts' => f.cat = cfg.deflt,
         contexts' \subseteq contexts \cup {c}, cfg' = cfg, newer' = newer
  PROVE  StaysShared
<1>1. \A d \in Ctx : engines'[d] = IF d = c THEN f ELSE engines[d]
  BY DEF TypeOK
<1>2. \A d \in contexts' : d \in Ctx /\ (d # c => d \in contexts)
  BY DEF TypeOK
<1>. QED BY <1>1, <1>2 DEF StaysShared, GlobalModeShared

\* A key, or the fix after it, that leaves its engine with f, and tells the others
\* if f's category is not the default.
LEMMA ToldStays ==
  ASSUME TypeOK, GlobalModeShared, NEW c \in contexts, NEW f \in Engine,
         contexts' = contexts, newer' = newer,
         cfg' = cfg \/ cfg' = [cfg EXCEPT !.deflt = f.cat],
         cfg.sharing = "Global" =>
           \/ /\ engines' = [engines EXCEPT ![c] = f]
              /\ f.cat = engines[c].cat /\ cfg' = cfg
           \/ /\ engines' = Propagate([engines EXCEPT ![c] = f], c, f.cat)
              /\ cfg' = [cfg EXCEPT !.deflt = f.cat]
  PROVE  StaysShared
<1>1. cfg'.sharing = cfg.sharing
  BY DEF TypeOK, Config
<1>2. c \in Ctx /\ contexts \subseteq Ctx
  BY DEF TypeOK
<1>3. ASSUME cfg.sharing = "Global", NEW d \in contexts'
      PROVE  engines'[d].cat = cfg'.deflt
  <2>1. d \in contexts \cap Ctx
    BY <1>2, <1>3
  <2>2. CASE engines' = [engines EXCEPT ![c] = f] /\ f.cat = engines[c].cat /\ cfg' = cfg
    <3>1. engines'[d].cat = engines[d].cat
      BY <2>1, <2>2 DEF TypeOK
    <3>. QED BY <1>3, <2>1, <2>2, <3>1 DEF GlobalModeShared
  <2>3. CASE /\ engines' = Propagate([engines EXCEPT ![c] = f], c, f.cat)
             /\ cfg' = [cfg EXCEPT !.deflt = f.cat]
    <3>. DEFINE es == [engines EXCEPT ![c] = f]
    <3>1. es \in [Ctx -> Engine] /\ es[c] = f
      BY <1>2 DEF TypeOK
    <3>2. f.cat \in Categories
      BY EngineFields
    <3>3. cfg'.deflt = f.cat
      BY <2>3 DEF TypeOK, Config
    <3>. HIDE DEF es
    <3>4. Propagate(es, c, f.cat)[d].cat = f.cat
      BY <2>1, <3>1, <3>2, PropagateCat
    <3>. QED BY <2>3, <3>3, <3>4 DEF es
  <2>. QED BY <1>3, <2>2, <2>3
<1>. QED BY <1>1, <1>3 DEF StaysShared

LEMMA KeyStays ==
  ASSUME TypeOK, GlobalModeShared, OnlyKeysTurn,
         NEW c \in Ctx, NEW key \in KeyClasses, ProcessKey(c, key)
  PROVE  StaysShared
<1>1. c \in contexts /\ key \in Keys /\ key # "atf" /\ contexts' = contexts
  BY WorkerAssumption DEF ProcessKey, MayType, OnlyKeysTurn
<1>2. PICK o \in PressKey(engines[c], key, typed[c]) :
        PressNoFix(c, o.engine) \/ PressFix(c, o.engine)
  BY <1>1 DEF ProcessKey
<1>. DEFINE e == o.engine
<1>3. e \in Engine
  BY <1>1, PressKeyKeeps DEF TypeOK, KeepsAll, Keeps
<1>. HIDE DEF e
<1>4. CASE PressNoFix(c, e)
  <2>. DEFINE f == [e EXCEPT !.commit = <<>>]
  <2>1. f \in Engine /\ f.cat = e.cat
    BY <1>3, EmptyText DEF Engine
  <2>2. newer' = newer /\ (cfg' = cfg \/ cfg' = [cfg EXCEPT !.deflt = e.cat])
    BY <1>4 DEF PressNoFix
  <2>3. cfg.sharing = "Global" =>
          \/ /\ engines' = [engines EXCEPT ![c] = f]
             /\ e.cat = engines[c].cat /\ cfg' = cfg
          \/ /\ engines' = Propagate([engines EXCEPT ![c] = f], c, e.cat)
             /\ cfg' = [cfg EXCEPT !.deflt = e.cat]
    BY <1>4 DEF PressNoFix, Shared
  <2>. HIDE DEF f
  <2>. QED BY <1>1, <2>1, <2>2, <2>3, ToldStays
<1>5. CASE PressFix(c, e)
  <2>. DEFINE text == delivered[c] \o e.commit \o e.preedit
  <2>1. text \in Text
    BY <1>3, EngineFields, ConcatText DEF TypeOK
  <2>2. ~ShouldBlockHangul(e.purpose) /\ newer' = newer
    BY <1>5 DEF PressFix, FixAllowed
  <2>. HIDE DEF text
  <2>3. PICK n \in 0..Len(text) :
          LET f == FixedEngine(c, e, n, text)
          IN  /\ e.cat = "Korean" => n = 0
              /\ cfg' = [cfg EXCEPT !.deflt = f.cat]
              /\ cfg.sharing = "Global" =>
                   engines' = Propagate([engines EXCEPT ![c] = f], c, f.cat)
    BY <1>5 DEF PressFix, Shared, text
  <2>4. FixedEngine(c, e, n, text) \in Engine
    BY <1>1, <1>3, <2>1, <2>2, <2>3, FixKeeps DEF TypeOK, Keeps
  <2>. QED BY <1>1, <2>2, <2>3, <2>4, ToldStays
<1>. QED BY <1>2, <1>4, <1>5 DEF e

LEMMA CreateStays ==
  ASSUME TypeOK, GlobalModeShared, NEW c \in Ctx, CreateContext(c)
  PROVE  StaysShared
<1>1. cfg.deflt \in Categories
  BY ConfigFields DEF TypeOK
<1>2. PICK f : /\ engines' = [engines EXCEPT ![c] = f]
               /\ cfg.sharing = "Global" => f = Gated(NewEngine(cfg.kor, cfg.deflt), cfg, c)
  BY DEF CreateContext
<1>3. cfg.sharing = "Global" => f.cat = cfg.deflt
  BY <1>1, <1>2, NewCat
<1>. QED BY <1>2, <1>3, OneStays DEF CreateContext

LEMMA DestroyStays ==
  ASSUME TypeOK, GlobalModeShared, NEW c \in Ctx, DestroyContext(c)
  PROVE  StaysShared
<1>1. c \notin contexts'
  BY DEF DestroyContext
<1>2. engines' = [engines EXCEPT ![c] = NewEngine(InitialLayout, "Korean")]
  BY DEF DestroyContext
<1>. QED BY <1>1, <1>2, OneStays DEF DestroyContext

LEMMA FocusInStays ==
  ASSUME TypeOK, GlobalModeShared, OnlyKeysTurn, NEW c \in Ctx, FocusIn(c)
  PROVE  StaysShared
<1>1. c \in contexts /\ engines[c] \in Engine /\ AppOf[c] \in Apps
  BY AppOfType DEF FocusIn, TypeOK
<1>2. ~RuleApplies(c)
  BY <1>1 DEF RuleApplies, OnlyKeysTurn
<1>3. engines' = [engines EXCEPT ![c] = FocusInEngine(c)]
  BY DEF FocusIn
<1>4. ASSUME cfg.sharing = "Global" PROVE FocusInEngine(c).cat = cfg.deflt
  <2>. DEFINE restored == SetInputCategory(engines[c], cfg.deflt)
  <2>1. restored \in Engine /\ restored.cat = cfg.deflt
    BY <1>1, SetCategory, ConfigFields DEF TypeOK, Keeps
  <2>2. FocusInEngine(c) = Gated(restored, cfg, c)
    BY <1>2, <1>4 DEF FocusInEngine, FocusInCategory
  <2>. HIDE DEF restored
  <2>. QED BY <2>1, <2>2, GateCat
<1>. QED BY <1>3, <1>4, OneStays DEF FocusIn

LEMMA FocusOutStays ==
  ASSUME TypeOK, GlobalModeShared, NEW c \in Ctx, FocusOut(c) \/ Reset(c)
  PROVE  StaysShared
<1>1. PICK preserve \in BOOLEAN :
        /\ preserve = (cfg.sharing # "Global") \/ c \in contexts
        /\ engines' = [engines EXCEPT ![c] = ResetEngine(engines[c], c, preserve)]
  BY DEF FocusOut, Reset, MayType
<1>. DEFINE cat == IF preserve THEN engines[c].cat ELSE cfg.deflt
            f   == ResetEngine(engines[c], c, preserve)
<1>2. cat \in Categories
  BY EngineFields, ConfigFields DEF TypeOK
<1>3. f = Gated(NewEngine(cfg.kor, cat), cfg, c)
  BY DEF ResetEngine
<1>4. cfg.sharing = "Global" => cat = cfg.deflt
  BY <1>1 DEF GlobalModeShared
<1>. HIDE DEF cat, f
<1>5. cfg.sharing = "Global" => f.cat = cfg.deflt
  BY <1>2, <1>3, <1>4, NewCat
<1>. QED BY <1>1, <1>5, OneStays DEF FocusOut, Reset, f

LEMMA PopupStays ==
  ASSUME TypeOK, GlobalModeShared, NEW c \in Ctx,
         GetHanjaCandidates(c) \/ SelectHanja(c) \/ CancelHanja(c) \/ CancelPopup(c)
  PROVE  StaysShared
<1>1. c \in contexts /\ cfg' = cfg /\ newer' = newer /\ contexts' = contexts
  BY DEF GetHanjaCandidates, SelectHanja, CancelHanja, CancelPopup, MayType
<1>. DEFINE Answers(owner) ==
              StartHanjaConversion(engines[owner]) \cup
              {SelectConversion(engines[owner]), CancelConversion(engines[owner]),
               CancelEmojiPopup(engines[owner])}
<1>2. PICK owner \in {c} \cup PopupOwners(c) :
        \E f \in Answers(owner) : engines' = [engines EXCEPT ![owner] = f]
  BY DEF GetHanjaCandidates, SelectHanja, CancelHanja, CancelPopup
<1>3. PICK f \in Answers(owner) : engines' = [engines EXCEPT ![owner] = f]
  BY <1>2
<1>4. owner \in contexts /\ owner \in Ctx /\ engines[owner] \in Engine
  BY <1>1, OwnersLive DEF TypeOK
<1>5. f.cat = engines[owner].cat
  BY <1>3, <1>4 DEF StartHanjaConversion, SelectConversion, CancelConversion, CancelEmojiPopup, Engine
<1>6. cfg.sharing = "Global" => f.cat = cfg.deflt
  BY <1>4, <1>5 DEF GlobalModeShared
<1>. QED BY <1>1, <1>3, <1>4, <1>6, OneStays

LEMMA SetGlobalStays ==
  ASSUME TypeOK, SetGlobalMode
  PROVE  StaysShared
<1>1. PICK cat \in Categories :
        /\ cfg' = [cfg EXCEPT !.deflt = cat]
        /\ cfg.sharing = "Global" => engines' = Propagate(engines, NoCtx, cat)
  BY DEF SetGlobalMode, Shared
<1>2. cfg'.sharing = cfg.sharing /\ cfg'.deflt = cat
  BY <1>1 DEF TypeOK, Config
<1>3. newer' = newer /\ contexts' = contexts
  BY DEF SetGlobalMode
<1>4. ASSUME cfg.sharing = "Global", NEW d \in contexts'
      PROVE  engines'[d].cat = cfg'.deflt
  <2>1. d \in contexts \cap Ctx /\ d # NoCtx /\ engines \in [Ctx -> Engine]
    BY <1>3, <1>4, WorkerAssumption DEF TypeOK
  <2>. QED BY <1>1, <1>2, <1>4, <2>1, PropagateCat
<1>. QED BY <1>2, <1>3, <1>4 DEF StaysShared

LEMMA PollStays ==
  ASSUME TypeOK, GlobalModeShared, ~newer, Poll
  PROVE  StaysShared
<1>1. PICK reload \in {FALSE} \cup {newer} :
        cfg' = (IF reload THEN file ELSE cfg) /\ newer' = (newer /\ ~reload)
  BY DEF Poll
<1>2. reload = FALSE
  BY DEF TypeOK
<1>3. cfg' = cfg /\ newer' = newer
  BY <1>1, <1>2 DEF TypeOK
<1>4. contexts' = contexts /\ \A d \in contexts : d \in Ctx
  BY DEF Poll, TypeOK
<1>5. \A d \in Ctx : engines'[d].cat = engines[d].cat
  BY PollStep DEF SameText
<1>. QED BY <1>3, <1>4, <1>5 DEF StaysShared, GlobalModeShared

\* The file has no news, and every context has the shared category.
OneMode == ~newer /\ GlobalModeShared

LEMMA StepOneMode ==
  ASSUME OnlyKeysTurn
  PROVE  TypeOK /\ OneMode /\ [Next]_vars => OneMode'
<1>. SUFFICES ASSUME TypeOK, OneMode, [Next]_vars PROVE OneMode'
  OBVIOUS
<1>1. ~newer /\ GlobalModeShared
  BY DEF OneMode
<1>2. ASSUME StaysShared PROVE OneMode'
  BY <1>1, <1>2 DEF StaysShared, OneMode, GlobalModeShared
<1>3. ~WriteFile
  BY DEF WriteFile, TypeOK, OnlyKeysTurn
<1>4. ~GlobalTypeFix /\ \A c \in Ctx : ~SetContentType(c)
  BY DEF GlobalTypeFix, SetContentType, Handling, OnlyKeysTurn
<1>5. CASE UNCHANGED vars
  BY <1>5 DEF vars, workerVars, fileVars, OneMode, GlobalModeShared
<1>6. CASE Next
  BY <1>1, <1>2, <1>3, <1>4, <1>6, PollStays, CreateStays, DestroyStays, FocusInStays,
     FocusOutStays, KeyStays, PopupStays, SetGlobalStays DEF Next
<1>. QED BY <1>5, <1>6

\* ModeSharingMode::Global: as long as categories turn by keys, by fixes and by
\* set_global_mode, every context has the category of the last of them, whatever
\* each was composing when it turned, and the contexts made since too.
THEOREM OneSharedMode ==
  ASSUME OnlyKeysTurn
  PROVE  Spec => []GlobalModeShared
<1>1. Init => OneMode
  BY DEF Init, OneMode, GlobalModeShared
<1>2. OneMode => GlobalModeShared
  BY DEF OneMode
<1>. QED BY <1>1, <1>2, StepOneMode, TypeCorrect, PTL DEF Spec

-----------------------------------------------------------------------------
(***************************************************************************)
(* The theorems about the text of the fields, again for every value of the  *)
(* constants and without bounds on what is typed:                           *)
(*                                                                          *)
(*   NoTextLost        what a field was given, what waits in its engine and *)
(*                     what is composed are what was typed;                 *)
(*   NoTextReordered   nothing is given twice or out of order, whatever     *)
(*                     clients do;                                          *)
(*   NoTextMissing     nothing is lost or given twice, though a selection   *)
(*                     may be converted under a composition;                *)
(*   WorkerImplementsTextFields                                             *)
(*                     the worker refines TextFields.                       *)
(*                                                                          *)
(* They rest on one invariant, Shape: every engine's popup agrees with its  *)
(* composition, and for serial clients all engines but that of the field in *)
(* use are idle and drained (AlwaysShape).  Under it a step takes one Turn  *)
(* for each field: the text stays, grows or shrinks at its end, is closed,  *)
(* or, unless a theorem's premise rules it out, has a character put before  *)
(* the composition or some of it dropped.  There is one lemma for           *)
(* each handler, which shows that it Handles one context and that the other *)
(* engines are at rest.                                                     *)
(***************************************************************************)

\* A conversion may begin.
Converts == "hanja" \in KeyClasses \/ "getHanja" \in Requests

\* No word is retyped in the other language.
NoFixes ==
  /\ \A config \in Configs \cup {InitialConfig} : ~config.atf
  /\ "atf" \notin KeyClasses

\* Clients use one field after the other, and no request but a key turns the
\* category or the purpose of the field in use.  If conversions begin, the unit is
\* the syllable and no word is retyped.
Serial ==
  /\ Orderly
  /\ "contentType" \notin Requests
  /\ "setGlobalMode" \in Requests =>
       \A config \in Configs \cup {InitialConfig} : config.sharing = "PerApp"
  /\ Converts => WordGate = {} /\ NoFixes /\ "typefix" \notin Requests

-----------------------------------------------------------------------------
(* The invariants. *)

\* The shape of an engine.
Fit(e) == Sound(e) /\ IF Converts THEN Single(e) ELSE Plain(e)

AllFit ==
  \A c \in Ctx : Fit(engines[c]) /\ (c \notin contexts => Held(engines[c]) = <<>>)

\* Nothing waits to be drained, and only the field in use composes or has a popup.
Drained(e) == e.commit = <<>>
Idle(e)    == e.preedit = <<>> /\ e.popup = "none"
AllDrained ==
  \A c \in Ctx : Drained(engines[c]) /\ (c # focus => Idle(engines[c]))

\* The field in use is live, and the last one focused.
FocusLast ==
  /\ focus \in contexts \cup {NoCtx}
  /\ lastFocused \in contexts \cup {NoCtx}
  /\ focus # NoCtx => lastFocused = focus

\* The configuration is one of those that were written.
ConfigAsWritten ==
  /\ "setGlobalMode" \in Requests /\ Serial => cfg.sharing = "PerApp" /\ file.sharing = "PerApp"
  /\ NoFixes => ~cfg.atf /\ ~file.atf

\* The premise of the steps: no conversion begins, or clients are serial.
Steady == FocusLast /\ ConfigAsWritten /\ (~Converts \/ (Serial /\ AllDrained))

-----------------------------------------------------------------------------
(* What a step does to the text of a field. *)

TextOf(c) == delivered[c] \o Held(engines[c])

Still(c)  == typed'[c] = typed[c] /\ TextOf(c)' = TextOf(c)
Typed(c)  == /\ typed'[c] = TypeChar(typed[c])
             /\ TextOf(c)' = Append(TextOf(c), Len(typed[c]) + 1)
Erased(c) == /\ "backspace" \in KeyClasses /\ engines[c].preedit # <<>>
             /\ typed'[c] = Front(typed[c])
             /\ TextOf(c)' = Front(TextOf(c))
Closed(c) == typed'[c] = <<>> /\ TextOf(c)' = <<>>
\* A selection converted under the composition: the character comes before it.
Inserted(c) ==
  /\ ~Quiet(engines[c]) /\ typed'[c] = TypeChar(typed[c])
  /\ \E a, z \in Text : /\ TextOf(c) = a \o z
                        /\ TextOf(c)' = Append(a, Len(typed[c]) + 1) \o z
\* Text that was confirmed for a field not in use, or composed when a popup was
\* cancelled that was not shown, is dropped.
Dropped(c) ==
  /\ {"focusOut", "reset", "cancel"} \cap Requests # {}
  /\ ~(Serial /\ AllDrained)
  /\ typed'[c] = typed[c]
  /\ \E a, m, z \in Text : TextOf(c) = a \o (m \o z) /\ TextOf(c)' = a \o z

Turn(c) == Still(c) \/ Typed(c) \/ Erased(c) \/ Closed(c) \/ Inserted(c) \/ Dropped(c)

\* An engine that a step leaves as it is, or confirms.
Rests(c) ==
  /\ typed'[c] = typed[c] /\ delivered'[c] = delivered[c]
  /\ Confirms(engines[c], engines'[c]) /\ SamePopup(engines[c], engines'[c])
  /\ engines[c].conv => engines'[c].preedit = engines[c].preedit
  /\ Converts => ~engines'[c].word

\* The handler of a request concerns one context, and leaves it fit and drained.
Handles(c) ==
  /\ \A d \in Ctx : d # c => Rests(d) /\ (d \in contexts' <=> d \in contexts)
  /\ Turn(c)
  /\ Fit(engines'[c])
  /\ c \notin contexts' => Held(engines'[c]) = <<>>
  /\ Serial /\ AllDrained => /\ Drained(engines'[c]) /\ (c # focus' => Idle(engines'[c]))
                             /\ \A d \in Ctx : d # c /\ d = focus =>
                                  engines'[d] = engines[d] /\ focus' = focus

-----------------------------------------------------------------------------

LEMMA RestsFit ==
  ASSUME NEW c \in Ctx, TypeOK, TypeOK', Rests(c), Fit(engines[c])
  PROVE  /\ Fit(engines'[c]) /\ Held(engines'[c]) = Held(engines[c]) /\ Still(c)
         /\ Drained(engines[c]) /\ Idle(engines[c]) => Drained(engines'[c]) /\ Idle(engines'[c])
<1>. DEFINE e == engines[c]
            f == engines'[c]
<1>1. /\ Confirms(e, f) /\ SamePopup(e, f) /\ (e.conv => f.preedit = e.preedit)
      /\ Converts => ~f.word
  BY DEF Rests
<1>2. e \in Engine /\ f \in Engine
  BY DEF TypeOK
<1>3. Held(f) = Held(e)
  BY <1>1 DEF Confirms
<1>4. Sound(f) /\ (Plain(e) => Plain(f))
  BY <1>1, ConfirmsSound DEF Fit
<1>5. Converts => Single(f)
  <2>1. Len(<<>>) <= 1
    OBVIOUS
  <2>. HIDE DEF f
  <2>. QED BY <1>1, <2>1 DEF Fit, Single, Confirms
<1>6. Fit(f)
  BY <1>4, <1>5 DEF Fit
<1>7. Still(c)
  BY <1>3 DEF Still, Rests, TextOf
<1>8. e.preedit = <<>> => f.preedit = <<>> /\ f.commit = e.commit
  BY <1>1, <1>2, ConfirmsIdle
<1>9. Drained(e) /\ Idle(e) => Drained(f) /\ Idle(f)
  BY <1>1, <1>8 DEF Drained, Idle, SamePopup
<1>. QED BY <1>3, <1>6, <1>7, <1>9

LEMMA HandlesAll ==
  ASSUME TypeOK, TypeOK', AllFit, NEW c \in Ctx, Handles(c)
  PROVE  /\ AllFit' /\ \A d \in Ctx : Turn(d)
         /\ Serial /\ AllDrained => AllDrained'
<1>1. ASSUME NEW d \in Ctx, d # c
      PROVE  /\ Fit(engines'[d]) /\ (d \notin contexts' => Held(engines'[d]) = <<>>) /\ Turn(d)
             /\ Serial /\ AllDrained => Drained(engines'[d]) /\ (d # focus' => Idle(engines'[d]))
  <2>1. /\ Rests(d) /\ (d \in contexts' <=> d \in contexts)
        /\ Serial /\ AllDrained /\ d = focus => engines'[d] = engines[d] /\ focus' = focus
    BY <1>1 DEF Handles
  <2>2. Fit(engines[d]) /\ (d \notin contexts => Held(engines[d]) = <<>>)
    BY DEF AllFit
  <2>. QED BY <2>1, <2>2, RestsFit DEF AllDrained, Turn
<1>2. /\ Fit(engines'[c]) /\ (c \notin contexts' => Held(engines'[c]) = <<>>) /\ Turn(c)
      /\ Serial /\ AllDrained => Drained(engines'[c]) /\ (c # focus' => Idle(engines'[c]))
  BY DEF Handles
<1>. QED BY <1>1, <1>2 DEF AllFit, AllDrained

\* The other contexts, when a handler changes one engine.
LEMMA OthersRest ==
  ASSUME TypeOK, AllFit, NEW c \in Ctx, NEW f, engines' = [engines EXCEPT ![c] = f],
         \A d \in Ctx : d # c => typed'[d] = typed[d] /\ delivered'[d] = delivered[d]
  PROVE  /\ engines'[c] = f
         /\ \A d \in Ctx : d # c => engines'[d] = engines[d] /\ Rests(d)
<1>1. engines'[c] = f /\ \A d \in Ctx : d # c => engines'[d] = engines[d]
  BY DEF TypeOK
<1>2. ASSUME NEW d \in Ctx, d # c PROVE Rests(d)
  <2>1. Converts => ~engines[d].word
    BY DEF AllFit, Fit, Single
  <2>. QED BY <1>1, <1>2, <2>1, ConfirmsSelf DEF Rests
<1>. QED BY <1>1, <1>2

\* The text of a field without an engine's.
LEMMA TextOfHeld ==
  ASSUME TypeOK, NEW c \in Ctx
  PROVE  /\ delivered[c] \in Text /\ typed[c] \in Text /\ Held(engines[c]) \in Text
         /\ TextOf(c) \in Text
         /\ engines[c] \in Engine /\ engines[c].commit \in Text /\ engines[c].preedit \in Text
BY HeldText, ConcatText, EngineFields DEF TypeOK, TextOf

\* A new engine takes the place of one that held nothing, or of a closed field's.
LEMMA NewFit ==
  ASSUME TypeOK, NEW cat \in Categories, NEW c, ~Converts \/ Serial
  PROVE  LET f == Gated(NewEngine(cfg.kor, cat), cfg, c)
         IN  Fit(f) /\ Drained(f) /\ Idle(f) /\ Held(f) = <<>>
<1>. DEFINE g == NewEngine(cfg.kor, cat)
            f == Gated(g, cfg, c)
            on == DesiredWordMode(cfg, c)
<1>1. /\ g \in Engine /\ g.commit = <<>> /\ g.preedit = <<>> /\ Held(g) = <<>> /\ g.word = FALSE
      /\ Plain(g) /\ Sound(g)
  BY New, NewText, ConfigFields DEF TypeOK
<1>. HIDE DEF g
<1>2. on \in BOOLEAN /\ (Converts => on = FALSE)
  BY DEF DesiredWordMode, Serial
<1>. HIDE DEF on
<1>3. f \in Engine /\ Confirms(g, f) /\ SamePopup(g, f) /\ f.word = on
  BY <1>1, <1>2, ApplyGate, GateText DEF Gated, on, Keeps
<1>. HIDE DEF f
<1>4. f.preedit = <<>> /\ f.commit = <<>>
  BY <1>1, <1>3, ConfirmsIdle
<1>5. Sound(f) /\ Plain(f)
  BY <1>1, <1>3, ConfirmsSound DEF Plain
<1>6. Converts => Single(f)
  <2>1. Len(<<>>) <= 1
    OBVIOUS
  <2>. QED BY <1>2, <1>3, <1>4, <2>1 DEF Single
<1>7. Held(f) = <<>>
  BY <1>4, EmptyText, ConcatNone DEF Held
<1>. QED BY <1>4, <1>5, <1>6, <1>7 DEF Fit, Drained, Idle, Plain, f, g

LEMMA CreateText ==
  ASSUME TypeOK, TypeOK', AllFit, Steady, NEW c \in Ctx, CreateContext(c)
  PROVE  Handles(c)
<1>. DEFINE saved == appModes[AppOf[c]]
            cat   == IF cfg.sharing = "PerApp" /\ saved # None THEN saved ELSE cfg.deflt
            f     == Gated(NewEngine(cfg.kor, cat), cfg, c)
<1>1. saved \in Categories \cup {None} /\ cfg \in Config
  BY AppOfType DEF TypeOK
<1>2. cat \in Categories
  BY <1>1, ConfigFields
<1>3. /\ engines' = [engines EXCEPT ![c] = f] /\ contexts' = contexts \cup {c} /\ c \notin contexts
      /\ typed' = typed /\ delivered' = delivered /\ focus' = focus
  BY DEF CreateContext, clientVars
<1>. HIDE DEF cat
<1>4. Fit(f) /\ Drained(f) /\ Idle(f) /\ Held(f) = <<>>
  BY <1>2, NewFit DEF Steady
<1>. HIDE DEF f
<1>5. engines'[c] = f /\ \A d \in Ctx : d # c => engines'[d] = engines[d] /\ Rests(d)
  BY <1>3, OthersRest
<1>6. Still(c)
  BY <1>3, <1>4, <1>5 DEF Still, TextOf, AllFit
<1>. QED BY <1>3, <1>4, <1>5, <1>6 DEF Handles, Turn

LEMMA DestroyText ==
  ASSUME TypeOK, TypeOK', AllFit, Steady, NEW c \in Ctx, DestroyContext(c)
  PROVE  Handles(c)
<1>. DEFINE f == NewEngine(InitialLayout, "Korean")
<1>1. /\ engines' = [engines EXCEPT ![c] = f] /\ contexts' = contexts \ {c}
      /\ focus' = IF focus = c THEN NoCtx ELSE focus
      /\ typed' = [typed EXCEPT ![c] = <<>>] /\ delivered' = [delivered EXCEPT ![c] = <<>>]
  BY DEF DestroyContext
<1>2. /\ f.commit = <<>> /\ f.preedit = <<>> /\ Held(f) = <<>> /\ f.word = FALSE
      /\ Plain(f) /\ Sound(f)
  BY NewText
<1>. HIDE DEF f
<1>3. \A d \in Ctx : d # c => typed'[d] = typed[d] /\ delivered'[d] = delivered[d]
  BY <1>1 DEF TypeOK
<1>4. engines'[c] = f /\ \A d \in Ctx : d # c => engines'[d] = engines[d] /\ Rests(d)
  BY <1>1, <1>3, OthersRest
<1>5. typed'[c] = <<>> /\ delivered'[c] = <<>>
  BY <1>1 DEF TypeOK
<1>6. Closed(c)
  BY <1>2, <1>4, <1>5, EmptyText, ConcatNone DEF Closed, TextOf
<1>7. Fit(f)
  <2>1. Len(<<>>) <= 1
    OBVIOUS
  <2>. QED BY <1>2, <2>1 DEF Fit, Single
<1>. QED BY <1>1, <1>2, <1>4, <1>6, <1>7 DEF Handles, Turn, Drained, Idle, Plain

LEMMA Delivered ==
  ASSUME TypeOK, NEW c \in Ctx, NEW text, Deliver(c, text)
  PROVE  /\ delivered'[c] = delivered[c] \o text
         /\ \A d \in Ctx : d # c => delivered'[d] = delivered[d]
BY DEF TypeOK, Deliver

LEMMA FocusInText ==
  ASSUME TypeOK, TypeOK', AllFit, Steady, NEW c \in Ctx, FocusIn(c)
  PROVE  Handles(c)
<1>1. c \in contexts /\ engines[c] \in Engine /\ AppOf[c] \in Apps
  BY AppOfType DEF FocusIn, TypeOK
<1>2. FocusInCategory(c) \in Categories
  BY <1>1, ConfigFields, EngineFields DEF FocusInCategory, TypeOK, Sharings
<1>3. RuleApplies(c) => AppRules[AppOf[c]] \in Categories
  BY <1>1, WorkerAssumption DEF RuleApplies
<1>. DEFINE e == engines[c]
            restored == SetInputCategory(e, FocusInCategory(c))
            ruled == IF RuleApplies(c) THEN SetInputCategory(restored, AppRules[AppOf[c]])
                     ELSE restored
            on == DesiredWordMode(cfg, c)
            f == FocusInEngine(c)
<1>4. restored \in Engine /\ Confirms(e, restored) /\ SamePopup(e, restored)
  BY <1>1, <1>2, SetCategory, SetCategoryText DEF Keeps
<1>. HIDE DEF restored
<1>5. ruled \in Engine /\ Confirms(restored, ruled) /\ SamePopup(restored, ruled)
  BY <1>3, <1>4, SetCategory, SetCategoryText, ConfirmsSelf DEF Keeps
<1>6. f = ApplyWordGate(ruled, on)
  BY DEF FocusInEngine, Gated, restored
<1>. HIDE DEF ruled
<1>7. on \in BOOLEAN /\ (Converts => on = FALSE)
  BY DEF DesiredWordMode, Steady, Serial
<1>. HIDE DEF on
<1>8. Confirms(ruled, f) /\ SamePopup(ruled, f) /\ f.word = on
  BY <1>5, <1>6, <1>7, GateText
<1>. HIDE DEF f
<1>9. Confirms(e, f) /\ SamePopup(e, f)
  BY <1>4, <1>5, <1>8, ConfirmsTrans DEF SamePopup
<1>10. /\ engines' = [engines EXCEPT ![c] = f] /\ contexts' = contexts
       /\ typed' = typed /\ delivered' = delivered /\ focus' = c /\ (Orderly => focus = NoCtx)
  BY DEF FocusIn, f
<1>11. engines'[c] = f /\ \A d \in Ctx : d # c => engines'[d] = engines[d] /\ Rests(d)
  BY <1>10, OthersRest
<1>12. Fit(e) /\ (e.conv => Serial /\ AllDrained)
  BY DEF AllFit, Fit, Plain, Steady
<1>13. Serial /\ AllDrained => Drained(e) /\ Idle(e) /\ NoCtx \notin Ctx
  BY <1>10, WorkerAssumption DEF Serial, AllDrained
<1>14. ~e.conv
  <2>1. Len(<<>>) = 0
    OBVIOUS
  <2>. QED BY <1>12, <1>13, <2>1 DEF Idle, Fit, Sound
<1>15. Rests(c)
  BY <1>7, <1>8, <1>9, <1>10, <1>11, <1>14 DEF Rests
<1>16. /\ Fit(engines'[c]) /\ Held(engines'[c]) = Held(e) /\ Still(c)
       /\ Drained(e) /\ Idle(e) => Drained(engines'[c]) /\ Idle(engines'[c])
  BY <1>12, <1>15, RestsFit
<1>17. Serial /\ AllDrained => \A d \in Ctx : d # focus
  BY <1>10, <1>13 DEF Serial
<1>. QED BY <1>1, <1>10, <1>11, <1>13, <1>16, <1>17 DEF Handles, Turn

\* What reset_engine_and_capture_commit hands over is all the engine held, except
\* for text it had confirmed and nobody had drained.
LEMMA CaptureText ==
  ASSUME TypeOK, TypeOK', AllFit, Steady, NEW c \in Ctx, NEW preserve \in BOOLEAN,
         engines' = [engines EXCEPT ![c] = ResetEngine(engines[c], c, preserve)],
         Deliver(c, CapturedCommit(engines[c])), typed' = typed, contexts' = contexts, c \in contexts,
         {"focusOut", "reset"} \cap Requests # {},
         Serial /\ AllDrained => \A d \in Ctx : d # c => d # focus
  PROVE  Handles(c)
<1>. DEFINE e   == engines[c]
            cat == IF preserve THEN e.cat ELSE cfg.deflt
            f   == Gated(NewEngine(cfg.kor, cat), cfg, c)
<1>1. cat \in Categories
  BY EngineFields, ConfigFields DEF TypeOK
<1>2. engines' = [engines EXCEPT ![c] = f]
  BY DEF ResetEngine
<1>. HIDE DEF cat
<1>3. Fit(f) /\ Drained(f) /\ Idle(f) /\ Held(f) = <<>>
  BY <1>1, NewFit DEF Steady
<1>. HIDE DEF f
<1>4. /\ delivered'[c] = delivered[c] \o CapturedCommit(e)
      /\ \A d \in Ctx : d # c => delivered'[d] = delivered[d]
  BY Delivered
<1>5. engines'[c] = f /\ \A d \in Ctx : d # c => engines'[d] = engines[d] /\ Rests(d)
  BY <1>2, <1>4, OthersRest
<1>6. CapturedCommit(e) = e.preedit
  BY DEF CapturedCommit, AllFit, Fit, Sound
<1>7. /\ delivered[c] \in Text /\ e.commit \in Text /\ e.preedit \in Text
      /\ TextOf(c) = delivered[c] \o (e.commit \o e.preedit)
  BY TextOfHeld DEF TextOf, Held
<1>8. TextOf(c)' = delivered[c] \o e.preedit
  <2>1. TextOf(c)' = (delivered[c] \o e.preedit) \o <<>>
    BY <1>3, <1>4, <1>5, <1>6 DEF TextOf
  <2>. QED BY <1>7, <2>1, ConcatText, ConcatNone
<1>9. Serial /\ AllDrained => Still(c)
  <2>1. Drained(e) => TextOf(c) = delivered[c] \o e.preedit
    BY <1>7, ConcatNone DEF Drained
  <2>. QED BY <1>8, <2>1 DEF Still, AllDrained
<1>10. ~(Serial /\ AllDrained) => Dropped(c)
  BY <1>7, <1>8 DEF Dropped
<1>11. Turn(c)
  BY <1>9, <1>10 DEF Turn
<1>. QED BY <1>3, <1>5, <1>11 DEF Handles

LEMMA FocusOutText ==
  ASSUME TypeOK, TypeOK', AllFit, Steady, NEW c \in Ctx, FocusOut(c)
  PROVE  Handles(c)
<1>1. /\ engines' = [engines EXCEPT ![c] = ResetEngine(engines[c], c, cfg.sharing # "Global")]
      /\ Deliver(c, CapturedCommit(engines[c])) /\ typed' = typed /\ contexts' = contexts
      /\ c \in contexts /\ "focusOut" \in Requests /\ (Orderly => focus = c)
  BY DEF FocusOut, Handling
<1>2. (cfg.sharing # "Global") \in BOOLEAN
  OBVIOUS
<1>. QED BY <1>1, <1>2, CaptureText DEF Serial

LEMMA ResetText ==
  ASSUME TypeOK, TypeOK', AllFit, Steady, NEW c \in Ctx, Reset(c)
  PROVE  Handles(c)
<1>1. /\ engines' = [engines EXCEPT ![c] = ResetEngine(engines[c], c, TRUE)]
      /\ Deliver(c, CapturedCommit(engines[c])) /\ typed' = typed /\ contexts' = contexts
      /\ c \in contexts /\ "reset" \in Requests /\ (Orderly => focus = c)
  BY DEF Reset, Handling, MayType
<1>. QED BY <1>1, CaptureText DEF Serial

\* Where a key's text is once its engine is drained, or the word retyped.
LEMMA KeyTurn ==
  ASSUME TypeOK, NEW c \in Ctx, NEW key \in KeyClasses, NEW o,
         KeyText(engines[c], key, typed[c], o),
         typed'[c] = o.typed, TextOf(c)' = delivered[c] \o Held(o.engine)
  PROVE  Turn(c)
<1>. DEFINE e == engines[c]
            n == Len(typed[c]) + 1
<1>1. /\ delivered[c] \in Text /\ typed[c] \in Text /\ Held(e) \in Text
      /\ e.commit \in Text /\ e.preedit \in Text /\ n \in Nat \ {0}
      /\ TextOf(c) = delivered[c] \o Held(e)
  BY TextOfHeld DEF TextOf, Text
<1>. HIDE DEF n
<1>2. CASE Stays(e, typed[c], o)
  BY <1>1, <1>2 DEF Stays, Still, Turn
<1>3. CASE Adds(e, typed[c], o)
  <2>1. TextOf(c)' = delivered[c] \o Append(Held(e), n) /\ typed'[c] = TypeChar(typed[c])
    BY <1>3 DEF Adds, n
  <2>2. delivered[c] \o Append(Held(e), n) = Append(delivered[c] \o Held(e), n)
    BY <1>1, ConcatAppend
  <2>3. TextOf(c)' = Append(TextOf(c), n)
    BY <1>1, <2>1, <2>2
  <2>. QED BY <2>1, <2>3 DEF Typed, Turn, n
<1>4. CASE Inserts(e, typed[c], o)
  <2>1. /\ TextOf(c)' = delivered[c] \o (Append(e.commit, n) \o e.preedit)
        /\ typed'[c] = TypeChar(typed[c]) /\ ~Quiet(e)
    BY <1>4 DEF Inserts, n
  <2>2. TextOf(c) = (delivered[c] \o e.commit) \o e.preedit
    BY <1>1, ConcatThree DEF Held
  <2>3. Append(e.commit, n) \in Text /\ delivered[c] \o e.commit \in Text
    BY <1>1, TypeCharText, ConcatText DEF n
  <2>4. TextOf(c)' = (delivered[c] \o Append(e.commit, n)) \o e.preedit
    BY <1>1, <2>1, <2>3, ConcatThree
  <2>5. TextOf(c)' = Append(delivered[c] \o e.commit, n) \o e.preedit
    BY <1>1, <2>4, ConcatAppend
  <2>. QED BY <1>1, <2>1, <2>2, <2>3, <2>5 DEF Inserted, Turn, n
<1>5. CASE key = "backspace" /\ Erases(e, typed[c], o)
  <2>1. /\ typed'[c] = Front(typed[c]) /\ e.preedit # <<>>
        /\ o.engine.commit = e.commit /\ o.engine.preedit = Front(e.preedit)
    BY <1>5 DEF Erases
  <2>2. Held(o.engine) = Front(Held(e)) /\ Held(e) # <<>>
    BY <1>1, <2>1, ConcatFront DEF Held
  <2>3. TextOf(c)' = Front(TextOf(c))
    BY <1>1, <2>2, ConcatFront
  <2>. QED BY <1>5, <2>1, <2>3 DEF Erased, Turn
<1>. QED BY <1>2, <1>3, <1>4, <1>5 DEF KeyText

LEMMA PropagateText ==
  ASSUME NEW es \in [Ctx -> Engine], NEW c, NEW cat \in Categories, NEW d \in Ctx
  PROVE  LET f == Propagate(es, c, cat)[d]
         IN  /\ Confirms(es[d], f) /\ SamePopup(es[d], f) /\ f.word = es[d].word
             /\ d = c => f = es[d]
BY SetCategoryText, ConfirmsSelf DEF Propagate

\* A key's handler, whether it drains the engine, fixes a word or flips the switch:
\* c's engine becomes f, and the others are told of its category or not.
LEMMA KeyHandles ==
  ASSUME TypeOK, TypeOK', AllFit, Steady, NEW c \in contexts, NEW key \in KeyClasses,
         Orderly => focus = c, focus' = focus, contexts' = contexts,
         NEW o, KeyText(engines[c], key, typed[c], o), typed' = [typed EXCEPT ![c] = o.typed],
         NEW f \in Engine, NEW cat \in Categories,
         \/ engines' = [engines EXCEPT ![c] = f]
         \/ engines' = Propagate([engines EXCEPT ![c] = f], c, cat),
         Fit(f), Drained(f), NEW text, Deliver(c, text) \/ delivered' = [delivered EXCEPT ![c] = text],
         delivered'[c] \o f.preedit = delivered[c] \o Held(o.engine)
  PROVE  Handles(c)
<1>. DEFINE es == [engines EXCEPT ![c] = f]
<1>1. c \in Ctx
  BY DEF TypeOK
<1>2. typed'[c] = o.typed /\ \A d \in Ctx : d # c => typed'[d] = typed[d] /\ delivered'[d] = delivered[d]
  BY <1>1, Delivered DEF TypeOK
<1>3. es \in [Ctx -> Engine] /\ es[c] = f /\ \A d \in Ctx : d # c => es[d] = engines[d]
  BY <1>1 DEF TypeOK
<1>10. engines' = es \/ engines' = Propagate(es, c, cat)
  OBVIOUS
<1>. HIDE DEF es
<1>4. engines'[c] = f
  BY <1>1, <1>3, <1>10, PropagateText
<1>5. ASSUME NEW d \in Ctx, d # c PROVE Rests(d)
  <2>1. /\ Confirms(engines[d], engines'[d]) /\ SamePopup(engines[d], engines'[d])
        /\ engines'[d].word = engines[d].word
    BY <1>3, <1>5, <1>10, PropagateText, ConfirmsSelf
  <2>2. ~engines[d].conv
    <3>1. CASE ~Converts
      BY <3>1 DEF AllFit, Fit, Plain
    <3>2. CASE Serial /\ AllDrained
      <4>1. engines[d].preedit = <<>> /\ Sound(engines[d]) /\ Len(<<>>) = 0
        BY <1>5, <3>2 DEF Serial, AllDrained, Idle, AllFit, Fit
      <4>. QED BY <4>1 DEF Sound
    <3>. QED BY <3>1, <3>2 DEF Steady
  <2>3. Converts => ~engines[d].word
    BY DEF AllFit, Fit, Single
  <2>. QED BY <1>2, <1>5, <2>1, <2>2, <2>3 DEF Rests
<1>6. TextOf(c)' = delivered[c] \o Held(o.engine)
  <2>1. Held(f) = f.preedit
    BY EngineFields, ConcatNone DEF Held, Drained
  <2>. QED BY <1>4, <2>1 DEF TextOf
<1>7. Turn(c)
  BY <1>1, <1>2, <1>6, KeyTurn
<1>8. Serial => \A d \in Ctx : d # c => d # focus
  BY DEF Serial
<1>9. Serial => c = focus'
  BY DEF Serial
<1>. QED BY <1>1, <1>4, <1>5, <1>7, <1>8, <1>9 DEF Handles

LEMMA DrainedFit ==
  ASSUME NEW e \in Engine, Fit(e)
  PROVE  LET f == [e EXCEPT !.commit = <<>>]
         IN  f \in Engine /\ Fit(f) /\ Drained(f) /\ f.preedit = e.preedit /\ f.cat = e.cat
<1>. DEFINE f == [e EXCEPT !.commit = <<>>]
<1>1. /\ f.commit = <<>> /\ f.preedit = e.preedit /\ f.word = e.word /\ f.cat = e.cat
      /\ f.conv = e.conv /\ f.popup = e.popup /\ f.target = e.target
  BY DEF Engine
<1>2. f \in Engine
  BY EmptyText, AddCommit
<1>. HIDE DEF f
<1>. QED BY <1>1, <1>2 DEF Fit, Sound, Single, Plain, Drained, f

\* The text that a fix leaves: none of it is dropped, whatever composes again.
LEMMA FixedText ==
  ASSUME TypeOK, NEW c \in Ctx, NEW e \in Engine, NEW text, NEW n \in Nat
  PROVE  LET f == FixedEngine(c, e, n, text)
         IN  /\ Drained(f) /\ Plain(f) /\ Sound(f)
             /\ f.preedit = SubSeq(text, Len(text) - n + 1, Len(text))
<1>. DEFINE cat   == IF e.cat = "Korean" THEN "English" ELSE "Korean"
            set   == SetInputCategory(e, cat)
            reset == ResetComposition(set)
            on    == DesiredWordMode(cfg, c)
            gated == SetWordMode(reset, on)
            live  == IF e.word /\ n > 0 THEN SetWordMode(gated, TRUE) ELSE gated
            tail  == SubSeq(text, Len(text) - n + 1, Len(text))
            f     == [live EXCEPT !.preedit = tail]
<1>1. cat \in Categories /\ on \in BOOLEAN
  BY DEF Categories, DesiredWordMode
<1>. HIDE DEF on
<1>2. set \in Engine
  BY <1>1, SetCategory DEF Keeps
<1>. HIDE DEF set, cat
<1>3. reset \in Engine /\ reset.commit = <<>> /\ reset.preedit = <<>> /\ Plain(reset) /\ reset.target = <<>>
  BY <1>2, ResetComp DEF Keeps, ResetComposition, Engine, Plain
<1>. HIDE DEF reset
<1>4. gated \in Engine /\ Confirms(reset, gated) /\ SamePopup(reset, gated)
  BY <1>1, <1>3, SetWord, SetWordText DEF Keeps
<1>. HIDE DEF gated
<1>5. live \in Engine /\ Confirms(gated, live) /\ SamePopup(gated, live)
  BY <1>4, SetWord, SetWordText, ConfirmsSelf DEF Keeps
<1>. HIDE DEF live
<1>6. live.commit = <<>> /\ Plain(live) /\ live.target = <<>>
  BY <1>3, <1>4, <1>5, ConfirmsIdle DEF SamePopup, Plain
<1>. HIDE DEF tail
<1>7. /\ f.commit = live.commit /\ f.preedit = tail /\ f.conv = live.conv
      /\ f.popup = live.popup /\ f.target = live.target
  BY <1>5 DEF Engine
<1>8. FixedEngine(c, e, n, text) = f
  BY DEF FixedEngine, tail, live, gated, on, reset, set, cat
<1>. HIDE DEF f
<1>. QED BY <1>6, <1>7, <1>8 DEF Drained, Plain, Sound, tail

LEMMA SplitText ==
  ASSUME NEW text \in Text, NEW n \in 0..Len(text)
  PROVE  SubSeq(text, 1, Len(text) - n) \o SubSeq(text, Len(text) - n + 1, Len(text)) = text
<1>. DEFINE m == Len(text)
            k == m - n
<1>1. text \in Seq(Nat \ {0}) /\ m \in Nat /\ k \in Nat /\ k <= m
  BY DEF Text
<1>2. 1 \in 1..m + 1 /\ k \in 1 - 1..m /\ m \in k..m
  BY <1>1
<1>3. SubSeq(text, 1, k) \o SubSeq(text, k + 1, m) = SubSeq(text, 1, m)
  BY <1>1, <1>2, ConcatAdjacentSubSeq
<1>4. SubSeq(text, 1, m) = text
  BY <1>1, SubSeqFull
<1>. QED BY <1>3, <1>4

LEMMA KeyStepText ==
  ASSUME TypeOK, TypeOK', AllFit, Steady, NEW c \in Ctx, NEW key \in KeyClasses, ProcessKey(c, key)
  PROVE  Handles(c)
<1>1. /\ c \in contexts /\ key \in Keys /\ contexts' = contexts /\ focus' = focus
      /\ Orderly => focus = c
  BY WorkerAssumption DEF ProcessKey, MayType
<1>2. PICK o \in PressKey(engines[c], key, typed[c]) :
        /\ typed' = [typed EXCEPT ![c] = o.typed]
        /\ \/ PressNoFix(c, o.engine)
           \/ PressFix(c, o.engine)
           \/ ToggleAutoTypefix(c, o.engine)
  BY DEF ProcessKey
<1>. DEFINE e == o.engine
<1>3. Fit(engines[c]) /\ engines[c] \in Engine /\ typed[c] \in Text /\ delivered[c] \in Text
  BY DEF AllFit, TypeOK
<1>4. key = "hanja" => Converts
  BY DEF Converts
<1>5. KeyText(engines[c], key, typed[c], o)
  BY <1>1, <1>3, <1>4, PressKeyText DEF Fit
<1>6. e \in Engine
  BY <1>1, <1>3, PressKeyKeeps DEF KeepsAll, Keeps
<1>7. Fit(e)
  BY <1>3, <1>4, <1>5 DEF KeyText, Fit, Converts
<1>8. e.cat \in Categories /\ e.commit \in Text /\ e.preedit \in Text
  BY <1>6, EngineFields
<1>9. (delivered[c] \o e.commit) \o e.preedit = delivered[c] \o Held(e)
  BY <1>3, <1>8, ConcatThree DEF Held
<1>. DEFINE f == [e EXCEPT !.commit = <<>>]
<1>10. f \in Engine /\ Fit(f) /\ Drained(f) /\ f.preedit = e.preedit
  BY <1>6, <1>7, DrainedFit
<1>. HIDE DEF e
<1>11. CASE PressNoFix(c, e) \/ ToggleAutoTypefix(c, e)
  <2>1. /\ Deliver(c, e.commit)
        /\ \/ engines' = [engines EXCEPT ![c] = f]
           \/ engines' = Propagate([engines EXCEPT ![c] = f], c, e.cat)
    BY <1>11 DEF PressNoFix, ToggleAutoTypefix
  <2>. HIDE DEF f
  <2>2. delivered'[c] \o f.preedit = delivered[c] \o Held(e)
    BY <1>9, <1>10, <2>1, Delivered
  <2>. QED BY <1>1, <1>2, <1>5, <1>8, <1>10, <2>1, <2>2, KeyHandles DEF e
<1>12. CASE PressFix(c, e)
  <2>. DEFINE text == delivered[c] \o e.commit \o e.preedit
  <2>1. text \in Text /\ text = delivered[c] \o Held(e)
    BY <1>3, <1>8, <1>9, ConcatText
  <2>2. cfg.atf /\ ~ShouldBlockHangul(e.purpose)
    BY <1>12 DEF PressFix, FixAllowed
  <2>3. ~Converts
    BY <2>2 DEF Steady, ConfigAsWritten, Serial
  <2>. HIDE DEF text
  <2>4. PICK n \in 0..Len(text) :
          LET g == FixedEngine(c, e, n, text)
          IN  /\ e.cat = "Korean" => n = 0
              /\ \/ engines' = [engines EXCEPT ![c] = g]
                 \/ engines' = Propagate([engines EXCEPT ![c] = g], c, g.cat)
              /\ delivered' = [delivered EXCEPT ![c] = SubSeq(text, 1, Len(text) - n)]
    BY <1>12 DEF PressFix, text
  <2>5. n \in Nat
    BY <2>1 DEF Text
  <2>. DEFINE g == FixedEngine(c, e, n, text)
  <2>6. g \in Engine
    BY <1>6, <2>1, <2>2, <2>4, FixKeeps DEF Keeps
  <2>7. /\ Drained(g) /\ Plain(g) /\ Sound(g)
        /\ g.preedit = SubSeq(text, Len(text) - n + 1, Len(text))
    BY <1>6, <2>5, FixedText
  <2>. HIDE DEF g
  <2>8. g.cat \in Categories /\ Fit(g)
    BY <2>3, <2>6, <2>7, EngineFields DEF Fit
  <2>9. delivered'[c] \o g.preedit = delivered[c] \o Held(e)
    <3>1. delivered'[c] = SubSeq(text, 1, Len(text) - n)
      BY <2>4 DEF TypeOK
    <3>2. n \in 0..Len(text)
      BY <2>4
    <3>3. SubSeq(text, 1, Len(text) - n) \o SubSeq(text, Len(text) - n + 1, Len(text)) = text
      BY <2>1, <3>2, SplitText
    <3>. QED BY <2>1, <2>7, <3>1, <3>3
  <2>. QED BY <1>1, <1>2, <1>5, <2>4, <2>6, <2>7, <2>8, <2>9, KeyHandles DEF e, g
<1>. QED BY <1>2, <1>11, <1>12 DEF e

\* A step that leaves every engine as it is, or confirms it.
LEMMA AllRest ==
  ASSUME TypeOK, TypeOK', AllFit, \A d \in Ctx : Rests(d), contexts' = contexts, focus' = focus,
         Serial /\ AllDrained => \A d \in Ctx : engines'[d].commit = engines[d].commit
  PROVE  /\ AllFit' /\ \A d \in Ctx : Turn(d)
         /\ Serial /\ AllDrained => AllDrained'
<1>1. ASSUME NEW d \in Ctx
      PROVE  /\ Fit(engines'[d]) /\ (d \notin contexts' => Held(engines'[d]) = <<>>) /\ Turn(d)
             /\ Serial /\ AllDrained => Drained(engines'[d]) /\ (d # focus' => Idle(engines'[d]))
  <2>1. Rests(d) /\ Fit(engines[d]) /\ (d \notin contexts => Held(engines[d]) = <<>>)
    BY DEF AllFit
  <2>. QED BY <2>1, RestsFit DEF AllDrained, Turn, Drained
<1>. QED BY <1>1 DEF AllFit, AllDrained

LEMMA PollText ==
  ASSUME TypeOK, TypeOK', AllFit, Steady, Poll
  PROVE  /\ AllFit' /\ \A d \in Ctx : Turn(d)
         /\ Serial /\ AllDrained => AllDrained'
<1>1. PICK reload \in {FALSE} \cup {newer} :
        LET config  == IF reload THEN file ELSE cfg
            changed == reload /\ config.kor # koreanFp
            ready   == {d \in Unbuilt(changed) : ~IsMidComposition(engines[d])}
        IN  engines' = [d \in Ctx |-> IF d \in ready THEN ApplyKoreanRebuild(engines[d], config, d)
                                      ELSE engines[d]]
  BY DEF Poll
<1>. DEFINE config == IF reload THEN file ELSE cfg
<1>2. config \in Config /\ contexts' = contexts /\ focus' = focus /\ typed' = typed /\ delivered' = delivered
  BY DEF Poll, TypeOK, clientVars
<1>. HIDE DEF config
<1>3. ASSUME NEW d \in Ctx
      PROVE  Rests(d) /\ engines'[d].commit = engines[d].commit
  <2>. DEFINE e == engines[d]
              f == engines'[d]
  <2>1. e \in Engine /\ (Converts => ~e.word)
    BY DEF TypeOK, AllFit, Fit, Single
  <2>2. f = e \/ (f = ApplyKoreanRebuild(e, config, d) /\ ~IsComposing(e))
    BY <1>1 DEF config, IsMidComposition
  <2>3. CASE f = e
    BY <1>2, <2>1, <2>3, ConfirmsSelf DEF Rests
  <2>4. CASE f = ApplyKoreanRebuild(e, config, d) /\ ~IsComposing(e)
    <3>. DEFINE g  == RebuildKoreanContext(e, config.kor)
                on == DesiredWordMode(config, d)
    <3>1. g \in Engine /\ Confirms(e, g) /\ SamePopup(e, g)
      BY <1>2, <2>1, Rebuild, RebuildText, ConfigFields
    <3>2. f = ApplyWordGate(g, on)
      BY <2>4 DEF ApplyKoreanRebuild, Gated
    <3>. HIDE DEF g
    <3>3. on \in BOOLEAN /\ (Converts => on = FALSE)
      BY DEF DesiredWordMode, Steady, Serial
    <3>. HIDE DEF on
    <3>4. f \in Engine /\ Confirms(g, f) /\ SamePopup(g, f) /\ f.word = on
      BY <3>1, <3>2, <3>3, GateText, ApplyGate DEF Keeps
    <3>5. Confirms(e, f) /\ SamePopup(e, f)
      BY <3>1, <3>4, ConfirmsTrans DEF SamePopup
    <3>6. e.preedit = <<>>
      BY <2>4 DEF IsComposing
    <3>. HIDE DEF f
    <3>7. f.preedit = <<>> /\ f.commit = e.commit
      BY <2>1, <3>4, <3>5, <3>6, ConfirmsIdle
    <3>. QED BY <1>2, <3>3, <3>4, <3>5, <3>6, <3>7 DEF Rests, f
  <2>. QED BY <2>2, <2>3, <2>4
<1>. QED BY <1>2, <1>3, AllRest

LEMMA WriteText ==
  ASSUME TypeOK, TypeOK', AllFit, WriteFile
  PROVE  /\ AllFit' /\ \A d \in Ctx : Turn(d)
         /\ Serial /\ AllDrained => AllDrained'
<1>1. engines' = engines /\ contexts' = contexts /\ focus' = focus /\ typed' = typed /\ delivered' = delivered
  BY DEF WriteFile, workerVars, clientVars
<1>2. \A d \in Ctx : Rests(d)
  BY <1>1, ConfirmsSelf DEF Rests, AllFit, Fit, Single
<1>. QED BY <1>1, <1>2, AllRest

LEMMA GlobalModeText ==
  ASSUME TypeOK, TypeOK', AllFit, Steady, SetGlobalMode
  PROVE  /\ AllFit' /\ \A d \in Ctx : Turn(d)
         /\ Serial /\ AllDrained => AllDrained'
<1>1. PICK cat \in Categories :
        engines' = IF Shared THEN Propagate(engines, NoCtx, cat) ELSE engines
  BY DEF SetGlobalMode
<1>2. /\ contexts' = contexts /\ focus' = focus /\ typed' = typed /\ delivered' = delivered
      /\ "setGlobalMode" \in Requests
  BY DEF SetGlobalMode, clientVars, Handling
<1>3. Serial => engines' = engines
  BY <1>1, <1>2 DEF Steady, ConfigAsWritten, Shared
<1>4. ASSUME NEW d \in Ctx PROVE Rests(d)
  <2>1. engines \in [Ctx -> Engine] /\ (Converts => ~engines[d].word)
    BY DEF TypeOK, AllFit, Fit, Single
  <2>2. CASE engines' = engines
    BY <1>2, <2>1, <2>2, ConfirmsSelf DEF Rests
  <2>3. CASE engines' # engines
    <3>1. ~Converts /\ ~engines[d].conv
      BY <1>3, <2>3 DEF Steady, AllFit, Fit, Plain
    <3>2. engines' = Propagate(engines, NoCtx, cat)
      BY <1>1, <2>3
    <3>3. Confirms(engines[d], engines'[d]) /\ SamePopup(engines[d], engines'[d])
      BY <2>1, <3>2, PropagateText
    <3>. QED BY <1>2, <3>1, <3>3 DEF Rests
  <2>. QED BY <2>2, <2>3
<1>. QED BY <1>2, <1>3, <1>4, AllRest

LEMMA ContentTypeText ==
  ASSUME TypeOK, TypeOK', AllFit, Steady, NEW c \in Ctx, SetContentType(c)
  PROVE  /\ AllFit' /\ \A d \in Ctx : Turn(d)
         /\ Serial /\ AllDrained => AllDrained'
<1>1. PICK purpose \in Purposes :
        engines' = [engines EXCEPT ![c] = SetContentPurpose(engines[c], purpose)]
  BY DEF SetContentType
<1>2. /\ contexts' = contexts /\ focus' = focus /\ typed' = typed /\ delivered' = delivered
      /\ ~Serial /\ ~Converts
  BY DEF SetContentType, clientVars, Handling, Steady, Serial
<1>. DEFINE f == SetContentPurpose(engines[c], purpose)
<1>3. Confirms(engines[c], f) /\ SamePopup(engines[c], f)
  BY ContentPurposeText DEF TypeOK
<1>. HIDE DEF f
<1>4. engines'[c] = f /\ \A d \in Ctx : d # c => Rests(d)
  BY <1>1, <1>2, OthersRest DEF f
<1>5. Rests(c)
  BY <1>2, <1>3, <1>4 DEF Rests, AllFit, Fit, Plain
<1>. QED BY <1>2, <1>4, <1>5, AllRest

LEMMA TypeFixText ==
  ASSUME TypeOK, TypeOK', AllFit, GlobalTypeFix
  PROVE  /\ AllFit' /\ \A d \in Ctx : Turn(d)
         /\ Serial /\ AllDrained => AllDrained'
<1>1. PICK cat \in Categories :
        engines' = [engines EXCEPT ![lastFocused] = TypefixConvert(engines[lastFocused], cat)]
  BY DEF GlobalTypeFix
<1>2. /\ contexts' = contexts /\ focus' = focus /\ typed' = typed /\ delivered' = delivered
      /\ lastFocused \in Ctx
  BY DEF GlobalTypeFix, clientVars, TypeOK
<1>. DEFINE e == engines[lastFocused]
            f == TypefixConvert(e, cat)
<1>3. /\ f.commit = e.commit /\ f.preedit = e.preedit /\ f.word = e.word
      /\ f.conv = e.conv /\ f.popup = e.popup /\ f.target = e.target
  BY <1>2 DEF TypefixConvert, Engine, TypeOK
<1>. HIDE DEF f
<1>4. engines'[lastFocused] = f /\ \A d \in Ctx : d # lastFocused => engines'[d] = engines[d] /\ Rests(d)
  BY <1>1, <1>2, OthersRest DEF f
<1>5. Rests(lastFocused)
  BY <1>2, <1>3, <1>4 DEF Rests, AllFit, Fit, Single, Confirms, SamePopup, Held
<1>. QED BY <1>2, <1>3, <1>4, <1>5, AllRest

LEMMA GetHanjaText ==
  ASSUME TypeOK, TypeOK', AllFit, Steady, NEW c \in Ctx, GetHanjaCandidates(c)
  PROVE  Handles(c)
<1>1. PICK f \in StartHanjaConversion(engines[c]) : engines' = [engines EXCEPT ![c] = f]
  BY DEF GetHanjaCandidates
<1>2. /\ contexts' = contexts /\ focus' = focus /\ typed' = typed /\ delivered' = delivered
      /\ c \in contexts /\ Converts /\ (Orderly => focus = c)
  BY DEF GetHanjaCandidates, clientVars, Handling, Converts, MayType
<1>3. Serial /\ AllDrained /\ focus = c
  BY <1>2 DEF Steady, Serial
<1>4. engines[c] \in Engine /\ Sound(engines[c]) /\ Single(engines[c]) /\ Drained(engines[c])
  BY <1>2, <1>3 DEF TypeOK, AllFit, Fit, AllDrained
<1>5. Held(f) = Held(engines[c]) /\ Drained(f) /\ Fit(f)
  BY <1>2, <1>4, StartText DEF Fit, Drained
<1>6. engines'[c] = f /\ \A d \in Ctx : d # c => engines'[d] = engines[d] /\ Rests(d)
  BY <1>1, <1>2, OthersRest
<1>7. Still(c)
  BY <1>2, <1>5, <1>6 DEF Still, TextOf
<1>. QED BY <1>2, <1>3, <1>5, <1>6, <1>7 DEF Handles, Turn

\* A conversion is under way in the field in use only, where its text goes.
LEMMA ConvertsHere ==
  ASSUME TypeOK, AllFit, Steady, NEW c \in contexts, NEW owner \in PopupOwners(c), engines[owner].conv
  PROVE  Serial /\ AllDrained /\ owner = focus /\ RedirectTarget(c) = owner
<1>1. owner \in contexts /\ engines[owner] \in Engine /\ owner \in Ctx
  BY OwnersLive DEF TypeOK
<1>2. Serial /\ AllDrained
  BY <1>1 DEF AllFit, Fit, Plain, Steady
<1>3. engines[owner].preedit # <<>>
  <2>1. Len(engines[owner].preedit) = 1
    BY <1>1 DEF AllFit, Fit, Sound
  <2>2. Len(<<>>) = 0
    OBVIOUS
  <2>. QED BY <2>1, <2>2
<1>4. owner = focus
  BY <1>1, <1>2, <1>3 DEF AllDrained, Idle
<1>. QED BY <1>1, <1>2, <1>4, WorkerAssumption DEF Steady, FocusLast, RedirectTarget

\* The end of a conversion hands its text over.
LEMMA EndText ==
  ASSUME TypeOK, TypeOK', AllFit, Steady, NEW c \in contexts, NEW owner \in PopupOwners(c),
         engines[owner].conv, contexts' = contexts, focus' = focus, typed' = typed,
         engines' = [engines EXCEPT ![owner] = CancelConversion(engines[owner])],
         Deliver(RedirectTarget(c), engines[owner].target)
  PROVE  Handles(owner)
<1>. DEFINE e == engines[owner]
            f == CancelConversion(e)
<1>1. owner \in Ctx /\ e \in Engine
  BY OwnersLive DEF TypeOK
<1>2. Serial /\ AllDrained /\ owner = focus /\ RedirectTarget(c) = owner
  BY ConvertsHere
<1>3. /\ f.commit = e.commit /\ f.preedit = <<>> /\ f.word = e.word
      /\ f.conv = FALSE /\ f.popup = "none" /\ f.target = <<>>
  BY <1>1 DEF CancelConversion, Engine
<1>4. Fit(e) /\ e.commit = <<>> /\ e.target = e.preedit
  BY <1>1, <1>2 DEF AllFit, AllDrained, Drained, Fit, Sound
<1>. HIDE DEF f
<1>5. Fit(f) /\ Drained(f)
  <2>1. Len(<<>>) <= 1
    OBVIOUS
  <2>. QED BY <1>3, <1>4, <2>1 DEF Fit, Sound, Single, Plain, Drained
<1>6. /\ delivered'[owner] = delivered[owner] \o e.preedit
      /\ \A d \in Ctx : d # owner => delivered'[d] = delivered[d]
  BY <1>1, <1>2, <1>4, Delivered
<1>7. engines'[owner] = f /\ \A d \in Ctx : d # owner => engines'[d] = engines[d] /\ Rests(d)
  BY <1>1, <1>6, OthersRest DEF f
<1>8. delivered[owner] \in Text /\ e.preedit \in Text
  BY <1>1, TextOfHeld
<1>9. Held(f) = <<>> /\ Held(e) = e.preedit
  BY <1>3, <1>4, <1>8, EmptyText, ConcatNone DEF Held
<1>10. Still(owner)
  <2>1. TextOf(owner)' = (delivered[owner] \o e.preedit) \o <<>> /\ TextOf(owner) = delivered[owner] \o e.preedit
    BY <1>6, <1>7, <1>9 DEF TextOf
  <2>. QED BY <1>8, <2>1, ConcatText, ConcatNone DEF Still
<1>11. owner \in contexts'
  BY OwnersLive
<1>. QED BY <1>2, <1>5, <1>7, <1>10, <1>11 DEF Handles, Turn

LEMMA SelectText ==
  ASSUME TypeOK, TypeOK', AllFit, Steady, NEW c \in Ctx, SelectHanja(c)
  PROVE  \E owner \in Ctx : Handles(owner)
<1>1. /\ c \in contexts /\ contexts' = contexts /\ focus' = focus /\ typed' = typed
  BY DEF SelectHanja
<1>2. PICK owner \in PopupOwners(c) :
        /\ engines[owner].conv
        /\ engines' = [engines EXCEPT ![owner] = CancelConversion(engines[owner])]
        /\ Deliver(RedirectTarget(c), engines[owner].target)
  BY DEF SelectHanja, SelectConversion
<1>3. owner \in Ctx
  BY <1>1, OwnersLive DEF TypeOK
<1>. QED BY <1>1, <1>2, <1>3, EndText

LEMMA CancelText ==
  ASSUME TypeOK, TypeOK', AllFit, Steady, NEW c \in Ctx, CancelHanja(c)
  PROVE  \E owner \in Ctx : Handles(owner)
<1>1. /\ c \in contexts /\ contexts' = contexts /\ focus' = focus /\ typed' = typed
      /\ "cancel" \in Requests
  BY DEF CancelHanja, Handling
<1>2. PICK owner \in PopupOwners(c) :
        /\ Orderly => engines[owner].popup = "conv"
        /\ engines' = [engines EXCEPT ![owner] = CancelConversion(engines[owner])]
        /\ Deliver(RedirectTarget(c), engines[owner].target)
  BY DEF CancelHanja
<1>. DEFINE e == engines[owner]
            f == CancelConversion(e)
<1>3. owner \in Ctx /\ owner \in contexts /\ e \in Engine /\ RedirectTarget(c) \in Ctx
  BY <1>1, OwnersLive DEF TypeOK
<1>4. CASE e.conv
  BY <1>1, <1>2, <1>3, <1>4, EndText
<1>5. CASE ~e.conv
  <2>1. Fit(e) /\ e.target = <<>> /\ ~(Serial /\ AllDrained)
    BY <1>2, <1>3, <1>5 DEF AllFit, Fit, Sound, Serial
  <2>2. /\ f.commit = e.commit /\ f.preedit = <<>> /\ f.word = e.word
        /\ f.conv = FALSE /\ f.popup = "none" /\ f.target = <<>>
    BY <1>3 DEF CancelConversion, Engine
  <2>3. \A d \in Ctx : delivered'[d] = delivered[d]
    BY <1>2, <1>3, <2>1, ConcatNone, Delivered DEF TypeOK
  <2>. HIDE DEF f
  <2>4. engines'[owner] = f /\ \A d \in Ctx : d # owner => engines'[d] = engines[d] /\ Rests(d)
    BY <1>1, <1>2, <1>3, <2>3, OthersRest DEF f
  <2>5. Fit(f)
    <3>1. Len(<<>>) <= 1
      OBVIOUS
    <3>. QED BY <2>1, <2>2, <3>1 DEF Fit, Sound, Single, Plain
  <2>6. /\ delivered[owner] \in Text /\ e.commit \in Text /\ e.preedit \in Text
        /\ TextOf(owner) = delivered[owner] \o (e.commit \o e.preedit)
    BY <1>3, TextOfHeld DEF TextOf, Held
  <2>. DEFINE a == delivered[owner] \o e.commit
  <2>7. a \in Text /\ TextOf(owner) = a \o (e.preedit \o <<>>)
    <3>1. a \in Text /\ e.preedit \o <<>> = e.preedit
      BY <2>6, ConcatText, ConcatNone
    <3>2. delivered[owner] \o (e.commit \o e.preedit) = a \o e.preedit
      BY <2>6, ConcatThree
    <3>. QED BY <2>6, <3>1, <3>2
  <2>8. TextOf(owner)' = a \o <<>>
    <3>1. Held(f) = e.commit
      BY <2>2, <2>6, ConcatNone DEF Held
    <3>. QED BY <2>3, <2>4, <2>7, <3>1, ConcatNone, <1>3 DEF TextOf
  <2>. HIDE DEF a
  <2>9. Dropped(owner)
    BY <1>1, <2>1, <2>6, <2>7, <2>8, EmptyText DEF Dropped
  <2>10. Handles(owner)
    BY <1>1, <1>3, <2>1, <2>4, <2>5, <2>9 DEF Handles, Turn
  <2>. QED BY <1>3, <2>10
<1>. QED BY <1>4, <1>5

LEMMA CancelPopupText ==
  ASSUME TypeOK, TypeOK', AllFit, Steady, NEW c \in Ctx, CancelPopup(c)
  PROVE  \E owner \in Ctx : Handles(owner)
<1>1. /\ c \in contexts /\ contexts' = contexts /\ focus' = focus /\ typed' = typed /\ delivered' = delivered
  BY DEF CancelPopup, clientVars
<1>2. PICK owner \in PopupOwners(c) :
        engines' = [engines EXCEPT ![owner] = CancelEmojiPopup(engines[owner])]
  BY DEF CancelPopup
<1>. DEFINE e == engines[owner]
            f == CancelEmojiPopup(e)
<1>3. owner \in Ctx /\ owner \in contexts /\ e \in Engine
  BY <1>1, OwnersLive DEF TypeOK
<1>4. /\ f.commit = e.commit /\ f.preedit = e.preedit /\ f.word = e.word
      /\ f.conv = e.conv /\ f.popup = "none" /\ f.target = e.target
  BY <1>3 DEF CancelEmojiPopup, Engine
<1>. HIDE DEF f
<1>5. engines'[owner] = f /\ \A d \in Ctx : d # owner => engines'[d] = engines[d] /\ Rests(d)
  BY <1>1, <1>2, <1>3, OthersRest DEF f
<1>6. Fit(f)
  BY <1>3, <1>4 DEF AllFit, Fit, Sound, Single, Plain
<1>7. Still(owner)
  BY <1>1, <1>4, <1>5 DEF Still, TextOf, Held
<1>8. Serial /\ AllDrained => Drained(f) /\ (owner # focus' => Idle(f))
  BY <1>1, <1>3, <1>4 DEF AllDrained, Drained, Idle
<1>9. Handles(owner)
  BY <1>1, <1>3, <1>5, <1>6, <1>7, <1>8 DEF Handles, Turn
<1>. QED BY <1>3, <1>9

-----------------------------------------------------------------------------
(* Every step. *)

LEMMA StepText ==
  ASSUME TypeOK, TypeOK', AllFit, Steady, Next
  PROVE  /\ AllFit' /\ \A d \in Ctx : Turn(d)
         /\ Serial /\ AllDrained => AllDrained'
<1>1. ASSUME NEW c \in Ctx, CreateContext(c) \/ DestroyContext(c) \/ FocusIn(c) \/ FocusOut(c)
                            \/ Reset(c) \/ GetHanjaCandidates(c)
      PROVE  \E d \in Ctx : Handles(d)
  BY <1>1, CreateText, DestroyText, FocusInText, FocusOutText, ResetText, GetHanjaText
<1>2. ASSUME NEW c \in Ctx, NEW key \in KeyClasses, ProcessKey(c, key)
      PROVE  \E d \in Ctx : Handles(d)
  BY <1>2, KeyStepText
<1>3. ASSUME NEW c \in Ctx, SelectHanja(c) \/ CancelHanja(c) \/ CancelPopup(c)
      PROVE  \E d \in Ctx : Handles(d)
  BY <1>3, SelectText, CancelText, CancelPopupText
<1>4. CASE \E d \in Ctx : Handles(d)
  BY <1>4, HandlesAll
<1>5. CASE Poll \/ WriteFile \/ SetGlobalMode \/ GlobalTypeFix \/ \E c \in Ctx : SetContentType(c)
  BY <1>5, PollText, WriteText, GlobalModeText, TypeFixText, ContentTypeText
<1>. QED BY <1>1, <1>2, <1>3, <1>4, <1>5 DEF Next

LEMMA InitFocus == Init => FocusLast
BY DEF Init, FocusLast

LEMMA StepFocus == FocusLast /\ [Next]_vars => FocusLast'
<1>. SUFFICES ASSUME FocusLast, [Next]_vars PROVE FocusLast'
  OBVIOUS
<1>1. CASE contexts' = contexts /\ lastFocused' = lastFocused /\ focus' = focus
  BY <1>1 DEF FocusLast
<1>2. ASSUME NEW c \in Ctx, CreateContext(c) \/ DestroyContext(c) \/ FocusIn(c) \/ FocusOut(c)
      PROVE  FocusLast'
  BY <1>2, WorkerAssumption DEF FocusLast, CreateContext, DestroyContext, FocusIn, FocusOut, clientVars
<1>3. ASSUME NEW c \in Ctx, Reset(c) \/ SetContentType(c) \/ GetHanjaCandidates(c)
                            \/ SelectHanja(c) \/ CancelHanja(c) \/ CancelPopup(c)
      PROVE  FocusLast'
  BY <1>1, <1>3 DEF Reset, SetContentType, GetHanjaCandidates, SelectHanja, CancelHanja,
                    CancelPopup, clientVars
<1>4. ASSUME NEW c \in Ctx, NEW key \in KeyClasses, ProcessKey(c, key)
      PROVE  FocusLast'
  BY <1>1, <1>4 DEF ProcessKey
<1>5. CASE Poll \/ WriteFile \/ SetGlobalMode \/ GlobalTypeFix \/ UNCHANGED vars
  BY <1>1, <1>5 DEF Poll, WriteFile, SetGlobalMode, GlobalTypeFix, vars, workerVars, clientVars
<1>. QED BY <1>2, <1>3, <1>4, <1>5 DEF Next

LEMMA InitConfig == Init => ConfigAsWritten
BY DEF Init, ConfigAsWritten, Serial, NoFixes

\* The sharing and the switch, the two settings that ConfigAsWritten is about.
LEMMA SameSettings ==
  ASSUME TypeOK, ConfigAsWritten,
         cfg' \in {cfg, file, LatestConfig} \cup {[cfg EXCEPT !.deflt = cat] : cat \in Categories},
         file' \in {cfg, file, LatestConfig}
  PROVE  ConfigAsWritten'
BY DEF TypeOK, Config, ConfigAsWritten, LatestConfig

LEMMA StepConfig == TypeOK /\ TypeOK' /\ ConfigAsWritten /\ [Next]_vars => ConfigAsWritten'
<1>. SUFFICES ASSUME TypeOK, TypeOK', ConfigAsWritten, [Next]_vars PROVE ConfigAsWritten'
  OBVIOUS
<1>1. CASE WriteFile
  <2>1. cfg' = cfg /\ file' \in Configs
    BY <1>1 DEF WriteFile, workerVars
  <2>. QED BY <2>1 DEF ConfigAsWritten, Serial, NoFixes
<1>2. CASE Poll
  BY <1>2, SameSettings DEF Poll
<1>3. ASSUME NEW c \in Ctx, CreateContext(c) \/ DestroyContext(c) \/ FocusIn(c) \/ FocusOut(c)
                            \/ Reset(c) \/ SetContentType(c) \/ GetHanjaCandidates(c)
                            \/ SelectHanja(c) \/ CancelHanja(c) \/ CancelPopup(c)
      PROVE  ConfigAsWritten'
  BY <1>3, SameSettings DEF CreateContext, DestroyContext, FocusIn, FocusOut, Reset, SetContentType,
                            GetHanjaCandidates, SelectHanja, CancelHanja, CancelPopup
<1>4. CASE SetGlobalMode
  BY <1>4, SameSettings DEF SetGlobalMode
<1>5. CASE GlobalTypeFix \/ UNCHANGED vars
  BY <1>5, SameSettings DEF GlobalTypeFix, vars, workerVars, fileVars
<1>6. ASSUME NEW c \in Ctx, NEW key \in KeyClasses, ProcessKey(c, key)
      PROVE  ConfigAsWritten'
  <2>1. c \in Ctx /\ key \in Keys /\ engines[c] \in Engine /\ typed[c] \in Text
    BY <1>6, WorkerAssumption DEF TypeOK
  <2>2. PICK o \in PressKey(engines[c], key, typed[c]) :
          \/ PressNoFix(c, o.engine)
          \/ PressFix(c, o.engine)
          \/ key = "atf" /\ ToggleAutoTypefix(c, o.engine)
    BY <1>6 DEF ProcessKey
  <2>3. o.engine.cat \in Categories
    BY <2>1, PressKeyKeeps, EngineFields DEF KeepsAll, Keeps
  <2>4. CASE PressNoFix(c, o.engine)
    BY <2>3, <2>4, SameSettings DEF PressNoFix
  <2>5. CASE PressFix(c, o.engine)
    <3>1. file' = file /\ \E cat : cfg' = [cfg EXCEPT !.deflt = cat]
      BY <2>5 DEF PressFix
    <3>. QED BY <3>1 DEF ConfigAsWritten, TypeOK, Config
  <2>6. CASE key = "atf" /\ ToggleAutoTypefix(c, o.engine)
    <3>1. cfg' = [LatestConfig EXCEPT !.atf = ~@] /\ file' = cfg'
      BY <2>6 DEF ToggleAutoTypefix
    <3>2. cfg'.sharing = LatestConfig.sharing /\ file'.sharing = LatestConfig.sharing
      BY <3>1 DEF TypeOK, Config, LatestConfig
    <3>. QED BY <2>6, <3>2 DEF ConfigAsWritten, NoFixes, LatestConfig
  <2>. QED BY <2>2, <2>4, <2>5, <2>6
<1>. QED BY <1>1, <1>2, <1>3, <1>4, <1>5, <1>6 DEF Next

\* The engines fit and, for serial clients, all but one are idle and all drained.
Shape == TypeOK /\ FocusLast /\ ConfigAsWritten /\ AllFit /\ (Serial => AllDrained)

LEMMA InitShape == Init => Shape
<1>. SUFFICES ASSUME Init PROVE Shape
  OBVIOUS
<1>1. TypeOK /\ FocusLast /\ ConfigAsWritten
  BY InitType, InitFocus, InitConfig
<1>. DEFINE f == NewEngine(InitialLayout, "Korean")
<1>2. \A c \in Ctx : engines[c] = f
  BY DEF Init
<1>3. /\ f.commit = <<>> /\ f.preedit = <<>> /\ Held(f) = <<>> /\ f.word = FALSE
      /\ Plain(f) /\ Sound(f)
  BY NewText
<1>. HIDE DEF f
<1>4. Len(<<>>) <= 1
  OBVIOUS
<1>. QED BY <1>1, <1>2, <1>3, <1>4 DEF Shape, AllFit, AllDrained, Fit, Single, Drained, Idle, Plain

LEMMA StepShape ==
  ASSUME ~Converts \/ Serial, Shape, [Next]_vars
  PROVE  Shape' /\ \A c \in Ctx : Turn(c)
<1>1. TypeOK /\ TypeOK' /\ FocusLast' /\ ConfigAsWritten'
  BY StepType, StepFocus, StepConfig DEF Shape
<1>2. CASE Next
  BY <1>1, <1>2, StepText DEF Shape, Steady
<1>3. CASE UNCHANGED vars
  <2>1. /\ contexts' = contexts /\ engines' = engines /\ typed' = typed /\ delivered' = delivered
        /\ focus' = focus
    BY <1>3 DEF vars, workerVars, clientVars
  <2>2. AllFit' /\ (Serial => AllDrained')
    BY <2>1 DEF Shape, AllFit, AllDrained
  <2>3. \A c \in Ctx : Turn(c)
    BY <2>1 DEF Turn, Still, TextOf
  <2>. QED BY <1>1, <2>2, <2>3 DEF Shape
<1>. QED BY <1>2, <1>3

\* The shape of the engines is kept.
THEOREM AlwaysShape ==
  ASSUME ~Converts \/ Serial
  PROVE  Spec => []Shape
<1>1. Shape /\ [Next]_vars => Shape'
  BY StepShape
<1>. QED BY <1>1, InitShape, PTL DEF Spec

-----------------------------------------------------------------------------
(* The theorems about the text. *)

\* TextOf as the properties write it.
LEMMA WholeText ==
  ASSUME NEW d \in Text, NEW e \in Engine
  PROVE  d \o e.commit \o e.preedit = d \o Held(e)
BY EngineFields, ConcatThree DEF Held

LEMMA WholeTexts ==
  ASSUME TypeOK, TypeOK', NEW c \in Ctx
  PROVE  /\ delivered[c] \o engines[c].commit \o engines[c].preedit = TextOf(c)
         /\ delivered'[c] \o engines'[c].commit \o engines'[c].preedit = TextOf(c)'
         /\ TextOf(c) \in Text /\ TextOf(c)' \in Text
         /\ typed[c] \in Text /\ typed'[c] \in Text
<1>1. /\ delivered[c] \in Text /\ engines[c] \in Engine /\ typed[c] \in Text
      /\ delivered'[c] \in Text /\ engines'[c] \in Engine /\ typed'[c] \in Text
  BY DEF TypeOK
<1>2. TextOf(c) \in Text /\ TextOf(c)' \in Text
  BY <1>1, HeldText, ConcatText DEF TextOf
<1>. QED BY <1>1, <1>2, WholeText DEF TextOf

\* No character of an English engine comes before a composition that is not Quiet.
LEMMA NoneInserted ==
  ASSUME AllQuiet, NEW c \in Ctx
  PROVE  ~Inserted(c)
BY DEF AllQuiet, Inserted

\* No request that drops text is made, or not by clients who could.
NoDrops == (~Converts /\ {"focusOut", "reset", "cancel"} \cap Requests = {}) \/ Serial

LEMMA NoneDropped ==
  ASSUME NoDrops, Shape, NEW c \in Ctx
  PROVE  ~Dropped(c)
BY DEF NoDrops, Shape, Dropped

LEMMA StepIntact ==
  ASSUME NoDrops, Shape, AllQuiet, TextIntact, [Next]_vars
  PROVE  TextIntact'
<1>1. Shape' /\ \A c \in Ctx : Turn(c)
  BY StepShape DEF NoDrops
<1>2. TypeOK /\ TypeOK'
  BY <1>1 DEF Shape
<1>3. ASSUME NEW c \in Ctx
      PROVE  delivered'[c] \o engines'[c].commit \o engines'[c].preedit = typed'[c]
  <2>1. TextOf(c) = typed[c]
    BY <1>2, WholeTexts DEF TextIntact
  <2>2. Still(c) \/ Typed(c) \/ Erased(c) \/ Closed(c)
    BY <1>1, NoneInserted, NoneDropped DEF Turn
  <2>3. TextOf(c)' = typed'[c]
    BY <2>1, <2>2 DEF Still, Typed, Erased, Closed, TypeChar
  <2>. QED BY <1>2, <2>3, WholeTexts
<1>. QED BY <1>3 DEF TextIntact

LEMMA InitIntact == Init => TextIntact
<1>. SUFFICES ASSUME Init, NEW c \in Ctx
              PROVE  delivered[c] \o engines[c].commit \o engines[c].preedit = typed[c]
  BY DEF TextIntact
<1>1. engines[c].commit = <<>> /\ engines[c].preedit = <<>> /\ delivered[c] = <<>> /\ typed[c] = <<>>
  BY NewText DEF Init
<1>. QED BY <1>1, EmptyText, ConcatNone

\* No character is lost, repeated or reordered, whatever the number of contexts,
\* applications and layouts, if no selection is converted under a composition:
\* for serial clients, with popups, conversions and reloads; and for any clients,
\* words and fixes included, whose fields end no composition by a request.
THEOREM NoTextLost ==
  ASSUME "typefix" \notin Requests, NoDrops
  PROVE  Spec => []TextIntact
<1>1. Spec => []Shape
  BY AlwaysShape DEF NoDrops
<1>2. Spec => []AllQuiet
  BY AlwaysQuiet
<1>3. Shape /\ AllQuiet /\ TextIntact /\ [Next]_vars => TextIntact'
  BY StepIntact
<1>. QED BY <1>1, <1>2, <1>3, InitIntact, PTL DEF Spec

-----------------------------------------------------------------------------
(* Order. *)

\* The text grows, and by characters typed.
Ordered(s, n) ==
  /\ \A i, j \in 1..Len(s) : i < j => s[i] < s[j]
  /\ \A i \in 1..Len(s) : s[i] <= n

LEMMA OrderedAppend ==
  ASSUME NEW s \in Text, NEW t \in Text, Ordered(s, Len(t))
  PROVE  Ordered(Append(s, Len(t) + 1), Len(TypeChar(t)))
<1>. DEFINE n == Len(t) + 1
            u == Append(s, n)
            m == Len(s)
<1>1. m \in Nat /\ n \in Nat \ {0} /\ s \in Seq(Nat \ {0}) /\ t \in Seq(Nat \ {0})
  BY DEF Text
<1>2. Len(u) = m + 1
  BY <1>1
<1>3. \A i \in 1..m : u[i] = s[i]
  BY <1>1
<1>4. u[m + 1] = n
  BY <1>1
<1>5. Len(TypeChar(t)) = n
  BY <1>1 DEF TypeChar
<1>6. \A i \in 1..m : s[i] \in Nat /\ s[i] < n
  <2>1. \A i \in 1..m : s[i] <= Len(t) /\ s[i] \in Nat
    BY <1>1 DEF Ordered
  <2>2. Len(t) \in Nat
    BY <1>1
  <2>. QED BY <2>1, <2>2
<1>7. \A i, j \in 1..m : i < j => s[i] < s[j]
  BY DEF Ordered
<1>. HIDE DEF u, m, n
<1>. QED BY <1>1, <1>2, <1>3, <1>4, <1>5, <1>6, <1>7 DEF Ordered, u, n

LEMMA OrderedFront ==
  ASSUME NEW s \in Text, NEW t \in Text, s # <<>>, Ordered(s, Len(t))
  PROVE  Ordered(Front(s), Len(Front(t)))
<1>. DEFINE m == Len(s)
            n == Len(t)
            u == Front(s)
<1>1. m \in Nat \ {0} /\ n \in Nat /\ s \in Seq(Nat \ {0}) /\ u \in Text /\ Len(u) = m - 1
  BY FrontLen DEF Text
<1>2. \A i \in 1..m : s[i] \in Nat \ {0} /\ s[i] <= n
  BY <1>1 DEF Ordered
<1>3. \A i, j \in 1..m : i < j => s[i] < s[j]
  BY DEF Ordered
<1>4. \A i \in 1..(m - 1) : u[i] = s[i]
  <2>1. u = SubSeq(s, 1, m - 1)
    BY DEF Front
  <2>. QED BY <1>1, <2>1
<1>5. t # <<>>
  <2>1. n # 0
    <3>. HIDE DEF n, m
    <3>. QED BY <1>1, <1>2
  <2>2. Len(<<>>) = 0
    OBVIOUS
  <2>. QED BY <2>1, <2>2
<1>6. Len(Front(t)) = n - 1
  BY <1>5, FrontLen
<1>. HIDE DEF u, m, n
<1>7. \A i \in 1..(m - 1) : s[i] < s[m] /\ s[m] <= n
  BY <1>1, <1>2, <1>3
<1>8. \A i \in 1..(m - 1) : u[i] <= n - 1
  BY <1>1, <1>2, <1>4, <1>7
<1>9. \A i, j \in 1..(m - 1) : i < j => u[i] < u[j]
  BY <1>1, <1>3, <1>4
<1>. QED BY <1>1, <1>6, <1>8, <1>9 DEF Ordered, u, n

\* What is left of an ordered text is ordered.
LEMMA OrderedDrop ==
  ASSUME NEW a \in Text, NEW m \in Text, NEW z \in Text, NEW n \in Nat, Ordered(a \o (m \o z), n)
  PROVE  Ordered(a \o z, n)
<1>. DEFINE s  == a \o (m \o z)
            u  == a \o z
            la == Len(a)
            lm == Len(m)
            lz == Len(z)
            at(i) == IF i <= la THEN i ELSE i + lm
<1>1. a \in Seq(Nat \ {0}) /\ m \in Seq(Nat \ {0}) /\ z \in Seq(Nat \ {0})
  BY DEF Text
<1>2. la \in Nat /\ lm \in Nat /\ lz \in Nat
  BY <1>1
<1>3. m \o z \in Seq(Nat \ {0}) /\ Len(m \o z) = lm + lz
  BY <1>1, ConcatProperties
<1>4. Len(s) = la + lm + lz /\ Len(u) = la + lz
  BY <1>1, <1>3, ConcatProperties
<1>5. \A i \in 1..la : u[i] = a[i] /\ s[i] = a[i]
  BY <1>1, <1>3
<1>6. \A i \in 1..lz : u[la + i] = z[i] /\ s[la + (lm + i)] = z[i]
  BY <1>1, <1>3
<1>. HIDE DEF u, s, la, lm, lz
<1>7. ASSUME NEW i \in 1..Len(u)
      PROVE  at(i) \in 1..Len(s) /\ u[i] = s[at(i)]
  <2>1. CASE i <= la
    BY <1>2, <1>4, <1>5, <2>1
  <2>2. CASE i > la
    <3>. DEFINE k == i - la
    <3>1. k \in 1..lz /\ i = la + k /\ at(i) = la + (lm + k)
      BY <1>2, <1>4, <2>2
    <3>. QED BY <1>2, <1>4, <1>6, <3>1
  <2>. QED BY <1>2, <1>4, <2>1, <2>2
<1>8. \A i, j \in 1..Len(u) : i < j => at(i) < at(j)
  BY <1>2, <1>4
<1>. HIDE DEF at
<1>9. (\A i, j \in 1..Len(s) : i < j => s[i] < s[j]) /\ (\A i \in 1..Len(s) : s[i] <= n)
  BY DEF Ordered, s
<1>. QED BY <1>7, <1>8, <1>9 DEF Ordered, u

AllOrdered == \A c \in Ctx : Ordered(TextOf(c), Len(typed[c]))

LEMMA StepOrdered ==
  ASSUME ~Converts \/ Serial, Shape, AllQuiet, AllOrdered, [Next]_vars
  PROVE  AllOrdered'
<1>1. Shape' /\ \A c \in Ctx : Turn(c)
  BY StepShape
<1>2. TypeOK /\ TypeOK'
  BY <1>1 DEF Shape
<1>3. ASSUME NEW c \in Ctx
      PROVE  Ordered(TextOf(c)', Len(typed'[c]))
  <2>1. /\ TextOf(c) \in Text /\ typed[c] \in Text /\ delivered[c] \in Text /\ engines[c] \in Engine
        /\ Ordered(TextOf(c), Len(typed[c]))
    BY <1>2, WholeTexts DEF AllOrdered, TypeOK
  <2>2. CASE Still(c)
    BY <2>1, <2>2 DEF Still
  <2>3. CASE Typed(c)
    BY <2>1, <2>3, OrderedAppend DEF Typed
  <2>4. CASE Erased(c)
    <3>1. TextOf(c) # <<>>
      <4>1. Held(engines[c]) # <<>>
        BY <2>1, <2>4, EngineFields, ConcatFront DEF Held, Erased
      <4>. QED BY <2>1, <4>1, HeldText, ConcatFront DEF TextOf
    <3>. QED BY <2>1, <2>4, <3>1, OrderedFront DEF Erased
  <2>5. CASE Closed(c)
    <3>1. Ordered(<<>>, Len(<<>>))
      <4>1. Len(<<>>) = 0 /\ 1..0 = {}
        OBVIOUS
      <4>. QED BY <4>1 DEF Ordered
    <3>. QED BY <2>5, <3>1 DEF Closed
  <2>6. CASE Dropped(c)
    <3>1. PICK a \in Text, m \in Text, z \in Text :
            TextOf(c) = a \o (m \o z) /\ TextOf(c)' = a \o z
      BY <2>6 DEF Dropped
    <3>2. Len(typed[c]) \in Nat
      BY <2>1 DEF Text
    <3>. QED BY <2>1, <2>6, <3>1, <3>2, OrderedDrop DEF Dropped
  <2>. QED BY <1>1, <2>2, <2>3, <2>4, <2>5, <2>6, NoneInserted DEF Turn
<1>. QED BY <1>3 DEF AllOrdered

LEMMA InitOrdered == Init => AllOrdered
<1>. SUFFICES ASSUME Init, NEW c \in Ctx PROVE Ordered(TextOf(c), Len(typed[c]))
  BY DEF AllOrdered
<1>1. Held(engines[c]) = <<>> /\ delivered[c] = <<>> /\ typed[c] = <<>>
  BY NewText DEF Init
<1>2. TextOf(c) = <<>>
  BY <1>1, EmptyText, ConcatNone DEF TextOf
<1>3. Len(<<>>) = 0 /\ 1..0 = {}
  OBVIOUS
<1>. QED BY <1>1, <1>2, <1>3 DEF Ordered

\* Whatever requests clients make and in whatever order, with words and fixes, a
\* field is given nothing twice and nothing out of order, if no conversion begins
\* and no selection is converted.
THEOREM NoTextReordered ==
  ASSUME "typefix" \notin Requests, ~Converts \/ Serial
  PROVE  Spec => []TextInOrder
<1>1. Spec => []Shape
  BY AlwaysShape
<1>2. Spec => []AllQuiet
  BY AlwaysQuiet
<1>3. Shape /\ AllQuiet /\ AllOrdered /\ [Next]_vars => AllOrdered'
  BY StepOrdered
<1>4. TypeOK /\ AllOrdered => TextInOrder
  <2>. SUFFICES ASSUME TypeOK, AllOrdered, NEW c \in Ctx
                PROVE  LET text == delivered[c] \o engines[c].commit \o engines[c].preedit
                       IN  \A i, j \in 1..Len(text) : i < j => text[i] < text[j]
    BY DEF TextInOrder
  <2>1. delivered[c] \o engines[c].commit \o engines[c].preedit = TextOf(c)
    BY WholeText DEF TextOf, TypeOK
  <2>. QED BY <2>1 DEF AllOrdered, Ordered
<1>5. Shape => TypeOK
  BY DEF Shape
<1>. QED BY <1>1, <1>2, <1>3, <1>4, <1>5, InitOrdered, PTL DEF Spec

-----------------------------------------------------------------------------
(* Nothing lost or repeated, whatever the order. *)

LEMMA AppendSet ==
  ASSUME NEW s \in Text, NEW n \in Nat \ {0}
  PROVE  Len(Append(s, n)) = Len(s) + 1 /\ ToSet(Append(s, n)) = ToSet(s) \cup {n}
<1>. DEFINE m == Len(s)
            u == Append(s, n)
<1>1. m \in Nat /\ s \in Seq(Nat \ {0})
  BY DEF Text
<1>2. Len(u) = m + 1 /\ DOMAIN u = 1..(m + 1) /\ DOMAIN s = 1..m
  BY <1>1
<1>3. (\A i \in 1..m : u[i] = s[i]) /\ u[m + 1] = n
  BY <1>1
<1>. HIDE DEF m, u
<1>4. ToSet(u) = {u[i] : i \in 1..(m + 1)} /\ ToSet(s) = {s[i] : i \in 1..m}
  BY <1>2 DEF ToSet
<1>5. {u[i] : i \in 1..(m + 1)} = {s[i] : i \in 1..m} \cup {n}
  <2>1. \A i \in 1..(m + 1) : i \in 1..m \/ i = m + 1
    BY <1>1
  <2>2. 1..m \subseteq 1..(m + 1) /\ m + 1 \in 1..(m + 1)
    BY <1>1
  <2>. QED BY <1>3, <2>1, <2>2
<1>. QED BY <1>2, <1>4, <1>5 DEF u, m

LEMMA ConcatSet ==
  ASSUME NEW s \in Text, NEW t \in Text
  PROVE  Len(s \o t) = Len(s) + Len(t) /\ ToSet(s \o t) = ToSet(s) \cup ToSet(t)
<1>. DEFINE m == Len(s)
            k == Len(t)
            u == s \o t
<1>1. m \in Nat /\ k \in Nat /\ s \in Seq(Nat \ {0}) /\ t \in Seq(Nat \ {0})
  BY DEF Text
<1>2. Len(u) = m + k /\ DOMAIN u = 1..(m + k) /\ DOMAIN s = 1..m /\ DOMAIN t = 1..k
  BY <1>1, ConcatProperties
<1>3. (\A i \in 1..m : u[i] = s[i]) /\ (\A i \in 1..k : u[m + i] = t[i])
  BY <1>1
<1>. HIDE DEF m, k, u
<1>4. /\ ToSet(u) = {u[i] : i \in 1..(m + k)} /\ ToSet(s) = {s[i] : i \in 1..m}
      /\ ToSet(t) = {t[i] : i \in 1..k}
  BY <1>2 DEF ToSet
<1>5. {u[i] : i \in 1..(m + k)} \subseteq {s[i] : i \in 1..m} \cup {t[i] : i \in 1..k}
  <2>. SUFFICES ASSUME NEW i \in 1..(m + k) PROVE u[i] \in {s[j] : j \in 1..m} \cup {t[j] : j \in 1..k}
    OBVIOUS
  <2>1. CASE i <= m
    BY <1>1, <1>3, <2>1
  <2>2. CASE i > m
    <3>. DEFINE j == i - m
    <3>1. j \in 1..k /\ i = m + j
      BY <1>1, <2>2
    <3>. HIDE DEF j
    <3>. QED BY <1>3, <3>1
  <2>. QED BY <1>1, <2>1, <2>2
<1>6. {s[i] : i \in 1..m} \subseteq {u[i] : i \in 1..(m + k)}
  <2>1. 1..m \subseteq 1..(m + k)
    BY <1>1
  <2>. QED BY <1>3, <2>1
<1>7. {t[i] : i \in 1..k} \subseteq {u[i] : i \in 1..(m + k)}
  <2>1. \A i \in 1..k : m + i \in 1..(m + k)
    BY <1>1
  <2>. QED BY <1>3, <2>1
<1>8. ToSet(u) = ToSet(s) \cup ToSet(t)
  BY <1>4, <1>5, <1>6, <1>7
<1>. QED BY <1>2, <1>8 DEF u, m, k

\* As many characters, and the same.
SameChars(s, t) == Len(s) = Len(t) /\ ToSet(s) = ToSet(t)

LEMMA StepKept ==
  ASSUME Serial, "backspace" \notin KeyClasses, Shape, [Next]_vars,
         \A c \in Ctx : SameChars(TextOf(c), typed[c])
  PROVE  \A c \in Ctx : SameChars(TextOf(c)', typed'[c])
<1>1. Shape' /\ \A c \in Ctx : Turn(c)
  BY StepShape
<1>2. TypeOK /\ TypeOK'
  BY <1>1 DEF Shape
<1>3. ASSUME NEW c \in Ctx
      PROVE  SameChars(TextOf(c)', typed'[c])
  <2>. DEFINE s == TextOf(c)
              t == typed[c]
              n == Len(t) + 1
  <2>0. s \in Text /\ t \in Text /\ SameChars(s, t)
    BY <1>2, WholeTexts
  <2>1. /\ s \in Text /\ t \in Text /\ SameChars(s, t)
        /\ n \in Nat \ {0} /\ Len(t) \in Nat
    <3>. HIDE DEF s
    <3>1. Len(t) \in Nat
      BY <2>0 DEF Text
    <3>. QED BY <2>0, <3>1
  <2>2. CASE Still(c)
    BY <2>1, <2>2 DEF Still
  <2>3. CASE Typed(c)
    <3>1. TextOf(c)' = Append(s, n) /\ typed'[c] = Append(t, n)
      BY <2>3 DEF Typed, TypeChar
    <3>. HIDE DEF s, t, n
    <3>. QED BY <2>1, <3>1, AppendSet DEF SameChars
  <2>4. CASE Closed(c)
    BY <2>4 DEF Closed, SameChars
  <2>5. CASE Inserted(c)
    <3>1. PICK a \in Text, z \in Text : s = a \o z /\ TextOf(c)' = Append(a, n) \o z
      BY <2>5 DEF Inserted
    <3>2. typed'[c] = Append(t, n)
      BY <2>5 DEF Inserted, TypeChar
    <3>. HIDE DEF s, t, n
    <3>3. Append(a, n) \in Text /\ Len(a) \in Nat /\ Len(z) \in Nat
      BY <2>1 DEF Text
    <3>4. Len(s) = Len(a) + Len(z) /\ ToSet(s) = ToSet(a) \cup ToSet(z)
      BY <3>1, ConcatSet
    <3>5. /\ Len(TextOf(c)') = Len(Append(a, n)) + Len(z)
          /\ ToSet(TextOf(c)') = ToSet(Append(a, n)) \cup ToSet(z)
      BY <3>1, <3>3, ConcatSet
    <3>6. /\ Len(Append(a, n)) = Len(a) + 1 /\ ToSet(Append(a, n)) = ToSet(a) \cup {n}
          /\ Len(Append(t, n)) = Len(t) + 1 /\ ToSet(Append(t, n)) = ToSet(t) \cup {n}
      BY <2>1, AppendSet
    <3>7. Len(TextOf(c)') = Len(typed'[c])
      BY <2>1, <3>2, <3>3, <3>4, <3>5, <3>6 DEF SameChars
    <3>8. ToSet(TextOf(c)') = ToSet(typed'[c])
      BY <2>1, <3>2, <3>4, <3>5, <3>6 DEF SameChars
    <3>. QED BY <3>7, <3>8 DEF SameChars
  <2>. QED BY <1>1, <2>2, <2>3, <2>4, <2>5, NoneDropped DEF Turn, Erased, NoDrops
<1>. QED BY <1>3

\* Where a selection may be converted under a composition, serial clients lose no
\* character and get none twice, though its place may change; with words, fixes and
\* the hotkey.  Backspace is left out: it erases the end of the composition, which
\* is no longer what was typed last.
THEOREM NoTextMissing ==
  ASSUME Serial, "backspace" \notin KeyClasses
  PROVE  Spec => []TextKept
<1>. DEFINE Same == \A c \in Ctx : SameChars(TextOf(c), typed[c])
<1>1. Spec => []Shape
  BY AlwaysShape
<1>2. Init => Same
  <2>. SUFFICES ASSUME Init, NEW c \in Ctx PROVE SameChars(TextOf(c), typed[c])
    OBVIOUS
  <2>1. Held(engines[c]) = <<>> /\ delivered[c] = <<>> /\ typed[c] = <<>>
    BY NewText DEF Init
  <2>2. TextOf(c) = <<>>
    BY <2>1, EmptyText, ConcatNone DEF TextOf
  <2>. QED BY <2>1, <2>2 DEF SameChars
<1>3. Shape /\ Same /\ [Next]_vars => Same'
  BY StepKept
<1>4. Shape /\ Same => TextKept
  <2>. SUFFICES ASSUME Shape, Same, NEW c \in Ctx
                PROVE  LET text == delivered[c] \o engines[c].commit \o engines[c].preedit
                       IN  Len(text) = Len(typed[c]) /\ ToSet(text) = ToSet(typed[c])
    BY DEF TextKept
  <2>1. delivered[c] \o engines[c].commit \o engines[c].preedit = TextOf(c)
    BY WholeText DEF TextOf, TypeOK, Shape
  <2>. QED BY <2>1 DEF SameChars
<1>. HIDE DEF Same
<1>. QED BY <1>1, <1>2, <1>3, <1>4, PTL DEF Spec

-----------------------------------------------------------------------------
(* The worker is an input method as TextFields describes it. *)

\* A step that gives the field of c some text, after a key typed t or none did.
Gives(c, t, text) ==
  /\ typed' = [typed EXCEPT ![c] = t]
  /\ delivered' = [delivered EXCEPT ![c] = delivered[c] \o text]

LEMMA OneWritten ==
  ASSUME TypeOK, ~cfg.atf, Next
  PROVE  \/ UNCHANGED <<typed, delivered>>
         \/ \E c \in Ctx : FieldText!Close(c)
         \/ \E c \in Ctx, t \in Text, text \in Text : Gives(c, t, text)
<1>1. CASE Poll \/ WriteFile \/ SetGlobalMode \/ GlobalTypeFix
  BY <1>1 DEF Poll, WriteFile, SetGlobalMode, GlobalTypeFix, clientVars
<1>2. ASSUME NEW c \in Ctx, CreateContext(c) \/ FocusIn(c) \/ SetContentType(c)
                            \/ GetHanjaCandidates(c) \/ CancelPopup(c)
      PROVE  UNCHANGED <<typed, delivered>>
  BY <1>2 DEF CreateContext, FocusIn, SetContentType, GetHanjaCandidates, CancelPopup, clientVars
<1>3. ASSUME NEW c \in Ctx, DestroyContext(c)
      PROVE  FieldText!Close(c)
  BY <1>3 DEF DestroyContext, FieldText!Close
<1>4. \A c \in Ctx : typed = [typed EXCEPT ![c] = typed[c]] /\ typed[c] \in Text
  BY DEF TypeOK
<1>5. ASSUME NEW c \in Ctx, FocusOut(c) \/ Reset(c)
      PROVE  \E text \in Text : Gives(c, typed[c], text)
  <2>1. CapturedCommit(engines[c]) \in Text
    BY ResetKeeps
  <2>2. typed' = typed /\ Deliver(c, CapturedCommit(engines[c]))
    BY <1>5 DEF FocusOut, Reset
  <2>. QED BY <1>4, <2>1, <2>2 DEF Gives, Deliver
<1>6. ASSUME NEW c \in Ctx, SelectHanja(c) \/ CancelHanja(c)
      PROVE  \E d \in Ctx, text \in Text : Gives(d, typed[d], text)
  <2>1. c \in contexts /\ typed' = typed
    BY <1>6 DEF SelectHanja, CancelHanja
  <2>2. PICK owner \in PopupOwners(c) : Deliver(RedirectTarget(c), engines[owner].target)
    BY <1>6 DEF SelectHanja, CancelHanja
  <2>3. RedirectTarget(c) \in Ctx /\ engines[owner].target \in Text
    BY <2>1, OwnersLive, EngineFields
  <2>. QED BY <1>4, <2>1, <2>2, <2>3 DEF Gives, Deliver
<1>7. ASSUME NEW c \in Ctx, NEW key \in KeyClasses, ProcessKey(c, key)
      PROVE  \E t \in Text, text \in Text : Gives(c, t, text)
  <2>1. key \in Keys /\ engines[c] \in Engine /\ typed[c] \in Text
    BY WorkerAssumption DEF TypeOK
  <2>2. PICK o \in PressKey(engines[c], key, typed[c]) :
          /\ typed' = [typed EXCEPT ![c] = o.typed]
          /\ \/ PressNoFix(c, o.engine)
             \/ PressFix(c, o.engine)
             \/ ToggleAutoTypefix(c, o.engine)
    BY <1>7 DEF ProcessKey
  <2>3. o.engine \in Engine /\ o.typed \in Text
    BY <2>1, PressKeyKeeps DEF KeepsAll, Keeps
  <2>4. Deliver(c, o.engine.commit)
    BY <2>2 DEF PressNoFix, PressFix, FixAllowed, ToggleAutoTypefix
  <2>. QED BY <2>2, <2>3, <2>4, EngineFields DEF Gives, Deliver
<1>. QED BY <1>1, <1>2, <1>3, <1>4, <1>5, <1>6, <1>7 DEF Next

LEMMA PrefixText ==
  ASSUME NEW s \in Text, NEW t \in Text
  PROVE  /\ SubSeq(s \o t, 1, Len(s)) = s /\ Len(s) \in 0..Len(s \o t)
         /\ t # <<>> => Len(s \o t) > Len(s)
         /\ s \o t = <<>> => s = <<>>
<1>. DEFINE m == Len(s)
            k == Len(t)
            u == s \o t
            v == SubSeq(u, 1, m)
<1>1. m \in Nat /\ k \in Nat /\ s \in Seq(Nat \ {0}) /\ t \in Seq(Nat \ {0})
  BY DEF Text
<1>2. u \in Seq(Nat \ {0}) /\ Len(u) = m + k /\ \A i \in 1..m : u[i] = s[i]
  BY <1>1, ConcatProperties
<1>3. t # <<>> => k > 0
  BY FrontLen
<1>4. u = <<>> => m = 0
  <2>1. Len(<<>>) = 0
    OBVIOUS
  <2>. HIDE DEF m, k, u
  <2>. QED BY <1>1, <1>2, <2>1
<1>5. s # <<>> => m > 0
  BY FrontLen
<1>6. v = s
  <2>1. \A i \in 1..m : u[i] \in Nat \ {0}
    BY <1>1, <1>2
  <2>. HIDE DEF u
  <2>2. v \in Seq(Nat \ {0}) /\ Len(v) = m /\ \A i \in 1..m : v[i] = u[i]
    BY <1>1, <1>2, <2>1, SubSeqProperties
  <2>. HIDE DEF v
  <2>. QED BY <1>1, <1>2, <2>2, SeqEqual
<1>. HIDE DEF m, k, u, v
<1>7. m \in 0..Len(u) /\ (t # <<>> => Len(u) > m) /\ (u = <<>> => s = <<>>)
  BY <1>1, <1>2, <1>3, <1>4, <1>5
<1>. QED BY <1>6, <1>7 DEF m, u, v

LEMMA StepField ==
  ASSUME Serial, NoFixes, Shape, AllQuiet, TextIntact, [Next]_vars
  PROVE  [FieldText!Next]_FieldText!vars
<1>1. Shape' /\ \A c \in Ctx : Turn(c)
  BY StepShape
<1>2. TypeOK /\ TypeOK' /\ ~cfg.atf
  BY <1>1 DEF Shape, ConfigAsWritten
<1>3. TextIntact'
  BY StepIntact DEF NoDrops
<1>4. CASE UNCHANGED <<typed, delivered>>
  BY <1>4 DEF FieldText!vars
<1>5. CASE \E c \in Ctx : FieldText!Close(c)
  BY <1>5 DEF FieldText!Next
<1>6. ASSUME NEW c \in Ctx, NEW t \in Text, NEW text \in Text, Gives(c, t, text)
      PROVE  FieldText!Next
  <2>. DEFINE s == delivered[c]
              g == delivered'[c]
              h == Held(engines'[c])
  <2>1. /\ s \in Text /\ g \in Text /\ h \in Text /\ typed[c] \in Text
        /\ engines[c] \in Engine /\ engines'[c] \in Engine
    BY <1>2, HeldText DEF TypeOK
  <2>2. typed'[c] = t /\ g = s \o text
    BY <1>2, <1>6 DEF Gives, TypeOK
  <2>3. t = g \o h
    BY <1>2, <1>3, <2>1, <2>2, WholeTexts DEF TextIntact, TextOf
  <2>4. typed[c] = s \o Held(engines[c])
    BY <1>2, WholeTexts DEF TextIntact, TextOf
  <2>5. delivered' = [delivered EXCEPT ![c] = g] /\ typed' = [typed EXCEPT ![c] = t]
    BY <1>6, <2>2 DEF Gives
  <2>. HIDE DEF g
  <2>6. g = SubSeq(t, 1, Len(g)) /\ Len(g) \in Len(s)..Len(t)
    <3>1. Len(s) \in Nat /\ Len(g) \in Nat /\ Len(t) \in Nat
      BY <2>1 DEF Text
    <3>2. SubSeq(g \o h, 1, Len(g)) = g /\ Len(g) \in 0..Len(g \o h)
      BY <2>1, PrefixText
    <3>3. Len(s) \in 0..Len(s \o text)
      BY <2>1, PrefixText
    <3>4. Len(g) \in 0..Len(t) /\ Len(s) \in 0..Len(g)
      BY <2>2, <2>3, <3>2, <3>3 DEF g
    <3>. QED BY <2>3, <3>1, <3>2, <3>4
  <2>7. Still(c) \/ Typed(c) \/ Erased(c) \/ Closed(c)
    BY <1>1, NoneInserted, NoneDropped DEF Turn, NoDrops
  <2>8. CASE t \in FieldText!Typings(c)
    <3>1. FieldText!Write(c)
      BY <2>5, <2>6, <2>8 DEF FieldText!Write
    <3>. QED BY <3>1 DEF FieldText!Next
  <2>9. CASE Still(c) \/ Typed(c)
    BY <2>2, <2>8, <2>9 DEF Still, Typed, TypeChar, FieldText!Typings
  <2>10. CASE Erased(c)
    <3>1. Held(engines[c]) # <<>>
      BY <2>1, <2>10, EngineFields, ConcatFront DEF Held, Erased
    <3>2. Len(typed[c]) > Len(s)
      BY <2>1, <2>4, <3>1, HeldText, PrefixText
    <3>3. t = Front(typed[c])
      BY <2>2, <2>10 DEF Erased
    <3>4. typed[c] \in {u \in {typed[c]} : Len(u) > Len(s)}
      BY <3>2
    <3>5. t \in FieldText!Typings(c)
      BY <3>3, <3>4 DEF FieldText!Typings, FieldText!Front, Front
    <3>. QED BY <2>8, <3>5
  <2>11. CASE Closed(c)
    <3>1. t = <<>>
      BY <2>2, <2>11 DEF Closed
    <3>2. g = <<>>
      BY <2>1, <2>3, <3>1, PrefixText
    <3>. QED BY <2>5, <3>1, <3>2 DEF FieldText!Next, FieldText!Close
  <2>. QED BY <2>7, <2>9, <2>10, <2>11
<1>7. CASE UNCHANGED vars
  BY <1>7 DEF vars, clientVars, FieldText!vars
<1>. QED BY <1>2, <1>4, <1>5, <1>6, <1>7, OneWritten

\* For serial clients, when no word is retyped and no selection converted, the
\* worker with its engines, popups, focus changes and reloads implements
\* TextFields: what a field has been given is what its user typed first.
THEOREM WorkerImplementsTextFields ==
  ASSUME "typefix" \notin Requests, Serial, NoFixes
  PROVE  Spec => ImplementsTextFields
<1>1. Init => FieldText!Init
  BY DEF Init, FieldText!Init
<1>2. Spec => []Shape
  BY AlwaysShape
<1>3. Spec => []AllQuiet
  BY AlwaysQuiet
<1>4. Spec => []TextIntact
  BY NoTextLost DEF NoDrops
<1>5. Shape /\ AllQuiet /\ TextIntact /\ [Next]_vars => [FieldText!Next]_FieldText!vars
  BY StepField
<1>. QED BY <1>1, <1>2, <1>3, <1>4, <1>5, PTL DEF Spec, ImplementsTextFields, FieldText!Spec
=============================================================================
