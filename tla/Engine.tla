------------------------------- MODULE Engine -------------------------------
(***************************************************************************)
(* One InputEngine (src/input_engine/engine.rs) as a record, and every      *)
(* method the daemon's worker calls on it as an operator from the old       *)
(* record to the new one.                                                   *)
(*                                                                          *)
(* Text is a sequence of characters, each one a number: the n-th character  *)
(* a user types into a context is n.  The spelling of a character (jamo,    *)
(* Hanja, symbol) is abstracted: a conversion that replaces a syllable by a *)
(* Hanja keeps its number, so that a lost, repeated or reordered character  *)
(* shows and a respelled one does not.                                      *)
(***************************************************************************)
EXTENDS Naturals, Sequences, SequencesExt

CONSTANTS
  Apps,          \* application identifiers (the part of window_id before ':')
  Layouts,       \* values of the Korean part of the configuration
  InitialLayout, \* the one the daemon starts with
  WordGate       \* the <<layout, app>> pairs whose word gate says Allowed

ASSUME EngineAssumption ==
  /\ InitialLayout \in Layouts
  /\ WordGate \subseteq Layouts \X Apps

Categories == {"Korean", "English"}
Purposes   == {"Normal", "Password", "Pin"}
Popups     == {"none", "conv", "emoji"}
Text       == Seq(Nat \ {0})
None       == "none"

ShouldBlockHangul(purpose) == purpose \in {"Password", "Pin"}

(***************************************************************************)
(* cat      input_category             purpose  content_purpose             *)
(* saved    saved_category             kor      the configuration the       *)
(*                                              korean_context was built of *)
(* word     accumulate_word            preedit  preedit_cache, which is the *)
(*                                              text korean_context holds   *)
(* commit   commit_buffer                                                   *)
(* conv     hanja_mode \/ special_char_mode, whose handling is the same     *)
(* popup    the kind of popup_state                                         *)
(* target   hanja_target / special_char_target                              *)
(***************************************************************************)
Engine == [cat: Categories, purpose: Purposes, saved: Categories \cup {None},
           kor: Layouts, word: BOOLEAN, preedit: Text, commit: Text,
           conv: BOOLEAN, popup: Popups, target: Text]

\* CompositionContext::is_composing; preedit_cache is empty exactly when it is false.
IsComposing(e) == e.preedit # <<>>

-----------------------------------------------------------------------------
(* engine.rs *)

\* Mutant: the composition is confirmed and stays.
FlushPreeditKept(e) == [e EXCEPT !.commit = @ \o e.preedit]

\* commit(), push to commit_buffer, clear(): the composition is confirmed.
FlushPreedit(e) == [e EXCEPT !.commit = @ \o e.preedit, !.preedit = <<>>]

\* Mutant: the category turns under the composition.
SetInputCategoryOnly(e, cat) == [e EXCEPT !.cat = cat]

SetInputCategory(e, cat) ==
  IF e.cat = cat THEN e ELSE [FlushPreedit(e) EXCEPT !.cat = cat]

SetWordMode(e, on) == [FlushPreedit(e) EXCEPT !.word = on]

\* The worker's apply_word_gate: no call, hence no flush, when nothing changes.
ApplyWordGate(e, on) == IF e.word = on THEN e ELSE SetWordMode(e, on)

\* CommitUnit::Word starts a new context in word mode and the other units do not;
\* apply_word_gate follows every call of this and of NewEngine and decides.
RebuildKoreanContext(e, layout) ==
  [FlushPreedit(e) EXCEPT !.kor = layout, !.word = FALSE]

NewEngine(layout, category) ==
  [cat |-> category, purpose |-> "Normal", saved |-> None, kor |-> layout,
   word |-> FALSE, preedit |-> <<>>, commit |-> <<>>,
   conv |-> FALSE, popup |-> "none", target |-> <<>>]

\* InputEngine::reset keeps the category, the purpose and what it saved.
ResetComposition(e) ==
  [e EXCEPT !.preedit = <<>>, !.commit = <<>>,
            !.conv = FALSE, !.popup = "none", !.target = <<>>]

-----------------------------------------------------------------------------
(* surrounding.rs *)

\* The category before the first blocking purpose is remembered, and English
\* forced; the first non-blocking purpose restores it.
SetContentPurpose(e, purpose) ==
  LET told == [e EXCEPT !.purpose = purpose]
  IN  CASE e.purpose = purpose -> e
        [] e.purpose # purpose /\ ShouldBlockHangul(purpose) ->
             SetInputCategory(
               [told EXCEPT !.saved = IF @ = None THEN e.cat ELSE @], "English")
        [] OTHER ->
             IF e.saved = None THEN told
             ELSE SetInputCategory([told EXCEPT !.saved = None], e.saved)

\* typefix_convert assigns input_category without set_input_category.
TypefixConvert(e, cat) == [e EXCEPT !.cat = cat]

-----------------------------------------------------------------------------
(* candidates.rs and popup_dispatch.rs *)

\* The outcomes of looking the last syllable up: candidates, or none.
StartHanjaConversion(e) ==
  {e} \cup
  (IF e.conv \/ ~IsComposing(e) THEN {}
   ELSE {[e EXCEPT !.conv = TRUE, !.popup = "conv", !.target = <<Last(e.preedit)>>]})

StartEmojiPopup(e) == [e EXCEPT !.popup = "emoji"]

\* cancel_hanja / cancel_special_char clear the whole korean_context.
CancelConversion(e) ==
  [e EXCEPT !.conv = FALSE, !.popup = "none", !.target = <<>>, !.preedit = <<>>]

CancelEmojiPopup(e) == [e EXCEPT !.popup = "none"]

\* select_hanja / select_special_char with a valid index: the candidate that
\* stands for the target is handed to the caller.
SelectConversion(e) == CancelConversion(e)

PopupActive(e) == e.conv \/ e.popup = "emoji"

\* Mutant: the target of a cancelled conversion is forgotten.
PopupCancelForgets(e) == IF e.conv THEN CancelConversion(e) ELSE CancelEmojiPopup(e)

\* popup_cancel: the target is confirmed as it was.
PopupCancel(e) ==
  IF e.conv THEN CancelConversion([e EXCEPT !.commit = @ \o e.target])
  ELSE CancelEmojiPopup(e)

\* popup_select; an emoji is a character of its own, n.
PopupSelect(e, n) ==
  IF e.conv THEN SelectConversion([e EXCEPT !.commit = @ \o e.target])
  ELSE CancelEmojiPopup([e EXCEPT !.commit = Append(@, n)])

-----------------------------------------------------------------------------
(* press_key.rs.  A key is its class; each operator is the set of what the   *)
(* key may do, as the engine afterwards and the text the user has typed.     *)

Keys ==
  {"jamo",       \* a key mapped to a jamo; a letter in English
   "char",       \* any other key that produces a character, Space included
   "other",      \* Enter, Tab, Escape, an arrow: confirms and passes through
   "backspace",
   "auto",       \* an auto_english_triggers key
   "toggle",     \* a Hangul/English key
   "shortcut",   \* a key with Ctrl, Alt or Super
   "hanja",
   "atf"}        \* an auto-typefix hotkey

Outcome(e, typed) == [engine |-> e, typed |-> typed]
TypeChar(typed)   == Append(typed, Len(typed) + 1)

\* push to commit_buffer of the character this key produces
CommitChar(e, typed) ==
  Outcome([e EXCEPT !.commit = Append(@, Len(typed) + 1)], TypeChar(typed))

\* The jamo joins the syllable being composed, or completes it and starts the
\* next one: compose_and_route keeps a completed syllable in word mode only.
ProcessJamo(e, typed) ==
  LET kept == IF e.word THEN e ELSE FlushPreedit(e)
      next == Outcome([kept EXCEPT !.preedit = Append(@, Len(typed) + 1)], TypeChar(typed))
  IN  IF IsComposing(e) THEN {next, Outcome(e, typed)} ELSE {next}

\* One jamo less: the last syllable is shorter, or gone.
ProcessBackspace(e, typed) ==
  IF IsComposing(e)
  THEN {Outcome(e, typed), Outcome([e EXCEPT !.preedit = Front(@)], Front(typed))}
  ELSE {Outcome(e, typed)}

\* An auto-English trigger switches, and commits its character if it has one.
AutoEnglish(e, typed) ==
  LET switched == SetInputCategory(FlushPreedit(e), "English")
  IN  {Outcome(switched, typed), CommitChar(switched, typed)}

ProcessKoreanKey(e, key, typed) ==
  CASE key = "jamo"      -> ProcessJamo(e, typed)
    [] key = "char"      -> {CommitChar(FlushPreedit(e), typed)}
    [] key = "other"     -> {Outcome(FlushPreedit(e), typed)}
    [] key = "backspace" -> ProcessBackspace(e, typed)
    [] key = "auto"      -> AutoEnglish(e, typed)

ProcessEnglishKey(e, key, typed) ==
  IF key \in {"jamo", "char"} THEN {CommitChar(e, typed)} ELSE {Outcome(e, typed)}

\* The toggle is refused in a blocking field that is already English.
ToggleKey(e, typed) ==
  {Outcome(IF ShouldBlockHangul(e.purpose) /\ e.cat = "English" THEN e
           ELSE [FlushPreedit(e) EXCEPT
                   !.cat = IF @ = "Korean" THEN "English" ELSE "Korean"], typed)}

\* Ctrl, Alt and Super confirm the composition and leave the category, unless
\* the combination is an auto-English trigger.
ShortcutKey(e, typed) ==
  {Outcome(FlushPreedit(e), typed), Outcome(SetInputCategory(FlushPreedit(e), "English"), typed)}

HanjaKey(e, typed) ==
  IF IsComposing(e) THEN {Outcome(x, typed) : x \in StartHanjaConversion(e)}
  ELSE {Outcome(StartEmojiPopup(e), typed)}

\* Mutant: a blocking field is trusted to be in English.
ForceEnglishNever(e) == e

\* A blocking field turns English at the first key that would compose.
ForceEnglish(e) ==
  IF ShouldBlockHangul(e.purpose) THEN SetInputCategory(e, "English") ELSE e

\* press_key with no popup: the order of its early returns.
PressKeyNoPopup(e, key, typed) ==
  LET forced == ForceEnglish(e)
  IN  CASE key = "toggle"   -> ToggleKey(e, typed)
        [] key = "atf"      -> {Outcome(e, typed)}
        [] key = "shortcut" -> ShortcutKey(e, typed)
        [] key = "hanja"    -> HanjaKey(forced, typed)
        [] OTHER            -> IF forced.cat = "Korean"
                               THEN ProcessKoreanKey(forced, key, typed)
                               ELSE ProcessEnglishKey(forced, key, typed)

\* The popup keeps the key (navigation), selects, cancels, or does not handle
\* it: then it is cancelled and the key pressed again.
ProcessPopupKey(e, key, typed) ==
  PressKeyNoPopup(PopupCancel(e), key, typed) \cup
  (IF e.popup = "none" THEN {}
   ELSE {Outcome(e, typed), Outcome(PopupCancel(e), typed),
         Outcome(PopupSelect(e, Len(typed) + 1),
                 IF e.conv THEN typed ELSE TypeChar(typed))})

PressKey(e, key, typed) ==
  IF PopupActive(e) THEN ProcessPopupKey(e, key, typed)
  ELSE PressKeyNoPopup(e, key, typed)
=============================================================================
