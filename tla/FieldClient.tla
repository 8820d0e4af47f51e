----------------------------- MODULE FieldClient -----------------------------
(***************************************************************************)
(* A text field of a GTK application and the daemon's context for it: the   *)
(* input-method module (unim-frontends/gtk3/src/immodule.c), its D-Bus      *)
(* client (gtk-common/src/unim_dbus_client.c) and what reaches them.        *)
(*                                                                          *)
(* The module calls the daemon and waits for the reply, but the signals the *)
(* daemon sends meanwhile are handled by the main loop afterwards, in the   *)
(* order in which they came: the reply to a later key may overtake them.    *)
(* Which characters a key confirms is the engine's affair (Engine); here it *)
(* is any beginning of the composition.                                     *)
(***************************************************************************)
EXTENDS Integers, Sequences, SequencesExt

CONSTANTS
  Events,    \* the kinds of event that happen
  MaxTyped,  \* bound: characters the user types
  MaxSignals \* bound: signals on their way

EventKinds ==
  {"syllable", "fix", "navigation", "hanja", "digit", "select", "cancel", "closeEmoji",
   "idleFlush", "focusOut", "timeout", "reset", "die"}

ASSUME ClientAssumption == Events \subseteq EventKinds /\ {MaxTyped, MaxSignals} \subseteq Nat

VARIABLES
  count,       \* how many characters the user has typed; the i-th is i
  preedit,     \* the engine's composition, or the target of its conversion
  popup,       \* the engine's popup
  alive,       \* the daemon is the one that made the context
  signals,     \* on their way to the module, in order
  cache,       \* preedit_cache; is_composing when it is not empty
  skip,        \* pending_skip_commit, or None
  injected,    \* BackSpaces of XTest the application has yet to see
  bsPending,   \* autofix_bs_pending
  deferred,    \* autofix_commit_text and autofix_preedit_text, or None
  idle,        \* calls of autofix_deferred_commit_cb that are due
  popupActive, \* popup_active
  focused,     \* is_focused
  field,       \* the text of the application; a Hanja is its character negated
  raced        \* history: two events met for which the module has no order

daemonVars == <<preedit, popup, alive>>
fixVars    == <<injected, bsPending, deferred, idle>>
clientVars == <<cache, skip, fixVars, popupActive, focused>>
vars       == <<count, daemonVars, signals, clientVars, field, raced>>

\* No text to skip, no fix deferred
None == <<>>

Init ==
  /\ count = 0 /\ preedit = <<>> /\ popup = "none" /\ alive = TRUE
  /\ signals = <<>>
  /\ cache = <<>> /\ skip = None
  /\ injected = 0 /\ bsPending = 0 /\ deferred = None /\ idle = 0
  /\ popupActive = FALSE /\ focused = TRUE
  /\ field = <<>> /\ raced = FALSE

-----------------------------------------------------------------------------
(* Signals *)

Commit(text)          == IF text = <<>> THEN <<>> ELSE <<[kind |-> "commit", text |-> text]>>
Fix(n, text, preview) == <<[kind |-> "fix", erase |-> n, text |-> text, preview |-> preview]>>
Show                  == <<[kind |-> "show"]>>
HidePopup             == <<[kind |-> "hide"]>>

\* bound: once two events have met, what is on its way arrives, no more begins.
Happens(kind) == kind \in Events /\ ~raced

Send(sent) == signals' = signals \o sent /\ Len(signals') <= MaxSignals

Pending(kind) == {i \in DOMAIN signals : signals[i].kind = kind}

\* A text on its way that will be put into the field; a repeated one will not.
CommitUnderWay == \E i \in Pending("commit") : signals[i].text # skip
FixUnderWay    == Pending("fix") # {} \/ bsPending > 0 \/ deferred # None

\* Text that reaches the field at once, before text that was sent earlier
Overtakes(text) == text # <<>> /\ CommitUnderWay

Race(condition) == raced' = (raced \/ condition)

EraseLast(text, n) == SubSeq(text, 1, Len(text) - n)
Hanja(text)        == [i \in DOMAIN text |-> -text[i]]

-----------------------------------------------------------------------------
(* Keys: filter_keypress, process_key_event *)

\* The reply's text goes to the field, its composition to the cache.
Reply(text, preview) ==
  /\ field' = field \o text
  /\ preedit' = preview /\ cache' = preview
  /\ Race(Overtakes(text) \/ FixUnderWay)

Type == focused /\ count < MaxTyped /\ count' = count + 1

\* A letter: whatever the composition confirms of itself; a popup is closed.
Syllable ==
  /\ Happens("syllable") /\ Type /\ alive
  /\ LET text == Append(preedit, count + 1)
     IN  \E n \in 0..Len(text) :
           /\ popup # "none" => n >= Len(preedit)
           /\ Reply(SubSeq(text, 1, n), SubSeq(text, n + 1, Len(text)))
  /\ popup' = "none"
  /\ Send(IF popup = "none" THEN <<>> ELSE HidePopup)
  /\ UNCHANGED <<alive, skip, fixVars, popupActive, focused>>

\* A letter that completes a word of the other language.  The reply is empty,
\* the word follows in a signal: the end of the field's text and the composition
\* are replaced by text and, in Korean, a composition.
TypeFix ==
  /\ Happens("fix") /\ Type /\ alive /\ popup = "none"
  /\ \E n \in 0..Len(field) :
       LET word == SubSeq(field, Len(field) - n + 1, Len(field)) \o Append(preedit, count + 1)
       IN  /\ \A i \in DOMAIN word : word[i] > 0
         /\ \E confirmed \in 0..Len(word) :
             LET preview == SubSeq(word, confirmed + 1, Len(word))
             IN  /\ preedit # <<>> => preview = <<>>
                 /\ preedit' = preview /\ cache' = <<>>
                 /\ Send(Fix(n, SubSeq(word, 1, confirmed), preview))
  /\ Race(CommitUnderWay \/ FixUnderWay)
  /\ UNCHANGED <<popup, alive, skip, fixVars, popupActive, focused, field>>

\* The daemon that made the context is gone: the key is the application's.
RawKey ==
  /\ Happens("syllable") /\ Type /\ ~alive
  /\ field' = Append(field, count + 1)
  /\ Race(preedit # <<>> \/ CommitUnderWay \/ FixUnderWay)
  /\ UNCHANGED <<daemonVars, signals, clientVars>>

\* Arrows, Home, Escape and the like pass by when nothing is composed.
Bypass == cache = <<>> /\ ~popupActive

\* Otherwise they move in the popup, or confirm the composition.
NavigationKey ==
  /\ Happens("navigation") /\ focused /\ alive /\ ~Bypass
  /\ IF popup # "none" THEN Reply(<<>>, preedit) ELSE Reply(preedit, <<>>)
  /\ UNCHANGED <<count, popup, alive, signals, skip, fixVars, popupActive, focused>>

\* On X11 a conversion is asked for by a call of its own; with nothing to convert
\* the key goes to the engine, which shows emoji.
HanjaKey ==
  /\ Happens("hanja") /\ focused /\ alive
  /\ IF preedit # <<>>
     THEN popup' = "conv" /\ UNCHANGED <<cache, signals>>
     ELSE popup' = "emoji" /\ cache' = <<>> /\ Send(Show)
  /\ UNCHANGED <<count, preedit, alive, skip, fixVars, popupActive, focused, field, raced>>

\* A digit selects in the popup.
DigitKey ==
  /\ Happens("digit") /\ focused /\ alive /\ popup = "conv"
  /\ Reply(Hanja(preedit), <<>>)
  /\ popup' = "none" /\ Send(HidePopup)
  /\ UNCHANGED <<count, alive, skip, fixVars, popupActive, focused>>

-----------------------------------------------------------------------------
(* What happens in the daemon without the module: a click in the popup        *)
(* (redirect_commit_and_hide) and the timer of a chord (ChordIdleFlush).      *)

EndPopup(kind) == alive /\ popup = kind /\ popup' = "none"

Select ==
  /\ Happens("select") /\ EndPopup("conv")
  /\ preedit' = <<>> /\ Send(Commit(Hanja(preedit)) \o HidePopup)
  /\ UNCHANGED <<count, alive, clientVars, field, raced>>

Cancel ==
  /\ Happens("cancel") /\ EndPopup("conv")
  /\ preedit' = <<>> /\ Send(Commit(preedit) \o HidePopup)
  /\ UNCHANGED <<count, alive, clientVars, field, raced>>

CloseEmoji ==
  /\ Happens("closeEmoji") /\ EndPopup("emoji")
  /\ Send(HidePopup)
  /\ UNCHANGED <<count, preedit, alive, clientVars, field, raced>>

\* The chord's jamo confirm what they do not join.  UpdatePreeditText is not
\* among the signals the module subscribes to.
IdleFlush ==
  /\ Happens("idleFlush") /\ alive /\ popup = "none"
  /\ \E n \in 1..Len(preedit) :
       /\ preedit' = SubSeq(preedit, n + 1, Len(preedit))
       /\ Send(Commit(SubSeq(preedit, 1, n)))
  /\ UNCHANGED <<count, popup, alive, clientVars, field, raced>>

-----------------------------------------------------------------------------
(* Focus, reset, the end of the daemon *)

\* reset_engine_and_capture_commit
EngineReset == preedit' = <<>> /\ popup' = "none"

FocusOut ==
  /\ Happens("focusOut") /\ focused /\ alive
  /\ field' = field \o preedit /\ cache' = <<>>
  /\ EngineReset /\ Send(HidePopup)
  /\ focused' = FALSE /\ injected' = 0
  /\ Race(FixUnderWay \/ Overtakes(preedit))
  /\ UNCHANGED <<count, alive, skip, bsPending, deferred, idle, popupActive>>

\* The call fails: the daemon is gone, or its answer came too late.
Fallback == cache

FocusOutFails ==
  /\ Happens("timeout") /\ focused
  /\ field' = field \o Fallback /\ cache' = <<>>
  /\ EngineReset /\ Send(IF alive THEN HidePopup ELSE <<>>)
  /\ focused' = FALSE /\ injected' = 0
  /\ Race(FixUnderWay \/ Overtakes(cache) \/ cache # preedit)
  /\ UNCHANGED <<count, alive, skip, bsPending, deferred, idle, popupActive>>

FocusIn ==
  /\ ~focused /\ focused' = TRUE
  /\ UNCHANGED <<count, daemonVars, signals, cache, skip, fixVars, popupActive, field, raced>>

\* All that is on its way from the daemon is the composition, as it is cached.
OnlyCacheUnderWay ==
  /\ preedit = <<>>
  /\ {signals[i].text : i \in Pending("commit")} = {cache}

\* The module commits what it has cached, and so does the daemon; the signal is
\* to be skipped once.
Reset ==
  /\ Happens("reset") /\ focused
  /\ field' = field \o cache
  /\ skip' = IF cache # <<>> THEN cache ELSE skip
  /\ cache' = <<>>
  /\ EngineReset /\ Send(IF alive THEN HidePopup \o Commit(preedit) ELSE <<>>)
  /\ Race(\/ FixUnderWay
          \/ cache # <<>> /\ Pending("commit") # {} /\ ~OnlyCacheUnderWay
          \/ cache # preedit /\ ~OnlyCacheUnderWay)
  /\ UNCHANGED <<count, alive, fixVars, popupActive, focused>>

\* The daemon ends, and with it the context; the module never asks for another.
\* What was composed is remembered in preedit, for the properties only.
Die ==
  /\ Happens("die") /\ alive /\ alive' = FALSE
  /\ popup' = "none"
  /\ UNCHANGED <<count, preedit, signals, clientVars, field, raced>>

-----------------------------------------------------------------------------
(* The main loop *)

Handle(kind) == signals # <<>> /\ Head(signals).kind = kind /\ signals' = Tail(signals)

\* Mutant: the daemon's repetition is not recognised.
DedupeNever(text) == FALSE

Dedupe(text) == skip = text

CommitSignal ==
  /\ Handle("commit")
  /\ LET text == Head(signals).text
     IN  IF Dedupe(text) THEN skip' = None /\ UNCHANGED <<field, raced>>
         ELSE field' = field \o text /\ Race(bsPending > 0 \/ deferred # None) /\ UNCHANGED skip
  /\ UNCHANGED <<count, daemonVars, cache, fixVars, popupActive, focused>>

\* Mutant: the composition of the fix is shown, but not cached.
ApplyFixUncached(text, preview) == field' = text /\ UNCHANGED cache

\* unim_dbus_set_preedit_cache with the new composition, if there is one
ApplyFix(text, preview) ==
  field' = text /\ cache' = IF preview = <<>> THEN cache ELSE preview

\* on_auto_typefix: the application erases the characters, or is made to by
\* BackSpaces, after which the rest follows.
FixSignal ==
  /\ Handle("fix")
  /\ LET fix == Head(signals)
     IN  \/ /\ ~focused
            /\ UNCHANGED <<field, cache, fixVars>>
         \/ /\ focused
            /\ ApplyFix(EraseLast(field, fix.erase) \o fix.text, fix.preview)
            /\ UNCHANGED fixVars
         \/ /\ focused /\ fix.erase > 0
            /\ injected' = injected + fix.erase
            /\ bsPending' = fix.erase
            /\ deferred' = <<[text |-> fix.text, preview |-> fix.preview]>>
            /\ UNCHANGED <<field, cache, idle>>
  /\ UNCHANGED <<count, daemonVars, skip, popupActive, focused, raced>>

\* Mutant: the counter is looked at before it is decremented.
LastBackspaceLate == bsPending' < 0

LastBackspace == bsPending' = 0

\* Its own BackSpaces the module hands to the application, and at the last one has
\* the rest written when the loop is idle.  More than it counts go to the daemon as
\* if the user had pressed them; a popup turns a page.
SelfBackspace ==
  /\ injected > 0 /\ injected' = injected - 1
  /\ IF bsPending > 0
     THEN /\ bsPending' = bsPending - 1
          /\ idle' = IF LastBackspace THEN idle + 1 ELSE idle
          /\ field' = EraseLast(field, 1)
          /\ UNCHANGED <<preedit, cache>>
     ELSE /\ IF alive /\ preedit # <<>>
             THEN /\ preedit' = IF popup = "none" THEN Front(preedit) ELSE preedit
                  /\ cache' = preedit' /\ UNCHANGED field
             ELSE field' = EraseLast(field, 1) /\ UNCHANGED <<preedit, cache>>
          /\ UNCHANGED <<bsPending, idle>>
  /\ UNCHANGED <<count, popup, alive, signals, skip, deferred, popupActive, focused, raced>>

\* autofix_deferred_commit_cb
DeferredCommit ==
  /\ idle > 0 /\ idle' = idle - 1
  /\ IF deferred = None THEN UNCHANGED <<field, cache>>
     ELSE ApplyFix(field \o deferred[1].text, deferred[1].preview)
  /\ deferred' = None
  /\ UNCHANGED <<count, daemonVars, signals, skip, injected, bsPending, popupActive, focused,
                 raced>>

ShowSignal ==
  /\ Handle("show") /\ popupActive' = TRUE
  /\ UNCHANGED <<count, daemonVars, cache, skip, fixVars, focused, field, raced>>
HideSignal ==
  /\ Handle("hide") /\ popupActive' = FALSE
  /\ UNCHANGED <<count, daemonVars, cache, skip, fixVars, focused, field, raced>>

Next ==
  \/ Syllable \/ TypeFix \/ RawKey \/ NavigationKey \/ HanjaKey \/ DigitKey
  \/ Select \/ Cancel \/ CloseEmoji \/ IdleFlush
  \/ FocusOut \/ FocusOutFails \/ FocusIn \/ Reset \/ Die
  \/ CommitSignal \/ FixSignal \/ SelfBackspace \/ DeferredCommit \/ ShowSignal \/ HideSignal

\* The application's main loop runs: the events injected into it arrive, and its
\* idle functions are called.
Fairness == WF_vars(SelfBackspace) /\ WF_vars(DeferredCommit)

Spec == Init /\ [][Next]_vars /\ Fairness

-----------------------------------------------------------------------------
(* What the module promises. *)

Quiet == signals = <<>> /\ bsPending = 0 /\ idle = 0

\* When everything on its way has arrived, the field and the composition are what
\* the user typed, whatever the order of replies and signals, of a reset and a
\* popup's cancel (pending_skip_commit), of a failed FocusOut and the end of the
\* daemon (the cache as fallback).  Not so when two events met (raced): a key with
\* text on its way, a fix with the loss of the focus, a reset with a cache that
\* the popup or a timer has made stale.
FieldTextIntact ==
  Quiet /\ ~raced =>
    [i \in DOMAIN field |-> IF field[i] < 0 THEN -field[i] ELSE field[i]] \o preedit
      = [i \in 1..count |-> i]

\* A navigation key is given to the application only if the engine neither
\* composes nor shows a popup: is_composing and popup_active, copies both, do not
\* lag behind once the signals are handled.
BypassSafe ==
  Quiet /\ alive /\ Bypass => preedit = <<>> /\ popup = "none"

\* A word whose characters have to be erased by injected BackSpaces is written in
\* the end, unless the focus goes elsewhere.  BackSpaces that went elsewhere with
\* it leave bsPending too high for good: that word is never written, nor the next.
FixArrives ==
  deferred # None /\ focused /\ injected >= bsPending ~> deferred = None \/ ~focused
=============================================================================
