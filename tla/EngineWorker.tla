---------------------------- MODULE EngineWorker ----------------------------
(***************************************************************************)
(* The daemon's engine worker (unim-dbus/src/engine_worker.rs): one thread  *)
(* that owns an InputEngine per input context, takes one request at a time, *)
(* and before each looks whether the configuration file has changed.        *)
(*                                                                          *)
(* Besides the worker's own state the module keeps what its clients do and  *)
(* see: the text each has typed, the text each has been given, and which    *)
(* context has the keyboard.                                                *)
(***************************************************************************)
EXTENDS Engine, FiniteSets

CONSTANTS
  Ctx,        \* context ids
  NoCtx,      \* none of them
  AppOf,      \* the application of each context's window_id
  AppRules,   \* app_rules: the category an application starts with, or None
  Configs,    \* what the configuration file may be made to say
  InitialConfig,
  Requests,   \* the kinds of request the clients make
  KeyClasses, \* the classes of key the user presses
  Orderly,    \* TRUE: clients follow the focus protocol (see MayType)
  MaxTyped,   \* bound: characters a context's user types
  MaxWrites   \* bound: times the configuration file is written from outside

Sharings == {"Global", "PerApp"}

Config == [sharing: Sharings, deflt: Categories, kor: Layouts, atf: BOOLEAN]

RequestKinds ==
  {"create", "destroy", "key", "focusIn", "focusOut", "reset", "setGlobalMode",
   "getHanja", "select", "cancel", "cancelPopup", "contentType", "typefix"}

ASSUME WorkerAssumption ==
  /\ NoCtx \notin Ctx
  /\ AppOf \in [Ctx -> Apps]
  /\ AppRules \in [Apps -> Categories \cup {None}]
  /\ Configs \subseteq Config
  /\ InitialConfig \in Config
  /\ InitialConfig.kor = InitialLayout
  /\ Requests \subseteq RequestKinds
  /\ KeyClasses \subseteq Keys
  /\ Orderly \in BOOLEAN
  /\ MaxTyped \in Nat
  /\ MaxWrites \in Nat

VARIABLES
  contexts,    \* ids of the live contexts
  engines,     \* contexts: the InputEngine of each
  cfg,         \* the worker's Config
  koreanFp,    \* korean_fp: the layout the engines were last rebuilt for
  pending,     \* pending_korean_rebuild
  appModes,    \* app_modes
  lastFocused, \* last_focused_context_id, and the service's last active path
  phase,       \* "poll": before a request's prologue; "handle": after it
  file,        \* what the configuration file says
  newer,       \* whether the worker would find the file changed
  writes,      \* counts the writes from outside, for MaxWrites
  focus,       \* the context that has the keyboard
  typed,       \* the text each context's user has typed
  delivered    \* the text each context's application has been given

workerVars == <<contexts, engines, cfg, koreanFp, pending, appModes, lastFocused>>
fileVars   == <<file, newer, writes>>
clientVars == <<focus, typed, delivered>>
vars       == <<workerVars, phase, fileVars, clientVars>>

TypeOK ==
  /\ contexts \subseteq Ctx
  /\ engines \in [Ctx -> Engine]
  /\ cfg \in Config
  /\ koreanFp \in Layouts
  /\ pending \subseteq Ctx
  /\ appModes \in [Apps -> Categories \cup {None}]
  /\ lastFocused \in Ctx \cup {NoCtx}
  /\ phase \in {"poll", "handle"}
  /\ file \in Config
  /\ newer \in BOOLEAN
  /\ writes \in 0..MaxWrites
  /\ focus \in Ctx \cup {NoCtx}
  /\ typed \in [Ctx -> Text]
  /\ delivered \in [Ctx -> Text]

Init ==
  /\ contexts = {}
  /\ engines = [c \in Ctx |-> NewEngine(InitialLayout, "Korean")]
  /\ cfg = InitialConfig
  /\ koreanFp = InitialLayout
  /\ pending = {}
  /\ appModes = [a \in Apps |-> None]
  /\ lastFocused = NoCtx
  /\ phase = "poll"
  /\ file = InitialConfig
  /\ newer = FALSE
  /\ writes = 0
  /\ focus = NoCtx
  /\ typed = [c \in Ctx |-> <<>>]
  /\ delivered = [c \in Ctx |-> <<>>]

-----------------------------------------------------------------------------
(* The prologue of a request. *)

\* context_desired_word_mode; Gated is apply_word_gate with it.
DesiredWordMode(config, c) == <<config.kor, AppOf[c]>> \in WordGate
Gated(e, config, c) == ApplyWordGate(e, DesiredWordMode(config, c))

\* apply_korean_rebuild
ApplyKoreanRebuild(e, config, c) == Gated(RebuildKoreanContext(e, config.kor), config, c)

\* Mutant: the prologue rebuilds an engine whatever it is composing.
IsMidCompositionNever(e) == FALSE

IsMidComposition(e) == IsComposing(e)

\* Mutant: a context that composes is put off once only.
UnbuiltOnce(changed) == IF changed THEN contexts ELSE {}

\* The contexts a prologue would rebuild: all, when the layout has changed, or
\* else those that an earlier prologue put off.
Unbuilt(changed) == IF changed THEN contexts ELSE pending \cap contexts

\* reload_if_changed, or not: the file is unchanged or was looked at less than
\* two seconds ago.  A layout that changed reaches at once the contexts that
\* compose nothing; the others wait in pending until a prologue finds them idle.
Poll ==
  /\ phase = "poll"
  /\ \E reload \in {FALSE} \cup {newer} :
       LET config  == IF reload THEN file ELSE cfg
           changed == reload /\ config.kor # koreanFp
           ready   == {c \in Unbuilt(changed) : ~IsMidComposition(engines[c])}
       IN  /\ cfg' = config
           /\ newer' = (newer /\ ~reload)
           /\ koreanFp' = IF reload THEN config.kor ELSE koreanFp
           /\ engines' = [c \in Ctx |-> IF c \in ready
                                        THEN ApplyKoreanRebuild(engines[c], config, c)
                                        ELSE engines[c]]
           /\ pending' = Unbuilt(changed) \ ready
  /\ phase' = "handle"
  /\ UNCHANGED <<contexts, appModes, lastFocused, file, writes, clientVars>>

\* Another process, or the service's set_config, replaces the file.
WriteFile ==
  /\ writes < MaxWrites
  /\ \E config \in Configs : file' = config
  /\ newer' = TRUE
  /\ writes' = writes + 1
  /\ UNCHANGED <<workerVars, phase, clientVars>>

-----------------------------------------------------------------------------
(* What the handlers share. *)

Handling(kind) == phase = "handle" /\ kind \in Requests

\* Only the context that has the keyboard sends keys, if clients are orderly.
MayType(c) == c \in contexts /\ (Orderly => focus = c)

\* The handler is done; the worker goes back to its queue.
Done == phase' = "poll" /\ UNCHANGED <<koreanFp, pending, writes>>

\* Text of a response or a CommitText signal reaches c's application.
Deliver(c, text) == delivered' = [delivered EXCEPT ![c] = @ \o text]

\* Mutant: a category is shared whatever mode_sharing says.
SharedAlways == TRUE

\* Whether a change of category concerns every context.
Shared == cfg.sharing = "Global"

\* Mutants: the other contexts are not told; or what they confirm is thrown away.
PropagateNone(es, c, cat) == es
PropagateDrained(es, c, cat) ==
  [d \in Ctx |-> IF d \in contexts \ {c}
                 THEN [SetInputCategory(es[d], cat) EXCEPT !.commit = <<>>] ELSE es[d]]

\* set_input_category on every context but c
Propagate(es, c, cat) ==
  [d \in Ctx |-> IF d \in contexts \ {c} THEN SetInputCategory(es[d], cat) ELSE es[d]]

\* resolve_popup_owner: the caller if it shows a popup, else any that does.
Showing == {c \in contexts : engines[c].popup # "none"}
PopupOwners(caller) ==
  IF caller \in Showing \/ Showing = {} THEN {caller} ELSE Showing

\* redirect_commit_and_hide: to the last active path, else to the caller.
RedirectTarget(caller) == IF lastFocused = NoCtx THEN caller ELSE lastFocused

\* Mutant: only the syllable under the cursor is captured, not the whole word.
CapturedCommitLast(e) ==
  IF e.conv THEN e.target ELSE IF IsComposing(e) THEN <<Last(e.preedit)>> ELSE <<>>

\* What reset_engine_and_capture_commit takes out of the old engine: the target
\* of a conversion, or else the composition; and the new engine.
CapturedCommit(e) == IF e.conv THEN e.target ELSE e.preedit
ResetEngine(e, c, preserveMode) ==
  Gated(NewEngine(cfg.kor, IF preserveMode THEN e.cat ELSE cfg.deflt), cfg, c)

-----------------------------------------------------------------------------
(* Contexts and focus. *)

CreateContext(c) ==
  LET saved    == appModes[AppOf[c]]
      restored == cfg.sharing = "PerApp" /\ saved # None
  IN  /\ Handling("create") /\ c \notin contexts
      /\ contexts' = contexts \cup {c}
      /\ engines' = [engines EXCEPT ![c] =
           Gated(NewEngine(cfg.kor, IF restored THEN saved ELSE cfg.deflt), cfg, c)]
      /\ Done
      /\ UNCHANGED <<cfg, appModes, lastFocused, file, newer, clientVars>>

\* The ghosts of the context go with it, so that its id may be used again.
DestroyContext(c) ==
  /\ Handling("destroy") /\ c \in contexts
  /\ contexts' = contexts \ {c}
  /\ engines' = [engines EXCEPT ![c] = NewEngine(InitialLayout, "Korean")]
  /\ lastFocused' = IF lastFocused = c THEN NoCtx ELSE lastFocused
  /\ focus' = IF focus = c THEN NoCtx ELSE focus
  /\ typed' = [typed EXCEPT ![c] = <<>>]
  /\ delivered' = [delivered EXCEPT ![c] = <<>>]
  /\ Done
  /\ UNCHANGED <<cfg, appModes, file, newer>>

\* Mutant: an application that has no remembered category is given it.
FocusInCategoryUnchecked(c) == IF Shared THEN cfg.deflt ELSE appModes[AppOf[c]]

\* handle_focus_in: the remembered or the shared category, then the app rule of
\* an application seen for the first time, then the word gate.
FocusInCategory(c) ==
  LET saved == appModes[AppOf[c]]
  IN  CASE cfg.sharing = "Global"                  -> cfg.deflt
        [] cfg.sharing = "PerApp" /\ saved # None -> saved
        [] OTHER                                   -> engines[c].cat

RuleApplies(c) == appModes[AppOf[c]] = None /\ AppRules[AppOf[c]] # None

FocusInEngine(c) ==
  LET restored == SetInputCategory(engines[c], FocusInCategory(c))
      ruled    == IF RuleApplies(c) THEN SetInputCategory(restored, AppRules[AppOf[c]])
                  ELSE restored
  IN  Gated(ruled, cfg, c)

FocusIn(c) ==
  /\ Handling("focusIn") /\ c \in contexts
  /\ Orderly => focus = NoCtx
  /\ lastFocused' = c
  /\ engines' = [engines EXCEPT ![c] = FocusInEngine(c)]
  /\ appModes' = IF RuleApplies(c) THEN [appModes EXCEPT ![AppOf[c]] = AppRules[AppOf[c]]]
                 ELSE appModes
  /\ focus' = c
  /\ Done
  /\ UNCHANGED <<contexts, cfg, file, newer, typed, delivered>>

FocusOut(c) ==
  /\ Handling("focusOut") /\ c \in contexts
  /\ Orderly => focus = c
  /\ engines' = [engines EXCEPT ![c] = ResetEngine(@, c, cfg.sharing # "Global")]
  /\ Deliver(c, CapturedCommit(engines[c]))
  /\ focus' = IF focus = c THEN NoCtx ELSE focus
  /\ Done
  /\ UNCHANGED <<contexts, cfg, appModes, lastFocused, file, newer, typed>>

\* The client clears its composition without leaving the field.
Reset(c) ==
  /\ Handling("reset") /\ MayType(c)
  /\ engines' = [engines EXCEPT ![c] = ResetEngine(@, c, TRUE)]
  /\ Deliver(c, CapturedCommit(engines[c]))
  /\ Done
  /\ UNCHANGED <<contexts, cfg, appModes, lastFocused, file, newer, focus, typed>>

-----------------------------------------------------------------------------
(* ProcessKey. *)

\* A key that changed the category is remembered for the application, or
\* becomes the category of every context.
PressNoFix(c, e) ==
  LET changed == e.cat # engines[c].cat
      drained == [engines EXCEPT ![c] = [e EXCEPT !.commit = <<>>]]
  IN  /\ appModes' = IF changed /\ cfg.sharing = "PerApp"
                     THEN [appModes EXCEPT ![AppOf[c]] = e.cat] ELSE appModes
      /\ cfg' = IF changed /\ Shared THEN [cfg EXCEPT !.deflt = e.cat] ELSE cfg
      /\ engines' = IF changed /\ Shared THEN Propagate(drained, c, e.cat) ELSE drained
      /\ Deliver(c, e.commit)
      /\ UNCHANGED <<file, newer>>

\* A fix needs auto-typefix on for the field, no change of category by the key,
\* and no popup.
FixAllowed(c, e) ==
  /\ cfg.atf /\ ~ShouldBlockHangul(e.purpose)
  /\ e.cat = engines[c].cat
  /\ ~PopupActive(e) /\ ~PopupActive(engines[c])

\* The other category is set and becomes the default, shared or not; the engine
\* is reset and the word retyped: the last n characters compose again (forward),
\* or all of them are confirmed text (reverse, n = 0).  How many is the
\* detector's affair.
FixedEngine(c, e, n, text) ==
  LET cat   == IF e.cat = "Korean" THEN "English" ELSE "Korean"
      reset == ResetComposition(SetInputCategory(e, cat))
      gated == SetWordMode(reset, DesiredWordMode(cfg, c))
      live  == IF e.word /\ n > 0 THEN SetWordMode(gated, TRUE) ELSE gated
  IN  [live EXCEPT !.preedit = SubSeq(text, Len(text) - n + 1, Len(text))]

PressFix(c, e) ==
  LET text == delivered[c] \o e.commit \o e.preedit
  IN  /\ FixAllowed(c, e)
      /\ text # <<>>
      /\ \E n \in 0..Len(text) :
           LET fixed == FixedEngine(c, e, n, text)
               es    == [engines EXCEPT ![c] = fixed]
           IN  /\ e.cat = "Korean" => n = 0
               /\ cfg' = [cfg EXCEPT !.deflt = fixed.cat]
               /\ engines' = IF Shared THEN Propagate(es, c, fixed.cat) ELSE es
               /\ delivered' = [delivered EXCEPT ![c] = SubSeq(text, 1, Len(text) - n)]
      /\ UNCHANGED <<appModes, file, newer>>

\* reload_now: the file, if it has changed, whenever it was last looked at.
LatestConfig == IF newer THEN file ELSE cfg

\* The auto-typefix hotkey, past its debounce: the latest configuration, with the
\* switch flipped, is written back; the file counts as changed.  (What another
\* process writes between the handler's read and its write is in ConfigStore.)
ToggleAutoTypefix(c, e) ==
  LET toggled == [LatestConfig EXCEPT !.atf = ~@]
  IN  /\ engines' = [engines EXCEPT ![c] = [e EXCEPT !.commit = <<>>]]
      /\ Deliver(c, e.commit)
      /\ cfg' = toggled /\ file' = toggled
      /\ newer' = TRUE
      /\ UNCHANGED appModes

ProcessKey(c, key) ==
  /\ Handling("key") /\ MayType(c)
  /\ \E o \in PressKey(engines[c], key, typed[c]) :
       /\ Len(o.typed) <= MaxTyped
       /\ typed' = [typed EXCEPT ![c] = o.typed]
       /\ \/ PressNoFix(c, o.engine)
          \/ key # "atf" /\ PressFix(c, o.engine)
          \/ key = "atf" /\ ToggleAutoTypefix(c, o.engine)
  /\ Done
  /\ UNCHANGED <<contexts, lastFocused, focus>>

-----------------------------------------------------------------------------
(* Requests that carry a mode, a purpose or a popup's answer. *)

SetGlobalMode ==
  /\ Handling("setGlobalMode")
  /\ \E cat \in Categories :
       /\ cfg' = [cfg EXCEPT !.deflt = cat]
       /\ engines' = IF Shared THEN Propagate(engines, NoCtx, cat) ELSE engines
  /\ Done
  /\ UNCHANGED <<contexts, appModes, lastFocused, file, newer, clientVars>>

SetContentType(c) ==
  /\ Handling("contentType") /\ c \in contexts
  /\ \E purpose \in Purposes :
       engines' = [engines EXCEPT ![c] = SetContentPurpose(@, purpose)]
  /\ Done
  /\ UNCHANGED <<contexts, cfg, appModes, lastFocused, file, newer, clientVars>>

\* The selection is converted in the context focused last; its text is the
\* application's, only the category is the engine's.
GlobalTypeFix ==
  /\ Handling("typefix") /\ lastFocused \in contexts
  /\ \E cat \in Categories :
       engines' = [engines EXCEPT ![lastFocused] = TypefixConvert(@, cat)]
  /\ Done
  /\ UNCHANGED <<contexts, cfg, appModes, lastFocused, file, newer, clientVars>>

\* A request to convert the last syllable that comes by D-Bus, not by a key.
GetHanjaCandidates(c) ==
  /\ Handling("getHanja") /\ MayType(c)
  /\ \E e \in StartHanjaConversion(engines[c]) : engines' = [engines EXCEPT ![c] = e]
  /\ Done
  /\ UNCHANGED <<contexts, cfg, appModes, lastFocused, file, newer, clientVars>>

\* The popup process answers through a context of its own or of the field.
SelectHanja(c) ==
  /\ Handling("select") /\ c \in contexts
  /\ \E owner \in PopupOwners(c) :
       /\ engines[owner].conv
       /\ engines' = [engines EXCEPT ![owner] = SelectConversion(@)]
       /\ Deliver(RedirectTarget(c), engines[owner].target)
  /\ Done
  /\ UNCHANGED <<contexts, cfg, appModes, lastFocused, file, newer, focus, typed>>

\* A cancel is not refused when no conversion is under way.  Orderly clients
\* send one only for a popup that is shown.
CancelHanja(c) ==
  /\ Handling("cancel") /\ c \in contexts
  /\ \E owner \in PopupOwners(c) :
       /\ Orderly => engines[owner].popup = "conv"
       /\ engines' = [engines EXCEPT ![owner] = CancelConversion(@)]
       /\ Deliver(RedirectTarget(c), engines[owner].target)
  /\ Done
  /\ UNCHANGED <<contexts, cfg, appModes, lastFocused, file, newer, focus, typed>>

\* CancelEmojiPopup closes whatever popup is shown; a conversion stays begun.
CancelPopup(c) ==
  /\ Handling("cancelPopup") /\ c \in contexts
  /\ \E owner \in PopupOwners(c) : engines' = [engines EXCEPT ![owner] = CancelEmojiPopup(@)]
  /\ Done
  /\ UNCHANGED <<contexts, cfg, appModes, lastFocused, file, newer, clientVars>>

Next ==
  \/ Poll
  \/ WriteFile
  \/ \E c \in Ctx : \/ CreateContext(c) \/ DestroyContext(c)
                    \/ FocusIn(c) \/ FocusOut(c) \/ Reset(c)
                    \/ \E key \in KeyClasses : ProcessKey(c, key)
                    \/ SetContentType(c) \/ GetHanjaCandidates(c)
                    \/ SelectHanja(c) \/ CancelHanja(c) \/ CancelPopup(c)
  \/ SetGlobalMode
  \/ GlobalTypeFix

Spec == Init /\ [][Next]_vars

-----------------------------------------------------------------------------
(* What the worker promises. *)

\* No typed character is lost, repeated or reordered: what an application has
\* been given, what waits in commit_buffer and what is being composed are, put
\* together, what its user typed (drain_commit, reset_engine_and_capture_commit,
\* the popup's cancel and select).
TextIntact ==
  \A c \in Ctx : delivered[c] \o engines[c].commit \o engines[c].preedit = typed[c]

\* Whatever is lost, nothing is given to an application twice or out of the
\* order in which it was typed.
TextInOrder ==
  \A c \in Ctx :
    LET text == delivered[c] \o engines[c].commit \o engines[c].preedit
    IN  \A i, j \in 1..Len(text) : i < j => text[i] < text[j]

\* Where text may be reordered, nothing is lost or repeated all the same: every
\* character typed is once in what was given, waits or is composed.  A selection
\* converted by typefix_convert turns the category under a composition.
TextKept ==
  \A c \in Ctx :
    LET text == delivered[c] \o engines[c].commit \o engines[c].preedit
    IN  Len(text) = Len(typed[c]) /\ ToSet(text) = ToSet(typed[c])

\* Nothing is composed in English, and nothing in a password or PIN field: a
\* composition is confirmed before the mode or the purpose turns, on every path
\* (toggle, focus, propagation, SetContentType, press_key's forced English).
EnglishNeverComposes ==
  \A c \in Ctx : engines[c].cat = "English" => ~IsComposing(engines[c])
PasswordNeverComposes ==
  \A c \in Ctx : ShouldBlockHangul(engines[c].purpose) => ~IsComposing(engines[c])

\* When a request is handled and the file has no news, an engine that composes
\* nothing has the layout of the configuration in force: a change of layout is
\* seen, and the contexts it was put off for are not forgotten.
LayoutApplied ==
  phase = "handle" /\ ~newer =>
    \A c \in contexts : engines[c].kor # cfg.kor => IsComposing(engines[c])

\* What makes it so while no hotkey reloads the file behind the prologue's back:
\* an engine with an old layout waits in pending_korean_rebuild.
LayoutFresh ==
  /\ koreanFp = cfg.kor
  /\ \A c \in contexts : engines[c].kor # cfg.kor =>
       c \in pending /\ (phase = "handle" => IsComposing(engines[c]))

\* ModeSharingMode::Global: every context has the default category.
GlobalModeShared ==
  cfg.sharing = "Global" => \A c \in contexts : engines[c].cat = cfg.deflt

\* The prologue, which may rebuild every engine, ends no composition and moves
\* no text: the case a save of the settings used to cut a syllable in.
ReloadKeepsText ==
  [][phase = "poll" /\ phase' = "handle" =>
       \A c \in Ctx : /\ engines'[c].preedit = engines[c].preedit
                      /\ engines'[c].commit = engines[c].commit
                      /\ engines'[c].cat = engines[c].cat]_vars

\* ModeSharingMode::PerApp: a step that changes the category of one context
\* changes that of no other, nor what is remembered for another application.
PerAppIndependent ==
  [][cfg.sharing = "PerApp" /\ cfg'.sharing = "PerApp" =>
       /\ \A c, d \in contexts \cap contexts' :
            engines'[c].cat # engines[c].cat /\ engines'[d].cat # engines[d].cat => c = d
       /\ \A c \in contexts \cap contexts', a \in Apps :
            engines'[c].cat # engines[c].cat /\ appModes'[a] # appModes[a] => a = AppOf[c]]_vars

\* For orderly clients the worker is an input method as TextFields describes it:
\* whatever goes on between requests, prologues and popups, a step concerns the
\* text of one field, and gives it more of what was typed there, in order.
FieldText == INSTANCE TextFields WITH Fields <- Ctx, given <- delivered
ImplementsTextFields == FieldText!Spec
=============================================================================
