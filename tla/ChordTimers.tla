----------------------------- MODULE ChordTimers -----------------------------
(***************************************************************************)
(* A field typed into with chords: the keys, the idle-flush timers of       *)
(* unim-dbus/src/service.rs and the requests they send to the worker.       *)
(***************************************************************************)
EXTENDS Chord

VARIABLES
  engine,    \* the field's InputEngine
  births,    \* how many engines it has had before
  timers,    \* the timers set and not yet fired
  typed,     \* the keys pressed and not erased
  delivered, \* the text the application has been given
  pressed,   \* counts the presses
  spoilt     \* history: was a symbol typed, or a pending chord met by a shortcut
             \* or a change of layout?

vars == <<engine, births, timers, typed, delivered, pressed, spoilt>>

\* A timer holds the epoch; press, first and birth say for the properties which
\* press set it, which key the chord began with and which engine it was in.
Timer == [epoch: Nat, press: Nat, first: Nat, birth: Nat]

ChordTypeOK ==
  /\ engine \in [syllable: Seq(Key), commit: {<<>>}, buffer: Seq(Key), epoch: Nat,
                 injected: BOOLEAN, atomic: BOOLEAN]
  /\ Len(engine.buffer) <= ChordBufferMax
  /\ births \in 0..MaxResets
  /\ timers \subseteq Timer
  /\ typed \in Seq(Key)
  /\ delivered \in Seq(Key)
  /\ pressed \in 0..MaxPressed
  /\ spoilt \in BOOLEAN

Init ==
  /\ engine = NewEngine
  /\ births = 0
  /\ timers = {}
  /\ typed = <<>>
  /\ delivered = <<>>
  /\ pressed = 0
  /\ spoilt = FALSE

-----------------------------------------------------------------------------

\* Mutant: a chord of one key is not pending.
ChordPendingLong(e) == Len(e.buffer) > 1

\* chord_pending_info is Some
ChordPending(e) == e.buffer # <<>>

\* The worker's response: commit_buffer is drained, and while a chord is pending
\* the service sets one more timer for its epoch.
Respond(e) ==
  /\ engine' = [e EXCEPT !.commit = <<>>]
  /\ delivered' = delivered \o e.commit
  /\ timers' = IF ChordPending(e)
               THEN timers \cup {[epoch |-> e.epoch, press |-> pressed + 1,
                                  first |-> e.buffer[1].id, birth |-> births]}
               ELSE timers

Press(kind) == kind \in Inputs /\ pressed < MaxPressed /\ pressed' = pressed + 1 /\ UNCHANGED births

NextKey(kind) == [id |-> pressed + 1, kind |-> kind]

Character(kind) ==
  /\ Press(kind)
  /\ \E expired \in {FALSE, engine.buffer # <<>>} :
       Respond(PressCharacter(engine, NextKey(kind), expired))
  /\ typed' = Append(typed, NextKey(kind))
  /\ spoilt' = (spoilt \/ kind = "symbol")

Space ==
  /\ Press("space")
  /\ Respond(PressSpace(engine, NextKey("space")))
  /\ typed' = Append(typed, NextKey("space"))
  /\ UNCHANGED spoilt

\* Enter, Tab, the Hangul/English key, and any other that ends a chord.
Enter ==
  /\ Press("enter")
  /\ Respond(PressEnter(engine))
  /\ UNCHANGED <<typed, spoilt>>

\* The application erases a character of its own when none is composed.
Backspace ==
  /\ Press("backspace")
  /\ \E erased \in Erasable(FinalizeChordBuffer(engine).syllable) :
       /\ Respond(PressBackspace(engine, erased))
       /\ typed' = Without(typed, erased)
  /\ UNCHANGED spoilt

\* Escape drops what is pending and not previewed.
Escape ==
  /\ Press("escape")
  /\ Respond(PressEscape(engine))
  /\ typed' = IF engine.injected THEN typed
              ELSE SubSeq(typed, 1, Len(typed) - Len(engine.buffer))
  /\ UNCHANGED spoilt

Shortcut ==
  /\ Press("shortcut")
  /\ Respond(PressShortcut(engine))
  /\ spoilt' = (spoilt \/ engine.buffer # <<>>)
  /\ UNCHANGED typed

\* The prologue of any request, after the layout has changed: the keys of a chord
\* without a preview are thrown away, and their timers find another epoch.
Rebuild ==
  /\ Press("rebuild")
  /\ ~IsMidComposition(engine)
  /\ engine' = RebuildKoreanContext(engine)
  /\ spoilt' = (spoilt \/ (engine.buffer # <<>> /\ ~engine.injected))
  /\ UNCHANGED <<timers, typed, delivered>>

\* FocusOut or Reset: chord_idle_flush_commit, the preedit, and a new engine.
Reset ==
  /\ "reset" \in Inputs /\ births < MaxResets
  /\ births' = births + 1
  /\ delivered' = delivered \o FlushPreedit(FinalizeChordBuffer(engine)).commit
  /\ engine' = NewEngine
  /\ UNCHANGED <<timers, typed, pressed, spoilt>>

\* The timer that the n-th press set fires: ChordIdleFlush ends the chord if the
\* epoch is the current one, and leaves the preview composed.
IdleFlush(n) ==
  \E t \in timers :
    /\ t.press = n
    /\ timers' = timers \ {t}
    /\ LET e == FinalizeChordBuffer(engine)
       IN  IF IdleEpochValid(engine, t.epoch)
           THEN /\ engine' = [e EXCEPT !.commit = <<>>]
                /\ delivered' = delivered \o e.commit
           ELSE UNCHANGED <<engine, delivered>>
    /\ UNCHANGED <<births, typed, pressed, spoilt>>

Next ==
  \/ \E kind \in Characters : Character(kind)
  \/ Space \/ Enter \/ Backspace \/ Escape \/ Shortcut
  \/ Rebuild \/ Reset
  \/ \E n \in 1..MaxPressed : IdleFlush(n)

\* tokio wakes every sleeping timer, and the worker answers every request.
Spec == Init /\ [][Next]_vars /\ \A n \in 1..MaxPressed : WF_vars(IdleFlush(n))

-----------------------------------------------------------------------------

\* Jamo of a chord are pending in the buffer, unless the preview composes them.
Pending == IF engine.injected THEN <<>> ELSE engine.buffer

\* However chords end (timer, expiry, a full buffer, another key, a reset), each
\* jamo the user pressed reaches the application once and in order: it has been
\* given, is composed, or is pending.  Not so once a symbol was typed, which the
\* end of its chord types again, a shortcut confirmed a chord it leaves in the
\* buffer, or a change of layout met a chord without a preview.
ChordTextIntact == spoilt \/ delivered \o engine.syllable \o Pending = typed

\* A timer of this engine whose epoch is the current one was set for the chord
\* that is pending: no timer ends a chord of which it is not one.  (The epoch of
\* an engine made anew starts at 0 again, so that a timer of an earlier engine
\* may name a chord of this one.)
EpochNamesChordOfEngine ==
  engine.buffer # <<>> =>
    \A t \in timers : t.epoch = engine.epoch /\ t.birth = births =>
                        t.first = engine.buffer[1].id

\* A chord that no key ends is ended by a timer: none stays pending for good.
ChordEnds == engine.buffer # <<>> ~> engine.buffer = <<>>
=============================================================================
