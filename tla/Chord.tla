-------------------------------- MODULE Chord --------------------------------
(***************************************************************************)
(* Moachigi: keys pressed together within a window form one syllable        *)
(* (src/input_engine/chord_buffer.rs, the chord branches of press_key.rs),  *)
(* in one field of one InputEngine, with the timers the service sets after  *)
(* each key to end a chord no other key ends (unim-dbus/src/service.rs).    *)
(*                                                                          *)
(* A key is its number, in the order of the presses, and its kind.  Text is *)
(* the sequence of the keys it is made of: a syllable of three jamo is      *)
(* three keys, so that a lost or repeated jamo shows.                       *)
(***************************************************************************)
EXTENDS Naturals, Sequences, SequencesExt

CONSTANTS
  Inputs,         \* what the user presses, and whether the field is reset
  Compounds,      \* the areas in which combined_jamo joins two jamo into one
  ChordBufferMax, \* CHORD_BUFFER_MAX
  MaxPressed,     \* bound: keys pressed and layouts changed
  MaxResets       \* bound: engines made anew for the field

Jamos      == {"cho", "jung"}
Characters == Jamos \cup {"symbol"}
InputKinds == Characters \cup
              {"space", "enter", "backspace", "escape", "shortcut", "rebuild", "reset"}

ASSUME ChordAssumption ==
  /\ Inputs \subseteq InputKinds
  /\ Compounds \subseteq Jamos
  /\ ChordBufferMax \in Nat \ {0}
  /\ MaxPressed \in Nat
  /\ MaxResets \in Nat

Key  == [id: Nat, kind: Characters \cup {"space"}]
Text == Seq(Key)

(***************************************************************************)
(* syllable  what korean_context composes      buffer    ChordBuffer.buffer *)
(* commit    commit_buffer                     epoch     its epoch          *)
(* injected  preview_injected                  atomic    preview_is_atomic  *)
(* ChordBuffer.start is set exactly when buffer is not empty.               *)
(***************************************************************************)
Engine == [syllable: Text, commit: Text, buffer: Text, epoch: Nat,
           injected: BOOLEAN, atomic: BOOLEAN]

NewEngine == [syllable |-> <<>>, commit |-> <<>>, buffer |-> <<>>, epoch |-> 0,
              injected |-> FALSE, atomic |-> FALSE]

-----------------------------------------------------------------------------
(* Composition. *)

\* The keys that are in a set, in their order.
Among(keys, set) ==
  LET part[n \in 0..Len(keys)] ==
        IF n = 0 THEN <<>>
        ELSE IF keys[n] \in set THEN Append(part[n - 1], keys[n]) ELSE part[n - 1]
  IN  part[Len(keys)]

OfKind(keys, kinds) == Among(keys, [id: Nat, kind: kinds])

\* Each area holds one jamo, or two that combine.
OneSyllable(keys) ==
  \A area \in Jamos :
    Len(OfKind(keys, {area})) <= IF area \in Compounds THEN 2 ELSE 1

\* ChordResult.inject_to_preedit with non_jamos empty: the chord is a syllable.
Composes(keys) == OfKind(keys, Jamos) = keys /\ OneSyllable(keys)

FlushPreedit(e) == [e EXCEPT !.commit = @ \o e.syllable, !.syllable = <<>>]

\* process_jamo_with_meta: the jamo joins the syllable or begins the next one.
ProcessJamo(e, key) ==
  IF OneSyllable(Append(e.syllable, key)) THEN [e EXCEPT !.syllable = Append(@, key)]
  ELSE [FlushPreedit(e) EXCEPT !.syllable = <<key>>]

\* The keys of a chord that is no syllable, each typed as it is.
JamoByJamo(e, keys) ==
  LET after[n \in 0..Len(keys)] ==
        IF n = 0 THEN e ELSE ProcessJamo(after[n - 1], keys[n])
  IN  after[Len(keys)]

PopLastJamo(e)          == [e EXCEPT !.syllable = Front(@)]
ClearComposing(e)       == [e EXCEPT !.syllable = <<>>]
InjectChord(e, keys)    == [e EXCEPT !.syllable = keys]
CommitCharacter(e, key) == [FlushPreedit(e) EXCEPT !.commit = Append(@, key)]

\* apply_chord_entries, apply_chord_result: a chord of one key is typed as it
\* is; one that is a syllable replaces the composition; one of jamo that are no
\* syllable is typed one by one; one with symbols is confirmed, symbols last.
ApplyChordEntries(e, keys) ==
  CASE Len(keys) = 1 ->
         IF keys[1].kind = "symbol" THEN CommitCharacter(e, keys[1])
         ELSE ProcessJamo(e, keys[1])
    [] Len(keys) > 1 /\ Composes(keys) -> InjectChord(FlushPreedit(e), keys)
    [] Len(keys) > 1 /\ ~Composes(keys) /\ OfKind(keys, {"symbol"}) = <<>> ->
         JamoByJamo(e, keys)
    [] OTHER ->
         [FlushPreedit(e) EXCEPT
            !.commit = @ \o OfKind(keys, Jamos) \o OfKind(keys, {"symbol"})]

-----------------------------------------------------------------------------
(* ChordBuffer. *)

\* The buffer holds these keys, with nothing previewed, from a new epoch on.
NewEpoch(e, keys) ==
  [e EXCEPT !.buffer = keys, !.epoch = @ + 1, !.injected = FALSE, !.atomic = FALSE]

\* Mutants: an expired chord passes its epoch on; the buffer has no limit.
PushKeepsEpoch(e, key, expired) ==
  CASE expired -> [engine |-> [NewEpoch(e, <<key>>) EXCEPT !.epoch = e.epoch], flushed |-> e.buffer]
    [] ~expired /\ Len(e.buffer) >= ChordBufferMax ->
         [engine |-> NewEpoch(e, <<>>), flushed |-> Append(e.buffer, key)]
    [] OTHER ->
         [engine |-> IF e.buffer = <<>> THEN NewEpoch(e, <<key>>)
                     ELSE [e EXCEPT !.buffer = Append(@, key)],
          flushed |-> <<>>]
PushUnlimited(e, key, expired) ==
  IF expired THEN [engine |-> NewEpoch(e, <<key>>), flushed |-> e.buffer]
  ELSE [engine |-> IF e.buffer = <<>> THEN NewEpoch(e, <<key>>)
                   ELSE [e EXCEPT !.buffer = Append(@, key)],
        flushed |-> <<>>]

\* push_inner: the key begins a chord, joins it, ends an expired one and begins
\* the next, or fills the buffer up.  What is flushed is empty for None.
Push(e, key, expired) ==
  CASE expired -> [engine |-> NewEpoch(e, <<key>>), flushed |-> e.buffer]
    [] ~expired /\ Len(e.buffer) >= ChordBufferMax ->
         [engine |-> NewEpoch(e, <<>>), flushed |-> Append(e.buffer, key)]
    [] OTHER ->
         [engine |-> IF e.buffer = <<>> THEN NewEpoch(e, <<key>>)
                     ELSE [e EXCEPT !.buffer = Append(@, key)],
          flushed |-> <<>>]

ForceFlush(e) ==
  IF e.buffer = <<>> THEN [e EXCEPT !.injected = FALSE, !.atomic = FALSE]
  ELSE NewEpoch(e, <<>>)

ClearChord(e) == NewEpoch(e, <<>>)

\* The worker's is_mid_composition: the pending keys of a chord that shows no
\* preview are no composition.
IsMidComposition(e) == e.syllable # <<>>

\* rebuild_korean_context, for a layout with chords too.
RebuildKoreanContext(e) == ClearChord(FlushPreedit(e))

\* is_idle_epoch_valid
IdleEpochValid(e, epoch) == e.epoch = epoch /\ e.buffer # <<>>

-----------------------------------------------------------------------------
(* press_key.rs *)

Previewed(e, atomic) == [e EXCEPT !.injected = TRUE, !.atomic = atomic]
Unpreviewed(e)       == [e EXCEPT !.injected = FALSE, !.atomic = FALSE]

\* A chord of one jamo is typed, one that is a syllable is shown in its place,
\* and one that is not, or no longer, is taken off the composition again.
UpdateChordPreview(e) ==
  LET keys   == e.buffer
      undone == IF e.injected /\ ~e.atomic THEN PopLastJamo(e) ELSE e
  IN  CASE Len(keys) = 1 /\ keys[1].kind = "symbol" -> Unpreviewed(CommitCharacter(e, keys[1]))
        [] Len(keys) = 1 /\ keys[1].kind # "symbol" -> Previewed(ProcessJamo(e, keys[1]), FALSE)
        [] Len(keys) > 1 /\ Composes(keys) ->
             Previewed(InjectChord(IF e.atomic THEN e ELSE FlushPreedit(undone), keys), TRUE)
        [] Len(keys) > 1 /\ ~Composes(keys) /\ e.injected ->
             Unpreviewed(IF e.atomic THEN ClearComposing(e) ELSE undone)
        [] OTHER -> e

\* Mutant: the chord is typed again though the preview has typed it.
FinalizeTwice(e) == IF e.buffer = <<>> THEN ForceFlush(e) ELSE ApplyChordEntries(ForceFlush(e), e.buffer)

\* finalize_chord_buffer, and with the preview kept chord_idle_flush_pending.
FinalizeChordBuffer(e) ==
  IF e.injected \/ e.buffer = <<>> THEN ForceFlush(e)
  ELSE ApplyChordEntries(ForceFlush(e), e.buffer)

\* A character key while chords are on.  An expired chord that was previewed is
\* in the composition already; one that fills the buffer is typed anew.
PressCharacter(e, key, expired) ==
  LET push   == Push(e, key, expired)
      begun  == push.engine.buffer # <<>>
      undone == IF e.atomic THEN ClearComposing(push.engine) ELSE PopLastJamo(push.engine)
      ended  == CASE push.flushed = <<>> \/ (e.injected /\ begun) -> push.engine
                  [] push.flushed # <<>> /\ e.injected /\ ~begun  ->
                       ApplyChordEntries(undone, push.flushed)
                  [] OTHER -> ApplyChordEntries(push.engine, push.flushed)
  IN  IF begun THEN UpdateChordPreview(ended) ELSE ended

PressEnter(e)      == FlushPreedit(FinalizeChordBuffer(e))
PressSpace(e, key) == CommitCharacter(FinalizeChordBuffer(e), key)
PressEscape(e)     == FlushPreedit(ClearChord(e))

\* The keys a backspace may take out of a syllable: the last, if it was typed by
\* single keys; the last vowel before the consonants, if a chord made it; or both
\* keys of a compound jamo.
Erasable(keys) ==
  LET vowels == OfKind(keys, {"jung"})
      area   == IF vowels = <<>> THEN keys ELSE vowels
  IN  IF keys = <<>> THEN {{}} ELSE {{Last(keys)}, {Last(area)}, ToSet(area)}

Without(keys, erased) == Among(keys, Key \ erased)

PressBackspace(e, erased) == [FinalizeChordBuffer(e) EXCEPT !.syllable = Without(@, erased)]

\* Ctrl, Alt, Super: the composition is confirmed, the chord is not looked at.
PressShortcut(e)   == FlushPreedit(e)
=============================================================================
