---------------------------- MODULE HangulComposer ----------------------------
(***************************************************************************)
(* Hangul composition: the key queue of BaseHangulComposer, the two-set and *)
(* three-set composers on top of it, the input context with its word mode   *)
(* (src/hangul/) and the chords the engine writes into it                   *)
(* (src/input_engine/chord_compose.rs, update_chord_preview).               *)
(*                                                                          *)
(* A letter is a base consonant or vowel.  A jamo is an area of the         *)
(* syllable and the letters it is made of, so that a compound jamo is the   *)
(* letters it was combined from and nothing is lost without being seen.     *)
(***************************************************************************)
EXTENDS Naturals, Sequences, FiniteSets, SequencesExt

CONSTANTS
  Layouts,    \* the keyboards: composer, moachigi options
  Keys,       \* Keys[type]: the jamo a keyboard of this composer types
  Compounds,  \* Compounds[type]: combined_jamo, as <<area, letters>>
  ChoOnly,    \* the letters Cho::to_jong refuses
  MaxWord,    \* bound: keys held by word mode, without chords and with them
  MaxChord    \* bound: keys of a chord, below CHORD_BUFFER_MAX

Areas == {"cho", "jung", "jong"}
Types == {"2bul", "3bul"}

Letter == UNION {ToSet(key.letters) : key \in UNION {Keys[type] : type \in Types}}
Jamo   == [area: Areas, letters: Seq(Letter) \ {<<>>}, head: BOOLEAN]

ASSUME HangulAssumption ==
  /\ Layouts \subseteq [type: Types, bidirectional: BOOLEAN, chord: BOOLEAN]
  /\ \A layout \in Layouts : layout.bidirectional \/ layout.chord => layout.type = "3bul"
  /\ \A type \in Types : Keys[type] \subseteq Jamo
  \* A two-set key is one consonant or vowel; its compounds are combined.
  /\ \A key \in Keys["2bul"] : Len(key.letters) = 1
  /\ MaxWord \in [BOOLEAN -> Nat] /\ MaxChord \in Nat \ {0}

(***************************************************************************)
(* queue   jamo_queue with its meta_queue    cur     current_korean_char    *)
(* order   chord_input_order                 word    accumulate_word        *)
(* buffer  word_buffer                       keys    word_keys              *)
(* done    what add_jamo returns             out     what was committed     *)
(* The preedit is what cur shows: every path that changes one updates the   *)
(* other.                                                                   *)
(***************************************************************************)
Empty == [area \in Areas |-> <<>>]

NewContext(word) ==
  [queue |-> <<>>, cur |-> Empty, order |-> <<>>, word |-> word, buffer |-> <<>>,
   keys |-> <<>>, done |-> <<>>, out |-> <<>>]

\* A jamo as code builds it, with JamoMeta::default.
Plain(area, letters) == [area |-> area, letters |-> letters, head |-> TRUE]

OfArea(jamos, area) ==
  FlattenSeq([i \in 1..Len(jamos) |-> IF jamos[i].area = area THEN <<jamos[i]>> ELSE <<>>])
Spelt(jamos)        == FlattenSeq([i \in 1..Len(jamos) |-> jamos[i].letters])

Joins(layout, area, first, second) == <<area, first \o second>> \in Compounds[layout.type]

(* HangulChar. *)

Filled(cur) == {area \in Areas : cur[area] # <<>>}
Only(cur, area) == [Empty EXCEPT ![area] = cur[area]]

\* get_syllable: a syllable or one jamo by itself.
Complete(cur) ==
  IF {"cho", "jung"} \subseteq Filled(cur) \/ Cardinality(Filled(cur)) = 1 THEN <<cur>> ELSE <<>>

\* update_preedit: what cannot be one character is shown jamo by jamo.
Shown(cur) ==
  LET part(area) == IF cur[area] = <<>> THEN <<>> ELSE <<Only(cur, area)>>
  IN IF Complete(cur) # <<>> THEN Complete(cur) ELSE part("cho") \o part("jung") \o part("jong")

-----------------------------------------------------------------------------
(* BaseHangulComposer. *)

\* The left fold of compose_cho, compose_jung and compose_jong.
FoldsLeft(layout, area, jamos) ==
  \A n \in 2..Len(jamos) :
    Joins(layout, area, Spelt(SubSeq(jamos, 1, n - 1)), jamos[n].letters)

Combines(layout, area, jamos) ==
  /\ area = "jung" /\ Len(jamos) > 1 => jamos[1].head
  /\ FoldsLeft(layout, area, jamos)

Composes(layout, queue) == \A area \in Areas : Combines(layout, area, OfArea(queue, area))

\* compose_korean: an area whose jamo do not combine keeps what it held.
ComposeKorean(layout, c) ==
  [c EXCEPT !.cur = [area \in Areas |->
     LET jamos == OfArea(c.queue, area)
     IN IF Combines(layout, area, jamos) THEN Spelt(jamos) ELSE c.cur[area]]]

\* check_2bul_violation, check_3bul_violation.
Violates(layout, c) ==
  /\ Len(c.queue) > 1
  /\ LET last == Last(c.queue).area
         prev == Last(Front(c.queue)).area
     IN \/ prev = "jong" /\ last = "jung"
        \/ layout.type = "2bul" /\ prev = "jung" /\ last # "jung" /\ c.cur["cho"] = <<>>
        \/ layout.type = "3bul" /\ prev = "cho" /\ last = "jong" /\ c.cur["jung"] = <<>>
        \/ layout.type = "3bul" /\ prev # "cho" /\ last = "cho"

Fits(layout, c)    == ~Violates(layout, c) /\ Composes(layout, c.queue)
Compose(layout, c) == IF Violates(layout, c) THEN c ELSE ComposeKorean(layout, c)

\* add_jamo_with: the jamo joins the syllable, or ends it and begins the next.
AddJamoWith(layout, c, jamo) ==
  LET pushed == [c EXCEPT !.queue = Append(@, jamo), !.done = <<>>]
      tried  == Compose(layout, pushed)
      kept   == Compose(layout, [tried EXCEPT !.queue = c.queue])
  IN IF Fits(layout, pushed) THEN tried
     ELSE Compose(layout, [kept EXCEPT !.queue = <<jamo>>, !.cur = Empty,
                                       !.done = Complete(kept.cur)])

\* force_compose_korean
ForceCompose(layout, c) ==
  IF c.queue = <<>> THEN [c EXCEPT !.done = <<>>]
  ELSE [c EXCEPT !.done = Complete(ComposeKorean(layout, c).cur), !.queue = <<>>, !.cur = Empty]

\* Mutant: a Backspace takes the syllable.
RemoveJamoAll(layout, c) == [c EXCEPT !.queue = <<>>, !.cur = Empty]

\* remove_jamo: the base composer composes again, without the layout's rules.
RemoveJamo(layout, c) ==
  IF c.queue = <<>> THEN c ELSE ComposeKorean(layout, [c EXCEPT !.queue = Front(@)])

(* HangulComposer2Bul. *)

BecomesJong(c, jamo) ==
  {"cho", "jung"} \subseteq Filled(c.cur) /\ jamo.area = "cho" /\ jamo.letters \notin ChoOnly

Dokkaebi(c, jamo) == c.queue # <<>> /\ Last(c.queue).area = "jong" /\ jamo.area = "jung"

\* Mutant: the syllable the final consonant leaves is not returned.
MoveJongDrops(layout, c, jamo) ==
  LET jong   == Last(c.queue)
      before == ForceCompose(layout, [c EXCEPT !.queue = Front(@)])
      moved  == AddJamoWith(layout, before, Plain("cho", jong.letters))
  IN AddJamoWith(layout, moved, Plain("jung", jamo.letters))

\* handle_dokkaebi_effect: the final consonant begins the vowel's syllable.
MoveJong(layout, c, jamo) ==
  LET jong   == Last(c.queue)
      before == ForceCompose(layout, [c EXCEPT !.queue = Front(@)])
      moved  == AddJamoWith(layout, before, Plain("cho", jong.letters))
  IN IF Len(jong.letters) > 1 THEN AddJamoWith(layout, before, jamo)
     ELSE [AddJamoWith(layout, moved, Plain("jung", jamo.letters)) EXCEPT !.done = before.done]

Add2Bul(layout, c, jamo) ==
  CASE BecomesJong(c, jamo) -> AddJamoWith(layout, c, Plain("jong", jamo.letters))
    [] Dokkaebi(c, jamo)    -> MoveJong(layout, c, jamo)
    [] OTHER                -> AddJamoWith(layout, c, jamo)

(* HangulComposer3Bul. *)

\* bidirectional_combine: the jamo combines only in front of the one before it.
CombinesBackward(layout, c, jamo) ==
  /\ layout.bidirectional
  /\ c.queue # <<>> /\ Last(c.queue).area = jamo.area
  /\ LET existing == c.cur[jamo.area]
     IN /\ existing # <<>>
        /\ ~Joins(layout, jamo.area, existing, jamo.letters)
        /\ Joins(layout, jamo.area, jamo.letters, existing)

CombineBackward(c, jamo) ==
  LET combined == jamo.letters \o c.cur[jamo.area]
  IN [c EXCEPT !.queue = Append(Front(@), [jamo EXCEPT !.letters = combined]),
               !.cur[jamo.area] = combined, !.done = <<>>]

Add3Bul(layout, c, jamo) ==
  IF CombinesBackward(layout, c, jamo) THEN CombineBackward(c, jamo)
  ELSE AddJamoWith(layout, c, jamo)

-----------------------------------------------------------------------------
(* HangulInputContext. *)

AddJamo(layout, c, jamo) ==
  IF layout.type = "2bul" THEN Add2Bul(layout, c, jamo) ELSE Add3Bul(layout, c, jamo)

\* Word mode keeps what is complete until the word ends.
Route(c) ==
  IF c.word THEN [c EXCEPT !.buffer = @ \o c.done, !.done = <<>>]
  ELSE [c EXCEPT !.out = @ \o c.done, !.done = <<>>]

ComposeAndRoute(layout, c, jamo) == Route(AddJamo(layout, c, jamo))

ProcessJamo(layout, c, jamo) ==
  ComposeAndRoute(layout,
    [c EXCEPT !.order = <<>>, !.keys = IF c.word THEN Append(@, jamo) ELSE @], jamo)

IsComposing(c) == c.queue # <<>> \/ Shown(c.cur) # <<>> \/ c.buffer # <<>>

ClearComposer(c)  == [c EXCEPT !.queue = <<>>, !.cur = Empty]
\* Mutant: the keys of the word survive it.
ClearComposingKeepsKeys(c) == [ClearComposer(c) EXCEPT !.order = <<>>, !.buffer = <<>>]

ClearComposing(c) == [ClearComposer(c) EXCEPT !.order = <<>>, !.buffer = <<>>, !.keys = <<>>]

\* The engine's flush_preedit: commit, then clear.
FlushPreedit(layout, c) ==
  LET forced == ForceCompose(layout, c)
  IN IF ~IsComposing(c) THEN c
     ELSE [ClearComposing(forced) EXCEPT !.out = @ \o c.buffer \o forced.done, !.done = <<>>]

\* Word mode's Backspace: every key but the last is typed again.
Replay(layout, c, keys) ==
  LET typed[n \in 0..Len(keys)] ==
        IF n = 0 THEN [ClearComposer(c) EXCEPT !.buffer = <<>>]
        ELSE ComposeAndRoute(layout, typed[n - 1], keys[n])
  IN typed[Len(keys)]

(* chord_compose.rs *)

Orders(jamos) ==
  {[i \in 1..Len(jamos) |-> jamos[p[i]]] :
     p \in {q \in [1..Len(jamos) -> 1..Len(jamos)] : IsInjective(q)}}

\* reduce_cho, reduce_jung, reduce_jong: some order of the jamo combines.
Reducible(layout, area, jamos) == \E order \in Orders(jamos) : FoldsLeft(layout, area, order)
Reduced(layout, area, jamos) ==
  Spelt(CHOOSE order \in Orders(jamos) : FoldsLeft(layout, area, order))

\* compose_chord: inject_to_preedit
Injectable(layout, jamos) ==
  \A area \in Areas : Reducible(layout, area, OfArea(jamos, area))

ChordQueue(layout, jamos) ==
  LET part(area) ==
        IF OfArea(jamos, area) = <<>> THEN <<>>
        ELSE <<Plain(area, Reduced(layout, area, OfArea(jamos, area)))>>
  IN part("cho") \o part("jung") \o part("jong")

\* inject_chord_syllable
Inject(layout, c, jamos) ==
  Compose(layout, [ClearComposer(c) EXCEPT !.order = jamos, !.queue = ChordQueue(layout, jamos)])

\* Backspace in an injected syllable takes the last of its last area.
Shortened(order) ==
  LET last(area) == {i \in DOMAIN order : order[i].area = area}
      area == CASE last("jong") # {} -> "jong"
                [] last("jong") = {} /\ last("jung") # {} -> "jung"
                [] OTHER -> "cho"
  IN RemoveAt(order, CHOOSE i \in last(area) : \A j \in last(area) : j <= i)

BackspaceChord(layout, c) ==
  LET rest == Shortened(c.order)
  IN IF rest # <<>> /\ Injectable(layout, rest) THEN Inject(layout, c, rest)
     ELSE [ClearComposer(c) EXCEPT !.order = <<>>]

\* Mutant: word mode removes a jamo as syllable mode does.
BackspaceContextBySyllable(layout, c) ==
  IF c.order # <<>> THEN BackspaceChord(layout, c) ELSE RemoveJamo(layout, c)

BackspaceContext(layout, c) ==
  CASE c.word /\ Len(c.keys) = 1 -> ClearComposing(c)
    [] c.word /\ Len(c.keys) > 1 -> [Replay(layout, c, Front(c.keys)) EXCEPT !.keys = Front(c.keys)]
    [] ~(c.word /\ c.keys # <<>>) /\ c.order # <<>> -> BackspaceChord(layout, c)
    [] OTHER -> RemoveJamo(layout, c)

-----------------------------------------------------------------------------
VARIABLES
  layout,   \* the keyboard in use
  ctx,      \* korean_context
  pending,  \* the jamo in the chord buffer
  preview,  \* how the context shows them: not, typed one by one, or joined
  base,     \* history: the letters there were when the chord began, if settled
            \* and its first key became a jamo of its own
  since     \* history: what was committed since then

vars == <<layout, ctx, pending, preview, base, since>>

Letters(text)  == FlattenSeq([i \in 1..Len(text) |-> text[i]["cho"] \o text[i]["jung"] \o text[i]["jong"]])
Text(c)        == c.buffer \o Shown(c.cur)
\* The composition is not one character that spells its keys in their order: it
\* shows two jamo side by side, or none, or holds a final consonant typed first.
Unsettled(c)   ==
  c.queue # <<>> /\ (Complete(c.cur) = <<>> \/ Spelt(c.queue) # Letters(Shown(c.cur)))
Count(text, letter) == Cardinality({i \in 1..Len(text) : text[i] = letter})
SameLetters(s, t)   == \A letter \in Letter : Count(s, letter) = Count(t, letter)

Quiet == [ctx EXCEPT !.out = <<>>]

Init ==
  /\ layout \in Layouts
  /\ \E word \in BOOLEAN : ctx = NewContext(word)
  /\ pending = <<>> /\ preview = "none" /\ base = {} /\ since = <<>>

\* finalize_chord_buffer: what is shown stays; what is not is typed now.
Finalized(c) ==
  LET typed[n \in 0..Len(pending)] ==
        IF n = 0 THEN c ELSE ProcessJamo(layout, typed[n - 1], pending[n])
  IN CASE pending = <<>> \/ preview # "none" -> c
       [] pending # <<>> /\ preview = "none" /\ Injectable(layout, pending) ->
            Inject(layout, FlushPreedit(layout, c), pending)
       [] OTHER -> typed[Len(pending)]

ChordOver == pending' = <<>> /\ preview' = "none" /\ base' = {} /\ since' = <<>>

Limit   == MaxWord[layout.chord]
Room(c) == Len(c.keys) < Limit

\* press_key: a jamo where chords are off.
Key(jamo) ==
  /\ ~layout.chord /\ Room(ctx)
  /\ ctx' = ProcessJamo(layout, Quiet, jamo)
  /\ UNCHANGED <<layout, pending, preview, base, since>>

\* update_chord_preview of the first key of a chord: typed as if alone.
ChordFirst(jamo) ==
  /\ layout.chord /\ pending = <<>> /\ Room(ctx)
  /\ ctx' = ProcessJamo(layout, Quiet, jamo)
  /\ pending' = <<jamo>> /\ preview' = "typed"
  /\ base' = (IF Unsettled(ctx) \/ CombinesBackward(layout, ctx, jamo) THEN {}
              ELSE {Letters(Text(ctx))})
  /\ since' = ctx'.out
  /\ UNCHANGED layout

\* The chord so far is a syllable, which takes the place of what was typed.
ChordJoins(jamo) ==
  LET chord    == Append(pending, jamo)
      unseen   == IF preview = "typed" THEN RemoveJamo(layout, Quiet) ELSE Quiet
      replaced == IF preview = "joined" THEN unseen ELSE FlushPreedit(layout, unseen)
  IN /\ layout.chord /\ pending # <<>> /\ Len(pending) < MaxChord
     /\ Injectable(layout, chord)
     /\ ctx' = Inject(layout, replaced, chord)
     /\ pending' = chord /\ preview' = "joined" /\ since' = since \o ctx'.out
     /\ UNCHANGED <<layout, base>>

\* Mutant: what was typed as the preview stays.
ChordBreaksKeeps(jamo) ==
  LET chord == Append(pending, jamo)
  IN /\ layout.chord /\ pending # <<>> /\ Len(pending) < MaxChord
     /\ ~Injectable(layout, chord)
     /\ ctx' = Quiet
     /\ pending' = chord /\ preview' = "none"
     /\ UNCHANGED <<layout, base, since>>

\* It is none: the preview is taken back, and the keys wait for the chord's end.
ChordBreaks(jamo) ==
  LET chord == Append(pending, jamo)
  IN /\ layout.chord /\ pending # <<>> /\ Len(pending) < MaxChord
     /\ ~Injectable(layout, chord)
     /\ ctx' = CASE preview = "joined" -> ClearComposing(Quiet)
                 [] preview = "typed"  -> RemoveJamo(layout, Quiet)
                 [] preview = "none"   -> Quiet
     /\ pending' = chord /\ preview' = "none"
     /\ UNCHANGED <<layout, base, since>>

\* The idle flush, or a key after the window, which is this and ChordFirst.
ChordEnds ==
  /\ pending # <<>>
  /\ ctx' = Finalized(Quiet) /\ Len(ctx'.keys) <= Limit
  /\ ChordOver /\ UNCHANGED layout

Backspace ==
  LET c == Finalized(Quiet)
  IN /\ IsComposing(c)
     /\ ctx' = BackspaceContext(layout, c) /\ Len(ctx'.keys) <= Limit
     /\ ChordOver /\ UNCHANGED layout

\* Enter, Tab, a symbol: the composition is confirmed.
Confirm ==
  LET c == Finalized(Quiet)
  IN /\ IsComposing(c)
     /\ ctx' = FlushPreedit(layout, c)
     /\ ChordOver /\ UNCHANGED layout

\* set_word_mode, of the word gate at FocusIn: the chord ended with the FocusOut.
SetWordMode(on) ==
  /\ pending = <<>>
  /\ ctx' = [FlushPreedit(layout, Quiet) EXCEPT !.word = on]
  /\ UNCHANGED <<layout, pending, preview, base, since>>

Next ==
  \/ \E jamo \in Keys[layout.type] :
       Key(jamo) \/ ChordFirst(jamo) \/ ChordJoins(jamo) \/ ChordBreaks(jamo)
  \/ ChordEnds \/ Backspace \/ Confirm
  \/ \E on \in BOOLEAN : SetWordMode(on)

Spec == Init /\ [][Next]_vars

-----------------------------------------------------------------------------
(* Properties. *)

HangulTypeOK ==
  /\ layout \in Layouts
  /\ ctx.queue \in Seq(Jamo) /\ ctx.keys \in Seq(Jamo) /\ ctx.order \in Seq(Jamo)
  /\ ctx.cur \in [Areas -> Seq(Letter)]
  /\ ctx.buffer \in Seq([Areas -> Seq(Letter)]) /\ ctx.out \in Seq([Areas -> Seq(Letter)])
  /\ ctx.word \in BOOLEAN /\ ctx.done = <<>>
  /\ pending \in Seq(Jamo) /\ Len(pending) <= MaxChord /\ Len(ctx.keys) <= Limit
  /\ preview \in {"none", "typed", "joined"}
  /\ ~ctx.word => ctx.buffer = <<>> /\ ctx.keys = <<>>

\* A key adds its letter at the end of the text and changes nothing before it,
\* whatever syllable it ends, splits or begins (add_jamo_with, the dokkaebi
\* effect and the change of a first consonant into a final one); one that
\* combines backward may stand before the last letter.  Nothing is claimed of a
\* composition that is not one character.
KeyKeepsText ==
  [][\A jamo \in Keys[layout.type] :
       Key(jamo) /\ ~Unsettled(ctx) /\ ~Unsettled(ctx') =>
         LET old == Letters(Text(ctx)) \o jamo.letters
             new == Letters(ctx'.out \o Text(ctx'))
         IN IF layout.bidirectional THEN SameLetters(new, old) ELSE new = old]_vars

\* What word mode shows is what its keys compose from nothing: Backspace types
\* them again and must not change the syllables it leaves alone (word_keys).
WordKeysComposeText ==
  ctx.word /\ ~layout.chord =>
    LET again == Replay(layout, ctx, ctx.keys)
    IN again.buffer = ctx.buffer /\ again.cur = ctx.cur /\ again.queue = ctx.queue

\* A key that ended no syllable is undone by one Backspace: the text is what it
\* was before the key, also in a syllable a chord composed and in word mode,
\* where a key that ended a syllable is undone too.
BackspaceUndoesKey ==
  ~layout.bidirectional /\ pending = <<>> /\ ~(layout.chord /\ ctx.word) /\ ~Unsettled(ctx) =>
    \A jamo \in Keys[layout.type] :
      LET typed == ProcessJamo(layout, Quiet, jamo)
      IN typed.out = <<>> => Letters(Text(BackspaceContext(layout, typed))) = Letters(Text(ctx))

\* While the keys of a chord wait, the text is what was there before it and, if
\* they are shown, the chord's letters, once each: taking the preview back and
\* composing it anew loses and repeats nothing (update_chord_preview).
ChordKeepsText ==
  ~Unsettled(ctx) => \A before \in base :
    SameLetters(Letters(since \o Text(ctx)),
                before \o IF preview = "none" THEN <<>> ELSE Spelt(pending))

\* input_context.rs: commit confirms what is being composed.  The code loses a
\* composition that is not one character.
CommitKeepsPreedit ==
  [][Confirm /\ pending = <<>> => Letters(ctx'.out) = Letters(Text(ctx))]_vars

=============================================================================
