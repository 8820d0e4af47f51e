----------------------------- MODULE AutoTypefix -----------------------------
(***************************************************************************)
(* Auto-typefix of one field: the keystroke buffer and the two detectors    *)
(* (src/auto_typefix/), the fix, its undo and what is learned of a fix that *)
(* the user takes back (unim-dbus/src/engine_worker.rs), the blacklist      *)
(* (src/typefix_blacklist.rs), and what the application makes of the reply  *)
(* (unim-frontends/gtk3/src/immodule.c, on_auto_typefix).                   *)
(*                                                                          *)
(* A key has an identity and a kind: with the two-set layout in mind "C" is *)
(* a key of a consonant, "V" of a vowel.  A character on the screen is the  *)
(* keys it was made of and the script it is shown in, so that a word that   *)
(* is respelled keeps its keys and a character erased by mistake takes its  *)
(* keys with it.  Text the user did not type here is a character "old".     *)
(***************************************************************************)
EXTENDS Naturals, Sequences, SequencesExt, TLC

CONSTANTS
  DictionaryWords, \* words of english_words.txt, each a sequence of kinds
  ReverseWords,    \* those of eng_word_min_length, and the user dictionary's
  Threshold,       \* kor_syllable_threshold
  WordModes,       \* the units the field may have: TRUE for CommitUnit::Word
  Earlier,         \* corrections that may have been made in the field before
  MaxKeys          \* bound: keys that leave a character

\* AutoTypeFixConfig::clamp_ranges lets no threshold below 2.
ASSUME TypefixAssumption ==
  /\ Threshold \in Nat /\ Threshold >= 2
  /\ MaxKeys \in Nat
  /\ WordModes \subseteq BOOLEAN

VARIABLES
  word,      \* the field's commit unit is the word
  category,  \* InputEngine::input_category
  blocked,   \* the purpose the engine knows is Password or Pin
  doc,       \* the application's text before the caret
  comp,      \* the keys the Korean context composes
  hidden,    \* the application does not show that composition
  buf,       \* KeystrokeBuffer::entries
  undo,      \* UndoState of the context, or NoUndo
  recent,    \* recent_corrections of the context
  blacklist, \* the status of each listed correction
  rejected,  \* history: corrections the user has taken back
  secret,    \* history: the keys typed while the purpose was a password's
  count      \* keys typed so far

vars == <<word, category, blocked, doc, comp, hidden, buf, undo, recent, blacklist,
          rejected, secret, count>>

Kinds      == {"C", "V"}
Directions == {"Forward", "Reverse"}
Statuses   == {"Tentative", "Confirmed", "Inactive"}
NoUndo     == [keys |-> <<>>, direction |-> "none", live |-> FALSE]

-----------------------------------------------------------------------------
(* typefix.rs, eng_to_kor: what the two-set automaton makes of keys.         *)

KindsOf(ks) == [i \in 1..Len(ks) |-> ks[i].kind]

\* The jamo joins the syllable, takes its final consonant to a new one, or begins
\* a syllable of its own.
AddJamo(groups, key) ==
  LET last == IF groups = <<>> THEN <<>> ELSE Last(groups)
  IN  CASE <<KindsOf(last), key.kind>> \in {<<<<"C", "V">>, "C">>, <<<<"C">>, "V">>} ->
             Append(Front(groups), Append(last, key))
        [] <<KindsOf(last), key.kind>> = <<<<"C", "V", "C">>, "V">> ->
             Append(Front(groups), Front(last)) \o <<<<Last(last), key>>>>
        [] OTHER -> Append(groups, <<key>>)

\* The jamo of each syllable, complete or not.
Syllables(keys) ==
  LET made[n \in 0..Len(keys)] == IF n = 0 THEN <<>> ELSE AddJamo(made[n - 1], keys[n])
  IN  made[Len(keys)]

\* A precomposed syllable, U+AC00 to U+D7A3
Complete(syllable) == Len(syllable) > 1

Korean(syllables) ==
  [i \in 1..Len(syllables) |-> [script |-> "kor", keys |-> syllables[i]]]
Ascii(keys) == [i \in 1..Len(keys) |-> [script |-> "eng", keys |-> <<keys[i]>>]]
Old(key)    == [script |-> "old", keys |-> <<key>>]

EraseLast(text, n) == SubSeq(text, 1, IF n > Len(text) THEN 0 ELSE Len(text) - n)

-----------------------------------------------------------------------------
(* The detectors *)

Correction(keys, direction) == <<KindsOf(keys), direction>>

\* Mutant: only what the user confirmed in the settings is suppressed.
IsSuppressedConfirmed(c) == c \in DOMAIN blacklist /\ blacklist[c] = "Confirmed"

IsSuppressed(c) == c \in DOMAIN blacklist /\ blacklist[c] # "Inactive"

\* Enough syllables, and nothing but syllables before the last one.
CheckForward(keys) ==
  LET syllables == Syllables(keys)
  IN  /\ category = "English"
      /\ Len(keys) >= 2
      /\ ~IsSuppressed(Correction(keys, "Forward"))
      /\ KindsOf(keys) \notin DictionaryWords
      /\ Len(SelectSeq(syllables, Complete)) >= Threshold
      /\ \A i \in 1..(Len(syllables) - 1) : Complete(syllables[i])

\* A word; there is always a composition when the detector is asked.
CheckReverse(keys) ==
  /\ category = "Korean"
  /\ Len(keys) >= 2
  /\ ~IsSuppressed(Correction(keys, "Reverse"))
  /\ KindsOf(keys) \in ReverseWords

\* RecentCorrection, as it is recorded
Correct(c) == [word |-> c[1], direction |-> c[2], erased |-> FALSE, switched |-> FALSE]

\* What the user did shows that the correction was unwanted.
RollbackThresholdMet(r) ==
  IF r.direction = "Forward" THEN r.erased /\ r.switched ELSE r.erased \/ r.switched

RolledBack(r, c) == <<r.word, r.direction>> = c /\ RollbackThresholdMet(r)

Retriggered(c) == \E r \in recent : RolledBack(r, c)

\* add_or_hit_tentative: a new entry, or an inactive one anew.
AddTentative(c) ==
  IF IsSuppressed(c) THEN blacklist
  ELSE [b \in DOMAIN blacklist \cup {c} |-> IF b = c THEN "Tentative" ELSE blacklist[b]]

-----------------------------------------------------------------------------
(* The reply to a letter *)

Key(kind) == [id |-> count + 1, kind |-> kind]

\* Syllables completed by a letter are committed; in word mode none is.
Settled(syllables) == IF word THEN <<>> ELSE Front(syllables)
Composing(keys)    == IF word THEN keys ELSE Last(Syllables(keys))

TypeLetter(key) ==
  IF category = "English"
  THEN doc' = doc \o Ascii(<<key>>) /\ UNCHANGED <<comp, hidden>>
  ELSE LET keys == Append(comp, key)
       IN  /\ doc' = doc \o Korean(Settled(Syllables(keys)))
           /\ comp' = Composing(keys)
           /\ hidden' = FALSE

\* Mutant: the letter whose commit the fix suppressed is counted all the same.
ForwardDeleteAll(keys) == Len(keys)

\* The letter that triggers a fix was not committed.
ForwardDelete(keys) == Len(keys) - 1

\* The characters of the word but the last, which is the composition; none at
\* all when the whole word is.
ReverseDelete(keys) ==
  LET shown == Len(Syllables(Front(keys)))
  IN  IF word THEN 0 ELSE shown - 1

\* The keys are pressed again in Korean; the commits of that are dropped and all
\* but the last syllable sent as text, or the word kept as the composition.
FixForward(keys) ==
  /\ doc' = EraseLast(doc, ForwardDelete(keys)) \o Korean(Settled(Syllables(keys)))
  /\ comp' = Composing(keys)
  /\ category' = "Korean"

FixReverse(keys) ==
  /\ doc' = EraseLast(doc, ReverseDelete(keys)) \o Ascii(keys)
  /\ comp' = <<>>
  /\ category' = "English"

Fix(keys, direction) ==
  /\ IF direction = "Forward" THEN FixForward(keys) ELSE FixReverse(keys)
  /\ undo' = [keys |-> keys, direction |-> direction,
              live |-> word /\ direction = "Forward"]
  /\ recent' = recent \cup {Correct(Correction(keys, direction))}
  /\ buf' = <<>>
  /\ hidden' = FALSE
  /\ UNCHANGED blacklist

\* The user types again what was rolled back: it is learned, and not fixed.
Learn(key, c) ==
  /\ TypeLetter(key)
  /\ blacklist' = AddTentative(c)
  /\ recent' = {r \in recent : ~RolledBack(r, c)}
  /\ buf' = <<>>
  /\ undo' = NoUndo
  /\ UNCHANGED category

\* Mutant: another letter leaves the undo of the word before.
NoFixKeepsUndo(key) ==
  /\ TypeLetter(key)
  /\ buf' = Append(buf, key)
  /\ UNCHANGED <<category, undo, recent, blacklist>>

NoFix(key) ==
  /\ TypeLetter(key)
  /\ buf' = Append(buf, key)
  /\ undo' = NoUndo
  /\ UNCHANGED <<category, recent, blacklist>>

\* A blocking field is observed by nothing.
Unobserved(key) == TypeLetter(key) /\ UNCHANGED <<category, buf, undo, recent, blacklist>>

Letter(kind) ==
  LET key == Key(kind)
      keys == Append(buf, key)
      direction == IF category = "English" THEN "Forward" ELSE "Reverse"
      c == Correction(keys, direction)
      found == CheckForward(keys) \/ CheckReverse(keys)
  IN  /\ count < MaxKeys /\ count' = count + 1
      /\ CASE blocked                             -> Unobserved(key)
           [] ~blocked /\ ~found                  -> NoFix(key)
           [] ~blocked /\ found /\ Retriggered(c)  -> Learn(key, c)
           [] ~blocked /\ found /\ ~Retriggered(c) -> Fix(keys, direction)
      /\ secret' = IF blocked THEN secret \cup {key} ELSE secret
      /\ UNCHANGED <<word, blocked, rejected>>

-----------------------------------------------------------------------------
(* Other keys *)

Confirmed == doc \o Korean(Syllables(comp))

\* Space, Enter and the like: the word is over.
Break ==
  /\ count < MaxKeys /\ count' = count + 1
  /\ doc' = Append(Confirmed, Old([id |-> count + 1, kind |-> "break"]))
  /\ comp' = <<>> /\ hidden' = FALSE
  /\ IF blocked THEN UNCHANGED <<buf, undo>> ELSE buf' = <<>> /\ undo' = NoUndo
  /\ UNCHANGED <<word, category, blocked, recent, blacklist, rejected, secret>>

\* observe_rollback_event
Seen(r, erased, switched) ==
  [word |-> r.word, direction |-> r.direction,
   erased |-> r.erased \/ erased, switched |-> r.switched \/ switched]

Observed(erased, switched) == {Seen(r, erased, switched) : r \in recent}

\* Everything observed so far that speaks against a correction
Rejections(observed) ==
  {<<r.word, r.direction>> : r \in {o \in observed : RollbackThresholdMet(o)}}

Observe(erased, switched) ==
  /\ recent' = Observed(erased, switched)
  /\ rejected' = rejected \cup Rejections(recent')

\* The last jamo goes, or a character of the application.
Backspace ==
  /\ IF comp # <<>> THEN comp' = Front(comp) /\ hidden' = FALSE /\ UNCHANGED doc
     ELSE doc # <<>> /\ doc' = Front(doc) /\ UNCHANGED <<comp, hidden>>
  /\ IF blocked THEN UNCHANGED <<buf, recent, rejected>>
     ELSE buf' = <<>> /\ Observe(TRUE, FALSE)
  /\ UNCHANGED <<word, category, blocked, undo, blacklist, secret, count>>

\* The undo record outlives the change of mode; the keystrokes do not.
Toggle ==
  /\ ~blocked
  /\ category' = IF category = "Korean" THEN "English" ELSE "Korean"
  /\ doc' = Confirmed /\ comp' = <<>> /\ hidden' = FALSE
  /\ buf' = <<>>
  /\ Observe(FALSE, TRUE)
  /\ UNCHANGED <<word, blocked, undo, blacklist, secret, count>>

\* Mutant: the corrected characters of a live composition are erased too.
UndoDeleteAll(u) ==
  IF u.direction = "Forward" THEN Len(Syllables(u.keys)) ELSE Len(u.keys)

\* undo_delete_chars, in characters of the corrected word
UndoDelete(u) ==
  IF u.live THEN 0
  ELSE IF u.direction = "Forward" THEN Len(Syllables(u.keys)) ELSE Len(u.keys)

\* What a correction replaced; a Reverse one does not know it any more.
Original(u) == IF u.direction = "Forward" THEN Ascii(u.keys) ELSE <<>>

\* Ctrl+Z: the composition of a live correction is dropped in the engine, any
\* other on the screen only.
Undo ==
  /\ ~blocked /\ undo # NoUndo
  /\ doc' = EraseLast(doc, UndoDelete(undo)) \o Original(undo)
  /\ IF undo.live THEN comp' = <<>> /\ hidden' = FALSE
     ELSE hidden' = (comp # <<>>) /\ UNCHANGED comp
  /\ undo' = NoUndo /\ buf' = <<>>
  /\ UNCHANGED <<word, category, blocked, recent, blacklist, rejected, secret,
                 count>>

-----------------------------------------------------------------------------
(* Requests that are no keys *)

\* What is left of the rejections when the observations are gone.
Learned(list) == {c \in rejected : c \in DOMAIN list /\ list[c] # "Inactive"}

\* Mutant: the keystrokes seen before the purpose was known stay.
ForgetUndoOnly == undo' = NoUndo /\ recent' = {} /\ UNCHANGED buf

Forget == buf' = <<>> /\ undo' = NoUndo /\ recent' = {}

\* A click: the composition is confirmed and the caret put behind other text.  The
\* engine is made anew (reset_engine_and_capture_commit) and keeps its category but
\* not the purpose, which no one sends again in this field.
Reset ==
  /\ count < MaxKeys /\ count' = count + 1
  /\ doc' = Append(Confirmed, Old([id |-> count + 1, kind |-> "old"]))
  /\ comp' = <<>> /\ hidden' = FALSE
  /\ blocked' = FALSE
  /\ UNCHANGED <<word, category, buf, undo, recent, blacklist, rejected,
                 secret>>

\* FocusOut and FocusIn of the next field, which shares the context.
ChangeField ==
  /\ doc' = <<Old([id |-> 0, kind |-> "old"])>>
  /\ comp' = <<>> /\ hidden' = FALSE
  /\ Forget
  /\ rejected' = Learned(blacklist)
  /\ blocked' = FALSE
  /\ UNCHANGED <<word, category, blacklist, secret, count>>

\* SetContentType; a purpose that comes while a syllable is composed is modelled
\* in EngineWorker.
EnterPassword ==
  /\ ~blocked /\ comp = <<>>
  /\ blocked' = TRUE /\ category' = "English"
  /\ Forget
  /\ rejected' = Learned(blacklist)
  /\ UNCHANGED <<word, doc, comp, hidden, blacklist, secret, count>>

-----------------------------------------------------------------------------
(* Time *)

\* KeystrokeBuffer::expire: the oldest keys leave the time window.
KeysExpire ==
  /\ buf # <<>> /\ buf' = Tail(buf)
  /\ UNCHANGED <<word, category, blocked, doc, comp, hidden, undo, recent,
                 blacklist, rejected, secret, count>>

UndoExpires ==
  /\ undo # NoUndo /\ undo' = NoUndo
  /\ UNCHANGED <<word, category, blocked, doc, comp, hidden, buf, recent, blacklist,
                 rejected, secret, count>>

\* A correction leaves observation_timeout_secs; one that was taken back and not
\* typed again is forgotten.
ObservationEnds ==
  \E r \in recent :
    /\ recent' = recent \ {r}
    /\ rejected' = Learned(blacklist) \cup Rejections(recent')
    /\ UNCHANGED <<word, category, blocked, doc, comp, hidden, buf, undo, blacklist,
                   secret, count>>

SetStatus(c, status) ==
  /\ blacklist' = [blacklist EXCEPT ![c] = status]
  /\ rejected' = Learned(blacklist') \cup Rejections(recent)
  /\ UNCHANGED <<word, category, blocked, doc, comp, hidden, buf, undo, recent,
                 secret, count>>

\* expire_tentatives, after tentative_expiry_hours
TentativeExpires ==
  \E c \in DOMAIN blacklist : blacklist[c] = "Tentative" /\ SetStatus(c, "Inactive")

\* The settings: promote_to_confirmed, reactivate_as_confirmed, deactivate.
EditBlacklist ==
  \E c \in DOMAIN blacklist, status \in {"Confirmed", "Inactive"} :
    blacklist[c] # status /\ SetStatus(c, status)

-----------------------------------------------------------------------------
Init ==
  /\ word \in WordModes
  /\ category \in {"Korean", "English"}
  /\ blocked = FALSE
  /\ doc = <<Old([id |-> 0, kind |-> "old"])>>
  /\ comp = <<>> /\ hidden = FALSE
  /\ buf = <<>> /\ undo = NoUndo
  /\ recent \in {{}} \cup {{Correct(c)} : c \in Earlier}
  /\ blacklist = <<>> /\ rejected = {} /\ secret = {}
  /\ count = 0

Next ==
  \/ \E kind \in Kinds : Letter(kind)
  \/ Break \/ Backspace \/ Toggle \/ Undo
  \/ Reset \/ ChangeField \/ EnterPassword
  \/ KeysExpire \/ UndoExpires \/ ObservationEnds
  \/ TentativeExpires \/ EditBlacklist

Spec == Init /\ [][Next]_vars

-----------------------------------------------------------------------------
(* Properties *)

Shown == IF hidden THEN doc ELSE Confirmed

Groups(text) == [i \in 1..Len(text) |-> text[i].keys]
KeysOf(text) == FlattenSeq(Groups(text))

\* What the screen would be without a word's keys
Meets(c, keys) == ToSet(c.keys) \cap ToSet(keys) # {}
Without(text, keys) ==
  FlattenSeq([i \in 1..Len(text) |-> IF Meets(text[i], keys) THEN <<>> ELSE <<text[i]>>])

\* The buffer is what the detectors take it for: the last keys on the screen, of
\* whole characters, with the composition among them.
Aligned ==
  LET kept == Without(Shown, buf)
  IN  /\ ~hidden
      /\ IsPrefix(kept, Shown)
      /\ KeysOf(Shown) = KeysOf(kept) \o buf
      /\ ToSet(comp) \subseteq ToSet(buf)

\* Only a fix makes an undo record.
Fixed == undo' # undo /\ undo' # NoUndo

\* A fix puts the word, letter for letter, in the other script where it stood and
\* touches no other character, whenever the buffer is aligned: delete count,
\* replayed keys, suppressed commit and preedit agree with one another.
FixKeepsText ==
  [][Fixed /\ Aligned =>
       LET keys == undo'.keys
           corrected == IF undo'.direction = "Forward" THEN Korean(Syllables(keys))
                        ELSE Ascii(keys)
       IN  Shown' = Without(Shown, keys) \o corrected]_vars

\* A correction the user took back is not made again before he has had the time
\* to forget it: within the observation window, and once typed again until the
\* entry expires or is taken off the list.
RejectedNotFixed ==
  [][Fixed => Correction(undo'.keys, undo'.direction) \notin rejected]_vars

\* While a live correction can be undone, whatever is composed is what is left
\* of it, so that to drop the composition loses nothing else.
LiveUndoIsComposition ==
  undo.live => IsPrefix(comp, undo.keys)

\* The undo of a live correction puts the letters where the word is composed and
\* erases nothing else.
LiveUndoRestores ==
  [][Undo /\ undo.live /\ comp # <<>> => Shown' = doc \o Ascii(undo.keys)]_vars

\* Of a password nothing is kept from which it might be learned, corrected or undone,
\* neither while the engine knows the purpose nor at any time after of what was
\* typed until then (the gate of atf_active_for_field, and SetContentType).  It says
\* nothing of keys that follow a Reset in a password field: the new engine has
\* lost the purpose, and they are observed like any others.
PasswordNotKept ==
  /\ blocked => buf = <<>> /\ undo = NoUndo /\ recent = {}
  /\ (ToSet(buf) \cup ToSet(undo.keys)) \cap secret = {}

\* The doc of undo_delete_chars: for a correction that is not live, corrected is
\* committed text, of which that many characters may be erased.
UndoTakesOwnText ==
  [][Undo /\ undo.direction = "Forward" /\ comp # <<>> =>
       IsPrefix(Without(doc, undo.keys), doc')]_vars
=============================================================================
