------------------------- MODULE AutoTypefixProofs -------------------------
(***************************************************************************)
(* Theorems about AutoTypefix for every dictionary, threshold, commit unit  *)
(* and length of input:                                                     *)
(*                                                                          *)
(*   PasswordNeverKept   no key is observed that is typed while the engine  *)
(*                       knows the purpose to be a password's;              *)
(*   RejectionsHonoured  no correction the user took back is made again;    *)
(*   LiveUndoOwnsText    a live correction is all that is composed while    *)
(*                       it can be undone;                                  *)
(*   FixesKeepText       a fix respells the word and nothing else;          *)
(*   LiveUndoRestoresWord                                                   *)
(*                       the undo of a live correction restores the word.   *)
(*                                                                          *)
(* The last two read the screen, so that they need what the automaton makes *)
(* of keys: that it gives them all back (Syllables...), that what it makes  *)
(* of a beginning or an ending of the keys is there in what it makes of all *)
(* of them (Spelled...), and what the keys of a text are when it is cut     *)
(* (Groups..., Parts).  The delete counts of a fix are right because the    *)
(* characters on the screen that hold keys of the buffer have the shape the *)
(* count takes them to have (ShapeOK): one key each in English; in Korean   *)
(* none before the caret without a composition, and else what the keys give *)
(* when they are pressed again.  Every step keeps that shape, and that each *)
(* key on the screen was typed once (TextOK).                               *)
(***************************************************************************)
EXTENDS AutoTypefix, SequenceLemmas

-----------------------------------------------------------------------------
(* The keys of the buffer *)

TypedKey == [id : Nat, kind : Kinds]

KeysOK == count \in Nat /\ buf \in Seq(TypedKey)

LEMMA KeysStep ==
  KeysOK /\ [Next]_vars => KeysOK'
<1>. SUFFICES ASSUME KeysOK, [Next]_vars PROVE KeysOK'
  OBVIOUS
<1>1. ASSUME NEW kind \in Kinds, Letter(kind) PROVE KeysOK'
  <2>1. Key(kind) \in TypedKey /\ count' \in Nat
    BY <1>1 DEF KeysOK, Letter, Key, TypedKey
  <2>2. buf' \in {buf, <<>>, Append(buf, Key(kind))}
    BY <1>1 DEF Letter, Unobserved, NoFix, Learn, Fix
  <2>3. Append(buf, Key(kind)) \in Seq(TypedKey)
    BY <2>1 DEF KeysOK
  <2>4. <<>> \in Seq(TypedKey) /\ buf \in Seq(TypedKey)
    BY DEF KeysOK
  <2>. QED BY <2>1, <2>2, <2>3, <2>4 DEF KeysOK
<1>2. CASE KeysExpire
  <2>1. buf \in Seq(TypedKey) /\ buf # <<>> => Tail(buf) \in Seq(TypedKey)
    OBVIOUS
  <2>. QED BY <1>2, <2>1 DEF KeysExpire, KeysOK
<1>3. CASE count' \in {count, count + 1} /\ buf' \in {buf, <<>>}
  <2>1. <<>> \in Seq(TypedKey)
    OBVIOUS
  <2>2. count' \in Nat
    BY <1>3 DEF KeysOK
  <2>3. buf' = buf \/ buf' = <<>>
    BY <1>3
  <2>. QED BY <2>1, <2>2, <2>3 DEF KeysOK
<1>4. CASE Break \/ Backspace \/ Toggle \/ Undo \/ Reset
  BY <1>3, <1>4 DEF Break, Backspace, Toggle, Undo, Reset
<1>5. CASE ChangeField \/ EnterPassword \/ UndoExpires \/ ObservationEnds
  BY <1>3, <1>5 DEF ChangeField, EnterPassword, Forget, UndoExpires, ObservationEnds
<1>6. CASE TentativeExpires \/ EditBlacklist
  BY <1>3, <1>6 DEF TentativeExpires, EditBlacklist, SetStatus
<1>7. CASE UNCHANGED vars
  BY <1>3, <1>7 DEF vars
<1>. QED BY <1>1, <1>2, <1>4, <1>5, <1>6, <1>7 DEF Next

-----------------------------------------------------------------------------
(* Passwords *)

\* What a correction may still be made of, or undone to
Kept == ToSet(buf) \cup ToSet(undo.keys)

\* The keys of a password have been typed, so that no later key is one of them.
SecretTyped == \A k \in secret : k.id \in Nat /\ k.id <= count

LEMMA EmptyToSet == ToSet(<<>>) = {}
BY DEF ToSet

LEMMA AppendToSet ==
  ASSUME NEW S, NEW s \in Seq(S), NEW e
  PROVE  ToSet(Append(s, e)) \subseteq ToSet(s) \cup {e}
<1>1. DOMAIN Append(s, e) = 1..(Len(s) + 1) /\ DOMAIN s = 1..Len(s) /\ Len(s) \in Nat
  OBVIOUS
<1>2. ASSUME NEW i \in 1..(Len(s) + 1) PROVE Append(s, e)[i] \in ToSet(s) \cup {e}
  <2>1. CASE i = Len(s) + 1
    <3>1. Append(s, e)[i] = e
      BY <2>1
    <3>. QED BY <3>1
  <2>2. CASE i # Len(s) + 1
    <3>1. i \in 1..Len(s) /\ Append(s, e)[i] = s[i]
      BY <1>1, <2>2
    <3>. QED BY <1>1, <3>1 DEF ToSet
  <2>. QED BY <2>1, <2>2
<1>. QED BY <1>1, <1>2 DEF ToSet

LEMMA TailToSet ==
  ASSUME NEW S, NEW s \in Seq(S), s # <<>>
  PROVE  ToSet(Tail(s)) \subseteq ToSet(s)
<1>1. DOMAIN Tail(s) = 1..(Len(s) - 1) /\ DOMAIN s = 1..Len(s) /\ Len(s) \in Nat
  OBVIOUS
<1>2. ASSUME NEW i \in 1..(Len(s) - 1) PROVE Tail(s)[i] = s[i + 1] /\ i + 1 \in 1..Len(s)
  BY <1>1
<1>. QED BY <1>1, <1>2 DEF ToSet

\* A key that the engine knows to be a password's is kept nowhere, any other is new.
LEMMA PasswordLetter ==
  ASSUME KeysOK, SecretTyped, PasswordNotKept, NEW kind \in Kinds, Letter(kind)
  PROVE  SecretTyped' /\ PasswordNotKept'
<1>. DEFINE key == Key(kind)
<1>1. count \in Nat /\ count' = count + 1 /\ key.id = count + 1 /\ buf \in Seq(TypedKey)
  BY DEF KeysOK, Letter, Key
<1>. HIDE DEF key
<1>2. blocked' = blocked
  BY DEF Letter
<1>3. CASE blocked
  <2>1. buf' = <<>> /\ undo' = NoUndo /\ recent' = {}
    BY <1>3 DEF Letter, Unobserved, PasswordNotKept
  <2>2. secret' = secret \cup {key}
    BY <1>3 DEF Letter, key
  <2>3. SecretTyped'
    BY <1>1, <2>2 DEF SecretTyped
  <2>4. undo'.keys = <<>>
    BY <2>1 DEF NoUndo
  <2>. QED BY <2>1, <2>3, <2>4, EmptyToSet DEF PasswordNotKept
<1>4. CASE ~blocked
  <2>1. secret' = secret
    BY <1>4 DEF Letter
  <2>2. SecretTyped'
    BY <1>1, <2>1 DEF SecretTyped
  <2>3. key \notin secret
    BY <1>1 DEF SecretTyped
  <2>4. buf' = <<>> \/ buf' = Append(buf, key)
    BY <1>4 DEF Letter, NoFix, Learn, Fix, key
  <2>5. undo'.keys = <<>> \/ undo'.keys = Append(buf, key)
    <3>1. undo' = NoUndo \/ \E d, l : undo' = [keys |-> Append(buf, key), direction |-> d, live |-> l]
      BY <1>4 DEF Letter, NoFix, Learn, Fix, key
    <3>. QED BY <3>1 DEF NoUndo
  <2>6. ToSet(Append(buf, key)) \cap secret = {}
    <3>1. ToSet(Append(buf, key)) \subseteq ToSet(buf) \cup {key}
      BY <1>1, AppendToSet
    <3>. QED BY <2>3, <3>1 DEF PasswordNotKept
  <2>7. ToSet(buf') \cap secret = {} /\ ToSet(undo'.keys) \cap secret = {}
    BY <2>4, <2>5, <2>6, EmptyToSet
  <2>. QED BY <1>2, <1>4, <2>1, <2>2, <2>7 DEF PasswordNotKept
<1>. QED BY <1>3, <1>4

\* Every other step keeps no more than there was.
LEMMA PasswordFrame ==
  ASSUME SecretTyped, PasswordNotKept, count \in Nat, count' \in {count, count + 1},
         secret' = secret, Kept' \subseteq Kept,
         blocked' => buf' = <<>> /\ undo' = NoUndo /\ recent' = {}
  PROVE  SecretTyped' /\ PasswordNotKept'
<1>1. SecretTyped'
  BY DEF SecretTyped
<1>. QED BY <1>1 DEF PasswordNotKept, Kept

LEMMA PasswordStep ==
  KeysOK /\ SecretTyped /\ PasswordNotKept /\ [Next]_vars => SecretTyped' /\ PasswordNotKept'
<1>. SUFFICES ASSUME KeysOK, SecretTyped, PasswordNotKept, [Next]_vars
              PROVE  SecretTyped' /\ PasswordNotKept'
  OBVIOUS
<1>0. count \in Nat /\ buf \in Seq(TypedKey)
  BY DEF KeysOK
<1>. DEFINE Less == /\ buf' = buf \/ ToSet(buf') \subseteq ToSet(buf)
                    /\ undo' = undo \/ undo' = NoUndo
            Clean == blocked' => buf' = <<>> /\ undo' = NoUndo /\ recent' = {}
            Same == secret' = secret /\ count' \in {count, count + 1}
<1>1. ASSUME Less, Clean, Same PROVE SecretTyped' /\ PasswordNotKept'
  <2>1. ToSet(buf') \subseteq ToSet(buf)
    BY <1>1
  <2>2. ToSet(undo'.keys) \subseteq ToSet(undo.keys)
    BY <1>1, EmptyToSet DEF NoUndo
  <2>3. Kept' \subseteq Kept
    BY <2>1, <2>2 DEF Kept
  <2>. QED BY <1>0, <1>1, <2>3, PasswordFrame
<1>2. ASSUME NEW kind \in Kinds, Letter(kind) PROVE SecretTyped' /\ PasswordNotKept'
  BY <1>2, PasswordLetter
<1>3. CASE Break
  BY <1>1, <1>3, EmptyToSet DEF Break, PasswordNotKept
<1>4. CASE Backspace
  <2>1. blocked => buf' = buf /\ recent' = recent
    BY <1>4 DEF Backspace
  <2>2. ~blocked => buf' = <<>>
    BY <1>4 DEF Backspace
  <2>3. undo' = undo /\ blocked' = blocked /\ Same
    BY <1>4 DEF Backspace
  <2>. QED BY <1>1, <2>1, <2>2, <2>3, EmptyToSet DEF PasswordNotKept
<1>5. CASE Toggle \/ Undo \/ Reset
  BY <1>1, <1>5, EmptyToSet DEF Toggle, Undo, Reset, PasswordNotKept
<1>6. CASE ChangeField \/ EnterPassword
  BY <1>1, <1>6, EmptyToSet DEF ChangeField, EnterPassword, Forget
<1>7. CASE KeysExpire
  BY <1>0, <1>1, <1>7, TailToSet DEF KeysExpire, PasswordNotKept
<1>8. CASE UndoExpires \/ ObservationEnds
  BY <1>1, <1>8 DEF UndoExpires, ObservationEnds, PasswordNotKept
<1>9. CASE TentativeExpires \/ EditBlacklist
  BY <1>1, <1>9 DEF TentativeExpires, EditBlacklist, SetStatus, PasswordNotKept
<1>10. CASE UNCHANGED vars
  BY <1>1, <1>10 DEF vars, PasswordNotKept
<1>. QED BY <1>2, <1>3, <1>4, <1>5, <1>6, <1>7, <1>8, <1>9, <1>10 DEF Next

\* The observations end when the engine learns that the field is a password's,
\* none begins while it knows, and what is typed until a Reset takes that
\* knowledge away is not found in any observation that begins afterwards.  Of
\* the keys after the Reset it says nothing: they are observed.
THEOREM PasswordNeverKept == Spec => []PasswordNotKept
<1>1. Init => KeysOK /\ SecretTyped /\ PasswordNotKept
  <2>1. <<>> \in Seq(TypedKey)
    OBVIOUS
  <2>. QED BY <2>1, EmptyToSet DEF Init, KeysOK, SecretTyped, PasswordNotKept
<1>. QED BY <1>1, KeysStep, PasswordStep, PTL DEF Spec

-----------------------------------------------------------------------------
(* Corrections taken back *)

WellFormed(r) ==
  /\ r = [word |-> r.word, direction |-> r.direction, erased |-> r.erased,
          switched |-> r.switched]
  /\ r.erased \in BOOLEAN /\ r.switched \in BOOLEAN

RecentOK == \A r \in recent : WellFormed(r)

\* Where the memory of a rejection is: with the recent corrections until the word
\* is typed again, with the blacklist from then on.
Remembered == \A c \in rejected : IsSuppressed(c) \/ Retriggered(c)

LEMMA CorrectWellFormed ==
  ASSUME NEW c PROVE WellFormed(Correct(c))
BY DEF WellFormed, Correct

\* An observation keeps the corrections and forgets none.
LEMMA ObservedKeeps ==
  ASSUME RecentOK, NEW erased \in BOOLEAN, NEW switched \in BOOLEAN
  PROVE  /\ \A o \in Observed(erased, switched) : WellFormed(o)
         /\ \A c : Retriggered(c) => \E o \in Observed(erased, switched) : RolledBack(o, c)
<1>1. ASSUME NEW r \in recent PROVE r.erased \in BOOLEAN /\ r.switched \in BOOLEAN
  BY DEF RecentOK, WellFormed
<1>2. \A o \in Observed(erased, switched) : WellFormed(o)
  BY <1>1 DEF Observed, Seen, WellFormed
<1>3. ASSUME NEW c, NEW r \in recent, RolledBack(r, c)
      PROVE  RolledBack(Seen(r, erased, switched), c)
  BY <1>1, <1>3 DEF RolledBack, RollbackThresholdMet, Seen
<1>4. \A r \in recent : Seen(r, erased, switched) \in Observed(erased, switched)
  BY DEF Observed
<1>. QED BY <1>2, <1>3, <1>4 DEF Retriggered

LEMMA ObserveStep ==
  ASSUME RecentOK, Remembered, NEW erased \in BOOLEAN, NEW switched \in BOOLEAN,
         Observe(erased, switched), UNCHANGED blacklist
  PROVE  RecentOK' /\ Remembered'
<1>1. RecentOK'
  BY ObservedKeeps DEF Observe, RecentOK
<1>2. ASSUME NEW c \in rejected PROVE IsSuppressed(c)' \/ Retriggered(c)'
  BY ObservedKeeps DEF Observe, Remembered, IsSuppressed, Retriggered
<1>3. ASSUME NEW c \in Rejections(recent') PROVE Retriggered(c)'
  BY <1>3 DEF Rejections, Retriggered, RolledBack
<1>. QED BY <1>1, <1>2, <1>3 DEF Observe, Remembered

\* Learned and Rejections are remembered by what they are taken from.
LEMMA LearnedSuppressed ==
  ASSUME rejected' \subseteq Learned(blacklist') \cup Rejections(recent')
  PROVE  Remembered'
<1>1. ASSUME NEW c \in Learned(blacklist') PROVE IsSuppressed(c)'
  BY <1>1 DEF Learned, IsSuppressed
<1>2. ASSUME NEW c \in Rejections(recent') PROVE Retriggered(c)'
  BY <1>2 DEF Rejections, Retriggered, RolledBack
<1>. QED BY <1>1, <1>2 DEF Remembered

\* What Learn takes off the recent corrections it puts on the blacklist.
LEMMA LearnStep ==
  ASSUME RecentOK, Remembered, NEW key, NEW k, Learn(key, k), UNCHANGED rejected
  PROVE  RecentOK' /\ Remembered'
<1>1. RecentOK'
  BY DEF Learn, RecentOK
<1>2. IsSuppressed(k)'
  BY DEF Learn, AddTentative, IsSuppressed
<1>3. ASSUME NEW c, IsSuppressed(c) PROVE IsSuppressed(c)'
  BY <1>3 DEF Learn, AddTentative, IsSuppressed
<1>4. ASSUME NEW c, Retriggered(c), c # k PROVE Retriggered(c)'
  BY <1>4 DEF Learn, Retriggered, RolledBack
<1>. QED BY <1>1, <1>2, <1>3, <1>4 DEF Remembered

LEMMA LetterStep ==
  ASSUME RecentOK, Remembered, NEW kind \in Kinds, Letter(kind)
  PROVE  RecentOK' /\ Remembered'
<1>. DEFINE key == Key(kind)
            keys == Append(buf, key)
            direction == IF category = "English" THEN "Forward" ELSE "Reverse"
            c == Correction(keys, direction)
<1>0. UNCHANGED rejected
  BY DEF Letter
<1>1. CASE UNCHANGED <<recent, blacklist>>
  BY <1>0, <1>1 DEF RecentOK, Remembered, IsSuppressed, Retriggered
<1>2. CASE Learn(key, c)
  BY <1>0, <1>2, LearnStep
<1>3. CASE Fix(keys, direction)
  <2>1. recent' = recent \cup {Correct(c)} /\ UNCHANGED blacklist
    BY <1>3 DEF Fix
  <2>. QED BY <1>0, <2>1, CorrectWellFormed
           DEF RecentOK, Remembered, IsSuppressed, Retriggered
<1>. QED BY <1>1, <1>2, <1>3 DEF Letter, Unobserved, NoFix

LEMMA RememberedStep ==
  RecentOK /\ Remembered /\ [Next]_vars => RecentOK' /\ Remembered'
<1>. SUFFICES ASSUME RecentOK, Remembered, [Next]_vars PROVE RecentOK' /\ Remembered'
  OBVIOUS
<1>1. ASSUME NEW kind \in Kinds, Letter(kind) PROVE RecentOK' /\ Remembered'
  BY <1>1, LetterStep
<1>2. CASE UNCHANGED <<recent, blacklist, rejected>>
  BY <1>2 DEF RecentOK, Remembered, IsSuppressed, Retriggered
<1>3. CASE Backspace /\ ~blocked
  BY <1>3, ObserveStep DEF Backspace
<1>4. CASE Toggle
  BY <1>4, ObserveStep DEF Toggle
<1>5. CASE ChangeField \/ EnterPassword
  <2>1. recent' = {} /\ rejected' = Learned(blacklist') /\ UNCHANGED blacklist
    BY <1>5 DEF ChangeField, EnterPassword, Forget
  <2>. QED BY <2>1, LearnedSuppressed DEF RecentOK
<1>6. CASE ObservationEnds
  <2>1. rejected' = Learned(blacklist') \cup Rejections(recent')
    BY <1>6 DEF ObservationEnds
  <2>. QED BY <1>6, <2>1, LearnedSuppressed DEF ObservationEnds, RecentOK
<1>7. CASE TentativeExpires \/ EditBlacklist
  <2>1. rejected' = Learned(blacklist') \cup Rejections(recent') /\ UNCHANGED recent
    BY <1>7 DEF TentativeExpires, EditBlacklist, SetStatus
  <2>. QED BY <2>1, LearnedSuppressed DEF RecentOK
<1>8. CASE Break \/ Undo \/ Reset \/ KeysExpire \/ UndoExpires
  BY <1>2, <1>8 DEF Break, Undo, Reset, KeysExpire, UndoExpires
<1>9. CASE Backspace /\ blocked
  BY <1>2, <1>9 DEF Backspace
<1>10. CASE UNCHANGED vars
  BY <1>2, <1>10 DEF vars
<1>. QED BY <1>1, <1>3, <1>4, <1>5, <1>6, <1>7, <1>8, <1>9, <1>10 DEF Next

\* The fix of a letter, of nothing that speaks against it
FixOf(kind, keys, direction) ==
  /\ Letter(kind) /\ keys = Append(buf, Key(kind))
  /\ direction = IF category = "English" THEN "Forward" ELSE "Reverse"
  /\ CheckForward(keys) \/ CheckReverse(keys)
  /\ ~Retriggered(Correction(keys, direction))
  /\ Fix(keys, direction)

\* Only a letter fixes.
LEMMA FixedByLetter ==
  ASSUME [Next]_vars, Fixed
  PROVE  \E kind \in Kinds : FixOf(kind, undo'.keys, undo'.direction)
<1>1. PICK kind \in Kinds : Letter(kind)
  BY DEF Next, vars, Fixed, Break, Backspace, Toggle, Undo, Reset, ChangeField, Forget,
         EnterPassword, KeysExpire, UndoExpires, ObservationEnds, TentativeExpires,
         EditBlacklist, SetStatus
<1>. DEFINE keys == Append(buf, Key(kind))
            direction == IF category = "English" THEN "Forward" ELSE "Reverse"
<1>2. /\ CheckForward(keys) \/ CheckReverse(keys)
      /\ ~Retriggered(Correction(keys, direction))
      /\ Fix(keys, direction)
  BY <1>1 DEF Letter, Fixed, Unobserved, NoFix, Learn
<1>3. undo'.keys = keys /\ undo'.direction = direction
  BY <1>2 DEF Fix
<1>. QED BY <1>1, <1>2, <1>3 DEF FixOf

\* Whatever the user types, switches, waits for or edits in the settings.
THEOREM RejectionsHonoured == Spec => RejectedNotFixed
<1>. DEFINE Honours == Fixed => Correction(undo'.keys, undo'.direction) \notin rejected
<1>1. Init => RecentOK /\ Remembered
  BY CorrectWellFormed DEF Init, RecentOK, Remembered
<1>2. ASSUME Remembered, [Next]_vars PROVE [Honours]_vars
  <2>. DEFINE c == Correction(undo'.keys, undo'.direction)
  <2>. SUFFICES ASSUME Fixed PROVE c \notin rejected
    OBVIOUS
  <2>1. PICK kind \in Kinds : FixOf(kind, undo'.keys, undo'.direction)
    BY <1>2, FixedByLetter
  <2>2. ~IsSuppressed(c) /\ ~Retriggered(c)
    BY <2>1 DEF FixOf, CheckForward, CheckReverse
  <2>. QED BY <1>2, <2>2 DEF Remembered
<1>. QED BY <1>1, <1>2, RememberedStep, PTL DEF Spec, RejectedNotFixed

-----------------------------------------------------------------------------
(* What can be undone *)

\* A live correction is a word's, and what is composed is what is left of it.
LiveOK ==
  undo.live => /\ word
               /\ undo.keys \in Seq(TypedKey) /\ comp \in Seq(TypedKey)
               /\ IsPrefix(comp, undo.keys)

\* What is left after a Backspace is still a beginning.
LEMMA FrontOfPrefix ==
  ASSUME NEW s \in Seq(TypedKey), NEW t \in Seq(TypedKey), IsPrefix(s, t), s # <<>>
  PROVE  Front(s) \in Seq(TypedKey) /\ IsPrefix(Front(s), t)
<1>1. Len(s) \in Nat /\ Len(s) > 0 /\ Len(s) <= Len(t)
  BY DEF IsPrefix
<1>2. \A i \in 1..Len(s) : s[i] = t[i]
  <2>1. ASSUME NEW i \in 1..Len(s) PROVE SubSeq(s, 1, Len(s))[i] = s[i]
    BY <1>1
  <2>2. ASSUME NEW i \in 1..Len(s) PROVE SubSeq(t, 1, Len(s))[i] = t[i]
    BY <1>1
  <2>. QED BY <2>1, <2>2 DEF IsPrefix
<1>3. Front(s) \in Seq(TypedKey) /\ Len(Front(s)) = Len(s) - 1
  <2>1. Front(s) = [i \in 1..(Len(s) - 1) |-> s[i]]
    BY <1>1 DEF Front
  <2>. QED BY <1>1, <2>1
<1>4. SubSeq(Front(s), 1, Len(s) - 1) = SubSeq(t, 1, Len(s) - 1)
  <2>1. \A i \in 1..(Len(s) - 1) : Front(s)[i] = s[i]
    BY <1>1 DEF Front
  <2>. QED BY <1>1, <1>2, <1>3, <2>1
<1>. QED BY <1>1, <1>3, <1>4 DEF IsPrefix

LEMMA EmptyPrefix ==
  ASSUME NEW t \in Seq(TypedKey)
  PROVE  <<>> \in Seq(TypedKey) /\ IsPrefix(<<>>, t)
BY DEF IsPrefix

LEMMA LiveLetter ==
  ASSUME KeysOK, PasswordNotKept, LiveOK, NEW kind \in Kinds, Letter(kind)
  PROVE  LiveOK'
<1>. DEFINE keys == Append(buf, Key(kind))
<1>1. keys \in Seq(TypedKey) /\ IsPrefix(keys, keys)
  BY DEF KeysOK, Key, TypedKey, IsPrefix
<1>2. CASE undo' = NoUndo
  BY <1>2 DEF LiveOK, NoUndo
<1>3. CASE blocked
  BY <1>2, <1>3 DEF Letter, Unobserved, PasswordNotKept
<1>4. ASSUME NEW direction, Fix(keys, direction) PROVE LiveOK'
  <2>1. undo'.keys = keys /\ (undo'.live <=> word /\ direction = "Forward")
    BY <1>4 DEF Fix
  <2>2. undo'.live => comp' = keys
    BY <1>4, <2>1 DEF Fix, FixForward, Composing
  <2>3. word' = word
    BY DEF Letter
  <2>. QED BY <1>1, <2>1, <2>2, <2>3 DEF LiveOK
<1>. QED BY <1>2, <1>3, <1>4 DEF Letter, NoFix, Learn

LEMMA LiveStep ==
  KeysOK /\ PasswordNotKept /\ LiveOK /\ [Next]_vars => LiveOK'
<1>. SUFFICES ASSUME KeysOK, PasswordNotKept, LiveOK, [Next]_vars PROVE LiveOK'
  OBVIOUS
<1>1. ASSUME NEW kind \in Kinds, Letter(kind) PROVE LiveOK'
  BY <1>1, LiveLetter
<1>2. CASE undo' = NoUndo
  BY <1>2 DEF LiveOK, NoUndo
<1>3. CASE UNCHANGED <<word, comp, undo>>
  BY <1>3 DEF LiveOK
<1>4. CASE comp' = <<>> /\ UNCHANGED <<word, undo>>
  BY <1>4, EmptyPrefix DEF LiveOK
<1>5. CASE Break
  BY <1>2, <1>4, <1>5 DEF Break
<1>6. CASE Backspace
  <2>1. CASE comp = <<>>
    BY <1>3, <1>6, <2>1 DEF Backspace
  <2>2. CASE comp # <<>>
    BY <1>6, <2>2, FrontOfPrefix DEF Backspace, LiveOK
  <2>. QED BY <2>1, <2>2
<1>7. CASE Toggle \/ Reset
  BY <1>4, <1>7 DEF Toggle, Reset
<1>8. CASE Undo \/ ChangeField \/ EnterPassword \/ UndoExpires
  BY <1>2, <1>8 DEF Undo, ChangeField, EnterPassword, Forget, UndoExpires
<1>9. CASE KeysExpire \/ ObservationEnds \/ TentativeExpires \/ EditBlacklist
  BY <1>3, <1>9 DEF KeysExpire, ObservationEnds, TentativeExpires, EditBlacklist, SetStatus
<1>10. CASE UNCHANGED vars
  BY <1>3, <1>10 DEF vars
<1>. QED BY <1>1, <1>5, <1>6, <1>7, <1>8, <1>9, <1>10 DEF Next

\* So Ctrl+Z drops nothing but the word it restores.
THEOREM LiveUndoOwnsText == Spec => []LiveUndoIsComposition
<1>1. Init => KeysOK /\ LiveOK
  BY DEF Init, KeysOK, LiveOK, NoUndo
<1>2. LiveOK => LiveUndoIsComposition
  BY DEF LiveOK, LiveUndoIsComposition
<1>. QED BY <1>1, <1>2, KeysStep, LiveStep, PasswordNeverKept, PTL DEF Spec

-----------------------------------------------------------------------------
(* The two-set automaton: what a key makes of the last syllable. *)

\* Sequences of at least one key
Some(K) == Seq(K) \ {<<>>}

LastProperties(s, e, S) ==
  /\ Append(s, e) \in Seq(S) /\ Append(s, e) # <<>>
  /\ Last(Append(s, e)) = e /\ Front(Append(s, e)) = s

LEMMA LastOfAppend ==
  ASSUME NEW S, NEW s \in Seq(S), NEW e \in S
  PROVE  LastProperties(s, e, S)
<1>. DEFINE t == Append(s, e)
<1>1. /\ t \in Seq(S) /\ t # <<>> /\ Len(t) = Len(s) + 1 /\ Len(s) \in Nat
      /\ \A i \in 1..Len(s) : t[i] = s[i]
      /\ t[Len(s) + 1] = e
  BY AppendProperties
<1>. HIDE DEF t
<1>2. Last(t) = e
  BY <1>1 DEF Last
<1>3. Front(t) = s
  <2>0. Len(t) - 1 = Len(s)
    BY <1>1
  <2>1. Front(t) = SubSeq(t, 1, Len(s))
    BY <2>0 DEF Front
  <2>2. \A i \in 1..Len(s) : t[i] \in S
    BY <1>1
  <2>3. /\ SubSeq(t, 1, Len(s)) \in Seq(S)
        /\ Len(SubSeq(t, 1, Len(s))) = Len(s)
        /\ \A i \in 1..Len(s) : SubSeq(t, 1, Len(s))[i] = t[i]
    BY <1>1, <2>2
  <2>. QED BY <1>1, <2>1, <2>3, SeqEqual
<1>. QED BY <1>1, <1>2, <1>3 DEF t, LastProperties

\* A sequence that has an element has a front and a last one.
LEMMA Ended ==
  ASSUME NEW S, NEW t \in Seq(S), t # <<>>
  PROVE  \E s \in Seq(S), e \in S : t = Append(s, e) /\ Last(t) = e /\ Front(t) = s
<1>1. PICK s \in Seq(S), e \in S : t = Append(s, e)
  BY SequenceEmptyOrAppend
<1>2. LastProperties(s, e, S)
  BY LastOfAppend
<1>. QED BY <1>1, <1>2 DEF LastProperties

Takes(l, key) == <<KindsOf(l), key.kind>> \in {<<<<"C", "V">>, "C">>, <<<<"C">>, "V">>}
Yields(l, key) == <<KindsOf(l), key.kind>> = <<<<"C", "V", "C">>, "V">>

\* What becomes of a last syllable l.
Ending(l, key) ==
  CASE Takes(l, key)                    -> <<Append(l, key)>>
    [] Yields(l, key) /\ ~Takes(l, key) -> <<Front(l), <<Last(l), key>>>>
    [] OTHER                            -> <<l, <<key>>>>

\* The three endings, told apart by nothing but the last syllable and the key.
Endings(l, key, e, K) ==
  \/ Takes(l, key) /\ e = <<Append(l, key)>>
  \/ /\ Yields(l, key) /\ e = <<Front(l), <<Last(l), key>>>>
     /\ Front(l) \in Some(K) /\ Last(l) \in K /\ l = Append(Front(l), Last(l))
     /\ Last(l).kind = "C" /\ key.kind = "V"
  \/ ~Takes(l, key) /\ ~Yields(l, key) /\ e = <<l, <<key>>>>

LEMMA YieldsThree ==
  ASSUME NEW K, NEW l \in Some(K), NEW key \in K, Yields(l, key)
  PROVE  /\ Front(l) \in Some(K) /\ Last(l) \in K /\ l = Append(Front(l), Last(l))
         /\ Last(l).kind = "C" /\ key.kind = "V"
<1>1. l \in Seq(K) /\ l # <<>> /\ Len(l) \in Nat
  BY DEF Some
<1>2. KindsOf(l) = <<"C", "V", "C">> /\ key.kind = "V"
  BY DEF Yields
<1>3. Len(l) = 3
  <2>1. PICK kinds : kinds = KindsOf(l)
    OBVIOUS
  <2>2. DOMAIN kinds = 1..Len(l)
    BY <2>1 DEF KindsOf
  <2>3. DOMAIN kinds = 1..3
    BY <1>2, <2>1
  <2>. QED BY <1>1, <2>2, <2>3
<1>4. l[3].kind = "C"
  <2>1. PICK kinds : kinds = KindsOf(l)
    OBVIOUS
  <2>2. kinds[3] = l[3].kind
    BY <1>3, <2>1 DEF KindsOf
  <2>3. kinds[3] = "C"
    BY <1>2, <2>1
  <2>. QED BY <2>2, <2>3
<1>5. PICK s \in Seq(K), e \in K : l = Append(s, e) /\ Last(l) = e /\ Front(l) = s
  BY <1>1, Ended
<1>6. Len(s) = 2
  <2>1. PICK n : n = Len(s)
    OBVIOUS
  <2>2. Len(Append(s, e)) = n + 1 /\ n \in Nat
    BY <2>1, AppendProperties
  <2>3. n + 1 = 3
    BY <1>3, <1>5, <2>2
  <2>. QED BY <2>1, <2>2, <2>3
<1>7. Last(l) = l[3]
  BY <1>3 DEF Last
<1>8. s # <<>>
  BY <1>6
<1>. QED BY <1>2, <1>4, <1>5, <1>7, <1>8 DEF Some

LEMMA EndingCases ==
  ASSUME NEW K, NEW l \in Some(K), NEW key \in K, NEW e, e = Ending(l, key)
  PROVE  Endings(l, key, e, K)
<1>1. CASE Takes(l, key)
  BY <1>1 DEF Ending, Endings
<1>2. CASE Yields(l, key) /\ ~Takes(l, key)
  <2>1. e = <<Front(l), <<Last(l), key>>>>
    BY <1>2 DEF Ending
  <2>. QED BY <1>2, <2>1, YieldsThree DEF Endings
<1>3. CASE ~Yields(l, key) /\ ~Takes(l, key)
  BY <1>3 DEF Ending, Endings
<1>. QED BY <1>1, <1>2, <1>3

LEMMA PairJoined ==
  ASSUME NEW S, NEW x \in S, NEW y \in S
  PROVE  <<x>> \o <<y>> = <<x, y>>
<1>1. <<x>> \in Seq(S) /\ <<y>> \in Seq(S) /\ <<x, y>> \in Seq(S)
  OBVIOUS
<1>2. PICK one, two : one = <<x>> /\ two = <<y>>
  OBVIOUS
<1>3. Len(one) = 1 /\ Len(two) = 1 /\ one[1] = x /\ two[1] = y
  BY <1>2
<1>4. /\ one \o two \in Seq(S) /\ Len(one \o two) = 2
      /\ (one \o two)[1] = x /\ (one \o two)[2] = y
  <2>1. one \in Seq(S) /\ two \in Seq(S)
    BY <1>1, <1>2
  <2>2. \A i \in 1..(Len(one) + Len(two)) :
          (one \o two)[i] = IF i <= Len(one) THEN one[i] ELSE two[i - Len(one)]
    BY <2>1, ConcatProperties
  <2>3. one \o two \in Seq(S) /\ Len(one \o two) = 2
    BY <1>3, <2>1, ConcatProperties
  <2>. QED BY <1>3, <2>2, <2>3
<1>5. PICK both : both = one \o two
  OBVIOUS
<1>6. both \in Seq(S) /\ Len(both) = 2 /\ both[1] = x /\ both[2] = y
  BY <1>4, <1>5
<1>7. both = <<x, y>>
  BY <1>6
<1>. QED BY <1>2, <1>5, <1>7

\* The groups before the last one are left alone.
LEMMA AddJamoLast ==
  ASSUME NEW K, NEW a \in Seq(Some(K)), NEW l \in Some(K), NEW key \in K
  PROVE  AddJamo(Append(a, l), key) = a \o Ending(l, key)
<1>1. PICK groups : groups = Append(a, l)
  OBVIOUS
<1>2. groups # <<>> /\ Last(groups) = l /\ Front(groups) = a
  <2>1. LastProperties(a, l, Some(K))
    BY LastOfAppend
  <2>. QED BY <1>1, <2>1 DEF LastProperties
<1>3. Append(l, key) \in Some(K) /\ l \in Seq(K) /\ <<key>> \in Some(K)
  <2>1. Append(l, key) \in Seq(K) /\ Append(l, key) # <<>>
    BY AppendProperties DEF Some
  <2>. QED BY <2>1 DEF Some
<1>4. CASE Takes(l, key)
  <2>0. /\ <<KindsOf(l), key.kind>> \in {<<<<"C", "V">>, "C">>, <<<<"C">>, "V">>}
        /\ (IF groups = <<>> THEN <<>> ELSE Last(groups)) = l
    BY <1>2, <1>4 DEF Takes
  <2>1. AddJamo(groups, key) = Append(a, Append(l, key))
    <3>1. AddJamo(groups, key)
            = CASE <<KindsOf(l), key.kind>> \in {<<<<"C", "V">>, "C">>, <<<<"C">>, "V">>} ->
                     Append(Front(groups), Append(l, key))
                [] <<KindsOf(l), key.kind>> = <<<<"C", "V", "C">>, "V">> ->
                     Append(Front(groups), Front(l)) \o <<<<Last(l), key>>>>
                [] OTHER -> Append(groups, <<key>>)
      BY <2>0, Zenon DEF AddJamo
    <3>2. <<KindsOf(l), key.kind>> # <<<<"C", "V", "C">>, "V">>
      <4>1. <<"C", "V", "C">> # <<"C", "V">> /\ <<"C", "V", "C">> # <<"C">>
        OBVIOUS
      <4>. QED BY <2>0, <4>1
    <3>. QED BY <1>2, <2>0, <3>1, <3>2
  <2>2. Append(a, Append(l, key)) = a \o <<Append(l, key)>>
    BY <1>3, AppendIsConcat
  <2>3. Ending(l, key) = <<Append(l, key)>>
    BY <1>4 DEF Ending
  <2>. QED BY <1>1, <2>1, <2>2, <2>3
<1>5. CASE Yields(l, key) /\ ~Takes(l, key)
  <2>1. PICK f, m : f = Front(l) /\ m = <<Last(l), key>>
    OBVIOUS
  <2>2. f \in Some(K) /\ m \in Some(K)
    BY <1>5, <2>1, YieldsThree DEF Some
  <2>3. AddJamo(groups, key) = Append(a, f) \o <<m>>
    BY <1>2, <1>5, <2>1 DEF AddJamo, Takes, Yields
  <2>4. Ending(l, key) = <<f, m>>
    BY <1>5, <2>1 DEF Ending
  <2>5. Append(a, f) = a \o <<f>> /\ <<f>> \in Seq(Some(K)) /\ <<m>> \in Seq(Some(K))
    BY <2>2, AppendIsConcat
  <2>6. Regroups(a, <<f>>, <<m>>)
    BY <2>5, RegroupedAny
  <2>7. <<f>> \o <<m>> = <<f, m>>
    BY <2>2, PairJoined
  <2>8. AddJamo(groups, key) = a \o <<f, m>>
    BY <2>3, <2>5, <2>6, <2>7 DEF Regroups
  <2>. QED BY <1>1, <2>4, <2>8
<1>6. CASE ~Yields(l, key) /\ ~Takes(l, key)
  <2>1. PICK n : n = <<key>>
    OBVIOUS
  <2>2. AddJamo(groups, key) = Append(groups, n)
    BY <1>2, <1>6, <2>1 DEF AddJamo, Takes, Yields
  <2>3. Ending(l, key) = <<l, n>>
    BY <1>6, <2>1 DEF Ending
  <2>4. /\ groups = a \o <<l>> /\ groups \in Seq(Some(K))
        /\ <<l>> \in Seq(Some(K)) /\ <<n>> \in Seq(Some(K))
    BY <1>1, <1>3, <2>1, AppendIsConcat, AppendProperties
  <2>5. Append(groups, n) = groups \o <<n>>
    BY <1>3, <2>1, <2>4, AppendIsConcat
  <2>6. Regroups(a, <<l>>, <<n>>)
    BY <2>4, RegroupedAny
  <2>7. <<l>> \o <<n>> = <<l, n>>
    BY <1>3, <2>1, PairJoined
  <2>8. AddJamo(groups, key) = a \o <<l, n>>
    BY <2>2, <2>4, <2>5, <2>6, <2>7 DEF Regroups
  <2>. QED BY <1>1, <2>3, <2>8
<1>. QED BY <1>4, <1>5, <1>6

LEMMA AddJamoFirst ==
  ASSUME NEW key PROVE AddJamo(<<>>, key) = <<<<key>>>>
<1>1. PICK none : none = <<>>
  OBVIOUS
<1>2. KindsOf(none) = <<>>
  BY <1>1 DEF KindsOf
<1>3. ~Takes(none, key) /\ ~Yields(none, key)
  <2>1. <<>> # <<"C", "V">> /\ <<>> # <<"C">> /\ <<>> # <<"C", "V", "C">>
    OBVIOUS
  <2>. QED BY <1>2, <2>1 DEF Takes, Yields
<1>4. AddJamo(none, key) = Append(none, <<key>>)
  BY <1>1, <1>3 DEF AddJamo, Takes, Yields
<1>5. Append(none, <<key>>) = <<<<key>>>>
  BY <1>1
<1>. QED BY <1>1, <1>4, <1>5

-----------------------------------------------------------------------------
(* Syllables, the recursive function under the detectors. *)

LEMMA SomeInSeq ==
  ASSUME NEW K, NEW g \in Seq(Some(K))
  PROVE  g \in Seq(Seq(K))
<1>1. Some(K) \subseteq Seq(K)
  BY DEF Some
<1>. QED BY <1>1, SeqMonotonic

LEMMA FlattenPair ==
  ASSUME NEW V, NEW s \in Seq(V), NEW t \in Seq(V)
  PROVE  FlattenSeq(<<s, t>>) = s \o t
<1>1. <<s>> \in Seq(Seq(V)) /\ <<t>> \in Seq(Seq(V))
  OBVIOUS
<1>2. <<s>> \o <<t>> = <<s, t>>
  BY PairJoined
<1>3. FlattenSeq(<<s>> \o <<t>>) = FlattenSeq(<<s>>) \o FlattenSeq(<<t>>)
  BY <1>1, FlattenConcat
<1>4. FlattenSeq(<<s>>) = s /\ FlattenSeq(<<t>>) = t
  BY FlattenOne
<1>. QED BY <1>2, <1>3, <1>4

\* An ending has the keys of the syllable and the new one, in this order.
LEMMA EndingText ==
  ASSUME NEW K, NEW l \in Some(K), NEW key \in K, NEW e, e = Ending(l, key)
  PROVE  e \in Seq(Some(K)) /\ e # <<>> /\ FlattenSeq(e) = Append(l, key)
<1>1. l \in Seq(K)
  BY DEF Some
<1>2. PICK w : w = Append(l, key)
  OBVIOUS
<1>3. w \in Some(K) /\ w \in Seq(K)
  <2>1. Append(l, key) \in Seq(K) /\ Append(l, key) # <<>>
    BY <1>1, AppendProperties
  <2>. QED BY <1>2, <2>1 DEF Some
<1>4. Endings(l, key, e, K)
  BY EndingCases
<1>5. CASE e = <<w>>
  <2>1. e \in Seq(Some(K)) /\ e # <<>>
    BY <1>3, <1>5
  <2>2. FlattenSeq(e) = w
    BY <1>3, <1>5, FlattenOne
  <2>. QED BY <1>2, <2>1, <2>2
<1>6. CASE e = <<l, <<key>>>>
  <2>1. PICK n : n = <<key>>
    OBVIOUS
  <2>2. n \in Seq(K) /\ n \in Some(K)
    BY <2>1 DEF Some
  <2>3. e \in Seq(Some(K)) /\ e # <<>>
    BY <1>6, <2>1, <2>2
  <2>4. FlattenSeq(e) = l \o n
    BY <1>1, <1>6, <2>1, <2>2, FlattenPair
  <2>5. w = l \o n
    BY <1>1, <1>2, <2>1, AppendIsConcat
  <2>. QED BY <1>2, <2>3, <2>4, <2>5
<1>7. CASE /\ e = <<Front(l), <<Last(l), key>>>>
           /\ Front(l) \in Some(K) /\ Last(l) \in K /\ l = Append(Front(l), Last(l))
  <2>1. PICK f, m, n : f = Front(l) /\ m = Last(l) /\ n = <<m, key>>
    OBVIOUS
  <2>2. /\ f \in Some(K) /\ f \in Seq(K) /\ m \in K /\ l = Append(f, m)
        /\ e = <<f, n>>
    BY <1>7, <2>1 DEF Some
  <2>3. n \in Seq(K) /\ n \in Some(K)
    BY <2>1, <2>2 DEF Some
  <2>4. e \in Seq(Some(K)) /\ e # <<>>
    <3>1. e = <<f, n>> /\ f \in Some(K)
      BY <2>2
    <3>2. <<f, n>> \in Seq(Some(K)) /\ <<f, n>> # <<>>
      BY <2>3, <3>1
    <3>. QED BY <3>1, <3>2
  <2>5. FlattenSeq(e) = f \o n
    BY <2>2, <2>3, FlattenPair
  <2>6. l = f \o <<m>> /\ w = l \o <<key>>
    BY <1>1, <1>2, <2>2, AppendIsConcat
  <2>7. n = <<m>> \o <<key>>
    BY <2>1, <2>2, PairJoined
  <2>8. Regroups(f, <<m>>, <<key>>)
    <3>1. <<m>> \in Seq(K) /\ <<key>> \in Seq(K)
      BY <2>2
    <3>. QED BY <2>2, <3>1, RegroupedAny
  <2>9. f \o n = w
    BY <2>6, <2>7, <2>8 DEF Regroups
  <2>. QED BY <1>2, <2>4, <2>5, <2>9
<1>. QED BY <1>2, <1>4, <1>5, <1>6, <1>7 DEF Endings

\* One key more: the groups are groups of these keys still.
LEMMA AddJamoText ==
  ASSUME NEW K, NEW g \in Seq(Some(K)), NEW key \in K, NEW r, r = AddJamo(g, key)
  PROVE  r \in Seq(Some(K)) /\ r # <<>> /\ FlattenSeq(r) = FlattenSeq(g) \o <<key>>
<1>1. CASE g = <<>>
  <2>1. PICK n : n = <<key>>
    OBVIOUS
  <2>2. n \in Some(K) /\ n \in Seq(K)
    BY <2>1 DEF Some
  <2>3. r = <<n>>
    BY <1>1, <2>1, AddJamoFirst
  <2>4. FlattenSeq(r) = n
    BY <2>2, <2>3, FlattenOne
  <2>5. FlattenSeq(g) = <<>> /\ <<>> \o n = n
    BY <1>1, <2>2, FlattenNone, ConcatEmptySeq
  <2>. QED BY <2>1, <2>2, <2>3, <2>4, <2>5
<1>2. CASE g # <<>>
  <2>1. PICK a \in Seq(Some(K)), l \in Some(K) : g = Append(a, l)
    BY <1>2, SequenceEmptyOrAppend
  <2>2. PICK e : e = Ending(l, key)
    OBVIOUS
  <2>3. r = a \o e
    BY <2>1, <2>2, AddJamoLast
  <2>4. e \in Seq(Some(K)) /\ e # <<>> /\ FlattenSeq(e) = Append(l, key)
    BY <2>2, EndingText
  <2>5. r \in Seq(Some(K)) /\ r # <<>>
    BY <2>3, <2>4, ConcatProperties, ConcatEqualIffEmpty
  <2>6. l \in Seq(K) /\ a \in Seq(Seq(K)) /\ e \in Seq(Seq(K))
    BY <2>4, SomeInSeq DEF Some
  <2>7. FlattenSeq(r) = FlattenSeq(a) \o Append(l, key)
    BY <2>3, <2>4, <2>6, FlattenConcat
  <2>8. FlattenSeq(g) = FlattenSeq(a) \o l
    BY <2>1, <2>6, FlattenAppend
  <2>9. Append(l, key) = l \o <<key>>
    BY <2>6, AppendIsConcat
  <2>10. Regroups(FlattenSeq(a), l, <<key>>)
    <3>1. FlattenSeq(a) \in Seq(K) /\ <<key>> \in Seq(K)
      BY <2>6, FlattenType
    <3>. QED BY <2>6, <3>1, RegroupedAny
  <2>11. FlattenSeq(r) = FlattenSeq(g) \o <<key>>
    BY <2>7, <2>8, <2>9, <2>10 DEF Regroups
  <2>. QED BY <2>5, <2>11
<1>. QED BY <1>1, <1>2

\* made[n]: the syllables of the first n keys.
Made(made, keys, K) ==
  /\ made \in [0..Len(keys) -> Seq(Some(K))] /\ made[0] = <<>>
  /\ \A n \in 1..Len(keys) : made[n] = AddJamo(made[n - 1], keys[n])

LEMMA SyllablesMade ==
  ASSUME NEW K, NEW keys \in Seq(K)
  PROVE  \E made : Made(made, keys, K) /\ Syllables(keys) = made[Len(keys)]
<1>. DEFINE N == Len(keys)
            W == Seq(Some(K))
            step == [n \in 1..N |-> [g \in W |-> AddJamo(g, keys[n])]]
            Solves(f) == f = [n \in 0..N |-> IF n = 0 THEN <<>> ELSE AddJamo(f[n - 1], keys[n])]
            built == CHOOSE f : Solves(f)
<1>1. N \in Nat /\ <<>> \in W /\ \A n \in 1..N : keys[n] \in K
  OBVIOUS
<1>2. \A n \in 1..N, g \in W : AddJamo(g, keys[n]) \in W
  <2>. TAKE n \in 1..N, g \in W
  <2>1. keys[n] \in K /\ g \in Seq(Some(K))
    BY <1>1
  <2>. QED BY <2>1, AddJamoText
<1>3. /\ step \in [1..N -> [W -> W]]
      /\ \A n \in 1..N, g \in W : step[n][g] = AddJamo(g, keys[n])
  <2>. HIDE DEF W, N
  <2>. QED BY <1>2
<1>. HIDE DEF W, N, step
<1>4. PICK made : Computes(made, N, W, <<>>, step)
  BY <1>1, <1>3, Iterates
<1>5. Made(made, keys, K)
  <2>1. \A n \in 1..N : n - 1 \in 0..N
    BY <1>1
  <2>2. \A n \in 1..N : made[n] = AddJamo(made[n - 1], keys[n])
    BY <1>3, <1>4, <2>1 DEF Computes
  <2>. QED BY <1>4, <2>2 DEF Made, Computes, N, W
<1>6. Solves(made)
  <2>1. \A n \in 0..N : made[n] = IF n = 0 THEN <<>> ELSE AddJamo(made[n - 1], keys[n])
    <3>. TAKE n \in 0..N
    <3>1. CASE n = 0
      BY <1>5, <3>1 DEF Made
    <3>2. CASE n # 0
      <4>1. n \in 1..Len(keys)
        BY <1>1, <3>2 DEF N
      <4>. QED BY <1>5, <3>2, <4>1 DEF Made
    <3>. QED BY <3>1, <3>2
  <2>2. made \in [0..N -> W]
    BY <1>4 DEF Computes
  <2>. QED BY <2>1, <2>2
<1>7. Solves(built)
  <2>. HIDE DEF Solves
  <2>. QED BY <1>6
<1>8. Syllables(keys) = built[N]
  BY DEF Syllables, N
<1>. HIDE DEF built
<1>9. \A n \in 0..N : built[n] = IF n = 0 THEN <<>> ELSE AddJamo(built[n - 1], keys[n])
  <2>. DEFINE body(n) == IF n = 0 THEN <<>> ELSE AddJamo(built[n - 1], keys[n])
  <2>1. built = [n \in 0..N |-> body(n)]
    BY <1>7
  <2>. HIDE DEF body, Solves
  <2>2. \A n \in 0..N : built[n] = body(n)
    BY <2>1
  <2>. QED BY <2>2 DEF body
<1>. DEFINE S == {n \in Nat : n <= N => built[n] = made[n]}
<1>10. 0 \in S
  <2>1. 0 \in 0..N
    BY <1>1
  <2>2. built[0] = <<>> /\ made[0] = <<>>
    BY <1>5, <1>9, <2>1 DEF Made
  <2>. QED BY <2>2
<1>11. ASSUME NEW n \in Nat, n \in S PROVE n + 1 \in S
  <2>. SUFFICES ASSUME n + 1 <= N PROVE built[n + 1] = made[n + 1]
    OBVIOUS
  <2>1. n + 1 \in 0..N /\ n + 1 \in 1..Len(keys) /\ (n + 1) - 1 = n /\ n + 1 # 0
    BY <1>1 DEF N
  <2>2. built[n] = made[n]
    BY <1>1, <1>11
  <2>3. built[n + 1] = AddJamo(built[(n + 1) - 1], keys[n + 1])
    BY <1>9, <2>1
  <2>4. made[n + 1] = AddJamo(made[(n + 1) - 1], keys[n + 1])
    BY <1>5, <2>1 DEF Made
  <2>. QED BY <2>1, <2>2, <2>3, <2>4
<1>. HIDE DEF S
<1>12. \A n \in Nat : n \in S
  BY <1>10, <1>11, NatInduct
<1>13. built[N] = made[N]
  BY <1>1, <1>12 DEF S
<1>. QED BY <1>5, <1>8, <1>13 DEF N

LEMMA SyllablesNone == Syllables(<<>>) = <<>>
<1>0. PICK none : none = <<>>
  OBVIOUS
<1>1. none \in Seq({}) /\ Len(none) = 0
  BY <1>0
<1>2. PICK made : Made(made, none, {}) /\ Syllables(none) = made[Len(none)]
  BY <1>1, SyllablesMade
<1>3. made[0] = <<>>
  BY <1>2 DEF Made
<1>. QED BY <1>0, <1>1, <1>2, <1>3

LEMMA SyllablesType ==
  ASSUME NEW K, NEW keys \in Seq(K)
  PROVE  Syllables(keys) \in Seq(Some(K))
<1>1. PICK made : Made(made, keys, K) /\ Syllables(keys) = made[Len(keys)]
  BY SyllablesMade
<1>2. Len(keys) \in 0..Len(keys)
  OBVIOUS
<1>. QED BY <1>1, <1>2 DEF Made

LEMMA SyllablesAppend ==
  ASSUME NEW K, NEW keys \in Seq(K), NEW key \in K
  PROVE  Syllables(Append(keys, key)) = AddJamo(Syllables(keys), key)
<1>. DEFINE more == Append(keys, key)
            N    == Len(keys)
<1>1. /\ more \in Seq(K) /\ Len(more) = N + 1 /\ N \in Nat
      /\ \A i \in 1..N : more[i] = keys[i]
      /\ more[N + 1] = key
  BY AppendProperties
<1>2. PICK f : Made(f, keys, K) /\ Syllables(keys) = f[N]
  BY SyllablesMade
<1>. HIDE DEF more
<1>3. PICK g : Made(g, more, K) /\ Syllables(more) = g[N + 1]
  BY <1>1, SyllablesMade
<1>4. /\ f[0] = <<>> /\ \A n \in 1..N : f[n] = AddJamo(f[n - 1], keys[n])
      /\ g[0] = <<>> /\ \A n \in 1..(N + 1) : g[n] = AddJamo(g[n - 1], more[n])
  BY <1>1, <1>2, <1>3 DEF Made
<1>. HIDE DEF N
<1>. DEFINE S == {m \in Nat : m <= N => g[m] = f[m]}
<1>5. 0 \in S
  BY <1>4
<1>6. ASSUME NEW n \in Nat, n \in S PROVE n + 1 \in S
  <2>. SUFFICES ASSUME n + 1 <= N PROVE g[n + 1] = f[n + 1]
    OBVIOUS
  <2>1. n + 1 \in 1..N /\ n + 1 \in 1..(N + 1) /\ (n + 1) - 1 = n /\ g[n] = f[n]
    BY <1>1, <1>6
  <2>2. /\ g[n + 1] = AddJamo(g[(n + 1) - 1], more[n + 1])
        /\ f[n + 1] = AddJamo(f[(n + 1) - 1], keys[n + 1])
        /\ more[n + 1] = keys[n + 1]
    BY <1>1, <1>4, <2>1
  <2>. QED BY <2>1, <2>2
<1>. HIDE DEF S
<1>7. \A n \in Nat : n \in S
  BY <1>5, <1>6, NatInduct
<1>8. g[N] = f[N]
  BY <1>1, <1>7 DEF S
<1>9. g[N + 1] = AddJamo(g[N], key)
  <2>1. N + 1 \in 1..(N + 1) /\ (N + 1) - 1 = N
    BY <1>1
  <2>. QED BY <1>1, <1>4, <2>1
<1>. QED BY <1>2, <1>3, <1>8, <1>9 DEF more

-----------------------------------------------------------------------------
(* Typing a beginning or an ending again gives the syllables it had. *)

\* No key is lost or moved.
LEMMA SyllablesText ==
  ASSUME NEW K
  PROVE  \A keys \in Seq(K) : FlattenSeq(Syllables(keys)) = keys
<1>. DEFINE T == {keys \in Seq(K) : FlattenSeq(Syllables(keys)) = keys}
<1>1. <<>> \in T
  BY SyllablesNone, FlattenNone, EmptySeq
<1>2. ASSUME NEW s \in Seq(K), NEW e \in K, s \in T PROVE Append(s, e) \in T
  <2>1. Syllables(s) \in Seq(Some(K))
    BY SyllablesType
  <2>2. FlattenSeq(AddJamo(Syllables(s), e)) = FlattenSeq(Syllables(s)) \o <<e>>
    BY <2>1, AddJamoText
  <2>3. Syllables(Append(s, e)) = AddJamo(Syllables(s), e)
    BY SyllablesAppend
  <2>4. FlattenSeq(Syllables(s)) = s
    BY <1>2
  <2>5. Append(s, e) = s \o <<e>> /\ Append(s, e) \in Seq(K)
    BY AppendIsConcat, AppendProperties
  <2>. QED BY <2>2, <2>3, <2>4, <2>5
<1>. HIDE DEF T
<1>3. \A keys \in Seq(K) : keys \in T
  BY <1>1, <1>2, SeqInduct
<1>. QED BY <1>3 DEF T

LEMMA SyllablesSome ==
  ASSUME NEW K, NEW keys \in Some(K)
  PROVE  Syllables(keys) # <<>>
<1>1. keys \in Seq(K) /\ keys # <<>>
  BY DEF Some
<1>2. FlattenSeq(Syllables(keys)) = keys
  BY <1>1, SyllablesText
<1>. QED BY <1>1, <1>2, FlattenNone

LEMMA SyllablesOne ==
  ASSUME NEW K, NEW key \in K
  PROVE  Syllables(<<key>>) = <<<<key>>>>
<1>0. PICK none : none = <<>>
  OBVIOUS
<1>1. none \in Seq(K) /\ <<key>> = Append(none, key)
  BY <1>0
<1>2. Syllables(Append(none, key)) = AddJamo(Syllables(none), key)
  BY <1>1, SyllablesAppend
<1>3. Syllables(none) = <<>>
  BY <1>0, SyllablesNone
<1>. QED BY <1>1, <1>2, <1>3, AddJamoFirst

\* Groups that are the syllables of their keys
Spelled(groups) == Syllables(FlattenSeq(groups)) = groups

\* One key more after groups that are spelled.
LEMMA SpelledMore ==
  ASSUME NEW K, NEW a \in Seq(Some(K)), NEW l \in Some(K), NEW key \in K,
         Spelled(Append(a, l)), NEW e, e = Ending(l, key)
  PROVE  Spelled(a \o e)
<1>1. PICK g : g = Append(a, l)
  OBVIOUS
<1>2. g \in Seq(Some(K)) /\ g \in Seq(Seq(K)) /\ a \in Seq(Seq(K)) /\ l \in Seq(K)
  <2>1. g \in Seq(Some(K))
    BY <1>1, AppendProperties
  <2>. QED BY <2>1, SomeInSeq DEF Some
<1>3. PICK keys : keys = FlattenSeq(g)
  OBVIOUS
<1>4. keys \in Seq(K) /\ Syllables(keys) = g
  BY <1>1, <1>2, <1>3, FlattenType DEF Spelled
<1>5. Syllables(Append(keys, key)) = a \o e
  <2>1. Syllables(Append(keys, key)) = AddJamo(g, key)
    BY <1>4, SyllablesAppend
  <2>2. AddJamo(g, key) = a \o e
    BY <1>1, AddJamoLast
  <2>. QED BY <2>1, <2>2
<1>6. FlattenSeq(a \o e) = Append(keys, key)
  <2>1. Append(keys, key) \in Seq(K)
    BY <1>4, AppendProperties
  <2>. QED BY <1>5, <2>1, SyllablesText
<1>. QED BY <1>5, <1>6 DEF Spelled

\* When two sequences are cut differently, the longer ending holds the other.
Cut(a, b, x, y, S) == \E m \in Seq(S) : b = m \o y /\ x = a \o m

LEMMA CutLonger ==
  ASSUME NEW S, NEW a \in Seq(S), NEW b \in Seq(S), NEW x \in Seq(S), NEW y \in Seq(S),
         a \o b = x \o y, Len(y) <= Len(b)
  PROVE  Cut(a, b, x, y, S)
<1>. DEFINE n == Len(b) - Len(y)
            m == SubSeq(b, 1, n)
            r == SubSeq(b, n + 1, Len(b))
<1>0. /\ Len(a) \in Nat /\ Len(b) \in Nat /\ Len(x) \in Nat /\ Len(y) \in Nat
      /\ n \in Nat /\ n <= Len(b) /\ n \in Int
  OBVIOUS
<1>1. Len(a) + Len(b) = Len(x) + Len(y)
  <2>1. Len(a \o b) = Len(a) + Len(b) /\ Len(x \o y) = Len(x) + Len(y)
    BY ConcatProperties
  <2>. QED BY <2>1
<1>2. m \in Seq(S) /\ Len(m) = n /\ \A i \in 1..n : m[i] = b[i]
  <2>1. \A i \in 1..n : b[i] \in S
    OBVIOUS
  <2>2. /\ SubSeq(b, 1, n) \in Seq(S)
        /\ Len(SubSeq(b, 1, n)) = IF 1 <= n THEN n - 1 + 1 ELSE 0
        /\ \A i \in 1..(n - 1 + 1) : SubSeq(b, 1, n)[i] = b[1 + i - 1]
    <3>. HIDE DEF n
    <3>. QED BY <1>0, <2>1, SubSeqProperties
  <2>. HIDE DEF n
  <2>. QED BY <1>0, <2>2
<1>. HIDE DEF m
<1>3. \A i \in 1..(Len(a) + Len(b)) :
        (IF i <= Len(a) THEN a[i] ELSE b[i - Len(a)])
          = (IF i <= Len(x) THEN x[i] ELSE y[i - Len(x)])
  <2>. TAKE i \in 1..(Len(a) + Len(b))
  <2>1. (a \o b)[i] = IF i <= Len(a) THEN a[i] ELSE b[i - Len(a)]
    BY ConcatProperties
  <2>2. i \in 1..(Len(x) + Len(y))
    BY <1>1
  <2>3. (x \o y)[i] = IF i <= Len(x) THEN x[i] ELSE y[i - Len(x)]
    BY <2>2, ConcatProperties
  <2>. QED BY <2>1, <2>3
<1>4. x = a \o m
  <2>1. a \o m \in Seq(S) /\ Len(a \o m) = Len(x)
    BY <1>0, <1>1, <1>2, ConcatProperties
  <2>2. ASSUME NEW i \in 1..Len(x) PROVE x[i] = (a \o m)[i]
    <3>1. i \in 1..(Len(a) + Len(b)) /\ i \in 1..(Len(a) + Len(m))
      BY <1>0, <1>1, <1>2
    <3>2. x[i] = IF i <= Len(a) THEN a[i] ELSE b[i - Len(a)]
      BY <1>0, <1>3, <3>1
    <3>3. (a \o m)[i] = IF i <= Len(a) THEN a[i] ELSE m[i - Len(a)]
      BY <1>2, <3>1, ConcatProperties
    <3>4. i > Len(a) => m[i - Len(a)] = b[i - Len(a)]
      <4>. SUFFICES ASSUME i > Len(a) PROVE m[i - Len(a)] = b[i - Len(a)]
        OBVIOUS
      <4>1. i - Len(a) \in 1..n
        BY <1>0, <1>1
      <4>. QED BY <1>2, <4>1
    <3>. QED BY <1>0, <3>1, <3>2, <3>3, <3>4
  <2>. QED BY <2>1, <2>2, SeqEqual
<1>5. b = m \o y
  <2>1. m \o y \in Seq(S) /\ Len(m \o y) = Len(b)
    BY <1>0, <1>2, ConcatProperties
  <2>2. ASSUME NEW i \in 1..Len(b) PROVE b[i] = (m \o y)[i]
    <3>1. i \in 1..(Len(m) + Len(y)) /\ i + Len(a) \in 1..(Len(a) + Len(b))
      BY <1>0, <1>2
    <3>2. (m \o y)[i] = IF i <= Len(m) THEN m[i] ELSE y[i - Len(m)]
      BY <1>2, <3>1, ConcatProperties
    <3>3. CASE i <= Len(m)
      BY <1>0, <1>2, <3>2, <3>3
    <3>4. CASE i > Len(m)
      <4>1. /\ ~(i + Len(a) <= Len(a)) /\ ~(i + Len(a) <= Len(x))
            /\ (i + Len(a)) - Len(a) = i /\ (i + Len(a)) - Len(x) = i - Len(m)
        <5>1. Len(m) = Len(b) - Len(y)
          BY <1>2
        <5>2. PICK p, q, u, v, w \in Nat :
                p = Len(a) /\ q = Len(b) /\ u = Len(x) /\ v = Len(y) /\ w = Len(m)
          BY <1>0, <1>2
        <5>3. p + q = u + v /\ w = q - v /\ i > w /\ i \in Nat
          BY <1>1, <3>4, <5>1, <5>2
        <5>4. ~(i + p <= p) /\ ~(i + p <= u) /\ (i + p) - p = i /\ (i + p) - u = i - w
          BY <5>3
        <5>. QED BY <5>2, <5>4
      <4>2. b[i] = y[i - Len(m)]
        BY <1>3, <3>1, <4>1
      <4>. QED BY <1>0, <1>2, <3>2, <3>4, <4>2
    <3>. QED BY <1>0, <1>2, <3>3, <3>4
  <2>. QED BY <2>1, <2>2, SeqEqual
<1>. QED BY <1>2, <1>4, <1>5 DEF Cut

LEMMA SpelledNone == Spelled(<<>>)
BY FlattenNone, SyllablesNone DEF Spelled

LEMMA SpelledNew ==
  ASSUME NEW K, NEW key \in K
  PROVE  Spelled(<<<<key>>>>)
<1>1. <<key>> \in Seq(K)
  OBVIOUS
<1>2. FlattenSeq(<<<<key>>>>) = <<key>>
  BY <1>1, FlattenOne
<1>. QED BY <1>2, SyllablesOne DEF Spelled

LEMMA SpelledPair ==
  ASSUME NEW K, NEW m \in K, NEW key \in K, m.kind = "C", key.kind = "V"
  PROVE  Spelled(<<<<m, key>>>>)
<1>0. PICK none, one, two : none = <<>> /\ one = <<m>> /\ two = <<m, key>>
  OBVIOUS
<1>1. /\ one \in Seq(K) /\ one \in Some(K) /\ two \in Seq(K) /\ two = Append(one, key)
      /\ none \in Seq(Some(K)) /\ <<one>> = Append(none, one)
  BY <1>0 DEF Some
<1>2. Takes(one, key)
  <2>1. KindsOf(one) = <<"C">>
    BY <1>0 DEF KindsOf
  <2>. QED BY <2>1 DEF Takes
<1>3. Ending(one, key) = <<two>>
  BY <1>1, <1>2 DEF Ending
<1>4. Syllables(two) = AddJamo(Syllables(one), key)
  BY <1>1, SyllablesAppend
<1>5. Syllables(one) = <<one>>
  BY <1>0, SyllablesOne
<1>6. AddJamo(<<one>>, key) = none \o <<two>>
  BY <1>1, <1>3, AddJamoLast
<1>7. none \o <<two>> = <<two>>
  <2>1. <<two>> \in Seq(Seq(K))
    BY <1>1
  <2>. QED BY <1>0, <2>1, ConcatEmptySeq
<1>8. FlattenSeq(<<two>>) = two
  BY <1>1, FlattenOne
<1>9. Spelled(<<two>>)
  BY <1>4, <1>5, <1>6, <1>7, <1>8 DEF Spelled
<1>. QED BY <1>0, <1>9

\* A part of an ending that is not all of it is spelled by itself.
LEMMA SpelledEnding ==
  ASSUME NEW K, NEW l \in Some(K), NEW key \in K, NEW e, e = Ending(l, key),
         NEW m \in Seq(Some(K)), NEW b \in Seq(Some(K)), e = m \o b, Len(b) < Len(e)
  PROVE  Spelled(b)
<1>0. Len(b) \in Nat /\ Len(m) \in Nat /\ Len(e) = Len(m) + Len(b)
  BY ConcatProperties
<1>1. CASE Len(b) = 0
  <2>1. b = <<>>
    BY <1>1
  <2>. QED BY <2>1, SpelledNone
<1>2. ASSUME NEW p, NEW q, e = <<p, q>>, Len(b) # 0
      PROVE  b = <<q>>
  <2>1. Len(e) = 2 /\ e[2] = q
    BY <1>2
  <2>2. Len(b) = 1 /\ Len(m) = 1
    <3>1. PICK u, v, w : u = Len(b) /\ v = Len(m) /\ w = Len(e)
      OBVIOUS
    <3>2. u \in Nat /\ v \in Nat /\ w = v + u /\ u < w /\ u # 0 /\ w = 2
      BY <1>0, <1>2, <2>1, <3>1
    <3>3. u = 1 /\ v = 1
      BY <3>2
    <3>. QED BY <3>1, <3>3
  <2>3. \A i \in 1..(Len(m) + Len(b)) :
          (m \o b)[i] = IF i <= Len(m) THEN m[i] ELSE b[i - Len(m)]
    BY ConcatProperties
  <2>4. (m \o b)[2] = b[1]
    BY <2>2, <2>3
  <2>5. b[1] = q
    BY <2>1, <2>4
  <2>. QED BY <2>2, <2>5
<1>3. CASE Len(b) # 0
  <2>1. Endings(l, key, e, K)
    BY EndingCases
  <2>2. CASE e = <<Append(l, key)>>
    <3>1. Len(e) = 1
      BY <2>2
    <3>. QED BY <1>0, <1>3, <3>1
  <2>3. CASE /\ e = <<Front(l), <<Last(l), key>>>> /\ Last(l) \in K
             /\ Last(l).kind = "C" /\ key.kind = "V"
    <3>1. b = <<<<Last(l), key>>>>
      BY <1>2, <1>3, <2>3
    <3>. QED BY <2>3, <3>1, SpelledPair
  <2>4. CASE e = <<l, <<key>>>>
    <3>1. b = <<<<key>>>>
      BY <1>2, <1>3, <2>4
    <3>. QED BY <3>1, SpelledNew
  <2>. QED BY <2>1, <2>2, <2>3, <2>4 DEF Endings
<1>. QED BY <1>1, <1>3

\* What follows a beginning of the syllables is what its own keys give.
Remainders(keys, K) ==
  \A a, b \in Seq(Some(K)) : Syllables(keys) = a \o b => Spelled(b)

LEMMA RemaindersMore ==
  ASSUME NEW K, NEW s \in Seq(K), NEW key \in K, Remainders(s, K)
  PROVE  Remainders(Append(s, key), K)
<1>. SUFFICES ASSUME NEW a \in Seq(Some(K)), NEW b \in Seq(Some(K)),
                     Syllables(Append(s, key)) = a \o b
              PROVE  Spelled(b)
  BY DEF Remainders
<1>0. Syllables(s) \in Seq(Some(K)) /\ Syllables(Append(s, key)) = AddJamo(Syllables(s), key)
  BY SyllablesType, SyllablesAppend
<1>1. PICK g : g = Syllables(s) /\ g \in Seq(Some(K))
  BY <1>0
<1>2. CASE g = <<>>
  <2>1. PICK r : r = <<<<key>>>>
    OBVIOUS
  <2>2. r \in Seq(Some(K)) /\ Len(r) = 1 /\ <<>> \in Seq(Some(K))
    <3>1. <<key>> \in Some(K)
      BY DEF Some
    <3>. QED BY <2>1, <3>1
  <2>3. a \o b = r
    BY <1>0, <1>1, <1>2, <2>1, AddJamoFirst
  <2>4. CASE Len(b) = 0
    <3>1. b = <<>>
      BY <2>4
    <3>. QED BY <3>1, SpelledNone
  <2>5. CASE Len(b) # 0
    <3>1. a \o b = <<>> \o r
      BY <2>2, <2>3, ConcatEmptySeq
    <3>2. Len(r) <= Len(b)
      BY <2>2, <2>5
    <3>3. PICK m \in Seq(Some(K)) : b = m \o r /\ <<>> = a \o m
      <4>1. PICK none : none = <<>>
        OBVIOUS
      <4>2. none \in Seq(Some(K)) /\ a \o b = none \o r
        BY <2>2, <3>1, <4>1
      <4>3. Cut(a, b, none, r, Some(K))
        BY <2>2, <3>2, <4>2, CutLonger
      <4>. QED BY <4>1, <4>3 DEF Cut
    <3>4. m = <<>>
      <4>1. a \o m = <<>> <=> a = <<>> /\ m = <<>>
        BY ConcatEqualIffEmpty
      <4>. QED BY <3>3, <4>1
    <3>5. b = r
      BY <2>2, <3>3, <3>4, ConcatEmptySeq
    <3>. QED BY <2>1, <3>5, SpelledNew
  <2>. QED BY <2>4, <2>5
<1>3. CASE g # <<>>
  <2>1. PICK c \in Seq(Some(K)), l \in Some(K) : g = Append(c, l)
    BY <1>1, <1>3, SequenceEmptyOrAppend
  <2>2. PICK e : e = Ending(l, key)
    OBVIOUS
  <2>3. a \o b = c \o e
    BY <1>0, <1>1, <2>1, <2>2, AddJamoLast
  <2>4. e \in Seq(Some(K))
    BY <2>2, EndingText
  <2>5. CASE Len(e) <= Len(b)
    <3>0. Cut(a, b, c, e, Some(K))
      BY <2>3, <2>4, <2>5, CutLonger
    <3>1. PICK m \in Seq(Some(K)) : b = m \o e /\ c = a \o m
      BY <3>0 DEF Cut
    <3>2. g = a \o Append(m, l)
      <4>1. g = (a \o m) \o <<l>> /\ Append(m, l) = m \o <<l>> /\ <<l>> \in Seq(Some(K))
        BY <2>1, <3>1, AppendIsConcat
      <4>2. Regroups(a, m, <<l>>)
        BY <4>1, RegroupedAny
      <4>. QED BY <4>1, <4>2 DEF Regroups
    <3>3. Append(m, l) \in Seq(Some(K))
      BY AppendProperties
    <3>4. Spelled(Append(m, l))
      BY <1>1, <3>2, <3>3 DEF Remainders
    <3>. QED BY <2>2, <3>1, <3>4, SpelledMore
  <2>6. CASE Len(b) < Len(e)
    <3>1. Len(b) <= Len(e)
      BY <2>4, <2>6
    <3>0. Cut(c, e, a, b, Some(K))
      BY <2>3, <2>4, <3>1, CutLonger
    <3>2. PICK m \in Seq(Some(K)) : e = m \o b /\ a = c \o m
      BY <3>0 DEF Cut
    <3>. QED BY <2>2, <2>6, <3>2, SpelledEnding
  <2>7. Len(e) \in Nat /\ Len(b) \in Nat
    BY <2>4
  <2>. QED BY <2>5, <2>6, <2>7
<1>. QED BY <1>2, <1>3

LEMMA SpelledSuffix ==
  ASSUME NEW K, NEW keys \in Seq(K), NEW a \in Seq(Some(K)), NEW b \in Seq(Some(K)),
         Syllables(keys) = a \o b
  PROVE  Spelled(b)
<1>. DEFINE T == {s \in Seq(K) : Remainders(s, K)}
<1>1. <<>> \in T
  <2>1. ASSUME NEW x \in Seq(Some(K)), NEW y \in Seq(Some(K)), <<>> = x \o y
        PROVE  y = <<>>
    <3>1. x \o y = <<>> <=> x = <<>> /\ y = <<>>
      BY ConcatEqualIffEmpty
    <3>. QED BY <2>1, <3>1
  <2>2. Remainders(<<>>, K)
    BY <2>1, SyllablesNone, SpelledNone DEF Remainders
  <2>. QED BY <2>2, EmptySeq
<1>2. ASSUME NEW s \in Seq(K), NEW e \in K, s \in T PROVE Append(s, e) \in T
  <2>1. Append(s, e) \in Seq(K)
    BY AppendProperties
  <2>. QED BY <1>2, <2>1, RemaindersMore
<1>. HIDE DEF T
<1>3. \A s \in Seq(K) : s \in T
  BY <1>1, <1>2, SeqInduct
<1>4. Remainders(keys, K)
  BY <1>3 DEF T
<1>. QED BY <1>4 DEF Remainders

\* The last syllable of a word, typed by itself, is one syllable.
LEMMA SpelledLast ==
  ASSUME NEW K, NEW keys \in Some(K)
  PROVE  /\ Last(Syllables(keys)) \in Some(K)
         /\ Front(Syllables(keys)) \in Seq(Some(K))
         /\ Syllables(keys) = Append(Front(Syllables(keys)), Last(Syllables(keys)))
         /\ Syllables(Last(Syllables(keys))) = <<Last(Syllables(keys))>>
<1>1. PICK g : g = Syllables(keys)
  OBVIOUS
<1>2. keys \in Seq(K) /\ g \in Seq(Some(K)) /\ g # <<>>
  BY <1>1, SyllablesType, SyllablesSome DEF Some
<1>3. PICK a \in Seq(Some(K)), l \in Some(K) : g = Append(a, l) /\ Last(g) = l /\ Front(g) = a
  BY <1>2, Ended
<1>4. g = a \o <<l>> /\ <<l>> \in Seq(Some(K))
  BY <1>3, AppendIsConcat
<1>5. Spelled(<<l>>)
  BY <1>1, <1>2, <1>4, SpelledSuffix
<1>6. FlattenSeq(<<l>>) = l
  <2>1. l \in Seq(K)
    BY DEF Some
  <2>. QED BY <2>1, FlattenOne
<1>7. Syllables(l) = <<l>>
  BY <1>5, <1>6 DEF Spelled
<1>. QED BY <1>1, <1>3, <1>7

\* A jamo less of one syllable leaves one syllable.
LEMMA SpelledFront ==
  ASSUME NEW K, NEW keys \in Some(K), Syllables(keys) = <<keys>>, Front(keys) # <<>>
  PROVE  Syllables(Front(keys)) = <<Front(keys)>>
<1>1. PICK f \in Seq(K), key \in K : keys = Append(f, key) /\ Front(keys) = f
  <2>1. keys \in Seq(K) /\ keys # <<>>
    BY DEF Some
  <2>. QED BY <2>1, Ended
<1>2. f \in Some(K)
  BY <1>1 DEF Some
<1>3. PICK g : g = Syllables(f)
  OBVIOUS
<1>4. g \in Seq(Some(K)) /\ g # <<>> /\ FlattenSeq(g) = f
  BY <1>2, <1>3, SyllablesType, SyllablesSome, SyllablesText
<1>5. PICK a \in Seq(Some(K)), l \in Some(K) : g = Append(a, l)
  BY <1>4, SequenceEmptyOrAppend
<1>6. PICK e : e = Ending(l, key)
  OBVIOUS
<1>7. e \in Seq(Some(K)) /\ e # <<>>
  BY <1>6, EndingText
<1>8. a \o e = <<keys>>
  <2>1. Syllables(keys) = AddJamo(g, key)
    BY <1>1, <1>3, SyllablesAppend
  <2>2. AddJamo(g, key) = a \o e
    BY <1>5, <1>6, AddJamoLast
  <2>. QED BY <2>1, <2>2
<1>9. a = <<>>
  <2>1. Len(a \o e) = Len(a) + Len(e)
    BY <1>7, ConcatProperties
  <2>2. Len(a \o e) = 1
    BY <1>8
  <2>3. Len(a) \in Nat /\ Len(e) \in Nat /\ Len(e) # 0
    BY <1>7
  <2>4. Len(a) = 0
    BY <2>1, <2>2, <2>3
  <2>. QED BY <2>4
<1>10. g = <<l>> /\ l \in Seq(K)
  BY <1>5, <1>9 DEF Some
<1>11. l = f
  BY <1>4, <1>10, FlattenOne
<1>. QED BY <1>1, <1>3, <1>10, <1>11

-----------------------------------------------------------------------------
(* Texts: the keys of their characters, and what is left without some keys. *)

Char(K) == [script : {"kor", "eng", "old"}, keys : Some(K)]

LEMMA CharFields ==
  ASSUME NEW K, NEW text \in Seq(Char(K)), NEW i \in 1..Len(text)
  PROVE  text[i] \in Char(K) /\ text[i].keys \in Some(K)
<1>1. \A c \in Char(K) : c.keys \in Some(K)
  BY DEF Char
<1>2. text[i] \in Char(K)
  OBVIOUS
<1>. QED BY <1>1, <1>2

GroupsOf(text, g, K) ==
  /\ g \in Seq(Some(K)) /\ Len(g) = Len(text) /\ g \in Seq(Seq(K))
  /\ \A i \in 1..Len(text) : g[i] = text[i].keys

LEMMA GroupsType ==
  ASSUME NEW K, NEW text \in Seq(Char(K)), NEW g, g = Groups(text)
  PROVE  GroupsOf(text, g, K)
<1>1. \A i \in 1..Len(text) : text[i].keys \in Some(K)
  BY CharFields
<1>2. g \in Seq(Some(K)) /\ Len(g) = Len(text) /\ \A i \in 1..Len(text) : g[i] = text[i].keys
  BY <1>1 DEF Groups
<1>. QED BY <1>2, SomeInSeq DEF GroupsOf

LEMMA GroupsConcat ==
  ASSUME NEW K, NEW s \in Seq(Char(K)), NEW t \in Seq(Char(K))
  PROVE  Groups(s \o t) = Groups(s) \o Groups(t)
<1>1. PICK f, g, h, u : f = Groups(s) /\ g = Groups(t) /\ u = s \o t /\ h = Groups(u)
  OBVIOUS
<1>2. /\ u \in Seq(Char(K)) /\ Len(u) = Len(s) + Len(t)
      /\ \A i \in 1..Len(u) : u[i] = IF i <= Len(s) THEN s[i] ELSE t[i - Len(s)]
  BY <1>1, ConcatProperties
<1>3. GroupsOf(s, f, K) /\ GroupsOf(t, g, K) /\ GroupsOf(u, h, K)
  BY <1>1, <1>2, GroupsType
<1>4. PICK r : r = f \o g
  OBVIOUS
<1>5. /\ r \in Seq(Some(K)) /\ Len(r) = Len(f) + Len(g)
      /\ \A i \in 1..(Len(f) + Len(g)) : r[i] = IF i <= Len(f) THEN f[i] ELSE g[i - Len(f)]
  <2>1. f \in Seq(Some(K)) /\ g \in Seq(Some(K))
    BY <1>3 DEF GroupsOf
  <2>. QED BY <1>4, <2>1, ConcatProperties
<1>6. Len(h) = Len(r) /\ Len(s) \in Nat /\ Len(t) \in Nat /\ Len(f) = Len(s) /\ Len(g) = Len(t)
  BY <1>2, <1>3, <1>5 DEF GroupsOf
<1>7. ASSUME NEW i \in 1..Len(h) PROVE h[i] = r[i]
  <2>1. i \in 1..Len(u) /\ h[i] = u[i].keys
    BY <1>3, <1>7 DEF GroupsOf
  <2>2. CASE i <= Len(s)
    <3>1. i \in 1..Len(s)
      BY <1>6, <2>2
    <3>2. u[i] = s[i] /\ f[i] = s[i].keys
      BY <1>2, <1>3, <2>1, <2>2, <3>1 DEF GroupsOf
    <3>. QED BY <1>2, <1>5, <1>6, <2>1, <2>2, <3>2
  <2>3. CASE ~(i <= Len(s))
    <3>1. i - Len(s) \in 1..Len(t)
      BY <1>2, <1>6, <2>1, <2>3
    <3>2. u[i] = t[i - Len(s)] /\ g[i - Len(s)] = t[i - Len(s)].keys
      BY <1>2, <1>3, <2>1, <2>3, <3>1 DEF GroupsOf
    <3>. QED BY <1>2, <1>5, <1>6, <2>1, <2>3, <3>2
  <2>. QED BY <2>2, <2>3
<1>8. h = r
  BY <1>3, <1>5, <1>6, <1>7, SeqEqual DEF GroupsOf
<1>. QED BY <1>1, <1>4, <1>8

LEMMA KeysOfType ==
  ASSUME NEW K, NEW text \in Seq(Char(K))
  PROVE  KeysOf(text) \in Seq(K)
<1>1. Groups(text) \in Seq(Seq(K))
  BY GroupsType DEF GroupsOf
<1>. QED BY <1>1, FlattenType DEF KeysOf

LEMMA KeysOfConcat ==
  ASSUME NEW K, NEW s \in Seq(Char(K)), NEW t \in Seq(Char(K))
  PROVE  KeysOf(s \o t) = KeysOf(s) \o KeysOf(t)
<1>1. Groups(s) \in Seq(Seq(K)) /\ Groups(t) \in Seq(Seq(K))
  BY GroupsType DEF GroupsOf
<1>2. FlattenSeq(Groups(s) \o Groups(t)) = FlattenSeq(Groups(s)) \o FlattenSeq(Groups(t))
  BY <1>1, FlattenConcat
<1>. QED BY <1>2, GroupsConcat DEF KeysOf

\* What Korean and Ascii make of keys is text, of the same keys.
LEMMA KoreanType ==
  ASSUME NEW K, NEW g \in Seq(Some(K)), NEW t, t = Korean(g)
  PROVE  /\ t \in Seq(Char(K)) /\ Len(t) = Len(g)
         /\ \A i \in 1..Len(g) : t[i].keys = g[i]
         /\ Groups(t) = g
<1>1. \A i \in 1..Len(g) : [script |-> "kor", keys |-> g[i]] \in Char(K)
  BY DEF Char
<1>2. /\ t \in Seq(Char(K)) /\ Len(t) = Len(g)
      /\ \A i \in 1..Len(g) : t[i] = [script |-> "kor", keys |-> g[i]]
  BY <1>1 DEF Korean
<1>3. ASSUME NEW i \in 1..Len(g) PROVE t[i].keys = g[i]
  <2>1. PICK c, e : c = t[i] /\ e = g[i] /\ c = [script |-> "kor", keys |-> e]
    BY <1>2
  <2>2. c.keys = e
    BY <2>1
  <2>. QED BY <2>1, <2>2
<1>4. PICK h : h = Groups(t)
  OBVIOUS
<1>5. GroupsOf(t, h, K)
  BY <1>2, <1>4, GroupsType
<1>6. h = g
  BY <1>2, <1>3, <1>5, SeqEqual DEF GroupsOf
<1>. QED BY <1>2, <1>3, <1>4, <1>6

LEMMA KoreanConcat ==
  ASSUME NEW K, NEW a \in Seq(Some(K)), NEW b \in Seq(Some(K))
  PROVE  Korean(a \o b) = Korean(a) \o Korean(b)
<1>1. PICK c, x, y, z : c = a \o b /\ x = Korean(a) /\ y = Korean(b) /\ z = Korean(c)
  OBVIOUS
<1>2. /\ c \in Seq(Some(K)) /\ Len(c) = Len(a) + Len(b)
      /\ \A i \in 1..Len(c) : c[i] = IF i <= Len(a) THEN a[i] ELSE b[i - Len(a)]
  BY <1>1, ConcatProperties
<1>3. /\ x \in Seq(Char(K)) /\ Len(x) = Len(a) /\ y \in Seq(Char(K)) /\ Len(y) = Len(b)
      /\ z \in Seq(Char(K)) /\ Len(z) = Len(c)
  BY <1>1, <1>2, KoreanType
<1>4. /\ \A i \in 1..Len(a) : x[i] = [script |-> "kor", keys |-> a[i]]
      /\ \A i \in 1..Len(b) : y[i] = [script |-> "kor", keys |-> b[i]]
      /\ \A i \in 1..Len(c) : z[i] = [script |-> "kor", keys |-> c[i]]
  BY <1>1 DEF Korean
<1>5. PICK r : r = x \o y
  OBVIOUS
<1>6. /\ r \in Seq(Char(K)) /\ Len(r) = Len(c)
      /\ \A i \in 1..Len(c) : r[i] = IF i <= Len(a) THEN x[i] ELSE y[i - Len(a)]
  BY <1>2, <1>3, <1>5, ConcatProperties
<1>7. Len(a) \in Nat /\ Len(b) \in Nat
  OBVIOUS
<1>8. ASSUME NEW i \in 1..Len(c) PROVE z[i] = r[i]
  <2>1. CASE i <= Len(a)
    <3>1. i \in 1..Len(a)
      BY <1>7, <2>1
    <3>. QED BY <1>2, <1>4, <1>6, <2>1, <3>1
  <2>2. CASE ~(i <= Len(a))
    <3>1. i - Len(a) \in 1..Len(b)
      BY <1>2, <1>7, <2>2
    <3>. QED BY <1>2, <1>4, <1>6, <2>2, <3>1
  <2>. QED BY <2>1, <2>2
<1>9. z = r
  BY <1>3, <1>6, <1>8, SeqEqual
<1>. QED BY <1>1, <1>5, <1>9

LEMMA KoreanNone == Korean(<<>>) = <<>>
BY DEF Korean

LEMMA KoreanText ==
  ASSUME NEW K, NEW keys \in Seq(K)
  PROVE  KeysOf(Korean(Syllables(keys))) = keys
<1>1. Syllables(keys) \in Seq(Some(K))
  BY SyllablesType
<1>2. Groups(Korean(Syllables(keys))) = Syllables(keys)
  BY <1>1, KoreanType
<1>. QED BY <1>2, SyllablesText DEF KeysOf

LEMMA AsciiType ==
  ASSUME NEW K, NEW keys \in Seq(K), NEW t, t = Ascii(keys)
  PROVE  /\ t \in Seq(Char(K)) /\ Len(t) = Len(keys)
         /\ \A i \in 1..Len(keys) : t[i].keys = <<keys[i]>>
<1>1. \A i \in 1..Len(keys) : <<keys[i]>> \in Some(K)
  BY DEF Some
<1>2. \A i \in 1..Len(keys) : [script |-> "eng", keys |-> <<keys[i]>>] \in Char(K)
  BY <1>1 DEF Char
<1>3. /\ t \in Seq(Char(K)) /\ Len(t) = Len(keys)
      /\ \A i \in 1..Len(keys) : t[i] = [script |-> "eng", keys |-> <<keys[i]>>]
  BY <1>2 DEF Ascii
<1>4. ASSUME NEW i \in 1..Len(keys) PROVE t[i].keys = <<keys[i]>>
  <2>1. PICK c, e : c = t[i] /\ e = <<keys[i]>> /\ c = [script |-> "eng", keys |-> e]
    BY <1>3
  <2>2. c.keys = e
    BY <2>1
  <2>. QED BY <2>1, <2>2
<1>. QED BY <1>3, <1>4

\* The empty text where a character meets the keys, the character where not
Picked(text, keys) ==
  [i \in 1..Len(text) |-> IF Meets(text[i], keys) THEN <<>> ELSE <<text[i]>>]

LEMMA PickedType ==
  ASSUME NEW C, NEW text \in Seq(C), NEW keys, NEW p, p = Picked(text, keys)
  PROVE  /\ p \in Seq(Seq(C)) /\ Len(p) = Len(text)
         /\ \A i \in 1..Len(text) : p[i] = IF Meets(text[i], keys) THEN <<>> ELSE <<text[i]>>
<1>1. \A i \in 1..Len(text) : (IF Meets(text[i], keys) THEN <<>> ELSE <<text[i]>>) \in Seq(C)
  <2>. TAKE i \in 1..Len(text)
  <2>1. text[i] \in C /\ <<text[i]>> \in Seq(C) /\ <<>> \in Seq(C)
    OBVIOUS
  <2>. QED BY <2>1
<1>. QED BY <1>1 DEF Picked

LEMMA WithoutType ==
  ASSUME NEW C, NEW text \in Seq(C), NEW keys
  PROVE  Without(text, keys) \in Seq(C)
<1>1. Picked(text, keys) \in Seq(Seq(C))
  BY PickedType
<1>2. FlattenSeq(Picked(text, keys)) \in Seq(C)
  BY <1>1, FlattenType
<1>. QED BY <1>2 DEF Without, Picked

LEMMA WithoutNone == ASSUME NEW keys PROVE Without(<<>>, keys) = <<>>
<1>1. PICK p : p = Picked(<<>>, keys)
  OBVIOUS
<1>2. p = <<>>
  BY <1>1 DEF Picked
<1>3. Without(<<>>, keys) = FlattenSeq(p)
  BY <1>1 DEF Without, Picked
<1>. QED BY <1>2, <1>3, FlattenNone

LEMMA WithoutAppend ==
  ASSUME NEW C, NEW text \in Seq(C), NEW c \in C, NEW keys
  PROVE  Without(Append(text, c), keys)
           = IF Meets(c, keys) THEN Without(text, keys) ELSE Append(Without(text, keys), c)
<1>1. PICK more, one : more = Append(text, c) /\ one = IF Meets(c, keys) THEN <<>> ELSE <<c>>
  OBVIOUS
<1>2. /\ more \in Seq(C) /\ Len(more) = Len(text) + 1 /\ Len(text) \in Nat
      /\ \A i \in 1..Len(text) : more[i] = text[i]
      /\ more[Len(text) + 1] = c
  BY <1>1, AppendProperties
<1>3. PICK p, q : p = Picked(text, keys) /\ q = Picked(more, keys)
  OBVIOUS
<1>4. /\ p \in Seq(Seq(C)) /\ Len(p) = Len(text)
      /\ \A i \in 1..Len(text) : p[i] = IF Meets(text[i], keys) THEN <<>> ELSE <<text[i]>>
      /\ q \in Seq(Seq(C)) /\ Len(q) = Len(more)
      /\ \A i \in 1..Len(more) : q[i] = IF Meets(more[i], keys) THEN <<>> ELSE <<more[i]>>
  BY <1>2, <1>3, PickedType
<1>5. one \in Seq(C)
  <2>1. <<c>> \in Seq(C) /\ <<>> \in Seq(C)
    OBVIOUS
  <2>. QED BY <1>1, <2>1
<1>6. q = Append(p, one)
  <2>1. PICK r : r = Append(p, one)
    OBVIOUS
  <2>2. /\ r \in Seq(Seq(C)) /\ Len(r) = Len(p) + 1
        /\ \A i \in 1..Len(p) : r[i] = p[i]
        /\ r[Len(p) + 1] = one
    BY <1>4, <1>5, <2>1, AppendProperties
  <2>3. ASSUME NEW i \in 1..Len(q) PROVE q[i] = r[i]
    <3>1. CASE i = Len(text) + 1
      <4>1. i \in 1..Len(more) /\ more[i] = c
        BY <1>2, <1>4, <3>1
      <4>2. q[i] = one
        BY <1>1, <1>4, <4>1
      <4>. QED BY <1>4, <2>2, <3>1, <4>2
    <3>2. CASE i # Len(text) + 1
      <4>1. i \in 1..Len(text) /\ i \in 1..Len(more) /\ more[i] = text[i]
        BY <1>2, <1>4, <3>2
      <4>2. q[i] = p[i]
        BY <1>4, <4>1
      <4>. QED BY <1>4, <2>2, <4>1, <4>2
    <3>. QED BY <3>1, <3>2
  <2>4. Len(q) = Len(r)
    BY <1>2, <1>4, <2>2
  <2>. QED BY <1>4, <2>1, <2>2, <2>3, <2>4, SeqEqual
<1>7. FlattenSeq(q) = FlattenSeq(p) \o one
  BY <1>4, <1>5, <1>6, FlattenAppend
<1>8. Without(more, keys) = FlattenSeq(q) /\ Without(text, keys) = FlattenSeq(p)
  BY <1>3 DEF Without, Picked
<1>9. FlattenSeq(p) \in Seq(C)
  BY <1>4, FlattenType
<1>10. FlattenSeq(p) \o <<>> = FlattenSeq(p) /\ FlattenSeq(p) \o <<c>> = Append(FlattenSeq(p), c)
  BY <1>9, ConcatEmptySeq, AppendIsConcat
<1>. QED BY <1>1, <1>7, <1>8, <1>10

AllMeet(text, keys)   == \A i \in 1..Len(text) : Meets(text[i], keys)
NoneMeets(text, keys) == \A i \in 1..Len(text) : ~Meets(text[i], keys)

LEMMA MeetAppend ==
  ASSUME NEW C, NEW text \in Seq(C), NEW c \in C, NEW keys
  PROVE  /\ AllMeet(Append(text, c), keys) <=> AllMeet(text, keys) /\ Meets(c, keys)
         /\ NoneMeets(Append(text, c), keys) <=> NoneMeets(text, keys) /\ ~Meets(c, keys)
<1>1. PICK more : more = Append(text, c)
  OBVIOUS
<1>2. /\ Len(more) = Len(text) + 1 /\ Len(text) \in Nat
      /\ \A i \in 1..Len(text) : more[i] = text[i]
      /\ more[Len(text) + 1] = c
  BY <1>1, AppendProperties
<1>3. 1..Len(more) = (1..Len(text)) \cup {Len(text) + 1}
  BY <1>2
<1>. QED BY <1>1, <1>2, <1>3 DEF AllMeet, NoneMeets

LEMMA MeetConcat ==
  ASSUME NEW C, NEW s \in Seq(C), NEW t \in Seq(C), NEW keys
  PROVE  /\ AllMeet(s \o t, keys) <=> AllMeet(s, keys) /\ AllMeet(t, keys)
         /\ NoneMeets(s \o t, keys) <=> NoneMeets(s, keys) /\ NoneMeets(t, keys)
<1>1. PICK u : u = s \o t
  OBVIOUS
<1>2. /\ u \in Seq(C) /\ Len(u) = Len(s) + Len(t) /\ Len(s) \in Nat /\ Len(t) \in Nat
      /\ \A i \in 1..(Len(s) + Len(t)) : u[i] = IF i <= Len(s) THEN s[i] ELSE t[i - Len(s)]
  BY <1>1, ConcatProperties
<1>3. \A i \in 1..Len(s) : i \in 1..Len(u) /\ u[i] = s[i]
  BY <1>2
<1>4. \A i \in 1..Len(t) : Len(s) + i \in 1..Len(u) /\ u[Len(s) + i] = t[i]
  <2>. TAKE i \in 1..Len(t)
  <2>1. PICK j : j = Len(s) + i
    OBVIOUS
  <2>2. j \in 1..(Len(s) + Len(t)) /\ ~(j <= Len(s)) /\ j - Len(s) = i
    BY <1>2, <2>1
  <2>. QED BY <1>2, <2>1, <2>2
<1>5. ASSUME NEW i \in 1..Len(u)
      PROVE  (\E j \in 1..Len(s) : u[i] = s[j]) \/ (\E j \in 1..Len(t) : u[i] = t[j])
  <2>1. CASE i <= Len(s)
    BY <1>2, <2>1
  <2>2. CASE ~(i <= Len(s))
    <3>1. i - Len(s) \in 1..Len(t)
      BY <1>2, <2>2
    <3>. QED BY <1>2, <2>2, <3>1
  <2>. QED BY <2>1, <2>2
<1>6. AllMeet(u, keys) <=> AllMeet(s, keys) /\ AllMeet(t, keys)
  BY <1>3, <1>4, <1>5 DEF AllMeet
<1>7. NoneMeets(u, keys) <=> NoneMeets(s, keys) /\ NoneMeets(t, keys)
  BY <1>3, <1>4, <1>5 DEF NoneMeets
<1>. QED BY <1>1, <1>6, <1>7

\* What is left meets none of the keys; all of a text may be left, or nothing.
WithoutSays(t, keys) ==
  /\ NoneMeets(Without(t, keys), keys)
  /\ NoneMeets(t, keys) => Without(t, keys) = t
  /\ Without(t, keys) = <<>> => AllMeet(t, keys)

LEMMA WithoutLeaves ==
  ASSUME NEW C, NEW text \in Seq(C), NEW keys
  PROVE  WithoutSays(text, keys)
<1>. DEFINE T == {t \in Seq(C) : WithoutSays(t, keys)}
<1>1. <<>> \in T
  <2>1. NoneMeets(<<>>, keys) /\ AllMeet(<<>>, keys) /\ <<>> \in Seq(C)
    BY EmptySeq DEF NoneMeets, AllMeet
  <2>. QED BY <2>1, WithoutNone DEF WithoutSays
<1>2. ASSUME NEW s \in Seq(C), NEW c \in C, s \in T PROVE Append(s, c) \in T
  <2>0. WithoutSays(s, keys) /\ Without(s, keys) \in Seq(C) /\ Append(s, c) \in Seq(C)
    BY <1>2, WithoutType, AppendProperties
  <2>1. CASE Meets(c, keys)
    <3>1. Without(Append(s, c), keys) = Without(s, keys)
      BY <2>1, WithoutAppend
    <3>2. ~NoneMeets(Append(s, c), keys)
      BY <2>1, MeetAppend
    <3>3. AllMeet(s, keys) => AllMeet(Append(s, c), keys)
      BY <2>1, MeetAppend
    <3>4. WithoutSays(Append(s, c), keys)
      BY <2>0, <3>1, <3>2, <3>3 DEF WithoutSays
    <3>. QED BY <2>0, <3>4
  <2>2. CASE ~Meets(c, keys)
    <3>1. Without(Append(s, c), keys) = Append(Without(s, keys), c)
      BY <2>2, WithoutAppend
    <3>2. Append(Without(s, keys), c) # <<>>
      BY <2>0, AppendProperties
    <3>3. NoneMeets(Append(Without(s, keys), c), keys)
      BY <2>0, <2>2, MeetAppend DEF WithoutSays
    <3>4. NoneMeets(Append(s, c), keys) => NoneMeets(s, keys)
      BY MeetAppend
    <3>5. WithoutSays(Append(s, c), keys)
      BY <2>0, <3>1, <3>2, <3>3, <3>4 DEF WithoutSays
    <3>. QED BY <2>0, <3>5
  <2>. QED BY <2>1, <2>2
<1>. HIDE DEF T
<1>3. \A t \in Seq(C) : t \in T
  BY <1>1, <1>2, SeqInduct
<1>. QED BY <1>3 DEF T

LEMMA WithoutConcat ==
  ASSUME NEW C, NEW s \in Seq(C), NEW u \in Seq(C), NEW keys
  PROVE  Without(s \o u, keys) = Without(s, keys) \o Without(u, keys)
<1>. DEFINE T == {t \in Seq(C) : Without(s \o t, keys) = Without(s, keys) \o Without(t, keys)}
<1>0. Without(s, keys) \in Seq(C)
  BY WithoutType
<1>1. <<>> \in T
  <2>1. PICK none : none = <<>>
    OBVIOUS
  <2>2. none \in Seq(C) /\ s \o none = s /\ Without(s, keys) \o none = Without(s, keys)
    BY <1>0, <2>1, ConcatEmptySeq
  <2>3. Without(none, keys) = none
    BY <2>1, WithoutNone
  <2>4. none \in T
    BY <2>2, <2>3
  <2>. QED BY <2>1, <2>4
<1>2. ASSUME NEW t \in Seq(C), NEW c \in C, t \in T PROVE Append(t, c) \in T
  <2>0. /\ Append(t, c) \in Seq(C) /\ Without(t, keys) \in Seq(C) /\ s \o t \in Seq(C)
        /\ Without(s \o t, keys) = Without(s, keys) \o Without(t, keys)
    BY <1>2, AppendProperties, WithoutType, ConcatProperties
  <2>1. ASSUME NEW x \in Seq(C), NEW y \in Seq(C)
        PROVE  x \o Append(y, c) = Append(x \o y, c)
    <3>1. /\ Append(y, c) = y \o <<c>> /\ Append(x \o y, c) = (x \o y) \o <<c>>
          /\ <<c>> \in Seq(C)
      BY AppendIsConcat, ConcatProperties
    <3>2. Regroups(x, y, <<c>>)
      BY <3>1, RegroupedAny
    <3>. QED BY <3>1, <3>2 DEF Regroups
  <2>2. Without(s \o Append(t, c), keys)
          = IF Meets(c, keys) THEN Without(s \o t, keys) ELSE Append(Without(s \o t, keys), c)
    <3>1. Without(Append(s \o t, c), keys)
            = IF Meets(c, keys) THEN Without(s \o t, keys) ELSE Append(Without(s \o t, keys), c)
      BY <2>0, WithoutAppend
    <3>. QED BY <2>1, <3>1
  <2>3. Without(Append(t, c), keys)
          = IF Meets(c, keys) THEN Without(t, keys) ELSE Append(Without(t, keys), c)
    BY WithoutAppend
  <2>4. CASE Meets(c, keys)
    BY <2>0, <2>2, <2>3, <2>4
  <2>5. CASE ~Meets(c, keys)
    <3>1. Without(s, keys) \o Append(Without(t, keys), c)
            = Append(Without(s, keys) \o Without(t, keys), c)
      BY <1>0, <2>0, <2>1
    <3>. QED BY <2>0, <2>2, <2>3, <2>5, <3>1
  <2>. QED BY <2>4, <2>5
<1>. HIDE DEF T
<1>3. \A t \in Seq(C) : t \in T
  BY <1>1, <1>2, SeqInduct
<1>. QED BY <1>3 DEF T

\* Only which characters meet the keys matters.
LEMMA WithoutSame ==
  ASSUME NEW text, NEW a, NEW b,
         \A i \in 1..Len(text) : Meets(text[i], a) <=> Meets(text[i], b)
  PROVE  Without(text, a) = Without(text, b)
<1>1. Picked(text, a) = Picked(text, b)
  BY DEF Picked
<1>. QED BY <1>1 DEF Without, Picked

HasRest(s, t, S) == \E u \in Seq(S) : t = s \o u

LEMMA PrefixRest ==
  ASSUME NEW S, NEW s \in Seq(S), NEW t \in Seq(S), IsPrefix(s, t)
  PROVE  HasRest(s, t, S)
<1>1. Len(s) \in Nat /\ Len(t) \in Nat /\ Len(s) <= Len(t)
  BY DEF IsPrefix
<1>2. SubSeq(t, 1, Len(s)) \o SubSeq(t, Len(s) + 1, Len(t)) = SubSeq(t, 1, Len(t))
  <2>1. 1 \in 1..(Len(t) + 1) /\ Len(s) \in (1 - 1)..Len(t) /\ Len(t) \in Len(s)..Len(t)
    BY <1>1
  <2>. QED BY <2>1, ConcatAdjacentSubSeq
<1>3. SubSeq(t, 1, Len(t)) = t /\ SubSeq(s, 1, Len(s)) = s
  BY SubSeqFull
<1>4. SubSeq(t, 1, Len(s)) = s
  BY <1>3 DEF IsPrefix
<1>5. SubSeq(t, Len(s) + 1, Len(t)) \in Seq(S)
  <2>1. \A i \in (Len(s) + 1)..Len(t) : t[i] \in S
    BY <1>1
  <2>. QED BY <1>1, <2>1, SubSeqProperties
<1>. QED BY <1>2, <1>3, <1>4, <1>5 DEF HasRest

LEMMA CancelLeft ==
  ASSUME NEW S, NEW s \in Seq(S), NEW t \in Seq(S), NEW v \in Seq(S), s \o t = s \o v
  PROVE  t = v
BY ConcatSimplifications

\* An aligned buffer: the text ends in its keys, as whole characters.
Parts(text, kept, rest, keys, C) ==
  /\ kept \in Seq(C) /\ rest \in Seq(C) /\ text = kept \o rest
  /\ NoneMeets(kept, keys) /\ AllMeet(rest, keys) /\ KeysOf(rest) = keys

LEMMA AlignedParts ==
  ASSUME NEW K, NEW text \in Seq(Char(K)), NEW keys \in Seq(K),
         NEW kept, kept = Without(text, keys),
         IsPrefix(kept, text), KeysOf(text) = KeysOf(kept) \o keys
  PROVE  \E rest : Parts(text, kept, rest, keys, Char(K))
<1>1. kept \in Seq(Char(K))
  BY WithoutType
<1>2. PICK rest \in Seq(Char(K)) : text = kept \o rest
  <2>1. HasRest(kept, text, Char(K))
    BY <1>1, PrefixRest
  <2>. QED BY <2>1 DEF HasRest
<1>3. WithoutSays(text, keys) /\ WithoutSays(kept, keys) /\ WithoutSays(rest, keys)
  BY <1>1, <1>2, WithoutLeaves
<1>4. NoneMeets(kept, keys) /\ Without(kept, keys) = kept
  BY <1>3 DEF WithoutSays
<1>5. kept \o Without(rest, keys) = kept
  <2>1. Without(kept \o rest, keys) = Without(kept, keys) \o Without(rest, keys)
    <3>1. \A k, r \in Seq(Char(K)) : Without(k \o r, keys) = Without(k, keys) \o Without(r, keys)
      BY WithoutConcat
    <3>2. rest \in Seq(Char(K))
      BY <1>2
    <3>. QED BY <1>1, <3>1, <3>2, Zenon
  <2>2. Without(kept \o rest, keys) = kept
    BY <1>2
  <2>. QED BY <1>4, <2>1, <2>2, Zenon
<1>6. Without(rest, keys) = <<>>
  <2>1. PICK w : w = Without(rest, keys)
    OBVIOUS
  <2>2. w \in Seq(Char(K))
    BY <1>2, <2>1, WithoutType
  <2>3. kept \o w = kept <=> w = <<>>
    BY <1>1, <2>2, ConcatEqualIffEmpty
  <2>. QED BY <1>5, <2>1, <2>3
<1>7. AllMeet(rest, keys)
  BY <1>3, <1>6 DEF WithoutSays
<1>8. KeysOf(rest) = keys
  <2>1. PICK p, q : p = KeysOf(kept) /\ q = KeysOf(rest)
    OBVIOUS
  <2>2. p \in Seq(K) /\ q \in Seq(K)
    BY <1>1, <1>2, <2>1, KeysOfType
  <2>3. p \o q = p \o keys
    BY <1>1, <1>2, <2>1, KeysOfConcat
  <2>4. q = keys
    BY <2>2, <2>3, CancelLeft
  <2>. QED BY <2>1, <2>4
<1>. QED BY <1>1, <1>2, <1>4, <1>7, <1>8 DEF Parts

\* As many characters as keys, when each was made of one.
LEMMA OneKeyEach ==
  ASSUME NEW K, NEW text \in Seq(Char(K)), \A i \in 1..Len(text) : Len(text[i].keys) = 1
  PROVE  Len(KeysOf(text)) = Len(text)
<1>. DEFINE One == {k \in Seq(K) : Len(k) = 1}
            T   == {g \in Seq(One) : Len(FlattenSeq(g)) = Len(g)}
<1>0. One \subseteq Seq(K)
  OBVIOUS
<1>1. <<>> \in T
  BY FlattenNone, EmptySeq
<1>2. ASSUME NEW s \in Seq(One), NEW e \in One, s \in T PROVE Append(s, e) \in T
  <2>1. /\ Append(s, e) \in Seq(One) /\ Len(Append(s, e)) = Len(s) + 1
        /\ s \in Seq(Seq(K)) /\ e \in Seq(K) /\ Len(e) = 1
    BY <1>0, AppendProperties, SeqMonotonic
  <2>2. FlattenSeq(Append(s, e)) = FlattenSeq(s) \o e /\ FlattenSeq(s) \in Seq(K)
    BY <2>1, FlattenAppend, FlattenType
  <2>3. Len(FlattenSeq(Append(s, e))) = Len(FlattenSeq(s)) + 1
    <3>1. PICK f, h : f = FlattenSeq(s) /\ h = FlattenSeq(Append(s, e))
      OBVIOUS
    <3>2. h = f \o e /\ f \in Seq(K) /\ e \in Seq(K)
      BY <2>1, <2>2, <3>1
    <3>3. Len(f \o e) = Len(f) + Len(e)
      BY <3>2, ConcatProperties
    <3>. QED BY <2>1, <3>1, <3>2, <3>3
  <2>4. Len(FlattenSeq(s)) = Len(s)
    BY <1>2
  <2>. QED BY <2>1, <2>3, <2>4
<1>3. PICK g : g = Groups(text)
  OBVIOUS
<1>4. GroupsOf(text, g, K)
  BY <1>3, GroupsType
<1>5. g \in Seq(One)
  <2>0. g \in Seq(Seq(K)) /\ Len(g) = Len(text) /\ \A i \in 1..Len(text) : g[i] = text[i].keys
    BY <1>4 DEF GroupsOf
  <2>1. g \in Seq(Seq(K)) /\ \A i \in 1..Len(g) : g[i] \in Seq(K) /\ Len(g[i]) = 1
    <3>. HIDE DEF One
    <3>1. \A i \in 1..Len(g) : g[i] \in Seq(K)
      BY <2>0
    <3>2. \A i \in 1..Len(g) : Len(g[i]) = 1
      BY <2>0
    <3>. QED BY <2>0, <3>1, <3>2
  <2>2. \A i \in 1..Len(g) : g[i] \in One
    BY <2>1
  <2>. HIDE DEF One
  <2>. QED BY <2>1, <2>2
<1>. HIDE DEF T
<1>6. \A x \in Seq(One) : x \in T
  <2>. HIDE DEF One
  <2>. QED BY <1>1, <1>2, SeqInduct
<1>7. Len(FlattenSeq(g)) = Len(g)
  BY <1>5, <1>6 DEF T
<1>. QED BY <1>3, <1>4, <1>7 DEF KeysOf, GroupsOf

\* Erasing as many characters as there are after the kept ones
LEMMA EraseRest ==
  ASSUME NEW S, NEW s \in Seq(S), NEW t \in Seq(S)
  PROVE  EraseLast(s \o t, Len(t)) = s
<1>1. PICK u : u = s \o t
  OBVIOUS
<1>2. /\ u \in Seq(S) /\ Len(u) = Len(s) + Len(t) /\ Len(s) \in Nat /\ Len(t) \in Nat
      /\ \A i \in 1..(Len(s) + Len(t)) : u[i] = IF i <= Len(s) THEN s[i] ELSE t[i - Len(s)]
  BY <1>1, ConcatProperties
<1>3. EraseLast(u, Len(t)) = SubSeq(u, 1, Len(s))
  <2>1. PICK m, n \in Nat : m = Len(s) /\ n = Len(t)
    BY <1>2
  <2>2. Len(u) = m + n /\ ~(n > m + n) /\ (m + n) - n = m
    BY <1>2, <2>1
  <2>. QED BY <2>1, <2>2 DEF EraseLast
<1>4. \A i \in 1..Len(s) : u[i] = s[i]
  BY <1>2
<1>5. PICK v : v = SubSeq(u, 1, Len(s))
  OBVIOUS
<1>6. v \in Seq(S) /\ Len(v) = Len(s) /\ \A i \in 1..Len(s) : v[i] = u[i]
  <2>1. \A i \in 1..Len(s) : u[i] \in S
    BY <1>4
  <2>. QED BY <1>2, <1>5, <2>1
<1>7. v = s
  BY <1>4, <1>6, SeqEqual
<1>. QED BY <1>1, <1>3, <1>5, <1>7

-----------------------------------------------------------------------------
(* The text of a field: keys that were typed, in characters that have some. *)

AnyKey == [id : Nat, kind : {"C", "V", "break", "old"}]
Known  == [id : 0..count, kind : {"C", "V", "break", "old"}]

TextOK ==
  /\ count \in Nat /\ category \in {"Korean", "English"}
  /\ doc \in Seq(Char(Known)) /\ comp \in Seq(Known) /\ buf \in Seq(Known)
  /\ undo.keys \in Seq(Known)
  /\ undo.live => undo.direction = "Forward"

LEMMA CharGrows ==
  ASSUME NEW K, NEW L, K \subseteq L
  PROVE  /\ Char(K) \subseteq Char(L) /\ Some(K) \subseteq Some(L)
         /\ Seq(K) \subseteq Seq(L) /\ Seq(Char(K)) \subseteq Seq(Char(L))
<1>1. Seq(K) \subseteq Seq(L)
  BY SeqMonotonic
<1>2. Some(K) \subseteq Some(L)
  BY <1>1 DEF Some
<1>3. Char(K) \subseteq Char(L)
  BY <1>2 DEF Char
<1>4. Seq(Char(K)) \subseteq Seq(Char(L))
  BY <1>3, SeqMonotonic
<1>. QED BY <1>1, <1>2, <1>3, <1>4

LEMMA KnownGrows ==
  ASSUME count \in Nat, count' \in {count, count + 1}
  PROVE  count' \in Nat /\ Known \subseteq Known' /\ Known \subseteq AnyKey
BY DEF Known, AnyKey

LEMMA ConfirmedType ==
  ASSUME NEW K, doc \in Seq(Char(K)), comp \in Seq(K)
  PROVE  Confirmed \in Seq(Char(K)) /\ Korean(Syllables(comp)) \in Seq(Char(K))
<1>1. Syllables(comp) \in Seq(Some(K))
  BY SyllablesType
<1>2. Korean(Syllables(comp)) \in Seq(Char(K))
  BY <1>1, KoreanType
<1>. QED BY <1>2, ConcatProperties DEF Confirmed

LEMMA ConfirmedNone ==
  ASSUME NEW K, doc \in Seq(Char(K)), comp = <<>>
  PROVE  Confirmed = doc
<1>1. Korean(Syllables(comp)) = <<>>
  BY SyllablesNone, KoreanNone
<1>. QED BY <1>1, ConcatEmptySeq DEF Confirmed

LEMMA EraseType ==
  ASSUME NEW C, NEW text \in Seq(C), NEW n \in Nat
  PROVE  EraseLast(text, n) \in Seq(C)
<1>1. PICK m : m = IF n > Len(text) THEN 0 ELSE Len(text) - n
  OBVIOUS
<1>2. m \in Int /\ m <= Len(text)
  BY <1>1
<1>3. SubSeq(text, 1, m) \in Seq(C)
  <2>1. \A i \in 1..m : text[i] \in C
    BY <1>2
  <2>. QED BY <1>2, <2>1, SubSeqProperties
<1>. QED BY <1>1, <1>3 DEF EraseLast

LEMMA OldType ==
  ASSUME NEW K, NEW key \in K
  PROVE  Old(key) \in Char(K)
BY DEF Old, Char, Some

\* What a replayed word leaves behind it, and composes: together all of it.
LEMMA SettledComposed ==
  ASSUME NEW K, NEW keys \in Some(K)
  PROVE  /\ Settled(Syllables(keys)) \in Seq(Some(K))
         /\ Composing(keys) \in Some(K)
         /\ ~word => Syllables(Composing(keys)) = <<Composing(keys)>>
         /\ Korean(Settled(Syllables(keys))) \o Korean(Syllables(Composing(keys)))
              = Korean(Syllables(keys))
<1>1. PICK g, a, l : g = Syllables(keys) /\ a = Front(g) /\ l = Last(g)
  OBVIOUS
<1>2. /\ l \in Some(K) /\ a \in Seq(Some(K)) /\ g = Append(a, l)
      /\ Syllables(l) = <<l>>
  BY <1>1, SpelledLast
<1>3. g \in Seq(Some(K)) /\ keys \in Seq(K)
  BY <1>1, SyllablesType DEF Some
<1>4. CASE word
  <2>1. Settled(g) = <<>> /\ Composing(keys) = keys
    BY <1>4 DEF Settled, Composing
  <2>2. Korean(g) \in Seq(Char(K))
    BY <1>3, KoreanType
  <2>3. Korean(<<>>) \o Korean(g) = Korean(g)
    BY <2>2, KoreanNone, ConcatEmptySeq
  <2>4. <<>> \in Seq(Some(K))
    BY EmptySeq
  <2>. QED BY <1>1, <1>4, <2>1, <2>3, <2>4
<1>5. CASE ~word
  <2>1. Settled(g) = a /\ Composing(keys) = l
    BY <1>1, <1>5 DEF Settled, Composing
  <2>2. Korean(a \o <<l>>) = Korean(a) \o Korean(<<l>>)
    <3>1. <<l>> \in Seq(Some(K))
      BY <1>2
    <3>. QED BY <1>2, <3>1, KoreanConcat
  <2>3. g = a \o <<l>>
    BY <1>2, AppendIsConcat
  <2>. QED BY <1>1, <1>2, <2>1, <2>2, <2>3
<1>. QED BY <1>4, <1>5

\* A letter puts text behind the text and leaves a composition.
LEMMA TypeLetterType ==
  ASSUME NEW K, NEW key \in K, doc \in Seq(Char(K)), comp \in Seq(K), TypeLetter(key)
  PROVE  doc' \in Seq(Char(K)) /\ comp' \in Seq(K)
<1>1. CASE category = "English"
  <2>1. Ascii(<<key>>) \in Seq(Char(K))
    <3>1. <<key>> \in Seq(K)
      OBVIOUS
    <3>. QED BY <3>1, AsciiType
  <2>2. doc' = doc \o Ascii(<<key>>) /\ comp' = comp
    BY <1>1 DEF TypeLetter
  <2>. QED BY <2>1, <2>2, ConcatProperties
<1>2. CASE category # "English"
  <2>1. PICK keys : keys = Append(comp, key)
    OBVIOUS
  <2>2. keys \in Some(K)
    BY <2>1, AppendProperties DEF Some
  <2>3. Settled(Syllables(keys)) \in Seq(Some(K)) /\ Composing(keys) \in Some(K)
    BY <2>2, SettledComposed
  <2>4. Korean(Settled(Syllables(keys))) \in Seq(Char(K))
    BY <2>3, KoreanType
  <2>5. doc' = doc \o Korean(Settled(Syllables(keys))) /\ comp' = Composing(keys)
    BY <1>2, <2>1 DEF TypeLetter
  <2>6. comp' \in Seq(K)
    BY <2>3, <2>5 DEF Some
  <2>. QED BY <2>4, <2>5, <2>6, ConcatProperties
<1>. QED BY <1>1, <1>2

LEMMA FixType ==
  ASSUME NEW K, NEW keys \in Some(K), NEW direction, doc \in Seq(Char(K)), Fix(keys, direction),
         Len(keys) >= 2
  PROVE  /\ doc' \in Seq(Char(K)) /\ comp' \in Seq(K)
         /\ category' \in {"Korean", "English"}
         /\ undo'.keys \in Seq(K) /\ (undo'.live => undo'.direction = "Forward")
<1>0. keys \in Seq(K) /\ Len(keys) \in Nat /\ Len(keys) > 0
  BY DEF Some
<1>1. CASE direction = "Forward"
  <2>1. /\ doc' = EraseLast(doc, ForwardDelete(keys)) \o Korean(Settled(Syllables(keys)))
        /\ comp' = Composing(keys) /\ category' = "Korean"
    BY <1>1 DEF Fix, FixForward
  <2>2. ForwardDelete(keys) \in Nat
    BY <1>0 DEF ForwardDelete
  <2>3. EraseLast(doc, ForwardDelete(keys)) \in Seq(Char(K))
    BY <2>2, EraseType
  <2>4. Settled(Syllables(keys)) \in Seq(Some(K)) /\ Composing(keys) \in Some(K)
    BY SettledComposed
  <2>5. Korean(Settled(Syllables(keys))) \in Seq(Char(K))
    BY <2>4, KoreanType
  <2>6. doc' \in Seq(Char(K))
    BY <2>1, <2>3, <2>5, ConcatProperties
  <2>7. comp' \in Seq(K)
    BY <2>1, <2>4 DEF Some
  <2>8. undo'.keys = keys /\ undo'.direction = "Forward"
    BY <1>1 DEF Fix
  <2>. QED BY <1>0, <2>1, <2>6, <2>7, <2>8
<1>2. CASE direction # "Forward"
  <2>1. /\ doc' = EraseLast(doc, ReverseDelete(keys)) \o Ascii(keys)
        /\ comp' = <<>> /\ category' = "English"
    BY <1>2 DEF Fix, FixReverse
  <2>2. ReverseDelete(keys) \in Nat
    <3>1. PICK f \in Seq(K), e \in K : keys = Append(f, e) /\ Front(keys) = f
      BY <1>0, Ended DEF Some
    <3>2. f # <<>>
      <4>1. Len(Append(f, e)) = Len(f) + 1
        BY AppendProperties
      <4>2. Len(f) + 1 >= 2
        BY <3>1, <4>1
      <4>. QED BY <4>2
    <3>3. f \in Some(K)
      BY <3>1, <3>2 DEF Some
    <3>4. Syllables(f) \in Seq(Some(K)) /\ Syllables(f) # <<>>
      BY <3>1, <3>3, SyllablesType, SyllablesSome
    <3>5. PICK n : n = Len(Syllables(f))
      OBVIOUS
    <3>6. n \in Nat /\ n > 0
      <4>1. PICK g : g = Syllables(f)
        OBVIOUS
      <4>2. g \in Seq(Some(K)) /\ g # <<>> /\ n = Len(g)
        BY <3>4, <3>5, <4>1
      <4>. QED BY <4>2
    <3>7. ReverseDelete(keys) = IF word THEN 0 ELSE n - 1
      BY <3>1, <3>5 DEF ReverseDelete
    <3>. QED BY <3>6, <3>7
  <2>3. EraseLast(doc, ReverseDelete(keys)) \in Seq(Char(K))
    BY <2>2, EraseType
  <2>4. Ascii(keys) \in Seq(Char(K))
    BY <1>0, AsciiType
  <2>5. doc' \in Seq(Char(K)) /\ comp' \in Seq(K)
    BY <2>1, <2>3, <2>4, ConcatProperties, EmptySeq
  <2>6. undo'.keys = keys /\ undo'.live = FALSE
    <3>1. undo' = [keys |-> keys, direction |-> direction, live |-> word /\ direction = "Forward"]
      BY DEF Fix
    <3>2. (word /\ direction = "Forward") = FALSE
      BY <1>2
    <3>. QED BY <3>1, <3>2
  <2>. QED BY <1>0, <2>1, <2>5, <2>6
<1>. QED BY <1>1, <1>2

\* In terms of the keys known after a letter
LetterText(kind) ==
  /\ count' \in Nat /\ count' = count + 1 /\ Key(kind) \in Known' /\ Key(kind) \notin Known
  /\ Append(buf, Key(kind)) \in Some(Known')
  /\ doc \in Seq(Char(Known')) /\ comp \in Seq(Known') /\ buf \in Seq(Known')

LEMMA LetterKnows ==
  ASSUME TextOK, NEW kind \in Kinds, Letter(kind)
  PROVE  LetterText(kind)
<1>1. count' = count + 1 /\ count \in Nat
  BY DEF TextOK, Letter
<1>2. Known \subseteq Known' /\ count' \in Nat
  BY <1>1, KnownGrows
<1>3. Key(kind) \in Known' /\ Key(kind) \notin Known
  BY <1>1 DEF Key, Known, Kinds
<1>4. doc \in Seq(Char(Known')) /\ comp \in Seq(Known') /\ buf \in Seq(Known')
  BY <1>2, CharGrows DEF TextOK
<1>5. Append(buf, Key(kind)) \in Some(Known')
  BY <1>3, <1>4, AppendProperties DEF Some
<1>. QED BY <1>1, <1>2, <1>3, <1>4, <1>5 DEF LetterText

\* A detector is asked of two keys at least.
LEMMA FoundTwo ==
  ASSUME NEW keys, CheckForward(keys) \/ CheckReverse(keys)
  PROVE  Len(keys) >= 2
BY DEF CheckForward, CheckReverse

LEMMA NoUndoText ==
  ASSUME NEW K
  PROVE  NoUndo.keys \in Seq(K) /\ (NoUndo.live => NoUndo.direction = "Forward")
BY EmptySeq DEF NoUndo

LEMMA TextLetter ==
  ASSUME TextOK, NEW kind \in Kinds, Letter(kind)
  PROVE  TextOK'
<1>. DEFINE key == Key(kind)
            keys == Append(buf, key)
            direction == IF category = "English" THEN "Forward" ELSE "Reverse"
            found == CheckForward(keys) \/ CheckReverse(keys)
<1>1. LetterText(kind)
  BY LetterKnows
<1>2. undo.keys \in Seq(Known') /\ NoUndo.keys \in Seq(Known')
  <2>1. Known \subseteq Known'
    BY KnownGrows DEF TextOK, Letter
  <2>. QED BY <2>1, CharGrows, EmptySeq DEF TextOK, NoUndo
<1>3. buf' \in {buf, <<>>, keys}
  BY DEF Letter, Unobserved, NoFix, Learn, Fix
<1>4. buf' \in Seq(Known')
  BY <1>1, <1>3, EmptySeq DEF LetterText, Some
<1>5. CASE TypeLetter(key) /\ UNCHANGED category /\ (undo' = undo \/ undo' = NoUndo)
  <2>1. doc' \in Seq(Char(Known')) /\ comp' \in Seq(Known')
    BY <1>1, <1>5, TypeLetterType DEF LetterText
  <2>2. undo'.keys \in Seq(Known') /\ (undo'.live => undo'.direction = "Forward")
    <3>1. undo.live => undo.direction = "Forward"
      BY DEF TextOK
    <3>2. NoUndo.live => NoUndo.direction = "Forward"
      BY NoUndoText
    <3>3. CASE undo' = undo
      BY <1>2, <3>1, <3>3
    <3>4. CASE undo' = NoUndo
      BY <1>2, <3>2, <3>4
    <3>. QED BY <1>5, <3>3, <3>4
  <2>. QED BY <1>1, <1>4, <1>5, <2>1, <2>2 DEF TextOK, LetterText
<1>6. CASE Fix(keys, direction) /\ found
  <2>1. Len(keys) >= 2
    BY <1>6, FoundTwo
  <2>2. keys \in Some(Known') /\ doc \in Seq(Char(Known'))
    BY <1>1 DEF LetterText
  <2>. HIDE DEF keys, direction
  <2>3. /\ doc' \in Seq(Char(Known')) /\ comp' \in Seq(Known')
        /\ category' \in {"Korean", "English"}
        /\ undo'.keys \in Seq(Known') /\ (undo'.live => undo'.direction = "Forward")
    BY <1>6, <2>1, <2>2, FixType
  <2>. QED BY <1>1, <1>4, <2>3 DEF TextOK, LetterText
<1>. QED BY <1>5, <1>6 DEF Letter, Unobserved, NoFix, Learn

\* Other keys and requests: doc' is left to each.
LEMMA TextOther ==
  ASSUME TextOK, count' \in {count, count + 1}, category' \in {"Korean", "English"},
         doc' \in Seq(Char(Known')), comp' \in {comp, <<>>}, buf' \in {buf, <<>>},
         undo' \in {undo, NoUndo}
  PROVE  TextOK'
<1>1. Known \subseteq Known' /\ count' \in Nat
  BY KnownGrows DEF TextOK
<1>2. /\ comp \in Seq(Known') /\ buf \in Seq(Known') /\ undo.keys \in Seq(Known')
      /\ <<>> \in Seq(Known')
  BY <1>1, CharGrows, EmptySeq DEF TextOK
<1>3. comp' \in Seq(Known') /\ buf' \in Seq(Known')
  BY <1>2
<1>4. undo'.keys \in Seq(Known') /\ (undo'.live => undo'.direction = "Forward")
  BY <1>2, NoUndoText DEF TextOK
<1>. QED BY <1>1, <1>3, <1>4 DEF TextOK

\* A character of other text goes behind the text.
LEMMA OldBehind ==
  ASSUME TextOK, count' = count + 1, NEW kind \in {"C", "V", "break", "old"}
  PROVE  Append(Confirmed, Old([id |-> count + 1, kind |-> kind])) \in Seq(Char(Known'))
<1>1. PICK key : key = [id |-> count + 1, kind |-> kind]
  OBVIOUS
<1>2. key \in Known'
  BY <1>1 DEF Known, TextOK
<1>3. Old(key) \in Char(Known')
  BY <1>2, OldType
<1>4. Confirmed \in Seq(Char(Known'))
  <2>1. Known \subseteq Known'
    BY KnownGrows DEF TextOK
  <2>. QED BY <2>1, CharGrows, ConfirmedType DEF TextOK
<1>. QED BY <1>1, <1>3, <1>4, AppendProperties

LEMMA FirstOld ==
  ASSUME count \in Nat
  PROVE  <<Old([id |-> 0, kind |-> "old"])>> \in Seq(Char(Known))
<1>1. PICK key : key = [id |-> 0, kind |-> "old"]
  OBVIOUS
<1>2. key \in Known
  BY <1>1 DEF Known
<1>3. Old(key) \in Char(Known)
  BY <1>2, OldType
<1>. QED BY <1>1, <1>3

LEMMA FrontType ==
  ASSUME NEW S, NEW t \in Seq(S), t # <<>>
  PROVE  Front(t) \in Seq(S)
<1>1. \E s \in Seq(S), e \in S : t = Append(s, e) /\ Last(t) = e /\ Front(t) = s
  BY Ended
<1>. QED BY <1>1

LEMMA UndoType ==
  ASSUME NEW K, doc \in Seq(Char(K)), undo.keys \in Seq(K)
  PROVE  EraseLast(doc, UndoDelete(undo)) \o Original(undo) \in Seq(Char(K))
<1>1. UndoDelete(undo) \in Nat
  <2>1. Syllables(undo.keys) \in Seq(Some(K))
    BY SyllablesType
  <2>2. Len(Syllables(undo.keys)) \in Nat /\ Len(undo.keys) \in Nat
    BY <2>1
  <2>. QED BY <2>2 DEF UndoDelete
<1>2. EraseLast(doc, UndoDelete(undo)) \in Seq(Char(K))
  BY <1>1, EraseType
<1>3. Original(undo) \in Seq(Char(K))
  BY AsciiType, EmptySeq DEF Original
<1>. QED BY <1>2, <1>3, ConcatProperties

LEMMA TextStep ==
  TextOK /\ [Next]_vars => TextOK'
<1>. SUFFICES ASSUME TextOK, [Next]_vars PROVE TextOK'
  OBVIOUS
<1>0. count \in Nat /\ category \in {"Korean", "English"} /\ doc \in Seq(Char(Known))
  BY DEF TextOK
<1>00. count' = count => Known' = Known
  BY DEF Known
<1>1. ASSUME NEW kind \in Kinds, Letter(kind) PROVE TextOK'
  BY <1>1, TextLetter
<1>2. CASE Break
  <2>1. /\ count' = count + 1 /\ category' = category /\ comp' = <<>>
        /\ doc' = Append(Confirmed, Old([id |-> count + 1, kind |-> "break"]))
        /\ buf' \in {buf, <<>>} /\ undo' \in {undo, NoUndo}
    BY <1>2 DEF Break
  <2>2. doc' \in Seq(Char(Known'))
    BY <2>1, OldBehind
  <2>. QED BY <1>0, <2>1, <2>2, TextOther
<1>3. CASE Reset
  <2>1. /\ count' = count + 1 /\ category' = category /\ comp' = <<>>
        /\ doc' = Append(Confirmed, Old([id |-> count + 1, kind |-> "old"]))
        /\ buf' = buf /\ undo' = undo
    BY <1>3 DEF Reset
  <2>2. doc' \in Seq(Char(Known'))
    BY <2>1, OldBehind
  <2>. QED BY <1>0, <2>1, <2>2, TextOther
<1>4. CASE Backspace
  <2>1. count' = count /\ category' = category /\ undo' = undo /\ buf' \in {buf, <<>>}
    BY <1>4 DEF Backspace
  <2>2. CASE comp = <<>>
    <3>1. doc # <<>> /\ doc' = Front(doc) /\ comp' = comp
      BY <1>4, <2>2 DEF Backspace
    <3>2. doc' \in Seq(Char(Known))
      BY <1>0, <3>1, FrontType
    <3>. QED BY <1>0, <1>00, <2>1, <3>1, <3>2, TextOther
  <2>3. CASE comp # <<>>
    <3>1. doc' = doc /\ comp' = Front(comp)
      BY <1>4, <2>3 DEF Backspace
    <3>2. comp' \in Seq(Known)
      BY <2>3, <3>1, FrontType DEF TextOK
    <3>3. buf' \in Seq(Known)
      BY <2>1, EmptySeq DEF TextOK
    <3>. QED BY <1>00, <2>1, <3>1, <3>2, <3>3 DEF TextOK
  <2>. QED BY <2>2, <2>3
<1>5. CASE Toggle
  <2>1. /\ count' = count /\ category' \in {"Korean", "English"} /\ comp' = <<>>
        /\ doc' = Confirmed /\ buf' = <<>> /\ undo' = undo
    BY <1>5 DEF Toggle
  <2>2. Confirmed \in Seq(Char(Known))
    BY ConfirmedType DEF TextOK
  <2>. QED BY <1>0, <1>00, <2>1, <2>2, TextOther
<1>6. CASE Undo
  <2>1. /\ count' = count /\ category' = category /\ comp' \in {comp, <<>>}
        /\ doc' = EraseLast(doc, UndoDelete(undo)) \o Original(undo)
        /\ buf' = <<>> /\ undo' = NoUndo
    BY <1>6 DEF Undo
  <2>2. doc' \in Seq(Char(Known))
    BY <2>1, UndoType DEF TextOK
  <2>. QED BY <1>0, <1>00, <2>1, <2>2, TextOther
<1>7. CASE ChangeField
  <2>1. /\ count' = count /\ category' = category /\ comp' = <<>>
        /\ doc' = <<Old([id |-> 0, kind |-> "old"])>> /\ buf' = <<>> /\ undo' = NoUndo
    BY <1>7 DEF ChangeField, Forget
  <2>. QED BY <1>0, <1>00, <2>1, FirstOld, TextOther
<1>8. CASE UNCHANGED <<count, doc, comp>> /\ category' \in {category, "English"}
           /\ buf' \in {buf, <<>>} /\ undo' \in {undo, NoUndo}
  BY <1>0, <1>00, <1>8, TextOther
<1>9. CASE EnterPassword
  BY <1>8, <1>9 DEF EnterPassword, Forget
<1>10. CASE KeysExpire
  <2>1. Tail(buf) \in Seq(Known)
    BY <1>10, HeadTailProperties DEF KeysExpire, TextOK
  <2>. QED BY <1>00, <1>10, <2>1 DEF KeysExpire, TextOK
<1>11. CASE UndoExpires \/ ObservationEnds
  BY <1>8, <1>11 DEF UndoExpires, ObservationEnds
<1>12. CASE TentativeExpires \/ EditBlacklist
  BY <1>8, <1>12 DEF TentativeExpires, EditBlacklist, SetStatus
<1>13. CASE UNCHANGED vars
  BY <1>8, <1>13 DEF vars
<1>. QED BY <1>1, <1>2, <1>3, <1>4, <1>5, <1>6, <1>7, <1>9, <1>10, <1>11, <1>12, <1>13 DEF Next

-----------------------------------------------------------------------------
(* What the keys of the buffer look like on the screen. *)

\* Whatever is shown of the buffer in English is shown letter by letter.
OneKey(text, keys) ==
  \A i \in 1..Len(text) : Meets(text[i], keys) => Len(text[i].keys) = 1

\* The text before the caret does not end in a key of the buffer.
Behind(text, keys) == text = <<>> \/ ~Meets(Last(text), keys)

\* However much of the text's end is of the buffer, with the composition it is
\* what its keys give when they are pressed again.
SpelledBehind(text, composed, keys) ==
  \A x, y \in Seq(Char(AnyKey)) :
    text = x \o y /\ AllMeet(y, keys) => Spelled(Append(Groups(y), composed))

ShapeOK ==
  /\ category = "English" => comp = <<>> /\ OneKey(doc, buf)
  /\ category = "Korean" /\ (word \/ comp = <<>>) => Behind(doc, buf)
  /\ category = "Korean" /\ ~word /\ comp # <<>> => SpelledBehind(doc, comp, buf)

LEMMA MeetsNothing == ASSUME NEW c PROVE ~Meets(c, <<>>)
<1>1. ToSet(<<>>) = {}
  BY DEF ToSet
<1>. QED BY <1>1 DEF Meets

LEMMA MeetsTail ==
  ASSUME NEW S, NEW keys \in Seq(S), keys # <<>>, NEW c, Meets(c, Tail(keys))
  PROVE  Meets(c, keys)
<1>1. PICK t : t = Tail(keys)
  OBVIOUS
<1>2. /\ t \in Seq(S) /\ Len(t) = Len(keys) - 1 /\ Len(keys) \in Nat
      /\ \A i \in 1..Len(t) : t[i] = keys[i + 1]
  BY <1>1, HeadTailProperties
<1>3. DOMAIN t = 1..Len(t) /\ DOMAIN keys = 1..Len(keys)
  BY <1>2
<1>4. \A i \in 1..Len(t) : i + 1 \in 1..Len(keys)
  BY <1>2
<1>5. ToSet(t) \subseteq ToSet(keys)
  BY <1>2, <1>3, <1>4 DEF ToSet
<1>. QED BY <1>1, <1>5 DEF Meets

LEMMA ToSetAppend ==
  ASSUME NEW S, NEW s \in Seq(S), NEW e \in S
  PROVE  ToSet(Append(s, e)) = ToSet(s) \cup {e} /\ ToSet(s) \subseteq S
<1>1. PICK t : t = Append(s, e)
  OBVIOUS
<1>2. /\ t \in Seq(S) /\ Len(t) = Len(s) + 1 /\ Len(s) \in Nat
      /\ \A i \in 1..Len(s) : t[i] = s[i]
      /\ t[Len(s) + 1] = e
  BY <1>1, AppendProperties
<1>3. DOMAIN t = 1..(Len(s) + 1) /\ DOMAIN s = 1..Len(s)
  BY <1>2
<1>4. 1..(Len(s) + 1) = (1..Len(s)) \cup {Len(s) + 1}
  BY <1>2
<1>5. ToSet(t) = ToSet(s) \cup {e}
  BY <1>2, <1>3, <1>4 DEF ToSet
<1>6. ToSet(s) \subseteq S
  BY <1>3 DEF ToSet
<1>. QED BY <1>1, <1>5, <1>6

\* A key that is new meets no character there is.
LEMMA MeetsFresh ==
  ASSUME NEW K, NEW L, NEW c \in Char(K), NEW keys \in Seq(L), NEW key \in L, key \notin K
  PROVE  Meets(c, Append(keys, key)) <=> Meets(c, keys)
<1>1. ToSet(Append(keys, key)) = ToSet(keys) \cup {key}
  BY ToSetAppend
<1>2. key \notin ToSet(c.keys)
  <2>1. c.keys \in Seq(K)
    BY DEF Char, Some
  <2>2. ToSet(c.keys) \subseteq K
    <3>1. PICK s : s = c.keys
      OBVIOUS
    <3>2. DOMAIN s = 1..Len(s) /\ s \in Seq(K)
      BY <2>1, <3>1
    <3>3. ToSet(s) \subseteq K
      BY <3>2 DEF ToSet
    <3>. QED BY <3>1, <3>3
  <2>. QED BY <2>2
<1>. QED BY <1>1, <1>2 DEF Meets

LEMMA BehindCut ==
  ASSUME NEW C, NEW x \in Seq(C), NEW m \in Seq(C), NEW keys,
         Behind(x \o m, keys), AllMeet(m, keys)
  PROVE  m = <<>>
<1>. SUFFICES ASSUME m # <<>> PROVE FALSE
  OBVIOUS
<1>1. PICK f \in Seq(C), c \in C : m = Append(f, c)
  BY SequenceEmptyOrAppend
<1>2. Meets(c, keys)
  BY <1>1, MeetAppend
<1>3. PICK t : t = x \o f
  OBVIOUS
<1>4. t \in Seq(C)
  BY <1>3, ConcatProperties
<1>5. x \o m = Append(t, c)
  <2>1. /\ m = f \o <<c>> /\ Append(t, c) = t \o <<c>> /\ <<c>> \in Seq(C)
    BY <1>1, <1>4, AppendIsConcat
  <2>2. Regroups(x, f, <<c>>)
    BY <2>1, RegroupedAny
  <2>. QED BY <1>3, <2>1, <2>2 DEF Regroups
<1>6. LastProperties(t, c, C)
  BY <1>4, LastOfAppend
<1>. QED BY <1>2, <1>5, <1>6 DEF Behind, LastProperties

\* The composition is one syllable.
LEMMA SpelledComposition ==
  ASSUME NEW text \in Seq(Char(AnyKey)), NEW composed \in Seq(AnyKey), NEW keys,
         SpelledBehind(text, composed, keys)
  PROVE  Syllables(composed) = <<composed>>
<1>1. PICK none : none = <<>>
  OBVIOUS
<1>2. /\ none \in Seq(Char(AnyKey)) /\ text = text \o none /\ AllMeet(none, keys)
  BY <1>1, ConcatEmptySeq DEF AllMeet
<1>3. Groups(none) = none
  BY <1>1 DEF Groups
<1>4. Spelled(Append(none, composed))
  BY <1>2, <1>3 DEF SpelledBehind
<1>5. Append(none, composed) = <<composed>>
  BY <1>1
<1>6. FlattenSeq(<<composed>>) = composed
  BY FlattenOne
<1>. QED BY <1>4, <1>5, <1>6 DEF Spelled

LEMMA SpelledAlone ==
  ASSUME NEW text, NEW composed \in Seq(AnyKey), Syllables(composed) = <<composed>>
  PROVE  SpelledBehind(text, composed, <<>>)
<1>. SUFFICES ASSUME NEW x \in Seq(Char(AnyKey)), NEW y \in Seq(Char(AnyKey)),
                     AllMeet(y, <<>>)
              PROVE  Spelled(Append(Groups(y), composed))
  BY DEF SpelledBehind
<1>1. Len(y) = 0
  <2>1. Len(y) # 0 => 1 \in 1..Len(y)
    OBVIOUS
  <2>. QED BY <2>1, MeetsNothing DEF AllMeet
<1>2. Groups(y) = <<>>
  BY <1>1 DEF Groups
<1>3. Append(Groups(y), composed) = <<composed>>
  BY <1>2
<1>4. FlattenSeq(<<composed>>) = composed
  BY FlattenOne
<1>. QED BY <1>3, <1>4 DEF Spelled

\* Fewer keys in the buffer.
LEMMA ShapeFewer ==
  ASSUME NEW text, NEW composed, NEW keys, NEW fewer,
         \A c : Meets(c, fewer) => Meets(c, keys)
  PROVE  /\ OneKey(text, keys) => OneKey(text, fewer)
         /\ Behind(text, keys) => Behind(text, fewer)
         /\ SpelledBehind(text, composed, keys) => SpelledBehind(text, composed, fewer)
<1>1. OneKey(text, keys) => OneKey(text, fewer)
  BY DEF OneKey
<1>2. Behind(text, keys) => Behind(text, fewer)
  BY DEF Behind
<1>3. \A y : AllMeet(y, fewer) => AllMeet(y, keys)
  BY DEF AllMeet
<1>4. SpelledBehind(text, composed, keys) => SpelledBehind(text, composed, fewer)
  BY <1>3 DEF SpelledBehind
<1>. QED BY <1>1, <1>2, <1>4

\* With an empty buffer all that matters is the composition.
Single(composed) == composed # <<>> => Syllables(composed) = <<composed>>

LEMMA ShapeEmpty ==
  ASSUME buf' = <<>>, category' = "English" => comp' = <<>>,
         comp' \in Seq(AnyKey), category' = "Korean" /\ ~word' => Single(comp')
  PROVE  ShapeOK'
<1>1. OneKey(doc', buf') /\ Behind(doc', buf')
  BY MeetsNothing DEF OneKey, Behind
<1>2. category' = "Korean" /\ ~word' /\ comp' # <<>> => SpelledBehind(doc', comp', buf')
  BY SpelledAlone DEF Single
<1>. QED BY <1>1, <1>2 DEF ShapeOK

\* TextOK in terms of keys of any time
LEMMA AnyText ==
  ASSUME TextOK
  PROVE  /\ doc \in Seq(Char(AnyKey)) /\ comp \in Seq(AnyKey) /\ buf \in Seq(AnyKey)
         /\ Known \subseteq AnyKey
<1>1. Known \subseteq AnyKey
  BY DEF Known, AnyKey
<1>. QED BY <1>1, CharGrows DEF TextOK

LEMMA CompositionSingle ==
  ASSUME TextOK, ShapeOK, category = "Korean", ~word
  PROVE  Single(comp)
<1>1. comp # <<>> => SpelledBehind(doc, comp, buf)
  BY DEF ShapeOK
<1>. QED BY <1>1, AnyText, SpelledComposition DEF Single

-----------------------------------------------------------------------------
(* The shape is kept. *)

GroupsEnd(m, y, l) == Groups(m) \o Append(Groups(y), l) = Append(Groups(m \o y), l)

LEMMA GroupsAppend ==
  ASSUME NEW K, NEW m \in Seq(Char(K)), NEW y \in Seq(Char(K)), NEW l \in Some(K)
  PROVE  GroupsEnd(m, y, l)
<1>1. PICK p, q : p = Groups(m) /\ q = Groups(y)
  OBVIOUS
<1>2. p \in Seq(Some(K)) /\ q \in Seq(Some(K)) /\ <<l>> \in Seq(Some(K))
  BY <1>1, GroupsType DEF GroupsOf
<1>3. Groups(m \o y) = p \o q
  BY <1>1, GroupsConcat
<1>4. Append(q, l) = q \o <<l>> /\ Append(p \o q, l) = (p \o q) \o <<l>>
  BY <1>2, AppendIsConcat, ConcatProperties
<1>5. Regroups(p, q, <<l>>)
  BY <1>2, RegroupedAny
<1>. QED BY <1>1, <1>3, <1>4, <1>5 DEF Regroups, GroupsEnd

\* An end of what a syllable became, with the composition behind it
LEMMA SpelledWithin ==
  ASSUME NEW K, NEW typed \in Seq(K), NEW a \in Seq(Some(K)), NEW l \in Some(K),
         Syllables(typed) = Append(a, l),
         NEW m \in Seq(Char(K)), NEW y \in Seq(Char(K)), Korean(a) = m \o y
  PROVE  Spelled(Append(Groups(y), l))
<1>1. Groups(Korean(a)) = a
  BY KoreanType
<1>2. a = Groups(m \o y)
  BY <1>1
<1>3. Syllables(typed) = Groups(m) \o Append(Groups(y), l)
  <2>1. GroupsEnd(m, y, l)
    BY GroupsAppend
  <2>. QED BY <1>2, <2>1, Zenon DEF GroupsEnd
<1>4. Groups(m) \in Seq(Some(K)) /\ Groups(y) \in Seq(Some(K))
  BY GroupsType DEF GroupsOf
<1>5. Append(Groups(y), l) \in Seq(Some(K))
  BY <1>4, AppendProperties
<1>. QED BY <1>3, <1>4, <1>5, SpelledSuffix

\* What the text had behind it, and all a syllable became
LEMMA SpelledBeyond ==
  ASSUME NEW K, NEW composed \in Some(K), NEW key \in K,
         Syllables(composed) = <<composed>>,
         NEW a \in Seq(Some(K)), NEW l \in Some(K),
         Syllables(Append(composed, key)) = Append(a, l),
         NEW m \in Seq(Char(K)), Spelled(Append(Groups(m), composed))
  PROVE  Spelled(Append(Groups(m \o Korean(a)), l))
<1>1. PICK e : e = Ending(composed, key)
  OBVIOUS
<1>2. e \in Seq(Some(K)) /\ e = Append(a, l)
  <2>1. composed \in Seq(K)
    BY DEF Some
  <2>2. Syllables(Append(composed, key)) = AddJamo(<<composed>>, key)
    BY <2>1, SyllablesAppend
  <2>3. PICK none : none = <<>>
    OBVIOUS
  <2>4. none \in Seq(Some(K)) /\ <<composed>> = Append(none, composed)
    BY <2>3
  <2>5. AddJamo(<<composed>>, key) = none \o e
    BY <1>1, <2>4, AddJamoLast
  <2>6. e \in Seq(Some(K))
    BY <1>1, EndingText
  <2>7. none \o e = e
    BY <2>3, <2>6, ConcatEmptySeq
  <2>. QED BY <2>2, <2>5, <2>6, <2>7
<1>3. PICK g : g = Groups(m)
  OBVIOUS
<1>4. g \in Seq(Some(K))
  BY <1>3, GroupsType DEF GroupsOf
<1>5. Spelled(g \o e)
  BY <1>1, <1>3, <1>4, SpelledMore
<1>6. Korean(a) \in Seq(Char(K)) /\ Groups(Korean(a)) = a
  BY KoreanType
<1>7. g \o Append(a, l) = Append(Groups(m \o Korean(a)), l)
  <2>1. PICK y : y = Korean(a)
    OBVIOUS
  <2>2. y \in Seq(Char(K)) /\ Groups(y) = a
    BY <1>6, <2>1
  <2>3. GroupsEnd(m, y, l)
    BY <2>2, GroupsAppend
  <2>. QED BY <1>3, <2>1, <2>2, <2>3 DEF GroupsEnd
<1>. QED BY <1>2, <1>5, <1>7

LEMMA SpelledLetter ==
  ASSUME NEW K, NEW L, K \subseteq L, L \subseteq AnyKey,
         NEW text \in Seq(Char(K)), NEW composed \in Seq(L), NEW keys \in Seq(L),
         NEW key \in L, key \notin K,
         composed = <<>> => Behind(text, keys),
         composed # <<>> => SpelledBehind(text, composed, keys),
         NEW a \in Seq(Some(L)), NEW l \in Some(L),
         Syllables(Append(composed, key)) = Append(a, l)
  PROVE  SpelledBehind(text \o Korean(a), l, Append(keys, key))
<1>. SUFFICES ASSUME NEW x \in Seq(Char(AnyKey)), NEW y \in Seq(Char(AnyKey)),
                     text \o Korean(a) = x \o y, AllMeet(y, Append(keys, key))
              PROVE  Spelled(Append(Groups(y), l))
  BY DEF SpelledBehind
<1>. DEFINE C == Char(AnyKey)
<1>1. /\ text \in Seq(C) /\ composed \in Seq(AnyKey) /\ keys \in Seq(AnyKey)
      /\ key \in AnyKey /\ a \in Seq(Some(AnyKey)) /\ l \in Some(AnyKey)
  <2>1. text \in Seq(Char(L))
    BY CharGrows
  <2>2. text \in Seq(C) /\ composed \in Seq(AnyKey) /\ keys \in Seq(AnyKey)
    BY <2>1, CharGrows
  <2>3. Some(L) \subseteq Some(AnyKey)
    BY CharGrows
  <2>4. a \in Seq(Some(AnyKey)) /\ l \in Some(AnyKey)
    BY <2>3, SeqMonotonic
  <2>. QED BY <2>2, <2>4
<1>2. PICK k : k = Korean(a)
  OBVIOUS
<1>3. k \in Seq(C)
  BY <1>1, <1>2, KoreanType
<1>. HIDE DEF C
<1>4. PICK typed : typed = Append(composed, key)
  OBVIOUS
<1>5. typed \in Seq(AnyKey) /\ Syllables(typed) = Append(a, l)
  BY <1>1, <1>4, AppendProperties
<1>6. ASSUME NEW m \in Seq(C), k = m \o y
      PROVE  Spelled(Append(Groups(y), l))
  BY <1>1, <1>2, <1>5, <1>6, SpelledWithin DEF C
<1>7. CASE Len(y) <= Len(k)
  <2>1. Cut(text, k, x, y, C)
    BY <1>1, <1>2, <1>3, <1>7, CutLonger DEF C
  <2>. QED BY <1>6, <2>1 DEF Cut
<1>8. CASE Len(k) <= Len(y)
  <2>1. Cut(x, y, text, k, C)
    <3>1. x \in Seq(C) /\ y \in Seq(C) /\ x \o y = text \o k
      BY <1>2 DEF C
    <3>. QED BY <1>1, <1>3, <1>8, <3>1, CutLonger
  <2>2. PICK m \in Seq(C) : y = m \o k /\ text = x \o m
    BY <2>1 DEF Cut
  <2>3. AllMeet(m, keys)
    <3>1. AllMeet(m, Append(keys, key))
      BY <1>3, <2>2, MeetConcat
    <3>2. ASSUME NEW i \in 1..Len(m) PROVE m[i] \in Char(K)
      <4>1. x \in Seq(C)
        BY DEF C
      <4>2. /\ Len(x \o m) = Len(x) + Len(m)
            /\ \A j \in 1..(Len(x) + Len(m)) :
                 (x \o m)[j] = IF j <= Len(x) THEN x[j] ELSE m[j - Len(x)]
        BY <4>1, ConcatProperties
      <4>3. PICK p, q, j \in Nat : p = Len(x) /\ q = Len(m) /\ j = p + i
        BY <4>1
      <4>4. j \in 1..(p + q) /\ ~(j <= p) /\ j - p = i
        BY <4>3
      <4>5. (x \o m)[j] = m[i]
        BY <4>2, <4>3, <4>4
      <4>6. j \in 1..Len(text)
        BY <2>2, <4>2, <4>3, <4>4
      <4>7. text[j] \in Char(K)
        BY <4>6
      <4>. QED BY <2>2, <4>5, <4>7
    <3>3. \A i \in 1..Len(m) : Meets(m[i], Append(keys, key)) <=> Meets(m[i], keys)
      BY <3>2, MeetsFresh
    <3>. QED BY <3>1, <3>3 DEF AllMeet
  <2>4. CASE composed = <<>>
    <3>1. m = <<>>
      <4>1. x \in Seq(C)
        BY DEF C
      <4>2. Behind(x \o m, keys)
        BY <2>2, <2>4
      <4>. QED BY <2>3, <4>1, <4>2, BehindCut
    <3>2. y = k /\ k = <<>> \o y /\ <<>> \in Seq(C)
      BY <1>3, <2>2, <3>1, ConcatEmptySeq, EmptySeq
    <3>. QED BY <1>6, <3>2
  <2>5. CASE composed # <<>>
    <3>1. Spelled(Append(Groups(m), composed))
      BY <2>2, <2>3, <2>5 DEF SpelledBehind, C
    <3>2. Syllables(composed) = <<composed>>
      BY <1>1, <2>5, SpelledComposition DEF C
    <3>3. composed \in Some(AnyKey) /\ Syllables(Append(composed, key)) = Append(a, l)
      BY <1>1, <2>5 DEF Some
    <3>4. m \in Seq(Char(AnyKey))
      BY DEF C
    <3>5. Spelled(Append(Groups(m \o Korean(a)), l))
      BY <1>1, <3>1, <3>2, <3>3, <3>4, SpelledBeyond
    <3>. QED BY <1>2, <2>2, <3>5
  <2>. QED BY <2>4, <2>5
<1>9. Len(y) <= Len(k) \/ Len(k) <= Len(y)
  <2>1. Len(y) \in Nat /\ Len(k) \in Nat
    BY <1>3
  <2>. QED BY <2>1
<1>. QED BY <1>7, <1>8, <1>9

LEMMA FreshCarries ==
  ASSUME NEW K, NEW L, K \subseteq L, NEW text \in Seq(Char(K)), NEW keys \in Seq(L),
         NEW key \in L, key \notin K
  PROVE  /\ \A i \in 1..Len(text) : Meets(text[i], Append(keys, key)) <=> Meets(text[i], keys)
         /\ Behind(text, keys) => Behind(text, Append(keys, key))
<1>1. \A c \in Char(K) : Meets(c, Append(keys, key)) <=> Meets(c, keys)
  BY MeetsFresh
<1>2. \A i \in 1..Len(text) : Meets(text[i], Append(keys, key)) <=> Meets(text[i], keys)
  <2>1. \A i \in 1..Len(text) : text[i] \in Char(K)
    OBVIOUS
  <2>. QED BY <1>1, <2>1
<1>3. text # <<>> => Last(text) \in Char(K)
  <2>. SUFFICES ASSUME text # <<>> PROVE Last(text) \in Char(K)
    OBVIOUS
  <2>1. \E s \in Seq(Char(K)), e \in Char(K) :
          text = Append(s, e) /\ Last(text) = e /\ Front(text) = s
    BY Ended
  <2>. QED BY <2>1
<1>4. Behind(text, keys) => Behind(text, Append(keys, key))
  BY <1>1, <1>3 DEF Behind
<1>. QED BY <1>2, <1>4

\* One character more, made of one key
LEMMA OneKeyAppend ==
  ASSUME NEW C, NEW text \in Seq(C), NEW c \in C, NEW keys,
         OneKey(text, keys), Len(c.keys) = 1
  PROVE  OneKey(Append(text, c), keys)
<1>1. PICK t : t = Append(text, c)
  OBVIOUS
<1>2. /\ Len(t) = Len(text) + 1 /\ Len(text) \in Nat
      /\ \A i \in 1..Len(text) : t[i] = text[i]
      /\ t[Len(text) + 1] = c
  BY <1>1, AppendProperties
<1>3. \A i \in 1..Len(t) : i \in 1..Len(text) \/ i = Len(text) + 1
  BY <1>2
<1>4. ASSUME NEW i \in 1..Len(t), Meets(t[i], keys) PROVE Len(t[i].keys) = 1
  <2>1. CASE i \in 1..Len(text)
    <3>1. t[i] = text[i]
      BY <1>2, <2>1
    <3>. QED BY <1>4, <2>1, <3>1 DEF OneKey
  <2>2. CASE i = Len(text) + 1
    BY <1>2, <2>2
  <2>. QED BY <1>3, <2>1, <2>2
<1>. QED BY <1>1, <1>4 DEF OneKey

\* A letter that is observed and fixed by nothing.
LEMMA ShapeNoFix ==
  ASSUME TextOK, ShapeOK, NEW kind \in Kinds, Letter(kind),
         TypeLetter(Key(kind)), buf' = Append(buf, Key(kind)), UNCHANGED <<category, word>>
  PROVE  ShapeOK'
<1>. DEFINE K == Known
            L == Known'
<1>1. PICK key : key = Key(kind)
  OBVIOUS
<1>2. /\ key \in L /\ key \notin K /\ doc \in Seq(Char(K)) /\ comp \in Seq(L)
      /\ buf \in Seq(L) /\ K \subseteq L /\ L \subseteq AnyKey
  <2>1. LetterText(kind)
    BY LetterKnows
  <2>2. Known \subseteq Known'
    BY <2>1, KnownGrows DEF TextOK, LetterText
  <2>3. Known' \subseteq AnyKey
    BY <2>1 DEF LetterText, Known, AnyKey
  <2>. QED BY <1>1, <2>1, <2>2, <2>3 DEF LetterText, TextOK
<1>. HIDE DEF K, L
<1>3. /\ \A i \in 1..Len(doc) : Meets(doc[i], buf') <=> Meets(doc[i], buf)
      /\ Behind(doc, buf) => Behind(doc, buf')
  BY <1>1, <1>2, FreshCarries
<1>4. CASE category = "English"
  <2>1. comp = <<>> /\ OneKey(doc, buf)
    BY <1>4 DEF ShapeOK
  <2>2. OneKey(doc, buf')
    BY <1>3, <2>1 DEF OneKey
  <2>3. PICK t : t = Ascii(<<key>>)
    OBVIOUS
  <2>4. PICK c : c = [script |-> "eng", keys |-> <<key>>]
    OBVIOUS
  <2>5. c.keys = <<key>>
    BY <2>4
  <2>6. c \in Char(L)
    <3>1. <<key>> \in Some(L)
      BY <1>2 DEF Some
    <3>. QED BY <2>4, <3>1 DEF Char
  <2>7. t = <<c>>
    <3>1. PICK ks : ks = <<key>>
      OBVIOUS
    <3>2. Len(ks) = 1 /\ ks[1] = key
      BY <3>1
    <3>3. t = [i \in 1..1 |-> c]
      BY <2>3, <2>4, <3>1, <3>2 DEF Ascii
    <3>. QED BY <3>3
  <2>8. doc' = doc \o t /\ comp' = comp
    BY <1>1, <1>4, <2>3 DEF TypeLetter
  <2>9. doc \in Seq(Char(L))
    BY <1>2, CharGrows
  <2>10. doc' = Append(doc, c)
    BY <2>6, <2>7, <2>8, <2>9, AppendIsConcat
  <2>11. Len(c.keys) = 1
    BY <2>5
  <2>12. OneKey(doc', buf')
    BY <2>2, <2>6, <2>9, <2>10, <2>11, OneKeyAppend
  <2>. QED BY <1>4, <2>1, <2>8, <2>12 DEF ShapeOK
<1>5. CASE category # "English"
  <2>0. category = "Korean" /\ category' = "Korean" /\ word' = word
    BY <1>5 DEF TextOK
  <2>1. PICK keys : keys = Append(comp, key)
    OBVIOUS
  <2>2. keys \in Some(L) /\ keys \in Seq(L) /\ keys # <<>>
    BY <1>2, <2>1, AppendProperties DEF Some
  <2>3. doc' = doc \o Korean(Settled(Syllables(keys))) /\ comp' = Composing(keys)
    BY <1>1, <1>5, <2>1 DEF TypeLetter
  <2>4. CASE word
    <3>1. doc' = doc /\ comp' = keys
      <4>1. Settled(Syllables(keys)) = <<>> /\ Composing(keys) = keys
        BY <2>4 DEF Settled, Composing
      <4>. QED BY <1>2, <2>3, <4>1, KoreanNone, ConcatEmptySeq
    <3>2. Behind(doc, buf)
      BY <2>0, <2>4 DEF ShapeOK
    <3>. QED BY <1>3, <2>0, <2>2, <2>4, <3>1, <3>2 DEF ShapeOK
  <2>5. CASE ~word
    <3>1. PICK a, l : a = Front(Syllables(keys)) /\ l = Last(Syllables(keys))
      OBVIOUS
    <3>2. a \in Seq(Some(L)) /\ l \in Some(L) /\ Syllables(keys) = Append(a, l)
      BY <2>2, <3>1, SpelledLast
    <3>3. doc' = doc \o Korean(a) /\ comp' = l
      BY <2>3, <2>5, <3>1 DEF Settled, Composing
    <3>4. l # <<>>
      BY <3>2 DEF Some
    <3>5. /\ comp = <<>> => Behind(doc, buf)
          /\ comp # <<>> => SpelledBehind(doc, comp, buf)
      BY <2>0, <2>5 DEF ShapeOK
    <3>6. SpelledBehind(doc \o Korean(a), l, Append(buf, key))
      BY <1>2, <2>1, <3>2, <3>5, SpelledLetter
    <3>7. SpelledBehind(doc', comp', buf')
      BY <1>1, <3>3, <3>6
    <3>. QED BY <2>0, <2>5, <3>3, <3>4, <3>7 DEF ShapeOK
  <2>. QED BY <2>4, <2>5
<1>. QED BY <1>4, <1>5

\* What a letter composes, when nothing before it is remembered
LEMMA LetterSingle ==
  ASSUME NEW K, NEW key \in K, comp \in Seq(K), TypeLetter(key),
         category = "Korean", ~word
  PROVE  Single(comp')
<1>1. PICK keys : keys = Append(comp, key)
  OBVIOUS
<1>2. keys \in Some(K)
  BY <1>1, AppendProperties DEF Some
<1>3. comp' = Composing(keys)
  BY <1>1 DEF TypeLetter
<1>. QED BY <1>2, <1>3, SettledComposed DEF Single

LEMMA ShapeLetter ==
  ASSUME TextOK, TextOK', ShapeOK, PasswordNotKept, NEW kind \in Kinds, Letter(kind)
  PROVE  ShapeOK'
<1>. DEFINE key == Key(kind)
            keys == Append(buf, key)
            direction == IF category = "English" THEN "Forward" ELSE "Reverse"
            found == CheckForward(keys) \/ CheckReverse(keys)
<1>0. UNCHANGED word /\ LetterText(kind) /\ category \in {"Korean", "English"}
  BY LetterKnows DEF Letter, TextOK
<1>1. comp' \in Seq(AnyKey)
  <2>1. Known' \subseteq AnyKey
    BY <1>0 DEF LetterText, Known, AnyKey
  <2>. QED BY <2>1, CharGrows DEF TextOK
<1>2. CASE TypeLetter(key) /\ UNCHANGED category /\ buf' = <<>>
  <2>1. category = "English" => comp' = <<>>
    BY <1>2 DEF TypeLetter, ShapeOK
  <2>2. category = "Korean" /\ ~word => Single(comp')
    BY <1>0, <1>2, LetterSingle DEF LetterText
  <2>. QED BY <1>0, <1>1, <1>2, <2>1, <2>2, ShapeEmpty
<1>3. CASE TypeLetter(key) /\ UNCHANGED category /\ buf' = keys
  BY <1>0, <1>3, ShapeNoFix
<1>4. CASE Fix(keys, direction)
  <2>1. keys \in Some(Known') /\ buf' = <<>>
    BY <1>0, <1>4 DEF LetterText, Fix
  <2>2. CASE direction = "Forward"
    <3>1. comp' = Composing(keys) /\ category' = "Korean"
      BY <1>4, <2>2 DEF Fix, FixForward
    <3>2. ~word => Single(comp')
      BY <2>1, <3>1, SettledComposed DEF Single
    <3>. QED BY <1>0, <1>1, <2>1, <3>1, <3>2, ShapeEmpty
  <2>3. CASE direction # "Forward"
    <3>1. comp' = <<>> /\ category' = "English"
      BY <1>4, <2>3 DEF Fix, FixReverse
    <3>. QED BY <1>1, <2>1, <3>1, ShapeEmpty
  <2>. QED BY <2>2, <2>3
<1>5. blocked => buf = <<>>
  BY DEF PasswordNotKept
<1>. QED BY <1>2, <1>3, <1>4, <1>5 DEF Letter, Unobserved, NoFix, Learn

LEMMA ShapeReset ==
  ASSUME TextOK, ShapeOK, Reset
  PROVE  ShapeOK'
<1>1. PICK key : key = [id |-> count + 1, kind |-> "old"]
  OBVIOUS
<1>2. PICK c : c = Old(key)
  OBVIOUS
<1>3. /\ doc' = Append(Confirmed, c) /\ comp' = <<>>
      /\ UNCHANGED <<word, category, buf>>
  BY <1>1, <1>2 DEF Reset
<1>4. /\ doc \in Seq(Char(AnyKey)) /\ Confirmed \in Seq(Char(AnyKey))
      /\ buf \in Seq(Known) /\ c \in Char(AnyKey)
      /\ c.keys = <<key>> /\ key \notin Known
  <2>1. doc \in Seq(Char(AnyKey)) /\ comp \in Seq(AnyKey) /\ buf \in Seq(Known)
    BY AnyText DEF TextOK
  <2>2. Confirmed \in Seq(Char(AnyKey))
    BY <2>1, ConfirmedType
  <2>3. key \in AnyKey /\ key \notin Known
    BY <1>1 DEF AnyKey, Known, TextOK
  <2>4. c \in Char(AnyKey) /\ c.keys = <<key>>
    BY <1>2, <2>3, OldType DEF Old
  <2>. QED BY <2>1, <2>2, <2>3, <2>4
<1>5. ~Meets(c, buf)
  <2>1. ToSet(buf) \subseteq Known
    <3>1. DOMAIN buf = 1..Len(buf) /\ \A i \in 1..Len(buf) : buf[i] \in Known
      BY <1>4
    <3>. QED BY <3>1 DEF ToSet
  <2>2. ToSet(<<key>>) = {key}
    <3>1. PICK s : s = <<key>>
      OBVIOUS
    <3>2. DOMAIN s = {1} /\ s[1] = key
      BY <3>1
    <3>3. ToSet(s) = {key}
      BY <3>2 DEF ToSet
    <3>. QED BY <3>1, <3>3
  <2>. QED BY <1>4, <2>1, <2>2 DEF Meets
<1>6. CASE category = "English"
  <2>1. Confirmed = doc /\ OneKey(doc, buf)
    BY <1>4, <1>6, ConfirmedNone DEF ShapeOK
  <2>2. Len(c.keys) = 1
    BY <1>4
  <2>3. OneKey(doc', buf')
    BY <1>3, <1>4, <2>1, <2>2, OneKeyAppend
  <2>. QED BY <1>3, <1>6, <2>3 DEF ShapeOK
<1>7. CASE category # "English"
  <2>1. LastProperties(Confirmed, c, Char(AnyKey))
    BY <1>4, LastOfAppend
  <2>2. Behind(doc', buf')
    BY <1>3, <1>5, <2>1 DEF Behind, LastProperties
  <2>. QED BY <1>3, <1>7, <2>2 DEF ShapeOK
<1>. QED BY <1>6, <1>7

LEMMA ShapeStep ==
  TextOK /\ TextOK' /\ ShapeOK /\ PasswordNotKept /\ [Next]_vars => ShapeOK'
<1>. SUFFICES ASSUME TextOK, TextOK', ShapeOK, PasswordNotKept, [Next]_vars PROVE ShapeOK'
  OBVIOUS
<1>0. comp' \in Seq(AnyKey)
  <2>1. Known' \subseteq AnyKey
    BY DEF Known, AnyKey, TextOK
  <2>. QED BY <2>1, CharGrows DEF TextOK
<1>00. Single(<<>>) /\ (blocked => buf = <<>>)
  BY DEF Single, PasswordNotKept
<1>1. ASSUME NEW kind \in Kinds, Letter(kind) PROVE ShapeOK'
  BY <1>1, ShapeLetter
<1>2. CASE buf' = <<>> /\ comp' = <<>>
  BY <1>0, <1>00, <1>2, ShapeEmpty
<1>3. CASE Break
  BY <1>00, <1>2, <1>3 DEF Break
<1>4. CASE Toggle \/ ChangeField
  BY <1>2, <1>4 DEF Toggle, ChangeField, Forget
<1>5. CASE EnterPassword
  BY <1>2, <1>5 DEF EnterPassword, Forget
<1>6. CASE Reset
  BY <1>6, ShapeReset
<1>7. CASE buf' = <<>> /\ UNCHANGED <<category, word, comp>>
  <2>1. category = "English" => comp = <<>>
    BY DEF ShapeOK
  <2>2. category = "Korean" /\ ~word => Single(comp)
    BY CompositionSingle
  <2>. QED BY <1>0, <1>7, <2>1, <2>2, ShapeEmpty
<1>8. CASE Backspace
  <2>1. buf' = <<>> /\ UNCHANGED <<category, word>>
    BY <1>00, <1>8 DEF Backspace
  <2>2. CASE comp = <<>>
    BY <1>7, <1>8, <2>1, <2>2 DEF Backspace
  <2>3. CASE comp # <<>>
    <3>1. comp' = Front(comp) /\ category # "English"
      BY <1>8, <2>3 DEF Backspace, ShapeOK
    <3>2. comp \in Some(AnyKey)
      BY <2>3, AnyText DEF Some
    <3>3. category = "Korean" /\ ~word => Single(comp')
      <4>1. category = "Korean" /\ ~word => Syllables(comp) = <<comp>>
        BY <2>3, CompositionSingle DEF Single
      <4>. QED BY <3>1, <3>2, <4>1, SpelledFront DEF Single
    <3>. QED BY <1>0, <2>1, <3>1, <3>3, ShapeEmpty
  <2>. QED BY <2>2, <2>3
<1>9. CASE Undo
  <2>1. buf' = <<>> /\ UNCHANGED <<category, word>> /\ (comp' = <<>> \/ comp' = comp)
    BY <1>9 DEF Undo
  <2>. QED BY <1>2, <1>7, <2>1
<1>10. CASE UNCHANGED <<category, word, doc, comp, buf>>
  BY <1>10 DEF ShapeOK
<1>11. CASE KeysExpire
  <2>1. buf # <<>> /\ buf' = Tail(buf) /\ UNCHANGED <<category, word, doc, comp>>
    BY <1>11 DEF KeysExpire
  <2>2. \A c : Meets(c, Tail(buf)) => Meets(c, buf)
    BY <2>1, MeetsTail DEF TextOK
  <2>3. /\ OneKey(doc, buf) => OneKey(doc, Tail(buf))
        /\ Behind(doc, buf) => Behind(doc, Tail(buf))
        /\ SpelledBehind(doc, comp, buf) => SpelledBehind(doc, comp, Tail(buf))
    BY <2>2, ShapeFewer
  <2>. QED BY <2>1, <2>3 DEF ShapeOK
<1>12. CASE UndoExpires \/ ObservationEnds
  BY <1>10, <1>12 DEF UndoExpires, ObservationEnds
<1>13. CASE TentativeExpires \/ EditBlacklist
  BY <1>10, <1>13 DEF TentativeExpires, EditBlacklist, SetStatus
<1>14. CASE UNCHANGED vars
  BY <1>10, <1>14 DEF vars
<1>. QED BY <1>1, <1>3, <1>4, <1>5, <1>6, <1>8, <1>9, <1>11, <1>12, <1>13, <1>14 DEF Next

-----------------------------------------------------------------------------
(* The fix *)

LEMMA OneKeyEnd ==
  ASSUME NEW C, NEW s \in Seq(C), NEW t \in Seq(C), NEW keys, OneKey(s \o t, keys)
  PROVE  OneKey(t, keys)
<1>1. PICK u : u = s \o t
  OBVIOUS
<1>2. /\ Len(u) = Len(s) + Len(t) /\ Len(s) \in Nat /\ Len(t) \in Nat
      /\ \A i \in 1..(Len(s) + Len(t)) : u[i] = IF i <= Len(s) THEN s[i] ELSE t[i - Len(s)]
  BY <1>1, ConcatProperties
<1>3. \A i \in 1..Len(t) : Len(s) + i \in 1..Len(u) /\ u[Len(s) + i] = t[i]
  <2>. TAKE i \in 1..Len(t)
  <2>1. PICK j : j = Len(s) + i
    OBVIOUS
  <2>2. j \in 1..(Len(s) + Len(t)) /\ ~(j <= Len(s)) /\ j - Len(s) = i
    BY <1>2, <2>1
  <2>. QED BY <1>2, <2>1, <2>2
<1>. QED BY <1>1, <1>3 DEF OneKey

\* Where the buffer is aligned the text is cut before its first key, for the
\* buffer with the new key as well.
LEMMA AlignedCut ==
  ASSUME TextOK, Aligned, NEW kind \in Kinds, Letter(kind)
  PROVE  LET kept == Without(Shown, Append(buf, Key(kind)))
         IN  /\ Shown = Confirmed
             /\ \E rest : Parts(Confirmed, kept, rest, buf, Char(Known))
<1>1. Shown = Confirmed
  BY DEF Aligned, Shown
<1>2. PICK text : text = Confirmed
  OBVIOUS
<1>3. text \in Seq(Char(Known)) /\ buf \in Seq(Known)
  BY <1>2, ConfirmedType DEF TextOK
<1>4. PICK kept : kept = Without(text, buf)
  OBVIOUS
<1>5. IsPrefix(kept, text) /\ KeysOf(text) = KeysOf(kept) \o buf
  BY <1>1, <1>2, <1>4 DEF Aligned
<1>6. \E rest : Parts(text, kept, rest, buf, Char(Known))
  BY <1>3, <1>4, <1>5, AlignedParts
<1>7. Without(text, Append(buf, Key(kind))) = Without(text, buf)
  <2>1. LetterText(kind) /\ Known \subseteq Known'
    BY LetterKnows, KnownGrows DEF TextOK, Letter
  <2>2. \A i \in 1..Len(text) : Meets(text[i], Append(buf, Key(kind))) <=> Meets(text[i], buf)
    BY <1>3, <2>1, FreshCarries DEF LetterText
  <2>. QED BY <2>2, WithoutSame
<1>. QED BY <1>1, <1>2, <1>4, <1>6, <1>7

\* Every character of the word in English was one key.
LEMMA ForwardText ==
  ASSUME TextOK, ShapeOK, category = "English",
         NEW key, NEW keys, keys = Append(buf, key), NEW kept, NEW rest,
         Parts(Confirmed, kept, rest, buf, Char(Known))
  PROVE  EraseLast(doc, ForwardDelete(keys)) = kept
<1>1. Confirmed = doc /\ OneKey(doc, buf)
  BY ConfirmedNone DEF TextOK, ShapeOK
<1>2. /\ kept \in Seq(Char(Known)) /\ rest \in Seq(Char(Known)) /\ doc = kept \o rest
      /\ AllMeet(rest, buf) /\ KeysOf(rest) = buf
  BY <1>1 DEF Parts
<1>3. OneKey(rest, buf)
  BY <1>1, <1>2, OneKeyEnd
<1>4. Len(rest) = Len(buf)
  <2>1. \A i \in 1..Len(rest) : Len(rest[i].keys) = 1
    BY <1>2, <1>3 DEF OneKey, AllMeet
  <2>2. Len(KeysOf(rest)) = Len(rest)
    BY <1>2, <2>1, OneKeyEach
  <2>. QED BY <1>2, <2>2
<1>5. ForwardDelete(keys) = Len(rest)
  <2>1. Len(keys) = Len(buf) + 1 /\ Len(buf) \in Nat
    <3>1. buf \in Seq(Known)
      BY DEF TextOK
    <3>2. buf \in Seq(Known \cup {key}) /\ key \in Known \cup {key}
      BY <3>1, SeqMonotonic
    <3>3. Len(Append(buf, key)) = Len(buf) + 1 /\ Len(buf) \in Nat
      BY <3>2, AppendProperties
    <3>. QED BY <3>3
  <2>2. PICK m, n : m = Len(keys) /\ n = Len(buf)
    OBVIOUS
  <2>3. m - 1 = n
    BY <2>1, <2>2
  <2>. QED BY <1>4, <2>2, <2>3 DEF ForwardDelete
<1>6. EraseLast(kept \o rest, Len(rest)) = kept
  BY <1>2, EraseRest
<1>. QED BY <1>2, <1>5, <1>6

\* The composition is of the buffer, syllable by syllable.
LEMMA ComposedMeets ==
  ASSUME TextOK, ToSet(comp) \subseteq ToSet(buf)
  PROVE  AllMeet(Korean(Syllables(comp)), buf)
<1>. DEFINE K == ToSet(comp)
<1>1. comp \in Seq(K)
  <2>1. comp \in Seq(Known)
    BY DEF TextOK
  <2>2. DOMAIN comp = 1..Len(comp)
    BY <2>1
  <2>3. \A i \in 1..Len(comp) : comp[i] \in ToSet(comp)
    BY <2>2 DEF ToSet
  <2>. QED BY <2>1, <2>3
<1>. HIDE DEF K
<1>2. PICK g, k : g = Syllables(comp) /\ k = Korean(g)
  OBVIOUS
<1>3. g \in Seq(Some(K))
  BY <1>1, <1>2, SyllablesType
<1>4. Len(k) = Len(g) /\ \A i \in 1..Len(g) : k[i].keys = g[i]
  BY <1>2, <1>3, KoreanType
<1>5. ASSUME NEW i \in 1..Len(k) PROVE Meets(k[i], buf)
  <2>1. PICK s : s = g[i]
    OBVIOUS
  <2>2. s \in Some(K) /\ k[i].keys = s
    BY <1>3, <1>4, <2>1
  <2>3. s \in Seq(K) /\ s # <<>>
    BY <2>2 DEF Some
  <2>4. 1 \in DOMAIN s /\ s[1] \in K
    BY <2>3
  <2>5. s[1] \in ToSet(s) /\ s[1] \in ToSet(buf)
    BY <2>4 DEF ToSet, K
  <2>. QED BY <2>2, <2>5 DEF Meets
<1>. QED BY <1>2, <1>5 DEF AllMeet

\* The word on the screen is m, before the composition k, and k.
HasWord(text, k, keys, kept, rest, C) ==
  \E m \in Seq(C) : rest = m \o k /\ text = kept \o m /\ AllMeet(m, keys)

\* The word reaches from the kept text to the composition.
LEMMA WordCut ==
  ASSUME NEW C, NEW text \in Seq(C), NEW k \in Seq(C), NEW keys, NEW kept, NEW rest,
         Parts(text \o k, kept, rest, keys, C), AllMeet(k, keys)
  PROVE  HasWord(text, k, keys, kept, rest, C)
<1>1. /\ kept \in Seq(C) /\ rest \in Seq(C) /\ text \o k = kept \o rest
      /\ NoneMeets(kept, keys) /\ AllMeet(rest, keys)
  BY DEF Parts
<1>2. CASE Len(k) <= Len(rest)
  <2>1. Cut(kept, rest, text, k, C)
    BY <1>1, <1>2, CutLonger
  <2>2. PICK m \in Seq(C) : rest = m \o k /\ text = kept \o m
    BY <2>1 DEF Cut
  <2>3. AllMeet(m, keys)
    BY <1>1, <2>2, MeetConcat
  <2>. QED BY <2>2, <2>3 DEF HasWord
<1>3. CASE Len(rest) <= Len(k)
  <2>1. Cut(text, k, kept, rest, C)
    BY <1>1, <1>3, CutLonger
  <2>2. PICK m \in Seq(C) : k = m \o rest /\ kept = text \o m
    BY <2>1 DEF Cut
  <2>3. AllMeet(m, keys) /\ NoneMeets(m, keys)
    BY <1>1, <2>2, MeetConcat
  <2>4. m = <<>>
    <3>1. m # <<>> => 1 \in 1..Len(m)
      OBVIOUS
    <3>. QED BY <2>3, <3>1 DEF AllMeet, NoneMeets
  <2>5. k = rest /\ kept = text
    BY <1>1, <2>2, <2>4, ConcatEmptySeq
  <2>6. rest = m \o k /\ text = kept \o m
    BY <2>4, <2>5, ConcatEmptySeq
  <2>7. m \in Seq(C) /\ rest = m \o k /\ text = kept \o m /\ AllMeet(m, keys)
    BY <2>2, <2>3, <2>6
  <2>. QED BY <2>7 DEF HasWord
<1>4. Len(k) <= Len(rest) \/ Len(rest) <= Len(k)
  <2>1. Len(k) \in Nat /\ Len(rest) \in Nat
    BY <1>1
  <2>. QED BY <2>1
<1>. QED BY <1>2, <1>3, <1>4

\* The syllables before the composition are the characters before the caret.
LEMMA ReverseText ==
  ASSUME TextOK, ShapeOK, category = "Korean", ToSet(comp) \subseteq ToSet(buf),
         NEW key, NEW keys, keys = Append(buf, key), Len(keys) >= 2, NEW kept, NEW rest,
         Parts(Confirmed, kept, rest, buf, Char(Known))
  PROVE  EraseLast(doc, ReverseDelete(keys)) = kept
<1>. DEFINE C == Char(Known)
<1>0. doc \in Seq(C) /\ comp \in Seq(Known) /\ buf \in Seq(Known)
  BY DEF TextOK
<1>1. PICK k : k = Korean(Syllables(comp))
  OBVIOUS
<1>2. k \in Seq(C) /\ AllMeet(k, buf) /\ KeysOf(k) = comp
  BY <1>0, <1>1, ConfirmedType, ComposedMeets, KoreanText
<1>3. kept \in Seq(C) /\ KeysOf(rest) = buf /\ Parts(doc \o k, kept, rest, buf, C)
  BY <1>1 DEF Parts, Confirmed
<1>. HIDE DEF C
<1>a. HasWord(doc, k, buf, kept, rest, C)
  BY <1>0, <1>2, <1>3, WordCut
<1>4. PICK m \in Seq(C) : rest = m \o k /\ doc = kept \o m /\ AllMeet(m, buf)
  BY <1>a DEF HasWord
<1>5. Front(keys) = buf /\ buf # <<>>
  <2>1. buf \in Seq(Known \cup {key})
    BY <1>0, SeqMonotonic
  <2>2. LastProperties(buf, key, Known \cup {key})
    BY <2>1, LastOfAppend
  <2>3. buf = <<>> => Len(keys) = 1
    OBVIOUS
  <2>. QED BY <2>2, <2>3 DEF LastProperties
<1>6. word \/ comp = <<>> => m = <<>>
  <2>1. word \/ comp = <<>> => Behind(kept \o m, buf)
    BY <1>4 DEF ShapeOK
  <2>. QED BY <1>3, <1>4, <2>1, BehindCut
<1>7. comp # <<>>
  <2>. SUFFICES ASSUME comp = <<>> PROVE FALSE
    OBVIOUS
  <2>1. m = <<>>
    BY <1>6
  <2>2. k = <<>>
    BY <1>1, SyllablesNone, KoreanNone
  <2>3. rest = <<>>
    BY <1>2, <1>4, <2>1, <2>2, ConcatEmptySeq
  <2>4. Groups(rest) = <<>>
    BY <2>3 DEF Groups
  <2>5. KeysOf(rest) = <<>>
    BY <2>4, FlattenNone DEF KeysOf
  <2>. QED BY <1>3, <1>5, <2>5
<1>8. EraseLast(kept \o m, Len(m)) = kept
  BY <1>3, <1>4, EraseRest
<1>9. CASE word
  <2>1. ReverseDelete(keys) = 0
    BY <1>9 DEF ReverseDelete
  <2>2. Len(m) = 0
    BY <1>6, <1>9
  <2>. QED BY <1>4, <1>8, <2>1, <2>2
<1>10. CASE ~word
  <2>1. SpelledBehind(doc, comp, buf)
    BY <1>7, <1>10 DEF ShapeOK
  <2>2. kept \in Seq(Char(AnyKey)) /\ m \in Seq(Char(AnyKey))
    <3>1. Known \subseteq AnyKey
      BY AnyText
    <3>. QED BY <1>3, <1>4, <3>1, CharGrows DEF C
  <2>3. Spelled(Append(Groups(m), comp))
    BY <1>4, <2>1, <2>2 DEF SpelledBehind
  <2>4. PICK g : g = Groups(m)
    OBVIOUS
  <2>5. g \in Seq(Seq(Known)) /\ Len(g) = Len(m)
    BY <1>4, <2>4, GroupsType DEF GroupsOf, C
  <2>6. FlattenSeq(Append(g, comp)) = buf
    <3>1. FlattenSeq(Append(g, comp)) = FlattenSeq(g) \o comp
      BY <1>0, <2>5, FlattenAppend
    <3>2. FlattenSeq(g) = KeysOf(m)
      BY <2>4 DEF KeysOf
    <3>3. KeysOf(rest) = KeysOf(m) \o KeysOf(k)
      BY <1>2, <1>4, KeysOfConcat DEF C
    <3>. QED BY <1>2, <1>3, <3>1, <3>2, <3>3
  <2>7. Syllables(buf) = Append(g, comp)
    BY <2>3, <2>4, <2>6 DEF Spelled
  <2>8. Len(Append(g, comp)) = Len(m) + 1 /\ Len(m) \in Nat
    BY <1>0, <2>5, AppendProperties
  <2>9. ReverseDelete(keys) = Len(m)
    <3>1. ReverseDelete(keys) = Len(Append(g, comp)) - 1
      BY <1>5, <1>10, <2>7 DEF ReverseDelete
    <3>2. PICK n \in Nat : n = Len(m)
      BY <2>8
    <3>. QED BY <2>8, <3>1, <3>2
  <2>. QED BY <1>4, <1>8, <2>9
<1>. QED BY <1>9, <1>10

-----------------------------------------------------------------------------
(* The fix and its undo *)

\* The characters of the letters become what the letters give in the other script.
Replaced(keys, corrected) == Shown' = Without(Shown, keys) \o corrected

LEMMA ForwardFixed ==
  ASSUME TextOK, ShapeOK, Aligned, NEW kind \in Kinds, NEW keys, FixOf(kind, keys, "Forward")
  PROVE  Replaced(keys, Korean(Syllables(keys)))
<1>0. /\ Letter(kind) /\ keys = Append(buf, Key(kind)) /\ category = "English"
      /\ Fix(keys, "Forward")
  BY DEF FixOf
<1>1. PICK kept : kept = Without(Shown, keys)
  OBVIOUS
<1>2. PICK rest : Parts(Confirmed, kept, rest, buf, Char(Known))
  BY <1>0, <1>1, AlignedCut
<1>3. EraseLast(doc, ForwardDelete(keys)) = kept
  BY <1>0, <1>2, ForwardText
<1>4. keys \in Some(Known') /\ kept \in Seq(Char(Known'))
  <2>1. LetterText(kind) /\ Known \subseteq Known'
    BY <1>0, LetterKnows, KnownGrows DEF TextOK, Letter
  <2>2. keys \in Some(Known')
    BY <1>0, <2>1 DEF LetterText
  <2>3. kept \in Seq(Char(Known))
    BY <1>2 DEF Parts
  <2>. QED BY <2>1, <2>2, <2>3, CharGrows
<1>5. PICK a, c : a = Korean(Settled(Syllables(keys))) /\ c = Composing(keys)
  OBVIOUS
<1>6. PICK b, all : b = Korean(Syllables(c)) /\ all = Korean(Syllables(keys))
  OBVIOUS
<1>7. a \in Seq(Char(Known')) /\ b \in Seq(Char(Known')) /\ a \o b = all
  <2>1. /\ Settled(Syllables(keys)) \in Seq(Some(Known')) /\ c \in Some(Known')
        /\ a \o b = all
    BY <1>4, <1>5, <1>6, SettledComposed
  <2>2. a \in Seq(Char(Known'))
    BY <1>5, <2>1, KoreanType
  <2>3. Syllables(c) \in Seq(Some(Known'))
    BY <2>1, SyllablesType DEF Some
  <2>4. b \in Seq(Char(Known'))
    BY <1>6, <2>3, KoreanType
  <2>. QED BY <2>1, <2>2, <2>4
<1>8. doc' = kept \o a /\ comp' = c /\ hidden' = FALSE
  BY <1>0, <1>3, <1>5 DEF Fix, FixForward
<1>9. Shown' = (kept \o a) \o b
  <2>1. Shown' = doc' \o Korean(Syllables(comp'))
    BY <1>8 DEF Shown, Confirmed
  <2>. QED BY <1>6, <1>8, <2>1
<1>10. Regroups(kept, a, b)
  BY <1>4, <1>7, RegroupedAny
<1>11. Shown' = kept \o all
  BY <1>7, <1>9, <1>10 DEF Regroups
<1>. QED BY <1>1, <1>6, <1>11 DEF Replaced

LEMMA ReverseFixed ==
  ASSUME TextOK, ShapeOK, Aligned, NEW kind \in Kinds, NEW keys, FixOf(kind, keys, "Reverse")
  PROVE  Replaced(keys, Ascii(keys))
<1>0. /\ Letter(kind) /\ keys = Append(buf, Key(kind)) /\ category = "Korean"
      /\ Fix(keys, "Reverse")
      /\ CheckForward(keys) \/ CheckReverse(keys)
  BY DEF FixOf, TextOK
<1>1. PICK kept : kept = Without(Shown, keys)
  OBVIOUS
<1>2. PICK rest : Parts(Confirmed, kept, rest, buf, Char(Known))
  BY <1>0, <1>1, AlignedCut
<1>3. EraseLast(doc, ReverseDelete(keys)) = kept
  <2>1. Len(keys) >= 2
    BY <1>0, FoundTwo
  <2>2. ToSet(comp) \subseteq ToSet(buf)
    BY DEF Aligned
  <2>. QED BY <1>0, <1>2, <2>1, <2>2, ReverseText
<1>4. keys \in Some(Known') /\ kept \in Seq(Char(Known'))
  <2>1. LetterText(kind) /\ Known \subseteq Known'
    BY <1>0, LetterKnows, KnownGrows DEF TextOK, Letter
  <2>2. keys \in Some(Known')
    BY <1>0, <2>1 DEF LetterText
  <2>3. kept \in Seq(Char(Known))
    BY <1>2 DEF Parts
  <2>. QED BY <2>1, <2>2, <2>3, CharGrows
<1>5. PICK a : a = Ascii(keys)
  OBVIOUS
<1>6. a \in Seq(Char(Known'))
  BY <1>4, <1>5, AsciiType DEF Some
<1>7. doc' = kept \o a /\ comp' = <<>> /\ hidden' = FALSE
  <2>1. doc' = EraseLast(doc, ReverseDelete(keys)) \o Ascii(keys) /\ comp' = <<>>
    BY <1>0 DEF Fix, FixReverse
  <2>2. hidden' = FALSE
    BY <1>0 DEF Fix
  <2>. QED BY <1>3, <1>5, <2>1, <2>2
<1>8. Korean(Syllables(comp')) = <<>>
  BY <1>7, SyllablesNone, KoreanNone
<1>9. Shown' = (kept \o a) \o <<>>
  BY <1>7, <1>8 DEF Shown, Confirmed
<1>10. Shown' = kept \o a
  <2>1. PICK t : t = kept \o a
    OBVIOUS
  <2>2. t \in Seq(Char(Known'))
    BY <1>4, <1>6, <2>1
  <2>. QED BY <1>9, <2>1, <2>2, ConcatEmptySeq
<1>. QED BY <1>1, <1>5, <1>10 DEF Replaced

LEMMA FirstText == Init => TextOK /\ ShapeOK
<1>. SUFFICES ASSUME Init PROVE TextOK /\ ShapeOK
  OBVIOUS
<1>1. TextOK
  <2>1. count \in Nat /\ category \in {"Korean", "English"}
    BY DEF Init
  <2>2. doc \in Seq(Char(Known))
    BY <2>1, FirstOld DEF Init
  <2>3. comp \in Seq(Known) /\ buf \in Seq(Known) /\ undo.keys \in Seq(Known)
    BY EmptySeq DEF Init, NoUndo
  <2>4. ~undo.live
    BY DEF Init, NoUndo
  <2>. QED BY <2>1, <2>2, <2>3, <2>4 DEF TextOK
<1>2. ShapeOK
  <2>1. comp = <<>> /\ buf = <<>>
    BY DEF Init
  <2>2. OneKey(doc, buf) /\ Behind(doc, buf)
    BY <2>1, MeetsNothing DEF OneKey, Behind
  <2>. QED BY <2>1, <2>2 DEF ShapeOK
<1>. QED BY <1>1, <1>2

\* The delete count, the replayed keys, the suppressed commit and the preedit agree
\* with one another whatever was typed, erased, clicked and waited for before.
THEOREM FixesKeepText == Spec => FixKeepsText
<1>. DEFINE Keeps ==
              Fixed /\ Aligned =>
                LET keys == undo'.keys
                    corrected == IF undo'.direction = "Forward" THEN Korean(Syllables(keys))
                                 ELSE Ascii(keys)
                IN  Shown' = Without(Shown, keys) \o corrected
<1>1. ASSUME TextOK, ShapeOK, [Next]_vars PROVE [Keeps]_vars
  <2>. DEFINE corrected == IF undo'.direction = "Forward" THEN Korean(Syllables(undo'.keys))
                           ELSE Ascii(undo'.keys)
  <2>. SUFFICES ASSUME Fixed, Aligned PROVE Replaced(undo'.keys, corrected)
    BY DEF Replaced
  <2>1. PICK kind \in Kinds : FixOf(kind, undo'.keys, undo'.direction)
    BY <1>1, FixedByLetter
  <2>2. undo'.direction = "Forward" \/ undo'.direction = "Reverse"
    BY <2>1 DEF FixOf
  <2>3. CASE undo'.direction = "Forward"
    BY <1>1, <2>1, <2>3, ForwardFixed
  <2>4. CASE undo'.direction = "Reverse"
    BY <1>1, <2>1, <2>4, ReverseFixed
  <2>. QED BY <2>2, <2>3, <2>4
<1>. QED BY <1>1, FirstText, TextStep, ShapeStep, PasswordNeverKept, PTL
         DEF Spec, FixKeepsText

\* The whole composition is the word, which is not in the application's text yet.
THEOREM LiveUndoRestoresWord == Spec => LiveUndoRestores
<1>. DEFINE Restores == Undo /\ undo.live /\ comp # <<>> => Shown' = doc \o Ascii(undo.keys)
<1>1. ASSUME TextOK, Undo, undo.live PROVE Shown' = doc \o Ascii(undo.keys)
  <2>1. undo.direction = "Forward" /\ undo.keys \in Seq(Known) /\ doc \in Seq(Char(Known))
    BY <1>1 DEF TextOK
  <2>2. EraseLast(doc, UndoDelete(undo)) = doc
    <3>1. UndoDelete(undo) = 0
      BY <1>1 DEF UndoDelete
    <3>2. PICK none : none = <<>>
      OBVIOUS
    <3>3. none \in Seq(Char(Known)) /\ Len(none) = 0
      BY <3>2
    <3>4. EraseLast(doc \o none, Len(none)) = doc
      BY <2>1, <3>3, EraseRest
    <3>. QED BY <2>1, <3>1, <3>2, <3>3, <3>4, ConcatEmptySeq
  <2>3. PICK a : a = Ascii(undo.keys)
    OBVIOUS
  <2>4. a \in Seq(Char(Known))
    BY <2>1, <2>3, AsciiType
  <2>5. Original(undo) = a
    BY <2>1, <2>3 DEF Original
  <2>6. doc' = doc \o a /\ comp' = <<>> /\ hidden' = FALSE
    BY <1>1, <2>2, <2>5 DEF Undo
  <2>7. Korean(Syllables(comp')) = <<>>
    BY <2>6, SyllablesNone, KoreanNone
  <2>8. Shown' = (doc \o a) \o <<>>
    BY <2>6, <2>7 DEF Shown, Confirmed
  <2>9. PICK t : t = doc \o a
    OBVIOUS
  <2>10. t \in Seq(Char(Known))
    BY <2>1, <2>4, <2>9
  <2>. QED BY <2>3, <2>8, <2>9, <2>10, ConcatEmptySeq
<1>2. ASSUME TextOK, [Next]_vars PROVE [Restores]_vars
  BY <1>1, <1>2
<1>. QED BY <1>2, FirstText, TextStep, PTL DEF Spec, LiveUndoRestores
=============================================================================
