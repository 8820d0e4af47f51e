-------------------------- MODULE FieldClientProofs --------------------------
(***************************************************************************)
(* Theorems about FieldClient, for every set of events and every bound:     *)
(*                                                                          *)
(*   ClientTypeCorrect   the state is well formed;                          *)
(*   BypassAgrees        once the signals are handled, a key that bypasses  *)
(*                       the daemon finds nothing composed and no popup;    *)
(*   FieldKeepsText      once they are, field and composition are what was  *)
(*                       typed, unless two events met.                      *)
(*                                                                          *)
(* The last needs to know, of every signal on its way, where in the field   *)
(* its text belongs (Chain): where the one before it ended.  What a signal  *)
(* says of the text is compared position by position, so that no sum over   *)
(* the queue is ever taken.                                                 *)
(***************************************************************************)
EXTENDS FieldClient, SequenceTheorems, TLAPS

USE ClientAssumption

-----------------------------------------------------------------------------
(* Types. *)

Texts  == Seq(Int)
Typed  == Seq(Nat \ {0})
Signal ==
  [kind : {"commit"}, text : Texts \ {<<>>}]
    \cup [kind : {"fix"}, erase : Nat, text : Texts, preview : Typed]
    \cup [kind : {"show", "hide"}]
Deferred == [text : Texts, preview : Typed]

\* The state is well formed.
ClientTypeOK ==
  /\ count \in Nat /\ preedit \in Typed /\ popup \in {"none", "conv", "emoji"}
  /\ alive \in BOOLEAN /\ signals \in Seq(Signal)
  /\ cache \in Typed /\ skip \in Texts
  /\ injected \in Nat /\ bsPending \in Nat /\ idle \in Nat
  /\ deferred = None \/ \E d \in Deferred : deferred = <<d>>
  /\ popupActive \in BOOLEAN /\ focused \in BOOLEAN
  /\ field \in Texts /\ raced \in BOOLEAN

LEMMA TypedText == ASSUME NEW s \in Typed PROVE s \in Texts
BY SeqMonotonic, Nat \ {0} \subseteq Int DEF Typed, Texts

LEMMA TextLen == ASSUME NEW s \in Texts PROVE Len(s) \in Nat /\ DOMAIN s = 1..Len(s)
BY LenProperties DEF Texts

LEMMA NoText == <<>> \in Texts /\ <<>> \in Typed /\ Len(<<>>) = 0
BY EmptySeq DEF Texts, Typed

LEMMA TextConcat ==
  ASSUME NEW s \in Texts, NEW t \in Texts
  PROVE  /\ s \o t \in Texts /\ Len(s \o t) = Len(s) + Len(t)
         /\ \A i \in 1..(Len(s) + Len(t)) :
              (s \o t)[i] = IF i <= Len(s) THEN s[i] ELSE t[i - Len(s)]
BY ConcatProperties DEF Texts

\* A part of a text, which may be empty.
LEMMA TextPart ==
  ASSUME NEW S, NEW s \in Seq(S), NEW a \in Nat, NEW b \in Nat, b <= Len(s)
  PROVE  /\ SubSeq(s, a + 1, b) \in Seq(S)
         /\ Len(SubSeq(s, a + 1, b)) = IF a < b THEN b - a ELSE 0
         /\ \A i \in 1..(b - a) : SubSeq(s, a + 1, b)[i] = s[a + i]
<1>. DEFINE m == a + 1
<1>1. \A i \in m..b : s[i] \in S
  BY ElementOfSeq, LenProperties
<1>2. /\ SubSeq(s, m, b) \in Seq(S)
      /\ Len(SubSeq(s, m, b)) = IF m <= b THEN b - m + 1 ELSE 0
      /\ \A i \in 1..(b - m + 1) : SubSeq(s, m, b)[i] = s[m + i - 1]
  BY <1>1, SubSeqProperties
<1>3. \A i \in 1..(b - a) : SubSeq(s, m, b)[i] = s[a + i]
  BY <1>2
<1>. QED BY <1>2, <1>3

LEMMA EraseLastText ==
  ASSUME NEW s \in Texts, NEW n \in Nat
  PROVE  /\ EraseLast(s, n) \in Texts
         /\ n <= Len(s) => /\ Len(EraseLast(s, n)) = Len(s) - n
                           /\ \A i \in 1..(Len(s) - n) : EraseLast(s, n)[i] = s[i]
<1>1. Len(s) \in Nat BY TextLen
<1>2. CASE n <= Len(s)
  <2>1. Len(s) - n \in Nat /\ Len(s) - n <= Len(s) BY <1>1, <1>2
  <2>2. /\ SubSeq(s, 0 + 1, Len(s) - n) \in Texts
        /\ Len(SubSeq(s, 0 + 1, Len(s) - n)) = IF 0 < Len(s) - n THEN Len(s) - n - 0 ELSE 0
        /\ \A i \in 1..(Len(s) - n - 0) : SubSeq(s, 0 + 1, Len(s) - n)[i] = s[0 + i]
    BY <2>1, TextPart DEF Texts
  <2>3. EraseLast(s, n) = SubSeq(s, 0 + 1, Len(s) - n)
    BY DEF EraseLast
  <2>4. \A i \in 1..(Len(s) - n) : EraseLast(s, n)[i] = s[i]
    <3>. SUFFICES ASSUME NEW i \in 1..(Len(s) - n) PROVE EraseLast(s, n)[i] = s[i]
      OBVIOUS
    <3>1. i \in 1..(Len(s) - n - 0) /\ 0 + i = i BY <2>1
    <3>. QED BY <3>1, <2>2, <2>3
  <2>5. Len(EraseLast(s, n)) = Len(s) - n
    BY <2>1, <2>2, <2>3
  <2>. QED BY <2>2, <2>3, <2>4, <2>5
<1>3. CASE n > Len(s)
  <2>1. SubSeq(s, 1, Len(s) - n) = <<>> BY <1>1, <1>3, SubSeqEmpty
  <2>2. EraseLast(s, n) = <<>> BY <2>1 DEF EraseLast
  <2>3. ~(n <= Len(s)) BY <1>1, <1>3
  <2>. QED BY <2>2, <2>3, NoText
<1>. QED BY <1>1, <1>2, <1>3

LEMMA TypedPart ==
  ASSUME NEW s \in Typed, NEW n \in 0..Len(s)
  PROVE  /\ SubSeq(s, 1, n) \in Typed /\ SubSeq(s, n + 1, Len(s)) \in Typed
         /\ Front(s) \in Typed
<1>1. Len(s) \in Nat BY TypedText, TextLen
<1>2. SubSeq(s, n + 1, Len(s)) \in Typed BY <1>1, TextPart DEF Typed
<1>3. \A b \in 0..Len(s) : SubSeq(s, 0 + 1, b) \in Typed BY <1>1, TextPart DEF Typed
<1>4. Front(s) \in Typed
  <2>1. CASE Len(s) = 0
    <3>1. SubSeq(s, 1, Len(s) - 1) = <<>> BY <2>1, SubSeqEmpty
    <3>. QED BY <3>1, NoText DEF Front
  <2>2. CASE Len(s) > 0
    <3>1. Len(s) - 1 \in 0..Len(s) BY <1>1, <2>2
    <3>. QED BY <3>1, <1>3 DEF Front
  <2>. QED BY <2>1, <2>2, <1>1
<1>. QED BY <1>2, <1>3, <1>4

LEMMA HanjaText ==
  ASSUME NEW s \in Texts
  PROVE  /\ Hanja(s) \in Texts /\ Len(Hanja(s)) = Len(s)
         /\ \A i \in 1..Len(s) : Hanja(s)[i] = -s[i]
<1>1. Len(s) \in Nat /\ DOMAIN s = 1..Len(s) BY TextLen
<1>2. \A i \in 1..Len(s) : -s[i] \in Int BY ElementOfSeq DEF Texts
<1>3. Hanja(s) = [i \in 1..Len(s) |-> -s[i]] BY <1>1 DEF Hanja
<1>4. Hanja(s) \in [1..Len(s) -> Int] BY <1>2, <1>3
<1>5. Hanja(s) \in Texts BY <1>1, <1>4, SeqDef DEF Texts
<1>6. Len(Hanja(s)) = Len(s)
  BY <1>1, <1>3
<1>. QED BY <1>3, <1>5, <1>6

LEMMA CommitSignals == ASSUME NEW s \in Texts PROVE Commit(s) \in Seq(Signal)
<1>1. CASE s = <<>> BY <1>1, EmptySeq DEF Commit
<1>2. CASE s # <<>>
  <2>1. [kind |-> "commit", text |-> s] \in Signal BY <1>2 DEF Signal
  <2>. QED BY <1>2, <2>1 DEF Commit
<1>. QED BY <1>1, <1>2

LEMMA FixSignals ==
  ASSUME NEW n \in Nat, NEW s \in Texts, NEW t \in Typed PROVE Fix(n, s, t) \in Seq(Signal)
<1>1. [kind |-> "fix", erase |-> n, text |-> s, preview |-> t] \in Signal BY DEF Signal
<1>. QED BY <1>1 DEF Fix

LEMMA PopupSignals == Show \in Seq(Signal) /\ HidePopup \in Seq(Signal) /\ <<>> \in Seq(Signal)
<1>1. [kind |-> "show"] \in Signal /\ [kind |-> "hide"] \in Signal BY DEF Signal
<1>. QED BY <1>1, EmptySeq DEF Show, HidePopup

LEMMA SendTypes ==
  ASSUME ClientTypeOK, NEW sent \in Seq(Signal), Send(sent)
  PROVE  signals' \in Seq(Signal)
BY ConcatProperties DEF ClientTypeOK, Send

LEMMA HandleTypes ==
  ASSUME ClientTypeOK, NEW kind, Handle(kind)
  PROVE  /\ Head(signals) \in Signal /\ Head(signals).kind = kind
         /\ signals' \in Seq(Signal) /\ Len(signals') = Len(signals) - 1
         /\ \A i \in 1..Len(signals') : signals'[i] = signals[i + 1]
         /\ signals # <<>> /\ Len(signals) \in Nat \ {0} /\ Head(signals) = signals[1]
BY HeadTailProperties, EmptySeq DEF ClientTypeOK, Handle

LEMMA ReplyTypes ==
  ASSUME ClientTypeOK, NEW s \in Texts, NEW t \in Typed, Reply(s, t)
  PROVE  field' \in Texts /\ preedit' \in Typed /\ cache' \in Typed /\ raced' \in BOOLEAN
BY TextConcat DEF ClientTypeOK, Reply, Race, Overtakes, CommitUnderWay, FixUnderWay

LEMMA SyllableTypes == ASSUME ClientTypeOK, Syllable PROVE ClientTypeOK'
<1>. DEFINE text == Append(preedit, count + 1)
<1>1. text \in Typed /\ Len(text) \in Nat
  <2>1. count + 1 \in Nat \ {0} BY DEF ClientTypeOK
  <2>2. text \in Typed BY <2>1 DEF ClientTypeOK, Typed
  <2>. QED BY <2>2, TypedText, TextLen
<1>2. PICK n \in 0..Len(text) : Reply(SubSeq(text, 1, n), SubSeq(text, n + 1, Len(text)))
  BY DEF Syllable
<1>. HIDE DEF text
<1>3. /\ field' \in Texts /\ preedit' \in Typed /\ cache' \in Typed /\ raced' \in BOOLEAN
  BY <1>1, <1>2, TypedPart, TypedText, ReplyTypes
<1>4. signals' \in Seq(Signal)
  BY SendTypes, PopupSignals DEF Syllable
<1>5. count' \in Nat /\ popup' = "none"
  BY DEF Syllable, Type, ClientTypeOK
<1>. QED BY <1>3, <1>4, <1>5 DEF Syllable, ClientTypeOK, fixVars

LEMMA TypeFixTypes == ASSUME ClientTypeOK, TypeFix PROVE ClientTypeOK'
<1>1. PICK n \in 0..Len(field) :
        LET word == SubSeq(field, Len(field) - n + 1, Len(field)) \o Append(preedit, count + 1)
        IN  /\ \A i \in DOMAIN word : word[i] > 0
            /\ \E confirmed \in 0..Len(word) :
                LET preview == SubSeq(word, confirmed + 1, Len(word))
                IN  /\ preedit # <<>> => preview = <<>>
                    /\ preedit' = preview /\ cache' = <<>>
                    /\ Send(Fix(n, SubSeq(word, 1, confirmed), preview))
  BY DEF TypeFix
<1>. DEFINE end  == SubSeq(field, Len(field) - n + 1, Len(field))
            tail == Append(preedit, count + 1)
            word == end \o tail
<1>2. Len(field) \in Nat /\ n \in Nat /\ Len(field) - n \in Nat
  BY TextLen DEF ClientTypeOK
<1>3. end \in Texts
  BY <1>2, TextPart DEF ClientTypeOK, Texts
<1>4. tail \in Texts
  <2>1. count + 1 \in Nat \ {0} BY DEF ClientTypeOK
  <2>2. tail \in Typed BY <2>1 DEF ClientTypeOK, Typed
  <2>. QED BY <2>2, TypedText
<1>5. word \in Texts BY <1>3, <1>4, TextConcat
<1>6. /\ \A i \in DOMAIN word : word[i] > 0
      /\ \E confirmed \in 0..Len(word) :
           /\ preedit' = SubSeq(word, confirmed + 1, Len(word)) /\ cache' = <<>>
           /\ Send(Fix(n, SubSeq(word, 1, confirmed), SubSeq(word, confirmed + 1, Len(word))))
  BY <1>1
<1>. HIDE DEF word
<1>7. word \in Typed
  <2>1. Len(word) \in Nat /\ DOMAIN word = 1..Len(word) /\ word \in [1..Len(word) -> Int]
    BY <1>5, LenProperties DEF Texts
  <2>2. \A i \in 1..Len(word) : word[i] \in Nat \ {0}
    BY <1>6, <2>1
  <2>3. word \in [1..Len(word) -> Nat \ {0}]
    BY <2>1, <2>2
  <2>. QED BY <2>1, <2>3, SeqDef DEF Typed
<1>8. PICK confirmed \in 0..Len(word) :
        /\ preedit' = SubSeq(word, confirmed + 1, Len(word)) /\ cache' = <<>>
        /\ Send(Fix(n, SubSeq(word, 1, confirmed), SubSeq(word, confirmed + 1, Len(word))))
  BY <1>6
<1>9. preedit' \in Typed /\ cache' \in Typed
  BY <1>7, <1>8, TypedPart, NoText
<1>10. SubSeq(word, 1, confirmed) \in Texts
  BY <1>7, TypedPart, TypedText
<1>11. signals' \in Seq(Signal)
  BY <1>2, <1>8, <1>9, <1>10, FixSignals, SendTypes
<1>12. count' \in Nat /\ raced' \in BOOLEAN
  BY DEF TypeFix, Type, ClientTypeOK, Race, CommitUnderWay, FixUnderWay
<1>. QED BY <1>9, <1>11, <1>12 DEF TypeFix, ClientTypeOK, fixVars

LEMMA KeyTypes ==
  ASSUME ClientTypeOK, RawKey \/ NavigationKey \/ HanjaKey \/ DigitKey PROVE ClientTypeOK'
<1>1. preedit \in Texts /\ field \in Texts
  BY TypedText DEF ClientTypeOK
<1>2. CASE RawKey
  <2>1. count + 1 \in Nat /\ Append(field, count + 1) \in Texts
    BY <1>1 DEF Texts, ClientTypeOK
  <2>. QED BY <1>2, <2>1
    DEF RawKey, Type, Race, CommitUnderWay, FixUnderWay, ClientTypeOK, daemonVars, clientVars, fixVars
<1>3. CASE NavigationKey
  <2>1. field' \in Texts /\ preedit' \in Typed /\ cache' \in Typed /\ raced' \in BOOLEAN
    <3>1. Reply(<<>>, preedit) \/ Reply(preedit, <<>>) BY <1>3 DEF NavigationKey
    <3>. QED BY <1>1, <3>1, NoText, ReplyTypes DEF ClientTypeOK
  <2>. QED BY <1>3, <2>1 DEF NavigationKey, ClientTypeOK, fixVars
<1>4. CASE HanjaKey
  <2>1. signals' \in Seq(Signal)
    BY <1>4, SendTypes, PopupSignals DEF HanjaKey, ClientTypeOK
  <2>. QED BY <1>4, <2>1, NoText DEF HanjaKey, ClientTypeOK, fixVars
<1>5. CASE DigitKey
  <2>1. field' \in Texts /\ preedit' \in Typed /\ cache' \in Typed /\ raced' \in BOOLEAN
    BY <1>1, <1>5, HanjaText, NoText, ReplyTypes DEF DigitKey
  <2>2. signals' \in Seq(Signal)
    BY <1>5, SendTypes, PopupSignals DEF DigitKey
  <2>. QED BY <1>5, <2>1, <2>2 DEF DigitKey, ClientTypeOK, fixVars
<1>. QED BY <1>2, <1>3, <1>4, <1>5

LEMMA DaemonTypes ==
  ASSUME ClientTypeOK, Select \/ Cancel \/ CloseEmoji \/ IdleFlush PROVE ClientTypeOK'
<1>1. preedit \in Texts
  BY TypedText DEF ClientTypeOK
<1>2. \A s \in Texts : Commit(s) \o HidePopup \in Seq(Signal)
  BY CommitSignals, PopupSignals, ConcatProperties
<1>3. ASSUME Select \/ Cancel PROVE ClientTypeOK'
  <2>1. signals' \in Seq(Signal)
    BY <1>1, <1>2, <1>3, HanjaText, SendTypes DEF Select, Cancel
  <2>. QED BY <1>3, <2>1, NoText DEF Select, Cancel, EndPopup, ClientTypeOK, clientVars, fixVars
<1>4. CASE CloseEmoji
  <2>1. signals' \in Seq(Signal) BY <1>4, PopupSignals, SendTypes DEF CloseEmoji
  <2>. QED BY <1>4, <2>1 DEF CloseEmoji, EndPopup, ClientTypeOK, clientVars, fixVars
<1>5. CASE IdleFlush
  <2>1. PICK n \in 1..Len(preedit) :
          /\ preedit' = SubSeq(preedit, n + 1, Len(preedit))
          /\ Send(Commit(SubSeq(preedit, 1, n)))
    BY <1>5 DEF IdleFlush
  <2>2. preedit' \in Typed /\ SubSeq(preedit, 1, n) \in Texts
    BY <1>1, <2>1, TextLen, TypedPart, TypedText DEF ClientTypeOK
  <2>3. signals' \in Seq(Signal) BY <2>1, <2>2, CommitSignals, SendTypes
  <2>. QED BY <1>5, <2>2, <2>3 DEF IdleFlush, ClientTypeOK, clientVars, fixVars
<1>. QED BY <1>3, <1>4, <1>5

LEMMA FocusTypes ==
  ASSUME ClientTypeOK, FocusOut \/ FocusOutFails \/ FocusIn \/ Reset \/ Die PROVE ClientTypeOK'
<1>1. /\ preedit \in Texts /\ cache \in Texts
      /\ field \o preedit \in Texts /\ field \o cache \in Texts
  BY TypedText, TextConcat DEF ClientTypeOK
<1>2. CASE FocusOut
  <2>1. signals' \in Seq(Signal) BY <1>2, PopupSignals, SendTypes DEF FocusOut
  <2>2. raced' \in BOOLEAN
    BY <1>2 DEF FocusOut, ClientTypeOK, Race, Overtakes, CommitUnderWay, FixUnderWay
  <2>. QED BY <1>1, <1>2, <2>1, <2>2, NoText DEF FocusOut, EngineReset, ClientTypeOK
<1>3. CASE FocusOutFails
  <2>1. signals' \in Seq(Signal) BY <1>3, PopupSignals, SendTypes DEF FocusOutFails
  <2>2. raced' \in BOOLEAN
    BY <1>3 DEF FocusOutFails, ClientTypeOK, Race, Overtakes, CommitUnderWay, FixUnderWay
  <2>. QED BY <1>1, <1>3, <2>1, <2>2, NoText DEF FocusOutFails, Fallback, EngineReset, ClientTypeOK
<1>4. CASE FocusIn
  BY <1>4 DEF FocusIn, ClientTypeOK, daemonVars, fixVars
<1>5. CASE Reset
  <2>1. HidePopup \o Commit(preedit) \in Seq(Signal)
    BY <1>1, CommitSignals, PopupSignals, ConcatProperties
  <2>2. signals' \in Seq(Signal) BY <1>5, <2>1, PopupSignals, SendTypes DEF Reset
  <2>3. raced' \in BOOLEAN
    BY <1>5 DEF Reset, ClientTypeOK, Race, FixUnderWay, OnlyCacheUnderWay
  <2>4. skip' \in Texts BY <1>1, <1>5 DEF Reset, ClientTypeOK
  <2>. QED BY <1>1, <1>5, <2>2, <2>3, <2>4, NoText DEF Reset, EngineReset, ClientTypeOK, fixVars
<1>6. CASE Die
  BY <1>6 DEF Die, ClientTypeOK, clientVars, fixVars
<1>. QED BY <1>2, <1>3, <1>4, <1>5, <1>6

LEMMA ApplyTypes ==
  ASSUME ClientTypeOK, NEW s \in Texts, NEW t \in Typed, ApplyFix(s, t)
  PROVE  field' \in Texts /\ cache' \in Typed
BY DEF ClientTypeOK, ApplyFix

LEMMA LoopTypes ==
  ASSUME ClientTypeOK,
         CommitSignal \/ FixSignal \/ SelfBackspace \/ DeferredCommit \/ ShowSignal \/ HideSignal
  PROVE  ClientTypeOK'
<1>1. CASE CommitSignal
  <2>. DEFINE text == Head(signals).text
  <2>1. text \in Texts /\ signals' \in Seq(Signal)
    BY <1>1, HandleTypes DEF CommitSignal, Signal
  <2>2. field \o text \in Texts BY <2>1, TextConcat DEF ClientTypeOK
  <2>3. field' \in Texts /\ raced' \in BOOLEAN /\ skip' \in Texts
    BY <1>1, <2>1, <2>2, NoText DEF CommitSignal, ClientTypeOK, Race, None
  <2>. QED BY <1>1, <2>1, <2>3 DEF CommitSignal, ClientTypeOK, daemonVars, fixVars
<1>2. CASE FixSignal
  <2>. DEFINE fix == Head(signals)
  <2>1. fix.erase \in Nat /\ fix.text \in Texts /\ fix.preview \in Typed /\ signals' \in Seq(Signal)
    BY <1>2, HandleTypes DEF FixSignal, Signal
  <2>2. EraseLast(field, fix.erase) \o fix.text \in Texts
    BY <2>1, EraseLastText, TextConcat DEF ClientTypeOK
  <2>3. /\ field' \in Texts /\ cache' \in Typed /\ injected' \in Nat /\ bsPending' \in Nat
        /\ idle' \in Nat
        /\ deferred' = None \/ \E d \in Deferred : deferred' = <<d>>
    <3>1. CASE UNCHANGED <<field, cache, fixVars>>
      BY <3>1 DEF ClientTypeOK, fixVars
    <3>2. CASE ApplyFix(EraseLast(field, fix.erase) \o fix.text, fix.preview) /\ UNCHANGED fixVars
      BY <2>1, <2>2, <3>2, ApplyTypes DEF ClientTypeOK, fixVars
    <3>3. CASE /\ injected' = injected + fix.erase
               /\ bsPending' = fix.erase
               /\ deferred' = <<[text |-> fix.text, preview |-> fix.preview]>>
               /\ UNCHANGED <<field, cache, idle>>
      <4>1. [text |-> fix.text, preview |-> fix.preview] \in Deferred BY <2>1 DEF Deferred
      <4>. QED BY <2>1, <3>3, <4>1 DEF ClientTypeOK
    <3>. QED BY <1>2, <3>1, <3>2, <3>3 DEF FixSignal
  <2>. QED BY <1>2, <2>1, <2>3 DEF FixSignal, ClientTypeOK, daemonVars
<1>3. CASE SelfBackspace
  <2>1. EraseLast(field, 1) \in Texts BY EraseLastText DEF ClientTypeOK
  <2>2. Front(preedit) \in Typed
    BY TypedPart, TypedText, TextLen DEF ClientTypeOK
  <2>3. injected' \in Nat BY <1>3 DEF SelfBackspace, ClientTypeOK
  <2>4. /\ field' \in Texts /\ cache' \in Typed /\ preedit' \in Typed
        /\ bsPending' \in Nat /\ idle' \in Nat
    BY <1>3, <2>1, <2>2 DEF SelfBackspace, ClientTypeOK
  <2>. QED BY <1>3, <2>3, <2>4 DEF SelfBackspace, ClientTypeOK
<1>4. CASE DeferredCommit
  <2>1. field' \in Texts /\ cache' \in Typed
    <3>1. CASE deferred = None
      BY <1>4, <3>1 DEF DeferredCommit, ClientTypeOK
    <3>2. CASE deferred # None
      <4>1. deferred[1].text \in Texts /\ deferred[1].preview \in Typed
        BY <3>2 DEF ClientTypeOK, Deferred
      <4>2. field \o deferred[1].text \in Texts BY <4>1, TextConcat DEF ClientTypeOK
      <4>. QED BY <1>4, <3>2, <4>1, <4>2, ApplyTypes DEF DeferredCommit
    <3>. QED BY <3>1, <3>2
  <2>. QED BY <1>4, <2>1 DEF DeferredCommit, ClientTypeOK, daemonVars
<1>5. ASSUME ShowSignal \/ HideSignal PROVE ClientTypeOK'
  <2>1. signals' \in Seq(Signal) BY <1>5, HandleTypes DEF ShowSignal, HideSignal
  <2>. QED BY <1>5, <2>1 DEF ShowSignal, HideSignal, ClientTypeOK, daemonVars, fixVars
<1>. QED BY <1>1, <1>2, <1>3, <1>4, <1>5

LEMMA TypesKept == ASSUME ClientTypeOK, [Next]_vars PROVE ClientTypeOK'
<1>1. CASE UNCHANGED vars
  BY <1>1 DEF vars, daemonVars, clientVars, fixVars, ClientTypeOK
<1>. QED BY <1>1, SyllableTypes, TypeFixTypes, KeyTypes, DaemonTypes, FocusTypes, LoopTypes DEF Next

\* Counters count, texts are sequences of characters and signals are of the kinds
\* the module subscribes to, whatever arrives and in whatever order.
THEOREM ClientTypeCorrect == Spec => []ClientTypeOK
<1>1. ASSUME Init PROVE ClientTypeOK
  <2>1. preedit \in Typed /\ cache \in Typed /\ skip \in Texts /\ field \in Texts
    BY <1>1, NoText DEF Init, None
  <2>2. signals \in Seq(Signal) BY <1>1, PopupSignals DEF Init
  <2>3. deferred = None BY <1>1 DEF Init
  <2>. QED BY <1>1, <2>1, <2>2, <2>3 DEF Init, ClientTypeOK
<1>. QED BY <1>1, TypesKept, PTL DEF Spec

-----------------------------------------------------------------------------
(* The copies. *)

\* The fix that was sent last brings a composition.
FixShows ==
  \E i \in Pending("fix") : signals[i].preview # <<>> /\ \A j \in Pending("fix") : j <= i

\* What is composed is cached, or will be when what is on its way has arrived.
CacheFollows ==
  preedit # <<>> =>
    /\ focused
    /\ \/ cache # <<>>
       \/ FixShows
       \/ Pending("fix") = {} /\ deferred # None /\ deferred[1].preview # <<>>

\* The last signal of a popup shows it, or none is on its way and it is shown.
ShowComing ==
  \/ \E i \in Pending("show") : \A j \in Pending("hide") : j < i
  \/ Pending("hide") = {} /\ popupActive

PopupFollows ==
  /\ popup = "conv" => preedit # <<>>
  /\ popup = "emoji" => ShowComing

DeferredDue == deferred # None => bsPending > 0 \/ idle > 0

CopiesFollow == CacheFollows /\ PopupFollows /\ DeferredDue

\* Signals of other kinds are sent after those of a kind, which stay as they are.
LEMMA SentPending ==
  ASSUME NEW q \in Seq(Signal), NEW sent \in Seq(Signal), q = signals, signals' = signals \o sent
  PROVE  /\ DOMAIN signals = 1..Len(q) /\ Len(q) \in Nat
         /\ \A i \in DOMAIN signals : signals'[i] = signals[i]
         /\ \A kind : (\A i \in DOMAIN sent : sent[i].kind # kind) => Pending(kind)' = Pending(kind)
         /\ Len(signals') = Len(signals) + Len(sent) /\ DOMAIN signals' = 1..Len(signals')
         /\ \A i \in DOMAIN sent : signals'[Len(signals) + i] = sent[i]
<1>1. /\ Len(q) \in Nat /\ Len(sent) \in Nat /\ DOMAIN q = 1..Len(q) /\ DOMAIN sent = 1..Len(sent)
  BY LenProperties
<1>2. /\ q \o sent \in Seq(Signal) /\ Len(q \o sent) = Len(q) + Len(sent)
      /\ \A i \in 1..(Len(q) + Len(sent)) :
           (q \o sent)[i] = IF i <= Len(q) THEN q[i] ELSE sent[i - Len(q)]
  BY ConcatProperties
<1>3. DOMAIN signals' = 1..(Len(q) + Len(sent)) BY <1>2, LenProperties
<1>4. \A i \in DOMAIN signals : signals'[i] = signals[i]
  BY <1>1, <1>2
<1>5. ASSUME NEW i \in DOMAIN sent PROVE signals'[Len(q) + i] = sent[i]
  <2>1. /\ Len(q) + i \in 1..(Len(q) + Len(sent)) /\ ~(Len(q) + i <= Len(q))
        /\ Len(q) + i - Len(q) = i
    BY <1>1
  <2>. QED BY <1>2, <2>1
<1>6. ASSUME NEW kind, \A i \in DOMAIN sent : sent[i].kind # kind
      PROVE  Pending(kind)' = Pending(kind)
  <2>1. ASSUME NEW i \in DOMAIN signals', signals'[i].kind = kind
        PROVE  i \in DOMAIN signals /\ signals[i].kind = kind
    <3>1. CASE i <= Len(q)
      <4>1. i \in DOMAIN signals BY <1>1, <1>3, <3>1
      <4>. QED BY <2>1, <4>1, <1>4
    <3>2. CASE i > Len(q)
      <4>1. i - Len(q) \in DOMAIN sent BY <1>1, <1>3, <3>2
      <4>2. signals'[i] = sent[i - Len(q)] BY <1>1, <1>2, <1>3, <3>2
      <4>. QED BY <1>6, <2>1, <4>1, <4>2
    <3>. QED BY <1>1, <1>3, <3>1, <3>2
  <2>2. DOMAIN signals \subseteq DOMAIN signals' BY <1>1, <1>3
  <2>. QED BY <2>1, <2>2, <1>4 DEF Pending
<1>. QED BY <1>1, <1>2, <1>3, <1>4, <1>5, <1>6

\* The first signal is handled, the others stay in their order.
LEMMA HandledPending ==
  ASSUME ClientTypeOK, NEW kind, Handle(kind)
  PROVE  /\ 1 \in Pending(kind)
         /\ \A k, i : i \in Pending(k)' <=> i \in 1..(Len(signals) - 1) /\ i + 1 \in Pending(k)
         /\ \A k, i : i \in Pending(k) => i \in Nat /\ i >= 1
         /\ \A k, i : i \in Pending(k) /\ i # 1 => i - 1 \in Pending(k)'
         /\ \A k : k # kind => 1 \notin Pending(k)
         /\ \A i \in 1..(Len(signals) - 1) : signals'[i] = signals[i + 1]
<1>. DEFINE n == Len(signals)
<1>1. /\ signals' \in Seq(Signal) /\ Len(signals') = n - 1
      /\ \A i \in 1..Len(signals') : signals'[i] = signals[i + 1]
      /\ n \in Nat \ {0} /\ signals[1].kind = kind
  BY HandleTypes
<1>2. DOMAIN signals = 1..n /\ DOMAIN signals' = 1..(n - 1)
  BY <1>1, LenProperties DEF ClientTypeOK
<1>3. \A i \in 1..(n - 1) : signals'[i] = signals[i + 1] BY <1>1
<1>. HIDE DEF n
<1>4. ASSUME NEW k, NEW i
      PROVE  i \in Pending(k)' <=> i \in 1..(n - 1) /\ i + 1 \in Pending(k)
  <2>1. i \in Pending(k)' <=> i \in 1..(n - 1) /\ signals'[i].kind = k
    BY <1>2 DEF Pending
  <2>2. i \in 1..(n - 1) => i + 1 \in 1..n
    BY <1>1
  <2>. QED BY <1>2, <1>3, <2>1, <2>2 DEF Pending
<1>5. 1 \in Pending(kind) /\ \A k : k # kind => 1 \notin Pending(k)
  BY <1>1, <1>2 DEF Pending
<1>6. \A k, i : i \in Pending(k) => i \in 1..n BY <1>2 DEF Pending
<1>7. ASSUME NEW k, NEW i, i \in Pending(k), i # 1 PROVE i - 1 \in Pending(k)'
  <2>1. i \in 1..n /\ i - 1 \in 1..(n - 1) /\ (i - 1) + 1 = i BY <1>1, <1>6, <1>7
  <2>. QED BY <1>4, <1>7, <2>1
<1>. QED BY <1>1, <1>3, <1>4, <1>5, <1>6, <1>7 DEF n

\* What no kind of fix among what is sent leaves of CacheFollows.
LEMMA CacheSent ==
  ASSUME ClientTypeOK, CacheFollows, NEW sent \in Seq(Signal), signals' = signals \o sent,
         \A i \in DOMAIN sent : sent[i].kind # "fix",
         preedit' # <<>> => preedit # <<>> /\ cache' = cache, deferred' = deferred, focused' = focused
  PROVE  CacheFollows'
<1>1. /\ Pending("fix")' = Pending("fix")
      /\ \A i \in DOMAIN signals : signals'[i] = signals[i]
  BY SentPending DEF ClientTypeOK
<1>2. FixShows => FixShows'
  <2>1. Pending("fix") \subseteq DOMAIN signals BY DEF Pending
  <2>. QED BY <1>1, <2>1 DEF FixShows
<1>. QED BY <1>1, <1>2 DEF CacheFollows

LEMMA CacheHandled ==
  ASSUME ClientTypeOK, CacheFollows, NEW kind, Handle(kind), kind # "fix",
         preedit' = preedit, cache' = cache, deferred' = deferred, focused' = focused
  PROVE  CacheFollows'
<1>1. FixShows => FixShows'
  <2>1. SUFFICES ASSUME NEW i \in Pending("fix"), signals[i].preview # <<>>,
                        \A j \in Pending("fix") : j <= i
                 PROVE  FixShows'
    BY DEF FixShows
  <2>2. i # 1 /\ i - 1 \in Pending("fix")' /\ i \in Nat
    BY <2>1, HandledPending
  <2>3. i - 1 \in 1..(Len(signals) - 1) /\ (i - 1) + 1 = i BY <2>2, HandledPending
  <2>4. signals'[i - 1] = signals[i] BY <2>3, HandledPending
  <2>5. \A j \in Pending("fix")' : j <= i - 1
    <3>1. \A j \in Pending("fix")' : j \in Int /\ j + 1 \in Pending("fix") BY HandledPending
    <3>. QED BY <2>1, <2>2, <3>1
  <2>. QED BY <2>1, <2>2, <2>4, <2>5 DEF FixShows
<1>2. Pending("fix") = {} => Pending("fix")' = {} BY HandledPending
<1>. QED BY <1>1, <1>2 DEF CacheFollows

LEMMA CommitKinds ==
  ASSUME NEW s \in Texts
  PROVE  /\ \A i \in DOMAIN Commit(s) : Commit(s)[i].kind = "commit"
         /\ \A i \in DOMAIN (Commit(s) \o HidePopup) :
              (Commit(s) \o HidePopup)[i].kind \in {"commit", "hide"}
<1>1. \A i \in DOMAIN Commit(s) : Commit(s)[i].kind = "commit"
  BY DEF Commit
<1>2. \A i \in DOMAIN HidePopup : HidePopup[i].kind = "hide" BY DEF HidePopup
<1>3. Commit(s) \in Seq(Signal) /\ HidePopup \in Seq(Signal) BY CommitSignals, PopupSignals
<1>4. ASSUME NEW i \in DOMAIN (Commit(s) \o HidePopup)
      PROVE  (Commit(s) \o HidePopup)[i].kind \in {"commit", "hide"}
  <2>1. /\ Len(Commit(s)) \in Nat /\ DOMAIN Commit(s) = 1..Len(Commit(s))
        /\ Len(HidePopup) \in Nat /\ DOMAIN HidePopup = 1..Len(HidePopup)
    BY <1>3, LenProperties
  <2>2. /\ i \in 1..(Len(Commit(s)) + Len(HidePopup))
        /\ (Commit(s) \o HidePopup)[i]
             = IF i <= Len(Commit(s)) THEN Commit(s)[i] ELSE HidePopup[i - Len(Commit(s))]
    BY <1>3, ConcatProperties, LenProperties
  <2>3. CASE i <= Len(Commit(s)) BY <1>1, <2>1, <2>2, <2>3
  <2>4. CASE ~(i <= Len(Commit(s)))
    <3>1. i - Len(Commit(s)) \in DOMAIN HidePopup BY <2>1, <2>2, <2>4
    <3>. QED BY <1>2, <2>2, <2>4, <3>1
  <2>. QED BY <2>3, <2>4
<1>. QED BY <1>1, <1>4

LEMMA PopupKinds ==
  /\ DOMAIN HidePopup = {1} /\ HidePopup[1].kind = "hide" /\ Len(HidePopup) = 1
  /\ DOMAIN Show = {1} /\ Show[1].kind = "show" /\ Len(Show) = 1
BY DEF HidePopup, Show

\* A fix that is sent is the last.
LEMMA FixSent ==
  ASSUME ClientTypeOK, NEW n \in Nat, NEW s \in Texts, NEW t \in Typed, t # <<>>,
         signals' = signals \o Fix(n, s, t)
  PROVE  FixShows'
<1>1. DOMAIN Fix(n, s, t) = {1} /\ Fix(n, s, t)[1].kind = "fix" /\ Fix(n, s, t)[1].preview = t
      /\ Len(Fix(n, s, t)) = 1
  BY DEF Fix
<1>2. /\ Len(signals) \in Nat /\ Len(signals') = Len(signals) + Len(Fix(n, s, t))
      /\ DOMAIN signals' = 1..Len(signals')
      /\ \A i \in DOMAIN Fix(n, s, t) : signals'[Len(signals) + i] = Fix(n, s, t)[i]
  BY FixSignals, SentPending DEF ClientTypeOK
<1>3. signals'[Len(signals) + 1] = Fix(n, s, t)[1] BY <1>1, <1>2
<1>4. Len(signals) + 1 \in Pending("fix")' BY <1>1, <1>2, <1>3 DEF Pending
<1>5. \A j \in Pending("fix")' : j <= Len(signals) + 1 BY <1>1, <1>2 DEF Pending
<1>. QED BY <1>1, <1>3, <1>4, <1>5 DEF FixShows

LEMMA SyllableCopies == ASSUME ClientTypeOK, CopiesFollow, Syllable PROVE CopiesFollow'
<1>1. cache' = preedit' /\ focused'
  BY DEF Syllable, Reply, Type
<1>. QED BY <1>1
  DEF CopiesFollow, Syllable, CacheFollows, PopupFollows, DeferredDue, fixVars, None

LEMMA TypeFixCopies == ASSUME ClientTypeOK, CopiesFollow, TypeFix PROVE CopiesFollow'
<1>1. preedit' # <<>> => FixShows'
  <2>1. PICK n \in 0..Len(field) :
          \E confirmed \in 0..Len(SubSeq(field, Len(field) - n + 1, Len(field)) \o Append(preedit, count + 1)) :
            LET word == SubSeq(field, Len(field) - n + 1, Len(field)) \o Append(preedit, count + 1)
            IN  /\ preedit' = SubSeq(word, confirmed + 1, Len(word))
                /\ Send(Fix(n, SubSeq(word, 1, confirmed), SubSeq(word, confirmed + 1, Len(word))))
    BY DEF TypeFix
  <2>. DEFINE word == SubSeq(field, Len(field) - n + 1, Len(field)) \o Append(preedit, count + 1)
  <2>2. PICK confirmed \in 0..Len(word) :
          /\ preedit' = SubSeq(word, confirmed + 1, Len(word))
          /\ Send(Fix(n, SubSeq(word, 1, confirmed), SubSeq(word, confirmed + 1, Len(word))))
    BY <2>1
  <2>3. Len(field) \in Nat /\ n \in Nat /\ Len(field) - n \in Nat
    BY TextLen DEF ClientTypeOK
  <2>4. word \in Texts
    <3>1. SubSeq(field, Len(field) - n + 1, Len(field)) \in Texts
      BY <2>3, TextPart DEF ClientTypeOK, Texts
    <3>2. Append(preedit, count + 1) \in Texts
      <4>1. count + 1 \in Int BY DEF ClientTypeOK
      <4>. QED BY <4>1, TypedText DEF ClientTypeOK, Texts
    <3>. QED BY <3>1, <3>2, TextConcat
  <2>. HIDE DEF word
  <2>5. confirmed \in Nat /\ Len(word) \in Nat /\ confirmed <= Len(word) BY <2>4, TextLen
  <2>6. SubSeq(word, 0 + 1, confirmed) \in Texts
    BY <2>4, <2>5, TextPart DEF Texts
  <2>7. preedit' \in Typed BY TypeFixTypes DEF ClientTypeOK
  <2>8. signals' = signals \o Fix(n, SubSeq(word, 0 + 1, confirmed), preedit')
    BY <2>2 DEF Send
  <2>. QED BY <2>3, <2>6, <2>7, <2>8, FixSent
<1>. QED BY <1>1
  DEF CopiesFollow, TypeFix, Type, CacheFollows, PopupFollows, DeferredDue, fixVars

LEMMA NavigationCopies ==
  ASSUME ClientTypeOK, CopiesFollow, RawKey \/ NavigationKey \/ DigitKey PROVE CopiesFollow'
<1>1. CASE RawKey
  BY <1>1 DEF RawKey, CopiesFollow, CacheFollows, PopupFollows, DeferredDue, daemonVars, clientVars,
              fixVars, FixShows, ShowComing, Pending
<1>2. CASE NavigationKey
  <2>1. cache' = preedit' /\ focused' BY <1>2 DEF NavigationKey, Reply
  <2>2. popup' # "none" => preedit' = preedit BY <1>2 DEF NavigationKey, Reply
  <2>. QED BY <1>2, <2>1, <2>2
    DEF NavigationKey, CopiesFollow, CacheFollows, PopupFollows, DeferredDue, fixVars, ShowComing,
        Pending
<1>3. CASE DigitKey
  <2>1. preedit' = <<>> BY <1>3 DEF DigitKey, Reply
  <2>. QED BY <1>3, <2>1 DEF DigitKey, CopiesFollow, CacheFollows, PopupFollows, DeferredDue, fixVars
<1>. QED BY <1>1, <1>2, <1>3

LEMMA HanjaCopies == ASSUME ClientTypeOK, CopiesFollow, HanjaKey PROVE CopiesFollow'
<1>1. CASE preedit # <<>>
  BY <1>1 DEF HanjaKey, CopiesFollow, CacheFollows, PopupFollows, DeferredDue, fixVars, FixShows,
              Pending
<1>2. CASE preedit = <<>>
  <2>1. popup' = "emoji" /\ preedit' = <<>> /\ signals' = signals \o Show
    BY <1>2 DEF HanjaKey, Send
  <2>2. /\ Len(signals) \in Nat /\ Pending("hide")' = Pending("hide")
        /\ Pending("hide") \subseteq 1..Len(signals)
        /\ signals'[Len(signals) + 1].kind = "show" /\ DOMAIN signals' = 1..(Len(signals) + 1)
    <3>1. /\ Len(signals) \in Nat /\ DOMAIN signals = 1..Len(signals)
          /\ \A kind : (\A i \in DOMAIN Show : Show[i].kind # kind) => Pending(kind)' = Pending(kind)
          /\ Len(signals') = Len(signals) + Len(Show) /\ DOMAIN signals' = 1..Len(signals')
          /\ \A i \in DOMAIN Show : signals'[Len(signals) + i] = Show[i]
      BY <2>1, PopupSignals, SentPending DEF ClientTypeOK
    <3>2. signals'[Len(signals) + 1] = Show[1] BY <3>1, PopupKinds
    <3>3. Pending("hide")' = Pending("hide") BY <3>1, PopupKinds
    <3>. QED BY <3>1, <3>2, <3>3, PopupKinds DEF Pending
  <2>3. ShowComing'
    <3>1. Len(signals) + 1 \in Pending("show")' BY <2>2 DEF Pending
    <3>2. \A j \in Pending("hide")' : j < Len(signals) + 1 BY <2>2
    <3>. QED BY <3>1, <3>2 DEF ShowComing
  <2>. QED BY <2>1, <2>3
    DEF HanjaKey, CopiesFollow, CacheFollows, PopupFollows, DeferredDue, fixVars
<1>. QED BY <1>1, <1>2

LEMMA DaemonCopies ==
  ASSUME ClientTypeOK, CopiesFollow, Select \/ Cancel \/ CloseEmoji \/ IdleFlush
  PROVE  CopiesFollow'
<1>1. popup' = "none" /\ UNCHANGED clientVars
  BY DEF Select, Cancel, CloseEmoji, IdleFlush, EndPopup
<1>2. ASSUME Select \/ Cancel PROVE CacheFollows'
  BY <1>2 DEF Select, Cancel, CacheFollows
<1>3. ASSUME CloseEmoji PROVE CacheFollows'
  <2>1. signals' = signals \o HidePopup BY <1>3 DEF CloseEmoji, Send
  <2>2. \A i \in DOMAIN HidePopup : HidePopup[i].kind # "fix" BY PopupKinds
  <2>. QED BY <1>3, <2>1, <2>2, PopupSignals, CacheSent
    DEF CloseEmoji, clientVars, fixVars, CopiesFollow
<1>4. ASSUME IdleFlush PROVE CacheFollows'
  <2>1. PICK n \in 1..Len(preedit) : signals' = signals \o Commit(SubSeq(preedit, 1, n))
    BY <1>4 DEF IdleFlush, Send
  <2>2. Len(preedit) \in Nat BY TypedText, TextLen DEF ClientTypeOK
  <2>3. SubSeq(preedit, 1, n) \in Texts
    BY <2>1, <2>2, TypedPart, TypedText DEF ClientTypeOK
  <2>4. preedit # <<>>
    BY <2>1, <2>2, NoText
  <2>5. \A i \in DOMAIN Commit(SubSeq(preedit, 1, n)) :
          Commit(SubSeq(preedit, 1, n))[i].kind # "fix"
    BY <2>3, CommitKinds
  <2>. QED BY <1>1, <2>1, <2>3, <2>4, <2>5, CommitSignals, CacheSent
    DEF clientVars, fixVars, CopiesFollow
<1>5. PopupFollows' /\ DeferredDue'
  BY <1>1 DEF CopiesFollow, PopupFollows, DeferredDue, clientVars, fixVars
<1>. QED BY <1>2, <1>3, <1>4, <1>5 DEF CopiesFollow

LEMMA FocusCopies ==
  ASSUME ClientTypeOK, CopiesFollow, FocusOut \/ FocusOutFails \/ FocusIn \/ Reset \/ Die
  PROVE  CopiesFollow'
<1>1. ASSUME FocusOut \/ FocusOutFails \/ Reset PROVE CopiesFollow'
  <2>1. preedit' = <<>> /\ popup' = "none" /\ UNCHANGED <<bsPending, deferred, idle>>
    BY <1>1 DEF FocusOut, FocusOutFails, Reset, EngineReset, fixVars
  <2>. QED BY <2>1 DEF CopiesFollow, CacheFollows, PopupFollows, DeferredDue
<1>2. CASE FocusIn
  BY <1>2 DEF FocusIn, CopiesFollow, CacheFollows, PopupFollows, DeferredDue, daemonVars, fixVars,
              ShowComing, Pending
<1>3. CASE Die
  BY <1>3 DEF Die, CopiesFollow, CacheFollows, PopupFollows, DeferredDue, clientVars, fixVars,
              FixShows, Pending
<1>. QED BY <1>1, <1>2, <1>3

\* Handling another kind of signal leaves the popup's to be handled, in their order.
LEMMA PopupHandled ==
  ASSUME ClientTypeOK, PopupFollows, NEW kind, Handle(kind), kind \notin {"show", "hide"},
         popup' = popup, popup = "conv" => preedit' # <<>>, popupActive' = popupActive
  PROVE  PopupFollows'
<1>1. ASSUME NEW i \in Pending("show"), \A j \in Pending("hide") : j < i PROVE ShowComing'
  <2>1. i # 1 /\ i - 1 \in Pending("show")' /\ i \in Nat
    BY HandledPending
  <2>2. \A j \in Pending("hide")' : j < i - 1
    <3>1. \A j \in Pending("hide")' : j \in Int /\ j + 1 \in Pending("hide") BY HandledPending
    <3>. QED BY <1>1, <2>1, <3>1
  <2>. QED BY <2>1, <2>2 DEF ShowComing
<1>2. Pending("hide") = {} => Pending("hide")' = {} BY HandledPending
<1>. QED BY <1>1, <1>2 DEF PopupFollows, ShowComing

LEMMA ShowCopies == ASSUME ClientTypeOK, CopiesFollow, ShowSignal PROVE CopiesFollow'
<1>1. Handle("show") /\ popupActive' BY DEF ShowSignal, ClientTypeOK
<1>2. CacheFollows'
  BY <1>1, CacheHandled DEF ShowSignal, CopiesFollow, daemonVars, fixVars
<1>3. ASSUME NEW i \in Pending("show"), \A j \in Pending("hide") : j < i PROVE ShowComing'
  <2>1. CASE i = 1
    <3>1. Pending("hide")' = {}
      <4>. SUFFICES ASSUME NEW j \in Pending("hide")' PROVE FALSE OBVIOUS
      <4>1. j \in 1..(Len(signals) - 1) /\ j + 1 \in Pending("hide") BY <1>1, HandledPending
      <4>2. j + 1 < 1 BY <1>3, <2>1, <4>1
      <4>. QED BY <4>1, <4>2
    <3>. QED BY <1>1, <3>1 DEF ShowComing
  <2>2. CASE i # 1
    <3>1. i - 1 \in Pending("show")' /\ i \in Nat
      BY <1>1, <2>2, HandledPending
    <3>2. \A j \in Pending("hide")' : j < i - 1
      <4>1. \A j \in Pending("hide")' : j \in Int /\ j + 1 \in Pending("hide")
        BY <1>1, HandledPending
      <4>. QED BY <1>3, <3>1, <4>1
    <3>. QED BY <3>1, <3>2 DEF ShowComing
  <2>. QED BY <2>1, <2>2
<1>4. Pending("hide") = {} => ShowComing'
  <2>1. Pending("hide") = {} => Pending("hide")' = {} BY <1>1, HandledPending
  <2>. QED BY <1>1, <2>1 DEF ShowComing
<1>5. PopupFollows'
  BY <1>3, <1>4 DEF CopiesFollow, PopupFollows, ShowSignal, daemonVars, ShowComing
<1>. QED BY <1>2, <1>5 DEF CopiesFollow, DeferredDue, ShowSignal, fixVars

LEMMA HideCopies == ASSUME ClientTypeOK, CopiesFollow, HideSignal PROVE CopiesFollow'
<1>1. Handle("hide") BY DEF HideSignal
<1>2. CacheFollows'
  BY <1>1, CacheHandled DEF HideSignal, CopiesFollow, daemonVars, fixVars
<1>3. ASSUME ShowComing PROVE ShowComing'
  <2>1. 1 \in Pending("hide") BY <1>1, HandledPending
  <2>2. PICK i \in Pending("show") : \A j \in Pending("hide") : j < i
    BY <1>3, <2>1 DEF ShowComing
  <2>3. i # 1 /\ i \in Nat /\ i - 1 \in Pending("show")'
    BY <1>1, HandledPending
  <2>4. \A j \in Pending("hide")' : j < i - 1
    <3>1. \A j \in Pending("hide")' : j \in Int /\ j + 1 \in Pending("hide")
      BY <1>1, HandledPending
    <3>. QED BY <2>2, <2>3, <3>1
  <2>. QED BY <2>3, <2>4 DEF ShowComing
<1>4. PopupFollows' BY <1>3 DEF CopiesFollow, PopupFollows, HideSignal, daemonVars
<1>. QED BY <1>2, <1>4 DEF CopiesFollow, DeferredDue, HideSignal, fixVars

LEMMA CommitCopies == ASSUME ClientTypeOK, CopiesFollow, CommitSignal PROVE CopiesFollow'
<1>1. Handle("commit") BY DEF CommitSignal
<1>2. CacheFollows'
  BY <1>1, CacheHandled DEF CommitSignal, CopiesFollow, daemonVars, fixVars
<1>3. PopupFollows'
  BY <1>1, PopupHandled DEF CommitSignal, CopiesFollow, daemonVars, PopupFollows
<1>. QED BY <1>2, <1>3 DEF CopiesFollow, DeferredDue, CommitSignal, fixVars

\* The fix whose composition is awaited is this one, which caches or defers it, or a
\* later one.
LEMMA FixCopies == ASSUME ClientTypeOK, CopiesFollow, FixSignal PROVE CopiesFollow'
<1>. DEFINE fix == Head(signals)
<1>1. Handle("fix") /\ preedit' = preedit /\ popup' = popup /\ focused' = focused
      /\ popupActive' = popupActive
  BY DEF FixSignal, daemonVars
<1>2. PopupFollows' BY <1>1, PopupHandled DEF CopiesFollow, PopupFollows
<1>3. fix = signals[1] /\ fix.erase \in Nat /\ 1 \in Pending("fix")
  BY <1>1, HandleTypes, HandledPending DEF Signal
<1>4. ASSUME preedit # <<>> PROVE focused' /\ (cache' # <<>> \/ FixShows' \/
        (Pending("fix")' = {} /\ deferred' # None /\ deferred'[1].preview # <<>>))
  <2>1. focused /\ (cache # <<>> \/ FixShows)
    BY <1>3, <1>4 DEF CopiesFollow, CacheFollows
  <2>2. CASE cache # <<>>
    <3>1. cache' # <<>>
      BY <2>1, <2>2 DEF FixSignal, ApplyFix
    <3>. QED BY <1>1, <2>1, <3>1
  <2>3. CASE FixShows
    <3>1. PICK i \in Pending("fix") : signals[i].preview # <<>> /\ \A j \in Pending("fix") : j <= i
      BY <2>3 DEF FixShows
    <3>2. CASE i = 1
      <4>1. Pending("fix")' = {}
        <5>. SUFFICES ASSUME NEW j \in Pending("fix")' PROVE FALSE OBVIOUS
        <5>1. j \in 1..(Len(signals) - 1) /\ j + 1 \in Pending("fix") BY <1>1, HandledPending
        <5>2. j + 1 <= 1 BY <3>1, <3>2, <5>1
        <5>. QED BY <5>1, <5>2
      <4>2. fix.preview # <<>> BY <1>3, <3>1, <3>2
      <4>3. \/ cache' # <<>>
            \/ deferred' # None /\ deferred'[1].preview # <<>>
        <5>1. CASE ApplyFix(EraseLast(field, fix.erase) \o fix.text, fix.preview)
          BY <4>2, <5>1 DEF ApplyFix
        <5>2. CASE deferred' = <<[text |-> fix.text, preview |-> fix.preview]>>
          <6>1. deferred' # None BY <5>2 DEF None
          <6>2. deferred'[1].preview = fix.preview BY <5>2
          <6>. QED BY <4>2, <6>1, <6>2
        <5>. QED BY <2>1, <5>1, <5>2 DEF FixSignal
      <4>. QED BY <1>1, <2>1, <4>1, <4>3
    <3>3. CASE i # 1
      <4>1. i - 1 \in Pending("fix")' /\ i \in Nat
        BY <1>1, <3>3, HandledPending
      <4>2. i - 1 \in 1..(Len(signals) - 1) /\ (i - 1) + 1 = i BY <1>1, <4>1, HandledPending
      <4>3. signals'[i - 1] = signals[i] BY <1>1, <4>2, HandledPending
      <4>4. \A j \in Pending("fix")' : j <= i - 1
        <5>1. \A j \in Pending("fix")' : j \in Int /\ j + 1 \in Pending("fix")
          BY <1>1, HandledPending
        <5>. QED BY <3>1, <4>1, <5>1
      <4>5. FixShows' BY <3>1, <4>1, <4>3, <4>4 DEF FixShows
      <4>. QED BY <1>1, <2>1, <4>5
    <3>. QED BY <3>2, <3>3
  <2>. QED BY <2>1, <2>2, <2>3
<1>5. CacheFollows' BY <1>1, <1>4 DEF CacheFollows
<1>6. DeferredDue'
  <2>1. CASE UNCHANGED fixVars
    BY <2>1 DEF CopiesFollow, DeferredDue, fixVars
  <2>2. CASE fix.erase > 0 /\ bsPending' = fix.erase
    BY <2>2 DEF DeferredDue
  <2>. QED BY <2>1, <2>2 DEF FixSignal
<1>. QED BY <1>2, <1>5, <1>6 DEF CopiesFollow

LEMMA BackspaceCopies == ASSUME ClientTypeOK, CopiesFollow, SelfBackspace PROVE CopiesFollow'
<1>1. UNCHANGED <<popup, signals, deferred, popupActive, focused>>
  BY DEF SelfBackspace
<1>2. CacheFollows'
  <2>1. CASE UNCHANGED <<preedit, cache>>
    BY <1>1, <2>1 DEF CopiesFollow, CacheFollows, FixShows, Pending
  <2>2. CASE preedit # <<>> /\ cache' = preedit'
    BY <1>1, <2>2 DEF CopiesFollow, CacheFollows
  <2>. QED BY <2>1, <2>2 DEF SelfBackspace
<1>3. PopupFollows'
  <2>1. popup # "none" => preedit' = preedit BY DEF SelfBackspace
  <2>. QED BY <1>1, <2>1 DEF CopiesFollow, PopupFollows, ShowComing, Pending
<1>4. DeferredDue'
  <2>1. bsPending \in Nat /\ idle \in Nat BY DEF ClientTypeOK
  <2>. QED BY <1>1, <2>1 DEF CopiesFollow, DeferredDue, SelfBackspace, LastBackspace
<1>. QED BY <1>2, <1>3, <1>4 DEF CopiesFollow

LEMMA DeferredCopies == ASSUME ClientTypeOK, CopiesFollow, DeferredCommit PROVE CopiesFollow'
<1>1. UNCHANGED <<preedit, popup, signals, popupActive, focused>> /\ deferred' = None
  BY DEF DeferredCommit, daemonVars
<1>2. CacheFollows'
  <2>1. FixShows' = FixShows BY <1>1 DEF FixShows, Pending
  <2>2. cache # <<>> => cache' # <<>> BY DEF DeferredCommit, ApplyFix
  <2>3. deferred # None /\ deferred[1].preview # <<>> => cache' # <<>>
    BY DEF DeferredCommit, ApplyFix
  <2>. QED BY <1>1, <2>1, <2>2, <2>3 DEF CopiesFollow, CacheFollows
<1>3. PopupFollows' BY <1>1 DEF CopiesFollow, PopupFollows, ShowComing, Pending
<1>. QED BY <1>1, <1>2, <1>3 DEF CopiesFollow, DeferredDue

LEMMA CopiesKept ==
  ASSUME ClientTypeOK, CopiesFollow, [Next]_vars PROVE CopiesFollow'
<1>1. CASE UNCHANGED vars
  BY <1>1 DEF vars, daemonVars, clientVars, fixVars, CopiesFollow, CacheFollows, PopupFollows,
              DeferredDue, FixShows, ShowComing, Pending
<1>. QED
  BY <1>1, SyllableCopies, TypeFixCopies, NavigationCopies, HanjaCopies, DaemonCopies, FocusCopies,
     CommitCopies, FixCopies, BackspaceCopies, DeferredCopies, ShowCopies, HideCopies DEF Next

LEMMA QuietBypass == ASSUME ClientTypeOK, CopiesFollow PROVE BypassSafe
<1>. SUFFICES ASSUME Quiet, Bypass PROVE preedit = <<>> /\ popup = "none"
  BY DEF BypassSafe
<1>1. \A kind : Pending(kind) = {} BY DEF Quiet, Pending
<1>2. deferred = None BY DEF Quiet, CopiesFollow, DeferredDue
<1>3. preedit = <<>> BY <1>1, <1>2 DEF CopiesFollow, CacheFollows, FixShows, Bypass
<1>4. popup # "conv" /\ popup # "emoji"
  BY <1>1, <1>3 DEF CopiesFollow, PopupFollows, ShowComing, Bypass
<1>. QED BY <1>3, <1>4 DEF ClientTypeOK

\* The copies the module keeps of the daemon's composition and popup do not lag once
\* the signals are handled, whatever fixes overlap, time out or lose the focus: a key
\* that bypasses the daemon is not one the engine was waiting for.
THEOREM BypassAgrees == Spec => []BypassSafe
<1>1. Init => CopiesFollow
  BY DEF Init, CopiesFollow, CacheFollows, PopupFollows, DeferredDue
<1>. QED BY <1>1, ClientTypeCorrect, CopiesKept, QuietBypass, PTL DEF Spec

-----------------------------------------------------------------------------
(* Texts as the numbers of the characters typed. *)

\* The number of a character; a Hanja's is that of the character it stands for.
Letter(x) == IF x < 0 THEN -x ELSE x

\* The text is what was typed after the first n characters.
Runs(text, n) == \A i \in 1..Len(text) : Letter(text[i]) = n + i

LEMMA LetterNat == ASSUME NEW x \in Int PROVE Letter(x) \in Nat /\ Letter(-x) = Letter(x)
BY DEF Letter

LEMMA RunsNone == ASSUME NEW n \in Nat PROVE Runs(<<>>, n)
BY NoText DEF Runs

LEMMA RunsConcat ==
  ASSUME NEW s \in Texts, NEW t \in Texts, NEW n \in Nat, Runs(s, n), Runs(t, n + Len(s))
  PROVE  Runs(s \o t, n)
<1>1. Len(s) \in Nat /\ Len(t) \in Nat BY TextLen
<1>2. SUFFICES ASSUME NEW i \in 1..(Len(s) + Len(t)) PROVE Letter((s \o t)[i]) = n + i
  BY TextConcat DEF Runs
<1>3. CASE i <= Len(s)
  <2>1. (s \o t)[i] = s[i] /\ i \in 1..Len(s) BY <1>1, <1>3, TextConcat
  <2>. QED BY <2>1 DEF Runs
<1>4. CASE i > Len(s)
  <2>1. (s \o t)[i] = t[i - Len(s)] /\ i - Len(s) \in 1..Len(t) BY <1>1, <1>4, TextConcat
  <2>2. Letter(t[i - Len(s)]) = (n + Len(s)) + (i - Len(s)) BY <2>1 DEF Runs
  <2>. QED BY <1>1, <2>1, <2>2
<1>. QED BY <1>1, <1>3, <1>4

\* A beginning and the end of a text, and a text without its end.
LEMMA RunsPart ==
  ASSUME NEW s \in Texts, NEW n \in Nat, Runs(s, n), NEW k \in 0..Len(s)
  PROVE  /\ Runs(SubSeq(s, 1, k), n) /\ Len(SubSeq(s, 1, k)) = k
         /\ Runs(SubSeq(s, k + 1, Len(s)), n + k) /\ Len(SubSeq(s, k + 1, Len(s))) = Len(s) - k
         /\ SubSeq(s, 1, k) \in Texts /\ SubSeq(s, k + 1, Len(s)) \in Texts
<1>1. Len(s) \in Nat /\ k \in Nat /\ k <= Len(s) BY TextLen
<1>2. /\ SubSeq(s, 0 + 1, k) \in Texts
      /\ Len(SubSeq(s, 0 + 1, k)) = IF 0 < k THEN k - 0 ELSE 0
      /\ \A i \in 1..(k - 0) : SubSeq(s, 0 + 1, k)[i] = s[0 + i]
  BY <1>1, TextPart DEF Texts
<1>3. /\ SubSeq(s, k + 1, Len(s)) \in Texts
      /\ Len(SubSeq(s, k + 1, Len(s))) = IF k < Len(s) THEN Len(s) - k ELSE 0
      /\ \A i \in 1..(Len(s) - k) : SubSeq(s, k + 1, Len(s))[i] = s[k + i]
  BY <1>1, TextPart DEF Texts
<1>4. Len(SubSeq(s, 1, k)) = k /\ Len(SubSeq(s, k + 1, Len(s))) = Len(s) - k
  BY <1>1, <1>2, <1>3
<1>5. ASSUME NEW i \in 1..k PROVE Letter(SubSeq(s, 1, k)[i]) = n + i
  <2>1. i \in 1..(k - 0) /\ i \in 1..Len(s) /\ 0 + i = i BY <1>1
  <2>2. SubSeq(s, 1, k)[i] = s[i] BY <1>2, <2>1
  <2>. QED BY <2>1, <2>2 DEF Runs
<1>6. ASSUME NEW i \in 1..(Len(s) - k) PROVE Letter(SubSeq(s, k + 1, Len(s))[i]) = n + k + i
  <2>1. k + i \in 1..Len(s) BY <1>1
  <2>2. Letter(s[k + i]) = n + (k + i) BY <2>1 DEF Runs
  <2>. QED BY <1>1, <1>3, <2>2
<1>. QED BY <1>2, <1>3, <1>4, <1>5, <1>6 DEF Runs

LEMMA RunsErase ==
  ASSUME NEW s \in Texts, NEW n \in Nat, Runs(s, n), NEW k \in 0..Len(s)
  PROVE  Runs(EraseLast(s, k), n) /\ Len(EraseLast(s, k)) = Len(s) - k
<1>1. Len(s) \in Nat /\ Len(s) - k \in 0..Len(s) BY TextLen
<1>. QED BY <1>1, RunsPart DEF EraseLast

LEMMA RunsNext ==
  ASSUME NEW s \in Texts, NEW n \in Nat, Runs(s, n)
  PROVE  /\ Append(s, n + Len(s) + 1) \in Texts /\ Runs(Append(s, n + Len(s) + 1), n)
         /\ Len(Append(s, n + Len(s) + 1)) = Len(s) + 1
<1>1. Len(s) \in Nat BY TextLen
<1>. DEFINE x == n + Len(s) + 1
<1>2. x \in Int /\ Letter(x) = x BY <1>1 DEF Letter
<1>. HIDE DEF x
<1>3. Append(s, x) \in Texts /\ Len(Append(s, x)) = Len(s) + 1
  BY <1>2 DEF Texts
<1>4. ASSUME NEW i \in 1..(Len(s) + 1) PROVE Letter(Append(s, x)[i]) = n + i
  <2>1. CASE i = Len(s) + 1
    <3>1. Append(s, x)[i] = x BY <2>1, <1>1 DEF Texts
    <3>2. x = n + i BY <1>1, <2>1 DEF x
    <3>. QED BY <1>2, <3>1, <3>2
  <2>2. CASE i # Len(s) + 1
    <3>1. i \in 1..Len(s) BY <1>1, <2>2
    <3>2. Append(s, x)[i] = s[i] BY <3>1, <1>1 DEF Texts
    <3>. QED BY <3>1, <3>2 DEF Runs
  <2>. QED BY <2>1, <2>2
<1>5. Runs(Append(s, x), n) BY <1>3, <1>4 DEF Runs
<1>. QED BY <1>3, <1>5 DEF x

LEMMA RunsHanja ==
  ASSUME NEW s \in Texts, NEW n \in Nat, Runs(s, n) PROVE Runs(Hanja(s), n)
<1>1. \A i \in 1..Len(s) : s[i] \in Int BY ElementOfSeq DEF Texts
<1>2. \A i \in 1..Len(s) : Letter(Hanja(s)[i]) = n + i
  BY <1>1, HanjaText, LetterNat DEF Runs
<1>. QED BY <1>2, HanjaText DEF Runs

-----------------------------------------------------------------------------
(* Where in the field the texts on their way belong. *)

\* A signal, handled when the field ends after a characters, leaves b of them; a
\* commit that repeats what the module has written (dup) is skipped.
Moves(s, dup, a, b) ==
  IF s.kind = "commit" /\ ~dup THEN b = a + Len(s.text) /\ Runs(s.text, a)
  ELSE IF s.kind = "fix"
       THEN /\ s.erase <= a /\ b = (a - s.erase) + Len(s.text)
            /\ Runs(s.text, a - s.erase)
       ELSE b = a

\* A signal that leaves the field as it is.
Still(s, dup) == s.kind # "fix" /\ (s.kind = "commit" => dup)

\* pos[i]: where the field ends when the i-th signal has been handled.  What follows
\* from the first conjunct by induction is made part of it.
Positions(q, dup, pos) ==
  /\ pos \in [0..Len(q) -> Nat]
  /\ \A i \in 1..Len(q) : Moves(q[i], i = dup, pos[i - 1], pos[i])
  /\ \A i, j \in 0..Len(q) :
       i <= j /\ (\A k \in (i + 1)..j : Still(q[k], k = dup)) => pos[i] = pos[j]
  /\ \A i, j \in 0..Len(q) :
       i <= j /\ (\A k \in (i + 1)..j : q[k].kind # "fix") => pos[i] <= pos[j]

\* Handling the signals of q takes the end of the field from a to b.
Chain(q, dup, a, b) ==
  \E pos : Positions(q, dup, pos) /\ pos[0] = a /\ pos[Len(q)] = b

LEMMA MovesNat ==
  ASSUME NEW s \in Signal, NEW d \in BOOLEAN, NEW a \in Nat, NEW b, Moves(s, d, a, b)
  PROVE  /\ b \in Nat
         /\ Still(s, d) => b = a
         /\ s.kind # "fix" => a <= b
<1>1. CASE s.kind = "commit" /\ ~d
  <2>1. s.text \in Texts BY <1>1 DEF Signal
  <2>. QED BY <1>1, <2>1, TextLen DEF Moves, Still
<1>2. CASE s.kind = "fix"
  <2>1. s.text \in Texts /\ s.erase \in Nat BY <1>2 DEF Signal
  <2>2. Len(s.text) \in Nat BY <2>1, TextLen
  <2>3. s.erase <= a /\ b = (a - s.erase) + Len(s.text) BY <1>2 DEF Moves
  <2>4. b \in Nat BY <2>1, <2>2, <2>3
  <2>. QED BY <1>2, <2>4 DEF Still
<1>3. CASE ~(s.kind = "commit" /\ ~d) /\ s.kind # "fix"
  BY <1>3 DEF Moves
<1>. QED BY <1>1, <1>2, <1>3

LEMMA ChainEnds ==
  ASSUME NEW q \in Seq(Signal), NEW dup \in Int, NEW a, NEW b, Chain(q, dup, a, b)
  PROVE  /\ a \in Nat /\ b \in Nat
         /\ q = <<>> => a = b
         /\ (\A k \in 1..Len(q) : Still(q[k], k = dup)) => a = b
         /\ (\A k \in 1..Len(q) : q[k].kind # "fix") => a <= b
<1>1. PICK pos : Positions(q, dup, pos) /\ pos[0] = a /\ pos[Len(q)] = b BY DEF Chain
<1>2. Len(q) \in Nat /\ 0 \in 0..Len(q) /\ Len(q) \in 0..Len(q) /\ 0 <= Len(q) /\ 0 + 1 = 1
  BY LenProperties
<1>3. a \in Nat /\ b \in Nat BY <1>1, <1>2 DEF Positions
<1>4. (\A k \in (0 + 1)..Len(q) : Still(q[k], k = dup)) => pos[0] = pos[Len(q)]
  BY <1>1, <1>2 DEF Positions
<1>5. (\A k \in (0 + 1)..Len(q) : q[k].kind # "fix") => pos[0] <= pos[Len(q)]
  BY <1>1, <1>2 DEF Positions
<1>6. q = <<>> => a = b BY <1>1, NoText
<1>. QED BY <1>1, <1>2, <1>3, <1>4, <1>5, <1>6

LEMMA ChainStill ==
  ASSUME NEW q \in Seq(Signal), NEW dup \in Int, NEW a \in Nat,
         \A k \in 1..Len(q) : Still(q[k], k = dup)
  PROVE  Chain(q, dup, a, a)
<1>. DEFINE pos == [i \in 0..Len(q) |-> a]
<1>1. Len(q) \in Nat BY LenProperties
<1>2. \A i \in 1..Len(q) : i - 1 \in 0..Len(q) /\ i \in 0..Len(q) BY <1>1
<1>3. \A i \in 0..Len(q) : pos[i] = a OBVIOUS
<1>4. pos \in [0..Len(q) -> Nat] OBVIOUS
<1>. HIDE DEF pos
<1>5. \A i \in 1..Len(q) : Moves(q[i], i = dup, pos[i - 1], pos[i])
  BY <1>2, <1>3 DEF Moves, Still
<1>6. Positions(q, dup, pos) BY <1>3, <1>4, <1>5 DEF Positions
<1>7. pos[0] = a /\ pos[Len(q)] = a BY <1>1, <1>3
<1>. QED BY <1>6, <1>7 DEF Chain

LEMMA ChainAppend ==
  ASSUME NEW q \in Seq(Signal), NEW s \in Signal, NEW dup \in Int, NEW a, NEW b, NEW c,
         Chain(q, dup, a, b), Moves(s, Len(q) + 1 = dup, b, c)
  PROVE  Chain(Append(q, s), dup, a, c)
<1>1. PICK pos : Positions(q, dup, pos) /\ pos[0] = a /\ pos[Len(q)] = b BY DEF Chain
<1>. DEFINE n == Len(q)
            r == Append(q, s)
            new == [i \in 0..(n + 1) |-> IF i <= n THEN pos[i] ELSE c]
<1>2. n \in Nat BY LenProperties
<1>3. Len(r) = n + 1 /\ \A i \in 1..n : r[i] = q[i] BY <1>2
<1>4. r[n + 1] = s BY <1>2
<1>5. b \in Nat BY ChainEnds
<1>6. /\ c \in Nat /\ (Still(s, n + 1 = dup) => c = b) /\ (s.kind # "fix" => b <= c)
  BY <1>5, MovesNat
<1>7. pos \in [0..n -> Nat] /\ pos[n] = b BY <1>1 DEF Positions
<1>8. /\ \A i \in 0..n : new[i] = pos[i]
      /\ new[n + 1] = c
  BY <1>2
<1>9. new \in [0..(n + 1) -> Nat] BY <1>2, <1>6, <1>7
<1>. HIDE DEF new, r
<1>10. ASSUME NEW i \in 1..(n + 1) PROVE Moves(r[i], i = dup, new[i - 1], new[i])
  <2>1. CASE i = n + 1
    <3>1. i - 1 = n /\ n \in 0..n BY <1>2, <2>1
    <3>2. new[i - 1] = b BY <3>1, <1>7, <1>8
    <3>. QED BY <2>1, <3>2, <1>4, <1>8
  <2>2. CASE i # n + 1
    <3>1. i \in 1..n /\ i - 1 \in 0..n /\ i \in 0..n BY <1>2, <2>2
    <3>2. Moves(q[i], i = dup, pos[i - 1], pos[i]) BY <1>1, <3>1 DEF Positions
    <3>. QED BY <3>1, <3>2, <1>3, <1>8
  <2>. QED BY <2>1, <2>2
<1>11. ASSUME NEW i \in 0..(n + 1), NEW j \in 0..(n + 1), i <= j,
              \A k \in (i + 1)..j : Still(r[k], k = dup)
       PROVE  new[i] = new[j]
  <2>1. CASE i = j BY <2>1
  <2>2. CASE i # j /\ j # n + 1
    <3>1. i \in 0..n /\ j \in 0..n /\ \A k \in (i + 1)..j : k \in 1..n BY <1>2, <1>11, <2>2
    <3>2. \A k \in (i + 1)..j : Still(q[k], k = dup) BY <1>3, <1>11, <3>1
    <3>3. pos[i] = pos[j] BY <1>1, <1>11, <3>1, <3>2 DEF Positions
    <3>. QED BY <3>1, <3>3, <1>8
  <2>3. CASE i # j /\ j = n + 1
    <3>1. i \in 0..n /\ n \in 0..n /\ i <= n /\ \A k \in (i + 1)..n : k \in 1..n /\ k \in (i + 1)..j
      BY <1>2, <1>11, <2>3
    <3>2. \A k \in (i + 1)..n : Still(q[k], k = dup) BY <1>3, <1>11, <3>1
    <3>3. pos[i] = pos[n] BY <1>1, <3>1, <3>2 DEF Positions
    <3>4. n + 1 \in (i + 1)..j BY <1>2, <2>3, <3>1
    <3>5. c = b BY <1>4, <1>6, <1>11, <3>4
    <3>. QED BY <2>3, <3>1, <3>3, <3>5, <1>7, <1>8
  <2>. QED BY <2>1, <2>2, <2>3
<1>12. ASSUME NEW i \in 0..(n + 1), NEW j \in 0..(n + 1), i <= j,
              \A k \in (i + 1)..j : r[k].kind # "fix"
       PROVE  new[i] <= new[j]
  <2>1. CASE i = j BY <2>1, <1>9
  <2>2. CASE i # j /\ j # n + 1
    <3>1. i \in 0..n /\ j \in 0..n /\ \A k \in (i + 1)..j : k \in 1..n BY <1>2, <1>12, <2>2
    <3>2. \A k \in (i + 1)..j : q[k].kind # "fix" BY <1>3, <1>12, <3>1
    <3>3. pos[i] <= pos[j] BY <1>1, <1>12, <3>1, <3>2 DEF Positions
    <3>. QED BY <3>1, <3>3, <1>8
  <2>3. CASE i # j /\ j = n + 1
    <3>1. i \in 0..n /\ n \in 0..n /\ i <= n /\ \A k \in (i + 1)..n : k \in 1..n /\ k \in (i + 1)..j
      BY <1>2, <1>12, <2>3
    <3>2. \A k \in (i + 1)..n : q[k].kind # "fix" BY <1>3, <1>12, <3>1
    <3>3. pos[i] <= pos[n] /\ pos[i] \in Nat BY <1>1, <1>7, <3>1, <3>2 DEF Positions
    <3>4. n + 1 \in (i + 1)..j BY <1>2, <2>3, <3>1
    <3>5. b <= c BY <1>4, <1>6, <1>12, <3>4
    <3>6. pos[i] <= c BY <1>5, <1>6, <1>7, <3>3, <3>5
    <3>. QED BY <2>3, <3>1, <3>6, <1>8
  <2>. QED BY <2>1, <2>2, <2>3
<1>13. Positions(r, dup, new)
  BY <1>3, <1>9, <1>10, <1>11, <1>12 DEF Positions, r
<1>14. new[0] = a /\ new[Len(r)] = c
  <2>1. 0 \in 0..n BY <1>2
  <2>. QED BY <2>1, <1>1, <1>3, <1>8 DEF r
<1>. QED BY <1>13, <1>14 DEF Chain, r

LEMMA ChainTail ==
  ASSUME NEW q \in Seq(Signal), q # <<>>, NEW dup \in Int, NEW a, NEW b, Chain(q, dup, a, b)
  PROVE  \E m \in Nat : Moves(q[1], 1 = dup, a, m) /\ Chain(Tail(q), dup - 1, m, b)
<1>1. PICK pos : Positions(q, dup, pos) /\ pos[0] = a /\ pos[Len(q)] = b BY DEF Chain
<1>. DEFINE n == Len(q) - 1
            r == Tail(q)
            new == [i \in 0..n |-> pos[i + 1]]
<1>2. n \in Nat /\ Len(q) = n + 1 /\ Len(r) = n /\ \A i \in 1..n : r[i] = q[i + 1]
  BY HeadTailProperties, EmptySeq
<1>3. pos \in [0..(n + 1) -> Nat] BY <1>1, <1>2 DEF Positions
<1>4. \A i \in 0..n : i + 1 \in 0..(n + 1) /\ new[i] = pos[i + 1] BY <1>2
<1>5. new \in [0..n -> Nat] BY <1>3, <1>4
<1>. HIDE DEF new, r, n
<1>6. \A i \in 1..n : (i = dup - 1) = (i + 1 = dup) BY <1>2
<1>7. ASSUME NEW i \in 1..n PROVE Moves(r[i], i = dup - 1, new[i - 1], new[i])
  <2>1. i + 1 \in 1..Len(q) /\ (i + 1) - 1 = i /\ i - 1 \in 0..n /\ i \in 0..n /\ (i - 1) + 1 = i
    BY <1>2
  <2>2. Moves(q[i + 1], i + 1 = dup, pos[i], pos[i + 1])
    BY <1>1, <2>1 DEF Positions
  <2>3. new[i - 1] = pos[i] /\ new[i] = pos[i + 1] BY <1>4, <2>1
  <2>. QED BY <1>2, <1>6, <2>2, <2>3
<1>8. ASSUME NEW i \in 0..n, NEW j \in 0..n, i <= j,
             \A k \in (i + 1)..j : Still(r[k], k = dup - 1)
      PROVE  new[i] = new[j]
  <2>1. i + 1 \in 0..Len(q) /\ j + 1 \in 0..Len(q) /\ i + 1 <= j + 1 BY <1>2, <1>8
  <2>2. ASSUME NEW k \in ((i + 1) + 1)..(j + 1) PROVE Still(q[k], k = dup)
    <3>1. k - 1 \in (i + 1)..j /\ k - 1 \in 1..n /\ (k - 1) + 1 = k BY <1>2
    <3>2. Still(r[k - 1], k - 1 = dup - 1) BY <1>8, <3>1
    <3>. QED BY <1>2, <1>6, <3>1, <3>2
  <2>3. pos[i + 1] = pos[j + 1] BY <1>1, <2>1, <2>2 DEF Positions
  <2>. QED BY <1>4, <2>3
<1>9. ASSUME NEW i \in 0..n, NEW j \in 0..n, i <= j,
             \A k \in (i + 1)..j : r[k].kind # "fix"
      PROVE  new[i] <= new[j]
  <2>1. i + 1 \in 0..Len(q) /\ j + 1 \in 0..Len(q) /\ i + 1 <= j + 1 BY <1>2, <1>9
  <2>2. ASSUME NEW k \in ((i + 1) + 1)..(j + 1) PROVE q[k].kind # "fix"
    <3>1. k - 1 \in (i + 1)..j /\ k - 1 \in 1..n /\ (k - 1) + 1 = k BY <1>2
    <3>2. r[k - 1].kind # "fix" BY <1>9, <3>1
    <3>. QED BY <1>2, <3>1, <3>2
  <2>3. pos[i + 1] <= pos[j + 1] BY <1>1, <2>1, <2>2 DEF Positions
  <2>. QED BY <1>4, <2>3
<1>10. Positions(r, dup - 1, new) BY <1>2, <1>5, <1>7, <1>8, <1>9 DEF Positions
<1>11. 0 \in 0..n /\ n \in 0..n /\ 0 + 1 = 1 BY <1>2
<1>12. new[0] = pos[1] /\ new[n] = b BY <1>1, <1>2, <1>4, <1>11
<1>13. Chain(r, dup - 1, pos[1], b) BY <1>2, <1>10, <1>12 DEF Chain
<1>14. pos[1] \in Nat /\ Moves(q[1], 1 = dup, a, pos[1])
  <2>1. 1 \in 1..Len(q) /\ 1 - 1 = 0 /\ 1 \in 0..(n + 1) BY <1>2
  <2>. QED BY <1>1, <1>3, <2>1 DEF Positions
<1>. QED BY <1>13, <1>14 DEF r

\* Which signal is skipped does not matter unless it is one of q.
LEMMA ChainOther ==
  ASSUME NEW q \in Seq(Signal), NEW d \in Int, NEW e \in Int, NEW a, NEW b, Chain(q, d, a, b),
         d \notin 1..Len(q), e \notin 1..Len(q)
  PROVE  Chain(q, e, a, b)
<1>1. PICK pos : Positions(q, d, pos) /\ pos[0] = a /\ pos[Len(q)] = b BY DEF Chain
<1>2. \A i \in 1..Len(q) : (i = d) = (i = e) OBVIOUS
<1>3. \A i \in 1..Len(q) : Moves(q[i], i = e, pos[i - 1], pos[i])
  BY <1>1, <1>2 DEF Positions
<1>4. ASSUME NEW i \in 0..Len(q), NEW j \in 0..Len(q), i <= j,
             \A k \in (i + 1)..j : Still(q[k], k = e)
      PROVE  pos[i] = pos[j]
  <2>1. Len(q) \in Nat BY LenProperties
  <2>2. \A k \in (i + 1)..j : k \in 1..Len(q) BY <2>1
  <2>3. \A k \in (i + 1)..j : Still(q[k], k = d) BY <1>2, <1>4, <2>2
  <2>. QED BY <1>1, <1>4, <2>3 DEF Positions
<1>5. Positions(q, e, pos) BY <1>1, <1>3, <1>4 DEF Positions
<1>. QED BY <1>1, <1>5 DEF Chain

\* The first letter of a commit that will not be skipped is one the field lacks, if
\* no fix comes before it; and no two begin with the same.
LEMMA ChainFresh ==
  ASSUME NEW q \in Seq(Signal), NEW dup \in Int, NEW a, NEW b, Chain(q, dup, a, b),
         \A k \in 1..Len(q) : q[k].kind # "fix",
         NEW i \in 1..Len(q), q[i].kind = "commit", i # dup
  PROVE  /\ Letter(q[i].text[1]) > a
         /\ \A j \in 1..Len(q) :
              j # dup /\ q[j].kind = "commit" /\ j # i => Letter(q[j].text[1]) # Letter(q[i].text[1])
<1>1. PICK pos : Positions(q, dup, pos) /\ pos[0] = a /\ pos[Len(q)] = b BY DEF Chain
<1>2. Len(q) \in Nat BY LenProperties
<1>3. \A k \in 0..Len(q) : pos[k] \in Nat BY <1>1 DEF Positions
<1>4. ASSUME NEW j \in 1..Len(q), j # dup, q[j].kind = "commit"
      PROVE  /\ j - 1 \in 0..Len(q) /\ j \in 0..Len(q)
             /\ Letter(q[j].text[1]) = pos[j - 1] + 1 /\ pos[j - 1] < pos[j]
  <2>1. j - 1 \in 0..Len(q) /\ j \in 0..Len(q) BY <1>2
  <2>2. pos[j] = pos[j - 1] + Len(q[j].text) /\ Runs(q[j].text, pos[j - 1])
    BY <1>1, <1>4 DEF Positions, Moves
  <2>3. q[j] \in Signal BY ElementOfSeq
  <2>4. q[j].text \in Texts /\ q[j].text # <<>> BY <1>4, <2>3 DEF Signal
  <2>5. Len(q[j].text) \in Nat /\ Len(q[j].text) >= 1
    BY <2>4, EmptySeq DEF Texts
  <2>. QED BY <1>3, <2>1, <2>2, <2>5 DEF Runs
<1>5. ASSUME NEW k \in 0..Len(q), NEW j \in 0..Len(q), k <= j PROVE pos[k] <= pos[j]
  <2>1. \A l \in (k + 1)..j : l \in 1..Len(q) BY <1>2
  <2>. QED BY <1>1, <1>5, <2>1 DEF Positions
<1>6. Letter(q[i].text[1]) > a
  <2>1. 0 \in 0..Len(q) /\ i - 1 \in 0..Len(q) /\ 0 <= i - 1 BY <1>2
  <2>2. pos[0] <= pos[i - 1] BY <1>5, <2>1
  <2>. QED BY <1>1, <1>3, <1>4, <2>1, <2>2
<1>7. ASSUME NEW j \in 1..Len(q), NEW l \in 1..Len(q), j # dup, q[j].kind = "commit",
             l # dup, q[l].kind = "commit", j < l
      PROVE  Letter(q[j].text[1]) # Letter(q[l].text[1])
  <2>1. /\ j \in 0..Len(q) /\ j - 1 \in 0..Len(q) /\ l - 1 \in 0..Len(q) /\ j <= l - 1
    BY <1>2, <1>7
  <2>2. pos[j] <= pos[l - 1] BY <1>5, <2>1
  <2>3. pos[j - 1] < pos[j] BY <1>4, <1>7
  <2>4. pos[j - 1] \in Nat /\ pos[j] \in Nat /\ pos[l - 1] \in Nat BY <1>3, <2>1
  <2>5. Letter(q[j].text[1]) = pos[j - 1] + 1 /\ Letter(q[l].text[1]) = pos[l - 1] + 1
    BY <1>4, <1>7
  <2>6. pos[j - 1] + 1 # pos[l - 1] + 1
    <3>1. PICK x \in Nat, y \in Nat, z \in Nat : x = pos[j - 1] /\ y = pos[j] /\ z = pos[l - 1]
      BY <2>4
    <3>2. x < y /\ y <= z
      BY <2>2, <2>3, <3>1
    <3>3. x + 1 # z + 1
      BY <3>2
    <3>. QED BY <3>1, <3>3
  <2>. QED BY <2>5, <2>6
<1>8. \A j \in 1..Len(q) : j # i => j < i \/ i < j BY <1>2
<1>. QED BY <1>6, <1>7, <1>8

-----------------------------------------------------------------------------
(* The text. *)

\* The field, and what a deferred fix will make of it: the first a characters.
Written(a) ==
  /\ Runs(field, 0)
  /\ \/ /\ deferred = None /\ bsPending = 0 /\ idle = 0 /\ injected = 0
        /\ a = Len(field)
     \/ /\ deferred # None /\ injected = bsPending /\ bsPending <= Len(field)
        /\ idle = IF bsPending > 0 THEN 0 ELSE 1
        /\ a = (Len(field) - bsPending) + Len(deferred[1].text)
        /\ Runs(deferred[1].text, Len(field) - bsPending)
        /\ Pending("fix") = {}

\* The composition is what was typed after the first b characters.
Composed(b) == Runs(preedit, b) /\ count = b + Len(preedit)

OneFix == \A i, j \in Pending("fix") : i = j /\ focused

\* dup is the signal to be skipped, before which no text is on its way; or there is
\* none, and there never will be.
Skipped(dup) ==
  \/ /\ dup \in Pending("commit") /\ signals[dup].text = skip /\ cache # skip
     /\ \A i \in 1..(dup - 1) : Still(signals[i], FALSE)
     /\ deferred = None /\ Letter(skip[1]) <= Len(field)
  \/ dup < 1 /\ (skip # None => ~alive /\ Pending("commit") = {})

Follows(dup, a, b) ==
  Written(a) /\ Chain(signals, dup, a, b) /\ Composed(b) /\ OneFix /\ Skipped(dup)

TextFollows == ~raced => \E dup \in Int, a, b \in Nat : Follows(dup, a, b)

LEMMA SignalsLen ==
  ASSUME ClientTypeOK
  PROVE  /\ Len(signals) \in Nat /\ DOMAIN signals = 1..Len(signals)
         /\ \A kind : Pending(kind) = {i \in 1..Len(signals) : signals[i].kind = kind}
         /\ \A i \in Pending("commit") : signals[i].text \in Texts /\ signals[i].text # <<>>
<1>1. Len(signals) \in Nat /\ DOMAIN signals = 1..Len(signals)
  BY LenProperties DEF ClientTypeOK
<1>2. \A i \in 1..Len(signals) : signals[i] \in Signal
  BY ElementOfSeq DEF ClientTypeOK
<1>. QED BY <1>1, <1>2 DEF Pending, Signal

\* When neither a text nor a fix is on its way, all that was typed is in the field and
\* the composition.
LEMMA NothingUnderWay ==
  ASSUME ClientTypeOK, NEW dup \in Int, NEW a, NEW b, Follows(dup, a, b),
         ~FixUnderWay, ~CommitUnderWay
  PROVE  /\ \A k \in 1..Len(signals) : Still(signals[k], k = dup)
         /\ a = Len(field) /\ b = Len(field)
<1>1. \A k \in 1..Len(signals) : signals[k].kind # "fix"
  BY SignalsLen DEF FixUnderWay
<1>2. a = Len(field) /\ deferred = None BY DEF FixUnderWay, Follows, Written
<1>3. ASSUME NEW k \in 1..Len(signals), signals[k].kind = "commit", k # dup PROVE FALSE
  <2>1. k \in Pending("commit") /\ signals[k].text \in Texts /\ signals[k].text # <<>>
    BY <1>3, SignalsLen
  <2>2. signals[k].text = skip BY <2>1 DEF CommitUnderWay
  <2>3. dup >= 1 /\ Letter(skip[1]) <= Len(field)
    <3>1. Skipped(dup) /\ skip # None BY <2>1, <2>2 DEF Follows, None
    <3>2. dup \in Pending("commit") BY <2>1, <3>1 DEF Skipped
    <3>3. dup \in 1..Len(signals) BY <3>2, SignalsLen
    <3>4. ~(dup < 1) /\ dup >= 1 BY <3>3
    <3>. QED BY <3>1, <3>4 DEF Skipped
  <2>4. Chain(signals, dup, a, b) BY DEF Follows
  <2>5. Letter(signals[k].text[1]) > a
    BY <1>1, <1>3, <2>4, ChainFresh DEF ClientTypeOK
  <2>6. Len(field) \in Nat BY TextLen DEF ClientTypeOK
  <2>7. skip[1] \in Int
    <3>1. Len(skip) \in Nat \ {0} BY <2>1, <2>2, EmptySeq DEF Texts
    <3>. QED BY <3>1, <2>1, <2>2, ElementOfSeq DEF Texts
  <2>8. Letter(skip[1]) \in Nat BY <2>7, LetterNat
  <2>9. Letter(skip[1]) > Len(field) BY <1>2, <2>2, <2>5
  <2>. QED BY <2>3, <2>6, <2>8, <2>9
<1>4. \A k \in 1..Len(signals) : Still(signals[k], k = dup) BY <1>1, <1>3 DEF Still
<1>5. a = b
  BY <1>4, ChainEnds DEF ClientTypeOK, Follows
<1>. QED BY <1>2, <1>4, <1>5

LEMMA OneMore ==
  ASSUME NEW q \in Seq(Signal), NEW s \in Signal PROVE q \o <<s>> = Append(q, s)
BY AppendIsConcat

LEMMA ChainPopup ==
  ASSUME NEW q \in Seq(Signal), NEW dup \in Int, NEW a, NEW b, Chain(q, dup, a, b),
         NEW sent, sent = HidePopup \/ sent = Show
  PROVE  Chain(q \o sent, dup, a, b)
<1>1. PICK kind \in {"show", "hide"} : sent = <<[kind |-> kind]>> BY DEF HidePopup, Show
<1>. DEFINE s == [kind |-> kind]
<1>2. s \in Signal BY DEF Signal
<1>3. Moves(s, Len(q) + 1 = dup, b, b) BY DEF Moves
<1>4. Chain(Append(q, s), dup, a, b) BY <1>2, <1>3, ChainAppend
<1>. QED BY <1>1, <1>2, <1>4, OneMore

LEMMA ChainCommit ==
  ASSUME NEW q \in Seq(Signal), NEW dup \in Int, NEW a, NEW b, Chain(q, dup, a, b),
         NEW text \in Texts, Runs(text, b), dup # Len(q) + 1
  PROVE  Chain(q \o Commit(text), dup, a, b + Len(text))
<1>1. CASE text = <<>>
  <2>1. q \o Commit(text) = q BY <1>1, ConcatEmptySeq DEF Commit
  <2>2. b + Len(text) = b BY <1>1, NoText, ChainEnds
  <2>. QED BY <2>1, <2>2
<1>2. CASE text # <<>>
  <2>. DEFINE s == [kind |-> "commit", text |-> text]
  <2>1. s \in Signal BY <1>2 DEF Signal
  <2>2. Moves(s, Len(q) + 1 = dup, b, b + Len(text)) BY DEF Moves
  <2>3. Chain(Append(q, s), dup, a, b + Len(text)) BY <2>1, <2>2, ChainAppend
  <2>. QED BY <1>2, <2>1, <2>3, OneMore DEF Commit
<1>. QED BY <1>1, <1>2

LEMMA SkippedSent ==
  ASSUME ClientTypeOK, NEW dup \in Int, Skipped(dup),
         NEW sent \in Seq(Signal), signals' = signals \o sent, sent = <<>> \/ alive,
         skip' = skip, alive' = alive,
         dup >= 1 => deferred' = deferred /\ cache' # skip /\ Letter(skip[1]) <= Len(field')
  PROVE  Skipped(dup)'
<1>1. /\ \A i \in DOMAIN signals : signals'[i] = signals[i]
      /\ Len(signals) \in Nat /\ DOMAIN signals = 1..Len(signals)
      /\ Len(signals') = Len(signals) + Len(sent) /\ DOMAIN signals' = 1..Len(signals')
      /\ Len(sent) \in Nat
  BY SentPending, LenProperties DEF ClientTypeOK
<1>2. CASE dup \in Pending("commit")
  <2>1. dup \in 1..Len(signals) /\ signals[dup].kind = "commit" BY <1>2, SignalsLen
  <2>2. dup \in Pending("commit")' /\ signals'[dup] = signals[dup]
    BY <1>1, <2>1 DEF Pending
  <2>3. \A i \in 1..(dup - 1) : signals'[i] = signals[i] BY <1>1, <2>1
  <2>4. dup >= 1 /\ ~(dup < 1) BY <2>1
  <2>5. /\ signals[dup].text = skip /\ \A i \in 1..(dup - 1) : Still(signals[i], FALSE)
        /\ deferred = None
    BY <2>4 DEF Skipped
  <2>6. signals'[dup].text = skip' /\ deferred' = None /\ cache' # skip'
        /\ Letter(skip'[1]) <= Len(field')
    BY <2>2, <2>4, <2>5
  <2>7. \A i \in 1..(dup - 1) : Still(signals'[i], FALSE) BY <2>3, <2>5
  <2>. QED BY <2>2, <2>6, <2>7 DEF Skipped
<1>3. CASE dup \notin Pending("commit")
  <2>1. dup < 1 /\ (skip # None => ~alive /\ Pending("commit") = {}) BY <1>3 DEF Skipped
  <2>2. sent = <<>> => signals' = signals BY ConcatEmptySeq DEF ClientTypeOK
  <2>3. skip # None => Pending("commit")' = {}
    <3>1. skip # None => signals' = signals BY <2>1, <2>2
    <3>. QED BY <2>1, <3>1 DEF Pending
  <2>. QED BY <2>1, <2>3 DEF Skipped
<1>. QED BY <1>2, <1>3

LEMMA SkippedFacts ==
  ASSUME ClientTypeOK, NEW dup \in Int, Skipped(dup), dup >= 1
  PROVE  /\ dup \in 1..Len(signals) /\ signals[dup].kind = "commit" /\ signals[dup].text = skip
         /\ skip # <<>> /\ Letter(skip[1]) \in Nat /\ Letter(skip[1]) <= Len(field)
         /\ cache # skip /\ deferred = None
         /\ \A i \in 1..(dup - 1) : Still(signals[i], FALSE)
<1>1. ~(dup < 1) OBVIOUS
<1>2. /\ dup \in Pending("commit") /\ signals[dup].text = skip /\ cache # skip
      /\ \A i \in 1..(dup - 1) : Still(signals[i], FALSE)
      /\ deferred = None /\ Letter(skip[1]) <= Len(field)
  BY <1>1 DEF Skipped
<1>3. skip \in Texts /\ skip # <<>> /\ dup \in 1..Len(signals) /\ signals[dup].kind = "commit"
  BY <1>2, SignalsLen
<1>4. Letter(skip[1]) \in Nat
  <2>1. Len(skip) \in Nat \ {0} BY <1>3, EmptySeq DEF Texts
  <2>2. skip[1] \in Int BY <1>3, <2>1, ElementOfSeq DEF Texts
  <2>. QED BY <2>2, LetterNat
<1>. QED BY <1>2, <1>3, <1>4

\* Text is written at once when none is on its way, and the rest is composed.
LEMMA Direct ==
  ASSUME ClientTypeOK, NEW dup \in Int, NEW a \in Nat, NEW b \in Nat, Follows(dup, a, b),
         ~FixUnderWay, NEW text \in Texts, text = <<>> \/ ~CommitUnderWay,
         field' = field \o text, Runs(text, b),
         preedit' \in Texts, Runs(preedit', b + Len(text)),
         count' = (b + Len(text)) + Len(preedit'),
         NEW sent, sent = <<>> \/ (sent = HidePopup /\ alive), signals' = signals \o sent,
         cache' = <<>> \/ cache' = preedit' \/ cache' = cache,
         UNCHANGED <<alive, skip, bsPending, deferred, idle>>, injected' = injected \/ injected' = 0
  PROVE  \E d \in Int, i, j \in Nat : Follows(d, i, j)'
<1>1. /\ deferred = None /\ bsPending = 0 /\ idle = 0 /\ injected = 0 /\ a = Len(field)
      /\ Pending("fix") = {} /\ Runs(field, 0)
  BY DEF FixUnderWay, Follows, Written
<1>2. /\ sent \in Seq(Signal) /\ \A i \in DOMAIN sent : sent[i].kind # "fix"
  <2>1. CASE sent = <<>> BY <2>1, PopupSignals
  <2>2. CASE sent = HidePopup BY <2>2, PopupSignals, PopupKinds
  <2>. QED BY <2>1, <2>2
<1>3. Pending("fix")' = {}
  BY <1>1, <1>2, SentPending DEF ClientTypeOK
<1>. PICK n : n = Len(field') OBVIOUS
<1>4. Len(field) \in Nat /\ Len(text) \in Nat /\ field' \in Texts /\ n = Len(field) + Len(text)
  BY TextLen, TextConcat DEF ClientTypeOK
<1>5. text # <<>> => b = Len(field) /\ \A k \in 1..Len(signals) : Still(signals[k], k = dup)
  BY NothingUnderWay
<1>6. Runs(field', 0)
  <2>1. CASE text = <<>> BY <1>1, <2>1, ConcatEmptySeq DEF ClientTypeOK, Texts
  <2>2. CASE text # <<>>
    <3>1. Runs(text, 0 + Len(field)) BY <1>4, <1>5, <2>2
    <3>. QED BY <1>1, <3>1, RunsConcat DEF ClientTypeOK
  <2>. QED BY <2>1, <2>2
<1>7. Chain(signals, dup, n, b + Len(text))
  <2>1. CASE text = <<>>
    <3>1. n = a /\ b + Len(text) = b BY <1>1, <1>4, <2>1, NoText
    <3>. QED BY <3>1 DEF Follows
  <2>2. CASE text # <<>>
    <3>1. b + Len(text) = n BY <1>4, <1>5, <2>2
    <3>2. Chain(signals, dup, n, n) BY <1>4, <1>5, <2>2, ChainStill DEF ClientTypeOK
    <3>. QED BY <3>1, <3>2
  <2>. QED BY <2>1, <2>2
<1>8. Chain(signals', dup, n, b + Len(text))
  BY <1>7, ChainPopup, ConcatEmptySeq DEF ClientTypeOK
<1>9. Written(n)' BY <1>1, <1>6 DEF Written
<1>10. Composed(b + Len(text))' BY DEF Composed
<1>11. Skipped(dup)'
  <2>1. ASSUME dup >= 1 PROVE cache' # skip /\ Letter(skip[1]) <= Len(field')
    <3>1. /\ skip # <<>> /\ cache # skip
          /\ Letter(skip[1]) \in Nat /\ Letter(skip[1]) <= Len(field)
      BY <2>1, SkippedFacts DEF Follows
    <3>2. a <= b
      <4>1. \A k \in 1..Len(signals) : signals[k].kind # "fix" BY <1>1, SignalsLen
      <4>. QED BY <4>1, ChainEnds DEF Follows, ClientTypeOK
    <3>3. ASSUME preedit' # <<>> PROVE preedit' # skip
      <4>1. 1 \in 1..Len(preedit') BY <3>3, EmptySeq DEF Texts
      <4>2. Letter(preedit'[1]) = (b + Len(text)) + 1 BY <4>1 DEF Runs
      <4>3. Letter(preedit'[1]) > Len(field) BY <1>1, <1>4, <3>2, <4>2
      <4>4. Letter(preedit'[1]) # Letter(skip[1]) BY <1>4, <3>1, <4>2, <4>3
      <4>. QED BY <4>4
    <3>. QED BY <1>4, <3>1, <3>3
  <2>2. Skipped(dup) BY DEF Follows
  <2>. QED BY <1>2, <2>1, <2>2, SkippedSent
<1>12. OneFix' BY <1>3 DEF OneFix
<1>13. Follows(dup, n, b + Len(text))'
  BY <1>8, <1>9, <1>10, <1>11, <1>12 DEF Follows
<1>14. n \in Nat /\ b + Len(text) \in Nat BY <1>4
<1>. QED BY <1>13, <1>14

LEMMA ReplyText ==
  ASSUME ClientTypeOK, NEW dup \in Int, NEW a \in Nat, NEW b \in Nat, Follows(dup, a, b),
         NEW s \in Texts, NEW t \in Texts, Reply(s, t), ~raced', Runs(s, b), Runs(t, b + Len(s)),
         count' = (b + Len(s)) + Len(t),
         NEW sent, sent = <<>> \/ (sent = HidePopup /\ alive), signals' = signals \o sent,
         UNCHANGED <<alive, skip, fixVars>>
  PROVE  \E d \in Int, i, j \in Nat : Follows(d, i, j)'
<1>1. ~FixUnderWay /\ (s = <<>> \/ ~CommitUnderWay)
  BY DEF Reply, Race, Overtakes
<1>2. field' = field \o s /\ preedit' = t /\ cache' = preedit' BY DEF Reply
<1>3. UNCHANGED <<bsPending, deferred, idle>> /\ injected' = injected BY DEF fixVars
<1>. QED BY <1>1, <1>2, <1>3, Direct

LEMMA Unchanged == ASSUME ClientTypeOK, signals' = signals PROVE signals' = signals \o <<>>
BY ConcatEmptySeq DEF ClientTypeOK

LEMMA NotRaced == ASSUME ClientTypeOK, Next, ~raced' PROVE ~raced
<1>1. ASSUME NEW c, Race(c) PROVE ~raced BY <1>1 DEF Race
<1>2. CASE UNCHANGED raced BY <1>2
<1>3. ASSUME Syllable \/ TypeFix \/ RawKey \/ NavigationKey \/ HanjaKey \/ DigitKey PROVE ~raced
  BY <1>1, <1>2, <1>3 DEF Syllable, TypeFix, RawKey, NavigationKey, HanjaKey, DigitKey, Reply, Happens
<1>4. ASSUME Select \/ Cancel \/ CloseEmoji \/ IdleFlush PROVE ~raced
  BY <1>4 DEF Select, Cancel, CloseEmoji, IdleFlush, Happens
<1>5. ASSUME FocusOut \/ FocusOutFails \/ FocusIn \/ Reset \/ Die PROVE ~raced
  BY <1>5 DEF FocusOut, FocusOutFails, FocusIn, Reset, Die, Happens
<1>6. ASSUME FixSignal \/ SelfBackspace \/ DeferredCommit \/ ShowSignal \/ HideSignal PROVE ~raced
  BY <1>6 DEF FixSignal, SelfBackspace, DeferredCommit, ShowSignal, HideSignal
<1>7. CASE CommitSignal BY <1>1, <1>2, <1>7 DEF CommitSignal
<1>. QED BY <1>3, <1>4, <1>5, <1>6, <1>7 DEF Next

LEMMA SyllableText ==
  ASSUME ClientTypeOK, NEW dup \in Int, NEW a \in Nat, NEW b \in Nat, Follows(dup, a, b),
         Syllable, ~raced'
  PROVE  \E d \in Int, i, j \in Nat : Follows(d, i, j)'
<1>. DEFINE text == Append(preedit, count + 1)
<1>1. preedit \in Texts /\ Len(preedit) \in Nat /\ Runs(preedit, b) /\ count = b + Len(preedit)
  BY TypedText, TextLen DEF ClientTypeOK, Follows, Composed
<1>2. text \in Texts /\ Runs(text, b) /\ Len(text) = Len(preedit) + 1
  <2>1. count + 1 = b + Len(preedit) + 1 BY <1>1
  <2>. QED BY <1>1, <2>1, RunsNext
<1>3. PICK n \in 0..Len(text) : Reply(SubSeq(text, 1, n), SubSeq(text, n + 1, Len(text)))
  BY DEF Syllable
<1>. DEFINE s == SubSeq(text, 1, n)
            t == SubSeq(text, n + 1, Len(text))
<1>. HIDE DEF text
<1>4. /\ s \in Texts /\ t \in Texts /\ Runs(s, b) /\ Runs(t, b + n)
      /\ Len(s) = n /\ Len(t) = Len(text) - n
  BY <1>2, RunsPart
<1>5. UNCHANGED <<alive, skip, fixVars>> /\ Reply(s, t) BY <1>3 DEF Syllable
<1>. HIDE DEF s, t
<1>6. PICK sent : (sent = <<>> \/ (sent = HidePopup /\ alive)) /\ signals' = signals \o sent
  BY DEF Syllable, Send
<1>7. count' = (b + Len(s)) + Len(t) /\ Runs(t, b + Len(s))
  <2>1. count' = count + 1 BY DEF Syllable, Type
  <2>2. n \in Int /\ Len(text) \in Int BY <1>1, <1>2
  <2>. QED BY <1>1, <1>2, <1>4, <2>1, <2>2
<1>. QED BY <1>4, <1>5, <1>6, <1>7, ReplyText

LEMMA KeyText ==
  ASSUME ClientTypeOK, NEW dup \in Int, NEW a \in Nat, NEW b \in Nat, Follows(dup, a, b),
         RawKey \/ NavigationKey \/ DigitKey, ~raced'
  PROVE  \E d \in Int, i, j \in Nat : Follows(d, i, j)'
<1>1. preedit \in Texts /\ Len(preedit) \in Nat /\ Runs(preedit, b) /\ count = b + Len(preedit)
  BY TypedText, TextLen DEF ClientTypeOK, Follows, Composed
<1>2. b + 0 = b /\ <<>> \in Texts /\ Len(<<>>) = 0 /\ \A n \in Nat : Runs(<<>>, n)
  BY NoText, RunsNone
<1>3. CASE RawKey
  <2>1. preedit = <<>> /\ ~CommitUnderWay /\ ~FixUnderWay /\ count = b /\ preedit' = <<>>
    BY <1>1, <1>2, <1>3 DEF RawKey, Race, daemonVars
  <2>. DEFINE text == <<b + 1>>
  <2>2. text \in Texts /\ Len(text) = 1 /\ Runs(text, b)
    BY DEF Texts, Runs, Letter
  <2>3. field' = field \o text
    <3>1. b + 1 \in Int OBVIOUS
    <3>2. field' = Append(field, b + 1) BY <1>3, <2>1 DEF RawKey
    <3>. QED BY <3>1, <3>2, AppendIsConcat DEF ClientTypeOK, Texts
  <2>4. count' = (b + Len(text)) + Len(preedit') /\ Runs(preedit', b + Len(text))
    BY <1>2, <1>3, <2>1, <2>2 DEF RawKey, Type
  <2>5. signals' = signals \o <<>> BY <1>3, Unchanged DEF RawKey
  <2>6. UNCHANGED <<alive, skip, bsPending, deferred, idle, cache, injected>>
    BY <1>3 DEF RawKey, daemonVars, clientVars, fixVars
  <2>. HIDE DEF text
  <2>. QED BY <1>2, <2>1, <2>2, <2>3, <2>4, <2>5, <2>6, Direct
<1>4. CASE NavigationKey
  <2>1. signals' = signals \o <<>> /\ UNCHANGED <<alive, skip, fixVars>> /\ count' = count
    BY <1>4, Unchanged DEF NavigationKey
  <2>2. CASE Reply(<<>>, preedit)
    <3>1. count' = (b + Len(<<>>)) + Len(preedit) /\ Runs(preedit, b + Len(<<>>))
      BY <1>1, <1>2, <2>1
    <3>. QED BY <1>1, <1>2, <2>1, <2>2, <3>1, ReplyText
  <2>3. CASE Reply(preedit, <<>>)
    <3>1. count' = (b + Len(preedit)) + Len(<<>>) /\ Runs(<<>>, b + Len(preedit))
      BY <1>1, <1>2, <2>1
    <3>. QED BY <1>1, <1>2, <2>1, <2>3, <3>1, ReplyText
  <2>. QED BY <1>4, <2>2, <2>3 DEF NavigationKey
<1>5. CASE DigitKey
  <2>1. /\ alive /\ signals' = signals \o HidePopup /\ UNCHANGED <<alive, skip, fixVars>>
        /\ count' = count /\ Reply(Hanja(preedit), <<>>)
    BY <1>5 DEF DigitKey, Send
  <2>2. Hanja(preedit) \in Texts /\ Len(Hanja(preedit)) = Len(preedit) /\ Runs(Hanja(preedit), b)
    BY <1>1, HanjaText, RunsHanja
  <2>3. /\ count' = (b + Len(Hanja(preedit))) + Len(<<>>)
        /\ Runs(<<>>, b + Len(Hanja(preedit)))
    BY <1>1, <1>2, <2>1, <2>2
  <2>. QED BY <1>2, <2>1, <2>2, <2>3, ReplyText
<1>. QED BY <1>3, <1>4, <1>5

LEMMA FocusOutText ==
  ASSUME ClientTypeOK, NEW dup \in Int, NEW a \in Nat, NEW b \in Nat, Follows(dup, a, b),
         FocusOut \/ FocusOutFails, ~raced'
  PROVE  \E d \in Int, i, j \in Nat : Follows(d, i, j)'
<1>1. preedit \in Texts /\ Len(preedit) \in Nat /\ Runs(preedit, b) /\ count = b + Len(preedit)
  BY TypedText, TextLen DEF ClientTypeOK, Follows, Composed
<1>2. /\ field' = field \o preedit /\ preedit' = <<>> /\ cache' = <<>> /\ count' = count
      /\ ~FixUnderWay /\ (preedit = <<>> \/ ~CommitUnderWay)
      /\ UNCHANGED <<alive, skip, bsPending, deferred, idle>> /\ injected' = 0
  BY DEF FocusOut, FocusOutFails, Fallback, EngineReset, Race, Overtakes
<1>3. PICK sent : (sent = <<>> \/ (sent = HidePopup /\ alive)) /\ signals' = signals \o sent
  BY DEF FocusOut, FocusOutFails, Send
<1>4. /\ preedit' \in Texts /\ Runs(preedit', b + Len(preedit))
      /\ count' = (b + Len(preedit)) + Len(preedit')
  BY <1>1, <1>2, NoText, RunsNone
<1>. QED BY <1>1, <1>2, <1>3, <1>4, Direct

LEMMA SignalsConcat ==
  ASSUME NEW s \in Seq(Signal), NEW t \in Seq(Signal)
  PROVE  /\ s \o t \in Seq(Signal) /\ Len(s \o t) = Len(s) + Len(t)
         /\ \A i \in 1..(Len(s) + Len(t)) :
              (s \o t)[i] = IF i <= Len(s) THEN s[i] ELSE t[i - Len(s)]
BY ConcatProperties

LEMMA SignalsPair ==
  ASSUME NEW s \in Seq(Signal), NEW t \in Seq(Signal), Len(s) = 1, Len(t) = 1
  PROVE  s \o t \in Seq(Signal) /\ Len(s \o t) = 2 /\ (s \o t)[1] = s[1] /\ (s \o t)[2] = t[1]
<1>1. s \o t \in Seq(Signal) /\ Len(s \o t) = Len(s) + Len(t) BY SignalsConcat
<1>2. Len(s \o t) = 2 BY <1>1
<1>3. (s \o t)[1] = s[1]
  <2>1. 1 \in 1..(Len(s) + Len(t)) /\ 1 <= Len(s) OBVIOUS
  <2>. QED BY <2>1, SignalsConcat
<1>4. (s \o t)[2] = t[1]
  <2>1. 2 \in 1..(Len(s) + Len(t)) /\ ~(2 <= Len(s)) /\ 2 - Len(s) = 1 OBVIOUS
  <2>. QED BY <2>1, SignalsConcat
<1>. QED BY <1>1, <1>2, <1>3, <1>4

LEMMA SignalsThree ==
  ASSUME NEW s \in Seq(Signal), NEW t \in Seq(Signal), NEW u \in Seq(Signal)
  PROVE  s \o (t \o u) = (s \o t) \o u
<1>1. (s \o t) \o u = s \o (t \o u)
  BY ConcatAssociative, SMTT(30)
<1>. QED BY <1>1

\* What the daemon sends follows what it has sent before.
LEMMA Sends ==
  ASSUME ClientTypeOK, NEW dup \in Int, NEW a \in Nat, NEW b \in Nat, Follows(dup, a, b), alive,
         NEW text \in Texts, Runs(text, b),
         NEW tail, tail = <<>> \/ tail = HidePopup \/ tail = Show,
         signals' = signals \o (Commit(text) \o tail),
         preedit' \in Texts, Runs(preedit', b + Len(text)),
         count' = (b + Len(text)) + Len(preedit'), cache' = cache \/ cache' = <<>>,
         UNCHANGED <<alive, skip, fixVars, focused, field>>
  PROVE  Follows(dup, a, b + Len(text))'
<1>1. /\ Commit(text) \in Seq(Signal) /\ tail \in Seq(Signal) /\ Commit(text) \o tail \in Seq(Signal)
      /\ signals \o (Commit(text) \o tail) = (signals \o Commit(text)) \o tail
      /\ signals \o Commit(text) \in Seq(Signal)
  <2>1. tail \in Seq(Signal) BY PopupSignals
  <2>2. Commit(text) \in Seq(Signal) /\ signals \in Seq(Signal) BY CommitSignals DEF ClientTypeOK
  <2>3. signals \o (Commit(text) \o tail) = (signals \o Commit(text)) \o tail
    BY <2>1, <2>2, SignalsThree
  <2>. QED BY <2>1, <2>2, <2>3, SignalsConcat
<1>2. \A i \in DOMAIN (Commit(text) \o tail) : (Commit(text) \o tail)[i].kind # "fix"
  <2>1. \A i \in DOMAIN Commit(text) : Commit(text)[i].kind # "fix" BY CommitKinds
  <2>2. CASE tail = <<>>
    <3>1. Commit(text) \o tail = Commit(text) BY <1>1, <2>2, ConcatEmptySeq
    <3>. QED BY <2>1, <3>1
  <2>3. CASE tail = HidePopup
    BY <2>3, CommitKinds
  <2>4. CASE tail = Show
    <3>1. /\ Len(Commit(text)) \in Nat /\ DOMAIN Commit(text) = 1..Len(Commit(text))
          /\ DOMAIN (Commit(text) \o tail) = 1..(Len(Commit(text)) + 1)
          /\ \A i \in 1..(Len(Commit(text)) + 1) : (Commit(text) \o tail)[i]
               = IF i <= Len(Commit(text)) THEN Commit(text)[i] ELSE Show[i - Len(Commit(text))]
      <4>1. Show \in Seq(Signal) /\ Commit(text) \in Seq(Signal) /\ Len(Show) = 1
        BY <1>1, PopupSignals, PopupKinds
      <4>2. Len(Commit(text)) \in Nat /\ DOMAIN Commit(text) = 1..Len(Commit(text))
        BY <4>1, LenProperties
      <4>3. /\ Commit(text) \o Show \in Seq(Signal)
            /\ Len(Commit(text) \o Show) = Len(Commit(text)) + 1
            /\ \A i \in 1..(Len(Commit(text)) + 1) : (Commit(text) \o Show)[i]
                 = IF i <= Len(Commit(text)) THEN Commit(text)[i] ELSE Show[i - Len(Commit(text))]
        BY <4>1, SignalsConcat
      <4>4. DOMAIN (Commit(text) \o Show) = 1..(Len(Commit(text)) + 1) BY <4>3, LenProperties
      <4>. QED BY <2>4, <4>2, <4>3, <4>4
    <3>2. \A i \in 1..(Len(Commit(text)) + 1) :
            \/ i \in DOMAIN Commit(text)
            \/ ~(i <= Len(Commit(text))) /\ i - Len(Commit(text)) = 1
      BY <3>1
    <3>3. PICK whole, said : whole = Commit(text) \o tail /\ said = Commit(text)
      OBVIOUS
    <3>4. /\ DOMAIN whole = 1..(Len(said) + 1)
          /\ \A i \in 1..(Len(said) + 1) :
               whole[i] = IF i <= Len(said) THEN said[i] ELSE Show[i - Len(said)]
      BY <3>1, <3>3
    <3>5. \A i \in DOMAIN said : said[i].kind # "fix"
      BY <2>1, <3>3
    <3>6. DOMAIN said = 1..Len(said) /\ Len(said) \in Nat
      BY <3>1, <3>3
    <3>7. ASSUME NEW i \in DOMAIN whole PROVE whole[i].kind # "fix"
      <4>1. i \in 1..(Len(said) + 1)
        BY <3>4, <3>7
      <4>2. CASE i <= Len(said)
        <5>1. i \in DOMAIN said /\ whole[i] = said[i]
          BY <3>4, <3>6, <4>1, <4>2
        <5>. QED BY <3>5, <5>1
      <4>3. CASE ~(i <= Len(said))
        <5>1. i - Len(said) = 1
          <6>1. PICK n \in Nat : n = Len(said)
            BY <3>6
          <6>2. i \in Int /\ i <= n + 1 /\ ~(i <= n)
            BY <4>1, <4>3, <6>1
          <6>3. i - n = 1
            BY <6>1, <6>2
          <6>. QED BY <6>1, <6>3
        <5>2. whole[i] = Show[1]
          BY <3>4, <4>1, <4>3, <5>1
        <5>. QED BY <5>2, PopupKinds
      <4>. QED BY <4>2, <4>3
    <3>. QED BY <3>3, <3>7
  <2>. QED BY <2>2, <2>3, <2>4
<1>3. Pending("fix")' = Pending("fix") BY <1>1, <1>2, SentPending DEF ClientTypeOK
<1>4. dup # Len(signals) + 1
  <2>1. dup >= 1 => dup \in 1..Len(signals) BY SkippedFacts DEF Follows
  <2>. QED BY <2>1, SignalsLen
<1>5. Chain(signals \o Commit(text), dup, a, b + Len(text))
  BY <1>4, ChainCommit DEF Follows, ClientTypeOK
<1>6. Chain(signals', dup, a, b + Len(text))
  <2>1. CASE tail = <<>>
    <3>1. signals' = signals \o Commit(text) BY <1>1, <2>1, ConcatEmptySeq
    <3>. QED BY <1>5, <3>1
  <2>2. CASE tail = HidePopup \/ tail = Show
    <3>1. Chain((signals \o Commit(text)) \o tail, dup, a, b + Len(text))
      BY <1>1, <1>5, <2>2, ChainPopup
    <3>. QED BY <1>1, <3>1
  <2>. QED BY <2>1, <2>2
<1>7. Skipped(dup)'
  <2>1. dup >= 1 => deferred' = deferred /\ cache' # skip /\ Letter(skip[1]) <= Len(field')
    BY SkippedFacts DEF Follows, fixVars
  <2>. QED BY <1>1, <2>1, SkippedSent DEF Follows
<1>8. Written(a)'
  <2>1. Written(a) BY DEF Follows
  <2>. QED BY <1>3, <2>1 DEF Written, fixVars
<1>9. OneFix' BY <1>3 DEF Follows, OneFix
<1>. QED BY <1>6, <1>7, <1>8, <1>9 DEF Follows, Composed

LEMMA DaemonText ==
  ASSUME ClientTypeOK, NEW dup \in Int, NEW a \in Nat, NEW b \in Nat, Follows(dup, a, b),
         Select \/ Cancel \/ CloseEmoji \/ IdleFlush \/ HanjaKey, ~raced'
  PROVE  \E d \in Int, i, j \in Nat : Follows(d, i, j)'
<1>1. preedit \in Texts /\ Len(preedit) \in Nat /\ Runs(preedit, b) /\ count = b + Len(preedit)
  BY TypedText, TextLen DEF ClientTypeOK, Follows, Composed
<1>2. b + 0 = b /\ <<>> \in Texts /\ Len(<<>>) = 0 /\ \A n \in Nat : Runs(<<>>, n)
  BY NoText, RunsNone
<1>3. \A n \in Nat : b + n \in Nat OBVIOUS
<1>4. /\ alive /\ count' = count /\ UNCHANGED <<alive, skip, fixVars, focused, field>>
      /\ cache' = cache \/ cache' = <<>>
  BY DEF Select, Cancel, CloseEmoji, IdleFlush, HanjaKey, EndPopup, clientVars
<1>5. /\ HidePopup = Commit(<<>>) \o HidePopup /\ Show = Commit(<<>>) \o Show
      /\ Commit(<<>>) \o <<>> = <<>>
      /\ \A s \in Texts : Commit(s) \o <<>> = Commit(s)
  BY PopupSignals, CommitSignals, ConcatEmptySeq DEF Commit
<1>6. CASE Select
  <2>1. Hanja(preedit) \in Texts /\ Len(Hanja(preedit)) = Len(preedit) /\ Runs(Hanja(preedit), b)
    BY <1>1, HanjaText, RunsHanja
  <2>2. preedit' = <<>> /\ signals' = signals \o (Commit(Hanja(preedit)) \o HidePopup)
    BY <1>6 DEF Select, Send
  <2>3. /\ preedit' \in Texts /\ Runs(preedit', b + Len(Hanja(preedit)))
        /\ count' = (b + Len(Hanja(preedit))) + Len(preedit')
    BY <1>1, <1>2, <1>3, <1>4, <2>1, <2>2
  <2>. PICK text : text = Hanja(preedit) OBVIOUS
  <2>4. Follows(dup, a, b + Len(text))' BY <1>4, <2>1, <2>2, <2>3, Sends
  <2>. QED BY <1>1, <1>3, <2>1, <2>4
<1>7. CASE Cancel
  <2>1. preedit' = <<>> /\ signals' = signals \o (Commit(preedit) \o HidePopup)
    BY <1>7 DEF Cancel, Send
  <2>2. /\ preedit' \in Texts /\ Runs(preedit', b + Len(preedit))
        /\ count' = (b + Len(preedit)) + Len(preedit')
    BY <1>1, <1>2, <1>3, <1>4, <2>1
  <2>. PICK text : text = preedit OBVIOUS
  <2>3. Follows(dup, a, b + Len(text))' BY <1>1, <1>4, <2>1, <2>2, Sends
  <2>. QED BY <1>1, <1>3, <2>3
<1>8. ASSUME NEW tail, tail = <<>> \/ tail = HidePopup \/ tail = Show,
             signals' = signals \o tail, preedit' = preedit
      PROVE  \E d \in Int, i, j \in Nat : Follows(d, i, j)'
  <2>1. signals' = signals \o (Commit(<<>>) \o tail) BY <1>5, <1>8
  <2>2. /\ preedit' \in Texts /\ Runs(preedit', b + Len(<<>>))
        /\ count' = (b + Len(<<>>)) + Len(preedit') /\ Runs(<<>>, b)
    BY <1>1, <1>2, <1>4, <1>8
  <2>3. Follows(dup, a, b + Len(<<>>))' BY <1>2, <1>4, <1>8, <2>1, <2>2, Sends
  <2>. QED BY <1>2, <2>3
<1>9. CASE CloseEmoji BY <1>8, <1>9 DEF CloseEmoji, Send
<1>10. CASE HanjaKey
  <2>1. preedit' = preedit /\ (signals' = signals \/ signals' = signals \o Show)
    BY <1>10 DEF HanjaKey, Send
  <2>. QED BY <1>8, <2>1, Unchanged
<1>11. CASE IdleFlush
  <2>1. PICK n \in 1..Len(preedit) :
          /\ preedit' = SubSeq(preedit, n + 1, Len(preedit))
          /\ signals' = signals \o Commit(SubSeq(preedit, 1, n))
    BY <1>11 DEF IdleFlush, Send
  <2>. PICK s : s = SubSeq(preedit, 1, n) OBVIOUS
  <2>2. /\ s \in Texts /\ Runs(s, b) /\ Len(s) = n /\ preedit' \in Texts /\ Runs(preedit', b + n)
        /\ Len(preedit') = Len(preedit) - n
    BY <1>1, <2>1, RunsPart
  <2>3. signals' = signals \o (Commit(s) \o <<>>) BY <1>5, <2>1, <2>2
  <2>4. /\ Runs(preedit', b + Len(s)) /\ n \in Nat
        /\ count' = (b + Len(s)) + Len(preedit')
    BY <1>1, <1>4, <2>2
  <2>5. Follows(dup, a, b + Len(s))' BY <1>4, <2>2, <2>3, <2>4, Sends
  <2>. QED BY <1>3, <2>2, <2>4, <2>5
<1>. QED BY <1>6, <1>7, <1>9, <1>10, <1>11

\* The word's text takes the place of the field's end and the composition.
LEMMA TypeFixText ==
  ASSUME ClientTypeOK, NEW dup \in Int, NEW a \in Nat, NEW b \in Nat, Follows(dup, a, b),
         TypeFix, ~raced'
  PROVE  \E d \in Int, i, j \in Nat : Follows(d, i, j)'
<1>1. /\ preedit \in Texts /\ Len(preedit) \in Nat /\ Runs(preedit, b) /\ count = b + Len(preedit)
      /\ field \in Texts /\ Len(field) \in Nat /\ Runs(field, 0) /\ signals \in Seq(Signal)
  BY TypedText, TextLen DEF ClientTypeOK, Follows, Composed, Written
<1>2. ~CommitUnderWay /\ ~FixUnderWay BY DEF TypeFix, Race
<1>3. a = Len(field) /\ b = Len(field) /\ Pending("fix") = {} /\ deferred = None
  BY <1>2, NothingUnderWay DEF FixUnderWay
<1>4. /\ count' = count + 1 /\ cache' = <<>> /\ focused
      /\ UNCHANGED <<alive, skip, fixVars, focused, field>>
      /\ alive
  BY DEF TypeFix, Type
<1>5. PICK n \in 0..Len(field) :
        \E confirmed \in 0..Len(SubSeq(field, Len(field) - n + 1, Len(field)) \o Append(preedit, count + 1)) :
          LET word == SubSeq(field, Len(field) - n + 1, Len(field)) \o Append(preedit, count + 1)
          IN  /\ preedit' = SubSeq(word, confirmed + 1, Len(word))
              /\ Send(Fix(n, SubSeq(word, 1, confirmed), SubSeq(word, confirmed + 1, Len(word))))
  BY DEF TypeFix
<1>. DEFINE end  == SubSeq(field, Len(field) - n + 1, Len(field))
            tail == Append(preedit, count + 1)
            word == end \o tail
<1>6. PICK confirmed \in 0..Len(word) :
        /\ preedit' = SubSeq(word, confirmed + 1, Len(word))
        /\ Send(Fix(n, SubSeq(word, 1, confirmed), SubSeq(word, confirmed + 1, Len(word))))
  BY <1>5
<1>. PICK k : k = Len(field) - n OBVIOUS
<1>7. k \in 0..Len(field) /\ k \in Nat /\ n \in Nat /\ k + n = Len(field) /\ Len(field) - k = n
  BY <1>1
<1>8. end \in Texts /\ Runs(end, k) /\ Len(end) = n
  <2>1. /\ Runs(SubSeq(field, k + 1, Len(field)), 0 + k)
        /\ Len(SubSeq(field, k + 1, Len(field))) = Len(field) - k
        /\ SubSeq(field, k + 1, Len(field)) \in Texts
    BY <1>1, <1>7, RunsPart
  <2>2. 0 + k = k BY <1>7
  <2>. QED BY <1>7, <2>1, <2>2
<1>9. tail \in Texts /\ Runs(tail, b) /\ Len(tail) = Len(preedit) + 1
  <2>1. count + 1 = b + Len(preedit) + 1 BY <1>1
  <2>. QED BY <1>1, <2>1, RunsNext
<1>. HIDE DEF end, tail
<1>10. word \in Texts /\ Runs(word, k) /\ Len(word) = n + (Len(preedit) + 1)
  <2>1. Runs(tail, k + Len(end)) BY <1>3, <1>7, <1>8, <1>9
  <2>. QED BY <1>7, <1>8, <1>9, <2>1, TextConcat, RunsConcat
<1>. HIDE DEF word
<1>. PICK s : s = SubSeq(word, 1, confirmed) OBVIOUS
<1>11. /\ s \in Texts /\ Runs(s, k) /\ Len(s) = confirmed
       /\ preedit' \in Texts /\ Runs(preedit', k + confirmed)
       /\ Len(preedit') = Len(word) - confirmed
  BY <1>6, <1>7, <1>10, RunsPart
<1>12. signals' = signals \o Fix(n, s, preedit') BY <1>6 DEF Send
<1>. DEFINE fix == [kind |-> "fix", erase |-> n, text |-> s, preview |-> preedit']
            c   == k + Len(s)
<1>13. fix \in Signal
  <2>1. preedit' \in Typed BY TypeFixTypes DEF ClientTypeOK
  <2>. QED BY <1>7, <1>11, <2>1 DEF Signal
<1>14. Moves(fix, Len(signals) + 1 = dup, b, c)
  <2>1. n <= b /\ b - n = k BY <1>1, <1>3, <1>7
  <2>2. fix.kind = "fix" /\ fix.erase = n /\ fix.text = s OBVIOUS
  <2>. QED BY <1>11, <2>1, <2>2 DEF Moves
<1>15. signals' = Append(signals, fix)
  BY <1>1, <1>12, <1>13, OneMore DEF Fix
<1>16. Chain(signals', dup, a, c)
  BY <1>1, <1>13, <1>14, <1>15, ChainAppend DEF Follows
<1>17. c \in Nat /\ c = k + confirmed /\ count' = c + Len(preedit')
  <2>1. confirmed \in Nat BY <1>1, <1>7, <1>10
  <2>2. c = k + confirmed /\ c \in Nat BY <1>7, <1>11, <2>1
  <2>3. Len(preedit') = (n + (Len(preedit) + 1)) - confirmed BY <1>10, <1>11
  <2>4. count' = ((k + n) + Len(preedit)) + 1 BY <1>1, <1>3, <1>4, <1>7
  <2>. HIDE DEF c
  <2>5. count' = c + Len(preedit') BY <1>1, <1>7, <2>1, <2>2, <2>3, <2>4
  <2>. QED BY <2>2, <2>5
<1>18. OneFix'
  <2>. DEFINE m == Len(signals) + 1
  <2>1. /\ Len(signals) \in Nat /\ Len(signals') = m /\ DOMAIN signals' = 1..m
        /\ \A i \in 1..Len(signals) : signals'[i] = signals[i] /\ i \notin Pending("fix")
    <3>1. signals' \in Seq(Signal) /\ Len(signals') = m /\ \A i \in 1..Len(signals) : signals'[i] = signals[i]
      BY <1>1, <1>13, <1>15
    <3>. QED BY <1>3, <3>1, LenProperties
  <2>2. \A i \in 1..Len(signals) : signals'[i].kind # "fix" BY <2>1, SignalsLen
  <2>3. \A i \in Pending("fix")' : i = m BY <2>1, <2>2 DEF Pending
  <2>. QED BY <1>4, <2>3 DEF OneFix
<1>19. Written(a)'
  <2>1. bsPending = 0 /\ idle = 0 /\ injected = 0 BY <1>3 DEF Follows, Written
  <2>. QED BY <1>1, <1>3, <1>4, <2>1 DEF Written, fixVars
<1>20. Skipped(dup)'
  <2>1. dup >= 1 => deferred' = deferred /\ cache' # skip /\ Letter(skip[1]) <= Len(field')
    BY <1>4, SkippedFacts DEF Follows, fixVars
  <2>2. Fix(n, s, preedit') \in Seq(Signal) BY <1>13 DEF Fix
  <2>. QED BY <1>4, <1>12, <2>1, <2>2, SkippedSent DEF Follows
<1>21. Composed(c)' BY <1>11, <1>17 DEF Composed
<1>. PICK d : d = c OBVIOUS
<1>22. Follows(dup, a, d)'
  <2>1. Composed(d)' BY <1>21
  <2>. QED BY <1>16, <1>18, <1>19, <1>20, <2>1 DEF Follows
<1>. QED BY <1>17, <1>22

LEMMA FocusInText ==
  ASSUME ClientTypeOK, NEW dup \in Int, NEW a \in Nat, NEW b \in Nat, Follows(dup, a, b),
         FocusIn \/ Die
  PROVE  \E d \in Int, i, j \in Nat : Follows(d, i, j)'
<1>1. /\ UNCHANGED <<count, preedit, signals, cache, skip, injected, bsPending, deferred, idle, field>>
      /\ focused => focused'
      /\ ~alive => ~alive'
  BY DEF FocusIn, Die, daemonVars, clientVars, fixVars
<1>2. Pending("fix")' = Pending("fix") /\ Pending("commit")' = Pending("commit")
  BY <1>1 DEF Pending
<1>3. Written(a)' BY <1>1, <1>2 DEF Follows, Written
<1>4. OneFix' BY <1>1, <1>2 DEF Follows, OneFix
<1>5. Skipped(dup)' BY <1>1, <1>2 DEF Follows, Skipped
<1>6. Follows(dup, a, b)' BY <1>1, <1>3, <1>4, <1>5 DEF Follows, Composed
<1>. QED BY <1>6

\* The only text on its way continues the field.
LEMMA ChainOne ==
  ASSUME NEW q \in Seq(Signal), NEW dup \in Int, NEW a, NEW b, Chain(q, dup, a, b),
         NEW k \in 1..Len(q), q[k].kind = "commit", k # dup,
         \A i \in 1..Len(q) : i # k => Still(q[i], i = dup)
  PROVE  Runs(q[k].text, a) /\ b = a + Len(q[k].text)
<1>1. PICK pos : Positions(q, dup, pos) /\ pos[0] = a /\ pos[Len(q)] = b BY DEF Chain
<1>2. /\ Len(q) \in Nat /\ 0 \in 0..Len(q) /\ k - 1 \in 0..Len(q) /\ k \in 0..Len(q)
      /\ Len(q) \in 0..Len(q) /\ 0 <= k - 1 /\ k <= Len(q)
      /\ \A i \in (0 + 1)..(k - 1) : i \in 1..Len(q) /\ i # k
      /\ \A i \in (k + 1)..Len(q) : i \in 1..Len(q) /\ i # k
  BY LenProperties
<1>3. pos[0] = pos[k - 1]
  <2>1. \A i \in (0 + 1)..(k - 1) : Still(q[i], i = dup) BY <1>2
  <2>. QED BY <1>1, <1>2, <2>1 DEF Positions
<1>4. pos[k] = pos[Len(q)]
  <2>1. \A i \in (k + 1)..Len(q) : Still(q[i], i = dup) BY <1>2
  <2>. QED BY <1>1, <1>2, <2>1 DEF Positions
<1>5. Moves(q[k], FALSE, pos[k - 1], pos[k]) BY <1>1 DEF Positions
<1>. QED BY <1>1, <1>3, <1>4, <1>5 DEF Moves

\* The composition is written, and will be sent: that signal is to be skipped.
LEMMA ResetComposed ==
  ASSUME ClientTypeOK, NEW dup \in Int, NEW a \in Nat, NEW b \in Nat, Follows(dup, a, b),
         Reset, ~raced', cache = preedit, cache # <<>>, Pending("commit") = {}, ~FixUnderWay
  PROVE  \E d \in Int, i, j \in Nat : Follows(d, i, j)'
<1>1. /\ cache \in Texts /\ Len(cache) \in Nat /\ Runs(cache, b) /\ count = b + Len(cache)
      /\ field \in Texts /\ Len(field) \in Nat /\ Runs(field, 0) /\ signals \in Seq(Signal)
  BY TypedText, TextLen DEF ClientTypeOK, Follows, Composed, Written
<1>2. ~CommitUnderWay BY DEF CommitUnderWay
<1>3. /\ b = Len(field) /\ deferred = None /\ bsPending = 0 /\ idle = 0 /\ injected = 0
  BY <1>2, NothingUnderWay DEF FixUnderWay, Follows, Written
<1>4. /\ field' = field \o cache /\ skip' = cache /\ cache' = <<>> /\ preedit' = <<>>
      /\ UNCHANGED <<count, alive, deferred, bsPending, idle, injected>>
      /\ signals' = signals \o (IF alive THEN HidePopup \o Commit(cache) ELSE <<>>)
  BY DEF Reset, EngineReset, Send, fixVars
<1>. PICK n : n = Len(field) + Len(cache) OBVIOUS
<1>5. /\ n \in Nat /\ Len(field') = n /\ Runs(field', 0) /\ count' = n + Len(preedit')
      /\ Runs(preedit', n) /\ field' \in Texts
  <2>1. Runs(cache, 0 + Len(field)) BY <1>1, <1>3
  <2>2. Runs(field', 0) /\ Len(field') = n /\ field' \in Texts
    BY <1>1, <1>4, <2>1, RunsConcat, TextConcat
  <2>3. n \in Nat /\ n + Len(<<>>) = n BY <1>1, NoText
  <2>. QED BY <1>1, <1>3, <1>4, <2>2, <2>3, RunsNone
<1>6. \A i \in 1..Len(signals) : signals[i].kind \notin {"commit", "fix"}
  BY SignalsLen DEF FixUnderWay
<1>7. Written(n)' BY <1>3, <1>4, <1>5 DEF Written
<1>8. Composed(n)' BY <1>5 DEF Composed
<1>9. CASE alive
  <2>. DEFINE sent == HidePopup \o Commit(cache)
  <2>1. /\ Len(sent) = 2 /\ sent[1].kind = "hide" /\ sent[2].kind = "commit" /\ sent[2].text = cache
        /\ sent \in Seq(Signal)
    <3>1. /\ HidePopup \in Seq(Signal) /\ Len(HidePopup) = 1 /\ HidePopup[1].kind = "hide"
          /\ Commit(cache) \in Seq(Signal)
      BY <1>1, PopupSignals, PopupKinds, CommitSignals
    <3>2. Len(Commit(cache)) = 1 /\ Commit(cache)[1] = [kind |-> "commit", text |-> cache]
      BY DEF Commit
    <3>3. /\ sent \in Seq(Signal) /\ Len(sent) = 2 /\ sent[1] = HidePopup[1]
          /\ sent[2] = Commit(cache)[1]
      BY <3>1, <3>2, SignalsPair
    <3>. HIDE DEF sent
    <3>. QED BY <3>1, <3>2, <3>3
  <2>. HIDE DEF sent
  <2>2. signals' = signals \o sent BY <1>4, <1>9 DEF sent
  <2>. PICK m : m = Len(signals) + 2 OBVIOUS
  <2>3. /\ Len(signals) \in Nat /\ signals' \in Seq(Signal) /\ Len(signals') = m
        /\ DOMAIN signals' = 1..m /\ m \in Nat
        /\ \A i \in 1..m : signals'[i] = IF i <= Len(signals) THEN signals[i] ELSE sent[i - Len(signals)]
    <3>1. Len(signals) \in Nat BY SignalsLen
    <3>2. m \in Nat /\ m = Len(signals) + Len(sent) BY <2>1, <3>1
    <3>3. /\ signals' \in Seq(Signal) /\ Len(signals') = m
          /\ \A i \in 1..m : signals'[i] = IF i <= Len(signals) THEN signals[i] ELSE sent[i - Len(signals)]
      BY <1>1, <2>1, <2>2, <3>2, SignalsConcat
    <3>. QED BY <3>1, <3>2, <3>3, LenProperties
  <2>4. signals'[m] = sent[2]
    <3>1. m \in 1..m /\ ~(m <= Len(signals)) /\ m - Len(signals) = 2 BY <2>3
    <3>. QED BY <2>3, <3>1
  <2>5. ASSUME NEW i \in 1..(m - 1) PROVE signals'[i].kind \notin {"commit", "fix"} /\ i \in 1..m /\ i # m
    <3>1. i \in 1..m /\ i # m BY <2>3
    <3>2. CASE i <= Len(signals)
      <4>1. signals'[i] = signals[i] /\ i \in 1..Len(signals) BY <2>3, <3>1, <3>2
      <4>. QED BY <1>6, <3>1, <4>1
    <3>3. CASE ~(i <= Len(signals))
      <4>1. i - Len(signals) = 1 BY <2>3, <3>3
      <4>2. signals'[i] = sent[1] BY <2>3, <3>1, <3>3, <4>1
      <4>. QED BY <2>1, <3>1, <4>2
    <3>. QED BY <3>2, <3>3
  <2>6. \A i \in 1..m : i # m => i \in 1..(m - 1) BY <2>3
  <2>7. Chain(signals', m, n, n)
    <3>1. \A i \in 1..m : Still(signals'[i], i = m) BY <2>1, <2>4, <2>5, <2>6 DEF Still
    <3>. QED BY <1>5, <2>3, <3>1, ChainStill
  <2>8. Skipped(m)'
    <3>1. m \in Pending("commit")' /\ signals'[m].text = skip' /\ cache' # skip'
      <4>1. m \in DOMAIN signals' BY <2>3
      <4>. QED BY <1>4, <2>1, <2>4, <4>1 DEF Pending
    <3>2. \A i \in 1..(m - 1) : Still(signals'[i], FALSE) BY <2>5 DEF Still
    <3>3. Letter(skip'[1]) <= Len(field')
      <4>1. Len(cache) >= 1 BY <1>1, EmptySeq DEF Texts
      <4>2. Letter(cache[1]) = b + 1 BY <1>1, <4>1 DEF Runs
      <4>. QED BY <1>1, <1>3, <1>4, <1>5, <4>1, <4>2
    <3>. QED BY <1>3, <1>4, <3>1, <3>2, <3>3 DEF Skipped
  <2>9. OneFix'
    <3>1. Pending("fix")' = {} BY <2>1, <2>3, <2>4, <2>5, <2>6 DEF Pending
    <3>. QED BY <3>1 DEF OneFix
  <2>10. Follows(m, n, n)' BY <1>7, <1>8, <2>7, <2>8, <2>9 DEF Follows
  <2>. QED BY <1>5, <2>3, <2>10
<1>10. CASE ~alive
  <2>1. signals' = signals BY <1>1, <1>4, <1>10, ConcatEmptySeq
  <2>2. Chain(signals', 0, n, n) BY <1>1, <1>5, <1>6, <2>1, ChainStill DEF Still
  <2>3. Pending("commit")' = {} /\ Pending("fix")' = {} BY <2>1 DEF Pending, FixUnderWay
  <2>4. Skipped(0)' BY <1>4, <1>10, <2>3 DEF Skipped
  <2>5. OneFix' BY <2>3 DEF OneFix
  <2>6. Follows(0, n, n)' BY <1>7, <1>8, <2>2, <2>4, <2>5 DEF Follows
  <2>. QED BY <1>5, <2>6
<1>. QED BY <1>9, <1>10

\* What is cached is on its way: it is written now, and that signal is to be skipped.
LEMMA ResetRepeated ==
  ASSUME ClientTypeOK, NEW dup \in Int, NEW a \in Nat, NEW b \in Nat, Follows(dup, a, b),
         Reset, OnlyCacheUnderWay, ~FixUnderWay
  PROVE  \E d \in Int, i, j \in Nat : Follows(d, i, j)'
<1>1. /\ preedit = <<>> /\ cache \in Texts /\ Len(cache) \in Nat /\ count = b
      /\ field \in Texts /\ Len(field) \in Nat /\ Runs(field, 0) /\ signals \in Seq(Signal)
      /\ Chain(signals, dup, a, b)
  <2>1. preedit = <<>> BY DEF OnlyCacheUnderWay
  <2>2. count = b + Len(preedit) BY DEF Follows, Composed
  <2>3. cache \in Texts BY TypedText DEF ClientTypeOK
  <2>. QED BY <2>1, <2>2, <2>3, NoText, TextLen DEF ClientTypeOK, Follows, Written
<1>2. PICK k \in Pending("commit") : signals[k].text = cache
  BY DEF OnlyCacheUnderWay
<1>3. /\ k \in 1..Len(signals) /\ signals[k].kind = "commit" /\ cache # <<>>
      /\ \A i \in Pending("commit") : i \in 1..Len(signals) /\ signals[i].text = cache
  BY <1>2, SignalsLen DEF OnlyCacheUnderWay
<1>4. dup < 1 /\ skip = None
  <2>1. ~(dup >= 1)
    <3>. SUFFICES ASSUME dup >= 1 PROVE FALSE OBVIOUS
    <3>1. /\ dup \in 1..Len(signals) /\ signals[dup].kind = "commit" /\ signals[dup].text = skip
          /\ cache # skip
      BY SkippedFacts DEF Follows
    <3>2. dup \in Pending("commit") BY <3>1, SignalsLen
    <3>. QED BY <1>3, <3>1, <3>2
  <2>2. dup < 1 BY <2>1
  <2>3. dup \notin Pending("commit") BY <1>3, <2>2
  <2>. QED BY <1>2, <2>2, <2>3 DEF Follows, Skipped
<1>5. \A i \in 1..Len(signals) : signals[i].kind # "fix"
  BY SignalsLen DEF FixUnderWay
<1>6. ASSUME NEW i \in 1..Len(signals), i # k PROVE signals[i].kind # "commit"
  <2>. SUFFICES ASSUME signals[i].kind = "commit" PROVE FALSE OBVIOUS
  <2>1. i \in Pending("commit") BY SignalsLen
  <2>2. signals[i].text = signals[k].text BY <1>2, <1>3, <2>1
  <2>3. i # dup /\ k # dup BY <1>3, <1>4
  <2>4. Letter(signals[i].text[1]) # Letter(signals[k].text[1])
    BY <1>1, <1>3, <1>5, <1>6, <2>3, ChainFresh
  <2>. QED BY <2>2, <2>4
<1>7. Runs(cache, a) /\ b = a + Len(cache)
  <2>1. k # dup /\ \A i \in 1..Len(signals) : i # k => Still(signals[i], i = dup)
    BY <1>3, <1>4, <1>5, <1>6 DEF Still
  <2>2. Runs(signals[k].text, a) /\ b = a + Len(signals[k].text)
    BY <1>1, <1>3, <2>1, ChainOne
  <2>. QED BY <1>2, <2>2
<1>8. a = Len(field) /\ deferred = None /\ bsPending = 0 /\ idle = 0 /\ injected = 0
  BY DEF FixUnderWay, Follows, Written
<1>9. /\ field' = field \o cache /\ skip' = cache /\ cache' = <<>> /\ preedit' = <<>>
      /\ UNCHANGED <<count, alive, deferred, bsPending, idle, injected>>
  BY <1>3 DEF Reset, EngineReset, Send, fixVars
<1>10. signals' = signals \/ signals' = signals \o HidePopup
  <2>1. Commit(preedit) = <<>> BY <1>1 DEF Commit
  <2>2. HidePopup \o Commit(preedit) = HidePopup BY <2>1, PopupSignals, ConcatEmptySeq
  <2>3. signals \o <<>> = signals BY <1>1, ConcatEmptySeq
  <2>4. signals' = signals \o (IF alive THEN HidePopup \o Commit(preedit) ELSE <<>>)
    BY DEF Reset, Send
  <2>. QED BY <2>2, <2>3, <2>4
<1>11. /\ Len(field') = b /\ Runs(field', 0) /\ field' \in Texts
  <2>1. Runs(cache, 0 + Len(field)) BY <1>1, <1>7, <1>8
  <2>. QED BY <1>1, <1>7, <1>8, <1>9, <2>1, RunsConcat, TextConcat
<1>12. /\ Pending("fix")' = {} /\ k \in Pending("commit")' /\ signals'[k] = signals[k]
       /\ \A i \in 1..(k - 1) : signals'[i] = signals[i] /\ i \in 1..Len(signals) /\ i # k
       /\ Chain(signals', k, b, b)
  <2>1. Chain(signals, k, b, b)
    <3>1. \A i \in 1..Len(signals) : Still(signals[i], i = k)
      BY <1>5, <1>6 DEF Still
    <3>2. k \in Int BY <1>3
    <3>. QED BY <1>1, <3>1, <3>2, ChainStill
  <2>2. \A i \in 1..(k - 1) : i \in 1..Len(signals) /\ i # k BY <1>3, SignalsLen
  <2>3. CASE signals' = signals
    BY <1>2, <2>1, <2>2, <2>3 DEF Pending, FixUnderWay
  <2>4. CASE signals' = signals \o HidePopup
    <3>1. Chain(signals', k, b, b) BY <1>1, <1>3, <2>1, <2>4, ChainPopup
    <3>2. /\ DOMAIN signals = 1..Len(signals) /\ Len(signals) \in Nat
          /\ \A i \in DOMAIN signals : signals'[i] = signals[i]
          /\ Pending("fix")' = Pending("fix")
          /\ Len(signals') = Len(signals) + 1 /\ DOMAIN signals' = 1..Len(signals')
      BY <1>1, <2>4, PopupSignals, PopupKinds, SentPending
    <3>3. k \in DOMAIN signals' /\ signals'[k] = signals[k] BY <1>3, <3>2
    <3>. QED BY <1>3, <2>2, <3>1, <3>2, <3>3 DEF Pending, FixUnderWay
  <2>. QED BY <1>10, <2>3, <2>4
<1>13. Skipped(k)'
  <2>1. Letter(cache[1]) <= b
    <3>1. Len(cache) >= 1 BY <1>1, <1>3, EmptySeq DEF Texts
    <3>2. Letter(cache[1]) = a + 1 BY <1>1, <1>7, <3>1 DEF Runs
    <3>. QED BY <1>1, <1>7, <3>1, <3>2
  <2>2. \A i \in 1..(k - 1) : Still(signals'[i], FALSE) BY <1>5, <1>6, <1>12 DEF Still
  <2>3. signals'[k].text = skip' /\ cache' # skip' /\ Letter(skip'[1]) <= Len(field')
    BY <1>2, <1>3, <1>9, <1>11, <1>12, <2>1
  <2>. QED BY <1>8, <1>9, <1>12, <2>2, <2>3 DEF Skipped
<1>14. Written(b)' BY <1>8, <1>9, <1>11 DEF Written
<1>15. Composed(b)'
  <2>1. b + Len(<<>>) = b BY NoText
  <2>. QED BY <1>1, <1>9, <2>1, RunsNone DEF Composed
<1>16. OneFix' BY <1>12 DEF OneFix
<1>17. Follows(k, b, b)' BY <1>12, <1>13, <1>14, <1>15, <1>16 DEF Follows
<1>18. k \in Int BY <1>3
<1>. QED BY <1>17, <1>18

LEMMA ResetText ==
  ASSUME ClientTypeOK, NEW dup \in Int, NEW a \in Nat, NEW b \in Nat, Follows(dup, a, b),
         Reset, ~raced'
  PROVE  \E d \in Int, i, j \in Nat : Follows(d, i, j)'
<1>1. /\ ~FixUnderWay
      /\ cache # <<>> /\ Pending("commit") # {} => OnlyCacheUnderWay
      /\ cache # preedit => OnlyCacheUnderWay
  BY DEF Reset, Race
<1>2. CASE OnlyCacheUnderWay BY <1>1, <1>2, ResetRepeated
<1>3. CASE ~OnlyCacheUnderWay /\ cache # <<>>
  BY <1>1, <1>3, ResetComposed
<1>4. CASE ~OnlyCacheUnderWay /\ cache = <<>>
  <2>1. preedit = <<>> /\ cache = <<>> BY <1>1, <1>4
  <2>2. /\ field' = field \o <<>> /\ preedit' = <<>> /\ cache' = <<>> /\ count' = count
        /\ UNCHANGED <<alive, skip, bsPending, deferred, idle>> /\ injected' = injected
    BY <2>1 DEF Reset, EngineReset, fixVars
  <2>3. PICK sent : (sent = <<>> \/ (sent = HidePopup /\ alive)) /\ signals' = signals \o sent
    <3>1. Commit(preedit) = <<>> BY <2>1 DEF Commit
    <3>2. HidePopup \o Commit(preedit) = HidePopup BY <3>1, PopupSignals, ConcatEmptySeq
    <3>. QED BY <3>2 DEF Reset, Send
  <2>4. count = b + Len(<<>>) /\ Len(<<>>) = 0 /\ <<>> \in Texts BY <2>1, NoText DEF Follows, Composed
  <2>5. /\ Runs(<<>>, b) /\ preedit' \in Texts /\ Runs(preedit', b + Len(<<>>))
        /\ count' = (b + Len(<<>>)) + Len(preedit')
    BY <2>2, <2>4, RunsNone
  <2>. QED BY <1>1, <2>2, <2>3, <2>4, <2>5, Direct
<1>. QED BY <1>2, <1>3, <1>4

\* Handling a signal other than a repeated one takes the field as far as the signal says.
LEMMA HandledText ==
  ASSUME ClientTypeOK, NEW dup \in Int, NEW a \in Nat, NEW b \in Nat, Follows(dup, a, b),
         NEW kind, Handle(kind),
         UNCHANGED <<count, preedit, alive>>, focused' = focused
  PROVE  /\ \E m \in Nat : Moves(Head(signals), 1 = dup, a, m) /\ Chain(signals', dup - 1, m, b)
         /\ Composed(b)' /\ OneFix'
         /\ kind = "fix" => Pending("fix")' = {} /\ focused
         /\ Pending("fix") = {} => Pending("fix")' = {}
         /\ kind \notin {"commit", "fix"} \/ dup <= 1
         /\ kind = "commit" /\ dup >= 1 => dup = 1 /\ Head(signals).text = skip
         /\ kind = "fix" => dup < 1
<1>1. /\ signals # <<>> /\ signals' = Tail(signals) /\ Head(signals) = signals[1]
      /\ Head(signals).kind = kind /\ signals \in Seq(Signal)
  BY HandleTypes DEF Handle, ClientTypeOK
<1>2. \E m \in Nat : Moves(Head(signals), 1 = dup, a, m) /\ Chain(signals', dup - 1, m, b)
  BY <1>1, ChainTail DEF Follows
<1>3. Composed(b)' BY DEF Follows, Composed
<1>4. ASSUME NEW i \in Pending("fix")', NEW j \in Pending("fix")' PROVE i = j /\ focused'
  <2>1. i + 1 \in Pending("fix") /\ j + 1 \in Pending("fix") /\ i \in Int /\ j \in Int
    BY HandledPending
  <2>2. i + 1 = j + 1 /\ focused BY <2>1 DEF Follows, OneFix
  <2>. QED BY <2>1, <2>2
<1>5. ASSUME kind = "fix" PROVE Pending("fix")' = {} /\ focused
  <2>1. 1 \in Pending("fix") BY <1>5, HandledPending
  <2>2. ASSUME NEW i \in Pending("fix")' PROVE FALSE
    <3>1. i + 1 \in Pending("fix") /\ i \in Int /\ i >= 1 BY HandledPending
    <3>2. i + 1 = 1 BY <2>1, <3>1 DEF Follows, OneFix
    <3>. QED BY <3>1, <3>2
  <2>. QED BY <2>1, <2>2 DEF Follows, OneFix
<1>6. Pending("fix") = {} => Pending("fix")' = {} BY HandledPending
<1>7. ASSUME dup > 1 PROVE kind \notin {"commit", "fix"}
  <2>0. dup >= 1 BY <1>7
  <2>1. \A i \in 1..(dup - 1) : Still(signals[i], FALSE) BY <2>0, SkippedFacts DEF Follows
  <2>2. 1 \in 1..(dup - 1) BY <1>7
  <2>. QED BY <1>1, <2>1, <2>2 DEF Still
<1>8. ASSUME dup = 1 PROVE kind = "commit" /\ Head(signals).text = skip
  <2>1. signals[dup].kind = "commit" /\ signals[dup].text = skip
    <3>1. dup >= 1 BY <1>8
    <3>. QED BY <3>1, SkippedFacts DEF Follows
  <2>. QED BY <1>1, <1>8, <2>1
<1>9. dup <= 1 => dup < 1 \/ dup = 1 OBVIOUS
<1>10. dup > 1 \/ dup = 1 \/ dup < 1 OBVIOUS
<1>11. dup >= 1 => ~(dup < 1) OBVIOUS
<1>12. dup > 1 \/ dup <= 1 OBVIOUS
<1>13. kind = "fix" => dup < 1 BY <1>7, <1>8, <1>10
<1>14. kind = "commit" /\ dup >= 1 => dup = 1 /\ Head(signals).text = skip
  BY <1>7, <1>8, <1>10, <1>11
<1>15. kind \notin {"commit", "fix"} \/ dup <= 1 BY <1>7, <1>12
<1>. QED BY <1>2, <1>3, <1>4, <1>5, <1>6, <1>13, <1>14, <1>15 DEF OneFix

\* The signal to be skipped comes one nearer.
LEMMA SkippedTail ==
  ASSUME ClientTypeOK, NEW dup \in Int, Skipped(dup), dup # 1,
         NEW kind, Handle(kind), skip' = skip, alive' = alive,
         dup >= 1 => deferred' = deferred /\ cache' = cache /\ field' = field
  PROVE  Skipped(dup - 1)'
<1>1. CASE dup >= 1
  <2>1. /\ dup \in 1..Len(signals) /\ signals[dup].kind = "commit" /\ signals[dup].text = skip
        /\ cache # skip /\ deferred = None /\ Letter(skip[1]) <= Len(field)
        /\ \A i \in 1..(dup - 1) : Still(signals[i], FALSE)
    BY <1>1, SkippedFacts
  <2>2. /\ Len(signals) \in Nat /\ dup - 1 \in 1..(Len(signals) - 1) /\ (dup - 1) + 1 = dup
        /\ \A i \in 1..((dup - 1) - 1) : i \in 1..(Len(signals) - 1) /\ i + 1 \in 1..(dup - 1)
    BY <2>1, SignalsLen
  <2>3. \A i \in 1..(Len(signals) - 1) : signals'[i] = signals[i + 1] BY HandledPending
  <2>4. signals'[dup - 1] = signals[dup] BY <2>2, <2>3
  <2>5. dup \in Pending("commit") BY <2>1, SignalsLen
  <2>6. dup - 1 \in Pending("commit")' BY <2>2, <2>5, HandledPending
  <2>7. \A i \in 1..((dup - 1) - 1) : Still(signals'[i], FALSE) BY <2>1, <2>2, <2>3
  <2>8. UNCHANGED <<deferred, cache, field>> BY <1>1
  <2>. QED BY <2>1, <2>4, <2>6, <2>7, <2>8 DEF Skipped
<1>2. CASE dup < 1
  <2>1. dup \notin Pending("commit") BY <1>2, SignalsLen
  <2>2. skip # None => ~alive /\ Pending("commit") = {} BY <2>1 DEF Skipped
  <2>3. Pending("commit") = {} => Pending("commit")' = {} BY HandledPending
  <2>4. dup - 1 < 1 BY <1>2
  <2>. QED BY <2>2, <2>3, <2>4 DEF Skipped
<1>. QED BY <1>1, <1>2

LEMMA PopupText ==
  ASSUME ClientTypeOK, NEW dup \in Int, NEW a \in Nat, NEW b \in Nat, Follows(dup, a, b),
         ShowSignal \/ HideSignal
  PROVE  \E d \in Int, i, j \in Nat : Follows(d, i, j)'
<1>1. PICK kind \in {"show", "hide"} : Handle(kind) BY DEF ShowSignal, HideSignal
<1>2. UNCHANGED <<count, preedit, alive, focused, cache, skip, injected, bsPending, deferred, idle, field>>
  BY DEF ShowSignal, HideSignal, daemonVars, fixVars
<1>3. Head(signals).kind = kind BY <1>1, HandleTypes
<1>4. /\ \E m \in Nat : Moves(Head(signals), 1 = dup, a, m) /\ Chain(signals', dup - 1, m, b)
      /\ Composed(b)' /\ OneFix' /\ (Pending("fix") = {} => Pending("fix")' = {})
  BY <1>1, <1>2, HandledText
<1>5. Chain(signals', dup - 1, a, b) BY <1>3, <1>4 DEF Moves
<1>6. dup # 1
  <2>. SUFFICES ASSUME dup = 1 PROVE FALSE OBVIOUS
  <2>1. dup >= 1 OBVIOUS
  <2>2. signals[1].kind = "commit" BY <2>1, SkippedFacts DEF Follows
  <2>. QED BY <1>1, <1>3, <2>2, HandleTypes
<1>7. Skipped(dup - 1)'
  <2>1. Skipped(dup) BY DEF Follows
  <2>. QED BY <1>1, <1>2, <1>6, <2>1, SkippedTail
<1>8. Written(a)' BY <1>2, <1>4 DEF Follows, Written
<1>. PICK d : d = dup - 1 OBVIOUS
<1>9. d \in Int /\ Follows(d, a, b)' BY <1>4, <1>5, <1>7, <1>8 DEF Follows
<1>. QED BY <1>9

LEMMA CommitText ==
  ASSUME ClientTypeOK, NEW dup \in Int, NEW a \in Nat, NEW b \in Nat, Follows(dup, a, b),
         CommitSignal, ~raced'
  PROVE  \E d \in Int, i, j \in Nat : Follows(d, i, j)'
<1>1. Handle("commit") /\ UNCHANGED <<count, preedit, alive, focused, cache, injected, bsPending,
                                       deferred, idle>>
  BY DEF CommitSignal, daemonVars, fixVars
<1>. PICK text : text = Head(signals).text OBVIOUS
<1>2. /\ Head(signals).kind = "commit" /\ text \in Texts /\ text # <<>>
      /\ Len(text) \in Nat
  <2>1. Head(signals) \in Signal /\ Head(signals).kind = "commit" BY <1>1, HandleTypes
  <2>2. text \in Texts /\ text # <<>> BY <2>1 DEF Signal
  <2>. QED BY <2>1, <2>2, TextLen
<1>3. /\ Composed(b)' /\ OneFix' /\ dup <= 1
      /\ dup >= 1 => dup = 1 /\ Head(signals).text = skip
      /\ Pending("fix") = {} => Pending("fix")' = {}
  BY <1>1, HandledText
<1>4. PICK m \in Nat : Moves(Head(signals), 1 = dup, a, m) /\ Chain(signals', dup - 1, m, b)
  BY <1>1, HandledText
<1>5. CASE dup = 1
  <2>1. /\ skip' = None /\ field' = field
    <3>1. Dedupe(text) BY <1>3, <1>5 DEF Dedupe
    <3>. QED BY <3>1 DEF CommitSignal
  <2>2. m = a BY <1>2, <1>4, <1>5 DEF Moves
  <2>3. Chain(signals', 0, a, b) BY <1>4, <1>5, <2>2
  <2>4. Skipped(0)' BY <2>1 DEF Skipped
  <2>5. Written(a)' BY <1>1, <1>3, <2>1 DEF Follows, Written
  <2>6. Follows(0, a, b)' BY <1>3, <2>3, <2>4, <2>5 DEF Follows
  <2>. QED BY <2>6
<1>6. CASE dup # 1
  <2>1. dup < 1 /\ ~(1 = dup) BY <1>3, <1>6
  <2>2. m = a + Len(text) /\ Runs(text, a) BY <1>2, <1>4, <2>1 DEF Moves
  <2>3. text # skip
    <3>1. 1 \in Pending("commit") BY <1>1, HandledPending
    <3>2. dup \notin Pending("commit") BY <2>1, SignalsLen
    <3>3. skip = None BY <3>1, <3>2 DEF Follows, Skipped
    <3>. QED BY <1>2, <3>3 DEF None
  <2>4. /\ field' = field \o text /\ skip' = skip /\ deferred = None
    BY <2>3 DEF CommitSignal, Dedupe, Race
  <2>5. /\ a = Len(field) /\ bsPending = 0 /\ idle = 0 /\ injected = 0 /\ Runs(field, 0)
        /\ field \in Texts /\ Len(field) \in Nat
    BY <2>4, TextLen DEF ClientTypeOK, Follows, Written
  <2>6. Runs(field', 0) /\ Len(field') = m
    <3>1. Runs(text, 0 + Len(field)) BY <2>2, <2>5
    <3>. QED BY <1>2, <2>2, <2>4, <2>5, <3>1, RunsConcat, TextConcat
  <2>7. Written(m)' BY <1>1, <2>4, <2>5, <2>6 DEF Written
  <2>8. Skipped(dup - 1)'
    <3>1. Skipped(dup) /\ ~(dup >= 1) BY <2>1 DEF Follows
    <3>. QED BY <1>1, <1>6, <2>4, <3>1, SkippedTail
  <2>. PICK d : d = dup - 1 OBVIOUS
  <2>9. d \in Int /\ Follows(d, m, b)' BY <1>3, <1>4, <2>7, <2>8 DEF Follows
  <2>. QED BY <2>9
<1>. QED BY <1>5, <1>6

LEMMA FixText ==
  ASSUME ClientTypeOK, NEW dup \in Int, NEW a \in Nat, NEW b \in Nat, Follows(dup, a, b),
         FixSignal
  PROVE  \E d \in Int, i, j \in Nat : Follows(d, i, j)'
<1>. PICK fix : fix = Head(signals) OBVIOUS
<1>1. Handle("fix") /\ UNCHANGED <<count, preedit, alive, focused, skip>>
  BY DEF FixSignal, daemonVars
<1>2. /\ fix.kind = "fix" /\ fix.erase \in Nat /\ fix.text \in Texts /\ Len(fix.text) \in Nat
  <2>1. fix \in Signal /\ fix.kind = "fix" BY <1>1, HandleTypes
  <2>2. fix.erase \in Nat /\ fix.text \in Texts BY <2>1 DEF Signal
  <2>. QED BY <2>1, <2>2, TextLen
<1>3. Composed(b)' /\ OneFix' /\ Pending("fix")' = {} /\ focused /\ dup < 1
  BY <1>1, HandledText
<1>4. PICK m \in Nat : Moves(fix, 1 = dup, a, m) /\ Chain(signals', dup - 1, m, b)
  BY <1>1, HandledText
<1>5. /\ fix.erase <= a /\ m = (a - fix.erase) + Len(fix.text) /\ Runs(fix.text, a - fix.erase)
  BY <1>2, <1>4 DEF Moves
<1>6. /\ deferred = None /\ a = Len(field) /\ bsPending = 0 /\ idle = 0 /\ injected = 0
      /\ Runs(field, 0) /\ field \in Texts
  <2>1. 1 \in Pending("fix") BY <1>1, HandledPending
  <2>. QED BY <2>1 DEF ClientTypeOK, Follows, Written
<1>. PICK n : n = fix.erase OBVIOUS
<1>7. /\ n \in 0..Len(field) /\ n \in Nat /\ a - n = Len(field) - n /\ a - n \in Nat
  BY <1>2, <1>5, <1>6
<1>8. Skipped(dup - 1)'
  <2>1. Skipped(dup) /\ ~(dup >= 1) /\ dup # 1 BY <1>3 DEF Follows
  <2>. QED BY <1>1, <2>1, SkippedTail
<1>9. Written(m)'
  <2>1. CASE field' = EraseLast(field, fix.erase) \o fix.text /\ UNCHANGED fixVars
    <3>1. /\ EraseLast(field, n) \in Texts /\ Runs(EraseLast(field, n), 0)
          /\ Len(EraseLast(field, n)) = Len(field) - n
      BY <1>6, <1>7, EraseLastText, RunsErase
    <3>2. Runs(fix.text, 0 + Len(EraseLast(field, n))) BY <1>5, <1>7, <3>1
    <3>3. Runs(field', 0) /\ Len(field') = m
      <4>. PICK e, t : e = EraseLast(field, n) /\ t = fix.text OBVIOUS
      <4>1. Runs(e \o t, 0) /\ Len(e \o t) = Len(e) + Len(t)
        BY <1>2, <3>1, <3>2, RunsConcat, TextConcat
      <4>2. field' = e \o t BY <2>1
      <4>. QED BY <1>5, <1>7, <3>1, <4>1, <4>2
    <3>. QED BY <1>6, <2>1, <3>3 DEF Written, fixVars
  <2>2. CASE /\ fix.erase > 0 /\ injected' = injected + fix.erase /\ bsPending' = fix.erase
             /\ deferred' = <<[text |-> fix.text, preview |-> fix.preview]>>
             /\ UNCHANGED <<field, cache, idle>>
    <3>1. /\ deferred' # None /\ deferred'[1].text = fix.text BY <2>2 DEF None
    <3>2. /\ injected' = n /\ bsPending' = n /\ n > 0 /\ n <= Len(field') /\ idle' = 0
      BY <1>6, <1>7, <2>2
    <3>3. m = (Len(field') - n) + Len(fix.text) /\ Runs(fix.text, Len(field') - n)
      BY <1>5, <1>7, <2>2
    <3>4. m = (Len(field') - bsPending') + Len(deferred'[1].text)
          /\ Runs(deferred'[1].text, Len(field') - bsPending')
      BY <3>1, <3>2, <3>3
    <3>5. injected' = bsPending' /\ bsPending' <= Len(field') /\ idle' = IF bsPending' > 0 THEN 0 ELSE 1
      BY <3>2
    <3>6. Runs(field', 0) BY <1>6, <2>2
    <3>. QED BY <1>3, <3>1, <3>4, <3>5, <3>6 DEF Written
  <2>. QED BY <1>3, <2>1, <2>2 DEF FixSignal, ApplyFix
<1>. PICK d : d = dup - 1 OBVIOUS
<1>10. d \in Int /\ Follows(d, m, b)' BY <1>3, <1>4, <1>8, <1>9 DEF Follows
<1>. QED BY <1>10

\* The module's own BackSpaces, and then the text, make of the field what Written says.
LEMMA BackspaceText ==
  ASSUME ClientTypeOK, NEW dup \in Int, NEW a \in Nat, NEW b \in Nat, Follows(dup, a, b),
         SelfBackspace
  PROVE  \E d \in Int, i, j \in Nat : Follows(d, i, j)'
<1>1. /\ injected > 0 /\ injected' = injected - 1
      /\ UNCHANGED <<count, alive, signals, skip, deferred, focused>>
  BY DEF SelfBackspace
<1>2. /\ deferred # None /\ injected = bsPending /\ bsPending <= Len(field)
      /\ idle = IF bsPending > 0 THEN 0 ELSE 1
      /\ a = (Len(field) - bsPending) + Len(deferred[1].text)
      /\ Runs(deferred[1].text, Len(field) - bsPending)
      /\ Pending("fix") = {} /\ Runs(field, 0)
  BY <1>1 DEF Follows, Written
<1>3. /\ bsPending \in Nat /\ bsPending > 0 /\ field \in Texts /\ Len(field) \in Nat
      /\ 1 \in 0..Len(field) /\ idle = 0
  BY <1>1, <1>2, TextLen DEF ClientTypeOK
<1>4. /\ bsPending' = bsPending - 1 /\ field' = EraseLast(field, 1)
      /\ idle' = (IF bsPending' = 0 THEN 1 ELSE 0) /\ UNCHANGED <<preedit, cache>>
  BY <1>3 DEF SelfBackspace, LastBackspace
<1>5. Runs(field', 0) /\ Len(field') = Len(field) - 1
  BY <1>2, <1>3, <1>4, RunsErase
<1>6. Len(field') - bsPending' = Len(field) - bsPending BY <1>3, <1>4, <1>5
<1>7. Written(a)'
  <2>1. Pending("fix")' = {} BY <1>1, <1>2 DEF Pending
  <2>2. injected' = bsPending' /\ bsPending' <= Len(field') BY <1>1, <1>2, <1>3, <1>4, <1>5
  <2>3. idle' = IF bsPending' > 0 THEN 0 ELSE 1
    <3>1. CASE bsPending' = 0
      <4>1. ~(bsPending' > 0) BY <3>1
      <4>2. idle' = 1 BY <1>4, <3>1
      <4>. QED BY <4>1, <4>2
    <3>2. CASE bsPending' # 0
      <4>1. bsPending' > 0 BY <1>3, <1>4, <3>2
      <4>2. idle' = 0 BY <1>4, <3>2
      <4>. QED BY <4>1, <4>2
    <3>. QED BY <3>1, <3>2
  <2>4. a = (Len(field') - bsPending') + Len(deferred'[1].text)
        /\ Runs(deferred'[1].text, Len(field') - bsPending')
    BY <1>1, <1>2, <1>6
  <2>. QED BY <1>1, <1>2, <1>5, <2>1, <2>2, <2>3, <2>4 DEF Written
<1>8. Skipped(dup)'
  <2>1. ~(dup >= 1) BY <1>2, SkippedFacts DEF Follows
  <2>2. dup < 1 BY <2>1
  <2>3. dup \notin Pending("commit") BY <2>2, SignalsLen
  <2>4. skip # None => ~alive /\ Pending("commit") = {} BY <2>3 DEF Follows, Skipped
  <2>5. Pending("commit")' = Pending("commit") BY <1>1 DEF Pending
  <2>. QED BY <1>1, <2>2, <2>4, <2>5 DEF Skipped
<1>9. OneFix'
  <2>1. Pending("fix")' = {} BY <1>1, <1>2 DEF Pending
  <2>. QED BY <2>1 DEF OneFix
<1>10. Follows(dup, a, b)' BY <1>1, <1>4, <1>7, <1>8, <1>9 DEF Follows, Composed
<1>. QED BY <1>10

LEMMA DeferredText ==
  ASSUME ClientTypeOK, NEW dup \in Int, NEW a \in Nat, NEW b \in Nat, Follows(dup, a, b),
         DeferredCommit
  PROVE  \E d \in Int, i, j \in Nat : Follows(d, i, j)'
<1>1. /\ idle > 0 /\ idle' = idle - 1 /\ deferred' = None
      /\ UNCHANGED <<count, preedit, alive, signals, skip, injected, bsPending, focused>>
  BY DEF DeferredCommit, daemonVars
<1>2. /\ deferred # None /\ injected = bsPending /\ bsPending <= Len(field)
      /\ idle = IF bsPending > 0 THEN 0 ELSE 1
      /\ a = (Len(field) - bsPending) + Len(deferred[1].text)
      /\ Runs(deferred[1].text, Len(field) - bsPending)
      /\ Pending("fix") = {} /\ Runs(field, 0)
  BY <1>1 DEF Follows, Written
<1>. PICK t : t = deferred[1].text OBVIOUS
<1>3. /\ bsPending = 0 /\ idle = 1 /\ injected = 0 /\ field \in Texts /\ Len(field) \in Nat
      /\ t \in Texts /\ Len(t) \in Nat
  <2>1. t \in Texts BY <1>2 DEF ClientTypeOK, Deferred
  <2>2. bsPending \in Nat /\ field \in Texts BY DEF ClientTypeOK
  <2>. QED BY <1>1, <1>2, <2>1, <2>2, TextLen
<1>4. a = Len(field) + Len(t) /\ Runs(t, 0 + Len(field))
  <2>1. Len(field) - bsPending = Len(field) /\ 0 + Len(field) = Len(field) BY <1>3
  <2>. QED BY <1>2, <2>1
<1>5. field' = field \o t BY <1>2 DEF DeferredCommit, ApplyFix
<1>6. Runs(field', 0) /\ Len(field') = a
  BY <1>2, <1>3, <1>4, <1>5, RunsConcat, TextConcat
<1>7. Written(a)' BY <1>1, <1>3, <1>6 DEF Written
<1>8. Skipped(dup)'
  <2>1. ~(dup >= 1) BY <1>2, SkippedFacts DEF Follows
  <2>2. dup < 1 BY <2>1
  <2>3. dup \notin Pending("commit") BY <2>2, SignalsLen
  <2>4. skip # None => ~alive /\ Pending("commit") = {} BY <2>3 DEF Follows, Skipped
  <2>5. Pending("commit")' = Pending("commit") BY <1>1 DEF Pending
  <2>. QED BY <1>1, <2>2, <2>4, <2>5 DEF Skipped
<1>9. OneFix'
  <2>1. Pending("fix")' = {} BY <1>1, <1>2 DEF Pending
  <2>. QED BY <2>1 DEF OneFix
<1>10. Follows(dup, a, b)' BY <1>1, <1>7, <1>8, <1>9 DEF Follows, Composed
<1>. QED BY <1>10

LEMMA TextKept == ASSUME ClientTypeOK, TextFollows, [Next]_vars PROVE TextFollows'
<1>. SUFFICES ASSUME ~raced' PROVE \E d \in Int, i, j \in Nat : Follows(d, i, j)'
  BY DEF TextFollows
<1>1. CASE UNCHANGED vars
  <2>1. UNCHANGED <<count, preedit, alive, signals, cache, skip, injected, bsPending, deferred, idle,
                    focused, field, raced>>
    BY <1>1 DEF vars, daemonVars, clientVars, fixVars
  <2>2. PICK dup \in Int, a \in Nat, b \in Nat : Follows(dup, a, b) BY <2>1 DEF TextFollows
  <2>3. Follows(dup, a, b)'
    BY <2>1, <2>2 DEF Follows, Written, Composed, OneFix, Skipped, Pending
  <2>. QED BY <2>3
<1>2. CASE Next
  <2>1. PICK dup \in Int, a \in Nat, b \in Nat : Follows(dup, a, b)
    BY <1>2, NotRaced DEF TextFollows
  <2>. QED
    BY <1>2, <2>1, SyllableText, TypeFixText, KeyText, DaemonText, FocusOutText, FocusInText, ResetText,
       CommitText, FixText, BackspaceText, DeferredText, PopupText DEF Next
<1>. QED BY <1>1, <1>2

LEMMA QuietText == ASSUME ClientTypeOK, TextFollows PROVE FieldTextIntact
<1>. DEFINE letters == [i \in DOMAIN field |-> IF field[i] < 0 THEN -field[i] ELSE field[i]]
<1>. SUFFICES ASSUME Quiet, ~raced PROVE letters \o preedit = [i \in 1..count |-> i]
  BY DEF FieldTextIntact
<1>1. PICK dup \in Int, a \in Nat, b \in Nat : Follows(dup, a, b) BY DEF TextFollows
<1>2. a = b
  <2>1. Chain(signals, dup, a, b) /\ signals = <<>> /\ signals \in Seq(Signal)
    BY <1>1 DEF Quiet, Follows, ClientTypeOK
  <2>. QED BY <1>1, <2>1, ChainEnds
<1>3. a = Len(field) /\ Runs(field, 0)
  <2>1. Written(a) /\ bsPending = 0 /\ idle = 0 BY <1>1 DEF Follows, Quiet
  <2>. QED BY <2>1 DEF Written
<1>4. /\ field \in Texts /\ DOMAIN field = 1..a /\ \A i \in 1..a : field[i] \in Int
      /\ preedit \in Texts /\ preedit \in Typed /\ Len(preedit) \in Nat /\ count = a + Len(preedit)
      /\ Runs(preedit, a) /\ \A i \in 1..Len(preedit) : preedit[i] \in Nat \ {0}
  BY <1>1, <1>2, <1>3, TypedText, TextLen, ElementOfSeq DEF ClientTypeOK, Follows, Composed, Texts, Typed
<1>5. \A i \in 1..a : letters[i] = i
  BY <1>3, <1>4 DEF Runs, Letter
<1>6. letters = [i \in 1..a |-> i] BY <1>4, <1>5
<1>. HIDE DEF letters
<1>7. letters \in Texts /\ Len(letters) = a
  <2>1. letters \in [1..a -> Int] BY <1>6
  <2>2. letters \in Texts BY <2>1, SeqDef DEF Texts
  <2>. QED BY <1>6, <2>2
<1>8. \A i \in 1..Len(preedit) : preedit[i] = a + i
  BY <1>4 DEF Runs, Letter
<1>. DEFINE all == [i \in 1..count |-> i]
<1>9. count \in Nat BY <1>4
<1>10. all \in Texts /\ Len(all) = count /\ \A i \in 1..count : all[i] = i
  <2>1. all \in [1..count -> Int] OBVIOUS
  <2>2. all \in Texts BY <1>9, <2>1, SeqDef DEF Texts
  <2>. QED BY <1>9, <2>2
<1>11. letters \o preedit \in Texts /\ Len(letters \o preedit) = count
  BY <1>4, <1>7, TextConcat
<1>12. ASSUME NEW i \in 1..count PROVE (letters \o preedit)[i] = i
  <2>1. i \in 1..(Len(letters) + Len(preedit)) BY <1>4, <1>7
  <2>2. CASE i <= a
    <3>1. (letters \o preedit)[i] = letters[i] BY <1>4, <1>7, <2>1, <2>2, TextConcat
    <3>. QED BY <1>5, <2>2, <3>1
  <2>3. CASE i > a
    <3>1. (letters \o preedit)[i] = preedit[i - a] BY <1>4, <1>7, <2>1, <2>3, TextConcat
    <3>2. i - a \in 1..Len(preedit) BY <1>4, <2>3
    <3>3. preedit[i - a] = a + (i - a) BY <1>8, <3>2
    <3>. QED BY <3>1, <3>3
  <2>4. i <= a \/ i > a BY <1>1
  <2>. QED BY <2>2, <2>3, <2>4
<1>. HIDE DEF all
<1>13. letters \o preedit = all
  BY <1>10, <1>11, <1>12, SeqEqual DEF Texts
<1>. QED BY <1>13 DEF all

\* What a field was given and what is composed for it are what was typed, each character
\* once and in its place, when what was on its way has arrived: whatever keys, clicks in
\* popups, timers and fixes cross, with a failed call or the end of the daemon; unless
\* two of them met for which the module has no order.
THEOREM FieldKeepsText == Spec => []FieldTextIntact
<1>1. ASSUME Init PROVE TextFollows
  <2>1. \A n \in Nat : Runs(<<>>, n) BY RunsNone
  <2>2. Pending("fix") = {} /\ Pending("commit") = {} BY <1>1 DEF Init, Pending
  <2>3. Written(0) BY <1>1, <2>1, NoText DEF Init, Written
  <2>4. Chain(signals, 0, 0, 0)
    <3>1. signals \in Seq(Signal) /\ \A i \in 1..Len(signals) : FALSE
      BY <1>1, PopupSignals, NoText DEF Init
    <3>. QED BY <3>1, ChainStill
  <2>5. Composed(0) BY <1>1, <2>1, NoText DEF Init, Composed
  <2>6. OneFix /\ Skipped(0) BY <1>1, <2>2 DEF Init, OneFix, Skipped
  <2>7. Follows(0, 0, 0) BY <2>3, <2>4, <2>5, <2>6 DEF Follows
  <2>. QED BY <2>7 DEF TextFollows
<1>. QED BY <1>1, ClientTypeCorrect, TextKept, QuietText, PTL DEF Spec
=============================================================================
