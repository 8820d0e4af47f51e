------------------------ MODULE HangulComposerProofs ------------------------
(***************************************************************************)
(* Theorems about HangulComposer, for every keyboard, set of compounds and *)
(* length of words and chords:                                             *)
(*                                                                         *)
(*   HangulTypeCorrect  the context and the chord are well formed;         *)
(*   WordKeysTold       the keys of a word compose the word;               *)
(*   KeyTextKept        a key adds its letter and keeps the rest;          *)
(*   BackspaceUndoes    a Backspace takes back the key before it;          *)
(*   ChordTextHeld      the preview of a chord loses and repeats nothing.  *)
(*                                                                         *)
(* What a composer does is read from the jamo it keeps, so that            *)
(* the lemmas come in this order: induction over a set of numbers, with    *)
(* which a recursive function is shown to have a value and a fact to hold  *)
(* of every sequence; a joined text; the letters of the areas of a queue   *)
(* and of a syllable; one lemma for each operator of the model, which says *)
(* that it keeps the types (...Type, ...Fields), and that what it composes *)
(* depends on nothing but the composition it is given (...Same); and what  *)
(* the queue and the syllable say of each other (Whole, Sound), which each *)
(* operation keeps (...Sound, ...Steady) and from which the text is read   *)
(* (...Text, ...Back); and how often a letter stands in a text (Count...,  *)
(* Tally), which the order of a chord's keys does not change.              *)
(***************************************************************************)
EXTENDS HangulComposer, SequenceLemmas, FiniteSetTheorems

-----------------------------------------------------------------------------
(* Sequences of jamo and of characters. *)

Char == [Areas -> Seq(Letter)]

\* Applying a function to every element, one element more.
LEMMA MappedAppend ==
  ASSUME NEW V, NEW W, NEW f \in [V -> W], NEW s \in Seq(V), NEW e \in V
  PROVE  /\ [i \in 1..Len(Append(s, e)) |-> f[Append(s, e)[i]]]
              = Append([i \in 1..Len(s) |-> f[s[i]]], f[e])
         /\ [i \in 1..Len(s) |-> f[s[i]]] \in Seq(W)
<1>. DEFINE mapped == [i \in 1..Len(s) |-> f[s[i]]]
            more   == Append(s, e)
            longer == [i \in 1..Len(more) |-> f[more[i]]]
<1>1. \A i \in 1..Len(s) : f[s[i]] \in W
  OBVIOUS
<1>2. mapped \in Seq(W) /\ Len(mapped) = Len(s)
  BY <1>1
<1>3. /\ Len(more) = Len(s) + 1 /\ more[Len(s) + 1] = e /\ Len(s) \in Nat
      /\ \A i \in 1..Len(s) : more[i] = s[i]
      /\ \A i \in 1..Len(more) : more[i] \in V
  <2>1. more \in Seq(V)
    BY AppendProperties
  <2>2. \A i \in 1..Len(more) : more[i] \in V
    BY <2>1
  <2>. QED BY <2>2, AppendProperties
<1>. HIDE DEF more
<1>4. longer \in Seq(W) /\ Len(longer) = Len(s) + 1
  BY <1>3
<1>5. Append(mapped, f[e]) \in Seq(W) /\ Len(Append(mapped, f[e])) = Len(s) + 1
  BY <1>2, AppendProperties
<1>6. ASSUME NEW i \in 1..(Len(s) + 1) PROVE longer[i] = Append(mapped, f[e])[i]
  <2>1. CASE i = Len(s) + 1
    <3>1. longer[i] = f[e]
      BY <1>3, <2>1
    <3>2. Append(mapped, f[e])[i] = f[e]
      BY <1>2, <2>1, AppendProperties
    <3>. QED BY <3>1, <3>2
  <2>2. CASE i # Len(s) + 1
    <3>1. i \in 1..Len(s) /\ i \in 1..Len(more)
      BY <1>3, <2>2
    <3>2. longer[i] = f[s[i]] /\ mapped[i] = f[s[i]]
      BY <1>3, <3>1
    <3>3. Append(mapped, f[e])[i] = mapped[i]
      BY <1>2, <3>1, AppendProperties
    <3>. QED BY <3>2, <3>3
  <2>. QED BY <2>1, <2>2
<1>. HIDE DEF mapped, longer
<1>7. longer = Append(mapped, f[e])
  BY <1>4, <1>5, <1>6, SeqEqual
<1>. QED BY <1>2, <1>7 DEF mapped, longer, more

LEMMA OfAreaNone == ASSUME NEW area PROVE OfArea(<<>>, area) = <<>>
<1>1. [i \in 1..Len(<<>>) |-> IF <<>>[i].area = area THEN << <<>>[i] >> ELSE <<>>] = <<>>
  OBVIOUS
<1>. QED BY <1>1, FlattenNone DEF OfArea

LEMMA OfAreaMaps ==
  ASSUME NEW q \in Seq(Jamo), NEW jamo \in Jamo, NEW area
  PROVE  /\ OfArea(q, area) \in Seq(Jamo)
         /\ OfArea(Append(q, jamo), area)
              = OfArea(q, area) \o (IF jamo.area = area THEN <<jamo>> ELSE <<>>)
<1>. DEFINE f == [x \in Jamo |-> IF x.area = area THEN <<x>> ELSE <<>>]
            more == Append(q, jamo)
<1>1. f \in [Jamo -> Seq(Jamo)] /\ \A x \in Jamo : f[x] = IF x.area = area THEN <<x>> ELSE <<>>
  OBVIOUS
<1>2. more \in Seq(Jamo)
  BY AppendProperties
<1>. HIDE DEF f, more
<1>3. ASSUME NEW s \in Seq(Jamo)
      PROVE  OfArea(s, area) = FlattenSeq([i \in 1..Len(s) |-> f[s[i]]])
  <2>1. \A i \in 1..Len(s) : s[i] \in Jamo
    OBVIOUS
  <2>2. \A i \in 1..Len(s) : f[s[i]] = IF s[i].area = area THEN <<s[i]>> ELSE <<>>
    BY <1>1, <2>1
  <2>3. [i \in 1..Len(s) |-> f[s[i]]]
          = [i \in 1..Len(s) |-> IF s[i].area = area THEN <<s[i]>> ELSE <<>>]
    BY <2>2
  <2>. QED BY <2>3 DEF OfArea
<1>4. /\ [i \in 1..Len(more) |-> f[more[i]]] = Append([i \in 1..Len(q) |-> f[q[i]]], f[jamo])
      /\ [i \in 1..Len(q) |-> f[q[i]]] \in Seq(Seq(Jamo))
  BY <1>1, MappedAppend DEF more
<1>5. FlattenSeq([i \in 1..Len(q) |-> f[q[i]]]) \in Seq(Jamo)
  BY <1>4, FlattenType
<1>6. f[jamo] \in Seq(Jamo)
  BY <1>1
<1>7. FlattenSeq([i \in 1..Len(more) |-> f[more[i]]])
        = FlattenSeq([i \in 1..Len(q) |-> f[q[i]]]) \o f[jamo]
  BY <1>4, <1>6, FlattenAppend
<1>8. OfArea(more, area) = OfArea(q, area) \o f[jamo]
  BY <1>2, <1>3, <1>7
<1>9. OfArea(q, area) \in Seq(Jamo)
  BY <1>3, <1>5
<1>. QED BY <1>1, <1>8, <1>9 DEF more

LEMMA OfAreaType ==
  ASSUME NEW q \in Seq(Jamo), NEW area
  PROVE  OfArea(q, area) \in Seq(Jamo)
<1>1. CASE q = <<>>
  BY <1>1, OfAreaNone
<1>2. CASE q # <<>>
  <2>1. PICK jamo \in Jamo : TRUE
    BY <1>2, HeadTailProperties
  <2>. QED BY <2>1, OfAreaMaps
<1>. QED BY <1>1, <1>2

LEMMA OfAreaAppend ==
  ASSUME NEW q \in Seq(Jamo), NEW jamo \in Jamo, NEW area
  PROVE  OfArea(Append(q, jamo), area)
           = IF jamo.area = area THEN Append(OfArea(q, area), jamo) ELSE OfArea(q, area)
<1>1. OfArea(q, area) \in Seq(Jamo)
  BY OfAreaType
<1>2. Append(OfArea(q, area), jamo) = OfArea(q, area) \o <<jamo>>
  BY <1>1, AppendIsConcat
<1>3. OfArea(q, area) \o <<>> = OfArea(q, area)
  BY <1>1, ConcatEmptySeq
<1>4. OfArea(Append(q, jamo), area)
        = OfArea(q, area) \o (IF jamo.area = area THEN <<jamo>> ELSE <<>>)
  BY OfAreaMaps
<1>. QED BY <1>2, <1>3, <1>4

LEMMA OfAreaOne ==
  ASSUME NEW jamo \in Jamo, NEW area
  PROVE  OfArea(<<jamo>>, area) = IF jamo.area = area THEN <<jamo>> ELSE <<>>
<1>0. PICK none : none = <<>>
  OBVIOUS
<1>1. <<jamo>> = Append(none, jamo) /\ none \in Seq(Jamo)
  BY <1>0
<1>2. OfArea(none, area) = none
  BY <1>0, OfAreaNone, Zenon
<1>3. OfArea(Append(none, jamo), area) = IF jamo.area = area THEN Append(none, jamo) ELSE none
  BY <1>1, <1>2, OfAreaAppend
<1>. QED BY <1>0, <1>1, <1>3

\* What is in an area is of the area.
LEMMA OfAreaIn ==
  ASSUME NEW area
  PROVE  \A q \in Seq(Jamo) : OfArea(q, area) \in Seq({jamo \in Jamo : jamo.area = area})
<1>. DEFINE V == {jamo \in Jamo : jamo.area = area}
            T == {q \in Seq(Jamo) : OfArea(q, area) \in Seq(V)}
<1>1. <<>> \in T
  <2>1. <<>> \in Seq(V) /\ <<>> \in Seq(Jamo)
    OBVIOUS
  <2>2. OfArea(<<>>, area) = <<>>
    BY OfAreaNone, Zenon
  <2>. QED BY <2>1, <2>2, Zenon
<1>2. ASSUME NEW s \in Seq(Jamo), NEW e \in Jamo, s \in T PROVE Append(s, e) \in T
  <2>1. Append(s, e) \in Seq(Jamo)
    BY AppendProperties
  <2>2. OfArea(Append(s, e), area)
          = IF e.area = area THEN Append(OfArea(s, area), e) ELSE OfArea(s, area)
    BY OfAreaAppend
  <2>3. e.area = area => e \in V
    OBVIOUS
  <2>4. OfArea(s, area) \in Seq(V)
    BY <1>2
  <2>. HIDE DEF V
  <2>5. OfArea(Append(s, e), area) \in Seq(V)
    BY <2>2, <2>3, <2>4, AppendProperties
  <2>. QED BY <2>1, <2>5
<1>. HIDE DEF T
<1>3. \A q \in Seq(Jamo) : q \in T
  BY <1>1, <1>2, SeqInduct
<1>. QED BY <1>3 DEF T

LEMMA SpeltNone == Spelt(<<>>) = <<>>
<1>1. [i \in 1..Len(<<>>) |-> <<>>[i].letters] = <<>>
  OBVIOUS
<1>. QED BY <1>1, FlattenNone DEF Spelt

LEMMA SpeltMaps ==
  ASSUME NEW q \in Seq(Jamo), NEW jamo \in Jamo
  PROVE  /\ Spelt(q) \in Seq(Letter)
         /\ Spelt(Append(q, jamo)) = Spelt(q) \o jamo.letters
<1>. DEFINE f == [x \in Jamo |-> x.letters]
            more == Append(q, jamo)
<1>1. f \in [Jamo -> Seq(Letter)] /\ \A x \in Jamo : f[x] = x.letters
  BY DEF Jamo
<1>2. more \in Seq(Jamo)
  BY AppendProperties
<1>. HIDE DEF f, more
<1>3. ASSUME NEW s \in Seq(Jamo)
      PROVE  Spelt(s) = FlattenSeq([i \in 1..Len(s) |-> f[s[i]]])
  <2>1. \A i \in 1..Len(s) : s[i] \in Jamo
    OBVIOUS
  <2>2. \A i \in 1..Len(s) : f[s[i]] = s[i].letters
    BY <1>1, <2>1
  <2>3. [i \in 1..Len(s) |-> f[s[i]]] = [i \in 1..Len(s) |-> s[i].letters]
    BY <2>2
  <2>. QED BY <2>3 DEF Spelt
<1>4. /\ [i \in 1..Len(more) |-> f[more[i]]] = Append([i \in 1..Len(q) |-> f[q[i]]], f[jamo])
      /\ [i \in 1..Len(q) |-> f[q[i]]] \in Seq(Seq(Letter))
  BY <1>1, MappedAppend DEF more
<1>5. FlattenSeq([i \in 1..Len(q) |-> f[q[i]]]) \in Seq(Letter)
  BY <1>4, FlattenType
<1>6. f[jamo] \in Seq(Letter)
  BY <1>1
<1>7. FlattenSeq([i \in 1..Len(more) |-> f[more[i]]])
        = FlattenSeq([i \in 1..Len(q) |-> f[q[i]]]) \o f[jamo]
  BY <1>4, <1>6, FlattenAppend
<1>8. Spelt(more) = Spelt(q) \o f[jamo]
  BY <1>2, <1>3, <1>7
<1>9. Spelt(q) \in Seq(Letter)
  BY <1>3, <1>5
<1>. QED BY <1>1, <1>8, <1>9 DEF more

LEMMA SpeltAppend ==
  ASSUME NEW q \in Seq(Jamo), NEW jamo \in Jamo
  PROVE  Spelt(Append(q, jamo)) = Spelt(q) \o jamo.letters
BY SpeltMaps

LEMMA SpeltType ==
  ASSUME NEW q \in Seq(Jamo)
  PROVE  Spelt(q) \in Seq(Letter)
<1>1. CASE q = <<>>
  <2>1. Spelt(<<>>) \in Seq(Letter)
    <3>1. <<>> \in Seq(Letter)
      OBVIOUS
    <3>. QED BY <3>1, SpeltNone, Zenon
  <2>. QED BY <1>1, <2>1, Zenon
<1>2. CASE q # <<>>
  <2>1. PICK jamo \in Jamo : TRUE
    BY <1>2, HeadTailProperties
  <2>. QED BY <2>1, SpeltMaps
<1>. QED BY <1>1, <1>2

LEMMA SpeltOne ==
  ASSUME NEW jamo \in Jamo
  PROVE  Spelt(<<jamo>>) = jamo.letters
<1>1. <<jamo>> = Append(<<>>, jamo) /\ <<>> \in Seq(Jamo) /\ jamo.letters \in Seq(Letter)
  BY DEF Jamo
<1>2. Spelt(<<jamo>>) = <<>> \o jamo.letters
  BY <1>1, SpeltAppend, SpeltNone
<1>. QED BY <1>1, <1>2, ConcatEmptySeq

\* Every jamo has a letter.
LEMMA SpeltSome ==
  ASSUME NEW q \in Seq(Jamo), q # <<>>
  PROVE  Spelt(q) # <<>>
<1>1. PICK front \in Seq(Jamo), jamo \in Jamo : q = Append(front, jamo)
  BY SequenceEmptyOrAppend
<1>2. Spelt(q) = Spelt(front) \o jamo.letters
  BY <1>1, SpeltAppend
<1>3. Spelt(front) \in Seq(Letter) /\ jamo.letters \in Seq(Letter) /\ jamo.letters # <<>>
  BY SpeltType DEF Jamo
<1>. QED BY <1>2, <1>3, ConcatEqualIffEmpty

-----------------------------------------------------------------------------
(* The letters of a text of characters. *)

LEMMA LettersNone == Letters(<<>>) = <<>>
<1>1. [i \in 1..Len(<<>>) |-> <<>>[i]["cho"] \o <<>>[i]["jung"] \o <<>>[i]["jong"]] = <<>>
  OBVIOUS
<1>. QED BY <1>1, FlattenNone DEF Letters

LEMMA CharLetters ==
  ASSUME NEW c \in Char
  PROVE  c["cho"] \o c["jung"] \o c["jong"] \in Seq(Letter)
BY DEF Char, Areas

LEMMA LettersMaps ==
  ASSUME NEW s \in Seq(Char), NEW c \in Char
  PROVE  /\ Letters(s) \in Seq(Letter)
         /\ Letters(Append(s, c)) = Letters(s) \o (c["cho"] \o c["jung"] \o c["jong"])
<1>. DEFINE f == [x \in Char |-> x["cho"] \o x["jung"] \o x["jong"]]
            more == Append(s, c)
<1>1. f \in [Char -> Seq(Letter)] /\ \A x \in Char : f[x] = x["cho"] \o x["jung"] \o x["jong"]
  BY CharLetters
<1>2. more \in Seq(Char)
  BY AppendProperties
<1>. HIDE DEF f, more
<1>3. ASSUME NEW t \in Seq(Char)
      PROVE  Letters(t) = FlattenSeq([i \in 1..Len(t) |-> f[t[i]]])
  <2>1. \A i \in 1..Len(t) : t[i] \in Char
    OBVIOUS
  <2>2. \A i \in 1..Len(t) : f[t[i]] = t[i]["cho"] \o t[i]["jung"] \o t[i]["jong"]
    BY <1>1, <2>1
  <2>3. [i \in 1..Len(t) |-> f[t[i]]]
          = [i \in 1..Len(t) |-> t[i]["cho"] \o t[i]["jung"] \o t[i]["jong"]]
    BY <2>2
  <2>. QED BY <2>3 DEF Letters
<1>4. /\ [i \in 1..Len(more) |-> f[more[i]]] = Append([i \in 1..Len(s) |-> f[s[i]]], f[c])
      /\ [i \in 1..Len(s) |-> f[s[i]]] \in Seq(Seq(Letter))
  BY <1>1, MappedAppend DEF more
<1>5. FlattenSeq([i \in 1..Len(s) |-> f[s[i]]]) \in Seq(Letter)
  BY <1>4, FlattenType
<1>6. f[c] \in Seq(Letter)
  BY <1>1
<1>7. FlattenSeq([i \in 1..Len(more) |-> f[more[i]]])
        = FlattenSeq([i \in 1..Len(s) |-> f[s[i]]]) \o f[c]
  BY <1>4, <1>6, FlattenAppend
<1>8. Letters(more) = Letters(s) \o f[c]
  BY <1>2, <1>3, <1>7
<1>9. Letters(s) \in Seq(Letter)
  BY <1>3, <1>5
<1>. QED BY <1>1, <1>8, <1>9 DEF more

LEMMA LettersType ==
  ASSUME NEW s \in Seq(Char)
  PROVE  Letters(s) \in Seq(Letter)
<1>1. CASE s = <<>>
  <2>1. Letters(<<>>) \in Seq(Letter)
    <3>1. <<>> \in Seq(Letter)
      OBVIOUS
    <3>. QED BY <3>1, LettersNone, Zenon
  <2>. QED BY <1>1, <2>1, Zenon
<1>2. CASE s # <<>>
  <2>1. PICK c \in Char : TRUE
    BY <1>2, HeadTailProperties
  <2>. QED BY <2>1, LettersMaps
<1>. QED BY <1>1, <1>2

LEMMA LettersOne ==
  ASSUME NEW c \in Char
  PROVE  Letters(<<c>>) = c["cho"] \o c["jung"] \o c["jong"]
<1>1. <<c>> = Append(<<>>, c) /\ <<>> \in Seq(Char)
  OBVIOUS
<1>2. Letters(<<c>>) = <<>> \o (c["cho"] \o c["jung"] \o c["jong"])
  BY <1>1, LettersMaps, LettersNone
<1>. QED BY <1>2, CharLetters, ConcatEmptySeq

LEMMA LettersConcat ==
  ASSUME NEW s \in Seq(Char)
  PROVE  \A t \in Seq(Char) : Letters(s \o t) = Letters(s) \o Letters(t)
<1>. DEFINE T == {u \in Seq(Char) : Letters(s \o u) = Letters(s) \o Letters(u)}
<1>0. Letters(s) \in Seq(Letter)
  BY LettersType
<1>1. <<>> \in T
  <2>1. s \o <<>> = s /\ Letters(s) \o <<>> = Letters(s)
    BY <1>0, ConcatEmptySeq
  <2>2. <<>> \in Seq(Char)
    OBVIOUS
  <2>. QED BY <2>1, <2>2, LettersNone
<1>2. ASSUME NEW u \in Seq(Char), NEW c \in Char, u \in T PROVE Append(u, c) \in T
  <2>. DEFINE own == c["cho"] \o c["jung"] \o c["jong"]
  <2>0. Append(u, c) \in Seq(Char) /\ Letters(u) \in Seq(Letter) /\ s \o u \in Seq(Char)
    BY AppendProperties, LettersType, ConcatProperties
  <2>1. s \o Append(u, c) = Append(s \o u, c)
    <3>1. Append(u, c) = u \o <<c>> /\ Append(s \o u, c) = (s \o u) \o <<c>> /\ <<c>> \in Seq(Char)
      BY <2>0, AppendIsConcat
    <3>2. Regroups(s, u, <<c>>)
      BY <2>0, <3>1, RegroupedAny
    <3>. QED BY <3>1, <3>2 DEF Regroups
  <2>2. own \in Seq(Letter)
    BY CharLetters
  <2>3. Letters(Append(s \o u, c)) = Letters(s \o u) \o own /\ Letters(Append(u, c)) = Letters(u) \o own
    BY <2>0, LettersMaps
  <2>. HIDE DEF own
  <2>4. Letters(s \o u) = Letters(s) \o Letters(u)
    BY <1>2
  <2>5. (Letters(s) \o Letters(u)) \o own = Letters(s) \o (Letters(u) \o own)
    <3>1. Regroups(Letters(s), Letters(u), own)
      BY <1>0, <2>0, <2>2, RegroupedAny
    <3>. QED BY <3>1 DEF Regroups
  <2>6. Letters(s \o Append(u, c)) = Letters(s) \o Letters(Append(u, c))
    BY <2>1, <2>3, <2>4, <2>5
  <2>. QED BY <2>0, <2>6
<1>. HIDE DEF T
<1>3. \A u \in Seq(Char) : u \in T
  BY <1>1, <1>2, SeqInduct
<1>. QED BY <1>3 DEF T


-----------------------------------------------------------------------------
(* Characters. *)

LEMMA Regrouped ==
  ASSUME NEW x \in Seq(Letter), NEW y \in Seq(Letter), NEW z \in Seq(Letter)
  PROVE  x \o y \in Seq(Letter) /\ Regroups(x, y, z)
BY ConcatAssociative, ConcatProperties DEF Regroups

LEMMA RegroupedChars ==
  ASSUME NEW x \in Seq(Char), NEW y \in Seq(Char), NEW z \in Seq(Char)
  PROVE  x \o y \in Seq(Char) /\ Regroups(x, y, z)
BY ConcatAssociative, ConcatProperties DEF Regroups

LEMMA EmptyChar == Empty \in Char
BY DEF Empty, Char

LEMMA CharParts ==
  ASSUME NEW c \in Char
  PROVE  /\ c["cho"] \in Seq(Letter) /\ c["jung"] \in Seq(Letter) /\ c["jong"] \in Seq(Letter)
         /\ \A area \in Areas : c[area] \in Seq(Letter)
BY DEF Char, Areas

LEMMA CharEqual ==
  ASSUME NEW c \in Char, NEW d \in Char, \A area \in Areas : c[area] = d[area]
  PROVE  c = d
BY DEF Char

LEMMA OnlyLetters ==
  ASSUME NEW c \in Char, NEW area \in Areas
  PROVE  /\ Only(c, area) \in Char
         /\ Letters(<<Only(c, area)>>) = c[area]
<1>1. Only(c, area) \in Char
  <2>1. Empty \in Char /\ c[area] \in Seq(Letter)
    BY EmptyChar, CharParts
  <2>. QED BY <2>1 DEF Only, Char
<1>2. \A a \in Areas : Only(c, area)[a] = IF a = area THEN c[area] ELSE <<>>
  <2>1. Empty \in [Areas -> {<<>>}]
    BY DEF Empty
  <2>2. \A a \in Areas : [Empty EXCEPT ![area] = c[area]][a] = IF a = area THEN c[area] ELSE Empty[a]
    BY <2>1
  <2>3. \A a \in Areas : Empty[a] = <<>>
    BY DEF Empty
  <2>. QED BY <2>2, <2>3 DEF Only
<1>3. c[area] \in Seq(Letter)
  BY CharParts
<1>4. PICK x : x = c[area]
  OBVIOUS
<1>5. x \o <<>> = x /\ <<>> \o x = x /\ <<>> \o <<>> = <<>>
  BY <1>3, <1>4, ConcatEmptySeq
<1>6. Letters(<<Only(c, area)>>) = Only(c, area)["cho"] \o Only(c, area)["jung"] \o Only(c, area)["jong"]
  BY <1>1, LettersOne
<1>7. CASE area = "cho"
  <2>1. Only(c, area)["cho"] = x /\ Only(c, area)["jung"] = <<>> /\ Only(c, area)["jong"] = <<>>
    BY <1>2, <1>4, <1>7 DEF Areas
  <2>. QED BY <1>1, <1>4, <1>5, <1>6, <2>1
<1>8. CASE area = "jung"
  <2>1. Only(c, area)["cho"] = <<>> /\ Only(c, area)["jung"] = x /\ Only(c, area)["jong"] = <<>>
    BY <1>2, <1>4, <1>8 DEF Areas
  <2>. QED BY <1>1, <1>4, <1>5, <1>6, <2>1
<1>9. CASE area = "jong"
  <2>1. Only(c, area)["cho"] = <<>> /\ Only(c, area)["jung"] = <<>> /\ Only(c, area)["jong"] = x
    BY <1>2, <1>4, <1>9 DEF Areas
  <2>. QED BY <1>1, <1>4, <1>5, <1>6, <2>1
<1>. QED BY <1>7, <1>8, <1>9 DEF Areas

LEMMA CompleteType ==
  ASSUME NEW c \in Char
  PROVE  /\ Complete(c) \in Seq(Char)
         /\ Complete(c) # <<>> => Complete(c) = <<c>>
BY DEF Complete

\* What is shown of a character is its letters, whole or area by area.
LEMMA ShownLetters ==
  ASSUME NEW c \in Char
  PROVE  /\ Shown(c) \in Seq(Char)
         /\ Letters(Shown(c)) = c["cho"] \o c["jung"] \o c["jong"]
<1>. DEFINE part(area) == IF c[area] = <<>> THEN <<>> ELSE <<Only(c, area)>>
<1>1. ASSUME NEW area \in Areas
      PROVE  part(area) \in Seq(Char) /\ Letters(part(area)) = c[area]
  <2>1. CASE c[area] = <<>>
    <3>1. part(area) = <<>> /\ <<>> \in Seq(Char)
      BY <2>1
    <3>. QED BY <2>1, <3>1, LettersNone, Zenon
  <2>2. CASE c[area] # <<>>
    <3>1. part(area) = <<Only(c, area)>>
      BY <2>2
    <3>2. Only(c, area) \in Char /\ Letters(<<Only(c, area)>>) = c[area]
      BY OnlyLetters
    <3>3. <<Only(c, area)>> \in Seq(Char)
      BY <3>2
    <3>. QED BY <3>1, <3>2, <3>3
  <2>. QED BY <2>1, <2>2
<1>2. CASE Complete(c) # <<>>
  <2>1. Shown(c) = <<c>>
    BY <1>2, CompleteType DEF Shown
  <2>2. <<c>> \in Seq(Char)
    OBVIOUS
  <2>. QED BY <2>1, <2>2, LettersOne
<1>3. CASE Complete(c) = <<>>
  <2>1. Shown(c) = part("cho") \o part("jung") \o part("jong")
    BY <1>3 DEF Shown
  <2>. HIDE DEF part
  <2>2. /\ part("cho") \in Seq(Char) /\ part("jung") \in Seq(Char) /\ part("jong") \in Seq(Char)
        /\ Letters(part("cho")) = c["cho"] /\ Letters(part("jung")) = c["jung"]
        /\ Letters(part("jong")) = c["jong"]
    BY <1>1 DEF Areas
  <2>3. part("cho") \o part("jung") \in Seq(Char)
    BY <2>2, ConcatProperties
  <2>4. Letters(part("cho") \o part("jung")) = c["cho"] \o c["jung"]
    BY <2>2, LettersConcat
  <2>5. /\ (part("cho") \o part("jung")) \o part("jong") \in Seq(Char)
        /\ Letters((part("cho") \o part("jung")) \o part("jong")) = (c["cho"] \o c["jung"]) \o c["jong"]
    <3>1. Letters((part("cho") \o part("jung")) \o part("jong"))
            = Letters(part("cho") \o part("jung")) \o Letters(part("jong"))
      BY <2>2, <2>3, LettersConcat
    <3>. QED BY <2>2, <2>3, <2>4, <3>1, ConcatProperties
  <2>. QED BY <2>1, <2>5
<1>. QED BY <1>2, <1>3

LEMMA ShownNone ==
  ASSUME NEW c \in Char
  PROVE  Shown(c) = <<>> <=> c = Empty
<1>. DEFINE part(area) == IF c[area] = <<>> THEN <<>> ELSE <<Only(c, area)>>
<1>1. CASE c = Empty
  <2>1. \A area \in Areas : c[area] = <<>>
    BY <1>1 DEF Empty
  <2>2. Filled(c) = {}
    BY <2>1 DEF Filled
  <2>3. Cardinality({}) = 0
    BY FS_EmptySet
  <2>4. ~({"cho", "jung"} \subseteq {})
    OBVIOUS
  <2>5. Complete(c) = <<>>
    BY <2>2, <2>3, <2>4 DEF Complete
  <2>6. part("cho") = <<>> /\ part("jung") = <<>> /\ part("jong") = <<>>
    BY <2>1 DEF Areas
  <2>7. Shown(c) = part("cho") \o part("jung") \o part("jong")
    BY <2>5 DEF Shown
  <2>. QED BY <1>1, <2>6, <2>7
<1>2. CASE c # Empty
  <2>1. PICK area \in Areas : c[area] # <<>>
    <3>1. Empty \in Char /\ \A a \in Areas : Empty[a] = <<>>
      BY EmptyChar DEF Empty
    <3>. QED BY <1>2, <3>1, CharEqual
  <2>. SUFFICES ASSUME Shown(c) = <<>> PROVE FALSE
    BY <1>2
  <2>2. c["cho"] \o c["jung"] \o c["jong"] = <<>>
    BY ShownLetters, LettersNone
  <2>3. /\ c["cho"] \in Seq(Letter) /\ c["jung"] \in Seq(Letter) /\ c["jong"] \in Seq(Letter)
    BY CharParts
  <2>4. c["cho"] \o c["jung"] \in Seq(Letter)
    BY <2>3, ConcatProperties
  <2>5. c["cho"] \o c["jung"] = <<>> /\ c["jong"] = <<>>
    BY <2>2, <2>3, <2>4, ConcatEqualIffEmpty
  <2>6. c["cho"] = <<>> /\ c["jung"] = <<>>
    BY <2>3, <2>5, ConcatEqualIffEmpty
  <2>. QED BY <2>1, <2>5, <2>6 DEF Areas
<1>. QED BY <1>1, <1>2

-----------------------------------------------------------------------------
(* The operators of the composer keep contexts contexts. *)

Context ==
  [queue: Seq(Jamo), cur: Char, order: Seq(Jamo), word: BOOLEAN, buffer: Seq(Char),
   keys: Seq(Jamo), done: Seq(Char), out: Seq(Char)]

\* d differs from c in the composer only.
Apart(c, d) ==
  /\ d.order = c.order /\ d.word = c.word /\ d.buffer = c.buffer
  /\ d.keys = c.keys /\ d.out = c.out

\* The composer of d is that of c.
Same(c, d) == d.queue = c.queue /\ d.cur = c.cur

LEMMA ContextFields ==
  ASSUME NEW c \in Context
  PROVE  /\ c.queue \in Seq(Jamo) /\ c.cur \in Char /\ c.order \in Seq(Jamo)
         /\ c.word \in BOOLEAN /\ c.buffer \in Seq(Char) /\ c.keys \in Seq(Jamo)
         /\ c.done \in Seq(Char) /\ c.out \in Seq(Char)
BY DEF Context

LEMMA PlainType ==
  ASSUME NEW area \in Areas, NEW letters \in Seq(Letter) \ {<<>>}
  PROVE  Plain(area, letters) \in Jamo
BY DEF Plain, Jamo

LEMMA SeqParts ==
  ASSUME NEW V, NEW q \in Seq(V), q # <<>>
  PROVE  /\ Front(q) \in Seq(V) /\ Last(q) \in V /\ q = Append(Front(q), Last(q))
         /\ Len(q) \in Nat \ {0} /\ Len(Front(q)) = Len(q) - 1
<1>1. PICK s \in Seq(V), e \in V : q = Append(s, e)
  BY SequenceEmptyOrAppend
<1>2. Len(q) = Len(s) + 1 /\ Len(s) \in Nat /\ q[Len(q)] = e /\ \A i \in 1..Len(s) : q[i] = s[i]
  BY <1>1, AppendProperties
<1>3. Last(q) = e
  BY <1>2 DEF Last
<1>4. Front(q) = s
  <2>1. Front(q) = SubSeq(q, 1, Len(s))
    <3>1. Len(q) - 1 = Len(s)
      BY <1>2
    <3>. QED BY <3>1 DEF Front
  <2>2. \A i \in 1..Len(s) : q[i] \in V
    BY <1>2
  <2>3. /\ SubSeq(q, 1, Len(s)) \in Seq(V) /\ Len(SubSeq(q, 1, Len(s))) = Len(s)
        /\ \A i \in 1..Len(s) : SubSeq(q, 1, Len(s))[i] = q[i]
    <3>1. /\ SubSeq(q, 1, Len(s)) \in Seq(V)
          /\ Len(SubSeq(q, 1, Len(s))) = IF 1 <= Len(s) THEN Len(s) - 1 + 1 ELSE 0
          /\ \A i \in 1..(Len(s) - 1 + 1) : SubSeq(q, 1, Len(s))[i] = q[1 + i - 1]
      BY <1>2, <2>2, SubSeqProperties
    <3>2. Len(s) - 1 + 1 = Len(s) /\ \A i \in 1..Len(s) : 1 + i - 1 = i
      BY <1>2
    <3>. QED BY <1>2, <3>1, <3>2
  <2>4. SubSeq(q, 1, Len(s)) = s
    BY <1>2, <2>3, SeqEqual
  <2>. QED BY <2>1, <2>4
<1>. QED BY <1>1, <1>2, <1>3, <1>4

LEMMA AppendParts ==
  ASSUME NEW V, NEW s \in Seq(V), NEW e \in V
  PROVE  /\ Append(s, e) \in Seq(V) /\ Append(s, e) # <<>>
         /\ Front(Append(s, e)) = s /\ Last(Append(s, e)) = e
<1>1. Append(s, e) \in Seq(V) /\ Append(s, e) # <<>>
  BY AppendProperties
<1>2. PICK q : q = Append(s, e)
  OBVIOUS
<1>3. Front(q) \in Seq(V) /\ Last(q) \in V /\ q = Append(Front(q), Last(q))
  BY <1>1, <1>2, SeqParts
<1>4. Front(q) = s /\ Last(q) = e
  BY <1>2, <1>3, AppendInjective
<1>. QED BY <1>1, <1>2, <1>4

\* The cur of compose_korean.
LEMMA KoreanType ==
  ASSUME NEW l, NEW c \in Context
  PROVE  /\ ComposeKorean(l, c) \in Context /\ Apart(c, ComposeKorean(l, c))
         /\ ComposeKorean(l, c).queue = c.queue /\ ComposeKorean(l, c).done = c.done
         /\ \A area \in Areas :
              ComposeKorean(l, c).cur[area]
                = IF Combines(l, area, OfArea(c.queue, area)) THEN Spelt(OfArea(c.queue, area))
                  ELSE c.cur[area]
<1>. DEFINE cur == [area \in Areas |->
                      IF Combines(l, area, OfArea(c.queue, area)) THEN Spelt(OfArea(c.queue, area))
                      ELSE c.cur[area]]
<1>1. cur \in Char
  <2>1. \A area \in Areas : Spelt(OfArea(c.queue, area)) \in Seq(Letter)
    BY OfAreaType, SpeltType, ContextFields
  <2>2. \A area \in Areas : c.cur[area] \in Seq(Letter)
    BY ContextFields, CharParts
  <2>. QED BY <2>1, <2>2 DEF Char
<1>2. ComposeKorean(l, c) = [c EXCEPT !.cur = cur]
  BY DEF ComposeKorean
<1>3. \A area \in Areas :
        cur[area] = IF Combines(l, area, OfArea(c.queue, area)) THEN Spelt(OfArea(c.queue, area))
                    ELSE c.cur[area]
  OBVIOUS
<1>. HIDE DEF cur
<1>4. /\ [c EXCEPT !.cur = cur] \in Context /\ [c EXCEPT !.cur = cur].cur = cur
      /\ [c EXCEPT !.cur = cur].queue = c.queue /\ [c EXCEPT !.cur = cur].done = c.done
      /\ Apart(c, [c EXCEPT !.cur = cur])
  BY <1>1 DEF Context, Apart
<1>. QED BY <1>2, <1>3, <1>4

LEMMA KoreanSame ==
  ASSUME NEW l, NEW c \in Context, NEW d \in Context, Same(c, d)
  PROVE  Same(ComposeKorean(l, c), ComposeKorean(l, d))
<1>1. ComposeKorean(l, c) \in Context /\ ComposeKorean(l, d) \in Context
  BY KoreanType
<1>2. ComposeKorean(l, c).cur \in Char /\ ComposeKorean(l, d).cur \in Char
  BY <1>1, ContextFields
<1>3. \A area \in Areas : ComposeKorean(l, c).cur[area] = ComposeKorean(l, d).cur[area]
  BY KoreanType DEF Same
<1>4. ComposeKorean(l, c).cur = ComposeKorean(l, d).cur
  BY <1>2, <1>3, CharEqual
<1>. QED BY <1>4, KoreanType DEF Same

LEMMA ComposeType ==
  ASSUME NEW l, NEW c \in Context
  PROVE  /\ Compose(l, c) \in Context /\ Apart(c, Compose(l, c))
         /\ Compose(l, c).queue = c.queue /\ Compose(l, c).done = c.done
BY KoreanType DEF Compose, Apart

LEMMA ViolatesSame ==
  ASSUME NEW l, NEW c \in Context, NEW d \in Context, Same(c, d)
  PROVE  /\ Violates(l, c) <=> Violates(l, d)
         /\ Fits(l, c) <=> Fits(l, d)
<1>1. Violates(l, c) <=> Violates(l, d)
  BY DEF Violates, Same
<1>. QED BY <1>1 DEF Fits, Same

LEMMA ComposeSame ==
  ASSUME NEW l, NEW c \in Context, NEW d \in Context, Same(c, d)
  PROVE  Same(Compose(l, c), Compose(l, d))
BY KoreanSame, ViolatesSame DEF Compose


LEMMA ApartTrans ==
  ASSUME NEW c, NEW d, NEW e, Apart(c, d), Apart(d, e)
  PROVE  Apart(c, e)
BY DEF Apart

LEMMA QueueSet ==
  ASSUME NEW c \in Context, NEW q \in Seq(Jamo)
  PROVE  /\ [c EXCEPT !.queue = q] \in Context /\ Apart(c, [c EXCEPT !.queue = q])
         /\ [c EXCEPT !.queue = q].queue = q /\ [c EXCEPT !.queue = q].cur = c.cur
         /\ [c EXCEPT !.queue = q].done = c.done
BY DEF Context, Apart

(* add_jamo_with, in the steps it takes. *)

Pushed(c, jamo) == [c EXCEPT !.queue = Append(@, jamo), !.done = <<>>]
Retried(l, c, jamo) == [Compose(l, Pushed(c, jamo)) EXCEPT !.queue = c.queue]
Kept(l, c, jamo)  == Compose(l, Retried(l, c, jamo))
Begun(l, c, jamo) ==
  [Kept(l, c, jamo) EXCEPT !.queue = <<jamo>>, !.cur = Empty,
                           !.done = Complete(Kept(l, c, jamo).cur)]

LEMMA AddSteps ==
  ASSUME NEW l, NEW c, NEW jamo
  PROVE  AddJamoWith(l, c, jamo)
           = IF Fits(l, Pushed(c, jamo)) THEN Compose(l, Pushed(c, jamo))
             ELSE Compose(l, Begun(l, c, jamo))
BY DEF AddJamoWith, Pushed, Retried, Kept, Begun

LEMMA PushedType ==
  ASSUME NEW c \in Context, NEW jamo \in Jamo
  PROVE  /\ Pushed(c, jamo) \in Context /\ Apart(c, Pushed(c, jamo))
         /\ Pushed(c, jamo).queue = Append(c.queue, jamo)
         /\ Pushed(c, jamo).cur = c.cur /\ Pushed(c, jamo).done = <<>>
<1>1. Append(c.queue, jamo) \in Seq(Jamo)
  BY ContextFields, AppendProperties
<1>2. PICK q \in Seq(Jamo) : q = Append(c.queue, jamo)
  BY <1>1
<1>3. PICK none \in Seq(Char) : none = <<>>
  <2>1. <<>> \in Seq(Char)
    OBVIOUS
  <2>. QED BY <2>1
<1>4. Pushed(c, jamo) = [c EXCEPT !.queue = q, !.done = none]
  BY <1>2, <1>3 DEF Pushed
<1>5. /\ [c EXCEPT !.queue = q, !.done = none] \in Context
      /\ Apart(c, [c EXCEPT !.queue = q, !.done = none])
      /\ [c EXCEPT !.queue = q, !.done = none].queue = q
      /\ [c EXCEPT !.queue = q, !.done = none].cur = c.cur
      /\ [c EXCEPT !.queue = q, !.done = none].done = none
  BY DEF Context, Apart
<1>. QED BY <1>2, <1>3, <1>4, <1>5

LEMMA KeptType ==
  ASSUME NEW l, NEW c \in Context, NEW jamo \in Jamo
  PROVE  /\ Retried(l, c, jamo) \in Context /\ Apart(c, Retried(l, c, jamo))
         /\ Retried(l, c, jamo).queue = c.queue
         /\ Retried(l, c, jamo).cur = Compose(l, Pushed(c, jamo)).cur
         /\ Kept(l, c, jamo) \in Context /\ Apart(c, Kept(l, c, jamo))
         /\ Kept(l, c, jamo).queue = c.queue
<1>1. PICK p : p = Compose(l, Pushed(c, jamo))
  OBVIOUS
<1>2. p \in Context /\ Apart(c, p)
  BY <1>1, PushedType, ComposeType, ApartTrans
<1>3. c.queue \in Seq(Jamo)
  BY ContextFields
<1>4. /\ Retried(l, c, jamo) \in Context /\ Apart(p, Retried(l, c, jamo))
      /\ Retried(l, c, jamo).queue = c.queue /\ Retried(l, c, jamo).cur = p.cur
  BY <1>1, <1>2, <1>3, QueueSet DEF Retried
<1>5. Apart(c, Retried(l, c, jamo))
  BY <1>2, <1>4, ApartTrans
<1>6. /\ Kept(l, c, jamo) \in Context /\ Apart(c, Kept(l, c, jamo))
      /\ Kept(l, c, jamo).queue = c.queue
  BY <1>4, <1>5, ComposeType, ApartTrans DEF Kept
<1>. QED BY <1>1, <1>4, <1>5, <1>6

LEMMA BegunType ==
  ASSUME NEW l, NEW c \in Context, NEW jamo \in Jamo
  PROVE  /\ Begun(l, c, jamo) \in Context /\ Apart(c, Begun(l, c, jamo))
         /\ Begun(l, c, jamo).queue = <<jamo>> /\ Begun(l, c, jamo).cur = Empty
         /\ Begun(l, c, jamo).done = Complete(Kept(l, c, jamo).cur)
<1>1. PICK k : k = Kept(l, c, jamo)
  OBVIOUS
<1>2. k \in Context /\ Apart(c, k)
  BY <1>1, KeptType
<1>3. <<jamo>> \in Seq(Jamo) /\ Empty \in Char /\ Complete(k.cur) \in Seq(Char)
  BY <1>2, EmptyChar, CompleteType, ContextFields
<1>4. PICK q \in Seq(Jamo) : q = <<jamo>>
  BY <1>3
<1>5. PICK done \in Seq(Char) : done = Complete(k.cur)
  BY <1>3
<1>6. PICK b : b = [k EXCEPT !.queue = q, !.cur = Empty, !.done = done]
  OBVIOUS
<1>7. b \in Context /\ Apart(k, b) /\ b.queue = q /\ b.cur = Empty /\ b.done = done
  BY <1>2, <1>3, <1>6 DEF Context, Apart
<1>8. Begun(l, c, jamo) = b
  BY <1>1, <1>4, <1>5, <1>6 DEF Begun
<1>. QED BY <1>1, <1>2, <1>4, <1>5, <1>7, <1>8, ApartTrans

LEMMA AddType ==
  ASSUME NEW l, NEW c \in Context, NEW jamo \in Jamo
  PROVE  AddJamoWith(l, c, jamo) \in Context /\ Apart(c, AddJamoWith(l, c, jamo))
<1>1. /\ Compose(l, Pushed(c, jamo)) \in Context
      /\ Apart(c, Compose(l, Pushed(c, jamo)))
  BY PushedType, ComposeType, ApartTrans
<1>2. /\ Compose(l, Begun(l, c, jamo)) \in Context
      /\ Apart(c, Compose(l, Begun(l, c, jamo)))
  BY BegunType, ComposeType, ApartTrans
<1>. QED BY <1>1, <1>2, AddSteps

LEMMA AddSame ==
  ASSUME NEW l, NEW c \in Context, NEW d \in Context, Same(c, d), NEW jamo \in Jamo
  PROVE  /\ Same(AddJamoWith(l, c, jamo), AddJamoWith(l, d, jamo))
         /\ AddJamoWith(l, d, jamo).done = AddJamoWith(l, c, jamo).done
<1>0. c.queue = d.queue /\ c.cur = d.cur
  BY DEF Same
<1>a. PICK p : p = Pushed(c, jamo)
  OBVIOUS
<1>b. PICK r : r = Pushed(d, jamo)
  OBVIOUS
<1>c. /\ p \in Context /\ p.queue = Append(c.queue, jamo) /\ p.cur = c.cur /\ p.done = <<>>
      /\ r \in Context /\ r.queue = Append(d.queue, jamo) /\ r.cur = d.cur /\ r.done = <<>>
  BY <1>a, <1>b, PushedType
<1>1. p \in Context /\ r \in Context /\ Same(p, r)
  BY <1>0, <1>c DEF Same
<1>2. Same(Compose(l, Pushed(c, jamo)), Compose(l, Pushed(d, jamo)))
  BY <1>1, <1>a, <1>b, ComposeSame
<1>3. Fits(l, Pushed(c, jamo)) <=> Fits(l, Pushed(d, jamo))
  BY <1>1, <1>a, <1>b, ViolatesSame
<1>4. Same(Retried(l, c, jamo), Retried(l, d, jamo))
  BY <1>2, KeptType DEF Same
<1>5. Same(Kept(l, c, jamo), Kept(l, d, jamo))
  BY <1>4, KeptType, ComposeSame DEF Kept
<1>d. PICK b : b = Begun(l, c, jamo)
  OBVIOUS
<1>e. PICK t : t = Begun(l, d, jamo)
  OBVIOUS
<1>f. Kept(l, c, jamo).cur = Kept(l, d, jamo).cur
  BY <1>5 DEF Same
<1>g. b \in Context /\ b.queue = <<jamo>> /\ b.cur = Empty /\ b.done = Complete(Kept(l, c, jamo).cur)
  BY <1>d, BegunType
<1>h. t \in Context /\ t.queue = <<jamo>> /\ t.cur = Empty /\ t.done = Complete(Kept(l, d, jamo).cur)
  BY <1>e, BegunType
<1>6. b \in Context /\ t \in Context /\ Same(b, t) /\ b.done = t.done
  BY <1>f, <1>g, <1>h DEF Same
<1>7. Same(Compose(l, Begun(l, c, jamo)), Compose(l, Begun(l, d, jamo)))
  BY <1>6, <1>d, <1>e, ComposeSame
<1>8. Compose(l, Begun(l, d, jamo)).done = Compose(l, Begun(l, c, jamo)).done
  <2>1. Compose(l, b).done = b.done /\ Compose(l, t).done = t.done
    BY <1>6, ComposeType
  <2>. QED BY <1>6, <1>d, <1>e, <2>1
<1>9. Compose(l, Pushed(d, jamo)).done = Compose(l, Pushed(c, jamo)).done
  <2>1. Compose(l, p).done = p.done /\ Compose(l, r).done = r.done
    BY <1>1, ComposeType
  <2>. QED BY <1>a, <1>b, <1>c, <2>1
<1>. QED BY <1>2, <1>3, <1>7, <1>8, <1>9, AddSteps

LEMMA ForceType ==
  ASSUME NEW l, NEW c \in Context
  PROVE  /\ ForceCompose(l, c) \in Context /\ Apart(c, ForceCompose(l, c))
         /\ ForceCompose(l, c).queue = <<>>
         /\ ForceCompose(l, c).done
              = IF c.queue = <<>> THEN <<>> ELSE Complete(ComposeKorean(l, c).cur)
<1>1. CASE c.queue = <<>>
  BY <1>1 DEF ForceCompose, Context, Apart
<1>2. CASE c.queue # <<>>
  <2>1. PICK done : done = Complete(ComposeKorean(l, c).cur)
    OBVIOUS
  <2>2. done \in Seq(Char)
    BY <2>1, KoreanType, ContextFields, CompleteType
  <2>3. <<>> \in Seq(Jamo) /\ Empty \in Char
    BY EmptyChar
  <2>4. ForceCompose(l, c) = [c EXCEPT !.done = done, !.queue = <<>>, !.cur = Empty]
    BY <1>2, <2>1 DEF ForceCompose
  <2>5. [c EXCEPT !.done = done, !.queue = <<>>, !.cur = Empty]
          = [c EXCEPT !.queue = <<>>, !.cur = Empty, !.done = done]
    BY DEF Context
  <2>6. PICK f : f = [c EXCEPT !.queue = <<>>, !.cur = Empty, !.done = done]
    OBVIOUS
  <2>7. f \in Context /\ Apart(c, f) /\ f.queue = <<>> /\ f.done = done
    BY <2>2, <2>3, <2>6 DEF Context, Apart
  <2>. QED BY <1>2, <2>1, <2>4, <2>5, <2>6, <2>7
<1>. QED BY <1>1, <1>2

LEMMA ForceSame ==
  ASSUME NEW l, NEW c \in Context, NEW d \in Context, Same(c, d)
  PROVE  /\ Same(ForceCompose(l, c), ForceCompose(l, d))
         /\ ForceCompose(l, d).done = ForceCompose(l, c).done
<1>1. Same(ComposeKorean(l, c), ComposeKorean(l, d))
  BY KoreanSame
<1>2. ForceCompose(l, d).done = ForceCompose(l, c).done
  BY <1>1, ForceType DEF Same
<1>3. CASE c.queue = <<>>
  <2>1. ForceCompose(l, c).cur = c.cur /\ ForceCompose(l, d).cur = d.cur
    BY <1>3 DEF ForceCompose, Same, Context
  <2>. QED BY <1>2, <2>1, ForceType DEF Same
<1>4. CASE c.queue # <<>>
  <2>1. ForceCompose(l, c).cur = Empty /\ ForceCompose(l, d).cur = Empty
    BY <1>4 DEF ForceCompose, Same, Context
  <2>. QED BY <1>2, <2>1, ForceType DEF Same
<1>. QED BY <1>3, <1>4

LEMMA FrontSet ==
  ASSUME NEW c \in Context, c.queue # <<>>
  PROVE  /\ [c EXCEPT !.queue = Front(@)] \in Context
         /\ Apart(c, [c EXCEPT !.queue = Front(@)])
         /\ [c EXCEPT !.queue = Front(@)].queue = Front(c.queue)
         /\ [c EXCEPT !.queue = Front(@)].cur = c.cur
         /\ [c EXCEPT !.queue = Front(@)].done = c.done
<1>1. PICK q \in Seq(Jamo) : q = Front(c.queue)
  BY ContextFields, SeqParts
<1>2. [c EXCEPT !.queue = Front(@)] = [c EXCEPT !.queue = q]
  BY <1>1
<1>. QED BY <1>1, <1>2, QueueSet

LEMMA RemoveType ==
  ASSUME NEW l, NEW c \in Context
  PROVE  /\ RemoveJamo(l, c) \in Context /\ Apart(c, RemoveJamo(l, c))
         /\ RemoveJamo(l, c).done = c.done
         /\ RemoveJamo(l, c).queue = IF c.queue = <<>> THEN <<>> ELSE Front(c.queue)
<1>1. CASE c.queue = <<>>
  BY <1>1 DEF RemoveJamo, Apart
<1>2. CASE c.queue # <<>>
  <2>1. PICK f : f = [c EXCEPT !.queue = Front(@)]
    OBVIOUS
  <2>2. f \in Context /\ Apart(c, f) /\ f.queue = Front(c.queue) /\ f.done = c.done
    BY <1>2, <2>1, FrontSet
  <2>3. RemoveJamo(l, c) = ComposeKorean(l, f)
    BY <1>2, <2>1 DEF RemoveJamo
  <2>4. /\ ComposeKorean(l, f) \in Context /\ Apart(f, ComposeKorean(l, f))
        /\ ComposeKorean(l, f).queue = f.queue /\ ComposeKorean(l, f).done = f.done
    BY <2>2, KoreanType
  <2>. QED BY <1>2, <2>2, <2>3, <2>4, ApartTrans
<1>. QED BY <1>1, <1>2

\* The steps of handle_dokkaebi_effect.
Before(l, c) == ForceCompose(l, [c EXCEPT !.queue = Front(@)])
Moved(l, c)  == AddJamoWith(l, Before(l, c), Plain("cho", Last(c.queue).letters))

LEMMA MovedType ==
  ASSUME NEW l, NEW c \in Context, c.queue # <<>>
  PROVE  /\ Before(l, c) \in Context /\ Apart(c, Before(l, c))
         /\ Before(l, c).queue = <<>>
         /\ Plain("cho", Last(c.queue).letters) \in Jamo
         /\ Moved(l, c) \in Context /\ Apart(c, Moved(l, c))
<1>1. /\ Before(l, c) \in Context /\ Apart(c, Before(l, c)) /\ Before(l, c).queue = <<>>
  BY FrontSet, ForceType, ApartTrans DEF Before
<1>2. Last(c.queue) \in Jamo
  BY ContextFields, SeqParts
<1>3. Last(c.queue).letters \in Seq(Letter) \ {<<>>}
  BY <1>2 DEF Jamo
<1>4. Plain("cho", Last(c.queue).letters) \in Jamo
  BY <1>3, PlainType DEF Areas
<1>5. Moved(l, c) \in Context /\ Apart(c, Moved(l, c))
  BY <1>1, <1>4, AddType, ApartTrans DEF Moved
<1>. QED BY <1>1, <1>4, <1>5

LEMMA VowelType ==
  ASSUME NEW jamo \in Jamo, NEW area \in Areas
  PROVE  Plain(area, jamo.letters) \in Jamo
<1>1. jamo.letters \in Seq(Letter) \ {<<>>}
  BY DEF Jamo
<1>. QED BY <1>1, PlainType

LEMMA MoveSteps ==
  ASSUME NEW l, NEW c, NEW jamo
  PROVE  MoveJong(l, c, jamo)
           = IF Len(Last(c.queue).letters) > 1 THEN AddJamoWith(l, Before(l, c), jamo)
             ELSE [AddJamoWith(l, Moved(l, c), Plain("jung", jamo.letters))
                     EXCEPT !.done = Before(l, c).done]
BY DEF MoveJong, Before, Moved

LEMMA DoneSet ==
  ASSUME NEW c \in Context, NEW done \in Seq(Char)
  PROVE  /\ [c EXCEPT !.done = done] \in Context /\ Apart(c, [c EXCEPT !.done = done])
         /\ [c EXCEPT !.done = done].queue = c.queue /\ [c EXCEPT !.done = done].cur = c.cur
         /\ [c EXCEPT !.done = done].done = done
BY DEF Context, Apart

LEMMA MoveType ==
  ASSUME NEW l, NEW c \in Context, c.queue # <<>>, NEW jamo \in Jamo
  PROVE  MoveJong(l, c, jamo) \in Context /\ Apart(c, MoveJong(l, c, jamo))
<1>1. /\ AddJamoWith(l, Before(l, c), jamo) \in Context
      /\ Apart(c, AddJamoWith(l, Before(l, c), jamo))
  BY MovedType, AddType, ApartTrans
<1>2. Plain("jung", jamo.letters) \in Jamo
  BY VowelType DEF Areas
<1>3. PICK d : d = AddJamoWith(l, Moved(l, c), Plain("jung", jamo.letters))
  OBVIOUS
<1>4. d \in Context /\ Apart(c, d)
  BY <1>2, <1>3, MovedType, AddType, ApartTrans
<1>5. Before(l, c).done \in Seq(Char)
  BY MovedType, ContextFields
<1>6. [d EXCEPT !.done = Before(l, c).done] \in Context /\ Apart(c, [d EXCEPT !.done = Before(l, c).done])
  BY <1>4, <1>5, DoneSet, ApartTrans
<1>. QED BY <1>1, <1>3, <1>6, MoveSteps

LEMMA MoveSame ==
  ASSUME NEW l, NEW c \in Context, NEW d \in Context, Same(c, d), c.queue # <<>>, NEW jamo \in Jamo
  PROVE  /\ Same(MoveJong(l, c, jamo), MoveJong(l, d, jamo))
         /\ MoveJong(l, d, jamo).done = MoveJong(l, c, jamo).done
<1>0. d.queue = c.queue /\ d.queue # <<>>
  BY DEF Same
<1>1. Same([c EXCEPT !.queue = Front(@)], [d EXCEPT !.queue = Front(@)])
  BY <1>0, FrontSet DEF Same
<1>2. Same(Before(l, c), Before(l, d)) /\ Before(l, d).done = Before(l, c).done
  BY <1>0, <1>1, FrontSet, ForceSame DEF Before
<1>3. /\ Same(AddJamoWith(l, Before(l, c), jamo), AddJamoWith(l, Before(l, d), jamo))
      /\ AddJamoWith(l, Before(l, d), jamo).done = AddJamoWith(l, Before(l, c), jamo).done
  BY <1>0, <1>2, MovedType, AddSame
<1>4. Same(Moved(l, c), Moved(l, d))
  BY <1>0, <1>2, MovedType, AddSame DEF Moved
<1>5. Plain("jung", jamo.letters) \in Jamo
  BY VowelType DEF Areas
<1>6. PICK e : e = AddJamoWith(l, Moved(l, c), Plain("jung", jamo.letters))
  OBVIOUS
<1>7. PICK f : f = AddJamoWith(l, Moved(l, d), Plain("jung", jamo.letters))
  OBVIOUS
<1>8. Same(e, f) /\ e \in Context /\ f \in Context
  BY <1>0, <1>4, <1>5, <1>6, <1>7, MovedType, AddSame, AddType
<1>9. Before(l, c).done \in Seq(Char)
  BY MovedType, ContextFields
<1>10. /\ Same([e EXCEPT !.done = Before(l, c).done], [f EXCEPT !.done = Before(l, d).done])
       /\ [f EXCEPT !.done = Before(l, d).done].done = [e EXCEPT !.done = Before(l, c).done].done
  BY <1>2, <1>8, <1>9, DoneSet DEF Same
<1>. QED BY <1>0, <1>3, <1>6, <1>7, <1>10, MoveSteps


LEMMA Add2Type ==
  ASSUME NEW l, NEW c \in Context, NEW jamo \in Jamo
  PROVE  Add2Bul(l, c, jamo) \in Context /\ Apart(c, Add2Bul(l, c, jamo))
<1>1. /\ AddJamoWith(l, c, Plain("jong", jamo.letters)) \in Context
      /\ Apart(c, AddJamoWith(l, c, Plain("jong", jamo.letters)))
  <2>1. Plain("jong", jamo.letters) \in Jamo
    BY VowelType DEF Areas
  <2>. QED BY <2>1, AddType
<1>2. AddJamoWith(l, c, jamo) \in Context /\ Apart(c, AddJamoWith(l, c, jamo))
  BY AddType
<1>3. Dokkaebi(c, jamo) => MoveJong(l, c, jamo) \in Context /\ Apart(c, MoveJong(l, c, jamo))
  BY MoveType DEF Dokkaebi
<1>4. \/ Add2Bul(l, c, jamo) = AddJamoWith(l, c, Plain("jong", jamo.letters))
      \/ Dokkaebi(c, jamo) /\ Add2Bul(l, c, jamo) = MoveJong(l, c, jamo)
      \/ Add2Bul(l, c, jamo) = AddJamoWith(l, c, jamo)
  BY DEF Add2Bul
<1>. QED BY <1>1, <1>2, <1>3, <1>4

LEMMA Add2Same ==
  ASSUME NEW l, NEW c \in Context, NEW d \in Context, Same(c, d), NEW jamo \in Jamo
  PROVE  /\ Same(Add2Bul(l, c, jamo), Add2Bul(l, d, jamo))
         /\ Add2Bul(l, d, jamo).done = Add2Bul(l, c, jamo).done
<1>1. BecomesJong(c, jamo) <=> BecomesJong(d, jamo)
  BY DEF BecomesJong, Same
<1>2. Dokkaebi(c, jamo) <=> Dokkaebi(d, jamo)
  BY DEF Dokkaebi, Same
<1>3. CASE BecomesJong(c, jamo)
  <2>1. Plain("jong", jamo.letters) \in Jamo
    BY VowelType DEF Areas
  <2>2. /\ Add2Bul(l, c, jamo) = AddJamoWith(l, c, Plain("jong", jamo.letters))
        /\ Add2Bul(l, d, jamo) = AddJamoWith(l, d, Plain("jong", jamo.letters))
    <3>1. ~Dokkaebi(c, jamo)
      BY <1>3 DEF BecomesJong, Dokkaebi
    <3>. QED BY <1>1, <1>2, <1>3, <3>1 DEF Add2Bul
  <2>. QED BY <2>1, <2>2, AddSame
<1>4. CASE ~BecomesJong(c, jamo) /\ Dokkaebi(c, jamo)
  <2>1. Add2Bul(l, c, jamo) = MoveJong(l, c, jamo) /\ Add2Bul(l, d, jamo) = MoveJong(l, d, jamo)
    BY <1>1, <1>2, <1>4 DEF Add2Bul
  <2>2. c.queue # <<>>
    BY <1>4 DEF Dokkaebi
  <2>. QED BY <2>1, <2>2, MoveSame
<1>5. CASE ~BecomesJong(c, jamo) /\ ~Dokkaebi(c, jamo)
  <2>1. Add2Bul(l, c, jamo) = AddJamoWith(l, c, jamo) /\ Add2Bul(l, d, jamo) = AddJamoWith(l, d, jamo)
    BY <1>1, <1>2, <1>5 DEF Add2Bul
  <2>. QED BY <2>1, AddSame
<1>. QED BY <1>3, <1>4, <1>5

\* The jamo that stands in front of the one before it, and what it becomes.
Fronted(c, jamo) == [jamo EXCEPT !.letters = jamo.letters \o c.cur[jamo.area]]

LEMMA FrontedType ==
  ASSUME NEW c \in Context, NEW jamo \in Jamo
  PROVE  /\ jamo.area \in Areas /\ jamo.letters \in Seq(Letter) \ {<<>>}
         /\ jamo.letters \o c.cur[jamo.area] \in Seq(Letter) \ {<<>>}
         /\ Fronted(c, jamo) \in Jamo /\ Fronted(c, jamo).area = jamo.area
         /\ Fronted(c, jamo).letters = jamo.letters \o c.cur[jamo.area]
<1>1. jamo.area \in Areas /\ jamo.letters \in Seq(Letter) \ {<<>>}
  BY DEF Jamo
<1>2. c.cur[jamo.area] \in Seq(Letter)
  BY <1>1, ContextFields, CharParts
<1>3. PICK new : new = jamo.letters \o c.cur[jamo.area]
  OBVIOUS
<1>4. new \in Seq(Letter) \ {<<>>}
  BY <1>1, <1>2, <1>3, ConcatProperties, ConcatEqualIffEmpty
<1>5. [jamo EXCEPT !.letters = new] \in Jamo /\ [jamo EXCEPT !.letters = new].area = jamo.area
      /\ [jamo EXCEPT !.letters = new].letters = new
  BY <1>4 DEF Jamo
<1>. QED BY <1>1, <1>3, <1>4, <1>5 DEF Fronted

LEMMA BackwardType ==
  ASSUME NEW c \in Context, NEW jamo \in Jamo, c.queue # <<>>
  PROVE  /\ CombineBackward(c, jamo) \in Context /\ Apart(c, CombineBackward(c, jamo))
         /\ CombineBackward(c, jamo).queue = Append(Front(c.queue), Fronted(c, jamo))
         /\ CombineBackward(c, jamo).done = <<>>
         /\ \A area \in Areas :
              CombineBackward(c, jamo).cur[area]
                = IF area = jamo.area THEN jamo.letters \o c.cur[area] ELSE c.cur[area]
<1>1. PICK new : new = jamo.letters \o c.cur[jamo.area]
  OBVIOUS
<1>2. new \in Seq(Letter) /\ jamo.area \in Areas
  BY <1>1, FrontedType
<1>3. PICK q \in Seq(Jamo) : q = Append(Front(c.queue), Fronted(c, jamo))
  BY ContextFields, SeqParts, FrontedType, AppendProperties
<1>4. PICK cur : cur = [c.cur EXCEPT ![jamo.area] = new]
  OBVIOUS
<1>5. c.cur \in [Areas -> Seq(Letter)]
  BY ContextFields DEF Char
<1>6. cur \in Char /\ \A area \in Areas : cur[area] = IF area = jamo.area THEN new ELSE c.cur[area]
  BY <1>2, <1>4, <1>5 DEF Char
<1>7. PICK none \in Seq(Char) : none = <<>>
  <2>1. <<>> \in Seq(Char)
    OBVIOUS
  <2>. QED BY <2>1
<1>8. PICK b : b = [c EXCEPT !.queue = q, !.cur = cur, !.done = none]
  OBVIOUS
<1>9. CombineBackward(c, jamo) = b
  BY <1>1, <1>3, <1>4, <1>7, <1>8 DEF CombineBackward, Fronted
<1>10. b \in Context /\ Apart(c, b) /\ b.queue = q /\ b.cur = cur /\ b.done = none
  BY <1>6, <1>8 DEF Context, Apart
<1>. QED BY <1>1, <1>3, <1>6, <1>7, <1>9, <1>10

LEMMA Add3Type ==
  ASSUME NEW l, NEW c \in Context, NEW jamo \in Jamo
  PROVE  Add3Bul(l, c, jamo) \in Context /\ Apart(c, Add3Bul(l, c, jamo))
<1>1. CASE CombinesBackward(l, c, jamo)
  <2>1. c.queue # <<>> /\ Add3Bul(l, c, jamo) = CombineBackward(c, jamo)
    BY <1>1 DEF Add3Bul, CombinesBackward
  <2>. QED BY <2>1, BackwardType
<1>2. CASE ~CombinesBackward(l, c, jamo)
  <2>1. Add3Bul(l, c, jamo) = AddJamoWith(l, c, jamo)
    BY <1>2 DEF Add3Bul
  <2>. QED BY <2>1, AddType
<1>. QED BY <1>1, <1>2

LEMMA Add3Same ==
  ASSUME NEW l, NEW c \in Context, NEW d \in Context, Same(c, d), NEW jamo \in Jamo
  PROVE  /\ Same(Add3Bul(l, c, jamo), Add3Bul(l, d, jamo))
         /\ Add3Bul(l, d, jamo).done = Add3Bul(l, c, jamo).done
<1>1. CombinesBackward(l, c, jamo) <=> CombinesBackward(l, d, jamo)
  BY DEF CombinesBackward, Same
<1>2. CASE CombinesBackward(l, c, jamo)
  <2>1. /\ Add3Bul(l, c, jamo) = CombineBackward(c, jamo)
        /\ Add3Bul(l, d, jamo) = CombineBackward(d, jamo)
    BY <1>1, <1>2 DEF Add3Bul
  <2>2. c.queue # <<>> /\ d.queue # <<>> /\ c.queue = d.queue /\ c.cur = d.cur
    BY <1>2 DEF CombinesBackward, Same
  <2>3. Fronted(c, jamo) = Fronted(d, jamo)
    BY <2>2 DEF Fronted
  <2>4. PICK e : e = CombineBackward(c, jamo)
    OBVIOUS
  <2>5. PICK f : f = CombineBackward(d, jamo)
    OBVIOUS
  <2>6. /\ e \in Context /\ e.queue = Append(Front(c.queue), Fronted(c, jamo)) /\ e.done = <<>>
        /\ \A area \in Areas :
             e.cur[area] = IF area = jamo.area THEN jamo.letters \o c.cur[area] ELSE c.cur[area]
    BY <2>2, <2>4, BackwardType
  <2>7. /\ f \in Context /\ f.queue = Append(Front(d.queue), Fronted(d, jamo)) /\ f.done = <<>>
        /\ \A area \in Areas :
             f.cur[area] = IF area = jamo.area THEN jamo.letters \o d.cur[area] ELSE d.cur[area]
    BY <2>2, <2>5, BackwardType
  <2>8. e.cur = f.cur
    <3>1. e.cur \in Char /\ f.cur \in Char
      BY <2>6, <2>7, ContextFields
    <3>2. \A area \in Areas : e.cur[area] = f.cur[area]
      BY <2>2, <2>6, <2>7
    <3>. QED BY <3>1, <3>2, CharEqual
  <2>. QED BY <2>1, <2>2, <2>3, <2>4, <2>5, <2>6, <2>7, <2>8 DEF Same
<1>3. CASE ~CombinesBackward(l, c, jamo)
  <2>1. Add3Bul(l, c, jamo) = AddJamoWith(l, c, jamo) /\ Add3Bul(l, d, jamo) = AddJamoWith(l, d, jamo)
    BY <1>1, <1>3 DEF Add3Bul
  <2>. QED BY <2>1, AddSame
<1>. QED BY <1>2, <1>3

LEMMA JamoType ==
  ASSUME NEW l, NEW c \in Context, NEW jamo \in Jamo
  PROVE  AddJamo(l, c, jamo) \in Context /\ Apart(c, AddJamo(l, c, jamo))
BY Add2Type, Add3Type DEF AddJamo

LEMMA JamoSame ==
  ASSUME NEW l, NEW c \in Context, NEW d \in Context, Same(c, d), NEW jamo \in Jamo
  PROVE  /\ Same(AddJamo(l, c, jamo), AddJamo(l, d, jamo))
         /\ AddJamo(l, d, jamo).done = AddJamo(l, c, jamo).done
BY Add2Same, Add3Same DEF AddJamo

-----------------------------------------------------------------------------
(* The context. *)

\* compose_and_route, field by field.
LEMMA RouteFields ==
  ASSUME NEW l, NEW c \in Context, NEW jamo \in Jamo, NEW r, r = ComposeAndRoute(l, c, jamo)
  PROVE  /\ r \in Context /\ Same(AddJamo(l, c, jamo), r)
         /\ r.order = c.order /\ r.word = c.word /\ r.keys = c.keys /\ r.done = <<>>
         /\ r.buffer = IF c.word THEN c.buffer \o AddJamo(l, c, jamo).done ELSE c.buffer
         /\ r.out = IF c.word THEN c.out ELSE c.out \o AddJamo(l, c, jamo).done
<1>1. PICK a : a = AddJamo(l, c, jamo)
  OBVIOUS
<1>2. a \in Context /\ Apart(c, a)
  BY <1>1, JamoType
<1>3. PICK none \in Seq(Char) : none = <<>>
  <2>1. <<>> \in Seq(Char)
    OBVIOUS
  <2>. QED BY <2>1
<1>4. PICK b \in Seq(Char) : b = a.buffer \o a.done
  BY <1>2, ContextFields, ConcatProperties
<1>5. PICK o \in Seq(Char) : o = a.out \o a.done
  BY <1>2, ContextFields, ConcatProperties
<1>6. CASE c.word
  <2>1. r = [a EXCEPT !.buffer = b, !.done = none]
    BY <1>1, <1>2, <1>3, <1>4, <1>6 DEF ComposeAndRoute, Route, Apart
  <2>2. /\ r \in Context /\ r.queue = a.queue /\ r.cur = a.cur /\ r.order = a.order
        /\ r.word = a.word /\ r.keys = a.keys /\ r.done = none /\ r.buffer = b /\ r.out = a.out
    BY <1>2, <2>1 DEF Context
  <2>. QED BY <1>1, <1>2, <1>3, <1>4, <1>6, <2>2 DEF Same, Apart
<1>7. CASE ~c.word
  <2>1. r = [a EXCEPT !.out = o, !.done = none]
    BY <1>1, <1>2, <1>3, <1>5, <1>7 DEF ComposeAndRoute, Route, Apart
  <2>2. /\ r \in Context /\ r.queue = a.queue /\ r.cur = a.cur /\ r.order = a.order
        /\ r.word = a.word /\ r.keys = a.keys /\ r.done = none /\ r.out = o /\ r.buffer = a.buffer
    BY <1>2, <2>1 DEF Context
  <2>. QED BY <1>1, <1>2, <1>3, <1>5, <1>7, <2>2 DEF Same, Apart
<1>. QED BY <1>6, <1>7

\* What process_jamo hands to compose_and_route.
Noted(c, jamo) == [c EXCEPT !.order = <<>>, !.keys = IF c.word THEN Append(@, jamo) ELSE @]

LEMMA NotedFields ==
  ASSUME NEW c \in Context, NEW jamo \in Jamo, NEW n, n = Noted(c, jamo)
  PROVE  /\ n \in Context /\ Same(c, n) /\ n.order = <<>> /\ n.word = c.word
         /\ n.keys = (IF c.word THEN Append(c.keys, jamo) ELSE c.keys)
         /\ n.done = c.done /\ n.buffer = c.buffer /\ n.out = c.out
<1>1. PICK keys \in Seq(Jamo) : keys = IF c.word THEN Append(c.keys, jamo) ELSE c.keys
  BY ContextFields, AppendProperties
<1>2. PICK none \in Seq(Jamo) : none = <<>>
  <2>1. <<>> \in Seq(Jamo)
    OBVIOUS
  <2>. QED BY <2>1
<1>3. n = [c EXCEPT !.order = none, !.keys = keys]
  BY <1>1, <1>2 DEF Noted
<1>4. /\ n \in Context /\ n.queue = c.queue /\ n.cur = c.cur /\ n.order = none /\ n.word = c.word
      /\ n.keys = keys /\ n.done = c.done /\ n.buffer = c.buffer /\ n.out = c.out
  BY <1>3 DEF Context
<1>. QED BY <1>1, <1>2, <1>4 DEF Same

LEMMA ProcessFields ==
  ASSUME NEW l, NEW c \in Context, NEW jamo \in Jamo, NEW r, r = ProcessJamo(l, c, jamo)
  PROVE  /\ r \in Context /\ Same(AddJamo(l, c, jamo), r)
         /\ r.order = <<>> /\ r.word = c.word /\ r.done = <<>>
         /\ r.keys = (IF c.word THEN Append(c.keys, jamo) ELSE c.keys)
         /\ r.buffer = (IF c.word THEN c.buffer \o AddJamo(l, c, jamo).done ELSE c.buffer)
         /\ r.out = (IF c.word THEN c.out ELSE c.out \o AddJamo(l, c, jamo).done)
<1>1. PICK n : n = Noted(c, jamo)
  OBVIOUS
<1>2. /\ n \in Context /\ Same(c, n) /\ n.order = <<>> /\ n.word = c.word
      /\ n.keys = (IF c.word THEN Append(c.keys, jamo) ELSE c.keys)
      /\ n.done = c.done /\ n.buffer = c.buffer /\ n.out = c.out
  BY <1>1, NotedFields
<1>3. r = ComposeAndRoute(l, n, jamo)
  BY <1>1 DEF ProcessJamo, Noted
<1>4. /\ r \in Context /\ Same(AddJamo(l, n, jamo), r)
      /\ r.order = n.order /\ r.word = n.word /\ r.keys = n.keys /\ r.done = <<>>
      /\ r.buffer = IF n.word THEN n.buffer \o AddJamo(l, n, jamo).done ELSE n.buffer
      /\ r.out = IF n.word THEN n.out ELSE n.out \o AddJamo(l, n, jamo).done
  BY <1>2, <1>3, RouteFields
<1>5. /\ Same(AddJamo(l, c, jamo), AddJamo(l, n, jamo))
      /\ AddJamo(l, n, jamo).done = AddJamo(l, c, jamo).done
  BY <1>2, JamoSame
<1>6. Same(AddJamo(l, c, jamo), r)
  BY <1>4, <1>5 DEF Same
<1>. QED BY <1>2, <1>4, <1>5, <1>6

LEMMA ClearFields ==
  ASSUME NEW c \in Context
  PROVE  /\ ClearComposer(c) \in Context /\ Apart(c, ClearComposer(c))
         /\ ClearComposer(c).queue = <<>> /\ ClearComposer(c).cur = Empty
         /\ ClearComposer(c).done = c.done
<1>1. PICK none \in Seq(Jamo) : none = <<>>
  <2>1. <<>> \in Seq(Jamo)
    OBVIOUS
  <2>. QED BY <2>1
<1>2. PICK d : d = [c EXCEPT !.queue = none, !.cur = Empty]
  OBVIOUS
<1>3. d \in Context /\ Apart(c, d) /\ d.queue = none /\ d.cur = Empty /\ d.done = c.done
  BY <1>2, EmptyChar DEF Context, Apart
<1>. QED BY <1>1, <1>2, <1>3 DEF ClearComposer

\* A context in which nothing is being composed.
Blank(c) == c.queue = <<>> /\ c.cur = Empty /\ c.order = <<>> /\ c.buffer = <<>> /\ c.keys = <<>>

LEMMA ClearingFields ==
  ASSUME NEW c \in Context
  PROVE  /\ ClearComposing(c) \in Context /\ Blank(ClearComposing(c))
         /\ ClearComposing(c).word = c.word /\ ClearComposing(c).done = c.done
         /\ ClearComposing(c).out = c.out
<1>1. PICK none \in Seq(Jamo) : none = <<>>
  <2>1. <<>> \in Seq(Jamo)
    OBVIOUS
  <2>. QED BY <2>1
<1>2. PICK blank \in Seq(Char) : blank = <<>>
  <2>1. <<>> \in Seq(Char)
    OBVIOUS
  <2>. QED BY <2>1
<1>3. PICK e : e = ClearComposer(c)
  OBVIOUS
<1>4. /\ e \in Context /\ e.queue = <<>> /\ e.cur = Empty /\ e.word = c.word /\ e.done = c.done
      /\ e.out = c.out
  BY <1>3, ClearFields DEF Apart
<1>5. PICK d : d = [e EXCEPT !.order = none, !.buffer = blank, !.keys = none]
  OBVIOUS
<1>6. /\ d \in Context /\ d.queue = e.queue /\ d.cur = e.cur /\ d.order = none /\ d.buffer = blank
      /\ d.keys = none /\ d.word = e.word /\ d.done = e.done /\ d.out = e.out
  BY <1>4, <1>5 DEF Context
<1>7. ClearComposing(c) = d
  BY <1>1, <1>2, <1>3, <1>5 DEF ClearComposing
<1>. QED BY <1>1, <1>2, <1>4, <1>6, <1>7 DEF Blank

LEMMA FlushFields ==
  ASSUME NEW l, NEW c \in Context, NEW r, r = FlushPreedit(l, c), c.done = <<>>
  PROVE  /\ r \in Context /\ r.word = c.word /\ r.done = <<>>
         /\ ~IsComposing(c) => r = c
         /\ IsComposing(c) => Blank(r) /\ r.out = c.out \o c.buffer \o ForceCompose(l, c).done
<1>1. CASE ~IsComposing(c)
  <2>1. r = c
    BY <1>1 DEF FlushPreedit
  <2>. QED BY <1>1, <2>1, ContextFields
<1>2. CASE IsComposing(c)
  <2>1. PICK f : f = ForceCompose(l, c)
    OBVIOUS
  <2>2. f \in Context /\ Apart(c, f)
    BY <2>1, ForceType
  <2>3. PICK e : e = ClearComposing(f)
    OBVIOUS
  <2>4. e \in Context /\ Blank(e) /\ e.word = f.word /\ e.out = f.out
    BY <2>2, <2>3, ClearingFields
  <2>5. c.out \in Seq(Char) /\ c.buffer \in Seq(Char) /\ f.done \in Seq(Char)
    BY <2>2, ContextFields
  <2>6. PICK out \in Seq(Char) : out = c.out \o c.buffer \o f.done
    BY <2>5, ConcatProperties
  <2>7. PICK none \in Seq(Char) : none = <<>>
    <3>1. <<>> \in Seq(Char)
      OBVIOUS
    <3>. QED BY <3>1
  <2>8. f.out = c.out /\ f.word = c.word
    BY <2>2 DEF Apart
  <2>9. r = [e EXCEPT !.out = out, !.done = none]
    BY <1>2, <2>1, <2>3, <2>4, <2>6, <2>7, <2>8 DEF FlushPreedit
  <2>10. /\ r \in Context /\ r.out = out /\ r.done = none /\ r.word = e.word /\ r.queue = e.queue
         /\ r.cur = e.cur /\ r.order = e.order /\ r.buffer = e.buffer /\ r.keys = e.keys
    BY <2>4, <2>9 DEF Context
  <2>. QED BY <1>2, <2>1, <2>4, <2>6, <2>7, <2>8, <2>10 DEF Blank
<1>. QED BY <1>1, <1>2


-----------------------------------------------------------------------------
(* Keys typed one after the other. *)

\* g has the values of a computation, one from the other.
Follows(g, N, V, start, step) ==
  g[0] = start /\ \A n \in 1..N : g[n - 1] \in V => g[n] = step[n][g[n - 1]]

LEMMA SameValues ==
  ASSUME NEW V, NEW start, NEW N \in Nat, NEW step, NEW f, Computes(f, N, V, start, step),
         NEW g, Follows(g, N, V, start, step)
  PROVE  \A n \in 0..N : g[n] = f[n]
<1>. DEFINE S == {m \in Nat : m <= N => g[m] = f[m]}
<1>1. f[0] = start /\ (\A n \in 1..N : f[n] = step[n][f[n - 1]]) /\ \A n \in 0..N : f[n] \in V
  BY DEF Computes
<1>2. 0 \in S
  BY <1>1 DEF Follows
<1>3. ASSUME NEW n \in Nat, n \in S PROVE n + 1 \in S
  <2>. SUFFICES ASSUME n + 1 <= N PROVE g[n + 1] = f[n + 1]
    OBVIOUS
  <2>1. n + 1 \in 1..N /\ (n + 1) - 1 = n /\ n \in 0..N /\ g[n] = f[n]
    BY <1>3
  <2>2. f[n] \in V
    BY <1>1, <2>1
  <2>3. g[n + 1] = step[n + 1][g[n]]
    BY <2>1, <2>2 DEF Follows
  <2>4. f[n + 1] = step[n + 1][f[n]]
    BY <1>1, <2>1
  <2>. QED BY <2>1, <2>3, <2>4
<1>. HIDE DEF S
<1>4. \A n \in Nat : n \in S
  BY <1>2, <1>3, NatInduct
<1>. QED BY <1>4 DEF S

\* Where the word is typed again from.
Restart(c) == [ClearComposer(c) EXCEPT !.buffer = <<>>]

LEMMA RestartFields ==
  ASSUME NEW c \in Context, NEW r, r = Restart(c)
  PROVE  /\ r \in Context /\ r.queue = <<>> /\ r.cur = Empty /\ r.buffer = <<>>
         /\ r.order = c.order /\ r.word = c.word /\ r.keys = c.keys /\ r.done = c.done
         /\ r.out = c.out
<1>1. PICK none \in Seq(Char) : none = <<>>
  <2>1. <<>> \in Seq(Char)
    OBVIOUS
  <2>. QED BY <2>1
<1>2. PICK e : e = ClearComposer(c)
  OBVIOUS
<1>3. e \in Context /\ Apart(c, e) /\ e.queue = <<>> /\ e.cur = Empty /\ e.done = c.done
  BY <1>2, ClearFields
<1>4. r = [e EXCEPT !.buffer = none]
  BY <1>1, <1>2 DEF Restart
<1>5. /\ r \in Context /\ r.queue = e.queue /\ r.cur = e.cur /\ r.buffer = none
      /\ r.order = e.order /\ r.word = e.word /\ r.keys = e.keys /\ r.done = e.done /\ r.out = e.out
  BY <1>3, <1>4 DEF Context
<1>. QED BY <1>1, <1>3, <1>5 DEF Apart

\* typed[n]: the context after the first n of the keys.
Typed(typed, l, c, keys) ==
  /\ typed \in [0..Len(keys) -> Context] /\ typed[0] = Restart(c)
  /\ \A n \in 1..Len(keys) : typed[n] = ComposeAndRoute(l, typed[n - 1], keys[n])

LEMMA ReplayTypes ==
  ASSUME NEW l, NEW c \in Context, NEW keys \in Seq(Jamo)
  PROVE  \E typed : Typed(typed, l, c, keys) /\ Replay(l, c, keys) = typed[Len(keys)]
<1>. DEFINE N == Len(keys)
            step == [n \in 1..N |-> [x \in Context |-> ComposeAndRoute(l, x, keys[n])]]
            Fix(g) == g = [n \in 0..N |-> IF n = 0 THEN Restart(c)
                                          ELSE ComposeAndRoute(l, g[n - 1], keys[n])]
            all == CHOOSE g : Fix(g)
<1>1. N \in Nat /\ \A n \in 1..N : keys[n] \in Jamo
  OBVIOUS
<1>2. step \in [1..N -> [Context -> Context]]
  <2>1. \A n \in 1..N, x \in Context : ComposeAndRoute(l, x, keys[n]) \in Context
    BY <1>1, RouteFields
  <2>. QED BY <2>1
<1>3. \A n \in 1..N, x \in Context : step[n][x] = ComposeAndRoute(l, x, keys[n])
  OBVIOUS
<1>4. Restart(c) \in Context
  BY RestartFields
<1>. HIDE DEF N, step
<1>5. PICK typed : Computes(typed, N, Context, Restart(c), step)
  BY <1>1, <1>2, <1>4, Iterates
<1>6. \A n \in 1..N : typed[n] = ComposeAndRoute(l, typed[n - 1], keys[n])
  <2>1. \A n \in 1..N : n - 1 \in 0..N
    BY <1>1
  <2>. QED BY <1>3, <1>5, <2>1 DEF Computes
<1>7. Fix(typed)
  <2>1. \A n \in 0..N : n # 0 => n \in 1..N
    BY <1>1
  <2>2. \A n \in 0..N : typed[n] = IF n = 0 THEN Restart(c)
                                   ELSE ComposeAndRoute(l, typed[n - 1], keys[n])
    BY <1>5, <1>6, <2>1 DEF Computes
  <2>3. typed = [n \in 0..N |-> typed[n]]
    BY <1>5 DEF Computes
  <2>. QED BY <2>2, <2>3
<1>8. Fix(all)
  <2>. HIDE DEF Fix
  <2>. QED BY <1>7
<1>9. Replay(l, c, keys) = all[N]
  BY DEF Replay, Restart, N
<1>. HIDE DEF all
<1>10. all[0] = Restart(c) /\ \A n \in 1..N : all[n] = ComposeAndRoute(l, all[n - 1], keys[n])
  <2>. DEFINE body(n) == IF n = 0 THEN Restart(c) ELSE ComposeAndRoute(l, all[n - 1], keys[n])
  <2>1. all = [n \in 0..N |-> body(n)]
    BY <1>8
  <2>. HIDE DEF Fix
  <2>2. body(0) = Restart(c) /\ \A n \in 1..N : body(n) = ComposeAndRoute(l, all[n - 1], keys[n])
    BY <1>1
  <2>. HIDE DEF body
  <2>3. \A n \in 0..N : all[n] = body(n)
    BY <2>1
  <2>4. 0 \in 0..N /\ \A n \in 1..N : n \in 0..N
    BY <1>1
  <2>. QED BY <2>2, <2>3, <2>4
<1>. HIDE DEF Fix
<1>11. \A n \in 1..N : all[n - 1] \in Context => all[n] = step[n][all[n - 1]]
  BY <1>3, <1>10
<1>12. \A n \in 0..N : all[n] = typed[n]
  <2>1. PICK start : start = Restart(c)
    OBVIOUS
  <2>2. Computes(typed, N, Context, start, step) /\ Follows(all, N, Context, start, step)
    BY <1>5, <1>10, <1>11, <2>1 DEF Follows
  <2>. QED BY <1>1, <2>2, SameValues
<1>13. Replay(l, c, keys) = typed[N]
  <2>1. N \in 0..N
    BY <1>1
  <2>. QED BY <1>9, <1>12, <2>1
<1>. QED BY <1>5, <1>6, <1>13 DEF Typed, Computes, N

LEMMA ReplayNone ==
  ASSUME NEW l, NEW c \in Context
  PROVE  Replay(l, c, <<>>) = Restart(c)
<1>1. PICK none \in Seq(Jamo) : none = <<>>
  <2>1. <<>> \in Seq(Jamo)
    OBVIOUS
  <2>. QED BY <2>1
<1>2. PICK typed : Typed(typed, l, c, none) /\ Replay(l, c, none) = typed[Len(none)]
  BY ReplayTypes
<1>3. Len(none) = 0 /\ typed[0] = Restart(c)
  BY <1>1, <1>2 DEF Typed
<1>. QED BY <1>1, <1>2, <1>3

LEMMA ReplayType ==
  ASSUME NEW l, NEW c \in Context, NEW keys \in Seq(Jamo)
  PROVE  Replay(l, c, keys) \in Context
<1>1. PICK typed : Typed(typed, l, c, keys) /\ Replay(l, c, keys) = typed[Len(keys)]
  BY ReplayTypes
<1>2. Len(keys) \in 0..Len(keys)
  OBVIOUS
<1>. QED BY <1>1, <1>2 DEF Typed

LEMMA ReplayAppend ==
  ASSUME NEW l, NEW c \in Context, NEW keys \in Seq(Jamo), NEW jamo \in Jamo
  PROVE  Replay(l, c, Append(keys, jamo)) = ComposeAndRoute(l, Replay(l, c, keys), jamo)
<1>. DEFINE N == Len(keys)
<1>0. PICK more : more = Append(keys, jamo)
  OBVIOUS
<1>1. /\ more \in Seq(Jamo) /\ Len(more) = N + 1 /\ N \in Nat
      /\ \A i \in 1..N : more[i] = keys[i]
      /\ more[N + 1] = jamo
  BY <1>0, AppendProperties
<1>2. PICK f : Typed(f, l, c, keys) /\ Replay(l, c, keys) = f[N]
  BY ReplayTypes
<1>3. PICK g : Typed(g, l, c, more) /\ Replay(l, c, more) = g[N + 1]
  BY <1>1, ReplayTypes
<1>4. /\ f[0] = Restart(c) /\ \A n \in 1..N : f[n] = ComposeAndRoute(l, f[n - 1], keys[n])
      /\ g[0] = Restart(c) /\ \A n \in 1..(N + 1) : g[n] = ComposeAndRoute(l, g[n - 1], more[n])
  BY <1>1, <1>2, <1>3 DEF Typed
<1>. HIDE DEF N
<1>. DEFINE S == {m \in Nat : m <= N => g[m] = f[m]}
<1>5. 0 \in S
  BY <1>4
<1>6. ASSUME NEW n \in Nat, n \in S PROVE n + 1 \in S
  <2>. SUFFICES ASSUME n + 1 <= N PROVE g[n + 1] = f[n + 1]
    OBVIOUS
  <2>1. n + 1 \in 1..N /\ n + 1 \in 1..(N + 1) /\ (n + 1) - 1 = n /\ g[n] = f[n]
    BY <1>1, <1>6
  <2>2. f[n + 1] = ComposeAndRoute(l, f[n], keys[n + 1])
    BY <1>4, <2>1
  <2>3. g[n + 1] = ComposeAndRoute(l, g[n], more[n + 1])
    BY <1>4, <2>1
  <2>. QED BY <1>1, <2>1, <2>2, <2>3
<1>. HIDE DEF S
<1>7. \A n \in Nat : n \in S
  BY <1>5, <1>6, NatInduct
<1>8. g[N] = f[N]
  BY <1>1, <1>7 DEF S
<1>9. g[N + 1] = ComposeAndRoute(l, g[N], jamo)
  <2>1. N + 1 \in 1..(N + 1) /\ (N + 1) - 1 = N
    BY <1>1
  <2>. QED BY <1>1, <1>4, <2>1
<1>. QED BY <1>0, <1>2, <1>3, <1>8, <1>9

\* The composer and the word of d are those of c.
Alike(c, d) == Same(c, d) /\ d.buffer = c.buffer /\ d.word = c.word

LEMMA RouteAlike ==
  ASSUME NEW l, NEW c \in Context, NEW d \in Context, Alike(c, d), NEW jamo \in Jamo
  PROVE  Alike(ComposeAndRoute(l, c, jamo), ComposeAndRoute(l, d, jamo))
<1>0. Same(c, d) /\ d.buffer = c.buffer /\ d.word = c.word
  BY DEF Alike
<1>1. PICK r : r = ComposeAndRoute(l, c, jamo)
  OBVIOUS
<1>2. PICK s : s = ComposeAndRoute(l, d, jamo)
  OBVIOUS
<1>3. /\ Same(AddJamo(l, c, jamo), r) /\ r.word = c.word
      /\ r.buffer = IF c.word THEN c.buffer \o AddJamo(l, c, jamo).done ELSE c.buffer
  BY <1>1, RouteFields
<1>4. /\ Same(AddJamo(l, d, jamo), s) /\ s.word = d.word
      /\ s.buffer = IF d.word THEN d.buffer \o AddJamo(l, d, jamo).done ELSE d.buffer
  BY <1>2, RouteFields
<1>5. /\ Same(AddJamo(l, c, jamo), AddJamo(l, d, jamo))
      /\ AddJamo(l, d, jamo).done = AddJamo(l, c, jamo).done
  BY <1>0, JamoSame
<1>6. Same(r, s)
  BY <1>3, <1>4, <1>5 DEF Same
<1>. QED BY <1>0, <1>1, <1>2, <1>3, <1>4, <1>5, <1>6 DEF Alike

\* What a word's keys compose from nothing is the same whatever was there.
LEMMA ReplayAlike ==
  ASSUME NEW l, NEW c \in Context, NEW d \in Context, d.word = c.word
  PROVE  \A keys \in Seq(Jamo) : Alike(Replay(l, c, keys), Replay(l, d, keys))
<1>. DEFINE T == {keys \in Seq(Jamo) : Alike(Replay(l, c, keys), Replay(l, d, keys))}
<1>1. <<>> \in T
  <2>1. PICK r : r = Restart(c)
    OBVIOUS
  <2>2. PICK s : s = Restart(d)
    OBVIOUS
  <2>3. r.queue = <<>> /\ r.cur = Empty /\ r.buffer = <<>> /\ r.word = c.word
    BY <2>1, RestartFields
  <2>4. s.queue = <<>> /\ s.cur = Empty /\ s.buffer = <<>> /\ s.word = d.word
    BY <2>2, RestartFields
  <2>5. Alike(r, s)
    BY <2>3, <2>4 DEF Alike, Same
  <2>6. <<>> \in Seq(Jamo)
    OBVIOUS
  <2>. QED BY <2>1, <2>2, <2>5, <2>6, ReplayNone, Zenon
<1>2. ASSUME NEW keys \in Seq(Jamo), NEW jamo \in Jamo, keys \in T PROVE Append(keys, jamo) \in T
  <2>1. Append(keys, jamo) \in Seq(Jamo)
    BY AppendProperties
  <2>2. Alike(Replay(l, c, keys), Replay(l, d, keys))
    BY <1>2
  <2>3. Alike(ComposeAndRoute(l, Replay(l, c, keys), jamo), ComposeAndRoute(l, Replay(l, d, keys), jamo))
    BY <2>2, ReplayType, RouteAlike
  <2>4. Alike(Replay(l, c, Append(keys, jamo)), Replay(l, d, Append(keys, jamo)))
    BY <2>3, ReplayAppend
  <2>. QED BY <2>1, <2>4
<1>. HIDE DEF T
<1>3. \A keys \in Seq(Jamo) : keys \in T
  BY <1>1, <1>2, SeqInduct
<1>. QED BY <1>3 DEF T

LEMMA RouteReplay ==
  ASSUME NEW l, NEW c \in Context, NEW keys \in Seq(Jamo), NEW jamo \in Jamo,
         NEW d \in Context, Alike(Replay(l, c, keys), d)
  PROVE  Alike(Replay(l, c, Append(keys, jamo)), ComposeAndRoute(l, d, jamo))
BY ReplayType, ReplayAppend, RouteAlike

\* What else the word's Backspace leaves as it was.
LEMMA ReplayFields ==
  ASSUME NEW l, NEW c \in Context, c.done = <<>>
  PROVE  \A keys \in Seq(Jamo) :
           /\ Replay(l, c, keys).order = c.order /\ Replay(l, c, keys).word = c.word
           /\ Replay(l, c, keys).keys = c.keys /\ Replay(l, c, keys).done = <<>>
<1>. DEFINE Kept1(r) == r.order = c.order /\ r.word = c.word /\ r.keys = c.keys /\ r.done = <<>>
            T == {keys \in Seq(Jamo) : Kept1(Replay(l, c, keys))}
<1>1. <<>> \in T
  <2>1. PICK r : r = Restart(c)
    OBVIOUS
  <2>2. Kept1(r)
    BY <2>1, RestartFields
  <2>3. <<>> \in Seq(Jamo)
    OBVIOUS
  <2>. HIDE DEF Kept1
  <2>. QED BY <2>1, <2>2, <2>3, ReplayNone, Zenon
<1>2. ASSUME NEW keys \in Seq(Jamo), NEW jamo \in Jamo, keys \in T PROVE Append(keys, jamo) \in T
  <2>1. Append(keys, jamo) \in Seq(Jamo)
    BY AppendProperties
  <2>2. PICK r : r = Replay(l, c, keys)
    OBVIOUS
  <2>3. PICK s : s = ComposeAndRoute(l, r, jamo)
    OBVIOUS
  <2>4. r \in Context /\ Kept1(r)
    BY <1>2, <2>2, ReplayType
  <2>5. s.order = r.order /\ s.word = r.word /\ s.keys = r.keys /\ s.done = <<>>
    BY <2>3, <2>4, RouteFields
  <2>6. Kept1(s)
    BY <2>4, <2>5
  <2>7. s = Replay(l, c, Append(keys, jamo))
    BY <2>2, <2>3, ReplayAppend
  <2>. QED BY <2>1, <2>6, <2>7
<1>. HIDE DEF T
<1>3. \A keys \in Seq(Jamo) : keys \in T
  BY <1>1, <1>2, SeqInduct
<1>. QED BY <1>3 DEF T


-----------------------------------------------------------------------------
(* Chords, and the type invariant. *)

\* Every order of jamo is a sequence of as many.
LEMMA OrderType ==
  ASSUME NEW jamos \in Seq(Jamo), NEW order \in Orders(jamos)
  PROVE  order \in Seq(Jamo) /\ Len(order) = Len(jamos)
<1>1. PICK p \in [1..Len(jamos) -> 1..Len(jamos)] : order = [i \in 1..Len(jamos) |-> jamos[p[i]]]
  BY DEF Orders
<1>2. \A i \in 1..Len(jamos) : jamos[p[i]] \in Jamo
  OBVIOUS
<1>. QED BY <1>1, <1>2

LEMMA ReducedType ==
  ASSUME NEW l, NEW area, NEW jamos \in Seq(Jamo), jamos # <<>>, Reducible(l, area, jamos)
  PROVE  Reduced(l, area, jamos) \in Seq(Letter) \ {<<>>}
<1>1. PICK order : order = CHOOSE o \in Orders(jamos) : FoldsLeft(l, area, o)
  OBVIOUS
<1>2. order \in Orders(jamos)
  BY <1>1 DEF Reducible
<1>3. order \in Seq(Jamo) /\ Len(order) = Len(jamos)
  BY <1>2, OrderType
<1>4. order # <<>>
  BY <1>3
<1>5. Spelt(order) \in Seq(Letter) /\ Spelt(order) # <<>>
  BY <1>3, <1>4, SpeltType, SpeltSome
<1>. QED BY <1>1, <1>5 DEF Reduced

\* The jamo a chord has for an area.
ChordPart(l, area, jamos) ==
  IF OfArea(jamos, area) = <<>> THEN <<>>
  ELSE <<Plain(area, Reduced(l, area, OfArea(jamos, area)))>>

LEMMA PartType ==
  ASSUME NEW l, NEW jamos \in Seq(Jamo), Injectable(l, jamos), NEW area \in Areas
  PROVE  /\ ChordPart(l, area, jamos) \in Seq(Jamo)
         /\ OfArea(jamos, area) = <<>> => ChordPart(l, area, jamos) = <<>>
         /\ OfArea(jamos, area) # <<>> =>
              /\ Plain(area, Reduced(l, area, OfArea(jamos, area))) \in Jamo
              /\ ChordPart(l, area, jamos) = <<Plain(area, Reduced(l, area, OfArea(jamos, area)))>>
<1>1. CASE OfArea(jamos, area) = <<>>
  <2>1. <<>> \in Seq(Jamo)
    OBVIOUS
  <2>. QED BY <1>1, <2>1 DEF ChordPart
<1>2. CASE OfArea(jamos, area) # <<>>
  <2>1. PICK r : r = Reduced(l, area, OfArea(jamos, area))
    OBVIOUS
  <2>2. r \in Seq(Letter) \ {<<>>}
    BY <1>2, <2>1, OfAreaType, ReducedType DEF Injectable
  <2>3. Plain(area, r) \in Jamo
    BY <2>2, PlainType
  <2>. QED BY <1>2, <2>1, <2>3 DEF ChordPart
<1>. QED BY <1>1, <1>2

LEMMA ChordQueueType ==
  ASSUME NEW l, NEW jamos \in Seq(Jamo), Injectable(l, jamos)
  PROVE  /\ ChordQueue(l, jamos)
              = ChordPart(l, "cho", jamos) \o ChordPart(l, "jung", jamos) \o ChordPart(l, "jong", jamos)
         /\ ChordQueue(l, jamos) \in Seq(Jamo)
         /\ jamos # <<>> => ChordQueue(l, jamos) # <<>>
<1>1. PICK x \in Seq(Jamo) : x = ChordPart(l, "cho", jamos)
  BY PartType DEF Areas
<1>2. PICK y \in Seq(Jamo) : y = ChordPart(l, "jung", jamos)
  BY PartType DEF Areas
<1>3. PICK z \in Seq(Jamo) : z = ChordPart(l, "jong", jamos)
  BY PartType DEF Areas
<1>4. ChordQueue(l, jamos) = x \o y \o z
  BY <1>1, <1>2, <1>3 DEF ChordQueue, ChordPart
<1>5. x \o y \in Seq(Jamo) /\ (x \o y) \o z \in Seq(Jamo)
  BY ConcatProperties
<1>6. ASSUME jamos # <<>>, (x \o y) \o z = <<>> PROVE FALSE
  <2>1. x \o y = <<>> /\ z = <<>>
    BY <1>5, <1>6, ConcatEqualIffEmpty
  <2>2. x = <<>> /\ y = <<>>
    BY <2>1, ConcatEqualIffEmpty
  <2>3. PICK front \in Seq(Jamo), jamo \in Jamo : jamos = Append(front, jamo)
    BY <1>6, SequenceEmptyOrAppend
  <2>4. jamo.area \in Areas
    BY DEF Jamo
  <2>5. OfArea(jamos, jamo.area) = Append(OfArea(front, jamo.area), jamo)
    BY <2>3, OfAreaAppend
  <2>6. OfArea(jamos, jamo.area) # <<>>
    BY <2>5, OfAreaType, AppendProperties
  <2>7. ChordPart(l, jamo.area, jamos) # <<>>
    BY <2>6 DEF ChordPart
  <2>8. jamo.area = "cho" \/ jamo.area = "jung" \/ jamo.area = "jong"
    BY <2>4 DEF Areas
  <2>. QED BY <1>1, <1>2, <1>3, <2>1, <2>2, <2>7, <2>8
<1>. QED BY <1>1, <1>2, <1>3, <1>4, <1>5, <1>6

LEMMA InjectFields ==
  ASSUME NEW l, NEW c \in Context, NEW jamos \in Seq(Jamo), Injectable(l, jamos),
         NEW r, r = Inject(l, c, jamos)
  PROVE  /\ r \in Context /\ r.queue = ChordQueue(l, jamos) /\ r.order = jamos
         /\ r.word = c.word /\ r.buffer = c.buffer /\ r.keys = c.keys /\ r.done = c.done
         /\ r.out = c.out
<1>1. PICK e : e = ClearComposer(c)
  OBVIOUS
<1>2. e \in Context /\ Apart(c, e) /\ e.done = c.done
  BY <1>1, ClearFields
<1>3. PICK q \in Seq(Jamo) : q = ChordQueue(l, jamos)
  BY ChordQueueType
<1>4. PICK i : i = [e EXCEPT !.order = jamos, !.queue = q]
  OBVIOUS
<1>5. /\ i \in Context /\ i.queue = q /\ i.order = jamos /\ i.word = e.word /\ i.buffer = e.buffer
      /\ i.keys = e.keys /\ i.done = e.done /\ i.out = e.out
  BY <1>2, <1>4 DEF Context
<1>6. r = Compose(l, i)
  BY <1>1, <1>3, <1>4 DEF Inject
<1>7. r \in Context /\ Apart(i, r) /\ r.queue = i.queue /\ r.done = i.done
  BY <1>5, <1>6, ComposeType
<1>. QED BY <1>2, <1>3, <1>5, <1>7 DEF Apart

\* A set of positions has a last one.
LEMMA LastOne ==
  ASSUME NEW n \in Nat, NEW S, S \subseteq 1..n, S # {}
  PROVE  \E i \in S : \A j \in S : j <= i
<1>. DEFINE T == {m \in Nat : n - m \in S}
<1>1. T \subseteq Nat /\ T # {}
  <2>1. PICK i \in S : TRUE
    OBVIOUS
  <2>2. i \in 1..n
    BY <2>1
  <2>3. n - i \in Nat /\ n - (n - i) = i
    BY <2>2
  <2>4. n - i \in T
    BY <2>1, <2>3
  <2>. QED BY <2>4
<1>2. PICK m \in T : \A k \in T : m <= k
  <2>. HIDE DEF T
  <2>. QED BY <1>1, NatLeast
<1>3. n - m \in S
  BY <1>2
<1>4. ASSUME NEW j \in S PROVE j <= n - m
  <2>1. j \in 1..n
    OBVIOUS
  <2>2. n - j \in Nat /\ n - (n - j) = j
    BY <2>1
  <2>3. n - j \in T
    BY <2>2
  <2>4. m <= n - j /\ m \in Nat
    BY <1>2, <2>3
  <2>. QED BY <2>1, <2>2, <2>4
<1>. QED BY <1>3, <1>4

LEMMA ShortenedType ==
  ASSUME NEW order \in Seq(Jamo), order # <<>>
  PROVE  Shortened(order) \in Seq(Jamo)
<1>. DEFINE last(area) == {i \in DOMAIN order : order[i].area = area}
            area == CASE last("jong") # {} -> "jong"
                      [] last("jong") = {} /\ last("jung") # {} -> "jung"
                      [] OTHER -> "cho"
            pos  == CHOOSE i \in last(area) : \A j \in last(area) : j <= i
<1>1. Len(order) \in Nat /\ 1 \in 1..Len(order) /\ DOMAIN order = 1..Len(order)
  BY EmptySeq, LenProperties
<1>2. \A i \in 1..Len(order) : order[i] \in Jamo /\ order[i].area \in Areas
  <2>1. \A i \in 1..Len(order) : order[i] \in Jamo
    OBVIOUS
  <2>2. \A jamo \in Jamo : jamo.area \in Areas
    BY DEF Jamo
  <2>. QED BY <2>1, <2>2
<1>3. last(area) # {}
  <2>1. \E a \in Areas : 1 \in last(a)
    BY <1>1, <1>2
  <2>2. last("cho") # {} \/ last("jung") # {} \/ last("jong") # {}
    BY <2>1 DEF Areas
  <2>3. CASE last("jong") # {}
    <3>1. area = "jong"
      BY <2>3
    <3>. QED BY <2>3, <3>1
  <2>4. CASE last("jong") = {} /\ last("jung") # {}
    <3>1. area = "jung"
      BY <2>4
    <3>. QED BY <2>4, <3>1
  <2>5. CASE last("jong") = {} /\ last("jung") = {}
    <3>1. area = "cho"
      BY <2>5
    <3>. QED BY <2>2, <2>5, <3>1
  <2>. QED BY <2>3, <2>4, <2>5
<1>4. last(area) \subseteq 1..Len(order)
  BY <1>1
<1>5. Shortened(order) = RemoveAt(order, pos)
  BY DEF Shortened
<1>. HIDE DEF area, last
<1>6. \E i \in last(area) : \A j \in last(area) : j <= i
  BY <1>1, <1>3, <1>4, LastOne
<1>7. pos \in 1..Len(order)
  BY <1>4, <1>6
<1>. HIDE DEF pos
<1>8. SubSeq(order, 1, pos - 1) \in Seq(Jamo)
  <2>1. pos - 1 \in Int /\ \A i \in 1..(pos - 1) : order[i] \in Jamo
    BY <1>1, <1>2, <1>7
  <2>. QED BY <2>1, SubSeqProperties
<1>9. SubSeq(order, pos + 1, Len(order)) \in Seq(Jamo)
  <2>1. pos + 1 \in Int /\ Len(order) \in Int /\ \A i \in (pos + 1)..Len(order) : order[i] \in Jamo
    BY <1>1, <1>2, <1>7
  <2>. QED BY <2>1, SubSeqProperties
<1>10. RemoveAt(order, pos) \in Seq(Jamo)
  BY <1>8, <1>9, ConcatProperties DEF RemoveAt
<1>. QED BY <1>5, <1>10

\* A context that has nothing to return, and nothing of a word outside one.
Proper(c) == c \in Context /\ c.done = <<>> /\ (~c.word => c.buffer = <<>> /\ c.keys = <<>>)

\* Keys of a word are composed.
Held(c) == c.keys # <<>> => c.queue # <<>>

LEMMA AddQueue ==
  ASSUME NEW l, NEW c \in Context, NEW jamo \in Jamo
  PROVE  /\ AddJamoWith(l, c, jamo).queue \in {Append(c.queue, jamo), <<jamo>>}
         /\ AddJamoWith(l, c, jamo).queue # <<>>
<1>1. PICK p : p = Pushed(c, jamo)
  OBVIOUS
<1>2. PICK b : b = Begun(l, c, jamo)
  OBVIOUS
<1>3. p \in Context /\ p.queue = Append(c.queue, jamo) /\ b \in Context /\ b.queue = <<jamo>>
  BY <1>1, <1>2, PushedType, BegunType
<1>4. Compose(l, p).queue = p.queue /\ Compose(l, b).queue = b.queue
  BY <1>3, ComposeType
<1>5. Append(c.queue, jamo) # <<>> /\ <<jamo>> # <<>>
  <2>1. c.queue \in Seq(Jamo)
    BY ContextFields
  <2>. QED BY <2>1, AppendProperties
<1>. QED BY <1>1, <1>2, <1>3, <1>4, <1>5, AddSteps

LEMMA JamoQueue ==
  ASSUME NEW l, NEW c \in Context, NEW jamo \in Jamo
  PROVE  AddJamo(l, c, jamo).queue # <<>>
<1>1. AddJamoWith(l, c, jamo).queue # <<>>
  BY AddQueue
<1>2. AddJamoWith(l, c, Plain("jong", jamo.letters)).queue # <<>>
  <2>1. Plain("jong", jamo.letters) \in Jamo
    BY VowelType DEF Areas
  <2>. QED BY <2>1, AddQueue
<1>3. Dokkaebi(c, jamo) => MoveJong(l, c, jamo).queue # <<>>
  <2>. SUFFICES ASSUME Dokkaebi(c, jamo) PROVE MoveJong(l, c, jamo).queue # <<>>
    OBVIOUS
  <2>1. c.queue # <<>>
    BY DEF Dokkaebi
  <2>2. AddJamoWith(l, Before(l, c), jamo).queue # <<>>
    BY <2>1, MovedType, AddQueue
  <2>3. Plain("jung", jamo.letters) \in Jamo
    BY VowelType DEF Areas
  <2>4. PICK d : d = AddJamoWith(l, Moved(l, c), Plain("jung", jamo.letters))
    OBVIOUS
  <2>5. d \in Context /\ d.queue # <<>>
    BY <2>1, <2>3, <2>4, MovedType, AddType, AddQueue
  <2>6. Before(l, c).done \in Seq(Char)
    BY <2>1, MovedType, ContextFields
  <2>7. [d EXCEPT !.done = Before(l, c).done].queue = d.queue
    BY <2>5, <2>6, DoneSet
  <2>. QED BY <2>2, <2>4, <2>5, <2>7, MoveSteps
<1>4. CombinesBackward(l, c, jamo) => CombineBackward(c, jamo).queue # <<>>
  <2>. SUFFICES ASSUME CombinesBackward(l, c, jamo) PROVE CombineBackward(c, jamo).queue # <<>>
    OBVIOUS
  <2>1. c.queue # <<>>
    BY DEF CombinesBackward
  <2>2. CombineBackward(c, jamo).queue = Append(Front(c.queue), Fronted(c, jamo))
    BY <2>1, BackwardType
  <2>3. Front(c.queue) \in Seq(Jamo) /\ Fronted(c, jamo) \in Jamo
    BY <2>1, ContextFields, SeqParts, FrontedType
  <2>4. Append(Front(c.queue), Fronted(c, jamo)) # <<>>
    BY <2>3, AppendProperties
  <2>. QED BY <2>2, <2>4
<1>5. CASE l.type = "2bul"
  <2>1. \/ Add2Bul(l, c, jamo) = AddJamoWith(l, c, Plain("jong", jamo.letters))
        \/ Dokkaebi(c, jamo) /\ Add2Bul(l, c, jamo) = MoveJong(l, c, jamo)
        \/ Add2Bul(l, c, jamo) = AddJamoWith(l, c, jamo)
    BY DEF Add2Bul
  <2>. QED BY <1>1, <1>2, <1>3, <1>5, <2>1 DEF AddJamo
<1>6. CASE l.type # "2bul"
  BY <1>1, <1>4, <1>6 DEF AddJamo, Add3Bul
<1>. QED BY <1>5, <1>6

LEMMA ProcessProper ==
  ASSUME NEW l, NEW c, Proper(c), NEW jamo \in Jamo, NEW r, r = ProcessJamo(l, c, jamo)
  PROVE  Proper(r) /\ r.queue # <<>> /\ Held(r)
<1>1. c \in Context /\ (~c.word => c.buffer = <<>> /\ c.keys = <<>>)
  BY DEF Proper
<1>2. /\ r \in Context /\ Same(AddJamo(l, c, jamo), r) /\ r.word = c.word /\ r.done = <<>>
      /\ r.keys = (IF c.word THEN Append(c.keys, jamo) ELSE c.keys)
      /\ r.buffer = (IF c.word THEN c.buffer \o AddJamo(l, c, jamo).done ELSE c.buffer)
  BY <1>1, ProcessFields
<1>3. r.queue # <<>>
  BY <1>1, <1>2, JamoQueue DEF Same
<1>. QED BY <1>1, <1>2, <1>3 DEF Proper, Held

LEMMA FlushProper ==
  ASSUME NEW l, NEW c, Proper(c), NEW r, r = FlushPreedit(l, c)
  PROVE  Proper(r) /\ (Held(c) => Held(r)) /\ r.word = c.word
<1>1. c \in Context /\ c.done = <<>> /\ (~c.word => c.buffer = <<>> /\ c.keys = <<>>)
  BY DEF Proper
<1>2. /\ r \in Context /\ r.word = c.word /\ r.done = <<>>
      /\ ~IsComposing(c) => r = c
      /\ IsComposing(c) => Blank(r)
  BY <1>1, FlushFields
<1>3. CASE ~IsComposing(c)
  BY <1>1, <1>2, <1>3 DEF Proper
<1>4. CASE IsComposing(c)
  BY <1>2, <1>4 DEF Proper, Held, Blank
<1>. QED BY <1>3, <1>4

LEMMA RemoveProper ==
  ASSUME NEW l, NEW c, Proper(c), NEW r, r = RemoveJamo(l, c)
  PROVE  Proper(r) /\ r.keys = c.keys /\ r.word = c.word
<1>1. c \in Context /\ c.done = <<>> /\ (~c.word => c.buffer = <<>> /\ c.keys = <<>>)
  BY DEF Proper
<1>2. r \in Context /\ Apart(c, r) /\ r.done = c.done
  BY <1>1, RemoveType
<1>. QED BY <1>1, <1>2 DEF Apart, Proper

LEMMA InjectProper ==
  ASSUME NEW l, NEW c, Proper(c), NEW jamos \in Seq(Jamo), Injectable(l, jamos),
         NEW r, r = Inject(l, c, jamos)
  PROVE  /\ Proper(r) /\ r.keys = c.keys /\ r.word = c.word
         /\ jamos # <<>> => r.queue # <<>> /\ Held(r)
<1>1. c \in Context /\ c.done = <<>> /\ (~c.word => c.buffer = <<>> /\ c.keys = <<>>)
  BY DEF Proper
<1>2. /\ r \in Context /\ r.queue = ChordQueue(l, jamos)
      /\ r.word = c.word /\ r.buffer = c.buffer /\ r.keys = c.keys /\ r.done = c.done
  BY <1>1, InjectFields
<1>3. jamos # <<>> => r.queue # <<>>
  BY <1>2, ChordQueueType
<1>. QED BY <1>1, <1>2, <1>3 DEF Proper, Held

LEMMA ClearingProper ==
  ASSUME NEW c, Proper(c), NEW r, r = ClearComposing(c)
  PROVE  Proper(r) /\ Held(r) /\ r.keys = <<>> /\ r.word = c.word
<1>1. c \in Context /\ c.done = <<>>
  BY DEF Proper
<1>2. r \in Context /\ Blank(r) /\ r.word = c.word /\ r.done = c.done
  BY <1>1, ClearingFields
<1>. QED BY <1>1, <1>2 DEF Proper, Held, Blank


\* typed[n]: the context after the first n keys of the chord, one by one.
Retyped(typed, c) ==
  /\ typed \in [0..Len(pending) -> Context] /\ typed[0] = c
  /\ \A n \in 1..Len(pending) : typed[n] = ProcessJamo(layout, typed[n - 1], pending[n])

LEMMA FinalSteps ==
  ASSUME NEW c \in Context, pending \in Seq(Jamo)
  PROVE  \E typed :
           /\ Retyped(typed, c)
           /\ Finalized(c) =
                IF pending = <<>> \/ preview # "none" THEN c
                ELSE IF Injectable(layout, pending)
                     THEN Inject(layout, FlushPreedit(layout, c), pending)
                     ELSE typed[Len(pending)]
<1>. DEFINE N == Len(pending)
            step == [n \in 1..N |-> [x \in Context |-> ProcessJamo(layout, x, pending[n])]]
            Fix(g) == g = [n \in 0..N |-> IF n = 0 THEN c
                                          ELSE ProcessJamo(layout, g[n - 1], pending[n])]
            all == CHOOSE g : Fix(g)
<1>1. N \in Nat /\ \A n \in 1..N : pending[n] \in Jamo
  OBVIOUS
<1>2. step \in [1..N -> [Context -> Context]]
  <2>1. \A n \in 1..N, x \in Context : ProcessJamo(layout, x, pending[n]) \in Context
    BY <1>1, ProcessFields
  <2>. QED BY <2>1
<1>3. \A n \in 1..N, x \in Context : step[n][x] = ProcessJamo(layout, x, pending[n])
  OBVIOUS
<1>. HIDE DEF N, step
<1>5. PICK typed : Computes(typed, N, Context, c, step)
  BY <1>1, <1>2, Iterates
<1>6. \A n \in 1..N : typed[n] = ProcessJamo(layout, typed[n - 1], pending[n])
  <2>1. \A n \in 1..N : n - 1 \in 0..N
    BY <1>1
  <2>. QED BY <1>3, <1>5, <2>1 DEF Computes
<1>7. Fix(typed)
  <2>1. \A n \in 0..N : n # 0 => n \in 1..N
    BY <1>1
  <2>2. \A n \in 0..N : typed[n] = IF n = 0 THEN c
                                   ELSE ProcessJamo(layout, typed[n - 1], pending[n])
    BY <1>5, <1>6, <2>1 DEF Computes
  <2>3. typed = [n \in 0..N |-> typed[n]]
    BY <1>5 DEF Computes
  <2>. QED BY <2>2, <2>3
<1>8. Fix(all)
  <2>. HIDE DEF Fix
  <2>. QED BY <1>7
<1>9. Finalized(c) = IF pending = <<>> \/ preview # "none" THEN c
                     ELSE IF Injectable(layout, pending)
                          THEN Inject(layout, FlushPreedit(layout, c), pending)
                          ELSE all[N]
  BY DEF Finalized, N
<1>. HIDE DEF all
<1>10. all[0] = c /\ \A n \in 1..N : all[n] = ProcessJamo(layout, all[n - 1], pending[n])
  <2>. DEFINE body(n) == IF n = 0 THEN c ELSE ProcessJamo(layout, all[n - 1], pending[n])
  <2>1. all = [n \in 0..N |-> body(n)]
    BY <1>8
  <2>. HIDE DEF Fix
  <2>2. body(0) = c /\ \A n \in 1..N : body(n) = ProcessJamo(layout, all[n - 1], pending[n])
    BY <1>1
  <2>. HIDE DEF body
  <2>3. \A n \in 0..N : all[n] = body(n)
    BY <2>1
  <2>4. 0 \in 0..N /\ \A n \in 1..N : n \in 0..N
    BY <1>1
  <2>. QED BY <2>2, <2>3, <2>4
<1>. HIDE DEF Fix
<1>11. Follows(all, N, Context, c, step)
  BY <1>3, <1>10 DEF Follows
<1>12. \A n \in 0..N : all[n] = typed[n]
  BY <1>1, <1>5, <1>11, SameValues
<1>13. all[N] = typed[N]
  <2>1. N \in 0..N
    BY <1>1
  <2>. QED BY <1>12, <2>1
<1>14. Retyped(typed, c)
  BY <1>5, <1>6 DEF Retyped, Computes, N
<1>. QED BY <1>9, <1>13, <1>14 DEF N

LEMMA FinalProper ==
  ASSUME NEW c, Proper(c), pending \in Seq(Jamo),
         pending = <<>> \/ preview # "none" => Held(c), NEW r, r = Finalized(c)
  PROVE  Proper(r) /\ Held(r)
<1>0. c \in Context
  BY DEF Proper
<1>1. PICK typed :
        /\ Retyped(typed, c)
        /\ r = IF pending = <<>> \/ preview # "none" THEN c
               ELSE IF Injectable(layout, pending)
                    THEN Inject(layout, FlushPreedit(layout, c), pending)
                    ELSE typed[Len(pending)]
  BY <1>0, FinalSteps
<1>2. CASE pending = <<>> \/ preview # "none"
  BY <1>1, <1>2
<1>3. CASE ~(pending = <<>> \/ preview # "none") /\ Injectable(layout, pending)
  <2>1. PICK f : f = FlushPreedit(layout, c)
    OBVIOUS
  <2>2. Proper(f)
    BY <2>1, FlushProper
  <2>3. r = Inject(layout, f, pending) /\ pending # <<>>
    BY <1>1, <1>3, <2>1
  <2>. QED BY <1>3, <2>2, <2>3, InjectProper
<1>4. CASE ~(pending = <<>> \/ preview # "none") /\ ~Injectable(layout, pending)
  <2>. DEFINE N == Len(pending)
              S == {n \in Nat : n <= N => Proper(typed[n]) /\ (n > 0 => Held(typed[n]))}
  <2>1. N \in Nat \ {0} /\ \A n \in 1..N : pending[n] \in Jamo
    BY <1>4, EmptySeq
  <2>2. typed[0] = c /\ \A n \in 1..N : typed[n] = ProcessJamo(layout, typed[n - 1], pending[n])
    BY <1>1 DEF Retyped
  <2>3. r = typed[N]
    BY <1>1, <1>4
  <2>. HIDE DEF N
  <2>4. 0 \in S
    BY <2>2
  <2>5. ASSUME NEW n \in Nat, n \in S PROVE n + 1 \in S
    <3>. SUFFICES ASSUME n + 1 <= N PROVE Proper(typed[n + 1]) /\ Held(typed[n + 1])
      OBVIOUS
    <3>1. n + 1 \in 1..N /\ (n + 1) - 1 = n /\ Proper(typed[n])
      BY <2>1, <2>5
    <3>2. typed[n + 1] = ProcessJamo(layout, typed[n], pending[n + 1]) /\ pending[n + 1] \in Jamo
      BY <2>1, <2>2, <3>1
    <3>. QED BY <3>1, <3>2, ProcessProper
  <2>. HIDE DEF S
  <2>6. \A n \in Nat : n \in S
    BY <2>4, <2>5, NatInduct
  <2>. QED BY <2>1, <2>3, <2>6 DEF S
<1>. QED BY <1>2, <1>3, <1>4

LEMMA ReplayProper ==
  ASSUME NEW l, NEW c, Proper(c), c.word, NEW keys \in Seq(Jamo), keys # <<>>,
         NEW r, r = [Replay(l, c, keys) EXCEPT !.keys = keys]
  PROVE  Proper(r) /\ Held(r) /\ r.keys = keys /\ Alike(Replay(l, c, keys), r)
<1>0. c \in Context /\ c.done = <<>>
  BY DEF Proper
<1>1. PICK front \in Seq(Jamo), jamo \in Jamo : keys = Append(front, jamo)
  BY SequenceEmptyOrAppend
<1>2. PICK e : e = Replay(l, c, front)
  OBVIOUS
<1>3. PICK f : f = Replay(l, c, keys)
  OBVIOUS
<1>4. e \in Context /\ f \in Context
  BY <1>0, <1>2, <1>3, ReplayType
<1>5. f = ComposeAndRoute(l, e, jamo)
  BY <1>0, <1>1, <1>2, <1>3, ReplayAppend
<1>6. Same(AddJamo(l, e, jamo), f)
  BY <1>4, <1>5, RouteFields
<1>7. f.queue # <<>>
  BY <1>4, <1>6, JamoQueue DEF Same
<1>8. f.word = c.word /\ f.done = <<>>
  BY <1>0, <1>3, ReplayFields
<1>9. r = [f EXCEPT !.keys = keys]
  BY <1>3
<1>10. /\ r \in Context /\ r.keys = keys /\ r.queue = f.queue /\ r.cur = f.cur
       /\ r.buffer = f.buffer /\ r.word = f.word /\ r.done = f.done
  BY <1>4, <1>9 DEF Context
<1>11. Proper(r) /\ Held(r) /\ Alike(f, r)
  BY <1>7, <1>8, <1>10 DEF Proper, Held, Alike, Same
<1>. QED BY <1>3, <1>9, <1>10, <1>11

LEMMA BackspaceProper ==
  ASSUME NEW l, NEW c, Proper(c), NEW r, r = BackspaceContext(l, c)
  PROVE  Proper(r) /\ Held(r)
<1>0. /\ c \in Context /\ (~c.word => c.buffer = <<>> /\ c.keys = <<>>)
      /\ c.keys \in Seq(Jamo) /\ c.order \in Seq(Jamo) /\ Len(c.keys) \in Nat
      /\ (c.keys = <<>> <=> Len(c.keys) = 0)
  BY ContextFields DEF Proper
<1>1. CASE c.word /\ Len(c.keys) = 1
  <2>1. r = ClearComposing(c)
    BY <1>0, <1>1 DEF BackspaceContext
  <2>. QED BY <2>1, ClearingProper
<1>2. CASE c.word /\ Len(c.keys) > 1
  <2>1. PICK front : front = Front(c.keys)
    OBVIOUS
  <2>2. front \in Seq(Jamo) /\ front # <<>>
    <3>1. front \in Seq(Jamo) /\ Len(front) = Len(c.keys) - 1
      BY <1>0, <1>2, <2>1, SeqParts
    <3>2. Len(front) > 0
      BY <1>0, <1>2, <3>1
    <3>3. front # <<>>
      <4>1. Len(<<>>) = 0
        OBVIOUS
      <4>. QED BY <3>2, <4>1
    <3>. QED BY <3>1, <3>3
  <2>3. r = [Replay(l, c, front) EXCEPT !.keys = front]
    BY <1>0, <1>2, <2>1 DEF BackspaceContext
  <2>. QED BY <1>2, <2>2, <2>3, ReplayProper
<1>3. CASE ~(c.word /\ c.keys # <<>>) /\ c.order # <<>>
  <2>1. c.keys = <<>>
    BY <1>0, <1>3
  <2>2. r = BackspaceChord(l, c)
    BY <1>0, <1>3, <2>1 DEF BackspaceContext
  <2>3. Shortened(c.order) \in Seq(Jamo)
    BY <1>0, <1>3, ShortenedType
  <2>4. PICK rest \in Seq(Jamo) : rest = Shortened(c.order)
    BY <2>3
  <2>5. CASE rest # <<>> /\ Injectable(l, rest)
    <3>1. r = Inject(l, c, rest)
      BY <2>2, <2>4, <2>5 DEF BackspaceChord
    <3>. QED BY <2>5, <3>1, InjectProper
  <2>6. CASE ~(rest # <<>> /\ Injectable(l, rest))
    <3>1. PICK e : e = ClearComposer(c)
      OBVIOUS
    <3>2. e \in Context /\ Apart(c, e) /\ e.done = c.done
      BY <1>0, <3>1, ClearFields
    <3>3. PICK none \in Seq(Jamo) : none = <<>>
      BY <1>0, <2>1
    <3>4. r = [e EXCEPT !.order = none]
      BY <2>2, <2>4, <2>6, <3>1, <3>3 DEF BackspaceChord
    <3>5. /\ r \in Context /\ r.keys = e.keys /\ r.word = e.word /\ r.buffer = e.buffer
          /\ r.done = e.done
      BY <3>2, <3>4 DEF Context
    <3>6. r.keys = c.keys /\ r.word = c.word /\ r.buffer = c.buffer /\ r.done = c.done
      BY <3>2, <3>5 DEF Apart
    <3>. QED BY <2>1, <3>5, <3>6 DEF Proper, Held
  <2>. QED BY <2>5, <2>6
<1>4. CASE /\ ~(c.word /\ Len(c.keys) = 1) /\ ~(c.word /\ Len(c.keys) > 1)
           /\ ~(~(c.word /\ c.keys # <<>>) /\ c.order # <<>>)
  <2>1. c.keys = <<>>
    <3>1. CASE ~c.word
      BY <1>0, <3>1
    <3>2. CASE c.word
      <4>1. PICK n \in Nat : n = Len(c.keys)
        BY <1>0
      <4>2. ~(n = 1) /\ ~(n > 1)
        BY <1>4, <3>2, <4>1
      <4>3. n = 0
        BY <4>2
      <4>. QED BY <1>0, <4>1, <4>3
    <3>. QED BY <3>1, <3>2
  <2>2. r = RemoveJamo(l, c)
    BY <1>4 DEF BackspaceContext
  <2>3. Proper(r) /\ r.keys = c.keys
    BY <2>2, RemoveProper
  <2>. QED BY <2>1, <2>3 DEF Held
<1>. QED BY <1>1, <1>2, <1>3, <1>4


(* The type invariant, and the keys of a word. *)

\* Beyond HangulTypeOK: ctx is a context, and the keys of a word are composed
\* unless the chord that waits has taken the only one of them back.
HangulInv ==
  /\ layout \in Layouts
  /\ Proper(ctx) /\ Len(ctx.keys) <= Limit
  /\ pending \in Seq(Jamo) /\ Len(pending) <= MaxChord
  /\ preview \in {"none", "typed", "joined"}
  /\ pending = <<>> \/ preview # "none" => Held(ctx)
  /\ since \in Seq(Char) /\ base \subseteq Seq(Letter)

LEMMA QuietFields ==
  ASSUME Proper(ctx), NEW q, q = Quiet
  PROVE  /\ Proper(q) /\ Alike(ctx, q) /\ q.order = ctx.order /\ q.keys = ctx.keys
         /\ q.done = <<>> /\ q.out = <<>> /\ Held(q) = Held(ctx)
<1>1. ctx \in Context /\ ctx.done = <<>> /\ (~ctx.word => ctx.buffer = <<>> /\ ctx.keys = <<>>)
  BY DEF Proper
<1>2. PICK none \in Seq(Char) : none = <<>>
  <2>1. <<>> \in Seq(Char)
    OBVIOUS
  <2>. QED BY <2>1
<1>3. q = [ctx EXCEPT !.out = none]
  BY <1>2 DEF Quiet
<1>4. /\ q \in Context /\ q.queue = ctx.queue /\ q.cur = ctx.cur /\ q.order = ctx.order
      /\ q.word = ctx.word /\ q.buffer = ctx.buffer /\ q.keys = ctx.keys /\ q.done = ctx.done
      /\ q.out = none
  BY <1>1, <1>3 DEF Context
<1>. QED BY <1>1, <1>2, <1>4 DEF Proper, Alike, Same, Held

LEMMA TextType ==
  ASSUME NEW c \in Context
  PROVE  Text(c) \in Seq(Char) /\ Letters(Text(c)) \in Seq(Letter)
<1>1. c.buffer \in Seq(Char) /\ Shown(c.cur) \in Seq(Char)
  BY ContextFields, ShownLetters
<1>2. Text(c) \in Seq(Char)
  BY <1>1, ConcatProperties DEF Text
<1>. QED BY <1>2, LettersType

LEMMA LayoutType ==
  ASSUME layout \in Layouts
  PROVE  /\ layout.type \in Types /\ layout.bidirectional \in BOOLEAN /\ layout.chord \in BOOLEAN
         /\ layout.bidirectional \/ layout.chord => layout.type = "3bul"
         /\ Keys[layout.type] \subseteq Jamo
         /\ Limit \in Nat
<1>1. layout \in [type: Types, bidirectional: BOOLEAN, chord: BOOLEAN]
  BY HangulAssumption
<1>. QED BY <1>1, HangulAssumption DEF Limit

LEMMA HangulInvInit == Init => HangulInv
<1>. SUFFICES ASSUME Init PROVE HangulInv
  OBVIOUS
<1>1. PICK word \in BOOLEAN : ctx = NewContext(word)
  BY DEF Init
<1>2. /\ layout \in Layouts /\ pending = <<>> /\ preview = "none" /\ base = {} /\ since = <<>>
  BY DEF Init
<1>3. ctx \in Context
  <2>1. <<>> \in Seq(Jamo) /\ <<>> \in Seq(Char)
    OBVIOUS
  <2>. QED BY <1>1, <2>1, EmptyChar DEF NewContext, Context
<1>4. ctx.done = <<>> /\ ctx.buffer = <<>> /\ ctx.keys = <<>> /\ ctx.word \in BOOLEAN
  BY <1>1 DEF NewContext
<1>5. Proper(ctx) /\ Held(ctx)
  BY <1>3, <1>4 DEF Proper, Held
<1>6. Len(ctx.keys) <= Limit
  <2>1. Len(ctx.keys) = 0 /\ Limit \in Nat
    BY <1>2, <1>4, LayoutType
  <2>. QED BY <2>1
<1>7. pending \in Seq(Jamo) /\ Len(pending) <= MaxChord
  BY <1>2, HangulAssumption
<1>8. since \in Seq(Char) /\ base \subseteq Seq(Letter)
  BY <1>2
<1>. QED BY <1>2, <1>5, <1>6, <1>7, <1>8 DEF HangulInv

\* What ChordOver leaves of the chord.
LEMMA OverType ==
  ASSUME ChordOver
  PROVE  /\ pending' \in Seq(Jamo) /\ Len(pending') <= MaxChord
         /\ preview' \in {"none", "typed", "joined"}
         /\ since' \in Seq(Char) /\ base' \subseteq Seq(Letter)
BY HangulAssumption DEF ChordOver

LEMMA KeyInv ==
  ASSUME HangulInv, NEW jamo \in Keys[layout.type], Key(jamo)
  PROVE  HangulInv'
<1>0. /\ layout \in Layouts /\ Proper(ctx) /\ Len(ctx.keys) <= Limit
      /\ since \in Seq(Char) /\ base \subseteq Seq(Letter)
      /\ pending \in Seq(Jamo) /\ Len(pending) <= MaxChord
      /\ preview \in {"none", "typed", "joined"}
  BY DEF HangulInv
<1>1. /\ layout' = layout /\ pending' = pending /\ preview' = preview /\ base' = base
      /\ since' = since /\ Len(ctx.keys) < Limit
  BY DEF Key, Room
<1>2. jamo \in Jamo /\ Limit \in Nat
  BY <1>0, LayoutType
<1>3. PICK q : q = Quiet
  OBVIOUS
<1>4. Proper(q) /\ q.keys = ctx.keys /\ q \in Context
  BY <1>0, <1>3, QuietFields DEF Proper
<1>5. ctx' = ProcessJamo(layout, q, jamo)
  BY <1>3 DEF Key
<1>6. Proper(ctx') /\ Held(ctx')
  BY <1>2, <1>4, <1>5, ProcessProper
<1>7. Len(ctx'.keys) <= Limit
  <2>1. ctx'.keys = IF q.word THEN Append(q.keys, jamo) ELSE q.keys
    BY <1>2, <1>4, <1>5, ProcessFields
  <2>2. q.keys \in Seq(Jamo)
    BY <1>4, ContextFields
  <2>3. Len(Append(q.keys, jamo)) = Len(q.keys) + 1 /\ Len(q.keys) \in Nat
    BY <1>2, <2>2, AppendProperties
  <2>. QED BY <1>1, <1>2, <1>4, <2>1, <2>3
<1>8. Limit' = Limit
  BY <1>1 DEF Limit
<1>. QED BY <1>0, <1>1, <1>6, <1>7, <1>8 DEF HangulInv

LEMMA FirstInv ==
  ASSUME HangulInv, NEW jamo \in Keys[layout.type], ChordFirst(jamo)
  PROVE  HangulInv'
<1>0. layout \in Layouts /\ Proper(ctx) /\ Len(ctx.keys) <= Limit
  BY DEF HangulInv
<1>1. /\ layout' = layout /\ pending' = <<jamo>> /\ preview' = "typed" /\ since' = ctx'.out
      /\ Len(ctx.keys) < Limit
      /\ base' = IF Unsettled(ctx) \/ CombinesBackward(layout, ctx, jamo) THEN {}
                 ELSE {Letters(Text(ctx))}
  BY DEF ChordFirst, Room
<1>2. jamo \in Jamo /\ Limit \in Nat
  BY <1>0, LayoutType
<1>3. PICK q : q = Quiet
  OBVIOUS
<1>4. Proper(q) /\ q.keys = ctx.keys /\ q \in Context /\ ctx \in Context
  BY <1>0, <1>3, QuietFields DEF Proper
<1>5. ctx' = ProcessJamo(layout, q, jamo)
  BY <1>3 DEF ChordFirst
<1>6. Proper(ctx') /\ Held(ctx') /\ ctx' \in Context
  BY <1>2, <1>4, <1>5, ProcessProper DEF Proper
<1>7. Len(ctx'.keys) <= Limit
  <2>1. ctx'.keys = IF q.word THEN Append(q.keys, jamo) ELSE q.keys
    BY <1>2, <1>4, <1>5, ProcessFields
  <2>2. q.keys \in Seq(Jamo)
    BY <1>4, ContextFields
  <2>3. Len(Append(q.keys, jamo)) = Len(q.keys) + 1 /\ Len(q.keys) \in Nat
    BY <1>2, <2>2, AppendProperties
  <2>. QED BY <1>1, <1>2, <1>4, <2>1, <2>3
<1>8. Limit' = Limit
  BY <1>1 DEF Limit
<1>9. base' \subseteq Seq(Letter) /\ since' \in Seq(Char)
  <2>1. Letters(Text(ctx)) \in Seq(Letter)
    BY <1>4, TextType
  <2>2. ctx'.out \in Seq(Char)
    BY <1>6, ContextFields
  <2>. QED BY <1>1, <2>1, <2>2
<1>10. pending' \in Seq(Jamo) /\ Len(pending') <= MaxChord
  <2>1. <<jamo>> \in Seq(Jamo) /\ Len(<<jamo>>) = 1
    BY <1>2
  <2>2. MaxChord \in Nat \ {0}
    BY HangulAssumption
  <2>. QED BY <1>1, <2>1, <2>2
<1>. QED BY <1>0, <1>1, <1>6, <1>7, <1>8, <1>9, <1>10 DEF HangulInv

\* The chord with one key more.
LEMMA ChordMore ==
  ASSUME pending \in Seq(Jamo), Len(pending) < MaxChord, NEW jamo \in Jamo
  PROVE  /\ Append(pending, jamo) \in Seq(Jamo) /\ Append(pending, jamo) # <<>>
         /\ Len(Append(pending, jamo)) <= MaxChord
<1>1. /\ Append(pending, jamo) \in Seq(Jamo) /\ Append(pending, jamo) # <<>>
      /\ Len(Append(pending, jamo)) = Len(pending) + 1 /\ Len(pending) \in Nat
  BY AppendProperties
<1>. QED BY <1>1, HangulAssumption

LEMMA JoinsInv ==
  ASSUME HangulInv, NEW jamo \in Keys[layout.type], ChordJoins(jamo)
  PROVE  HangulInv'
<1>0. /\ layout \in Layouts /\ Proper(ctx) /\ Len(ctx.keys) <= Limit
      /\ since \in Seq(Char) /\ base \subseteq Seq(Letter) /\ pending \in Seq(Jamo)
  BY DEF HangulInv
<1>1. PICK chord : chord = Append(pending, jamo)
  OBVIOUS
<1>2. PICK q : q = Quiet
  OBVIOUS
<1>3. PICK unseen : unseen = IF preview = "typed" THEN RemoveJamo(layout, q) ELSE q
  OBVIOUS
<1>4. PICK replaced : replaced = IF preview = "joined" THEN unseen ELSE FlushPreedit(layout, unseen)
  OBVIOUS
<1>5. /\ layout' = layout /\ base' = base /\ Len(pending) < MaxChord
      /\ Injectable(layout, chord) /\ ctx' = Inject(layout, replaced, chord)
      /\ pending' = chord /\ preview' = "joined" /\ since' = since \o ctx'.out
  BY <1>1, <1>2, <1>3, <1>4 DEF ChordJoins
<1>6. jamo \in Jamo /\ Limit \in Nat
  BY <1>0, LayoutType
<1>7. Proper(q) /\ q.keys = ctx.keys
  BY <1>0, <1>2, QuietFields
<1>8. Proper(unseen) /\ unseen.keys = ctx.keys
  BY <1>3, <1>7, RemoveProper
<1>9. Proper(replaced) /\ Len(replaced.keys) <= Limit
  <2>1. CASE preview = "joined" \/ ~IsComposing(unseen)
    <3>1. replaced = unseen
      BY <1>4, <2>1 DEF FlushPreedit
    <3>. QED BY <1>0, <1>8, <3>1
  <2>2. CASE preview # "joined" /\ IsComposing(unseen)
    <3>1. replaced = FlushPreedit(layout, unseen)
      BY <1>4, <2>2
    <3>2. Proper(replaced)
      BY <1>8, <3>1, FlushProper
    <3>3. replaced.keys = <<>>
      BY <1>8, <2>2, <3>1, FlushFields DEF Proper, Blank
    <3>. QED BY <1>6, <3>2, <3>3
  <2>. QED BY <2>1, <2>2
<1>10. /\ chord \in Seq(Jamo) /\ chord # <<>> /\ Len(chord) <= MaxChord
  BY <1>0, <1>1, <1>5, <1>6, ChordMore
<1>11. Proper(ctx') /\ ctx'.keys = replaced.keys /\ Held(ctx')
  BY <1>5, <1>9, <1>10, InjectProper
<1>12. Limit' = Limit
  BY <1>5 DEF Limit
<1>13. since' \in Seq(Char)
  <2>1. ctx'.out \in Seq(Char)
    BY <1>11, ContextFields DEF Proper
  <2>. QED BY <1>0, <1>5, <2>1, ConcatProperties
<1>. QED BY <1>0, <1>5, <1>9, <1>10, <1>11, <1>12, <1>13 DEF HangulInv

LEMMA BreaksInv ==
  ASSUME HangulInv, NEW jamo \in Keys[layout.type], ChordBreaks(jamo)
  PROVE  HangulInv'
<1>0. /\ layout \in Layouts /\ Proper(ctx) /\ Len(ctx.keys) <= Limit
      /\ since \in Seq(Char) /\ base \subseteq Seq(Letter) /\ pending \in Seq(Jamo)
      /\ preview \in {"none", "typed", "joined"}
  BY DEF HangulInv
<1>1. PICK q : q = Quiet
  OBVIOUS
<1>2. PICK chord : chord = Append(pending, jamo)
  OBVIOUS
<1>3. /\ layout' = layout /\ base' = base /\ since' = since /\ Len(pending) < MaxChord
      /\ pending' = chord /\ preview' = "none"
  BY <1>2 DEF ChordBreaks
<1>4. \/ preview = "joined" /\ ctx' = ClearComposing(q)
      \/ preview = "typed" /\ ctx' = RemoveJamo(layout, q)
      \/ preview = "none" /\ ctx' = q
  BY <1>0, <1>1 DEF ChordBreaks
<1>5. jamo \in Jamo /\ Limit \in Nat
  BY <1>0, LayoutType
<1>6. Proper(q) /\ q.keys = ctx.keys
  BY <1>0, <1>1, QuietFields
<1>7. Proper(ctx') /\ Len(ctx'.keys) <= Limit
  <2>1. CASE ctx' = ClearComposing(q)
    <3>1. Proper(ctx') /\ ctx'.keys = <<>>
      BY <1>6, <2>1, ClearingProper
    <3>. QED BY <1>5, <3>1
  <2>2. CASE ctx' = RemoveJamo(layout, q)
    <3>1. Proper(ctx') /\ ctx'.keys = q.keys
      BY <1>6, <2>2, RemoveProper
    <3>. QED BY <1>0, <1>6, <3>1
  <2>3. CASE ctx' = q
    BY <1>0, <1>6, <2>3
  <2>. QED BY <1>4, <2>1, <2>2, <2>3
<1>8. /\ chord \in Seq(Jamo) /\ chord # <<>> /\ Len(chord) <= MaxChord
  BY <1>0, <1>2, <1>3, <1>5, ChordMore
<1>9. Limit' = Limit
  BY <1>3 DEF Limit
<1>. QED BY <1>0, <1>3, <1>7, <1>8, <1>9 DEF HangulInv

\* What the chord's end makes of the context.
LEMMA FinalInv ==
  ASSUME HangulInv, NEW c, c = Finalized(Quiet)
  PROVE  Proper(c) /\ Held(c)
<1>0. /\ Proper(ctx) /\ pending \in Seq(Jamo)
      /\ (pending = <<>> \/ preview # "none" => Held(ctx))
  BY DEF HangulInv
<1>1. PICK q : q = Quiet
  OBVIOUS
<1>2. Proper(q) /\ Held(q) = Held(ctx)
  BY <1>0, <1>1, QuietFields
<1>. QED BY <1>0, <1>1, <1>2, FinalProper

LEMMA HangulInvNext == HangulInv /\ [Next]_vars => HangulInv'
<1>. SUFFICES ASSUME HangulInv, [Next]_vars PROVE HangulInv'
  OBVIOUS
<1>0. layout \in Layouts /\ Limit \in Nat
  BY LayoutType DEF HangulInv
<1>1. CASE \E jamo \in Keys[layout.type] : Key(jamo)
  BY <1>1, KeyInv
<1>2. CASE \E jamo \in Keys[layout.type] : ChordFirst(jamo)
  BY <1>2, FirstInv
<1>3. CASE \E jamo \in Keys[layout.type] : ChordJoins(jamo)
  BY <1>3, JoinsInv
<1>4. CASE \E jamo \in Keys[layout.type] : ChordBreaks(jamo)
  BY <1>4, BreaksInv
<1>5. CASE ChordEnds
  <2>1. ctx' = Finalized(Quiet) /\ Len(ctx'.keys) <= Limit /\ ChordOver /\ layout' = layout
    BY <1>5 DEF ChordEnds
  <2>2. Proper(ctx') /\ Held(ctx')
    BY <2>1, FinalInv
  <2>3. Limit' = Limit
    BY <2>1 DEF Limit
  <2>. QED BY <1>0, <2>1, <2>2, <2>3, OverType DEF HangulInv
<1>6. CASE Backspace
  <2>1. PICK c : c = Finalized(Quiet)
    OBVIOUS
  <2>2. ctx' = BackspaceContext(layout, c) /\ Len(ctx'.keys) <= Limit /\ ChordOver /\ layout' = layout
    BY <1>6, <2>1 DEF Backspace
  <2>3. Proper(ctx') /\ Held(ctx')
    BY <2>1, <2>2, FinalInv, BackspaceProper
  <2>4. Limit' = Limit
    BY <2>2 DEF Limit
  <2>. QED BY <1>0, <2>2, <2>3, <2>4, OverType DEF HangulInv
<1>7. CASE Confirm
  <2>1. PICK c : c = Finalized(Quiet)
    OBVIOUS
  <2>2. ctx' = FlushPreedit(layout, c) /\ IsComposing(c) /\ ChordOver /\ layout' = layout
    BY <1>7, <2>1 DEF Confirm
  <2>3. Proper(c) /\ Held(c)
    BY <2>1, FinalInv
  <2>4. Proper(ctx') /\ Held(ctx')
    BY <2>2, <2>3, FlushProper
  <2>5. ctx'.keys = <<>>
    BY <2>2, <2>3, FlushFields DEF Proper, Blank
  <2>6. Limit' = Limit
    BY <2>2 DEF Limit
  <2>. QED BY <1>0, <2>2, <2>4, <2>5, <2>6, OverType DEF HangulInv
<1>8. ASSUME NEW on \in BOOLEAN, SetWordMode(on) PROVE HangulInv'
  <2>1. PICK q : q = Quiet
    OBVIOUS
  <2>2. PICK f : f = FlushPreedit(layout, q)
    OBVIOUS
  <2>3. /\ pending = <<>> /\ ctx' = [f EXCEPT !.word = on] /\ layout' = layout
        /\ pending' = pending /\ preview' = preview /\ base' = base /\ since' = since
    BY <1>8, <2>1, <2>2 DEF SetWordMode
  <2>4. Proper(q) /\ Held(q) /\ q.keys = ctx.keys
    <3>1. Proper(ctx) /\ Held(ctx)
      BY <2>3 DEF HangulInv
    <3>. QED BY <2>1, <3>1, QuietFields
  <2>5. Proper(f) /\ Held(f)
    BY <2>2, <2>4, FlushProper
  <2>6. f.keys = <<>> /\ f.buffer = <<>>
    <3>1. CASE IsComposing(q)
      BY <2>2, <2>4, <3>1, FlushFields DEF Proper, Blank
    <3>2. CASE ~IsComposing(q)
      <4>1. f = q /\ q.queue = <<>> /\ q.buffer = <<>>
        BY <2>2, <3>2 DEF FlushPreedit, IsComposing
      <4>. QED BY <2>5, <4>1 DEF Held
    <3>. QED BY <3>1, <3>2
  <2>7. /\ ctx' \in Context /\ ctx'.keys = f.keys /\ ctx'.buffer = f.buffer
        /\ ctx'.done = f.done
    BY <2>3, <2>5 DEF Context, Proper
  <2>8. Proper(ctx') /\ Held(ctx') /\ Len(ctx'.keys) <= Limit
    BY <1>0, <2>5, <2>6, <2>7 DEF Proper, Held
  <2>9. Limit' = Limit
    BY <2>3 DEF Limit
  <2>. QED BY <2>3, <2>8, <2>9 DEF HangulInv
<1>9. CASE UNCHANGED vars
  BY <1>9 DEF vars, HangulInv, Limit, Proper, Held
<1>. QED BY <1>1, <1>2, <1>3, <1>4, <1>5, <1>6, <1>7, <1>8, <1>9 DEF Next

\* Every variable keeps its type: ctx is a context that holds no more keys than
\* the bound, nothing of a word outside word mode, and returns what it commits
\* (input_context.rs, compose_and_route and set_accumulate_word).
THEOREM HangulTypeCorrect == Spec => []HangulTypeOK
<1>1. HangulInv => HangulTypeOK
  BY ContextFields DEF HangulInv, HangulTypeOK, Proper, Char
<1>. QED BY <1>1, HangulInvInit, HangulInvNext, PTL DEF Spec


-----------------------------------------------------------------------------
(* The keys of a word compose the word. *)

Told(l, c) == c.word => Alike(Replay(l, c, c.keys), c)

WordInv ==
  /\ HangulInv
  /\ ~layout.chord => pending = <<>> /\ Told(layout, ctx)

LEMMA BlankTold ==
  ASSUME NEW l, NEW c \in Context, c.queue = <<>>, c.cur = Empty, c.buffer = <<>>, c.keys = <<>>
  PROVE  Told(l, c)
<1>1. PICK r : r = Restart(c)
  OBVIOUS
<1>2. r.queue = <<>> /\ r.cur = Empty /\ r.buffer = <<>> /\ r.word = c.word
  BY <1>1, RestartFields
<1>3. Alike(r, c)
  BY <1>2 DEF Alike, Same
<1>4. Replay(l, c, c.keys) = r
  BY <1>1, ReplayNone, Zenon
<1>. QED BY <1>3, <1>4 DEF Told

\* Whatever is told of c is told of a context that is like it.
LEMMA ToldAlike ==
  ASSUME NEW l, NEW c \in Context, NEW d \in Context, d.word = c.word,
         Alike(Replay(l, c, d.keys), d)
  PROVE  Told(l, d)
<1>1. d.keys \in Seq(Jamo)
  BY ContextFields
<1>2. Alike(Replay(l, c, d.keys), Replay(l, d, d.keys))
  BY <1>1, ReplayAlike
<1>. QED BY <1>2 DEF Told, Alike, Same

LEMMA ProcessTold ==
  ASSUME NEW l, NEW c \in Context, Told(l, c), NEW jamo \in Jamo, NEW r, r = ProcessJamo(l, c, jamo)
  PROVE  Told(l, r)
<1>0. /\ r \in Context /\ r.word = c.word
      /\ r.keys = (IF c.word THEN Append(c.keys, jamo) ELSE c.keys)
  BY ProcessFields
<1>. SUFFICES ASSUME r.word PROVE Told(l, r)
  BY DEF Told
<1>1. r \in Context /\ r.word = c.word /\ (c.word => r.keys = Append(c.keys, jamo))
  BY <1>0
<1>2. PICK n : n = Noted(c, jamo)
  OBVIOUS
<1>3. n \in Context /\ Same(c, n) /\ n.buffer = c.buffer /\ n.word = c.word
  BY <1>2, NotedFields
<1>4. r = ComposeAndRoute(l, n, jamo)
  BY <1>2 DEF ProcessJamo, Noted
<1>5. c.keys \in Seq(Jamo)
  BY ContextFields
<1>6. Alike(Replay(l, c, c.keys), n)
  BY <1>1, <1>3 DEF Told, Alike, Same
<1>7. Alike(Replay(l, c, Append(c.keys, jamo)), r)
  BY <1>3, <1>4, <1>5, <1>6, RouteReplay
<1>8. r.keys = Append(c.keys, jamo)
  BY <1>1
<1>. QED BY <1>1, <1>7, <1>8, ToldAlike

LEMMA FlushTold ==
  ASSUME NEW l, NEW c, Proper(c), Held(c), NEW r, r = FlushPreedit(l, c)
  PROVE  /\ r \in Context /\ r.queue = <<>> /\ r.cur = Empty /\ r.buffer = <<>> /\ r.keys = <<>>
<1>0. c \in Context /\ c.done = <<>>
  BY DEF Proper
<1>1. CASE IsComposing(c)
  <2>1. r \in Context /\ Blank(r)
    BY <1>0, <1>1, FlushFields
  <2>. QED BY <2>1 DEF Blank
<1>2. CASE ~IsComposing(c)
  <2>1. r = c
    BY <1>0, <1>2, FlushFields
  <2>2. c.queue = <<>> /\ Shown(c.cur) = <<>> /\ c.buffer = <<>>
    BY <1>2 DEF IsComposing
  <2>3. c.cur = Empty
    BY <1>0, <2>2, ContextFields, ShownNone
  <2>4. c.keys = <<>>
    BY <2>2 DEF Held
  <2>. QED BY <1>0, <2>1, <2>2, <2>3, <2>4
<1>. QED BY <1>1, <1>2

\* A Backspace leaves the mode, and in a word that composes, the word of the
\* keys before the last.
LEMMA BackspaceTold ==
  ASSUME NEW l, NEW c, Proper(c), Told(l, c), IsComposing(c), NEW r, r = BackspaceContext(l, c)
  PROVE  Told(l, r)
<1>0. c \in Context /\ c.done = <<>> /\ c.keys \in Seq(Jamo) /\ c.cur \in Char /\ c.word \in BOOLEAN
  BY ContextFields DEF Proper
<1>1. CASE ~c.word
  <2>1. \/ r = BackspaceChord(l, c)
        \/ r = RemoveJamo(l, c)
    BY <1>1 DEF BackspaceContext
  <2>2. CASE r = RemoveJamo(l, c)
    <3>1. r.word = c.word
      BY <1>0, <2>2, RemoveType DEF Apart
    <3>. QED BY <1>1, <3>1 DEF Told
  <2>3. CASE r = BackspaceChord(l, c) /\ c.order # <<>>
    <3>1. PICK rest : rest = Shortened(c.order)
      OBVIOUS
    <3>2. rest \in Seq(Jamo)
      BY <1>0, <2>3, <3>1, ContextFields, ShortenedType
    <3>3. CASE rest # <<>> /\ Injectable(l, rest)
      <4>1. r = Inject(l, c, rest)
        BY <2>3, <3>1, <3>3 DEF BackspaceChord
      <4>2. r.word = c.word
        BY <1>0, <3>2, <3>3, <4>1, InjectFields
      <4>. QED BY <1>1, <4>2 DEF Told
    <3>4. CASE ~(rest # <<>> /\ Injectable(l, rest))
      <4>1. PICK clear : clear = ClearComposer(c)
        OBVIOUS
      <4>2. clear \in Context /\ clear.word = c.word
        BY <1>0, <4>1, ClearFields DEF Apart
      <4>3. r = [clear EXCEPT !.order = <<>>]
        BY <2>3, <3>1, <3>4, <4>1 DEF BackspaceChord
      <4>4. r.word = clear.word
        BY <4>2, <4>3 DEF Context
      <4>. QED BY <1>1, <4>2, <4>4 DEF Told
    <3>. QED BY <3>3, <3>4
  <2>4. c.order = <<>> => r = RemoveJamo(l, c)
    BY <1>1 DEF BackspaceContext
  <2>. QED BY <2>1, <2>2, <2>3, <2>4
<1>2. CASE c.word
  <2>1. c.keys # <<>>
    <3>1. SUFFICES ASSUME c.keys = <<>> PROVE FALSE
      OBVIOUS
    <3>2. PICK s : s = Restart(c)
      OBVIOUS
    <3>3. s.queue = <<>> /\ s.cur = Empty /\ s.buffer = <<>>
      BY <1>0, <3>2, RestartFields
    <3>4. Replay(l, c, c.keys) = s
      BY <1>0, <3>1, <3>2, ReplayNone, Zenon
    <3>5. c.queue = <<>> /\ c.cur = Empty /\ c.buffer = <<>>
      BY <1>2, <3>3, <3>4 DEF Told, Alike, Same
    <3>. QED BY <1>0, <3>5, ShownNone DEF IsComposing
  <2>2. Len(c.keys) \in Nat \ {0} /\ Front(c.keys) \in Seq(Jamo) /\ Len(Front(c.keys)) = Len(c.keys) - 1
    BY <1>0, <2>1, SeqParts
  <2>3. CASE Len(c.keys) = 1
    <3>1. r = ClearComposing(c)
      BY <1>2, <2>3 DEF BackspaceContext
    <3>2. r \in Context /\ Blank(r)
      BY <1>0, <3>1, ClearingFields
    <3>. QED BY <3>2, BlankTold DEF Blank
  <2>4. CASE Len(c.keys) > 1
    <3>1. PICK keys : keys = Front(c.keys)
      OBVIOUS
    <3>2. keys \in Seq(Jamo) /\ keys # <<>>
      BY <2>2, <2>4, <3>1
    <3>3. r = [Replay(l, c, keys) EXCEPT !.keys = keys]
      BY <1>2, <2>2, <2>4, <3>1 DEF BackspaceContext
    <3>4. Proper(r) /\ r.keys = keys /\ Alike(Replay(l, c, keys), r)
      BY <1>2, <3>2, <3>3, ReplayProper
    <3>5. Replay(l, c, keys).word = c.word
      BY <1>0, <3>2, ReplayFields
    <3>6. r \in Context /\ r.word = c.word
      BY <3>4, <3>5 DEF Proper, Alike
    <3>. QED BY <1>0, <3>4, <3>6, ToldAlike
  <2>5. Len(c.keys) = 1 \/ Len(c.keys) > 1
    <3>1. PICK n : n = Len(c.keys)
      OBVIOUS
    <3>2. n \in Nat /\ n # 0
      BY <2>2, <3>1
    <3>3. n = 1 \/ n > 1
      BY <3>2
    <3>. QED BY <3>1, <3>3
  <2>. QED BY <2>3, <2>4, <2>5
<1>. QED BY <1>0, <1>1, <1>2

LEMMA QuietTold ==
  ASSUME HangulInv, Told(layout, ctx), NEW q, q = Quiet
  PROVE  Proper(q) /\ q \in Context /\ Told(layout, q) /\ q.keys = ctx.keys
<1>1. Proper(q) /\ Alike(ctx, q) /\ q.keys = ctx.keys /\ q \in Context /\ ctx \in Context
  BY QuietFields DEF HangulInv, Proper
<1>2. q.word => Alike(Replay(layout, ctx, q.keys), q)
  BY <1>1 DEF Told, Alike, Same
<1>3. q.word = ctx.word
  BY <1>1 DEF Alike
<1>4. CASE q.word
  BY <1>1, <1>2, <1>3, <1>4, ToldAlike
<1>5. CASE ~q.word
  BY <1>1, <1>5 DEF Told
<1>. QED BY <1>1, <1>4, <1>5

LEMMA WordInit == Init => WordInv
<1>. SUFFICES ASSUME Init PROVE WordInv
  OBVIOUS
<1>1. PICK word \in BOOLEAN : ctx = NewContext(word)
  BY DEF Init
<1>2. HangulInv /\ pending = <<>>
  BY HangulInvInit DEF Init
<1>3. ctx \in Context /\ ctx.queue = <<>> /\ ctx.cur = Empty /\ ctx.buffer = <<>> /\ ctx.keys = <<>>
  BY <1>1, <1>2 DEF NewContext, HangulInv, Proper
<1>. QED BY <1>2, <1>3, BlankTold DEF WordInv

LEMMA WordStep == WordInv /\ [Next]_vars => WordInv'
<1>. SUFFICES ASSUME HangulInv, WordInv, [Next]_vars, ~layout'.chord
              PROVE  pending' = <<>> /\ Told(layout, ctx)'
  BY HangulInvNext DEF WordInv
<1>1. layout' = layout
  BY DEF Next, vars, Key, ChordFirst, ChordJoins, ChordBreaks, ChordEnds, Backspace, Confirm,
         SetWordMode
<1>2. ~layout.chord /\ pending = <<>> /\ Told(layout, ctx) /\ Proper(ctx) /\ Held(ctx)
      /\ layout \in Layouts
  BY <1>1 DEF WordInv, HangulInv
<1>3. PICK q : q = Quiet
  OBVIOUS
<1>4. Proper(q) /\ q \in Context /\ Told(layout, q) /\ Held(q)
  BY <1>2, <1>3, QuietTold, QuietFields
<1>5. Finalized(q) = q
  BY <1>2 DEF Finalized
<1>6. ASSUME NEW jamo \in Keys[layout.type], Key(jamo) PROVE pending' = <<>> /\ Told(layout, ctx')
  <2>1. ctx' = ProcessJamo(layout, q, jamo) /\ pending' = pending
    BY <1>3, <1>6 DEF Key
  <2>2. jamo \in Jamo
    BY <1>2, LayoutType
  <2>. QED BY <1>2, <1>4, <2>1, <2>2, ProcessTold
<1>7. CASE Backspace
  <2>1. ctx' = BackspaceContext(layout, q) /\ IsComposing(q) /\ ChordOver
    BY <1>3, <1>5, <1>7 DEF Backspace
  <2>2. Told(layout, ctx')
    BY <1>4, <2>1, BackspaceTold
  <2>. QED BY <1>1, <2>1, <2>2 DEF ChordOver, Told
<1>8. CASE Confirm
  <2>1. ctx' = FlushPreedit(layout, q) /\ ChordOver
    BY <1>3, <1>5, <1>8 DEF Confirm
  <2>. QED BY <1>4, <2>1, FlushTold, BlankTold DEF ChordOver
<1>9. ASSUME NEW on \in BOOLEAN, SetWordMode(on) PROVE pending' = <<>> /\ Told(layout, ctx')
  <2>1. PICK f : f = FlushPreedit(layout, q)
    OBVIOUS
  <2>2. ctx' = [f EXCEPT !.word = on] /\ pending' = pending
    BY <1>3, <1>9, <2>1 DEF SetWordMode
  <2>3. f \in Context /\ f.queue = <<>> /\ f.cur = Empty /\ f.buffer = <<>> /\ f.keys = <<>>
    BY <1>4, <2>1, FlushTold
  <2>4. ctx' \in Context /\ ctx'.queue = f.queue /\ ctx'.cur = f.cur /\ ctx'.buffer = f.buffer
        /\ ctx'.keys = f.keys
    BY <2>2, <2>3 DEF Context
  <2>. QED BY <1>2, <2>2, <2>3, <2>4, BlankTold
<1>10. ASSUME NEW jamo \in Keys[layout.type], ChordFirst(jamo) \/ ChordJoins(jamo) \/ ChordBreaks(jamo)
       PROVE  FALSE
  BY <1>2, <1>10 DEF ChordFirst, ChordJoins, ChordBreaks
<1>11. ~ChordEnds
  BY <1>2 DEF ChordEnds
<1>12. CASE UNCHANGED vars
  BY <1>2, <1>12 DEF vars
<1>. QED BY <1>1, <1>6, <1>7, <1>8, <1>9, <1>10, <1>11, <1>12 DEF Next

\* Without chords, what a word shows is what its keys compose from nothing: a
\* Backspace, which types all but the last again, changes no syllable it leaves
\* alone (word_keys in input_context.rs).
THEOREM WordKeysTold == Spec => []WordKeysComposeText
<1>1. WordInv => WordKeysComposeText
  BY DEF WordInv, WordKeysComposeText, Told, Alike, Same
<1>. QED BY <1>1, WordInit, WordStep, PTL DEF Spec

-----------------------------------------------------------------------------
(* The areas of a queue and what they spell. *)

Part(q, area) == Spelt(OfArea(q, area))

LEMMA PartNone == ASSUME NEW area PROVE Part(<<>>, area) = <<>>
BY OfAreaNone, SpeltNone, Zenon DEF Part

LEMMA PartAppend ==
  ASSUME NEW q \in Seq(Jamo), NEW jamo \in Jamo, NEW area
  PROVE  /\ Part(q, area) \in Seq(Letter)
         /\ Part(Append(q, jamo), area)
              = IF jamo.area = area THEN Part(q, area) \o jamo.letters ELSE Part(q, area)
<1>1. OfArea(q, area) \in Seq(Jamo)
  BY OfAreaType
<1>2. OfArea(Append(q, jamo), area)
        = IF jamo.area = area THEN Append(OfArea(q, area), jamo) ELSE OfArea(q, area)
  BY OfAreaAppend
<1>3. Spelt(Append(OfArea(q, area), jamo)) = Spelt(OfArea(q, area)) \o jamo.letters
  BY <1>1, SpeltAppend
<1>4. Spelt(OfArea(q, area)) \in Seq(Letter)
  BY <1>1, SpeltType
<1>. QED BY <1>2, <1>3, <1>4 DEF Part

LEMMA PartLetters ==
  ASSUME NEW q \in Seq(Jamo), NEW area
  PROVE  Part(q, area) \in Seq(Letter)
BY OfAreaType, SpeltType DEF Part

\* Nothing is spelt that is of no area.
LEMMA SpeltLength ==
  \A q \in Seq(Jamo) :
    Len(Spelt(q)) = Len(Part(q, "cho")) + Len(Part(q, "jung")) + Len(Part(q, "jong"))
<1>. DEFINE Sum(q) == Len(Part(q, "cho")) + Len(Part(q, "jung")) + Len(Part(q, "jong"))
            T == {q \in Seq(Jamo) : Len(Spelt(q)) = Sum(q)}
<1>1. <<>> \in T
  <2>1. PICK none \in Seq(Jamo) : none = <<>>
    <3>1. <<>> \in Seq(Jamo)
      OBVIOUS
    <3>. QED BY <3>1
  <2>2. \A area : Part(none, area) = <<>>
    BY <2>1, PartNone, Zenon
  <2>3. Spelt(none) = <<>>
    BY <2>1, SpeltNone, Zenon
  <2>4. Len(<<>>) = 0
    OBVIOUS
  <2>5. Len(Spelt(none)) = 0 /\ Sum(none) = 0
    BY <2>2, <2>3, <2>4
  <2>. HIDE DEF Sum
  <2>6. none \in T
    BY <2>5
  <2>. QED BY <2>1, <2>6, Zenon
<1>2. ASSUME NEW q \in Seq(Jamo), NEW jamo \in Jamo, q \in T PROVE Append(q, jamo) \in T
  <2>1. jamo.area \in Areas /\ jamo.letters \in Seq(Letter)
    BY DEF Jamo
  <2>2. PICK n \in Nat : n = Len(jamo.letters)
    BY <2>1, LenProperties
  <2>3. ASSUME NEW area
        PROVE  /\ Len(Part(q, area)) \in Nat
               /\ Len(Part(Append(q, jamo), area))
                    = IF jamo.area = area THEN Len(Part(q, area)) + n ELSE Len(Part(q, area))
    <3>1. Part(q, area) \in Seq(Letter)
      BY PartAppend
    <3>2. Len(Part(q, area) \o jamo.letters) = Len(Part(q, area)) + n /\ Len(Part(q, area)) \in Nat
      BY <2>1, <2>2, <3>1, ConcatProperties, LenProperties
    <3>. QED BY <3>2, PartAppend
  <2>4. /\ Len(Spelt(Append(q, jamo))) = Len(Spelt(q)) + n
    <3>1. Spelt(q) \in Seq(Letter) /\ Spelt(Append(q, jamo)) = Spelt(q) \o jamo.letters
      BY SpeltType, SpeltAppend
    <3>. QED BY <2>1, <2>2, <3>1, ConcatProperties
  <2>5. Sum(Append(q, jamo)) = Sum(q) + n
    BY <2>1, <2>3 DEF Areas
  <2>6. Append(q, jamo) \in Seq(Jamo) /\ Len(Spelt(q)) = Sum(q)
    BY <1>2, AppendProperties
  <2>. HIDE DEF Sum
  <2>. QED BY <2>4, <2>5, <2>6
<1>. HIDE DEF T
<1>3. \A q \in Seq(Jamo) : q \in T
  BY <1>1, <1>2, SeqInduct
<1>. QED BY <1>3 DEF T

LEMMA OfAreaConcat ==
  ASSUME NEW s \in Seq(Jamo), NEW area
  PROVE  \A t \in Seq(Jamo) : OfArea(s \o t, area) = OfArea(s, area) \o OfArea(t, area)
<1>. DEFINE T == {u \in Seq(Jamo) : OfArea(s \o u, area) = OfArea(s, area) \o OfArea(u, area)}
<1>0. OfArea(s, area) \in Seq(Jamo)
  BY OfAreaType
<1>1. <<>> \in T
  <2>1. s \o <<>> = s /\ OfArea(s, area) \o <<>> = OfArea(s, area)
    BY <1>0, ConcatEmptySeq
  <2>2. <<>> \in Seq(Jamo)
    OBVIOUS
  <2>. QED BY <2>1, <2>2, OfAreaNone
<1>2. ASSUME NEW u \in Seq(Jamo), NEW e \in Jamo, u \in T PROVE Append(u, e) \in T
  <2>. DEFINE own == IF e.area = area THEN <<e>> ELSE <<>>
  <2>0. Append(u, e) \in Seq(Jamo) /\ OfArea(u, area) \in Seq(Jamo) /\ s \o u \in Seq(Jamo)
    BY AppendProperties, OfAreaType, ConcatProperties
  <2>1. s \o Append(u, e) = Append(s \o u, e)
    <3>1. Append(u, e) = u \o <<e>> /\ Append(s \o u, e) = (s \o u) \o <<e>> /\ <<e>> \in Seq(Jamo)
      BY <2>0, AppendIsConcat
    <3>2. Regroups(s, u, <<e>>)
      BY <2>0, <3>1, RegroupedAny
    <3>. QED BY <3>1, <3>2 DEF Regroups
  <2>2. own \in Seq(Jamo)
    OBVIOUS
  <2>3. /\ OfArea(Append(s \o u, e), area) = OfArea(s \o u, area) \o own
        /\ OfArea(Append(u, e), area) = OfArea(u, area) \o own
    BY <2>0, OfAreaMaps
  <2>. HIDE DEF own
  <2>4. OfArea(s \o u, area) = OfArea(s, area) \o OfArea(u, area)
    BY <1>2
  <2>5. (OfArea(s, area) \o OfArea(u, area)) \o own = OfArea(s, area) \o (OfArea(u, area) \o own)
    <3>1. Regroups(OfArea(s, area), OfArea(u, area), own)
      BY <1>0, <2>0, <2>2, RegroupedAny
    <3>. QED BY <3>1 DEF Regroups
  <2>6. OfArea(s \o Append(u, e), area) = OfArea(s, area) \o OfArea(Append(u, e), area)
    BY <2>1, <2>3, <2>4, <2>5
  <2>. QED BY <2>0, <2>6
<1>. HIDE DEF T
<1>3. \A u \in Seq(Jamo) : u \in T
  BY <1>1, <1>2, SeqInduct
<1>. QED BY <1>3 DEF T

\* One jamo combines, and so does what comes before the last of jamo that do.
LEMMA CombinesFew ==
  ASSUME NEW l, NEW area, NEW s \in Seq(Jamo), Len(s) \in {0, 1}
  PROVE  Combines(l, area, s)
BY DEF Combines, FoldsLeft

LEMMA CombinesBefore ==
  ASSUME NEW l, NEW area, NEW s \in Seq(Jamo), NEW jamo \in Jamo, Combines(l, area, Append(s, jamo))
  PROVE  Combines(l, area, s)
<1>1. PICK t : t = Append(s, jamo)
  OBVIOUS
<1>2. /\ t \in Seq(Jamo) /\ Len(t) = Len(s) + 1 /\ Len(s) \in Nat
      /\ \A i \in 1..Len(s) : t[i] = s[i]
  BY <1>1, AppendProperties
<1>3. ASSUME NEW n \in 2..Len(s) PROVE SubSeq(t, 1, n - 1) = SubSeq(s, 1, n - 1)
  <2>1. n - 1 \in 1..Len(s) /\ n \in Nat
    BY <1>2, <1>3
  <2>. QED BY <1>2, <2>1
<1>4. FoldsLeft(l, area, t) /\ (area = "jung" /\ Len(t) > 1 => t[1].head)
  BY <1>1 DEF Combines
<1>5. FoldsLeft(l, area, s)
  <2>. SUFFICES ASSUME NEW n \in 2..Len(s)
                PROVE  Joins(l, area, Spelt(SubSeq(s, 1, n - 1)), s[n].letters)
    BY DEF FoldsLeft
  <2>1. n \in 2..Len(t) /\ n \in 1..Len(s)
    BY <1>2
  <2>2. Joins(l, area, Spelt(SubSeq(t, 1, n - 1)), t[n].letters)
    BY <1>4, <2>1 DEF FoldsLeft
  <2>. QED BY <1>2, <1>3, <2>1, <2>2
<1>6. area = "jung" /\ Len(s) > 1 => s[1].head
  BY <1>2, <1>4
<1>. QED BY <1>5, <1>6 DEF Combines

LEMMA AreaBefore ==
  ASSUME NEW l, NEW area, NEW q \in Seq(Jamo), NEW jamo \in Jamo,
         Combines(l, area, OfArea(Append(q, jamo), area))
  PROVE  Combines(l, area, OfArea(q, area))
<1>1. OfArea(q, area) \in Seq(Jamo)
  BY OfAreaType
<1>2. OfArea(Append(q, jamo), area)
        = IF jamo.area = area THEN Append(OfArea(q, area), jamo) ELSE OfArea(q, area)
  BY OfAreaAppend
<1>3. CASE jamo.area = area
  <2>1. Combines(l, area, Append(OfArea(q, area), jamo))
    BY <1>2, <1>3
  <2>. QED BY <1>1, <2>1, CombinesBefore
<1>4. CASE jamo.area # area
  BY <1>2, <1>4
<1>. QED BY <1>3, <1>4

LEMMA ComposesFront ==
  ASSUME NEW l, NEW q \in Seq(Jamo), q # <<>>, Composes(l, q)
  PROVE  Composes(l, Front(q))
<1>1. Front(q) \in Seq(Jamo) /\ Last(q) \in Jamo /\ q = Append(Front(q), Last(q))
  BY SeqParts
<1>2. \A area \in Areas : Combines(l, area, OfArea(Append(Front(q), Last(q)), area))
  BY <1>1 DEF Composes
<1>. QED BY <1>1, <1>2, AreaBefore DEF Composes

LEMMA ComposesOne ==
  ASSUME NEW l, NEW jamo \in Jamo
  PROVE  Composes(l, <<jamo>>)
<1>. SUFFICES ASSUME NEW area \in Areas PROVE Combines(l, area, OfArea(<<jamo>>, area))
  BY DEF Composes
<1>1. OfArea(<<jamo>>, area) = IF jamo.area = area THEN <<jamo>> ELSE <<>>
  BY OfAreaOne
<1>2. PICK s : s = OfArea(<<jamo>>, area)
  OBVIOUS
<1>3. s \in Seq(Jamo) /\ Len(s) \in {0, 1}
  <2>1. PICK one \in Seq(Jamo) : one = <<jamo>> /\ Len(one) = 1
    <3>1. <<jamo>> \in Seq(Jamo) /\ Len(<<jamo>>) = 1
      OBVIOUS
    <3>. QED BY <3>1
  <2>2. PICK none \in Seq(Jamo) : none = <<>> /\ Len(none) = 0
    <3>1. <<>> \in Seq(Jamo) /\ Len(<<>>) = 0
      OBVIOUS
    <3>. QED BY <3>1
  <2>3. s = one \/ s = none
    BY <1>1, <1>2, <2>1, <2>2, Zenon
  <2>. QED BY <2>1, <2>2, <2>3, Zenon
<1>. QED BY <1>2, <1>3, CombinesFew

-----------------------------------------------------------------------------
(* What the queue and the syllable say of each other. *)

\* The syllable holds what each area of the queue spells.
Whole(l, c) ==
  \A area \in Areas :
    Combines(l, area, OfArea(c.queue, area)) /\ c.cur[area] = Part(c.queue, area)

\* One key of a two-set keyboard has one letter.
Single(l, q) == l.type = "2bul" => \A i \in 1..Len(q) : Len(q[i].letters) = 1

\* An area the syllable does not hold in full has more letters in the queue; what
\* comes before the last jamo composes.
Sound(l, c) ==
  /\ \A area \in Areas :
       \/ Combines(l, area, OfArea(c.queue, area)) /\ c.cur[area] = Part(c.queue, area)
       \/ Len(c.cur[area]) < Len(Part(c.queue, area))
  /\ c.queue # <<>> => Composes(l, Front(c.queue))
  /\ Single(l, c.queue)

LEMMA WholeSound ==
  ASSUME NEW l, NEW c \in Context, Whole(l, c), Single(l, c.queue)
  PROVE  Sound(l, c)
<1>1. Composes(l, c.queue)
  BY DEF Whole, Composes
<1>2. c.queue # <<>> => Composes(l, Front(c.queue))
  BY <1>1, ContextFields, ComposesFront
<1>. QED BY <1>2 DEF Sound, Whole

LEMMA SoundSame ==
  ASSUME NEW l, NEW c, NEW d, Same(c, d)
  PROVE  (Sound(l, c) <=> Sound(l, d)) /\ (Whole(l, c) <=> Whole(l, d))
BY DEF Same, Sound, Whole

LEMMA SingleAppend ==
  ASSUME NEW l, NEW q \in Seq(Jamo), Single(l, q), NEW jamo \in Jamo,
         l.type = "2bul" => Len(jamo.letters) = 1
  PROVE  Single(l, Append(q, jamo)) /\ Single(l, <<jamo>>)
<1>1. PICK more : more = Append(q, jamo)
  OBVIOUS
<1>2. /\ Len(more) = Len(q) + 1 /\ Len(q) \in Nat /\ more[Len(q) + 1] = jamo
      /\ \A i \in 1..Len(q) : more[i] = q[i]
  BY <1>1, AppendProperties
<1>3. \A i \in 1..Len(more) : i \in 1..Len(q) \/ i = Len(q) + 1
  BY <1>2
<1>4. Single(l, more)
  BY <1>2, <1>3 DEF Single
<1>5. Single(l, <<jamo>>)
  BY DEF Single
<1>. QED BY <1>1, <1>4, <1>5

LEMMA SingleFront ==
  ASSUME NEW l, NEW q \in Seq(Jamo), q # <<>>, Single(l, q)
  PROVE  Single(l, Front(q)) /\ (l.type = "2bul" => Len(Last(q).letters) = 1)
<1>1. PICK s, e : s = Front(q) /\ e = Last(q)
  OBVIOUS
<1>2. s \in Seq(Jamo) /\ e \in Jamo /\ q = Append(s, e)
  BY <1>1, SeqParts
<1>3. /\ Len(q) = Len(s) + 1 /\ Len(s) \in Nat /\ q[Len(s) + 1] = e
      /\ \A i \in 1..Len(s) : q[i] = s[i]
  BY <1>2, AppendProperties
<1>4. \A i \in 1..Len(s) : i \in 1..Len(q)
  BY <1>3
<1>5. Len(s) + 1 \in 1..Len(q)
  BY <1>3
<1>6. Single(l, s)
  BY <1>3, <1>4 DEF Single
<1>7. l.type = "2bul" => Len(e.letters) = 1
  BY <1>3, <1>5 DEF Single
<1>. QED BY <1>1, <1>6, <1>7

\* What compose_korean makes of a queue that composes.
LEMMA KoreanWhole ==
  ASSUME NEW l, NEW c \in Context, Composes(l, c.queue)
  PROVE  Whole(l, ComposeKorean(l, c))
<1>1. PICK k : k = ComposeKorean(l, c)
  OBVIOUS
<1>2. /\ k.queue = c.queue
      /\ \A area \in Areas :
           k.cur[area] = IF Combines(l, area, OfArea(c.queue, area)) THEN Spelt(OfArea(c.queue, area))
                         ELSE c.cur[area]
  BY <1>1, KoreanType
<1>. QED BY <1>1, <1>2 DEF Whole, Composes, Part

\* add_jamo_with: the jamo joins the queue, or begins the next.
LEMMA AddWhole ==
  ASSUME NEW l, NEW c \in Context, NEW jamo \in Jamo, NEW r, r = AddJamoWith(l, c, jamo)
  PROVE  /\ r \in Context /\ Apart(c, r) /\ Whole(l, r)
         /\ \/ Fits(l, Pushed(c, jamo)) /\ r.queue = Append(c.queue, jamo) /\ r.done = <<>>
            \/ ~Fits(l, Pushed(c, jamo)) /\ r.queue = <<jamo>>
               /\ r.done = Complete(Kept(l, c, jamo).cur)
<1>0. r \in Context /\ Apart(c, r)
  BY AddType
<1>1. CASE Fits(l, Pushed(c, jamo))
  <2>1. PICK p : p = Pushed(c, jamo)
    OBVIOUS
  <2>2. p \in Context /\ p.queue = Append(c.queue, jamo) /\ p.done = <<>>
    BY <2>1, PushedType
  <2>3. ~Violates(l, p) /\ Composes(l, p.queue)
    BY <1>1, <2>1 DEF Fits
  <2>4. r = ComposeKorean(l, p)
    BY <1>1, <2>1, <2>3, AddSteps DEF Compose
  <2>5. r.queue = p.queue /\ r.done = p.done
    BY <2>2, <2>4, KoreanType
  <2>6. Whole(l, r)
    BY <2>2, <2>3, <2>4, KoreanWhole
  <2>. QED BY <1>0, <1>1, <2>2, <2>5, <2>6
<1>2. CASE ~Fits(l, Pushed(c, jamo))
  <2>1. PICK b : b = Begun(l, c, jamo)
    OBVIOUS
  <2>2. b \in Context /\ b.queue = <<jamo>> /\ b.done = Complete(Kept(l, c, jamo).cur)
    BY <2>1, BegunType
  <2>3. ~Violates(l, b)
    <3>1. Len(<<jamo>>) = 1
      OBVIOUS
    <3>. QED BY <2>2, <3>1 DEF Violates
  <2>4. Composes(l, b.queue)
    BY <2>2, ComposesOne
  <2>5. r = ComposeKorean(l, b)
    BY <1>2, <2>1, <2>3, AddSteps DEF Compose
  <2>6. r.queue = b.queue /\ r.done = b.done
    BY <2>2, <2>5, KoreanType
  <2>7. Whole(l, r)
    BY <2>2, <2>4, <2>5, KoreanWhole
  <2>. QED BY <1>0, <1>2, <2>2, <2>6, <2>7
<1>. QED BY <1>1, <1>2

\* The first jamo of a syllable fits.
LEMMA FirstFits ==
  ASSUME NEW l, NEW c \in Context, c.queue = <<>>, NEW jamo \in Jamo
  PROVE  Fits(l, Pushed(c, jamo))
<1>1. PICK p : p = Pushed(c, jamo)
  OBVIOUS
<1>2. p.queue = Append(c.queue, jamo)
  BY <1>1, PushedType
<1>3. p.queue = <<jamo>>
  BY <1>2
<1>4. Len(<<jamo>>) = 1
  OBVIOUS
<1>5. ~Violates(l, p)
  BY <1>3, <1>4 DEF Violates
<1>6. Composes(l, p.queue)
  BY <1>3, ComposesOne
<1>. QED BY <1>1, <1>5, <1>6 DEF Fits

\* A jamo that does not fit leaves a whole syllable as it was.
LEMMA KeptCur ==
  ASSUME NEW l, NEW c \in Context, Whole(l, c), NEW jamo \in Jamo, ~Fits(l, Pushed(c, jamo))
  PROVE  Kept(l, c, jamo).cur = c.cur
<1>1. PICK p : p = Pushed(c, jamo)
  OBVIOUS
<1>2. PICK tried : tried = Compose(l, p)
  OBVIOUS
<1>3. PICK k : k = Retried(l, c, jamo)
  OBVIOUS
<1>4. p \in Context /\ p.queue = Append(c.queue, jamo) /\ p.cur = c.cur
  BY <1>1, PushedType
<1>5. k \in Context /\ k.queue = c.queue /\ k.cur = tried.cur
  BY <1>1, <1>2, <1>3, KeptType
<1>6. c.cur \in Char /\ c.queue \in Seq(Jamo) /\ tried \in Context
  BY <1>2, <1>4, ContextFields, ComposeType
<1>7. tried.cur = c.cur
  <2>1. CASE Violates(l, p)
    BY <1>2, <1>4, <2>1 DEF Compose
  <2>2. CASE ~Violates(l, p)
    <3>1. tried = ComposeKorean(l, p)
      BY <1>2, <2>2 DEF Compose
    <3>2. PICK b \in Areas : ~Combines(l, b, OfArea(p.queue, b))
      BY <1>1, <2>2 DEF Fits, Composes
    <3>3. ASSUME NEW area \in Areas, jamo.area # area
          PROVE  OfArea(p.queue, area) = OfArea(c.queue, area)
      BY <1>4, <1>6, <3>3, OfAreaAppend
    <3>4. b = jamo.area
      BY <3>2, <3>3 DEF Whole
    <3>5. ASSUME NEW area \in Areas PROVE tried.cur[area] = c.cur[area]
      <4>1. tried.cur[area] = IF Combines(l, area, OfArea(p.queue, area))
                              THEN Spelt(OfArea(p.queue, area)) ELSE p.cur[area]
        BY <1>4, <3>1, KoreanType
      <4>2. CASE area = b
        BY <1>4, <3>2, <4>1, <4>2
      <4>3. CASE area # b
        BY <1>4, <3>3, <3>4, <4>1, <4>3 DEF Whole, Part
      <4>. QED BY <4>2, <4>3
    <3>. QED BY <1>6, <3>5, ContextFields, CharEqual
  <2>. QED BY <2>1, <2>2
<1>8. Kept(l, c, jamo) = Compose(l, k)
  BY <1>3 DEF Kept
<1>9. CASE Violates(l, k)
  BY <1>5, <1>7, <1>8, <1>9 DEF Compose
<1>10. CASE ~Violates(l, k)
  <2>1. PICK z : z = ComposeKorean(l, k)
    OBVIOUS
  <2>2. Kept(l, c, jamo) = z
    BY <1>8, <1>10, <2>1 DEF Compose
  <2>3. z \in Context /\ z.queue = c.queue
    BY <1>5, <2>1, KoreanType
  <2>4. ASSUME NEW area \in Areas PROVE z.cur[area] = c.cur[area]
    <3>1. z.cur[area] = IF Combines(l, area, OfArea(k.queue, area))
                        THEN Spelt(OfArea(k.queue, area)) ELSE k.cur[area]
      BY <1>5, <2>1, KoreanType
    <3>. QED BY <1>5, <3>1 DEF Whole, Part
  <2>5. z.cur = c.cur
    BY <1>6, <2>3, <2>4, ContextFields, CharEqual
  <2>. QED BY <2>2, <2>5
<1>. QED BY <1>9, <1>10

\* A composition that is one character, spelt in its keys' order, is whole.
LEMMA SettledWhole ==
  ASSUME NEW l, NEW c \in Context, Sound(l, c), ~Unsettled(c)
  PROVE  /\ Whole(l, c) /\ Letters(Shown(c.cur)) = Spelt(c.queue)
         /\ Letters(Shown(c.cur)) = c.cur["cho"] \o c.cur["jung"] \o c.cur["jong"]
         /\ c.queue # <<>> => Complete(c.cur) = <<c.cur>>
<1>1. c.queue \in Seq(Jamo) /\ c.cur \in Char
  BY ContextFields
<1>2. Letters(Shown(c.cur)) = c.cur["cho"] \o c.cur["jung"] \o c.cur["jong"]
  BY <1>1, ShownLetters
<1>3. /\ c.cur["cho"] \in Seq(Letter) /\ c.cur["jung"] \in Seq(Letter) /\ c.cur["jong"] \in Seq(Letter)
      /\ \A area \in Areas : c.cur[area] \in Seq(Letter)
  BY <1>1, CharParts
<1>4. \A area \in Areas : Len(c.cur[area]) \in Nat /\ Len(Part(c.queue, area)) \in Nat
  BY <1>1, <1>3, PartLetters, LenProperties
<1>5. CASE c.queue = <<>>
  <2>1. \A area \in Areas : Part(c.queue, area) = <<>>
    BY <1>5, PartNone, Zenon
  <2>2. Len(<<>>) = 0
    OBVIOUS
  <2>3. \A area \in Areas : ~(Len(c.cur[area]) < Len(Part(c.queue, area)))
    BY <1>4, <2>1, <2>2
  <2>4. Whole(l, c)
    BY <2>3 DEF Sound, Whole
  <2>5. c.cur["cho"] = <<>> /\ c.cur["jung"] = <<>> /\ c.cur["jong"] = <<>>
    BY <2>1, <2>4 DEF Whole, Areas
  <2>6. <<>> \o <<>> \o <<>> = <<>>
    OBVIOUS
  <2>7. Spelt(c.queue) = <<>>
    BY <1>5, SpeltNone, Zenon
  <2>8. Letters(Shown(c.cur)) = Spelt(c.queue)
    BY <1>2, <2>5, <2>6, <2>7
  <2>. QED BY <1>2, <1>5, <2>4, <2>8
<1>6. CASE c.queue # <<>>
  <2>1. Complete(c.cur) # <<>> /\ Spelt(c.queue) = Letters(Shown(c.cur))
    BY <1>6 DEF Unsettled
  <2>2. Complete(c.cur) = <<c.cur>>
    BY <1>1, <2>1, CompleteType
  <2>3. PICK x, y, z : x = c.cur["cho"] /\ y = c.cur["jung"] /\ z = c.cur["jong"]
    OBVIOUS
  <2>4. Len(x \o y \o z) = Len(x) + Len(y) + Len(z)
    <3>1. x \in Seq(Letter) /\ y \in Seq(Letter) /\ z \in Seq(Letter)
      BY <1>3, <2>3
    <3>. QED BY <3>1, ConcatProperties, LenProperties
  <2>5. Len(Spelt(c.queue))
          = Len(Part(c.queue, "cho")) + Len(Part(c.queue, "jung")) + Len(Part(c.queue, "jong"))
    BY <1>1, SpeltLength
  <2>6. Len(x) + Len(y) + Len(z)
          = Len(Part(c.queue, "cho")) + Len(Part(c.queue, "jung")) + Len(Part(c.queue, "jong"))
    BY <1>2, <2>1, <2>3, <2>4, <2>5
  <2>7. \A area \in Areas : Len(c.cur[area]) <= Len(Part(c.queue, area))
    BY <1>4 DEF Sound
  <2>8. \A area \in Areas : ~(Len(c.cur[area]) < Len(Part(c.queue, area)))
    <3>1. /\ Len(x) \in Nat /\ Len(y) \in Nat /\ Len(z) \in Nat
          /\ Len(Part(c.queue, "cho")) \in Nat /\ Len(Part(c.queue, "jung")) \in Nat
          /\ Len(Part(c.queue, "jong")) \in Nat
          /\ Len(x) <= Len(Part(c.queue, "cho")) /\ Len(y) <= Len(Part(c.queue, "jung"))
          /\ Len(z) <= Len(Part(c.queue, "jong"))
      BY <1>4, <2>3, <2>7 DEF Areas
    <3>2. /\ Len(x) = Len(Part(c.queue, "cho")) /\ Len(y) = Len(Part(c.queue, "jung"))
          /\ Len(z) = Len(Part(c.queue, "jong"))
      BY <2>6, <3>1
    <3>. QED BY <2>3, <3>1, <3>2 DEF Areas
  <2>9. Whole(l, c)
    BY <2>8 DEF Sound, Whole
  <2>. QED BY <1>2, <2>1, <2>2, <2>9
<1>. QED BY <1>5, <1>6

-----------------------------------------------------------------------------
(* What a jamo adds to the text. *)

\* add_jamo_with: the letters that are returned and those that are composed are
\* those there were, and the jamo's after them.
LEMMA AddText ==
  ASSUME NEW l, NEW c \in Context, Sound(l, c), ~Unsettled(c), NEW jamo \in Jamo,
         NEW r, r = AddJamoWith(l, c, jamo)
  PROVE  /\ Letters(r.done) \o Spelt(r.queue) = Spelt(c.queue) \o jamo.letters
         /\ r.done = <<>> => r.queue = Append(c.queue, jamo)
<1>0. /\ c.queue \in Seq(Jamo) /\ c.cur \in Char /\ Spelt(c.queue) \in Seq(Letter)
      /\ jamo.letters \in Seq(Letter)
  BY ContextFields, SpeltType DEF Jamo
<1>1. /\ Whole(l, c) /\ Letters(Shown(c.cur)) = Spelt(c.queue)
      /\ Letters(Shown(c.cur)) = c.cur["cho"] \o c.cur["jung"] \o c.cur["jong"]
      /\ c.queue # <<>> => Complete(c.cur) = <<c.cur>>
  BY SettledWhole
<1>2. CASE Fits(l, Pushed(c, jamo))
  <2>1. r.queue = Append(c.queue, jamo) /\ r.done = <<>>
    BY <1>2, AddWhole
  <2>2. Spelt(r.queue) = Spelt(c.queue) \o jamo.letters
    BY <1>0, <2>1, SpeltAppend
  <2>3. Letters(r.done) = <<>>
    BY <2>1, LettersNone, Zenon
  <2>4. Spelt(c.queue) \o jamo.letters \in Seq(Letter)
    BY <1>0, ConcatProperties
  <2>5. <<>> \o (Spelt(c.queue) \o jamo.letters) = Spelt(c.queue) \o jamo.letters
    BY <2>4, ConcatEmptySeq
  <2>. QED BY <2>1, <2>2, <2>3, <2>5
<1>3. CASE ~Fits(l, Pushed(c, jamo))
  <2>1. r.queue = <<jamo>> /\ r.done = Complete(Kept(l, c, jamo).cur)
    BY <1>3, AddWhole
  <2>2. c.queue # <<>>
    BY <1>3, FirstFits
  <2>3. r.done = <<c.cur>>
    BY <1>1, <1>3, <2>1, <2>2, KeptCur
  <2>4. Letters(r.done) = Spelt(c.queue)
    BY <1>0, <1>1, <2>3, LettersOne
  <2>5. Spelt(r.queue) = jamo.letters
    BY <2>1, SpeltOne
  <2>6. r.done # <<>>
    BY <2>3
  <2>. QED BY <2>4, <2>5, <2>6
<1>. QED BY <1>2, <1>3

\* The same suffix can be taken from two sequences.
LEMMA SameBefore ==
  ASSUME NEW V, NEW s \in Seq(V), NEW t \in Seq(V), NEW e \in Seq(V), s \o e = t \o e
  PROVE  s = t
BY ConcatSimplifications

\* What remains of a syllable without its last jamo, a final consonant, is one
\* character too, and spells what remains of the queue.
LEMMA FrontSettled ==
  ASSUME NEW l, NEW c \in Context, Sound(l, c), ~Unsettled(c), c.queue # <<>>,
         Last(c.queue).area = "jong", Front(c.queue) # <<>>,
         NEW k, k = ComposeKorean(l, [c EXCEPT !.queue = Front(@)])
  PROVE  Complete(k.cur) = <<k.cur>> /\ Letters(<<k.cur>>) = Spelt(Front(c.queue))
<1>1. PICK f : f = [c EXCEPT !.queue = Front(@)]
  OBVIOUS
<1>2. f \in Context /\ f.queue = Front(c.queue)
  BY <1>1, FrontSet
<1>3. Composes(l, f.queue)
  BY <1>2 DEF Sound
<1>4. k \in Context /\ k.queue = f.queue /\ Whole(l, k)
  BY <1>1, <1>2, <1>3, KoreanType, KoreanWhole
<1>5. PICK q, jong : q = Front(c.queue) /\ jong = Last(c.queue)
  OBVIOUS
<1>6. q \in Seq(Jamo) /\ jong \in Jamo /\ c.queue = Append(q, jong) /\ jong.area = "jong" /\ q # <<>>
  BY <1>5, ContextFields, SeqParts
<1>7. PICK x, y, z, e : /\ x = Part(q, "cho") /\ y = Part(q, "jung") /\ z = Part(q, "jong")
                        /\ e = jong.letters
  OBVIOUS
<1>8. x \in Seq(Letter) /\ y \in Seq(Letter) /\ z \in Seq(Letter) /\ e \in Seq(Letter) \ {<<>>}
  BY <1>6, <1>7, PartLetters DEF Jamo
<1>9. k.cur \in Char /\ k.cur["cho"] = x /\ k.cur["jung"] = y /\ k.cur["jong"] = z
  BY <1>2, <1>4, <1>5, <1>7, ContextFields DEF Whole, Areas
<1>10. /\ Part(c.queue, "cho") = x /\ Part(c.queue, "jung") = y /\ Part(c.queue, "jong") = z \o e
  <2>1. \A area : Part(c.queue, area) = IF jong.area = area THEN Part(q, area) \o jong.letters
                                         ELSE Part(q, area)
    <3>1. ASSUME NEW area
          PROVE  Part(Append(q, jong), area) = IF jong.area = area THEN Part(q, area) \o jong.letters
                                               ELSE Part(q, area)
      BY <1>6, PartAppend
    <3>. QED BY <1>6, <3>1
  <2>. QED BY <1>6, <1>7, <2>1
<1>11. /\ Whole(l, c) /\ Letters(Shown(c.cur)) = Spelt(c.queue)
       /\ Letters(Shown(c.cur)) = c.cur["cho"] \o c.cur["jung"] \o c.cur["jong"]
       /\ Complete(c.cur) = <<c.cur>>
  BY SettledWhole
<1>12. c.cur["cho"] = x /\ c.cur["jung"] = y /\ c.cur["jong"] = z \o e
  BY <1>10, <1>11 DEF Whole, Areas
<1>13. x \o y \o (z \o e) = Spelt(q) \o e
  BY <1>6, <1>7, <1>11, <1>12, SpeltAppend
<1>14. x \o y \o z = Spelt(q)
  <2>1. x \o y \o (z \o e) = (x \o y \o z) \o e
    <3>1. PICK p : p = x \o y
      OBVIOUS
    <3>2. p \in Seq(Letter)
      BY <1>8, <3>1, Regrouped
    <3>3. Regroups(p, z, e)
      BY <1>8, <3>2, Regrouped
    <3>. QED BY <3>1, <3>3 DEF Regroups
  <2>2. x \o y \o z \in Seq(Letter) /\ Spelt(q) \in Seq(Letter)
    BY <1>6, <1>8, ConcatProperties, SpeltType
  <2>. QED BY <1>8, <1>13, <2>1, <2>2, SameBefore
<1>15. Letters(<<k.cur>>) = Spelt(q)
  BY <1>9, <1>14, LettersOne
<1>16. Complete(k.cur) # <<>>
  <2>0. z \o e # <<>>
    BY <1>8, ConcatEqualIffEmpty
  <2>1. Filled(c.cur)
          = {area \in Areas : area = "jong" \/ (area = "cho" /\ x # <<>>) \/ (area = "jung" /\ y # <<>>)}
    BY <1>12, <2>0 DEF Filled, Areas
  <2>2. \/ {"cho", "jung"} \subseteq Filled(c.cur)
        \/ Cardinality(Filled(c.cur)) = 1
    BY <1>11 DEF Complete
  <2>3. CASE {"cho", "jung"} \subseteq Filled(c.cur)
    <3>1. x # <<>> /\ y # <<>>
      BY <2>1, <2>3
    <3>2. {"cho", "jung"} \subseteq Filled(k.cur)
      BY <1>9, <3>1 DEF Filled, Areas
    <3>. QED BY <3>2 DEF Complete
  <2>4. CASE Cardinality(Filled(c.cur)) = 1
    <3>1. PICK m : Filled(c.cur) = {m}
      <4>1. IsFiniteSet(Filled(c.cur))
        <5>1. Filled(c.cur) \subseteq {"cho", "jung", "jong"}
          BY DEF Filled, Areas
        <5>2. IsFiniteSet({"cho", "jung", "jong"})
          <6>1. IsFiniteSet({"cho"})
            BY FS_Singleton
          <6>2. IsFiniteSet({"cho"} \cup {"jung"})
            BY <6>1, FS_AddElement
          <6>3. IsFiniteSet(({"cho"} \cup {"jung"}) \cup {"jong"})
            BY <6>2, FS_AddElement
          <6>4. ({"cho"} \cup {"jung"}) \cup {"jong"} = {"cho", "jung", "jong"}
            OBVIOUS
          <6>. QED BY <6>3, <6>4
        <5>. QED BY <5>1, <5>2, FS_Subset
      <4>. QED BY <2>4, <4>1, FS_Singleton
    <3>2. x = <<>> /\ y = <<>>
      <4>1. PICK none : none = <<>>
        OBVIOUS
      <4>2. "jong" = m
        <5>1. "jong" \in Filled(c.cur)
          BY <2>1 DEF Areas
        <5>. QED BY <3>1, <5>1
      <4>3. "cho" \notin Filled(c.cur) /\ "jung" \notin Filled(c.cur)
        BY <3>1, <4>2
      <4>4. x # none => "cho" \in Filled(c.cur)
        BY <2>1, <4>1 DEF Areas
      <4>5. y # none => "jung" \in Filled(c.cur)
        BY <2>1, <4>1 DEF Areas
      <4>6. x = none /\ y = none
        BY <4>3, <4>4, <4>5
      <4>. QED BY <4>1, <4>6
    <3>3. z # <<>>
      <4>1. <<>> \o <<>> \o <<>> = <<>>
        OBVIOUS
      <4>2. Spelt(q) # <<>>
        BY <1>6, SpeltSome
      <4>. QED BY <1>14, <3>2, <4>1, <4>2
    <3>4. Filled(k.cur) = {"jong"}
      BY <1>9, <3>2, <3>3 DEF Filled, Areas
    <3>5. Cardinality({"jong"}) = 1
      BY FS_Singleton
    <3>. QED BY <3>4, <3>5 DEF Complete
  <2>. QED BY <2>2, <2>3, <2>4
<1>17. Complete(k.cur) = <<k.cur>>
  BY <1>9, <1>16, CompleteType
<1>. QED BY <1>5, <1>15, <1>17

\* A lone jamo is what it spells.
LEMMA LoneText ==
  ASSUME NEW l, NEW c \in Context, Whole(l, c), NEW jamo \in Jamo, c.queue = <<jamo>>
  PROVE  Letters(Shown(c.cur)) = jamo.letters
<1>1. jamo.letters \in Seq(Letter) /\ jamo.area \in Areas
  BY DEF Jamo
<1>2. ASSUME NEW area \in Areas
      PROVE  c.cur[area] = IF jamo.area = area THEN jamo.letters ELSE <<>>
  <2>1. OfArea(<<jamo>>, area) = IF jamo.area = area THEN <<jamo>> ELSE <<>>
    BY OfAreaOne
  <2>2. c.cur[area] = Spelt(OfArea(<<jamo>>, area))
    BY DEF Whole, Part
  <2>. QED BY <2>1, <2>2, SpeltOne, SpeltNone, Zenon
<1>3. Letters(Shown(c.cur)) = c.cur["cho"] \o c.cur["jung"] \o c.cur["jong"]
  BY ContextFields, ShownLetters
<1>4. PICK s \in Seq(Letter) : s = jamo.letters
  BY <1>1
<1>5. s \o <<>> = s /\ <<>> \o s = s /\ <<>> \o <<>> = <<>>
  BY <1>4, ConcatEmptySeq
<1>. QED BY <1>1, <1>2, <1>3, <1>4, <1>5 DEF Areas

\* The steps of handle_dokkaebi_effect: the final consonant and the vowel begin a
\* syllable, and the one before is returned.
LEMMA MoveWhole ==
  ASSUME NEW l, l.type = "2bul", NEW c \in Context, Sound(l, c), NEW jamo \in Jamo, Dokkaebi(c, jamo),
         NEW r, r = MoveJong(l, c, jamo), NEW cho, cho = Plain("cho", Last(c.queue).letters),
         NEW vowel, vowel = Plain("jung", jamo.letters)
  PROVE  /\ r \in Context /\ Apart(c, r) /\ Whole(l, r) /\ cho \in Jamo /\ vowel \in Jamo
         /\ <<cho>> \in Seq(Jamo) /\ r.queue = Append(<<cho>>, vowel)
         /\ r.done = Before(l, c).done /\ Len(cho.letters) = 1
<1>0. c.queue # <<>> /\ c.queue \in Seq(Jamo)
  BY ContextFields DEF Dokkaebi
<1>1. Len(Last(c.queue).letters) = 1
  BY <1>0, SingleFront DEF Sound
<1>2. PICK b : b = Before(l, c)
  OBVIOUS
<1>3. PICK m : m = Moved(l, c)
  OBVIOUS
<1>4. /\ b \in Context /\ b.queue = <<>> /\ cho \in Jamo /\ m \in Context
      /\ m = AddJamoWith(l, b, cho)
  BY <1>0, <1>2, <1>3, MovedType DEF Moved
<1>5. vowel \in Jamo /\ cho.area = "cho" /\ vowel.area = "jung" /\ cho.letters = Last(c.queue).letters
  BY VowelType DEF Areas, Plain
<1>6. PICK v : v = AddJamoWith(l, m, vowel)
  OBVIOUS
<1>7. r = [v EXCEPT !.done = b.done]
  <2>1. ~(Len(Last(c.queue).letters) > 1)
    <3>1. ~(1 > 1)
      OBVIOUS
    <3>. QED BY <1>1, <3>1
  <2>2. r = [AddJamoWith(l, Moved(l, c), Plain("jung", jamo.letters)) EXCEPT !.done = Before(l, c).done]
    BY <2>1, MoveSteps
  <2>. QED BY <1>2, <1>3, <1>6, <2>2
<1>8. m.queue = <<cho>>
  <2>1. m.queue = Append(b.queue, cho)
    <3>1. Fits(l, Pushed(b, cho))
      BY <1>4, FirstFits
    <3>. QED BY <1>4, <3>1, AddWhole
  <2>. QED BY <1>4, <2>1
<1>9. PICK one \in Seq(Jamo) : one = <<cho>>
  <2>1. <<cho>> \in Seq(Jamo)
    BY <1>4
  <2>. QED BY <2>1
<1>9a. one \in Seq(Jamo) /\ vowel \in Jamo
  BY <1>5, <1>9
<1>9b. m.queue = one
  BY <1>8, <1>9
<1>10. Fits(l, Pushed(m, vowel))
  <2>1. PICK p : p = Pushed(m, vowel)
    OBVIOUS
  <2>2. p \in Context /\ p.queue = Append(one, vowel)
    BY <1>4, <1>9a, <1>9b, <2>1, PushedType
  <2>3. Last(p.queue) = vowel /\ Front(p.queue) = one
    BY <1>9a, <2>2, AppendParts
  <2>4. Last(one) = cho
    BY <1>9 DEF Last
  <2>5. ~Violates(l, p)
    BY <1>5, <2>3, <2>4 DEF Violates
  <2>6. ASSUME NEW area \in Areas PROVE Combines(l, area, OfArea(p.queue, area))
    <3>1. OfArea(p.queue, area) = IF vowel.area = area THEN Append(OfArea(one, area), vowel)
                                  ELSE OfArea(one, area)
      <4>1. OfArea(Append(one, vowel), area)
              = IF vowel.area = area THEN Append(OfArea(one, area), vowel) ELSE OfArea(one, area)
        BY <1>9a, OfAreaAppend
      <4>. QED BY <2>2, <4>1
    <3>2. OfArea(one, area) = IF cho.area = area THEN <<cho>> ELSE <<>>
      BY <1>4, <1>9, OfAreaOne
    <3>3. CASE area = "jung"
      <4>1. OfArea(p.queue, area) = <<vowel>>
        <5>1. OfArea(p.queue, area) = Append(OfArea(one, area), vowel)
          BY <1>5, <3>1, <3>3
        <5>2. OfArea(one, area) = <<>>
          BY <1>5, <3>2, <3>3
        <5>. QED BY <5>1, <5>2
      <4>2. <<vowel>> \in Seq(Jamo) /\ Len(<<vowel>>) \in {0, 1}
        BY <1>5
      <4>. QED BY <4>1, <4>2, CombinesFew
    <3>4. CASE area # "jung"
      <4>1. OfArea(p.queue, area) = OfArea(one, area)
        BY <1>5, <3>1, <3>4
      <4>2. Composes(l, one)
        BY <1>4, <1>9, ComposesOne
      <4>. QED BY <4>1, <4>2 DEF Composes
    <3>. QED BY <3>3, <3>4
  <2>. QED BY <2>1, <2>5, <2>6 DEF Fits, Composes
<1>11. v \in Context /\ Whole(l, v) /\ v.queue = Append(one, vowel)
  BY <1>4, <1>6, <1>9a, <1>9b, <1>10, AddWhole
<1>12. b.done \in Seq(Char)
  BY <1>4, ContextFields
<1>13. r.queue = v.queue /\ r.cur = v.cur /\ r.done = b.done
  BY <1>7, <1>11, <1>12, DoneSet
<1>14. Whole(l, r)
  BY <1>11, <1>13, SoundSame DEF Same
<1>. QED BY <1>0, <1>1, <1>2, <1>4, <1>5, <1>9, <1>11, <1>13, <1>14, MoveType

LEMMA MoveText ==
  ASSUME NEW l, l.type = "2bul", NEW c \in Context, Sound(l, c), ~Unsettled(c),
         NEW jamo \in Jamo, Dokkaebi(c, jamo), NEW r, r = MoveJong(l, c, jamo)
  PROVE  /\ Letters(r.done) \o Spelt(r.queue) = Spelt(c.queue) \o jamo.letters
         /\ r.done = <<>> => Front(c.queue) = <<>>
<1>1. PICK q, jong : q = Front(c.queue) /\ jong = Last(c.queue)
  OBVIOUS
<1>2. /\ c.queue # <<>> /\ q \in Seq(Jamo) /\ jong \in Jamo /\ c.queue = Append(q, jong)
      /\ jong.area = "jong"
  BY <1>1, ContextFields, SeqParts DEF Dokkaebi
<1>3. PICK cho, vowel : cho = Plain("cho", jong.letters) /\ vowel = Plain("jung", jamo.letters)
  OBVIOUS
<1>4. /\ cho \in Jamo /\ vowel \in Jamo /\ <<cho>> \in Seq(Jamo) /\ r.queue = Append(<<cho>>, vowel)
      /\ r.done = Before(l, c).done
  BY <1>1, <1>3, MoveWhole
<1>5. cho.letters = jong.letters /\ vowel.letters = jamo.letters
  BY <1>3 DEF Plain
<1>6. Spelt(r.queue) = jong.letters \o jamo.letters
  BY <1>4, <1>5, SpeltOne, SpeltAppend
<1>7. Letters(r.done) = Spelt(q) /\ (r.done = <<>> => q = <<>>)
  <2>1. PICK f : f = [c EXCEPT !.queue = Front(@)]
    OBVIOUS
  <2>2. f \in Context /\ f.queue = q
    BY <1>1, <1>2, <2>1, FrontSet
  <2>3. r.done = IF f.queue = <<>> THEN <<>> ELSE Complete(ComposeKorean(l, f).cur)
    BY <1>4, <2>1, <2>2, ForceType DEF Before
  <2>4. CASE q = <<>>
    <3>1. r.done = <<>>
      BY <2>2, <2>3, <2>4
    <3>. QED BY <2>4, <3>1, LettersNone, SpeltNone, Zenon
  <2>5. CASE q # <<>>
    <3>1. PICK k : k = ComposeKorean(l, f)
      OBVIOUS
    <3>2. Complete(k.cur) = <<k.cur>> /\ Letters(<<k.cur>>) = Spelt(q)
      BY <1>1, <1>2, <2>1, <2>5, <3>1, FrontSettled
    <3>3. r.done = <<k.cur>>
      BY <2>2, <2>3, <2>5, <3>1, <3>2
    <3>. QED BY <3>2, <3>3
  <2>. QED BY <2>4, <2>5
<1>8. Spelt(c.queue) = Spelt(q) \o jong.letters
  BY <1>2, SpeltAppend
<1>9. Spelt(q) \in Seq(Letter) /\ jong.letters \in Seq(Letter) /\ jamo.letters \in Seq(Letter)
  BY <1>2, SpeltType DEF Jamo
<1>10. (Spelt(q) \o jong.letters) \o jamo.letters = Spelt(q) \o (jong.letters \o jamo.letters)
  <2>1. PICK x, y, z : x = Spelt(q) /\ y = jong.letters /\ z = jamo.letters
    OBVIOUS
  <2>2. x \in Seq(Letter) /\ y \in Seq(Letter) /\ z \in Seq(Letter)
    BY <1>9, <2>1
  <2>3. (x \o y) \o z = x \o (y \o z)
    BY <2>2, ConcatAssociative
  <2>. QED BY <2>1, <2>3
<1>. QED BY <1>1, <1>6, <1>7, <1>8, <1>10

\* add_jamo of both composers, where nothing combines backward.
LEMMA JamoText ==
  ASSUME NEW l, l.type \in Types, NEW c \in Context, Sound(l, c), ~Unsettled(c), NEW jamo \in Jamo,
         l.type = "2bul" \/ ~CombinesBackward(l, c, jamo), NEW r, r = AddJamo(l, c, jamo)
  PROVE  Letters(r.done) \o Spelt(r.queue) = Spelt(c.queue) \o jamo.letters
<1>1. CASE r = AddJamoWith(l, c, jamo)
  BY <1>1, AddText
<1>2. CASE r = AddJamoWith(l, c, Plain("jong", jamo.letters))
  <2>1. PICK final : final = Plain("jong", jamo.letters)
    OBVIOUS
  <2>2. final \in Jamo /\ final.letters = jamo.letters
    BY <2>1, VowelType DEF Plain, Areas
  <2>3. r = AddJamoWith(l, c, final)
    BY <1>2, <2>1
  <2>4. Letters(r.done) \o Spelt(r.queue) = Spelt(c.queue) \o final.letters
    BY <2>2, <2>3, AddText
  <2>. QED BY <2>2, <2>4
<1>3. CASE l.type = "2bul" /\ Dokkaebi(c, jamo) /\ r = MoveJong(l, c, jamo)
  BY <1>3, MoveText
<1>4. CASE l.type = "2bul"
  <2>1. r = Add2Bul(l, c, jamo)
    BY <1>4 DEF AddJamo
  <2>2. \/ r = AddJamoWith(l, c, jamo)
        \/ r = AddJamoWith(l, c, Plain("jong", jamo.letters))
        \/ Dokkaebi(c, jamo) /\ r = MoveJong(l, c, jamo)
    BY <2>1 DEF Add2Bul
  <2>. QED BY <1>1, <1>2, <1>3, <1>4, <2>2
<1>5. CASE l.type # "2bul"
  BY <1>1, <1>5 DEF AddJamo, Add3Bul
<1>. QED BY <1>4, <1>5

-----------------------------------------------------------------------------
(* Every operation leaves the queue and the syllable sound. *)

LEMMA AddSound ==
  ASSUME NEW l, NEW c \in Context, Sound(l, c), NEW jamo \in Jamo,
         l.type = "2bul" => Len(jamo.letters) = 1
  PROVE  Sound(l, AddJamoWith(l, c, jamo))
<1>1. PICK r : r = AddJamoWith(l, c, jamo)
  OBVIOUS
<1>2. r \in Context /\ Whole(l, r) /\ (r.queue = Append(c.queue, jamo) \/ r.queue = <<jamo>>)
  BY <1>1, AddWhole
<1>3. Single(l, Append(c.queue, jamo)) /\ Single(l, <<jamo>>)
  BY ContextFields, SingleAppend DEF Sound
<1>4. Single(l, r.queue)
  BY <1>2, <1>3
<1>. QED BY <1>1, <1>2, <1>4, WholeSound

LEMMA MoveSound ==
  ASSUME NEW l, l.type = "2bul", NEW c \in Context, Sound(l, c), NEW jamo \in Jamo, Dokkaebi(c, jamo),
         Len(jamo.letters) = 1
  PROVE  Sound(l, MoveJong(l, c, jamo))
<1>1. PICK r : r = MoveJong(l, c, jamo)
  OBVIOUS
<1>2. PICK cho, vowel : cho = Plain("cho", Last(c.queue).letters) /\ vowel = Plain("jung", jamo.letters)
  OBVIOUS
<1>3. /\ r \in Context /\ Whole(l, r) /\ cho \in Jamo /\ vowel \in Jamo
      /\ <<cho>> \in Seq(Jamo) /\ r.queue = Append(<<cho>>, vowel) /\ Len(cho.letters) = 1
  BY <1>1, <1>2, MoveWhole
<1>4. Len(vowel.letters) = 1
  BY <1>2 DEF Plain
<1>5. Single(l, <<cho>>)
  BY <1>3 DEF Single
<1>6. PICK one \in Seq(Jamo) : one = <<cho>>
  BY <1>3
<1>7. one \in Seq(Jamo) /\ Single(l, one) /\ r.queue = Append(one, vowel)
  BY <1>3, <1>5, <1>6
<1>8. Single(l, r.queue)
  BY <1>3, <1>4, <1>7, SingleAppend
<1>. QED BY <1>1, <1>3, <1>8, WholeSound

\* bidirectional_combine
LEMMA BackwardSound ==
  ASSUME NEW l, l.type # "2bul", NEW c \in Context, Sound(l, c), NEW jamo \in Jamo,
         CombinesBackward(l, c, jamo)
  PROVE  Sound(l, CombineBackward(c, jamo))
<1>1. PICK r : r = CombineBackward(c, jamo)
  OBVIOUS
<1>2. PICK q, last : q = Front(c.queue) /\ last = Last(c.queue)
  OBVIOUS
<1>3. /\ c.queue # <<>> /\ q \in Seq(Jamo) /\ last \in Jamo /\ c.queue = Append(q, last)
      /\ last.area = jamo.area
  BY <1>2, ContextFields, SeqParts DEF CombinesBackward
<1>4. PICK both : both = Fronted(c, jamo)
  OBVIOUS
<1>5. /\ jamo.area \in Areas /\ both \in Jamo /\ both.area = jamo.area
      /\ both.letters = jamo.letters \o c.cur[jamo.area] /\ both.letters \in Seq(Letter)
  BY <1>4, FrontedType
<1>6. /\ r \in Context /\ r.queue = Append(q, both)
      /\ \A area \in Areas : r.cur[area] = IF area = jamo.area THEN jamo.letters \o c.cur[area]
                                           ELSE c.cur[area]
  BY <1>1, <1>2, <1>3, <1>4, BackwardType
<1>7. ASSUME NEW area \in Areas, area # jamo.area
      PROVE  OfArea(r.queue, area) = OfArea(c.queue, area) /\ r.cur[area] = c.cur[area]
  <2>1. OfArea(Append(q, both), area) = OfArea(q, area)
    BY <1>3, <1>5, <1>7, OfAreaAppend
  <2>2. OfArea(Append(q, last), area) = OfArea(q, area)
    BY <1>3, <1>7, OfAreaAppend
  <2>. QED BY <1>3, <1>6, <1>7, <2>1, <2>2
<1>8. r.cur[jamo.area] = both.letters
  BY <1>5, <1>6
<1>9. OfArea(r.queue, jamo.area) = Append(OfArea(q, jamo.area), both)
  <2>1. OfArea(Append(q, both), jamo.area) = Append(OfArea(q, jamo.area), both)
    BY <1>3, <1>5, OfAreaAppend
  <2>. QED BY <1>6, <2>1
<1>10. PICK s \in Seq(Jamo) : s = OfArea(q, jamo.area)
  BY <1>3, OfAreaType
<1>11. \/ /\ Combines(l, jamo.area, OfArea(r.queue, jamo.area))
          /\ r.cur[jamo.area] = Part(r.queue, jamo.area)
       \/ Len(r.cur[jamo.area]) < Len(Part(r.queue, jamo.area))
  <2>1. CASE s = <<>>
    <3>1. OfArea(r.queue, jamo.area) = <<both>>
      BY <1>9, <1>10, <2>1
    <3>2. <<both>> \in Seq(Jamo) /\ Len(<<both>>) \in {0, 1}
      BY <1>5
    <3>3. Combines(l, jamo.area, <<both>>)
      BY <3>2, CombinesFew
    <3>4. Spelt(<<both>>) = both.letters
      BY <1>5, SpeltOne
    <3>. QED BY <1>8, <3>1, <3>3, <3>4 DEF Part
  <2>2. CASE s # <<>>
    <3>1. Part(r.queue, jamo.area) = Spelt(s) \o both.letters
      BY <1>5, <1>9, <1>10, SpeltAppend DEF Part
    <3>2. Spelt(s) \in Seq(Letter) /\ Spelt(s) # <<>>
      BY <2>2, SpeltType, SpeltSome
    <3>3. Len(Spelt(s)) \in Nat /\ Len(Spelt(s)) # 0 /\ Len(both.letters) \in Nat
      BY <1>5, <3>2, EmptySeq, LenProperties
    <3>4. Len(Spelt(s) \o both.letters) = Len(Spelt(s)) + Len(both.letters)
      BY <1>5, <3>2, ConcatProperties
    <3>5. Len(both.letters) < Len(Spelt(s) \o both.letters)
      BY <3>3, <3>4
    <3>. QED BY <1>8, <3>1, <3>5
  <2>. QED BY <2>1, <2>2
<1>12. ASSUME NEW area \in Areas
       PROVE  \/ Combines(l, area, OfArea(r.queue, area)) /\ r.cur[area] = Part(r.queue, area)
              \/ Len(r.cur[area]) < Len(Part(r.queue, area))
  <2>1. CASE area = jamo.area
    BY <1>11, <2>1
  <2>2. CASE area # jamo.area
    BY <1>7, <2>2 DEF Sound, Part
  <2>. QED BY <2>1, <2>2
<1>13. Front(r.queue) = q
  BY <1>3, <1>5, <1>6, AppendParts
<1>14. Composes(l, Front(r.queue))
  BY <1>2, <1>3, <1>13 DEF Sound
<1>15. Single(l, r.queue)
  BY DEF Single
<1>. QED BY <1>1, <1>12, <1>14, <1>15 DEF Sound

LEMMA JamoSound ==
  ASSUME NEW l, l.type \in Types, NEW c \in Context, Sound(l, c), NEW jamo \in Jamo,
         l.type = "2bul" => Len(jamo.letters) = 1
  PROVE  Sound(l, AddJamo(l, c, jamo))
<1>1. Sound(l, AddJamoWith(l, c, jamo))
  BY AddSound
<1>2. CASE l.type = "2bul"
  <2>1. Sound(l, AddJamoWith(l, c, Plain("jong", jamo.letters)))
    <3>1. PICK final : final = Plain("jong", jamo.letters)
      OBVIOUS
    <3>2. final \in Jamo /\ final.letters = jamo.letters
      BY <3>1, VowelType DEF Plain, Areas
    <3>. QED BY <1>2, <3>1, <3>2, AddSound
  <2>2. Dokkaebi(c, jamo) => Sound(l, MoveJong(l, c, jamo))
    BY <1>2, MoveSound
  <2>. QED BY <1>1, <1>2, <2>1, <2>2 DEF AddJamo, Add2Bul
<1>3. CASE l.type # "2bul"
  <2>1. CombinesBackward(l, c, jamo) => Sound(l, CombineBackward(c, jamo))
    BY <1>3, BackwardSound
  <2>. QED BY <1>1, <1>3, <2>1 DEF AddJamo, Add3Bul
<1>. QED BY <1>2, <1>3

\* remove_jamo: what remains is whole.
LEMMA RemoveWhole ==
  ASSUME NEW l, NEW c \in Context, Sound(l, c), c.queue # <<>>, NEW r, r = RemoveJamo(l, c)
  PROVE  r \in Context /\ r.queue = Front(c.queue) /\ Whole(l, r) /\ Sound(l, r)
<1>1. PICK f : f = [c EXCEPT !.queue = Front(@)]
  OBVIOUS
<1>2. f \in Context /\ f.queue = Front(c.queue)
  BY <1>1, FrontSet
<1>3. r = ComposeKorean(l, f)
  BY <1>1 DEF RemoveJamo
<1>4. Composes(l, f.queue)
  BY <1>2 DEF Sound
<1>5. Whole(l, r) /\ r \in Context /\ r.queue = f.queue
  BY <1>2, <1>3, <1>4, KoreanWhole, KoreanType
<1>6. Single(l, r.queue)
  BY <1>2, <1>5, ContextFields, SingleFront DEF Sound
<1>. QED BY <1>2, <1>5, <1>6, WholeSound

LEMMA NothingWhole ==
  ASSUME NEW l, NEW c \in Context, c.queue = <<>>, c.cur = Empty
  PROVE  Whole(l, c)
<1>1. PICK none \in Seq(Jamo) : none = <<>> /\ Len(none) \in {0, 1}
  <2>1. <<>> \in Seq(Jamo) /\ Len(<<>>) \in {0, 1}
    OBVIOUS
  <2>. QED BY <2>1
<1>2. ASSUME NEW area \in Areas
      PROVE  Combines(l, area, OfArea(c.queue, area)) /\ c.cur[area] = Part(c.queue, area)
  <2>1. OfArea(c.queue, area) = none
    BY <1>1, OfAreaNone, Zenon
  <2>2. Combines(l, area, none)
    BY <1>1, CombinesFew
  <2>3. Part(c.queue, area) = <<>>
    BY PartNone, Zenon
  <2>4. c.cur[area] = <<>>
    BY DEF Empty
  <2>. QED BY <2>1, <2>2, <2>3, <2>4
<1>. QED BY <1>2 DEF Whole

LEMMA NothingSound ==
  ASSUME NEW l, NEW c \in Context, c.queue = <<>>, c.cur = Empty
  PROVE  Sound(l, c)
<1>1. Single(l, c.queue)
  BY DEF Single
<1>. QED BY <1>1, NothingWhole, WholeSound

\* inject_chord_syllable: one jamo for each area of the chord.
LEMMA ChordAreas ==
  ASSUME NEW l, NEW jamos \in Seq(Jamo), Injectable(l, jamos), NEW area \in Areas
  PROVE  OfArea(ChordQueue(l, jamos), area) = ChordPart(l, area, jamos)
<1>1. PICK x, y, z : /\ x = ChordPart(l, "cho", jamos) /\ y = ChordPart(l, "jung", jamos)
                     /\ z = ChordPart(l, "jong", jamos)
  OBVIOUS
<1>2. x \in Seq(Jamo) /\ y \in Seq(Jamo) /\ z \in Seq(Jamo) /\ ChordQueue(l, jamos) = x \o y \o z
  BY <1>1, PartType, ChordQueueType DEF Areas
<1>3. OfArea(x \o y \o z, area) = OfArea(x, area) \o OfArea(y, area) \o OfArea(z, area)
  <2>1. x \o y \in Seq(Jamo)
    BY <1>2, ConcatProperties
  <2>2. OfArea(x \o y, area) = OfArea(x, area) \o OfArea(y, area)
    BY <1>2, OfAreaConcat
  <2>3. OfArea((x \o y) \o z, area) = OfArea(x \o y, area) \o OfArea(z, area)
    BY <1>2, <2>1, OfAreaConcat
  <2>. QED BY <2>2, <2>3
<1>4. ASSUME NEW b \in Areas
      PROVE  OfArea(ChordPart(l, b, jamos), area) = IF area = b THEN ChordPart(l, b, jamos) ELSE <<>>
  <2>1. CASE OfArea(jamos, b) = <<>>
    <3>1. ChordPart(l, b, jamos) = <<>>
      BY <2>1 DEF ChordPart
    <3>. QED BY <3>1, OfAreaNone, Zenon
  <2>2. CASE OfArea(jamos, b) # <<>>
    <3>1. PICK e : e = Plain(b, Reduced(l, b, OfArea(jamos, b)))
      OBVIOUS
    <3>2. e \in Jamo /\ ChordPart(l, b, jamos) = <<e>>
      BY <2>2, <3>1, PartType
    <3>3. e.area = b
      BY <3>1 DEF Plain
    <3>4. OfArea(<<e>>, area) = IF e.area = area THEN <<e>> ELSE <<>>
      BY <3>2, OfAreaOne
    <3>. QED BY <3>2, <3>3, <3>4
  <2>. QED BY <2>1, <2>2
<1>5. /\ x \o <<>> = x /\ <<>> \o y = y /\ y \o <<>> = y /\ <<>> \o z = z /\ <<>> \o <<>> = <<>>
  BY <1>2, ConcatEmptySeq
<1>6. CASE area = "cho"
  <2>1. OfArea(x, area) = x /\ OfArea(y, area) = <<>> /\ OfArea(z, area) = <<>>
    BY <1>1, <1>4, <1>6 DEF Areas
  <2>. QED BY <1>1, <1>2, <1>3, <1>5, <1>6, <2>1
<1>7. CASE area = "jung"
  <2>1. OfArea(x, area) = <<>> /\ OfArea(y, area) = y /\ OfArea(z, area) = <<>>
    BY <1>1, <1>4, <1>7 DEF Areas
  <2>. QED BY <1>1, <1>2, <1>3, <1>5, <1>7, <2>1
<1>8. CASE area = "jong"
  <2>1. OfArea(x, area) = <<>> /\ OfArea(y, area) = <<>> /\ OfArea(z, area) = z
    BY <1>1, <1>4, <1>8 DEF Areas
  <2>. QED BY <1>1, <1>2, <1>3, <1>5, <1>8, <2>1
<1>. QED BY <1>6, <1>7, <1>8 DEF Areas

-----------------------------------------------------------------------------
(* So does every operation of the input context. *)

\* The keys of a word are keys of the keyboard, and a two-set one has no chords.
Steady(l, c) ==
  Sound(l, c) /\ Single(l, c.keys) /\ (l.type = "2bul" => c.order = <<>>)

LEMMA InjectSound ==
  ASSUME NEW l, l.type # "2bul", NEW c \in Context, NEW jamos \in Seq(Jamo), Injectable(l, jamos),
         NEW r, r = Inject(l, c, jamos)
  PROVE  Sound(l, r)
<1>1. PICK e : e = ClearComposer(c)
  OBVIOUS
<1>2. e \in Context /\ e.cur = Empty
  BY <1>1, ClearFields
<1>3. PICK q \in Seq(Jamo) : q = ChordQueue(l, jamos)
  BY ChordQueueType
<1>4. PICK i : i = [e EXCEPT !.order = jamos, !.queue = q]
  OBVIOUS
<1>5. i \in Context /\ i.queue = q /\ i.cur = Empty
  BY <1>2, <1>4 DEF Context
<1>6. r = Compose(l, i)
  BY <1>1, <1>3, <1>4 DEF Inject
<1>7. ASSUME NEW area \in Areas PROVE Combines(l, area, OfArea(q, area))
  <2>1. PICK s : s = ChordPart(l, area, jamos)
    OBVIOUS
  <2>2. OfArea(q, area) = s /\ s \in Seq(Jamo)
    BY <1>3, <2>1, ChordAreas, PartType
  <2>3. Len(s) \in {0, 1}
    <3>1. s = <<>> \/ s = <<Plain(area, Reduced(l, area, OfArea(jamos, area)))>>
      BY <2>1 DEF ChordPart
    <3>. QED BY <3>1
  <2>. QED BY <2>2, <2>3, CombinesFew
<1>8. Composes(l, q)
  BY <1>7 DEF Composes
<1>9. CASE ~Violates(l, i)
  <2>1. r = ComposeKorean(l, i)
    BY <1>6, <1>9 DEF Compose
  <2>2. Whole(l, r) /\ r \in Context /\ r.queue = q
    BY <1>5, <1>8, <2>1, KoreanWhole, KoreanType
  <2>. QED BY <2>2, WholeSound DEF Single
<1>10. CASE Violates(l, i)
  <2>1. r = i
    BY <1>6, <1>10 DEF Compose
  <2>2. ASSUME NEW area \in Areas
        PROVE  \/ Combines(l, area, OfArea(r.queue, area)) /\ r.cur[area] = Part(r.queue, area)
               \/ Len(r.cur[area]) < Len(Part(r.queue, area))
    <3>1. r.cur[area] = <<>> /\ r.queue = q
      BY <1>5, <2>1 DEF Empty
    <3>2. PICK p \in Seq(Letter) : p = Part(r.queue, area)
      BY <3>1, PartLetters
    <3>3. CASE p = <<>>
      BY <1>7, <3>1, <3>2, <3>3
    <3>4. CASE p # <<>>
      <4>1. Len(p) \in Nat /\ Len(p) # 0 /\ Len(<<>>) = 0
        BY <3>4, EmptySeq, LenProperties
      <4>2. Len(<<>>) < Len(p)
        BY <4>1
      <4>. QED BY <3>1, <3>2, <4>2
    <3>. QED BY <3>3, <3>4
  <2>3. r.queue # <<>> => Composes(l, Front(r.queue))
    BY <1>5, <1>8, <2>1, ComposesFront
  <2>. QED BY <2>2, <2>3 DEF Sound, Single
<1>. QED BY <1>9, <1>10

LEMMA ProcessSteady ==
  ASSUME NEW l, l.type \in Types, NEW c \in Context, Steady(l, c), NEW jamo \in Jamo,
         l.type = "2bul" => Len(jamo.letters) = 1, NEW r, r = ProcessJamo(l, c, jamo)
  PROVE  Steady(l, r)
<1>1. /\ Same(AddJamo(l, c, jamo), r) /\ r.order = <<>>
      /\ r.keys = (IF c.word THEN Append(c.keys, jamo) ELSE c.keys)
  BY ProcessFields
<1>2. Sound(l, r)
  BY <1>1, JamoSound, SoundSame DEF Steady
<1>3. Single(l, Append(c.keys, jamo)) /\ Single(l, c.keys)
  BY ContextFields, SingleAppend DEF Steady
<1>4. Single(l, r.keys)
  BY <1>1, <1>3
<1>. QED BY <1>1, <1>2, <1>4 DEF Steady

LEMMA BlankSteady ==
  ASSUME NEW l, NEW c \in Context, c.queue = <<>>, c.cur = Empty, c.keys = <<>>,
         l.type = "2bul" => c.order = <<>>
  PROVE  Steady(l, c)
<1>1. Single(l, c.keys)
  BY DEF Single
<1>. QED BY <1>1, NothingSound DEF Steady

LEMMA FlushSteady ==
  ASSUME NEW l, NEW c, Proper(c), Steady(l, c), NEW r, r = FlushPreedit(l, c)
  PROVE  r \in Context /\ Steady(l, r)
<1>1. r \in Context /\ (~IsComposing(c) => r = c) /\ (IsComposing(c) => Blank(r))
  BY FlushFields DEF Proper
<1>2. CASE IsComposing(c)
  BY <1>1, <1>2, BlankSteady DEF Blank
<1>. QED BY <1>1, <1>2

LEMMA RemoveSteady ==
  ASSUME NEW l, NEW c \in Context, Steady(l, c), NEW r, r = RemoveJamo(l, c)
  PROVE  Steady(l, r)
<1>1. CASE c.queue = <<>>
  <2>1. r = c
    BY <1>1 DEF RemoveJamo
  <2>. QED BY <2>1
<1>2. CASE c.queue # <<>>
  <2>1. Sound(l, r)
    BY <1>2, RemoveWhole DEF Steady
  <2>2. r.keys = c.keys /\ r.order = c.order
    BY RemoveType DEF Apart
  <2>. QED BY <2>1, <2>2 DEF Steady
<1>. QED BY <1>1, <1>2

LEMMA InjectSteady ==
  ASSUME NEW l, l.type # "2bul", NEW c \in Context, NEW jamos \in Seq(Jamo), Injectable(l, jamos),
         NEW r, r = Inject(l, c, jamos)
  PROVE  Steady(l, r)
BY InjectSound DEF Steady, Single

LEMMA ReplaySound ==
  ASSUME NEW l, l.type \in Types, NEW c \in Context
  PROVE  \A keys \in Seq(Jamo) : Single(l, keys) => Sound(l, Replay(l, c, keys))
<1>. DEFINE T == {keys \in Seq(Jamo) : Single(l, keys) => Sound(l, Replay(l, c, keys))}
<1>1. <<>> \in T
  <2>1. PICK r : r = Restart(c)
    OBVIOUS
  <2>2. r \in Context /\ r.queue = <<>> /\ r.cur = Empty
    BY <2>1, RestartFields
  <2>3. Sound(l, r)
    BY <2>2, NothingSound
  <2>4. <<>> \in Seq(Jamo)
    OBVIOUS
  <2>. QED BY <2>1, <2>3, <2>4, ReplayNone, Zenon
<1>2. ASSUME NEW keys \in Seq(Jamo), NEW jamo \in Jamo, keys \in T PROVE Append(keys, jamo) \in T
  <2>. SUFFICES ASSUME Single(l, Append(keys, jamo)) PROVE Sound(l, Replay(l, c, Append(keys, jamo)))
    BY AppendProperties
  <2>1. Single(l, keys) /\ (l.type = "2bul" => Len(jamo.letters) = 1)
    <3>1. PICK more : more = Append(keys, jamo)
      OBVIOUS
    <3>2. more \in Seq(Jamo) /\ more # <<>> /\ Front(more) = keys /\ Last(more) = jamo
      BY <3>1, AppendParts
    <3>3. Single(l, more)
      BY <3>1
    <3>4. Single(l, Front(more)) /\ (l.type = "2bul" => Len(Last(more).letters) = 1)
      BY <3>2, <3>3, SingleFront
    <3>. QED BY <3>2, <3>4
  <2>2. PICK e : e = Replay(l, c, keys)
    OBVIOUS
  <2>3. e \in Context /\ Sound(l, e)
    BY <1>2, <2>1, <2>2, ReplayType
  <2>4. PICK f : f = ComposeAndRoute(l, e, jamo)
    OBVIOUS
  <2>5. Same(AddJamo(l, e, jamo), f)
    BY <2>3, <2>4, RouteFields
  <2>6. Sound(l, AddJamo(l, e, jamo))
    BY <2>1, <2>3, JamoSound
  <2>7. Sound(l, f)
    BY <2>5, <2>6, SoundSame
  <2>8. Replay(l, c, Append(keys, jamo)) = f
    BY <2>2, <2>4, ReplayAppend
  <2>. QED BY <2>7, <2>8
<1>. HIDE DEF T
<1>3. \A keys \in Seq(Jamo) : keys \in T
  BY <1>1, <1>2, SeqInduct
<1>. QED BY <1>3 DEF T

LEMMA BackspaceSteady ==
  ASSUME NEW l, l.type \in Types, NEW c, Proper(c), Steady(l, c), NEW r, r = BackspaceContext(l, c)
  PROVE  Steady(l, r)
<1>0. c \in Context /\ c.done = <<>> /\ c.keys \in Seq(Jamo) /\ c.order \in Seq(Jamo)
  BY ContextFields DEF Proper
<1>1. CASE r = ClearComposing(c)
  BY <1>0, <1>1, ClearingFields, BlankSteady DEF Blank
<1>2. CASE c.word /\ Len(c.keys) > 1 /\ r = [Replay(l, c, Front(c.keys)) EXCEPT !.keys = Front(c.keys)]
  <2>1. PICK keys : keys = Front(c.keys)
    OBVIOUS
  <2>2. c.keys # <<>>
    BY <1>2
  <2>3. keys \in Seq(Jamo) /\ Single(l, keys)
    BY <1>0, <2>1, <2>2, SeqParts, SingleFront DEF Steady
  <2>4. PICK e : e = Replay(l, c, keys)
    OBVIOUS
  <2>5. e \in Context /\ Sound(l, e) /\ e.order = c.order
    BY <1>0, <2>3, <2>4, ReplayType, ReplaySound, ReplayFields
  <2>6. r = [e EXCEPT !.keys = keys]
    BY <1>2, <2>1, <2>4
  <2>7. r.keys = keys /\ r.order = e.order /\ Same(e, r)
    BY <2>5, <2>6 DEF Context, Same
  <2>8. Sound(l, r)
    BY <2>5, <2>7, SoundSame
  <2>. QED BY <2>3, <2>5, <2>7, <2>8 DEF Steady
<1>3. CASE c.order # <<>> /\ r = BackspaceChord(l, c)
  <2>1. PICK rest : rest = Shortened(c.order)
    OBVIOUS
  <2>2. rest \in Seq(Jamo)
    BY <1>0, <1>3, <2>1, ShortenedType
  <2>3. l.type # "2bul"
    BY <1>3 DEF Steady
  <2>4. CASE rest # <<>> /\ Injectable(l, rest)
    <3>1. r = Inject(l, c, rest)
      BY <1>3, <2>1, <2>4 DEF BackspaceChord
    <3>. QED BY <1>0, <2>2, <2>3, <2>4, <3>1, InjectSteady
  <2>5. CASE ~(rest # <<>> /\ Injectable(l, rest))
    <3>1. PICK clear : clear = ClearComposer(c)
      OBVIOUS
    <3>2. clear \in Context /\ clear.queue = <<>> /\ clear.cur = Empty
      BY <1>0, <3>1, ClearFields
    <3>3. r = [clear EXCEPT !.order = <<>>]
      BY <1>3, <2>1, <2>5, <3>1 DEF BackspaceChord
    <3>4. Same(clear, r)
      BY <3>2, <3>3 DEF Context, Same
    <3>5. Sound(l, r)
      BY <3>2, <3>4, NothingSound, SoundSame
    <3>. QED BY <2>3, <3>5 DEF Steady, Single
  <2>. QED BY <2>4, <2>5
<1>4. CASE r = RemoveJamo(l, c)
  BY <1>0, <1>4, RemoveSteady
<1>5. \/ r = ClearComposing(c)
      \/ c.word /\ Len(c.keys) > 1 /\ r = [Replay(l, c, Front(c.keys)) EXCEPT !.keys = Front(c.keys)]
      \/ c.order # <<>> /\ r = BackspaceChord(l, c)
      \/ r = RemoveJamo(l, c)
  BY DEF BackspaceContext
<1>. QED BY <1>1, <1>2, <1>3, <1>4, <1>5

LEMMA FinalSteady ==
  ASSUME layout.type \in Types, NEW c, Proper(c), Steady(layout, c), pending \in Seq(Jamo),
         layout.type = "2bul" => pending = <<>>, NEW r, r = Finalized(c)
  PROVE  Steady(layout, r)
<1>0. c \in Context
  BY DEF Proper
<1>1. PICK typed :
        /\ Retyped(typed, c)
        /\ r = IF pending = <<>> \/ preview # "none" THEN c
               ELSE IF Injectable(layout, pending)
                    THEN Inject(layout, FlushPreedit(layout, c), pending)
                    ELSE typed[Len(pending)]
  BY <1>0, FinalSteps
<1>2. CASE pending = <<>> \/ preview # "none"
  BY <1>1, <1>2
<1>3. CASE ~(pending = <<>> \/ preview # "none") /\ Injectable(layout, pending)
  <2>1. PICK f : f = FlushPreedit(layout, c)
    OBVIOUS
  <2>2. f \in Context
    BY <2>1, FlushSteady
  <2>3. r = Inject(layout, f, pending) /\ layout.type # "2bul"
    BY <1>1, <1>3, <2>1
  <2>. QED BY <1>3, <2>2, <2>3, InjectSteady
<1>4. CASE ~(pending = <<>> \/ preview # "none") /\ ~Injectable(layout, pending)
  <2>. DEFINE N == Len(pending)
              S == {n \in Nat : n <= N => Steady(layout, typed[n])}
  <2>1. N \in Nat /\ (\A n \in 1..N : pending[n] \in Jamo) /\ layout.type # "2bul"
    BY <1>4
  <2>2. /\ typed[0] = c /\ \A n \in 1..N : typed[n] = ProcessJamo(layout, typed[n - 1], pending[n])
        /\ \A n \in 0..N : typed[n] \in Context
    BY <1>1 DEF Retyped
  <2>3. r = typed[N]
    BY <1>1, <1>4
  <2>. HIDE DEF N
  <2>4. 0 \in S
    BY <2>2
  <2>5. ASSUME NEW n \in Nat, n \in S PROVE n + 1 \in S
    <3>. SUFFICES ASSUME n + 1 <= N PROVE Steady(layout, typed[n + 1])
      OBVIOUS
    <3>1. n + 1 \in 1..N /\ (n + 1) - 1 = n /\ n \in 0..N /\ Steady(layout, typed[n])
      BY <2>1, <2>5
    <3>2. typed[n + 1] = ProcessJamo(layout, typed[n], pending[n + 1]) /\ pending[n + 1] \in Jamo
          /\ typed[n] \in Context
      BY <2>1, <2>2, <3>1
    <3>. QED BY <2>1, <3>1, <3>2, ProcessSteady
  <2>. HIDE DEF S
  <2>6. \A n \in Nat : n \in S
    BY <2>4, <2>5, NatInduct
  <2>. QED BY <2>1, <2>3, <2>6 DEF S
<1>. QED BY <1>2, <1>3, <1>4

-----------------------------------------------------------------------------
(* The invariant of the text. *)

TextInv ==
  HangulInv /\ Steady(layout, ctx) /\ (layout.type = "2bul" => pending = <<>>)

LEMMA KeysSingle ==
  ASSUME layout \in Layouts, NEW jamo \in Keys[layout.type]
  PROVE  jamo \in Jamo /\ layout.type \in Types /\ (layout.type = "2bul" => Len(jamo.letters) = 1)
BY LayoutType, HangulAssumption

LEMMA QuietSteady ==
  ASSUME HangulInv, Steady(layout, ctx), NEW q, q = Quiet
  PROVE  Proper(q) /\ q \in Context /\ Alike(ctx, q) /\ Steady(layout, q) /\ q.out = <<>>
         /\ q.order = ctx.order
<1>1. Proper(q) /\ Alike(ctx, q) /\ q.keys = ctx.keys /\ q.order = ctx.order /\ q.out = <<>>
  BY QuietFields DEF HangulInv
<1>2. Same(ctx, q)
  BY <1>1 DEF Alike
<1>3. Sound(layout, q)
  BY <1>2, SoundSame DEF Steady
<1>. QED BY <1>1, <1>3 DEF Steady, Proper

LEMMA TextStep == TextInv /\ [Next]_vars => TextInv'
<1>. SUFFICES ASSUME TextInv, [Next]_vars
              PROVE  Steady(layout, ctx)' /\ (layout.type = "2bul" => pending = <<>>)'
  BY HangulInvNext DEF TextInv
<1>1. layout' = layout
  BY DEF Next, vars, Key, ChordFirst, ChordJoins, ChordBreaks, ChordEnds, Backspace, Confirm,
         SetWordMode
<1>2. /\ HangulInv /\ Steady(layout, ctx) /\ (layout.type = "2bul" => pending = <<>>)
      /\ layout \in Layouts /\ pending \in Seq(Jamo)
  BY DEF TextInv, HangulInv
<1>3. layout.type \in Types /\ (layout.chord => layout.type # "2bul")
  BY <1>2, LayoutType
<1>4. PICK q : q = Quiet
  OBVIOUS
<1>5. Proper(q) /\ q \in Context /\ Steady(layout, q)
  BY <1>2, <1>4, QuietSteady
<1>6. PICK c : c = Finalized(Quiet)
  OBVIOUS
<1>7. Proper(c) /\ Steady(layout, c)
  BY <1>2, <1>3, <1>4, <1>5, <1>6, FinalInv, FinalSteady
<1>. SUFFICES Steady(layout, ctx') /\ (layout.type = "2bul" => pending' = <<>>)
  BY <1>1
<1>8. ASSUME NEW jamo \in Keys[layout.type], Key(jamo) \/ ChordFirst(jamo)
      PROVE  Steady(layout, ctx') /\ (layout.type = "2bul" => pending' = <<>>)
  <2>1. ctx' = ProcessJamo(layout, q, jamo) /\ (layout.chord \/ pending' = pending)
    BY <1>4, <1>8 DEF Key, ChordFirst
  <2>2. Steady(layout, ctx')
    BY <1>2, <1>3, <1>5, <2>1, KeysSingle, ProcessSteady
  <2>. QED BY <1>2, <1>3, <2>1, <2>2
<1>9. ASSUME NEW jamo \in Keys[layout.type], ChordJoins(jamo)
      PROVE  Steady(layout, ctx') /\ layout.type # "2bul"
  <2>1. PICK unseen : unseen = IF preview = "typed" THEN RemoveJamo(layout, q) ELSE q
    OBVIOUS
  <2>2. PICK replaced : replaced = IF preview = "joined" THEN unseen ELSE FlushPreedit(layout, unseen)
    OBVIOUS
  <2>3. PICK chord : chord = Append(pending, jamo)
    OBVIOUS
  <2>4. /\ layout.chord /\ Injectable(layout, chord) /\ ctx' = Inject(layout, replaced, chord)
    BY <1>4, <1>9, <2>1, <2>2, <2>3 DEF ChordJoins
  <2>5. Proper(unseen) /\ Steady(layout, unseen)
    <3>1. Proper(RemoveJamo(layout, q)) /\ Steady(layout, RemoveJamo(layout, q))
      BY <1>5, RemoveProper, RemoveSteady
    <3>. QED BY <1>5, <2>1, <3>1
  <2>6. replaced \in Context
    <3>1. FlushPreedit(layout, unseen) \in Context /\ unseen \in Context
      BY <2>5, FlushSteady DEF Proper
    <3>. QED BY <2>2, <3>1
  <2>7. chord \in Seq(Jamo)
    BY <1>2, <2>3, KeysSingle, AppendProperties
  <2>. QED BY <1>3, <2>4, <2>6, <2>7, InjectSteady
<1>10. ASSUME NEW jamo \in Keys[layout.type], ChordBreaks(jamo)
       PROVE  Steady(layout, ctx') /\ layout.type # "2bul"
  <2>1. /\ layout.chord
        /\ \/ ctx' = ClearComposing(q)
           \/ ctx' = RemoveJamo(layout, q)
           \/ ctx' = q
    <3>1. preview \in {"none", "typed", "joined"}
      BY <1>2 DEF HangulInv
    <3>. QED BY <1>4, <1>10, <3>1 DEF ChordBreaks
  <2>2. Steady(layout, ClearComposing(q))
    BY <1>5, ClearingFields, BlankSteady DEF Blank
  <2>3. Steady(layout, RemoveJamo(layout, q))
    BY <1>5, RemoveSteady
  <2>. QED BY <1>3, <1>5, <2>1, <2>2, <2>3
<1>11. CASE ChordEnds
  BY <1>6, <1>7, <1>11 DEF ChordEnds, ChordOver
<1>12. CASE Backspace
  <2>1. ctx' = BackspaceContext(layout, c) /\ ChordOver
    BY <1>6, <1>12 DEF Backspace
  <2>. QED BY <1>3, <1>7, <2>1, BackspaceSteady DEF ChordOver
<1>13. CASE Confirm
  <2>1. ctx' = FlushPreedit(layout, c) /\ ChordOver
    BY <1>6, <1>13 DEF Confirm
  <2>. QED BY <1>7, <2>1, FlushSteady DEF ChordOver
<1>14. ASSUME NEW on \in BOOLEAN, SetWordMode(on)
       PROVE  Steady(layout, ctx') /\ (layout.type = "2bul" => pending' = <<>>)
  <2>1. PICK f : f = FlushPreedit(layout, q)
    OBVIOUS
  <2>2. f \in Context /\ Steady(layout, f)
    BY <1>5, <2>1, FlushSteady
  <2>3. ctx' = [f EXCEPT !.word = on] /\ pending' = pending
    BY <1>4, <1>14, <2>1 DEF SetWordMode
  <2>4. Same(f, ctx') /\ ctx'.keys = f.keys /\ ctx'.order = f.order
    BY <2>2, <2>3 DEF Context, Same
  <2>5. Sound(layout, ctx')
    BY <2>2, <2>4, SoundSame DEF Steady
  <2>. QED BY <1>2, <2>2, <2>3, <2>4, <2>5 DEF Steady
<1>15. CASE UNCHANGED vars
  BY <1>2, <1>15 DEF vars
<1>. QED BY <1>8, <1>9, <1>10, <1>11, <1>12, <1>13, <1>14, <1>15 DEF Next

LEMMA TextInit == Init => TextInv
<1>. SUFFICES ASSUME Init PROVE TextInv
  OBVIOUS
<1>1. PICK word \in BOOLEAN : ctx = NewContext(word)
  BY DEF Init
<1>2. HangulInv /\ pending = <<>>
  BY HangulInvInit DEF Init
<1>3. ctx \in Context /\ ctx.queue = <<>> /\ ctx.cur = Empty /\ ctx.keys = <<>> /\ ctx.order = <<>>
  BY <1>1, <1>2 DEF NewContext, HangulInv, Proper
<1>4. Steady(layout, ctx)
  BY <1>3, BlankSteady
<1>. QED BY <1>2, <1>4 DEF TextInv
-----------------------------------------------------------------------------
(* How often a letter stands in a text. *)

LEMMA CountAppend ==
  ASSUME NEW V, NEW s \in Seq(V), NEW e \in V, NEW x
  PROVE  /\ Count(s, x) \in Nat
         /\ Count(Append(s, e), x) = Count(s, x) + (IF e = x THEN 1 ELSE 0)
<1>. DEFINE n == Len(s)
            A == {i \in 1..n : s[i] = x}
            more == Append(s, e)
            B == {i \in 1..Len(more) : more[i] = x}
<1>1. n \in Nat /\ Len(more) = n + 1 /\ more[n + 1] = e /\ \A i \in 1..n : more[i] = s[i]
  BY AppendProperties
<1>2. IsFiniteSet(A)
  <2>1. IsFiniteSet(1..n)
    BY <1>1, FS_Interval
  <2>2. A \in SUBSET (1..n)
    OBVIOUS
  <2>. QED BY <2>1, <2>2, FS_Subset
<1>3. Cardinality(A) \in Nat
  BY <1>2, FS_CardinalityType
<1>4. Count(s, x) = Cardinality(A) /\ Count(more, x) = Cardinality(B)
  BY DEF Count
<1>. HIDE DEF n, more
<1>5. CASE e = x
  <2>1. B = A \cup {n + 1}
    BY <1>1, <1>5
  <2>2. n + 1 \notin A
    BY <1>1
  <2>. HIDE DEF A, B
  <2>3. Cardinality(A \cup {n + 1}) = Cardinality(A) + 1
    BY <1>2, <2>2, FS_AddElement
  <2>. QED BY <1>3, <1>4, <1>5, <2>1, <2>3 DEF more
<1>6. CASE e # x
  <2>1. B = A
    BY <1>1, <1>6
  <2>. HIDE DEF A, B
  <2>. QED BY <1>3, <1>4, <1>6, <2>1 DEF more
<1>. QED BY <1>5, <1>6

LEMMA CountNone == ASSUME NEW x PROVE Count(<<>>, x) = 0
<1>1. {i \in 1..Len(<<>>) : <<>>[i] = x} = {}
  OBVIOUS
<1>. QED BY <1>1, FS_EmptySet DEF Count

LEMMA CountConcat ==
  ASSUME NEW V, NEW s \in Seq(V), NEW x
  PROVE  \A t \in Seq(V) : Count(s \o t, x) = Count(s, x) + Count(t, x)
<1>. DEFINE T == {t \in Seq(V) : Count(s \o t, x) = Count(s, x) + Count(t, x)}
<1>0. Count(s, x) \in Nat
  <2>1. CASE V = {}
    <3>1. s = <<>>
      BY <2>1
    <3>. QED BY <3>1, CountNone
  <2>2. CASE V # {}
    BY <2>2, CountAppend
  <2>. QED BY <2>1, <2>2
<1>1. <<>> \in T
  <2>1. s \o <<>> = s /\ <<>> \in Seq(V)
    BY ConcatEmptySeq
  <2>2. Count(<<>>, x) = 0
    BY CountNone
  <2>3. Count(s \o <<>>, x) = Count(s, x) + Count(<<>>, x)
    BY <1>0, <2>1, <2>2
  <2>. QED BY <2>1, <2>3
<1>2. ASSUME NEW t \in Seq(V), NEW e \in V, t \in T PROVE Append(t, e) \in T
  <2>1. Count(s \o t, x) = Count(s, x) + Count(t, x)
    BY <1>2
  <2>2. s \o t \in Seq(V) /\ s \o Append(t, e) = Append(s \o t, e) /\ Append(t, e) \in Seq(V)
    <3>1. PICK u \in Seq(V) : u = s \o t
      BY ConcatProperties
    <3>2. Append(t, e) = t \o <<e>> /\ Append(u, e) = u \o <<e>> /\ <<e>> \in Seq(V)
      BY AppendIsConcat
    <3>3. s \o (t \o <<e>>) = (s \o t) \o <<e>>
      BY <3>2, ConcatAssociative
    <3>. QED BY <3>1, <3>2, <3>3, AppendProperties
  <2>3. /\ Count(Append(s \o t, e), x) = Count(s \o t, x) + (IF e = x THEN 1 ELSE 0)
        /\ Count(Append(t, e), x) = Count(t, x) + (IF e = x THEN 1 ELSE 0)
        /\ Count(t, x) \in Nat
    <3>1. PICK u \in Seq(V) : u = s \o t
      BY <2>2
    <3>2. u \in Seq(V)
      BY <3>1
    <3>3. Count(Append(u, e), x) = Count(u, x) + (IF e = x THEN 1 ELSE 0)
      BY <3>2, CountAppend
    <3>4. /\ Count(Append(t, e), x) = Count(t, x) + (IF e = x THEN 1 ELSE 0)
          /\ Count(t, x) \in Nat
      BY CountAppend
    <3>. QED BY <3>1, <3>3, <3>4
  <2>4. PICK k : k = IF e = x THEN 1 ELSE 0
    OBVIOUS
  <2>5. k \in Nat
    BY <2>4
  <2>6. Count(s \o Append(t, e), x) = Count(s, x) + Count(Append(t, e), x)
    BY <1>0, <2>1, <2>2, <2>3, <2>4, <2>5
  <2>. QED BY <2>2, <2>6
<1>. HIDE DEF T
<1>3. \A t \in Seq(V) : t \in T
  BY <1>1, <1>2, SeqInduct
<1>. QED BY <1>3 DEF T

LEMMA CountType ==
  ASSUME NEW V, NEW s \in Seq(V), NEW x
  PROVE  Count(s, x) \in Nat
<1>1. CASE V = {}
  <2>1. s = <<>>
    BY <1>1
  <2>. QED BY <2>1, CountNone
<1>2. CASE V # {}
  BY <1>2, CountAppend
<1>. QED BY <1>1, <1>2

-----------------------------------------------------------------------------
(* The text a key leaves. *)

\* What was committed, what the word holds and what is composed.
LEMMA KeyText ==
  ASSUME NEW l, NEW c, Proper(c), NEW jamo \in Jamo, NEW r, r = ProcessJamo(l, c, jamo)
  PROVE  Letters(r.out \o Text(r))
           = Letters(c.out)
               \o (Letters(c.buffer) \o (Letters(AddJamo(l, c, jamo).done) \o Letters(Shown(r.cur))))
<1>0. c \in Context
  BY DEF Proper
<1>1. /\ r \in Context
      /\ r.buffer = (IF c.word THEN c.buffer \o AddJamo(l, c, jamo).done ELSE c.buffer)
      /\ r.out = (IF c.word THEN c.out ELSE c.out \o AddJamo(l, c, jamo).done)
  BY <1>0, ProcessFields
<1>2. c \in Context /\ (~c.word => c.buffer = <<>>) /\ c.word \in BOOLEAN
  BY ContextFields DEF Proper
<1>3. AddJamo(l, c, jamo) \in Context
  BY <1>2, JamoType
<1>4. PICK o, b, d, s : o = c.out /\ b = c.buffer /\ d = AddJamo(l, c, jamo).done /\ s = Shown(r.cur)
  OBVIOUS
<1>5. o \in Seq(Char) /\ b \in Seq(Char) /\ d \in Seq(Char) /\ s \in Seq(Char)
  BY <1>1, <1>2, <1>3, <1>4, ContextFields, ShownLetters
<1>6. d \o s \in Seq(Char) /\ b \o (d \o s) \in Seq(Char)
  BY <1>5, ConcatProperties
<1>7. Letters(o \o (b \o (d \o s))) = Letters(o) \o (Letters(b) \o (Letters(d) \o Letters(s)))
  <2>1. Letters(d \o s) = Letters(d) \o Letters(s)
    BY <1>5, LettersConcat
  <2>2. Letters(b \o (d \o s)) = Letters(b) \o Letters(d \o s)
    BY <1>5, <1>6, LettersConcat
  <2>3. Letters(o \o (b \o (d \o s))) = Letters(o) \o Letters(b \o (d \o s))
    BY <1>5, <1>6, LettersConcat
  <2>. QED BY <2>1, <2>2, <2>3
<1>8. r.out \o (r.buffer \o s) = o \o (b \o (d \o s))
  <2>1. /\ (b \o d) \o s = b \o (d \o s) /\ (o \o d) \o s = o \o (d \o s)
        /\ <<>> \o (d \o s) = d \o s /\ <<>> \o s = s
    <3>1. (b \o d) \o s = b \o (d \o s)
      <4>1. Regroups(b, d, s)
        BY <1>5, RegroupedChars
      <4>. QED BY <4>1 DEF Regroups
    <3>2. (o \o d) \o s = o \o (d \o s)
      <4>1. Regroups(o, d, s)
        BY <1>5, RegroupedChars
      <4>. QED BY <4>1 DEF Regroups
    <3>3. PICK ds : ds = d \o s
      OBVIOUS
    <3>4. <<>> \o ds = ds
      BY <1>6, <3>3, ConcatEmptySeq
    <3>5. <<>> \o s = s
      BY <1>5, ConcatEmptySeq
    <3>. QED BY <3>1, <3>2, <3>3, <3>4, <3>5
  <2>2. CASE c.word
    <3>1. r.out = o /\ r.buffer = b \o d
      BY <1>1, <1>4, <2>2
    <3>. QED BY <2>1, <3>1
  <2>3. CASE ~c.word
    <3>1. r.out = o \o d /\ r.buffer = <<>> /\ b = <<>>
      BY <1>1, <1>2, <1>4, <2>3
    <3>. QED BY <2>1, <3>1
  <2>. QED BY <2>2, <2>3
<1>. QED BY <1>4, <1>7, <1>8 DEF Text

\* t is s with the letters j before its last part.
Fronts(s, t, j) ==
  \E x \in Seq(Letter), y \in Seq(Letter) : s = x \o y /\ t = x \o (j \o y)

\* bidirectional_combine puts the letters in front of the last jamo's.
LEMMA BackwardText ==
  ASSUME NEW l, l.type # "2bul", NEW c \in Context, Sound(l, c), ~Unsettled(c), NEW jamo \in Jamo,
         CombinesBackward(l, c, jamo), NEW r, r = CombineBackward(c, jamo), ~Unsettled(r)
  PROVE  Fronts(Spelt(c.queue), Spelt(r.queue), jamo.letters)
<1>1. PICK q, last : q = Front(c.queue) /\ last = Last(c.queue)
  OBVIOUS
<1>2. /\ c.queue # <<>> /\ q \in Seq(Jamo) /\ last \in Jamo /\ c.queue = Append(q, last)
      /\ last.area = jamo.area
  BY <1>1, ContextFields, SeqParts DEF CombinesBackward
<1>3. PICK both : both = Fronted(c, jamo)
  OBVIOUS
<1>4. PICK area \in Areas : area = jamo.area
  BY FrontedType
<1>5. PICK old \in Seq(Letter) : old = c.cur[area]
  BY ContextFields, CharParts
<1>6. /\ both \in Jamo /\ both.area = area /\ both.letters = jamo.letters \o old
      /\ jamo.letters \in Seq(Letter)
  BY <1>3, <1>4, <1>5, FrontedType
<1>7. r \in Context /\ r.queue = Append(q, both) /\ r.cur[area] = jamo.letters \o old
  BY <1>1, <1>2, <1>3, <1>4, <1>5, BackwardType
<1>8. Whole(l, c)
  BY SettledWhole
<1>9. Whole(l, r)
  <2>1. Sound(l, r)
    BY BackwardSound
  <2>. QED BY <1>7, <2>1, SettledWhole
<1>10. PICK p \in Seq(Letter) : p = Part(q, area)
  BY <1>2, PartLetters
<1>11. old = p \o last.letters /\ last.letters \in Seq(Letter)
  <2>1. Part(Append(q, last), area) = p \o last.letters
    BY <1>2, <1>4, <1>10, PartAppend
  <2>. QED BY <1>2, <1>5, <1>8, <2>1 DEF Whole, Jamo
<1>12. jamo.letters \o old = p \o (jamo.letters \o old)
  <2>1. Part(Append(q, both), area) = p \o both.letters
    BY <1>2, <1>6, <1>10, PartAppend
  <2>. QED BY <1>6, <1>7, <1>9, <2>1 DEF Whole
<1>13. p = <<>>
  <2>1. jamo.letters \o old \in Seq(Letter)
    BY <1>6, ConcatProperties
  <2>. QED BY <1>12, <2>1, ConcatEqualIffEmpty
<1>14. old = last.letters
  BY <1>11, <1>13, ConcatEmptySeq
<1>15. Spelt(c.queue) = Spelt(q) \o old
  BY <1>2, <1>14, SpeltAppend
<1>16. Spelt(r.queue) = Spelt(q) \o (jamo.letters \o old)
  BY <1>2, <1>6, <1>7, SpeltAppend
<1>. QED BY <1>2, <1>15, <1>16, SpeltType DEF Fronts

\* The order of two parts does not count.
LEMMA CountSwapped ==
  ASSUME NEW b \in Seq(Letter), NEW x \in Seq(Letter), NEW y \in Seq(Letter), NEW j \in Seq(Letter)
  PROVE  SameLetters(b \o (x \o (j \o y)), (b \o (x \o y)) \o j)
<1>. SUFFICES ASSUME NEW letter \in Letter
              PROVE  Count(b \o (x \o (j \o y)), letter) = Count((b \o (x \o y)) \o j, letter)
  BY DEF SameLetters
<1>1. /\ Count(b, letter) \in Nat /\ Count(x, letter) \in Nat /\ Count(y, letter) \in Nat
      /\ Count(j, letter) \in Nat
  BY CountType
<1>2. /\ x \o y \in Seq(Letter) /\ j \o y \in Seq(Letter) /\ x \o (j \o y) \in Seq(Letter)
      /\ b \o (x \o y) \in Seq(Letter)
  BY ConcatProperties
<1>3. /\ Count(j \o y, letter) = Count(j, letter) + Count(y, letter)
      /\ Count(x \o y, letter) = Count(x, letter) + Count(y, letter)
  BY CountConcat
<1>4. Count(x \o (j \o y), letter) = Count(x, letter) + Count(j \o y, letter)
  BY <1>2, CountConcat
<1>5. Count(b \o (x \o (j \o y)), letter) = Count(b, letter) + Count(x \o (j \o y), letter)
  BY <1>2, CountConcat
<1>6. Count(b \o (x \o y), letter) = Count(b, letter) + Count(x \o y, letter)
  BY <1>2, CountConcat
<1>7. Count((b \o (x \o y)) \o j, letter) = Count(b \o (x \o y), letter) + Count(j, letter)
  BY <1>2, CountConcat
<1>. QED BY <1>1, <1>3, <1>4, <1>5, <1>6, <1>7

LEMMA KeyStep ==
  ASSUME TextInv, NEW jamo \in Keys[layout.type], Key(jamo), ~Unsettled(ctx), ~Unsettled(ctx')
  PROVE  LET old == Letters(Text(ctx)) \o jamo.letters
             new == Letters(ctx'.out \o Text(ctx'))
         IN IF layout.bidirectional THEN SameLetters(new, old) ELSE new = old
<1>1. /\ HangulInv /\ Steady(layout, ctx) /\ layout \in Layouts /\ ctx \in Context
  BY DEF TextInv, HangulInv, Proper
<1>2. /\ jamo \in Jamo /\ layout.type \in Types /\ (layout.type = "2bul" => Len(jamo.letters) = 1)
      /\ (layout.bidirectional => layout.type # "2bul")
  BY <1>1, KeysSingle, LayoutType
<1>3. PICK q : q = Quiet
  OBVIOUS
<1>4. Proper(q) /\ q \in Context /\ Alike(ctx, q) /\ Steady(layout, q) /\ q.out = <<>>
  BY <1>1, <1>3, QuietSteady
<1>5. q.queue = ctx.queue /\ q.cur = ctx.cur /\ q.buffer = ctx.buffer
  BY <1>4 DEF Alike, Same
<1>6. ~Unsettled(q) /\ Sound(layout, q)
  BY <1>4, <1>5 DEF Unsettled, Steady
<1>7. PICK r : r = ProcessJamo(layout, q, jamo)
  OBVIOUS
<1>7a. PICK a : a = AddJamo(layout, q, jamo)
  OBVIOUS
<1>8. ctx' = r
  BY <1>3, <1>7 DEF Key
<1>9. /\ r \in Context /\ a \in Context /\ Same(a, r)
      /\ Letters(r.out \o Text(r)) = Letters(q.buffer) \o (Letters(a.done) \o Letters(Shown(r.cur)))
  <2>1. Proper(q) /\ q \in Context /\ q.out = <<>> /\ jamo \in Jamo
    BY <1>2, <1>4
  <2>2. r \in Context /\ AddJamo(layout, q, jamo) \in Context /\ Same(AddJamo(layout, q, jamo), r)
    BY <1>7, <2>1, ProcessFields, JamoType
  <2>3. Letters(r.out \o Text(r))
          = Letters(q.buffer) \o (Letters(AddJamo(layout, q, jamo).done) \o Letters(Shown(r.cur)))
    <3>1. Letters(r.out \o Text(r))
            = Letters(q.out) \o (Letters(q.buffer)
                \o (Letters(AddJamo(layout, q, jamo).done) \o Letters(Shown(r.cur))))
      BY <1>7, <2>1, KeyText
    <3>2. PICK x, y, z : /\ x = Letters(q.buffer) /\ y = Letters(AddJamo(layout, q, jamo).done)
                         /\ z = Letters(Shown(r.cur))
      OBVIOUS
    <3>3. x \in Seq(Letter) /\ y \in Seq(Letter) /\ z \in Seq(Letter)
      BY <2>1, <2>2, <3>2, ContextFields, ShownLetters, LettersType
    <3>4. x \o (y \o z) \in Seq(Letter)
      BY <3>3, ConcatProperties
    <3>5. <<>> \o (x \o (y \o z)) = x \o (y \o z)
      BY <3>4, ConcatEmptySeq
    <3>6. Letters(q.out) = <<>>
      BY <2>1, LettersNone, Zenon
    <3>. QED BY <3>1, <3>2, <3>5, <3>6
  <2>. QED BY <1>7a, <2>2, <2>3
<1>10. Sound(layout, a) /\ Sound(layout, r)
  <2>1. Sound(layout, a)
    BY <1>2, <1>4, <1>6, <1>7a, JamoSound
  <2>. QED BY <1>9, <2>1, SoundSame
<1>11. ~Unsettled(r) /\ ~Unsettled(a)
  BY <1>8, <1>9 DEF Unsettled, Same
<1>12. Letters(Shown(r.cur)) = Spelt(a.queue)
  BY <1>9, <1>10, <1>11, SettledWhole DEF Same
<1>13. Letters(Text(ctx)) = Letters(q.buffer) \o Spelt(q.queue)
  <2>1. Letters(Shown(q.cur)) = Spelt(q.queue)
    BY <1>4, <1>6, SettledWhole
  <2>2. Text(ctx) = q.buffer \o Shown(q.cur) /\ q.buffer \in Seq(Char) /\ Shown(q.cur) \in Seq(Char)
    BY <1>4, <1>5, ContextFields, ShownLetters DEF Text
  <2>. QED BY <2>1, <2>2, LettersConcat
<1>14. PICK b, j, u, v, w : /\ b = Letters(q.buffer) /\ j = jamo.letters /\ u = Spelt(q.queue)
                            /\ v = Letters(a.done) /\ w = Spelt(a.queue)
  OBVIOUS
<1>15. /\ b \in Seq(Letter) /\ j \in Seq(Letter) /\ u \in Seq(Letter) /\ v \in Seq(Letter)
       /\ w \in Seq(Letter)
  BY <1>2, <1>4, <1>9, <1>14, ContextFields, LettersType, SpeltType DEF Jamo
<1>16. PICK old, new : old = Letters(Text(ctx)) \o jamo.letters /\ new = Letters(ctx'.out \o Text(ctx'))
  OBVIOUS
<1>17. old = (b \o u) \o j /\ new = b \o (v \o w)
  BY <1>8, <1>9, <1>12, <1>13, <1>14, <1>16
<1>18. CASE layout.type = "2bul" \/ ~CombinesBackward(layout, q, jamo)
  <2>1. v \o w = u \o j
    BY <1>2, <1>4, <1>6, <1>7a, <1>14, <1>18, JamoText
  <2>2. (b \o u) \o j = b \o (u \o j)
    <3>1. Regroups(b, u, j)
      BY <1>15, Regrouped
    <3>. QED BY <3>1 DEF Regroups
  <2>3. new = old
    BY <1>17, <2>1, <2>2
  <2>. QED BY <1>16, <2>3 DEF SameLetters
<1>19. CASE layout.type # "2bul" /\ CombinesBackward(layout, q, jamo)
  <2>1. a = CombineBackward(q, jamo)
    BY <1>7a, <1>19 DEF AddJamo, Add3Bul
  <2>2. a.done = <<>> /\ layout.bidirectional
    BY <1>2, <1>4, <1>19, <2>1, BackwardType DEF CombinesBackward
  <2>3. v = <<>>
    BY <1>14, <2>2, LettersNone, Zenon
  <2>4. PICK x \in Seq(Letter), y \in Seq(Letter) : u = x \o y /\ w = x \o (j \o y)
    <3>1. q \in Context /\ Sound(layout, q) /\ ~Unsettled(q) /\ jamo \in Jamo /\ ~Unsettled(a)
      BY <1>2, <1>4, <1>6, <1>11
    <3>2. layout.type # "2bul" /\ CombinesBackward(layout, q, jamo)
      BY <1>19
    <3>3. Fronts(Spelt(q.queue), Spelt(a.queue), jamo.letters)
      BY <2>1, <3>1, <3>2, BackwardText
    <3>4. Fronts(u, w, j)
      BY <1>14, <3>3
    <3>. QED BY <3>4 DEF Fronts
  <2>5. new = b \o (x \o (j \o y)) /\ old = (b \o (x \o y)) \o j
    <3>1. <<>> \o w = w
      BY <1>15, ConcatEmptySeq
    <3>. QED BY <1>17, <2>3, <2>4, <3>1
  <2>6. SameLetters(b \o (x \o (j \o y)), (b \o (x \o y)) \o j)
    BY <1>15, <2>4, CountSwapped
  <2>. QED BY <1>16, <2>2, <2>5, <2>6
<1>. QED BY <1>18, <1>19

\* A key adds its letter at the end of the text and changes nothing before it,
\* whatever syllable it ends, splits or begins; one that combines backward stands
\* before the last letter (add_jamo_with, handle_dokkaebi_effect).
THEOREM KeyTextKept == Spec => KeyKeepsText
<1>1. TextInv => [\A jamo \in Keys[layout.type] :
                   Key(jamo) /\ ~Unsettled(ctx) /\ ~Unsettled(ctx') =>
                     LET old == Letters(Text(ctx)) \o jamo.letters
                         new == Letters(ctx'.out \o Text(ctx'))
                     IN IF layout.bidirectional THEN SameLetters(new, old) ELSE new = old]_vars
  BY KeyStep
<1>. QED BY <1>1, TextInit, TextStep, PTL DEF Spec, KeyKeepsText

-----------------------------------------------------------------------------
(* A Backspace takes back the key before it. *)

\* remove_jamo after add_jamo_with, when nothing was returned.
LEMMA AddBack ==
  ASSUME NEW l, NEW c \in Context, Sound(l, c), ~Unsettled(c), NEW jamo \in Jamo,
         l.type = "2bul" => Len(jamo.letters) = 1,
         NEW a, a = AddJamoWith(l, c, jamo), a.done = <<>>, NEW r, r = RemoveJamo(l, a)
  PROVE  Letters(Shown(r.cur)) = Spelt(c.queue)
<1>1. a \in Context /\ a.queue = Append(c.queue, jamo) /\ Sound(l, a)
  BY AddText, AddWhole, AddSound
<1>2. c.queue \in Seq(Jamo) /\ c.cur \in Char
  BY ContextFields
<1>3. a.queue # <<>> /\ Front(a.queue) = c.queue
  BY <1>1, <1>2, AppendParts
<1>4. r \in Context /\ r.queue = c.queue /\ Whole(l, r)
  BY <1>1, <1>3, RemoveWhole
<1>5. Whole(l, c) /\ Letters(Shown(c.cur)) = Spelt(c.queue)
  BY SettledWhole
<1>6. \A area \in Areas : r.cur[area] = c.cur[area]
  BY <1>4, <1>5 DEF Whole
<1>7. r.cur = c.cur
  BY <1>2, <1>4, <1>6, ContextFields, CharEqual
<1>. QED BY <1>5, <1>7

\* The consonant the dokkaebi effect moved was the whole syllable.
LEMMA MoveBack ==
  ASSUME NEW l, l.type = "2bul", NEW c \in Context, Sound(l, c), ~Unsettled(c), NEW jamo \in Jamo,
         Len(jamo.letters) = 1, Dokkaebi(c, jamo),
         NEW a, a = MoveJong(l, c, jamo), a.done = <<>>, NEW r, r = RemoveJamo(l, a)
  PROVE  Letters(Shown(r.cur)) = Spelt(c.queue)
<1>1. PICK cho, vowel : cho = Plain("cho", Last(c.queue).letters) /\ vowel = Plain("jung", jamo.letters)
  OBVIOUS
<1>2. /\ a \in Context /\ cho \in Jamo /\ vowel \in Jamo /\ <<cho>> \in Seq(Jamo)
      /\ a.queue = Append(<<cho>>, vowel)
  BY <1>1, MoveWhole
<1>3. Sound(l, a) /\ Front(c.queue) = <<>>
  BY MoveSound, MoveText
<1>4. PICK one : one = <<cho>>
  OBVIOUS
<1>5. one \in Seq(Jamo) /\ a.queue = Append(one, vowel)
  BY <1>2, <1>4
<1>6. a.queue # <<>> /\ Front(a.queue) = one
  BY <1>2, <1>5, AppendParts
<1>7. r \in Context /\ r.queue = one /\ Whole(l, r)
  BY <1>2, <1>3, <1>6, RemoveWhole
<1>8. Letters(Shown(r.cur)) = cho.letters
  BY <1>2, <1>4, <1>7, LoneText
<1>9. PICK q, jong : q = Front(c.queue) /\ jong = Last(c.queue)
  OBVIOUS
<1>10. q \in Seq(Jamo) /\ jong \in Jamo /\ c.queue = Append(q, jong)
  BY <1>9, ContextFields, SeqParts DEF Dokkaebi
<1>11. Spelt(c.queue) = Spelt(q) \o jong.letters
  BY <1>10, SpeltAppend
<1>12. Spelt(q) = <<>>
  BY <1>3, <1>9, SpeltNone, Zenon
<1>13. jong.letters \in Seq(Letter)
  BY <1>10 DEF Jamo
<1>14. Spelt(c.queue) = jong.letters
  BY <1>11, <1>12, <1>13, ConcatEmptySeq
<1>15. cho.letters = jong.letters
  BY <1>1, <1>9 DEF Plain
<1>. QED BY <1>8, <1>14, <1>15

LEMMA JamoBack ==
  ASSUME NEW l, l.type \in Types, ~l.bidirectional, NEW c \in Context, Sound(l, c), ~Unsettled(c),
         NEW jamo \in Jamo, l.type = "2bul" => Len(jamo.letters) = 1,
         NEW a, a = AddJamo(l, c, jamo), a.done = <<>>, NEW r, r = RemoveJamo(l, a)
  PROVE  Letters(Shown(r.cur)) = Spelt(c.queue)
<1>1. CASE a = AddJamoWith(l, c, jamo)
  BY <1>1, AddBack
<1>2. CASE a = AddJamoWith(l, c, Plain("jong", jamo.letters))
  <2>1. PICK final : final = Plain("jong", jamo.letters)
    OBVIOUS
  <2>2. final \in Jamo /\ final.letters = jamo.letters
    BY <2>1, VowelType DEF Plain, Areas
  <2>3. a = AddJamoWith(l, c, final)
    BY <1>2, <2>1
  <2>. QED BY <2>2, <2>3, AddBack
<1>3. CASE l.type = "2bul" /\ Dokkaebi(c, jamo) /\ a = MoveJong(l, c, jamo)
  BY <1>3, MoveBack
<1>4. CASE l.type = "2bul"
  <2>1. a = Add2Bul(l, c, jamo)
    BY <1>4 DEF AddJamo
  <2>2. \/ a = AddJamoWith(l, c, jamo)
        \/ a = AddJamoWith(l, c, Plain("jong", jamo.letters))
        \/ Dokkaebi(c, jamo) /\ a = MoveJong(l, c, jamo)
    BY <2>1 DEF Add2Bul
  <2>. QED BY <1>1, <1>2, <1>3, <1>4, <2>2
<1>5. CASE l.type # "2bul"
  <2>1. ~CombinesBackward(l, c, jamo)
    BY DEF CombinesBackward
  <2>. QED BY <1>1, <1>5, <2>1 DEF AddJamo, Add3Bul
<1>. QED BY <1>4, <1>5

\* remove_jamo is the same for contexts with the same composer.
LEMMA RemoveSame ==
  ASSUME NEW l, NEW c \in Context, NEW d \in Context, Same(c, d)
  PROVE  Same(RemoveJamo(l, c), RemoveJamo(l, d))
<1>1. CASE c.queue = <<>>
  BY <1>1 DEF RemoveJamo, Same
<1>2. CASE c.queue # <<>>
  <2>1. PICK f : f = [c EXCEPT !.queue = Front(@)]
    OBVIOUS
  <2>2. PICK g : g = [d EXCEPT !.queue = Front(@)]
    OBVIOUS
  <2>3. d.queue # <<>>
    BY <1>2 DEF Same
  <2>4. f \in Context /\ f.queue = Front(c.queue) /\ f.cur = c.cur
    BY <1>2, <2>1, FrontSet
  <2>5. g \in Context /\ g.queue = Front(d.queue) /\ g.cur = d.cur
    BY <2>2, <2>3, FrontSet
  <2>6. Same(f, g)
    BY <2>4, <2>5 DEF Same
  <2>7. RemoveJamo(l, c) = ComposeKorean(l, f) /\ RemoveJamo(l, d) = ComposeKorean(l, g)
    BY <1>2, <2>1, <2>2, <2>3 DEF RemoveJamo
  <2>. QED BY <2>4, <2>5, <2>6, <2>7, KoreanSame
<1>. QED BY <1>1, <1>2

\* In word mode, after one key and after more.
LEMMA KeyUndone ==
  ASSUME NEW l, NEW c, c.word /\ Len(c.keys) = 1
  PROVE  BackspaceContext(l, c) = ClearComposing(c)
BY DEF BackspaceContext

LEMMA KeysUndone ==
  ASSUME NEW l, NEW c, c.word /\ Len(c.keys) \in Nat /\ Len(c.keys) > 1
  PROVE  BackspaceContext(l, c) = [Replay(l, c, Front(c.keys)) EXCEPT !.keys = Front(c.keys)]
BY DEF BackspaceContext

\* In word mode the keys before it are typed again.
LEMMA WordBack ==
  ASSUME NEW l, NEW c, Proper(c), c.word, Told(l, c), NEW jamo \in Jamo,
         NEW t, t = ProcessJamo(l, c, jamo), NEW r, r = BackspaceContext(l, t)
  PROVE  Text(r) = Text(c)
<1>1. c \in Context /\ c.keys \in Seq(Jamo) /\ c.done = <<>>
  BY ContextFields DEF Proper
<1>2. /\ t \in Context /\ t.done = <<>> /\ t.word = c.word
      /\ t.keys = IF c.word THEN Append(c.keys, jamo) ELSE c.keys
  BY <1>1, ProcessFields
<1>3. t.keys = Append(c.keys, jamo)
  BY <1>2
<1>4. t.keys # <<>> /\ Front(t.keys) = c.keys /\ Len(t.keys) = Len(c.keys) + 1 /\ Len(c.keys) \in Nat
  BY <1>1, <1>3, AppendParts, AppendProperties
<1>5. Alike(Replay(l, c, c.keys), c)
  BY DEF Told
<1>6. CASE c.keys = <<>>
  <2>1. t.word /\ Len(t.keys) = 1
    BY <1>2, <1>4, <1>6
  <2>2. r = ClearComposing(t)
    BY <2>1, KeyUndone
  <2>3. r \in Context /\ r.buffer = <<>> /\ r.cur = Empty
    BY <1>2, <2>2, ClearingFields DEF Blank
  <2>4. PICK s : s = Restart(c)
    OBVIOUS
  <2>5. s.buffer = <<>> /\ s.cur = Empty
    BY <1>1, <2>4, RestartFields
  <2>6. Replay(l, c, c.keys) = s
    BY <1>1, <1>6, <2>4, ReplayNone, Zenon
  <2>7. c.buffer = <<>> /\ c.cur = Empty
    BY <1>5, <2>5, <2>6 DEF Alike, Same
  <2>. QED BY <2>3, <2>7 DEF Text
<1>7. CASE c.keys # <<>>
  <2>1. t.word /\ Len(t.keys) \in Nat /\ Len(t.keys) > 1
    <3>1. Len(c.keys) # 0
      BY <1>1, <1>7, EmptySeq
    <3>2. Len(t.keys) \in Nat /\ Len(t.keys) > 1
      BY <1>4, <3>1
    <3>. QED BY <1>2, <3>2
  <2>2. PICK e : e = Replay(l, t, c.keys)
    OBVIOUS
  <2>3. r = [e EXCEPT !.keys = c.keys]
    <3>1. BackspaceContext(l, t) = [Replay(l, t, Front(t.keys)) EXCEPT !.keys = Front(t.keys)]
      BY <2>1, KeysUndone
    <3>. QED BY <1>4, <2>2, <3>1
  <2>4. e \in Context /\ Alike(Replay(l, c, c.keys), e)
    BY <1>1, <1>2, <2>2, ReplayType, ReplayAlike
  <2>5. r.buffer = e.buffer /\ r.cur = e.cur
    BY <2>3, <2>4 DEF Context
  <2>. QED BY <1>5, <2>4, <2>5 DEF Alike, Same, Text
<1>. QED BY <1>6, <1>7

\* What ProcessJamo leaves of a context, and what it commits in syllable mode.
KeyTyped(l, c, jamo, t) ==
  /\ t \in Context /\ Same(AddJamo(l, c, jamo), t) /\ t.order = <<>> /\ t.word = c.word
  /\ ~c.word => /\ t.keys = c.keys /\ t.buffer = c.buffer
                /\ t.out = c.out \o AddJamo(l, c, jamo).done

LEMMA SyllableFields ==
  ASSUME NEW l, NEW c \in Context, NEW jamo \in Jamo, NEW t, t = ProcessJamo(l, c, jamo)
  PROVE  KeyTyped(l, c, jamo, t)
<1>1. /\ t \in Context /\ Same(AddJamo(l, c, jamo), t)
      /\ t.order = <<>> /\ t.word = c.word /\ t.done = <<>>
      /\ t.keys = (IF c.word THEN Append(c.keys, jamo) ELSE c.keys)
      /\ t.buffer = (IF c.word THEN c.buffer \o AddJamo(l, c, jamo).done ELSE c.buffer)
      /\ t.out = (IF c.word THEN c.out ELSE c.out \o AddJamo(l, c, jamo).done)
  BY ProcessFields
<1>2. PICK done : done = AddJamo(l, c, jamo).done
  OBVIOUS
<1>3. PICK wide : wide = c.buffer \o done
  OBVIOUS
<1>4. PICK sent : sent = c.out \o done
  OBVIOUS
<1>5. PICK held : held = Append(c.keys, jamo)
  OBVIOUS
<1>6. /\ t.keys = (IF c.word THEN held ELSE c.keys)
      /\ t.buffer = (IF c.word THEN wide ELSE c.buffer)
      /\ t.out = (IF c.word THEN c.out ELSE sent)
  BY <1>1, <1>2, <1>3, <1>4, <1>5
<1>7. ~c.word => t.keys = c.keys /\ t.buffer = c.buffer /\ t.out = sent
  BY <1>6
<1>8. ~c.word => t.keys = c.keys /\ t.buffer = c.buffer /\ t.out = c.out \o AddJamo(l, c, jamo).done
  BY <1>2, <1>4, <1>7
<1>. QED BY <1>1, <1>8 DEF KeyTyped

\* In syllable mode the last jamo goes.
LEMMA SyllableBack ==
  ASSUME NEW l, l.type \in Types, ~l.bidirectional, NEW c, Proper(c), ~c.word,
         Sound(l, c), ~Unsettled(c), NEW jamo \in Jamo, l.type = "2bul" => Len(jamo.letters) = 1,
         NEW t, t = ProcessJamo(l, c, jamo), t.out = c.out, NEW r, r = BackspaceContext(l, t)
  PROVE  Letters(Text(r)) = Letters(Text(c))
<1>1. c \in Context /\ c.buffer = <<>> /\ c.keys = <<>>
  BY DEF Proper
<1>2. PICK a : a = AddJamo(l, c, jamo)
  OBVIOUS
<1>3. /\ t \in Context /\ Same(AddJamo(l, c, jamo), t) /\ t.order = <<>> /\ t.word = c.word
      /\ t.keys = c.keys /\ t.buffer = c.buffer /\ t.out = c.out \o AddJamo(l, c, jamo).done
  <2>1. KeyTyped(l, c, jamo, t)
    BY <1>1, SyllableFields
  <2>. QED BY <2>1 DEF KeyTyped
<1>4. ~t.word /\ t.keys = <<>> /\ t.buffer = <<>>
  BY <1>1, <1>3
<1>5. a \in Context /\ Same(a, t)
  BY <1>1, <1>2, <1>3, JamoType
<1>6. a.done = <<>>
  <2>1. PICK o, d : o = c.out /\ d = a.done
    OBVIOUS
  <2>2. o \in Seq(Char) /\ d \in Seq(Char)
    BY <1>1, <1>5, <2>1, ContextFields
  <2>3. o \o d = o
    BY <1>2, <1>3, <2>1
  <2>4. d = <<>>
    BY <2>2, <2>3, ConcatEqualIffEmpty
  <2>. QED BY <2>1, <2>4
<1>7. r = RemoveJamo(l, t)
  BY <1>3, <1>4 DEF BackspaceContext
<1>8. PICK x : x = RemoveJamo(l, a)
  OBVIOUS
<1>9. r.cur = x.cur
  BY <1>3, <1>5, <1>7, <1>8, RemoveSame DEF Same
<1>10. Letters(Shown(x.cur)) = Spelt(c.queue)
  BY <1>1, <1>2, <1>6, <1>8, JamoBack
<1>11. Letters(Shown(c.cur)) = Spelt(c.queue)
  BY <1>1, SettledWhole
<1>12. r \in Context /\ r.buffer = <<>>
  BY <1>3, <1>4, <1>7, RemoveType DEF Apart
<1>13. Text(r) = Shown(r.cur) /\ Text(c) = Shown(c.cur)
  <2>1. Shown(r.cur) \in Seq(Char) /\ Shown(c.cur) \in Seq(Char)
    BY <1>1, <1>12, ContextFields, ShownLetters
  <2>. QED BY <1>1, <1>12, <2>1, ConcatEmptySeq DEF Text
<1>. QED BY <1>9, <1>10, <1>11, <1>13

\* A key that ended no syllable, and in word mode any key, is undone by one
\* Backspace (remove_jamo, backspace_preedit and its replay of word_keys).
THEOREM BackspaceUndoes == Spec => []BackspaceUndoesKey
<1>1. WordInv /\ TextInv => BackspaceUndoesKey
  <2>. SUFFICES ASSUME WordInv, TextInv, ~layout.bidirectional, pending = <<>>,
                       ~(layout.chord /\ ctx.word), ~Unsettled(ctx), NEW jamo \in Keys[layout.type],
                       NEW t, t = ProcessJamo(layout, Quiet, jamo), t.out = <<>>
                PROVE  Letters(Text(BackspaceContext(layout, t))) = Letters(Text(ctx))
    BY DEF BackspaceUndoesKey
  <2>1. /\ HangulInv /\ Steady(layout, ctx) /\ layout \in Layouts /\ ctx.word \in BOOLEAN
        /\ Proper(ctx)
    BY ContextFields DEF TextInv, HangulInv, Proper
  <2>2. jamo \in Jamo /\ layout.type \in Types /\ (layout.type = "2bul" => Len(jamo.letters) = 1)
    BY <2>1, KeysSingle
  <2>3. PICK q : q = Quiet
    OBVIOUS
  <2>4. Proper(q) /\ Alike(ctx, q) /\ Steady(layout, q) /\ q.out = <<>>
    BY <2>1, <2>3, QuietSteady
  <2>5. q.queue = ctx.queue /\ q.cur = ctx.cur /\ q.buffer = ctx.buffer /\ q.word = ctx.word
    BY <2>4 DEF Alike, Same
  <2>6. ~Unsettled(q) /\ Sound(layout, q) /\ Text(q) = Text(ctx)
    BY <2>4, <2>5 DEF Unsettled, Steady, Text
  <2>7. PICK r : r = BackspaceContext(layout, t)
    OBVIOUS
  <2>8. t = ProcessJamo(layout, q, jamo)
    BY <2>3
  <2>9. CASE ctx.word
    <3>1. Told(layout, ctx)
      BY <2>9 DEF WordInv
    <3>2. Told(layout, q)
      BY <2>1, <2>3, <3>1, QuietTold
    <3>3. q.word
      BY <2>5, <2>9
    <3>4. Text(r) = Text(q)
      BY <2>2, <2>4, <2>7, <2>8, <3>2, <3>3, WordBack
    <3>. QED BY <2>6, <2>7, <3>4
  <2>10. CASE ~ctx.word
    <3>1. ~q.word
      BY <2>5, <2>10
    <3>2. Letters(Text(r)) = Letters(Text(q))
      <4>1. t.out = q.out
        BY <2>4
      <4>. QED BY <2>2, <2>4, <2>6, <2>7, <2>8, <3>1, <4>1, SyllableBack
    <3>. QED BY <2>6, <2>7, <3>2
  <2>. QED BY <2>1, <2>9, <2>10
<1>. QED BY <1>1, WordInit, WordStep, TextInit, TextStep, PTL DEF Spec

-----------------------------------------------------------------------------
(* How often a letter stands in a sequence of jamo, in whatever order. *)

Tally(q, x) == Count(Spelt(q), x)

LEMMA TallyNone == ASSUME NEW x PROVE Tally(<<>>, x) = 0
BY SpeltNone, CountNone, Zenon DEF Tally

LEMMA TallyAppend ==
  ASSUME NEW q \in Seq(Jamo), NEW jamo \in Jamo, NEW x
  PROVE  /\ Tally(q, x) \in Nat /\ Count(jamo.letters, x) \in Nat
         /\ Tally(Append(q, jamo), x) = Tally(q, x) + Count(jamo.letters, x)
<1>1. PICK s, t : s = Spelt(q) /\ t = jamo.letters
  OBVIOUS
<1>2. s \in Seq(Letter) /\ t \in Seq(Letter) /\ Spelt(Append(q, jamo)) = s \o t
  BY <1>1, SpeltType, SpeltAppend DEF Jamo
<1>3. Count(s, x) \in Nat /\ Count(t, x) \in Nat /\ Count(s \o t, x) = Count(s, x) + Count(t, x)
  BY <1>2, CountType, CountConcat
<1>. QED BY <1>1, <1>2, <1>3 DEF Tally

\* q without the jamo at k.
Less(q, k) == [i \in 1..(Len(q) - 1) |-> IF i < k THEN q[i] ELSE q[i + 1]]

LessGrown(q, jamo, more) ==
  \A k \in 1..Len(q) : Less(q, k) \in Seq(Jamo) => Less(more, k) = Append(Less(q, k), jamo)

LEMMA LessParts ==
  ASSUME NEW q \in Seq(Jamo), NEW jamo \in Jamo, NEW more, more = Append(q, jamo)
  PROVE  /\ Less(more, Len(q) + 1) = q
         /\ LessGrown(q, jamo, more)
<1>. DEFINE n == Len(q)
<1>1. /\ n \in Nat /\ more \in Seq(Jamo) /\ Len(more) = n + 1 /\ more[n + 1] = jamo
      /\ \A i \in 1..n : more[i] = q[i]
  BY AppendProperties
<1>2. (n + 1) - 1 = n
  BY <1>1
<1>. HIDE DEF n
<1>3. Less(more, n + 1) = q
  <2>1. Less(more, n + 1) = [i \in 1..n |-> IF i < n + 1 THEN more[i] ELSE more[i + 1]]
    BY <1>1, <1>2 DEF Less
  <2>2. \A i \in 1..n : i < n + 1
    BY <1>1
  <2>3. q = [i \in 1..n |-> q[i]]
    BY DEF n
  <2>. QED BY <1>1, <2>1, <2>2, <2>3
<1>4. ASSUME NEW k \in 1..n, Less(q, k) \in Seq(Jamo) PROVE Less(more, k) = Append(Less(q, k), jamo)
  <2>1. PICK s : s = Less(q, k)
    OBVIOUS
  <2>2. /\ s \in Seq(Jamo) /\ n - 1 \in Nat /\ Len(s) = n - 1
        /\ \A i \in 1..(n - 1) : s[i] = IF i < k THEN q[i] ELSE q[i + 1]
    BY <1>1, <1>4, <2>1 DEF Less, n
  <2>3. PICK t : t = Append(s, jamo)
    OBVIOUS
  <2>4. /\ t \in Seq(Jamo) /\ Len(t) = (n - 1) + 1 /\ t[(n - 1) + 1] = jamo
        /\ \A i \in 1..(n - 1) : t[i] = s[i]
    BY <2>2, <2>3, AppendProperties
  <2>5. (n - 1) + 1 = n
    BY <1>1
  <2>6. Less(more, k) = [i \in 1..n |-> IF i < k THEN more[i] ELSE more[i + 1]]
    BY <1>1, <1>2 DEF Less
  <2>7. ASSUME NEW i \in 1..n PROVE (IF i < k THEN more[i] ELSE more[i + 1]) = t[i]
    <3>1. CASE i = n
      <4>1. ~(i < k)
        BY <1>1, <3>1
      <4>. QED BY <1>1, <2>4, <2>5, <3>1, <4>1
    <3>2. CASE i # n
      <4>1. i \in 1..(n - 1) /\ i + 1 \in 1..n
        BY <1>1, <3>2
      <4>. QED BY <1>1, <2>2, <2>4, <4>1
    <3>. QED BY <3>1, <3>2
  <2>8. t = [i \in 1..n |-> t[i]]
    BY <2>4, <2>5
  <2>. QED BY <2>1, <2>3, <2>6, <2>7, <2>8
<1>5. LessGrown(q, jamo, more)
  BY <1>4 DEF LessGrown, n
<1>. QED BY <1>3, <1>5 DEF n

LEMMA LessTally ==
  ASSUME NEW x
  PROVE  \A q \in Seq(Jamo) : \A k \in 1..Len(q) :
           /\ Less(q, k) \in Seq(Jamo) /\ Len(Less(q, k)) = Len(q) - 1
           /\ Tally(q, x) = Tally(Less(q, k), x) + Count(q[k].letters, x)
<1>. DEFINE Told1(q, k) == /\ Less(q, k) \in Seq(Jamo) /\ Len(Less(q, k)) = Len(q) - 1
                           /\ Tally(q, x) = Tally(Less(q, k), x) + Count(q[k].letters, x)
            T == {q \in Seq(Jamo) : \A k \in 1..Len(q) : Told1(q, k)}
<1>1. <<>> \in T
  <2>1. <<>> \in Seq(Jamo) /\ 1..Len(<<>>) = {}
    OBVIOUS
  <2>. HIDE DEF Told1
  <2>. QED BY <2>1
<1>2. ASSUME NEW q \in Seq(Jamo), NEW jamo \in Jamo, q \in T PROVE Append(q, jamo) \in T
  <2>1. PICK more : more = Append(q, jamo)
    OBVIOUS
  <2>2. PICK n : n = Len(q)
    OBVIOUS
  <2>3. /\ n \in Nat /\ more \in Seq(Jamo) /\ Len(more) = n + 1 /\ more[n + 1] = jamo
        /\ \A i \in 1..n : more[i] = q[i]
    BY <2>1, <2>2, AppendProperties
  <2>4. Tally(more, x) = Tally(q, x) + Count(jamo.letters, x) /\ Tally(q, x) \in Nat
        /\ Count(jamo.letters, x) \in Nat
    BY <2>1, TallyAppend
  <2>5. Told1(more, n + 1)
    <3>1. Less(more, n + 1) = q
      BY <2>1, <2>2, LessParts
    <3>2. Len(q) = Len(more) - 1
      BY <2>2, <2>3
    <3>. QED BY <2>3, <2>4, <3>1, <3>2
  <2>6. ASSUME NEW k \in 1..n PROVE Told1(more, k)
    <3>1. Told1(q, k)
      BY <1>2, <2>2
    <3>2. PICK s : s = Less(q, k)
      OBVIOUS
    <3>3. s \in Seq(Jamo) /\ Len(s) = n - 1 /\ Tally(q, x) = Tally(s, x) + Count(q[k].letters, x)
      BY <2>2, <3>1, <3>2
    <3>4. Less(more, k) = Append(s, jamo)
      <4>1. k \in 1..Len(q) /\ Less(q, k) \in Seq(Jamo)
        BY <2>2, <3>2, <3>3
      <4>2. LessGrown(q, jamo, more)
        BY <2>1, LessParts
      <4>3. Less(more, k) = Append(Less(q, k), jamo)
        BY <4>1, <4>2 DEF LessGrown
      <4>. QED BY <3>2, <4>3
    <3>5. Append(s, jamo) \in Seq(Jamo) /\ Len(Append(s, jamo)) = Len(s) + 1
      BY <3>3, AppendProperties
    <3>6. Tally(Append(s, jamo), x) = Tally(s, x) + Count(jamo.letters, x) /\ Tally(s, x) \in Nat
      BY <3>3, TallyAppend
    <3>7. more[k] = q[k] /\ q[k] \in Jamo
      BY <2>2, <2>3
    <3>8. Count(q[k].letters, x) \in Nat
      BY <3>7, TallyAppend
    <3>9. Len(s) + 1 = Len(more) - 1
      BY <2>3, <3>3
    <3>10. Tally(more, x) = Tally(Append(s, jamo), x) + Count(more[k].letters, x)
      <4>1. PICK a, b, c : a = Tally(s, x) /\ b = Count(jamo.letters, x) /\ c = Count(q[k].letters, x)
        OBVIOUS
      <4>2. a \in Nat /\ b \in Nat /\ c \in Nat
        BY <2>4, <3>6, <3>8, <4>1
      <4>3. Tally(more, x) = (a + c) + b /\ Tally(Append(s, jamo), x) = a + b
        BY <2>4, <3>3, <3>6, <4>1
      <4>4. (a + c) + b = (a + b) + c
        BY <4>2
      <4>. QED BY <3>7, <4>1, <4>3, <4>4
    <3>. QED BY <3>4, <3>5, <3>9, <3>10
  <2>7. ASSUME NEW k \in 1..Len(more) PROVE Told1(more, k)
    <3>1. k = n + 1 \/ k \in 1..n
      BY <2>3
    <3>. HIDE DEF Told1
    <3>. QED BY <2>5, <2>6, <3>1
  <2>. HIDE DEF Told1
  <2>. QED BY <2>1, <2>3, <2>7
<1>. HIDE DEF T
<1>3. \A q \in Seq(Jamo) : q \in T
  BY <1>1, <1>2, SeqInduct
<1>. QED BY <1>3 DEF T

\* Where a number has been taken out the numbers stay apart.
LEMMA OneShift ==
  ASSUME NEW n \in Nat, NEW k \in 1..(n + 1), NEW a \in 1..(n + 1), NEW b \in 1..(n + 1), a # k, b # k,
         (IF a < k THEN a ELSE a - 1) = (IF b < k THEN b ELSE b - 1)
  PROVE  a = b
<1>1. a \in Int /\ b \in Int /\ k \in Int /\ (a < k \/ a > k) /\ (b < k \/ b > k)
  OBVIOUS
<1>2. a < k => (IF a < k THEN a ELSE a - 1) = a
  OBVIOUS
<1>3. b < k => (IF b < k THEN b ELSE b - 1) = b
  OBVIOUS
<1>4. a > k => (IF a < k THEN a ELSE a - 1) = a - 1
  BY <1>1
<1>5. b > k => (IF b < k THEN b ELSE b - 1) = b - 1
  BY <1>1
<1>. QED BY <1>1, <1>2, <1>3, <1>4, <1>5

\* The orders of jamo have the same letters.
LEMMA OrderTally ==
  ASSUME NEW x
  PROVE  \A jamos \in Seq(Jamo) : \A order \in Orders(jamos) : Tally(order, x) = Tally(jamos, x)
<1>. DEFINE Alike1(jamos) == \A order \in Orders(jamos) : Tally(order, x) = Tally(jamos, x)
            S == {n \in Nat : \A jamos \in Seq(Jamo) : Len(jamos) = n => Alike1(jamos)}
<1>1. 0 \in S
  <2>1. ASSUME NEW jamos \in Seq(Jamo), Len(jamos) = 0, NEW order \in Orders(jamos)
        PROVE  Tally(order, x) = Tally(jamos, x)
    <3>1. order \in Seq(Jamo) /\ Len(order) = 0
      BY <2>1, OrderType
    <3>2. order = <<>> /\ jamos = <<>>
      BY <2>1, <3>1, EmptySeq
    <3>. QED BY <3>2
  <2>. QED BY <2>1
<1>2. ASSUME NEW n \in Nat, n \in S PROVE n + 1 \in S
  <2>. SUFFICES ASSUME NEW jamos \in Seq(Jamo), Len(jamos) = n + 1, NEW order \in Orders(jamos)
                PROVE  Tally(order, x) = Tally(jamos, x)
    OBVIOUS
  <2>1. PICK p \in [1..(n + 1) -> 1..(n + 1)] :
          IsInjective(p) /\ order = [i \in 1..(n + 1) |-> jamos[p[i]]]
    BY DEF Orders
  <2>2. PICK k \in 1..(n + 1) : k = p[n + 1]
    BY <2>1
  <2>3. PICK less : less = Less(jamos, k)
    OBVIOUS
  <2>4. /\ less \in Seq(Jamo) /\ Len(less) = n
        /\ Tally(jamos, x) = Tally(less, x) + Count(jamos[k].letters, x)
    <3>1. k \in 1..Len(jamos) /\ Len(jamos) - 1 = n
      OBVIOUS
    <3>. QED BY <2>3, <3>1, LessTally
  <2>5. \A i \in 1..n : less[i] = IF i < k THEN jamos[i] ELSE jamos[i + 1]
    <3>1. Len(jamos) - 1 = n
      OBVIOUS
    <3>. QED BY <2>3, <3>1 DEF Less
  <2>6. PICK r : r = [i \in 1..n |-> IF p[i] < k THEN p[i] ELSE p[i] - 1]
    OBVIOUS
  <2>7. \A i \in 1..n : p[i] \in 1..(n + 1) /\ p[i] # k /\ i # n + 1
    <3>. SUFFICES ASSUME NEW i \in 1..n PROVE p[i] \in 1..(n + 1) /\ p[i] # k /\ i # n + 1
      OBVIOUS
    <3>1. i \in 1..(n + 1) /\ n + 1 \in 1..(n + 1) /\ i # n + 1
      OBVIOUS
    <3>. QED BY <2>1, <2>2, <3>1 DEF IsInjective
  <2>8. r \in [1..n -> 1..n]
    <3>1. ASSUME NEW i \in 1..n PROVE (IF p[i] < k THEN p[i] ELSE p[i] - 1) \in 1..n
      <4>1. PICK m : m = p[i]
        OBVIOUS
      <4>2. m \in 1..(n + 1) /\ m # k
        BY <2>7, <4>1
      <4>3. m < k => m \in 1..n
        BY <4>2
      <4>4. ~(m < k) => m - 1 \in 1..n
        BY <4>2
      <4>. QED BY <4>1, <4>3, <4>4
    <3>. QED BY <2>6, <3>1
  <2>9. IsInjective(r)
    <3>. SUFFICES ASSUME NEW i \in 1..n, NEW j \in 1..n, r[i] = r[j] PROVE i = j
      BY <2>8 DEF IsInjective
    <3>1. p[i] = p[j]
      <4>1. p[i] \in 1..(n + 1) /\ p[j] \in 1..(n + 1) /\ p[i] # k /\ p[j] # k
        BY <2>7
      <4>2. r[i] = (IF p[i] < k THEN p[i] ELSE p[i] - 1) /\ r[j] = (IF p[j] < k THEN p[j] ELSE p[j] - 1)
        BY <2>6
      <4>. QED BY <4>1, <4>2, OneShift
    <3>2. i \in 1..(n + 1) /\ j \in 1..(n + 1)
      OBVIOUS
    <3>. QED BY <2>1, <3>1, <3>2 DEF IsInjective
  <2>10. PICK o : o = [i \in 1..n |-> less[r[i]]]
    OBVIOUS
  <2>11. o \in Orders(less)
    BY <2>4, <2>8, <2>9, <2>10 DEF Orders
  <2>12. o \in Seq(Jamo) /\ Len(o) = n
    BY <2>4, <2>11, OrderType
  <2>13. Tally(o, x) = Tally(less, x)
    BY <1>2, <2>4, <2>11
  <2>14. jamos[k] \in Jamo
    OBVIOUS
  <2>15. PICK t : t = Append(o, jamos[k])
    OBVIOUS
  <2>16. /\ t \in Seq(Jamo) /\ Len(t) = n + 1 /\ t[n + 1] = jamos[k]
         /\ \A i \in 1..n : t[i] = o[i]
    BY <2>12, <2>14, <2>15, AppendProperties
  <2>17. order = t
    <3>1. ASSUME NEW i \in 1..(n + 1) PROVE jamos[p[i]] = t[i]
      <4>1. CASE i = n + 1
        BY <2>2, <2>16, <4>1
      <4>2. CASE i # n + 1
        <5>1. i \in 1..n
          BY <4>2
        <5>2. t[i] = less[r[i]] /\ r[i] \in 1..n
          BY <2>8, <2>10, <2>16, <5>1
        <5>3. p[i] \in 1..(n + 1) /\ p[i] # k
          BY <2>7, <5>1
        <5>4. r[i] = IF p[i] < k THEN p[i] ELSE p[i] - 1
          BY <2>6, <5>1
        <5>5. CASE p[i] < k
          BY <2>5, <5>2, <5>4, <5>5
        <5>6. CASE ~(p[i] < k)
          <6>1. r[i] = p[i] - 1 /\ ~(r[i] < k) /\ r[i] + 1 = p[i]
            BY <5>3, <5>4, <5>6
          <6>. QED BY <2>5, <5>2, <6>1
        <5>. QED BY <5>5, <5>6
      <4>. QED BY <4>1, <4>2
    <3>2. t = [i \in 1..(n + 1) |-> t[i]]
      BY <2>16
    <3>. QED BY <2>1, <3>1, <3>2
  <2>18. Tally(t, x) = Tally(o, x) + Count(jamos[k].letters, x)
    BY <2>12, <2>14, <2>15, TallyAppend
  <2>. QED BY <2>4, <2>13, <2>17, <2>18
<1>. HIDE DEF S
<1>3. \A n \in Nat : n \in S
  BY <1>1, <1>2, NatInduct
<1>4. \A jamos \in Seq(Jamo) : Alike1(jamos)
  <2>. HIDE DEF Alike1
  <2>. QED BY <1>3, LenProperties DEF S
<1>. QED BY <1>4

LEMMA TallyAreas ==
  ASSUME NEW x
  PROVE  \A q \in Seq(Jamo) :
           /\ \A area \in Areas : Tally(OfArea(q, area), x) \in Nat
           /\ Tally(q, x) = Tally(OfArea(q, "cho"), x) + Tally(OfArea(q, "jung"), x)
                            + Tally(OfArea(q, "jong"), x)
<1>. DEFINE Sum(q) == Tally(OfArea(q, "cho"), x) + Tally(OfArea(q, "jung"), x)
                      + Tally(OfArea(q, "jong"), x)
            T == {q \in Seq(Jamo) : Tally(q, x) = Sum(q)}
<1>1. ASSUME NEW q \in Seq(Jamo), NEW area PROVE Tally(OfArea(q, area), x) \in Nat
  BY OfAreaType, SpeltType, CountType DEF Tally
<1>2. <<>> \in T
  <2>1. PICK none \in Seq(Jamo) : none = <<>>
    <3>1. <<>> \in Seq(Jamo)
      OBVIOUS
    <3>. QED BY <3>1
  <2>2. \A area : OfArea(none, area) = none
    BY <2>1, OfAreaNone, Zenon
  <2>3. Tally(none, x) = 0
    BY <2>1, TallyNone, Zenon
  <2>4. Sum(none) = 0
    BY <2>2, <2>3
  <2>. HIDE DEF Sum
  <2>5. none \in T
    BY <2>3, <2>4
  <2>. QED BY <2>1, <2>5, Zenon
<1>3. ASSUME NEW q \in Seq(Jamo), NEW jamo \in Jamo, q \in T PROVE Append(q, jamo) \in T
  <2>1. jamo.area \in Areas
    BY DEF Jamo
  <2>2. PICK n \in Nat : n = Count(jamo.letters, x)
    BY TallyAppend
  <2>3. ASSUME NEW area
        PROVE  Tally(OfArea(Append(q, jamo), area), x)
                 = IF jamo.area = area THEN Tally(OfArea(q, area), x) + n ELSE Tally(OfArea(q, area), x)
    <3>1. PICK s \in Seq(Jamo) : s = OfArea(q, area)
      BY OfAreaType
    <3>2. s \in Seq(Jamo)
      BY <3>1
    <3>3. Tally(Append(s, jamo), x) = Tally(s, x) + n
      BY <2>2, <3>2, TallyAppend
    <3>4. OfArea(Append(q, jamo), area) = IF jamo.area = area THEN Append(s, jamo) ELSE s
      BY <3>1, OfAreaAppend
    <3>. QED BY <3>1, <3>3, <3>4
  <2>4. /\ Tally(OfArea(q, "cho"), x) \in Nat /\ Tally(OfArea(q, "jung"), x) \in Nat
        /\ Tally(OfArea(q, "jong"), x) \in Nat
    BY <1>1
  <2>5. Sum(Append(q, jamo)) = Sum(q) + n
    BY <2>1, <2>3, <2>4 DEF Areas
  <2>6. Append(q, jamo) \in Seq(Jamo) /\ Tally(q, x) = Sum(q) /\ Tally(Append(q, jamo), x) = Tally(q, x) + n
    BY <1>3, <2>2, TallyAppend, AppendProperties
  <2>. HIDE DEF Sum
  <2>. QED BY <2>5, <2>6
<1>. HIDE DEF T
<1>4. \A q \in Seq(Jamo) : q \in T
  BY <1>2, <1>3, SeqInduct
<1>. QED BY <1>1, <1>4 DEF T

\* The syllable of a chord has the letters of its keys.
LEMMA ChordTally ==
  ASSUME NEW l, NEW jamos \in Seq(Jamo), Injectable(l, jamos), NEW x
  PROVE  Tally(ChordQueue(l, jamos), x) = Tally(jamos, x)
<1>1. PICK q \in Seq(Jamo) : q = ChordQueue(l, jamos)
  BY ChordQueueType
<1>2. ASSUME NEW area \in Areas PROVE Tally(OfArea(q, area), x) = Tally(OfArea(jamos, area), x)
  <2>1. PICK s \in Seq(Jamo) : s = OfArea(jamos, area)
    BY OfAreaType
  <2>2. OfArea(q, area) = ChordPart(l, area, jamos)
    BY <1>1, ChordAreas
  <2>3. CASE s = <<>>
    BY <2>1, <2>2, <2>3 DEF ChordPart
  <2>4. CASE s # <<>>
    <3>1. PICK e : e = Plain(area, Reduced(l, area, s))
      OBVIOUS
    <3>2. e \in Jamo /\ ChordPart(l, area, jamos) = <<e>>
      BY <2>1, <2>4, <3>1, PartType
    <3>3. Spelt(<<e>>) = Reduced(l, area, s)
      BY <3>1, <3>2, SpeltOne DEF Plain
    <3>4. PICK order : order = CHOOSE o \in Orders(s) : FoldsLeft(l, area, o)
      OBVIOUS
    <3>5. order \in Orders(s)
      BY <2>1, <3>4 DEF Injectable, Reducible
    <3>6. Reduced(l, area, s) = Spelt(order)
      BY <3>4 DEF Reduced
    <3>7. Tally(order, x) = Tally(s, x)
      BY <3>5, OrderTally
    <3>. QED BY <2>1, <2>2, <3>2, <3>3, <3>6, <3>7 DEF Tally
  <2>. QED BY <2>3, <2>4
<1>3. /\ Tally(OfArea(q, "cho"), x) = Tally(OfArea(jamos, "cho"), x)
      /\ Tally(OfArea(q, "jung"), x) = Tally(OfArea(jamos, "jung"), x)
      /\ Tally(OfArea(q, "jong"), x) = Tally(OfArea(jamos, "jong"), x)
  BY <1>2 DEF Areas
<1>4. Tally(q, x) = Tally(jamos, x)
  BY <1>3, TallyAreas
<1>. QED BY <1>1, <1>4
-----------------------------------------------------------------------------
(* A queue that composes one character, which spells it. *)

Syllable(q) == [area \in Areas |-> Part(q, area)]

Neat(l, q) ==
  /\ Composes(l, q)
  /\ q # <<>> => Complete(Syllable(q)) = <<Syllable(q)>> /\ Letters(<<Syllable(q)>>) = Spelt(q)

LEMMA WholeSyllable ==
  ASSUME NEW l, NEW c \in Context, Whole(l, c)
  PROVE  c.cur = Syllable(c.queue) /\ Syllable(c.queue) \in Char
<1>1. Syllable(c.queue) \in Char
  BY ContextFields, PartLetters DEF Syllable, Char
<1>2. \A area \in Areas : c.cur[area] = Syllable(c.queue)[area]
  BY DEF Whole, Syllable
<1>. QED BY <1>1, <1>2, ContextFields, CharEqual

LEMMA NeatNone ==
  ASSUME NEW l
  PROVE  Neat(l, <<>>)
<1>1. PICK none \in Seq(Jamo) : none = <<>> /\ Len(none) \in {0, 1}
  <2>1. <<>> \in Seq(Jamo) /\ Len(<<>>) \in {0, 1}
    OBVIOUS
  <2>. QED BY <2>1
<1>2. ASSUME NEW area \in Areas PROVE Combines(l, area, OfArea(none, area))
  <2>1. OfArea(none, area) = none
    BY <1>1, OfAreaNone, Zenon
  <2>2. Combines(l, area, none)
    BY <1>1, CombinesFew
  <2>. QED BY <2>1, <2>2
<1>3. Neat(l, none)
  BY <1>1, <1>2 DEF Neat, Composes
<1>. QED BY <1>1, <1>3, Zenon

LEMMA SettledNeat ==
  ASSUME NEW l, NEW c \in Context, Sound(l, c), ~Unsettled(c)
  PROVE  Whole(l, c) /\ Neat(l, c.queue)
<1>1. /\ Whole(l, c) /\ Letters(Shown(c.cur)) = Spelt(c.queue)
      /\ Letters(Shown(c.cur)) = c.cur["cho"] \o c.cur["jung"] \o c.cur["jong"]
      /\ c.queue # <<>> => Complete(c.cur) = <<c.cur>>
  BY SettledWhole
<1>2. c.cur = Syllable(c.queue) /\ c.cur \in Char
  BY <1>1, WholeSyllable, ContextFields
<1>3. Letters(<<c.cur>>) = c.cur["cho"] \o c.cur["jung"] \o c.cur["jong"]
  BY <1>2, LettersOne
<1>4. Composes(l, c.queue)
  BY <1>1 DEF Whole, Composes
<1>. QED BY <1>1, <1>2, <1>3, <1>4 DEF Neat

\* What is committed of such a queue, and what is shown of it.
LEMMA NeatForce ==
  ASSUME NEW l, NEW c \in Context, Neat(l, c.queue)
  PROVE  Letters(ForceCompose(l, c).done) = Spelt(c.queue)
<1>1. PICK d : d = ForceCompose(l, c).done
  OBVIOUS
<1>2. d = IF c.queue = <<>> THEN <<>> ELSE Complete(ComposeKorean(l, c).cur)
  BY <1>1, ForceType
<1>3. CASE c.queue = <<>>
  <2>1. d = <<>>
    BY <1>2, <1>3
  <2>. QED BY <1>1, <1>3, <2>1, LettersNone, SpeltNone, Zenon
<1>4. CASE c.queue # <<>>
  <2>1. PICK k : k = ComposeKorean(l, c)
    OBVIOUS
  <2>2. k \in Context /\ k.queue = c.queue /\ Whole(l, k)
    BY <2>1, KoreanType, KoreanWhole DEF Neat
  <2>3. k.cur = Syllable(c.queue)
    BY <2>2, WholeSyllable
  <2>4. d = Complete(k.cur)
    BY <1>2, <1>4, <2>1
  <2>. QED BY <1>1, <1>4, <2>3, <2>4 DEF Neat
<1>. QED BY <1>3, <1>4

LEMMA FlushShape ==
  ASSUME NEW l, NEW c, Proper(c), NEW f, f = FlushPreedit(l, c)
  PROVE  /\ f \in Context /\ (~IsComposing(c) => f = c)
         /\ IsComposing(c) => Blank(f) /\ f.out = c.out \o c.buffer \o ForceCompose(l, c).done
BY FlushFields DEF Proper

LEMMA NeatFlush ==
  ASSUME NEW l, NEW c, Proper(c), Neat(l, c.queue), NEW f, f = FlushPreedit(l, c)
  PROVE  /\ f \in Context /\ f.buffer = <<>>
         /\ Letters(f.out) = Letters(c.out) \o (Letters(c.buffer) \o Spelt(c.queue))
<1>0. c \in Context /\ c.done = <<>>
  BY DEF Proper
<1>1. /\ f \in Context /\ (~IsComposing(c) => f = c)
      /\ IsComposing(c) => Blank(f) /\ f.out = c.out \o c.buffer \o ForceCompose(l, c).done
  BY <1>0, FlushShape
<1>2. PICK o, b, d : o = c.out /\ b = c.buffer /\ d = ForceCompose(l, c).done
  OBVIOUS
<1>3. o \in Seq(Char) /\ b \in Seq(Char) /\ d \in Seq(Char)
  <2>1. ForceCompose(l, c) \in Context
    BY <1>0, ForceType
  <2>. QED BY <1>0, <1>2, <2>1, ContextFields
<1>4. CASE IsComposing(c)
  <2>1. f.buffer = <<>> /\ f.out = (o \o b) \o d
    BY <1>1, <1>2, <1>4 DEF Blank
  <2>2. o \o b \in Seq(Char)
    BY <1>3, ConcatProperties
  <2>3. Letters((o \o b) \o d) = Letters(o \o b) \o Letters(d)
    BY <1>3, <2>2, LettersConcat
  <2>4. Letters(o \o b) = Letters(o) \o Letters(b)
    BY <1>3, LettersConcat
  <2>5. Letters(o) \in Seq(Letter) /\ Letters(b) \in Seq(Letter) /\ Letters(d) \in Seq(Letter)
    BY <1>3, LettersType
  <2>6. (Letters(o) \o Letters(b)) \o Letters(d) = Letters(o) \o (Letters(b) \o Letters(d))
    <3>1. Regroups(Letters(o), Letters(b), Letters(d))
      BY <2>5, Regrouped
    <3>. QED BY <3>1 DEF Regroups
  <2>7. Letters(d) = Spelt(c.queue)
    BY <1>0, <1>2, NeatForce
  <2>. QED BY <1>1, <1>2, <2>1, <2>3, <2>4, <2>6, <2>7
<1>5. CASE ~IsComposing(c)
  <2>1. f = c
    BY <1>1, <1>5
  <2>2. c.queue = <<>> /\ c.buffer = <<>>
    BY <1>5 DEF IsComposing
  <2>3. Letters(b) = <<>> /\ Spelt(c.queue) = <<>>
    BY <1>2, <2>2, LettersNone, SpeltNone, Zenon
  <2>4. Letters(o) \in Seq(Letter)
    BY <1>3, LettersType
  <2>5. Letters(o) \o (<<>> \o <<>>) = Letters(o)
    <3>1. PICK t : t = Letters(o)
      OBVIOUS
    <3>2. t \o <<>> = t /\ <<>> \o <<>> = <<>>
      BY <2>4, <3>1, ConcatEmptySeq
    <3>. QED BY <3>1, <3>2
  <2>. QED BY <1>1, <1>2, <2>1, <2>2, <2>3, <2>5
<1>. QED BY <1>4, <1>5

\* The first key of a chord: what it leaves before it is neat.
NeatBefore(l, c, jamo, a) ==
  \E q \in Seq(Jamo) :
    a.queue = Append(q, jamo) /\ Neat(l, q) /\ Letters(a.done) \o Spelt(q) = Spelt(c.queue)

LEMMA FirstNeat ==
  ASSUME NEW l, l.type = "3bul", NEW c \in Context, Sound(l, c), ~Unsettled(c), NEW jamo \in Jamo,
         ~CombinesBackward(l, c, jamo), NEW a, a = AddJamo(l, c, jamo)
  PROVE  NeatBefore(l, c, jamo, a)
<1>1. a = AddJamoWith(l, c, jamo)
  BY DEF AddJamo, Add3Bul
<1>2. c.queue \in Seq(Jamo) /\ c.cur \in Char /\ Spelt(c.queue) \in Seq(Letter)
  BY ContextFields, SpeltType
<1>3. Whole(l, c) /\ Neat(l, c.queue)
  BY SettledNeat
<1>4. CASE Fits(l, Pushed(c, jamo))
  <2>1. a.queue = Append(c.queue, jamo) /\ a.done = <<>>
    BY <1>1, <1>4, AddWhole
  <2>2. Letters(a.done) = <<>>
    BY <2>1, LettersNone, Zenon
  <2>3. <<>> \o Spelt(c.queue) = Spelt(c.queue)
    BY <1>2, ConcatEmptySeq
  <2>. QED BY <1>2, <1>3, <2>1, <2>2, <2>3 DEF NeatBefore
<1>5. CASE ~Fits(l, Pushed(c, jamo))
  <2>1. a.queue = <<jamo>> /\ a.done = Complete(Kept(l, c, jamo).cur)
    BY <1>1, <1>5, AddWhole
  <2>2. c.queue # <<>>
    BY <1>5, FirstFits
  <2>3. a.done = <<c.cur>> /\ Letters(<<c.cur>>) = Spelt(c.queue)
    <3>1. c.cur = Syllable(c.queue)
      BY <1>3, WholeSyllable
    <3>. QED BY <1>3, <1>5, <2>1, <2>2, <3>1, KeptCur DEF Neat
  <2>4. PICK none \in Seq(Jamo) : none = <<>>
    <3>1. <<>> \in Seq(Jamo)
      OBVIOUS
    <3>. QED BY <3>1
  <2>5. <<jamo>> = Append(<<>>, jamo)
    OBVIOUS
  <2>6. a.queue = Append(none, jamo)
    BY <2>1, <2>4, <2>5
  <2>7. Neat(l, none) /\ Spelt(none) = <<>>
    BY <2>4, NeatNone, SpeltNone, Zenon
  <2>8. Spelt(c.queue) \o <<>> = Spelt(c.queue)
    BY <1>2, ConcatEmptySeq
  <2>. QED BY <2>3, <2>4, <2>6, <2>7, <2>8 DEF NeatBefore
<1>. QED BY <1>4, <1>5

-----------------------------------------------------------------------------
(* What there was when the chord began. *)

\* What s and the buffer of c have, and q spells.
There(s, c, q) == Letters(s) \o (Letters(c.buffer) \o Spelt(q))

\* It is still there: under the preview of the first key; as it was; or
\* committed, and the chord's syllable is all there is.
Waits(before) ==
  /\ preview = "typed" =>
       \E q \in Seq(Jamo), jamo \in Jamo :
         /\ pending = <<jamo>> /\ ctx.queue = Append(q, jamo)
         /\ Neat(layout, q) /\ before = There(since, ctx, q)
  /\ preview = "none" =>
       Neat(layout, ctx.queue) /\ Whole(layout, ctx) /\ before = There(since, ctx, ctx.queue)
  /\ preview = "joined" =>
       /\ Injectable(layout, pending) /\ ctx.queue = ChordQueue(layout, pending)
       /\ ctx.buffer = <<>> /\ before = Letters(since)

ChordInv ==
  /\ TextInv /\ WordInv
  /\ pending = <<>> => base = {}
  /\ \A before \in base : Waits(before)

LEMMA ThereType ==
  ASSUME NEW s \in Seq(Char), NEW c \in Context, NEW q \in Seq(Jamo)
  PROVE  /\ Letters(s) \in Seq(Letter) /\ Letters(c.buffer) \in Seq(Letter) /\ Spelt(q) \in Seq(Letter)
         /\ There(s, c, q) \in Seq(Letter)
<1>1. Letters(s) \in Seq(Letter) /\ Letters(c.buffer) \in Seq(Letter) /\ Spelt(q) \in Seq(Letter)
  BY ContextFields, LettersType, SpeltType
<1>2. Letters(c.buffer) \o Spelt(q) \in Seq(Letter)
  BY <1>1, ConcatProperties
<1>. QED BY <1>1, <1>2, ConcatProperties DEF There

\* The text of a composition that is one character is what its queue spells.
LEMMA SettledThere ==
  ASSUME NEW l, NEW c \in Context, Sound(l, c), ~Unsettled(c)
  PROVE  Letters(Text(c)) = Letters(c.buffer) \o Spelt(c.queue)
<1>1. PICK b, s : b = c.buffer /\ s = Shown(c.cur)
  OBVIOUS
<1>2. b \in Seq(Char) /\ s \in Seq(Char)
  BY <1>1, ContextFields, ShownLetters
<1>3. Letters(b \o s) = Letters(b) \o Letters(s)
  BY <1>2, LettersConcat
<1>4. Letters(s) = Spelt(c.queue)
  BY <1>1, SettledWhole
<1>. QED BY <1>1, <1>3, <1>4 DEF Text

FirstLeaves(l, c, jamo, t) ==
  \E q \in Seq(Jamo) :
    t.queue = Append(q, jamo) /\ Neat(l, q) /\ There(t.out, t, q) = There(c.out, c, c.queue)

LEMMA FirstWaits ==
  ASSUME NEW l, l.type = "3bul", NEW c, Proper(c), Sound(l, c), ~Unsettled(c), NEW jamo \in Jamo,
         ~CombinesBackward(l, c, jamo), NEW t, t = ProcessJamo(l, c, jamo)
  PROVE  FirstLeaves(l, c, jamo, t)
<1>0. c \in Context
  BY DEF Proper
<1>1. PICK a : a = AddJamo(l, c, jamo)
  OBVIOUS
<1>2. /\ t \in Context /\ Same(a, t)
      /\ t.buffer = (IF c.word THEN c.buffer \o a.done ELSE c.buffer)
      /\ t.out = (IF c.word THEN c.out ELSE c.out \o a.done)
  BY <1>0, <1>1, ProcessFields
<1>3. (~c.word => c.buffer = <<>>) /\ c.word \in BOOLEAN
  BY <1>0, ContextFields DEF Proper
<1>4. PICK q \in Seq(Jamo) :
        a.queue = Append(q, jamo) /\ Neat(l, q) /\ Letters(a.done) \o Spelt(q) = Spelt(c.queue)
  <2>1. NeatBefore(l, c, jamo, a)
    BY <1>0, <1>1, FirstNeat
  <2>. QED BY <2>1 DEF NeatBefore
<1>5. PICK o, b, d : o = c.out /\ b = c.buffer /\ d = a.done
  OBVIOUS
<1>6. o \in Seq(Char) /\ b \in Seq(Char) /\ d \in Seq(Char)
  <2>1. a \in Context
    BY <1>0, <1>1, JamoType
  <2>. QED BY <1>0, <1>5, <2>1, ContextFields
<1>7. PICK lo, lb, ld, s : lo = Letters(o) /\ lb = Letters(b) /\ ld = Letters(d) /\ s = Spelt(q)
  OBVIOUS
<1>8. lo \in Seq(Letter) /\ lb \in Seq(Letter) /\ ld \in Seq(Letter) /\ s \in Seq(Letter)
  BY <1>4, <1>6, <1>7, LettersType, SpeltType
<1>9. Letters(o \o d) = lo \o ld /\ Letters(b \o d) = lb \o ld
  BY <1>6, <1>7, LettersConcat
<1>10. (lo \o ld) \o s = lo \o (ld \o s) /\ (lb \o ld) \o s = lb \o (ld \o s)
  <2>1. Regroups(lo, ld, s)
    BY <1>8, Regrouped
  <2>2. Regroups(lb, ld, s)
    BY <1>8, Regrouped
  <2>. QED BY <2>1, <2>2 DEF Regroups
<1>11. Letters(t.out) \o (Letters(t.buffer) \o s) = lo \o (lb \o (ld \o s))
  <2>1. CASE c.word
    <3>1. t.out = o /\ t.buffer = b \o d
      BY <1>2, <1>5, <2>1
    <3>. QED BY <1>7, <1>9, <1>10, <3>1
  <2>2. CASE ~c.word
    <3>1. t.out = o \o d /\ t.buffer = b /\ b = <<>>
      BY <1>2, <1>3, <1>5, <2>2
    <3>2. lb = <<>>
      BY <1>7, <3>1, LettersNone, Zenon
    <3>3. ld \o s \in Seq(Letter)
      BY <1>8, ConcatProperties
    <3>4. lb \o s = s /\ lb \o (ld \o s) = ld \o s
      BY <1>8, <3>2, <3>3, ConcatEmptySeq
    <3>5. Letters(t.out) = lo \o ld /\ Letters(t.buffer) = lb
      BY <1>7, <1>9, <3>1
    <3>. QED BY <1>10, <3>4, <3>5
  <2>. QED BY <1>3, <2>1, <2>2
<1>12. ld \o s = Spelt(c.queue)
  BY <1>4, <1>5, <1>7
<1>13. There(t.out, t, q) = There(c.out, c, c.queue)
  BY <1>5, <1>7, <1>11, <1>12 DEF There
<1>14. t.queue = Append(q, jamo)
  BY <1>2, <1>4 DEF Same
<1>. QED BY <1>4, <1>13, <1>14 DEF FirstLeaves

\* The preview of the first key, taken back.
LEMMA TakenBack ==
  ASSUME NEW l, NEW c, Proper(c), Sound(l, c), NEW q \in Seq(Jamo), NEW jamo \in Jamo,
         c.queue = Append(q, jamo), NEW r, r = RemoveJamo(l, c)
  PROVE  /\ Proper(r) /\ r \in Context /\ r.queue = q /\ Whole(l, r)
         /\ r.buffer = c.buffer /\ r.out = c.out
<1>1. c \in Context
  BY DEF Proper
<1>2. c.queue # <<>> /\ Front(c.queue) = q
  BY AppendParts, AppendProperties
<1>3. r \in Context /\ r.queue = Front(c.queue) /\ Whole(l, r)
  BY <1>1, <1>2, RemoveWhole
<1>4. r.buffer = c.buffer /\ r.out = c.out
  BY <1>1, RemoveType DEF Apart
<1>. QED BY <1>2, <1>3, <1>4, RemoveProper

-----------------------------------------------------------------------------
(* Each step of a chord. *)

LEMMA ChordKnows ==
  ASSUME ChordInv
  PROVE  /\ HangulInv /\ Steady(layout, ctx) /\ Sound(layout, ctx) /\ Proper(ctx) /\ ctx \in Context
         /\ layout \in Layouts /\ since \in Seq(Char) /\ base \subseteq Seq(Letter)
         /\ (layout.chord => layout.type = "3bul") /\ (~layout.chord => pending = <<>>)
         /\ pending \in Seq(Jamo) /\ preview \in {"none", "typed", "joined"}
<1>1. HangulInv /\ Steady(layout, ctx) /\ (~layout.chord => pending = <<>>)
  BY DEF ChordInv, TextInv, WordInv
<1>2. layout \in Layouts /\ Proper(ctx)
  BY <1>1 DEF HangulInv
<1>. QED BY <1>1, <1>2, LayoutType DEF HangulInv, Proper, Steady

LEMMA ChordQuiet ==
  ASSUME ChordInv, NEW q, q = Quiet
  PROVE  /\ Proper(q) /\ q \in Context /\ Sound(layout, q) /\ Letters(q.out) = <<>>
         /\ q.queue = ctx.queue /\ q.cur = ctx.cur /\ q.buffer = ctx.buffer
         /\ (Whole(layout, q) <=> Whole(layout, ctx)) /\ (Unsettled(q) <=> Unsettled(ctx))
<1>1. Proper(q) /\ q \in Context /\ Alike(ctx, q) /\ Steady(layout, q) /\ q.out = <<>>
  BY ChordKnows, QuietSteady
<1>2. Same(ctx, q) /\ q.queue = ctx.queue /\ q.cur = ctx.cur /\ q.buffer = ctx.buffer
  BY <1>1 DEF Alike, Same
<1>3. Letters(q.out) = <<>>
  BY <1>1, LettersNone, Zenon
<1>4. Unsettled(q) <=> Unsettled(ctx)
  BY <1>2 DEF Unsettled
<1>5. Whole(layout, q) <=> Whole(layout, ctx)
  BY <1>2, SoundSame
<1>. QED BY <1>1, <1>2, <1>3, <1>4, <1>5 DEF Steady

LEMMA FirstBegins ==
  ASSUME ChordInv, NEW jamo \in Keys[layout.type], ChordFirst(jamo)
  PROVE  \A before \in base' : Waits(before)'
<1>1. PICK q : q = Quiet
  OBVIOUS
<1>2. /\ layout.chord /\ ctx' = ProcessJamo(layout, q, jamo) /\ pending' = <<jamo>> /\ preview' = "typed"
      /\ since' = ctx'.out /\ layout' = layout
      /\ base' = (IF Unsettled(ctx) \/ CombinesBackward(layout, ctx, jamo) THEN {}
                  ELSE {Letters(Text(ctx))})
  BY <1>1 DEF ChordFirst
<1>. SUFFICES ASSUME NEW before \in base' PROVE Waits(before)'
  OBVIOUS
<1>3. ~Unsettled(ctx) /\ ~CombinesBackward(layout, ctx, jamo) /\ before = Letters(Text(ctx))
  BY <1>2
<1>4. /\ Proper(q) /\ q \in Context /\ Sound(layout, q) /\ Letters(q.out) = <<>>
      /\ q.queue = ctx.queue /\ q.cur = ctx.cur /\ q.buffer = ctx.buffer
      /\ ~Unsettled(q)
  BY <1>1, <1>3, ChordQuiet
<1>5. ~CombinesBackward(layout, q, jamo)
  BY <1>3, <1>4 DEF CombinesBackward
<1>6. /\ layout.type = "3bul" /\ ctx \in Context /\ Sound(layout, ctx) /\ jamo \in Jamo
  BY <1>2, ChordKnows, KeysSingle
<1>7. PICK t : t = ProcessJamo(layout, q, jamo)
  OBVIOUS
<1>8. FirstLeaves(layout, q, jamo, t)
  BY <1>4, <1>5, <1>6, <1>7, FirstWaits
<1>9. PICK first \in Seq(Jamo) :
        /\ t.queue = Append(first, jamo) /\ Neat(layout, first)
        /\ There(t.out, t, first) = There(q.out, q, q.queue)
  BY <1>8 DEF FirstLeaves
<1>10. There(q.out, q, q.queue) = before
  <2>1. PICK w : w = Letters(ctx.buffer) \o Spelt(ctx.queue)
    OBVIOUS
  <2>2. w = before
    BY <1>3, <1>6, <2>1, SettledThere
  <2>3. w \in Seq(Letter)
    BY <1>3, <1>6, <2>2, TextType
  <2>4. <<>> \o w = w
    BY <2>3, ConcatEmptySeq
  <2>5. There(q.out, q, q.queue) = <<>> \o w
    BY <1>4, <2>1 DEF There
  <2>. QED BY <2>2, <2>4, <2>5
<1>11. There(since', ctx', first) = before
  BY <1>2, <1>7, <1>9, <1>10
<1>12. pending' = <<jamo>> /\ ctx'.queue = Append(first, jamo) /\ Neat(layout', first)
  BY <1>2, <1>7, <1>9
<1>. QED BY <1>2, <1>6, <1>9, <1>11, <1>12 DEF Waits

\* The next key makes a syllable of the chord: what was there is committed.
LEMMA JoinsCommits ==
  ASSUME ChordInv, NEW jamo \in Keys[layout.type], ChordJoins(jamo)
  PROVE  \A before \in base' : Waits(before)'
<1>1. PICK q : q = Quiet
  OBVIOUS
<1>2. PICK unseen : unseen = IF preview = "typed" THEN RemoveJamo(layout, q) ELSE q
  OBVIOUS
<1>3. PICK replaced : replaced = IF preview = "joined" THEN unseen ELSE FlushPreedit(layout, unseen)
  OBVIOUS
<1>4. PICK chord : chord = Append(pending, jamo)
  OBVIOUS
<1>5. /\ Injectable(layout, chord) /\ ctx' = Inject(layout, replaced, chord) /\ pending' = chord
      /\ preview' = "joined" /\ since' = since \o ctx'.out /\ layout' = layout /\ base' = base
  BY <1>1, <1>2, <1>3, <1>4 DEF ChordJoins
<1>6. /\ since \in Seq(Char) /\ pending \in Seq(Jamo) /\ preview \in {"none", "typed", "joined"}
      /\ base \subseteq Seq(Letter) /\ jamo \in Jamo
  BY ChordKnows, KeysSingle
<1>7. /\ Proper(q) /\ q \in Context /\ Sound(layout, q) /\ Letters(q.out) = <<>>
      /\ q.queue = ctx.queue /\ q.buffer = ctx.buffer
  BY <1>1, ChordQuiet
<1>. SUFFICES ASSUME NEW before \in base PROVE Waits(before)'
  BY <1>5
<1>8. Waits(before) /\ before \in Seq(Letter)
  BY <1>6 DEF ChordInv
<1>9. replaced \in Context /\ replaced.buffer = <<>> /\ Letters(since) \o Letters(replaced.out) = before
  <2>1. CASE preview = "joined"
    <3>1. replaced = q /\ before = Letters(since) /\ ctx.buffer = <<>>
      BY <1>2, <1>3, <1>8, <2>1 DEF Waits
    <3>2. Letters(since) \o <<>> = Letters(since)
      BY <1>8, <3>1, ConcatEmptySeq
    <3>. QED BY <1>7, <3>1, <3>2
  <2>2. CASE preview # "joined"
    <3>1. /\ Proper(unseen) /\ unseen \in Context /\ Neat(layout, unseen.queue)
          /\ unseen.buffer = ctx.buffer /\ Letters(unseen.out) = <<>>
          /\ before = There(since, ctx, unseen.queue)
      <4>1. CASE preview = "typed"
        <5>1. PICK first \in Seq(Jamo), one \in Jamo :
                ctx.queue = Append(first, one) /\ Neat(layout, first) /\ before = There(since, ctx, first)
          BY <1>8, <4>1 DEF Waits
        <5>2. unseen = RemoveJamo(layout, q) /\ q.queue = Append(first, one)
          BY <1>2, <1>7, <4>1, <5>1
        <5>3. /\ Proper(unseen) /\ unseen \in Context /\ unseen.queue = first
              /\ unseen.buffer = q.buffer /\ unseen.out = q.out
          BY <1>7, <5>2, TakenBack
        <5>. QED BY <1>7, <5>1, <5>3
      <4>2. CASE preview = "none"
        <5>1. unseen = q
          BY <1>2, <4>2
        <5>2. Neat(layout, ctx.queue) /\ before = There(since, ctx, ctx.queue)
          BY <1>8, <4>2 DEF Waits
        <5>. QED BY <1>7, <5>1, <5>2
      <4>. QED BY <1>6, <2>2, <4>1, <4>2
    <3>2. PICK w : w = Letters(unseen.buffer) \o Spelt(unseen.queue)
      OBVIOUS
    <3>3. replaced = FlushPreedit(layout, unseen)
      BY <1>3, <2>2
    <3>4. /\ replaced \in Context /\ replaced.buffer = <<>>
          /\ Letters(replaced.out) = Letters(unseen.out) \o w
      BY <3>1, <3>2, <3>3, NeatFlush
    <3>5. w \in Seq(Letter)
      <4>1. unseen.queue \in Seq(Jamo)
        BY <3>1, ContextFields
      <4>2. Letters(unseen.buffer) \in Seq(Letter) /\ Spelt(unseen.queue) \in Seq(Letter)
        BY <1>6, <3>1, <4>1, ThereType
      <4>. QED BY <3>2, <4>2, ConcatProperties
    <3>6. <<>> \o w = w
      BY <3>5, ConcatEmptySeq
    <3>7. Letters(replaced.out) = w
      BY <3>1, <3>4, <3>6
    <3>8. before = Letters(since) \o w
      BY <3>1, <3>2 DEF There
    <3>. QED BY <3>4, <3>7, <3>8
  <2>. QED BY <2>1, <2>2
<1>10. chord \in Seq(Jamo)
  BY <1>4, <1>6, AppendProperties
<1>11. PICK r : r = Inject(layout, replaced, chord)
  OBVIOUS
<1>12. r.queue = ChordQueue(layout, chord) /\ r.buffer = replaced.buffer /\ r.out = replaced.out
  BY <1>5, <1>9, <1>10, <1>11, InjectFields
<1>13. Letters(since \o replaced.out) = Letters(since) \o Letters(replaced.out)
  <2>1. replaced.out \in Seq(Char)
    BY <1>9, ContextFields
  <2>. QED BY <1>6, <2>1, LettersConcat
<1>14. since' = since \o replaced.out
  BY <1>5, <1>11, <1>12
<1>15. before = Letters(since')
  BY <1>9, <1>13, <1>14
<1>16. ctx'.buffer = <<>> /\ ctx'.queue = ChordQueue(layout', pending') /\ Injectable(layout', pending')
  BY <1>5, <1>9, <1>11, <1>12
<1>. QED BY <1>5, <1>15, <1>16 DEF Waits

\* It makes none: what is shown of the chord is taken back.
LEMMA BreaksKeeps ==
  ASSUME ChordInv, NEW jamo \in Keys[layout.type], ChordBreaks(jamo)
  PROVE  \A before \in base' : Waits(before)'
<1>1. PICK q : q = Quiet
  OBVIOUS
<1>2. /\ ctx' = (CASE preview = "joined" -> ClearComposing(q)
                   [] preview = "typed"  -> RemoveJamo(layout, q)
                   [] preview = "none"   -> q)
      /\ preview' = "none" /\ layout' = layout /\ since' = since /\ base' = base
  BY <1>1 DEF ChordBreaks
<1>3. since \in Seq(Char) /\ preview \in {"none", "typed", "joined"} /\ base \subseteq Seq(Letter)
  BY ChordKnows
<1>4. /\ Proper(q) /\ q \in Context /\ Sound(layout, q)
      /\ q.queue = ctx.queue /\ q.cur = ctx.cur /\ q.buffer = ctx.buffer
      /\ (Whole(layout, q) <=> Whole(layout, ctx))
  BY <1>1, ChordQuiet
<1>. SUFFICES ASSUME NEW before \in base PROVE Waits(before)'
  BY <1>2
<1>5. Waits(before) /\ before \in Seq(Letter)
  BY <1>3 DEF ChordInv
<1>6. PICK r : r = ctx'
  OBVIOUS
<1>7. Neat(layout, r.queue) /\ Whole(layout, r) /\ before = There(since, r, r.queue)
  <2>1. CASE preview = "joined"
    <3>1. r = ClearComposing(q) /\ before = Letters(since)
      BY <1>2, <1>5, <1>6, <2>1 DEF Waits
    <3>2. r \in Context /\ r.queue = <<>> /\ r.cur = Empty /\ r.buffer = <<>>
      BY <1>4, <3>1, ClearingFields DEF Blank
    <3>3. Neat(layout, r.queue) /\ Whole(layout, r)
      BY <3>2, NeatNone, NothingWhole
    <3>4. Letters(r.buffer) = <<>> /\ Spelt(r.queue) = <<>>
      BY <3>2, LettersNone, SpeltNone, Zenon
    <3>5. before \o (<<>> \o <<>>) = before
      BY <1>5, ConcatEmptySeq
    <3>. QED BY <3>1, <3>3, <3>4, <3>5 DEF There
  <2>2. CASE preview = "typed"
    <3>1. PICK first \in Seq(Jamo), one \in Jamo :
            ctx.queue = Append(first, one) /\ Neat(layout, first) /\ before = There(since, ctx, first)
      BY <1>5, <2>2 DEF Waits
    <3>2. r = RemoveJamo(layout, q) /\ q.queue = Append(first, one)
      BY <1>2, <1>4, <1>6, <2>2, <3>1
    <3>3. r.queue = first /\ Whole(layout, r) /\ r.buffer = q.buffer
      BY <1>4, <3>2, TakenBack
    <3>. QED BY <1>4, <3>1, <3>3 DEF There
  <2>3. CASE preview = "none"
    <3>1. r = q
      BY <1>2, <1>6, <2>3
    <3>2. Neat(layout, ctx.queue) /\ Whole(layout, ctx) /\ before = There(since, ctx, ctx.queue)
      BY <1>5, <2>3 DEF Waits
    <3>. QED BY <1>4, <3>1, <3>2 DEF There
  <2>. QED BY <1>3, <2>1, <2>2, <2>3
<1>. QED BY <1>2, <1>6, <1>7 DEF Waits

LEMMA ChordInit == Init => ChordInv
BY TextInit, WordInit DEF ChordInv, Init

LEMMA ChordStep == ChordInv /\ [Next]_vars => ChordInv'
<1>. SUFFICES ASSUME ChordInv, [Next]_vars
              PROVE  (pending = <<>> => base = {})' /\ (\A before \in base : Waits(before))'
  BY TextStep, WordStep DEF ChordInv
<1>1. /\ \A before \in base : Waits(before)
      /\ (pending = <<>> => base = {}) /\ (~layout.chord => pending = <<>>)
  BY ChordKnows DEF ChordInv
<1>2. ASSUME NEW jamo \in Keys[layout.type], Key(jamo)
      PROVE  base' = {}
  BY <1>1, <1>2 DEF Key
<1>3. ASSUME NEW jamo \in Keys[layout.type], ChordFirst(jamo) \/ ChordJoins(jamo) \/ ChordBreaks(jamo)
      PROVE  pending' # <<>> /\ \A before \in base' : Waits(before)'
  <2>1. pending' # <<>>
    <3>1. pending \in Seq(Jamo) /\ jamo \in Jamo
      BY ChordKnows, KeysSingle
    <3>2. Append(pending, jamo) # <<>> /\ <<jamo>> # <<>>
      BY <3>1, AppendParts
    <3>. QED BY <1>3, <3>2 DEF ChordFirst, ChordJoins, ChordBreaks
  <2>. QED BY <1>3, <2>1, FirstBegins, JoinsCommits, BreaksKeeps
<1>4. CASE ChordEnds \/ Backspace \/ Confirm
  BY <1>4 DEF ChordEnds, Backspace, Confirm, ChordOver
<1>5. ASSUME NEW on \in BOOLEAN, SetWordMode(on)
      PROVE  base' = {}
  BY <1>1, <1>5 DEF SetWordMode
<1>6. CASE UNCHANGED vars
  <2>1. /\ layout' = layout /\ ctx' = ctx /\ pending' = pending /\ preview' = preview
        /\ base' = base /\ since' = since
    BY <1>6 DEF vars
  <2>. QED BY <1>1, <2>1 DEF Waits
<1>. QED BY <1>2, <1>3, <1>4, <1>5, <1>6 DEF Next

\* The preview of a chord loses and repeats nothing (update_chord_preview).
THEOREM ChordTextHeld == Spec => []ChordKeepsText
<1>1. ChordInv => ChordKeepsText
  <2>. SUFFICES ASSUME ChordInv, ~Unsettled(ctx), NEW before \in base, NEW letter \in Letter
                PROVE  Count(Letters(since \o Text(ctx)), letter)
                         = Count(before \o IF preview = "none" THEN <<>> ELSE Spelt(pending), letter)
    BY DEF ChordKeepsText, SameLetters
  <2>1. /\ ctx \in Context /\ Sound(layout, ctx) /\ since \in Seq(Char) /\ pending \in Seq(Jamo)
        /\ preview \in {"none", "typed", "joined"} /\ base \subseteq Seq(Letter)
    BY ChordKnows
  <2>2. Waits(before) /\ before \in Seq(Letter)
    BY <2>1 DEF ChordInv
  <2>3. PICK s, b, u : s = Letters(since) /\ b = Letters(ctx.buffer) /\ u = Spelt(ctx.queue)
    OBVIOUS
  <2>4. s \in Seq(Letter) /\ b \in Seq(Letter) /\ u \in Seq(Letter)
    BY <2>1, <2>3, ContextFields, ThereType
  <2>5. Letters(since \o Text(ctx)) = s \o (b \o u)
    <3>1. Letters(Text(ctx)) = b \o u
      BY <2>1, <2>3, SettledThere
    <3>2. Text(ctx) \in Seq(Char)
      BY <2>1, TextType
    <3>3. Letters(since \o Text(ctx)) = Letters(since) \o Letters(Text(ctx))
      BY <2>1, <3>2, LettersConcat
    <3>. QED BY <2>3, <3>1, <3>3
  <2>6. CASE preview = "none"
    <3>1. before = s \o (b \o u)
      BY <2>2, <2>3, <2>6 DEF Waits, There
    <3>2. before \o <<>> = before
      BY <2>2, ConcatEmptySeq
    <3>. QED BY <2>5, <2>6, <3>1, <3>2
  <2>7. CASE preview = "typed"
    <3>1. PICK first \in Seq(Jamo), one \in Jamo :
            /\ pending = <<one>> /\ ctx.queue = Append(first, one)
            /\ before = There(since, ctx, first)
      BY <2>2, <2>7 DEF Waits
    <3>2. PICK v, w : v = Spelt(first) /\ w = one.letters
      OBVIOUS
    <3>3. v \in Seq(Letter) /\ w \in Seq(Letter)
      BY <3>2, SpeltType DEF Jamo
    <3>4. u = v \o w /\ Spelt(pending) = w /\ before = s \o (b \o v)
      BY <2>3, <3>1, <3>2, SpeltAppend, SpeltOne DEF There
    <3>5. s \o (b \o (v \o w)) = (s \o (b \o v)) \o w
      <4>1. PICK bv : bv = b \o v
        OBVIOUS
      <4>2. bv \in Seq(Letter) /\ Regroups(b, v, w)
        BY <2>4, <3>3, <4>1, Regrouped
      <4>3. Regroups(s, bv, w)
        BY <2>4, <3>3, <4>2, Regrouped
      <4>4. bv \o w = b \o (v \o w)
        BY <4>1, <4>2 DEF Regroups
      <4>5. (s \o bv) \o w = s \o (bv \o w)
        BY <4>3 DEF Regroups
      <4>. QED BY <4>1, <4>4, <4>5
    <3>. QED BY <2>5, <2>7, <3>4, <3>5
  <2>8. CASE preview = "joined"
    <3>1. /\ Injectable(layout, pending) /\ ctx.queue = ChordQueue(layout, pending)
          /\ ctx.buffer = <<>> /\ before = s
      BY <2>2, <2>3, <2>8 DEF Waits
    <3>2. PICK p : p = Spelt(pending)
      OBVIOUS
    <3>3. p \in Seq(Letter)
      BY <2>1, <3>2, SpeltType
    <3>4. Count(u, letter) = Count(p, letter)
      BY <2>1, <2>3, <3>1, <3>2, ChordTally DEF Tally
    <3>5. b = <<>>
      BY <2>3, <3>1, LettersNone, Zenon
    <3>6. b \o u = u
      BY <2>4, <3>5, ConcatEmptySeq
    <3>7. Count(s \o u, letter) = Count(s, letter) + Count(u, letter)
      BY <2>4, CountConcat
    <3>8. Count(s \o p, letter) = Count(s, letter) + Count(p, letter)
      BY <2>4, <3>3, CountConcat
    <3>. QED BY <2>5, <2>8, <3>1, <3>2, <3>4, <3>6, <3>7, <3>8
  <2>. QED BY <2>1, <2>6, <2>7, <2>8
<1>. QED BY <1>1, ChordInit, ChordStep, PTL DEF Spec
=============================================================================
