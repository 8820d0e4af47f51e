--------------------------- MODULE SequenceLemmas ---------------------------
(***************************************************************************)
(* What the proofs of several components need of numbers and sequences:     *)
(* induction over a set, the value of a recursive function, and the joined  *)
(* text of FlattenSeq.                                                      *)
(***************************************************************************)
EXTENDS Naturals, Sequences, SequencesExt, TLAPS, SequenceTheorems, WellFoundedInduction

\* Induction in the form the provers can use: over a set of numbers, where the
\* library's theorems take an operator.
LEMMA NatLeast ==
  ASSUME NEW T, T \subseteq Nat, T # {}
  PROVE  \E n \in T : \A m \in T : n <= m
<1>. DEFINE R == OpToRel(<, Nat)
<1>1. IsWellFoundedOn(R, Nat)
  BY NatLessThanWellFounded
<1>2. \A m, n \in Nat : <<m, n>> \in R <=> m < n
  BY DEF OpToRel
<1>. HIDE DEF R
<1>3. PICK n \in T : \A m \in T : <<m, n>> \notin R
  BY <1>1, WFMin
<1>4. ASSUME NEW m \in T PROVE n <= m
  <2>1. m \in Nat /\ n \in Nat /\ ~(m < n)
    BY <1>2, <1>3
  <2>. QED BY <2>1
<1>. QED BY <1>4

\* What 0 has, and n + 1 whenever n has it, every number has.
LEMMA NatInduct ==
  ASSUME NEW S, 0 \in S, \A n \in Nat : n \in S => n + 1 \in S
  PROVE  \A n \in Nat : n \in S
<1>. SUFFICES ASSUME \E n \in Nat : n \notin S PROVE FALSE
  OBVIOUS
<1>1. PICK n \in Nat \ S : \A m \in Nat \ S : n <= m
  <2>. DEFINE T == Nat \ S
  <2>1. T \subseteq Nat /\ T # {}
    OBVIOUS
  <2>. HIDE DEF T
  <2>2. \E n \in T : \A m \in T : n <= m
    BY <2>1, NatLeast
  <2>. QED BY <2>2 DEF T
<1>2. n - 1 \in Nat
  BY <1>1
<1>3. n - 1 \in S
  BY <1>1, <1>2
<1>4. (n - 1) + 1 \in S
  BY <1>2, <1>3
<1>. QED BY <1>1, <1>4

\* f computes, from start, what step makes of each number up to N in turn.
Computes(f, N, V, start, step) ==
  /\ f \in [0..N -> V] /\ f[0] = start
  /\ \A n \in 1..N : f[n] = step[n][f[n - 1]]

\* A recursive function that goes up by ones has a value.
LEMMA Iterates ==
  ASSUME NEW V, NEW start \in V, NEW N \in Nat, NEW step \in [1..N -> [V -> V]]
  PROVE  \E f : Computes(f, N, V, start, step)
<1>. DEFINE S == {n \in Nat : n <= N => \E f : Computes(f, n, V, start, step)}
<1>1. 0 \in S
  <2>1. Computes([n \in 0..0 |-> start], 0, V, start, step)
    BY DEF Computes
  <2>. QED BY <2>1
<1>2. ASSUME NEW n \in Nat, n \in S PROVE n + 1 \in S
  <2>. SUFFICES ASSUME n + 1 <= N PROVE \E f : Computes(f, n + 1, V, start, step)
    OBVIOUS
  <2>1. PICK f : Computes(f, n, V, start, step)
    BY <1>2
  <2>. DEFINE last == step[n + 1][f[n]]
              g    == [m \in 0..(n + 1) |-> IF m = n + 1 THEN last ELSE f[m]]
  <2>2. f[n] \in V /\ \A m \in 0..n : f[m] \in V
    BY <2>1 DEF Computes
  <2>3. last \in V
    <3>1. step[n + 1] \in [V -> V]
      OBVIOUS
    <3>. QED BY <2>2, <3>1
  <2>4. g \in [0..(n + 1) -> V]
    <3>. HIDE DEF last
    <3>. QED BY <2>2, <2>3
  <2>5. g[0] = start
    BY <2>1 DEF Computes
  <2>6. ASSUME NEW m \in 1..(n + 1) PROVE g[m] = step[m][g[m - 1]]
    <3>1. CASE m = n + 1
      <4>1. g[m] = last /\ g[m - 1] = f[n] /\ m = n + 1
        <5>. HIDE DEF last
        <5>. QED BY <3>1
      <4>. QED BY <4>1
    <3>2. CASE m # n + 1
      <4>1. m \in 1..n /\ m - 1 \in 0..n
        BY <3>2
      <4>2. g[m] = f[m] /\ g[m - 1] = f[m - 1]
        <5>. HIDE DEF last
        <5>. QED BY <4>1
      <4>3. f[m] = step[m][f[m - 1]]
        BY <2>1, <4>1 DEF Computes
      <4>. QED BY <4>2, <4>3
    <3>. QED BY <3>1, <3>2
  <2>. HIDE DEF g
  <2>7. Computes(g, n + 1, V, start, step)
    BY <2>4, <2>5, <2>6 DEF Computes
  <2>. QED BY <2>7
<1>. HIDE DEF S
<1>3. N \in S
  BY <1>1, <1>2, NatInduct
<1>. QED BY <1>3 DEF S

\* What the empty sequence has, and a sequence with one element more whenever
\* it has it, every sequence has.
LEMMA SeqInduct ==
  ASSUME NEW V, NEW T, <<>> \in T,
         \A s \in Seq(V), e \in V : s \in T => Append(s, e) \in T
  PROVE  \A s \in Seq(V) : s \in T
<1>. DEFINE S == {n \in Nat : \A s \in Seq(V) : Len(s) = n => s \in T}
<1>1. 0 \in S
  <2>1. \A s \in Seq(V) : Len(s) = 0 => s = <<>>
    OBVIOUS
  <2>. QED BY <2>1
<1>2. ASSUME NEW n \in Nat, n \in S PROVE n + 1 \in S
  <2>. SUFFICES ASSUME NEW s \in Seq(V), Len(s) = n + 1 PROVE s \in T
    OBVIOUS
  <2>1. s # <<>>
    BY <1>2
  <2>2. PICK front \in Seq(V), e \in V : s = Append(front, e)
    BY <2>1, SequenceEmptyOrAppend
  <2>3. Len(front) = n
    BY <2>2, AppendProperties
  <2>4. front \in T
    BY <1>2, <2>3
  <2>. QED BY <2>2, <2>4
<1>. HIDE DEF S
<1>3. \A n \in Nat : n \in S
  BY <1>1, <1>2, NatInduct
<1>. QED BY <1>3 DEF S

-----------------------------------------------------------------------------
(* FlattenSeq, the recursive function under Spelt, OfArea and Letters. *)

\* text[n]: the first n sequences, one after the other.
Joined(text, seqs, V) ==
  /\ text \in [0..Len(seqs) -> Seq(V)] /\ text[0] = <<>>
  /\ \A n \in 1..Len(seqs) : text[n] = text[n - 1] \o seqs[n]

LEMMA FlattenJoins ==
  ASSUME NEW V, NEW seqs \in Seq(Seq(V))
  PROVE  \E text : Joined(text, seqs, V) /\ FlattenSeq(seqs) = text[Len(seqs)]
<1>. DEFINE N == Len(seqs)
            W == Seq(V)
            step == [n \in 1..N |-> [s \in W |-> s \o seqs[n]]]
            Fix(g) == g = [i \in 1..N |-> IF i = 1 THEN seqs[i] ELSE g[i - 1] \o seqs[i]]
            flat == CHOOSE g : Fix(g)
<1>1. N \in Nat /\ <<>> \in W /\ \A n \in 1..N : seqs[n] \in W
  OBVIOUS
<1>2. step \in [1..N -> [W -> W]]
  OBVIOUS
<1>3. \A n \in 1..N, s \in W : step[n][s] = s \o seqs[n]
  OBVIOUS
<1>4. \A s \in W : <<>> \o s = s
  BY ConcatEmptySeq
<1>. HIDE DEF W, N, step
<1>5. PICK text : Computes(text, N, W, <<>>, step)
  BY <1>1, <1>2, Iterates
<1>6. Joined(text, seqs, V)
  <2>1. \A n \in 1..N : n - 1 \in 0..N
    BY <1>1
  <2>2. \A n \in 1..N : text[n] = text[n - 1] \o seqs[n]
    BY <1>3, <1>5, <2>1 DEF Computes
  <2>. QED BY <1>5, <2>2 DEF Joined, Computes, N, W
<1>7. CASE N = 0
  <2>1. seqs = <<>>
    BY <1>7 DEF N
  <2>2. FlattenSeq(seqs) = <<>>
    BY <1>7, <2>1 DEF FlattenSeq, N
  <2>. QED BY <1>6, <1>7, <2>2 DEF Joined, N
<1>8. CASE N # 0
  <2>. DEFINE g == [n \in 1..N |-> text[n]]
  <2>1. Fix(g)
    <3>1. ASSUME NEW i \in 1..N
          PROVE  text[i] = IF i = 1 THEN seqs[i] ELSE g[i - 1] \o seqs[i]
      <4>1. text[i] = text[i - 1] \o seqs[i] /\ text[0] = <<>>
        BY <1>6 DEF Joined, N
      <4>2. CASE i = 1
        <5>1. i - 1 = 0
          BY <4>2
        <5>2. text[i] = <<>> \o seqs[i] /\ seqs[i] \in W
          BY <1>1, <4>1, <5>1
        <5>. QED BY <1>4, <4>2, <5>2
      <4>3. CASE i # 1
        <5>1. i - 1 \in 1..N
          BY <1>1, <4>3
        <5>. QED BY <4>1, <4>3, <5>1
      <4>. QED BY <4>2, <4>3
    <3>. QED BY <3>1
  <2>. HIDE DEF g
  <2>2. Fix(flat)
    <3>. HIDE DEF Fix
    <3>. QED BY <2>1
  <2>3. FlattenSeq(seqs) = flat[N]
    BY <1>8 DEF FlattenSeq, N
  <2>. HIDE DEF flat
  <2>4. \A i \in 1..N : flat[i] = IF i = 1 THEN seqs[i] ELSE flat[i - 1] \o seqs[i]
    <3>. DEFINE body(i) == IF i = 1 THEN seqs[i] ELSE flat[i - 1] \o seqs[i]
    <3>1. flat = [i \in 1..N |-> body(i)]
      BY <2>2
    <3>. HIDE DEF body, Fix
    <3>2. \A i \in 1..N : flat[i] = body(i)
      BY <3>1
    <3>. QED BY <3>2 DEF body
  <2>5. \A n \in Nat : n \in {m \in Nat : m \in 1..N => flat[m] = text[m]}
    <3>. DEFINE S == {m \in Nat : m \in 1..N => flat[m] = text[m]}
    <3>1. 0 \in S
      OBVIOUS
    <3>2. ASSUME NEW n \in Nat, n \in S PROVE n + 1 \in S
      <4>. SUFFICES ASSUME n + 1 \in 1..N PROVE flat[n + 1] = text[n + 1]
        OBVIOUS
      <4>1. text[n + 1] = text[(n + 1) - 1] \o seqs[n + 1] /\ text[0] = <<>>
        BY <1>6 DEF Joined, N
      <4>2. flat[n + 1] = IF n + 1 = 1 THEN seqs[n + 1] ELSE flat[(n + 1) - 1] \o seqs[n + 1]
        BY <2>4
      <4>3. CASE n = 0
        <5>1. (n + 1) - 1 = 0 /\ n + 1 = 1
          BY <4>3
        <5>2. text[n + 1] = <<>> \o seqs[n + 1] /\ seqs[n + 1] \in W
          BY <1>1, <4>1, <5>1
        <5>3. flat[n + 1] = seqs[n + 1]
          BY <4>2, <5>1
        <5>. QED BY <1>4, <5>2, <5>3
      <4>4. CASE n # 0
        <5>1. n \in 1..N /\ (n + 1) - 1 = n /\ n + 1 # 1
          BY <1>1, <4>4
        <5>2. flat[n] = text[n]
          BY <3>2, <5>1
        <5>. QED BY <4>1, <4>2, <5>1, <5>2
      <4>. QED BY <4>3, <4>4
    <3>. HIDE DEF S
    <3>3. \A n \in Nat : n \in S
      BY <3>1, <3>2, NatInduct
    <3>. QED BY <3>3 DEF S
  <2>6. flat[N] = text[N]
    <3>1. N \in 1..N
      BY <1>1, <1>8
    <3>. QED BY <1>1, <2>5, <3>1
  <2>. QED BY <1>6, <2>3, <2>6 DEF N
<1>. QED BY <1>7, <1>8

LEMMA FlattenNone == FlattenSeq(<<>>) = <<>>
BY DEF FlattenSeq

LEMMA FlattenType ==
  ASSUME NEW V, NEW seqs \in Seq(Seq(V))
  PROVE  FlattenSeq(seqs) \in Seq(V)
<1>1. PICK text : Joined(text, seqs, V) /\ FlattenSeq(seqs) = text[Len(seqs)]
  BY FlattenJoins
<1>2. Len(seqs) \in 0..Len(seqs)
  OBVIOUS
<1>. QED BY <1>1, <1>2 DEF Joined

LEMMA FlattenAppend ==
  ASSUME NEW V, NEW seqs \in Seq(Seq(V)), NEW s \in Seq(V)
  PROVE  FlattenSeq(Append(seqs, s)) = FlattenSeq(seqs) \o s
<1>. DEFINE more == Append(seqs, s)
            N    == Len(seqs)
<1>1. /\ more \in Seq(Seq(V)) /\ Len(more) = N + 1 /\ N \in Nat
      /\ \A i \in 1..N : more[i] = seqs[i]
      /\ more[N + 1] = s
  BY AppendProperties
<1>2. PICK f : Joined(f, seqs, V) /\ FlattenSeq(seqs) = f[N]
  BY FlattenJoins
<1>. HIDE DEF more
<1>3. PICK g : Joined(g, more, V) /\ FlattenSeq(more) = g[N + 1]
  BY <1>1, FlattenJoins
<1>4. /\ f[0] = <<>> /\ \A n \in 1..N : f[n] = f[n - 1] \o seqs[n]
      /\ g[0] = <<>> /\ \A n \in 1..(N + 1) : g[n] = g[n - 1] \o more[n]
  BY <1>1, <1>2, <1>3 DEF Joined
<1>. HIDE DEF N
<1>. DEFINE S == {m \in Nat : m <= N => g[m] = f[m]}
<1>5. 0 \in S
  BY <1>4
<1>6. ASSUME NEW n \in Nat, n \in S PROVE n + 1 \in S
  <2>. SUFFICES ASSUME n + 1 <= N PROVE g[n + 1] = f[n + 1]
    OBVIOUS
  <2>1. n + 1 \in 1..N /\ n + 1 \in 1..(N + 1) /\ (n + 1) - 1 = n /\ g[n] = f[n]
    BY <1>1, <1>6
  <2>. QED BY <1>1, <1>4, <2>1
<1>. HIDE DEF S
<1>7. \A n \in Nat : n \in S
  BY <1>5, <1>6, NatInduct
<1>8. g[N] = f[N]
  BY <1>1, <1>7 DEF S
<1>9. g[N + 1] = g[N] \o s
  <2>1. N + 1 \in 1..(N + 1) /\ (N + 1) - 1 = N
    BY <1>1
  <2>. QED BY <1>1, <1>4, <2>1
<1>. QED BY <1>2, <1>3, <1>8, <1>9 DEF more

LEMMA FlattenOne ==
  ASSUME NEW V, NEW s \in Seq(V)
  PROVE  FlattenSeq(<<s>>) = s
<1>1. <<s>> = Append(<<>>, s) /\ <<>> \in Seq(Seq(V))
  OBVIOUS
<1>2. FlattenSeq(<<s>>) = <<>> \o s
  BY <1>1, FlattenAppend, FlattenNone
<1>. QED BY <1>2, ConcatEmptySeq

\* Which two of three sequences are joined first does not matter.
Regroups(x, y, z) == (x \o y) \o z = x \o (y \o z)

LEMMA RegroupedAny ==
  ASSUME NEW S, NEW x \in Seq(S), NEW y \in Seq(S), NEW z \in Seq(S)
  PROVE  Regroups(x, y, z)
BY ConcatAssociative DEF Regroups

LEMMA FlattenConcat ==
  ASSUME NEW V, NEW s \in Seq(Seq(V)), NEW t \in Seq(Seq(V))
  PROVE  FlattenSeq(s \o t) = FlattenSeq(s) \o FlattenSeq(t)
<1>. DEFINE T == {u \in Seq(Seq(V)) : FlattenSeq(s \o u) = FlattenSeq(s) \o FlattenSeq(u)}
<1>0. FlattenSeq(s) \in Seq(V)
  BY FlattenType
<1>1. <<>> \in T
  <2>1. s \o <<>> = s /\ FlattenSeq(s) \o <<>> = FlattenSeq(s)
    BY <1>0, ConcatEmptySeq
  <2>2. <<>> \in Seq(Seq(V))
    OBVIOUS
  <2>. QED BY <2>1, <2>2, FlattenNone
<1>2. ASSUME NEW u \in Seq(Seq(V)), NEW e \in Seq(V), u \in T PROVE Append(u, e) \in T
  <2>0. Append(u, e) \in Seq(Seq(V)) /\ FlattenSeq(u) \in Seq(V) /\ s \o u \in Seq(Seq(V))
    BY AppendProperties, FlattenType, ConcatProperties
  <2>1. s \o Append(u, e) = Append(s \o u, e)
    <3>1. Append(u, e) = u \o <<e>> /\ Append(s \o u, e) = (s \o u) \o <<e>> /\ <<e>> \in Seq(Seq(V))
      BY <2>0, AppendIsConcat
    <3>2. Regroups(s, u, <<e>>)
      BY <2>0, <3>1, RegroupedAny
    <3>. QED BY <3>1, <3>2 DEF Regroups
  <2>2. FlattenSeq(s \o Append(u, e)) = FlattenSeq(s \o u) \o e
    BY <2>0, <2>1, FlattenAppend
  <2>3. FlattenSeq(Append(u, e)) = FlattenSeq(u) \o e
    BY FlattenAppend
  <2>4. FlattenSeq(s \o u) = FlattenSeq(s) \o FlattenSeq(u)
    BY <1>2
  <2>5. (FlattenSeq(s) \o FlattenSeq(u)) \o e = FlattenSeq(s) \o (FlattenSeq(u) \o e)
    <3>1. Regroups(FlattenSeq(s), FlattenSeq(u), e)
      BY <1>0, <2>0, RegroupedAny
    <3>. QED BY <3>1 DEF Regroups
  <2>6. FlattenSeq(s \o Append(u, e)) = FlattenSeq(s) \o FlattenSeq(Append(u, e))
    BY <2>2, <2>3, <2>4, <2>5
  <2>. QED BY <2>0, <2>6
<1>. HIDE DEF T
<1>3. \A u \in Seq(Seq(V)) : u \in T
  BY <1>1, <1>2, SeqInduct
<1>. QED BY <1>3 DEF T

=============================================================================
