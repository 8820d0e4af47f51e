---------------------------- MODULE ChordProofs ----------------------------
(***************************************************************************)
(* That chords lose, repeat and reorder no jamo, and that an idle-flush     *)
(* timer ends no chord but its own, for every size of the buffer, number of *)
(* keys, timers and resets of the field.                                    *)
(*                                                                          *)
(* The lemmas follow each operator of Chord from an engine e to the engine  *)
(* it leaves: what it does to the buffer and its epoch (Later), and what it *)
(* adds to the keys that e has taken (Taken), which are those composed and, *)
(* unless the preview has composed them already, those pending.  The        *)
(* preview has to be that of the chord for this (PreviewOf): all of the     *)
(* syllable, or its last key.                                               *)
(***************************************************************************)
EXTENDS ChordTimers, SequenceLemmas

-----------------------------------------------------------------------------
(* The keys that are in a set. *)

\* part[n]: those of the first n keys that are in the set.
Parts(part, keys, set) ==
  /\ part \in [0..Len(keys) -> Seq(Key)] /\ part[0] = <<>>
  /\ \A n \in 1..Len(keys) :
       part[n] = IF keys[n] \in set THEN Append(part[n - 1], keys[n]) ELSE part[n - 1]

\* The recursive function of Among computes the parts.
LEMMA AmongParts ==
  ASSUME NEW keys \in Seq(Key), NEW set
  PROVE  \E part : Parts(part, keys, set) /\ Among(keys, set) = part[Len(keys)]
<1>. DEFINE N == Len(keys)
            V == Seq(Key)
            step == [n \in 1..N |-> [s \in V |-> IF keys[n] \in set THEN Append(s, keys[n]) ELSE s]]
            Fix(g) == g = [n \in 0..N |->
                             IF n = 0 THEN <<>>
                             ELSE IF keys[n] \in set THEN Append(g[n - 1], keys[n]) ELSE g[n - 1]]
            part == CHOOSE g : Fix(g)
<1>1. N \in Nat /\ <<>> \in V /\ \A n \in 1..N : keys[n] \in Key
  OBVIOUS
<1>2. step \in [1..N -> [V -> V]]
  <2>1. ASSUME NEW n \in 1..N, NEW s \in V
        PROVE  (IF keys[n] \in set THEN Append(s, keys[n]) ELSE s) \in V
    BY <1>1
  <2>. QED BY <2>1
<1>3. \A n \in 1..N, s \in V : step[n][s] = IF keys[n] \in set THEN Append(s, keys[n]) ELSE s
  OBVIOUS
<1>. HIDE DEF V, N, step
<1>4. PICK f : Computes(f, N, V, <<>>, step)
  BY <1>1, <1>2, Iterates
<1>5. Fix(f)
  <2>1. \A n \in 1..N : f[n - 1] \in V /\ n \in 1..N /\ f[n] = step[n][f[n - 1]]
    BY <1>1, <1>4 DEF Computes
  <2>2. \A n \in 1..N : f[n] = IF keys[n] \in set THEN Append(f[n - 1], keys[n]) ELSE f[n - 1]
    BY <1>3, <2>1
  <2>3. f[0] = <<>> /\ f \in [0..N -> V]
    BY <1>4 DEF Computes
  <2>4. \A n \in 0..N : n # 0 => n \in 1..N
    BY <1>1
  <2>. QED BY <2>2, <2>3, <2>4
<1>6. Fix(part)
  <2>. HIDE DEF Fix
  <2>. QED BY <1>5
<1>7. Among(keys, set) = part[N]
  BY DEF Among, N
<1>. HIDE DEF part
<1>8. /\ part[0] = <<>>
      /\ \A n \in 1..N : part[n] = IF keys[n] \in set THEN Append(part[n - 1], keys[n]) ELSE part[n - 1]
  <2>. DEFINE body(n) == IF n = 0 THEN <<>>
                         ELSE IF keys[n] \in set THEN Append(part[n - 1], keys[n]) ELSE part[n - 1]
  <2>1. part = [n \in 0..N |-> body(n)]
    BY <1>6
  <2>2. body(0) = <<>>
    OBVIOUS
  <2>3. \A n \in 1..N : body(n) = IF keys[n] \in set THEN Append(part[n - 1], keys[n]) ELSE part[n - 1]
    BY <1>1
  <2>. HIDE DEF body, Fix
  <2>4. \A n \in 0..N : part[n] = body(n)
    BY <2>1
  <2>5. 0 \in 0..N /\ \A n \in 1..N : n \in 0..N
    BY <1>1
  <2>. QED BY <2>2, <2>3, <2>4, <2>5
<1>9. part = [n \in 0..N |-> part[n]]
  BY <1>6
<1>. HIDE DEF Fix
<1>10. \A n \in Nat : n \in {m \in Nat : m <= N => part[m] \in V}
  <2>. DEFINE S == {m \in Nat : m <= N => part[m] \in V}
  <2>1. 0 \in S
    BY <1>1, <1>8
  <2>2. ASSUME NEW n \in Nat, n \in S PROVE n + 1 \in S
    <3>. SUFFICES ASSUME n + 1 <= N PROVE part[n + 1] \in V
      OBVIOUS
    <3>1. n + 1 \in 1..N /\ (n + 1) - 1 = n /\ part[n] \in V
      BY <1>1, <2>2
    <3>2. part[n + 1] = IF keys[n + 1] \in set THEN Append(part[n], keys[n + 1]) ELSE part[n]
      BY <1>8, <3>1
    <3>3. keys[n + 1] \in Key
      BY <1>1, <3>1
    <3>4. Append(part[n], keys[n + 1]) \in V
      BY <3>1, <3>3, AppendProperties DEF V
    <3>. QED BY <3>1, <3>2, <3>4
  <2>. HIDE DEF S
  <2>3. \A n \in Nat : n \in S
    BY <2>1, <2>2, NatInduct
  <2>. QED BY <2>3 DEF S
<1>11. part \in [0..N -> V]
  BY <1>1, <1>9, <1>10
<1>. QED BY <1>7, <1>8, <1>11 DEF Parts, N, V

\* A part of the keys is a sequence of keys.
LEMMA AmongType ==
  ASSUME NEW keys \in Seq(Key), NEW set
  PROVE  Among(keys, set) \in Seq(Key)
<1>1. PICK part : Parts(part, keys, set) /\ Among(keys, set) = part[Len(keys)]
  BY AmongParts
<1>2. Len(keys) \in 0..Len(keys)
  OBVIOUS
<1>. QED BY <1>1, <1>2 DEF Parts

\* Nothing is left of keys that are outside the set.
LEMMA AmongNone ==
  ASSUME NEW keys \in Seq(Key), NEW set, \A n \in 1..Len(keys) : keys[n] \notin set
  PROVE  Among(keys, set) = <<>>
<1>1. PICK part : Parts(part, keys, set) /\ Among(keys, set) = part[Len(keys)]
  BY AmongParts
<1>. DEFINE S == {m \in Nat : m <= Len(keys) => part[m] = <<>>}
<1>2. 0 \in S
  BY <1>1 DEF Parts
<1>3. ASSUME NEW n \in Nat, n \in S PROVE n + 1 \in S
  <2>. SUFFICES ASSUME n + 1 <= Len(keys) PROVE part[n + 1] = <<>>
    OBVIOUS
  <2>1. n + 1 \in 1..Len(keys) /\ (n + 1) - 1 = n /\ part[n] = <<>>
    BY <1>3
  <2>. QED BY <1>1, <2>1 DEF Parts
<1>. HIDE DEF S
<1>4. \A n \in Nat : n \in S
  BY <1>2, <1>3, NatInduct
<1>5. Len(keys) \in S
  BY <1>4
<1>. QED BY <1>1, <1>5 DEF S

\* Keys that are all in the set are left as they are.
LEMMA AmongAll ==
  ASSUME NEW keys \in Seq(Key), NEW set, \A n \in 1..Len(keys) : keys[n] \in set
  PROVE  Among(keys, set) = keys
<1>1. PICK part : Parts(part, keys, set) /\ Among(keys, set) = part[Len(keys)]
  BY AmongParts
<1>. DEFINE S == {m \in Nat : m <= Len(keys) => part[m] = SubSeq(keys, 1, m)}
<1>2. 0 \in S
  <2>1. SubSeq(keys, 1, 0) = <<>>
    BY SubSeqEmpty
  <2>. QED BY <1>1, <2>1 DEF Parts
<1>3. ASSUME NEW n \in Nat, n \in S PROVE n + 1 \in S
  <2>. SUFFICES ASSUME n + 1 <= Len(keys) PROVE part[n + 1] = SubSeq(keys, 1, n + 1)
    OBVIOUS
  <2>1. n + 1 \in 1..Len(keys) /\ (n + 1) - 1 = n /\ part[n] = SubSeq(keys, 1, n)
    BY <1>3
  <2>2. part[n + 1] = Append(SubSeq(keys, 1, n), keys[n + 1])
    BY <1>1, <2>1 DEF Parts
  <2>3. SubSeq(keys, 1, n + 1) = SubSeq(keys, 1, n) \o <<keys[n + 1]>>
    <3>1. 1 \in 1..Len(keys) /\ n + 1 \in 1..Len(keys)
      BY <2>1
    <3>. QED BY <2>1, <3>1, SubSeqRecursiveSecond
  <2>4. SubSeq(keys, 1, n) \in Seq(Key) /\ keys[n + 1] \in Key
    BY <2>1, SubSeqProperties
  <2>. QED BY <2>2, <2>3, <2>4, AppendIsConcat
<1>. HIDE DEF S
<1>4. \A n \in Nat : n \in S
  BY <1>2, <1>3, NatInduct
<1>5. Len(keys) \in S
  BY <1>4
<1>6. part[Len(keys)] = SubSeq(keys, 1, Len(keys))
  BY <1>5 DEF S
<1>. QED BY <1>1, <1>6, SubSeqFull

\* What is in the set of a text of two parts is that of the one and of the other.
LEMMA AmongConcat ==
  ASSUME NEW s \in Seq(Key), NEW t \in Seq(Key), NEW set
  PROVE  Among(s \o t, set) = Among(s, set) \o Among(t, set)
<1>. DEFINE k == Len(s)
            l == Len(t)
<1>1. k \in Nat /\ l \in Nat /\ s \o t \in Seq(Key) /\ Len(s \o t) = k + l
  BY ConcatProperties
<1>2. PICK p : Parts(p, s, set) /\ Among(s, set) = p[k]
  BY AmongParts
<1>3. PICK q : Parts(q, t, set) /\ Among(t, set) = q[l]
  BY AmongParts
<1>4. PICK r : Parts(r, s \o t, set) /\ Among(s \o t, set) = r[k + l]
  BY <1>1, AmongParts
<1>5. /\ \A n \in 1..k : (s \o t)[n] = s[n]
      /\ \A n \in 1..l : (s \o t)[k + n] = t[n]
  <2>1. \A i \in 1..(k + l) : (s \o t)[i] = IF i <= k THEN s[i] ELSE t[i - k]
    BY ConcatProperties
  <2>2. \A n \in 1..k : n \in 1..(k + l) /\ n <= k
    BY <1>1
  <2>3. \A n \in 1..l : k + n \in 1..(k + l) /\ ~(k + n <= k) /\ (k + n) - k = n
    BY <1>1
  <2>. QED BY <2>1, <2>2, <2>3
<1>6. /\ r[0] = <<>>
      /\ \A n \in 1..(k + l) : r[n] = IF (s \o t)[n] \in set THEN Append(r[n - 1], (s \o t)[n])
                                      ELSE r[n - 1]
  BY <1>1, <1>4 DEF Parts
<1>7. /\ p[0] = <<>> /\ p[k] \in Seq(Key)
      /\ \A n \in 1..k : p[n] = IF s[n] \in set THEN Append(p[n - 1], s[n]) ELSE p[n - 1]
  BY <1>1, <1>2 DEF Parts
<1>8. /\ q[0] = <<>> /\ \A n \in 0..l : q[n] \in Seq(Key)
      /\ \A n \in 1..l : q[n] = IF t[n] \in set THEN Append(q[n - 1], t[n]) ELSE q[n - 1]
  BY <1>1, <1>3 DEF Parts
<1>9. \A n \in 1..l : t[n] \in Key
  OBVIOUS
<1>. HIDE DEF k, l
<1>10. r[k] = p[k]
  <2>. DEFINE S == {m \in Nat : m <= k => r[m] = p[m]}
  <2>1. 0 \in S
    BY <1>6, <1>7
  <2>2. ASSUME NEW n \in Nat, n \in S PROVE n + 1 \in S
    <3>. SUFFICES ASSUME n + 1 <= k PROVE r[n + 1] = p[n + 1]
      OBVIOUS
    <3>1. n + 1 \in 1..k /\ n + 1 \in 1..(k + l) /\ (n + 1) - 1 = n /\ r[n] = p[n]
      BY <1>1, <2>2
    <3>2. r[n + 1] = IF s[n + 1] \in set THEN Append(r[n], s[n + 1]) ELSE r[n]
      BY <1>5, <1>6, <3>1
    <3>3. p[n + 1] = IF s[n + 1] \in set THEN Append(p[n], s[n + 1]) ELSE p[n]
      BY <1>7, <3>1
    <3>. QED BY <3>1, <3>2, <3>3
  <2>. HIDE DEF S
  <2>3. \A n \in Nat : n \in S
    BY <2>1, <2>2, NatInduct
  <2>4. k \in S
    BY <1>1, <2>3
  <2>. QED BY <1>1, <2>4 DEF S
<1>11. PICK c : c = [m \in 0..l |-> p[k] \o q[m]]
  OBVIOUS
<1>12. c[0] = p[k] /\ c[l] = p[k] \o q[l]
  <2>1. p[k] \o <<>> = p[k]
    BY <1>7, ConcatEmptySeq
  <2>2. 0 \in 0..l /\ l \in 0..l
    BY <1>1
  <2>. QED BY <1>8, <1>11, <2>1, <2>2
<1>13. ASSUME NEW n \in 1..l
       PROVE  c[n] = IF t[n] \in set THEN Append(c[n - 1], t[n]) ELSE c[n - 1]
  <2>1. n \in 0..l /\ n - 1 \in 0..l
    BY <1>1
  <2>2. PICK x : x = q[n - 1]
    OBVIOUS
  <2>3. PICK y : y = p[k]
    OBVIOUS
  <2>4. PICK z : z = t[n]
    OBVIOUS
  <2>5. x \in Seq(Key) /\ y \in Seq(Key) /\ z \in Key
    BY <1>7, <1>8, <1>9, <2>1, <2>2, <2>3, <2>4
  <2>6. Append(y \o x, z) = y \o Append(x, z)
    <3>1. y \o x \in Seq(Key) /\ <<z>> \in Seq(Key)
      BY <2>5, ConcatProperties
    <3>2. Append(x, z) = x \o <<z>> /\ Append(y \o x, z) = (y \o x) \o <<z>>
      BY <2>5, <3>1, AppendIsConcat
    <3>3. (y \o x) \o <<z>> = y \o (x \o <<z>>)
      BY <2>5, <3>1, ConcatAssociative
    <3>. QED BY <3>2, <3>3
  <2>7. c[n] = y \o q[n] /\ c[n - 1] = y \o x
    BY <1>11, <2>1, <2>2, <2>3
  <2>8. q[n] = IF z \in set THEN Append(x, z) ELSE x
    BY <1>8, <2>2, <2>4
  <2>. QED BY <2>4, <2>6, <2>7, <2>8
<1>14. r[k + l] = c[l]
  <2>. DEFINE S == {m \in Nat : m <= l => r[k + m] = c[m]}
  <2>1. 0 \in S
    BY <1>1, <1>10, <1>12
  <2>2. ASSUME NEW n \in Nat, n \in S PROVE n + 1 \in S
    <3>. SUFFICES ASSUME n + 1 <= l PROVE r[k + (n + 1)] = c[n + 1]
      OBVIOUS
    <3>1. /\ n + 1 \in 1..l /\ k + (n + 1) \in 1..(k + l) /\ (n + 1) - 1 = n
          /\ (k + (n + 1)) - 1 = k + n /\ r[k + n] = c[n]
      BY <1>1, <2>2
    <3>2. r[k + (n + 1)] = IF t[n + 1] \in set THEN Append(r[k + n], t[n + 1]) ELSE r[k + n]
      BY <1>5, <1>6, <3>1
    <3>3. c[n + 1] = IF t[n + 1] \in set THEN Append(c[n], t[n + 1]) ELSE c[n]
      BY <1>13, <3>1
    <3>. QED BY <3>1, <3>2, <3>3
  <2>. HIDE DEF S
  <2>3. \A n \in Nat : n \in S
    BY <2>1, <2>2, NatInduct
  <2>4. l \in S
    BY <1>1, <2>3
  <2>. QED BY <1>1, <2>4 DEF S
<1>. QED BY <1>2, <1>3, <1>4, <1>12, <1>14

\* The keys of a text are in the order they were pressed in, each once.
Increasing(s) == \A i, j \in 1..Len(s) : i < j => s[i].id < s[j].id

\* s has keys of t only.
From(s, t) == \A i \in 1..Len(s) : \E j \in 1..Len(t) : s[i] = t[j]

\* The part has keys of the text only, in their order.
LEMMA AmongFrom ==
  ASSUME NEW keys \in Seq(Key), NEW set
  PROVE  From(Among(keys, set), keys) /\ (Increasing(keys) => Increasing(Among(keys, set)))
<1>. DEFINE N == Len(keys)
<1>1. PICK part : Parts(part, keys, set) /\ Among(keys, set) = part[N]
  BY AmongParts
<1>2. N \in Nat /\ \A n \in 1..N : keys[n] \in Key
  OBVIOUS
<1>3. /\ part[0] = <<>> /\ \A n \in 0..N : part[n] \in Seq(Key)
      /\ \A n \in 1..N : part[n] = IF keys[n] \in set THEN Append(part[n - 1], keys[n]) ELSE part[n - 1]
  BY <1>1 DEF Parts
<1>. DEFINE Some(n) == \A i \in 1..Len(part[n]) : \E j \in 1..n : part[n][i] = keys[j]
            Rises(n) == Increasing(keys) => Increasing(part[n])
<1>. HIDE DEF N
<1>4. Some(0) /\ Rises(0)
  <2>1. Len(part[0]) = 0
    BY <1>3
  <2>. QED BY <2>1 DEF Increasing
<1>5. ASSUME NEW n \in Nat, n + 1 <= N, Some(n), Rises(n) PROVE Some(n + 1) /\ Rises(n + 1)
  <2>1. n + 1 \in 1..N /\ (n + 1) - 1 = n /\ n \in 0..N /\ n + 1 \in 0..N
    BY <1>2, <1>5
  <2>2. PICK s : s = part[n]
    OBVIOUS
  <2>3. PICK k : k = keys[n + 1]
    OBVIOUS
  <2>4. s \in Seq(Key) /\ k \in Key
    BY <1>2, <1>3, <2>1, <2>2, <2>3
  <2>5. part[n + 1] = IF k \in set THEN Append(s, k) ELSE s
    BY <1>3, <2>1, <2>2, <2>3
  <2>6. /\ Len(s) \in Nat /\ Len(Append(s, k)) = Len(s) + 1
        /\ \A i \in 1..Len(s) : Append(s, k)[i] = s[i]
        /\ Append(s, k)[Len(s) + 1] = k
    BY <2>4, AppendProperties
  <2>7. \A i \in 1..Len(s) : \E j \in 1..n : s[i] = keys[j]
    BY <1>5, <2>2
  <2>8. CASE k \notin set
    <3>1. part[n + 1] = s
      BY <2>5, <2>8
    <3>2. \A j \in 1..n : j \in 1..(n + 1)
      BY <1>5
    <3>. QED BY <1>5, <2>2, <2>7, <3>1, <3>2
  <2>9. CASE k \in set
    <3>1. PICK u : u = Append(s, k)
      OBVIOUS
    <3>2. part[n + 1] = u
      BY <2>5, <2>9, <3>1
    <3>3. /\ Len(u) = Len(s) + 1 /\ \A i \in 1..Len(s) : u[i] = s[i]
          /\ u[Len(s) + 1] = k
      BY <2>6, <3>1
    <3>4. ASSUME NEW i \in 1..Len(u) PROVE \E j \in 1..(n + 1) : u[i] = keys[j]
      <4>1. CASE i = Len(s) + 1
        BY <2>1, <2>3, <3>3, <4>1
      <4>2. CASE i # Len(s) + 1
        <5>1. i \in 1..Len(s)
          BY <2>6, <3>3, <4>2
        <5>2. PICK j \in 1..n : s[i] = keys[j]
          BY <2>7, <5>1
        <5>3. j \in 1..(n + 1)
          BY <1>5
        <5>. QED BY <3>3, <5>1, <5>2, <5>3
      <4>. QED BY <4>1, <4>2
    <3>5. ASSUME Increasing(keys), NEW i \in 1..Len(u), NEW j \in 1..Len(u), i < j
          PROVE  u[i].id < u[j].id
      <4>1. i \in 1..Len(s) /\ u[i] = s[i]
        BY <2>6, <3>3, <3>5
      <4>2. CASE j = Len(s) + 1
        <5>1. PICK m \in 1..n : s[i] = keys[m]
          BY <2>7, <4>1
        <5>2. m \in 1..N /\ m < n + 1
          BY <1>2, <1>5
        <5>3. keys[m].id < keys[n + 1].id
          BY <2>1, <3>5, <5>2 DEF Increasing, N
        <5>. QED BY <2>3, <3>3, <4>1, <4>2, <5>1, <5>3
      <4>3. CASE j # Len(s) + 1
        <5>1. j \in 1..Len(s) /\ u[j] = s[j]
          BY <2>6, <3>3, <4>3
        <5>2. Increasing(s)
          BY <1>5, <2>2, <3>5
        <5>. QED BY <3>5, <4>1, <5>1, <5>2 DEF Increasing
      <4>. QED BY <4>2, <4>3
    <3>6. Rises(n + 1)
      BY <3>2, <3>5 DEF Increasing
    <3>. QED BY <3>2, <3>4, <3>6
  <2>. QED BY <2>8, <2>9
<1>. HIDE DEF Some, Rises
<1>6. Some(N) /\ Rises(N)
  <2>. DEFINE S == {m \in Nat : m <= N => Some(m) /\ Rises(m)}
  <2>1. 0 \in S
    BY <1>4
  <2>2. ASSUME NEW n \in Nat, n \in S PROVE n + 1 \in S
    <3>1. n + 1 <= N => n <= N
      BY <1>2
    <3>. QED BY <1>5, <2>2, <3>1
  <2>. HIDE DEF S
  <2>3. \A n \in Nat : n \in S
    BY <2>1, <2>2, NatInduct
  <2>4. N \in S
    BY <1>2, <2>3
  <2>5. N <= N
    BY <1>2
  <2>. QED BY <2>4, <2>5 DEF S
<1>7. From(Among(keys, set), keys)
  BY <1>1, <1>6 DEF Some, From, N
<1>. QED BY <1>1, <1>6, <1>7 DEF Rises

-----------------------------------------------------------------------------
(* Texts. *)

\* Texts put together.
LEMMA JoinedKeys ==
  ASSUME NEW s \in Seq(Key), NEW t \in Seq(Key)
  PROVE  s \o t \in Seq(Key) /\ s \o <<>> = s /\ <<>> \o s = s
BY ConcatProperties, ConcatEmptySeq

LEMMA Regrouped ==
  ASSUME NEW s \in Seq(Key), NEW t \in Seq(Key), NEW u \in Seq(Key)
  PROVE  (s \o t) \o u = s \o (t \o u)
BY ConcatAssociative

\* A text with one key more.
LEMMA Added ==
  ASSUME NEW s \in Seq(Key), NEW k \in Key
  PROVE  /\ Append(s, k) = s \o <<k>> /\ Append(s, k) \in Seq(Key) /\ <<k>> \in Seq(Key)
         /\ Append(s, k) # <<>> /\ Last(Append(s, k)) = k /\ Last(<<k>>) = k
         /\ Len(Append(s, k)) = Len(s) + 1 /\ (s = <<>> => Append(s, k) = <<k>>)
<1>1. Append(s, k) = s \o <<k>>
  BY AppendIsConcat
<1>2. /\ Append(s, k) \in Seq(Key) /\ Append(s, k) # <<>> /\ Len(Append(s, k)) = Len(s) + 1
      /\ Append(s, k)[Len(s) + 1] = k
  BY AppendProperties
<1>3. <<k>> \in Seq(Key) /\ Len(<<k>>) = 1 /\ <<k>>[1] = k
  OBVIOUS
<1>4. s = <<>> => Append(s, k) = <<k>>
  BY <1>1, <1>3, ConcatEmptySeq
<1>. QED BY <1>1, <1>2, <1>3, <1>4 DEF Last

\* A text without its last key.
LEMMA Shortened ==
  ASSUME NEW s \in Seq(Key)
  PROVE  Front(s) \in Seq(Key) /\ (s # <<>> => s = Front(s) \o <<Last(s)>>)
<1>1. Len(s) \in Nat /\ \A i \in 1..Len(s) : s[i] \in Key
  OBVIOUS
<1>2. Front(s) \in Seq(Key)
  <2>1. \A i \in 1..(Len(s) - 1) : s[i] \in Key
    BY <1>1
  <2>2. 1 \in Int /\ Len(s) - 1 \in Int
    BY <1>1
  <2>. QED BY <2>1, <2>2, SubSeqProperties DEF Front
<1>3. ASSUME s # <<>> PROVE s = Front(s) \o <<Last(s)>>
  <2>1. 1 \in 1..Len(s) /\ Len(s) \in 1..Len(s)
    BY <1>1, <1>3, EmptySeq
  <2>2. SubSeq(s, 1, Len(s)) = SubSeq(s, 1, Len(s) - 1) \o <<s[Len(s)]>>
    BY <2>1, SubSeqRecursiveSecond
  <2>. QED BY <2>2, SubSeqFull DEF Front, Last
<1>. QED BY <1>2, <1>3

-----------------------------------------------------------------------------
(* The operators that compose. *)

\* f is an engine with the chord of e.
SameChord(e, f) == f \in Engine /\ f.buffer = e.buffer /\ f.epoch = e.epoch

SamePreview(e, f) == SameChord(e, f) /\ f.injected = e.injected /\ f.atomic = e.atomic

Words(e) == e.commit \o e.syllable

\* f has composed keys more than e.
Says(e, f, keys) == SamePreview(e, f) /\ Words(f) = Words(e) \o keys

\* The fields of an engine.
LEMMA Fields ==
  ASSUME NEW e \in Engine
  PROVE  /\ e.syllable \in Seq(Key) /\ e.commit \in Seq(Key) /\ e.buffer \in Seq(Key)
         /\ e.epoch \in Nat /\ e.injected \in BOOLEAN /\ e.atomic \in BOOLEAN
         /\ Words(e) \in Seq(Key)
<1>1. /\ e.syllable \in Seq(Key) /\ e.commit \in Seq(Key) /\ e.buffer \in Seq(Key)
      /\ e.epoch \in Nat /\ e.injected \in BOOLEAN /\ e.atomic \in BOOLEAN
  BY DEF Engine, Text
<1>. QED BY <1>1, JoinedKeys DEF Words

\* e with another composition.
Composing(e, s, c) == [e EXCEPT !.commit = c, !.syllable = s]

\* f has that composition, and is like e but for it.
HasComposed(e, s, c, f) ==
  SamePreview(e, f) /\ f \in Engine /\ f.syllable = s /\ f.commit = c

LEMMA Composed ==
  ASSUME NEW e, e \in Engine, NEW s, s \in Seq(Key), NEW c, c \in Seq(Key),
         NEW f, f = Composing(e, s, c)
  PROVE  HasComposed(e, s, c, f)
BY DEF SamePreview, SameChord, Engine, Text, Composing, HasComposed

\* One field changes, and the other stays.
LEMMA Half ==
  ASSUME NEW e \in Engine, NEW x
  PROVE  /\ [e EXCEPT !.syllable = x] = Composing(e, x, e.commit)
         /\ [e EXCEPT !.commit = x] = Composing(e, e.syllable, x)
BY DEF Engine, Composing

\* What is composed is given.
LEMMA FlushSays ==
  ASSUME NEW e \in Engine
  PROVE  /\ Says(e, FlushPreedit(e), <<>>) /\ FlushPreedit(e) \in Engine
         /\ FlushPreedit(e).syllable = <<>> /\ FlushPreedit(e).commit = Words(e)
<1>1. Words(e) \in Seq(Key) /\ <<>> \in Seq(Key)
  BY Fields
<1>2. PICK f : f = FlushPreedit(e)
  OBVIOUS
<1>3. f = Composing(e, <<>>, Words(e))
  BY <1>2 DEF FlushPreedit, Words, Composing
<1>4. HasComposed(e, <<>>, Words(e), f)
  BY <1>1, <1>3, Composed
<1>5. Words(f) = Words(e) \o <<>>
  BY <1>4 DEF Words, HasComposed
<1>. QED BY <1>2, <1>4, <1>5 DEF Says, HasComposed

\* A key is added to the syllable, or the syllable is given and the key begins the next.
LEMMA JamoSays ==
  ASSUME NEW e \in Engine, NEW k \in Key
  PROVE  /\ Says(e, ProcessJamo(e, k), <<k>>) /\ ProcessJamo(e, k) \in Engine
         /\ ProcessJamo(e, k).syllable # <<>> /\ Last(ProcessJamo(e, k).syllable) = k
<1>1. PICK g : g = ProcessJamo(e, k)
  OBVIOUS
<1>2. PICK s : s = e.syllable
  OBVIOUS
<1>3. PICK c : c = e.commit
  OBVIOUS
<1>4. s \in Seq(Key) /\ c \in Seq(Key) /\ Words(e) \in Seq(Key) /\ Words(e) = c \o s
  BY <1>2, <1>3, Fields DEF Words
<1>5. /\ Append(s, k) \in Seq(Key) /\ Append(s, k) = s \o <<k>> /\ <<k>> \in Seq(Key)
      /\ Append(s, k) # <<>> /\ Last(Append(s, k)) = k /\ <<k>> # <<>> /\ Last(<<k>>) = k
  BY <1>4, Added
<1>6. CASE OneSyllable(Append(e.syllable, k))
  <2>1. g = [e EXCEPT !.syllable = Append(s, k)]
    BY <1>1, <1>2, <1>6 DEF ProcessJamo
  <2>2. g = Composing(e, Append(s, k), c)
    BY <1>3, <2>1, Half
  <2>3. HasComposed(e, Append(s, k), c, g)
    BY <1>4, <1>5, <2>2, Composed
  <2>4. Words(g) = Words(e) \o <<k>>
    BY <1>4, <1>5, <2>3, Regrouped DEF Words, HasComposed
  <2>. QED BY <1>1, <1>5, <2>3, <2>4 DEF Says, HasComposed
<1>7. CASE ~OneSyllable(Append(e.syllable, k))
  <2>1. PICK h : h = FlushPreedit(e)
    OBVIOUS
  <2>2. SamePreview(e, h) /\ h \in Engine /\ h.commit = Words(e)
    BY <2>1, FlushSays DEF Says
  <2>3. g = [h EXCEPT !.syllable = <<k>>]
    BY <1>1, <1>7, <2>1 DEF ProcessJamo
  <2>4. g = Composing(h, <<k>>, Words(e))
    BY <2>2, <2>3, Half
  <2>5. HasComposed(h, <<k>>, Words(e), g)
    BY <1>4, <1>5, <2>2, <2>4, Composed
  <2>6. SamePreview(e, g)
    BY <2>2, <2>5 DEF SamePreview, SameChord, HasComposed
  <2>7. Words(g) = Words(e) \o <<k>>
    BY <2>5 DEF Words, HasComposed
  <2>. QED BY <1>1, <1>5, <2>5, <2>6, <2>7 DEF Says, HasComposed
<1>. QED BY <1>6, <1>7

\* The composition is given, and the key after it.
LEMMA CharacterSays ==
  ASSUME NEW e \in Engine, NEW k \in Key
  PROVE  Says(e, CommitCharacter(e, k), <<k>>) /\ CommitCharacter(e, k) \in Engine
<1>1. PICK g : g = CommitCharacter(e, k)
  OBVIOUS
<1>2. PICK h : h = FlushPreedit(e)
  OBVIOUS
<1>3. PICK w : w = Words(e)
  OBVIOUS
<1>4. SamePreview(e, h) /\ h \in Engine /\ h.commit = w /\ h.syllable = <<>> /\ w \in Seq(Key)
  BY <1>2, <1>3, FlushSays, Fields DEF Says
<1>5. Append(w, k) \in Seq(Key) /\ Append(w, k) = w \o <<k>> /\ <<>> \in Seq(Key)
  BY <1>4, Added
<1>6. PICK x : x = Append(w, k)
  OBVIOUS
<1>7. g = [h EXCEPT !.commit = x]
  BY <1>1, <1>2, <1>4, <1>6 DEF CommitCharacter
<1>8. g = Composing(h, <<>>, x)
  BY <1>4, <1>7, Half
<1>9. x \in Seq(Key)
  BY <1>5, <1>6
<1>10. HasComposed(h, <<>>, x, g)
  BY <1>4, <1>5, <1>8, <1>9, Composed
<1>11. SamePreview(e, g)
  BY <1>4, <1>10 DEF SamePreview, SameChord, HasComposed
<1>12. Words(g) = w \o <<k>>
  BY <1>5, <1>6, <1>9, <1>10, JoinedKeys DEF Words, HasComposed
<1>. QED BY <1>1, <1>3, <1>10, <1>11, <1>12 DEF Says, HasComposed

\* Nothing is composed: the chord is.
LEMMA InjectSays ==
  ASSUME NEW e \in Engine, NEW keys \in Seq(Key)
  PROVE  HasComposed(e, keys, e.commit, InjectChord(e, keys))
<1>1. InjectChord(e, keys) = Composing(e, keys, e.commit)
  BY Half DEF InjectChord
<1>2. e.commit \in Seq(Key)
  BY Fields
<1>. QED BY <1>1, <1>2, Composed

\* The composition is given, and the chord is composed after it.
LEMMA OverSays ==
  ASSUME NEW e \in Engine, NEW keys \in Seq(Key)
  PROVE  Says(e, InjectChord(FlushPreedit(e), keys), keys)
<1>1. PICK h : h = FlushPreedit(e)
  OBVIOUS
<1>2. SamePreview(e, h) /\ h \in Engine /\ h.commit = Words(e)
  BY <1>1, FlushSays DEF Says
<1>3. PICK g : g = InjectChord(h, keys)
  OBVIOUS
<1>4. SamePreview(h, g) /\ g.syllable = keys /\ g.commit = Words(e)
  BY <1>2, <1>3, InjectSays DEF HasComposed
<1>5. SamePreview(e, g) /\ Words(g) = Words(e) \o keys
  BY <1>2, <1>4 DEF SamePreview, SameChord, Words
<1>. QED BY <1>1, <1>3, <1>5 DEF Says

\* All of the syllable, or its last key, is taken back.
LEMMA TakenBack ==
  ASSUME NEW e \in Engine
  PROVE  /\ HasComposed(e, <<>>, e.commit, ClearComposing(e))
         /\ HasComposed(e, Front(e.syllable), e.commit, PopLastJamo(e))
<1>1. ClearComposing(e) = Composing(e, <<>>, e.commit)
  BY Half DEF ClearComposing
<1>2. PopLastJamo(e) = Composing(e, Front(e.syllable), e.commit)
  BY Half DEF PopLastJamo
<1>3. e.commit \in Seq(Key)
  BY Fields
<1>4. e.syllable \in Seq(Key)
  BY Fields
<1>5. Front(e.syllable) \in Seq(Key)
  BY <1>4, Shortened
<1>6. <<>> \in Seq(Key)
  OBVIOUS
<1>. QED BY <1>1, <1>2, <1>3, <1>5, <1>6, Composed

\* The keys of a chord typed one by one are composed in their order.
LEMMA OneByOneSays ==
  ASSUME NEW e \in Engine, NEW keys \in Seq(Key)
  PROVE  Says(e, JamoByJamo(e, keys), keys) /\ JamoByJamo(e, keys) \in Engine
<1>. DEFINE N == Len(keys)
            step == [n \in 1..N |-> [f \in Engine |-> ProcessJamo(f, keys[n])]]
            Fix(g) == g = [n \in 0..N |-> IF n = 0 THEN e ELSE ProcessJamo(g[n - 1], keys[n])]
            after == CHOOSE g : Fix(g)
<1>1. N \in Nat
  OBVIOUS
<1>2. \A n \in 1..N : keys[n] \in Key
  OBVIOUS
<1>3. step \in [1..N -> [Engine -> Engine]]
  <2>1. ASSUME NEW n \in 1..N, NEW f \in Engine PROVE ProcessJamo(f, keys[n]) \in Engine
    <3>1. keys[n] \in Key
      BY <1>2
    <3>. QED BY <3>1, JamoSays
  <2>. QED BY <2>1
<1>4. \A n \in 1..N, f \in Engine : step[n][f] = ProcessJamo(f, keys[n])
  OBVIOUS
<1>. HIDE DEF N, step
<1>5. PICK f : Computes(f, N, Engine, e, step)
  BY <1>1, <1>3, Iterates
<1>6. Fix(f)
  <2>1. \A n \in 1..N : f[n - 1] \in Engine /\ f[n] = step[n][f[n - 1]]
    BY <1>1, <1>5 DEF Computes
  <2>2. \A n \in 1..N : f[n] = ProcessJamo(f[n - 1], keys[n])
    BY <1>4, <2>1
  <2>3. f[0] = e /\ f \in [0..N -> Engine]
    BY <1>5 DEF Computes
  <2>4. \A n \in 0..N : n # 0 => n \in 1..N
    BY <1>1
  <2>. QED BY <2>2, <2>3, <2>4
<1>7. Fix(after)
  <2>. HIDE DEF Fix
  <2>. QED BY <1>6
<1>8. JamoByJamo(e, keys) = after[N]
  BY DEF JamoByJamo, N
<1>. HIDE DEF after
<1>9. after[0] = e /\ \A n \in 1..N : after[n] = ProcessJamo(after[n - 1], keys[n])
  <2>. DEFINE body(n) == IF n = 0 THEN e ELSE ProcessJamo(after[n - 1], keys[n])
  <2>1. after = [n \in 0..N |-> body(n)]
    BY <1>7
  <2>2. body(0) = e
    OBVIOUS
  <2>3. \A n \in 1..N : body(n) = ProcessJamo(after[n - 1], keys[n])
    BY <1>1
  <2>. HIDE DEF body, Fix
  <2>4. \A n \in 0..N : after[n] = body(n)
    BY <2>1
  <2>5. 0 \in 0..N /\ \A n \in 1..N : n \in 0..N
    BY <1>1
  <2>. QED BY <2>2, <2>3, <2>4, <2>5
<1>. HIDE DEF Fix
<1>. DEFINE Said(n) == after[n] \in Engine /\ Says(e, after[n], SubSeq(keys, 1, n))
<1>10. Said(0)
  <2>1. SubSeq(keys, 1, 0) = <<>>
    BY SubSeqEmpty
  <2>2. Words(e) \in Seq(Key)
    BY Fields
  <2>3. Words(e) \o <<>> = Words(e)
    BY <2>2, JoinedKeys
  <2>. QED BY <1>9, <2>1, <2>3 DEF Says, SamePreview, SameChord
<1>11. ASSUME NEW n \in Nat, n + 1 <= N, Said(n) PROVE Said(n + 1)
  <2>1. n + 1 \in 1..N /\ (n + 1) - 1 = n
    BY <1>1, <1>11
  <2>2. PICK g : g = after[n]
    OBVIOUS
  <2>3. PICK k : k = keys[n + 1]
    OBVIOUS
  <2>4. PICK s : s = SubSeq(keys, 1, n)
    OBVIOUS
  <2>5. PICK h : h = ProcessJamo(g, k)
    OBVIOUS
  <2>6. after[n + 1] = h
    BY <1>9, <2>1, <2>2, <2>3, <2>5
  <2>7. k \in Key
    BY <1>2, <2>1, <2>3
  <2>8. g \in Engine
    BY <1>11, <2>2
  <2>9. Says(g, h, <<k>>) /\ h \in Engine
    BY <2>5, <2>7, <2>8, JamoSays
  <2>10. Says(e, g, s)
    BY <1>11, <2>2, <2>4
  <2>11. SubSeq(keys, 1, n + 1) = s \o <<k>>
    <3>1. 1 \in 1..Len(keys) /\ n + 1 \in 1..Len(keys)
      BY <1>1, <2>1 DEF N
    <3>2. SubSeq(keys, 1, n + 1) = SubSeq(keys, 1, n) \o <<keys[n + 1]>>
      BY <2>1, <3>1, SubSeqRecursiveSecond
    <3>. QED BY <3>2, <2>3, <2>4
  <2>12. s \in Seq(Key)
    <3>1. \A i \in 1..n : keys[i] \in Key
      BY <1>1, <1>2, <2>1
    <3>. QED BY <2>4, <3>1, SubSeqProperties
  <2>13. <<k>> \in Seq(Key)
    BY <2>7
  <2>14. Words(e) \in Seq(Key)
    BY Fields
  <2>15. Words(h) = (Words(e) \o s) \o <<k>>
    BY <2>9, <2>10 DEF Says
  <2>16. Words(h) = Words(e) \o (s \o <<k>>)
    BY <2>12, <2>13, <2>14, <2>15, Regrouped
  <2>17. SamePreview(e, h)
    BY <2>9, <2>10 DEF Says, SamePreview, SameChord
  <2>. QED BY <2>6, <2>9, <2>11, <2>16, <2>17 DEF Says
<1>. HIDE DEF Said
<1>12. Said(N)
  <2>. DEFINE S == {m \in Nat : m <= N => Said(m)}
  <2>1. 0 \in S
    BY <1>10
  <2>2. ASSUME NEW n \in Nat, n \in S PROVE n + 1 \in S
    <3>1. n + 1 <= N => n <= N
      BY <1>1
    <3>. QED BY <1>11, <2>2, <3>1
  <2>. HIDE DEF S
  <2>3. \A n \in Nat : n \in S
    BY <2>1, <2>2, NatInduct
  <2>4. N \in S /\ N <= N
    BY <1>1, <2>3
  <2>. QED BY <2>4 DEF S
<1>13. SubSeq(keys, 1, N) = keys
  BY SubSeqFull DEF N
<1>. QED BY <1>8, <1>12, <1>13 DEF Said

\* Keys that are all jamo.
JamoOnly(keys) == \A i \in 1..Len(keys) : keys[i].kind \in Jamos

LEMMA NoSymbols ==
  ASSUME NEW keys \in Seq(Key), JamoOnly(keys)
  PROVE  OfKind(keys, {"symbol"}) = <<>>
<1>1. \A i \in 1..Len(keys) : keys[i] \notin [id: Nat, kind: {"symbol"}]
  BY DEF JamoOnly, Jamos
<1>. QED BY <1>1, AmongNone DEF OfKind

\* However a chord is composed, its keys are there once and in order, if they
\* are jamo; if not, the engine is still one, with the next chord in its buffer.
LEMMA ApplySays ==
  ASSUME NEW e \in Engine, NEW keys \in Seq(Key), keys # <<>>
  PROVE  /\ SamePreview(e, ApplyChordEntries(e, keys)) /\ ApplyChordEntries(e, keys) \in Engine
         /\ JamoOnly(keys) => Says(e, ApplyChordEntries(e, keys), keys)
<1>1. PICK f : f = ApplyChordEntries(e, keys)
  OBVIOUS
<1>2. Len(keys) \in Nat \ {0} /\ 1 \in 1..Len(keys)
  BY EmptySeq
<1>3. (Len(keys) = 1 \/ Len(keys) > 1) /\ ~(Len(keys) = 1 /\ Len(keys) > 1)
  <2>1. PICK n : n = Len(keys)
    OBVIOUS
  <2>2. n \in Nat
    BY <1>2, <2>1
  <2>3. n # 0
    BY <1>2, <2>1
  <2>. QED BY <2>1, <2>2, <2>3
<1>4. PICK k : k = keys[1]
  OBVIOUS
<1>5. k \in Key
  BY <1>2, <1>4
<1>6. CASE Len(keys) = 1
  <2>1. keys = <<k>>
    BY <1>4, <1>6
  <2>2. f \in {CommitCharacter(e, k), ProcessJamo(e, k)}
    BY <1>1, <1>4, <1>6 DEF ApplyChordEntries
  <2>3. Says(e, f, <<k>>) /\ f \in Engine
    BY <1>5, <2>2, JamoSays, CharacterSays
  <2>. QED BY <1>1, <2>1, <2>3 DEF Says
<1>7. CASE Len(keys) > 1 /\ Composes(keys)
  <2>1. f = InjectChord(FlushPreedit(e), keys)
    BY <1>1, <1>2, <1>7 DEF ApplyChordEntries
  <2>2. Says(e, f, keys)
    BY <2>1, OverSays
  <2>. QED BY <1>1, <2>2 DEF Says, SamePreview, SameChord
<1>8. CASE Len(keys) > 1 /\ ~Composes(keys) /\ OfKind(keys, {"symbol"}) = <<>>
  <2>1. f = JamoByJamo(e, keys)
    BY <1>1, <1>2, <1>8 DEF ApplyChordEntries
  <2>2. Says(e, f, keys) /\ f \in Engine
    BY <2>1, OneByOneSays
  <2>. QED BY <1>1, <2>2 DEF Says
<1>9. CASE Len(keys) > 1 /\ ~Composes(keys) /\ OfKind(keys, {"symbol"}) # <<>>
  <2>1. PICK h : h = FlushPreedit(e)
    OBVIOUS
  <2>2. SamePreview(e, h) /\ h \in Engine
    BY <2>1, FlushSays DEF Says
  <2>3. h.commit \in Seq(Key) /\ h.syllable \in Seq(Key)
    BY <2>2, Fields
  <2>4. OfKind(keys, Jamos) \in Seq(Key) /\ OfKind(keys, {"symbol"}) \in Seq(Key)
    BY AmongType DEF OfKind
  <2>5. PICK x : x = h.commit \o OfKind(keys, Jamos) \o OfKind(keys, {"symbol"})
    OBVIOUS
  <2>6. x \in Seq(Key)
    BY <2>3, <2>4, <2>5, JoinedKeys
  <2>7. f = [h EXCEPT !.commit = x]
    <3>. DEFINE rest == [FlushPreedit(e) EXCEPT !.commit = @ \o OfKind(keys, Jamos) \o OfKind(keys, {"symbol"})]
                one  == IF keys[1].kind = "symbol" THEN CommitCharacter(e, keys[1])
                        ELSE ProcessJamo(e, keys[1])
    <3>1. f = CASE Len(keys) = 1 -> one
                [] Len(keys) > 1 /\ Composes(keys) -> InjectChord(FlushPreedit(e), keys)
                [] Len(keys) > 1 /\ ~Composes(keys) /\ OfKind(keys, {"symbol"}) = <<>> ->
                     JamoByJamo(e, keys)
                [] OTHER -> rest
      BY <1>1 DEF ApplyChordEntries
    <3>2. rest = [h EXCEPT !.commit = x]
      BY <2>1, <2>5
    <3>3. Len(keys) # 1
      BY <1>9, <1>3
    <3>. HIDE DEF rest, one
    <3>4. f = rest
      BY <1>9, <3>1, <3>3
    <3>. QED BY <3>2, <3>4
  <2>8. f = Composing(h, h.syllable, x)
    BY <2>2, <2>7, Half
  <2>9. HasComposed(h, h.syllable, x, f)
    BY <2>2, <2>3, <2>6, <2>8, Composed
  <2>10. SamePreview(e, f) /\ f \in Engine
    BY <2>2, <2>9 DEF HasComposed, SamePreview, SameChord
  <2>. QED BY <1>1, <1>9, <2>10, NoSymbols
<1>10. \/ Len(keys) = 1
       \/ Len(keys) > 1 /\ Composes(keys)
       \/ Len(keys) > 1 /\ ~Composes(keys) /\ OfKind(keys, {"symbol"}) = <<>>
       \/ Len(keys) > 1 /\ ~Composes(keys) /\ OfKind(keys, {"symbol"}) # <<>>
  BY <1>3, Zenon
<1>. QED BY <1>6, <1>7, <1>8, <1>9, <1>10, Zenon

-----------------------------------------------------------------------------
(* The preview. *)

\* What e composes and previews when the chord so far is keys: the preview, if
\* there is one, is all of the syllable, or its last key.
PreviewOf(e, keys) ==
  /\ e.injected => keys # <<>>
  /\ e.atomic => e.injected /\ e.syllable = keys
  /\ e.injected /\ ~e.atomic =>
       Len(keys) = 1 /\ e.syllable # <<>> /\ Last(e.syllable) = keys[1]

\* The keys e has taken, when the chord so far is keys.
Taken(e, keys) == Words(e) \o (IF e.injected THEN <<>> ELSE keys)

\* The preview is taken off the composition.
Off(e) == IF e.atomic THEN ClearComposing(e) ELSE PopLastJamo(e)

\* What the preview has composed is what taking it off takes back.
LEMMA OffSays ==
  ASSUME NEW e \in Engine
  PROVE  /\ SamePreview(e, Off(e)) /\ Off(e) \in Engine
         /\ \A keys \in Seq(Key) :
              PreviewOf(e, keys) /\ e.injected => Words(e) = Words(Off(e)) \o keys
<1>1. PICK f : f = Off(e)
  OBVIOUS
<1>2. /\ SamePreview(e, f) /\ f \in Engine /\ f.commit = e.commit
      /\ f.syllable = IF e.atomic THEN <<>> ELSE Front(e.syllable)
  BY <1>1, TakenBack DEF Off, HasComposed
<1>3. ASSUME NEW keys \in Seq(Key), PreviewOf(e, keys), e.injected
      PROVE  Words(e) = Words(f) \o keys
  <2>1. PICK c : c = e.commit
    OBVIOUS
  <2>2. PICK s : s = e.syllable
    OBVIOUS
  <2>3. c \in Seq(Key)
    BY <2>1, Fields
  <2>4. s \in Seq(Key)
    BY <2>2, Fields
  <2>5. CASE e.atomic
    <3>1. f.syllable = <<>> /\ s = keys
      BY <1>2, <1>3, <2>2, <2>5 DEF PreviewOf
    <3>. QED BY <1>2, <2>1, <2>2, <2>3, <3>1, JoinedKeys DEF Words
  <2>6. CASE ~e.atomic
    <3>1. Len(keys) = 1 /\ s # <<>> /\ Last(s) = keys[1] /\ f.syllable = Front(s)
      BY <1>2, <1>3, <2>2, <2>6 DEF PreviewOf
    <3>2. keys = <<keys[1]>>
      BY <3>1
    <3>3. s = Front(s) \o keys
      BY <2>4, <3>1, <3>2, Shortened
    <3>4. Front(s) \in Seq(Key)
      BY <2>4, Shortened
    <3>5. (c \o Front(s)) \o keys = c \o (Front(s) \o keys)
      BY <2>3, <3>4, Regrouped
    <3>. QED BY <1>2, <2>1, <2>2, <3>1, <3>3, <3>5 DEF Words
  <2>. QED BY <2>5, <2>6
<1>. QED BY <1>1, <1>2, <1>3

\* What the preview is set to.
Marks(e, f, injected, atomic) ==
  /\ SameChord(e, f) /\ f.syllable = e.syllable /\ f.commit = e.commit
  /\ f.injected = injected /\ f.atomic = atomic

LEMMA Previewing ==
  ASSUME NEW e \in Engine, NEW atomic \in BOOLEAN
  PROVE  /\ Marks(e, Previewed(e, atomic), TRUE, atomic)
         /\ Marks(e, Unpreviewed(e), FALSE, FALSE)
BY DEF Previewed, Unpreviewed, Marks, SameChord, Engine, Text

\* An engine that is shown the chord so far is an engine with that chord.
LEMMA Shown ==
  ASSUME NEW e \in Engine, e.buffer # <<>>
  PROVE  SameChord(e, UpdateChordPreview(e)) /\ UpdateChordPreview(e) \in Engine
<1>. DEFINE keys   == e.buffer
            undone == IF e.injected /\ ~e.atomic THEN PopLastJamo(e) ELSE e
            under  == IF e.atomic THEN e ELSE FlushPreedit(undone)
            taken  == IF e.atomic THEN ClearComposing(e) ELSE undone
<1>1. keys \in Seq(Key) /\ keys # <<>>
  BY Fields
<1>2. 1 \in 1..Len(keys)
  BY <1>1, EmptySeq
<1>3. keys[1] \in Key
  BY <1>1, <1>2
<1>4. SameChord(e, e)
  BY DEF SameChord
<1>5. SameChord(e, undone)
  BY <1>4, TakenBack DEF HasComposed, SamePreview
<1>6. SameChord(e, FlushPreedit(undone))
  BY <1>5, FlushSays DEF Says, SamePreview, SameChord
<1>7. SameChord(e, under) /\ SameChord(e, taken)
  BY <1>4, <1>5, <1>6, TakenBack DEF HasComposed, SamePreview
<1>8. SameChord(e, CommitCharacter(e, keys[1])) /\ SameChord(e, ProcessJamo(e, keys[1]))
  BY <1>3, CharacterSays, JamoSays DEF Says, SamePreview
<1>9. SameChord(e, InjectChord(under, keys))
  BY <1>1, <1>7, InjectSays DEF HasComposed, SamePreview, SameChord
<1>10. ASSUME NEW f, SameChord(e, f), NEW atomic \in BOOLEAN
      PROVE  SameChord(e, Previewed(f, atomic)) /\ SameChord(e, Unpreviewed(f))
  BY <1>10, Previewing DEF Marks, SameChord
<1>11. UpdateChordPreview(e) \in
        {e, Unpreviewed(CommitCharacter(e, keys[1])), Previewed(ProcessJamo(e, keys[1]), FALSE),
         Previewed(InjectChord(under, keys), TRUE), Unpreviewed(taken)}
  BY DEF UpdateChordPreview
<1>. HIDE DEF keys, undone, under, taken
<1>12. SameChord(e, UpdateChordPreview(e))
  BY <1>4, <1>7, <1>8, <1>9, <1>10, <1>11
<1>. QED BY <1>12 DEF SameChord

\* After the preview is brought up to date with one jamo more, it is again that
\* of the chord so far, and the jamo is taken once: whether it is previewed as
\* it is, the chord becomes a syllable, or is one no longer.
LEMMA ShowNext ==
  ASSUME NEW e \in Engine, NEW b \in Seq(Key), NEW k \in Key, k.kind \in Jamos,
         e.buffer = Append(b, k), PreviewOf(e, b)
  PROVE  /\ PreviewOf(UpdateChordPreview(e), e.buffer)
         /\ Taken(UpdateChordPreview(e), e.buffer) = Taken(e, b) \o <<k>>
<1>1. PICK h : h = UpdateChordPreview(e)
  OBVIOUS
<1>2. PICK keys : keys = Append(b, k)
  OBVIOUS
<1>3. /\ keys \in Seq(Key) /\ keys = b \o <<k>> /\ keys # <<>> /\ Len(keys) = Len(b) + 1
      /\ (b = <<>> => keys = <<k>>) /\ <<k>> \in Seq(Key)
  BY <1>2, Added
<1>4. k.kind # "symbol"
  BY DEF Jamos
<1>5. PICK w : w = Words(e)
  OBVIOUS
<1>6. w \in Seq(Key)
  BY <1>5, Fields
<1>7. CASE b = <<>>
  <2>1. ~e.injected /\ ~e.atomic
    BY <1>7 DEF PreviewOf
  <2>2. PICK g : g = ProcessJamo(e, k)
    OBVIOUS
  <2>3. g \in Engine /\ Words(g) = w \o <<k>> /\ g.syllable # <<>> /\ Last(g.syllable) = k
    BY <1>5, <2>2, JamoSays DEF Says
  <2>4. keys = <<k>> /\ Len(keys) = 1 /\ keys[1] = k
    BY <1>3, <1>7
  <2>5. h = Previewed(g, FALSE)
    BY <1>1, <1>2, <1>4, <2>2, <2>4 DEF UpdateChordPreview
  <2>6. h.syllable = g.syllable /\ h.commit = g.commit /\ h.injected = TRUE /\ h.atomic = FALSE
    BY <2>3, <2>5, Previewing DEF Marks
  <2>7. PreviewOf(h, keys)
    BY <1>3, <2>3, <2>4, <2>6 DEF PreviewOf
  <2>8. Taken(h, keys) = (w \o <<k>>) \o <<>>
    BY <2>3, <2>6 DEF Taken, Words
  <2>9. (w \o <<k>>) \in Seq(Key)
    BY <1>3, <1>6, JoinedKeys
  <2>10. Taken(h, keys) = w \o <<k>>
    BY <2>8, <2>9, JoinedKeys
  <2>11. Taken(e, b) = w
    BY <1>5, <1>6, <1>7, <2>1, JoinedKeys DEF Taken
  <2>. QED BY <1>1, <1>2, <2>7, <2>10, <2>11
<1>8. CASE b # <<>>
  <2>1. Len(keys) > 1
    BY <1>3, <1>8, EmptySeq
  <2>. DEFINE off == Off(e)
  <2>2. /\ SamePreview(e, off) /\ off \in Engine
        /\ e.injected => w = Words(off) \o b
    BY <1>5, OffSays
  <2>. HIDE DEF off
  <2>3. ASSUME NEW x \in Seq(Key), Taken(e, b) = x \o b, Taken(h, keys) = x \o keys
        PROVE  Taken(h, keys) = Taken(e, b) \o <<k>>
    <3>1. <<k>> \in Seq(Key)
      BY <1>3
    <3>2. (x \o b) \o <<k>> = x \o (b \o <<k>>)
      BY <3>1, Regrouped
    <3>. QED BY <1>3, <2>3, <3>2
  <2>4. Taken(e, b) = IF e.injected THEN w ELSE w \o b
    BY <1>5, <1>6, JoinedKeys DEF Taken
  <2>. DEFINE undone == IF e.injected /\ ~e.atomic THEN PopLastJamo(e) ELSE e
              under  == IF e.atomic THEN e ELSE FlushPreedit(undone)
              shown  == Previewed(InjectChord(under, keys), TRUE)
              back   == Unpreviewed(IF e.atomic THEN ClearComposing(e) ELSE undone)
              first  == Unpreviewed(CommitCharacter(e, keys[1]))
              second == Previewed(ProcessJamo(e, keys[1]), FALSE)
  <2>5. h = CASE Len(keys) = 1 /\ keys[1].kind = "symbol" -> first
              [] Len(keys) = 1 /\ keys[1].kind # "symbol" -> second
              [] Len(keys) > 1 /\ Composes(keys) -> shown
              [] Len(keys) > 1 /\ ~Composes(keys) /\ e.injected -> back
              [] OTHER -> e
    BY <1>1, <1>2 DEF UpdateChordPreview
  <2>6. e.injected => back = Unpreviewed(off)
    BY DEF off, Off
  <2>7. Len(keys) # 1 /\ e.injected \in BOOLEAN
    BY <1>3, <2>1, Fields
  <2>. HIDE DEF shown, back, first, second
  <2>8. /\ Composes(keys) => h = shown
        /\ ~Composes(keys) /\ e.injected => h = back
        /\ ~Composes(keys) /\ ~e.injected => h = e
    BY <2>1, <2>5, <2>7
  <2>9. CASE Composes(keys)
    <3>1. h = Previewed(InjectChord(under, keys), TRUE)
      BY <2>9, <2>8 DEF shown
    <3>2. PICK x \in Seq(Key) : under \in Engine /\ under.commit = x /\ Taken(e, b) = x \o b
      <4>1. CASE e.atomic
        <5>1. e.injected /\ e.syllable = b
          BY <4>1 DEF PreviewOf
        <5>2. w = e.commit \o b /\ Taken(e, b) = w /\ e.commit \in Seq(Key)
          BY <1>5, <2>4, <5>1, Fields DEF Words
        <5>. QED BY <4>1, <5>2
      <4>2. CASE ~e.atomic /\ e.injected
        <5>1. off = PopLastJamo(e) /\ under = FlushPreedit(off)
          BY <4>2 DEF off, Off
        <5>2. under \in Engine /\ under.commit = Words(off)
          BY <2>2, <5>1, FlushSays
        <5>3. Words(off) \in Seq(Key)
          BY <2>2, Fields
        <5>4. Taken(e, b) = Words(off) \o b
          BY <2>2, <2>4, <4>2
        <5>. QED BY <5>2, <5>3, <5>4
      <4>3. CASE ~e.atomic /\ ~e.injected
        <5>1. under = FlushPreedit(e)
          BY <4>3
        <5>2. under \in Engine /\ under.commit = w
          BY <1>5, <5>1, FlushSays
        <5>3. Taken(e, b) = w \o b
          BY <2>4, <4>3
        <5>. QED BY <1>6, <5>2, <5>3
      <4>. QED BY <4>1, <4>2, <4>3
    <3>. HIDE DEF undone, under
    <3>3. PICK g : g = InjectChord(under, keys)
      OBVIOUS
    <3>4. g \in Engine /\ g.syllable = keys /\ g.commit = x
      BY <1>3, <3>2, <3>3, InjectSays DEF HasComposed
    <3>5. h.syllable = keys /\ h.commit = x /\ h.injected = TRUE /\ h.atomic = TRUE
      BY <3>1, <3>3, <3>4, Previewing DEF Marks
    <3>6. PreviewOf(h, keys)
      BY <1>3, <3>5 DEF PreviewOf
    <3>7. x \o keys \in Seq(Key)
      BY <1>3, <3>2, JoinedKeys
    <3>8. Taken(h, keys) = x \o keys
      BY <3>5, <3>7, JoinedKeys DEF Taken, Words
    <3>. QED BY <1>1, <1>2, <2>3, <3>2, <3>6, <3>8
  <2>10. CASE ~Composes(keys) /\ e.injected
    <3>1. h = Unpreviewed(off)
      BY <2>10, <2>6, <2>8
    <3>2. h.syllable = off.syllable /\ h.commit = off.commit /\ h.injected = FALSE /\ h.atomic = FALSE
      BY <2>2, <3>1, Previewing DEF Marks
    <3>3. PreviewOf(h, keys) /\ Taken(h, keys) = Words(off) \o keys
      BY <3>2 DEF PreviewOf, Taken, Words
    <3>4. Taken(e, b) = Words(off) \o b
      BY <2>2, <2>4, <2>10
    <3>5. Words(off) \in Seq(Key)
      BY <2>2, Fields
    <3>. QED BY <1>1, <1>2, <2>3, <3>3, <3>4, <3>5
  <2>11. CASE ~Composes(keys) /\ ~e.injected
    <3>1. h = e
      BY <2>11, <2>8
    <3>2. PreviewOf(h, keys) /\ Taken(h, keys) = w \o keys
      BY <1>5, <2>11, <3>1 DEF PreviewOf, Taken
    <3>. QED BY <1>1, <1>2, <1>6, <2>3, <2>4, <2>11, <3>2
  <2>. QED BY <2>9, <2>10, <2>11
<1>. QED BY <1>7, <1>8

-----------------------------------------------------------------------------
(* The buffer. *)

\* f has the composition of e, nothing previewed, these keys, and the next epoch.
Begins(e, f, keys) ==
  /\ f \in Engine /\ f.buffer = keys /\ f.epoch = e.epoch + 1
  /\ f.injected = FALSE /\ f.atomic = FALSE
  /\ f.syllable = e.syllable /\ f.commit = e.commit

LEMMA Begun ==
  ASSUME NEW e \in Engine, NEW keys, keys \in Seq(Key)
  PROVE  Begins(e, NewEpoch(e, keys), keys)
<1>1. e.epoch + 1 \in Nat
  BY Fields
<1>2. PICK n \in Nat : n = e.epoch + 1
  BY <1>1
<1>3. PICK f : f = [e EXCEPT !.buffer = keys, !.epoch = n]
  OBVIOUS
<1>4. /\ f \in Engine /\ f.buffer = keys /\ f.epoch = n
      /\ f.syllable = e.syllable /\ f.commit = e.commit
  BY <1>3 DEF Engine, Text
<1>5. NewEpoch(e, keys) = Unpreviewed(f)
  BY <1>2, <1>3 DEF NewEpoch, Unpreviewed
<1>6. Marks(f, Unpreviewed(f), FALSE, FALSE)
  BY <1>4, Previewing
<1>. QED BY <1>2, <1>4, <1>5, <1>6 DEF Begins, Marks, SameChord

\* f comes after e: a chord that is pending in both within one epoch is the same.
Later(e, f) ==
  /\ f \in Engine /\ e.epoch <= f.epoch
  /\ f.epoch = e.epoch /\ f.buffer # <<>> => e.buffer # <<>> /\ f.buffer[1] = e.buffer[1]

LEMMA LaterTrans ==
  ASSUME NEW e \in Engine, NEW f, NEW g, Later(e, f), Later(f, g)
  PROVE  Later(e, g)
<1>1. e.epoch \in Nat /\ f.epoch \in Nat /\ g.epoch \in Nat
  BY Fields DEF Later
<1>. QED BY <1>1 DEF Later

LEMMA SameLater ==
  ASSUME NEW e \in Engine, NEW f, SameChord(e, f)
  PROVE  Later(e, f)
<1>1. e.epoch \in Nat
  BY Fields
<1>. QED BY <1>1 DEF Later, SameChord

LEMMA BeginsLater ==
  ASSUME NEW e \in Engine, NEW f, NEW keys, Begins(e, f, keys)
  PROVE  Later(e, f)
<1>1. e.epoch \in Nat
  BY Fields
<1>. QED BY <1>1 DEF Later, Begins

\* The key begins a chord, joins it, or ends it with or without being of it.
Joins(e, k, f) ==
  /\ e.buffer # <<>> /\ f \in Engine
  /\ f.buffer = Append(e.buffer, k) /\ f.epoch = e.epoch
  /\ f.injected = e.injected /\ f.atomic = e.atomic
  /\ f.syllable = e.syllable /\ f.commit = e.commit

Pushes(e, k, expired, f, flushed) ==
  \/ expired /\ Begins(e, f, <<k>>) /\ flushed = e.buffer
  \/ Begins(e, f, <<>>) /\ flushed = Append(e.buffer, k)
  \/ e.buffer = <<>> /\ Begins(e, f, <<k>>) /\ flushed = <<>>
  \/ Joins(e, k, f) /\ flushed = <<>>

\* The four outcomes of push_inner, and the limit of the buffer.
LEMMA Pushed ==
  ASSUME NEW e \in Engine, NEW k \in Key, NEW expired \in BOOLEAN, Len(e.buffer) <= ChordBufferMax
  PROVE  /\ Pushes(e, k, expired, Push(e, k, expired).engine, Push(e, k, expired).flushed)
         /\ Len(Push(e, k, expired).engine.buffer) <= ChordBufferMax
<1>1. PICK p : p = Push(e, k, expired)
  OBVIOUS
<1>2. PICK b : b = e.buffer
  OBVIOUS
<1>3. b \in Seq(Key)
  BY <1>2, Fields
<1>4. <<k>> \in Seq(Key) /\ Append(b, k) \in Seq(Key) /\ Len(Append(b, k)) = Len(b) + 1 /\ Len(b) \in Nat
  BY <1>3, Added
<1>5. ChordBufferMax \in Nat /\ ChordBufferMax >= 1
  BY ChordAssumption
<1>6. <<>> \in Seq(Key) /\ Len(<<>>) = 0 /\ Len(<<k>>) = 1
  OBVIOUS
<1>7. Begins(e, NewEpoch(e, <<k>>), <<k>>) /\ Begins(e, NewEpoch(e, <<>>), <<>>)
  BY <1>4, <1>6, Begun
<1>8. CASE expired
  <2>1. p.engine = NewEpoch(e, <<k>>) /\ p.flushed = e.buffer
    BY <1>1, <1>8 DEF Push
  <2>2. Len(p.engine.buffer) = 1
    BY <1>6, <1>7, <2>1 DEF Begins
  <2>. QED BY <1>1, <1>5, <1>7, <1>8, <2>1, <2>2 DEF Pushes
<1>9. CASE ~expired /\ Len(e.buffer) >= ChordBufferMax
  <2>1. p.engine = NewEpoch(e, <<>>) /\ p.flushed = Append(e.buffer, k)
    BY <1>1, <1>9 DEF Push
  <2>2. Len(p.engine.buffer) = 0
    BY <1>6, <1>7, <2>1 DEF Begins
  <2>. QED BY <1>1, <1>5, <1>7, <2>1, <2>2 DEF Pushes
<1>10. CASE ~expired /\ ~(Len(e.buffer) >= ChordBufferMax) /\ e.buffer = <<>>
  <2>1. p.engine = NewEpoch(e, <<k>>) /\ p.flushed = <<>>
    BY <1>1, <1>10 DEF Push
  <2>2. Len(p.engine.buffer) = 1
    BY <1>6, <1>7, <2>1 DEF Begins
  <2>. QED BY <1>1, <1>5, <1>7, <1>10, <2>1, <2>2 DEF Pushes
<1>11. CASE ~expired /\ ~(Len(e.buffer) >= ChordBufferMax) /\ e.buffer # <<>>
  <2>1. PICK x : x = Append(b, k)
    OBVIOUS
  <2>2. x \in Seq(Key)
    BY <1>4, <2>1
  <2>3. PICK f : f = [e EXCEPT !.buffer = x]
    OBVIOUS
  <2>4. p.engine = f /\ p.flushed = <<>>
    BY <1>1, <1>2, <1>11, <2>1, <2>3 DEF Push
  <2>5. /\ f \in Engine /\ f.buffer = x /\ f.epoch = e.epoch /\ f.injected = e.injected
        /\ f.atomic = e.atomic /\ f.syllable = e.syllable /\ f.commit = e.commit
    BY <2>2, <2>3 DEF Engine, Text
  <2>6. Joins(e, k, f)
    BY <1>2, <1>11, <2>1, <2>3, <2>5 DEF Joins
  <2>7. Len(x) <= ChordBufferMax
    BY <1>2, <1>4, <1>5, <1>11, <2>1
  <2>. QED BY <1>1, <2>4, <2>5, <2>6, <2>7 DEF Pushes
<1>. QED BY <1>8, <1>9, <1>10, <1>11

LEMMA JoinsLater ==
  ASSUME NEW e \in Engine, NEW k \in Key, NEW f, Joins(e, k, f)
  PROVE  Later(e, f)
<1>1. e.buffer \in Seq(Key) /\ e.buffer # <<>> /\ e.epoch \in Nat
  BY Fields DEF Joins
<1>2. 1 \in 1..Len(e.buffer)
  BY <1>1, EmptySeq
<1>3. Append(e.buffer, k)[1] = e.buffer[1]
  BY <1>1, <1>2, AppendProperties
<1>. QED BY <1>1, <1>3 DEF Later, Joins

\* What a key that is pressed as a character does.
Kept(e, h) == h \in Engine /\ Len(h.buffer) <= ChordBufferMax /\ Later(e, h)

Right(e) == PreviewOf(e, e.buffer) /\ JamoOnly(e.buffer)

Takes(e, h, keys) == Right(h) /\ Taken(h, h.buffer) = Taken(e, e.buffer) \o keys

\* With nothing previewed and no chord, what is composed is what was taken.
LEMMA NothingTaken ==
  ASSUME NEW e \in Engine, ~e.injected, ~e.atomic
  PROVE  PreviewOf(e, <<>>) /\ Taken(e, <<>>) = Words(e)
<1>1. Words(e) \in Seq(Key)
  BY Fields
<1>. QED BY <1>1, JoinedKeys DEF PreviewOf, Taken

\* The chord is the key alone.
LEMMA OneKey ==
  ASSUME NEW e \in Engine, NEW k \in Key, e.buffer = <<k>>, ~e.injected, ~e.atomic
  PROVE  /\ SameChord(e, UpdateChordPreview(e))
         /\ k.kind \in Jamos => /\ Right(UpdateChordPreview(e))
                                /\ Taken(UpdateChordPreview(e), <<k>>) = Words(e) \o <<k>>
<1>1. <<k>> # <<>> /\ <<k>> = Append(<<>>, k) /\ <<>> \in Seq(Key) /\ Len(<<k>>) = 1 /\ <<k>>[1] = k
  OBVIOUS
<1>2. PICK h : h = UpdateChordPreview(e)
  OBVIOUS
<1>3. SameChord(e, h)
  BY <1>1, <1>2, Shown
<1>4. PreviewOf(e, <<>>) /\ Taken(e, <<>>) = Words(e)
  BY NothingTaken
<1>5. ASSUME k.kind \in Jamos
      PROVE  Right(h) /\ Taken(h, <<k>>) = Words(e) \o <<k>>
  <2>1. e.buffer = Append(<<>>, k)
    BY <1>1
  <2>2. <<>> \in Seq(Key)
    BY <1>1
  <2>3. PreviewOf(h, e.buffer) /\ Taken(h, e.buffer) = Taken(e, <<>>) \o <<k>>
    BY <1>2, <1>4, <1>5, <2>1, <2>2, ShowNext
  <2>4. JamoOnly(<<k>>)
    BY <1>1, <1>5 DEF JamoOnly
  <2>. QED BY <1>3, <1>4, <2>3, <2>4 DEF Right, SameChord
<1>. QED BY <1>2, <1>3, <1>5

\* A character key joins what was taken, once, whether it begins a chord, joins it,
\* ends an expired one or fills the buffer up.
LEMMA PressSays ==
  ASSUME NEW e \in Engine, NEW k \in Key, NEW expired \in BOOLEAN, expired => e.buffer # <<>>,
         Len(e.buffer) <= ChordBufferMax
  PROVE  /\ Kept(e, PressCharacter(e, k, expired))
         /\ Right(e) /\ k.kind \in Jamos => Takes(e, PressCharacter(e, k, expired), <<k>>)
<1>. DEFINE push    == Push(e, k, expired)
            f       == push.engine
            flushed == push.flushed
            begun   == f.buffer # <<>>
            undone  == IF e.atomic THEN ClearComposing(f) ELSE PopLastJamo(f)
            ended   == CASE flushed = <<>> \/ (e.injected /\ begun) -> f
                         [] flushed # <<>> /\ e.injected /\ ~begun -> ApplyChordEntries(undone, flushed)
                         [] OTHER -> ApplyChordEntries(f, flushed)
<1>1. PICK h : h = PressCharacter(e, k, expired)
  OBVIOUS
<1>2. h = IF begun THEN UpdateChordPreview(ended) ELSE ended
  BY <1>1 DEF PressCharacter
<1>3. Pushes(e, k, expired, f, flushed) /\ Len(f.buffer) <= ChordBufferMax
  BY Pushed
<1>. HIDE DEF push, f, flushed
<1>4. PICK b : b = e.buffer
  OBVIOUS
<1>5. b \in Seq(Key)
  BY <1>4, Fields
<1>6. /\ <<k>> \in Seq(Key) /\ <<k>> # <<>> /\ Append(b, k) \in Seq(Key) /\ Append(b, k) # <<>>
      /\ Append(b, k) = b \o <<k>>
  BY <1>5, Added
<1>7. PICK w : w = Words(e)
  OBVIOUS
<1>8. w \in Seq(Key)
  BY <1>7, Fields
<1>9. Taken(e, b) = IF e.injected THEN w ELSE w \o b
  BY <1>7, <1>8, JoinedKeys DEF Taken
<1>10. CASE expired /\ Begins(e, f, <<k>>) /\ flushed = e.buffer
  <2>1. f \in Engine /\ f.buffer = <<k>> /\ ~f.injected /\ ~f.atomic /\ Words(f) = w
    BY <1>7, <1>10 DEF Begins, Words
  <2>2. ended = IF e.injected THEN f ELSE ApplyChordEntries(f, b)
    BY <1>4, <1>6, <1>10, <2>1
  <2>. HIDE DEF ended
  <2>3. b # <<>>
    BY <1>4, <1>10
  <2>4. /\ SamePreview(f, ApplyChordEntries(f, b)) /\ ApplyChordEntries(f, b) \in Engine
        /\ JamoOnly(b) => Words(ApplyChordEntries(f, b)) = w \o b
    BY <1>5, <2>1, <2>3, ApplySays DEF Says
  <2>5. /\ ended \in Engine /\ ended.buffer = <<k>> /\ ~ended.injected /\ ~ended.atomic
        /\ ended.epoch = f.epoch
    BY <2>1, <2>2, <2>4 DEF SamePreview, SameChord
  <2>6. JamoOnly(b) => Words(ended) = Taken(e, b)
    BY <1>9, <2>1, <2>2, <2>4
  <2>7. h = UpdateChordPreview(ended)
    BY <1>2, <1>6, <2>1
  <2>8. /\ SameChord(ended, h)
        /\ k.kind \in Jamos => Right(h) /\ Taken(h, <<k>>) = Words(ended) \o <<k>>
    BY <2>5, <2>7, OneKey
  <2>9. SameChord(f, h) /\ h.buffer = <<k>>
    BY <2>1, <2>5, <2>8 DEF SameChord
  <2>10. Kept(e, h)
    BY <1>3, <1>10, <2>1, <2>9, BeginsLater, SameLater, LaterTrans DEF Kept, SameChord
  <2>11. Right(e) /\ k.kind \in Jamos => Takes(e, h, <<k>>)
    BY <1>4, <2>6, <2>8, <2>9 DEF Right, Takes
  <2>. QED BY <1>1, <2>10, <2>11
<1>11. CASE Begins(e, f, <<>>) /\ flushed = Append(e.buffer, k)
  <2>1. /\ f \in Engine /\ f.buffer = <<>> /\ ~f.injected /\ ~f.atomic /\ Words(f) = w
        /\ f.syllable = e.syllable /\ f.commit = e.commit
    BY <1>7, <1>11 DEF Begins, Words
  <2>2. PICK keys : keys = Append(b, k)
    OBVIOUS
  <2>3. flushed = keys /\ keys # <<>>
    BY <1>4, <1>6, <1>11, <2>2
  <2>4. keys \in Seq(Key)
    BY <1>6, <2>2
  <2>5. h = IF e.injected THEN ApplyChordEntries(undone, keys) ELSE ApplyChordEntries(f, keys)
    BY <1>2, <2>1, <2>3
  <2>6. /\ SamePreview(f, undone) /\ undone \in Engine /\ Words(undone) = Words(Off(e))
    <3>1. /\ HasComposed(f, <<>>, f.commit, ClearComposing(f))
          /\ HasComposed(f, Front(f.syllable), f.commit, PopLastJamo(f))
      BY <2>1, TakenBack
    <3>2. /\ HasComposed(e, <<>>, e.commit, ClearComposing(e))
          /\ HasComposed(e, Front(e.syllable), e.commit, PopLastJamo(e))
      BY TakenBack
    <3>. QED BY <2>1, <3>1, <3>2 DEF HasComposed, Words, Off
  <2>. HIDE DEF undone
  <2>7. PICK base : base = IF e.injected THEN undone ELSE f
    OBVIOUS
  <2>8. h = ApplyChordEntries(base, keys) /\ base \in Engine /\ SamePreview(f, base)
    BY <2>1, <2>5, <2>6, <2>7 DEF SamePreview, SameChord
  <2>9. /\ SamePreview(base, h) /\ h \in Engine
        /\ JamoOnly(keys) => Words(h) = Words(base) \o keys
    BY <2>3, <2>4, <2>8, ApplySays DEF Says
  <2>10. SameChord(f, h) /\ h.buffer = <<>> /\ ~h.injected /\ ~h.atomic
    BY <2>1, <2>8, <2>9 DEF SamePreview, SameChord
  <2>11. Kept(e, h)
    BY <1>3, <1>11, <2>1, <2>10, BeginsLater, SameLater, LaterTrans DEF Kept, SameChord
  <2>12. ASSUME Right(e), k.kind \in Jamos PROVE Takes(e, h, <<k>>)
    <3>1. JamoOnly(keys)
      <4>1. /\ Len(keys) = Len(b) + 1 /\ \A i \in 1..Len(b) : keys[i] = b[i]
            /\ keys[Len(b) + 1] = k /\ Len(b) \in Nat
        BY <1>5, <2>2, AppendProperties
      <4>2. \A i \in 1..Len(b) : b[i].kind \in Jamos
        BY <1>4, <2>12 DEF Right, JamoOnly
      <4>3. \A i \in 1..Len(keys) : i \in 1..Len(b) \/ i = Len(b) + 1
        BY <4>1
      <4>. QED BY <2>12, <4>1, <4>2, <4>3 DEF JamoOnly
    <3>2. Words(base) \o b = Taken(e, b)
      <4>1. e.injected => w = Words(Off(e)) \o b
        BY <1>4, <1>5, <1>7, <2>12, OffSays DEF Right
      <4>. QED BY <1>9, <2>1, <2>6, <2>7, <4>1
    <3>3. Words(base) \in Seq(Key)
      BY <2>8, Fields
    <3>4. <<k>> \in Seq(Key)
      BY <1>6
    <3>5. (Words(base) \o b) \o <<k>> = Words(base) \o (b \o <<k>>)
      BY <1>5, <3>3, <3>4, Regrouped
    <3>6. Words(h) = Taken(e, b) \o <<k>>
      BY <1>6, <2>2, <2>9, <3>1, <3>2, <3>5
    <3>7. PreviewOf(h, <<>>) /\ Taken(h, <<>>) = Words(h)
      BY <2>9, <2>10, NothingTaken
    <3>8. JamoOnly(<<>>)
      BY DEF JamoOnly
    <3>. QED BY <1>4, <2>10, <3>6, <3>7, <3>8 DEF Takes, Right
  <2>. QED BY <1>1, <2>11, <2>12
<1>12. CASE e.buffer = <<>> /\ Begins(e, f, <<k>>) /\ flushed = <<>>
  <2>1. f \in Engine /\ f.buffer = <<k>> /\ ~f.injected /\ ~f.atomic /\ Words(f) = w
    BY <1>7, <1>12 DEF Begins, Words
  <2>2. h = UpdateChordPreview(f)
    BY <1>2, <1>6, <1>12, <2>1
  <2>3. /\ SameChord(f, h)
        /\ k.kind \in Jamos => Right(h) /\ Taken(h, <<k>>) = Words(f) \o <<k>>
    BY <2>1, <2>2, OneKey
  <2>4. h.buffer = <<k>>
    BY <2>1, <2>3 DEF SameChord
  <2>5. Kept(e, h)
    BY <1>3, <1>12, <2>1, <2>3, BeginsLater, SameLater, LaterTrans DEF Kept, SameChord
  <2>6. Taken(e, b) = w
    BY <1>4, <1>8, <1>9, <1>12, JoinedKeys
  <2>. QED BY <1>1, <1>4, <2>1, <2>3, <2>4, <2>5, <2>6 DEF Takes
<1>13. CASE Joins(e, k, f) /\ flushed = <<>>
  <2>1. /\ f \in Engine /\ f.buffer = Append(b, k) /\ b # <<>>
        /\ f.injected = e.injected /\ f.atomic = e.atomic
        /\ f.syllable = e.syllable /\ f.commit = e.commit
    BY <1>4, <1>13 DEF Joins
  <2>2. h = UpdateChordPreview(f)
    BY <1>2, <1>6, <1>13, <2>1
  <2>3. SameChord(f, h)
    BY <1>6, <2>1, <2>2, Shown
  <2>4. Kept(e, h)
    BY <1>3, <1>13, <2>1, <2>3, JoinsLater, SameLater, LaterTrans DEF Kept, SameChord
  <2>5. ASSUME Right(e), k.kind \in Jamos PROVE Takes(e, h, <<k>>)
    <3>1. PreviewOf(f, b) /\ Taken(f, b) = Taken(e, b)
      BY <1>4, <2>1, <2>5 DEF Right, PreviewOf, Taken, Words
    <3>2. PreviewOf(h, f.buffer) /\ Taken(h, f.buffer) = Taken(f, b) \o <<k>>
      BY <1>5, <2>1, <2>2, <2>5, <3>1, ShowNext
    <3>3. JamoOnly(f.buffer)
      <4>1. /\ Len(f.buffer) = Len(b) + 1 /\ \A i \in 1..Len(b) : f.buffer[i] = b[i]
            /\ f.buffer[Len(b) + 1] = k /\ Len(b) \in Nat
        BY <1>5, <2>1, AppendProperties
      <4>2. \A i \in 1..Len(b) : b[i].kind \in Jamos
        BY <1>4, <2>5 DEF Right, JamoOnly
      <4>3. \A i \in 1..Len(f.buffer) : i \in 1..Len(b) \/ i = Len(b) + 1
        BY <4>1
      <4>. QED BY <2>5, <4>1, <4>2, <4>3 DEF JamoOnly
    <3>. QED BY <1>4, <2>3, <3>1, <3>2, <3>3 DEF Takes, Right, SameChord
  <2>. QED BY <1>1, <2>4, <2>5
<1>. QED BY <1>3, <1>10, <1>11, <1>12, <1>13 DEF Pushes

-----------------------------------------------------------------------------
(* The keys that end a chord. *)

\* f comes after e, and has no chord.
Ends(e, f) ==
  f \in Engine /\ Later(e, f) /\ f.buffer = <<>> /\ ~f.injected /\ ~f.atomic

\* The engine without a chord has the preview of none.
LEMMA AtRest ==
  ASSUME NEW f \in Engine, f.buffer = <<>>, ~f.injected, ~f.atomic
  PROVE  Right(f) /\ Taken(f, f.buffer) = Words(f)
<1>1. JamoOnly(<<>>)
  BY DEF JamoOnly
<1>. QED BY <1>1, NothingTaken DEF Right

LEMMA CleanNext ==
  ASSUME NEW e \in Engine, NEW f, NEW g \in Engine, Ends(e, f), SamePreview(f, g)
  PROVE  Ends(e, g)
<1>1. SameChord(f, g) /\ f \in Engine /\ Later(e, f)
  BY DEF Ends, SamePreview
<1>2. Later(f, g)
  BY <1>1, SameLater
<1>3. Later(e, g)
  BY <1>1, <1>2, LaterTrans
<1>. QED BY <1>3 DEF Ends, SamePreview, SameChord

\* The chord is dropped, and what is composed stays.
LEMMA FlushedEnds ==
  ASSUME NEW e \in Engine
  PROVE  /\ Ends(e, ForceFlush(e)) /\ Ends(e, ClearChord(e))
         /\ Words(ForceFlush(e)) = Words(e) /\ Words(ClearChord(e)) = Words(e)
         /\ ForceFlush(e).syllable = e.syllable
<1>1. PICK g : g = NewEpoch(e, <<>>)
  OBVIOUS
<1>2. <<>> \in Seq(Key)
  OBVIOUS
<1>3. Begins(e, g, <<>>)
  BY <1>1, <1>2, Begun
<1>4. Later(e, g)
  BY <1>3, BeginsLater
<1>5. Ends(e, g) /\ Words(g) = Words(e) /\ g.syllable = e.syllable
  BY <1>3, <1>4 DEF Ends, Begins, Words
<1>6. PICK u : u = Unpreviewed(e)
  OBVIOUS
<1>7. Marks(e, u, FALSE, FALSE)
  BY <1>6, Previewing
<1>8. Later(e, u)
  BY <1>7, SameLater DEF Marks
<1>9. ForceFlush(e) = IF e.buffer = <<>> THEN u ELSE g
  BY <1>1, <1>6 DEF ForceFlush, Unpreviewed
<1>10. ClearChord(e) = g
  BY <1>1 DEF ClearChord
<1>11. e.buffer = <<>> => Ends(e, u) /\ Words(u) = Words(e) /\ u.syllable = e.syllable
  BY <1>7, <1>8 DEF Marks, SameChord, Ends, Words
<1>. QED BY <1>5, <1>9, <1>10, <1>11

\* The chord is composed when it ends, by the preview or by its end.
LEMMA FinalizeSays ==
  ASSUME NEW e \in Engine
  PROVE  /\ Ends(e, FinalizeChordBuffer(e))
         /\ Right(e) => Words(FinalizeChordBuffer(e)) = Taken(e, e.buffer)
<1>1. PICK f : f = FinalizeChordBuffer(e)
  OBVIOUS
<1>2. PICK g : g = ForceFlush(e)
  OBVIOUS
<1>3. Ends(e, g) /\ Words(g) = Words(e)
  BY <1>2, FlushedEnds
<1>4. PICK b : b = e.buffer
  OBVIOUS
<1>5. b \in Seq(Key)
  BY <1>4, Fields
<1>6. Words(e) \in Seq(Key)
  BY Fields
<1>7. CASE e.injected \/ b = <<>>
  <2>1. f = g
    BY <1>1, <1>2, <1>4, <1>7 DEF FinalizeChordBuffer
  <2>2. Taken(e, b) = Words(e)
    BY <1>6, <1>7, JoinedKeys DEF Taken
  <2>. QED BY <1>1, <1>3, <1>4, <2>1, <2>2
<1>8. CASE ~(e.injected \/ b = <<>>)
  <2>1. f = ApplyChordEntries(g, b)
    BY <1>1, <1>2, <1>4, <1>8 DEF FinalizeChordBuffer
  <2>2. g \in Engine
    BY <1>3 DEF Ends
  <2>3. /\ SamePreview(g, f) /\ f \in Engine
        /\ JamoOnly(b) => Words(f) = Words(g) \o b
    BY <1>5, <1>8, <2>1, <2>2, ApplySays DEF Says
  <2>4. Ends(e, f)
    BY <1>3, <2>3, CleanNext
  <2>5. Taken(e, b) = Words(e) \o b
    BY <1>8 DEF Taken
  <2>. QED BY <1>1, <1>3, <1>4, <2>3, <2>4, <2>5 DEF Right
<1>. QED BY <1>7, <1>8

\* What was taken is given.
LEMMA EnterSays ==
  ASSUME NEW e \in Engine
  PROVE  /\ Ends(e, PressEnter(e))
         /\ Right(e) => Words(PressEnter(e)) = Taken(e, e.buffer)
         /\ PressEnter(e).syllable = <<>> /\ PressEnter(e).commit = Words(PressEnter(e))
<1>1. PICK f : f = FinalizeChordBuffer(e)
  OBVIOUS
<1>2. Ends(e, f) /\ (Right(e) => Words(f) = Taken(e, e.buffer))
  BY <1>1, FinalizeSays
<1>3. f \in Engine
  BY <1>2 DEF Ends
<1>4. Words(f) \in Seq(Key)
  BY <1>3, Fields
<1>5. PICK g : g = FlushPreedit(f)
  OBVIOUS
<1>6. SamePreview(f, g) /\ Words(g) = Words(f) /\ g \in Engine /\ g.syllable = <<>> /\ g.commit = Words(f)
  BY <1>3, <1>4, <1>5, FlushSays, JoinedKeys DEF Says
<1>7. Ends(e, g)
  BY <1>2, <1>6, CleanNext
<1>8. g = PressEnter(e)
  BY <1>1, <1>5 DEF PressEnter
<1>. QED BY <1>2, <1>6, <1>7, <1>8

\* What was taken is given, and the space after it.
LEMMA SpaceSays ==
  ASSUME NEW e \in Engine, NEW k \in Key
  PROVE  /\ Ends(e, PressSpace(e, k))
         /\ Right(e) => Words(PressSpace(e, k)) = Taken(e, e.buffer) \o <<k>>
<1>1. PICK f : f = FinalizeChordBuffer(e)
  OBVIOUS
<1>2. Ends(e, f) /\ (Right(e) => Words(f) = Taken(e, e.buffer))
  BY <1>1, FinalizeSays
<1>3. f \in Engine
  BY <1>2 DEF Ends
<1>4. PICK g : g = CommitCharacter(f, k)
  OBVIOUS
<1>5. SamePreview(f, g) /\ Words(g) = Words(f) \o <<k>> /\ g \in Engine
  BY <1>3, <1>4, CharacterSays DEF Says
<1>6. Ends(e, g)
  BY <1>2, <1>5, CleanNext
<1>7. g = PressSpace(e, k)
  BY <1>1, <1>4 DEF PressSpace
<1>. QED BY <1>2, <1>5, <1>6, <1>7

\* What is composed is given, the chord is dropped.
LEMMA EscapeSays ==
  ASSUME NEW e \in Engine
  PROVE  Ends(e, PressEscape(e)) /\ Words(PressEscape(e)) = Words(e)
<1>1. PICK f : f = ClearChord(e)
  OBVIOUS
<1>2. Ends(e, f) /\ Words(f) = Words(e)
  BY <1>1, FlushedEnds
<1>3. f \in Engine
  BY <1>2 DEF Ends
<1>4. Words(f) \in Seq(Key)
  BY <1>3, Fields
<1>5. PICK g : g = FlushPreedit(f)
  OBVIOUS
<1>6. SamePreview(f, g) /\ Words(g) = Words(f) /\ g \in Engine
  BY <1>3, <1>4, <1>5, FlushSays, JoinedKeys DEF Says
<1>7. Ends(e, g)
  BY <1>2, <1>6, CleanNext
<1>8. g = PressEscape(e)
  BY <1>1, <1>5 DEF PressEscape
<1>. QED BY <1>2, <1>6, <1>7, <1>8

\* A new layout drops the chord.
LEMMA RebuildSays ==
  ASSUME NEW e \in Engine
  PROVE  Ends(e, RebuildKoreanContext(e)) /\ Words(RebuildKoreanContext(e)) = Words(e)
         /\ (e.syllable = <<>> => RebuildKoreanContext(e).syllable = <<>>
                                  /\ RebuildKoreanContext(e).commit = e.commit)
<1>1. PICK f : f = FlushPreedit(e)
  OBVIOUS
<1>2. /\ SamePreview(e, f) /\ f \in Engine /\ Words(f) = Words(e) \o <<>>
      /\ f.syllable = <<>> /\ f.commit = Words(e)
  BY <1>1, FlushSays DEF Says
<1>3. Words(e) \in Seq(Key)
  BY Fields
<1>4. Words(f) = Words(e)
  BY <1>2, <1>3, JoinedKeys
<1>5. Later(e, f)
  BY <1>2, SameLater DEF SamePreview
<1>6. PICK g : g = ClearChord(f)
  OBVIOUS
<1>7. Ends(f, g) /\ Words(g) = Words(f)
  BY <1>2, <1>6, FlushedEnds
<1>8. <<>> \in Seq(Key)
  OBVIOUS
<1>9. g.syllable = f.syllable /\ g.commit = f.commit
  BY <1>2, <1>6, <1>8, Begun DEF ClearChord, Begins
<1>10. Later(e, g)
  BY <1>5, <1>7, LaterTrans DEF Ends
<1>11. Ends(e, g)
  BY <1>7, <1>10 DEF Ends
<1>12. e.syllable = <<>> => Words(e) = e.commit
  BY Fields, JoinedKeys DEF Words
<1>13. g = RebuildKoreanContext(e)
  BY <1>1, <1>6 DEF RebuildKoreanContext
<1>. QED BY <1>2, <1>4, <1>7, <1>9, <1>11, <1>12, <1>13

\* The chord ends, and keys of the syllable are erased.
LEMMA BackspaceSays ==
  ASSUME NEW e \in Engine, NEW erased
  PROVE  /\ Ends(e, PressBackspace(e, erased))
         /\ PressBackspace(e, erased).syllable = Without(FinalizeChordBuffer(e).syllable, erased)
         /\ PressBackspace(e, erased).commit = FinalizeChordBuffer(e).commit
<1>1. PICK f : f = FinalizeChordBuffer(e)
  OBVIOUS
<1>2. Ends(e, f)
  BY <1>1, FinalizeSays
<1>3. f \in Engine
  BY <1>2 DEF Ends
<1>4. PICK s : s = Without(f.syllable, erased)
  OBVIOUS
<1>5. f.syllable \in Seq(Key) /\ f.commit \in Seq(Key)
  BY <1>3, Fields
<1>6. s \in Seq(Key)
  BY <1>4, <1>5, AmongType DEF Without
<1>7. PICK g : g = [f EXCEPT !.syllable = s]
  OBVIOUS
<1>8. g = Composing(f, s, f.commit)
  BY <1>3, <1>7, Half
<1>9. HasComposed(f, s, f.commit, g)
  BY <1>3, <1>5, <1>6, <1>8, Composed
<1>10. Ends(e, g) /\ g.syllable = s /\ g.commit = f.commit
  BY <1>2, <1>9, CleanNext DEF HasComposed
<1>11. g = PressBackspace(e, erased)
  BY <1>1, <1>4, <1>7 DEF PressBackspace
<1>. QED BY <1>1, <1>4, <1>10, <1>11

-----------------------------------------------------------------------------
(* The response. *)

\* h is e after its commit text has been taken.
Drains(e, h) ==
  /\ SamePreview(e, h) /\ h \in Engine /\ h.commit = <<>> /\ h.syllable = e.syllable
  /\ Right(e) => Right(h)

\* What is drained has been delivered: the two together stay what they were.
LEMMA Drained ==
  ASSUME NEW e \in Engine, NEW d \in Seq(Key), NEW h, h = [e EXCEPT !.commit = <<>>]
  PROVE  /\ Drains(e, h) /\ Later(e, h)
         /\ d \o e.commit \in Seq(Key)
         /\ (d \o e.commit) \o Taken(h, h.buffer) = d \o Taken(e, e.buffer)
<1>1. PICK c : c = e.commit
  OBVIOUS
<1>2. PICK s : s = e.syllable
  OBVIOUS
<1>3. PICK r : r = IF e.injected THEN <<>> ELSE e.buffer
  OBVIOUS
<1>4. c \in Seq(Key) /\ s \in Seq(Key) /\ <<>> \in Seq(Key)
  BY <1>1, <1>2, Fields
<1>5. r \in Seq(Key)
  BY <1>3, Fields
<1>6. h = Composing(e, s, <<>>)
  BY <1>2, Half
<1>7. HasComposed(e, s, <<>>, h)
  BY <1>4, <1>6, Composed
<1>8. Right(e) => Right(h)
  BY <1>2, <1>7 DEF HasComposed, SamePreview, SameChord, Right, PreviewOf
<1>9. Drains(e, h)
  BY <1>2, <1>7, <1>8 DEF Drains, HasComposed
<1>10. Later(e, h)
  BY <1>7, SameLater DEF HasComposed, SamePreview
<1>11. Taken(e, e.buffer) = (c \o s) \o r
  BY <1>1, <1>2, <1>3 DEF Taken, Words
<1>12. Taken(h, h.buffer) = s \o r
  <2>1. Words(h) = s
    BY <1>4, <1>7, JoinedKeys DEF Words, HasComposed
  <2>2. h.injected = e.injected /\ h.buffer = e.buffer
    BY <1>7 DEF HasComposed, SamePreview, SameChord
  <2>. QED BY <1>3, <2>1, <2>2 DEF Taken
<1>13. d \o c \in Seq(Key) /\ s \o r \in Seq(Key)
  BY <1>4, <1>5, JoinedKeys
<1>14. (d \o c) \o (s \o r) = d \o (c \o (s \o r))
  BY <1>4, <1>13, Regrouped
<1>15. (c \o s) \o r = c \o (s \o r)
  BY <1>4, <1>5, Regrouped
<1>. QED BY <1>1, <1>9, <1>10, <1>11, <1>12, <1>13, <1>14, <1>15

-----------------------------------------------------------------------------
(* The keys the user has pressed. *)

\* The keys are numbered in their order, up to n.
Numbered(s, n) == Increasing(s) /\ \A i \in 1..Len(s) : s[i].id <= n

LEMMA KeysNumbered ==
  ASSUME NEW s \in Seq(Key)
  PROVE  Len(s) \in Nat /\ \A i \in 1..Len(s) : s[i] \in Key /\ s[i].id \in Nat
<1>1. \A i \in 1..Len(s) : s[i] \in Key
  OBVIOUS
<1>2. \A k \in Key : k.id \in Nat
  BY DEF Key
<1>. QED BY <1>1, <1>2

\* One number more, and the key that has it.
LEMMA NumberedNext ==
  ASSUME NEW s \in Seq(Key), NEW n \in Nat, Numbered(s, n)
  PROVE  /\ Numbered(s, n + 1)
         /\ \A k \in Key : k.id = n + 1 => Numbered(Append(s, k), n + 1)
<1>1. Len(s) \in Nat /\ \A i \in 1..Len(s) : s[i] \in Key /\ s[i].id \in Nat
  BY KeysNumbered
<1>2. Numbered(s, n + 1)
  BY <1>1 DEF Numbered
<1>3. ASSUME NEW k \in Key, k.id = n + 1 PROVE Numbered(Append(s, k), n + 1)
  <2>1. PICK t : t = Append(s, k)
    OBVIOUS
  <2>2. /\ Len(t) = Len(s) + 1 /\ \A i \in 1..Len(s) : t[i] = s[i]
        /\ t[Len(s) + 1] = k
    BY <2>1, AppendProperties
  <2>3. ASSUME NEW i \in 1..Len(t), NEW j \in 1..Len(t), i < j PROVE t[i].id < t[j].id
    <3>1. i \in 1..Len(s) /\ t[i] = s[i]
      BY <1>1, <2>2, <2>3
    <3>2. s[i].id <= n /\ s[i].id \in Nat
      BY <1>1, <3>1 DEF Numbered
    <3>3. CASE j = Len(s) + 1
      BY <1>3, <2>2, <3>1, <3>2, <3>3
    <3>4. CASE j # Len(s) + 1
      <4>1. j \in 1..Len(s) /\ t[j] = s[j]
        BY <1>1, <2>2, <3>4
      <4>. QED BY <2>3, <3>1, <4>1 DEF Numbered, Increasing
    <3>. QED BY <3>3, <3>4
  <2>4. ASSUME NEW i \in 1..Len(t) PROVE t[i].id <= n + 1
    <3>1. CASE i = Len(s) + 1
      BY <1>3, <2>2, <3>1
    <3>2. CASE i # Len(s) + 1
      <4>1. i \in 1..Len(s) /\ t[i] = s[i]
        BY <1>1, <2>2, <3>2
      <4>2. s[i].id <= n /\ s[i].id \in Nat
        BY <1>1, <4>1 DEF Numbered
      <4>. QED BY <4>1, <4>2
    <3>. QED BY <3>1, <3>2
  <2>. QED BY <2>1, <2>3, <2>4 DEF Numbered, Increasing
<1>. QED BY <1>2, <1>3

\* What is left of numbered keys is numbered.
LEMMA NumberedPart ==
  ASSUME NEW s \in Seq(Key), NEW n \in Nat, Numbered(s, n)
  PROVE  /\ \A set : Among(s, set) \in Seq(Key) /\ Numbered(Among(s, set), n)
         /\ \A m \in Int : m <= Len(s) => SubSeq(s, 1, m) \in Seq(Key) /\ Numbered(SubSeq(s, 1, m), n)
<1>1. ASSUME NEW set PROVE Among(s, set) \in Seq(Key) /\ Numbered(Among(s, set), n)
  <2>1. Among(s, set) \in Seq(Key)
    BY AmongType
  <2>2. From(Among(s, set), s) /\ Increasing(Among(s, set))
    BY AmongFrom DEF Numbered
  <2>3. \A i \in 1..Len(Among(s, set)) : Among(s, set)[i].id <= n
    BY <2>2 DEF From, Numbered
  <2>. QED BY <2>1, <2>2, <2>3 DEF Numbered
<1>2. ASSUME NEW m \in Int, m <= Len(s)
      PROVE  SubSeq(s, 1, m) \in Seq(Key) /\ Numbered(SubSeq(s, 1, m), n)
  <2>1. PICK t : t = SubSeq(s, 1, m)
    OBVIOUS
  <2>2. \A i \in 1..m : s[i] \in Key
    BY <1>2
  <2>3. t \in Seq(Key) /\ Len(t) = (IF 1 <= m THEN (m - 1) + 1 ELSE 0)
        /\ \A i \in 1..((m - 1) + 1) : t[i] = s[(1 + i) - 1]
    BY <1>2, <2>1, <2>2, SubSeqProperties
  <2>4. ASSUME NEW i \in 1..Len(t) PROVE i \in 1..Len(s) /\ t[i] = s[i]
    BY <1>2, <2>3
  <2>. QED BY <2>1, <2>3, <2>4 DEF Numbered, Increasing
<1>. QED BY <1>1, <1>2

\* Keys that are in the second part of a text are not in the first.
LEMMA Apart ==
  ASSUME NEW s \in Seq(Key), NEW t \in Seq(Key), Increasing(s \o t),
         NEW erased, \A x \in erased : \E j \in 1..Len(t) : x = t[j]
  PROVE  Without(s \o t, erased) = s \o Without(t, erased)
<1>1. \A i \in 1..Len(s) : s[i] \in Key /\ s[i].id \in Nat
  BY KeysNumbered
<1>2. Len(s) \in Nat /\ Len(t) \in Nat /\ Len(s \o t) = Len(s) + Len(t)
  BY ConcatProperties
<1>3. \A i \in 1..(Len(s) + Len(t)) : (s \o t)[i] = IF i <= Len(s) THEN s[i] ELSE t[i - Len(s)]
  BY ConcatProperties
<1>4. ASSUME NEW i \in 1..Len(s), NEW j \in 1..Len(t) PROVE s[i] # t[j]
  <2>1. /\ i \in 1..(Len(s) + Len(t)) /\ Len(s) + j \in 1..(Len(s) + Len(t))
        /\ i <= Len(s) /\ ~(Len(s) + j <= Len(s)) /\ i < Len(s) + j /\ (Len(s) + j) - Len(s) = j
    BY <1>2
  <2>2. (s \o t)[i] = s[i] /\ (s \o t)[Len(s) + j] = t[j]
    BY <1>3, <2>1
  <2>3. s[i].id < t[j].id
    BY <1>2, <2>1, <2>2 DEF Increasing
  <2>. QED BY <1>1, <2>3
<1>5. PICK rest : rest = Key \ erased
  OBVIOUS
<1>6. \A i \in 1..Len(s) : s[i] \in rest
  BY <1>1, <1>4, <1>5
<1>7. Among(s, rest) = s
  BY <1>6, AmongAll
<1>8. Among(s \o t, rest) = Among(s, rest) \o Among(t, rest)
  BY AmongConcat
<1>. QED BY <1>5, <1>7, <1>8 DEF Without

\* What a backspace erases are keys of the syllable.
LEMMA ErasedFrom ==
  ASSUME NEW keys \in Seq(Key), NEW erased \in Erasable(keys)
  PROVE  \A x \in erased : \E j \in 1..Len(keys) : x = keys[j]
<1>. DEFINE vowels == OfKind(keys, {"jung"})
            area   == IF vowels = <<>> THEN keys ELSE vowels
<1>1. CASE keys = <<>>
  BY <1>1 DEF Erasable
<1>2. CASE keys # <<>>
  <2>1. vowels \in Seq(Key) /\ From(vowels, keys)
    BY AmongType, AmongFrom DEF OfKind
  <2>2. area \in Seq(Key) /\ area # <<>> /\ \A i \in 1..Len(area) : \E j \in 1..Len(keys) : area[i] = keys[j]
    BY <1>2, <2>1 DEF From
  <2>3. erased \in {{Last(keys)}, {Last(area)}, ToSet(area)}
    BY <1>2 DEF Erasable
  <2>. HIDE DEF area
  <2>4. Len(area) \in 1..Len(area) /\ Len(keys) \in 1..Len(keys)
    BY <1>2, <2>2, EmptySeq
  <2>5. \E j \in 1..Len(keys) : Last(area) = keys[j]
    BY <2>2, <2>4 DEF Last
  <2>6. \E j \in 1..Len(keys) : Last(keys) = keys[j]
    BY <2>4 DEF Last
  <2>7. \A x \in ToSet(area) : \E j \in 1..Len(keys) : x = keys[j]
    BY <2>2 DEF ToSet
  <2>. QED BY <2>3, <2>5, <2>6, <2>7
<1>. QED BY <1>1, <1>2

-----------------------------------------------------------------------------
(* The steps. *)

\* Delivered, composed and pending keys make up what was typed, and the preview
\* is that of the chord.
TextHeld == Right(engine) /\ delivered \o Taken(engine, engine.buffer) = typed

\* The inductive invariant.
ChordKeepsKeys ==
  /\ ChordTypeOK
  /\ Numbered(typed, pressed)
  /\ ~spoilt => TextHeld

\* What the type invariant says of the state.
LEMMA TypeGives ==
  ASSUME ChordTypeOK
  PROVE  /\ engine \in Engine /\ engine.commit = <<>> /\ Len(engine.buffer) <= ChordBufferMax
         /\ births \in Nat /\ pressed \in Nat /\ spoilt \in BOOLEAN
         /\ typed \in Seq(Key) /\ delivered \in Seq(Key) /\ timers \subseteq Timer
<1>1. engine \in Engine /\ engine.commit = <<>>
  <2>1. engine \in [syllable: Seq(Key), commit: {<<>>}, buffer: Seq(Key), epoch: Nat,
                    injected: BOOLEAN, atomic: BOOLEAN]
    BY DEF ChordTypeOK
  <2>2. {<<>>} \subseteq Seq(Key)
    OBVIOUS
  <2>. QED BY <2>1, <2>2 DEF Engine, Text
<1>2. births \in Nat /\ pressed \in Nat
  BY ChordAssumption DEF ChordTypeOK
<1>. QED BY <1>1, <1>2 DEF ChordTypeOK

\* What the type invariant asks of the next.
LEMMA TypeKept ==
  ASSUME engine' \in Engine, engine'.commit = <<>>, Len(engine'.buffer) <= ChordBufferMax,
         births' \in 0..MaxResets, pressed' \in 0..MaxPressed, spoilt' \in BOOLEAN,
         typed' \in Seq(Key), delivered' \in Seq(Key), timers' \subseteq Timer
  PROVE  ChordTypeOK'
<1>1. engine' \in [syllable: Seq(Key), commit: {<<>>}, buffer: Seq(Key), epoch: Nat,
                   injected: BOOLEAN, atomic: BOOLEAN]
  BY DEF Engine, Text
<1>. QED BY <1>1 DEF ChordTypeOK

\* The engine comes after what it was, and the timers are those that were, but for
\* one of the chord that is pending.
TimersFollow ==
  /\ Later(engine, engine') /\ births' = births
  /\ \A t \in timers' :
       \/ t \in timers
       \/ t.epoch = engine'.epoch /\ t.birth = births /\ t.first = engine'.buffer[1].id

\* What the engine, the application and the service have after the response of e.
Answered(e) ==
  /\ engine' \in Engine /\ engine'.commit = <<>> /\ Len(engine'.buffer) <= ChordBufferMax
  /\ births' \in 0..MaxResets /\ pressed' \in 0..MaxPressed
  /\ delivered' \in Seq(Key) /\ timers' \subseteq Timer
  /\ TimersFollow
  /\ Right(e) => Right(engine')
  /\ delivered' \o Taken(engine', engine'.buffer) = delivered \o Taken(e, e.buffer)

\* A response delivers what is committed and sets a timer for a pending chord.
LEMMA Responds ==
  ASSUME ChordTypeOK, NEW e, Kept(engine, e), Respond(e),
         pressed < MaxPressed, pressed' = pressed + 1, births' = births
  PROVE  Answered(e)
<1>1. engine \in Engine /\ delivered \in Seq(Key) /\ timers \subseteq Timer /\ births \in Nat /\ pressed \in Nat
  BY TypeGives
<1>2. e \in Engine /\ Len(e.buffer) <= ChordBufferMax /\ Later(engine, e)
  BY DEF Kept
<1>3. engine' = [e EXCEPT !.commit = <<>>] /\ delivered' = delivered \o e.commit
  BY DEF Respond
<1>4. /\ Drains(e, engine') /\ Later(e, engine') /\ delivered' \in Seq(Key)
      /\ delivered' \o Taken(engine', engine'.buffer) = delivered \o Taken(e, e.buffer)
  BY <1>1, <1>2, <1>3, Drained
<1>5. Later(engine, engine')
  BY <1>1, <1>2, <1>4, LaterTrans
<1>6. /\ engine' \in Engine /\ engine'.commit = <<>> /\ engine'.buffer = e.buffer
      /\ engine'.epoch = e.epoch /\ (Right(e) => Right(engine'))
  BY <1>4 DEF Drains, SamePreview, SameChord
<1>7. /\ timers' \subseteq Timer
      /\ \A t \in timers' :
           \/ t \in timers
           \/ t.epoch = engine'.epoch /\ t.birth = births /\ t.first = engine'.buffer[1].id
  <2>1. CASE e.buffer = <<>>
    BY <1>1, <2>1 DEF Respond, ChordPending
  <2>2. CASE e.buffer # <<>>
    <3>1. e.buffer \in Seq(Key) /\ e.epoch \in Nat
      BY <1>2, Fields
    <3>2. 1 \in 1..Len(e.buffer)
      BY <2>2, <3>1, EmptySeq
    <3>3. e.buffer[1].id \in Nat
      BY <3>1, <3>2, KeysNumbered
    <3>4. PICK t : t = [epoch |-> e.epoch, press |-> pressed + 1, first |-> e.buffer[1].id,
                        birth |-> births]
      OBVIOUS
    <3>5. pressed + 1 \in Nat
      BY <1>1
    <3>6. t \in Timer
      BY <1>1, <3>1, <3>3, <3>4, <3>5 DEF Timer
    <3>7. timers' = timers \cup {t}
      BY <2>2, <3>4 DEF Respond, ChordPending
    <3>. QED BY <1>1, <1>6, <3>4, <3>6, <3>7
  <2>. QED BY <2>1, <2>2
<1>8. births' \in 0..MaxResets /\ pressed' \in 0..MaxPressed
  BY <1>1, ChordAssumption DEF ChordTypeOK
<1>. QED BY <1>2, <1>4, <1>5, <1>6, <1>7, <1>8 DEF Answered, TimersFollow

\* Numbered keys go on being numbered, and the invariant is kept, whatever was typed.
LEMMA Keeps ==
  ASSUME NEW e, Answered(e), spoilt' \in BOOLEAN, typed' \in Seq(Key), Numbered(typed, pressed)',
         ~spoilt' => Right(e) /\ delivered \o Taken(e, e.buffer) = typed'
  PROVE  ChordKeepsKeys' /\ TimersFollow
<1>1. ChordTypeOK'
  BY TypeKept DEF Answered
<1>. QED BY <1>1 DEF ChordKeepsKeys, TextHeld, Answered

\* A key that ends the chord leaves the preview of none.
LEMMA CleanKept ==
  ASSUME NEW e \in Engine, NEW f, Ends(e, f)
  PROVE  Kept(e, f) /\ Right(f) /\ Taken(f, f.buffer) = Words(f)
<1>1. f \in Engine /\ f.buffer = <<>> /\ ~f.injected /\ ~f.atomic /\ Later(e, f)
  BY DEF Ends
<1>2. Len(f.buffer) <= ChordBufferMax
  BY <1>1, ChordAssumption
<1>. QED BY <1>1, <1>2, AtRest DEF Kept

\* A jamo is taken; a symbol spoils the text.
LEMMA CharacterStep ==
  ASSUME ChordKeepsKeys, NEW kind \in Characters, Character(kind)
  PROVE  ChordKeepsKeys' /\ TimersFollow
<1>1. PICK k : k = NextKey(kind)
  OBVIOUS
<1>2. /\ ChordTypeOK /\ Numbered(typed, pressed) /\ (~spoilt => TextHeld)
      /\ engine \in Engine /\ Len(engine.buffer) <= ChordBufferMax /\ pressed \in Nat
      /\ typed \in Seq(Key) /\ delivered \in Seq(Key) /\ spoilt \in BOOLEAN
  BY TypeGives DEF ChordKeepsKeys
<1>3. /\ pressed < MaxPressed /\ pressed' = pressed + 1 /\ births' = births
      /\ typed' = Append(typed, k) /\ spoilt' = (spoilt \/ kind = "symbol")
  BY <1>1 DEF Character, Press
<1>4. k \in Key /\ k.id = pressed + 1 /\ k.kind = kind
  BY <1>1, <1>2 DEF NextKey, Key
<1>5. PICK expired \in {FALSE, engine.buffer # <<>>} : Respond(PressCharacter(engine, k, expired))
  BY <1>1 DEF Character
<1>6. expired \in BOOLEAN /\ (expired => engine.buffer # <<>>)
  BY <1>5
<1>7. PICK e : e = PressCharacter(engine, k, expired)
  OBVIOUS
<1>8. /\ Kept(engine, e)
      /\ Right(engine) /\ k.kind \in Jamos => Takes(engine, e, <<k>>)
  BY <1>2, <1>4, <1>6, <1>7, PressSays
<1>9. Respond(e)
  BY <1>5, <1>7
<1>10. Answered(e)
  BY <1>2, <1>3, <1>8, <1>9, Responds
<1>11. typed' \in Seq(Key) /\ typed' = typed \o <<k>> /\ <<k>> \in Seq(Key)
  BY <1>2, <1>3, <1>4, Added
<1>12. Numbered(typed, pressed)'
  BY <1>2, <1>3, <1>4, NumberedNext
<1>13. ASSUME ~spoilt' PROVE Right(e) /\ delivered \o Taken(e, e.buffer) = typed'
  <2>1. ~spoilt /\ k.kind \in Jamos
    BY <1>3, <1>4, <1>13 DEF Characters
  <2>2. TextHeld
    BY <1>2, <2>1
  <2>3. Right(e) /\ Taken(e, e.buffer) = Taken(engine, engine.buffer) \o <<k>>
    BY <1>8, <2>1, <2>2 DEF TextHeld, Takes
  <2>4. Taken(engine, engine.buffer) \in Seq(Key)
    BY <1>2, Fields, JoinedKeys DEF Taken
  <2>5. PICK x : x = Taken(engine, engine.buffer)
    OBVIOUS
  <2>6. (delivered \o x) \o <<k>> = delivered \o (x \o <<k>>)
    BY <1>2, <1>11, <2>4, <2>5, Regrouped
  <2>. QED BY <1>11, <2>2, <2>3, <2>5, <2>6 DEF TextHeld
<1>. QED BY <1>3, <1>10, <1>11, <1>12, <1>13, Keeps

\* The first part of a text.
LEMMA Prefix ==
  ASSUME NEW s \in Seq(Key), NEW t \in Seq(Key)
  PROVE  SubSeq(s \o t, 1, Len(s)) = s
<1>1. Len(s) \in Nat
  OBVIOUS
<1>2. CASE s = <<>>
  <2>1. 1 \in Int /\ Len(s) \in Int /\ Len(s) < 1
    BY <1>2
  <2>. QED BY <1>2, <2>1, SubSeqEmpty
<1>3. CASE s # <<>>
  <2>1. 1 \in 1..Len(s) /\ Len(s) \in 1..Len(s)
    BY <1>1, <1>3, EmptySeq
  <2>. QED BY <2>1, SubSeqOfConcat1, SubSeqFull
<1>. QED BY <1>2, <1>3

LEMMA SpaceStep ==
  ASSUME ChordKeepsKeys, Space
  PROVE  ChordKeepsKeys' /\ TimersFollow
<1>1. PICK k : k = NextKey("space")
  OBVIOUS
<1>2. /\ ChordTypeOK /\ Numbered(typed, pressed) /\ (~spoilt => TextHeld)
      /\ engine \in Engine /\ pressed \in Nat
      /\ typed \in Seq(Key) /\ delivered \in Seq(Key) /\ spoilt \in BOOLEAN
  BY TypeGives DEF ChordKeepsKeys
<1>3. /\ pressed < MaxPressed /\ pressed' = pressed + 1 /\ births' = births
      /\ typed' = Append(typed, k) /\ spoilt' = spoilt
  BY <1>1 DEF Space, Press
<1>4. k \in Key /\ k.id = pressed + 1
  BY <1>1, <1>2 DEF NextKey, Key
<1>5. PICK e : e = PressSpace(engine, k)
  OBVIOUS
<1>6. Ends(engine, e) /\ (Right(engine) => Words(e) = Taken(engine, engine.buffer) \o <<k>>)
  BY <1>2, <1>4, <1>5, SpaceSays
<1>7. Kept(engine, e) /\ Right(e) /\ Taken(e, e.buffer) = Words(e)
  BY <1>2, <1>6, CleanKept
<1>8. Respond(e)
  BY <1>1, <1>5 DEF Space
<1>9. Answered(e)
  BY <1>2, <1>3, <1>7, <1>8, Responds
<1>10. typed' \in Seq(Key) /\ typed' = typed \o <<k>> /\ <<k>> \in Seq(Key)
  BY <1>2, <1>3, <1>4, Added
<1>11. Numbered(typed, pressed)'
  BY <1>2, <1>3, <1>4, NumberedNext
<1>12. ASSUME ~spoilt' PROVE delivered \o Taken(e, e.buffer) = typed'
  <2>1. TextHeld
    BY <1>2, <1>3, <1>12
  <2>2. Taken(engine, engine.buffer) \in Seq(Key)
    BY <1>2, Fields, JoinedKeys DEF Taken
  <2>3. PICK x : x = Taken(engine, engine.buffer)
    OBVIOUS
  <2>4. (delivered \o x) \o <<k>> = delivered \o (x \o <<k>>)
    BY <1>2, <1>10, <2>2, <2>3, Regrouped
  <2>. QED BY <1>6, <1>7, <1>10, <2>1, <2>3, <2>4 DEF TextHeld
<1>. QED BY <1>2, <1>3, <1>7, <1>9, <1>10, <1>11, <1>12, Keeps

LEMMA EnterStep ==
  ASSUME ChordKeepsKeys, Enter
  PROVE  ChordKeepsKeys' /\ TimersFollow
<1>1. /\ ChordTypeOK /\ Numbered(typed, pressed) /\ (~spoilt => TextHeld)
      /\ engine \in Engine /\ pressed \in Nat
      /\ typed \in Seq(Key) /\ spoilt \in BOOLEAN
  BY TypeGives DEF ChordKeepsKeys
<1>2. /\ pressed < MaxPressed /\ pressed' = pressed + 1 /\ births' = births
      /\ typed' = typed /\ spoilt' = spoilt
  BY DEF Enter, Press
<1>3. PICK e : e = PressEnter(engine)
  OBVIOUS
<1>4. Ends(engine, e) /\ (Right(engine) => Words(e) = Taken(engine, engine.buffer))
  BY <1>1, <1>3, EnterSays
<1>5. Kept(engine, e) /\ Right(e) /\ Taken(e, e.buffer) = Words(e)
  BY <1>1, <1>4, CleanKept
<1>6. Respond(e)
  BY <1>3 DEF Enter
<1>7. Answered(e)
  BY <1>1, <1>2, <1>5, <1>6, Responds
<1>8. Numbered(typed, pressed)'
  BY <1>1, <1>2, NumberedNext
<1>9. ASSUME ~spoilt' PROVE delivered \o Taken(e, e.buffer) = typed'
  BY <1>1, <1>2, <1>4, <1>5, <1>9 DEF TextHeld
<1>. QED BY <1>1, <1>2, <1>5, <1>7, <1>8, <1>9, Keeps

\* A backspace erases keys of the syllable; those of the text before it, which
\* are other keys, stay.
LEMMA BackspaceStep ==
  ASSUME ChordKeepsKeys, Backspace
  PROVE  ChordKeepsKeys' /\ TimersFollow
<1>1. /\ ChordTypeOK /\ Numbered(typed, pressed) /\ (~spoilt => TextHeld)
      /\ engine \in Engine /\ pressed \in Nat
      /\ typed \in Seq(Key) /\ delivered \in Seq(Key) /\ spoilt \in BOOLEAN
  BY TypeGives DEF ChordKeepsKeys
<1>2. /\ pressed < MaxPressed /\ pressed' = pressed + 1 /\ births' = births /\ spoilt' = spoilt
  BY DEF Backspace, Press
<1>3. PICK f : f = FinalizeChordBuffer(engine)
  OBVIOUS
<1>4. Ends(engine, f) /\ (Right(engine) => Words(f) = Taken(engine, engine.buffer))
  BY <1>1, <1>3, FinalizeSays
<1>5. PICK s : s = f.syllable
  OBVIOUS
<1>6. PICK c : c = f.commit
  OBVIOUS
<1>7. s \in Seq(Key) /\ c \in Seq(Key) /\ Words(f) = c \o s
  BY <1>4, <1>5, <1>6, Fields DEF Ends, Words
<1>8. PICK erased \in Erasable(s) :
        Respond(PressBackspace(engine, erased)) /\ typed' = Without(typed, erased)
  BY <1>3, <1>5 DEF Backspace
<1>9. PICK e : e = PressBackspace(engine, erased)
  OBVIOUS
<1>10. Ends(engine, e) /\ e.syllable = Without(s, erased) /\ e.commit = c
  BY <1>1, <1>3, <1>5, <1>6, <1>9, BackspaceSays
<1>11. Kept(engine, e) /\ Right(e) /\ Taken(e, e.buffer) = c \o Without(s, erased)
  BY <1>1, <1>10, CleanKept DEF Words
<1>12. Answered(e)
  BY <1>1, <1>2, <1>8, <1>9, <1>11, Responds
<1>13. typed' \in Seq(Key) /\ Numbered(typed', pressed)
  BY <1>1, <1>8, NumberedPart DEF Without
<1>14. Numbered(typed, pressed)'
  BY <1>1, <1>2, <1>13, NumberedNext
<1>15. ASSUME ~spoilt' PROVE delivered \o Taken(e, e.buffer) = typed'
  <2>1. typed = delivered \o (c \o s)
    BY <1>1, <1>2, <1>4, <1>7, <1>15 DEF TextHeld
  <2>2. PICK d : d = delivered \o c
    OBVIOUS
  <2>3. d \in Seq(Key)
    BY <1>1, <1>7, <2>2, JoinedKeys
  <2>4. typed = d \o s
    BY <1>1, <1>7, <2>1, <2>2, Regrouped
  <2>5. Increasing(d \o s)
    BY <1>1, <2>4 DEF Numbered
  <2>6. \A x \in erased : \E j \in 1..Len(s) : x = s[j]
    BY <1>7, ErasedFrom
  <2>7. Without(d \o s, erased) = d \o Without(s, erased)
    BY <1>7, <2>3, <2>5, <2>6, Apart
  <2>8. Without(s, erased) \in Seq(Key)
    BY <1>7, AmongType DEF Without
  <2>9. d \o Without(s, erased) = delivered \o (c \o Without(s, erased))
    BY <1>1, <1>7, <2>2, <2>8, Regrouped
  <2>. QED BY <1>8, <1>11, <2>4, <2>7, <2>9
<1>. QED BY <1>1, <1>2, <1>11, <1>12, <1>13, <1>14, <1>15, Keeps

\* Escape takes off what was typed the keys it drops, which are the last.
LEMMA EscapeStep ==
  ASSUME ChordKeepsKeys, Escape
  PROVE  ChordKeepsKeys' /\ TimersFollow
<1>1. /\ ChordTypeOK /\ Numbered(typed, pressed) /\ (~spoilt => TextHeld)
      /\ engine \in Engine /\ pressed \in Nat
      /\ typed \in Seq(Key) /\ delivered \in Seq(Key) /\ spoilt \in BOOLEAN
  BY TypeGives DEF ChordKeepsKeys
<1>2. PICK b : b = engine.buffer
  OBVIOUS
<1>3. PICK m : m = Len(typed) - Len(b)
  OBVIOUS
<1>4. /\ pressed < MaxPressed /\ pressed' = pressed + 1 /\ births' = births /\ spoilt' = spoilt
      /\ typed' = IF engine.injected THEN typed ELSE SubSeq(typed, 1, m)
  BY <1>2, <1>3 DEF Escape, Press
<1>5. b \in Seq(Key) /\ Len(b) \in Nat /\ Len(typed) \in Nat
  BY <1>1, <1>2, Fields, KeysNumbered
<1>6. m \in Int /\ m <= Len(typed)
  BY <1>3, <1>5
<1>7. PICK e : e = PressEscape(engine)
  OBVIOUS
<1>8. Ends(engine, e) /\ Words(e) = Words(engine)
  BY <1>1, <1>7, EscapeSays
<1>9. Kept(engine, e) /\ Right(e) /\ Taken(e, e.buffer) = Words(engine)
  BY <1>1, <1>8, CleanKept
<1>10. Respond(e)
  BY <1>7 DEF Escape
<1>11. Answered(e)
  BY <1>1, <1>4, <1>9, <1>10, Responds
<1>12. typed' \in Seq(Key) /\ Numbered(typed', pressed)
  BY <1>1, <1>4, <1>6, NumberedPart
<1>13. Numbered(typed, pressed)'
  BY <1>1, <1>4, <1>12, NumberedNext
<1>14. ASSUME ~spoilt' PROVE delivered \o Taken(e, e.buffer) = typed'
  <2>1. typed = delivered \o Taken(engine, b)
    BY <1>1, <1>2, <1>4, <1>14 DEF TextHeld
  <2>2. PICK w : w = Words(engine)
    OBVIOUS
  <2>3. w \in Seq(Key) /\ delivered \o w \in Seq(Key)
    BY <1>1, <2>2, Fields, JoinedKeys
  <2>4. CASE engine.injected
    <3>1. Taken(engine, b) = w
      BY <2>2, <2>3, <2>4, JoinedKeys DEF Taken
    <3>. QED BY <1>4, <1>9, <2>1, <2>2, <2>4, <3>1
  <2>5. CASE ~engine.injected
    <3>1. Taken(engine, b) = w \o b
      BY <2>2, <2>5 DEF Taken
    <3>2. PICK d : d = delivered \o w
      OBVIOUS
    <3>3. d \in Seq(Key)
      BY <2>3, <3>2
    <3>4. typed = d \o b
      <4>1. delivered \in Seq(Key) /\ w \in Seq(Key) /\ b \in Seq(Key)
        BY <1>1, <1>5, <2>3
      <4>2. (delivered \o w) \o b = delivered \o (w \o b)
        BY <4>1, Regrouped
      <4>. QED BY <2>1, <3>1, <3>2, <4>2
    <3>5. Len(d \o b) = Len(d) + Len(b) /\ Len(d) \in Nat
      BY <1>5, <3>3, ConcatProperties
    <3>6. m = Len(d)
      BY <1>3, <1>5, <3>4, <3>5
    <3>7. SubSeq(d \o b, 1, Len(d)) = d
      BY <1>5, <3>3, Prefix
    <3>. QED BY <1>4, <1>9, <2>2, <2>5, <3>2, <3>4, <3>6, <3>7
  <2>. QED BY <2>4, <2>5
<1>. QED BY <1>1, <1>4, <1>9, <1>11, <1>12, <1>13, <1>14, Keeps

\* A shortcut leaves no text unsaid if no chord is pending.
LEMMA ShortcutStep ==
  ASSUME ChordKeepsKeys, Shortcut
  PROVE  ChordKeepsKeys' /\ TimersFollow
<1>1. /\ ChordTypeOK /\ Numbered(typed, pressed) /\ (~spoilt => TextHeld)
      /\ engine \in Engine /\ Len(engine.buffer) <= ChordBufferMax /\ pressed \in Nat
      /\ typed \in Seq(Key) /\ spoilt \in BOOLEAN
  BY TypeGives DEF ChordKeepsKeys
<1>2. /\ pressed < MaxPressed /\ pressed' = pressed + 1 /\ births' = births
      /\ typed' = typed /\ spoilt' = (spoilt \/ engine.buffer # <<>>)
  BY DEF Shortcut, Press
<1>3. PICK e : e = PressShortcut(engine)
  OBVIOUS
<1>4. Words(engine) \in Seq(Key) /\ engine.injected \in BOOLEAN /\ engine.atomic \in BOOLEAN
  BY <1>1, Fields
<1>5. SamePreview(engine, e) /\ e \in Engine /\ Words(e) = Words(engine)
  BY <1>1, <1>3, <1>4, FlushSays, JoinedKeys DEF PressShortcut, Says
<1>6. SameChord(engine, e)
  BY <1>5 DEF SamePreview
<1>7. Kept(engine, e)
  BY <1>1, <1>5, <1>6, SameLater DEF Kept, SameChord
<1>8. Respond(e)
  BY <1>3 DEF Shortcut
<1>9. Answered(e)
  BY <1>1, <1>2, <1>7, <1>8, Responds
<1>10. Numbered(typed, pressed)'
  BY <1>1, <1>2, NumberedNext
<1>11. ASSUME ~spoilt' PROVE Right(e) /\ delivered \o Taken(e, e.buffer) = typed'
  <2>1. engine.buffer = <<>> /\ TextHeld
    BY <1>1, <1>2, <1>11
  <2>2. ~engine.injected /\ ~engine.atomic
    BY <2>1 DEF TextHeld, Right, PreviewOf
  <2>3. Taken(engine, engine.buffer) = Words(engine)
    BY <1>1, <2>1, <2>2, AtRest
  <2>4. e.buffer = <<>> /\ ~e.injected /\ ~e.atomic
    BY <1>5, <1>6, <2>1, <2>2 DEF SamePreview, SameChord
  <2>5. Right(e) /\ Taken(e, e.buffer) = Words(e)
    BY <1>5, <2>4, AtRest
  <2>. QED BY <1>2, <1>5, <2>1, <2>3, <2>5 DEF TextHeld
<1>. QED BY <1>1, <1>2, <1>9, <1>10, <1>11, Keeps

\* Nothing is composed when the layout changes, and so nothing is previewed.
LEMMA RebuildStep ==
  ASSUME ChordKeepsKeys, Rebuild
  PROVE  ChordKeepsKeys' /\ TimersFollow
<1>1. /\ ChordTypeOK /\ Numbered(typed, pressed) /\ (~spoilt => TextHeld)
      /\ engine \in Engine /\ engine.commit = <<>> /\ pressed \in Nat
      /\ typed \in Seq(Key) /\ delivered \in Seq(Key) /\ spoilt \in BOOLEAN /\ timers \subseteq Timer
  BY TypeGives DEF ChordKeepsKeys
<1>2. /\ pressed < MaxPressed /\ pressed' = pressed + 1 /\ births' = births
      /\ typed' = typed /\ delivered' = delivered /\ timers' = timers
      /\ spoilt' = (spoilt \/ (engine.buffer # <<>> /\ ~engine.injected))
      /\ engine.syllable = <<>>
  BY DEF Rebuild, Press, IsMidComposition
<1>3. PICK e : e = RebuildKoreanContext(engine)
  OBVIOUS
<1>4. engine' = e
  BY <1>3 DEF Rebuild
<1>5. Ends(engine, e) /\ Words(e) = Words(engine) /\ e.commit = <<>>
  BY <1>1, <1>2, <1>3, RebuildSays
<1>6. Kept(engine, e) /\ Right(e) /\ Taken(e, e.buffer) = Words(e)
  BY <1>1, <1>5, CleanKept
<1>7. births' \in 0..MaxResets /\ pressed' \in 0..MaxPressed
  BY <1>1, <1>2, ChordAssumption DEF ChordTypeOK
<1>8. TimersFollow
  BY <1>2, <1>4, <1>6 DEF TimersFollow, Kept
<1>9. Answered(e)
  BY <1>1, <1>2, <1>4, <1>5, <1>6, <1>7, <1>8 DEF Answered, Kept
<1>10. Numbered(typed, pressed)'
  BY <1>1, <1>2, NumberedNext
<1>11. ASSUME ~spoilt' PROVE delivered \o Taken(e, e.buffer) = typed'
  <2>1. TextHeld /\ ~(engine.buffer # <<>> /\ ~engine.injected)
    BY <1>1, <1>2, <1>11
  <2>2. engine.buffer = <<>> /\ ~engine.injected /\ ~engine.atomic
    <3>1. engine.injected => engine.buffer # <<>> /\ ~engine.atomic /\ engine.atomic
      BY <1>2, <2>1 DEF TextHeld, Right, PreviewOf
    <3>. QED BY <2>1, <3>1 DEF TextHeld, Right, PreviewOf
  <2>3. Taken(engine, engine.buffer) = Words(engine)
    BY <1>1, <2>2, AtRest
  <2>. QED BY <1>2, <1>5, <1>6, <2>1, <2>3 DEF TextHeld
<1>. QED BY <1>1, <1>2, <1>6, <1>9, <1>10, <1>11, Keeps

\* What is composed is delivered before the engine is made anew.
LEMMA ResetStep ==
  ASSUME ChordKeepsKeys, Reset
  PROVE  ChordKeepsKeys'
<1>1. /\ ChordTypeOK /\ Numbered(typed, pressed) /\ (~spoilt => TextHeld)
      /\ engine \in Engine /\ births \in Nat
      /\ typed \in Seq(Key) /\ delivered \in Seq(Key) /\ spoilt \in BOOLEAN /\ timers \subseteq Timer
  BY TypeGives DEF ChordKeepsKeys
<1>2. PICK e : e = PressEnter(engine)
  OBVIOUS
<1>3. /\ births < MaxResets /\ births' = births + 1 /\ delivered' = delivered \o e.commit
      /\ engine' = NewEngine /\ timers' = timers /\ typed' = typed /\ pressed' = pressed
      /\ spoilt' = spoilt
  BY <1>2 DEF Reset, PressEnter
<1>4. /\ Ends(engine, e) /\ (Right(engine) => Words(e) = Taken(engine, engine.buffer))
      /\ e.commit = Words(e)
  BY <1>1, <1>2, EnterSays
<1>5. e \in Engine
  BY <1>4 DEF Ends
<1>6. e.commit \in Seq(Key) /\ delivered' \in Seq(Key)
  BY <1>1, <1>3, <1>5, Fields, JoinedKeys
<1>7. /\ engine' \in Engine /\ engine'.commit = <<>> /\ engine'.buffer = <<>>
      /\ engine'.syllable = <<>> /\ ~engine'.injected /\ ~engine'.atomic
  BY <1>3 DEF NewEngine, Engine, Text
<1>8. Len(engine'.buffer) <= ChordBufferMax /\ births' \in 0..MaxResets /\ pressed' \in 0..MaxPressed
  BY <1>1, <1>3, <1>7, ChordAssumption DEF ChordTypeOK
<1>9. ChordTypeOK'
  BY <1>1, <1>3, <1>6, <1>7, <1>8, TypeKept
<1>10. ASSUME ~spoilt' PROVE TextHeld'
  <2>1. typed = delivered \o e.commit
    BY <1>1, <1>3, <1>4, <1>10 DEF TextHeld
  <2>2. Right(engine') /\ Taken(engine', engine'.buffer) = Words(engine')
    BY <1>7, AtRest
  <2>3. Words(engine') = <<>>
    BY <1>7 DEF Words
  <2>. QED BY <1>3, <1>6, <2>1, <2>2, <2>3, JoinedKeys DEF TextHeld
<1>. QED BY <1>1, <1>3, <1>9, <1>10 DEF ChordKeepsKeys

\* A timer that ends a chord delivers what the end of it confirms, one of another
\* epoch nothing.
LEMMA FlushStep ==
  ASSUME ChordKeepsKeys, NEW n, IdleFlush(n)
  PROVE  ChordKeepsKeys' /\ TimersFollow
<1>1. /\ ChordTypeOK /\ Numbered(typed, pressed) /\ (~spoilt => TextHeld)
      /\ engine \in Engine /\ engine.commit = <<>> /\ Len(engine.buffer) <= ChordBufferMax
      /\ typed \in Seq(Key) /\ delivered \in Seq(Key) /\ spoilt \in BOOLEAN /\ timers \subseteq Timer
  BY TypeGives DEF ChordKeepsKeys
<1>2. PICK e : e = FinalizeChordBuffer(engine)
  OBVIOUS
<1>3. /\ births' = births /\ typed' = typed /\ pressed' = pressed /\ spoilt' = spoilt
      /\ timers' \subseteq timers
      /\ \/ engine' = [e EXCEPT !.commit = <<>>] /\ delivered' = delivered \o e.commit
         \/ engine' = engine /\ delivered' = delivered
  BY <1>2 DEF IdleFlush
<1>4. births' \in 0..MaxResets /\ pressed' \in 0..MaxPressed
  BY <1>1, <1>3 DEF ChordTypeOK
<1>5. PICK f : f \in Engine /\ Kept(engine, f) /\ Answered(f)
               /\ (~spoilt => Right(f) /\ delivered \o Taken(f, f.buffer) = typed)
  <2>1. CASE engine' = [e EXCEPT !.commit = <<>>] /\ delivered' = delivered \o e.commit
    <3>1. Ends(engine, e) /\ (Right(engine) => Words(e) = Taken(engine, engine.buffer))
      BY <1>1, <1>2, FinalizeSays
    <3>2. Kept(engine, e) /\ Right(e) /\ Taken(e, e.buffer) = Words(e)
      BY <1>1, <3>1, CleanKept
    <3>3. e \in Engine /\ Later(engine, e) /\ Len(e.buffer) <= ChordBufferMax
      BY <3>2 DEF Kept
    <3>4. /\ Drains(e, engine') /\ Later(e, engine') /\ delivered' \in Seq(Key)
          /\ delivered' \o Taken(engine', engine'.buffer) = delivered \o Taken(e, e.buffer)
      BY <1>1, <2>1, <3>3, Drained
    <3>5. Later(engine, engine')
      BY <1>1, <3>3, <3>4, LaterTrans
    <3>6. TimersFollow
      BY <1>3, <3>5 DEF TimersFollow
    <3>7. Answered(e)
      BY <1>1, <1>3, <1>4, <3>3, <3>4, <3>6 DEF Answered, Drains, SamePreview, SameChord
    <3>. QED BY <1>1, <3>1, <3>2, <3>3, <3>7 DEF TextHeld
  <2>2. CASE engine' = engine /\ delivered' = delivered
    <3>1. SameChord(engine, engine)
      BY <1>1 DEF SameChord
    <3>2. Later(engine, engine)
      BY <1>1, <3>1, SameLater
    <3>3. TimersFollow
      BY <1>3, <2>2, <3>2 DEF TimersFollow
    <3>4. Answered(engine)
      BY <1>1, <1>3, <1>4, <2>2, <3>3 DEF Answered
    <3>. QED BY <1>1, <3>2, <3>4 DEF Kept, TextHeld
  <2>. QED BY <1>3, <2>1, <2>2
<1>. QED BY <1>1, <1>3, <1>5, Keeps

\* Every step keeps the invariant, and the timers but for a reset.
LEMMA ChordSteps ==
  ASSUME ChordKeepsKeys, [Next]_vars
  PROVE  ChordKeepsKeys' /\ (TimersFollow \/ Reset \/ UNCHANGED vars)
<1>1. CASE UNCHANGED vars
  BY <1>1 DEF vars, ChordKeepsKeys, ChordTypeOK, TextHeld
<1>2. CASE Next
  BY <1>2, CharacterStep, SpaceStep, EnterStep, BackspaceStep, EscapeStep, ShortcutStep,
     RebuildStep, ResetStep, FlushStep DEF Next
<1>. QED BY <1>1, <1>2

\* Nothing has been typed.
LEMMA ChordStarts == Init => ChordKeepsKeys
<1>. SUFFICES ASSUME Init PROVE ChordKeepsKeys
  OBVIOUS
<1>1. /\ engine \in Engine /\ engine.commit = <<>> /\ engine.buffer = <<>>
      /\ engine.syllable = <<>> /\ ~engine.injected /\ ~engine.atomic
  BY DEF Init, NewEngine, Engine, Text
<1>2. Right(engine) /\ Taken(engine, engine.buffer) = Words(engine)
  BY <1>1, AtRest
<1>3. Words(engine) = <<>>
  BY <1>1 DEF Words
<1>4. TextHeld
  BY <1>2, <1>3 DEF TextHeld, Init
<1>5. Numbered(typed, pressed)
  BY DEF Init, Numbered, Increasing
<1>6. engine \in [syllable: Seq(Key), commit: {<<>>}, buffer: Seq(Key), epoch: Nat,
                 injected: BOOLEAN, atomic: BOOLEAN]
  BY DEF Init, NewEngine
<1>7. Len(engine.buffer) <= ChordBufferMax
  BY <1>1, ChordAssumption
<1>8. 0 \in 0..MaxResets /\ 0 \in 0..MaxPressed
  BY ChordAssumption
<1>9. births \in 0..MaxResets /\ pressed \in 0..MaxPressed /\ spoilt \in BOOLEAN /\ timers \subseteq Timer
  BY <1>8 DEF Init
<1>10. typed \in Seq(Key) /\ delivered \in Seq(Key)
  BY DEF Init
<1>11. ChordTypeOK
  BY <1>6, <1>7, <1>9, <1>10 DEF ChordTypeOK
<1>. QED BY <1>4, <1>5, <1>11 DEF ChordKeepsKeys

\* The invariant holds throughout.
LEMMA ChordStays == Spec => []ChordKeepsKeys
<1>1. ChordKeepsKeys /\ [Next]_vars => ChordKeepsKeys'
  BY ChordSteps
<1>. QED BY <1>1, ChordStarts, PTL DEF Spec

\* The engine, the buffer with its limit, the timers and the texts have their types.
THEOREM ChordTypeCorrect == Spec => []ChordTypeOK
<1>1. ChordKeepsKeys => ChordTypeOK
  BY DEF ChordKeepsKeys
<1>. QED BY <1>1, ChordStays, PTL

\* However chords end, and whatever ends them, each jamo the user pressed and has
\* not erased is delivered, composed or pending, once and in its order.
THEOREM ChordTextKept == Spec => []ChordTextIntact
<1>1. ASSUME ChordKeepsKeys PROVE ChordTextIntact
  <2>1. /\ engine \in Engine /\ engine.commit = <<>> /\ delivered \in Seq(Key)
        /\ (~spoilt => TextHeld)
    BY <1>1, TypeGives DEF ChordKeepsKeys
  <2>2. engine.syllable \in Seq(Key) /\ engine.buffer \in Seq(Key)
    BY <2>1, Fields
  <2>3. PICK s : s = engine.syllable
    OBVIOUS
  <2>4. PICK p : p = Pending
    OBVIOUS
  <2>5. s \in Seq(Key) /\ p \in Seq(Key)
    BY <2>2, <2>3, <2>4 DEF Pending
  <2>6. Words(engine) = s
    BY <2>1, <2>2, <2>3, JoinedKeys DEF Words
  <2>7. Taken(engine, engine.buffer) = s \o p
    BY <2>4, <2>6 DEF Taken, Pending
  <2>8. (delivered \o s) \o p = delivered \o (s \o p)
    BY <2>1, <2>5, Regrouped
  <2>. QED BY <2>1, <2>3, <2>4, <2>7, <2>8 DEF TextHeld, ChordTextIntact
<1>. QED BY <1>1, ChordStays, PTL

-----------------------------------------------------------------------------
(* The timers. *)

\* No timer of this engine is ahead of its epoch, nor any of a later engine.
TimersNameChords ==
  /\ \A t \in timers : t.birth <= births /\ (t.birth = births => t.epoch <= engine.epoch)
  /\ EpochNamesChordOfEngine

\* An engine that comes after leaves the timers as they are.
LEMMA TimersLater ==
  ASSUME ChordTypeOK, ChordTypeOK', TimersNameChords, TimersFollow
  PROVE  TimersNameChords'
<1>1. /\ engine \in Engine /\ engine' \in Engine /\ timers \subseteq Timer
      /\ engine.epoch \in Nat /\ engine'.epoch \in Nat /\ births \in Nat
  BY TypeGives, Fields DEF TimersFollow, Later
<1>2. births' = births /\ Later(engine, engine')
  BY DEF TimersFollow
<1>3. ASSUME NEW t \in timers'
      PROVE  t.birth <= births /\ (t.birth = births => t.epoch <= engine'.epoch)
  <2>1. CASE t \in timers
    <3>1. t.epoch \in Nat /\ t.birth \in Nat
      BY <1>1, <2>1 DEF Timer
    <3>. QED BY <1>1, <1>2, <2>1, <3>1 DEF TimersNameChords, Later
  <2>2. CASE t \notin timers
    BY <1>1, <1>3, <2>2 DEF TimersFollow
  <2>. QED BY <2>1, <2>2
<1>4. ASSUME engine'.buffer # <<>>, NEW t \in timers', t.epoch = engine'.epoch, t.birth = births
      PROVE  t.first = engine'.buffer[1].id
  <2>1. CASE t \in timers
    <3>1. t.epoch <= engine.epoch /\ engine.epoch <= engine'.epoch
      BY <1>2, <1>4, <2>1 DEF TimersNameChords, Later
    <3>2. engine'.epoch = engine.epoch
      BY <1>1, <1>4, <3>1
    <3>3. engine.buffer # <<>> /\ engine'.buffer[1] = engine.buffer[1]
      BY <1>2, <1>4, <3>2 DEF Later
    <3>. QED BY <1>4, <2>1, <3>2, <3>3 DEF TimersNameChords, EpochNamesChordOfEngine
  <2>2. CASE t \notin timers
    BY <1>4, <2>2 DEF TimersFollow
  <2>. QED BY <2>1, <2>2
<1>. QED BY <1>2, <1>3, <1>4 DEF TimersNameChords, EpochNamesChordOfEngine

\* The engine made anew begins at epoch 0, but no timer is of its birth.
LEMMA TimersReset ==
  ASSUME ChordTypeOK, TimersNameChords, Reset
  PROVE  TimersNameChords'
<1>1. engine' = NewEngine /\ births' = births + 1 /\ timers' = timers
  BY DEF Reset
<1>2. engine'.buffer = <<>>
  BY <1>1 DEF NewEngine
<1>3. births \in Nat /\ timers \subseteq Timer
  BY TypeGives
<1>4. ASSUME NEW t \in timers' PROVE t.birth <= births' /\ t.birth # births'
  <2>1. t \in timers /\ t.birth \in Nat
    BY <1>1, <1>3, <1>4 DEF Timer
  <2>. QED BY <1>1, <1>3, <2>1 DEF TimersNameChords
<1>. QED BY <1>2, <1>4 DEF TimersNameChords, EpochNamesChordOfEngine

\* is_idle_epoch_valid may trust the epoch: while the engine lives, a timer that
\* names the current one was set for the chord that is pending, however many
\* chords, expired or full, have ended before it fired.
THEOREM EpochNames == Spec => []EpochNamesChordOfEngine
<1>1. Init => TimersNameChords
  BY DEF Init, NewEngine, TimersNameChords, EpochNamesChordOfEngine
<1>2. ASSUME ChordKeepsKeys, ChordKeepsKeys', TimersNameChords, [Next]_vars PROVE TimersNameChords'
  <2>1. ChordTypeOK /\ ChordTypeOK'
    BY <1>2 DEF ChordKeepsKeys
  <2>2. CASE UNCHANGED vars
    BY <1>2, <2>2 DEF vars, TimersNameChords, EpochNamesChordOfEngine
  <2>3. CASE TimersFollow
    BY <1>2, <2>1, <2>3, TimersLater
  <2>4. CASE Reset
    BY <1>2, <2>1, <2>4, TimersReset
  <2>. QED BY <1>2, <2>2, <2>3, <2>4, ChordSteps
<1>3. TimersNameChords => EpochNamesChordOfEngine
  BY DEF TimersNameChords
<1>. QED BY <1>1, <1>2, <1>3, ChordStays, PTL DEF Spec
=============================================================================
