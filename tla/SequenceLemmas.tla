----------------------------- MODULE SequenceLemmas ----------------------------
(***************************************************************************)
(* What the proofs use of numbers and sequences: induction, which the      *)
(* library states for operators only; sequences that grow at their end;    *)
(* and FlattenSeq, which joins the files of a dataset into its rows.       *)
(***************************************************************************)
EXTENDS Naturals, Sequences, SequencesExt, SequenceTheorems, WellFoundedInduction, TLAPS

(***************************************************************************)
(* Induction over the natural numbers, from their being well founded.      *)
(***************************************************************************)

\* The pairs of numbers, the first below the second.
Below == {p \in Nat \X Nat : p[1] < p[2]}

\* A set of natural numbers that is not empty has a least element.
LEMMA LeastNumber ==
    ASSUME NEW S, S \subseteq Nat, S # {}
    PROVE  \E n \in S : \A m \in S : n <= m
<1>1. IsWellFoundedOn(Below, Nat)
    BY NatLessThanWellFounded DEF OpToRel, Below
<1>2. PICK n \in S : \A m \in S : ~ (<<m, n>> \in Below)
    BY <1>1, WFMin
<1>3. \A m \in S : m \in Nat /\ n \in Nat /\ ~ (m < n)
    BY <1>2 DEF Below
<1> QED
    BY <1>3

\* Induction: a set with 0, and with the successor of each of its numbers, has them all.
LEMMA ByInduction ==
    ASSUME NEW S, 0 \in S, \A n \in Nat : n \in S => n + 1 \in S
    PROVE  Nat \subseteq S
<1> SUFFICES ASSUME Nat \ S # {}
             PROVE  FALSE
    OBVIOUS
<1>1. PICK n \in Nat \ S : \A m \in Nat \ S : n <= m
    BY LeastNumber
<1>2. n # 0 /\ n - 1 \in Nat
    BY <1>1
<1>3. n - 1 \in S
    BY <1>1, <1>2
<1>4. (n - 1) + 1 = n
    BY <1>1
<1> QED
    BY <1>1, <1>2, <1>3, <1>4

(***************************************************************************)
(* Sequences, and sequences of them joined into one.                       *)
(***************************************************************************)

\* A sequence that is another but for a last element is the other with it appended.
LEMMA OneMore ==
    ASSUME NEW S, NEW s \in Seq(S), NEW r \in Seq(S), NEW e \in S,
           Len(r) = Len(s) + 1, \A i \in 1 .. Len(s) : r[i] = s[i], r[Len(r)] = e
    PROVE  r = s \o <<e>>
<1>1. <<e>> \in Seq(S) /\ Len(<<e>>) = 1 /\ <<e>>[1] = e
    OBVIOUS
<1> DEFINE one == <<e>>
<1> HIDE DEF one
<1>2. one \in Seq(S) /\ Len(one) = 1 /\ one[1] = e
    BY <1>1 DEF one
<1>3. /\ s \o one \in Seq(S) /\ Len(s \o one) = Len(s) + 1
      /\ \A i \in 1 .. Len(s) + 1 : (s \o one)[i] = IF i <= Len(s) THEN s[i] ELSE one[i - Len(s)]
  <2>1. /\ s \o one \in Seq(S) /\ Len(s \o one) = Len(s) + Len(one)
        /\ \A i \in 1 .. Len(s) + Len(one) : (s \o one)[i] = IF i <= Len(s) THEN s[i] ELSE one[i - Len(s)]
      BY <1>2, ConcatProperties, Zenon
  <2> QED
      BY <2>1, <1>2
<1>4. ASSUME NEW i \in 1 .. Len(r)
      PROVE  r[i] = (s \o one)[i]
  <2>1. CASE i <= Len(s)
      BY <1>3, <2>1
  <2>2. CASE ~ (i <= Len(s))
    <3>1. i = Len(r) /\ i - Len(s) = 1
        BY <2>2
    <3> QED
        BY <1>2, <1>3, <2>2, <3>1
  <2> QED
      BY <2>1, <2>2
<1> QED
    BY <1>3, <1>4, SeqEqual DEF one

\* The first k of the elements.
LEMMA FirstOnes ==
    ASSUME NEW S, NEW s \in Seq(S), NEW k \in 0 .. Len(s)
    PROVE  /\ SubSeq(s, 1, k) \in Seq(S) /\ Len(SubSeq(s, 1, k)) = k
           /\ \A i \in 1 .. k : SubSeq(s, 1, k)[i] = s[i]
<1>0. k \in Int /\ 1 \in Int /\ k \in Nat /\ \A i \in 1 .. k : s[i] \in S
    OBVIOUS
<1>1. SubSeq(s, 1, k) \in Seq(S)
    BY <1>0, SubSeqProperties
<1>2. Len(SubSeq(s, 1, k)) = IF 1 <= k THEN k - 1 + 1 ELSE 0
    BY <1>0, SubSeqProperties
<1>3. \A i \in 1 .. k - 1 + 1 : SubSeq(s, 1, k)[i] = s[1 + i - 1]
    BY <1>0, SubSeqProperties
<1>4. ASSUME NEW i \in 1 .. k PROVE SubSeq(s, 1, k)[i] = s[i]
  <2>1. i \in 1 .. k - 1 + 1 /\ 1 + i - 1 = i
      BY <1>0
  <2> QED BY <1>3, <2>1
<1>5. Len(SubSeq(s, 1, k)) = k
    BY <1>0, <1>2
<1> QED BY <1>1, <1>4, <1>5

\* A function that joins the first n of the sequences in s, one by one.
Joins(f, s, n) == f = [i \in 1 .. n |-> IF i = 1 THEN s[i] ELSE f[i - 1] \o s[i]]

\* The first n elements of two sequences are the same.
SameFirst(s, t, n) == \A i \in 1 .. n : s[i] = t[i]

\* Such functions agree where the sequences they join do.
LEMMA JoinsUnique ==
    ASSUME NEW n \in Nat, NEW m \in Nat, n <= m, NEW s, NEW t, SameFirst(s, t, n),
           NEW f, NEW g, Joins(f, s, n), Joins(g, t, m)
    PROVE  SameFirst(f, g, n)
<1> DEFINE T == {k \in Nat : k \in 1 .. n => f[k] = g[k]}
<1>1. \A i \in 1 .. n : /\ f[i] = (IF i = 1 THEN s[i] ELSE f[i - 1] \o s[i])
                        /\ g[i] = (IF i = 1 THEN t[i] ELSE g[i - 1] \o t[i])
  <2> TAKE i \in 1 .. n
  <2>1. i \in 1 .. m
      OBVIOUS
  <2> QED BY <2>1 DEF Joins
<1>2. 0 \in T
    OBVIOUS
<1>3. \A i \in 1 .. n : s[i] = t[i]
    BY DEF SameFirst
<1>4. ASSUME NEW k \in Nat, k \in T PROVE k + 1 \in T
  <2>1. SUFFICES ASSUME k + 1 \in 1 .. n PROVE f[k + 1] = g[k + 1]
      OBVIOUS
  <2>2. CASE k = 0
      BY <1>1, <1>3, <2>1, <2>2
  <2>3. CASE k # 0
    <3>1. k \in 1 .. n /\ k + 1 # 1 /\ (k + 1) - 1 = k
        BY <2>1, <2>3
    <3>2. f[k] = g[k]
        BY <1>4, <3>1
    <3> QED BY <1>1, <1>3, <2>1, <3>1, <3>2
  <2> QED BY <2>2, <2>3
<1> HIDE DEF T
<1>5. Nat \subseteq T
    BY <1>2, <1>4, ByInduction
<1>6. \A i \in 1 .. n : i \in T
    BY <1>5
<1> QED BY <1>6 DEF T, SameFirst

\* There is one, for the first of any sequences.
LEMMA JoinsExists ==
    ASSUME NEW S, NEW s \in Seq(Seq(S))
    PROVE  \E f \in [1 .. Len(s) -> Seq(S)] : Joins(f, s, Len(s))
<1> DEFINE T == {k \in Nat : k <= Len(s) => \E f \in [1 .. k -> Seq(S)] : Joins(f, s, k)}
<1>1. 0 \in T
  <2> DEFINE f == [i \in 1 .. 0 |-> s[i]]
  <2>1. f \in [1 .. 0 -> Seq(S)] /\ Joins(f, s, 0)
      BY DEF Joins
  <2> QED BY <2>1
<1>2. ASSUME NEW k \in Nat, k \in T PROVE k + 1 \in T
  <2>1. SUFFICES ASSUME k + 1 <= Len(s)
                 PROVE  \E g \in [1 .. k + 1 -> Seq(S)] : Joins(g, s, k + 1)
      OBVIOUS
  <2>2. PICK f \in [1 .. k -> Seq(S)] : Joins(f, s, k)
      BY <1>2, <2>1
  <2> DEFINE next == IF k = 0 THEN s[1] ELSE f[k] \o s[k + 1]
             g == [i \in 1 .. k + 1 |-> IF i <= k THEN f[i] ELSE next]
  <2>3. next \in Seq(S)
    <3>1. s[k + 1] \in Seq(S) /\ k + 1 \in 1 .. Len(s)
        BY <2>1
    <3>2. CASE k = 0
        BY <3>1, <3>2
    <3>3. CASE k # 0
      <4>1. f[k] \in Seq(S)
          BY <2>2, <3>3
      <4> QED BY <3>1, <3>3, <4>1
    <3> QED BY <3>2, <3>3
  <2>4. k # 0 => next = f[k] \o s[k + 1]
      OBVIOUS
  <2>5. k = 0 => next = s[1]
      OBVIOUS
  <2> HIDE DEF next
  <2>6. g \in [1 .. k + 1 -> Seq(S)]
      BY <2>3
  <2>7. ASSUME NEW i \in 1 .. k + 1
        PROVE  g[i] = IF i = 1 THEN s[i] ELSE g[i - 1] \o s[i]
    <3>1. CASE i <= k
      <4>1. i \in 1 .. k /\ g[i] = f[i]
          BY <3>1
      <4>2. f[i] = IF i = 1 THEN s[i] ELSE f[i - 1] \o s[i]
          BY <2>2, <4>1 DEF Joins
      <4>3. i # 1 => g[i - 1] = f[i - 1]
          BY <4>1
      <4> QED BY <4>1, <4>2, <4>3
    <3>2. CASE ~(i <= k)
      <4>1. i = k + 1 /\ g[i] = next
          BY <3>2
      <4>2. CASE k = 0
          BY <2>5, <4>1, <4>2
      <4>3. CASE k # 0
        <5>1. i - 1 = k /\ g[i - 1] = f[k] /\ i # 1
            BY <4>1, <4>3
        <5> QED BY <2>4, <4>1, <4>3, <5>1
      <4> QED BY <4>2, <4>3
    <3> QED BY <3>1, <3>2
  <2>8. Joins(g, s, k + 1)
    <3>1. g = [i \in 1 .. k + 1 |-> g[i]]
        OBVIOUS
    <3> QED BY <2>7, <3>1 DEF Joins
  <2> QED BY <2>6, <2>8
<1> HIDE DEF T
<1>3. Nat \subseteq T
    BY <1>1, <1>2, ByInduction
<1>4. Len(s) \in T
    BY <1>3
<1> QED BY <1>4 DEF T

\* FlattenSeq is what such a function has at the last.
LEMMA FlattenIs ==
    ASSUME NEW S, NEW s \in Seq(Seq(S)), s # <<>>
    PROVE  \E f \in [1 .. Len(s) -> Seq(S)] : Joins(f, s, Len(s)) /\ FlattenSeq(s) = f[Len(s)]
<1>1. Len(s) \in Nat /\ Len(s) # 0
    OBVIOUS
<1>2. PICK f \in [1 .. Len(s) -> Seq(S)] : Joins(f, s, Len(s))
    BY JoinsExists
<1> DEFINE g == CHOOSE h : Joins(h, s, Len(s))
<1>3. Joins(g, s, Len(s))
    BY <1>2
<1>4. FlattenSeq(s) = g[Len(s)]
    BY <1>1 DEF FlattenSeq, Joins
<1> HIDE DEF g
<1>5. Len(s) \in 1 .. Len(s)
    BY <1>1
<1>6. f[Len(s)] = g[Len(s)]
  <2>1. SameFirst(s, s, Len(s))
      BY DEF SameFirst
  <2>2. SameFirst(f, g, Len(s))
      BY <1>1, <1>2, <1>3, <2>1, JoinsUnique
  <2> QED BY <1>5, <2>2 DEF SameFirst
<1> QED BY <1>2, <1>4, <1>6

\* No files, no rows.
LEMMA FlattenEmpty == FlattenSeq(<<>>) = <<>>
BY DEF FlattenSeq

\* The rows of files of rows are rows.
LEMMA FlattenType ==
    ASSUME NEW S, NEW s \in Seq(Seq(S))
    PROVE  FlattenSeq(s) \in Seq(S)
<1>1. CASE s = <<>>
  <2>1. <<>> \in Seq(S)
      OBVIOUS
  <2> QED BY <1>1, <2>1, FlattenEmpty, Zenon
<1>2. CASE s # <<>>
  <2>1. PICK f \in [1 .. Len(s) -> Seq(S)] : FlattenSeq(s) = f[Len(s)]
      BY <1>2, FlattenIs
  <2> QED BY <1>2, <2>1
<1> QED BY <1>1, <1>2

\* What is in one more file comes after what is in the others.
LEMMA FlattenAppend ==
    ASSUME NEW S, NEW s \in Seq(Seq(S)), NEW e \in Seq(S)
    PROVE  FlattenSeq(Append(s, e)) = FlattenSeq(s) \o e
<1> DEFINE t == Append(s, e)
<1>1. /\ t \in Seq(Seq(S)) /\ Len(t) = Len(s) + 1 /\ t # <<>> /\ Len(s) \in Nat
      /\ \A i \in 1 .. Len(s) : s[i] = t[i]
      /\ t[Len(s) + 1] = e
  <2>1. /\ t \in Seq(Seq(S)) /\ Len(t) = Len(s) + 1
        /\ \A i \in 1 .. Len(s) : t[i] = s[i]
      BY AppendProperties
  <2>2. Len(s) \in Nat
      OBVIOUS
  <2> HIDE DEF t
  <2>3. t # <<>>
      BY <2>1, <2>2
  <2>4. t[Len(s) + 1] = e
    <3>1. Append(s, e)[Len(s) + 1] = e
        OBVIOUS
    <3> QED BY <3>1 DEF t
  <2> QED BY <2>1, <2>2, <2>3, <2>4
<1> HIDE DEF t
<1>2. PICK g \in [1 .. Len(t) -> Seq(S)] : Joins(g, t, Len(t)) /\ FlattenSeq(t) = g[Len(t)]
    BY <1>1, FlattenIs
<1>3. g[Len(t)] = IF Len(t) = 1 THEN t[Len(t)] ELSE g[Len(t) - 1] \o t[Len(t)]
  <2>1. Len(t) \in 1 .. Len(t)
      BY <1>1
  <2> QED BY <1>2, <2>1 DEF Joins
<1>4. CASE s = <<>>
  <2>1. Len(t) = 1 /\ FlattenSeq(t) = e
      BY <1>1, <1>2, <1>3, <1>4
  <2>2. <<>> \o e = e
      OBVIOUS
  <2> QED BY <1>4, <2>1, <2>2, FlattenEmpty DEF t
<1>5. CASE s # <<>>
  <2>1. PICK f \in [1 .. Len(s) -> Seq(S)] : Joins(f, s, Len(s)) /\ FlattenSeq(s) = f[Len(s)]
      BY <1>5, FlattenIs
  <2>2. SameFirst(f, g, Len(s))
    <3>1. Len(s) <= Len(t) /\ Len(t) \in Nat
        BY <1>1
    <3>2. SameFirst(s, t, Len(s))
        BY <1>1 DEF SameFirst
    <3>3. Joins(f, s, Len(s)) /\ Joins(g, t, Len(t)) /\ Len(s) \in Nat
        BY <1>1, <1>2, <2>1
    <3> QED BY <3>1, <3>2, <3>3, JoinsUnique
  <2>3. Len(s) \in 1 .. Len(s) /\ Len(t) # 1 /\ Len(t) - 1 = Len(s)
      BY <1>1, <1>5
  <2>4. g[Len(s)] = FlattenSeq(s)
      BY <2>1, <2>2, <2>3 DEF SameFirst
  <2> QED BY <1>1, <1>2, <1>3, <2>3, <2>4 DEF t
<1> QED BY <1>4, <1>5

\* Three sequences joined.
LEMMA JoinAssociative ==
    ASSUME NEW S, NEW u \in Seq(S), NEW v \in Seq(S), NEW w \in Seq(S)
    PROVE  u \o (v \o w) = (u \o v) \o w
BY ConcatAssociative

\* What is added to the last file comes after what was in it.
LEMMA FlattenExtend ==
    ASSUME NEW S, NEW s \in Seq(Seq(S)), s # <<>>, NEW e \in Seq(S)
    PROVE  FlattenSeq([s EXCEPT ![Len(s)] = s[Len(s)] \o e]) = FlattenSeq(s) \o e
<1> DEFINE n == Len(s)
           front == SubSeq(s, 1, n - 1)
           t == [s EXCEPT ![n] = s[n] \o e]
<1>1. n \in Nat \ {0} /\ s[n] \in Seq(S) /\ s[n] \o e \in Seq(S)
    OBVIOUS
<1>2. front \in Seq(Seq(S)) /\ Len(front) = n - 1 /\ \A i \in 1 .. n - 1 : front[i] = s[i]
  <2>1. n - 1 \in 0 .. Len(s)
      BY <1>1
  <2> QED BY <2>1, FirstOnes
<1> HIDE DEF front
<1>3. ASSUME NEW r \in Seq(Seq(S)), Len(r) = n, \A i \in 1 .. n - 1 : r[i] = s[i]
      PROVE  r = Append(front, r[n])
  <2>1. r[n] \in Seq(S)
      BY <1>1, <1>3
  <2>2. /\ Append(front, r[n]) \in Seq(Seq(S)) /\ Len(Append(front, r[n])) = n
        /\ \A i \in 1 .. n - 1 : Append(front, r[n])[i] = front[i]
        /\ Append(front, r[n])[n] = r[n]
      BY <1>1, <1>2, <2>1, AppendProperties
  <2>3. ASSUME NEW i \in 1 .. n PROVE r[i] = Append(front, r[n])[i]
    <3>1. CASE i = n
        BY <2>2, <3>1
    <3>2. CASE i # n
      <4>1. i \in 1 .. n - 1
          BY <1>1, <3>2
      <4> QED BY <1>2, <1>3, <2>2, <4>1
    <3> QED BY <3>1, <3>2
  <2> QED BY <1>3, <2>2, <2>3, SeqEqual
<1>4. s = Append(front, s[n])
    BY <1>3
<1>5. t = Append(front, s[n] \o e)
  <2>1. t \in Seq(Seq(S)) /\ Len(t) = n /\ (\A i \in 1 .. n - 1 : t[i] = s[i]) /\ t[n] = s[n] \o e
      BY <1>1
  <2> HIDE DEF t
  <2> QED BY <1>3, <2>1
<1>6. FlattenSeq(front) \in Seq(S)
    BY <1>2, FlattenType
<1>7. FlattenSeq(s) = FlattenSeq(front) \o s[n]
    BY <1>1, <1>2, <1>4, FlattenAppend
<1>8. FlattenSeq(t) = FlattenSeq(front) \o (s[n] \o e)
    BY <1>1, <1>2, <1>5, FlattenAppend
<1>9. FlattenSeq(front) \o (s[n] \o e) = (FlattenSeq(front) \o s[n]) \o e
  <2> DEFINE last == s[n]
  <2>1. FlattenSeq(front) \in Seq(S) /\ last \in Seq(S) /\ e \in Seq(S)
      BY <1>1, <1>6
  <2> HIDE DEF last
  <2>2. FlattenSeq(front) \o (last \o e) = (FlattenSeq(front) \o last) \o e
      BY <2>1, JoinAssociative
  <2> QED BY <2>2 DEF last
<1> QED BY <1>7, <1>8, <1>9

\* Sequences that agree up to the k-th element have the same first k.
LEMMA SameFirstOnes ==
    ASSUME NEW S, NEW s \in Seq(S), NEW t \in Seq(S), NEW k \in Nat, k <= Len(s), k <= Len(t),
           SameFirst(s, t, k)
    PROVE  SubSeq(s, 1, k) = SubSeq(t, 1, k)
<1>1. /\ SubSeq(s, 1, k) \in Seq(S) /\ Len(SubSeq(s, 1, k)) = k
      /\ \A i \in 1 .. k : SubSeq(s, 1, k)[i] = s[i]
    BY FirstOnes
<1>2. /\ SubSeq(t, 1, k) \in Seq(S) /\ Len(SubSeq(t, 1, k)) = k
      /\ \A i \in 1 .. k : SubSeq(t, 1, k)[i] = t[i]
    BY FirstOnes
<1>3. \A i \in 1 .. k : SubSeq(s, 1, k)[i] = SubSeq(t, 1, k)[i]
    BY <1>1, <1>2 DEF SameFirst
<1> QED BY <1>1, <1>2, <1>3, SeqEqual

\* What is found in a sequence at a place is its part there.
LEMMA PartIs ==
    ASSUME NEW S, NEW s \in Seq(S), NEW t \in Seq(S), NEW a \in Nat, a + Len(t) <= Len(s),
           \A k \in 1 .. Len(t) : s[a + k] = t[k]
    PROVE  SubSeq(s, a + 1, a + Len(t)) = t
<1> DEFINE b == a + 1
           c == a + Len(t)
           part == SubSeq(s, b, c)
<1>1. b \in Int /\ c \in Int /\ Len(t) \in Nat /\ \A i \in b .. c : s[i] \in S
    OBVIOUS
<1>2. part \in Seq(S)
    BY <1>1, SubSeqProperties
<1>3. Len(part) = IF b <= c THEN c - b + 1 ELSE 0
    BY <1>1, SubSeqProperties
<1>4. \A i \in 1 .. c - b + 1 : part[i] = s[b + i - 1]
    BY <1>1, SubSeqProperties
<1> HIDE DEF part
<1>5. Len(part) = Len(t)
    BY <1>1, <1>3
<1>6. ASSUME NEW i \in 1 .. Len(t) PROVE part[i] = t[i]
  <2>1. i \in 1 .. c - b + 1 /\ b + i - 1 = a + i
      BY <1>1
  <2>2. part[i] = s[a + i]
      BY <1>4, <2>1
  <2> QED BY <2>2
<1>7. part = t
    BY <1>2, <1>5, <1>6, SeqEqual
<1> QED BY <1>7 DEF part

\* off says where each of the first n sequences begins in what they are joined to.
Places(off, s, joined, n) ==
    /\ off \in [1 .. n -> Nat]
    /\ \A f \in 1 .. n :
          /\ off[f] + Len(s[f]) <= Len(joined)
          /\ \A k \in 1 .. Len(s[f]) : joined[off[f] + k] = s[f][k]
    /\ \A f, g \in 1 .. n : f < g => off[f] + Len(s[f]) <= off[g]
    /\ \A i \in 1 .. Len(joined) : \E f \in 1 .. n : \E k \in 1 .. Len(s[f]) : i = off[f] + k

\* The next sequence begins where those before it end.
LEMMA PlacesNext ==
    ASSUME NEW S, NEW s \in Seq(Seq(S)), NEW n \in Nat, n + 1 <= Len(s),
           NEW joined \in Seq(S), NEW off, Places(off, s, joined, n)
    PROVE  \E new : Places(new, s, joined \o s[n + 1], n + 1)
<1> DEFINE last == s[n + 1]
           new == [f \in 1 .. n + 1 |-> IF f = n + 1 THEN Len(joined) ELSE off[f]]
           all == joined \o last
<1>1. last \in Seq(S) /\ n + 1 \in 1 .. n + 1
    OBVIOUS
<1>2. \A f \in 1 .. n : f \in 1 .. n + 1 /\ f # n + 1 /\ off[f] \in Nat /\ s[f] \in Seq(S)
    BY DEF Places
<1>3. new \in [1 .. n + 1 -> Nat] /\ new[n + 1] = Len(joined) /\ \A f \in 1 .. n : new[f] = off[f]
    BY <1>1, <1>2
<1> HIDE DEF new, last
<1>4. /\ all \in Seq(S) /\ Len(all) = Len(joined) + Len(last)
      /\ \A i \in 1 .. Len(joined) : all[i] = joined[i]
      /\ \A k \in 1 .. Len(last) : all[Len(joined) + k] = last[k]
    BY <1>1
<1> HIDE DEF all
<1>5. ASSUME NEW f \in 1 .. n + 1
      PROVE  /\ new[f] + Len(s[f]) <= Len(all)
             /\ \A k \in 1 .. Len(s[f]) : all[new[f] + k] = s[f][k]
  <2>1. CASE f = n + 1
    <3>1. new[f] = Len(joined) /\ s[f] = last
        BY <1>3, <2>1 DEF last
    <3>2. Len(joined) + Len(last) <= Len(all)
        BY <1>1, <1>4
    <3> QED BY <1>4, <3>1, <3>2, Zenon
  <2>2. CASE f # n + 1
    <3>1. f \in 1 .. n
        BY <2>2
    <3>2. /\ off[f] + Len(s[f]) <= Len(joined)
          /\ \A k \in 1 .. Len(s[f]) : joined[off[f] + k] = s[f][k]
        BY <3>1 DEF Places
    <3>3. Len(s[f]) \in Nat /\ off[f] \in Nat /\ new[f] = off[f]
        BY <1>2, <1>3, <3>1
    <3>4. new[f] + Len(s[f]) <= Len(all)
        BY <1>1, <1>4, <3>2, <3>3
    <3>5. ASSUME NEW k \in 1 .. Len(s[f]) PROVE all[new[f] + k] = s[f][k]
      <4>1. off[f] + k \in 1 .. Len(joined)
          BY SMTT(30), <3>2, <3>3
      <4>2. all[off[f] + k] = joined[off[f] + k]
          BY <1>4, <4>1
      <4> QED BY <3>2, <3>3, <4>2
    <3> QED BY <3>4, <3>5
  <2> QED BY <2>1, <2>2
<1>6. ASSUME NEW f \in 1 .. n + 1, NEW g \in 1 .. n + 1, f < g
      PROVE  new[f] + Len(s[f]) <= new[g]
  <2>1. f \in 1 .. n
      BY <1>6
  <2>2. off[f] + Len(s[f]) <= Len(joined) /\ \A h \in 1 .. n : f < h => off[f] + Len(s[f]) <= off[h]
      BY <2>1 DEF Places
  <2>3. CASE g = n + 1
      BY <1>3, <2>1, <2>2, <2>3
  <2>4. CASE g # n + 1
    <3>1. g \in 1 .. n
        BY <2>4
    <3> QED BY <1>3, <1>6, <2>1, <2>2, <3>1
  <2> QED BY <2>3, <2>4
<1>7. ASSUME NEW i \in 1 .. Len(all)
      PROVE  \E f \in 1 .. n + 1 : \E k \in 1 .. Len(s[f]) : i = new[f] + k
  <2>1. CASE i <= Len(joined)
    <3>1. PICK f \in 1 .. n : \E k \in 1 .. Len(s[f]) : i = off[f] + k
        BY <1>7, <2>1 DEF Places
    <3> QED BY <1>2, <1>3, <3>1
  <2>2. CASE i > Len(joined)
    <3>1. i - Len(joined) \in 1 .. Len(last) /\ i = Len(joined) + (i - Len(joined))
        BY <1>1, <1>4, <1>7, <2>2
    <3> QED BY <1>1, <1>3, <3>1 DEF last
  <2> QED BY <2>1, <2>2
<1>8. Places(new, s, all, n + 1)
    BY <1>3, <1>5, <1>6, <1>7 DEF Places
<1> QED BY <1>8 DEF all, last

\* What is in several sequences is in what they are joined to, in the same order, and
\* nothing else is.
LEMMA FlattenPlaces ==
    ASSUME NEW S, NEW s \in Seq(Seq(S))
    PROVE  \E off : Places(off, s, FlattenSeq(s), Len(s))
<1>1. CASE s = <<>>
  <2> DEFINE off == [f \in 1 .. 0 |-> 0]
  <2>1. Places(off, <<>>, <<>>, 0)
      BY DEF Places
  <2> QED BY <1>1, <2>1, FlattenEmpty
<1>2. CASE s # <<>>
  <2>1. PICK g \in [1 .. Len(s) -> Seq(S)] : Joins(g, s, Len(s)) /\ FlattenSeq(s) = g[Len(s)]
      BY <1>2, FlattenIs
  <2> DEFINE T == {n \in Nat : n \in 1 .. Len(s) => \E off : Places(off, s, g[n], n)}
  <2>2. 0 \in T
      OBVIOUS
  <2>3. ASSUME NEW n \in Nat, n \in T PROVE n + 1 \in T
    <3> SUFFICES ASSUME n + 1 \in 1 .. Len(s) PROVE \E off : Places(off, s, g[n + 1], n + 1)
        OBVIOUS
    <3>1. CASE n = 0
      <4> DEFINE off == [f \in 1 .. 1 |-> 0]
                 first == s[1]
      <4>1. first \in Seq(S) /\ off \in [1 .. 1 -> Nat] /\ off[1] = 0
          OBVIOUS
      <4> HIDE DEF off, first
      <4>2. 1 .. 1 = {1}
          OBVIOUS
      <4>3. \A i \in 1 .. Len(first) : i = off[1] + i
          BY <4>1
      <4>4. Places(off, s, first, 1)
          BY <4>1, <4>2, <4>3 DEF Places, first
      <4>5. g[1] = s[1]
          BY <2>1, <1>2, <3>1 DEF Joins
      <4> QED BY <3>1, <4>4, <4>5 DEF first
    <3>2. CASE n # 0
      <4>1. n \in 1 .. Len(s) /\ n + 1 # 1 /\ (n + 1) - 1 = n
          BY <3>2
      <4>2. PICK off : Places(off, s, g[n], n)
          BY <2>3, <4>1
      <4>3. g[n + 1] = g[n] \o s[n + 1]
          BY <2>1, <4>1 DEF Joins
      <4> DEFINE joined == g[n]
      <4>4. joined \in Seq(S)
          BY <4>1
      <4> HIDE DEF joined
      <4>5. Places(off, s, joined, n) /\ g[n + 1] = joined \o s[n + 1]
          BY <4>2, <4>3 DEF joined
      <4>6. n + 1 <= Len(s)
          OBVIOUS
      <4>7. \E new : Places(new, s, joined \o s[n + 1], n + 1)
          BY <4>4, <4>5, <4>6, PlacesNext
      <4> QED BY <4>5, <4>7
    <3> QED BY <3>1, <3>2
  <2>4. Nat \subseteq T
    <3> HIDE DEF T
    <3> QED BY <2>2, <2>3, ByInduction
  <2>5. Len(s) \in Nat /\ Len(s) \in 1 .. Len(s)
      BY <1>2
  <2> QED BY <2>1, <2>4, <2>5
<1> QED BY <1>1, <1>2

\* The first element of a sequence, and those behind it.
LEMMA HeadTail ==
    ASSUME NEW S, NEW s \in Seq(S), s # <<>>
    PROVE  /\ Head(s) \in S /\ Head(s) = s[1]
           /\ Tail(s) \in Seq(S) /\ Len(Tail(s)) = Len(s) - 1
           /\ \A j \in 1 .. Len(s) - 1 : Tail(s)[j] = s[j + 1]
<1>1. Head(s) = s[1] /\ 1 \in 1 .. Len(s) /\ s[1] \in S
    OBVIOUS
<1>2. Tail(s) \in Seq(S) /\ Len(Tail(s)) = Len(s) - 1
    OBVIOUS
<1>3. \A j \in 1 .. Len(s) - 1 : Tail(s)[j] = s[j + 1]
    OBVIOUS
<1> QED BY <1>1, <1>2, <1>3

\* What is behind the first n elements of a sequence.
LEMMA Rest ==
    ASSUME NEW S, NEW s \in Seq(S), NEW n \in 0 .. Len(s)
    PROVE  /\ SubSeq(s, n + 1, Len(s)) \in Seq(S)
           /\ Len(SubSeq(s, n + 1, Len(s))) = Len(s) - n
           /\ \A j \in 1 .. Len(s) - n : SubSeq(s, n + 1, Len(s))[j] = s[n + j]
<1> DEFINE a == n + 1
           b == Len(s)
           rest == SubSeq(s, a, b)
<1>1. a \in Int /\ b \in Int /\ \A i \in a .. b : s[i] \in S
    OBVIOUS
<1>2. rest \in Seq(S)
    BY <1>1, SubSeqProperties
<1>3. Len(rest) = IF a <= b THEN b - a + 1 ELSE 0
    BY <1>1, SubSeqProperties
<1>4. \A i \in 1 .. b - a + 1 : rest[i] = s[a + i - 1]
    BY <1>1, SubSeqProperties
<1> HIDE DEF rest
<1>5. Len(rest) = Len(s) - n
    BY <1>3
<1>6. ASSUME NEW j \in 1 .. Len(s) - n PROVE rest[j] = s[n + j]
  <2>1. j \in 1 .. b - a + 1 /\ a + j - 1 = n + j
      OBVIOUS
  <2> QED BY <1>4, <2>1
<1> QED BY <1>2, <1>5, <1>6 DEF rest

\* What is left of a buffer when one of its frames is taken.
LEMMA RemoveIs ==
    ASSUME NEW S, NEW s \in Seq(S), NEW i \in DOMAIN s
    PROVE  /\ RemoveAt(s, i) \in Seq(S) /\ Len(RemoveAt(s, i)) = Len(s) - 1
           /\ \A j \in 1 .. Len(s) - 1 : RemoveAt(s, i)[j] = s[IF j < i THEN j ELSE j + 1]
<1> DEFINE first == SubSeq(s, 1, i - 1)
           rest == SubSeq(s, i + 1, Len(s))
           left == first \o rest
<1>1. i \in 1 .. Len(s) /\ i \in Nat /\ Len(s) \in Nat /\ i - 1 \in 0 .. Len(s)
    OBVIOUS
<1>2. first \in Seq(S) /\ Len(first) = i - 1 /\ \A j \in 1 .. i - 1 : first[j] = s[j]
    BY <1>1, FirstOnes
<1>3. rest \in Seq(S) /\ Len(rest) = Len(s) - i /\ \A j \in 1 .. Len(s) - i : rest[j] = s[i + j]
  <2>1. i \in 0 .. Len(s)
      BY <1>1
  <2> QED BY <2>1, Rest
<1> HIDE DEF first, rest
<1>4. /\ left \in Seq(S) /\ Len(left) = Len(first) + Len(rest)
      /\ \A j \in 1 .. Len(first) : left[j] = first[j]
      /\ \A j \in 1 .. Len(rest) : left[Len(first) + j] = rest[j]
  <2>1. first \in Seq(S) /\ rest \in Seq(S)
      BY <1>2, <1>3
  <2> QED BY <2>1
<1> HIDE DEF left
<1>5. ASSUME NEW j \in 1 .. Len(s) - 1
      PROVE  left[j] = s[IF j < i THEN j ELSE j + 1]
  <2>1. CASE j < i
    <3>1. j \in 1 .. i - 1 /\ j \in 1 .. Len(first)
        BY <1>1, <1>2, <2>1
    <3> QED BY <1>2, <1>4, <2>1, <3>1
  <2>2. CASE ~(j < i)
    <3> DEFINE m == j - (i - 1)
    <3>1. m \in 1 .. Len(s) - i /\ Len(first) + m = j /\ i + m = j + 1
        BY SMTT(30), <1>1, <1>2, <2>2
    <3> HIDE DEF m
    <3> QED BY <1>2, <1>3, <1>4, <2>2, <3>1
  <2> QED BY <2>1, <2>2
<1>6. Len(left) = Len(s) - 1
    BY <1>1, <1>2, <1>3, <1>4
<1>7. RemoveAt(s, i) = left
    BY DEF RemoveAt, left, first, rest
<1> QED BY <1>4, <1>5, <1>6, <1>7

\* A sequence is one of its own elements.
LEMMA OwnElements ==
    ASSUME NEW S, NEW s \in Seq(S)
    PROVE  s \in Seq(ToSet(s)) /\ DOMAIN s = 1 .. Len(s) /\ \A i \in 1 .. Len(s) : s[i] \in ToSet(s)
<1>1. DOMAIN s = 1 .. Len(s)
    OBVIOUS
<1>2. \A i \in 1 .. Len(s) : s[i] \in ToSet(s)
    BY <1>1 DEF ToSet
<1> QED BY <1>1, <1>2

\* What is in two sequences joined.
LEMMA ConcatIs ==
    ASSUME NEW S, NEW a \in Seq(S), NEW b \in Seq(S)
    PROVE  /\ a \o b \in Seq(S) /\ Len(a \o b) = Len(a) + Len(b)
           /\ \A j \in 1 .. Len(a) : (a \o b)[j] = a[j]
           /\ \A k \in 1 .. Len(b) : (a \o b)[Len(a) + k] = b[k]
OBVIOUS

\* One after another, the sequences joined so far.
LEMMA FlattenPrefix ==
    ASSUME NEW S, NEW s \in Seq(Seq(S))
    PROVE  /\ FlattenSeq(SubSeq(s, 1, 0)) = <<>> /\ SubSeq(s, 1, Len(s)) = s
           /\ \A n \in 0 .. Len(s) : FlattenSeq(SubSeq(s, 1, n)) \in Seq(S)
           /\ \A n \in 0 .. Len(s) - 1 :
                 /\ s[n + 1] \in Seq(S)
                 /\ FlattenSeq(SubSeq(s, 1, n + 1)) = FlattenSeq(SubSeq(s, 1, n)) \o s[n + 1]
<1>1. SubSeq(s, 1, 0) = <<>> /\ SubSeq(s, 1, Len(s)) = s
    BY SubSeqEmpty, SubSeqFull
<1>2. ASSUME NEW n \in 0 .. Len(s)
      PROVE  SubSeq(s, 1, n) \in Seq(Seq(S)) /\ FlattenSeq(SubSeq(s, 1, n)) \in Seq(S)
  <2>1. SubSeq(s, 1, n) \in Seq(Seq(S))
      BY FirstOnes
  <2> QED BY <2>1, FlattenType
<1>3. ASSUME NEW n \in 0 .. Len(s) - 1
      PROVE  /\ s[n + 1] \in Seq(S)
             /\ FlattenSeq(SubSeq(s, 1, n + 1)) = FlattenSeq(SubSeq(s, 1, n)) \o s[n + 1]
  <2>1. n \in 0 .. Len(s) /\ n + 1 \in 0 .. Len(s) /\ n + 1 \in 1 .. Len(s) /\ n \in Nat
      OBVIOUS
  <2>2. s[n + 1] \in Seq(S)
      BY <2>1
  <2>3. /\ SubSeq(s, 1, n) \in Seq(Seq(S)) /\ Len(SubSeq(s, 1, n)) = n
        /\ \A i \in 1 .. n : SubSeq(s, 1, n)[i] = s[i]
      BY <2>1, FirstOnes
  <2>4. /\ SubSeq(s, 1, n + 1) \in Seq(Seq(S)) /\ Len(SubSeq(s, 1, n + 1)) = n + 1
        /\ \A i \in 1 .. n + 1 : SubSeq(s, 1, n + 1)[i] = s[i]
      BY <2>1, FirstOnes
  <2> DEFINE short == SubSeq(s, 1, n)
             long == SubSeq(s, 1, n + 1)
             last == s[n + 1]
  <2> HIDE DEF short, long, last
  <2>5. /\ Append(short, last) \in Seq(Seq(S)) /\ Len(Append(short, last)) = n + 1
        /\ \A i \in 1 .. n : Append(short, last)[i] = short[i]
        /\ Append(short, last)[n + 1] = last
    <3>1. short \in Seq(Seq(S)) /\ Len(short) = n /\ last \in Seq(S)
        BY <2>2, <2>3 DEF short, last
    <3> QED BY <2>1, <3>1, AppendProperties
  <2>6. \A i \in 1 .. n + 1 : long[i] = Append(short, last)[i]
    <3> TAKE i \in 1 .. n + 1
    <3>1. long[i] = s[i]
        BY <2>4 DEF long
    <3>2. CASE i = n + 1
        BY <2>5, <3>1, <3>2 DEF last
    <3>3. CASE i # n + 1
      <4>1. i \in 1 .. n
          BY <2>1, <3>3
      <4>2. short[i] = s[i]
          BY <2>3, <4>1 DEF short
      <4> QED BY <2>5, <3>1, <4>1, <4>2
    <3> QED BY <3>2, <3>3
  <2>7. long \in Seq(Seq(S)) /\ Len(long) = n + 1
      BY <2>4 DEF long
  <2>8. long = Append(short, last)
      BY <2>5, <2>6, <2>7, SeqEqual
  <2>9. FlattenSeq(long) = FlattenSeq(short) \o last
    <3>1. short \in Seq(Seq(S)) /\ last \in Seq(S)
        BY <2>2, <2>3 DEF short, last
    <3> QED BY <2>8, <3>1, FlattenAppend
  <2> QED BY <2>2, <2>9 DEF short, long, last
<1> QED BY <1>1, <1>2, <1>3, FlattenEmpty

\* at says where the sequences begin that are put one behind the other, and where they end.
OneByOne(at, s) ==
    /\ at \in [1 .. Len(s) + 1 -> Nat] /\ at[1] = 0
    /\ \A i \in 1 .. Len(s) : at[i + 1] = at[i] + Len(s[i])

\* They are found there.
FoundAt(at, s, joined) ==
    /\ Len(joined) = at[Len(s) + 1]
    /\ \A i \in 1 .. Len(s) : \A k \in 1 .. Len(s[i]) :
          joined[at[i] + k] = s[i][k] /\ at[i] + k \in 1 .. Len(joined)

\* Where each sequence begins in what they are joined to.
LEMMA FlattenAt ==
    ASSUME NEW S, NEW s \in Seq(Seq(S)), NEW at, OneByOne(at, s)
    PROVE  FlattenSeq(s) \in Seq(S) /\ FoundAt(at, s, FlattenSeq(s))
<1>0. /\ at \in [1 .. Len(s) + 1 -> Nat] /\ at[1] = 0
      /\ \A i \in 1 .. Len(s) : at[i + 1] = at[i] + Len(s[i])
    BY DEF OneByOne
<1> DEFINE F(n) == FlattenSeq(SubSeq(s, 1, n))
           P(n) == /\ Len(F(n)) = at[n + 1]
                   /\ \A i \in 1 .. n : \A k \in 1 .. Len(s[i]) :
                         F(n)[at[i] + k] = s[i][k] /\ at[i] + k \in 1 .. Len(F(n))
           T == {n \in Nat : n <= Len(s) => P(n)}
<1>1. /\ F(0) = <<>> /\ F(Len(s)) = FlattenSeq(s)
      /\ \A n \in 0 .. Len(s) : F(n) \in Seq(S)
      /\ \A n \in 0 .. Len(s) - 1 : s[n + 1] \in Seq(S) /\ F(n + 1) = F(n) \o s[n + 1]
    BY FlattenPrefix, Zenon
<1>2. Len(s) \in Nat
    OBVIOUS
<1> HIDE DEF F
<1>3. 0 \in T
    BY <1>0, <1>1
<1>4. ASSUME NEW n \in Nat, n \in T PROVE n + 1 \in T
  <2> SUFFICES ASSUME n + 1 <= Len(s) PROVE P(n + 1)
      OBVIOUS
  <2>1. P(n) /\ n \in 0 .. Len(s) /\ n \in 0 .. Len(s) - 1 /\ n + 1 \in 1 .. Len(s)
      BY <1>2, <1>4
  <2>2. F(n) \in Seq(S) /\ s[n + 1] \in Seq(S) /\ F(n + 1) = F(n) \o s[n + 1]
      BY <1>1, <2>1
  <2>3. /\ at[n + 1] \in Nat /\ at[n + 2] = at[n + 1] + Len(s[n + 1]) /\ Len(s[n + 1]) \in Nat
        /\ n + 1 + 1 = n + 2
      BY <1>0, <2>1, <2>2
  <2> DEFINE a == F(n)
             b == s[n + 1]
             c == a \o b
  <2>4. a \in Seq(S) /\ b \in Seq(S) /\ F(n + 1) = c /\ Len(a) = at[n + 1] /\ Len(b) \in Nat
      BY <2>1, <2>2
  <2>5. \A i \in 1 .. n : \A k \in 1 .. Len(s[i]) : a[at[i] + k] = s[i][k] /\ at[i] + k \in 1 .. Len(a)
      BY <2>1
  <2> HIDE DEF a, P, T
  <2>6. /\ Len(c) = Len(a) + Len(b)
        /\ \A j \in 1 .. Len(a) : c[j] = a[j]
        /\ \A k \in 1 .. Len(b) : c[Len(a) + k] = b[k]
    <3> HIDE DEF b
    <3>1. a \in Seq(S) /\ b \in Seq(S)
        BY <2>4
    <3> QED BY <3>1, ConcatIs
  <2> HIDE DEF c
  <2>7. Len(c) = at[n + 2]
      BY <2>3, <2>4, <2>6
  <2>8. ASSUME NEW i \in 1 .. n + 1, NEW k \in 1 .. Len(s[i])
        PROVE  c[at[i] + k] = s[i][k] /\ at[i] + k \in 1 .. Len(c)
    <3>1. CASE i = n + 1
      <4>1. k \in 1 .. Len(b) /\ s[i] = b /\ at[i] = Len(a)
          BY <2>4, <3>1
      <4> HIDE DEF b
      <4>2. Len(a) \in Nat
          BY <2>4
      <4>3. Len(a) + k \in 1 .. Len(c)
          BY <2>4, <2>6, <4>1, <4>2
      <4> QED BY <2>6, <4>1, <4>3
    <3>2. CASE i # n + 1
      <4>1. i \in 1 .. n
          BY <3>2
      <4>2. a[at[i] + k] = s[i][k] /\ at[i] + k \in 1 .. Len(a)
          BY <2>5, <4>1
      <4>3. at[i] + k \in 1 .. Len(c) /\ c[at[i] + k] = a[at[i] + k]
        <5> DEFINE j == at[i] + k
        <5>1. j \in 1 .. Len(a) /\ Len(a) \in Nat
            BY <2>4, <4>2
        <5> HIDE DEF j, b
        <5>2. j \in 1 .. Len(c) /\ c[j] = a[j]
            BY <2>4, <2>6, <5>1
        <5> QED BY <5>2 DEF j
      <4> QED BY <4>2, <4>3
    <3> QED BY <3>1, <3>2
  <2>9. F(n + 1) = c
      BY <2>4
  <2> QED BY <2>3, <2>7, <2>8, <2>9 DEF P
<1> HIDE DEF T
<1>5. Nat \subseteq T
    BY <1>3, <1>4, ByInduction
<1>6. P(Len(s))
  <2>1. Len(s) \in T
      BY <1>2, <1>5
  <2> QED BY <1>2, <2>1 DEF T
<1>7. F(Len(s)) = FlattenSeq(s) /\ F(Len(s)) \in Seq(S)
  <2>1. Len(s) \in 0 .. Len(s)
      BY <1>2
  <2> QED BY <1>1, <2>1
<1> QED BY <1>6, <1>7 DEF FoundAt

\* Files without rows add nothing.
LEMMA EmptyFiles ==
    ASSUME NEW S, NEW s \in Seq(Seq(S)), NEW a \in 0 .. Len(s), NEW b \in a .. Len(s),
           \A i \in a + 1 .. b : s[i] = <<>>
    PROVE  FlattenSeq(SubSeq(s, 1, a)) = FlattenSeq(SubSeq(s, 1, b))
<1> DEFINE F(n) == FlattenSeq(SubSeq(s, 1, n))
           T == {n \in Nat : a + n <= b => F(a + n) = F(a)}
<1>1. /\ \A n \in 0 .. Len(s) : F(n) \in Seq(S)
      /\ \A n \in 0 .. Len(s) - 1 : F(n + 1) = F(n) \o s[n + 1]
    BY FlattenPrefix, Zenon
<1> HIDE DEF F
<1>2. 0 \in T
    OBVIOUS
<1>3. ASSUME NEW n \in Nat, n \in T PROVE n + 1 \in T
  <2> SUFFICES ASSUME a + (n + 1) <= b PROVE F(a + (n + 1)) = F(a)
      OBVIOUS
  <2>1. /\ a + n \in 0 .. Len(s) - 1 /\ a + n <= b /\ (a + n) + 1 \in a + 1 .. b
        /\ a + (n + 1) = (a + n) + 1 /\ a + n \in 0 .. Len(s)
      OBVIOUS
  <2>2. F(a + n) = F(a) /\ s[(a + n) + 1] = <<>>
      BY <1>3, <2>1
  <2>3. F((a + n) + 1) = F(a + n) \o <<>>
      BY <1>1, <2>1, <2>2
  <2>4. F(a + n) \o <<>> = F(a + n)
    <3>1. F(a + n) \in Seq(S)
        BY <1>1, <2>1
    <3> QED BY <3>1, ConcatEmptySeq
  <2> QED BY <2>1, <2>2, <2>3, <2>4
<1> HIDE DEF T
<1>4. Nat \subseteq T
    BY <1>2, <1>3, ByInduction
<1>5. b - a \in T /\ a + (b - a) = b
    BY <1>4
<1>6. F(b) = F(a)
    BY <1>5 DEF T
<1> QED BY <1>6 DEF F

\* No file has rows.
LEMMA AllEmpty ==
    ASSUME NEW S, NEW s \in Seq(Seq(S)), \A i \in 1 .. Len(s) : s[i] = <<>>
    PROVE  FlattenSeq(s) = <<>>
<1>1. 0 \in 0 .. Len(s) /\ Len(s) \in 0 .. Len(s) /\ 0 + 1 = 1
    OBVIOUS
<1>2. FlattenSeq(SubSeq(s, 1, 0)) = FlattenSeq(SubSeq(s, 1, Len(s)))
    BY <1>1, EmptyFiles
<1>3. FlattenSeq(SubSeq(s, 1, 0)) = <<>> /\ SubSeq(s, 1, Len(s)) = s
    BY FlattenPrefix
<1> QED BY <1>2, <1>3

\* What is joined is what is in the files, and nothing else.
LEMMA FlattenHas ==
    ASSUME NEW S, NEW s \in Seq(Seq(S))
    PROVE  /\ \A i \in 1 .. Len(FlattenSeq(s)) : \E f \in 1 .. Len(s) : \E k \in 1 .. Len(s[f]) :
                 FlattenSeq(s)[i] = s[f][k]
           /\ \A f \in 1 .. Len(s) : \A k \in 1 .. Len(s[f]) : \E i \in 1 .. Len(FlattenSeq(s)) :
                 FlattenSeq(s)[i] = s[f][k]
<1>1. PICK off : Places(off, s, FlattenSeq(s), Len(s))
    BY FlattenPlaces
<1> DEFINE joined == FlattenSeq(s)
<1>2. joined \in Seq(S)
    BY FlattenType
<1> HIDE DEF joined
<1>3. Places(off, s, joined, Len(s))
    BY <1>1 DEF joined
<1>4. ASSUME NEW i \in 1 .. Len(joined)
      PROVE  \E f \in 1 .. Len(s) : \E k \in 1 .. Len(s[f]) : joined[i] = s[f][k]
  <2>1. PICK f \in 1 .. Len(s) : \E k \in 1 .. Len(s[f]) : i = off[f] + k
      BY <1>3 DEF Places
  <2>2. PICK k \in 1 .. Len(s[f]) : i = off[f] + k
      BY <2>1
  <2>3. joined[off[f] + k] = s[f][k]
      BY <1>3 DEF Places
  <2> QED BY <2>2, <2>3
<1>5. ASSUME NEW f \in 1 .. Len(s), NEW k \in 1 .. Len(s[f])
      PROVE  \E i \in 1 .. Len(joined) : joined[i] = s[f][k]
  <2>1. /\ off[f] \in Nat /\ off[f] + Len(s[f]) <= Len(joined)
        /\ joined[off[f] + k] = s[f][k]
      BY <1>3 DEF Places
  <2>2. Len(s[f]) \in Nat /\ Len(joined) \in Nat
      BY <1>2
  <2>3. off[f] + k \in 1 .. Len(joined)
      BY <2>1, <2>2
  <2> QED BY <2>1, <2>3
<1> QED BY <1>4, <1>5 DEF joined

\* The first n + 1 elements are the first n and another.
LEMMA LongerBy ==
    ASSUME NEW S, NEW s \in Seq(S), NEW n \in 0 .. Len(s) - 1
    PROVE  SubSeq(s, 1, n + 1) = SubSeq(s, 1, n) \o <<s[n + 1]>>
<1>1. 1 \in 1 .. Len(s) /\ n + 1 \in 1 .. Len(s) /\ (n + 1) - 1 = n
    OBVIOUS
<1>2. SubSeq(s, 1, n + 1) = SubSeq(s, 1, (n + 1) - 1) \o <<s[n + 1]>>
    BY <1>1, SubSeqRecursiveSecond
<1> QED BY <1>1, <1>2

\* Joining all is joining the first ones, and then the others.
LEMMA FlattenConcat ==
    ASSUME NEW S, NEW s \in Seq(Seq(S)), NEW t \in Seq(Seq(S))
    PROVE  FlattenSeq(s \o t) = FlattenSeq(s) \o FlattenSeq(t)
<1> DEFINE P(n) == SubSeq(t, 1, n)
           T == {n \in Nat : n <= Len(t) => FlattenSeq(s \o P(n)) = FlattenSeq(s) \o FlattenSeq(P(n))}
<1>1. Len(t) \in Nat /\ FlattenSeq(s) \in Seq(S)
    BY FlattenType
<1>2. P(0) = <<>> /\ P(Len(t)) = t
    BY SubSeqEmpty, SubSeqFull
<1>3. ASSUME NEW n \in Nat, n + 1 <= Len(t)
      PROVE  /\ P(n) \in Seq(Seq(S)) /\ t[n + 1] \in Seq(S) /\ P(n + 1) = P(n) \o <<t[n + 1]>>
             /\ FlattenSeq(P(n)) \in Seq(S) /\ FlattenSeq(P(n + 1)) = FlattenSeq(P(n)) \o t[n + 1]
  <2>1. n \in 0 .. Len(t) /\ n + 1 \in 0 .. Len(t) /\ n \in 0 .. Len(t) - 1 /\ n + 1 \in 1 .. Len(t)
      BY <1>1, <1>3
  <2>2. t[n + 1] \in Seq(S) /\ FlattenSeq(P(n)) \in Seq(S)
        /\ FlattenSeq(P(n + 1)) = FlattenSeq(P(n)) \o t[n + 1]
      BY <2>1, FlattenPrefix
  <2>3. P(n) \in Seq(Seq(S))
      BY <2>1, FirstOnes
  <2>4. P(n + 1) = P(n) \o <<t[n + 1]>>
      BY <2>1, LongerBy
  <2> QED BY <2>2, <2>3, <2>4
<1> HIDE DEF P
<1>4. 0 \in T
  <2>1. s \o <<>> = s /\ FlattenSeq(s) \o <<>> = FlattenSeq(s)
      BY <1>1, ConcatEmptySeq
  <2> QED BY <1>2, <2>1, FlattenEmpty
<1>5. ASSUME NEW n \in Nat, n \in T PROVE n + 1 \in T
  <2> SUFFICES ASSUME n + 1 <= Len(t)
               PROVE  FlattenSeq(s \o P(n + 1)) = FlattenSeq(s) \o FlattenSeq(P(n + 1))
      OBVIOUS
  <2> DEFINE last == t[n + 1]
             one == <<last>>
             before == P(n)
             joined == FlattenSeq(before)
             all == s \o before
  <2>1. /\ before \in Seq(Seq(S)) /\ last \in Seq(S) /\ P(n + 1) = before \o one
        /\ joined \in Seq(S) /\ FlattenSeq(P(n + 1)) = joined \o last
      BY <1>3
  <2>2. FlattenSeq(all) = FlattenSeq(s) \o joined
      BY <1>1, <1>5
  <2>3. one \in Seq(Seq(S)) /\ all \in Seq(Seq(S))
    <3> HIDE DEF last, before
    <3>1. one \in Seq(Seq(S))
        BY <2>1
    <3>2. all \in Seq(Seq(S))
        BY <2>1, ConcatProperties
    <3> QED BY <3>1, <3>2
  <2>4. s \o (before \o one) = all \o one
    <3> HIDE DEF one, before
    <3>1. s \in Seq(Seq(S)) /\ before \in Seq(Seq(S)) /\ one \in Seq(Seq(S))
        BY <2>1, <2>3
    <3>2. s \o (before \o one) = (s \o before) \o one
        BY SMTT(30), <3>1, JoinAssociative
    <3> QED BY <3>2
  <2>5. all \o one = Append(all, last)
    <3> HIDE DEF all, last
    <3> QED BY <2>1, <2>3
  <2>6. FlattenSeq(Append(all, last)) = FlattenSeq(all) \o last
    <3> HIDE DEF all, last
    <3> QED BY <2>1, <2>3, FlattenAppend
  <2>7. (FlattenSeq(s) \o joined) \o last = FlattenSeq(s) \o (joined \o last)
    <3> DEFINE first == FlattenSeq(s)
    <3>1. first \in Seq(S) /\ joined \in Seq(S) /\ last \in Seq(S)
        BY <1>1, <2>1
    <3> HIDE DEF joined, last, first
    <3>2. first \o (joined \o last) = (first \o joined) \o last
        BY <3>1, JoinAssociative
    <3> QED BY <3>2 DEF first
  <2> HIDE DEF all, one, before, joined, last
  <2> QED BY <2>1, <2>2, <2>4, <2>5, <2>6, <2>7
<1> HIDE DEF T
<1>6. Nat \subseteq T
    BY <1>4, <1>5, ByInduction
<1>7. Len(t) \in T
    BY <1>1, <1>6
<1>8. Len(t) <= Len(t)
    BY <1>1
<1> QED BY <1>1, <1>2, <1>7, <1>8 DEF T

\* The greater of two numbers.
LEMMA MaxPair == \A a, b \in Int : Max({a, b}) = IF a < b THEN b ELSE a
<1> SUFFICES ASSUME NEW a \in Int, NEW b \in Int PROVE Max({a, b}) = IF a < b THEN b ELSE a
    OBVIOUS
<1> DEFINE P(x) == x \in {a, b} /\ \A y \in {a, b} : x >= y
<1>1. P(IF a < b THEN b ELSE a) /\ \A x : P(x) => x = IF a < b THEN b ELSE a
    OBVIOUS
<1> QED BY <1>1 DEF Max

\* The lesser of two numbers.
LEMMA MinPair == \A a, b \in Int : Min({a, b}) = IF a < b THEN a ELSE b
<1> SUFFICES ASSUME NEW a \in Int, NEW b \in Int PROVE Min({a, b}) = IF a < b THEN a ELSE b
    OBVIOUS
<1> DEFINE P(x) == x \in {a, b} /\ \A y \in {a, b} : x =< y
<1>1. P(IF a < b THEN a ELSE b) /\ \A x : P(x) => x = IF a < b THEN a ELSE b
    OBVIOUS
<1> QED BY <1>1 DEF Min
================================================================================
