------------------------------ MODULE DataFacts ------------------------------
(***************************************************************************)
(* Facts about numbers, sequences and folds that the proofs share.         *)
(***************************************************************************)
EXTENDS Integers, SequencesExt, SequenceTheorems, WellFoundedInduction, TLAPS

----------------------------------------------------------------------------
(* Numbers.                                                                *)

(* Every set of numbers that is not empty has a least element.             *)
LEMMA LeastNumber ==
  ASSUME NEW T, T \subseteq Nat, T # {}
  PROVE  \E x \in T : \A y \in T : x <= y
<1> DEFINE R == OpToRel(<, Nat)
<1>1. \A a, b \in Nat : a < b => <<a, b>> \in R
  <2> TAKE a \in Nat, b \in Nat
  <2> HAVE a < b
  <2>1. <<a, b>> \in Nat \X Nat
    OBVIOUS
  <2>2. <<a, b>>[1] < <<a, b>>[2]
    OBVIOUS
  <2> QED BY <2>1, <2>2, Zenon DEF OpToRel
<1>2. IsWellFoundedOn(R, Nat)
  BY NatLessThanWellFounded
<1> HIDE DEF R
<1>3. PICK x \in T : \A y \in T : ~(<<y, x>> \in R)
  BY <1>2, WFMin, Zenon
<1>4. ASSUME NEW y \in T PROVE x <= y
  <2>1. ~(y < x)
    BY <1>1, <1>3, Zenon
  <2> QED BY <2>1, SMT
<1> QED BY <1>4

----------------------------------------------------------------------------
(* Sequences.                                                              *)

(* A sequence, of whatever elements.                                       *)
IsSequence(q) == Len(q) \in Nat /\ q = [i \in 1 .. Len(q) |-> q[i]]

(* It is a sequence over some set.                                         *)
LEMMA SequenceIn ==
  ASSUME NEW q, IsSequence(q)
  PROVE  \E S : q \in Seq(S)
<1> DEFINE S == {q[i] : i \in 1 .. Len(q)}
<1>1. q \in [1 .. Len(q) -> S]
  BY DEF IsSequence
<1>2. q \in Seq(S)
  BY <1>1, SeqDef DEF IsSequence
<1> QED BY <1>2

(* A sequence over a set is one.                                           *)
LEMMA InSequence ==
  ASSUME NEW S, NEW q \in Seq(S)
  PROVE  IsSequence(q)
BY LenProperties DEF IsSequence

(* Sequences put together of sequences.                                    *)
LEMMA Concatenation ==
  ASSUME NEW q, IsSequence(q), NEW r, IsSequence(r)
  PROVE  IsSequence(q \o r) /\ Len(q \o r) = Len(q) + Len(r)
<1>1. PICK S : q \in Seq(S)
  BY SequenceIn
<1>2. PICK T : r \in Seq(T)
  BY SequenceIn
<1>3. q \in Seq(S \cup T) /\ r \in Seq(S \cup T)
  BY <1>1, <1>2, SeqMonotonic
<1> QED BY <1>3, ConcatProperties, InSequence

(* A sequence and one more element.                                        *)
LEMMA Appending ==
  ASSUME NEW q, IsSequence(q), NEW x
  PROVE  IsSequence(Append(q, x)) /\ Len(Append(q, x)) = Len(q) + 1
<1>1. PICK S : q \in Seq(S)
  BY SequenceIn
<1>2. q \in Seq(S \cup {x}) /\ x \in S \cup {x}
  BY <1>1, SeqMonotonic
<1>3. /\ Append(q, x) \in Seq(S \cup {x})
      /\ Len(Append(q, x)) = Len(q) + 1
  BY <1>2, AppendProperties
<1> QED BY <1>3, InSequence

(* What a concatenation consists of.                                       *)
LEMMA ConcatIs ==
  ASSUME NEW S, NEW f \in Seq(S), NEW g \in Seq(S)
  PROVE  /\ f \o g \in Seq(S) /\ Len(f \o g) = Len(f) + Len(g)
         /\ DOMAIN f = 1 .. Len(f) /\ DOMAIN g = 1 .. Len(g)
         /\ DOMAIN (f \o g) = 1 .. Len(f) + Len(g) /\ Len(f) \in Nat /\ Len(g) \in Nat
         /\ \A i \in 1 .. Len(f) : (f \o g)[i] = f[i]
         /\ \A i \in 1 .. Len(g) : (f \o g)[i + Len(f)] = g[i]
<1>1. /\ f \o g \in Seq(S) /\ Len(f \o g) = Len(f) + Len(g)
      /\ DOMAIN f = 1 .. Len(f) /\ DOMAIN g = 1 .. Len(g)
      /\ DOMAIN (f \o g) = 1 .. Len(f) + Len(g) /\ Len(f) \in Nat /\ Len(g) \in Nat
  OBVIOUS
<1>2. \A i \in 1 .. Len(f) : (f \o g)[i] = f[i]
  OBVIOUS
<1>3. \A i \in 1 .. Len(g) : (f \o g)[i + Len(f)] = g[i]
  OBVIOUS
<1> QED BY <1>1, <1>2, <1>3

(* Two messages, one after the other.                                      *)
LEMMA PairIs ==
  ASSUME NEW S, NEW a \in S, NEW b \in S
  PROVE  <<a>> \o <<b>> = <<a, b>>
<1> DEFINE x == <<a>>
           y == <<b>>
           z == <<a, b>>
<1>1. x \in Seq(S) /\ y \in Seq(S) /\ z \in Seq(S) /\ Len(x) = 1 /\ Len(y) = 1 /\ Len(z) = 2
  OBVIOUS
<1>2. x[1] = a /\ y[1] = b /\ z[1] = a /\ z[2] = b
  OBVIOUS
<1> HIDE DEF x, y, z
<1>3. Len(x \o y) = 2 /\ (x \o y)[1] = a /\ (x \o y)[2] = b /\ x \o y \in Seq(S)
  BY <1>1, <1>2, ConcatProperties
<1>4. x \o y = z
  BY <1>1, <1>2, <1>3, SeqEqual
<1> QED BY <1>4 DEF x, y, z

(* A sequence without its first m elements.                                *)
LEMMA Suffix ==
  ASSUME NEW q, IsSequence(q), NEW m \in 0 .. Len(q)
  PROVE  /\ IsSequence(SubSeq(q, m + 1, Len(q)))
         /\ Len(SubSeq(q, m + 1, Len(q))) = Len(q) - m
<1>1. PICK S : q \in Seq(S)
  BY SequenceIn
<1>2. /\ Len(q) \in Nat /\ m + 1 \in Int /\ Len(q) \in Int
      /\ \A i \in (m + 1) .. Len(q) : q[i] \in S
  BY <1>1, ElementOfSeq DEF IsSequence
<1>3. /\ SubSeq(q, m + 1, Len(q)) \in Seq(S)
      /\ Len(SubSeq(q, m + 1, Len(q))) = IF m + 1 <= Len(q) THEN Len(q) - (m + 1) + 1 ELSE 0
  BY <1>2, SubSeqProperties
<1>4. Len(SubSeq(q, m + 1, Len(q))) = Len(q) - m
  BY <1>2, <1>3
<1> QED BY <1>3, <1>4, InSequence

(* Sequences that are written out.                                         *)
LEMMA Literals ==
  /\ IsSequence(<< >>) /\ Len(<< >>) = 0
  /\ \A x : IsSequence(<<x>>) /\ Len(<<x>>) = 1
  /\ \A x, y : IsSequence(<<x, y>>) /\ Len(<<x, y>>) = 2
  /\ \A x, y, z : IsSequence(<<x, y, z>>) /\ Len(<<x, y, z>>) = 3
BY DEF IsSequence

(* Without a member that occurs once.                                      *)
LEMMA RemovedOnce ==
  ASSUME NEW S, NEW q \in Seq(S), NEW c \in ToSet(q),
         \A i, j \in 1 .. Len(q) : q[i] = q[j] => i = j
  PROVE  /\ RemoveFirst(q, c) \in Seq(S) /\ Len(RemoveFirst(q, c)) = Len(q) - 1
         /\ ToSet(RemoveFirst(q, c)) = ToSet(q) \ {c}
         /\ \A i, j \in 1 .. Len(RemoveFirst(q, c)) :
              RemoveFirst(q, c)[i] = RemoveFirst(q, c)[j] => i = j
<1> DEFINE I == {i \in 1 .. Len(q) : q[i] = c}
<1>1. Len(q) \in Nat /\ DOMAIN q = 1 .. Len(q)
  BY LenProperties
<1>2. I \subseteq Nat /\ I # {}
  BY <1>1 DEF ToSet
<1>3. PICK n \in I : \A j \in I : n <= j
  BY <1>2, LeastNumber
<1>4. Min(I) = n
  BY <1>2, <1>3 DEF Min
<1>5. RemoveFirst(q, c) = SubSeq(q, 1, n - 1) \o SubSeq(q, n + 1, Len(q))
  BY <1>2, <1>4 DEF RemoveFirst, RemoveAt, SelectInSeq
<1> HIDE DEF I
<1> DEFINE p == SubSeq(q, 1, n - 1)
           r == SubSeq(q, n + 1, Len(q))
<1>6. n \in 1 .. Len(q) /\ q[n] = c
  BY <1>3 DEF I
<1>7. /\ p \in Seq(S) /\ Len(p) = n - 1
      /\ \A i \in 1 .. n - 1 : p[i] = q[i]
  <2>1. 1 \in Int /\ n - 1 \in Int /\ \A i \in 1 .. n - 1 : q[i] \in S
    BY <1>1, <1>6, ElementOfSeq
  <2>2. /\ p \in Seq(S)
        /\ Len(p) = IF 1 <= n - 1 THEN n - 1 - 1 + 1 ELSE 0
        /\ \A i \in 1 .. n - 1 - 1 + 1 : p[i] = q[1 + i - 1]
    BY <2>1, SubSeqProperties
  <2> QED BY <1>1, <1>6, <2>2
<1>8. /\ r \in Seq(S) /\ Len(r) = Len(q) - n
      /\ \A i \in 1 .. Len(q) - n : r[i] = q[n + i]
  <2>1. n + 1 \in Int /\ Len(q) \in Int /\ \A i \in (n + 1) .. Len(q) : q[i] \in S
    BY <1>1, <1>6, ElementOfSeq
  <2>2. /\ r \in Seq(S)
        /\ Len(r) = IF n + 1 <= Len(q) THEN Len(q) - (n + 1) + 1 ELSE 0
        /\ \A i \in 1 .. Len(q) - (n + 1) + 1 : r[i] = q[n + 1 + i - 1]
    BY <2>1, SubSeqProperties
  <2> HIDE DEF r
  <2>3. Len(r) = Len(q) - n
    <3>1. n \in 1 .. Len(q) /\ Len(q) \in Nat
      BY <1>1, <1>6
    <3>2. Len(r) = IF n + 1 <= Len(q) THEN Len(q) - (n + 1) + 1 ELSE 0
      BY <2>2
    <3> QED BY <3>1, <3>2
  <2>4. ASSUME NEW i \in 1 .. Len(q) - n PROVE r[i] = q[n + i]
    <3>1. i \in 1 .. Len(q) - (n + 1) + 1 /\ n + 1 + i - 1 = n + i
      BY <1>1, <1>6
    <3> QED BY <2>2, <3>1
  <2> QED BY <2>2, <2>3, <2>4
<1> HIDE DEF p, r
<1> DEFINE w == p \o r
<1>9. /\ w \in Seq(S) /\ Len(w) = Len(q) - 1
      /\ \A i \in 1 .. Len(q) - 1 : w[i] = IF i < n THEN q[i] ELSE q[i + 1]
  <2>1. /\ w \in Seq(S) /\ Len(w) = Len(p) + Len(r)
        /\ \A i \in 1 .. Len(p) + Len(r) :
             w[i] = IF i <= Len(p) THEN p[i] ELSE r[i - Len(p)]
    <3>1. p \in Seq(S) /\ r \in Seq(S)
      BY <1>7, <1>8
    <3> QED BY <3>1, ConcatProperties
  <2> HIDE DEF w
  <2>2. Len(p) + Len(r) = Len(q) - 1
    BY <1>1, <1>6, <1>7, <1>8
  <2>3. ASSUME NEW i \in 1 .. Len(q) - 1
        PROVE  w[i] = IF i < n THEN q[i] ELSE q[i + 1]
    <3>1. CASE i < n
      BY <1>1, <1>6, <1>7, <2>1, <2>2, <3>1
    <3>2. CASE ~(i < n)
      <4>1. w[i] = r[i - (n - 1)]
        BY <1>1, <1>6, <1>7, <2>1, <2>2, <3>2
      <4>2. i - (n - 1) \in 1 .. Len(q) - n /\ n + (i - (n - 1)) = i + 1
        BY <1>1, <1>6, <3>2
      <4> QED BY <1>8, <3>2, <4>1, <4>2
    <3> QED BY <3>1, <3>2
  <2> QED BY <2>1, <2>2, <2>3
<1>10. DOMAIN w = 1 .. Len(q) - 1
  BY <1>9, LenProperties
<1>11. RemoveFirst(q, c) = w
  BY <1>5 DEF p, r
<1> HIDE DEF w
<1>12. ASSUME NEW i \in 1 .. Len(q) - 1, NEW j \in 1 .. Len(q) - 1, w[i] = w[j]
       PROVE  i = j
  BY <1>1, <1>6, <1>9, <1>12
<1>13. ToSet(w) = ToSet(q) \ {c}
  <2>1. ASSUME NEW x \in ToSet(w) PROVE x \in ToSet(q) \ {c}
    <3>1. PICK i \in 1 .. Len(q) - 1 : x = w[i]
      BY <1>10, <2>1 DEF ToSet
    <3>2. CASE i < n
      <4>1. x = q[i] /\ i \in 1 .. Len(q) /\ i # n
        BY <1>1, <1>6, <1>9, <3>1, <3>2
      <4> QED BY <1>1, <1>6, <4>1 DEF ToSet
    <3>3. CASE ~(i < n)
      <4>1. x = q[i + 1] /\ i + 1 \in 1 .. Len(q) /\ i + 1 # n
        BY <1>1, <1>6, <1>9, <3>1, <3>3
      <4> QED BY <1>1, <1>6, <4>1 DEF ToSet
    <3> QED BY <3>2, <3>3
  <2>2. ASSUME NEW x \in ToSet(q) \ {c} PROVE x \in ToSet(w)
    <3>1. PICK i \in 1 .. Len(q) : x = q[i]
      BY <1>1, <2>2 DEF ToSet
    <3>2. CASE i < n
      <4>1. i \in 1 .. Len(q) - 1 /\ w[i] = x
        BY <1>1, <1>6, <1>9, <3>1, <3>2
      <4> QED BY <1>10, <4>1 DEF ToSet
    <3>3. CASE i > n
      <4>1. i - 1 \in 1 .. Len(q) - 1 /\ w[i - 1] = x
        BY <1>1, <1>6, <1>9, <3>1, <3>3
      <4> QED BY <1>10, <4>1 DEF ToSet
    <3>4. i # n
      BY <1>6, <2>2, <3>1
    <3> QED BY <1>1, <1>6, <3>2, <3>3, <3>4
  <2> QED BY <2>1, <2>2
<1> QED BY <1>9, <1>11, <1>12, <1>13

----------------------------------------------------------------------------
(* Parts of sequences, which may be empty.                                 *)

LEMMA Slice ==
  ASSUME NEW S, NEW q \in Seq(S), NEW a \in Nat, NEW b \in Nat, 1 <= a, a <= b + 1, b <= Len(q)
  PROVE  /\ SubSeq(q, a, b) \in Seq(S) /\ Len(SubSeq(q, a, b)) = b - a + 1
         /\ \A i \in 1 .. (b - a + 1) : SubSeq(q, a, b)[i] = q[a + i - 1]
<1> DEFINE n == Len(q)
           r == SubSeq(q, a, b)
<1>1. n \in Nat /\ \A i \in 1 .. n : q[i] \in S
  BY LenProperties, ElementOfSeq
<1>2. b <= n
  OBVIOUS
<1> HIDE DEF n
<1>3. a \in Int /\ b \in Int /\ \A i \in a .. b : q[i] \in S
  BY <1>1, <1>2
<1>4. /\ r \in Seq(S) /\ Len(r) = IF a <= b THEN b - a + 1 ELSE 0
      /\ \A i \in 1 .. b - a + 1 : r[i] = q[a + i - 1]
  BY <1>3, SubSeqProperties
<1> HIDE DEF r
<1>5. Len(r) = b - a + 1
  BY <1>4
<1> QED BY <1>4, <1>5 DEF r

(* A part of the first of two sequences.                                   *)
LEMMA SliceOfFirst ==
  ASSUME NEW S, NEW p \in Seq(S), NEW q \in Seq(S),
         NEW a \in Nat, NEW b \in Nat, 1 <= a, a <= b + 1, b <= Len(p)
  PROVE  SubSeq(p \o q, a, b) = SubSeq(p, a, b)
<1> DEFINE n == Len(p)
           k == Len(q)
           c == p \o q
           r == SubSeq(c, a, b)
           t == SubSeq(p, a, b)
<1>1. n \in Nat /\ k \in Nat /\ b <= n
  BY LenProperties
<1>2. /\ c \in Seq(S) /\ Len(c) = n + k
      /\ \A i \in 1 .. n + k : c[i] = IF i <= n THEN p[i] ELSE q[i - n]
  BY ConcatProperties
<1> HIDE DEF c
<1>3. /\ t \in Seq(S) /\ Len(t) = b - a + 1
      /\ \A i \in 1 .. (b - a + 1) : t[i] = p[a + i - 1]
  BY Slice
<1>4. b <= Len(c)
  <2> HIDE DEF n, k
  <2> QED BY <1>1, <1>2
<1>5. /\ r \in Seq(S) /\ Len(r) = b - a + 1
      /\ \A i \in 1 .. (b - a + 1) : r[i] = c[a + i - 1]
  BY <1>2, <1>4, Slice
<1> HIDE DEF n, k, r, t
<1>6. ASSUME NEW i \in 1 .. (b - a + 1) PROVE r[i] = t[i]
  <2>1. a + i - 1 \in 1 .. n + k /\ a + i - 1 <= n
    BY <1>1
  <2> QED BY <1>2, <1>3, <1>5, <2>1
<1>7. r = t
  BY <1>3, <1>5, <1>6, SeqEqual
<1> QED BY <1>7 DEF r, t, c

(* A part of the second.                                                   *)
LEMMA SliceOfSecond ==
  ASSUME NEW S, NEW p \in Seq(S), NEW q \in Seq(S),
         NEW a \in Nat, NEW b \in Nat, 1 <= a, a <= b + 1, b <= Len(q)
  PROVE  SubSeq(p \o q, Len(p) + a, Len(p) + b) = SubSeq(q, a, b)
<1> DEFINE n == Len(p)
           k == Len(q)
           e == p \o q
           c == n + a
           d == n + b
           r == SubSeq(e, c, d)
           t == SubSeq(q, a, b)
<1>1. n \in Nat /\ k \in Nat /\ b <= k
  BY LenProperties
<1>2. /\ e \in Seq(S) /\ Len(e) = n + k
      /\ \A i \in 1 .. n + k : e[i] = IF i <= n THEN p[i] ELSE q[i - n]
  BY ConcatProperties
<1> HIDE DEF e
<1>3. /\ t \in Seq(S) /\ Len(t) = b - a + 1
      /\ \A i \in 1 .. (b - a + 1) : t[i] = q[a + i - 1]
  BY Slice
<1> HIDE DEF n, k
<1>4. /\ c \in Nat /\ d \in Nat /\ 1 <= c /\ c <= d + 1 /\ d <= Len(e) /\ d - c + 1 = b - a + 1
  BY <1>1, <1>2
<1> HIDE DEF c, d
<1>5. /\ r \in Seq(S) /\ Len(r) = d - c + 1
      /\ \A i \in 1 .. (d - c + 1) : r[i] = e[c + i - 1]
  BY <1>2, <1>4, Slice
<1> HIDE DEF r, t
<1>6. ASSUME NEW i \in 1 .. (b - a + 1) PROVE r[i] = t[i]
  <2>1. /\ c + i - 1 \in 1 .. n + k /\ ~(c + i - 1 <= n)
        /\ c + i - 1 - n = a + i - 1
    BY <1>1 DEF c
  <2>2. r[i] = e[c + i - 1] /\ t[i] = q[a + i - 1]
    BY <1>3, <1>4, <1>5
  <2>3. e[c + i - 1] = q[c + i - 1 - n]
    BY <1>1, <1>2, <1>4, <2>1
  <2> QED BY <2>1, <2>2, <2>3
<1>7. r = t
  BY <1>3, <1>4, <1>5, <1>6, SeqEqual
<1> QED BY <1>7 DEF r, t, e, c, d, n

(* The rest of two sequences from a place in the first.                    *)
LEMMA SliceAcross ==
  ASSUME NEW S, NEW p \in Seq(S), NEW q \in Seq(S), NEW a \in Nat, 1 <= a, a <= Len(p) + 1
  PROVE  SubSeq(p \o q, a, Len(p) + Len(q)) = SubSeq(p, a, Len(p)) \o q
<1> DEFINE n == Len(p)
           k == Len(q)
           e == p \o q
           d == n + k
           r == SubSeq(e, a, d)
           h == SubSeq(p, a, n)
           l == n - a + 1
           t == h \o q
<1>1. n \in Nat /\ k \in Nat /\ a <= n + 1
  BY LenProperties
<1>2. /\ e \in Seq(S) /\ Len(e) = n + k
      /\ \A i \in 1 .. n + k : e[i] = IF i <= n THEN p[i] ELSE q[i - n]
  BY ConcatProperties
<1> HIDE DEF e
<1>3. /\ h \in Seq(S) /\ Len(h) = l
      /\ \A i \in 1 .. l : h[i] = p[a + i - 1]
  BY <1>1, Slice
<1> HIDE DEF h
<1>4. /\ t \in Seq(S) /\ Len(t) = l + k
      /\ \A i \in 1 .. l + k : t[i] = IF i <= l THEN h[i] ELSE q[i - l]
  <2>1. q \in Seq(S) /\ Len(q) = k
    OBVIOUS
  <2> HIDE DEF k, l
  <2> QED BY <1>3, <2>1, ConcatProperties
<1> HIDE DEF n, k
<1>5. /\ d \in Nat /\ a <= d + 1 /\ d <= Len(e) /\ d - a + 1 = l + k /\ l \in Nat
  <2>1. l \in Nat /\ d \in Nat /\ a <= d + 1 /\ d - a + 1 = l + k
    BY <1>1
  <2> HIDE DEF l
  <2>2. d <= Len(e)
    BY <1>1, <1>2
  <2> QED BY <2>1, <2>2
<1> HIDE DEF d
<1>6. /\ r \in Seq(S) /\ Len(r) = d - a + 1
      /\ \A i \in 1 .. (d - a + 1) : r[i] = e[a + i - 1]
  BY <1>2, <1>5, Slice
<1> HIDE DEF r, t
<1>7. ASSUME NEW i \in 1 .. l + k PROVE r[i] = t[i]
  <2>1. a + i - 1 \in 1 .. n + k
    BY <1>1
  <2>2. r[i] = e[a + i - 1]
    BY <1>5, <1>6
  <2>3. CASE i <= l
    <3>1. i \in 1 .. l /\ a + i - 1 <= n
      BY <1>1, <2>3
    <3>2. t[i] = h[i] /\ h[i] = p[a + i - 1] /\ e[a + i - 1] = p[a + i - 1]
      <4> HIDE DEF l
      <4> QED BY <1>2, <1>3, <1>4, <2>1, <2>3, <3>1
    <3> QED BY <2>2, <3>2
  <2>4. CASE ~(i <= l)
    <3>1. ~(a + i - 1 <= n) /\ a + i - 1 - n = i - l
      BY <1>1, <2>4
    <3>2. t[i] = q[i - l]
      <4> HIDE DEF l
      <4> QED BY <1>4, <2>4
    <3>3. e[a + i - 1] = q[a + i - 1 - n]
      <4>1. i \in Nat
        BY <1>5
      <4> HIDE DEF l
      <4> QED BY <1>1, <1>2, <2>1, <3>1, <4>1
    <3> QED BY <2>2, <3>1, <3>2, <3>3
  <2> QED BY <2>3, <2>4
<1> HIDE DEF l
<1>8. r = t
  BY <1>4, <1>5, <1>6, <1>7, SeqEqual
<1> QED BY <1>8 DEF r, t, e, d, h, n, k

(* A part of a part.                                                       *)
LEMMA SliceOfSlice ==
  ASSUME NEW S, NEW q \in Seq(S), NEW a \in Nat, NEW b \in Nat, 1 <= a, a <= b + 1, b <= Len(q),
         NEW m \in Nat, NEW n \in Nat, 1 <= m, m <= n + 1, n <= b - a + 1
  PROVE  SubSeq(SubSeq(q, a, b), m, n) = SubSeq(q, a + m - 1, a + n - 1)
<1> DEFINE p == SubSeq(q, a, b)
           r == SubSeq(p, m, n)
           c == a + m - 1
           d == a + n - 1
           t == SubSeq(q, c, d)
           l == Len(q)
<1>1. l \in Nat /\ b <= l
  BY LenProperties
<1>2. /\ p \in Seq(S) /\ Len(p) = b - a + 1
      /\ \A i \in 1 .. (b - a + 1) : p[i] = q[a + i - 1]
  BY Slice
<1> HIDE DEF p, l
<1>3. n <= Len(p)
  BY <1>2
<1>4. /\ r \in Seq(S) /\ Len(r) = n - m + 1
      /\ \A i \in 1 .. (n - m + 1) : r[i] = p[m + i - 1]
  BY <1>2, <1>3, Slice
<1>5. /\ c \in Nat /\ d \in Nat /\ 1 <= c /\ c <= d + 1 /\ d <= l /\ d - c + 1 = n - m + 1
  BY <1>1
<1> HIDE DEF c, d
<1>6. /\ t \in Seq(S) /\ Len(t) = d - c + 1
      /\ \A i \in 1 .. (d - c + 1) : t[i] = q[c + i - 1]
  BY <1>5, Slice DEF l
<1> HIDE DEF r, t
<1>7. ASSUME NEW i \in 1 .. (n - m + 1) PROVE r[i] = t[i]
  <2>1. m + i - 1 \in 1 .. (b - a + 1) /\ a + (m + i - 1) - 1 = c + i - 1
    BY DEF c
  <2> QED BY <1>2, <1>4, <1>5, <1>6, <2>1
<1>8. r = t
  BY <1>4, <1>5, <1>6, <1>7, SeqEqual
<1> QED BY <1>8 DEF r, t, p, c, d

(* Two parts that follow one another.                                      *)
LEMMA SlicesJoin ==
  ASSUME NEW S, NEW q \in Seq(S), NEW a \in Nat, NEW b \in Nat, NEW c \in Nat,
         1 <= a, a <= b + 1, b <= c, c <= Len(q)
  PROVE  SubSeq(q, a, b) \o SubSeq(q, b + 1, c) = SubSeq(q, a, c)
<1> DEFINE d == b + 1
           x == SubSeq(q, a, b)
           y == SubSeq(q, d, c)
           z == SubSeq(q, a, c)
           w == x \o y
           n == b - a + 1
           k == c - b
           l == Len(q)
<1>1. l \in Nat /\ c <= l
  BY LenProperties
<1>2. b <= Len(q) /\ a <= c + 1 /\ d \in Nat /\ 1 <= d /\ d <= c + 1
  <2>1. b <= l /\ a <= c + 1 /\ d \in Nat /\ 1 <= d /\ d <= c + 1
    <3> HIDE DEF l
    <3> QED BY <1>1
  <2> QED BY <2>1
<1> HIDE DEF l
<1>3. x \in Seq(S) /\ Len(x) = n /\ \A i \in 1 .. n : x[i] = q[a + i - 1]
  BY <1>2, Slice
<1>4. y \in Seq(S) /\ Len(y) = c - d + 1 /\ \A i \in 1 .. (c - d + 1) : y[i] = q[d + i - 1]
  <2> HIDE DEF d
  <2> QED BY <1>2, Slice
<1>5. z \in Seq(S) /\ Len(z) = c - a + 1 /\ \A i \in 1 .. (c - a + 1) : z[i] = q[a + i - 1]
  BY <1>2, Slice
<1> HIDE DEF x, y, z
<1>6. c - d + 1 = k /\ c - a + 1 = n + k /\ n \in Nat /\ k \in Nat
  OBVIOUS
<1>7. /\ w \in Seq(S) /\ Len(w) = n + k
      /\ \A i \in 1 .. n + k : w[i] = IF i <= n THEN x[i] ELSE y[i - n]
  <2>1. x \in Seq(S) /\ y \in Seq(S) /\ Len(x) = n /\ Len(y) = k
    BY <1>3, <1>4, <1>6
  <2> HIDE DEF n, k
  <2> QED BY <2>1, ConcatProperties
<1> HIDE DEF w
<1>8. ASSUME NEW i \in 1 .. n + k PROVE w[i] = z[i]
  <2>1. z[i] = q[a + i - 1]
    BY <1>5, <1>6
  <2>2. CASE i <= n
    <3>1. i \in 1 .. n
      BY <2>2
    <3> QED BY <1>3, <1>7, <2>1, <2>2, <3>1
  <2>3. CASE ~(i <= n)
    <3>1. i - n \in 1 .. k /\ d + (i - n) - 1 = a + i - 1
      BY <2>3
    <3>2. w[i] = y[i - n]
      <4> HIDE DEF n, k
      <4> QED BY <1>7, <2>3
    <3> QED BY <1>4, <1>6, <2>1, <3>1, <3>2
  <2> QED BY <2>2, <2>3
<1>9. w = z
  <2>1. Len(w) = n + k /\ Len(z) = n + k
    BY <1>5, <1>6, <1>7
  <2> HIDE DEF n, k
  <2> QED BY <1>5, <1>7, <1>8, <2>1, SeqEqual
<1> QED BY <1>9 DEF w, x, y, z, d

(* The first elements and one more.                                        *)
LEMMA OneMore ==
  ASSUME NEW S, NEW q \in Seq(S), NEW i \in 1 .. Len(q)
  PROVE  /\ SubSeq(q, 1, i - 1) \in Seq(S) /\ SubSeq(q, 1, i) \in Seq(S) /\ Len(SubSeq(q, 1, i)) = i
         /\ SubSeq(q, 1, i - 1) \o <<q[i]>> = SubSeq(q, 1, i)
<1> DEFINE n == Len(q)
           h == i - 1
<1>1. n \in Nat
  BY LenProperties
<1>2. i \in Nat /\ h \in Nat /\ 1 <= h + 1 /\ h <= i /\ i <= n /\ h <= n /\ h + 1 = i /\ 1 <= i
      /\ 1 <= i + 1
  <2>1. i \in 1 .. n
    OBVIOUS
  <2> HIDE DEF n
  <2> QED BY <1>1, <2>1
<1>3. SubSeq(q, 1, h) \o SubSeq(q, h + 1, i) = SubSeq(q, 1, i)
  <2> HIDE DEF h
  <2> QED BY <1>2, SlicesJoin
<1>4. SubSeq(q, 1, h) \in Seq(S) /\ SubSeq(q, 1, i) \in Seq(S) /\ Len(SubSeq(q, 1, i)) = i - 1 + 1
  <2> HIDE DEF h
  <2> QED BY <1>2, Slice
<1>5. SubSeq(q, i, i) = <<q[i]>>
  <2> DEFINE r == SubSeq(q, i, i)
  <2>1. i <= i + 1 /\ i <= Len(q)
    BY <1>2
  <2>2. r \in Seq(S) /\ Len(r) = i - i + 1 /\ \A j \in 1 .. (i - i + 1) : r[j] = q[i + j - 1]
    BY <1>2, <2>1, Slice
  <2> HIDE DEF r
  <2>3. i - i + 1 = 1 /\ 1 \in 1 .. 1 /\ i + 1 - 1 = i
    BY <1>2
  <2>4. Len(r) = 1 /\ r[1] = q[i]
    BY <2>2, <2>3
  <2>5. \A j \in 1 .. 1 : r[j] = <<q[i]>>[j]
    BY <2>4
  <2>6. q[i] \in S
    BY ElementOfSeq
  <2>7. <<q[i]>> \in Seq(S) /\ Len(<<q[i]>>) = 1
    BY <2>6
  <2>8. r = <<q[i]>>
    BY <2>2, <2>4, <2>5, <2>7, SeqEqual
  <2> QED BY <2>8 DEF r
<1>6. Len(SubSeq(q, 1, i)) = i
  BY <1>2, <1>4
<1> QED BY <1>2, <1>3, <1>4, <1>5, <1>6 DEF h

----------------------------------------------------------------------------
(* Folds.  FoldLeft takes an operator, which no lemma can be told; so each *)
(* fold has a lemma of its own that it runs, and these are what it rests   *)
(* on.                                                                     *)

(* The greatest of a set is the one that is as great as each.              *)
LEMMA MaxIs ==
  ASSUME NEW T, T \subseteq Int, NEW x \in T, \A y \in T : y <= x
  PROVE  Max(T) = x
<1> DEFINE P(z) == z \in T /\ \A y \in T : z >= y
<1>1. P(x)
  OBVIOUS
<1>2. Max(T) = CHOOSE z : P(z)
  BY DEF Max
<1>3. P(Max(T))
  BY <1>1, <1>2
<1>4. Max(T) >= x /\ x >= Max(T) /\ x \in Int /\ Max(T) \in Int
  BY <1>3
<1> QED BY <1>4

(* The greatest of the first numbers.                                      *)
LEMMA GreatestOfFirst ==
  ASSUME NEW n \in Nat, n # 0
  PROVE  Max(1 .. n) = n /\ (1 .. n) \ {n} = 1 .. (n - 1)
<1>1. 1 .. n \subseteq Int /\ n \in 1 .. n /\ \A y \in 1 .. n : y <= n
  OBVIOUS
<1>2. (1 .. n) \ {n} = 1 .. (n - 1)
  OBVIOUS
<1> QED BY <1>1, <1>2, MaxIs

(* A set of the first numbers has a greatest.                              *)
LEMMA GreatestNumber ==
  ASSUME NEW n \in Nat, NEW T, T \subseteq 1 .. n, T # {}
  PROVE  Max(T) \in T /\ \A y \in T : y <= Max(T)
<1> DEFINE U == {n - x : x \in T}
<1>1. U \subseteq Nat /\ U # {}
  <2>1. \A x \in T : n - x \in Nat
    OBVIOUS
  <2> QED BY <2>1
<1>2. PICK u \in U : \A v \in U : u <= v
  BY <1>1, LeastNumber
<1>3. PICK x \in T : u = n - x
  BY <1>2
<1>4. ASSUME NEW y \in T PROVE y <= x
  <2>1. n - y \in U
    OBVIOUS
  <2>2. n - x <= n - y
    BY <1>2, <1>3, <2>1
  <2>3. n \in Int /\ x \in Int /\ y \in Int
    OBVIOUS
  <2> HIDE DEF U
  <2> QED BY <2>2, <2>3
<1>5. T \subseteq Int
  OBVIOUS
<1>6. Max(T) = x
  BY <1>4, <1>5, MaxIs
<1> QED BY <1>4, <1>6

(* What steps from 0 to n keep.                                            *)
LEMMA KeptBySteps ==
  ASSUME NEW n \in Nat, NEW S, NEW g, g[0] \in S,
         \A i \in 1 .. n : g[i - 1] \in S => g[i] \in S
  PROVE  \A i \in 0 .. n : g[i] \in S
<1> DEFINE T == {i \in 0 .. n : g[i] \notin S}
<1>1. SUFFICES ASSUME T # {} PROVE FALSE
  OBVIOUS
<1>2. T \subseteq Nat
  OBVIOUS
<1>3. PICK k \in T : \A j \in T : k <= j
  BY <1>1, <1>2, LeastNumber
<1>4. k \in 1 .. n /\ k - 1 \in 0 .. n /\ k - 1 \notin T
  BY <1>3
<1> QED BY <1>3, <1>4

(* What holds at 0, and at each number if at the one before, holds to n.   *)
LEMMA Stepwise ==
  ASSUME NEW n \in Nat, NEW T, 0 \in T, \A i \in 1 .. n : i - 1 \in T => i \in T
  PROVE  \A i \in 0 .. n : i \in T
<1> DEFINE U == {i \in 0 .. n : i \notin T}
<1>1. SUFFICES ASSUME U # {} PROVE FALSE
  OBVIOUS
<1>2. U \subseteq Nat
  OBVIOUS
<1>3. PICK k \in U : \A j \in U : k <= j
  BY <1>1, <1>2, LeastNumber
<1>4. k \in 1 .. n /\ k - 1 \in 0 .. n /\ k - 1 \notin U
  BY <1>3
<1> QED BY <1>3, <1>4

(* it holds what the steps F make of base over each set of numbers.        *)
Iterates(it, n, S, base, F) ==
  /\ it \in [SUBSET (1 .. n) -> S]
  /\ \A s \in SUBSET (1 .. n) :
       it[s] = IF s = {} THEN base ELSE F[<<it[s \ {Max(s)}], Max(s)>>]

(* A step that stays within a set can be taken over the elements of every  *)
(* set of the first n numbers, in their order.                             *)
LEMMA Iteration ==
  ASSUME NEW n \in Nat, NEW S, NEW base \in S, NEW F,
         \A b \in S, i \in 1 .. n : F[<<b, i>>] \in S
  PROVE  \E it : Iterates(it, n, S, base, F)
<1> DEFINE Runs(it, k) ==
             \A s \in SUBSET (1 .. k) :
               it[s] = IF s = {} THEN base ELSE F[<<it[s \ {Max(s)}], Max(s)>>]
           T == {k \in 0 .. n : ~\E it \in [SUBSET (1 .. k) -> S] : Runs(it, k)}
<1>1. SUFFICES ASSUME T # {} PROVE FALSE
  <2> HIDE DEF Runs
  <2>1. T = {}
    BY <1>1, Zenon
  <2>2. n \in 0 .. n
    OBVIOUS
  <2>3. \E it \in [SUBSET (1 .. n) -> S] : Runs(it, n)
    BY <2>1, <2>2
  <2> QED BY <2>3 DEF Runs, Iterates
<1>2. T \subseteq Nat
  OBVIOUS
<1>3. PICK k \in T : \A j \in T : k <= j
  BY <1>1, <1>2, LeastNumber
<1>4. k # 0
  <2> DEFINE it == [s \in SUBSET (1 .. 0) |-> base]
  <2>1. it \in [SUBSET (1 .. 0) -> S] /\ \A s \in SUBSET (1 .. 0) : s = {} /\ it[s] = base
    OBVIOUS
  <2> HIDE DEF it
  <2>2. Runs(it, 0)
    <3> SUFFICES ASSUME NEW s \in SUBSET (1 .. 0)
                 PROVE  it[s] = IF s = {} THEN base ELSE F[<<it[s \ {Max(s)}], Max(s)>>]
      OBVIOUS
    <3>1. s = {} /\ it[s] = base
      BY <2>1
    <3> QED BY <3>1, Zenon
  <2>3. 0 \notin T
    BY <2>1, <2>2
  <2> QED BY <1>3, <2>3
<1>5. k \in 1 .. n /\ k - 1 \in 0 .. n /\ k - 1 \notin T
  <2>1. k \in 0 .. n
    BY <1>3
  <2>2. k \in 1 .. n /\ k - 1 \in 0 .. n /\ ~(k <= k - 1)
    BY <1>4, <2>1
  <2> HIDE DEF T
  <2> QED BY <1>3, <2>2
<1>6. PICK before \in [SUBSET (1 .. (k - 1)) -> S] : Runs(before, k - 1)
  BY <1>5
<1> DEFINE it == [s \in SUBSET (1 .. k) |->
                    IF k \in s THEN F[<<before[s \ {k}], k>>] ELSE before[s]]
<1>7. ASSUME NEW s \in SUBSET (1 .. k), k \notin s
      PROVE  s \in SUBSET (1 .. (k - 1))
  BY <1>5, <1>7
<1>8. ASSUME NEW s \in SUBSET (1 .. k)
      PROVE  s \ {k} \in SUBSET (1 .. (k - 1)) /\ s \ {k} \in SUBSET (1 .. k)
  BY <1>5
<1>9. it \in [SUBSET (1 .. k) -> S]
  <2> SUFFICES ASSUME NEW s \in SUBSET (1 .. k)
               PROVE  (IF k \in s THEN F[<<before[s \ {k}], k>>] ELSE before[s]) \in S
    OBVIOUS
  <2>1. before[s \ {k}] \in S
    BY <1>8
  <2> QED BY <1>5, <1>7, <2>1
<1>10. Runs(it, k)
  <2> SUFFICES ASSUME NEW s \in SUBSET (1 .. k)
               PROVE  it[s] = IF s = {} THEN base ELSE F[<<it[s \ {Max(s)}], Max(s)>>]
    OBVIOUS
  <2>1. CASE k \in s
    <3>1. Max(s) = k
      <4>1. s \subseteq Int /\ \A y \in s : y <= k
        BY <1>5
      <4> QED BY <2>1, <4>1, MaxIs
    <3>2. it[s \ {k}] = before[s \ {k}]
      BY <1>8
    <3>3. it[s] = F[<<before[s \ {k}], k>>]
      BY <2>1
    <3> QED BY <2>1, <3>1, <3>2, <3>3
  <2>2. CASE k \notin s
    <3>1. s \in SUBSET (1 .. (k - 1)) /\ it[s] = before[s]
      BY <1>7, <2>2
    <3>2. before[s] = IF s = {} THEN base ELSE F[<<before[s \ {Max(s)}], Max(s)>>]
      BY <1>6, <3>1
    <3>3. it[s \ {Max(s)}] = before[s \ {Max(s)}]
      BY <1>8, <2>2
    <3> QED BY <3>1, <3>2, <3>3
  <2> QED BY <2>1, <2>2
<1> QED BY <1>3, <1>9, <1>10

=============================================================================
