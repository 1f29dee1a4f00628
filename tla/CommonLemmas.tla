---------------------------- MODULE CommonLemmas ----------------------------
(***************************************************************************)
(* What the proofs of several modules rest on: induction over the natural  *)
(* numbers in forms without operator parameters, from the well-foundedness *)
(* of their order, about sets and about functions that are defined by      *)
(* recursion on their argument; products and quotients; the pieces of a    *)
(* sequence; and what FlattenSeq concatenates.                             *)
(***************************************************************************)
EXTENDS Integers, Sequences, SequencesExt, NaturalsInduction, WellFoundedInduction, TLAPS

(* A set of natural numbers has a least element. *)
LEMMA Least ==
  ASSUME NEW T, T \subseteq Nat, T # {}
  PROVE  \E n \in T : \A m \in T : n <= m
<1> DEFINE R == OpToRel(<, Nat)
<1>1. IsWellFoundedOn(R, Nat)
  BY NatLessThanWellFounded
<1>2. \A m, k \in Nat : m < k => <<m, k>> \in R
  BY DEF OpToRel
<1> HIDE DEF R
<1>3. PICK n \in T : \A m \in T : <<m, n>> \notin R
  BY <1>1, WFMin
<1>4. ASSUME NEW m \in T PROVE n <= m
  <2>1. ~(m < n)
    BY <1>2, <1>3, Zenon
  <2> QED
    BY <2>1
<1> QED
  BY <1>4

(* A set that holds 0 and the successors of its elements holds all. *)
LEMMA Inductive ==
  ASSUME NEW T, 0 \in T, \A n \in Nat : n \in T => n + 1 \in T
  PROVE  Nat \subseteq T
<1> SUFFICES ASSUME ~(Nat \subseteq T) PROVE FALSE
  OBVIOUS
<1>1. PICK n \in Nat \ T : \A m \in Nat \ T : n <= m
  BY Least
<1>2. n # 0 /\ n - 1 \in Nat /\ n - 1 \in T
  BY <1>1
<1> QED
  BY <1>1, <1>2

(* f has the value base at 0 and goes on by step from there to n. *)
Recursion(f, S, base, step, n) ==
  f \in [0..n -> S] /\ f[0] = base /\ \A i \in 1..n : f[i] = step[i][f[i - 1]]

(* There is such a function. *)
LEMMA RecursionExists ==
  ASSUME NEW S, NEW base \in S, NEW step \in [Nat -> [S -> S]], NEW n \in Nat
  PROVE  \E f : Recursion(f, S, base, step, n)
<1> DEFINE Fits(f, m) == f[0] = base /\ \A i \in 1..m : f[i] = step[i][f[i - 1]]
           T == {m \in Nat : \E f \in [0..m -> S] : Fits(f, m)}
<1>1. 0 \in T
  <2> DEFINE f == [i \in 0..0 |-> base]
  <2>1. f \in [0..0 -> S] /\ Fits(f, 0)
    BY SMT
  <2> HIDE DEF f, Fits
  <2> QED
    BY <2>1
<1>2. ASSUME NEW m \in Nat, m \in T PROVE m + 1 \in T
  <2>1. PICK f \in [0..m -> S] : Fits(f, m)
    BY <1>2
  <2> DEFINE g == [i \in 0..(m + 1) |-> IF i = m + 1 THEN step[m + 1][f[m]] ELSE f[i]]
  <2>2. f[m] \in S /\ step[m + 1] \in [S -> S]
    BY <2>1, SMT
  <2>3. g \in [0..(m + 1) -> S]
    BY <2>1, <2>2, SMT
  <2>4. Fits(g, m + 1)
    <3>1. g[0] = base
      BY <2>1, SMT
    <3>2. ASSUME NEW i \in 1..(m + 1) PROVE g[i] = step[i][g[i - 1]]
      <4>1. CASE i = m + 1
        <5>1. g[i] = step[m + 1][f[m]]
          BY <4>1
        <5>2. g[i - 1] = f[m]
          BY <4>1, SMT
        <5> QED
          BY <4>1, <5>1, <5>2
      <4>2. CASE i \in 1..m
        <5>1. g[i] = f[i] /\ g[i - 1] = f[i - 1]
          BY <4>2, SMT
        <5>2. f[i] = step[i][f[i - 1]]
          BY <2>1, <4>2
        <5> QED
          BY <5>1, <5>2
      <4> QED
        BY <4>1, <4>2, SMT
    <3> QED
      BY <3>1, <3>2
  <2> HIDE DEF g, Fits
  <2>5. \E h \in [0..(m + 1) -> S] : Fits(h, m + 1)
    BY <2>3, <2>4
  <2>6. m + 1 \in Nat
    BY SMT
  <2> QED
    BY <2>5, <2>6
<1>3. n \in T
  <2> HIDE DEF T
  <2> QED
    BY <1>1, <1>2, Inductive
<1> QED
  BY <1>3 DEF Recursion

(* What goes on by step stays in the set that step keeps. *)
LEMMA RecursionType ==
  ASSUME NEW S, NEW step \in [Nat -> [S -> S]], NEW n \in Nat, NEW f, f[0] \in S,
         \A i \in 1..n : f[i - 1] \in S => f[i] = step[i][f[i - 1]]
  PROVE  \A i \in 0..n : f[i] \in S
<1> DEFINE T == {i \in Nat : i <= n => f[i] \in S}
<1>1. 0 \in T
  OBVIOUS
<1>2. ASSUME NEW i \in Nat, i \in T PROVE i + 1 \in T
  <2>1. CASE i + 1 <= n
    <3>1. i + 1 \in 1..n /\ i <= n /\ (i + 1) - 1 = i /\ i + 1 \in Nat
      BY <2>1, SMT
    <3>2. f[i] \in S
      BY <1>2, <3>1
    <3>3. f[i + 1] = step[i + 1][f[i]]
      BY <3>1, <3>2, Zenon
    <3>4. f[i + 1] \in S
      BY <3>1, <3>2, <3>3
    <3> QED
      BY <3>1, <3>4
  <2> QED
    BY <2>1
<1> HIDE DEF T
<1>3. Nat \subseteq T
  BY <1>1, <1>2, Inductive
<1> QED
  BY <1>3, SMT DEF T

-----------------------------------------------------------------------------
(* Products and quotients. *)

(* A product of natural numbers is one. *)
LEMMA ProductNat ==
  ASSUME NEW q \in Nat, NEW b \in Nat
  PROVE  q * b \in Nat
  BY SMT

(* The multiple after one is at most a later one. *)
LEMMA NextMultiple ==
  ASSUME NEW q \in Nat, NEW w \in Nat, NEW b \in Nat, q < w
  PROVE  q * b + b <= w * b
<1>1. PICK d \in Nat : w = q + 1 + d
  BY SMT
<1>2. w * b = q * b + b + d * b
  BY <1>1, SMT
<1>3. d * b \in Nat
  BY ProductNat
<1> QED
  BY <1>2, <1>3, ProductNat, SMT

(* A quotient of natural numbers is one. *)
LEMMA QuotientNat ==
  ASSUME NEW a \in Nat, NEW b \in Nat \ {0}
  PROVE  a \div b \in Nat
  BY SMT

(* The quotient of a multiple is its factor. *)
LEMMA FactorOf ==
  ASSUME NEW q \in Nat, NEW b \in Nat \ {0}
  PROVE  (q * b) \div b = q
  BY SMT

(* A number is its quotient's multiple and its remainder. *)
LEMMA Division ==
  ASSUME NEW a \in Nat, NEW n \in Nat \ {0}
  PROVE  a = (a \div n) * n + (a % n) /\ a \div n \in Nat /\ a % n \in 0..n - 1
  BY SMT

-----------------------------------------------------------------------------
(* Pieces of a sequence. *)

LEMMA PieceOf ==
  ASSUME NEW S, NEW s \in Seq(S), NEW a \in Nat, NEW b \in Nat, a <= b, b <= Len(s)
  PROVE  /\ SubSeq(s, a + 1, b) \in Seq(S) /\ Len(SubSeq(s, a + 1, b)) = b - a
         /\ \A i \in 1..(b - a) : SubSeq(s, a + 1, b)[i] = s[a + i]
  BY SMT

LEMMA SameSeq ==
  ASSUME NEW S, NEW s \in Seq(S), NEW t \in Seq(S), Len(s) = Len(t),
         \A i \in 1..Len(s) : s[i] = t[i]
  PROVE  s = t
  BY SMT

(* A sequence over a set is one over every larger set. *)
LEMMA WiderSeq ==
  ASSUME NEW S, NEW T, S \subseteq T, NEW s \in Seq(S)
  PROVE  s \in Seq(T)
<1>1. Len(s) \in Nat /\ (\A i \in 1..Len(s) : s[i] \in T) /\ s = [i \in 1..Len(s) |-> s[i]]
  BY SMT
<1> QED
  BY <1>1, SMT

LEMMA Prefix ==
  ASSUME NEW S, NEW s \in Seq(S), NEW n \in Nat, n <= Len(s)
  PROVE  SubSeq(s, 1, n) \in Seq(S) /\ Len(SubSeq(s, 1, n)) = n /\ \A i \in 1..n : SubSeq(s, 1, n)[i] = s[i]
<1>1. 0 + 1 = 1 /\ 0 \in Nat /\ 0 <= n /\ n - 0 = n /\ \A i \in 1..n : 0 + i = i
  BY SMT
<1>2. /\ SubSeq(s, 0 + 1, n) \in Seq(S) /\ Len(SubSeq(s, 0 + 1, n)) = n - 0
      /\ \A i \in 1..(n - 0) : SubSeq(s, 0 + 1, n)[i] = s[0 + i]
  BY <1>1, PieceOf
<1> QED
  BY <1>1, <1>2

LEMMA Associative ==
  ASSUME NEW s \in Seq(Nat), NEW t \in Seq(Nat), NEW u \in Seq(Nat)
  PROVE  (s \o t) \o u = s \o (t \o u)
<1> DEFINE x == (s \o t) \o u
           y == s \o (t \o u)
<1>1. x \in Seq(Nat) /\ y \in Seq(Nat) /\ Len(x) = Len(y)
  OBVIOUS
<1>2. ASSUME NEW i \in 1..Len(x) PROVE x[i] = y[i]
  OBVIOUS
<1> HIDE DEF x, y
<1>3. x = y
  BY <1>1, <1>2, SameSeq
<1> QED
  BY <1>3 DEF x, y

(* A place beyond the first of two sequences is one of the second. *)
LEMMA Appended ==
  ASSUME NEW S, NEW s \in Seq(S), NEW t \in Seq(S), NEW k \in Nat, NEW l \in Nat,
         k = Len(s), l = Len(t), NEW i \in 1..k + l, NEW j \in 1..l, j = i - k
  PROVE  (s \o t)[i] = t[j]
<1>1. i \in 1..Len(s) + Len(t) /\ ~(i <= Len(s))
  BY SMT
<1>2. (s \o t)[i] = t[i - Len(s)]
  BY <1>1, SMT
<1> QED
  BY <1>2

LEMMA Joined ==
  ASSUME NEW S, NEW s \in Seq(S), NEW a \in Nat, NEW b \in Nat, NEW c \in Nat,
         a <= b, b <= c, c <= Len(s)
  PROVE  SubSeq(s, a + 1, b) \o SubSeq(s, b + 1, c) = SubSeq(s, a + 1, c)
<1> DEFINE x == SubSeq(s, a + 1, b)
           y == SubSeq(s, b + 1, c)
           z == SubSeq(s, a + 1, c)
<1>1. /\ x \in Seq(S) /\ Len(x) = b - a /\ \A i \in 1..(b - a) : x[i] = s[a + i]
      /\ y \in Seq(S) /\ Len(y) = c - b /\ \A i \in 1..(c - b) : y[i] = s[b + i]
      /\ z \in Seq(S) /\ Len(z) = c - a /\ \A i \in 1..(c - a) : z[i] = s[a + i]
  BY PieceOf, SMT
<1> HIDE DEF x, y, z
<1>2. x \o y \in Seq(S) /\ Len(x \o y) = c - a
  BY <1>1, SMT
<1>3. ASSUME NEW i \in 1..(c - a) PROVE (x \o y)[i] = z[i]
  <2>1. CASE i <= b - a
    <3>1. i \in 1..(b - a) /\ (x \o y)[i] = x[i]
      BY <1>1, <2>1, SMT
    <3> QED
      BY <1>1, <3>1
  <2>2. CASE ~(i <= b - a)
    <3>1. PICK k \in Nat, l \in Nat : k = b - a /\ l = c - b
      BY SMT
    <3>2. PICK j \in 1..l : j = i - k
      BY <2>2, <3>1, SMT
    <3>3. Len(x) = k /\ Len(y) = l /\ i \in 1..k + l /\ i > k /\ b + j = a + i
      BY <1>1, <2>2, <3>1, <3>2, SMT
    <3>4. x \in Seq(S) /\ y \in Seq(S)
      BY <1>1
    <3>5. (x \o y)[i] = y[j]
      BY <3>1, <3>2, <3>3, <3>4, Appended
    <3>6. y[j] = s[b + j] /\ z[i] = s[a + i]
      BY <1>1, <3>1
    <3> QED
      BY <3>3, <3>5, <3>6
  <2> QED
    BY <2>1, <2>2
<1>4. x \o y = z
  BY <1>1, <1>2, <1>3, SameSeq
<1> QED
  BY <1>4 DEF x, y, z

(* What is left of a piece after its first n elements. *)
LEMMA Dropped ==
  ASSUME NEW S, NEW s \in Seq(S), NEW a \in Nat, NEW b \in Nat, a <= b, b <= Len(s),
         NEW n \in 0..(b - a), NEW x, x = SubSeq(s, a + 1, b)
  PROVE  SubSeq(x, n + 1, Len(x)) = SubSeq(s, (a + n) + 1, b)
<1>1. x \in Seq(S) /\ Len(x) = b - a /\ \A i \in 1..(b - a) : x[i] = s[a + i]
  BY PieceOf
<1>2. n \in Nat /\ n <= Len(x) /\ Len(x) \in Nat /\ a + n \in Nat /\ a + n <= b
  BY <1>1, SMT
<1> DEFINE y == SubSeq(x, n + 1, Len(x))
           z == SubSeq(s, (a + n) + 1, b)
<1>3. y \in Seq(S) /\ Len(y) = Len(x) - n /\ \A i \in 1..(Len(x) - n) : y[i] = x[n + i]
  <2>1. PICK l \in Nat : l = Len(x)
    BY <1>2
  <2>2. n <= l /\ l <= Len(x)
    BY <1>2, <2>1, SMT
  <2>3. /\ SubSeq(x, n + 1, l) \in Seq(S) /\ Len(SubSeq(x, n + 1, l)) = l - n
        /\ \A i \in 1..(l - n) : SubSeq(x, n + 1, l)[i] = x[n + i]
    BY <1>1, <1>2, <2>2, PieceOf
  <2> QED
    BY <2>1, <2>3
<1>4. z \in Seq(S) /\ Len(z) = b - (a + n) /\ \A i \in 1..(b - (a + n)) : z[i] = s[(a + n) + i]
  BY <1>2, PieceOf
<1> HIDE DEF y, z
<1>5. ASSUME NEW i \in 1..Len(y) PROVE y[i] = z[i]
  <2>1. /\ i \in 1..(Len(x) - n) /\ i \in 1..(b - (a + n)) /\ n + i \in 1..(b - a)
        /\ a + (n + i) = (a + n) + i
    BY <1>1, <1>2, <1>3, SMT
  <2> QED
    BY <1>1, <1>3, <1>4, <2>1
<1>6. Len(y) = Len(z)
  BY <1>1, <1>2, <1>3, <1>4, SMT
<1>7. y = z
  BY <1>3, <1>4, <1>5, <1>6, SameSeq
<1> QED
  BY <1>7 DEF y, z

LEMMA TailOf ==
  ASSUME NEW S, NEW s \in Seq(S), NEW a \in Nat, NEW b \in Nat, a <= b, b <= Len(s),
         NEW x, x = SubSeq(s, a + 1, b), x # <<>>
  PROVE  /\ Tail(x) = SubSeq(s, (a + 1) + 1, b) /\ Head(x) = s[a + 1] /\ a + 1 <= b
         /\ Tail(x) \in Seq(S) /\ Len(Tail(x)) = Len(x) - 1 /\ Head(x) \in S
<1>1. x \in Seq(S) /\ Len(x) = b - a /\ \A i \in 1..(b - a) : x[i] = s[a + i]
  BY PieceOf
<1>2. Len(x) # 0 /\ 1 \in 1..(b - a) /\ 1 \in 0..(b - a)
  BY <1>1, SMT
<1>3. Tail(x) = SubSeq(x, 1 + 1, Len(x)) /\ Head(x) = x[1] /\ Head(x) \in S
      /\ Tail(x) \in Seq(S) /\ Len(Tail(x)) = Len(x) - 1
  BY <1>1, <1>2, SMT
<1> QED
  BY <1>1, <1>2, <1>3, Dropped, SMT
-----------------------------------------------------------------------------
(* Concatenation. *)

(* The concatenation of the first n sequences, for every n at once. *)
LEMMA Concatenation ==
  ASSUME NEW S, NEW s \in Seq(Seq(S))
  PROVE  \E f \in [0..Len(s) -> Seq(S)] :
            f[0] = <<>> /\ \A i \in 1..Len(s) : f[i] = f[i - 1] \o s[i]
<1> DEFINE N == Len(s)
           Q == Seq(S)
           step == [n \in Nat |-> [x \in Q |-> IF n \in 1..N THEN x \o s[n] ELSE x]]
<1>1. N \in Nat /\ <<>> \in Q /\ \A n \in 1..N : s[n] \in Q
  OBVIOUS
<1>2. \A x, y \in Q : x \o y \in Q
  OBVIOUS
<1> HIDE DEF N, Q
<1>3. step \in [Nat -> [Q -> Q]]
  BY <1>1, <1>2
<1>4. \A n \in 1..N, x \in Q : step[n][x] = x \o s[n]
  <2>1. \A n \in 1..N : n \in Nat
    BY <1>1, SMT
  <2> QED
    BY <2>1
<1> HIDE DEF step
<1>5. PICK f : Recursion(f, Q, <<>>, step, N)
  BY <1>1, <1>3, RecursionExists, Zenon
<1>6. f \in [0..N -> Q] /\ f[0] = <<>> /\ \A i \in 1..N : f[i] = step[i][f[i - 1]]
  BY <1>5 DEF Recursion
<1>7. \A i \in 1..N : i - 1 \in 0..N
  BY <1>1, SMT
<1>8. \A i \in 1..N : f[i] = f[i - 1] \o s[i]
  BY <1>4, <1>6, <1>7
<1> QED
  BY <1>6, <1>8 DEF N, Q

(* FlattenSeq of a prefix is that concatenation. *)
LEMMA FlattenIs ==
  ASSUME NEW S, NEW s \in Seq(Seq(S)), NEW f \in [0..Len(s) -> Seq(S)], f[0] = <<>>,
         \A i \in 1..Len(s) : f[i] = f[i - 1] \o s[i], NEW m \in 0..Len(s)
  PROVE  FlattenSeq(SubSeq(s, 1, m)) = f[m]
<1> DEFINE t == SubSeq(s, 1, m)
<1>1. Len(s) \in Nat /\ m \in Nat
  BY SMT
<1>2. Len(t) = m /\ \A i \in 1..m : t[i] = s[i]
  BY <1>1, SMT
<1>3. CASE m = 0
  <2>1. t = <<>>
    BY <1>3, SMT
  <2>2. FlattenSeq(t) = t
    BY <1>2, <1>3 DEF FlattenSeq
  <2> QED
    BY <1>3, <2>1, <2>2
<1>4. CASE m # 0
  <2> DEFINE Def(h) == [i \in 1..Len(t) |-> IF i = 1 THEN t[i] ELSE h[i - 1] \o t[i]]
             flatten == CHOOSE h : h = Def(h)
             g == [i \in 1..m |-> f[i]]
  <2>1. FlattenSeq(t) = flatten[m]
    BY <1>2, <1>4 DEF FlattenSeq
  <2> HIDE DEF t
  <2>2. f[1] = s[1] /\ 1 \in 1..m /\ 1 \in 1..Len(s)
    <3>1. 1 \in 1..Len(s) /\ s[1] \in Seq(S) /\ 1 \in 1..m /\ 1 - 1 = 0
      BY <1>1, <1>4, SMT
    <3>2. f[1] = f[0] \o s[1]
      BY <3>1
    <3>3. f[0] \o s[1] = s[1]
      BY <3>1
    <3> QED
      BY <3>1, <3>2, <3>3
  <2>3. g = Def(g)
    <3>1. ASSUME NEW i \in 1..m PROVE g[i] = IF i = 1 THEN t[i] ELSE g[i - 1] \o t[i]
      <4>1. CASE i = 1
        BY <1>2, <2>2, <4>1
      <4>2. CASE i # 1
        <5>1. i - 1 \in 1..m /\ i \in 1..Len(s)
          BY <1>1, <4>2, SMT
        <5>2. g[i] = f[i] /\ g[i - 1] = f[i - 1] /\ t[i] = s[i]
          BY <1>2, <5>1
        <5>3. f[i] = f[i - 1] \o s[i]
          BY <5>1
        <5> QED
          BY <4>2, <5>2, <5>3
      <4> QED
        BY <4>1, <4>2
    <3> QED
      BY <1>2, <3>1
  <2>4. flatten = Def(flatten)
    <3> HIDE DEF Def, g
    <3> QED
      BY <2>3
  <2> HIDE DEF flatten
  <2>5. \A i \in 1..m : flatten[i] = IF i = 1 THEN t[i] ELSE flatten[i - 1] \o t[i]
    BY <1>2, <2>4
  <2> DEFINE T == {i \in Nat : i + 1 <= m => flatten[i + 1] = f[i + 1]}
  <2>6. 0 \in T
    BY <1>2, <2>2, <2>5
  <2>7. ASSUME NEW i \in Nat, i \in T PROVE i + 1 \in T
    <3>1. CASE i + 2 <= m
      <4>1. /\ i + 2 \in 1..m /\ i + 2 \in 1..Len(s) /\ i + 2 # 1 /\ (i + 2) - 1 = i + 1
            /\ i + 1 <= m /\ (i + 1) + 1 = i + 2 /\ i + 1 \in Nat
        BY <1>1, <3>1, SMT
      <4>2. flatten[i + 2] = flatten[i + 1] \o t[i + 2]
        BY <2>5, <4>1, Zenon
      <4>3. f[i + 2] = f[i + 1] \o s[i + 2]
        BY <4>1, Zenon
      <4>4. flatten[i + 2] = f[i + 2]
        BY <1>2, <2>7, <4>1, <4>2, <4>3
      <4> QED
        BY <4>1, <4>4
    <3>2. CASE ~(i + 2 <= m)
      BY <1>1, <3>2, SMT
    <3> QED
      BY <3>1, <3>2
  <2> HIDE DEF T
  <2>8. Nat \subseteq T
    BY <2>6, <2>7, Inductive
  <2>9. m - 1 \in T /\ (m - 1) + 1 = m
    BY <1>1, <1>4, <2>8, SMT
  <2>10. flatten[m] = f[m]
    BY <1>1, <2>9, SMT DEF T
  <2> QED
    BY <2>1, <2>10 DEF t
<1> QED
  BY <1>3, <1>4

(* One more sequence is concatenated. *)
LEMMA FlattenNext ==
  ASSUME NEW S, NEW s \in Seq(Seq(S)), NEW m \in 1..Len(s)
  PROVE  FlattenSeq(SubSeq(s, 1, m)) = FlattenSeq(SubSeq(s, 1, m - 1)) \o s[m]
<1>1. PICK f \in [0..Len(s) -> Seq(S)] :
         f[0] = <<>> /\ \A i \in 1..Len(s) : f[i] = f[i - 1] \o s[i]
  BY Concatenation
<1>2. m \in 0..Len(s) /\ m - 1 \in 0..Len(s)
  BY SMT
<1>3. FlattenSeq(SubSeq(s, 1, m)) = f[m] /\ FlattenSeq(SubSeq(s, 1, m - 1)) = f[m - 1]
  BY <1>1, <1>2, FlattenIs
<1> QED
  BY <1>1, <1>3

LEMMA FlattenType ==
  ASSUME NEW S, NEW s \in Seq(Seq(S)), NEW m \in 0..Len(s)
  PROVE  /\ FlattenSeq(SubSeq(s, 1, m)) \in Seq(S)
         /\ m = 0 => FlattenSeq(SubSeq(s, 1, m)) = <<>>
         /\ m = Len(s) => FlattenSeq(SubSeq(s, 1, m)) = FlattenSeq(s)
<1>1. PICK f \in [0..Len(s) -> Seq(S)] :
         f[0] = <<>> /\ \A i \in 1..Len(s) : f[i] = f[i - 1] \o s[i]
  BY Concatenation
<1>2. FlattenSeq(SubSeq(s, 1, m)) = f[m]
  BY <1>1, FlattenIs
<1>3. SubSeq(s, 1, Len(s)) = s
  OBVIOUS
<1> QED
  BY <1>1, <1>2, <1>3
=============================================================================
