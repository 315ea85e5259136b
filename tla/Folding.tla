------------------------------- MODULE Folding -------------------------------
(***************************************************************************)
(* Facts about what is computed by recursion: folds over a sequence,        *)
(* functions of the naturals, and flattened sequences.  `Op` stands for the *)
(* step of a recursion; a module that needs a fact about its own step makes *)
(* an instance of this one.                                                 *)
(*                                                                         *)
(* Every proof by induction here is one by a least counterexample.          *)
(***************************************************************************)
EXTENDS Naturals, Sequences, FiniteSetsExt, WellFoundedInduction, TLAPS

CONSTANT Op(_, _)

-----------------------------------------------------------------------------
(* Induction *)

\* A set of naturals that is not empty has a least member.
LEMMA Least ==
    ASSUME NEW T \in SUBSET Nat, T # {}
    PROVE  \E x \in T : \A y \in T : x <= y
<1> DEFINE R == OpToRel(<, Nat)
<1>1. IsWellFoundedOn(R, Nat)
  BY NatLessThanWellFounded
<1>2. \A x, y \in Nat : <<x, y>> \in R <=> x < y
  BY DEF OpToRel
<1> HIDE DEF R
<1>3. \E x \in T : \A y \in T : ~ (<<y, x>> \in R)
  BY <1>1, WFMin
<1>4. \A x, y \in T : ~ (y < x) => x <= y
  OBVIOUS
<1>5. \A x, y \in T : ~ (<<y, x>> \in R) => ~ (y < x)
  BY <1>2
<1> QED
  BY <1>3, <1>4, <1>5

\* Induction: a set that has 0 and the next of each of its naturals has all naturals.
LEMMA Inductive ==
    ASSUME NEW S, 0 \in S, \A n \in Nat : n \in S => n + 1 \in S
    PROVE  \A n \in Nat : n \in S
<1>1. SUFFICES ASSUME NEW m \in Nat, m \notin S PROVE FALSE
  OBVIOUS
<1>2. PICK x \in Nat \ S : \A y \in Nat \ S : x <= y
  BY <1>1, Least
<1>3. x # 0 /\ x - 1 \in Nat /\ ~ (x <= x - 1) /\ (x - 1) + 1 = x
  OBVIOUS
<1>4. x - 1 \in S
  BY <1>2, <1>3
<1> QED
  BY <1>3, <1>4

\* The greatest of some of the first n naturals.
LEMMA Greatest ==
    ASSUME NEW n \in Nat, NEW T \in SUBSET (1..n), T # {}
    PROVE  Max(T) \in T /\ \A y \in T : Max(T) >= y
<1> DEFINE U == {k \in Nat : n - k \in T}
<1>1. U # {}
  <2>1. PICK t \in T : TRUE
    OBVIOUS
  <2>2. n - t \in Nat /\ n - (n - t) = t
    OBVIOUS
  <2> QED
    BY <2>1, <2>2
<1>2. PICK u \in U : \A v \in U : u <= v
  BY <1>1, Least
<1>3. \A y \in T : n - u >= y
  <2>1. SUFFICES ASSUME NEW y \in T PROVE n - u >= y
    OBVIOUS
  <2>2. n - y \in Nat /\ n - (n - y) = y
    OBVIOUS
  <2>3. n - y \in U
    BY <2>2
  <2>4. u <= n - y
    BY <1>2, <2>3
  <2>5. u \in Nat /\ n \in Nat /\ y \in Nat
    OBVIOUS
  <2> HIDE DEF U
  <2> QED
    BY <2>4, <2>5
<1>4. \E x \in T : \A y \in T : x >= y
  BY <1>3
<1> QED
  BY <1>4 DEF Max

\* Of the first n naturals the greatest is n.
LEMMA GreatestIsLast ==
    \A n \in Nat : \A T \in SUBSET (1..n) : n \in T => Max(T) = n
<1> TAKE n \in Nat
<1> TAKE T \in SUBSET (1..n)
<1>1. SUFFICES ASSUME n \in T PROVE Max(T) = n
  OBVIOUS
<1>2. Max(T) \in T /\ \A y \in T : Max(T) >= y
  BY <1>1, Greatest
<1>3. PICK m : m = Max(T)
  OBVIOUS
<1>4. m \in 1..n /\ m >= n
  BY <1>1, <1>2, <1>3
<1> QED
  BY <1>3, <1>4

\* The greatest of the first n + 1 naturals is n + 1; the first n are left.
LEMMA UpTo == \A n \in Nat : Max(1..(n + 1)) = n + 1 /\ (1..(n + 1)) \ {n + 1} = 1..n /\ 1..(n + 1) # {}
<1> TAKE n \in Nat
<1>1. n + 1 \in Nat /\ n + 1 \in 1..(n + 1)
  OBVIOUS
<1>2. Max(1..(n + 1)) = n + 1
  BY <1>1, GreatestIsLast
<1>3. (1..(n + 1)) \ {n + 1} = 1..n /\ 1..(n + 1) # {}
  OBVIOUS
<1> QED
  BY <1>2, <1>3

-----------------------------------------------------------------------------
(* Folds of a sequence from the left *)

\* What FoldLeft(Op, base, s) of SequencesExt is defined as.
Fold(base, s) == MapThenFoldSet(LAMBDA x, y : Op(y, x), base, LAMBDA i : s[i], LAMBDA S : Max(S), DOMAIN s)

\* What FoldLeft computes of each set of positions.
Iterates(g, n, base, s) ==
    g = [T \in SUBSET (1..n) |-> IF T = {} THEN base ELSE Op(g[T \ {Max(T)}], s[Max(T)])]

\* There is such a function, so a fold chooses one.
LEMMA IteratesExist ==
    ASSUME NEW n \in Nat, NEW base, NEW s
    PROVE  \E g : Iterates(g, n, base, s)
<1> DEFINE S == {k \in Nat : \E g : Iterates(g, k, base, s)}
<1>1. 0 \in S
  <2> DEFINE g == [T \in {{}} |-> base]
  <2>1. SUBSET (1..0) = {{}}
    OBVIOUS
  <2>2. g = [T \in SUBSET (1..0) |-> IF T = {} THEN base ELSE Op(g[T \ {Max(T)}], s[Max(T)])]
    BY <2>1
  <2> QED
    BY <2>2 DEF Iterates
<1>2. ASSUME NEW k \in Nat, k \in S PROVE k + 1 \in S
  <2>1. PICK g : Iterates(g, k, base, s)
    BY <1>2
  <2> DEFINE h == [T \in SUBSET (1..(k + 1)) |-> IF k + 1 \in T THEN Op(g[T \ {k + 1}], s[k + 1]) ELSE g[T]]
  <2>2. ASSUME NEW T \in SUBSET (1..(k + 1))
        PROVE  h[T] = IF T = {} THEN base ELSE Op(h[T \ {Max(T)}], s[Max(T)])
    <3>1. CASE k + 1 \in T
      <4>1. Max(T) = k + 1
        <5>1. k + 1 \in Nat
          OBVIOUS
        <5> HIDE DEF h
        <5> QED
          BY <3>1, <5>1, GreatestIsLast
      <4>2. T \ {k + 1} \in SUBSET (1..k) /\ T \ {k + 1} \in SUBSET (1..(k + 1)) /\ k + 1 \notin T \ {k + 1}
        OBVIOUS
      <4> QED
        BY <3>1, <4>1, <4>2
    <3>2. CASE k + 1 \notin T
      <4>1. T \in SUBSET (1..k) /\ h[T] = g[T]
        BY <3>2
      <4>2. g[T] = IF T = {} THEN base ELSE Op(g[T \ {Max(T)}], s[Max(T)])
        BY <2>1, <4>1 DEF Iterates
      <4>3. T # {} => h[T \ {Max(T)}] = g[T \ {Max(T)}]
        BY <3>2
      <4> QED
        BY <4>1, <4>2, <4>3
    <3> QED
      BY <3>1, <3>2
  <2>3. h = [T \in SUBSET (1..(k + 1)) |-> IF T = {} THEN base ELSE Op(h[T \ {Max(T)}], s[Max(T)])]
    BY <2>2
  <2> HIDE DEF h
  <2>4. Iterates(h, k + 1, base, s)
    BY <2>3 DEF Iterates
  <2> QED
    BY <2>4
<1> HIDE DEF S
<1>3. \A k \in Nat : k \in S
  BY <1>1, <1>2, Inductive
<1> QED
  BY <1>3 DEF S

\* A fold is what the function computes of all positions.
LEMMA FoldIterates ==
    ASSUME NEW n \in Nat, NEW base, NEW s, DOMAIN s = 1..n
    PROVE  \E g : Iterates(g, n, base, s) /\ Fold(base, s) = g[1..n]
<1> DEFINE c == CHOOSE g : Iterates(g, n, base, s)
<1>1. Iterates(c, n, base, s)
  BY IteratesExist
<1>2. Fold(base, s) = c[1..n]
  BY DEF Fold, MapThenFoldSet, Iterates
<1> QED
  BY <1>1, <1>2

\* The iterates of a longer sequence agree with those of its prefix.
LEMMA IteratesAgree ==
    ASSUME NEW n \in Nat, NEW m \in Nat, n <= m, NEW base, NEW s, NEW t, \A i \in 1..n : s[i] = t[i],
           NEW g, Iterates(g, n, base, s), NEW h, Iterates(h, m, base, t)
    PROVE  g[1..n] = h[1..n]
<1> DEFINE S == {k \in Nat : k <= n => g[1..k] = h[1..k]}
<1>1. 0 \in S
  <2>1. g[1..0] = base /\ h[1..0] = base
    BY DEF Iterates
  <2> QED
    BY <2>1
<1>2. ASSUME NEW k \in Nat, k \in S PROVE k + 1 \in S
  <2>1. SUFFICES ASSUME k + 1 <= n PROVE g[1..(k + 1)] = h[1..(k + 1)]
    OBVIOUS
  <2>2. Max(1..(k + 1)) = k + 1
    BY UpTo
  <2>3. (1..(k + 1)) \ {k + 1} = 1..k /\ 1..(k + 1) # {}
    BY UpTo
  <2>4. 1..(k + 1) \in SUBSET (1..n) /\ 1..(k + 1) \in SUBSET (1..m)
    BY <2>1
  <2> DEFINE U == 1..(k + 1)
  <2>5. g[U] = Op(g[U \ {Max(U)}], s[Max(U)])
    BY <2>3, <2>4 DEF Iterates
  <2>6. h[U] = Op(h[U \ {Max(U)}], t[Max(U)])
    BY <2>3, <2>4 DEF Iterates
  <2>7. Max(U) = k + 1 /\ U \ {k + 1} = 1..k
    BY <2>2, <2>3
  <2>8. g[1..k] = h[1..k] /\ s[k + 1] = t[k + 1]
    BY <1>2, <2>1
  <2> HIDE DEF U
  <2>9. g[U] = h[U]
    BY <2>5, <2>6, <2>7, <2>8
  <2> QED
    BY <2>9 DEF U
<1> HIDE DEF S
<1>3. \A k \in Nat : k \in S
  BY <1>1, <1>2, Inductive
<1> QED
  BY <1>3 DEF S

\* Nothing is folded to the base.
LEMMA FoldEmpty == ASSUME NEW base PROVE Fold(base, <<>>) = base
<1>1. DOMAIN <<>> = 1..0
  OBVIOUS
<1>2. PICK g : Iterates(g, 0, base, <<>>) /\ Fold(base, <<>>) = g[1..0]
  BY <1>1, FoldIterates
<1>3. 1..0 = {}
  OBVIOUS
<1> QED
  BY <1>2, <1>3 DEF Iterates

\* The last element is folded last.
LEMMA FoldAppend ==
    ASSUME NEW D, NEW s \in Seq(D), NEW e \in D, NEW base
    PROVE  Fold(base, Append(s, e)) = Op(Fold(base, s), e)
<1> DEFINE n == Len(s)
           t == Append(s, e)
<1>1. n \in Nat /\ DOMAIN s = 1..n /\ DOMAIN t = 1..(n + 1) /\ t[n + 1] = e /\ \A i \in 1..n : s[i] = t[i]
  OBVIOUS
<1> HIDE DEF n, t
<1>2. PICK g : Iterates(g, n, base, s) /\ Fold(base, s) = g[1..n]
  BY <1>1, FoldIterates
<1>3. PICK h : Iterates(h, n + 1, base, t) /\ Fold(base, t) = h[1..(n + 1)]
  BY <1>1, FoldIterates
<1>4. g[1..n] = h[1..n]
  BY <1>1, <1>2, <1>3, IteratesAgree
<1>5. n \in Nat
  BY <1>1
<1>6. Max(1..(n + 1)) = n + 1 /\ (1..(n + 1)) \ {n + 1} = 1..n /\ 1..(n + 1) # {}
  BY <1>5, UpTo
<1>7. h[1..(n + 1)] = Op(h[1..n], t[n + 1])
  BY <1>3, <1>5, <1>6 DEF Iterates
<1> QED
  BY <1>1, <1>2, <1>3, <1>4, <1>7 DEF t

\* Induction over sequences: a set that has the empty one, and with a sequence each that is longer by an
\* element, has all.
LEMMA SequencesInductive ==
    ASSUME NEW D, NEW S, <<>> \in S, \A s \in Seq(D), e \in D : s \in S => Append(s, e) \in S
    PROVE  \A s \in Seq(D) : s \in S
<1> DEFINE T == {n \in Nat : \A s \in Seq(D) : Len(s) = n => s \in S}
<1>1. 0 \in T
  <2>1. \A s \in Seq(D) : Len(s) = 0 => s = <<>>
    OBVIOUS
  <2> QED
    BY <2>1
<1>2. ASSUME NEW n \in Nat, n \in T PROVE n + 1 \in T
  <2>1. SUFFICES ASSUME NEW s \in Seq(D), Len(s) = n + 1 PROVE s \in S
    OBVIOUS
  <2>2. PICK t \in Seq(D), e \in D : s = Append(t, e)
    <3>1. n + 1 \in DOMAIN s /\ s[n + 1] \in D /\ SubSeq(s, 1, n) \in Seq(D)
      BY <2>1
    <3>2. s = Append(SubSeq(s, 1, n), s[n + 1])
      BY <2>1
    <3> QED
      BY <3>1, <3>2
  <2>3. Len(t) = n
    BY <2>1, <2>2
  <2> QED
    BY <1>2, <2>2, <2>3
<1> HIDE DEF T
<1>3. \A n \in Nat : n \in T
  BY <1>1, <1>2, Inductive
<1> QED
  BY <1>3 DEF T

\* What every step keeps, the whole fold keeps.
LEMMA FoldKeeps ==
    ASSUME NEW D, NEW R, NEW base \in R, \A r \in R, d \in D : Op(r, d) \in R
    PROVE  \A s \in Seq(D) : Fold(base, s) \in R
<1> DEFINE S == {s \in Seq(D) : Fold(base, s) \in R}
<1>1. <<>> \in S
  BY FoldEmpty
<1>2. ASSUME NEW s \in Seq(D), NEW e \in D, s \in S PROVE Append(s, e) \in S
  <2>1. Fold(base, Append(s, e)) = Op(Fold(base, s), e)
    BY FoldAppend
  <2> QED
    BY <1>2, <2>1
<1> HIDE DEF S
<1>3. \A s \in Seq(D) : s \in S
  BY <1>1, <1>2, SequencesInductive
<1> QED
  BY <1>3 DEF S

\* A sequence is folded in two parts: the second from what the first came to.
LEMMA FoldConcat ==
    ASSUME NEW D, NEW s \in Seq(D), NEW base
    PROVE  \A t \in Seq(D) : Fold(base, s \o t) = Fold(Fold(base, s), t)
<1> DEFINE S == {t \in Seq(D) : Fold(base, s \o t) = Fold(Fold(base, s), t)}
<1>1. <<>> \in S
  <2>1. s \o <<>> = s /\ <<>> \in Seq(D)
    OBVIOUS
  <2> QED
    BY <2>1, FoldEmpty
<1>2. ASSUME NEW t \in Seq(D), NEW e \in D, t \in S PROVE Append(t, e) \in S
  <2>1. s \o Append(t, e) = Append(s \o t, e) /\ s \o t \in Seq(D) /\ Append(t, e) \in Seq(D)
    OBVIOUS
  <2>2. Fold(base, Append(s \o t, e)) = Op(Fold(base, s \o t), e)
    BY <2>1, FoldAppend
  <2>3. Fold(Fold(base, s), Append(t, e)) = Op(Fold(Fold(base, s), t), e)
    BY FoldAppend
  <2> QED
    BY <1>2, <2>1, <2>2, <2>3
<1> HIDE DEF S
<1>3. \A t \in Seq(D) : t \in S
  BY <1>1, <1>2, SequencesInductive
<1> QED
  BY <1>3 DEF S

-----------------------------------------------------------------------------
(* A function of the naturals, each value computed from the one before *)

Recurs(f, S, base) == f = [n \in S |-> IF n = 0 THEN base ELSE Op(f[n - 1], n)]

\* There is such a function up to any natural.
LEMMA RecursUpTo ==
    ASSUME NEW base
    PROVE  \A n \in Nat : \E g : Recurs(g, 0..n, base)
<1> DEFINE S == {n \in Nat : \E g : Recurs(g, 0..n, base)}
<1>1. 0 \in S
  <2> DEFINE g == [i \in {0} |-> base]
  <2>1. 0..0 = {0}
    OBVIOUS
  <2>2. g = [i \in 0..0 |-> IF i = 0 THEN base ELSE Op(g[i - 1], i)]
    BY <2>1
  <2> QED
    BY <2>2 DEF Recurs
<1>2. ASSUME NEW n \in Nat, n \in S PROVE n + 1 \in S
  <2>1. PICK g : Recurs(g, 0..n, base)
    BY <1>2
  <2> DEFINE h == [i \in 0..(n + 1) |-> IF i = n + 1 THEN Op(g[n], n + 1) ELSE g[i]]
  <2>2. ASSUME NEW i \in 0..(n + 1) PROVE h[i] = IF i = 0 THEN base ELSE Op(h[i - 1], i)
    <3>1. CASE i = n + 1
      BY <3>1
    <3>2. CASE i # n + 1
      <4>1. i \in 0..n /\ h[i] = g[i] /\ (i # 0 => h[i - 1] = g[i - 1])
        BY <3>2
      <4>2. g[i] = IF i = 0 THEN base ELSE Op(g[i - 1], i)
        BY <2>1, <4>1 DEF Recurs
      <4> QED
        BY <4>1, <4>2
    <3> QED
      BY <3>1, <3>2
  <2>3. h = [i \in 0..(n + 1) |-> IF i = 0 THEN base ELSE Op(h[i - 1], i)]
    BY <2>2
  <2> HIDE DEF h
  <2>4. Recurs(h, 0..(n + 1), base)
    BY <2>3 DEF Recurs
  <2> QED
    BY <2>4
<1> HIDE DEF S
<1>3. \A n \in Nat : n \in S
  BY <1>1, <1>2, Inductive
<1> QED
  BY <1>3 DEF S

\* Two such functions agree as far as both go.
LEMMA RecursAgree ==
    ASSUME NEW base, NEW n \in Nat, NEW m \in Nat, n <= m,
           NEW g, Recurs(g, 0..n, base), NEW h, Recurs(h, 0..m, base)
    PROVE  \A i \in 0..n : g[i] = h[i]
<1> DEFINE S == {i \in Nat : i <= n => g[i] = h[i]}
<1>1. 0 \in S
  BY DEF Recurs
<1>2. ASSUME NEW i \in Nat, i \in S PROVE i + 1 \in S
  <2>1. SUFFICES ASSUME i + 1 <= n PROVE g[i + 1] = h[i + 1]
    OBVIOUS
  <2>2. i + 1 \in 0..n /\ i + 1 \in 0..m /\ i + 1 # 0 /\ (i + 1) - 1 = i
    BY <2>1
  <2>3. g[i + 1] = Op(g[i], i + 1)
    BY <2>2 DEF Recurs
  <2>4. h[i + 1] = Op(h[i], i + 1)
    BY <2>2 DEF Recurs
  <2>5. g[i] = h[i]
    BY <1>2, <2>1
  <2> QED
    BY <2>3, <2>4, <2>5
<1> HIDE DEF S
<1>3. \A i \in Nat : i \in S
  BY <1>1, <1>2, Inductive
<1> QED
  BY <1>3 DEF S

\* There is such a function of all naturals, which a recursive definition chooses.
LEMMA RecursOnNat ==
    ASSUME NEW base
    PROVE  \E f : Recurs(f, Nat, base)
<1> DEFINE G(n) == CHOOSE g : Recurs(g, 0..n, base)
           f == [n \in Nat |-> G(n)[n]]
<1>1. \A n \in Nat : Recurs(G(n), 0..n, base)
  BY RecursUpTo
<1> HIDE DEF G
<1>2. ASSUME NEW n \in Nat PROVE f[n] = IF n = 0 THEN base ELSE Op(f[n - 1], n)
  <2>1. G(n)[n] = IF n = 0 THEN base ELSE Op(G(n)[n - 1], n)
    <3>1. n \in 0..n
      OBVIOUS
    <3> QED
      BY <1>1, <3>1 DEF Recurs
  <2>2. CASE n = 0
    BY <2>1, <2>2
  <2>3. CASE n # 0
    <3>1. n - 1 \in Nat /\ n - 1 <= n /\ n - 1 \in 0..(n - 1)
      BY <2>3
    <3>2. Recurs(G(n - 1), 0..(n - 1), base) /\ Recurs(G(n), 0..n, base)
      BY <1>1, <3>1
    <3>3. \A i \in 0..(n - 1) : G(n - 1)[i] = G(n)[i]
      BY <3>1, <3>2, RecursAgree
    <3>4. G(n - 1)[n - 1] = G(n)[n - 1]
      BY <3>1, <3>3
    <3> QED
      BY <2>1, <2>3, <3>1, <3>4
  <2> QED
    BY <2>2, <2>3
<1>3. f = [n \in Nat |-> IF n = 0 THEN base ELSE Op(f[n - 1], n)]
  BY <1>2
<1> HIDE DEF f
<1> QED
  BY <1>3 DEF Recurs

-----------------------------------------------------------------------------
(* A sequence of sequences in one *)

\* What FlattenSeq(ss) of SequencesExt is defined as.
Flattened(ss) ==
    IF Len(ss) = 0 THEN ss
    ELSE LET flatten[i \in 1..Len(ss)] == IF i = 1 THEN ss[i] ELSE flatten[i - 1] \o ss[i]
         IN  flatten[Len(ss)]

\* What is computed of the first n sequences.
Flattens(g, n, ss) == g = [i \in 1..n |-> IF i = 1 THEN ss[i] ELSE g[i - 1] \o ss[i]]

\* There is such a function, so `Flattened` chooses one.
LEMMA FlattensExist ==
    ASSUME NEW ss
    PROVE  \A n \in Nat : \E g : Flattens(g, n, ss)
<1> DEFINE S == {n \in Nat : \E g : Flattens(g, n, ss)}
<1>1. 0 \in S
  <2> DEFINE g == [i \in {} |-> ss]
  <2>1. 1..0 = {}
    OBVIOUS
  <2>2. g = [i \in 1..0 |-> IF i = 1 THEN ss[i] ELSE g[i - 1] \o ss[i]]
    BY <2>1
  <2> QED
    BY <2>2 DEF Flattens
<1>2. ASSUME NEW n \in Nat, n \in S PROVE n + 1 \in S
  <2>1. PICK g : Flattens(g, n, ss)
    BY <1>2
  <2> DEFINE h == [i \in 1..(n + 1) |->
                    IF i = n + 1 THEN (IF n = 0 THEN ss[n + 1] ELSE g[n] \o ss[n + 1]) ELSE g[i]]
  <2>2. ASSUME NEW i \in 1..(n + 1) PROVE h[i] = IF i = 1 THEN ss[i] ELSE h[i - 1] \o ss[i]
    <3>1. CASE i = n + 1
      BY <3>1
    <3>2. CASE i # n + 1
      <4>1. i \in 1..n /\ h[i] = g[i] /\ (i # 1 => h[i - 1] = g[i - 1])
        BY <3>2
      <4>2. g[i] = IF i = 1 THEN ss[i] ELSE g[i - 1] \o ss[i]
        BY <2>1, <4>1 DEF Flattens
      <4> QED
        BY <4>1, <4>2
    <3> QED
      BY <3>1, <3>2
  <2>3. h = [i \in 1..(n + 1) |-> IF i = 1 THEN ss[i] ELSE h[i - 1] \o ss[i]]
    BY <2>2
  <2> HIDE DEF h
  <2>4. Flattens(h, n + 1, ss)
    BY <2>3 DEF Flattens
  <2> QED
    BY <2>4
<1> HIDE DEF S
<1>3. \A n \in Nat : n \in S
  BY <1>1, <1>2, Inductive
<1> QED
  BY <1>3 DEF S

\* A flattened sequence is what the function has for all of its sequences.
LEMMA FlattenIs ==
    ASSUME NEW D, NEW ss \in Seq(D), ss # <<>>
    PROVE  \E g : Flattens(g, Len(ss), ss) /\ Flattened(ss) = g[Len(ss)]
<1> DEFINE c == CHOOSE g : Flattens(g, Len(ss), ss)
<1>1. Len(ss) \in Nat /\ Len(ss) # 0
  OBVIOUS
<1>2. Flattens(c, Len(ss), ss)
  BY <1>1, FlattensExist
<1>3. Flattened(ss) = c[Len(ss)]
  BY <1>1 DEF Flattened, Flattens
<1> QED
  BY <1>2, <1>3

\* The functions of a longer sequence agree with those of its prefix.
LEMMA FlattensAgree ==
    ASSUME NEW n \in Nat, NEW m \in Nat, n <= m, NEW ss, NEW ts, \A i \in 1..n : ss[i] = ts[i],
           NEW g, Flattens(g, n, ss), NEW h, Flattens(h, m, ts)
    PROVE  \A i \in 1..n : g[i] = h[i]
<1> DEFINE S == {k \in Nat : k < n => g[k + 1] = h[k + 1]}
<1>1. 0 \in S
  BY DEF Flattens
<1>2. ASSUME NEW k \in Nat, k \in S PROVE k + 1 \in S
  <2>1. SUFFICES ASSUME k + 1 < n PROVE g[k + 2] = h[k + 2]
    OBVIOUS
  <2>2. k + 2 \in 1..n /\ k + 2 \in 1..m /\ k + 2 # 1 /\ (k + 2) - 1 = k + 1
    BY <2>1
  <2>3. g[k + 2] = g[k + 1] \o ss[k + 2]
    BY <2>2 DEF Flattens
  <2>4. h[k + 2] = h[k + 1] \o ts[k + 2]
    BY <2>2 DEF Flattens
  <2>5. g[k + 1] = h[k + 1]
    BY <1>2, <2>1
  <2>6. ss[k + 2] = ts[k + 2]
    BY <2>2
  <2> QED
    BY <2>3, <2>4, <2>5, <2>6
<1> HIDE DEF S
<1>3. \A k \in Nat : k \in S
  BY <1>1, <1>2, Inductive
<1>4. \A i \in 1..n : i - 1 \in Nat /\ i - 1 < n /\ (i - 1) + 1 = i
  OBVIOUS
<1> QED
  BY <1>3, <1>4 DEF S

\* What the function has for one more sequence.
LEMMA FlattensMore ==
    ASSUME NEW n \in Nat, NEW ss, NEW ts, \A i \in 1..n : ss[i] = ts[i],
           NEW g, Flattens(g, n, ss), NEW h, Flattens(h, n + 1, ts)
    PROVE  h[n + 1] = IF n = 0 THEN ts[n + 1] ELSE g[n] \o ts[n + 1]
<1>1. \A i \in 1..n : g[i] = h[i]
  BY FlattensAgree
<1>2. n + 1 \in 1..(n + 1) /\ (n + 1) - 1 = n /\ (n = 0 <=> n + 1 = 1) /\ (n # 0 => n \in 1..n)
  OBVIOUS
<1>3. h[n + 1] = IF n + 1 = 1 THEN ts[n + 1] ELSE h[(n + 1) - 1] \o ts[n + 1]
  BY <1>2 DEF Flattens
<1> QED
  BY <1>1, <1>2, <1>3

\* The last sequence is flattened last.
LEMMA FlattenAppend ==
    ASSUME NEW D, NEW ss \in Seq(Seq(D)), NEW s \in Seq(D)
    PROVE  Flattened(<<>>) = <<>> /\ Flattened(Append(ss, s)) = Flattened(ss) \o s
<1>1. Flattened(<<>>) = <<>>
  BY DEF Flattened
<1>2. PICK n \in Nat, ts \in Seq(Seq(D)) : n = Len(ss) /\ ts = Append(ss, s)
  <2>1. Len(ss) \in Nat /\ Append(ss, s) \in Seq(Seq(D))
    OBVIOUS
  <2> QED
    BY <2>1
<1>3. Len(ts) = n + 1 /\ ts # <<>> /\ ts[n + 1] = s /\ \A i \in 1..n : ss[i] = ts[i]
  BY <1>2
<1>4. PICK h : Flattens(h, n + 1, ts) /\ Flattened(ts) = h[n + 1]
  BY <1>3, FlattenIs
<1>5. CASE n = 0
  <2>1. ss = <<>>
    <3>1. \A r \in Seq(Seq(D)) : Len(r) = 0 => r = <<>>
      OBVIOUS
    <3> QED
      BY <1>2, <1>5, <3>1
  <2>2. <<>> \o s = s
    OBVIOUS
  <2>3. h[1] = s
    BY <1>3, <1>4, <1>5 DEF Flattens
  <2> QED
    BY <1>1, <1>2, <1>4, <1>5, <2>1, <2>2, <2>3
<1>6. CASE n # 0
  <2>1. PICK g : Flattens(g, n, ss) /\ Flattened(ss) = g[n]
    BY <1>2, <1>6, FlattenIs
  <2>2. h[n + 1] = g[n] \o s
    BY <1>3, <1>4, <1>6, <2>1, FlattensMore
  <2> QED
    BY <1>1, <1>2, <1>4, <2>1, <2>2
<1> QED
  BY <1>5, <1>6

\* `at` says which of the first n sequences each element of `flat` is of: in their order, and of each all.
Places(at, flat, n, ss) ==
    /\ at \in [DOMAIN flat -> 1..n]
    /\ \A k, l \in DOMAIN flat : k < l => at[k] <= at[l]
    /\ \A k \in DOMAIN flat : \E j \in DOMAIN ss[at[k]] : flat[k] = ss[at[k]][j]
    /\ \A i \in 1..n : \A j \in DOMAIN ss[i] : \E k \in DOMAIN flat : at[k] = i /\ flat[k] = ss[i][j]

\* The places of one more sequence.
LEMMA PlacesAppend ==
    ASSUME NEW D, NEW ss, NEW n \in Nat, NEW flat \in Seq(D), NEW at, Places(at, flat, n, ss),
           ss[n + 1] \in Seq(D)
    PROVE  \E to : Places(to, flat \o ss[n + 1], n + 1, ss)
<1> DEFINE m == Len(flat)
           e == ss[n + 1]
           long == flat \o e
           to == [k \in 1..(m + Len(e)) |-> IF k <= m THEN at[k] ELSE n + 1]
<1>1. m \in Nat /\ Len(e) \in Nat /\ DOMAIN flat = 1..m /\ DOMAIN e = 1..Len(e)
  OBVIOUS
<1>2. /\ DOMAIN long = 1..(m + Len(e))
      /\ \A k \in 1..m : long[k] = flat[k]
      /\ \A k \in 1..(m + Len(e)) : k > m => long[k] = e[k - m]
  BY <1>1
<1> HIDE DEF m, long
<1>3. to \in [DOMAIN long -> 1..(n + 1)]
  BY <1>1, <1>2 DEF Places
<1>4. \A k, l \in DOMAIN long : k < l => to[k] <= to[l]
  BY <1>1, <1>2 DEF Places
<1>5. ASSUME NEW k \in DOMAIN long PROVE \E j \in DOMAIN ss[to[k]] : long[k] = ss[to[k]][j]
  <2>1. CASE k <= m
    <3>1. k \in 1..m /\ to[k] = at[k] /\ long[k] = flat[k]
      BY <1>1, <1>2, <2>1
    <3> HIDE DEF to
    <3> QED
      BY <1>1, <3>1 DEF Places
  <2>2. CASE ~ (k <= m)
    <3>1. k - m \in DOMAIN e /\ to[k] = n + 1 /\ long[k] = e[k - m]
      BY <1>1, <1>2, <2>2
    <3> QED
      BY <3>1
  <2> QED
    BY <2>1, <2>2
<1>6. ASSUME NEW i \in 1..(n + 1), NEW j \in DOMAIN ss[i]
      PROVE  \E k \in DOMAIN long : to[k] = i /\ long[k] = ss[i][j]
  <2>1. CASE i = n + 1
    <3>1. m + j \in 1..(m + Len(e)) /\ m + j > m /\ ~ (m + j <= m) /\ (m + j) - m = j
      BY <1>1, <2>1
    <3>2. to[m + j] = i /\ long[m + j] = ss[i][j]
      BY <1>2, <2>1, <3>1
    <3> QED
      BY <1>2, <3>1, <3>2
  <2>2. CASE i # n + 1
    <3>1. PICK k \in DOMAIN flat : at[k] = i /\ flat[k] = ss[i][j]
      BY <2>2 DEF Places
    <3>2. k \in DOMAIN long /\ to[k] = i /\ long[k] = ss[i][j]
      BY <1>1, <1>2, <3>1
    <3> QED
      BY <3>2
  <2> QED
    BY <2>1, <2>2
<1> HIDE DEF to
<1>7. Places(to, long, n + 1, ss)
  BY <1>3, <1>4, <1>5, <1>6 DEF Places
<1> QED
  BY <1>7 DEF long

\* A flattened sequence holds each element of each of its sequences, in the order of the sequences, and
\* nothing else.
LEMMA FlattenPlaces ==
    ASSUME NEW D, NEW ss \in Seq(Seq(D))
    PROVE  Flattened(ss) \in Seq(D) /\ \E at : Places(at, Flattened(ss), Len(ss), ss)
<1>1. CASE ss = <<>>
  <2>1. Flattened(ss) = <<>> /\ Len(ss) = 0
    BY <1>1 DEF Flattened
  <2>2. DOMAIN <<>> = {} /\ 1..0 = {}
    OBVIOUS
  <2>3. Places([k \in {} |-> k], <<>>, 0, ss)
    BY <2>2 DEF Places
  <2>4. <<>> \in Seq(D)
    OBVIOUS
  <2> QED
    BY <2>1, <2>3, <2>4
<1>2. CASE ss # <<>>
  <2>1. PICK g : Flattens(g, Len(ss), ss) /\ Flattened(ss) = g[Len(ss)]
    BY <1>2, FlattenIs
  <2> DEFINE S == {n \in Nat : n < Len(ss) => g[n + 1] \in Seq(D) /\ \E at : Places(at, g[n + 1], n + 1, ss)}
  <2>2. Len(ss) \in Nat \ {0} /\ \A n \in 1..Len(ss) : ss[n] \in Seq(D)
    BY <1>2
  <2>3. 0 \in S
    <3>1. g[1] = ss[1] /\ ss[1] \in Seq(D)
      BY <2>1, <2>2 DEF Flattens
    <3> DEFINE first == [k \in DOMAIN ss[1] |-> 1]
    <3>2. Places(first, ss[1], 1, ss)
      <4>1. first \in [DOMAIN ss[1] -> 1..1] /\ \A k \in DOMAIN ss[1] : first[k] = 1
        OBVIOUS
      <4>2. \A i \in 1..1 : i = 1
        OBVIOUS
      <4> HIDE DEF first
      <4>3. \A k, l \in DOMAIN ss[1] : k < l => first[k] <= first[l]
        BY <4>1
      <4>4. \A i \in 1..1 : \A j \in DOMAIN ss[i] : \E k \in DOMAIN ss[1] : first[k] = i /\ ss[1][k] = ss[i][j]
        BY <4>1, <4>2
      <4> QED
        BY <4>1, <4>3, <4>4 DEF Places
    <3>3. 0 + 1 = 1
      OBVIOUS
    <3> QED
      BY <3>1, <3>2, <3>3
  <2>4. ASSUME NEW n \in Nat, n \in S PROVE n + 1 \in S
    <3>1. SUFFICES ASSUME n + 1 < Len(ss)
                   PROVE  g[n + 2] \in Seq(D) /\ \E at : Places(at, g[n + 2], n + 2, ss)
      OBVIOUS
    <3>2. g[n + 1] \in Seq(D) /\ \E at : Places(at, g[n + 1], n + 1, ss)
      BY <2>2, <2>4, <3>1
    <3>3. n + 2 \in 1..Len(ss) /\ n + 2 # 1 /\ (n + 2) - 1 = n + 1 /\ (n + 1) + 1 = n + 2 /\ n + 1 \in Nat
      BY <2>2, <3>1
    <3>4. g[n + 2] = g[n + 1] \o ss[n + 2] /\ ss[n + 2] \in Seq(D)
      BY <2>1, <2>2, <3>3 DEF Flattens
    <3>5. g[n + 2] \in Seq(D)
      BY <3>2, <3>4
    <3>6. \E to : Places(to, g[n + 1] \o ss[(n + 1) + 1], (n + 1) + 1, ss)
      BY <3>2, <3>3, <3>4, PlacesAppend
    <3> QED
      BY <3>3, <3>4, <3>5, <3>6
  <2> HIDE DEF S
  <2>5. \A n \in Nat : n \in S
    BY <2>3, <2>4, Inductive
  <2>6. Len(ss) - 1 \in Nat /\ Len(ss) - 1 < Len(ss) /\ (Len(ss) - 1) + 1 = Len(ss)
    BY <2>2
  <2> QED
    BY <2>1, <2>5, <2>6 DEF S
<1> QED
  BY <1>1, <1>2

=============================================================================
