---------------------------- MODULE SequenceFacts ----------------------------
(***************************************************************************)
(* What the operators of the community modules that the models use, and    *)
(* Retain's Minus, do to sequences; and induction over the natural numbers *)
(* and over sequences.                                                     *)
(*                                                                         *)
(* The library's induction rule takes a predicate as its parameter.  The   *)
(* same is said here of a set: what holds of 0, and of n + 1 whenever it   *)
(* holds of n, holds of every number.  It follows from the order of the    *)
(* numbers being well-founded.  A set of sequences that has the empty one  *)
(* and, with each of its members, all that are longer by one element, has  *)
(* every sequence.                                                         *)
(***************************************************************************)
EXTENDS Integers, Sequences, FiniteSets, SequencesExt, Retain, SequenceTheorems, FiniteSetTheorems,
        WellFoundedInduction, TLAPS

\* The order of the numbers, as a set of pairs.
Less == {p \in Nat \X Nat : p[1] < p[2]}

\* There is no infinite descent among the natural numbers.
LEMMA LessWellFounded == IsWellFoundedOn(Less, Nat)
BY NatLessThanWellFounded DEF OpToRel, Less

\* Min: a set of natural numbers that is not empty has a least element.
LEMMA LeastElement ==
  ASSUME NEW T \in SUBSET Nat, T # {}
  PROVE  Min(T) \in T /\ \A y \in T : Min(T) <= y
<1>1. PICK x \in T : \A y \in T : ~(<<y, x>> \in Less)
  BY WFMin, LessWellFounded
<1>2. ASSUME NEW y \in T PROVE x <= y
  <2>1. <<y, x>> \in Nat \X Nat
    OBVIOUS
  <2> QED BY <2>1, <1>1, <1>2 DEF Less
<1> QED BY <1>1, <1>2 DEF Min

\* Induction: a set of numbers with 0 and every successor is all of them.
LEMMA EveryNat ==
  ASSUME NEW T \in SUBSET Nat, 0 \in T, \A n \in T : n + 1 \in T
  PROVE  \A z \in Nat : z \in T
<1> SUFFICES ASSUME ~ \A z \in Nat : z \in T PROVE FALSE
  OBVIOUS
<1>1. PICK z \in Nat : z \notin T
  OBVIOUS
<1> DEFINE m == Min(Nat \ T)
<1>2. m \in Nat \ T /\ \A y \in Nat \ T : m <= y
  BY <1>1, LeastElement
<1> HIDE DEF m
<1>3. m # 0 /\ m - 1 \in Nat
  BY <1>2
<1>4. m - 1 \in T
  BY <1>2, <1>3
<1>5. (m - 1) + 1 \in T
  BY <1>4
<1> QED BY <1>5, <1>2

\* What is computed in n steps: g tells how the i-th step goes.
Iterates(f, S, x, n, g) ==
  f \in [0..n -> S] /\ f[0] = x /\ \A i \in 1..n : f[i] = g[i][f[i - 1]]

\* A recursion over 0..n has a solution.
LEMMA Iterated ==
  ASSUME NEW S, NEW x \in S, NEW n \in Nat, NEW g \in [1..n -> [S -> S]]
  PROVE  \E f : Iterates(f, S, x, n, g)
<1> DEFINE T == {m \in Nat : m <= n => \E f : Iterates(f, S, x, m, g)}
<1>1. 0 \in T
  <2> DEFINE f == [i \in 0..0 |-> x]
  <2>1. 0 \in 0..0 /\ 1..0 = {}
    OBVIOUS
  <2>2. Iterates(f, S, x, 0, g)
    BY <2>1 DEF Iterates
  <2> HIDE DEF f
  <2> QED BY <2>2
<1>2. ASSUME NEW m \in T PROVE m + 1 \in T
  <2> SUFFICES ASSUME m + 1 <= n PROVE \E f : Iterates(f, S, x, m + 1, g)
    OBVIOUS
  <2>1. m \in Nat /\ m + 1 \in 1..n
    OBVIOUS
  <2>2. PICK f : Iterates(f, S, x, m, g)
    BY <2>1
  <2> DEFINE y == g[m + 1][f[m]]
             h == [i \in 0..(m + 1) |-> IF i = m + 1 THEN y ELSE f[i]]
  <2>3. f \in [0..m -> S] /\ f[0] = x /\ \A i \in 1..m : f[i] = g[i][f[i - 1]]
    BY <2>2 DEF Iterates
  <2>4. m \in 0..m /\ f[m] \in S /\ y \in S
    BY <2>1, <2>3
  <2> HIDE DEF y
  <2>5. \A i \in 0..(m + 1) : i # m + 1 => i \in 0..m
    BY <2>1
  <2>6. h \in [0..(m + 1) -> S] /\ h[m + 1] = y /\ \A i \in 0..m : h[i] = f[i]
    BY <2>1, <2>3, <2>4, <2>5
  <2> HIDE DEF h
  <2>7. ASSUME NEW i \in 1..(m + 1) PROVE h[i] = g[i][h[i - 1]]
    <3>1. CASE i = m + 1
      <4>1. h[i - 1] = f[m] /\ h[i] = y
        BY <2>1, <2>4, <2>6, <3>1
      <4> QED BY <3>1, <4>1 DEF y
    <3>2. CASE i # m + 1
      <4>1. i \in 1..m /\ i \in 0..m /\ i - 1 \in 0..m
        BY <2>1, <3>2
      <4>2. h[i] = f[i] /\ h[i - 1] = f[i - 1]
        BY <2>6, <4>1
      <4> QED BY <2>3, <4>1, <4>2
    <3> QED BY <3>1, <3>2
  <2>8. h[0] = x
    BY <2>1, <2>3, <2>6
  <2>9. Iterates(h, S, x, m + 1, g)
    BY <2>6, <2>7, <2>8 DEF Iterates
  <2> QED BY <2>9
<1>3. T \in SUBSET Nat
  OBVIOUS
<1> HIDE DEF T
<1>4. \A m \in Nat : m \in T
  BY <1>1, <1>2, <1>3, EveryNat
<1>5. n \in T
  BY <1>4
<1> QED BY <1>5 DEF T

\* Finitely many numbers have a bound.
LEMMA BoundedValues ==
  ASSUME NEW n \in Nat, NEW f \in [1..n -> Nat]
  PROVE  \E b \in Nat : \A i \in 1..n : f[i] <= b
<1> DEFINE T == {m \in Nat : m <= n => \E b \in Nat : \A i \in 1..m : f[i] <= b}
<1>1. 0 \in T
  OBVIOUS
<1>2. ASSUME NEW m \in T PROVE m + 1 \in T
  <2>1. SUFFICES ASSUME m + 1 <= n PROVE \E b \in Nat : \A i \in 1..(m + 1) : f[i] <= b
    OBVIOUS
  <2>2. PICK b \in Nat : \A i \in 1..m : f[i] <= b
    BY <2>1
  <2>3. f[m + 1] \in Nat
    BY <2>1
  <2>4. PICK c \in Nat : b <= c /\ f[m + 1] <= c
    BY <2>3
  <2>5. \A i \in 1..(m + 1) : i \in 1..m \/ i = m + 1
    OBVIOUS
  <2>6. ASSUME NEW i \in 1..(m + 1) PROVE f[i] <= c
    <3>1. f[i] \in Nat
      BY <2>1
    <3> QED BY <3>1, <2>2, <2>4, <2>5
  <2> QED BY <2>6
<1>3. T \in SUBSET Nat
  OBVIOUS
<1> HIDE DEF T
<1>5. \A z \in Nat : z \in T
  BY <1>1, <1>2, <1>3, EveryNat
<1>4. n \in T
  BY <1>5
<1> QED BY <1>4 DEF T

\* Max: a bounded set of integers from -1 on has a greatest element.
LEMMA GreatestElement ==
  ASSUME NEW T \in SUBSET Int, -1 \in T, NEW b \in Nat, \A y \in T : -1 <= y /\ y <= b
  PROVE  Max(T) \in T /\ \A y \in T : y <= Max(T)
<1> DEFINE U == {c \in Nat : \A y \in T : y < c}
<1>1. b + 1 \in U
  OBVIOUS
<1>2. Min(U) \in U /\ \A c \in U : Min(U) <= c
  BY <1>1, LeastElement
<1>3. PICK m \in U : \A c \in U : m <= c
  BY <1>2
<1>4. m - 1 \in T
  <2>1. SUFFICES ASSUME m - 1 \notin T PROVE FALSE
    OBVIOUS
  <2>2. m # 0
    BY <2>1
  <2>3. m - 1 \in U
    BY <2>1, <2>2, <1>3
  <2> QED BY <2>3, <1>3
<1>5. \A y \in T : y <= m - 1
  BY <1>3
<1> QED BY <1>4, <1>5 DEF Max

\* InsertAt puts a new element into a sequence without repetition.
LEMMA PlacedAt ==
  ASSUME NEW S, NEW s \in Seq(S), IsInjective(s),
         NEW i \in 1..(Len(s) + 1), NEW x, x \notin ToSet(s)
  PROVE  /\ InsertAt(s, i, x) \in Seq(S \cup {x})
         /\ IsInjective(InsertAt(s, i, x))
         /\ ToSet(InsertAt(s, i, x)) = ToSet(s) \cup {x}
<1> DEFINE t == InsertAt(s, i, x)
<1> DEFINE a == SubSeq(s, 1, i - 1)
           b == SubSeq(s, i, Len(s))
           X == S \cup {x}
<1>a. /\ a \in Seq(X) /\ Len(a) = i - 1
      /\ \A k \in 1..(i - 1) : a[k] = s[k]
  <2>1. \A k \in 1..(i - 1) : s[k] \in X
    OBVIOUS
  <2> QED BY <2>1, SubSeqProperties
<1>b. /\ b \in Seq(X) /\ Len(b) = Len(s) + 1 - i
      /\ \A k \in 1..(Len(s) + 1 - i) : b[k] = s[k + i - 1]
  <2>1. \A k \in i..Len(s) : s[k] \in X
    OBVIOUS
  <2> QED BY <2>1, SubSeqProperties
<1>c. t = a \o <<x>> \o b /\ <<x>> \in Seq(X)
  BY DEF InsertAt
<1> HIDE DEF a, b, t, X
<1> DEFINE u == a \o <<x>>
<1>d. /\ u \in Seq(X) /\ Len(u) = i
      /\ \A k \in 1..i : u[k] = IF k < i THEN s[k] ELSE x
  <2>1. Len(<<x>>) = 1 /\ <<x>>[1] = x
    OBVIOUS
  <2> HIDE DEF u
  <2>2. /\ u \in Seq(X) /\ Len(u) = (i - 1) + 1
        /\ \A k \in 1..((i - 1) + 1) : u[k] = IF k <= i - 1 THEN a[k] ELSE <<x>>[k - (i - 1)]
    BY <1>a, <1>c, <2>1, ConcatProperties DEF u
  <2>3. \A k \in 1..i : k < i \/ k - (i - 1) = 1
    OBVIOUS
  <2> QED BY <2>1, <2>2, <2>3, <1>a
<1>f. t = u \o b
  BY <1>c
<1> HIDE DEF u
<1>e. /\ t \in Seq(X) /\ Len(t) = i + (Len(s) + 1 - i)
      /\ \A k \in 1..(i + (Len(s) + 1 - i)) : t[k] = IF k <= i THEN u[k] ELSE b[k - i]
  BY <1>b, <1>d, <1>f, ConcatProperties
<1>1. t \in Seq(S \cup {x}) /\ Len(t) = Len(s) + 1
  BY <1>e DEF X
<1>2. \A k \in 1..Len(t) : t[k] = IF k < i THEN s[k] ELSE IF k = i THEN x ELSE s[k - 1]
  <2>1. \A k \in 1..Len(t) : k > i => b[k - i] = s[k - 1]
    <3>1. \A k \in 1..Len(t) : k > i => k - i \in 1..(Len(s) + 1 - i) /\ k - i + i - 1 = k - 1
      BY <1>1
    <3> QED BY <3>1, <1>b
  <2>2. ASSUME NEW k \in 1..Len(t) PROVE t[k] = IF k <= i THEN u[k] ELSE b[k - i]
    BY <1>1, <1>e
  <2>3. ASSUME NEW k \in 1..i PROVE u[k] = IF k < i THEN s[k] ELSE x
    BY <1>d
  <2> SUFFICES ASSUME NEW k \in 1..Len(t)
               PROVE  t[k] = IF k < i THEN s[k] ELSE IF k = i THEN x ELSE s[k - 1]
    OBVIOUS
  <2>4. CASE k <= i
    <3>1. k \in 1..i
      BY <2>4, <1>1
    <3> QED BY <3>1, <2>2, <2>3, <2>4
  <2>5. CASE k > i
    <3>1. b[k - i] = s[k - 1]
      BY <2>1, <2>5
    <3>2. t[k] = b[k - i]
      BY <2>2, <2>5, <1>1
    <3> QED BY <3>1, <3>2, <2>5, <1>1
  <2>6. k \in Int /\ i \in Int
    BY <1>1
  <2> QED BY <2>4, <2>5, <2>6
<1>3. DOMAIN t = 1..(Len(s) + 1) /\ DOMAIN s = 1..Len(s)
  BY <1>1
<1>4. IsInjective(t)
  <2>1. \A k \in DOMAIN s : s[k] # x
    BY DEF ToSet
  <2>2. \A j, k \in DOMAIN s : s[j] = s[k] => j = k
    BY DEF IsInjective
  <2>3. ASSUME NEW l \in DOMAIN t, l # i
        PROVE  t[l] # x /\ \E o \in DOMAIN s : t[l] = s[o] /\ o = (IF l < i THEN l ELSE l - 1)
    <3> DEFINE o == IF l < i THEN l ELSE l - 1
    <3>2. o \in DOMAIN s /\ t[l] = s[o]
      BY <2>3, <1>1, <1>2, <1>3
    <3> QED BY <3>2, <2>1
  <2>4. ASSUME NEW j \in DOMAIN t, NEW k \in DOMAIN t, t[j] = t[k] PROVE j = k
    <3>1. t[i] = x
      BY <1>1, <1>2
    <3>2. CASE j = i \/ k = i
      BY <3>1, <3>2, <2>3, <2>4
    <3>3. CASE j # i /\ k # i
      <4>1. PICK o \in DOMAIN s : t[j] = s[o] /\ o = (IF j < i THEN j ELSE j - 1)
        BY <3>3, <2>3
      <4>2. PICK n \in DOMAIN s : t[k] = s[n] /\ n = (IF k < i THEN k ELSE k - 1)
        BY <3>3, <2>3
      <4>3. o = n
        BY <4>1, <4>2, <2>2, <2>4
      <4> QED BY <4>1, <4>2, <4>3, <1>3, <3>3
    <3> QED BY <3>2, <3>3
  <2> QED BY <2>4 DEF IsInjective
<1>5. ToSet(t) \subseteq ToSet(s) \cup {x}
  BY <1>1, <1>2, <1>3 DEF ToSet
<1>6. x \in ToSet(t)
  BY <1>1, <1>2, <1>3 DEF ToSet
<1>7. ASSUME NEW k \in DOMAIN s PROVE s[k] \in ToSet(t)
  <2>1. CASE k < i
    <3>1. k \in DOMAIN t /\ t[k] = s[k]
      BY <2>1, <1>1, <1>2, <1>3
    <3> QED BY <3>1 DEF ToSet
  <2>2. CASE ~(k < i)
    <3>1. k + 1 \in DOMAIN t /\ t[k + 1] = s[k]
      BY <2>2, <1>1, <1>2, <1>3
    <3> QED BY <3>1 DEF ToSet
  <2> QED BY <2>1, <2>2
<1>8. ToSet(s) \subseteq ToSet(t)
  BY <1>7 DEF ToSet
<1> QED BY <1>1, <1>4, <1>5, <1>6, <1>8 DEF t

\* Append puts it at the end.
LEMMA AppendedAt ==
  ASSUME NEW S, NEW s \in Seq(S), IsInjective(s), NEW x, x \notin ToSet(s)
  PROVE  /\ Append(s, x) \in Seq(S \cup {x})
         /\ IsInjective(Append(s, x))
         /\ ToSet(Append(s, x)) = ToSet(s) \cup {x}
<1> DEFINE t == Append(s, x)
<1>1. t \in Seq(S \cup {x}) /\ Len(t) = Len(s) + 1
  OBVIOUS
<1>2. \A k \in 1..Len(t) : t[k] = IF k <= Len(s) THEN s[k] ELSE x
  OBVIOUS
<1> HIDE DEF t
<1>3. DOMAIN t = 1..(Len(s) + 1) /\ DOMAIN s = 1..Len(s)
  BY <1>1
<1>4. IsInjective(t)
  <2>1. \A k \in DOMAIN s : s[k] # x
    BY DEF ToSet
  <2>2. \A j, k \in DOMAIN s : s[j] = s[k] => j = k
    BY DEF IsInjective
  <2>3. ASSUME NEW l \in DOMAIN t, l # Len(s) + 1
        PROVE  t[l] # x /\ \E o \in DOMAIN s : t[l] = s[o] /\ o = l
    <3>1. l \in DOMAIN s /\ t[l] = s[l]
      BY <2>3, <1>1, <1>2, <1>3
    <3> QED BY <3>1, <2>1
  <2>4. ASSUME NEW j \in DOMAIN t, NEW k \in DOMAIN t, t[j] = t[k] PROVE j = k
    <3>1. t[Len(s) + 1] = x
      BY <1>1, <1>2
    <3>2. CASE j = Len(s) + 1 \/ k = Len(s) + 1
      BY <3>1, <3>2, <2>3, <2>4
    <3>3. CASE j # Len(s) + 1 /\ k # Len(s) + 1
      <4>1. PICK o \in DOMAIN s : t[j] = s[o] /\ o = j
        BY <3>3, <2>3
      <4>2. PICK n \in DOMAIN s : t[k] = s[n] /\ n = k
        BY <3>3, <2>3
      <4>3. o = n
        BY <4>1, <4>2, <2>2, <2>4
      <4> QED BY <4>1, <4>2, <4>3, <1>3, <3>3
    <3> QED BY <3>2, <3>3
  <2> QED BY <2>4 DEF IsInjective
<1>5. ToSet(t) \subseteq ToSet(s) \cup {x}
  BY <1>1, <1>2, <1>3 DEF ToSet
<1>6. x \in ToSet(t)
  BY <1>1, <1>2, <1>3 DEF ToSet
<1>7. ASSUME NEW k \in DOMAIN s PROVE s[k] \in ToSet(t)
  <2>1. k \in DOMAIN t /\ t[k] = s[k]
    BY <1>1, <1>2, <1>3
  <2> QED BY <2>1 DEF ToSet
<1>8. ToSet(s) \subseteq ToSet(t)
  BY <1>7 DEF ToSet
<1> QED BY <1>1, <1>4, <1>5, <1>6, <1>8 DEF t

\* A sequence of one element in front puts it there.
LEMMA PutInFront ==
  ASSUME NEW S, NEW s \in Seq(S), IsInjective(s), NEW x, x \notin ToSet(s)
  PROVE  /\ <<x>> \o s \in Seq(S \cup {x})
         /\ IsInjective(<<x>> \o s)
         /\ ToSet(<<x>> \o s) = ToSet(s) \cup {x}
<1> DEFINE t == <<x>> \o s
<1>1. t \in Seq(S \cup {x}) /\ Len(t) = Len(s) + 1
  OBVIOUS
<1>2. \A k \in 1..Len(t) : t[k] = IF k = 1 THEN x ELSE s[k - 1]
  OBVIOUS
<1> HIDE DEF t
<1>3. DOMAIN t = 1..(Len(s) + 1) /\ DOMAIN s = 1..Len(s)
  BY <1>1
<1>4. IsInjective(t)
  <2>1. \A k \in DOMAIN s : s[k] # x
    BY DEF ToSet
  <2>2. \A j, k \in DOMAIN s : s[j] = s[k] => j = k
    BY DEF IsInjective
  <2>3. ASSUME NEW l \in DOMAIN t, l # 1
        PROVE  t[l] # x /\ \E o \in DOMAIN s : t[l] = s[o] /\ o = l - 1
    <3>1. l - 1 \in DOMAIN s /\ t[l] = s[l - 1]
      BY <2>3, <1>1, <1>2, <1>3
    <3> QED BY <3>1, <2>1
  <2>4. ASSUME NEW j \in DOMAIN t, NEW k \in DOMAIN t, t[j] = t[k] PROVE j = k
    <3>1. t[1] = x
      BY <1>1, <1>2
    <3>2. CASE j = 1 \/ k = 1
      BY <3>1, <3>2, <2>3, <2>4
    <3>3. CASE j # 1 /\ k # 1
      <4>1. PICK o \in DOMAIN s : t[j] = s[o] /\ o = j - 1
        BY <3>3, <2>3
      <4>2. PICK n \in DOMAIN s : t[k] = s[n] /\ n = k - 1
        BY <3>3, <2>3
      <4>3. o = n
        BY <4>1, <4>2, <2>2, <2>4
      <4> QED BY <4>1, <4>2, <4>3, <1>3, <3>3
    <3> QED BY <3>2, <3>3
  <2> QED BY <2>4 DEF IsInjective
<1>5. ToSet(t) \subseteq ToSet(s) \cup {x}
  BY <1>1, <1>2, <1>3 DEF ToSet
<1>6. x \in ToSet(t)
  BY <1>1, <1>2, <1>3 DEF ToSet
<1>7. ASSUME NEW k \in DOMAIN s PROVE s[k] \in ToSet(t)
  <2>1. k + 1 \in DOMAIN t /\ t[k + 1] = s[k]
    BY <1>1, <1>2, <1>3
  <2> QED BY <2>1 DEF ToSet
<1>8. ToSet(s) \subseteq ToSet(t)
  BY <1>7 DEF ToSet
<1> QED BY <1>1, <1>4, <1>5, <1>6, <1>8 DEF t

\* RemoveAt takes out the element at an index.
LEMMA Removed ==
  ASSUME NEW S, NEW s \in Seq(S), IsInjective(s), NEW i \in 1..Len(s)
  PROVE  /\ RemoveAt(s, i) \in Seq(S)
         /\ IsInjective(RemoveAt(s, i))
         /\ ToSet(RemoveAt(s, i)) = ToSet(s) \ {s[i]}
<1> DEFINE t == RemoveAt(s, i)
<1> DEFINE a == SubSeq(s, 1, i - 1)
           b == SubSeq(s, i + 1, Len(s))
<1>a. /\ a \in Seq(S) /\ Len(a) = i - 1
      /\ \A k \in 1..(i - 1) : a[k] = s[k]
  <2>1. \A k \in 1..(i - 1) : s[k] \in S
    OBVIOUS
  <2> QED BY <2>1, SubSeqProperties
<1>b. /\ b \in Seq(S) /\ Len(b) = Len(s) - i
      /\ \A k \in 1..(Len(s) - i) : b[k] = s[k + i]
  <2>1. \A k \in (i + 1)..Len(s) : s[k] \in S
    OBVIOUS
  <2> QED BY <2>1, SubSeqProperties
<1>c. t = a \o b
  BY DEF RemoveAt
<1> HIDE DEF a, b, t
<1>d. /\ t \in Seq(S) /\ Len(t) = (i - 1) + (Len(s) - i)
      /\ \A k \in 1..((i - 1) + (Len(s) - i)) : t[k] = IF k <= i - 1 THEN a[k] ELSE b[k - (i - 1)]
  <2>1. /\ a \o b \in Seq(S) /\ Len(a \o b) = Len(a) + Len(b)
        /\ \A k \in 1..(Len(a) + Len(b)) : (a \o b)[k] = IF k <= Len(a) THEN a[k] ELSE b[k - Len(a)]
    BY <1>a, <1>b, ConcatProperties
  <2> QED BY <2>1, <1>a, <1>b, <1>c
<1>1. t \in Seq(S) /\ Len(t) = Len(s) - 1
  BY <1>d
<1>2. \A k \in 1..Len(t) : t[k] = IF k < i THEN s[k] ELSE s[k + 1]
  <2>1. \A k \in 1..Len(t) : ~(k < i) => b[k - (i - 1)] = s[k + 1]
    <3>1. \A k \in 1..Len(t) : ~(k < i) => k - (i - 1) \in 1..(Len(s) - i) /\ k - (i - 1) + i = k + 1
      BY <1>1
    <3> QED BY <3>1, <1>b
  <2> SUFFICES ASSUME NEW k \in 1..Len(t)
               PROVE  t[k] = IF k < i THEN s[k] ELSE s[k + 1]
    OBVIOUS
  <2>2. t[k] = IF k <= i - 1 THEN a[k] ELSE b[k - (i - 1)]
    BY <1>d, <1>1
  <2>3. k <= i - 1 <=> k < i
    BY <1>1
  <2>4. k < i => a[k] = s[k]
    BY <1>a, <1>1
  <2> QED BY <2>1, <2>2, <2>3, <2>4
<1>3. DOMAIN t = 1..(Len(s) - 1) /\ DOMAIN s = 1..Len(s)
  BY <1>1
<1>4. IsInjective(t)
  <2> DEFINE was(k) == IF k < i THEN k ELSE k + 1
  <2>1. \A k \in DOMAIN t : was(k) \in DOMAIN s /\ t[k] = s[was(k)]
    BY <1>1, <1>2, <1>3
  <2>2. \A j, k \in DOMAIN t : was(j) = was(k) => j = k
    BY <1>1, <1>3
  <2> HIDE DEF was
  <2>3. \A j, k \in DOMAIN s : s[j] = s[k] => j = k
    BY DEF IsInjective
  <2>4. \A j, k \in DOMAIN t : t[j] = t[k] => j = k
    BY <2>1, <2>2, <2>3
  <2> QED BY <2>4 DEF IsInjective
<1>5. ASSUME NEW k \in DOMAIN t PROVE t[k] \in ToSet(s) \ {s[i]}
  <2>1. CASE k < i
    <3>1. k \in DOMAIN s /\ i \in DOMAIN s /\ k # i /\ t[k] = s[k]
      BY <2>1, <1>1, <1>2, <1>3
    <3> QED BY <3>1 DEF ToSet, IsInjective
  <2>2. CASE ~(k < i)
    <3>1. k + 1 \in DOMAIN s /\ i \in DOMAIN s /\ k + 1 # i /\ t[k] = s[k + 1]
      BY <2>2, <1>1, <1>2, <1>3
    <3> QED BY <3>1 DEF ToSet, IsInjective
  <2> QED BY <2>1, <2>2
<1>6. ASSUME NEW k \in DOMAIN s, s[k] # s[i] PROVE s[k] \in ToSet(t)
  <2>1. CASE k < i
    <3>1. k \in DOMAIN t /\ t[k] = s[k]
      BY <2>1, <1>1, <1>2, <1>3
    <3> QED BY <3>1 DEF ToSet
  <2>2. CASE ~(k < i)
    <3>1. k - 1 \in DOMAIN t /\ t[k - 1] = s[k]
      BY <2>2, <1>1, <1>2, <1>3, <1>6
    <3> QED BY <3>1 DEF ToSet
  <2> QED BY <2>1, <2>2
<1>7. ToSet(t) \subseteq ToSet(s) \ {s[i]}
  BY <1>5 DEF ToSet
<1>8. ToSet(s) \ {s[i]} \subseteq ToSet(t)
  BY <1>6 DEF ToSet
<1> QED BY <1>1, <1>4, <1>7, <1>8 DEF t

\* RemoveFirst takes out an element, wherever it is.
LEMMA RemovedElement ==
  ASSUME NEW S, NEW s \in Seq(S), IsInjective(s), NEW x
  PROVE  /\ RemoveFirst(s, x) \in Seq(S)
         /\ IsInjective(RemoveFirst(s, x))
         /\ ToSet(RemoveFirst(s, x)) = ToSet(s) \ {x}
<1>1. CASE \A i \in 1..Len(s) : s[i] # x
  <2>1. RemoveFirst(s, x) = s
    BY <1>1 DEF RemoveFirst
  <2>2. x \notin ToSet(s)
    BY <1>1 DEF ToSet
  <2> QED BY <2>1, <2>2
<1>2. CASE \E i \in 1..Len(s) : s[i] = x
  <2> DEFINE I == {i \in 1..Len(s) : s[i] = x}
  <2>1. I \in SUBSET Nat /\ I # {}
    BY <1>2
  <2>2. Min(I) \in I
    BY <2>1, LeastElement
  <2>3. RemoveFirst(s, x) = RemoveAt(s, Min(I))
    BY <1>2, <2>1 DEF RemoveFirst, SelectInSeq
  <2>4. PICK m \in 1..Len(s) : s[m] = x /\ m = Min(I)
    BY <2>2
  <2>5. RemoveFirst(s, x) = RemoveAt(s, m)
    BY <2>3, <2>4
  <2> HIDE DEF I
  <2> QED BY <2>4, <2>5, Removed
<1> QED BY <1>1, <1>2

\* Tail takes out the first element.
LEMMA TailOf ==
  ASSUME NEW S, NEW s \in Seq(S), IsInjective(s), s # <<>>
  PROVE  /\ Tail(s) \in Seq(S)
         /\ IsInjective(Tail(s))
         /\ ToSet(Tail(s)) = ToSet(s) \ {Head(s)}
         /\ Head(s) = s[1] /\ 1 \in DOMAIN s
<1>1. Len(s) >= 1 /\ 1 \in 1..Len(s) /\ Head(s) = s[1]
  OBVIOUS
<1>2. Tail(s) = RemoveAt(s, 1)
  <2>1. SubSeq(s, 1, 0) = <<>>
    BY SubSeqEmpty
  <2>2. Tail(s) = SubSeq(s, 2, Len(s))
    BY TailIsSubSeq
  <2>3. Tail(s) \in Seq(S)
    BY HeadTailProperties
  <2>4. RemoveAt(s, 1) = SubSeq(s, 1, 0) \o SubSeq(s, 2, Len(s))
    BY DEF RemoveAt
  <2> QED BY <2>1, <2>2, <2>3, <2>4, ConcatEmptySeq
<1>3. /\ RemoveAt(s, 1) \in Seq(S)
      /\ IsInjective(RemoveAt(s, 1))
      /\ ToSet(RemoveAt(s, 1)) = ToSet(s) \ {s[1]}
  BY <1>1, Removed
<1>4. 1 \in DOMAIN s
  BY <1>1
<1> QED BY <1>1, <1>2, <1>3, <1>4

\* SetToSeqs enumerates every element of a finite set once.
LEMMA Enumerated ==
  ASSUME NEW S, IsFiniteSet(S), NEW s \in SetToSeqs(S)
  PROVE  s \in Seq(S) /\ IsInjective(s) /\ ToSet(s) = S
<1> DEFINE n == Cardinality(S)
<1>1. n \in Nat
  BY FS_CardinalityType
<1>2. /\ s \in [1..n -> S]
      /\ \A j, k \in 1..n : j # k => s[j] # s[k]
  BY DEF SetToSeqs
<1> HIDE DEF n
<1>3. s \in Seq(S) /\ DOMAIN s = 1..n
  BY <1>1, <1>2
<1>4. IsInjective(s)
  BY <1>2, <1>3 DEF IsInjective
<1>5. ToSet(s) \subseteq S
  BY <1>2, <1>3 DEF ToSet
<1>6. s \in Bijection(1..n, ToSet(s))
  <2>1. s \in [1..n -> ToSet(s)]
    BY <1>2, <1>3 DEF ToSet
  <2>2. \A t \in ToSet(s) : \E k \in 1..n : s[k] = t
    BY <1>3 DEF ToSet
  <2> QED BY <2>1, <2>2, <1>2 DEF Bijection, Injection, Surjection, IsInjective
<1>7. Cardinality(ToSet(s)) = n
  BY <1>1, <1>6, FS_CountingElements DEF ExistsBijection
<1>8. ToSet(s) = S
  BY <1>5, <1>7, FS_Subset DEF n
<1> QED BY <1>3, <1>4, <1>8

\* A function from 1..n is a sequence of length n.
LEMMA FunctionIsSequence ==
  ASSUME NEW S, NEW n \in Nat, NEW f \in [1..n -> S]
  PROVE  f \in Seq(S) /\ Len(f) = n
<1>1. f \in Seq(S)
  BY SeqDef
<1>2. DOMAIN f = 1..Len(f) /\ Len(f) \in Nat /\ DOMAIN f = 1..n
  BY <1>1, LenProperties
<1>3. CASE n < Len(f)
  <2>1. Len(f) \in 1..Len(f) /\ Len(f) \notin 1..n
    BY <1>2, <1>3
  <2> QED BY <2>1, <1>2
<1>4. CASE Len(f) < n
  <2>1. n \in 1..n /\ n \notin 1..Len(f)
    BY <1>2, <1>4
  <2> QED BY <2>1, <1>2
<1> QED BY <1>1, <1>2, <1>3, <1>4

\* Append adds one element, also to a sequence that repeats some.
LEMMA ToSetOfAppend ==
  ASSUME NEW T, NEW s \in Seq(T), NEW x
  PROVE  ToSet(Append(s, x)) = ToSet(s) \cup {x}
<1> DEFINE t == Append(s, x)
<1>1. /\ DOMAIN t = 1..(Len(s) + 1) /\ DOMAIN s = 1..Len(s) /\ Len(s) \in Nat
      /\ t[Len(s) + 1] = x /\ \A i \in 1..Len(s) : t[i] = s[i]
  OBVIOUS
<1> HIDE DEF t
<1>2. \A i \in DOMAIN t : i \in DOMAIN s \/ i = Len(s) + 1
  BY <1>1
<1>3. \A i \in DOMAIN s : i \in DOMAIN t
  BY <1>1
<1>4. ToSet(t) = ToSet(s) \cup {x}
  BY <1>1, <1>2, <1>3 DEF ToSet
<1> QED BY <1>4 DEF t

-----------------------------------------------------------------------------
(* VecDeque::retain *)

\* The elements of t come in s in the same order.
Follows(t, s) ==
  \A j, k \in DOMAIN t : j < k =>
    \E m, n \in DOMAIN s : m < n /\ t[j] = s[m] /\ t[k] = s[n]

\* The recursion in Minus, over the first m elements.
RetainStep(f, s, S, m) ==
  [i \in 0..m |-> IF i = 0 THEN <<>>
                  ELSE IF s[i] \in S THEN f[i - 1]
                  ELSE Append(f[i - 1], s[i])]

\* It has a solution.
LEMMA RetainExists ==
  ASSUME NEW s, Len(s) \in Nat, NEW S
  PROVE  \E f : f = RetainStep(f, s, S, Len(s))
<1> DEFINE Step(f, m) == RetainStep(f, s, S, m)
           T == {m \in Nat : \E f : f = Step(f, m)}
<1> USE DEF RetainStep
<1>1. 0 \in T
  <2> DEFINE f == [i \in 0..0 |-> <<>>]
  <2>1. \A i \in 0..0 : i = 0
    OBVIOUS
  <2>2. f = Step(f, 0)
    BY <2>1
  <2> QED BY <2>2
<1>2. ASSUME NEW m \in T PROVE m + 1 \in T
  <2>1. PICK f : f = Step(f, m)
    OBVIOUS
  <2> DEFINE g == Step(f, m + 1)
  <2>2. \A i \in 0..m : g[i] = f[i]
    <3> SUFFICES ASSUME NEW i \in 0..m PROVE g[i] = f[i]
      OBVIOUS
    <3>1. f[i] = IF i = 0 THEN <<>> ELSE IF s[i] \in S THEN f[i - 1] ELSE Append(f[i - 1], s[i])
      BY <2>1
    <3>2. i \in 0..(m + 1)
      OBVIOUS
    <3> QED BY <3>1, <3>2
  <2>3. \A i \in 0..(m + 1) : i # 0 => i - 1 \in 0..m
    OBVIOUS
  <2>4. g = Step(g, m + 1)
    <3>1. \A i \in 0..(m + 1) : g[i] = IF i = 0 THEN <<>> ELSE IF s[i] \in S THEN g[i - 1]
                                       ELSE Append(g[i - 1], s[i])
      BY <2>2, <2>3
    <3>2. g = [i \in 0..(m + 1) |-> g[i]]
      OBVIOUS
    <3> HIDE DEF g
    <3> QED BY <3>1, <3>2
  <2> HIDE DEF g, RetainStep
  <2>5. \E h : h = Step(h, m + 1)
    BY <2>4
  <2> QED BY <2>5
<1>3. T \in SUBSET Nat
  OBVIOUS
<1> HIDE DEF T, RetainStep
<1>4. \A z \in Nat : z \in T
  BY <1>1, <1>2, <1>3, EveryNat
<1>5. Len(s) \in T
  BY <1>4
<1> QED BY <1>5 DEF T

\* What the recursion computes for every prefix.
KeepsOutside(kept, s, S) ==
  /\ kept[0] = <<>>
  /\ \A i \in 0..(Len(s) - 1) :
       kept[i + 1] = IF s[i + 1] \in S THEN kept[i] ELSE Append(kept[i], s[i + 1])
  /\ Minus(s, S) = kept[Len(s)]

LEMMA MinusOf ==
  ASSUME NEW T, NEW s \in Seq(T), NEW S
  PROVE  \E kept : KeepsOutside(kept, s, S)
<1>1. Len(s) \in Nat /\ DOMAIN s = 1..Len(s)
  OBVIOUS
<1> DEFINE Solves(f) == f = RetainStep(f, s, S, Len(s))
           kept == CHOOSE f : Solves(f)
<1>2. Solves(kept)
  <2>1. \E f : Solves(f)
    BY <1>1, RetainExists
  <2> HIDE DEF Solves
  <2> QED BY <2>1
<1>3. Minus(s, S) = kept[Len(s)]
  BY DEF Minus, RetainStep
<1>4. /\ kept[0] = <<>>
      /\ \A i \in 0..(Len(s) - 1) :
           kept[i + 1] = IF s[i + 1] \in S THEN kept[i] ELSE Append(kept[i], s[i + 1])
  <2>1. \A i \in 0..Len(s) :
          kept[i] = IF i = 0 THEN <<>> ELSE IF s[i] \in S THEN kept[i - 1]
                    ELSE Append(kept[i - 1], s[i])
    BY <1>2 DEF RetainStep
  <2> HIDE DEF kept
  <2>2. \A i \in 0..(Len(s) - 1) : i + 1 \in 0..Len(s) /\ i + 1 # 0 /\ (i + 1) - 1 = i
    BY <1>1
  <2> QED BY <1>1, <2>1, <2>2
<1> HIDE DEF kept
<1> QED BY <1>3, <1>4 DEF KeepsOutside

\* Minus, one element after another.
LEMMA MinusOfEmpty == ASSUME NEW S PROVE Minus(<<>>, S) = <<>>
<1>1. <<>> \in Seq({}) /\ Len(<<>>) = 0
  OBVIOUS
<1>2. PICK kept : KeepsOutside(kept, <<>>, S)
  BY <1>1, MinusOf
<1> QED BY <1>1, <1>2 DEF KeepsOutside

LEMMA MinusOfAppend ==
  ASSUME NEW T, NEW s \in Seq(T), NEW x \in T, NEW S
  PROVE  Minus(Append(s, x), S) = IF x \in S THEN Minus(s, S) ELSE Append(Minus(s, S), x)
<1> DEFINE t == Append(s, x)
           n == Len(s)
<1>1. /\ t \in Seq(T) /\ Len(t) = n + 1 /\ n \in Nat /\ t[n + 1] = x
      /\ \A i \in 1..n : t[i] = s[i]
  OBVIOUS
<1>2. PICK k : KeepsOutside(k, s, S)
  BY MinusOf
<1> HIDE DEF t
<1>3. PICK l : KeepsOutside(l, t, S)
  BY <1>1, MinusOf
<1> HIDE DEF n
<1> DEFINE M == {i \in Nat : i <= n => l[i] = k[i]}
<1>4. 0 \in M
  BY <1>2, <1>3 DEF KeepsOutside
<1>5. ASSUME NEW i \in M PROVE i + 1 \in M
  <2> SUFFICES ASSUME i + 1 <= n PROVE l[i + 1] = k[i + 1]
    OBVIOUS
  <2>1. i \in 0..(n - 1) /\ i \in 0..((n + 1) - 1) /\ i + 1 \in 1..n /\ l[i] = k[i]
    BY <1>1
  <2>2. k[i + 1] = IF s[i + 1] \in S THEN k[i] ELSE Append(k[i], s[i + 1])
    BY <1>2, <2>1 DEF KeepsOutside, n
  <2>3. l[i + 1] = IF t[i + 1] \in S THEN l[i] ELSE Append(l[i], t[i + 1])
    BY <1>1, <1>3, <2>1 DEF KeepsOutside
  <2> QED BY <1>1, <2>1, <2>2, <2>3
<1>6. M \in SUBSET Nat
  OBVIOUS
<1> HIDE DEF M
<1>7. n \in M
  BY <1>1, <1>4, <1>5, <1>6, EveryNat
<1>8. l[n] = k[n]
  BY <1>1, <1>7 DEF M
<1>9. n \in 0..((n + 1) - 1)
  BY <1>1
<1>10. l[n + 1] = IF t[n + 1] \in S THEN l[n] ELSE Append(l[n], t[n + 1])
  BY <1>1, <1>3, <1>9 DEF KeepsOutside
<1>11. Minus(t, S) = l[n + 1] /\ Minus(s, S) = k[n]
  BY <1>1, <1>2, <1>3 DEF KeepsOutside, n
<1>12. Minus(t, S) = IF x \in S THEN Minus(s, S) ELSE Append(Minus(s, S), x)
  BY <1>1, <1>8, <1>10, <1>11
<1> QED BY <1>12 DEF t

\* Induction over sequences: what holds of <<>> and, with s, of Append(s, x) holds of all.
LEMMA EverySequence ==
  ASSUME NEW T, NEW P \in SUBSET Seq(T), <<>> \in P, \A s \in P : \A x \in T : Append(s, x) \in P
  PROVE  \A s \in Seq(T) : s \in P
<1> DEFINE M == {n \in Nat : \A s \in Seq(T) : Len(s) = n => s \in P}
<1>1. 0 \in M
  <2>1. \A s \in Seq(T) : Len(s) = 0 => s = <<>>
    OBVIOUS
  <2> QED BY <2>1
<1>2. ASSUME NEW n \in M PROVE n + 1 \in M
  <2> SUFFICES ASSUME NEW s \in Seq(T), Len(s) = n + 1 PROVE s \in P
    OBVIOUS
  <2> DEFINE f == [i \in 1..n |-> s[i]]
  <2>1. n \in Nat /\ f \in [1..n -> T] /\ s[n + 1] \in T
    OBVIOUS
  <2>2. f \in Seq(T) /\ Len(f) = n
    BY <2>1, FunctionIsSequence
  <2>3. f \in P
    BY <2>1, <2>2
  <2>4. s = Append(f, s[n + 1])
    <3> DEFINE t == Append(f, s[n + 1])
    <3>1. /\ t \in Seq(T) /\ Len(t) = n + 1 /\ t[n + 1] = s[n + 1]
          /\ \A i \in 1..n : t[i] = f[i] /\ f[i] = s[i]
      BY <2>1, <2>2
    <3> HIDE DEF t, f
    <3>2. \A i \in 1..(n + 1) : i \in 1..n \/ i = n + 1
      BY <2>1
    <3>3. \A i \in 1..Len(t) : t[i] = s[i]
      BY <3>1, <3>2
    <3>4. t = s
      BY <3>1, <3>3, SeqEqual
    <3> QED BY <3>4 DEF t
  <2> HIDE DEF f
  <2> QED BY <2>1, <2>3, <2>4
<1>3. M \in SUBSET Nat
  OBVIOUS
<1> HIDE DEF M
<1>4. \A n \in Nat : n \in M
  BY <1>1, <1>2, <1>3, EveryNat
<1> QED BY <1>4 DEF M

\* Minus loses the elements of S, and looks at nothing else of S.
LEMMA MinusElements ==
  ASSUME NEW T, NEW s \in Seq(T), NEW S
  PROVE  Minus(s, S) \in Seq(T) /\ ToSet(Minus(s, S)) = ToSet(s) \ S
<1> DEFINE P == {t \in Seq(T) : Minus(t, S) \in Seq(T) /\ ToSet(Minus(t, S)) = ToSet(t) \ S}
<1>1. <<>> \in P
  <2>1. ToSet(<<>>) = {} /\ <<>> \in Seq(T)
    BY DEF ToSet
  <2> QED BY <2>1, MinusOfEmpty
<1>2. ASSUME NEW t \in P, NEW x \in T PROVE Append(t, x) \in P
  <2> DEFINE u == Minus(t, S)
  <2>1. u \in Seq(T) /\ ToSet(u) = ToSet(t) \ S /\ t \in Seq(T)
    OBVIOUS
  <2>2. Minus(Append(t, x), S) = IF x \in S THEN u ELSE Append(u, x)
    BY <2>1, MinusOfAppend
  <2> HIDE DEF u
  <2>3. ToSet(Append(t, x)) = ToSet(t) \cup {x} /\ ToSet(Append(u, x)) = ToSet(u) \cup {x}
    BY <2>1, ToSetOfAppend
  <2>4. Append(t, x) \in Seq(T) /\ Append(u, x) \in Seq(T)
    BY <2>1
  <2>5. CASE x \in S
    BY <2>1, <2>2, <2>3, <2>4, <2>5
  <2>6. CASE x \notin S
    BY <2>1, <2>2, <2>3, <2>4, <2>6
  <2> QED BY <2>5, <2>6
<1>3. P \in SUBSET Seq(T)
  OBVIOUS
<1> HIDE DEF P
<1>4. s \in P
  BY <1>1, <1>2, <1>3, EverySequence
<1> QED BY <1>4 DEF P

LEMMA MinusAlike ==
  ASSUME NEW T, NEW s \in Seq(T), NEW A, NEW B, \A x \in T : x \in A <=> x \in B
  PROVE  Minus(s, A) = Minus(s, B)
<1> DEFINE P == {t \in Seq(T) : Minus(t, A) = Minus(t, B)}
<1>1. <<>> \in P
  BY MinusOfEmpty
<1>2. ASSUME NEW t \in P, NEW x \in T PROVE Append(t, x) \in P
  <2>1. t \in Seq(T) /\ Minus(t, A) = Minus(t, B) /\ Append(t, x) \in Seq(T)
    OBVIOUS
  <2>2. /\ Minus(Append(t, x), A) = IF x \in A THEN Minus(t, A) ELSE Append(Minus(t, A), x)
        /\ Minus(Append(t, x), B) = IF x \in B THEN Minus(t, B) ELSE Append(Minus(t, B), x)
    BY <2>1, MinusOfAppend
  <2> QED BY <2>1, <2>2
<1>3. P \in SUBSET Seq(T)
  OBVIOUS
<1> HIDE DEF P
<1>4. s \in P
  BY <1>1, <1>2, <1>3, EverySequence
<1> QED BY <1>4 DEF P

LEMMA MinusTwice ==
  ASSUME NEW T, NEW s \in Seq(T), NEW A, NEW B
  PROVE  Minus(Minus(s, A), B) = Minus(s, A \cup B)
<1> DEFINE P == {t \in Seq(T) : Minus(Minus(t, A), B) = Minus(t, A \cup B)}
<1>1. <<>> \in P
  BY MinusOfEmpty
<1>2. ASSUME NEW t \in P, NEW x \in T PROVE Append(t, x) \in P
  <2>1. /\ t \in Seq(T) /\ Minus(Minus(t, A), B) = Minus(t, A \cup B)
        /\ Append(t, x) \in Seq(T) /\ Minus(t, A) \in Seq(T)
    BY MinusElements
  <2>2. /\ Minus(Append(t, x), A) = IF x \in A THEN Minus(t, A) ELSE Append(Minus(t, A), x)
        /\ Minus(Append(t, x), A \cup B) =
             IF x \in A \cup B THEN Minus(t, A \cup B) ELSE Append(Minus(t, A \cup B), x)
    BY <2>1, MinusOfAppend
  <2>3. Minus(Append(Minus(t, A), x), B) =
          IF x \in B THEN Minus(Minus(t, A), B) ELSE Append(Minus(Minus(t, A), B), x)
    <3> DEFINE u == Minus(t, A)
    <3>1. u \in Seq(T)
      BY <2>1
    <3> HIDE DEF u
    <3>2. Minus(Append(u, x), B) = IF x \in B THEN Minus(u, B) ELSE Append(Minus(u, B), x)
      BY <3>1, MinusOfAppend
    <3> QED BY <3>2 DEF u
  <2>4. Minus(Minus(Append(t, x), A), B) = Minus(Append(t, x), A \cup B)
    <3>1. CASE x \in A
      BY <2>1, <2>2, <3>1
    <3>2. CASE x \notin A /\ x \in B
      BY <2>1, <2>2, <2>3, <3>2
    <3>3. CASE x \notin A /\ x \notin B
      BY <2>1, <2>2, <2>3, <3>3
    <3> QED BY <3>1, <3>2, <3>3
  <2> QED BY <2>1, <2>4
<1>3. P \in SUBSET Seq(T)
  OBVIOUS
<1> HIDE DEF P
<1>4. s \in P
  BY <1>1, <1>2, <1>3, EverySequence
<1> QED BY <1>4 DEF P

\* Minus keeps the elements outside of S, each once and in their order.
LEMMA Retained ==
  ASSUME NEW T, NEW s \in Seq(T), IsInjective(s), NEW S
  PROVE  /\ Minus(s, S) \in Seq(T) /\ IsInjective(Minus(s, S))
         /\ ToSet(Minus(s, S)) = ToSet(s) \ S
         /\ Follows(Minus(s, S), s)
<1>1. Len(s) \in Nat /\ DOMAIN s = 1..Len(s)
  OBVIOUS
<1>2. PICK kept : KeepsOutside(kept, s, S)
  BY MinusOf
<1>3. Minus(s, S) = kept[Len(s)]
  BY <1>2 DEF KeepsOutside
<1>4. /\ kept[0] = <<>>
      /\ \A i \in 0..(Len(s) - 1) :
           kept[i + 1] = IF s[i + 1] \in S THEN kept[i] ELSE Append(kept[i], s[i + 1])
  BY <1>2 DEF KeepsOutside
<1> DEFINE Part(i) == {s[k] : k \in {m \in 1..i : s[m] \notin S}}
           From(t, i) == \A j \in DOMAIN t : \E m \in 1..i : t[j] = s[m]
           Ordered(t, i) == \A j, k \in DOMAIN t : j < k =>
                              \E m, n \in 1..i : m < n /\ t[j] = s[m] /\ t[k] = s[n]
           Right(t, i) == t \in Seq(T) /\ IsInjective(t) /\ ToSet(t) = Part(i)
                          /\ From(t, i) /\ Ordered(t, i)
           M == {i \in Nat : i <= Len(s) => Right(kept[i], i)}
<1>5. 0 \in M
  <2>1. <<>> \in Seq(T) /\ IsInjective(<<>>) /\ ToSet(<<>>) = {} /\ Part(0) = {}
        /\ DOMAIN <<>> = {}
    BY DEF IsInjective, ToSet
  <2> HIDE DEF Part
  <2> QED BY <1>4, <2>1
<1> HIDE DEF M
<1>6. ASSUME NEW i \in M PROVE i + 1 \in M
  <2> SUFFICES ASSUME i + 1 <= Len(s) PROVE Right(kept[i + 1], i + 1)
    BY DEF M
  <2>1. i \in Nat /\ i \in 0..(Len(s) - 1) /\ i + 1 \in DOMAIN s
    BY <1>1 DEF M
  <2>2. Right(kept[i], i)
    BY <1>6, <2>1 DEF M
  <2> DEFINE t == kept[i]
             x == s[i + 1]
  <2>3. \A k \in 1..(i + 1) : k \in 1..i \/ k = i + 1
    BY <2>1
  <2>4. CASE x \in S
    <3>1. kept[i + 1] = t
      BY <1>4, <2>1, <2>4
    <3>2. Part(i + 1) = Part(i)
      BY <2>1, <2>3, <2>4
    <3>3. From(t, i) /\ Ordered(t, i) /\ \A m \in 1..i : m \in 1..(i + 1)
      BY <2>1, <2>2
    <3>4. From(t, i + 1) /\ Ordered(t, i + 1)
      BY <3>3
    <3> HIDE DEF Part, From, Ordered
    <3>5. Right(t, i + 1)
      BY <2>2, <3>2, <3>4
    <3> QED BY <3>1, <3>5
  <2>5. CASE x \notin S
    <3>1. kept[i + 1] = Append(t, x)
      BY <1>4, <2>1, <2>5
    <3>2. Part(i + 1) = Part(i) \cup {x}
      <4>1. \A m \in 1..(i + 1) : s[m] \notin S => s[m] \in Part(i) \cup {x}
        BY <2>3
      <4>2. x \in Part(i + 1) /\ Part(i) \subseteq Part(i + 1)
        BY <2>1, <2>5
      <4> QED BY <4>1, <4>2
    <3>3. x \notin ToSet(t) /\ x \in T
      <4>1. \A m \in 1..i : s[m] # x
        BY <1>1, <2>1 DEF IsInjective
      <4> QED BY <2>1, <2>2, <4>1
    <3>4. t \in Seq(T) /\ Len(t) \in Nat /\ DOMAIN t = 1..Len(t) /\ IsInjective(t)
      BY <2>2
    <3> DEFINE u == Append(t, x)
    <3>5. u \in Seq(T \cup {x}) /\ IsInjective(u) /\ ToSet(u) = ToSet(t) \cup {x}
      BY <3>3, <3>4, AppendedAt
    <3>6. /\ u \in Seq(T) /\ DOMAIN u = 1..(Len(t) + 1) /\ u[Len(t) + 1] = x
          /\ \A j \in 1..Len(t) : u[j] = t[j]
      BY <3>3, <3>4
    <3>7. From(t, i) /\ Ordered(t, i)
      BY <2>2
    <3> HIDE DEF t, u
    <3>8. From(u, i + 1)
      <4> SUFFICES ASSUME NEW j \in DOMAIN u PROVE \E m \in 1..(i + 1) : u[j] = s[m]
        OBVIOUS
      <4>1. CASE j \in 1..Len(t)
        <5>1. PICK m \in 1..i : t[j] = s[m]
          BY <3>4, <3>7, <4>1
        <5> QED BY <2>1, <3>6, <4>1, <5>1
      <4>2. CASE j = Len(t) + 1
        <5>1. u[j] = s[i + 1] /\ i + 1 \in 1..(i + 1)
          BY <2>1, <3>6, <4>2
        <5> QED BY <5>1
      <4> QED BY <3>4, <3>6, <4>1, <4>2
    <3>9. Ordered(u, i + 1)
      <4> SUFFICES ASSUME NEW j \in DOMAIN u, NEW k \in DOMAIN u, j < k
                   PROVE  \E m, n \in 1..(i + 1) : m < n /\ u[j] = s[m] /\ u[k] = s[n]
        OBVIOUS
      <4>1. j \in 1..Len(t) /\ u[j] = t[j] /\ j \in DOMAIN t
        BY <3>4, <3>6
      <4>2. CASE k \in 1..Len(t)
        <5>1. PICK m \in 1..i, n \in 1..i : m < n /\ t[j] = s[m] /\ t[k] = s[n]
          BY <3>4, <3>7, <4>1, <4>2
        <5>2. m \in 1..(i + 1) /\ n \in 1..(i + 1) /\ u[k] = t[k]
          BY <2>1, <3>6, <4>2
        <5> QED BY <4>1, <5>1, <5>2
      <4>3. CASE k = Len(t) + 1
        <5>1. PICK m \in 1..i : t[j] = s[m]
          BY <3>7, <4>1
        <5>2. m \in 1..(i + 1) /\ i + 1 \in 1..(i + 1) /\ m < i + 1 /\ u[k] = s[i + 1]
          BY <2>1, <3>6, <4>3
        <5> QED BY <4>1, <5>1, <5>2
      <4> QED BY <3>4, <3>6, <4>2, <4>3
    <3>10. ToSet(u) = Part(i + 1)
      BY <2>2, <3>2, <3>5 DEF t
    <3>11. kept[i + 1] = u
      BY <3>1 DEF u
    <3> HIDE DEF Part, From, Ordered
    <3>12. Right(u, i + 1)
      BY <3>5, <3>6, <3>8, <3>9, <3>10
    <3> HIDE DEF Right
    <3> QED BY <3>11, <3>12
  <2> QED BY <2>4, <2>5
<1>7. M \in SUBSET Nat
  BY DEF M
<1>8. \A z \in Nat : z \in M
  BY <1>5, <1>6, <1>7, EveryNat
<1>9. Len(s) \in M
  BY <1>1, <1>8
<1>10. Right(Minus(s, S), Len(s))
  BY <1>3, <1>9 DEF M
<1>11. Part(Len(s)) = ToSet(s) \ S
  BY <1>1 DEF ToSet
<1> HIDE DEF Part, From, Ordered
<1>12. Follows(Minus(s, S), s)
  <2>1. Ordered(Minus(s, S), Len(s))
    BY <1>10
  <2> QED BY <1>1, <2>1 DEF Ordered, Follows
<1> QED BY <1>10, <1>11, <1>12
=============================================================================
