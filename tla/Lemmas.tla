------------------------------- MODULE Lemmas --------------------------------
(***************************************************************************)
(* Induction over the naturals, stated of sets instead of predicates, and  *)
(* what follows from it for iterated functions and for sequences: each is  *)
(* first-order.                                                            *)
(***************************************************************************)
EXTENDS Integers, FiniteSetsExt, SequencesExt, FiniteSetTheorems, SequenceTheorems,
        WellFoundedInduction, TLAPS

\* A set of naturals has a least element: the strict subsets of a finite set
\* are well-founded, and 0 .. i - 1 is one of 0 .. m - 1 for i below m.
LEMMA LeastNatural ==
  ASSUME NEW S \in SUBSET Nat, S # {}
  PROVE  \E m \in S : \A k \in S : m <= k
<1> DEFINE R == StrictSubsetOrdering(Nat)
           T == {0 .. n - 1 : n \in S}
<1>1. IsWellFoundedOn(R, FiniteSubsetsOf(Nat))
  BY FS_StrictSubsetOrderingWellFounded
<1>2. T \subseteq FiniteSubsetsOf(Nat)
  <2>1. \A n \in S : IsFiniteSet(0 .. n - 1) /\ 0 .. n - 1 \in SUBSET Nat
    BY FS_Interval
  <2> QED BY <2>1 DEF FiniteSubsetsOf
<1>3. T # {}
  OBVIOUS
<1> HIDE DEF T, R
<1>4. PICK x \in T : \A y \in T : ~(<<y, x>> \in R)
  BY <1>1, <1>2, <1>3, WFMin
<1>5. PICK m \in S : x = 0 .. m - 1
  BY <1>4 DEF T
<1>6. ASSUME NEW k \in S, k < m PROVE FALSE
  <2>1. 0 .. k - 1 \in T
    BY <1>6 DEF T
  <2>2. 0 .. k - 1 \subseteq 0 .. m - 1 /\ k \in 0 .. m - 1 /\ k \notin 0 .. k - 1
    BY <1>6
  <2>3. <<0 .. k - 1, 0 .. m - 1>> \in R
    BY <2>2 DEF R, StrictSubsetOrdering
  <2> QED BY <1>4, <1>5, <2>1, <2>3
<1> QED BY <1>6

\* Induction over a set.
LEMMA SetInduction ==
  ASSUME NEW S, 0 \in S, \A n \in Nat : n \in S => n + 1 \in S
  PROVE  \A n \in Nat : n \in S
<1> SUFFICES ASSUME NEW n \in Nat, n \notin S PROVE FALSE
  OBVIOUS
<1>1. PICK m \in Nat \ S : \A k \in Nat \ S : m <= k
  BY LeastNatural
<1>2. m # 0 /\ m - 1 \in Nat
  BY <1>1
<1>3. m - 1 \in S
  BY <1>1, <1>2
<1> QED BY <1>1, <1>2, <1>3

\* Induction over an interval.
LEMMA IntervalInduction ==
  ASSUME NEW n \in Nat, NEW T, 1 \in T, \A k \in 2 .. n : k - 1 \in T => k \in T
  PROVE  \A k \in 1 .. n : k \in T
<1> DEFINE S == {i \in Nat : i + 1 <= n => i + 1 \in T}
<1>1. 0 \in S
  OBVIOUS
<1>2. ASSUME NEW i \in Nat, i \in S PROVE i + 1 \in S
  <2> SUFFICES ASSUME i + 1 + 1 <= n PROVE i + 1 + 1 \in T
    OBVIOUS
  <2>1. i + 1 + 1 \in 2 .. n /\ i + 1 \in T /\ i + 1 + 1 - 1 = i + 1
    BY <1>2
  <2> QED BY <2>1
<1> HIDE DEF S
<1>3. \A i \in Nat : i \in S
  BY <1>1, <1>2, SetInduction
<1>4. ASSUME NEW k \in 1 .. n PROVE k \in T
  <2>1. k - 1 \in Nat /\ k - 1 + 1 = k /\ k <= n
    OBVIOUS
  <2> QED BY <2>1, <1>3 DEF S
<1> QED BY <1>4

\* A set of naturals that is bounded has a greatest element.
LEMMA GreatestNatural ==
  ASSUME NEW S \in SUBSET Nat, S # {}, NEW b \in Nat, \A k \in S : k <= b
  PROVE  \E m \in S : \A k \in S : k <= m
<1> DEFINE T == {b - k : k \in S}
<1>1. \A k \in S : b - k \in Nat
  OBVIOUS
<1>2. PICK k0 \in S : TRUE
  OBVIOUS
<1>3. T \in SUBSET Nat /\ b - k0 \in T
  BY <1>1, <1>2
<1> HIDE DEF T
<1>4. PICK t \in T : \A u \in T : t <= u
  BY <1>3, LeastNatural
<1>5. PICK m \in S : t = b - m
  BY <1>4 DEF T
<1>6. ASSUME NEW k \in S PROVE k <= m
  <2>1. b - k \in T
    BY DEF T
  <2> QED BY <2>1, <1>4, <1>5
<1> QED BY <1>6

\* The least and the greatest element that Min and Max choose.
LEMMA MinIs ==
  ASSUME NEW S \in SUBSET Nat, S # {}
  PROVE  Min(S) \in S /\ \A k \in S : Min(S) <= k
  BY LeastNatural DEF Min

LEMMA MaxIs ==
  ASSUME NEW S \in SUBSET Nat, S # {}, NEW b \in Nat, \A k \in S : k <= b
  PROVE  Max(S) \in S /\ \A k \in S : k <= Max(S)
<1>1. \E m \in S : \A k \in S : k <= m
  BY GreatestNatural
<1>2. \E m \in S : \A k \in S : m >= k
  BY <1>1
<1>3. Max(S) \in S /\ \A k \in S : Max(S) >= k
  BY <1>2 DEF Max
<1> QED BY <1>3

-----------------------------------------------------------------------------
(* Iterated functions: Runs(X, c, h, n) take n steps from c, the i-th by h[i] *)

Runs(X, c, h, n) ==
  {g \in [0 .. n -> X] : g[0] = c /\ \A i \in 1 .. n : g[i] = h[i][g[i - 1]]}

\* There is a run of every length.
LEMMA RunsExist ==
  ASSUME NEW X, NEW c \in X, NEW N \in Nat, NEW h \in [1 .. N -> [X -> X]]
  PROVE  \A n \in 0 .. N : Runs(X, c, h, n) # {}
<1> DEFINE S == {n \in Nat : n <= N => Runs(X, c, h, n) # {}}
<1>1. 0 \in S
  <2> DEFINE g == [i \in 0 .. 0 |-> c]
  <2>1. g \in Runs(X, c, h, 0)
    BY DEF Runs
  <2> QED BY <2>1
<1>2. ASSUME NEW n \in Nat, n \in S PROVE n + 1 \in S
  <2> SUFFICES ASSUME n + 1 <= N PROVE Runs(X, c, h, n + 1) # {}
    OBVIOUS
  <2>1. PICK g \in Runs(X, c, h, n) : TRUE
    BY <1>2
  <2> DEFINE f == [i \in 0 .. n + 1 |-> IF i <= n THEN g[i] ELSE h[n + 1][g[n]]]
  <2>2. g \in [0 .. n -> X] /\ g[0] = c /\ \A i \in 1 .. n : g[i] = h[i][g[i - 1]]
    BY <2>1 DEF Runs
  <2>3. h[n + 1] \in [X -> X] /\ g[n] \in X
    BY <2>2
  <2>4. f \in [0 .. n + 1 -> X]
    BY <2>2, <2>3
  <2>5. f[0] = c
    BY <2>2
  <2>6. ASSUME NEW i \in 1 .. n + 1 PROVE f[i] = h[i][f[i - 1]]
    <3>1. CASE i <= n
      <4>1. i \in 1 .. n /\ i - 1 \in 0 .. n /\ i \in 0 .. n
        BY <3>1
      <4> QED BY <2>2, <4>1
    <3>2. CASE i = n + 1
      BY <3>2
    <3> QED BY <3>1, <3>2
  <2> HIDE DEF f
  <2>7. f \in Runs(X, c, h, n + 1)
    BY <2>4, <2>5, <2>6 DEF Runs
  <2> QED BY <2>7
<1> HIDE DEF S
<1>3. \A n \in Nat : n \in S
  BY <1>1, <1>2, SetInduction
<1> QED BY <1>3 DEF S

-----------------------------------------------------------------------------
(* Sequences *)

\* A sequence without its i-th element.
LEMMA RemovedIs ==
  ASSUME NEW S, NEW s \in Seq(S), NEW i \in 1 .. Len(s)
  PROVE  /\ RemoveAt(s, i) \in Seq(S)
         /\ Len(RemoveAt(s, i)) = Len(s) - 1
         /\ \A k \in 1 .. Len(s) - 1 : RemoveAt(s, i)[k] = IF k < i THEN s[k] ELSE s[k + 1]
<1> DEFINE u == SubSeq(s, 1, i - 1)
           v == SubSeq(s, i + 1, Len(s))
<1>1. Len(s) \in Nat /\ i \in Int /\ 1 <= i /\ i <= Len(s) /\ \A k \in 1 .. Len(s) : s[k] \in S
  OBVIOUS
<1>2. u \in Seq(S) /\ Len(u) = i - 1 /\ \A k \in 1 .. i - 1 : u[k] = s[k]
  <2>1. i - 1 \in Int /\ \A k \in 1 .. i - 1 : s[k] \in S
    BY <1>1
  <2>2. /\ u \in Seq(S)
        /\ Len(u) = IF 1 <= i - 1 THEN i - 1 - 1 + 1 ELSE 0
        /\ \A k \in 1 .. i - 1 - 1 + 1 : u[k] = s[1 + k - 1]
    BY <2>1, SubSeqProperties
  <2> QED BY <1>1, <2>2
<1>3. v \in Seq(S) /\ Len(v) = Len(s) - i /\ \A k \in 1 .. Len(s) - i : v[k] = s[i + k]
  <2>1. i + 1 \in Int /\ Len(s) \in Int /\ \A k \in i + 1 .. Len(s) : s[k] \in S
    BY <1>1
  <2>2. /\ v \in Seq(S)
        /\ Len(v) = IF i + 1 <= Len(s) THEN Len(s) - (i + 1) + 1 ELSE 0
        /\ \A k \in 1 .. Len(s) - (i + 1) + 1 : v[k] = s[i + 1 + k - 1]
    BY <2>1, SubSeqProperties
  <2> QED BY <1>1, <2>2
<1> HIDE DEF u, v
<1>4. /\ u \o v \in Seq(S) /\ Len(u \o v) = Len(u) + Len(v)
      /\ \A k \in 1 .. Len(u) + Len(v) : (u \o v)[k] = IF k <= Len(u) THEN u[k] ELSE v[k - Len(u)]
  BY <1>2, <1>3, ConcatProperties
<1>5. Len(u) + Len(v) = Len(s) - 1
  BY <1>1, <1>2, <1>3
<1>6. ASSUME NEW k \in 1 .. Len(s) - 1 PROVE (u \o v)[k] = IF k < i THEN s[k] ELSE s[k + 1]
  <2>1. CASE k < i
    <3>1. k \in 1 .. i - 1 /\ k <= Len(u)
      BY <2>1, <1>1, <1>2
    <3> QED BY <2>1, <3>1, <1>2, <1>4, <1>5
  <2>2. CASE ~(k < i)
    <3>1. k - Len(u) \in 1 .. Len(s) - i /\ ~(k <= Len(u)) /\ i + (k - Len(u)) = k + 1
      BY <2>2, <1>1, <1>2
    <3> QED BY <2>2, <3>1, <1>3, <1>4, <1>5
  <2> QED BY <2>1, <2>2
<1> QED BY <1>4, <1>5, <1>6 DEF RemoveAt, u, v

\* A sequence with an element before it, or two.
LEMMA ConsIs ==
  ASSUME NEW S, NEW a \in S, NEW t \in Seq(S)
  PROVE  /\ <<a>> \o t \in Seq(S) /\ Len(<<a>> \o t) = Len(t) + 1
         /\ (<<a>> \o t)[1] = a /\ Tail(<<a>> \o t) = t
<1> DEFINE c == <<a>> \o t
<1>1. c \in Seq(S) /\ Len(c) = Len(t) + 1 /\ c[1] = a /\ \A i \in 1 .. Len(t) : c[i + 1] = t[i]
  OBVIOUS
<1>2. Len(t) \in Nat /\ t = [i \in 1 .. Len(t) |-> t[i]]
  OBVIOUS
<1> HIDE DEF c
<1>3. c # <<>>
  BY <1>1, <1>2, EmptySeq
<1> DEFINE u == Tail(c)
<1>4. u \in Seq(S) /\ Len(u) = Len(t) /\ \A i \in 1 .. Len(t) : u[i] = t[i]
  BY <1>1, <1>2, <1>3, HeadTailProperties
<1> HIDE DEF u
<1>5. u = t
  BY <1>2, <1>4, SeqEqual
<1> QED BY <1>1, <1>5 DEF c, u

LEMMA ConsTwo ==
  ASSUME NEW S, NEW a \in S, NEW b \in S, NEW t \in Seq(S)
  PROVE  <<a, b>> \o t = <<a>> \o (<<b>> \o t)
<1> DEFINE u == <<a, b>> \o t
           v == <<b>> \o t
           w == <<a>> \o v
<1>1. u \in Seq(S) /\ Len(u) = Len(t) + 2 /\ u[1] = a /\ u[2] = b
  OBVIOUS
<1>2. \A i \in 3 .. Len(t) + 2 : u[i] = t[i - 2]
  OBVIOUS
<1>3. v \in Seq(S) /\ Len(v) = Len(t) + 1 /\ v[1] = b
  OBVIOUS
<1>4. \A i \in 2 .. Len(t) + 1 : v[i] = t[i - 1]
  OBVIOUS
<1>5. Len(t) \in Nat
  OBVIOUS
<1> HIDE DEF v
<1>6. w \in Seq(S) /\ Len(w) = Len(v) + 1 /\ w[1] = a /\ \A i \in 2 .. Len(v) + 1 : w[i] = v[i - 1]
  BY <1>3
<1> HIDE DEF u, w
<1>7. ASSUME NEW i \in 1 .. Len(t) + 2 PROVE u[i] = w[i]
  <2>1. CASE i = 1
    BY <2>1, <1>1, <1>6
  <2>2. CASE i = 2
    BY <2>2, <1>1, <1>3, <1>5, <1>6
  <2>3. CASE i >= 3
    <3>1. i \in 3 .. Len(t) + 2 /\ i \in 2 .. Len(v) + 1 /\ i - 1 \in 2 .. Len(t) + 1 /\ (i - 1) - 1 = i - 2
      BY <2>3, <1>3, <1>5
    <3> QED BY <3>1, <1>2, <1>4, <1>6
  <2> QED BY <2>1, <2>2, <2>3, <1>5
<1>8. Len(w) = Len(t) + 2
  BY <1>3, <1>5, <1>6
<1>9. u = w
  BY <1>1, <1>6, <1>7, <1>8, SeqEqual
<1> QED BY <1>9 DEF u, w, v

\* FlattenSeq puts sequences together from the first one on.
LEMMA FlattenIs ==
  ASSUME NEW S, NEW s \in Seq(Seq(S)), s # <<>>
  PROVE  \E F \in [1 .. Len(s) -> Seq(S)] :
           /\ F[1] = s[1]
           /\ \A i \in 2 .. Len(s) : F[i] = F[i - 1] \o s[i]
           /\ FlattenSeq(s) = F[Len(s)]
<1> DEFINE n == Len(s)
           Body(g) == [i \in 1 .. n |-> IF i = 1 THEN s[i] ELSE g[i - 1] \o s[i]]
           h == [i \in 1 .. n |-> [x \in Seq(S) |-> x \o s[i]]]
           F == CHOOSE g : g = Body(g)
<1>1. n \in Nat /\ n >= 1 /\ n # 0 /\ \A i \in 1 .. n : s[i] \in Seq(S)
  BY EmptySeq
<1>2. h \in [1 .. n -> [Seq(S) -> Seq(S)]]
  BY <1>1, ConcatProperties
<1>3. <<>> \in Seq(S)
  OBVIOUS
<1> HIDE DEF n
<1> DEFINE X == Seq(S)
           e == <<>>
<1>4. \E g \in [0 .. n -> X] : g[0] = e /\ \A i \in 1 .. n : g[i] = h[i][g[i - 1]]
  <2> HIDE DEF h
  <2>1. h \in [1 .. n -> [X -> X]] /\ e \in X /\ n \in Nat
    BY <1>1, <1>2
  <2> HIDE DEF X, e
  <2>2. \A k \in 0 .. n : Runs(X, e, h, k) # {}
    BY <2>1, RunsExist
  <2>3. Runs(X, e, h, n) # {}
    BY <2>1, <2>2
  <2> QED BY <2>3 DEF Runs
<1>5. PICK g \in [0 .. n -> X] : g[0] = e /\ \A i \in 1 .. n : g[i] = h[i][g[i - 1]]
  BY <1>4
<1>6. ASSUME NEW i \in 1 .. n PROVE g[i] = g[i - 1] \o s[i]
  <2>1. i - 1 \in 0 .. n /\ g[i - 1] \in Seq(S)
    BY <1>1, <1>5
  <2>2. h[i] = [x \in Seq(S) |-> x \o s[i]]
    OBVIOUS
  <2>3. h[i][g[i - 1]] = g[i - 1] \o s[i]
    BY <2>1, <2>2
  <2> HIDE DEF h
  <2> QED BY <1>5, <2>3
<1> HIDE DEF h
<1>7. g[1] = s[1]
  <2>1. 1 \in 1 .. n /\ 1 - 1 = 0
    BY <1>1
  <2>2. g[1] = <<>> \o s[1]
    BY <2>1, <1>5, <1>6
  <2>3. s[1] \in Seq(S)
    BY <2>1, <1>1
  <2> QED BY <2>2, <2>3, ConcatEmptySeq
<1> DEFINE f == [i \in 1 .. n |-> g[i]]
<1>8. f = Body(f)
  <2>1. ASSUME NEW i \in 1 .. n PROVE f[i] = IF i = 1 THEN s[i] ELSE f[i - 1] \o s[i]
    <3>1. CASE i = 1
      BY <3>1, <1>7
    <3>2. CASE i # 1
      <4>1. i - 1 \in 1 .. n
        BY <3>2, <1>1
      <4>2. f[i] = g[i] /\ f[i - 1] = g[i - 1]
        BY <4>1
      <4>3. g[i] = g[i - 1] \o s[i]
        BY <1>6
      <4> HIDE DEF f
      <4> QED BY <3>2, <4>2, <4>3
    <3> QED BY <3>1, <3>2
  <2> HIDE DEF f
  <2>2. f = [i \in 1 .. n |-> f[i]]
    BY DEF f
  <2>3. [i \in 1 .. n |-> f[i]] = Body(f)
    BY <2>1
  <2> QED BY <2>2, <2>3
<1> HIDE DEF f
<1>9. F = Body(F)
  BY <1>8
<1>10. FlattenSeq(s) = F[n]
  BY <1>1 DEF FlattenSeq, n
<1> HIDE DEF F
<1>11. \A i \in 1 .. n : F[i] = IF i = 1 THEN s[i] ELSE F[i - 1] \o s[i]
  <2> DEFINE G == Body(F)
  <2>1. \A i \in 1 .. n : G[i] = IF i = 1 THEN s[i] ELSE F[i - 1] \o s[i]
    OBVIOUS
  <2>2. F = G
    BY <1>9
  <2> HIDE DEF G
  <2> QED BY <2>1, <2>2
<1>12. F[1] = s[1] /\ \A i \in 2 .. n : F[i] = F[i - 1] \o s[i]
  <2>1. 1 \in 1 .. n /\ \A i \in 2 .. n : i \in 1 .. n /\ i # 1
    BY <1>1
  <2> QED BY <2>1, <1>11
<1> DEFINE T == {i \in 1 .. n : F[i] \in Seq(S)}
<1>13. 1 \in T
  BY <1>1, <1>12
<1>14. ASSUME NEW k \in 2 .. n, k - 1 \in T PROVE k \in T
  <2>1. k \in 1 .. n /\ F[k - 1] \in Seq(S) /\ s[k] \in Seq(S)
    BY <1>1, <1>14
  <2>2. F[k - 1] \o s[k] \in Seq(S)
    BY <2>1, ConcatProperties
  <2> QED BY <2>1, <2>2, <1>12
<1> HIDE DEF T
<1>15. \A k \in 1 .. n : k \in T
  BY <1>1, <1>13, <1>14, IntervalInduction
<1>16. F \in [1 .. n -> Seq(S)]
  <2>1. \A k \in 1 .. n : F[k] \in Seq(S)
    BY <1>15 DEF T
  <2> DEFINE G == Body(F)
  <2>2. F = G /\ DOMAIN G = 1 .. n
    BY <1>9
  <2>3. F = [k \in 1 .. n |-> F[k]]
    BY <2>2
  <2> QED BY <2>1, <2>3
<1> QED BY <1>10, <1>12, <1>16 DEF n

\* And as well from the last one on.
LEMMA FlattenHead ==
  ASSUME NEW S, NEW s \in Seq(Seq(S)), s # <<>>
  PROVE  /\ FlattenSeq(s) \in Seq(S)
         /\ FlattenSeq(s) = s[1] \o FlattenSeq(Tail(s))
<1> DEFINE n == Len(s)
           t == Tail(s)
<1>1. /\ n \in Nat /\ n >= 1 /\ \A i \in 1 .. n : s[i] \in Seq(S)
      /\ t \in Seq(Seq(S)) /\ Len(t) = n - 1 /\ \A i \in 1 .. n - 1 : t[i] = s[i + 1]
  BY EmptySeq, HeadTailProperties
<1>2. PICK F \in [1 .. n -> Seq(S)] :
        /\ F[1] = s[1]
        /\ \A i \in 2 .. n : F[i] = F[i - 1] \o s[i]
        /\ FlattenSeq(s) = F[n]
  BY FlattenIs
<1> HIDE DEF n, t
<1>3. FlattenSeq(s) \in Seq(S)
  BY <1>1, <1>2
<1>4. CASE n = 1
  <2>1. FlattenSeq(s) = s[1] /\ s[1] \in Seq(S)
    BY <1>1, <1>2, <1>4
  <2>2. FlattenSeq(t) = <<>>
    <3>1. Len(t) = 0 /\ t = <<>>
      BY <1>1, <1>4, EmptySeq
    <3> QED BY <3>1 DEF FlattenSeq
  <2> QED BY <1>3, <2>1, <2>2, ConcatEmptySeq DEF t
<1>5. CASE n # 1
  <2>1. n >= 2 /\ t # <<>>
    BY <1>1, <1>5, EmptySeq
  <2>2. \E G \in [1 .. Len(t) -> Seq(S)] :
          /\ G[1] = t[1]
          /\ \A i \in 2 .. Len(t) : G[i] = G[i - 1] \o t[i]
          /\ FlattenSeq(t) = G[Len(t)]
    BY <1>1, <2>1, FlattenIs
  <2>3. PICK G \in [1 .. n - 1 -> Seq(S)] :
          /\ G[1] = t[1]
          /\ \A i \in 2 .. n - 1 : G[i] = G[i - 1] \o t[i]
          /\ FlattenSeq(t) = G[n - 1]
    BY <1>1, <2>2
  <2> DEFINE T == {k \in 1 .. n - 1 : F[k + 1] = s[1] \o G[k]}
             m == n - 1
  <2>10. ASSUME NEW k \in 1 .. n - 1 PROVE F[k + 1] = F[k] \o t[k] /\ t[k] \in Seq(S)
    <3> DEFINE i == k + 1
    <3>1. i \in 2 .. n /\ i \in 1 .. n /\ i - 1 = k
      BY <1>1
    <3>2. t[k] = s[i]
      BY <1>1
    <3> HIDE DEF i
    <3>3. F[i] = F[k] \o s[i] /\ s[i] \in Seq(S)
      BY <1>1, <1>2, <3>1
    <3> QED BY <3>2, <3>3 DEF i
  <2>4. 1 \in T
    <3>1. 1 \in 1 .. n - 1
      BY <1>1, <2>1
    <3>2. F[1 + 1] = F[1] \o t[1]
      BY <2>10, <3>1
    <3> QED BY <1>2, <2>3, <3>1, <3>2
  <2>5. ASSUME NEW k \in 2 .. m, k - 1 \in T PROVE k \in T
    <3>1. k \in 1 .. n - 1 /\ k - 1 \in 1 .. n - 1 /\ k \in 2 .. n - 1 /\ (k - 1) + 1 = k
      BY <1>1, <2>5
    <3>2. F[k] = s[1] \o G[k - 1]
      <4>1. F[(k - 1) + 1] = s[1] \o G[k - 1]
        BY <2>5
      <4> HIDE DEF T
      <4> QED BY <3>1, <4>1
    <3> HIDE DEF T
    <3>3. F[k + 1] = F[k] \o t[k] /\ t[k] \in Seq(S)
      BY <2>10, <3>1
    <3>4. G[k] = G[k - 1] \o t[k] /\ G[k - 1] \in Seq(S) /\ s[1] \in Seq(S)
      <4>1. G[k] = G[k - 1] \o t[k]
        BY <2>3, <3>1
      <4>2. G[k - 1] \in Seq(S)
        BY <2>3, <3>1
      <4>3. 1 \in 1 .. n
        BY <1>1
      <4> QED BY <1>1, <4>1, <4>2, <4>3
    <3> DEFINE a == s[1]
               b == G[k - 1]
               c == t[k]
    <3>5. (a \o b) \o c = a \o (b \o c)
      <4>1. a \in Seq(S) /\ b \in Seq(S) /\ c \in Seq(S)
        BY <3>3, <3>4
      <4> HIDE DEF a, b, c
      <4> QED BY <4>1, SMT
    <3>6. F[k + 1] = s[1] \o G[k]
      BY <3>2, <3>3, <3>4, <3>5
    <3> QED BY <3>1, <3>6 DEF T
  <2>6. m \in Nat /\ m \in 1 .. m
    BY <1>1, <2>1
  <2> HIDE DEF T, m
  <2>7. \A k \in 1 .. m : k \in T
    BY <2>4, <2>5, <2>6, IntervalInduction
  <2>8. F[m + 1] = s[1] \o G[m]
    BY <2>6, <2>7 DEF T
  <2>9. m + 1 = n /\ m = n - 1
    BY <1>1 DEF m
  <2> QED BY <1>2, <1>3, <2>3, <2>8, <2>9 DEF t
<1> QED BY <1>4, <1>5

=============================================================================
