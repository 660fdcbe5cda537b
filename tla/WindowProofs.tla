----------------------------- MODULE WindowProofs -----------------------------
(***************************************************************************)
(* Sequence numbers that come round, for every range, window and number of *)
(* motes.                                                                  *)
(***************************************************************************)
EXTENDS Window, Lemmas

-----------------------------------------------------------------------------
(* The inductive invariant *)

\* How many numbers ago x was the next one, as far as the number itself says.
Since(x) == (next_out - x) % Range16

\* The ghosts count at least what the numbers say.
Covers ==
  /\ \A n \in Listed : Since(num[n]) <= age[n]
  /\ Since(gw.seq_out) <= lag
  /\ msg # None => Since(msg.seq) <= msg.back

\* The list is in the order of the numbers, oldest first.
ByAge == \A i, j \in 1 .. Len(list) : i < j => age[list[j]] < age[list[i]]

\* No number in use is half the range old, and each says how old it is.
Exact ==
  /\ \A n \in Listed : age[n] < Half /\ Since(num[n]) = age[n]
  /\ gw.known => lag < Half
  /\ lag < Range16 => Since(gw.seq_out) = lag
  /\ msg # None /\ msg.back < Range16 => Since(msg.seq) = msg.back

\* A number that was acknowledged, or is about to be, covers the nodes up to it.
Covered ==
  /\ gw.known => \A n \in Listed : age[n] >= lag => n \in told
  /\ msg # None => \A n \in Listed : age[n] >= msg.back => n \in told \/ n \in msg.says

\* Every number was given before the next one, and what an acknowledgement
\* answers has been taken in.
Started ==
  /\ lag >= 1 /\ (msg # None => msg.back >= 1)
  /\ \A n \in Listed : age[n] >= 1
  /\ msg # None /\ msg.kind = "ack" => msg.says = {}

WindowInv ==
  /\ WindowTypeOK /\ Started /\ Covers
  /\ young => ByAge /\ Exact /\ Covered

-----------------------------------------------------------------------------
(* Numbers *)

LEMMA SizesAre ==
  /\ Range16 \in Nat /\ Range8 \in Nat /\ ND \in Nat /\ MaxEntry \in Nat /\ MaxNonAck \in Nat
  /\ Range16 > 0 /\ Range8 > 0 /\ ND > 0 /\ MaxEntry > 0 /\ MaxNonAck > 0
  /\ MaxEntry + MaxEntry < Range16
  /\ Half \in Int /\ 0 <= Half /\ Half + Half <= Range16 - 2
<1>1. /\ Range16 \in Nat /\ Range8 \in Nat /\ ND \in Nat /\ MaxEntry \in Nat /\ MaxNonAck \in Nat
      /\ Range16 > 0 /\ Range8 > 0 /\ ND > 0 /\ MaxEntry > 0 /\ MaxNonAck > 0
      /\ 2 * MaxEntry < Range16
  BY WindowAssumption
<1>2. Range16 >= 3
  BY <1>1
<1>3. Range16 \div 2 \in Nat /\ Range16 \div 2 >= 1 /\ 2 * (Range16 \div 2) <= Range16
  BY <1>1, <1>2
<1> QED BY <1>1, <1>3 DEF Half

\* What is left of a number that ran over the range once, or below it.
LEMMA Wraps ==
  ASSUME NEW k \in Int, 0 - Range16 <= k, k < Range16 + Range16
  PROVE  /\ k % Range16 \in Nums
         /\ k % Range16 = IF k < 0 THEN k + Range16
                          ELSE IF k < Range16 THEN k ELSE k - Range16
  BY SizesAre DEF Nums

LEMMA SinceIs ==
  ASSUME next_out \in Nums, NEW x \in Nums
  PROVE  /\ Since(x) \in Nums
         /\ Since(x) = IF x <= next_out THEN next_out - x ELSE next_out - x + Range16
<1>1. next_out - x \in Int /\ 0 - Range16 <= next_out - x /\ next_out - x < Range16
  BY SizesAre DEF Nums
<1> DEFINE k == next_out - x
<1>2. k \in Int /\ 0 - Range16 <= k /\ k < Range16 + Range16 /\ k < Range16
  BY <1>1, SizesAre
<1> HIDE DEF k
<1>3. k % Range16 \in Nums /\ k % Range16 = IF k < 0 THEN k + Range16 ELSE k
  BY <1>2, Wraps
<1>4. k < 0 <=> ~(x <= next_out)
  BY DEF k, Nums
<1> QED BY <1>3, <1>4 DEF Since, k

LEMMA LaterIs ==
  ASSUME NEW t \in Ages
  PROVE  Later(t) \in Ages /\ Later(t) = IF t < Range16 THEN t + 1 ELSE Range16
<1> DEFINE S == {t + 1, Range16}
<1>1. t \in Nat /\ t <= Range16 /\ Range16 \in Nat
  BY SizesAre DEF Ages
<1>2. S \in SUBSET Nat /\ S # {}
  BY <1>1
<1>3. Min(S) \in S /\ \A k \in S : Min(S) <= k
  BY <1>2, MinIs
<1>4. Later(t) = Min(S)
  BY DEF Later
<1> QED BY <1>1, <1>3, <1>4 DEF Ages

\* When a number is given out, all the others are one older, and a number that
\* came round is taken for a new one.
LEMMA AgeStep ==
  ASSUME next_out \in Nums, next_out' = (next_out + 1) % Range16, NEW x \in Nums, NEW a \in Ages
  PROVE  /\ next_out' \in Nums
         /\ Since(x) <= a => (next_out' - x) % Range16 <= Later(a)
         /\ Since(x) = a /\ Later(a) < Range16 => (next_out' - x) % Range16 = Later(a)
<1> DEFINE m == (next_out + 1) % Range16
<1>1. m \in Nums /\ m = IF next_out + 1 < Range16 THEN next_out + 1 ELSE 0
  <2>1. next_out \in Int /\ 0 <= next_out /\ next_out < Range16
    BY SizesAre DEF Nums
  <2> DEFINE k == next_out + 1
  <2>2. k \in Int /\ 0 - Range16 <= k /\ k < Range16 + Range16 /\ 0 <= k /\ k <= Range16
    BY <2>1, SizesAre
  <2> HIDE DEF k
  <2>3. k % Range16 \in Nums /\ k % Range16 = IF k < Range16 THEN k ELSE k - Range16
    BY <2>2, Wraps
  <2>4. k % Range16 = IF k < Range16 THEN k ELSE 0
    BY <2>2, <2>3, SizesAre
  <2> QED BY <2>3, <2>4 DEF k
<1> HIDE DEF m
<1> DEFINE k == m - x
<1>2. k \in Int /\ 0 - Range16 <= k /\ k < Range16 + Range16 /\ k < Range16
  BY <1>1, SizesAre DEF Nums
<1>3. (m - x) % Range16 = IF k < 0 THEN k + Range16 ELSE k
  <2> HIDE DEF k
  <2>1. k % Range16 = IF k < 0 THEN k + Range16 ELSE k
    BY <1>2, Wraps
  <2> QED BY <2>1 DEF k
<1>4. Since(x) = IF x <= next_out THEN next_out - x ELSE next_out - x + Range16
  BY SinceIs
<1>5. Later(a) = IF a < Range16 THEN a + 1 ELSE Range16
  BY LaterIs
<1>6. x \in Int /\ 0 <= x /\ x < Range16 /\ next_out \in Int /\ 0 <= next_out
      /\ next_out < Range16 /\ a \in Int /\ a <= Range16 /\ 0 <= a /\ Range16 \in Int
  BY SizesAre DEF Nums, Ages
<1> DEFINE s == Since(x)
           u == (m - x) % Range16
           l == Later(a)
<1>7. s <= a => u <= l
  BY <1>1, <1>3, <1>4, <1>5, <1>6
<1>8. s = a /\ l < Range16 => u = l
  BY <1>1, <1>3, <1>4, <1>5, <1>6
<1>9. next_out' = m
  BY DEF m
<1> QED BY <1>1, <1>7, <1>8, <1>9

\* The number two numbers are apart, as UINT_LESS_THAN sees it.
LEMMA LessIs ==
  ASSUME next_out \in Nums, NEW x \in Nums, NEW y \in Nums, NEW c \in 0 .. 1,
         Since(x) < Half, Since(y) < Half, c <= Since(y)
  PROVE  UintLessThan(x, y + c) <=> Since(x) >= Since(y) - c
<1> DEFINE k == (y + c) - x
           a == Since(x)
           b == Since(y)
<1>1. x \in Int /\ 0 <= x /\ x < Range16 /\ y \in Int /\ 0 <= y /\ y < Range16
      /\ next_out \in Int /\ 0 <= next_out /\ next_out < Range16 /\ c \in Int /\ 0 <= c /\ c <= 1
      /\ Range16 \in Int /\ Half \in Int /\ Half + Half <= Range16 - 2
  BY SizesAre DEF Nums
<1>2. k \in Int /\ 0 - Range16 <= k /\ k <= Range16 /\ k < Range16 + Range16
  BY <1>1
<1>3. k % Range16 = IF k < 0 THEN k + Range16 ELSE IF k < Range16 THEN k ELSE k - Range16
  <2> HIDE DEF k
  <2> QED BY <1>2, Wraps
<1>4. /\ a = IF x <= next_out THEN next_out - x ELSE next_out - x + Range16
      /\ b = IF y <= next_out THEN next_out - y ELSE next_out - y + Range16
  BY SinceIs
<1>5. a < Half /\ b < Half /\ c <= b
  OBVIOUS
<1> DEFINE w == k % Range16
<1> HIDE DEF a, b, w
<1>6. w = IF k < 0 THEN k + Range16 ELSE IF k < Range16 THEN k ELSE k - Range16
  BY <1>3 DEF w
<1>7. w < Half <=> a >= b - c
  BY <1>1, <1>4, <1>5, <1>6
<1>8. UintLessThan(x, y + c) <=> w < Half
  BY DEF w, UintLessThan
<1> QED BY <1>7, <1>8 DEF a, b

-----------------------------------------------------------------------------
(* The list *)

\* list_remove takes out one node and leaves the others in their order.
LEMMA WithoutIs ==
  ASSUME list \in Seq(Nodes), IsInjective(list), NEW n \in Nodes
  PROVE  /\ Without(n) \in Seq(Nodes) /\ IsInjective(Without(n))
         /\ ToSet(Without(n)) = Listed \ {n}
         /\ \A k, l \in 1 .. Len(Without(n)) :
              k < l => \E i, j \in 1 .. Len(list) :
                         i < j /\ Without(n)[k] = list[i] /\ Without(n)[l] = list[j]
<1> DEFINE W == Without(n)
<1>0. DOMAIN list = 1 .. Len(list) /\ Len(list) \in Nat
  OBVIOUS
<1>1. CASE n \notin Listed
  <2>1. W = list
    BY <1>1 DEF Without
  <2> HIDE DEF W
  <2>2. ToSet(W) = Listed \ {n}
    BY <1>1, <2>1 DEF Listed
  <2>3. \A k, l \in 1 .. Len(W) :
          k < l => \E i, j \in 1 .. Len(list) : i < j /\ W[k] = list[i] /\ W[l] = list[j]
    BY <2>1
  <2> QED BY <2>1, <2>2, <2>3 DEF W
<1>2. CASE n \in Listed
  <2> DEFINE c == CHOOSE i \in DOMAIN list : list[i] = n
  <2>1. \E i \in DOMAIN list : list[i] = n
    BY <1>2 DEF Listed, ToSet
  <2>2. c \in 1 .. Len(list) /\ list[c] = n
    BY <2>1, <1>0
  <2>3. W = RemoveAt(list, c)
    BY <1>2 DEF Without
  <2> HIDE DEF c, W
  <2>40. /\ RemoveAt(list, c) \in Seq(Nodes)
         /\ Len(RemoveAt(list, c)) = Len(list) - 1
         /\ \A k \in 1 .. Len(list) - 1 :
              RemoveAt(list, c)[k] = IF k < c THEN list[k] ELSE list[k + 1]
    BY <2>2, RemovedIs
  <2>4. /\ W \in Seq(Nodes) /\ Len(W) = Len(list) - 1 /\ DOMAIN W = 1 .. Len(list) - 1
        /\ \A k \in 1 .. Len(list) - 1 : W[k] = IF k < c THEN list[k] ELSE list[k + 1]
    <3>1. W \in Seq(Nodes) /\ Len(W) = Len(list) - 1
      BY <2>40, <2>3
    <3>2. DOMAIN W = 1 .. Len(list) - 1
      BY <3>1
    <3> QED BY <3>1, <3>2, <2>40, <2>3
  <2> DEFINE at == [k \in 1 .. Len(list) - 1 |-> IF k < c THEN k ELSE k + 1]
  <2>5. ASSUME NEW k \in 1 .. Len(list) - 1
        PROVE  at[k] \in 1 .. Len(list) /\ at[k] # c /\ W[k] = list[at[k]]
    BY <2>2, <2>4, <1>0
  <2>6. ASSUME NEW k \in 1 .. Len(list) - 1, NEW l \in 1 .. Len(list) - 1, k < l
        PROVE  at[k] < at[l]
    BY <2>2, <2>6
  <2> HIDE DEF at
  <2>7. \A i, j \in 1 .. Len(list) : list[i] = list[j] => i = j
    BY <1>0 DEF IsInjective
  <2>8. IsInjective(W)
    <3> SUFFICES ASSUME NEW k \in 1 .. Len(list) - 1, NEW l \in 1 .. Len(list) - 1, W[k] = W[l]
                 PROVE  k = l
      BY <2>4 DEF IsInjective
    <3>1. at[k] = at[l]
      BY <2>5, <2>7
    <3>2. at[k] \in Int /\ at[l] \in Int /\ k \in Int /\ l \in Int
      BY <2>5
    <3>3. ~(k < l) /\ ~(l < k)
      BY <3>1, <3>2, <2>6
    <3> QED BY <3>2, <3>3
  <2>9. ToSet(W) = Listed \ {n}
    <3>1. ASSUME NEW m \in ToSet(W) PROVE m \in Listed \ {n}
      <4>1. PICK k \in 1 .. Len(list) - 1 : m = W[k]
        BY <2>4 DEF ToSet
      <4>2. m = list[at[k]] /\ at[k] \in DOMAIN list /\ at[k] # c
        BY <4>1, <2>5, <1>0
      <4> QED BY <4>2, <2>2, <2>7, <1>0 DEF Listed, ToSet
    <3>2. ASSUME NEW m \in Listed \ {n} PROVE m \in ToSet(W)
      <4>1. PICK i \in 1 .. Len(list) : m = list[i]
        BY <1>0 DEF Listed, ToSet
      <4>2. i # c
        BY <4>1, <2>2
      <4> DEFINE k == IF i < c THEN i ELSE i - 1
      <4>3. k \in 1 .. Len(list) - 1 /\ (IF k < c THEN k ELSE k + 1) = i
        BY <4>2, <2>2, <1>0
      <4>4. W[k] = list[i]
        BY <4>3, <2>4
      <4> QED BY <4>1, <4>3, <4>4, <2>4 DEF ToSet
    <3> QED BY <3>1, <3>2
  <2>10. ASSUME NEW k \in 1 .. Len(W), NEW l \in 1 .. Len(W), k < l
         PROVE  \E i, j \in 1 .. Len(list) : i < j /\ W[k] = list[i] /\ W[l] = list[j]
    <3>1. k \in 1 .. Len(list) - 1 /\ l \in 1 .. Len(list) - 1
      BY <2>4
    <3> QED BY <3>1, <2>10, <2>5, <2>6
  <2> QED BY <2>4, <2>8, <2>9, <2>10 DEF W
<1> QED BY <1>1, <1>2

\* list_add.
LEMMA AppendIs ==
  ASSUME NEW s \in Seq(Nodes), IsInjective(s), NEW n \in Nodes \ ToSet(s)
  PROVE  /\ Append(s, n) \in Seq(Nodes) /\ IsInjective(Append(s, n))
         /\ ToSet(Append(s, n)) = ToSet(s) \cup {n}
         /\ Len(Append(s, n)) = Len(s) + 1
         /\ \A k \in 1 .. Len(s) : Append(s, n)[k] = s[k]
         /\ Append(s, n)[Len(s) + 1] = n
<1> DEFINE a == Append(s, n)
<1>1. /\ a \in Seq(Nodes) /\ Len(a) = Len(s) + 1
      /\ \A k \in 1 .. Len(s) : a[k] = s[k]
      /\ a[Len(s) + 1] = n
  OBVIOUS
<1>2. Len(s) \in Nat /\ DOMAIN s = 1 .. Len(s) /\ DOMAIN a = 1 .. Len(s) + 1
  BY <1>1
<1> HIDE DEF a
<1>3. \A k \in 1 .. Len(s) : a[k] \in ToSet(s) /\ a[k] # n
  BY <1>1, <1>2 DEF ToSet
<1>4. IsInjective(a)
  <2> SUFFICES ASSUME NEW k \in 1 .. Len(s) + 1, NEW l \in 1 .. Len(s) + 1, a[k] = a[l]
               PROVE  k = l
    BY <1>2 DEF IsInjective
  <2>1. CASE k \in 1 .. Len(s) /\ l \in 1 .. Len(s)
    <3>1. s[k] = s[l]
      BY <2>1, <1>1
    <3> QED BY <2>1, <3>1, <1>2 DEF IsInjective
  <2>2. CASE k = Len(s) + 1 /\ l \in 1 .. Len(s)
    BY <2>2, <1>1, <1>3
  <2>3. CASE l = Len(s) + 1 /\ k \in 1 .. Len(s)
    BY <2>3, <1>1, <1>3
  <2> QED BY <2>1, <2>2, <2>3, <1>2
<1>5. ToSet(a) = ToSet(s) \cup {n}
  <2>1. \A m \in ToSet(a) : m \in ToSet(s) \cup {n}
    BY <1>1, <1>2, <1>3 DEF ToSet
  <2>2. \A m \in ToSet(s) : m \in ToSet(a)
    <3> SUFFICES ASSUME NEW m \in ToSet(s) PROVE m \in ToSet(a)
      OBVIOUS
    <3>1. PICK k \in 1 .. Len(s) : m = s[k]
      BY <1>2 DEF ToSet
    <3> QED BY <3>1, <1>1, <1>2 DEF ToSet
  <2>3. n \in ToSet(a)
    BY <1>1, <1>2 DEF ToSet
  <2> QED BY <2>1, <2>2, <2>3
<1> QED BY <1>1, <1>4, <1>5 DEF a

-----------------------------------------------------------------------------
(* An update *)

\* The number of an update, seen from the next one.
LEMMA UpToIs ==
  ASSUME next_out \in Nums, gw.seq_out \in Nums, Behind
  PROVE  /\ Ahead = Since(gw.seq_out) /\ Ahead \in Nums /\ UpTo \in Nums
         /\ Since(UpTo) = IF Ahead > MaxEntry + 1 THEN Ahead - MaxEntry ELSE 1
<1> DEFINE s == gw.seq_out
           o == next_out
<1>1. /\ Ahead = Since(s) /\ Ahead \in Nums /\ Ahead > 1
      /\ Ahead = IF s <= o THEN o - s ELSE o - s + Range16
  BY SinceIs DEF Ahead, Since, Behind
<1>2. /\ s \in Int /\ 0 <= s /\ s < Range16 /\ o \in Int /\ 0 <= o /\ o < Range16
      /\ Range16 \in Int /\ MaxEntry \in Int /\ MaxEntry > 0 /\ MaxEntry + MaxEntry < Range16
      /\ Ahead \in Int /\ Ahead < Range16
  BY <1>1, SizesAre DEF Nums
<1> DEFINE k == IF Ahead > MaxEntry + 1 THEN s + MaxEntry ELSE o - 1
           w == k % Range16
<1>3. k \in Int /\ 0 - Range16 <= k /\ k < Range16 + Range16
  BY <1>2
<1>4. w \in Nums /\ w = IF k < 0 THEN k + Range16 ELSE IF k < Range16 THEN k ELSE k - Range16
  <2> HIDE DEF k
  <2> QED BY <1>3, Wraps
<1>5. UpTo = w
  BY DEF UpTo
<1> HIDE DEF w
<1>6. Since(w) = IF w <= o THEN o - w ELSE o - w + Range16
  BY <1>4, SinceIs
<1>7. Since(w) = IF Ahead > MaxEntry + 1 THEN Ahead - MaxEntry ELSE 1
  <2> DEFINE t == Since(w)
             h == Ahead
  <2>1. t = IF w <= o THEN o - w ELSE o - w + Range16
    BY <1>6
  <2>2. h = (IF s <= o THEN o - s ELSE o - s + Range16) /\ h > 1
    BY <1>1
  <2>3. k = IF h > MaxEntry + 1 THEN s + MaxEntry ELSE o - 1
    OBVIOUS
  <2>4. h \in Int /\ h < Range16 /\ w \in Int
    BY <1>2, <1>4 DEF Nums
  <2>5. /\ s \in Int /\ 0 <= s /\ s < Range16 /\ o \in Int /\ 0 <= o /\ o < Range16
        /\ Range16 \in Int /\ MaxEntry \in Int /\ MaxEntry > 0 /\ MaxEntry + MaxEntry < Range16
    BY <1>2
  <2>6. w = IF k < 0 THEN k + Range16 ELSE IF k < Range16 THEN k ELSE k - Range16
    BY <1>4
  <2> HIDE DEF t, h, k, s, o
  <2>7. CASE h > MaxEntry + 1
    <3>1. k = s + MaxEntry
      BY <2>3, <2>7
    <3>2. t = h - MaxEntry
      BY <2>1, <2>2, <2>4, <2>5, <2>6, <2>7, <3>1
    <3> QED BY <2>7, <3>2 DEF t, h
  <2>8. CASE ~(h > MaxEntry + 1)
    <3>1. k = o - 1
      BY <2>3, <2>8
    <3>2. t = 1
      BY <2>1, <2>2, <2>4, <2>5, <2>6, <2>8, <3>1
    <3> QED BY <2>8, <3>2 DEF t, h
  <2> QED BY <2>7, <2>8
<1> QED BY <1>1, <1>4, <1>5, <1>7

\* Where a walk stops.
LEMMA AfterIs ==
  ASSUME list \in Seq(Nodes), NEW k, NEW from \in 1 .. Len(list) + 1
  PROVE  /\ Min(After(k, from)) \in from .. Len(list) + 1
         /\ \A j \in from .. Min(After(k, from)) - 1 : UintLessThan(num[list[j]], k)
         /\ Min(After(k, from)) <= Len(list)
              => ~UintLessThan(num[list[Min(After(k, from))]], k)
<1> DEFINE S == After(k, from)
           m == Min(S)
<1>1. Len(list) \in Nat /\ from \in Nat /\ 1 <= from /\ from <= Len(list) + 1
  OBVIOUS
<1>2. \A j \in S : j \in from .. Len(list) + 1
  BY <1>1 DEF After
<1>3. Len(list) + 1 \in S
  BY DEF After
<1>4. S \in SUBSET Nat /\ S # {}
  BY <1>1, <1>2, <1>3
<1>5. m \in S /\ \A j \in S : m <= j
  <2> HIDE DEF S
  <2> QED BY <1>4, MinIs
<1> HIDE DEF m
<1>6. m \in from .. Len(list) + 1
  BY <1>2, <1>5
<1>7. ASSUME NEW j \in from .. m - 1 PROVE UintLessThan(num[list[j]], k)
  <2>1. j \in from .. Len(list) /\ ~(m <= j)
    BY <1>1, <1>6
  <2>2. j \notin S
    BY <2>1, <1>5
  <2> QED BY <2>1, <2>2 DEF After
<1>8. m <= Len(list) => ~UintLessThan(num[list[m]], k)
  BY <1>1, <1>5, <1>6 DEF After
<1> QED BY <1>6, <1>7, <1>8 DEF m

\* The stretch of the list that numbers that only grow would give.
LEMMA WalkIs ==
  ASSUME WindowTypeOK, Started, ByAge, Exact, gw.known, Behind,
         NEW upto, upto = IF lag > MaxEntry + 1 THEN lag - MaxEntry ELSE 1
  PROVE  \E i \in 1 .. Len(list) + 1, j \in 0 .. Len(list) :
           /\ Walk = SubSeq(list, i, j)
           /\ \A k \in 1 .. Len(list) :
                age[list[k]] < lag /\ age[list[k]] >= upto - 1 <=> k \in i .. j
<1>1. /\ next_out \in Nums /\ gw.seq_out \in Nums /\ list \in Seq(Nodes)
      /\ num \in [Nodes -> Nums] /\ age \in [Nodes -> Ages] /\ lag \in Ages
  BY DEF WindowTypeOK
<1>2. lag < Half /\ lag \in Nat /\ Half \in Int /\ Half < Range16 /\ MaxEntry \in Nat /\ MaxEntry > 0
      /\ Range16 \in Nat
  BY <1>1, SizesAre DEF Exact, Ages
<1>3. Since(gw.seq_out) = lag /\ Ahead = lag /\ lag > 1
  BY <1>1, <1>2, UpToIs DEF Exact, Behind
<1>4. UpTo \in Nums /\ Since(UpTo) = upto
  BY <1>1, <1>3, UpToIs
<1>5. upto \in Nat /\ 1 <= upto /\ upto <= lag
  BY <1>2, <1>3
<1>6. ASSUME NEW k \in 1 .. Len(list)
      PROVE  /\ age[list[k]] \in Nat
             /\ UintLessThan(num[list[k]], gw.seq_out) <=> age[list[k]] >= lag
             /\ UintLessThan(num[list[k]], UpTo + 1) <=> age[list[k]] >= upto - 1
  <2> DEFINE n == list[k]
             x == num[n]
             y == gw.seq_out
             z == UpTo
  <2>1. n \in Listed /\ n \in Nodes
    BY <1>1 DEF Listed, ToSet
  <2>2. Since(x) = age[n] /\ Since(x) < Half /\ x \in Nums /\ age[n] \in Nat
    BY <2>1, <1>1 DEF Exact, Ages
  <2>3. y \in Nums /\ Since(y) = lag /\ Since(y) < Half /\ z \in Nums /\ Since(z) = upto
        /\ Since(z) < Half /\ 0 <= Since(y) /\ 1 <= Since(z)
    BY <1>1, <1>2, <1>3, <1>4, <1>5
  <2> HIDE DEF n, x, y, z
  <2>4. UintLessThan(x, y + 0) <=> Since(x) >= Since(y) - 0
    <3>1. 0 \in 0 .. 1
      OBVIOUS
    <3> QED BY <3>1, <1>1, <2>2, <2>3, LessIs
  <2>5. UintLessThan(x, z + 1) <=> Since(x) >= Since(z) - 1
    <3>1. 1 \in 0 .. 1
      OBVIOUS
    <3> QED BY <3>1, <1>1, <2>2, <2>3, LessIs
  <2>6. y + 0 = y /\ lag - 0 = lag
    BY <2>3, <1>2 DEF Nums
  <2>7. UintLessThan(x, y) <=> age[n] >= lag
    BY <2>2, <2>3, <2>4, <2>6
  <2>8. UintLessThan(x, z + 1) <=> age[n] >= upto - 1
    BY <2>2, <2>3, <2>5
  <2> QED BY <2>2, <2>7, <2>8 DEF n, x, y, z
<1> DEFINE first == Min(After(gw.seq_out, 1))
           stop  == Min(After(UpTo + 1, first))
<1>7. Len(list) \in Nat /\ 1 \in 1 .. Len(list) + 1
  BY <1>1
<1>8. /\ first \in 1 .. Len(list) + 1
      /\ \A j \in 1 .. first - 1 : UintLessThan(num[list[j]], gw.seq_out)
      /\ first <= Len(list) => ~UintLessThan(num[list[first]], gw.seq_out)
  BY <1>1, <1>7, AfterIs
<1>9. Walk = SubSeq(list, first, stop - 1)
  BY DEF Walk
<1> HIDE DEF first
<1>10. /\ stop \in first .. Len(list) + 1
       /\ \A j \in first .. stop - 1 : UintLessThan(num[list[j]], UpTo + 1)
       /\ stop <= Len(list) => ~UintLessThan(num[list[stop]], UpTo + 1)
  BY <1>1, <1>8, AfterIs
<1> HIDE DEF stop
<1>11. ASSUME NEW k \in 1 .. Len(list)
       PROVE  age[list[k]] < lag /\ age[list[k]] >= upto - 1 <=> k \in first .. stop - 1
  <2>1. CASE k < first
    <3>1. k \in 1 .. first - 1
      BY <2>1, <1>8
    <3>2. age[list[k]] >= lag
      BY <3>1, <1>6, <1>8
    <3>3. ~(age[list[k]] < lag)
      BY <3>2, <1>6, <1>2
    <3> QED BY <2>1, <3>3, <1>8
  <2>2. CASE k \in first .. stop - 1
    <3>1. age[list[k]] >= upto - 1
      BY <2>2, <1>6, <1>10
    <3>2. first \in 1 .. Len(list) /\ age[list[first]] < lag /\ age[list[first]] \in Nat
      <4>1. first \in 1 .. Len(list)
        BY <2>2, <1>8, <1>7
      <4> QED BY <4>1, <1>6, <1>8, <1>2
    <3>3. age[list[k]] <= age[list[first]]
      <4>1. CASE k = first
        BY <4>1, <1>6
      <4>2. CASE k # first
        <5>1. first < k
          BY <4>2, <2>2, <1>8
        <5>2. age[list[k]] < age[list[first]]
          BY <5>1, <3>2 DEF ByAge
        <5> QED BY <5>2, <3>2, <1>6
      <4> QED BY <4>1, <4>2
    <3> QED BY <2>2, <3>1, <3>2, <3>3, <1>6, <1>2
  <2>3. CASE k >= stop
    <3>1. stop \in 1 .. Len(list) /\ ~(age[list[stop]] >= upto - 1) /\ age[list[stop]] \in Nat
      <4>1. stop \in 1 .. Len(list)
        BY <2>3, <1>8, <1>10, <1>7
      <4> QED BY <4>1, <1>6, <1>10
    <3>2. age[list[k]] <= age[list[stop]]
      <4>1. CASE k = stop
        BY <4>1, <1>6
      <4>2. CASE k # stop
        <5>1. stop < k
          BY <4>2, <2>3, <3>1
        <5>2. age[list[k]] < age[list[stop]]
          BY <5>1, <3>1 DEF ByAge
        <5> QED BY <5>2, <3>1, <1>6
      <4> QED BY <4>1, <4>2
    <3> QED BY <2>3, <3>1, <3>2, <1>6, <1>5
  <2> QED BY <2>1, <2>2, <2>3, <1>8, <1>10
<1>12. stop - 1 \in 0 .. Len(list)
  BY <1>7, <1>8, <1>10
<1> QED BY <1>8, <1>9, <1>11, <1>12

LEMMA WindowIsExact == WindowInv => AsIfUnbounded
<1> SUFFICES ASSUME WindowInv, young, gw.known, Behind PROVE AsIfUnbounded
  BY DEF AsIfUnbounded
<1> DEFINE upto == IF lag > MaxEntry + 1 THEN lag - MaxEntry ELSE 1
<1>1. WindowTypeOK /\ Started /\ ByAge /\ Exact
  BY DEF WindowInv
<1>2. upto = IF lag > MaxEntry + 1 THEN lag - MaxEntry ELSE 1
  OBVIOUS
<1> HIDE DEF upto
<1>3. \E i \in 1 .. Len(list) + 1, j \in 0 .. Len(list) :
        /\ Walk = SubSeq(list, i, j)
        /\ \A k \in 1 .. Len(list) :
             age[list[k]] < lag /\ age[list[k]] >= upto - 1 <=> k \in i .. j
  BY <1>1, <1>2, WalkIs
<1> QED BY <1>3 DEF AsIfUnbounded, upto

-----------------------------------------------------------------------------
(* Giving out numbers *)

\* What a step of node n does to the list: the others stay on it, in their
\* order, and n is on it as the last one or not at all.
Relisted(n) ==
  /\ list' \in Seq(Nodes) /\ IsInjective(list')
  /\ ToSet(list') \ {n} = Listed \ {n}
  /\ \A i, j \in 1 .. Len(list') : i < j =>
       /\ list'[i] # n
       /\ list'[j] = n \/ \E k, l \in 1 .. Len(list) :
                            k < l /\ list'[i] = list[k] /\ list'[j] = list[l]

LEMMA LostRelists ==
  ASSUME list \in Seq(Nodes), IsInjective(list), NEW n \in Nodes, list' = Without(n)
  PROVE  Relisted(n) /\ n \notin ToSet(list')
<1>1. /\ list' \in Seq(Nodes) /\ IsInjective(list') /\ ToSet(list') = Listed \ {n}
      /\ \A i, j \in 1 .. Len(list') : i < j =>
           \E k, l \in 1 .. Len(list) : k < l /\ list'[i] = list[k] /\ list'[j] = list[l]
  <2> DEFINE W == Without(n)
  <2>1. /\ W \in Seq(Nodes) /\ IsInjective(W) /\ ToSet(W) = Listed \ {n}
        /\ \A i, j \in 1 .. Len(W) : i < j =>
             \E k, l \in 1 .. Len(list) : k < l /\ W[i] = list[k] /\ W[j] = list[l]
    BY WithoutIs
  <2>2. list' = W
    OBVIOUS
  <2> HIDE DEF W
  <2> QED BY <2>1, <2>2
<1>2. n \notin ToSet(list') /\ ToSet(list') \ {n} = Listed \ {n}
  BY <1>1
<1>3. \A i \in 1 .. Len(list') : list'[i] \in ToSet(list')
  BY <1>1 DEF ToSet
<1>4. \A i \in 1 .. Len(list') : list'[i] # n
  BY <1>2, <1>3
<1> QED BY <1>1, <1>2, <1>4 DEF Relisted

LEMMA DaoRelists ==
  ASSUME list \in Seq(Nodes), IsInjective(list), NEW n \in Nodes, list' = Append(Without(n), n)
  PROVE  Relisted(n) /\ ToSet(list') = Listed \cup {n}
<1> DEFINE W == Without(n)
<1>1. /\ W \in Seq(Nodes) /\ IsInjective(W) /\ ToSet(W) = Listed \ {n}
      /\ \A i, j \in 1 .. Len(W) : i < j =>
           \E k, l \in 1 .. Len(list) : k < l /\ W[i] = list[k] /\ W[j] = list[l]
  BY WithoutIs
<1> HIDE DEF W
<1>2. n \in Nodes \ ToSet(W)
  BY <1>1
<1>3. /\ Append(W, n) \in Seq(Nodes) /\ IsInjective(Append(W, n))
      /\ ToSet(Append(W, n)) = ToSet(W) \cup {n}
      /\ Len(Append(W, n)) = Len(W) + 1
      /\ \A k \in 1 .. Len(W) : Append(W, n)[k] = W[k]
      /\ Append(W, n)[Len(W) + 1] = n
  BY <1>1, <1>2, AppendIs
<1>4. list' = Append(W, n)
  BY DEF W
<1>5. Len(W) \in Nat /\ \A k \in 1 .. Len(W) : W[k] \in ToSet(W)
  BY <1>1 DEF ToSet
<1>6. ASSUME NEW i \in 1 .. Len(list'), NEW j \in 1 .. Len(list'), i < j
      PROVE  /\ list'[i] # n
             /\ list'[j] = n \/ \E k, l \in 1 .. Len(list) :
                                  k < l /\ list'[i] = list[k] /\ list'[j] = list[l]
  <2>1. i \in 1 .. Len(W) /\ list'[i] = W[i] /\ (j \in 1 .. Len(W) \/ j = Len(W) + 1)
    BY <1>3, <1>4, <1>5, <1>6
  <2>2. list'[i] # n
    BY <2>1, <1>2, <1>5
  <2>3. CASE j = Len(W) + 1
    BY <2>2, <2>3, <1>3, <1>4
  <2>4. CASE j \in 1 .. Len(W)
    <3>1. list'[j] = W[j]
      BY <2>4, <1>3, <1>4
    <3>2. \E k, l \in 1 .. Len(list) : k < l /\ W[i] = list[k] /\ W[j] = list[l]
      BY <2>1, <2>4, <1>1, <1>6
    <3> QED BY <2>1, <2>2, <3>1, <3>2
  <2> QED BY <2>1, <2>3, <2>4
<1>7. ToSet(list') = Listed \cup {n}
  BY <1>1, <1>3, <1>4
<1>8. ToSet(list') \ {n} = Listed \ {n}
  BY <1>7
<1> QED BY <1>3, <1>4, <1>6, <1>7, <1>8 DEF Relisted

\* What Give does to each kind of ghost.
LEMMA GiveIs ==
  ASSUME WindowTypeOK, NEW n \in Nodes, NEW new \in 0 .. 1, Give(n, new)
  PROVE  /\ next_out' = (next_out + 1) % Range16 /\ next_out' \in Nums
         /\ age' \in [Nodes -> Ages] /\ age'[n] = new
         /\ \A k \in Listed \ {n} : k \in Nodes /\ age'[k] = Later(age[k])
         /\ lag' = Later(lag) /\ lag' \in Ages
         /\ told' = told \ {n} /\ told' \in SUBSET Nodes
         /\ young' \in BOOLEAN /\ gapless' \in BOOLEAN
         /\ young' => young /\ lag' < Half /\ \A k \in ToSet(list') : age'[k] < Half
<1>1. /\ list \in Seq(Nodes) /\ next_out \in Nums /\ age \in [Nodes -> Ages] /\ lag \in Ages
      /\ told \in SUBSET Nodes /\ young \in BOOLEAN /\ gapless \in BOOLEAN
  BY DEF WindowTypeOK
<1>2. /\ next_out' = (next_out + 1) % Range16 /\ lag' = Later(lag) /\ told' = told \ {n}
      /\ age' = [k \in Nodes |-> IF k = n THEN new ELSE IF k \in Listed THEN Later(age[k]) ELSE 0]
      /\ young' = (young /\ lag' < Half /\ \A k \in ToSet(list') : age'[k] < Half)
      /\ gapless' = gapless
  BY DEF Give
<1>3. Listed \in SUBSET Nodes
  BY <1>1 DEF Listed, ToSet
<1>4. \A t \in Ages : Later(t) \in Ages
  BY LaterIs
<1>5. 0 \in Ages /\ new \in Ages
  BY SizesAre DEF Ages
<1>6. age' \in [Nodes -> Ages]
  BY <1>1, <1>2, <1>3, <1>4, <1>5
<1>7. next_out' \in Nums
  <2>1. next_out \in Nums /\ 0 \in Ages
    BY <1>1, <1>5
  <2> QED BY <1>2, <2>1, AgeStep
<1>8. young' \in BOOLEAN
  BY <1>2
<1>9. young' => young /\ lag' < Half /\ \A k \in ToSet(list') : age'[k] < Half
  BY <1>2
<1>10. age'[n] = new /\ \A k \in Listed \ {n} : k \in Nodes /\ age'[k] = Later(age[k])
  BY <1>2, <1>3
<1>11. lag' \in Ages /\ told' \in SUBSET Nodes /\ gapless' \in BOOLEAN
  BY <1>1, <1>2, <1>4
<1> QED BY <1>2, <1>6, <1>7, <1>8, <1>9, <1>10, <1>11

\* And to what is on its way.
LEMMA OlderIs ==
  ASSUME WindowTypeOK, NEW n \in Nodes, msg' = Older(msg, n)
  PROVE  /\ msg' \in Datagrams
         /\ msg' # None =>
              /\ msg # None /\ msg.back \in Ages /\ msg.seq \in Nums
              /\ msg'.seq = msg.seq /\ msg'.kind = msg.kind
              /\ msg'.says = msg.says \ {n} /\ msg'.back = Later(msg.back)
<1>1. CASE msg = None
  <2>1. msg' = None
    BY <1>1 DEF Older
  <2> QED BY <2>1 DEF Datagrams
<1>2. CASE msg # None
  <2>1. msg \in [kind : {"up", "ack"}, seq : Nums, back : Ages, says : SUBSET Nodes]
    BY <1>2 DEF WindowTypeOK, Datagrams
  <2>2. msg' = [msg EXCEPT !.says = @ \ {n}, !.back = Later(@)]
    BY <1>2, <2>1 DEF Older, Fresh
  <2>3. Later(msg.back) \in Ages
    BY <2>1, LaterIs
  <2>4. msg' = [kind |-> msg.kind, seq |-> msg.seq, back |-> Later(msg.back),
                says |-> msg.says \ {n}]
    BY <2>1, <2>2
  <2>5. msg' \in Datagrams
    BY <2>1, <2>3, <2>4 DEF Datagrams
  <2> QED BY <1>2, <2>1, <2>4, <2>5
<1> QED BY <1>1, <1>2

\* A step that gives a node a number, or none because it is lost: every other
\* number is one older for the ghosts and for UINT_LESS_THAN alike.
LEMMA GiveKeeps ==
  ASSUME WindowInv, NEW n \in Nodes, NEW new \in 0 .. 1, Give(n, new), Relisted(n),
         n \in ToSet(list') => new = 1 /\ num'[n] = next_out,
         \A k \in Nodes \ {n} : num'[k] = num[k], num' \in [Nodes -> Nums],
         UNCHANGED gw
  PROVE  /\ Started' /\ Covers'
         /\ young' => ByAge' /\ Exact' /\ Covered'
<1> USE DEF Relisted
<1>1. /\ WindowTypeOK /\ Started /\ Covers /\ (young => ByAge /\ Exact /\ Covered)
      /\ list \in Seq(Nodes) /\ next_out \in Nums /\ gw.seq_out \in Nums
      /\ num \in [Nodes -> Nums] /\ age \in [Nodes -> Ages] /\ lag \in Ages
  BY DEF WindowInv, WindowTypeOK
<1>2. /\ next_out' = (next_out + 1) % Range16 /\ next_out' \in Nums
      /\ age' \in [Nodes -> Ages] /\ age'[n] = new
      /\ \A k \in Listed \ {n} : k \in Nodes /\ age'[k] = Later(age[k])
      /\ lag' = Later(lag) /\ lag' \in Ages
      /\ told' = told \ {n} /\ told' \in SUBSET Nodes
      /\ young' => young /\ lag' < Half /\ \A k \in ToSet(list') : age'[k] < Half
  BY <1>1, GiveIs
<1>3. /\ msg' \in Datagrams
      /\ msg' # None =>
           /\ msg # None /\ msg.back \in Ages /\ msg.seq \in Nums
           /\ msg'.seq = msg.seq /\ msg'.kind = msg.kind
           /\ msg'.says = msg.says \ {n} /\ msg'.back = Later(msg.back)
  BY <1>1, OlderIs DEF Give
<1>4. /\ Range16 \in Nat /\ Range16 > 1 /\ Half \in Int /\ Half < Range16
      /\ \A t \in Ages : t \in Nat /\ t <= Range16
  BY SizesAre DEF Ages
<1>5. \A t \in Ages : Later(t) \in Ages /\ Later(t) = IF t < Range16 THEN t + 1 ELSE Range16
  BY LaterIs
<1>6. /\ ToSet(list') \ {n} = Listed \ {n}
      /\ \A k \in ToSet(list') : k # n => k \in Listed \ {n}
  OBVIOUS
\* The numbers.
<1>7. ASSUME NEW x \in Nums, NEW t \in Ages
      PROVE  /\ Since(x) <= t => (next_out' - x) % Range16 <= Later(t)
             /\ Since(x) = t /\ Later(t) < Range16 => (next_out' - x) % Range16 = Later(t)
  BY <1>1, <1>2, AgeStep
<1>8. (next_out' - next_out) % Range16 = 1
  <2>1. 0 \in Ages /\ Later(0) = 1 /\ 1 < Range16
    BY <1>4, <1>5 DEF Ages
  <2>2. Since(next_out) = 0
    BY <1>1, <1>4, SinceIs DEF Nums
  <2> QED BY <1>1, <1>7, <2>1, <2>2
<1>9. ASSUME NEW k \in ToSet(list'), k = n PROVE num'[k] = next_out /\ age'[k] = 1
  BY <1>2, <1>9
<1>10. ASSUME NEW k \in ToSet(list'), k # n
       PROVE  /\ k \in Listed /\ k \in Nodes /\ num'[k] = num[k] /\ num[k] \in Nums
              /\ age[k] \in Ages /\ age'[k] = Later(age[k])
  BY <1>10, <1>1, <1>2, <1>6
<1>11. \A k \in ToSet(list') : k \in Nodes /\ age'[k] \in Ages
  BY <1>2, <1>9, <1>10
<1>12. Started'
  <2>1. lag' >= 1
    BY <1>1, <1>2, <1>4, <1>5 DEF Started
  <2>2. ASSUME NEW k \in ToSet(list') PROVE age'[k] >= 1
    BY <1>4, <1>5, <1>9, <1>10
  <2>3. msg' # None => msg'.back >= 1
    BY <1>3, <1>4, <1>5
  <2>4. msg' # None /\ msg'.kind = "ack" => msg'.says = {}
    BY <1>1, <1>3 DEF Started
  <2> QED BY <2>1, <2>2, <2>3, <2>4 DEF Started, Listed
<1>13. Covers'
  <2>1. ASSUME NEW k \in ToSet(list') PROVE (next_out' - num'[k]) % Range16 <= age'[k]
    <3>1. CASE k = n
      BY <3>1, <1>8, <1>9
    <3>2. CASE k # n
      BY <3>2, <1>1, <1>7, <1>10 DEF Covers
    <3> QED BY <3>1, <3>2
  <2>2. (next_out' - gw'.seq_out) % Range16 <= lag'
    BY <1>1, <1>2, <1>7 DEF Covers
  <2>3. msg' # None => (next_out' - msg'.seq) % Range16 <= msg'.back
    BY <1>1, <1>3, <1>7 DEF Covers
  <2> QED BY <2>1, <2>2, <2>3 DEF Covers, Since, Listed
\* While they are young.
<1>14. ASSUME young'
       PROVE  /\ ByAge /\ Exact /\ Covered /\ lag' < Half /\ lag < Range16 /\ lag' = lag + 1
              /\ \A k \in ToSet(list') : age'[k] < Half
              /\ \A k \in ToSet(list') : k # n => age[k] < Range16 /\ age'[k] = age[k] + 1
  <2>1. /\ ByAge /\ Exact /\ Covered /\ lag' < Half
        /\ \A k \in ToSet(list') : age'[k] < Half
    BY <1>14, <1>1, <1>2
  <2>2. lag < Range16 /\ lag' = lag + 1
    BY <2>1, <1>1, <1>2, <1>4, <1>5
  <2>3. ASSUME NEW k \in ToSet(list'), k # n PROVE age[k] < Range16 /\ age'[k] = age[k] + 1
    <3>1. age'[k] < Half /\ age'[k] = Later(age[k]) /\ age[k] \in Ages
      BY <2>1, <2>3, <1>10
    <3> QED BY <3>1, <1>4, <1>5
  <2> QED BY <2>1, <2>2, <2>3
<1>15. young' => ByAge'
  <2> SUFFICES ASSUME young', NEW i \in 1 .. Len(list'), NEW j \in 1 .. Len(list'), i < j
               PROVE  age'[list'[j]] < age'[list'[i]]
    BY DEF ByAge
  <2>1. list'[i] \in ToSet(list') /\ list'[j] \in ToSet(list')
    BY DEF ToSet
  <2>2. list'[i] # n
    OBVIOUS
  <2>3. age'[list'[i]] = age[list'[i]] + 1 /\ age[list'[i]] \in Nat /\ age[list'[i]] >= 1
    BY <2>1, <2>2, <1>1, <1>4, <1>10, <1>14 DEF Started
  <2>4. CASE list'[j] = n
    <3>1. age'[list'[j]] = 1
      BY <2>1, <2>4, <1>9
    <3> QED BY <2>3, <3>1
  <2>5. CASE list'[j] # n
    <3>1. PICK k \in 1 .. Len(list), l \in 1 .. Len(list) :
            k < l /\ list'[i] = list[k] /\ list'[j] = list[l]
      BY <2>5
    <3>2. age[list'[j]] < age[list'[i]]
      BY <3>1, <1>14 DEF ByAge
    <3>3. age'[list'[j]] = age[list'[j]] + 1 /\ age[list'[j]] \in Nat
      BY <2>1, <2>5, <1>4, <1>10, <1>14
    <3> QED BY <2>3, <3>2, <3>3
  <2> QED BY <2>4, <2>5
<1>16. young' => Exact'
  <2> SUFFICES ASSUME young' PROVE Exact'
    OBVIOUS
  <2>1. ASSUME NEW k \in ToSet(list')
        PROVE  age'[k] < Half /\ (next_out' - num'[k]) % Range16 = age'[k]
    <3>1. CASE k = n
      BY <3>1, <1>8, <1>9, <1>14
    <3>2. CASE k # n
      <4>1. Since(num[k]) = age[k]
        BY <3>2, <1>10, <1>14 DEF Exact
      <4>2. Later(age[k]) < Range16
        BY <3>2, <1>4, <1>5, <1>10, <1>14
      <4> QED BY <3>2, <4>1, <4>2, <1>7, <1>10, <1>14
    <3> QED BY <3>1, <3>2
  <2>2. (next_out' - gw'.seq_out) % Range16 = lag'
    <3>1. Since(gw.seq_out) = lag
      BY <1>14 DEF Exact
    <3>2. Later(lag) < Range16
      BY <1>2, <1>4, <1>14
    <3> QED BY <3>1, <3>2, <1>1, <1>2, <1>7
  <2>3. ASSUME msg' # None, msg'.back < Range16
        PROVE  (next_out' - msg'.seq) % Range16 = msg'.back
    <3>1. msg # None /\ Later(msg.back) < Range16 /\ msg.back \in Ages /\ msg.seq \in Nums
      BY <2>3, <1>3
    <3>2. msg.back < Range16
      BY <3>1, <1>4, <1>5
    <3>3. Since(msg.seq) = msg.back
      BY <3>1, <3>2, <1>14 DEF Exact
    <3> QED BY <2>3, <3>1, <3>3, <1>3, <1>7
  <2>4. lag' < Half
    BY <1>14
  <2> QED BY <2>1, <2>2, <2>3, <2>4 DEF Exact, Since, Listed
<1>17. young' => Covered'
  <2> SUFFICES ASSUME young' PROVE Covered'
    OBVIOUS
  <2>1. ASSUME gw'.known, NEW k \in ToSet(list'), age'[k] >= lag' PROVE k \in told'
    <3>1. k # n
      <4>1. lag' >= 2
        BY <1>1, <1>4, <1>14 DEF Started
      <4>2. lag' \in Nat
        BY <1>2, <1>4
      <4>3. CASE k = n
        BY <2>1, <4>1, <4>2, <4>3, <1>9
      <4> QED BY <4>3
    <3>2. age[k] >= lag
      BY <2>1, <3>1, <1>1, <1>4, <1>10, <1>14
    <3>3. k \in told
      BY <2>1, <3>1, <3>2, <1>10, <1>14 DEF Covered
    <3> QED BY <3>1, <3>3, <1>2
  <2>2. ASSUME msg' # None, NEW k \in ToSet(list'), age'[k] >= msg'.back
        PROVE  k \in told' \/ k \in msg'.says
    <3>1. /\ msg # None /\ msg.back \in Ages /\ msg'.back = Later(msg.back)
          /\ msg'.says = msg.says \ {n} /\ msg.back >= 1 /\ age'[k] < Half
      BY <2>2, <1>1, <1>3, <1>14 DEF Started
    <3>2. msg.back < Range16 /\ msg'.back = msg.back + 1 /\ age'[k] \in Nat
      BY <2>2, <3>1, <1>4, <1>5, <1>11
    <3>3. k # n
      <4>1. CASE k = n
        BY <2>2, <3>1, <3>2, <4>1, <1>4, <1>9
      <4> QED BY <4>1
    <3>4. age[k] >= msg.back
      BY <2>2, <3>1, <3>2, <3>3, <1>4, <1>10, <1>14
    <3>5. k \in told \/ k \in msg.says
      BY <3>1, <3>3, <3>4, <1>10, <1>14 DEF Covered
    <3> QED BY <3>1, <3>3, <3>5, <1>2
  <2> QED BY <2>1, <2>2 DEF Covered, Listed
<1> QED BY <1>12, <1>13, <1>15, <1>16, <1>17

LEMMA DaoKeeps ==
  ASSUME WindowInv, NEW n \in Nodes, Dao(n)
  PROVE  WindowInv'
<1>1. /\ WindowTypeOK /\ list \in Seq(Nodes) /\ IsInjective(list) /\ next_out \in Nums
      /\ num \in [Nodes -> Nums]
  BY DEF WindowInv, WindowTypeOK
<1>2. /\ list' = Append(Without(n), n) /\ num' = [num EXCEPT ![n] = next_out] /\ Give(n, 1)
      /\ UNCHANGED <<deleted, gw, min_ack>>
      /\ timer' = IF timer = "off" THEN "once" ELSE timer
  BY DEF Dao, Arm
<1>3. Relisted(n) /\ ToSet(list') = Listed \cup {n}
  BY <1>1, <1>2, DaoRelists
<1>4. /\ num'[n] = next_out /\ num' \in [Nodes -> Nums]
      /\ \A k \in Nodes \ {n} : num'[k] = num[k]
  BY <1>1, <1>2
<1>5. 1 \in 0 .. 1
  OBVIOUS
<1>6. Started' /\ Covers' /\ (young' => ByAge' /\ Exact' /\ Covered')
  BY <1>2, <1>3, <1>4, <1>5, GiveKeeps
<1>7. WindowTypeOK'
  <2>1. /\ next_out' \in Nums /\ age' \in [Nodes -> Ages] /\ lag' \in Ages
        /\ told' \in SUBSET Nodes /\ young' \in BOOLEAN /\ gapless' \in BOOLEAN
    BY <1>1, <1>2, <1>5, GiveIs
  <2>2. msg' \in Datagrams
    BY <1>1, <1>2, OlderIs DEF Give
  <2>3. timer' \in {"off", "once", "again"}
    BY <1>1, <1>2 DEF WindowTypeOK
  <2>4. list' \in Seq(Nodes) /\ IsInjective(list')
    BY <1>3 DEF Relisted
  <2> QED BY <1>1, <1>2, <1>4, <2>1, <2>2, <2>3, <2>4 DEF WindowTypeOK
<1> QED BY <1>6, <1>7 DEF WindowInv

\* mob_lost_node without a slot for the deletion: no number is given.
LEMMA ForgottenKeeps ==
  ASSUME WindowInv, NEW n \in Nodes, Relisted(n), n \notin ToSet(list'),
         num' = [num EXCEPT ![n] = 0], age' = [age EXCEPT ![n] = 0],
         told' = told \ {n}, msg' = Fresh(msg, n),
         UNCHANGED <<deleted, next_out, lag, young, gapless, gw, min_ack, timer>>
  PROVE  WindowInv'
<1>1. /\ WindowTypeOK /\ Started /\ Covers /\ (young => ByAge /\ Exact /\ Covered)
      /\ num \in [Nodes -> Nums] /\ age \in [Nodes -> Ages] /\ told \in SUBSET Nodes
      /\ msg \in Datagrams
  BY DEF WindowInv, WindowTypeOK
<1>2. /\ list' \in Seq(Nodes) /\ IsInjective(list') /\ ToSet(list') = Listed \ {n}
  BY DEF Relisted
<1>3. /\ num' \in [Nodes -> Nums] /\ age' \in [Nodes -> Ages]
      /\ \A k \in Nodes \ {n} : num'[k] = num[k] /\ age'[k] = age[k]
  <2>1. 0 \in Nums /\ 0 \in Ages
    BY SizesAre DEF Nums, Ages
  <2> QED BY <1>1, <2>1
<1>4. \A k \in ToSet(list') :
        k \in Listed /\ k # n /\ num'[k] = num[k] /\ age'[k] = age[k]
  <2>1. ToSet(list') \in SUBSET Nodes
    BY <1>2 DEF ToSet
  <2> QED BY <1>2, <1>3, <2>1
<1>5. /\ msg' \in Datagrams
      /\ msg' # None => /\ msg # None /\ msg'.seq = msg.seq /\ msg'.kind = msg.kind
                        /\ msg'.says = msg.says \ {n} /\ msg'.back = msg.back
  <2>1. CASE msg = None
    BY <2>1, <1>1 DEF Fresh
  <2>2. CASE msg # None
    <3>1. msg \in [kind : {"up", "ack"}, seq : Nums, back : Ages, says : SUBSET Nodes]
      BY <2>2, <1>1 DEF Datagrams
    <3>2. msg' = [kind |-> msg.kind, seq |-> msg.seq, back |-> msg.back,
                  says |-> msg.says \ {n}]
      BY <2>2, <3>1 DEF Fresh
    <3> QED BY <2>2, <3>1, <3>2 DEF Datagrams
  <2> QED BY <2>1, <2>2
<1>6. WindowTypeOK'
  BY <1>1, <1>2, <1>3, <1>5 DEF WindowTypeOK
<1>7. Started'
  BY <1>1, <1>4, <1>5 DEF Started, Listed
<1>8. Covers'
  BY <1>1, <1>4, <1>5 DEF Covers, Since, Listed
<1>9. young' => ByAge'
  <2> SUFFICES ASSUME young, NEW i \in 1 .. Len(list'), NEW j \in 1 .. Len(list'), i < j
               PROVE  age'[list'[j]] < age'[list'[i]]
    BY DEF ByAge
  <2>1. list'[i] \in ToSet(list') /\ list'[j] \in ToSet(list')
    BY <1>2 DEF ToSet
  <2>2. PICK k \in 1 .. Len(list), l \in 1 .. Len(list) :
          k < l /\ list'[i] = list[k] /\ list'[j] = list[l]
    BY <2>1, <1>4 DEF Relisted
  <2> QED BY <2>1, <2>2, <1>1, <1>4 DEF ByAge
<1>10. young' => Exact'
  BY <1>1, <1>4, <1>5 DEF Exact, Since, Listed
<1>11. young' => Covered'
  BY <1>1, <1>4, <1>5 DEF Covered, Listed
<1> QED BY <1>6, <1>7, <1>8, <1>9, <1>10, <1>11 DEF WindowInv

LEMMA LostKeeps ==
  ASSUME WindowInv, NEW n \in Nodes, Lost(n)
  PROVE  WindowInv'
<1>1. /\ WindowTypeOK /\ list \in Seq(Nodes) /\ IsInjective(list) /\ next_out \in Nums
      /\ num \in [Nodes -> Nums] /\ deleted \in [1 .. ND -> (0 .. Range8 - 1) \cup {None}]
  BY DEF WindowInv, WindowTypeOK
<1>2. /\ list' = Without(n) /\ num' = [num EXCEPT ![n] = 0]
      /\ UNCHANGED <<gw, min_ack, timer>>
  BY DEF Lost, mob
<1>3. Relisted(n) /\ n \notin ToSet(list')
  BY <1>1, <1>2, LostRelists
<1>4. num' \in [Nodes -> Nums] /\ \A k \in Nodes \ {n} : num'[k] = num[k]
  <2>1. 0 \in Nums
    BY SizesAre DEF Nums
  <2> QED BY <1>1, <1>2, <2>1
<1>5. CASE \E d \in DOMAIN deleted : deleted[d] = None
  <2> DEFINE d == Min({k \in DOMAIN deleted : deleted[k] = None})
  <2>1. deleted' = [deleted EXCEPT ![d] = next_out % Range8] /\ Give(n, 0)
    BY <1>5 DEF Lost
  <2> HIDE DEF d
  <2>2. next_out % Range8 \in 0 .. Range8 - 1
    BY <1>1, SizesAre DEF Nums
  <2>3. deleted' \in [1 .. ND -> (0 .. Range8 - 1) \cup {None}]
    BY <1>1, <2>1, <2>2
  <2>4. 0 \in 0 .. 1
    OBVIOUS
  <2>5. Started' /\ Covers' /\ (young' => ByAge' /\ Exact' /\ Covered')
    BY <1>2, <1>3, <1>4, <2>1, <2>4, GiveKeeps
  <2>6. WindowTypeOK'
    <3>1. /\ next_out' \in Nums /\ age' \in [Nodes -> Ages] /\ lag' \in Ages
          /\ told' \in SUBSET Nodes /\ young' \in BOOLEAN /\ gapless' \in BOOLEAN
      BY <1>1, <2>1, <2>4, GiveIs
    <3>2. msg' \in Datagrams
      BY <1>1, <2>1, OlderIs DEF Give
    <3>3. list' \in Seq(Nodes) /\ IsInjective(list')
      BY <1>3 DEF Relisted
    <3> QED BY <1>1, <1>2, <1>4, <2>3, <3>1, <3>2, <3>3 DEF WindowTypeOK
  <2> QED BY <2>5, <2>6 DEF WindowInv
<1>6. CASE ~\E d \in DOMAIN deleted : deleted[d] = None
  <2>1. /\ age' = [age EXCEPT ![n] = 0] /\ told' = told \ {n} /\ msg' = Fresh(msg, n)
        /\ UNCHANGED <<deleted, next_out, lag, young, gapless>>
    BY <1>6 DEF Lost
  <2> QED BY <1>2, <1>3, <2>1, ForgottenKeeps
<1> QED BY <1>5, <1>6

-----------------------------------------------------------------------------
(* Joining, sending, acknowledging *)

\* The number before a number was given one earlier.
LEMMA BeforeIs ==
  ASSUME next_out \in Nums, NEW x \in Nums, NEW a \in Ages
  PROVE  /\ (x - 1) % Range16 \in Nums
         /\ Since(x) <= a => Since((x - 1) % Range16) <= Later(a)
         /\ Since(x) = a /\ Later(a) < Range16 => Since((x - 1) % Range16) = Later(a)
<1> DEFINE k == x - 1
           w == k % Range16
<1>1. /\ x \in Int /\ 0 <= x /\ x < Range16 /\ next_out \in Int /\ 0 <= next_out
      /\ next_out < Range16 /\ a \in Int /\ 0 <= a /\ a <= Range16 /\ Range16 \in Int
      /\ Range16 > 1
  BY SizesAre DEF Nums, Ages
<1>2. k \in Int /\ 0 - Range16 <= k /\ k < Range16 + Range16 /\ k < Range16
  BY <1>1
<1>3. w \in Nums /\ w = IF k < 0 THEN k + Range16 ELSE k
  <2> HIDE DEF k
  <2> QED BY <1>2, Wraps
<1>4. w = IF x = 0 THEN Range16 - 1 ELSE x - 1
  BY <1>1, <1>3
<1> HIDE DEF w
<1> DEFINE s == Since(x)
           t == Since(w)
           l == Later(a)
<1>5. s = IF x <= next_out THEN next_out - x ELSE next_out - x + Range16
  BY SinceIs
<1>6. t = IF w <= next_out THEN next_out - w ELSE next_out - w + Range16
  BY <1>3, SinceIs
<1>7. l = IF a < Range16 THEN a + 1 ELSE Range16
  BY LaterIs
<1> HIDE DEF s, t, l
<1>8. t = IF s + 1 < Range16 THEN s + 1 ELSE 0
  BY <1>1, <1>4, <1>5, <1>6
<1>9. s \in Int /\ 0 <= s /\ s < Range16
  BY <1>1, <1>5
<1>10. s <= a => t <= l
  BY <1>1, <1>7, <1>8, <1>9
<1>11. s = a /\ l < Range16 => t = l
  BY <1>1, <1>7, <1>8, <1>9
<1> QED BY <1>3, <1>10, <1>11 DEF s, t, l, w

LEMMA JoinKeeps ==
  ASSUME WindowInv, Join
  PROVE  WindowInv'
<1> DEFINE from == IF list # <<>> THEN (num[Head(list)] - 1) % Range16 ELSE min_ack
           h    == Head(list)
<1>1. /\ WindowTypeOK /\ Started /\ Covers /\ (young => ByAge /\ Exact /\ Covered)
      /\ list \in Seq(Nodes) /\ next_out \in Nums /\ gw.seq_out \in Nums /\ min_ack \in Nums
      /\ num \in [Nodes -> Nums] /\ age \in [Nodes -> Ages] /\ lag \in Ages
  BY DEF WindowInv, WindowTypeOK
<1>2. /\ gw' = [known |-> TRUE, seq_out |-> from, non_ack |-> 0]
      /\ min_ack' = from
      /\ lag' = IF list # <<>> THEN Later(age[h])
                ELSE IF from = gw.seq_out THEN lag ELSE Range16
      /\ young' = (young /\ lag' < Half)
      /\ timer' = IF timer = "off" THEN "once" ELSE timer
      /\ UNCHANGED <<list, num, next_out, deleted, msg, age, told, gapless>>
  BY DEF Join, Arm, table
<1>3. Range16 \in Nat /\ Range16 > 1 /\ Half \in Int /\ Half < Range16 /\ Range16 \in Ages
  BY SizesAre DEF Ages
<1>4. list # <<>> => h = list[1] /\ h \in Nodes /\ h \in Listed /\ 1 \in 1 .. Len(list)
  <2> SUFFICES ASSUME list # <<>> PROVE h = list[1] /\ h \in Nodes /\ h \in Listed /\ 1 \in 1 .. Len(list)
    OBVIOUS
  <2>1. h = list[1] /\ 1 \in 1 .. Len(list)
    BY <1>1
  <2> QED BY <2>1, <1>1 DEF Listed, ToSet
<1> HIDE DEF h
<1>5. from \in Nums /\ lag' \in Ages /\ lag' >= 1
      /\ Since(from) <= lag' /\ (young /\ lag' < Range16 => Since(from) = lag')
  <2>1. CASE list # <<>>
    <3> DEFINE x == num[h]
               a == age[h]
    <3>1. x \in Nums /\ a \in Ages /\ Since(x) <= a /\ (young => Since(x) = a)
      BY <2>1, <1>1, <1>4 DEF Covers, Exact
    <3>2. from = (x - 1) % Range16 /\ lag' = Later(a)
      BY <2>1, <1>2 DEF h
    <3> HIDE DEF x, a, from
    <3>3. /\ (x - 1) % Range16 \in Nums
          /\ Since(x) <= a => Since((x - 1) % Range16) <= Later(a)
          /\ Since(x) = a /\ Later(a) < Range16 => Since((x - 1) % Range16) = Later(a)
      BY <3>1, <1>1, BeforeIs
    <3>4. Later(a) \in Ages /\ Later(a) >= 1
      BY <3>1, <1>3, LaterIs DEF Ages
    <3> QED BY <3>1, <3>2, <3>3, <3>4
  <2>2. CASE list = <<>> /\ from = gw.seq_out
    BY <2>2, <1>1, <1>2 DEF Covers, Exact, Started
  <2>3. CASE list = <<>> /\ from # gw.seq_out
    <3>1. from \in Nums /\ lag' = Range16
      BY <2>3, <1>1, <1>2
    <3>2. Since(from) \in Nums
      BY <3>1, <1>1, SinceIs
    <3>3. Since(from) <= Range16
      BY <3>2, <1>3 DEF Nums
    <3> QED BY <3>1, <3>3, <1>3
  <2> QED BY <2>1, <2>2, <2>3
<1> HIDE DEF from
<1>6. ASSUME young', NEW n \in Listed PROVE ~(age[n] >= lag')
  <2>1. young /\ lag' < Half
    BY <1>6, <1>2
  <2>2. PICK i \in 1 .. Len(list) : n = list[i]
    BY <1>1 DEF Listed, ToSet
  <2>3. list # <<>>
    BY <2>2
  <2>4. lag' = age[h] + 1 /\ age[h] \in Nat
    <3>1. age[h] \in Ages /\ lag' = Later(age[h])
      BY <2>3, <1>1, <1>2, <1>4
    <3> QED BY <3>1, <2>1, <1>3, LaterIs DEF Ages
  <2>5. age[n] <= age[h]
    <3>1. CASE i = 1
      BY <3>1, <2>2, <2>3, <2>4, <1>4
    <3>2. CASE i # 1
      <4>1. 1 < i /\ 1 \in 1 .. Len(list)
        BY <3>2, <2>3, <1>4
      <4>2. age[list[i]] < age[list[1]]
        BY <4>1, <2>1, <1>1 DEF ByAge
      <4>3. age[n] \in Nat
        BY <2>2, <1>1 DEF Ages
      <4> QED BY <4>2, <4>3, <2>2, <2>3, <2>4, <1>4
    <3> QED BY <3>1, <3>2
  <2>6. age[n] \in Nat
    BY <2>2, <1>1 DEF Ages
  <2> QED BY <2>4, <2>5, <2>6
<1>7. WindowTypeOK'
  <2>1. gw' \in [known : BOOLEAN, seq_out : Nums, non_ack : 0 .. MaxNonAck]
    BY <1>2, <1>5, SizesAre
  <2>2. timer' \in {"off", "once", "again"} /\ min_ack' \in Nums
    BY <1>1, <1>2, <1>5 DEF WindowTypeOK
  <2>3. young' \in BOOLEAN
    BY <1>2
  <2> QED BY <1>1, <1>2, <1>5, <2>1, <2>2, <2>3 DEF WindowTypeOK, Datagrams
<1>8. Started'
  BY <1>1, <1>2, <1>5 DEF Started, Listed
<1>9. Covers'
  BY <1>1, <1>2, <1>5 DEF Covers, Since, Listed
<1>10. young' => ByAge'
  BY <1>1, <1>2 DEF ByAge
<1>11. young' => Exact'
  BY <1>1, <1>2, <1>5 DEF Exact, Since, Listed
<1>12. young' => Covered'
  BY <1>1, <1>2, <1>6 DEF Covered, Listed
<1> QED BY <1>7, <1>8, <1>9, <1>10, <1>11, <1>12 DEF WindowInv

\* A step that leaves the numbers, what was said and what is on its way alone.
LEMMA QuietKeeps ==
  ASSUME WindowInv,
         UNCHANGED <<list, num, next_out, deleted, min_ack, msg, age, lag, told, young>>,
         gw' = gw \/ gw' = [gw EXCEPT !.known = FALSE],
         timer' \in {"off", "once", "again"}, gapless' \in BOOLEAN
  PROVE  WindowInv'
<1>1. /\ WindowTypeOK /\ Started /\ Covers /\ (young => ByAge /\ Exact /\ Covered)
      /\ gw \in [known : BOOLEAN, seq_out : Nums, non_ack : 0 .. MaxNonAck]
  BY DEF WindowInv, WindowTypeOK
<1>2. /\ gw' \in [known : BOOLEAN, seq_out : Nums, non_ack : 0 .. MaxNonAck]
      /\ gw'.seq_out = gw.seq_out /\ (gw'.known => gw.known)
  BY <1>1
<1>3. WindowTypeOK'
  BY <1>1, <1>2 DEF WindowTypeOK, Datagrams
<1>4. Started' /\ Covers'
  BY <1>1, <1>2 DEF Started, Covers, Since, Listed
<1>5. young' => ByAge' /\ Exact' /\ Covered'
  BY <1>1, <1>2 DEF ByAge, Exact, Covered, Since, Listed
<1> QED BY <1>3, <1>4, <1>5 DEF WindowInv

\* What an update says is on the list.
LEMMA WalkSays ==
  ASSUME list \in Seq(Nodes), NEW i \in 1 .. Len(list) + 1, NEW j \in 0 .. Len(list)
  PROVE  /\ SubSeq(list, i, j) \in Seq(Nodes)
         /\ ToSet(SubSeq(list, i, j)) \in SUBSET Nodes
         /\ \A k \in i .. j : list[k] \in ToSet(SubSeq(list, i, j))
<1> DEFINE w == SubSeq(list, i, j)
<1>1. i \in Int /\ j \in Int /\ 1 <= i /\ j <= Len(list) /\ Len(list) \in Nat
  OBVIOUS
<1>2. \A k \in i .. j : list[k] \in Nodes
  BY <1>1
<1>3. /\ w \in Seq(Nodes) /\ Len(w) = (IF i <= j THEN j - i + 1 ELSE 0)
      /\ \A k \in 1 .. j - i + 1 : w[k] = list[i + k - 1]
  BY <1>1, <1>2, SubSeqProperties
<1> HIDE DEF w
<1>4. ToSet(w) \in SUBSET Nodes
  BY <1>3 DEF ToSet
<1>5. ASSUME NEW k \in i .. j PROVE list[k] \in ToSet(w)
  <2>1. k - i + 1 \in 1 .. j - i + 1 /\ i + (k - i + 1) - 1 = k /\ i <= j
    BY <1>1
  <2> DEFINE l == k - i + 1
  <2>2. l \in 1 .. j - i + 1 /\ i + l - 1 = k /\ i <= j
    BY <1>1
  <2> HIDE DEF l
  <2>3. w[l] = list[k] /\ l \in 1 .. Len(w)
    BY <1>3, <2>2
  <2> QED BY <1>3, <2>3 DEF ToSet
<1> QED BY <1>3, <1>4, <1>5 DEF w

LEMMA SendUpdateKeeps ==
  ASSUME WindowInv, SendUpdate
  PROVE  WindowInv'
<1>1. /\ WindowTypeOK /\ Started /\ Covers /\ (young => ByAge /\ Exact /\ Covered)
      /\ list \in Seq(Nodes) /\ next_out \in Nums /\ gw.seq_out \in Nums
      /\ num \in [Nodes -> Nums] /\ age \in [Nodes -> Ages] /\ lag \in Ages
      /\ gw \in [known : BOOLEAN, seq_out : Nums, non_ack : 0 .. MaxNonAck]
  BY DEF WindowInv, WindowTypeOK
<1>2. /\ gw.known /\ Behind /\ gw.non_ack < MaxNonAck
      /\ UNCHANGED <<list, num, next_out, deleted, min_ack, age, lag, told, young>>
  BY DEF SendUpdate, table
<1>3. CASE Walk = <<>> /\ Deletions = {}
  <2>1. timer' = Fired /\ gapless' = FALSE /\ UNCHANGED <<gw, msg>>
    BY <1>3 DEF SendUpdate
  <2>2. timer' \in {"off", "once", "again"}
    BY <2>1 DEF Fired
  <2> QED BY <1>2, <2>1, <2>2, QuietKeeps
<1>4. CASE ~(Walk = <<>> /\ Deletions = {})
  <2> DEFINE back == IF Ahead > MaxEntry + 1 THEN lag - MaxEntry ELSE 1
             says == ToSet(Walk)
  <2>1. /\ msg' = [kind |-> "up", seq |-> UpTo, says |-> says, back |-> back]
        /\ gw' = [gw EXCEPT !.non_ack = @ + 1]
        /\ timer' = "again" /\ gapless' = gapless
    BY <1>4 DEF SendUpdate
  <2>2. /\ Ahead = Since(gw.seq_out) /\ Ahead \in Nums /\ UpTo \in Nums
        /\ Since(UpTo) = IF Ahead > MaxEntry + 1 THEN Ahead - MaxEntry ELSE 1
    BY <1>1, <1>2, UpToIs
  <2>3. Ahead <= lag /\ lag \in Nat /\ lag <= Range16 /\ Ahead \in Nat
    BY <1>1, <2>2, SizesAre DEF Covers, Ages, Nums
  <2>4. /\ MaxEntry \in Nat /\ MaxEntry > 0 /\ Range16 \in Nat /\ Range16 > 1
        /\ Half \in Int /\ Half < Range16
    BY SizesAre
  <2>5. back \in Ages /\ back >= 1 /\ Since(UpTo) <= back
    BY <2>2, <2>3, <2>4 DEF Ages
  <2>6. young => lag < Half /\ Ahead = lag /\ Since(UpTo) = back
    BY <1>1, <1>2, <2>2, <2>3, <2>4 DEF Exact
  <2>7. Walk \in Seq(Nodes) /\ says \in SUBSET Nodes
    <3> DEFINE first == Min(After(gw.seq_out, 1))
               stop  == Min(After(UpTo + 1, first))
    <3>1. 1 \in 1 .. Len(list) + 1 /\ Len(list) \in Nat
      BY <1>1
    <3>2. first \in 1 .. Len(list) + 1
      BY <1>1, <3>1, AfterIs
    <3>3. Walk = SubSeq(list, first, stop - 1)
      BY DEF Walk
    <3> HIDE DEF first
    <3>4. stop \in first .. Len(list) + 1
      BY <1>1, <3>2, AfterIs
    <3> HIDE DEF stop
    <3>5. stop - 1 \in 0 .. Len(list)
      BY <3>1, <3>2, <3>4
    <3> QED BY <1>1, <3>2, <3>3, <3>5, WalkSays
  <2>8. ASSUME young, NEW n \in Listed, age[n] >= back PROVE n \in told \/ n \in says
    <3>1. CASE age[n] >= lag
      BY <3>1, <2>8, <1>1, <1>2 DEF Covered
    <3>2. CASE ~(age[n] >= lag)
      <4> DEFINE upto == IF lag > MaxEntry + 1 THEN lag - MaxEntry ELSE 1
      <4>1. upto = (IF lag > MaxEntry + 1 THEN lag - MaxEntry ELSE 1) /\ upto = back
        BY <2>6, <2>8
      <4> HIDE DEF upto
      <4>2. PICK i \in 1 .. Len(list) + 1, j \in 0 .. Len(list) :
              /\ Walk = SubSeq(list, i, j)
              /\ \A k \in 1 .. Len(list) :
                   age[list[k]] < lag /\ age[list[k]] >= upto - 1 <=> k \in i .. j
        BY <4>1, <2>8, <1>1, <1>2, WalkIs
      <4>3. PICK k \in 1 .. Len(list) : n = list[k]
        BY <1>1 DEF Listed, ToSet
      <4>4. age[n] \in Nat /\ age[n] < lag /\ age[n] >= upto - 1
        <5>1. age[n] \in Nat
          BY <4>3, <1>1 DEF Ages
        <5>2. back \in Nat
          BY <2>5 DEF Ages
        <5> HIDE DEF back
        <5> QED BY <5>1, <5>2, <4>1, <3>2, <2>3, <2>8
      <4>5. k \in i .. j
        BY <4>2, <4>3, <4>4
      <4>6. list[k] \in ToSet(SubSeq(list, i, j))
        BY <4>5, <1>1, WalkSays
      <4> QED BY <4>2, <4>3, <4>6
    <3> QED BY <3>1, <3>2
  <2> HIDE DEF back, says
  <2>9. /\ msg' \in Datagrams /\ msg'.seq = UpTo /\ msg'.back = back /\ msg'.says = says
        /\ msg'.kind = "up"
    BY <2>1, <2>2, <2>5, <2>7 DEF Datagrams
  <2>10. /\ gw' \in [known : BOOLEAN, seq_out : Nums, non_ack : 0 .. MaxNonAck]
         /\ gw'.seq_out = gw.seq_out /\ gw'.known = gw.known
    <3>1. gw.non_ack + 1 \in 0 .. MaxNonAck
      BY <1>1, <1>2, SizesAre
    <3>2. gw' = [known |-> gw.known, seq_out |-> gw.seq_out, non_ack |-> gw.non_ack + 1]
      BY <1>1, <2>1
    <3> QED BY <3>1, <3>2, <1>1
  <2>11. WindowTypeOK'
    BY <1>1, <1>2, <2>1, <2>9, <2>10 DEF WindowTypeOK
  <2>12. Started'
    BY <1>1, <1>2, <2>5, <2>9 DEF Started, Listed
  <2>13. Covers'
    BY <1>1, <1>2, <2>5, <2>9, <2>10 DEF Covers, Since, Listed
  <2>14. young' => ByAge'
    BY <1>1, <1>2 DEF ByAge
  <2>15. young' => Exact'
    BY <1>1, <1>2, <2>6, <2>9, <2>10 DEF Exact, Since, Listed
  <2>16. young' => Covered'
    BY <1>1, <1>2, <2>8, <2>9, <2>10 DEF Covered, Listed
  <2> QED BY <2>11, <2>12, <2>13, <2>14, <2>15, <2>16 DEF WindowInv
<1> QED BY <1>3, <1>4

LEMMA SendKeeps ==
  ASSUME WindowInv, Send
  PROVE  WindowInv'
<1>1. timer \in {"off", "once", "again"} /\ gapless \in BOOLEAN
  BY DEF WindowInv, WindowTypeOK
<1>2. Fired \in {"off", "once", "again"}
  BY DEF Fired
<1>3. CASE SendNoHoag
  BY <1>3, <1>1, QuietKeeps DEF SendNoHoag, table, ghost
<1>4. CASE SendDrop
  BY <1>4, <1>1, <1>2, QuietKeeps DEF SendDrop, table, ghost
<1>5. CASE SendSkip
  BY <1>5, <1>1, <1>2, QuietKeeps DEF SendSkip, table, ghost
<1>6. CASE SendUpdate
  BY <1>6, SendUpdateKeeps
<1> QED BY <1>3, <1>4, <1>5, <1>6 DEF Send

LEMMA ReceiveKeeps ==
  ASSUME WindowInv, Receive
  PROVE  WindowInv'
<1>1. /\ WindowTypeOK /\ Started /\ Covers /\ (young => ByAge /\ Exact /\ Covered)
      /\ msg # None /\ told' = told \cup msg.says
      /\ UNCHANGED <<list, num, next_out, deleted, gw, min_ack, timer, age, lag, young, gapless>>
  BY DEF WindowInv, Receive, table, mob
<1>2. msg \in [kind : {"up", "ack"}, seq : Nums, back : Ages, says : SUBSET Nodes]
  BY <1>1 DEF WindowTypeOK, Datagrams
<1>3. msg' = [kind |-> "ack", seq |-> msg.seq, back |-> msg.back, says |-> {}]
  BY <1>2 DEF Receive
<1>4. /\ msg' \in Datagrams /\ msg'.seq = msg.seq /\ msg'.back = msg.back /\ msg'.says = {}
      /\ told' \in SUBSET Nodes
  <2>1. told \in SUBSET Nodes
    BY <1>1 DEF WindowTypeOK
  <2> QED BY <2>1, <1>1, <1>2, <1>3 DEF Datagrams
<1>5. WindowTypeOK'
  BY <1>1, <1>4 DEF WindowTypeOK
<1>6. Started'
  BY <1>1, <1>4 DEF Started, Listed
<1>7. Covers'
  BY <1>1, <1>4 DEF Covers, Since, Listed
<1>8. young' => ByAge' /\ Exact'
  BY <1>1, <1>4 DEF ByAge, Exact, Since, Listed
<1>9. young' => Covered'
  BY <1>1, <1>4 DEF Covered, Listed
<1> QED BY <1>5, <1>6, <1>7, <1>8, <1>9 DEF WindowInv

LEMMA IncomingAckKeeps ==
  ASSUME WindowInv, IncomingAck
  PROVE  WindowInv'
<1>1. /\ WindowTypeOK /\ Started /\ Covers /\ (young => ByAge /\ Exact /\ Covered)
      /\ gw \in [known : BOOLEAN, seq_out : Nums, non_ack : 0 .. MaxNonAck]
      /\ next_out \in Nums /\ min_ack \in Nums /\ young \in BOOLEAN
      /\ deleted \in [1 .. ND -> (0 .. Range8 - 1) \cup {None}]
  BY DEF WindowInv, WindowTypeOK
<1>2. /\ msg # None /\ msg.kind = "ack" /\ gw.known /\ msg' = None /\ lag' = msg.back
      /\ gw' = [gw EXCEPT !.seq_out = msg.seq, !.non_ack = 0]
      /\ young' = (young /\ lag' < Half)
      /\ UNCHANGED <<list, num, next_out, timer, age, told, gapless>>
  BY DEF IncomingAck
<1>3. msg \in [kind : {"up", "ack"}, seq : Nums, back : Ages, says : SUBSET Nodes]
  BY <1>1, <1>2 DEF WindowTypeOK, Datagrams
<1>4. /\ gw' \in [known : BOOLEAN, seq_out : Nums, non_ack : 0 .. MaxNonAck]
      /\ gw'.seq_out = msg.seq /\ lag' \in Ages
  <2>1. 0 \in 0 .. MaxNonAck
    BY SizesAre
  <2>2. gw' = [known |-> gw.known, seq_out |-> msg.seq, non_ack |-> 0]
    BY <1>1, <1>2
  <2> QED BY <2>1, <2>2, <1>1, <1>2, <1>3
<1>5. min_ack' \in Nums /\ deleted' \in [1 .. ND -> (0 .. Range8 - 1) \cup {None}]
  <2>1. CASE min_ack = gw.seq_out
    <3> DEFINE min == IF UintLessThan(msg.seq, next_out) THEN msg.seq ELSE next_out
    <3>1. min \in Nums
      BY <1>1, <1>3
    <3>2. /\ min_ack' = min
          /\ deleted' = [d \in DOMAIN deleted |->
               IF deleted[d] # None /\ UintLessThan(min_ack, deleted[d])
                    /\ UintLessThan(deleted[d], min)
               THEN None ELSE deleted[d]]
      BY <2>1 DEF IncomingAck
    <3> HIDE DEF min
    <3> QED BY <1>1, <3>1, <3>2
  <2>2. CASE min_ack # gw.seq_out
    BY <2>2, <1>1 DEF IncomingAck
  <2> QED BY <2>1, <2>2
<1>6. WindowTypeOK'
  <2>1. young' \in BOOLEAN
    BY <1>2
  <2> QED BY <1>1, <1>2, <1>4, <1>5, <2>1 DEF WindowTypeOK, Datagrams
<1>7. Started'
  BY <1>1, <1>2 DEF Started, Listed
<1>8. Covers'
  BY <1>1, <1>2, <1>4 DEF Covers, Since, Listed
<1>9. young' => ByAge'
  BY <1>1, <1>2 DEF ByAge
<1>10. young' => Exact'
  BY <1>1, <1>2, <1>4 DEF Exact, Since, Listed
<1>11. young' => Covered'
  <2>1. msg.says = {}
    BY <1>1, <1>2 DEF Started
  <2> QED BY <1>1, <1>2, <2>1 DEF Covered, Listed
<1> QED BY <1>6, <1>7, <1>8, <1>9, <1>10, <1>11 DEF WindowInv

-----------------------------------------------------------------------------
(* The theorems *)

LEMMA WindowInit == Init => WindowInv
<1> SUFFICES ASSUME Init PROVE WindowInv
  OBVIOUS
<1>1. /\ list = <<>> /\ num = [n \in Nodes |-> 0] /\ next_out = 1
      /\ deleted = [d \in 1 .. ND |-> None]
      /\ gw = [known |-> FALSE, seq_out |-> 0, non_ack |-> 0] /\ min_ack = 0
      /\ timer = "off" /\ msg = None
      /\ age = [n \in Nodes |-> 0] /\ lag = 1 /\ told = {} /\ young = TRUE /\ gapless = TRUE
  BY DEF Init
<1>2. Range16 \in Nat /\ Range16 > 1 /\ MaxNonAck \in Nat /\ 0 \in Nums /\ 1 \in Nums
      /\ 0 \in Ages /\ 1 \in Ages
  BY SizesAre DEF Nums, Ages
<1>3. Listed = {} /\ list \in Seq(Nodes) /\ IsInjective(list) /\ Len(list) = 0
  BY <1>1 DEF Listed, ToSet, IsInjective
<1>4. WindowTypeOK
  BY <1>1, <1>2, <1>3 DEF WindowTypeOK, Datagrams
<1>5. Since(0) = 1
  BY <1>1, <1>2, SinceIs
<1>6. Started /\ Covers
  BY <1>1, <1>3, <1>5 DEF Started, Covers
<1>7. ByAge /\ Exact /\ Covered
  BY <1>1, <1>3, <1>5 DEF ByAge, Exact, Covered
<1> QED BY <1>4, <1>6, <1>7 DEF WindowInv

LEMMA WindowStep == WindowInv /\ [Next]_vars => WindowInv'
<1> SUFFICES ASSUME WindowInv, [Next]_vars PROVE WindowInv'
  OBVIOUS
<1>1. ASSUME NEW n \in Nodes, Dao(n) PROVE WindowInv'
  BY <1>1, DaoKeeps
<1>2. ASSUME NEW n \in Nodes, Lost(n) PROVE WindowInv'
  BY <1>2, LostKeeps
<1>3. CASE Join
  BY <1>3, JoinKeeps
<1>4. CASE Send
  BY <1>4, SendKeeps
<1>5. CASE Receive
  BY <1>5, ReceiveKeeps
<1>6. CASE IncomingAck
  BY <1>6, IncomingAckKeeps
<1>7. CASE UNCHANGED vars
  <2>1. timer \in {"off", "once", "again"} /\ gapless \in BOOLEAN
    BY DEF WindowInv, WindowTypeOK
  <2> QED BY <1>7, <2>1, QuietKeeps DEF vars, table, mob, ghost
<1> QED BY <1>1, <1>2, <1>3, <1>4, <1>5, <1>6, <1>7 DEF Next

\* The numbers of the nodes, of the acknowledgement and of what is on its way
\* are as old as the ghosts say, whatever their range.
THEOREM WindowSafe == Spec => []WindowInv
<1>1. Init => WindowInv
  BY WindowInit
<1>2. WindowInv /\ [Next]_vars => WindowInv'
  BY WindowStep
<1> QED BY <1>1, <1>2, PTL DEF Spec

\* Every variable of the window keeps its type, also as its numbers come round,
\* and mob_maj_node and mob_lost_node put no node on the list twice.
THEOREM WindowTypeCorrect == Spec => []WindowTypeOK
<1>1. WindowInv => WindowTypeOK
  BY DEF WindowInv
<1> QED BY <1>1, WindowSafe, PTL

\* While no number in use is half the range old, UINT_LESS_THAN on numbers that
\* come round cuts the same updates from the list as numbers that only grow.
THEOREM WrapIsInvisible == Spec => []AsIfUnbounded
<1>1. WindowInv => AsIfUnbounded
  BY WindowIsExact
<1> QED BY <1>1, WindowSafe, PTL

\* What the home agent acknowledged it has heard of, for every range, window,
\* loss of datagrams and order of registrations.
THEOREM AcknowledgedMeansTold == Spec => []AcknowledgedIsTold
<1>1. WindowInv => AcknowledgedIsTold
  BY DEF WindowInv, Covered, AcknowledgedIsTold
<1> QED BY <1>1, WindowSafe, PTL

=============================================================================
