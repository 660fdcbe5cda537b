---------------------------- MODULE OutListProofs ----------------------------
(***************************************************************************)
(* The updates of the list keep it sorted.  Sorted says of every element   *)
(* which one is next, so no induction along the list is needed.            *)
(***************************************************************************)
EXTENDS OutList, TLAPS

\* LIST_END and LIST_INIT are no slots, so a link tells a slot from an end.
LEMMA EndsAreNoSlots == /\ LIST_END \notin Slots
                        /\ LIST_INIT \notin Slots
                        /\ LIST_END # LIST_INIT
                        /\ Slots \subseteq Nat
  BY NBAssumption DEF Slots, LIST_END, LIST_INIT

\* The operators keep lists lists.
LEMMA ListsClosed ==
  ASSUME NEW L \in Lists, NEW s \in Slots
  PROVE  /\ ListInit(L, s) \in Lists
         /\ ListAddEnd(L, s) \in Lists
         /\ ListRemove(L, s) \in Lists
         /\ ListMaj(L, s) \in Lists
<1>1. ASSUME NEW M \in Lists PROVE ListAddEnd(M, s) \in Lists
  BY <1>1 DEF Lists, Links, ListAddEnd, SetLink
<1>2. ASSUME NEW M \in Lists PROVE ListRemove(M, s) \in Lists
  BY <1>2 DEF Lists, Links, ListRemove, SetLink
<1>3. ListInit(L, s) \in Lists
  BY DEF Lists, Links, ListInit
<1>4. ListMaj(L, s) \in Lists
  BY <1>1, <1>2 DEF ListMaj
<1> QED BY <1>1, <1>2, <1>3, <1>4

\* A list whose links are all set stays one, and a slot that is initialised is
\* linked at once.
LEMMA SettledClosed ==
  ASSUME NEW L \in SettledLists, NEW s \in Slots
  PROVE  /\ L \in Lists
         /\ ListRemove(L, s) \in SettledLists
         /\ ListMaj(L, s) \in SettledLists
         /\ ListMaj(ListInit(L, s), s) \in SettledLists
<1>1. L \in Lists
  BY DEF SettledLists, Lists, Links, Ends
<1>2. ASSUME NEW M \in SettledLists PROVE ListAddEnd(M, s) \in SettledLists
  BY DEF SettledLists, Ends, ListAddEnd, SetLink
<1>3. ListRemove(L, s) \in SettledLists
  BY DEF SettledLists, Ends, ListRemove, SetLink
<1>4. ListMaj(L, s) \in SettledLists
  BY <1>2, <1>3 DEF ListMaj
<1>5. ListMaj(ListInit(L, s), s) \in SettledLists
  <2> DEFINE M == ListInit(L, s)
             A == ListAddEnd(M, s)
  <2>1. /\ M.prev = [L.prev EXCEPT ![s] = LIST_INIT]
        /\ M.next = [L.next EXCEPT ![s] = LIST_INIT]
        /\ M.min = L.min /\ M.max = L.max
    BY DEF ListInit, SettledLists
  <2>2. M.prev[s] = LIST_INIT
    BY <2>1 DEF SettledLists
  <2> HIDE DEF M
  <2>3. A.prev \in [Slots -> Ends]
    BY <2>1, EndsAreNoSlots DEF ListAddEnd, SetLink, SettledLists, Ends
  <2>4. A.next \in [Slots -> Ends]
    BY <2>1, EndsAreNoSlots DEF ListAddEnd, SetLink, SettledLists, Ends
  <2>5. A.min \in Ends /\ A.max \in Ends
    BY <2>1, EndsAreNoSlots DEF ListAddEnd, SettledLists, Ends
  <2>6. A \in SettledLists
    BY <2>3, <2>4, <2>5 DEF ListAddEnd, SettledLists
  <2> HIDE DEF A
  <2>7. ListMaj(M, s) = A
    BY <2>2 DEF ListMaj, A
  <2> QED BY <2>6, <2>7 DEF M
<1> QED BY <1>1, <1>3, <1>4, <1>5

\* The list only reads the numbers of its own elements.
LEMMA SortedOrder ==
  ASSUME NEW L \in Lists, NEW S \in SUBSET Slots,
         NEW ord \in [Slots -> Nat], NEW ord2 \in [Slots -> Nat],
         Sorted(L, S, ord),
         \A t \in S : ord2[t] = ord[t]
  PROVE  Sorted(L, S, ord2)
  BY EndsAreNoSlots DEF Sorted, FirstIs, LastIs, SuccIs, PredIs

\* The links of a slot that is not on the list do not matter.
LEMMA InitSorted ==
  ASSUME NEW L \in Lists, NEW S \in SUBSET Slots, NEW s \in Slots \ S,
         NEW ord \in [Slots -> Nat], Sorted(L, S, ord)
  PROVE  Sorted(ListInit(L, s), S, ord)
<1> DEFINE M == ListInit(L, s)
<1>1. /\ M.min = L.min /\ M.max = L.max
      /\ \A t \in S : M.next[t] = L.next[t] /\ M.prev[t] = L.prev[t]
  BY DEF ListInit, Lists
<1> HIDE DEF M
<1>2. Sorted(M, S, ord)
  BY <1>1 DEF Sorted
<1> QED BY <1>2 DEF M

\* mob_list_add_end of a slot with the greatest number.
LEMMA AddEndSorted ==
  ASSUME NEW L \in Lists, NEW S \in SUBSET Slots, NEW s \in Slots \ S,
         NEW ord \in [Slots -> Nat],
         Sorted(L, S, ord),
         \A t \in S : ord[t] < ord[s]
  PROVE  Sorted(ListAddEnd(L, s), S \cup {s}, ord)
<1> DEFINE M == ListAddEnd(L, s)
           T == S \cup {s}
<1>1. /\ M.max = s
      /\ M.min = IF L.max = LIST_END THEN s ELSE L.min
      /\ M.next[s] = LIST_END
      /\ M.prev[s] = L.max
      /\ \A t \in S : M.prev[t] = L.prev[t]
      /\ \A t \in S : M.next[t] = IF t = L.max THEN s ELSE L.next[t]
  BY EndsAreNoSlots DEF ListAddEnd, SetLink, Lists
<1> HIDE DEF M
<1>0. \A t \in T : ord[t] \in Nat
  OBVIOUS
<1>2. L.max = LIST_END <=> S = {}
  BY EndsAreNoSlots DEF Sorted, LastIs, FirstIs
<1>3. FirstIs(T, ord, M.min)
  <2>1. CASE S = {}
    <3>1. FirstIs(T, ord, s)
      BY <2>1, <1>0, EndsAreNoSlots DEF FirstIs
    <3> QED BY <2>1, <3>1, <1>1, <1>2
  <2>2. CASE S # {}
    <3>1. L.min \in S /\ \A t \in S : ord[L.min] <= ord[t]
      BY <2>2, EndsAreNoSlots DEF Sorted, FirstIs
    <3>2. ord[L.min] < ord[s]
      BY <3>1
    <3>3. \A t \in T : ord[L.min] <= ord[t]
      BY <3>1, <3>2, <1>0
    <3>4. FirstIs(T, ord, L.min)
      BY <3>1, <3>3, EndsAreNoSlots DEF FirstIs
    <3> QED BY <2>2, <3>4, <1>1, <1>2
  <2> QED BY <2>1, <2>2
<1>4. LastIs(T, ord, M.max)
  <2>1. \A t \in T : ord[t] <= ord[s]
    BY <1>0
  <2>2. LastIs(T, ord, s)
    BY <2>1, EndsAreNoSlots DEF LastIs
  <2> QED BY <2>2, <1>1
<1>5. ASSUME NEW t \in T PROVE SuccIs(T, ord, t, M.next[t])
  <2>1. CASE t = s
    BY <2>1, <1>1 DEF SuccIs
  <2>2. CASE t # s /\ t = L.max
    <3>1. t \in S /\ M.next[t] = s
      BY <2>2, <1>1
    <3>2. \A u \in S : ord[u] <= ord[t]
      BY <2>2, <3>1, EndsAreNoSlots DEF Sorted, LastIs
    <3>3. ord[t] < ord[s]
      BY <3>1
    <3>4. SuccIs(T, ord, t, s)
      BY <3>2, <3>3, <1>0, EndsAreNoSlots DEF SuccIs
    <3> QED BY <3>1, <3>4
  <2>3. CASE t # s /\ t # L.max
    <3>1. L.max \in S /\ \A u \in S : ord[u] <= ord[L.max]
      BY <2>3, <1>2, EndsAreNoSlots DEF Sorted, LastIs
    <3>2. t \in S /\ SuccIs(S, ord, t, L.next[t])
      BY <2>3 DEF Sorted
    <3>3. ord[t] # ord[L.max]
      BY <2>3, <3>1 DEF Sorted
    <3>4. L.next[t] # LIST_END
      BY <3>1, <3>2, <3>3, <1>0 DEF SuccIs
    <3>5. SuccIs(T, ord, t, L.next[t])
      BY <3>2, <3>4, <1>0 DEF SuccIs
    <3> QED BY <2>3, <3>2, <3>5, <1>1
  <2> QED BY <2>1, <2>2, <2>3
<1>6. ASSUME NEW t \in T PROVE PredIs(T, ord, t, M.prev[t])
  <2>1. CASE t = s
    <3>1. CASE S = {}
      <4>1. M.prev[t] = LIST_END
        BY <2>1, <3>1, <1>1, <1>2
      <4>2. \A u \in T : ord[t] <= ord[u]
        BY <2>1, <3>1, <1>0
      <4> QED BY <4>1, <4>2 DEF PredIs
    <3>2. CASE S # {}
      <4>1. L.max \in S /\ \A u \in S : ord[u] <= ord[L.max]
        BY <3>2, <1>2, EndsAreNoSlots DEF Sorted, LastIs
      <4>2. ord[L.max] < ord[s]
        BY <4>1
      <4>3. \A u \in T : ord[u] <= ord[L.max] \/ ord[s] <= ord[u]
        BY <4>1, <1>0
      <4>4. L.max \in T /\ L.max # LIST_END
        BY <4>1, EndsAreNoSlots
      <4>5. PredIs(T, ord, s, L.max)
        BY <4>2, <4>3, <4>4 DEF PredIs
      <4> QED BY <2>1, <4>5, <1>1
    <3> QED BY <3>1, <3>2
  <2>2. CASE t # s
    <3>1. t \in S /\ M.prev[t] = L.prev[t]
      BY <2>2, <1>1
    <3>2. PredIs(S, ord, t, L.prev[t]) /\ ord[t] < ord[s]
      BY <3>1 DEF Sorted
    <3>3. PredIs(T, ord, t, L.prev[t])
      BY <3>1, <3>2, <1>0 DEF PredIs
    <3> QED BY <3>1, <3>3
  <2> QED BY <2>1, <2>2
<1>7. \A t, u \in T : ord[t] = ord[u] => t = u
  BY EndsAreNoSlots DEF Sorted
<1> QED BY <1>3, <1>4, <1>5, <1>6, <1>7 DEF Sorted, M

\* mob_list_remove of an element.
LEMMA RemoveSorted ==
  ASSUME NEW L \in Lists, NEW S \in SUBSET Slots, NEW s \in S,
         NEW ord \in [Slots -> Nat],
         Sorted(L, S, ord)
  PROVE  Sorted(ListRemove(L, s), S \ {s}, ord)
<1> DEFINE M == ListRemove(L, s)
           T == S \ {s}
           p == L.prev[s]
           n == L.next[s]
<1>1. /\ M.min = IF p = LIST_END THEN n ELSE L.min
      /\ M.max = IF n = LIST_END THEN p ELSE L.max
      /\ \A t \in T : M.next[t] = IF t = p THEN n ELSE L.next[t]
      /\ \A t \in T : M.prev[t] = IF t = n THEN p ELSE L.prev[t]
  BY EndsAreNoSlots DEF ListRemove, SetLink, Lists
<1> HIDE DEF M
<1>2. SuccIs(S, ord, s, n) /\ PredIs(S, ord, s, p)
  BY DEF Sorted
<1>3. \A t \in S : ord[t] \in Nat
  OBVIOUS
<1>4. \A t, u \in S : ord[t] = ord[u] => t = u
  BY DEF Sorted
<1>5. FirstIs(T, ord, M.min)
  <2>1. L.min \in S /\ \A t \in S : ord[L.min] <= ord[t]
    BY EndsAreNoSlots DEF Sorted, FirstIs
  <2>2. CASE p = LIST_END
    <3>1. FirstIs(T, ord, n)
      BY <2>2, <1>2, <1>3, <1>4, EndsAreNoSlots DEF FirstIs, SuccIs, PredIs
    <3> QED BY <2>2, <3>1, <1>1
  <2>3. CASE p # LIST_END
    <3>1. ord[p] < ord[s] /\ p \in S
      BY <2>3, <1>2 DEF PredIs
    <3>2. L.min # s
      BY <2>1, <3>1, <1>3
    <3>3. FirstIs(T, ord, L.min)
      BY <2>1, <3>2, EndsAreNoSlots DEF FirstIs
    <3> QED BY <2>3, <3>3, <1>1
  <2> QED BY <2>2, <2>3
<1>6. LastIs(T, ord, M.max)
  <2>1. L.max \in S /\ \A t \in S : ord[t] <= ord[L.max]
    BY EndsAreNoSlots DEF Sorted, LastIs
  <2>2. CASE n = LIST_END
    <3>1. LastIs(T, ord, p)
      BY <2>2, <1>2, <1>3, <1>4, EndsAreNoSlots DEF LastIs, SuccIs, PredIs
    <3> QED BY <2>2, <3>1, <1>1
  <2>3. CASE n # LIST_END
    <3>1. ord[s] < ord[n] /\ n \in S
      BY <2>3, <1>2 DEF SuccIs
    <3>2. L.max # s
      BY <2>1, <3>1, <1>3
    <3>3. LastIs(T, ord, L.max)
      BY <2>1, <3>2, EndsAreNoSlots DEF LastIs
    <3> QED BY <2>3, <3>3, <1>1
  <2> QED BY <2>2, <2>3
<1>7. ASSUME NEW t \in T PROVE SuccIs(T, ord, t, M.next[t])
  <2>1. SuccIs(S, ord, t, L.next[t])
    BY DEF Sorted
  <2>2. CASE t = p
    <3>1. p \in S /\ ord[p] < ord[s] /\ \A u \in S : ord[u] <= ord[p] \/ ord[s] <= ord[u]
      BY <2>2, <1>2, EndsAreNoSlots DEF PredIs
    <3>2. \A u \in T : ord[u] <= ord[p] \/ ord[s] < ord[u]
      BY <3>1, <1>3, <1>4
    <3>3. SuccIs(T, ord, p, n)
      <4>1. CASE n = LIST_END
        <5>1. \A u \in T : ord[u] <= ord[p]
          BY <4>1, <3>2, <1>2, <1>3 DEF SuccIs
        <5> QED BY <4>1, <5>1 DEF SuccIs
      <4>2. CASE n # LIST_END
        <5>1. n \in S /\ ord[s] < ord[n] /\ \A u \in S : ord[u] <= ord[s] \/ ord[n] <= ord[u]
          BY <4>2, <1>2 DEF SuccIs
        <5>2. n \in T /\ ord[p] < ord[n]
          BY <5>1, <3>1, <1>3
        <5>3. \A u \in T : ord[u] <= ord[p] \/ ord[n] <= ord[u]
          BY <5>1, <3>2, <1>3
        <5> QED BY <4>2, <5>2, <5>3 DEF SuccIs
      <4> QED BY <4>1, <4>2
    <3> QED BY <2>2, <3>3, <1>1
  <2>3. CASE t # p
    <3>1. L.next[t] # s
      <4>1. CASE L.next[t] = s
        <5>1. ord[t] < ord[s] /\ \A u \in S : ord[u] <= ord[t] \/ ord[s] <= ord[u]
          BY <4>1, <2>1, EndsAreNoSlots DEF SuccIs
        <5>2. p \in S /\ ord[p] < ord[s] /\ (ord[t] <= ord[p] \/ ord[s] <= ord[t])
          BY <5>1, <1>2, <1>3 DEF PredIs
        <5>3. ord[p] = ord[t]
          BY <5>1, <5>2, <1>3
        <5> QED BY <5>2, <5>3, <2>3, <1>4
      <4> QED BY <4>1
    <3>2. SuccIs(T, ord, t, L.next[t])
      BY <2>1, <3>1 DEF SuccIs
    <3> QED BY <2>3, <3>2, <1>1
  <2> QED BY <2>2, <2>3
<1>8. ASSUME NEW t \in T PROVE PredIs(T, ord, t, M.prev[t])
  <2>1. PredIs(S, ord, t, L.prev[t])
    BY DEF Sorted
  <2>2. CASE t = n
    <3>1. n \in S /\ ord[s] < ord[n] /\ \A u \in S : ord[u] <= ord[s] \/ ord[n] <= ord[u]
      BY <2>2, <1>2, EndsAreNoSlots DEF SuccIs
    <3>2. \A u \in T : ord[u] < ord[s] \/ ord[n] <= ord[u]
      BY <3>1, <1>3, <1>4
    <3>3. PredIs(T, ord, n, p)
      <4>1. CASE p = LIST_END
        <5>1. \A u \in T : ord[n] <= ord[u]
          BY <4>1, <3>2, <1>2, <1>3 DEF PredIs
        <5> QED BY <4>1, <5>1 DEF PredIs
      <4>2. CASE p # LIST_END
        <5>1. p \in S /\ ord[p] < ord[s] /\ \A u \in S : ord[u] <= ord[p] \/ ord[s] <= ord[u]
          BY <4>2, <1>2 DEF PredIs
        <5>2. p \in T /\ ord[p] < ord[n]
          BY <5>1, <3>1, <1>3
        <5>3. \A u \in T : ord[u] <= ord[p] \/ ord[n] <= ord[u]
          BY <5>1, <3>2, <1>3
        <5> QED BY <4>2, <5>2, <5>3 DEF PredIs
      <4> QED BY <4>1, <4>2
    <3> QED BY <2>2, <3>3, <1>1
  <2>3. CASE t # n
    <3>1. L.prev[t] # s
      <4>1. CASE L.prev[t] = s
        <5>1. ord[s] < ord[t] /\ \A u \in S : ord[u] <= ord[s] \/ ord[t] <= ord[u]
          BY <4>1, <2>1, EndsAreNoSlots DEF PredIs
        <5>2. n \in S /\ ord[s] < ord[n] /\ (ord[t] <= ord[s] \/ ord[n] <= ord[t])
          BY <5>1, <1>2, <1>3 DEF SuccIs
        <5>3. ord[n] = ord[t]
          BY <5>1, <5>2, <1>3
        <5> QED BY <5>2, <5>3, <2>3, <1>4
      <4> QED BY <4>1
    <3>2. PredIs(T, ord, t, L.prev[t])
      BY <2>1, <3>1 DEF PredIs
    <3> QED BY <2>3, <3>2, <1>1
  <2> QED BY <2>2, <2>3
<1> QED BY <1>4, <1>5, <1>6, <1>7, <1>8 DEF Sorted, M

\* mob_list_maj of an element that gets the greatest number.
LEMMA MajSorted ==
  ASSUME NEW L \in Lists, NEW S \in SUBSET Slots, NEW s \in S,
         NEW ord \in [Slots -> Nat], NEW ord2 \in [Slots -> Nat],
         Sorted(L, S, ord),
         \A t \in S \ {s} : ord2[t] = ord[t] /\ ord2[t] < ord2[s]
  PROVE  Sorted(ListMaj(L, s), S, ord2)
<1>1. L.prev[s] # LIST_INIT
  BY EndsAreNoSlots DEF Sorted, PredIs
<1> DEFINE M == ListRemove(L, s)
           T == S \ {s}
<1>2. Sorted(M, T, ord) /\ M \in Lists
  BY RemoveSorted, ListsClosed
<1> HIDE DEF M
<1>3. Sorted(M, T, ord2)
  BY <1>2, SortedOrder
<1>4. Sorted(ListAddEnd(M, s), T \cup {s}, ord2)
  BY <1>2, <1>3, AddEndSorted
<1>5. T \cup {s} = S
  OBVIOUS
<1> QED BY <1>1, <1>4, <1>5 DEF ListMaj, M

\* mob_list_init and mob_list_maj of a slot that was not on the list: what a
\* new route goes through.
LEMMA NewSorted ==
  ASSUME NEW L \in Lists, NEW S \in SUBSET Slots, NEW s \in Slots \ S,
         NEW ord \in [Slots -> Nat], NEW ord2 \in [Slots -> Nat],
         Sorted(L, S, ord),
         \A t \in S : ord2[t] = ord[t] /\ ord2[t] < ord2[s]
  PROVE  Sorted(ListMaj(ListInit(L, s), s), S \cup {s}, ord2)
<1> DEFINE M == ListInit(L, s)
<1>1. M \in Lists /\ M.prev[s] = LIST_INIT
  <2>1. M \in Lists
    BY ListsClosed
  <2>2. M.prev[s] = LIST_INIT
    BY DEF ListInit, Lists
  <2> QED BY <2>1, <2>2
<1>2. Sorted(M, S, ord)
  BY InitSorted
<1> HIDE DEF M
<1>3. Sorted(M, S, ord2)
  BY <1>1, <1>2, SortedOrder
<1>4. Sorted(ListAddEnd(M, s), S \cup {s}, ord2)
  BY <1>1, <1>3, AddEndSorted
<1> QED BY <1>1, <1>4 DEF ListMaj, M

-----------------------------------------------------------------------------
(* Links that stay within a set of slots, on a damaged list too *)

Closed(L, P) ==
  /\ L.min \in P \cup {LIST_END}
  /\ L.max \in P \cup {LIST_END}
  /\ \A s \in P : L.next[s] \in P \cup {LIST_END} /\ L.prev[s] \in P \cup {LIST_END}

\* Removing a slot of the set leaves every link in it.
LEMMA RemoveClosed ==
  ASSUME NEW L \in SettledLists, NEW P \in SUBSET Slots, NEW s \in P, Closed(L, P)
  PROVE  Closed(ListRemove(L, s), P)
<1> DEFINE p == L.prev[s]
           n == L.next[s]
           R == ListRemove(L, s)
<1>1. p \in P \cup {LIST_END} /\ n \in P \cup {LIST_END}
  BY DEF Closed
<1>2. /\ R.prev = SetLink(L.prev, n, p) /\ R.next = SetLink(L.next, p, n)
      /\ R.min \in {n, L.min} /\ R.max \in {p, L.max}
  BY DEF ListRemove
<1>3. /\ L.prev \in [Slots -> Ends] /\ L.next \in [Slots -> Ends]
      /\ \A t \in P : L.prev[t] \in P \cup {LIST_END} /\ L.next[t] \in P \cup {LIST_END}
      /\ L.min \in P \cup {LIST_END} /\ L.max \in P \cup {LIST_END}
  BY DEF Closed, SettledLists
<1> HIDE DEF p, n, R
<1>4. \A t \in P : R.prev[t] \in {L.prev[t], p} /\ R.next[t] \in {L.next[t], n}
  BY <1>2, <1>3 DEF SetLink
<1>5. Closed(R, P)
  BY <1>1, <1>2, <1>3, <1>4 DEF Closed
<1> QED BY <1>5 DEF R

\* So does appending one.
LEMMA AddEndClosed ==
  ASSUME NEW L \in Lists, NEW P \in SUBSET Slots, NEW s \in P,
         L.min \in P \cup {LIST_END}, L.max \in P \cup {LIST_END},
         \A t \in P \ {s} : /\ L.next[t] \in P \cup {LIST_END}
                            /\ L.prev[t] \in P \cup {LIST_END}
  PROVE  Closed(ListAddEnd(L, s), P)
<1> DEFINE R == ListAddEnd(L, s)
<1>1. /\ R.prev = SetLink(L.prev, s, L.max)
      /\ R.next = SetLink(SetLink(L.next, L.max, s), s, LIST_END)
      /\ R.min \in {s, L.min} /\ R.max = s
  BY DEF ListAddEnd
<1>2. /\ L.prev \in [Slots -> Links] /\ L.next \in [Slots -> Links]
      /\ s \in Slots
  BY DEF Lists
<1> HIDE DEF R
<1>3. \A t \in P : R.prev[t] \in IF t = s THEN {L.max} ELSE {L.prev[t]}
  BY <1>1, <1>2 DEF SetLink
<1>4. \A t \in P : R.next[t] \in IF t = s THEN {LIST_END} ELSE {L.next[t], s}
  BY <1>1, <1>2 DEF SetLink
<1>5. ASSUME NEW t \in P
      PROVE R.next[t] \in P \cup {LIST_END} /\ R.prev[t] \in P \cup {LIST_END}
  <2>1. CASE t = s
    BY <2>1, <1>3, <1>4
  <2>2. CASE t # s
    <3>1. L.next[t] \in P \cup {LIST_END} /\ L.prev[t] \in P \cup {LIST_END}
      BY <2>2
    <3> QED BY <2>2, <3>1, <1>3, <1>4
  <2> QED BY <2>1, <2>2
<1>6. Closed(R, P)
  BY <1>1, <1>5 DEF Closed
<1> QED BY <1>6 DEF R

\* mob_list_maj of a slot of the set, and of one that was just handed out.
LEMMA MajClosed ==
  ASSUME NEW L \in SettledLists, NEW P \in SUBSET Slots, NEW s \in P, Closed(L, P)
  PROVE  Closed(ListMaj(L, s), P)
<1>1. L.prev[s] # LIST_INIT
  BY EndsAreNoSlots DEF SettledLists, Ends
<1>2. ListMaj(L, s) = ListAddEnd(ListRemove(L, s), s)
  BY <1>1 DEF ListMaj
<1>3. Closed(ListRemove(L, s), P)
  BY RemoveClosed
<1>4. ListRemove(L, s) \in Lists
  BY SettledClosed, ListsClosed
<1> HIDE DEF ListMaj
<1> QED BY <1>2, <1>3, <1>4, AddEndClosed DEF Closed

LEMMA EnterClosed ==
  ASSUME NEW L \in SettledLists, NEW P \in SUBSET Slots, NEW s \in Slots, Closed(L, P)
  PROVE  Closed(ListMaj(ListInit(L, s), s), P \cup {s})
<1> DEFINE M == ListInit(L, s)
<1>1. L \in Lists
  BY SettledClosed
<1>2. M \in Lists /\ M.prev[s] = LIST_INIT
  <2>1. M \in Lists
    BY <1>1, ListsClosed
  <2>2. M.prev = [L.prev EXCEPT ![s] = LIST_INIT] /\ L.prev \in [Slots -> Links]
    BY <1>1 DEF ListInit, Lists
  <2> QED BY <2>1, <2>2
<1>3. /\ M.min = L.min /\ M.max = L.max
      /\ \A t \in Slots \ {s} : M.next[t] = L.next[t] /\ M.prev[t] = L.prev[t]
  BY <1>1 DEF ListInit, Lists
<1> HIDE DEF M
<1>4. ListMaj(M, s) = ListAddEnd(M, s)
  BY <1>2 DEF ListMaj
<1>5. \A t \in (P \cup {s}) \ {s} :
         /\ M.next[t] \in (P \cup {s}) \cup {LIST_END}
         /\ M.prev[t] \in (P \cup {s}) \cup {LIST_END}
  BY <1>3 DEF Closed
<1>6. /\ P \cup {s} \in SUBSET Slots /\ s \in P \cup {s}
      /\ M.min \in (P \cup {s}) \cup {LIST_END} /\ M.max \in (P \cup {s}) \cup {LIST_END}
  BY <1>3 DEF Closed
<1>7. Closed(ListAddEnd(M, s), P \cup {s})
  BY <1>2, <1>5, <1>6, AddEndClosed
<1> QED BY <1>4, <1>7 DEF M

=============================================================================
