------------------------------- MODULE OutList -------------------------------
(***************************************************************************)
(* The list of local nodes that mobility.c threads through the slots of    *)
(* the routing table (uip_ds6_routing_table): every slot has prev_seq and  *)
(* next_seq, and min_out_seq / max_out_seq are its two ends.  The updates  *)
(* to the other gateways are built by walking it from min_out_seq, so it   *)
(* must hold exactly the local nodes, in the order of their sequence       *)
(* numbers.                                                                *)
(*                                                                         *)
(* A list is a record [prev, next, min, max].  The operators translate     *)
(* mob_list_init, mob_list_add_end, mob_list_remove and mob_list_maj.      *)
(***************************************************************************)
EXTENDS Integers

CONSTANT NB     \* UIP_DS6_ROUTE_NB, the number of slots (100 in the code)

ASSUME NBAssumption == NB \in Nat \ {0}

Slots == 0 .. NB - 1

\* Two values that no slot has: 65535 and 65534 in the code.
LIST_END  == -1
LIST_INIT == -2

Links == Slots \cup {LIST_END, LIST_INIT}

Lists == [prev : [Slots -> Links], next : [Slots -> Links],
          min : Links, max : Links]

\* Links that were all set, or never touched since the table was zeroed.
Ends == Slots \cup {LIST_END}

SettledLists == [prev : [Slots -> Ends], next : [Slots -> Ends],
                 min : Ends, max : Ends]

\* mob_init on a zeroed table: nothing on the list, links still 0.
EmptyList == [prev |-> [s \in Slots |-> 0], next |-> [s \in Slots |-> 0],
              min |-> LIST_END, max |-> LIST_END]

-----------------------------------------------------------------------------
\* Writing through a link; LIST_END and LIST_INIT are no slots.
SetLink(f, i, v) == IF i \in Slots THEN [f EXCEPT ![i] = v] ELSE f

\* The slot is on no list.
ListInit(L, s) ==
  [L EXCEPT !.prev[s] = LIST_INIT, !.next[s] = LIST_INIT]

\* Mutant: the new element does not point back.
ListAddEndOneWay(L, s) ==
  [prev |-> L.prev,
   next |-> SetLink(SetLink(L.next, L.max, s), s, LIST_END),
   min  |-> IF L.max = LIST_END THEN s ELSE L.min,
   max  |-> s]

\* Append at max; the first element is the minimum too.
ListAddEnd(L, s) ==
  [prev |-> SetLink(L.prev, s, L.max),
   next |-> SetLink(SetLink(L.next, L.max, s), s, LIST_END),
   min  |-> IF L.max = LIST_END THEN s ELSE L.min,
   max  |-> s]

\* Mutant: the last element stays max_out_seq when it is removed.
ListRemoveKeepsMax(L, s) ==
  LET p == L.prev[s]
      n == L.next[s]
  IN [prev |-> SetLink(L.prev, n, p),
      next |-> SetLink(L.next, p, n),
      min  |-> IF p = LIST_END THEN n ELSE L.min,
      max  |-> L.max]

\* Unlink: the neighbours are joined, an end that was s moves to its
\* neighbour.  The links of s itself are left as they are.
ListRemove(L, s) ==
  LET p == L.prev[s]
      n == L.next[s]
  IN [prev |-> SetLink(L.prev, n, p),
      next |-> SetLink(L.next, p, n),
      min  |-> IF p = LIST_END THEN n ELSE L.min,
      max  |-> IF n = LIST_END THEN p ELSE L.max]

\* A slot whose links were ever set is taken for a member of the list.
ListMaj(L, s) ==
  ListAddEnd(IF L.prev[s] # LIST_INIT THEN ListRemove(L, s) ELSE L, s)

-----------------------------------------------------------------------------
(***************************************************************************)
(* What the list has to be: its elements are exactly the slots of S, in    *)
(* the strict order of ord (the sequence numbers).                         *)
(***************************************************************************)
FirstIs(S, ord, m) ==
  IF m = LIST_END THEN S = {}
  ELSE m \in S /\ \A t \in S : ord[m] <= ord[t]

LastIs(S, ord, m) ==
  IF m = LIST_END THEN S = {}
  ELSE m \in S /\ \A t \in S : ord[t] <= ord[m]

SuccIs(S, ord, s, n) ==
  IF n = LIST_END THEN \A t \in S : ord[t] <= ord[s]
  ELSE /\ n \in S
       /\ ord[s] < ord[n]
       /\ \A t \in S : ord[t] <= ord[s] \/ ord[n] <= ord[t]

PredIs(S, ord, s, p) ==
  IF p = LIST_END THEN \A t \in S : ord[s] <= ord[t]
  ELSE /\ p \in S
       /\ ord[p] < ord[s]
       /\ \A t \in S : ord[t] <= ord[p] \/ ord[s] <= ord[t]

Sorted(L, S, ord) ==
  /\ \A s, t \in S : ord[s] = ord[t] => s = t
  /\ FirstIs(S, ord, L.min)
  /\ LastIs(S, ord, L.max)
  /\ \A s \in S : SuccIs(S, ord, s, L.next[s]) /\ PredIs(S, ord, s, L.prev[s])

=============================================================================
