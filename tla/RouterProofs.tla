----------------------------- MODULE RouterProofs -----------------------------
(***************************************************************************)
(* Safety of the router's table (NodeTable, of which Router is an          *)
(* extension) and of its binding updates, for every number of slots,       *)
(* nodes, backups, deletion records and unanswered updates, every window,  *)
(* lifetime, network and bound.                                            *)
(***************************************************************************)
EXTENDS Router, OutListProofs, Lemmas

-----------------------------------------------------------------------------
(* The table: type correctness *)

\* The values a timer is given, and what a second makes of one.
LEMMA TimesInRange == /\ 0 \in 0 .. Lifetime
                      /\ Lifetime \in 0 .. Lifetime
                      /\ DaoTimeout \in 0 .. Lifetime
                      /\ \A r \in 0 .. Lifetime : Elapse(r) \in 0 .. Lifetime
  BY TimesAssumption DEF Elapse

\* The first free deletion slot is one of the buffer's.
LEMMA TombstoneType ==
  ASSUME NEW d \in Deletes, NEW n \in Addresses, NEW k \in Nat, TypeOK
  PROVE  [deleted EXCEPT ![d] = [used |-> TRUE, addr |-> n, seq |-> k]]
           \in [Deletes -> Tombstones]
  BY DEF TypeOK, Tombstones

\* mob_lost_node keeps the types of what it changes.
LEMMA LostNodeType ==
  ASSUME TypeOK, NEW s \in Slots, LostNode(s)
  PROVE  /\ kernel' \in SUBSET Addresses
         /\ out' \in SettledLists
         /\ deleted' \in [Deletes -> Tombstones]
         /\ next_out' \in Nat
<1>1. kernel' \in SUBSET Addresses
  BY DEF LostNode, TypeOK
<1>2. out' \in SettledLists
  BY SettledClosed DEF LostNode, TypeOK
<1>3. next_out' \in Nat
  BY DEF LostNode, TypeOK
<1>4. deleted' \in [Deletes -> Tombstones]
  <2>1. ipaddr[s] \in Addresses /\ next_out \in Nat
    BY DEF TypeOK
  <2>2. CASE UNCHANGED deleted
    BY <2>2 DEF TypeOK
  <2>3. ASSUME NEW d \in Deletes,
               deleted' = [deleted EXCEPT ![d] =
                 [used |-> TRUE, addr |-> ipaddr[s], seq |-> next_out]]
        PROVE  deleted' \in [Deletes -> Tombstones]
    BY <2>1, <2>3, TombstoneType
  <2> QED BY <2>2, <2>3 DEF LostNode
<1> QED BY <1>1, <1>2, <1>3, <1>4

\* So does the entry of a new route.
LEMMA EnterType ==
  ASSUME TypeOK, NEW n \in Nodes, NEW s \in Slots,
         Enter(n, s, ListInit(out, s), next_out)
  PROVE  /\ isused' \in [Slots -> BOOLEAN]
         /\ ipaddr' \in [Slots -> Addresses]
         /\ learned_from' \in [Slots -> {"INTERNAL", "DAO"}]
         /\ remaining' \in [Slots -> 0 .. Lifetime]
         /\ seq' \in [Slots -> Nat]
         /\ out' \in SettledLists
         /\ next_out' \in Nat
<1>1. out' \in SettledLists
  BY SettledClosed DEF Enter, TypeOK
<1>2. remaining' \in [Slots -> 0 .. Lifetime]
  BY TimesInRange DEF Enter, TypeOK
<1> QED BY <1>1, <1>2 DEF Enter, TypeOK, Addresses

\* The zeroed table is well typed.
LEMMA TypeInit == Init => TypeOK
<1> SUFFICES ASSUME Init PROVE TypeOK
  OBVIOUS
<1>1. NB - 1 \in Slots /\ 0 \in Slots
  BY NBAssumption DEF Slots
<1>2. out \in SettledLists
  BY <1>1 DEF Init, EmptyList, SettledLists, Ends
<1>3. remaining \in [Slots -> 0 .. Lifetime]
  BY TimesAssumption DEF Init
<1>4. deleted \in [Deletes -> Tombstones]
  BY DEF Init, Tombstones, Addresses
<1> QED BY <1>2, <1>3, <1>4 DEF Init, TypeOK, Addresses, Ends

\* A step of the table keeps every variable in its type.
LEMMA TypeStep == TypeOK /\ [Next]_vars => TypeOK'
<1> SUFFICES ASSUME TypeOK, [Next]_vars PROVE TypeOK'
  OBVIOUS
<1> USE DEF slots, loop, ghost
<1>1. ASSUME NEW n \in Nodes, DaoRefresh(n) PROVE TypeOK'
  <2>1. PICK s \in SlotsOf(n) :
          /\ remaining' = [remaining EXCEPT ![s] = Lifetime]
          /\ out' = ListMaj(out, s)
          /\ seq' = [seq EXCEPT ![s] = next_out]
    BY <1>1 DEF DaoRefresh
  <2>2. s \in Slots
    BY DEF SlotsOf
  <2>3. out' \in SettledLists
    BY <2>1, <2>2, SettledClosed DEF TypeOK
  <2>4. remaining' \in [Slots -> 0 .. Lifetime]
    BY <2>1, TimesInRange DEF TypeOK
  <2>5. seq' \in [Slots -> Nat] /\ next_out' \in Nat
    <3>1. next_out' = next_out + 1 /\ next_out \in Nat
      BY <1>1 DEF TypeOK, DaoRefresh
    <3>2. seq' \in [Slots -> Nat]
      BY <2>1, <3>1 DEF TypeOK
    <3>3. next_out' \in Nat
      BY <3>1
    <3> QED BY <3>2, <3>3
  <2> QED BY <1>1, <2>3, <2>4, <2>5 DEF DaoRefresh, TypeOK
<1>2. ASSUME NEW n \in Nodes, DaoReplace(n) PROVE TypeOK'
  <2>0. PICK s \in SlotsOf(n) : \E t \in Free \cup {s} : Replace(n, s, t)
    BY <1>2 DEF DaoReplace
  <2>1. PICK t \in Free \cup {s} : Replace(n, s, t)
    BY <2>0
  <2>2. s \in Slots /\ t \in Slots
    BY DEF SlotsOf, Free
  <2>3. out' \in SettledLists
    <3>1. ListRemove(out, s) \in SettledLists
      BY <2>2, SettledClosed DEF TypeOK
    <3> QED BY <2>1, <2>2, <3>1, SettledClosed DEF Replace
  <2>4. remaining' \in [Slots -> 0 .. Lifetime]
    BY <2>1, TimesInRange DEF TypeOK, Replace
  <2>5. seq' \in [Slots -> Nat] /\ next_out' \in Nat
    BY <2>1, <2>2 DEF TypeOK, Replace
  <2>6. deleted' \in [Deletes -> Tombstones]
    <3>1. n \in Addresses /\ next_out \in Nat
      BY DEF TypeOK, Addresses
    <3>2. CASE UNCHANGED deleted
      BY <3>2 DEF TypeOK
    <3>3. ASSUME NEW d \in Deletes,
                 deleted' = [deleted EXCEPT ![d] =
                   [used |-> TRUE, addr |-> n, seq |-> next_out]]
          PROVE  deleted' \in [Deletes -> Tombstones]
      BY <3>1, <3>3, TombstoneType
    <3> QED BY <2>1, <3>2, <3>3 DEF Replace
  <2>7. /\ isused' \in [Slots -> BOOLEAN]
        /\ ipaddr' \in [Slots -> Addresses]
        /\ learned_from' \in [Slots -> {"INTERNAL", "DAO"}]
    BY <2>1 DEF TypeOK, Addresses, Replace
  <2>8. kernel' \in SUBSET Addresses /\ UNCHANGED <<loop, ghost>>
    BY <1>2 DEF DaoReplace, TypeOK, Addresses
  <2> QED BY <2>3, <2>4, <2>5, <2>6, <2>7, <2>8 DEF TypeOK
<1>3. ASSUME NEW n \in Nodes, DaoNew(n) PROVE TypeOK'
  <2>1. PICK s \in Slots : Enter(n, s, ListInit(out, s), next_out)
    BY <1>3 DEF DaoNew, Free
  <2>2. kernel' \in SUBSET Addresses
    BY <1>3 DEF DaoNew, TypeOK, Addresses
  <2> QED BY <1>3, <2>1, <2>2, EnterType DEF DaoNew, TypeOK
<1>4. ASSUME NEW n \in Nodes, DaoEvict(n) PROVE TypeOK'
  <2>1. PICK s \in Slots : /\ Enter(n, s, ListInit(out, s), next_out)
                           /\ intact' = (intact /\ s \notin Live)
    BY <1>4 DEF DaoEvict
  <2>2. kernel' \in SUBSET Addresses /\ intact' \in BOOLEAN
    BY <1>4, <2>1 DEF DaoEvict, TypeOK, Addresses
  <2> QED BY <1>4, <2>1, <2>2, EnterType DEF DaoEvict, TypeOK
<1>5. ASSUME NEW n \in Nodes, NoPathDao(n) PROVE TypeOK'
  <2>1. remaining' \in [Slots -> 0 .. Lifetime]
    BY <1>5, TimesInRange DEF NoPathDao, TypeOK
  <2> QED BY <1>5, <2>1 DEF NoPathDao, TypeOK
<1>6. ASSUME NEW n \in Nodes, Lookup(n) PROVE TypeOK'
  <2>1. PICK s \in Slots : RouteRm(s) /\ LostNode(s)
    BY <1>6 DEF Lookup, SlotsOf
  <2> QED BY <1>6, <2>1, LostNodeType DEF Lookup, RouteRm, TypeOK
<1>7. CASE CheckStart
  BY <1>7 DEF CheckStart, TypeOK, SettledLists, Live
<1>8. CASE CheckKeep
  <2>1. cursor \in Slots
    BY <1>8 DEF CheckKeep, TypeOK, Ends
  <2> QED BY <1>8, <2>1 DEF CheckKeep, TypeOK, SettledLists
<1>9. CASE CheckDrop
  <2>1. cursor \in Slots
    BY <1>9 DEF CheckDrop, TypeOK, Ends
  <2>2. cursor' \in Ends
    BY <1>9, <2>1 DEF CheckDrop, TypeOK, SettledLists
  <2>3. isused' \in [Slots -> BOOLEAN]
    BY <1>9 DEF CheckDrop, RouteRm, TypeOK
  <2> QED BY <1>9, <2>1, <2>2, <2>3, LostNodeType DEF CheckDrop, TypeOK
<1>10. CASE CheckEnd
  BY <1>10 DEF CheckEnd, TypeOK
<1>11. CASE Tick
  <2>1. remaining' \in [Slots -> 0 .. Lifetime]
    <3>1. \A s \in Slots : remaining[s] \in 0 .. Lifetime
      BY DEF TypeOK
    <3>2. \A s \in Slots : Elapse(remaining[s]) \in 0 .. Lifetime
      BY <3>1, TimesInRange
    <3>3. remaining' = [s \in Slots |-> Elapse(remaining[s])]
      BY <1>11 DEF Tick
    <3> QED BY <3>2, <3>3
  <2> QED BY <1>11, <2>1 DEF Tick, TypeOK
<1>12. CASE Release
  <2>1. deleted' \in [Deletes -> Tombstones]
    <3>1. \A d \in Deletes : [deleted[d] EXCEPT !.used = FALSE] \in Tombstones
      BY DEF TypeOK, Tombstones
    <3>2. \A d \in Deletes : deleted[d] \in Tombstones
      BY DEF TypeOK
    <3>3. PICK D \in SUBSET Tombs :
            deleted' = [d \in Deletes |->
              IF d \in D THEN [deleted[d] EXCEPT !.used = FALSE] ELSE deleted[d]]
      BY <1>12 DEF Release
    <3> QED BY <3>1, <3>2, <3>3
  <2> QED BY <1>12, <2>1 DEF Release, TypeOK
<1>13. CASE UNCHANGED vars
  BY <1>13 DEF vars, TypeOK
<1> QED BY <1>1, <1>2, <1>3, <1>4, <1>5, <1>6, <1>7, <1>8, <1>9, <1>10,
           <1>11, <1>12, <1>13 DEF Next, Dao, CheckNext

\* Every step keeps every variable in its type; in particular every link of the
\* list stays a slot or the end mark, so no walk ever leaves the table.
THEOREM TypeCorrect == Spec => []TypeOK
  BY TypeInit, TypeStep, PTL DEF Spec

-----------------------------------------------------------------------------
(* The table: safety *)

\* What mob_lost_node of a local route that was just removed preserves.  If a
\* listed slot was recycled before, the slot may be anything.
LEMMA DropKeeps ==
  ASSUME TypeOK, TableInv,
         NEW s \in Slots, intact => s \in Live,
         RouteRm(s), LostNode(s),
         UNCHANGED <<ipaddr, learned_from, remaining, seq, intact>>
  PROVE  /\ Live' = Live \ {s}
         /\ LocalIsNode' /\ OneSlotPerAddress' /\ SeqsDistinct'
         /\ OutListSorted' /\ DeletionIsOlder' /\ KernelMatches'
<1>1. Live' = Live \ {s} /\ \A t \in Slots : isused'[t] => isused[t]
  BY DEF RouteRm, Live, TypeOK
<1>2. LocalIsNode' /\ OneSlotPerAddress'
  BY <1>1 DEF TableInv, LocalIsNode, OneSlotPerAddress
<1>3. \/ \E d \in Deletes :
           /\ d \notin Tombs
           /\ Tombs' = Tombs \cup {d}
           /\ deleted'[d].seq = next_out
           /\ deleted'[d].addr = ipaddr[s]
           /\ \A e \in Tombs : deleted'[e] = deleted[e]
           /\ next_out' = next_out + 1
      \/ Tombs' = Tombs /\ UNCHANGED <<deleted, next_out>>
  <2>1. ASSUME NEW d \in Deletes, FirstFreeDelete(d),
               deleted' = [deleted EXCEPT ![d] =
                 [used |-> TRUE, addr |-> ipaddr[s], seq |-> next_out]]
        PROVE  /\ d \notin Tombs
               /\ Tombs' = Tombs \cup {d}
               /\ deleted'[d].seq = next_out
               /\ deleted'[d].addr = ipaddr[s]
               /\ \A e \in Tombs : deleted'[e] = deleted[e]
    BY <2>1 DEF FirstFreeDelete, Tombs, TypeOK
  <2>2. ASSUME UNCHANGED <<deleted, next_out>> PROVE Tombs' = Tombs
    BY <2>2 DEF Tombs
  <2> QED BY <2>1, <2>2 DEF LostNode
<1>4. SeqsDistinct'
  <2>1. next_out \in Nat /\ \A t \in Slots : seq[t] \in Nat
    BY DEF TypeOK
  <2>2. /\ \A t \in Live : seq[t] < next_out /\ \A u \in Live : seq[t] = seq[u] => t = u
        /\ \A d \in Tombs :
             /\ deleted[d].seq < next_out
             /\ \A e \in Tombs : deleted[d].seq = deleted[e].seq => d = e
             /\ \A t \in Live : deleted[d].seq # seq[t]
    BY DEF TableInv, SeqsDistinct
  <2>3. \A d \in Tombs : deleted[d].seq \in Nat
    BY DEF TypeOK, Tombs, Tombstones
  <2>5. CASE Tombs' = Tombs /\ UNCHANGED <<deleted, next_out>>
    BY <2>2, <2>5, <1>1 DEF SeqsDistinct
  <2>6. ASSUME NEW d \in Deletes,
               d \notin Tombs,
               Tombs' = Tombs \cup {d},
               deleted'[d].seq = next_out,
               \A e \in Tombs : deleted'[e] = deleted[e],
               next_out' = next_out + 1
        PROVE  SeqsDistinct'
    <3>1. \A t \in Live' : /\ seq[t] < next_out'
                            /\ seq[t] < next_out
                            /\ \A u \in Live' : seq[t] = seq[u] => t = u
      BY <2>1, <2>2, <2>6, <1>1 DEF Live
    <3>2. \A e \in Tombs' : /\ deleted'[e].seq < next_out'
                             /\ \A t \in Live' : deleted'[e].seq # seq[t]
      BY <2>1, <2>2, <2>3, <2>6, <3>1, <1>1 DEF Live
    <3>3. \A e, f \in Tombs' : deleted'[e].seq = deleted'[f].seq => e = f
      BY <2>1, <2>2, <2>3, <2>6
    <3> QED BY <3>1, <3>2, <3>3 DEF SeqsDistinct
  <2> QED BY <1>3, <2>5, <2>6
<1>5. OutListSorted'
  <2> SUFFICES ASSUME intact PROVE Sorted(out', Live', seq)
    BY DEF OutListSorted
  <2>1. Sorted(out, Live, seq) /\ s \in Live
    BY DEF TableInv, OutListSorted
  <2>2. Live \in SUBSET Slots /\ out \in Lists /\ seq \in [Slots -> Nat]
    BY SettledClosed DEF Live, TypeOK
  <2>3. Sorted(ListRemove(out, s), Live \ {s}, seq)
    BY <2>1, <2>2, RemoveSorted
  <2> QED BY <2>3, <1>1 DEF LostNode
<1>6. DeletionIsOlder'
  <2> SUFFICES ASSUME intact, NEW d \in Tombs', NEW t \in Live',
                      deleted'[d].addr = ipaddr[t]
               PROVE  deleted'[d].seq < seq[t]
    BY DEF DeletionIsOlder
  <2>1. t \in Live /\ t # s /\ s \in Live
    BY <1>1
  <2>2. ipaddr[t] # ipaddr[s]
    BY <2>1 DEF TableInv, OneSlotPerAddress, Live
  <2>3. d \in Tombs /\ deleted'[d] = deleted[d]
    BY <2>2, <1>3
  <2> QED BY <2>1, <2>3 DEF TableInv, DeletionIsOlder
<1>7. KernelMatches'
  <2> SUFFICES ASSUME intact PROVE kernel' = {ipaddr[t] : t \in Live'}
    BY DEF KernelMatches
  <2>1. kernel = {ipaddr[t] : t \in Live} /\ s \in Live
    BY DEF TableInv, KernelMatches
  <2>2. kernel' = kernel \ {ipaddr[s]}
    BY DEF LostNode
  <2>3. \A t \in Live \ {s} : ipaddr[t] # ipaddr[s]
    BY <2>1 DEF TableInv, OneSlotPerAddress, Live
  <2> QED BY <2>1, <2>2, <2>3, <1>1
<1> QED BY <1>1, <1>2, <1>4, <1>5, <1>6, <1>7

\* What a new route in a slot that holds no local route preserves; if it did
\* hold one (a recycled slot), intact is over.
LEMMA EnterKeeps ==
  ASSUME TypeOK, TableInv,
         NEW n \in Nodes, NEW s \in Slots,
         SlotsOf(n) = {},
         Enter(n, s, ListInit(out, s), next_out),
         intact' => intact /\ s \notin Live,
         kernel' = kernel \cup {n},
         UNCHANGED deleted
  PROVE  /\ LocalIsNode' /\ OneSlotPerAddress' /\ SeqsDistinct'
         /\ OutListSorted' /\ DeletionIsOlder' /\ KernelMatches'
<1>1. /\ isused' = [isused EXCEPT ![s] = TRUE]
      /\ ipaddr' = [ipaddr EXCEPT ![s] = n]
      /\ learned_from' = [learned_from EXCEPT ![s] = "DAO"]
      /\ seq' = [seq EXCEPT ![s] = next_out]
      /\ out' = ListMaj(ListInit(out, s), s)
      /\ next_out' = next_out + 1
  BY DEF Enter
<1>2. /\ isused'[s] /\ ipaddr'[s] = n /\ learned_from'[s] = "DAO"
      /\ seq'[s] = next_out
      /\ \A t \in Slots \ {s} : /\ isused'[t] = isused[t]
                                /\ ipaddr'[t] = ipaddr[t]
                                /\ learned_from'[t] = learned_from[t]
                                /\ seq'[t] = seq[t]
  BY <1>1 DEF TypeOK
<1>3. Live' = Live \cup {s}
  BY <1>2 DEF Live
<1>4. Tombs' = Tombs
  BY DEF Tombs
<1>5. LocalIsNode'
  BY <1>2 DEF TableInv, LocalIsNode
<1>6. OneSlotPerAddress'
  <2>1. \A t \in Slots : isused[t] => ipaddr[t] # n
    BY DEF SlotsOf
  <2> QED BY <1>2, <2>1 DEF TableInv, OneSlotPerAddress
<1>7. SeqsDistinct'
  <2>1. \A t \in Live' : t # s => t \in Live /\ seq'[t] = seq[t]
    BY <1>2, <1>3 DEF Live
  <2>2. next_out \in Nat /\ next_out' = next_out + 1
    BY <1>1 DEF TypeOK
  <2>3. /\ \A t \in Live : seq[t] \in Nat /\ seq[t] < next_out
        /\ \A t, u \in Live : seq[t] = seq[u] => t = u
    BY DEF TableInv, SeqsDistinct, TypeOK, Live
  <2>4. \A d \in Tombs : deleted[d].seq \in Nat /\ deleted[d].seq < next_out
    BY DEF TableInv, SeqsDistinct, TypeOK, Tombs, Tombstones
  <2>5. \A t \in Live' : seq'[t] < next_out'
    BY <2>1, <2>2, <2>3, <1>2
  <2>6. \A t, u \in Live' : seq'[t] = seq'[u] => t = u
    BY <2>1, <2>2, <2>3, <1>2
  <2>7. \A d \in Tombs : \A t \in Live' : deleted[d].seq # seq'[t]
    BY <2>1, <2>2, <2>4, <1>2 DEF TableInv, SeqsDistinct
  <2>8. \A d \in Tombs : deleted[d].seq < next_out'
    BY <2>2, <2>4
  <2>9. \A d, e \in Tombs : deleted[d].seq = deleted[e].seq => d = e
    BY DEF TableInv, SeqsDistinct
  <2> QED BY <1>4, <2>5, <2>6, <2>7, <2>8, <2>9 DEF SeqsDistinct
<1>8. OutListSorted'
  <2> SUFFICES ASSUME intact' PROVE Sorted(out', Live', seq')
    BY DEF OutListSorted
  <2>1. Sorted(out, Live, seq) /\ s \in Slots \ Live
    BY DEF TableInv, OutListSorted
  <2>2. Live \in SUBSET Slots /\ out \in Lists /\ seq \in [Slots -> Nat]
    BY SettledClosed DEF Live, TypeOK
  <2>3. seq' \in [Slots -> Nat]
    BY <1>1 DEF TypeOK
  <2>4. \A t \in Live : seq'[t] = seq[t] /\ seq'[t] < seq'[s]
    BY <2>1, <2>2, <1>2 DEF TableInv, SeqsDistinct
  <2>5. Sorted(ListMaj(ListInit(out, s), s), Live \cup {s}, seq')
    BY <2>1, <2>2, <2>3, <2>4, NewSorted
  <2> QED BY <2>5, <1>1, <1>3
<1>9. DeletionIsOlder'
  <2> SUFFICES ASSUME intact', NEW d \in Tombs, NEW t \in Live',
                      deleted[d].addr = ipaddr'[t]
               PROVE  deleted[d].seq < seq'[t]
    BY <1>4 DEF DeletionIsOlder
  <2>1. CASE t = s
    BY <2>1, <1>2 DEF TableInv, SeqsDistinct
  <2>2. CASE t # s
    <3>1. t \in Live /\ ipaddr'[t] = ipaddr[t] /\ seq'[t] = seq[t]
      BY <2>2, <1>2, <1>3 DEF Live
    <3> QED BY <3>1 DEF TableInv, DeletionIsOlder
  <2> QED BY <2>1, <2>2
<1>10. KernelMatches'
  <2> SUFFICES ASSUME intact' PROVE kernel' = {ipaddr'[t] : t \in Live'}
    BY DEF KernelMatches
  <2>1. kernel = {ipaddr[t] : t \in Live} /\ s \notin Live
    BY DEF TableInv, KernelMatches
  <2>2. \A t \in Live : ipaddr'[t] = ipaddr[t]
    BY <2>1, <1>2 DEF Live
  <2> QED BY <2>1, <2>2, <1>2, <1>3
<1> QED BY <1>5, <1>6, <1>7, <1>8, <1>9, <1>10

\* A DAO of a node with a live route.
LEMMA RefreshKeeps ==
  ASSUME TypeOK, TableInv, NEW n \in Nodes, DaoRefresh(n)
  PROVE  TableInv'
<1>1. PICK s \in SlotsOf(n) :
        /\ remaining' = [remaining EXCEPT ![s] = Lifetime]
        /\ out' = ListMaj(out, s)
        /\ seq' = [seq EXCEPT ![s] = next_out]
  BY DEF DaoRefresh
<1>2. s \in Live /\ s \in Slots
  BY DEF SlotsOf, Live, TableInv, LocalIsNode
<1>3. /\ Live' = Live /\ Tombs' = Tombs
      /\ pc' = pc /\ pc = "idle" /\ intact' = intact
      /\ UNCHANGED <<isused, ipaddr, learned_from, deleted, kernel>>
      /\ next_out' = next_out + 1
  BY DEF DaoRefresh, DaoGuard, Live, Tombs, loop, ghost
<1>4. /\ seq'[s] = next_out
      /\ \A t \in Slots \ {s} : seq'[t] = seq[t]
      /\ seq' \in [Slots -> Nat]
      /\ next_out \in Nat
  BY <1>1, <1>2 DEF TypeOK
<1>5. Live \in SUBSET Slots /\ out \in Lists /\ seq \in [Slots -> Nat]
  BY SettledClosed, <1>2 DEF Live, TypeOK
<1>6. SeqsDistinct'
  <2>1. /\ \A t \in Live : seq[t] \in Nat /\ seq[t] < next_out
        /\ \A t, u \in Live : seq[t] = seq[u] => t = u
    BY <1>5 DEF TableInv, SeqsDistinct
  <2>2. \A d \in Tombs : deleted[d].seq \in Nat /\ deleted[d].seq < next_out
    BY DEF TableInv, SeqsDistinct, TypeOK, Tombs, Tombstones
  <2>3. \A t \in Live : seq'[t] < next_out'
    BY <2>1, <1>3, <1>4, <1>5
  <2>4. \A t, u \in Live : seq'[t] = seq'[u] => t = u
    BY <2>1, <1>4, <1>5
  <2>5. \A d \in Tombs : \A t \in Live : deleted[d].seq # seq'[t]
    BY <2>2, <1>4, <1>5 DEF TableInv, SeqsDistinct
  <2>6. \A d \in Tombs : deleted[d].seq < next_out'
    BY <2>2, <1>3, <1>4
  <2>7. \A d, e \in Tombs : deleted[d].seq = deleted[e].seq => d = e
    BY DEF TableInv, SeqsDistinct
  <2> QED BY <1>3, <2>3, <2>4, <2>5, <2>6, <2>7 DEF SeqsDistinct
<1>7. OutListSorted'
  <2> SUFFICES ASSUME intact PROVE Sorted(out', Live, seq')
    BY <1>3 DEF OutListSorted
  <2>1. Sorted(out, Live, seq)
    BY DEF TableInv, OutListSorted
  <2>2. \A t \in Live \ {s} : seq'[t] = seq[t] /\ seq'[t] < seq'[s]
    BY <1>4, <1>5 DEF TableInv, SeqsDistinct
  <2> QED BY <2>1, <2>2, <1>1, <1>2, <1>4, <1>5, MajSorted
<1>8. DeletionIsOlder'
  <2> SUFFICES ASSUME intact, NEW d \in Tombs, NEW t \in Live,
                      deleted[d].addr = ipaddr[t]
               PROVE  deleted[d].seq < seq'[t]
    BY <1>3 DEF DeletionIsOlder
  <2>1. CASE t = s
    BY <2>1, <1>4 DEF TableInv, SeqsDistinct
  <2>2. CASE t # s
    BY <2>2, <1>4, <1>5 DEF TableInv, DeletionIsOlder
  <2> QED BY <2>1, <2>2
<1>9. LocalIsNode' /\ OneSlotPerAddress' /\ KernelMatches'
  BY <1>3 DEF TableInv, LocalIsNode, OneSlotPerAddress, KernelMatches
<1>10. DueIsOver' /\ CheckSweeps'
  BY <1>3 DEF DueIsOver, CheckSweeps
<1> QED BY <1>6, <1>7, <1>8, <1>9, <1>10 DEF TableInv

\* A DAO of a node whose route is over: removal, deletion record and new route
\* in one step.
LEMMA ReplaceKeeps ==
  ASSUME TypeOK, TableInv, NEW n \in Nodes, DaoReplace(n)
  PROVE  TableInv'
<1>1. PICK s \in SlotsOf(n) : \E t \in Free \cup {s} : Replace(n, s, t)
  BY DEF DaoReplace
<1>2. PICK t \in Free \cup {s} : Replace(n, s, t)
  BY <1>1
<1> DEFINE S == Live \ {s}
<1>3. /\ s \in Live /\ s \in Slots /\ ipaddr[s] = n
      /\ t \in Slots /\ t \notin S
  BY DEF SlotsOf, Live, Free, TableInv, LocalIsNode
<1>4. /\ pc' = pc /\ pc = "idle" /\ intact' = intact
      /\ kernel' = kernel \cup {n}
  BY DEF DaoReplace, DaoGuard, loop, ghost
<1>5. /\ isused' = [isused EXCEPT ![s] = FALSE, ![t] = TRUE]
      /\ ipaddr' = [ipaddr EXCEPT ![t] = n]
      /\ learned_from' = [learned_from EXCEPT ![t] = "DAO"]
      /\ out' = ListMaj(ListInit(ListRemove(out, s), t), t)
  BY <1>2 DEF Replace
<1>6. /\ isused'[t] /\ ipaddr'[t] = n /\ learned_from'[t] = "DAO"
      /\ \A u \in Slots \ {t} : /\ isused'[u] = (isused[u] /\ u # s)
                                /\ ipaddr'[u] = ipaddr[u]
                                /\ learned_from'[u] = learned_from[u]
  BY <1>3, <1>5 DEF TypeOK
<1>7. Live' = S \cup {t}
  BY <1>3, <1>6 DEF Live
<1>8. /\ next_out \in Nat
      /\ \A u \in Slots : seq[u] \in Nat
      /\ seq' \in [Slots -> Nat]
      /\ \A u \in Slots \ {t} : seq'[u] = seq[u]
      /\ next_out' = seq'[t] + 1
      /\ seq'[t] >= next_out
  <2>1. seq \in [Slots -> Nat] /\ next_out \in Nat
    BY DEF TypeOK
  <2>2. ASSUME NEW k \in Nat, k >= next_out,
               seq' = [seq EXCEPT ![t] = k], next_out' = k + 1
        PROVE  /\ seq' \in [Slots -> Nat]
               /\ \A u \in Slots \ {t} : seq'[u] = seq[u]
               /\ next_out' = seq'[t] + 1
               /\ seq'[t] >= next_out
    BY <2>1, <2>2, <1>3
  <2>3. \/ seq' = [seq EXCEPT ![t] = next_out + 1] /\ next_out' = (next_out + 1) + 1
        \/ seq' = [seq EXCEPT ![t] = next_out] /\ next_out' = next_out + 1
    BY <2>1, <1>2 DEF Replace
  <2>4. next_out + 1 \in Nat /\ next_out + 1 >= next_out /\ next_out >= next_out
    BY <2>1
  <2> QED BY <2>1, <2>2, <2>3, <2>4
<1>9. \/ \E d \in Deletes :
           /\ d \notin Tombs
           /\ Tombs' = Tombs \cup {d}
           /\ deleted'[d].seq = next_out
           /\ seq'[t] > next_out
           /\ \A e \in Tombs : deleted'[e] = deleted[e]
      \/ Tombs' = Tombs /\ deleted' = deleted
  <2>1. ASSUME NEW d \in Deletes, FirstFreeDelete(d),
               deleted' = [deleted EXCEPT ![d] =
                 [used |-> TRUE, addr |-> n, seq |-> next_out]],
               seq' = [seq EXCEPT ![t] = next_out + 1]
        PROVE  /\ d \notin Tombs
               /\ Tombs' = Tombs \cup {d}
               /\ deleted'[d].seq = next_out
               /\ seq'[t] > next_out
               /\ \A e \in Tombs : deleted'[e] = deleted[e]
    <3>1. seq'[t] = next_out + 1
      BY <2>1, <1>3 DEF TypeOK
    <3>2. seq'[t] > next_out
      BY <3>1, <1>8
    <3> QED BY <2>1, <3>2 DEF FirstFreeDelete, Tombs, TypeOK
  <2>2. ASSUME UNCHANGED deleted PROVE Tombs' = Tombs /\ deleted' = deleted
    BY <2>2 DEF Tombs
  <2> QED BY <2>1, <2>2, <1>2 DEF Replace
<1>10. /\ \A u \in Live : seq[u] < next_out
       /\ \A u, v \in Live : seq[u] = seq[v] => u = v
       /\ \A d \in Tombs : deleted[d].seq \in Nat /\ deleted[d].seq < next_out
       /\ \A d, e \in Tombs : deleted[d].seq = deleted[e].seq => d = e
       /\ \A d \in Tombs : \A u \in Live : deleted[d].seq # seq[u]
  BY DEF TableInv, SeqsDistinct, TypeOK, Tombs, Tombstones
<1>11. \A u \in S : u \in Live /\ u \in Slots \ {t} /\ seq'[u] = seq[u]
  BY <1>3, <1>8 DEF Live
<1> HIDE DEF S
<1>12. SeqsDistinct'
  <2>1. \A u \in Live' : seq'[u] < next_out'
    BY <1>7, <1>8, <1>10, <1>11, <1>3
  <2>2. \A u, v \in Live' : seq'[u] = seq'[v] => u = v
    BY <1>7, <1>8, <1>10, <1>11, <1>3
  <2>3. \A e \in Tombs' : deleted'[e].seq < next_out'
    BY <1>3, <1>8, <1>9, <1>10
  <2>4. \A e, f \in Tombs' : deleted'[e].seq = deleted'[f].seq => e = f
    BY <1>8, <1>9, <1>10
  <2>5. \A e \in Tombs' : \A u \in Live' : deleted'[e].seq # seq'[u]
    BY <1>3, <1>7, <1>8, <1>9, <1>10, <1>11
  <2> QED BY <2>1, <2>2, <2>3, <2>4, <2>5 DEF SeqsDistinct
<1>13. OutListSorted'
  <2> SUFFICES ASSUME intact PROVE Sorted(out', Live', seq')
    BY <1>4 DEF OutListSorted
  <2> DEFINE M == ListRemove(out, s)
  <2>1. Sorted(out, Live, seq)
    BY DEF TableInv, OutListSorted
  <2>2. Live \in SUBSET Slots /\ out \in Lists /\ seq \in [Slots -> Nat]
    BY SettledClosed, <1>3 DEF Live, TypeOK
  <2>3. Sorted(M, S, seq) /\ M \in Lists
    BY <2>1, <2>2, <1>3, RemoveSorted, ListsClosed DEF S
  <2>4. S \in SUBSET Slots /\ t \in Slots \ S
    BY <2>2, <1>3 DEF S
  <2>5. \A u \in S : seq'[u] = seq[u] /\ seq'[u] < seq'[t]
    BY <1>3, <1>8, <1>10, <1>11
  <2> HIDE DEF M
  <2>6. Sorted(ListMaj(ListInit(M, t), t), S \cup {t}, seq')
    BY <2>2, <2>3, <2>4, <2>5, <1>8, NewSorted
  <2> QED BY <2>6, <1>5, <1>7 DEF M
<1>14. DeletionIsOlder'
  <2> SUFFICES ASSUME intact, NEW d \in Tombs', NEW u \in Live',
                      deleted'[d].addr = ipaddr'[u]
               PROVE  deleted'[d].seq < seq'[u]
    BY <1>4 DEF DeletionIsOlder
  <2>1. CASE u = t
    BY <2>1, <1>3, <1>8, <1>9, <1>10
  <2>2. CASE u # t
    <3>1. /\ u \in S /\ u \in Live /\ u # s /\ u \in Slots
          /\ ipaddr'[u] = ipaddr[u] /\ seq'[u] = seq[u]
      BY <2>2, <1>6, <1>7, <1>11 DEF S
    <3>2. ipaddr[u] # n
      BY <3>1, <1>3 DEF TableInv, OneSlotPerAddress, Live
    <3>3. d \in Tombs /\ deleted'[d] = deleted[d]
      <4>1. ASSUME d \notin Tombs PROVE deleted'[d].addr = n
        BY <4>1, <1>2 DEF Replace, Tombs, TypeOK
      <4> QED BY <4>1, <3>1, <3>2, <1>9
    <3> QED BY <3>1, <3>3 DEF TableInv, DeletionIsOlder
  <2> QED BY <2>1, <2>2
<1>15. LocalIsNode' /\ OneSlotPerAddress'
  <2>1. LocalIsNode'
    BY <1>3, <1>6 DEF TableInv, LocalIsNode
  <2>2. \A u \in Slots \ {t} : isused'[u] => ipaddr'[u] # n
    BY <1>3, <1>6 DEF TableInv, OneSlotPerAddress, Live
  <2>3. \A u, v \in Slots \ {t} :
           isused'[u] /\ isused'[v] /\ ipaddr'[u] = ipaddr'[v] => u = v
    BY <1>6 DEF TableInv, OneSlotPerAddress
  <2>4. OneSlotPerAddress'
    BY <2>2, <2>3, <1>6 DEF OneSlotPerAddress
  <2> QED BY <2>1, <2>4
<1>16. KernelMatches'
  <2> SUFFICES ASSUME intact PROVE kernel' = {ipaddr'[u] : u \in Live'}
    BY <1>4 DEF KernelMatches
  <2>1. kernel = {ipaddr[u] : u \in Live} /\ n \in kernel
    BY <1>3 DEF TableInv, KernelMatches
  <2>2. kernel' = {ipaddr[u] : u \in Live}
    BY <2>1, <1>4
  <2>3. \A u \in S : ipaddr'[u] = ipaddr[u]
    BY <1>11, <1>6
  <2>4. Live = S \cup {s}
    BY <1>3 DEF S
  <2> QED BY <2>2, <2>3, <2>4, <1>3, <1>6, <1>7
<1>17. DueIsOver' /\ CheckSweeps'
  BY <1>4 DEF DueIsOver, CheckSweeps
<1> QED BY <1>12, <1>13, <1>14, <1>15, <1>16, <1>17 DEF TableInv

\* Steps that leave the routes, the list and the numbers alone.
LEMMA FrameKeeps ==
  ASSUME TypeOK, TableInv,
         UNCHANGED <<isused, ipaddr, learned_from, seq, out, next_out,
                     kernel, intact>>,
         Tombs' \in SUBSET Tombs,
         \A d \in Tombs' : deleted'[d] = deleted[d]
  PROVE  /\ LocalIsNode' /\ OneSlotPerAddress' /\ SeqsDistinct'
         /\ OutListSorted' /\ DeletionIsOlder' /\ KernelMatches'
<1>1. Live' = Live
  BY DEF Live
<1>2. SeqsDistinct' /\ DeletionIsOlder'
  BY <1>1 DEF TableInv, SeqsDistinct, DeletionIsOlder
<1> QED BY <1>1, <1>2 DEF TableInv, LocalIsNode, OneSlotPerAddress,
                          OutListSorted, KernelMatches

\* The walk of mob_check_all_entry, from its first slot.
LEMMA StartKeeps ==
  ASSUME TypeOK, TableInv, CheckStart
  PROVE  TableInv'
<1>1. /\ LocalIsNode' /\ OneSlotPerAddress' /\ SeqsDistinct'
      /\ OutListSorted' /\ DeletionIsOlder' /\ KernelMatches'
  BY FrameKeeps DEF CheckStart, slots, Tombs
<1>2. DueIsOver'
  BY DEF CheckStart, DueIsOver, Expired, slots
<1>3. CheckSweeps'
  <2> SUFFICES ASSUME intact
               PROVE  /\ out.min \in Live \cup {LIST_END}
                      /\ \A s \in Live : out.min # LIST_END /\ seq[out.min] <= seq[s]
    BY DEF CheckSweeps, CheckStart, slots, Live, Expired
  <2>1. FirstIs(Live, seq, out.min)
    BY DEF TableInv, OutListSorted, Sorted
  <2> QED BY <2>1 DEF FirstIs
<1> QED BY <1>1, <1>2, <1>3 DEF TableInv

\* The successor of the cursor is the next local route, so what is due and not
\* before the cursor is not before its successor, the cursor itself apart.
LEMMA NextSweeps ==
  ASSUME TypeOK, TableInv, pc = "check", intact, cursor # LIST_END
  PROVE  LET n == out.next[cursor] IN
         /\ cursor \in Live
         /\ n \in (Live \ {cursor}) \cup {LIST_END}
         /\ \A s \in Live \cap due :
              s # cursor => n # LIST_END /\ seq[n] <= seq[s]
<1> DEFINE n == out.next[cursor]
<1>1. cursor \in Live /\ \A s \in Live \cap due : seq[cursor] <= seq[s]
  BY DEF TableInv, CheckSweeps
<1>2. SuccIs(Live, seq, cursor, n)
  BY <1>1 DEF TableInv, OutListSorted, Sorted
<1>3. \A s \in Live : seq[s] \in Nat
  BY DEF TypeOK, Live
<1>4. \A s, t \in Live : seq[s] = seq[t] => s = t
  BY DEF TableInv, SeqsDistinct
<1> HIDE DEF n
<1>5. CASE n = LIST_END
  <2>1. \A s \in Live \cap due : s = cursor
    BY <1>1, <1>2, <1>3, <1>4, <1>5 DEF SuccIs
  <2> QED BY <2>1, <1>1, <1>5 DEF n
<1>6. CASE n # LIST_END
  <2>1. /\ n \in Live /\ seq[cursor] < seq[n]
        /\ \A s \in Live : seq[s] <= seq[cursor] \/ seq[n] <= seq[s]
    BY <1>2, <1>6 DEF SuccIs
  <2>2. n # cursor
    BY <2>1, <1>3
  <2>3. \A s \in Live \cap due : s # cursor => seq[n] <= seq[s]
    BY <2>1, <1>1, <1>3, <1>4
  <2> QED BY <2>1, <2>2, <2>3, <1>1, <1>6 DEF n
<1> QED BY <1>5, <1>6

LEMMA KeepKeeps ==
  ASSUME TypeOK, TableInv, CheckKeep
  PROVE  TableInv'
<1>1. /\ LocalIsNode' /\ OneSlotPerAddress' /\ SeqsDistinct'
      /\ OutListSorted' /\ DeletionIsOlder' /\ KernelMatches'
  BY FrameKeeps DEF CheckKeep, slots, ghost, Tombs
<1>2. DueIsOver'
  BY DEF CheckKeep, TableInv, DueIsOver, slots, ghost
<1>3. CheckSweeps'
  <2> SUFFICES ASSUME intact
               PROVE  /\ cursor' \in Live \cup {LIST_END}
                      /\ \A s \in Live \cap due :
                           cursor' # LIST_END /\ seq[cursor'] <= seq[s]
    BY DEF CheckSweeps, CheckKeep, slots, ghost, Live
  <2>1. /\ pc = "check" /\ cursor # LIST_END /\ remaining[cursor] > 0
        /\ cursor' = out.next[cursor]
    BY DEF CheckKeep
  <2>2. cursor \notin due
    BY <2>1 DEF TableInv, DueIsOver
  <2> QED BY <2>1, <2>2, NextSweeps
<1> QED BY <1>1, <1>2, <1>3 DEF TableInv

LEMMA CheckDropKeeps ==
  ASSUME TypeOK, TableInv, CheckDrop
  PROVE  TableInv'
<1>1. /\ pc = "check" /\ pc' = pc /\ cursor # LIST_END
      /\ RouteRm(cursor) /\ LostNode(cursor)
      /\ cursor' = out.next[cursor]
      /\ UNCHANGED <<ipaddr, learned_from, remaining, seq, intact, due>>
  BY DEF CheckDrop, ghost
<1>2. cursor \in Slots /\ (intact => cursor \in Live)
  BY <1>1, NextSweeps DEF TypeOK, Ends
<1>3. /\ Live' = Live \ {cursor}
      /\ LocalIsNode' /\ OneSlotPerAddress' /\ SeqsDistinct'
      /\ OutListSorted' /\ DeletionIsOlder' /\ KernelMatches'
  BY <1>1, <1>2, DropKeeps
<1>4. DueIsOver'
  BY <1>1 DEF TableInv, DueIsOver
<1>5. CheckSweeps'
  <2> SUFFICES ASSUME intact
               PROVE  /\ cursor' \in Live' \cup {LIST_END}
                      /\ \A s \in Live' \cap due :
                           cursor' # LIST_END /\ seq[cursor'] <= seq[s]
    BY <1>1 DEF CheckSweeps
  <2> QED BY <1>1, <1>3, NextSweeps
<1> QED BY <1>3, <1>4, <1>5 DEF TableInv

\* Time passing cannot bring a timer back.
LEMMA TickKeeps ==
  ASSUME TypeOK, TableInv, Tick
  PROVE  TableInv'
<1>1. /\ LocalIsNode' /\ OneSlotPerAddress' /\ SeqsDistinct'
      /\ OutListSorted' /\ DeletionIsOlder' /\ KernelMatches'
  BY FrameKeeps DEF Tick, loop, ghost, Tombs
<1>2. DueIsOver'
  <2>1. \A s \in due : remaining[s] = 0 => remaining'[s] = 0
    BY DEF Tick, Elapse, TypeOK
  <2> QED BY <2>1 DEF Tick, loop, ghost, TableInv, DueIsOver
<1>3. CheckSweeps'
  BY DEF Tick, loop, ghost, Live, TableInv, CheckSweeps
<1> QED BY <1>1, <1>2, <1>3 DEF TableInv

-----------------------------------------------------------------------------
\* The initial table satisfies the invariant: the INTERNAL route is no node's.
LEMMA InitSafe == Init => TableInv
<1> SUFFICES ASSUME Init PROVE TableInv
  OBVIOUS
<1>1. Live = {} /\ Tombs = {}
  BY DEF Init, Live, Tombs
<1>2. LocalIsNode /\ OneSlotPerAddress
  BY NamesAssumption DEF Init, LocalIsNode, OneSlotPerAddress
<1>3. Sorted(out, {}, seq)
  BY DEF Init, EmptyList, Sorted, FirstIs, LastIs
<1>4. KernelMatches
  BY <1>1 DEF Init, KernelMatches
<1> QED BY <1>1, <1>2, <1>3, <1>4
        DEF TableInv, SeqsDistinct, OutListSorted, DeletionIsOlder,
            DueIsOver, CheckSweeps, Init

\* Every step preserves it.
LEMMA StepSafe == TypeOK /\ TableInv /\ [Next]_vars => TableInv'
<1> SUFFICES ASSUME TypeOK, TableInv, [Next]_vars PROVE TableInv'
  OBVIOUS
<1>1. ASSUME NEW n \in Nodes, DaoRefresh(n) PROVE TableInv'
  BY <1>1, RefreshKeeps
<1>2. ASSUME NEW n \in Nodes, DaoReplace(n) PROVE TableInv'
  BY <1>2, ReplaceKeeps
<1>3. ASSUME NEW n \in Nodes, DaoNew(n) PROVE TableInv'
  <2>1. PICK s \in Slots : s \notin Live /\ Enter(n, s, ListInit(out, s), next_out)
    BY <1>3 DEF DaoNew, Free, Live
  <2>2. /\ SlotsOf(n) = {} /\ kernel' = kernel \cup {n}
        /\ UNCHANGED <<deleted, pc, intact>> /\ pc = "idle"
    BY <1>3 DEF DaoNew, DaoGuard, loop, ghost
  <2>3. /\ LocalIsNode' /\ OneSlotPerAddress' /\ SeqsDistinct'
        /\ OutListSorted' /\ DeletionIsOlder' /\ KernelMatches'
    BY <2>1, <2>2, EnterKeeps
  <2> QED BY <2>2, <2>3 DEF TableInv, DueIsOver, CheckSweeps
<1>4. ASSUME NEW n \in Nodes, DaoEvict(n) PROVE TableInv'
  <2>1. PICK s \in Slots : /\ Enter(n, s, ListInit(out, s), next_out)
                           /\ intact' = (intact /\ s \notin Live)
    BY <1>4 DEF DaoEvict
  <2>2. /\ SlotsOf(n) = {} /\ kernel' = kernel \cup {n}
        /\ UNCHANGED <<deleted, pc>> /\ pc = "idle"
    BY <1>4 DEF DaoEvict, DaoGuard, loop
  <2>3. /\ LocalIsNode' /\ OneSlotPerAddress' /\ SeqsDistinct'
        /\ OutListSorted' /\ DeletionIsOlder' /\ KernelMatches'
    BY <2>1, <2>2, EnterKeeps
  <2> QED BY <2>2, <2>3 DEF TableInv, DueIsOver, CheckSweeps
<1>5. ASSUME NEW n \in Nodes, NoPathDao(n) PROVE TableInv'
  <2>1. /\ LocalIsNode' /\ OneSlotPerAddress' /\ SeqsDistinct'
        /\ OutListSorted' /\ DeletionIsOlder' /\ KernelMatches'
    BY <1>5, FrameKeeps DEF NoPathDao, loop, ghost, Tombs
  <2>2. pc = "idle" /\ pc' = pc
    BY <1>5 DEF NoPathDao, loop
  <2> QED BY <2>1, <2>2 DEF TableInv, DueIsOver, CheckSweeps
<1>6. ASSUME NEW n \in Nodes, Lookup(n) PROVE TableInv'
  <2>1. PICK s \in SlotsOf(n) : RouteRm(s) /\ LostNode(s)
    BY <1>6 DEF Lookup
  <2>2. s \in Slots /\ s \in Live
    BY DEF SlotsOf, Live, TableInv, LocalIsNode
  <2>3. /\ pc = "idle" /\ pc' = pc
        /\ UNCHANGED <<ipaddr, learned_from, remaining, seq, intact>>
    BY <1>6 DEF Lookup, loop, ghost
  <2>4. /\ LocalIsNode' /\ OneSlotPerAddress' /\ SeqsDistinct'
        /\ OutListSorted' /\ DeletionIsOlder' /\ KernelMatches'
    BY <2>1, <2>2, <2>3, DropKeeps
  <2> QED BY <2>3, <2>4 DEF TableInv, DueIsOver, CheckSweeps
<1>7. CASE CheckStart
  BY <1>7, StartKeeps
<1>8. CASE CheckKeep
  BY <1>8, KeepKeeps
<1>9. CASE CheckDrop
  BY <1>9, CheckDropKeeps
<1>10. CASE CheckEnd
  <2>1. /\ LocalIsNode' /\ OneSlotPerAddress' /\ SeqsDistinct'
        /\ OutListSorted' /\ DeletionIsOlder' /\ KernelMatches'
    BY <1>10, FrameKeeps DEF CheckEnd, slots, Tombs
  <2> QED BY <1>10, <2>1 DEF CheckEnd, TableInv, DueIsOver, CheckSweeps
<1>11. CASE Tick
  BY <1>11, TickKeeps
<1>12. CASE Release
  <2>1. /\ Tombs' \in SUBSET Tombs
        /\ \A d \in Tombs' : deleted'[d] = deleted[d]
    BY <1>12 DEF Release, Tombs, TypeOK, Tombstones
  <2>2. /\ LocalIsNode' /\ OneSlotPerAddress' /\ SeqsDistinct'
        /\ OutListSorted' /\ DeletionIsOlder' /\ KernelMatches'
    BY <1>12, <2>1, FrameKeeps DEF Release, slots, loop, ghost
  <2>3. pc = "idle" /\ pc' = pc
    BY <1>12 DEF Release, loop
  <2> QED BY <2>2, <2>3 DEF TableInv, DueIsOver, CheckSweeps
<1>13. CASE UNCHANGED vars
  <2>1. /\ LocalIsNode' /\ OneSlotPerAddress' /\ SeqsDistinct'
        /\ OutListSorted' /\ DeletionIsOlder' /\ KernelMatches'
    BY <1>13, FrameKeeps DEF vars, slots, loop, ghost, Tombs
  <2> QED BY <1>13, <2>1 DEF vars, slots, loop, ghost, TableInv, DueIsOver,
                             CheckSweeps, Live
<1> QED BY <1>1, <1>2, <1>3, <1>4, <1>5, <1>6, <1>7, <1>8, <1>9, <1>10,
           <1>11, <1>12, <1>13 DEF Next, Dao, CheckNext

\* The table's invariant holds in every behaviour.
THEOREM TableSafe == Spec => []TableInv
<1>1. Init => TableInv
  BY InitSafe
<1>2. TypeOK /\ TableInv /\ [Next]_vars => TableInv'
  BY StepSafe
<1> QED BY <1>1, <1>2, TypeCorrect, PTL DEF Spec

\* The list the updates are built from is the sorted list of the local routes.
THEOREM ListIsSorted == Spec => []OutListSorted
<1>1. TableInv => OutListSorted
  BY DEF TableInv
<1> QED BY <1>1, TableSafe, PTL

\* No address ever has two routes, recycled slots included.
THEOREM OneSlotEach == Spec => []OneSlotPerAddress
<1>1. TableInv => OneSlotPerAddress
  BY DEF TableInv
<1> QED BY <1>1, TableSafe, PTL

\* No two statements share a number, recycled slots included.
THEOREM SeqsAreDistinct == Spec => []SeqsDistinct
<1>1. TableInv => SeqsDistinct
  BY DEF TableInv
<1> QED BY <1>1, TableSafe, PTL

\* A deletion on record is older than a route of the same node.
THEOREM RouteIsLast == Spec => []DeletionIsOlder
<1>1. TableInv => DeletionIsOlder
  BY DEF TableInv
<1> QED BY <1>1, TableSafe, PTL

\* The kernel's mesh routes are the local routes.
THEOREM KernelFollows == Spec => []KernelMatches
<1>1. TableInv => KernelMatches
  BY DEF TableInv
<1> QED BY <1>1, TableSafe, PTL

\* The walk stays on the list and leaves nothing due behind.
THEOREM CheckIsComplete == Spec => []CheckSweeps
<1>1. TableInv => CheckSweeps
  BY DEF TableInv
<1> QED BY <1>1, TableSafe, PTL

-----------------------------------------------------------------------------
(* No node is lost without a word *)

\* A local route whose slot stays in use keeps its node in the table.
LEMMA StaysPresent ==
  ASSUME TypeOK, TableInv, NEW s \in Live,
         isused'[s], ipaddr'[s] = ipaddr[s]
  PROVE  ipaddr[s] \in Present'
<1>1. s \in Slots /\ ipaddr[s] \in Nodes
  BY DEF Live, TableInv, LocalIsNode
<1> QED BY <1>1 DEF Present, SlotsOf

\* mob_lost_node leaves a deletion, unless its buffer is full.
LEMMA LostIsRecorded ==
  ASSUME TypeOK, TableInv, NEW s \in Live, NEW t \in Slots,
         RouteRm(t), LostNode(t), UNCHANGED ipaddr,
         ipaddr[s] \notin Present'
  PROVE  \/ \E d \in Deletes : /\ ~deleted[d].used /\ deleted'[d].used
                               /\ deleted'[d].addr = ipaddr[s]
                               /\ deleted'[d].seq = next_out
         \/ Tombs = Deletes
<1>1. s = t
  <2> SUFFICES ASSUME s # t PROVE FALSE
    OBVIOUS
  <2>1. s \in Slots /\ isused[s]
    BY DEF Live
  <2>2. isused'[s] /\ ipaddr'[s] = ipaddr[s]
    BY <2>1 DEF RouteRm, TypeOK
  <2> QED BY <2>2, StaysPresent
<1>2. CASE \A d \in Deletes : deleted[d].used
  BY <1>2 DEF Tombs
<1>3. CASE ~\A d \in Deletes : deleted[d].used
  <2>1. PICK d \in Deletes :
          /\ FirstFreeDelete(d)
          /\ deleted' = [deleted EXCEPT ![d] =
               [used |-> TRUE, addr |-> ipaddr[t], seq |-> next_out]]
    BY <1>3 DEF LostNode
  <2> QED BY <2>1, <1>1 DEF FirstFreeDelete, TypeOK
<1> QED BY <1>2, <1>3

\* A DAO takes a local node from the table only when it recycles its slot.
LEMMA DaoLoses ==
  ASSUME TypeOK, TableInv, NEW m \in Nodes, Dao(m), NEW s \in Live, ipaddr[s] \notin Present'
  PROVE  Free = {} /\ s \in Expired /\ ~intact'
<1>1. s \in Slots /\ isused[s]
  BY DEF Live
<1>2. ~(isused'[s] /\ ipaddr'[s] = ipaddr[s])
  BY StaysPresent
<1>3. ASSUME UNCHANGED <<isused, ipaddr>> PROVE FALSE
  BY <1>1, <1>2, <1>3
<1>4. ASSUME NEW n \in Nodes, DaoReplace(n) PROVE FALSE
  <2>1. PICK o \in SlotsOf(n) : \E t \in Free \cup {o} : Replace(n, o, t)
    BY <1>4 DEF DaoReplace
  <2>2. PICK t \in Free \cup {o} : Replace(n, o, t)
    BY <2>1
  <2>3. t \in Slots /\ o \in Slots /\ ipaddr[o] = n /\ isused[o]
    BY DEF SlotsOf, Free
  <2>4. /\ isused' = [isused EXCEPT ![o] = FALSE, ![t] = TRUE]
        /\ ipaddr' = [ipaddr EXCEPT ![t] = n]
    BY <2>2 DEF Replace
  <2>5. CASE s = o
    <3>1. isused'[t] /\ ipaddr'[t] = n
      BY <2>3, <2>4 DEF TypeOK
    <3> QED BY <3>1, <2>3, <2>5 DEF Present, SlotsOf
  <2>6. CASE s # o
    <3>1. s # t
      BY <1>1, <2>2, <2>6 DEF Free
    <3> QED BY <3>1, <2>6, <1>1, <1>2, <2>3, <2>4 DEF TypeOK
  <2> QED BY <2>5, <2>6
<1>5. ASSUME NEW n \in Nodes, DaoNew(n) PROVE FALSE
  <2>1. PICK t \in Free : Enter(n, t, ListInit(out, t), next_out)
    BY <1>5 DEF DaoNew
  <2>2. t # s /\ t \in Slots
    BY <1>1 DEF Free
  <2> QED BY <2>1, <2>2, <1>1, <1>2 DEF Enter, TypeOK
<1>6. ASSUME NEW n \in Nodes, DaoEvict(n) PROVE Free = {} /\ s \in Expired /\ ~intact'
  <2>1. PICK t \in Slots : /\ FirstExpired(t)
                          /\ Enter(n, t, ListInit(out, t), next_out)
                          /\ intact' = (intact /\ t \notin Live)
    BY <1>6 DEF DaoEvict
  <2>2. t = s
    BY <2>1, <1>1, <1>2 DEF Enter, TypeOK
  <2> QED BY <1>6, <2>1, <2>2 DEF DaoEvict, FirstExpired
<1>7. CASE DaoRefresh(m)
  BY <1>3, <1>7 DEF DaoRefresh
<1> QED BY <1>4, <1>5, <1>6, <1>7 DEF Dao

\* A step that takes a local node from the table records it, or the buffer of
\* deletions was full, or it recycled the node's slot.
LEMMA LossStep ==
  ASSUME TypeOK, TableInv, [Next]_vars, NEW s \in Live, ipaddr[s] \notin Present'
  PROVE  \/ \E d \in Deletes : /\ ~deleted[d].used /\ deleted'[d].used
                               /\ deleted'[d].addr = ipaddr[s]
                               /\ deleted'[d].seq = next_out
         \/ Tombs = Deletes
         \/ Free = {} /\ s \in Expired /\ ~intact'
<1>1. s \in Slots /\ isused[s]
  BY DEF Live
<1>2. ~(isused'[s] /\ ipaddr'[s] = ipaddr[s])
  BY StaysPresent
<1>3. ASSUME UNCHANGED <<isused, ipaddr>> PROVE FALSE
  BY <1>1, <1>2, <1>3
<1>4. ASSUME NEW n \in Nodes, Dao(n) PROVE Free = {} /\ s \in Expired /\ ~intact'
  BY <1>4, DaoLoses
<1>7. ASSUME NEW t \in Slots, RouteRm(t), LostNode(t), UNCHANGED ipaddr
      PROVE  \/ \E d \in Deletes : /\ ~deleted[d].used /\ deleted'[d].used
                                   /\ deleted'[d].addr = ipaddr[s]
                                   /\ deleted'[d].seq = next_out
             \/ Tombs = Deletes
  BY <1>7, LostIsRecorded
<1>8. CASE \E n \in Nodes : Lookup(n)
  BY <1>8, <1>7 DEF Lookup, SlotsOf
<1>9. CASE CheckDrop
  BY <1>9, <1>7 DEF CheckDrop, TypeOK, Ends
<1>10. CASE \E n \in Nodes : NoPathDao(n)
  BY <1>3, <1>10 DEF NoPathDao
<1>11. CASE CheckStart \/ CheckKeep \/ CheckEnd \/ Tick \/ Release \/ UNCHANGED vars
  BY <1>3, <1>11 DEF CheckStart, CheckKeep, CheckEnd, Tick, Release, slots, vars
<1> QED BY <1>4, <1>8, <1>9, <1>10, <1>11 DEF Next, CheckNext

\* A local node disappears only with a deletion on record, unless the buffer of
\* deletions was full or its slot was recycled: mob_lost_node is called on every
\* path that frees a slot but that of a full table.
THEOREM LossIsRecorded == Spec => NoSilentLoss
<1> DEFINE Recorded ==
      \A s \in Live :
        ipaddr[s] \notin Present' =>
          \/ \E d \in Deletes : /\ ~deleted[d].used /\ deleted'[d].used
                               /\ deleted'[d].addr = ipaddr[s]
                               /\ deleted'[d].seq = next_out
          \/ Tombs = Deletes
          \/ Free = {} /\ s \in Expired
<1>1. TypeOK /\ TableInv /\ [Next]_vars => [Recorded]_vars
  BY LossStep
<1> QED BY <1>1, TypeCorrect, TableSafe, PTL DEF Spec, NoSilentLoss

-----------------------------------------------------------------------------
(* What a step does to the statements: the local routes and the deletions *)

\* A step that frees no deletion.
NodeStep ==
  \/ \E n \in Nodes : Dao(n) \/ NoPathDao(n) \/ Lookup(n)
  \/ CheckStart \/ CheckNext
  \/ Tick

\* Numbers only grow, and a damaged list stays damaged.
LEMMA NumbersGrow ==
  ASSUME TypeOK, [Next]_vars
  PROVE  next_out <= next_out' /\ (intact' => intact)
<1> USE DEF TypeOK, slots, loop, ghost
<1>1. ASSUME NEW n \in Nodes, Dao(n) PROVE next_out <= next_out' /\ (intact' => intact)
  <2>1. CASE DaoRefresh(n)
    BY <2>1 DEF DaoRefresh
  <2>2. CASE DaoReplace(n)
    BY <2>2 DEF DaoReplace, Replace
  <2>3. CASE DaoNew(n)
    BY <2>3 DEF DaoNew, Enter
  <2>4. CASE DaoEvict(n)
    BY <2>4 DEF DaoEvict, Enter
  <2> QED BY <1>1, <2>1, <2>2, <2>3, <2>4 DEF Dao
<1>2. CASE (\E n \in Nodes : Lookup(n)) \/ CheckDrop
  BY <1>2 DEF Lookup, CheckDrop, LostNode
<1>3. CASE (\E n \in Nodes : NoPathDao(n)) \/ CheckStart \/ CheckKeep \/ CheckEnd
           \/ Tick \/ Release \/ UNCHANGED vars
  BY <1>3 DEF NoPathDao, CheckStart, CheckKeep, CheckEnd, Tick, Release, vars
<1> QED BY <1>1, <1>2, <1>3 DEF Next, CheckNext

\* A local route with an old number was there before, for the same node.
LEMMA OldStatements ==
  ASSUME TypeOK, TableInv, [Next]_vars, NEW s \in Live', seq'[s] < next_out
  PROVE  s \in Live /\ seq'[s] = seq[s] /\ ipaddr'[s] = ipaddr[s]
<1>1. s \in Slots /\ isused'[s] /\ learned_from'[s] = "DAO" /\ next_out \in Nat
  BY DEF Live, TypeOK
<1> DEFINE Same == s \in Live /\ seq'[s] = seq[s] /\ ipaddr'[s] = ipaddr[s]
<1>2. ASSUME UNCHANGED slots PROVE Same
  BY <1>2 DEF slots, Live
<1>3. ASSUME NEW n \in Nodes, DaoRefresh(n) PROVE Same
  <2>1. PICK t \in SlotsOf(n) : seq' = [seq EXCEPT ![t] = next_out]
    BY <1>3 DEF DaoRefresh
  <2>2. s # t
    BY <2>1, <1>1 DEF TypeOK, SlotsOf
  <2> QED BY <1>3, <2>1, <2>2, <1>1 DEF DaoRefresh, Live, TypeOK
<1>4. ASSUME NEW n \in Nodes, DaoReplace(n) PROVE Same
  <2>1. PICK o \in SlotsOf(n) : \E t \in Free \cup {o} : Replace(n, o, t)
    BY <1>4 DEF DaoReplace
  <2>2. PICK t \in Free \cup {o} : Replace(n, o, t)
    BY <2>1
  <2>3. t \in Slots /\ o \in Slots
    BY DEF SlotsOf, Free
  <2>4. /\ isused' = [isused EXCEPT ![o] = FALSE, ![t] = TRUE]
        /\ ipaddr' = [ipaddr EXCEPT ![t] = n]
        /\ learned_from' = [learned_from EXCEPT ![t] = "DAO"]
        /\ (seq' = [seq EXCEPT ![t] = next_out + 1] \/ seq' = [seq EXCEPT ![t] = next_out])
    BY <2>2 DEF Replace
  <2>5. s # t
    BY <2>3, <2>4, <1>1 DEF TypeOK
  <2>6. s # o
    BY <2>3, <2>4, <2>5, <1>1 DEF TypeOK
  <2> QED BY <2>3, <2>4, <2>5, <2>6, <1>1 DEF Live, TypeOK
<1>5. ASSUME NEW t \in Slots, NEW n \in Nodes, Enter(n, t, ListInit(out, t), next_out)
      PROVE  Same
  <2>1. s # t
    BY <1>1, <1>5 DEF Enter, TypeOK
  <2> QED BY <1>1, <1>5, <2>1 DEF Enter, TypeOK, Live
<1>6. ASSUME NEW t \in Slots, RouteRm(t), UNCHANGED <<ipaddr, learned_from, seq>>
      PROVE  Same
  BY <1>1, <1>6 DEF RouteRm, TypeOK, Live
<1>7. CASE \E n \in Nodes : DaoNew(n) \/ DaoEvict(n)
  BY <1>5, <1>7 DEF DaoNew, DaoEvict, Free
<1>8. CASE (\E n \in Nodes : Lookup(n)) \/ CheckDrop
  BY <1>6, <1>8 DEF Lookup, CheckDrop, SlotsOf, TypeOK, Ends
<1>9. CASE (\E n \in Nodes : NoPathDao(n)) \/ Tick
  BY <1>9, <1>1 DEF NoPathDao, Tick, Live
<1>10. CASE CheckStart \/ CheckKeep \/ CheckEnd \/ Release \/ UNCHANGED vars
  BY <1>2, <1>10 DEF CheckStart, CheckKeep, CheckEnd, Release, vars
<1> QED BY <1>3, <1>4, <1>7, <1>8, <1>9, <1>10 DEF Next, Dao, CheckNext

\* A deletion on record after the step was there before, or its number is new.
LEMMA NewTombs ==
  ASSUME TypeOK, [Next]_vars, NEW d \in Tombs'
  PROVE  (d \in Tombs /\ deleted'[d] = deleted[d]) \/ deleted'[d].seq = next_out
<1>1. d \in Deletes /\ deleted'[d].used
  BY DEF Tombs
<1> DEFINE Noted == (d \in Tombs /\ deleted'[d] = deleted[d]) \/ deleted'[d].seq = next_out
<1>2. ASSUME UNCHANGED deleted PROVE Noted
  BY <1>1, <1>2 DEF Tombs
<1>3. ASSUME NEW e \in Deletes, NEW n \in Addresses,
             deleted' = [deleted EXCEPT ![e] =
               [used |-> TRUE, addr |-> n, seq |-> next_out]]
      PROVE  Noted
  BY <1>1, <1>3 DEF Tombs, TypeOK
<1>4. ASSUME NEW n \in Nodes, DaoReplace(n) PROVE Noted
  <2>1. PICK o \in SlotsOf(n), t \in Slots : Replace(n, o, t)
    BY <1>4 DEF DaoReplace, Free, SlotsOf
  <2> QED BY <2>1, <1>2, <1>3 DEF Replace, Addresses
<1>5. ASSUME NEW t \in Slots, LostNode(t) PROVE Noted
  <2>1. ipaddr[t] \in Addresses
    BY DEF TypeOK
  <2> QED BY <1>5, <2>1, <1>2, <1>3 DEF LostNode
<1>6. CASE Release
  BY <1>1, <1>6 DEF Release, Tombs, TypeOK, Tombstones
<1>7. CASE (\E n \in Nodes : Lookup(n)) \/ CheckDrop
  BY <1>5, <1>7 DEF Lookup, CheckDrop, SlotsOf, TypeOK, Ends
<1>8. CASE (\E n \in Nodes : DaoRefresh(n) \/ DaoNew(n) \/ DaoEvict(n) \/ NoPathDao(n))
           \/ CheckStart \/ CheckKeep \/ CheckEnd \/ Tick \/ UNCHANGED vars
  BY <1>2, <1>8 DEF DaoRefresh, DaoNew, DaoEvict, NoPathDao, CheckStart, CheckKeep,
                    CheckEnd, Tick, vars
<1> QED BY <1>4, <1>6, <1>7, <1>8 DEF Next, Dao, CheckNext

\* Only an acknowledgement frees a deletion.
LEMMA TombsStay ==
  ASSUME TypeOK, NodeStep \/ UNCHANGED vars, NEW d \in Tombs
  PROVE  d \in Tombs' /\ deleted'[d] = deleted[d]
<1>1. d \in Deletes /\ deleted[d].used
  BY DEF Tombs
<1> SUFFICES deleted'[d] = deleted[d]
  BY <1>1 DEF Tombs
<1>2. ASSUME NEW e \in Deletes, NEW v, FirstFreeDelete(e),
             deleted' = [deleted EXCEPT ![e] = v]
      PROVE  deleted'[d] = deleted[d]
  BY <1>1, <1>2 DEF FirstFreeDelete, TypeOK
<1>3. ASSUME NEW n \in Nodes, DaoReplace(n) PROVE deleted'[d] = deleted[d]
  <2>1. PICK o \in SlotsOf(n), t \in Slots : Replace(n, o, t)
    BY <1>3 DEF DaoReplace, Free, SlotsOf
  <2> QED BY <2>1, <1>2 DEF Replace
<1>4. ASSUME NEW t \in Slots, LostNode(t) PROVE deleted'[d] = deleted[d]
  BY <1>4, <1>2 DEF LostNode
<1>5. CASE (\E n \in Nodes : Lookup(n)) \/ CheckDrop
  BY <1>4, <1>5 DEF Lookup, CheckDrop, SlotsOf, TypeOK, Ends
<1>6. CASE (\E n \in Nodes : DaoRefresh(n) \/ DaoNew(n) \/ DaoEvict(n) \/ NoPathDao(n))
           \/ CheckStart \/ CheckKeep \/ CheckEnd \/ Tick \/ UNCHANGED vars
  BY <1>6 DEF DaoRefresh, DaoNew, DaoEvict, NoPathDao, CheckStart, CheckKeep,
              CheckEnd, Tick, vars
<1> QED BY <1>3, <1>5, <1>6 DEF NodeStep, Dao, CheckNext

-----------------------------------------------------------------------------
(* Every slot the list leads to was given a number, on a damaged list too *)

Numbered == {s \in Slots : 0 < seq[s]}

LinksNumbered ==
  /\ 0 < next_out
  /\ Live \subseteq Numbered
  /\ Closed(out, Numbered)
  /\ cursor \in Numbered \cup {LIST_END}

LEMMA NumberedInit == Init => LinksNumbered
  BY DEF Init, LinksNumbered, Numbered, Live, EmptyList, Closed

\* Entering a route numbers its slot.
LEMMA EnterNumbers ==
  ASSUME TypeOK, LinksNumbered, NEW n \in Nodes, NEW s \in Slots,
         Enter(n, s, ListInit(out, s), next_out)
  PROVE  /\ 0 < next_out'
         /\ Live' \subseteq Numbered'
         /\ Closed(out', Numbered')
         /\ Numbered \subseteq Numbered'
<1>1. next_out \in Nat /\ 0 < next_out /\ next_out' = next_out + 1
  BY DEF TypeOK, LinksNumbered, Enter
<1>2. Numbered' = Numbered \cup {s}
  BY <1>1 DEF Enter, Numbered, TypeOK
<1>3. Live' \subseteq Live \cup {s}
  BY DEF Enter, Live, TypeOK
<1>4. Closed(out', Numbered \cup {s})
  BY EnterClosed DEF Enter, LinksNumbered, TypeOK, Numbered
<1> QED BY <1>1, <1>2, <1>3, <1>4 DEF LinksNumbered

\* Losing one keeps the list within the numbered slots.
LEMMA LostNumbers ==
  ASSUME TypeOK, LinksNumbered, NEW s \in Numbered, RouteRm(s), LostNode(s),
         UNCHANGED <<learned_from, seq>>
  PROVE  /\ 0 < next_out'
         /\ Live' \subseteq Numbered'
         /\ Closed(out', Numbered')
         /\ Numbered' = Numbered
<1>1. Numbered' = Numbered /\ Live' \subseteq Live /\ s \in Slots
  BY DEF Numbered, Live, RouteRm, TypeOK
<1>2. 0 < next_out'
  BY DEF LostNode, LinksNumbered, TypeOK
<1>3. Closed(out', Numbered)
  BY RemoveClosed DEF LostNode, LinksNumbered, TypeOK, Numbered
<1> QED BY <1>1, <1>2, <1>3 DEF LinksNumbered

LEMMA NumberedStep ==
  ASSUME TypeOK, TableInv, LinksNumbered, [Next]_vars
  PROVE  LinksNumbered'
<1>1. next_out \in Nat /\ 0 < next_out /\ seq \in [Slots -> Nat]
  BY DEF TypeOK, LinksNumbered
<1>2. \A n \in Nodes : \A s \in SlotsOf(n) : s \in Live /\ s \in Numbered
  BY DEF SlotsOf, Live, TableInv, LocalIsNode, LinksNumbered
<1>3. ASSUME NEW n \in Nodes, DaoRefresh(n) PROVE LinksNumbered'
  <2>1. PICK s \in SlotsOf(n) : /\ out' = ListMaj(out, s)
                                /\ seq' = [seq EXCEPT ![s] = next_out]
    BY <1>3 DEF DaoRefresh
  <2>2. s \in Numbered
    BY <1>2
  <2>3. Numbered' = Numbered
    BY <1>1, <2>1, <2>2 DEF Numbered
  <2>4. Closed(out', Numbered)
    BY <2>1, <2>2, MajClosed DEF LinksNumbered, TypeOK, Numbered
  <2> QED BY <1>1, <1>3, <2>3, <2>4 DEF DaoRefresh, LinksNumbered, Live, loop
<1>4. ASSUME NEW n \in Nodes, DaoReplace(n) PROVE LinksNumbered'
  <2>1. PICK s \in SlotsOf(n), t \in Slots : Replace(n, s, t)
    BY <1>4 DEF DaoReplace, Free, SlotsOf
  <2>2. /\ isused' = [isused EXCEPT ![s] = FALSE, ![t] = TRUE]
        /\ out' = ListMaj(ListInit(ListRemove(out, s), t), t)
        /\ \/ seq' = [seq EXCEPT ![t] = next_out + 1] /\ next_out' = next_out + 2
           \/ seq' = [seq EXCEPT ![t] = next_out] /\ next_out' = next_out + 1
        /\ learned_from' = [learned_from EXCEPT ![t] = "DAO"]
        /\ UNCHANGED cursor
    BY <1>4, <2>1 DEF Replace, DaoReplace, loop
  <2>3. s \in Numbered /\ s \in Slots
    BY <1>2 DEF SlotsOf
  <2>4. Numbered' = Numbered \cup {t} /\ 0 < next_out'
    BY <1>1, <2>2 DEF Numbered
  <2>5. Live' \subseteq Live \cup {t}
    BY <2>2, <2>3 DEF Live, TypeOK
  <2>6. ListRemove(out, s) \in SettledLists /\ Closed(ListRemove(out, s), Numbered)
    BY <2>3, SettledClosed, RemoveClosed DEF TypeOK, LinksNumbered, Numbered
  <2>7. Closed(out', Numbered \cup {t})
    BY <2>2, <2>6, EnterClosed DEF Numbered
  <2> QED BY <2>2, <2>4, <2>5, <2>7 DEF LinksNumbered
<1>5. ASSUME NEW n \in Nodes, DaoNew(n) \/ DaoEvict(n) PROVE LinksNumbered'
  <2>1. PICK s \in Slots : Enter(n, s, ListInit(out, s), next_out)
    BY <1>5 DEF DaoNew, DaoEvict, Free
  <2>2. UNCHANGED cursor
    BY <1>5 DEF DaoNew, DaoEvict, loop
  <2> QED BY <2>1, <2>2, EnterNumbers DEF LinksNumbered
<1>6. ASSUME NEW n \in Nodes, Lookup(n) PROVE LinksNumbered'
  <2>1. PICK s \in SlotsOf(n) : RouteRm(s) /\ LostNode(s)
    BY <1>6 DEF Lookup
  <2>2. s \in Numbered
    BY <1>2
  <2> QED BY <1>6, <2>1, <2>2, LostNumbers DEF Lookup, loop, LinksNumbered
<1>7. CASE CheckDrop
  <2>1. cursor \in Numbered /\ RouteRm(cursor) /\ LostNode(cursor)
    BY <1>7 DEF CheckDrop, LinksNumbered
  <2>2. out.next[cursor] \in Numbered \cup {LIST_END}
    BY <2>1 DEF LinksNumbered, Closed
  <2> QED BY <1>7, <2>1, <2>2, LostNumbers DEF CheckDrop, LinksNumbered
<1>8. CASE CheckStart
  BY <1>8 DEF CheckStart, LinksNumbered, Closed, Numbered, Live, slots
<1>9. CASE CheckKeep
  BY <1>9 DEF CheckKeep, LinksNumbered, Closed, Numbered, Live, slots
<1>10. CASE (\E n \in Nodes : NoPathDao(n)) \/ CheckEnd \/ Tick \/ Release \/ UNCHANGED vars
  BY <1>10 DEF NoPathDao, CheckEnd, Tick, Release, vars, slots, loop, LinksNumbered,
               Numbered, Live
<1> QED BY <1>3, <1>4, <1>5, <1>6, <1>7, <1>8, <1>9, <1>10 DEF Next, Dao, CheckNext

-----------------------------------------------------------------------------
(* The operators an update is built with *)

\* The walk over the list: the first element is out.min, every other the
\* successor of the one before, until LIST_END.
NextOf(s) == IF s = LIST_END THEN LIST_END ELSE out.next[s]

LEMMA ChainIs ==
  ASSUME TypeOK
  PROVE  /\ Chain \in [1 .. NB -> Ends]
         /\ Chain[1] = out.min
         /\ \A k \in 2 .. NB : Chain[k] = NextOf(Chain[k - 1])
<1> DEFINE h == [i \in 1 .. NB - 1 |-> [x \in Ends |-> NextOf(x)]]
           Body(c) == [k \in 1 .. NB |->
                         IF k = 1 THEN out.min
                         ELSE IF c[k - 1] = LIST_END THEN LIST_END
                         ELSE out.next[c[k - 1]]]
<1>1. \A x \in Ends : NextOf(x) \in Ends
  BY DEF TypeOK, SettledLists, Ends, NextOf
<1>2. NB - 1 \in Nat /\ NB \in Nat /\ out.min \in Ends
  BY NBAssumption DEF TypeOK, SettledLists
<1>3. h \in [1 .. NB - 1 -> [Ends -> Ends]]
  BY <1>1
<1>4. PICK g \in Runs(Ends, out.min, h, NB - 1) : TRUE
  <2>1. NB - 1 \in 0 .. NB - 1
    BY <1>2
  <2>2. Runs(Ends, out.min, h, NB - 1) # {}
    BY <1>2, <1>3, <2>1, RunsExist
  <2> QED BY <2>2
<1>5. /\ g \in [0 .. NB - 1 -> Ends] /\ g[0] = out.min
      /\ \A i \in 1 .. NB - 1 : g[i] = NextOf(g[i - 1])
  <2>1. /\ g \in [0 .. NB - 1 -> Ends] /\ g[0] = out.min
        /\ \A i \in 1 .. NB - 1 : g[i] = h[i][g[i - 1]]
    BY <1>4 DEF Runs
  <2>2. ASSUME NEW i \in 1 .. NB - 1 PROVE h[i][g[i - 1]] = NextOf(g[i - 1])
    <3>1. g[i - 1] \in Ends
      BY <2>1, <1>2
    <3> QED BY <3>1
  <2> QED BY <2>1, <2>2
<1> HIDE DEF h
<1> DEFINE f == [k \in 1 .. NB |-> g[k - 1]]
<1>6. f = Body(f)
  <2>1. ASSUME NEW k \in 1 .. NB PROVE f[k] = Body(f)[k]
    <3>1. CASE k = 1
      BY <3>1, <1>5
    <3>2. CASE k # 1
      <4>1. k - 1 \in 1 .. NB - 1 /\ k - 1 \in 1 .. NB /\ k - 1 - 1 \in 0 .. NB - 1
        BY <3>2, <1>2
      <4>2. f[k] = NextOf(g[k - 1 - 1]) /\ f[k - 1] = g[k - 1 - 1]
        BY <4>1, <1>5
      <4> QED BY <4>2, <3>2 DEF NextOf
    <3> QED BY <3>1, <3>2
  <2> QED BY <2>1
<1> HIDE DEF f
<1>7. Chain = Body(Chain)
  BY <1>6 DEF Chain
<1>8. 1 \in 1 .. NB /\ Chain[1] = out.min
  BY <1>7, <1>2
<1>9. ASSUME NEW k \in 2 .. NB PROVE Chain[k] = NextOf(Chain[k - 1])
  <2>1. k \in 1 .. NB /\ k # 1
    BY <1>2
  <2> QED BY <2>1, <1>7 DEF NextOf
<1> HIDE DEF Body
<1>10. \A k \in 1 .. NB : Chain[k] \in Ends
  <2> DEFINE T == {k \in 1 .. NB : Chain[k] \in Ends}
  <2>1. 1 \in T
    BY <1>8, <1>2
  <2>2. ASSUME NEW k \in 2 .. NB, k - 1 \in T PROVE k \in T
    BY <2>2, <1>9, <1>1
  <2> HIDE DEF T
  <2>3. \A k \in 1 .. NB : k \in T
    BY <2>1, <2>2, <1>2, IntervalInduction
  <2> QED BY <2>3 DEF T
<1>11. Chain \in [1 .. NB -> Ends]
  BY <1>7, <1>10 DEF Body
<1> QED BY <1>8, <1>9, <1>11

\* On a sorted list the walk meets every local route once, by growing numbers.
LEMMA ChainSorted ==
  ASSUME TypeOK, Sorted(out, Live, seq)
  PROVE  /\ \A k \in 1 .. NB : Chain[k] \in Live \cup {LIST_END}
         /\ \A j, k \in 1 .. NB :
              j < k /\ Chain[k] # LIST_END =>
                Chain[j] # LIST_END /\ seq[Chain[j]] < seq[Chain[k]]
         /\ \A s \in Live : \E k \in 1 .. NB : Chain[k] = s
<1> DEFINE C == Chain
<1>0. /\ C \in [1 .. NB -> Ends] /\ C[1] = out.min
      /\ \A k \in 2 .. NB : C[k] = NextOf(C[k - 1])
  BY ChainIs
<1> HIDE DEF C
<1>1. /\ NB \in Nat /\ 1 \in 1 .. NB /\ NB - 1 \in Nat
      /\ Live \subseteq Slots /\ LIST_END \notin Live
      /\ \A s \in Live : seq[s] \in Nat
  BY NBAssumption, EndsAreNoSlots DEF Live, TypeOK
<1>2. /\ \A s, t \in Live : seq[s] = seq[t] => s = t
      /\ FirstIs(Live, seq, out.min)
      /\ \A s \in Live : SuccIs(Live, seq, s, out.next[s])
  BY DEF Sorted
<1>3. \A k \in 1 .. NB : C[k] \in Live \cup {LIST_END}
  <2> DEFINE T == {k \in 1 .. NB : C[k] \in Live \cup {LIST_END}}
  <2>1. 1 \in T
    BY <1>0, <1>1, <1>2 DEF FirstIs
  <2>2. ASSUME NEW k \in 2 .. NB, k - 1 \in T PROVE k \in T
    BY <2>2, <1>0, <1>1, <1>2 DEF NextOf, SuccIs
  <2> HIDE DEF T
  <2>3. \A k \in 1 .. NB : k \in T
    BY <2>1, <2>2, <1>1, IntervalInduction
  <2> QED BY <2>3 DEF T
<1>4. \A j, k \in 1 .. NB :
         j < k /\ C[k] # LIST_END => C[j] # LIST_END /\ seq[C[j]] < seq[C[k]]
  <2> DEFINE T == {k \in 1 .. NB : \A j \in 1 .. NB :
                     j < k /\ C[k] # LIST_END => C[j] # LIST_END /\ seq[C[j]] < seq[C[k]]}
  <2>1. 1 \in T
    BY <1>1
  <2>2. ASSUME NEW k \in 2 .. NB, k - 1 \in T PROVE k \in T
    <3> SUFFICES ASSUME NEW j \in 1 .. NB, j < k, C[k] # LIST_END
                 PROVE  C[j] # LIST_END /\ seq[C[j]] < seq[C[k]]
      BY <1>1
    <3>1. k - 1 \in 1 .. NB /\ k \in 1 .. NB
      BY <1>1
    <3>2. C[k - 1] # LIST_END /\ C[k] = out.next[C[k - 1]]
      BY <1>0 DEF NextOf
    <3>3. C[k - 1] \in Live /\ C[k] \in Live
      BY <1>3, <3>1, <3>2
    <3>4. seq[C[k - 1]] < seq[C[k]]
      BY <1>2, <3>2, <3>3 DEF SuccIs
    <3>5. CASE j = k - 1
      BY <3>2, <3>4, <3>5
    <3>6. CASE j < k - 1
      <4>1. C[j] # LIST_END /\ seq[C[j]] < seq[C[k - 1]]
        BY <2>2, <3>2, <3>6
      <4>2. C[j] \in Live
        BY <4>1, <1>3
      <4> QED BY <4>1, <4>2, <3>3, <3>4, <1>1
    <3> QED BY <3>5, <3>6
  <2> HIDE DEF T
  <2>3. \A k \in 1 .. NB : k \in T
    BY <2>1, <2>2, <1>1, IntervalInduction
  <2> QED BY <2>3 DEF T
<1>5. ASSUME NEW s \in Live PROVE \E k \in 1 .. NB : C[k] = s
  <2> SUFFICES ASSUME \A k \in 1 .. NB : C[k] # s PROVE FALSE
    OBVIOUS
  <2> DEFINE T == {k \in 1 .. NB : C[k] \in Live /\ seq[C[k]] < seq[s]}
  <2>1. 1 \in T
    <3>1. C[1] \in Live /\ seq[C[1]] <= seq[s]
      BY <1>0, <1>2 DEF FirstIs
    <3> QED BY <3>1, <1>1, <1>2
  <2>2. ASSUME NEW k \in 2 .. NB, k - 1 \in T PROVE k \in T
    <3>1. k \in 1 .. NB /\ C[k - 1] \in Live /\ seq[C[k - 1]] < seq[s]
      BY <2>2, <1>1
    <3>2. C[k] = out.next[C[k - 1]]
      BY <3>1, <1>0, <1>1 DEF NextOf
    <3>3. SuccIs(Live, seq, C[k - 1], C[k])
      BY <3>1, <3>2, <1>2
    <3>4. C[k] \in Live /\ seq[C[k]] <= seq[s]
      BY <3>1, <3>3, <1>1 DEF SuccIs
    <3>5. seq[C[k]] # seq[s]
      BY <3>1, <3>4, <1>2
    <3> QED BY <3>1, <3>4, <3>5, <1>1
  <2> HIDE DEF T
  <2>3. \A k \in 1 .. NB : k \in T
    BY <2>1, <2>2, <1>1, IntervalInduction
  <2> DEFINE Rest == Slots \ {s}
  <2>4. C \in [1 .. NB -> Rest]
    BY <2>3, <1>0, <1>1 DEF T
  <2>5. IsFiniteSet(1 .. NB) /\ Cardinality(1 .. NB) = NB
    <3>1. 1 \in Int /\ NB \in Int /\ NB >= 1
      BY <1>1
    <3>2. /\ IsFiniteSet(1 .. NB)
          /\ Cardinality(1 .. NB) = IF 1 > NB THEN 0 ELSE NB - 1 + 1
      BY <3>1, FS_Interval
    <3> QED BY <3>1, <3>2
  <2>6. IsFiniteSet(Slots) /\ Cardinality(Slots) = NB
    BY <1>1, FS_Interval DEF Slots
  <2>7. IsFiniteSet(Rest) /\ Cardinality(Rest) = NB - 1
    BY <2>6, <1>1, FS_RemoveElement
  <2> HIDE DEF Rest
  <2>8. PICK j \in 1 .. NB, k \in 1 .. NB : j # k /\ C[j] = C[k]
    BY <2>4, <2>5, <2>7, <1>1, FS_PigeonHole
  <2>9. C[j] # LIST_END /\ seq[C[j]] \in Nat
    BY <2>3, <1>1 DEF T
  <2>10. j < k \/ k < j
    BY <2>8, <1>1
  <2> QED BY <2>8, <2>9, <2>10, <1>4, <1>1
<1> QED BY <1>3, <1>4, <1>5 DEF C

LEMMA FromIs ==
  ASSUME TypeOK, NEW n \in Nat
  PROVE  From(n) \in SUBSET Nat /\ From(n) \subseteq 1 .. NB + 1 /\ NB + 1 \in From(n)
  BY NBAssumption DEF From

\* The stretch of the chain an update walks over.
LEMMA WalkIs ==
  ASSUME TypeOK, NEW from \in Nat, NEW to \in Nat
  PROVE  \E i, j \in 1 .. NB + 1 :
           /\ Walk(from, to) = SubSeq(Chain, i, j - 1)
           /\ i <= j
           /\ \A k \in 1 .. NB : k \in From(from) => i <= k
           /\ j \in From(to + 1)
           /\ \A k \in i .. j - 1 : k \in 1 .. NB /\ k \notin From(to + 1)
<1> DEFINE i == Min(From(from))
           F == {j \in From(to + 1) : j >= i}
           j == Min(F)
<1>1. From(from) \in SUBSET Nat /\ From(from) \subseteq 1 .. NB + 1 /\ NB + 1 \in From(from)
  BY FromIs
<1>2. to + 1 \in Nat /\ NB \in Nat
  BY NBAssumption
<1>3. /\ From(to + 1) \in SUBSET Nat /\ From(to + 1) \subseteq 1 .. NB + 1
      /\ NB + 1 \in From(to + 1)
  BY <1>2, FromIs
<1>4. i \in From(from) /\ \A k \in From(from) : i <= k
  BY <1>1, MinIs
<1> HIDE DEF i
<1>5. F \in SUBSET Nat /\ NB + 1 \in F
  BY <1>1, <1>2, <1>3, <1>4
<1>6. j \in F /\ \A k \in F : j <= k
  BY <1>5, MinIs
<1> HIDE DEF j
<1>7. i \in 1 .. NB + 1 /\ j \in 1 .. NB + 1 /\ i <= j /\ j \in From(to + 1)
  BY <1>1, <1>3, <1>4, <1>6
<1>8. ASSUME NEW k \in i .. j - 1 PROVE k \in 1 .. NB /\ k \notin From(to + 1)
  BY <1>2, <1>6, <1>7
<1>9. Walk(from, to) = SubSeq(Chain, i, j - 1)
  BY DEF Walk, i, j
<1> QED BY <1>4, <1>7, <1>8, <1>9

\* It holds slots only.
LEMMA WalkType ==
  ASSUME TypeOK, NEW from \in Nat, NEW to \in Nat
  PROVE  Walk(from, to) \in Seq(Slots)
<1>1. PICK i \in 1 .. NB + 1, j \in 1 .. NB + 1 :
         /\ Walk(from, to) = SubSeq(Chain, i, j - 1)
         /\ i <= j
         /\ \A k \in i .. j - 1 : k \in 1 .. NB /\ k \notin From(to + 1)
  BY WalkIs
<1>2. Chain \in [1 .. NB -> Ends] /\ NB \in Nat
  BY ChainIs, NBAssumption
<1>3. \A k \in i .. j - 1 : Chain[k] \in Slots
  BY <1>1, <1>2 DEF From, Ends
<1>4. Chain \in Seq(Ends) /\ Len(Chain) = NB
  BY <1>2
<1> DEFINE W == SubSeq(Chain, i, j - 1)
<1>5. W \in Seq(Ends) /\ Len(W) = j - i /\ \A k \in 1 .. j - i : W[k] = Chain[i + k - 1]
  BY <1>1, <1>2, <1>4
<1> HIDE DEF W
<1>6. \A k \in 1 .. Len(W) : W[k] \in Slots
  <2>1. ASSUME NEW k \in 1 .. j - i PROVE i + k - 1 \in i .. j - 1
    BY <1>1
  <2> QED BY <2>1, <1>3, <1>5
<1>7. W \in Seq(Slots)
  BY <1>5, <1>6
<1> QED BY <1>1, <1>7 DEF W

\* On a sorted list it holds local routes only, and misses none whose number is
\* beyond from and not beyond to.
LEMMA WalkFinds ==
  ASSUME TypeOK, Sorted(out, Live, seq), NEW from \in Nat, NEW to \in Nat
  PROVE  /\ \A k \in 1 .. Len(Walk(from, to)) : Walk(from, to)[k] \in Live
         /\ \A s \in Live : from < seq[s] /\ seq[s] <= to =>
              \E k \in 1 .. Len(Walk(from, to)) : Walk(from, to)[k] = s
<1>1. PICK i \in 1 .. NB + 1, j \in 1 .. NB + 1 :
         /\ Walk(from, to) = SubSeq(Chain, i, j - 1)
         /\ i <= j
         /\ \A k \in 1 .. NB : k \in From(from) => i <= k
         /\ j \in From(to + 1)
         /\ \A k \in i .. j - 1 : k \in 1 .. NB /\ k \notin From(to + 1)
  BY WalkIs
<1>2. Chain \in [1 .. NB -> Ends] /\ NB \in Nat
  BY ChainIs, NBAssumption
<1>3. Chain \in Seq(Ends) /\ Len(Chain) = NB
  BY <1>2
<1> DEFINE W == SubSeq(Chain, i, j - 1)
<1>4. Len(W) = j - i /\ \A k \in 1 .. j - i : W[k] = Chain[i + k - 1]
  BY <1>1, <1>2, <1>3
<1> HIDE DEF W
<1>5. ASSUME NEW k \in 1 .. Len(W) PROVE W[k] \in Live
  <2>1. i + k - 1 \in i .. j - 1 /\ W[k] = Chain[i + k - 1]
    BY <1>1, <1>4
  <2>2. i + k - 1 \in 1 .. NB /\ Chain[i + k - 1] # LIST_END
    BY <2>1, <1>1 DEF From
  <2> QED BY <2>1, <2>2, ChainSorted
<1>6. ASSUME NEW s \in Live, from < seq[s], seq[s] <= to
      PROVE  \E k \in 1 .. Len(W) : W[k] = s
  <2>1. PICK n \in 1 .. NB : Chain[n] = s
    BY ChainSorted
  <2>2. s # LIST_END /\ seq[s] \in Nat
    BY EndsAreNoSlots DEF Live, TypeOK
  <2>3. i <= n
    BY <2>1, <1>1, <1>6 DEF From
  <2>4. n < j
    <3> SUFFICES ASSUME j <= n PROVE FALSE
      BY <1>2
    <3>1. j \in 1 .. NB
      BY <1>2
    <3>2. Chain[j] # LIST_END /\ seq[Chain[j]] <= seq[s]
      <4>1. CASE j = n
        BY <4>1, <2>1, <2>2
      <4>2. CASE j < n
        <5>1. Chain[j] # LIST_END /\ seq[Chain[j]] < seq[s]
          BY <4>2, <3>1, <2>1, <2>2, ChainSorted
        <5>2. Chain[j] \in Slots
          BY <5>1, <3>1, <1>2 DEF Ends
        <5>3. seq[Chain[j]] \in Nat
          BY <5>2 DEF TypeOK
        <5> QED BY <5>1, <5>3, <2>2
      <4> QED BY <4>1, <4>2, <1>2
    <3>3. Chain[j] \in Slots
      BY <3>1, <3>2, <1>2 DEF Ends
    <3>4. seq[Chain[j]] \in Nat
      BY <3>3 DEF TypeOK
    <3>5. seq[Chain[j]] > to + 1
      BY <1>1, <1>2, <3>1, <3>2 DEF From
    <3> QED BY <3>2, <3>4, <3>5, <1>6, <2>2
  <2>5. n - i + 1 \in 1 .. Len(W) /\ W[n - i + 1] = Chain[n]
    BY <2>3, <2>4, <1>2, <1>4
  <2> QED BY <2>1, <2>5
<1> QED BY <1>1, <1>5, <1>6 DEF W

\* The options of an update, and what joining two makes of them.
Said(q) == {q[k] : k \in DOMAIN q}

LEMMA SaidBoth ==
  ASSUME NEW S, NEW p \in Seq(S), NEW q \in Seq(S)
  PROVE  Said(p \o q) = Said(p) \cup Said(q) /\ Said(p) \in SUBSET S
<1> DEFINE r == p \o q
<1>1. /\ r \in Seq(S) /\ Len(r) = Len(p) + Len(q)
      /\ \A k \in 1 .. Len(p) : r[k] = p[k]
      /\ \A k \in 1 .. Len(q) : r[Len(p) + k] = q[k]
  OBVIOUS
<1>2. /\ DOMAIN p = 1 .. Len(p) /\ DOMAIN q = 1 .. Len(q) /\ DOMAIN r = 1 .. Len(r)
      /\ Len(p) \in Nat /\ Len(q) \in Nat /\ Len(r) \in Nat
  BY <1>1
<1> HIDE DEF r
<1>3. \A k \in 1 .. Len(r) : k \in 1 .. Len(p) \/ k - Len(p) \in 1 .. Len(q)
  BY <1>1, <1>2
<1>4. \A k \in 1 .. Len(q) : Len(p) + k \in 1 .. Len(r)
  BY <1>1, <1>2
<1>5. \A k \in 1 .. Len(p) : k \in 1 .. Len(r)
  BY <1>1, <1>2
<1>6. ASSUME NEW o \in Said(r) PROVE o \in Said(p) \cup Said(q)
  <2>1. PICK k \in 1 .. Len(r) : o = r[k]
    BY <1>2 DEF Said
  <2>2. CASE k \in 1 .. Len(p)
    BY <2>1, <2>2, <1>1, <1>2 DEF Said
  <2>3. CASE k - Len(p) \in 1 .. Len(q)
    <3>1. k = Len(p) + (k - Len(p))
      BY <1>2
    <3>2. r[k] = q[k - Len(p)]
      BY <2>3, <3>1, <1>1
    <3> QED BY <2>1, <2>3, <3>2, <1>2 DEF Said
  <2> QED BY <2>2, <2>3, <1>3
<1>7. ASSUME NEW o \in Said(p) PROVE o \in Said(r) /\ o \in S
  <2>1. PICK k \in 1 .. Len(p) : o = p[k]
    BY <1>2 DEF Said
  <2> QED BY <2>1, <1>1, <1>2, <1>5 DEF Said
<1>8. ASSUME NEW o \in Said(q) PROVE o \in Said(r)
  <2>1. PICK k \in 1 .. Len(q) : o = q[k]
    BY <1>2 DEF Said
  <2>2. o = r[Len(p) + k] /\ Len(p) + k \in 1 .. Len(r)
    BY <2>1, <1>1, <1>4
  <2> QED BY <2>2, <1>2 DEF Said
<1> QED BY <1>6, <1>7, <1>8 DEF r

\* What an update says of a local route.
Binding(s, h) == [bind |-> TRUE, hand |-> h, addr |-> ipaddr[s], num |-> seq[s]]

LEMMA BindingsAre ==
  ASSUME TypeOK, NEW from \in Nat, NEW to \in Nat, NEW h \in {"new", "unknown"}
  PROVE  /\ Bindings(from, to, h) \in Seq(Options)
         /\ Sorted(out, Live, seq) =>
              /\ \A o \in Said(Bindings(from, to, h)) : \E s \in Live : o = Binding(s, h)
              /\ \A s \in Live : from < seq[s] /\ seq[s] <= to =>
                   Binding(s, h) \in Said(Bindings(from, to, h))
<1> DEFINE W == Walk(from, to)
           B == Bindings(from, to, h)
<1>1. W \in Seq(Slots)
  BY WalkType
<1>2. B = [k \in 1 .. Len(W) |-> Binding(W[k], h)]
  BY DEF Bindings, Binding
<1> HIDE DEF B
<1>3. Sorted(out, Live, seq) =>
        /\ \A k \in 1 .. Len(W) : W[k] \in Live
        /\ \A s \in Live : from < seq[s] /\ seq[s] <= to =>
             \E k \in 1 .. Len(W) : W[k] = s
  BY WalkFinds
<1> HIDE DEF W
<1>4. \A k \in 1 .. Len(W) : Binding(W[k], h) \in Options
  BY <1>1 DEF Binding, Options, TypeOK
<1>5. Len(W) \in Nat
  BY <1>1
<1>6. B \in Seq(Options) /\ DOMAIN B = 1 .. Len(W)
  BY <1>2, <1>4, <1>5
<1>7. ASSUME Sorted(out, Live, seq), NEW o \in Said(B)
      PROVE  \E s \in Live : o = Binding(s, h)
  BY <1>2, <1>3, <1>6, <1>7 DEF Said
<1>8. ASSUME Sorted(out, Live, seq), NEW s \in Live, from < seq[s], seq[s] <= to
      PROVE  Binding(s, h) \in Said(B)
  BY <1>2, <1>3, <1>6, <1>8 DEF Said
<1> QED BY <1>6, <1>7, <1>8 DEF B

\* An update reports the recorded deletions in range, and no other.
InRange(d, to) == deleted[d].used /\ ByteSeq(d) <= to + MaxEntry

LEMMA DeletionsAre ==
  ASSUME TypeOK, NEW to \in Nat
  PROVE  /\ Deletions(to) \in Seq(Options)
         /\ Said(Deletions(to)) = {Deletion(d) : d \in {e \in Deletes : InRange(e, to)}}
<1> DEFINE h == [n \in 1 .. ND |-> [q \in Seq(Options) |->
                   IF InRange(n - 1, to) THEN Append(q, Deletion(n - 1)) ELSE q]]
           Body(u) == [n \in 0 .. ND |->
             IF n = 0 THEN <<>>
             ELSE IF InRange(n - 1, to) THEN Append(u[n - 1], Deletion(n - 1))
             ELSE u[n - 1]]
<1>1. ND \in Nat
  BY SizesAssumption
<1>2. \A d \in Deletes : Deletion(d) \in Options
  BY DEF TypeOK, Tombstones, Deletion, Options
<1>3. h \in [1 .. ND -> [Seq(Options) -> Seq(Options)]]
  <2>1. ASSUME NEW n \in 1 .. ND, NEW q \in Seq(Options)
        PROVE  Append(q, Deletion(n - 1)) \in Seq(Options)
    <3>1. n - 1 \in Deletes
      BY <1>1 DEF Deletes
    <3>2. Deletion(n - 1) \in Options
      BY <3>1, <1>2
    <3> QED BY <3>2
  <2> QED BY <2>1
<1>4. <<>> \in Seq(Options)
  OBVIOUS
<1>5. PICK g \in Runs(Seq(Options), <<>>, h, ND) : TRUE
  <2>1. ND \in 0 .. ND
    BY <1>1
  <2>2. Runs(Seq(Options), <<>>, h, ND) # {}
    BY <1>1, <1>3, <1>4, <2>1, RunsExist
  <2> QED BY <2>2
<1>6. g = Body(g)
  <2>1. /\ g \in [0 .. ND -> Seq(Options)] /\ g[0] = <<>>
        /\ \A n \in 1 .. ND : g[n] = h[n][g[n - 1]]
    BY <1>5 DEF Runs
  <2>2. ASSUME NEW n \in 1 .. ND
        PROVE  g[n] = IF InRange(n - 1, to) THEN Append(g[n - 1], Deletion(n - 1))
                      ELSE g[n - 1]
    <3>1. g[n - 1] \in Seq(Options)
      BY <2>1, <1>1
    <3> QED BY <2>1, <3>1
  <2> HIDE DEF h
  <2>3. ASSUME NEW n \in 0 .. ND PROVE g[n] = Body(g)[n]
    <3>1. CASE n = 0
      BY <3>1, <2>1
    <3>2. CASE n # 0
      <4>1. n \in 1 .. ND
        BY <3>2
      <4> QED BY <4>1, <3>2, <2>2
    <3> QED BY <3>1, <3>2
  <2> QED BY <2>1, <2>3
<1> HIDE DEF h
<1> DEFINE U == CHOOSE u : u = Body(u)
<1>7. U = Body(U)
  BY <1>6
<1>8. Deletions(to) = U[ND]
  BY DEF Deletions, InRange
<1> HIDE DEF U
<1> DEFINE Picked(n) == {Deletion(d) : d \in {e \in 0 .. n - 1 : InRange(e, to)}}
           T == {n \in Nat : n <= ND => U[n] \in Seq(Options) /\ Said(U[n]) = Picked(n)}
<1>9. 0 \in T
  <2>1. U[0] = <<>>
    BY <1>1, <1>7
  <2>2. Picked(0) = {} /\ Said(<<>>) = {}
    BY DEF Said
  <2> HIDE DEF Picked
  <2> QED BY <2>1, <2>2, <1>4
<1>10. ASSUME NEW k \in Nat, k \in T PROVE k + 1 \in T
  <2> DEFINE n == k + 1
  <2> SUFFICES ASSUME n <= ND PROVE U[n] \in Seq(Options) /\ Said(U[n]) = Picked(n)
    OBVIOUS
  <2>1. /\ k \in Deletes /\ n # 0 /\ n \in 0 .. ND /\ n - 1 = k /\ k <= ND
        /\ \A e : e \in 0 .. n - 1 <=> e \in 0 .. k - 1 \/ e = k
    BY <1>1 DEF Deletes
  <2>2. U[k] \in Seq(Options) /\ Said(U[k]) = Picked(k)
    BY <1>10, <2>1
  <2> HIDE DEF n
  <2>3. U[n] = IF InRange(k, to) THEN Append(U[k], Deletion(k)) ELSE U[k]
    BY <1>7, <2>1
  <2>4. CASE InRange(k, to)
    <3> DEFINE q == <<Deletion(k)>>
    <3>1. Deletion(k) \in Options
      BY <2>1, <1>2
    <3>2. q \in Seq(Options) /\ Said(q) = {Deletion(k)} /\ U[n] = U[k] \o q
      BY <2>2, <2>3, <2>4, <3>1 DEF Said
    <3> HIDE DEF q
    <3>3. U[k] \o q \in Seq(Options) /\ Said(U[k] \o q) = Said(U[k]) \cup Said(q)
      <4> DEFINE p == U[k]
      <4>1. p \in Seq(Options)
        BY <2>2
      <4> HIDE DEF p
      <4>2. p \o q \in Seq(Options) /\ Said(p \o q) = Said(p) \cup Said(q)
        BY <4>1, <3>2, SaidBoth
      <4> QED BY <4>2 DEF p
    <3>4. Picked(n) = Picked(k) \cup {Deletion(k)}
      BY <2>1, <2>4
    <3> QED BY <2>2, <3>2, <3>3, <3>4
  <2>5. CASE ~InRange(k, to)
    <3>1. Picked(n) = Picked(k)
      BY <2>1, <2>5
    <3> QED BY <2>2, <2>3, <2>5, <3>1
  <2> QED BY <2>4, <2>5
<1> HIDE DEF T
<1>11. ND \in T
  BY <1>1, <1>9, <1>10, SetInduction
<1>12. U[ND] \in Seq(Options) /\ Said(U[ND]) = Picked(ND)
  BY <1>1, <1>11 DEF T
<1> QED BY <1>8, <1>12 DEF Deletes

\* What the length byte leaves of an update is a beginning of it.
LEMMA CarriedIs ==
  ASSUME NEW opts \in Seq(Options)
  PROVE  Carried(opts) \in Seq(Options) /\ Said(Carried(opts)) \subseteq Said(opts)
<1> DEFINE whole == {k \in 1 .. Len(opts) :
                       6 + Bytes(SubSeq(opts, 1, k)) <= (6 + Bytes(opts)) % LenMod}
           n == Max(whole \cup {0})
<1>1. n \in 0 .. Len(opts)
  <2>1. /\ whole \cup {0} \in SUBSET Nat /\ whole \cup {0} # {}
        /\ Len(opts) \in Nat /\ \A k \in whole \cup {0} : k <= Len(opts)
    OBVIOUS
  <2> HIDE DEF whole
  <2>2. n \in whole \cup {0}
    BY <2>1, MaxIs
  <2> QED BY <2>1, <2>2
<1>2. Carried(opts) = opts \/ Carried(opts) = SubSeq(opts, 1, n)
  BY DEF Carried
<1> HIDE DEF n
<1>3. /\ SubSeq(opts, 1, n) \in Seq(Options)
      /\ Len(SubSeq(opts, 1, n)) = n
      /\ \A k \in 1 .. n : k \in 1 .. Len(opts) /\ SubSeq(opts, 1, n)[k] = opts[k]
  BY <1>1
<1>4. Said(SubSeq(opts, 1, n)) \subseteq Said(opts)
  BY <1>3 DEF Said
<1> QED BY <1>2, <1>3, <1>4

-----------------------------------------------------------------------------
(* The updates' steps are steps of the table *)

LEMMA ConstantTypes ==
  /\ NBackup \in Nat /\ NBackup > 0 /\ MaxEntry \in Nat /\ MaxEntry > 0
  /\ MaxNonAck \in Nat /\ MaxNonAck > 0 /\ ByteMod \in Nat /\ ByteMod > 0
  /\ LenMod \in Nat /\ LenMod > 0
  BY GatewaysAssumption

\* A step outside mob_incoming_ack frees no deletion.
LEMMA StepKinds ==
  ASSUME [RouterNext]_rvars
  PROVE  (NodeStep \/ UNCHANGED vars) \/ \E a \in acks : IncomingAck(a)
<1>1. ASSUME NEW n \in Nodes, RDao(n) \/ RTable(n) PROVE NodeStep
  BY <1>1 DEF RDao, RTable, NodeStep
<1>2. CASE RTick
  BY <1>2 DEF RTick, NodeStep
<1>3. CASE Fire \/ RCheck
  BY <1>3 DEF Fire, RCheck, NodeStep
<1>4. ASSUME NEW p \in Peers, NewGw(p) PROVE UNCHANGED vars
  BY <1>4 DEF NewGw
<1>5. CASE FireNoHoag
  BY <1>5 DEF FireNoHoag
<1>6. CASE SendLoop
  BY <1>6 DEF SendLoop, SendDrop, SendUpdate, SendSkip, SendEnd
<1>7. ASSUME NEW m \in net, Receive(m) PROVE UNCHANGED vars
  BY <1>7 DEF Receive
<1>8. CASE UNCHANGED rvars
  BY <1>8 DEF rvars
<1> QED BY <1>1, <1>2, <1>3, <1>4, <1>5, <1>6, <1>7, <1>8 DEF RouterNext

\* Freeing deletions is the table's Release, or nothing.
LEMMA AckIsRelease ==
  ASSUME TypeOK, NEW a \in acks, IncomingAck(a)
  PROVE  Release \/ UNCHANGED vars
<1>1. UNCHANGED <<slots, out, next_out, kernel, loop, ghost>> /\ pc = "idle"
  BY DEF IncomingAck, Idle
<1>2. CASE UNCHANGED deleted
  BY <1>1, <1>2 DEF vars
<1>3. CASE ~UNCHANGED deleted
  <2>1. PICK min : deleted' = [d \in Deletes |->
                     IF Acked(d, min_ack, min)
                     THEN [deleted[d] EXCEPT !.used = FALSE] ELSE deleted[d]]
    BY <1>3 DEF IncomingAck
  <2> DEFINE D == {d \in Deletes : Acked(d, min_ack, min)}
  <2>2. D \in SUBSET Tombs
    BY DEF Acked, Tombs
  <2>3. deleted' = [d \in Deletes |->
          IF d \in D THEN [deleted[d] EXCEPT !.used = FALSE] ELSE deleted[d]]
    BY <2>1
  <2>4. D # {}
    <3> SUFFICES ASSUME D = {} PROVE FALSE
      OBVIOUS
    <3>1. \A d \in Deletes : deleted'[d] = deleted[d]
      BY <2>3
    <3> HIDE DEF D
    <3>2. deleted' = [d \in Deletes |-> deleted'[d]] /\ deleted = [d \in Deletes |-> deleted[d]]
      BY <2>3 DEF TypeOK
    <3> QED BY <3>1, <3>2, <1>3
  <2> HIDE DEF D
  <2> QED BY <1>1, <2>2, <2>3, <2>4 DEF Release
<1> QED BY <1>2, <1>3

\* Every step is one of the table, or leaves it alone.
LEMMA StepIsTable ==
  ASSUME TypeOK, [RouterNext]_rvars
  PROVE  [Next]_vars
<1>1. NodeStep => Next
  BY DEF NodeStep, Next
<1> QED BY <1>1, StepKinds, AckIsRelease DEF Next

-----------------------------------------------------------------------------
(* The updates: type correctness *)

GwRecords == [gw : Peers \cup {NoGw}, seq_out : Nat, non_ack : 0 .. MaxNonAck]

\* The least sequence_out of the known gateways, and min_ack after an
\* acknowledgement.
LEMMA AckIs ==
  ASSUME RouterTypeOK, NEW a \in acks, IncomingAck(a)
  PROVE  \E i \in Gws :
           /\ gws[i].gw = a.gw
           /\ gws' = [gws EXCEPT ![i] = [@ EXCEPT !.seq_out = a.seq, !.non_ack = 0]]
           /\ gws' \in [Gws -> GwRecords]
           /\ \/ UNCHANGED <<min_ack, deleted>>
              \/ /\ \E j \in Gws : Known(j) /\ min_ack' = gws'[j].seq_out
                 /\ \A j \in Gws : Known(j) => min_ack' <= gws'[j].seq_out
                 /\ deleted' = [d \in Deletes |->
                      IF Acked(d, min_ack, min_ack')
                      THEN [deleted[d] EXCEPT !.used = FALSE] ELSE deleted[d]]
<1>1. a.gw \in Peers /\ a.seq \in Nat /\ gws \in [Gws -> GwRecords]
  BY DEF RouterTypeOK, Acks, GwRecords
<1>2. PICK i \in Gws :
        /\ gws[i].gw = a.gw
        /\ gws' = [gws EXCEPT ![i].seq_out = a.seq, ![i].non_ack = 0]
        /\ IF min_ack = gws[i].seq_out
           THEN LET min == Min({gws'[j].seq_out : j \in {k \in Gws : Known(k)}})
                IN /\ min_ack' = min
                   /\ deleted' = [d \in Deletes |->
                        IF Acked(d, min_ack, min)
                        THEN [deleted[d] EXCEPT !.used = FALSE] ELSE deleted[d]]
           ELSE UNCHANGED <<min_ack, deleted>>
  BY DEF IncomingAck
<1>3. gws' = [gws EXCEPT ![i] = [@ EXCEPT !.seq_out = a.seq, !.non_ack = 0]]
  BY <1>2
<1>4. gws' \in [Gws -> GwRecords]
  <2>1. gws[i] \in GwRecords /\ 0 \in 0 .. MaxNonAck
    BY <1>1, ConstantTypes
  <2>2. [gws[i] EXCEPT !.seq_out = a.seq, !.non_ack = 0] \in GwRecords
    BY <1>1, <2>1 DEF GwRecords
  <2> QED BY <1>1, <1>3, <2>2
<1>5. Known(i)
  BY <1>1, <1>2, GatewaysAssumption DEF Known, Peers
<1> DEFINE S == {gws'[j].seq_out : j \in {k \in Gws : Known(k)}}
<1>6. S \in SUBSET Nat /\ S # {}
  BY <1>4, <1>5 DEF GwRecords
<1>7. Min(S) \in S /\ \A k \in S : Min(S) <= k
  BY <1>6, MinIs
<1>8. CASE min_ack = gws[i].seq_out
  <2>1. min_ack' = Min(S)
    BY <1>2, <1>8
  <2>2. deleted' = [d \in Deletes |->
          IF Acked(d, min_ack, min_ack')
          THEN [deleted[d] EXCEPT !.used = FALSE] ELSE deleted[d]]
    BY <1>2, <1>8, <2>1
  <2>3. \E j \in Gws : Known(j) /\ min_ack' = gws'[j].seq_out
    BY <1>7, <2>1
  <2>4. \A j \in Gws : Known(j) => min_ack' <= gws'[j].seq_out
    BY <1>7, <2>1
  <2> QED BY <1>2, <1>3, <1>4, <2>2, <2>3, <2>4
<1>9. CASE min_ack # gws[i].seq_out
  BY <1>2, <1>3, <1>4, <1>9
<1> QED BY <1>8, <1>9

LEMMA RouterTypeInit == RouterInit => RouterTypeOK
<1> SUFFICES ASSUME RouterInit PROVE RouterTypeOK
  OBVIOUS
<1>1. TypeOK
  BY TypeInit DEF RouterInit
<1>2. gws \in [Gws -> GwRecords]
  BY ConstantTypes DEF RouterInit, GwRecords
<1>3. sending \in -1 .. NBackup + 1 /\ buf \in Seq(Options)
  BY ConstantTypes DEF RouterInit
<1> QED BY <1>1, <1>2, <1>3 DEF RouterInit, RouterTypeOK, GwRecords

\* What a new gateway is told from: the number before the first on the list.
LEMMA FromIsNat ==
  ASSUME RouterTypeOK, LinksNumbered
  PROVE  (IF out.min # LIST_END THEN seq[out.min] - 1 ELSE min_ack) \in Nat
<1>1. CASE out.min # LIST_END
  <2>1. out.min \in Numbered
    BY <1>1 DEF LinksNumbered, Closed
  <2>2. seq[out.min] \in Nat /\ 0 < seq[out.min]
    BY <2>1 DEF Numbered, RouterTypeOK, TypeOK
  <2> QED BY <1>1, <2>2
<1>2. CASE out.min = LIST_END
  BY <1>2 DEF RouterTypeOK
<1> QED BY <1>1, <1>2

\* The number an update stands for was given.
LEMMA UpToIs ==
  ASSUME RouterTypeOK, NEW i \in Gws, Behind(i)
  PROVE  UpTo(i) \in Nat /\ UpTo(i) < next_out /\ gws[i].seq_out < UpTo(i)
<1>1. next_out \in Nat /\ gws[i].seq_out \in Nat /\ next_out - gws[i].seq_out > 1
  BY DEF RouterTypeOK, TypeOK, Behind
<1> QED BY <1>1, ConstantTypes DEF UpTo

\* What SendUpdate puts together.
LEMMA AllIs ==
  ASSUME RouterTypeOK, NEW i \in Gws, Behind(i)
  PROVE  LET h == IF handoff = "unknown" THEN "unknown" ELSE "new"
         IN /\ Bindings(gws[i].seq_out, UpTo(i), h) \in Seq(Options)
            /\ Deletions(UpTo(i)) \in Seq(Options)
            /\ buf \o Bindings(gws[i].seq_out, UpTo(i), h) \o Deletions(UpTo(i)) \in Seq(Options)
            /\ Said(buf \o Bindings(gws[i].seq_out, UpTo(i), h) \o Deletions(UpTo(i)))
                 = Said(buf) \cup Said(Bindings(gws[i].seq_out, UpTo(i), h))
                     \cup Said(Deletions(UpTo(i)))
<1> DEFINE h == IF handoff = "unknown" THEN "unknown" ELSE "new"
           p == Bindings(gws[i].seq_out, UpTo(i), h)
           q == Deletions(UpTo(i))
<1>1. TypeOK /\ buf \in Seq(Options) /\ gws[i].seq_out \in Nat /\ UpTo(i) \in Nat
      /\ h \in {"new", "unknown"}
  BY UpToIs DEF RouterTypeOK
<1>2. p \in Seq(Options)
  BY <1>1, BindingsAre
<1>3. q \in Seq(Options)
  BY <1>1, DeletionsAre
<1> HIDE DEF p, q, h
<1>4. buf \o p \in Seq(Options) /\ Said(buf \o p) = Said(buf) \cup Said(p)
  BY <1>1, <1>2, SaidBoth
<1> DEFINE r == buf \o p
<1>5. r \in Seq(Options)
  BY <1>4
<1> HIDE DEF r
<1>6. r \o q \in Seq(Options) /\ Said(r \o q) = Said(r) \cup Said(q)
  BY <1>3, <1>5, SaidBoth
<1> QED BY <1>2, <1>3, <1>4, <1>6 DEF p, q, r, h

LEMMA RouterTypeStep ==
  ASSUME RouterTypeOK, LinksNumbered, [RouterNext]_rvars
  PROVE  RouterTypeOK'
<1>1. TypeOK' /\ next_out <= next_out' /\ next_out \in Nat /\ next_out' \in Nat
  <2>1. TypeOK /\ [Next]_vars
    BY StepIsTable DEF RouterTypeOK
  <2>2. TypeOK'
    BY <2>1, TypeStep
  <2> QED BY <2>1, <2>2, NumbersGrow DEF TypeOK
<1>2. /\ gws \in [Gws -> GwRecords] /\ min_ack \in Nat /\ timer \in {"off", "once", "again"}
      /\ sending \in -1 .. NBackup + 1 /\ buf \in Seq(Options)
      /\ handoff \in {"none", "new", "unknown"}
      /\ net \in SUBSET Updates /\ acks \in SUBSET Acks
      /\ heard \in [Peers -> SUBSET Options]
      /\ lossless \in BOOLEAN /\ recorded \in BOOLEAN /\ gapless \in BOOLEAN
      /\ sent \in BOOLEAN /\ dropped \in SUBSET Peers
  BY DEF RouterTypeOK, GwRecords
<1>3. \A m \in net : m.seq < next_out'
  <2>1. \A m \in net : m.seq \in Nat /\ m.seq < next_out
    BY <1>2 DEF RouterTypeOK, Updates
  <2> QED BY <1>1, <2>1
<1>4. \A a \in acks : a.seq < next_out'
  <2>1. \A a \in acks : a.seq \in Nat /\ a.seq < next_out
    BY <1>2 DEF RouterTypeOK, Acks
  <2> QED BY <1>1, <2>1
<1> DEFINE Typed ==
      /\ gws' \in [Gws -> GwRecords] /\ min_ack' \in Nat /\ timer' \in {"off", "once", "again"}
      /\ sending' \in -1 .. NBackup + 1 /\ buf' \in Seq(Options)
      /\ handoff' \in {"none", "new", "unknown"}
      /\ net' \in SUBSET Updates /\ \A m \in net' : m.seq < next_out'
      /\ acks' \in SUBSET Acks /\ \A a \in acks' : a.seq < next_out'
      /\ heard' \in [Peers -> SUBSET Options]
      /\ lossless' \in BOOLEAN /\ recorded' \in BOOLEAN /\ gapless' \in BOOLEAN
      /\ sent' \in BOOLEAN /\ dropped' \in SUBSET Peers
<1> SUFFICES Typed
  BY <1>1 DEF RouterTypeOK, GwRecords
<1> USE DEF mob, send, wire, fate
<1>5. ASSUME NEW n \in Nodes, RDao(n) PROVE Typed
  BY <1>2, <1>3, <1>4, <1>5 DEF RDao, Arm
<1>6. ASSUME UNCHANGED <<mob, timer, send, wire, lossless, dropped, gapless>>,
             recorded' \in BOOLEAN
      PROVE  Typed
  BY <1>2, <1>3, <1>4, <1>6
<1>7. ASSUME NEW n \in Nodes, RTable(n) PROVE Typed
  BY <1>2, <1>6, <1>7 DEF RTable, Record
<1>8. CASE RTick \/ UNCHANGED rvars
  BY <1>2, <1>6, <1>8 DEF RTick, rvars
<1>9. CASE RCheck
  BY <1>2, <1>6, <1>9 DEF RCheck, Record
<1>10. ASSUME NEW p \in Peers, NewGw(p) PROVE Typed
  <2>1. PICK i \in Gws : \E from \in Nat :
          /\ gws' = [gws EXCEPT ![i] = [gw |-> p, seq_out |-> from, non_ack |-> 0]]
          /\ min_ack' = from
    BY <1>10, FromIsNat DEF NewGw
  <2>2. gws' \in [Gws -> GwRecords] /\ min_ack' \in Nat
    BY <1>2, <2>1, ConstantTypes DEF GwRecords
  <2> QED BY <1>2, <1>3, <1>4, <1>10, <2>2 DEF NewGw, Arm
<1>11. CASE FireNoHoag
  BY <1>2, <1>3, <1>4, <1>11 DEF FireNoHoag
<1>12. CASE Fire
  <2>1. 0 \in -1 .. NBackup + 1 /\ <<>> \in Seq(Options)
    BY ConstantTypes
  <2> QED BY <1>2, <1>3, <1>4, <1>12, <2>1 DEF Fire
<1>13. ASSUME NEW i \in Gws, SendDrop(i) PROVE Typed
  <2>1. gws[i] \in GwRecords /\ gws[i].gw \in Peers
    BY <1>2, <1>13 DEF GwRecords, SendDrop, Behind, Known
  <2>2. [gws[i] EXCEPT !.gw = NoGw] \in GwRecords
    BY <2>1 DEF GwRecords
  <2>3. gws' \in [Gws -> GwRecords]
    BY <1>2, <1>13, <2>2 DEF SendDrop
  <2>4. NBackup + 1 \in -1 .. NBackup + 1
    BY ConstantTypes
  <2> QED BY <1>2, <1>3, <1>4, <1>13, <2>1, <2>3, <2>4 DEF SendDrop
<1>14. ASSUME NEW i \in Gws, SendUpdate(i) PROVE Typed
  <2> DEFINE to   == UpTo(i)
             h    == IF handoff = "unknown" THEN "unknown" ELSE "new"
             new  == Bindings(gws[i].seq_out, to, h)
             gone == Deletions(to)
             all  == buf \o new \o gone
             m    == [gw |-> gws[i].gw, seq |-> to, opts |-> Carried(all)]
  <2>1. Behind(i) /\ ~GivenUp(i) /\ Known(i)
    BY <1>14 DEF SendUpdate, Behind
  <2>2. /\ buf' = all /\ sending' = i + 1
        /\ handoff' = IF gone # <<>> THEN "unknown"
                      ELSE IF new # <<>> /\ handoff = "none" THEN "new" ELSE handoff
        /\ gapless' = (gapless /\ all # <<>>)
        /\ \/ UNCHANGED <<gws, sent, net, lossless>>
           \/ /\ net' = Sent(m, net)
              /\ lossless' = (lossless /\ Carried(all) = all)
              /\ gws' = [gws EXCEPT ![i].non_ack = @ + 1]
              /\ sent' = TRUE
        /\ UNCHANGED <<min_ack, timer, acks, heard, recorded, dropped>>
    BY <1>14 DEF SendUpdate
  <2>3. to \in Nat /\ to < next_out
    BY <2>1, UpToIs
  <2>4. all \in Seq(Options)
    BY <2>1, AllIs
  <2>5. Carried(all) \in Seq(Options)
    BY <2>4, CarriedIs
  <2> HIDE DEF to, new, gone, all
  <2>6. gws[i] \in GwRecords /\ gws[i].gw \in Peers
    BY <1>2, <2>1 DEF GwRecords, Known
  <2>7. m \in Updates /\ m.seq < next_out'
    BY <2>3, <2>5, <2>6, <1>1 DEF Updates
  <2>8. [gws EXCEPT ![i].non_ack = @ + 1] \in [Gws -> GwRecords]
    <3>1. gws[i].non_ack + 1 \in 0 .. MaxNonAck
      BY <2>1, <2>6, ConstantTypes DEF GivenUp, GwRecords
    <3>2. [gws[i] EXCEPT !.non_ack = @ + 1] \in GwRecords
      BY <3>1, <2>6 DEF GwRecords
    <3> QED BY <1>2, <3>2
  <2> HIDE DEF m
  <2>9. net' \in SUBSET Updates /\ \A x \in net' : x.seq < next_out'
    BY <2>2, <2>7, <1>2, <1>3 DEF Sent
  <2>10. sending' \in -1 .. NBackup + 1
    BY <2>2, ConstantTypes DEF Gws
  <2>11. gws' \in [Gws -> GwRecords]
    BY <2>2, <2>8, <1>2
  <2>12. handoff' \in {"none", "new", "unknown"}
    BY <2>2, <1>2
  <2>13. lossless' \in BOOLEAN /\ gapless' \in BOOLEAN /\ sent' \in BOOLEAN
    BY <2>2, <1>2
  <2> QED BY <2>2, <2>4, <2>9, <2>10, <2>11, <2>12, <2>13, <1>2, <1>4
<1>15. ASSUME NEW i \in Gws, SendSkip(i) PROVE Typed
  <2>1. sending' \in -1 .. NBackup + 1
    BY <1>15, ConstantTypes DEF SendSkip, Gws
  <2> QED BY <1>2, <1>3, <1>4, <1>15, <2>1 DEF SendSkip
<1>16. CASE SendEnd
  <2>1. -1 \in -1 .. NBackup + 1 /\ <<>> \in Seq(Options)
    BY ConstantTypes
  <2> QED BY <1>2, <1>3, <1>4, <1>16, <2>1 DEF SendEnd
<1>17. ASSUME NEW m \in net, Receive(m) PROVE Typed
  <2>1. m \in Updates /\ m.seq < next_out'
    BY <1>2, <1>3
  <2>2. [gw |-> m.gw, seq |-> m.seq] \in Acks
    BY <2>1 DEF Updates, Acks
  <2>3. acks' \in SUBSET Acks /\ \A a \in acks' : a.seq < next_out'
    BY <1>2, <1>4, <1>17, <2>1, <2>2 DEF Receive, Sent
  <2>4. net' \subseteq net
    BY <1>17 DEF Receive, Delivered
  <2>5. Said(m.opts) \in SUBSET Options /\ m.gw \in Peers
    BY <2>1 DEF Updates, Said
  <2>6. heard' \in [Peers -> SUBSET Options]
    BY <1>2, <1>17, <2>5 DEF Receive, Said
  <2> QED BY <1>2, <1>3, <1>17, <2>3, <2>4, <2>6 DEF Receive
<1>18. ASSUME NEW a \in acks, IncomingAck(a) PROVE Typed
  <2>1. /\ gws' \in [Gws -> GwRecords]
        /\ min_ack' = min_ack \/ \E j \in Gws : min_ack' = gws'[j].seq_out
    BY <1>18, AckIs
  <2>3. min_ack' \in Nat
    BY <1>2, <2>1 DEF GwRecords
  <2>2. acks' \subseteq acks
    BY <1>18 DEF IncomingAck, Delivered
  <2> QED BY <1>2, <1>3, <1>4, <1>18, <2>1, <2>2, <2>3 DEF IncomingAck
<1> QED BY <1>5, <1>7, <1>8, <1>9, <1>10, <1>11, <1>12, <1>13, <1>14, <1>15, <1>16,
           <1>17, <1>18 DEF RouterNext, SendLoop

-----------------------------------------------------------------------------
(* The table under the updates *)

RouterInv == RouterTypeOK /\ TableInv /\ LinksNumbered

LEMMA RouterInvInit == RouterInit => RouterInv
  BY RouterTypeInit, InitSafe, NumberedInit DEF RouterInit, RouterInv

LEMMA RouterInvStep == RouterInv /\ [RouterNext]_rvars => RouterInv'
<1> SUFFICES ASSUME RouterInv, [RouterNext]_rvars PROVE RouterInv'
  OBVIOUS
<1>1. /\ RouterTypeOK /\ TypeOK /\ TableInv /\ LinksNumbered
  BY DEF RouterInv, RouterTypeOK
<1>2. [Next]_vars
  BY <1>1, StepIsTable
<1>3. RouterTypeOK'
  BY <1>1, RouterTypeStep
<1>4. TableInv'
  BY <1>1, <1>2, StepSafe
<1>5. LinksNumbered'
  BY <1>1, <1>2, NumberedStep
<1> QED BY <1>3, <1>4, <1>5 DEF RouterInv

LEMMA RouterSafe == RouterSpec => []RouterInv
  BY RouterInvInit, RouterInvStep, PTL DEF RouterSpec

\* Every variable of the router keeps its type: among others, no gateway is ever
\* behind a number that was not given, or sent more than MaxNonAck updates
\* without an answer.
THEOREM RouterTypeCorrect == RouterSpec => []RouterTypeOK
<1>1. RouterInv => RouterTypeOK
  BY DEF RouterInv
<1> QED BY <1>1, RouterSafe, PTL

\* The router implements the table's safety: no callback of the updates does to
\* the table what NodeTable does not allow.
THEOREM ImplementsTableSteps == RouterSpec => Init /\ [][Next]_vars
<1>1. RouterInit => Init
  BY DEF RouterInit
<1>2. RouterInv /\ [RouterNext]_rvars => [Next]_vars
  BY StepIsTable DEF RouterInv, RouterTypeOK
<1> QED BY <1>1, <1>2, RouterSafe, PTL DEF RouterSpec

\* So the table's invariants hold with the updates running.
THEOREM TableSafeInRouter == RouterSpec => []TableInv
<1>1. RouterInv => TableInv
  BY DEF RouterInv
<1> QED BY <1>1, RouterSafe, PTL

-----------------------------------------------------------------------------
(* What every gateway was told *)

\* An option that announces the route in slot s; the home agent takes it as new.
Tells(o, g, s) ==
  o.bind /\ o.addr = ipaddr[s] /\ o.num = seq[s] /\ (g = Hoag => o.hand = "new")

Told(g, s) == \E o \in heard[g] : Tells(o, g, s)

\* The home agent is in slot 0, and nobody else is.
HomeSlot == \A i \in Gws : Known(i) => (gws[i].gw = Hoag <=> i = 0)

\* Before the first gateway's update there is nothing in output_buffer, and the
\* check of the entries comes before it.
EmptyBefore ==
  /\ sending <= 0 => buf = <<>> /\ handoff = "none"
  /\ pc = "check" => sending = 0

NumbersGiven == min_ack < next_out /\ \A i \in Gws : gws[i].seq_out < next_out

\* A number that was acknowledged, or is about to be, covers the routes up to it.
Heard ==
  /\ \A m \in net, s \in Live : seq[s] <= m.seq =>
       Told(m.gw, s) \/ \E o \in Said(m.opts) : Tells(o, m.gw, s)
  /\ \A a \in acks, s \in Live : seq[s] <= a.seq => Told(a.gw, s)
  /\ \A i \in Gws, s \in Live : Known(i) /\ seq[s] <= gws[i].seq_out => Told(gws[i].gw, s)

HeardInv ==
  /\ HomeSlot /\ EmptyBefore
  /\ intact => NumbersGiven
  /\ intact /\ lossless => Heard

\* Routes that a step of the table neither adds nor renumbers keep what was said
\* of them.
LEMMA TellsStay ==
  ASSUME NEW s, seq'[s] = seq[s], ipaddr'[s] = ipaddr[s], NEW o, NEW g
  PROVE  Tells(o, g, s)' <=> Tells(o, g, s)
  BY DEF Tells

LEMMA HeardInit == RouterInit => HeardInv
<1> SUFFICES ASSUME RouterInit PROVE HeardInv
  OBVIOUS
<1> USE DEF RouterInit
<1>1. HomeSlot
  BY DEF HomeSlot, Known
<1>2. EmptyBefore
  BY DEF EmptyBefore, Init
<1>3. NumbersGiven
  BY DEF NumbersGiven, Init
<1>4. Live = {}
  BY DEF Live, Init
<1> QED BY <1>1, <1>2, <1>3, <1>4 DEF HeardInv, Heard

\* A step that leaves gateways, datagrams and heard alone.
LEMMA HeardFrame ==
  ASSUME RouterInv, [RouterNext]_rvars, Heard, NumbersGiven, UNCHANGED <<gws, net, acks, heard>>
  PROVE  Heard'
<1>1. TypeOK /\ TableInv /\ [Next]_vars
  BY StepIsTable DEF RouterInv, RouterTypeOK
<1>2. ASSUME NEW s \in Live', seq'[s] < next_out
      PROVE  s \in Live /\ seq'[s] = seq[s] /\ ipaddr'[s] = ipaddr[s]
  BY <1>1, <1>2, OldStatements
<1>3. next_out \in Nat /\ \A s \in Live' : seq'[s] \in Nat
  <2>1. TypeOK'
    BY <1>1, TypeStep
  <2> QED BY <1>1, <2>1 DEF TypeOK, Live
<1>4. ASSUME NEW m \in net, NEW s \in Live', seq'[s] <= m.seq
      PROVE  Told(m.gw, s)' \/ \E o \in Said(m.opts) : Tells(o, m.gw, s)'
  <2>1. seq'[s] < next_out
    BY <1>3, <1>4 DEF RouterInv, RouterTypeOK, Updates
  <2>2. s \in Live /\ seq'[s] = seq[s] /\ ipaddr'[s] = ipaddr[s]
    BY <1>2, <2>1
  <2>3. Told(m.gw, s) \/ \E o \in Said(m.opts) : Tells(o, m.gw, s)
    BY <1>4, <2>2 DEF Heard
  <2> QED BY <2>2, <2>3, TellsStay DEF Told
<1>5. ASSUME NEW a \in acks, NEW s \in Live', seq'[s] <= a.seq PROVE Told(a.gw, s)'
  <2>1. seq'[s] < next_out
    BY <1>3, <1>5 DEF RouterInv, RouterTypeOK, Acks
  <2>2. s \in Live /\ seq'[s] = seq[s] /\ ipaddr'[s] = ipaddr[s]
    BY <1>2, <2>1
  <2> QED BY <1>5, <2>2, TellsStay DEF Told, Heard
<1>6. ASSUME NEW i \in Gws, NEW s \in Live', Known(i), seq'[s] <= gws[i].seq_out
      PROVE  Told(gws[i].gw, s)'
  <2>1. seq'[s] < next_out
    BY <1>3, <1>6 DEF NumbersGiven, RouterInv, RouterTypeOK
  <2>2. s \in Live /\ seq'[s] = seq[s] /\ ipaddr'[s] = ipaddr[s]
    BY <1>2, <2>1
  <2> QED BY <1>6, <2>2, TellsStay DEF Told, Heard
<1> QED BY <1>4, <1>5, <1>6 DEF Heard, Known

\* A step that leaves the table alone.
LEMMA TellsFrame ==
  ASSUME UNCHANGED vars
  PROVE  Live' = Live /\ \A s, o, g : Tells(o, g, s)' <=> Tells(o, g, s)
  BY DEF vars, slots, Live, Tells

\* One more binding heard, or one more datagram, takes nothing back.
LEMMA HeardGrows ==
  ASSUME RouterTypeOK, UNCHANGED vars, NEW g \in Peers, NEW s \in Live, Told(g, s),
         heard[g] \subseteq heard'[g]
  PROVE  Told(g, s)'
  BY TellsFrame DEF Told

LEMMA HeardStep ==
  ASSUME RouterInv, HeardInv, [RouterNext]_rvars
  PROVE  HeardInv'
<1>1. /\ RouterTypeOK /\ TypeOK /\ TableInv /\ [Next]_vars
      /\ gws \in [Gws -> GwRecords] /\ net \in SUBSET Updates /\ acks \in SUBSET Acks
      /\ heard \in [Peers -> SUBSET Options] /\ next_out \in Nat
      /\ 0 \in Gws /\ \A i \in Gws : i \in Nat
  <2>1. /\ RouterTypeOK /\ TypeOK /\ TableInv /\ next_out \in Nat
        /\ gws \in [Gws -> GwRecords] /\ net \in SUBSET Updates /\ acks \in SUBSET Acks
        /\ heard \in [Peers -> SUBSET Options]
    BY DEF RouterInv, RouterTypeOK, TypeOK, GwRecords
  <2>2. [Next]_vars
    BY <2>1, StepIsTable
  <2>3. 0 \in Gws /\ \A i \in Gws : i \in Nat
    BY ConstantTypes DEF Gws
  <2> QED BY <2>1, <2>2, <2>3
<1>2. next_out <= next_out' /\ next_out' \in Nat /\ (intact' => intact)
  <2>1. TypeOK'
    BY <1>1, TypeStep
  <2> QED BY <1>1, <2>1, NumbersGrow DEF TypeOK
<1>3. /\ \A m \in net : m.gw \in Peers /\ m.seq \in Nat /\ m.seq < next_out
      /\ \A a \in acks : a.gw \in Peers /\ a.seq \in Nat /\ a.seq < next_out
      /\ \A i \in Gws : gws[i].seq_out \in Nat
      /\ \A i \in Gws : Known(i) => gws[i].gw \in Peers
      /\ NoGw \notin Peers /\ Hoag \in Peers
      /\ min_ack \in Nat
  <2>1. NoGw \notin Peers /\ Hoag \in Peers
    BY GatewaysAssumption DEF Peers
  <2> QED BY <1>1, <2>1 DEF RouterTypeOK, Updates, Acks, GwRecords, Known
<1>4. /\ HomeSlot /\ EmptyBefore /\ (intact => NumbersGiven)
      /\ (intact /\ lossless => Heard)
  BY DEF HeardInv
<1> USE DEF mob, send, wire, fate
<1>5. ASSUME UNCHANGED <<mob, net, acks, heard, lossless>>, EmptyBefore'
      PROVE  HeardInv'
  <2>1. HomeSlot'
    BY <1>4, <1>5 DEF HomeSlot, Known
  <2>2. ASSUME intact' PROVE NumbersGiven'
    BY <1>1, <1>2, <1>3, <1>4, <1>5, <2>2 DEF NumbersGiven
  <2>3. ASSUME intact', lossless' PROVE Heard'
    BY <1>2, <1>4, <1>5, <2>3, HeardFrame
  <2> QED BY <1>5, <2>1, <2>2, <2>3 DEF HeardInv
<1>6. ASSUME NEW n \in Nodes, RDao(n) \/ RTable(n) PROVE HeardInv'
  <2>1. UNCHANGED loop
    BY <1>6 DEF RDao, RTable, Dao, DaoRefresh, DaoReplace, DaoNew, DaoEvict, NoPathDao, Lookup
  <2>2. EmptyBefore'
    BY <1>4, <1>6, <2>1 DEF RDao, RTable, EmptyBefore, loop
  <2> QED BY <1>5, <1>6, <2>2 DEF RDao, RTable, Record
<1>7. CASE RTick
  BY <1>4, <1>5, <1>7 DEF RTick, Tick, EmptyBefore, loop
<1>8. CASE Fire
  BY <1>5, <1>8 DEF Fire, EmptyBefore
<1>9. CASE RCheck
  <2>1. pc = "check" /\ (pc' = "check" => pc = "check")
    BY <1>9 DEF RCheck, CheckNext, CheckKeep, CheckDrop, CheckEnd
  <2>2. EmptyBefore'
    BY <1>4, <1>9, <2>1 DEF RCheck, EmptyBefore
  <2> QED BY <1>5, <1>9, <2>2 DEF RCheck, Record
<1>10. CASE FireNoHoag \/ UNCHANGED rvars
  BY <1>4, <1>5, <1>10 DEF FireNoHoag, rvars, vars, loop, EmptyBefore
<1>11. CASE \E i \in Gws : SendSkip(i)
  <2>1. PICK i \in Gws : SendSkip(i)
    BY <1>11
  <2>2. i \in Nat /\ sending' = i + 1 /\ pc' = "idle"
    BY <1>1, <2>1 DEF SendSkip, InLoop, vars, loop
  <2>3. EmptyBefore'
    BY <2>2 DEF EmptyBefore
  <2> QED BY <1>5, <2>1, <2>3 DEF SendSkip
<1>12. CASE SendEnd
  BY <1>5, <1>12 DEF SendEnd, EmptyBefore, InLoop, vars, loop
<1>13. ASSUME NEW i \in Gws, SendDrop(i) PROVE HeardInv'
  <2>1. /\ gws' = [gws EXCEPT ![i].gw = NoGw] /\ UNCHANGED <<vars, min_ack, net, acks, heard, lossless>>
        /\ sending' = NBackup + 1 /\ pc' = "idle"
    BY <1>13 DEF SendDrop, InLoop, vars, loop
  <2>2. \A j \in Gws : /\ gws'[j].seq_out = gws[j].seq_out
                       /\ gws'[j].gw = IF j = i THEN NoGw ELSE gws[j].gw
    BY <1>1, <2>1 DEF GwRecords
  <2>6. EmptyBefore'
    BY <2>1, ConstantTypes DEF EmptyBefore
  <2>7. HomeSlot'
    BY <1>4, <2>2 DEF HomeSlot, Known
  <2>3. HomeSlot' /\ EmptyBefore'
    BY <2>6, <2>7
  <2>4. ASSUME intact' PROVE NumbersGiven'
    BY <1>4, <2>1, <2>2, <2>4 DEF NumbersGiven, vars, ghost
  <2>5. ASSUME intact', lossless' PROVE Heard'
    <3>1. Heard
      BY <1>2, <1>4, <2>1, <2>5
    <3>2. Live' = Live /\ \A s \in Live : seq'[s] = seq[s]
      BY <2>1, TellsFrame DEF vars, slots
    <3>3. \A g, s : Told(g, s)' <=> Told(g, s)
      BY <2>1, TellsFrame DEF Told
    <3>4. \A s, o, g : Tells(o, g, s)' <=> Tells(o, g, s)
      BY <2>1, TellsFrame
    <3> QED BY <2>1, <2>2, <3>1, <3>2, <3>3, <3>4 DEF Heard, Known
  <2> QED BY <2>3, <2>4, <2>5 DEF HeardInv
<1>14. ASSUME NEW i \in Gws, SendUpdate(i) PROVE HeardInv'
  <2> DEFINE to   == UpTo(i)
             h    == IF handoff = "unknown" THEN "unknown" ELSE "new"
             new  == Bindings(gws[i].seq_out, to, h)
             gone == Deletions(to)
             all  == buf \o new \o gone
             m    == [gw |-> gws[i].gw, seq |-> to, opts |-> Carried(all)]
  <2>1. Behind(i) /\ Known(i) /\ sending = i /\ pc = "idle"
    BY <1>14 DEF SendUpdate, Behind, InLoop
  <2>2. /\ sending' = i + 1
        /\ \/ UNCHANGED <<gws, net, lossless>>
           \/ /\ net' = Sent(m, net)
              /\ lossless' = (lossless /\ Carried(all) = all)
              /\ gws' = [gws EXCEPT ![i].non_ack = @ + 1]
        /\ UNCHANGED <<vars, min_ack, acks, heard>>
    BY <1>14 DEF SendUpdate
  <2>3. to \in Nat /\ to < next_out /\ gws[i].seq_out \in Nat /\ h \in {"new", "unknown"}
    BY <1>1, <1>3, <2>1, UpToIs
  <2>4. Said(all) = Said(buf) \cup Said(new) \cup Said(gone)
    BY <1>1, <2>1, AllIs
  <2>5. Sorted(out, Live, seq) =>
          \A s \in Live : gws[i].seq_out < seq[s] /\ seq[s] <= to => Binding(s, h) \in Said(new)
    BY <1>1, <2>3, BindingsAre
  <2> HIDE DEF to, new, gone, all
  <2>6. \A j \in Gws : gws'[j].seq_out = gws[j].seq_out /\ gws'[j].gw = gws[j].gw
    BY <1>1, <2>2 DEF GwRecords
  <2>7. EmptyBefore'
    <3>1. i \in Nat /\ sending' = i + 1 /\ pc' = "idle"
      BY <1>1, <2>1, <2>2 DEF vars, loop
    <3> QED BY <3>1 DEF EmptyBefore
  <2>11. HomeSlot'
    BY <1>4, <2>6 DEF HomeSlot, Known
  <2>8. HomeSlot' /\ EmptyBefore'
    BY <2>7, <2>11
  <2>9. ASSUME intact' PROVE NumbersGiven'
    BY <1>4, <2>2, <2>6, <2>9 DEF NumbersGiven, vars, ghost
  <2>10. ASSUME intact', lossless' PROVE Heard'
    <3>1. /\ Live' = Live /\ \A s \in Live : seq'[s] = seq[s]
          /\ \A g, s : Told(g, s)' <=> Told(g, s)
          /\ \A s, o, g : Tells(o, g, s)' <=> Tells(o, g, s)
      BY <2>2, TellsFrame DEF Told, vars, slots
    <3>2. Heard /\ intact
      BY <1>2, <1>4, <2>2, <2>10
    <3>3. \A s \in Live : seq[s] \in Nat
      BY <1>1 DEF TypeOK, Live
    <3>4. ASSUME NEW s \in Live, seq[s] <= to, Carried(all) = all
          PROVE  Told(m.gw, s) \/ \E o \in Said(m.opts) : Tells(o, m.gw, s)
      <4>1. CASE seq[s] <= gws[i].seq_out
        BY <2>1, <3>2, <4>1 DEF Heard
      <4>2. CASE gws[i].seq_out < seq[s]
        <5>1. Sorted(out, Live, seq)
          BY <1>1, <3>2 DEF TableInv, OutListSorted
        <5>2. Binding(s, h) \in Said(m.opts)
          BY <2>4, <2>5, <3>4, <4>2, <5>1
        <5>3. gws[i].gw = Hoag => h = "new"
          BY <1>4, <2>1 DEF HomeSlot, EmptyBefore
        <5>4. Tells(Binding(s, h), m.gw, s)
          BY <5>3 DEF Tells, Binding
        <5> QED BY <5>2, <5>4
      <4> QED BY <4>1, <4>2, <2>3, <3>3
    <3>5. \A x \in net' : x \in net \/ (x = m /\ Carried(all) = all)
      BY <2>2, <2>10 DEF Sent
    <3> HIDE DEF m
    <3>6. m.seq = to
      BY DEF m
    <3>7. \A x \in net', s \in Live : seq[s] <= x.seq =>
            Told(x.gw, s) \/ \E o \in Said(x.opts) : Tells(o, x.gw, s)
      BY <3>2, <3>4, <3>5, <3>6 DEF Heard
    <3> QED BY <2>2, <2>6, <3>1, <3>2, <3>7 DEF Heard, Known
  <2> QED BY <2>8, <2>9, <2>10 DEF HeardInv
<1>15. ASSUME NEW p \in Peers, NewGw(p) PROVE HeardInv'
  <2> DEFINE from == IF out.min # LIST_END THEN seq[out.min] - 1 ELSE min_ack
  <2>1. PICK i \in Gws : /\ FreeFor(p, i)
                         /\ gws' = [gws EXCEPT ![i] = [gw |-> p, seq_out |-> from, non_ack |-> 0]]
                         /\ min_ack' = from
    BY <1>15 DEF NewGw
  <2>2. UNCHANGED <<vars, send, wire, lossless>>
    BY <1>15 DEF NewGw
  <2>3. \A j \in Gws : /\ gws'[j].seq_out = IF j = i THEN from ELSE gws[j].seq_out
                       /\ gws'[j].gw = IF j = i THEN p ELSE gws[j].gw
    BY <1>1, <2>1
  <2>4. from \in Nat
    BY <1>1, FromIsNat DEF RouterInv
  <2>5. intact => /\ from < next_out
                  /\ \A s \in Live : from < seq[s]
    <3> SUFFICES ASSUME intact
                 PROVE  from < next_out /\ \A s \in Live : from < seq[s]
      OBVIOUS
    <3>1. FirstIs(Live, seq, out.min)
      BY <1>1 DEF TableInv, OutListSorted, Sorted
    <3>2. CASE out.min = LIST_END
      BY <1>4, <3>1, <3>2 DEF FirstIs, NumbersGiven
    <3>3. CASE out.min # LIST_END
      <4>1. out.min \in Live /\ \A s \in Live : seq[out.min] <= seq[s]
        BY <3>1, <3>3 DEF FirstIs
      <4>2. seq[out.min] \in Nat /\ seq[out.min] < next_out /\ \A s \in Live : seq[s] \in Nat
        BY <1>1, <4>1 DEF TypeOK, Live, TableInv, SeqsDistinct
      <4> QED BY <1>1, <3>3, <4>1, <4>2
    <3> QED BY <3>2, <3>3
  <2> HIDE DEF from
  <2>6. HomeSlot'
    <3>1. p = Hoag <=> i = 0
      BY <2>1 DEF FreeFor
    <3> QED BY <1>4, <2>3, <3>1 DEF HomeSlot, Known
  <2>7. EmptyBefore'
    BY <1>4, <2>2 DEF EmptyBefore, vars, loop
  <2>8. ASSUME intact' PROVE NumbersGiven'
    BY <1>4, <2>1, <2>2, <2>3, <2>5, <2>8 DEF NumbersGiven, vars, ghost
  <2>9. ASSUME intact', lossless' PROVE Heard'
    <3>1. /\ Live' = Live /\ \A s \in Live : seq'[s] = seq[s]
          /\ \A g, s : Told(g, s)' <=> Told(g, s)
          /\ \A s, o, g : Tells(o, g, s)' <=> Tells(o, g, s)
      BY <2>2, TellsFrame DEF Told, vars, slots
    <3>2. Heard /\ intact
      BY <1>2, <1>4, <2>2, <2>9
    <3>3. \A s \in Live : seq[s] \in Nat
      BY <1>1 DEF TypeOK, Live
    <3>4. ASSUME NEW j \in Gws, NEW s \in Live, Known(j)', seq[s] <= gws'[j].seq_out
          PROVE  Told(gws'[j].gw, s)
      <4>1. j # i
        BY <2>3, <2>4, <2>5, <3>2, <3>3, <3>4
      <4> QED BY <2>3, <3>2, <3>4, <4>1 DEF Heard, Known
    <3> QED BY <2>2, <3>1, <3>2, <3>4 DEF Heard
  <2> QED BY <2>6, <2>7, <2>8, <2>9 DEF HeardInv
<1>16. ASSUME NEW m \in net, Receive(m) PROVE HeardInv'
  <2>1. /\ net' \subseteq net /\ acks' \subseteq acks \cup {[gw |-> m.gw, seq |-> m.seq]}
        /\ heard' = [heard EXCEPT ![m.gw] = @ \cup Said(m.opts)]
        /\ UNCHANGED <<vars, mob, send, lossless>>
    BY <1>16 DEF Receive, Delivered, Sent, Said
  <2>2. \A g \in Peers : heard[g] \subseteq heard'[g]
    BY <1>1, <1>3, <2>1
  <2>3. Said(m.opts) \subseteq heard'[m.gw]
    BY <1>1, <1>3, <2>1
  <2>4. HomeSlot' /\ EmptyBefore' /\ (intact' => NumbersGiven')
    BY <1>4, <2>1 DEF HomeSlot, EmptyBefore, NumbersGiven, Known, vars, loop, ghost
  <2>5. ASSUME intact', lossless' PROVE Heard'
    <3>1. /\ Live' = Live /\ \A s \in Live : seq'[s] = seq[s]
          /\ \A s, o, g : Tells(o, g, s)' <=> Tells(o, g, s)
      BY <2>1, TellsFrame DEF vars, slots
    <3>2. \A g \in Peers, s \in Live : Told(g, s) => Told(g, s)'
      BY <1>1, <2>1, <2>2, HeardGrows
    <3>3. Heard /\ intact
      BY <1>2, <1>4, <2>1, <2>5
    <3>4. ASSUME NEW s \in Live, seq[s] <= m.seq PROVE Told(m.gw, s)'
      <4>1. CASE Told(m.gw, s)
        BY <1>3, <3>2, <4>1
      <4>2. CASE \E o \in Said(m.opts) : Tells(o, m.gw, s)
        BY <2>3, <3>1, <4>2 DEF Told
      <4> QED BY <3>3, <3>4, <4>1, <4>2 DEF Heard
    <3>5. \A a \in acks', s \in Live : seq[s] <= a.seq => Told(a.gw, s)'
      BY <1>3, <2>1, <3>2, <3>3, <3>4 DEF Heard
    <3>6. \A x \in net', s \in Live : seq[s] <= x.seq =>
             Told(x.gw, s)' \/ \E o \in Said(x.opts) : Tells(o, x.gw, s)'
      BY <1>3, <2>1, <3>1, <3>2, <3>3 DEF Heard
    <3>7. ASSUME NEW i \in Gws, NEW s \in Live, Known(i), seq[s] <= gws[i].seq_out
          PROVE  Told(gws[i].gw, s)'
      <4>1. gws[i].gw \in Peers /\ Told(gws[i].gw, s)
        BY <1>3, <3>3, <3>7 DEF Heard
      <4>2. \E o \in heard'[gws[i].gw] : Tells(o, gws[i].gw, s)
        BY <4>1, <2>2 DEF Told
      <4>3. gws' = gws
        BY <2>1
      <4> QED BY <4>2, <4>3, <3>1 DEF Told
    <3> QED BY <2>1, <3>1, <3>5, <3>6, <3>7 DEF Heard, Known
  <2> QED BY <2>4, <2>5 DEF HeardInv
<1>17. ASSUME NEW a \in acks, IncomingAck(a) PROVE HeardInv'
  <2>1. PICK i \in Gws :
           /\ gws[i].gw = a.gw
           /\ gws' = [gws EXCEPT ![i] = [@ EXCEPT !.seq_out = a.seq, !.non_ack = 0]]
           /\ min_ack' = min_ack \/ \E j \in Gws : min_ack' = gws'[j].seq_out
    BY <1>1, <1>17, AckIs
  <2>2. /\ UNCHANGED <<slots, next_out, loop, ghost, send, net, heard, lossless>>
        /\ acks' \subseteq acks
    BY <1>17 DEF IncomingAck, Delivered
  <2>3. \A j \in Gws : /\ gws'[j].seq_out = IF j = i THEN a.seq ELSE gws[j].seq_out
                       /\ gws'[j].gw = gws[j].gw
    BY <1>1, <2>1 DEF GwRecords
  <2>4. HomeSlot' /\ EmptyBefore'
    BY <1>4, <2>2, <2>3 DEF HomeSlot, EmptyBefore, Known, loop
  <2>5. ASSUME intact' PROVE NumbersGiven'
    BY <1>2, <1>3, <1>4, <2>1, <2>2, <2>3, <2>5 DEF NumbersGiven
  <2>6. ASSUME intact', lossless' PROVE Heard'
    <3>1. /\ Live' = Live /\ \A s \in Live : seq'[s] = seq[s]
          /\ \A g, s : Told(g, s)' <=> Told(g, s)
          /\ \A s, o, g : Tells(o, g, s)' <=> Tells(o, g, s)
      BY <2>2 DEF Told, slots, Live, Tells
    <3>2. Heard
      BY <1>2, <1>4, <2>2, <2>6
    <3> QED BY <2>1, <2>2, <2>3, <3>1, <3>2 DEF Heard, Known
  <2> QED BY <2>4, <2>5, <2>6 DEF HeardInv
<1> QED BY <1>6, <1>7, <1>8, <1>9, <1>10, <1>11, <1>12, <1>13, <1>14, <1>15, <1>16, <1>17
        DEF RouterNext, SendLoop

LEMMA HeardSafe == RouterSpec => []HeardInv
<1>1. RouterInv /\ HeardInv /\ [RouterNext]_rvars => HeardInv'
  BY HeardStep
<1> QED BY <1>1, HeardInit, RouterSafe, PTL DEF RouterSpec

\* The home agent heard, as new, of every local route with a number that it
\* acknowledged, whatever was lost, repeated or overtaken.
THEOREM HomeAgentIsTold == RouterSpec => []HomeAgentHeard
<1>1. RouterInv /\ HeardInv => HomeAgentHeard
  <2> SUFFICES ASSUME RouterInv, HeardInv, intact, lossless, Known(0), NEW s \in Live,
                      seq[s] <= gws[0].seq_out
               PROVE  Binding(s, "new") \in heard[gws[0].gw]
    BY DEF HomeAgentHeard, Binding
  <2>1. 0 \in Gws /\ gws[0].gw = Hoag /\ Hoag \in Peers
    BY ConstantTypes DEF Gws, HeardInv, HomeSlot, Peers
  <2>2. PICK o \in heard[Hoag] : Tells(o, Hoag, s)
    BY <2>1 DEF HeardInv, Heard, Told
  <2>3. o \in Options
    BY <2>1 DEF RouterInv, RouterTypeOK
  <2>4. o = Binding(s, "new")
    BY <2>2, <2>3 DEF Tells, Binding, Options
  <2> QED BY <2>1, <2>2, <2>4
<1> QED BY <1>1, RouterSafe, HeardSafe, PTL

-----------------------------------------------------------------------------
(* The timer *)

\* What gateway i was told, and who is owed it.
ToldAll(i) == \A s \in Live : \E o \in heard[gws[i].gw] : o.bind /\ o.num = seq[s]

Owed(i) == Known(i) /\ (i = 0 \/ dropped = {})

\* With the timer off, a gateway was told of everything, or the run of
\* mob_send_message that goes on has not come to it or will set the timer.
QuietInv ==
  intact /\ lossless /\ gapless /\ timer = "off" =>
    \A i \in Gws : Owed(i) =>
      ToldAll(i) \/ (sending >= 0 /\ (sent \/ sending <= i))

\* No step but a DAO adds a local route or gives one another number.
LEMMA LiveShrinks ==
  ASSUME (\E n \in Nodes : NoPathDao(n) \/ Lookup(n)) \/ Tick \/ CheckStart \/ CheckNext
         \/ UNCHANGED vars
  PROVE  Live' \subseteq Live /\ \A s \in Live' : seq'[s] = seq[s]
<1> DEFINE Fewer == Live' \subseteq Live /\ \A s \in Live' : seq'[s] = seq[s]
<1> USE DEF slots
<1>1. ASSUME UNCHANGED <<isused, learned_from, seq>> PROVE Fewer
  BY <1>1 DEF Live
<1>2. ASSUME NEW s, RouteRm(s), UNCHANGED <<learned_from, seq>> PROVE Fewer
  BY <1>2 DEF Live, RouteRm
<1>3. ASSUME NEW n \in Nodes, NoPathDao(n) \/ Lookup(n) PROVE Fewer
  BY <1>1, <1>2, <1>3 DEF NoPathDao, Lookup
<1>4. CASE CheckNext
  BY <1>1, <1>2, <1>4 DEF CheckNext, CheckKeep, CheckDrop, CheckEnd
<1>5. CASE Tick \/ CheckStart \/ UNCHANGED vars
  BY <1>1, <1>5 DEF Tick, CheckStart, vars
<1> QED BY <1>3, <1>4, <1>5

LEMMA QuietStep ==
  ASSUME RouterInv, HeardInv, QuietInv, [RouterNext]_rvars
  PROVE  QuietInv'
<1>1. /\ RouterTypeOK /\ TypeOK /\ TableInv /\ [Next]_vars
      /\ gws \in [Gws -> GwRecords] /\ timer \in {"off", "once", "again"}
  <2>1. /\ RouterTypeOK /\ TypeOK /\ TableInv
        /\ gws \in [Gws -> GwRecords] /\ timer \in {"off", "once", "again"}
    BY DEF RouterInv, RouterTypeOK, GwRecords
  <2> QED BY <2>1, StepIsTable
<1>2. /\ 0 \in Gws /\ \A i \in Gws : i \in Nat /\ i <= NBackup
      /\ NBackup \in Nat /\ sending \in Int
  BY <1>1, ConstantTypes DEF Gws, RouterTypeOK
<1> SUFFICES ASSUME intact', lossless', gapless', timer' = "off",
                    NEW i \in Gws, Owed(i)'
             PROVE  ToldAll(i)' \/ (sending' >= 0 /\ (sent' \/ sending' <= i))
  BY DEF QuietInv
<1> DEFINE Goal == ToldAll(i)' \/ (sending' >= 0 /\ (sent' \/ sending' <= i))
<1>3. intact
  BY <1>1, NumbersGrow
<1>4. lossless /\ gapless /\ timer = "off" /\ Owed(i) =>
        ToldAll(i) \/ (sending >= 0 /\ (sent \/ sending <= i))
  BY <1>3 DEF QuietInv
<1> USE DEF mob, send, wire, fate
\* A step after which there is no more to say.
<1>5. ASSUME UNCHANGED gws, ToldAll(i), heard[gws[i].gw] \subseteq heard'[gws[i].gw],
             Live' \subseteq Live, \A s \in Live' : seq'[s] = seq[s]
      PROVE  ToldAll(i)'
  BY <1>5 DEF ToldAll
<1>6. ASSUME UNCHANGED <<mob, timer, send, heard, lossless, dropped, gapless>>,
             Live' \subseteq Live, \A s \in Live' : seq'[s] = seq[s]
      PROVE  Goal
  <2>1. Owed(i)
    BY <1>6 DEF Owed, Known
  <2>2. ToldAll(i) \/ (sending >= 0 /\ (sent \/ sending <= i))
    BY <1>4, <1>6, <2>1
  <2>3. ToldAll(i) => ToldAll(i)'
    BY <1>5, <1>6
  <2> QED BY <1>6, <2>2, <2>3
<1>7. ASSUME NEW n \in Nodes, RDao(n) PROVE FALSE
  BY <1>1, <1>7 DEF RDao, Arm
<1>8. ASSUME NEW n \in Nodes, RTable(n) PROVE Goal
  BY <1>6, <1>8, LiveShrinks DEF RTable, Record
<1>9. CASE RTick \/ UNCHANGED rvars
  <2>1. Tick \/ UNCHANGED vars
    BY <1>9 DEF RTick, rvars
  <2> QED BY <1>6, <1>9, <2>1, LiveShrinks DEF RTick, rvars
<1>10. CASE RCheck
  <2>1. CheckNext
    BY <1>10 DEF RCheck
  <2> QED BY <1>6, <1>10, <2>1, LiveShrinks DEF RCheck, Record
<1>11. ASSUME NEW p \in Peers, NewGw(p) PROVE FALSE
  BY <1>1, <1>11 DEF NewGw, Arm
<1>12. CASE FireNoHoag
  BY <1>12 DEF FireNoHoag
<1>13. CASE Fire
  BY <1>2, <1>13 DEF Fire
<1>14. ASSUME NEW j \in Gws, SendDrop(j) PROVE Goal
  <2>1. /\ gws' = [gws EXCEPT ![j].gw = NoGw] /\ dropped' = dropped \cup {gws[j].gw}
        /\ sending' = NBackup + 1 /\ sending = j
        /\ UNCHANGED <<vars, timer, sent, heard, lossless, gapless>>
    BY <1>14 DEF SendDrop, InLoop
  <2>2. i = 0 /\ j # 0 /\ Known(0)
    BY <1>1, <1>2, <2>1 DEF Owed, Known, GwRecords
  <2>3. gws'[0] = gws[0]
    BY <1>1, <1>2, <2>1, <2>2
  <2>4. ToldAll(0) \/ sent
    BY <1>2, <1>4, <2>1, <2>2 DEF Owed
  <2>5. ToldAll(0) => ToldAll(0)'
    <3>1. Live' = Live /\ seq' = seq
      BY <2>1 DEF vars, slots, Live
    <3> QED BY <3>1, <2>1, <2>3 DEF ToldAll
  <2> QED BY <1>2, <2>1, <2>2, <2>4, <2>5
<1>15. ASSUME NEW j \in Gws, SendUpdate(j) PROVE Goal
  <2>1. sending' = j + 1 /\ sent'
    BY <1>15 DEF SendUpdate
  <2> QED BY <1>2, <2>1
<1>16. ASSUME NEW j \in Gws, SendSkip(j) PROVE Goal
  <2>1. /\ ~Behind(j) /\ sending = j /\ sending' = j + 1
        /\ UNCHANGED <<vars, mob, timer, sent, heard, lossless, gapless, dropped>>
    BY <1>16 DEF SendSkip, InLoop
  <2>2. Owed(i) /\ Live' = Live /\ seq' = seq
    BY <2>1 DEF Owed, Known, vars, slots, Live
  <2>3. CASE i = j
    <3>1. Known(i) /\ next_out \in Nat /\ gws[i].seq_out \in Nat
          /\ next_out - gws[i].seq_out <= 1
      BY <1>1, <2>1, <2>2, <2>3 DEF Owed, Behind, TypeOK, GwRecords
    <3>2. ASSUME NEW s \in Live PROVE Told(gws[i].gw, s)
      <4>1. seq[s] \in Nat /\ seq[s] < next_out
        BY <1>1 DEF TypeOK, TableInv, SeqsDistinct, Live
      <4>2. seq[s] <= gws[i].seq_out
        BY <3>1, <4>1
      <4>3. Heard
        BY <1>3, <2>1 DEF HeardInv
      <4> QED BY <3>1, <4>2, <4>3 DEF Heard
    <3>3. ToldAll(i)
      BY <3>2 DEF ToldAll, Told, Tells
    <3> QED BY <1>5, <2>1, <2>2, <3>3
  <2>4. CASE i # j
    <3>1. ToldAll(i) => ToldAll(i)'
      BY <1>5, <2>1, <2>2
    <3> QED BY <1>2, <1>4, <2>1, <2>2, <2>4, <3>1
  <2> QED BY <2>3, <2>4
<1>17. CASE SendEnd
  <2>1. /\ sending = NBackup + 1 /\ UNCHANGED <<vars, mob, heard, lossless, gapless, dropped>>
        /\ timer' = IF sent THEN "again" ELSE timer
    BY <1>17 DEF SendEnd, InLoop
  <2>2. Owed(i) /\ Live' = Live /\ seq' = seq
    BY <2>1 DEF Owed, Known, vars, slots, Live
  <2>3. timer = "off" /\ ~sent
    BY <2>1
  <2>4. ToldAll(i)
    BY <1>2, <1>4, <2>1, <2>2, <2>3
  <2> QED BY <1>5, <2>1, <2>2, <2>4
<1>18. ASSUME NEW m \in net, Receive(m) PROVE Goal
  <2>1. /\ UNCHANGED <<vars, mob, timer, send, lossless, gapless, dropped>>
        /\ heard' = [heard EXCEPT ![m.gw] = @ \cup {m.opts[k] : k \in DOMAIN m.opts}]
    BY <1>18 DEF Receive
  <2>2. Owed(i) /\ Live' = Live /\ seq' = seq
    BY <2>1 DEF Owed, Known, vars, slots, Live
  <2>3. heard[gws[i].gw] \subseteq heard'[gws[i].gw]
    BY <1>1, <2>1 DEF RouterTypeOK
  <2>4. ToldAll(i) => ToldAll(i)'
    BY <1>5, <2>1, <2>2, <2>3
  <2> QED BY <1>4, <2>1, <2>2, <2>4
<1>19. ASSUME NEW a \in acks, IncomingAck(a) PROVE Goal
  <2>1. PICK j \in Gws : gws' = [gws EXCEPT ![j] = [@ EXCEPT !.seq_out = a.seq, !.non_ack = 0]]
    BY <1>1, <1>19, AckIs
  <2>2. gws'[i].gw = gws[i].gw
    BY <1>1, <2>1 DEF GwRecords
  <2>3. UNCHANGED <<slots, timer, send, heard, fate>>
    BY <1>19 DEF IncomingAck
  <2>4. Owed(i) /\ Live' = Live /\ seq' = seq
    BY <2>2, <2>3 DEF Owed, Known, slots, Live
  <2>5. ToldAll(i) => ToldAll(i)'
    BY <2>2, <2>3, <2>4 DEF ToldAll
  <2> QED BY <1>4, <2>3, <2>4, <2>5
<1> QED BY <1>7, <1>8, <1>9, <1>10, <1>11, <1>12, <1>13, <1>14, <1>15, <1>16, <1>17,
           <1>18, <1>19 DEF RouterNext, SendLoop

LEMMA QuietSafe == RouterSpec => []QuietInv
<1>1. RouterInit => QuietInv
  BY DEF RouterInit, QuietInv, Owed, Known
<1>2. RouterInv /\ HeardInv /\ QuietInv /\ [RouterNext]_rvars => QuietInv'
  BY QuietStep
<1> QED BY <1>1, <1>2, RouterSafe, HeardSafe, PTL DEF RouterSpec

\* When the timer is off nothing is left to say to the home agent, nor to a
\* backup while no gateway was given up.
THEOREM OffMeansTold == RouterSpec => []QuietIsTold
<1>1. QuietInv => QuietIsTold
  BY DEF QuietInv, QuietIsTold, Owed, ToldAll, Idle
<1> QED BY <1>1, QuietSafe, PTL

-----------------------------------------------------------------------------
(* What every gateway was told of nodes that are gone *)

\* All that was said to g, what is on its way included.
StatedTo(g) == heard[g] \cup UNION {Said(m.opts) : m \in {x \in net : x.gw = g}}

Kept == Peers \ dropped

\* Nothing was said to a gateway that was never known.
Strangers ==
  \A g \in Kept : (\A i \in Gws : gws[i].gw # g) =>
    /\ heard[g] = {}
    /\ \A m \in net : m.gw # g
    /\ \A a \in acks : a.gw # g

\* The bindings in output_buffer are those of local routes.
BufferIsLive ==
  \A o \in Said(buf) : o.bind =>
    o.num < next_out /\ \E s \in Live : o.addr = ipaddr[s] /\ o.num = seq[s]

\* q reports the deletion in slot d.
Reports(q, d) == ~q.bind /\ q.addr = deleted[d].addr /\ q.num = deleted[d].seq

\* Gateway g needs the deletion in slot d no more.
Settled(g, d) ==
  \/ \E q \in heard[g] : Reports(q, d)
  \/ \A o \in StatedTo(g) : o.bind /\ o.addr = deleted[d].addr => deleted[d].seq < o.num

\* A node that is gone and was announced to g: its deletion is recorded, or g
\* has heard of it.
GoneIsKnown ==
  \A g \in Kept : \A o \in StatedTo(g) :
    o.bind =>
      /\ o.num < next_out
      /\ o.addr \notin Present =>
           \/ \E d \in Tombs : deleted[d].addr = o.addr /\ o.num < deleted[d].seq
           \/ \E q \in heard[g] : ~q.bind /\ q.addr = o.addr /\ o.num < q.num

\* A number that was acknowledged, or is about to be, covers the deletions up to it.
DeletionsHeard ==
  \A g \in Kept, d \in Tombs :
    /\ \A i \in Gws : gws[i].gw = g /\ deleted[d].seq <= gws[i].seq_out => Settled(g, d)
    /\ \A a \in acks : a.gw = g /\ deleted[d].seq <= a.seq => Settled(g, d)
    /\ \A m \in net : m.gw = g /\ deleted[d].seq <= m.seq =>
         Settled(g, d) \/ \E q \in Said(m.opts) : Reports(q, d)

StaleInv ==
  /\ Strangers
  /\ intact => BufferIsLive
  /\ intact /\ lossless /\ recorded /\ next_out <= ByteMod =>
       GoneIsKnown /\ DeletionsHeard

LEMMA StaleInit == RouterInit => StaleInv
<1> SUFFICES ASSUME RouterInit PROVE StaleInv
  OBVIOUS
<1>1. /\ net = {} /\ acks = {} /\ buf = <<>> /\ heard = [p \in Peers |-> {}]
      /\ \A g \in Kept : heard[g] = {}
  BY DEF RouterInit, Kept
<1>2. Strangers
  BY <1>1 DEF Strangers
<1>3. BufferIsLive
  BY <1>1 DEF BufferIsLive, Said
<1>4. \A g \in Kept : StatedTo(g) = {}
  BY <1>1 DEF StatedTo
<1>5. Tombs = {}
  BY DEF RouterInit, Init, Tombs
<1>6. GoneIsKnown /\ DeletionsHeard
  BY <1>4, <1>5 DEF GoneIsKnown, DeletionsHeard
<1> QED BY <1>2, <1>3, <1>6 DEF StaleInv

\* A local node that the step takes from the table, seen from Present.
LEMMA LeavesPresent ==
  ASSUME TypeOK, TableInv, NEW n \in Present, n \notin Present'
  PROVE  \E s \in Live : ipaddr[s] = n
<1>1. n \in Nodes /\ SlotsOf(n) # {}
  BY DEF Present
<1>2. PICK s \in SlotsOf(n) : TRUE
  BY <1>1
<1>3. s \in Slots /\ isused[s] /\ ipaddr[s] = n
  BY <1>2 DEF SlotsOf
<1>4. learned_from[s] = "DAO"
  BY <1>1, <1>3 DEF TableInv, LocalIsNode
<1> QED BY <1>3, <1>4 DEF Live

\* A step that leaves the table alone.
LEMMA TableFrame ==
  ASSUME UNCHANGED vars
  PROVE  /\ Live' = Live /\ Present' = Present /\ Tombs' = Tombs
         /\ ipaddr' = ipaddr /\ seq' = seq /\ deleted' = deleted /\ next_out' = next_out
         /\ intact' = intact /\ \A q, d : Reports(q, d)' <=> Reports(q, d)
  BY DEF vars, slots, ghost, Live, Present, SlotsOf, Tombs, Reports

\* What was said are options.
LEMMA StatedIsTyped ==
  ASSUME RouterTypeOK, NEW g \in Peers, NEW o \in StatedTo(g)
  PROVE  o \in Options
<1>1. CASE o \in heard[g]
  BY <1>1 DEF RouterTypeOK
<1>2. CASE o \notin heard[g]
  <2>1. PICK m \in net : o \in Said(m.opts)
    BY <1>2 DEF StatedTo
  <2> DEFINE p == m.opts
  <2>2. p \in Seq(Options)
    BY DEF RouterTypeOK, Updates
  <2> HIDE DEF p
  <2>3. Said(p) \in SUBSET Options
    BY <2>2, SaidBoth
  <2> QED BY <2>1, <2>3 DEF p
<1> QED BY <1>1, <1>2

\* A step that changes nothing that is stated here.
LEMMA SilentStale ==
  ASSUME StaleInv, UNCHANGED <<vars, gws, net, acks, heard, dropped>>
  PROVE  /\ Strangers'
         /\ GoneIsKnown /\ DeletionsHeard => GoneIsKnown' /\ DeletionsHeard'
<1>1. /\ Kept' = Kept /\ Present' = Present /\ Tombs' = Tombs /\ deleted' = deleted
      /\ next_out' = next_out /\ \A g : StatedTo(g)' = StatedTo(g)
      /\ \A q, d : Reports(q, d)' <=> Reports(q, d)
  BY TableFrame DEF Kept, StatedTo
<1>2. \A g, d : Settled(g, d)' <=> Settled(g, d)
  BY <1>1 DEF Settled
<1>3. Strangers'
  BY <1>1 DEF StaleInv, Strangers
<1>4. ASSUME GoneIsKnown, DeletionsHeard PROVE GoneIsKnown' /\ DeletionsHeard'
  BY <1>1, <1>2, <1>4 DEF GoneIsKnown, DeletionsHeard
<1> QED BY <1>3, <1>4

\* Every binding that was said and every deletion on record, after a step that
\* says nothing and hears nothing.
LEMMA StaleFrame ==
  ASSUME RouterInv, HeardInv, StaleInv, [RouterNext]_rvars,
         NodeStep \/ UNCHANGED vars,
         UNCHANGED <<gws, net, acks, heard, lossless, dropped>>,
         recorded' => recorded /\
           (Tombs # Deletes \/ Present' = Present \/ \E n \in Nodes : Dao(n)),
         intact' => BufferIsLive'
  PROVE  StaleInv'
<1>1. /\ RouterTypeOK /\ TypeOK /\ TableInv /\ [Next]_vars /\ next_out \in Nat
      /\ net \in SUBSET Updates /\ acks \in SUBSET Acks
      /\ gws \in [Gws -> GwRecords] /\ heard \in [Peers -> SUBSET Options]
  <2>1. /\ RouterTypeOK /\ TypeOK /\ TableInv /\ next_out \in Nat
        /\ net \in SUBSET Updates /\ acks \in SUBSET Acks
        /\ gws \in [Gws -> GwRecords] /\ heard \in [Peers -> SUBSET Options]
    BY DEF RouterInv, RouterTypeOK, GwRecords, TypeOK
  <2> QED BY <2>1, StepIsTable
<1>2. next_out <= next_out' /\ next_out' \in Nat /\ (intact' => intact)
  <2>1. TypeOK'
    BY <1>1, TypeStep
  <2> QED BY <1>1, <2>1, NumbersGrow DEF TypeOK
<1>3. Kept' = Kept /\ \A g : StatedTo(g)' = StatedTo(g)
  BY DEF Kept, StatedTo
<1>4. Strangers'
  BY <1>3 DEF StaleInv, Strangers
<1>5. ASSUME intact', lossless', recorded', next_out' <= ByteMod
      PROVE  GoneIsKnown' /\ DeletionsHeard'
  <2>1. next_out <= ByteMod
    BY <1>1, <1>2, <1>5, ConstantTypes
  <2>2. GoneIsKnown /\ DeletionsHeard /\ NumbersGiven
    BY <1>2, <1>5, <2>1 DEF StaleInv, HeardInv
  <2>3. \A d \in Tombs : d \in Tombs' /\ deleted'[d] = deleted[d]
    BY <1>1, TombsStay
  <2>4. ASSUME NEW g \in Kept, NEW o \in StatedTo(g), o.bind
        PROVE  /\ o.num < next_out'
               /\ o.addr \notin Present' =>
                    \/ \E d \in Tombs' : deleted'[d].addr = o.addr /\ o.num < deleted'[d].seq
                    \/ \E q \in heard[g] : ~q.bind /\ q.addr = o.addr /\ o.num < q.num
    <3>1. /\ o.num < next_out
          /\ o.addr \notin Present =>
               \/ \E d \in Tombs : deleted[d].addr = o.addr /\ o.num < deleted[d].seq
               \/ \E q \in heard[g] : ~q.bind /\ q.addr = o.addr /\ o.num < q.num
      BY <2>2, <2>4 DEF GoneIsKnown
    <3>2. o.num \in Nat
      BY <1>1, <2>4, StatedIsTyped DEF Kept, Options
    <3>3. o.num < next_out'
      BY <1>1, <1>2, <3>1, <3>2
    <3>4. ASSUME o.addr \notin Present', o.addr \in Present
          PROVE  \E d \in Tombs' : deleted'[d].addr = o.addr /\ o.num < deleted'[d].seq
      <4>1. PICK s \in Live : ipaddr[s] = o.addr
        BY <1>1, <3>4, LeavesPresent
      <4>2. Tombs # Deletes \/ \E n \in Nodes : Dao(n)
        BY <1>5, <3>4
      <4>3. ~\E n \in Nodes : Dao(n)
        BY <1>1, <1>5, <3>4, <4>1, DaoLoses
      <4>4. PICK d \in Deletes : deleted'[d].used /\ deleted'[d].addr = ipaddr[s]
                                   /\ deleted'[d].seq = next_out
        BY <1>1, <1>5, <3>4, <4>1, <4>2, <4>3, LossStep
      <4> QED BY <3>1, <4>1, <4>4 DEF Tombs
    <3> QED BY <2>3, <3>1, <3>3, <3>4
  <2>5. GoneIsKnown'
    BY <1>3, <2>4 DEF GoneIsKnown
  <2>6. ASSUME NEW g \in Kept, NEW d \in Tombs'
        PROVE  /\ \A i \in Gws : gws[i].gw = g /\ deleted'[d].seq <= gws[i].seq_out => Settled(g, d)'
               /\ \A a \in acks : a.gw = g /\ deleted'[d].seq <= a.seq => Settled(g, d)'
               /\ \A m \in net : m.gw = g /\ deleted'[d].seq <= m.seq =>
                    Settled(g, d)' \/ \E q \in Said(m.opts) : Reports(q, d)'
    <3>1. CASE d \in Tombs /\ deleted'[d] = deleted[d]
      <4>1. /\ \A q : Reports(q, d)' <=> Reports(q, d)
            /\ Settled(g, d)' <=> Settled(g, d)
        BY <1>3, <3>1 DEF Reports, Settled
      <4> QED BY <2>2, <3>1, <4>1 DEF DeletionsHeard
    <3>2. CASE deleted'[d].seq = next_out
      <4>1. \A i \in Gws : gws[i].seq_out \in Nat /\ gws[i].seq_out < next_out
        BY <1>1, <2>2 DEF NumbersGiven, GwRecords
      <4>2. /\ \A a \in acks : a.seq \in Nat /\ a.seq < next_out
            /\ \A m \in net : m.seq \in Nat /\ m.seq < next_out
        BY <1>1 DEF RouterTypeOK, Acks, Updates
      <4> QED BY <1>1, <3>2, <4>1, <4>2
    <3> QED BY <1>1, <3>1, <3>2, NewTombs
  <2>7. DeletionsHeard'
    BY <1>3, <2>6 DEF DeletionsHeard
  <2> QED BY <2>5, <2>7
<1> QED BY <1>4, <1>5 DEF StaleInv

\* While the numbers fit the byte a deletion has for them, the byte is the number.
LEMMA ByteIsSeq ==
  ASSUME TypeOK, TableInv, next_out <= ByteMod, NEW d \in Tombs
  PROVE  ByteSeq(d) = deleted[d].seq /\ deleted[d].seq \in Nat
<1>1. deleted[d].seq \in Nat /\ deleted[d].seq < next_out /\ next_out \in Nat
  BY DEF TypeOK, Tombstones, Tombs, TableInv, SeqsDistinct
<1>2. ByteMod \in Nat /\ deleted[d].seq < ByteMod
  BY <1>1, ConstantTypes
<1> DEFINE k == deleted[d].seq
<1>3. k \in Nat /\ k < ByteMod
  BY <1>1, <1>2
<1> HIDE DEF k
<1>4. k % ByteMod = k
  BY <1>2, <1>3
<1> QED BY <1>1, <1>4 DEF ByteSeq, k

\* What SendUpdate puts in the buffer are bindings of local routes, and every
\* deletion on record with a number the update stands for.
LEMMA UpdateSays ==
  ASSUME RouterInv, StaleInv, intact, NEW i \in Gws, SendUpdate(i)
  PROVE  /\ buf' \in Seq(Options)
         /\ BufferIsLive'
         /\ next_out <= ByteMod =>
              \A d \in Tombs : deleted[d].seq <= UpTo(i) => Deletion(d) \in Said(buf')
<1> DEFINE to   == UpTo(i)
           h    == IF handoff = "unknown" THEN "unknown" ELSE "new"
           new  == Bindings(gws[i].seq_out, to, h)
           gone == Deletions(to)
<1>1. /\ RouterTypeOK /\ TypeOK /\ TableInv /\ Behind(i) /\ BufferIsLive
      /\ buf' = buf \o new \o gone /\ UNCHANGED vars
      /\ gws[i].seq_out \in Nat /\ h \in {"new", "unknown"}
  BY DEF RouterInv, RouterTypeOK, SendUpdate, StaleInv
<1>2. to \in Nat
  BY <1>1, UpToIs
<1>3. /\ buf \o new \o gone \in Seq(Options)
      /\ Said(buf \o new \o gone) = Said(buf) \cup Said(new) \cup Said(gone)
  BY <1>1, AllIs
<1>4. Sorted(out, Live, seq)
  BY <1>1 DEF TableInv, OutListSorted
<1>5. \A o \in Said(new) : \E s \in Live : o = Binding(s, h)
  BY <1>1, <1>2, <1>4, BindingsAre
<1>6. Said(gone) = {Deletion(d) : d \in {e \in Deletes : InRange(e, to)}}
  BY <1>1, <1>2, DeletionsAre
<1> HIDE DEF to, new, gone, h
<1>7. Said(buf') = Said(buf) \cup Said(new) \cup Said(gone)
  BY <1>1, <1>3
<1>8. BufferIsLive'
  <2>1. ASSUME NEW o \in Said(buf'), o.bind
        PROVE  o.num < next_out /\ \E s \in Live : o.addr = ipaddr[s] /\ o.num = seq[s]
    <3>1. CASE o \in Said(buf)
      BY <1>1, <2>1, <3>1 DEF BufferIsLive
    <3>2. CASE o \in Said(new)
      <4>1. PICK s \in Live : o = Binding(s, h)
        BY <1>5, <3>2
      <4>2. seq[s] < next_out
        BY <1>1 DEF TableInv, SeqsDistinct
      <4> QED BY <4>1, <4>2 DEF Binding
    <3>3. CASE o \in Said(gone)
      BY <1>6, <2>1, <3>3 DEF Deletion
    <3> QED BY <1>7, <3>1, <3>2, <3>3
  <2> QED BY <1>1, <2>1, TableFrame DEF BufferIsLive
<1>9. ASSUME next_out <= ByteMod, NEW d \in Tombs, deleted[d].seq <= to
      PROVE  Deletion(d) \in Said(buf')
  <2>1. ByteSeq(d) = deleted[d].seq /\ deleted[d].seq \in Nat
    BY <1>1, <1>9, ByteIsSeq
  <2>2. d \in Deletes /\ InRange(d, to)
    BY <1>2, <1>9, <2>1, ConstantTypes DEF InRange, Tombs
  <2> QED BY <1>6, <1>7, <2>2
<1> QED BY <1>1, <1>3, <1>8, <1>9 DEF to

LEMMA SendUpdateStale ==
  ASSUME RouterInv, StaleInv, intact, lossless', recorded, next_out <= ByteMod,
         NEW i \in Gws, SendUpdate(i)
  PROVE  GoneIsKnown' /\ DeletionsHeard'
<1> DEFINE g0 == gws[i].gw
           to == UpTo(i)
           m  == [gw |-> g0, seq |-> to, opts |-> buf']
<1>1. /\ RouterTypeOK /\ TypeOK /\ TableInv /\ gws \in [Gws -> GwRecords]
  BY DEF RouterInv, RouterTypeOK, GwRecords
<1>2. /\ BufferIsLive'
      /\ \A d \in Tombs : deleted[d].seq <= to => Deletion(d) \in Said(buf')
  BY UpdateSays
<1>3. /\ UNCHANGED <<vars, acks, heard, dropped>>
      /\ \A j \in Gws : gws'[j].gw = gws[j].gw /\ gws'[j].seq_out = gws[j].seq_out
  <2>1. \/ UNCHANGED gws
        \/ gws' = [gws EXCEPT ![i].non_ack = @ + 1]
    BY DEF SendUpdate
  <2>2. UNCHANGED <<vars, acks, heard, dropped>>
    BY DEF SendUpdate
  <2> QED BY <1>1, <2>1, <2>2 DEF GwRecords
<1>4. lossless /\ \A x \in net' : x \in net \/ x = m
  BY DEF SendUpdate, Sent
<1> HIDE DEF m, to
<1>5. m.gw = g0 /\ m.seq = to /\ m.opts = buf'
  BY DEF m
<1>6. GoneIsKnown /\ DeletionsHeard
  BY <1>4 DEF StaleInv
<1>7. /\ Kept' = Kept /\ Present' = Present /\ Tombs' = Tombs /\ deleted' = deleted
      /\ next_out' = next_out /\ \A q, d : Reports(q, d)' <=> Reports(q, d)
  BY <1>3, TableFrame DEF Kept
\* What is new is a binding of a local route.
<1>8. ASSUME NEW g, NEW o \in StatedTo(g)', o.bind
      PROVE  \/ o \in StatedTo(g)
             \/ o.num < next_out /\ \E s \in Live : o.addr = ipaddr[s] /\ o.num = seq[s]
  <2>1. CASE o \in heard[g]
    BY <2>1 DEF StatedTo
  <2>2. CASE o \notin heard[g]
    <3>1. PICK x \in net' : x.gw = g /\ o \in Said(x.opts)
      BY <1>3, <1>8, <2>2 DEF StatedTo
    <3>2. CASE x \in net
      BY <3>1, <3>2 DEF StatedTo
    <3>3. CASE x = m
      <4>1. o \in Said(buf')
        BY <1>5, <3>1, <3>3
      <4> QED BY <1>2, <1>3, <1>8, <4>1, TableFrame DEF BufferIsLive
    <3> QED BY <1>4, <3>1, <3>2, <3>3
  <2> QED BY <2>1, <2>2
<1>9. GoneIsKnown'
  <2>1. ASSUME NEW g \in Kept, NEW o \in StatedTo(g)', o.bind
        PROVE  /\ o.num < next_out
               /\ o.addr \notin Present =>
                    \/ \E d \in Tombs : deleted[d].addr = o.addr /\ o.num < deleted[d].seq
                    \/ \E q \in heard[g] : ~q.bind /\ q.addr = o.addr /\ o.num < q.num
    <3>1. CASE o \in StatedTo(g)
      BY <1>6, <2>1, <3>1 DEF GoneIsKnown
    <3>2. CASE o.num < next_out /\ \E s \in Live : o.addr = ipaddr[s] /\ o.num = seq[s]
      <4>1. \A s \in Live : ipaddr[s] \in Present
        BY <1>1 DEF TableInv, LocalIsNode, Live, Present, SlotsOf
      <4> QED BY <3>2, <4>1
    <3> QED BY <1>8, <2>1, <3>1, <3>2
  <2> QED BY <1>3, <1>7, <2>1 DEF GoneIsKnown
<1>10. ASSUME NEW g, NEW d \in Tombs, Settled(g, d)
       PROVE  Settled(g, d)'
  <2>1. CASE \E q \in heard[g] : Reports(q, d)
    BY <1>3, <1>7, <2>1 DEF Settled
  <2>2. CASE \A o \in StatedTo(g) : o.bind /\ o.addr = deleted[d].addr => deleted[d].seq < o.num
    <3>1. ASSUME NEW o \in StatedTo(g)', o.bind, o.addr = deleted[d].addr
          PROVE  deleted[d].seq < o.num
      <4>1. CASE o \in StatedTo(g)
        BY <2>2, <3>1, <4>1
      <4>2. CASE \E s \in Live : o.addr = ipaddr[s] /\ o.num = seq[s]
        BY <1>1, <3>1, <4>2 DEF TableInv, DeletionIsOlder
      <4> QED BY <1>8, <3>1, <4>1, <4>2
    <3> QED BY <1>7, <3>1 DEF Settled
  <2> QED BY <1>10, <2>1, <2>2 DEF Settled
<1>11. DeletionsHeard'
  <2>1. ASSUME NEW g \in Kept, NEW d \in Tombs
        PROVE  /\ \A j \in Gws : gws'[j].gw = g /\ deleted[d].seq <= gws'[j].seq_out => Settled(g, d)'
               /\ \A a \in acks : a.gw = g /\ deleted[d].seq <= a.seq => Settled(g, d)'
               /\ \A x \in net' : x.gw = g /\ deleted[d].seq <= x.seq =>
                    Settled(g, d)' \/ \E q \in Said(x.opts) : Reports(q, d)
    <3>1. \A j \in Gws : gws'[j].gw = g /\ deleted[d].seq <= gws'[j].seq_out => Settled(g, d)'
      BY <1>3, <1>6, <1>10 DEF DeletionsHeard
    <3>2. \A a \in acks : a.gw = g /\ deleted[d].seq <= a.seq => Settled(g, d)'
      BY <1>6, <1>10 DEF DeletionsHeard
    <3>3. ASSUME NEW x \in net', x.gw = g, deleted[d].seq <= x.seq
          PROVE  Settled(g, d)' \/ \E q \in Said(x.opts) : Reports(q, d)
      <4>1. CASE x \in net
        BY <1>6, <1>10, <3>3, <4>1 DEF DeletionsHeard
      <4>2. CASE x = m
        <5>1. Deletion(d) \in Said(x.opts)
          BY <1>2, <1>5, <3>3, <4>2
        <5>2. Reports(Deletion(d), d)
          BY DEF Reports, Deletion
        <5> QED BY <5>1, <5>2
      <4> QED BY <1>4, <4>1, <4>2
    <3> QED BY <3>1, <3>2, <3>3
  <2> QED BY <1>3, <1>7, <2>1 DEF DeletionsHeard
<1> QED BY <1>9, <1>11

\* What is heard is what was on its way; an acknowledgement follows it.
LEMMA ReceiveStale ==
  ASSUME RouterInv, StaleInv, NEW m \in net, Receive(m)
  PROVE  /\ Strangers'
         /\ GoneIsKnown /\ DeletionsHeard => GoneIsKnown' /\ DeletionsHeard'
<1> DEFINE b == [gw |-> m.gw, seq |-> m.seq]
<1>1. /\ RouterTypeOK /\ heard \in [Peers -> SUBSET Options] /\ m.gw \in Peers
  BY DEF RouterInv, RouterTypeOK, Updates
<1>2. /\ net' \subseteq net /\ acks' \subseteq acks \cup {b}
      /\ heard' = [heard EXCEPT ![m.gw] = @ \cup Said(m.opts)]
      /\ UNCHANGED <<vars, gws, dropped>>
  BY DEF Receive, Delivered, Sent, Said, mob, fate
<1>3. /\ Kept' = Kept /\ Present' = Present /\ Tombs' = Tombs /\ deleted' = deleted
      /\ next_out' = next_out /\ \A q, d : Reports(q, d)' <=> Reports(q, d)
  BY <1>2, TableFrame DEF Kept
<1>4. \A g \in Kept : /\ heard[g] \subseteq heard'[g]
                      /\ heard'[g] \subseteq heard[g] \cup (IF g = m.gw THEN Said(m.opts) ELSE {})
  BY <1>1, <1>2 DEF Kept
<1>5. \A g \in Kept : StatedTo(g)' \subseteq StatedTo(g)
  BY <1>2, <1>4 DEF StatedTo
<1>6. Said(m.opts) \subseteq heard'[m.gw]
  BY <1>1, <1>2
<1>7. Strangers'
  <2>1. ASSUME NEW g \in Kept, \A i \in Gws : gws[i].gw # g
        PROVE  heard'[g] = {} /\ (\A x \in net' : x.gw # g) /\ (\A a \in acks' : a.gw # g)
    <3>1. heard[g] = {} /\ (\A x \in net : x.gw # g) /\ (\A a \in acks : a.gw # g)
      BY <2>1 DEF StaleInv, Strangers
    <3> QED BY <1>2, <1>4, <3>1
  <2> QED BY <1>2, <1>3, <2>1 DEF Strangers
<1>8. ASSUME GoneIsKnown, DeletionsHeard PROVE GoneIsKnown' /\ DeletionsHeard'
  <2>1. GoneIsKnown'
    BY <1>3, <1>4, <1>5, <1>8 DEF GoneIsKnown
  <2>2. ASSUME NEW g \in Kept, NEW d \in Tombs, Settled(g, d) PROVE Settled(g, d)'
    BY <1>3, <1>4, <1>5, <2>2 DEF Settled
  <2>3. ASSUME NEW g \in Kept, NEW d \in Tombs
        PROVE  /\ \A j \in Gws : gws[j].gw = g /\ deleted[d].seq <= gws[j].seq_out => Settled(g, d)'
               /\ \A a \in acks' : a.gw = g /\ deleted[d].seq <= a.seq => Settled(g, d)'
               /\ \A x \in net' : x.gw = g /\ deleted[d].seq <= x.seq =>
                    Settled(g, d)' \/ \E q \in Said(x.opts) : Reports(q, d)
    <3>1. /\ \A j \in Gws : gws[j].gw = g /\ deleted[d].seq <= gws[j].seq_out => Settled(g, d)'
          /\ \A a \in acks : a.gw = g /\ deleted[d].seq <= a.seq => Settled(g, d)'
          /\ \A x \in net : x.gw = g /\ deleted[d].seq <= x.seq =>
               Settled(g, d)' \/ \E q \in Said(x.opts) : Reports(q, d)
      BY <1>8, <2>2 DEF DeletionsHeard
    <3>2. ASSUME m.gw = g, deleted[d].seq <= m.seq PROVE Settled(g, d)'
      <4>1. CASE \E q \in Said(m.opts) : Reports(q, d)
        BY <1>3, <1>6, <3>2, <4>1 DEF Settled
      <4> QED BY <3>1, <3>2, <4>1
    <3> QED BY <1>2, <3>1, <3>2
  <2>4. DeletionsHeard'
    BY <1>2, <1>3, <2>3 DEF DeletionsHeard
  <2> QED BY <2>1, <2>4
<1> QED BY <1>7, <1>8

\* A deletion is freed when every gateway acknowledged a number beyond its own:
\* each has heard of it, or of a later binding only.
LEMMA AckStale ==
  ASSUME RouterInv, StaleInv, NEW a \in acks, IncomingAck(a)
  PROVE  /\ Strangers'
         /\ GoneIsKnown /\ DeletionsHeard /\ next_out <= ByteMod =>
              GoneIsKnown' /\ DeletionsHeard'
<1>1. /\ RouterTypeOK /\ TypeOK /\ TableInv /\ a.gw \in Peers
      /\ gws \in [Gws -> GwRecords]
  BY DEF RouterInv, RouterTypeOK, Acks, GwRecords
<1>2. PICK i \in Gws :
         /\ gws[i].gw = a.gw
         /\ gws' = [gws EXCEPT ![i] = [@ EXCEPT !.seq_out = a.seq, !.non_ack = 0]]
         /\ gws' \in [Gws -> GwRecords]
         /\ \/ UNCHANGED <<min_ack, deleted>>
            \/ /\ \E j \in Gws : Known(j) /\ min_ack' = gws'[j].seq_out
               /\ \A j \in Gws : Known(j) => min_ack' <= gws'[j].seq_out
               /\ deleted' = [d \in Deletes |->
                    IF Acked(d, min_ack, min_ack')
                    THEN [deleted[d] EXCEPT !.used = FALSE] ELSE deleted[d]]
  BY <1>1, AckIs
<1>3. /\ UNCHANGED <<slots, next_out, net, heard, dropped>> /\ acks' \subseteq acks
  BY DEF IncomingAck, Delivered, fate
<1>4. \A j \in Gws : /\ gws'[j].gw = gws[j].gw
                     /\ gws'[j].seq_out = IF j = i THEN a.seq ELSE gws[j].seq_out
  BY <1>1, <1>2 DEF GwRecords
<1>5. Kept' = Kept /\ Present' = Present /\ \A g : StatedTo(g)' = StatedTo(g)
  BY <1>3 DEF Kept, slots, Present, SlotsOf, StatedTo
<1>6. Strangers'
  BY <1>3, <1>4, <1>5 DEF StaleInv, Strangers
<1>7. ASSUME NEW d \in Tombs'
      PROVE  d \in Tombs /\ deleted'[d] = deleted[d]
  <2>1. d \in Deletes /\ deleted'[d].used
    BY <1>7 DEF Tombs
  <2>2. \A e \in Deletes :
          deleted'[e] = deleted[e] \/ deleted'[e] = [deleted[e] EXCEPT !.used = FALSE]
    BY <1>2
  <2>3. deleted[d] \in Tombstones
    BY <1>1, <2>1 DEF TypeOK
  <2>4. deleted'[d] = deleted[d]
    BY <2>1, <2>2, <2>3 DEF Tombstones
  <2> QED BY <2>1, <2>4 DEF Tombs
<1>8. ASSUME GoneIsKnown, DeletionsHeard, next_out <= ByteMod
      PROVE  GoneIsKnown' /\ DeletionsHeard'
  <2>1. ASSUME NEW g \in Kept, NEW d \in Tombs, NEW j \in Gws, gws[j].gw = g,
               deleted[d].seq <= gws'[j].seq_out
        PROVE  Settled(g, d)
    BY <1>2, <1>4, <1>8, <2>1 DEF DeletionsHeard
  \* What is freed is settled with every gateway.
  <2>2. ASSUME NEW g \in Kept, NEW d \in Tombs, ~(d \in Tombs' /\ deleted'[d] = deleted[d])
        PROVE  Settled(g, d)
    <3>1. d \in Deletes /\ deleted[d].used
      BY DEF Tombs
    <3>2. /\ Acked(d, min_ack, min_ack')
          /\ \A j \in Gws : Known(j) => min_ack' <= gws'[j].seq_out
          /\ min_ack' \in Nat
      <4>1. /\ \E j \in Gws : Known(j) /\ min_ack' = gws'[j].seq_out
            /\ \A j \in Gws : Known(j) => min_ack' <= gws'[j].seq_out
            /\ deleted' = [e \in Deletes |->
                 IF Acked(e, min_ack, min_ack')
                 THEN [deleted[e] EXCEPT !.used = FALSE] ELSE deleted[e]]
        BY <1>2, <2>2, <3>1 DEF Tombs
      <4>2. min_ack' \in Nat
        BY <1>2, <4>1 DEF GwRecords
      <4>3. Acked(d, min_ack, min_ack')
        BY <2>2, <3>1, <4>1 DEF Tombs
      <4> QED BY <4>1, <4>2, <4>3
    <3>3. deleted[d].seq \in Nat /\ deleted[d].seq <= min_ack'
      BY <1>1, <1>8, <3>2, ByteIsSeq DEF Acked
    <3>4. CASE \A j \in Gws : gws[j].gw # g
      <4>1. heard[g] = {} /\ \A x \in net : x.gw # g
        BY <3>4 DEF StaleInv, Strangers
      <4>2. StatedTo(g) = {}
        BY <4>1 DEF StatedTo
      <4> QED BY <4>2 DEF Settled
    <3>5. ASSUME NEW j \in Gws, gws[j].gw = g PROVE Settled(g, d)
      <4>1. Known(j)
        BY <3>5, GatewaysAssumption DEF Known, Kept, Peers
      <4>2. gws'[j].seq_out \in Nat /\ min_ack' <= gws'[j].seq_out
        BY <1>2, <3>2, <4>1 DEF GwRecords
      <4>3. deleted[d].seq <= gws'[j].seq_out
        BY <3>2, <3>3, <4>2
      <4> QED BY <2>1, <3>5, <4>3
    <3> QED BY <3>4, <3>5
  <2>3. ASSUME NEW g \in Kept, NEW o \in StatedTo(g), o.bind
        PROVE  /\ o.num < next_out
               /\ o.addr \notin Present =>
                    \/ \E d \in Tombs' : deleted'[d].addr = o.addr /\ o.num < deleted'[d].seq
                    \/ \E q \in heard[g] : ~q.bind /\ q.addr = o.addr /\ o.num < q.num
    <3>1. o.num < next_out
      BY <1>8, <2>3 DEF GoneIsKnown
    <3>2. ASSUME NEW d \in Tombs, deleted[d].addr = o.addr, o.num < deleted[d].seq
          PROVE  \/ d \in Tombs' /\ deleted'[d] = deleted[d]
                 \/ \E q \in heard[g] : ~q.bind /\ q.addr = o.addr /\ o.num < q.num
      <4>1. CASE Settled(g, d)
        <5>1. ASSUME NEW q \in heard[g], Reports(q, d)
              PROVE  ~q.bind /\ q.addr = o.addr /\ o.num < q.num
          BY <3>2, <5>1 DEF Reports
        <5>2. ~(deleted[d].seq < o.num)
          <6>1. o.num \in Nat
            BY <1>1, <2>3, StatedIsTyped DEF Kept, Options
          <6>2. deleted[d].seq \in Nat
            BY <1>1 DEF Tombs, TypeOK, Tombstones
          <6> QED BY <3>2, <6>1, <6>2
        <5> QED BY <2>3, <3>2, <4>1, <5>1, <5>2 DEF Settled
      <4> QED BY <2>2, <4>1
    <3> QED BY <1>8, <2>3, <3>1, <3>2 DEF GoneIsKnown
  <2>4. GoneIsKnown'
    BY <1>3, <1>5, <2>3 DEF GoneIsKnown
  <2>5. ASSUME NEW g \in Kept, NEW d \in Tombs'
        PROVE  /\ \A j \in Gws : gws'[j].gw = g /\ deleted'[d].seq <= gws'[j].seq_out => Settled(g, d)'
               /\ \A b \in acks' : b.gw = g /\ deleted'[d].seq <= b.seq => Settled(g, d)'
               /\ \A x \in net : x.gw = g /\ deleted'[d].seq <= x.seq =>
                    Settled(g, d)' \/ \E q \in Said(x.opts) : Reports(q, d)'
    <3>1. d \in Tombs /\ deleted'[d] = deleted[d]
      BY <1>7
    <3>2. /\ \A q : Reports(q, d)' <=> Reports(q, d)
          /\ Settled(g, d)' <=> Settled(g, d)
      BY <1>3, <1>5, <3>1 DEF Reports, Settled
    <3>3. \A j \in Gws : gws'[j].gw = g /\ deleted[d].seq <= gws'[j].seq_out => Settled(g, d)
      BY <1>4, <2>1, <3>1
    <3>4. /\ \A b \in acks' : b.gw = g /\ deleted[d].seq <= b.seq => Settled(g, d)
          /\ \A x \in net : x.gw = g /\ deleted[d].seq <= x.seq =>
               Settled(g, d) \/ \E q \in Said(x.opts) : Reports(q, d)
      BY <1>3, <1>8, <3>1 DEF DeletionsHeard
    <3> QED BY <3>1, <3>2, <3>3, <3>4
  <2>6. DeletionsHeard'
    BY <1>3, <1>5, <2>5 DEF DeletionsHeard
  <2> QED BY <2>4, <2>6
<1> QED BY <1>6, <1>8

\* A gateway that becomes known was told nothing.
LEMMA NewGwStale ==
  ASSUME RouterInv, StaleInv, NEW p \in Peers, NewGw(p)
  PROVE  /\ Strangers'
         /\ GoneIsKnown /\ DeletionsHeard => GoneIsKnown' /\ DeletionsHeard'
<1> DEFINE from == IF out.min # LIST_END THEN seq[out.min] - 1 ELSE min_ack
<1>1. gws \in [Gws -> GwRecords]
  BY DEF RouterInv, RouterTypeOK, GwRecords
<1>2. PICK i \in Gws : /\ FreeFor(p, i)
                       /\ gws' = [gws EXCEPT ![i] = [gw |-> p, seq_out |-> from, non_ack |-> 0]]
  BY DEF NewGw
<1>3. UNCHANGED <<vars, net, acks, heard, dropped>> /\ \A j \in Gws : gws[j].gw # p
  BY DEF NewGw, wire, fate
<1> HIDE DEF from
<1>4. \A j \in Gws : /\ gws'[j].seq_out = IF j = i THEN from ELSE gws[j].seq_out
                     /\ gws'[j].gw = IF j = i THEN p ELSE gws[j].gw
  BY <1>1, <1>2
<1>5. /\ Kept' = Kept /\ Present' = Present /\ Tombs' = Tombs /\ deleted' = deleted
      /\ next_out' = next_out /\ \A g : StatedTo(g)' = StatedTo(g)
      /\ \A q, d : Reports(q, d)' <=> Reports(q, d)
  BY <1>3, TableFrame DEF Kept, StatedTo
<1>6. \A g, d : Settled(g, d)' <=> Settled(g, d)
  BY <1>3, <1>5 DEF Settled
<1>7. \A g \in Kept : g # NoGw
  BY GatewaysAssumption DEF Kept, Peers
<1>8. Strangers'
  <2>1. ASSUME NEW g \in Kept, \A j \in Gws : gws'[j].gw # g
        PROVE  \A j \in Gws : gws[j].gw # g
    <3>1. gws[i].gw = NoGw
      BY <1>2 DEF FreeFor, Known
    <3> QED BY <1>4, <1>7, <2>1, <3>1
  <2> QED BY <1>3, <1>5, <2>1 DEF StaleInv, Strangers
<1>9. ASSUME GoneIsKnown, DeletionsHeard PROVE GoneIsKnown' /\ DeletionsHeard'
  <2>1. GoneIsKnown'
    BY <1>3, <1>5, <1>9 DEF GoneIsKnown
  <2>2. ASSUME NEW g \in Kept, NEW d \in Tombs, NEW j \in Gws, gws'[j].gw = g,
               deleted[d].seq <= gws'[j].seq_out
        PROVE  Settled(g, d)
    <3>1. CASE j = i
      <4>1. g = p /\ heard[p] = {} /\ \A x \in net : x.gw # p
        BY <1>3, <1>4, <2>2, <3>1 DEF StaleInv, Strangers
      <4>2. StatedTo(g) = {}
        BY <4>1 DEF StatedTo
      <4> QED BY <4>2 DEF Settled
    <3>2. CASE j # i
      BY <1>4, <1>9, <2>2, <3>2 DEF DeletionsHeard
    <3> QED BY <3>1, <3>2
  <2>3. DeletionsHeard'
    BY <1>3, <1>5, <1>6, <1>9, <2>2 DEF DeletionsHeard
  <2> QED BY <2>1, <2>3
<1> QED BY <1>8, <1>9

\* A gateway that is given up is no longer kept.
LEMMA SendDropStale ==
  ASSUME RouterInv, StaleInv, NEW i \in Gws, SendDrop(i)
  PROVE  /\ Strangers'
         /\ GoneIsKnown /\ DeletionsHeard => GoneIsKnown' /\ DeletionsHeard'
<1>1. gws \in [Gws -> GwRecords]
  BY DEF RouterInv, RouterTypeOK, GwRecords
<1>2. /\ gws' = [gws EXCEPT ![i].gw = NoGw] /\ dropped' = dropped \cup {gws[i].gw}
      /\ UNCHANGED <<vars, net, acks, heard>>
  BY DEF SendDrop, wire
<1>3. \A j \in Gws : /\ gws'[j].seq_out = gws[j].seq_out
                     /\ gws'[j].gw = IF j = i THEN NoGw ELSE gws[j].gw
  BY <1>1, <1>2 DEF GwRecords
<1>4. Kept' \subseteq Kept /\ \A g \in Kept' : g # gws[i].gw /\ g # NoGw
  BY <1>2, GatewaysAssumption DEF Kept, Peers
<1>5. /\ Present' = Present /\ Tombs' = Tombs /\ deleted' = deleted
      /\ next_out' = next_out /\ \A g : StatedTo(g)' = StatedTo(g)
      /\ \A q, d : Reports(q, d)' <=> Reports(q, d)
  BY <1>2, TableFrame DEF StatedTo
<1>6. \A g, d : Settled(g, d)' <=> Settled(g, d)
  BY <1>2, <1>5 DEF Settled
<1>7. \A g \in Kept', j \in Gws : gws'[j].gw = g <=> gws[j].gw = g
  BY <1>3, <1>4
<1>8. Strangers'
  BY <1>2, <1>4, <1>7 DEF StaleInv, Strangers
<1>9. ASSUME GoneIsKnown, DeletionsHeard PROVE GoneIsKnown' /\ DeletionsHeard'
  <2>1. GoneIsKnown'
    BY <1>2, <1>4, <1>5, <1>9 DEF GoneIsKnown
  <2>2. DeletionsHeard'
    BY <1>2, <1>3, <1>4, <1>5, <1>6, <1>7, <1>9 DEF DeletionsHeard
  <2> QED BY <2>1, <2>2
<1> QED BY <1>8, <1>9

LEMMA StaleStep ==
  ASSUME RouterInv, HeardInv, StaleInv, [RouterNext]_rvars
  PROVE  StaleInv'
<1>1. /\ RouterTypeOK /\ TypeOK /\ next_out \in Nat /\ (intact' => intact)
      /\ next_out <= next_out' /\ next_out' \in Nat
  <2>1. RouterTypeOK /\ TypeOK /\ next_out \in Nat
    BY DEF RouterInv, RouterTypeOK, TypeOK
  <2>2. [Next]_vars
    BY <2>1, StepIsTable
  <2>3. TypeOK'
    BY <2>1, <2>2, TypeStep
  <2> QED BY <2>1, <2>2, <2>3, NumbersGrow DEF TypeOK
<1>2. EmptyBefore'
  BY HeardStep DEF HeardInv
<1>3. ASSUME sending' <= 0 PROVE BufferIsLive'
  BY <1>2, <1>3 DEF EmptyBefore, BufferIsLive, Said
<1> USE DEF mob, send, wire, fate
<1>5. ASSUME NEW n \in Nodes, RDao(n) \/ RTable(n) PROVE StaleInv'
  <2>1. sending' <= 0
    BY <1>5 DEF RDao, RTable, Idle
  <2>2. NodeStep
    BY <1>5 DEF RDao, RTable, NodeStep
  <2>3. recorded' => recorded /\
           (Tombs # Deletes \/ Present' = Present \/ \E k \in Nodes : Dao(k))
    BY <1>5 DEF RDao, RTable, Record
  <2>4. UNCHANGED <<gws, net, acks, heard, lossless, dropped>>
    BY <1>5 DEF RDao, RTable, Record
  <2> QED BY <1>3, <2>1, <2>2, <2>3, <2>4, StaleFrame
<1>6. CASE RCheck
  <2>1. sending' <= 0
    BY <1>6 DEF RCheck, HeardInv, EmptyBefore, CheckNext, CheckKeep, CheckDrop, CheckEnd
  <2>2. NodeStep
    BY <1>6 DEF RCheck, NodeStep
  <2> QED BY <1>3, <1>6, <2>1, <2>2, StaleFrame DEF RCheck, Record
<1>7. CASE Fire
  <2>1. Present' = Present
    BY <1>7 DEF Fire, CheckStart, slots, Present, SlotsOf
  <2>2. NodeStep /\ sending' <= 0
    BY <1>7 DEF Fire, NodeStep
  <2> QED BY <1>3, <1>7, <2>1, <2>2, StaleFrame DEF Fire
<1>8. CASE RTick
  <2>1. Present' = Present
    BY <1>8 DEF RTick, Tick, Present, SlotsOf
  <2>2. NodeStep
    BY <1>8 DEF RTick, NodeStep
  <2>3. UNCHANGED <<isused, ipaddr, learned_from, seq, next_out, buf, intact>>
    BY <1>8 DEF RTick, Tick, ghost
  <2>4. intact' => BufferIsLive'
    BY <2>3 DEF StaleInv, BufferIsLive, Live
  <2> QED BY <1>8, <2>1, <2>2, <2>4, StaleFrame DEF RTick
<1>9. ASSUME next_out' = next_out, intact' => BufferIsLive', Strangers',
             recorded' => recorded,
             intact /\ lossless' /\ recorded /\ next_out <= ByteMod =>
                GoneIsKnown' /\ DeletionsHeard'
      PROVE  StaleInv'
  BY <1>1, <1>9 DEF StaleInv
<1>10. ASSUME UNCHANGED <<slots, next_out, intact, buf>> PROVE intact' => BufferIsLive'
  BY <1>10 DEF StaleInv, BufferIsLive, slots, Live
<1>11. CASE FireNoHoag \/ UNCHANGED rvars \/ (\E i \in Gws : SendSkip(i)) \/ SendEnd
  <2>1. /\ UNCHANGED <<vars, gws, net, acks, heard, dropped, lossless, recorded>>
        /\ buf' = buf \/ sending' <= 0
    BY <1>11 DEF FireNoHoag, SendSkip, SendEnd, rvars
  <2>2. intact' => BufferIsLive'
    BY <1>3, <1>10, <2>1 DEF vars, ghost
  <2> QED BY <1>9, <2>1, <2>2, SilentStale DEF StaleInv, vars
<1>12. ASSUME NEW i \in Gws, SendDrop(i) PROVE StaleInv'
  <2>1. UNCHANGED <<vars, buf, lossless, recorded>>
    BY <1>12 DEF SendDrop
  <2>2. intact' => BufferIsLive'
    BY <1>10, <2>1 DEF vars, ghost
  <2> QED BY <1>9, <1>12, <2>1, <2>2, SendDropStale DEF StaleInv, vars
<1>13. ASSUME NEW i \in Gws, SendUpdate(i) PROVE StaleInv'
  <2>1. UNCHANGED <<vars, heard, acks, dropped, recorded>>
    BY <1>13 DEF SendUpdate
  <2>2. intact' => BufferIsLive'
    BY <1>1, <1>13, UpdateSays
  <2>3. Strangers'
    <3>1. gws \in [Gws -> GwRecords]
      BY <1>1 DEF RouterTypeOK, GwRecords
    <3>3. \/ UNCHANGED <<gws, net>>
          \/ /\ gws' = [gws EXCEPT ![i].non_ack = @ + 1]
             /\ \E m : m.gw = gws[i].gw /\ net' = Sent(m, net)
      <4>1. CASE UNCHANGED <<gws, sent, net, lossless>>
        BY <4>1
      <4>2. CASE ~UNCHANGED <<gws, sent, net, lossless>>
        <5> DEFINE m == [gw |-> gws[i].gw, seq |-> UpTo(i), opts |-> Carried(buf')]
        <5>1. gws' = [gws EXCEPT ![i].non_ack = @ + 1] /\ net' = Sent(m, net)
          BY <1>13, <4>2 DEF SendUpdate
        <5> QED BY <5>1
      <4> QED BY <4>1, <4>2
    <3>2. /\ \A j \in Gws : gws'[j].gw = gws[j].gw
          /\ \A x \in net' : x \in net \/ x.gw = gws[i].gw
      BY <3>1, <3>3 DEF Sent, GwRecords
    <3> QED BY <2>1, <3>2 DEF StaleInv, Strangers, Kept
  <2> QED BY <1>9, <1>13, <2>1, <2>2, <2>3, SendUpdateStale DEF vars
<1>14. ASSUME NEW p \in Peers, NewGw(p) PROVE StaleInv'
  <2>1. UNCHANGED <<vars, buf, lossless, recorded>>
    BY <1>14 DEF NewGw
  <2>2. intact' => BufferIsLive'
    BY <1>10, <2>1 DEF vars, ghost
  <2> QED BY <1>9, <1>14, <2>1, <2>2, NewGwStale DEF StaleInv, vars
<1>15. ASSUME NEW m \in net, Receive(m) PROVE StaleInv'
  <2>1. UNCHANGED <<vars, buf, lossless, recorded>>
    BY <1>15 DEF Receive
  <2>2. intact' => BufferIsLive'
    BY <1>10, <2>1 DEF vars, ghost
  <2> QED BY <1>9, <1>15, <2>1, <2>2, ReceiveStale DEF StaleInv, vars
<1>16. ASSUME NEW a \in acks, IncomingAck(a) PROVE StaleInv'
  <2>1. UNCHANGED <<slots, next_out, intact, buf, lossless, recorded>>
    BY <1>16 DEF IncomingAck, ghost
  <2>2. intact' => BufferIsLive'
    BY <1>10, <2>1
  <2> QED BY <1>9, <1>16, <2>1, <2>2, AckStale DEF StaleInv
<1> QED BY <1>5, <1>6, <1>7, <1>8, <1>11, <1>12, <1>13, <1>14, <1>15, <1>16
        DEF RouterNext, SendLoop

LEMMA StaleSafe == RouterSpec => []StaleInv
<1>1. RouterInv /\ HeardInv /\ StaleInv /\ [RouterNext]_rvars => StaleInv'
  BY StaleStep
<1> QED BY <1>1, StaleInit, RouterSafe, HeardSafe, PTL DEF RouterSpec

\* No gateway that was not given up is left with a route to a node that is gone,
\* while the numbers fit the byte a deletion has for them.
THEOREM NoRouteIsStale == RouterSpec => []NoStaleBinding
<1>1. RouterInv /\ StaleInv => NoStaleBinding
  <2> SUFFICES ASSUME RouterInv, StaleInv, intact, lossless, recorded, next_out <= ByteMod,
                      NEW i \in Gws, Known(i), gws[i].gw \notin dropped,
                      NEW o \in heard[gws[i].gw], o.bind, o.addr \notin Present
               PROVE  \/ \E d \in Tombs : deleted[d].addr = o.addr /\ o.num < deleted[d].seq
                      \/ \E q \in heard[gws[i].gw] : ~q.bind /\ q.addr = o.addr /\ o.num < q.num
    BY DEF NoStaleBinding
  <2>1. gws[i].gw \in Kept
    BY DEF RouterInv, RouterTypeOK, Known, Kept
  <2>2. o \in StatedTo(gws[i].gw)
    BY DEF StatedTo
  <2> QED BY <2>1, <2>2 DEF StaleInv, GoneIsKnown
<1> QED BY <1>1, RouterSafe, StaleSafe, PTL

=============================================================================
