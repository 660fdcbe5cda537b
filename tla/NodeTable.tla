------------------------------ MODULE NodeTable ------------------------------
(***************************************************************************)
(* The table of local nodes of a border router in mode -r (mob_type is     *)
(* MOB_TYPE_UPWARD): the routing table of uip-ds6.c, the list of its       *)
(* entries ordered by sequence number, and the buffer of deletions, as     *)
(* they are changed by the DAO messages of the motes (rpl-icmp6.c,         *)
(* rpl.c), by the expiry of routes (uip_ds6_route_lookup,                  *)
(* mob_check_all_entry) and by the acknowledgements of other gateways.     *)
(*                                                                         *)
(* Host routes only: a mote announces its own /128 address.  A route timer *)
(* is the time it has left; a sequence number is not reduced modulo 2^16:  *)
(* the bounds on it stay far below.                                        *)
(***************************************************************************)
EXTENDS OutList, FiniteSets

CONSTANTS Nodes,        \* addresses of the motes
          Self,         \* the address of the gateway's INTERNAL route
          None,         \* no address
          ND,           \* the size of deleted[] (MAX_DELETE_NIO, 30)
          Lifetime,     \* the lifetime of a DAO
          DaoTimeout,   \* what a No-Path DAO leaves (DAO_EXPIRATION_TIMEOUT)
          MaxSeq        \* bound: sequence numbers given to DAOs

ASSUME NamesAssumption ==
  /\ Self \notin Nodes
  /\ None \notin Nodes \cup {Self}

ASSUME TimesAssumption ==
  /\ Lifetime \in Nat
  /\ DaoTimeout \in Nat
  /\ 0 < DaoTimeout
  /\ DaoTimeout < Lifetime

ASSUME SizesAssumption == ND \in Nat /\ MaxSeq \in Nat

VARIABLES
  isused,       \* per slot: element->isused
  ipaddr,       \* per slot: the destination, kept when the slot is freed
  learned_from, \* per slot: "INTERNAL" or "DAO"
  remaining,    \* per slot: time left on state.lifetime, 0 when it is over
  seq,          \* per slot: state.seq
  out,          \* the list of local nodes
  next_out,     \* next_out_sequence
  deleted,      \* per deletion slot: used, addr, seq
  kernel,       \* nodes with a kernel route to the mesh interface
  pc,           \* "idle", or "check" inside mob_check_all_entry
  cursor,       \* next, in mob_check_all_entry
  intact,       \* ghost: no listed slot was recycled by uip_ds6_route_add
  due           \* ghost: the local routes that were over when the check began

slots == <<isused, ipaddr, learned_from, remaining, seq>>
loop  == <<pc, cursor>>
ghost == <<intact, due>>
vars  == <<slots, out, next_out, deleted, kernel, loop, ghost>>

Deletes == 0 .. ND - 1

Addresses  == Nodes \cup {Self, None}
Tombstones == [used : BOOLEAN, addr : Addresses, seq : Nat]

-----------------------------------------------------------------------------
Free     == {s \in Slots : ~isused[s]}
Live     == {s \in Slots : isused[s] /\ learned_from[s] = "DAO"}
Expired  == {s \in Slots : isused[s] /\ remaining[s] = 0}
Tombs    == {d \in Deletes : deleted[d].used}

SlotsOf(n) == {s \in Slots : isused[s] /\ ipaddr[s] = n}
Present    == {n \in Nodes : SlotsOf(n) # {}}

\* uip_ds6_list_loop hands out the last free slot.
LastFree(s) == s \in Free /\ \A t \in Free : t <= s

\* uip_ds6_route_add without a free slot takes the first expired one.
FirstExpired(s) == s \in Expired /\ \A t \in Expired : s <= t

-----------------------------------------------------------------------------
\* Mutant: the first record is overwritten.
FirstDelete(d) == d = 0

FirstFreeDelete(d) == ~deleted[d].used /\ \A e \in 0 .. d - 1 : deleted[e].used

\* mob_lost_node: kernel route, list, and a deletion record if there is room;
\* without room the deletion is dropped ("BUFFER OVERFLOW").
LostNode(s) ==
  /\ kernel' = kernel \ {ipaddr[s]}
  /\ out' = ListRemove(out, s)
  /\ \/ \E d \in Deletes :
          /\ FirstFreeDelete(d)
          /\ deleted' = [deleted EXCEPT ![d] =
               [used |-> TRUE, addr |-> ipaddr[s], seq |-> next_out]]
          /\ next_out' = next_out + 1
     \/ /\ \A d \in Deletes : deleted[d].used
        /\ UNCHANGED <<deleted, next_out>>

RouteRm(s) == isused' = [isused EXCEPT ![s] = FALSE]

\* rpl_add_route and dao_input after the slot is known: a new route in slot s
\* with a fresh timer, moved to the end of L with the next number.
Enter(n, s, L, num) ==
  /\ isused' = [isused EXCEPT ![s] = TRUE]
  /\ ipaddr' = [ipaddr EXCEPT ![s] = n]
  /\ learned_from' = [learned_from EXCEPT ![s] = "DAO"]
  /\ remaining' = [remaining EXCEPT ![s] = Lifetime]
  /\ seq' = [seq EXCEPT ![s] = num]
  /\ out' = ListMaj(L, s)
  /\ next_out' = num + 1

-----------------------------------------------------------------------------
Init ==
  \* main.c: the first route of the table is the gateway's own, in the last
  \* slot, with a zeroed timer
  /\ isused = [s \in Slots |-> s = NB - 1]
  /\ ipaddr = [s \in Slots |-> IF s = NB - 1 THEN Self ELSE None]
  /\ learned_from = [s \in Slots |-> "INTERNAL"]
  /\ remaining = [s \in Slots |-> 0]
  /\ seq = [s \in Slots |-> 0]
  /\ out = EmptyList
  /\ next_out = 1
  /\ deleted = [d \in Deletes |-> [used |-> FALSE, addr |-> None, seq |-> 0]]
  /\ kernel = {}
  /\ pc = "idle"
  /\ cursor = LIST_END
  /\ intact = TRUE
  /\ due = {}

DaoGuard == pc = "idle" /\ next_out <= MaxSeq

\* A DAO of a node whose route is alive: the timer restarts and the node
\* moves to the end of the list with a new number.
DaoRefresh(n) ==
  /\ DaoGuard
  /\ \E s \in SlotsOf(n) :
       /\ remaining[s] > 0
       /\ remaining' = [remaining EXCEPT ![s] = Lifetime]
       /\ out' = ListMaj(out, s)
       /\ seq' = [seq EXCEPT ![s] = next_out]
  /\ next_out' = next_out + 1
  /\ UNCHANGED <<isused, ipaddr, learned_from, deleted, kernel, loop, ghost>>

\* Mutant: the deletion is recorded after the new route.
ReplaceLate(n, s, t) ==
  /\ isused' = [isused EXCEPT ![s] = FALSE, ![t] = TRUE]
  /\ ipaddr' = [ipaddr EXCEPT ![t] = n]
  /\ learned_from' = [learned_from EXCEPT ![t] = "DAO"]
  /\ remaining' = [remaining EXCEPT ![t] = Lifetime]
  /\ out' = ListMaj(ListInit(ListRemove(out, s), t), t)
  /\ \E d \in Deletes :
       /\ FirstFreeDelete(d)
       /\ deleted' = [deleted EXCEPT ![d] =
            [used |-> TRUE, addr |-> n, seq |-> next_out + 1]]
  /\ seq' = [seq EXCEPT ![t] = next_out]
  /\ next_out' = next_out + 2

\* A DAO of a node whose route, in slot s, is over: the lookup drops it (and
\* records a deletion), then the node gets slot t, the last free one.
Replace(n, s, t) ==
  /\ isused' = [isused EXCEPT ![s] = FALSE, ![t] = TRUE]
  /\ ipaddr' = [ipaddr EXCEPT ![t] = n]
  /\ learned_from' = [learned_from EXCEPT ![t] = "DAO"]
  /\ remaining' = [remaining EXCEPT ![t] = Lifetime]
  /\ out' = ListMaj(ListInit(ListRemove(out, s), t), t)
  /\ \/ \E d \in Deletes :
          /\ FirstFreeDelete(d)
          /\ deleted' = [deleted EXCEPT ![d] =
               [used |-> TRUE, addr |-> n, seq |-> next_out]]
          /\ seq' = [seq EXCEPT ![t] = next_out + 1]
          /\ next_out' = next_out + 2
     \/ /\ \A d \in Deletes : deleted[d].used
        /\ seq' = [seq EXCEPT ![t] = next_out]
        /\ next_out' = next_out + 1
        /\ UNCHANGED deleted

DaoReplace(n) ==
  /\ DaoGuard
  /\ \E s \in SlotsOf(n) :
       /\ remaining[s] = 0
       /\ \E t \in Free \cup {s} :
            /\ \A u \in Free \cup {s} : u <= t
            /\ Replace(n, s, t)
  /\ kernel' = kernel \cup {n}
  /\ UNCHANGED <<loop, ghost>>

\* A DAO of an unknown node, with a free slot.
DaoNew(n) ==
  /\ DaoGuard
  /\ SlotsOf(n) = {}
  /\ \E s \in Free :
       /\ LastFree(s)
       /\ Enter(n, s, ListInit(out, s), next_out)
  /\ kernel' = kernel \cup {n}
  /\ UNCHANGED <<deleted, loop, ghost>>

\* A DAO of an unknown node in a full table: the first slot whose timer is
\* over is taken, without telling the mobility layer.  The INTERNAL route,
\* whose timer was never set, counts as over.
DaoEvict(n) ==
  /\ DaoGuard
  /\ SlotsOf(n) = {}
  /\ Free = {}
  /\ \E s \in Slots :
       /\ FirstExpired(s)
       /\ Enter(n, s, ListInit(out, s), next_out)
       /\ intact' = (intact /\ s \notin Live)
  /\ kernel' = kernel \cup {n}
  /\ UNCHANGED <<deleted, loop, due>>

\* A No-Path DAO shortens the life of a route; one that is over goes at once.
NoPathDao(n) ==
  /\ pc = "idle"
  /\ \E s \in SlotsOf(n) :
       /\ remaining[s] > DaoTimeout
       /\ remaining' = [remaining EXCEPT ![s] = DaoTimeout]
  /\ UNCHANGED <<isused, ipaddr, learned_from, seq, out, next_out, deleted,
                 kernel, loop, ghost>>

\* uip_ds6_route_lookup on an expired route, for a packet to n or for a
\* No-Path DAO of n.
Lookup(n) ==
  /\ pc = "idle"
  /\ \E s \in SlotsOf(n) :
       /\ remaining[s] = 0
       /\ RouteRm(s)
       /\ LostNode(s)
  /\ UNCHANGED <<ipaddr, learned_from, remaining, seq, loop, ghost>>

-----------------------------------------------------------------------------
(***************************************************************************)
(* mob_check_all_entry, one step per iteration.  The next slot is read     *)
(* before the current one is looked at.                                    *)
(***************************************************************************)
\* Bound: a slot left on a damaged list can be dropped again by every check.
CheckStart ==
  /\ pc = "idle"
  /\ intact \/ next_out <= MaxSeq
  /\ pc' = "check"
  /\ cursor' = out.min
  /\ due' = Live \cap Expired
  /\ UNCHANGED <<slots, out, next_out, deleted, kernel, intact>>

\* Mutant: the walk starts again at every route it keeps.
CheckKeepAgain ==
  /\ pc = "check"
  /\ cursor # LIST_END
  /\ remaining[cursor] > 0
  /\ cursor' = out.min
  /\ UNCHANGED <<slots, out, next_out, deleted, kernel, pc, ghost>>

CheckKeep ==
  /\ pc = "check"
  /\ cursor # LIST_END
  /\ remaining[cursor] > 0
  /\ cursor' = out.next[cursor]
  /\ UNCHANGED <<slots, out, next_out, deleted, kernel, pc, ghost>>

\* Mutant: the walk ends at the first route it drops.
CheckDropFirst ==
  /\ pc = "check"
  /\ cursor # LIST_END
  /\ remaining[cursor] = 0
  /\ RouteRm(cursor)
  /\ LostNode(cursor)
  /\ cursor' = LIST_END
  /\ UNCHANGED <<ipaddr, learned_from, remaining, seq, pc, ghost>>

CheckDrop ==
  /\ pc = "check"
  /\ cursor # LIST_END
  /\ remaining[cursor] = 0
  /\ RouteRm(cursor)
  /\ LostNode(cursor)
  /\ cursor' = out.next[cursor]
  /\ UNCHANGED <<ipaddr, learned_from, remaining, seq, pc, ghost>>

CheckEnd ==
  /\ pc = "check"
  /\ cursor = LIST_END
  /\ pc' = "idle"
  /\ due' = {}
  /\ UNCHANGED <<slots, out, next_out, deleted, kernel, cursor, intact>>

-----------------------------------------------------------------------------
Elapse(r) == IF r > 0 THEN r - 1 ELSE 0

\* Time passes, inside the check too: clock_seconds reads the system's clock.
Tick ==
  /\ \E s \in Slots : remaining[s] > 0
  /\ remaining' = [s \in Slots |-> Elapse(remaining[s])]
  /\ UNCHANGED <<isused, ipaddr, learned_from, seq, out, next_out, deleted,
                 kernel, loop, ghost>>

\* mob_incoming_ack frees deletions; which ones depends on the gateways
\* (module Router), any set of them as seen from the table.
Release ==
  /\ pc = "idle"
  /\ \E D \in SUBSET Tombs :
       /\ D # {}
       /\ deleted' = [d \in Deletes |->
            IF d \in D THEN [deleted[d] EXCEPT !.used = FALSE] ELSE deleted[d]]
  /\ UNCHANGED <<slots, out, next_out, kernel, loop, ghost>>

-----------------------------------------------------------------------------
\* dao_input, what it does to this table.  An option that names other DODAGs makes
\* it call mob_new_6lbr first, which sends a message and leaves the table alone
\* (New6lbr of Discovery).
Dao(n)    == DaoRefresh(n) \/ DaoReplace(n) \/ DaoNew(n) \/ DaoEvict(n)
CheckNext == CheckKeep \/ CheckDrop \/ CheckEnd

Next ==
  \/ \E n \in Nodes : Dao(n) \/ NoPathDao(n) \/ Lookup(n)
  \/ CheckStart \/ CheckNext
  \/ Tick \/ Release

\* A callback that started runs to its end: there is one thread.
Spec == Init /\ [][Next]_vars /\ WF_vars(CheckNext)

-----------------------------------------------------------------------------
(* Properties *)

\* Every variable keeps its type.
TypeOK ==
  /\ isused \in [Slots -> BOOLEAN]
  /\ ipaddr \in [Slots -> Addresses]
  /\ learned_from \in [Slots -> {"INTERNAL", "DAO"}]
  /\ remaining \in [Slots -> 0 .. Lifetime]
  /\ seq \in [Slots -> Nat]
  /\ out \in SettledLists
  /\ next_out \in Nat
  /\ deleted \in [Deletes -> Tombstones]
  /\ kernel \in SUBSET Addresses
  /\ pc \in {"idle", "check"}
  /\ cursor \in Ends
  /\ intact \in BOOLEAN
  /\ due \in SUBSET Slots

\* The list that the updates are built from holds exactly the local routes, in
\* the order of their sequence numbers, through every refresh, expiry and
\* replacement, as long as uip_ds6_route_add recycled no listed slot.
OutListSorted == intact => Sorted(out, Live, seq)

\* No address has two routes: a replaced route was freed before the new one
\* was added, and a full table does not add beside an existing route.
OneSlotPerAddress ==
  \A s, t \in Slots :
     isused[s] /\ isused[t] /\ ipaddr[s] = ipaddr[t] => s = t

\* Sequence numbers name one statement each: no two of the local routes and
\* the recorded deletions share one, and the next one is unused.
SeqsDistinct ==
  /\ \A s \in Live : seq[s] < next_out /\ \A t \in Live : seq[s] = seq[t] => s = t
  /\ \A d \in Tombs :
       /\ deleted[d].seq < next_out
       /\ \A e \in Tombs : deleted[d].seq = deleted[e].seq => d = e
       /\ \A s \in Live : deleted[d].seq # seq[s]

\* What is recorded last about a node is true: a deletion that is still
\* recorded for a node with a route is older than the route, so a gateway
\* that applies statements in order ends with the route.
DeletionIsOlder ==
  intact => \A d \in Tombs : \A s \in Live :
               deleted[d].addr = ipaddr[s] => deleted[d].seq < seq[s]

\* The kernel sends to the mesh exactly the nodes that have a local route.
KernelMatches == intact => kernel = {ipaddr[s] : s \in Live}

\* mob_check_all_entry holds its next slot across the removal of the current
\* one: the walk stays on the list, and no route that was over when it began
\* is left behind it.
CheckSweeps ==
  pc = "check" /\ intact =>
    /\ cursor \in Live \cup {LIST_END}
    /\ \A s \in Live \cap due : cursor # LIST_END /\ seq[cursor] <= seq[s]

\* The routes learned from DAOs are the routes of motes.
LocalIsNode ==
  \A s \in Slots : isused[s] => (learned_from[s] = "DAO" <=> ipaddr[s] \in Nodes)

\* A route that was over when the check began still is: a DAO cannot come in
\* between.
DueIsOver == pc = "check" => \A s \in due : remaining[s] = 0

\* The inductive invariant behind all of the above.
TableInv ==
  /\ LocalIsNode
  /\ OneSlotPerAddress
  /\ SeqsDistinct
  /\ OutListSorted
  /\ DeletionIsOlder
  /\ KernelMatches
  /\ DueIsOver
  /\ CheckSweeps

\* A local node disappears only with a deletion on record (under the number
\* the step consumed), unless the buffer of deletions was full or the table
\* was full and its slot was recycled.
NoSilentLoss ==
  [][\A s \in Live :
       ipaddr[s] \notin Present' =>
         \/ \E d \in Deletes : /\ ~deleted[d].used /\ deleted'[d].used
                              /\ deleted'[d].addr = ipaddr[s]
                              /\ deleted'[d].seq = next_out
         \/ Tombs = Deletes
         \/ Free = {} /\ s \in Expired]_vars

\* The walk of mob_check_all_entry ends, while no listed slot was recycled: a
\* recycled slot can become its own successor, and then the walk never ends.
CheckTerminates == (pc = "check" /\ intact) ~> pc = "idle"

\* rpl-private.h calls a zero lifetime the "special value indicating immediate
\* removal": a No-Path DAO that changes the table removes the route.
ZeroLifetimeRemoves ==
  [][\A n \in Nodes : NoPathDao(n) => n \notin Present']_vars

=============================================================================
