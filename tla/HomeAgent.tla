------------------------------ MODULE HomeAgent -------------------------------
(***************************************************************************)
(* The bindings of a home agent, mode -a (mob_type is MOB_TYPE_STORE and   *)
(* MOB_TYPE_APPLY), or of a backup, mode -b (MOB_TYPE_STORE only): the     *)
(* updates it receives from border routers (mob_proceed_up, mob_add_nio),  *)
(* the DAOs of the motes of its own mesh (rpl_add_route, mob_maj_node),    *)
(* the kernel routes that go with both, and the cleaner of its local       *)
(* routes (mob_clean_entry).  What a backup reports itself is in Router.   *)
(*                                                                         *)
(* Host routes only; time is in seconds, from 1 on, and the clocks of the  *)
(* gateways agree (time(0)).  A timer that is due runs before the clock    *)
(* moves on.  A gateway that sends updates is one mob_new_gw has           *)
(* registered; the acknowledgement, which is always sent, is in Router.    *)
(***************************************************************************)
EXTENDS OutList, Sequences, SequencesExt, FiniteSets

CONSTANTS
  Nodes,       \* motes
  Self,        \* the address of the INTERNAL route
  Gws,         \* border routers
  NoGw,        \* gateway 0, what memset leaves: no border router has it
  Lifetime,    \* of a DAO
  DaoTimeout,  \* DAO_EXPIRATION_TIMEOUT
  Scopes       \* the instances looked at, see scope

ASSUME HomeAgentAssumption ==
  /\ IsFiniteSet(Nodes) /\ Self \notin Nodes /\ {NoGw, "tty"} \cap Gws = {} /\ NoGw # "tty"
  /\ {Lifetime, DaoTimeout} \subseteq Nat /\ 0 < DaoTimeout /\ DaoTimeout < Lifetime
  /\ Scopes \subseteq [nodes : SUBSET Nodes, gws : SUBSET Gws, apply : BOOLEAN,
                       end : Nat \ {0}, updates : Nat]

VARIABLES
  scope,     \* environment: the motes and border routers there are, whether this
             \* is mode -a; bounds: seconds and different updates sent
  rt,        \* per slot: isused, ipaddr, and of the state learned_from, gw and
             \* the timer (start, interval)
  out,       \* the list of local nodes
  kernel,    \* <<node, device>>: a gateway's tunnel, or the mesh interface "tty"
  cleaner,   \* next_cleaner: active, repeat, at
  now,
  heard,     \* environment: when each border router last heard each node, 0: not
  lost,      \* environment: the nodes each border router has a deletion of
  net,       \* environment: updates sent, which may arrive late, twice or never
  intact,    \* ghost: no stale link of the list was ever used, and no slot
             \* that is on it handed out
  hung,      \* ghost: the walk of the cleaner does not end
  seen       \* ghost: per node, the newest time stamp handled

store == <<rt, out, kernel>>
env   == <<scope, heard, lost, net>>
vars  == <<scope, rt, out, kernel, cleaner, now, heard, lost, net, intact, hung, seen>>

\* What the handlers below read and return.
Store == [rt |-> rt, out |-> out, kernel |-> kernel, intact |-> intact]

Becomes(S) == rt' = S.rt /\ out' = S.out /\ kernel' = S.kernel /\ intact' = S.intact

-----------------------------------------------------------------------------
\* stimer_expired and stimer_remaining, which is unsigned: once the timer is
\* over what remains is more than any interval.
Over(r) == now >= r.start + r.interval
Remains(r, t) == r.start + r.interval > now + t \/ r.start + r.interval < now

\* Mutant: a lookup that finds the nodes of the own mesh only.
SlotsOfLocal(S, n) == {s \in Slots : S.rt[s].used /\ S.rt[s].addr = n /\ S.rt[s].from = "DAO"}

SlotsOf(S, n) == {s \in Slots : S.rt[s].used /\ S.rt[s].addr = n}
Free(S)       == {s \in Slots : ~S.rt[s].used}
Lapsed(S)     == {s \in Slots : S.rt[s].used /\ Over(S.rt[s])}

\* The slot uip_ds6_route_add hands out: the last free one, else the first
\* whose timer is over (of a 6LBR's or the INTERNAL route it always is).
NoSlot == -1
Slot(S) ==
  IF Free(S) # {} THEN CHOOSE s \in Free(S) : \A t \in Free(S) : t <= s
  ELSE IF Lapsed(S) # {} THEN CHOOSE s \in Lapsed(S) : \A t \in Lapsed(S) : s <= t
  ELSE NoSlot

\* The new route, with a zeroed state: its links are 0 too.
RouteAdd(S, s, n) ==
  [S EXCEPT !.rt[s] = [used |-> TRUE, addr |-> n, from |-> "INTERNAL", gw |-> NoGw,
                       start |-> 0, interval |-> 0],
            !.out = [@ EXCEPT !.prev[s] = 0, !.next[s] = 0],
            !.intact = @ /\ ~(S.rt[s].used /\ S.rt[s].from = "DAO")]

\* change_local_route.
change_local_route(S, n, add) ==
  [S EXCEPT !.kernel = IF add THEN @ \cup {<<n, "tty">>} ELSE @ \ {<<n, "tty">>}]

\* change_route: a backup has no tunnel routes.
change_route(S, n, add, g) ==
  IF ~scope.apply THEN S
  ELSE [S EXCEPT !.kernel = IF add THEN @ \cup {<<n, g>>} ELSE @ \ {<<n, g>>}]

\* Mutant: the list keeps the lost node.
LostNodeStaysListed(S, s) == change_local_route(S, S.rt[s].addr, FALSE)

\* mob_lost_node; what a backup records of it is left out.
LostNode(S, s) ==
  [change_local_route(S, S.rt[s].addr, FALSE) EXCEPT !.out = ListRemove(@, s)]

RouteRm(S, s) == [S EXCEPT !.rt[s].used = FALSE]

-----------------------------------------------------------------------------
\* Mutant: stamps are compared the wrong way round.
OlderIsNewer(start, stamp) == stamp = 0 \/ stamp < start

\* Whether mob_add_nio takes what it is told for newer than what it has.
Newer(start, stamp) ==
  IF stamp # 0 THEN start = 0 \/ stamp > start ELSE start = 0

\* A deletion: only the gateway of the binding may delete it; a backup keeps it.
Delete(S, s, n, g) ==
  IF ~scope.apply \/ S.rt[s].gw # g THEN S ELSE RouteRm(change_route(S, n, FALSE, g), s)

\* Mutant: the tunnel of the gateway before stays.
RebindKeepsTunnel(S, s, n, g, stamp) ==
  LET T == IF S.rt[s].from = "6LBR" THEN S ELSE LostNode(S, s)
  IN [change_route(T, n, TRUE, g) EXCEPT
        !.rt[s].from = "6LBR", !.rt[s].gw = g, !.rt[s].start = stamp]

\* A binding that moves; a local node is lost to the gateway.
Rebind(S, s, n, g, stamp) ==
  LET T == IF S.rt[s].from = "6LBR" THEN change_route(S, n, FALSE, S.rt[s].gw)
           ELSE LostNode(S, s)
  IN [change_route(T, n, TRUE, g) EXCEPT
        !.rt[s].from = "6LBR", !.rt[s].gw = g, !.rt[s].start = stamp]

\* A binding of a node without a route; without a slot the tunnel is taken back.
Bind(S, n, g, stamp) ==
  LET T == change_route(S, n, TRUE, g)
      s == Slot(S)
  IN IF s = NoSlot THEN change_route(T, n, FALSE, g)
     ELSE [RouteAdd(T, s, n) EXCEPT
             !.rt[s].from = "6LBR", !.rt[s].gw = g, !.rt[s].start = stamp]

\* Only the first route to the node is looked at; a binding heard again from
\* its gateway keeps its first time stamp.
mob_add_nio(S, n, handoff, g, stamp) ==
  IF SlotsOf(S, n) = {} THEN IF handoff = "UNKNOWN" THEN S ELSE Bind(S, n, g, stamp)
  ELSE LET s == CHOOSE s \in SlotsOf(S, n) : \A t \in SlotsOf(S, n) : s <= t
       IN IF ~Newer(S.rt[s].start, stamp) THEN S
          ELSE IF handoff = "UNKNOWN" THEN Delete(S, s, n, g)
          ELSE IF S.rt[s].from = "6LBR" /\ S.rt[s].gw = g THEN S
          ELSE Rebind(S, s, n, g, stamp)

\* The options of an update, one after the other.  An address waits for its
\* time stamp; without one it is taken with the stamp 0.
Flush(acc, g) ==
  IF acc.nio = Self THEN acc
  ELSE [acc EXCEPT !.S = mob_add_nio(@, acc.nio, acc.handoff, g, 0), !.nio = Self]

Option(acc, o, g) ==
  CASE o.type = "PREF" -> [Flush(acc, g) EXCEPT !.handoff = o.val]
    [] o.type = "NIO"  -> [Flush(acc, g) EXCEPT !.nio = o.val]
    [] o.type = "TIMESTAMP" ->
         IF acc.nio = Self THEN acc
         ELSE [acc EXCEPT !.S = mob_add_nio(@, acc.nio, acc.handoff, g, o.val), !.nio = Self]

mob_proceed_up(S, m) ==
  LET A[i \in 0 .. Len(m.options)] ==
        IF i = 0 THEN [S |-> S, nio |-> Self, handoff |-> "NO_CHANGE"]
        ELSE Option(A[i - 1], m.options[i], m.gw)
  IN Flush(A[Len(m.options)], m.gw).S

\* The options mob_send_message of a border router writes to one gateway (PADN
\* left out): the bindings B, the deletions D.  hand is its handoff_status, what
\* the last preference it wrote says, in this message or to a gateway before.
Options(hand, B, D, h) ==
  LET bind(n) == <<[type |-> "NIO", val |-> n], [type |-> "TIMESTAMP", val |-> h[n]]>>
      lose(n) == <<[type |-> "NIO", val |-> n]>>
      all(S, op(_)) == FlattenSeq([i \in DOMAIN SetToSeq(S) |-> op(SetToSeq(S)[i])])
      pref(b, v) == IF b THEN <<[type |-> "PREF", val |-> v]>> ELSE <<>>
  IN (pref(B # {} /\ hand = "none", "NEW_BINDING") \o all(B, bind))
       \o (pref(D # {} /\ hand # "UNKNOWN", "UNKNOWN") \o all(D, lose))

\* handoff_status after the part with B and D, the first of the call.
Left(B, D) ==
  IF D # {} THEN "UNKNOWN" ELSE IF B # {} THEN "NEW_BINDING" ELSE "none"

-----------------------------------------------------------------------------
Init ==
  /\ scope \in Scopes
  /\ rt = [s \in Slots |-> [used |-> s = NB - 1, addr |-> Self, from |-> "INTERNAL",
                            gw |-> NoGw, start |-> 0, interval |-> 0]]
  /\ out = EmptyList
  /\ kernel = {}
  /\ cleaner = [active |-> FALSE, repeat |-> 0, at |-> 0]
  /\ now = 1
  /\ heard = [g \in Gws |-> [n \in Nodes |-> 0]]
  /\ lost = [g \in Gws |-> {}]
  /\ net = {}
  /\ intact = TRUE /\ hung = FALSE
  /\ seen = [n \in Nodes |-> 0]

-----------------------------------------------------------------------------
\* The border routers and the network.
Hear ==
  /\ \E g \in scope.gws, n \in scope.nodes : heard' = [heard EXCEPT ![g][n] = now]
  /\ UNCHANGED <<scope, store, cleaner, now, lost, net, intact, hung, seen>>

Lose ==
  /\ \E g \in scope.gws, n \in scope.nodes :
       /\ heard[g][n] # 0
       /\ heard' = [heard EXCEPT ![g][n] = 0]
       /\ lost' = [lost EXCEPT ![g] = @ \cup {n}]
  /\ UNCHANGED <<scope, store, cleaner, now, net, intact, hung, seen>>

\* A node that was lost and came back may be in both parts.  The home agent is
\* the first the border router writes to; the update to a backup begins with
\* what the same call wrote to the home agent (temp_len goes on), and goes on
\* with its handoff_status.
Send ==
  /\ Cardinality(net) < scope.updates
  /\ \E g \in scope.gws :
       LET H == {n \in scope.nodes : heard[g][n] # 0}
           again(S) == IF scope.apply THEN {} ELSE S
       IN \E B \in SUBSET H, D \in SUBSET lost[g],
             C \in SUBSET again(H), E \in SUBSET again(lost[g]) :
            /\ B \cup C \cup D \cup E # {}
            /\ net' = net \cup {[gw |-> g,
                 options |-> Options("none", B, D, heard[g])
                               \o Options(Left(B, D), C, E, heard[g]),
                 stamps |-> [n \in B \cup C |-> heard[g][n]]]}
  /\ UNCHANGED <<scope, store, cleaner, now, heard, lost, intact, hung, seen>>

\* mob_proceed_up, whatever the number of the update.
Receive ==
  /\ ~hung
  /\ \E m \in net :
       LET S == mob_proceed_up(Store, m)
       IN /\ Becomes(S)
          /\ seen' = [n \in Nodes |->
               IF n \in DOMAIN m.stamps /\ m.stamps[n] > seen[n] THEN m.stamps[n] ELSE seen[n]]
  /\ UNCHANGED <<cleaner, now, env, hung>>

-----------------------------------------------------------------------------
\* uip_ds6_route_lookup drops a local route whose timer is over.
Looked(S, n) ==
  LET L == {s \in SlotsOf(S, n) : S.rt[s].from = "DAO" /\ Over(S.rt[s])}
  IN IF L = {} THEN S ELSE LET s == CHOOSE s \in L : TRUE IN LostNode(RouteRm(S, s), s)

Lookup ==
  /\ ~hung
  /\ \E n \in scope.nodes : Looked(Store, n) # Store /\ Becomes(Looked(Store, n))
  /\ UNCHANGED <<cleaner, now, env, hung, seen>>

\* A new node of the mesh: mob_new_node.
Enter(S, s, n) ==
  LET T == change_local_route(RouteAdd(S, s, n), n, TRUE)
  IN [T EXCEPT !.out = ListInit(@, s)]

\* A route that is there: mob_update_node of a home agent
\* takes a binding over from its gateway.
Update(S, s, n) ==
  IF scope.apply /\ S.rt[s].from = "6LBR"
  THEN change_local_route(change_route(S, n, FALSE, S.rt[s].gw), n, TRUE)
  ELSE S

\* Mutant: lifetimes add up.
MajAddsUp(S, s) ==
  [S EXCEPT !.rt[s].from = "DAO", !.rt[s].start = now, !.rt[s].interval = @ + Lifetime,
            !.out = ListMaj(@, s), !.intact = @ /\ S.rt[s].from # "6LBR"]

\* The timer is set, the route goes to the end of the list, by links that are
\* those of another time if a gateway had bound it.
Maj(S, s) ==
  [S EXCEPT !.rt[s].from = "DAO", !.rt[s].start = now, !.rt[s].interval = Lifetime,
            !.out = ListMaj(@, s), !.intact = @ /\ S.rt[s].from # "6LBR"]

\* Mutant: a cleaner that waits for its second turn is put off again.
PutOffAlways ==
  cleaner' = IF cleaner.active
             THEN [active |-> TRUE, repeat |-> Lifetime, at |-> now + Lifetime]
             ELSE [active |-> TRUE, repeat |-> 0, at |-> now + Lifetime]

\* mob_maj_node starts the cleaner, or puts it off, once.
PutOff ==
  cleaner' = IF ~cleaner.active
             THEN [active |-> TRUE, repeat |-> 0, at |-> now + Lifetime]
             ELSE IF cleaner.repeat = 0
             THEN [active |-> TRUE, repeat |-> Lifetime, at |-> now + Lifetime]
             ELSE cleaner

\* A DAO (dao_input, rpl_add_route); without a slot it is dropped.
Dao ==
  /\ ~hung
  /\ \E n \in scope.nodes :
       LET S == Looked(Store, n)
           old == SlotsOf(S, n)
           s == IF old # {} THEN CHOOSE s \in old : \A t \in old : s <= t ELSE Slot(S)
           T == IF old # {} THEN Update(S, s, n) ELSE Enter(S, s, n)
       IN IF s = NoSlot THEN Becomes(S) /\ UNCHANGED cleaner
          ELSE Becomes(Maj(T, s)) /\ PutOff
  /\ UNCHANGED <<now, env, hung, seen>>

\* A No-Path DAO (dao_input), also of a node bound to another gateway: of its
\* timer, long over, an unsigned number of seconds remains.
NoPathDao ==
  /\ ~hung
  /\ \E n \in scope.nodes :
       LET S == Looked(Store, n)
       IN \E s \in SlotsOf(S, n) :
            /\ Remains(S.rt[s], DaoTimeout)
            /\ Becomes([S EXCEPT !.rt[s].start = now, !.rt[s].interval = DaoTimeout])
  /\ UNCHANGED <<cleaner, now, env, hung, seen>>

-----------------------------------------------------------------------------
\* One entry of the list, for the cleaner.  The tunnel route it deletes first is
\* that of an address no mote has: the first half of the mote's, written into the
\* second (memcpy from &ipaddr instead of its identifier).
Cleaned(S, s) == IF ~Over(S.rt[s]) THEN S ELSE LostNode(RouteRm(S, s), s)

\* The walk of mob_clean_entry, as far as 3 * NB entries; the next entry is
\* read before the current one is unlinked.
Walk(S) ==
  LET W[i \in 0 .. 3 * NB] ==
        IF i = 0 THEN [S |-> S, pos |-> S.out.min]
        ELSE LET v == W[i - 1]
             IN IF v.pos \notin Slots THEN v
                ELSE [S |-> Cleaned(v.S, v.pos), pos |-> v.S.out.next[v.pos]]
  IN W[3 * NB]

\* ev_timer: a timer with a repeat runs once more; mob_clean_entry then sets
\* its repeat to 0, the least of what remains and of 0.
Fired == [active |-> cleaner.repeat > 0, repeat |-> 0,
          at |-> IF cleaner.repeat > 0 THEN cleaner.at + cleaner.repeat ELSE 0]

Due == cleaner.active /\ now >= cleaner.at

mob_clean_entry ==
  /\ ~hung /\ Due
  /\ LET w == Walk(Store)
     IN Becomes(w.S) /\ hung' = (w.pos # LIST_END)
  /\ cleaner' = Fired
  /\ UNCHANGED <<now, env, seen>>

Tick ==
  /\ now < scope.end /\ ~Due
  /\ now' = now + 1
  /\ UNCHANGED <<store, cleaner, env, intact, hung, seen>>

Next == \/ Hear \/ Lose \/ Send \/ Receive
        \/ Lookup \/ Dao \/ NoPathDao \/ mob_clean_entry \/ Tick

Spec == Init /\ [][Next]_vars

-----------------------------------------------------------------------------
\* Every variable keeps its type.
HomeAgentTypeOK ==
  /\ scope \in Scopes
  /\ rt \in [Slots -> [used : BOOLEAN, addr : Nodes \cup {Self},
                       from : {"INTERNAL", "DAO", "6LBR"}, gw : Gws \cup {NoGw},
                       start : 0 .. scope.end, interval : {0, DaoTimeout, Lifetime}]]
  /\ out \in Lists
  /\ kernel \subseteq Nodes \X (Gws \cup {NoGw, "tty"})
  /\ cleaner \in [active : BOOLEAN, repeat : {0, Lifetime}, at : 0 .. scope.end + 2 * Lifetime]
  /\ now \in 1 .. scope.end
  /\ heard \in [Gws -> [Nodes -> 0 .. scope.end]] /\ lost \in [Gws -> SUBSET Nodes]
  /\ seen \in [Nodes -> 0 .. scope.end]
  /\ intact \in BOOLEAN /\ hung \in BOOLEAN

Local == {s \in Slots : rt[s].used /\ rt[s].from = "DAO"}
Bound == {s \in Slots : rt[s].used /\ rt[s].from = "6LBR"}

\* The route of every node of the table, to the mesh or to a gateway's tunnel.
TableRoutes == {<<rt[s].addr, "tty">> : s \in Local}
                 \cup {<<rt[s].addr, rt[s].gw>> : s \in {t \in Bound : scope.apply}}

\* As long as every node finds a slot, the kernel of a home agent has one route
\* per node, to the mesh or to the tunnel of the gateway the table names,
\* however a node goes from gateway to gateway and to the home agent's own mesh
\* and back; the kernel of a backup has no others (it may lack that of a bound
\* node that came to its mesh).  With several nodes only until a stale link was
\* used: from then on the cleaner may come across the slot of a route long gone,
\* and drop the node's new route.
KernelAgrees ==
  (NB > Cardinality(Nodes) /\ (intact \/ Cardinality(scope.nodes) = 1)) =>
    /\ kernel \subseteq TableRoutes
    /\ scope.apply => TableRoutes \subseteq kernel
    /\ \A s, t \in Local \cup Bound : rt[s].addr = rt[t].addr => s = t

\* An update that comes twice in a row changes nothing the second time.
Idempotent ==
  NB > Cardinality(Nodes) =>
    \A m \in net : LET S == mob_proceed_up(Store, m) IN mob_proceed_up(S, m) = S

\* A local route is removed at most two lifetimes after its end, although the
\* cleaner does not compute when it has to run next and every DAO may put it off.
CleanedInTime ==
  intact => \A s \in Local : now <= rt[s].start + rt[s].interval + 2 * Lifetime

\* What the list of local nodes holds.
Listed ==
  LET R[i \in 0 .. NB] ==
        IF i = 0 THEN {out.min} \cap Slots
        ELSE R[i - 1] \cup ({out.next[s] : s \in R[i - 1]} \cap Slots)
  IN R[NB]

\* The list holds the local routes, until a route that a gateway had bound
\* becomes local: its links are not those of the list, and the cleaner may
\* never come to the end of it.
ListHoldsLocal == intact => Listed = Local /\ ~hung

\* The time stamp of a node's route never goes back, as long as the node has the
\* route.  It is not the newest the node was bound with: a binding heard again
\* from its gateway leaves the one it has.  Every node finds a slot: in a full
\* table one update may recycle the slot of a route and bind its node again, older.
StampsGrow ==
  [][NB > Cardinality(Nodes) => \A s \in Slots :
       (rt[s].used /\ rt'[s].used /\ rt[s].addr = rt'[s].addr) => rt'[s].start >= rt[s].start]_vars

\* mobility.c: "Do not change local routes".
LocalRoutesKept ==
  [][\A s \in Local : Receive => rt'[s] = rt[s]]_vars

\* mobility.c: "Received distant Node older than local node ... IGNORED".  A
\* binding moves to another gateway only for a stamp not older than all that
\* were handled.
OlderIgnored ==
  [][\A s \in Bound :
       (rt'[s].used /\ rt'[s].addr = rt[s].addr /\ rt'[s].gw \notin {rt[s].gw, NoGw})
         => rt'[s].start >= seen[rt[s].addr]]_vars

\* mobility.c: "ERROR : NIO was deleted by the wrong 6LBR".  The right one, which
\* does not hear the node any more, has its deletion carried out.
DeletionHeard ==
  \A s \in Bound, m \in net :
    (/\ m.gw = rt[s].gw /\ heard[m.gw][rt[s].addr] = 0
     /\ m.options = Options("none", {}, {rt[s].addr}, heard[m.gw]))
      => ~mob_proceed_up(Store, m).rt[s].used
=============================================================================
