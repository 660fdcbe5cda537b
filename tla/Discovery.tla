------------------------------ MODULE Discovery ------------------------------
(***************************************************************************)
(* How gateways find each other (mob_send_lbr, mob_new_gw, mob_lbr_evolve, *)
(* mob_delete_gw), the tunnels they open to each other in the kernel       *)
(* (tunnel.c), and how a gateway starts, is interrupted (down, the SIGINT  *)
(* handler) and is killed.  The kernel keeps its tunnels when the process  *)
(* goes away.                                                              *)
(*                                                                         *)
(* Announcements are datagrams: they may be late, come twice or never.     *)
(* Of the bindings only the slot each was learned from is kept; the        *)
(* messages that set it, and their time stamps, are in Router, HomeAgent.  *)
(***************************************************************************)
EXTENDS Integers, FiniteSets

CONSTANTS
  Gws,        \* the gateways
  NoGw,
  Motes,      \* the nodes with bindings
  NBackup,    \* MAX_LBR_BACKUP
  NKnown,     \* MAX_KNOWN_GATEWAY
  NDev,       \* tunnelnum is kept modulo this (256)
  Scopes      \* the instances looked at, see scope

ASSUME DiscoveryAssumption ==
  /\ NoGw \notin Gws /\ {NBackup, NKnown, NDev} \subseteq Nat
  /\ NBackup < NKnown /\ NKnown <= NDev
  /\ Scopes \subseteq [modes : [Gws -> SUBSET {"home", "backup", "router"}],
                       contacts : [Gws -> SUBSET Gws], named : [Gws -> SUBSET Gws],
                       starts : [Gws -> Nat], stops : Nat]
  /\ \A c \in Scopes, g \in Gws : g \notin c.contacts[g] \cup c.named[g]

VARIABLES
  scope,    \* environment: per gateway, the modes it is started in, if any, the
            \* gateways it is given with -c and those its motes name; bounds: times a
            \* gateway is started, and gateways given up, stopped or killed
  run,      \* "off", "on", "stopping": down has run, the loop has not ended
  mode,     \* mob_type
  gws,      \* per slot: addr (NoGw: not MOB_GW_KNOWN) and devnum
  num,      \* tunnelnum
  bind,     \* per mote with a binding: the slot in state.gw
  busy,     \* what mob_new_gw is about to open a tunnel for: slot, address, flags
  tunnel,   \* kernel: per device number the remote end
  reroute,  \* kernel: the device of the default route of the mesh's table
  net,      \* announcements sent
  starts, stops,
  was,      \* ghost: the modes a gateway was ever started in
  neat,     \* ghost: not killed, and nothing done between down and the end
  owed      \* ghost: <<router, backup>> that a home agent has to make known

process == <<gws, num, bind, tunnel, reroute, net>>
ghosts  == <<was, neat, owed>>
vars    == <<scope, run, mode, busy, process, starts, stops, ghosts>>

Slots == 0 .. NKnown - 1
Devs  == 0 .. NDev - 1
None  == -1

Upward(g) == mode[g] \in {"router", "backup"}
Stores(g) == mode[g] \in {"home", "backup"}
Applies(g) == mode[g] = "home"

-----------------------------------------------------------------------------
(* The handlers below turn a record of what gateway g works on into another. *)
View(g) == [gws |-> gws[g], num |-> num[g], bind |-> bind[g],
            tunnel |-> tunnel[g], reroute |-> reroute[g], net |-> net]

Becomes(g, P) ==
  /\ gws' = [gws EXCEPT ![g] = P.gws]           /\ num' = [num EXCEPT ![g] = P.num]
  /\ bind' = [bind EXCEPT ![g] = P.bind]        /\ net' = P.net
  /\ tunnel' = [tunnel EXCEPT ![g] = P.tunnel]  /\ reroute' = [reroute EXCEPT ![g] = P.reroute]

Known(P) == {i \in Slots : P.gws[i].addr # NoGw}
SlotsOf(P, p) == {i \in Known(P) : P.gws[i].addr = p}

\* "ip -6 tunnel add": a device of that name stays what it is.
tunnel_create(P, d, p) == [P EXCEPT !.tunnel[d] = IF @ = NoGw THEN p ELSE @]

close_tunnel(P, d) ==
  [P EXCEPT !.tunnel[d] = NoGw, !.reroute = IF @ = d THEN None ELSE @]

\* Mutant: the number has been counted on.
create_reroute_next(P, d) == [P EXCEPT !.reroute = IF @ = None THEN (d + 1) % NDev ELSE @]

\* "ip -6 route add default": a default route that is there stays.
create_reroute(P, d) == [P EXCEPT !.reroute = IF @ = None THEN d ELSE @]

clear_reroute(P) == [P EXCEPT !.reroute = None]

\* The flags of a mode.
Roles(m) == CASE m = "home" -> {"R", "S"} [] m = "backup" -> {"S"} [] OTHER -> {}

\* mob_send_lbr: who I am, with flag Q asking the same of the other.
Announce(g, P, p, flag) ==
  [P EXCEPT !.net = @ \cup {[to |-> p, flags |-> flag \cup Roles(mode[g]), addr |-> g]}]

\* Mutant: everyone is told but the backups.
PassOnHome(P, p) ==
  [P EXCEPT !.net = @ \cup {[to |-> P.gws[i].addr, flags |-> {"U"}, addr |-> p] :
                            i \in Known(P) \cap {0}}]

\* Mutant: slots that are not in use are written to as well.
PassOnUnused(P, p) ==
  [P EXCEPT !.net = @ \cup {[to |-> P.gws[i].addr, flags |-> {"U"}, addr |-> p] : i \in 0 .. NBackup}]

\* mob_send_lbr with flag U: the home agent and the backups are told of p.
PassOn(P, p) ==
  [P EXCEPT !.net = @ \cup {[to |-> P.gws[i].addr, flags |-> {"U"}, addr |-> p] :
                            i \in Known(P) \cap 0 .. NBackup}]

\* The slot gets the next device, a tunnel to p.
OpenDevice(P, i, p) ==
  tunnel_create([P EXCEPT !.gws[i].dev = P.num, !.num = (@ + 1) % NDev], P.num, p)

\* mob_lbr_evolve_state, as far as tunnels go: the new home agent of a gateway
\* that sends updates gets the traffic of the mesh.
EvolveState(g, P, i, p, flags, old) ==
  IF Upward(g) /\ "R" \in flags /\ "R" \notin old
  THEN create_reroute(OpenDevice(P, i, p), P.num) ELSE P

\* Mutant: the gateway is copied and not moved.
EvolveCopies(g, P, old, i, flags) ==
  EvolveState(g, [P EXCEPT !.gws[i] = P.gws[old]], i, P.gws[old].addr, flags, {"R"})

\* "state.gw = old" where a comparison is meant: every binding is given the old
\* slot, and is taken for one of its own unless that is slot 0.
Rebound(bnd, old, new) ==
  [n \in Motes |-> IF bnd[n] = None THEN None ELSE IF old = 0 THEN 0 ELSE new]

\* mob_lbr_evolve: a known gateway in another role, whose slot moves.
Evolve(g, P, old, i, flags) ==
  LET T == [P EXCEPT !.gws[i] = P.gws[old], !.gws[old] = [addr |-> NoGw, dev |-> 0],
                     !.bind = IF Stores(g) THEN Rebound(@, old, i) ELSE @]
  IN EvolveState(g, T, i, P.gws[old].addr, flags, IF old = 0 THEN {"R"} ELSE {})

\* Mutant: the bindings stay.
DeleteGwKeepsRoutes(g, P, i) ==
  LET T == [P EXCEPT !.gws[i].addr = NoGw]
      V == IF Upward(g) /\ i = 0 THEN close_tunnel(clear_reroute(T), T.gws[i].dev) ELSE T
  IN IF Applies(g) THEN close_tunnel(V, V.gws[i].dev) ELSE V

\* mob_delete_gw; clean_routes, with the same assignment, removes every binding,
\* of slot 0 none.
DeleteGw(g, P, i) ==
  LET T == [P EXCEPT !.gws[i].addr = NoGw,
                     !.bind = IF Stores(g) THEN Rebound(@, i, None) ELSE @]
      V == IF Upward(g) /\ i = 0 THEN close_tunnel(clear_reroute(T), T.gws[i].dev) ELSE T
  IN IF Applies(g) THEN close_tunnel(V, V.gws[i].dev) ELSE V

-----------------------------------------------------------------------------
Idle(g) == run[g] # "off" /\ busy[g].slot = None

NotBusy == [slot |-> None, addr |-> NoGw, flags |-> {}]

\* The slots of a role.
Places(flags) ==
  IF "R" \in flags THEN {0} ELSE IF "S" \in flags THEN 1 .. NBackup
  ELSE NBackup + 1 .. NKnown - 1

\* mob_new_gw, after the answer to a question: another home agent, a gateway in
\* its place and one without a place are left alone.
NewGw(g, P, m) ==
  LET free == Places(m.flags) \ Known(P)
      i == CHOOSE i \in free : \A j \in free : i <= j
      T == [P EXCEPT !.gws[i] = [addr |-> m.addr, dev |-> 0]]
  IN IF free = {} \/ SlotsOf(P, m.addr) \cap Places(m.flags) # {}
     THEN Becomes(g, P) /\ UNCHANGED busy
     ELSE IF SlotsOf(P, m.addr) # {}
     THEN Becomes(g, Evolve(g, P, CHOOSE j \in SlotsOf(P, m.addr) : TRUE, i, m.flags))
          /\ UNCHANGED busy
     ELSE Becomes(g, T) /\ busy' = [busy EXCEPT ![g] = [slot |-> i, addr |-> m.addr,
                                                         flags |-> m.flags]]

\* A gateway someone else knows is asked who it is, unless it is oneself or,
\* the loop over the slots returning in its first turn, the home agent.
Told(g, P, m) ==
  /\ Becomes(g, IF m.addr = g \/ P.gws[0].addr = m.addr THEN P ELSE Announce(g, P, m.addr, {"Q"}))
  /\ UNCHANGED busy

\* A datagram that was queued is still handled after down.
Receive(m) ==
  LET g == m.to
      P == IF "Q" \in m.flags THEN Announce(g, View(g), m.addr, {}) ELSE View(g)
  IN /\ m \in net /\ Idle(g)
     /\ IF "U" \in m.flags THEN Told(g, P, m) ELSE NewGw(g, P, m)
     /\ neat' = [neat EXCEPT ![g] = @ /\ run[g] = "on"]
     /\ UNCHANGED <<scope, run, mode, starts, stops, was, owed>>

\* mob_new_gw, from the opening of the tunnel on.  SIGINT may come before it: down
\* takes the slot away and closes device 0, which is not the slot's yet, and the
\* tunnel is opened all the same, to the address that is still there.
OpenTunnel(g) ==
  /\ busy[g] # NotBusy
  /\ LET i == busy[g].slot
         p == busy[g].addr
         T == IF Applies(g) THEN OpenDevice(View(g), i, p) ELSE View(g)
         V == EvolveState(g, T, i, p, busy[g].flags, {})
         others == Known(V) \ {i}
         pass == UNION {PassOn(V, V.gws[j].addr).net : j \in others}
     IN /\ Becomes(g, [V EXCEPT !.net = @ \cup pass])
        /\ owed' = IF mode[g] = "home" /\ i \in 1 .. NBackup
                   THEN owed \cup {<<V.gws[j].addr, V.gws[i].addr>> : j \in others \ 0 .. NBackup}
                   ELSE owed
  /\ busy' = [busy EXCEPT ![g] = NotBusy]
  /\ neat' = [neat EXCEPT ![g] = @ /\ run[g] = "on"]
  /\ UNCHANGED <<scope, run, mode, starts, stops, was>>

\* mob_new_6lbr: a DAO names another DODAG, by its root.  A gateway that is not in
\* the table is passed on to the home agent and the backups, or asked who it is.
New6lbr(g, p) ==
  /\ Idle(g) /\ p \in scope.named[g] /\ was[p] # {}
  /\ LET P == View(g)
     IN /\ SlotsOf(P, p) = {}
        /\ Becomes(g, IF Upward(g) /\ 0 \in Known(P) THEN PassOn(P, p)
                      ELSE Announce(g, P, p, {"Q"}))
  /\ UNCHANGED <<scope, run, mode, busy, starts, stops, ghosts>>

\* An update of mote n from gateway s: mob_proceed_up knows the sender by its slot
\* and stops the update of a gateway it does not know.  A newer one binds the mote
\* to that slot, whichever it was bound to; a deletion is for its own slot only.
Update(g, s, n) ==
  /\ Idle(g) /\ Stores(g)
  /\ run[s] # "off" /\ Upward(s)
  /\ SlotsOf(View(s), g) \cap 0 .. NBackup # {}
  /\ \E i \in SlotsOf(View(g), s) :
       \/ bind' = [bind EXCEPT ![g][n] = i]
       \/ /\ Applies(g) /\ bind[g][n] = i
          /\ bind' = [bind EXCEPT ![g][n] = None]
  /\ UNCHANGED <<scope, run, mode, gws, num, busy, tunnel, reroute, net, starts, stops, ghosts>>

\* mob_send_message stops a gateway that left its updates unanswered.
GiveUp(g, i) ==
  /\ Idle(g) /\ run[g] = "on" /\ Upward(g) /\ stops < scope.stops
  /\ i \in Known(View(g)) \cap 0 .. NBackup
  /\ Becomes(g, DeleteGw(g, View(g), i))
  /\ stops' = stops + 1
  /\ UNCHANGED <<scope, run, mode, busy, starts, ghosts>>

-----------------------------------------------------------------------------
\* The command line: one of -a, -b and -r, and maybe -c; mob_init.
Start(g) ==
  /\ run[g] = "off" /\ starts[g] < scope.starts[g]
  /\ \E m \in scope.modes[g], c \in scope.contacts[g] \cup {NoGw} :
       /\ mode' = [mode EXCEPT ![g] = m]
       /\ was' = [was EXCEPT ![g] = @ \cup {m}]
       /\ net' = IF c = NoGw THEN net
                 ELSE net \cup {[to |-> c, addr |-> g, flags |-> {"Q"} \cup Roles(m)]}
  /\ run' = [run EXCEPT ![g] = "on"]
  /\ gws' = [gws EXCEPT ![g] = [i \in Slots |-> [addr |-> NoGw, dev |-> 0]]]
  /\ num' = [num EXCEPT ![g] = 0]
  /\ bind' = [bind EXCEPT ![g] = [n \in Motes |-> None]]
  /\ starts' = [starts EXCEPT ![g] = @ + 1]
  /\ UNCHANGED <<scope, busy, tunnel, reroute, stops, neat, owed>>

\* Mutant: a border router closes nothing.
DownSlotsHome(g) == IF Stores(g) THEN Slots ELSE {}

\* mob_close_tunnels: a border router has a tunnel to its home agent only.
DownSlots(g) == IF Stores(g) THEN Slots ELSE {0}

\* The signal handler, between any two steps.
Down(g) ==
  /\ run[g] = "on" /\ stops < scope.stops
  /\ LET P == View(g)
         D[n \in 0 .. NKnown] ==
           IF n = 0 THEN P
           ELSE IF n - 1 \in DownSlots(g) \cap Known(P) THEN DeleteGw(g, D[n - 1], n - 1)
           ELSE D[n - 1]
     IN Becomes(g, D[NKnown])
  /\ run' = [run EXCEPT ![g] = "stopping"]
  /\ stops' = stops + 1
  /\ UNCHANGED <<scope, mode, busy, starts, ghosts>>

End(g) ==
  /\ run[g] = "stopping" /\ Idle(g)
  /\ run' = [run EXCEPT ![g] = "off"]
  /\ UNCHANGED <<scope, mode, process, busy, starts, stops, ghosts>>

Kill(g) ==
  /\ run[g] # "off" /\ stops < scope.stops
  /\ run' = [run EXCEPT ![g] = "off"]
  /\ busy' = [busy EXCEPT ![g] = NotBusy]
  /\ neat' = [neat EXCEPT ![g] = FALSE]
  /\ stops' = stops + 1
  /\ UNCHANGED <<scope, mode, process, starts, was, owed>>

Init ==
  /\ scope \in Scopes
  /\ run = [g \in Gws |-> "off"]
  /\ mode = [g \in Gws |-> "none"]
  /\ gws = [g \in Gws |-> [i \in Slots |-> [addr |-> NoGw, dev |-> 0]]]
  /\ num = [g \in Gws |-> 0]
  /\ bind = [g \in Gws |-> [n \in Motes |-> None]]
  /\ busy = [g \in Gws |-> NotBusy]
  /\ tunnel = [g \in Gws |-> [d \in Devs |-> NoGw]]
  /\ reroute = [g \in Gws |-> None]
  /\ net = {}
  /\ starts = [g \in Gws |-> 0] /\ stops = 0
  /\ was = [g \in Gws |-> {}]
  /\ neat = [g \in Gws |-> TRUE]
  /\ owed = {}

\* Nothing stops: the gateways are started and talk.
Talk == \/ \E m \in net : Receive(m)
        \/ \E g \in Gws : OpenTunnel(g) \/ Start(g)
        \/ \E g, p \in Gws : New6lbr(g, p)

Next == \/ Talk
        \/ \E g, s \in Gws, n \in Motes : Update(g, s, n)
        \/ \E g \in Gws, i \in 0 .. NBackup : GiveUp(g, i)
        \/ \E g \in Gws : Down(g) \/ End(g) \/ Kill(g)

Spec == Init /\ [][Next]_vars

Messages == [to : Gws, addr : Gws, flags : SUBSET {"R", "S", "Q", "U"}]

\* The gateways stay up, and what they send arrives.
Live == /\ Init /\ [][Talk]_vars
        /\ \A m \in Messages : WF_vars(Receive(m))
        /\ \A g \in Gws : WF_vars(OpenTunnel(g))

-----------------------------------------------------------------------------
\* Every variable keeps its type: slots and device numbers are in range, and an
\* announcement goes to a gateway, never to a slot that is not in use.
DiscoveryTypeOK ==
  /\ scope \in Scopes
  /\ run \in [Gws -> {"off", "on", "stopping"}]
  /\ mode \in [Gws -> {"none", "home", "backup", "router"}]
  /\ gws \in [Gws -> [Slots -> [addr : Gws \cup {NoGw}, dev : Devs]]]
  /\ num \in [Gws -> Devs]
  /\ bind \in [Gws -> [Motes -> Slots \cup {None}]]
  /\ busy \in [Gws -> [slot : Slots \cup {None}, addr : Gws \cup {NoGw},
                      flags : SUBSET {"R", "S", "Q"}]]
  /\ tunnel \in [Gws -> [Devs -> Gws \cup {NoGw}]]
  /\ reroute \in [Gws -> Devs \cup {None}]
  /\ net \subseteq Messages
  /\ starts \in [Gws -> Nat] /\ stops \in 0 .. scope.stops
  /\ \A g \in Gws : starts[g] <= scope.starts[g]
  /\ was \in [Gws -> SUBSET {"home", "backup", "router"}] /\ neat \in [Gws -> BOOLEAN]
  /\ owed \subseteq Gws \X Gws

\* A gateway that is announced again, late, twice or in another role is never
\* known twice, and never knows itself; updates go to slot 0 as to the home agent
\* and to 1 .. NBackup as to backups: the gateway there was started in that mode.
SlotsInOrder ==
  \A g \in Gws : \A i \in Known(View(g)) :
    LET p == gws[g][i].addr
    IN /\ p # g /\ SlotsOf(View(g), p) = {i}
       /\ IF i = 0 THEN "home" \in was[p]
          ELSE IF i <= NBackup THEN "backup" \in was[p] ELSE "router" \in was[p]

Constant(g) == Cardinality(was[g]) <= 1

\* The tunnel of a known gateway leads to it, and the traffic of the mesh to the
\* home agent, however gateways come, go and come back: as long as no process was
\* killed, which leaves tunnels of its numbers, and none changed its mode.
TunnelsLead ==
  \A g \in Gws : (run[g] = "on" /\ neat[g] /\ \A p \in Gws : Constant(p)) =>
    /\ Applies(g) => \A i \in Known(View(g)) \ {busy[g].slot} :
                       tunnel[g][gws[g][i].dev] = gws[g][i].addr
    /\ (Upward(g) /\ 0 \in Known(View(g)) \ {busy[g].slot}) =>
         reroute[g] # None /\ tunnel[g][reroute[g]] = gws[g][0].addr

\* A gateway that is stopped leaves no tunnel and no route behind, unless it was
\* killed or did more between down and the end of the loop, or its home agent
\* came back as something else, which closes no tunnel.
TunnelsClosed ==
  \A g \in Gws : (run[g] = "off" /\ neat[g] /\ \A p \in Gws : Constant(p)) =>
    reroute[g] = None /\ \A d \in Devs : tunnel[g][d] = NoGw

\* The gateway of a binding of a home agent is one that is known: nothing is sent
\* into a tunnel that was closed.  It takes a prefix with one home agent: when a
\* second one, which is known in slot 0, leaves that slot, every binding is given
\* slot 0.
BoundSlotKnown ==
  \A g \in Gws : mode[g] = "home" /\ (\A p \in Gws \ {g} : "home" \notin was[p]) =>
    \A n \in Motes : bind[g][n] # None => bind[g][n] \in Known(View(g))

\* The same, whatever other home agents there are.
BoundSlotAlwaysKnown ==
  \A g \in Gws, n \in Motes :
    (mode[g] = "home" /\ bind[g][n] # None) => bind[g][n] \in Known(View(g))

Knows(g, p) == SlotsOf(View(g), p) # {}

\* mobility.c: "ERROR : NIO was deleted by the wrong 6LBR".  When gateways come, go
\* and change their slots, a binding stays with the gateway that announced it,
\* whose deletion is the right one.
RightGatewayDeletes ==
  [][\A g \in Gws, n \in Motes :
       (gws' # gws /\ bind[g][n] # None /\ bind'[g][n] # None) =>
         gws'[g][bind'[g][n]].addr \in {gws[g][bind[g][n]].addr, NoGw}]_vars

\* What is sent has been sent, and the gateway is in its place or has none.
Quiet(m) ==
  LET g == m.to
      P == View(g)
  IN \/ ~Idle(g)
     \/ /\ "U" \in m.flags
        /\ m.addr = g \/ P.gws[0].addr = m.addr \/ Announce(g, P, m.addr, {"Q"}) = P
     \/ /\ "U" \notin m.flags
        /\ "Q" \in m.flags => Announce(g, P, m.addr, {}) = P
        /\ Places(m.flags) \subseteq Known(P) \/ SlotsOf(P, m.addr) \cap Places(m.flags) # {}

\* No announcement has anything to change any more.
Settled == /\ \A g \in Gws : busy[g] = NotBusy
           /\ \A m \in net : Quiet(m)

\* A backup that comes to a home agent and a border router that was there before
\* it know each other once every announcement has been handled, in whatever
\* order, as long as no gateway stops.
BackupsMeetRouters ==
  stops = 0 /\ owed # {} /\ Settled => \A p \in owed : Knows(p[1], p[2]) /\ Knows(p[2], p[1])

\* And under fairness they do get to know each other.
BackupsMeet ==
  \A r, b \in Gws : <<r, b>> \in owed ~> Knows(r, b) /\ Knows(b, r)
=============================================================================
