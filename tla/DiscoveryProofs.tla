---------------------------- MODULE DiscoveryProofs ----------------------------
(***************************************************************************)
(* The table of gateways, for every number of gateways and slots, in any   *)
(* roles, however they start, stop and are killed.                         *)
(***************************************************************************)
EXTENDS Discovery, Lemmas

-----------------------------------------------------------------------------
(* The inductive invariant *)

\* The role that a slot stands for, and the one that a message states.
Place(i) == IF i = 0 THEN "home" ELSE IF i <= NBackup THEN "backup" ELSE "router"
RoleOf(flags) == IF "R" \in flags THEN "home" ELSE IF "S" \in flags THEN "backup" ELSE "router"

\* Nobody announces itself to itself, or in a mode it was never started in, and
\* what is said of another asks nothing.
Sound(m) ==
  IF "U" \in m.flags THEN "Q" \notin m.flags
  ELSE m.addr # m.to /\ RoleOf(m.flags) \in was[m.addr]

NetInv == \A m \in net : Sound(m)

ModeInv == \A g \in Gws : run[g] # "off" => mode[g] \in was[g]

\* What mob_new_gw is about to do belongs to a process that runs; if down came in
\* between, a home agent knows nobody any more.
BusyInv ==
  \A g \in Gws :
    /\ run[g] = "off" => busy[g] = NotBusy
    /\ busy[g] # NotBusy => busy[g].slot # None
    /\ busy[g] # NotBusy /\ mode[g] = "home" /\ gws[g][busy[g].slot].addr = NoGw =>
         Known(View(g)) = {}

DiscoveryInv ==
  DiscoveryTypeOK /\ SlotsInOrder /\ BoundSlotKnown /\ NetInv /\ ModeInv /\ BusyInv

-----------------------------------------------------------------------------
(* What a handler may turn the view of a gateway into *)

Entry == [addr : Gws \cup {NoGw}, dev : Devs]

Openings == [slot : Slots \cup {None}, addr : Gws \cup {NoGw}, flags : SUBSET {"R", "S", "Q"}]

Views == [gws : [Slots -> Entry], num : Devs, bind : [Motes -> Slots \cup {None}],
          tunnel : [Devs -> Gws \cup {NoGw}], reroute : Devs \cup {None},
          net : SUBSET Messages]

InOrder(g, P) ==
  \A i \in Known(P) : /\ P.gws[i].addr # g /\ Place(i) \in was[P.gws[i].addr]
                      /\ SlotsOf(P, P.gws[i].addr) = {i}

Truthful(P) == \A m \in P.net : Sound(m)

SoleHome(g) == mode[g] = "home" /\ \A p \in Gws \ {g} : "home" \notin was[p]

BoundIn(g, P) == SoleHome(g) => \A n \in Motes : P.bind[n] # None => P.bind[n] \in Known(P)

Good(g, P) == P \in Views /\ InOrder(g, P) /\ Truthful(P) /\ BoundIn(g, P)

LEMMA Numbers ==
  /\ NBackup \in Nat /\ NKnown \in Nat /\ NDev \in Nat /\ NDev > 0 /\ NBackup < NKnown
  /\ 0 \in Slots /\ 0 \in Devs /\ Slots \subseteq Nat /\ None \notin Slots /\ None \notin Devs
  /\ \A d \in Devs : (d + 1) % NDev \in Devs
<1>1. /\ NBackup \in Nat /\ NKnown \in Nat /\ NDev \in Nat /\ NDev > 0 /\ NBackup < NKnown
  BY DiscoveryAssumption
<1>2. 0 \in Slots /\ 0 \in Devs /\ Slots \subseteq Nat /\ None \notin Slots /\ None \notin Devs
  BY <1>1 DEF Slots, Devs, None
<1>3. \A d \in Devs : (d + 1) % NDev \in Devs
  BY <1>1 DEF Devs
<1> QED BY <1>1, <1>2, <1>3

LEMMA ViewsAreGood ==
  ASSUME DiscoveryInv
  PROVE  \A g \in Gws : Good(g, View(g))
<1> SUFFICES ASSUME NEW g \in Gws PROVE Good(g, View(g))
  OBVIOUS
<1>1. View(g) \in Views
  BY DEF DiscoveryInv, DiscoveryTypeOK, View, Views, Entry
<1>2. InOrder(g, View(g))
  BY DEF DiscoveryInv, SlotsInOrder, InOrder, Place, View, Known, SlotsOf
<1>3. Truthful(View(g))
  BY DEF DiscoveryInv, NetInv, Truthful, View
<1>4. BoundIn(g, View(g))
  BY DEF DiscoveryInv, BoundSlotKnown, BoundIn, SoleHome, View
<1> QED BY <1>1, <1>2, <1>3, <1>4 DEF Good

\* The gateways and their slots, and what the network holds.
TableOK ==
  /\ gws \in [Gws -> [Slots -> Entry]] /\ num \in [Gws -> Devs]
  /\ bind \in [Gws -> [Motes -> Slots \cup {None}]]
  /\ tunnel \in [Gws -> [Devs -> Gws \cup {NoGw}]]
  /\ reroute \in [Gws -> Devs \cup {None}] /\ net \subseteq Messages
  /\ SlotsInOrder /\ BoundSlotKnown /\ NetInv

LEMMA Moves ==
  ASSUME DiscoveryInv, NEW g \in Gws, NEW P, Good(g, P), Becomes(g, P),
         UNCHANGED <<mode, was>>
  PROVE  TableOK'
<1>1. /\ gws' \in [Gws -> [Slots -> Entry]] /\ num' \in [Gws -> Devs]
      /\ bind' \in [Gws -> [Motes -> Slots \cup {None}]]
      /\ tunnel' \in [Gws -> [Devs -> Gws \cup {NoGw}]]
      /\ reroute' \in [Gws -> Devs \cup {None}] /\ net' \subseteq Messages
  BY DEF DiscoveryInv, DiscoveryTypeOK, Good, Becomes, Views, Entry
<1>2. /\ \A q \in Gws \ {g} : gws'[q] = gws[q] /\ bind'[q] = bind[q]
      /\ gws'[g] = P.gws /\ bind'[g] = P.bind /\ net' = P.net
  BY DEF DiscoveryInv, DiscoveryTypeOK, Becomes
<1>3. \A q \in Gws \ {g} : InOrder(q, View(q)) /\ BoundIn(q, View(q))
  BY ViewsAreGood DEF Good
<1>4. SlotsInOrder'
  <2> SUFFICES ASSUME NEW q \in Gws, NEW i \in Slots, gws'[q][i].addr # NoGw
               PROVE  /\ gws'[q][i].addr # q
                      /\ {j \in Slots : gws'[q][j].addr # NoGw /\
                                        gws'[q][j].addr = gws'[q][i].addr} = {i}
                      /\ Place(i) \in was'[gws'[q][i].addr]
    BY DEF SlotsInOrder, Place, View, Known, SlotsOf
  <2>1. CASE q = g
    BY <1>2, <2>1 DEF Good, InOrder, Known, SlotsOf
  <2>2. CASE q # g
    <3>1. gws'[q] = gws[q] /\ View(q).gws = gws[q]
      BY <1>2, <2>2 DEF View
    <3>2. i \in Known(View(q)) /\ Known(View(q)) = {j \in Slots : gws'[q][j].addr # NoGw}
      BY <3>1 DEF Known
    <3>3. SlotsOf(View(q), gws'[q][i].addr) =
            {j \in Slots : gws'[q][j].addr # NoGw /\ gws'[q][j].addr = gws'[q][i].addr}
      BY <3>1, <3>2 DEF SlotsOf
    <3>4. InOrder(q, View(q))
      BY <1>3, <2>2
    <3> QED BY <3>1, <3>2, <3>3, <3>4 DEF InOrder
  <2> QED BY <2>1, <2>2
<1>5. BoundSlotKnown'
  <2> SUFFICES ASSUME NEW q \in Gws, SoleHome(q), NEW n \in Motes, bind'[q][n] # None
               PROVE  bind'[q][n] \in Slots /\ gws'[q][bind'[q][n]].addr # NoGw
    BY DEF BoundSlotKnown, SoleHome, View, Known
  <2>1. CASE q = g
    BY <1>2, <2>1 DEF Good, BoundIn, Known
  <2>2. CASE q # g
    BY ZenonT(60), <1>2, <1>3, <2>2 DEF BoundIn, Known, View
  <2> QED BY <2>1, <2>2
<1>6. NetInv'
  BY <1>2 DEF Good, Truthful, NetInv, Sound
<1> QED BY <1>1, <1>4, <1>5, <1>6 DEF TableOK
-----------------------------------------------------------------------------
(* The handlers *)

\* Everything about a gateway but its tunnels stays.
Unmoved(P, Q) ==
  /\ Q \in Views /\ Q.bind = P.bind /\ Q.net = P.net
  /\ \A i \in Slots : Q.gws[i].addr = P.gws[i].addr

LEMMA UnmovedKnown ==
  ASSUME NEW P, NEW Q, Unmoved(P, Q)
  PROVE  Known(Q) = Known(P) /\ \A p : SlotsOf(Q, p) = SlotsOf(P, p)
BY DEF Unmoved, Known, SlotsOf

LEMMA UnmovedGood ==
  ASSUME NEW g \in Gws, NEW P, NEW Q, Good(g, P), Unmoved(P, Q)
  PROVE  Good(g, Q)
<1>1. Known(Q) = Known(P) /\ \A p : SlotsOf(Q, p) = SlotsOf(P, p)
  BY UnmovedKnown
<1>2. InOrder(g, Q)
  <2>1. \A i \in Known(Q) : i \in Slots
    BY DEF Known
  <2> QED BY <1>1, <2>1 DEF Good, InOrder, Unmoved
<1>3. Truthful(Q)
  BY DEF Good, Truthful, Unmoved
<1>4. BoundIn(g, Q)
  BY <1>1 DEF Good, BoundIn, Unmoved
<1> QED BY <1>2, <1>3, <1>4 DEF Good, Unmoved

LEMMA UnmovedTwice ==
  ASSUME NEW P, NEW Q, NEW T, Unmoved(P, Q), Unmoved(Q, T)
  PROVE  Unmoved(P, T)
BY DEF Unmoved

LEMMA Tunnels ==
  ASSUME NEW P \in Views, NEW d \in Devs, NEW p \in Gws \cup {NoGw}
  PROVE  /\ Unmoved(P, tunnel_create(P, d, p)) /\ Unmoved(P, close_tunnel(P, d))
         /\ Unmoved(P, create_reroute(P, d)) /\ Unmoved(P, clear_reroute(P))
<1>1. Unmoved(P, tunnel_create(P, d, p))
  BY DEF tunnel_create, Unmoved, Views
<1>2. Unmoved(P, close_tunnel(P, d))
  BY DEF close_tunnel, Unmoved, Views
<1>3. Unmoved(P, create_reroute(P, d))
  BY DEF create_reroute, Unmoved, Views
<1>4. Unmoved(P, clear_reroute(P))
  BY DEF clear_reroute, Unmoved, Views
<1> QED BY <1>1, <1>2, <1>3, <1>4

LEMMA OpenDeviceUnmoved ==
  ASSUME NEW P \in Views, NEW i \in Slots, NEW p \in Gws \cup {NoGw}
  PROVE  Unmoved(P, OpenDevice(P, i, p))
<1> DEFINE d == P.num
           Q == [P EXCEPT !.gws[i].dev = d, !.num = (@ + 1) % NDev]
<1>1. d \in Devs /\ (P.num + 1) % NDev \in Devs
  BY Numbers DEF Views
<1>2. Unmoved(P, Q)
  BY <1>1, ZenonT(60) DEF Unmoved, Views, Entry
<1>3. OpenDevice(P, i, p) = tunnel_create(Q, d, p)
  BY DEF OpenDevice
<1> HIDE DEF Q, d
<1>4. Unmoved(Q, tunnel_create(Q, d, p))
  BY <1>1, <1>2, Tunnels, ZenonT(60) DEF Unmoved
<1> QED BY <1>2, <1>3, <1>4, UnmovedTwice

LEMMA EvolveStateUnmoved ==
  ASSUME NEW g \in Gws, NEW P \in Views, NEW i \in Slots, NEW p \in Gws \cup {NoGw},
         NEW flags, NEW old
  PROVE  Unmoved(P, EvolveState(g, P, i, p, flags, old))
<1>1. CASE Upward(g) /\ "R" \in flags /\ "R" \notin old
  <2> DEFINE d == P.num
             Q == OpenDevice(P, i, p)
  <2>1. d \in Devs
    BY DEF Views
  <2>2. Unmoved(P, Q)
    BY OpenDeviceUnmoved
  <2>3. EvolveState(g, P, i, p, flags, old) = create_reroute(Q, d)
    BY <1>1 DEF EvolveState
  <2> HIDE DEF Q, d
  <2>4. Unmoved(Q, create_reroute(Q, d))
    BY <2>1, <2>2, Tunnels DEF Unmoved
  <2> QED BY <2>2, <2>3, <2>4, UnmovedTwice
<1>2. CASE ~(Upward(g) /\ "R" \in flags /\ "R" \notin old)
  BY <1>2 DEF EvolveState, Unmoved
<1> QED BY <1>1, <1>2

\* Slot 0 of the only home agent stays empty: who is in it was a home agent.
LEMMA NoRival ==
  ASSUME NEW g \in Gws, NEW P, Good(g, P), SoleHome(g)
  PROVE  0 \notin Known(P)
<1> SUFFICES ASSUME 0 \in Known(P) PROVE FALSE
  OBVIOUS
<1>1. P.gws[0].addr \in Gws \ {g} /\ "home" \in was[P.gws[0].addr]
  BY Numbers DEF Good, InOrder, Views, Entry, Known, Place
<1> QED BY <1>1 DEF SoleHome

\* A gateway that takes a free slot of the role it had moves there alone, and with
\* it, at the only home agent, every binding.
LEMMA EvolveGood ==
  ASSUME NEW g \in Gws, NEW P, Good(g, P), NEW old \in Known(P),
         NEW i \in Slots \ Known(P), NEW flags, Place(i) \in was[P.gws[old].addr]
  PROVE  Good(g, Evolve(g, P, old, i, flags)) /\ Evolve(g, P, old, i, flags).net = P.net
<1> DEFINE B == IF Stores(g) THEN Rebound(P.bind, old, i) ELSE P.bind
           T == [P EXCEPT !.gws[i] = P.gws[old], !.gws[old] = [addr |-> NoGw, dev |-> 0],
                          !.bind = IF Stores(g) THEN Rebound(@, old, i) ELSE @]
<1>1. old \in Slots /\ i \in Slots /\ old # i /\ P.gws[i].addr = NoGw /\ P.gws[old].addr # NoGw
  BY DEF Known
<1>2. B \in [Motes -> Slots \cup {None}]
  BY <1>1, Numbers DEF Good, Views, Rebound
<1>3. /\ T.gws = [P.gws EXCEPT ![i] = P.gws[old], ![old] = [addr |-> NoGw, dev |-> 0]]
      /\ T.bind = B /\ T.net = P.net
  BY <1>2 DEF Good, Views
<1>4. T \in Views
  BY <1>1, <1>2, Numbers DEF Good, Views, Entry
<1>5. /\ T.gws[i] = P.gws[old] /\ T.gws[old].addr = NoGw
      /\ \A j \in Slots \ {i, old} : T.gws[j] = P.gws[j]
  BY <1>1, <1>3 DEF Good, Views
<1> HIDE DEF T
<1>6. Known(T) = (Known(P) \ {old}) \cup {i}
  BY <1>1, <1>5 DEF Known
<1>7. InOrder(g, T)
  <2> SUFFICES ASSUME NEW j \in Known(T)
               PROVE  /\ T.gws[j].addr # g /\ Place(j) \in was[T.gws[j].addr]
                      /\ SlotsOf(T, T.gws[j].addr) = {j}
    BY DEF InOrder
  <2>1. CASE j = i
    <3>1. T.gws[j].addr # g /\ SlotsOf(P, P.gws[old].addr) = {old}
      BY <1>5, <2>1 DEF Good, InOrder
    <3>2. \A k \in Known(P) \ {old} : P.gws[k].addr # P.gws[old].addr
      BY <3>1 DEF SlotsOf
    <3>3. \A k \in Known(T) : T.gws[k].addr = T.gws[i].addr => k = i
      BY <1>5, <1>6, <3>2 DEF Known
    <3> QED BY <1>5, <2>1, <3>1, <3>3 DEF SlotsOf
  <2>2. CASE j # i
    <3>1. j \in Known(P) \ {old} /\ T.gws[j] = P.gws[j]
      BY <1>5, <1>6, <2>2 DEF Known
    <3>2. T.gws[j].addr # g /\ Place(j) \in was[T.gws[j].addr] /\ SlotsOf(P, T.gws[j].addr) = {j}
      BY <3>1 DEF Good, InOrder
    <3>3. \A k \in Known(P) : P.gws[k].addr = P.gws[j].addr => k = j
      BY <3>1, <3>2 DEF SlotsOf
    <3>4. \A k \in Known(T) : T.gws[k].addr = T.gws[j].addr => k = j
      BY <1>1, <1>5, <1>6, <3>1, <3>3 DEF Known
    <3> QED BY <3>2, <3>4 DEF SlotsOf
  <2> QED BY <2>1, <2>2
<1>8. BoundIn(g, T)
  <2> SUFFICES ASSUME SoleHome(g), NEW n \in Motes, B[n] # None PROVE B[n] \in Known(T)
    BY <1>3 DEF BoundIn
  <2>1. old # 0 /\ Stores(g)
    BY NoRival DEF SoleHome, Stores
  <2> QED BY <1>6, <2>1 DEF Rebound
<1>9. Truthful(T)
  BY <1>3 DEF Good, Truthful
<1>10. Good(g, T)
  BY <1>4, <1>7, <1>8, <1>9 DEF Good
<1> DEFINE p == P.gws[old].addr
           prior == IF old = 0 THEN {"R"} ELSE {}
<1>11. Evolve(g, P, old, i, flags) = EvolveState(g, T, i, p, flags, prior)
  BY DEF Evolve, T
<1>12. Unmoved(T, Evolve(g, P, old, i, flags))
  <2>1. p \in Gws \cup {NoGw}
    BY <1>1 DEF Good, Views, Entry
  <2> HIDE DEF p, prior
  <2> QED BY <1>1, <1>4, <1>11, <2>1, EvolveStateUnmoved
<1>13. Evolve(g, P, old, i, flags).net = P.net
  BY <1>3, <1>12 DEF Unmoved
<1> QED BY <1>10, <1>12, <1>13, UnmovedGood

\* A gateway that is deleted leaves the rest in order.
LEMMA DeleteGwGood ==
  ASSUME NEW g \in Gws, NEW P, Good(g, P), NEW i \in Slots, SoleHome(g) => i # 0
  PROVE  Good(g, DeleteGw(g, P, i)) /\ Known(DeleteGw(g, P, i)) = Known(P) \ {i}
<1> DEFINE B == IF Stores(g) THEN Rebound(P.bind, i, None) ELSE P.bind
           T == [P EXCEPT !.gws[i].addr = NoGw,
                          !.bind = IF Stores(g) THEN Rebound(@, i, None) ELSE @]
           c == clear_reroute(T)
           d == T.gws[i].dev
           V == IF Upward(g) /\ i = 0 THEN close_tunnel(c, d) ELSE T
           e == V.gws[i].dev
           W == IF Applies(g) THEN close_tunnel(V, e) ELSE V
<1>1. B \in [Motes -> Slots \cup {None}]
  BY Numbers DEF Good, Views, Rebound
<1>2. T.bind = B /\ T.net = P.net /\ T.gws = [P.gws EXCEPT ![i].addr = NoGw]
  BY DEF Good, Views
<1>3. T \in Views
  BY ZenonT(60), <1>1 DEF Good, Views, Entry
<1>4. T.gws[i].addr = NoGw /\ \A j \in Slots \ {i} : T.gws[j].addr = P.gws[j].addr
  BY <1>2 DEF Good, Views, Entry
<1>5. DeleteGw(g, P, i) = W
  BY DEF DeleteGw
<1> HIDE DEF T
<1>6. Known(T) = Known(P) \ {i}
  BY <1>4 DEF Known
<1>7. InOrder(g, T)
  <2>1. ASSUME NEW j \in Known(T) PROVE SlotsOf(T, T.gws[j].addr) = {j}
    <3>1. j \in Known(P) /\ T.gws[j].addr = P.gws[j].addr
      BY <1>4, <1>6, <2>1 DEF Known
    <3>2. \A k \in Known(P) : P.gws[k].addr = P.gws[j].addr => k = j
      BY <3>1 DEF Good, InOrder, SlotsOf
    <3>3. \A k \in Known(T) : T.gws[k].addr = P.gws[k].addr /\ k \in Known(P)
      BY <1>4, <1>6 DEF Known
    <3> QED BY <2>1, <3>1, <3>2, <3>3 DEF SlotsOf
  <2>2. ASSUME NEW j \in Known(T) PROVE T.gws[j].addr # g /\ Place(j) \in was[T.gws[j].addr]
    BY <1>4, <1>6, <2>2 DEF Good, InOrder, Known
  <2> QED BY <2>1, <2>2 DEF InOrder
<1>8. BoundIn(g, T)
  <2> SUFFICES ASSUME SoleHome(g), NEW n \in Motes PROVE B[n] = None
    BY <1>2 DEF BoundIn
  <2>1. i # 0 /\ Stores(g)
    BY DEF SoleHome, Stores
  <2> QED BY <2>1 DEF Rebound
<1>9. Truthful(T)
  BY <1>2 DEF Good, Truthful
<1>10. Good(g, T)
  BY <1>3, <1>7, <1>8, <1>9 DEF Good
<1>11. Unmoved(T, T)
  BY <1>3 DEF Unmoved
<1>12. Unmoved(T, V)
  <2>1. Unmoved(T, c) /\ c \in Views
    <3>1. 0 \in Devs /\ NoGw \in Gws \cup {NoGw}
      BY Numbers
    <3> QED BY <1>3, <3>1, Tunnels DEF Unmoved
  <2>2. d \in Devs
    BY <1>3 DEF Views, Entry
  <2> HIDE DEF c, d
  <2>3. Unmoved(c, close_tunnel(c, d))
    BY <2>1, <2>2, Tunnels
  <2> QED BY <1>11, <2>1, <2>3, UnmovedTwice
<1> HIDE DEF V
<1>13. V \in Views /\ e \in Devs
  BY <1>12 DEF Unmoved, Views, Entry
<1> HIDE DEF e
<1>14. Unmoved(V, W)
  <2>1. Unmoved(V, close_tunnel(V, e))
    BY <1>13, Tunnels
  <2>2. Unmoved(V, V)
    BY <1>13 DEF Unmoved
  <2> QED BY <2>1, <2>2
<1> HIDE DEF W
<1>15. Unmoved(T, W)
  BY <1>12, <1>14, UnmovedTwice
<1> QED BY <1>5, <1>6, <1>10, <1>15, UnmovedGood, UnmovedKnown

LEMMA RolesSaid ==
  ASSUME NEW m \in {"home", "backup", "router"}, NEW flag \in {{}, {"Q"}}
  PROVE  /\ flag \cup Roles(m) \in SUBSET {"R", "S", "Q", "U"} /\ "U" \notin flag \cup Roles(m)
         /\ RoleOf(flag \cup Roles(m)) = m
BY DEF Roles, RoleOf

LEMMA SayingGood ==
  ASSUME NEW g \in Gws, NEW P, Good(g, P), NEW N \in SUBSET Messages,
         \A m \in N : Sound(m)
  PROVE  /\ Good(g, [P EXCEPT !.net = @ \cup N])
         /\ Known([P EXCEPT !.net = @ \cup N]) = Known(P)
         /\ \A p : SlotsOf([P EXCEPT !.net = @ \cup N], p) = SlotsOf(P, p)
<1> DEFINE Q == [P EXCEPT !.net = @ \cup N]
<1>1. Q.gws = P.gws /\ Q.bind = P.bind /\ Q.net = P.net \cup N
  BY DEF Good, Views
<1>2. Q \in Views
  BY DEF Good, Views
<1> HIDE DEF Q
<1>3. Known(Q) = Known(P) /\ \A p : SlotsOf(Q, p) = SlotsOf(P, p)
  BY <1>1 DEF Known, SlotsOf
<1>4. InOrder(g, Q)
  BY <1>1, <1>3 DEF Good, InOrder
<1>5. Truthful(Q)
  BY <1>1 DEF Good, Truthful
<1>6. BoundIn(g, Q)
  BY <1>1, <1>3 DEF Good, BoundIn
<1>7. Good(g, Q)
  BY <1>2, <1>4, <1>5, <1>6 DEF Good
<1> QED BY <1>3, <1>7 DEF Q

LEMMA AnnounceGood ==
  ASSUME DiscoveryInv, NEW g \in Gws, run[g] # "off", NEW P, Good(g, P),
         NEW p \in Gws \ {g}, NEW flag \in {{}, {"Q"}}
  PROVE  /\ Good(g, Announce(g, P, p, flag))
         /\ Known(Announce(g, P, p, flag)) = Known(P)
         /\ \A q : SlotsOf(Announce(g, P, p, flag), q) = SlotsOf(P, q)
<1> DEFINE m == [to |-> p, flags |-> flag \cup Roles(mode[g]), addr |-> g]
<1>1. mode[g] \in was[g] /\ mode[g] \in {"home", "backup", "router"}
  BY DEF DiscoveryInv, DiscoveryTypeOK, ModeInv
<1>2. flag \cup Roles(mode[g]) \in SUBSET {"R", "S", "Q", "U"}
  BY <1>1, RolesSaid
<1>3. RoleOf(flag \cup Roles(mode[g])) = mode[g]
  BY <1>1, RolesSaid
<1>4. m \in Messages /\ Sound(m)
  <2>1. m \in Messages /\ "U" \notin m.flags
    BY <1>1, <1>2, RolesSaid DEF Messages
  <2> QED BY <1>1, <1>3, <2>1 DEF Sound
<1> HIDE DEF m
<1> DEFINE N == {m}
<1>5. N \in SUBSET Messages
  BY <1>4
<1>6. Announce(g, P, p, flag) = [P EXCEPT !.net = @ \cup N]
  BY DEF Announce, m
<1>7. \A n \in N : Sound(n)
  BY <1>4
<1> HIDE DEF N
<1> DEFINE Q == [P EXCEPT !.net = @ \cup N]
<1>8. Good(g, Q) /\ Known(Q) = Known(P)
  BY <1>5, <1>7, SayingGood
<1>9. \A q : SlotsOf(Q, q) = SlotsOf(P, q)
  BY <1>5, <1>7, SayingGood
<1> HIDE DEF Q
<1>10. Announce(g, P, p, flag) = Q
  BY <1>6 DEF Q
<1> QED BY <1>8, <1>9, <1>10

LEMMA PassOnSays ==
  ASSUME NEW P \in Views, NEW p \in Gws
  PROVE  \A m \in PassOn(P, p).net : m \in P.net \/ (m \in Messages /\ Sound(m))
<1> DEFINE N == {[to |-> P.gws[i].addr, flags |-> {"U"}, addr |-> p] :
                   i \in Known(P) \cap 0 .. NBackup}
<1>1. PassOn(P, p).net = P.net \cup N
  BY DEF PassOn, Views
<1>2. ASSUME NEW m \in N PROVE m \in Messages /\ Sound(m)
  <2>1. PICK i \in Known(P) : m = [to |-> P.gws[i].addr, flags |-> {"U"}, addr |-> p]
    OBVIOUS
  <2>2. P.gws[i].addr \in Gws
    BY DEF Views, Entry, Known
  <2> QED BY <2>1, <2>2 DEF Messages, Sound
<1> QED BY <1>1, <1>2

-----------------------------------------------------------------------------
(* The actions *)

\* Who runs, in which mode, and what is going on.
ControlOK ==
  /\ scope \in Scopes
  /\ run \in [Gws -> {"off", "on", "stopping"}]
  /\ mode \in [Gws -> {"none", "home", "backup", "router"}]
  /\ busy \in [Gws -> Openings]
  /\ starts \in [Gws -> Nat] /\ stops \in 0 .. scope.stops
  /\ \A g \in Gws : starts[g] <= scope.starts[g]
  /\ was \in [Gws -> SUBSET {"home", "backup", "router"}] /\ neat \in [Gws -> BOOLEAN]
  /\ owed \subseteq Gws \X Gws
  /\ ModeInv

LEMMA Parts == DiscoveryInv <=> ControlOK /\ TableOK /\ BusyInv
BY DEF DiscoveryInv, DiscoveryTypeOK, ControlOK, TableOK, Entry, Openings

LEMMA PartsNext ==
  ASSUME ControlOK', TableOK', BusyInv' PROVE DiscoveryInv'
BY DEF DiscoveryInv, DiscoveryTypeOK, ControlOK, TableOK, Entry, Openings

\* A handler that leaves the gateway's table in order, between two callbacks.
LEMMA IdleMoves ==
  ASSUME DiscoveryInv, NEW g \in Gws, Idle(g), NEW P, Good(g, P), Becomes(g, P),
         UNCHANGED <<scope, run, mode, busy, starts, was, owed>>,
         stops' \in 0 .. scope.stops, neat' \in [Gws -> BOOLEAN]
  PROVE  DiscoveryInv'
<1>1. TableOK'
  BY Moves
<1>2. ControlOK'
  BY Parts DEF ControlOK, ModeInv
<1>3. BusyInv'
  <2>1. \A q \in Gws \ {g} : gws'[q] = gws[q]
    BY DEF Becomes, DiscoveryInv, DiscoveryTypeOK
  <2>2. busy[g] = NotBusy
    BY DEF DiscoveryInv, BusyInv, Idle
  <2> QED BY <2>1, <2>2 DEF DiscoveryInv, BusyInv, Known, View
<1> QED BY <1>1, <1>2, <1>3, PartsNext

\* mob_new_gw: a new gateway takes a free slot of its role.
LEMMA NewGwKeeps ==
  ASSUME DiscoveryInv, NEW g \in Gws, Idle(g), NEW P, Good(g, P), NEW m \in Messages,
         "U" \notin m.flags, m.addr # g, RoleOf(m.flags) \in was[m.addr], NewGw(g, P, m),
         UNCHANGED <<scope, run, mode, starts, stops, was, owed>>, neat' \in [Gws -> BOOLEAN]
  PROVE  DiscoveryInv'
<1> DEFINE free == Places(m.flags) \ Known(P)
           i == CHOOSE j \in free : \A k \in free : j <= k
           T == [P EXCEPT !.gws[i] = [addr |-> m.addr, dev |-> 0]]
           old == CHOOSE j \in SlotsOf(P, m.addr) : TRUE
<1>1. P \in Views /\ m.addr \in Gws
  BY DEF Good, Messages
<1>2. \A j \in Places(m.flags) : j \in Slots /\ Place(j) = RoleOf(m.flags)
  BY Numbers DEF Places, Place, RoleOf, Slots
<1>3. free # {} => i \in free
  <2>1. free \in SUBSET Nat
    BY <1>2, Numbers
  <2> QED BY <2>1, LeastNatural
<1>4. ASSUME busy' = busy, NEW Q, Good(g, Q), Becomes(g, Q) PROVE DiscoveryInv'
  <2>1. stops' \in 0 .. scope.stops
    BY Parts DEF ControlOK
  <2> QED BY <1>4, <2>1, IdleMoves
<1>5. CASE free = {} \/ SlotsOf(P, m.addr) \cap Places(m.flags) # {}
  BY <1>4, <1>5 DEF NewGw
<1>6. CASE free # {} /\ SlotsOf(P, m.addr) # {} /\ SlotsOf(P, m.addr) \cap Places(m.flags) = {}
  <2>1. old \in SlotsOf(P, m.addr) /\ i \in free
    BY <1>3, <1>6
  <2>2. old \in Known(P) /\ P.gws[old].addr = m.addr /\ i \in Slots \ Known(P)
    BY <1>2, <2>1 DEF SlotsOf
  <2>3. Place(i) \in was[P.gws[old].addr]
    BY <1>2, <2>1, <2>2
  <2>4. Becomes(g, Evolve(g, P, old, i, m.flags)) /\ busy' = busy
    BY <1>6 DEF NewGw
  <2> HIDE DEF old, i
  <2>5. Good(g, Evolve(g, P, old, i, m.flags))
    BY <2>2, <2>3, EvolveGood
  <2> QED BY <1>4, <2>4, <2>5
<1>7. CASE free # {} /\ SlotsOf(P, m.addr) = {}
  <2>1. i \in Slots /\ i \notin Known(P) /\ Place(i) \in was[m.addr] /\ i # None
    BY <1>2, <1>3, <1>7, Numbers
  <2>2. Becomes(g, T) /\ busy' = [busy EXCEPT ![g] = [slot |-> i, addr |-> m.addr, flags |-> m.flags]]
    BY <1>7 DEF NewGw
  <2> HIDE DEF i
  <2> DEFINE e == [addr |-> m.addr, dev |-> 0]
  <2>3. e \in Entry /\ e.addr = m.addr
    BY <1>1, Numbers DEF Views, Entry
  <2>4. T = [P EXCEPT !.gws[i] = e]
    BY <1>1 DEF Views
  <2> HIDE DEF T, e
  <2>5. /\ T \in Views /\ T.gws[i] = e /\ \A j \in Slots \ {i} : T.gws[j] = P.gws[j]
        /\ T.bind = P.bind /\ T.net = P.net
    BY <1>1, <2>1, <2>3, <2>4 DEF Views
  <2>6. Known(T) = Known(P) \cup {i}
    <3>1. m.addr # NoGw
      BY <1>1, DiscoveryAssumption
    <3> QED BY <2>1, <2>3, <2>5, <3>1 DEF Known
  <2>7. InOrder(g, T)
    <3> SUFFICES ASSUME NEW j \in Known(T)
                 PROVE  /\ T.gws[j].addr # g /\ Place(j) \in was[T.gws[j].addr]
                        /\ SlotsOf(T, T.gws[j].addr) = {j}
      BY DEF InOrder
    <3>1. \A k \in Known(P) : P.gws[k].addr # m.addr
      BY <1>7 DEF SlotsOf
    <3>2. \A k \in Known(P) : T.gws[k] = P.gws[k]
      BY <2>1, <2>5 DEF Known
    <3>3. CASE j = i
      <4>1. SlotsOf(T, m.addr) = {i}
        BY <2>3, <2>5, <2>6, <3>1, <3>2 DEF SlotsOf
      <4> QED BY <2>1, <2>3, <2>5, <3>3, <4>1
    <3>4. CASE j # i
      <4>1. j \in Known(P) /\ T.gws[j] = P.gws[j]
        BY <2>6, <3>2, <3>4
      <4>2. \A k \in Known(P) : P.gws[k].addr = P.gws[j].addr => k = j
        BY <4>1 DEF Good, InOrder, SlotsOf
      <4>3. T.gws[i].addr # T.gws[j].addr
        BY <2>3, <2>5, <3>1, <4>1
      <4>4. SlotsOf(T, T.gws[j].addr) = {j}
        BY <2>6, <3>2, <4>1, <4>2, <4>3 DEF SlotsOf
      <4> QED BY <4>1, <4>4 DEF Good, InOrder
    <3> QED BY <3>3, <3>4
  <2>8. Truthful(T)
    BY <2>5 DEF Good, Truthful
  <2>9. BoundIn(g, T)
    BY <2>5, <2>6 DEF Good, BoundIn
  <2>10. Good(g, T)
    BY <2>5, <2>7, <2>8, <2>9 DEF Good
  <2>11. TableOK'
    BY <2>2, <2>10, Moves
  <2>12. ControlOK'
    <3>1. [slot |-> i, addr |-> m.addr, flags |-> m.flags] \in Openings
      BY <2>1 DEF Messages, Openings
    <3>2. busy' \in [Gws -> Openings]
      BY <2>2, <3>1, Parts DEF ControlOK
    <3> QED BY <3>2, Parts DEF ControlOK, ModeInv
  <2>13. BusyInv'
    <3> SUFFICES ASSUME NEW q \in Gws
                 PROVE  /\ run[q] = "off" => busy'[q] = NotBusy
                        /\ busy'[q] # NotBusy => busy'[q].slot # None
                        /\ (busy'[q] # NotBusy /\ mode[q] = "home"
                            /\ gws'[q][busy'[q].slot].addr = NoGw) => Known(View(q))' = {}
      BY DEF BusyInv
    <3>1. CASE q = g
      <4>1. busy'[g].slot = i /\ gws'[g] = T.gws
        BY <2>2 DEF Becomes, DiscoveryInv, DiscoveryTypeOK
      <4>2. m.addr # NoGw
        BY <1>1, DiscoveryAssumption
      <4> QED BY <2>1, <2>3, <2>5, <3>1, <4>1, <4>2 DEF Idle
    <3>2. CASE q # g
      <4>1. busy'[q] = busy[q] /\ gws'[q] = gws[q]
        BY <2>2, <3>2 DEF Becomes, DiscoveryInv, DiscoveryTypeOK
      <4>2. Known(View(q))' = Known(View(q))
        BY <4>1 DEF Known, View
      <4> QED BY <4>1, <4>2 DEF DiscoveryInv, BusyInv
    <3> QED BY <3>1, <3>2
  <2> QED BY <2>11, <2>12, <2>13, PartsNext
<1> QED BY <1>5, <1>6, <1>7

LEMMA ReceiveKeeps ==
  ASSUME DiscoveryInv, NEW m \in net, Receive(m)
  PROVE  DiscoveryInv'
<1> DEFINE g == m.to
           P == IF "Q" \in m.flags THEN Announce(g, View(g), m.addr, {}) ELSE View(g)
<1>1. m \in Messages /\ g \in Gws /\ m.addr \in Gws /\ Sound(m)
  BY Parts DEF TableOK, NetInv, Messages
<1>2. /\ Idle(g) /\ IF "U" \in m.flags THEN Told(g, P, m) ELSE NewGw(g, P, m)
      /\ neat' = [neat EXCEPT ![g] = @ /\ run[g] = "on"]
      /\ UNCHANGED <<scope, run, mode, starts, stops, was, owed>>
  BY DEF Receive
<1>3. neat' \in [Gws -> BOOLEAN] /\ stops' \in 0 .. scope.stops
  BY <1>2, Parts DEF ControlOK
<1>4. run[g] # "off"
  BY <1>2 DEF Idle
<1>5. Good(g, P)
  <2>1. CASE "Q" \in m.flags
    <3>1. m.addr \in Gws \ {g}
      BY <1>1, <2>1 DEF Sound
    <3> QED BY <1>1, <1>4, <2>1, <3>1, AnnounceGood, ViewsAreGood
  <2>2. CASE "Q" \notin m.flags
    BY <1>1, <2>2, ViewsAreGood
  <2> QED BY <2>1, <2>2
<1> HIDE DEF P
<1>6. CASE "U" \in m.flags
  <2> DEFINE Q == IF m.addr = g \/ P.gws[0].addr = m.addr THEN P
                  ELSE Announce(g, P, m.addr, {"Q"})
  <2>1. Becomes(g, Q) /\ busy' = busy
    BY <1>2, <1>6 DEF Told
  <2>2. Good(g, Q)
    <3>1. CASE m.addr = g \/ P.gws[0].addr = m.addr
      BY <1>5, <3>1
    <3>2. CASE ~(m.addr = g \/ P.gws[0].addr = m.addr)
      <4>1. m.addr \in Gws \ {g}
        BY <1>1, <3>2
      <4>2. Good(g, Announce(g, P, m.addr, {"Q"}))
        BY <1>1, <1>4, <1>5, <4>1, AnnounceGood
      <4> QED BY <3>2, <4>2
    <3> QED BY <3>1, <3>2
  <2> HIDE DEF Q, g
  <2> QED BY <1>1, <1>2, <1>3, <2>1, <2>2, IdleMoves
<1>7. CASE "U" \notin m.flags
  <2>1. m.addr # g /\ RoleOf(m.flags) \in was[m.addr] /\ NewGw(g, P, m)
    BY <1>1, <1>2, <1>7 DEF Sound
  <2> HIDE DEF g
  <2> QED BY <1>1, <1>2, <1>3, <1>5, <1>7, <2>1, NewGwKeeps
<1> QED BY <1>6, <1>7

\* A tunnel is opened and the others are told, also after down.
LEMMA OpenTunnelKeeps ==
  ASSUME DiscoveryInv, NEW g \in Gws, OpenTunnel(g)
  PROVE  DiscoveryInv'
<1> DEFINE i == busy[g].slot
           P == View(g)
           to == busy[g].addr
           T == IF Applies(g) THEN OpenDevice(P, i, to) ELSE P
           V == EvolveState(g, T, i, to, busy[g].flags, {})
           others == Known(V) \ {i}
           pass == UNION {PassOn(V, V.gws[j].addr).net : j \in others}
           Q == [V EXCEPT !.net = @ \cup pass]
           news == {<<V.gws[j].addr, V.gws[i].addr>> : j \in others \ 0 .. NBackup}
<1>1. /\ Becomes(g, Q) /\ busy[g] # NotBusy /\ busy' = [busy EXCEPT ![g] = NotBusy]
      /\ owed' = (IF mode[g] = "home" /\ i \in 1 .. NBackup THEN owed \cup news ELSE owed)
      /\ neat' = [neat EXCEPT ![g] = @ /\ run[g] = "on"]
      /\ UNCHANGED <<scope, run, mode, starts, stops, was>>
  BY DEF OpenTunnel
<1>2. Good(g, P) /\ P \in Views
  BY ViewsAreGood DEF Good
<1>3. i \in Slots
  BY <1>1 DEF DiscoveryInv, DiscoveryTypeOK, BusyInv
<1>4. to \in Gws \cup {NoGw} /\ P.gws[i] = gws[g][i]
  BY Parts DEF ControlOK, Openings, View
<1> HIDE DEF P, i, to
<1>5. Unmoved(P, T) /\ T \in Views
  <2>1. Unmoved(P, OpenDevice(P, i, to)) /\ Unmoved(P, P)
    BY <1>2, <1>3, <1>4, OpenDeviceUnmoved DEF Unmoved
  <2>2. Unmoved(P, T)
    BY <2>1
  <2> QED BY <2>2 DEF Unmoved
<1> HIDE DEF T
<1>6. Unmoved(P, V) /\ Known(V) = Known(P)
  BY <1>3, <1>4, <1>5, EvolveStateUnmoved, UnmovedTwice, UnmovedKnown
<1>7. Good(g, V) /\ V \in Views
  BY <1>2, <1>6, UnmovedGood DEF Unmoved
<1> HIDE DEF V
<1>8. \A j \in others : V.gws[j].addr \in Gws
  BY <1>7 DEF Views, Entry, Known
<1>9. \A m \in pass : m \in Messages /\ Sound(m)
  <2> SUFFICES ASSUME NEW j \in others, NEW m \in PassOn(V, V.gws[j].addr).net
               PROVE  m \in Messages /\ Sound(m)
    OBVIOUS
  <2>1. m \in V.net \/ (m \in Messages /\ Sound(m))
    BY <1>7, <1>8, PassOnSays
  <2> QED BY <1>7, <2>1 DEF Views, Good, Truthful
<1>10. Good(g, Q)
  <2> HIDE DEF pass
  <2>1. pass \in SUBSET Messages
    BY <1>9
  <2> QED BY <1>7, <1>9, <2>1, SayingGood
<1>11. TableOK'
  <2> HIDE DEF Q
  <2> QED BY <1>1, <1>10, Moves
<1>12. owed' \subseteq Gws \X Gws
  <2>1. CASE mode[g] = "home" /\ i \in 1 .. NBackup
    <3>1. CASE V.gws[i].addr = NoGw
      <4>1. gws[g][busy[g].slot].addr = NoGw
        BY <1>3, <1>4, <1>6, <3>1 DEF Unmoved, i
      <4>2. Known(P) = {}
        BY <1>1, <2>1, <4>1 DEF DiscoveryInv, BusyInv, P
      <4>3. news = {}
        BY <1>6, <4>2
      <4> QED BY <1>1, <4>3 DEF DiscoveryInv, DiscoveryTypeOK
    <3>2. CASE V.gws[i].addr # NoGw
      <4>1. V.gws[i].addr \in Gws
        BY <1>3, <1>7, <3>2 DEF Views, Entry
      <4>2. news \subseteq Gws \X Gws
        BY <1>8, <4>1
      <4> QED BY <1>1, <4>2 DEF DiscoveryInv, DiscoveryTypeOK
    <3> QED BY <3>1, <3>2
  <2>2. CASE ~(mode[g] = "home" /\ i \in 1 .. NBackup)
    BY <1>1, <2>2 DEF DiscoveryInv, DiscoveryTypeOK
  <2> QED BY <2>1, <2>2
<1>13. ControlOK'
  <2>1. NotBusy \in Openings
    BY DEF NotBusy, Openings
  <2>2. busy' \in [Gws -> Openings]
    BY <1>1, <2>1, Parts DEF ControlOK
  <2>3. neat' \in [Gws -> BOOLEAN]
    BY <1>1, Parts DEF ControlOK
  <2> QED BY <1>1, <1>12, <2>2, <2>3, Parts DEF ControlOK, ModeInv
<1>14. BusyInv'
  <2>1. \A q \in Gws \ {g} : gws'[q] = gws[q] /\ busy'[q] = busy[q]
    BY <1>1 DEF Becomes, DiscoveryInv, DiscoveryTypeOK
  <2>2. busy'[g] = NotBusy
    BY <1>1 DEF DiscoveryInv, DiscoveryTypeOK
  <2> QED BY <1>1, <2>1, <2>2 DEF DiscoveryInv, BusyInv, Known, View
<1> QED BY <1>11, <1>13, <1>14, PartsNext

LEMMA GiveUpKeeps ==
  ASSUME DiscoveryInv, NEW g \in Gws, NEW i \in 0 .. NBackup, GiveUp(g, i)
  PROVE  DiscoveryInv'
<1>1. /\ i \in Known(View(g)) /\ Becomes(g, DeleteGw(g, View(g), i)) /\ Idle(g) /\ Upward(g)
      /\ stops < scope.stops /\ stops' = stops + 1
      /\ UNCHANGED <<scope, run, mode, busy, starts, ghosts>>
  BY DEF GiveUp
<1>2. Good(g, View(g)) /\ i \in Slots /\ ~SoleHome(g)
  BY <1>1, ViewsAreGood DEF Known, Upward, SoleHome
<1>3. Good(g, DeleteGw(g, View(g), i))
  BY <1>2, DeleteGwGood
<1>4. neat' \in [Gws -> BOOLEAN] /\ UNCHANGED <<was, owed>>
  BY <1>1, Parts DEF ControlOK, ghosts
<1>5. stops' \in 0 .. scope.stops
  <2>1. scope.stops \in Nat /\ stops \in 0 .. scope.stops
    BY DiscoveryAssumption, Parts DEF ControlOK
  <2> QED BY <1>1, <2>1
<1> DEFINE Q == DeleteGw(g, View(g), i)
<1> HIDE DEF Q
<1> QED BY <1>1, <1>3, <1>4, <1>5, IdleMoves DEF Q

LEMMA UpdateKeeps ==
  ASSUME DiscoveryInv, NEW g \in Gws, NEW s \in Gws, NEW n \in Motes, Update(g, s, n)
  PROVE  DiscoveryInv'
<1>0. PICK i \in SlotsOf(View(g), s) : \E b \in {i, None} : bind' = [bind EXCEPT ![g][n] = b]
  BY DEF Update
<1>1. PICK b \in {i, None} : bind' = [bind EXCEPT ![g][n] = b]
  BY <1>0
<1>2. /\ Idle(g)
      /\ UNCHANGED <<scope, run, mode, gws, num, busy, tunnel, reroute, net, starts, stops, ghosts>>
  BY DEF Update
<1> DEFINE P == View(g)
           Q == [P EXCEPT !.bind[n] = b]
<1>3. Good(g, P) /\ i \in Known(P) /\ i \in Slots /\ P \in Views
  BY ViewsAreGood DEF SlotsOf, Known, Good
<1>4. Becomes(g, Q)
  BY <1>1, <1>2 DEF Becomes, View, DiscoveryInv, DiscoveryTypeOK
<1> HIDE DEF P
<1>5. Good(g, Q)
  <2>1. Q \in Views /\ Q.gws = P.gws /\ Q.net = P.net /\ Q.bind = [P.bind EXCEPT ![n] = b]
    BY <1>3 DEF Views
  <2> HIDE DEF Q
  <2>2. Known(Q) = Known(P) /\ \A p : SlotsOf(Q, p) = SlotsOf(P, p)
    BY <2>1 DEF Known, SlotsOf
  <2>3. InOrder(g, Q) /\ Truthful(Q)
    BY <1>3, <2>1, <2>2 DEF Good, InOrder, Truthful
  <2>4. BoundIn(g, Q)
    BY <1>3, <2>1, <2>2 DEF Good, BoundIn, Views
  <2> QED BY <2>1, <2>3, <2>4 DEF Good
<1>6. neat' \in [Gws -> BOOLEAN] /\ UNCHANGED <<was, owed>> /\ stops' \in 0 .. scope.stops
  BY <1>2, Parts DEF ControlOK, ghosts
<1> HIDE DEF Q
<1> QED BY <1>2, <1>4, <1>5, <1>6, IdleMoves

LEMMA PassOnGood ==
  ASSUME NEW g \in Gws, NEW P, Good(g, P), NEW p \in Gws
  PROVE  Good(g, PassOn(P, p))
<1> DEFINE N == {[to |-> P.gws[i].addr, flags |-> {"U"}, addr |-> p] :
                   i \in Known(P) \cap 0 .. NBackup}
<1>1. PassOn(P, p) = [P EXCEPT !.net = @ \cup N]
  BY DEF PassOn
<1>2. ASSUME NEW m \in N PROVE m \in Messages /\ Sound(m)
  <2>1. PICK i \in Known(P) : m = [to |-> P.gws[i].addr, flags |-> {"U"}, addr |-> p]
    OBVIOUS
  <2>2. P.gws[i].addr \in Gws
    BY DEF Good, Views, Entry, Known
  <2> QED BY <2>1, <2>2 DEF Messages, Sound
<1> HIDE DEF N
<1>3. N \in SUBSET Messages
  BY <1>2
<1>4. Good(g, [P EXCEPT !.net = @ \cup N])
  BY <1>2, <1>3, SayingGood
<1> QED BY <1>1, <1>4

\* What mob_new_6lbr is told is passed on, or asked; the table stays.
LEMMA New6lbrKeeps ==
  ASSUME DiscoveryInv, NEW g \in Gws, NEW p \in Gws, New6lbr(g, p)
  PROVE  /\ DiscoveryInv' /\ net \subseteq net'
         /\ UNCHANGED <<run, mode, gws, num, busy, bind, tunnel, reroute, stops, was, neat, owed>>
<1> DEFINE P == View(g)
           A == Announce(g, P, p, {"Q"})
           S == PassOn(P, p)
           Q == IF Upward(g) /\ 0 \in Known(P) THEN S ELSE A
<1>1. /\ Idle(g) /\ p \in scope.named[g] /\ Becomes(g, Q)
      /\ UNCHANGED <<scope, run, mode, busy, starts, stops, was, neat, owed>>
  BY DEF New6lbr, ghosts
<1>2. p # g
  <2>1. scope \in Scopes
    BY Parts DEF ControlOK
  <2> QED BY <1>1, <2>1, DiscoveryAssumption
<1>3. Good(g, P) /\ run[g] # "off" /\ P.net = net /\ P.gws = gws[g] /\ P.num = num[g]
      /\ P.bind = bind[g] /\ P.tunnel = tunnel[g] /\ P.reroute = reroute[g]
  BY <1>1, ViewsAreGood DEF View, Idle
<1> HIDE DEF P
<1>4. Good(g, S) /\ Good(g, A)
  BY <1>2, <1>3, PassOnGood, AnnounceGood
<1>5. /\ net \subseteq S.net /\ net \subseteq A.net
      /\ \A T \in {S, A} : /\ T.gws = P.gws /\ T.num = P.num /\ T.bind = P.bind
                           /\ T.tunnel = P.tunnel /\ T.reroute = P.reroute
  BY <1>3 DEF PassOn, Announce, Good, Views
<1> HIDE DEF S, A
<1>6. Good(g, Q) /\ Q \in {S, A}
  BY <1>4
<1> HIDE DEF Q
<1>7. stops' \in 0 .. scope.stops /\ neat' \in [Gws -> BOOLEAN]
  BY <1>1, Parts DEF ControlOK
<1>8. DiscoveryInv'
  BY <1>1, <1>6, <1>7, IdleMoves
<1>9. net \subseteq net' /\ UNCHANGED <<gws, num, bind, tunnel, reroute>>
  BY <1>1, <1>3, <1>5, <1>6 DEF Becomes, DiscoveryInv, DiscoveryTypeOK
<1> QED BY <1>1, <1>8, <1>9

\* One turn of mob_close_tunnels.
Turn(g, n, X) == IF n - 1 \in DownSlots(g) \cap Known(View(g)) THEN DeleteGw(g, X, n - 1) ELSE X

\* mob_close_tunnels takes one turn per slot, and leaves no slot it looks at.
LEMMA ClosingTurns ==
  ASSUME DiscoveryInv, NEW g \in Gws, Down(g)
  PROVE  \E D \in [0 .. NKnown -> Views] :
           /\ D[0] = View(g) /\ \A n \in 1 .. NKnown : D[n] = Turn(g, n, D[n - 1])
           /\ Becomes(g, D[NKnown]) /\ Good(g, D[NKnown])
           /\ DownSlots(g) = Slots => Known(D[NKnown]) = {}
<1> DEFINE P == View(g)
           D[n \in 0 .. NKnown] ==
             IF n = 0 THEN P
             ELSE IF n - 1 \in DownSlots(g) \cap Known(P) THEN DeleteGw(g, D[n - 1], n - 1)
             ELSE D[n - 1]
           Step(n, X) == IF n - 1 \in DownSlots(g) \cap Known(P) THEN DeleteGw(g, X, n - 1) ELSE X
<1>1. /\ run[g] = "on" /\ stops < scope.stops /\ stops' = stops + 1
      /\ run' = [run EXCEPT ![g] = "stopping"] /\ Becomes(g, D[NKnown])
      /\ UNCHANGED <<scope, mode, busy, starts, ghosts>>
  BY DEF Down
<1>2. NKnown \in Nat /\ Good(g, P)
  BY Numbers, ViewsAreGood
<1>3. /\ D[0] = P /\ \A n \in 1 .. NKnown : D[n] = Step(n, D[n - 1])
      /\ D = [n \in 0 .. NKnown |-> D[n]]
  <2> DEFINE X == {Q \in Views : Good(g, Q)}
             h == [n \in 1 .. NKnown |-> [Q \in X |-> Step(n, Q)]]
             Body(c) == [n \in 0 .. NKnown |-> IF n = 0 THEN P ELSE Step(n, c[n - 1])]
  <2>1. P \in X
    BY <1>2 DEF Good
  <2>2. ASSUME NEW n \in 1 .. NKnown, NEW Q \in X PROVE Step(n, Q) \in X
    <3>1. n - 1 \in Slots
      BY <1>2 DEF Slots
    <3>2. CASE n - 1 \in DownSlots(g) \cap Known(P)
      <4>1. SoleHome(g) => n - 1 # 0
        BY <1>2, <3>2, NoRival
      <4>2. Good(g, DeleteGw(g, Q, n - 1))
        BY <2>2, <3>1, <4>1, DeleteGwGood
      <4> QED BY <3>2, <4>2 DEF Good
    <3>3. CASE n - 1 \notin DownSlots(g) \cap Known(P)
      BY <2>2, <3>3
    <3> QED BY <3>2, <3>3
  <2> HIDE DEF X, Step, P
  <2>3. h \in [1 .. NKnown -> [X -> X]]
    BY <2>2
  <2>4. PICK f \in Runs(X, P, h, NKnown) : TRUE
    <3> HIDE DEF h
    <3>1. NKnown \in 0 .. NKnown
      BY <1>2
    <3> QED BY <1>2, <2>1, <2>3, <3>1, RunsExist
  <2>5. /\ f \in [0 .. NKnown -> X] /\ f[0] = P
        /\ \A n \in 1 .. NKnown : f[n] = h[n][f[n - 1]] /\ n - 1 \in 0 .. NKnown
    BY <1>2, <2>4 DEF Runs
  <2>6. \A n \in 1 .. NKnown : f[n] = Step(n, f[n - 1])
    BY <2>5
  <2> HIDE DEF h
  <2>7. f = Body(f)
    BY <1>2, <2>5, <2>6
  <2>8. D = CHOOSE c : c = Body(c)
    BY DEF Step
  <2> HIDE DEF D
  <2>9. D = Body(D)
    BY <2>7, <2>8
  <2> HIDE DEF Body
  <2>10. \A n \in 0 .. NKnown : Body(D)[n] = IF n = 0 THEN P ELSE Step(n, D[n - 1])
    BY DEF Body
  <2>11. D = [n \in 0 .. NKnown |-> D[n]]
    BY <2>9, <2>10 DEF Body
  <2> QED BY <1>2, <2>9, <2>10, <2>11
<1> HIDE DEF D
<1> DEFINE K == Known(P)
           C == DownSlots(g)
           Gone(n) == {i \in K \cap C : i < n}
           S == {n \in Nat : n <= NKnown => Good(g, D[n]) /\ Known(D[n]) = Known(P) \ Gone(n)}
<1>4. \A n \in Nat : n \in S
  <2>3. \A i \in K : i \in Nat
    BY Numbers DEF Known
  <2>1. 0 \in S
    <3>1. Gone(0) = {}
      <4> HIDE DEF K
      <4> QED BY <2>3
    <3> QED BY <1>2, <1>3, <3>1
  <2>2. ASSUME NEW n \in Nat, n \in S PROVE n + 1 \in S
    <3> SUFFICES ASSUME n + 1 <= NKnown
                 PROVE  Good(g, D[n + 1]) /\ Known(D[n + 1]) = Known(P) \ Gone(n + 1)
      OBVIOUS
    <3>1. D[n + 1] = Step(n + 1, D[n]) /\ n + 1 - 1 = n /\ n \in Slots
      <4>1. n + 1 \in 1 .. NKnown /\ n + 1 - 1 = n /\ n \in Slots
        BY <1>2 DEF Slots
      <4>2. D[n + 1] = Step(n + 1, D[n + 1 - 1])
        BY <1>3, <4>1
      <4> QED BY <4>1, <4>2
    <3>2. Good(g, D[n]) /\ Known(D[n]) = Known(P) \ Gone(n)
      BY <1>2, <2>2
    <3> HIDE DEF S
    <3>3. CASE n \in C \cap K
      <4>1. SoleHome(g) => n # 0
        BY <1>2, <3>3, NoRival
      <4>2. D[n + 1] = DeleteGw(g, D[n], n)
        BY <3>1, <3>3
      <4>3. Good(g, D[n + 1]) /\ Known(D[n + 1]) = Known(D[n]) \ {n}
        BY <3>1, <3>2, <4>1, <4>2, DeleteGwGood
      <4>4. Gone(n + 1) = Gone(n) \cup {n}
        <5> HIDE DEF K, C
        <5> QED BY <2>3, <3>3
      <4> HIDE DEF Gone
      <4> QED BY <3>2, <4>3, <4>4
    <3>4. CASE n \notin C \cap K
      <4>1. D[n + 1] = D[n]
        BY <3>1, <3>4
      <4>2. Gone(n + 1) = Gone(n)
        <5> HIDE DEF K, C
        <5> QED BY <2>3, <3>4
      <4> QED BY <3>2, <4>1, <4>2
    <3> QED BY <3>3, <3>4
  <2> HIDE DEF S
  <2> QED BY <2>1, <2>2, SetInduction
<1>5. Good(g, D[NKnown]) /\ Known(D[NKnown]) = Known(P) \ Gone(NKnown)
  BY <1>2, <1>4
<1>6. DownSlots(g) = Slots => Known(D[NKnown]) = {}
  <2> SUFFICES ASSUME DownSlots(g) = Slots PROVE Gone(NKnown) = Known(P)
    BY <1>5
  <2> QED BY <1>2 DEF Known, Slots
<1>7. D \in [0 .. NKnown -> Views]
  <2>1. \A n \in 0 .. NKnown : D[n] \in Views
    BY <1>2, <1>4 DEF Good
  <2> QED BY <1>3, <2>1
<1>8. \A n \in 1 .. NKnown : D[n] = Turn(g, n, D[n - 1])
  BY <1>3 DEF Turn
<1> HIDE DEF S, Gone
<1> QED BY <1>1, <1>3, <1>5, <1>6, <1>7, <1>8

LEMMA DownKeeps ==
  ASSUME DiscoveryInv, NEW g \in Gws, Down(g)
  PROVE  DiscoveryInv'
<1>1. /\ run[g] = "on" /\ stops < scope.stops /\ stops' = stops + 1
      /\ run' = [run EXCEPT ![g] = "stopping"]
      /\ UNCHANGED <<scope, mode, busy, starts, ghosts>>
  BY DEF Down
<1>2. PICK D \in [0 .. NKnown -> Views] :
        /\ Becomes(g, D[NKnown]) /\ Good(g, D[NKnown])
        /\ DownSlots(g) = Slots => Known(D[NKnown]) = {}
  BY ClosingTurns
<1>6. UNCHANGED <<mode, was, neat, owed>>
  BY <1>1 DEF ghosts
<1> DEFINE Q == D[NKnown]
<1> HIDE DEF Q
<1>7. TableOK'
  BY <1>1, <1>2, <1>6, Moves DEF Q
<1>8. ControlOK'
  <2>1. scope.stops \in Nat /\ stops \in 0 .. scope.stops
    BY DiscoveryAssumption, Parts DEF ControlOK
  <2>2. stops' \in 0 .. scope.stops
    BY <1>1, <2>1
  <2>3. ModeInv'
    BY <1>1, <1>6, Parts DEF ControlOK, ModeInv
  <2>4. run' \in [Gws -> {"off", "on", "stopping"}]
    BY <1>1, Parts DEF ControlOK
  <2> QED BY <1>1, <1>6, <2>2, <2>3, <2>4, Parts DEF ControlOK
<1>9. BusyInv'
  <2> SUFFICES ASSUME NEW q \in Gws
               PROVE  /\ run'[q] = "off" => busy[q] = NotBusy
                      /\ busy[q] # NotBusy => busy[q].slot # None
                      /\ (busy[q] # NotBusy /\ mode[q] = "home"
                          /\ gws'[q][busy[q].slot].addr = NoGw) => Known(View(q))' = {}
    BY <1>1, <1>6 DEF BusyInv
  <2>1. CASE q = g
    <3>1. run'[g] = "stopping"
      BY <1>1 DEF DiscoveryInv, DiscoveryTypeOK
    <3>2. busy[g] # NotBusy => busy[g].slot # None
      BY DEF DiscoveryInv, BusyInv
    <3>3. ASSUME mode[g] = "home" PROVE Known(View(g))' = {}
      <4>1. DownSlots(g) = Slots
        BY <3>3 DEF DownSlots, Stores
      <4>3. Known(Q) = {}
        BY <1>2, <4>1 DEF Q
      <4>4. gws'[g] = Q.gws
        BY <1>2 DEF Q, Becomes, DiscoveryInv, DiscoveryTypeOK
      <4>5. Known(View(g))' = Known(Q)
        BY <4>4 DEF Known, View
      <4> QED BY <4>3, <4>5
    <3> QED BY <2>1, <3>1, <3>2, <3>3
  <2>2. CASE q # g
    <3>1. run'[q] = run[q] /\ gws'[q] = gws[q]
      BY <1>1, <1>2, <2>2 DEF Becomes, DiscoveryInv, DiscoveryTypeOK
    <3>2. Known(View(q))' = Known(View(q))
      BY <3>1 DEF Known, View
    <3> QED BY <3>1, <3>2 DEF DiscoveryInv, BusyInv
  <2> QED BY <2>1, <2>2
<1> QED BY <1>7, <1>8, <1>9, PartsNext

\* The end of a process, by itself or by a signal, touches no table.
LEMMA EndKeeps ==
  ASSUME DiscoveryInv, NEW g \in Gws, End(g) \/ Kill(g)
  PROVE  DiscoveryInv'
<1>1. /\ run' = [run EXCEPT ![g] = "off"] /\ UNCHANGED <<scope, mode, process, starts, was, owed>>
      /\ busy'[g] = NotBusy /\ busy' \in [Gws -> Openings]
      /\ \A q \in Gws \ {g} : busy'[q] = busy[q]
      /\ neat' \in [Gws -> BOOLEAN] /\ stops' \in 0 .. scope.stops
  <2>1. NotBusy \in Openings
    BY DEF NotBusy, Openings
  <2>2. CASE End(g)
    <3>1. busy[g] = NotBusy
      BY <2>2 DEF End, Idle, DiscoveryInv, BusyInv
    <3> QED BY <2>2, <3>1, Parts DEF End, ghosts, ControlOK
  <2>3. CASE Kill(g)
    <3>1. busy' = [busy EXCEPT ![g] = NotBusy]
      BY <2>3 DEF Kill
    <3>2. scope.stops \in Nat /\ stops \in 0 .. scope.stops
      BY DiscoveryAssumption, Parts DEF ControlOK
    <3>3. stops' \in 0 .. scope.stops
      BY <2>3, <3>2 DEF Kill
    <3> QED BY <2>1, <2>3, <3>1, <3>3, Parts DEF Kill, ControlOK
  <2> QED BY <2>2, <2>3
<1>2. Becomes(g, View(g))
  BY <1>1 DEF Becomes, View, process, DiscoveryInv, DiscoveryTypeOK
<1>3. TableOK'
  BY <1>1, <1>2, Moves, ViewsAreGood
<1>4. ControlOK'
  <2>1. run' \in [Gws -> {"off", "on", "stopping"}] /\ \A q \in Gws : run'[q] # "off" => run[q] # "off"
    BY <1>1, Parts DEF ControlOK
  <2>2. ModeInv'
    BY <1>1, <2>1, Parts DEF ControlOK, ModeInv
  <2> QED BY <1>1, <2>1, <2>2, Parts DEF ControlOK
<1>5. BusyInv'
  <2>1. gws' = gws /\ \A q \in Gws \ {g} : run'[q] = run[q]
    BY <1>1, Parts DEF process, ControlOK
  <2>2. \A q : Known(View(q))' = Known(View(q))
    BY <2>1 DEF Known, View
  <2> QED BY <1>1, <2>1, <2>2 DEF DiscoveryInv, BusyInv
<1> QED BY <1>3, <1>4, <1>5, PartsNext

\* A new process knows nobody; what others know of the gateway stays true of one
\* of its modes.
LEMMA StartKeeps ==
  ASSUME DiscoveryInv, NEW g \in Gws, Start(g)
  PROVE  DiscoveryInv'
<1> DEFINE Fresh == [i \in Slots |-> [addr |-> NoGw, dev |-> 0]]
           Unbound == [n \in Motes |-> None]
<1>1. PICK m \in scope.modes[g], c \in scope.contacts[g] \cup {NoGw} :
        /\ mode' = [mode EXCEPT ![g] = m]
        /\ was' = [was EXCEPT ![g] = @ \cup {m}]
        /\ net' = IF c = NoGw THEN net
                  ELSE net \cup {[to |-> c, addr |-> g, flags |-> {"Q"} \cup Roles(m)]}
  BY DEF Start
<1>2. /\ run[g] = "off" /\ starts[g] < scope.starts[g]
      /\ run' = [run EXCEPT ![g] = "on"]
      /\ gws' = [gws EXCEPT ![g] = Fresh] /\ num' = [num EXCEPT ![g] = 0]
      /\ bind' = [bind EXCEPT ![g] = Unbound]
      /\ starts' = [starts EXCEPT ![g] = @ + 1]
      /\ UNCHANGED <<scope, busy, tunnel, reroute, stops, neat, owed>>
  BY DEF Start
<1>3. /\ scope.modes \in [Gws -> SUBSET {"home", "backup", "router"}]
      /\ scope.contacts[g] \in SUBSET Gws /\ g \notin scope.contacts[g]
      /\ scope.starts[g] \in Nat
  BY DiscoveryAssumption, Parts DEF ControlOK
<1>4. m \in {"home", "backup", "router"} /\ (c # NoGw => c \in Gws /\ c # g)
  BY <1>3
<1>5. /\ \A q \in Gws \ {g} : /\ was'[q] = was[q] /\ mode'[q] = mode[q] /\ run'[q] = run[q]
                             /\ gws'[q] = gws[q] /\ bind'[q] = bind[q]
      /\ was'[g] = was[g] \cup {m} /\ mode'[g] = m /\ gws'[g] = Fresh /\ bind'[g] = Unbound
      /\ \A q \in Gws : was[q] \subseteq was'[q]
  BY <1>1, <1>2 DEF DiscoveryInv, DiscoveryTypeOK
<1>6. Fresh \in [Slots -> Entry] /\ Unbound \in [Motes -> Slots \cup {None}]
  BY Numbers DEF Entry
<1>7. \A i \in Slots : Fresh[i].addr = NoGw
  OBVIOUS
<1>8. \A n \in Motes : Unbound[n] = None
  OBVIOUS
<1> HIDE DEF Fresh, Unbound
<1>9. net' \subseteq Messages /\ NetInv'
  <2> SUFFICES ASSUME NEW n \in net' PROVE n \in Messages /\ Sound(n)'
    BY DEF NetInv
  <2>1. CASE n \in net
    <3>1. n \in Messages /\ Sound(n)
      BY <2>1, Parts DEF TableOK, NetInv
    <3>2. was[n.addr] \subseteq was'[n.addr]
      BY <1>5, <3>1 DEF Messages
    <3> QED BY <3>1, <3>2 DEF Sound
  <2>2. CASE n \notin net
    <3>1. c # NoGw /\ n = [to |-> c, addr |-> g, flags |-> {"Q"} \cup Roles(m)]
      BY <1>1, <2>2
    <3> DEFINE f == {"Q"} \cup Roles(m)
    <3>2. f \in SUBSET {"R", "S", "Q", "U"} /\ "U" \notin f /\ RoleOf(f) = m
      BY <1>4, RolesSaid
    <3> HIDE DEF f
    <3>3. n.to = c /\ n.addr = g /\ n.flags = f /\ n \in Messages
      BY <1>4, <3>1, <3>2 DEF Messages, f
    <3>4. m \in was'[g]
      BY <1>5
    <3> QED BY <1>4, <3>1, <3>2, <3>3, <3>4 DEF Sound
  <2> QED BY <2>1, <2>2
<1>10. SlotsInOrder'
  <2> SUFFICES ASSUME NEW q \in Gws, NEW i \in Slots, gws'[q][i].addr # NoGw
               PROVE  /\ gws'[q][i].addr # q
                      /\ {j \in Slots : gws'[q][j].addr # NoGw /\
                                        gws'[q][j].addr = gws'[q][i].addr} = {i}
                      /\ Place(i) \in was'[gws'[q][i].addr]
    BY DEF SlotsInOrder, Place, View, Known, SlotsOf
  <2>1. q # g
    BY <1>5, <1>7
  <2>2. gws'[q] = gws[q] /\ View(q).gws = gws[q]
    BY <1>5, <2>1 DEF View
  <2>3. i \in Known(View(q)) /\ Known(View(q)) = {j \in Slots : gws'[q][j].addr # NoGw}
    BY <2>2 DEF Known
  <2>4. SlotsOf(View(q), gws'[q][i].addr) =
          {j \in Slots : gws'[q][j].addr # NoGw /\ gws'[q][j].addr = gws'[q][i].addr}
    BY <2>2, <2>3 DEF SlotsOf
  <2>5. InOrder(q, View(q))
    BY ViewsAreGood DEF Good
  <2>6. gws'[q][i].addr \in Gws
    BY <2>2 DEF DiscoveryInv, DiscoveryTypeOK
  <2>7. was[gws'[q][i].addr] \subseteq was'[gws'[q][i].addr]
    BY <1>5, <2>6
  <2> QED BY <2>2, <2>3, <2>4, <2>5, <2>7 DEF InOrder
<1>11. BoundSlotKnown'
  <2> SUFFICES ASSUME NEW q \in Gws, mode'[q] = "home",
                      \A p \in Gws \ {q} : "home" \notin was'[p],
                      NEW n \in Motes, bind'[q][n] # None
               PROVE  bind'[q][n] \in Slots /\ gws'[q][bind'[q][n]].addr # NoGw
    BY DEF BoundSlotKnown, View, Known
  <2>1. q # g
    BY <1>5, <1>8
  <2>2. SoleHome(q) /\ BoundIn(q, View(q))
    BY <1>5, <2>1, ViewsAreGood DEF SoleHome, Good
  <2>3. gws'[q] = gws[q] /\ bind'[q] = bind[q]
    BY <1>5, <2>1
  <2> QED BY <2>2, <2>3 DEF BoundIn, Known, View
<1>12. TableOK'
  <2>1. gws' \in [Gws -> [Slots -> Entry]] /\ bind' \in [Gws -> [Motes -> Slots \cup {None}]]
    BY <1>2, <1>6, Parts DEF TableOK
  <2>2. num' \in [Gws -> Devs]
    BY <1>2, Numbers, Parts DEF TableOK
  <2> QED BY <1>2, <1>9, <1>10, <1>11, <2>1, <2>2, Parts DEF TableOK
<1>13. ControlOK'
  <2>1. starts' \in [Gws -> Nat] /\ \A q \in Gws : starts'[q] <= scope.starts[q]
    BY <1>2, <1>3, Parts DEF ControlOK
  <2>2. mode' \in [Gws -> {"none", "home", "backup", "router"}]
    BY <1>1, <1>4, Parts DEF ControlOK
  <2>3. was' \in [Gws -> SUBSET {"home", "backup", "router"}]
    BY <1>1, <1>4, Parts DEF ControlOK
  <2>4. run' \in [Gws -> {"off", "on", "stopping"}]
    BY <1>2, Parts DEF ControlOK
  <2>5. ModeInv'
    BY <1>5, Parts DEF ControlOK, ModeInv
  <2> QED BY <1>2, <2>1, <2>2, <2>3, <2>4, <2>5, Parts DEF ControlOK
<1>14. BusyInv'
  <2> SUFFICES ASSUME NEW q \in Gws
               PROVE  /\ run'[q] = "off" => busy[q] = NotBusy
                      /\ busy[q] # NotBusy => busy[q].slot # None
                      /\ (busy[q] # NotBusy /\ mode'[q] = "home"
                          /\ gws'[q][busy[q].slot].addr = NoGw) => Known(View(q))' = {}
    BY <1>2 DEF BusyInv
  <2>1. CASE q = g
    BY <1>2, <2>1 DEF DiscoveryInv, BusyInv
  <2>2. CASE q # g
    <3>1. Known(View(q))' = Known(View(q))
      BY <1>5, <2>2 DEF Known, View
    <3> QED BY <1>5, <2>2, <3>1 DEF DiscoveryInv, BusyInv
  <2> QED BY <2>1, <2>2
<1> QED BY <1>12, <1>13, <1>14, PartsNext

LEMMA InitSafe == Init => DiscoveryInv
<1> SUFFICES ASSUME Init PROVE DiscoveryInv
  OBVIOUS
<1>1. scope \in Scopes /\ scope.stops \in Nat /\ \A g \in Gws : scope.starts[g] \in Nat
  BY DiscoveryAssumption DEF Init
<1>2. DiscoveryTypeOK
  <2>1. /\ gws \in [Gws -> [Slots -> [addr : Gws \cup {NoGw}, dev : Devs]]]
        /\ num \in [Gws -> Devs]
    BY Numbers DEF Init
  <2>2. busy \in [Gws -> Openings]
    <3>1. NotBusy \in Openings
      BY DEF NotBusy, Openings
    <3> QED BY <3>1 DEF Init
  <2>3. /\ bind \in [Gws -> [Motes -> Slots \cup {None}]]
        /\ tunnel \in [Gws -> [Devs -> Gws \cup {NoGw}]]
        /\ reroute \in [Gws -> Devs \cup {None}]
    BY DEF Init
  <2>4. starts \in [Gws -> Nat] /\ stops \in 0 .. scope.stops
        /\ \A g \in Gws : starts[g] <= scope.starts[g]
    BY <1>1 DEF Init
  <2>5. /\ run \in [Gws -> {"off", "on", "stopping"}]
        /\ mode \in [Gws -> {"none", "home", "backup", "router"}]
        /\ was \in [Gws -> SUBSET {"home", "backup", "router"}] /\ neat \in [Gws -> BOOLEAN]
        /\ net \subseteq Messages /\ owed \subseteq Gws \X Gws
    BY DEF Init
  <2> QED BY <1>1, <2>1, <2>2, <2>3, <2>4, <2>5 DEF DiscoveryTypeOK, Openings
<1>3. \A g \in Gws : Known(View(g)) = {}
  BY DEF Init, View, Known
<1>4. SlotsInOrder /\ BoundSlotKnown
  BY <1>3 DEF Init, SlotsInOrder, BoundSlotKnown
<1>5. NetInv /\ ModeInv /\ BusyInv
  BY DEF Init, NetInv, ModeInv, BusyInv
<1> QED BY <1>2, <1>4, <1>5 DEF DiscoveryInv

LEMMA StepSafe == DiscoveryInv /\ [Next]_vars => DiscoveryInv'
<1> SUFFICES ASSUME DiscoveryInv, [Next]_vars PROVE DiscoveryInv'
  OBVIOUS
<1>1. ASSUME NEW m \in net, Receive(m) PROVE DiscoveryInv'
  BY <1>1, ReceiveKeeps
<1>2. ASSUME NEW g \in Gws, OpenTunnel(g) PROVE DiscoveryInv'
  BY <1>2, OpenTunnelKeeps
<1>3. ASSUME NEW g \in Gws, Start(g) PROVE DiscoveryInv'
  BY <1>3, StartKeeps
<1>4. ASSUME NEW g \in Gws, NEW s \in Gws, NEW n \in Motes, Update(g, s, n) PROVE DiscoveryInv'
  BY <1>4, UpdateKeeps
<1>9. ASSUME NEW g \in Gws, NEW p \in Gws, New6lbr(g, p) PROVE DiscoveryInv'
  BY <1>9, New6lbrKeeps
<1>5. ASSUME NEW g \in Gws, NEW i \in 0 .. NBackup, GiveUp(g, i) PROVE DiscoveryInv'
  BY <1>5, GiveUpKeeps
<1>6. ASSUME NEW g \in Gws, Down(g) PROVE DiscoveryInv'
  BY <1>6, DownKeeps
<1>7. ASSUME NEW g \in Gws, End(g) \/ Kill(g) PROVE DiscoveryInv'
  BY <1>7, EndKeeps
<1>8. CASE UNCHANGED vars
  <2>1. UNCHANGED <<scope, run, mode, busy, gws, num, bind, tunnel, reroute, net, starts, stops,
                    was, neat, owed>>
    BY <1>8 DEF vars, process, ghosts
  <2>2. DiscoveryTypeOK'
    BY <2>1 DEF DiscoveryInv, DiscoveryTypeOK
  <2>3. \A g : View(g)' = View(g)
    BY <2>1 DEF View
  <2>4. SlotsInOrder' /\ BoundSlotKnown'
    BY <2>1 DEF DiscoveryInv, SlotsInOrder, BoundSlotKnown, SlotsOf, Known, View
  <2>5. NetInv' /\ ModeInv' /\ BusyInv'
    BY <2>1 DEF DiscoveryInv, NetInv, ModeInv, BusyInv, Sound, Known, View
  <2> QED BY <2>2, <2>4, <2>5 DEF DiscoveryInv
<1> QED BY <1>1, <1>2, <1>3, <1>4, <1>5, <1>6, <1>7, <1>8, <1>9 DEF Next, Talk

-----------------------------------------------------------------------------
(* Tunnels *)

\* The slot that is being opened is that of the role that was announced, and down
\* alone takes it away.
BusyPlace ==
  \A g \in Gws : busy[g] # NotBusy =>
    /\ Place(busy[g].slot) = RoleOf(busy[g].flags)
    /\ run[g] = "on" => /\ gws[g][busy[g].slot].addr = busy[g].addr
                        /\ busy[g].addr # NoGw

\* No gateway changed its mode.
Steady == \A p \in Gws : Constant(p)

Taken(G) == {i \in Slots : G[i].addr # NoGw}

Clear(T, R) == R = None /\ \A d \in Devs : T[d] = NoGw

\* A home agent has a tunnel to each gateway it knows but the one it is about to
\* open: the devices are numbered as the gateways came, and do not come round.
HomeTunnels(G, n, T, R, b) ==
  LET K == Taken(G) \ {b}
  IN /\ R = None /\ n = Cardinality(K) % NDev
     /\ \A i \in K : G[i].dev < Cardinality(K)
     /\ \A i, j \in K : G[i].dev = G[j].dev => i = j
     /\ \A i \in K : T[G[i].dev] = G[i].addr
     /\ \A d \in Devs : T[d] # NoGw => \E i \in K : G[i].dev = d

\* Any other gateway has a tunnel to its home agent, if it has one.
MeshTunnel(G, T, R, b) ==
  IF 0 \notin Taken(G) \ {b} THEN Clear(T, R)
  ELSE /\ R = G[0].dev /\ T[G[0].dev] = G[0].addr
       /\ \A d \in Devs \ {G[0].dev} : T[d] = NoGw

TunnelsOf(g) ==
  neat[g] =>
    IF run[g] # "on" THEN Clear(tunnel[g], reroute[g])
    ELSE IF mode[g] = "home"
    THEN HomeTunnels(gws[g], num[g], tunnel[g], reroute[g], busy[g].slot)
    ELSE MeshTunnel(gws[g], tunnel[g], reroute[g], busy[g].slot)

TunnelInv == Steady => \A g \in Gws : TunnelsOf(g)

LEMMA ModesFinite ==
  ASSUME NEW W, W \in SUBSET {"home", "backup", "router"}
  PROVE  IsFiniteSet(W) /\ Cardinality(W) \in Nat
<1>1. IsFiniteSet({}) /\ IsFiniteSet({} \cup {"home"})
  BY FS_EmptySet, FS_AddElement
<1>2. IsFiniteSet({} \cup {"home"} \cup {"backup"})
  BY <1>1, FS_AddElement
<1>3. IsFiniteSet({} \cup {"home"} \cup {"backup"} \cup {"router"})
  BY <1>2, FS_AddElement
<1>4. {"home", "backup", "router"} = {} \cup {"home"} \cup {"backup"} \cup {"router"}
  OBVIOUS
<1> DEFINE M == {"home", "backup", "router"}
<1>5. IsFiniteSet(M) /\ W \in SUBSET M
  BY <1>3, <1>4
<1> HIDE DEF M
<1>6. IsFiniteSet(W)
  BY <1>5, FS_Subset
<1> QED BY <1>6, FS_CardinalityType

\* Who never changed its mode had one.
LEMMA OneMode ==
  ASSUME DiscoveryInv, NEW p \in Gws, Constant(p), NEW a \in was[p], NEW b \in was[p]
  PROVE  a = b
<1> SUFFICES ASSUME a # b PROVE FALSE
  OBVIOUS
<1>1. was[p] \in SUBSET {"home", "backup", "router"}
  BY DEF DiscoveryInv, DiscoveryTypeOK
<1>2. IsFiniteSet({a}) /\ Cardinality({a}) = 1
  BY FS_Singleton
<1> DEFINE A == {a}
<1>3. Cardinality({a} \cup {b}) = 2
  <2>1. IsFiniteSet(A) /\ b \notin A /\ Cardinality(A) = 1
    BY <1>2
  <2> HIDE DEF A
  <2>2. Cardinality(A \cup {b}) = IF b \in A THEN Cardinality(A) ELSE Cardinality(A) + 1
    BY <2>1, FS_AddElement
  <2>3. Cardinality(A \cup {b}) = 2
    BY <2>1, <2>2
  <2> QED BY <2>3 DEF A
<1>4. {a} \cup {b} \in SUBSET was[p]
  OBVIOUS
<1>5. Cardinality({a} \cup {b}) <= Cardinality(was[p])
  BY <1>1, <1>4, ModesFinite, FS_Subset
<1>6. Cardinality(was[p]) \in Nat
  BY <1>1, ModesFinite
<1> QED BY <1>3, <1>5, <1>6 DEF Constant

\* What was steady after a step was so before it.
LEMMA SteadyBefore ==
  ASSUME DiscoveryInv, DiscoveryInv', Steady', \A p \in Gws : was[p] \subseteq was'[p]
  PROVE  Steady
<1> SUFFICES ASSUME NEW p \in Gws PROVE Constant(p)
  BY DEF Steady
<1>1. /\ was[p] \in SUBSET {"home", "backup", "router"}
      /\ was'[p] \in SUBSET {"home", "backup", "router"}
  BY DEF DiscoveryInv, DiscoveryTypeOK
<1>2. Cardinality(was[p]) <= Cardinality(was'[p])
  BY <1>1, ModesFinite, FS_Subset
<1>3. Cardinality(was[p]) \in Nat /\ Cardinality(was'[p]) \in Nat
  BY <1>1, ModesFinite
<1>4. Cardinality(was'[p]) <= 1
  BY DEF Steady, Constant
<1> QED BY <1>2, <1>3, <1>4 DEF Constant

\* The number of known gateways, which the slots bound.
LEMMA TakenCounted ==
  ASSUME NEW G
  PROVE  /\ IsFiniteSet(Taken(G)) /\ Cardinality(Taken(G)) \in Nat
         /\ Cardinality(Taken(G)) <= NKnown
         /\ \A i \in Slots \ Taken(G) : /\ Cardinality(Taken(G) \cup {i}) = Cardinality(Taken(G)) + 1
                                        /\ Cardinality(Taken(G)) < NDev
<1>1. NKnown \in Nat /\ NDev \in Nat /\ NKnown <= NDev
  BY DiscoveryAssumption
<1>2. IsFiniteSet(Slots) /\ Cardinality(Slots) = NKnown
  <2>1. NKnown - 1 \in Int /\ 0 \in Int
    BY <1>1
  <2>2. /\ IsFiniteSet(0 .. NKnown - 1)
        /\ Cardinality(0 .. NKnown - 1) = IF 0 > NKnown - 1 THEN 0 ELSE NKnown - 1 - 0 + 1
    BY <2>1, FS_Interval
  <2> QED BY <1>1, <2>2 DEF Slots
<1>3. Taken(G) \in SUBSET Slots
  BY DEF Taken
<1>4. IsFiniteSet(Taken(G)) /\ Cardinality(Taken(G)) \in Nat /\ Cardinality(Taken(G)) <= NKnown
  BY <1>2, <1>3, FS_Subset, FS_CardinalityType
<1>5. ASSUME NEW i \in Slots \ Taken(G)
      PROVE  /\ Cardinality(Taken(G) \cup {i}) = Cardinality(Taken(G)) + 1
             /\ Cardinality(Taken(G)) < NDev
  <2>1. Cardinality(Taken(G) \cup {i}) = Cardinality(Taken(G)) + 1
    BY <1>4, FS_AddElement
  <2>2. Taken(G) \cup {i} \in SUBSET Slots
    BY <1>3
  <2>3. Cardinality(Taken(G) \cup {i}) <= NKnown
    BY <1>2, <2>2, FS_Subset
  <2> QED BY <1>1, <1>4, <2>1, <2>3
<1> QED BY <1>4, <1>5

\* A step that leaves the other gateways alone has its own to look after.
LEMMA Others ==
  ASSUME DiscoveryInv, DiscoveryInv', TunnelInv, NEW g \in Gws,
         \A p \in Gws : was[p] \subseteq was'[p],
         \A q \in Gws \ {g} :
           /\ run'[q] = run[q] /\ mode'[q] = mode[q] /\ gws'[q] = gws[q] /\ num'[q] = num[q]
           /\ busy'[q] = busy[q] /\ tunnel'[q] = tunnel[q] /\ reroute'[q] = reroute[q]
           /\ neat'[q] = neat[q],
         Steady /\ TunnelsOf(g) => TunnelsOf(g)'
  PROVE  TunnelInv'
<1> SUFFICES ASSUME Steady', NEW q \in Gws PROVE TunnelsOf(q)'
  BY DEF TunnelInv
<1>1. Steady /\ TunnelsOf(q) /\ TunnelsOf(g)
  BY SteadyBefore DEF TunnelInv
<1>2. CASE q = g
  BY <1>1, <1>2
<1>3. CASE q # g
  BY <1>1, <1>3 DEF TunnelsOf
<1> QED BY <1>2, <1>3

LEMMA BusyOthers ==
  ASSUME BusyPlace, NEW g \in Gws, busy'[g] = NotBusy,
         \A q \in Gws \ {g} : run'[q] = run[q] /\ busy'[q] = busy[q] /\ gws'[q] = gws[q]
  PROVE  BusyPlace'
BY DEF BusyPlace, Place, RoleOf

\* A gateway that a home agent comes to know has no device yet.
LEMMA HomeNew ==
  ASSUME NEW G \in [Slots -> Entry], NEW n, NEW T, NEW R, HomeTunnels(G, n, T, R, None),
         NEW i \in Slots \ Taken(G), NEW e
  PROVE  HomeTunnels([G EXCEPT ![i] = e], n, T, R, i)
<1> DEFINE H == [G EXCEPT ![i] = e]
<1>1. \A j \in Slots \ {i} : H[j] = G[j]
  OBVIOUS
<1>2. Taken(H) \ {i} = Taken(G) /\ Taken(G) \ {None} = Taken(G)
  BY <1>1, Numbers DEF Taken
<1>3. \A j \in Taken(G) : H[j] = G[j]
  BY <1>1 DEF Taken
<1> HIDE DEF H
<1>4. HomeTunnels(H, n, T, R, i)
  BY <1>2, <1>3, ZenonT(60) DEF HomeTunnels
<1> QED BY <1>4 DEF H

\* The device it is given has a number that no other has.
LEMMA HomeOpen ==
  ASSUME NEW G \in [Slots -> Entry], NEW n, NEW T \in [Devs -> Gws \cup {NoGw}], NEW R,
         NEW i \in Taken(G), HomeTunnels(G, n, T, R, i)
  PROVE  /\ n \in Devs
         /\ HomeTunnels([G EXCEPT ![i].dev = n], (n + 1) % NDev,
                        [T EXCEPT ![n] = IF @ = NoGw THEN G[i].addr ELSE @], R, None)
<1> DEFINE K == Taken(G) \ {i}
           c == Cardinality(K)
           H == [G EXCEPT ![i].dev = n]
           U == [T EXCEPT ![n] = IF @ = NoGw THEN G[i].addr ELSE @]
           F == [G EXCEPT ![i].addr = NoGw]
<1>1. None \notin Taken(G) /\ i \in Slots /\ G[i].addr # NoGw
  BY Numbers DEF Taken
<1>2. Taken(F) = K /\ i \in Slots \ Taken(F)
  BY <1>1 DEF Taken, Entry
<1>3. c \in Nat /\ Cardinality(K \cup {i}) = c + 1 /\ c < NDev /\ NDev \in Nat
  <2> HIDE DEF F, K
  <2> QED BY <1>2, TakenCounted, Numbers
<1>4. n = c /\ n \in Devs
  BY <1>3, SMTT(60) DEF HomeTunnels, Devs
<1>5. H[i].addr = G[i].addr /\ H[i].dev = n /\ \A j \in Slots \ {i} : H[j] = G[j]
  BY <1>1, SMTT(60) DEF Entry
<1>6. Taken(H) \ {None} = K \cup {i}
  BY <1>1, <1>5 DEF Taken
<1>7. /\ \A j \in K : G[j].dev < c /\ j # i /\ H[j] = G[j] /\ G[j].dev \in Devs
      /\ \A j, k \in K : G[j].dev = G[k].dev => j = k
      /\ \A j \in K : T[G[j].dev] = G[j].addr
      /\ \A d \in Devs : T[d] # NoGw => \E j \in K : G[j].dev = d
      /\ R = None
  BY <1>5 DEF HomeTunnels, Taken, Entry
<1>8. \A j \in K : G[j].dev \in Int
  BY <1>7, Numbers DEF Devs
<1>9. T[n] = NoGw
  <2> SUFFICES ASSUME T[n] # NoGw PROVE FALSE
    OBVIOUS
  <2> HIDE DEF K, c, H, U, F
  <2>1. PICK j \in K : G[j].dev = n
    BY <1>4, <1>7
  <2> QED BY <1>3, <1>4, <1>7, <1>8, <2>1
<1>10. U[n] = G[i].addr /\ \A d \in Devs \ {n} : U[d] = T[d]
  BY <1>4, <1>9
<1> HIDE DEF K, c, H, U
<1>11. \A j \in K \cup {i} : H[j].dev < c + 1
  BY <1>3, <1>4, <1>5, <1>7, <1>8
<1>12. ASSUME NEW j \in K \cup {i}, NEW k \in K \cup {i}, H[j].dev = H[k].dev PROVE j = k
  BY <1>3, <1>4, <1>5, <1>7, <1>8, <1>12
<1>13. \A j \in K \cup {i} : U[H[j].dev] = H[j].addr
  <2> SUFFICES ASSUME NEW j \in K \cup {i} PROVE U[H[j].dev] = H[j].addr
    OBVIOUS
  <2>1. CASE j = i
    BY <1>5, <1>10, <2>1
  <2>2. CASE j \in K
    <3>1. G[j].dev \in Devs \ {n}
      BY <1>3, <1>4, <1>7, <1>8, <2>2
    <3> QED BY <1>7, <1>10, <2>2, <3>1
  <2> QED BY <2>1, <2>2
<1>14. ASSUME NEW d \in Devs, U[d] # NoGw PROVE \E j \in K \cup {i} : H[j].dev = d
  <2>1. CASE d = n
    BY <1>5, <2>1
  <2>2. CASE d # n
    <3>1. T[d] # NoGw
      BY <1>10, <1>14, <2>2
    <3> QED BY <1>7, <3>1
  <2> QED BY <2>1, <2>2
<1>15. HomeTunnels(H, (n + 1) % NDev, U, R, None)
  <2> DEFINE L == Taken(H) \ {None}
  <2>1. L = K \cup {i} /\ Cardinality(L) = c + 1 /\ n + 1 = c + 1
    BY <1>3, <1>4, <1>6
  <2> HIDE DEF L
  <2>2. R = None /\ (n + 1) % NDev = Cardinality(L) % NDev
    BY <1>7, <2>1
  <2>3. \A j \in L : H[j].dev < Cardinality(L)
    BY <1>11, <2>1
  <2>4. \A j, k \in L : H[j].dev = H[k].dev => j = k
    BY <1>12, <2>1
  <2>5. \A j \in L : U[H[j].dev] = H[j].addr
    BY <1>13, <2>1
  <2>6. \A d \in Devs : U[d] # NoGw => \E j \in L : H[j].dev = d
    BY <1>14, <2>1
  <2> QED BY <2>2, <2>3, <2>4, <2>5, <2>6 DEF HomeTunnels, L
<1> QED BY <1>4, <1>15 DEF H, U

LEMMA MeshNew ==
  ASSUME NEW G \in [Slots -> Entry], NEW T, NEW R, MeshTunnel(G, T, R, None),
         NEW i \in Slots \ Taken(G), NEW e
  PROVE  MeshTunnel([G EXCEPT ![i] = e], T, R, i)
<1> DEFINE H == [G EXCEPT ![i] = e]
<1>1. \A j \in Slots \ {i} : H[j] = G[j]
  OBVIOUS
<1>2. 0 \in Taken(H) \ {i} <=> 0 \in Taken(G) \ {None}
  BY <1>1, Numbers DEF Taken
<1>3. 0 \in Taken(G) => H[0] = G[0]
  BY <1>1 DEF Taken
<1> HIDE DEF H
<1>4. MeshTunnel(H, T, R, i)
  BY <1>2, <1>3 DEF MeshTunnel
<1> QED BY <1>4 DEF H

LEMMA MeshOpen ==
  ASSUME NEW G \in [Slots -> Entry], NEW T \in [Devs -> Gws \cup {NoGw}], NEW R,
         0 \in Taken(G), MeshTunnel(G, T, R, 0), NEW d \in Devs
  PROVE  MeshTunnel([G EXCEPT ![0].dev = d],
                    [T EXCEPT ![d] = IF @ = NoGw THEN G[0].addr ELSE @],
                    IF R = None THEN d ELSE R, None)
<1> DEFINE H == [G EXCEPT ![0].dev = d]
           U == [T EXCEPT ![d] = IF @ = NoGw THEN G[0].addr ELSE @]
<1>1. R = None /\ \A e \in Devs : T[e] = NoGw
  BY DEF MeshTunnel, Clear
<1>2. U[d] = G[0].addr /\ \A e \in Devs \ {d} : U[e] = NoGw
  BY <1>1
<1>3. H[0].dev = d /\ H[0].addr = G[0].addr
  BY Numbers DEF Entry
<1>4. 0 \in Taken(H) \ {None}
  BY <1>3, Numbers DEF Taken
<1> HIDE DEF H, U
<1>5. MeshTunnel(H, U, IF R = None THEN d ELSE R, None)
  BY <1>1, <1>2, <1>3, <1>4 DEF MeshTunnel
<1> QED BY <1>5 DEF H, U

LEMMA PlacesAre ==
  ASSUME NEW f PROVE Places(f) = {i \in Slots : Place(i) = RoleOf(f)}
BY Numbers DEF Places, Place, RoleOf, Slots

LEMMA NewGwTunnels ==
  ASSUME DiscoveryInv, DiscoveryInv', BusyPlace, TunnelInv, NEW g \in Gws, Idle(g), NEW P \in Views,
         P.gws = gws[g], P.num = num[g], P.tunnel = tunnel[g], P.reroute = reroute[g],
         NEW m \in Messages, RoleOf(m.flags) \in was[m.addr], NewGw(g, P, m),
         UNCHANGED <<run, mode, was>>, neat' = [neat EXCEPT ![g] = @ /\ run[g] = "on"]
  PROVE  BusyPlace' /\ TunnelInv'
<1> DEFINE free == Places(m.flags) \ Known(P)
           i == CHOOSE j \in free : \A k \in free : j <= k
           old == CHOOSE j \in SlotsOf(P, m.addr) : TRUE
           e == [addr |-> m.addr, dev |-> 0]
           T == [P EXCEPT !.gws[i] = [addr |-> m.addr, dev |-> 0]]
<1>1. /\ busy[g] = NotBusy /\ busy[g].slot = None /\ Known(P) = Taken(gws[g])
      /\ gws[g] \in [Slots -> Entry]
  BY DEF Idle, DiscoveryInv, DiscoveryTypeOK, BusyInv, Known, Taken, Views
<1>2. ASSUME NEW Q, Becomes(g, Q)
      PROVE  /\ \A q \in Gws \ {g} :
                  /\ gws'[q] = gws[q] /\ num'[q] = num[q] /\ tunnel'[q] = tunnel[q]
                  /\ reroute'[q] = reroute[q] /\ neat'[q] = neat[q]
             /\ gws'[g] = Q.gws /\ num'[g] = Q.num /\ tunnel'[g] = Q.tunnel
             /\ reroute'[g] = Q.reroute /\ neat'[g] = (neat[g] /\ run[g] = "on")
  BY <1>2 DEF Becomes, DiscoveryInv, DiscoveryTypeOK
<1>3. CASE free = {} \/ SlotsOf(P, m.addr) \cap Places(m.flags) # {}
  <2>1. Becomes(g, P) /\ busy' = busy
    BY <1>3 DEF NewGw
  <2>2. BusyPlace'
    BY <1>1, <1>2, <2>1, BusyOthers
  <2>3. TunnelsOf(g) => TunnelsOf(g)'
    BY ZenonT(60), <1>1, <1>2, <2>1 DEF TunnelsOf
  <2> QED BY <1>2, <2>1, <2>2, <2>3, Others
<1>4. CASE free # {} /\ SlotsOf(P, m.addr) # {} /\ SlotsOf(P, m.addr) \cap Places(m.flags) = {}
  <2>1. Becomes(g, Evolve(g, P, old, i, m.flags)) /\ busy' = busy
    BY <1>4 DEF NewGw
  <2>2. BusyPlace'
    <3> HIDE DEF old, i
    <3> QED BY <1>1, <1>2, <2>1, BusyOthers
  <2>3. ~Steady
    <3>1. old \in Known(P) /\ P.gws[old].addr = m.addr /\ old \notin Places(m.flags)
      BY <1>4 DEF SlotsOf
    <3>2. Place(old) \in was[m.addr] /\ m.addr \in Gws
      <4>1. InOrder(g, View(g)) /\ Known(View(g)) = Known(P)
        BY ViewsAreGood DEF Good, View, Known
      <4> QED BY <3>1, <4>1 DEF InOrder, View, Messages
    <3>3. Place(old) # RoleOf(m.flags)
      BY <3>1, PlacesAre DEF Known
    <3> QED BY <3>2, <3>3, OneMode DEF Steady
  <2> HIDE DEF old, i
  <2> QED BY <1>2, <2>1, <2>2, <2>3, Others
<1>5. CASE free # {} /\ SlotsOf(P, m.addr) = {}
  <2>1. i \in free
    <3>1. free \in SUBSET Nat
      BY PlacesAre, Numbers
    <3> QED BY <1>5, <3>1, LeastNatural
  <2>2. i \in Slots \ Taken(gws[g]) /\ Place(i) = RoleOf(m.flags) /\ i # None
    <3> HIDE DEF i
    <3>1. i \in Places(m.flags) /\ i \notin Known(P)
      BY <2>1
    <3>2. i \in Slots /\ Place(i) = RoleOf(m.flags)
      BY <3>1, PlacesAre
    <3> QED BY <1>1, <3>1, <3>2, Numbers
  <2>3. Becomes(g, T) /\ busy' = [busy EXCEPT ![g] = [slot |-> i, addr |-> m.addr, flags |-> m.flags]]
    BY <1>5 DEF NewGw
  <2> HIDE DEF i
  <2>4. /\ T.gws = [P.gws EXCEPT ![i] = e] /\ T.num = P.num /\ T.tunnel = P.tunnel
        /\ T.reroute = P.reroute
    BY DEF Views
  <2> HIDE DEF T
  <2>5. /\ gws'[g] = [gws[g] EXCEPT ![i] = e] /\ num'[g] = num[g] /\ tunnel'[g] = tunnel[g]
        /\ reroute'[g] = reroute[g] /\ neat'[g] = (neat[g] /\ run[g] = "on")
        /\ \A q \in Gws \ {g} :
             /\ gws'[q] = gws[q] /\ num'[q] = num[q] /\ tunnel'[q] = tunnel[q]
             /\ reroute'[q] = reroute[q] /\ neat'[q] = neat[q]
    BY <1>2, <2>3, <2>4
  <2>6. /\ busy'[g] = [slot |-> i, addr |-> m.addr, flags |-> m.flags]
        /\ \A q \in Gws \ {g} : busy'[q] = busy[q]
    BY <2>3 DEF DiscoveryInv, DiscoveryTypeOK
  <2>7. BusyPlace'
    <3> SUFFICES ASSUME NEW q \in Gws, busy'[q] # NotBusy
                 PROVE  /\ Place(busy'[q].slot) = RoleOf(busy'[q].flags)
                        /\ run'[q] = "on" => /\ gws'[q][busy'[q].slot].addr = busy'[q].addr
                                             /\ busy'[q].addr # NoGw
      BY DEF BusyPlace, Place, RoleOf
    <3>1. CASE q = g
      <4>1. gws'[g][i].addr = m.addr /\ m.addr # NoGw
        BY <1>1, <2>2, <2>5, DiscoveryAssumption DEF Messages
      <4> QED BY <2>2, <2>6, <3>1, <4>1
    <3>2. CASE q # g
      BY <2>5, <2>6, <3>2 DEF BusyPlace
    <3> QED BY <3>1, <3>2
  <2>8. ASSUME TunnelsOf(g) PROVE TunnelsOf(g)'
    <3> SUFFICES ASSUME neat[g], run[g] = "on"
                 PROVE  IF mode[g] = "home"
                        THEN HomeTunnels(gws'[g], num'[g], tunnel'[g], reroute'[g], i)
                        ELSE MeshTunnel(gws'[g], tunnel'[g], reroute'[g], i)
      <4>1. busy'[g].slot = i /\ mode'[g] = mode[g] /\ run'[g] = run[g]
        BY <2>6
      <4>2. neat'[g] => neat[g] /\ run[g] = "on"
        BY <2>5
      <4> QED BY <4>1, <4>2 DEF TunnelsOf
    <3>1. CASE mode[g] = "home"
      <4>1. HomeTunnels(gws[g], num[g], tunnel[g], reroute[g], None)
        BY <1>1, <2>8, <3>1 DEF TunnelsOf
      <4> HIDE DEF e
      <4>2. HomeTunnels([gws[g] EXCEPT ![i] = e], num[g], tunnel[g], reroute[g], i)
        BY <1>1, <2>2, <4>1, HomeNew
      <4> QED BY <2>5, <3>1, <4>2
    <3>2. CASE mode[g] # "home"
      <4>1. MeshTunnel(gws[g], tunnel[g], reroute[g], None)
        BY <1>1, <2>8, <3>2 DEF TunnelsOf
      <4> HIDE DEF e
      <4>2. MeshTunnel([gws[g] EXCEPT ![i] = e], tunnel[g], reroute[g], i)
        BY <1>1, <2>2, <4>1, MeshNew
      <4> QED BY <2>5, <3>2, <4>2
    <3> QED BY <3>1, <3>2
  <2> QED BY <2>5, <2>6, <2>7, <2>8, Others
<1> QED BY <1>3, <1>4, <1>5

LEMMA ReceiveTunnels ==
  ASSUME DiscoveryInv, DiscoveryInv', BusyPlace, TunnelInv, NEW m \in net, Receive(m)
  PROVE  BusyPlace' /\ TunnelInv'
<1> DEFINE g == m.to
           P == IF "Q" \in m.flags THEN Announce(g, View(g), m.addr, {}) ELSE View(g)
<1>1. m \in Messages /\ g \in Gws /\ Sound(m)
  BY Parts DEF TableOK, NetInv, Messages
<1>2. /\ Idle(g) /\ IF "U" \in m.flags THEN Told(g, P, m) ELSE NewGw(g, P, m)
      /\ neat' = [neat EXCEPT ![g] = @ /\ run[g] = "on"]
      /\ UNCHANGED <<scope, run, mode, starts, stops, was, owed>>
  BY DEF Receive
<1>3. Good(g, View(g)) /\ run[g] # "off"
  BY <1>1, <1>2, ViewsAreGood DEF Idle
<1>4. /\ P \in Views /\ P.gws = gws[g] /\ P.num = num[g] /\ P.tunnel = tunnel[g]
      /\ P.reroute = reroute[g]
  <2>1. CASE "Q" \in m.flags
    <3>1. m.addr \in Gws \ {g}
      BY <1>1, <2>1 DEF Sound, Messages
    <3>2. Good(g, P)
      BY <1>1, <1>3, <2>1, <3>1, AnnounceGood
    <3> QED BY <2>1, <3>2 DEF Good, Announce, View
  <2>2. CASE "Q" \notin m.flags
    BY <1>3, <2>2 DEF Good, View
  <2> QED BY <2>1, <2>2
<1> HIDE DEF P
<1>5. CASE "U" \in m.flags
  <2> DEFINE Q == IF m.addr = g \/ P.gws[0].addr = m.addr THEN P
                  ELSE Announce(g, P, m.addr, {"Q"})
  <2>1. Becomes(g, Q) /\ busy' = busy
    BY <1>2, <1>5 DEF Told
  <2>2. Q.gws = gws[g] /\ Q.num = num[g] /\ Q.tunnel = tunnel[g] /\ Q.reroute = reroute[g]
    BY <1>4 DEF Announce, Views
  <2> HIDE DEF Q, g
  <2>3. gws' = gws /\ num' = num /\ tunnel' = tunnel /\ reroute' = reroute
    BY <1>1, <2>1, <2>2 DEF Becomes, DiscoveryInv, DiscoveryTypeOK
  <2>4. /\ \A q \in Gws \ {g} : neat'[q] = neat[q]
        /\ neat'[g] = (neat[g] /\ run[g] = "on")
    BY <1>1, <1>2 DEF DiscoveryInv, DiscoveryTypeOK
  <2>5. BusyPlace'
    BY <1>2, <2>1, <2>3 DEF BusyPlace, Place, RoleOf
  <2>6. TunnelsOf(g) => TunnelsOf(g)'
    BY <1>2, <2>1, <2>3, <2>4 DEF TunnelsOf
  <2>7. TunnelInv'
    BY <1>1, <1>2, <2>1, <2>3, <2>4, <2>6, Others
  <2> QED BY <2>5, <2>7
<1>6. CASE "U" \notin m.flags
  <2>1. RoleOf(m.flags) \in was[m.addr] /\ NewGw(g, P, m)
    BY <1>1, <1>2, <1>6 DEF Sound
  <2> HIDE DEF g
  <2> QED BY <1>1, <1>2, <1>4, <2>1, NewGwTunnels
<1> QED BY <1>5, <1>6

LEMMA OpenTunnels ==
  ASSUME DiscoveryInv, DiscoveryInv', BusyPlace, TunnelInv, NEW g \in Gws, OpenTunnel(g)
  PROVE  BusyPlace' /\ TunnelInv'
<1> DEFINE i == busy[g].slot
           G == gws[g]
           P == View(g)
           to == busy[g].addr
           T == IF Applies(g) THEN OpenDevice(P, i, to) ELSE P
           V == EvolveState(g, T, i, to, busy[g].flags, {})
           others == Known(V) \ {i}
           pass == UNION {PassOn(V, V.gws[j].addr).net : j \in others}
           Q == [V EXCEPT !.net = @ \cup pass]
<1>1. /\ Becomes(g, Q) /\ busy[g] # NotBusy /\ busy' = [busy EXCEPT ![g] = NotBusy]
      /\ neat' = [neat EXCEPT ![g] = @ /\ run[g] = "on"]
      /\ UNCHANGED <<scope, run, mode, starts, stops, was>>
  BY DEF OpenTunnel
<1>2. /\ P \in Views /\ P.gws = G /\ P.num = num[g] /\ P.tunnel = tunnel[g]
      /\ P.reroute = reroute[g] /\ G \in [Slots -> Entry] /\ num[g] \in Devs
      /\ tunnel[g] \in [Devs -> Gws \cup {NoGw}]
  BY ViewsAreGood DEF Good, View, Views
<1>3. i \in Slots /\ Place(i) = RoleOf(busy[g].flags) /\ to \in Gws \cup {NoGw}
      /\ (run[g] = "on" => G[i].addr = to /\ to # NoGw)
  BY <1>1 DEF DiscoveryInv, DiscoveryTypeOK, BusyInv, BusyPlace
<1> HIDE DEF P, i, to
<1>4. T \in Views
  BY <1>2, <1>3, OpenDeviceUnmoved DEF Unmoved
<1>5. V \in Views
  <2> HIDE DEF T
  <2> QED BY <1>3, <1>4, EvolveStateUnmoved DEF Unmoved
<1>6. /\ Q.gws = V.gws /\ Q.num = V.num /\ Q.tunnel = V.tunnel /\ Q.reroute = V.reroute
  <2> HIDE DEF V, pass
  <2> QED BY <1>5 DEF Views
<1>7. /\ gws'[g] = V.gws /\ num'[g] = V.num /\ tunnel'[g] = V.tunnel /\ reroute'[g] = V.reroute
      /\ neat'[g] = (neat[g] /\ run[g] = "on") /\ busy'[g] = NotBusy
      /\ \A q \in Gws \ {g} :
           /\ gws'[q] = gws[q] /\ num'[q] = num[q] /\ tunnel'[q] = tunnel[q]
           /\ reroute'[q] = reroute[q] /\ neat'[q] = neat[q] /\ busy'[q] = busy[q]
  <2> HIDE DEF Q, V
  <2>1. /\ gws'[g] = Q.gws /\ num'[g] = Q.num /\ tunnel'[g] = Q.tunnel /\ reroute'[g] = Q.reroute
        /\ \A q \in Gws \ {g} :
             /\ gws'[q] = gws[q] /\ num'[q] = num[q] /\ tunnel'[q] = tunnel[q]
             /\ reroute'[q] = reroute[q]
    BY <1>1 DEF Becomes, DiscoveryInv, DiscoveryTypeOK
  <2>2. /\ neat'[g] = (neat[g] /\ run[g] = "on")
        /\ \A q \in Gws \ {g} : neat'[q] = neat[q]
    BY <1>1 DEF DiscoveryInv, DiscoveryTypeOK
  <2>3. busy'[g] = NotBusy /\ \A q \in Gws \ {g} : busy'[q] = busy[q]
    BY <1>1 DEF DiscoveryInv, DiscoveryTypeOK
  <2> QED BY <1>6, <2>1, <2>2, <2>3
<1> HIDE DEF Q
<1>8. BusyPlace'
  BY <1>1, <1>7, BusyOthers
<1>9. ASSUME TunnelsOf(g) PROVE TunnelsOf(g)'
  <2> SUFFICES ASSUME neat[g], run[g] = "on"
               PROVE  IF mode[g] = "home"
                      THEN HomeTunnels(gws'[g], num'[g], tunnel'[g], reroute'[g], None)
                      ELSE MeshTunnel(gws'[g], tunnel'[g], reroute'[g], None)
    <3>1. busy'[g].slot = None /\ mode'[g] = mode[g] /\ run'[g] = run[g]
      BY <1>1, <1>7 DEF NotBusy
    <3>2. neat'[g] => neat[g] /\ run[g] = "on"
      BY <1>7
    <3> QED BY <3>1, <3>2 DEF TunnelsOf
  <2>1. i \in Taken(G)
    BY <1>3 DEF Taken
  <2>2. CASE mode[g] = "home"
    <3>1. HomeTunnels(G, num[g], tunnel[g], reroute[g], i)
      BY <1>9, <2>2 DEF TunnelsOf, i
    <3>2. V = OpenDevice(P, i, to)
      BY <2>2 DEF Applies, Upward, EvolveState
    <3> DEFINE d == num[g]
               c == (d + 1) % NDev
    <3>3. /\ V.gws = [G EXCEPT ![i].dev = d] /\ V.num = c /\ V.reroute = reroute[g]
          /\ V.tunnel = [tunnel[g] EXCEPT ![d] = IF @ = NoGw THEN to ELSE @]
      <4> HIDE DEF V
      <4> QED BY <1>2, <3>2 DEF OpenDevice, tunnel_create, Views
    <3>4. HomeTunnels([G EXCEPT ![i].dev = d], c, V.tunnel, reroute[g], None)
      <4>1. to = G[i].addr
        BY <1>3
      <4> HIDE DEF V, G, d
      <4>2. HomeTunnels(G, d, tunnel[g], reroute[g], i)
        BY <3>1 DEF d
      <4>3. HomeTunnels([G EXCEPT ![i].dev = d], (d + 1) % NDev,
                        [tunnel[g] EXCEPT ![d] = IF @ = NoGw THEN G[i].addr ELSE @],
                        reroute[g], None)
        BY <1>2, <2>1, <4>2, HomeOpen
      <4> QED BY <3>3, <4>1, <4>3
    <3> QED BY <1>7, <2>2, <3>3, <3>4
  <2>3. CASE mode[g] # "home" /\ i = 0
    <3>1. MeshTunnel(G, tunnel[g], reroute[g], 0)
      BY <1>9, <2>3 DEF TunnelsOf, i
    <3>2. "R" \in busy[g].flags
      BY <1>3, <2>3 DEF Place, RoleOf
    <3>3. Upward(g) /\ T = P
      <4>1. mode[g] \in {"home", "backup", "router"}
        BY DEF DiscoveryInv, DiscoveryTypeOK, ModeInv
      <4> QED BY <2>3, <4>1 DEF Upward, Applies
    <3> DEFINE d == num[g]
               H == [P EXCEPT !.gws[0].dev = d, !.num = (@ + 1) % NDev]
    <3>4. V = create_reroute(tunnel_create(H, d, to), d) /\ to = G[0].addr
      BY <1>2, <1>3, <2>3, <3>2, <3>3 DEF EvolveState, OpenDevice
    <3>5. /\ H.gws = [G EXCEPT ![0].dev = d] /\ H.tunnel = tunnel[g] /\ H.reroute = reroute[g]
          /\ H \in Views
      <4>1. d \in Devs /\ (P.num + 1) % NDev \in Devs /\ 0 \in Slots
        BY <1>2, Numbers
      <4>2. H.gws = [G EXCEPT ![0].dev = d] /\ H.tunnel = tunnel[g] /\ H.reroute = reroute[g]
        BY <1>2 DEF Views
      <4> HIDE DEF d, G
      <4>3. H \in Views
        BY ZenonT(60), <1>2, <4>1 DEF Views, Entry
      <4> QED BY <4>2, <4>3 DEF d, G
    <3> HIDE DEF H, V
    <3>6. /\ V.gws = [G EXCEPT ![0].dev = d]
          /\ V.tunnel = [tunnel[g] EXCEPT ![d] = IF @ = NoGw THEN G[0].addr ELSE @]
          /\ V.reroute = IF reroute[g] = None THEN d ELSE reroute[g]
      BY <1>2, <3>4, <3>5 DEF tunnel_create, create_reroute, Views
    <3>7. MeshTunnel(V.gws, V.tunnel, V.reroute, None)
      <4> HIDE DEF G, d
      <4>1. 0 \in Taken(G)
        BY <2>1, <2>3
      <4>2. d \in Devs
        BY <1>2 DEF d
      <4>3. MeshTunnel([G EXCEPT ![0].dev = d],
                       [tunnel[g] EXCEPT ![d] = IF @ = NoGw THEN G[0].addr ELSE @],
                       IF reroute[g] = None THEN d ELSE reroute[g], None)
        BY <1>2, <3>1, <4>1, <4>2, MeshOpen
      <4> QED BY <3>6, <4>3
    <3> QED BY <1>7, <2>3, <3>7
  <2>4. CASE mode[g] # "home" /\ i # 0
    <3>1. MeshTunnel(G, tunnel[g], reroute[g], i)
      BY <1>9, <2>4 DEF TunnelsOf, i
    <3>2. "R" \notin busy[g].flags
      BY <1>3, <2>4 DEF Place, RoleOf
    <3>3. V = P
      BY <2>4, <3>2 DEF EvolveState, Applies
    <3> HIDE DEF V
    <3>4. 0 \in Taken(G) \ {i} <=> 0 \in Taken(G) \ {None}
      BY <2>4, Numbers
    <3>5. MeshTunnel(G, tunnel[g], reroute[g], None)
      BY <3>1, <3>4 DEF MeshTunnel
    <3> QED BY <1>2, <1>7, <2>4, <3>3, <3>5
  <2> QED BY <2>2, <2>3, <2>4
<1>10. TunnelInv'
  BY <1>1, <1>7, <1>9, Others
<1> QED BY <1>8, <1>10

\* What mob_delete_gw does to the tunnels.
LEMMA DeleteGwTunnels ==
  ASSUME NEW g \in Gws, NEW P \in Views, NEW i \in Slots
  PROVE  /\ DeleteGw(g, P, i).gws = [P.gws EXCEPT ![i].addr = NoGw]
         /\ mode[g] = "home" =>
              /\ DeleteGw(g, P, i).tunnel = [P.tunnel EXCEPT ![P.gws[i].dev] = NoGw]
              /\ DeleteGw(g, P, i).reroute = IF P.reroute = P.gws[i].dev THEN None ELSE P.reroute
         /\ Upward(g) /\ i = 0 =>
              /\ DeleteGw(g, P, i).tunnel = [P.tunnel EXCEPT ![P.gws[i].dev] = NoGw]
              /\ DeleteGw(g, P, i).reroute = None
         /\ Upward(g) /\ i # 0 =>
              DeleteGw(g, P, i).tunnel = P.tunnel /\ DeleteGw(g, P, i).reroute = P.reroute
<1> DEFINE d == P.gws[i].dev
           T == [P EXCEPT !.gws[i].addr = NoGw,
                          !.bind = IF Stores(g) THEN Rebound(@, i, None) ELSE @]
           c == clear_reroute(T)
           V == IF Upward(g) /\ i = 0 THEN close_tunnel(c, T.gws[i].dev) ELSE T
           W == IF Applies(g) THEN close_tunnel(V, V.gws[i].dev) ELSE V
<1>1. DeleteGw(g, P, i) = W
  BY DEF DeleteGw
<1>2. /\ T.gws = [P.gws EXCEPT ![i].addr = NoGw] /\ T.tunnel = P.tunnel /\ T.reroute = P.reroute
  BY DEF Views
<1>3. T.gws[i].dev = d /\ DOMAIN P.tunnel = Devs /\ d \in Devs
  BY <1>2 DEF Views, Entry
<1>4. T \in Views
  <2> DEFINE B == IF Stores(g) THEN Rebound(P.bind, i, None) ELSE P.bind
  <2>1. B \in [Motes -> Slots \cup {None}]
    BY Numbers DEF Views, Rebound
  <2> DEFINE G == [P.gws EXCEPT ![i].addr = NoGw]
  <2>2. G \in [Slots -> Entry]
    BY DEF Views, Entry
  <2>3. T = [P EXCEPT !.gws = G, !.bind = B]
    BY DEF Views
  <2> HIDE DEF T, G, B
  <2> QED BY <2>1, <2>2, <2>3 DEF Views
<1> HIDE DEF T
<1>5. CASE mode[g] = "home"
  <2>1. W = close_tunnel(T, d)
    BY <1>3, <1>5 DEF Upward, Applies
  <2>2. /\ W.gws = T.gws /\ W.tunnel = [T.tunnel EXCEPT ![d] = NoGw]
        /\ W.reroute = IF T.reroute = d THEN None ELSE T.reroute
    BY ZenonT(60), <1>4, <2>1 DEF close_tunnel, Views
  <2> HIDE DEF W
  <2> QED BY <1>1, <1>2, <1>5, <2>2 DEF Upward
<1>6. CASE mode[g] # "home" /\ Upward(g) /\ i = 0
  <2>1. W = close_tunnel(c, d)
    BY <1>3, <1>6 DEF Applies
  <2>2. /\ c.gws = T.gws /\ c.tunnel = T.tunnel /\ c.reroute = None
        /\ c \in Views
    BY <1>4 DEF clear_reroute, Views
  <2> HIDE DEF c
  <2>3. /\ W.gws = c.gws /\ W.tunnel = [c.tunnel EXCEPT ![d] = NoGw] /\ W.reroute = None
    BY <2>1, <2>2, Numbers DEF close_tunnel, Views
  <2> HIDE DEF W
  <2> QED BY <1>1, <1>2, <1>6, <2>2, <2>3
<1>7. CASE mode[g] # "home" /\ ~(Upward(g) /\ i = 0)
  <2>1. W = T
    BY <1>7 DEF Applies
  <2> QED BY <1>1, <1>2, <1>7, <2>1
<1> QED BY <1>5, <1>6, <1>7

LEMMA GiveUpTunnels ==
  ASSUME DiscoveryInv, DiscoveryInv', BusyPlace, TunnelInv, NEW g \in Gws, NEW i \in 0 .. NBackup,
         GiveUp(g, i)
  PROVE  BusyPlace' /\ TunnelInv'
<1> DEFINE Q == DeleteGw(g, View(g), i)
           d == gws[g][i].dev
<1>1. /\ i \in Known(View(g)) /\ Becomes(g, Q) /\ Idle(g) /\ Upward(g) /\ run[g] = "on"
      /\ UNCHANGED <<run, mode, busy, was, neat>>
  BY DEF GiveUp, ghosts
<1>2. /\ View(g) \in Views /\ i \in Slots /\ gws[g][i].addr # NoGw
      /\ View(g).gws = gws[g] /\ View(g).tunnel = tunnel[g] /\ View(g).reroute = reroute[g]
  BY <1>1, ViewsAreGood DEF Known, View, Good
<1>3. /\ Q.gws = [gws[g] EXCEPT ![i].addr = NoGw]
      /\ i = 0 => Q.tunnel = [tunnel[g] EXCEPT ![d] = NoGw] /\ Q.reroute = None
      /\ i # 0 => Q.tunnel = tunnel[g] /\ Q.reroute = reroute[g]
  BY <1>1, <1>2, DeleteGwTunnels
<1> HIDE DEF Q
<1>4. /\ gws'[g] = Q.gws /\ tunnel'[g] = Q.tunnel /\ reroute'[g] = Q.reroute
      /\ \A q \in Gws \ {g} :
           /\ gws'[q] = gws[q] /\ num'[q] = num[q] /\ tunnel'[q] = tunnel[q]
           /\ reroute'[q] = reroute[q]
  BY <1>1 DEF Becomes, DiscoveryInv, DiscoveryTypeOK
<1>5. busy[g] = NotBusy /\ busy[g].slot = None
  BY <1>1 DEF Idle, DiscoveryInv, BusyInv
<1>6. BusyPlace'
  BY <1>1, <1>4, <1>5, BusyOthers
<1>7. ASSUME TunnelsOf(g) PROVE TunnelsOf(g)'
  <2> SUFFICES ASSUME neat[g] PROVE MeshTunnel(gws'[g], tunnel'[g], reroute'[g], None)
    BY <1>1, <1>5 DEF TunnelsOf, Upward
  <2>1. MeshTunnel(gws[g], tunnel[g], reroute[g], None)
    BY <1>1, <1>5, <1>7 DEF TunnelsOf, Upward
  <2>2. gws[g] \in [Slots -> Entry] /\ tunnel[g] \in [Devs -> Gws \cup {NoGw}]
    BY <1>2 DEF Views
  <2>3. CASE i = 0
    <3>1. 0 \in Taken(gws[g]) \ {None}
      BY <1>2, <2>3, Numbers DEF Taken
    <3>2. \A e \in Devs \ {d} : tunnel[g][e] = NoGw
      BY <2>1, <2>3, <3>1 DEF MeshTunnel
    <3>3. Clear(tunnel'[g], reroute'[g])
      BY <1>3, <1>4, <2>2, <2>3, <3>2 DEF Clear
    <3>4. gws'[g][0].addr = NoGw
      BY <1>2, <1>3, <1>4, <2>2, <2>3 DEF Entry
    <3> QED BY <3>3, <3>4 DEF MeshTunnel, Taken
  <2>4. CASE i # 0
    <3>1. gws'[g][0] = gws[g][0]
      BY <1>2, <1>3, <1>4, <2>2, <2>4, Numbers
    <3>2. 0 \in Taken(gws[g]) \ {None} <=> 0 \in Taken(gws'[g]) \ {None}
      BY <3>1 DEF Taken
    <3> QED BY <1>3, <1>4, <2>1, <2>4, <3>1, <3>2 DEF MeshTunnel
  <2> QED BY <2>3, <2>4
<1>8. TunnelInv'
  BY <1>1, <1>4, <1>7, Others
<1> QED BY <1>6, <1>8

LEMMA StillTunnels ==
  ASSUME DiscoveryInv, DiscoveryInv', BusyPlace, TunnelInv,
         UNCHANGED <<run, mode, gws, num, busy, tunnel, reroute, was, neat>>
  PROVE  BusyPlace' /\ TunnelInv'
<1>1. BusyPlace'
  BY DEF BusyPlace, Place, RoleOf
<1>2. ASSUME Steady' PROVE Steady
  BY <1>2 DEF Steady, Constant
<1>3. \A g \in Gws : TunnelsOf(g) => TunnelsOf(g)'
  BY DEF TunnelsOf
<1>4. TunnelInv'
  BY <1>2, <1>3 DEF TunnelInv
<1> QED BY <1>1, <1>4

LEMMA DeleteGwCloses ==
  ASSUME NEW g \in Gws, NEW X \in Views, NEW n \in Slots, mode[g] = "home"
  PROVE  /\ DeleteGw(g, X, n).gws = [X.gws EXCEPT ![n].addr = NoGw]
         /\ DeleteGw(g, X, n).tunnel = [X.tunnel EXCEPT ![X.gws[n].dev] = NoGw]
         /\ DeleteGw(g, X, n).reroute = IF X.reroute = X.gws[n].dev THEN None ELSE X.reroute
BY DeleteGwTunnels

LEMMA DeleteGwLeaves ==
  ASSUME NEW g \in Gws, NEW X \in Views, NEW n \in Slots, Upward(g), n # 0
  PROVE  DeleteGw(g, X, n).tunnel = X.tunnel /\ DeleteGw(g, X, n).reroute = X.reroute
BY ZenonT(60), DeleteGwTunnels

\* down closes every tunnel there is.
LEMMA DownTunnels ==
  ASSUME DiscoveryInv, DiscoveryInv', BusyPlace, TunnelInv, NEW g \in Gws, Down(g)
  PROVE  BusyPlace' /\ TunnelInv'
<1> DEFINE P == View(g)
           b == busy[g].slot
<1>1. /\ run[g] = "on" /\ run' = [run EXCEPT ![g] = "stopping"]
      /\ UNCHANGED <<mode, busy, was, neat>>
  BY DEF Down, ghosts
<1>2. PICK D \in [0 .. NKnown -> Views] :
        /\ D[0] = P /\ \A n \in 1 .. NKnown : D[n] = Turn(g, n, D[n - 1])
        /\ Becomes(g, D[NKnown])
  BY ClosingTurns
<1>3. /\ gws'[g] = D[NKnown].gws /\ tunnel'[g] = D[NKnown].tunnel /\ reroute'[g] = D[NKnown].reroute
      /\ run'[g] = "stopping"
      /\ \A q \in Gws \ {g} :
           /\ gws'[q] = gws[q] /\ num'[q] = num[q] /\ tunnel'[q] = tunnel[q]
           /\ reroute'[q] = reroute[q] /\ run'[q] = run[q]
  BY <1>1, <1>2 DEF Becomes, DiscoveryInv, DiscoveryTypeOK
<1>4. /\ P \in Views /\ P.gws = gws[g] /\ P.tunnel = tunnel[g] /\ P.reroute = reroute[g]
      /\ Known(P) = Taken(gws[g]) /\ mode[g] \in {"home", "backup", "router"}
      /\ NKnown \in Nat /\ NKnown > 0
  <2>1. mode[g] \in {"home", "backup", "router"}
    BY <1>1 DEF DiscoveryInv, DiscoveryTypeOK, ModeInv
  <2> QED BY <2>1, ViewsAreGood, Numbers DEF Good, View, Known, Taken
<1>5. BusyPlace'
  BY <1>1, <1>3 DEF BusyPlace, Place, RoleOf
<1> HIDE DEF P, b
<1>6. ASSUME TunnelsOf(g), neat[g] PROVE Clear(D[NKnown].tunnel, D[NKnown].reroute)
  <2> DEFINE G == gws[g]
  <2>1. ASSUME NEW n \in 1 .. NKnown PROVE D[n - 1] \in Views /\ n - 1 \in Slots /\ D[n] \in Views
    <3>1. n - 1 \in 0 .. NKnown /\ n \in 0 .. NKnown /\ n - 1 \in Slots
      BY <1>4 DEF Slots
    <3> QED BY <3>1
  <2>2. CASE mode[g] = "home"
    <3> DEFINE OK(n) == /\ D[n].reroute = None
                        /\ \A i \in Slots : D[n].gws[i].dev = G[i].dev
                        /\ \A d \in Devs : D[n].tunnel[d] # NoGw =>
                             \E i \in Taken(G) : i >= n /\ G[i].dev = d
               S == {n \in Nat : n <= NKnown => OK(n)}
    <3>1. HomeTunnels(G, num[g], tunnel[g], reroute[g], b)
      BY <1>1, <1>6, <2>2 DEF TunnelsOf, b
    <3>2. 0 \in S
      <4>1. \A i \in Taken(G) : i >= 0
        BY Numbers DEF Taken
      <4> QED BY <1>2, <1>4, <3>1, <4>1 DEF HomeTunnels
    <3>3. ASSUME NEW n \in Nat, n \in S PROVE n + 1 \in S
      <4> SUFFICES ASSUME n + 1 <= NKnown PROVE OK(n + 1)
        OBVIOUS
      <4>1. n + 1 \in 1 .. NKnown /\ n + 1 - 1 = n /\ OK(n)
        BY <1>4, <3>3
      <4>2. D[n] \in Views /\ n \in Slots /\ D[n + 1] = Turn(g, n + 1, D[n])
        BY <1>2, <2>1, <4>1
      <4>3. CASE n \in Taken(G)
        <5>1. D[n + 1] = DeleteGw(g, D[n], n)
          BY <1>4, <2>2, <4>1, <4>2, <4>3 DEF Turn, DownSlots, Stores, P
        <5> DEFINE X == D[n]
                   Y == D[n + 1]
        <5>6. X \in Views /\ Y = DeleteGw(g, X, n) /\ n \in Slots
          BY <4>2, <5>1
        <5>7. X.gws[n].dev = G[n].dev /\ X.reroute = None
          BY <4>1, <4>2
        <5>2. /\ D[n + 1].gws = [D[n].gws EXCEPT ![n].addr = NoGw]
              /\ D[n + 1].tunnel = [D[n].tunnel EXCEPT ![G[n].dev] = NoGw]
              /\ D[n + 1].reroute = None
          <6> SUFFICES /\ Y.gws = [X.gws EXCEPT ![n].addr = NoGw]
                       /\ Y.tunnel = [X.tunnel EXCEPT ![G[n].dev] = NoGw]
                       /\ Y.reroute = None
            OBVIOUS
          <6> HIDE DEF X, Y, G, OK, S
          <6>1. /\ DeleteGw(g, X, n).gws = [X.gws EXCEPT ![n].addr = NoGw]
                /\ DeleteGw(g, X, n).tunnel = [X.tunnel EXCEPT ![X.gws[n].dev] = NoGw]
                /\ DeleteGw(g, X, n).reroute = IF X.reroute = X.gws[n].dev THEN None ELSE X.reroute
            BY <2>2, <5>6, DeleteGwCloses
          <6> QED BY <5>6, <5>7, <6>1
        <5>3. \A i \in Slots : D[n + 1].gws[i].dev = G[i].dev
          BY <4>1, <4>2, <5>2 DEF Views, Entry
        <5>4. ASSUME NEW d \in Devs, D[n + 1].tunnel[d] # NoGw
              PROVE  \E i \in Taken(G) : i >= n + 1 /\ G[i].dev = d
          <6>1. d # G[n].dev /\ D[n].tunnel[d] # NoGw
            BY <4>2, <5>2, <5>4 DEF Views
          <6>2. PICK i \in Taken(G) : i >= n /\ G[i].dev = d
            BY <4>1, <6>1
          <6>3. i \in Nat /\ i # n
            BY <6>1, <6>2, Numbers DEF Taken
          <6> QED BY <6>2, <6>3
        <5> QED BY <5>2, <5>3, <5>4
      <4>4. CASE n \notin Taken(G)
        <5>1. D[n + 1] = D[n]
          BY <1>4, <4>1, <4>2, <4>4 DEF Turn, P
        <5>2. \A i \in Taken(G) : i >= n => i >= n + 1
          <6> SUFFICES ASSUME NEW i \in Taken(G), i >= n PROVE i >= n + 1
            OBVIOUS
          <6>1. i \in Nat /\ i # n
            BY <4>4, Numbers DEF Taken
          <6> QED BY <6>1
        <5> QED BY <4>1, <5>1, <5>2
      <4> QED BY <4>3, <4>4
    <3> HIDE DEF S, OK
    <3>4. \A n \in Nat : n \in S
      BY <3>2, <3>3, SetInduction
    <3>5. OK(NKnown)
      BY <1>4, <3>4 DEF S
    <3>6. \A i \in Taken(G) : ~(i >= NKnown)
      BY <1>4 DEF Taken, Slots
    <3> QED BY <3>5, <3>6 DEF OK, Clear
  <2>3. CASE mode[g] # "home"
    <3> DEFINE S == {n \in Nat : n <= NKnown /\ n > 0 => Clear(D[n].tunnel, D[n].reroute)}
    <3>1. Upward(g) /\ 0 \in DownSlots(g)
      BY <1>4, <2>3, Numbers DEF Upward, DownSlots
    <3>2. MeshTunnel(G, tunnel[g], reroute[g], b)
      BY <1>1, <1>6, <2>3 DEF TunnelsOf, b
    <3>3. Clear(D[1].tunnel, D[1].reroute)
      <4>1. 1 \in 1 .. NKnown /\ 1 - 1 = 0
        BY <1>4
      <4>2. D[1] = Turn(g, 1, P)
        BY <1>2, <4>1
      <4>3. CASE 0 \in Taken(G)
        <5>1. D[1] = DeleteGw(g, P, 0)
          BY <1>4, <3>1, <4>1, <4>2, <4>3 DEF Turn, P
        <5>2. D[1].tunnel = [tunnel[g] EXCEPT ![G[0].dev] = NoGw] /\ D[1].reroute = None
          <6>1. /\ DeleteGw(g, P, 0).tunnel = [P.tunnel EXCEPT ![P.gws[0].dev] = NoGw]
                /\ DeleteGw(g, P, 0).reroute = None
            BY ZenonT(60), <1>4, <3>1, DeleteGwTunnels, Numbers
          <6> QED BY <1>4, <5>1, <6>1
        <5>3. \A d \in Devs \ {G[0].dev} : tunnel[g][d] = NoGw
          BY <3>2 DEF MeshTunnel, Clear
        <5>4. tunnel[g] \in [Devs -> Gws \cup {NoGw}]
          BY <1>4 DEF Views
        <5> QED BY <5>2, <5>3, <5>4 DEF Clear
      <4>4. CASE 0 \notin Taken(G)
        <5>1. D[1] = P
          BY <1>4, <4>1, <4>2, <4>4 DEF Turn, P
        <5> QED BY <1>4, <3>2, <4>4, <5>1 DEF MeshTunnel
      <4> QED BY <4>3, <4>4
    <3>4. 0 \in S
      OBVIOUS
    <3>5. ASSUME NEW n \in Nat, n \in S PROVE n + 1 \in S
      <4> SUFFICES ASSUME n + 1 <= NKnown PROVE Clear(D[n + 1].tunnel, D[n + 1].reroute)
        OBVIOUS
      <4>1. CASE n = 0
        BY <3>3, <4>1
      <4>2. CASE n # 0
        <5>1. n + 1 \in 1 .. NKnown /\ n + 1 - 1 = n /\ Clear(D[n].tunnel, D[n].reroute)
          BY <1>4, <3>5, <4>2
        <5>2. D[n] \in Views /\ n \in Slots /\ D[n + 1] = Turn(g, n + 1, D[n])
          BY <1>2, <2>1, <5>1
        <5>3. D[n + 1] = DeleteGw(g, D[n], n) \/ D[n + 1] = D[n]
          BY <5>1, <5>2 DEF Turn
        <5>4. D[n + 1].tunnel = D[n].tunnel /\ D[n + 1].reroute = D[n].reroute
          <6> DEFINE X == D[n]
          <6>1. X \in Views /\ n \in Slots
            BY <5>2
          <6> HIDE DEF X, S
          <6>2. DeleteGw(g, X, n).tunnel = X.tunnel /\ DeleteGw(g, X, n).reroute = X.reroute
            BY <3>1, <4>2, <6>1, DeleteGwLeaves
          <6> QED BY <5>3, <6>2 DEF X
        <5> QED BY <5>1, <5>4
      <4> QED BY <4>1, <4>2
    <3> HIDE DEF S
    <3>6. \A n \in Nat : n \in S
      BY <3>4, <3>5, SetInduction
    <3> QED BY <1>4, <3>6 DEF S
  <2> QED BY <2>2, <2>3
<1>7. TunnelsOf(g) => TunnelsOf(g)'
  BY <1>1, <1>3, <1>6 DEF TunnelsOf
<1>8. TunnelInv'
  BY <1>1, <1>3, <1>7, Others
<1> QED BY <1>5, <1>8

LEMMA UpdateTunnels ==
  ASSUME DiscoveryInv, DiscoveryInv', BusyPlace, TunnelInv, NEW g \in Gws, NEW s \in Gws,
         NEW n \in Motes, Update(g, s, n)
  PROVE  BusyPlace' /\ TunnelInv'
<1>1. UNCHANGED <<run, mode, gws, num, busy, tunnel, reroute, was, neat>>
  BY DEF Update, ghosts
<1> QED BY <1>1, StillTunnels

\* After down nothing is left to close; what a signal leaves behind is not promised.
LEMMA EndTunnels ==
  ASSUME DiscoveryInv, DiscoveryInv', BusyPlace, TunnelInv, NEW g \in Gws, End(g) \/ Kill(g)
  PROVE  BusyPlace' /\ TunnelInv'
<1>1. /\ run' = [run EXCEPT ![g] = "off"] /\ UNCHANGED <<mode, gws, num, tunnel, reroute, was>>
      /\ busy'[g] = NotBusy /\ \A q \in Gws \ {g} : busy'[q] = busy[q] /\ neat'[q] = neat[q]
      /\ neat'[g] => neat[g] /\ run[g] = "stopping"
  <2>1. CASE End(g)
    <3>1. busy[g] = NotBusy
      BY <2>1 DEF End, Idle, DiscoveryInv, BusyInv
    <3> QED BY <2>1, <3>1 DEF End, ghosts, process
  <2>2. CASE Kill(g)
    <3>1. busy' = [busy EXCEPT ![g] = NotBusy] /\ neat' = [neat EXCEPT ![g] = FALSE]
      BY <2>2 DEF Kill
    <3> QED BY <2>2, <3>1 DEF Kill, process, DiscoveryInv, DiscoveryTypeOK
  <2> QED BY <2>1, <2>2
<1>2. run'[g] = "off" /\ \A q \in Gws \ {g} : run'[q] = run[q]
  BY <1>1 DEF DiscoveryInv, DiscoveryTypeOK
<1>3. BusyPlace'
  BY <1>1, <1>2, BusyOthers
<1>4. TunnelsOf(g) => TunnelsOf(g)'
  BY <1>1, <1>2 DEF TunnelsOf
<1>5. TunnelInv'
  BY <1>1, <1>2, <1>4, Others
<1> QED BY <1>3, <1>5

\* A process starts with no tunnel: the one before it closed its own.
LEMMA StartTunnels ==
  ASSUME DiscoveryInv, DiscoveryInv', BusyPlace, TunnelInv, NEW g \in Gws, Start(g)
  PROVE  BusyPlace' /\ TunnelInv'
<1> DEFINE Fresh == [i \in Slots |-> [addr |-> NoGw, dev |-> 0]]
<1>1. PICK m \in scope.modes[g] : mode' = [mode EXCEPT ![g] = m] /\ was' = [was EXCEPT ![g] = @ \cup {m}]
  BY DEF Start
<1>2. /\ run[g] = "off" /\ run' = [run EXCEPT ![g] = "on"]
      /\ gws' = [gws EXCEPT ![g] = Fresh] /\ num' = [num EXCEPT ![g] = 0]
      /\ UNCHANGED <<busy, tunnel, reroute, neat>>
  BY DEF Start
<1>3. busy[g] = NotBusy /\ busy[g].slot = None
  <2>1. busy[g] = NotBusy
    BY <1>2 DEF DiscoveryInv, BusyInv
  <2> QED BY <2>1 DEF NotBusy
<1>4. /\ run'[g] = "on" /\ gws'[g] = Fresh /\ num'[g] = 0
      /\ \A q \in Gws \ {g} : /\ run'[q] = run[q] /\ mode'[q] = mode[q] /\ gws'[q] = gws[q]
                              /\ num'[q] = num[q]
      /\ \A p \in Gws : was[p] \subseteq was'[p]
  BY <1>1, <1>2 DEF DiscoveryInv, DiscoveryTypeOK
<1>5. Taken(Fresh) = {}
  BY DEF Taken
<1> HIDE DEF Fresh
<1>6. BusyPlace'
  BY <1>2, <1>3, <1>4, BusyOthers
<1>7. ASSUME TunnelsOf(g) PROVE TunnelsOf(g)'
  <2> SUFFICES ASSUME neat[g]
               PROVE  /\ HomeTunnels(Fresh, 0, tunnel[g], reroute[g], None)
                      /\ MeshTunnel(Fresh, tunnel[g], reroute[g], None)
    BY <1>2, <1>3, <1>4 DEF TunnelsOf
  <2>1. Clear(tunnel[g], reroute[g])
    BY <1>2, <1>7 DEF TunnelsOf
  <2>2. Cardinality(Taken(Fresh)) = 0
    BY <1>5, FS_EmptySet
  <2>3. 0 % NDev = 0
    BY Numbers
  <2>4. HomeTunnels(Fresh, 0, tunnel[g], reroute[g], None)
    BY <1>5, <2>1, <2>2, <2>3 DEF HomeTunnels, Clear
  <2>5. MeshTunnel(Fresh, tunnel[g], reroute[g], None)
    BY <1>5, <2>1 DEF MeshTunnel
  <2> QED BY <2>4, <2>5
<1>8. TunnelInv'
  BY <1>2, <1>4, <1>7, Others
<1> QED BY <1>6, <1>8

LEMMA InitTunnels == Init => BusyPlace /\ TunnelInv
BY DEF Init, BusyPlace, TunnelInv, TunnelsOf, Clear

LEMMA StepTunnels ==
  DiscoveryInv /\ DiscoveryInv' /\ BusyPlace /\ TunnelInv /\ [Next]_vars => BusyPlace' /\ TunnelInv'
<1> SUFFICES ASSUME DiscoveryInv, DiscoveryInv', BusyPlace, TunnelInv, [Next]_vars
             PROVE  BusyPlace' /\ TunnelInv'
  OBVIOUS
<1>1. ASSUME NEW m \in net, Receive(m) PROVE BusyPlace' /\ TunnelInv'
  BY <1>1, ReceiveTunnels
<1>2. ASSUME NEW g \in Gws, OpenTunnel(g) PROVE BusyPlace' /\ TunnelInv'
  BY <1>2, OpenTunnels
<1>3. ASSUME NEW g \in Gws, Start(g) PROVE BusyPlace' /\ TunnelInv'
  BY <1>3, StartTunnels
<1>4. ASSUME NEW g \in Gws, NEW s \in Gws, NEW n \in Motes, Update(g, s, n)
      PROVE  BusyPlace' /\ TunnelInv'
  BY <1>4, UpdateTunnels
<1>9. ASSUME NEW g \in Gws, NEW p \in Gws, New6lbr(g, p) PROVE BusyPlace' /\ TunnelInv'
  BY <1>9, New6lbrKeeps, StillTunnels
<1>5. ASSUME NEW g \in Gws, NEW i \in 0 .. NBackup, GiveUp(g, i) PROVE BusyPlace' /\ TunnelInv'
  BY <1>5, GiveUpTunnels
<1>6. ASSUME NEW g \in Gws, Down(g) PROVE BusyPlace' /\ TunnelInv'
  BY <1>6, DownTunnels
<1>7. ASSUME NEW g \in Gws, End(g) \/ Kill(g) PROVE BusyPlace' /\ TunnelInv'
  BY <1>7, EndTunnels
<1>8. CASE UNCHANGED vars
  <2>1. UNCHANGED <<run, mode, gws, num, busy, tunnel, reroute, was, neat>>
    BY <1>8 DEF vars, process, ghosts
  <2> QED BY <2>1, StillTunnels
<1> QED BY <1>1, <1>2, <1>3, <1>4, <1>5, <1>6, <1>7, <1>8, <1>9 DEF Next, Talk

-----------------------------------------------------------------------------
(* Backups and border routers meet *)

\* As long as nothing stops, a gateway has one mode and keeps it.
Lasting ==
  stops = 0 => \A g \in Gws : \/ run[g] = "off" /\ was[g] = {}
                              \/ run[g] = "on" /\ was[g] = {mode[g]}

\* The backup of each pair is told of the border router.
OwedTold ==
  stops = 0 => \A p \in owed : /\ "router" \in was[p[1]] /\ "backup" \in was[p[2]]
                               /\ [to |-> p[2], flags |-> {"U"}, addr |-> p[1]] \in net

\* The tables are large enough: no more backups than MAX_LBR_BACKUP, and no more
\* border routers than MAX_KNOWN_GATEWAY leaves slots for.
Room ==
  /\ IsFiniteSet(Gws)
  /\ Cardinality({g \in Gws : "backup" \in was[g]}) <= NBackup
  /\ Cardinality({g \in Gws : "router" \in was[g]}) < NKnown - NBackup

LEMMA NewGwSays ==
  ASSUME NEW g \in Gws, NEW P, Good(g, P), NEW m \in Messages,
         RoleOf(m.flags) \in was[m.addr], NewGw(g, P, m)
  PROVE  net' = P.net
<1> DEFINE free == Places(m.flags) \ Known(P)
           i == CHOOSE j \in free : \A k \in free : j <= k
           T == [P EXCEPT !.gws[i] = [addr |-> m.addr, dev |-> 0]]
           old == CHOOSE j \in SlotsOf(P, m.addr) : TRUE
<1>1. \A j \in Places(m.flags) : j \in Slots /\ Place(j) = RoleOf(m.flags)
  BY Numbers DEF Places, Place, RoleOf, Slots
<1>2. CASE free = {} \/ SlotsOf(P, m.addr) \cap Places(m.flags) # {}
  BY <1>2 DEF NewGw, Becomes
<1>3. CASE free # {} /\ SlotsOf(P, m.addr) # {} /\ SlotsOf(P, m.addr) \cap Places(m.flags) = {}
  <2>1. old \in SlotsOf(P, m.addr) /\ i \in free
    <3>1. free \in SUBSET Nat
      BY <1>1, Numbers
    <3> QED BY <1>3, <3>1, LeastNatural
  <2>2. old \in Known(P) /\ P.gws[old].addr = m.addr /\ i \in Slots \ Known(P)
    BY <1>1, <2>1 DEF SlotsOf
  <2>3. Place(i) \in was[P.gws[old].addr]
    BY <1>1, <2>1, <2>2
  <2>4. Becomes(g, Evolve(g, P, old, i, m.flags))
    BY <1>3 DEF NewGw
  <2> HIDE DEF old, i
  <2>5. Evolve(g, P, old, i, m.flags).net = P.net
    BY <2>2, <2>3, EvolveGood
  <2> QED BY <2>4, <2>5 DEF Becomes
<1>4. CASE free # {} /\ SlotsOf(P, m.addr) = {}
  <2>1. Becomes(g, T)
    BY <1>4 DEF NewGw
  <2> HIDE DEF i
  <2>2. T.net = P.net
    BY DEF Good, Views
  <2> QED BY <2>1, <2>2 DEF Becomes
<1> QED BY <1>2, <1>3, <1>4

\* What was sent stays there to be received again.
LEMMA ReceiveSays ==
  ASSUME DiscoveryInv, NEW m \in net, Receive(m)
  PROVE  net \subseteq net'
<1> DEFINE g == m.to
           A == Announce(g, View(g), m.addr, {})
           P == IF "Q" \in m.flags THEN A ELSE View(g)
<1>1. m \in Messages /\ g \in Gws /\ m.addr \in Gws /\ Sound(m)
  BY Parts DEF TableOK, NetInv, Messages
<1>2. Idle(g) /\ IF "U" \in m.flags THEN Told(g, P, m) ELSE NewGw(g, P, m)
  BY DEF Receive
<1>3. Good(g, View(g)) /\ View(g).net = net
  BY <1>1, ViewsAreGood DEF View
<1>4. Good(g, P)
  <2>1. CASE "Q" \in m.flags
    <3>1. m.addr \in Gws \ {g} /\ run[g] # "off"
      BY <1>1, <1>2, <2>1 DEF Sound, Idle
    <3> QED BY <1>1, <1>3, <2>1, <3>1, AnnounceGood
  <2>2. CASE "Q" \notin m.flags
    BY <1>3, <2>2
  <2> QED BY <2>1, <2>2
<1>5. net \subseteq P.net
  <2>1. net \subseteq A.net
    BY <1>3 DEF Announce, View
  <2> QED BY <1>3, <2>1
<1> HIDE DEF P, A
<1>6. CASE "U" \in m.flags
  <2> DEFINE Q == IF m.addr = g \/ P.gws[0].addr = m.addr THEN P
                  ELSE Announce(g, P, m.addr, {"Q"})
  <2>1. Becomes(g, Q)
    BY <1>2, <1>6 DEF Told
  <2>2. P.net \subseteq Announce(g, P, m.addr, {"Q"}).net
    BY <1>4 DEF Announce, Good, Views
  <2>3. P.net \subseteq Q.net
    BY <2>2
  <2> QED BY <1>5, <2>1, <2>3 DEF Becomes
<1>7. CASE "U" \notin m.flags
  <2>1. RoleOf(m.flags) \in was[m.addr] /\ NewGw(g, P, m)
    BY <1>1, <1>2, <1>7 DEF Sound
  <2> HIDE DEF g
  <2>2. net' = P.net
    BY <1>1, <1>4, <2>1, NewGwSays
  <2> QED BY <1>5, <2>2
<1> QED BY <1>6, <1>7

\* The home agent tells a backup of each border router.
LEMMA OpenTunnelSays ==
  ASSUME DiscoveryInv, NEW g \in Gws, OpenTunnel(g)
  PROVE  /\ net \subseteq net'
         /\ \A p \in owed' \ owed :
              /\ "router" \in was[p[1]] /\ "backup" \in was[p[2]]
              /\ [to |-> p[2], flags |-> {"U"}, addr |-> p[1]] \in net'
<1> DEFINE i == busy[g].slot
           P == View(g)
           to == busy[g].addr
           T == IF Applies(g) THEN OpenDevice(P, i, to) ELSE P
           V == EvolveState(g, T, i, to, busy[g].flags, {})
           others == Known(V) \ {i}
           pass == UNION {PassOn(V, V.gws[j].addr).net : j \in others}
           news == {<<V.gws[j].addr, V.gws[i].addr>> : j \in others \ 0 .. NBackup}
<1>1. /\ Becomes(g, [V EXCEPT !.net = @ \cup pass]) /\ busy[g] # NotBusy
      /\ owed' = (IF mode[g] = "home" /\ i \in 1 .. NBackup THEN owed \cup news ELSE owed)
  BY DEF OpenTunnel
<1>2. Good(g, P) /\ P \in Views /\ P.net = net
  BY ViewsAreGood DEF Good, View
<1>3. i \in Slots
  BY <1>1 DEF DiscoveryInv, DiscoveryTypeOK, BusyInv
<1>4. to \in Gws \cup {NoGw} /\ P.gws[i] = gws[g][i]
  BY Parts DEF ControlOK, Openings, View
<1> HIDE DEF P, i, to
<1>5. Unmoved(P, T) /\ T \in Views
  <2>1. Unmoved(P, OpenDevice(P, i, to)) /\ Unmoved(P, P)
    BY <1>2, <1>3, <1>4, OpenDeviceUnmoved DEF Unmoved
  <2>2. Unmoved(P, T)
    BY <2>1
  <2> QED BY <2>2 DEF Unmoved
<1> HIDE DEF T
<1>6. Unmoved(P, V) /\ Known(V) = Known(P)
  BY <1>3, <1>4, <1>5, EvolveStateUnmoved, UnmovedTwice, UnmovedKnown
<1>7. Good(g, V) /\ V \in Views /\ V.net = net
  BY <1>2, <1>6, UnmovedGood DEF Unmoved
<1> HIDE DEF V
<1>8. net' = net \cup pass
  <2> HIDE DEF pass
  <2>1. [V EXCEPT !.net = @ \cup pass].net = net \cup pass
    BY <1>7 DEF Views
  <2> QED BY <1>1, <2>1 DEF Becomes
<1>9. ASSUME NEW p \in owed' \ owed
      PROVE  /\ "router" \in was[p[1]] /\ "backup" \in was[p[2]]
             /\ [to |-> p[2], flags |-> {"U"}, addr |-> p[1]] \in net'
  <2>1. mode[g] = "home" /\ i \in 1 .. NBackup /\ p \in news
    BY <1>1, <1>9
  <2>2. PICK j \in others \ 0 .. NBackup : p = <<V.gws[j].addr, V.gws[i].addr>>
    BY <2>1
  <2> DEFINE r == V.gws[j].addr
             b == V.gws[i].addr
             u == [to |-> b, flags |-> {"U"}, addr |-> r]
  <2>3. p[1] = r /\ p[2] = b /\ j \in Known(V) /\ j \in Slots /\ j \notin 0 .. NBackup
    BY <2>2 DEF Known
  <2>4. i \in Known(V)
    <3>1. SUFFICES ASSUME V.gws[i].addr = NoGw PROVE FALSE
      BY <1>3 DEF Known
    <3>2. gws[g][busy[g].slot].addr = NoGw
      BY <1>3, <1>4, <1>6, <3>1 DEF Unmoved, i
    <3>3. Known(P) = {}
      BY <1>1, <2>1, <3>2 DEF DiscoveryInv, BusyInv, P
    <3> QED BY <1>6, <2>3, <3>3
  <2>5. Place(j) = "router" /\ Place(i) = "backup" /\ i \in 0 .. NBackup
    BY <2>1, <2>3, Numbers DEF Place
  <2>6. "router" \in was[r] /\ "backup" \in was[b]
    BY <1>7, <2>3, <2>4, <2>5 DEF Good, InOrder
  <2>7. u \in PassOn(V, r).net
    BY <1>7, <2>4, <2>5 DEF PassOn, Views
  <2>8. u \in pass
    BY <2>2, <2>7
  <2> HIDE DEF pass, r, b
  <2> QED BY <1>8, <2>3, <2>6, <2>8
<1> QED BY <1>8, <1>9

\* Roles and messages stay, and who starts has a mode.
LEMMA StartLasts ==
  ASSUME DiscoveryInv, Lasting, NEW g \in Gws, Start(g), stops = 0
  PROVE  /\ net \subseteq net' /\ owed' = owed /\ \A q \in Gws : was[q] \subseteq was'[q]
         /\ \A q \in Gws : \/ run'[q] = "off" /\ was'[q] = {}
                           \/ run'[q] = "on" /\ was'[q] = {mode'[q]}
<1>1. PICK m \in scope.modes[g], c \in scope.contacts[g] \cup {NoGw} :
        /\ mode' = [mode EXCEPT ![g] = m]
        /\ was' = [was EXCEPT ![g] = @ \cup {m}]
        /\ net' = IF c = NoGw THEN net
                  ELSE net \cup {[to |-> c, addr |-> g, flags |-> {"Q"} \cup Roles(m)]}
  BY DEF Start
<1>2. run[g] = "off" /\ run' = [run EXCEPT ![g] = "on"] /\ owed' = owed
  BY DEF Start
<1>3. was[g] = {}
  BY <1>2 DEF Lasting
<1>4. /\ run'[g] = "on" /\ mode'[g] = m /\ was'[g] = {m}
      /\ \A q \in Gws \ {g} : run'[q] = run[q] /\ mode'[q] = mode[q] /\ was'[q] = was[q]
  BY <1>1, <1>2, <1>3, Parts DEF ControlOK
<1>5. net \subseteq net'
  BY <1>1
<1> QED BY <1>2, <1>3, <1>4, <1>5 DEF Lasting

LEMMA StepMeets ==
  ASSUME DiscoveryInv, Lasting, OwedTold, [Next]_vars
  PROVE  Lasting' /\ OwedTold'
<1> SUFFICES ASSUME stops' = 0
             PROVE  /\ \A g \in Gws : \/ run'[g] = "off" /\ was'[g] = {}
                                      \/ run'[g] = "on" /\ was'[g] = {mode'[g]}
                    /\ \A p \in owed' : /\ "router" \in was'[p[1]] /\ "backup" \in was'[p[2]]
                                        /\ [to |-> p[2], flags |-> {"U"}, addr |-> p[1]] \in net'
  BY DEF Lasting, OwedTold
<1>0. stops \in Nat
  <2>1. scope.stops \in Nat /\ stops \in 0 .. scope.stops
    BY DiscoveryAssumption, Parts DEF ControlOK
  <2> QED BY <2>1
<1>1. ASSUME stops = 0, net \subseteq net', owed' = owed, UNCHANGED <<run, mode, was>>
      PROVE  /\ \A g \in Gws : \/ run'[g] = "off" /\ was'[g] = {}
                               \/ run'[g] = "on" /\ was'[g] = {mode'[g]}
             /\ \A p \in owed' : /\ "router" \in was'[p[1]] /\ "backup" \in was'[p[2]]
                                 /\ [to |-> p[2], flags |-> {"U"}, addr |-> p[1]] \in net'
  BY <1>1 DEF Lasting, OwedTold
<1>2. ASSUME NEW m \in net, Receive(m)
      PROVE  stops = 0 /\ net \subseteq net' /\ owed' = owed /\ UNCHANGED <<run, mode, was>>
  <2>1. UNCHANGED <<scope, run, mode, starts, stops, was, owed>>
    BY <1>2 DEF Receive
  <2> QED BY <1>2, <2>1, ReceiveSays
<1>3. ASSUME NEW g \in Gws, OpenTunnel(g)
      PROVE  /\ \A q \in Gws : \/ run'[q] = "off" /\ was'[q] = {}
                               \/ run'[q] = "on" /\ was'[q] = {mode'[q]}
             /\ \A p \in owed' : /\ "router" \in was'[p[1]] /\ "backup" \in was'[p[2]]
                                 /\ [to |-> p[2], flags |-> {"U"}, addr |-> p[1]] \in net'
  <2>1. UNCHANGED <<scope, run, mode, starts, stops, was>>
    BY <1>3 DEF OpenTunnel
  <2>2. /\ net \subseteq net'
        /\ \A p \in owed' \ owed :
             /\ "router" \in was[p[1]] /\ "backup" \in was[p[2]]
             /\ [to |-> p[2], flags |-> {"U"}, addr |-> p[1]] \in net'
    BY <1>3, OpenTunnelSays
  <2> QED BY <2>1, <2>2 DEF Lasting, OwedTold
<1>4. ASSUME NEW g \in Gws, Start(g)
      PROVE  /\ \A q \in Gws : \/ run'[q] = "off" /\ was'[q] = {}
                               \/ run'[q] = "on" /\ was'[q] = {mode'[q]}
             /\ \A p \in owed' : /\ "router" \in was'[p[1]] /\ "backup" \in was'[p[2]]
                                 /\ [to |-> p[2], flags |-> {"U"}, addr |-> p[1]] \in net'
  <2>1. stops = 0
    BY <1>4 DEF Start
  <2>2. /\ net \subseteq net' /\ owed' = owed /\ \A q \in Gws : was[q] \subseteq was'[q]
        /\ \A q \in Gws : \/ run'[q] = "off" /\ was'[q] = {}
                          \/ run'[q] = "on" /\ was'[q] = {mode'[q]}
    BY <1>4, <2>1, StartLasts
  <2>3. \A p \in owed : p[1] \in Gws /\ p[2] \in Gws
    BY Parts DEF ControlOK
  <2> QED BY <2>1, <2>2, <2>3 DEF OwedTold
<1>10. ASSUME NEW g \in Gws, NEW p \in Gws, New6lbr(g, p)
       PROVE  stops = 0 /\ net \subseteq net' /\ owed' = owed /\ UNCHANGED <<run, mode, was>>
  BY <1>10, New6lbrKeeps
<1>5. ASSUME NEW g \in Gws, NEW s \in Gws, NEW n \in Motes, Update(g, s, n)
      PROVE  stops = 0 /\ net \subseteq net' /\ owed' = owed /\ UNCHANGED <<run, mode, was>>
  BY <1>5 DEF Update, ghosts
<1>6. ASSUME NEW g \in Gws, NEW i \in 0 .. NBackup, GiveUp(g, i) \/ Down(g) \/ Kill(g)
      PROVE  FALSE
  <2>1. stops' = stops + 1
    BY <1>6 DEF GiveUp, Down, Kill
  <2> QED BY <1>0, <2>1
<1>7. ASSUME NEW g \in Gws, End(g) PROVE FALSE
  <2>1. run[g] = "stopping" /\ stops = 0
    BY <1>7 DEF End
  <2> QED BY <2>1 DEF Lasting
<1>8. CASE UNCHANGED vars
  BY <1>1, <1>8 DEF vars, process, ghosts
<1>9. 0 \in 0 .. NBackup
  BY Numbers
<1> QED BY <1>1, <1>2, <1>3, <1>4, <1>5, <1>6, <1>7, <1>8, <1>9, <1>10 DEF Next, Talk

\* When the slots of a role are all taken, by no fewer gateways than there are in
\* that role, each of them is known.
LEMMA Crowd ==
  ASSUME DiscoveryInv, IsFiniteSet(Gws), NEW g \in Gws, NEW role, NEW T,
         T = {p \in Gws : role \in was[p]}, NEW S, IsFiniteSet(S),
         \A i \in S : Place(i) = role /\ i \in Known(View(g)),
         Cardinality(T) <= Cardinality(S), NEW q \in T
  PROVE  Knows(g, q)
<1> SUFFICES ASSUME ~Knows(g, q) PROVE FALSE
  OBVIOUS
<1> DEFINE U == T \ {q}
           f == [i \in S |-> gws[g][i].addr]
<1>1. IsFiniteSet(T) /\ Cardinality(T) \in Nat /\ Cardinality(S) \in Nat
  <2>1. T \in SUBSET Gws
    OBVIOUS
  <2>2. IsFiniteSet(T)
    BY <2>1, FS_Subset
  <2> QED BY <2>2, FS_CardinalityType
<1>2. IsFiniteSet(U) /\ Cardinality(U) = Cardinality(T) - 1
  BY <1>1, FS_RemoveElement
<1>3. Cardinality(U) < Cardinality(S)
  BY <1>1, <1>2
<1>4. InOrder(g, View(g)) /\ View(g).gws = gws[g]
  BY ViewsAreGood DEF Good, View
<1>5. f \in [S -> U]
  <2> SUFFICES ASSUME NEW i \in S PROVE gws[g][i].addr \in U
    OBVIOUS
  <2>1. i \in Known(View(g)) /\ i \in Slots /\ gws[g][i].addr # NoGw
    BY <1>4 DEF Known
  <2>2. gws[g][i].addr \in Gws
    BY <2>1 DEF DiscoveryInv, DiscoveryTypeOK
  <2>3. role \in was[gws[g][i].addr]
    BY <1>4, <2>1 DEF InOrder
  <2>4. gws[g][i].addr # q
    BY <1>4, <2>1 DEF Knows, SlotsOf
  <2> QED BY <2>2, <2>3, <2>4
<1> HIDE DEF U
<1>6. \E x, y \in S : x # y /\ f[x] = f[y]
  <2> HIDE DEF f
  <2> QED BY <1>2, <1>3, <1>5, FS_PigeonHole
<1>7. PICK x \in S, y \in S : x # y /\ gws[g][x].addr = gws[g][y].addr
  BY <1>6
<1>8. x \in Known(View(g)) /\ y \in SlotsOf(View(g), gws[g][x].addr)
  BY <1>4, <1>7 DEF SlotsOf
<1> QED BY <1>4, <1>7, <1>8 DEF InOrder

\* Nothing is left to handle: the backup asked the border router, and was answered.
LEMMA Acquainted ==
  ASSUME DiscoveryInv, Lasting, OwedTold, Room
  PROVE  BackupsMeetRouters
<1> SUFFICES ASSUME stops = 0, Settled, NEW p \in owed
             PROVE  Knows(p[1], p[2]) /\ Knows(p[2], p[1])
  BY DEF BackupsMeetRouters
<1> DEFINE r == p[1]
           b == p[2]
           u == [to |-> b, flags |-> {"U"}, addr |-> r]
           a == [to |-> r, flags |-> {"Q"} \cup Roles(mode[b]), addr |-> b]
           c == [to |-> b, flags |-> {} \cup Roles(mode[r]), addr |-> r]
<1>1. r \in Gws /\ b \in Gws /\ "router" \in was[r] /\ "backup" \in was[b] /\ u \in net
  BY Parts DEF ControlOK, OwedTold
<1>2. /\ run[r] = "on" /\ was[r] = {"router"} /\ mode[r] = "router"
      /\ run[b] = "on" /\ was[b] = {"backup"} /\ mode[b] = "backup" /\ r # b
  BY <1>1 DEF Lasting
<1>3. Idle(r) /\ Idle(b)
  BY <1>1, <1>2 DEF Settled, Idle, NotBusy
<1> HIDE DEF r, b
<1>4. \A g \in Gws : InOrder(g, View(g)) /\ View(g).gws = gws[g] /\ View(g).net = net
  BY ViewsAreGood DEF Good, View
<1>5. a \in net
  <2>1. Quiet(u) /\ u.to = b /\ u.addr = r /\ u.flags = {"U"}
    BY <1>1 DEF Settled
  <2> HIDE DEF u
  <2>2. b = r \/ View(b).gws[0].addr = r \/ Announce(b, View(b), r, {"Q"}) = View(b)
    BY <1>3, <2>1 DEF Quiet
  <2>3. View(b).gws[0].addr # r
    <3>1. SUFFICES ASSUME View(b).gws[0].addr = r PROVE FALSE
      OBVIOUS
    <3>2. 0 \in Known(View(b))
      BY <1>1, <3>1, Numbers, DiscoveryAssumption DEF Known
    <3> QED BY <1>1, <1>2, <1>4, <3>1, <3>2 DEF InOrder, Place
  <2>4. Announce(b, View(b), r, {"Q"}).net = net \cup {a}
    BY DEF Announce, View
  <2> QED BY <1>1, <1>2, <1>4, <2>2, <2>3, <2>4
<1>6. /\ c \in net
      /\ 1 .. NBackup \subseteq Known(View(r)) \/ SlotsOf(View(r), b) # {}
  <2>1. Quiet(a) /\ a.to = r /\ a.addr = b /\ a.flags = {"Q", "S"}
    BY <1>2, <1>5 DEF Settled, Roles
  <2> HIDE DEF a
  <2>2. /\ Announce(r, View(r), b, {}) = View(r)
        /\ Places({"Q", "S"}) \subseteq Known(View(r)) \/ SlotsOf(View(r), b) # {}
    BY <1>3, <2>1 DEF Quiet
  <2>3. Announce(r, View(r), b, {}).net = net \cup {c}
    BY DEF Announce, View
  <2>4. Places({"Q", "S"}) = 1 .. NBackup
    BY DEF Places
  <2> QED BY <1>1, <1>4, <2>2, <2>3, <2>4
<1>7. Knows(r, b)
  <2> DEFINE T == {g \in Gws : "backup" \in was[g]}
             S == 1 .. NBackup
  <2>1. CASE S \subseteq Known(View(r))
    <3>1. IsFiniteSet(S) /\ Cardinality(S) = NBackup
      BY Numbers, FS_Interval
    <3>2. \A i \in S : Place(i) = "backup"
      BY Numbers DEF Place
    <3>3. b \in T /\ Cardinality(T) <= Cardinality(S)
      BY <1>1, <3>1 DEF Room
    <3> HIDE DEF S
    <3> QED BY <1>1, <2>1, <3>1, <3>2, <3>3, Crowd DEF Room
  <2>2. CASE SlotsOf(View(r), b) # {}
    BY <2>2 DEF Knows
  <2> QED BY <1>6, <2>1, <2>2
<1>8. Knows(b, r)
  <2> DEFINE T == {g \in Gws : "router" \in was[g]}
             S == NBackup + 1 .. NKnown - 1
  <2>1. Quiet(c) /\ c.to = b /\ c.addr = r /\ c.flags = {}
    BY <1>2, <1>6 DEF Settled, Roles
  <2>2. Places({}) = S
    BY DEF Places
  <2>3. S \subseteq Known(View(b)) \/ SlotsOf(View(b), r) # {}
    <3> HIDE DEF c
    <3> QED BY <1>3, <2>1, <2>2 DEF Quiet
  <2>4. CASE S \subseteq Known(View(b))
    <3>1. IsFiniteSet(S) /\ Cardinality(S) = NKnown - NBackup - 1
      BY Numbers, FS_Interval
    <3>2. \A i \in S : Place(i) = "router"
      BY Numbers DEF Place
    <3>3. r \in T /\ Cardinality(T) <= Cardinality(S)
      <4>1. IsFiniteSet(T)
        <5>1. T \in SUBSET Gws
          OBVIOUS
        <5> QED BY <5>1, FS_Subset DEF Room
      <4>2. Cardinality(T) \in Nat
        BY <4>1, FS_CardinalityType
      <4>3. Cardinality(T) < NKnown - NBackup
        BY DEF Room
      <4> QED BY <1>1, <3>1, <4>2, <4>3, Numbers
    <3> HIDE DEF S
    <3> QED BY <1>1, <2>4, <3>1, <3>2, <3>3, Crowd DEF Room
  <2>5. CASE SlotsOf(View(b), r) # {}
    BY <2>5 DEF Knows
  <2> QED BY <2>3, <2>4, <2>5
<1> QED BY <1>7, <1>8 DEF r, b

-----------------------------------------------------------------------------
(* The theorems *)

\* The table, the roles and what is on the network stay consistent with each other.
THEOREM DiscoverySafe == Spec => []DiscoveryInv
<1> QED BY InitSafe, StepSafe, PTL DEF Spec

\* Every variable keeps its type: slots and device numbers stay in range.
THEOREM DiscoveryTypeCorrect == Spec => []DiscoveryTypeOK
<1>1. DiscoveryInv => DiscoveryTypeOK
  BY DEF DiscoveryInv
<1> QED BY <1>1, DiscoverySafe, PTL

\* Nobody is known twice, knows itself, or sits in the slot of a role that it
\* never had (mob_new_gw, mob_lbr_evolve, mob_delete_gw).
THEOREM EveryoneInPlace == Spec => []SlotsInOrder
<1>1. DiscoveryInv => SlotsInOrder
  BY DEF DiscoveryInv
<1> QED BY <1>1, DiscoverySafe, PTL

\* The gateway of a binding of the only home agent is known (clean_routes,
\* mob_lbr_evolve).
THEOREM BindingsAreKnown == Spec => []BoundSlotKnown
<1>1. DiscoveryInv => BoundSlotKnown
  BY DEF DiscoveryInv
<1> QED BY <1>1, DiscoverySafe, PTL

\* As long as no process was killed and no gateway changed its mode, each has
\* the tunnels that its table asks for, and none when it is down.
THEOREM TunnelsSafe == Spec => [](DiscoveryInv /\ BusyPlace /\ TunnelInv)
<1> DEFINE I == DiscoveryInv /\ BusyPlace /\ TunnelInv
<1>1. Init => I
  BY InitSafe, InitTunnels
<1>2. I /\ [Next]_vars => I'
  BY StepSafe, StepTunnels
<1> QED BY <1>1, <1>2, PTL DEF Spec

\* The tunnel of a known gateway leads to it, and the traffic of the mesh to the
\* home agent (tunnel_create, create_reroute), however gateways come and go.
THEOREM TunnelsLeadHome == Spec => []TunnelsLead
<1>1. DiscoveryInv /\ TunnelInv => TunnelsLead
  <2> SUFFICES ASSUME DiscoveryInv, TunnelInv, NEW g \in Gws, run[g] = "on", neat[g], Steady
               PROVE  /\ mode[g] = "home" => \A i \in Taken(gws[g]) \ {busy[g].slot} :
                                               tunnel[g][gws[g][i].dev] = gws[g][i].addr
                      /\ (Upward(g) /\ 0 \in Taken(gws[g]) \ {busy[g].slot}) =>
                           reroute[g] # None /\ tunnel[g][reroute[g]] = gws[g][0].addr
    BY DEF TunnelsLead, Applies, Taken, Known, View, Steady
  <2>1. CASE mode[g] = "home"
    BY <2>1 DEF TunnelInv, TunnelsOf, HomeTunnels, Upward
  <2>2. CASE mode[g] # "home"
    <3>1. MeshTunnel(gws[g], tunnel[g], reroute[g], busy[g].slot)
      BY <2>2 DEF TunnelInv, TunnelsOf
    <3>2. gws[g][0].dev # None
      BY Numbers DEF DiscoveryInv, DiscoveryTypeOK
    <3> QED BY <2>2, <3>1, <3>2 DEF MeshTunnel
  <2> QED BY <2>1, <2>2
<1> QED BY <1>1, TunnelsSafe, PTL

\* Nothing is left in the kernel of a gateway that was stopped (down,
\* mob_close_tunnels).
THEOREM TunnelsAreClosed == Spec => []TunnelsClosed
<1>1. TunnelInv => TunnelsClosed
  BY DEF TunnelInv, TunnelsOf, TunnelsClosed, Clear, Steady
<1> QED BY <1>1, TunnelsSafe, PTL

\* Once every announcement has been handled, a backup and the border routers that
\* the home agent knew before it know each other (mob_new_gw, mob_send_lbr), as
\* long as no gateway stops and the tables have room for all of them.
THEOREM BackupsKnowRouters == Spec => [](Room => BackupsMeetRouters)
<1> DEFINE I == DiscoveryInv /\ Lasting /\ OwedTold
<1>1. Init => I
  BY InitSafe DEF Init, Lasting, OwedTold
<1>2. I /\ [Next]_vars => I'
  BY StepSafe, StepMeets
<1>3. I => (Room => BackupsMeetRouters)
  BY Acquainted
<1> QED BY <1>1, <1>2, <1>3, PTL DEF Spec
=============================================================================
