--------------------------- MODULE HomeAgentProofs ---------------------------
(***************************************************************************)
(* What HomeAgent's runs show on small instances, for every number of      *)
(* slots, motes and border routers.  Every handler maps a store to a       *)
(* store; StoreOK is kept by each of the operators they are made of, and   *)
(* the handlers follow.  Three things are walked: the messages of an       *)
(* update, the list by the cleaner, and the list by the property that says *)
(* what it holds; each walk is a sequence of sets of what it may leave.    *)
(***************************************************************************)
EXTENDS HomeAgent, OutListProofs, Lemmas

Devices == Gws \cup {NoGw, "tty"}

Entries == [used : BOOLEAN, addr : scope.nodes \cup {Self},
            from : {"INTERNAL", "DAO", "6LBR"}, gw : Gws \cup {NoGw},
            start : 0 .. now, interval : {0, DaoTimeout, Lifetime}]

\* Only the INTERNAL route is not a mote's, and everything a mote's route was
\* learned from has a time stamp.
RoleOK(e) ==
  /\ e.addr = Self <=> e.from = "INTERNAL"
  /\ e.from = "6LBR" => e.gw \in Gws
  /\ e.from # "INTERNAL" => e.start >= 1

TableOK(r) ==
  /\ r \in [Slots -> Entries]
  /\ \A s \in Slots : RoleOK(r[s])
  /\ \A s, t \in Slots : r[s].used /\ r[t].used /\ r[s].addr = r[t].addr => s = t

LocalOf(r) == {s \in Slots : r[s].used /\ r[s].from = "DAO"}

\* The list is threaded through the local routes, in some order.
Threaded(r, o) == \E ord \in [Slots -> Nat] : Sorted(o, LocalOf(r), ord)

\* The route of slot s leads to node n through device d.
Leads(r, s, n, d) ==
  /\ r[s].used /\ r[s].addr = n
  /\ \/ r[s].from = "DAO" /\ d = "tty"
     \/ r[s].from = "6LBR" /\ d = r[s].gw /\ scope.apply

\* The kernel's routes are those of the table; a backup's may be fewer.
Follows(r, k) ==
  \A n \in scope.nodes, d \in Devices :
    /\ <<n, d>> \in k => \E s \in Slots : Leads(r, s, n, d)
    /\ scope.apply => \A s \in Slots : Leads(r, s, n, d) => <<n, d>> \in k

\* Every node finds a slot.
Room == NB > Cardinality(Nodes)

\* One mote, which then only ever has the last slot but one.
Lonely == Room /\ \E n \in scope.nodes : scope.nodes = {n}

\* Its slot is the whole list, or off it, with links that are the same.
AloneOn(L, s)  == L.prev[s] = LIST_END /\ L.next[s] = LIST_END /\ L.min = s /\ L.max = s
AloneOff(L, s) == L.prev[s] = L.next[s] /\ L.min = LIST_END /\ L.max = LIST_END

Tied(r, o) == IF NB - 2 \in LocalOf(r) THEN AloneOn(o, NB - 2) ELSE AloneOff(o, NB - 2)

OneSlot(r, o) ==
  /\ r[NB - 1].used
  /\ \A s \in Slots : s # NB - 2 => r[s].addr = Self /\ (r[s].used => s = NB - 1)
  /\ Tied(r, o)

Stores == [rt : [Slots -> Entries], out : SettledLists,
           kernel : SUBSET (scope.nodes \X Devices), intact : BOOLEAN]

StoreOK(S) ==
  /\ S \in Stores
  /\ TableOK(S.rt)
  /\ S.intact => Threaded(S.rt, S.out)
  /\ Lonely => OneSlot(S.rt, S.out)
  /\ Room /\ (S.intact \/ Lonely) => Follows(S.rt, S.kernel)

Env == scope \in Scopes /\ now \in Nat \ {0}

-----------------------------------------------------------------------------
(* Constants, slots *)

LEMMA EnvIs ==
  ASSUME Env
  PROVE  /\ scope.nodes \subseteq Nodes /\ IsFiniteSet(scope.nodes) /\ Self \notin scope.nodes
         /\ scope.gws \subseteq Gws /\ scope.apply \in BOOLEAN
         /\ NoGw \notin Gws /\ "tty" \notin Gws /\ NoGw # "tty"
         /\ scope.end \in Nat /\ now \in Nat /\ now >= 1
<1>1. scope \in [nodes : SUBSET Nodes, gws : SUBSET Gws, apply : BOOLEAN,
                 end : Nat \ {0}, updates : Nat]
  BY HomeAgentAssumption DEF Env
<1>2. IsFiniteSet(scope.nodes)
  BY <1>1, HomeAgentAssumption, FS_Subset
<1> QED BY <1>1, <1>2, HomeAgentAssumption DEF Env

LEMMA TimesAre ==
  /\ Lifetime \in Nat /\ DaoTimeout \in Nat /\ 0 < DaoTimeout /\ DaoTimeout < Lifetime
  BY HomeAgentAssumption

LEMMA SlotsAre ==
  /\ Slots \subseteq Nat /\ NB \in Nat /\ NB >= 1 /\ NB - 1 \in Slots
  /\ \A s \in Slots : s <= NB - 1 /\ s # NoSlot
  BY NBAssumption DEF Slots, NoSlot

\* The slot that is handed out is free if one is, and else lapsed.
LEMMA SlotIs ==
  ASSUME NEW S
  PROVE  /\ Slot(S) \in Slots \cup {NoSlot}
         /\ Free(S) # {} => Slot(S) \in Free(S) /\ \A t \in Free(S) : t <= Slot(S)
         /\ Slot(S) # NoSlot => Slot(S) \in Free(S) \/ Slot(S) \in Lapsed(S)
<1>1. Free(S) \subseteq Slots /\ Lapsed(S) \subseteq Slots
  BY DEF Free, Lapsed
<1>2. CASE Free(S) # {}
  <2>0. \A k \in Slots : k <= NB
    BY NBAssumption DEF Slots
  <2>1. Free(S) \in SUBSET Nat /\ NB \in Nat /\ \A k \in Free(S) : k <= NB
    BY <1>1, <2>0, SlotsAre
  <2>2. \E s \in Free(S) : \A t \in Free(S) : t <= s
    BY <1>2, <2>1, GreatestNatural
  <2> DEFINE c == CHOOSE s \in Free(S) : \A t \in Free(S) : t <= s
  <2>3. c \in Free(S) /\ \A t \in Free(S) : t <= c
    BY <2>2
  <2>4. Slot(S) = c
    BY <1>2 DEF Slot
  <2> HIDE DEF c
  <2> QED BY <1>1, <2>3, <2>4
<1>3. CASE Free(S) = {} /\ Lapsed(S) # {}
  <2>1. Lapsed(S) \in SUBSET Nat
    BY <1>1, SlotsAre
  <2>2. \E s \in Lapsed(S) : \A t \in Lapsed(S) : s <= t
    BY <1>3, <2>1, LeastNatural
  <2> DEFINE c == CHOOSE s \in Lapsed(S) : \A t \in Lapsed(S) : s <= t
  <2>3. c \in Lapsed(S)
    BY <2>2
  <2>4. Slot(S) = c
    BY <1>3 DEF Slot
  <2> HIDE DEF c
  <2> QED BY <1>1, <1>3, <2>3, <2>4
<1>4. CASE Free(S) = {} /\ Lapsed(S) = {}
  BY <1>4 DEF Slot
<1> QED BY <1>2, <1>3, <1>4

\* Where every node finds a slot, one without a route finds a free one.
LEMMA RoomFree ==
  ASSUME Env, Room, NEW S, TableOK(S.rt), NEW n \in scope.nodes, SlotsOf(S, n) = {}
  PROVE  Free(S) # {}
<1> SUFFICES ASSUME Free(S) = {} PROVE FALSE
  OBVIOUS
<1> DEFINE T == (Nodes \ {n}) \cup {Self}
           f == [s \in Slots |-> S.rt[s].addr]
<1>1. /\ scope.nodes \subseteq Nodes /\ IsFiniteSet(Nodes) /\ Self \notin Nodes /\ n \in Nodes
  BY EnvIs, HomeAgentAssumption
<1>2. \A s \in Slots : S.rt[s] \in Entries /\ S.rt[s].used /\ S.rt[s].addr # n
  BY DEF TableOK, Free, SlotsOf
<1>3. f \in [Slots -> T]
  BY <1>1, <1>2 DEF Entries
<1>4. \A s, t \in Slots : f[s] = f[t] => s = t
  BY <1>2 DEF TableOK
<1>5. IsFiniteSet(Nodes \ {n}) /\ Cardinality(Nodes \ {n}) = Cardinality(Nodes) - 1
  BY <1>1, FS_RemoveElement
<1>6. IsFiniteSet(T) /\ Cardinality(T) = Cardinality(Nodes)
  <2>1. Self \notin Nodes \ {n}
    BY <1>1
  <2>2. IsFiniteSet(T) /\ Cardinality(T) = Cardinality(Nodes \ {n}) + 1
    BY <1>5, <2>1, FS_AddElement
  <2>3. Cardinality(Nodes) \in Nat
    BY <1>1, FS_CardinalityType
  <2> QED BY <1>5, <2>2, <2>3
<1>7. IsFiniteSet(Slots) /\ Cardinality(Slots) = NB
  <2>1. IsFiniteSet(0 .. NB - 1) /\ Cardinality(0 .. NB - 1) = IF 0 > NB - 1 THEN 0 ELSE NB - 1 - 0 + 1
    BY NBAssumption, FS_Interval
  <2> QED BY <2>1, NBAssumption DEF Slots
<1> HIDE DEF f, T
<1> QED BY <1>3, <1>4, <1>6, <1>7, FS_PigeonHole DEF Room

-----------------------------------------------------------------------------
(* One slot changes *)

LEMMA EntrySet ==
  ASSUME NEW r, TableOK(r), NEW s \in Slots, NEW e \in Entries, RoleOK(e),
         e.used => \A t \in Slots \ {s} : ~(r[t].used /\ r[t].addr = e.addr)
  PROVE  TableOK([r EXCEPT ![s] = e])
<1> DEFINE q == [r EXCEPT ![s] = e]
<1>1. q \in [Slots -> Entries] /\ q[s] = e /\ \A t \in Slots \ {s} : q[t] = r[t]
  BY DEF TableOK
<1> HIDE DEF q
<1>2. \A t \in Slots : RoleOK(q[t])
  BY <1>1 DEF TableOK
<1>3. ASSUME NEW t \in Slots, NEW u \in Slots, q[t].used, q[u].used, q[t].addr = q[u].addr
      PROVE t = u
  <2>1. CASE t = s
    BY <2>1, <1>1, <1>3
  <2>2. CASE u = s
    BY <2>2, <1>1, <1>3
  <2>3. CASE t # s /\ u # s
    BY <2>3, <1>1, <1>3 DEF TableOK
  <2> QED BY <2>1, <2>2, <2>3
<1>4. TableOK(q)
  BY <1>1, <1>2, <1>3 DEF TableOK
<1> QED BY <1>4 DEF q

LEMMA LocalSet ==
  ASSUME NEW r \in [Slots -> Entries], NEW s \in Slots, NEW e
  PROVE  LocalOf([r EXCEPT ![s] = e]) =
           IF e.used /\ e.from = "DAO" THEN LocalOf(r) \cup {s} ELSE LocalOf(r) \ {s}
  BY DEF LocalOf

\* The routes of one node change, with its slot.
LEMMA KernelSet ==
  ASSUME NEW r, TableOK(r), NEW k, Follows(r, k),
         NEW s \in Slots, NEW n \in scope.nodes, NEW e \in Entries, NEW k2,
         r[s].used => r[s].addr = n,
         e.used => e.addr = n,
         \A t \in Slots \ {s} : ~(r[t].used /\ r[t].addr = n),
         \A p \in scope.nodes \ {n}, d \in Devices : <<p, d>> \in k2 <=> <<p, d>> \in k,
         \A d \in Devices :
           /\ <<n, d>> \in k2 => Leads([r EXCEPT ![s] = e], s, n, d)
           /\ scope.apply => (Leads([r EXCEPT ![s] = e], s, n, d) => <<n, d>> \in k2)
  PROVE  Follows([r EXCEPT ![s] = e], k2)
<1> DEFINE q == [r EXCEPT ![s] = e]
<1>1. q[s] = e /\ \A t \in Slots \ {s} : q[t] = r[t]
  BY DEF TableOK
<1> HIDE DEF q
<1>2. ASSUME NEW p \in scope.nodes, NEW d \in Devices
      PROVE /\ <<p, d>> \in k2 => \E t \in Slots : Leads(q, t, p, d)
            /\ scope.apply => \A t \in Slots : Leads(q, t, p, d) => <<p, d>> \in k2
  <2>1. CASE p = n
    <3>1. \A t \in Slots \ {s} : ~Leads(q, t, p, d)
      BY <2>1, <1>1 DEF Leads
    <3>2. /\ <<n, d>> \in k2 => Leads(q, s, n, d)
          /\ scope.apply => (Leads(q, s, n, d) => <<n, d>> \in k2)
      BY DEF q
    <3> QED BY <2>1, <3>1, <3>2
  <2>2. CASE p # n
    <3>1. <<p, d>> \in k2 <=> <<p, d>> \in k
      BY <2>2
    <3>2. \A t \in Slots \ {s} : Leads(q, t, p, d) <=> Leads(r, t, p, d)
      BY <1>1 DEF Leads
    <3>3. ~Leads(q, s, p, d) /\ ~Leads(r, s, p, d)
      BY <2>2, <1>1 DEF Leads
    <3>4. /\ <<p, d>> \in k => \E t \in Slots : Leads(r, t, p, d)
          /\ scope.apply => \A t \in Slots : Leads(r, t, p, d) => <<p, d>> \in k
      BY DEF Follows
    <3> QED BY <3>1, <3>2, <3>3, <3>4
  <2> QED BY <2>1, <2>2
<1>3. Follows(q, k2)
  BY <1>2 DEF Follows
<1> QED BY <1>3 DEF q

-----------------------------------------------------------------------------
(* What the operators return *)

\* A store with these fields.
Is(T, r, o, k, i) ==
  T \in Stores /\ T.rt = r /\ T.out = o /\ T.kernel = k /\ (T.intact <=> i)

LEMMA StoreFields ==
  ASSUME NEW S \in Stores
  PROVE  /\ S.rt \in [Slots -> Entries] /\ \A s \in Slots : S.rt[s] \in Entries
         /\ S.out \in SettledLists /\ S.out \in Lists
         /\ S.kernel \subseteq scope.nodes \X Devices /\ S.intact \in BOOLEAN
<1>1. S.out \in SettledLists => S.out \in Lists
  BY DEF SettledLists, Lists, Links, Ends
<1> QED BY <1>1 DEF Stores

LEMMA LostIs ==
  ASSUME NEW S \in Stores, NEW s \in Slots
  PROVE  Is(LostNode(S, s), S.rt, ListRemove(S.out, s),
            S.kernel \ {<<S.rt[s].addr, "tty">>}, S.intact)
<1> DEFINE k == S.kernel \ {<<S.rt[s].addr, "tty">>}
           U == [S EXCEPT !.kernel = k]
<1>1. U \in Stores /\ U.rt = S.rt /\ U.out = S.out /\ U.kernel = k /\ (U.intact <=> S.intact)
  BY DEF Stores
<1>2. LostNode(S, s) = [U EXCEPT !.out = ListRemove(@, s)]
  BY DEF LostNode, change_local_route
<1> HIDE DEF U
<1>3. ListRemove(U.out, s) \in SettledLists
  BY <1>1, StoreFields, SettledClosed
<1> QED BY <1>1, <1>2, <1>3 DEF Is, Stores

Unused(e) == [e EXCEPT !.used = FALSE]

LEMMA RmIs ==
  ASSUME NEW S \in Stores, NEW s \in Slots
  PROVE  Is(RouteRm(S, s), [S.rt EXCEPT ![s] = Unused(@)], S.out, S.kernel, S.intact)
<1>1. S.rt[s] \in Entries
  BY StoreFields
<1>2. Unused(S.rt[s]) \in Entries
  BY <1>1 DEF Unused, Entries
<1>3. RouteRm(S, s) = [S EXCEPT !.rt = [S.rt EXCEPT ![s] = Unused(@)]]
  BY <1>1 DEF RouteRm, Unused, Stores
<1> QED BY <1>2, <1>3 DEF Is, Stores

\* A route through a gateway's tunnel, as change_route leaves it.
LEMMA ChangeIs ==
  ASSUME NEW S \in Stores, NEW n, NEW g, NEW add \in BOOLEAN,
         add => <<n, g>> \in scope.nodes \X Devices
  PROVE  Is(change_route(S, n, add, g), S.rt, S.out,
            IF ~scope.apply THEN S.kernel
            ELSE IF add THEN S.kernel \cup {<<n, g>>} ELSE S.kernel \ {<<n, g>>},
            S.intact)
<1>1. CASE ~scope.apply
  BY <1>1 DEF change_route, Is
<1>2. CASE scope.apply
  <2> DEFINE k == IF add THEN S.kernel \cup {<<n, g>>} ELSE S.kernel \ {<<n, g>>}
  <2>1. k \in SUBSET (scope.nodes \X Devices)
    BY StoreFields
  <2>2. change_route(S, n, add, g) = [S EXCEPT !.kernel = k]
    BY <1>2 DEF change_route
  <2> HIDE DEF k
  <2>3. Is([S EXCEPT !.kernel = k], S.rt, S.out, k, S.intact)
    BY <2>1 DEF Is, Stores
  <2> QED BY <1>2, <2>2, <2>3 DEF k
<1> QED BY <1>1, <1>2

NewEntry(n) == [used |-> TRUE, addr |-> n, from |-> "INTERNAL", gw |-> NoGw,
                start |-> 0, interval |-> 0]

Zeroed(L, s) == [L EXCEPT !.prev[s] = 0, !.next[s] = 0]

LEMMA ZeroedIs ==
  ASSUME NEW L \in SettledLists, NEW s \in Slots
  PROVE  /\ Zeroed(L, s) \in SettledLists
         /\ Zeroed(L, s).min = L.min /\ Zeroed(L, s).max = L.max
         /\ Zeroed(L, s).prev = [L.prev EXCEPT ![s] = 0]
         /\ Zeroed(L, s).next = [L.next EXCEPT ![s] = 0]
<1>1. 0 \in Ends
  BY NBAssumption DEF Ends, Slots
<1> QED BY <1>1 DEF Zeroed, SettledLists

LEMMA AddIs ==
  ASSUME Env, NEW S \in Stores, NEW s \in Slots, NEW n \in scope.nodes
  PROVE  Is(RouteAdd(S, s, n), [S.rt EXCEPT ![s] = NewEntry(n)], Zeroed(S.out, s), S.kernel,
            S.intact /\ ~(S.rt[s].used /\ S.rt[s].from = "DAO"))
<1> DEFINE i == S.intact /\ ~(S.rt[s].used /\ S.rt[s].from = "DAO")
           r == [S.rt EXCEPT ![s] = NewEntry(n)]
           o == Zeroed(S.out, s)
<1>1. NewEntry(n) \in Entries
  BY EnvIs DEF NewEntry, Entries
<1>2. r \in [Slots -> Entries] /\ o \in SettledLists /\ i \in BOOLEAN
  BY <1>1, StoreFields, ZeroedIs
<1>3. RouteAdd(S, s, n) = [S EXCEPT !.rt = r, !.out = o, !.intact = i]
  BY DEF RouteAdd, NewEntry, Zeroed, Stores
<1> HIDE DEF r, o, i
<1>4. Is([S EXCEPT !.rt = r, !.out = o, !.intact = i], r, o, S.kernel, i)
  BY <1>2 DEF Is, Stores
<1> QED BY <1>3, <1>4 DEF r, o, i

\* The slot of a binding, after mob_add_nio.
BoundTo(e, g, stamp) == [e EXCEPT !.from = "6LBR", !.gw = g, !.start = stamp]

LEMMA BoundIs ==
  ASSUME NEW e \in Entries, NEW g \in Gws, NEW stamp \in 1 .. now
  PROVE  /\ BoundTo(e, g, stamp) \in Entries
         /\ (BoundTo(e, g, stamp).used <=> e.used) /\ BoundTo(e, g, stamp).addr = e.addr
         /\ BoundTo(e, g, stamp).from = "6LBR" /\ BoundTo(e, g, stamp).gw = g
         /\ BoundTo(e, g, stamp).start = stamp /\ BoundTo(e, g, stamp).interval = e.interval
<1>1. stamp \in 0 .. now
  OBVIOUS
<1>2. BoundTo(e, g, stamp) \in Entries
  BY <1>1 DEF BoundTo, Entries
<1>3. BoundTo(e, g, stamp).used <=> e.used
  BY DEF BoundTo, Entries
<1>4. /\ BoundTo(e, g, stamp).addr = e.addr
      /\ BoundTo(e, g, stamp).from = "6LBR" /\ BoundTo(e, g, stamp).gw = g
      /\ BoundTo(e, g, stamp).start = stamp /\ BoundTo(e, g, stamp).interval = e.interval
  BY DEF BoundTo, Entries
<1> QED BY <1>2, <1>3, <1>4

\* The three fields that mob_add_nio sets last.
SetBound(S, s, g, stamp) ==
  [S EXCEPT !.rt[s].from = "6LBR", !.rt[s].gw = g, !.rt[s].start = stamp]

LEMMA SetBoundIs ==
  ASSUME NEW S \in Stores, NEW s \in Slots, NEW g \in Gws, NEW stamp \in 1 .. now
  PROVE  Is(SetBound(S, s, g, stamp),
            [S.rt EXCEPT ![s] = BoundTo(@, g, stamp)], S.out, S.kernel, S.intact)
<1> DEFINE r == [S.rt EXCEPT ![s] = BoundTo(@, g, stamp)]
           T == SetBound(S, s, g, stamp)
<1>1. S.rt[s] \in Entries
  BY StoreFields
<1>2. BoundTo(S.rt[s], g, stamp) \in Entries
  BY <1>1, BoundIs
<1>3. r \in [Slots -> Entries]
  BY <1>2, StoreFields
<1>4. T = [S EXCEPT !.rt = r]
  BY <1>1 DEF SetBound, BoundTo, Stores
<1> HIDE DEF r, T
<1>5. Is([S EXCEPT !.rt = r], r, S.out, S.kernel, S.intact)
  BY <1>3 DEF Is, Stores
<1> QED BY <1>4, <1>5 DEF r, T

LEMMA BindIs ==
  ASSUME Env, NEW S \in Stores, NEW n \in scope.nodes, NEW g \in Gws, NEW stamp \in 1 .. now,
         NEW s \in Slots, s = Slot(S)
  PROVE  Is(Bind(S, n, g, stamp), [S.rt EXCEPT ![s] = BoundTo(NewEntry(n), g, stamp)],
            Zeroed(S.out, s),
            IF scope.apply THEN S.kernel \cup {<<n, g>>} ELSE S.kernel,
            S.intact /\ ~(S.rt[s].used /\ S.rt[s].from = "DAO"))
<1> DEFINE T == change_route(S, n, TRUE, g)
           A == RouteAdd(T, s, n)
           k == IF scope.apply THEN S.kernel \cup {<<n, g>>} ELSE S.kernel
           i == S.intact /\ ~(S.rt[s].used /\ S.rt[s].from = "DAO")
<1>1. <<n, g>> \in scope.nodes \X Devices
  BY DEF Devices
<1>2. Is(T, S.rt, S.out, k, S.intact)
  BY <1>1, ChangeIs
<1>3. s # NoSlot
  BY SlotsAre
<1>4. Bind(S, n, g, stamp) = SetBound(A, s, g, stamp)
  BY <1>3 DEF Bind, SetBound
<1> HIDE DEF T
<1>5. Is(A, [S.rt EXCEPT ![s] = NewEntry(n)], Zeroed(S.out, s), k, i)
  BY <1>2, AddIs DEF Is
<1> HIDE DEF A, k, i
<1>9. A \in Stores
  BY <1>5 DEF Is
<1>6. Is(Bind(S, n, g, stamp), [A.rt EXCEPT ![s] = BoundTo(@, g, stamp)], A.out, A.kernel, A.intact)
  BY <1>4, <1>9, SetBoundIs
<1>7. [A.rt EXCEPT ![s] = BoundTo(@, g, stamp)] = [S.rt EXCEPT ![s] = BoundTo(NewEntry(n), g, stamp)]
  BY <1>5, StoreFields DEF Is
<1>8. Is(Bind(S, n, g, stamp), [S.rt EXCEPT ![s] = BoundTo(NewEntry(n), g, stamp)],
         Zeroed(S.out, s), k, i)
  BY <1>5, <1>6, <1>7 DEF Is
<1> QED BY <1>8 DEF k, i

LEMMA RebindIs ==
  ASSUME Env, NEW S \in Stores, NEW s \in Slots, NEW n \in scope.nodes, S.rt[s].addr = n,
         NEW g \in Gws, NEW stamp \in 1 .. now
  PROVE  Is(Rebind(S, s, n, g, stamp), [S.rt EXCEPT ![s] = BoundTo(@, g, stamp)],
            IF S.rt[s].from = "6LBR" THEN S.out ELSE ListRemove(S.out, s),
            LET k == IF S.rt[s].from # "6LBR" THEN S.kernel \ {<<n, "tty">>}
                     ELSE IF scope.apply THEN S.kernel \ {<<n, S.rt[s].gw>>}
                     ELSE S.kernel
            IN IF scope.apply THEN k \cup {<<n, g>>} ELSE k,
            S.intact)
<1> DEFINE T == IF S.rt[s].from = "6LBR" THEN change_route(S, n, FALSE, S.rt[s].gw)
                ELSE LostNode(S, s)
           U == change_route(T, n, TRUE, g)
           k == IF S.rt[s].from # "6LBR" THEN S.kernel \ {<<n, "tty">>}
                ELSE IF scope.apply THEN S.kernel \ {<<n, S.rt[s].gw>>}
                ELSE S.kernel
           o == IF S.rt[s].from = "6LBR" THEN S.out ELSE ListRemove(S.out, s)
           q == IF scope.apply THEN k \cup {<<n, g>>} ELSE k
<1>1. Is(T, S.rt, o, k, S.intact)
  <2>1. CASE S.rt[s].from = "6LBR"
    <3>1. Is(change_route(S, n, FALSE, S.rt[s].gw), S.rt, S.out,
             IF ~scope.apply THEN S.kernel ELSE S.kernel \ {<<n, S.rt[s].gw>>}, S.intact)
      BY ChangeIs
    <3> QED BY <2>1, <3>1 DEF Is
  <2>2. CASE S.rt[s].from # "6LBR"
    BY <2>2, LostIs DEF Is
  <2> QED BY <2>1, <2>2
<1>2. <<n, g>> \in scope.nodes \X Devices
  BY DEF Devices
<1>5. Rebind(S, s, n, g, stamp) = SetBound(U, s, g, stamp)
  BY DEF Rebind, SetBound
<1> HIDE DEF T, k, o
<1>4. Is(U, S.rt, o, q, S.intact)
  <2>2. T \in Stores
    BY <1>1 DEF Is
  <2>3. Is(U, T.rt, T.out, IF ~scope.apply THEN T.kernel
                           ELSE IF TRUE THEN T.kernel \cup {<<n, g>>} ELSE T.kernel \ {<<n, g>>},
           T.intact)
    BY <2>2, <1>2, ChangeIs
  <2>1. Is(U, T.rt, T.out, IF ~scope.apply THEN T.kernel ELSE T.kernel \cup {<<n, g>>}, T.intact)
    BY <2>3
  <2> QED BY <1>1, <2>1 DEF Is
<1> HIDE DEF U, q
<1>8. U \in Stores
  BY <1>4 DEF Is
<1>6. Is(Rebind(S, s, n, g, stamp), [U.rt EXCEPT ![s] = BoundTo(@, g, stamp)], U.out, U.kernel, U.intact)
  BY <1>5, <1>8, SetBoundIs
<1>7. Is(Rebind(S, s, n, g, stamp), [S.rt EXCEPT ![s] = BoundTo(@, g, stamp)], o, q, S.intact)
  BY <1>4, <1>6 DEF Is
<1> QED BY <1>7 DEF k, o, q

\* A route to a mote of the own mesh, as mob_maj_node leaves it.
LocalNow(e) == [e EXCEPT !.from = "DAO", !.start = now, !.interval = Lifetime]

LEMMA LocalIs ==
  ASSUME Env, NEW e \in Entries
  PROVE  /\ LocalNow(e) \in Entries
         /\ LocalNow(e).used <=> e.used
         /\ LocalNow(e).addr = e.addr /\ LocalNow(e).from = "DAO" /\ LocalNow(e).gw = e.gw
         /\ LocalNow(e).start = now /\ LocalNow(e).interval = Lifetime
<1>1. now \in 0 .. now
  BY EnvIs
<1>2. LocalNow(e) \in Entries
  BY <1>1 DEF LocalNow, Entries
<1>3. LocalNow(e).used <=> e.used
  BY DEF LocalNow, Entries
<1>4. /\ LocalNow(e).addr = e.addr /\ LocalNow(e).from = "DAO" /\ LocalNow(e).gw = e.gw
      /\ LocalNow(e).start = now /\ LocalNow(e).interval = Lifetime
  BY DEF LocalNow, Entries
<1> QED BY <1>2, <1>3, <1>4

WithList(S, o) == [S EXCEPT !.out = o]

LEMMA MajOn ==
  ASSUME Env, NEW S \in Stores, NEW s \in Slots, NEW o, ListMaj(o, s) \in SettledLists
  PROVE  Is(Maj(WithList(S, o), s), [S.rt EXCEPT ![s] = LocalNow(@)], ListMaj(o, s),
            S.kernel, S.intact /\ S.rt[s].from # "6LBR")
<1> DEFINE r == [S.rt EXCEPT ![s] = LocalNow(@)]
           i == S.intact /\ S.rt[s].from # "6LBR"
           x == ListMaj(o, s)
<1>1. S.rt[s] \in Entries
  BY StoreFields
<1>2. LocalNow(S.rt[s]) \in Entries
  BY <1>1, LocalIs
<1>3. r \in [Slots -> Entries] /\ i \in BOOLEAN
  BY <1>2, StoreFields
<1>4. Maj(WithList(S, o), s) = [S EXCEPT !.rt = r, !.out = x, !.intact = i]
  <2> DEFINE W == WithList(S, o)
             K == SUBSET (scope.nodes \X Devices)
             q == [S.rt EXCEPT ![s].from = "DAO", ![s].start = now, ![s].interval = Lifetime]
  <2>0. W \in [rt : [Slots -> Entries], out : {o}, kernel : K, intact : BOOLEAN]
    BY DEF WithList, Stores
  <2>1. W.rt = S.rt /\ W.out = o /\ (W.intact <=> S.intact)
    BY DEF WithList, Stores
  <2>2. q = r
    BY <1>1, StoreFields DEF LocalNow
  <2> HIDE DEF W, K
  <2>6. [W EXCEPT !.rt[s].from = "DAO", !.rt[s].start = now, !.rt[s].interval = Lifetime]
          = [W EXCEPT !.rt = q]
    BY <2>0, <2>1, <1>1
  <2>3. Maj(W, s) = [W EXCEPT !.rt = q, !.out = x, !.intact = (W.intact /\ W.rt[s].from # "6LBR")]
    <3>1. Maj(W, s) =
            [[W EXCEPT !.rt[s].from = "DAO", !.rt[s].start = now, !.rt[s].interval = Lifetime]
               EXCEPT !.out = ListMaj(@, s), !.intact = @ /\ W.rt[s].from # "6LBR"]
      BY DEF Maj
    <3> HIDE DEF q
    <3> QED BY <2>0, <2>1, <2>6, <3>1
  <2> HIDE DEF q
  <2>4. Maj(W, s) = [W EXCEPT !.rt = r, !.out = x, !.intact = i]
    BY <2>1, <2>2, <2>3
  <2>5. [W EXCEPT !.rt = r, !.out = x, !.intact = i] = [S EXCEPT !.rt = r, !.out = x, !.intact = i]
    BY DEF W, WithList, Stores
  <2> QED BY <2>4, <2>5 DEF W
<1> HIDE DEF r, i, x
<1>5. x \in SettledLists
  BY DEF x
<1>6. Is([S EXCEPT !.rt = r, !.out = x, !.intact = i], r, x, S.kernel, i)
  BY <1>3, <1>5 DEF Is, Stores
<1> QED BY <1>4, <1>6 DEF r, i, x

LEMMA MajIs ==
  ASSUME Env, NEW S \in Stores, NEW s \in Slots
  PROVE  Is(Maj(S, s), [S.rt EXCEPT ![s] = LocalNow(@)], ListMaj(S.out, s),
            S.kernel, S.intact /\ S.rt[s].from # "6LBR")
<1>1. S = WithList(S, S.out)
  BY DEF WithList, Stores
<1>2. ListMaj(S.out, s) \in SettledLists
  BY StoreFields, SettledClosed
<1>3. Is(Maj(WithList(S, S.out), s), [S.rt EXCEPT ![s] = LocalNow(@)], ListMaj(S.out, s),
         S.kernel, S.intact /\ S.rt[s].from # "6LBR")
  BY <1>2, MajOn
<1> QED BY <1>1, <1>3

LEMMA LocalRouteIs ==
  ASSUME NEW S \in Stores, NEW n \in scope.nodes
  PROVE  Is(change_local_route(S, n, TRUE), S.rt, S.out, S.kernel \cup {<<n, "tty">>}, S.intact)
<1> DEFINE k == S.kernel \cup {<<n, "tty">>}
<1>1. k \in SUBSET (scope.nodes \X Devices)
  BY StoreFields DEF Devices
<1>2. change_local_route(S, n, TRUE) = [S EXCEPT !.kernel = k]
  BY DEF change_local_route
<1> HIDE DEF k
<1>3. Is([S EXCEPT !.kernel = k], S.rt, S.out, k, S.intact)
  BY <1>1 DEF Is, Stores
<1> QED BY <1>2, <1>3 DEF k

\* A new node of the mesh.
LEMMA EnterIs ==
  ASSUME Env, NEW S \in Stores, NEW s \in Slots, NEW n \in scope.nodes
  PROVE  Is(Maj(Enter(S, s, n), s), [S.rt EXCEPT ![s] = LocalNow(NewEntry(n))],
            ListMaj(ListInit(Zeroed(S.out, s), s), s), S.kernel \cup {<<n, "tty">>},
            S.intact /\ ~(S.rt[s].used /\ S.rt[s].from = "DAO"))
<1> DEFINE A == RouteAdd(S, s, n)
           T == change_local_route(A, n, TRUE)
           i == S.intact /\ ~(S.rt[s].used /\ S.rt[s].from = "DAO")
           o == ListInit(Zeroed(S.out, s), s)
           k == S.kernel \cup {<<n, "tty">>}
<1>1. Is(A, [S.rt EXCEPT ![s] = NewEntry(n)], Zeroed(S.out, s), S.kernel, i)
  BY AddIs
<1>2. A \in Stores
  BY <1>1 DEF Is
<1>3. ListMaj(o, s) \in SettledLists
  BY StoreFields, ZeroedIs, SettledClosed
<1>4. Enter(S, s, n) = WithList(T, ListInit(T.out, s))
  BY DEF Enter, WithList
<1> HIDE DEF A, i
<1>5. Is(T, A.rt, A.out, A.kernel \cup {<<n, "tty">>}, A.intact)
  BY <1>2, LocalRouteIs
<1> HIDE DEF T
<1>6. T \in Stores /\ Enter(S, s, n) = WithList(T, o) /\ T.rt = [S.rt EXCEPT ![s] = NewEntry(n)]
      /\ T.kernel = k /\ (T.intact <=> i)
  BY <1>1, <1>4, <1>5 DEF Is
<1> HIDE DEF o, k
<1>7. Is(Maj(WithList(T, o), s), [T.rt EXCEPT ![s] = LocalNow(@)], ListMaj(o, s),
         T.kernel, T.intact /\ T.rt[s].from # "6LBR")
  BY <1>3, <1>6, MajOn
<1>8. T.rt[s].from # "6LBR" /\ [T.rt EXCEPT ![s] = LocalNow(@)] = [S.rt EXCEPT ![s] = LocalNow(NewEntry(n))]
  BY <1>6, StoreFields DEF NewEntry
<1>9. Is(Maj(Enter(S, s, n), s), [S.rt EXCEPT ![s] = LocalNow(NewEntry(n))], ListMaj(o, s), k, i)
  BY <1>6, <1>7, <1>8 DEF Is
<1> QED BY <1>9 DEF o, k, i

\* A node that has a route.
LEMMA UpdateIs ==
  ASSUME Env, NEW S \in Stores, NEW s \in Slots, NEW n \in scope.nodes
  PROVE  Is(Maj(Update(S, s, n), s), [S.rt EXCEPT ![s] = LocalNow(@)], ListMaj(S.out, s),
            IF scope.apply /\ S.rt[s].from = "6LBR"
            THEN (S.kernel \ {<<n, S.rt[s].gw>>}) \cup {<<n, "tty">>} ELSE S.kernel,
            S.intact /\ S.rt[s].from # "6LBR")
<1> DEFINE T == Update(S, s, n)
           k == IF scope.apply /\ S.rt[s].from = "6LBR"
                THEN (S.kernel \ {<<n, S.rt[s].gw>>}) \cup {<<n, "tty">>} ELSE S.kernel
<1>1. Is(T, S.rt, S.out, k, S.intact)
  <2>1. CASE scope.apply /\ S.rt[s].from = "6LBR"
    <3> DEFINE C == change_route(S, n, FALSE, S.rt[s].gw)
    <3>1. Is(C, S.rt, S.out, S.kernel \ {<<n, S.rt[s].gw>>}, S.intact)
      <4>1. Is(C, S.rt, S.out, IF ~scope.apply THEN S.kernel ELSE S.kernel \ {<<n, S.rt[s].gw>>}, S.intact)
        BY ChangeIs
      <4> QED BY <2>1, <4>1
    <3>2. C \in Stores
      BY <3>1 DEF Is
    <3>3. T = change_local_route(C, n, TRUE)
      BY <2>1 DEF Update
    <3> HIDE DEF C, T
    <3>4. Is(T, C.rt, C.out, C.kernel \cup {<<n, "tty">>}, C.intact)
      BY <3>2, <3>3, LocalRouteIs
    <3> QED BY <2>1, <3>1, <3>4 DEF Is
  <2>2. CASE ~(scope.apply /\ S.rt[s].from = "6LBR")
    BY <2>2 DEF Update, Is
  <2> QED BY <2>1, <2>2
<1> HIDE DEF T, k
<1>2. T \in Stores
  BY <1>1 DEF Is
<1>3. Is(Maj(T, s), [T.rt EXCEPT ![s] = LocalNow(@)], ListMaj(T.out, s), T.kernel,
         T.intact /\ T.rt[s].from # "6LBR")
  BY <1>2, MajIs
<1>4. Is(Maj(T, s), [S.rt EXCEPT ![s] = LocalNow(@)], ListMaj(S.out, s), k,
         S.intact /\ S.rt[s].from # "6LBR")
  BY <1>1, <1>3 DEF Is
<1> QED BY <1>4 DEF T, k

-----------------------------------------------------------------------------
(* What keeps a store well-formed *)

LEMMA LonelyIs ==
  ASSUME Env, Lonely
  PROVE  NB - 2 \in Slots /\ NB - 2 # NB - 1 /\ Room
<1>1. PICK n \in scope.nodes : scope.nodes = {n}
  BY DEF Lonely
<1>2. n \in Nodes /\ IsFiniteSet(Nodes)
  BY EnvIs, HomeAgentAssumption
<1>3. Cardinality(Nodes) \in Nat /\ Cardinality(Nodes) # 0
  BY <1>2, FS_CardinalityType, FS_EmptySet
<1> QED BY <1>3, NBAssumption DEF Slots, Lonely, Room

\* The only local route.
LEMMA LonelyLocal ==
  ASSUME Env, Lonely, NEW S, StoreOK(S), NEW s \in LocalOf(S.rt)
  PROVE  s = NB - 2 /\ AloneOn(S.out, s)
<1>1. OneSlot(S.rt, S.out) /\ TableOK(S.rt)
  BY DEF StoreOK
<1>2. s \in Slots /\ S.rt[s].from = "DAO" /\ RoleOK(S.rt[s])
  BY <1>1 DEF LocalOf, TableOK
<1>3. S.rt[s].addr # Self
  BY <1>2 DEF RoleOK
<1>4. s = NB - 2
  BY <1>1, <1>2, <1>3 DEF OneSlot
<1> QED BY <1>1, <1>4 DEF OneSlot, Tied

\* The list of one slot.
LEMMA AloneRemove ==
  ASSUME NEW L \in SettledLists, NEW s \in Slots, AloneOn(L, s)
  PROVE  AloneOff(ListRemove(L, s), s)
BY EndsAreNoSlots DEF AloneOn, AloneOff, ListRemove, SetLink

LEMMA AloneMaj ==
  ASSUME NEW L \in SettledLists, NEW s \in Slots, AloneOn(L, s) \/ AloneOff(L, s)
  PROVE  AloneOn(ListMaj(L, s), s)
<1>1. ASSUME NEW M, M.prev \in [Slots -> Ends], M.next \in [Slots -> Ends],
             M.min = LIST_END, M.max = LIST_END
      PROVE  AloneOn(ListAddEnd(M, s), s)
  BY <1>1, EndsAreNoSlots DEF AloneOn, ListAddEnd, SetLink
<1>2. L.prev \in [Slots -> Ends] /\ L.next \in [Slots -> Ends] /\ L.prev[s] \in Ends
  BY DEF SettledLists
<1> DEFINE R == ListRemove(L, s)
<1>3. R \in SettledLists
  BY SettledClosed
<1>4. R.min = LIST_END /\ R.max = LIST_END
  BY <1>2 DEF AloneOn, AloneOff, ListRemove
<1>5. L.prev[s] # LIST_INIT
  BY <1>2, EndsAreNoSlots DEF Ends
<1>6. ListMaj(L, s) = ListAddEnd(R, s)
  BY <1>5 DEF ListMaj
<1> HIDE DEF R
<1>7. R.prev \in [Slots -> Ends] /\ R.next \in [Slots -> Ends]
  BY <1>3 DEF SettledLists
<1> QED BY <1>1, <1>4, <1>6, <1>7

LEMMA AloneZeroed ==
  ASSUME NEW L \in SettledLists, NEW s \in Slots, AloneOff(L, s)
  PROVE  AloneOff(Zeroed(L, s), s)
<1> DEFINE Z == Zeroed(L, s)
<1>1. /\ Z.min = L.min /\ Z.max = L.max
      /\ Z.prev = [L.prev EXCEPT ![s] = 0] /\ Z.next = [L.next EXCEPT ![s] = 0]
  BY ZeroedIs
<1>2. DOMAIN L.prev = Slots /\ DOMAIN L.next = Slots
  BY DEF SettledLists
<1> HIDE DEF Z
<1>3. Z.prev[s] = 0 /\ Z.next[s] = 0
  BY <1>1, <1>2
<1>4. AloneOff(Z, s)
  BY <1>1, <1>3 DEF AloneOff
<1> QED BY <1>4 DEF Z

LEMMA AloneEnter ==
  ASSUME NEW L \in SettledLists, NEW s \in Slots, AloneOff(L, s)
  PROVE  AloneOn(ListMaj(ListInit(Zeroed(L, s), s), s), s)
<1> DEFINE Z == Zeroed(L, s)
           I == ListInit(Z, s)
<1>1. Z \in SettledLists /\ AloneOff(Z, s)
  BY ZeroedIs, AloneZeroed
<1> HIDE DEF Z
<1>2. /\ I.prev = [Z.prev EXCEPT ![s] = LIST_INIT] /\ I.next = [Z.next EXCEPT ![s] = LIST_INIT]
      /\ I.min = LIST_END /\ I.max = LIST_END
  BY <1>1 DEF ListInit, SettledLists, AloneOff
<1>3. DOMAIN Z.prev = Slots /\ DOMAIN Z.next = Slots
  BY <1>1 DEF SettledLists
<1> HIDE DEF I
<1>4. ListMaj(I, s) = ListAddEnd(I, s)
  BY <1>2, <1>3 DEF ListMaj
<1>5. AloneOn(ListAddEnd(I, s), s)
  BY <1>2, <1>3, EndsAreNoSlots DEF AloneOn, ListAddEnd, SetLink
<1> QED BY <1>4, <1>5 DEF I, Z

\* The only mote's slot.
LEMMA LonelySlot ==
  ASSUME Env, Lonely, NEW S, StoreOK(S), NEW n \in scope.nodes
  PROVE  /\ \A s \in Slots : S.rt[s].addr = n => s = NB - 2
         /\ SlotsOf(S, n) = {} => Slot(S) = NB - 2
<1>1. /\ S.rt[NB - 1].used /\ S.rt[NB - 1].addr = Self
      /\ \A s \in Slots : s # NB - 2 => S.rt[s].addr = Self /\ (S.rt[s].used => s = NB - 1)
  BY LonelyIs, SlotsAre DEF StoreOK, OneSlot
<1>2. \A s \in Slots : S.rt[s].addr = n => s = NB - 2
  BY <1>1, EnvIs
<1>3. ASSUME SlotsOf(S, n) = {} PROVE Slot(S) = NB - 2
  <2>1. TableOK(S.rt) /\ S \in Stores
    BY DEF StoreOK
  <2>2. Free(S) # {}
    BY <1>3, <2>1, RoomFree, LonelyIs
  <2>3. Slot(S) \in Free(S) /\ \A t \in Free(S) : t <= Slot(S)
    BY <2>2, SlotIs
  <2>4. ~S.rt[NB - 2].used
    <3>1. PICK m \in scope.nodes : scope.nodes = {m}
      BY DEF Lonely
    <3>2. S.rt[NB - 2].addr \in {n, Self}
      BY <2>1, <3>1, LonelyIs, StoreFields DEF Entries
    <3> QED BY <1>1, <1>3, <2>1, <3>2, LonelyIs, SlotsAre DEF TableOK, SlotsOf
  <2>5. NB - 2 \in Free(S) /\ NB - 1 \notin Free(S)
    BY <1>1, <2>4, LonelyIs DEF Free
  <2>6. Slot(S) \in Slots /\ Slot(S) # NB - 1 /\ NB - 2 <= Slot(S)
    BY <2>3, <2>5 DEF Free
  <2> QED BY <2>6, NBAssumption DEF Slots
<1> QED BY <1>2, <1>3

\* A node's slot is filled or changed.
LEMMA PutKeeps ==
  ASSUME Env, NEW S, StoreOK(S), NEW T \in Stores, NEW s \in Slots, NEW n \in scope.nodes,
         NEW e \in Entries, RoleOK(e), e.used, e.addr = n,
         T.rt = [S.rt EXCEPT ![s] = e],
         \A t \in Slots \ {s} : ~(S.rt[t].used /\ S.rt[t].addr = n),
         Room => (S.rt[s].used => S.rt[s].addr = n),
         T.intact => S.intact,
         T.intact => Threaded(T.rt, T.out),
         Lonely => s = NB - 2 /\ Tied(T.rt, T.out),
         Room /\ (S.intact \/ Lonely) =>
           /\ \A p \in scope.nodes \ {n}, d \in Devices : <<p, d>> \in T.kernel <=> <<p, d>> \in S.kernel
           /\ \A d \in Devices :
                /\ <<n, d>> \in T.kernel => Leads([S.rt EXCEPT ![s] = e], s, n, d)
                /\ scope.apply => (Leads([S.rt EXCEPT ![s] = e], s, n, d) => <<n, d>> \in T.kernel)
  PROVE  StoreOK(T)
<1>1. TableOK(S.rt) /\ S \in Stores
  BY DEF StoreOK
<1>2. TableOK(T.rt)
  BY <1>1, EntrySet
<1>3. ASSUME Lonely PROVE OneSlot(T.rt, T.out)
  <2>1. OneSlot(S.rt, S.out)
    BY <1>3 DEF StoreOK
  <2>2. \A t \in Slots \ {NB - 2} : T.rt[t] = S.rt[t]
    BY <1>1, <1>3, StoreFields
  <2> QED BY <1>3, <2>1, <2>2, LonelyIs, SlotsAre DEF OneSlot
<1>4. ASSUME Room, T.intact \/ Lonely PROVE Follows(T.rt, T.kernel)
  <2>1. Follows(S.rt, S.kernel)
    BY <1>4 DEF StoreOK
  <2>2. S.rt[s].used => S.rt[s].addr = n
    BY <1>4
  <2>3. /\ \A p \in scope.nodes \ {n}, d \in Devices : <<p, d>> \in T.kernel <=> <<p, d>> \in S.kernel
        /\ \A d \in Devices :
             /\ <<n, d>> \in T.kernel => Leads([S.rt EXCEPT ![s] = e], s, n, d)
             /\ scope.apply => (Leads([S.rt EXCEPT ![s] = e], s, n, d) => <<n, d>> \in T.kernel)
    BY <1>4
  <2>4. Follows([S.rt EXCEPT ![s] = e], T.kernel)
    BY <1>1, <2>1, <2>2, <2>3, KernelSet
  <2> QED BY <2>4
<1> QED BY <1>2, <1>3, <1>4 DEF StoreOK

LEMMA UnusedIs ==
  ASSUME NEW e \in Entries
  PROVE  /\ Unused(e) \in Entries /\ ~Unused(e).used /\ Unused(e).addr = e.addr
         /\ Unused(e).from = e.from /\ Unused(e).gw = e.gw /\ Unused(e).start = e.start
         /\ Unused(e).interval = e.interval
<1>1. Unused(e) \in Entries
  BY DEF Unused, Entries
<1>2. ~Unused(e).used
  BY DEF Unused, Entries
<1>3. /\ Unused(e).addr = e.addr
      /\ Unused(e).from = e.from /\ Unused(e).gw = e.gw /\ Unused(e).start = e.start
      /\ Unused(e).interval = e.interval
  BY DEF Unused, Entries
<1> QED BY <1>1, <1>2, <1>3

\* A slot is freed, with every route of its node that follows from it.
LEMMA RemoveKeeps ==
  ASSUME Env, NEW S, StoreOK(S), NEW T \in Stores, NEW s \in Slots, NEW M,
         T.rt = [S.rt EXCEPT ![s] = Unused(@)],
         T.out = ListRemove(S.out, s),
         T.kernel = S.kernel \ M,
         T.intact <=> S.intact,
         \A p \in M : p[1] = S.rt[s].addr,
         <<S.rt[s].addr, "tty">> \in M,
         S.intact \/ Lonely => s \in LocalOf(S.rt)
  PROVE  /\ StoreOK(T)
         /\ LocalOf(T.rt) = LocalOf(S.rt) \ {s}
         /\ \A ord \in [Slots -> Nat] : s \in LocalOf(S.rt) /\ Sorted(S.out, LocalOf(S.rt), ord)
                                         => Sorted(T.out, LocalOf(T.rt), ord)
<1> DEFINE e == Unused(S.rt[s])
<1>1. TableOK(S.rt) /\ S \in Stores /\ S.rt \in [Slots -> Entries] /\ S.out \in SettledLists
      /\ S.rt[s] \in Entries /\ S.out \in Lists
  BY StoreFields DEF StoreOK
<1>2. /\ e \in Entries /\ ~e.used /\ e.addr = S.rt[s].addr /\ e.from = S.rt[s].from
      /\ e.gw = S.rt[s].gw /\ e.start = S.rt[s].start
  BY <1>1, UnusedIs
<1>3. T.rt = [S.rt EXCEPT ![s] = e]
  BY <1>1
<1> HIDE DEF e
<1>4. RoleOK(e)
  BY <1>1, <1>2 DEF RoleOK, TableOK
<1>5. TableOK(T.rt)
  BY <1>1, <1>2, <1>3, <1>4, EntrySet
<1>6. LocalOf(T.rt) = LocalOf(S.rt) \ {s}
  <2>1. \A t \in Slots \ {s} : T.rt[t] = S.rt[t]
    BY <1>1, <1>3
  <2>2. ~T.rt[s].used
    BY <1>1, <1>2, <1>3
  <2> QED BY <2>1, <2>2 DEF LocalOf
<1>7. ASSUME NEW ord \in [Slots -> Nat], s \in LocalOf(S.rt), Sorted(S.out, LocalOf(S.rt), ord)
      PROVE Sorted(T.out, LocalOf(T.rt), ord)
  <2>1. LocalOf(S.rt) \in SUBSET Slots
    BY DEF LocalOf
  <2> QED BY <1>1, <1>6, <1>7, <2>1, RemoveSorted
<1>8. ASSUME T.intact PROVE Threaded(T.rt, T.out)
  <2>1. Threaded(S.rt, S.out) /\ s \in LocalOf(S.rt)
    BY <1>8 DEF StoreOK
  <2> QED BY <1>7, <2>1 DEF Threaded
<1>9. ASSUME Lonely PROVE OneSlot(T.rt, T.out)
  <2>1. OneSlot(S.rt, S.out) /\ s = NB - 2 /\ NB - 1 # s /\ AloneOn(S.out, s)
    BY <1>9, LonelyIs, LonelyLocal DEF StoreOK
  <2>2. Tied(T.rt, T.out)
    <3>1. AloneOff(T.out, s)
      BY <1>1, <2>1, AloneRemove
    <3>2. NB - 2 \notin LocalOf(T.rt)
      BY <1>6, <2>1
    <3> QED BY <2>1, <3>1, <3>2 DEF Tied
  <2>3. \A t \in Slots : T.rt[t].addr = S.rt[t].addr /\ (T.rt[t].used => S.rt[t].used)
    BY <1>1, <1>2, <1>3
  <2>4. T.rt[NB - 1].used
    BY <1>1, <1>3, <2>1, SlotsAre DEF OneSlot
  <2> QED BY <2>1, <2>2, <2>3, <2>4 DEF OneSlot
<1>10. ASSUME Room, T.intact \/ Lonely PROVE Follows(T.rt, T.kernel)
  <2>1. Follows(S.rt, S.kernel)
    BY <1>10 DEF StoreOK
  <2>2. ASSUME NEW n \in scope.nodes, NEW d \in Devices
        PROVE  /\ <<n, d>> \in T.kernel => \E t \in Slots : Leads(T.rt, t, n, d)
               /\ scope.apply => \A t \in Slots : Leads(T.rt, t, n, d) => <<n, d>> \in T.kernel
    <3>1. /\ <<n, d>> \in S.kernel => \E t \in Slots : Leads(S.rt, t, n, d)
          /\ scope.apply => \A t \in Slots : Leads(S.rt, t, n, d) => <<n, d>> \in S.kernel
      BY <2>1 DEF Follows
    <3>2. \A t \in Slots \ {s} : Leads(T.rt, t, n, d) <=> Leads(S.rt, t, n, d)
      BY <1>1, <1>3 DEF Leads
    <3>3. ~Leads(T.rt, s, n, d)
      BY <1>1, <1>2, <1>3 DEF Leads
    <3>4. <<n, d>>[1] = n
      OBVIOUS
    <3>5. CASE n # S.rt[s].addr
      <4>1. <<n, d>> \in T.kernel <=> <<n, d>> \in S.kernel
        BY <3>4, <3>5
      <4>2. ~Leads(S.rt, s, n, d)
        BY <3>5 DEF Leads
      <4> QED BY <3>1, <3>2, <3>3, <4>1, <4>2
    <3>6. CASE n = S.rt[s].addr
      <4>1. ASSUME NEW t \in Slots \ {s}, S.rt[t].used, S.rt[t].addr = n PROVE FALSE
        <5>1. CASE S.intact
          <6>1. S.rt[s].used
            BY <5>1 DEF LocalOf
          <6> QED BY <1>1, <3>6, <4>1, <6>1 DEF TableOK
        <5>2. CASE Lonely
          BY <3>6, <4>1, <5>2, LonelySlot
        <5> QED BY <1>10, <5>1, <5>2
      <4>2. \A t \in Slots : ~Leads(T.rt, t, n, d)
        BY <3>2, <3>3, <4>1 DEF Leads
      <4>3. <<n, d>> \in S.kernel => Leads(S.rt, s, n, d)
        BY <3>1, <4>1 DEF Leads
      <4>5. S.rt[s].from = "DAO"
        BY <1>10 DEF LocalOf
      <4>6. Leads(S.rt, s, n, d) => d = "tty"
        BY <4>5 DEF Leads
      <4>4. <<n, d>> \notin T.kernel
        BY <3>6, <4>3, <4>6
      <4> QED BY <4>2, <4>4
    <3> QED BY <3>5, <3>6
  <2> QED BY <2>2 DEF Follows
<1> QED BY <1>5, <1>6, <1>7, <1>8, <1>9, <1>10 DEF StoreOK

-----------------------------------------------------------------------------
(* The handlers' operators *)

\* A list that is threaded through the local routes stays so when a slot that
\* is none of them is zeroed.
LEMMA ZeroedSorted ==
  ASSUME NEW L \in SettledLists, NEW P \in SUBSET Slots, NEW s \in Slots \ P,
         NEW ord \in [Slots -> Nat], Sorted(L, P, ord)
  PROVE  Sorted(Zeroed(L, s), P, ord)
<1> DEFINE M == Zeroed(L, s)
<1>1. /\ M.min = L.min /\ M.max = L.max
      /\ M.prev = [L.prev EXCEPT ![s] = 0] /\ M.next = [L.next EXCEPT ![s] = 0]
  BY ZeroedIs
<1> HIDE DEF M
<1>3. L.prev \in [Slots -> Ends] /\ L.next \in [Slots -> Ends]
  BY DEF SettledLists
<1>4. \A t \in P : M.next[t] = L.next[t] /\ M.prev[t] = L.prev[t]
  BY <1>1, <1>3
<1>2. Sorted(M, P, ord)
  BY <1>1, <1>4 DEF Sorted
<1> QED BY <1>2 DEF M

\* An order in which s is last.
LEMMA LastOrder ==
  ASSUME NEW L \in SettledLists, NEW P \in SUBSET Slots, NEW s \in Slots,
         NEW ord \in [Slots -> Nat], Sorted(L, P, ord)
  PROVE  \E ord2 \in [Slots -> Nat] :
           \A t \in P \ {s} : ord2[t] = ord[t] /\ ord2[t] < ord2[s]
<1> DEFINE top == IF P = {} THEN 0 ELSE ord[L.max]
           ord2 == [ord EXCEPT ![s] = top + 1]
<1>1. P # {} => L.max \in P /\ \A t \in P : ord[t] <= ord[L.max]
  BY EndsAreNoSlots DEF Sorted, LastIs
<1>2. top \in Nat /\ \A t \in P : ord[t] <= top
  BY <1>1
<1> HIDE DEF top
<1>3. ord2 \in [Slots -> Nat] /\ ord2[s] = top + 1 /\ \A t \in P \ {s} : ord2[t] = ord[t]
  BY <1>2
<1> HIDE DEF ord2
<1>4. \A t \in P \ {s} : ord2[t] = ord[t] /\ ord2[t] < ord2[s]
  BY <1>2, <1>3
<1> QED BY <1>3, <1>4

LEMMA MajThreaded ==
  ASSUME NEW L \in SettledLists, NEW P \in SUBSET Slots, NEW s \in P,
         NEW ord \in [Slots -> Nat], Sorted(L, P, ord)
  PROVE  \E ord2 \in [Slots -> Nat] : Sorted(ListMaj(L, s), P, ord2)
<1>1. PICK ord2 \in [Slots -> Nat] : \A t \in P \ {s} : ord2[t] = ord[t] /\ ord2[t] < ord2[s]
  BY LastOrder
<1>2. L \in Lists
  BY SettledClosed
<1>3. Sorted(ListMaj(L, s), P, ord2)
  BY <1>1, <1>2, MajSorted
<1> QED BY <1>3

LEMMA NewThreaded ==
  ASSUME NEW L \in SettledLists, NEW P \in SUBSET Slots, NEW s \in Slots \ P,
         NEW ord \in [Slots -> Nat], Sorted(L, P, ord)
  PROVE  \E ord2 \in [Slots -> Nat] :
           Sorted(ListMaj(ListInit(Zeroed(L, s), s), s), P \cup {s}, ord2)
<1> DEFINE Z == Zeroed(L, s)
<1>1. Z \in SettledLists /\ Sorted(Z, P, ord)
  BY ZeroedIs, ZeroedSorted
<1> HIDE DEF Z
<1>2. Z \in Lists
  BY <1>1, SettledClosed
<1>3. PICK ord2 \in [Slots -> Nat] : \A t \in P \ {s} : ord2[t] = ord[t] /\ ord2[t] < ord2[s]
  BY <1>1, LastOrder
<1>4. \A t \in P : ord2[t] = ord[t] /\ ord2[t] < ord2[s]
  BY <1>3
<1>5. Sorted(ListMaj(ListInit(Z, s), s), P \cup {s}, ord2)
  BY <1>1, <1>2, <1>4, NewSorted
<1> QED BY <1>5 DEF Z

\* A node without a route, and the slot it is given.
LEMMA FreshSlot ==
  ASSUME Env, NEW S, StoreOK(S), NEW n \in scope.nodes, SlotsOf(S, n) = {},
         NEW s \in Slots, s = Slot(S)
  PROVE  /\ \A t \in Slots : ~(S.rt[t].used /\ S.rt[t].addr = n)
         /\ Room => ~S.rt[s].used
         /\ Lonely => s = NB - 2
         /\ Room /\ (S.intact \/ Lonely) => \A d \in Devices : <<n, d>> \notin S.kernel
<1>1. \A t \in Slots : ~(S.rt[t].used /\ S.rt[t].addr = n)
  BY DEF SlotsOf
<1>2. Room => ~S.rt[s].used
  <2>1. Room => Free(S) # {}
    BY RoomFree DEF StoreOK
  <2>2. Free(S) # {} => Slot(S) \in Free(S)
    BY SlotIs
  <2> QED BY <2>1, <2>2 DEF Free
<1>3. Lonely => s = NB - 2
  BY LonelySlot
<1>4. ASSUME Room /\ (S.intact \/ Lonely), NEW d \in Devices PROVE <<n, d>> \notin S.kernel
  <2>1. Follows(S.rt, S.kernel)
    BY <1>4 DEF StoreOK
  <2> QED BY <1>1, <2>1 DEF Follows, Leads
<1> QED BY <1>1, <1>2, <1>3, <1>4

\* A node with a route, and its slot.
LEMMA KnownSlot ==
  ASSUME Env, NEW S, StoreOK(S), NEW n \in scope.nodes, NEW s \in SlotsOf(S, n)
  PROVE  /\ s \in Slots /\ S.rt[s] \in Entries /\ S.rt[s].used /\ S.rt[s].addr = n
         /\ S.rt[s].from \in {"DAO", "6LBR"} /\ S.rt[s].start >= 1
         /\ S.rt[s].from = "6LBR" => S.rt[s].gw \in Gws
         /\ \A t \in Slots \ {s} : ~(S.rt[t].used /\ S.rt[t].addr = n)
         /\ Lonely => s = NB - 2
         /\ Room /\ (S.intact \/ Lonely) =>
              \A d \in Devices : /\ <<n, d>> \in S.kernel => Leads(S.rt, s, n, d)
                                 /\ scope.apply => (Leads(S.rt, s, n, d) => <<n, d>> \in S.kernel)
<1>1. s \in Slots /\ S.rt[s].used /\ S.rt[s].addr = n
  BY DEF SlotsOf
<1>2. S \in Stores /\ TableOK(S.rt)
  BY DEF StoreOK
<1>3. S.rt[s] \in Entries /\ RoleOK(S.rt[s])
  BY <1>1, <1>2, StoreFields DEF TableOK
<1>4. n # Self
  BY EnvIs
<1>5. /\ S.rt[s].from \in {"DAO", "6LBR"} /\ S.rt[s].start >= 1
      /\ S.rt[s].from = "6LBR" => S.rt[s].gw \in Gws
  BY <1>1, <1>3, <1>4 DEF Entries, RoleOK
<1>6. \A t \in Slots \ {s} : ~(S.rt[t].used /\ S.rt[t].addr = n)
  BY <1>1, <1>2 DEF TableOK
<1>7. Lonely => s = NB - 2
  BY <1>1, LonelySlot
<1>8. ASSUME Room /\ (S.intact \/ Lonely), NEW d \in Devices
      PROVE  /\ <<n, d>> \in S.kernel => Leads(S.rt, s, n, d)
             /\ scope.apply => (Leads(S.rt, s, n, d) => <<n, d>> \in S.kernel)
  <2>1. Follows(S.rt, S.kernel)
    BY <1>8 DEF StoreOK
  <2>2. \A t \in Slots \ {s} : ~Leads(S.rt, t, n, d)
    BY <1>6 DEF Leads
  <2> QED BY <1>1, <2>1, <2>2 DEF Follows
<1> QED BY <1>1, <1>3, <1>5, <1>6, <1>7, <1>8

LEMMA NewEntryIs ==
  ASSUME Env, NEW n \in scope.nodes
  PROVE  /\ NewEntry(n) \in Entries /\ NewEntry(n).used /\ NewEntry(n).addr = n
         /\ NewEntry(n).interval = 0
  BY EnvIs DEF NewEntry, Entries

LEMMA BindKeeps ==
  ASSUME Env, NEW S, StoreOK(S), NEW n \in scope.nodes, SlotsOf(S, n) = {},
         NEW g \in Gws, NEW stamp \in 1 .. now
  PROVE  StoreOK(Bind(S, n, g, stamp))
<1> DEFINE T == Bind(S, n, g, stamp)
           s == Slot(S)
<1>1. S \in Stores /\ TableOK(S.rt)
  BY DEF StoreOK
<1>2. CASE s = NoSlot
  <2> DEFINE C == change_route(S, n, TRUE, g)
             k == IF ~scope.apply THEN S.kernel ELSE S.kernel \cup {<<n, g>>}
             k2 == IF ~scope.apply THEN k ELSE k \ {<<n, g>>}
  <2>1. Is(C, S.rt, S.out, k, S.intact)
    <3>1. <<n, g>> \in scope.nodes \X Devices
      BY DEF Devices
    <3> QED BY <1>1, <3>1, ChangeIs
  <2>2. T = change_route(C, n, FALSE, g)
    BY <1>2 DEF Bind
  <2> HIDE DEF C, k
  <2>3. C \in Stores
    BY <2>1 DEF Is
  <2>4. Is(change_route(C, n, FALSE, g), C.rt, C.out,
           IF ~scope.apply THEN C.kernel ELSE C.kernel \ {<<n, g>>}, C.intact)
    BY <2>3, ChangeIs
  <2>5. T \in Stores /\ T.rt = S.rt /\ T.out = S.out /\ (T.intact <=> S.intact)
    BY <2>1, <2>2, <2>4 DEF Is
  <2>6. ~Room
    <3>1. Room => Free(S) # {}
      BY <1>1, RoomFree
    <3>2. Free(S) # {} => s \in Slots
      BY SlotIs DEF Free
    <3> QED BY <1>2, <3>1, <3>2, SlotsAre
  <2>7. ~Lonely
    BY <2>6 DEF Lonely
  <2> HIDE DEF T
  <2>8. StoreOK(T)
    BY <2>5, <2>6, <2>7 DEF StoreOK
  <2> QED BY <2>8 DEF T
<1>3. CASE s # NoSlot
  <2> DEFINE e == BoundTo(NewEntry(n), g, stamp)
  <2>1. s \in Slots
    BY <1>3, SlotIs
  <2>2. Is(T, [S.rt EXCEPT ![s] = e], Zeroed(S.out, s),
           IF scope.apply THEN S.kernel \cup {<<n, g>>} ELSE S.kernel,
           S.intact /\ ~(S.rt[s].used /\ S.rt[s].from = "DAO"))
    BY <1>1, <2>1, BindIs
  <2>3. e \in Entries /\ e.used /\ e.addr = n /\ e.from = "6LBR" /\ e.gw = g /\ e.start = stamp
    BY NewEntryIs, BoundIs
  <2>4. RoleOK(e)
    BY <2>3, EnvIs DEF RoleOK
  <2>5. /\ \A t \in Slots : ~(S.rt[t].used /\ S.rt[t].addr = n)
        /\ Room => ~S.rt[s].used
        /\ Lonely => s = NB - 2
        /\ Room /\ (S.intact \/ Lonely) => \A d \in Devices : <<n, d>> \notin S.kernel
    BY <2>1, FreshSlot
  <2> HIDE DEF T, e, s
  <2>6. /\ T \in Stores /\ T.rt = [S.rt EXCEPT ![s] = e] /\ T.out = Zeroed(S.out, s)
        /\ T.kernel = (IF scope.apply THEN S.kernel \cup {<<n, g>>} ELSE S.kernel)
        /\ (T.intact <=> S.intact /\ ~(S.rt[s].used /\ S.rt[s].from = "DAO"))
    BY <2>2 DEF Is
  <2>7. S.rt \in [Slots -> Entries] /\ S.out \in SettledLists
    BY <1>1, StoreFields
  <2>8. ASSUME T.intact PROVE Threaded(T.rt, T.out)
    <3>1. s \notin LocalOf(S.rt) /\ S.intact
      BY <2>6, <2>8 DEF LocalOf
    <3>2. PICK ord \in [Slots -> Nat] : Sorted(S.out, LocalOf(S.rt), ord)
      BY <3>1 DEF StoreOK, Threaded
    <3>3. LocalOf(T.rt) = LocalOf(S.rt)
      <4>1. T.rt[s] = e /\ \A t \in Slots \ {s} : T.rt[t] = S.rt[t]
        BY <2>1, <2>6, <2>7
      <4> QED BY <2>3, <3>1, <4>1 DEF LocalOf
    <3>4. LocalOf(S.rt) \in SUBSET Slots
      BY DEF LocalOf
    <3>5. Sorted(Zeroed(S.out, s), LocalOf(S.rt), ord)
      BY <2>1, <2>7, <3>1, <3>2, <3>4, ZeroedSorted
    <3> QED BY <2>6, <3>3, <3>5 DEF Threaded
  <2>9. ASSUME Lonely PROVE Tied(T.rt, T.out)
    <3>1. Tied(S.rt, S.out) /\ s = NB - 2 /\ NB - 2 \notin LocalOf(S.rt)
      BY <2>5, <2>9, LonelyIs DEF StoreOK, OneSlot, LocalOf
    <3>2. AloneOff(T.out, s)
      BY <2>1, <2>6, <2>7, <3>1, AloneZeroed DEF Tied
    <3>3. T.rt[s] = e
      BY <2>1, <2>6, <2>7
    <3>4. NB - 2 \notin LocalOf(T.rt)
      BY <2>3, <3>1, <3>3 DEF LocalOf
    <3> QED BY <3>1, <3>2, <3>4 DEF Tied
  <2>10. ASSUME Room /\ (S.intact \/ Lonely)
         PROVE  /\ \A p \in scope.nodes \ {n}, d \in Devices : <<p, d>> \in T.kernel <=> <<p, d>> \in S.kernel
                /\ \A d \in Devices :
                     /\ <<n, d>> \in T.kernel => Leads([S.rt EXCEPT ![s] = e], s, n, d)
                     /\ scope.apply => (Leads([S.rt EXCEPT ![s] = e], s, n, d) => <<n, d>> \in T.kernel)
    <3>1. \A d \in Devices : <<n, d>> \in T.kernel <=> scope.apply /\ d = g
      BY <2>5, <2>6, <2>10
    <3>2. [S.rt EXCEPT ![s] = e][s] = e
      BY <2>1, <2>7
    <3>3. \A d \in Devices : Leads([S.rt EXCEPT ![s] = e], s, n, d) <=> scope.apply /\ d = g
      BY <2>3, <3>2 DEF Leads
    <3>4. \A p \in scope.nodes \ {n}, d \in Devices : <<p, d>> \in T.kernel <=> <<p, d>> \in S.kernel
      BY <2>6
    <3> QED BY <3>1, <3>3, <3>4
  <2>11. StoreOK(T)
    <3>1. \A t \in Slots \ {s} : ~(S.rt[t].used /\ S.rt[t].addr = n)
      BY <2>5
    <3>2. Room => (S.rt[s].used => S.rt[s].addr = n)
      BY <2>5
    <3>3. T.intact => S.intact
      BY <2>6
    <3> QED BY <2>1, <2>3, <2>4, <2>5, <2>6, <2>8, <2>9, <2>10, <3>1, <3>2, <3>3, PutKeeps
  <2> QED BY <2>11 DEF T
<1> QED BY <1>2, <1>3

LEMMA RebindKeeps ==
  ASSUME Env, NEW S, StoreOK(S), NEW n \in scope.nodes, NEW s \in SlotsOf(S, n),
         NEW g \in Gws, NEW stamp \in 1 .. now
  PROVE  StoreOK(Rebind(S, s, n, g, stamp))
<1> DEFINE T == Rebind(S, s, n, g, stamp)
           e == BoundTo(S.rt[s], g, stamp)
           k == IF S.rt[s].from # "6LBR" THEN S.kernel \ {<<n, "tty">>}
                ELSE IF scope.apply THEN S.kernel \ {<<n, S.rt[s].gw>>}
                ELSE S.kernel
<1>1. /\ s \in Slots /\ S.rt[s] \in Entries /\ S.rt[s].used /\ S.rt[s].addr = n
      /\ S.rt[s].from \in {"DAO", "6LBR"}
      /\ S.rt[s].from = "6LBR" => S.rt[s].gw \in Gws
      /\ \A t \in Slots \ {s} : ~(S.rt[t].used /\ S.rt[t].addr = n)
      /\ Lonely => s = NB - 2
      /\ Room /\ (S.intact \/ Lonely) =>
           \A d \in Devices : /\ <<n, d>> \in S.kernel => Leads(S.rt, s, n, d)
                              /\ scope.apply => (Leads(S.rt, s, n, d) => <<n, d>> \in S.kernel)
  BY KnownSlot
<1>2. S \in Stores /\ S.rt \in [Slots -> Entries] /\ S.out \in SettledLists /\ S.out \in Lists
  BY StoreFields DEF StoreOK
<1>3. Is(T, [S.rt EXCEPT ![s] = e], IF S.rt[s].from = "6LBR" THEN S.out ELSE ListRemove(S.out, s),
         IF scope.apply THEN k \cup {<<n, g>>} ELSE k, S.intact)
  BY <1>1, <1>2, RebindIs
<1>4. e \in Entries /\ e.used /\ e.addr = n /\ e.from = "6LBR" /\ e.gw = g /\ e.start = stamp
  BY <1>1, BoundIs
<1>5. RoleOK(e)
  BY <1>4, EnvIs DEF RoleOK
<1> HIDE DEF T, e
<1>6. /\ T \in Stores /\ T.rt = [S.rt EXCEPT ![s] = e]
      /\ T.out = (IF S.rt[s].from = "6LBR" THEN S.out ELSE ListRemove(S.out, s))
      /\ T.kernel = (IF scope.apply THEN k \cup {<<n, g>>} ELSE k)
      /\ (T.intact <=> S.intact)
  BY <1>3 DEF Is
<1>7. T.rt[s] = e /\ \A t \in Slots \ {s} : T.rt[t] = S.rt[t]
  BY <1>1, <1>2, <1>6
<1>8. ASSUME T.intact PROVE Threaded(T.rt, T.out)
  <2>1. PICK ord \in [Slots -> Nat] : Sorted(S.out, LocalOf(S.rt), ord)
    BY <1>6, <1>8 DEF StoreOK, Threaded
  <2>2. LocalOf(T.rt) = LocalOf(S.rt) \ {s}
    BY <1>4, <1>7 DEF LocalOf
  <2>3. CASE S.rt[s].from = "6LBR"
    <3>1. LocalOf(T.rt) = LocalOf(S.rt)
      BY <2>2, <2>3 DEF LocalOf
    <3> QED BY <1>6, <2>1, <2>3, <3>1 DEF Threaded
  <2>4. CASE S.rt[s].from # "6LBR"
    <3>1. s \in LocalOf(S.rt) /\ LocalOf(S.rt) \in SUBSET Slots
      BY <1>1, <2>4 DEF LocalOf
    <3>2. Sorted(ListRemove(S.out, s), LocalOf(S.rt) \ {s}, ord)
      BY <1>2, <2>1, <3>1, RemoveSorted
    <3> QED BY <1>6, <2>2, <2>4, <3>2 DEF Threaded
  <2> QED BY <2>3, <2>4
<1>9. ASSUME Lonely PROVE Tied(T.rt, T.out)
  <2>1. Tied(S.rt, S.out) /\ s = NB - 2
    BY <1>1, <1>9 DEF StoreOK, OneSlot
  <2>2. NB - 2 \notin LocalOf(T.rt)
    BY <1>4, <1>7, <2>1 DEF LocalOf
  <2>3. CASE S.rt[s].from = "6LBR"
    <3>1. NB - 2 \notin LocalOf(S.rt)
      BY <2>1, <2>3 DEF LocalOf
    <3> QED BY <1>6, <2>1, <2>2, <2>3, <3>1 DEF Tied
  <2>4. CASE S.rt[s].from # "6LBR"
    <3>1. s \in LocalOf(S.rt)
      BY <1>1, <2>4 DEF LocalOf
    <3>2. AloneOff(ListRemove(S.out, s), s)
      BY <1>1, <1>2, <2>1, <3>1, AloneRemove DEF Tied
    <3> QED BY <1>6, <2>1, <2>2, <2>4, <3>2 DEF Tied
  <2> QED BY <2>3, <2>4
<1>10. ASSUME Room /\ (S.intact \/ Lonely)
       PROVE  /\ \A p \in scope.nodes \ {n}, d \in Devices : <<p, d>> \in T.kernel <=> <<p, d>> \in S.kernel
              /\ \A d \in Devices :
                   /\ <<n, d>> \in T.kernel => Leads([S.rt EXCEPT ![s] = e], s, n, d)
                   /\ scope.apply => (Leads([S.rt EXCEPT ![s] = e], s, n, d) => <<n, d>> \in T.kernel)
  <2>7. \A d \in Devices : /\ <<n, d>> \in S.kernel => Leads(S.rt, s, n, d)
                           /\ scope.apply => (Leads(S.rt, s, n, d) => <<n, d>> \in S.kernel)
    BY <1>1, <1>10
  <2>1. \A d \in Devices : <<n, d>> \in S.kernel => Leads(S.rt, s, n, d)
    BY <2>7
  <2>2. \A d \in Devices : <<n, d>> \notin k
    BY <1>1, <2>1 DEF Leads
  <2>3. \A p \in scope.nodes \ {n}, d \in Devices : <<p, d>> \in k <=> <<p, d>> \in S.kernel
    OBVIOUS
  <2> HIDE DEF k
  <2>4. \A d \in Devices : <<n, d>> \in T.kernel <=> scope.apply /\ d = g
    BY <1>6, <2>2
  <2>5. \A d \in Devices : Leads(T.rt, s, n, d) <=> scope.apply /\ d = g
    BY <1>4, <1>7 DEF Leads
  <2>8. \A p \in scope.nodes \ {n}, d \in Devices : <<p, d>> \in T.kernel <=> <<p, d>> \in k
    BY <1>6
  <2>6. \A p \in scope.nodes \ {n}, d \in Devices : <<p, d>> \in T.kernel <=> <<p, d>> \in S.kernel
    BY <2>3, <2>8
  <2> QED BY <1>6, <2>4, <2>5, <2>6
<1> HIDE DEF k
<1>11. StoreOK(T)
  <2>1. T.intact => S.intact
    BY <1>6
  <2>2. Room => (S.rt[s].used => S.rt[s].addr = n)
    BY <1>1
  <2> QED BY <1>1, <1>4, <1>5, <1>6, <1>8, <1>9, <1>10, <2>1, <2>2, PutKeeps
<1> QED BY <1>11 DEF T

LEMMA EnterKeeps ==
  ASSUME Env, NEW S, StoreOK(S), NEW n \in scope.nodes, SlotsOf(S, n) = {},
         NEW s \in Slots, s = Slot(S)
  PROVE  StoreOK(Maj(Enter(S, s, n), s))
<1> DEFINE T == Maj(Enter(S, s, n), s)
           e == LocalNow(NewEntry(n))
           o == ListMaj(ListInit(Zeroed(S.out, s), s), s)
<1>1. S \in Stores /\ S.rt \in [Slots -> Entries] /\ S.out \in SettledLists
  BY StoreFields DEF StoreOK
<1>2. Is(T, [S.rt EXCEPT ![s] = e], o, S.kernel \cup {<<n, "tty">>},
         S.intact /\ ~(S.rt[s].used /\ S.rt[s].from = "DAO"))
  BY <1>1, EnterIs
<1>3. e \in Entries /\ e.used /\ e.addr = n /\ e.from = "DAO" /\ e.start = now
  BY NewEntryIs, LocalIs
<1>4. RoleOK(e)
  BY <1>3, EnvIs DEF RoleOK
<1>5. /\ \A t \in Slots : ~(S.rt[t].used /\ S.rt[t].addr = n)
      /\ Room => ~S.rt[s].used
      /\ Lonely => s = NB - 2
      /\ Room /\ (S.intact \/ Lonely) => \A d \in Devices : <<n, d>> \notin S.kernel
  BY FreshSlot
<1> HIDE DEF T, e
<1>6. /\ T \in Stores /\ T.rt = [S.rt EXCEPT ![s] = e] /\ T.out = o
      /\ T.kernel = S.kernel \cup {<<n, "tty">>}
      /\ (T.intact <=> S.intact /\ ~(S.rt[s].used /\ S.rt[s].from = "DAO"))
  BY <1>2 DEF Is
<1>7. T.rt[s] = e /\ \A t \in Slots \ {s} : T.rt[t] = S.rt[t]
  BY <1>1, <1>6
<1>8. ASSUME T.intact PROVE Threaded(T.rt, T.out)
  <2>1. s \notin LocalOf(S.rt) /\ S.intact /\ LocalOf(S.rt) \in SUBSET Slots
    BY <1>6, <1>8 DEF LocalOf
  <2>2. PICK ord \in [Slots -> Nat] : Sorted(S.out, LocalOf(S.rt), ord)
    BY <2>1 DEF StoreOK, Threaded
  <2>3. LocalOf(T.rt) = LocalOf(S.rt) \cup {s}
    BY <1>3, <1>7 DEF LocalOf
  <2>4. \E ord2 \in [Slots -> Nat] : Sorted(o, LocalOf(S.rt) \cup {s}, ord2)
    BY <1>1, <2>1, <2>2, NewThreaded
  <2> QED BY <1>6, <2>3, <2>4 DEF Threaded
<1>9. ASSUME Lonely PROVE Tied(T.rt, T.out)
  <2>1. Tied(S.rt, S.out) /\ s = NB - 2 /\ NB - 2 \notin LocalOf(S.rt)
    BY <1>5, <1>9, LonelyIs DEF StoreOK, OneSlot, LocalOf
  <2>2. AloneOn(T.out, s)
    BY <1>1, <1>6, <2>1, AloneEnter DEF Tied
  <2>3. NB - 2 \in LocalOf(T.rt)
    BY <1>3, <1>7, <2>1 DEF LocalOf
  <2> QED BY <2>1, <2>2, <2>3 DEF Tied
<1> HIDE DEF o
<1>10. ASSUME Room /\ (S.intact \/ Lonely)
       PROVE  /\ \A p \in scope.nodes \ {n}, d \in Devices : <<p, d>> \in T.kernel <=> <<p, d>> \in S.kernel
              /\ \A d \in Devices :
                   /\ <<n, d>> \in T.kernel => Leads([S.rt EXCEPT ![s] = e], s, n, d)
                   /\ scope.apply => (Leads([S.rt EXCEPT ![s] = e], s, n, d) => <<n, d>> \in T.kernel)
  <2>1. \A d \in Devices : <<n, d>> \in T.kernel <=> d = "tty"
    BY <1>5, <1>6, <1>10
  <2>2. \A d \in Devices : Leads(T.rt, s, n, d) <=> d = "tty"
    BY <1>3, <1>7 DEF Leads
  <2>3. \A p \in scope.nodes \ {n}, d \in Devices : <<p, d>> \in T.kernel <=> <<p, d>> \in S.kernel
    BY <1>6
  <2> QED BY <1>6, <2>1, <2>2, <2>3
<1>11. StoreOK(T)
  <2>1. T.intact => S.intact
    BY <1>6
  <2>2. Room => (S.rt[s].used => S.rt[s].addr = n)
    BY <1>5
  <2>3. \A t \in Slots \ {s} : ~(S.rt[t].used /\ S.rt[t].addr = n)
    BY <1>5
  <2> QED BY <1>3, <1>4, <1>5, <1>6, <1>8, <1>9, <1>10, <2>1, <2>2, <2>3, PutKeeps
<1> QED BY <1>11 DEF T

LEMMA UpdateKeeps ==
  ASSUME Env, NEW S, StoreOK(S), NEW n \in scope.nodes, NEW s \in SlotsOf(S, n)
  PROVE  StoreOK(Maj(Update(S, s, n), s))
<1> DEFINE T == Maj(Update(S, s, n), s)
           e == LocalNow(S.rt[s])
           k == IF scope.apply /\ S.rt[s].from = "6LBR"
                THEN (S.kernel \ {<<n, S.rt[s].gw>>}) \cup {<<n, "tty">>} ELSE S.kernel
<1>1. /\ s \in Slots /\ S.rt[s] \in Entries /\ S.rt[s].used /\ S.rt[s].addr = n
      /\ S.rt[s].from \in {"DAO", "6LBR"}
      /\ S.rt[s].from = "6LBR" => S.rt[s].gw \in Gws
      /\ \A t \in Slots \ {s} : ~(S.rt[t].used /\ S.rt[t].addr = n)
      /\ Lonely => s = NB - 2
      /\ Room /\ (S.intact \/ Lonely) =>
           \A d \in Devices : /\ <<n, d>> \in S.kernel => Leads(S.rt, s, n, d)
                              /\ scope.apply => (Leads(S.rt, s, n, d) => <<n, d>> \in S.kernel)
  BY KnownSlot
<1>2. S \in Stores /\ S.rt \in [Slots -> Entries] /\ S.out \in SettledLists
  BY StoreFields DEF StoreOK
<1>3. Is(T, [S.rt EXCEPT ![s] = e], ListMaj(S.out, s), k, S.intact /\ S.rt[s].from # "6LBR")
  BY <1>1, <1>2, UpdateIs
<1>4. e \in Entries /\ e.used /\ e.addr = n /\ e.from = "DAO" /\ e.start = now
  BY <1>1, LocalIs
<1>5. RoleOK(e)
  BY <1>4, EnvIs DEF RoleOK
<1> HIDE DEF T, e
<1>6. /\ T \in Stores /\ T.rt = [S.rt EXCEPT ![s] = e] /\ T.out = ListMaj(S.out, s)
      /\ T.kernel = k /\ (T.intact <=> S.intact /\ S.rt[s].from # "6LBR")
  BY <1>3 DEF Is
<1>7. T.rt[s] = e /\ \A t \in Slots \ {s} : T.rt[t] = S.rt[t]
  BY <1>1, <1>2, <1>6
<1>8. ASSUME T.intact PROVE Threaded(T.rt, T.out)
  <2>1. s \in LocalOf(S.rt) /\ S.intact /\ LocalOf(S.rt) \in SUBSET Slots
    BY <1>1, <1>6, <1>8 DEF LocalOf
  <2>2. PICK ord \in [Slots -> Nat] : Sorted(S.out, LocalOf(S.rt), ord)
    BY <2>1 DEF StoreOK, Threaded
  <2>3. LocalOf(T.rt) = LocalOf(S.rt)
    BY <1>4, <1>7, <2>1 DEF LocalOf
  <2>4. \E ord2 \in [Slots -> Nat] : Sorted(ListMaj(S.out, s), LocalOf(S.rt), ord2)
    BY <1>2, <2>1, <2>2, MajThreaded
  <2> QED BY <1>6, <2>3, <2>4 DEF Threaded
<1>9. ASSUME Lonely PROVE Tied(T.rt, T.out)
  <2>1. Tied(S.rt, S.out) /\ s = NB - 2
    BY <1>1, <1>9 DEF StoreOK, OneSlot
  <2>2. AloneOn(T.out, s)
    BY <1>1, <1>2, <1>6, <2>1, AloneMaj DEF Tied
  <2>3. NB - 2 \in LocalOf(T.rt)
    BY <1>1, <1>4, <1>7, <2>1 DEF LocalOf
  <2> QED BY <2>1, <2>2, <2>3 DEF Tied
<1>10. ASSUME Room /\ (S.intact \/ Lonely)
       PROVE  /\ \A p \in scope.nodes \ {n}, d \in Devices : <<p, d>> \in T.kernel <=> <<p, d>> \in S.kernel
              /\ \A d \in Devices :
                   /\ <<n, d>> \in T.kernel => Leads([S.rt EXCEPT ![s] = e], s, n, d)
                   /\ scope.apply => (Leads([S.rt EXCEPT ![s] = e], s, n, d) => <<n, d>> \in T.kernel)
  <2>1. \A d \in Devices : /\ <<n, d>> \in S.kernel => Leads(S.rt, s, n, d)
                           /\ scope.apply => (Leads(S.rt, s, n, d) => <<n, d>> \in S.kernel)
    BY <1>1, <1>10
  <2>2. \A d \in Devices : Leads(T.rt, s, n, d) <=> d = "tty"
    BY <1>4, <1>7 DEF Leads
  <2>3. ASSUME NEW d \in Devices
        PROVE  /\ <<n, d>> \in k => d = "tty"
               /\ scope.apply => (d = "tty" => <<n, d>> \in k)
    <3>1. CASE S.rt[s].from = "6LBR"
      <4>2. <<n, d>> \in S.kernel => Leads(S.rt, s, n, d)
        BY <2>1
      <4>3. Leads(S.rt, s, n, d) => d = S.rt[s].gw /\ scope.apply
        BY <3>1 DEF Leads
      <4>1. <<n, d>> \in S.kernel => d = S.rt[s].gw /\ scope.apply
        BY <4>2, <4>3
      <4> QED BY <3>1, <4>1
    <3>2. CASE S.rt[s].from = "DAO"
      <4>3. <<n, d>> \in S.kernel => Leads(S.rt, s, n, d)
        BY <2>1
      <4>4. Leads(S.rt, s, n, d) => d = "tty"
        BY <3>2 DEF Leads
      <4>1. <<n, d>> \in S.kernel => d = "tty"
        BY <4>3, <4>4
      <4>2. scope.apply => (d = "tty" => <<n, d>> \in S.kernel)
        BY <1>1, <2>1, <3>2 DEF Leads
      <4> QED BY <3>2, <4>1, <4>2
    <3> QED BY <1>1, <3>1, <3>2
  <2>4. \A p \in scope.nodes \ {n}, d \in Devices : <<p, d>> \in k <=> <<p, d>> \in S.kernel
    OBVIOUS
  <2> HIDE DEF k
  <2> QED BY <1>6, <2>2, <2>3, <2>4
<1> HIDE DEF k
<1>11. StoreOK(T)
  <2>1. T.intact => S.intact
    BY <1>6
  <2>2. Room => (S.rt[s].used => S.rt[s].addr = n)
    BY <1>1
  <2> QED BY <1>1, <1>4, <1>5, <1>6, <1>8, <1>9, <1>10, <2>1, <2>2, PutKeeps
<1> QED BY <1>11 DEF T

\* A No-Path DAO only sets the timer.
Expiring(e) == [e EXCEPT !.start = now, !.interval = DaoTimeout]

Expired(S, s) == [S EXCEPT !.rt[s].start = now, !.rt[s].interval = DaoTimeout]

LEMMA ExpiringIs ==
  ASSUME Env, NEW e \in Entries
  PROVE  /\ Expiring(e) \in Entries
         /\ Expiring(e).used <=> e.used
         /\ Expiring(e).addr = e.addr /\ Expiring(e).from = e.from /\ Expiring(e).gw = e.gw
         /\ Expiring(e).start = now /\ Expiring(e).interval = DaoTimeout
<1>1. now \in 0 .. now
  BY EnvIs
<1>2. Expiring(e) \in Entries
  BY <1>1 DEF Expiring, Entries
<1>3. Expiring(e).used <=> e.used
  BY DEF Expiring, Entries
<1>4. /\ Expiring(e).addr = e.addr /\ Expiring(e).from = e.from /\ Expiring(e).gw = e.gw
      /\ Expiring(e).start = now /\ Expiring(e).interval = DaoTimeout
  BY DEF Expiring, Entries
<1> QED BY <1>2, <1>3, <1>4

LEMMA ExpiredIs ==
  ASSUME Env, NEW S \in Stores, NEW s \in Slots
  PROVE  Is(Expired(S, s), [S.rt EXCEPT ![s] = Expiring(@)], S.out, S.kernel, S.intact)
<1> DEFINE r == [S.rt EXCEPT ![s] = Expiring(@)]
           T == Expired(S, s)
<1>1. S.rt[s] \in Entries
  BY StoreFields
<1>2. Expiring(S.rt[s]) \in Entries
  BY <1>1, ExpiringIs
<1>3. r \in [Slots -> Entries]
  BY <1>2, StoreFields
<1>4. T = [S EXCEPT !.rt = r]
  BY <1>1 DEF Expired, Expiring, Stores
<1> HIDE DEF r, T
<1>5. Is([S EXCEPT !.rt = r], r, S.out, S.kernel, S.intact)
  BY <1>3 DEF Is, Stores
<1> QED BY <1>4, <1>5 DEF r, T

LEMMA ExpiredKeeps ==
  ASSUME Env, NEW S, StoreOK(S), NEW n \in scope.nodes, NEW s \in SlotsOf(S, n)
  PROVE  StoreOK(Expired(S, s))
<1> DEFINE T == Expired(S, s)
           e == Expiring(S.rt[s])
<1>1. /\ s \in Slots /\ S.rt[s] \in Entries /\ S.rt[s].used /\ S.rt[s].addr = n
      /\ S.rt[s].from \in {"DAO", "6LBR"}
      /\ S.rt[s].from = "6LBR" => S.rt[s].gw \in Gws
      /\ \A t \in Slots \ {s} : ~(S.rt[t].used /\ S.rt[t].addr = n)
      /\ Lonely => s = NB - 2
      /\ Room /\ (S.intact \/ Lonely) =>
           \A d \in Devices : /\ <<n, d>> \in S.kernel => Leads(S.rt, s, n, d)
                              /\ scope.apply => (Leads(S.rt, s, n, d) => <<n, d>> \in S.kernel)
  BY KnownSlot
<1>2. S \in Stores /\ S.rt \in [Slots -> Entries] /\ S.out \in SettledLists
  BY StoreFields DEF StoreOK
<1>3. Is(T, [S.rt EXCEPT ![s] = e], S.out, S.kernel, S.intact)
  BY <1>1, <1>2, ExpiredIs
<1>4. e \in Entries /\ e.used /\ e.addr = n /\ e.from = S.rt[s].from /\ e.start = now /\ e.gw = S.rt[s].gw
  BY <1>1, ExpiringIs
<1>5. RoleOK(e)
  BY <1>1, <1>4, EnvIs DEF RoleOK
<1> HIDE DEF T, e
<1>6. /\ T \in Stores /\ T.rt = [S.rt EXCEPT ![s] = e] /\ T.out = S.out
      /\ T.kernel = S.kernel /\ (T.intact <=> S.intact)
  BY <1>3 DEF Is
<1>7. T.rt[s] = e /\ \A t \in Slots \ {s} : T.rt[t] = S.rt[t]
  BY <1>1, <1>2, <1>6
<1>8. ASSUME T.intact PROVE Threaded(T.rt, T.out)
  <2>1. Threaded(S.rt, S.out)
    BY <1>6, <1>8 DEF StoreOK
  <2>2. LocalOf(T.rt) = LocalOf(S.rt)
    BY <1>1, <1>4, <1>7 DEF LocalOf
  <2> QED BY <1>6, <2>1, <2>2 DEF Threaded
<1>9. ASSUME Lonely PROVE Tied(T.rt, T.out)
  <2>1. Tied(S.rt, S.out)
    BY <1>9 DEF StoreOK, OneSlot
  <2>2. LocalOf(T.rt) = LocalOf(S.rt)
    BY <1>1, <1>4, <1>7 DEF LocalOf
  <2> QED BY <1>6, <2>1, <2>2 DEF Tied
<1>10. ASSUME Room /\ (S.intact \/ Lonely)
       PROVE  /\ \A p \in scope.nodes \ {n}, d \in Devices : <<p, d>> \in T.kernel <=> <<p, d>> \in S.kernel
              /\ \A d \in Devices :
                   /\ <<n, d>> \in T.kernel => Leads([S.rt EXCEPT ![s] = e], s, n, d)
                   /\ scope.apply => (Leads([S.rt EXCEPT ![s] = e], s, n, d) => <<n, d>> \in T.kernel)
  <2>1. \A d \in Devices : /\ <<n, d>> \in S.kernel => Leads(S.rt, s, n, d)
                           /\ scope.apply => (Leads(S.rt, s, n, d) => <<n, d>> \in S.kernel)
    BY <1>1, <1>10
  <2>2. \A d \in Devices : Leads(T.rt, s, n, d) <=> Leads(S.rt, s, n, d)
    BY <1>1, <1>4, <1>7 DEF Leads
  <2> QED BY <1>6, <2>1, <2>2
<1>11. StoreOK(T)
  <2>1. T.intact => S.intact
    BY <1>6
  <2>2. Room => (S.rt[s].used => S.rt[s].addr = n)
    BY <1>1
  <2> QED BY <1>1, <1>4, <1>5, <1>6, <1>8, <1>9, <1>10, <2>1, <2>2, PutKeeps
<1> QED BY <1>11 DEF T

\* A local route that is dropped.
LEMMA DropIs ==
  ASSUME NEW S \in Stores, NEW s \in Slots
  PROVE  Is(LostNode(RouteRm(S, s), s), [S.rt EXCEPT ![s] = Unused(@)], ListRemove(S.out, s),
            S.kernel \ {<<S.rt[s].addr, "tty">>}, S.intact)
<1> DEFINE R == RouteRm(S, s)
<1>1. Is(R, [S.rt EXCEPT ![s] = Unused(@)], S.out, S.kernel, S.intact)
  BY RmIs
<1> HIDE DEF R
<1>2. R \in Stores
  BY <1>1 DEF Is
<1>3. Is(LostNode(R, s), R.rt, ListRemove(R.out, s), R.kernel \ {<<R.rt[s].addr, "tty">>}, R.intact)
  BY <1>2, LostIs
<1>4. R.rt[s].addr = S.rt[s].addr
  <2>1. S.rt[s] \in Entries /\ S.rt \in [Slots -> Entries]
    BY StoreFields
  <2>2. Unused(S.rt[s]).addr = S.rt[s].addr
    BY <2>1, UnusedIs
  <2> QED BY <1>1, <2>1, <2>2 DEF Is
<1>5. Is(LostNode(R, s), [S.rt EXCEPT ![s] = Unused(@)], ListRemove(S.out, s),
         S.kernel \ {<<S.rt[s].addr, "tty">>}, S.intact)
  BY <1>1, <1>3, <1>4 DEF Is
<1> QED BY <1>5 DEF R

LEMMA DropKeeps ==
  ASSUME Env, NEW S, StoreOK(S), NEW n \in scope.nodes, NEW s \in SlotsOf(S, n),
         S.rt[s].from = "DAO"
  PROVE  StoreOK(LostNode(RouteRm(S, s), s))
<1> DEFINE T == LostNode(RouteRm(S, s), s)
           M == {<<S.rt[s].addr, "tty">>}
<1>1. s \in Slots /\ S.rt[s].used /\ S.rt[s].addr = n /\ S \in Stores /\ (Lonely => s = NB - 2)
  BY KnownSlot DEF StoreOK
<1>2. Is(T, [S.rt EXCEPT ![s] = Unused(@)], ListRemove(S.out, s), S.kernel \ M, S.intact)
  BY <1>1, DropIs
<1>3. \A p \in M : p[1] = S.rt[s].addr
  OBVIOUS
<1>4. <<S.rt[s].addr, "tty">> \in M
  OBVIOUS
<1>5. s \in LocalOf(S.rt)
  BY <1>1 DEF LocalOf
<1> HIDE DEF T, M
<1>6. /\ T \in Stores /\ T.rt = [S.rt EXCEPT ![s] = Unused(@)] /\ T.out = ListRemove(S.out, s)
      /\ T.kernel = S.kernel \ M /\ (T.intact <=> S.intact)
  BY <1>2 DEF Is
<1>7. StoreOK(T)
  BY <1>1, <1>3, <1>4, <1>5, <1>6, RemoveKeeps
<1> QED BY <1>7 DEF T

\* One entry of the cleaner's walk.
LEMMA CleanIs ==
  ASSUME NEW S \in Stores, NEW s \in Slots, Over(S.rt[s])
  PROVE  Is(Cleaned(S, s), [S.rt EXCEPT ![s] = Unused(@)], ListRemove(S.out, s),
            S.kernel \ {<<S.rt[s].addr, "tty">>}, S.intact)
<1>1. Cleaned(S, s) = LostNode(RouteRm(S, s), s)
  BY DEF Cleaned
<1> QED BY <1>1, DropIs

LEMMA CleanKeeps ==
  ASSUME Env, NEW S, StoreOK(S), NEW s \in Slots,
         S.intact \/ Lonely => s \in LocalOf(S.rt)
  PROVE  /\ StoreOK(Cleaned(S, s))
         /\ Cleaned(S, s).intact <=> S.intact
         /\ LocalOf(Cleaned(S, s).rt) = IF Over(S.rt[s]) THEN LocalOf(S.rt) \ {s} ELSE LocalOf(S.rt)
         /\ \A ord \in [Slots -> Nat] :
              s \in LocalOf(S.rt) /\ Sorted(S.out, LocalOf(S.rt), ord)
                => Sorted(Cleaned(S, s).out, LocalOf(Cleaned(S, s).rt), ord)
         /\ \A t \in Slots \ {s} : Cleaned(S, s).rt[t] = S.rt[t]
         /\ Over(S.rt[s]) => Cleaned(S, s).rt[s] = Unused(S.rt[s])
<1>1. CASE ~Over(S.rt[s])
  <2>1. Cleaned(S, s) = S
    BY <1>1 DEF Cleaned
  <2> QED BY <1>1, <2>1
<1>2. CASE Over(S.rt[s])
  <2> DEFINE T == Cleaned(S, s)
             M == {<<S.rt[s].addr, "tty">>}
  <2>1. S \in Stores /\ S.rt \in [Slots -> Entries]
    BY StoreFields DEF StoreOK
  <2>2. Is(T, [S.rt EXCEPT ![s] = Unused(@)], ListRemove(S.out, s), S.kernel \ M, S.intact)
    BY <1>2, <2>1, CleanIs
  <2>3. \A p \in M : p[1] = S.rt[s].addr
    OBVIOUS
  <2>4. <<S.rt[s].addr, "tty">> \in M
    OBVIOUS
  <2> HIDE DEF T, M
  <2>5. /\ T \in Stores /\ T.rt = [S.rt EXCEPT ![s] = Unused(@)] /\ T.out = ListRemove(S.out, s)
        /\ T.kernel = S.kernel \ M /\ (T.intact <=> S.intact)
    BY <2>2 DEF Is
  <2>6. /\ StoreOK(T)
        /\ LocalOf(T.rt) = LocalOf(S.rt) \ {s}
        /\ \A ord \in [Slots -> Nat] : s \in LocalOf(S.rt) /\ Sorted(S.out, LocalOf(S.rt), ord)
                                        => Sorted(T.out, LocalOf(T.rt), ord)
    BY <2>3, <2>4, <2>5, RemoveKeeps
  <2>7. T.rt[s] = Unused(S.rt[s]) /\ \A t \in Slots \ {s} : T.rt[t] = S.rt[t]
    BY <2>1, <2>5
  <2> QED BY <1>2, <2>5, <2>6, <2>7 DEF T
<1> QED BY <1>1, <1>2

-----------------------------------------------------------------------------
(* One option *)

FirstOf(S, n) == CHOOSE s \in SlotsOf(S, n) : \A t \in SlotsOf(S, n) : s <= t

LEMMA FirstSlotIs ==
  ASSUME NEW S, NEW n, SlotsOf(S, n) # {}
  PROVE  FirstOf(S, n) \in SlotsOf(S, n)
<1>1. SlotsOf(S, n) \in SUBSET Nat
  <2>1. SlotsOf(S, n) \subseteq Slots
    BY DEF SlotsOf
  <2> QED BY <2>1, SlotsAre
<1>2. \E s \in SlotsOf(S, n) : \A t \in SlotsOf(S, n) : s <= t
  BY <1>1, LeastNatural
<1> QED BY <1>2 DEF FirstOf

\* What a binding needs no more: the node's route is as new, or is this binding.
Told(S, n, g, stamp) ==
  \E s \in SlotsOf(S, n) :
    ~Newer(S.rt[s].start, stamp) \/ (S.rt[s].from = "6LBR" /\ S.rt[s].gw = g)

\* A route that a binding made or moved.
Moved(S, T, s, n, g, stamp) ==
  /\ T.rt = [S.rt EXCEPT ![s] = T.rt[s]]
  /\ T.rt[s] \in Entries /\ T.rt[s].used /\ T.rt[s].addr = n
  /\ T.rt[s].from = "6LBR" /\ T.rt[s].gw = g /\ T.rt[s].start = stamp
  /\ T.intact => S.intact

LEMMA NioIs ==
  ASSUME Env, NEW S, StoreOK(S), NEW n \in scope.nodes, NEW handoff, handoff # "UNKNOWN",
         NEW g \in Gws, NEW stamp \in 1 .. now
  PROVE  LET T == mob_add_nio(S, n, handoff, g, stamp)
         IN /\ StoreOK(T)
            /\ \/ T = S /\ Told(S, n, g, stamp)
               \/ SlotsOf(S, n) = {} /\ Slot(S) = NoSlot /\ T.rt = S.rt /\ (T.intact => S.intact)
               \/ SlotsOf(S, n) = {} /\ Slot(S) \in Slots /\ Moved(S, T, Slot(S), n, g, stamp)
               \/ \E s \in SlotsOf(S, n) :
                    Moved(S, T, s, n, g, stamp) /\ S.rt[s].start <= stamp
<1> DEFINE T == mob_add_nio(S, n, handoff, g, stamp)
           s == FirstOf(S, n)
<1>1. S \in Stores /\ S.rt \in [Slots -> Entries]
  BY StoreFields DEF StoreOK
<1>2. CASE SlotsOf(S, n) = {} /\ Slot(S) = NoSlot
  <2>1. T = Bind(S, n, g, stamp)
    BY <1>2 DEF mob_add_nio
  <2> DEFINE C == change_route(S, n, TRUE, g)
             k == IF ~scope.apply THEN S.kernel ELSE S.kernel \cup {<<n, g>>}
  <2>2. Is(C, S.rt, S.out, k, S.intact)
    <3>1. <<n, g>> \in scope.nodes \X Devices
      BY DEF Devices
    <3> QED BY <1>1, <3>1, ChangeIs
  <2>3. T = change_route(C, n, FALSE, g)
    BY <1>2, <2>1 DEF Bind
  <2> HIDE DEF C, k, T
  <2>4. C \in Stores
    BY <2>2 DEF Is
  <2>5. Is(T, C.rt, C.out, IF ~scope.apply THEN C.kernel ELSE C.kernel \ {<<n, g>>}, C.intact)
    BY <2>3, <2>4, ChangeIs
  <2>6. T.rt = S.rt /\ (T.intact => S.intact)
    BY <2>2, <2>5 DEF Is
  <2>7. StoreOK(T)
    BY <1>2, <2>1, BindKeeps
  <2> QED BY <1>2, <2>6, <2>7 DEF T
<1>3. CASE SlotsOf(S, n) = {} /\ Slot(S) # NoSlot
  <2>1. T = Bind(S, n, g, stamp)
    BY <1>3 DEF mob_add_nio
  <2> DEFINE z == Slot(S)
             e == BoundTo(NewEntry(n), g, stamp)
  <2>2. z \in Slots
    BY <1>3, SlotIs
  <2>3. Is(T, [S.rt EXCEPT ![z] = e], Zeroed(S.out, z),
           IF scope.apply THEN S.kernel \cup {<<n, g>>} ELSE S.kernel,
           S.intact /\ ~(S.rt[z].used /\ S.rt[z].from = "DAO"))
    BY <1>1, <2>1, <2>2, BindIs
  <2>4. e \in Entries /\ e.used /\ e.addr = n /\ e.from = "6LBR" /\ e.gw = g /\ e.start = stamp
    BY NewEntryIs, BoundIs
  <2>5. StoreOK(T)
    BY <1>3, <2>1, BindKeeps
  <2> HIDE DEF T, z, e
  <2>6. T.rt = [S.rt EXCEPT ![z] = e] /\ (T.intact => S.intact)
    BY <2>3 DEF Is
  <2>7. T.rt[z] = e
    BY <1>1, <2>2, <2>6
  <2>8. Moved(S, T, z, n, g, stamp)
    BY <2>4, <2>6, <2>7 DEF Moved
  <2> QED BY <1>3, <2>2, <2>5, <2>8 DEF T, z
<1>4. CASE SlotsOf(S, n) # {}
  <2>1. /\ s \in SlotsOf(S, n) /\ s \in Slots /\ S.rt[s] \in Entries /\ S.rt[s].used
        /\ S.rt[s].addr = n /\ S.rt[s].start >= 1
    <3>1. s \in SlotsOf(S, n)
      BY <1>4, FirstSlotIs
    <3> QED BY <3>1, KnownSlot
  <2>2. T = IF ~Newer(S.rt[s].start, stamp) THEN S
            ELSE IF S.rt[s].from = "6LBR" /\ S.rt[s].gw = g THEN S
            ELSE Rebind(S, s, n, g, stamp)
    BY <1>4 DEF mob_add_nio, FirstOf
  <2> HIDE DEF s
  <2>3. CASE ~Newer(S.rt[s].start, stamp) \/ (S.rt[s].from = "6LBR" /\ S.rt[s].gw = g)
    <3>1. T = S
      BY <2>2, <2>3
    <3>2. Told(S, n, g, stamp)
      BY <2>1, <2>3 DEF Told
    <3> HIDE DEF T
    <3> QED BY <3>1, <3>2 DEF T
  <2>4. CASE ~(~Newer(S.rt[s].start, stamp) \/ (S.rt[s].from = "6LBR" /\ S.rt[s].gw = g))
    <3> DEFINE e == BoundTo(S.rt[s], g, stamp)
               k == IF S.rt[s].from # "6LBR" THEN S.kernel \ {<<n, "tty">>}
                    ELSE IF scope.apply THEN S.kernel \ {<<n, S.rt[s].gw>>}
                    ELSE S.kernel
    <3>1. T = Rebind(S, s, n, g, stamp)
      BY <2>2, <2>4
    <3>2. StoreOK(T)
      BY <2>1, <3>1, RebindKeeps
    <3>3. Is(T, [S.rt EXCEPT ![s] = e],
             IF S.rt[s].from = "6LBR" THEN S.out ELSE ListRemove(S.out, s),
             IF scope.apply THEN k \cup {<<n, g>>} ELSE k, S.intact)
      BY <1>1, <2>1, <3>1, RebindIs
    <3>4. e \in Entries /\ e.used /\ e.addr = n /\ e.from = "6LBR" /\ e.gw = g /\ e.start = stamp
      BY <2>1, BoundIs
    <3> HIDE DEF T, e
    <3>5. T.rt = [S.rt EXCEPT ![s] = e] /\ (T.intact => S.intact)
      BY <3>3 DEF Is
    <3>6. T.rt[s] = e
      BY <1>1, <2>1, <3>5
    <3>7. Moved(S, T, s, n, g, stamp)
      BY <3>4, <3>5, <3>6 DEF Moved
    <3>8. S.rt[s].start <= stamp
      <4>1. S.rt[s].start \in Nat /\ stamp \in Nat
        BY <2>1, EnvIs DEF Entries
      <4> QED BY <2>1, <2>4, <4>1 DEF Newer
    <3> QED BY <2>1, <3>2, <3>7, <3>8 DEF T
  <2> QED BY <2>3, <2>4
<1> QED BY <1>2, <1>3, <1>4

\* A binding that is known changes nothing.
LEMMA ToldSilent ==
  ASSUME Env, NEW S, StoreOK(S), NEW n \in scope.nodes, NEW handoff, handoff # "UNKNOWN",
         NEW g \in Gws, NEW stamp, Told(S, n, g, stamp)
  PROVE  mob_add_nio(S, n, handoff, g, stamp) = S
<1> DEFINE s == FirstOf(S, n)
<1>1. PICK t \in SlotsOf(S, n) :
        ~Newer(S.rt[t].start, stamp) \/ (S.rt[t].from = "6LBR" /\ S.rt[t].gw = g)
  BY DEF Told
<1>2. s \in SlotsOf(S, n)
  BY <1>1, FirstSlotIs
<1>3. s = t
  BY <1>1, <1>2 DEF StoreOK, TableOK, SlotsOf
<1>4. mob_add_nio(S, n, handoff, g, stamp) =
        IF ~Newer(S.rt[s].start, stamp) THEN S
        ELSE IF S.rt[s].from = "6LBR" /\ S.rt[s].gw = g THEN S
        ELSE Rebind(S, s, n, g, stamp)
  BY <1>1 DEF mob_add_nio, FirstOf
<1> HIDE DEF s
<1> QED BY <1>1, <1>3, <1>4

\* A deletion changes nothing: it has no time stamp, and every route of a node
\* has one.
LEMMA DeletionSilent ==
  ASSUME Env, NEW S, StoreOK(S), NEW n \in scope.nodes, NEW g
  PROVE  mob_add_nio(S, n, "UNKNOWN", g, 0) = S
<1>1. CASE SlotsOf(S, n) = {}
  BY <1>1 DEF mob_add_nio
<1>2. CASE SlotsOf(S, n) # {}
  <2> DEFINE s == FirstOf(S, n)
  <2>1. S.rt[s].start >= 1 /\ S.rt[s].start \in Nat
    <3>1. s \in SlotsOf(S, n)
      BY <1>2, FirstSlotIs
    <3>2. S.rt[s].start >= 1 /\ S.rt[s] \in Entries
      BY <3>1, KnownSlot
    <3> QED BY <3>2, EnvIs DEF Entries
  <2>2. ~Newer(S.rt[s].start, 0)
    BY <2>1 DEF Newer
  <2>3. mob_add_nio(S, n, "UNKNOWN", g, 0) =
          IF ~Newer(S.rt[s].start, 0) THEN S ELSE Delete(S, s, n, g)
    BY <1>2 DEF mob_add_nio, FirstOf
  <2> QED BY <2>2, <2>3
<1> QED BY <1>1, <1>2

-----------------------------------------------------------------------------
(* An update: bindings, each an address and its time stamp, then deletions *)
(* (to a backup, also bindings that follow them and are read as deletions) *)

Prefers(v) == [type |-> "PREF", val |-> v]
Names(n)   == [type |-> "NIO", val |-> n]
Stamps(t)  == [type |-> "TIMESTAMP", val |-> t]

\* The options o up to the k-th bind the nodes of the function st.
BindsUpTo(o, st, k) ==
  \A i \in 1 .. k :
    \/ o[i] = Prefers("NEW_BINDING")
    \/ i < k /\ \E n \in DOMAIN st : o[i] = Names(n) /\ o[i + 1] = Stamps(st[n])
    \/ i > 1 /\ \E n \in DOMAIN st : o[i - 1] = Names(n) /\ o[i] = Stamps(st[n])

\* Those after it delete; on a backup bindings may follow, which it takes for
\* deletions.
Deletes(x) ==
  \/ \E n \in scope.nodes : x = Names(n)
  \/ ~scope.apply /\ \E t \in Nat : x = Stamps(t)

DeletesFrom(o, k) ==
  \A i \in k + 1 .. Len(o) : IF i = k + 1 THEN o[i] = Prefers("UNKNOWN") ELSE Deletes(o[i])

Shaped(o, st, k) == k \in 0 .. Len(o) /\ BindsUpTo(o, st, k) /\ DeletesFrom(o, k)

MsgOK(m) ==
  /\ m.gw \in scope.gws
  /\ DOMAIN m.stamps \subseteq scope.nodes /\ \A n \in DOMAIN m.stamps : m.stamps[n] \in 1 .. now
  /\ Len(m.options) \in Nat
  /\ \E k \in Nat : Shaped(m.options, m.stamps, k)

Accs == [S : Stores, nio : scope.nodes \cup {Self}, handoff : {"NO_CHANGE", "NEW_BINDING", "UNKNOWN"}]

\* Where the walk over the options is after the i-th.
Phase(o, k, i, acc) ==
  IF i <= k
  THEN /\ acc.handoff # "UNKNOWN"
       /\ acc.nio # Self => i >= 1 /\ o[i] = Names(acc.nio)
       /\ \A n \in scope.nodes : i >= 1 /\ o[i] = Names(n) => acc.nio = n
  ELSE acc.handoff = "UNKNOWN"

LEMMA OptionKinds ==
  /\ \A v, n : Prefers(v) # Names(n) /\ Prefers(v).type = "PREF" /\ Prefers(v).val = v
  /\ \A n, t : Names(n) # Stamps(t) /\ Names(n).type = "NIO" /\ Names(n).val = n
  /\ \A v, t : Prefers(v) # Stamps(t) /\ Stamps(t).type = "TIMESTAMP" /\ Stamps(t).val = t
<1>1. \A v : Prefers(v).type = "PREF" /\ Prefers(v).val = v
  BY DEF Prefers
<1>2. \A v : Names(v).type = "NIO" /\ Names(v).val = v
  BY DEF Names
<1>3. \A v : Stamps(v).type = "TIMESTAMP" /\ Stamps(v).val = v
  BY DEF Stamps
<1>4. "PREF" # "NIO" /\ "NIO" # "TIMESTAMP" /\ "PREF" # "TIMESTAMP"
  OBVIOUS
<1>5. \A v, n : Prefers(v) # Names(n)
  BY <1>1, <1>2, <1>4
<1>6. \A n, t : Names(n) # Stamps(t)
  BY <1>2, <1>3, <1>4
<1>7. \A v, t : Prefers(v) # Stamps(t)
  BY <1>1, <1>3, <1>4
<1> QED BY <1>1, <1>2, <1>3, <1>5, <1>6, <1>7

\* An address that waits for its time stamp is not followed by something else.
LEMMA NoneWaits ==
  ASSUME Env, NEW o, NEW st, NEW k \in Nat, Shaped(o, st, k), NEW i \in 0 .. k, NEW acc \in Accs,
         Phase(o, k, i, acc), i < k => \A t : o[i + 1] # Stamps(t)
  PROVE  acc.nio = Self
<1> SUFFICES ASSUME acc.nio # Self PROVE FALSE
  OBVIOUS
<1>1. i >= 1 /\ i \in 1 .. k /\ o[i] = Names(acc.nio)
  BY DEF Phase
<1>2. i < k /\ \E n \in DOMAIN st : o[i + 1] = Stamps(st[n])
  BY <1>1, OptionKinds DEF Shaped, BindsUpTo
<1> QED BY <1>2

\* What is pending when the deletions are read changes nothing.
LEMMA FlushSilent ==
  ASSUME Env, NEW acc \in Accs, StoreOK(acc.S), NEW g, acc.nio = Self \/ acc.handoff = "UNKNOWN"
  PROVE  /\ Flush(acc, g) \in Accs /\ Flush(acc, g).S = acc.S
         /\ Flush(acc, g).nio = Self /\ Flush(acc, g).handoff = acc.handoff
<1>1. CASE acc.nio = Self
  BY <1>1 DEF Flush
<1>2. CASE acc.nio # Self
  <2>1. acc.nio \in scope.nodes /\ acc.handoff = "UNKNOWN"
    BY <1>2 DEF Accs
  <2>2. mob_add_nio(acc.S, acc.nio, acc.handoff, g, 0) = acc.S
    BY <2>1, DeletionSilent
  <2>3. Flush(acc, g) = [acc EXCEPT !.S = acc.S, !.nio = Self]
    BY <1>2, <2>2 DEF Flush
  <2> QED BY <2>3 DEF Accs
<1> QED BY <1>1, <1>2

\* X[i] is what the store may be after the i-th option, of which k bind.
Told2(m, k, X) ==
  /\ \A i \in 0 .. Len(m.options) : X[i] \in SUBSET Stores /\ \A T \in X[i] : StoreOK(T)
  /\ \A i \in 1 .. Len(m.options) : \A T \in X[i - 1] :
       /\ i > k \/ (\A t : m.options[i] # Stamps(t)) => T \in X[i]
       /\ \A n \in DOMAIN m.stamps :
            1 < i /\ i <= k /\ m.options[i - 1] = Names(n) /\ m.options[i] = Stamps(m.stamps[n])
              => mob_add_nio(T, n, "NEW_BINDING", m.gw, m.stamps[n]) \in X[i]

\* A backup keeps what it is told to delete.
LEMMA BackupKeeps ==
  ASSUME ~scope.apply, NEW S, NEW n, NEW g, NEW t
  PROVE  mob_add_nio(S, n, "UNKNOWN", g, t) = S
BY DEF mob_add_nio, Delete

LEMMA AnyHandoff ==
  ASSUME NEW S, NEW n, NEW h, h # "UNKNOWN", NEW g, NEW t
  PROVE  mob_add_nio(S, n, h, g, t) = mob_add_nio(S, n, "NEW_BINDING", g, t)
<1>1. "NEW_BINDING" # "UNKNOWN"
  OBVIOUS
<1> QED BY <1>1 DEF mob_add_nio

LEMMA OptionStep ==
  ASSUME Env, NEW m, NEW k \in Nat, Shaped(m.options, m.stamps, k), MsgOK(m), NEW X,
         Told2(m, k, X),
         NEW i \in 1 .. Len(m.options), NEW acc \in Accs, acc.S \in X[i - 1],
         Phase(m.options, k, i - 1, acc)
  PROVE  LET a == Option(acc, m.options[i], m.gw)
         IN a \in Accs /\ a.S \in X[i] /\ Phase(m.options, k, i, a)
<1> DEFINE o == m.options
           a == Option(acc, o[i], m.gw)
<1>1. /\ Len(o) \in Nat /\ i - 1 \in 0 .. Len(o) /\ StoreOK(acc.S) /\ Self \notin scope.nodes
      /\ k <= Len(o)
  <2>1. Len(o) \in Nat /\ k <= Len(o)
    BY DEF MsgOK, Shaped
  <2>2. i - 1 \in 0 .. Len(o)
    BY <2>1
  <2> QED BY <2>1, <2>2, EnvIs DEF Told2
<1>2. ASSUME NEW v, o[i] = Prefers(v), v \in {"NEW_BINDING", "UNKNOWN"},
             acc.nio = Self \/ acc.handoff = "UNKNOWN"
      PROVE  a \in Accs /\ a.S \in X[i] /\ a.nio = Self /\ a.handoff = v
  <2> DEFINE F == Flush(acc, m.gw)
  <2>1. F \in Accs /\ F.S = acc.S /\ F.nio = Self
    BY <1>1, <1>2, FlushSilent
  <2>2. a = [F EXCEPT !.handoff = v]
    BY <1>2, OptionKinds DEF Option
  <2> HIDE DEF F
  <2>3. a \in Accs /\ a.S = acc.S /\ a.nio = Self /\ a.handoff = v
    BY <1>2, <2>1, <2>2 DEF Accs
  <2>4. \A t : o[i] # Stamps(t)
    BY <1>2, OptionKinds
  <2> QED BY <2>3, <2>4 DEF Told2
<1>3. ASSUME NEW n \in scope.nodes, o[i] = Names(n), acc.nio = Self \/ acc.handoff = "UNKNOWN"
      PROVE  a \in Accs /\ a.S \in X[i] /\ a.nio = n /\ a.handoff = acc.handoff
  <2> DEFINE F == Flush(acc, m.gw)
  <2>1. F \in Accs /\ F.S = acc.S /\ F.nio = Self /\ F.handoff = acc.handoff
    BY <1>1, <1>3, FlushSilent
  <2>2. a = [F EXCEPT !.nio = n]
    BY <1>3, OptionKinds DEF Option
  <2> HIDE DEF F
  <2>3. a \in Accs /\ a.S = acc.S /\ a.nio = n /\ a.handoff = acc.handoff
    BY <1>3, <2>1, <2>2 DEF Accs
  <2>4. \A t : o[i] # Stamps(t)
    BY <1>3, OptionKinds
  <2> QED BY <2>3, <2>4 DEF Told2
<1>4. CASE i <= k
  <2>1. acc.handoff # "UNKNOWN" /\ i - 1 \in 0 .. k /\ i - 1 < k /\ i - 1 + 1 = i /\ i \in 1 .. k
    BY <1>1, <1>4 DEF Phase
  <2>2. (\A t : o[i] # Stamps(t)) => acc.nio = Self
    BY <2>1, NoneWaits
  <2>3. CASE o[i] = Prefers("NEW_BINDING")
    <3>1. acc.nio = Self
      BY <2>2, <2>3, OptionKinds
    <3>2. a \in Accs /\ a.S \in X[i] /\ a.nio = Self /\ a.handoff = "NEW_BINDING"
      BY <1>2, <2>3, <3>1
    <3>3. \A n : o[i] # Names(n)
      BY <2>3, OptionKinds
    <3> HIDE DEF a, o
    <3>4. Phase(o, k, i, a)
      BY <1>4, <3>2, <3>3 DEF Phase
    <3> QED BY <3>2, <3>4 DEF a, o
  <2>4. ASSUME NEW n \in DOMAIN m.stamps, o[i] = Names(n) PROVE a \in Accs /\ a.S \in X[i] /\ Phase(o, k, i, a)
    <3>1. acc.nio = Self /\ n \in scope.nodes
      BY <2>2, <2>4, OptionKinds DEF MsgOK
    <3>2. a \in Accs /\ a.S \in X[i] /\ a.nio = n /\ a.handoff = acc.handoff
      BY <1>3, <2>4, <3>1
    <3>3. ASSUME NEW p, o[i] = Names(p) PROVE p = n
      <4>1. Names(p).val = p /\ Names(n).val = n
        BY OptionKinds
      <4> QED BY <2>4, <3>3, <4>1
    <3> HIDE DEF a, o
    <3>4. Phase(o, k, i, a)
      BY <1>4, <2>1, <2>4, <3>2, <3>3 DEF Phase
    <3> QED BY <3>2, <3>4
  <2>5. ASSUME NEW n \in DOMAIN m.stamps, i > 1, o[i - 1] = Names(n), o[i] = Stamps(m.stamps[n])
        PROVE  a \in Accs /\ a.S \in X[i] /\ Phase(o, k, i, a)
    <3>1. n \in scope.nodes /\ acc.nio = n /\ acc.nio # Self
      <4>1. n \in scope.nodes
        BY DEF MsgOK
      <4> QED BY <1>1, <2>1, <2>5, <4>1 DEF Phase
    <3> DEFINE T == mob_add_nio(acc.S, acc.nio, acc.handoff, m.gw, m.stamps[n])
    <3>2. T \in X[i]
      <4>1. mob_add_nio(acc.S, n, "NEW_BINDING", m.gw, m.stamps[n]) \in X[i]
        BY <1>4, <2>5 DEF Told2
      <4> QED BY <2>1, <3>1, <4>1, AnyHandoff
    <3>3. T \in Stores
      <4>1. i \in 0 .. Len(o)
        BY <1>1
      <4> HIDE DEF T
      <4> QED BY <3>2, <4>1 DEF Told2
    <3>4. a = [acc EXCEPT !.S = T, !.nio = Self]
      <4>1. o[i].type = "TIMESTAMP" /\ o[i].val = m.stamps[n]
        BY <2>5, OptionKinds
      <4>2. a = IF acc.nio = Self THEN acc
                ELSE [acc EXCEPT !.S = mob_add_nio(@, acc.nio, acc.handoff, m.gw, o[i].val), !.nio = Self]
        BY <4>1 DEF Option
      <4> HIDE DEF a
      <4> QED BY <3>1, <4>1, <4>2
    <3> HIDE DEF T
    <3>5. a \in Accs /\ a.S = T /\ a.nio = Self /\ a.handoff = acc.handoff
      BY <3>3, <3>4 DEF Accs
    <3>6. \A p : o[i] # Names(p)
      BY <2>5, OptionKinds
    <3> HIDE DEF a, o
    <3>7. Phase(o, k, i, a)
      BY <1>4, <2>1, <3>5, <3>6 DEF Phase
    <3> QED BY <3>2, <3>5, <3>7
  <2> HIDE DEF a
  <2>6. \/ o[i] = Prefers("NEW_BINDING")
        \/ \E n \in DOMAIN m.stamps : o[i] = Names(n)
        \/ \E n \in DOMAIN m.stamps : i > 1 /\ o[i - 1] = Names(n) /\ o[i] = Stamps(m.stamps[n])
    BY <2>1 DEF Shaped, BindsUpTo
  <2> QED BY <2>3, <2>4, <2>5, <2>6 DEF a
<1>5. CASE i > k
  <2>1. i \in k + 1 .. Len(o)
    BY <1>1, <1>5
  <2>2. CASE i = k + 1
    <3>1. o[i] = Prefers("UNKNOWN")
      BY <2>1, <2>2 DEF Shaped, DeletesFrom
    <3>2. i - 1 = k /\ k \in 0 .. k /\ ~(k < k)
      BY <2>2
    <3>3. acc.nio = Self
      BY <3>2, NoneWaits
    <3>4. a \in Accs /\ a.S \in X[i] /\ a.handoff = "UNKNOWN"
      BY <1>2, <3>1, <3>3
    <3> HIDE DEF a
    <3>5. Phase(o, k, i, a)
      BY <1>5, <3>4 DEF Phase
    <3> QED BY <3>4, <3>5 DEF a
  <2>3. CASE i # k + 1
    <3>1. Deletes(o[i])
      BY <2>1, <2>3 DEF Shaped, DeletesFrom
    <3>2. acc.handoff = "UNKNOWN"
      BY <1>5, <2>1, <2>3 DEF Phase
    <3>3. a \in Accs /\ a.S \in X[i] /\ a.handoff = "UNKNOWN"
      <4>1. ASSUME NEW n \in scope.nodes, o[i] = Names(n)
            PROVE  a \in Accs /\ a.S \in X[i] /\ a.handoff = "UNKNOWN"
        BY <1>3, <3>2, <4>1
      <4>2. ASSUME ~scope.apply, NEW t \in Nat, o[i] = Stamps(t)
            PROVE  a \in Accs /\ a.S \in X[i] /\ a.handoff = "UNKNOWN"
        <5>1. o[i].type = "TIMESTAMP" /\ o[i].val = t
          BY <4>2, OptionKinds
        <5>2. a = IF acc.nio = Self THEN acc
                  ELSE [acc EXCEPT !.S = mob_add_nio(@, acc.nio, acc.handoff, m.gw, o[i].val), !.nio = Self]
          BY <5>1 DEF Option
        <5>3. mob_add_nio(acc.S, acc.nio, acc.handoff, m.gw, o[i].val) = acc.S
          BY <3>2, <4>2, BackupKeeps
        <5>4. a = acc \/ a = [acc EXCEPT !.S = acc.S, !.nio = Self]
          BY <5>2, <5>3
        <5> HIDE DEF a
        <5>5. a \in Accs /\ a.S = acc.S /\ a.handoff = acc.handoff
          BY <5>4 DEF Accs
        <5> QED BY <1>5, <3>2, <5>5 DEF Told2
      <4> QED BY <3>1, <4>1, <4>2 DEF Deletes
    <3> HIDE DEF a
    <3>5. Phase(o, k, i, a)
      BY <1>5, <3>3 DEF Phase
    <3> QED BY <3>3, <3>5 DEF a
  <2> QED BY <2>2, <2>3
<1> QED BY <1>1, <1>4, <1>5

\* An update takes the store through the sets X[0], X[1], ...
LEMMA Proceed ==
  ASSUME Env, NEW m, MsgOK(m), NEW k \in Nat, Shaped(m.options, m.stamps, k),
         NEW X, Told2(m, k, X), NEW S \in X[0]
  PROVE  mob_proceed_up(S, m) \in X[Len(m.options)]
<1> DEFINE o == m.options
           N == Len(m.options)
           g == m.gw
           c == [S |-> S, nio |-> Self, handoff |-> "NO_CHANGE"]
<1>1. k \in Nat /\ Shaped(m.options, m.stamps, k)
  OBVIOUS
<1>2. N \in Nat /\ 0 \in 0 .. N /\ N \in 0 .. N /\ k <= N /\ S \in Stores
  <2>1. N \in Nat /\ k <= N
    BY <1>1 DEF MsgOK, Shaped
  <2>2. 0 \in 0 .. N
    BY <2>1
  <2> HIDE DEF N
  <2> QED BY <2>1, <2>2 DEF Told2, N
<1> DEFINE Good(i, a) == a \in Accs /\ a.S \in X[i] /\ Phase(o, k, i, a)
           Body(f) == [i \in 0 .. N |-> IF i = 0 THEN c ELSE Option(f[i - 1], o[i], g)]
           h == [i \in 1 .. N |-> [a \in Accs |-> IF Option(a, o[i], g) \in Accs THEN Option(a, o[i], g) ELSE a]]
           A == CHOOSE f : f = Body(f)
<1>3. Good(0, c)
  <2>1. c \in Accs /\ c.S = S /\ c.nio = Self /\ c.handoff = "NO_CHANGE"
    BY <1>2 DEF Accs
  <2> HIDE DEF c
  <2>2. Phase(o, k, 0, c)
    BY <2>1, <1>1 DEF Phase
  <2> QED BY <2>1, <2>2
<1>4. ASSUME NEW i \in 1 .. N, NEW a, Good(i - 1, a) PROVE Good(i, Option(a, o[i], g))
  BY <1>1, <1>4, OptionStep
<1>5. h \in [1 .. N -> [Accs -> Accs]]
  OBVIOUS
<1>6. mob_proceed_up(S, m) = Flush(A[N], g).S
  BY DEF mob_proceed_up
<1> HIDE DEF Good, h, c, o, N, g
<1>7. c \in Accs
  BY <1>3 DEF Good
<1>8. PICK f \in Runs(Accs, c, h, N) : TRUE
  BY <1>2, <1>5, <1>7, RunsExist
<1>9. /\ f \in [0 .. N -> Accs] /\ f[0] = c
      /\ \A i \in 1 .. N : f[i] = h[i][f[i - 1]] /\ i - 1 \in 0 .. N
  BY <1>2, <1>8 DEF Runs
<1>10. \A n \in Nat : n <= N => Good(n, f[n])
  <2> DEFINE Y == {n \in Nat : n <= N => Good(n, f[n])}
  <2>1. 0 \in Y
    BY <1>3, <1>9
  <2>2. ASSUME NEW n \in Nat, n \in Y PROVE n + 1 \in Y
    <3> SUFFICES ASSUME n + 1 <= N PROVE Good(n + 1, f[n + 1])
      OBVIOUS
    <3>1. Good(n, f[n]) /\ n + 1 \in 1 .. N /\ (n + 1) - 1 = n
      BY <1>2, <2>2
    <3>2. Good(n + 1, Option(f[n], o[n + 1], g))
      BY <1>4, <3>1
    <3>3. f[n + 1] = h[n + 1][f[n]]
      BY <1>9, <3>1
    <3>4. f[n] \in Accs /\ Option(f[n], o[n + 1], g) \in Accs
      BY <3>1, <3>2 DEF Good
    <3>5. h[n + 1][f[n]] = Option(f[n], o[n + 1], g)
      BY <3>1, <3>4 DEF h
    <3> QED BY <3>2, <3>3, <3>5
  <2> HIDE DEF Y
  <2>3. \A n \in Nat : n \in Y
    BY <2>1, <2>2, SetInduction
  <2> QED BY <2>3 DEF Y
<1>11. \A i \in 1 .. N : f[i] = Option(f[i - 1], o[i], g)
  <2> SUFFICES ASSUME NEW i \in 1 .. N PROVE f[i] = Option(f[i - 1], o[i], g)
    OBVIOUS
  <2>1. i - 1 \in Nat /\ i - 1 <= N
    BY <1>2
  <2>2. Good(i - 1, f[i - 1])
    BY <1>10, <2>1
  <2>3. Good(i, Option(f[i - 1], o[i], g))
    BY <1>4, <2>2
  <2>4. f[i - 1] \in Accs /\ Option(f[i - 1], o[i], g) \in Accs
    BY <2>2, <2>3 DEF Good
  <2>5. h[i][f[i - 1]] = Option(f[i - 1], o[i], g)
    BY <2>4 DEF h
  <2> QED BY <1>9, <2>5
<1>12. f = Body(f)
  BY <1>2, <1>9, <1>11
<1>13. A = Body(A)
  <2> HIDE DEF Body
  <2> QED BY <1>12
<1> HIDE DEF A
<1>14. \A i \in 0 .. N : A[i] = IF i = 0 THEN c ELSE Option(A[i - 1], o[i], g)
  BY <1>13
<1>15. \A n \in Nat : n <= N => Good(n, A[n])
  <2> DEFINE Y == {n \in Nat : n <= N => Good(n, A[n])}
  <2>1. 0 \in Y
    BY <1>2, <1>3, <1>14
  <2>2. ASSUME NEW n \in Nat, n \in Y PROVE n + 1 \in Y
    <3> SUFFICES ASSUME n + 1 <= N PROVE Good(n + 1, A[n + 1])
      OBVIOUS
    <3>1. Good(n, A[n]) /\ n + 1 \in 1 .. N /\ (n + 1) - 1 = n /\ n + 1 \in 0 .. N /\ n + 1 # 0
      BY <1>2, <2>2
    <3>2. Good(n + 1, Option(A[n], o[n + 1], g))
      BY <1>4, <3>1
    <3>3. A[n + 1] = Option(A[n], o[n + 1], g)
      BY <1>14, <3>1
    <3> QED BY <3>2, <3>3
  <2> HIDE DEF Y
  <2>3. \A n \in Nat : n \in Y
    BY <2>1, <2>2, SetInduction
  <2> QED BY <2>3 DEF Y
<1>16. Good(N, A[N])
  BY <1>2, <1>15
<1>17. A[N] \in Accs /\ A[N].S \in X[N] /\ Phase(o, k, N, A[N])
  BY <1>16 DEF Good
<1>18. StoreOK(A[N].S)
  BY <1>2, <1>17 DEF Told2, N
<1>19. A[N].nio = Self \/ A[N].handoff = "UNKNOWN"
  <2>1. CASE N = k
    <3>1. N \in 0 .. k /\ ~(N < k)
      BY <1>2, <2>1
    <3> QED BY <1>1, <1>17, <3>1, NoneWaits DEF o
  <2>2. CASE N # k
    BY <1>1, <1>2, <1>17, <2>2 DEF Phase
  <2> QED BY <2>1, <2>2
<1>20. Flush(A[N], g).S = A[N].S
  BY <1>17, <1>18, <1>19, FlushSilent
<1> QED BY <1>6, <1>17, <1>20 DEF N

-----------------------------------------------------------------------------
(* Updates *)

\* What an update may do to a store: it takes local routes away and leaves the
\* others alone, and where every node finds a slot no route is lost or gets an
\* older time stamp.
Grown(S, T) ==
  /\ T.intact => S.intact
  /\ \A s \in LocalOf(T.rt) : s \in LocalOf(S.rt) /\ T.rt[s] = S.rt[s]
  /\ Room => \A s \in Slots : S.rt[s].used =>
       T.rt[s].used /\ T.rt[s].addr = S.rt[s].addr /\ T.rt[s].start >= S.rt[s].start

LEMMA GrownSelf ==
  ASSUME Env, NEW S \in Stores
  PROVE  Grown(S, S)
<1>1. \A s \in Slots : S.rt[s].start \in Int
  BY StoreFields, EnvIs DEF Entries
<1> QED BY <1>1 DEF Grown

LEMMA GrownTwice ==
  ASSUME Env, NEW S \in Stores, NEW T \in Stores, NEW U \in Stores, Grown(S, T), Grown(T, U)
  PROVE  Grown(S, U)
<1>1. \A s \in Slots : S.rt[s].start \in Int /\ T.rt[s].start \in Int /\ U.rt[s].start \in Int
  BY StoreFields, EnvIs DEF Entries
<1>2. Room => \A s \in Slots : S.rt[s].used =>
        U.rt[s].used /\ U.rt[s].addr = S.rt[s].addr /\ U.rt[s].start >= S.rt[s].start
  BY <1>1 DEF Grown
<1>3. \A s \in LocalOf(U.rt) : s \in LocalOf(S.rt) /\ U.rt[s] = S.rt[s]
  BY DEF Grown
<1> QED BY <1>2, <1>3 DEF Grown

\* In a table with room a binding always finds a slot, and a free one.
LEMMA SlotFree ==
  ASSUME Env, Room, NEW S, StoreOK(S), NEW n \in scope.nodes, SlotsOf(S, n) = {}
  PROVE  Slot(S) \in Slots /\ Slot(S) # NoSlot /\ ~S.rt[Slot(S)].used
<1>1. Free(S) # {}
  BY RoomFree DEF StoreOK
<1>2. Slot(S) \in Free(S)
  BY <1>1, SlotIs
<1> QED BY <1>2, SlotsAre DEF Free

LEMMA NioGrown ==
  ASSUME Env, NEW S, StoreOK(S), NEW n \in scope.nodes, NEW handoff, handoff # "UNKNOWN",
         NEW g \in Gws, NEW stamp \in 1 .. now
  PROVE  Grown(S, mob_add_nio(S, n, handoff, g, stamp))
<1> DEFINE T == mob_add_nio(S, n, handoff, g, stamp)
<1>1. /\ StoreOK(T)
      /\ \/ T = S /\ Told(S, n, g, stamp)
         \/ SlotsOf(S, n) = {} /\ Slot(S) = NoSlot /\ T.rt = S.rt /\ (T.intact => S.intact)
         \/ SlotsOf(S, n) = {} /\ Slot(S) \in Slots /\ Moved(S, T, Slot(S), n, g, stamp)
         \/ \E s \in SlotsOf(S, n) : Moved(S, T, s, n, g, stamp) /\ S.rt[s].start <= stamp
  BY NioIs
<1> SUFFICES Grown(S, T)
  OBVIOUS
<1> HIDE DEF T
<1>2. S \in Stores /\ T \in Stores
  BY <1>1 DEF StoreOK
<1>3. \A s \in Slots : S.rt[s].start \in Int
  BY <1>2, StoreFields, EnvIs DEF Entries
<1>4. CASE T = S
  BY <1>2, <1>4, GrownSelf
<1>5. CASE T.rt = S.rt /\ (T.intact => S.intact)
  BY <1>3, <1>5 DEF Grown
<1>6. ASSUME NEW s \in Slots, Moved(S, T, s, n, g, stamp),
             Room => (S.rt[s].used => S.rt[s].addr = n /\ S.rt[s].start <= stamp)
      PROVE  Grown(S, T)
  <2>1. \A t \in Slots \ {s} : T.rt[t] = S.rt[t]
    BY <1>2, <1>6, StoreFields DEF Moved
  <2>2. T.rt[s].used /\ T.rt[s].addr = n /\ T.rt[s].from = "6LBR" /\ T.rt[s].start = stamp
        /\ (T.intact => S.intact)
    BY <1>6 DEF Moved
  <2>3. \A t \in LocalOf(T.rt) : t # s /\ t \in LocalOf(S.rt) /\ T.rt[t] = S.rt[t]
    BY <2>1, <2>2 DEF LocalOf
  <2>4. ASSUME Room, NEW t \in Slots, S.rt[t].used
        PROVE  T.rt[t].used /\ T.rt[t].addr = S.rt[t].addr /\ T.rt[t].start >= S.rt[t].start
    <3>1. CASE t = s
      BY <1>3, <1>6, <2>2, <2>4, <3>1
    <3>2. CASE t # s
      BY <1>3, <2>1, <2>4, <3>2
    <3> QED BY <3>1, <3>2
  <2> QED BY <2>2, <2>3, <2>4 DEF Grown
<1>7. CASE SlotsOf(S, n) = {} /\ Slot(S) \in Slots /\ Moved(S, T, Slot(S), n, g, stamp)
  <2>1. Room => ~S.rt[Slot(S)].used
    BY <1>7, SlotFree
  <2> QED BY <1>6, <1>7, <2>1
<1>8. CASE \E s \in SlotsOf(S, n) : Moved(S, T, s, n, g, stamp) /\ S.rt[s].start <= stamp
  <2>1. PICK s \in SlotsOf(S, n) : Moved(S, T, s, n, g, stamp) /\ S.rt[s].start <= stamp
    BY <1>8
  <2>2. s \in Slots /\ S.rt[s].addr = n
    BY DEF SlotsOf
  <2> QED BY <1>6, <2>1, <2>2
<1> QED BY <1>1, <1>4, <1>5, <1>7, <1>8

LEMMA MsgIs ==
  ASSUME Env, NEW m, MsgOK(m)
  PROVE  /\ m.gw \in Gws
         /\ \A n \in DOMAIN m.stamps : n \in scope.nodes /\ m.stamps[n] \in 1 .. now
         /\ Len(m.options) \in Nat
  BY EnvIs DEF MsgOK

\* An update keeps the store well-formed.
LEMMA ReceiveKeeps ==
  ASSUME Env, NEW S, StoreOK(S), NEW m, MsgOK(m)
  PROVE  StoreOK(mob_proceed_up(S, m)) /\ Grown(S, mob_proceed_up(S, m))
<1> DEFINE W == {T \in Stores : StoreOK(T) /\ Grown(S, T)}
           X == [i \in 0 .. Len(m.options) |-> W]
<1>1. S \in Stores
  BY DEF StoreOK
<1>2. S \in W
  BY <1>1, GrownSelf
<1>3. ASSUME NEW T \in W, NEW n \in DOMAIN m.stamps
      PROVE  mob_add_nio(T, n, "NEW_BINDING", m.gw, m.stamps[n]) \in W
  <2> DEFINE U == mob_add_nio(T, n, "NEW_BINDING", m.gw, m.stamps[n])
  <2>1. m.gw \in Gws /\ n \in scope.nodes /\ m.stamps[n] \in 1 .. now
    BY MsgIs
  <2>2. StoreOK(U)
    BY <2>1, NioIs
  <2>3. Grown(T, U)
    BY <2>1, NioGrown
  <2> HIDE DEF U
  <2>4. U \in Stores
    BY <2>2 DEF StoreOK
  <2>5. Grown(S, U)
    BY <1>1, <2>3, <2>4, GrownTwice
  <2>6. U \in W
    BY <2>2, <2>4, <2>5
  <2> QED BY <2>6 DEF U
<1>4. Len(m.options) \in Nat
  BY MsgIs
<1>5. W \in SUBSET Stores /\ \A T \in W : StoreOK(T) /\ Grown(S, T)
  OBVIOUS
<1> HIDE DEF W
<1>6. \A i \in 0 .. Len(m.options) : X[i] = W
  OBVIOUS
<1>7. \A i \in 1 .. Len(m.options) : X[i - 1] = W /\ X[i] = W
  BY <1>4
<1> HIDE DEF X
<1>11. PICK k \in Nat : Shaped(m.options, m.stamps, k)
  BY DEF MsgOK
<1>8. Told2(m, k, X)
  BY <1>3, <1>5, <1>6, <1>7 DEF Told2
<1>9. S \in X[0] /\ X[Len(m.options)] = W
  BY <1>2, <1>4, <1>6
<1>10. mob_proceed_up(S, m) \in W
  BY <1>8, <1>9, <1>11, Proceed
<1> QED BY <1>5, <1>10

-----------------------------------------------------------------------------
\* The nodes that the options up to the i-th bind, none after the k-th.
BoundBy(m, k, i) ==
  {n \in DOMAIN m.stamps :
     \E j \in 2 .. i : j <= k /\ m.options[j - 1] = Names(n) /\ m.options[j] = Stamps(m.stamps[n])}

\* A binding leaves its node told, and those told before.
LEMMA NioTells ==
  ASSUME Env, Room, NEW S, StoreOK(S), NEW n \in scope.nodes, NEW g \in Gws, NEW stamp \in 1 .. now
  PROVE  LET T == mob_add_nio(S, n, "NEW_BINDING", g, stamp)
         IN /\ StoreOK(T)
            /\ Told(T, n, g, stamp)
            /\ \A p \in scope.nodes \ {n} : \A t : Told(S, p, g, t) => Told(T, p, g, t)
<1> DEFINE T == mob_add_nio(S, n, "NEW_BINDING", g, stamp)
<1>1. /\ StoreOK(T)
      /\ \/ T = S /\ Told(S, n, g, stamp)
         \/ SlotsOf(S, n) = {} /\ Slot(S) = NoSlot /\ T.rt = S.rt /\ (T.intact => S.intact)
         \/ SlotsOf(S, n) = {} /\ Slot(S) \in Slots /\ Moved(S, T, Slot(S), n, g, stamp)
         \/ \E s \in SlotsOf(S, n) : Moved(S, T, s, n, g, stamp) /\ S.rt[s].start <= stamp
  BY NioIs
<1> HIDE DEF T
<1>2. S \in Stores /\ T \in Stores
  BY <1>1 DEF StoreOK
<1>3. CASE T = S /\ Told(S, n, g, stamp)
  BY <1>1, <1>3 DEF T
<1>4. ASSUME NEW s \in Slots, Moved(S, T, s, n, g, stamp), S.rt[s].used => S.rt[s].addr = n
      PROVE  /\ Told(T, n, g, stamp)
             /\ \A p \in scope.nodes \ {n} : \A t : Told(S, p, g, t) => Told(T, p, g, t)
  <2>1. \A t \in Slots \ {s} : T.rt[t] = S.rt[t]
    BY <1>2, <1>4, StoreFields DEF Moved
  <2>2. T.rt[s].used /\ T.rt[s].addr = n /\ T.rt[s].from = "6LBR" /\ T.rt[s].gw = g
    BY <1>4 DEF Moved
  <2>3. Told(T, n, g, stamp)
    BY <2>2 DEF Told, SlotsOf
  <2>4. ASSUME NEW p \in scope.nodes \ {n}, NEW t, Told(S, p, g, t) PROVE Told(T, p, g, t)
    <3>1. PICK u \in SlotsOf(S, p) :
             ~Newer(S.rt[u].start, t) \/ (S.rt[u].from = "6LBR" /\ S.rt[u].gw = g)
      BY <2>4 DEF Told
    <3>2. u \in Slots /\ u # s
      BY <1>4 DEF SlotsOf
    <3>3. T.rt[u] = S.rt[u]
      BY <2>1, <3>2
    <3>4. u \in SlotsOf(T, p)
      BY <3>2, <3>3 DEF SlotsOf
    <3> QED BY <3>1, <3>3, <3>4 DEF Told
  <2> QED BY <2>3, <2>4
<1>5. CASE SlotsOf(S, n) = {}
  <2>1. Slot(S) \in Slots /\ Slot(S) # NoSlot /\ ~S.rt[Slot(S)].used
    BY <1>5, SlotFree
  <2>2. Moved(S, T, Slot(S), n, g, stamp) \/ (T = S /\ Told(S, n, g, stamp))
    BY <1>1, <1>5, <2>1
  <2> QED BY <1>1, <1>3, <1>4, <2>1, <2>2 DEF T
<1>6. CASE \E s \in SlotsOf(S, n) : Moved(S, T, s, n, g, stamp) /\ S.rt[s].start <= stamp
  <2>1. PICK s \in SlotsOf(S, n) : Moved(S, T, s, n, g, stamp)
    BY <1>6
  <2>2. s \in Slots /\ S.rt[s].addr = n
    BY DEF SlotsOf
  <2> QED BY <1>1, <1>4, <2>1, <2>2 DEF T
<1> QED BY <1>1, <1>3, <1>5, <1>6 DEF T

\* The second time, an update changes nothing.
LEMMA TwiceIsOnce ==
  ASSUME Env, Room, NEW S, StoreOK(S), NEW m, MsgOK(m)
  PROVE  mob_proceed_up(mob_proceed_up(S, m), m) = mob_proceed_up(S, m)
<1>0. PICK k \in Nat : Shaped(m.options, m.stamps, k)
  BY DEF MsgOK
<1> DEFINE N == Len(m.options)
           o == m.options
           W(i) == {T \in Stores : StoreOK(T) /\ \A n \in BoundBy(m, k, i) : Told(T, n, m.gw, m.stamps[n])}
           X == [i \in 0 .. N |-> W(i)]
           S1 == mob_proceed_up(S, m)
           Y == [i \in 0 .. N |-> {S1}]
<1>1. N \in Nat /\ m.gw \in Gws /\ \A n \in DOMAIN m.stamps : n \in scope.nodes /\ m.stamps[n] \in 1 .. now
  BY MsgIs
<1>2. BoundBy(m, k, 0) = {}
  BY DEF BoundBy
<1>3. S \in W(0)
  BY <1>2 DEF StoreOK
<1>4. ASSUME NEW i \in 1 .. N, NEW n \in BoundBy(m, k, i), n \notin BoundBy(m, k, i - 1)
      PROVE  1 < i /\ i <= k /\ o[i - 1] = Names(n) /\ o[i] = Stamps(m.stamps[n])
  <2>1. PICK j \in 2 .. i : j <= k /\ o[j - 1] = Names(n) /\ o[j] = Stamps(m.stamps[n])
    BY DEF BoundBy
  <2>2. j = i
    <3>1. ~(j \in 2 .. i - 1)
      BY <1>4, <2>1 DEF BoundBy
    <3> QED BY <1>1, <3>1
  <2> QED BY <2>1, <2>2
<1>5. ASSUME NEW i \in 1 .. N, NEW T \in W(i - 1), i > k \/ \A t : o[i] # Stamps(t)
      PROVE  T \in W(i)
  BY <1>4, <1>5
<1>6. ASSUME NEW i \in 1 .. N, NEW T \in W(i - 1), NEW n \in DOMAIN m.stamps, 1 < i, i <= k,
             o[i - 1] = Names(n), o[i] = Stamps(m.stamps[n])
      PROVE  mob_add_nio(T, n, "NEW_BINDING", m.gw, m.stamps[n]) \in W(i)
  <2> DEFINE U == mob_add_nio(T, n, "NEW_BINDING", m.gw, m.stamps[n])
  <2>1. StoreOK(T) /\ n \in scope.nodes /\ m.stamps[n] \in 1 .. now
    BY <1>1
  <2>2. /\ StoreOK(U) /\ Told(U, n, m.gw, m.stamps[n])
        /\ \A p \in scope.nodes \ {n} : \A t : Told(T, p, m.gw, t) => Told(U, p, m.gw, t)
    BY <1>1, <2>1, NioTells
  <2> HIDE DEF U
  <2>3. ASSUME NEW p \in BoundBy(m, k, i) PROVE Told(U, p, m.gw, m.stamps[p])
    <3>1. CASE p = n
      BY <2>2, <3>1
    <3>2. CASE p # n
      <4>1. p \in DOMAIN m.stamps /\ p \in scope.nodes
        BY <1>1 DEF BoundBy
      <4>2. Names(p) # Names(n)
        BY <3>2, OptionKinds
      <4>3. p \in BoundBy(m, k, i - 1)
        BY <1>4, <1>6, <4>2
      <4>4. Told(T, p, m.gw, m.stamps[p])
        BY <4>3
      <4> QED BY <2>2, <3>2, <4>1, <4>4
    <3> QED BY <3>1, <3>2
  <2>4. U \in W(i)
    BY <2>2, <2>3 DEF StoreOK
  <2> QED BY <2>4 DEF U
<1>7. \A i \in 0 .. N : W(i) \in SUBSET Stores /\ \A T \in W(i) : StoreOK(T)
  OBVIOUS
<1>8. \A T \in W(N) : StoreOK(T) /\ \A n \in BoundBy(m, k, N) : Told(T, n, m.gw, m.stamps[n])
  OBVIOUS
<1> HIDE DEF W
<1>9. (\A i \in 0 .. N : X[i] = W(i)) /\ \A i \in 1 .. N : X[i - 1] = W(i - 1) /\ X[i] = W(i)
  BY <1>1
<1> HIDE DEF X
<1>10. Told2(m, k, X)
  BY <1>5, <1>6, <1>7, <1>9 DEF Told2
<1>11. X[0] = W(0) /\ X[N] = W(N)
  BY <1>1, <1>9
<1>12. S1 \in W(N)
  BY <1>0, <1>3, <1>10, <1>11, Proceed
<1>13. S1 \in Stores /\ StoreOK(S1)
  BY <1>8, <1>12 DEF StoreOK
<1> HIDE DEF S1
<1>14. \A i \in 0 .. N : Y[i] = {S1}
  OBVIOUS
<1>15. \A i \in 1 .. N : Y[i - 1] = {S1} /\ Y[i] = {S1}
  BY <1>1
<1> HIDE DEF Y
<1>16. ASSUME NEW i \in 1 .. N, NEW n \in DOMAIN m.stamps, 1 < i, i <= k,
              o[i - 1] = Names(n), o[i] = Stamps(m.stamps[n])
       PROVE  mob_add_nio(S1, n, "NEW_BINDING", m.gw, m.stamps[n]) = S1
  <2>1. n \in BoundBy(m, k, N)
    BY <1>1, <1>16 DEF BoundBy
  <2>2. Told(S1, n, m.gw, m.stamps[n]) /\ n \in scope.nodes
    BY <1>1, <1>8, <1>12, <2>1
  <2> QED BY <1>1, <1>13, <2>2, ToldSilent
<1>17. Told2(m, k, Y)
  BY <1>13, <1>14, <1>15, <1>16 DEF Told2
<1>18. S1 \in Y[0] /\ Y[N] = {S1}
  BY <1>1, <1>14
<1>19. mob_proceed_up(S1, m) \in {S1}
  BY <1>0, <1>17, <1>18, Proceed
<1> QED BY <1>19 DEF S1

-----------------------------------------------------------------------------
(* The options of an update that is sent *)

Opts == {Prefers("NEW_BINDING"), Prefers("UNKNOWN")} \cup {Names(n) : n \in scope.nodes}
          \cup {Stamps(t) : t \in Nat}

\* The parts of Options.
OptPref(b, v)  == IF b THEN <<Prefers(v)>> ELSE <<>>
OptPairs(B, h) == FlattenSeq([i \in DOMAIN SetToSeq(B) |->
                                <<Names(SetToSeq(B)[i]), Stamps(h[SetToSeq(B)[i]])>>])
OptLost(D)     == FlattenSeq([i \in DOMAIN SetToSeq(D) |-> <<Names(SetToSeq(D)[i])>>])

LEMMA OptionsAre ==
  ASSUME NEW hand, NEW B, NEW D, NEW h
  PROVE  Options(hand, B, D, h)
           = (OptPref(B # {} /\ hand = "none", "NEW_BINDING") \o OptPairs(B, h))
               \o (OptPref(D # {} /\ hand # "UNKNOWN", "UNKNOWN") \o OptLost(D))
  BY DEF Options, OptPref, OptPairs, OptLost, Prefers, Names, Stamps

LEMMA SetToSeqIs ==
  ASSUME NEW S, IsFiniteSet(S)
  PROVE  /\ Cardinality(S) \in Nat /\ DOMAIN SetToSeq(S) = 1 .. Cardinality(S)
         /\ \A i \in 1 .. Cardinality(S) : SetToSeq(S)[i] \in S
<1> DEFINE n == Cardinality(S)
<1>1. n \in Nat /\ ExistsBijection(1 .. n, S)
  BY FS_CardinalityType
<1> HIDE DEF n
<1>2. \E f \in [1 .. n -> S] : IsInjective(f)
  BY <1>1 DEF ExistsBijection, Bijection, Injection
<1> DEFINE c == CHOOSE f \in [1 .. n -> S] : IsInjective(f)
<1>3. c \in [1 .. n -> S]
  BY <1>2
<1>4. SetToSeq(S) = c
  BY DEF SetToSeq, n
<1> HIDE DEF c
<1>5. DOMAIN SetToSeq(S) = 1 .. n /\ \A i \in 1 .. n : SetToSeq(S)[i] \in S
  BY <1>3, <1>4
<1> QED BY <1>1, <1>5 DEF n

\* What holds of sequences and of their concatenations holds of all of them
\* put together.
LEMMA FlattenKeeps ==
  ASSUME NEW S, NEW W \in SUBSET Seq(S), <<>> \in W, \A u, v \in W : u \o v \in W,
         NEW n \in Nat, NEW s, DOMAIN s = 1 .. n, s = [i \in 1 .. n |-> s[i]],
         \A i \in 1 .. n : s[i] \in W
  PROVE  FlattenSeq(s) \in W
<1>1. s \in Seq(Seq(S)) /\ Len(s) = n
  <2>1. \A i \in 1 .. n : s[i] \in Seq(S)
    OBVIOUS
  <2>2. s \in [1 .. n -> Seq(S)]
    BY <2>1
  <2> QED BY <2>2
<1>2. CASE n = 0
  <2>1. s = <<>>
    BY <1>1, <1>2, EmptySeq
  <2>2. FlattenSeq(s) = s
    BY <1>1, <1>2 DEF FlattenSeq
  <2> QED BY <2>1, <2>2
<1>3. CASE n # 0
  <2>1. s # <<>>
    BY <1>1, <1>3, EmptySeq
  <2>2. PICK F \in [1 .. Len(s) -> Seq(S)] :
           /\ F[1] = s[1]
           /\ \A i \in 2 .. Len(s) : F[i] = F[i - 1] \o s[i]
           /\ FlattenSeq(s) = F[Len(s)]
    BY <1>1, <2>1, FlattenIs
  <2> DEFINE T == {k \in 1 .. n : F[k] \in W}
  <2>3. 1 \in T
    BY <1>3, <2>2
  <2>4. ASSUME NEW k \in 2 .. n, k - 1 \in T PROVE k \in T
    <3>1. F[k - 1] \in W
      BY <2>4
    <3>2. k \in 1 .. n /\ k \in 2 .. Len(s)
      BY <1>1
    <3>3. s[k] \in W
      BY <3>2
    <3>4. F[k] = F[k - 1] \o s[k]
      BY <2>2, <3>2
    <3>5. F[k] \in W
      BY <3>1, <3>3, <3>4
    <3> QED BY <3>2, <3>5
  <2> HIDE DEF T
  <2>5. \A k \in 1 .. n : k \in T
    BY <2>3, <2>4, IntervalInduction
  <2>6. n \in T
    BY <1>3, <2>5
  <2> QED BY <1>1, <2>2, <2>6 DEF T
<1> QED BY <1>2, <1>3

\* Sequences of options that bind, and that delete.
Binds(o, st, i) ==
  \/ o[i] = Prefers("NEW_BINDING")
  \/ i < Len(o) /\ \E n \in DOMAIN st : o[i] = Names(n) /\ o[i + 1] = Stamps(st[n])
  \/ i > 1 /\ \E n \in DOMAIN st : o[i - 1] = Names(n) /\ o[i] = Stamps(st[n])

BindSeqs(st) == {o \in Seq(Opts) : \A i \in 1 .. Len(o) : Binds(o, st, i)}
DeleteSeqs   == {o \in Seq(Opts) : \A i \in 1 .. Len(o) : Deletes(o[i])}

LEMMA ConcatIs ==
  ASSUME NEW S, NEW u \in Seq(S), NEW v \in Seq(S)
  PROVE  /\ u \o v \in Seq(S) /\ Len(u) \in Nat /\ Len(v) \in Nat /\ Len(u \o v) = Len(u) + Len(v)
         /\ \A i \in 1 .. Len(u) : (u \o v)[i] = u[i]
         /\ \A i \in 1 .. Len(v) : (u \o v)[Len(u) + i] = v[i]
  OBVIOUS

LEMMA BindsClosed ==
  ASSUME NEW st
  PROVE  /\ BindSeqs(st) \in SUBSET Seq(Opts) /\ <<>> \in BindSeqs(st)
         /\ \A u, v \in BindSeqs(st) : u \o v \in BindSeqs(st)
<1>1. BindSeqs(st) \in SUBSET Seq(Opts) /\ <<>> \in BindSeqs(st)
  BY DEF BindSeqs
<1>2. ASSUME NEW u \in BindSeqs(st), NEW v \in BindSeqs(st) PROVE u \o v \in BindSeqs(st)
  <2> DEFINE w == u \o v
             a == Len(u)
  <2>1. u \in Seq(Opts) /\ v \in Seq(Opts)
    BY <1>1
  <2>2. (\A i \in 1 .. Len(u) : Binds(u, st, i)) /\ \A i \in 1 .. Len(v) : Binds(v, st, i)
    BY DEF BindSeqs
  <2>3. /\ w \in Seq(Opts) /\ a \in Nat /\ Len(v) \in Nat /\ Len(w) = a + Len(v)
        /\ \A i \in 1 .. a : w[i] = u[i]
        /\ \A i \in 1 .. Len(v) : w[a + i] = v[i]
    BY <2>1, ConcatIs
  <2> HIDE DEF w
  <2>4. ASSUME NEW i \in 1 .. Len(w) PROVE Binds(w, st, i)
    <3>1. CASE i <= a
      <4>1. Binds(u, st, i) /\ w[i] = u[i] /\ i \in 1 .. a
        BY <2>2, <2>3, <3>1
      <4>2. i < Len(u) => i < Len(w) /\ w[i + 1] = u[i + 1]
        BY <2>3, <3>1
      <4>3. i > 1 => w[i - 1] = u[i - 1]
        BY <2>3, <3>1
      <4> QED BY <4>1, <4>2, <4>3 DEF Binds
    <3>2. CASE i > a
      <4> DEFINE j == i - a
      <4>1. j \in 1 .. Len(v) /\ i = a + j /\ i + 1 = a + (j + 1) /\ i - 1 = a + (j - 1)
        BY <2>3, <3>2
      <4> HIDE DEF j
      <4>2. Binds(v, st, j) /\ w[i] = v[j]
        BY <2>2, <2>3, <4>1
      <4>3. j < Len(v) => i < Len(w) /\ w[i + 1] = v[j + 1]
        BY <2>3, <4>1
      <4>4. j > 1 => i > 1 /\ w[i - 1] = v[j - 1]
        BY <2>3, <4>1
      <4> QED BY <4>2, <4>3, <4>4 DEF Binds
    <3> QED BY <2>3, <3>1, <3>2
  <2>5. w \in BindSeqs(st)
    BY <2>3, <2>4 DEF BindSeqs
  <2> QED BY <2>5 DEF w
<1> QED BY <1>1, <1>2

LEMMA DeletesClosed ==
  /\ DeleteSeqs \in SUBSET Seq(Opts) /\ <<>> \in DeleteSeqs
  /\ \A u, v \in DeleteSeqs : u \o v \in DeleteSeqs
<1>1. DeleteSeqs \in SUBSET Seq(Opts) /\ <<>> \in DeleteSeqs
  BY DEF DeleteSeqs
<1>2. ASSUME NEW u \in DeleteSeqs, NEW v \in DeleteSeqs PROVE u \o v \in DeleteSeqs
  <2> DEFINE w == u \o v
             a == Len(u)
  <2>1. u \in Seq(Opts) /\ v \in Seq(Opts)
    BY <1>1
  <2>2. (\A i \in 1 .. Len(u) : Deletes(u[i])) /\ \A i \in 1 .. Len(v) : Deletes(v[i])
    BY DEF DeleteSeqs
  <2>3. /\ w \in Seq(Opts) /\ a \in Nat /\ Len(v) \in Nat /\ Len(w) = a + Len(v)
        /\ \A i \in 1 .. a : w[i] = u[i]
        /\ \A i \in 1 .. Len(v) : w[a + i] = v[i]
    BY <2>1, ConcatIs
  <2> HIDE DEF w
  <2>4. ASSUME NEW i \in 1 .. Len(w) PROVE Deletes(w[i])
    <3>1. CASE i <= a
      BY <2>2, <2>3, <3>1
    <3>2. CASE i > a
      <4> DEFINE j == i - a
      <4>1. j \in 1 .. Len(v) /\ i = a + j
        BY <2>3, <3>2
      <4> QED BY <2>2, <2>3, <4>1
    <3> QED BY <2>3, <3>1, <3>2
  <2>5. w \in DeleteSeqs
    BY <2>3, <2>4 DEF DeleteSeqs
  <2> QED BY <2>5 DEF w
<1> QED BY <1>1, <1>2

\* The bindings, and the deletions, are as their pairs, and their names.
LEMMA OptPairsIs ==
  ASSUME NEW B, IsFiniteSet(B), NEW h, NEW W \in SUBSET Seq(Opts), <<>> \in W,
         \A u, v \in W : u \o v \in W, \A n \in B : <<Names(n), Stamps(h[n])>> \in W
  PROVE  OptPairs(B, h) \in W
<1> DEFINE q == SetToSeq(B)
           N == Cardinality(B)
           s == [i \in DOMAIN q |-> <<Names(q[i]), Stamps(h[q[i]])>>]
<1>1. N \in Nat /\ DOMAIN q = 1 .. N /\ \A i \in 1 .. N : q[i] \in B
  BY SetToSeqIs
<1> HIDE DEF q, N
<1>2. DOMAIN s = 1 .. N /\ s = [i \in 1 .. N |-> s[i]]
  BY <1>1
<1>3. \A i \in 1 .. N : s[i] = <<Names(q[i]), Stamps(h[q[i]])>>
  BY <1>1
<1> HIDE DEF s
<1>5. \A i \in 1 .. N : s[i] \in W
  BY <1>1, <1>3
<1>6. FlattenSeq(s) \in W
  BY <1>1, <1>2, <1>5, FlattenKeeps
<1> QED BY <1>6 DEF OptPairs, s, q

LEMMA OptLostIs ==
  ASSUME NEW D \in SUBSET scope.nodes, IsFiniteSet(D)
  PROVE  /\ OptLost(D) \in DeleteSeqs
         /\ D = {} => OptLost(D) = <<>>
<1> DEFINE q == SetToSeq(D)
           N == Cardinality(D)
           s == [i \in DOMAIN q |-> <<Names(q[i])>>]
<1>1. N \in Nat /\ DOMAIN q = 1 .. N /\ \A i \in 1 .. N : q[i] \in D
  BY SetToSeqIs
<1> HIDE DEF q, N
<1>2. DOMAIN s = 1 .. N /\ s = [i \in 1 .. N |-> s[i]]
  BY <1>1
<1>3. \A i \in 1 .. N : s[i] = <<Names(q[i])>>
  BY <1>1
<1>4. \A n \in D : <<Names(n)>> \in DeleteSeqs
  <2> SUFFICES ASSUME NEW n \in D PROVE <<Names(n)>> \in DeleteSeqs
    OBVIOUS
  <2> DEFINE o == <<Names(n)>>
  <2>1. Names(n) \in Opts
    BY DEF Opts
  <2>2. o \in Seq(Opts) /\ Len(o) = 1 /\ o[1] = Names(n)
    BY <2>1
  <2> HIDE DEF o
  <2>3. \A i \in 1 .. Len(o) : i = 1
    BY <2>2
  <2>4. Deletes(Names(n))
    BY DEF Deletes
  <2>5. o \in DeleteSeqs
    BY <2>2, <2>3, <2>4 DEF DeleteSeqs
  <2> QED BY <2>5 DEF o
<1> HIDE DEF s
<1>5. \A i \in 1 .. N : s[i] \in DeleteSeqs
  BY <1>1, <1>3, <1>4
<1>6. FlattenSeq(s) \in DeleteSeqs
  BY <1>1, <1>2, <1>5, DeletesClosed, FlattenKeeps
<1>7. ASSUME D = {} PROVE FlattenSeq(s) = <<>>
  <2>1. N = 0
    BY <1>1, <1>7
  <2>2. <<>> \in {<<>>} /\ \A u, v \in {<<>>} : u \o v \in {<<>>}
    BY EmptySeq
  <2>3. {<<>>} \in SUBSET Seq(Opts) /\ 0 \in Nat /\ \A i \in 1 .. 0 : s[i] \in {<<>>}
    OBVIOUS
  <2>4. DOMAIN s = 1 .. 0 /\ s = [i \in 1 .. 0 |-> s[i]]
    BY <1>2, <2>1
  <2>5. FlattenSeq(s) \in {<<>>}
    BY <2>2, <2>3, <2>4, FlattenKeeps
  <2> QED BY <2>5
<1> QED BY <1>6, <1>7 DEF OptLost, s, q

\* Bindings before an update, and deletions after one that ends with some,
\* make an update.
LEMMA ShapedAfter ==
  ASSUME NEW st, NEW u \in BindSeqs(st), NEW v \in Seq(Opts), NEW k \in Nat, Shaped(v, st, k)
  PROVE  Shaped(u \o v, st, Len(u) + k)
<1> DEFINE o == u \o v
           a == Len(u)
<1>1. u \in Seq(Opts)
  BY DEF BindSeqs
<1>2. /\ a \in Nat /\ Len(v) \in Nat /\ Len(o) = a + Len(v)
      /\ \A i \in 1 .. a : o[i] = u[i]
      /\ \A i \in 1 .. Len(v) : o[a + i] = v[i]
  BY <1>1, ConcatIs
<1>3. k <= Len(v) /\ BindsUpTo(v, st, k) /\ DeletesFrom(v, k)
  BY <1>2 DEF Shaped
<1>4. \A i \in 1 .. Len(u) : Binds(u, st, i)
  BY DEF BindSeqs
<1> HIDE DEF o
<1>5. ASSUME NEW i \in 1 .. a + k
      PROVE  \/ o[i] = Prefers("NEW_BINDING")
             \/ i < a + k /\ \E n \in DOMAIN st : o[i] = Names(n) /\ o[i + 1] = Stamps(st[n])
             \/ i > 1 /\ \E n \in DOMAIN st : o[i - 1] = Names(n) /\ o[i] = Stamps(st[n])
  <2>1. CASE i <= a
    <3>1. Binds(u, st, i) /\ o[i] = u[i]
      BY <1>2, <1>4, <2>1
    <3>2. i < Len(u) => i < a + k /\ o[i + 1] = u[i + 1]
      BY <1>2, <2>1
    <3>3. i > 1 => o[i - 1] = u[i - 1]
      BY <1>2, <2>1
    <3> QED BY <3>1, <3>2, <3>3 DEF Binds
  <2>2. CASE i > a
    <3> DEFINE j == i - a
    <3>1. j \in 1 .. k /\ i = a + j /\ i + 1 = a + (j + 1) /\ i - 1 = a + (j - 1)
      BY <1>2, <2>2
    <3> HIDE DEF j
    <3>2. \/ v[j] = Prefers("NEW_BINDING")
          \/ j < k /\ \E n \in DOMAIN st : v[j] = Names(n) /\ v[j + 1] = Stamps(st[n])
          \/ j > 1 /\ \E n \in DOMAIN st : v[j - 1] = Names(n) /\ v[j] = Stamps(st[n])
      BY <1>3, <3>1 DEF BindsUpTo
    <3>3. o[i] = v[j]
      BY SMTT(60), <1>2, <1>3, <3>1
    <3>4. j < k => i < a + k /\ o[i + 1] = v[j + 1]
      BY <1>2, <1>3, <3>1
    <3>5. j > 1 => i > 1 /\ o[i - 1] = v[j - 1]
      <4>1. j > 1 => j - 1 \in 1 .. Len(v) /\ i > 1
        BY <1>2, <1>3, <3>1
      <4>2. j > 1 => o[a + (j - 1)] = v[j - 1]
        BY <1>2, <4>1
      <4> QED BY <3>1, <4>1, <4>2
    <3> QED BY <3>2, <3>3, <3>4, <3>5
  <2> QED BY <1>2, <2>1, <2>2
<1>6. ASSUME NEW i \in (a + k) + 1 .. Len(o)
      PROVE  IF i = (a + k) + 1 THEN o[i] = Prefers("UNKNOWN") ELSE Deletes(o[i])
  <2> DEFINE j == i - a
  <2>1. j \in k + 1 .. Len(v) /\ j \in 1 .. Len(v) /\ i = a + j /\ (i = (a + k) + 1 <=> j = k + 1)
    BY <1>2
  <2> HIDE DEF j
  <2>2. IF j = k + 1 THEN v[j] = Prefers("UNKNOWN") ELSE Deletes(v[j])
    BY <1>3, <2>1 DEF DeletesFrom
  <2>3. o[i] = v[j]
    BY <1>2, <2>1
  <2> QED BY <2>1, <2>2, <2>3
<1>7. a + k \in 0 .. Len(o)
  BY <1>2, <1>3
<1>8. BindsUpTo(o, st, a + k)
  BY <1>5 DEF BindsUpTo
<1>9. DeletesFrom(o, a + k)
  BY <1>6 DEF DeletesFrom
<1> QED BY <1>7, <1>8, <1>9 DEF Shaped, o

LEMMA ShapedBefore ==
  ASSUME NEW st, NEW u \in Seq(Opts), NEW v \in DeleteSeqs, NEW k \in Nat, Shaped(u, st, k),
         k < Len(u)
  PROVE  Shaped(u \o v, st, k)
<1> DEFINE o == u \o v
           a == Len(u)
<1>1. v \in Seq(Opts) /\ \A i \in 1 .. Len(v) : Deletes(v[i])
  BY DEF DeleteSeqs
<1>2. /\ a \in Nat /\ Len(v) \in Nat /\ Len(o) = a + Len(v)
      /\ \A i \in 1 .. a : o[i] = u[i]
      /\ \A i \in 1 .. Len(v) : o[a + i] = v[i]
  BY <1>1, ConcatIs
<1>3. k < a /\ BindsUpTo(u, st, k) /\ DeletesFrom(u, k)
  BY DEF Shaped
<1> HIDE DEF o
<1>5. ASSUME NEW i \in 1 .. k
      PROVE  \/ o[i] = Prefers("NEW_BINDING")
             \/ i < k /\ \E n \in DOMAIN st : o[i] = Names(n) /\ o[i + 1] = Stamps(st[n])
             \/ i > 1 /\ \E n \in DOMAIN st : o[i - 1] = Names(n) /\ o[i] = Stamps(st[n])
  <2>1. o[i] = u[i] /\ o[i + 1] = u[i + 1] /\ (i > 1 => o[i - 1] = u[i - 1])
    BY SMTT(60), <1>2, <1>3
  <2>2. \/ u[i] = Prefers("NEW_BINDING")
        \/ i < k /\ \E n \in DOMAIN st : u[i] = Names(n) /\ u[i + 1] = Stamps(st[n])
        \/ i > 1 /\ \E n \in DOMAIN st : u[i - 1] = Names(n) /\ u[i] = Stamps(st[n])
    BY <1>3 DEF BindsUpTo
  <2> QED BY <2>1, <2>2
<1>6. ASSUME NEW i \in k + 1 .. Len(o)
      PROVE  IF i = k + 1 THEN o[i] = Prefers("UNKNOWN") ELSE Deletes(o[i])
  <2>1. CASE i <= a
    <3>1. o[i] = u[i] /\ i \in k + 1 .. a
      BY <1>2, <2>1
    <3> QED BY <1>3, <3>1 DEF DeletesFrom
  <2>2. CASE i > a
    <3> DEFINE j == i - a
    <3>1. j \in 1 .. Len(v) /\ i = a + j /\ i # k + 1
      BY <1>2, <1>3, <2>2
    <3> HIDE DEF j
    <3> QED BY <1>1, <1>2, <3>1
  <2> QED BY <1>2, <2>1, <2>2
<1>7. k \in 0 .. Len(o)
  BY <1>2, <1>3
<1>8. BindsUpTo(o, st, k)
  BY <1>5 DEF BindsUpTo
<1>9. DeletesFrom(o, k)
  BY <1>6 DEF DeletesFrom
<1> QED BY <1>7, <1>8, <1>9 DEF Shaped, o

\* One sequence alone.
LEMMA OneOption ==
  ASSUME NEW x \in Opts
  PROVE  <<x>> \in Seq(Opts) /\ Len(<<x>>) = 1 /\ <<x>>[1] = x /\ \A i \in 1 .. Len(<<x>>) : i = 1
OBVIOUS

LEMMA BindPart ==
  ASSUME NEW B \in SUBSET scope.nodes, IsFiniteSet(B), NEW h, NEW st, B \subseteq DOMAIN st,
         \A n \in B : st[n] = h[n] /\ h[n] \in Nat, NEW b \in BOOLEAN
  PROVE  OptPref(b, "NEW_BINDING") \o OptPairs(B, h) \in BindSeqs(st)
<1>1. OptPairs(B, h) \in BindSeqs(st)
  <2>1. \A n \in B : <<Names(n), Stamps(h[n])>> \in BindSeqs(st)
    <3> SUFFICES ASSUME NEW n \in B PROVE <<Names(n), Stamps(h[n])>> \in BindSeqs(st)
      OBVIOUS
    <3> DEFINE o == <<Names(n), Stamps(h[n])>>
    <3>1. Names(n) \in Opts /\ Stamps(h[n]) \in Opts
      BY DEF Opts
    <3>2. o \in Seq(Opts) /\ Len(o) = 2 /\ o[1] = Names(n) /\ o[2] = Stamps(h[n])
      BY <3>1
    <3>3. n \in DOMAIN st /\ st[n] = h[n]
      OBVIOUS
    <3> HIDE DEF o
    <3>4. ASSUME NEW i \in 1 .. Len(o) PROVE Binds(o, st, i)
      <4>1. CASE i = 1
        BY <3>2, <3>3, <4>1 DEF Binds
      <4>2. CASE i = 2
        BY <3>2, <3>3, <4>2 DEF Binds
      <4> QED BY <3>2, <4>1, <4>2
    <3>5. o \in BindSeqs(st)
      BY <3>2, <3>4 DEF BindSeqs
    <3> QED BY <3>5 DEF o
  <2> QED BY <2>1, BindsClosed, OptPairsIs
<1>2. OptPref(b, "NEW_BINDING") \in BindSeqs(st)
  <2>1. <<Prefers("NEW_BINDING")>> \in BindSeqs(st)
    <3> DEFINE x == Prefers("NEW_BINDING")
               o == <<x>>
    <3>1. x \in Opts
      BY DEF Opts
    <3> HIDE DEF x
    <3>2. o \in Seq(Opts) /\ \A i \in 1 .. Len(o) : o[i] = x
      BY <3>1, OneOption
    <3> HIDE DEF o
    <3>3. \A i \in 1 .. Len(o) : Binds(o, st, i)
      BY <3>2 DEF Binds, x
    <3>4. o \in BindSeqs(st)
      BY <3>2, <3>3 DEF BindSeqs
    <3> QED BY <3>4 DEF o, x
  <2> QED BY <2>1, BindsClosed DEF OptPref
<1> QED BY <1>1, <1>2, BindsClosed

\* Deletions, after the preference that makes them such.
LEMMA DeletePart ==
  ASSUME NEW D \in SUBSET scope.nodes, IsFiniteSet(D), NEW st
  PROVE  LET v == OptPref(TRUE, "UNKNOWN") \o OptLost(D)
         IN v \in Seq(Opts) /\ Shaped(v, st, 0) /\ Len(v) > 0
<1> DEFINE x == Prefers("UNKNOWN")
           u == <<x>>
           d == OptLost(D)
           v == u \o d
<1>1. x \in Opts
  BY DEF Opts
<1>2. d \in DeleteSeqs /\ d \in Seq(Opts)
  BY OptLostIs, DeletesClosed
<1> HIDE DEF x, d
<1>3. u \in Seq(Opts) /\ Len(u) = 1 /\ u[1] = x /\ \A i \in 1 .. Len(u) : i = 1
  BY <1>1, OneOption
<1>4. OptPref(TRUE, "UNKNOWN") = u
  BY DEF OptPref, x
<1> HIDE DEF u
<1>5. Shaped(u, st, 0) /\ 0 < Len(u) /\ 0 \in Nat
  <2>1. DeletesFrom(u, 0)
    BY <1>3 DEF DeletesFrom, x
  <2>2. BindsUpTo(u, st, 0)
    BY DEF BindsUpTo
  <2> QED BY <1>3, <2>1, <2>2 DEF Shaped
<1>6. Shaped(v, st, 0)
  BY <1>2, <1>3, <1>5, ShapedBefore
<1>7. v \in Seq(Opts) /\ Len(v) > 0
  BY <1>2, <1>3, ConcatIs
<1> QED BY <1>4, <1>6, <1>7 DEF d

\* The part of one gateway, unless the deletions of one before were written.
LEMMA OptionsShape ==
  ASSUME NEW B \in SUBSET scope.nodes, NEW D \in SUBSET scope.nodes, IsFiniteSet(B), IsFiniteSet(D),
         NEW h, NEW st, B \subseteq DOMAIN st, \A n \in B : st[n] = h[n] /\ h[n] \in Nat,
         NEW hand, hand # "UNKNOWN"
  PROVE  LET o == Options(hand, B, D, h)
         IN /\ o \in Seq(Opts)
            /\ D = {} => o \in BindSeqs(st)
            /\ \E k \in Nat : Shaped(o, st, k) /\ (D # {} => k < Len(o))
<1> DEFINE b == (B # {} /\ hand = "none")
           u == OptPref(b, "NEW_BINDING") \o OptPairs(B, h)
           o == Options(hand, B, D, h)
<1>1. b \in BOOLEAN
  OBVIOUS
<1>2. o = u \o (OptPref(D # {} /\ hand # "UNKNOWN", "UNKNOWN") \o OptLost(D))
  BY OptionsAre
<1> HIDE DEF o, b
<1>3. u \in BindSeqs(st) /\ u \in Seq(Opts)
  BY <1>1, BindPart, BindsClosed
<1> HIDE DEF u
<1>4. CASE D = {}
  <2>1. OptLost(D) = <<>>
    BY <1>4, OptLostIs
  <2>2. OptPref(D # {} /\ hand # "UNKNOWN", "UNKNOWN") = <<>>
    BY <1>4 DEF OptPref
  <2>3. <<>> \o <<>> = <<>>
    BY EmptySeq
  <2>4. o = u \o <<>>
    BY <1>2, <2>1, <2>2, <2>3
  <2>5. o \in BindSeqs(st) /\ o \in Seq(Opts)
    BY <1>3, <2>4, BindsClosed
  <2>6. Shaped(<<>>, st, 0) /\ <<>> \in Seq(Opts) /\ 0 \in Nat
    BY DEF Shaped, BindsUpTo, DeletesFrom
  <2>7. Shaped(o, st, Len(u) + 0) /\ Len(u) + 0 \in Nat
    <3> DEFINE v == <<>>
    <3>1. v \in Seq(Opts) /\ Shaped(v, st, 0) /\ o = u \o v
      BY <2>4, <2>6
    <3> HIDE DEF v
    <3>2. Shaped(u \o v, st, Len(u) + 0)
      BY <1>3, <2>6, <3>1, ShapedAfter
    <3>3. Len(u) \in Nat
      BY <1>3
    <3> QED BY <3>1, <3>2, <3>3
  <2> QED BY <1>4, <2>5, <2>7 DEF o
<1>5. CASE D # {}
  <2> DEFINE v == OptPref(TRUE, "UNKNOWN") \o OptLost(D)
  <2>1. v \in Seq(Opts) /\ Shaped(v, st, 0) /\ Len(v) > 0
    BY DeletePart
  <2>2. o = u \o v
    <3>1. OptPref(D # {} /\ hand # "UNKNOWN", "UNKNOWN") = OptPref(TRUE, "UNKNOWN")
      BY <1>5 DEF OptPref
    <3> QED BY <1>2, <3>1
  <2> HIDE DEF v
  <2>3. Shaped(o, st, Len(u) + 0) /\ 0 \in Nat
    BY <1>3, <2>1, <2>2, ShapedAfter
  <2>4. o \in Seq(Opts) /\ Len(u) + 0 < Len(o) /\ Len(u) + 0 \in Nat
    BY <1>3, <2>1, <2>2, ConcatIs
  <2> QED BY <1>5, <2>3, <2>4 DEF o
<1> QED BY <1>4, <1>5

\* The part of a backup, after deletions.
LEMMA OptionsDelete ==
  ASSUME NEW B \in SUBSET scope.nodes, NEW D \in SUBSET scope.nodes, IsFiniteSet(B), IsFiniteSet(D),
         NEW h, \A n \in B : h[n] \in Nat, ~scope.apply \/ B = {}
  PROVE  Options("UNKNOWN", B, D, h) \in DeleteSeqs
<1>1. \A n \in B : <<Names(n), Stamps(h[n])>> \in DeleteSeqs
  <2> SUFFICES ASSUME NEW n \in B PROVE <<Names(n), Stamps(h[n])>> \in DeleteSeqs
    OBVIOUS
  <2> DEFINE o == <<Names(n), Stamps(h[n])>>
  <2>1. Names(n) \in Opts /\ Stamps(h[n]) \in Opts
    BY DEF Opts
  <2>2. o \in Seq(Opts) /\ Len(o) = 2 /\ o[1] = Names(n) /\ o[2] = Stamps(h[n])
    BY <2>1
  <2>3. Deletes(Names(n)) /\ Deletes(Stamps(h[n]))
    BY DEF Deletes
  <2> HIDE DEF o
  <2>4. \A i \in 1 .. Len(o) : i = 1 \/ i = 2
    BY <2>2
  <2>5. o \in DeleteSeqs
    BY <2>2, <2>3, <2>4 DEF DeleteSeqs
  <2> QED BY <2>5 DEF o
<1>2. OptPairs(B, h) \in DeleteSeqs
  BY <1>1, DeletesClosed, OptPairsIs
<1>3. OptLost(D) \in DeleteSeqs
  BY OptLostIs
<1>4. "UNKNOWN" # "none"
  OBVIOUS
<1>5. Options("UNKNOWN", B, D, h) = (<<>> \o OptPairs(B, h)) \o (<<>> \o OptLost(D))
  BY <1>4, OptionsAre DEF OptPref
<1> QED BY <1>2, <1>3, <1>5, DeletesClosed

\* What a border router sends is an update.
LEMMA SentIs ==
  ASSUME Env, NEW g \in scope.gws, NEW h,
         NEW B \in SUBSET scope.nodes, NEW D \in SUBSET scope.nodes,
         NEW C \in SUBSET scope.nodes, NEW E \in SUBSET scope.nodes,
         ~scope.apply \/ C = {}, \A n \in B \cup C : h[n] \in 1 .. now
  PROVE  MsgOK([gw |-> g,
                options |-> Options("none", B, D, h) \o Options(Left(B, D), C, E, h),
                stamps |-> [n \in B \cup C |-> h[n]]])
<1> DEFINE st == [n \in B \cup C |-> h[n]]
           u == Options("none", B, D, h)
           v == Options(Left(B, D), C, E, h)
           o == u \o v
<1>1. /\ IsFiniteSet(B) /\ IsFiniteSet(D) /\ IsFiniteSet(C) /\ IsFiniteSet(E) /\ now \in Nat
  BY EnvIs, FS_Subset
<1>2. \A n \in B \cup C : h[n] \in Nat /\ n \in DOMAIN st /\ st[n] = h[n]
  BY <1>1
<1>3. /\ B \subseteq DOMAIN st /\ C \subseteq DOMAIN st
      /\ \A n \in B : st[n] = h[n] /\ h[n] \in Nat
      /\ \A n \in C : st[n] = h[n] /\ h[n] \in Nat
  BY <1>2
<1>4. DOMAIN st = B \cup C /\ \A n \in B \cup C : st[n] \in 1 .. now
  OBVIOUS
<1> HIDE DEF st
<1>5. /\ u \in Seq(Opts)
      /\ D = {} => u \in BindSeqs(st)
      /\ \E k \in Nat : Shaped(u, st, k) /\ (D # {} => k < Len(u))
  <2>1. "none" # "UNKNOWN"
    OBVIOUS
  <2> QED BY <1>1, <1>3, <2>1, OptionsShape
<1>6. v \in Seq(Opts) /\ \E k \in Nat : Shaped(o, st, k)
  <2>1. CASE D = {}
    <3>1. Left(B, D) # "UNKNOWN"
      BY <2>1 DEF Left
    <3>2. v \in Seq(Opts) /\ \E k \in Nat : Shaped(v, st, k)
      BY <1>1, <1>3, <3>1, OptionsShape
    <3>3. PICK k \in Nat : Shaped(v, st, k)
      BY <3>2
    <3>4. u \in BindSeqs(st) /\ Len(u) \in Nat
      BY <1>5, <2>1
    <3> HIDE DEF u, v
    <3>5. Shaped(o, st, Len(u) + k) /\ Len(u) + k \in Nat
      BY <3>2, <3>3, <3>4, ShapedAfter
    <3> QED BY <3>2, <3>5
  <2>2. CASE D # {}
    <3>1. Left(B, D) = "UNKNOWN"
      BY <2>2 DEF Left
    <3>2. Options("UNKNOWN", C, E, h) \in DeleteSeqs
      BY <1>1, <1>3, OptionsDelete
    <3>3. v \in DeleteSeqs /\ v \in Seq(Opts)
      BY <3>1, <3>2, DeletesClosed
    <3>4. PICK k \in Nat : Shaped(u, st, k) /\ k < Len(u)
      BY <1>5, <2>2
    <3> HIDE DEF u, v
    <3>5. Shaped(o, st, k)
      BY <1>5, <3>3, <3>4, ShapedBefore
    <3> QED BY <3>3, <3>5
  <2> QED BY <2>1, <2>2
<1>7. Len(o) \in Nat
  <2> HIDE DEF u, v
  <2> QED BY <1>5, <1>6, ConcatIs
<1> HIDE DEF o
<1> DEFINE m == [gw |-> g, options |-> o, stamps |-> st]
<1>8. m.gw = g /\ m.options = o /\ m.stamps = st
  OBVIOUS
<1> HIDE DEF m
<1>9. MsgOK(m)
  BY <1>4, <1>6, <1>7, <1>8 DEF MsgOK
<1> QED BY <1>9 DEF m, o, st

-----------------------------------------------------------------------------
(* The walk of the cleaner *)

Walkers == [S : Stores, pos : Ends]

Stepped(v) ==
  IF v.pos \notin Slots THEN v ELSE [S |-> Cleaned(v.S, v.pos), pos |-> v.S.out.next[v.pos]]

\* The walk goes through the sets X[0], X[1], ...
LEMMA WalkRuns ==
  ASSUME NEW S, NEW X, \A i \in 0 .. 3 * NB : X[i] \in SUBSET Walkers,
         [S |-> S, pos |-> S.out.min] \in X[0],
         \A i \in 1 .. 3 * NB : \A v \in X[i - 1] : Stepped(v) \in X[i]
  PROVE  Walk(S) \in X[3 * NB]
<1> DEFINE N == 3 * NB
           c == [S |-> S, pos |-> S.out.min]
           Body(f) == [i \in 0 .. N |-> IF i = 0 THEN c
                                        ELSE LET v == f[i - 1]
                                             IN IF v.pos \notin Slots THEN v
                                                ELSE [S |-> Cleaned(v.S, v.pos),
                                                      pos |-> v.S.out.next[v.pos]]]
           h == [i \in 1 .. N |-> [v \in Walkers |-> IF Stepped(v) \in Walkers THEN Stepped(v) ELSE v]]
           W == CHOOSE f : f = Body(f)
<1>1. N \in Nat
  BY NBAssumption
<1>2. Walk(S) = W[N]
  BY DEF Walk
<1>3. h \in [1 .. N -> [Walkers -> Walkers]]
  OBVIOUS
<1>4. \A f : Body(f) = [i \in 0 .. N |-> IF i = 0 THEN c ELSE Stepped(f[i - 1])]
  BY DEF Stepped
<1> HIDE DEF h, c, N
<1>5. /\ c \in X[0]
      /\ \A i \in 0 .. N : X[i] \in SUBSET Walkers
      /\ \A i \in 1 .. N : \A v \in X[i - 1] : Stepped(v) \in X[i]
  BY DEF c, N
<1>6. c \in Walkers
  BY <1>1, <1>5
<1>7. PICK f \in Runs(Walkers, c, h, N) : TRUE
  BY <1>1, <1>3, <1>6, RunsExist
<1>8. /\ f \in [0 .. N -> Walkers] /\ f[0] = c
      /\ \A i \in 1 .. N : f[i] = h[i][f[i - 1]] /\ i - 1 \in 0 .. N
  BY <1>1, <1>7 DEF Runs
<1>9. \A n \in Nat : n <= N => f[n] \in X[n]
  <2> DEFINE Y == {n \in Nat : n <= N => f[n] \in X[n]}
  <2>1. 0 \in Y
    BY <1>5, <1>8
  <2>2. ASSUME NEW n \in Nat, n \in Y PROVE n + 1 \in Y
    <3> SUFFICES ASSUME n + 1 <= N PROVE f[n + 1] \in X[n + 1]
      OBVIOUS
    <3>1. f[n] \in X[n] /\ n + 1 \in 1 .. N /\ (n + 1) - 1 = n /\ n \in 0 .. N /\ n + 1 \in 0 .. N
      BY <1>1, <2>2
    <3>2. Stepped(f[n]) \in X[n + 1]
      BY <1>5, <3>1
    <3>3. f[n] \in Walkers /\ Stepped(f[n]) \in Walkers
      BY <1>5, <3>1, <3>2
    <3>4. f[n + 1] = h[n + 1][f[n]]
      BY <1>8, <3>1
    <3>5. h[n + 1][f[n]] = Stepped(f[n])
      BY <3>1, <3>3 DEF h
    <3> QED BY <3>2, <3>4, <3>5
  <2> HIDE DEF Y
  <2>3. \A n \in Nat : n \in Y
    BY <2>1, <2>2, SetInduction
  <2> QED BY <2>3 DEF Y
<1>10. \A i \in 1 .. N : f[i] = Stepped(f[i - 1])
  <2> SUFFICES ASSUME NEW i \in 1 .. N PROVE f[i] = Stepped(f[i - 1])
    OBVIOUS
  <2>1. i - 1 \in Nat /\ i - 1 <= N /\ i - 1 \in 0 .. N /\ i \in 0 .. N
    BY <1>1
  <2>2. f[i - 1] \in X[i - 1]
    BY <1>9, <2>1
  <2>3. Stepped(f[i - 1]) \in X[i]
    BY <1>5, <2>2
  <2>4. f[i - 1] \in Walkers /\ Stepped(f[i - 1]) \in Walkers
    BY <1>5, <2>1, <2>2, <2>3
  <2>5. h[i][f[i - 1]] = Stepped(f[i - 1])
    BY <2>4 DEF h
  <2> QED BY <1>8, <2>5
<1> HIDE DEF Body
<1>11. f = Body(f)
  <2>1. f = [i \in 0 .. N |-> IF i = 0 THEN c ELSE Stepped(f[i - 1])]
    BY <1>1, <1>8, <1>10
  <2> QED BY <1>4, <2>1
<1>12. W = Body(W)
  BY <1>11
<1> HIDE DEF W
<1>13. \A i \in 0 .. N : W[i] = IF i = 0 THEN c ELSE Stepped(W[i - 1])
  <2>1. W = [i \in 0 .. N |-> IF i = 0 THEN c ELSE Stepped(W[i - 1])]
    BY <1>4, <1>12
  <2> QED BY <2>1
<1>14. \A n \in Nat : n <= N => W[n] \in X[n]
  <2> DEFINE Y == {n \in Nat : n <= N => W[n] \in X[n]}
  <2>1. 0 \in Y
    BY <1>1, <1>5, <1>13
  <2>2. ASSUME NEW n \in Nat, n \in Y PROVE n + 1 \in Y
    <3> SUFFICES ASSUME n + 1 <= N PROVE W[n + 1] \in X[n + 1]
      OBVIOUS
    <3>1. W[n] \in X[n] /\ n + 1 \in 1 .. N /\ (n + 1) - 1 = n /\ n + 1 \in 0 .. N /\ n + 1 # 0
      BY <1>1, <2>2
    <3>2. Stepped(W[n]) \in X[n + 1]
      BY <1>5, <3>1
    <3> QED BY <1>13, <3>1, <3>2
  <2> HIDE DEF Y
  <2>3. \A n \in Nat : n \in Y
    BY <2>1, <2>2, SetInduction
  <2> QED BY <2>3 DEF Y
<1> QED BY <1>1, <1>2, <1>14 DEF N

-----------------------------------------------------------------------------
\* Every entry is as it was, or was over and is free.
Swept(S, T) ==
  \A s \in Slots : T.rt[s] = S.rt[s] \/ (Over(S.rt[s]) /\ T.rt[s] = Unused(S.rt[s]))

LEMMA UnusedTwice ==
  ASSUME NEW e \in Entries
  PROVE  Unused(Unused(e)) = Unused(e) /\ (Over(Unused(e)) <=> Over(e))
<1>1. Unused(Unused(e)) = Unused(e)
  BY DEF Unused, Entries
<1>2. Unused(e).start = e.start /\ Unused(e).interval = e.interval
  BY UnusedIs
<1> QED BY <1>1, <1>2 DEF Over

\* The local routes the walk has still to come to.
Ahead(r, ord, p) == {t \in LocalOf(r) : ord[p] <= ord[t]}

\* After i entries of a list that is threaded through the local routes.
InOrder(ord, i, T, p) ==
  /\ Sorted(T.out, LocalOf(T.rt), ord)
  /\ p \in LocalOf(T.rt) \cup {LIST_END}
  /\ \A t \in LocalOf(T.rt) : (p = LIST_END \/ ord[t] < ord[p]) => ~Over(T.rt[t])
  /\ p # LIST_END => Cardinality(Ahead(T.rt, ord, p)) + i <= NB

LEMMA AheadIs ==
  ASSUME NEW r, NEW ord, NEW p
  PROVE  /\ IsFiniteSet(Ahead(r, ord, p)) /\ Cardinality(Ahead(r, ord, p)) \in Nat
         /\ Cardinality(Ahead(r, ord, p)) <= NB
<1>1. IsFiniteSet(Slots) /\ Cardinality(Slots) = NB
  <2>1. IsFiniteSet(0 .. NB - 1) /\ Cardinality(0 .. NB - 1) = IF 0 > NB - 1 THEN 0 ELSE NB - 1 - 0 + 1
    BY NBAssumption, FS_Interval
  <2> QED BY <2>1, NBAssumption DEF Slots
<1>2. Ahead(r, ord, p) \in SUBSET Slots
  BY DEF Ahead, LocalOf
<1>3. IsFiniteSet(Ahead(r, ord, p)) /\ Cardinality(Ahead(r, ord, p)) <= Cardinality(Slots)
  BY <1>1, <1>2, FS_Subset
<1> QED BY <1>1, <1>3, FS_CardinalityType

\* One entry in order.
LEMMA InOrderStep ==
  ASSUME Env, NEW T, StoreOK(T), T.intact, NEW ord \in [Slots -> Nat], NEW i \in Nat,
         NEW p \in Slots, InOrder(ord, i, T, p)
  PROVE  InOrder(ord, i + 1, Cleaned(T, p), T.out.next[p])
<1> DEFINE U == Cleaned(T, p)
           n == T.out.next[p]
           P == LocalOf(T.rt)
           Q == LocalOf(U.rt)
<1>1. p \in P /\ Sorted(T.out, P, ord) /\ p # LIST_END
  BY EndsAreNoSlots DEF InOrder
<1>3. /\ StoreOK(U)
      /\ Q = IF Over(T.rt[p]) THEN P \ {p} ELSE P
      /\ \A o \in [Slots -> Nat] : p \in P /\ Sorted(T.out, P, o) => Sorted(U.out, Q, o)
      /\ \A t \in Slots \ {p} : U.rt[t] = T.rt[t]
  BY <1>1, CleanKeeps
<1>4. ~Over(T.rt[p]) => U = T
  BY DEF Cleaned
<1> HIDE DEF U
<1>5. Sorted(U.out, Q, ord)
  BY <1>1, <1>3
<1>6. P \in SUBSET Slots /\ Q \in SUBSET P /\ \A t \in Slots : ord[t] \in Nat
  BY <1>3 DEF LocalOf
<1>7. SuccIs(P, ord, p, n)
  BY <1>1 DEF Sorted
<1>8. \A t \in P : t = p \/ ord[t] # ord[p]
  BY <1>1 DEF Sorted
<1>9. ASSUME NEW t \in Q, n = LIST_END \/ ord[t] < ord[n] PROVE ~Over(U.rt[t])
  <2>1. t \in P /\ t \in Slots /\ p \in Slots
    BY <1>6
  <2>2. ord[t] <= ord[p]
    <3>1. CASE n = LIST_END
      BY <1>7, <2>1, <3>1 DEF SuccIs
    <3>2. CASE n # LIST_END
      <4>1. n \in P /\ (ord[t] <= ord[p] \/ ord[n] <= ord[t])
        BY <1>7, <2>1, <3>2 DEF SuccIs
      <4>2. ord[n] \in Nat /\ ord[t] \in Nat /\ ord[t] < ord[n]
        BY <1>6, <1>9, <2>1, <3>2, <4>1
      <4> QED BY <4>1, <4>2
    <3> QED BY <3>1, <3>2
  <2>3. CASE t = p
    BY <1>3, <1>4, <2>3
  <2>4. CASE t # p
    <3>1. ord[t] < ord[p]
      BY <1>6, <1>8, <2>1, <2>2, <2>4
    <3>2. ~Over(T.rt[t])
      BY <2>1, <3>1 DEF InOrder
    <3> QED BY <1>3, <2>1, <2>4, <3>2
  <2> QED BY <2>3, <2>4
<1>10. n \in Q \cup {LIST_END}
  <2> SUFFICES ASSUME n # LIST_END PROVE n \in Q
    OBVIOUS
  <2>1. n \in P /\ ord[p] < ord[n]
    BY <1>7 DEF SuccIs
  <2>2. n # p
    BY <1>6, <2>1
  <2> QED BY <1>3, <2>1, <2>2
<1>11. ASSUME n # LIST_END PROVE Cardinality(Ahead(U.rt, ord, n)) + (i + 1) <= NB
  <2> DEFINE A == Ahead(T.rt, ord, p)
             B == Ahead(U.rt, ord, n)
  <2>1. n \in P /\ ord[p] < ord[n]
    BY <1>7, <1>11 DEF SuccIs
  <2>2. p \in A /\ B \subseteq A \ {p}
    <3>1. p \in A
      BY <1>1, <1>6 DEF Ahead
    <3>2. ASSUME NEW t \in B PROVE t \in A \ {p}
      <4>1. t \in P /\ ord[n] <= ord[t]
        BY <1>6 DEF Ahead
      <4>2. ord[p] < ord[t] /\ ord[p] <= ord[t] /\ t # p
        BY <1>6, <2>1, <4>1
      <4> QED BY <4>1, <4>2 DEF Ahead
    <3> QED BY <3>1, <3>2
  <2>3. /\ IsFiniteSet(A) /\ Cardinality(A) \in Nat /\ Cardinality(B) \in Nat
    BY AheadIs
  <2> HIDE DEF A, B
  <2>4. IsFiniteSet(A \ {p}) /\ Cardinality(A \ {p}) = Cardinality(A) - 1
    BY <2>2, <2>3, FS_RemoveElement
  <2>5. Cardinality(B) <= Cardinality(A \ {p})
    BY <2>2, <2>4, FS_Subset
  <2>6. Cardinality(A) + i <= NB
    BY <1>1 DEF InOrder, A
  <2>7. Cardinality(B) + (i + 1) <= NB
    BY <2>3, <2>4, <2>5, <2>6, NBAssumption
  <2> QED BY <2>7 DEF B
<1> HIDE DEF n, P, Q
<1>12. InOrder(ord, i + 1, U, n)
  BY <1>5, <1>9, <1>10, <1>11 DEF InOrder, Q
<1> QED BY <1>12 DEF U, n

\* What mob_clean_entry leaves.
LEMMA WalkIs ==
  ASSUME Env, NEW S, StoreOK(S)
  PROVE  /\ StoreOK(Walk(S).S)
         /\ Walk(S).S.intact <=> S.intact
         /\ Swept(S, Walk(S).S)
         /\ S.intact => /\ Walk(S).pos = LIST_END
                        /\ \A s \in LocalOf(Walk(S).S.rt) : ~Over(Walk(S).S.rt[s])
<1>1. S \in Stores /\ TableOK(S.rt) /\ (S.intact => Threaded(S.rt, S.out))
  BY DEF StoreOK
<1>2. PICK ord \in [Slots -> Nat] : S.intact => Sorted(S.out, LocalOf(S.rt), ord)
  <2>1. CASE S.intact
    BY <1>1, <2>1 DEF Threaded
  <2>2. CASE ~S.intact
    <3>1. [s \in Slots |-> 0] \in [Slots -> Nat]
      OBVIOUS
    <3> QED BY <2>2, <3>1
  <2> QED BY <2>1, <2>2
<1> DEFINE Good(i, v) ==
             /\ StoreOK(v.S)
             /\ v.S.intact <=> S.intact
             /\ Swept(S, v.S)
             /\ Lonely => v.pos \in LocalOf(v.S.rt) \cup {LIST_END}
             /\ S.intact => InOrder(ord, i, v.S, v.pos)
           X == [i \in 0 .. 3 * NB |-> {v \in Walkers : Good(i, v)}]
           c == [S |-> S, pos |-> S.out.min]
<1>3. 3 * NB \in Nat /\ 0 \in 0 .. 3 * NB /\ NB \in Nat /\ NB >= 1
  BY NBAssumption
<1>4. c \in Walkers /\ Good(0, c)
  <2>1. S.out.min \in Ends
    BY <1>1, StoreFields DEF SettledLists
  <2>2. c \in Walkers /\ c.S = S /\ c.pos = S.out.min
    BY <1>1, <2>1 DEF Walkers
  <2> HIDE DEF c
  <2>3. Swept(S, S)
    BY DEF Swept
  <2>4. Lonely => S.out.min \in LocalOf(S.rt) \cup {LIST_END}
    BY DEF StoreOK, OneSlot, Tied, AloneOn, AloneOff
  <2>5. ASSUME S.intact PROVE InOrder(ord, 0, S, S.out.min)
    <3>1. Sorted(S.out, LocalOf(S.rt), ord)
      BY <1>2, <2>5
    <3>2. FirstIs(LocalOf(S.rt), ord, S.out.min)
      BY <3>1 DEF Sorted
    <3>3. CASE S.out.min = LIST_END
      BY <3>1, <3>2, <3>3 DEF FirstIs, InOrder
    <3>4. CASE S.out.min # LIST_END
      <4>1. S.out.min \in LocalOf(S.rt) /\ \A t \in LocalOf(S.rt) : ord[S.out.min] <= ord[t]
        BY <3>2, <3>4 DEF FirstIs
      <4>2. \A t \in LocalOf(S.rt) : t \in Slots /\ ord[t] \in Nat
        BY DEF LocalOf
      <4>3. \A t \in LocalOf(S.rt) : ~(ord[t] < ord[S.out.min])
        BY <4>1, <4>2
      <4>4. Cardinality(Ahead(S.rt, ord, S.out.min)) + 0 <= NB
        BY AheadIs
      <4> QED BY <3>1, <3>4, <4>1, <4>3, <4>4 DEF InOrder
    <3> QED BY <3>3, <3>4
  <2> QED BY <2>2, <2>3, <2>4, <2>5
<1>5. ASSUME NEW i \in 1 .. 3 * NB, NEW v \in Walkers, Good(i - 1, v)
      PROVE  Stepped(v) \in Walkers /\ Good(i, Stepped(v))
  <2>0. i - 1 \in Nat /\ (i - 1) + 1 = i
    BY <1>3
  <2>1. CASE v.pos \notin Slots
    <3>1. Stepped(v) = v
      BY <2>1 DEF Stepped
    <3>2. S.intact => v.pos = LIST_END
      BY <1>5, <2>1 DEF InOrder, LocalOf
    <3>3. S.intact => InOrder(ord, i, v.S, v.pos)
      BY <1>5, <3>2 DEF InOrder
    <3> QED BY <1>5, <3>1, <3>3
  <2>2. CASE v.pos \in Slots
    <3> DEFINE p == v.pos
               T == v.S
               n == T.out.next[p]
               w == [S |-> Cleaned(T, p), pos |-> n]
    <3>1. Stepped(v) = w
      BY <2>2 DEF Stepped
    <3>2. T \in Stores /\ p \in Slots /\ p # LIST_END /\ StoreOK(T) /\ (T.intact <=> S.intact)
      BY <1>5, <2>2, EndsAreNoSlots DEF Walkers
    <3>3. T.intact => p \in LocalOf(T.rt)
      BY <1>5, <3>2 DEF InOrder
    <3>4. Lonely => p \in LocalOf(T.rt)
      BY <1>5, <3>2
    <3>13. T.intact \/ Lonely => p \in LocalOf(T.rt)
      BY <3>3, <3>4
    <3>5. /\ StoreOK(Cleaned(T, p)) /\ (Cleaned(T, p).intact <=> T.intact)
          /\ \A t \in Slots \ {p} : Cleaned(T, p).rt[t] = T.rt[t]
          /\ Over(T.rt[p]) => Cleaned(T, p).rt[p] = Unused(T.rt[p])
      BY <3>2, <3>13, CleanKeeps
    <3>6. ~Over(T.rt[p]) => Cleaned(T, p) = T
      BY DEF Cleaned
    <3>7. n \in Ends
      BY <3>2, StoreFields DEF SettledLists
    <3>8. w \in Walkers /\ w.S = Cleaned(T, p) /\ w.pos = n
      BY <3>5, <3>7 DEF Walkers, StoreOK
    <3>9. Lonely => n = LIST_END
      BY <3>2, <3>4, LonelyLocal DEF AloneOn
    <3>10. S.intact => InOrder(ord, i, Cleaned(T, p), n)
      <4> SUFFICES ASSUME S.intact PROVE InOrder(ord, i, Cleaned(T, p), n)
        OBVIOUS
      <4>1. InOrder(ord, i - 1, T, p) /\ T.intact
        BY <1>5, <3>2
      <4>2. InOrder(ord, (i - 1) + 1, Cleaned(T, p), n)
        BY <2>0, <3>2, <4>1, InOrderStep
      <4> QED BY <2>0, <4>2
    <3>11. Swept(S, Cleaned(T, p))
      <4> SUFFICES ASSUME NEW s \in Slots
                   PROVE  \/ Cleaned(T, p).rt[s] = S.rt[s]
                          \/ Over(S.rt[s]) /\ Cleaned(T, p).rt[s] = Unused(S.rt[s])
        BY DEF Swept
      <4>1. T.rt[s] = S.rt[s] \/ (Over(S.rt[s]) /\ T.rt[s] = Unused(S.rt[s]))
        BY <1>5 DEF Swept
      <4>2. CASE Cleaned(T, p).rt[s] = T.rt[s]
        BY <4>1, <4>2
      <4>3. CASE s = p /\ Over(T.rt[p]) /\ Cleaned(T, p).rt[p] = Unused(T.rt[p])
        <5>1. S.rt[s] \in Entries
          BY <1>1, StoreFields
        <5>2. Unused(Unused(S.rt[s])) = Unused(S.rt[s]) /\ (Over(Unused(S.rt[s])) <=> Over(S.rt[s]))
          BY <5>1, UnusedTwice
        <5> QED BY <4>1, <4>3, <5>2
      <4> QED BY <3>5, <3>6, <4>2, <4>3
    <3> HIDE DEF w, n, T, p
    <3>12. Good(i, w)
      BY <3>2, <3>5, <3>8, <3>9, <3>10, <3>11
    <3> QED BY <3>1, <3>8, <3>12
  <2> QED BY <2>1, <2>2
<1> HIDE DEF Good, c
<1>6. \A i \in 0 .. 3 * NB : X[i] = {v \in Walkers : Good(i, v)}
  OBVIOUS
<1>7. \A i \in 1 .. 3 * NB : i - 1 \in 0 .. 3 * NB /\ i \in 0 .. 3 * NB
  BY <1>3
<1> HIDE DEF X
<1>8. \A i \in 0 .. 3 * NB : X[i] \in SUBSET Walkers
  BY <1>6
<1>9. c \in X[0]
  BY <1>3, <1>4, <1>6
<1>10. \A i \in 1 .. 3 * NB : \A v \in X[i - 1] : Stepped(v) \in X[i]
  BY <1>5, <1>6, <1>7
<1>11. Walk(S) \in X[3 * NB]
  BY <1>8, <1>9, <1>10, WalkRuns DEF c
<1> DEFINE w == Walk(S)
<1>12. w \in Walkers /\ Good(3 * NB, w)
  BY <1>3, <1>6, <1>11
<1> HIDE DEF w
<1>13. /\ StoreOK(w.S) /\ (w.S.intact <=> S.intact) /\ Swept(S, w.S)
       /\ S.intact => InOrder(ord, 3 * NB, w.S, w.pos)
  BY <1>12 DEF Good
<1>14. ASSUME S.intact
       PROVE  w.pos = LIST_END /\ \A s \in LocalOf(w.S.rt) : ~Over(w.S.rt[s])
  <2>1. InOrder(ord, 3 * NB, w.S, w.pos)
    BY <1>13, <1>14
  <2>2. w.pos = LIST_END
    <3> SUFFICES ASSUME w.pos # LIST_END PROVE FALSE
      OBVIOUS
    <3> DEFINE A == Ahead(w.S.rt, ord, w.pos)
    <3>1. w.pos \in LocalOf(w.S.rt) /\ Cardinality(A) + 3 * NB <= NB
      BY <2>1 DEF InOrder
    <3>2. w.pos \in A
      <4>1. w.pos \in Slots
        BY <3>1 DEF LocalOf
      <4>2. ord[w.pos] \in Nat
        BY <4>1
      <4>3. ord[w.pos] <= ord[w.pos]
        BY <4>2
      <4> QED BY <3>1, <4>3 DEF Ahead
    <3>3. IsFiniteSet(A) /\ Cardinality(A) \in Nat
      BY AheadIs
    <3> HIDE DEF A
    <3> QED BY <1>3, <3>1, <3>3
  <2> QED BY <2>1, <2>2 DEF InOrder
<1> QED BY <1>13, <1>14 DEF w

-----------------------------------------------------------------------------
(* What the list holds *)

Onward(R) == R \cup ({out.next[s] : s \in R} \cap Slots)

LEMMA ListedRuns ==
  ASSUME out \in SettledLists
  PROVE  \E R \in [0 .. NB -> SUBSET Slots] :
           /\ R[0] = {out.min} \cap Slots
           /\ \A i \in 1 .. NB : R[i] = Onward(R[i - 1])
           /\ Listed = R[NB]
<1> DEFINE c == {out.min} \cap Slots
           D == SUBSET Slots
           h == [i \in 1 .. NB |-> [Q \in D |-> Onward(Q)]]
           Body(f) == [i \in 0 .. NB |-> IF i = 0 THEN c
                                         ELSE f[i - 1] \cup ({out.next[s] : s \in f[i - 1]} \cap Slots)]
           R == CHOOSE f : f = Body(f)
<1>1. NB \in Nat /\ \A i \in 1 .. NB : i # 0 /\ i - 1 \in 0 .. NB
  BY NBAssumption
<1>2. Listed = R[NB]
  BY DEF Listed
<1>3. h \in [1 .. NB -> [D -> D]] /\ c \in D
  BY DEF Onward
<1>4. \A f : Body(f) = [i \in 0 .. NB |-> IF i = 0 THEN c ELSE Onward(f[i - 1])]
  BY DEF Onward
<1>5. \A i \in 1 .. NB : \A Q \in D : h[i][Q] = Onward(Q)
  OBVIOUS
<1> HIDE DEF h, c, D
<1>6. PICK f \in Runs(D, c, h, NB) : TRUE
  BY <1>1, <1>3, RunsExist
<1>7. /\ f \in [0 .. NB -> D] /\ f[0] = c
      /\ \A i \in 1 .. NB : f[i] = h[i][f[i - 1]]
  BY <1>1, <1>6 DEF Runs
<1>8. \A i \in 1 .. NB : f[i] = Onward(f[i - 1])
  BY <1>1, <1>5, <1>7
<1>9. f = [i \in 0 .. NB |-> IF i = 0 THEN c ELSE Onward(f[i - 1])]
  BY <1>1, <1>7, <1>8
<1> HIDE DEF Body
<1>10. f = Body(f)
  BY <1>4, <1>9
<1>11. R = Body(R)
  BY <1>10
<1> HIDE DEF R
<1>12. R = [i \in 0 .. NB |-> IF i = 0 THEN c ELSE Onward(R[i - 1])]
  BY <1>4, <1>11
<1>13. R[0] = c /\ \A i \in 1 .. NB : R[i] = Onward(R[i - 1])
  <2>1. \A i \in 0 .. NB : R[i] = IF i = 0 THEN c ELSE Onward(R[i - 1])
    BY <1>12
  <2>2. 0 \in 0 .. NB /\ \A i \in 1 .. NB : i \in 0 .. NB /\ i # 0
    BY <1>1
  <2> QED BY <2>1, <2>2
<1>14. \A n \in Nat : n <= NB => R[n] \in SUBSET Slots
  <2> DEFINE Y == {n \in Nat : n <= NB => R[n] \in SUBSET Slots}
  <2>1. 0 \in Y
    BY <1>3, <1>13 DEF D
  <2>2. ASSUME NEW n \in Nat, n \in Y PROVE n + 1 \in Y
    <3> SUFFICES ASSUME n + 1 <= NB PROVE R[n + 1] \in SUBSET Slots
      OBVIOUS
    <3>1. R[n] \in SUBSET Slots /\ n + 1 \in 1 .. NB /\ (n + 1) - 1 = n
      BY <1>1, <2>2
    <3>2. R[n + 1] = Onward(R[n])
      BY <1>13, <3>1
    <3> QED BY <3>1, <3>2 DEF Onward
  <2> HIDE DEF Y
  <2>3. \A n \in Nat : n \in Y
    BY <2>1, <2>2, SetInduction
  <2> QED BY <2>3 DEF Y
<1>15. R \in [0 .. NB -> SUBSET Slots]
  <2>1. \A i \in 0 .. NB : R[i] \in SUBSET Slots
    BY <1>1, <1>14
  <2> QED BY <1>12, <2>1
<1> QED BY <1>2, <1>13, <1>15 DEF c

\* A list that is threaded through P: the walk along it comes to P and no more.
LEMMA ListedIs ==
  ASSUME out \in SettledLists, NEW P \in SUBSET Slots, NEW ord \in [Slots -> Nat],
         Sorted(out, P, ord)
  PROVE  Listed = P
<1>1. PICK R \in [0 .. NB -> SUBSET Slots] :
         /\ R[0] = {out.min} \cap Slots
         /\ \A i \in 1 .. NB : R[i] = Onward(R[i - 1])
         /\ Listed = R[NB]
  BY ListedRuns
<1> DEFINE Behind(t) == {u \in P : ord[u] <= ord[t]}
           Good(i) == /\ R[i] \subseteq P
                      /\ {out.min} \cap Slots \subseteq R[i]
                      /\ \A t \in P : Cardinality(Behind(t)) <= i => t \in R[i]
<1>2. NB \in Nat /\ LIST_END \notin Slots /\ \A s \in Slots : ord[s] \in Nat
  BY NBAssumption, EndsAreNoSlots
<1>3. ASSUME NEW t \in P
      PROVE  /\ IsFiniteSet(Behind(t)) /\ Cardinality(Behind(t)) \in Nat
             /\ Cardinality(Behind(t)) <= NB /\ t \in Behind(t)
  <2>1. IsFiniteSet(Slots) /\ Cardinality(Slots) = NB
    <3> DEFINE l == NB - 1
    <3>1. 0 \in Int /\ l \in Int
      BY <1>2
    <3> HIDE DEF l
    <3>2. IsFiniteSet(0 .. l) /\ Cardinality(0 .. l) = IF 0 > l THEN 0 ELSE l - 0 + 1
      BY <3>1, FS_Interval
    <3> QED BY <1>2, <3>2 DEF Slots, l
  <2>2. Behind(t) \in SUBSET Slots
    OBVIOUS
  <2>3. t \in Behind(t)
    BY <1>2
  <2> HIDE DEF Behind
  <2>4. IsFiniteSet(Behind(t)) /\ Cardinality(Behind(t)) <= Cardinality(Slots)
    BY <2>1, <2>2, FS_Subset
  <2> QED BY <2>1, <2>3, <2>4, FS_CardinalityType
<1>4. /\ FirstIs(P, ord, out.min)
      /\ \A s \in P : SuccIs(P, ord, s, out.next[s]) /\ PredIs(P, ord, s, out.prev[s])
      /\ \A s, t \in P : ord[s] = ord[t] => s = t
  BY DEF Sorted
<1>5. Good(0)
  <2>1. R[0] \subseteq P
    BY <1>1, <1>2, <1>4 DEF FirstIs
  <2>2. \A t \in P : ~(Cardinality(Behind(t)) <= 0)
    <3> SUFFICES ASSUME NEW t \in P, Cardinality(Behind(t)) <= 0 PROVE FALSE
      OBVIOUS
    <3> HIDE DEF Behind
    <3>1. Cardinality(Behind(t)) = 0
      BY <1>3
    <3>2. Behind(t) = {}
      BY <1>3, <3>1, FS_EmptySet
    <3> QED BY <1>3, <3>2
  <2> QED BY <1>1, <2>1, <2>2
<1>6. ASSUME NEW i \in Nat, i + 1 <= NB, Good(i) PROVE Good(i + 1)
  <2>1. R[i + 1] = R[i] \cup ({out.next[s] : s \in R[i]} \cap Slots)
    <3>1. i + 1 \in 1 .. NB /\ (i + 1) - 1 = i
      BY <1>2, <1>6
    <3> QED BY <1>1, <3>1 DEF Onward
  <2>2. R[i + 1] \subseteq P
    <3>1. \A s \in P : out.next[s] \in P \/ out.next[s] = LIST_END
      BY <1>4 DEF SuccIs
    <3> QED BY <1>2, <1>6, <2>1, <3>1
  <2>3. ASSUME NEW t \in P, Cardinality(Behind(t)) <= i + 1 PROVE t \in R[i + 1]
    <3> DEFINE p == out.prev[t]
               n == out.next[p]
    <3>1. PredIs(P, ord, t, p) /\ t \in Slots
      BY <1>4
    <3>2. CASE p = LIST_END
      <4>1. \A u \in P : ord[t] <= ord[u]
        BY <3>1, <3>2 DEF PredIs
      <4>2. out.min \in P /\ ord[out.min] <= ord[t]
        BY <1>4 DEF FirstIs
      <4>3. ord[out.min] = ord[t]
        BY <1>2, <4>1, <4>2
      <4>4. out.min = t
        BY <1>4, <4>2, <4>3
      <4> QED BY <1>6, <2>1, <3>1, <4>4
    <3>3. CASE p # LIST_END
      <4>1. p \in P /\ ord[p] < ord[t] /\ \A u \in P : ord[u] <= ord[p] \/ ord[t] <= ord[u]
        BY <3>1, <3>3 DEF PredIs
      <4>2. SuccIs(P, ord, p, n)
        BY <1>4, <4>1
      <4>3. n # LIST_END
        <5> SUFFICES ASSUME n = LIST_END PROVE FALSE
          OBVIOUS
        <5>1. ord[t] <= ord[p]
          BY <4>2 DEF SuccIs
        <5> QED BY <1>2, <4>1, <5>1
      <4>4. n \in P /\ ord[p] < ord[n] /\ \A u \in P : ord[u] <= ord[p] \/ ord[n] <= ord[u]
        BY <4>2, <4>3 DEF SuccIs
      <4>5. ord[n] = ord[t]
        BY <1>2, <4>1, <4>4
      <4>6. n = t
        BY <1>4, <4>4, <4>5
      <4>7. p \in R[i]
        <5>1. Behind(p) \subseteq Behind(t) \ {t}
          <6>1. \A u \in P : ord[u] <= ord[p] => ord[u] <= ord[t] /\ u # t
            BY <1>2, <4>1
          <6> QED BY <6>1
        <5>2. /\ IsFiniteSet(Behind(t)) /\ Cardinality(Behind(t)) \in Nat /\ t \in Behind(t)
              /\ Cardinality(Behind(p)) \in Nat
          BY <1>3, <4>1
        <5>3. Good(i)
          BY <1>6
        <5> HIDE DEF Behind
        <5>4. IsFiniteSet(Behind(t) \ {t}) /\ Cardinality(Behind(t) \ {t}) = Cardinality(Behind(t)) - 1
          BY <5>2, FS_RemoveElement
        <5>5. Cardinality(Behind(p)) <= Cardinality(Behind(t) \ {t})
          BY <5>1, <5>4, FS_Subset
        <5>6. Cardinality(Behind(p)) <= i
          BY <2>3, <5>2, <5>4, <5>5
        <5> QED BY <4>1, <5>3, <5>6
      <4> QED BY <2>1, <3>1, <4>6, <4>7
    <3> QED BY <3>2, <3>3
  <2> QED BY <1>6, <2>1, <2>2, <2>3
<1>7. Good(NB)
  <2> DEFINE Y == {i \in Nat : i <= NB => Good(i)}
  <2> HIDE DEF Good
  <2>1. 0 \in Y
    BY <1>5
  <2>2. \A i \in Nat : i \in Y => i + 1 \in Y
    BY <1>2, <1>6
  <2> HIDE DEF Y
  <2>3. \A i \in Nat : i \in Y
    BY <2>1, <2>2, SetInduction
  <2> QED BY <1>2, <2>3 DEF Y
<1> QED BY <1>1, <1>3, <1>7

-----------------------------------------------------------------------------
(* Lookups, DAOs, No-Path DAOs *)

\* uip_ds6_route_lookup: what is left of the node's routes is not over.
LEMMA LookedKeeps ==
  ASSUME Env, NEW S, StoreOK(S), NEW n \in scope.nodes
  PROVE  /\ StoreOK(Looked(S, n)) /\ Swept(S, Looked(S, n))
         /\ Looked(S, n).intact <=> S.intact
         /\ \A s \in SlotsOf(Looked(S, n), n) :
              Looked(S, n).rt[s].from = "DAO" => ~Over(Looked(S, n).rt[s])
<1> DEFINE L == {s \in SlotsOf(S, n) : S.rt[s].from = "DAO" /\ Over(S.rt[s])}
<1>0. S \in Stores
  BY DEF StoreOK
<1>1. CASE L = {}
  <2>1. Looked(S, n) = S
    BY <1>1 DEF Looked
  <2>2. Swept(S, S)
    BY DEF Swept
  <2> QED BY <1>0, <1>1, <2>1, <2>2
<1>2. CASE L # {}
  <2> DEFINE s == CHOOSE s \in L : TRUE
             T == LostNode(RouteRm(S, s), s)
  <2>1. s \in L
    BY <1>2
  <2>2. Looked(S, n) = T
    BY <1>2 DEF Looked
  <2> HIDE DEF s
  <2>3. s \in SlotsOf(S, n) /\ S.rt[s].from = "DAO" /\ Over(S.rt[s]) /\ s \in Slots
    BY <2>1 DEF SlotsOf
  <2>4. StoreOK(T)
    BY <2>3, DropKeeps
  <2>5. Is(T, [S.rt EXCEPT ![s] = Unused(@)], ListRemove(S.out, s),
           S.kernel \ {<<S.rt[s].addr, "tty">>}, S.intact)
    BY <1>0, <2>3, DropIs
  <2> HIDE DEF T
  <2>6. T.rt = [S.rt EXCEPT ![s] = Unused(@)] /\ (T.intact <=> S.intact)
    BY <2>5 DEF Is
  <2>7. S.rt[s] \in Entries /\ S.rt \in [Slots -> Entries]
    BY <1>0, <2>3, StoreFields
  <2>8. T.rt[s] = Unused(S.rt[s]) /\ ~T.rt[s].used /\ \A t \in Slots \ {s} : T.rt[t] = S.rt[t]
    BY <2>3, <2>6, <2>7, UnusedIs
  <2>9. Swept(S, T)
    BY <2>3, <2>8 DEF Swept
  <2>10. SlotsOf(T, n) = {}
    <3>1. \A t \in Slots \ {s} : ~(S.rt[t].used /\ S.rt[t].addr = n)
      BY <2>3, KnownSlot
    <3> QED BY <2>8, <3>1 DEF SlotsOf
  <2> QED BY <2>2, <2>4, <2>6, <2>9, <2>10
<1> QED BY <1>1, <1>2

\* A slot that a DAO has just filled or updated.
JustHeard(S, T, s) ==
  /\ T.intact => S.intact
  /\ \A t \in Slots \ {s} : T.rt[t] = S.rt[t]
  /\ T.rt[s].start = now /\ T.rt[s].interval = Lifetime

LEMMA EnterHeard ==
  ASSUME Env, NEW S \in Stores, NEW s \in Slots, NEW n \in scope.nodes
  PROVE  JustHeard(S, Maj(Enter(S, s, n), s), s)
<1> DEFINE T == Maj(Enter(S, s, n), s)
<1>1. /\ T.rt = [S.rt EXCEPT ![s] = LocalNow(NewEntry(n))]
      /\ T.intact <=> S.intact /\ ~(S.rt[s].used /\ S.rt[s].from = "DAO")
  BY EnterIs DEF Is
<1> HIDE DEF T
<1>2. NewEntry(n) \in Entries
  BY NewEntryIs
<1>3. LocalNow(NewEntry(n)).start = now /\ LocalNow(NewEntry(n)).interval = Lifetime
  BY <1>2, LocalIs
<1>4. T.rt[s] = LocalNow(NewEntry(n)) /\ \A t \in Slots \ {s} : T.rt[t] = S.rt[t]
  BY <1>1, StoreFields
<1>5. JustHeard(S, T, s)
  BY <1>1, <1>3, <1>4 DEF JustHeard
<1> QED BY <1>5 DEF T

LEMMA UpdateHeard ==
  ASSUME Env, NEW S \in Stores, NEW s \in Slots, NEW n \in scope.nodes
  PROVE  JustHeard(S, Maj(Update(S, s, n), s), s)
<1> DEFINE T == Maj(Update(S, s, n), s)
<1>1. /\ T.rt = [S.rt EXCEPT ![s] = LocalNow(@)]
      /\ T.intact <=> S.intact /\ S.rt[s].from # "6LBR"
  BY ZenonT(60), UpdateIs DEF Is
<1> HIDE DEF T
<1>2. S.rt[s] \in Entries
  BY StoreFields
<1>3. LocalNow(S.rt[s]).start = now /\ LocalNow(S.rt[s]).interval = Lifetime
  BY <1>2, LocalIs
<1>4. T.rt[s] = LocalNow(S.rt[s]) /\ \A t \in Slots \ {s} : T.rt[t] = S.rt[t]
  BY <1>1, StoreFields
<1>5. JustHeard(S, T, s)
  BY <1>1, <1>3, <1>4 DEF JustHeard
<1> QED BY <1>5 DEF T

-----------------------------------------------------------------------------
(* The invariant *)

\* The cleaner will come to a local route in time: e is its timer.
Awaited(e, c) ==
  /\ c.active /\ e.interval > 0
  /\ c.repeat = 0 => /\ e.start + e.interval <= c.at
                     /\ c.at <= e.start + e.interval + Lifetime
  /\ c.repeat = Lifetime => /\ e.start + e.interval <= c.at + Lifetime
                            /\ c.at <= e.start + e.interval + 2 * Lifetime

CleanerOK ==
  /\ cleaner \in [active : BOOLEAN, repeat : {0, Lifetime}, at : Nat]
  /\ cleaner.active => now <= cleaner.at /\ cleaner.at <= now + Lifetime
  /\ ~cleaner.active => cleaner.at = 0

Timing ==
  /\ CleanerOK
  /\ intact => \A s \in LocalOf(rt) : Awaited(rt[s], cleaner)

HeardOK ==
  /\ heard \in [Gws -> [Nodes -> 0 .. now]] /\ seen \in [Nodes -> 0 .. now]
  /\ lost \in [Gws -> SUBSET scope.nodes]
  /\ \A m \in net : MsgOK(m)

HomeAgentInv ==
  /\ scope \in Scopes /\ now \in 1 .. scope.end
  /\ StoreOK(Store)
  /\ Timing
  /\ HeardOK
  /\ hung \in BOOLEAN /\ (intact => ~hung)

LEMMA InvEnv ==
  ASSUME HomeAgentInv
  PROVE  Env /\ Store \in Stores /\ scope.end \in Nat /\ now <= scope.end
<1>1. scope.end \in Nat
  BY HomeAgentAssumption DEF HomeAgentInv
<1> QED BY <1>1 DEF HomeAgentInv, Env, StoreOK

\* StoreOK reads the clock only to bound time stamps.
LEMMA StoreLater ==
  ASSUME Env, NEW T, StoreOK(T), Becomes(T), scope' = scope, now' \in Nat, now' >= now
  PROVE  StoreOK(Store)'
<1>1. T \in Stores /\ now \in Nat
  BY DEF StoreOK, Env
<1>2. Store' = T
  <2>1. T = [rt |-> T.rt, out |-> T.out, kernel |-> T.kernel, intact |-> T.intact]
    BY <1>1 DEF Stores
  <2> QED BY <2>1 DEF Store, Becomes
<1>3. Entries \subseteq Entries'
  <2>1. 0 .. now \subseteq 0 .. now'
    BY <1>1
  <2> QED BY <2>1 DEF Entries
<1>4. Stores \subseteq Stores'
  BY <1>3 DEF Stores
<1>5. TableOK(T.rt) => TableOK(Store.rt)'
  <2>1. (Store.rt)' = T.rt
    BY <1>2
  <2> QED BY <1>3, <2>1 DEF TableOK, RoleOK
<1>6. Threaded(T.rt, T.out) => Threaded(Store.rt, Store.out)'
  BY <1>2 DEF Threaded, LocalOf
<1>7. OneSlot(T.rt, T.out) => OneSlot(Store.rt, Store.out)'
  BY <1>2 DEF OneSlot, Tied, AloneOn, AloneOff, LocalOf
<1>8. Follows(T.rt, T.kernel) => Follows(Store.rt, Store.kernel)'
  <2>1. (Store.rt)' = T.rt /\ (Store.kernel)' = T.kernel
    BY <1>2
  <2>2. \A s, n, d : Leads(Store.rt, s, n, d)' <=> Leads(T.rt, s, n, d)
    BY <2>1 DEF Leads
  <2> QED BY <2>1, <2>2 DEF Follows
<1>9. (Lonely' <=> Lonely) /\ (Room' <=> Room)
  BY DEF Lonely, Room
<1>10. /\ TableOK(T.rt)
       /\ T.intact => Threaded(T.rt, T.out)
       /\ Lonely => OneSlot(T.rt, T.out)
       /\ Room /\ (T.intact \/ Lonely) => Follows(T.rt, T.kernel)
  BY DEF StoreOK
<1>11. (Store.intact)' <=> T.intact
  BY <1>2
<1>12. Store' \in Stores'
  BY <1>1, <1>2, <1>4
<1> QED BY <1>5, <1>6, <1>7, <1>8, <1>9, <1>10, <1>11, <1>12 DEF StoreOK

LEMMA StoreKept ==
  ASSUME Env, StoreOK(Store), UNCHANGED store, intact' = intact, scope' = scope,
         now' \in Nat, now' >= now
  PROVE  StoreOK(Store)'
<1>1. Becomes(Store)
  BY DEF Becomes, Store, store
<1> QED BY <1>1, StoreLater

LEMMA MsgLater ==
  ASSUME Env, NEW m, MsgOK(m), scope' = scope, now' \in Nat, now' >= now
  PROVE  MsgOK(m)'
<1>1. now \in Nat
  BY DEF Env
<1>2. 1 .. now \subseteq 1 .. now'
  BY <1>1
<1>3. \A k \in Nat : Shaped(m.options, m.stamps, k) => Shaped(m.options, m.stamps, k)'
  BY DEF Shaped, BindsUpTo, DeletesFrom, Deletes
<1> QED BY <1>2, <1>3 DEF MsgOK

LEMMA HeardLater ==
  ASSUME Env, HeardOK, scope' = scope, now' \in Nat, now' >= now, UNCHANGED <<heard, lost, net, seen>>
  PROVE  HeardOK'
<1>1. now \in Nat /\ 0 .. now \subseteq 0 .. now'
  BY DEF Env
<1>2. \A m \in net : MsgOK(m)'
  BY MsgLater DEF HeardOK
<1>3. heard' \in [Gws -> [Nodes -> 0 .. now']] /\ seen' \in [Nodes -> 0 .. now']
  BY <1>1 DEF HeardOK
<1> QED BY <1>2, <1>3 DEF HeardOK

\* Local routes that are left alone are awaited as before.
LEMMA TimingKept ==
  ASSUME Timing, UNCHANGED <<cleaner, now>>, NEW T, Becomes(T), T.intact => intact,
         \A s \in LocalOf(T.rt) : s \in LocalOf(rt) /\ T.rt[s] = rt[s]
  PROVE  Timing'
<1>1. CleanerOK'
  BY DEF CleanerOK, Timing
<1>2. ASSUME intact', NEW s \in LocalOf(rt)' PROVE Awaited(rt[s], cleaner)'
  <2>1. T.rt = rt' /\ (T.intact <=> intact')
    BY DEF Becomes
  <2>2. s \in LocalOf(T.rt)
    BY <2>1 DEF LocalOf
  <2>3. intact /\ s \in LocalOf(rt) /\ rt'[s] = rt[s]
    BY <1>2, <2>1, <2>2
  <2>4. Awaited(rt[s], cleaner)
    BY <2>3 DEF Timing
  <2> QED BY <2>3, <2>4 DEF Awaited
<1> QED BY <1>1, <1>2 DEF Timing

-----------------------------------------------------------------------------
(* The invariant holds at first *)

LEMMA InitInv == Init => HomeAgentInv
<1> SUFFICES ASSUME Init PROVE HomeAgentInv
  OBVIOUS
<1>1. /\ scope \in Scopes /\ now = 1 /\ kernel = {} /\ out = EmptyList /\ net = {}
      /\ intact = TRUE /\ hung = FALSE
      /\ cleaner = [active |-> FALSE, repeat |-> 0, at |-> 0]
      /\ heard = [g \in Gws |-> [n \in Nodes |-> 0]] /\ lost = [g \in Gws |-> {}]
      /\ seen = [n \in Nodes |-> 0]
      /\ rt = [s \in Slots |-> [used |-> s = NB - 1, addr |-> Self, from |-> "INTERNAL",
                                gw |-> NoGw, start |-> 0, interval |-> 0]]
  BY DEF Init
<1>2. Env /\ scope.end \in Nat \ {0}
  BY <1>1, HomeAgentAssumption DEF Env
<1>3. now \in 1 .. scope.end
  BY <1>1, <1>2
<1> DEFINE e(s) == [used |-> s = NB - 1, addr |-> Self, from |-> "INTERNAL",
                    gw |-> NoGw, start |-> 0, interval |-> 0]
<1>4. \A s \in Slots : rt[s] \in Entries /\ rt[s].addr = Self /\ rt[s].from = "INTERNAL"
                       /\ (rt[s].used <=> s = NB - 1)
  <2>1. \A s \in Slots : rt[s] = e(s)
    BY <1>1
  <2>2. 0 \in 0 .. now
    BY <1>1
  <2>3. \A s \in Slots : e(s) \in Entries
    BY <2>2 DEF Entries
  <2>4. \A s \in Slots : e(s).addr = Self /\ e(s).from = "INTERNAL"
    OBVIOUS
  <2>5. \A s \in Slots : e(s).used = (s = NB - 1)
    BY Zenon
  <2> HIDE DEF e
  <2> QED BY <2>1, <2>3, <2>4, <2>5
<1>5. rt \in [Slots -> Entries]
  <2>1. rt = [s \in Slots |-> rt[s]]
    BY <1>1
  <2> QED BY <1>4, <2>1
<1>6. EmptyList \in SettledLists /\ 0 \in Slots
  BY NBAssumption DEF EmptyList, SettledLists, Ends, Slots
<1>7. LocalOf(rt) = {}
  BY <1>4 DEF LocalOf
<1>8. StoreOK(Store)
  <2>1. Store.rt = rt /\ Store.out = EmptyList /\ Store.kernel = {} /\ (Store.intact <=> TRUE)
    BY <1>1 DEF Store
  <2>2. Store \in Stores
    BY <1>1, <1>5, <1>6 DEF Store, Stores
  <2>3. TableOK(rt)
    BY <1>4, <1>5 DEF TableOK, RoleOK
  <2>4. Threaded(rt, EmptyList)
    <3>1. [s \in Slots |-> 0] \in [Slots -> Nat]
      OBVIOUS
    <3>2. \A ord : Sorted(EmptyList, {}, ord)
      BY DEF Sorted, FirstIs, LastIs, EmptyList
    <3> QED BY <1>7, <3>1, <3>2 DEF Threaded
  <2>5. Lonely => OneSlot(rt, EmptyList)
    <3> SUFFICES ASSUME Lonely PROVE OneSlot(rt, EmptyList)
      OBVIOUS
    <3>2. Tied(rt, EmptyList)
      BY <1>2, <1>7, LonelyIs DEF Tied, AloneOff, EmptyList
    <3> QED BY <1>4, <3>2, SlotsAre DEF OneSlot
  <2>6. Follows(rt, {})
    BY <1>4, EnvIs, <1>2 DEF Follows, Leads
  <2> QED BY <2>1, <2>2, <2>3, <2>4, <2>5, <2>6 DEF StoreOK
<1>9. Timing
  BY <1>1, <1>7 DEF Timing, CleanerOK
<1>10. HeardOK
  BY <1>1 DEF HeardOK
<1> QED BY <1>1, <1>3, <1>8, <1>9, <1>10 DEF HomeAgentInv

-----------------------------------------------------------------------------
(* Every step keeps it, and no time stamp goes back *)

Grow ==
  Room => \A s \in Slots :
    (rt[s].used /\ rt'[s].used /\ rt[s].addr = rt'[s].addr) => rt'[s].start >= rt[s].start

LEMMA StartsAre ==
  ASSUME HomeAgentInv
  PROVE  \A s \in Slots : rt[s] \in Entries /\ rt[s].start \in Int /\ rt[s].start <= now
<1>1. Env /\ Store \in Stores
  BY InvEnv
<1>2. Store.rt = rt
  BY DEF Store
<1> QED BY <1>1, <1>2, StoreFields, EnvIs DEF Entries

\* A step that leaves the store alone, the clock perhaps not.
LEMMA QuietKeeps ==
  ASSUME HomeAgentInv, UNCHANGED <<scope, store, cleaner, intact, hung>>,
         now' \in {now, now + 1}, now' <= scope.end, now' > now => ~Due, HeardOK'
  PROVE  HomeAgentInv' /\ Grow
<1>1. Env /\ scope.end \in Nat /\ now \in Nat /\ now' \in Nat /\ now' >= now /\ now' \in 1 .. scope.end
  BY InvEnv DEF HomeAgentInv, Env
<1>2. StoreOK(Store)'
  BY <1>1, StoreKept DEF HomeAgentInv
<1>3. Timing'
  <2>1. CleanerOK'
    <3>1. cleaner \in [active : BOOLEAN, repeat : {0, Lifetime}, at : Nat]
          /\ (cleaner.active => now <= cleaner.at /\ cleaner.at <= now + Lifetime)
          /\ (~cleaner.active => cleaner.at = 0)
      BY DEF HomeAgentInv, Timing, CleanerOK
    <3>2. ASSUME cleaner.active PROVE now' <= cleaner.at /\ cleaner.at <= now' + Lifetime
      <4>1. cleaner.at \in Nat
        BY <3>1
      <4>2. now' = now \/ (now < cleaner.at)
        BY <1>1, <3>2, <4>1 DEF Due
      <4> QED BY <1>1, <3>1, <3>2, <4>1, <4>2, TimesAre
    <3> QED BY <3>1, <3>2 DEF CleanerOK
  <2>2. LocalOf(rt)' = LocalOf(rt) /\ rt' = rt
    BY DEF store, LocalOf
  <2> QED BY <2>1, <2>2 DEF HomeAgentInv, Timing, Awaited
<1>4. Grow
  <2>1. rt' = rt
    BY DEF store
  <2> QED BY <2>1, StartsAre DEF Grow
<1> QED BY <1>1, <1>2, <1>3, <1>4 DEF HomeAgentInv

\* A step of the gateway, the clock standing still: what is left to show.
LEMMA StoreStep ==
  ASSUME HomeAgentInv, NEW T, StoreOK(T), Becomes(T), T.intact => intact,
         UNCHANGED <<scope, now>>, Timing', HeardOK', hung' \in BOOLEAN, intact' => ~hung'
  PROVE  HomeAgentInv'
<1>1. Env /\ now \in Nat
  BY InvEnv DEF Env
<1>2. StoreOK(Store)'
  BY <1>1, StoreLater
<1> QED BY <1>2 DEF HomeAgentInv

LEMMA HearKeeps == HomeAgentInv /\ Hear => HomeAgentInv' /\ Grow
<1> SUFFICES ASSUME HomeAgentInv, Hear PROVE HomeAgentInv' /\ Grow
  OBVIOUS
<1>1. UNCHANGED <<scope, store, cleaner, now, lost, net, intact, hung, seen>>
  BY DEF Hear
<1>2. Env /\ scope.end \in Nat /\ now <= scope.end /\ now \in Nat
  BY InvEnv DEF Env
<1>3. PICK g \in scope.gws, n \in scope.nodes : heard' = [heard EXCEPT ![g][n] = now]
  BY DEF Hear
<1>4. /\ heard \in [Gws -> [Nodes -> 0 .. now]] /\ seen \in [Nodes -> 0 .. now]
      /\ lost \in [Gws -> SUBSET scope.nodes] /\ \A m \in net : MsgOK(m)
  BY DEF HomeAgentInv, HeardOK
<1>5. heard' \in [Gws -> [Nodes -> 0 .. now]]
  BY <1>2, <1>3, <1>4, EnvIs
<1>6. HeardOK'
  BY <1>1, <1>2, <1>4, <1>5, MsgLater DEF HeardOK
<1> QED BY <1>1, <1>2, <1>6, QuietKeeps

LEMMA LoseKeeps == HomeAgentInv /\ Lose => HomeAgentInv' /\ Grow
<1> SUFFICES ASSUME HomeAgentInv, Lose PROVE HomeAgentInv' /\ Grow
  OBVIOUS
<1>1. UNCHANGED <<scope, store, cleaner, now, net, intact, hung, seen>>
  BY DEF Lose
<1>2. Env /\ scope.end \in Nat /\ now <= scope.end /\ now \in Nat
  BY InvEnv DEF Env
<1>3. PICK g \in scope.gws, n \in scope.nodes :
        heard' = [heard EXCEPT ![g][n] = 0] /\ lost' = [lost EXCEPT ![g] = @ \cup {n}]
  BY DEF Lose
<1>4. /\ heard \in [Gws -> [Nodes -> 0 .. now]] /\ seen \in [Nodes -> 0 .. now]
      /\ lost \in [Gws -> SUBSET scope.nodes] /\ \A m \in net : MsgOK(m)
  BY DEF HomeAgentInv, HeardOK
<1>5. heard' \in [Gws -> [Nodes -> 0 .. now]]
  BY <1>2, <1>3, <1>4, EnvIs
<1>6. lost' \in [Gws -> SUBSET scope.nodes]
  BY <1>3, <1>4
<1>7. HeardOK'
  BY <1>1, <1>2, <1>4, <1>5, <1>6, MsgLater DEF HeardOK
<1> QED BY <1>1, <1>2, <1>7, QuietKeeps

LEMMA SendKeeps == HomeAgentInv /\ Send => HomeAgentInv' /\ Grow
<1> SUFFICES ASSUME HomeAgentInv, Send PROVE HomeAgentInv' /\ Grow
  OBVIOUS
<1>1. UNCHANGED <<scope, store, cleaner, now, heard, lost, intact, hung, seen>>
  BY DEF Send
<1>2. Env /\ scope.end \in Nat /\ now <= scope.end /\ now \in Nat
  BY InvEnv DEF Env
<1> DEFINE H(g) == {n \in scope.nodes : heard[g][n] # 0}
           again(S) == IF scope.apply THEN {} ELSE S
           x(g, B, D, C, E) ==
             [gw |-> g,
              options |-> Options("none", B, D, heard[g]) \o Options(Left(B, D), C, E, heard[g]),
              stamps |-> [n \in B \cup C |-> heard[g][n]]]
<1>3. \E g \in scope.gws : \E B \in SUBSET H(g), D \in SUBSET lost[g],
          C \in SUBSET again(H(g)), E \in SUBSET again(lost[g]) : net' = net \cup {x(g, B, D, C, E)}
  BY ZenonT(60) DEF Send
<1> HIDE DEF x
<1>4. PICK g \in scope.gws : \E B \in SUBSET H(g), D \in SUBSET lost[g],
          C \in SUBSET again(H(g)), E \in SUBSET again(lost[g]) : net' = net \cup {x(g, B, D, C, E)}
  BY <1>3
<1>5. PICK B \in SUBSET H(g), D \in SUBSET lost[g],
          C \in SUBSET again(H(g)), E \in SUBSET again(lost[g]) : net' = net \cup {x(g, B, D, C, E)}
  BY <1>4
<1>6. /\ heard \in [Gws -> [Nodes -> 0 .. now]] /\ seen \in [Nodes -> 0 .. now]
      /\ lost \in [Gws -> SUBSET scope.nodes] /\ \A m \in net : MsgOK(m)
  BY DEF HomeAgentInv, HeardOK
<1>7. g \in Gws /\ lost[g] \subseteq scope.nodes
  BY <1>2, <1>6, EnvIs
<1>8. /\ B \in SUBSET scope.nodes /\ D \in SUBSET scope.nodes
      /\ C \in SUBSET scope.nodes /\ E \in SUBSET scope.nodes
      /\ ~scope.apply \/ C = {}
      /\ \A n \in B \cup C : n \in H(g)
  BY <1>7
<1> DEFINE h == heard[g]
<1>9. \A n \in B \cup C : h[n] \in 1 .. now
  <2>1. \A n \in B \cup C : n \in Nodes /\ h[n] # 0
    BY <1>2, <1>8, EnvIs
  <2>2. \A n \in B \cup C : h[n] \in 0 .. now
    BY <1>6, <1>7, <2>1
  <2> HIDE DEF h
  <2> QED BY <1>2, <2>1, <2>2
<1> HIDE DEF h, H, again
<1>10. MsgOK(x(g, B, D, C, E))
  <2>1. MsgOK([gw |-> g,
               options |-> Options("none", B, D, h) \o Options(Left(B, D), C, E, h),
               stamps |-> [n \in B \cup C |-> h[n]]])
    BY <1>2, <1>8, <1>9, SentIs
  <2> QED BY <2>1 DEF x, h
<1> DEFINE y == x(g, B, D, C, E)
<1>11. net' = net \cup {y}
  BY <1>5
<1> HIDE DEF y
<1>12. MsgOK(y)
  BY <1>10 DEF y
<1>13. \A m \in net' : MsgOK(m)'
  BY <1>1, <1>2, <1>6, <1>11, <1>12, MsgLater
<1>14. HeardOK'
  BY <1>1, <1>6, <1>13 DEF HeardOK
<1> QED BY <1>1, <1>2, <1>14, QuietKeeps

LEMMA TickKeeps == HomeAgentInv /\ Tick => HomeAgentInv' /\ Grow
<1> SUFFICES ASSUME HomeAgentInv, Tick PROVE HomeAgentInv' /\ Grow
  OBVIOUS
<1>1. now < scope.end /\ ~Due /\ now' = now + 1 /\ UNCHANGED <<store, cleaner, env, intact, hung, seen>>
  BY DEF Tick
<1>2. Env /\ scope.end \in Nat /\ now \in Nat
  BY InvEnv DEF Env
<1>3. UNCHANGED <<scope, heard, lost, net>>
  BY <1>1 DEF env
<1>4. HeardOK'
  BY <1>1, <1>2, <1>3, HeardLater DEF HomeAgentInv
<1> QED BY <1>1, <1>2, <1>3, <1>4, QuietKeeps

LEMMA ReceiveStep == HomeAgentInv /\ Receive => HomeAgentInv' /\ Grow
<1> SUFFICES ASSUME HomeAgentInv, Receive PROVE HomeAgentInv' /\ Grow
  OBVIOUS
<1>1. UNCHANGED <<cleaner, now, scope, heard, lost, net, hung>>
  BY DEF Receive, env
<1>2. Env /\ Store \in Stores /\ now \in Nat /\ StoreOK(Store)
  BY InvEnv DEF Env, HomeAgentInv
<1>3. PICK m \in net :
        /\ Becomes(mob_proceed_up(Store, m))
        /\ seen' = [n \in Nodes |->
             IF n \in DOMAIN m.stamps /\ m.stamps[n] > seen[n] THEN m.stamps[n] ELSE seen[n]]
  BY DEF Receive
<1>4. /\ MsgOK(m) /\ seen \in [Nodes -> 0 .. now] /\ heard \in [Gws -> [Nodes -> 0 .. now]]
      /\ lost \in [Gws -> SUBSET scope.nodes] /\ \A x \in net : MsgOK(x)
  BY DEF HomeAgentInv, HeardOK
<1> DEFINE T == mob_proceed_up(Store, m)
<1>5. StoreOK(T) /\ Grown(Store, T)
  BY <1>2, <1>4, ReceiveKeeps
<1> HIDE DEF T
<1>6. Becomes(T) /\ Store.rt = rt /\ (Store.intact <=> intact)
  BY <1>3 DEF T, Store
<1>7. /\ T.intact => intact
      /\ \A s \in LocalOf(T.rt) : s \in LocalOf(rt) /\ T.rt[s] = rt[s]
  BY <1>5, <1>6 DEF Grown
<1>8. Timing'
  BY <1>1, <1>6, <1>7, TimingKept DEF HomeAgentInv
<1>9. HeardOK'
  <2>1. seen' \in [Nodes -> 0 .. now]
    <3>1. \A n \in DOMAIN m.stamps : m.stamps[n] \in 1 .. now
      BY <1>2, <1>4, MsgIs
    <3>2. 1 .. now \subseteq 0 .. now
      BY <1>2
    <3> QED BY <1>3, <1>4, <3>1, <3>2
  <2> QED BY <1>1, <1>2, <1>4, <2>1, MsgLater DEF HeardOK
<1>10. Grow
  <2>1. rt' = T.rt
    BY <1>6 DEF Becomes
  <2> QED BY <1>5, <1>6, <2>1 DEF Grow, Grown
<1>11. hung' \in BOOLEAN /\ (intact' => ~hung')
  BY <1>1, <1>6, <1>7 DEF HomeAgentInv, Becomes
<1> QED BY <1>1, <1>5, <1>6, <1>7, <1>8, <1>9, <1>10, <1>11, StoreStep

LEMMA SweptLocal ==
  ASSUME NEW S, NEW T, Swept(S, T), \A s \in Slots : S.rt[s] \in Entries
  PROVE  /\ \A s \in LocalOf(T.rt) : s \in LocalOf(S.rt) /\ T.rt[s] = S.rt[s]
         /\ \A s \in Slots : T.rt[s].used => T.rt[s] = S.rt[s]
<1>1. \A s \in Slots : ~Unused(S.rt[s]).used
  BY UnusedIs
<1>2. \A s \in Slots : T.rt[s].used => T.rt[s] = S.rt[s]
  BY <1>1 DEF Swept
<1> QED BY <1>2 DEF LocalOf

LEMMA LookupStep == HomeAgentInv /\ Lookup => HomeAgentInv' /\ Grow
<1> SUFFICES ASSUME HomeAgentInv, Lookup PROVE HomeAgentInv' /\ Grow
  OBVIOUS
<1>1. UNCHANGED <<cleaner, now, scope, heard, lost, net, hung, seen>>
  BY DEF Lookup, env
<1>2. Env /\ Store \in Stores /\ now \in Nat /\ StoreOK(Store)
  BY InvEnv DEF Env, HomeAgentInv
<1>3. PICK n \in scope.nodes : Becomes(Looked(Store, n))
  BY DEF Lookup
<1> DEFINE T == Looked(Store, n)
<1>4. StoreOK(T) /\ Swept(Store, T) /\ (T.intact <=> Store.intact)
  BY <1>2, LookedKeeps
<1> HIDE DEF T
<1>5. Becomes(T) /\ Store.rt = rt /\ (Store.intact <=> intact)
  BY <1>3 DEF T, Store
<1>6. \A s \in Slots : rt[s] \in Entries /\ rt[s].start \in Int
  BY StartsAre
<1>7. /\ \A s \in LocalOf(T.rt) : s \in LocalOf(rt) /\ T.rt[s] = rt[s]
      /\ \A s \in Slots : T.rt[s].used => T.rt[s] = rt[s]
  BY <1>4, <1>5, <1>6, SweptLocal
<1>8. Timing'
  BY <1>1, <1>4, <1>5, <1>7, TimingKept DEF HomeAgentInv
<1>9. HeardOK'
  BY <1>1, <1>2, HeardLater DEF HomeAgentInv
<1>10. Grow
  <2>1. rt' = T.rt
    BY <1>5 DEF Becomes
  <2> QED BY <1>6, <1>7, <2>1 DEF Grow
<1>11. hung' \in BOOLEAN /\ (intact' => ~hung')
  BY <1>1, <1>4, <1>5 DEF HomeAgentInv, Becomes
<1> QED BY <1>1, <1>4, <1>5, <1>8, <1>9, <1>10, <1>11, StoreStep

\* The cleaner, put off or not, comes to a route that was just heard, and to
\* the others as before.
LEMMA PutOffAwaits ==
  ASSUME Env, CleanerOK, PutOff
  PROVE  /\ cleaner' \in [active : BOOLEAN, repeat : {0, Lifetime}, at : Nat] /\ cleaner'.active
         /\ now <= cleaner'.at /\ cleaner'.at <= now + Lifetime
         /\ \A e : e.start = now /\ e.interval = Lifetime => Awaited(e, cleaner')
         /\ \A e \in Entries : Awaited(e, cleaner) => Awaited(e, cleaner')
<1>1. /\ cleaner \in [active : BOOLEAN, repeat : {0, Lifetime}, at : Nat]
      /\ cleaner.active => now <= cleaner.at /\ cleaner.at <= now + Lifetime
  BY DEF CleanerOK
<1>2. now \in Nat /\ Lifetime \in Nat /\ Lifetime > 0 /\ DaoTimeout \in Nat
  BY TimesAre DEF Env
<1>3. \A e \in Entries : e.start \in Nat /\ e.interval \in Nat
  BY <1>2 DEF Entries
<1>4. CASE ~cleaner.active
  <2>1. cleaner' = [active |-> TRUE, repeat |-> 0, at |-> now + Lifetime]
    BY <1>4 DEF PutOff
  <2>2. \A e : ~Awaited(e, cleaner)
    BY <1>4 DEF Awaited
  <2>3. cleaner'.active /\ cleaner'.repeat = 0 /\ cleaner'.at = now + Lifetime
    BY <2>1
  <2>4. ASSUME NEW e, e.start = now, e.interval = Lifetime PROVE Awaited(e, cleaner')
    BY <1>2, <2>3, <2>4 DEF Awaited
  <2>5. cleaner' \in [active : BOOLEAN, repeat : {0, Lifetime}, at : Nat]
    BY <1>2, <2>1
  <2> QED BY <1>2, <2>2, <2>3, <2>4, <2>5
<1>5. CASE cleaner.active /\ cleaner.repeat = 0
  <2>1. cleaner' = [active |-> TRUE, repeat |-> Lifetime, at |-> now + Lifetime]
    BY <1>5 DEF PutOff
  <2>2. cleaner'.active /\ cleaner'.repeat = Lifetime /\ cleaner'.at = now + Lifetime
    BY <2>1
  <2>3. ASSUME NEW e, e.start = now, e.interval = Lifetime PROVE Awaited(e, cleaner')
    BY <1>2, <2>2, <2>3 DEF Awaited
  <2>4. ASSUME NEW e \in Entries, Awaited(e, cleaner) PROVE Awaited(e, cleaner')
    <3>1. e.start \in Nat /\ e.interval \in Nat /\ cleaner.at \in Nat
      BY <1>1, <1>3
    <3>2. /\ e.interval > 0 /\ e.start + e.interval <= cleaner.at
          /\ cleaner.at <= e.start + e.interval + Lifetime
      BY <1>5, <2>4 DEF Awaited
    <3> QED BY <1>1, <1>2, <1>5, <2>2, <3>1, <3>2 DEF Awaited
  <2>5. cleaner' \in [active : BOOLEAN, repeat : {0, Lifetime}, at : Nat]
    BY <1>2, <2>1
  <2> QED BY <1>2, <2>2, <2>3, <2>4, <2>5
<1>6. CASE cleaner.active /\ cleaner.repeat = Lifetime
  <2>1. cleaner' = cleaner
    BY <1>2, <1>6 DEF PutOff
  <2>2. ASSUME NEW e, e.start = now, e.interval = Lifetime PROVE Awaited(e, cleaner')
    <3>1. cleaner.at \in Nat
      BY <1>1
    <3> QED BY <1>1, <1>2, <1>6, <2>1, <2>2, <3>1 DEF Awaited
  <2> QED BY <1>1, <1>6, <2>1, <2>2
<1> QED BY <1>1, <1>4, <1>5, <1>6

LEMMA DaoStep == HomeAgentInv /\ Dao => HomeAgentInv' /\ Grow
<1> SUFFICES ASSUME HomeAgentInv, Dao PROVE HomeAgentInv' /\ Grow
  OBVIOUS
<1>1. UNCHANGED <<now, scope, heard, lost, net, hung, seen>>
  BY DEF Dao, env
<1>2. Env /\ Store \in Stores /\ now \in Nat /\ StoreOK(Store)
  BY InvEnv DEF Env, HomeAgentInv
<1>3. PICK n \in scope.nodes :
        LET S == Looked(Store, n)
            old == SlotsOf(S, n)
            s == IF old # {} THEN CHOOSE s \in old : \A t \in old : s <= t ELSE Slot(S)
            T == IF old # {} THEN Update(S, s, n) ELSE Enter(S, s, n)
        IN IF s = NoSlot THEN Becomes(S) /\ UNCHANGED cleaner
           ELSE Becomes(Maj(T, s)) /\ PutOff
  BY DEF Dao
<1> DEFINE S == Looked(Store, n)
           old == SlotsOf(S, n)
           s == IF old # {} THEN FirstOf(S, n) ELSE Slot(S)
           T == Maj(IF old # {} THEN Update(S, s, n) ELSE Enter(S, s, n), s)
<1>4. StoreOK(S) /\ Swept(Store, S) /\ (S.intact <=> Store.intact)
  BY <1>2, LookedKeeps
<1>5. IF s = NoSlot THEN Becomes(S) /\ UNCHANGED cleaner ELSE Becomes(T) /\ PutOff
  BY <1>3 DEF FirstOf
<1> HIDE DEF S
<1>6. Store.rt = rt /\ (Store.intact <=> intact) /\ S \in Stores
  BY <1>4 DEF Store, StoreOK
<1>7. \A t \in Slots : rt[t] \in Entries /\ rt[t].start \in Int /\ rt[t].start <= now
  BY StartsAre
<1>8. /\ \A t \in LocalOf(S.rt) : t \in LocalOf(rt) /\ S.rt[t] = rt[t]
      /\ \A t \in Slots : S.rt[t].used => S.rt[t] = rt[t]
  BY <1>4, <1>6, <1>7, SweptLocal
<1>9. HeardOK'
  BY <1>1, <1>2, HeardLater DEF HomeAgentInv
<1>10. CASE s = NoSlot
  <2>1. Becomes(S) /\ UNCHANGED cleaner
    BY <1>5, <1>10
  <2>2. Timing'
    BY <1>1, <1>4, <1>6, <1>8, <2>1, TimingKept DEF HomeAgentInv
  <2>3. Grow
    <3>1. rt' = S.rt
      BY <2>1 DEF Becomes
    <3> QED BY <1>7, <1>8, <3>1 DEF Grow
  <2>4. hung' \in BOOLEAN /\ (intact' => ~hung')
    BY <1>1, <1>4, <1>6, <2>1 DEF HomeAgentInv, Becomes
  <2> QED BY <1>1, <1>4, <1>6, <1>9, <2>1, <2>2, <2>3, <2>4, StoreStep
<1>11. CASE s # NoSlot
  <2>1. s \in Slots /\ StoreOK(T) /\ JustHeard(S, T, s)
    <3>1. CASE old # {}
      <4>1. s = FirstOf(S, n) /\ T = Maj(Update(S, s, n), s)
        BY <3>1
      <4>2. s \in SlotsOf(S, n)
        BY <3>1, <4>1, FirstSlotIs
      <4>3. s \in Slots
        BY <4>2 DEF SlotsOf
      <4> HIDE DEF s, T
      <4>4. StoreOK(Maj(Update(S, s, n), s))
        BY <1>2, <1>4, <4>2, UpdateKeeps
      <4>5. JustHeard(S, Maj(Update(S, s, n), s), s)
        BY <1>2, <1>6, <4>3, UpdateHeard
      <4> QED BY <4>1, <4>3, <4>4, <4>5
    <3>2. CASE old = {}
      <4>1. s = Slot(S) /\ T = Maj(Enter(S, s, n), s)
        BY <3>2
      <4>2. s \in Slots
        BY <1>11, <4>1, SlotIs
      <4> HIDE DEF s, T
      <4>4. StoreOK(Maj(Enter(S, s, n), s))
        BY <1>2, <1>4, <3>2, <4>1, <4>2, EnterKeeps
      <4>5. JustHeard(S, Maj(Enter(S, s, n), s), s)
        BY <1>2, <1>6, <4>2, EnterHeard
      <4> QED BY <4>1, <4>2, <4>4, <4>5
    <3> QED BY <3>1, <3>2
  <2>2. Becomes(T) /\ PutOff
    BY <1>5, <1>11
  <2> HIDE DEF s, T
  <2>3. rt' = T.rt /\ (intact' <=> T.intact)
    BY <2>2 DEF Becomes
  <2>4. /\ T.intact => S.intact
        /\ \A t \in Slots \ {s} : T.rt[t] = S.rt[t]
        /\ T.rt[s].start = now /\ T.rt[s].interval = Lifetime
    BY <2>1 DEF JustHeard
  <2>5. /\ cleaner' \in [active : BOOLEAN, repeat : {0, Lifetime}, at : Nat] /\ cleaner'.active
        /\ now <= cleaner'.at /\ cleaner'.at <= now + Lifetime
        /\ \A e : e.start = now /\ e.interval = Lifetime => Awaited(e, cleaner')
        /\ \A e \in Entries : Awaited(e, cleaner) => Awaited(e, cleaner')
    BY <1>2, <2>2, PutOffAwaits DEF HomeAgentInv, Timing
  <2>6. Timing'
    <3>1. CleanerOK'
      BY <1>1, <2>5 DEF CleanerOK
    <3>2. ASSUME intact', NEW t \in LocalOf(rt)' PROVE Awaited(rt'[t], cleaner')
      <4>1. CASE t = s
        BY <2>3, <2>4, <2>5, <4>1
      <4>2. CASE t # s
        <5>1. t \in Slots /\ T.rt[t].used /\ T.rt[t].from = "DAO"
          BY <2>3, <3>2 DEF LocalOf
        <5>2. T.rt[t] = S.rt[t] /\ t \in LocalOf(S.rt)
          BY <2>4, <4>2, <5>1 DEF LocalOf
        <5>3. t \in LocalOf(rt) /\ rt'[t] = rt[t] /\ intact
          BY <1>4, <1>6, <1>8, <2>3, <2>4, <3>2, <5>2
        <5>4. Awaited(rt[t], cleaner) /\ rt[t] \in Entries
          BY <1>7, <5>1, <5>3 DEF HomeAgentInv, Timing
        <5> QED BY <2>5, <5>3, <5>4
      <4> QED BY <4>1, <4>2
    <3>3. \A t \in LocalOf(rt)' : intact' => Awaited(rt[t], cleaner)'
      BY <3>2 DEF Awaited
    <3> QED BY <3>1, <3>3 DEF Timing
  <2>7. Grow
    <3> SUFFICES ASSUME NEW t \in Slots, rt[t].used, rt'[t].used
                 PROVE  rt'[t].start >= rt[t].start
      BY DEF Grow
    <3>1. CASE t = s
      BY <1>2, <1>7, <2>3, <2>4, <3>1
    <3>2. CASE t # s
      BY <1>7, <1>8, <2>3, <2>4, <3>2
    <3> QED BY <3>1, <3>2
  <2>8. hung' \in BOOLEAN /\ (intact' => ~hung')
    BY <1>1, <1>4, <1>6, <2>3, <2>4 DEF HomeAgentInv
  <2>9. T.intact => intact
    BY <1>4, <1>6, <2>4
  <2> QED BY <1>1, <1>9, <2>1, <2>2, <2>6, <2>7, <2>8, <2>9, StoreStep
<1> QED BY <1>10, <1>11

LEMMA NoPathDaoStep == HomeAgentInv /\ NoPathDao => HomeAgentInv' /\ Grow
<1> SUFFICES ASSUME HomeAgentInv, NoPathDao PROVE HomeAgentInv' /\ Grow
  OBVIOUS
<1>1. UNCHANGED <<cleaner, now, scope, heard, lost, net, hung, seen>>
  BY DEF NoPathDao, env
<1>2. Env /\ Store \in Stores /\ now \in Nat /\ StoreOK(Store)
  BY InvEnv DEF Env, HomeAgentInv
<1>3. PICK n \in scope.nodes :
        \E s \in SlotsOf(Looked(Store, n), n) :
          /\ Remains(Looked(Store, n).rt[s], DaoTimeout)
          /\ Becomes(Expired(Looked(Store, n), s))
  BY DEF NoPathDao, Expired
<1> DEFINE S == Looked(Store, n)
<1>4. PICK s \in SlotsOf(S, n) : Remains(S.rt[s], DaoTimeout) /\ Becomes(Expired(S, s))
  BY <1>3
<1>5. /\ StoreOK(S) /\ Swept(Store, S) /\ (S.intact <=> Store.intact)
      /\ \A t \in SlotsOf(S, n) : S.rt[t].from = "DAO" => ~Over(S.rt[t])
  BY <1>2, LookedKeeps
<1> HIDE DEF S
<1>6. Store.rt = rt /\ (Store.intact <=> intact) /\ S \in Stores /\ s \in Slots
  BY <1>5 DEF Store, StoreOK, SlotsOf
<1>7. \A t \in Slots : rt[t] \in Entries /\ rt[t].start \in Int /\ rt[t].start <= now
  BY StartsAre
<1>8. /\ \A t \in LocalOf(S.rt) : t \in LocalOf(rt) /\ S.rt[t] = rt[t]
      /\ \A t \in Slots : S.rt[t].used => S.rt[t] = rt[t]
  BY <1>5, <1>6, <1>7, SweptLocal
<1> DEFINE T == Expired(S, s)
<1>9. StoreOK(T) /\ Is(T, [S.rt EXCEPT ![s] = Expiring(@)], S.out, S.kernel, S.intact)
  BY <1>2, <1>5, <1>6, ExpiredKeeps, ExpiredIs
<1> HIDE DEF T
<1>10. Becomes(T) /\ rt' = T.rt /\ (intact' <=> T.intact) /\ (T.intact <=> intact)
  BY <1>4, <1>5, <1>6, <1>9 DEF T, Becomes, Is
<1>11. S.rt[s] \in Entries
  BY <1>6, StoreFields
<1>12. /\ T.rt[s] = Expiring(S.rt[s])
       /\ \A t \in Slots \ {s} : T.rt[t] = S.rt[t]
  BY <1>6, <1>9, StoreFields DEF Is
<1>13. /\ T.rt[s].used <=> S.rt[s].used
       /\ T.rt[s].from = S.rt[s].from /\ T.rt[s].start = now /\ T.rt[s].interval = DaoTimeout
  BY <1>2, <1>11, <1>12, ExpiringIs
<1>14. HeardOK'
  BY <1>1, <1>2, HeardLater DEF HomeAgentInv
<1>15. Timing'
  <2>1. CleanerOK'
    BY <1>1 DEF HomeAgentInv, Timing, CleanerOK
  <2>2. ASSUME intact', NEW t \in LocalOf(rt)' PROVE Awaited(rt'[t], cleaner)
    <3>0. t \in Slots /\ T.rt[t].used /\ T.rt[t].from = "DAO" /\ intact
      BY <1>10, <2>2 DEF LocalOf
    <3>1. CASE t # s
      <4>1. T.rt[t] = S.rt[t] /\ t \in LocalOf(S.rt)
        BY <1>12, <3>0, <3>1 DEF LocalOf
      <4>2. t \in LocalOf(rt) /\ rt'[t] = rt[t]
        BY <1>8, <1>10, <4>1
      <4> QED BY <3>0, <4>2 DEF HomeAgentInv, Timing
    <3>2. CASE t = s
      <4>1. S.rt[s].used /\ S.rt[s].from = "DAO" /\ s \in LocalOf(S.rt)
        BY <1>13, <3>0, <3>2 DEF LocalOf
      <4>2. s \in LocalOf(rt) /\ S.rt[s] = rt[s] /\ ~Over(rt[s]) /\ Remains(rt[s], DaoTimeout)
        BY <1>4, <1>5, <1>8, <4>1
      <4>3. Awaited(rt[s], cleaner)
        BY <3>0, <4>2 DEF HomeAgentInv, Timing
      <4>4. /\ cleaner \in [active : BOOLEAN, repeat : {0, Lifetime}, at : Nat]
            /\ cleaner.active => now <= cleaner.at /\ cleaner.at <= now + Lifetime
        BY DEF HomeAgentInv, Timing, CleanerOK
      <4>5. rt[s].start \in Nat /\ rt[s].interval \in Nat
        BY <1>2, <1>6, <1>7, TimesAre DEF Entries
      <4>6. now + DaoTimeout < rt[s].start + rt[s].interval
        BY <1>2, <4>2, <4>5, TimesAre DEF Over, Remains
      <4>7. rt'[s].start = now /\ rt'[s].interval = DaoTimeout
        BY <1>10, <1>13
      <4>8. cleaner.at \in Nat /\ cleaner.active
        BY <4>3, <4>4 DEF Awaited
      <4>9. now + DaoTimeout <= cleaner.at + Lifetime /\ (cleaner.repeat = 0 => now + DaoTimeout <= cleaner.at)
        BY <1>2, <4>3, <4>4, <4>5, <4>6, <4>8, TimesAre DEF Awaited
      <4> QED BY <1>2, <3>2, <4>4, <4>7, <4>8, <4>9, TimesAre DEF Awaited
    <3> QED BY <3>1, <3>2
  <2>3. \A t \in LocalOf(rt)' : intact' => Awaited(rt[t], cleaner)'
    BY <1>1, <2>2 DEF Awaited
  <2> QED BY <2>1, <2>3 DEF Timing
<1>16. Grow
  <2> SUFFICES ASSUME NEW t \in Slots, rt[t].used, rt'[t].used
               PROVE  rt'[t].start >= rt[t].start
    BY DEF Grow
  <2>1. CASE t = s
    BY <1>2, <1>7, <1>10, <1>13, <2>1
  <2>2. CASE t # s
    BY <1>7, <1>8, <1>10, <1>12, <2>2
  <2> QED BY <2>1, <2>2
<1>17. hung' \in BOOLEAN /\ (intact' => ~hung')
  BY <1>1, <1>10 DEF HomeAgentInv
<1> QED BY <1>1, <1>9, <1>10, <1>14, <1>15, <1>16, <1>17, StoreStep

\* The cleaner runs: no local route that is over is left, so that if it does
\* not run again none at all is left.
LEMMA CleanStep == HomeAgentInv /\ mob_clean_entry => HomeAgentInv' /\ Grow
<1> SUFFICES ASSUME HomeAgentInv, mob_clean_entry PROVE HomeAgentInv' /\ Grow
  OBVIOUS
<1>1. UNCHANGED <<now, scope, heard, lost, net, seen>> /\ cleaner' = Fired /\ Due
  BY DEF mob_clean_entry, env
<1>2. Env /\ Store \in Stores /\ now \in Nat /\ StoreOK(Store)
  BY InvEnv DEF Env, HomeAgentInv
<1> DEFINE w == Walk(Store)
           T == w.S
<1>3. Becomes(T) /\ hung' = (w.pos # LIST_END)
  BY DEF mob_clean_entry
<1>4. /\ StoreOK(T) /\ (T.intact <=> Store.intact) /\ Swept(Store, T)
      /\ Store.intact => /\ w.pos = LIST_END
                         /\ \A s \in LocalOf(T.rt) : ~Over(T.rt[s])
  BY <1>2, WalkIs
<1> HIDE DEF w
<1>5. Store.rt = rt /\ (Store.intact <=> intact)
  BY DEF Store
<1>6. \A t \in Slots : rt[t] \in Entries /\ rt[t].start \in Int /\ rt[t].start <= now
  BY StartsAre
<1>7. /\ \A t \in LocalOf(T.rt) : t \in LocalOf(rt) /\ T.rt[t] = rt[t]
      /\ \A t \in Slots : T.rt[t].used => T.rt[t] = rt[t]
  BY <1>4, <1>5, <1>6, SweptLocal
<1>8. rt' = T.rt /\ (intact' <=> T.intact)
  BY <1>3 DEF Becomes
<1>9. HeardOK'
  BY <1>1, <1>2, HeardLater DEF HomeAgentInv
<1>10. Timing'
  <2>0. /\ cleaner \in [active : BOOLEAN, repeat : {0, Lifetime}, at : Nat]
        /\ cleaner.active => now <= cleaner.at /\ cleaner.at <= now + Lifetime
    BY DEF HomeAgentInv, Timing, CleanerOK
  <2>1. cleaner.active /\ cleaner.at = now /\ now \in Nat /\ Lifetime \in Nat /\ Lifetime > 0
    BY <1>1, <1>2, <2>0, TimesAre DEF Due
  <2>2. CASE cleaner.repeat = 0
    <3>1. /\ Fired \in [active : BOOLEAN, repeat : {0, Lifetime}, at : Nat]
          /\ ~Fired.active /\ Fired.at = 0
      <4> DEFINE b == cleaner.repeat > 0
      <4>1. b \in BOOLEAN /\ ~b
        BY <2>2
      <4>2. Fired = [active |-> b, repeat |-> 0, at |-> IF b THEN cleaner.at + cleaner.repeat ELSE 0]
        BY DEF Fired
      <4> HIDE DEF b
      <4>3. Fired = [active |-> b, repeat |-> 0, at |-> 0]
        BY <4>1, <4>2
      <4> QED BY <4>1, <4>3
    <3>2. CleanerOK'
      BY <1>1, <3>1 DEF CleanerOK
    <3>3. intact' => LocalOf(rt)' = {}
      <4> SUFFICES ASSUME intact', NEW t \in LocalOf(rt)' PROVE FALSE
        OBVIOUS
      <4>1. t \in LocalOf(T.rt) /\ intact /\ t \in Slots
        BY <1>4, <1>5, <1>8 DEF LocalOf
      <4>2. t \in LocalOf(rt) /\ ~Over(rt[t])
        BY <1>4, <1>5, <1>7, <4>1
      <4>3. Awaited(rt[t], cleaner)
        BY <4>1, <4>2 DEF HomeAgentInv, Timing
      <4>4. rt[t].start + rt[t].interval <= now
        BY <2>1, <2>2, <4>3 DEF Awaited
      <4> QED BY <4>2, <4>4 DEF Over
    <3> QED BY <3>2, <3>3 DEF Timing
  <2>3. CASE cleaner.repeat = Lifetime
    <3>1. cleaner' = [active |-> TRUE, repeat |-> 0, at |-> now + Lifetime]
      BY <1>1, <2>1, <2>3 DEF Fired
    <3>2. cleaner'.active /\ cleaner'.repeat = 0 /\ cleaner'.at = now + Lifetime
      BY <3>1
    <3>3. CleanerOK'
      <4>1. cleaner' \in [active : BOOLEAN, repeat : {0, Lifetime}, at : Nat]
        BY <2>1, <3>1
      <4>2. now' = now /\ now <= now + Lifetime
        BY <1>1, <2>1
      <4> QED BY <2>1, <3>2, <4>1, <4>2 DEF CleanerOK
    <3>4. ASSUME intact', NEW t \in LocalOf(rt)' PROVE Awaited(rt'[t], cleaner')
      <4>1. t \in LocalOf(T.rt) /\ intact /\ t \in Slots
        BY <1>4, <1>5, <1>8, <3>4 DEF LocalOf
      <4>2. t \in LocalOf(rt) /\ rt'[t] = rt[t] /\ ~Over(rt[t])
        BY <1>4, <1>5, <1>7, <1>8, <4>1
      <4>3. Awaited(rt[t], cleaner)
        BY <4>1, <4>2 DEF HomeAgentInv, Timing
      <4>4. rt[t].start \in Nat /\ rt[t].interval \in Nat
        BY <1>2, <1>6, <4>1, TimesAre DEF Entries
      <4>5. now < rt[t].start + rt[t].interval
        BY <2>1, <4>2, <4>4 DEF Over
      <4>6. rt[t].interval > 0 /\ rt[t].start + rt[t].interval <= now + Lifetime
        BY <2>1, <2>3, <4>3 DEF Awaited
      <4> QED BY <2>1, <3>2, <4>2, <4>4, <4>5, <4>6 DEF Awaited
    <3>5. \A t \in LocalOf(rt)' : intact' => Awaited(rt[t], cleaner)'
      BY <3>4 DEF Awaited
    <3> QED BY <3>3, <3>5 DEF Timing
  <2> QED BY <2>0, <2>2, <2>3
<1>11. Grow
  BY <1>6, <1>7, <1>8 DEF Grow
<1>12. hung' \in BOOLEAN /\ (intact' => ~hung')
  BY <1>3, <1>4, <1>5, <1>8
<1>13. T.intact => intact
  BY <1>4, <1>5
<1> QED BY <1>1, <1>3, <1>4, <1>9, <1>10, <1>11, <1>12, <1>13, StoreStep

-----------------------------------------------------------------------------
LEMMA StutterKeeps == HomeAgentInv /\ UNCHANGED vars => HomeAgentInv' /\ Grow
<1> SUFFICES ASSUME HomeAgentInv, UNCHANGED vars PROVE HomeAgentInv' /\ Grow
  OBVIOUS
<1>1. UNCHANGED <<scope, store, cleaner, now, heard, lost, net, intact, hung, seen>>
  BY DEF vars, store
<1>2. Env /\ scope.end \in Nat /\ now <= scope.end /\ now \in Nat
  BY InvEnv DEF Env
<1>3. HeardOK'
  BY <1>1, <1>2, HeardLater DEF HomeAgentInv
<1> QED BY <1>1, <1>2, <1>3, QuietKeeps

LEMMA StepKeeps == HomeAgentInv /\ [Next]_vars => HomeAgentInv' /\ Grow
  BY HearKeeps, LoseKeeps, SendKeeps, ReceiveStep, LookupStep, DaoStep, NoPathDaoStep,
     CleanStep, TickKeeps, StutterKeeps DEF Next

\* The invariant the theorems follow from.
THEOREM HomeAgentInvariant == Spec => []HomeAgentInv
<1>1. HomeAgentInv /\ [Next]_vars => HomeAgentInv'
  BY StepKeeps
<1> QED BY InitInv, <1>1, PTL DEF Spec

-----------------------------------------------------------------------------
(* The theorems *)

LEMMA InvIs ==
  ASSUME HomeAgentInv
  PROVE  /\ Env /\ now \in Nat /\ scope.end \in Nat /\ now <= scope.end /\ now >= 1
         /\ StoreOK(Store) /\ Store.rt = rt /\ Store.out = out /\ Store.kernel = kernel
         /\ Store.intact <=> intact
         /\ rt \in [Slots -> Entries] /\ out \in SettledLists
         /\ kernel \subseteq scope.nodes \X Devices /\ intact \in BOOLEAN
<1>1. Env /\ Store \in Stores /\ scope.end \in Nat /\ now <= scope.end
  BY InvEnv
<1>2. /\ Store.rt = rt /\ Store.out = out /\ Store.kernel = kernel /\ Store.intact = intact
  BY DEF Store
<1>3. StoreOK(Store)
  BY DEF HomeAgentInv
<1>4. now \in Nat /\ now >= 1
  BY <1>1, EnvIs
<1> QED BY <1>1, <1>2, <1>3, <1>4, StoreFields

\* The type invariant.
THEOREM HomeAgentTypes == Spec => []HomeAgentTypeOK
<1>1. HomeAgentInv => HomeAgentTypeOK
  <2> SUFFICES ASSUME HomeAgentInv PROVE HomeAgentTypeOK
    OBVIOUS
  <2>1. /\ Env /\ now \in Nat /\ scope.end \in Nat /\ now <= scope.end /\ now >= 1
        /\ rt \in [Slots -> Entries] /\ out \in SettledLists
        /\ kernel \subseteq scope.nodes \X Devices /\ intact \in BOOLEAN
    BY InvIs
  <2>2. 0 .. now \subseteq 0 .. scope.end /\ scope.nodes \subseteq Nodes
    BY <2>1, EnvIs
  <2>3. rt \in [Slots -> [used : BOOLEAN, addr : Nodes \cup {Self},
                          from : {"INTERNAL", "DAO", "6LBR"}, gw : Gws \cup {NoGw},
                          start : 0 .. scope.end, interval : {0, DaoTimeout, Lifetime}]]
    <3>1. Entries \subseteq [used : BOOLEAN, addr : Nodes \cup {Self},
                             from : {"INTERNAL", "DAO", "6LBR"}, gw : Gws \cup {NoGw},
                             start : 0 .. scope.end, interval : {0, DaoTimeout, Lifetime}]
      BY <2>2 DEF Entries
    <3> QED BY <2>1, <3>1
  <2>4. out \in Lists
    BY <2>1 DEF SettledLists, Lists, Ends, Links
  <2>5. kernel \subseteq Nodes \X (Gws \cup {NoGw, "tty"})
    BY <2>1, <2>2 DEF Devices
  <2>6. cleaner \in [active : BOOLEAN, repeat : {0, Lifetime}, at : 0 .. scope.end + 2 * Lifetime]
    <3>1. /\ cleaner \in [active : BOOLEAN, repeat : {0, Lifetime}, at : Nat]
          /\ cleaner.active => now <= cleaner.at /\ cleaner.at <= now + Lifetime
          /\ ~cleaner.active => cleaner.at = 0
      BY DEF HomeAgentInv, Timing, CleanerOK
    <3>2. cleaner.at \in 0 .. scope.end + 2 * Lifetime
      BY <2>1, <3>1, TimesAre
    <3> QED BY <3>1, <3>2
  <2>7. /\ heard \in [Gws -> [Nodes -> 0 .. scope.end]] /\ lost \in [Gws -> SUBSET Nodes]
        /\ seen \in [Nodes -> 0 .. scope.end]
    <3>1. /\ heard \in [Gws -> [Nodes -> 0 .. now]] /\ seen \in [Nodes -> 0 .. now]
          /\ lost \in [Gws -> SUBSET scope.nodes]
      BY DEF HomeAgentInv, HeardOK
    <3>2. [Nodes -> 0 .. now] \subseteq [Nodes -> 0 .. scope.end] /\ SUBSET scope.nodes \subseteq SUBSET Nodes
      BY <2>2
    <3> QED BY <3>1, <3>2
  <2> QED BY <2>1, <2>3, <2>4, <2>5, <2>6, <2>7 DEF HomeAgentTypeOK, HomeAgentInv
<1> QED BY HomeAgentInvariant, <1>1, PTL

\* The kernel's routes are those of the table, a backup's among them, and no
\* node has two.
THEOREM KernelIsTheTable == Spec => []KernelAgrees
<1>1. HomeAgentInv => KernelAgrees
  <2> SUFFICES ASSUME HomeAgentInv, Room, intact \/ Cardinality(scope.nodes) = 1
               PROVE  /\ kernel \subseteq TableRoutes
                      /\ scope.apply => TableRoutes \subseteq kernel
                      /\ \A s, t \in Local \cup Bound : rt[s].addr = rt[t].addr => s = t
    BY DEF KernelAgrees, Room
  <2>1. /\ Env /\ StoreOK(Store) /\ Store.rt = rt /\ Store.kernel = kernel
        /\ Store.intact <=> intact
        /\ kernel \subseteq scope.nodes \X Devices
    BY InvIs
  <2>2. intact \/ Lonely
    <3>1. CASE Cardinality(scope.nodes) = 1
      <4>1. \E n : scope.nodes = {n}
        BY <2>1, <3>1, EnvIs, FS_Singleton
      <4> QED BY <4>1 DEF Lonely
    <3> QED BY <3>1
  <2>3. Follows(rt, kernel) /\ TableOK(rt)
    BY <2>1, <2>2 DEF StoreOK
  <2>4. \A s \in Local \cup Bound : /\ s \in Slots /\ rt[s].used /\ rt[s] \in Entries
                                    /\ rt[s].addr \in scope.nodes
                                    /\ s \in Bound => rt[s].gw \in Devices
    <3>1. \A s \in Local \cup Bound : s \in Slots /\ rt[s].used /\ rt[s].from # "INTERNAL"
      BY DEF Local, Bound
    <3>2. \A s \in Slots : rt[s] \in Entries /\ RoleOK(rt[s])
      BY <2>3 DEF TableOK
    <3> QED BY <3>1, <3>2 DEF RoleOK, Entries, Bound, Devices
  <2>5. kernel \subseteq TableRoutes
    <3> SUFFICES ASSUME NEW r \in kernel PROVE r \in TableRoutes
      OBVIOUS
    <3>1. PICK n \in scope.nodes, d \in Devices : r = <<n, d>>
      BY <2>1
    <3>2. PICK s \in Slots : Leads(rt, s, n, d)
      BY <2>3, <3>1 DEF Follows
    <3> QED BY <3>1, <3>2 DEF Leads, TableRoutes, Local, Bound
  <2>6. ASSUME scope.apply, NEW r \in TableRoutes PROVE r \in kernel
    <3>1. CASE \E s \in Local : r = <<rt[s].addr, "tty">>
      <4>1. PICK s \in Local : r = <<rt[s].addr, "tty">>
        BY <3>1
      <4>2. Leads(rt, s, rt[s].addr, "tty") /\ s \in Slots
        BY DEF Leads, Local
      <4>3. rt[s].addr \in scope.nodes /\ "tty" \in Devices
        BY <2>4 DEF Devices
      <4> QED BY <2>3, <2>6, <4>1, <4>2, <4>3 DEF Follows
    <3>2. CASE \E s \in Bound : r = <<rt[s].addr, rt[s].gw>>
      <4>1. PICK s \in Bound : r = <<rt[s].addr, rt[s].gw>>
        BY <3>2
      <4>2. Leads(rt, s, rt[s].addr, rt[s].gw) /\ s \in Slots
        BY <2>6 DEF Leads, Bound
      <4>3. rt[s].addr \in scope.nodes /\ rt[s].gw \in Devices
        BY <2>4
      <4> QED BY <2>3, <2>6, <4>1, <4>2, <4>3 DEF Follows
    <3> QED BY <3>1, <3>2 DEF TableRoutes
  <2>7. \A s, t \in Local \cup Bound : rt[s].addr = rt[t].addr => s = t
    BY <2>3, <2>4 DEF TableOK
  <2> QED BY <2>5, <2>6, <2>7
<1> QED BY HomeAgentInvariant, <1>1, PTL

\* An update that comes twice in a row changes nothing the second time,
\* whatever number of bindings and deletions it carries.
THEOREM UpdatesAreIdempotent == Spec => []Idempotent
<1>1. HomeAgentInv => Idempotent
  <2> SUFFICES ASSUME HomeAgentInv, Room, NEW m \in net
               PROVE  mob_proceed_up(mob_proceed_up(Store, m), m) = mob_proceed_up(Store, m)
    BY DEF Idempotent, Room
  <2>1. Env /\ StoreOK(Store)
    BY InvIs
  <2>2. MsgOK(m)
    BY DEF HomeAgentInv, HeardOK
  <2> QED BY <2>1, <2>2, TwiceIsOnce
<1> QED BY HomeAgentInvariant, <1>1, PTL

\* The list holds the local routes, no others, and the cleaner comes to its end.
THEOREM ListIsLocal == Spec => []ListHoldsLocal
<1>1. HomeAgentInv => ListHoldsLocal
  <2> SUFFICES ASSUME HomeAgentInv, intact PROVE Listed = Local /\ ~hung
    BY DEF ListHoldsLocal
  <2>1. /\ StoreOK(Store) /\ Store.rt = rt /\ Store.out = out /\ (Store.intact <=> intact)
        /\ out \in SettledLists
    BY InvIs
  <2>2. PICK ord \in [Slots -> Nat] : Sorted(out, LocalOf(rt), ord)
    BY <2>1 DEF StoreOK, Threaded
  <2>3. LocalOf(rt) = Local /\ LocalOf(rt) \in SUBSET Slots
    BY DEF LocalOf, Local
  <2>4. Listed = Local
    BY <2>1, <2>2, <2>3, ListedIs
  <2> QED BY <2>4 DEF HomeAgentInv
<1> QED BY HomeAgentInvariant, <1>1, PTL

\* A local route is removed at most two lifetimes after its end.
THEOREM RoutesAreCleaned == Spec => []CleanedInTime
<1>1. HomeAgentInv => CleanedInTime
  <2> SUFFICES ASSUME HomeAgentInv, intact, NEW s \in Local
               PROVE  now <= rt[s].start + rt[s].interval + 2 * Lifetime
    BY DEF CleanedInTime
  <2>1. Env /\ now \in Nat /\ rt \in [Slots -> Entries]
    BY InvIs
  <2>2. /\ cleaner \in [active : BOOLEAN, repeat : {0, Lifetime}, at : Nat]
        /\ cleaner.active => now <= cleaner.at
    BY DEF HomeAgentInv, Timing, CleanerOK
  <2>3. Awaited(rt[s], cleaner) /\ s \in Slots
    BY DEF HomeAgentInv, Timing, Local, LocalOf
  <2>4. rt[s].start \in Nat /\ rt[s].interval \in Nat /\ cleaner.at \in Nat
    BY <2>1, <2>2, <2>3, TimesAre DEF Entries
  <2> QED BY <2>1, <2>2, <2>3, <2>4, TimesAre DEF Awaited
<1> QED BY HomeAgentInvariant, <1>1, PTL

\* As long as a node has its route, the time stamp of the route does not go
\* back, whatever updates arrive and in whatever order.
THEOREM StampsOnlyGrow == Spec => StampsGrow
<1>1. HomeAgentInv /\ [Next]_vars =>
        [NB > Cardinality(Nodes) => \A s \in Slots :
           (rt[s].used /\ rt'[s].used /\ rt[s].addr = rt'[s].addr) => rt'[s].start >= rt[s].start]_vars
  BY StepKeeps DEF Grow, Room
<1> QED BY HomeAgentInvariant, <1>1, PTL DEF Spec, StampsGrow

=============================================================================
