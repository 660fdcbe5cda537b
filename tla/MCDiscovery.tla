----------------------------- MODULE MCDiscovery -----------------------------
(* Discovery with a home agent h, a backup b and border routers r and q. *)
EXTENDS Discovery

CONSTANTS h, b, r, q

Trio == {h, b, r}
Four == {h, b, r, q}

Each(g) == CASE g = h -> {"home"} [] g = b -> {"backup"} [] OTHER -> {"router"}

Instance(modes(_), given, namedBy(_), startsOf(_), stopsAll) ==
  [modes |-> [g \in Gws |-> modes(g)], contacts |-> [g \in Gws |-> given \ {g}],
   named |-> [g \in Gws |-> namedBy(g)], starts |-> [g \in Gws |-> startsOf(g)],
   stops |-> stopsAll]

Once(g)  == 1
Twice(g) == 2
Often(g) == 3

NoneNamed(g) == {}
ByRouter(g) == IF g = r THEN {h, b} \ {g} ELSE {}

\* Three gateways that connect to the home agent or the backup, one of them stopped.
Three == Instance(Each, {h, b}, NoneNamed, Once, 1)
\* No -c: the motes of the border router name the others.
Named == Instance(Each, {}, ByRouter, Once, 1)
\* A home agent and a border router that are stopped, killed and started again.
Again == LET modes(g) == IF g = b THEN {} ELSE Each(g)
         IN Instance(modes, {h, r}, NoneNamed, Often, 4)
\* The router may come back as a backup, and again; the home agent as a router.
Role  == LET modes(g) == CASE g = r -> {"router", "backup"} [] g = h -> {"home", "router"}
                           [] OTHER -> {}
             times(g) == IF g = r THEN 3 ELSE 2
         IN Instance(modes, {h, r}, NoneNamed, times, 2)
\* A border router comes back as a backup while another has a binding.
Wrong == LET modes(g) == CASE g = r -> {"router", "backup"} [] g = b -> {} [] OTHER -> Each(g)
         IN Instance(modes, {h}, NoneNamed, Twice, 1)

\* A second home agent comes back as a border router, with a binding.
Homes == LET modes(g) == CASE g = r -> {"home", "router"} [] g = h -> {"home"} [] OTHER -> {}
         IN Instance(modes, {h, r}, NoneNamed, Twice, 2)

All      == {Three, Named, Again, Role}
Staying  == {[Three EXCEPT !.stops = 0]}
Promoted == {Wrong}
Rivals   == {Homes}

\* Quiet says when Receive would change nothing, as long as nothing stops.
QuietChangesNothing ==
  stops = 0 => \A m \in net : Quiet(m) <=> ~ENABLED <<Receive(m)>>_vars
=============================================================================
