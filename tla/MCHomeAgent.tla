------------------------------ MODULE MCHomeAgent ------------------------------
(* HomeAgent with at most two motes and two border routers. *)
EXTENDS HomeAgent, TLC

CONSTANTS a, b, g, h

Motes   == {a, b}
Routers == {g, h}

Instance(N, G, apply, end, updates) ==
  [nodes |-> N, gws |-> G, apply |-> apply, end |-> end, updates |-> updates]

\* The border routers are alike.
RoutersAlike == Permutations(Routers)

\* One mote that goes from router to router, or stays: updates late, twice or never.
Roaming == {Instance({a}, {g, h}, TRUE, 2, 3), Instance({a}, {g}, TRUE, 4, 2)}
\* Its own mesh, no border router: the cleaner.
OwnMesh == Instance({a, b}, {}, TRUE, 10, 0)
\* Two motes: updates with several options.
Several == Instance({a, b}, {g}, TRUE, 2, 1)
\* The same on a backup, whose updates begin with what the home agent was sent.
Backup  == {Instance({a}, {g}, FALSE, 2, 2), Instance({a}, {g, h}, FALSE, 2, 1),
            Instance({a, b}, {g}, FALSE, 1, 1)}

All     == {OwnMesh, Several} \cup Roaming \cup Backup
\* More of two routers, on a home agent and on a backup.
Large   == {Instance({a}, {g, h}, TRUE, 4, 2), Instance({a}, {g, h}, FALSE, 2, 2)}
Home    == {Instance({a}, {g, h}, TRUE, 3, 3)}
Alone   == {Instance({a}, {g}, TRUE, 2, 2)}
=============================================================================
