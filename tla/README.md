# RPL_Gateway: a TLA+ model

RPL_Gateway is a user-space border router (6LBR) between an RPL mesh of motes,
reached over a serial line, and an IPv6 network.  Several gateways serve one
prefix.  Each border router tells the home agent (HoAg), and the backups of the
home agent, which motes it serves, so that traffic is tunnelled to the right
one.  This directory models that code in TLA+, checks it with TLC on small
instances, and proves part of it for all instances with TLAPS.

## Inventory

Line numbers are those of the repository's sources.

| component | state it keeps | operations | hard behaviour |
|---|---|---|---|
| list of local nodes (`mobility.c` 1173-1269) | `prev_seq`, `next_seq` of each slot, `min_out_seq`, `max_out_seq` | `mob_list_init`, `_add_end`, `_remove`, `_maj` | slots freed and recycled in any order, links left behind |
| table of local nodes (`uip-ds6.c` 413-518, `rpl-icmp6.c` 224-355, `rpl.c` 90-123, `mobility.c` 695-764, 1300-1315) | `uip_ds6_routing_table`, `deleted[]`, `next_out_sequence`, the kernel's routes | DAO, No-Path DAO, lookup, `mob_lost_node`, `mob_check_all_entry` | routes expire while they are looked at; full table; full deletion buffer |
| binding updates (`mobility.c` 345-640, 714-741) | `gws[]`, `min_ack_sequence`, `next_send`, `output_buffer` | `mob_send_message`, `mob_incoming_ack`, arming the timer | loss, reordering, duplication, retries, windows, dropped gateways |
| binding store of a home agent or backup (`mobility.c` 76-343, 1272-1298) | routes learned from 6LBRs, `next_cleaner`, routes into tunnels | `mob_proceed_up`, `mob_add_nio`, `mob_clean_entry` | updates out of order, time stamps, handover between gateways |
| gateway discovery (`mobility.c` 643-693, 766-934, 1015-1074) | `gws[].used`, tunnel devices | `mob_new_gw`, `mob_new_6lbr`, `mob_send_lbr`, `mob_lbr_evolve`, `mob_delete_gw` | restarts, change of role, slots reserved and reused |
| change of mode (`mobility.c` 1079-1171) | `mob_type`, the two timers | `mob_state_evolve` | only called at start |
| RPL root (`rpl/rpl-dag.c`, `rpl/rpl.c`) | instance and DAG tables | `rpl_set_root`, `rpl_verify_header` | version and rank arithmetic |
| DIO timer (`rpl/rpl-timers.c`) | `dio_intcurrent`, `dio_next_delay`, `dio_send`, `dio_counter` | `new_dio_interval`, `handle_dio_timer`, `rpl_reset_dio_timer` | interval doubling, integer seconds, resets between two firings |
| forwarding (`tcpip.c`, `uip6.c`, `uip-icmp6.c`) | `uip_buf` | `tcpip_output`, `uip_process` | a lookup in the middle of a packet removes a route |
| serial line (`ttyConnection.c`) | SLIP state, input and output buffers | `tty_readable_cb`, `tty_output` | frames split over reads, escapes, rubbish |
| tunnels, tun, UDP, event loop, clocks, `main.c` | devices, sockets, the loop | shell commands, I/O, start, SIGINT | a signal handler in the middle of a callback |
| `lib/` | lists, blocks of memory | `list_*`, `memb_*` | an element on a list twice |

The program has one thread: libev runs one callback at a time (serial input, UDP
input, timers).  The concurrency is that of time passing inside a callback, of
the order in which callbacks run, of the network between the gateways, and of
the SIGINT handler.

A DAO of a mote goes `dao_input` -> `rpl_add_route` -> `uip_ds6_route_lookup` /
`uip_ds6_route_add` -> `mob_new_node` / `mob_update_node` -> `mob_maj_node`, which
gives it the next sequence number, moves it to the end of the list and starts
`next_send`.  When `next_send` fires, `mob_send_message` sweeps the list for
expired routes, then builds one update per gateway from the list and from
`deleted[]`.  The gateway applies it (`mob_proceed_up`) and acknowledges its
number; `mob_incoming_ack` moves the gateway's `sequence_out` and frees the
deletions that everybody acknowledged.

What makes it correct: the list holds the local routes in the order of their
numbers (an update is a prefix of it); a number means one statement; a node that
is gone leaves a deletion, younger than its binding and older than its return;
nothing a gateway acknowledged was skipped; a deletion stays on record until the
gateways have heard it; a router with something to say eventually says it.
PROJECT.json lists the places where this could go wrong.

## Modules

* `OutList`: the doubly linked list as a record `[prev, next, min, max]` and one
  operator per function of `mobility.c`.  `Sorted(L, S, ord)` says what the list
  has to be: first, last, successor and predecessor of each element are those
  of the set `S` in the order `ord`, with no recursion.
* `NodeTable` (extends `OutList`): a border router's own table, mode `-r`.  The
  slots of the routing table are functions from `Slots` (`isused`, `ipaddr`,
  `learned_from`, `remaining`, `seq`), `out` is the list, `deleted` the deletion
  records, `kernel` the routes given to the kernel by `change_local_route`.
  A DAO is one action per path through `dao_input`, `rpl_add_route`,
  `uip_ds6_route_lookup` and `uip_ds6_route_add`: `DaoRefresh` (route alive),
  `DaoReplace` (route over: the lookup removes it and records a deletion, then it
  is added again), `DaoNew` (free slot), `DaoEvict` (full table).  `NoPathDao` and
  `Lookup` (a packet, or a No-Path DAO, that meets an expired route).  What a DAO says of
  other DODAGs (`RPL_DIO_SUBOPT_OTHER_DODAG`) does not touch the table: `New6lbr` of
  `Discovery`.
  `mob_check_all_entry` takes one step per iteration (`CheckStart`, `CheckKeep`,
  `CheckDrop`, `CheckEnd`), so that the clock can move within it.  `Release` stands
  for any freeing of deletions by acknowledgements.
* `Router` (extends `NodeTable`): the same table with the gateways it reports to
  and the network.  Each action of the table is paired with what it does to the
  timer; `Fire`, `RCheck`, `SendDrop`/`SendUpdate`/`SendSkip` (one gateway per
  step), `SendEnd` are `mob_send_message`; `IncomingAck` is `mob_incoming_ack`;
  `NewGw` the registration of a gateway.  `Receive` is the far end, as far as the
  router can tell: it hears the options and acknowledges.
* `Window`: the sequence numbers of the same updates as the 16-bit numbers they
  are, with `UINT_LESS_THAN`.  It leaves out what `Router` has (slots, options,
  several gateways, the steps within `mob_send_message`) and keeps what the numbers
  decide: the list with its numbers, the walk of an update, the byte of a deletion,
  `sequence_out`, `min_ack_sequence` and the timer.  The ghosts `age` and `lag` say
  how long ago a number was given, up to the whole range.
* `HomeAgent` (extends `OutList`): the bindings of modes `-a` and `-b`.  `Receive` is
  the whole of `mob_proceed_up`: the fold over the options of an update with one
  `mob_add_nio` each (`Bind`, `Rebind`, `Delete`).  `Dao`, `NoPathDao` and `Lookup`
  are those of the gateway's own mesh, with `mob_update_node`; `mob_clean_entry`
  the cleaner with its timer.  `Hear`, `Lose` and `Send` are the border routers, whose
  updates are late, repeated or lost; a node that was lost and came back may be in both
  parts of one update.  `temp_len` and `handoff_status` are not reset between the
  gateways (`mobility.c` 385-386), so that the update to a backup begins with the options of
  the home agent's and goes on under the handoff these end with (`Left`).  A backup
  (`scope.apply` is false) has no tunnel routes and ignores deletions.  The kernel route
  that `mob_clean_entry` deletes first (1285) is that of an address put together from twice
  the first half of the node's, which is nobody's: it changes nothing (1117 has the same
  slip, in code that cannot be reached).
* `Discovery`: how gateways find each other.  `Receive` is `mob_new_gw` with
  `mob_send_lbr` and `mob_lbr_evolve`, up to the point where a tunnel is opened;
  `OpenTunnel` the rest of it; `New6lbr` is `mob_new_6lbr`, called by `dao_input` for each
  gateway that a mote names in the OTHER_DODAG option of a DAO (`rpl-icmp6.c` 312-315);
  `Update` an update whose sender has to be known, and which moves a binding to the
  slot of its sender, whichever slot it had; `GiveUp` the `mob_delete_gw` of an unanswered gateway.  `Start`, `Down` (the SIGINT
  handler, which may run between the two halves of `mob_new_gw`, takes the slot away but
  leaves its address, to which the tunnel is opened), `End` and `Kill` are
  the life of a process; the kernel keeps its tunnels after a `Kill`.
* `Slip`: the serial line, one byte of `tty_readable_cb` per step, behind a bridge
  (`MoteOutput`) or a peer that writes with `tty_output`; a byte may be changed or
  lost.  `Line` is what a line promises: sound frames come out in order, whole and
  once, and a damaged one takes at most three others with it.  `LineSpec` of `Slip`
  says that the one implements the other, the queue being that of the frames whose
  bytes are on the wire (`Promise == INSTANCE Line WITH queue <- ...`).
* `Forwarding`: the one packet buffer, from `Arrive` (tun device, serial line) through
  `uip_process` (`NextHeader`, `Options`, `Icmp6Input`, `Forward`), the RPL
  hop-by-hop header (`rpl_verify_header`, `rpl_add_header`, `rpl_remove_header`,
  `rpl_invert_header`) and `tcpip_ipv6_output`, which calls itself with the error it
  makes, to `End` (`tcpip_input`, which leaves the buffer for the next).  `Arrive` ends in
  "overrun" for a frame of the serial line that is longer than `uip_buf`; `uip_ext_len`
  counts in 8 bits (`Longer`).  `Icmp6Input` answers a DAO or not: only one with the K flag,
  whose route was entered, is acknowledged (`rpl-icmp6.c` 350-353).  What
  follows the IPv6 header is a sequence of blocks of 8 bytes.  `Return` is a node or
  the kernel that sends a packet back; `DioTimer` a DIO between two packets.
* `Trickle`: the DIO timer of `rpl-timers.c`.  `NewInterval` is `new_dio_interval`,
  `FireSend` and `FireNew` the two branches of `handle_dio_timer`, `Dis` a multicast
  DIS that reaches `rpl_reset_dio_timer`, `Second` the clock.  It shares no state
  with the other modules.
* `MCNodeTable`, `MCRouter`, `MCHomeAgent`, `MCDiscovery`, `MCSlip`, `MCForwarding`,
  `MCWindow`: the sets of model values, the instances and the symmetry.
* `OutListProofs`, `RouterProofs` (with `NodeTable`, which `Router` extends),
  `WindowProofs`, `HomeAgentProofs`, `DiscoveryProofs`, `SlipProofs`, `RplProofs`
  (`Forwarding` and `Trickle`): lemmas, theorems, proofs; `Lemmas`: what they share about numbers, iterated
  functions and sequences.

How they fit.  `NodeTable` is the abstract table; `Router` composes it with the
updates and implements it: `ImplementsTable` says so, with the identity as
refinement mapping (`IncomingAck` implements `Release`).  The messages that `Router`
sends are those `HomeAgent` handles (`Options` of `HomeAgent` is what
`mob_send_message` writes); the slots of `gws` that `Router` takes as given
are made by `Discovery`.  `Line` is the abstract serial line, `Slip` the detailed one.
`HomeAgent` and `Discovery` have a variable `scope`, chosen at the start and never
changed: which motes and gateways there are, whom each gateway is given
with -c and its motes name, and the bounds.  One run so checks
instances of different shape.

A datagram that is lost is never delivered; a reordered one is delivered after a
later one; a duplicated one stays on its way after delivery, in a network of which
`duplicates` is true.
`Receive` and the table's events happen between two callbacks; the receiver runs
on another machine, but nothing the router's callback reads depends on it, so
that the restriction loses no behaviour that a property could tell.  For the
same reason time does not pass in the sending loop, which reads no clock.

Ghost variables, which no code has: `intact` (no slot of the list was recycled; in
`HomeAgent` also no stale link of it used), `due` (what was over when the sweep
began), `heard`, and the reasons for which a promise no longer holds: `lossless`, `recorded`, `dropped`, `gapless`, in
`HomeAgent` `intact`, in `Discovery` `neat` and `was`, in `Window` `young`.  They name
known limits of the code, listed below; each property lists those it needs.

## Runs

| run | what is small | what it shows |
|---|---|---|
| `roomy` | 3 motes, 4 slots, 2 deletion records, 6 numbers for DAOs | with room for all, the list is sorted, a deletion is older than the return of its node, the sweep misses nothing, no node is lost without a record |
| `full` | 3 motes, 3 slots, 5 numbers | the table recycles slots: the inductive invariant `TableInv` of the proofs, which holds regardless, and the end of every sweep |
| `home` | 2 motes, home agent and backup, updates of 1 number, 1 unanswered update, 3 numbers, 2 datagrams under way; networks with and without duplication | nothing acknowledged was skipped; no gateway keeps a binding of a lost node whose deletion is off the record |
| `window` | 1 mote, home agent, length byte of 56, stored deletion numbers modulo 2 | a timer that is off means that all is told, where updates are cut and deletion numbers truncated |
| `live` | 1 mote, home agent | every local route is announced in the end; the composition implements `NodeTable` |
| `wrap` | 2 motes, numbers modulo 10 (a deletion's modulo 2), updates of 1 number, used until one is 5 old | while none in use is half the range old an update holds what it would with numbers that only grow; nothing acknowledged was skipped; no listed node stays untold unless it is refreshed again and again |
| `store` | seven instances: 1 mote and 2 routers (2 seconds and 3 updates), 1 mote and 1 router (4 and 2), 2 motes and 1 router (2 and 1), 2 motes alone for 10 seconds; of a backup 1 mote and 1 router (2 and 2), 1 mote and 2 routers (2 and 1), 2 motes and 1 router (1 and 1) | the kernel follows the table; an update handled twice changes nothing; stamps do not go back; a local route is cleaned two lifetimes after its end at the latest |
| `gateways` | four instances: home agent, backup and router that contact the home agent or the backup, one of them stopped; the same without -c, the router's motes naming the others; home agent and router started three times with four stops; the two changing their modes | everyone is known once, in the slot of a role it had; tunnels lead to the gateways of the table and are closed at the end; a binding names a known gateway; a backup and the routers before it know each other when everything is handled |
| `line` | buffer of 4 bytes, 4 frames, 2 on the line, 1 damaged byte | the reader resynchronises, and implements `Line` |
| `packets` | 2 local nodes, 53 packets, buffer of 160 bytes, hop limit of 3 | what is written can be read and keeps its payload; no RPL header leaves the mesh; answers go to who asked; packets in circles end |
| `dio` | nothing: 2^12 ms and eight doublings | an interval does not outlast its length, its DIO is out by the middle, and DIS messages cannot starve it |
| `error` | 2 packets | a violation: see the findings |

Bounds.  `MaxSeq` bounds the numbers given to DAOs, `Flight` the datagrams under
way, `MaxJoin` how often gateways join, `scope` the seconds, updates, starts and
stops; all are in guards, and the sizes of the program (100 slots, 30 deletions, 15
numbers per update, 4 unanswered updates) are constants of the modules.  Three motes
with four slots let a slot be first, middle and last of the list, be freed and be
reused while others stay; three slots, one of them the gateway's own, fill at once
and recycle both kinds of expired slot.  Two deletion records overflow with three
motes.  A window of one number is passed by a second DAO, and one unanswered update
makes the drop of a gateway happen within a few steps.  A lifetime of two with a
No-Path timeout of one separates fresh, shortened and over.  Three updates of one
mote are the least in which one that was overtaken meets two later ones.  The border
routers of `store` are alike and interchanged by symmetry.  `MAX_LBR_BACKUP` is 2, so that
up to two gateways are written to before a backup; one, the home agent, is enough for a
binding that follows the deletions of another's update.  Ten
numbers have a half range of four: an update of one number, an acknowledgement of an
earlier one and a node not yet refreshed fit below it, and one more number crosses
it.  A frame of four bytes does not fit the buffer of four; two frames on the line
are what a lost END glues together, and the fourth frame is the one that must come
out whole again.  Three starts are the least for a gateway that changes its mode and
changes it back.

The modules do not check deadlock: a run ends when the numbers, the seconds or the
starts are used up.  Every property has a mutant, a definition of the module that is
marked as such and changes one operator the way a slip in that code would; under it
the property fails.

Fairness.  `NodeTable` assumes that a sweep that began takes its steps
(`WF(CheckNext)`): the callback runs to its end.  `RouterFair` adds the rest of
`mob_send_message`, the firing of a timer that is on (libev), and that a datagram
that stays on its way is delivered; loss remains possible through `Flight`.
`Window` assumes that the timer fires and that what is on its way arrives, unless
the next update takes its place first.  `Forwarding` assumes that a handler runs to
its end, and that a packet sent back by a node or the kernel arrives, however often
DIOs come between (the loop polls every descriptor in each turn).  `Trickle` assumes
that seconds pass and that a due timer is handled.  In the other modules nothing is
assumed of the clock, and in none of the motes or of the gateways' joining.
`BackupsMeetRouters` is stated of the states in which no announcement has anything to
change any more (`Settled`), which needs no fairness; the further configuration
`MCDiscovery_meet` has it as a liveness property (`BackupsMeet`), every announcement
arriving.

## Proofs

Everything here holds for every value of the constants that their named assumptions
allow: any number of slots, motes, gateways, records and devices, any window, any
bound.  The assumptions are those of the modules that declare the constants and say
no more than the program's sizes do (`NKnown <= NDev`: 15 gateways, 256 device
numbers).  Each inductive invariant was checked by TLC on the instances above first.

| theorem | module | property |
|---|---|---|
| `TypeCorrect`, `TableSafe` | `RouterProofs` | `TypeOK`, `TableInv` |
| `ListIsSorted`, `RouteIsLast`, `CheckIsComplete` | `RouterProofs` | `OutListSorted`, `DeletionIsOlder`, `CheckSweeps` |
| `OneSlotEach`, `SeqsAreDistinct`, `KernelFollows` | `RouterProofs` | the parts of `TableInv` of these names |
| `LossIsRecorded` | `RouterProofs` | `NoSilentLoss` |
| `RouterTypeCorrect`, `TableSafeInRouter` | `RouterProofs` | `RouterTypeOK`, `TableInv` |
| `ImplementsTableSteps` | `RouterProofs` | the steps of `ImplementsTable` |
| `HomeAgentIsTold`, `OffMeansTold`, `NoRouteIsStale` | `RouterProofs` | `HomeAgentHeard`, `QuietIsTold`, `NoStaleBinding` |
| `WindowTypeCorrect`, `WrapIsInvisible`, `AcknowledgedMeansTold` | `WindowProofs` | `WindowTypeOK`, `AsIfUnbounded`, `AcknowledgedIsTold` |
| `HomeAgentTypes`, `KernelIsTheTable` | `HomeAgentProofs` | `HomeAgentTypeOK`, `KernelAgrees` |
| `UpdatesAreIdempotent`, `StampsOnlyGrow` | `HomeAgentProofs` | `Idempotent`, `StampsGrow` |
| `ListIsLocal`, `RoutesAreCleaned` | `HomeAgentProofs` | `ListHoldsLocal`, `CleanedInTime` |
| `DiscoveryTypeCorrect`, `EveryoneInPlace`, `BindingsAreKnown` | `DiscoveryProofs` | `DiscoveryTypeOK`, `SlotsInOrder`, `BoundSlotKnown` |
| `TunnelsLeadHome`, `TunnelsAreClosed` | `DiscoveryProofs` | `TunnelsLead`, `TunnelsClosed` |
| `BackupsKnowRouters` | `DiscoveryProofs` | `BackupsMeetRouters`, where the tables have `Room` |
| `SlipTypeCorrect`, `Resynchronises` | `SlipProofs` | `SlipTypeOK`, `Resynchronised` |
| `KeepsThePromise` | `SlipProofs` | `LineSpec`, while no frame of a peer that writes with `tty_output` holds an ESC byte |
| `ForwardTypeCorrect`, `WritesWellFormed` | `RplProofs` | `ForwardTypeOK`, `WellFormed` |
| `PassesPayload`, `KeepsRplInside`, `AnswersSender` | `RplProofs` | `PayloadIntact`, `RplStaysInside`, `AnswersGoBack` |
| `TrickleTypeCorrect`, `DioAlwaysInTime` | `RplProofs` | `TrickleTypeOK`, `DioInTime` |

The table.  `OutListProofs` shows that appending an element with a number above
all others keeps the list sorted (`AddEndSorted`), that unlinking does
(`RemoveSorted`), and combines them for `mob_list_maj` (`MajSorted`, `NewSorted`).
The appended number is above all others because of `SeqsDistinct` (every number
in use is below `next_out`), so that sortedness alone is not inductive.
`DeletionIsOlder` needs `SeqsDistinct` for the same reason and `OneSlotPerAddress`
to know that the route of a node just lost is not there twice.  `KernelMatches`
needs `OneSlotPerAddress` and `LocalIsNode` (a DAO never touches the gateway's own
route).  `CheckSweeps` needs the sortedness: the successor of the removed slot,
read before the removal, is the next number.  `DueIsOver` says that no DAO comes in
the middle of a sweep.  `TableInv` is the conjunction; each action has a lemma
(`DropKeeps`, `EnterKeeps`, `RefreshKeeps`, `ReplaceKeeps`, ...) and `StepSafe`
puts them together.

The updates.  `RouterInv` is `RouterTypeOK`, `TableInv` and that the links of the list
carry numbers; every step of the router is one of the table or none, so the table's
invariant is inherited (`StepIsTable`).  Each of the three properties has an
invariant of its own on top of it.  `HeardInv` says of every number that was acknowledged
or is about to be (in `sequence_out`, in an acknowledgement, in an update under way) that
the routes up to it were told or are in that update; for a new update that follows from
the walk over the sorted list, which skips no number.  `QuietInv` says, with the timer
off, that a gateway was told or that the pass of `mob_send_message` that goes on will
come to it or set the timer.  `StaleInv` says that a node that was announced and is gone
has a deletion on record that is younger, or the gateway heard it (`GoneIsKnown`), and that
an acknowledged number covers the deletions up to it as well (`DeletionsHeard`).

The window.  `WindowInv` relates the numbers, which come round, to the ages, which do
not: a number never looks older than it is (`Covers`), and exactly as old while
nothing in use is half the range old (`Exact`); with that the list is sorted by age
(`ByAge`), `UINT_LESS_THAN` compares ages, and what was acknowledged covers the nodes
up to it (`Covered`).

The store.  The handlers of `HomeAgent` are operators that make a store of a store
(slots, list, kernel routes), so that the proof is about operators first: `StoreOK` is
what each of them keeps (`BindKeeps` and `RebindKeeps` for `mob_add_nio`, `EnterKeeps` and
`UpdateKeeps` for a DAO, `ExpiredKeeps`, `CleanKeeps`, ...), and the actions follow.
`StoreOK` says that no address has two slots, in any role; that the list is threaded through the local routes, in some order, as long as
`intact`; and that the kernel follows the table.  The last is inductive only together
with the list, since a cleaner that is led to a stranger's slot takes a route away that
the table has.  With one mote it holds on a damaged list too, because of a
fact about slots: that mote only ever has the last but one, and the links never lead to
the last (`OneSlot`).

Three things are walked.  The options of an update are a fold, followed
as a sequence of sets: the stores that may be left after i options, in which each node
bound so far (`BoundBy`) has been told.  `TwiceIsOnce` shows that a second pass changes
nothing: after the first, each node named has a stamp at least as new.  That needs the
shape of what `mob_send_message` writes (`Shaped`, `SentIs`), part of the invariant for what
is on the network: up to a cut, options that are read as bindings, each node with its own
stamp; after it, what is read as deletions, which to a backup may have stamps too.  The cleaner's walk comes to its end on a
threaded list because each turn leaves fewer routes ahead of it; the same order gives
what the list holds (`ListedIs`).  `CleanedInTime` needs what the cleaner was
last told (`Timing`): it is on while a local route is left, and of its next
two turns one is not before the route is over and at most two lifetimes after (`Awaited`).

Discovery.  `DiscoveryInv` adds to the three properties that a message on the network
states a mode its sender was started in at some time (`NetInv`), that a gateway runs
in one of its modes (`ModeInv`), and what the slot between the two halves of
`mob_new_gw` is (`BusyInv`).  The handlers are operators on the view of one gateway:
they are proved to keep a `Good` view good, and one lemma (`Moves`) carries that to the
state.  `mob_close_tunnels` is a function defined by recursion over the slots; its
turns are picked once (`ClosingTurns`).  `TunnelInv` says what tunnels a table asks for,
in each role and in each phase of a process: the devices of a home agent are numbered
by the count of gateways it knows, which the slots bound, so that a number comes round
to no device in use; any other gateway has one tunnel, to slot 0.

`BackupsMeetRouters` follows the messages: for each pair that a home agent has to make
known, the backup was told (`OwedTold`), and a gateway has one mode as long as nothing
stops (`Lasting`).  In a settled state the backup therefore asked and the router
answered, and each has the other in its table or all slots of the other's role are
taken, which `Room` excludes: the gateways in a role are no more than its slots, and a
slot holds a gateway of its role, each another (`Crowd`, by the pigeonhole principle on
`SlotsInOrder`).  `Room` is needed: `MCDiscovery_crowd` has two border routers for one
slot, and a backup that connects to one of them first never knows the one that its
home agent knows.  What a settled state is, `Quiet` says by the conditions of `Receive`;
`MCDiscovery_quiet` has TLC compare it with `ENABLED` in every state.

The serial line.  `SlipInv` places the reader in the frame: if the frame at the head
of the line is sound, `tty_readable_cb` has read k of its bytes, perhaps with an ESC, and
its buffer holds those k bytes, or the reader is at a frame's start with at most the
dirt of earlier damage (`HeadInv`).  `Resynchronised` and each step of the refinement
follow.  The assumption of `KeepsThePromise` is the finding `MCSlip_esc`.

Packets.  The five theorems are about any set of packets of which each is `Sound`, any
number of nodes and blocks, any MTU and hop limit.  Where the headers of a body end is
not computed step by step: it is the first block that is no header (`UpperAt`), and a
body is `Linked` up to block q if each header before names what follows it.  Each operator
has a lemma that says what it makes of such a buffer (`AddIs`, `RemoveIs`, `InvertIs`,
`ErrorIs`, `EchoIs`, `SendIs`, `AfterIs`): a chain again, its end moved by as many blocks,
addresses and message kept or exchanged.  `ForwardInv` then says, for each point of a
handler, which buffers can be there.  In the header loop `uip_ext_len` stands at a header
of the chain and "next" is its number (`HeadersInv`).  Before `tcpip_ipv6_output` writes,
the buffer is a packet passed on, an answer, an error about an answer, which has the
gateway for both addresses and never gets out, or a DIO (`OutputInv`): `AnswersGoBack` and
`PayloadIntact` need the kinds, since the call of itself makes one out of another.  What may come
back is a packet for others, or a message of the gateway with no header but the
RPL one (`BackInv`): that one passes `rpl_verify_header`, and no error is made of it.  Between two
packets no length of a header is left (`TypeInv`), on which a DIO of the timer depends.

What `Sound` asks for, and the configuration that shows what happens without it: each header
of the packet names what follows it, up to a message; the serial line delivers no more
than `uip_buf` holds (`MCForwarding_overrun`); the headers of a packet for the gateway have
less than 256 bytes, since `uip_ext_len` wraps; hop-by-hop headers have 8 bytes
(`MCForwarding_long`), and a packet for others has one at most, the first, as RFC 2460
wants it (`MCForwarding_twice`); a DIS or DAO has no headers (`MCForwarding_reply`); who has an
address of the prefix does not send to link-local or multicast addresses of the gateway,
nor to others of them with a hop-by-hop header (`MCForwarding_scope`).  A packet may be
shorter than it says, by the 40 bytes that `uip6.c` 327 lets pass: `ForwardTypeOK` bounds
`uip_len` by the size of `uip_buf` and these 40 bytes (`Fits`).  `AllAreSound` in `MCForwarding` has TLC evaluate all this for the
packets of the run `packets`.

The DIO timer.  `DioInTime` is not inductive: when the first half fires the timer is
due again after the same delay, and the sum stays within the interval only because
the delay was drawn for it; `DelayDrawn` says so, and the invariant is
`TrickleTypeOK /\ DelayDrawn /\ DioInTime`.  That 2^c is a number, which no prover
knows, follows from the number of subsets of 1..c.

`Lemmas`.  No prover here instantiates a predicate variable, so that induction is
stated of sets: a set of naturals that holds 0 and is closed under successor holds
every natural (`SetInduction`), from the least element of a set of naturals
(`LeastNatural`), from the well-foundedness of the subsets of a finite set.  From it
follow the functions that a recursion defines (chains of links, folds over
sequences) and the facts about sequences that the proofs use.

Only model-checked: what needs fairness (`CheckTerminates`, `DioIsSent`, `Announced`,
`ToldInTheEnd`, `LoopsEnd` and the fairness in `ImplementsTable`), which the proof system
does not reach.  Every other property of the runs is stated by a theorem.

## What the model says about the code

Run `error`: `uip-icmp6.c` 135 wants no error about an error; behind a header that
was read, the test looks at the wrong byte, and an ICMPv6 error with an RPL header is
answered with another.  `tcpip_ipv6_output` (`tcpip.c` 122) then calls itself for
ever when the source has no route either: `LoopsEnd` exempts this by name
(`CallsItself`).

Further configurations, each of which ends with a counterexample (run as
`tlc -config X.cfg M`, M being the part before the underscore):

| configuration | property | what the code does |
|---|---|---|
| `MCNodeTable_nopath` | `ZeroLifetimeRemoves` | `rpl-private.h` 102 calls a zero lifetime the "Special value indicating immediate removal"; `dao_input` sets the timer to `DAO_EXPIRATION_TIMEOUT` (`rpl-icmp6.c` 324-335) and the node stays announced until then |
| `Trickle_equal` | `IntervalsEquallyLong` | `rpl-timers.c` 78-82 wants intervals of equal length; both parts last what the random time leaves, and an interval anything up to its length |
| `MCHomeAgent_local` | `LocalRoutesKept` | `mobility.c` 93 says "Do not change local routes"; 152-157 makes one a binding |
| `MCHomeAgent_older` | `OlderIgnored` | a binding heard again keeps its first time stamp (148), so that an overtaken update of another gateway, "older ... IGNORED" (107-112), moves it back |
| `MCHomeAgent_delete` | `DeletionHeard` | a deletion carries no time stamp (474-493) and is ignored by 98, also from the binding's own gateway |
| `MCDiscovery_wrong` | `RightGatewayDeletes` | `(locroute->state.gw = old_gw)` in a condition (1031) gives every binding to the gateway whose slot moves; its own gateway then is "the wrong 6LBR" (135) |
| `MCDiscovery_homes` | `BoundSlotAlwaysKnown` | by the same assignment in `clean_routes` (887) and `mob_lbr_evolve`, a second home agent that leaves slot 0 gives every binding that slot, in which nobody is |
| `MCDiscovery_crowd` | `BackupsMeetRouters` | two border routers, one slot for them: `mob_new_gw` finds no free slot and says nothing, so that a backup and a router of the home agent never know each other |
| `MCSlip_esc` | `RoundTrip` | `init_ttyUSBX` (`ttyConnection.c` 199) takes the escape of END for that of ESC: a packet with an ESC byte is read back as another |
| `MCForwarding_cut` | `TruncatedDropped` | `uip6.c` 327 compares the payload's length with that of the packet: up to 40 missing bytes are taken from the packet before |
| `MCForwarding_overrun` | `ForwardTypeOK` | `handle_input` (`ttyConnection.c` 63) copies a frame of up to `TTY_BUFF_SIZE` (30000) bytes into `uip_buf`, which has `UIP_BUFSIZE` (1280, `uipopt.h` 487), whatever its length |
| `MCForwarding_long` | `PayloadIntact` | `rpl_remove_header` (`rpl.c` 286) takes 8 bytes out whatever the header's length, and subtracts that length in the wrong unit |
| `MCForwarding_twice` | `RplStaysInside` | `rpl_remove_header` looks at one header: a second hop-by-hop header behind it leaves on the tun device |
| `MCForwarding_scope` | `AnswersGoBack` | a node without a route pings the gateway's link-local address from its global one: the error about the reply that cannot be sent goes to the reply's source, the gateway's own link-local address, and so out on the serial line (`tcpip.c` 122) |
| `MCForwarding_reply` | `WellFormed` | `uip_icmp6_send` (`uip-icmp6.c` 220) leaves `uip_ext_len` of the packet it answers: a DIS with a hop-by-hop header gets a DIO nobody can read |

`MCHomeAgent_large` has the properties of `store` on larger instances (two routers for 4
seconds and 2 updates; the same on a backup for 2 seconds), and holds.

`StampsGrow` says that the stamp of a route does not go back, which holds; it does not say
that the stamp is the newest that was heard, which `MCHomeAgent_older` refutes.

`MCWindow_old` holds and says what happens past half the range: a node that is not
refreshed for that long heads the list, the walk of `mob_send_message` neither skips
nor takes it, and no binding after it is told (`OldNodeSilences`).

Limits of the code that the properties exempt by name:

* `intact`: `uip_ds6_route_add` recycles an expired slot of a full table without
  telling the mobility layer (`uip-ds6.c` 473-487).  The slot stays on the list
  and is entered again; the list can loop, and `mob_check_all_entry` with it.  In
  `HomeAgent` also a binding that becomes local, whose links are not those of the
  list (`mobility.c` 699): the cleaner may not end, or take the route of another slot.
* `recorded`: with all deletion records in use the deletion is dropped
  (`mobility.c` 762).
* `lossless`: `hdr->len` is a byte; an update of eleven bindings is cut, and
  acknowledged as a whole.
* `gapless`: an update is a window of 15 numbers, obsolete ones included.  If none
  of them is live nothing is sent and the retry timer stays off (505-508); an
  acknowledgement that moves the window does not start it.
* `dropped`: a gateway that was given up and comes back has missed deletions.  A
  backup may miss bindings too: when the home agent was given up and came back, its
  old acknowledgement arrives and the backup before is given up with nothing sent,
  the pass ends (413) and the timer stays off.
* `BoundSlotKnown` is stated of the only home agent (`MCDiscovery_homes`).
* `Room`: with more backups or border routers than slots, a gateway that finds the
  slots of its role taken stays unknown, and is not told so (`mobility.c` 830-833).
* `next_out <= ByteMod`: a deletion keeps its number in a byte (`mobility.h`
  162-166).  Past 255 it is compared as a small number: never freed, or freed
  before it was told.
* `young`: two numbers half the range apart change their order.
* `NB > Cardinality(Nodes)` in `HomeAgent`: a binding's timer has no length and counts
  as over; a full table recycles it first and its tunnel route stays.
* `neat`, `Constant` in `Discovery`: after a kill the tunnels of the process before
  are still there and `ip -6 tunnel add` fails on them; a home agent that comes back in
  another mode leaves its tunnel and its default route.

A frame of one byte "!" may be answered with a prefix, if the byte that an earlier frame
left behind it in the buffer asks for one (`ttyConnection.c` 36).

More follows from the same runs and needs no exemption, because the promise
survives it: an old acknowledgement sets `sequence_out` back (562-584), so that
old statements are sent again; a new gateway, or the drop of the slowest one,
moves or strands `min_ack_sequence`, so that deletions stay on record for ever; a
bound node that comes to a backup's own mesh gets no kernel route (`mob_update_node`
acts in mode `-a` only); the cleaner never computes its next turn (1290) and depends
on the next DAO to be started again.

## Not modelled

* Prefixes shorter than /128 and the overflow of the clock, which has 64 bits.
* In `Router` an update that fits is taken in as a whole, so that `NoStaleBinding` and
  `HomeAgentHeard` speak of what was said; what is done with it is `HomeAgent`, on
  its own.  Both at once are out of TLC's reach.
* What a backup reports to its home agent about its own mesh together with its
  store: the first is `Router`, the second `HomeAgent`; the deletion records that
  `mob_lost_node` makes on the way are in the first only.
* Change of mode (`mob_state_evolve`): called once, from `mob_init`; its other branches
  cannot be reached.  `mob_update_min_ack` has no caller.
* The expiry of addresses and prefixes of the interface tables, which are filled at the
  start with entries that never end; a root that leaves its DAG or changes its version.
* `rpl_remove_routes` and `rpl_remove_routes_by_nexthop`, called for a parent that goes
  away: the gateway is a root and has none.
* `rpl-of0.c` is not built, `rpl-of-etx.c` never asked for a parent.  Of `lib/`, `list_*`
  and `memb_*` have no caller in the gateway; `random_rand` is a choice in `Trickle`.
* Short writes to the serial line, which `tty_output` ignores; `uip_ext_opt_offset`,
  a byte that wraps in an options header of more than 255 bytes; contents of
  messages and checksums; in an error behind a kept RPL header the quoted packet, which
  `uip-icmp6.c` 162-163 puts 8 bytes off its place (`uip_ext_len` is added twice).
* Shell commands, device and socket I/O, argument parsing, address formatting and
  file permissions, but for what a command changes in the kernel's tables.

## Plan

The components above are modelled.  What is left: a composition of two
`Router`s' updates and one `HomeAgent` on the smallest instance, for agreement when
all is quiet.

## Running it

    tlc -workers 2 -config MCNodeTable_roomy.cfg MCNodeTable
    tlapm RouterProofs.tla         # and the other modules named ...Proofs, and Lemmas
