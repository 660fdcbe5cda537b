-------------------------------- MODULE Router --------------------------------
(***************************************************************************)
(* Binding updates of a border router (mode -r): NodeTable with the        *)
(* gateways it reports to (gws[0], the home agent, and the backups after   *)
(* it), the timer next_send, mob_send_message and mob_incoming_ack of      *)
(* mobility.c.  Updates and acknowledgements are UDP datagrams: they are   *)
(* lost, duplicated and reordered.                                         *)
(*                                                                         *)
(* A gateway is external here: it takes in what an update says and         *)
(* acknowledges the update's sequence number (mob_proceed_up).             *)
(***************************************************************************)
EXTENDS NodeTable, Sequences, FiniteSetsExt

CONSTANTS Hoag,        \* the home agent
          Backups,     \* the backup gateways
          NoGw,        \* no gateway
          NBackup,     \* backup slots of gws (MAX_LBR_BACKUP, 2)
          MaxEntry,    \* numbers an update spans (MOB_MAX_ENTRY_BY_UP, 15)
          MaxNonAck,   \* unanswered updates (MAX_NON_ACK, 4)
          LenMod,      \* one more than an 8-bit length (256)
          ByteMod,     \* a recorded deletion keeps its number modulo this (256)
          Networks,    \* the networks there may be: TRUE, one that duplicates datagrams
          Flight,      \* bound: datagrams on their way, what is sent beyond is lost
          MaxJoin      \* bound: how often a gateway becomes known

ASSUME GatewaysAssumption ==
  /\ Hoag \notin Backups
  /\ NoGw \notin Backups \cup {Hoag}
  /\ {NBackup, MaxEntry, MaxNonAck, LenMod, ByteMod, Flight, MaxJoin} \subseteq Nat \ {0}
  /\ Networks \subseteq BOOLEAN

Peers == Backups \cup {Hoag}
Gws   == 0 .. NBackup

VARIABLES
  gws,      \* per slot: the gateway if MOB_GW_KNOWN, sequence_out, non_ack
  min_ack,  \* min_ack_sequence
  timer,    \* next_send: "off", "once" (active, repeat 0), "again" (repeat > 0)
  sending,  \* the i of mob_send_message, -1 outside
  buf,      \* the options written to output_buffer so far
  handoff,  \* handoff_status: "none", "new" or "unknown"
  sent,     \* whether this run of mob_send_message sent anything
  net,      \* updates on their way
  acks,     \* acknowledgements on their way
  heard,    \* ghost, per gateway: the options it took in
  lossless, \* ghost: no update was cut by its 8-bit length
  recorded, \* ghost: no deletion found the buffer full
  dropped,  \* ghost: the gateways that were ever given up
  gapless,  \* ghost: no gateway that was behind had nothing to be sent
  duplicates, \* environment: whether the network duplicates datagrams
  joins     \* bound: NewGw steps taken

mob   == <<gws, min_ack>>
send  == <<sending, buf, handoff, sent>>
wire  == <<net, acks, heard>>
fate  == <<lossless, recorded, dropped, gapless>>
env   == <<duplicates, joins>>
rvars == <<vars, mob, timer, send, wire, fate, env>>

Known(i) == gws[i].gw # NoGw

\* An option of an update: a binding or a deletion, the handoff it is read
\* under, and the sequence number it stands for.
Options == [bind : BOOLEAN, hand : {"new", "unknown"}, addr : Addresses, num : Nat]

Updates == [gw : Peers, seq : Nat, opts : Seq(Options)]
Acks    == [gw : Peers, seq : Nat]

RouterInit ==
  /\ Init
  /\ gws = [i \in Gws |-> [gw |-> NoGw, seq_out |-> 0, non_ack |-> 0]]
  /\ min_ack = 0
  /\ timer = "off"
  /\ sending = -1 /\ buf = <<>> /\ handoff = "none" /\ sent = FALSE
  /\ net = {} /\ acks = {} /\ heard = [p \in Peers |-> {}]
  /\ lossless = TRUE /\ recorded = TRUE /\ dropped = {} /\ gapless = TRUE
  /\ duplicates \in Networks /\ joins = 0

-----------------------------------------------------------------------------
(* The table's events *)

\* Mutant: a datagram is handled while another callback runs.
IdleAnyTime == TRUE

\* One thread: a callback starts when no other runs.
Idle == pc = "idle" /\ sending = -1

\* Mutant: the timer is not started.
ArmNever == UNCHANGED timer

\* mob_maj_node starts the timer; a running one is at most shortened.
Arm == timer' = IF timer = "off" THEN "once" ELSE timer

RDao(n) ==
  /\ Idle /\ Dao(n) /\ Arm
  /\ UNCHANGED <<mob, send, wire, fate, env>>

Record == /\ recorded' = (recorded /\ (Tombs # Deletes \/ Present' = Present))
          /\ UNCHANGED <<lossless, dropped, gapless>>

\* mob_lost_node does not start the timer.
RTable(n) ==
  /\ Idle /\ (NoPathDao(n) \/ Lookup(n)) /\ Record
  /\ UNCHANGED <<mob, timer, send, wire, env>>

\* Only mob_check_all_entry reads the clock during a callback.
RTick ==
  /\ sending = -1 \/ pc = "check"
  /\ Tick
  /\ UNCHANGED <<mob, timer, send, wire, fate, env>>

-----------------------------------------------------------------------------
(* Gateways *)

FreeFor(p, i) ==
  /\ ~Known(i)
  /\ IF p = Hoag THEN i = 0 ELSE i # 0 /\ \A j \in 1 .. i - 1 : Known(j)

\* mob_new_gw for a gateway that is not known, with mob_lbr_evolve_state: it is
\* sent everything from the first listed node on; the timer starts.
NewGw(p) ==
  /\ Idle /\ joins < MaxJoin
  /\ \A i \in Gws : gws[i].gw # p
  /\ \E i \in Gws :
       /\ FreeFor(p, i)
       /\ LET from == IF out.min # LIST_END THEN seq[out.min] - 1 ELSE min_ack
          IN /\ gws' = [gws EXCEPT ![i] = [gw |-> p, seq_out |-> from, non_ack |-> 0]]
             /\ min_ack' = from
  /\ Arm
  /\ joins' = joins + 1
  /\ UNCHANGED <<vars, send, wire, fate, duplicates>>

-----------------------------------------------------------------------------
(* mob_send_message *)

\* Without a home agent the timer polls.
FireNoHoag ==
  /\ Idle /\ timer # "off" /\ ~Known(0)
  /\ timer # "again"
  /\ timer' = "again"
  /\ UNCHANGED <<vars, mob, send, wire, fate, env>>

\* libev has already restarted a repeating timer when it calls back; repeat = 0
\* lets it run once more.  First comes mob_check_all_entry.
Fire ==
  /\ Idle /\ timer # "off" /\ Known(0)
  /\ CheckStart
  /\ timer' = IF timer = "again" THEN "once" ELSE "off"
  /\ sending' = 0 /\ buf' = <<>> /\ handoff' = "none" /\ sent' = FALSE
  /\ UNCHANGED <<mob, wire, fate, env>>

RCheck ==
  /\ CheckNext /\ Record
  /\ UNCHANGED <<mob, timer, send, wire, env>>

\* The slots on the list, from min_out_seq on, then LIST_END.
Chain ==
  LET at[k \in 1 .. NB] ==
        IF k = 1 THEN out.min
        ELSE IF at[k - 1] = LIST_END THEN LIST_END ELSE out.next[at[k - 1]]
  IN at

\* Where a walk that passes over the numbers up to k stops.
From(k) == {j \in 1 .. NB : Chain[j] = LIST_END \/ seq[Chain[j]] > k} \cup {NB + 1}

\* Mutant: the number after the acknowledged one is skipped too.
WalkSkipsOne(from, to) ==
  SubSeq(Chain, Min(From(from + 1)), Min(From(to + 1)) - 1)

\* The slots of an update.  The walk skips the numbers up to from and stops at
\* the first one beyond to + 1: UINT_LESS_THAN is <=, so the binding after the
\* update's own number is in.
Walk(from, to) ==
  LET first == Min(From(from))
      stop  == Min({j \in From(to + 1) : j >= first})
  IN SubSeq(Chain, first, stop - 1)

Bindings(from, to, h) ==
  LET at == Walk(from, to)
  IN [k \in 1 .. Len(at) |->
        [bind |-> TRUE, hand |-> h, addr |-> ipaddr[at[k]], num |-> seq[at[k]]]]

\* uip_lladdr_list has a byte for the sequence number.  deleted[d].seq stays the
\* number that was given; the code reads what is left of it.
ByteSeq(d) == deleted[d].seq % ByteMod

Deletion(d) == [bind |-> FALSE, hand |-> "unknown", addr |-> deleted[d].addr,
                num |-> deleted[d].seq]

\* Every recorded deletion up to MaxEntry numbers ahead, every time.
Deletions(to) ==
  LET InRange(d) == deleted[d].used /\ ByteSeq(d) <= to + MaxEntry
      upto[n \in 0 .. ND] ==
        IF n = 0 THEN <<>>
        ELSE IF InRange(n - 1) THEN Append(upto[n - 1], Deletion(n - 1))
        ELSE upto[n - 1]
  IN upto[ND]

\* MOB_LEN_BIND 6; a handoff option 4; NIO 12, PadN 2 and timestamp 10.
Count(opts, P(_)) == Cardinality({k \in DOMAIN opts : P(opts[k])})

Bytes(opts) ==
  LET IsBind(o) == o.bind
      IsDel(o)  == ~o.bind
      IsNew(o)  == o.hand = "new"
      Once(c)   == IF c > 0 THEN 4 ELSE 0
  IN 24 * Count(opts, IsBind) + 12 * Count(opts, IsDel)
       + Once(Count(opts, IsNew)) + Once(Count(opts, IsDel))

\* hdr->len is one byte: of a longer update only its length modulo 256 is sent.
Carried(opts) ==
  LET len == 6 + Bytes(opts)
  IN IF len < LenMod THEN opts
     ELSE LET whole == {k \in 1 .. Len(opts) :
                          6 + Bytes(SubSeq(opts, 1, k)) <= len % LenMod}
          IN SubSeq(opts, 1, Max(whole \cup {0}))

Sent(m, on) == IF Cardinality(on) < Flight THEN on \cup {m} ELSE on

Behind(i) == Known(i) /\ next_out - gws[i].seq_out > 1

\* data->sequence, the number an update to gateway i stands for.
UpTo(i) == IF next_out - gws[i].seq_out > MaxEntry + 1
           THEN gws[i].seq_out + MaxEntry ELSE next_out - 1

\* Mutant: one more unanswered update.
GivenUpLate(i) == gws[i].non_ack > MaxNonAck

GivenUp(i) == gws[i].non_ack >= MaxNonAck

InLoop(i) == pc = "idle" /\ sending = i

\* A gateway that left MaxNonAck updates unanswered is dropped, and the loop over
\* the gateways ends.
SendDrop(i) ==
  /\ InLoop(i) /\ Behind(i) /\ GivenUp(i)
  /\ gws' = [gws EXCEPT ![i].gw = NoGw]
  /\ dropped' = dropped \cup {gws[i].gw}
  /\ sending' = NBackup + 1
  /\ UNCHANGED <<vars, min_ack, timer, buf, handoff, sent, wire, lossless, recorded,
                 gapless, env>>

\* One update.  The buffer and the handoff are those left by the gateway before.
SendUpdate(i) ==
  /\ InLoop(i) /\ Behind(i) /\ ~GivenUp(i)
  /\ LET to   == UpTo(i)
         new  == Bindings(gws[i].seq_out, to, IF handoff = "unknown" THEN "unknown" ELSE "new")
         gone == Deletions(to)
         all  == buf \o new \o gone
     IN /\ buf' = all
        /\ handoff' = IF gone # <<>> THEN "unknown"
                      ELSE IF new # <<>> /\ handoff = "none" THEN "new" ELSE handoff
        /\ gapless' = (gapless /\ all # <<>>)
        /\ IF all = <<>> THEN UNCHANGED <<gws, sent, net, lossless>>
           ELSE /\ net' = Sent([gw |-> gws[i].gw, seq |-> to, opts |-> Carried(all)], net)
                /\ lossless' = (lossless /\ Carried(all) = all)
                /\ gws' = [gws EXCEPT ![i].non_ack = @ + 1]
                /\ sent' = TRUE
  /\ sending' = i + 1
  /\ UNCHANGED <<vars, min_ack, timer, acks, heard, recorded, dropped, env>>

SendSkip(i) ==
  /\ InLoop(i) /\ ~Behind(i)
  /\ sending' = i + 1
  /\ UNCHANGED <<vars, mob, timer, buf, handoff, sent, wire, fate, env>>

\* Mutant: no retry.
SendEndOnce ==
  /\ InLoop(NBackup + 1)
  /\ sending' = -1
  /\ buf' = <<>> /\ handoff' = "none" /\ sent' = FALSE
  /\ UNCHANGED <<vars, mob, timer, wire, fate, env>>

\* The timer is set for a retry only if something was sent.
SendEnd ==
  /\ InLoop(NBackup + 1)
  /\ sending' = -1
  /\ timer' = IF sent THEN "again" ELSE timer
  /\ buf' = <<>> /\ handoff' = "none" /\ sent' = FALSE
  /\ UNCHANGED <<vars, mob, wire, fate, env>>

-----------------------------------------------------------------------------
(* The network and the gateways *)

\* Where datagrams are duplicated, one that was delivered may come once more.
\* One that is lost is never delivered.
Delivered(m, on) == IF duplicates THEN on ELSE on \ {m}

\* mob_proceed_up of the gateway: it reads the options and acknowledges.  It
\* runs on its own, but nothing the router's callback reads: between two.
Receive(m) ==
  /\ Idle
  /\ net' = Delivered(m, net)
  /\ heard' = [heard EXCEPT ![m.gw] = @ \cup {m.opts[k] : k \in DOMAIN m.opts}]
  /\ acks' = Sent([gw |-> m.gw, seq |-> m.seq], acks)
  /\ UNCHANGED <<vars, mob, timer, send, fate, env>>

\* Mutant: whatever was recorded since the last acknowledgement is freed.
AckedAll(d, last, min) == deleted[d].used /\ last <= ByteSeq(d)

\* Every gateway acknowledged the number of the deletion.
Acked(d, last, min) ==
  deleted[d].used /\ last <= ByteSeq(d) /\ ByteSeq(d) <= min

\* mob_incoming_ack.  The acknowledged number is taken as it comes, larger or
\* smaller; only if this gateway was the slowest are deletions freed.
IncomingAck(a) ==
  /\ Idle
  /\ \E i \in Gws :
       /\ gws[i].gw = a.gw
       /\ gws' = [gws EXCEPT ![i].seq_out = a.seq, ![i].non_ack = 0]
       /\ IF min_ack = gws[i].seq_out
          THEN LET min == Min({gws'[j].seq_out : j \in {k \in Gws : Known(k)}})
               IN /\ min_ack' = min
                  /\ deleted' = [d \in Deletes |->
                       IF Acked(d, min_ack, min)
                       THEN [deleted[d] EXCEPT !.used = FALSE] ELSE deleted[d]]
          ELSE UNCHANGED <<min_ack, deleted>>
  /\ acks' = Delivered(a, acks)
  /\ UNCHANGED <<slots, out, next_out, kernel, loop, ghost, timer, send, net, heard,
                 fate, env>>

-----------------------------------------------------------------------------
SendLoop == \/ \E i \in Gws : SendDrop(i) \/ SendUpdate(i) \/ SendSkip(i)
            \/ SendEnd

RouterNext ==
  \/ \E n \in Nodes : RDao(n) \/ RTable(n)
  \/ RTick
  \/ \E p \in Peers : NewGw(p)
  \/ FireNoHoag \/ Fire \/ RCheck \/ SendLoop
  \/ \E m \in net : Receive(m)
  \/ \E a \in acks : IncomingAck(a)

RouterSpec == RouterInit /\ [][RouterNext]_rvars

\* The event loop runs its callbacks to the end and fires the timer; an update
\* that was sent arrives, and so does its acknowledgement.
RouterFair ==
  /\ WF_rvars(Fire) /\ WF_rvars(RCheck) /\ WF_rvars(SendLoop)
  /\ WF_rvars(\E m \in net : Receive(m))
  /\ WF_rvars(\E a \in acks : IncomingAck(a))

RouterLive == RouterSpec /\ RouterFair

-----------------------------------------------------------------------------
(* Properties *)

\* Every variable keeps its type.
RouterTypeOK ==
  /\ TypeOK
  /\ gws \in [Gws -> [gw : Peers \cup {NoGw}, seq_out : Nat, non_ack : 0 .. MaxNonAck]]
  /\ min_ack \in Nat
  /\ timer \in {"off", "once", "again"}
  /\ sending \in -1 .. NBackup + 1
  /\ buf \in Seq(Options)
  /\ handoff \in {"none", "new", "unknown"}
  /\ net \in SUBSET Updates /\ \A m \in net : m.seq < next_out
  /\ acks \in SUBSET Acks /\ \A a \in acks : a.seq < next_out
  /\ heard \in [Peers -> SUBSET Options]
  /\ lossless \in BOOLEAN /\ recorded \in BOOLEAN /\ gapless \in BOOLEAN
  /\ sent \in BOOLEAN
  /\ dropped \in SUBSET Peers

\* Nothing is skipped on the way to the home agent: every local route with a
\* number it acknowledged was announced to it, as a new binding, whatever
\* updates and acknowledgements were lost, repeated or overtaken and however
\* the window of MaxEntry numbers moved.
HomeAgentHeard ==
  intact /\ lossless /\ Known(0) =>
    \A s \in Live : seq[s] <= gws[0].seq_out =>
      [bind |-> TRUE, hand |-> "new", addr |-> ipaddr[s], num |-> seq[s]]
        \in heard[gws[0].gw]

\* No gateway is left with a route to a node that is gone: a deletion is kept
\* on record until every gateway that heard of the node has heard of its loss.
\* It holds while the numbers fit the byte a deletion has for them; past it a
\* deletion with a small remainder is freed before it is told, another never.
NoStaleBinding ==
  intact /\ lossless /\ recorded /\ next_out <= ByteMod =>
    \A i \in Gws : Known(i) /\ gws[i].gw \notin dropped =>
      \A o \in heard[gws[i].gw] :
        o.bind /\ o.addr \notin Present =>
          \/ \E d \in Tombs : deleted[d].addr = o.addr /\ o.num < deleted[d].seq
          \/ \E q \in heard[gws[i].gw] : ~q.bind /\ q.addr = o.addr /\ o.num < q.num

\* When the timer is off, nothing is left to say: the home agent has heard of
\* every local route, and so has every known backup as long as no gateway was
\* given up (an old acknowledgement may have set sequence_out back since).  A
\* drop ends the loop: two in a row, the home agent's and a backup's, leave the
\* timer off and the next backup untold.  It fails after a gap: the window of an
\* update is counted in numbers, obsolete ones included, and one without a live
\* number sends nothing and leaves the timer off, also when a late
\* acknowledgement then moves the window.
QuietIsTold ==
  Idle /\ timer = "off" /\ intact /\ lossless /\ gapless =>
    \A i \in Gws : Known(i) /\ (i = 0 \/ dropped = {}) =>
      \A s \in Live : \E o \in heard[gws[i].gw] : o.bind /\ o.num = seq[s]

\* The table under the updates behaves as NodeTable says on its own.
ImplementsTable == Spec

\* A local route is announced to the home agent, or is refreshed or lost first.
Announced ==
  \A n \in Nodes, k \in 1 .. MaxSeq :
    (Known(0) /\ \E s \in Live : ipaddr[s] = n /\ seq[s] = k)
      ~> \/ \E o \in heard[Hoag] : o.bind /\ o.num = k
         \/ ~\E s \in Live : ipaddr[s] = n /\ seq[s] = k
         \/ ~Known(0) \/ ~intact \/ ~lossless \/ ~gapless

=============================================================================
