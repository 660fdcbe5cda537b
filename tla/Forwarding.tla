----------------------------- MODULE Forwarding -----------------------------
(***************************************************************************)
(* The IPv6 packet path of the gateway: one buffer (uip_buf) through which *)
(* pass the packets of the tun device (WAN), those of the serial line      *)
(* (LAN), the answers of the gateway and the DIOs of its timer.  It models *)
(* uip_process, the ICMPv6 handlers, the RPL hop-by-hop header and         *)
(* tcpip_ipv6_output with its call of itself.  What follows the IPv6       *)
(* header is a sequence of blocks of 8 bytes; a header of an error carries *)
(* the packet it is about as one block.  The lengths are in bytes.         *)
(***************************************************************************)
EXTENDS Integers, Sequences, SequencesExt

CONSTANTS Nodes,        \* addresses of local nodes, inside the used prefix
          Wan,          \* an address outside of it
          Self,         \* the global address of the gateway, inside the prefix
          SelfLL, NbrLL,\* link-local addresses of the gateway and a neighbour
          Virtual,      \* the virtual node of -i (RPL_ROUTE_FROM_INTERNAL)
          RplNodes,     \* the multicast address of the RPL nodes, joined
          Group,        \* a multicast address that is not joined
          None,         \* the unspecified address
          Packets,      \* what may arrive: [if |-> interface, p |-> packet]
          Learned,      \* what the routing table may hold for a node
          Loops,        \* the interfaces from which a packet may come back
          TTL,          \* UIP_TTL
          MTU,          \* UIP_LINK_MTU
          MaxBody       \* bound: blocks of the buffer that are looked at

VARIABLES pc,      \* where the handler of the current packet is, or "overrun"
          caller,  \* who runs it: "input", "rpl" (in uip_rpl_input), "timer"
          uip,     \* the packet buffer and its lengths
          routes,  \* for each node, the kind of its route ("none": no route)
          seen,    \* the packet that was received last (history)
          sent,    \* what was written since then (history)
          back     \* a packet that left and may be sent back to the gateway

vars == <<pc, caller, uip, routes, seen, sent, back>>

IPH == 40
Block == 8
\* The bytes of uip_buf: there is no link-layer header in front.
BufSize == MTU
Rank == 1

Multicast == {RplNodes, Group}
LinkLocal == {SelfLL, NbrLL}
Mine == {Self, SelfLL, RplNodes}
Addresses == Nodes \cup Multicast \cup LinkLocal \cup {Self, Wan, Virtual, None}

\* The gateway, its nodes, the virtual node and the link have addresses of
\* their own; the sizes: UIP_TTL is 64, UIP_LINK_MTU 1280.
ASSUME AddressAssumption ==
  /\ Nodes \cap ({Self, Virtual, None} \cup LinkLocal \cup Multicast) = {}
  /\ Self \notin {Virtual, None} \cup LinkLocal \cup Multicast
  /\ SelfLL \notin Multicast
ASSUME SizeAssumption ==
  /\ TTL \in 0..255
  /\ MTU \in Nat /\ MTU >= IPH + 2 * Block
  /\ MaxBody \in Nat /\ MaxBody >= 2

\* The address the gateway speaks from (uip_ds6_select_src).
select_src(dst) == IF dst \in LinkLocal \cup Multicast THEN SelfLL ELSE Self

\* uip_ds6_is_addr_onlink: the only prefix of the list is the link-local one.
OnLink(a) == a \in LinkLocal
\* rpl_matching_used_prefix
UsedPrefix(a) == a \in Nodes \cup {Self}
\* uip_ds6_route_lookup, by the kind of the route it finds
Route(a) == IF a \in Nodes THEN routes[a]
            ELSE IF a = Virtual THEN "INTERNAL" ELSE "none"

\* UIP_EXT_BUF: the block behind the headers read so far.
Ext(u) == u.body[(u.ext \div Block) + 1]
SetExt(u, h) == [u EXCEPT !.body[(u.ext \div Block) + 1] = h]
Bytes(h) == (h.len + 1) * Block
\* uip_ext_len counts in 8 bits.
Longer(e, n) == (e + n) % 256

RplOption(f) == [k |-> "hbho", next |-> "ICMP6", len |-> 0, opts |-> <<"rpl">>,
                 flags |-> f, mine |-> TRUE, rank |-> Rank]
FirstIsRpl(u) == u.body[1].opts[1] = "rpl"

-----------------------------------------------------------------------------
(* The RPL hop-by-hop header (rpl.c).                                      *)

WrongRank(h) == IF "DOWN" \in h.flags THEN h.rank > Rank ELSE h.rank < Rank

\* rpl_verify_header: TRUE when the packet has to be dropped.
VerifyFails(h) == \/ "FWD_ERR" \in h.flags
                  \/ ~h.mine
                  \/ (WrongRank(h) /\ "RANK_ERR" \in h.flags)

\* ... and what it leaves in the header otherwise: one error is tolerated.
Verified(h) == IF WrongRank(h) THEN [h EXCEPT !.flags = @ \cup {"RANK_ERR"}] ELSE h

\* Mutant: a header that is there is left as it came.
AddLeavesHeader(u) ==
  IF u.proto = "HBHO" \/ u.len + Block > MTU THEN u
  ELSE [u EXCEPT !.body = <<[RplOption({"DOWN"}) EXCEPT !.next = u.proto]>> \o @,
                 !.proto = "HBHO", !.len = @ + Block, !.plen = @ + Block,
                 !.ext = Longer(@, Block)]

\* rpl_add_header(default_instance, 1)
rpl_add_header(u) ==
  IF u.proto = "HBHO"
  THEN IF u.body[1].len = 0 /\ FirstIsRpl(u)
       THEN [u EXCEPT !.body[1] = [RplOption({"DOWN"}) EXCEPT !.next = u.body[1].next]]
       ELSE u
  ELSE IF u.len + Block > MTU THEN u
  ELSE [u EXCEPT !.body = <<[RplOption({"DOWN"}) EXCEPT !.next = u.proto]>> \o @,
                 !.proto = "HBHO", !.len = @ + Block, !.plen = @ + Block,
                 !.ext = Longer(@, Block)]

\* Mutant: the length in the IPv6 header is not changed with the header.
RemoveKeepsLength(u) ==
  IF u.proto = "HBHO"
  THEN [u EXCEPT !.proto = u.body[1].next, !.len = @ - Block,
                 !.body = Tail(@), !.ext = 0]
  ELSE [u EXCEPT !.ext = 0]

\* rpl_remove_header: it counts one byte for each 8 bytes of options that the
\* header has beyond the first 8, and moves the packet by 8 bytes.
rpl_remove_header(u) ==
  IF u.proto = "HBHO"
  THEN [u EXCEPT !.proto = u.body[1].next, !.len = @ - (u.body[1].len + Block),
                 !.plen = @ - (u.body[1].len + Block), !.body = Tail(@), !.ext = 0]
  ELSE [u EXCEPT !.ext = 0]

\* rpl_invert_header: the bytes of header it keeps, and the packet with it.
Kept(u) == IF u.proto = "HBHO" /\ FirstIsRpl(u) THEN Block ELSE 0
rpl_invert_header(u) ==
  IF Kept(u) = 0 THEN u
  ELSE [u EXCEPT !.body[1].flags = {"DOWN"} \ @, !.body[1].rank = Rank]

-----------------------------------------------------------------------------
(* ICMPv6 (uip-icmp6.c).                                                   *)

\* Is the packet an ICMPv6 error?  When headers were read, "next" is taken from
\* the block behind them, where the upper layer or another header begins.
IsError(u) ==
  IF u.ext > 0 THEN Ext(u).k \in {"hbho", "desto", "routing"} /\ Ext(u).next = "ICMP6"
  ELSE u.proto = "ICMP6" /\ Ext(u).type = "error"

\* The block of the packet an error is about, and the blocks that are looked at.
Shown(body) == IF Len(body) <= MaxBody THEN body ELSE SubSeq(body, 1, MaxBody)
Quote(u) == [k |-> "quoted", src |-> u.src, dst |-> u.dst]

\* Behind a header that it keeps, the code adds uip_ext_len to the place of the
\* quoted packet twice (UIP_ICMP6_ERROR_BUF has it): 8 bytes of the quote are what
\* was there.  "quoted" stands for it either way.
uip_icmp6_error_output(u, type) ==
  LET v == rpl_invert_header(u)
      n == Kept(u) \div Block
      w == [v EXCEPT !.ext = Kept(u),
                     !.len = IF @ + IPH + Block > MTU THEN MTU ELSE @ + IPH + Block,
                     !.ttl = TTL,
                     !.body = Shown(SubSeq(@, 1, n)
                                \o <<[k |-> "icmp", type |-> "error"], Quote(u)>> \o @)]
  IN  IF IsError(u) THEN [u EXCEPT !.len = 0]
      ELSE IF u.src = None \/ (u.dst \in Multicast /\ type # "option")
      THEN [w EXCEPT !.len = 0]
      ELSE [w EXCEPT !.proto = IF n > 0 THEN @ ELSE "ICMP6",
                     !.body = IF n > 0 THEN [@ EXCEPT ![1].next = "ICMP6"] ELSE @,
                     !.dst = u.src, !.src = select_src(u.dst),
                     !.plen = w.len - IPH]

\* Mutant: the addresses are not exchanged.
EchoSameAddresses(u) ==
  [SetExt(u, [k |-> "icmp", type |-> "reply"]) EXCEPT !.ttl = TTL, !.src = u.dst]

\* uip_icmp6_echo_request_input: the extension headers go, but for the RPL one.
uip_icmp6_echo_request_input(u) ==
  LET v == rpl_invert_header(u)
      n == Kept(u)
      w == IF u.ext = 0 THEN u
           ELSE [v EXCEPT !.len = @ - (u.ext - n), !.plen = u.len - (u.ext - n) - IPH,
                          !.proto = IF n > 0 THEN @ ELSE "ICMP6",
                          !.body = SubSeq(@, 1, n \div Block)
                                     \o SubSeq(@, u.ext \div Block + 1, Len(@)),
                          !.ext = n]
      x == IF n > 0 /\ u.ext > 0 THEN [w EXCEPT !.body[1].next = "ICMP6"] ELSE w
  IN  [SetExt(x, [k |-> "icmp", type |-> "reply"]) EXCEPT
        !.ttl = TTL,
        !.dst = u.src,
        !.src = IF u.dst \in Multicast THEN select_src(u.src) ELSE u.dst]

\* uip_icmp6_send: the message is built behind uip_ext_len bytes.
uip_icmp6_send(u, dst, type) ==
  [u EXCEPT !.proto = "ICMP6", !.ttl = TTL, !.plen = 2 * Block, !.dst = dst,
            !.src = select_src(dst), !.len = IPH + 2 * Block,
            !.body = SubSeq(@, 1, u.ext \div Block)
                       \o <<[k |-> "icmp", type |-> type], [k |-> "data"]>>]

\* The two messages of the RPL root (rpl-icmp6.c), by their type.
dio_output(u, dst) == uip_icmp6_send(u, dst, "DIO")
dao_ack_output(u, dst) == uip_icmp6_send(u, dst, "ACK")

-----------------------------------------------------------------------------
(* Initial state and the arrival of packets.                               *)

Empty == [version |-> 6, src |-> None, dst |-> None, ttl |-> 0, proto |-> "NONE",
          plen |-> 0, body |-> <<>>, len |-> 0, ext |-> 0, bitmap |-> {}, next |-> "NONE"]
NoPacket == [if |-> "none", p |-> Empty]

Init == /\ pc = "idle" /\ caller = "input"
        /\ uip = Empty /\ seen = NoPacket /\ sent = <<>> /\ back = NoPacket
        /\ routes \in [Nodes -> Learned]

Arrive(m) ==
  /\ pc = "idle"
  /\ seen' = m /\ sent' = <<>>
  /\ caller' = "input"
  /\ IF m.if = "tun" /\ m.p.len > MTU
     THEN UNCHANGED <<pc, uip>>
     ELSE IF m.p.len > BufSize  \* what comes behind uip_buf is written over:
     THEN pc' = "overrun" /\ UNCHANGED uip  \* the program may do anything
     ELSE /\ pc' = "process"
          /\ LET u == [m.p EXCEPT !.ext = uip.ext]
             IN  uip' = IF m.if = "tun" THEN rpl_remove_header(u) ELSE u
  /\ UNCHANGED routes

\* tun_readable_cb or handle_input: a new packet.
Receive == \E m \in Packets : /\ back = NoPacket
                              /\ Arrive(m)
                              /\ UNCHANGED back

\* What left comes back: the kernel routes it to the tun device, or the node
\* that got it sends it up again.
Climb(p) == IF p.proto = "HBHO" /\ p.body[1].opts[1] = "rpl"
            THEN [p EXCEPT !.body[1].flags = {}, !.body[1].rank = 2] ELSE p
Return == /\ back # NoPacket
          /\ Arrive([back EXCEPT !.p = Climb(@)])
          /\ back' = NoPacket
\* ... or it does not.
Lose == /\ back # NoPacket
        /\ back' = NoPacket
        /\ UNCHANGED <<pc, caller, uip, routes, seen, sent>>

-----------------------------------------------------------------------------
(* uip_process.                                                            *)

\* label send, label drop
Send(u) == uip' = u /\ pc' = "output"
Drop(u) == uip' = [u EXCEPT !.len = 0, !.ext = 0, !.bitmap = {}] /\ pc' = "end"

\* ext_hdr_options_process: the first option that is not skipped decides.
Deciding(h) ==
  LET I == {i \in 1..Len(h.opts) : h.opts[i] \notin {"pad", "skip"}}
  IN  IF I = {} THEN "none" ELSE h.opts[Min(I)]
Options(u) ==
  LET h == Ext(u)
      d == Deciding(h)
  IN  IF d = "none" \/ (d = "rpl" /\ ~VerifyFails(h)) THEN "continue"
      ELSE IF d \in {"rpl", "discard"} \/ (d = "unicast" /\ u.dst \in Multicast)
      THEN "drop"
      ELSE "error"
AfterOptions(u) ==
  LET h == IF "rpl" \in ToSet(Ext(u).opts) THEN Verified(Ext(u)) ELSE Ext(u)
  IN  [SetExt(u, h) EXCEPT !.next = h.next, !.ext = Longer(@, Bytes(h))]

\* The addresses, the size and the hop limit of a packet for another node.
Forwarded(u) ==
  /\ u.dst \notin Multicast \cup LinkLocal
  /\ u.src \notin LinkLocal \cup {None}
\* Mutant: a hop limit that is used up is not noticed.
ForwardUnchecked(u) == IF u.len > MTU THEN uip_icmp6_error_output(u, "big")
                       ELSE [u EXCEPT !.ttl = @ - 1]

\* Mutant: the hop limit is not decremented.
ForwardForever(u) == IF u.len > MTU THEN uip_icmp6_error_output(u, "big")
                     ELSE IF u.ttl <= 1 THEN uip_icmp6_error_output(u, "time")
                     ELSE u

Forward(u) == IF u.len > MTU THEN uip_icmp6_error_output(u, "big")
              ELSE IF u.ttl <= 1 THEN uip_icmp6_error_output(u, "time")
              ELSE [u EXCEPT !.ttl = @ - 1]

\* Where the packet goes once its hop-by-hop header is read.
Dispatch(u) ==
  IF u.dst \in Mine THEN pc' = "headers" /\ uip' = u
  ELSE IF Forwarded(u) THEN Send(Forward(u))
  ELSE IF u.src \in LinkLocal /\ u.dst \notin Multicast /\ ~OnLink(u.dst)
  THEN Send(uip_icmp6_error_output(u, "notneighbor"))
  ELSE Drop(u)

uip_process ==
  /\ pc = "process"
  /\ LET u == [uip EXCEPT !.len = uip.plen + IPH, !.next = uip.proto,
                          !.ext = 0, !.bitmap = {}]
         v == [u EXCEPT !.bitmap = {"HBHO"}]
     IN  IF uip.version # 6 \/ uip.plen > uip.len \/ uip.src \in Multicast
         THEN Drop(uip)
         ELSE IF uip.proto # "HBHO" THEN Dispatch(u)
         ELSE IF Options(v) = "continue" THEN Dispatch(AfterOptions(v))
         ELSE IF Options(v) = "drop" THEN Drop(v)
         ELSE Send(uip_icmp6_error_output(v, "option"))
  /\ UNCHANGED <<caller, routes, seen, sent, back>>

-----------------------------------------------------------------------------
(* The header loop of uip_process for a packet of the gateway: one header. *)

Seen(u, n) == IF n # "DESTO" THEN n
              ELSE IF "DESTO1" \in u.bitmap THEN "DESTO2" ELSE "DESTO1"

NextHeader ==
  /\ pc = "headers" /\ uip.next \in {"HBHO", "DESTO", "ROUTING"}
  /\ LET s == Seen(uip, uip.next)
         v == [uip EXCEPT !.bitmap = @ \cup {s}]
     IN  IF s \in uip.bitmap THEN Send(uip_icmp6_error_output(uip, "nextheader"))
         ELSE IF uip.next = "ROUTING"
         THEN IF Ext(v).left > 0 THEN Send(uip_icmp6_error_output(v, "header"))
              ELSE /\ uip' = [v EXCEPT !.next = Ext(v).next,
                                        !.ext = Longer(@, Bytes(Ext(v)))]
                   /\ pc' = "headers"
         ELSE IF Options(v) = "continue" THEN uip' = AfterOptions(v) /\ pc' = "headers"
         ELSE IF Options(v) = "drop" THEN Drop(v)
         ELSE Send(uip_icmp6_error_output(v, "option"))
  /\ UNCHANGED <<caller, routes, seen, sent, back>>

NoUpperLayer ==
  /\ pc = "headers" /\ uip.next \notin {"HBHO", "DESTO", "ROUTING", "ICMP6"}
  /\ IF uip.next \in {"FRAG", "NONE"} THEN Drop(uip)
     ELSE Send(uip_icmp6_error_output(uip, "nextheader"))
  /\ UNCHANGED <<caller, routes, seen, sent, back>>

\* icmp6_input: echo requests are answered, and the two RPL messages that may
\* have an answer; the rest of uip_rpl_input is about routes and timers.  A DAO
\* has one if it asks for it and its route was entered.
Icmp6Input ==
  /\ pc = "headers" /\ uip.next = "ICMP6"
  /\ CASE Ext(uip).type = "echo" -> Send(uip_icmp6_echo_request_input(uip)) /\ UNCHANGED caller
       [] Ext(uip).type = "DIS" /\ uip.dst \notin Multicast ->
            Send(dio_output(uip, uip.src)) /\ caller' = "rpl"
       [] Ext(uip).type = "DAO" ->
            \/ Send(dao_ack_output(uip, uip.src)) /\ caller' = "rpl"
            \/ Drop(uip) /\ UNCHANGED caller
       [] OTHER -> Drop(uip) /\ UNCHANGED caller
  /\ UNCHANGED <<routes, seen, sent, back>>

-----------------------------------------------------------------------------
(* tcpip_ipv6_output and the end of the handlers.                          *)

Write(if, u) ==
  /\ uip' = u
  /\ pc' = "end"
  /\ sent' = Append(sent, [if |-> if, p |-> u])
  /\ back' = IF caller = "timer" \/ u.dst \in Multicast \/ if \notin Loops THEN back
             ELSE [if |-> if, p |-> [u EXCEPT !.ext = 0, !.bitmap = {}, !.next = "NONE"]]
  /\ UNCHANGED <<caller, routes, seen>>

Stop(u) == uip' = u /\ pc' = "end" /\ UNCHANGED <<caller, routes, seen, sent, back>>

tcpip_ipv6_output ==
  /\ pc = "output"
  /\ IF uip.len = 0 THEN Stop(uip)
     ELSE IF uip.len > MTU \/ uip.dst = None THEN Stop([uip EXCEPT !.len = 0])
     ELSE IF uip.dst \in Multicast THEN Write("tty", uip)
     ELSE IF OnLink(uip.dst) THEN Write("tty", rpl_add_header(uip))
     ELSE IF Route(uip.dst) = "none" /\ UsedPrefix(uip.dst)
     THEN /\ uip' = uip_icmp6_error_output(uip, "unreachable")  \* and again
          /\ UNCHANGED <<pc, caller, routes, seen, sent, back>>
     ELSE IF Route(uip.dst) \in {"none", "INTERNAL"}
     THEN Write("tun", rpl_remove_header(uip))
     ELSE IF Route(uip.dst) = "6LBR" THEN Stop(uip)
     ELSE Write("tty", rpl_add_header(uip))

\* Mutant: the length of the headers is kept.
FinishedKeepsExt(u) == IF caller = "timer" THEN u ELSE [u EXCEPT !.len = 0]

\* The end of tcpip_input (behind uip_rpl_input: uip_len = 0 and drop first),
\* or the return of a timer, which clears nothing.
Finished(u) == IF caller = "timer" THEN u ELSE [u EXCEPT !.len = 0, !.ext = 0]

End == /\ pc = "end"
       /\ pc' = "idle"
       /\ LET u == Finished(uip)  \* the rest is overwritten before it is read
          IN  uip' = [Empty EXCEPT !.len = u.len, !.ext = u.ext,
                                   !.body = SubSeq(u.body, 1, u.ext \div Block)]
       /\ UNCHANGED <<caller, routes, seen, sent, back>>

\* handle_dio_timer: a multicast DIO.
DioTimer == /\ pc = "idle"
            /\ caller' = "timer"
            /\ Send(dio_output(uip, RplNodes))
            /\ sent' = <<>> /\ seen' = NoPacket
            /\ UNCHANGED <<routes, back>>

\* The table changes between two packets (NodeTable, HomeAgent).
RouteChange == /\ pc = "idle"
               /\ \E n \in Nodes, l \in Learned : routes' = [routes EXCEPT ![n] = l]
               /\ UNCHANGED <<pc, caller, uip, seen, sent, back>>

Handler == uip_process \/ NextHeader \/ NoUpperLayer \/ Icmp6Input
             \/ tcpip_ipv6_output \/ End
Next == Receive \/ Return \/ Lose \/ Handler \/ DioTimer \/ RouteChange

Spec == Init /\ [][Next]_vars

\* A handler runs to its end.  What left may be lost; if it is not, it arrives
\* however often the timer of the DIOs comes first, since the event loop polls
\* the descriptors in each turn.
Fair == Spec /\ WF_vars(Handler) /\ SF_vars(Return)

-----------------------------------------------------------------------------
(* Properties.                                                             *)

\* The handler is at one of its points, the headers that it has read end inside
\* the packet, and uip_len stays inside uip_buf but for the bytes of an IPv6
\* header: uip_process compares the length of the payload with that of the
\* packet, so a packet that was cut short claims up to 40 bytes more than came.
\* The serial line must not deliver more than uip_buf holds, which handle_input
\* does not look at (MCForwarding_overrun).
ForwardTypeOK ==
  /\ pc \in {"idle", "process", "headers", "output", "end"}
  /\ caller \in {"input", "rpl", "timer"}
  /\ uip.src \in Addresses /\ uip.dst \in Addresses
  /\ uip.ttl \in 0..255
  /\ uip.ext \in {Block * i : i \in 0..Len(uip.body)}
  /\ pc \in {"output", "end"} => uip.len >= 0
  /\ uip.len <= BufSize + IPH
  /\ routes \in [Nodes -> Learned]

\* A reader of the packet: the headers, in blocks, and where they end.
IsHeader(h) == h.k \in {"hbho", "desto", "routing"}
Proto(h) == CASE h.k = "hbho" -> "HBHO" [] h.k = "desto" -> "DESTO"
              [] h.k = "routing" -> "ROUTING" [] h.k = "icmp" -> "ICMP6"
              [] h.k = "udp" -> "UDP" [] h.k = "frag" -> "FRAG" [] OTHER -> "NONE"
\* ("opts": what a header has beyond its first block)
UpperAt(u) ==
  Min({i \in 1..(Len(u.body) + 1) :
         i <= Len(u.body) => ~IsHeader(u.body[i]) /\ u.body[i].k # "opts"})
Upper(u) == SubSeq(u.body, UpperAt(u), Len(u.body))
UpperBytes(u) == u.plen - Block * (UpperAt(u) - 1)

\* What may stand behind the IPv6 header, and in the buffer.
Protos == {"HBHO", "DESTO", "ROUTING", "ICMP6", "UDP", "FRAG", "NONE"}
OptionNames == {"pad", "skip", "discard", "unicast", "report", "rpl"}
FlagNames == {"DOWN", "RANK_ERR", "FWD_ERR"}
MessageNames == {"echo", "reply", "error", "DIS", "DIO", "DAO", "ACK"}
Blocks ==
  [k : {"hbho", "desto"}, next : Protos, len : Nat, opts : Seq(OptionNames),
   flags : SUBSET FlagNames, mine : BOOLEAN, rank : Nat]
    \cup [k : {"routing"}, next : Protos, len : Nat, left : Nat]
    \cup [k : {"icmp"}, type : MessageNames]
    \cup [k : {"quoted"}, src : Addresses, dst : Addresses]
    \cup [k : {"udp", "frag", "data", "opts"}]
Buffers ==
  [version : Nat, src : Addresses, dst : Addresses, ttl : 0..255, proto : Protos,
   plen : Nat, body : Seq(Blocks), len : Int, ext : Nat,
   bitmap : SUBSET {"HBHO", "DESTO1", "DESTO2", "ROUTING"}, next : Protos]

\* A packet as others than the code below write it: each header names what
\* follows, and the message is there.
Whole(u) ==
  LET q == UpperAt(u)
  IN  /\ u \in Buffers
      /\ q <= Len(u.body) /\ Block * q <= u.plen
      /\ u.proto = Proto(u.body[1])
      /\ \A j \in 1..(q - 1) : IsHeader(u.body[j]) =>
           /\ j + u.body[j].len + 1 <= q
           /\ u.body[j].next = Proto(u.body[j + u.body[j].len + 1])

\* What the theorems ask of the packets that arrive; MCForwarding shows which of
\* the properties fail without: the line delivers no more than the buffer holds;
\* a hop-by-hop header has 8 bytes; in a packet for others there is one at most,
\* the first; the headers of a packet for the gateway have less than 256 bytes
\* (when uip_ext_len wraps, what is in a header is read as the message), and a
\* DIS or a DAO has none; and who has an address of the prefix does not speak to
\* the link.
Sound(m) ==
  LET u == m.p
      q == UpperAt(u)
  IN  /\ m.if \in {"tun", "tty"} /\ Whole(u)
      /\ m.if = "tty" => u.len <= BufSize
      /\ u.dst \in Mine => Block * (q - 1) < 256
      /\ \A j \in 1..(q - 1) : u.body[j].k = "hbho" =>
           u.body[j].len = 0 /\ (j > 1 => u.dst \in Mine)
      /\ u.dst \in Mine /\ u.body[q].k = "icmp" /\ u.body[q].type \in {"DIS", "DAO"} => q = 1
      /\ UsedPrefix(u.src) /\ u.dst \in Multicast \cup LinkLocal =>
           u.dst \notin Mine /\ u.proto # "HBHO"

\* What the gateway writes can be read: the two lengths agree, each "next"
\* names the block that follows its header, and the message has bytes.  It is
\* about the headers that are put in, taken out and inverted in place, and
\* about uip_ext_len, which every user of the buffer trusts.
WellFormed ==
  \A i \in 1..Len(sent) :
    LET u == sent[i].p
    IN  /\ u.len = u.plen + IPH
        /\ u.proto = Proto(u.body[1])
        /\ \A j \in 1..(UpperAt(u) - 1) :
             IsHeader(u.body[j]) /\ j + u.body[j].len + 1 <= Len(u.body) =>
               u.body[j].next = Proto(u.body[j + u.body[j].len + 1])
        /\ UpperBytes(u) >= Block

\* A packet that is passed on has the upper layer it came with, all of it,
\* whatever headers were put in or taken out (rpl_add_header, rpl_remove_header).
PayloadIntact ==
  \A i \in 1..Len(sent) :
    LET u == sent[i].p
    IN  u.src \notin Mine =>
          /\ <<u.src, u.dst>> = <<seen.p.src, seen.p.dst>>
          /\ Upper(u) = Upper(seen.p)
          /\ UpperBytes(u) = UpperBytes(seen.p)

\* The RPL header stays inside: none leaves on the tun device, and every unicast
\* packet of the serial line has one, going down and with the rank of the root,
\* but for a packet that has no room for it or brought other options.
RplStaysInside ==
  \A i \in 1..Len(sent) :
    LET u == sent[i].p
        h == u.body[1]
    IN  /\ sent[i].if = "tun" => u.proto # "HBHO"
        /\ sent[i].if = "tty" /\ u.dst \notin Multicast =>
             \/ /\ u.proto = "HBHO" /\ h.opts[1] = "rpl"
                /\ h.flags = {"DOWN"} /\ h.rank = Rank
             \/ u.proto # "HBHO" /\ u.len + Block > MTU
             \/ u.proto = "HBHO" /\ h.opts[1] # "rpl"

\* A packet that the gateway made because of the one that was received.
Own(u) == /\ caller # "timer" /\ u.src \in Mine
          /\ Upper(u) # Upper(seen.p)

\* What the gateway says because of a packet, it says to the one that sent it,
\* however often tcpip_ipv6_output has called itself.
AnswersGoBack ==
  \A i \in 1..Len(sent) :
    Own(sent[i].p) => sent[i].p.dst = seen.p.src

\* No error is sent because of an error (uip_icmp6_error_output).
IsIcmpError(u) == Upper(u) # <<>> /\ Upper(u)[1].k = "icmp" /\ Upper(u)[1].type = "error"
NoErrorAboutError ==
  \A i \in 1..Len(sent) :
    IsIcmpError(sent[i].p) /\ Own(sent[i].p) => ~IsIcmpError(seen.p)

\* A packet that is cut short is dropped (uip_process).
Truncated(u) == u.len < u.plen + IPH
TruncatedDropped == seen.if = "tty" /\ Truncated(seen.p) => sent = <<>>

\* The output of an error about an error: it is not seen as one behind a header.
CallsItself ==
  /\ pc = "output" /\ uip.proto = "HBHO"
  /\ Route(uip.dst) = "none" /\ UsedPrefix(uip.dst)

\* A packet that is sent back again and again is given up, and so is the error
\* that this makes: the hop limit counts in every packet that is passed on.  Each
\* handler ends, although tcpip_ipv6_output calls itself; one thing it never
\* ends is an error behind an RPL header, to a node that has no route.
LoopsEnd == []<>(pc = "idle" /\ back = NoPacket) \/ <>[]CallsItself
=============================================================================
