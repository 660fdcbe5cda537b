---------------------------- MODULE MCForwarding ----------------------------
(* Small instances of Forwarding: two local nodes and a host outside.       *)
EXTENDS Forwarding

CONSTANTS n1, n2, wan, self, selfll, nbrll, virtual, rplnodes, group, none

TwoNodes == {n1, n2}
Table == {"none", "dao", "6LBR"}
Registered == {"dao"}

Icmp(t) == <<"ICMP6", <<[k |-> "icmp", type |-> t], [k |-> "data"]>>>>
Udp == <<"UDP", <<[k |-> "udp"], [k |-> "data"]>>>>

\* A header in front of what follows.
H(k, p, opts, x) ==
  <<p, <<[k |-> k, next |-> x[1], len |-> 0, opts |-> opts, flags |-> {}, mine |-> TRUE,
          rank |-> 2]>> \o x[2]>>
Hbh(opts, x) == H("hbho", "HBHO", opts, x)
Rpl(x) == Hbh(<<"rpl">>, x)
RplWith(flags, mine, rank, x) ==
  LET r == Rpl(x)
  IN  <<r[1], [r[2] EXCEPT ![1].flags = flags, ![1].mine = mine, ![1].rank = rank]>>
Dst(opts, x) == H("desto", "DESTO", opts, x)
Rtg(left, x) ==
  <<"ROUTING", <<[k |-> "routing", next |-> x[1], len |-> 0, left |-> left]>> \o x[2]>>
\* A hop-by-hop header of 16 bytes.
Long(opts, x) ==
  <<"HBHO", <<[k |-> "hbho", next |-> x[1], len |-> 1, opts |-> opts, flags |-> {},
               mine |-> TRUE, rank |-> 2], [k |-> "opts"]>> \o x[2]>>

\* A packet on an interface; extra: bytes of padding (or missing, if negative).
On(if, src, dst, ttl, x, extra) ==
  [if |-> if,
   p |-> [Empty EXCEPT !.src = src, !.dst = dst, !.ttl = ttl, !.proto = x[1],
                       !.body = x[2], !.plen = Block * Len(x[2]),
                       !.len = IPH + Block * Len(x[2]) + extra]]
P(if, src, dst, x) == On(if, src, dst, 2, x, 0)
Big(n, x) == <<x[1], x[2] \o [i \in 1..n |-> [k |-> "data"]]>>

FromWan ==
  {P("tun", wan, d, x) : d \in {n1, self, virtual}, x \in {Icmp("echo"), Icmp("error"), Udp}}
  \cup {P("tun", wan, n1, Hbh(<<"pad">>, Icmp("echo"))), On("tun", wan, n1, 0, Udp, 0),
        On("tun", wan, n1, 3, Udp, 8), On("tun", wan, n1, 2, Udp, -48),
        P("tun", wan, n1, Big(13, Udp)), P("tun", wan, n1, Big(14, Udp)), P("tun", wan, rplnodes, Icmp("echo")),
        P("tun", wan, group, Udp), P("tun", group, n1, Udp), P("tun", none, n1, Udp),
        P("tun", wan, self, Dst(<<"pad", "unicast">>, Icmp("echo"))),
        P("tun", wan, rplnodes, Dst(<<"unicast">>, Icmp("echo"))),
        P("tun", wan, rplnodes, Dst(<<"report">>, Icmp("echo"))),
        P("tun", wan, self, Rtg(1, Icmp("echo"))), P("tun", wan, self, Rtg(0, Icmp("echo"))),
        P("tun", wan, self, <<"NONE", <<[k |-> "data"]>>>>),
        P("tun", wan, self, <<"FRAG", <<[k |-> "frag"]>>>>)}

FromLan ==
  {P("tty", s, d, Rpl(x)) : s \in {n1}, d \in {n2, wan, self}, x \in {Icmp("echo"), Udp}}
  \cup {P("tty", nbrll, d, x) : d \in {selfll, rplnodes},
                                x \in {Icmp("DIS"), Icmp("DAO"), Icmp("echo")}}
  \cup {P("tty", nbrll, wan, Icmp("echo")), P("tty", n1, nbrll, Udp),
        On("tty", n1, wan, 2, Big(14, Udp), -8),
        P("tty", n1, n2, Icmp("echo")), P("tty", n1, n2, Icmp("error")),
        P("tty", n1, self, RplWith({}, TRUE, 0, Icmp("echo"))),
        P("tty", n1, self, RplWith({"RANK_ERR"}, TRUE, 0, Icmp("echo"))),
        P("tty", n1, wan, RplWith({"DOWN", "FWD_ERR"}, TRUE, 1, Udp)),
        P("tty", n1, wan, RplWith({"DOWN"}, FALSE, 1, Udp)),
        P("tty", n1, n2, Hbh(<<"skip">>, Udp)), P("tty", n1, n2, Hbh(<<"discard">>, Udp)),
        P("tty", n1, n2, Hbh(<<"report">>, Udp)),
        P("tty", n1, self, Rpl(Dst(<<"skip">>, Rtg(0, Dst(<<"pad">>, Icmp("echo")))))),
        P("tty", n1, self, Rpl(Dst(<<>>, Dst(<<>>, Dst(<<>>, Icmp("echo")))))),
        P("tty", n1, self, Rpl(Hbh(<<"pad">>, Icmp("echo"))))}

All == FromWan \cup FromLan

\* The theorems are about such packets.
ASSUME AllAreSound == \A m \in All : Sound(m)

\* For the runs that show what the code does otherwise than it says.
AboutErrors == {On("tty", n1, n2, 1, Rpl(Icmp("error")), 0), P("tty", n1, self, Rpl(Udp))}
Overlong == {P("tty", n1, wan, Udp), P("tty", n1, wan, Big(14, Udp))}
Cut == {On("tty", n1, wan, 2, Udp, -8), P("tty", n1, wan, Udp)}
LongHeader == {P("tun", wan, n1, Long(<<"skip">>, Udp)), P("tun", wan, n1, Udp)}
Twice == {P("tty", n1, wan, Rpl(Hbh(<<"pad">>, Udp))), P("tty", n1, wan, Rpl(Udp))}
LinkScope == {P("tty", n1, selfll, Icmp("echo")), P("tty", n1, n2, Udp)}
Solicited == {P("tty", nbrll, selfll, Rpl(Icmp("DIS"))), P("tty", nbrll, selfll, Icmp("DIS"))}
=============================================================================
