------------------------------ MODULE RplProofs -------------------------------
(***************************************************************************)
(* The RPL root: the packets it passes on and answers, and the intervals   *)
(* of its DIO timer.                                                       *)
(***************************************************************************)
EXTENDS Forwarding, Trickle, Lemmas

-----------------------------------------------------------------------------
(* What holds of the packet path *)

\* The header chain of a body ends in block q, and its hop-by-hop headers have
\* one block.
Linked(b, q) ==
  /\ b \in Seq(Blocks) /\ q \in 1..Len(b)
  /\ ~IsHeader(b[q]) /\ b[q].k # "opts"
  /\ \A j \in 1..(q - 1) :
       /\ IsHeader(b[j]) \/ b[j].k = "opts"
       /\ IsHeader(b[j]) =>
            /\ j + b[j].len + 1 <= q
            /\ b[j].next = Proto(b[j + b[j].len + 1])
       /\ b[j].k = "hbho" => b[j].len = 0

\* A buffer with such a body.
Formed(u, q) ==
  /\ u \in Buffers /\ Linked(u.body, q)
  /\ Block * q <= u.plen /\ u.proto = Proto(u.body[1])

\* Its two lengths agree.
Measured(u) == u.len = u.plen + IPH

\* It is no longer than the buffer, but for the bytes of an IPv6 header.
Fits(u) == u.len <= BufSize + IPH

\* A hop-by-hop header is the first.
Single(u, q) == \A j \in 2..(q - 1) : u.body[j].k # "hbho"

\* A message of the gateway, perhaps behind an RPL header.
OwnTypes == {"error", "reply", "DIO", "ACK"}
Speaks(u, q) ==
  /\ u.body[q].k = "icmp" /\ u.body[q].type \in OwnTypes
  /\ q <= 2 /\ (q = 2 => u.body[1].k = "hbho" /\ u.body[1].opts[1] = "rpl")

\* Its header, once it was written, and when it comes back.
Written(u, q) ==
  /\ Speaks(u, q)
  /\ q = 2 => u.body[1].opts = <<"rpl">> /\ u.body[1].mine
Inert(u, q) ==
  /\ Written(u, q)
  /\ q = 2 => u.body[1].flags = {} /\ u.body[1].rank = 2

Far(a) == a \notin Mine \cup LinkLocal \cup Multicast
ToLink(u) == UsedPrefix(u.src) /\ u.dst \in LinkLocal \cup Multicast
Asks(u, q) == u.dst \in Mine /\ u.body[q].k = "icmp" /\ u.body[q].type \in {"DIS", "DAO"}

\* The packet is the one that arrived, but for its headers.
Passed(u) ==
  /\ u.src = seen.p.src /\ u.dst = seen.p.dst
  /\ Upper(u) = Upper(seen.p) /\ UpperBytes(u) = UpperBytes(seen.p)

ProcessInv ==
  pc = "process" =>
    /\ caller = "input" /\ uip.ext = 0 /\ Passed(uip) /\ uip.len <= BufSize
    /\ \E q \in 1..Len(uip.body) :
         /\ Formed(uip, q)
         /\ uip.dst \in Mine => q <= 32
         /\ uip.dst \notin Mine => Single(uip, q)
         /\ Asks(uip, q) => q = 1
         /\ ToLink(uip) => (uip.dst \notin Mine /\ uip.proto # "HBHO") \/ Inert(uip, q)

HeadersInv ==
  pc = "headers" =>
    /\ caller = "input" /\ uip.dst \in Mine /\ uip.src = seen.p.src
    /\ Measured(uip)
    /\ \E q \in 1..Len(uip.body) : \E e \in 1..q :
         /\ Formed(uip, q) /\ q <= 32
         /\ uip.ext = Block * (e - 1) /\ uip.next = Proto(uip.body[e])
         /\ Asks(uip, q) => q = 1
         /\ ToLink(uip) => uip.next = "ICMP6" /\ Speaks(uip, q)

\* What is about to be written: a packet that is passed on, ...
Passing(u) == caller = "input" /\ Passed(u) /\ Far(u.dst)
\* ... an answer, ...
Answer(u, q) ==
  /\ caller # "timer" /\ Speaks(u, q)
  /\ u.src \in {Self, SelfLL} /\ u.dst = seen.p.src
  /\ UsedPrefix(u.dst) => u.src = Self
\* ... an error about an answer, which never gets out, or a DIO of the timer.
Bounced(u, q) == caller # "timer" /\ Speaks(u, q) /\ u.src = Self /\ u.dst = Self
Timed(u, q) == caller = "timer" /\ q = 1 /\ u.ext = 0 /\ u.src = SelfLL /\ u.dst = RplNodes

OutputInv ==
  pc = "output" /\ uip.len # 0 =>
    /\ Measured(uip)
    /\ \E q \in 1..Len(uip.body) :
         /\ Formed(uip, q) /\ Single(uip, q)
         /\ Passing(uip) \/ Answer(uip, q) \/ Bounced(uip, q) \/ Timed(uip, q)

BackInv ==
  back # NoPacket =>
    /\ back \in [if : {"tun", "tty"}, p : Buffers] /\ back.p.ext = 0
    /\ back.p.len <= MTU
    /\ \E q \in 1..Len(back.p.body) :
         /\ Formed(back.p, q) /\ Single(back.p, q)
         /\ Far(back.p.dst) \/ Written(back.p, q)

TypeInv ==
  /\ pc \in {"idle", "process", "headers", "output", "end"}
  /\ caller \in {"input", "rpl", "timer"}
  /\ uip \in Buffers
  /\ uip.ext \in {Block * i : i \in 0..Len(uip.body)}
  /\ pc \in {"output", "end"} => uip.len >= 0
  /\ Fits(uip)
  /\ routes \in [Nodes -> Learned]
  /\ pc = "idle" => uip.ext = 0
  /\ pc \in {"process", "headers", "output"} => sent = <<>>
  /\ caller = "timer" /\ pc # "idle" => uip.ext = 0

SentInv == WellFormed /\ PayloadIntact /\ RplStaysInside /\ AnswersGoBack

ForwardInv == TypeInv /\ ProcessInv /\ HeadersInv /\ OutputInv /\ BackInv /\ SentInv

-----------------------------------------------------------------------------
(* Blocks *)

\* The sizes, where arithmetic is done with them.
LEMMA Sizes == IPH = 40 /\ Block = 8 /\ Rank = 1
  BY DEF IPH, Block, Rank

\* A packet of MTU bytes fits, and so does a message without contents.
LEMMA Room ==
  /\ MTU \in Nat /\ MTU >= 56
  /\ \A u \in Buffers : u.len <= MTU => u.len <= BufSize /\ Fits(u)
  /\ \A u \in Buffers : u.len <= BufSize => Fits(u)
<1>1. MTU \in Nat /\ MTU >= 56
  BY SizeAssumption DEF IPH, Block
<1>2. \A u \in Buffers : u.len \in Int
  BY DEF Buffers
<1> QED BY <1>1, <1>2 DEF BufSize, Fits, IPH

\* uip_ext_len counts blocks, whether it wraps or not ...
LEMMA LongerIs ==
  ASSUME NEW i \in Nat
  PROVE  \E j \in 0..(i + 1) : Longer(Block * i, Block) = Block * j
<1> DEFINE n == 8 * i + 8
           k == n \div 256
<1>1. n \in Nat /\ k \in Nat /\ n % 256 = n - 256 * k /\ n % 256 \in 0..255
  OBVIOUS
<1>2. n - 256 * k = 8 * ((i + 1) - 32 * k) /\ (i + 1) - 32 * k \in Int
  BY <1>1
<1> HIDE DEF k
<1>3. (i + 1) - 32 * k \in 0..(i + 1)
  BY <1>1, <1>2
<1>4. Longer(Block * i, Block) = n % 256
  BY Sizes DEF Longer
<1>5. PICK j \in 0..(i + 1) : j = (i + 1) - 32 * k
  BY <1>3
<1>6. n % 256 = 8 * j
  BY <1>1, <1>2, <1>5
<1> QED BY <1>4, <1>5, <1>6, Sizes

\* ... and behind less than 256 bytes it does not.
LEMMA NoWrap == \A n \in 0..255 : n % 256 = n
  OBVIOUS

\* Where the block behind a header begins.
LEMMA Behind ==
  ASSUME NEW e \in Nat, NEW l \in Nat
  PROVE  8 * (e - 1) + (l + 1) * 8 = 8 * ((e + l + 1) - 1)
  OBVIOUS

\* The kinds of a block and what it has.
LEMMA BlockIs ==
  ASSUME NEW h \in Blocks
  PROVE  /\ h.k \in {"hbho", "desto", "routing", "icmp", "quoted", "udp", "frag", "data", "opts"}
         /\ IsHeader(h) => h.next \in Protos /\ h.len \in Nat
         /\ h.k \in {"hbho", "desto"} =>
              h \in [k : {"hbho", "desto"}, next : Protos, len : Nat, opts : Seq(OptionNames),
                     flags : SUBSET FlagNames, mine : BOOLEAN, rank : Nat]
         /\ h.k = "icmp" => h.type \in MessageNames
  BY DEF Blocks, IsHeader

\* The number of a protocol tells the kind of the block that follows.
LEMMA ProtoIs ==
  ASSUME NEW h \in Blocks
  PROVE  /\ Proto(h) \in Protos
         /\ Proto(h) = "HBHO" <=> h.k = "hbho"
         /\ Proto(h) = "DESTO" <=> h.k = "desto"
         /\ Proto(h) = "ROUTING" <=> h.k = "routing"
         /\ Proto(h) = "ICMP6" <=> h.k = "icmp"
  BY BlockIs DEF Proto, Protos

\* Blocks of the gateway's messages.
LEMMA MadeBlocks ==
  /\ \A t \in MessageNames : [k |-> "icmp", type |-> t] \in Blocks
  /\ [k |-> "data"] \in Blocks
  /\ \A u \in Buffers : Quote(u) \in Blocks
  /\ \A f \in SUBSET FlagNames, p \in Protos : [RplOption(f) EXCEPT !.next = p] \in Blocks
<1>1. \A t \in MessageNames : [k |-> "icmp", type |-> t] \in Blocks
  BY DEF Blocks
<1>2. [k |-> "data"] \in Blocks
  BY DEF Blocks
<1>3. \A u \in Buffers : Quote(u) \in Blocks
  BY DEF Blocks, Quote, Buffers
<1>4. ASSUME NEW f \in SUBSET FlagNames, NEW p \in Protos
      PROVE  [RplOption(f) EXCEPT !.next = p] \in Blocks
  <2>1. <<"rpl">> \in Seq(OptionNames) /\ "ICMP6" \in Protos
    BY DEF OptionNames, Protos
  <2>2. RplOption(f) \in [k : {"hbho", "desto"}, next : Protos, len : Nat,
                          opts : Seq(OptionNames), flags : SUBSET FlagNames,
                          mine : BOOLEAN, rank : Nat]
    BY <2>1, Sizes DEF RplOption
  <2> QED BY <2>2 DEF Blocks
<1> QED BY <1>1, <1>2, <1>3, <1>4

\* The header of the gateway.
LEMMA RplOptionIs ==
  ASSUME NEW f \in SUBSET FlagNames, NEW p \in Protos
  PROVE  LET h == [RplOption(f) EXCEPT !.next = p]
         IN  /\ h.k = "hbho" /\ h.next = p /\ h.len = 0 /\ h.opts = <<"rpl">>
             /\ h.mine /\ h.flags = f /\ h.rank = 1
  BY Sizes DEF RplOption

-----------------------------------------------------------------------------
(* Bodies *)

\* The upper layer begins where the chain of headers ends.
LEMMA UpperIs ==
  ASSUME NEW u, NEW q, Linked(u.body, q)
  PROVE  UpperAt(u) = q
<1> DEFINE I == {i \in 1..(Len(u.body) + 1) :
                   i <= Len(u.body) => ~IsHeader(u.body[i]) /\ u.body[i].k # "opts"}
<1>1. q \in I /\ q \in Nat /\ I \subseteq Nat /\ \A i \in I : q <= i
  BY DEF Linked
<1>2. Min(I) \in I /\ \A i \in I : Min(I) <= i
  BY <1>1, MinIs
<1> DEFINE m == Min(I)
<1> HIDE DEF I, m
<1>3. m \in I /\ \A i \in I : m <= i
  BY <1>2 DEF m
<1>4. m = q
  BY <1>1, <1>3
<1> QED BY <1>4 DEF UpperAt, I, m

\* The other way round.
LEMMA WholeIs ==
  ASSUME NEW m, Sound(m)
  PROVE  /\ UpperAt(m.p) \in 1..Len(m.p.body)
         /\ Formed(m.p, UpperAt(m.p))
         /\ m.if = "tun" \/ m.p.len <= BufSize
         /\ m.p.dst \in Mine => UpperAt(m.p) <= 32
         /\ m.p.dst \notin Mine => Single(m.p, UpperAt(m.p))
         /\ Asks(m.p, UpperAt(m.p)) => UpperAt(m.p) = 1
         /\ ToLink(m.p) => m.p.dst \notin Mine /\ m.p.proto # "HBHO"
<1> DEFINE b == m.p.body
           I == {i \in 1..(Len(b) + 1) : i <= Len(b) => ~IsHeader(b[i]) /\ b[i].k # "opts"}
           q == UpperAt(m.p)
<1>1. b \in Seq(Blocks) /\ m.p \in Buffers
  BY DEF Sound, Whole, Buffers
<1>2. Len(b) + 1 \in I /\ I \subseteq Nat
  BY <1>1
<1>3. q \in I /\ \A i \in I : q <= i
  <2>1. Min(I) \in I /\ \A i \in I : Min(I) <= i
    BY <1>2, MinIs
  <2> QED BY <2>1 DEF UpperAt
<1>4. q \in 1..Len(b) /\ ~IsHeader(b[q]) /\ b[q].k # "opts"
  BY <1>1, <1>3 DEF Sound, Whole
<1>5. \A j \in 1..(q - 1) : IsHeader(b[j]) \/ b[j].k = "opts"
  <2>1. SUFFICES ASSUME NEW j \in 1..(q - 1), ~IsHeader(b[j]), b[j].k # "opts" PROVE FALSE
    OBVIOUS
  <2>2. j \in I /\ j < q
    BY <1>1, <1>4, <2>1
  <2> QED BY <1>3, <1>4, <2>2
<1>6. Linked(b, q)
  BY <1>1, <1>4, <1>5 DEF Linked, Sound, Whole
<1>7. Formed(m.p, q)
  BY <1>6 DEF Formed, Sound, Whole
<1> HIDE DEF q
<1>8. m.p.dst \notin Mine => Single(m.p, q)
  BY <1>1, <1>4 DEF Single, Sound, q
<1>9. /\ Asks(m.p, q) => q = 1
      /\ ToLink(m.p) => m.p.dst \notin Mine /\ m.p.proto # "HBHO"
  BY DEF Asks, ToLink, Sound, q
<1>10. m.if = "tun" \/ m.p.len <= BufSize
  BY DEF Sound
<1>11. m.p.dst \in Mine => q <= 32
  <2>1. m.p.dst \in Mine => Block * (q - 1) < 256
    BY DEF Sound, q
  <2> QED BY <1>1, <1>4, <2>1, Sizes
<1> QED BY <1>4, <1>7, <1>8, <1>9, <1>10, <1>11 DEF q

\* Two sequences with the same end.
LEMMA SameEnd ==
  ASSUME NEW S, NEW b \in Seq(S), NEW c \in Seq(S), NEW d \in Int, Len(c) = Len(b) + d,
         NEW q \in 1..Len(b), q + d >= 1, \A i \in q..Len(b) : c[i + d] = b[i]
  PROVE  SubSeq(c, q + d, Len(c)) = SubSeq(b, q, Len(b))
<1> DEFINE x == SubSeq(c, q + d, Len(c))
           y == SubSeq(b, q, Len(b))
<1>1. Len(b) \in Nat /\ Len(c) \in Nat /\ q \in Nat /\ q + d \in Nat
  OBVIOUS
<1>2. /\ x \in Seq(S) /\ Len(x) = Len(c) - (q + d) + 1
      /\ \A i \in 1..(Len(c) - (q + d) + 1) : x[i] = c[q + d + i - 1]
  <2>1. \A i \in (q + d)..Len(c) : c[i] \in S
    BY <1>1
  <2> QED BY SMTT(60), <1>1, <2>1, SubSeqProperties
<1>3. /\ y \in Seq(S) /\ Len(y) = Len(b) - q + 1
      /\ \A i \in 1..(Len(b) - q + 1) : y[i] = b[q + i - 1]
  <2>1. \A i \in q..Len(b) : b[i] \in S
    BY <1>1
  <2> QED BY SMTT(40), <1>1, <2>1, SubSeqProperties
<1>4. Len(x) = Len(y)
  BY <1>1, <1>2, <1>3
<1>5. \A i \in 1..Len(x) : x[i] = y[i]
  <2>1. TAKE i \in 1..Len(x)
  <2>2. q + i - 1 \in q..Len(b) /\ (q + i - 1) + d = q + d + i - 1
    BY <1>1, <1>2, <2>1
  <2>3. x[i] = c[q + d + i - 1] /\ y[i] = b[q + i - 1]
    BY <1>1, <1>2, <1>3, <2>1
  <2> QED BY <2>2, <2>3
<1> HIDE DEF x, y
<1>6. x = y
  BY <1>2, <1>3, <1>4, <1>5, SeqEqual
<1> QED BY <1>6 DEF x, y

\* Where the upper layer of a buffer begins, and how long it is.
LEMMA FormedUpper ==
  ASSUME NEW u, NEW q, Formed(u, q)
  PROVE  UpperAt(u) = q /\ Upper(u) = SubSeq(u.body, q, Len(u.body))
         /\ UpperBytes(u) = u.plen - Block * (q - 1)
  BY UpperIs DEF Formed, Upper, UpperBytes

\* The one hop-by-hop header of a body, and what follows it.
LEMMA HbhoIs ==
  ASSUME NEW b, NEW q, Linked(b, q), b[1].k = "hbho"
  PROVE  q >= 2 /\ b[1] \in Blocks /\ b[1].len = 0 /\ b[1].next = Proto(b[2])
<1>1. q # 1
  BY DEF Linked, IsHeader
<1>2. b \in Seq(Blocks) /\ q \in 1..Len(b) /\ Len(b) \in Nat
  BY DEF Linked
<1>3. 1 \in 1..(q - 1) /\ IsHeader(b[1]) /\ b[1] \in Blocks
  BY <1>1, <1>2 DEF IsHeader
<1>4. b[1].len = 0 /\ b[1].next = Proto(b[1 + b[1].len + 1])
  BY <1>3 DEF Linked
<1> QED BY <1>1, <1>2, <1>3, <1>4

\* A header is put in front.
LEMMA LinkedCons ==
  ASSUME NEW b, NEW q, Linked(b, q), NEW h \in Blocks,
         h.k = "hbho", h.len = 0, h.next = Proto(b[1])
  PROVE  LET c == <<h>> \o b
         IN  /\ Linked(c, q + 1) /\ Len(c) = Len(b) + 1
             /\ c[1] = h /\ \A i \in 1..Len(b) : c[i + 1] = b[i]
             /\ SubSeq(c, q + 1, Len(c)) = SubSeq(b, q, Len(b))
<1> DEFINE c == <<h>> \o b
<1>1. b \in Seq(Blocks) /\ q \in 1..Len(b) /\ Len(b) \in Nat
  BY DEF Linked
<1>2. c \in Seq(Blocks) /\ Len(c) = Len(b) + 1 /\ c[1] = h /\ \A i \in 1..Len(b) : c[i + 1] = b[i]
  BY <1>1
<1> HIDE DEF c
<1>3. SubSeq(c, q + 1, Len(c)) = SubSeq(b, q, Len(b))
  <2>1. q + 1 >= 1 /\ \A i \in q..Len(b) : c[i + 1] = b[i]
    BY <1>1, <1>2
  <2> QED BY <1>1, <1>2, <2>1, SameEnd
<1>4. ~IsHeader(c[q + 1]) /\ c[q + 1].k # "opts" /\ q + 1 \in 1..Len(c)
  BY <1>1, <1>2 DEF Linked
<1>5. ASSUME NEW j \in 1..q
      PROVE  /\ IsHeader(c[j]) \/ c[j].k = "opts"
             /\ IsHeader(c[j]) => /\ j + c[j].len + 1 <= q + 1
                                  /\ c[j].next = Proto(c[j + c[j].len + 1])
             /\ c[j].k = "hbho" => c[j].len = 0
  <2>1. CASE j = 1
    BY <1>1, <1>2, <2>1 DEF IsHeader
  <2>2. CASE j # 1
    <3>0. j - 1 \in 1..(q - 1) /\ j - 1 \in 1..Len(b) /\ (j - 1) + 1 = j
      BY <1>1, <2>2
    <3>1. j - 1 \in 1..(q - 1) /\ j - 1 \in 1..Len(b) /\ c[j] = b[j - 1]
      <4>1. c[(j - 1) + 1] = b[j - 1]
        BY <1>2, <3>0
      <4> QED BY <3>0, <4>1
    <3>2. /\ IsHeader(b[j - 1]) \/ b[j - 1].k = "opts"
          /\ IsHeader(b[j - 1]) => /\ (j - 1) + b[j - 1].len + 1 <= q
                                   /\ b[j - 1].next = Proto(b[(j - 1) + b[j - 1].len + 1])
          /\ b[j - 1].k = "hbho" => b[j - 1].len = 0
      BY <3>1 DEF Linked
    <3>3. ASSUME IsHeader(b[j - 1])
          PROVE  /\ j + c[j].len + 1 <= q + 1
                 /\ c[j].next = Proto(c[j + c[j].len + 1])
      <4> DEFINE l == b[j - 1].len
                 n == (j - 1) + l + 1
      <4>1. l \in Nat
        BY <1>1, <3>1, <3>3, BlockIs
      <4>2. n <= q /\ c[j].len = l /\ c[j].next = Proto(b[n])
        BY <3>1, <3>2, <3>3
      <4> HIDE DEF l
      <4>3. n \in 1..Len(b) /\ n + 1 = j + l + 1 /\ n + 1 <= q + 1
        <5>1. j \in Nat /\ j - 1 >= 1 /\ q \in Nat /\ q <= Len(b) /\ Len(b) \in Nat
          BY <1>1, <3>0
        <5>2. (j - 1) + l + 1 <= q
          BY <4>2
        <5>3. (j - 1) + l + 1 \in Nat /\ (j - 1) + l + 1 >= 1
          BY <4>1, <5>1
        <5> QED BY <4>1, <5>1, <5>2, <5>3
      <4> HIDE DEF n
      <4>4. c[n + 1] = b[n]
        BY <1>2, <4>3
      <4> QED BY <4>2, <4>3, <4>4 DEF n
    <3> QED BY <3>1, <3>2, <3>3
  <2> QED BY <2>1, <2>2
<1>6. Linked(c, q + 1)
  <2>1. (q + 1) - 1 = q
    BY <1>1
  <2> QED BY <1>2, <1>4, <1>5, <2>1 DEF Linked
<1> QED BY <1>2, <1>3, <1>6 DEF c

\* ... and taken away.
LEMMA LinkedTail ==
  ASSUME NEW b, NEW q, Linked(b, q), b[1].k = "hbho"
  PROVE  LET c == Tail(b)
         IN  /\ q >= 2 /\ Linked(c, q - 1) /\ Len(c) = Len(b) - 1
             /\ b[1].next = Proto(c[1]) /\ \A i \in 1..(Len(b) - 1) : c[i] = b[i + 1]
             /\ SubSeq(c, q - 1, Len(c)) = SubSeq(b, q, Len(b))
<1> DEFINE c == Tail(b)
<1>1. b \in Seq(Blocks) /\ q \in 1..Len(b) /\ Len(b) \in Nat /\ q >= 2
  BY HbhoIs DEF Linked
<1>2. c \in Seq(Blocks) /\ Len(c) = Len(b) - 1 /\ \A i \in 1..(Len(b) - 1) : c[i] = b[i + 1]
  <2>1. b # <<>>
    BY <1>1
  <2> QED BY <1>1, <2>1, HeadTailProperties
<1> HIDE DEF c
<1>3. SubSeq(c, q - 1, Len(c)) = SubSeq(b, q, Len(b))
  <2>1. q + -1 >= 1 /\ Len(c) = Len(b) + -1 /\ -1 \in Int /\ \A i \in q..Len(b) : c[i + -1] = b[i]
    BY <1>1, <1>2
  <2>2. SubSeq(c, q + -1, Len(c)) = SubSeq(b, q, Len(b))
    BY <1>1, <1>2, <2>1, SameEnd
  <2> QED BY <1>1, <2>2
<1>4. ~IsHeader(c[q - 1]) /\ c[q - 1].k # "opts" /\ q - 1 \in 1..Len(c)
  BY <1>1, <1>2 DEF Linked
<1>5. ASSUME NEW j \in 1..(q - 2)
      PROVE  /\ IsHeader(c[j]) \/ c[j].k = "opts"
             /\ IsHeader(c[j]) => /\ j + c[j].len + 1 <= q - 1
                                  /\ c[j].next = Proto(c[j + c[j].len + 1])
             /\ c[j].k = "hbho" => c[j].len = 0
  <2>1. j + 1 \in 1..(q - 1) /\ j \in 1..(Len(b) - 1) /\ c[j] = b[j + 1]
    BY <1>1, <1>2
  <2>2. /\ IsHeader(b[j + 1]) \/ b[j + 1].k = "opts"
        /\ IsHeader(b[j + 1]) => /\ (j + 1) + b[j + 1].len + 1 <= q
                                 /\ b[j + 1].next = Proto(b[(j + 1) + b[j + 1].len + 1])
        /\ b[j + 1].k = "hbho" => b[j + 1].len = 0
    BY <2>1 DEF Linked
  <2>3. ASSUME IsHeader(b[j + 1])
        PROVE  /\ j + c[j].len + 1 <= q - 1
               /\ c[j].next = Proto(c[j + c[j].len + 1])
    <3> DEFINE l == b[j + 1].len
               n == j + l + 1
    <3>1. l \in Nat
      BY <1>1, <2>1, <2>3, BlockIs
    <3>2. (j + 1) + l + 1 <= q /\ c[j].len = l /\ c[j].next = Proto(b[(j + 1) + l + 1])
      BY <2>1, <2>2, <2>3
    <3> HIDE DEF l
    <3>3. n \in 1..(Len(b) - 1) /\ n + 1 = (j + 1) + l + 1 /\ n <= q - 1
      <4>1. j \in Nat /\ j >= 1 /\ q \in Nat /\ q <= Len(b) /\ Len(b) \in Nat
        BY <1>1
      <4>2. (j + 1) + l + 1 <= q
        BY <3>2
      <4>3. j + l + 1 \in Nat /\ j + l + 1 >= 1
        BY <3>1, <4>1
      <4> QED BY <3>1, <4>1, <4>2, <4>3
    <3> HIDE DEF n
    <3>4. c[n] = b[n + 1]
      BY <1>2, <3>3
    <3> QED BY <3>2, <3>3, <3>4 DEF n
  <2> QED BY <2>1, <2>2, <2>3
<1>6. Linked(c, q - 1)
  <2>1. (q - 1) - 1 = q - 2
    BY <1>1
  <2> QED BY <1>2, <1>4, <1>5, <2>1 DEF Linked
<1>7. b[1].next = Proto(c[1])
  <2>1. b[1].next = Proto(b[2]) /\ c[1] = b[2]
    BY <1>1, <1>2, HbhoIs
  <2> QED BY <2>1
<1> QED BY <1>1, <1>2, <1>3, <1>6, <1>7 DEF c

\* A header is changed in place.
LEMMA LinkedSwap ==
  ASSUME NEW b, NEW q, Linked(b, q), NEW c \in Seq(Blocks), Len(c) = Len(b),
         NEW i \in 1..(q - 1), \A j \in 1..Len(b) : j # i => c[j] = b[j],
         IsHeader(b[i]), c[i].k = b[i].k, c[i].len = b[i].len, c[i].next = b[i].next
  PROVE  /\ Linked(c, q)
         /\ \A j \in 1..Len(b) : c[j].k = b[j].k
         /\ SubSeq(c, q, Len(c)) = SubSeq(b, q, Len(b))
<1>1. b \in Seq(Blocks) /\ q \in 1..Len(b) /\ Len(b) \in Nat
  BY DEF Linked
<1>2. /\ c \in Seq(Blocks) /\ Len(c) = Len(b)
      /\ \A j \in 1..Len(b) : j # i => c[j] = b[j]
  OBVIOUS
<1>3. \A j \in 1..Len(b) : c[j].k = b[j].k /\ (IsHeader(b[j]) => c[j].len = b[j].len /\ c[j].next = b[j].next)
  BY <1>2
<1>4. \A j \in 1..Len(b) : Proto(c[j]) = Proto(b[j]) /\ (IsHeader(c[j]) <=> IsHeader(b[j]))
  BY <1>3 DEF Proto, IsHeader
<1>5. SubSeq(c, q, Len(c)) = SubSeq(b, q, Len(b))
  <2>1. \A j \in q..Len(b) : c[j + 0] = b[j]
    BY <1>1, <1>2
  <2>2. Len(c) = Len(b) + 0 /\ q + 0 = q /\ 0 \in Int /\ q + 0 >= 1
    BY <1>1, <1>2
  <2>3. SubSeq(c, q + 0, Len(c)) = SubSeq(b, q, Len(b))
    BY <1>1, <1>2, <2>1, <2>2, SameEnd
  <2> QED BY <2>2, <2>3
<1>6. ASSUME NEW j \in 1..(q - 1)
      PROVE  /\ IsHeader(c[j]) \/ c[j].k = "opts"
             /\ IsHeader(c[j]) => /\ j + c[j].len + 1 <= q
                                  /\ c[j].next = Proto(c[j + c[j].len + 1])
             /\ c[j].k = "hbho" => c[j].len = 0
  <2>1. /\ IsHeader(b[j]) \/ b[j].k = "opts"
        /\ IsHeader(b[j]) => /\ j + b[j].len + 1 <= q
                             /\ b[j].next = Proto(b[j + b[j].len + 1])
        /\ b[j].k = "hbho" => b[j].len = 0
    BY DEF Linked
  <2>2. j \in 1..Len(b)
    BY <1>1
  <2>3. ASSUME IsHeader(b[j]) PROVE j + b[j].len + 1 \in 1..Len(b)
    <3>1. b[j].len \in Nat
      BY <1>1, <2>2, <2>3, BlockIs
    <3> QED BY <1>1, <2>1, <2>3, <3>1
  <2>4. b[j].k = "hbho" => IsHeader(b[j])
    BY DEF IsHeader
  <2> QED BY <1>3, <1>4, <2>1, <2>2, <2>3, <2>4
<1>7. Linked(c, q)
  BY <1>1, <1>2, <1>3, <1>4, <1>6 DEF Linked
<1> QED BY <1>3, <1>5, <1>7

\* A message of the gateway, without header or behind the RPL header.
LEMMA LinkedMade ==
  ASSUME NEW c \in Seq(Blocks), NEW q \in {1, 2}, Len(c) >= q, c[q].k = "icmp",
         q = 2 => c[1].k = "hbho" /\ c[1].len = 0 /\ c[1].next = "ICMP6"
  PROVE  Linked(c, q) /\ Proto(c[1]) = IF q = 2 THEN "HBHO" ELSE "ICMP6"
<1>1. q \in 1..Len(c) /\ Len(c) \in Nat /\ c[1] \in Blocks /\ c[q] \in Blocks
  OBVIOUS
<1>2. ~IsHeader(c[q]) /\ c[q].k # "opts" /\ Proto(c[q]) = "ICMP6"
  BY <1>1, ProtoIs DEF IsHeader
<1>3. CASE q = 1
  BY <1>1, <1>2, <1>3 DEF Linked
<1>4. CASE q = 2
  BY <1>1, <1>2, <1>4, ProtoIs DEF Linked, IsHeader
<1> QED BY <1>3, <1>4

-----------------------------------------------------------------------------
(* The operators on the buffer *)

ExtIn(u) == u.ext \in {Block * i : i \in 0..Len(u.body)}

\* Who speaks to whom stays the same, and what is said.
Keeps(u, v) ==
  /\ v.src = u.src /\ v.dst = u.dst
  /\ Upper(v) = Upper(u) /\ UpperBytes(v) = UpperBytes(u)

\* The fields of a buffer.
LEMMA BufferIs ==
  ASSUME NEW u \in Buffers
  PROVE  /\ u.version \in Nat /\ u.src \in Addresses /\ u.dst \in Addresses
         /\ u.ttl \in 0..255 /\ u.proto \in Protos /\ u.plen \in Nat
         /\ u.body \in Seq(Blocks) /\ u.len \in Int /\ u.ext \in Nat
         /\ u.bitmap \in SUBSET {"HBHO", "DESTO1", "DESTO2", "ROUTING"} /\ u.next \in Protos
  BY DEF Buffers

\* What a buffer with a chain of headers has.
LEMMA FormedIs ==
  ASSUME NEW u, NEW q, Formed(u, q)
  PROVE  /\ u \in Buffers /\ u.body \in Seq(Blocks) /\ Len(u.body) \in Nat
         /\ q \in 1..Len(u.body) /\ q \in Nat /\ u.plen \in Nat /\ Block * q <= u.plen
         /\ Linked(u.body, q) /\ u.proto = Proto(u.body[1]) /\ u.proto \in Protos
         /\ u.body[1] \in Blocks /\ u.body[q] \in Blocks
         /\ u.proto = "HBHO" <=> u.body[1].k = "hbho"
<1>1. u \in Buffers /\ Linked(u.body, q) /\ Block * q <= u.plen /\ u.proto = Proto(u.body[1])
  BY DEF Formed
<1>2. u.body \in Seq(Blocks) /\ q \in 1..Len(u.body)
  BY <1>1 DEF Linked
<1>3. Len(u.body) \in Nat /\ q \in Nat /\ 1 \in 1..Len(u.body)
  BY <1>2
<1>4. u.body[1] \in Blocks /\ u.body[q] \in Blocks
  BY <1>2, <1>3
<1> QED BY <1>1, <1>2, <1>3, <1>4, BufferIs, ProtoIs

\* rpl_add_header: the header of the gateway, or another that was there before.
LEMMA AddIs ==
  ASSUME NEW u, NEW q, Formed(u, q), Single(u, q), ExtIn(u)
  PROVE  LET v == rpl_add_header(u)
         IN  /\ \E p \in {q, q + 1} : /\ Formed(v, p) /\ Single(v, p)
                                      /\ Speaks(u, q) => Written(v, p)
             /\ ExtIn(v) /\ Keeps(u, v) /\ v.len - v.plen = u.len - u.plen
             /\ v.len \in {u.len, u.len + Block} /\ v.plen >= u.plen
             /\ u.len <= MTU => v.len <= MTU
             /\ \/ /\ v.proto = "HBHO" /\ v.body[1].opts[1] = "rpl"
                   /\ v.body[1].flags = {"DOWN"} /\ v.body[1].rank = Rank
                \/ v.proto # "HBHO" /\ v.len + Block > MTU
                \/ v.proto = "HBHO" /\ v.body[1].opts[1] # "rpl"
<1> DEFINE v == rpl_add_header(u)
           P(p) == /\ Formed(v, p) /\ Single(v, p)
                   /\ Speaks(u, q) => Written(v, p)
<1>1. /\ u \in Buffers /\ u.body \in Seq(Blocks) /\ Len(u.body) \in Nat
      /\ q \in 1..Len(u.body) /\ q \in Nat /\ u.plen \in Nat /\ Block * q <= u.plen
      /\ Linked(u.body, q) /\ u.proto = Proto(u.body[1]) /\ u.proto \in Protos
      /\ u.body[1] \in Blocks /\ u.len \in Int /\ u.ext \in Nat
      /\ u.proto = "HBHO" <=> u.body[1].k = "hbho"
  BY FormedIs, BufferIs
<1>2. /\ UpperAt(u) = q /\ Upper(u) = SubSeq(u.body, q, Len(u.body))
      /\ UpperBytes(u) = u.plen - Block * (q - 1)
  BY FormedUpper
<1>3. CASE u.proto = "HBHO" /\ u.body[1].len = 0 /\ FirstIsRpl(u)
  <2> DEFINE h == [RplOption({"DOWN"}) EXCEPT !.next = u.body[1].next]
             c == [u.body EXCEPT ![1] = h]
  <2>1. /\ h \in Blocks /\ h.k = "hbho" /\ h.next = u.body[1].next /\ h.len = 0
        /\ h.opts = <<"rpl">> /\ h.mine /\ h.flags = {"DOWN"} /\ h.rank = 1
    <3>1. u.body[1].next \in Protos /\ {"DOWN"} \in SUBSET FlagNames
      BY <1>1, <1>3, BlockIs DEF FlagNames, IsHeader
    <3> QED BY <3>1, MadeBlocks, RplOptionIs
  <2> HIDE DEF h
  <2>2. v = [u EXCEPT !.body = c]
    BY <1>3 DEF rpl_add_header, h
  <2>3. /\ Linked(c, q) /\ Len(c) = Len(u.body)
        /\ \A j \in 1..Len(u.body) : c[j].k = u.body[j].k
        /\ \A j \in 1..Len(u.body) : j # 1 => c[j] = u.body[j]
        /\ c[1] = h
        /\ SubSeq(c, q, Len(c)) = SubSeq(u.body, q, Len(u.body))
    <3>1. q >= 2 /\ u.body[1].k = "hbho" /\ IsHeader(u.body[1])
      BY <1>1, <1>3, HbhoIs DEF IsHeader
    <3>2. 1 \in 1..(q - 1) /\ 1 \in 1..Len(u.body)
      BY <1>1, <3>1
    <3>3. /\ c \in Seq(Blocks) /\ Len(c) = Len(u.body) /\ c[1] = h
          /\ \A j \in 1..Len(u.body) : j # 1 => c[j] = u.body[j]
      BY <1>1, <2>1, <3>2
    <3> HIDE DEF c
    <3>4. c[1].k = u.body[1].k /\ c[1].len = u.body[1].len /\ c[1].next = u.body[1].next
      BY <1>3, <2>1, <3>1, <3>3
    <3>5. /\ Linked(c, q) /\ \A j \in 1..Len(u.body) : c[j].k = u.body[j].k
          /\ SubSeq(c, q, Len(c)) = SubSeq(u.body, q, Len(u.body))
      BY <1>1, <3>1, <3>2, <3>3, <3>4, LinkedSwap
    <3> QED BY <3>3, <3>5
  <2>4. c \in Seq(Blocks)
    BY <2>3 DEF Linked
  <2> HIDE DEF c
  <2>5. /\ v \in Buffers /\ v.body = c /\ v.proto = u.proto /\ v.plen = u.plen
        /\ v.len = u.len /\ v.src = u.src /\ v.dst = u.dst /\ v.ext = u.ext
    BY <1>1, <2>2, <2>4 DEF Buffers
  <2> HIDE DEF v
  <2>6. Proto(c[1]) = "HBHO"
    BY <2>1, <2>3, ProtoIs
  <2>7. Formed(v, q)
    BY <1>1, <1>3, <2>3, <2>5, <2>6 DEF Formed
  <2>8. Single(v, q)
    BY <1>1, <2>3, <2>5 DEF Single
  <2>9. Speaks(u, q) => Written(v, q)
    <3>1. q >= 2
      BY <1>1, <1>3, HbhoIs
    <3>2. c[q] = u.body[q]
      BY <1>1, <2>3, <3>1
    <3> QED BY <2>1, <2>3, <2>5, <3>2 DEF Speaks, Written
  <2>10. Keeps(u, v)
    <3>1. Upper(v) = SubSeq(v.body, q, Len(v.body)) /\ UpperBytes(v) = v.plen - Block * (q - 1)
      BY <2>7, FormedUpper
    <3> QED BY <1>2, <2>3, <2>5, <3>1 DEF Keeps
  <2>11. ExtIn(v)
    BY <2>3, <2>5 DEF ExtIn
  <2>12. v.body[1].opts[1] = "rpl"
    BY <2>1, <2>3, <2>5
  <2>13. P(q)
    BY <2>7, <2>8, <2>9
  <2>14. v.proto = "HBHO" /\ v.body[1].flags = {"DOWN"} /\ v.body[1].rank = Rank
    BY <1>3, <2>1, <2>3, <2>5, Sizes
  <2> HIDE DEF P
  <2>15. v.len - v.plen = u.len - u.plen /\ v.plen >= u.plen
    BY <1>1, <2>5
  <2> QED BY <2>5, <2>10, <2>11, <2>12, <2>13, <2>14, <2>15 DEF P, v
<1>4. CASE u.proto = "HBHO" /\ ~(u.body[1].len = 0 /\ FirstIsRpl(u))
  <2>1. v = u
    BY <1>4 DEF rpl_add_header
  <2>2. u.body[1].len = 0 /\ q >= 2
    BY <1>1, <1>4, HbhoIs
  <2>3. u.body[1].opts[1] # "rpl"
    BY <1>4, <2>2 DEF FirstIsRpl
  <2>4. ~Speaks(u, q)
    BY <2>2, <2>3, <1>1 DEF Speaks
  <2> QED BY <1>1, <1>4, <2>1, <2>3, <2>4 DEF Keeps
<1>5. CASE u.proto # "HBHO" /\ u.len + Block > MTU
  <2>1. v = u
    BY <1>5 DEF rpl_add_header
  <2>2. Speaks(u, q) => Written(u, q)
    BY <1>1, <1>5 DEF Speaks, Written
  <2> QED BY <1>1, <1>5, <2>1, <2>2 DEF Keeps
<1>6. CASE u.proto # "HBHO" /\ ~(u.len + Block > MTU)
  <2> DEFINE h == [RplOption({"DOWN"}) EXCEPT !.next = u.proto]
             c == <<h>> \o u.body
  <2>1. /\ h \in Blocks /\ h.k = "hbho" /\ h.next = u.proto /\ h.len = 0
        /\ h.opts = <<"rpl">> /\ h.mine /\ h.flags = {"DOWN"} /\ h.rank = 1
    <3>1. {"DOWN"} \in SUBSET FlagNames
      BY DEF FlagNames
    <3> QED BY <1>1, <3>1, MadeBlocks, RplOptionIs
  <2> HIDE DEF h
  <2>2. v = [u EXCEPT !.body = c, !.proto = "HBHO", !.len = u.len + Block,
                      !.plen = u.plen + Block, !.ext = Longer(u.ext, Block)]
    BY <1>6 DEF rpl_add_header, h
  <2>3. /\ Linked(c, q + 1) /\ Len(c) = Len(u.body) + 1
        /\ c[1] = h /\ \A i \in 1..Len(u.body) : c[i + 1] = u.body[i]
        /\ SubSeq(c, q + 1, Len(c)) = SubSeq(u.body, q, Len(u.body))
    <3>1. Linked(u.body, q) /\ h \in Blocks /\ h.k = "hbho" /\ h.len = 0 /\ h.next = Proto(u.body[1])
      BY <1>1, <2>1
    <3> QED BY ZenonT(60), <3>1, LinkedCons
  <2>4. c \in Seq(Blocks)
    BY <2>3 DEF Linked
  <2> HIDE DEF c
  <2>5. /\ v \in Buffers /\ v.body = c /\ v.proto = "HBHO" /\ v.plen = u.plen + 8
        /\ v.len = u.len + 8 /\ v.src = u.src /\ v.dst = u.dst /\ v.ext = Longer(u.ext, Block)
    <3> DEFINE l == u.len + 8
               n == u.plen + 8
               e == Longer(u.ext, Block)
    <3>0. e \in Nat
      BY <1>1, Sizes DEF Longer
    <3>1. l \in Int /\ n \in Nat /\ e \in Nat /\ "HBHO" \in Protos
      BY <1>1, <3>0 DEF Protos
    <3>2. v = [u EXCEPT !.body = c, !.proto = "HBHO", !.len = l, !.plen = n, !.ext = e]
      BY <2>2, Sizes
    <3> HIDE DEF v, l, n, e
    <3>3. /\ v \in Buffers /\ v.body = c /\ v.proto = "HBHO" /\ v.plen = n
          /\ v.len = l /\ v.src = u.src /\ v.dst = u.dst /\ v.ext = e
      BY ZenonT(60), <1>1, <2>4, <3>1, <3>2 DEF Buffers
    <3> QED BY <3>3 DEF l, n, e
  <2> HIDE DEF v
  <2>6. Proto(c[1]) = "HBHO"
    BY <2>1, <2>3, ProtoIs
  <2>7. Formed(v, q + 1)
    BY <1>1, <2>3, <2>5, <2>6, Sizes DEF Formed
  <2>8. Single(v, q + 1)
    <3>1. SUFFICES ASSUME NEW j \in 2..q PROVE c[j].k # "hbho"
      BY <1>1, <2>5 DEF Single
    <3>2. j - 1 \in 1..Len(u.body) /\ (j - 1) + 1 = j /\ (j - 1 # 1 => j - 1 \in 2..(q - 1))
      BY <1>1
    <3>3. c[j] = u.body[j - 1]
      BY <2>3, <3>2
    <3> QED BY <1>1, <1>6, <3>2, <3>3 DEF Single
  <2>9. Speaks(u, q) => Written(v, q + 1)
    <3>1. ASSUME Speaks(u, q) PROVE Written(v, q + 1)
      <4>1. q = 1
        BY <1>1, <1>6, <3>1 DEF Speaks
      <4>2. c[2] = u.body[1]
        BY <1>1, <2>3, <4>1
      <4> QED BY <2>1, <2>3, <2>5, <3>1, <4>1, <4>2 DEF Speaks, Written
    <3> QED BY <3>1
  <2>10. Keeps(u, v)
    <3>1. Upper(v) = SubSeq(v.body, q + 1, Len(v.body)) /\ UpperBytes(v) = v.plen - Block * ((q + 1) - 1)
      BY <2>7, FormedUpper
    <3>2. (u.plen + 8) - Block * ((q + 1) - 1) = u.plen - Block * (q - 1)
      BY <1>1, Sizes
    <3> QED BY <1>2, <2>3, <2>5, <3>1, <3>2 DEF Keeps
  <2>11. ExtIn(v)
    <3>1. PICK i \in 0..Len(u.body) : u.ext = Block * i
      BY DEF ExtIn
    <3>2. PICK j \in 0..(i + 1) : Longer(Block * i, Block) = Block * j
      BY <1>1, <3>1, LongerIs
    <3>3. j \in 0..Len(c) /\ v.ext = Block * j
      BY <1>1, <2>3, <2>5, <3>1, <3>2
    <3> QED BY <2>5, <3>3 DEF ExtIn
  <2>12. v.body[1].opts[1] = "rpl"
    BY <2>1, <2>3, <2>5
  <2>13. P(q + 1)
    BY <2>7, <2>8, <2>9
  <2>14. v.proto = "HBHO" /\ v.body[1].flags = {"DOWN"} /\ v.body[1].rank = Rank
    BY <2>1, <2>3, <2>5, Sizes
  <2> HIDE DEF P
  <2>15. /\ v.len - v.plen = u.len - u.plen /\ v.plen >= u.plen /\ v.len = u.len + Block
         /\ v.len <= MTU
    <3>1. /\ v.len = u.len + 8 /\ v.plen = u.plen + 8 /\ u.len \in Int /\ u.plen \in Nat
      BY <1>1, <2>5
    <3> QED BY <1>6, <3>1, Sizes, Room
  <2> QED BY <2>5, <2>10, <2>11, <2>12, <2>13, <2>14, <2>15 DEF P, v
<1> QED BY <1>3, <1>4, <1>5, <1>6

\* rpl_remove_header, of a header of 8 bytes.
LEMMA RemoveIs ==
  ASSUME NEW u, NEW q, Formed(u, q)
  PROVE  LET v == rpl_remove_header(u)
         IN  /\ \E p \in {q, q - 1} :
                  /\ Formed(v, p) /\ v.body[p] = u.body[q]
                  /\ u.proto = "HBHO" => p = q - 1
                  /\ u.proto # "HBHO" => p = q /\ v.proto = u.proto /\ v.body = u.body
                  /\ Single(u, q) => Single(v, p) /\ v.proto # "HBHO"
             /\ v.ext = 0 /\ Keeps(u, v) /\ v.len - v.plen = u.len - u.plen
             /\ v.len <= u.len
<1> DEFINE v == rpl_remove_header(u)
           P(p) == /\ Formed(v, p) /\ v.body[p] = u.body[q]
                   /\ u.proto = "HBHO" => p = q - 1
                   /\ u.proto # "HBHO" => p = q /\ v.proto = u.proto /\ v.body = u.body
                   /\ Single(u, q) => Single(v, p) /\ v.proto # "HBHO"
<1>1. /\ u \in Buffers /\ u.body \in Seq(Blocks) /\ Len(u.body) \in Nat
      /\ q \in 1..Len(u.body) /\ q \in Nat /\ u.plen \in Nat /\ Block * q <= u.plen
      /\ Linked(u.body, q) /\ u.proto = Proto(u.body[1]) /\ u.proto \in Protos
      /\ u.body[1] \in Blocks /\ u.len \in Int /\ u.ext \in Nat
      /\ u.proto = "HBHO" <=> u.body[1].k = "hbho"
  BY FormedIs, BufferIs
<1>2. /\ UpperAt(u) = q /\ Upper(u) = SubSeq(u.body, q, Len(u.body))
      /\ UpperBytes(u) = u.plen - Block * (q - 1)
  BY FormedUpper
<1>3. CASE u.proto # "HBHO"
  <2>1. v = [u EXCEPT !.ext = 0]
    BY <1>3 DEF rpl_remove_header
  <2>2. /\ v \in Buffers /\ v.body = u.body /\ v.proto = u.proto /\ v.plen = u.plen
        /\ v.len = u.len /\ v.src = u.src /\ v.dst = u.dst /\ v.ext = 0
    <3> HIDE DEF v
    <3> QED BY <1>1, <2>1 DEF Buffers
  <2> HIDE DEF v
  <2>3. Formed(v, q)
    BY <1>1, <2>2 DEF Formed
  <2>4. Upper(v) = SubSeq(v.body, q, Len(v.body)) /\ UpperBytes(v) = v.plen - Block * (q - 1)
    BY <2>3, FormedUpper
  <2>5. Keeps(u, v)
    BY <1>2, <2>2, <2>4 DEF Keeps
  <2>6. Single(u, q) => Single(v, q)
    BY <2>2 DEF Single
  <2>7. P(q)
    BY <1>3, <2>2, <2>3, <2>6
  <2> HIDE DEF P
  <2> QED BY <1>1, <2>2, <2>5, <2>7 DEF P, v
<1>4. CASE u.proto = "HBHO"
  <2> DEFINE c == Tail(u.body)
  <2>1. u.body[1].len = 0 /\ u.body[1].next \in Protos
    BY <1>1, <1>4, HbhoIs, BlockIs DEF IsHeader
  <2>2. v = [u EXCEPT !.proto = u.body[1].next, !.len = u.len - 8,
                      !.plen = u.plen - 8, !.body = c, !.ext = 0]
    BY <1>4, <2>1, Sizes DEF rpl_remove_header
  <2>3. /\ q >= 2 /\ Linked(c, q - 1) /\ Len(c) = Len(u.body) - 1
        /\ u.body[1].next = Proto(c[1]) /\ \A i \in 1..(Len(u.body) - 1) : c[i] = u.body[i + 1]
        /\ SubSeq(c, q - 1, Len(c)) = SubSeq(u.body, q, Len(u.body))
    BY <1>1, <1>4, LinkedTail
  <2>4. c \in Seq(Blocks)
    BY <2>3 DEF Linked
  <2> HIDE DEF c
  <2>5. u.plen - 8 \in Nat /\ u.plen - 8 >= 8 * (q - 1)
    BY <1>1, <2>3, Sizes
  <2>6. /\ v \in Buffers /\ v.body = c /\ v.proto = u.body[1].next /\ v.plen = u.plen - 8
        /\ v.len = u.len - 8 /\ v.src = u.src /\ v.dst = u.dst /\ v.ext = 0
    <3> DEFINE l == u.len - 8
               n == u.plen - 8
               p == u.body[1].next
    <3>1. l \in Int /\ n \in Nat /\ p \in Protos
      BY <1>1, <2>1, <2>5
    <3>2. v = [u EXCEPT !.proto = p, !.len = l, !.plen = n, !.body = c, !.ext = 0]
      BY <2>2
    <3> HIDE DEF v, l, n, p
    <3>3. /\ v \in Buffers /\ v.body = c /\ v.proto = p /\ v.plen = n
          /\ v.len = l /\ v.src = u.src /\ v.dst = u.dst /\ v.ext = 0
      BY <1>1, <2>4, <3>1, <3>2 DEF Buffers
    <3> QED BY <3>3 DEF l, n, p
  <2> HIDE DEF v
  <2>7. Formed(v, q - 1)
    BY <2>3, <2>5, <2>6, Sizes DEF Formed
  <2>8. c[q - 1] = u.body[q]
    <3>1. q - 1 \in 1..(Len(u.body) - 1) /\ (q - 1) + 1 = q
      BY <1>1, <2>3
    <3> QED BY <2>3, <3>1
  <2>9. Keeps(u, v)
    <3>1. Upper(v) = SubSeq(v.body, q - 1, Len(v.body)) /\ UpperBytes(v) = v.plen - Block * ((q - 1) - 1)
      BY <2>7, FormedUpper
    <3>2. (u.plen - 8) - Block * ((q - 1) - 1) = u.plen - Block * (q - 1)
      BY <1>1, Sizes
    <3> QED BY <1>2, <2>3, <2>6, <3>1, <3>2 DEF Keeps
  <2>10. Single(u, q) => Single(v, q - 1) /\ v.proto # "HBHO"
    <3>1. ASSUME Single(u, q) PROVE \A j \in 1..(q - 2) : c[j].k # "hbho"
      <4>1. TAKE j \in 1..(q - 2)
      <4>2. j \in 1..(Len(u.body) - 1) /\ j + 1 \in 2..(q - 1)
        BY <1>1, <4>1
      <4> QED BY <2>3, <3>1, <4>2 DEF Single
    <3>2. ASSUME Single(u, q) PROVE v.proto # "HBHO"
      <4>1. c[1] \in Blocks /\ v.proto = Proto(c[1])
        BY <2>3, <2>4, <2>6, <1>1
      <4>2. CASE q = 2
        <5>1. ~IsHeader(c[1])
          BY <2>3, <4>2 DEF Linked
        <5> QED BY <4>1, <5>1, ProtoIs DEF IsHeader
      <4>3. CASE q # 2
        <5>1. 1 \in 1..(q - 2)
          BY <1>1, <2>3, <4>3
        <5> QED BY <3>1, <3>2, <4>1, <5>1, ProtoIs
      <4> QED BY <4>2, <4>3
    <3>3. (q - 1) - 1 = q - 2 /\ 2..(q - 2) \subseteq 1..(q - 2)
      BY <1>1
    <3> QED BY <2>6, <3>1, <3>2, <3>3 DEF Single
  <2>11. P(q - 1)
    BY <1>4, <2>6, <2>7, <2>8, <2>10
  <2>12. v.len - v.plen = u.len - u.plen /\ v.len <= u.len
    <3>1. /\ v.len = u.len - 8 /\ v.plen = u.plen - 8 /\ u.len \in Int /\ u.plen \in Nat
      BY <1>1, <2>6
    <3> QED BY <3>1
  <2> HIDE DEF P
  <2> QED BY <2>6, <2>9, <2>11, <2>12 DEF P, v
<1> QED BY <1>3, <1>4

\* rpl_invert_header: the first header may change, in place.
LEMMA InvertIs ==
  ASSUME NEW u, NEW q, Formed(u, q)
  PROVE  LET v == rpl_invert_header(u)
         IN  /\ v \in Buffers /\ v.body \in Seq(Blocks) /\ Len(v.body) = Len(u.body)
             /\ \A j \in 1..Len(u.body) : j # 1 => v.body[j] = u.body[j]
             /\ v.src = u.src /\ v.dst = u.dst /\ v.proto = u.proto /\ v.plen = u.plen
             /\ v.len = u.len
             /\ \/ Kept(u) = 0 /\ v = u
                \/ /\ Kept(u) = 8 /\ q >= 2 /\ u.proto = "HBHO"
                   /\ v.body[1].k = "hbho" /\ v.body[1].len = 0
                   /\ v.body[1].next = u.body[1].next /\ v.body[1].opts[1] = "rpl"
<1> DEFINE v == rpl_invert_header(u)
<1>1. /\ u \in Buffers /\ u.body \in Seq(Blocks) /\ Len(u.body) \in Nat /\ 1 \in 1..Len(u.body)
      /\ q \in 1..Len(u.body) /\ Linked(u.body, q) /\ u.body[1] \in Blocks
      /\ u.proto = "HBHO" <=> u.body[1].k = "hbho"
  BY FormedIs
<1>2. CASE Kept(u) = 0
  BY <1>1, <1>2, BufferIs DEF rpl_invert_header
<1>3. CASE Kept(u) # 0
  <2> DEFINE h == u.body[1]
             f == {"DOWN"} \ h.flags
             g == [h EXCEPT !.flags = f, !.rank = 1]
             c == [u.body EXCEPT ![1] = g]
  <2>1. Kept(u) = 8 /\ u.proto = "HBHO" /\ h.opts[1] = "rpl"
    BY <1>3, Sizes DEF Kept, FirstIsRpl
  <2>2. q >= 2 /\ h.k = "hbho" /\ h.len = 0
    BY <1>1, <2>1, HbhoIs
  <2>3. h \in [k : {"hbho", "desto"}, next : Protos, len : Nat, opts : Seq(OptionNames),
               flags : SUBSET FlagNames, mine : BOOLEAN, rank : Nat]
    BY <1>1, <2>2, BlockIs
  <2>4. f \in SUBSET FlagNames
    BY DEF FlagNames
  <2>5. v = [u EXCEPT !.body[1].flags = {"DOWN"} \ @, !.body[1].rank = 1]
    BY <1>3, Sizes DEF rpl_invert_header
  <2>6. v = [u EXCEPT !.body = c]
    <3>1. u.body # <<>> /\ 1 \in DOMAIN u.body
      BY <1>1
    <3>2. c = [u.body EXCEPT ![1].flags = {"DOWN"} \ @, ![1].rank = 1]
      BY <1>1, <2>3, <3>1
    <3> QED BY <1>1, <2>3, <2>5, <3>1, <3>2 DEF Buffers
  <2>7. /\ g \in Blocks /\ g.k = "hbho" /\ g.len = 0 /\ g.next = h.next /\ g.opts[1] = "rpl"
    <3> HIDE DEF f
    <3> QED BY <2>1, <2>2, <2>3, <2>4 DEF Blocks
  <2> HIDE DEF g
  <2>8. /\ c \in Seq(Blocks) /\ Len(c) = Len(u.body) /\ c[1] = g
        /\ \A j \in 1..Len(u.body) : j # 1 => c[j] = u.body[j]
    BY <1>1, <2>7
  <2> HIDE DEF c, v
  <2>9. /\ v \in Buffers /\ v.body = c /\ v.proto = u.proto /\ v.plen = u.plen
        /\ v.len = u.len /\ v.src = u.src /\ v.dst = u.dst
    BY ZenonT(60), <1>1, <2>6, <2>8 DEF Buffers
  <2> QED BY <2>1, <2>2, <2>7, <2>8, <2>9 DEF v
<1> QED BY <1>2, <1>3

\* An address the gateway speaks from.
LEMMA SelectIs ==
  ASSUME NEW a
  PROVE  /\ select_src(a) \in {Self, SelfLL} /\ select_src(a) \in Addresses
         /\ a \notin LinkLocal \cup Multicast => select_src(a) = Self
  BY DEF select_src, Addresses, LinkLocal

\* The bound on the blocks keeps the message and the header before it.
LEMMA ShownIs ==
  ASSUME NEW b \in Seq(Blocks), NEW n \in {1, 2}, Len(b) >= n
  PROVE  /\ Shown(b) \in Seq(Blocks) /\ Len(Shown(b)) >= n
         /\ \A j \in 1..n : Shown(b)[j] = b[j]
<1>1. MaxBody \in Nat /\ MaxBody >= 2
  BY SizeAssumption
<1>2. CASE Len(b) <= MaxBody
  BY <1>2 DEF Shown
<1>3. CASE ~(Len(b) <= MaxBody)
  <2>1. Len(b) \in Nat /\ \A i \in 1..MaxBody : b[i] \in Blocks
    BY <1>1, <1>3
  <2>2. /\ SubSeq(b, 1, MaxBody) \in Seq(Blocks) /\ Len(SubSeq(b, 1, MaxBody)) = MaxBody
        /\ \A i \in 1..MaxBody : SubSeq(b, 1, MaxBody)[i] = b[i]
    BY <1>1, <1>3, <2>1
  <2>3. Shown(b) = SubSeq(b, 1, MaxBody)
    BY <1>3 DEF Shown
  <2> QED BY <1>1, <2>2, <2>3
<1> QED BY <1>2, <1>3

\* Two sequences, one behind the other.
LEMMA ConcatIs ==
  ASSUME NEW S, NEW x \in Seq(S), NEW y \in Seq(S)
  PROVE  /\ x \o y \in Seq(S) /\ Len(x \o y) = Len(x) + Len(y)
         /\ \A i \in 1..Len(x) : (x \o y)[i] = x[i]
         /\ \A i \in 1..Len(y) : (x \o y)[Len(x) + i] = y[i]
  OBVIOUS

\* Two blocks in front of a body, behind its first n.
LEMMA PutIs ==
  ASSUME NEW b \in Seq(Blocks), NEW n \in {0, 1}, Len(b) >= 1, NEW x \in Blocks, NEW y \in Blocks,
         NEW c, c = SubSeq(b, 1, n) \o <<x, y>> \o b
  PROVE  /\ c \in Seq(Blocks) /\ Len(c) >= 2 /\ Len(c) >= n + 1 /\ c[n + 1] = x
         /\ n = 1 => c[1] = b[1]
<1> DEFINE a == SubSeq(b, 1, n)
           d == <<x, y>>
           z == a \o d
<1>1. a \in Seq(Blocks) /\ Len(a) = n /\ (n = 1 => a[1] = b[1])
  <2>1. CASE n = 0
    BY <2>1
  <2>2. CASE n = 1
    BY <2>2
  <2> QED BY <2>1, <2>2
<1>2. d \in Seq(Blocks) /\ Len(d) = 2 /\ d[1] = x
  OBVIOUS
<1> HIDE DEF a, d
<1>3. z \in Seq(Blocks) /\ Len(z) = n + 2 /\ z[n + 1] = x /\ (n = 1 => z[1] = b[1])
  <2>1. /\ z \in Seq(Blocks) /\ Len(z) = Len(a) + Len(d)
        /\ \A i \in 1..Len(a) : z[i] = a[i]
        /\ \A i \in 1..Len(d) : z[Len(a) + i] = d[i]
    <3>1. a \in Seq(Blocks) /\ d \in Seq(Blocks)
      BY <1>1, <1>2
    <3> QED BY <3>1, ConcatIs
  <2> HIDE DEF z
  <2>2. Len(a) + 1 = n + 1 /\ 1 \in 1..Len(d) /\ (n = 1 => 1 \in 1..Len(a))
    BY <1>1, <1>2
  <2>3. z[Len(a) + 1] = d[1] /\ (n = 1 => z[1] = a[1])
    BY <2>1, <2>2
  <2> QED BY <1>1, <1>2, <2>1, <2>2, <2>3
<1> HIDE DEF z
<1>4. /\ z \o b \in Seq(Blocks) /\ Len(z \o b) = Len(z) + Len(b)
      /\ \A i \in 1..Len(z) : (z \o b)[i] = z[i]
  BY <1>3, ConcatIs
<1>0. c = z \o b
  BY DEF z, a, d
<1>5. /\ c \in Seq(Blocks) /\ Len(c) = Len(z) + Len(b) /\ \A i \in 1..Len(z) : c[i] = z[i]
  BY <1>0, <1>4
<1>6. n + 1 \in 1..Len(z) /\ (n = 1 => 1 \in 1..Len(z))
  BY <1>3
<1>7. c[n + 1] = x /\ (n = 1 => c[1] = b[1])
  BY <1>3, <1>5, <1>6
<1> QED BY <1>3, <1>5, <1>7

\* A buffer with another length.
LEMMA LenIs ==
  ASSUME NEW u \in Buffers, NEW l \in Int, NEW e, e = [u EXCEPT !.len = l]
  PROVE  e \in Buffers /\ e.ext = u.ext /\ e.body = u.body /\ e.len = l
  BY DEF Buffers

\* The header of the gateway, in front of a message of ICMPv6.
LEMMA NextSwapIs ==
  ASSUME NEW h \in Blocks, h.k = "hbho", h.len = 0, h.opts[1] = "rpl"
  PROVE  LET x == [h EXCEPT !.next = "ICMP6"]
         IN  /\ x \in Blocks /\ x.k = "hbho" /\ x.next = "ICMP6" /\ x.len = 0
             /\ x.opts[1] = "rpl"
<1>1. h \in [k : {"hbho", "desto"}, next : Protos, len : Nat, opts : Seq(OptionNames),
             flags : SUBSET FlagNames, mine : BOOLEAN, rank : Nat]
  BY BlockIs
<1>2. "ICMP6" \in Protos
  BY DEF Protos
<1> QED BY <1>1, <1>2 DEF Blocks

\* uip_icmp6_error_output: nothing, or a message to the source of the packet.
LEMMA ErrorIs ==
  ASSUME NEW u, NEW q, Formed(u, q), ExtIn(u), Measured(u), NEW t
  PROVE  LET e == uip_icmp6_error_output(u, t)
         IN  /\ e \in Buffers /\ ExtIn(e) /\ e.len >= 0 /\ e.len <= MTU
             /\ e.len # 0 =>
                  /\ Measured(e)
                  /\ \E p \in 1..2 : Formed(e, p) /\ Single(e, p) /\ Speaks(e, p)
                  /\ e.dst = u.src /\ e.src = select_src(u.dst)
<1> DEFINE e == uip_icmp6_error_output(u, t)
           v == rpl_invert_header(u)
           n == Kept(u) \div Block
           msg == [k |-> "icmp", type |-> "error"]
           b == SubSeq(v.body, 1, n) \o <<msg, Quote(u)>> \o v.body
           c == Shown(b)
           l == IF v.len + IPH + Block > MTU THEN MTU ELSE v.len + IPH + Block
           k == Kept(u)
           w == [v EXCEPT !.ext = k, !.len = l, !.ttl = TTL, !.body = c]
<1>1. /\ u \in Buffers /\ u.plen \in Nat /\ u.src \in Addresses /\ u.dst \in Addresses
      /\ u.body \in Seq(Blocks) /\ Len(u.body) \in Nat /\ u.body[1] \in Blocks
  BY FormedIs, BufferIs
<1>0. u \in Buffers /\ q \in 1..Len(u.body)
  BY FormedIs
<1>2. /\ v \in Buffers /\ v.body \in Seq(Blocks) /\ Len(v.body) = Len(u.body)
      /\ v.src = u.src /\ v.dst = u.dst /\ v.proto = u.proto /\ v.plen = u.plen
      /\ v.len = u.len
      /\ \/ Kept(u) = 0 /\ v = u
         \/ /\ Kept(u) = 8 /\ q >= 2 /\ u.proto = "HBHO"
            /\ v.body[1].k = "hbho" /\ v.body[1].len = 0
            /\ v.body[1].next = u.body[1].next /\ v.body[1].opts[1] = "rpl"
  BY InvertIs
<1> HIDE DEF v
<1>3. /\ n \in {0, 1} /\ k \in {0, 8} /\ k = 8 * n /\ k \in Nat /\ Len(v.body) >= q
      /\ n = 1 => /\ u.proto = "HBHO" /\ Len(v.body) >= 2
                  /\ v.body[1].k = "hbho" /\ v.body[1].len = 0 /\ v.body[1].opts[1] = "rpl"
  BY <1>0, <1>1, <1>2, Sizes
<1>4. l \in Nat /\ l >= IPH + 2 * Block /\ l <= MTU
  BY <1>1, <1>2, Sizes, SizeAssumption DEF Measured
<1>5. msg \in Blocks /\ Quote(u) \in Blocks
  <2>1. "error" \in MessageNames
    BY DEF MessageNames
  <2> QED BY <1>1, <2>1, MadeBlocks
<1> HIDE DEF msg, k, l, n
<1>6. /\ b \in Seq(Blocks) /\ Len(b) >= n + 1 /\ Len(b) >= 2 /\ b[n + 1] = msg
      /\ n = 1 => b[1] = v.body[1]
  <2> DEFINE B == v.body
             Q == Quote(u)
  <2>1. B \in Seq(Blocks) /\ Len(B) >= 1 /\ Q \in Blocks
    BY <1>0, <1>2, <1>3, <1>5
  <2>2. n \in {0, 1} /\ msg \in Blocks
    BY <1>3, <1>5
  <2>3. b = SubSeq(B, 1, n) \o <<msg, Q>> \o B
    OBVIOUS
  <2> HIDE DEF b, B, Q
  <2>4. b \in Seq(Blocks) /\ Len(b) >= 2 /\ Len(b) >= n + 1 /\ b[n + 1] = msg
    BY <2>1, <2>2, <2>3, PutIs
  <2>5. n = 1 => b[1] = B[1]
    BY <2>1, <2>2, <2>3, PutIs
  <2> QED BY <2>4, <2>5 DEF B
<1> HIDE DEF b
<1>7. /\ c \in Seq(Blocks) /\ Len(c) >= n + 1 /\ Len(c) \in Nat /\ c[n + 1] = msg
      /\ n = 1 => c[1] = v.body[1]
  BY <1>3, <1>6, ShownIs
<1> HIDE DEF c
<1>8. /\ w \in Buffers /\ w.ext = k /\ w.len = l /\ w.body = c /\ w.proto = u.proto
      /\ w.dst = u.dst /\ w.src = u.src
  <2>1. k \in Nat /\ l \in Int /\ TTL \in 0..255
    BY <1>3, <1>4, SizeAssumption
  <2>2. w = [v EXCEPT !.ext = k, !.len = l, !.ttl = TTL, !.body = c]
    OBVIOUS
  <2> HIDE DEF w
  <2>3. /\ w \in Buffers /\ w.ext = k /\ w.len = l /\ w.body = c /\ w.proto = v.proto
        /\ w.dst = v.dst /\ w.src = v.src
    BY <1>2, <1>7, <2>1, <2>2 DEF Buffers
  <2> QED BY <1>2, <2>3
<1>9. ExtIn(w)
  <2>1. n \in 0..Len(c) /\ k = Block * n
    BY <1>3, <1>7, Sizes
  <2> QED BY <1>8, <2>1 DEF ExtIn
<1>10. CASE IsError(u)
  <2>0. u \in Buffers
    BY <1>0
  <2>1. e = [u EXCEPT !.len = 0]
    BY <1>10 DEF uip_icmp6_error_output
  <2> HIDE DEF e, w
  <2>2. e \in Buffers /\ e.ext = u.ext /\ e.body = u.body /\ e.len = 0
    BY <2>0, <2>1, LenIs
  <2>3. ExtIn(e)
    BY <2>2 DEF ExtIn
  <2> QED BY <2>2, <2>3, Room DEF e
<1>11. CASE ~IsError(u) /\ (u.src = None \/ (u.dst \in Multicast /\ t # "option"))
  <2>0. w \in Buffers
    BY <1>8
  <2>1. e = [w EXCEPT !.len = 0]
    BY <1>11 DEF uip_icmp6_error_output, v, n, msg, b, c, l, k
  <2> HIDE DEF e, w
  <2>2. e \in Buffers /\ e.ext = w.ext /\ e.body = w.body /\ e.len = 0
    BY <2>0, <2>1, LenIs
  <2>3. ExtIn(e)
    BY <1>9, <2>2 DEF ExtIn
  <2> QED BY <2>2, <2>3, Room DEF e
<1>12. CASE ~IsError(u) /\ ~(u.src = None \/ (u.dst \in Multicast /\ t # "option"))
  <2> DEFINE p == IF n > 0 THEN w.proto ELSE "ICMP6"
             d == IF n > 0 THEN [w.body EXCEPT ![1].next = "ICMP6"] ELSE w.body
             m == w.len - IPH
             s == select_src(u.dst)
  <2>1. e = [w EXCEPT !.proto = p, !.body = d, !.dst = u.src, !.src = s, !.plen = m]
    BY <1>12 DEF uip_icmp6_error_output, v, n, msg, b, c, l, k
  <2>2. /\ d \in Seq(Blocks) /\ Len(d) = Len(c) /\ d[n + 1].k = "icmp" /\ d[n + 1].type = "error"
        /\ n = 1 => /\ d[1].k = "hbho" /\ d[1].len = 0 /\ d[1].next = "ICMP6"
                    /\ d[1].opts[1] = "rpl"
    <3>1. CASE n = 0
      BY <1>7, <1>8, <3>1 DEF msg
    <3>2. CASE n = 1
      <4> DEFINE g == [c[1] EXCEPT !.next = "ICMP6"]
      <4>1. d = [c EXCEPT ![1] = g]
        BY <1>7, <1>8, <3>2
      <4>2. /\ g \in Blocks /\ g.k = "hbho" /\ g.next = "ICMP6" /\ g.len = 0
            /\ g.opts[1] = "rpl"
        <5>1. c[1] \in Blocks /\ c[1].k = "hbho" /\ c[1].len = 0 /\ c[1].opts[1] = "rpl"
          BY <1>3, <1>7, <3>2
        <5> QED BY <5>1, NextSwapIs
      <4> HIDE DEF g, d
      <4>3. d \in Seq(Blocks) /\ Len(d) = Len(c) /\ d[1] = g /\ d[2] = c[2]
        BY <1>7, <3>2, <4>1, <4>2
      <4>4. n + 1 = 2
        BY <3>2
      <4> QED BY <1>7, <4>2, <4>3, <4>4 DEF msg
    <3> QED BY <1>3, <3>1, <3>2
  <2>3. p \in Protos /\ p = IF n = 1 THEN "HBHO" ELSE "ICMP6"
    BY <1>3, <1>8 DEF Protos
  <2>4. m \in Nat /\ m >= 2 * Block /\ l = m + IPH /\ s \in Addresses
    BY <1>4, <1>8, Sizes, SelectIs
  <2> HIDE DEF p, d, m, s, w, e
  <2>5. /\ e \in Buffers /\ e.proto = p /\ e.body = d /\ e.dst = u.src /\ e.src = s
        /\ e.plen = m /\ e.len = w.len /\ e.ext = w.ext
    BY <1>1, <1>8, <2>1, <2>2, <2>3, <2>4 DEF Buffers
  <2>6. Linked(d, n + 1) /\ Proto(d[1]) = p
    <3>1. n + 1 \in {1, 2} /\ Len(d) >= n + 1 /\ (n + 1 = 2 <=> n = 1)
      BY <1>3, <1>7, <2>2
    <3> QED BY <2>2, <2>3, <3>1, LinkedMade
  <2>7. Formed(e, n + 1)
    BY <1>3, <2>4, <2>5, <2>6, Sizes DEF Formed
  <2>8. Single(e, n + 1) /\ Speaks(e, n + 1)
    <3>1. 2..((n + 1) - 1) = {} /\ n + 1 <= 2 /\ (n + 1 = 2 => n = 1)
      BY <1>3
    <3>2. "error" \in OwnTypes
      BY DEF OwnTypes
    <3> QED BY <2>2, <2>5, <3>1, <3>2 DEF Single, Speaks
  <2>9. ExtIn(e)
    <3>1. n \in 0..Len(d) /\ k = Block * n
      BY <1>3, <1>7, <2>2, Sizes
    <3> QED BY <1>8, <2>5, <3>1 DEF ExtIn
  <2>10. n + 1 \in 1..2 /\ e.len >= 0 /\ e.len <= MTU /\ Measured(e)
    BY <1>3, <1>4, <1>8, <2>4, <2>5 DEF Measured
  <2> QED BY <2>5, <2>7, <2>8, <2>9, <2>10 DEF e, s
<1> QED BY <1>10, <1>11, <1>12

\* A packet that the gateway makes of another: its message is block i, which is
\* where its headers end.
Opening(x, i) ==
  /\ Len(x.body) >= i /\ x.ext = Block * (i - 1) /\ Block * i <= x.plen
  /\ x.proto = IF i = 2 THEN "HBHO" ELSE "ICMP6"
  /\ i = 2 => /\ x.body[1].k = "hbho" /\ x.body[1].len = 0
              /\ x.body[1].next = "ICMP6" /\ x.body[1].opts[1] = "rpl"

\* The first message behind the headers that were kept becomes a reply.
LEMMA ReplyIs ==
  ASSUME NEW x \in Buffers, NEW i \in {1, 2}, Opening(x, i), Measured(x), NEW v \in Buffers,
         v.body = [x.body EXCEPT ![i] = [k |-> "icmp", type |-> "reply"]],
         v.proto = x.proto, v.plen = x.plen, v.len = x.len, v.ext = x.ext
  PROVE  ExtIn(v) /\ Measured(v) /\ Formed(v, i) /\ Single(v, i) /\ Speaks(v, i)
<1> DEFINE msg == [k |-> "icmp", type |-> "reply"]
           c == v.body
<1>1. x.body \in Seq(Blocks) /\ x.plen \in Nat /\ x.len \in Int
  BY BufferIs
<1>3. msg \in Blocks
  BY MadeBlocks DEF MessageNames
<1>4. c = [x.body EXCEPT ![i] = msg]
  OBVIOUS
<1> HIDE DEF msg
<1>5. /\ c \in Seq(Blocks) /\ Len(c) = Len(x.body) /\ c[i] = msg
      /\ i = 2 => c[1] = x.body[1]
  <2>1. Len(x.body) >= i /\ x.body \in Seq(Blocks)
    BY <1>1 DEF Opening
  <2> QED BY <1>3, <1>4, <2>1
<1>7. /\ v \in Buffers /\ v.body = c /\ v.proto = x.proto /\ v.plen = x.plen
      /\ v.len = x.len /\ v.ext = x.ext
  OBVIOUS
<1>8. Linked(c, i) /\ Proto(c[1]) = IF i = 2 THEN "HBHO" ELSE "ICMP6"
  <2>1. Len(c) >= i
    BY <1>5 DEF Opening
  <2>2. c[i].k = "icmp"
    BY <1>5 DEF msg
  <2>3. i = 2 => c[1].k = "hbho" /\ c[1].len = 0 /\ c[1].next = "ICMP6"
    BY <1>5 DEF Opening
  <2> QED BY <1>5, <2>1, <2>2, <2>3, LinkedMade
<1>9. Formed(v, i)
  BY <1>7, <1>8 DEF Formed, Opening
<1>10. Single(v, i) /\ Speaks(v, i)
  <2>1. 2..(i - 1) = {} /\ i <= 2 /\ "reply" \in OwnTypes
    BY DEF OwnTypes
  <2>2. v.body[i].k = "icmp" /\ v.body[i].type = "reply"
    BY <1>5, <1>7 DEF msg
  <2>3. i = 2 => v.body[1].k = "hbho" /\ v.body[1].opts[1] = "rpl"
    BY <1>5, <1>7 DEF Opening
  <2> QED BY <2>1, <2>2, <2>3 DEF Single, Speaks
<1>11. ExtIn(v)
  <2>1. i - 1 \in 0..Len(v.body) /\ v.ext = Block * (i - 1)
    BY <1>1, <1>5, <1>7 DEF Opening
  <2> QED BY <2>1 DEF ExtIn
<1>12. Measured(v)
  BY <1>7 DEF Measured
<1> QED BY <1>9, <1>10, <1>11, <1>12

\* The end of a body behind its first n blocks, n being 0 or 1.
LEMMA CutIs ==
  ASSUME NEW b \in Seq(Blocks), NEW n \in {0, 1}, NEW q \in 1..Len(b), n = 1 => q >= 2,
         NEW c, c = SubSeq(b, 1, n) \o SubSeq(b, q, Len(b))
  PROVE  c \in Seq(Blocks) /\ Len(c) >= n + 1 /\ (n = 1 => c[1] = b[1])
<1> DEFINE x == SubSeq(b, 1, n)
           y == SubSeq(b, q, Len(b))
<1>1. x \in Seq(Blocks) /\ Len(x) = n /\ (n = 1 => x[1] = b[1])
  <2>1. CASE n = 0
    BY <2>1
  <2>2. CASE n = 1
    BY <2>2
  <2> QED BY <2>1, <2>2
<1>2. y \in Seq(Blocks) /\ Len(y) >= 1
  OBVIOUS
<1>3. c = x \o y
  OBVIOUS
<1> HIDE DEF x, y
<1>4. /\ c \in Seq(Blocks) /\ Len(c) = Len(x) + Len(y)
      /\ \A i \in 1..Len(x) : c[i] = x[i]
  <2>1. x \in Seq(Blocks) /\ y \in Seq(Blocks)
    BY <1>1, <1>2
  <2>2. /\ x \o y \in Seq(Blocks) /\ Len(x \o y) = Len(x) + Len(y)
        /\ \A i \in 1..Len(x) : (x \o y)[i] = x[i]
    BY <2>1, ConcatIs
  <2> QED BY <1>3, <2>2
<1> QED BY <1>1, <1>2, <1>4

\* uip_icmp6_echo_request_input: the reply, to the source of the request.
LEMMA EchoIs ==
  ASSUME NEW u, NEW q, Formed(u, q), Measured(u), u.ext = Block * (q - 1),
         u.body[q].k = "icmp"
  PROVE  LET v == uip_icmp6_echo_request_input(u)
         IN  /\ v \in Buffers /\ ExtIn(v) /\ Measured(v) /\ v.dst = u.src /\ v.len <= u.len
             /\ v.src = IF u.dst \in Multicast THEN select_src(u.src) ELSE u.dst
             /\ \E p \in 1..2 : Formed(v, p) /\ Single(v, p) /\ Speaks(v, p)
<1> DEFINE r == uip_icmp6_echo_request_input(u)
           s == IF u.dst \in Multicast THEN select_src(u.src) ELSE u.dst
           v == rpl_invert_header(u)
           k == Kept(u)
           w == IF u.ext = 0 THEN u
                ELSE [v EXCEPT !.len = @ - (u.ext - k), !.plen = u.len - (u.ext - k) - IPH,
                               !.proto = IF k > 0 THEN @ ELSE "ICMP6",
                               !.body = SubSeq(@, 1, k \div Block)
                                          \o SubSeq(@, u.ext \div Block + 1, Len(@)),
                               !.ext = k]
           x == IF k > 0 /\ u.ext > 0 THEN [w EXCEPT !.body[1].next = "ICMP6"] ELSE w
           d == u.src
<1>1. /\ u \in Buffers /\ u.plen \in Nat /\ u.src \in Addresses /\ u.dst \in Addresses
      /\ u.len \in Int /\ u.ext \in Nat /\ q \in 1..Len(u.body) /\ u.body \in Seq(Blocks) /\ Block * q <= u.plen
      /\ Linked(u.body, q) /\ u.proto = Proto(u.body[1])
  BY FormedIs, BufferIs
<1>2. r = [SetExt(x, [k |-> "icmp", type |-> "reply"]) EXCEPT !.ttl = TTL, !.dst = d, !.src = s]
  BY DEF uip_icmp6_echo_request_input
<1>3. d \in Addresses /\ s \in Addresses
  BY <1>1, SelectIs
<1>4. /\ v \in Buffers /\ v.body \in Seq(Blocks) /\ Len(v.body) = Len(u.body)
      /\ v.proto = u.proto /\ v.len = u.len
      /\ \/ k = 0 /\ v = u
         \/ /\ k = 8 /\ q >= 2 /\ u.proto = "HBHO"
            /\ v.body[1].k = "hbho" /\ v.body[1].len = 0 /\ v.body[1].opts[1] = "rpl"
  BY InvertIs
<1> HIDE DEF s, d, v, k, r
<1>5. PICK i \in {1, 2} : x \in Buffers /\ Opening(x, i) /\ Measured(x) /\ x.len <= u.len
  <2>1. CASE q = 1
    <3>1. x = u /\ u.ext = 0
      BY <1>1, <2>1, Sizes
    <3> HIDE DEF x, w
    <3>2. u.proto = "ICMP6"
      BY <1>1, <2>1, ProtoIs
    <3>3. Opening(u, 1)
      BY <1>1, <2>1, <3>1, <3>2, Sizes DEF Opening
    <3> QED BY <1>1, <3>1, <3>3
  <2>2. CASE q # 1
    <3> DEFINE n == k \div Block
               i == n + 1
               m == u.ext - k
               l == v.len - m
               j == u.len - m - IPH
               p == IF k > 0 THEN v.proto ELSE "ICMP6"
               b == v.body
               c == SubSeq(b, 1, n) \o SubSeq(b, u.ext \div Block + 1, Len(b))
               y == [v EXCEPT !.len = l, !.plen = j, !.proto = p, !.body = c, !.ext = k]
    <3>1. u.ext >= 8 /\ u.ext \div Block + 1 = q /\ u.len = u.plen + 40 /\ u.ext = 8 * (q - 1)
      <4>1. q \in Nat /\ q >= 2 /\ u.ext = 8 * (q - 1)
        BY <1>1, <2>2, Sizes
      <4>2. (8 * (q - 1)) \div 8 = q - 1
        BY <4>1
      <4>3. u.ext \div Block = q - 1
        BY <4>1, <4>2 DEF Block
      <4>4. u.len = u.plen + 40
        BY Sizes DEF Measured
      <4> QED BY <4>1, <4>3, <4>4
    <3>2. /\ n \in {0, 1} /\ i \in {1, 2} /\ k = 8 * n /\ (k > 0 <=> n = 1) /\ k \in Nat
          /\ n = 1 => q >= 2 /\ p = "HBHO" /\ b[1].k = "hbho" /\ b[1].len = 0 /\ b[1].opts[1] = "rpl"
          /\ n = 0 => p = "ICMP6"
          /\ p \in Protos
      BY <1>4, Sizes DEF Protos
    <3>3. l \in Int /\ j \in Nat /\ l = j + IPH /\ Block * i <= j /\ l <= u.len
      <4>1. /\ q \in Nat /\ q >= 2 /\ u.plen \in Nat /\ 8 * q <= u.plen
            /\ v.len = u.len /\ IPH = 40 /\ Block = 8
        BY <1>1, <1>4, <2>2, Sizes
      <4> HIDE DEF n, b, c, y, p
      <4>2. n \in {0, 1} /\ k = 8 * n
        BY <3>2
      <4>3. m = 8 * (q - 1) - 8 * n
        BY <3>1, <4>2
      <4> HIDE DEF m
      <4>4. l = u.plen + 40 - m /\ j = u.plen - m
        BY <3>1, <4>1, <4>2, <4>3
      <4> HIDE DEF l, j
      <4>5. u.len = u.plen + 40
        BY <3>1
      <4> QED BY <4>1, <4>2, <4>3, <4>4, <4>5
    <3>4. c \in Seq(Blocks) /\ Len(c) >= n + 1 /\ (n = 1 => c[1] = b[1])
      <4>1. b \in Seq(Blocks) /\ q \in 1..Len(b) /\ n \in {0, 1} /\ (n = 1 => q >= 2)
        BY <1>1, <1>4, <3>2
      <4>2. c = SubSeq(b, 1, n) \o SubSeq(b, q, Len(b))
        BY <3>1
      <4> HIDE DEF n, b, c
      <4> QED BY <4>1, <4>2, CutIs
    <3>5. w = y
      BY <3>1
    <3> HIDE DEF n, l, j, p, b, c, w
    <3>6. /\ y \in Buffers /\ y.body = c /\ y.len = l /\ y.plen = j /\ y.proto = p /\ y.ext = k
      BY <1>4, <3>2, <3>3, <3>4 DEF Buffers
    <3> HIDE DEF y
    <3>7. CASE n = 0
      <4>1. x = y /\ i = 1
        BY <3>2, <3>5, <3>7
      <4>2. Opening(y, 1)
        BY <3>2, <3>3, <3>4, <3>6, <3>7, Sizes DEF Opening
      <4>3. Measured(y)
        BY <3>3, <3>6 DEF Measured
      <4>4. y.len <= u.len
        BY <3>3, <3>6
      <4> QED BY <3>6, <4>1, <4>2, <4>3, <4>4
    <3>8. CASE n = 1
      <4>1. x = [y EXCEPT !.body[1].next = "ICMP6"]
        <5>1. k > 0 /\ u.ext > 0
          <6>1. k > 0
            BY <3>2, <3>8
          <6>2. u.ext > 0
            BY <1>1, <3>1
          <6> QED BY <6>1, <6>2
        <5>2. x = [w EXCEPT !.body[1].next = "ICMP6"]
          BY <5>1
        <5> HIDE DEF x, y
        <5> QED BY <3>5, <5>2
      <4> DEFINE g == [c[1] EXCEPT !.next = "ICMP6"]
                 a == [c EXCEPT ![1] = g]
      <4>2. g \in Blocks /\ g.k = "hbho" /\ g.next = "ICMP6" /\ g.len = 0 /\ g.opts[1] = "rpl"
        <5>1. c[1] \in Blocks /\ c[1].k = "hbho" /\ c[1].len = 0 /\ c[1].opts[1] = "rpl"
          BY <3>2, <3>4, <3>8
        <5> QED BY <5>1, NextSwapIs
      <4>3. x = [y EXCEPT !.body = a]
        <5>1. c # <<>> /\ c \in Seq(Blocks)
          BY <3>4, <3>8
        <5> HIDE DEF x
        <5> QED BY <3>6, <4>1, <5>1 DEF Buffers
      <4> HIDE DEF g
      <4>4. a \in Seq(Blocks) /\ Len(a) = Len(c) /\ a[1] = g
        BY <3>4, <3>8, <4>2
      <4> HIDE DEF a, x
      <4>5. /\ x \in Buffers /\ x.body = a /\ x.len = y.len /\ x.plen = y.plen
            /\ x.proto = y.proto /\ x.ext = y.ext
        <5>1. y \in Buffers
          BY <3>6
        <5> HIDE DEF y
        <5> QED BY <4>3, <4>4, <5>1 DEF Buffers
      <4>6. Opening(x, 2)
        BY <3>2, <3>3, <3>4, <3>6, <3>8, <4>2, <4>4, <4>5, Sizes DEF Opening
      <4>7. Measured(x)
        BY <3>3, <3>6, <4>5 DEF Measured
      <4>8. x.len <= u.len
        BY <3>3, <3>6, <4>5
      <4> QED BY <4>5, <4>6, <4>7, <4>8
    <3> QED BY <3>2, <3>7, <3>8
  <2> QED BY <2>1, <2>2
<1> HIDE DEF x
<1>6. r \in Buffers /\ ExtIn(r) /\ Measured(r) /\ r.src = s /\ r.dst = d /\ r.len <= u.len
      /\ Formed(r, i) /\ Single(r, i) /\ Speaks(r, i)
  <2> DEFINE n == (x.ext \div Block) + 1
             msg == [k |-> "icmp", type |-> "reply"]
             c == [x.body EXCEPT ![i] = msg]
  <2>1. x \in Buffers /\ Opening(x, i) /\ Measured(x) /\ x.len <= u.len /\ TTL \in 0..255
    BY <1>5, SizeAssumption
  <2>2. r = [[x EXCEPT !.body[n] = msg] EXCEPT !.ttl = TTL, !.dst = d, !.src = s]
    BY <1>2 DEF SetExt
  <2>3. n = i
    BY <2>1, Sizes DEF Opening
  <2>4. msg \in Blocks
    BY MadeBlocks DEF MessageNames
  <2> HIDE DEF msg, n
  <2>5. r = [x EXCEPT !.body = c, !.ttl = TTL, !.dst = d, !.src = s]
    BY <2>1, <2>2, <2>3 DEF Buffers
  <2>6. c \in Seq(Blocks)
    <3>1. x.body \in Seq(Blocks) /\ Len(x.body) >= i
      BY <2>1, BufferIs DEF Opening
    <3> QED BY <2>4, <3>1
  <2>7. c = [x.body EXCEPT ![i] = [k |-> "icmp", type |-> "reply"]]
    BY DEF msg
  <2> HIDE DEF c
  <2>8. /\ r \in Buffers /\ r.body = c /\ r.proto = x.proto /\ r.plen = x.plen
        /\ r.len = x.len /\ r.ext = x.ext /\ r.src = s /\ r.dst = d
    BY ZenonT(60), <1>3, <2>1, <2>5, <2>6 DEF Buffers
  <2>9. r.body = [x.body EXCEPT ![i] = [k |-> "icmp", type |-> "reply"]]
    BY <2>7, <2>8
  <2>10. ExtIn(r) /\ Measured(r) /\ Formed(r, i) /\ Single(r, i) /\ Speaks(r, i)
    <3>1. r \in Buffers /\ r.proto = x.proto /\ r.plen = x.plen /\ r.len = x.len /\ r.ext = x.ext
      BY <2>8
    <3> QED BY <2>1, <2>9, <3>1, ReplyIs
  <2> QED BY <2>1, <2>8, <2>10
<1>7. i \in 1..2
  OBVIOUS
<1> QED BY <1>6, <1>7 DEF r, s, d

\* uip_icmp6_send: a message without headers.
LEMMA SendIs ==
  ASSUME NEW u \in Buffers, NEW d \in Addresses, NEW t \in {"DIO", "ACK"}
  PROVE  LET v == uip_icmp6_send(u, d, t)
         IN  u.ext = 0 =>
             /\ v \in Buffers /\ v.ext = 0 /\ Measured(v) /\ v.dst = d /\ v.src = select_src(d)
             /\ v.len <= MTU
             /\ Formed(v, 1) /\ Single(v, 1) /\ Speaks(v, 1)
<1> DEFINE v == uip_icmp6_send(u, d, t)
           msg == [k |-> "icmp", type |-> t]
           c == SubSeq(u.body, 1, u.ext \div Block) \o <<msg, [k |-> "data"]>>
           s == select_src(d)
           n == 2 * Block
           l == IPH + 2 * Block
<1>0. SUFFICES ASSUME u.ext = 0
               PROVE  /\ v \in Buffers /\ v.ext = 0 /\ Measured(v) /\ v.dst = d /\ v.src = s
                      /\ v.len <= MTU
                      /\ Formed(v, 1) /\ Single(v, 1) /\ Speaks(v, 1)
  OBVIOUS
<1>1. msg \in Blocks /\ [k |-> "data"] \in Blocks
  BY MadeBlocks DEF MessageNames
<1>2. c = <<msg, [k |-> "data"]>>
  <2> DEFINE x == <<msg, [k |-> "data"]>>
  <2>1. u.ext \div Block = 0
    BY <1>0, Sizes
  <2>2. SubSeq(u.body, 1, 0) = <<>>
    BY BufferIs
  <2>3. x \in Seq(Blocks)
    BY <1>1
  <2>4. c = <<>> \o x
    <3> HIDE DEF x
    <3> QED BY <2>1, <2>2 DEF x
  <2> HIDE DEF x, c
  <2>5. c = x
    BY <2>3, <2>4
  <2> QED BY <2>5 DEF x
<1>3. v = [u EXCEPT !.proto = "ICMP6", !.ttl = TTL, !.plen = n, !.dst = d, !.src = s,
                    !.len = l, !.body = c]
  BY DEF uip_icmp6_send
<1>4. c \in Seq(Blocks) /\ Len(c) = 2 /\ c[1] = msg
  <2> DEFINE data == [k |-> "data"]
  <2>1. c = <<msg, data>> /\ msg \in Blocks /\ data \in Blocks
    BY <1>1, <1>2
  <2> HIDE DEF msg, data, c
  <2> QED BY <2>1
<1>5. /\ "ICMP6" \in Protos /\ TTL \in 0..255 /\ n \in Nat /\ s \in Addresses /\ l \in Int
      /\ l = n + IPH /\ Block * 1 <= n /\ l <= MTU
  BY Sizes, SizeAssumption, SelectIs DEF Protos
<1> HIDE DEF c, s, n, l, v
<1>6. /\ v \in Buffers /\ v.proto = "ICMP6" /\ v.plen = n /\ v.dst = d /\ v.src = s
      /\ v.len = l /\ v.body = c /\ v.ext = u.ext
  <2>1. /\ c \in Seq(Blocks) /\ "ICMP6" \in Protos /\ TTL \in 0..255 /\ n \in Nat
        /\ s \in Addresses /\ l \in Int
    BY <1>4, <1>5
  <2> DEFINE p == "ICMP6"
  <2>2. v = [u EXCEPT !.proto = p, !.ttl = TTL, !.plen = n, !.dst = d, !.src = s,
                      !.len = l, !.body = c] /\ p \in Protos
    BY <1>3, <2>1
  <2> HIDE DEF p
  <2>3. /\ v \in Buffers /\ v.proto = p /\ v.plen = n /\ v.dst = d /\ v.src = s
        /\ v.len = l /\ v.body = c /\ v.ext = u.ext
    BY ZenonT(60), <2>1, <2>2 DEF Buffers
  <2> QED BY <2>3 DEF p
<1>7. Linked(c, 1) /\ Proto(c[1]) = "ICMP6"
  BY <1>4, LinkedMade
<1>8. Formed(v, 1)
  BY <1>5, <1>6, <1>7 DEF Formed
<1>9. Single(v, 1) /\ Speaks(v, 1)
  BY <1>4, <1>6 DEF Single, Speaks, OwnTypes
<1>10. Measured(v) /\ v.len <= MTU
  BY <1>5, <1>6 DEF Measured
<1> QED BY <1>0, <1>6, <1>8, <1>9, <1>10

\* rpl_verify_header changes the flags.
LEMMA VerifiedIs ==
  ASSUME NEW h \in Blocks, h.k \in {"hbho", "desto"}
  PROVE  LET g == Verified(h)
         IN  g \in Blocks /\ g.k = h.k /\ g.next = h.next /\ g.len = h.len /\ g.opts = h.opts
<1>1. h \in [k : {"hbho", "desto"}, next : Protos, len : Nat, opts : Seq(OptionNames),
             flags : SUBSET FlagNames, mine : BOOLEAN, rank : Nat]
  BY BlockIs
<1> DEFINE f == h.flags \cup {"RANK_ERR"}
<1>2. f \in SUBSET FlagNames
  BY <1>1 DEF FlagNames
<1> HIDE DEF f
<1>3. LET g == [h EXCEPT !.flags = f]
      IN  g \in Blocks /\ g.k = h.k /\ g.next = h.next /\ g.len = h.len /\ g.opts = h.opts
  BY <1>1, <1>2 DEF Blocks
<1>4. Verified(h) = h \/ Verified(h) = [h EXCEPT !.flags = f]
  BY DEF Verified, f
<1> QED BY <1>3, <1>4

\* A header is read: its flags may change, and the packet is looked at behind it.
Reading(u, q, e) ==
  /\ Formed(u, q) /\ e \in 1..(q - 1) /\ u.ext = Block * (e - 1)
  /\ u.body[e].k \in {"hbho", "desto"} /\ e + u.body[e].len + 1 <= 32

\* Behind a header, the next one: the chain and the message are as before.
LEMMA AfterIs ==
  ASSUME NEW u, NEW q, NEW e, Reading(u, q, e)
  PROVE  LET v == AfterOptions(u)
         IN  /\ v \in Buffers /\ Formed(v, q) /\ Keeps(u, v)
             /\ v.len = u.len /\ v.plen = u.plen /\ v.proto = u.proto
             /\ v.body[q] = u.body[q]
             /\ Single(u, q) => Single(v, q)
             /\ Speaks(u, q) => Speaks(v, q)
             /\ \E f \in 1..q : /\ f = e + u.body[e].len + 1
                                /\ v.ext = Block * (f - 1) /\ v.next = Proto(v.body[f])
<1> DEFINE v == AfterOptions(u)
           b == u.body
           n == (u.ext \div Block) + 1
           g == b[e]
           h == IF "rpl" \in ToSet(Ext(u).opts) THEN Verified(Ext(u)) ELSE Ext(u)
           c == [b EXCEPT ![e] = h]
           f == e + g.len + 1
           x == Longer(u.ext, Bytes(h))
<1>0. /\ Formed(u, q) /\ e \in 1..(q - 1) /\ u.ext = Block * (e - 1)
      /\ g.k \in {"hbho", "desto"} /\ f <= 32
  BY DEF Reading
<1>1. /\ u \in Buffers /\ b \in Seq(Blocks) /\ Len(b) \in Nat /\ q \in 1..Len(b)
      /\ Linked(b, q) /\ u.plen \in Nat /\ Block * q <= u.plen /\ u.proto = Proto(b[1])
      /\ u.ext \in Nat
  BY <1>0, FormedIs, BufferIs
<1>2. n = e /\ e \in 1..Len(b) /\ e \in Nat
  <2>1. e \in 1..Len(b) /\ e \in Nat
    BY <1>0, <1>1
  <2>2. u.ext = 8 * (e - 1)
    BY <1>0, Sizes
  <2>3. (8 * (e - 1)) \div 8 = e - 1
    BY <2>1
  <2>4. u.ext \div Block = e - 1
    BY <2>2, <2>3 DEF Block
  <2> QED BY <2>1, <2>4
<1>3. Ext(u) = g
  BY <1>2 DEF Ext
<1>4. /\ g \in Blocks /\ IsHeader(g) /\ g.len \in Nat /\ f <= q /\ g.next = Proto(b[f])
  <2>1. g \in Blocks /\ IsHeader(g)
    BY <1>0, <1>1, <1>2 DEF IsHeader
  <2>2. g.len \in Nat
    BY <2>1, BlockIs
  <2> QED BY <1>0, <1>1, <2>1, <2>2 DEF Linked
<1>5. h \in Blocks /\ h.k = g.k /\ h.next = g.next /\ h.len = g.len /\ h.opts = g.opts
  BY <1>0, <1>3, <1>4, VerifiedIs
<1>6. v = [[u EXCEPT !.body[n] = h] EXCEPT !.next = h.next, !.ext = x]
  <2>1. v = [SetExt(u, h) EXCEPT !.next = h.next, !.ext = Longer(@, Bytes(h))]
    BY DEF AfterOptions
  <2>2. SetExt(u, h).ext = u.ext
    BY <1>1 DEF SetExt, Buffers
  <2>3. v = [SetExt(u, h) EXCEPT !.next = h.next, !.ext = x]
    <3> HIDE DEF v, h
    <3> QED BY <2>1, <2>2
  <2> QED BY <2>3 DEF SetExt
<1>7. f \in 1..q /\ x = Block * (f - 1) /\ x \in Nat
  <2>1. x = (8 * (e - 1) + (g.len + 1) * 8) % 256
    BY <1>0, <1>5, Sizes DEF Bytes, Longer
  <2>2. 8 * (e - 1) + (g.len + 1) * 8 = 8 * (f - 1)
    BY <1>2, <1>4, Behind
  <2>3. f \in 1..q /\ e \in Nat /\ f \in Nat
    BY <1>2, <1>4, <1>0
  <2>4. x = 8 * (f - 1) /\ 8 * (f - 1) \in Nat
    <3> HIDE DEF f, x
    <3>1. 8 * (f - 1) \in 0..255
      <4>1. f >= 1 /\ f <= 32
        BY <1>0, <1>1, <2>3
      <4> QED BY <2>3, <4>1
    <3> QED BY <2>1, <2>2, <3>1, NoWrap
  <2> QED BY <2>3, <2>4, Sizes
<1> HIDE DEF h, n, x
<1>8. /\ c \in Seq(Blocks) /\ Len(c) = Len(b) /\ c[e] = h /\ \A j \in 1..Len(b) : j # e => c[j] = b[j]
  BY <1>1, <1>2, <1>5
<1>9. v = [u EXCEPT !.body = c, !.next = h.next, !.ext = x]
  <2> HIDE DEF v
  <2> QED BY <1>1, <1>2, <1>6 DEF Buffers
<1> HIDE DEF c, v, f, g
<1>10. /\ Linked(c, q) /\ \A j \in 1..Len(b) : c[j].k = b[j].k
       /\ SubSeq(c, q, Len(c)) = SubSeq(b, q, Len(b))
  <2>0. e \in 1..(q - 1)
    BY <1>0
  <2>1. IsHeader(b[e]) /\ c[e].k = b[e].k /\ c[e].len = b[e].len /\ c[e].next = b[e].next
    BY <1>4, <1>5, <1>8 DEF g
  <2>2. Linked(b, q) /\ c \in Seq(Blocks) /\ Len(c) = Len(b) /\ \A j \in 1..Len(b) : j # e => c[j] = b[j]
    BY <1>1, <1>8
  <2> HIDE DEF b
  <2> QED BY <2>0, <2>1, <2>2, LinkedSwap
<1>11. /\ v \in Buffers /\ v.body = c /\ v.len = u.len /\ v.plen = u.plen /\ v.proto = u.proto
       /\ v.src = u.src /\ v.dst = u.dst /\ v.next = h.next /\ v.ext = x
  <2>1. h.next \in Protos
    BY <1>4, <1>5, BlockIs DEF IsHeader
  <2> DEFINE p == h.next
  <2>2. p \in Protos /\ v = [u EXCEPT !.body = c, !.next = p, !.ext = x]
    BY <1>9, <2>1
  <2> HIDE DEF p
  <2>3. /\ v \in Buffers /\ v.body = c /\ v.len = u.len /\ v.plen = u.plen /\ v.proto = u.proto
        /\ v.src = u.src /\ v.dst = u.dst /\ v.next = p /\ v.ext = x
    BY <1>1, <1>7, <1>8, <2>2 DEF Buffers
  <2> QED BY <2>3 DEF p
<1>12. \A j \in 1..Len(b) : Proto(c[j]) = Proto(b[j])
  BY <1>10 DEF Proto
<1>13. Formed(v, q)
  <2>1. 1 \in 1..Len(b)
    BY <1>1
  <2> QED BY <1>1, <1>10, <1>11, <1>12, <2>1 DEF Formed
<1>14. Keeps(u, v)
  <2>1. /\ Upper(u) = SubSeq(b, q, Len(b)) /\ UpperBytes(u) = u.plen - Block * (q - 1)
        /\ Upper(v) = SubSeq(v.body, q, Len(v.body)) /\ UpperBytes(v) = v.plen - Block * (q - 1)
    BY <1>0, <1>13, FormedUpper
  <2> QED BY <1>10, <1>11, <2>1 DEF Keeps
<1>15. v.body[q] = u.body[q]
  BY <1>0, <1>1, <1>8, <1>11
<1>16. Single(u, q) => Single(v, q)
  <2>1. 2..(q - 1) \subseteq 1..Len(b)
    BY <1>1
  <2>2. \A j \in 1..Len(b) : v.body[j].k = u.body[j].k
    BY <1>10, <1>11
  <2> QED BY <2>1, <2>2 DEF Single
<1>17. Speaks(u, q) => Speaks(v, q)
  <2>1. c[1].k = b[1].k /\ (q = 2 => e = 1)
    BY <1>0, <1>1, <1>10
  <2>2. q = 2 => c[1].opts = b[1].opts
    BY <1>5, <1>8, <2>1 DEF g
  <2> QED BY <1>11, <1>15, <2>1, <2>2 DEF Speaks
<1>18. v.next = Proto(c[f])
  <2>1. f \in 1..Len(b)
    BY <1>1, <1>7
  <2> QED BY <1>4, <1>5, <1>11, <1>12, <2>1
<1> QED BY <1>7, <1>11, <1>13, <1>14, <1>15, <1>16, <1>17, <1>18 DEF v, f, g

\* The header of the gateway is no error when it comes back.
LEMMA InertIs ==
  ASSUME NEW u, Ext(u).opts = <<"rpl">>, Ext(u).mine, Ext(u).flags = {}, Ext(u).rank = 2
  PROVE  Options(u) = "continue"
<1> DEFINE h == Ext(u)
           I == {i \in 1..Len(h.opts) : h.opts[i] \notin {"pad", "skip"}}
<1>1. I = {1}
  OBVIOUS
<1>2. Min(I) = 1
  <2>1. 1 \in I /\ I \subseteq Nat
    BY <1>1
  <2>2. Min(I) \in I
    BY <2>1, MinIs
  <2> QED BY <1>1, <2>2
<1> HIDE DEF I
<1>3. Deciding(h) = "rpl"
  <2>1. I # {} /\ h.opts[1] = "rpl"
    BY <1>1
  <2> QED BY <1>2, <2>1 DEF Deciding, I
<1>4. ~VerifyFails(h)
  BY Sizes DEF VerifyFails, WrongRank
<1> QED BY <1>3, <1>4 DEF Options

-----------------------------------------------------------------------------
(* The steps *)

\* Who an address belongs to.
LEMMA AddressesAre ==
  ASSUME NEW a
  PROVE  /\ UsedPrefix(a) => a \notin LinkLocal \cup Multicast \cup {None, SelfLL}
         /\ Self \notin LinkLocal \cup Multicast \cup {None, SelfLL, Virtual} /\ Self \notin Nodes
         /\ UsedPrefix(Self) /\ {Self, SelfLL} \subseteq Mine
         /\ a \in Mine => a = Self \/ a \in LinkLocal \cup Multicast
         /\ RplNodes \in Multicast /\ SelfLL \notin Multicast
  BY AddressAssumption DEF UsedPrefix, LinkLocal, Multicast, Mine

\* What was written, and what comes back, is as it was.
LEMMA StillSent ==
  ASSUME ForwardInv, UNCHANGED <<routes, seen, sent, back>>,
         caller # "timer" <=> caller' # "timer"
  PROVE  BackInv' /\ SentInv' /\ routes' \in [Nodes -> Learned]
<1>1. BackInv'
  BY DEF ForwardInv, BackInv
<1>2. WellFormed'
  BY DEF ForwardInv, SentInv, WellFormed
<1>3. PayloadIntact'
  BY DEF ForwardInv, SentInv, PayloadIntact
<1>4. RplStaysInside'
  BY DEF ForwardInv, SentInv, RplStaysInside
<1>5. AnswersGoBack'
  BY DEF ForwardInv, SentInv, AnswersGoBack, Own
<1>6. routes' \in [Nodes -> Learned]
  BY DEF ForwardInv, TypeInv
<1> QED BY <1>1, <1>2, <1>3, <1>4, <1>5, <1>6 DEF SentInv

\* A packet is dropped.
LEMMA DropStep ==
  ASSUME ForwardInv, NEW u \in Buffers, Drop(u), UNCHANGED <<caller, routes, seen, sent, back>>
  PROVE  ForwardInv'
<1>1. BackInv' /\ SentInv' /\ routes' \in [Nodes -> Learned]
  BY StillSent
<1>2. pc' = "end" /\ uip' = [u EXCEPT !.len = 0, !.ext = 0, !.bitmap = {}]
  BY DEF Drop
<1>3. uip' \in Buffers /\ uip'.len = 0 /\ uip'.ext = 0 /\ uip'.body = u.body
  <2> DEFINE w == [u EXCEPT !.len = 0, !.ext = 0, !.bitmap = {}]
             z == 0
             s == {}
  <2>1. w = [u EXCEPT !.len = z, !.ext = z, !.bitmap = s]
    OBVIOUS
  <2>2. z \in Int /\ z \in Nat /\ s \in SUBSET {"HBHO", "DESTO1", "DESTO2", "ROUTING"}
    OBVIOUS
  <2> HIDE DEF w, z, s
  <2>3. w \in Buffers /\ w.len = z /\ w.ext = z /\ w.body = u.body
    BY ZenonT(60), <2>1, <2>2 DEF Buffers
  <2> QED BY <1>2, <2>3 DEF w, z
<1>4. uip'.ext \in {Block * i : i \in 0..Len(uip'.body)}
  <2>1. 0 \in 0..Len(uip'.body) /\ uip'.ext = Block * 0
    BY <1>3, BufferIs, Sizes
  <2> QED BY <2>1
<1>5. TypeInv'
  <2>1. Fits(uip')
    BY <1>3, Room
  <2> QED BY <1>1, <1>2, <1>3, <1>4, <2>1 DEF ForwardInv, TypeInv
<1>6. ProcessInv' /\ HeadersInv' /\ OutputInv'
  BY <1>2 DEF ProcessInv, HeadersInv, OutputInv
<1> QED BY <1>1, <1>5, <1>6 DEF ForwardInv

\* A packet is passed on, or an answer to it is sent.
LEMMA SendStep ==
  ASSUME ForwardInv, NEW u \in Buffers, ExtIn(u), u.len >= 0, Fits(u),
         caller # "timer", caller' \in {"input", "rpl"}, sent = <<>>,
         u.len # 0 => /\ Measured(u)
                      /\ \E q \in 1..Len(u.body) :
                           /\ Formed(u, q) /\ Single(u, q)
                           /\ (caller' = "input" /\ Passing(u)) \/ Answer(u, q),
         Send(u), UNCHANGED <<routes, seen, sent, back>>
  PROVE  ForwardInv'
<1>1. BackInv' /\ SentInv' /\ routes' \in [Nodes -> Learned]
  BY StillSent
<1>2. pc' = "output" /\ uip' = u
  BY DEF Send
<1>3. TypeInv'
  BY <1>1, <1>2 DEF ForwardInv, TypeInv, ExtIn
<1>4. ProcessInv' /\ HeadersInv'
  BY <1>2 DEF ProcessInv, HeadersInv
<1>5. OutputInv'
  <2>1. SUFFICES ASSUME u.len # 0
                 PROVE  /\ Measured(u)
                        /\ \E q \in 1..Len(u.body) :
                             /\ Formed(u, q) /\ Single(u, q)
                             /\ Passing(u)' \/ Answer(u, q)'
    BY <1>2 DEF OutputInv, Measured, Formed, Single, Passing, Answer, Passed, Speaks
  <2>2. PICK q \in 1..Len(u.body) :
          /\ Formed(u, q) /\ Single(u, q)
          /\ (caller' = "input" /\ Passing(u)) \/ Answer(u, q)
    BY <2>1
  <2>3. (caller' = "input" /\ Passing(u)) => Passing(u)'
    BY DEF Passing, Passed
  <2>4. Answer(u, q) => Answer(u, q)'
    BY DEF Answer
  <2> QED BY <2>1, <2>2, <2>3, <2>4
<1> QED BY <1>1, <1>3, <1>4, <1>5 DEF ForwardInv

\* An error about the packet that arrived.
LEMMA ErrorStep ==
  ASSUME ForwardInv, NEW u, NEW q, Formed(u, q), ExtIn(u), Measured(u), NEW t,
         caller = "input", u.src = seen.p.src, ~ToLink(u), sent = <<>>,
         Send(uip_icmp6_error_output(u, t)), UNCHANGED <<caller, routes, seen, sent, back>>
  PROVE  ForwardInv'
<1> DEFINE e == uip_icmp6_error_output(u, t)
<1>1. /\ e \in Buffers /\ ExtIn(e) /\ e.len >= 0 /\ e.len <= MTU
      /\ e.len # 0 =>
           /\ Measured(e)
           /\ \E p \in 1..2 : Formed(e, p) /\ Single(e, p) /\ Speaks(e, p)
           /\ e.dst = u.src /\ e.src = select_src(u.dst)
  BY ErrorIs
<1> HIDE DEF e
<1>5. Fits(e)
  BY <1>1, Room
<1>2. ASSUME e.len # 0
      PROVE  /\ Measured(e)
             /\ \E p \in 1..Len(e.body) : Formed(e, p) /\ Single(e, p) /\ Answer(e, p)
  <2>1. PICK p \in 1..2 : Formed(e, p) /\ Single(e, p) /\ Speaks(e, p)
    BY <1>1, <1>2
  <2>2. p \in 1..Len(e.body)
    BY <2>1, FormedIs
  <2>3. Answer(e, p)
    <3>1. e.src \in {Self, SelfLL} /\ e.dst = seen.p.src
      BY <1>1, <1>2, SelectIs
    <3>2. UsedPrefix(e.dst) => e.src = Self
      BY <1>1, <1>2, SelectIs DEF ToLink
    <3> QED BY <2>1, <3>1, <3>2 DEF Answer
  <2> QED BY <1>1, <1>2, <2>1, <2>2, <2>3
<1>3. Send(e)
  BY DEF e
<1>4. e.len # 0 => /\ Measured(e)
                   /\ \E p \in 1..Len(e.body) :
                        /\ Formed(e, p) /\ Single(e, p)
                        /\ (caller' = "input" /\ Passing(e)) \/ Answer(e, p)
  BY <1>2
<1> QED BY <1>1, <1>3, <1>4, <1>5, SendStep

\* What depends on the packet alone.
LEMMA SameIs ==
  ASSUME NEW u, NEW q, Formed(u, q), NEW v \in Buffers, v.src = u.src, v.dst = u.dst,
         v.body = u.body, v.plen = u.plen, v.proto = u.proto
  PROVE  /\ Formed(v, q) /\ Keeps(u, v)
         /\ Single(v, q) <=> Single(u, q)
         /\ Speaks(v, q) <=> Speaks(u, q)
         /\ Inert(v, q) <=> Inert(u, q)
         /\ Asks(v, q) <=> Asks(u, q)
         /\ ToLink(v) <=> ToLink(u)
<1>1. Formed(v, q)
  BY DEF Formed
<1>2. Keeps(u, v)
  <2>1. /\ Upper(u) = SubSeq(u.body, q, Len(u.body)) /\ UpperBytes(u) = u.plen - Block * (q - 1)
        /\ Upper(v) = SubSeq(v.body, q, Len(v.body)) /\ UpperBytes(v) = v.plen - Block * (q - 1)
    BY <1>1, FormedUpper
  <2> QED BY <2>1 DEF Keeps
<1>3. /\ Single(v, q) <=> Single(u, q)
      /\ Speaks(v, q) <=> Speaks(u, q)
      /\ Asks(v, q) <=> Asks(u, q)
      /\ ToLink(v) <=> ToLink(u)
  BY DEF Single, Speaks, Asks, ToLink
<1>4. Inert(v, q) <=> Inert(u, q)
  BY <1>3 DEF Inert, Written
<1> QED BY <1>1, <1>2, <1>3, <1>4

\* What keeps addresses and message of a packet passes it on.
LEMMA PassedIs ==
  ASSUME NEW u, NEW v, Passed(u), Keeps(u, v)
  PROVE  Passed(v)
  BY DEF Passed, Keeps

Bitmaps == SUBSET {"HBHO", "DESTO1", "DESTO2", "ROUTING"}

\* A buffer with another bitmap of headers.
LEMMA BitmapIs ==
  ASSUME NEW u \in Buffers, NEW B \in Bitmaps, NEW v, v = [u EXCEPT !.bitmap = B]
  PROVE  /\ v \in Buffers /\ v.src = u.src /\ v.dst = u.dst /\ v.body = u.body
         /\ v.plen = u.plen /\ v.proto = u.proto /\ v.len = u.len /\ v.ext = u.ext
         /\ v.next = u.next
  BY DEF Buffers, Bitmaps

\* The buffer where uip_process begins to read it.
LEMMA FreshIs ==
  ASSUME NEW u \in Buffers
  PROVE  LET v == [u EXCEPT !.len = u.plen + IPH, !.next = u.proto, !.ext = 0, !.bitmap = {}]
         IN  /\ v \in Buffers /\ v.src = u.src /\ v.dst = u.dst /\ v.body = u.body
             /\ v.plen = u.plen /\ v.proto = u.proto /\ Measured(v) /\ v.ext = 0
             /\ v.next = u.proto
<1> DEFINE l == u.plen + IPH
           p == u.proto
           z == 0
           B == {}
           v == [u EXCEPT !.len = l, !.next = p, !.ext = z, !.bitmap = B]
<1>1. l \in Int /\ p \in Protos /\ z \in Nat /\ B \in Bitmaps
  BY BufferIs, Sizes DEF Bitmaps
<1> HIDE DEF l, p, z, B
<1>2. /\ v \in Buffers /\ v.src = u.src /\ v.dst = u.dst /\ v.body = u.body
      /\ v.plen = u.plen /\ v.proto = u.proto /\ v.len = l /\ v.ext = z /\ v.next = p
  BY <1>1 DEF Buffers, Bitmaps
<1> HIDE DEF v
<1>3. Measured(v)
  BY <1>2 DEF Measured, l
<1> QED BY <1>2, <1>3 DEF v, l, p, z, B

\* The hop limit is decremented.
LEMMA TtlIs ==
  ASSUME NEW u \in Buffers, NEW v, v = [u EXCEPT !.ttl = @ - 1], ~(u.ttl <= 1)
  PROVE  /\ v \in Buffers /\ v.src = u.src /\ v.dst = u.dst /\ v.body = u.body
         /\ v.plen = u.plen /\ v.proto = u.proto /\ v.len = u.len /\ v.ext = u.ext
<1> DEFINE n == u.ttl - 1
<1>1. n \in 0..255
  BY BufferIs
<1>2. v = [u EXCEPT !.ttl = n]
  OBVIOUS
<1> HIDE DEF n
<1> QED BY <1>1, <1>2 DEF Buffers

\* The headers read so far are a number of blocks.
LEMMA ExtAtIs ==
  ASSUME NEW u \in Buffers, NEW n \in 0..Len(u.body), u.ext = Block * n
  PROVE  ExtIn(u)
  BY DEF ExtIn

\* The packet is for the gateway, or on its way, or refused.
LEMMA DispatchStep ==
  ASSUME ForwardInv, caller = "input", sent = <<>>,
         NEW u, NEW q, Formed(u, q), Measured(u), Passed(u), Fits(u),
         u.dst \in Mine => q <= 32,
         u.dst \notin Mine => Single(u, q),
         Asks(u, q) => q = 1,
         NEW e \in 1..q, u.ext = Block * (e - 1), u.next = Proto(u.body[e]),
         ToLink(u) => u.dst \notin Mine \/ (u.next = "ICMP6" /\ Speaks(u, q)),
         Dispatch(u), UNCHANGED <<caller, routes, seen, sent, back>>
  PROVE  ForwardInv'
<1>1. /\ u \in Buffers /\ q \in 1..Len(u.body) /\ q \in Nat /\ u.body \in Seq(Blocks)
      /\ u.plen \in Nat /\ u.len \in Int
  BY FormedIs, BufferIs
<1>2. ExtIn(u)
  <2>1. e - 1 \in 0..Len(u.body) /\ u.ext = Block * (e - 1)
    BY <1>1
  <2> QED BY <1>1, <2>1, ExtAtIs
<1>3. u.src = seen.p.src
  BY DEF Passed
<1>4. CASE u.dst \in Mine
  <2>1. pc' = "headers" /\ uip' = u
    BY <1>4 DEF Dispatch
  <2>2. BackInv' /\ SentInv' /\ routes' \in [Nodes -> Learned]
    BY StillSent
  <2>3. TypeInv'
    BY <1>1, <1>2, <2>1, <2>2 DEF ForwardInv, TypeInv, ExtIn
  <2>4. ProcessInv' /\ OutputInv'
    BY <2>1 DEF ProcessInv, OutputInv
  <2>5. /\ caller' = "input" /\ u.src = seen'.p.src
        /\ \E r \in 1..Len(u.body) : \E f \in 1..r :
             /\ Formed(u, r) /\ r <= 32
             /\ u.ext = Block * (f - 1) /\ u.next = Proto(u.body[f])
             /\ Asks(u, r) => r = 1
             /\ ToLink(u) => u.next = "ICMP6" /\ Speaks(u, r)
    BY <1>1, <1>3, <1>4
  <2>6. HeadersInv'
    BY <1>4, <2>1, <2>5 DEF HeadersInv, Formed, Measured, Asks, ToLink, Speaks
  <2> QED BY <2>2, <2>3, <2>4, <2>6 DEF ForwardInv
<1>5. CASE u.dst \notin Mine /\ Forwarded(u)
  <2>1. Send(Forward(u))
    BY <1>5 DEF Dispatch
  <2>2. ~ToLink(u) /\ Far(u.dst)
    BY <1>5 DEF ToLink, Far, Forwarded
  <2>3. CASE u.len > MTU
    <3>1. Send(uip_icmp6_error_output(u, "big"))
      BY <2>1, <2>3 DEF Forward
    <3> QED BY <1>2, <1>3, <2>2, <3>1, ErrorStep
  <2>4. CASE ~(u.len > MTU) /\ u.ttl <= 1
    <3>1. Send(uip_icmp6_error_output(u, "time"))
      BY <2>1, <2>4 DEF Forward
    <3> QED BY <1>2, <1>3, <2>2, <3>1, ErrorStep
  <2>5. CASE ~(u.len > MTU) /\ ~(u.ttl <= 1)
    <3> DEFINE v == [u EXCEPT !.ttl = @ - 1]
    <3>1. Send(v)
      BY <2>1, <2>5 DEF Forward
    <3>2. /\ v \in Buffers /\ v.src = u.src /\ v.dst = u.dst /\ v.body = u.body
          /\ v.plen = u.plen /\ v.proto = u.proto /\ v.len = u.len /\ v.ext = u.ext
      <4>1. u \in Buffers /\ ~(u.ttl <= 1)
        BY <1>1, <2>5
      <4> HIDE DEF v
      <4>2. v = [u EXCEPT !.ttl = @ - 1]
        BY DEF v
      <4> QED BY <4>1, <4>2, TtlIs
    <3> HIDE DEF v
    <3>3. Formed(v, q) /\ Keeps(u, v) /\ Single(v, q)
      BY <1>5, <3>2, SameIs
    <3>4. Passing(v)
      BY <2>2, <3>2, <3>3, PassedIs DEF Passing
    <3>5. ExtIn(v) /\ Measured(v)
      BY <1>2, <3>2 DEF ExtIn, Measured
    <3>6. v.len >= 0 /\ Fits(v)
      BY <1>1, <3>2, Sizes DEF Measured, Fits
    <3>7. q \in 1..Len(v.body)
      BY <1>1, <3>2
    <3>8. \E r \in 1..Len(v.body) : /\ Formed(v, r) /\ Single(v, r)
                                    /\ (caller' = "input" /\ Passing(v)) \/ Answer(v, r)
      BY <3>3, <3>4, <3>7
    <3> QED BY <3>1, <3>2, <3>5, <3>6, <3>8, SendStep
  <2> QED BY <2>3, <2>4, <2>5
<1>6. CASE /\ u.dst \notin Mine /\ ~Forwarded(u)
           /\ u.src \in LinkLocal /\ u.dst \notin Multicast /\ ~OnLink(u.dst)
  <2>1. Send(uip_icmp6_error_output(u, "notneighbor"))
    BY <1>6 DEF Dispatch
  <2>2. ~ToLink(u)
    BY <1>6, AddressesAre DEF ToLink
  <2> QED BY <1>2, <1>3, <2>1, <2>2, ErrorStep
<1>7. CASE /\ u.dst \notin Mine /\ ~Forwarded(u)
           /\ ~(u.src \in LinkLocal /\ u.dst \notin Multicast /\ ~OnLink(u.dst))
  <2>1. Drop(u)
    BY <1>7 DEF Dispatch
  <2> QED BY <1>1, <2>1, DropStep
<1> QED BY <1>4, <1>5, <1>6, <1>7

\* uip_process, up to the headers of a packet for the gateway.
LEMMA ProcessStep ==
  ASSUME ForwardInv, uip_process
  PROVE  ForwardInv'
<1> DEFINE u == [uip EXCEPT !.len = uip.plen + IPH, !.next = uip.proto, !.ext = 0, !.bitmap = {}]
           v == [u EXCEPT !.bitmap = {"HBHO"}]
           w == AfterOptions(v)
<1>1. pc = "process" /\ UNCHANGED <<caller, routes, seen, sent, back>>
  BY DEF uip_process
<1>2. uip \in Buffers /\ caller = "input" /\ Passed(uip) /\ sent = <<>>
  BY <1>1 DEF ForwardInv, TypeInv, ProcessInv
<1>3. PICK q \in 1..Len(uip.body) :
        /\ Formed(uip, q)
        /\ uip.dst \in Mine => q <= 32
        /\ uip.dst \notin Mine => Single(uip, q)
        /\ Asks(uip, q) => q = 1
        /\ ToLink(uip) => (uip.dst \notin Mine /\ uip.proto # "HBHO") \/ Inert(uip, q)
  BY <1>1 DEF ForwardInv, ProcessInv
<1>4. /\ u \in Buffers /\ u.src = uip.src /\ u.dst = uip.dst /\ u.body = uip.body
      /\ u.plen = uip.plen /\ u.proto = uip.proto /\ Measured(u) /\ u.ext = 0
      /\ u.next = uip.proto
  BY <1>2, FreshIs
<1>5. \/ Drop(uip)
      \/ uip.proto # "HBHO" /\ Dispatch(u) /\ ~(uip.plen > uip.len)
      \/ uip.proto = "HBHO" /\ Options(v) = "continue" /\ Dispatch(w) /\ ~(uip.plen > uip.len)
      \/ Drop(v)
      \/ /\ uip.proto = "HBHO" /\ Options(v) # "continue"
         /\ Send(uip_icmp6_error_output(v, "option"))
  BY DEF uip_process
<1> HIDE DEF u
<1>6. /\ v \in Buffers /\ v.src = u.src /\ v.dst = u.dst /\ v.body = u.body
      /\ v.plen = u.plen /\ v.proto = u.proto /\ v.len = u.len /\ v.ext = u.ext
      /\ v.next = u.next
  <2>1. {"HBHO"} \in Bitmaps
    BY DEF Bitmaps
  <2>2. v = [u EXCEPT !.bitmap = {"HBHO"}]
    OBVIOUS
  <2> HIDE DEF v
  <2> QED BY ZenonT(60), <1>4, <2>1, <2>2, BitmapIs
<1> HIDE DEF v, w
\* What holds of the packet as it came holds with the lengths set.
<1>7. /\ Formed(u, q) /\ Keeps(uip, u) /\ Passed(u)
      /\ Single(u, q) <=> Single(uip, q)
      /\ Speaks(u, q) <=> Speaks(uip, q)
      /\ Inert(u, q) <=> Inert(uip, q)
      /\ Asks(u, q) <=> Asks(uip, q)
      /\ ToLink(u) <=> ToLink(uip)
  <2>1. /\ Formed(u, q) /\ Keeps(uip, u)
        /\ Single(u, q) <=> Single(uip, q)
        /\ Speaks(u, q) <=> Speaks(uip, q)
        /\ Inert(u, q) <=> Inert(uip, q)
        /\ Asks(u, q) <=> Asks(uip, q)
        /\ ToLink(u) <=> ToLink(uip)
    BY <1>3, <1>4, SameIs
  <2> QED BY <1>2, <2>1, PassedIs
<1>8. /\ Formed(v, q) /\ Keeps(u, v) /\ Passed(v) /\ Measured(v)
      /\ Single(v, q) <=> Single(uip, q)
      /\ Speaks(v, q) <=> Speaks(uip, q)
      /\ Inert(v, q) <=> Inert(uip, q)
      /\ Asks(v, q) <=> Asks(uip, q)
      /\ ToLink(v) <=> ToLink(uip)
  <2>1. /\ Formed(v, q) /\ Keeps(u, v)
        /\ Single(v, q) <=> Single(u, q)
        /\ Speaks(v, q) <=> Speaks(u, q)
        /\ Inert(v, q) <=> Inert(u, q)
        /\ Asks(v, q) <=> Asks(u, q)
        /\ ToLink(v) <=> ToLink(u)
    BY <1>6, <1>7, SameIs
  <2>2. Measured(v)
    BY <1>4, <1>6 DEF Measured
  <2> QED BY <1>7, <2>1, <2>2, PassedIs
<1>9. q \in 1..Len(uip.body) /\ 1 \in 1..q /\ 0 \in 0..Len(uip.body) /\ 0 = Block * (1 - 1)
  BY <1>2, BufferIs, Sizes
\* The length that uip_process sets: that of the payload, which it compared with
\* what came, and the header.
<1>15. ASSUME ~(uip.plen > uip.len) PROVE Fits(u)
  <2>1. uip.len <= BufSize
    BY <1>1 DEF ForwardInv, ProcessInv
  <2>2. u.len = uip.plen + 40
    BY <1>4, Sizes DEF Measured
  <2>3. uip.plen \in Nat /\ uip.len \in Int /\ BufSize \in Nat
    BY <1>2, BufferIs, Room DEF BufSize
  <2> QED BY <1>15, <2>1, <2>2, <2>3, Sizes DEF Fits
<1>10. CASE Drop(uip)
  BY <1>1, <1>2, <1>10, DropStep
<1>11. CASE Drop(v)
  BY <1>1, <1>6, <1>11, DropStep
<1>12. CASE uip.proto # "HBHO" /\ Dispatch(u) /\ ~(uip.plen > uip.len)
  <2>1. u.ext = Block * (1 - 1) /\ u.next = Proto(u.body[1])
    BY <1>3, <1>4, <1>9 DEF Formed
  <2>2. ToLink(u) => u.dst \notin Mine \/ (u.next = "ICMP6" /\ Speaks(u, q))
    <3>1. ASSUME Inert(uip, q) PROVE u.next = "ICMP6" /\ Speaks(u, q)
      <4>1. q = 1
        BY <1>3, <1>9, <1>12, <3>1, FormedIs DEF Inert, Written, Speaks
      <4>2. uip.body[1].k = "icmp" /\ uip.body[1] \in Blocks
        BY <1>3, <3>1, <4>1, FormedIs DEF Inert, Written, Speaks
      <4> QED BY <1>4, <1>7, <2>1, <3>1, <4>2, ProtoIs DEF Inert, Written
    <3> QED BY <1>3, <1>4, <1>7, <3>1
  <2>3. u.dst \notin Mine => Single(u, q)
    BY <1>3, <1>4, <1>7
  <2>5. Fits(u) /\ (u.dst \in Mine => q <= 32)
    BY <1>3, <1>4, <1>12, <1>15
  <2>4. Asks(u, q) => q = 1
    BY <1>3, <1>7
  <2> QED BY <1>1, <1>2, <1>4, <1>7, <1>9, <1>12, <2>1, <2>2, <2>3, <2>4, <2>5, DispatchStep
<1>13. CASE /\ uip.proto = "HBHO" /\ Options(v) = "continue" /\ Dispatch(w)
            /\ ~(uip.plen > uip.len)
  <2>1. uip.body[1].k = "hbho" /\ q >= 2 /\ uip.body[1].len = 0
    BY <1>3, <1>13, FormedIs, HbhoIs
  <2>2. 1 \in 1..(q - 1) /\ v.ext = Block * (1 - 1) /\ v.body[1].k \in {"hbho", "desto"}
    BY <1>4, <1>6, <1>9, <2>1
  <2>3. /\ w \in Buffers /\ Formed(w, q) /\ Keeps(v, w)
        /\ w.len = v.len /\ w.plen = v.plen /\ w.proto = v.proto
        /\ w.body[q] = v.body[q]
        /\ Single(v, q) => Single(w, q)
        /\ Speaks(v, q) => Speaks(w, q)
        /\ \E f \in 1..q : /\ f = 1 + v.body[1].len + 1
                           /\ w.ext = Block * (f - 1) /\ w.next = Proto(w.body[f])
    <3>0. v.body[1].len = 0
      BY <1>4, <1>6, <2>1
    <3>1. Reading(v, q, 1)
      BY <1>8, <2>2, <3>0 DEF Reading
    <3> QED BY <3>1, AfterIs DEF w
  <2>4. 2 \in 1..q /\ w.ext = Block * (2 - 1) /\ w.next = Proto(w.body[2])
    <3>1. v.body[1].len = 0
      BY <1>4, <1>6, <2>1
    <3>2. PICK f \in 1..q : /\ f = 1 + v.body[1].len + 1
                            /\ w.ext = Block * (f - 1) /\ w.next = Proto(w.body[f])
      BY <2>3
    <3>3. f = 2
      BY <3>1, <3>2
    <3> QED BY <3>2, <3>3
  <2>5. w.src = v.src /\ w.dst = v.dst /\ Passed(w) /\ Measured(w)
    <3>1. Measured(w)
      BY <1>8, <2>3 DEF Measured
    <3> QED BY <1>8, <2>3, <3>1, PassedIs DEF Keeps
  <2>6. ToLink(w) => w.dst \notin Mine \/ (w.next = "ICMP6" /\ Speaks(w, q))
    <3>1. ToLink(w) => Inert(v, q)
      BY <1>3, <1>8, <1>13, <2>5 DEF ToLink
    <3>2. ASSUME Inert(v, q) PROVE w.next = "ICMP6" /\ Speaks(w, q)
      <4>1. Speaks(w, q) /\ q = 2
        BY <1>9, <2>1, <2>3, <3>2 DEF Inert, Written, Speaks
      <4>2. w.body[2].k = "icmp" /\ w.body[2] \in Blocks
        BY <2>3, <4>1, FormedIs DEF Speaks
      <4> QED BY <2>4, <4>1, <4>2, ProtoIs
    <3> QED BY <3>1, <3>2
  <2>7. w.dst \notin Mine => Single(w, q)
    BY <1>3, <1>4, <1>6, <1>8, <2>3, <2>5
  <2>8. Asks(w, q) => q = 1
    BY <1>3, <1>8, <2>3, <2>5 DEF Asks
  <2>9. Dispatch(w)
    BY <1>13
  <2>10. Fits(w) /\ (w.dst \in Mine => q <= 32)
    <3>1. Fits(u) /\ w.len = u.len
      BY <1>6, <1>13, <1>15, <2>3
    <3> QED BY <1>3, <1>4, <1>6, <2>5, <3>1 DEF Fits
  <2> QED BY <1>1, <1>2, <2>3, <2>4, <2>5, <2>6, <2>7, <2>8, <2>9, <2>10, DispatchStep
<1>14. CASE /\ uip.proto = "HBHO" /\ Options(v) # "continue"
            /\ Send(uip_icmp6_error_output(v, "option"))
  <2>1. ~ToLink(v)
    <3>1. SUFFICES ASSUME Inert(v, q) PROVE Options(v) = "continue"
      BY <1>3, <1>8, <1>14
    <3>2. uip.body[1].k = "hbho" /\ q >= 2
      BY <1>3, <1>14, FormedIs, HbhoIs
    <3>3. q = 2 /\ Ext(v) = v.body[1]
      <4>1. v.ext \div Block = 0
        BY <1>4, <1>6, Sizes
      <4> QED BY <1>9, <3>1, <3>2, <4>1 DEF Ext, Inert, Written, Speaks
    <3> QED BY <3>1, <3>3, InertIs DEF Inert, Written
  <2>2. v.src = seen.p.src /\ ExtIn(v)
    <3>1. v.ext = Block * 0 /\ 0 \in 0..Len(v.body)
      BY <1>4, <1>6, <1>9
    <3> QED BY <1>6, <1>8, <3>1, ExtAtIs DEF Passed
  <2> QED BY <1>1, <1>2, <1>8, <1>14, <2>1, <2>2, ErrorStep
<1> QED BY <1>5, <1>10, <1>11, <1>12, <1>13, <1>14

\* One header of a packet for the gateway.
LEMMA NextHeaderStep ==
  ASSUME ForwardInv, NextHeader
  PROVE  ForwardInv'
<1> DEFINE s == Seen(uip, uip.next)
           v == [uip EXCEPT !.bitmap = @ \cup {s}]
<1>1. /\ pc = "headers" /\ UNCHANGED <<caller, routes, seen, sent, back>>
      /\ uip.next \in {"HBHO", "DESTO", "ROUTING"}
  BY DEF NextHeader
<1>2. /\ uip \in Buffers /\ caller = "input" /\ uip.dst \in Mine /\ uip.src = seen.p.src
      /\ Measured(uip) /\ ExtIn(uip) /\ Fits(uip) /\ sent = <<>>
  BY <1>1 DEF ForwardInv, TypeInv, HeadersInv, ExtIn
<1>3. PICK q \in 1..Len(uip.body) : \E e \in 1..q :
        /\ Formed(uip, q) /\ q <= 32
        /\ uip.ext = Block * (e - 1) /\ uip.next = Proto(uip.body[e])
        /\ Asks(uip, q) => q = 1
        /\ ToLink(uip) => uip.next = "ICMP6" /\ Speaks(uip, q)
  BY <1>1 DEF ForwardInv, HeadersInv
<1>4. PICK e \in 1..q : /\ Formed(uip, q) /\ q <= 32
                        /\ uip.ext = Block * (e - 1) /\ uip.next = Proto(uip.body[e])
                        /\ Asks(uip, q) => q = 1
                        /\ ToLink(uip) => uip.next = "ICMP6" /\ Speaks(uip, q)
  BY <1>3
<1>5. \/ Send(uip_icmp6_error_output(uip, "nextheader"))
      \/ /\ uip.next = "ROUTING" /\ pc' = "headers"
         /\ uip' = [v EXCEPT !.next = Ext(v).next, !.ext = Longer(@, Bytes(Ext(v)))]
      \/ Send(uip_icmp6_error_output(v, "header"))
      \/ /\ uip.next # "ROUTING" /\ pc' = "headers" /\ uip' = AfterOptions(v)
      \/ Drop(v)
      \/ Send(uip_icmp6_error_output(v, "option"))
  BY DEF NextHeader
<1>6. /\ v \in Buffers /\ v.src = uip.src /\ v.dst = uip.dst /\ v.body = uip.body
      /\ v.plen = uip.plen /\ v.proto = uip.proto /\ v.len = uip.len /\ v.ext = uip.ext
      /\ v.next = uip.next
  <2> DEFINE B == uip.bitmap \cup {s}
  <2>1. B \in Bitmaps
    <3>1. uip.bitmap \in Bitmaps
      BY <1>2, BufferIs DEF Bitmaps
    <3>2. s \in {"HBHO", "DESTO1", "DESTO2", "ROUTING"}
      BY <1>1 DEF Seen
    <3> QED BY <3>1, <3>2 DEF Bitmaps
  <2>2. v = [uip EXCEPT !.bitmap = B]
    OBVIOUS
  <2> HIDE DEF v, B
  <2> QED BY <1>2, <2>1, <2>2, BitmapIs
<1> HIDE DEF v, s
<1>7. /\ Formed(v, q)
      /\ ToLink(v) <=> ToLink(uip)
  BY <1>4, <1>6, SameIs
<1>8. ~ToLink(uip) /\ ~ToLink(v) /\ Formed(v, q)
  <2>1. ~ToLink(uip)
    BY <1>1, <1>4
  <2>2. Formed(v, q) /\ (ToLink(v) => ToLink(uip))
    BY <1>7
  <2> QED BY <2>1, <2>2
<1>9. Measured(v) /\ ExtIn(v) /\ v.src = seen.p.src /\ Fits(v)
  BY <1>2, <1>6 DEF Measured, ExtIn, Fits
\* The header that is read, and the block behind it.
<1>10. /\ IsHeader(uip.body[e]) /\ e \in 1..(q - 1) /\ Ext(v) = uip.body[e]
       /\ uip.body[e] \in Blocks
       /\ uip.next # "ROUTING" => uip.body[e].k \in {"hbho", "desto"}
  <2>1. /\ uip.body \in Seq(Blocks) /\ q \in 1..Len(uip.body) /\ e \in 1..Len(uip.body)
        /\ Linked(uip.body, q) /\ e \in Nat /\ q \in Nat
    BY <1>4, FormedIs
  <2>2. uip.body[e] \in Blocks
    BY <2>1
  <2>3. /\ IsHeader(uip.body[e])
        /\ uip.next # "ROUTING" => uip.body[e].k \in {"hbho", "desto"}
    BY <1>1, <1>4, <2>2, ProtoIs DEF IsHeader
  <2>4. e # q
    BY <2>1, <2>3 DEF Linked
  <2>5. Ext(v) = uip.body[e]
    <3>1. v.ext = 8 * (e - 1)
      BY <1>4, <1>6, Sizes
    <3>2. (8 * (e - 1)) \div 8 = e - 1
      BY <2>1
    <3>3. (v.ext \div Block) + 1 = e
      BY <2>1, <3>1, <3>2 DEF Block
    <3> QED BY <1>6, <3>3 DEF Ext
  <2> QED BY <2>1, <2>2, <2>3, <2>4, <2>5
\* The loop goes on with a packet w, whose headers are read up to block f.
<1>11. ASSUME NEW w \in Buffers, Formed(w, q), w.src = uip.src, w.dst = uip.dst, Measured(w),
              Fits(w), w.body[q] = uip.body[q],
              NEW f \in 1..q, w.ext = Block * (f - 1), w.next = Proto(w.body[f]),
              pc' = "headers", uip' = w
       PROVE  ForwardInv'
  <2>1. BackInv' /\ SentInv' /\ routes' \in [Nodes -> Learned]
    BY <1>1, StillSent
  <2>2. ExtIn(w) /\ q \in 1..Len(w.body)
    <3>1. q \in 1..Len(w.body)
      BY <1>11, FormedIs
    <3>2. f - 1 \in 0..Len(w.body)
      BY <3>1
    <3> QED BY <1>11, <3>1, <3>2, ExtAtIs
  <2>3. TypeInv'
    BY <1>1, <1>2, <1>11, <2>1, <2>2 DEF ForwardInv, TypeInv, ExtIn
  <2>4. ProcessInv' /\ OutputInv'
    BY <1>11 DEF ProcessInv, OutputInv
  <2>5. Asks(w, q) => q = 1
    BY <1>4, <1>11 DEF Asks
  <2>6. ~ToLink(w)
    BY <1>8, <1>11 DEF ToLink
  <2>7. caller' = "input" /\ w.src = seen'.p.src
        /\ \E r \in 1..Len(w.body) : \E g \in 1..r :
             /\ Formed(w, r) /\ r <= 32
             /\ w.ext = Block * (g - 1) /\ w.next = Proto(w.body[g])
             /\ Asks(w, r) => r = 1
             /\ ToLink(w) => w.next = "ICMP6" /\ Speaks(w, r)
    BY <1>1, <1>2, <1>4, <1>11, <2>2, <2>5, <2>6
  <2>8. HeadersInv'
    BY <1>2, <1>11, <2>7 DEF HeadersInv, Formed, Measured, Asks, ToLink, Speaks
  <2> QED BY <2>1, <2>3, <2>4, <2>8 DEF ForwardInv
<1>12. CASE Send(uip_icmp6_error_output(uip, "nextheader"))
  BY <1>1, <1>2, <1>4, <1>8, <1>12, ErrorStep
<1>13. CASE Send(uip_icmp6_error_output(v, "header"))
  BY <1>1, <1>2, <1>8, <1>9, <1>13, ErrorStep
<1>14. CASE Send(uip_icmp6_error_output(v, "option"))
  BY <1>1, <1>2, <1>8, <1>9, <1>14, ErrorStep
<1>15. CASE Drop(v)
  BY <1>1, <1>6, <1>15, DropStep
<1>16. CASE uip.next # "ROUTING" /\ pc' = "headers" /\ uip' = AfterOptions(v)
  <2> DEFINE w == AfterOptions(v)
  <2>1. v.ext = Block * (e - 1) /\ v.body[e].k \in {"hbho", "desto"}
    BY <1>4, <1>6, <1>10, <1>16
  <2>0. Formed(v, q) /\ e \in 1..(q - 1)
    BY <1>8, <1>10
  <2>2. /\ w \in Buffers /\ Formed(w, q) /\ Keeps(v, w)
        /\ w.len = v.len /\ w.plen = v.plen /\ w.proto = v.proto
        /\ w.body[q] = v.body[q]
        /\ \E f \in 1..q : /\ f = e + v.body[e].len + 1
                           /\ w.ext = Block * (f - 1) /\ w.next = Proto(w.body[f])
    <3>1. e + v.body[e].len + 1 <= 32
      <4> DEFINE l == uip.body[e].len
      <4>1. l \in Nat /\ e + l + 1 <= q
        BY <1>4, <1>10, BlockIs DEF Formed, Linked
      <4>2. e \in Nat /\ q \in Nat /\ q <= 32
        BY <1>4, FormedIs
      <4> HIDE DEF l
      <4>3. e + l + 1 <= 32
        BY <4>1, <4>2
      <4> QED BY <1>6, <4>3 DEF l
    <3>2. Reading(v, q, e)
      BY <2>0, <2>1, <3>1 DEF Reading
    <3> QED BY <3>2, AfterIs
  <2> HIDE DEF w
  <2>3. PICK f \in 1..q : w.ext = Block * (f - 1) /\ w.next = Proto(w.body[f])
    BY <2>2
  <2>4. w.src = uip.src /\ w.dst = uip.dst /\ Measured(w) /\ w.body[q] = uip.body[q] /\ Fits(w)
    BY <1>6, <1>9, <2>2 DEF Keeps, Measured, Fits
  <2> QED BY <1>11, <1>16, <2>2, <2>3, <2>4 DEF w
<1>17. CASE /\ uip.next = "ROUTING" /\ pc' = "headers"
            /\ uip' = [v EXCEPT !.next = Ext(v).next, !.ext = Longer(@, Bytes(Ext(v)))]
  <2> DEFINE h == uip.body[e]
             f == e + h.len + 1
             x == Longer(v.ext, Bytes(h))
             p == h.next
             w == [v EXCEPT !.next = p, !.ext = x]
  <2>1. uip' = w
    BY <1>10, <1>17
  <2>2. h.len \in Nat /\ p \in Protos /\ f <= q /\ p = Proto(uip.body[f])
    <3>1. h.len \in Nat /\ p \in Protos
      BY <1>10, BlockIs
    <3> QED BY <1>4, <1>10, <3>1 DEF Formed, Linked
  <2>3. f \in 1..q /\ x = Block * (f - 1) /\ x \in Nat
    <3>1. e \in Nat /\ e >= 1 /\ q \in Nat
      BY <1>4, FormedIs
    <3>2. v.ext = 8 * (e - 1) /\ Bytes(h) = (h.len + 1) * 8
      BY <1>4, <1>6, Sizes DEF Bytes
    <3>3. x = (8 * (e - 1) + (h.len + 1) * 8) % 256
      BY <3>2 DEF Longer
    <3>4. 8 * (e - 1) + (h.len + 1) * 8 = 8 * (f - 1)
      BY <2>2, <3>1, Behind
    <3>5. f \in 1..q
      BY <2>2, <3>1
    <3>6. x = Block * (f - 1)
      <4> HIDE DEF f
      <4>1. q \in Nat /\ q <= 32 /\ f \in Nat /\ f >= 1 /\ f <= q
        BY <1>4, <3>5, FormedIs
      <4>2. 8 * (f - 1) \in 0..255
        BY <4>1
      <4>3. (8 * (f - 1)) % 256 = 8 * (f - 1)
        BY <4>2, NoWrap
      <4>4. x = (8 * (f - 1)) % 256
        BY <3>3, <3>4
      <4>5. Block = 8
        BY Sizes
      <4> HIDE DEF x
      <4> QED BY <4>3, <4>4, <4>5
    <3>7. Block * (f - 1) \in Nat
      BY <3>1, <3>5, Sizes
    <3> QED BY <3>5, <3>6, <3>7
  <2> HIDE DEF x, p, f
  <2>4. /\ w \in Buffers /\ w.src = v.src /\ w.dst = v.dst /\ w.body = v.body
        /\ w.plen = v.plen /\ w.proto = v.proto /\ w.len = v.len /\ w.ext = x /\ w.next = p
    BY <1>6, <2>2, <2>3 DEF Buffers
  <2> HIDE DEF w
  <2>5. Formed(w, q)
    BY <1>8, <2>4, SameIs
  <2>6. Measured(w) /\ Fits(w)
    BY <1>9, <2>4 DEF Measured, Fits
  <2> QED BY <1>6, <1>11, <1>17, <2>1, <2>2, <2>3, <2>4, <2>5, <2>6
<1> QED BY <1>5, <1>12, <1>13, <1>14, <1>15, <1>16, <1>17

\* What the gateway does not read.
LEMMA NoUpperLayerStep ==
  ASSUME ForwardInv, NoUpperLayer
  PROVE  ForwardInv'
<1>1. /\ pc = "headers" /\ UNCHANGED <<caller, routes, seen, sent, back>>
      /\ uip.next \notin {"HBHO", "DESTO", "ROUTING", "ICMP6"}
      /\ Drop(uip) \/ Send(uip_icmp6_error_output(uip, "nextheader"))
  BY DEF NoUpperLayer
<1>2. /\ uip \in Buffers /\ caller = "input" /\ uip.src = seen.p.src
      /\ Measured(uip) /\ ExtIn(uip) /\ sent = <<>>
  BY <1>1 DEF ForwardInv, TypeInv, HeadersInv, ExtIn
<1>3. PICK q \in 1..Len(uip.body) : Formed(uip, q) /\ (ToLink(uip) => uip.next = "ICMP6")
  BY <1>1 DEF ForwardInv, HeadersInv
<1>4. CASE Drop(uip)
  BY <1>1, <1>2, <1>4, DropStep
<1>5. CASE Send(uip_icmp6_error_output(uip, "nextheader"))
  BY <1>1, <1>2, <1>3, <1>5, ErrorStep
<1> QED BY <1>1, <1>4, <1>5

\* A message for the gateway, and the answer to it.
LEMMA Icmp6InputStep ==
  ASSUME ForwardInv, Icmp6Input
  PROVE  ForwardInv'
<1>1. /\ pc = "headers" /\ UNCHANGED <<routes, seen, sent, back>> /\ uip.next = "ICMP6"
  BY DEF Icmp6Input
<1>2. /\ uip \in Buffers /\ caller = "input" /\ uip.src = seen.p.src /\ uip.dst \in Mine
      /\ Measured(uip) /\ ExtIn(uip) /\ Fits(uip) /\ uip.src \in Addresses /\ sent = <<>>
  BY <1>1, BufferIs DEF ForwardInv, TypeInv, HeadersInv, ExtIn
<1>3. PICK q \in 1..Len(uip.body) : \E e \in 1..q :
        /\ Formed(uip, q) /\ q <= 32
        /\ uip.ext = Block * (e - 1) /\ uip.next = Proto(uip.body[e])
        /\ Asks(uip, q) => q = 1
        /\ ToLink(uip) => uip.next = "ICMP6" /\ Speaks(uip, q)
  BY <1>1 DEF ForwardInv, HeadersInv
<1>4. PICK e \in 1..q : /\ Formed(uip, q) /\ q <= 32
                        /\ uip.ext = Block * (e - 1) /\ uip.next = Proto(uip.body[e])
                        /\ Asks(uip, q) => q = 1
                        /\ ToLink(uip) => uip.next = "ICMP6" /\ Speaks(uip, q)
  BY <1>3
<1>5. e = q /\ uip.body[q].k = "icmp" /\ Ext(uip) = uip.body[q] /\ uip.ext = Block * (q - 1)
  <2>1. /\ uip.body \in Seq(Blocks) /\ q \in 1..Len(uip.body) /\ e \in 1..Len(uip.body)
        /\ Linked(uip.body, q) /\ e \in Nat /\ q \in Nat /\ e <= q
    BY <1>4, FormedIs
  <2>2. uip.body[e].k = "icmp"
    BY <1>1, <1>4, <2>1, ProtoIs
  <2>3. e = q
    <3>1. e \in 1..(q - 1) \/ e = q
      BY <2>1
    <3> QED BY <2>1, <2>2, <3>1 DEF Linked, IsHeader
  <2>4. uip.ext = 8 * (q - 1)
    BY <1>4, <2>3, Sizes
  <2>5. (8 * (q - 1)) \div 8 = q - 1
    BY <2>1
  <2>6. (uip.ext \div Block) + 1 = q
    BY <2>1, <2>4, <2>5 DEF Block
  <2> QED BY <1>4, <2>2, <2>3, <2>6 DEF Ext
<1>6. \/ /\ uip.body[q].type = "echo" /\ caller' = caller
         /\ Send(uip_icmp6_echo_request_input(uip))
      \/ /\ uip.body[q].type \in {"DIS", "DAO"} /\ caller' = "rpl"
         /\ \E t \in {"DIO", "ACK"} : Send(uip_icmp6_send(uip, uip.src, t))
      \/ Drop(uip) /\ caller' = caller
  BY <1>5 DEF Icmp6Input, dio_output, dao_ack_output
<1>7. CASE Drop(uip) /\ caller' = caller
  BY <1>1, <1>2, <1>7, DropStep
<1>8. CASE /\ uip.body[q].type = "echo" /\ caller' = caller
           /\ Send(uip_icmp6_echo_request_input(uip))
  <2> DEFINE v == uip_icmp6_echo_request_input(uip)
  <2>1. /\ v \in Buffers /\ ExtIn(v) /\ Measured(v) /\ v.dst = uip.src /\ v.len <= uip.len
        /\ v.src = IF uip.dst \in Multicast THEN select_src(uip.src) ELSE uip.dst
        /\ \E p \in 1..2 : Formed(v, p) /\ Single(v, p) /\ Speaks(v, p)
    BY <1>2, <1>4, <1>5, EchoIs
  <2> HIDE DEF v
  <2>2. PICK p \in 1..2 : Formed(v, p) /\ Single(v, p) /\ Speaks(v, p)
    BY <2>1
  <2>3. p \in 1..Len(v.body) /\ v.plen \in Nat
    BY <2>2, FormedIs
  <2>4. Answer(v, p)
    <3>1. v.src \in {Self, SelfLL}
      BY <1>2, <2>1, SelectIs DEF Mine, Multicast
    <3>2. UsedPrefix(v.dst) => v.src = Self
      <4>1. ~ToLink(uip)
        BY <1>4, <1>8 DEF Speaks, OwnTypes
      <4>2. UsedPrefix(uip.src) => uip.dst = Self /\ uip.dst \notin Multicast
        BY <1>2, <4>1, AddressesAre DEF ToLink
      <4> QED BY <2>1, <4>2
    <3> QED BY <1>2, <2>1, <2>2, <3>1, <3>2 DEF Answer
  <2>5. v.len >= 0 /\ Fits(v)
    <3>1. v.len >= 0
      BY <2>1, <2>3, Sizes DEF Measured
    <3>2. v.len \in Int /\ uip.len \in Int /\ BufSize + IPH \in Int
      BY <1>2, <2>1, BufferIs, Room, Sizes DEF BufSize
    <3> QED BY <1>2, <2>1, <3>1, <3>2 DEF Fits
  <2>6. Send(v)
    BY <1>8 DEF v
  <2>7. /\ caller # "timer" /\ caller' \in {"input", "rpl"} /\ sent = <<>>
        /\ \E r \in 1..Len(v.body) : /\ Formed(v, r) /\ Single(v, r)
                                     /\ (caller' = "input" /\ Passing(v)) \/ Answer(v, r)
    BY <1>2, <1>8, <2>2, <2>3, <2>4
  <2> QED BY <1>1, <2>1, <2>5, <2>6, <2>7, SendStep
<1>9. CASE /\ uip.body[q].type \in {"DIS", "DAO"} /\ caller' = "rpl"
           /\ \E t \in {"DIO", "ACK"} : Send(uip_icmp6_send(uip, uip.src, t))
  <2>1. PICK t \in {"DIO", "ACK"} : Send(uip_icmp6_send(uip, uip.src, t))
    BY <1>9
  <2> DEFINE v == uip_icmp6_send(uip, uip.src, t)
             d == uip.src
  <2>2. uip.ext = 0
    <3>1. q = 1
      BY <1>2, <1>4, <1>5, <1>9 DEF Asks
    <3> QED BY <1>5, <3>1, Sizes
  <2>3. /\ v \in Buffers /\ v.ext = 0 /\ Measured(v) /\ v.dst = d /\ v.src = select_src(d)
        /\ v.len <= MTU
        /\ Formed(v, 1) /\ Single(v, 1) /\ Speaks(v, 1)
    <3>1. v = uip_icmp6_send(uip, d, t) /\ d \in Addresses /\ uip \in Buffers
      BY <1>2
    <3> HIDE DEF v, d
    <3> QED BY <2>2, <3>1, SendIs
  <2> HIDE DEF v
  <2>4. 1 \in 1..Len(v.body) /\ v.plen \in Nat /\ 0 \in 0..Len(v.body) /\ v.ext = Block * 0
    <3>1. Len(v.body) \in Nat /\ v.plen \in Nat /\ 1 \in 1..Len(v.body)
      BY <2>3, FormedIs
    <3> QED BY <2>3, <3>1, Sizes
  <2>5. ExtIn(v)
    BY <2>3, <2>4, ExtAtIs
  <2>6. Answer(v, 1)
    <3>1. v.src \in {Self, SelfLL} /\ (UsedPrefix(v.dst) => v.src = Self)
      BY <2>3, SelectIs, AddressesAre
    <3> QED BY <1>2, <2>3, <3>1 DEF Answer
  <2>7. v.len >= 0 /\ Fits(v)
    BY <2>3, <2>4, Sizes, Room DEF Measured
  <2>8. Send(v)
    BY <2>1 DEF v
  <2>9. /\ caller # "timer" /\ caller' \in {"input", "rpl"} /\ sent = <<>>
        /\ \E r \in 1..Len(v.body) : /\ Formed(v, r) /\ Single(v, r)
                                     /\ (caller' = "input" /\ Passing(v)) \/ Answer(v, r)
    BY <1>2, <1>9, <2>3, <2>4, <2>6
  <2> QED BY <1>1, <2>3, <2>5, <2>7, <2>8, <2>9, SendStep
<1> QED BY <1>6, <1>7, <1>8, <1>9

\* What a packet with the same addresses and the same message is: the kind of it.
LEMMA KindIs ==
  ASSUME NEW u, NEW q, NEW v, NEW p, Keeps(u, v)
  PROVE  /\ Passing(u) => Passing(v)
         /\ Answer(u, q) /\ Speaks(v, p) => Answer(v, p)
<1>1. v.src = u.src /\ v.dst = u.dst
  BY DEF Keeps
<1>2. Passing(u) => Passing(v)
  BY <1>1, PassedIs DEF Passing
<1>3. Answer(u, q) /\ Speaks(v, p) => Answer(v, p)
  BY <1>1 DEF Answer
<1> QED BY <1>2, <1>3

\* Nothing is written.
LEMMA StopStep ==
  ASSUME ForwardInv, pc = "output", NEW u \in Buffers, ExtIn(u), u.len >= 0, u.ext = uip.ext,
         Fits(u), Stop(u)
  PROVE  ForwardInv'
<1>1. BackInv' /\ SentInv' /\ routes' \in [Nodes -> Learned]
  <2>1. UNCHANGED <<caller, routes, seen, sent, back>>
    BY DEF Stop
  <2> QED BY <2>1, StillSent
<1>2. pc' = "end" /\ uip' = u /\ caller' = caller
  BY DEF Stop
<1>3. TypeInv'
  BY <1>1, <1>2 DEF ForwardInv, TypeInv, ExtIn
<1>4. ProcessInv' /\ HeadersInv' /\ OutputInv'
  BY <1>2 DEF ProcessInv, HeadersInv, OutputInv
<1> QED BY <1>1, <1>3, <1>4 DEF ForwardInv

\* A packet is written, the first since the handler began.
Leaves(f, u, q) ==
  /\ Formed(u, q) /\ Single(u, q) /\ Measured(u) /\ ExtIn(u) /\ u.len <= MTU
  /\ \/ Passing(u)
     \/ Answer(u, q) /\ (u.dst \notin Multicast => Written(u, q))
     \/ Timed(u, q)
  /\ f = "tun" => u.proto # "HBHO"
  /\ f = "tty" /\ u.dst \notin Multicast =>
       \/ u.proto = "HBHO" /\ u.body[1].opts[1] = "rpl"
            /\ u.body[1].flags = {"DOWN"} /\ u.body[1].rank = Rank
       \/ u.proto # "HBHO" /\ u.len + Block > MTU
       \/ u.proto = "HBHO" /\ u.body[1].opts[1] # "rpl"

\* It keeps the invariant, and with it the properties of what was written.
LEMMA WriteStep ==
  ASSUME ForwardInv, pc = "output", NEW f \in {"tun", "tty"}, NEW u, NEW q, Leaves(f, u, q),
         Write(f, u)
  PROVE  ForwardInv'
<1> DEFINE w == [u EXCEPT !.ext = 0, !.bitmap = {}, !.next = "NONE"]
<1>1. /\ pc' = "end" /\ uip' = u /\ UNCHANGED <<caller, routes, seen>>
      /\ sent' = <<[if |-> f, p |-> u]>>
      /\ \/ back' = back
         \/ /\ back' = [if |-> f, p |-> w]
            /\ caller # "timer" /\ u.dst \notin Multicast
  <2>1. sent = <<>>
    BY DEF ForwardInv, TypeInv
  <2>2. sent' = Append(sent, [if |-> f, p |-> u])
    BY DEF Write
  <2>3. sent' = <<[if |-> f, p |-> u]>>
    BY <2>1, <2>2
  <2> QED BY <2>3 DEF Write
<1>2. Formed(u, q) /\ Single(u, q) /\ Measured(u) /\ ExtIn(u) /\ u.len <= MTU
  BY DEF Leaves
<1>3. /\ u \in Buffers /\ u.body \in Seq(Blocks) /\ Len(u.body) \in Nat
      /\ q \in 1..Len(u.body) /\ q \in Nat /\ u.plen \in Nat /\ Block * q <= u.plen
      /\ Linked(u.body, q) /\ u.proto = Proto(u.body[1])
  BY <1>2, FormedIs
<1>4. /\ UpperAt(u) = q /\ Upper(u) = SubSeq(u.body, q, Len(u.body))
      /\ UpperBytes(u) = u.plen - Block * (q - 1)
  BY <1>2, FormedUpper
<1>5. /\ 1..Len(sent') = {1} /\ sent'[1].p = u /\ sent'[1].if = f
  <2> DEFINE r == [if |-> f, p |-> u]
  <2>1. r.p = u /\ r.if = f /\ sent' = <<r>>
    BY <1>1
  <2> HIDE DEF r
  <2>2. Len(<<r>>) = 1 /\ <<r>>[1] = r
    OBVIOUS
  <2> QED BY <2>1, <2>2
<1>6. TypeInv'
  <2>1. u.len >= 0
    BY <1>2, <1>3, Sizes DEF Measured
  <2>2. caller = "timer" => u.ext = 0
    BY DEF Leaves, Passing, Answer, Timed
  <2>3. Fits(u)
    BY <1>2, <1>3, Room
  <2> QED BY <1>1, <1>2, <1>3, <2>1, <2>2, <2>3 DEF ForwardInv, TypeInv, ExtIn
<1>7. ProcessInv' /\ HeadersInv' /\ OutputInv'
  BY <1>1 DEF ProcessInv, HeadersInv, OutputInv
<1>8. WellFormed'
  <2>1. u.len = u.plen + IPH
    BY <1>2 DEF Measured
  <2>2. ASSUME NEW j \in 1..(UpperAt(u) - 1), IsHeader(u.body[j])
        PROVE  u.body[j].next = Proto(u.body[j + u.body[j].len + 1])
    BY <1>3, <1>4, <2>2 DEF Linked
  <2>3. UpperBytes(u) >= Block
    BY <1>3, <1>4, Sizes
  <2> QED BY <1>3, <1>5, <2>1, <2>2, <2>3 DEF WellFormed
<1>9. PayloadIntact'
  <2>1. u.src \notin Mine => Passed(u)
    BY AddressesAre DEF Leaves, Passing, Answer, Timed
  <2>2. u.src \notin Mine => /\ <<u.src, u.dst>> = <<seen'.p.src, seen'.p.dst>>
                             /\ Upper(u) = Upper(seen'.p)
                             /\ UpperBytes(u) = UpperBytes(seen'.p)
    BY <1>1, <2>1 DEF Passed
  <2> QED BY <1>5, <2>2 DEF PayloadIntact
<1>10. RplStaysInside'
  BY <1>5 DEF RplStaysInside, Leaves
<1>11. AnswersGoBack'
  <2>1. ASSUME caller # "timer", Upper(u) # Upper(seen.p) PROVE u.dst = seen.p.src
    BY <2>1 DEF Leaves, Passing, Passed, Answer, Timed
  <2> QED BY <1>1, <1>5, <2>1 DEF AnswersGoBack, Own
<1>12. BackInv'
  <2>1. CASE back' = back
    BY <2>1 DEF ForwardInv, BackInv
  <2>2. CASE back' = [if |-> f, p |-> w] /\ caller # "timer" /\ u.dst \notin Multicast
    <3> DEFINE z == 0
               B == {}
               n == "NONE"
    <3>1. w = [u EXCEPT !.ext = z, !.bitmap = B, !.next = n]
      OBVIOUS
    <3>2. z \in Nat /\ B \in Bitmaps /\ n \in Protos
      BY DEF Bitmaps, Protos
    <3> HIDE DEF w, z, B, n
    <3>3. /\ w \in Buffers /\ w.src = u.src /\ w.dst = u.dst /\ w.body = u.body
          /\ w.plen = u.plen /\ w.proto = u.proto /\ w.ext = z /\ w.len = u.len
      BY <1>3, <3>1, <3>2 DEF Buffers, Bitmaps
    <3>4. Formed(w, q) /\ Single(w, q)
      BY <1>2, <3>3, SameIs
    <3>5. Far(w.dst) \/ Written(w, q)
      <4>1. Far(u.dst) \/ Written(u, q)
        BY <2>2 DEF Leaves, Passing, Timed
      <4> QED BY <3>3, <4>1 DEF Written, Speaks
    <3>6. back'.p = w /\ back' \in [if : {"tun", "tty"}, p : Buffers]
      BY <2>2, <3>3
    <3>7. q \in 1..Len(w.body) /\ w.ext = 0 /\ w.len <= MTU
      BY <1>2, <1>3, <3>3 DEF z
    <3> HIDE DEF w
    <3> QED BY <3>4, <3>5, <3>6, <3>7 DEF BackInv, Formed, Single, Written, Speaks
  <2> QED BY <1>1, <2>1, <2>2
<1> QED BY <1>6, <1>7, <1>8, <1>9, <1>10, <1>11, <1>12 DEF ForwardInv, SentInv

\* A packet leaves on the serial line, with the header of the gateway.
LEMMA AddLeaves ==
  ASSUME NEW u, NEW q, Formed(u, q), Single(u, q), Measured(u), ExtIn(u), u.len <= MTU,
         Passing(u) \/ Answer(u, q)
  PROVE  \E p \in Nat : Leaves("tty", rpl_add_header(u), p)
<1> DEFINE v == rpl_add_header(u)
<1>1. /\ \E p \in {q, q + 1} : /\ Formed(v, p) /\ Single(v, p)
                               /\ Speaks(u, q) => Written(v, p)
      /\ ExtIn(v) /\ Keeps(u, v) /\ v.len - v.plen = u.len - u.plen
      /\ v.len \in {u.len, u.len + Block} /\ v.plen >= u.plen
      /\ v.len <= MTU
      /\ \/ /\ v.proto = "HBHO" /\ v.body[1].opts[1] = "rpl"
            /\ v.body[1].flags = {"DOWN"} /\ v.body[1].rank = Rank
         \/ v.proto # "HBHO" /\ v.len + Block > MTU
         \/ v.proto = "HBHO" /\ v.body[1].opts[1] # "rpl"
  BY AddIs
<1> HIDE DEF v
<1>2. PICK p \in {q, q + 1} : /\ Formed(v, p) /\ Single(v, p)
                              /\ Speaks(u, q) => Written(v, p)
  BY <1>1
<1>3. Measured(v)
  <2>1. u.len \in Int /\ u.plen \in Nat /\ v.len \in Int /\ v.plen \in Nat
    BY <1>2, FormedIs, BufferIs
  <2>2. v.len - v.plen = u.len - u.plen /\ u.len = u.plen + 40
    BY <1>1, Sizes DEF Measured
  <2>3. v.len = v.plen + 40
    BY <2>1, <2>2
  <2> QED BY <2>3, Sizes DEF Measured
<1>4. \/ Passing(v)
      \/ Answer(v, p) /\ (v.dst \notin Multicast => Written(v, p))
  <2>1. Passing(u) => Passing(v)
    BY <1>1, KindIs
  <2>2. ASSUME Answer(u, q) PROVE Answer(v, p) /\ Written(v, p)
    <3>1. Written(v, p) /\ Speaks(v, p)
      BY <1>2, <2>2 DEF Answer, Written
    <3> QED BY <1>1, <2>2, <3>1, KindIs
  <2> QED BY <2>1, <2>2
<1>5. Leaves("tty", v, p)
  <2>1. \/ v.proto = "HBHO" /\ v.body[1].opts[1] = "rpl"
             /\ v.body[1].flags = {"DOWN"} /\ v.body[1].rank = Rank
        \/ v.proto # "HBHO" /\ v.len + Block > MTU
        \/ v.proto = "HBHO" /\ v.body[1].opts[1] # "rpl"
    BY <1>1
  <2> QED BY <1>1, <1>2, <1>3, <1>4, <2>1 DEF Leaves
<1>6. p \in Nat
  BY <1>2, FormedIs
<1> QED BY <1>5, <1>6 DEF v

\* ... and on the tun device, without.
LEMMA RemoveLeaves ==
  ASSUME NEW u, NEW q, Formed(u, q), Single(u, q), Measured(u), u.len <= MTU,
         Passing(u) \/ Answer(u, q)
  PROVE  \E p \in Nat : Leaves("tun", rpl_remove_header(u), p)
<1> DEFINE v == rpl_remove_header(u)
<1>1. /\ \E p \in {q, q - 1} :
           /\ Formed(v, p) /\ v.body[p] = u.body[q]
           /\ u.proto = "HBHO" => p = q - 1
           /\ u.proto # "HBHO" => p = q /\ v.proto = u.proto /\ v.body = u.body
           /\ Single(u, q) => Single(v, p) /\ v.proto # "HBHO"
      /\ v.ext = 0 /\ Keeps(u, v) /\ v.len - v.plen = u.len - u.plen
      /\ v.len <= u.len
  BY RemoveIs
<1> HIDE DEF v
<1>2. PICK p \in {q, q - 1} :
           /\ Formed(v, p) /\ v.body[p] = u.body[q]
           /\ u.proto = "HBHO" => p = q - 1
           /\ u.proto # "HBHO" => p = q /\ v.proto = u.proto /\ v.body = u.body
           /\ Single(u, q) => Single(v, p) /\ v.proto # "HBHO"
  BY <1>1
<1>3. Measured(v)
  <2>1. u.len \in Int /\ u.plen \in Nat /\ v.len \in Int /\ v.plen \in Nat
    BY <1>2, FormedIs, BufferIs
  <2>2. v.len - v.plen = u.len - u.plen /\ u.len = u.plen + 40
    BY <1>1, Sizes DEF Measured
  <2>3. v.len = v.plen + 40
    BY <2>1, <2>2
  <2> QED BY <2>3, Sizes DEF Measured
<1>4. ASSUME Speaks(u, q) PROVE Written(v, p)
  <2>1. /\ q \in Nat /\ q \in 1..Len(u.body) /\ (u.proto = "HBHO" <=> u.body[1].k = "hbho")
        /\ p \in Nat /\ p \in 1..Len(v.body)
    BY <1>2, FormedIs
  <2>2. q \in 1..2 /\ u.body[q].k = "icmp" /\ (q = 2 => u.body[1].k = "hbho")
    <3>1. q <= 2 /\ u.body[q].k = "icmp" /\ (q = 2 => u.body[1].k = "hbho")
      BY <1>4 DEF Speaks
    <3> QED BY <2>1, <3>1
  <2>3. p = 1
    <3>1. CASE u.proto = "HBHO"
      <4>1. p = q - 1
        BY <1>2, <3>1
      <4>2. u.body[1].k = "hbho"
        BY <2>1, <3>1
      <4>3. q # 1
        BY <2>2, <4>2
      <4> QED BY <2>2, <4>1, <4>3
    <3>2. CASE u.proto # "HBHO"
      <4>1. p = q
        BY <1>2, <3>2
      <4>2. u.body[1].k # "hbho"
        BY <2>1, <3>2
      <4>3. q # 2
        BY <2>2, <4>2
      <4> QED BY <2>2, <4>1, <4>3
    <3> QED BY <3>1, <3>2
  <2> QED BY <1>2, <1>4, <2>3 DEF Written, Speaks
<1>5. \/ Passing(v)
      \/ Answer(v, p) /\ (v.dst \notin Multicast => Written(v, p))
  <2>1. Passing(u) => Passing(v)
    BY <1>1, KindIs
  <2>2. ASSUME Answer(u, q) PROVE Answer(v, p) /\ Written(v, p)
    <3>1. Written(v, p) /\ Speaks(v, p)
      BY <1>4, <2>2 DEF Answer, Written
    <3> QED BY <1>1, <2>2, <3>1, KindIs
  <2> QED BY <2>1, <2>2
<1>6. ExtIn(v) /\ p \in Nat
  <2>1. Len(v.body) \in Nat /\ p \in Nat
    BY <1>2, FormedIs
  <2>2. v.ext = Block * 0 /\ 0 \in 0..Len(v.body)
    BY <1>1, <2>1, Sizes
  <2> QED BY <2>1, <2>2 DEF ExtIn
<1>8. v.len <= MTU
  <2>1. u.len \in Int /\ v.len \in Int
    BY <1>2, FormedIs, BufferIs
  <2> QED BY <1>1, <2>1, Room
<1>7. Leaves("tun", v, p)
  BY <1>2, <1>3, <1>5, <1>6, <1>8 DEF Leaves
<1> QED BY <1>6, <1>7 DEF v

\* tcpip_ipv6_output, whether it writes, gives up or calls itself.
LEMMA OutputStep ==
  ASSUME ForwardInv, tcpip_ipv6_output
  PROVE  ForwardInv'
<1>1. pc = "output" /\ uip \in Buffers /\ ExtIn(uip) /\ uip.len >= 0 /\ Fits(uip)
  BY DEF tcpip_ipv6_output, ForwardInv, TypeInv, ExtIn
<1>2. CASE uip.len = 0
  <2>1. Stop(uip)
    BY <1>2 DEF tcpip_ipv6_output
  <2> QED BY <1>1, <2>1, StopStep
<1>3. CASE uip.len # 0 /\ (uip.len > MTU \/ uip.dst = None)
  <2> DEFINE u == [uip EXCEPT !.len = 0]
  <2>1. Stop(u)
    BY <1>3 DEF tcpip_ipv6_output
  <2>2. u \in Buffers /\ u.ext = uip.ext /\ u.body = uip.body /\ u.len = 0
    BY <1>1, LenIs
  <2> HIDE DEF u
  <2>3. ExtIn(u) /\ u.len >= 0 /\ Fits(u)
    BY <1>1, <2>2, Room DEF ExtIn
  <2> QED BY <1>1, <2>1, <2>2, <2>3, StopStep
<1>4. ASSUME uip.len # 0, ~(uip.len > MTU \/ uip.dst = None)
      PROVE  ForwardInv'
  <2>1. PICK q \in 1..Len(uip.body) :
          /\ Formed(uip, q) /\ Single(uip, q)
          /\ Passing(uip) \/ Answer(uip, q) \/ Bounced(uip, q) \/ Timed(uip, q)
    BY <1>1, <1>4 DEF ForwardInv, OutputInv
  <2>2. Measured(uip) /\ uip.len <= MTU
    <3>1. uip.len \in Int
      BY <1>1, BufferIs
    <3> QED BY <1>1, <1>4, <3>1, Room DEF ForwardInv, OutputInv
  <2>3. /\ Bounced(uip, q) => uip.dst = Self
        /\ Timed(uip, q) => uip.dst \in Multicast
    BY AddressesAre DEF Bounced, Timed
  <2>4. CASE uip.dst \in Multicast
    <3>1. Write("tty", uip)
      BY <1>4, <2>4 DEF tcpip_ipv6_output
    <3>2. Passing(uip) \/ Answer(uip, q) \/ Timed(uip, q)
      BY <2>1, <2>3, <2>4, AddressesAre
    <3>3. Leaves("tty", uip, q)
      BY <1>1, <2>1, <2>2, <2>4, <3>2 DEF Leaves
    <3> QED BY <1>1, <3>1, <3>3, WriteStep
  <2>5. ASSUME uip.dst \notin Multicast, uip.dst # Self, Write("tty", rpl_add_header(uip))
        PROVE  ForwardInv'
    <3>1. Passing(uip) \/ Answer(uip, q)
      BY <2>1, <2>3, <2>5
    <3>2. PICK p \in Nat : Leaves("tty", rpl_add_header(uip), p)
      BY <1>1, <2>1, <2>2, <3>1, AddLeaves
    <3> QED BY <1>1, <2>5, <3>2, WriteStep
  <2>6. CASE uip.dst \notin Multicast /\ OnLink(uip.dst)
    <3>1. Write("tty", rpl_add_header(uip))
      BY <1>4, <2>6 DEF tcpip_ipv6_output
    <3> QED BY <2>5, <2>6, <3>1, AddressesAre DEF OnLink
  <2>7. CASE /\ uip.dst \notin Multicast /\ ~OnLink(uip.dst)
             /\ Route(uip.dst) = "none" /\ UsedPrefix(uip.dst)
    <3> DEFINE e == uip_icmp6_error_output(uip, "unreachable")
    <3>1. uip' = e /\ UNCHANGED <<pc, caller, routes, seen, sent, back>>
      BY <1>4, <2>7 DEF tcpip_ipv6_output
    <3>2. /\ e \in Buffers /\ ExtIn(e) /\ e.len >= 0 /\ e.len <= MTU
          /\ e.len # 0 =>
               /\ Measured(e)
               /\ \E p \in 1..2 : Formed(e, p) /\ Single(e, p) /\ Speaks(e, p)
               /\ e.dst = uip.src /\ e.src = select_src(uip.dst)
      BY <1>1, <2>1, <2>2, ErrorIs
    <3> HIDE DEF e
    <3>3. BackInv' /\ SentInv' /\ routes' \in [Nodes -> Learned]
      BY <3>1, StillSent
    <3>4. caller # "timer"
      BY <2>1, <2>3, <2>7 DEF Passing, Answer, Bounced
    <3>5. TypeInv'
      <4>1. Fits(e)
        BY <3>2, Room
      <4> QED BY <1>1, <3>1, <3>2, <3>3, <3>4, <4>1 DEF ForwardInv, TypeInv, ExtIn
    <3>6. ProcessInv' /\ HeadersInv'
      BY <1>1, <3>1 DEF ProcessInv, HeadersInv
    <3>7. ASSUME e.len # 0
          PROVE  /\ Measured(e)
                 /\ \E p \in 1..Len(e.body) : /\ Formed(e, p) /\ Single(e, p)
                                              /\ Answer(e, p) \/ Bounced(e, p)
      <4>1. PICK p \in 1..2 : Formed(e, p) /\ Single(e, p) /\ Speaks(e, p)
        BY <3>2, <3>7
      <4>2. p \in 1..Len(e.body)
        BY <4>1, FormedIs
      <4>3. e.dst = uip.src /\ e.src = Self
        BY <2>7, <3>2, <3>7, SelectIs, AddressesAre
      <4>4. uip.src = seen.p.src \/ uip.src = Self
        BY <2>1, <2>3, <2>7 DEF Passing, Passed, Answer, Bounced
      <4>5. Answer(e, p) \/ Bounced(e, p)
        BY <3>4, <4>1, <4>3, <4>4 DEF Answer, Bounced
      <4> QED BY <3>2, <3>7, <4>1, <4>2, <4>5
    <3>8. OutputInv'
      BY <3>1, <3>7 DEF OutputInv, Measured, Formed, Single, Answer, Bounced, Speaks
    <3> QED BY <3>3, <3>5, <3>6, <3>8 DEF ForwardInv
  <2>8. uip.dst # Self \/ (Route(uip.dst) = "none" /\ UsedPrefix(uip.dst))
    BY AddressesAre DEF Route
  <2>9. CASE /\ uip.dst \notin Multicast /\ ~OnLink(uip.dst)
             /\ ~(Route(uip.dst) = "none" /\ UsedPrefix(uip.dst))
             /\ Route(uip.dst) \in {"none", "INTERNAL"}
    <3>1. Write("tun", rpl_remove_header(uip))
      BY <1>4, <2>9 DEF tcpip_ipv6_output
    <3>2. Passing(uip) \/ Answer(uip, q)
      BY <2>1, <2>3, <2>8, <2>9
    <3>3. PICK p \in Nat : Leaves("tun", rpl_remove_header(uip), p)
      BY <2>1, <2>2, <3>2, RemoveLeaves
    <3> QED BY <1>1, <3>1, <3>3, WriteStep
  <2>10. CASE /\ uip.dst \notin Multicast /\ ~OnLink(uip.dst)
              /\ ~(Route(uip.dst) = "none" /\ UsedPrefix(uip.dst))
              /\ Route(uip.dst) = "6LBR"
    <3>1. Stop(uip)
      BY <1>4, <2>10 DEF tcpip_ipv6_output
    <3> QED BY <1>1, <3>1, StopStep
  <2>11. CASE /\ uip.dst \notin Multicast /\ ~OnLink(uip.dst)
              /\ ~(Route(uip.dst) = "none" /\ UsedPrefix(uip.dst))
              /\ Route(uip.dst) \notin {"none", "INTERNAL", "6LBR"}
    <3>1. Write("tty", rpl_add_header(uip))
      BY <1>4, <2>11 DEF tcpip_ipv6_output
    <3> QED BY <2>5, <2>8, <2>11, <3>1
  <2> QED BY <2>4, <2>6, <2>7, <2>9, <2>10, <2>11
<1> QED BY <1>2, <1>3, <1>4

-----------------------------------------------------------------------------
(* The end of the handlers and what happens between them *)

\* Nothing was written yet.
LEMMA NothingSent ==
  ASSUME sent' = <<>>
  PROVE  SentInv'
<1>1. 1..Len(sent') = {}
  OBVIOUS
<1> QED BY <1>1 DEF SentInv, WellFormed, PayloadIntact, RplStaysInside, AnswersGoBack

\* A buffer, field by field.
LEMMA MadeIs ==
  ASSUME NEW v \in Nat, NEW a \in Addresses, NEW t \in 0..255, NEW z \in Nat, NEW n \in Protos,
         NEW b \in Seq(Blocks), NEW l \in Int, NEW B \in Bitmaps
  PROVE  [version |-> v, src |-> a, dst |-> a, ttl |-> t, proto |-> n, plen |-> z,
          body |-> b, len |-> l, ext |-> z, bitmap |-> B, next |-> n] \in Buffers
  BY DEF Buffers, Bitmaps

\* The buffer that nothing is left in.
LEMMA EmptyIs ==
  ASSUME NEW l \in Int, NEW u,
         u = [version |-> 6, src |-> None, dst |-> None, ttl |-> 0, proto |-> "NONE",
              plen |-> 0, body |-> <<>>, len |-> l, ext |-> 0, bitmap |-> {}, next |-> "NONE"]
  PROVE  u \in Buffers /\ u.ext = 0 /\ ExtIn(u)
<1>1. u.ext = 0 /\ u.body = <<>>
  OBVIOUS
<1>2. u \in Buffers
  <2>1. /\ 6 \in Nat /\ None \in Addresses /\ 0 \in 0..255 /\ 0 \in Nat /\ "NONE" \in Protos
        /\ <<>> \in Seq(Blocks) /\ {} \in Bitmaps
    BY DEF Addresses, Protos, Bitmaps
  <2> QED BY <2>1, MadeIs
<1>3. u.ext = Block * 0 /\ 0 \in 0..Len(u.body)
  BY <1>1, Sizes
<1> QED BY <1>1, <1>2, <1>3 DEF ExtIn

\* No length of a header outlives its handler.
LEMMA EndStep ==
  ASSUME ForwardInv, End
  PROVE  ForwardInv'
<1> DEFINE u == Finished(uip)
<1>1. uip \in Buffers /\ pc = "end" /\ Fits(uip)
  BY DEF ForwardInv, TypeInv, End
<1>2. u.ext = 0 /\ u.len \in Int /\ u.body = uip.body /\ Fits(u)
  <2>1. CASE caller = "timer"
    BY <1>1, <2>1, BufferIs DEF ForwardInv, TypeInv, Finished, End
  <2>2. CASE caller # "timer"
    <3>1. u = [uip EXCEPT !.len = 0, !.ext = 0]
      BY <2>2 DEF Finished
    <3> HIDE DEF u
    <3>2. u \in Buffers /\ u.ext = 0 /\ u.len = 0 /\ u.body = uip.body
      <4> DEFINE z == 0
      <4>1. z \in Nat /\ z \in Int /\ u = [uip EXCEPT !.len = z, !.ext = z]
        BY <3>1
      <4>2. z = 0
        OBVIOUS
      <4> HIDE DEF z
      <4>3. u \in Buffers /\ u.ext = z /\ u.len = z /\ u.body = uip.body
        BY <1>1, <4>1 DEF Buffers
      <4> QED BY <4>2, <4>3
    <3> QED BY <3>2, Room
  <2> QED BY <2>1, <2>2
<1>3. uip' = [Empty EXCEPT !.len = u.len, !.ext = u.ext, !.body = SubSeq(u.body, 1, u.ext \div Block)]
  BY DEF End
<1> HIDE DEF u
<1>4. SubSeq(u.body, 1, u.ext \div Block) = <<>>
  <2>1. u.ext \div Block = 0 /\ u.body \in Seq(Blocks)
    BY <1>1, <1>2, BufferIs, Sizes
  <2>2. SubSeq(u.body, 1, 0) = <<>>
    BY <2>1
  <2> QED BY <2>1, <2>2
<1>5. uip' = [Empty EXCEPT !.len = u.len, !.ext = 0, !.body = <<>>]
  BY <1>2, <1>3, <1>4
<1>6. uip' \in Buffers /\ uip'.ext = 0 /\ ExtIn(uip') /\ Fits(uip')
  <2> DEFINE l == u.len
  <2>1. l \in Int /\ l <= BufSize + IPH
    BY <1>2 DEF Fits
  <2>2. uip' = [version |-> 6, src |-> None, dst |-> None, ttl |-> 0, proto |-> "NONE", plen |-> 0,
                body |-> <<>>, len |-> l, ext |-> 0, bitmap |-> {}, next |-> "NONE"]
    BY <1>5 DEF Empty
  <2>3. uip'.len = l
    BY <2>2
  <2> HIDE DEF l
  <2>4. Fits(uip')
    BY <2>1, <2>3 DEF Fits
  <2> QED BY <2>1, <2>2, <2>4, EmptyIs
<1>7. pc' = "idle" /\ UNCHANGED <<caller, routes, seen, sent, back>>
  BY DEF End
<1>8. BackInv' /\ SentInv' /\ routes' \in [Nodes -> Learned]
  BY <1>7, StillSent
<1>9. TypeInv'
  BY <1>6, <1>7, <1>8 DEF ForwardInv, TypeInv, ExtIn
<1>10. ProcessInv' /\ HeadersInv' /\ OutputInv'
  BY <1>7 DEF ProcessInv, HeadersInv, OutputInv
<1> QED BY <1>8, <1>9, <1>10 DEF ForwardInv

\* The timer finds no such length.
LEMMA DioTimerStep ==
  ASSUME ForwardInv, DioTimer
  PROVE  ForwardInv'
<1> DEFINE v == uip_icmp6_send(uip, RplNodes, "DIO")
<1>1. uip \in Buffers /\ uip.ext = 0
  BY DEF ForwardInv, TypeInv, DioTimer
<1>2. RplNodes \in Addresses /\ RplNodes \in LinkLocal \cup Multicast
  BY DEF Addresses, Multicast
<1>3. /\ v \in Buffers /\ v.ext = 0 /\ Measured(v)
      /\ v.dst = RplNodes /\ v.src = select_src(RplNodes) /\ v.len <= MTU
      /\ Formed(v, 1) /\ Single(v, 1) /\ Speaks(v, 1)
  BY <1>1, <1>2, SendIs
<1>4. /\ pc' = "output" /\ uip' = v /\ caller' = "timer" /\ sent' = <<>>
      /\ UNCHANGED <<routes, back>>
  BY DEF DioTimer, Send, dio_output
<1> HIDE DEF v
<1>5. v.src = SelfLL
  BY <1>2, <1>3 DEF select_src
<1>6. v.len >= 0 /\ ExtIn(v) /\ 1 \in 1..Len(v.body) /\ Fits(v)
  <2>1. /\ v.plen \in Nat /\ v.len \in Int /\ Len(v.body) \in Nat /\ 1 \in 1..Len(v.body)
        /\ v.len = v.plen + 40
    BY <1>3, FormedIs, BufferIs, Sizes DEF Measured
  <2>2. v.ext = Block * 0 /\ 0 \in 0..Len(v.body)
    BY <1>3, <2>1, Sizes
  <2>3. Fits(v)
    BY <1>3, Room
  <2> QED BY <2>1, <2>2, <2>3 DEF ExtIn
<1>7. TypeInv'
  BY <1>3, <1>4, <1>6 DEF ForwardInv, TypeInv, ExtIn
<1>8. OutputInv'
  <2>1. /\ Measured(uip') /\ Formed(uip', 1) /\ Single(uip', 1) /\ 1 \in 1..Len(uip'.body)
        /\ caller' = "timer" /\ uip'.ext = 0 /\ uip'.src = SelfLL /\ uip'.dst = RplNodes
    BY <1>3, <1>4, <1>5, <1>6
  <2> QED BY <2>1 DEF OutputInv, Measured, Formed, Single, Timed
<1>9. ProcessInv' /\ HeadersInv' /\ SentInv' /\ BackInv'
  BY <1>4, NothingSent DEF ForwardInv, ProcessInv, HeadersInv, BackInv
<1> QED BY <1>7, <1>8, <1>9 DEF ForwardInv

\* The routing table changes, a packet is lost, or nothing happens.
LEMMA QuietStep ==
  ASSUME ForwardInv, RouteChange \/ Lose \/ UNCHANGED vars
  PROVE  ForwardInv'
<1>1. CASE UNCHANGED vars
  <2>1. UNCHANGED <<pc, caller, uip, routes, seen, sent, back>>
    BY <1>1 DEF vars
  <2>2. TypeInv' /\ BackInv'
    BY <2>1 DEF ForwardInv, TypeInv, BackInv
  <2>3. ProcessInv' /\ HeadersInv'
    BY <2>1 DEF ForwardInv, ProcessInv, HeadersInv, Formed, Measured, Single, Asks, ToLink,
                Inert, Written, Speaks, Passed
  <2>4. OutputInv'
    BY <2>1 DEF ForwardInv, OutputInv, Formed, Measured, Single, Speaks, Passed, Passing,
                Answer, Bounced, Timed
  <2>5. SentInv'
    BY <2>1 DEF ForwardInv, SentInv, WellFormed, PayloadIntact, RplStaysInside, AnswersGoBack, Own
  <2> QED BY <2>2, <2>3, <2>4, <2>5 DEF ForwardInv
<1>2. CASE RouteChange
  <2>1. routes' \in [Nodes -> Learned] /\ pc = "idle" /\ UNCHANGED <<pc, caller, uip, seen, sent, back>>
    BY <1>2 DEF RouteChange, ForwardInv, TypeInv
  <2>2. TypeInv' /\ ProcessInv' /\ HeadersInv' /\ OutputInv' /\ BackInv'
    BY <2>1 DEF ForwardInv, TypeInv, ProcessInv, HeadersInv, OutputInv, BackInv
  <2>3. SentInv'
    BY <2>1 DEF ForwardInv, SentInv, WellFormed, PayloadIntact, RplStaysInside, AnswersGoBack, Own
  <2> QED BY <2>2, <2>3 DEF ForwardInv
<1>3. CASE Lose
  <2>1. back' = NoPacket /\ UNCHANGED <<pc, caller, uip, routes, seen, sent>>
    BY <1>3 DEF Lose
  <2>2. TypeInv' /\ BackInv'
    BY <2>1 DEF ForwardInv, TypeInv, BackInv
  <2>3. ProcessInv' /\ HeadersInv'
    BY <2>1 DEF ForwardInv, ProcessInv, HeadersInv, Formed, Measured, Single, Asks, ToLink,
                Inert, Written, Speaks, Passed
  <2>4. OutputInv'
    BY <2>1 DEF ForwardInv, OutputInv, Formed, Measured, Single, Speaks, Passed, Passing,
                Answer, Bounced, Timed
  <2>5. SentInv'
    BY <2>1 DEF ForwardInv, SentInv, WellFormed, PayloadIntact, RplStaysInside, AnswersGoBack, Own
  <2> QED BY <2>2, <2>3, <2>4, <2>5 DEF ForwardInv
<1> QED BY <1>1, <1>2, <1>3

-----------------------------------------------------------------------------
(* The arrival of a packet *)

\* What may arrive, with the end of its headers: a packet of others, or one that
\* left and comes back.
Arrives(u, q) ==
  /\ Formed(u, q)
  /\ u.dst \in Mine => q <= 32
  /\ u.dst \notin Mine => Single(u, q)
  /\ Asks(u, q) => q = 1
  /\ ToLink(u) => (u.dst \notin Mine /\ u.proto # "HBHO") \/ Inert(u, q)

\* Its RPL header is taken out, if it came on the tun device.
LEMMA TunIs ==
  ASSUME NEW u, NEW q, Arrives(u, q)
  PROVE  LET v == rpl_remove_header(u)
         IN  /\ v.ext = 0 /\ Keeps(u, v) /\ v.len <= u.len
             /\ \E p \in {q, q - 1} : Arrives(v, p)
<1> DEFINE v == rpl_remove_header(u)
<1>1. /\ \E p \in {q, q - 1} :
           /\ Formed(v, p) /\ v.body[p] = u.body[q]
           /\ u.proto = "HBHO" => p = q - 1
           /\ u.proto # "HBHO" => p = q /\ v.proto = u.proto /\ v.body = u.body
           /\ Single(u, q) => Single(v, p) /\ v.proto # "HBHO"
      /\ v.ext = 0 /\ Keeps(u, v) /\ v.len <= u.len
  BY RemoveIs DEF Arrives
<1> HIDE DEF v
<1>2. PICK p \in {q, q - 1} :
           /\ Formed(v, p) /\ v.body[p] = u.body[q]
           /\ u.proto = "HBHO" => p = q - 1
           /\ u.proto # "HBHO" => p = q /\ v.proto = u.proto /\ v.body = u.body
           /\ Single(u, q) => Single(v, p) /\ v.proto # "HBHO"
  BY <1>1
<1>3. /\ q \in 1..Len(u.body) /\ q \in Nat /\ (u.proto = "HBHO" <=> u.body[1].k = "hbho")
      /\ p \in 1..Len(v.body) /\ p \in Nat
  BY <1>2, FormedIs DEF Arrives
<1>4. v.dst = u.dst /\ v.src = u.src
  BY <1>1 DEF Keeps
<1>5. Asks(v, p) => p = 1
  <2>1. Asks(v, p) => Asks(u, q)
    BY <1>2, <1>4 DEF Asks
  <2>2. q = 1 => p = 1
    BY <1>2, <1>3
  <2> QED BY <2>1, <2>2 DEF Arrives
<1>6. ASSUME Inert(u, q) PROVE Inert(v, p)
  <2>1. /\ u.body[q].k = "icmp" /\ u.body[q].type \in OwnTypes /\ q <= 2
        /\ q = 2 => u.body[1].k = "hbho"
    BY <1>6 DEF Inert, Written, Speaks
  <2>2. p = 1
    <3>1. CASE u.proto = "HBHO"
      <4>1. p = q - 1
        BY <1>2, <3>1
      <4>2. q # 1
        BY <1>3, <2>1, <3>1
      <4> QED BY <1>3, <2>1, <4>1, <4>2
    <3>2. CASE u.proto # "HBHO"
      <4>1. p = q /\ q # 2
        BY <1>2, <1>3, <2>1, <3>2
      <4> QED BY <1>3, <2>1, <4>1
    <3> QED BY <3>1, <3>2
  <2>3. v.body[1] = u.body[q]
    BY <1>2, <2>2
  <2> QED BY <2>1, <2>2, <2>3 DEF Inert, Written, Speaks
<1>7. ToLink(v) => (v.dst \notin Mine /\ v.proto # "HBHO") \/ Inert(v, p)
  <2>1. ToLink(v) => ToLink(u)
    BY <1>4 DEF ToLink
  <2>2. u.proto # "HBHO" => v.proto # "HBHO"
    BY <1>2
  <2> QED BY <1>4, <1>6, <2>1, <2>2 DEF Arrives
<1>8. v.dst \notin Mine => Single(v, p)
  BY <1>2, <1>4 DEF Arrives
<1>9. v.dst \in Mine => p <= 32
  <2>1. u.dst \in Mine => q <= 32
    BY DEF Arrives
  <2>2. p \in {q, q - 1}
    BY <1>2
  <2> QED BY <1>3, <1>4, <2>1, <2>2
<1>10. Arrives(v, p)
  BY <1>2, <1>5, <1>7, <1>8, <1>9 DEF Arrives
<1> QED BY <1>1, <1>10 DEF v

\* A packet is read into the buffer, with no header counted yet.
LEMMA ArriveStep ==
  ASSUME ForwardInv, NEW m, NEW q, Arrives(m.p, q), Arrive(m), back' = NoPacket,
         m.if = "tun" \/ m.p.len <= BufSize
  PROVE  ForwardInv'
<1>1. pc = "idle" /\ uip \in Buffers /\ uip.ext = 0 /\ routes \in [Nodes -> Learned]
  BY DEF ForwardInv, TypeInv, Arrive
<1>2. /\ seen' = m /\ sent' = <<>> /\ caller' = "input" /\ routes' = routes
      /\ \/ pc' = pc /\ uip' = uip
         \/ /\ pc' = "process" /\ ~(m.p.len > BufSize)
            /\ LET u == [m.p EXCEPT !.ext = uip.ext]
               IN  uip' = rpl_remove_header(u) \/ uip' = u
  <2>1. BufSize = MTU
    BY DEF BufSize
  <2>2. ~(~(m.if = "tun" /\ m.p.len > MTU) /\ m.p.len > BufSize)
    <3>1. CASE m.if = "tun"
      BY <2>1, <3>1
    <3>2. CASE m.p.len <= BufSize
      <4>1. m.p.len \in Int /\ BufSize \in Nat
        BY <2>1, FormedIs, BufferIs, Room DEF Arrives
      <4> QED BY <3>2, <4>1
    <3> QED BY <3>1, <3>2
  <2> QED BY <2>2 DEF Arrive
<1>3. SentInv' /\ BackInv'
  BY <1>2, NothingSent DEF BackInv
<1>4. CASE pc' = pc /\ uip' = uip
  <2>1. TypeInv'
    BY <1>1, <1>2, <1>4 DEF ForwardInv, TypeInv
  <2>2. ProcessInv' /\ HeadersInv' /\ OutputInv'
    BY <1>1, <1>4 DEF ProcessInv, HeadersInv, OutputInv
  <2> QED BY <1>3, <2>1, <2>2 DEF ForwardInv
<1> DEFINE z == uip.ext
           u == [m.p EXCEPT !.ext = z]
<1>5. CASE /\ pc' = "process" /\ ~(m.p.len > BufSize)
           /\ uip' = rpl_remove_header(u) \/ uip' = u
  <2>1. m.p \in Buffers /\ z \in Nat
    BY <1>1, FormedIs DEF Arrives
  <2>2. /\ u \in Buffers /\ u.src = m.p.src /\ u.dst = m.p.dst /\ u.body = m.p.body
        /\ u.plen = m.p.plen /\ u.proto = m.p.proto /\ u.ext = z /\ u.len = m.p.len
    <3> HIDE DEF z
    <3> QED BY <2>1 DEF Buffers
  <2>3. z = 0
    BY <1>1
  <2> HIDE DEF u, z
  <2>4. Arrives(u, q) /\ Keeps(m.p, u)
    <3>1. /\ Formed(u, q) /\ Keeps(m.p, u)
          /\ Single(u, q) <=> Single(m.p, q)
          /\ Inert(u, q) <=> Inert(m.p, q)
          /\ Asks(u, q) <=> Asks(m.p, q)
          /\ ToLink(u) <=> ToLink(m.p)
      BY <2>2, SameIs DEF Arrives
    <3> QED BY <2>2, <3>1 DEF Arrives
  <2>5. PICK p : Arrives(uip', p) /\ uip'.ext = 0 /\ Keeps(u, uip') /\ uip'.len <= u.len
    <3>1. CASE uip' = u
      <4>1. Keeps(u, u) /\ u.len <= u.len
        BY <2>2, BufferIs DEF Keeps
      <4> QED BY <2>2, <2>3, <2>4, <3>1, <4>1
    <3>2. CASE uip' = rpl_remove_header(u)
      BY <2>4, <3>2, TunIs
    <3> QED BY <1>5, <3>1, <3>2
  <2>6. Passed(uip)'
    BY <1>2, <2>4, <2>5 DEF Passed, Keeps
  <2>7. /\ uip' \in Buffers /\ p \in 1..Len(uip'.body) /\ Len(uip'.body) \in Nat
        /\ Formed(uip', p)
    BY <2>5, FormedIs DEF Arrives
  <2>12. uip'.len <= BufSize /\ Fits(uip')
    <3>1. u.len \in Int /\ uip'.len \in Int /\ BufSize \in Nat
      BY <2>2, <2>7, BufferIs, Room DEF BufSize
    <3>2. uip'.len <= BufSize
      BY <1>5, <2>2, <2>5, <3>1
    <3> QED BY <2>7, <3>2, Room
  <2>8. ExtIn(uip')
    <3>1. uip'.ext = Block * 0 /\ 0 \in 0..Len(uip'.body)
      BY <2>5, <2>7, Sizes
    <3> QED BY <3>1 DEF ExtIn
  <2>9. TypeInv'
    BY <1>1, <1>2, <1>5, <2>5, <2>7, <2>8, <2>12 DEF ForwardInv, TypeInv, ExtIn
  <2>10. ProcessInv'
    <3>1. /\ Formed(uip', p)
          /\ uip'.dst \in Mine => p <= 32
          /\ uip'.dst \notin Mine => Single(uip', p)
          /\ Asks(uip', p) => p = 1
          /\ ToLink(uip') => (uip'.dst \notin Mine /\ uip'.proto # "HBHO") \/ Inert(uip', p)
      BY <2>5 DEF Arrives
    <3>2. caller' = "input" /\ sent' = <<>> /\ uip'.ext = 0 /\ p \in 1..Len(uip'.body)
      BY <1>2, <2>5, <2>7
    <3> QED BY <2>6, <2>12, <3>1, <3>2
            DEF ProcessInv, Formed, Single, Asks, ToLink, Inert, Written, Speaks
  <2>11. HeadersInv' /\ OutputInv'
    BY <1>5 DEF HeadersInv, OutputInv
  <2> QED BY <1>3, <2>9, <2>10, <2>11 DEF ForwardInv
<1> QED BY <1>2, <1>4, <1>5

\* It is a new one ...
LEMMA ReceiveStep ==
  ASSUME \A m \in Packets : Sound(m), ForwardInv, Receive
  PROVE  ForwardInv'
<1>1. PICK m \in Packets : back = NoPacket /\ Arrive(m) /\ UNCHANGED back
  BY DEF Receive
<1>2. Arrives(m.p, UpperAt(m.p)) /\ (m.if = "tun" \/ m.p.len <= BufSize)
  BY WholeIs DEF Arrives
<1> QED BY <1>1, <1>2, ArriveStep

\* A message of the gateway comes back with an RPL header that passes.
LEMMA ClimbIs ==
  ASSUME NEW u, NEW q, Formed(u, q), Single(u, q), Far(u.dst) \/ Written(u, q)
  PROVE  Arrives(Climb(u), q) /\ Climb(u).len = u.len
<1> DEFINE v == Climb(u)
<1>1. /\ u \in Buffers /\ u.body \in Seq(Blocks) /\ Len(u.body) \in Nat /\ 1 \in 1..Len(u.body)
      /\ q \in 1..Len(u.body) /\ q \in Nat /\ Linked(u.body, q) /\ u.body[1] \in Blocks
      /\ (u.proto = "HBHO" <=> u.body[1].k = "hbho")
  BY FormedIs
<1>2. /\ Asks(u, q) => q = 1
      /\ ToLink(u) => Written(u, q)
      /\ u.dst \in Mine => q <= 32
  <2>1. Written(u, q) => q <= 2
    BY DEF Written, Speaks
  <2>2. u.dst \in Mine => Written(u, q)
    BY DEF Far
  <2>3. q <= 2 => q <= 32
    BY <1>1
  <2>4. /\ Asks(u, q) => q = 1
        /\ ToLink(u) => Written(u, q)
    BY DEF Asks, Far, ToLink, Written, Speaks, OwnTypes
  <2> QED BY <2>1, <2>2, <2>3, <2>4
<1>3. CASE u.proto = "HBHO" /\ u.body[1].opts[1] = "rpl"
  <2> DEFINE h == u.body[1]
             f == {}
             r == 2
             g == [h EXCEPT !.flags = f, !.rank = r]
             c == [u.body EXCEPT ![1] = g]
  <2>1. q >= 2 /\ h.k = "hbho" /\ h.len = 0 /\ h \in Blocks
    BY <1>1, <1>3, HbhoIs
  <2>2. h \in [k : {"hbho", "desto"}, next : Protos, len : Nat, opts : Seq(OptionNames),
               flags : SUBSET FlagNames, mine : BOOLEAN, rank : Nat]
    BY <2>1, BlockIs
  <2>3. v = [u EXCEPT !.body = c]
    <3>1. u.body # <<>> /\ 1 \in DOMAIN u.body
      BY <1>1
    <3>2. c = [u.body EXCEPT ![1].flags = {}, ![1].rank = 2]
      BY <1>1, <2>2, <3>1
    <3>3. v = [u EXCEPT !.body[1].flags = {}, !.body[1].rank = 2]
      BY <1>3 DEF Climb
    <3> QED BY <1>1, <2>2, <3>1, <3>2, <3>3 DEF Buffers
  <2>4. f \in SUBSET FlagNames /\ r \in Nat
    OBVIOUS
  <2>5. /\ g \in Blocks /\ g.k = "hbho" /\ g.next = h.next /\ g.len = h.len /\ g.opts = h.opts
        /\ g.mine = h.mine /\ g.flags = f /\ g.rank = r
    <3> HIDE DEF f, r
    <3> QED BY <2>1, <2>2, <2>4 DEF Blocks
  <2> HIDE DEF g
  <2>6. /\ c \in Seq(Blocks) /\ Len(c) = Len(u.body) /\ c[1] = g
        /\ \A j \in 1..Len(u.body) : j # 1 => c[j] = u.body[j]
    BY <1>1, <2>5
  <2> HIDE DEF c, v
  <2>7. /\ v \in Buffers /\ v.body = c /\ v.proto = u.proto /\ v.plen = u.plen
        /\ v.src = u.src /\ v.dst = u.dst /\ v.len = u.len
    BY ZenonT(60), <1>1, <2>3, <2>6 DEF Buffers
  <2>8. /\ Linked(c, q) /\ \A j \in 1..Len(u.body) : c[j].k = u.body[j].k
    <3>1. 1 \in 1..(q - 1) /\ IsHeader(u.body[1])
      BY <1>1, <2>1 DEF IsHeader
    <3>2. c[1].k = u.body[1].k /\ c[1].len = u.body[1].len /\ c[1].next = u.body[1].next
      BY <2>1, <2>5, <2>6
    <3> QED BY <1>1, <2>6, <3>1, <3>2, LinkedSwap
  <2>9. Formed(v, q)
    <3>1. c[1] \in Blocks /\ c[1].k = "hbho"
      BY <2>5, <2>6
    <3>2. Proto(c[1]) = "HBHO"
      BY <3>1, ProtoIs
    <3>3. Block * q <= v.plen
      BY <2>7 DEF Formed
    <3> QED BY <1>3, <2>7, <2>8, <3>2, <3>3 DEF Formed
  <2>10. Single(v, q)
    BY <1>1, <2>7, <2>8 DEF Single
  <2>11. c[q] = u.body[q]
    BY <1>1, <2>1, <2>6
  <2>12. Asks(v, q) => q = 1
    BY <1>2, <2>7, <2>11 DEF Asks
  <2>13. ToLink(v) => Inert(v, q)
    <3>1. ToLink(v) => Written(u, q)
      BY <1>2, <2>7 DEF ToLink
    <3>2. Written(u, q) => Speaks(v, q) /\ (q = 2 => c[1].opts = <<"rpl">> /\ c[1].mine)
      BY <2>5, <2>6, <2>7, <2>11 DEF Written, Speaks
    <3>3. c[1].flags = {} /\ c[1].rank = 2
      BY <2>5, <2>6 DEF f, r
    <3> QED BY <2>7, <3>1, <3>2, <3>3 DEF Inert, Written
  <2> QED BY <1>2, <2>7, <2>9, <2>10, <2>12, <2>13 DEF Arrives, v
<1>4. CASE ~(u.proto = "HBHO" /\ u.body[1].opts[1] = "rpl")
  <2>1. v = u
    BY <1>4 DEF Climb
  <2>2. Written(u, q) => Inert(u, q)
    <3>1. q # 2 => (Written(u, q) => Inert(u, q))
      BY DEF Inert
    <3>2. q = 2 => ~Written(u, q)
      BY <1>1, <1>4 DEF Written, Speaks
    <3> QED BY <3>1, <3>2
  <2> QED BY <1>2, <2>1, <2>2 DEF Arrives
<1> QED BY <1>3, <1>4

\* ... or one that left.
LEMMA ReturnStep ==
  ASSUME ForwardInv, Return
  PROVE  ForwardInv'
<1> DEFINE m == [back EXCEPT !.p = Climb(@)]
<1>1. back # NoPacket /\ Arrive(m) /\ back' = NoPacket
  BY DEF Return
<1>2. back \in [if : {"tun", "tty"}, p : Buffers]
  BY <1>1 DEF ForwardInv, BackInv
<1>3. m.p = Climb(back.p)
  BY <1>2
<1>4. PICK q \in 1..Len(back.p.body) :
        /\ Formed(back.p, q) /\ Single(back.p, q)
        /\ Far(back.p.dst) \/ Written(back.p, q)
  BY <1>1 DEF ForwardInv, BackInv
<1>5. Arrives(Climb(back.p), q) /\ Climb(back.p).len = back.p.len
  BY <1>4, ClimbIs
<1>6. m.p.len <= BufSize
  BY <1>1, <1>3, <1>5 DEF ForwardInv, BackInv, BufSize
<1> HIDE DEF m
<1> QED BY <1>1, <1>3, <1>5, <1>6, ArriveStep

-----------------------------------------------------------------------------
(* The theorems on the packet path *)

\* The gateway starts with an empty buffer.
LEMMA InitStep ==
  ASSUME Init
  PROVE  ForwardInv
<1>1. pc = "idle" /\ caller = "input" /\ uip = Empty /\ sent = <<>> /\ back = NoPacket
  BY DEF Init
<1>2. uip \in Buffers /\ uip.ext = 0 /\ ExtIn(uip) /\ Fits(uip)
  <2>1. uip = [version |-> 6, src |-> None, dst |-> None, ttl |-> 0, proto |-> "NONE", plen |-> 0,
               body |-> <<>>, len |-> 0, ext |-> 0, bitmap |-> {}, next |-> "NONE"]
    BY <1>1 DEF Empty
  <2>2. 0 \in Int /\ uip.len = 0
    BY <2>1
  <2>3. 0 <= BufSize + IPH
    BY Room, Sizes DEF BufSize
  <2>4. Fits(uip)
    BY <2>2, <2>3 DEF Fits
  <2> QED BY <2>1, <2>2, <2>4, EmptyIs
<1>3. TypeInv
  BY <1>1, <1>2 DEF Init, TypeInv, ExtIn
<1>4. ProcessInv /\ HeadersInv /\ OutputInv /\ BackInv
  BY <1>1 DEF ProcessInv, HeadersInv, OutputInv, BackInv
<1>5. SentInv
  <2>1. 1..Len(sent) = {}
    BY <1>1
  <2> QED BY <2>1 DEF SentInv, WellFormed, PayloadIntact, RplStaysInside, AnswersGoBack
<1> QED BY <1>3, <1>4, <1>5 DEF ForwardInv

\* What arrives is sound.
AllSound == \A m \in Packets : Sound(m)

\* What is kept wherever a handler is: the buffer is one that the code of that
\* place can read, and what it will be written as goes where it should.
THEOREM Forwards ==
  ASSUME AllSound
  PROVE  Spec => []ForwardInv
<1>1. ForwardInv /\ [Next]_vars => ForwardInv'
  <2> SUFFICES ASSUME ForwardInv, [Next]_vars PROVE ForwardInv'
    OBVIOUS
  <2>1. CASE Receive
    BY <2>1, ReceiveStep DEF AllSound
  <2>2. CASE Return
    BY <2>2, ReturnStep
  <2>3. CASE uip_process
    BY <2>3, ProcessStep
  <2>4. CASE NextHeader
    BY <2>4, NextHeaderStep
  <2>5. CASE NoUpperLayer
    BY <2>5, NoUpperLayerStep
  <2>6. CASE Icmp6Input
    BY <2>6, Icmp6InputStep
  <2>7. CASE tcpip_ipv6_output
    BY <2>7, OutputStep
  <2>8. CASE End
    BY <2>8, EndStep
  <2>9. CASE DioTimer
    BY <2>9, DioTimerStep
  <2>10. CASE Lose \/ RouteChange \/ UNCHANGED vars
    BY <2>10, QuietStep
  <2> QED BY <2>1, <2>2, <2>3, <2>4, <2>5, <2>6, <2>7, <2>8, <2>9, <2>10 DEF Next, Handler
<1> QED BY <1>1, InitStep, PTL DEF Spec

\* Neither a header put in or taken out, nor an answer, nor a lost packet whose
\* length is only half reset makes uip_len longer than what uip_buf holds, except
\* by the 40 bytes that uip_process adds to the length a truncated packet claims;
\* if the serial line delivers no more than uip_buf holds.
THEOREM ForwardTypeCorrect ==
  ASSUME AllSound
  PROVE  Spec => []ForwardTypeOK
<1>1. ForwardInv => ForwardTypeOK
  BY BufferIs DEF ForwardInv, TypeInv, ForwardTypeOK, Fits
<1> QED BY <1>1, Forwards, PTL

\* Whatever is written can be read: the lengths agree, each header names what
\* follows, and there is a message; for headers put in, taken out and inverted
\* in place, and for answers built behind them.
THEOREM WritesWellFormed ==
  ASSUME AllSound
  PROVE  Spec => []WellFormed
<1>1. ForwardInv => WellFormed
  BY DEF ForwardInv, SentInv
<1> QED BY <1>1, Forwards, PTL

\* What is passed on keeps its addresses and its upper layer, byte for byte.
THEOREM PassesPayload ==
  ASSUME AllSound
  PROVE  Spec => []PayloadIntact
<1>1. ForwardInv => PayloadIntact
  BY DEF ForwardInv, SentInv
<1> QED BY <1>1, Forwards, PTL

\* No RPL header leaves on the tun device, and what goes down the serial line
\* has the one of the root, if it has room and brought no other options.
THEOREM KeepsRplInside ==
  ASSUME AllSound
  PROVE  Spec => []RplStaysInside
<1>1. ForwardInv => RplStaysInside
  BY DEF ForwardInv, SentInv
<1> QED BY <1>1, Forwards, PTL

\* An answer or an error goes to the sender of the packet that it is about,
\* although tcpip_ipv6_output calls itself with an error in the same buffer.
THEOREM AnswersSender ==
  ASSUME AllSound
  PROVE  Spec => []AnswersGoBack
<1>1. ForwardInv => AnswersGoBack
  BY DEF ForwardInv, SentInv
<1> QED BY <1>1, Forwards, PTL

-----------------------------------------------------------------------------
(* The intervals of the DIO timer, for every shortest interval and every    *)
(* number of doublings.  What makes DioInTime inductive is that the delay   *)
(* that is used twice was drawn for the current interval.                   *)

\* The delay is one of those new_dio_interval can draw for this interval.
DelayDrawn == next_delay \in Delay(intcurrent)

TrickleInv == TrickleTypeOK /\ DelayDrawn /\ DioInTime

USE DEF Intmax

-----------------------------------------------------------------------------
(* Lengths and delays *)

\* A power of two is a natural number: it counts the subsets of 1 .. c.
LEMMA PowerNat == ASSUME NEW c \in Nat PROVE 2^c \in Nat
<1>1. IsFiniteSet(1 .. c) /\ Cardinality(1 .. c) = c
  BY FS_Interval
<1>2. IsFiniteSet(SUBSET (1 .. c)) /\ Cardinality(SUBSET (1 .. c)) = 2^c
  BY <1>1, FS_SUBSET
<1> QED
  BY <1>2, FS_CardinalityType

LEMMA LengthNat == ASSUME NEW c \in Nat PROVE Length(c) \in Nat
  BY PowerNat DEF Length

\* What may be drawn is a number of seconds, no more than the longer half.
LEMMA DelayBound ==
  ASSUME NEW c \in Nat, NEW d \in Delay(c)
  PROVE  d \in Nat /\ d <= Length(c) - Length(c) \div 2
<1>1. Length(c) \in Nat
  BY LengthNat
<1>2. Length(c) - 2 * (Length(c) \div 2) >= 0
  BY <1>1
<1> QED
  BY <1>1, <1>2 DEF Delay

-----------------------------------------------------------------------------
(* The steps *)

\* A new interval, of whatever length, starts in time.
LEMMA NewIntervalKeeps ==
  ASSUME NEW c \in Intmin .. Intmax, NewInterval(c)
  PROVE  TrickleInv'
<1>1. c \in Nat
  BY TrickleAssumption
<1>2. next_delay' \in Nat /\ next_delay' <= Length(c) - Length(c) \div 2
  BY <1>1, DelayBound DEF NewInterval
<1>3. TrickleTypeOK'
  BY <1>2 DEF NewInterval, TrickleTypeOK
<1>4. DelayDrawn'
  BY DEF NewInterval, DelayDrawn
<1>5. DioInTime'
  BY <1>2 DEF NewInterval, DioInTime
<1> QED
  BY <1>3, <1>4, <1>5 DEF TrickleInv

\* The DIO is sent: the rest of the interval is the delay once more, and both
\* together are at most two of the longer halves.
LEMMA FireSendKeeps == TrickleInv /\ FireSend => TrickleInv'
<1> SUFFICES ASSUME TrickleInv, FireSend
             PROVE  TrickleInv'
  OBVIOUS
<1> DEFINE I == Length(intcurrent)
<1>1. intcurrent \in Nat /\ age \in Nat
  BY TrickleAssumption DEF TrickleInv, TrickleTypeOK
<1>2. next_delay \in Nat /\ next_delay <= I - I \div 2
  BY <1>1, DelayBound DEF TrickleInv, DelayDrawn
<1>3. I \in Nat
  BY <1>1, LengthNat
<1>4. age <= I - I \div 2
  BY <1>1, <1>3 DEF TrickleInv, DioInTime, FireSend
<1>5. TrickleTypeOK'
  <2>1. left' \in 0 .. next_delay'
    BY <1>2 DEF FireSend
  <2> QED
    BY <2>1 DEF TrickleInv, TrickleTypeOK, FireSend
<1>6. DelayDrawn'
  BY DEF TrickleInv, DelayDrawn, FireSend
<1>7. DioInTime'
  BY <1>1, <1>2, <1>3, <1>4 DEF FireSend, DioInTime
<1> QED
  BY <1>5, <1>6, <1>7 DEF TrickleInv

\* A second passes: what was left becomes age.
LEMMA SecondKeeps == TrickleInv /\ Second => TrickleInv'
<1> SUFFICES ASSUME TrickleInv, Second
             PROVE  TrickleInv'
  OBVIOUS
<1>1. age \in Nat /\ left \in Nat /\ age' + left' = age + left
  BY DEF TrickleInv, TrickleTypeOK, Second
<1>2. TrickleTypeOK'
  BY <1>1 DEF TrickleInv, TrickleTypeOK, Second
<1>3. DelayDrawn'
  BY DEF TrickleInv, DelayDrawn, Second
<1>4. DioInTime'
  BY <1>1 DEF TrickleInv, DioInTime, Second
<1> QED
  BY <1>2, <1>3, <1>4 DEF TrickleInv

LEMMA TInitSafe == TInit => TrickleInv
<1> SUFFICES ASSUME TInit
             PROVE  TrickleInv
  OBVIOUS
<1>1. Intmin \in Nat /\ Intmin \in Intmin .. Intmax
  BY TrickleAssumption
<1>2. next_delay \in Nat /\ next_delay <= Length(Intmin) - Length(Intmin) \div 2
  BY <1>1, DelayBound DEF TInit
<1> QED
  BY <1>1, <1>2 DEF TInit, TrickleInv, TrickleTypeOK, DelayDrawn, DioInTime

LEMMA TNextKeeps == TrickleInv /\ [TNext]_tvars => TrickleInv'
<1> SUFFICES ASSUME TrickleInv, [TNext]_tvars
             PROVE  TrickleInv'
  OBVIOUS
<1>1. CASE FireSend
  BY <1>1, FireSendKeeps
<1>2. CASE FireNew
  <2>1. Doubled(intcurrent) \in Intmin .. Intmax
    BY TrickleAssumption DEF Doubled, TrickleInv, TrickleTypeOK
  <2> QED
    BY <1>2, <2>1, NewIntervalKeeps DEF FireNew
<1>3. CASE Dis
  <2>1. Intmin \in Intmin .. Intmax
    BY TrickleAssumption
  <2> QED
    BY <1>3, <2>1, NewIntervalKeeps DEF Dis
<1>4. CASE Second
  BY <1>4, SecondKeeps
<1>5. CASE UNCHANGED tvars
  BY <1>5 DEF tvars, TrickleInv, TrickleTypeOK, DelayDrawn, DioInTime
<1> QED
  BY <1>1, <1>2, <1>3, <1>4, <1>5 DEF TNext

-----------------------------------------------------------------------------
(* The theorems *)

\* The inductive invariant holds of the timer of rpl-timers.c.
THEOREM TrickleSafe == TSpec => []TrickleInv
  BY TInitSafe, TNextKeeps, PTL DEF TSpec

\* Every variable of the timer keeps its type, and dio_intcurrent its range.
THEOREM TrickleTypeCorrect == TSpec => []TrickleTypeOK
<1>1. TrickleInv => TrickleTypeOK
  BY DEF TrickleInv
<1> QED
  BY <1>1, TrickleSafe, PTL

\* No interval outlasts its length and its DIO is out by the middle, for every
\* shortest interval, however often a DIS resets the timer.
THEOREM DioAlwaysInTime == TSpec => []DioInTime
<1>1. TrickleInv => DioInTime
  BY DEF TrickleInv
<1> QED
  BY <1>1, TrickleSafe, PTL
=============================================================================
