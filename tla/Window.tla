-------------------------------- MODULE Window --------------------------------
(***************************************************************************)
(* The sequence numbers of a border router (mode -r) as the 16-bit numbers *)
(* they are.  mob_maj_node and mob_lost_node give them out without end,    *)
(* mob_send_message and mob_incoming_ack compare them by UINT_LESS_THAN,   *)
(* modulo their range.  Router has every detail of the updates but numbers *)
(* that only grow; here they come round, and ghosts keep how long ago each *)
(* was given, which no number says.                                        *)
(***************************************************************************)
EXTENDS Integers, SequencesExt, FiniteSetsExt

CONSTANTS Nodes,      \* motes
          Range16,    \* sequence numbers (2^16)
          Range8,     \* those a deletion is recorded with (2^8)
          ND,         \* recorded deletions (MAX_DELETE_NIO, 30)
          MaxEntry,   \* numbers an update spans (MOB_MAX_ENTRY_BY_UP, 15)
          MaxNonAck,  \* unanswered updates (MAX_NON_ACK, 4)
          MaxOld,     \* bound: numbers are given while none in use is older
          None        \* no datagram, no deletion

ASSUME WindowAssumption ==
  /\ {Range16, Range8, ND, MaxEntry, MaxNonAck, MaxOld} \subseteq Nat \ {0}
  /\ 2 * MaxEntry < Range16

Nums == 0 .. Range16 - 1
Ages == 0 .. Range16     \* how many numbers ago; Range16 stands for more, too

VARIABLES
  list,      \* the nodes on the outgoing list, from min_out_seq on
  num,       \* their sequence numbers (state.seq)
  next_out,  \* next_out_sequence
  deleted,   \* per slot: the byte of a deletion's number, or None
  gw,        \* gws[0]: whether MOB_GW_KNOWN, sequence_out, non_ack
  min_ack,   \* min_ack_sequence
  timer,     \* next_send: "off", "once" (repeat 0) or "again"
  msg,       \* the update or acknowledgement on its way, or None
  age,       \* ghost: how long ago each node's number was given
  lag,       \* ghost: how long ago the acknowledged number was
  told,      \* ghost: the nodes whose number the home agent has heard
  young,     \* ghost: no number in use was ever half the range old
  gapless    \* ghost: no update was called for and had nothing to say

table == <<list, num, next_out, deleted>>
mob   == <<gw, min_ack, timer>>
ghost == <<age, lag, told, young, gapless>>
vars  == <<table, mob, msg, ghost>>

\* UINT16_MAX / 2: what UINT_LESS_THAN takes the difference to be below.
Half == Range16 \div 2 - 1

\* Mutant: the difference is not cut to 16 bits.
PlainLess(a, b) == a <= b

\* UINT_LESS_THAN, which holds for equal numbers as well.
UintLessThan(a, b) == (b - a) % Range16 < Half

Listed == ToSet(list)

Init ==
  /\ list = <<>> /\ num = [n \in Nodes |-> 0] /\ next_out = 1
  /\ deleted = [d \in 1 .. ND |-> None]
  /\ gw = [known |-> FALSE, seq_out |-> 0, non_ack |-> 0] /\ min_ack = 0
  /\ timer = "off"
  /\ msg = None
  /\ age = [n \in Nodes |-> 0] /\ lag = 1 /\ told = {} /\ young = TRUE /\ gapless = TRUE

-----------------------------------------------------------------------------
(* Giving out numbers *)

Later(t) == Min({t + 1, Range16})
Fresh(m, n) == IF m = None THEN None ELSE [m EXCEPT !.says = @ \ {n}]
Older(m, n) == IF m = None THEN None ELSE [Fresh(m, n) EXCEPT !.back = Later(@)]

\* ++next_out_sequence: everything given before is one number older, and what
\* was said of n is about a number it no longer has.
Give(n, new) ==
  /\ lag <= MaxOld /\ \A k \in Listed : age[k] <= MaxOld
  /\ next_out' = (next_out + 1) % Range16
  /\ age' = [k \in Nodes |-> IF k = n THEN new ELSE IF k \in Listed THEN Later(age[k]) ELSE 0]
  /\ lag' = Later(lag)
  /\ msg' = Older(msg, n)
  /\ told' = told \ {n}
  /\ young' = (young /\ lag' < Half /\ \A k \in ToSet(list') : age'[k] < Half)
  /\ UNCHANGED gapless

\* Mutant: the timer is not started.
ArmNever == UNCHANGED timer

\* mob_maj_node starts the timer; one that runs is at most shortened.
Arm == timer' = IF timer = "off" THEN "once" ELSE timer

\* Mutant: the node stays where it is on the list.
DaoInPlace(n) ==
  /\ list' = IF n \in Listed THEN list ELSE Append(list, n)
  /\ num' = [num EXCEPT ![n] = next_out]
  /\ Give(n, 1)
  /\ Arm
  /\ UNCHANGED <<deleted, gw, min_ack>>

\* Mutant: the node is added to the end and not taken from where it was.
DaoTwice(n) ==
  /\ Len(list) <= Cardinality(Nodes)
  /\ list' = Append(list, n)
  /\ num' = [num EXCEPT ![n] = next_out]
  /\ Give(n, 1)
  /\ Arm
  /\ UNCHANGED <<deleted, gw, min_ack>>

\* The list after list_remove of the node.
Without(n) ==
  IF n \in Listed THEN RemoveAt(list, CHOOSE i \in DOMAIN list : list[i] = n) ELSE list

\* A DAO of the node: mob_maj_node moves it to the end under the next number.
Dao(n) ==
  /\ list' = Append(Without(n), n)
  /\ num' = [num EXCEPT ![n] = next_out]
  /\ Give(n, 1)
  /\ Arm
  /\ UNCHANGED <<deleted, gw, min_ack>>

\* mob_lost_node: a number only if there is a slot to record the deletion in.
\* The number of a node that is not on the list is never read: it becomes 0.
Lost(n) ==
  /\ n \in Listed
  /\ list' = Without(n) /\ num' = [num EXCEPT ![n] = 0]
  /\ IF \E d \in DOMAIN deleted : deleted[d] = None
     THEN LET d == Min({k \in DOMAIN deleted : deleted[k] = None})
          IN /\ deleted' = [deleted EXCEPT ![d] = next_out % Range8]
             /\ Give(n, 0)
     ELSE /\ age' = [age EXCEPT ![n] = 0] /\ told' = told \ {n} /\ msg' = Fresh(msg, n)
          /\ UNCHANGED <<deleted, next_out, lag, young, gapless>>
  /\ UNCHANGED mob

-----------------------------------------------------------------------------
(* The home agent becomes known *)

\* mob_new_gw with mob_lbr_evolve_state: everything on the list is to be sent.
Join ==
  /\ ~gw.known
  /\ LET from == IF list # <<>> THEN (num[Head(list)] - 1) % Range16 ELSE min_ack
     IN /\ gw' = [known |-> TRUE, seq_out |-> from, non_ack |-> 0]
        /\ min_ack' = from
        /\ lag' = IF list # <<>> THEN Later(age[Head(list)])
                  ELSE IF from = gw.seq_out THEN lag ELSE Range16
  /\ young' = (young /\ lag' < Half)
  /\ Arm
  /\ UNCHANGED <<table, msg, age, told, gapless>>

-----------------------------------------------------------------------------
(* mob_send_message *)

Ahead  == (next_out - gw.seq_out) % Range16
Behind == Ahead > 1

\* data->sequence
UpTo == (IF Ahead > MaxEntry + 1 THEN gw.seq_out + MaxEntry ELSE next_out - 1) % Range16

\* Where a walk from the given place on stops that passes over the numbers up to k.
After(k, from) ==
  {j \in from .. Len(list) : ~UintLessThan(num[list[j]], k)} \cup {Len(list) + 1}

\* The nodes of an update: past the first ones up to seq_out, then as long as
\* they are up to the number after the update's own.
Walk ==
  LET first == Min(After(gw.seq_out, 1))
      stop  == Min(After(UpTo + 1, first))
  IN SubSeq(list, first, stop - 1)

\* The deletions of an update, as slots.
Deletions ==
  {d \in DOMAIN deleted : deleted[d] # None /\ UintLessThan(deleted[d] - UpTo, MaxEntry)}

Fired == IF timer = "again" THEN "once" ELSE "off"

\* Without a home agent the timer polls.
SendNoHoag ==
  /\ timer # "off" /\ ~gw.known
  /\ timer' = "again"
  /\ UNCHANGED <<table, gw, min_ack, msg, ghost>>

SendDrop ==
  /\ timer # "off" /\ gw.known /\ Behind /\ gw.non_ack >= MaxNonAck
  /\ gw' = [gw EXCEPT !.known = FALSE]
  /\ timer' = Fired
  /\ UNCHANGED <<table, min_ack, msg, ghost>>

SendSkip ==
  /\ timer # "off" /\ gw.known /\ ~Behind
  /\ timer' = Fired
  /\ UNCHANGED <<table, gw, min_ack, msg, ghost>>

\* One update, again and again until it is acknowledged; none if it is empty.
SendUpdate ==
  /\ timer # "off" /\ gw.known /\ Behind /\ gw.non_ack < MaxNonAck
  /\ IF Walk = <<>> /\ Deletions = {}
     THEN /\ timer' = Fired /\ gapless' = FALSE
          /\ UNCHANGED <<gw, msg>>
     ELSE /\ msg' = [kind |-> "up", seq |-> UpTo, says |-> ToSet(Walk),
                     back |-> IF Ahead > MaxEntry + 1 THEN lag - MaxEntry ELSE 1]
          /\ gw' = [gw EXCEPT !.non_ack = @ + 1]
          /\ timer' = "again" /\ UNCHANGED gapless
  /\ UNCHANGED <<table, min_ack, age, lag, told, young>>

\* The sweep of mob_check_all_entry comes first: what it drops is a Lost before it.
Send == SendNoHoag \/ SendDrop \/ SendSkip \/ SendUpdate

-----------------------------------------------------------------------------
(* The network and the home agent *)

\* mob_proceed_up of the home agent: it takes in the update and acknowledges it.
\* An update or acknowledgement that has not arrived by the next update is lost.
Receive ==
  /\ msg # None /\ msg.kind = "up"
  /\ msg' = [msg EXCEPT !.kind = "ack", !.says = {}]
  /\ told' = told \cup msg.says
  /\ UNCHANGED <<table, mob, age, lag, young, gapless>>

\* mob_incoming_ack.  A min_ack that is not the acknowledged number is lost for
\* good: nothing is freed any more.
IncomingAck ==
  /\ msg # None /\ msg.kind = "ack" /\ gw.known
  /\ msg' = None
  /\ gw' = [gw EXCEPT !.seq_out = msg.seq, !.non_ack = 0]
  /\ lag' = msg.back
  /\ IF min_ack = gw.seq_out
     THEN LET min == IF UintLessThan(msg.seq, next_out) THEN msg.seq ELSE next_out
          IN /\ min_ack' = min
             /\ deleted' = [d \in DOMAIN deleted |->
                  IF deleted[d] # None /\ UintLessThan(min_ack, deleted[d])
                       /\ UintLessThan(deleted[d], min)
                  THEN None ELSE deleted[d]]
     ELSE UNCHANGED <<min_ack, deleted>>
  /\ young' = (young /\ lag' < Half)
  /\ UNCHANGED <<list, num, next_out, timer, age, told, gapless>>

Next == \/ \E n \in Nodes : Dao(n) \/ Lost(n)
        \/ Join \/ Send \/ Receive \/ IncomingAck

Spec == Init /\ [][Next]_vars

\* The timer fires, and of what is sent again and again something arrives.
Fair == WF_vars(Send) /\ WF_vars(Receive) /\ WF_vars(IncomingAck)

FairSpec == Spec /\ Fair

-----------------------------------------------------------------------------
(* Properties *)

Datagrams == [kind : {"up", "ack"}, seq : Nums, back : Ages, says : SUBSET Nodes] \cup {None}

\* Every variable keeps its type, and no node is on the list twice.
WindowTypeOK ==
  /\ list \in Seq(Nodes) /\ IsInjective(list)
  /\ num \in [Nodes -> Nums] /\ next_out \in Nums
  /\ deleted \in [1 .. ND -> (0 .. Range8 - 1) \cup {None}]
  /\ gw \in [known : BOOLEAN, seq_out : Nums, non_ack : 0 .. MaxNonAck]
  /\ min_ack \in Nums /\ timer \in {"off", "once", "again"}
  /\ msg \in Datagrams
  /\ age \in [Nodes -> Ages] /\ lag \in Ages /\ told \subseteq Nodes
  /\ young \in BOOLEAN /\ gapless \in BOOLEAN

\* As long as no number in use is half the range old, coming round is not
\* noticed: an update of mob_send_message is the stretch of the list it would be
\* with numbers that only grow, the nodes after the acknowledged number and up to
\* one after its own.
AsIfUnbounded ==
  young /\ gw.known /\ Behind =>
    LET upto   == IF lag > MaxEntry + 1 THEN lag - MaxEntry ELSE 1
        Due(n) == age[n] < lag /\ age[n] >= upto - 1
    IN \E i \in 1 .. Len(list) + 1, j \in 0 .. Len(list) :
         /\ Walk = SubSeq(list, i, j)
         /\ \A k \in 1 .. Len(list) : Due(list[k]) <=> k \in i .. j

\* Whatever was lost and however often the numbers came round, the home agent
\* has heard of every node on the list whose number it acknowledged.
AcknowledgedIsTold ==
  young /\ gw.known => \A n \in Listed : age[n] >= lag => n \in told

\* A node that was not refreshed for half the range silences the router: it heads
\* the list, the walk of mob_send_message neither skips nor takes it, and no
\* binding after it is ever told.
OldNodeSilences ==
  gw.known /\ Behind /\ list # <<>> /\ lag < Half
    /\ age[Head(list)] < Range16 /\ age[Head(list)] - lag >= Half
    => Walk = <<>>

\* A node whose number the home agent is still to hear.
Untold(n) == n \in Listed \ told /\ gw.known /\ young /\ gapless

\* Also with numbers that come round, no node on the list stays untold, however
\* recently it was heard, unless it is refreshed again and again: it is told of or
\* lost, or the home agent is given up; or a number grew too old, or an update
\* fell into a gap.
ToldInTheEnd ==
  \A n \in Nodes : []<>~Untold(n) \/ []<><<num'[n] # num[n]>>_num

=============================================================================
