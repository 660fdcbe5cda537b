--------------------------------- MODULE Line ---------------------------------
(***************************************************************************)
(* What the serial line promises, whatever its framing: frames come out in *)
(* order, each once and whole, as long as nothing on the line is damaged.  *)
(* A damaged frame may come out as anything, and so may the three frames   *)
(* that follow it.                                                         *)
(***************************************************************************)
EXTENDS Integers, Sequences

CONSTANTS Sent,   \* frames the other end may send, sequences of Bytes
          Bytes,
          Size    \* a frame of Size bytes or more is not delivered

VARIABLES
  queue,   \* frames on their way: [f, sound]
  dirt,    \* the frames to come that may suffer from one before them
  asked,   \* the other end has asked for a prefix, or seems to have
  out      \* what the last frame gave: [kind, frame]

\* How many frames a damaged one may take with it.
Reach == 3

lvars == <<queue, dirt, asked, out>>

None  == [kind |-> "none", frame |-> <<>>]
Reply == [kind |-> "reply", frame |-> <<>>]
Packet(f) == [kind |-> "packet", frame |-> f]

Request(f) == Len(f) >= 2 /\ f[1] = "bang" /\ f[2] = "S"

\* Of a frame of one byte the second one is what an earlier frame left.
Asks(f) == Request(f) \/ f = <<"bang">>

\* What a whole frame gives.  An empty frame may ask again for the last answer.
Outcome(f) ==
  IF Len(f) >= Size THEN {None}
  ELSE IF f = <<>>  THEN IF asked THEN {None, Reply} ELSE {None}
  ELSE IF f[1] = "tick" THEN {Packet(f)}
  ELSE IF f = <<"bang">> THEN {None, Reply}
  ELSE IF Request(f)    THEN {Reply}
  ELSE {None}

Anything(o) == o.kind \in {"none", "reply", "packet"} /\ o.frame \in Seq(Bytes)

LInit ==
  /\ \/ queue = <<>>
     \/ \E f \in Sent : queue = <<[f |-> f, sound |-> FALSE]>>
  /\ dirt = 0
  /\ asked = FALSE
  /\ out = None

LSend ==
  /\ \E f \in Sent : queue' = Append(queue, [f |-> f, sound |-> TRUE])
  /\ UNCHANGED <<dirt, asked, out>>

LDamage ==
  /\ \E i \in DOMAIN queue : queue' = [queue EXCEPT ![i].sound = FALSE]
  /\ UNCHANGED <<dirt, asked, out>>

LDeliver ==
  /\ queue # <<>> /\ Head(queue).sound /\ dirt = 0
  /\ out' \in Outcome(Head(queue).f)
  /\ asked' = (asked \/ Asks(Head(queue).f))
  /\ queue' = Tail(queue)
  /\ UNCHANGED dirt

LSuffer ==
  /\ queue # <<>> /\ Head(queue).sound /\ dirt > 0
  /\ Anything(out')
  /\ asked' = TRUE
  /\ queue' = Tail(queue)
  /\ dirt' = dirt - 1

\* A damaged frame may come out in several pieces.
LJunk ==
  /\ queue # <<>> /\ ~Head(queue).sound
  /\ Anything(out')
  /\ asked' = TRUE
  /\ \/ queue' = queue /\ UNCHANGED dirt
     \/ queue' = Tail(queue) /\ dirt' = Reach

LNext == LSend \/ LDamage \/ LDeliver \/ LSuffer \/ LJunk

LSpec == LInit /\ [][LNext]_lvars
=============================================================================
