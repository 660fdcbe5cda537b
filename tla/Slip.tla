--------------------------------- MODULE Slip ---------------------------------
(***************************************************************************)
(* The SLIP framing of the serial line (ttyConnection.c), one byte of the  *)
(* read loop at a time, on a line that may change or lose a byte.  Bytes   *)
(* are named: "bang" is '!', "tick" is '`' (0x60, which is also the first  *)
(* byte of an IPv6 packet), "x" any byte without a meaning.                *)
(***************************************************************************)
EXTENDS Integers, Sequences, SequencesExt

CONSTANTS
  Size,       \* TTY_BUFF_SIZE (30000)
  Sends,      \* the frames that may be written, per writer: "mote", the bridge,
              \* and "gateway", a peer that writes with tty_output
  MaxFrames,  \* bound: frames written
  MaxAhead,   \* bound: frames on the line
  MaxNoise    \* bound: bytes changed or lost

Bytes == {"nul", "END", "ESC", "ESC_END", "ESC_ESC", "bang", "S", "tick", "x"}

ASSUME SlipAssumption ==
  /\ Size \in Nat /\ Size >= 2
  /\ DOMAIN Sends \subseteq {"mote", "gateway"}
  /\ \A w \in DOMAIN Sends : \A f \in Sends[w] : f \in Seq(Bytes)
  /\ {MaxFrames, MaxAhead, MaxNoise} \subseteq Nat


VARIABLES
  buffer,      \* keeps the bytes of earlier frames past buffer_end
  buffer_end,  \* buffer_start is always 0
  state,
  out,         \* what the last END made of the frame: a packet for
               \* tcpip_input, the prefix written back, or nothing
  wire,        \* frames on the line: [f, rest (still to be read), sound]
  writer,      \* the other end
  written, noise,
  dirt, asked  \* ghosts: see Line

linevars == <<writer, written, noise>>
vars     == <<buffer, buffer_end, state, out, wire, linevars, dirt, asked>>

\* All that may be written.
Sent == UNION {Sends[w] : w \in DOMAIN Sends}

Promise == INSTANCE Line WITH
  queue <- [i \in DOMAIN wire |-> [f |-> wire[i].f, sound |-> wire[i].sound]]

-----------------------------------------------------------------------------
\* init_ttyUSBX: the byte that stands for an ESC in what the gateway writes.
slipescesc == "ESC_END"

Stuff(b, escesc) ==
  CASE b = "END" -> <<"ESC", "ESC_END">>
    [] b = "ESC" -> <<"ESC", escesc>>
    [] OTHER     -> <<b>>

\* tty_output, as a sequence of writes none of which falls short.
tty_output(f) == FlattenSeq([i \in DOMAIN f |-> Stuff(f[i], slipescesc)]) \o <<"END">>

\* The bridge at the other end, as the reader expects it.
MoteOutput(f) == FlattenSeq([i \in DOMAIN f |-> Stuff(f[i], "ESC_ESC")]) \o <<"END">>

Encode(f) == IF writer = "gateway" THEN tty_output(f) ELSE MoteOutput(f)

\* The line may be in the middle of a frame when it is opened.
Init ==
  /\ buffer = [i \in 0 .. Size - 1 |-> "nul"]
  /\ buffer_end = 0
  /\ state = "OK"
  /\ out = Promise!None
  /\ writer \in DOMAIN Sends
  /\ \/ wire = <<>>
     \/ \E f \in Sends[writer] : \E n \in 2 .. Len(Encode(f)) :
          wire = <<[f |-> f, rest |-> SubSeq(Encode(f), n, Len(Encode(f))), sound |-> FALSE]>>
  /\ written = 0 /\ noise = 0
  /\ dirt = 0 /\ asked = FALSE

-----------------------------------------------------------------------------
\* The other end and the line.
Write ==
  /\ written < MaxFrames
  /\ Len(wire) < MaxAhead
  /\ \E f \in Sends[writer] : wire' = Append(wire, [f |-> f, rest |-> Encode(f), sound |-> TRUE])
  /\ written' = written + 1
  /\ UNCHANGED <<buffer, buffer_end, state, out, writer, noise, dirt, asked>>

Hit(i, rest) == wire' = [wire EXCEPT ![i].rest = rest, ![i].sound = FALSE]

Noise ==
  /\ noise < MaxNoise
  /\ noise' = noise + 1
  /\ \E i \in DOMAIN wire :
       LET r == wire[i].rest
       IN \E j \in DOMAIN r :
            \/ \E b \in Bytes \ {r[j]} : Hit(i, [r EXCEPT ![j] = b])
            \/ Len(r) > 1 /\ Hit(i, RemoveAt(r, j))
  /\ UNCHANGED <<buffer, buffer_end, state, out, writer, written, dirt, asked>>

-----------------------------------------------------------------------------
\* One byte of tty_readable_cb.
Byte == Head(Head(wire).rest)
AtEnd == Len(Head(wire).rest) = 1

Take ==
  /\ wire' = IF AtEnd THEN Tail(wire) ELSE [wire EXCEPT ![1].rest = Tail(@)]
  /\ dirt' = IF ~AtEnd THEN dirt
             ELSE IF ~Head(wire).sound THEN Promise!Reach
             ELSE IF dirt > 0 THEN dirt - 1 ELSE 0
  /\ asked' = \/ asked
              \/ ~Head(wire).sound
              \/ AtEnd /\ (dirt > 0 \/ Promise!Asks(Head(wire).f))
  /\ UNCHANGED linevars

\* Mutant: one byte too late.
FullLate == buffer_end > Size

\* The buffer is full: what it holds, and the rest of the frame, is dropped.
Full == buffer_end >= Size
End  == IF Full THEN 0 ELSE buffer_end

Keep(b) ==
  /\ buffer' = [buffer EXCEPT ![End] = b]
  /\ buffer_end' = End + 1
  /\ state' = "OK"
  /\ UNCHANGED out

Stay(s) ==
  /\ state' = s
  /\ buffer_end' = End
  /\ UNCHANGED buffer

\* handle_input: the first bytes are read even if the frame has none.
handle_input ==
  /\ out' = IF buffer[0] = "bang" /\ buffer[1] = "S" THEN Promise!Reply
            ELSE IF buffer[0] = "tick" /\ buffer_end > 0
            THEN Promise!Packet([i \in 1 .. buffer_end |-> buffer[i - 1]])
            ELSE Promise!None
  /\ buffer_end' = 0
  /\ state' = "OK"
  /\ UNCHANGED buffer

ReadOk ==
  /\ wire # <<>> /\ ~Full /\ state = "OK"
  /\ Take
  /\ \/ Byte = "END" /\ handle_input
     \/ Byte = "ESC" /\ Stay("ESC") /\ UNCHANGED out
     \/ Byte \notin {"END", "ESC"} /\ Keep(Byte)

ReadEsc ==
  /\ wire # <<>> /\ ~Full /\ state = "ESC"
  /\ Take
  /\ \/ Byte = "ESC_END" /\ Keep("END")
     \/ Byte = "ESC_ESC" /\ Keep("ESC")
     \/ Byte \notin {"ESC_END", "ESC_ESC"} /\ Stay("RUBBISH") /\ UNCHANGED out

\* Mutant: an END inside the rubbish is not looked for.
RubbishOneByte ==
  /\ wire # <<>> /\ ~Full /\ state = "RUBBISH"
  /\ Take
  /\ Stay("RUBBISH")
  /\ out' = Promise!None

\* The END of a broken frame; what was read of it stays in the buffer.
ReadRubbish ==
  /\ wire # <<>> /\ ~Full /\ state = "RUBBISH"
  /\ Take
  /\ \/ Byte = "END" /\ Stay("OK") /\ out' = Promise!None
     \/ Byte # "END" /\ Stay("RUBBISH") /\ UNCHANGED out

\* Mutant: what does not fit any more is dropped, its tail is not.
CommentIsFrame ==
  /\ wire # <<>> /\ (Full \/ state = "COMMENT")
  /\ Take
  /\ Stay("OK") /\ out' = Promise!None

ReadComment ==
  /\ wire # <<>> /\ (Full \/ state = "COMMENT")
  /\ Take
  /\ \/ Byte = "END" /\ Stay("OK") /\ out' = Promise!None
     \/ Byte # "END" /\ Stay("COMMENT") /\ UNCHANGED out

Read == ReadOk \/ ReadEsc \/ ReadRubbish \/ ReadComment

Next == Write \/ Noise \/ Read

Spec == Init /\ [][Next]_vars

-----------------------------------------------------------------------------
\* Every variable keeps its type: nothing is written past the buffer.
SlipTypeOK ==
  /\ buffer \in [0 .. Size - 1 -> Bytes]
  /\ buffer_end \in 0 .. Size
  /\ state \in {"OK", "ESC", "RUBBISH", "COMMENT"}
  /\ out \in [kind : {"none", "reply", "packet"}, frame : Seq(Bytes)]
  /\ wire \in Seq([f : Sent, rest : Seq(Bytes), sound : BOOLEAN]) /\ writer \in DOMAIN Sends
  /\ written \in 0 .. MaxFrames /\ noise \in 0 .. MaxNoise
  /\ dirt \in 0 .. Promise!Reach /\ asked \in BOOLEAN

\* Three frames after the last damaged one the reader is at the start of a frame
\* with nothing left of the broken ones.  Fewer do not do: an END that became an
\* ESC eats the next END if an empty frame follows, the rubbish lasts to the END
\* after that, and what was read stays in the buffer for the third frame.
Resynchronised ==
  (dirt = 0 /\ (wire = <<>> \/ (Head(wire).sound /\ Head(wire).rest = Encode(Head(wire).f))))
     => state = "OK" /\ buffer_end = 0

\* The reader does what the line promises: sound frames come out whole, once
\* and in order, none in part because it is too long, and only noise is heard
\* as something that was not sent.
LineSpec == Promise!LSpec

\* The reader (and SLIP_ESC_ESC of ttyConnection.h) and tty_output agree on what
\* stands for an ESC: a packet that was written on a good line is read back.
RoundTrip ==
  [][LET h == Head(wire)
     IN (/\ wire # <<>> /\ wire' = Tail(wire) /\ h.sound /\ dirt = 0
         /\ Len(h.f) < Size /\ h.f # <<>> /\ h.f[1] = "tick")
        => out' = Promise!Packet(h.f)]_vars
=============================================================================
