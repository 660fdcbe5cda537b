-------------------------------- MODULE Trickle --------------------------------
(***************************************************************************)
(* The timer of the DIO messages of one RPL instance (rpl-timers.c), reset *)
(* by multicast DIS messages (rpl-icmp6.c).  Time is in seconds, as in     *)
(* dio_rescheduler.                                                        *)
(*                                                                         *)
(* The link local address is preferred from uip_ds6_init on, so no DIO is  *)
(* postponed; a gateway ignores the DIOs it receives, so dio_counter stays *)
(* 0 and none is suppressed.  A timer that is due is handled before the    *)
(* next second.                                                            *)
(***************************************************************************)
EXTENDS Integers

CONSTANTS Intmin,     \* dio_intmin: 2^Intmin ms is the shortest interval (12)
          Doublings   \* dio_intdoubl (8)

ASSUME TrickleAssumption == {Intmin, Doublings} \subseteq Nat

VARIABLES
  intcurrent,   \* dio_intcurrent
  next_delay,   \* dio_timer.dio_next_delay
  dio_send,     \* the DIO of this interval is still to be sent
  left,         \* seconds until the timer is due
  age           \* ghost: seconds since the interval began

tvars == <<intcurrent, next_delay, dio_send, left, age>>

Intmax == Intmin + Doublings

\* The length of an interval: 2^c milliseconds in whole seconds.
Length(c) == 2^c \div 1000

\* Mutant: the random time itself, as if it were the time that is left.
DelayNotSubtracted(c) ==
  LET half == Length(c) \div 2
  IN half .. 2 * half

\* What is left of the interval after a random time between I/2 and I.
Delay(c) ==
  LET half == Length(c) \div 2
  IN Length(c) - 2 * half .. Length(c) - half

\* new_dio_interval: the timer is due after the rest, not after the random time.
NewInterval(c) ==
  /\ intcurrent' = c
  /\ next_delay' \in Delay(c)
  /\ left' = next_delay'
  /\ dio_send' = TRUE
  /\ age' = 0

\* rpl_set_root forces a reset.
TInit ==
  /\ intcurrent = Intmin
  /\ next_delay \in Delay(Intmin)
  /\ left = next_delay
  /\ dio_send = TRUE
  /\ age = 0

\* The DIO is sent; the timer is due again after the same delay.
FireSend ==
  /\ left = 0
  /\ dio_send
  /\ dio_send' = FALSE
  /\ left' = next_delay
  /\ UNCHANGED <<intcurrent, next_delay, age>>

\* Mutant: there is no longest interval.
DoubledForever(c) == c + 1

Doubled(c) == IF c < Intmax THEN c + 1 ELSE c

FireNew ==
  /\ left = 0
  /\ ~dio_send
  /\ NewInterval(Doubled(intcurrent))

\* Mutant: a reset of a timer that was just reset.
DisAlways == NewInterval(Intmin)

\* A multicast DIS resets the timer, unless it was just reset or started.
Dis ==
  /\ intcurrent > Intmin
  /\ NewInterval(Intmin)

Second ==
  /\ left > 0
  /\ left' = left - 1
  /\ age' = age + 1
  /\ UNCHANGED <<intcurrent, next_delay, dio_send>>

TNext == FireSend \/ FireNew \/ Dis \/ Second

\* Time passes and the event loop handles a timer that is due.  Motes need not
\* send anything.
TSpec == TInit /\ [][TNext]_tvars /\ WF_tvars(FireSend \/ FireNew) /\ WF_tvars(Second)

-----------------------------------------------------------------------------
\* Every variable keeps its type; the interval is doubled at most Doublings times.
TrickleTypeOK ==
  /\ intcurrent \in Intmin .. Intmax
  /\ next_delay \in Nat
  /\ left \in 0 .. next_delay
  /\ dio_send \in BOOLEAN
  /\ age \in Nat

\* An interval does not outlast its length (rounded up to an even number of
\* seconds), and its DIO is out by the middle of it, whatever random times were
\* drawn and however DIS messages reset the timer.
DioInTime ==
  LET I == Length(intcurrent)
  IN IF dio_send
     THEN age + left <= I - I \div 2
     ELSE age + left <= 2 * (I - I \div 2)

\* However often motes ask, the DIO of an interval is sent: a reset is ignored
\* while the timer is at its shortest interval.
DioIsSent == dio_send ~> ~dio_send

\* rpl-timers.c: "The intervals must be equally long among the nodes for Trickle
\* to operate efficiently."  An interval that ends lasted its length.
IntervalsEquallyLong == [][FireNew => age = Length(intcurrent)]_tvars

=============================================================================
