------------------------------- MODULE TxPort -------------------------------
(***************************************************************************)
(* A polled output port of kern/console.c: serial_putc and lpt_putc.  Each *)
(* call reads the port's status until it is ready for a byte, with a       *)
(* delay() after every time it is not, gives up after SPIN delays, and     *)
(* writes the byte whether the port is ready or not.                       *)
(*                                                                         *)
(* Time is counted in delays: the device (external) takes some number of   *)
(* them over a byte, or, switched off, is never ready again.               *)
(***************************************************************************)
EXTENDS Naturals

CONSTANTS
  SPIN,      \* 12800 in the code
  MaxTime,   \* bound: the most delays a working device takes over a byte
  Never      \* the time a device that is switched off takes

ASSUME TxPortAssumption == SPIN \in Nat /\ MaxTime \in Nat /\ Never \notin Nat

VARIABLES
  busy,      \* how long the device is still busy with the last byte
  speed,     \* history: the longest it has taken over a byte so far
  spins,     \* the loop variable i
  polling,   \* the caller waits
  lost       \* history: a byte was written over one that was not yet sent

port == <<busy, speed, spins, polling, lost>>

Ready == busy = 0

\* A slip: one delay too few.
Waits_Short == ~Ready /\ spins < SPIN - 1

\* The condition of the loop.
Waits == ~Ready /\ spins < SPIN

PortInit == busy = 0 /\ speed = 0 /\ spins = 0 /\ polling = FALSE /\ lost = FALSE

putc == /\ ~polling
        /\ polling' = TRUE /\ spins' = 0
        /\ UNCHANGED <<busy, speed, lost>>

delay == /\ polling /\ Waits
         /\ spins' = spins + 1
         /\ busy' = IF busy = Never THEN Never ELSE busy - 1
         /\ UNCHANGED <<speed, polling, lost>>

\* The loop ends one way or the other; the device takes up the byte.
write == /\ polling /\ ~Waits
         /\ lost' = (lost \/ ~Ready)
         /\ \E t \in 0..MaxTime \cup {Never} :
              /\ busy' = t
              /\ speed' = IF speed = Never \/ t = Never THEN Never
                          ELSE IF t > speed THEN t ELSE speed
         /\ polling' = FALSE
         /\ UNCHANGED spins

\* The device works on while no byte is given to it.
work == /\ ~polling /\ busy \notin {0, Never}
        /\ busy' = busy - 1
        /\ UNCHANGED <<speed, spins, polling, lost>>

PortNext == putc \/ delay \/ write \/ work

PortSpec == PortInit /\ [][PortNext]_port

-----------------------------------------------------------------------------
(* Properties *)

\* A device that needs no more than SPIN delays for a byte never loses one: the
\* status is read once more after the last delay.
SlowEnough == lost => speed = Never \/ speed > SPIN

=============================================================================
