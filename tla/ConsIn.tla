------------------------------- MODULE ConsIn -------------------------------
(***************************************************************************)
(* Console input of kern/console.c: the serial port and the keyboard       *)
(* controller, polled by cons_getc through cons_intr into the ring buffer  *)
(* `cons', and getchar taking characters out of it.                        *)
(*                                                                         *)
(* The processor runs with interrupts off, so the only concurrency is with *)
(* the devices: a byte can arrive between any two port reads.  One action  *)
(* is one port read, with the code up to the next one.                     *)
(***************************************************************************)
EXTENDS KbdMap, Integers, Sequences

CONSTANTS
  CONSBUFSIZE,   \* size of cons.buf
  SerialBytes,   \* the bytes that come in over the serial line
  KbdBytes,      \* the bytes the keyboard sends
  MouseBytes,    \* the bytes the mouse sends
  MaxInput       \* bound: bytes that arrive from outside, between two resets

ASSUME ConsInAssumption ==
  /\ CONSBUFSIZE \in Nat \ {0}
  /\ SerialBytes \subseteq Byte /\ KbdBytes \subseteq Byte /\ MouseBytes \subseteq Byte
  /\ MaxInput \in Nat

VARIABLES
  rx,            \* UART receive register: <<>> or <<byte>>  (external)
  kbq,           \* keyboard controller: its output buffer is the head of the
                 \* bytes waiting there, each from the keyboard or the mouse
                 \* (external)
  input,         \* bytes that have arrived from outside so far
  serial_exists, \* static bool serial_exists
  shift,         \* static uint32_t shift of kbd_proc_data
  buf, rpos, wpos,   \* cons.buf, cons.rpos, cons.wpos
  pc,            \* where the processor is
  ret,           \* the character getchar returned last, 0 at first
  resetting,     \* the chipset has been told to reset the machine (external)
  waiting,       \* history: characters put in and not taken out, in order
  overflowed     \* history: the reader has been CONSBUFSIZE characters behind

device == <<rx, kbq, input>>
ring   == <<buf, rpos, wpos>>
ghost  == <<waiting, overflowed>>
vars   == <<device, serial_exists, shift, ring, pc, ret, resetting, ghost>>

-----------------------------------------------------------------------------
(* The devices (external) *)

\* Without its FIFO the UART keeps one byte: a byte that arrives before the last
\* one was read replaces it.
SerialArrives(b) ==
  /\ serial_exists /\ input < MaxInput
  /\ rx' = <<b>>
  /\ input' = input + 1
  /\ UNCHANGED <<kbq, serial_exists, shift, ring, pc, ret, resetting, ghost>>

\* The keyboard controller passes bytes on one at a time, in order.
ControllerArrives(b, isMouse) ==
  /\ input < MaxInput
  /\ kbq' = Append(kbq, [data |-> b, aux |-> isMouse])
  /\ input' = input + 1
  /\ UNCHANGED <<rx, serial_exists, shift, ring, pc, ret, resetting, ghost>>

-----------------------------------------------------------------------------
(* cons_intr and cons_getc *)

Wrap_Late(i) == IF i > CONSBUFSIZE THEN 0 ELSE i     \* a slip: one too late

Wrap(i) == IF i = CONSBUFSIZE THEN 0 ELSE i

\* Characters the ring shows as unread, and those characters, oldest first.
Unread  == IF wpos >= rpos THEN wpos - rpos ELSE wpos - rpos + CONSBUFSIZE
Slot(k) == IF rpos + k < CONSBUFSIZE THEN rpos + k ELSE rpos + k - CONSBUFSIZE
Pending == [k \in 1..Unread |-> buf[Slot(k - 1)]]

\* A slip: wpos is stepped before it is used.
Store_Ahead(c) ==
  IF c = 0 THEN UNCHANGED <<ring, ghost>>
  ELSE /\ buf' = [buf EXCEPT ![Wrap(wpos + 1)] = c]
       /\ wpos' = Wrap(wpos + 1)
       /\ waiting' = Append(waiting, c)
       /\ overflowed' = (overflowed \/ Len(waiting) + 1 >= CONSBUFSIZE)
       /\ UNCHANGED rpos

\* One turn of cons_intr's loop with the character c: 0 is skipped, anything
\* else goes to buf[wpos++], and there is no test for a full buffer.
Store(c) ==
  IF c = 0 THEN UNCHANGED <<ring, ghost>>
  ELSE /\ buf' = [buf EXCEPT ![wpos] = c]
       /\ wpos' = Wrap(wpos + 1)
       /\ waiting' = Append(waiting, c)
       /\ overflowed' = (overflowed \/ Len(waiting) + 1 >= CONSBUFSIZE)
       /\ UNCHANGED rpos

\* getchar is called: poll the serial port first.
getchar ==
  /\ pc = "caller"
  /\ pc' = "serial"
  /\ UNCHANGED <<device, serial_exists, shift, ring, ret, resetting, ghost>>

\* Slips: the status is not looked at; the keyboard is polled only when there is
\* no serial port.
serial_status_Blind ==
  /\ pc = "serial"
  /\ pc' = IF serial_exists THEN "rx" ELSE "kbd"
  /\ UNCHANGED <<device, serial_exists, shift, ring, ret, resetting, ghost>>
serial_status_Only ==
  /\ pc = "serial"
  /\ pc' = IF serial_exists THEN IF rx # <<>> THEN "rx" ELSE "take" ELSE "kbd"
  /\ UNCHANGED <<device, serial_exists, shift, ring, ret, resetting, ghost>>

\* serial_intr and the status read of serial_proc_data.
serial_status ==
  /\ pc = "serial"
  /\ pc' = IF serial_exists /\ rx # <<>> THEN "rx" ELSE "kbd"
  /\ UNCHANGED <<device, serial_exists, shift, ring, ret, resetting, ghost>>

\* serial_proc_data reads the receive register; cons_intr stores the byte.
serial_data ==
  /\ pc = "rx"
  /\ rx' = <<>>
  /\ Store(Head(rx))
  /\ pc' = "serial"
  /\ UNCHANGED <<kbq, input, serial_exists, shift, ret, resetting>>

\* kbd_intr and the status read of kbd_proc_data: a byte of the mouse is left
\* where it is.
kbd_status ==
  /\ pc = "kbd"
  /\ pc' = IF kbq # <<>> /\ ~Head(kbq).aux THEN "data" ELSE "take"
  /\ UNCHANGED <<device, serial_exists, shift, ring, ret, resetting, ghost>>

\* kbd_proc_data reads and decodes the byte; cons_intr stores the character, the
\* KEY_DEL of Ctrl-Alt-Del too: the write to port 0x92 asks for a reset, and
\* kbd_proc_data returns.
kbd_data ==
  /\ pc = "data"
  /\ kbq' = Tail(kbq)
  /\ LET d == Decode(shift, Head(kbq).data)
     IN  /\ shift' = d.shift
         /\ resetting' = (resetting \/ d.reboot)
         /\ Store(d.c)
  /\ pc' = "kbd"
  /\ UNCHANGED <<rx, input, serial_exists, ret>>

\* Slips: rpos is stepped before it is used; getchar's loop is not left.
take_Ahead ==
  /\ pc = "take"
  /\ rpos # wpos
  /\ ret' = buf[Wrap(rpos + 1)]
  /\ rpos' = Wrap(rpos + 1)
  /\ pc' = "caller"
  /\ waiting' = Tail(waiting)
  /\ UNCHANGED <<device, serial_exists, shift, buf, wpos, resetting, overflowed>>
take_Again ==
  /\ pc = "take"
  /\ rpos # wpos
  /\ ret' = buf[rpos]
  /\ rpos' = Wrap(rpos + 1)
  /\ pc' = "serial"
  /\ waiting' = Tail(waiting)
  /\ UNCHANGED <<device, serial_exists, shift, buf, wpos, resetting, overflowed>>

\* cons_getc finds a character: getchar returns it.
take ==
  /\ pc = "take"
  /\ rpos # wpos
  /\ ret' = buf[rpos]
  /\ rpos' = Wrap(rpos + 1)
  /\ pc' = "caller"
  /\ waiting' = Tail(waiting)
  /\ UNCHANGED <<device, serial_exists, shift, buf, wpos, resetting, overflowed>>

\* cons_getc returns 0: getchar polls again.
retry ==
  /\ pc = "take"
  /\ rpos = wpos
  /\ pc' = "serial"
  /\ UNCHANGED <<device, serial_exists, shift, ring, ret, resetting, ghost>>

EmptyBuf == [i \in 0..(CONSBUFSIZE - 1) |-> 0]

\* The reset takes effect, at whatever instruction the processor is, and the
\* machine boots again.
reboot ==
  /\ resetting /\ resetting' = FALSE
  /\ rx' = <<>> /\ kbq' = <<>> /\ input' = 0
  /\ shift' = {}
  /\ buf' = EmptyBuf /\ rpos' = 0 /\ wpos' = 0
  /\ pc' = "caller" /\ ret' = 0
  /\ waiting' = <<>> /\ overflowed' = FALSE
  /\ UNCHANGED serial_exists

-----------------------------------------------------------------------------
\* The kernel when i386_init has cleared the BSS and cons_init has read away what
\* the UART still held; serial_init found a port or did not.
Init == /\ rx = <<>> /\ kbq = <<>> /\ input = 0
        /\ serial_exists \in BOOLEAN
        /\ shift = {}
        /\ buf = EmptyBuf /\ rpos = 0 /\ wpos = 0
        /\ pc = "caller" /\ ret = 0 /\ resetting = FALSE
        /\ waiting = <<>> /\ overflowed = FALSE

Devices == \/ \E b \in SerialBytes : SerialArrives(b)
           \/ \E b \in KbdBytes : ControllerArrives(b, FALSE)
           \/ \E b \in MouseBytes : ControllerArrives(b, TRUE)

Processor == \/ getchar \/ serial_status \/ serial_data
             \/ kbd_status \/ kbd_data \/ take \/ retry

Next == Devices \/ Processor \/ reboot

Spec == Init /\ [][Next]_vars

\* The processor never stops, and the monitor calls getchar again and again;
\* nothing is assumed of the devices.
FairSpec == Spec /\ WF_vars(Processor) /\ WF_vars(reboot)

-----------------------------------------------------------------------------
(* Properties *)

TypeOK ==
  /\ rx \in {<<>>} \cup {<<b>> : b \in Byte}
  /\ kbq \in Seq([data : Byte, aux : BOOLEAN])
  /\ input \in Nat
  /\ serial_exists \in BOOLEAN
  /\ shift \in SUBSET Flags
  /\ buf \in [0..(CONSBUFSIZE - 1) -> Byte]
  /\ rpos \in 0..(CONSBUFSIZE - 1) /\ wpos \in 0..(CONSBUFSIZE - 1)
  /\ pc \in {"caller", "serial", "rx", "kbd", "data", "take"}
  /\ ret \in Byte /\ resetting \in BOOLEAN
  /\ waiting \in Seq(Byte) /\ overflowed \in BOOLEAN

\* A port is read only when its status said there is a byte: between the status
\* read and the data read the devices may add a byte, never take one away.
DataIsThere == /\ pc = "rx" => rx # <<>>
               /\ pc = "data" => kbq # <<>> /\ ~Head(kbq).aux

\* While the reader has never been CONSBUFSIZE characters behind, the ring holds
\* exactly the characters that went in and did not come out, oldest first.
InOrder == ~overflowed => Pending = waiting

\* The comment on cons_getc: "return the next input character from the console,
\* or 0 if none waiting".  It returns 0 (retry) only if nothing is waiting.
ZeroMeansNoneWaiting == pc = "take" /\ rpos = wpos => waiting = <<>>

\* The ring implements the abstract input queue.
Queue == INSTANCE InputQueue
           WITH Capacity <- CONSBUFSIZE, Char <- Byte \ {0},
                queue <- Pending, got <- ret
QueueSpec == Queue!Spec

\* The comment "Ignore data from mouse." in kbd_proc_data: every byte the keyboard
\* sends is read, whatever the mouse sends with it.
KeyWaits  == \E i \in 1..Len(kbq) : ~kbq[i].aux
MouseWaits == \E i \in 1..Len(kbq) : kbq[i].aux
KeyboardIsRead == KeyWaits ~> ~KeyWaits

\* What does hold if no byte of the mouse is waiting in the controller: it is read, when
\* the serial line pauses, however much it had to say.  Here every burst ends, after
\* MaxInput bytes; on a line that always has a byte ready cons_intr never leaves the
\* loop that reads it (console.c:401), and so never gets to kbd_intr.
KeyboardIsReadAlone == KeyWaits ~> (~KeyWaits \/ MouseWaits)

\* getchar returns once a character is in the ring, unless what arrives before it
\* can be taken fills the ring and so empties it.
GetcharReturns == (pc # "caller" /\ rpos # wpos) ~> (pc = "caller" \/ overflowed)

=============================================================================
