-------------------------------- MODULE Kbd --------------------------------
(***************************************************************************)
(* A person at the keyboard and kbd_proc_data (kern/console.c) decoding    *)
(* what the keyboard sends.                                                *)
(*                                                                         *)
(* The keyboard (external) sends make and break codes, prefixed by 0xE0    *)
(* for an extended key, repeats the make code of a held key, and wraps the *)
(* codes of an extended key in a "fake shift" release and press while a    *)
(* left shift is held.  Bytes wait on `wire' until they are decoded, so a  *)
(* key can be released before its make code is seen.                       *)
(*                                                                         *)
(* Each byte on the wire also carries, for the properties only, the keys   *)
(* that were down once the keyboard had sent it.                           *)
(***************************************************************************)
EXTENDS KbdMap, Sequences, FiniteSets

CONSTANTS
  Keys,      \* the keys of the keyboard: [code : 1..127, ext : BOOLEAN]
  MaxHeld,   \* bound: how many keys are held together
  MaxWire    \* bound: bytes waiting for the decoder when a key is touched

\* No key has the code whose break code would be the prefix itself.
ASSUME KeysAssumption ==
  /\ Keys \subseteq [code : 1..127, ext : BOOLEAN]
  /\ \A k \in Keys : k.code # E0 - 128
  /\ MaxHeld \in Nat /\ MaxWire \in Nat

VARIABLES
  held,      \* the keys that are down
  wire,      \* bytes sent and not yet decoded: a sequence of [data, down]
  shift,     \* static uint32_t shift of kbd_proc_data
  out,       \* what the last call returned, and whether it asked for a reset
  down       \* history: the keys down when the last decoded byte was sent

vars == <<held, wire, shift, out, down>>

LShift == [code |-> 42, ext |-> FALSE]

Make(k)  == IF k.ext THEN <<E0, k.code>> ELSE <<k.code>>
Break(k) == IF k.ext THEN <<E0, k.code + 128>> ELSE <<k.code + 128>>

\* Keys whose codes are wrapped in a fake shift while left shift is held: the
\* navigation keys (0x47..0x53 of the extended set).
Navigation(k) == k.ext /\ k.code \in 71..83

MakeCodes(k)  == (IF Navigation(k) /\ LShift \in held THEN <<E0, 170>> ELSE <<>>) \o Make(k)
BreakCodes(k) == Break(k) \o (IF Navigation(k) /\ LShift \in held THEN <<E0, 42>> ELSE <<>>)

\* The bytes `codes' on the wire; the last of them finds the keys `after' down.
Sent(codes, after) ==
  [i \in 1..Len(codes) |-> [data |-> codes[i],
                            down |-> IF i = Len(codes) THEN after ELSE held]]

-----------------------------------------------------------------------------
Init == /\ held = {} /\ wire = <<>> /\ shift = {} /\ down = {}
        /\ out = [c |-> NO, reboot |-> FALSE]

Press(k) ==
  /\ k \notin held
  /\ Cardinality(held) < MaxHeld /\ Len(wire) <= MaxWire
  /\ held' = held \cup {k}
  /\ wire' = wire \o Sent(MakeCodes(k), held')
  /\ UNCHANGED <<shift, out, down>>

Repeat(k) ==
  /\ k \in held
  /\ Len(wire) <= MaxWire
  /\ wire' = wire \o Sent(Make(k), held)
  /\ UNCHANGED <<held, shift, out, down>>

Release(k) ==
  /\ k \in held
  /\ Len(wire) <= MaxWire
  /\ held' = held \ {k}
  /\ wire' = wire \o Sent(BreakCodes(k), held')
  /\ UNCHANGED <<shift, out, down>>

\* kbd_proc_data with a byte in the controller: decode it.
kbd_proc_data ==
  /\ wire # <<>>
  /\ LET d == Decode(shift, Head(wire).data)
     IN  /\ shift' = d.shift
         /\ out' = [c |-> d.c, reboot |-> d.reboot]
  /\ down' = Head(wire).down
  /\ wire' = Tail(wire)
  /\ UNCHANGED held

Next == \/ \E k \in Keys : Press(k) \/ Repeat(k) \/ Release(k)
        \/ kbd_proc_data

Spec == Init /\ [][Next]_vars

-----------------------------------------------------------------------------
(* Properties *)

TypeOK ==
  /\ held \subseteq Keys /\ down \subseteq Keys
  /\ \A i \in 1..Len(wire) : wire[i].data \in Byte /\ wire[i].down \subseteq Keys
  /\ shift \subseteq Flags
  /\ out.c \in Byte /\ out.reboot \in BOOLEAN

\* The flag a key stands for: that of the code kbd_proc_data looks up for it.
ModifierOf(k) == shiftcode(IF k.ext THEN k.code + 128 ELSE k.code)

\* A modifier bit of `shift' is never stuck: it is set only while some key that
\* means this modifier was down when the last decoded byte left the keyboard,
\* whatever mixture of left and right keys, extended prefixes, fake shifts and
\* repeats came before (the shift |= / shift &= of kbd_proc_data).
NoStuckModifier ==
  \A m \in Modifiers \cap shift : \E k \in down : m \in ModifierOf(k)

\* The machine is reset only by Ctrl-Alt-Del: when kbd_proc_data asks for it, a
\* control key, an alt key and the extended Delete key (not the keypad's) were
\* down together on the keyboard.
ResetNeedsChord ==
  out.reboot => /\ \E k \in down : "CTL" \in ModifierOf(k)
                /\ \E k \in down : "ALT" \in ModifierOf(k)
                /\ [code |-> 83, ext |-> TRUE] \in down

\* The escape state lasts for one byte: with nothing left on the wire no E0ESC
\* is pending, so the next key is never taken for an extended one.
NoStaleEscape == wire = <<>> => "E0ESC" \notin shift

\* Under every modifier state the user can produce, a letter key yields its
\* control code with Ctrl, and otherwise the letter in the case Shift and Caps
\* Lock say together (each inverts the other).
LetterScanCodes == (16..25) \cup (30..38) \cup (44..50)
LetterCase ==
  "E0ESC" \notin shift =>
    \A d \in LetterScanCodes :
      LET c     == Decode(shift, d).c
          lower == NormalRows[d + 1]
      IN  IF "CTL" \in shift THEN c = lower - 96
          ELSE IF ("SHIFT" \in shift) # ("CAPSLOCK" \in shift) THEN c = lower - 32
          ELSE c = lower

=============================================================================
