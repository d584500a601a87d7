---------------------------- MODULE KbdMapProofs ----------------------------
(***************************************************************************)
(* What the keyboard decoder returns, for every byte and every state of    *)
(* the modifiers.                                                          *)
(***************************************************************************)
EXTENDS KbdMap, TLAPS

\* The tables hold bytes.
LEMMA NormalRowsBytes == \A i \in 1..84 : NormalRows[i] \in Byte
BY SMTT(90) DEF NormalRows, Byte

LEMMA ShiftRowsBytes == \A i \in 1..84 : ShiftRows[i] \in Byte
BY SMTT(90) DEF ShiftRows, Byte

LEMMA CtlRowsBytes == \A i \in 1..54 : CtlRows[i] \in Byte
BY SMTT(90) DEF CtlRows, Byte

LEMMA NavKeyByte == \A d \in Nat : NavKey(d) \in Byte
<1>1. \A i \in 1..12 : NavRows[i] \in Byte
  BY SMTT(60) DEF NavRows, Byte, KEY_DEL
<1> QED BY <1>1 DEF NavKey, Byte, NO

LEMMA MapsBytes ==
  ASSUME NEW d \in Nat
  PROVE  normalmap(d) \in Byte /\ shiftmap(d) \in Byte /\ ctlmap(d) \in Byte
<1>1. normalmap(d) \in Byte
  <2>1. CASE d < 84
    BY <2>1, NormalRowsBytes DEF normalmap
  <2>2. CASE d >= 84
    BY <2>2, NavKeyByte DEF normalmap, KEY_HOME, Byte
  <2> QED BY <2>1, <2>2
<1>2. shiftmap(d) \in Byte
  BY <1>1, ShiftRowsBytes DEF shiftmap
<1>3. ctlmap(d) \in Byte
  <2>1. CASE d < 54
    BY <2>1, CtlRowsBytes DEF ctlmap
  <2>2. CASE d >= 54
    BY <2>2, NavKeyByte DEF ctlmap, KEY_HOME, Byte
  <2> QED BY <2>1, <2>2
<1> QED BY <1>1, <1>2, <1>3

\* kbd_proc_data returns a character that fits the uint8_t of the input buffer and
\* leaves `shift' a set of flags, whatever byte the controller hands it.
THEOREM DecodeType ==
  ASSUME NEW sh \in SUBSET Flags, NEW data \in Byte
  PROVE  /\ Decode(sh, data).shift \in SUBSET Flags
         /\ Decode(sh, data).c \in Byte
         /\ Decode(sh, data).reboot \in BOOLEAN
<1>1. \A code : shiftcode(code) \subseteq Flags /\ togglecode(code) \subseteq Flags
  BY DEF shiftcode, togglecode, Flags
<1>2. CASE data = E0
  BY <1>2 DEF Decode, Escaped, Flags, Byte, NO
<1>3. CASE data # E0 /\ data >= 128
  BY <1>3, <1>1 DEF Decode, Released, Flags, Byte, NO
<1>4. CASE data # E0 /\ data < 128
  <2> DEFINE code  == IF "E0ESC" \in sh THEN data + 128 ELSE data
             held  == (sh \ {"E0ESC"}) \cup shiftcode(code)
             shift == (held \ togglecode(code)) \cup (togglecode(code) \ held)
             char  == charcode(shift, code)
             c     == IF "CAPSLOCK" \in shift THEN CapsCase(char) ELSE char
  <2>1. code \in Nat
    BY DEF Byte
  <2>2. shift \in SUBSET Flags
    BY <1>1
  <2>3. char \in Byte
    <3> HIDE DEF code, shift
    <3> QED BY <2>1, MapsBytes DEF charcode
  <2>4. c \in Byte
    <3> HIDE DEF char, shift
    <3> QED BY <2>3 DEF CapsCase, IsLower, IsUpper, Byte
  <2>5. Decode(sh, data) = [shift |-> shift, c |-> c,
                            reboot |-> {"CTL", "ALT"} \subseteq shift /\ c = KEY_DEL]
    BY <1>4 DEF Decode, Pressed, Unescaped, ResetKeys, Byte
  <2> HIDE DEF c, shift
  <2>6. ({"CTL", "ALT"} \subseteq shift /\ c = KEY_DEL) \in BOOLEAN
    OBVIOUS
  <2> QED BY <2>2, <2>4, <2>5, <2>6
<1> QED BY <1>2, <1>3, <1>4 DEF Byte

=============================================================================
