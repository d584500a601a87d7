------------------------------- MODULE KbdMap -------------------------------
(***************************************************************************)
(* The keyboard decoder of kern/console.c: the scan-code tables and what   *)
(* kbd_proc_data computes from one byte of the keyboard controller.        *)
(*                                                                         *)
(* The modifier word `shift' is the set of its flag bits.  Characters and  *)
(* scan codes are their numeric values, as in the tables of the code.      *)
(***************************************************************************)
EXTENDS Naturals

Byte == 0..255

NO       == 0
KEY_HOME == 224
KEY_DEL  == 233

E0 == 224            \* the prefix byte of an extended key

Modifiers == {"SHIFT", "CTL", "ALT"}
Locks     == {"CAPSLOCK", "NUMLOCK", "SCROLLLOCK"}
Flags     == Modifiers \cup Locks \cup {"E0ESC"}

(***************************************************************************)
(* shiftcode and togglecode: the flags a key sets while it is held, and    *)
(* the flags it toggles when it is pressed.                                *)
(***************************************************************************)
ShiftKeys  == [SHIFT |-> {42, 54}, CTL |-> {29, 157}, ALT |-> {56, 184}]
ToggleKeys == [CAPSLOCK |-> {58}, NUMLOCK |-> {69}, SCROLLLOCK |-> {70}]

shiftcode(data)  == {f \in Modifiers : data \in ShiftKeys[f]}
togglecode(data) == {f \in Locks : data \in ToggleKeys[f]}

(***************************************************************************)
(* The character tables.  The first rows are indexed by the scan code, the *)
(* extended keys (0x80 + code) follow; every other entry is NO.            *)
(***************************************************************************)
NormalRows == <<
    0,  27,  49,  50,  51,  52,  53,  54,  55,  56,  57,  48,  45,  61,   8,   9,
  113, 119, 101, 114, 116, 121, 117, 105, 111, 112,  91,  93,  10,   0,  97, 115,
  100, 102, 103, 104, 106, 107, 108,  59,  39,  96,   0,  92, 122, 120,  99, 118,
   98, 110, 109,  44,  46,  47,   0,  42,   0,  32,   0,   0,   0,   0,   0,   0,
    0,   0,   0,   0,   0,   0,   0,  55,  56,  57,  45,  52,  53,  54,  43,  49,
   50,  51,  48,  46 >>

ShiftRows == <<
    0,  27,  33,  64,  35,  36,  37,  94,  38,  42,  40,  41,  95,  43,   8,   9,
   81,  87,  69,  82,  84,  89,  85,  73,  79,  80, 123, 125,  10,   0,  65,  83,
   68,  70,  71,  72,  74,  75,  76,  58,  34, 126,   0, 124,  90,  88,  67,  86,
   66,  78,  77,  60,  62,  63,   0,  42,   0,  32,   0,   0,   0,   0,   0,   0,
    0,   0,   0,   0,   0,   0,   0,  55,  56,  57,  45,  52,  53,  54,  43,  49,
   50,  51,  48,  46 >>

CtlRows == <<
    0,   0,   0,   0,   0,   0,   0,   0,   0,   0,   0,   0,   0,   0,   0,   0,
   17,  23,   5,  18,  20,  25,  21,   9,  15,  16,   0,   0,  13,   0,   1,  19,
    4,   6,   7,   8,  10,  11,  12,   0,   0,   0,   0,  28,  26,  24,   3,  22,
    2,  14,  13,   0,   0, 239 >>     \* C('/') = -17, stored in a uint8_t

\* Extended keys 0xC8..0xD3, the same in the three tables: KEY_UP, KEY_PGUP,
\* KEY_LF, KEY_RT, KEY_END, KEY_DN, KEY_PGDN, KEY_INS and KEY_DEL.
NavRows == << 226, 230, 0, 228, 0, 229, 0, 225, 227, 231, 232, KEY_DEL >>

NavKey(data) == IF data \in 200..211 THEN NavRows[data - 199] ELSE NO

normalmap(data) == IF data < 84 THEN NormalRows[data + 1]
                   ELSE IF data = 199 THEN KEY_HOME
                   ELSE IF data = 156 THEN 10                  \* KP_Enter
                   ELSE IF data = 181 THEN 47                  \* KP_Div
                   ELSE NavKey(data)

shiftmap(data) == IF data < 84 THEN ShiftRows[data + 1] ELSE normalmap(data)

ctlmap(data) == IF data < 54 THEN CtlRows[data + 1]
                ELSE IF data = 151 THEN KEY_HOME
                ELSE IF data = 181 THEN 239
                ELSE NavKey(data)

\* charcode[shift & (CTL | SHIFT)][data]
charcode(shift, data) == IF "CTL" \in shift THEN ctlmap(data)
                         ELSE IF "SHIFT" \in shift THEN shiftmap(data)
                         ELSE normalmap(data)

IsLower(c) == c \in 97..122
IsUpper(c) == c \in 65..90

\* A slip: only small letters inverted.
CapsCase_Upper(c) == IF IsLower(c) THEN c - 32 ELSE c

\* Caps Lock inverts the case of a letter.
CapsCase(c) == IF IsLower(c) THEN c - 32
               ELSE IF IsUpper(c) THEN c + 32
               ELSE c

-----------------------------------------------------------------------------
(***************************************************************************)
(* What kbd_proc_data makes of the byte `data' under the modifiers sh: the *)
(* new modifiers, the character it returns (0: nothing to deliver) and     *)
(* whether it asks the chipset for a reset.                                *)
(***************************************************************************)
Escaped(sh) == [shift |-> sh \cup {"E0ESC"}, c |-> NO, reboot |-> FALSE]

\* A slip: the release bit left in the code.
Released_Raw(sh, data) ==
  [shift |-> sh \ (shiftcode(data) \cup {"E0ESC"}), c |-> NO, reboot |-> FALSE]

Released(sh, data) ==
  LET code == IF "E0ESC" \in sh THEN data ELSE data - 128
  IN  [shift |-> sh \ (shiftcode(code) \cup {"E0ESC"}), c |-> NO, reboot |-> FALSE]

\* Slips: the escape kept for the next key; either modifier enough for a reset.
Unescaped_Kept(sh)     == sh
ResetKeys_Any(sh, c)   == {"CTL", "ALT"} \cap sh # {} /\ c = KEY_DEL

Unescaped(sh)    == sh \ {"E0ESC"}
ResetKeys(sh, c) == {"CTL", "ALT"} \subseteq sh /\ c = KEY_DEL

Pressed(sh, data) ==
  LET code  == IF "E0ESC" \in sh THEN data + 128 ELSE data
      held  == Unescaped(sh) \cup shiftcode(code)
      shift == (held \ togglecode(code)) \cup (togglecode(code) \ held)
      char  == charcode(shift, code)
      c     == IF "CAPSLOCK" \in shift THEN CapsCase(char) ELSE char
  IN  [shift |-> shift, c |-> c, reboot |-> ResetKeys(shift, c)]

Decode(sh, data) == IF data = E0 THEN Escaped(sh)
                    ELSE IF data >= 128 THEN Released(sh, data)
                    ELSE Pressed(sh, data)

=============================================================================
