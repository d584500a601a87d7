------------------------------ MODULE ConsOut ------------------------------
(***************************************************************************)
(* Console output of kern/console.c: cons_putc with its ANSI escape        *)
(* parser, the serial and parallel ports, and cga_putc with the text       *)
(* screen.                                                                 *)
(*                                                                         *)
(* A character is the C int: 0..255, or negative when a signed char was    *)
(* promoted (vprintfmt's %s).  cons_putc and cga_putc call each other, so  *)
(* `todo' is the stack of calls still to be made.  One action is one call  *)
(* of cons_putc up to its printing, or one character printed on the three  *)
(* devices.  What serial_putc and lpt_putc wait for is not modelled here.  *)
(***************************************************************************)
EXTENDS Integers, Sequences

CONSTANTS
  CRT_ROWS, CRT_COLS,  \* the size of the screen
  INT_MAX,             \* the largest int
  Kinds                \* the kinds of text programs print, each with the
                       \* characters outside of escape sequences, after an ESC,
                       \* and after ESC [, and a bound on the number of the last

CRT_SIZE == CRT_ROWS * CRT_COLS
Byte     == 0..255
INT_MIN  == -INT_MAX - 1

ASSUME ScreenAssumption ==
  /\ CRT_ROWS \in Nat \ {0} /\ CRT_COLS \in Nat \ {0}
  /\ INT_MAX \in Nat
  /\ \A x \in Kinds : x.plain \cup x.escaped \cup x.csi \subseteq -128..255 /\ x.max \in Nat

BS        == 8
TAB       == 9
NL        == 10
CR        == 13
ESC       == 27
SPACE     == 32
SEMICOLON == 59
BRACKET   == 91
M         == 109
Digits    == 48..57

VARIABLES
  esc,         \* parser: 0 normal, 1 saw ESC, 2 inside CSI
  param,       \* parser: the number being read, -1 before its first digit
  params,      \* parser: params[0 .. nparams-1]
  crt_attr,    \* colours: [fg, bg]
  crt_buf, crt_pos,    \* the screen memory and the next position
  cursor,      \* the cursor position in the display controller (external)
  kind,        \* what is printed is a text of this kind (external)
  todo,        \* the calls still to be made, innermost first
  sent,        \* bytes put on the serial and the parallel port since the last
               \* call of cons_putc from outside
  last,        \* history: the argument of that call, and the parser's esc then
  spelled      \* history: what was read after the last ESC [

parser == <<esc, param, params>>
screen == <<crt_buf, crt_pos, cursor>>
vars   == <<parser, crt_attr, screen, kind, todo, sent, last, spelled>>

Attr    == [fg : 0..15, bg : 0..15]
Default == [fg |-> 7, bg |-> 0]            \* 0x0700
AllOnes == [fg |-> 15, bg |-> 15]

\* Calls: cons_putc(c), or the three lines that print c.
Putc(c) == [call |-> "putc", c |-> c]
Out(c)  == [call |-> "print", c |-> c]
Calls   == [call : {"putc", "print"}, c : -128..255]

-----------------------------------------------------------------------------
(* cga_putc *)

LowByte(c) == c % 256

\* A character without attribute bits gets the current colours; the sign bits of
\* a negative one are taken for its attribute.
Cell(c, b) == [ch |-> b, attr |-> IF c \in Byte THEN crt_attr ELSE AllOnes]

LineStart(pos) == pos - (pos % CRT_COLS)

\* The switch of cga_putc: the position and screen memory it leaves.
Typed(c) ==
  LET b    == LowByte(c)
      stay == [pos |-> crt_pos, buf |-> crt_buf]
  IN  IF b = BS THEN IF crt_pos > 0
                     THEN [pos |-> crt_pos - 1,
                           buf |-> [crt_buf EXCEPT ![crt_pos - 1] = Cell(c, SPACE)]]
                     ELSE stay
      ELSE IF b = NL THEN [stay EXCEPT !.pos = LineStart(crt_pos + CRT_COLS)]
      ELSE IF b = CR THEN [stay EXCEPT !.pos = LineStart(crt_pos)]
      ELSE IF b = TAB THEN stay
      ELSE [pos |-> crt_pos + 1, buf |-> [crt_buf EXCEPT ![crt_pos] = Cell(c, b)]]

BlankCell_Default == [ch |-> SPACE, attr |-> Default] \* a slip: not the current colours

BlankCell == [ch |-> SPACE, attr |-> crt_attr]

\* A slip: the test for the end of the screen is off by one.
Scrolled_Late(t) ==
  IF t.pos <= CRT_SIZE THEN t
  ELSE [pos |-> t.pos - CRT_COLS,
        buf |-> [i \in 0..(CRT_SIZE - 1) |->
                   IF i < CRT_SIZE - CRT_COLS THEN t.buf[i + CRT_COLS] ELSE BlankCell]]

\* Past the end of the screen everything moves up one line.
Scrolled(t) ==
  IF t.pos < CRT_SIZE THEN t
  ELSE [pos |-> t.pos - CRT_COLS,
        buf |-> [i \in 0..(CRT_SIZE - 1) |->
                   IF i < CRT_SIZE - CRT_COLS THEN t.buf[i + CRT_COLS] ELSE BlankCell]]

\* serial_putc, lpt_putc and cga_putc of one character.  A tab is five calls of
\* cons_putc(' '), made before the rest of cga_putc, which then changes nothing:
\* they have scrolled and moved the cursor themselves.
print ==
  /\ todo # <<>> /\ Head(todo).call = "print"
  /\ LET c == Head(todo).c
         t == Scrolled(Typed(c))
     IN  /\ sent' = Append(sent, LowByte(c))
         /\ crt_buf' = t.buf /\ crt_pos' = t.pos /\ cursor' = t.pos
         /\ todo' = (IF LowByte(c) = TAB THEN [i \in 1..5 |-> Putc(SPACE)] ELSE <<>>)
                      \o Tail(todo)
  /\ UNCHANGED <<parser, crt_attr, kind, last, spelled>>

-----------------------------------------------------------------------------
(* The colours of an SGR sequence *)

ansi_to_vga_basic(ansi) == ansi % 8
set_vga_fg(a, fg) == [a EXCEPT !.fg = fg % 16]
set_vga_bg(a, bg) == [a EXCEPT !.bg = bg % 16]

\* One parameter p applied to the colours a.
Sgr(a, p) == IF p = 0 THEN Default
             ELSE IF p = 1 THEN IF a.fg < 8 THEN set_vga_fg(a, a.fg + 8) ELSE a
             ELSE IF p \in 30..37 THEN set_vga_fg(a, ansi_to_vga_basic(p - 30))
             ELSE IF p \in 40..47 THEN set_vga_bg(a, ansi_to_vga_basic(p - 40))
             ELSE IF p \in 90..97 THEN set_vga_fg(a, ansi_to_vga_basic(p - 90) + 8)
             ELSE IF p \in 100..107 THEN set_vga_bg(a, ansi_to_vga_basic(p - 100) + 8)
             ELSE a

\* All of them, in order; there are at most four.
SgrAll(a, ps) ==
  LET Step(b, i) == IF i <= Len(ps) THEN Sgr(b, ps[i]) ELSE b
  IN  Step(Step(Step(Step(a, 1), 2), 3), 4)

-----------------------------------------------------------------------------
(* cons_putc: the parser, one action per branch.  `rest' is what follows the *)
(* call on the stack.                                                        *)

\* int arithmetic as the compiled code does it.
Wrapped(n) == ((n + INT_MAX + 1) % (2 * INT_MAX + 2)) - INT_MAX - 1

\* A slip: a field without digits is stored as the -1 it began with.
Pushed_Raw == IF Len(params) < 4 THEN Append(params, param) ELSE params

\* params[nparams++], while there is room.
Pushed == IF Len(params) < 4 THEN Append(params, IF param < 0 THEN 0 ELSE param)
                             ELSE params

\* A slip: cons_putc calls itself where it should call the devices.
Plain_Again(c, rest) ==
  /\ esc = 0 /\ LowByte(c) # ESC
  /\ todo' = <<Putc(c)>> \o rest
  /\ UNCHANGED <<parser, crt_attr, spelled>>

Plain(c, rest) ==
  /\ esc = 0 /\ LowByte(c) # ESC
  /\ todo' = <<Out(c)>> \o rest
  /\ UNCHANGED <<parser, crt_attr, spelled>>

Escape(c, rest) ==
  /\ esc = 0 /\ LowByte(c) = ESC
  /\ esc' = 1
  /\ todo' = rest
  /\ UNCHANGED <<param, params, crt_attr, spelled>>

Csi(c, rest) ==
  /\ esc = 1 /\ LowByte(c) = BRACKET
  /\ esc' = 2 /\ param' = -1 /\ params' = <<>>
  /\ spelled' = <<>>
  /\ todo' = rest
  /\ UNCHANGED crt_attr

\* A slip: the ESC is not printed any more.
NotCsi_Lost(c, rest) ==
  /\ esc = 1 /\ LowByte(c) # BRACKET
  /\ esc' = 0
  /\ todo' = <<Out(c)>> \o rest
  /\ UNCHANGED <<param, params, crt_attr, spelled>>

\* No CSI after all: a literal ESC, then the character.
NotCsi(c, rest) ==
  /\ esc = 1 /\ LowByte(c) # BRACKET
  /\ esc' = 0
  /\ todo' = <<Out(ESC), Out(c)>> \o rest
  /\ UNCHANGED <<param, params, crt_attr, spelled>>

Digit(c, rest) ==
  /\ esc = 2 /\ LowByte(c) \in Digits
  /\ param' = Wrapped((IF param < 0 THEN 0 ELSE param) * 10 + (LowByte(c) - 48))
  /\ spelled' = Append(spelled, LowByte(c))
  /\ todo' = rest
  /\ UNCHANGED <<esc, params, crt_attr>>

Semicolon(c, rest) ==
  /\ esc = 2 /\ LowByte(c) = SEMICOLON
  /\ params' = Pushed /\ param' = -1
  /\ spelled' = Append(spelled, SEMICOLON)
  /\ todo' = rest
  /\ UNCHANGED <<esc, crt_attr>>

SetColours(c, rest) ==
  /\ esc = 2 /\ LowByte(c) = M
  /\ params' = Pushed
  /\ crt_attr' = SgrAll(crt_attr, params')
  /\ esc' = 0
  /\ spelled' = Append(spelled, M)
  /\ todo' = rest
  /\ UNCHANGED param

UnknownCsi(c, rest) ==
  /\ esc = 2 /\ LowByte(c) \notin Digits \cup {SEMICOLON, M}
  /\ esc' = 0
  /\ spelled' = Append(spelled, LowByte(c))
  /\ todo' = rest
  /\ UNCHANGED <<param, params, crt_attr>>

Parse(c, rest) == \/ Plain(c, rest) \/ Escape(c, rest) \/ Csi(c, rest)
                  \/ NotCsi(c, rest) \/ Digit(c, rest) \/ Semicolon(c, rest)
                  \/ SetColours(c, rest) \/ UnknownCsi(c, rest)

\* The call from cputchar.
cons_putc(c) ==
  /\ todo = <<>>
  /\ esc = 2 => Len(spelled) < kind.max \/ LowByte(c) = M
  /\ Parse(c, <<>>)
  /\ sent' = <<>> /\ last' = [c |-> c, esc |-> esc]
  /\ UNCHANGED <<screen, kind>>

\* A call from cga_putc.
nested_putc ==
  /\ todo # <<>> /\ Head(todo).call = "putc"
  /\ Parse(Head(todo).c, Tail(todo))
  /\ UNCHANGED <<screen, kind, sent, last>>

-----------------------------------------------------------------------------
\* cga_init: the cursor is where the BIOS left it, on a screen of its own text.
Init == /\ esc = 0 /\ param = -1 /\ params = <<>>
        /\ crt_attr = Default
        /\ crt_buf = [i \in 0..(CRT_SIZE - 1) |-> [ch |-> SPACE, attr |-> Default]]
        /\ crt_pos \in 0..(CRT_SIZE - 1) /\ cursor = crt_pos
        /\ kind \in Kinds
        /\ todo = <<>> /\ sent = <<>> /\ last = [c |-> ESC, esc |-> 0] /\ spelled = <<>>

Input == IF esc = 0 THEN kind.plain ELSE IF esc = 1 THEN kind.escaped ELSE kind.csi

Next == (\E c \in Input : cons_putc(c)) \/ nested_putc \/ print

Spec == Init /\ [][Next]_vars

\* A call that was begun is carried on; that another one comes is not assumed.
FairSpec == Spec /\ WF_vars(nested_putc \/ print)

-----------------------------------------------------------------------------
(* Properties *)

\* Every access to crt_buf and to params is in bounds: the position is on the
\* screen after each character, whatever was printed (the scrolling test of
\* cga_putc), and at most four parameters are kept.
TypeOK ==
  /\ esc \in 0..2 /\ param \in INT_MIN..INT_MAX
  /\ params \in Seq(0..INT_MAX) /\ Len(params) <= 4
  /\ crt_attr \in Attr
  /\ crt_buf \in [0..(CRT_SIZE - 1) -> [ch : Byte, attr : Attr]]
  /\ crt_pos \in 0..(CRT_SIZE - 1) /\ cursor \in 0..(CRT_SIZE - 1)
  /\ kind \in Kinds
  /\ todo \in Seq(Calls)
  /\ sent \in Seq(Byte) /\ last \in [c : -128..255, esc : 0..2] /\ spelled \in Seq(Byte)

\* The linear screen memory, seen through the display controller, behaves as a
\* terminal of lines and columns.
Display == INSTANCE Terminal
  WITH Rows <- CRT_ROWS, Cols <- CRT_COLS, attr <- crt_attr,
       Glyphs <- Byte,
       Attrs <- Attr, White <- AllOnes,
       lines <- [r \in 0..(CRT_ROWS - 1) |-> [c \in 0..(CRT_COLS - 1) |-> crt_buf[r * CRT_COLS + c]]],
       row <- cursor \div CRT_COLS, col <- cursor % CRT_COLS
TerminalSpec == Display!Spec

\* The ports are given the text without its escape sequences, and nothing of it is
\* lost: when cons_putc has returned, its character (a tab with the five spaces
\* it makes) has been sent once, after the ESC it showed to be a plain one; only
\* an ESC and what is in a sequence is held back.
OnTheWire(c) == IF LowByte(c) = TAB THEN <<TAB, SPACE, SPACE, SPACE, SPACE, SPACE>>
                ELSE <<LowByte(c)>>
SerialText ==
  todo = <<>> =>
    sent = IF last.esc = 0 /\ LowByte(last.c) # ESC THEN OnTheWire(last.c)
           ELSE IF last.esc = 1 /\ LowByte(last.c) # BRACKET THEN <<ESC>> \o OnTheWire(last.c)
           ELSE <<>>

\* What reading a text from left to right makes of a value.
Read(text, value, step) ==
  LET so[k \in 0..Len(text)] == IF k = 0 THEN value ELSE step[so[k - 1]][text[k]] IN so[Len(text)]

Front(f)  == SubSeq(f, 1, Len(f) - 1)
Latest(f) == f[Len(f)]

\* The fields of an escape sequence's text and the number a field spells.
Fields(f) ==
  Read(f, << <<>> >>,
       [fs \in Seq(Seq(Byte)) |-> [x \in Byte |->
          IF x = SEMICOLON THEN Append(fs, <<>>)
                           ELSE [fs EXCEPT ![Len(fs)] = Append(Latest(fs), x)]]])
Number(f) == Read(f, 0, [v \in Int |-> [x \in Byte |-> 10 * v + (x - 48)]])

\* What params holds, of fields: the first four, an empty one being 0, a number too large
\* for an int being anything.
Holds(fs) ==
  /\ Len(params) = IF Len(fs) < 4 THEN Len(fs) ELSE 4
  /\ \A k \in 1..Len(params) : Number(fs[k]) <= INT_MAX => params[k] = Number(fs[k])

\* The numbers an escape sequence is given are the ones its text spells: in the
\* middle of it params and param hold the fields finished and the one begun,
\* and once it has ended with `m' params holds what was applied, whatever
\* sequences, complete, broken or overlong, came before (the parser state of
\* cons_putc is static).
ParamsSpelled ==
  /\ esc = 2 =>
       LET fs == Fields(spelled)
       IN  /\ Holds(Front(fs))
           /\ Latest(fs) = <<>> => param = -1
           /\ Latest(fs) # <<>> /\ Number(Latest(fs)) <= INT_MAX => param = Number(Latest(fs))
  /\ esc = 0 /\ spelled # <<>> /\ Latest(spelled) = M => Holds(Fields(Front(spelled)))

\* A call of cons_putc returns, the ones it makes itself included.
PutReturns == todo # <<>> ~> todo = <<>>

=============================================================================
