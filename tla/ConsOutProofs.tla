--------------------------- MODULE ConsOutProofs ---------------------------
(***************************************************************************)
(* Proofs about console output, for every size of the screen, every range  *)
(* of int and every text.                                                  *)
(***************************************************************************)
EXTENDS ConsOut, SequenceTheorems, WellFoundedInduction, TLAPS

Positions == 0..(CRT_SIZE - 1)
Memory    == [Positions -> [ch : Byte, attr : Attr]]

\* The start of its line is not after a position.
LEMMA ModRange ==
  ASSUME NEW a \in Nat, NEW b \in Nat \ {0}
  PROVE  a % b \in 0..a /\ a % b < b
OBVIOUS

LEMMA SizeFacts == CRT_COLS \in Nat \ {0} /\ CRT_SIZE \in Nat \ {0} /\ CRT_COLS <= CRT_SIZE
BY ScreenAssumption DEF CRT_SIZE

LEMMA LowByteRange == \A c \in -128..255 : LowByte(c) \in Byte
BY DEF LowByte, Byte

LEMMA CellType ==
  ASSUME crt_attr \in Attr, NEW c, NEW b \in Byte
  PROVE  Cell(c, b) \in [ch : Byte, attr : Attr]
BY DEF Cell, AllOnes, Attr

\* What the switch of cga_putc leaves: it may have run off the screen, by a line at
\* most.
LEMMA TypedType ==
  ASSUME crt_attr \in Attr, crt_buf \in Memory, crt_pos \in Positions, NEW c \in -128..255
  PROVE  /\ Typed(c).pos \in 0..(CRT_SIZE - 1 + CRT_COLS)
         /\ Typed(c).buf \in Memory
<1>1. \A p \in Nat : LineStart(p) \in 0..p
  BY ModRange, SizeFacts DEF LineStart
<1>2. crt_pos \in Nat /\ crt_pos < CRT_SIZE
  BY SizeFacts DEF Positions
<1>3. Typed(c).pos \in 0..(CRT_SIZE - 1 + CRT_COLS)
  BY <1>1, <1>2, SizeFacts DEF Typed
<1>4. Cell(c, SPACE) \in [ch : Byte, attr : Attr] /\ Cell(c, LowByte(c)) \in [ch : Byte, attr : Attr]
  <2>1. SPACE \in Byte
    BY DEF SPACE, Byte
  <2>2. LowByte(c) \in Byte
    BY LowByteRange
  <2> QED BY <2>1, <2>2, CellType
<1>5. Typed(c).buf \in Memory
  BY <1>2, <1>4 DEF Typed, Memory
<1> QED BY <1>3, <1>5

\* The scrolling test brings the position back onto the screen.
LEMMA ScrolledType ==
  ASSUME crt_attr \in Attr,
         NEW p \in 0..(CRT_SIZE - 1 + CRT_COLS), NEW b \in Memory
  PROVE  /\ Scrolled([pos |-> p, buf |-> b]).pos \in Positions
         /\ Scrolled([pos |-> p, buf |-> b]).buf \in Memory
<1> DEFINE t == [pos |-> p, buf |-> b]
<1>1. CASE p < CRT_SIZE
  BY <1>1, SizeFacts DEF Scrolled, BlankCell, Positions
<1>2. CASE p >= CRT_SIZE
  <2>1. Scrolled(t).pos = p - CRT_COLS /\ p - CRT_COLS \in Positions
    BY <1>2, SizeFacts DEF Scrolled, BlankCell, Positions
  <2>2. [ch |-> SPACE, attr |-> crt_attr] \in [ch : Byte, attr : Attr]
    BY DEF SPACE, Byte
  <2>3. \A i \in Positions : i < CRT_SIZE - CRT_COLS => b[i + CRT_COLS] \in [ch : Byte, attr : Attr]
    BY SizeFacts DEF Memory, Positions
  <2>4. Scrolled(t).buf \in Memory
    BY <1>2, <2>2, <2>3, SizeFacts DEF Scrolled, BlankCell, Memory, Positions
  <2> QED BY <2>1, <2>4
<1> QED BY <1>1, <1>2, SizeFacts

\* An SGR parameter leaves the colours two nibbles.
LEMMA SgrType ==
  ASSUME NEW a \in Attr, NEW p \in Int PROVE Sgr(a, p) \in Attr
<1>1. \A n \in Int : set_vga_fg(a, n) \in Attr /\ set_vga_bg(a, n) \in Attr
  BY DEF set_vga_fg, set_vga_bg, Attr
<1>2. \A n \in Int : ansi_to_vga_basic(n) \in Int
  BY DEF ansi_to_vga_basic
<1>3. Default \in Attr
  BY DEF Default, Attr
<1>4. a.fg + 8 \in Int /\ p - 30 \in Int /\ p - 40 \in Int /\ p - 90 \in Int /\ p - 100 \in Int
  BY DEF Attr
<1>5. \A n \in Int : ansi_to_vga_basic(n) + 8 \in Int
  BY <1>2
<1> QED BY <1>1, <1>2, <1>3, <1>4, <1>5 DEF Sgr

LEMMA SgrAllType ==
  ASSUME NEW a \in Attr, NEW ps \in Seq(Int) PROVE SgrAll(a, ps) \in Attr
<1> DEFINE Step(b, i) == IF i <= Len(ps) THEN Sgr(b, ps[i]) ELSE b
<1>1. \A b \in Attr, i \in 1..4 : Step(b, i) \in Attr
  BY SgrType
<1> HIDE DEF Step
<1>2. Step(Step(Step(Step(a, 1), 2), 3), 4) \in Attr
  BY <1>1
<1> QED BY <1>2 DEF SgrAll, Step

-----------------------------------------------------------------------------
(* The parser *)

LEMMA WrappedType == \A n \in Int : Wrapped(n) \in INT_MIN..INT_MAX
<1> TAKE n \in Int
<1>1. (n + INT_MAX + 1) % (2 * INT_MAX + 2) \in 0..(2 * INT_MAX + 1)
  BY ScreenAssumption
<1> QED BY <1>1, ScreenAssumption DEF Wrapped, INT_MIN

LEMMA PushedType ==
  ASSUME params \in Seq(0..INT_MAX), Len(params) <= 4, param \in INT_MIN..INT_MAX
  PROVE  Pushed \in Seq(0..INT_MAX) /\ Len(Pushed) <= 4
<1>1. (IF param < 0 THEN 0 ELSE param) \in 0..INT_MAX
  BY ScreenAssumption DEF INT_MIN
<1>2. CASE Len(params) < 4
  <2>1. Pushed = Append(params, IF param < 0 THEN 0 ELSE param)
    BY <1>2 DEF Pushed
  <2>2. Pushed \in Seq(0..INT_MAX) /\ Len(Pushed) = Len(params) + 1
    BY <1>1, <2>1, AppendProperties
  <2> QED BY <1>2, <2>2, LenProperties
<1>3. CASE ~(Len(params) < 4)
  BY <1>3 DEF Pushed
<1> QED BY <1>2, <1>3

LEMMA CallTypes ==
  ASSUME NEW c \in -128..255
  PROVE  Out(c) \in Calls /\ Putc(c) \in Calls /\ Out(ESC) \in Calls /\ Putc(SPACE) \in Calls
BY DEF Out, Putc, Calls, ESC, SPACE

LEMMA CallSeqs ==
  ASSUME NEW c \in -128..255, NEW rest \in Seq(Calls)
  PROVE  <<Out(c)>> \o rest \in Seq(Calls) /\ <<Out(ESC), Out(c)>> \o rest \in Seq(Calls)
<1>1. \A x, y \in Calls : <<x>> \in Seq(Calls) /\ <<x, y>> \in Seq(Calls)
  OBVIOUS
<1>2. Out(c) \in Calls /\ Out(ESC) \in Calls
  BY CallTypes
<1>3. <<Out(c)>> \in Seq(Calls) /\ <<Out(ESC), Out(c)>> \in Seq(Calls)
  BY <1>1, <1>2, Zenon
<1> QED BY <1>3, ConcatProperties

LEMMA DigitSum ==
  ASSUME NEW p \in INT_MIN..INT_MAX, NEW b \in Byte
  PROVE  ((IF p < 0 THEN 0 ELSE p) * 10 + (b - 48)) \in Int
<1>1. p \in Int /\ b \in Int
  BY ScreenAssumption DEF INT_MIN, Byte
<1> QED BY <1>1

ParserOK == /\ esc \in 0..2 /\ param \in INT_MIN..INT_MAX
            /\ params \in Seq(0..INT_MAX) /\ Len(params) <= 4
            /\ crt_attr \in Attr
            /\ todo \in Seq(Calls) /\ spelled \in Seq(Byte)

\* Each branch of cons_putc leaves the parser in a state it can be in.
LEMMA ParseType ==
  ASSUME ParserOK, NEW c \in -128..255, NEW rest \in Seq(Calls), Parse(c, rest)
  PROVE  ParserOK'
<1> USE DEF ParserOK
<1>0. LowByte(c) \in Byte /\ Append(spelled, LowByte(c)) \in Seq(Byte) /\ -1 \in INT_MIN..INT_MAX
  <2>1. LowByte(c) \in Byte
    BY LowByteRange
  <2>2. -1 \in INT_MIN..INT_MAX
    BY ScreenAssumption DEF INT_MIN
  <2> QED BY <2>1, <2>2, AppendProperties
<1>1. CASE Plain(c, rest)
  <2>1. <<Out(c)>> \o rest \in Seq(Calls)
    BY CallSeqs
  <2> QED BY <1>1, <2>1 DEF Plain, parser
<1>2. CASE Escape(c, rest)
  BY <1>2 DEF Escape
<1>3. CASE Csi(c, rest)
  BY <1>0, <1>3 DEF Csi
<1>4. CASE NotCsi(c, rest)
  <2>1. <<Out(ESC), Out(c)>> \o rest \in Seq(Calls)
    BY CallSeqs
  <2> QED BY <1>4, <2>1 DEF NotCsi
<1>5. CASE Digit(c, rest)
  <2>1. ((IF param < 0 THEN 0 ELSE param) * 10 + (LowByte(c) - 48)) \in Int
    BY <1>0, DigitSum
  <2>2. param' \in INT_MIN..INT_MAX
    BY <1>5, <2>1, WrappedType DEF Digit
  <2> QED BY <1>0, <1>5, <2>2 DEF Digit
<1>6. CASE Semicolon(c, rest)
  BY <1>0, <1>6, PushedType DEF Semicolon
<1>7. CASE SetColours(c, rest)
  <2>1. params' \in Seq(0..INT_MAX) /\ Len(params') <= 4
    BY <1>7, PushedType DEF SetColours
  <2>2. params' \in Seq(Int)
    BY <2>1, SeqMonotonic, 0..INT_MAX \subseteq Int
  <2>3. crt_attr' \in Attr
    BY <1>7, <2>2, SgrAllType DEF SetColours
  <2> QED BY <1>0, <1>7, <2>1, <2>3 DEF SetColours
<1>8. CASE UnknownCsi(c, rest)
  BY <1>0, <1>8 DEF UnknownCsi
<1> QED BY <1>1, <1>2, <1>3, <1>4, <1>5, <1>6, <1>7, <1>8 DEF Parse

-----------------------------------------------------------------------------
\* The position stays on the screen, the parameters within their array and the
\* other types hold, for every screen, every text and every range of int.
THEOREM TypeCorrect == Spec => []TypeOK
<1>1. Init => TypeOK
  <2> SUFFICES ASSUME Init PROVE TypeOK
    OBVIOUS
  <2>1. crt_buf \in Memory
    BY DEF Init, Memory, Positions, Default, Attr, SPACE, Byte
  <2> QED BY <2>1, ScreenAssumption
       DEF Init, TypeOK, INT_MIN, Default, Attr, SPACE, ESC, Memory, Positions
<1>2. TypeOK /\ [Next]_vars => TypeOK'
  <2> SUFFICES ASSUME TypeOK, [Next]_vars PROVE TypeOK'
    OBVIOUS
  <2>0. ParserOK
    BY DEF TypeOK, ParserOK
  <2>1. ASSUME NEW c \in Input, cons_putc(c) PROVE TypeOK'
    <3>1. c \in -128..255 /\ <<>> \in Seq(Calls) /\ Parse(c, <<>>)
      BY <2>1, ScreenAssumption DEF cons_putc, Input, TypeOK
    <3>2. ParserOK'
      BY <2>0, <3>1, ParseType
    <3> QED BY <2>0, <2>1, <3>1, <3>2 DEF cons_putc, TypeOK, ParserOK, screen
  <2>2. CASE nested_putc
    <3>1. todo # <<>> /\ todo \in Seq(Calls)
      BY <2>2 DEF nested_putc, TypeOK
    <3>2. Head(todo) \in Calls /\ Tail(todo) \in Seq(Calls)
      BY <3>1, HeadTailProperties
    <3>3. Head(todo).c \in -128..255
      BY <3>2 DEF Calls
    <3>4. ParserOK'
      BY <2>0, <2>2, <3>2, <3>3, ParseType DEF nested_putc
    <3> QED BY <2>2, <3>4 DEF nested_putc, TypeOK, ParserOK, screen
  <2>3. CASE print
    <3> DEFINE c == Head(todo).c
               t == Scrolled(Typed(c))
    <3>1. todo # <<>> /\ todo \in Seq(Calls)
      BY <2>3 DEF print, TypeOK
    <3>2. Head(todo) \in Calls /\ Tail(todo) \in Seq(Calls)
      BY <3>1, HeadTailProperties
    <3>3. c \in -128..255
      BY <3>2 DEF Calls
    <3>4. /\ Typed(c).pos \in 0..(CRT_SIZE - 1 + CRT_COLS) /\ Typed(c).buf \in Memory
          /\ Typed(c) = [pos |-> Typed(c).pos, buf |-> Typed(c).buf]
      <4>1. Typed(c) = [pos |-> Typed(c).pos, buf |-> Typed(c).buf]
        BY DEF Typed
      <4> QED BY <3>3, <4>1, TypedType DEF TypeOK, Memory, Positions
    <3>5. t.pos \in Positions /\ t.buf \in Memory
      BY <3>4, ScrolledType DEF TypeOK
    <3>6. todo' \in Seq(Calls)
      <4>1. [i \in 1..5 |-> Putc(SPACE)] \in Seq(Calls) /\ <<>> \in Seq(Calls)
        BY <3>3, CallTypes
      <4> QED BY <2>3, <3>2, <4>1, ConcatProperties DEF print
    <3>7. sent' \in Seq(Byte)
      BY <2>3, <3>3, LowByteRange, AppendProperties DEF print, TypeOK
    <3>8. crt_buf' = t.buf /\ crt_pos' = t.pos /\ cursor' = t.pos
          /\ UNCHANGED <<parser, crt_attr, kind, last, spelled>>
      BY <2>3 DEF print
    <3> HIDE DEF t, c
    <3> QED BY <3>5, <3>6, <3>7, <3>8 DEF TypeOK, parser, Memory, Positions
  <2>4. CASE UNCHANGED vars
    BY <2>4 DEF vars, TypeOK, parser, screen
  <2> QED BY <2>1, <2>2, <2>3, <2>4 DEF Next
<1> QED BY <1>1, <1>2, PTL DEF Spec

-----------------------------------------------------------------------------
(* What an escape sequence spells *)

\* A set that has 0 and, with each number, the next one has them all.
LEMMA Induct ==
  ASSUME NEW S, 0 \in S, \A k \in Nat : k \in S => k + 1 \in S
  PROVE  Nat \subseteq S
<1> SUFFICES ASSUME Nat \ S # {} PROVE FALSE
  OBVIOUS
<1> DEFINE Lesser == OpToRel(<, Nat)
<1>1. IsWellFoundedOn(Lesser, Nat)
  BY NatLessThanWellFounded
<1>2. \A m, k \in Nat : m < k => <<m, k>> \in Lesser
  BY DEF OpToRel
<1> HIDE DEF Lesser
<1>3. PICK k \in Nat \ S : \A m \in Nat \ S : ~(<<m, k>> \in Lesser)
  BY <1>1, WFMin
<1>4. k # 0 /\ k - 1 \in Nat /\ k - 1 < k /\ k - 1 \notin Nat \ S
  <2>1. \A m \in Nat \ S : ~(m < k)
    BY <1>2, <1>3
  <2> QED
    BY <2>1
<1>5. (k - 1) + 1 \in S
  BY <1>4
<1> QED
  BY <1>4, <1>5

\* The values a text is read through, as far as n; there are some, and no others.
Reads(so, text, value, step, n) ==
  so = [k \in 0..n |-> IF k = 0 THEN value ELSE step[so[k - 1]][text[k]]]

LEMMA ReadsExist ==
  ASSUME NEW text, NEW value, NEW step, NEW n \in Nat
  PROVE  \E so : Reads(so, text, value, step, n)
<1> DEFINE S == {k \in Nat : \E so : Reads(so, text, value, step, k)}
<1>1. 0 \in S
  <2>1. Reads([k \in 0..0 |-> value], text, value, step, 0)
    BY DEF Reads
  <2> QED
    BY <2>1
<1>2. ASSUME NEW i \in Nat, i \in S PROVE i + 1 \in S
  <2>1. PICK so : Reads(so, text, value, step, i)
    BY <1>2
  <2> DEFINE g == [k \in 0..(i + 1) |-> IF k = i + 1 THEN step[so[i]][text[i + 1]] ELSE so[k]]
  <2>2. ASSUME NEW k \in 0..(i + 1) PROVE g[k] = IF k = 0 THEN value ELSE step[g[k - 1]][text[k]]
    <3>1. CASE k = i + 1
      <4>1. k # 0 /\ k - 1 = i /\ g[k] = step[so[i]][text[i + 1]] /\ g[i] = so[i]
        BY <3>1
      <4> HIDE DEF g
      <4> QED
        BY <3>1, <4>1
    <3>2. CASE k # i + 1
      <4>1. k \in 0..i /\ g[k] = so[k] /\ (k # 0 => k - 1 \in 0..i /\ g[k - 1] = so[k - 1])
        BY <3>2
      <4>2. so[k] = IF k = 0 THEN value ELSE step[so[k - 1]][text[k]]
        BY <2>1, <4>1 DEF Reads
      <4> HIDE DEF g
      <4> QED
        BY <4>1, <4>2
    <3> QED
      BY <3>1, <3>2
  <2>3. g = [k \in 0..(i + 1) |-> g[k]]
    OBVIOUS
  <2> HIDE DEF g
  <2>4. Reads(g, text, value, step, i + 1)
    BY <2>2, <2>3 DEF Reads
  <2> QED
    BY <2>4
<1>3. n \in S
  <2> HIDE DEF S
  <2> QED
    BY <1>1, <1>2, Induct
<1> QED
  BY <1>3

LEMMA ReadsOne ==
  ASSUME NEW text, NEW value, NEW step, NEW n \in Nat,
         NEW f, Reads(f, text, value, step, n), NEW g, Reads(g, text, value, step, n)
  PROVE  f[n] = g[n]
<1> DEFINE S == {k \in Nat : k <= n => f[k] = g[k]}
<1>1. 0 \in S
  BY DEF Reads
<1>2. ASSUME NEW k \in Nat, k \in S PROVE k + 1 \in S
  <2> SUFFICES ASSUME k + 1 <= n PROVE f[k + 1] = g[k + 1]
    OBVIOUS
  <2>1. k + 1 \in 0..n /\ k + 1 # 0 /\ (k + 1) - 1 = k /\ f[k] = g[k]
    BY <1>2
  <2>2. f[k + 1] = step[f[(k + 1) - 1]][text[k + 1]] /\ g[k + 1] = step[g[(k + 1) - 1]][text[k + 1]]
    BY <2>1 DEF Reads
  <2> QED
    BY <2>1, <2>2
<1>3. n \in S
  <2> HIDE DEF S
  <2> QED
    BY <1>1, <1>2, Induct
<1> QED
  BY <1>3

LEMMA ReadIs ==
  ASSUME NEW text, NEW value, NEW step, NEW n \in Nat, Len(text) = n
  PROVE  \E so : Reads(so, text, value, step, n) /\ Read(text, value, step) = so[n]
<1> DEFINE so == CHOOSE g : g = [k \in 0..Len(text) |-> IF k = 0 THEN value ELSE step[g[k - 1]][text[k]]]
<1>1. \E g : g = [k \in 0..Len(text) |-> IF k = 0 THEN value ELSE step[g[k - 1]][text[k]]]
  <2>1. Len(text) \in Nat
    OBVIOUS
  <2>2. \E g : Reads(g, text, value, step, Len(text))
    BY <2>1, ReadsExist
  <2> QED
    BY <2>2 DEF Reads
<1>2. so = [k \in 0..Len(text) |-> IF k = 0 THEN value ELSE step[so[k - 1]][text[k]]]
  BY <1>1, Zenon
<1>3. Read(text, value, step) = so[Len(text)]
  BY DEF Read
<1> HIDE DEF so
<1>4. Reads(so, text, value, step, n)
  BY <1>2 DEF Reads
<1> QED
  BY <1>3, <1>4

\* Reading one character more.
LEMMA ReadNothing == \A value, step : Read(<<>>, value, step) = value
<1> SUFFICES ASSUME NEW value, NEW step PROVE Read(<<>>, value, step) = value
  OBVIOUS
<1>1. Len(<<>>) = 0 /\ 0 \in Nat
  OBVIOUS
<1>2. PICK so : Reads(so, <<>>, value, step, 0) /\ Read(<<>>, value, step) = so[0]
  BY <1>1, ReadIs
<1>3. so[0] = value
  BY <1>2 DEF Reads
<1> QED
  BY <1>2, <1>3

LEMMA ReadMore ==
  ASSUME NEW T, NEW text \in Seq(T), NEW x \in T, NEW value, NEW step
  PROVE  Read(Append(text, x), value, step) = step[Read(text, value, step)][x]
<1> DEFINE more == Append(text, x)
<1>1. PICK n \in Nat : n = Len(text)
  BY LenProperties
<1>2. Len(more) = n + 1 /\ more[n + 1] = x /\ \A k \in 1..n : more[k] = text[k]
  BY <1>1, AppendProperties
<1>3. PICK f : Reads(f, text, value, step, n) /\ Read(text, value, step) = f[n]
  BY <1>1, ReadIs
<1>4. PICK g : Reads(g, more, value, step, n + 1) /\ Read(more, value, step) = g[n + 1]
  <2> HIDE DEF more
  <2>1. n + 1 \in Nat
    OBVIOUS
  <2> QED
    BY <1>2, <2>1, ReadIs
<1> DEFINE h == [k \in 0..n |-> g[k]]
<1> HIDE DEF more
<1>5. ASSUME NEW k \in 0..n PROVE h[k] = IF k = 0 THEN value ELSE step[h[k - 1]][text[k]]
  <2>1. k \in 0..(n + 1) /\ h[k] = g[k] /\ (k # 0 => k - 1 \in 0..n /\ h[k - 1] = g[k - 1] /\ more[k] = text[k])
    BY <1>2
  <2>2. g[k] = IF k = 0 THEN value ELSE step[g[k - 1]][more[k]]
    BY <1>4, <2>1 DEF Reads
  <2> HIDE DEF h
  <2> QED
    BY <2>1, <2>2
<1>6. h = [k \in 0..n |-> h[k]] /\ h[n] = g[n]
  OBVIOUS
<1> HIDE DEF h
<1>7. Reads(h, text, value, step, n)
  BY <1>5, <1>6 DEF Reads
<1>8. h[n] = f[n]
  BY <1>3, <1>7, ReadsOne
<1>9. g[n + 1] = step[g[n]][x]
  <2>1. n + 1 \in 0..(n + 1) /\ n + 1 # 0 /\ (n + 1) - 1 = n
    OBVIOUS
  <2>2. g[n + 1] = step[g[(n + 1) - 1]][more[n + 1]]
    BY <1>4, <2>1 DEF Reads
  <2> QED
    BY <1>2, <2>1, <2>2
<1> QED
  BY <1>3, <1>4, <1>6, <1>8, <1>9 DEF more

\* One character more of an escape sequence: a field is finished, or has a digit more.
FieldsStep == [fs \in Seq(Seq(Byte)) |-> [x \in Byte |->
                 IF x = SEMICOLON THEN Append(fs, <<>>)
                                  ELSE [fs EXCEPT ![Len(fs)] = Append(Latest(fs), x)]]]

LEMMA NoFields == Fields(<<>>) = << <<>> >> /\ Number(<<>>) = 0
BY ReadNothing DEF Fields, Number

LEMMA FieldsMore ==
  ASSUME NEW f \in Seq(Byte), NEW x \in Byte, Fields(f) \in Seq(Seq(Byte))
  PROVE  Fields(Append(f, x)) = IF x = SEMICOLON THEN Append(Fields(f), <<>>)
                                ELSE [Fields(f) EXCEPT ![Len(Fields(f))] = Append(Latest(Fields(f)), x)]
<1>1. \A g : Fields(g) = Read(g, << <<>> >>, FieldsStep)
  BY DEF Fields, FieldsStep
<1>2. Read(Append(f, x), << <<>> >>, FieldsStep) = FieldsStep[Read(f, << <<>> >>, FieldsStep)][x]
  BY ReadMore
<1>3. Fields(Append(f, x)) = FieldsStep[Fields(f)][x]
  BY <1>1, <1>2
<1>4. \A fs \in Seq(Seq(Byte)) :
        FieldsStep[fs][x] = IF x = SEMICOLON THEN Append(fs, <<>>)
                            ELSE [fs EXCEPT ![Len(fs)] = Append(Latest(fs), x)]
  BY DEF FieldsStep
<1> QED
  BY <1>3, <1>4

LEMMA NumberMore ==
  ASSUME NEW f \in Seq(Byte), NEW x \in Byte, Number(f) \in Int
  PROVE  Number(Append(f, x)) = 10 * Number(f) + (x - 48)
<1> DEFINE step == [v \in Int |-> [y \in Byte |-> 10 * v + (y - 48)]]
<1>1. \A g : Number(g) = Read(g, 0, step)
  BY DEF Number
<1>2. Read(Append(f, x), 0, step) = step[Read(f, 0, step)][x]
  <2> HIDE DEF step
  <2> QED
    BY ReadMore
<1>3. Number(Append(f, x)) = step[Number(f)][x]
  <2> HIDE DEF step
  <2> QED
    BY <1>1, <1>2
<1> QED
  BY <1>3

\* The fields of what has been read, each a number.
Fielded(f) == /\ Fields(f) \in Seq(Seq(Byte)) /\ Fields(f) # <<>>
              /\ \A k \in 1..Len(Fields(f)) : Number(Fields(f)[k]) \in Nat

\* Fields there are, so the last of them is one.
LEMMA FieldsAre ==
  ASSUME NEW f, Fielded(f)
  PROVE  /\ Len(Fields(f)) \in Nat \ {0} /\ Number(Latest(Fields(f))) \in Nat
         /\ Len(Front(Fields(f))) = Len(Fields(f)) - 1
         /\ \A k \in 1..(Len(Fields(f)) - 1) : Front(Fields(f))[k] = Fields(f)[k]
<1>1. PICK fs \in Seq(Seq(Byte)) : fs = Fields(f)
  BY DEF Fielded
<1>2. fs # <<>> /\ \A k \in 1..Len(fs) : Number(fs[k]) \in Nat
  BY <1>1 DEF Fielded
<1>3. Len(fs) \in Nat \ {0}
  BY <1>2, EmptySeq
<1>4. Number(Latest(fs)) \in Nat
  BY <1>2, <1>3 DEF Latest
<1>5. Front(fs) = [k \in 1..(Len(fs) - 1) |-> fs[k]]
  BY <1>3 DEF Front
<1>6. Len(Front(fs)) = Len(fs) - 1 /\ \A k \in 1..(Len(fs) - 1) : Front(fs)[k] = fs[k]
  BY <1>3, <1>5
<1> QED
  BY <1>1, <1>3, <1>4, <1>6

LEMMA FieldedDigit ==
  ASSUME NEW f \in Seq(Byte), Fielded(f), NEW x \in Digits
  PROVE  /\ Fielded(Append(f, x)) /\ Front(Fields(Append(f, x))) = Front(Fields(f))
         /\ Latest(Fields(Append(f, x))) # <<>>
         /\ Number(Latest(Fields(Append(f, x)))) = 10 * Number(Latest(Fields(f))) + (x - 48)
<1> DEFINE fs == Fields(f)
           gs == Fields(Append(f, x))
           field == Append(Latest(fs), x)
<1>1. x \in Byte /\ x # SEMICOLON /\ x - 48 \in Nat
  BY DEF Digits, Byte, SEMICOLON
<1>2. fs \in Seq(Seq(Byte)) /\ Len(fs) \in Nat \ {0} /\ \A k \in 1..Len(fs) : Number(fs[k]) \in Nat
  BY EmptySeq DEF Fielded
<1>3. gs = [fs EXCEPT ![Len(fs)] = Append(Latest(fs), x)]
  BY <1>1, <1>2, FieldsMore
<1> HIDE DEF fs, gs
<1>4. Latest(fs) \in Seq(Byte) /\ Number(Latest(fs)) \in Nat
  BY <1>2 DEF Latest
<1>5. field \in Seq(Byte) /\ field # <<>> /\ Number(field) = 10 * Number(Latest(fs)) + (x - 48)
  <2>1. field \in Seq(Byte) /\ Len(field) = Len(Latest(fs)) + 1 /\ Len(Latest(fs)) \in Nat
    BY <1>1, <1>4, AppendProperties, LenProperties
  <2>2. Number(field) = 10 * Number(Latest(fs)) + (x - 48)
    BY <1>1, <1>4, NumberMore
  <2> QED
    BY <2>1, <2>2
<1> HIDE DEF field
<1>6. gs \in Seq(Seq(Byte)) /\ Len(gs) = Len(fs) /\ gs[Len(fs)] = field
      /\ \A k \in 1..(Len(fs) - 1) : gs[k] = fs[k]
  BY <1>2, <1>3, <1>5 DEF field
<1>7. Number(field) \in Nat
  BY <1>1, <1>4, <1>5
<1>8. \A k \in 1..Len(gs) : Number(gs[k]) \in Nat
  <2> SUFFICES ASSUME NEW k \in 1..Len(gs) PROVE Number(gs[k]) \in Nat
    OBVIOUS
  <2>1. k = Len(fs) \/ k \in 1..(Len(fs) - 1)
    BY <1>2, <1>6
  <2>2. k \in 1..Len(fs)
    BY <1>6
  <2> QED
    BY <1>2, <1>6, <1>7, <2>1, <2>2
<1>9. Front(gs) = Front(fs)
  <2>1. Front(gs) = [k \in 1..(Len(fs) - 1) |-> gs[k]] /\ Front(fs) = [k \in 1..(Len(fs) - 1) |-> fs[k]]
    BY <1>2, <1>6 DEF Front
  <2> QED
    BY <1>6, <2>1
<1>10. gs # <<>>
  BY <1>2, <1>6
<1> QED
  BY <1>2, <1>5, <1>6, <1>8, <1>9, <1>10 DEF Fielded, Latest, fs, gs

LEMMA FieldedSemicolon ==
  ASSUME NEW f \in Seq(Byte), Fielded(f)
  PROVE  /\ Fielded(Append(f, SEMICOLON)) /\ Front(Fields(Append(f, SEMICOLON))) = Fields(f)
         /\ Latest(Fields(Append(f, SEMICOLON))) = <<>>
<1> DEFINE fs == Fields(f)
           gs == Fields(Append(f, SEMICOLON))
<1>1. SEMICOLON \in Byte
  BY DEF Byte, SEMICOLON
<1>2. fs \in Seq(Seq(Byte)) /\ Len(fs) \in Nat \ {0} /\ \A k \in 1..Len(fs) : Number(fs[k]) \in Nat
  BY EmptySeq DEF Fielded
<1>3. gs = Append(fs, <<>>)
  BY <1>1, <1>2, FieldsMore
<1> HIDE DEF fs, gs
<1>4. <<>> \in Seq(Byte)
  OBVIOUS
<1>5. /\ gs \in Seq(Seq(Byte)) /\ Len(gs) = Len(fs) + 1 /\ gs[Len(gs)] = <<>>
      /\ \A k \in 1..Len(fs) : gs[k] = fs[k]
  BY <1>2, <1>3, <1>4
<1>6. \A k \in 1..Len(gs) : Number(gs[k]) \in Nat
  <2> SUFFICES ASSUME NEW k \in 1..Len(gs) PROVE Number(gs[k]) \in Nat
    OBVIOUS
  <2>1. k = Len(gs) \/ k \in 1..Len(fs)
    BY <1>2, <1>5
  <2> QED
    BY <1>2, <1>5, <2>1, NoFields
<1>7. Front(gs) = fs
  <2>1. Front(gs) = [k \in 1..Len(fs) |-> gs[k]]
    BY <1>2, <1>5 DEF Front
  <2> QED
    BY <1>2, <1>5, <2>1
<1>8. gs # <<>>
  BY <1>2, <1>5
<1> QED
  BY <1>5, <1>6, <1>7, <1>8 DEF Fielded, Latest, fs, gs

\* What the parser has of the text, and what was applied when it ended.
Spelling ==
  /\ esc = 2 => /\ Fielded(spelled) /\ Holds(Front(Fields(spelled)))
                /\ Latest(Fields(spelled)) = <<>> => param = -1
                /\ Latest(Fields(spelled)) # <<>> /\ Number(Latest(Fields(spelled))) <= INT_MAX
                     => param = Number(Latest(Fields(spelled)))
  /\ esc # 2 /\ spelled # <<>> /\ Latest(spelled) = M => Holds(Fields(Front(spelled)))

Holding(ps, fs) ==
  /\ Len(ps) = IF Len(fs) < 4 THEN Len(fs) ELSE 4
  /\ \A k \in 1..Len(ps) : Number(fs[k]) <= INT_MAX => ps[k] = Number(fs[k])

\* A finished field goes to params, if there is room.
LEMMA PushedHolds ==
  ASSUME ParserOK, Spelling, esc = 2
  PROVE  Holding(Pushed, Fields(spelled))
<1> DEFINE fs == Fields(spelled)
           v == IF param < 0 THEN 0 ELSE param
<1>1. /\ fs \in Seq(Seq(Byte)) /\ Len(fs) \in Nat \ {0} /\ \A k \in 1..Len(fs) : Number(fs[k]) \in Nat
      /\ Latest(fs) = <<>> => param = -1
      /\ Latest(fs) # <<>> /\ Number(Latest(fs)) <= INT_MAX => param = Number(Latest(fs))
      /\ Holds(Front(fs))
  BY FieldsAre DEF Spelling, Fielded
<1>2. params \in Seq(Int) /\ Len(params) \in 0..4
  <2>1. params \in Seq(0..INT_MAX) /\ Len(params) <= 4
    BY DEF ParserOK
  <2>2. params \in Seq(Int)
    BY <2>1, SeqMonotonic, 0..INT_MAX \subseteq Int
  <2>3. PICK n \in Nat : n = Len(params)
    BY <2>2, LenProperties
  <2>4. n \in 0..4
    BY <2>1, <2>3
  <2> QED
    BY <2>2, <2>3, <2>4, Zenon
<1>3. Len(Front(fs)) = Len(fs) - 1 /\ \A k \in 1..(Len(fs) - 1) : Front(fs)[k] = fs[k]
  <2>1. Fielded(spelled)
    BY DEF Spelling
  <2> QED
    BY <2>1, FieldsAre
<1> HIDE DEF fs
<1>4. /\ Len(params) = IF Len(fs) - 1 < 4 THEN Len(fs) - 1 ELSE 4
      /\ \A k \in 1..Len(params) : Number(fs[k]) <= INT_MAX => params[k] = Number(fs[k])
  <2>1. /\ Len(params) = IF Len(Front(fs)) < 4 THEN Len(Front(fs)) ELSE 4
        /\ \A k \in 1..Len(params) : Number(Front(fs)[k]) <= INT_MAX => params[k] = Number(Front(fs)[k])
    BY <1>1 DEF Holds
  <2>2. Len(params) <= Len(fs) - 1
    BY <1>1, <1>3, <2>1
  <2> QED
    BY <1>1, <1>3, <2>1, <2>2
<1>5. Number(fs[Len(fs)]) <= INT_MAX => v = Number(fs[Len(fs)])
  <2>1. CASE Latest(fs) = <<>>
    <3>1. v = 0 /\ fs[Len(fs)] = <<>>
      BY <1>1, <2>1 DEF Latest
    <3> QED
      BY <3>1, NoFields
  <2>2. CASE Latest(fs) # <<>>
    <3>1. Number(fs[Len(fs)]) \in Nat
      BY <1>1
    <3>2. Number(fs[Len(fs)]) <= INT_MAX => param = Number(fs[Len(fs)])
      BY <1>1, <2>2 DEF Latest
    <3> QED
      BY <3>1, <3>2
  <2> QED
    BY <2>1, <2>2
<1> HIDE DEF v
<1>6. CASE Len(params) < 4
  <2>1. Pushed = Append(params, v)
    BY <1>6 DEF Pushed, v
  <2>2. v \in Int
    BY ScreenAssumption DEF v, ParserOK, INT_MIN
  <2>3. Len(Pushed) = Len(params) + 1 /\ Pushed[Len(params) + 1] = v /\ \A k \in 1..Len(params) : Pushed[k] = params[k]
    BY <1>2, <2>1, <2>2
  <2>4. Len(params) + 1 = Len(fs)
    BY <1>1, <1>4, <1>6
  <2>5. Len(Pushed) = IF Len(fs) < 4 THEN Len(fs) ELSE 4
    BY <1>2, <1>6, <2>3, <2>4
  <2>6. ASSUME NEW k \in 1..Len(Pushed), Number(fs[k]) <= INT_MAX PROVE Pushed[k] = Number(fs[k])
    <3>1. k = Len(fs) \/ k \in 1..Len(params)
      BY <1>2, <2>3, <2>4
    <3> QED
      BY <1>4, <1>5, <2>3, <2>4, <2>6, <3>1
  <2> QED
    BY <2>5, <2>6 DEF Holding, fs
<1>7. CASE ~(Len(params) < 4)
  <2>1. Pushed = params /\ Len(params) = 4 /\ ~(Len(fs) < 4)
    BY <1>1, <1>2, <1>4, <1>7 DEF Pushed
  <2> QED
    BY <1>4, <2>1 DEF Holding, fs
<1> QED
  BY <1>6, <1>7

LEMMA WrappedIs == \A v \in 0..INT_MAX : Wrapped(v) = v
<1> SUFFICES ASSUME NEW v \in 0..INT_MAX PROVE Wrapped(v) = v
  OBVIOUS
<1>1. (v + INT_MAX + 1) % (2 * INT_MAX + 2) = v + INT_MAX + 1
  BY ScreenAssumption
<1> QED
  BY <1>1, ScreenAssumption DEF Wrapped

\* A digit more: unless it overflows, so did nothing before it.
LEMMA DigitSpelled ==
  ASSUME ParserOK, Spelling, NEW c \in -128..255, NEW rest, Digit(c, rest)
  PROVE  Spelling'
<1>1. PICK f \in Seq(Byte) : f = spelled
  BY DEF ParserOK
<1>2. PICK x \in Digits : x = LowByte(c)
  BY DEF Digit
<1>3. /\ esc = 2 /\ esc' = 2 /\ spelled' = Append(f, x) /\ params' = params
      /\ param' = Wrapped((IF param < 0 THEN 0 ELSE param) * 10 + (x - 48))
  BY <1>1, <1>2 DEF Digit
<1>4. /\ Fielded(f)
      /\ Holds(Front(Fields(f)))
      /\ Latest(Fields(f)) = <<>> => param = -1
      /\ Latest(Fields(f)) # <<>> /\ Number(Latest(Fields(f))) <= INT_MAX
           => param = Number(Latest(Fields(f)))
  BY <1>1, <1>3 DEF Spelling
<1>5. PICK v \in Nat : v = Number(Latest(Fields(f)))
  BY <1>4, FieldsAre
<1>6. PICK w \in Nat : w = x - 48
  BY DEF Digits
<1>7. /\ Fielded(Append(f, x)) /\ Front(Fields(Append(f, x))) = Front(Fields(f))
      /\ Latest(Fields(Append(f, x))) # <<>> /\ Number(Latest(Fields(Append(f, x)))) = 10 * v + w
  BY <1>4, <1>5, <1>6, FieldedDigit
<1>8. ASSUME 10 * v + w <= INT_MAX PROVE param' = 10 * v + w
  <2>1. v <= INT_MAX /\ (v * 10) + w \in 0..INT_MAX
    BY <1>8, ScreenAssumption
  <2>2. (IF param < 0 THEN 0 ELSE param) = v
    <3>1. CASE Latest(Fields(f)) = <<>>
      <4>1. v = 0
        BY <1>5, <3>1, NoFields
      <4>2. param = -1
        BY <1>4, <3>1
      <4> QED
        BY <4>1, <4>2
    <3>2. CASE Latest(Fields(f)) # <<>>
      <4>1. param = v
        BY <1>4, <1>5, <2>1, <3>2
      <4> QED
        BY <4>1
    <3> QED
      BY <3>1, <3>2
  <2>3. param' = Wrapped((v * 10) + w)
    BY <1>3, <1>6, <2>2
  <2>4. param' = (v * 10) + w
    BY <2>1, <2>3, WrappedIs
  <2> QED
    BY <2>4
<1>9. Holding(params, Front(Fields(Append(f, x))))
  <2>1. Holding(params, Front(Fields(f)))
    BY <1>4 DEF Holds, Holding
  <2> QED
    BY <1>7, <2>1
<1>10. Holds(Front(Fields(spelled)))'
  BY <1>3, <1>9 DEF Holds, Holding
<1> QED
  BY <1>3, <1>7, <1>8, <1>10 DEF Spelling

LEMMA SemicolonSpelled ==
  ASSUME ParserOK, Spelling, NEW c \in -128..255, NEW rest, Semicolon(c, rest)
  PROVE  Spelling'
<1>1. /\ esc = 2 /\ esc' = 2 /\ spelled' = Append(spelled, SEMICOLON) /\ params' = Pushed /\ param' = -1
  BY DEF Semicolon
<1>2. spelled \in Seq(Byte) /\ Fielded(spelled)
  BY <1>1 DEF Spelling, ParserOK
<1>3. /\ Fielded(Append(spelled, SEMICOLON)) /\ Front(Fields(Append(spelled, SEMICOLON))) = Fields(spelled)
      /\ Latest(Fields(Append(spelled, SEMICOLON))) = <<>>
  BY <1>2, FieldedSemicolon
<1>4. Holding(Pushed, Fields(spelled))
  BY <1>1, PushedHolds
<1>5. Holds(Front(Fields(spelled)))'
  BY <1>1, <1>3, <1>4 DEF Holds, Holding
<1> QED
  BY <1>1, <1>3, <1>5 DEF Spelling

\* The last character of a text, and what is before it.
LEMMA Ending ==
  ASSUME NEW f \in Seq(Byte), NEW x \in Byte
  PROVE  Append(f, x) # <<>> /\ Latest(Append(f, x)) = x /\ Front(Append(f, x)) = f
<1>1. Len(Append(f, x)) = Len(f) + 1 /\ Len(f) \in Nat
  OBVIOUS
<1>2. Front(Append(f, x)) = [k \in 1..Len(f) |-> Append(f, x)[k]]
  BY <1>1 DEF Front
<1> QED
  BY <1>1, <1>2 DEF Latest

\* Each branch of cons_putc keeps what has been spelled.
LEMMA ParseSpelled ==
  ASSUME ParserOK, Spelling, NEW c \in -128..255, NEW rest, Parse(c, rest)
  PROVE  Spelling'
<1>1. CASE Plain(c, rest) \/ Escape(c, rest) \/ NotCsi(c, rest)
  <2>1. esc # 2 /\ esc' # 2 /\ params' = params /\ spelled' = spelled
    BY <1>1 DEF Plain, Escape, NotCsi, parser
  <2> QED
    BY <2>1 DEF Spelling, Holds
<1>2. CASE Csi(c, rest)
  <2>1. esc' = 2 /\ param' = -1 /\ params' = <<>> /\ spelled' = <<>>
    BY <1>2 DEF Csi
  <2>2. Front(<< <<>> >>) = <<>> /\ Latest(<< <<>> >>) = <<>> /\ << <<>> >> \in Seq(Seq(Byte))
    BY DEF Front, Latest
  <2>3. Fielded(<<>>)
    <3>1. PICK fs \in Seq(Seq(Byte)) : fs = Fields(<<>>) /\ fs = << <<>> >>
      BY <2>2, NoFields
    <3>2. fs # <<>> /\ \A k \in 1..Len(fs) : fs[k] = <<>>
      BY <3>1
    <3>3. \A k \in 1..Len(fs) : Number(fs[k]) \in Nat
      BY <3>2, NoFields
    <3> QED
      BY <3>1, <3>2, <3>3 DEF Fielded
  <2>4. Holding(<<>>, <<>>)
    BY DEF Holding
  <2>5. Holds(Front(Fields(spelled)))'
    BY <2>1, <2>2, <2>4, NoFields DEF Holds, Holding
  <2> QED
    BY <2>1, <2>2, <2>3, <2>5, NoFields DEF Spelling
<1>3. CASE SetColours(c, rest)
  <2>1. esc = 2 /\ esc' = 0 /\ params' = Pushed /\ spelled' = Append(spelled, M)
    BY <1>3 DEF SetColours
  <2>2. M \in Byte /\ spelled \in Seq(Byte)
    BY DEF M, Byte, ParserOK
  <2>3. Front(spelled') = spelled
    BY <2>1, <2>2, Ending
  <2>4. Holding(Pushed, Fields(spelled))
    BY <2>1, PushedHolds
  <2>5. Holds(Fields(Front(spelled)))'
    BY <2>1, <2>3, <2>4 DEF Holds, Holding
  <2> QED
    BY <2>1, <2>5 DEF Spelling
<1>4. CASE UnknownCsi(c, rest)
  <2>1. esc' = 0 /\ spelled' = Append(spelled, LowByte(c)) /\ LowByte(c) # M
    BY <1>4 DEF UnknownCsi
  <2>2. LowByte(c) \in Byte /\ spelled \in Seq(Byte)
    BY LowByteRange DEF ParserOK
  <2>3. Latest(spelled') # M
    BY <2>1, <2>2, Ending
  <2> QED
    BY <2>1, <2>3 DEF Spelling
<1> QED
  BY <1>1, <1>2, <1>3, <1>4, DigitSpelled, SemicolonSpelled DEF Parse

\* The numbers an escape sequence is given are the ones its text spells, whatever came
\* before it, for every text, every length of the sequences and every range of int.
THEOREM AlwaysSpelled == Spec => []ParamsSpelled
<1>1. Init => Spelling
  BY DEF Init, Spelling
<1>2. TypeOK /\ Spelling /\ [Next]_vars => Spelling'
  <2> SUFFICES ASSUME TypeOK, Spelling, [Next]_vars PROVE Spelling'
    OBVIOUS
  <2>0. ParserOK
    BY DEF TypeOK, ParserOK
  <2>1. ASSUME NEW c \in Input, cons_putc(c) PROVE Spelling'
    <3>1. c \in -128..255 /\ Parse(c, <<>>)
      BY <2>1, ScreenAssumption DEF cons_putc, Input, TypeOK
    <3> QED
      BY <2>0, <3>1, ParseSpelled
  <2>2. CASE nested_putc
    <3>1. Head(todo) \in Calls
      BY <2>2, HeadTailProperties DEF nested_putc, TypeOK
    <3>2. Head(todo).c \in -128..255 /\ Parse(Head(todo).c, Tail(todo))
      BY <2>2, <3>1 DEF Calls, nested_putc
    <3> QED
      BY <2>0, <3>2, ParseSpelled
  <2>3. CASE print \/ UNCHANGED vars
    <3>1. UNCHANGED <<esc, param, params, spelled>>
      BY <2>3 DEF print, vars, parser
    <3> QED
      BY <3>1 DEF Spelling, Holds
  <2> QED
    BY <2>1, <2>2, <2>3 DEF Next
<1>3. Spelling => ParamsSpelled
  BY DEF Spelling, ParamsSpelled
<1> QED
  BY <1>1, <1>2, <1>3, TypeCorrect, PTL DEF Spec

-----------------------------------------------------------------------------
(* What the ports are given *)

\* The text the last call from outside is to put on the ports.
Wanted == IF last.esc = 0 /\ LowByte(last.c) # ESC THEN OnTheWire(last.c)
          ELSE IF last.esc = 1 /\ LowByte(last.c) # BRACKET THEN <<ESC>> \o OnTheWire(last.c)
          ELSE <<>>

\* Its beginning has been sent.  The rest is owed by the calls that are still to be
\* made: none or some spaces of a tab, the first of which may be past the parser;
\* the character itself; or the ESC and then the character.
Begun == Len(sent) <= Len(Wanted) /\ \A i \in 1..Len(sent) : sent[i] = Wanted[i]

OwesSpaces ==
  /\ Len(sent) + Len(todo) = Len(Wanted)
  /\ \A i \in 1..Len(todo) : Wanted[Len(sent) + i] = SPACE
  /\ \A i \in 2..Len(todo) : todo[i] = Putc(SPACE)
  /\ Len(todo) > 0 => todo[1] \in {Putc(SPACE), Out(SPACE)}

OwesCharacter ==
  /\ todo = <<Out(last.c)>>
  /\ Len(sent) + Len(OnTheWire(last.c)) = Len(Wanted)
  /\ \A i \in 1..Len(OnTheWire(last.c)) : Wanted[Len(sent) + i] = OnTheWire(last.c)[i]

OwesEscape ==
  /\ todo = <<Out(ESC), Out(last.c)>> /\ sent = <<>>
  /\ Wanted = <<ESC>> \o OnTheWire(last.c)

Owed == /\ todo # <<>> => esc = 0
        /\ Begun
        /\ OwesSpaces \/ OwesCharacter \/ OwesEscape

LEMMA OnTheWireType ==
  ASSUME NEW c \in -128..255
  PROVE  /\ OnTheWire(c) \in Seq(Byte)
         /\ Len(OnTheWire(c)) \in Nat /\ Len(OnTheWire(c)) >= 1
         /\ OnTheWire(c)[1] = LowByte(c)
         /\ LowByte(c) # TAB => Len(OnTheWire(c)) = 1
         /\ LowByte(c) = TAB => Len(OnTheWire(c)) = 6 /\ \A i \in 2..6 : OnTheWire(c)[i] = SPACE
<1>1. LowByte(c) \in Byte
  BY LowByteRange
<1>2. TAB \in Byte /\ SPACE \in Byte
  BY DEF TAB, SPACE, Byte
<1>3. CASE LowByte(c) = TAB
  <2>1. OnTheWire(c) = <<TAB, SPACE, SPACE, SPACE, SPACE, SPACE>>
    BY <1>3 DEF OnTheWire
  <2> QED
    BY <1>2, <1>3, <2>1
<1>4. CASE LowByte(c) # TAB
  <2>1. OnTheWire(c) = <<LowByte(c)>>
    BY <1>4 DEF OnTheWire
  <2> QED
    BY <1>1, <1>4, <2>1
<1> QED
  BY <1>3, <1>4

LEMMA EscapedType ==
  ASSUME NEW w \in Seq(Byte)
  PROVE  /\ <<ESC>> \o w \in Seq(Byte) /\ Len(<<ESC>> \o w) = 1 + Len(w)
         /\ (<<ESC>> \o w)[1] = ESC
         /\ \A i \in 1..Len(w) : (<<ESC>> \o w)[1 + i] = w[i]
<1>1. <<ESC>> \in Seq(Byte) /\ Len(<<ESC>>) = 1 /\ <<ESC>>[1] = ESC
  BY DEF ESC, Byte
<1> QED
  BY <1>1, ConcatProperties

LEMMA WantedType ==
  ASSUME TypeOK
  PROVE  Wanted \in Seq(Byte) /\ Len(Wanted) \in Nat
<1>1. last.c \in -128..255
  BY DEF TypeOK
<1>2. OnTheWire(last.c) \in Seq(Byte)
  BY <1>1, OnTheWireType
<1>3. <<ESC>> \o OnTheWire(last.c) \in Seq(Byte)
  BY <1>2, EscapedType
<1>4. <<>> \in Seq(Byte)
  OBVIOUS
<1>5. Wanted \in Seq(Byte)
  BY <1>2, <1>3, <1>4 DEF Wanted
<1> QED
  BY <1>5, LenProperties

\* A call from outside.
LEMMA Asked ==
  ASSUME TypeOK, Owed, NEW c \in Input, cons_putc(c)
  PROVE  Owed'
<1>1. c \in -128..255
  BY ScreenAssumption DEF Input, TypeOK
<1>0. Wanted' = IF esc = 0 /\ LowByte(c) # ESC THEN OnTheWire(c)
               ELSE IF esc = 1 /\ LowByte(c) # BRACKET THEN <<ESC>> \o OnTheWire(c)
               ELSE <<>>
  <2>1. last' = [c |-> c, esc |-> esc]
    BY DEF cons_putc
  <2> QED
    BY <2>1 DEF Wanted, OnTheWire, LowByte
<1>2. sent' = <<>> /\ last'.c = c /\ last'.esc = esc /\ Parse(c, <<>>) /\ Begun'
  <2>1. sent' = <<>> /\ last'.c = c /\ last'.esc = esc /\ Parse(c, <<>>)
    BY DEF cons_putc
  <2>2. Wanted' \in Seq(Byte)
    <3>1. OnTheWire(c) \in Seq(Byte)
      BY <1>1, OnTheWireType
    <3>2. <<ESC>> \o OnTheWire(c) \in Seq(Byte)
      BY <3>1, EscapedType
    <3>3. <<>> \in Seq(Byte)
      OBVIOUS
    <3> QED
      BY <1>0, <3>1, <3>2, <3>3
  <2>3. Len(Wanted') \in Nat /\ Len(<<>>) = 0
    BY <2>2
  <2> QED
    BY <2>1, <2>3 DEF Begun
<1>3. ASSUME todo' = <<>>, Wanted' = <<>>
      PROVE  Owed'
  BY <1>2, <1>3 DEF Owed, OwesSpaces
<1>4. CASE Plain(c, <<>>)
  <2>1. esc = 0 /\ esc' = 0 /\ LowByte(c) # ESC /\ todo' = <<Out(c)>>
    BY <1>4 DEF Plain, parser
  <2>2. Wanted' = OnTheWire(c)
    BY <1>0, <2>1
  <2>3. OwesCharacter'
    <3>1. last'.c = c /\ Len(sent') = 0 /\ Len(OnTheWire(c)) \in Nat
      BY <1>1, <1>2, OnTheWireType
    <3>2. (OnTheWire(last.c))' = OnTheWire(c) /\ (Out(last.c))' = Out(c)
      BY <3>1 DEF OnTheWire, LowByte, Out
    <3>3. /\ Len(sent') + Len(OnTheWire(c)) = Len(Wanted')
          /\ \A i \in 1..Len(OnTheWire(c)) : Wanted'[Len(sent') + i] = OnTheWire(c)[i]
      BY <2>2, <3>1
    <3> QED
      BY <2>1, <3>2, <3>3 DEF OwesCharacter
  <2> QED
    BY <1>2, <2>1, <2>3 DEF Owed
<1>5. CASE Escape(c, <<>>)
  <2>1. todo' = <<>> /\ Wanted' = <<>>
    BY <1>0, <1>5 DEF Escape
  <2> QED
    BY <1>3, <2>1
<1>6. CASE Csi(c, <<>>)
  <2>1. todo' = <<>> /\ Wanted' = <<>>
    BY <1>0, <1>6 DEF Csi
  <2> QED
    BY <1>3, <2>1
<1>7. CASE NotCsi(c, <<>>)
  <2>1. esc = 1 /\ esc' = 0 /\ LowByte(c) # BRACKET /\ todo' = <<Out(ESC), Out(c)>>
    BY <1>7 DEF NotCsi
  <2>2. OwesEscape'
    <3>1. Wanted' = <<ESC>> \o OnTheWire(c)
      BY <1>0, <2>1
    <3> QED
      BY <1>2, <2>1, <3>1 DEF OwesEscape, OnTheWire, LowByte, Out
  <2> QED
    BY <1>2, <2>1, <2>2 DEF Owed
<1>8. CASE Digit(c, <<>>) \/ Semicolon(c, <<>>) \/ SetColours(c, <<>>) \/ UnknownCsi(c, <<>>)
  <2>1. esc = 2 /\ todo' = <<>>
    BY <1>8 DEF Digit, Semicolon, SetColours, UnknownCsi
  <2>2. Wanted' = <<>>
    BY <1>0, <2>1
  <2> QED
    BY <1>3, <2>1, <2>2
<1> QED
  BY <1>2, <1>4, <1>5, <1>6, <1>7, <1>8 DEF Parse

\* A space of a tab passes the parser, which is in its normal state.
LEMMA Passed ==
  ASSUME TypeOK, Owed, nested_putc
  PROVE  Owed'
<1>1. /\ todo \in Seq(Calls) /\ Len(todo) \in Nat /\ Len(todo) > 0 /\ Head(todo) = todo[1]
      /\ Len(Tail(todo)) = Len(todo) - 1 /\ Tail(todo) \in Seq(Calls)
      /\ \A i \in 1..(Len(todo) - 1) : Tail(todo)[i] = todo[i + 1]
  BY DEF TypeOK, nested_putc
<1>2. todo[1].call = "putc" /\ esc = 0 /\ Parse(todo[1].c, Tail(todo))
      /\ sent' = sent /\ last' = last
  BY <1>1 DEF nested_putc, Owed
<1>3. OwesSpaces
  <2>1. ~OwesCharacter
    <3>1. ASSUME todo = <<Out(last.c)>> PROVE FALSE
      BY <1>2, <3>1 DEF Out
    <3> QED
      BY <3>1 DEF OwesCharacter
  <2>2. ~OwesEscape
    <3>1. ASSUME todo = <<Out(ESC), Out(last.c)>> PROVE FALSE
      BY <1>2, <3>1 DEF Out
    <3> QED
      BY <3>1 DEF OwesEscape
  <2> QED
    BY <2>1, <2>2 DEF Owed
<1>4. todo[1] = Putc(SPACE) /\ todo[1].c = SPACE
  <2>1. todo[1] \in {Putc(SPACE), Out(SPACE)}
    BY <1>1, <1>3 DEF OwesSpaces
  <2>2. Out(SPACE).call = "print" /\ Putc(SPACE).c = SPACE
    BY DEF Out, Putc
  <2> QED
    BY <1>2, <2>1, <2>2
<1>5. esc' = 0 /\ todo' = <<Out(SPACE)>> \o Tail(todo)
  <2>1. LowByte(SPACE) # ESC
    BY DEF LowByte, SPACE, ESC
  <2> QED
    BY <1>2, <1>4, <2>1
    DEF Parse, Plain, Escape, Csi, NotCsi, Digit, Semicolon, SetColours, UnknownCsi, parser
<1>6. /\ Len(todo') = Len(todo) /\ todo'[1] = Out(SPACE)
      /\ \A i \in 2..Len(todo) : todo'[i] = todo[i]
  <2> DEFINE x == Out(SPACE)
             u == Tail(todo)
  <2>1. <<x>> \in Seq(Calls) /\ Len(<<x>>) = 1 /\ <<x>>[1] = x
    <3>1. Out(SPACE) \in Calls
      BY DEF Out, Calls, SPACE
    <3> QED
      BY <3>1
  <2>2. u \in Seq(Calls) /\ Len(u) = Len(todo) - 1 /\ \A i \in 1..(Len(todo) - 1) : u[i] = todo[i + 1]
    BY <1>1
  <2> HIDE DEF x, u
  <2>3. /\ Len(<<x>> \o u) = 1 + Len(u) /\ (<<x>> \o u)[1] = x
        /\ \A i \in 2..(1 + Len(u)) : (<<x>> \o u)[i] = u[i - 1]
    <3>1. Len(u) \in Nat
      BY <2>2
    <3> QED
      BY <2>1, <2>2, <3>1, ConcatProperties
  <2>4. \A i \in 2..Len(todo) : u[i - 1] = todo[i]
    BY <1>1, <2>2
  <2> QED
    BY <1>1, <1>5, <2>2, <2>3, <2>4 DEF x, u
<1>7. OwesSpaces' /\ Begun'
  <2>1. Wanted' = Wanted
    BY <1>2 DEF Wanted
  <2> QED
    BY <1>1, <1>2, <1>3, <1>6, <2>1 DEF OwesSpaces, Begun, Owed
<1> QED
  BY <1>5, <1>7 DEF Owed

\* The three devices are given a character.
LEMMA Printed ==
  ASSUME TypeOK, Owed, print
  PROVE  Owed'
<1> DEFINE c == Head(todo).c
<1>1. /\ todo \in Seq(Calls) /\ Len(todo) \in Nat /\ Len(todo) > 0 /\ Head(todo) = todo[1]
      /\ Len(Tail(todo)) = Len(todo) - 1 /\ Tail(todo) \in Seq(Calls)
      /\ \A i \in 1..(Len(todo) - 1) : Tail(todo)[i] = todo[i + 1]
  BY DEF TypeOK, print
<1>2. /\ todo[1].call = "print" /\ esc' = 0 /\ last' = last /\ sent' = Append(sent, LowByte(c))
      /\ todo' = (IF LowByte(c) = TAB THEN [i \in 1..5 |-> Putc(SPACE)] ELSE <<>>) \o Tail(todo)
  <2>1. /\ last' = last /\ sent' = Append(sent, LowByte(c)) /\ esc' = esc
        /\ todo' = (IF LowByte(c) = TAB THEN [i \in 1..5 |-> Putc(SPACE)] ELSE <<>>) \o Tail(todo)
    BY DEF print, parser
  <2>2. todo[1].call = "print" /\ esc = 0
    BY <1>1 DEF print, Owed
  <2> QED
    BY <2>1, <2>2
<1>3. /\ c \in -128..255 /\ last.c \in -128..255 /\ LowByte(c) \in Byte /\ sent \in Seq(Byte)
      /\ Len(sent) \in Nat
      /\ Len(sent') = Len(sent) + 1 /\ sent'[Len(sent) + 1] = LowByte(c)
      /\ \A i \in 1..Len(sent) : sent'[i] = sent[i]
  <2>1. c \in -128..255 /\ last.c \in -128..255 /\ sent \in Seq(Byte)
    <3>1. Head(todo) \in Calls
      BY <1>1, HeadTailProperties DEF TypeOK
    <3> QED
      BY <3>1 DEF Calls, TypeOK
  <2>2. LowByte(c) \in Byte
    BY <2>1, LowByteRange
  <2> HIDE DEF c
  <2> QED
    BY <1>2, <2>1, <2>2, AppendProperties
<1>4. Wanted' = Wanted /\ Wanted \in Seq(Byte) /\ Len(Wanted) \in Nat
  BY <1>2, WantedType DEF Wanted
<1>5. ASSUME Len(sent) < Len(Wanted), Wanted[Len(sent) + 1] = LowByte(c)
      PROVE  Begun'
  BY <1>3, <1>4, <1>5 DEF Begun, Owed
<1>6. CASE OwesSpaces
  <2>1. c = SPACE /\ LowByte(c) = SPACE /\ LowByte(c) # TAB
    <3>1. todo[1] \in {Putc(SPACE), Out(SPACE)}
      BY <1>1, <1>6 DEF OwesSpaces
    <3>2. Putc(SPACE).call = "putc" /\ Out(SPACE).c = SPACE
      BY DEF Out, Putc
    <3>3. c = SPACE
      BY <1>1, <1>2, <3>1, <3>2
    <3> QED
      BY <3>3 DEF LowByte, SPACE, TAB
  <2>2. todo' = Tail(todo)
    BY <1>1, <1>2, <2>1, ConcatEmptySeq
  <2>3. Begun'
    <3>1. Len(sent) < Len(Wanted) /\ Wanted[Len(sent) + 1] = SPACE
      BY <1>1, <1>3, <1>6 DEF OwesSpaces
    <3> QED
      BY <1>5, <2>1, <3>1
  <2>4. OwesSpaces'
    <3> HIDE DEF c
    <3>1. PICK m, n \in Nat : m = Len(todo) /\ n = Len(sent)
      BY <1>1, <1>3
    <3>2. Len(todo') = m - 1 /\ Len(sent') = n + 1 /\ \A i \in 1..(m - 1) : todo'[i] = todo[i + 1]
      BY <1>1, <1>3, <2>2, <3>1
    <3>3. /\ n + m = Len(Wanted) /\ \A i \in 1..m : Wanted[n + i] = SPACE
          /\ \A i \in 2..m : todo[i] = Putc(SPACE)
      BY <1>6, <3>1 DEF OwesSpaces
    <3>4. Len(sent') + Len(todo') = Len(Wanted')
      BY <1>4, <3>2, <3>3
    <3>5. \A i \in 1..(m - 1) : Wanted[n + 1 + i] = SPACE /\ todo'[i] = Putc(SPACE)
      <4> SUFFICES ASSUME NEW i \in 1..(m - 1)
                   PROVE  Wanted[n + 1 + i] = SPACE /\ todo'[i] = Putc(SPACE)
        OBVIOUS
      <4>1. i + 1 \in 1..m /\ i + 1 \in 2..m /\ n + 1 + i = n + (i + 1)
        OBVIOUS
      <4>2. Wanted[n + (i + 1)] = SPACE /\ todo[i + 1] = Putc(SPACE)
        BY <3>3, <4>1
      <4>3. todo'[i] = todo[i + 1]
        BY <3>2
      <4> QED
        BY <4>1, <4>2, <4>3
    <3>6. \A i \in 2..(m - 1) : i \in 1..(m - 1)
      OBVIOUS
    <3>7. Len(todo') > 0 => todo'[1] = Putc(SPACE)
      BY <3>2, <3>5
    <3> QED
      BY <1>4, <3>2, <3>4, <3>5, <3>6, <3>7 DEF OwesSpaces, Putc, Out
  <2> QED
    BY <1>2, <2>3, <2>4 DEF Owed
<1>7. CASE OwesCharacter
  <2>1. Len(todo) = 1 /\ c = last.c
    <3>1. todo = <<Out(last.c)>> /\ Out(last.c).c = last.c
      BY <1>7 DEF OwesCharacter, Out
    <3> QED
      BY <3>1
  <2> DEFINE w == OnTheWire(last.c)
  <2>2. /\ Len(w) \in Nat /\ Len(w) >= 1 /\ w[1] = LowByte(c)
        /\ LowByte(c) # TAB => Len(w) = 1
        /\ LowByte(c) = TAB => Len(w) = 6 /\ \A i \in 2..6 : w[i] = SPACE
    <3>1. last.c \in -128..255 /\ LowByte(last.c) = LowByte(c)
      BY <1>3, <2>1
    <3> QED
      BY <3>1, OnTheWireType
  <2>3. Len(sent) + Len(w) = Len(Wanted) /\ \A i \in 1..Len(w) : Wanted[Len(sent) + i] = w[i]
    BY <1>7 DEF OwesCharacter
  <2> HIDE DEF w, c
  <2>4. Begun'
    <3>1. Len(sent) < Len(Wanted) /\ Wanted[Len(sent) + 1] = LowByte(c)
      <4>1. 1 \in 1..Len(w) /\ Len(sent) \in Nat /\ Len(Wanted) \in Nat
        BY <1>3, <1>4, <2>2
      <4> QED
        BY <2>2, <2>3, <4>1
    <3> QED
      BY <1>5, <3>1
  <2>5. Tail(todo) = <<>>
    BY <1>7 DEF OwesCharacter
  <2>6. CASE LowByte(c) = TAB
    <3>1. todo' = [i \in 1..5 |-> Putc(SPACE)]
      <4>1. [i \in 1..5 |-> Putc(SPACE)] \in Seq(Calls)
        <5>1. Putc(SPACE) \in Calls
          BY DEF Putc, Calls, SPACE
        <5> QED
          BY <5>1
      <4>2. [i \in 1..5 |-> Putc(SPACE)] \o <<>> = [i \in 1..5 |-> Putc(SPACE)]
        BY <4>1, ConcatEmptySeq
      <4> QED
        BY <1>2, <2>5, <2>6, <4>2
    <3>2. Len(todo') = 5 /\ \A i \in 1..5 : todo'[i] = Putc(SPACE)
      BY <3>1
    <3>3. OwesSpaces'
      <4>1. \A i \in 1..5 : Wanted[Len(sent) + 1 + i] = SPACE
        <5>1. \A i \in 1..5 : Len(sent) + 1 + i = Len(sent) + (i + 1) /\ i + 1 \in 1..6 /\ i + 1 \in 2..6
          BY <1>3
        <5> QED
          BY <2>2, <2>3, <2>6, <5>1
      <4>2. Len(sent') + 5 = Len(Wanted') /\ \A i \in 1..5 : Wanted'[Len(sent') + i] = SPACE
        <5>1. Len(sent) + 6 = Len(Wanted) /\ Len(sent) \in Nat /\ Len(sent') = Len(sent) + 1
          BY <1>3, <2>2, <2>3, <2>6
        <5>2. Len(sent') + 5 = Len(Wanted)
          BY <5>1
        <5> QED
          BY <1>4, <4>1, <5>1, <5>2
      <4>3. /\ \A i \in 2..5 : todo'[i] = Putc(SPACE)
            /\ todo'[1] = Putc(SPACE) /\ (Putc(SPACE))' = Putc(SPACE)
        <5>1. \A i \in 2..5 : i \in 1..5
          OBVIOUS
        <5> QED
          BY <3>2, <5>1 DEF Putc
      <4> QED
        BY <3>2, <4>2, <4>3 DEF OwesSpaces
    <3> QED
      BY <1>2, <2>4, <3>3 DEF Owed
  <2>7. CASE LowByte(c) # TAB
    <3>1. todo' = <<>>
      <4>1. todo' = <<>> \o <<>>
        BY <1>2, <2>5, <2>7
      <4>2. <<>> \o <<>> = <<>>
        OBVIOUS
      <4> QED
        BY <4>1, <4>2
    <3>2. OwesSpaces'
      <4>1. Len(todo') = 0
        BY <3>1
      <4>2. Len(sent') = Len(Wanted')
        BY <1>3, <1>4, <2>2, <2>3, <2>7
      <4>3. \A i \in 1..0 : FALSE
        OBVIOUS
      <4>4. \A i \in 2..0 : FALSE
        OBVIOUS
      <4>5. Len(sent') + 0 = Len(Wanted')
        BY <1>3, <4>2
      <4> QED
        BY <4>1, <4>3, <4>4, <4>5 DEF OwesSpaces
    <3> QED
      BY <1>2, <2>4, <3>2 DEF Owed
  <2> QED
    BY <2>6, <2>7
<1>8. CASE OwesEscape
  <2>1. /\ todo = <<Out(ESC), Out(last.c)>> /\ sent = <<>> /\ Wanted = <<ESC>> \o OnTheWire(last.c)
        /\ Out(ESC).c = ESC
    BY <1>8 DEF OwesEscape, Out
  <2>2. c = ESC /\ LowByte(c) = ESC /\ ESC # TAB /\ Tail(todo) = <<Out(last.c)>>
    <3>1. c = ESC
      BY <2>1
    <3>2. Tail(todo) = <<Out(last.c)>>
      BY <2>1
    <3>3. LowByte(ESC) = ESC /\ ESC # TAB
      BY DEF LowByte, ESC, TAB
    <3> QED
      BY <3>1, <3>2, <3>3
  <2> HIDE DEF c
  <2>3. todo' = <<Out(last.c)>>
    BY <1>1, <1>2, <2>2, ConcatEmptySeq
  <2> DEFINE w == OnTheWire(last.c)
  <2>4. /\ Len(Wanted) = 1 + Len(w) /\ Wanted[1] = ESC /\ Len(w) \in Nat
        /\ \A i \in 1..Len(w) : Wanted[1 + i] = w[i]
    <3>1. w \in Seq(Byte) /\ Len(w) \in Nat
      BY <1>3, OnTheWireType
    <3> HIDE DEF w
    <3>2. Wanted = <<ESC>> \o w
      BY <2>1 DEF w
    <3> QED
      BY <3>1, <3>2, EscapedType
  <2>5. w' = w
    BY <1>2 DEF OnTheWire
  <2> HIDE DEF w
  <2>6. Len(sent) = 0 /\ Len(sent') = 1
    BY <1>3, <2>1
  <2>7. Begun'
    BY <1>5, <2>2, <2>4, <2>6
  <2>8. OwesCharacter'
    BY <1>2, <1>4, <2>3, <2>4, <2>5, <2>6 DEF OwesCharacter, w
  <2> QED
    BY <1>2, <2>7, <2>8 DEF Owed
<1> QED
  BY <1>6, <1>7, <1>8 DEF Owed

\* Nothing of the text is lost, doubled or out of order on its way to the ports, for
\* every text and every size of the screen (SerialText): the calls still to be made
\* owe exactly what has not been sent, and while there are any the parser is in its
\* normal state.
THEOREM AllSent == Spec => []SerialText
<1>1. Init => Owed
  <2> SUFFICES ASSUME Init PROVE Owed
    OBVIOUS
  <2>1. LowByte(ESC) = ESC
    BY DEF LowByte, ESC
  <2>2. Wanted = <<>> /\ todo = <<>> /\ sent = <<>>
    BY <2>1 DEF Init, Wanted
  <2> QED
    BY <2>2 DEF Owed, Begun, OwesSpaces
<1>2. TypeOK /\ Owed /\ [Next]_vars => Owed'
  <2> SUFFICES ASSUME TypeOK, Owed, [Next]_vars PROVE Owed'
    OBVIOUS
  <2>1. ASSUME UNCHANGED vars PROVE Owed'
    BY <2>1 DEF vars, parser, Owed, Begun, OwesSpaces, OwesCharacter, OwesEscape, Wanted
  <2> QED
    BY <2>1, Asked, Passed, Printed DEF Next
<1>3. TypeOK /\ Owed => SerialText
  <2> SUFFICES ASSUME TypeOK, Owed, todo = <<>> PROVE sent = Wanted
    BY DEF SerialText, Wanted
  <2>1. OwesSpaces /\ Begun
    BY DEF Owed, OwesCharacter, OwesEscape
  <2>2. /\ sent \in Seq(Byte) /\ Wanted \in Seq(Byte) /\ Len(sent) \in Nat /\ Len(Wanted) \in Nat
        /\ Len(todo) = 0
    BY WantedType DEF TypeOK
  <2>3. Len(sent) = Len(Wanted) /\ \A i \in 1..Len(sent) : sent[i] = Wanted[i]
    BY <2>1, <2>2 DEF OwesSpaces, Begun
  <2> QED
    BY <2>2, <2>3, SeqEqual
<1> QED
  BY <1>1, <1>2, <1>3, TypeCorrect, PTL DEF Spec

-----------------------------------------------------------------------------
(* The screen memory as lines and columns *)

Row(p)     == p \div CRT_COLS
Col(p)     == p % CRT_COLS
LinesOf(b) == [r \in 0..(CRT_ROWS - 1) |-> [c \in 0..(CRT_COLS - 1) |-> b[r * CRT_COLS + c]]]

\* Quotient and remainder are unique.
LEMMA Quotient ==
  ASSUME NEW m \in Nat \ {0}, NEW q \in Nat, NEW r \in 0..(m - 1)
  PROVE  (q * m + r) \div m = q /\ (q * m + r) % m = r
<1> DEFINE a == q * m + r
           e == a \div m
           f == a % m
<1>1. q * m \in Nat /\ a \in Nat
  OBVIOUS
<1> HIDE DEF a
<1>2. e \in Nat /\ f \in 0..(m - 1) /\ a = m * e + f
  BY <1>1
<1> HIDE DEF e, f
<1>3. m * e + f = m * q + r
  BY <1>2 DEF a
<1>4. ASSUME NEW s \in Nat, NEW t \in Nat, s < t PROVE m * s + m <= m * t
  <2>1. PICK k \in Nat : t = s + 1 + k
    <3>1. t - s - 1 \in Nat /\ t = s + 1 + (t - s - 1)
      BY <1>4
    <3> QED
      BY <3>1
  <2>2. m * t = m * s + m + m * k /\ m * k \in Nat
    BY <2>1
  <2> QED
    BY <2>2
<1>5. m * e \in Nat /\ m * q \in Nat
  BY <1>2
<1>6. ~(e < q)
  BY <1>2, <1>3, <1>4, <1>5
<1>7. ~(q < e)
  BY <1>2, <1>3, <1>4, <1>5
<1>8. e = q /\ f = r
  BY <1>2, <1>3, <1>6, <1>7
<1> QED
  BY <1>8 DEF a, e, f

\* A product with a smaller factor is smaller by the other one at least.
LEMMA Multiples ==
  ASSUME NEW s \in Nat, NEW t \in Nat
  PROVE  /\ s * CRT_COLS \in Nat /\ t * CRT_COLS \in Nat
         /\ s < t => s * CRT_COLS + CRT_COLS <= t * CRT_COLS
         /\ (s + 1) * CRT_COLS = s * CRT_COLS + CRT_COLS
<1>1. CRT_COLS \in Nat \ {0}
  BY SizeFacts
<1>2. s * CRT_COLS \in Nat /\ t * CRT_COLS \in Nat /\ (s + 1) * CRT_COLS = s * CRT_COLS + CRT_COLS
  BY <1>1
<1>3. ASSUME s < t PROVE s * CRT_COLS + CRT_COLS <= t * CRT_COLS
  <2>1. PICK k \in Nat : t = s + 1 + k
    <3>1. t - s - 1 \in Nat /\ t = s + 1 + (t - s - 1)
      BY <1>3
    <3> QED
      BY <3>1
  <2>2. t * CRT_COLS = s * CRT_COLS + CRT_COLS + k * CRT_COLS /\ k * CRT_COLS \in Nat
    BY <1>1, <2>1
  <2> QED
    BY <1>1, <1>2, <2>2
<1> QED
  BY <1>2, <1>3

\* Lines and columns are another way to write positions.
LEMMA Place ==
  ASSUME NEW r \in 0..(CRT_ROWS - 1), NEW c \in 0..(CRT_COLS - 1)
  PROVE  r * CRT_COLS + c \in Positions /\ Row(r * CRT_COLS + c) = r /\ Col(r * CRT_COLS + c) = c
<1>1. r \in Nat /\ c \in Nat /\ CRT_ROWS \in Nat /\ r < CRT_ROWS /\ CRT_COLS \in Nat \ {0}
  BY ScreenAssumption
<1>2. r * CRT_COLS + CRT_COLS <= CRT_ROWS * CRT_COLS /\ r * CRT_COLS \in Nat
  BY <1>1, Multiples
<1>3. r * CRT_COLS + c \in Positions
  BY <1>1, <1>2, SizeFacts DEF Positions, CRT_SIZE
<1> QED
  BY <1>1, <1>3, Quotient DEF Row, Col

LEMMA Placed ==
  ASSUME NEW p \in Positions
  PROVE  /\ Row(p) \in 0..(CRT_ROWS - 1) /\ Col(p) \in 0..(CRT_COLS - 1)
         /\ p = Row(p) * CRT_COLS + Col(p)
<1>1. p \in Nat /\ p < CRT_SIZE /\ CRT_COLS \in Nat \ {0} /\ CRT_ROWS \in Nat
  BY SizeFacts, ScreenAssumption DEF Positions
<1>2. Row(p) \in Nat /\ Col(p) \in 0..(CRT_COLS - 1) /\ p = CRT_COLS * Row(p) + Col(p)
  BY <1>1 DEF Row, Col
<1>3. p = Row(p) * CRT_COLS + Col(p)
  BY <1>1, <1>2
<1>4. Row(p) < CRT_ROWS
  <2> SUFFICES ASSUME ~(Row(p) < CRT_ROWS) PROVE FALSE
    OBVIOUS
  <2>1. CRT_ROWS * CRT_COLS <= Row(p) * CRT_COLS
    <3>1. CASE CRT_ROWS < Row(p)
      BY <1>1, <1>2, <3>1, Multiples
    <3>2. CASE CRT_ROWS = Row(p)
      BY <1>1, <1>2, <3>2, Multiples
    <3> QED
      BY <1>1, <1>2, <3>1, <3>2
  <2>2. CRT_ROWS * CRT_COLS \in Nat /\ Row(p) * CRT_COLS \in Nat
    BY <1>1, <1>2, Multiples
  <2> QED
    BY <1>1, <1>2, <1>3, <2>1, <2>2 DEF CRT_SIZE
<1> QED
  BY <1>1, <1>2, <1>3, <1>4

\* A cell written is a cell written, and no other.
LEMMA Written ==
  ASSUME NEW b \in Memory, NEW p \in Positions, NEW cell
  PROVE  LinesOf([b EXCEPT ![p] = cell]) = [LinesOf(b) EXCEPT ![Row(p)][Col(p)] = cell]
<1> DEFINE d == [b EXCEPT ![p] = cell]
           l == [LinesOf(b) EXCEPT ![Row(p)][Col(p)] = cell]
<1>1. ASSUME NEW r \in 0..(CRT_ROWS - 1), NEW c \in 0..(CRT_COLS - 1)
      PROVE  LinesOf(d)[r][c] = l[r][c]
  <2> DEFINE q == r * CRT_COLS + c
  <2>1. q \in Positions /\ Row(q) = r /\ Col(q) = c
    BY Place
  <2>2. LinesOf(d)[r][c] = d[q] /\ LinesOf(b)[r][c] = b[q]
    BY DEF LinesOf
  <2>3. l[r][c] = IF r = Row(p) /\ c = Col(p) THEN cell ELSE LinesOf(b)[r][c]
    BY Placed DEF LinesOf
  <2>4. q = p <=> r = Row(p) /\ c = Col(p)
    BY <2>1, Placed
  <2> HIDE DEF q
  <2>5. d[q] = IF q = p THEN cell ELSE b[q]
    BY <2>1 DEF Memory
  <2> QED
    BY <2>2, <2>3, <2>4, <2>5
<1>2. ASSUME NEW r \in 0..(CRT_ROWS - 1)
      PROVE  LinesOf(d)[r] = l[r]
  <2>1. LinesOf(d)[r] = [c \in 0..(CRT_COLS - 1) |-> LinesOf(d)[r][c]]
    BY DEF LinesOf
  <2>2. l[r] = [c \in 0..(CRT_COLS - 1) |-> l[r][c]]
    <3>1. LinesOf(b)[r] = [c \in 0..(CRT_COLS - 1) |-> LinesOf(b)[r][c]]
          /\ DOMAIN LinesOf(b) = 0..(CRT_ROWS - 1)
      BY DEF LinesOf
    <3>2. l[r] = IF r = Row(p) THEN [LinesOf(b)[r] EXCEPT ![Col(p)] = cell] ELSE LinesOf(b)[r]
      BY <3>1
    <3>3. DOMAIN (l[r]) = 0..(CRT_COLS - 1) /\ l[r] = [c \in DOMAIN (l[r]) |-> l[r][c]]
      BY <3>1, <3>2
    <3> HIDE DEF l
    <3> QED
      BY <3>3
  <2> HIDE DEF d, l
  <2> QED
    BY <1>1, <2>1, <2>2
<1>3. DOMAIN LinesOf(d) = 0..(CRT_ROWS - 1) /\ LinesOf(d) = [r \in 0..(CRT_ROWS - 1) |-> LinesOf(d)[r]]
      /\ l = [r \in 0..(CRT_ROWS - 1) |-> l[r]]
  BY DEF LinesOf
<1> HIDE DEF d, l
<1>4. LinesOf(d) = l
  BY <1>2, <1>3
<1> QED
  BY <1>4 DEF d, l

MemoryUp(b, cell) == [i \in 0..(CRT_SIZE - 1) |->
                        IF i < CRT_SIZE - CRT_COLS THEN b[i + CRT_COLS] ELSE cell]
LinesUp(l, cell)  == [r \in 0..(CRT_ROWS - 1) |->
                        IF r + 1 < CRT_ROWS THEN l[r + 1]
                                            ELSE [c \in 0..(CRT_COLS - 1) |-> cell]]

\* Moving the memory up by a line moves the lines up by one.
LEMMA MovedUp ==
  ASSUME NEW b \in Memory, NEW cell
  PROVE  LinesOf(MemoryUp(b, cell)) = LinesUp(LinesOf(b), cell)
<1> DEFINE d == MemoryUp(b, cell)
           l == LinesUp(LinesOf(b), cell)
<1> USE DEF MemoryUp, LinesUp
<1>1. ASSUME NEW r \in 0..(CRT_ROWS - 1)
      PROVE  LinesOf(d)[r] = l[r]
  <2>0. r \in Nat /\ CRT_ROWS \in Nat \ {0} /\ CRT_COLS \in Nat \ {0} /\ CRT_SIZE = CRT_ROWS * CRT_COLS
        /\ r * CRT_COLS \in Nat /\ CRT_ROWS * CRT_COLS \in Nat
        /\ (r + 1) * CRT_COLS = r * CRT_COLS + CRT_COLS
    BY ScreenAssumption, Multiples DEF CRT_SIZE
  <2>1. LinesOf(d)[r] = [c \in 0..(CRT_COLS - 1) |-> d[r * CRT_COLS + c]]
    BY DEF LinesOf
  <2>2. CASE r + 1 < CRT_ROWS
    <3>1. (r + 1) * CRT_COLS + CRT_COLS <= CRT_ROWS * CRT_COLS
      BY <2>0, <2>2, Multiples
    <3>2. ASSUME NEW c \in 0..(CRT_COLS - 1)
          PROVE  d[r * CRT_COLS + c] = b[(r + 1) * CRT_COLS + c]
      <4> DEFINE i == r * CRT_COLS + c
      <4>1. i \in 0..(CRT_SIZE - 1) /\ i < CRT_SIZE - CRT_COLS /\ i + CRT_COLS = (r + 1) * CRT_COLS + c
        BY <2>0, <3>1
      <4> HIDE DEF i
      <4>2. d[i] = b[i + CRT_COLS]
        BY <4>1
      <4> QED
        BY <4>1, <4>2 DEF i
    <3>3. LinesOf(b)[r + 1] = [c \in 0..(CRT_COLS - 1) |-> b[(r + 1) * CRT_COLS + c]]
      <4>1. r + 1 \in 0..(CRT_ROWS - 1)
        BY <2>0, <2>2
      <4> QED
        BY <4>1 DEF LinesOf
    <3>4. l[r] = LinesOf(b)[r + 1]
      BY <2>2
    <3> HIDE DEF d, l
    <3> QED
      BY <2>1, <3>2, <3>3, <3>4
  <2>3. CASE ~(r + 1 < CRT_ROWS)
    <3>1. (r + 1) * CRT_COLS = CRT_SIZE
      <4>1. r + 1 = CRT_ROWS
        BY <2>0, <2>3
      <4> QED
        BY <2>0, <4>1
    <3>2. ASSUME NEW c \in 0..(CRT_COLS - 1)
          PROVE  d[r * CRT_COLS + c] = cell
      <4> DEFINE i == r * CRT_COLS + c
      <4>1. i \in 0..(CRT_SIZE - 1) /\ ~(i < CRT_SIZE - CRT_COLS)
        BY <2>0, <3>1
      <4> HIDE DEF i
      <4>2. d[i] = cell
        BY <4>1
      <4> QED
        BY <4>2 DEF i
    <3>3. l[r] = [c \in 0..(CRT_COLS - 1) |-> cell]
      BY <2>3
    <3> HIDE DEF d, l
    <3> QED
      BY <2>1, <3>2, <3>3
  <2> QED
    BY <2>2, <2>3
<1>2. /\ LinesOf(d) = [r \in 0..(CRT_ROWS - 1) |-> LinesOf(d)[r]]
      /\ l = [r \in 0..(CRT_ROWS - 1) |-> l[r]]
  BY DEF LinesOf
<1> HIDE DEF d, l
<1>3. LinesOf(d) = l
  BY <1>1, <1>2
<1> QED
  BY <1>3 DEF d, l

-----------------------------------------------------------------------------
(* The terminal *)

\* cga_putc's next line is the terminal's, scrolled if there is none.
LEMMA Below ==
  ASSUME cursor \in Positions, NEW b \in Memory,
         NEW t, t.pos = (Row(cursor) + 1) * CRT_COLS, t.buf = b,
         cursor' = Scrolled(t).pos, crt_buf' = Scrolled(t).buf
  PROVE  /\ Col(cursor') = 0
         /\ Row(cursor) + 1 < CRT_ROWS => /\ Row(cursor') = Row(cursor) + 1
                                          /\ LinesOf(crt_buf') = LinesOf(b)
         /\ ~(Row(cursor) + 1 < CRT_ROWS) => /\ Row(cursor') = Row(cursor)
                                             /\ LinesOf(crt_buf') = LinesUp(LinesOf(b), Display!Blank)
<1> DEFINE r == Row(cursor)
           q == (r + 1) * CRT_COLS
<1>1. /\ r \in 0..(CRT_ROWS - 1) /\ r \in Nat /\ CRT_ROWS \in Nat \ {0} /\ CRT_COLS \in Nat \ {0}
      /\ CRT_SIZE = CRT_ROWS * CRT_COLS
      /\ q = r * CRT_COLS + CRT_COLS /\ r * CRT_COLS \in Nat /\ q \in Nat
  BY Placed, ScreenAssumption, Multiples DEF CRT_SIZE
<1>2. t.pos = q /\ t.buf = b /\ 0 \in 0..(CRT_COLS - 1)
  BY <1>1
<1> HIDE DEF r
<1>3. CASE r + 1 < CRT_ROWS
  <2>1. q + 0 \in Positions /\ Row(q + 0) = r + 1 /\ Col(q + 0) = 0 /\ q + 0 = q
    <3>1. r + 1 \in 0..(CRT_ROWS - 1)
      BY <1>1, <1>3
    <3>2. /\ (r + 1) * CRT_COLS + 0 \in Positions /\ Row((r + 1) * CRT_COLS + 0) = r + 1
          /\ Col((r + 1) * CRT_COLS + 0) = 0
      BY <1>2, <3>1, Place
    <3> QED
      BY <1>1, <3>2
  <2>2. q < CRT_SIZE
    BY <2>1, SizeFacts DEF Positions
  <2>3. Scrolled(t) = t
    BY <1>2, <2>2 DEF Scrolled
  <2>4. Row(cursor') = r + 1 /\ Col(cursor') = 0 /\ LinesOf(crt_buf') = LinesOf(b)
    BY <1>2, <2>1, <2>3
  <2> QED
    BY <1>3, <2>4 DEF r
<1>4. CASE ~(r + 1 < CRT_ROWS)
  <2>1. q = CRT_SIZE /\ CRT_SIZE - CRT_COLS = r * CRT_COLS + 0
    <3>1. r + 1 = CRT_ROWS
      BY <1>1, <1>4
    <3> QED
      BY <1>1, <3>1
  <2>2. ~(t.pos < CRT_SIZE) /\ t.pos - CRT_COLS = r * CRT_COLS + 0
    BY <1>1, <1>2, <2>1, SizeFacts
  <2>3. Scrolled(t).pos = r * CRT_COLS + 0
    BY <2>2 DEF Scrolled
  <2>4. Row(cursor') = r /\ Col(cursor') = 0
    BY <1>1, <1>2, <2>3, Place
  <2>5. Scrolled(t).buf = MemoryUp(b, BlankCell)
    BY <1>2, <2>2 DEF Scrolled, MemoryUp
  <2>6. LinesOf(crt_buf') = LinesUp(LinesOf(b), BlankCell)
    BY <2>5, MovedUp
  <2>7. BlankCell = Display!Blank
    BY DEF BlankCell, Display!Blank, SPACE, Display!Space
  <2> QED
    BY <1>4, <2>4, <2>6, <2>7 DEF r
<1> QED
  BY <1>3, <1>4

\* Every character printed moves the terminal as it should, a tab and a backspace at
\* the top left corner not at all.
LEMMA Shown ==
  ASSUME TypeOK, cursor = crt_pos, print
  PROVE  Display!Next \/ UNCHANGED Display!vars
<1> DEFINE c == Head(todo).c
           b == LowByte(c)
           T == Typed(c)
           p == cursor
<1>1. c \in -128..255 /\ b \in Byte
  <2>1. Head(todo) \in Calls
    BY HeadTailProperties DEF TypeOK, print
  <2> QED
    BY <2>1, LowByteRange DEF Calls
<1>2. /\ p \in Positions /\ crt_buf \in Memory /\ crt_attr' = crt_attr /\ crt_pos = p
      /\ cursor' = Scrolled(T).pos /\ crt_buf' = Scrolled(T).buf
  BY DEF TypeOK, print, Positions, Memory
<1>3. /\ Row(p) \in 0..(CRT_ROWS - 1) /\ Col(p) \in 0..(CRT_COLS - 1)
      /\ p = Row(p) * CRT_COLS + Col(p) /\ CRT_COLS \in Nat \ {0} /\ CRT_ROWS \in Nat \ {0}
      /\ Row(p) * CRT_COLS \in Nat /\ (Row(p) + 1) * CRT_COLS = Row(p) * CRT_COLS + CRT_COLS
  BY <1>2, Placed, Multiples, ScreenAssumption
<1>4. \A t : t.pos \in Positions => Scrolled(t) = t
  BY SizeFacts DEF Scrolled, Positions
<1>5. /\ Display!vars = <<LinesOf(crt_buf), Row(cursor), Col(cursor), crt_attr>>
      /\ Display!vars' = <<LinesOf(crt_buf'), Row(cursor'), Col(cursor'), crt_attr'>>
  BY DEF Display!vars, LinesOf, Row, Col
<1>6. CASE b = TAB \/ (b = BS /\ ~(p > 0))
  <2>1. T = [pos |-> p, buf |-> crt_buf]
    BY <1>2, <1>6 DEF Typed, TAB, BS, NL, CR
  <2>2. cursor' = p /\ crt_buf' = crt_buf
    <3>1. T.pos = p /\ T.buf = crt_buf
      BY <2>1
    <3> HIDE DEF T
    <3> QED
      BY <1>2, <1>4, <3>1
  <2> QED
    BY <1>2, <1>5, <2>2
<1>7. CASE b = NL
  <2>1. T.pos = LineStart(p + CRT_COLS) /\ T.buf = crt_buf
        /\ T = [pos |-> LineStart(p + CRT_COLS), buf |-> crt_buf]
    BY <1>2, <1>7 DEF Typed, BS, NL
  <2>2. LineStart(p + CRT_COLS) = (Row(p) + 1) * CRT_COLS
    <3>1. p + CRT_COLS = (Row(p) + 1) * CRT_COLS + Col(p)
      BY <1>3
    <3>2. ((Row(p) + 1) * CRT_COLS + Col(p)) % CRT_COLS = Col(p)
      <4>1. Row(p) + 1 \in Nat
        BY <1>3
      <4> QED
        BY <1>3, <4>1, Quotient
    <3> QED
      BY <1>3, <3>1, <3>2 DEF LineStart
  <2> HIDE DEF T
  <2>3. T.pos = (Row(cursor) + 1) * CRT_COLS /\ T.buf = crt_buf
    BY <2>1, <2>2
  <2>4. /\ Col(cursor') = 0
        /\ Row(cursor) + 1 < CRT_ROWS => /\ Row(cursor') = Row(cursor) + 1
                                         /\ LinesOf(crt_buf') = LinesOf(crt_buf)
        /\ ~(Row(cursor) + 1 < CRT_ROWS) =>
             /\ Row(cursor') = Row(cursor)
             /\ LinesOf(crt_buf') = LinesUp(LinesOf(crt_buf), Display!Blank)
    BY <1>2, <2>3, Below
  <2>5. Display!NewLine
    BY <1>2, <2>4 DEF Display!NewLine, Display!Down, LinesOf, LinesUp, Row, Col
  <2> QED
    BY <2>5 DEF Display!Next
<1>8. CASE b = CR
  <2>1. T = [pos |-> LineStart(p), buf |-> crt_buf]
    BY <1>2, <1>8 DEF Typed, BS, NL, CR
  <2>2. LineStart(p) = Row(p) * CRT_COLS + 0
    BY <1>3 DEF LineStart, Col
  <2>3. Row(p) * CRT_COLS + 0 \in Positions /\ Row(Row(p) * CRT_COLS + 0) = Row(p)
        /\ Col(Row(p) * CRT_COLS + 0) = 0
    BY <1>3, Place
  <2>4. T.pos = Row(p) * CRT_COLS + 0 /\ T.buf = crt_buf
    BY <2>1, <2>2
  <2> HIDE DEF T
  <2>5. cursor' = Row(p) * CRT_COLS + 0 /\ crt_buf' = crt_buf
    BY <1>2, <1>4, <2>3, <2>4
  <2>6. Row(cursor') = Row(cursor) /\ Col(cursor') = 0
    BY <2>3, <2>5
  <2>7. Display!Return
    BY <1>2, <2>5, <2>6 DEF Display!Return, Row, Col
  <2> QED
    BY <2>7 DEF Display!Next
<1>9. CASE b = BS /\ p > 0
  <2> DEFINE cell == Cell(c, SPACE)
             d    == [crt_buf EXCEPT ![p - 1] = cell]
  <2>1. T = [pos |-> p - 1, buf |-> d]
    BY <1>2, <1>9 DEF Typed
  <2>2. cell = Display!Blank
    <3>1. c \in Byte
      BY <1>1, <1>9 DEF LowByte, BS, Byte
    <3> QED
      BY <3>1 DEF Cell, Display!Blank, Display!Space, SPACE
  <2>3. p - 1 \in Positions
    BY <1>2, <1>9, SizeFacts DEF Positions
  <2>4. LinesOf(d) = [LinesOf(crt_buf) EXCEPT ![Row(p - 1)][Col(p - 1)] = cell]
    BY <1>2, <2>3, Written
  <2> HIDE DEF T, d, cell
  <2>5. cursor' = p - 1 /\ crt_buf' = d
    <3>1. T.pos = p - 1 /\ T.buf = d
      BY <2>1
    <3> QED
      BY <1>2, <1>4, <2>3, <3>1
  <2>6. LinesOf(crt_buf') = [LinesOf(crt_buf) EXCEPT ![Row(cursor')][Col(cursor')] = Display!Blank]
    BY <2>2, <2>4, <2>5
  <2>7. /\ Row(p) > 0 \/ Col(p) > 0
        /\ Row(cursor') = IF Col(p) > 0 THEN Row(p) ELSE Row(p) - 1
        /\ Col(cursor') = IF Col(p) > 0 THEN Col(p) - 1 ELSE CRT_COLS - 1
    <3>1. CASE Col(p) > 0
      <4>1. Col(p) - 1 \in 0..(CRT_COLS - 1) /\ p - 1 = Row(p) * CRT_COLS + (Col(p) - 1)
        BY <1>3, <3>1
      <4> QED
        BY <1>3, <2>5, <3>1, <4>1, Place
    <3>2. CASE ~(Col(p) > 0)
      <4>1. Row(p) > 0
        <5> SUFFICES ASSUME Row(p) = 0 PROVE FALSE
          BY <1>3
        <5>1. Row(p) * CRT_COLS = 0
          BY <1>3
        <5> QED
          BY <1>3, <1>9, <3>2, <5>1
      <4>2. Row(p) - 1 \in 0..(CRT_ROWS - 1) /\ CRT_COLS - 1 \in 0..(CRT_COLS - 1)
            /\ Row(p) - 1 \in Nat
        BY <1>3, <4>1
      <4>3. (Row(p) - 1 + 1) * CRT_COLS = (Row(p) - 1) * CRT_COLS + CRT_COLS
            /\ (Row(p) - 1) * CRT_COLS \in Nat /\ Row(p) - 1 + 1 = Row(p)
        BY <1>3, <4>2, Multiples
      <4>4. p - 1 = (Row(p) - 1) * CRT_COLS + (CRT_COLS - 1)
        BY <1>3, <3>2, <4>3
      <4> QED
        BY <1>3, <2>5, <3>2, <4>1, <4>2, <4>4, Place
    <3> QED
      BY <3>1, <3>2
  <2>8. Display!Back
    BY <1>2, <2>6, <2>7 DEF Display!Back, Row, Col, LinesOf
  <2> QED
    BY <2>8 DEF Display!Next
<1>10. CASE b \notin {TAB, BS, NL, CR}
  <2> DEFINE cell == Cell(c, b)
             d    == [crt_buf EXCEPT ![p] = cell]
  <2>0. PICK ch \in Byte, a \in {crt_attr, AllOnes} :
          ch = b /\ a = IF c \in Byte THEN crt_attr ELSE AllOnes
    BY <1>1
  <2>1. T = [pos |-> p + 1, buf |-> d]
    BY <1>2, <1>10 DEF Typed
  <2>2. cell = [ch |-> ch, attr |-> a]
    BY <2>0 DEF Cell
  <2>3. cell \in [ch : Byte, attr : Attr] /\ d \in Memory
    <3>1. cell \in [ch : Byte, attr : Attr]
      BY <1>1, CellType DEF TypeOK
    <3> QED
      BY <1>2, <3>1 DEF Memory
  <2>4. LinesOf(d) = [LinesOf(crt_buf) EXCEPT ![Row(p)][Col(p)] = [ch |-> ch, attr |-> a]]
    BY <1>2, <2>2, Written
  <2> HIDE DEF T, d, cell
  <2>5. ASSUME Col(p) + 1 < CRT_COLS PROVE Display!Show(ch, a)
    <3>1. Col(p) + 1 \in 0..(CRT_COLS - 1) /\ p + 1 = Row(p) * CRT_COLS + (Col(p) + 1)
      BY <1>3, <2>5
    <3>2. p + 1 \in Positions /\ Row(p + 1) = Row(p) /\ Col(p + 1) = Col(p) + 1
      BY <1>3, <3>1, Place
    <3>3. cursor' = p + 1 /\ crt_buf' = d
      <4>1. T.pos = p + 1 /\ T.buf = d
        BY <2>1
      <4> QED
        BY <1>2, <1>4, <3>2, <4>1
    <3>4. Row(cursor') = Row(cursor) /\ Col(cursor') = Col(cursor) + 1 /\ LinesOf(crt_buf') = LinesOf(d)
      BY <3>2, <3>3
    <3> QED
      BY <1>2, <2>4, <2>5, <3>4 DEF Display!Show, Row, Col, LinesOf
  <2>6. ASSUME ~(Col(p) + 1 < CRT_COLS) PROVE Display!Show(ch, a)
    <3>1. p + 1 = (Row(p) + 1) * CRT_COLS
      BY <1>3, <2>6
    <3>2. T.pos = (Row(cursor) + 1) * CRT_COLS /\ T.buf = d
      BY <2>1, <3>1
    <3>3. /\ Col(cursor') = 0
          /\ Row(cursor) + 1 < CRT_ROWS => /\ Row(cursor') = Row(cursor) + 1
                                           /\ LinesOf(crt_buf') = LinesOf(d)
          /\ ~(Row(cursor) + 1 < CRT_ROWS) =>
               /\ Row(cursor') = Row(cursor)
               /\ LinesOf(crt_buf') = LinesUp(LinesOf(d), Display!Blank)
      BY <1>2, <2>3, <3>2, Below
    <3> DEFINE text == [LinesOf(crt_buf) EXCEPT ![Row(p)][Col(p)] = [ch |-> ch, attr |-> a]]
    <3>4. LinesOf(d) = text
      BY <2>4
    <3> HIDE DEF text
    <3>5. Display!Down(0, text)
      <4>1. \/ /\ Row(cursor) + 1 < CRT_ROWS
               /\ Row(cursor') = Row(cursor) + 1 /\ LinesOf(crt_buf') = text
            \/ /\ ~(Row(cursor) + 1 < CRT_ROWS)
               /\ Row(cursor') = Row(cursor) /\ LinesOf(crt_buf') = LinesUp(text, Display!Blank)
        BY <3>3, <3>4
      <4> QED
        BY <3>3, <4>1 DEF Display!Down, LinesUp, Row, Col, LinesOf
    <3> QED
      BY <1>2, <2>6, <3>5 DEF Display!Show, Row, Col, LinesOf, text
  <2>7. Display!Show(ch, a)
    BY <2>5, <2>6
  <2> QED
    BY <2>7 DEF Display!Next
<1> QED
  BY <1>6, <1>7, <1>8, <1>9, <1>10

\* The cursor is where the next character goes.
Together == cursor = crt_pos

\* The linear memory of cga_putc with its scrolling test is a terminal of lines and
\* columns, for screens of every size, every text and all colours (module Terminal).
THEOREM ImplementsTerminal == Spec => TerminalSpec
<1>1. Init => Display!OnScreen /\ Together
  <2> SUFFICES ASSUME Init PROVE Display!OnScreen /\ Together
    OBVIOUS
  <2>1. cursor \in Positions
    BY DEF Init, Positions
  <2> QED
    BY <2>1, Placed DEF Init, Together, Display!OnScreen, Row, Col
<1>2. Together /\ [Next]_vars => Together'
  BY DEF Together, Next, vars, cons_putc, nested_putc, print, screen
<1>3. TypeOK /\ TypeOK' /\ Together /\ [Next]_vars => [Display!Next]_(Display!vars)
  <2> SUFFICES ASSUME TypeOK, TypeOK', Together, [Next]_vars
               PROVE  Display!Next \/ UNCHANGED Display!vars
    OBVIOUS
  <2>1. ASSUME UNCHANGED screen
        PROVE  Display!Next \/ UNCHANGED Display!vars
    <3>1. cursor' = cursor /\ crt_buf' = crt_buf /\ crt_attr' \in Attr
      BY <2>1 DEF screen, TypeOK
    <3>2. Display!Colour
      BY <3>1 DEF Display!Colour
    <3> QED
      BY <3>2 DEF Display!Next
  <2>2. CASE print
    BY <2>2, Shown DEF Together
  <2>3. CASE ~print
    BY <2>1, <2>3 DEF Next, vars, cons_putc, nested_putc, screen
  <2> QED
    BY <2>2, <2>3
<1> QED
  BY <1>1, <1>2, <1>3, TypeCorrect, PTL DEF Spec, TerminalSpec, Display!Spec

=============================================================================
