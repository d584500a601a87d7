------------------------------ MODULE Printfmt ------------------------------
(***************************************************************************)
(* Formatted output: vprintfmt of lib/printfmt.c and its callers,          *)
(* vsnprintf there and vcprintf of kern/printf.c.  One action is a case of *)
(* the switch, or one call of putch.                                       *)
(*                                                                         *)
(* A character is a string of length 1; a text of the program that is      *)
(* printed as it stands ("error ", "(null)", an error's name) is itself as *)
(* often as it has characters.  An argument list is a sequence of words of *)
(* UINTS values; a pointer is a word that numbers a string, 0 is NULL.     *)
(***************************************************************************)
EXTENDS Sequences, Strings

CONSTANTS
  UINTS,          \* the values of an unsigned int, and of an unsigned long
  Texts,          \* the strings that pointers point to, a sequence
  Unprintable,    \* characters below ' ' or above '~'
  MaxBuf          \* a bound: the memory around vsnprintf's buffer

\* None if many is not positive.
Times(char, many) == [k \in 1..(IF many > 0 THEN many ELSE 0) |-> char]

MAXERROR == 7
error_string == <<Times("unspecified error", 17), Times("bad environment", 15),
                  Times("invalid parameter", 17), Times("out of memory", 13),
                  Times("out of environments", 19), Times("segmentation fault", 18)>>
E_INVAL == 3

ErrorText == Times("error ", 6)
NullText  == Times("(null)", 6)

\* A word has a bit for the sign.
ASSUME PrintfmtAssumption ==
  /\ UINTS \in Nat /\ UINTS > 1 /\ UINTS % 2 = 0 /\ MaxBuf \in Nat
  /\ Texts \in Seq(Seq(STRING))

VARIABLES
  fmt, fp,        \* the format, and the pointer into it
  args, ap,       \* the argument list, and the next of its words
  padc, width, precision, lflag, altflag,
  todo,           \* the characters that putch is called with next
  fpc,            \* "text", "switch"; "returned"; "wild": reads outside error_string
  sink,           \* "vsnprintf" or "vcprintf", whose function putch is
  buf, size,      \* vsnprintf's buf, where memory begins or NULL, and its n
  cell, b, cnt,   \* memory from buf on; struct sprintbuf: b.buf is an offset from buf
  ret,
  text            \* history: what putch was called with

directive == <<padc, width, precision, lflag, altflag>>
buffer    == <<cell, b, cnt>>
print     == <<fmt, fp, args, ap, directive, todo, fpc, sink, buf, size, buffer, ret, text>>

-----------------------------------------------------------------------------
(* Numbers *)

Digits == <<"0", "1", "2", "3", "4", "5", "6", "7", "8", "9", "a", "b", "c", "d", "e", "f">>

\* A slip: the width is not reduced for the digits.
printnum_Wide(number, base, wide, pad) ==
  LET num[k \in Nat] == [w \in Int |->
        (IF k >= base THEN num[k \div base][w] ELSE Times(pad, w - 1)) \o <<Digits[(k % base) + 1]>>]
  IN  num[number][wide]

printnum(number, base, wide, pad) ==
  LET num[k \in Nat] == [w \in Int |->
        (IF k >= base THEN num[k \div base][w - 1] ELSE Times(pad, w - 1))
          \o <<Digits[(k % base) + 1]>>]
  IN  num[number][wide]

\* A long long is two words, the low one first.
Words   == IF lflag >= 2 THEN 2 ELSE 1
getuint == IF lflag >= 2 THEN args[ap] + UINTS * args[ap + 1] ELSE args[ap]
getint  == Signed(getuint, IF lflag >= 2 THEN UINTS * UINTS ELSE UINTS)
int     == Signed(args[ap], UINTS)

-----------------------------------------------------------------------------
(* vprintfmt *)

Char(k) == IF k \in 1..Len(fmt) THEN fmt[k] ELSE "NUL"
ch      == Char(fp)
At(state) == fpc = state /\ todo = <<>>

Same(rest) == UNCHANGED <<fmt, args, sink, buf, size, buffer, ret, text, rest>>

plain ==
  /\ At("text") /\ ch \notin {"%", "NUL"}
  /\ todo' = <<ch>> /\ fp' = fp + 1
  /\ Same(<<ap, directive, fpc>>)

percent ==
  /\ At("text") /\ ch = "%"
  /\ padc' = " " /\ width' = -1 /\ precision' = -1 /\ lflag' = 0 /\ altflag' = FALSE
  /\ fpc' = "switch" /\ fp' = fp + 1
  /\ Same(<<ap, todo>>)

Case(chars) == At("switch") /\ ch \in chars
reswitch    == fp' = fp + 1 /\ Same(<<ap, todo, fpc>>)

pad == /\ Case({"-", "0"})
       /\ padc' = ch /\ reswitch
       /\ UNCHANGED <<width, precision, lflag, altflag>>

\* The first number is the width, the next ones the precision.
process_precision(number) ==
  IF width < 0 THEN width' = number /\ precision' = -1 ELSE precision' = number /\ UNCHANGED width

Decimal == {"0", "1", "2", "3", "4", "5", "6", "7", "8", "9"}

DigitOf(char) == CHOOSE n \in 0..9 : Digits[n + 1] = char

\* All the digits there are.
digits ==
  /\ Case(Decimal \ {"0"})
  /\ \E many \in 1..Len(fmt) :
       /\ \A k \in fp..(fp + many - 1) : Char(k) \in Decimal
       /\ Char(fp + many) \notin Decimal
       /\ LET value[k \in 0..many] ==
                IF k = 0 THEN 0 ELSE 10 * value[k - 1] + DigitOf(Char(fp + k - 1))
          IN  process_precision(value[many])
       /\ fp' = fp + many
  /\ Same(<<ap, todo, fpc>>)
  /\ UNCHANGED <<padc, lflag, altflag>>

star == /\ Case({"*"})
        /\ process_precision(int)
        /\ ap' = ap + 1 /\ fp' = fp + 1
        /\ Same(<<todo, fpc>>)
        /\ UNCHANGED <<padc, lflag, altflag>>

dot == /\ Case({"."})
       /\ width' = IF width < 0 THEN 0 ELSE width
       /\ reswitch /\ UNCHANGED <<padc, precision, lflag, altflag>>

\* A slip: the flag is read again.
sharp_Again == /\ Case({"#"}) /\ altflag' = TRUE
               /\ UNCHANGED <<fmt, fp, args, ap, padc, width, precision, lflag, todo, fpc, sink,
                              buf, size, buffer, ret, text>>

sharp == /\ Case({"#"})
         /\ altflag' = TRUE
         /\ reswitch /\ UNCHANGED <<padc, width, precision, lflag>>

long == /\ Case({"l"})
        /\ lflag' = lflag + 1
        /\ reswitch /\ UNCHANGED <<padc, width, precision, altflag>>

\* A directive ends: its text is printed, so many words of the arguments are used up.
Prints(chars, words) ==
  /\ todo' = chars /\ ap' = ap + words
  /\ fp' = fp + 1 /\ fpc' = "text"
  /\ Same(directive)

char == Case({"c"}) /\ Prints(<<Texts[args[ap]][1]>>, 1)

\* -err is err again for the smallest int.
error ==
  /\ Case({"e"})
  /\ LET err == IF int < 0 THEN Signed(-int, UINTS) ELSE int
     IN  IF err < 0 THEN fpc' = "wild" /\ Same(<<fp, ap, directive, todo>>)
         ELSE IF err >= MAXERROR \/ err = 0
         THEN Prints(ErrorText \o printnum(err, 10, -1, " "), 1)
         ELSE Prints(error_string[err], 1)

\* The string, padded on the left by its own length as far as the precision goes; what
\* then remains of the width is blanks on the right.
string ==
  /\ Case({"s"})
  /\ LET p     == IF args[ap] = 0 THEN NullText ELSE Texts[args[ap]]
         shown == IF precision < 0 \/ precision > Len(p) THEN p ELSE SubSeq(p, 1, precision)
         left  == IF width > 0 /\ padc # "-" THEN width - Len(shown) ELSE 0
         right == (IF width > 0 /\ padc # "-" THEN 0 ELSE width) - Len(shown)
     IN  Prints(Times(padc, left)
                  \o [k \in 1..Len(shown) |->
                        IF altflag /\ shown[k] \in Unprintable THEN "?" ELSE shown[k]]
                  \o Times(" ", right), 1)

number(sign, value, base, words) ==
  Prints(sign \o printnum(value, base, width, padc), words)

numeric ==
  \/ Case({"d"}) /\ IF getint < 0 THEN number(<<"-">>, -getint, 10, Words)
                                  ELSE number(<<>>, getint, 10, Words)
  \/ Case({"u"}) /\ number(<<>>, getuint, 10, Words)
  \/ Case({"o"}) /\ number(<<>>, getuint, 8, Words)
  \/ Case({"x"}) /\ number(<<>>, getuint, 16, Words)
  \/ Case({"p"}) /\ number(<<"0", "x">>, args[ap], 16, 1)

escaped == Case({"%"}) /\ Prints(<<"%">>, 0)

Known == {"-", "*", ".", "#", "l", "c", "e", "s", "d", "u", "o", "x", "p", "%"} \cup Decimal

\* Back to just after the directive's %, which is printed; the rest is then text.
unknown ==
  /\ At("switch") /\ ch \notin Known
  /\ todo' = <<"%">>
  /\ \E k \in 1..(fp - 1) : /\ fmt[k] = "%" /\ \A j \in (k + 1)..(fp - 1) : fmt[j] # "%"
                            /\ fp' = k + 1
  /\ fpc' = "text"
  /\ Same(<<ap, directive>>)

\* vsnprintf ends the buffer.  vcprintf's putch counts by *cnt++, which is the
\* pointer's own increment, so it returns the 0 it has begun with.
return ==
  /\ At("text") /\ ch = "NUL"
  /\ fpc' = "returned"
  /\ IF sink = "vsnprintf" THEN cell' = [cell EXCEPT ![b] = "NUL"] /\ ret' = cnt
                           ELSE ret' = 0 /\ UNCHANGED cell
  /\ UNCHANGED <<fmt, fp, args, ap, directive, todo, sink, buf, size, b, cnt, text>>

vprintfmt == \/ plain \/ percent \/ pad \/ digits \/ star \/ dot \/ sharp \/ long \/ char
             \/ error \/ string \/ numeric \/ escaped \/ unknown \/ return

-----------------------------------------------------------------------------
(* putch *)

Passed == /\ todo # <<>>
          /\ todo' = Tail(todo) /\ text' = Append(text, Head(todo))
          /\ UNCHANGED <<fmt, fp, args, ap, directive, fpc, sink, buf, size, ret>>

\* A slip: ebuf is the end of the buffer.
sprintputch_Full ==
  /\ sink = "vsnprintf" /\ Passed
  /\ cnt' = cnt + 1
  /\ IF b < size THEN cell' = [cell EXCEPT ![b] = Head(todo)] /\ b' = b + 1
                 ELSE UNCHANGED <<cell, b>>

sprintputch ==
  /\ sink = "vsnprintf" /\ Passed
  /\ cnt' = cnt + 1
  /\ IF b < size - 1 THEN cell' = [cell EXCEPT ![b] = Head(todo)] /\ b' = b + 1
                     ELSE UNCHANGED <<cell, b>>

\* cputchar, and a count that is not kept.
putch == sink = "vcprintf" /\ Passed /\ UNCHANGED buffer

-----------------------------------------------------------------------------

Old == "old"        \* what memory held

\* Nothing is printed to no buffer, or to one without room.
Refused == sink = "vsnprintf" /\ (buf = NULL \/ size < 1)

\* vsnprintf and vcprintf are called.
Called ==
  /\ fp = 1 /\ ap = 1 /\ padc = " " /\ width = -1 /\ precision = -1 /\ lflag = 0 /\ altflag = FALSE
  /\ todo = <<>> /\ text = <<>>
  /\ cell = [k \in 0..MaxBuf |-> Old] /\ b = 0 /\ cnt = 0
  /\ IF Refused THEN fpc = "returned" /\ ret = -E_INVAL ELSE fpc = "text" /\ ret = 0

PrintNext == vprintfmt \/ sprintputch \/ putch

PrintSpec == (Called /\ size \in Int /\ size <= MaxBuf + 1) /\ [][PrintNext]_print

-----------------------------------------------------------------------------
(* Properties *)

\* vsnprintf never writes outside the buffer it was given, always leaves a string in
\* it, of as much of the text as there is room for, and returns the length of all of
\* it, however long the text was; given no buffer, or no room in it, it writes nothing
\* and says so.
Truncated ==
  /\ \A k \in 0..MaxBuf : k >= size \/ buf = NULL => cell[k] = Old
  /\ b = 0 \/ b < size
  /\ Refused => fpc = "returned" /\ ret = -E_INVAL
  /\ sink = "vsnprintf" /\ fpc = "returned" /\ ~Refused =>
       LET fits == IF Len(text) < size THEN Len(text) ELSE size - 1
       IN  /\ \A k \in 0..(fits - 1) : cell[k] = text[k + 1]
           /\ cell[fits] = "NUL"
           /\ ret = Len(text)

=============================================================================
