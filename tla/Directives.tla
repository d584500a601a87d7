----------------------------- MODULE Directives -----------------------------
(***************************************************************************)
(* What the directives of a format mean, apart from how vprintfmt reads    *)
(* them: the reference that module Lib compares it with.  An item of a     *)
(* format is plain text or a directive; Spelled and ArgumentWords give the *)
(* format and the argument list that a programmer writes for it, Meant     *)
(* what is to be printed.                                                  *)
(***************************************************************************)
EXTENDS Printfmt

\* The digits of a value: as many as it takes, each the value's share of its power.
Power(base, k) == LET power[n \in Nat] == IF n = 0 THEN 1 ELSE base * power[n - 1] IN power[k]
Numeral(v, base) ==
  LET len == CHOOSE k \in 1..(v + 1) : v < Power(base, k) /\ (k > 1 => v >= Power(base, k - 1))
  IN  [k \in 1..len |-> Digits[((v \div Power(base, len - k)) % base) + 1]]

\* A width or a precision may be given by an argument (star).
None == [given |-> FALSE, star |-> FALSE, value |-> 0]

Number(f) == IF ~f.given THEN <<>> ELSE IF f.star THEN <<"*">> ELSE Numeral(f.value, 10)
Flag(is_given, char_) == IF is_given THEN <<char_>> ELSE <<>>

PlainText(chars) == [conv |-> "text", chars |-> chars]

\* A directive from one of its parts on.
FromLong(item, many) == Times("l", many) \o <<item.conv>>
FromPrec(item)  == Number(item.prec) \o FromLong(item, item.long)
FromDot(item)   == Flag(item.prec.given, ".") \o FromPrec(item)
FromWidth(item) == Number(item.width) \o FromDot(item)
FromAlt(item)   == Flag(item.alt, "#") \o FromWidth(item)
FromZero(item)  == Flag(item.zero, "0") \o FromAlt(item)
FromMinus(item) == Flag(item.minus, "-") \o FromZero(item)

Spelled(item) == IF item.conv = "text" THEN item.chars ELSE <<"%">> \o FromMinus(item)

Starred(f) == IF f.star THEN <<f.value % UINTS>> ELSE <<>>

PrecWords(item)     == Starred(item.prec) \o item.words
ArgumentWords(item) == IF item.conv = "text" THEN <<>> ELSE Starred(item.width) \o PrecWords(item)

\* What a programmer may write: a text without a %, or a directive with a width and a
\* precision from 1 on, or by an argument any int, and with the words it takes; a
\* letter that no directive has is written too.  Numbers in the format do not wrap here:
\* in C one that no int holds has no meaning.
ProperText(chars) == chars \in Seq(STRING) \ {<<>>} /\ \A k \in DOMAIN chars : chars[k] \notin {"%", "NUL"}

ProperNumber(f) ==
  /\ f \in [given : BOOLEAN, star : BOOLEAN, value : Int]
  /\ f.star => f.given /\ f.value \in -(UINTS \div 2)..((UINTS \div 2) - 1)
  /\ f.given /\ ~f.star => f.value > 0

Integral == {"d", "u", "o", "x"}
Unknown(conv) == conv \in STRING \ (Known \cup {"text", "NUL"})

Takes(conv, long_, words) ==
  \/ conv \in Integral /\ Len(words) = (IF long_ >= 2 THEN 2 ELSE 1)
  \/ conv \in {"p", "e"} /\ Len(words) = 1
  \/ conv = "c" /\ Len(words) = 1 /\ words[1] \in DOMAIN Texts /\ Texts[words[1]] # <<>>
  \/ conv = "s" /\ Len(words) = 1 /\ words[1] \in {0} \cup DOMAIN Texts
  \/ (conv = "%" \/ Unknown(conv)) /\ words = <<>>

ProperDirective(item) ==
  /\ item.minus \in BOOLEAN /\ item.zero \in BOOLEAN /\ item.alt \in BOOLEAN
  /\ ProperNumber(item.width) /\ ProperNumber(item.prec) /\ item.long \in Nat
  /\ item.words \in Seq(0..(UINTS - 1)) /\ Takes(item.conv, item.long, item.words)

Proper(item) == IF item.conv = "text" THEN ProperText(item.chars) ELSE ProperDirective(item)

\* The flags are "to pad on the right" and "to pad with 0's instead of spaces": on the
\* right of a number zeros would be digits, so there it is blanks.
Field(item) == IF item.width.given THEN item.width.value ELSE 0
PadChar(item) == IF item.zero THEN "0" ELSE " "
Padded(item, chars) ==
  LET many == Field(item) - Len(chars)
  IN  IF item.minus THEN chars \o Times(" ", many) ELSE Times(PadChar(item), many) \o chars

Unsigned(item) == IF Len(item.words) = 2 THEN item.words[1] + UINTS * item.words[2] ELSE item.words[1]
SignedValue(item) ==
  LET half == (IF Len(item.words) = 2 THEN UINTS * UINTS ELSE UINTS) \div 2
  IN  IF Unsigned(item) < half THEN Unsigned(item) ELSE Unsigned(item) - 2 * half

\* The sign or 0x of a number, which does not count towards the width, and its digits.
Numeric   == Integral \cup {"p"}
Negative(item) == item.conv = "d" /\ SignedValue(item) < 0
Lead(item)     == IF item.conv = "p" THEN <<"0", "x">> ELSE IF Negative(item) THEN <<"-">> ELSE <<>>
Radix(conv)    == IF conv \in {"d", "u"} THEN 10 ELSE IF conv = "o" THEN 8 ELSE 16
Figures(item)  ==
  Numeral(IF Negative(item) THEN -SignedValue(item) ELSE Unsigned(item), Radix(item.conv))

\* The string as far as the precision goes.
Shown(item) ==
  LET str == IF item.words[1] = 0 THEN NullText ELSE Texts[item.words[1]]
      cut == IF item.prec.given /\ item.prec.value >= 0 /\ item.prec.value < Len(str)
             THEN SubSeq(str, 1, item.prec.value) ELSE str
  IN  [k \in 1..Len(cut) |-> IF item.alt /\ cut[k] \in Unprintable THEN "?" ELSE cut[k]]

MeantError(v) ==
  LET code == IF v < 0 THEN -v ELSE v
  IN  IF code \in 1..(MAXERROR - 1) THEN error_string[code]
      ELSE ErrorText \o Numeral(code, 10)

\* A directive that is not one is printed as it stands.
Meant(item) ==
  CASE item.conv = "text" -> item.chars
    [] item.conv \in Numeric -> Lead(item) \o Padded(item, Figures(item))
    [] item.conv = "c" -> <<Texts[item.words[1]][1]>>
    [] item.conv = "s" -> Padded(item, Shown(item))
    [] item.conv = "e" -> MeantError(SignedValue(item))
    [] item.conv = "%" -> <<"%">>
    [] OTHER -> Spelled(item)

\* The directives whose meaning vprintfmt does not follow: a number to be padded on the
\* right, which it pads on the left with -, and a string, if the flag 0 comes after -.
Disputed(item) ==
  /\ item.conv # "text" /\ item.minus
  /\ \/ item.conv \in Numeric /\ Field(item) > Len(Figures(item))
     \/ item.conv = "s" /\ item.zero /\ Field(item) > Len(Shown(item))

\* The one argument no meaning is given for: the smallest int as an error.
Nameless(item) == item.conv = "e" /\ SignedValue(item) = -(UINTS \div 2)

=============================================================================
