------------------------------- MODULE Strings -------------------------------
(***************************************************************************)
(* The functions of lib/string.c that only read memory.  Memory is a       *)
(* function from addresses to bytes; a recursive function is a loop, its   *)
(* argument how far the loop's pointers have gone.                         *)
(***************************************************************************)
EXTENDS Integers

NULL == -1         \* a null pointer, apart from every address

strlen(mem, str) ==
  LET n[i \in Nat] == IF mem[str + i] = 0 THEN i ELSE n[i + 1] IN n[0]

strnlen(mem, str, size) ==
  LET n[i \in Nat] == IF i = size \/ mem[str + i] = 0 THEN i ELSE n[i + 1] IN n[0]

strcmp(mem, p, q) ==
  LET cmp[i \in Nat] ==
        IF mem[p + i] = 0 \/ mem[p + i] # mem[q + i] THEN mem[p + i] - mem[q + i] ELSE cmp[i + 1]
  IN  cmp[0]

strncmp(mem, p, q, n) ==
  LET cmp[i \in Nat] ==
        IF i = n \/ mem[p + i] = 0 \/ mem[p + i] # mem[q + i]
        THEN IF i = n THEN 0 ELSE mem[p + i] - mem[q + i]
        ELSE cmp[i + 1]
  IN  cmp[0]

strchr(mem, str, c) ==
  LET at[i \in Nat] ==
        IF mem[str + i] \in {0, c} THEN IF mem[str + i] = 0 THEN NULL ELSE str + i ELSE at[i + 1]
  IN  at[0]

strfind(mem, str, c) ==
  LET at[i \in Nat] == IF mem[str + i] \in {0, c} THEN str + i ELSE at[i + 1] IN at[0]

memcmp(mem, s1, s2, n) ==
  LET cmp[i \in Nat] ==
        IF i = n \/ mem[s1 + i] # mem[s2 + i]
        THEN IF i = n THEN 0 ELSE mem[s1 + i] - mem[s2 + i]
        ELSE cmp[i + 1]
  IN  cmp[0]

memfind(mem, s, c, n) ==
  LET at[i \in Nat] == IF i = n \/ mem[s + i] = c % 256 THEN s + i ELSE at[i + 1] IN at[0]

-----------------------------------------------------------------------------
(* strtol *)

SPACE  == 32
TAB    == 9
PLUS   == 43
MINUS  == 45
ZERO   == 48
LowerX == 120

\* The digit a character stands for; one too large for every base if it is none.
dig(c) == IF c \in 48..57 THEN c - 48
          ELSE IF c \in 97..122 THEN c - 97 + 10
          ELSE IF c \in 65..90 THEN c - 65 + 10
          ELSE 99

\* A number as a signed one of so many values.
Signed(v, values) == ((v + values \div 2) % values) - values \div 2

\* Where the blanks end.
skipped(mem, str) ==
  LET at[i \in Nat] == IF mem[str + i] \notin {SPACE, TAB} THEN str + i ELSE at[i + 1] IN at[0]

\* A slip: octal is tried before hexadecimal.
Prefix_Octal(mem, s, base) ==
  IF base = 0 /\ mem[s] = ZERO THEN <<s + 1, 8>>
  ELSE IF base \in {0, 16} /\ mem[s] = ZERO /\ mem[s + 1] = LowerX THEN <<s + 2, 16>>
  ELSE IF base = 0 THEN <<s, 10>>
  ELSE <<s, base>>

\* Where the digits begin, and their base.
Prefix(mem, s, base) ==
  IF base \in {0, 16} /\ mem[s] = ZERO /\ mem[s + 1] = LowerX THEN <<s + 2, 16>>
  ELSE IF base = 0 /\ mem[s] = ZERO THEN <<s + 1, 8>>
  ELSE IF base = 0 THEN <<s, 10>>
  ELSE <<s, base>>

\* How many digits there are, and their value, which wraps in a long of so many values.
digit_run(mem, s, base) ==
  LET n[i \in Nat] == IF dig(mem[s + i]) >= base THEN i ELSE n[i + 1] IN n[0]

valued(mem, s, base, many, values) ==
  LET val[k \in Nat] ==
        IF k = 0 THEN 0 ELSE Signed(val[k - 1] * base + dig(mem[s + k - 1]), values)
  IN  val[many]

\* The value, and endptr.
strtol(mem, str, base, values) ==
  LET blanks == skipped(mem, str)
      sign   == mem[blanks]
      prefix == Prefix(mem, blanks + (IF sign \in {PLUS, MINUS} THEN 1 ELSE 0), base)
      many   == digit_run(mem, prefix[1], prefix[2])
      val    == valued(mem, prefix[1], prefix[2], many, values)
  IN  <<IF sign = MINUS THEN Signed(-val, values) ELSE val, prefix[1] + many>>

=============================================================================
