--------------------------------- MODULE Lib ---------------------------------
(***************************************************************************)
(* The library by one call at a time: formatted output to a buffer, or     *)
(* through cputchar to a port (module TxPort); a function that writes      *)
(* memory; and the functions that read it, on the memory there is.         *)
(***************************************************************************)
EXTENDS TxPort, StringCopy, Directives, FiniteSets

CONSTANTS
  Formats,      \* calls of formatted output: where to, buffer and size, the items of the format
  Memories,     \* contents of memory for the functions that only read,
  Numerals,     \*   and for strtol
  Places, Sizes, Chars, Bases,   \* what those are called with
  Copies        \* calls of the functions that write, with the memory they find

\* No call is given more room than there is, and its format is one that a programmer
\* writes; strings end; and the callers of the functions that write see to what those
\* need (module StringCopy).
ASSUME LibAssumption ==
  /\ \A f \in Formats : /\ f.size \in Int /\ f.size <= MaxBuf + 1
                         /\ f.sink \in {"vsnprintf", "vcprintf"} /\ f.buf \in {0, NULL}
  /\ \A f \in Formats : Len(f.items) \in Nat /\ \A k \in 1..Len(f.items) : Proper(f.items[k])
  /\ Memories \subseteq [Address -> Byte] /\ Numerals \subseteq [Address -> Byte]
  /\ \A m \in Memories : \A p \in Places : \E k \in 0..N : HasLength(m, p, k)
  /\ \A m \in Numerals : \E k \in 0..N : HasLength(m, 0, k)
  /\ Places \subseteq Address /\ Sizes \subseteq Nat /\ Chars \subseteq Byte
  /\ \A p \in Places, k \in Sizes : p + k <= N
  /\ Bases \subseteq {0} \cup 2..36
  /\ \A k \in Copies : Fitting(k)

VARIABLE
  items         \* history: what the format was written from

lib == <<port, copy, print, items>>

\* A sequence of sequences, one after the other.
Joined(ss) == LET all[k \in 0..Len(ss)] == IF k = 0 THEN <<>> ELSE all[k - 1] \o ss[k] IN all
Concat(ss) == Joined(ss)[Len(ss)]

-----------------------------------------------------------------------------

Formatting(call_) ==
  /\ items = call_.items /\ sink = call_.sink /\ buf = call_.buf /\ size = call_.size
  /\ fmt = Concat([k \in 1..Len(items) |-> Spelled(items[k])])
  /\ args = Concat([k \in 1..Len(items) |-> ArgumentWords(items[k])])
  /\ Called

NoFormatting == Formatting([sink |-> "vsnprintf", buf |-> NULL, size |-> 0, items |-> <<>>])

\* No function that writes is called, but memory can be read.
NoCopying(memory, by_) ==
  /\ mem = memory /\ mem0 = memory /\ fn = by_ /\ dst = 0 /\ src = 0 /\ n = 0 /\ c = 0
  /\ d = 0 /\ s = 0 /\ left = 0 /\ by = 1 /\ back = FALSE /\ at = "returned"

Zeros == [a \in Address |-> 0]

LibInit ==
  /\ PortInit
  /\ \/ (\E f \in Formats : Formatting(f)) /\ NoCopying(Zeros, "none")
     \/ (\E m \in Memories : NoCopying(m, "readers")) /\ NoFormatting
     \/ (\E m \in Numerals : NoCopying(m, "strtol")) /\ NoFormatting
     \/ /\ NoFormatting
        /\ \E k \in Copies : /\ mem = k.mem /\ fn = k.fn /\ dst = k.dst /\ src = k.src
                             /\ n = k.n /\ c = k.c
        /\ Enter

\* cputchar (module ConsOut) writes to the port, which waits for it.
begin_putch == /\ sink = "vcprintf" /\ todo # <<>> /\ putc
               /\ UNCHANGED <<copy, print, items>>
end_putch   == write /\ putch /\ UNCHANGED <<copy, items>>
wait        == delay /\ UNCHANGED <<copy, print, items>>

Library == \/ vprintfmt /\ UNCHANGED <<port, copy, items>>
           \/ sprintputch /\ UNCHANGED <<port, copy, items>>
           \/ begin_putch \/ wait \/ end_putch
           \/ CopyNext /\ UNCHANGED <<port, print, items>>

\* The device works on.
Device == work /\ UNCHANGED <<copy, print, items>>

LibNext == Library \/ Device

\* The processor goes on; the device need not.
LibSpec == LibInit /\ [][LibNext]_lib /\ WF_lib(Library)

-----------------------------------------------------------------------------
(* Properties *)

\* A format has been read to its end, and what it means.
Formatted == fpc = "returned" /\ fmt # <<>> /\ ~Refused
Meaning   == Concat([k \in 1..Len(items) |-> Meant(items[k])])

\* What is printed is what the format means, for every combination of flags, width,
\* precision and length, with the arguments taken in step, unless a directive of it is
\* disputed: padding on the right, which numbers do not get.  Only an error that is the
\* smallest int leads outside the table.
TextAsMeant ==
  /\ fpc = "wild" => \E k \in 1..Len(items) : Nameless(items[k])
  /\ Formatted /\ (\A k \in 1..Len(items) : ~Disputed(items[k])) => text = Meaning

\* The "flag to pad on the right" of lib/printfmt.c:107 pads every directive that can be
\* padded on the right, as the disputed ones mean it too.
MinusPadsRight == Formatted => text = Meaning

\* Formatted output returns, though a directive that is not one sends it back in the
\* format and though the port may never be ready again.
FormatReturns == <>(fpc \in {"returned", "wild"})

\* The string at an address, and its order.
StringAt(a) == [j \in 1..Length(mem, a) |-> mem[a + j - 1]]
First(t, k) == SubSeq(t, 1, IF k < Len(t) THEN k ELSE Len(t))
Less(t, u)  == \E k \in 1..Len(u) : /\ \A j \in 1..(k - 1) : j <= Len(t) /\ t[j] = u[j]
                                    /\ k > Len(t) \/ t[k] < u[k]
Orders(cmp, t, u) == /\ cmp < 0 <=> Less(t, u)
                     /\ cmp > 0 <=> Less(u, t)
                     /\ cmp = 0 <=> t = u

Least(S) == CHOOSE a \in S : \A e \in S : a <= e

\* Comparing and searching agree with the order and the contents of the strings, taken
\* as unsigned characters, and read nothing after what decides.
Readers(p, q, k, char_) ==
  LET t     == StringAt(p)
      u     == StringAt(q)
      Bytes_(a) == [j \in 1..k |-> mem[a + j - 1]]
      there == {a \in p..(p + Len(t) - 1) : mem[a] = char_}
      within == {a \in p..(p + k - 1) : mem[a] = char_}
  IN  /\ strlen(mem, p) = Len(t) /\ strnlen(mem, p, k) = Len(First(t, k))
      /\ Orders(strcmp(mem, p, q), t, u)
      /\ Orders(strncmp(mem, p, q, k), First(t, k), First(u, k))
      /\ Orders(memcmp(mem, p, q, k), Bytes_(p), Bytes_(q))
      /\ strchr(mem, p, char_) = IF there = {} THEN NULL ELSE Least(there)
      /\ strfind(mem, p, char_) = IF there = {} THEN p + Len(t) ELSE Least(there)
      /\ memfind(mem, p, char_, k) = IF within = {} THEN p + k ELSE Least(within)

\* What strtol reads, in a string: up to where there are blanks, and digits of a base from
\* a place on; and what those are worth.
CharAt(t, k) == IF k <= Len(t) THEN t[k] ELSE 0
Blanks(t) == Least({k \in 0..Len(t) : CharAt(t, k + 1) \notin {SPACE, TAB}})
DigitsEnd(t, from, radix) == Least({k \in from..Len(t) : dig(CharAt(t, k + 1)) >= radix})
Worth(t, from, many, radix) ==
  LET sum[k \in 0..many] ==
        IF k = 0 THEN 0 ELSE sum[k - 1] + dig(t[from + k]) * Power(radix, many - k)
  IN  sum[many]

\* strtol reads blanks, a sign, a prefix and the longest run of digits of its base; the
\* value is theirs, as far as a long holds it.
LongRead(base) ==
  LET t      == StringAt(0)
      sign   == CharAt(t, Blanks(t) + 1)
      o      == Blanks(t) + (IF sign \in {PLUS, MINUS} THEN 1 ELSE 0)
      hex    == base \in {0, 16} /\ CharAt(t, o + 1) = ZERO /\ CharAt(t, o + 2) = LowerX
      octal  == base = 0 /\ ~hex /\ CharAt(t, o + 1) = ZERO
      radix  == IF hex THEN 16 ELSE IF octal THEN 8 ELSE IF base = 0 THEN 10 ELSE base
      from   == o + (IF hex THEN 2 ELSE IF octal THEN 1 ELSE 0)
      to     == DigitsEnd(t, from, radix)
      worth  == Worth(t, from, to - from, radix)
  IN  strtol(mem, 0, base, UINTS) = <<Signed(IF sign = MINUS THEN -worth ELSE worth, UINTS), to>>

\* The functions that only read memory agree with what they are for, as Readers and
\* LongRead say it, at every boundary: equal beginnings, empty strings, no room left,
\* characters above 127, prefixes without digits.
ReadersAgree ==
  /\ fn = "readers" =>
       \A p, q \in Places : \A k \in Sizes : \A char_ \in Chars : Readers(p, q, k, char_)
  /\ fn = "strtol" => \A base \in Bases : LongRead(base)

=============================================================================
