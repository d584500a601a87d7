-------------------------------- MODULE MCLib --------------------------------
(* An int of four bits, 12 bytes of memory, a buffer of up to 24 characters.   *)
EXTENDS Lib

MCTexts == << <<"a">>, <<"b", "^", "c">>, <<>>, <<"d", "e", "f", "g">> >>

Value(v) == [given |-> TRUE, star |-> FALSE, value |-> v]
Star(v)  == [given |-> TRUE, star |-> TRUE, value |-> v]

Directive(conv, minus, zero, alt, wide, prec, long_, words) ==
  [conv |-> conv, minus |-> minus, zero |-> zero, alt |-> alt, width |-> wide, prec |-> prec,
   long |-> long_, words |-> words]
Bare(conv, words) == Directive(conv, FALSE, FALSE, FALSE, None, None, 0, words)

OneWord  == {<<0>>, <<1>>, <<7>>, <<8>>, <<15>>}
TwoWords == {<<0, 0>>, <<12, 7>>, <<0, 8>>, <<15, 15>>}

Numbers(convs, longs, words) ==
  {Directive(conv, minus, zero, FALSE, wide, prec, long_, w) :
     conv \in convs, minus \in BOOLEAN, zero \in BOOLEAN,
     wide \in {None, Value(1), Value(3), Value(12), Star(4), Star(-3)}, prec \in {None, Value(2)},
     long_ \in longs, w \in words}

Singles ==
  Numbers({"d", "u", "x", "o"}, {0}, OneWord) \cup Numbers({"d", "x"}, {1}, {<<9>>})
    \cup Numbers({"d", "u"}, {2}, TwoWords) \cup Numbers({"p"}, {0}, {<<0>>, <<14>>})
    \cup {Directive("s", minus, zero, alt, wide, prec, 0, w) :
            minus \in BOOLEAN, zero \in BOOLEAN, alt \in BOOLEAN,
            wide \in {None, Value(2), Value(5), Star(4), Star(-3)},
            prec \in {None, Value(1), Value(2), Star(2), Star(-1)}, w \in {<<0>>, <<1>>, <<2>>, <<3>>}}
    \cup {Bare("e", <<w>>) : w \in 0..15} \cup {Bare("c", <<1>>), Bare("%", <<>>)}
    \cup Numbers({"q"}, {0, 1}, {<<>>})

Lines == {
  <<PlainText(<<"n", "=">>), Bare("d", <<9>>), PlainText(<<",">>), Bare("s", <<4>>), Bare("e", <<12>>)>>,
  <<Directive("d", FALSE, FALSE, FALSE, None, None, 2, <<1, 15>>), Bare("s", <<2>>), Bare("%", <<>>)>>,
  <<Directive("s", TRUE, FALSE, TRUE, Star(5), Star(2), 0, <<2>>), Bare("x", <<10>>)>>,
  <<Directive("q", FALSE, TRUE, TRUE, Value(3), None, 0, <<>>), Bare("c", <<4>>), Bare("u", <<15>>)>>}

Printed(n_, i_) == [sink |-> "vsnprintf", buf |-> 0, size |-> n_, items |-> i_]

MCFormats ==
  {Printed(n_, <<i_>>) : n_ \in {3, 24}, i_ \in Singles}
    \cup {Printed(n_, i_) : n_ \in {0, 1, 2, 5, 24}, i_ \in Lines}
    \cup {Printed(n_, <<Bare("e", <<w>>)>>) : n_ \in {19, 20}, w \in {5, 11}}
    \cup {[Printed(n_, i_) EXCEPT !.buf = NULL] : n_ \in {0, 5}, i_ \in Lines}
    \cup {[Printed(0, i_) EXCEPT !.sink = "vcprintf"] : i_ \in Lines}

\* Numbers and strings, padded on the right.
MinusFormats ==
  {Printed(24, <<Directive(conv, TRUE, FALSE, FALSE, Value(wide), None, 0, w)>>) :
     conv \in {"d", "u", "x", "o", "p", "s"}, wide \in 1..5, w \in {<<1>>, <<2>>, <<4>>}}

Filled(t, from) == [a \in Address |-> IF a \in from..(from + Len(t) - 1) THEN t[a - from + 1] ELSE 0]

MCMemories == {Filled(t, 0) : t \in [1..5 -> {0, 97, 200}]}
MCNumerals == {Filled(t, 0) : t \in [1..5 -> {0, SPACE, PLUS, MINUS, ZERO, LowerX, 55}]}

Call(f, memory, to, from, many, char_) ==
  [fn |-> f, mem |-> memory, dst |-> to, src |-> from, n |-> many, c |-> char_]

Numbered == [a \in Address |-> a + 1]

Moves == {k \in {Call(f, Numbered, to, from, many, 300) :
                   f \in {"memmove", "memcpy", "memset"}, to \in Address, from \in Address, many \in 0..N} :
            k.dst + k.n <= N /\ k.src + k.n <= N /\ (k.fn = "memset" => k.src = 0)}

\* A string of up to three characters at one end of memory, the rest of it full of
\* what was there before; for strcat, a string to append to.
Source == UNION {[1..k -> {97, 200}] : k \in 0..3}
Stale(t, from) == [a \in Address |-> IF a \in from..(from + Len(t) - 1) THEN t[a - from + 1]
                                     ELSE IF a = from + Len(t) THEN 0 ELSE 255]
StringCalls ==
  {Call(f, Stale(t, from), to, from, many, 0) :
     f \in {"strncpy", "strlcpy"}, t \in Source, from \in {0}, to \in 4..7, many \in 0..5}
    \cup {Call("strcpy", Stale(t, from), (from + 5) % N, from, 0, 0) : t \in Source, from \in {0, 7}}
    \cup {Call("strcat", [Stale(t, 8) EXCEPT ![2] = 97, ![2 + k] = 0], 2, 8, 0, 0) :
            t \in Source, k \in 0..1}

MCCopies == Moves \cup StringCalls

=============================================================================
