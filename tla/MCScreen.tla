------------------------------ MODULE MCScreen ------------------------------
(* A small screen.  One kind of text goes to every place on it, with short   *)
(* sequences that change the colours in between; -1 is a char 0xFF that was   *)
(* sign-extended.  The other kind is long sequences, one after the other.    *)
EXTENDS ConsOut

Drawing == LET any == {65, BS, TAB, NL, CR, ESC, -1}
           IN  [plain |-> any, escaped |-> any \cup {BRACKET}, csi |-> {49, M, 65}, max |-> 1]
Colours == [plain |-> {ESC}, escaped |-> {BRACKET},
            csi |-> {ESC, BRACKET, SEMICOLON, M, 49, 51}, max |-> 4]

MCKinds == {Drawing, Colours}

=============================================================================
