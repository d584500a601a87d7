------------------------------- MODULE MCKbd -------------------------------
(* A keyboard with both shifts, both controls, alt, a letter, Caps Lock, the *)
(* keypad's and the extended Delete key.                                     *)
EXTENDS Kbd

Key(c, e) == [code |-> c, ext |-> e]

MCKeys == { Key(42, FALSE), Key(54, FALSE), Key(29, FALSE), Key(29, TRUE),
            Key(56, FALSE), Key(30, FALSE), Key(58, FALSE),
            Key(83, FALSE), Key(83, TRUE) }

=============================================================================
