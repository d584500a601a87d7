----------------------------- MODULE InputQueue -----------------------------
(***************************************************************************)
(* What the console input buffer promises its reader: characters come out  *)
(* in the order they went in, each once.  The queue holds at most          *)
(* Capacity - 1 of them; the character that would be one too many throws   *)
(* away the whole queue and itself.                                        *)
(***************************************************************************)
EXTENDS Naturals, Sequences

CONSTANTS Capacity, Char

VARIABLES queue, got      \* got: the last character handed to the reader

vars == <<queue, got>>

Init == queue = <<>> /\ got = 0

Put(c) == /\ queue' = IF Len(queue) + 1 < Capacity THEN Append(queue, c) ELSE <<>>
          /\ UNCHANGED got

Get == /\ queue # <<>>
       /\ got' = Head(queue)
       /\ queue' = Tail(queue)

\* A machine reset empties the queue.
Clear == queue' = <<>> /\ got' = 0

Next == (\E c \in Char : Put(c)) \/ Get \/ Clear

Spec == Init /\ [][Next]_vars

=============================================================================
