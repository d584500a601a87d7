------------------------------ MODULE MCKernel ------------------------------
(* A page of 8 addresses, 32 entries a table; the kernel 16 addresses above  *)
(* where memory begins, its stack at the end of it.  Two letters, both also  *)
(* commands, a blank, a tab, both erasing keys and both ways to end a line.  *)
EXTENDS Kernel, TLC

MCKeys     == {97, 98, 32, 9, BS, DEL, 10, 13}
MCCommands == {<<97>>, <<98>>}
MCLeftovers == {[k \in 0..(BUFLEN - 1) |-> char] : char \in {0, 97}}
MCFunction == (<<97>> :> "mon_backtrace") @@ (<<98>> :> "exec_hidden_cases")

=============================================================================
