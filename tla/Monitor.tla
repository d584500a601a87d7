------------------------------ MODULE Monitor ------------------------------
(***************************************************************************)
(* The kernel monitor: readline (lib/readline.c) edits a line in its       *)
(* static buffer, runcmd (kern/monitor.c) cuts the same buffer into        *)
(* arguments in place and looks the command up, and monitor goes round.    *)
(*                                                                         *)
(* Keys are the values getchar returns, 1..255.  One action is one key     *)
(* read, or one turn of a loop of runcmd.  What getchar and the commands   *)
(* never do is left out: readline's read error (c < 0, readline.c:19-21),  *)
(* hence monitor's test for NULL, and its end after a command that returns *)
(* less than 0 (monitor.c:154-156).                                        *)
(***************************************************************************)
EXTENDS Naturals, Sequences

CONSTANTS
  BUFLEN, MAXARGS,
  Keys,        \* what is typed
  Commands,    \* the names in the command table, each a sequence of characters
  Leftovers    \* what readline's buf may hold before anything has been typed

Byte == 0..255

ASSUME MonitorAssumption ==
  /\ BUFLEN \in Nat \ {0} /\ MAXARGS \in Nat \ {0}
  /\ Keys \subseteq 1..255
  /\ Commands \subseteq Seq(1..255) \ {<<>>}
  /\ Leftovers \subseteq [0..(BUFLEN - 1) -> Byte]

VARIABLES
  buf,       \* static char buf[BUFLEN] of readline
  i,         \* readline's count of characters
  shown,     \* the line on the console after the prompt (external)
  pc,        \* "read", "gobble", "scan", "lookup", "command"
  p,         \* runcmd's buf: an index into buf
  argc, argv,
  line       \* history: the line as it stood when Enter was pressed

vars == <<buf, i, shown, pc, p, argc, argv, line>>

BS    == 8
DEL   == 127
Enter == {10, 13}
WHITESPACE == {9, 13, 10, 32}

Init == /\ buf \in Leftovers
        /\ i = 0 /\ shown = <<>> /\ pc = "read" /\ p = 0
        /\ argc = 0 /\ argv = <<>> /\ line = <<>>

-----------------------------------------------------------------------------
(* readline *)

Room_All == i < BUFLEN               \* a slip: no room kept for the NUL

Room == i < BUFLEN - 1

\* cputchar of a character to echo: \b takes the last one back.
Echo(c) == shown' = IF c = BS THEN SubSeq(shown, 1, Len(shown) - 1) ELSE Append(shown, c)

\* A slip: the character stays on the console.
Erase_Unseen(c) ==
  /\ c \in {BS, DEL} /\ i > 0
  /\ i' = i - 1
  /\ UNCHANGED <<buf, shown, pc, p, argc, argv, line>>

Erase(c) ==
  /\ c \in {BS, DEL} /\ i > 0
  /\ Echo(BS)
  /\ i' = i - 1
  /\ UNCHANGED <<buf, pc, p, argc, argv, line>>

\* Whatever else is not a control character is entered while there is room, a DEL
\* at the start of the line as well.
Enters(c) ==
  /\ ~(c \in {BS, DEL} /\ i > 0)
  /\ c >= 32 /\ Room
  /\ Echo(c)
  /\ buf' = [buf EXCEPT ![i] = c]
  /\ i' = i + 1
  /\ UNCHANGED <<pc, p, argc, argv, line>>

\* A slip: the line is not ended.
Ends_Open(c) ==
  /\ c \in Enter
  /\ line' = shown
  /\ pc' = "gobble" /\ p' = 0 /\ argc' = 0 /\ argv' = <<>>
  /\ UNCHANGED <<buf, i, shown>>

\* The line is ended and handed to runcmd.
Ends(c) ==
  /\ c \in Enter
  /\ buf' = [buf EXCEPT ![i] = 0]
  /\ line' = shown
  /\ pc' = "gobble" /\ p' = 0 /\ argc' = 0 /\ argv' = <<>>
  /\ UNCHANGED <<i, shown>>

readline(c) == pc = "read" /\ (Erase(c) \/ Enters(c) \/ Ends(c))

-----------------------------------------------------------------------------
(* runcmd *)

\* runcmd returns 0: monitor shows the prompt again.  What was runcmd's own is gone.
Prompt ==
  /\ pc' = "read" /\ i' = 0 /\ shown' = <<>>
  /\ p' = 0 /\ argc' = 0 /\ argv' = <<>> /\ line' = <<>>
  /\ UNCHANGED buf

gobble ==
  /\ pc = "gobble" /\ buf[p] \in WHITESPACE
  /\ buf' = [buf EXCEPT ![p] = 0]
  /\ p' = p + 1
  /\ UNCHANGED <<i, shown, pc, argc, argv, line>>

\* A slip: runcmd complains and does not return.
too_many_Stays ==
  /\ pc = "gobble" /\ buf[p] \notin WHITESPACE \cup {0}
  /\ argc = MAXARGS - 1
  /\ UNCHANGED vars

too_many ==
  /\ pc = "gobble" /\ buf[p] \notin WHITESPACE \cup {0}
  /\ argc = MAXARGS - 1
  /\ Prompt

next_arg ==
  /\ pc = "gobble" /\ buf[p] \notin WHITESPACE \cup {0}
  /\ argc # MAXARGS - 1
  /\ argv' = Append(argv, p)
  /\ argc' = argc + 1
  /\ pc' = "scan"
  /\ UNCHANGED <<buf, i, shown, p, line>>

scan ==
  /\ pc = "scan"
  /\ IF buf[p] \notin WHITESPACE \cup {0} THEN p' = p + 1 /\ UNCHANGED pc
                                          ELSE pc' = "gobble" /\ UNCHANGED p
  /\ UNCHANGED <<buf, i, shown, argc, argv, line>>

end_of_line ==
  /\ pc = "gobble" /\ buf[p] = 0
  /\ pc' = "lookup"
  /\ UNCHANGED <<buf, i, shown, p, argc, argv, line>>

\* The C string at index a.
CString(a) ==
  LET end == CHOOSE e \in a..(BUFLEN - 1) : buf[e] = 0 /\ \A k \in a..(e - 1) : buf[k] # 0
  IN  [k \in 1..(end - a) |-> buf[a + k - 1]]

Args == [k \in 1..argc |-> CString(argv[k])]

\* The command whose name is the first argument is called, if there is one.
lookup ==
  /\ pc = "lookup"
  /\ IF argc # 0 /\ Args[1] \in Commands
     THEN pc' = "command" /\ UNCHANGED <<buf, i, shown, p, argc, argv, line>>
     ELSE Prompt

\* Every command returns 0.
command == pc = "command" /\ Prompt

parse  == gobble \/ too_many \/ next_arg \/ scan \/ end_of_line \/ lookup
runcmd == parse \/ command

Next == (\E c \in Keys : readline(c)) \/ runcmd

Spec == Init /\ [][Next]_vars

-----------------------------------------------------------------------------
(* Properties *)

\* No index leaves buf or argv, whatever is typed: the NUL at the end of the line
\* stops runcmd, and argv has room for its own NUL.
TypeOK ==
  /\ buf \in [0..(BUFLEN - 1) -> Byte]
  /\ i \in 0..(BUFLEN - 1) /\ p \in 0..(BUFLEN - 1)
  /\ shown \in Seq(Byte) /\ line \in Seq(Byte)
  /\ pc \in {"read", "gobble", "scan", "lookup", "command"}
  /\ argc \in 0..(MAXARGS - 1) /\ argv \in Seq(0..(BUFLEN - 1)) /\ Len(argv) = argc

\* What the console shows after the prompt is what the buffer holds, so the line
\* entered is the line seen, after any mixture of typing, erasing and overrunning
\* the buffer.
Seen == pc = "read" => shown = [k \in 1..i |-> buf[k - 1]]

\* The words of a text: its maximal runs of characters that are not white space.
Starts(t) == {k \in 1..Len(t) : t[k] \notin WHITESPACE /\ (k = 1 \/ t[k - 1] \in WHITESPACE)}
WordAt(t, k) ==
  LET Inside(e) == \A j \in k..e : t[j] \notin WHITESPACE
      end == CHOOSE e \in k..Len(t) : Inside(e) /\ ~(e < Len(t) /\ Inside(e + 1))
  IN  SubSeq(t, k, end)
WordSet(t) == {<<k, WordAt(t, k)>> : k \in Starts(t)}

\* The arguments a command gets are the words of the line just entered, in order,
\* and nothing of an earlier line left in the static buffer or of the zeros runcmd
\* has written over it.
ArgsAreWords ==
  pc \in {"lookup", "command"} =>
                   /\ {<<argv[k] + 1, Args[k]>> : k \in 1..argc} = WordSet(line)
                   /\ \A j, k \in 1..argc : j < k => argv[j] < argv[k]

\* Every line entered is answered with a new prompt.
Answered == pc # "read" ~> pc = "read"

=============================================================================
