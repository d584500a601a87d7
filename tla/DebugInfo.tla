------------------------------ MODULE DebugInfo ------------------------------
(***************************************************************************)
(* debuginfo_eip of kern/kdebug.c: the file, the function and the line of  *)
(* an instruction, by three searches (module StabSearch) in the symbol     *)
(* table, each within what the one before has found.                       *)
(*                                                                         *)
(* An entry is known by its index: that stands for its n_strx, if it is a  *)
(* name, and for its n_desc, if it is a line number.                       *)
(***************************************************************************)
EXTENDS StabSearch, FiniteSetsExt

CONSTANTS
  ULIM,        \* below are user addresses, which are refused (module Kernel)
  Shapes       \* the types of the entries of the tables, from entry 0 on

N_FUN  == 36
N_SLINE == 68
N_SO   == 100
N_SOL  == 132
N_PSYM == 160

Searched == {N_FUN, N_SLINE, N_SO}

VARIABLES
  eip0, strings,             \* the address; whether the string table is in order
  lfile, rfile, lfun, rfun,  \* locals
  info, ret,
  step                       \* what is searched for

debug == <<eip0, strings, lfile, rfile, lfun, rfun, info, ret, step>>

UNKNOWN == -1                \* "<unknown>"

-----------------------------------------------------------------------------
(* The symbol table (external: the compiler and the linker) *)

Kind(i) == stabs[i].n_type
Last(S) == IF S = {} THEN -1 ELSE Max(S)

\* The function an entry belongs to, in a table whose entries are of these types.
FunctionIn(types, i) ==
  Last({j \in 0..i : types[j] = N_FUN /\ \A k \in j..i : types[k] # N_SO})

\* Entry 0 is the header of the section, which is of no type searched for, and the
\* parameters of a function come right after it.
ASSUME DebugAssumption ==
  /\ ULIM \in 1..ADDR_MAX /\ Searched \subseteq Types
  /\ \A s \in Shapes :
       /\ s \in [Index -> Types] /\ s[0] \notin Searched
       /\ \A i \in Index : s[i] = N_PSYM /\ FunctionIn(s, i) # -1 =>
            \A k \in (FunctionIn(s, i) + 1)..i : s[k] = N_PSYM

\* Files, functions and lines come in the order of the addresses where they start.  A
\* line is given relative to its function or, in an assembly file, as it is.
LaidOut(s, start) ==
  [i \in Index |->
     [n_type  |-> s[i],
      n_value |-> IF s[i] \notin Searched THEN 0
                  ELSE IF s[i] = N_SLINE /\ FunctionIn(s, i) # -1
                  THEN start[i] - start[FunctionIn(s, i)]
                  ELSE start[i]]]

Layouts(s) == {start \in [{i \in Index : s[i] \in Searched} -> ULIM..ADDR_MAX] :
                 \A i, j \in DOMAIN start : i < j => start[i] <= start[j]}

-----------------------------------------------------------------------------

\* stab_binsearch is called.
Searches(t, from, to, a) ==
  /\ type' = t /\ addr0' = a /\ left0' = from /\ right0' = to
  /\ l' = from /\ r' = to /\ addr' = a /\ any_matches' = FALSE
  /\ left' = from /\ right' = to
  /\ pc' = "loop"
  /\ UNCHANGED stabs

Returns(value) == ret' = value /\ step' = "done" /\ UNCHANGED vars

DebugInit ==
  /\ \E s \in Shapes : \E start \in Layouts(s) : stabs = LaidOut(s, start)
  /\ eip0 \in ULIM..ADDR_MAX /\ strings \in {"in order", "no terminator", "too short"}
  /\ type = N_SO /\ addr0 = eip0 /\ left0 = 0 /\ right0 = NStabs - 1
  /\ l = 0 /\ r = right0 /\ addr = addr0 /\ any_matches = FALSE
  /\ left = 0 /\ right = right0 /\ pc = "loop"
  /\ lfile = 0 /\ rfile = NStabs - 1 /\ lfun = 0 /\ rfun = 0
  /\ info = [file |-> UNKNOWN, line |-> 0, fn_name |-> UNKNOWN, fn_addr |-> eip0, fn_narg |-> 0]
  /\ ret = 0 /\ step = "start"

\* The validity check of the string table.
check ==
  /\ step = "start"
  /\ IF strings = "no terminator" THEN Returns(-1) ELSE step' = "file" /\ UNCHANGED <<vars, ret>>
  /\ UNCHANGED <<eip0, strings, lfile, rfile, lfun, rfun, info>>

search == /\ step \in {"file", "function", "line"} /\ pc = "loop"
          /\ Next
          /\ UNCHANGED debug

\* The name at an entry's n_strx, if that is within the string table.
Named(i, old) == IF strings = "too short" THEN old ELSE i

file ==
  /\ step = "file" /\ pc = "done"
  /\ IF left = 0 THEN Returns(-1) /\ UNCHANGED <<lfile, rfile, lfun, rfun>>
     ELSE /\ lfile' = left /\ rfile' = right /\ lfun' = left /\ rfun' = right
          /\ Searches(N_FUN, left, right, eip0)
          /\ step' = "function" /\ UNCHANGED ret
  /\ UNCHANGED <<eip0, strings, info>>

\* A slip: lines are searched for by their address.
function_Absolute ==
  /\ step = "function" /\ pc = "done" /\ left <= right
  /\ info' = [info EXCEPT !.fn_name = Named(left, @), !.fn_addr = stabs[left].n_value]
  /\ Searches(N_SLINE, left, right, eip0)
  /\ lfun' = left /\ rfun' = right /\ step' = "line"
  /\ UNCHANGED <<eip0, strings, lfile, rfile, ret>>

function ==
  /\ step = "function" /\ pc = "done" /\ left <= right
  /\ info' = [info EXCEPT !.fn_name = Named(left, @), !.fn_addr = stabs[left].n_value]
  /\ Searches(N_SLINE, left, right, (eip0 - stabs[left].n_value) % (ADDR_MAX + 1))
  /\ lfun' = left /\ rfun' = right /\ step' = "line"
  /\ UNCHANGED <<eip0, strings, lfile, rfile, ret>>

\* In an assembly file lines are searched for in the whole file, by their address.
no_function ==
  /\ step = "function" /\ pc = "done" /\ left > right
  /\ Searches(N_SLINE, lfile, rfile, eip0)
  /\ lfun' = left /\ rfun' = right /\ step' = "line"
  /\ UNCHANGED <<eip0, strings, lfile, rfile, info, ret>>

\* The entry that names the file a line comes from, which need not be the file of the
\* function: back from the line, but not beyond lfile.
file_name(i) ==
  Last({j \in lfile..i : Kind(j) = N_SOL \/ (Kind(j) = N_SO /\ stabs[j].n_value # 0)})

\* The parameters follow their function.
fn_narg == Cardinality({j \in (lfun + 1)..(rfun - 1) : \A k \in (lfun + 1)..j : Kind(k) = N_PSYM})

line ==
  /\ step = "line" /\ pc = "done"
  /\ IF left > right THEN Returns(-1) /\ UNCHANGED info
     ELSE /\ info' = [info EXCEPT
                !.line = left,
                !.fn_narg = fn_narg,
                !.file = IF file_name(left) >= lfile THEN Named(file_name(left), @) ELSE @]
          /\ Returns(0)
  /\ UNCHANGED <<eip0, strings, lfile, rfile, lfun, rfun>>

DebugNext == check \/ search \/ file \/ function \/ no_function \/ line

\* debuginfo_eip is not interrupted.
DebugSpec == DebugInit /\ [][DebugNext]_<<vars, debug>> /\ WF_<<vars, debug>>(DebugNext)

-----------------------------------------------------------------------------
(* Properties *)

FunctionOf(i) == FunctionIn([j \in Index |-> Kind(j)], i)
StartOf(i)    == stabs[i].n_value
                   + (IF Kind(i) = N_SLINE /\ FunctionOf(i) # -1
                      THEN stabs[FunctionOf(i)].n_value ELSE 0)
Places(t)     == {i \in Index : Kind(i) = t}

\* What a reader of the table from its first entry to its last finds: the last entry
\* of a type that starts at or below the address.
Reader(t) == Last({i \in Places(t) : StartOf(i) <= eip0})

\* Two entries in a row as in NextIsTaken, at any of the searches.
InARow == \E t \in Searched : \E i, j \in Places(t) :
            StartOf(i) = eip0 /\ StartOf(j) = eip0 + 1

\* The instruction is in a function of a file, on a line of that function.
InFunction == Reader(N_SO) # -1 /\ Reader(N_FUN) > Reader(N_SO) /\ Reader(N_SLINE) > Reader(N_FUN)

\* It is on a line of a file without functions.
InAssembly == /\ Reader(N_SO) # -1 /\ Reader(N_SLINE) > Reader(N_SO)
              /\ \A i \in Places(N_FUN) : i > Reader(N_SO) =>
                   \E j \in Places(N_SO) : Reader(N_SO) < j /\ j < i

Answers == step = "done" /\ eip0 < ADDR_MAX /\ strings = "in order" /\ ~InARow

\* The three nested searches find the line and the function the reader finds, the
\* function's parameters as well, though each search narrows the region for the next
\* and the last is relative to the function.
RightLine ==
  /\ Answers /\ InFunction =>
       /\ ret = 0 /\ info.line = Reader(N_SLINE)
       /\ info.fn_name = Reader(N_FUN) /\ info.fn_addr = stabs[Reader(N_FUN)].n_value
       /\ info.fn_narg = Cardinality({j \in Places(N_PSYM) : FunctionOf(j) = Reader(N_FUN)})
  /\ Answers /\ InAssembly =>
       ret = 0 /\ info.line = Reader(N_SLINE) /\ info.fn_name = UNKNOWN /\ info.fn_addr = eip0

\* The file is the one the table has named last before the line, an included one whose
\* code was put into the function, for example.
RightFile ==
  Answers /\ (InFunction \/ InAssembly) =>
    info.file = Last({j \in Places(N_SO) \cup Places(N_SOL) : j < Reader(N_SLINE)})

\* No other function than the one the reader finds is ever named, whether or not there
\* is one, and a line of it.
RightFunction == Answers /\ info.fn_name # UNKNOWN /\ Kind(info.fn_name) = N_FUN =>
                   info.fn_name = Reader(N_FUN)

\* The offset mon_backtrace prints, eip - eip_fn_addr, is not negative, whether or not
\* anything was found.
OffsetFits == step = "done" /\ eip0 < ADDR_MAX /\ ~InARow => info.fn_addr <= eip0

\* What mon_backtrace prints of a place is right: line, function, parameters, file and
\* offset.
RightPlace == RightLine /\ RightFile /\ RightFunction /\ OffsetFits

\* The comment in debuginfo_eip: when stab_binsearch has not returned an empty region,
\* "stabs[lfun] points to the function name", since *region_left "points to the matching
\* stab that contains" the address.  It need not: if the file has functions, but all of
\* them start above the address, the region left is not empty and begins with the
\* entry of the file, whose name is then given out for the function's.  What does hold
\* is RightFunction.
NamesFunction == info.fn_name # UNKNOWN => Kind(info.fn_name) = N_FUN

\* debuginfo_eip returns.
Answered == <>(step = "done")

=============================================================================
