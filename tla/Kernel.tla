------------------------------- MODULE Kernel -------------------------------
(***************************************************************************)
(* The kernel from its first instruction to the monitor and its panics:    *)
(* entry.S (module Entry) calls i386_init (kern/init.c), which tests the   *)
(* backtrace and enters the monitor (module Monitor); mon_backtrace        *)
(* (kern/monitor.c) follows the frame pointers that gcc's calls leave on   *)
(* the boot stack; _panic (kern/init.c) enters another monitor.            *)
(*                                                                         *)
(* The C code is modelled by the call: a function occupies FNSIZE          *)
(* addresses, eip tells how far it is.  Locals are not on the stack.  Calls*)
(* that only print are left out.                                           *)
(***************************************************************************)
EXTENDS Entry, Monitor

CONSTANTS
  FNSIZE,
  ULIM,          \* below are user addresses
  buf_at,        \* the address of readline's buf
  Beyond,        \* what memory holds above the boot stack
  Function,      \* the function of each command
  MaxPanics      \* a bound: calls of _panic

\* The functions in the order they are linked, from i386_init_at on.
Functions == <<"i386_init", "_panic", "test_backtrace", "mon_backtrace",
               "exec_hidden_cases", "runcmd", "monitor">>

ASSUME KernelAssumption ==
  /\ FNSIZE \in Nat /\ FNSIZE > 4 /\ ULIM \in 0..KERNBASE /\ Beyond \in Nat /\ buf_at \in Nat
  /\ i386_init_at + FNSIZE * Len(Functions) - 1 \in Image
  /\ Function \in [Commands -> {"mon_backtrace", "exec_hidden_cases"}]
  /\ MaxPanics \in Nat

VARIABLES
  panicstr,      \* the message of the first panic; "NULL"
  ebp_b,         \* mon_backtrace's ebp
  trace,         \* what the backtrace has printed so far, frame by frame
  said,          \* the messages of panics that were printed
  calls, panics  \* history: the calls not yet returned from; the calls of _panic

machine == <<regs, calls>>

-----------------------------------------------------------------------------
(* C code as gcc compiles it (external) *)

At(f, n) == i386_init_at + n
              + FNSIZE * ((CHOOSE k \in 1..Len(Functions) : Functions[k] = f) - 1)
Start(f) == At(f, 0)

\* The name that debuginfo_eip finds for an address.
FunctionOf(a) == IF a < i386_init_at \/ a >= At("monitor", FNSIZE) THEN "entry"
                 ELSE Functions[(a - i386_init_at) \div FNSIZE + 1]

\* The word in memory at an address of the stack.
Word(a) == IF a \in esp..(bootstacktop - 1) THEN stack[bootstacktop - a] ELSE Beyond

\* A call pushes the arguments from the last to the first and the return address.
CallFrom(f, arguments, return) ==
  /\ Pushes(Append([k \in 1..Len(arguments) |-> arguments[Len(arguments) - k + 1]], return))
  /\ eip' = Start(f)
  /\ calls' = Append(calls, [fn |-> f, args |-> arguments, from |-> FunctionOf(eip)])
  /\ UNCHANGED <<ebp, cr3, cr0>>

Call(f, arguments) == CallFrom(f, arguments, eip + 1)

\* The caller takes the arguments off the stack again.
Return ==
  LET above == ebp + 2 + Len(calls[Len(calls)].args)
  IN  /\ eip' = Word(ebp + 1)
      /\ ebp' = Word(ebp)
      /\ esp' = above /\ stack' = SubSeq(stack, 1, bootstacktop - above)
      /\ calls' = SubSeq(calls, 1, Len(calls) - 1)
      /\ UNCHANGED <<cr3, cr0>>

Continue == eip' = eip + 1 /\ UNCHANGED <<ebp, esp, cr3, cr0, stack, calls>>

\* Every function begins with push %ebp; mov %esp, %ebp.
prologue ==
  /\ \E k \in 1..Len(Functions) : eip = Start(Functions[k])
  /\ Pushes(<<ebp>>) /\ ebp' = esp' /\ eip' = eip + 1
  /\ UNCHANGED <<cr3, cr0, calls>>
  /\ UNCHANGED <<vars, panicstr, ebp_b, trace, said, panics>>

-----------------------------------------------------------------------------
(* kern/init.c *)

Zeros == [k \in 0..(BUFLEN - 1) |-> 0]

\* A slip: the BSS is taken to be zero.
clear_bss_Not ==
  /\ eip = At("i386_init", 1)
  /\ Continue
  /\ UNCHANGED <<vars, panicstr, ebp_b, trace, said, panics>>

\* memset(edata, 0, end - edata): every static variable of the kernel.
clear_bss ==
  /\ eip = At("i386_init", 1)
  /\ panicstr' = "NULL" /\ buf' = Zeros
  /\ Continue
  /\ UNCHANGED <<i, shown, pc, p, argc, argv, line, ebp_b, trace, said, panics>>

call_test_backtrace ==
  /\ eip = At("i386_init", 2) /\ Call("test_backtrace", <<5>>)
  /\ UNCHANGED <<vars, panicstr, ebp_b, trace, said, panics>>

x == Word(ebp + 2)

test_backtrace ==
  /\ \/ /\ eip = At("test_backtrace", 1)
        /\ IF x > 0 THEN Call("test_backtrace", <<x - 1>>) ELSE Call("mon_backtrace", <<0, 0, 0>>)
     \/ eip = At("test_backtrace", 2) /\ Return
  /\ UNCHANGED <<vars, panicstr, ebp_b, trace, said, panics>>

\* _panic's label, to which a second panic goes at once.
dead == eip = At("_panic", 2)

\* The monitor's loop in i386_init and the one in _panic call it once, because it
\* never returns.  A new activation has locals of its own; those of a monitor below
\* are not looked at again.
call_monitor ==
  /\ eip = At("i386_init", 3) \/ dead
  /\ Call("monitor", <<0>>)
  /\ i' = 0 /\ shown' = <<>> /\ pc' = "read" /\ p' = 0 /\ argc' = 0 /\ argv' = <<>> /\ line' = <<>>
  /\ UNCHANGED <<buf, panicstr, ebp_b, trace, said, panics>>

Panic(fmt, return) ==
  /\ CallFrom("_panic", <<Beyond, Beyond, Beyond>>, return)    \* file, line, fmt
  /\ panics' = Append(panics, fmt)

fmt == panics[Len(panics)]

\* Slips: a second panic stops dead; a second one returns.
_panic_Stops ==
  /\ eip = At("_panic", 1)
  /\ IF panicstr # "NULL" THEN UNCHANGED <<regs, panicstr, said, calls>>
     ELSE panicstr' = fmt /\ said' = Append(said, fmt) /\ Continue
  /\ UNCHANGED <<vars, ebp_b, trace, panics>>
_panic_Returns ==
  /\ eip = At("_panic", 1)
  /\ IF panicstr # "NULL" THEN UNCHANGED <<panicstr, said>> /\ Return
     ELSE panicstr' = fmt /\ said' = Append(said, fmt) /\ Continue
  /\ UNCHANGED <<vars, ebp_b, trace, panics>>

_panic ==
  /\ eip = At("_panic", 1)
  /\ IF panicstr # "NULL" THEN UNCHANGED <<panicstr, said>>
     ELSE panicstr' = fmt /\ said' = Append(said, fmt)
  /\ Continue
  /\ UNCHANGED <<vars, ebp_b, trace, panics>>

-----------------------------------------------------------------------------
(* kern/monitor.c *)

\* A slip: the walk begins at the caller's frame.
read_ebp_Caller ==
  /\ eip = At("mon_backtrace", 1)
  /\ ebp_b' = Word(ebp) /\ trace' = <<>>
  /\ Continue
  /\ UNCHANGED <<vars, panicstr, said, panics>>

read_ebp ==
  /\ eip = At("mon_backtrace", 1)
  /\ ebp_b' = ebp /\ trace' = <<>>
  /\ Continue
  /\ UNCHANGED <<vars, panicstr, said, panics>>

\* One turn of mon_backtrace's loop.  debuginfo_eip panics on a user address.
backtrace ==
  LET saved == Word(ebp_b + 1)
  IN
  /\ eip = At("mon_backtrace", 2) /\ ebp_b > 0
  /\ trace' = Append(trace, [eip |-> saved, name |-> FunctionOf(saved),
                             args |-> [k \in 1..5 |-> Word(ebp_b + 1 + k)]])
  /\ IF saved < ULIM THEN /\ Panic("User address", eip + 1) /\ UNCHANGED ebp_b
                     ELSE /\ ebp_b' = Word(ebp_b)
                          /\ UNCHANGED <<machine, panics>>
  /\ UNCHANGED <<vars, panicstr, said>>

backtrace_returns ==
  /\ eip = At("mon_backtrace", 2) /\ ebp_b = 0
  /\ Return
  /\ trace' = <<>>
  /\ UNCHANGED <<vars, panicstr, ebp_b, said, panics>>

exec_hidden_cases ==
  /\ eip = At("exec_hidden_cases", 1) /\ Return
  /\ UNCHANGED <<vars, panicstr, ebp_b, trace, said, panics>>

\* External: tests that are linked in place of the empty hidden_test_cases and call
\* panic.  gcc knows that _panic does not return and has nothing follow the call,
\* which leaves the address of the next function on the stack.
hidden_panics ==
  /\ eip = At("exec_hidden_cases", 1) /\ Len(panics) < MaxPanics
  /\ Panic(IF panics = <<>> THEN "first" ELSE "later", At("exec_hidden_cases", FNSIZE))
  /\ UNCHANGED <<vars, panicstr, ebp_b, trace, said>>

monitor ==
  /\ \/ eip = At("monitor", 1) \/ eip = At("monitor", 3)
  /\ eip' = At("monitor", 2)
  /\ UNCHANGED <<ebp, esp, cr3, cr0, stack, calls>>
  /\ UNCHANGED <<vars, panicstr, ebp_b, trace, said, panics>>

\* readline returns when the line is ended.
types(c) ==
  /\ eip = At("monitor", 2)
  /\ readline(c)
  /\ IF pc' = "read" THEN UNCHANGED machine ELSE Call("runcmd", <<buf_at, 0>>)
  /\ UNCHANGED <<panicstr, ebp_b, trace, said, panics>>

runs ==
  /\ \/ /\ eip = At("runcmd", 1) /\ parse
        /\ CASE pc' = "read"    -> Return
             [] pc' = "command" -> Call(Function[Args[1]], <<argc, esp, 0>>)
             [] OTHER           -> UNCHANGED machine
     \/ eip = At("runcmd", 2) /\ command /\ Return
  /\ UNCHANGED <<panicstr, ebp_b, trace, said, panics>>

-----------------------------------------------------------------------------

kernel == <<regs, vars, panicstr, ebp_b, trace, said, calls, panics>>

\* The loader leaves whatever was in memory in the BSS, of which panicstr and readline's
\* buf are modelled; the keyboard's and the console's variables are not looked at here.
KernelInit ==
  /\ EntryInit /\ Init
  /\ panicstr \in {"NULL", "junk"} /\ ebp_b = 0 /\ trace = <<>> /\ said = <<>>
  /\ calls = <<>> /\ panics = <<>>

entry ==
  /\ EntryNext
  /\ calls' = IF Len(stack') = 1 THEN <<[fn |-> "i386_init", args |-> <<>>, from |-> "entry"]>>
                                 ELSE calls
  /\ UNCHANGED <<vars, panicstr, ebp_b, trace, said, panics>>

Processor == \/ entry \/ prologue \/ clear_bss \/ call_test_backtrace \/ test_backtrace
             \/ call_monitor \/ _panic \/ read_ebp \/ backtrace \/ backtrace_returns
             \/ exec_hidden_cases \/ hidden_panics \/ monitor \/ runs

KernelNext == Processor \/ \E c \in Keys : types(c)

\* The processor runs on; nobody need type.
KernelSpec == KernelInit /\ [][KernelNext]_kernel /\ WF_kernel(Processor)

-----------------------------------------------------------------------------
(* Properties *)

\* A backtrace tells the truth, at every depth of the recursion of test_backtrace and
\* of panics in monitors of panics: its lines are the calls not yet returned from,
\* the latest first, each with its arguments and the name of its caller, and it goes
\* down to i386_init and no further.  _panic's caller may go by another name, see
\* hidden_panics.
BacktraceTrue ==
  eip = At("mon_backtrace", 2) =>
    /\ Len(trace) <= Len(calls)
    /\ ebp_b = 0 <=> Len(trace) = Len(calls)
    /\ \A k \in 1..Len(trace) :
         LET call == calls[Len(calls) - k + 1]
         IN  /\ \A n \in 1..Len(call.args) : n <= 5 => trace[k].args[n] = call.args[n]
             /\ call.fn # "_panic" => trace[k].name = call.from

\* The comment on panicstr: of all panics, one inside another included, the first
\* one's message is printed, and nothing else.
FirstPanicSaid ==
  eip \notin {At("_panic", 0), At("_panic", 1)} =>
    said = IF panics = <<>> THEN <<>> ELSE <<panics[1]>>

AtPrompt == eip = At("monitor", 2) /\ pc = "read"

\* The comment on _panic: it "then enters the kernel monitor", from any depth.
PanicReachesMonitor == eip = Start("_panic") ~> AtPrompt

\* A panic is never returned from: nothing it interrupted goes on, whatever commands
\* its monitor runs, panics of their own included.
NoReturnFromPanic ==
  [][\A k \in 1..Len(calls) : calls[k].fn = "_panic" =>
       Len(calls') >= k /\ calls'[k] = calls[k]]_kernel

=============================================================================
