# A TLA+ verification of the JOS kernel (lab 1)

The repository is the first lab of the JOS teaching kernel for the PC: a boot
loader, the kernel's entry code and first page table, a console (keyboard, serial
line, parallel port, text screen), formatted output, a line editor and a command
monitor that can print a stack backtrace from the kernel's symbol table.

This directory models the parts of it that decide something, checks the models
with TLC on small instances, and proves the most important of their properties
for every value of the constants with TLAPS. Every definition is a translation
of the source; `PROJECT.json` ("map") says of which lines.

## 1. The system

### Components

| component | state | operations | talks to |
|---|---|---|---|
| boot loader (`boot/boot.S`, `boot/main.c`) | memory being filled, program header in progress | open A20, read header page, read segments, jump | keyboard controller, IDE disk (polled) |
| kernel entry (`kern/entry.S`, `kern/entrypgdir.c`, `inc/mmu.h`) | `cr3`, `cr0`, page directory and table, boot stack | turn paging on, move to high addresses, set the stack | processor |
| kernel start (`kern/init.c`) | `panicstr`, the stack's frames | `i386_init`, `_panic`, `_warn`, `test_backtrace` | everything below |
| hidden test command (`kern/hidden.c`) | none | one command of the monitor; other tests may be linked in its place | monitor, `_panic` |
| console input (`kern/console.c`) | ring `cons`, `serial_exists`, `shift` | `serial_intr`, `kbd_intr`, `cons_intr`, `cons_getc`, `getchar` | UART, keyboard controller (polled) |
| keyboard decoder (`kern/console.c`) | `shift` | `kbd_proc_data` | console input |
| console output (`kern/console.c`) | escape parser, `crt_attr`, `crt_buf`, `crt_pos` | `cons_putc`, `cga_putc` | screen, ports |
| output ports (`kern/console.c`) | none | `serial_putc`, `lpt_putc` | UART, printer (polled) |
| formatted output (`lib/printfmt.c`, `kern/printf.c`) | none but the caller's buffer | `vprintfmt`, `cprintf`, `snprintf` | console output |
| line editor (`lib/readline.c`) | static `buf` | `readline` | console input and output |
| command interpreter (`kern/monitor.c`) | `buf`, in place | `runcmd`, `monitor`, the commands | line editor, debug information |
| debug information (`kern/kdebug.c`) | the stab table, read only | `stab_binsearch`, `debuginfo_eip` | backtrace |
| strings (`lib/string.c`) | none | `strcmp`, `strtol`, `memmove`, ... | everything |

Interrupts stay off (`cli` in `boot.S`, no descriptor table is ever loaded), so
there is one thread of control. The concurrency is between it and the devices:
bytes arrive between any two port reads, the disk and the keyboard controller
work while the processor polls them, the person at the keyboard runs ahead of the
decoder. The re-entrancy is in two places: a tab makes `cga_putc` call
`cons_putc`, whose parser state is static; and a command that panics starts a
monitor on top of the one that ran it, over the same static `buf`.

### What is hard, and what would make it correct

* **Boot loader**: two handshakes, rounding to sectors, errors not looked at. Correct:
  the kernel entered is the kernel on the disk and nothing else was overwritten.
* **Entry**: paging is turned on under the feet of the code that runs. Correct: every
  instruction is found on both sides of the switch and of the jump; C starts at
  its link address with the frame chain ended.
* **Start and panic**: variables that are only zero once `memset` has cleared them;
  panics inside panics; a walk over frames that gcc left. Correct: the
  backtrace is the calls there are; the first panic is the one that is told; no
  panic returns, and each reaches a monitor.
* **Input**: bytes racing the polls, a ring without a test for full, a device that
  hides another. Correct: no data port read empty; the ring is a FIFO; whatever
  arrives is read; `getchar` returns.
* **Decoder**: prefixes, fake shifts, repeats and two of every modifier. Correct: no
  modifier stuck, no escape left over, no reset without its chord, the case of
  letters.
* **Output**: boundaries of the screen, colours changed in between, the recursion for
  tabs, broken and overlong escape sequences. Correct: linear memory behaves as a
  terminal; the ports get the text, all of it; what a sequence spells is applied.
* **Ports**: a bounded wait. Correct: it returns, and loses nothing if the device is
  fast enough.
* **Formatted output**: flags, widths and precisions that interact, 64-bit numbers from
  two words, a buffer with one byte to keep. Correct: what is printed is what the
  directives mean; nothing is written outside the buffer, and it is always ended.
* **Strings**: overlapping regions moved a word at a time, `rep` in either direction, the
  ends of bounded copies. Correct: each function does what the C library's does,
  to its last byte and no further.
* **Line editor and monitor**: a static buffer reused and cut up in place. Correct:
  what is seen is what is entered; arguments are its words; no index leaves it.
* **Symbol search**: a binary search over entries of mixed types that changes the
  address it looks for, called three times over regions it has found. Correct: it
  stays in its region, ends, and finds the entry a reader of the table would.

`PROJECT.json` ("hazards") has the full list with source lines and the properties
that would notice each of them going wrong.

## 2. The modules

State variables have the names of the program's variables. A variable marked
*history* is not in the program: properties need it to say what has happened.
A part marked *external* is not in the repository and is modelled from how the
code uses it. Definitions named `X_Slip` (`Wrap_Late`, `Overlaps_Not`, ...) are `X`
with a plausible mistake; put in the place of `X` each makes one property fail
("mutants" in `PROJECT.json`), which shows that the property says something about
the code.

| module | what it is |
|---|---|
| `BootLoader` | `boot.S` and `bootmain` against keyboard controller and disk; a byte in memory is the disk position it came from |
| `Entry` | `entry.S`, one action per instruction, fetched and executed through `entry_pgdir` and `entry_pgtable` with the macros of `mmu.h` and `memlayout.h` |
| `Monitor` | `readline` by the key, `runcmd` by the character, `monitor` around them |
| `Kernel` | composes `Entry` and `Monitor` on one stack: `i386_init`, `test_backtrace`, `_panic`, `mon_backtrace` by the call, with the frames gcc's code leaves (external) |
| `KbdMap` | the scan-code tables and `kbd_proc_data` as a function `Decode(shift, byte)`. The modifier word is a set of flags |
| `Kbd` | a keyboard (external: make, break, repeat, fake shifts) on a wire to `kbd_proc_data` |
| `InputQueue` | abstract: a FIFO that throws everything away when it overflows |
| `ConsIn` | `cons_getc` and what it calls, one action per port read, against UART and keyboard controller; uses `KbdMap`; implements `InputQueue` |
| `Terminal` | abstract: lines and columns, a cursor, scrolling |
| `ConsOut` | `cons_putc` and `cga_putc`, with a stack `todo` for the calls they make of each other; implements `Terminal` |
| `TxPort` | the loop of `serial_putc` and `lpt_putc` against a device with a speed of its own |
| `Printfmt` | `vprintfmt` by the case of its switch, `printnum`, `vsnprintf` and its buffer, `vcprintf` |
| `Directives` | reference: how a directive is spelled, which words it takes, what it means |
| `Strings` | the functions of `string.c` that only read memory, as recursive functions |
| `StringCopy` | those that write it, one action per turn of a loop or repetition of a string instruction |
| `Lib` | composes `Printfmt`, `StringCopy` and `TxPort`: one library call at a time; `cprintf`'s characters wait for the port |
| `StabSearch` | `stab_binsearch`, one action per turn and branch of its loop |
| `DebugInfo` | `debuginfo_eip`: three searches, each in the region the last one found |
| `MC*` | values for the constants and the properties stated on particular values |
| `*Proofs` | the theorems |

The inner scan loops of `stab_binsearch` are one step (`Found`, `Finish`) because
nothing can come between; `TypeOK` there bounds the indexes they read.

In `Kernel` a function occupies `FNSIZE` addresses and an instruction one; locals are
not on the stack, and calls that only print are left out. That keeps what the
backtrace depends on, the saved `ebp`s, the return addresses and the arguments.
`debuginfo_eip` appears there as `FunctionOf`, and in full in `DebugInfo`.

## 3. The runs

All runs use breadth-first search without symmetry or state constraints; the
bounds are constants, named in the modules.

| run | properties | bounds, and why they are enough |
|---|---|---|
| `boot` (`MCBootLoader`) | `Loaded`, `NothingElseWritten`, `Decides` | all kernels of one or two segments of up to 3 bytes in sectors of 2, and a stack header without bytes; any sector failing, and three junk program headers, which have sectors read below the header page, into it, and at the end of memory |
| `monitor` (`MCKernel`) | `TypeOK`, `Fetches`, `AtHome`, `Seen`, `ArgsAreWords`, `BacktraceTrue`, `FirstPanicSaid`, `NoReturnFromPanic`, `Answered`, `PanicReachesMonitor` | from the first instruction on; a buffer of 6 and 3 arguments: lines that fill it, and lines with too many words; commands that trace the stack or panic, to a panic in the monitor of a panic; a page of 8 addresses, tables of 32 entries, `KERNBASE` two tables up |
| `keyboard` (`MCKbd`) | `NoStuckModifier`, `ResetNeedsChord`, `NoStaleEscape`, `LetterCase` | nine keys that make up every kind (two shifts, plain and extended control and delete, alt, a letter, Caps Lock), three held at once, a wire that can run a key ahead |
| `input` (`ConsIn`) | `TypeOK`, `DataIsThere`, `InOrder`, `QueueSpec`, `KeyboardIsReadAlone`, `GetcharReturns` | a ring of 3 and 5 bytes of input: the ring wraps and overflows; the scan codes make Ctrl-Alt-Del possible, and the mouse can cut in |
| `screen` (`MCScreen`) | `TypeOK`, `SerialText`, `ParamsSpelled`, `TerminalSpec`, `PutReturns` | 2 x 2 cells, every starting position. Two kinds of text: one has sequences of one character, and a tab crosses a line and scrolls, colours change between any two characters; the other is sequences only, one after the other, of four characters after `ESC [`: an overflow (of an `int` of 8 bits), empty fields, five fields, broken ones |
| `library` (`MCLib`) | `TextAsMeant`, `Truncated`, `FormatReturns`, `SlowEnough`, `Moved`, `Written`, `ReadersAgree` | ints of 4 bits; every flag with widths and precisions given, by argument and negative, no buffer, and buffers too small, exact and ample; 12 bytes of memory, so three words: every overlap, alignment and length; every contents of five bytes for the readers; a port of 4 polls (for 12800), devices of 0 to 6 and one that is off |
| `debuginfo` (`MCDebugInfo`) | `TypeOK`, `ContainsUnlessNext`, `RightPlace`, `Answered` | six shapes of table of 8 entries with every assignment of addresses 0..6 a linker could make, every address looked up, user addresses included |

`TypeOK` is checked where it bounds an index or an address. Where a run has no
deadlock check (`boot`, `library`, `debuginfo` and the violations found with their modules) the code really comes to an end.

The readers of `Strings` have no state of their own: `ReadersAgree` compares each of
them with its reference on the memory of every initial state of `library`, at the addresses
`Places`, with the lengths `Sizes`, the characters `Chars` and the bases `Bases`.

### What the code does not do

Five runs end in a counterexample to something a comment of the repository says;
"findings" in `PROJECT.json` quotes each.

* `input_mouse`: a byte of the mouse is not ignored but left in the controller, and
  hides the keyboard from then on. `KeyboardIsReadAlone` is what holds.
* `input_overflow`: `cons_getc` returns 0 although `CONSBUFSIZE` characters wait.
  `InOrder` and `QueueSpec` are what holds.
* `stab_next`: with entries at an address and at the next one the second is found.
  `ContainsUnlessNext` is what holds.
* `no_function`: at an address below all functions of its file the search for one finds nothing, but
  the region it leaves is not empty (its left end has not moved, its right end is just before the
  first function). `debuginfo_eip` takes this for found, and gives out the file's name as the function's. What
  holds is `RightFunction`, a part of `RightPlace`: no other function than the right one is ever named. Nor is
  `ContainsUnlessNext` about this case; it says what the region is if there is an entry to find.
* `minus_flag`: a number with the "flag to pad on the right" is padded on the left, with minus
  signs. `Directives` follows the comment, so `TextAsMeant` leaves out what it is not true of
  (`Disputed`): numbers narrower than a field with `-`, and strings there whose `0` comes after the `-`.

More is visible in the models without a run of its own.

* Console. `ESC [ 31 m`, which the banner of `init.c:51` uses for red, comes out in blue: `ansi_to_vga_basic`
  does not convert the colour numbers, and a VGA has blue at 1 and red at 4. On a serial line that never pauses
  `cons_intr` does not get to the keyboard (`console.c:401`). A held Caps Lock toggles
  with every repeat. A character above 127 printed with `%s` is sign-extended and gets the
  attribute 0xFF (`Cell` in `ConsOut`, `White` in `Terminal`). The left and the right shift key
  share a flag, so releasing one ends the shift of both; `ctlmap` has `KEY_HOME` at
  0x97 and not at 0xC7, where the other maps have it (`KbdMap`).
* Monitor. `runcmd` refuses a line of exactly `MAXARGS` arguments (`too_many` in
  `Monitor`), though its message says "max 16".
* Formatted output (`Directives` says what is printed instead). `putch` in `printf.c` does
  `*cnt++`, which moves the pointer: `cprintf` always returns 0. Fields and blanks
  work for strings as well, though `printfmt.c:12` has padding "for the numeric
  formats only"; `Directives` has it for both. The sign and the `0x` of `%p` are not counted in the width, and a precision is
  ignored for numbers. In `%.0s` the 0 is taken for a flag. Error 0 prints "error 0"; the
  error `INT_MIN`, whose negation is itself, is looked up below the table of names (`"wild"`).
* Strings. `strtol` accepts the prefix `0x` with no digit after it.
* Symbols. The second condition of the loop at `kdebug.c:60`, `n_type == N_FUN && n_type == 0`,
  can never hold, so `stab_binsearch` looks at the type alone. A backtrace names
  the caller of a function that does not return after whatever function follows it
  (`hidden_panics` in `Kernel`), because the return address is already in that one.
* Boot loader. Two segments with bytes in one sector of memory destroy each other although
  they are loaded in increasing order (`SharedSector` in `BootLoader`); `kernel.ld` keeps the
  kernel's own segments on pages of their own.

### Fairness

* `BootLoader`: weak fairness of the processor and of both devices. `waitdisk` has no
  limit, so a disk that never answers stops the boot; `Decides` is about one that
  answers, with data or with an error, as long as `bootmain` has not been led astray by junk in the place of
  a program header.
* `Kernel`: weak fairness of the processor; nobody need type. `Answered` and
  `PanicReachesMonitor` are about what the kernel does without being helped.
* `ConsIn`: weak fairness of the processor and, once asked for, of the reset. The
  code polls without end and nothing preempts it. Nothing is assumed of devices:
  that they send, or stop, is never required; the bound on input makes every
  burst end, so a serial line that never pauses is outside `KeyboardIsReadAlone` and `GetcharReturns`.
* `ConsOut`, `DebugInfo`, `Lib`: weak fairness of the code once it has been called; not that it
  is called. In `Lib` the port's device has none: `FormatReturns` holds for one that is
  never ready, because the wait is bounded.
* `Kbd`, `StabSearch`, and `Entry` and `Monitor` on their own state safety only.

## 4. The proofs

TLAPS checks these for all values of the constants that meet the modules' ASSUMEs. The
assumptions say that sizes and bounds are naturals, that inputs are bytes, that no
key's break code is the prefix byte (`KeysAssumption`), that kernels are what a linker
makes, their segments within the memory (`KernelsAssumption`), that code, tables and stack lie
in the part of memory the boot tables map, C code after `entry.S` (`EntryAssumption`, `KernelAssumption`),
that a symbol table has a header before its entries and a function's parameters right
after it (`DebugAssumption`), that callers of the string library give it memory they have
and strings that end (`Fitting`), and that formats are texts and directives in the order of flags,
width, precision and length, with the arguments these take (`Proper`, `LibAssumption`). A format
may have a letter that no directive has, and any int for a `*`; an int has an
even number of values (`PrintfmtAssumption`), half of them negative.

* **`KernelProofs`**, entry. The inductive invariant `OnTheWay` says for each of the first
  instructions which registers are set and where `eip` is, at a physical or at a linked
  address; `Division` and `Parts` are the arithmetic of `PDX` and `PTX`, from which `Low` and
  `High` get the translations below and above `KERNBASE`. `AlwaysFetches` and `AlwaysAtHome` follow.
* **`KernelProofs`**, monitor. `TypeOK` is not inductive alone: that `p` stays in the buffer
  needs a NUL ahead of it, which `readline` put there and which no turn of `runcmd`
  takes away (`Ended`). With `Seen` this is the invariant for `InBounds` and `AlwaysSeen`, theorems about
  the monitor by itself (`Spec` of `Monitor`). `AlwaysWords` is about the same cutting up seen from
its result: `WordsInv` says that up to `p` the buffer is the line with zeros for white space and the
line itself from there on, and that `argv` holds the beginnings of the words up to there, each once
and in order, all but the latest ended. `MonitorInv` joins the two.
* **`KernelProofs`**, the kernel. None of `BacktraceTrue`, `FirstPanicSaid` and `NoReturnFromPanic` is
  inductive: what a return does depends on words that were pushed long before. `KernelInv` names
  them. `Chained` says that the stack is the frames of `calls` and nothing else: there are places `P`,
  one for each call, with its arguments above, its return address next to it and the place of the
  caller's frame in it, the latest perhaps without its saved `ebp` yet; and that a backtrace under
  way has listed the calls above the frame `ebp_b` points to. `Told` ties `panicstr`, which is
  junk until the BSS is clear, to what has been said. `Adds`, `Saves` and `Unwinds` show that call,
  prologue and return keep the frames, `Finds` and `Known` what is read from them, and there is
  one lemma for each action (`Step_...`). That an address tells its function (`Named`, `Apart`) is
  the link order. `Aloft`: a push that finds its memory is above `KERNBASE`, so no frame is at 0, which
  ends the chain. `Composed` carries the theorems about entry and monitor over.
* **`KbdProofs`**. The invariant says that the bytes on the wire, from the last decoded one
  on, account for the keys that are down: each byte differs in at most one key from the
  one before it, and a prefix is followed by what it is a prefix of. Then
  `NoStuckModifier` is kept by one decoded byte at a time. `NeverStuck`, `AlwaysChord`, `NeverStale` and
  `AlwaysCase` are for any set of keys, any number of them held and any delay of the decoder.
* **`KbdMapProofs`**. `DecodeType`: the decoder's tables and case conversion give bytes. The
  ring's proof uses it for what the keyboard puts in.
* **`ConsInProofs`**. The inductive invariant is `TypeOK`, `DataIsThere` and `RingHolds`: until an
  overflow the unread part of the ring is the sequence `waiting`, and is shorter
  than the ring. `InOrder` alone is not inductive: without the bound on the
  length a stored character could meet `rpos`. Two lemmas about the ring (what
  storing appends and what taking removes, with both ways to wrap) carry the
  steps. `ImplementsQueue` maps the initial state to an empty queue and every
  step to `Put`, `Get`, `Clear` or a stutter; it needs no exception for overflow,
  because throwing the queue away is what a full ring does.
* **`ConsOutProofs`**. `TypeOK` is inductive: the switch of `cga_putc` leaves the position less
  than a line beyond the screen, one scroll brings it back, and each branch of the
  parser keeps its variables in range. `ImplementsTerminal` maps a position to a line and
  a column (`Quotient`, `Multiples`, `Placed`), a cell written to one of the terminal's, and the
  memory moved up by a line to a scroll; the invariant besides the types is that the
  cursor in the display controller is `crt_pos` (`Together`). `AllSent` rests on `Owed`: the calls on
  `todo` have one of a few shapes (a character, the rest of a tab, an `ESC` shown to be a plain
  one), and what they will still send completes what has been sent to the text.
  `AlwaysSpelled` is about the parameters of an escape sequence. The fields of a text and the number a
  field spells are values read character by character (`Read`), and `ReadMore` says what one
  character more does to them: `Fielded...` for a digit and for a semicolon. `Spelling` then ties
  `param` to the field begun and `params` to the fields finished, as far as an `int` holds them.
* **`DebugInfoProofs`**, one search. `BoundsInvariant` gives `TypeOK`; the invariant for `SearchCorrect` adds what
  the loop knows of the entries outside `l..r`: those of the type below are not
  above the address, those above are, and `left` is the last match so far.
* **`DebugInfoProofs`**, the three searches. `Table` is what `LaidOut` makes of a shape and of start addresses
  (`Laid`): whatever is searched for is in the order of the addresses where it starts. `DebugInv` has a
  part for each step of `debuginfo_eip`: once there is a file, its region holds no other file and what
  lies behind it is `Beyond` the address (`Filed`); a line is then searched for in a function
  (`LineOfFunction`), in a file without functions (`LineOfFile`) or in one whose functions all start above
  the address (`LineOfNothing`). Each search gives `Correct` for its own region, and the next region
  is within the last. `Good` excludes what `RightPlace` excludes: the largest address, for which
  `addr + 1` would wrap, and entries at two addresses in a row, which the finding `stab_next` is about.
  `SearchesInBounds` has no such exception.
* **`LibProofs`**. `AlwaysTruncated`: what `vsnprintf` has written is the text so far, cut off where
  the buffer leaves room for the NUL, and the count goes on; so for every
  format, every argument list and every size. `MovedAlways`: the loop invariant says which part
  has been moved, that what is yet to be read has not been overwritten (downwards when the
  destination overlaps from above), and that the rest of memory is as it was. `NothingLost`: while
  the processor polls, the delays it has made and those the device still needs are
  within what the slowest byte has taken (`Polled`).
  `WrittenAlways`: `SetInv` and `StrInv` say what has been written, that what is yet to be read is as it
  was (`Unread`) and that nothing further on has changed (`Further`); where a string ends is in `HasLength`.
* **`LibProofs`**, what is printed. `TextAlways`: the text is what the items of the format mean, for any
  number of them. Three arguments meet in it.
  - Numbers. `Numeral` is the reference, each digit the value's share of a power of the base; `printnum`
    recurses on the quotient and counts the width down. `NumeralMore` takes the last digit off a numeral (`DivDiv`),
    and `PrintnumIs` shows by strong induction that `printnum` is the numeral with what it lacks of the
    width before it, a width of zero or less included. `DecimalDigits` and `ReadsNumber` go the other way: the digits
    of a width are read as its value. `SignedIs` and `StarIs` are about words as signed ints, the smallest one included.
  - One directive. The `...Says` lemmas give what each case of the switch prints, `Outcome`, when padding,
    width, precision, the `l`s and `#` have been read (`Prepared`).
  - The whole format. `FormatUpTo`, `WordsUpTo` and `MeantUpTo` join the items up to one; `JoinedStays` and
    `JoinedAhead` say where an item lies among them.

  `TextAsMeant` is about the end of a call, and nothing like inductive. The invariant `Tracked` says what holds on the
  way: between two items, or inside a text, what has been printed is what the items so far mean (`Between`, `Inside`); inside
  a directive it is at one of the stages `Begun`, `AfterMinus`, `AfterZero`, `AfterAlt`, `AfterWidth`, `AfterDot`, `AfterPrec`,
  each naming what lies ahead of `fp` and of `ap` and what the five locals hold (`Stands`). The stages have
  lemmas of their own (`FromMinusOn` to `FromWidthOn`), because an absent part makes the next one's character the one that is read.
  `Inside` also takes up a directive that is not one, which `vprintfmt` goes back to the `%` of and
  prints as text; its text must have no further `%` (`LiteralPlain`). What is printed there is `Does`, which pads numbers on the left whatever the flags
  (`LeftPadded`); `DoesMean` is the comparison with `Meant`. The exceptions are those of the property: the
  error `INT_MIN` (`Nameless`) and what is `Disputed`.
* **`LibProofs`**, the readers. Each is a recursive function over an offset. That there is such a function
  is shown first (`LoopExists`), then that it stops where its condition first fails (`Scans`, `Stops`,
  `Compared`); `ReadersRight` gives `ReadersAgree` from what callers give. For `strtol`, `ValuedIs` and
  `WorthIs` compare the running value, which may wrap, with the sum of digits times powers
  (`IsHorner`). `LibraryRight` puts the parts together: the calls of `Lib` share nothing.
* **`BootLoaderProofs`**. `OnlyItsOwn` rests on `Gate`, which follows the two bytes through the keyboard
  controller to an open gate before the first data come from the disk, and on `Reading`: `pa` is
  the beginning of a sector, at or after the first of the range and, while one is being read,
  before its end. `AllInPlace` adds that the sector numbers keep step with the addresses
  (`InStep`: `offset * SECTSIZE - pa` does not change, and is right when `readseg` is called, because address and
  file offset are congruent), and that of the current part everything below `pa`, and
  of the earlier ones everything, is there (`SoFar`), the header page, which is part 0, included. Both
  hold up to the first program header that is not the file's (`astray`), which only a failed disk can
  cause; from then on `bootmain` writes to anywhere, and nothing is claimed. A failed disk and parts that share a
  sector are the exceptions of `Loaded`.

What a recursive definition computes is proved by induction on the naturals, from the
library's well-foundedness of `<` (`Induct` in `ConsOutProofs` and `LibProofs`): a set that has 0 and
with each number the next has them all. The library's theorems that take an operator cannot be used,
so each recursive function needs a lemma that it exists.

Outside the prover's reach: liveness under fairness, and `ENABLED`.

Only model-checked: all liveness properties (`Decides`, `Answered`, `PanicReachesMonitor`, `KeyboardIsReadAlone`,
`GetcharReturns`, `PutReturns`, `FormatReturns`). Every other property of the passing runs has a theorem.

## 5. Not modelled

* `_warn`, which nothing calls, and what `help` and `kerninfo` print: text without a decision.
* The sequence of port writes in `serial_init` and the strobe of `lpt_putc` after its byte (no decision but `serial_exists`, which
  `ConsIn` leaves open), the choice of display adapter in `cga_init`, and the cursor position
  it takes over from the display controller: a screen starts at any position on it. `clear_bss` is the `memset`
  alone: `cons_init` after it has no part in `Kernel`, whose output is the message of a panic.
* The screen contents before the first output.
* The switch to protected mode with its descriptor table: one step of `BootLoader`.
* In `Monitor`, what cannot happen with the `getchar` and the commands there are: a read
  error in `readline`, a line that is NULL, a command that ends the monitor. The BSS before it is cleared is junk as far as
  `panicstr` and `readline`'s `buf` go; the console's variables start as they are after it.
* What precision and `#` might mean for numbers, and a sign counted in the width: `Directives` has them as the code does.
* A width or precision in the text of a format that no int holds (undefined in C): the model does not wrap it.
* `strlcpy`'s return value; alignment faults; a string without an end.
* `fs/test.c` and `user/sendpage.c`, which are not built in this lab and call code that is
  not here; `inc/x86.h` and the headers of types except where a module uses them.
* Build and grading scripts.

The A20 model takes the keyboard controller to be faster than the disk: the
code does not wait for the last byte to be taken up. Segments are laid out as a
linker does it (file offset and address congruent modulo the sector size; in the run,
above the header page). The disk's status is taken to be valid as soon as a
command is written. Addresses do not wrap in the loader (the kernel is at 1 MB); nor do `p_pa + p_memsz` of a
junk header. Its program headers lie in the header page, and a first sector that is junk does not begin
with ELF's magic number. Two segments in one sector (`SharedSector`), of which the comment at `main.c:85` says
that what is read too much "doesn't matter", are outside `Loaded`, and so is a segment in a sector of the header page.
The boot stack is deep enough for the calls made on it.

## 6. Plan

No property of a passing run that the provers can reach is without a theorem. What could
still be added is `cga_init` and `serial_init`, if either gets a decision of its own.
