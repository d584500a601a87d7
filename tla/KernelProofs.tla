---------------------------- MODULE KernelProofs ----------------------------
(***************************************************************************)
(* The kernel's way in, for pages, tables and directories of every size    *)
(* and a kernel linked at any directory entry but the first; its line      *)
(* editor and runcmd, for buffers, argument limits, keys and command       *)
(* tables of every size; and the whole kernel, its backtraces and panics,  *)
(* for a stack anywhere and functions of every size.                       *)
(***************************************************************************)
EXTENDS Kernel, TLAPS


-----------------------------------------------------------------------------
(* Addresses *)

LEMMA Division ==
  ASSUME NEW m \in Nat \ {0}, NEW q \in Nat, NEW r \in 0..(m - 1)
  PROVE  (q * m + r) \div m = q /\ (q * m + r) % m = r
<1> DEFINE a == q * m + r
           e == a \div m
           f == a % m
<1>1. q * m \in Nat /\ a \in Nat
  OBVIOUS
<1> HIDE DEF a
<1>2. e \in Nat /\ f \in 0..(m - 1) /\ a = m * e + f
  BY <1>1
<1> HIDE DEF e, f
<1>3. m * e + f = m * q + r
  BY <1>2 DEF a
<1>4. ~(e < q)
  <2> SUFFICES ASSUME e < q PROVE FALSE
    OBVIOUS
  <2>1. PICK k \in Nat : q = e + 1 + k
    <3>1. q - e - 1 \in Nat /\ q = e + 1 + (q - e - 1)
      BY <1>2
    <3> QED
      BY <3>1
  <2>2. m * q = m * e + m + m * k /\ m * k \in Nat
    BY <1>2, <2>1
  <2> QED
    BY <1>2, <1>3, <2>2
<1>5. ~(q < e)
  <2> SUFFICES ASSUME q < e PROVE FALSE
    OBVIOUS
  <2>1. PICK k \in Nat : e = q + 1 + k
    <3>1. e - q - 1 \in Nat /\ e = q + 1 + (e - q - 1)
      BY <1>2
    <3> QED
      BY <3>1
  <2>2. m * e = m * q + m + m * k /\ m * k \in Nat
    BY <1>2, <2>1
  <2> QED
    BY <1>2, <1>3, <2>2
<1>6. e = q /\ f = r
  BY <1>2, <1>3, <1>4, <1>5
<1> QED
  BY <1>6 DEF a, e, f

\* The first PTSIZE bytes after any multiple of it: which directory entry, and that
\* table index and offset put the address together again.
LEMMA Parts ==
  ASSUME NEW d \in 0..(NPDENTRIES - 1), NEW off \in 0..(PTSIZE - 1)
  PROVE  /\ PDX(d * PTSIZE + off) = d
         /\ PTX(d * PTSIZE + off) \in 0..(NPTENTRIES - 1)
         /\ PTX(d * PTSIZE + off) * PGSIZE + PGOFF(d * PTSIZE + off) = off
<1> DEFINE la == d * PTSIZE + off
           t  == off \div PGSIZE
           o  == off % PGSIZE
<1>1. PGSIZE \in Nat \ {0} /\ NPTENTRIES \in Nat \ {0} /\ NPDENTRIES \in Nat \ {0} /\ d \in Nat
  BY EntryAssumption
<1>2. PTSIZE \in Nat \ {0}
  BY <1>1 DEF PTSIZE
<1>3. off \in Nat /\ off < PTSIZE
  BY <1>2
<1>4. t \in Nat /\ o \in 0..(PGSIZE - 1) /\ off = t * PGSIZE + o
  BY <1>1, <1>3
<1>5. t < NPTENTRIES
  <2> SUFFICES ASSUME t >= NPTENTRIES PROVE FALSE
    BY <1>1, <1>4
  <2> HIDE DEF t, o
  <2>1. PICK k \in Nat : t = NPTENTRIES + k
    <3>1. t - NPTENTRIES \in Nat /\ t = NPTENTRIES + (t - NPTENTRIES)
      BY <1>1, <1>4
    <3> QED
      BY <3>1
  <2>2. t * PGSIZE = PGSIZE * NPTENTRIES + k * PGSIZE /\ k * PGSIZE \in Nat
    BY <1>1, <2>1
  <2> QED
    BY <1>1, <1>3, <1>4, <2>2 DEF PTSIZE
<1>6. la \div PTSIZE = d
  BY <1>1, <1>2, Division
<1>7. d % NPDENTRIES = d
  BY <1>1
<1>8. PDX(la) = d
  BY <1>6, <1>7 DEF PDX
<1> DEFINE page == d * NPTENTRIES + t
<1> HIDE DEF t, o
<1>9. page \in Nat /\ la = page * PGSIZE + o
  <2>1. d * NPTENTRIES \in Nat
    BY <1>1
  <2>2. d * PTSIZE = (d * NPTENTRIES) * PGSIZE
    BY <1>1 DEF PTSIZE
  <2>3. (d * NPTENTRIES + t) * PGSIZE = (d * NPTENTRIES) * PGSIZE + t * PGSIZE
    BY <1>1, <1>4, <2>1
  <2> QED
    BY <1>1, <1>4, <2>1, <2>2, <2>3
<1> HIDE DEF la, page
<1>10. la \div PGSIZE = page /\ la % PGSIZE = o
  BY <1>1, <1>4, <1>9, Division
<1>11. page % NPTENTRIES = t
  <2>1. t \in 0..(NPTENTRIES - 1)
    BY <1>1, <1>4, <1>5
  <2> QED
    BY <1>1, <2>1, Division DEF page
<1>12. PTX(la) = t /\ PGOFF(la) = o
  BY <1>10, <1>11 DEF PTX, PGOFF
<1> QED
  BY <1>1, <1>4, <1>5, <1>8, <1>12 DEF la

-----------------------------------------------------------------------------
(* The map of entry.S *)

Mapped == cr3 = RELOC(pgdir_at) /\ {"PG", "WP"} \subseteq cr0

LEMMA Numbers ==
  /\ PTSIZE \in Nat \ {0} /\ KERNBASE \in Nat /\ entry_at \in Int /\ i386_init_at \in Int
  /\ pgdir_at \in Int /\ pgtable_at \in Int /\ bootstacktop \in Int
  /\ NPDENTRIES \in Nat /\ NPTENTRIES \in Nat /\ PGSIZE \in Nat
BY EntryAssumption DEF Image, PTSIZE

LEMMA Low ==
  ASSUME Mapped, NEW la \in 0..(PTSIZE - 1)
  PROVE  Readable(la) /\ Phys(la) = la
<1>1. /\ 0 \in 0..(NPDENTRIES - 1) /\ 0 * PTSIZE + la = la
  BY EntryAssumption, Numbers
<1>2. PDX(la) = 0 /\ PTX(la) \in 0..(NPTENTRIES - 1) /\ PTX(la) * PGSIZE + PGOFF(la) = la
  BY <1>1, Parts
<1>3. pde(la) = [addr |-> RELOC(pgtable_at), P |-> TRUE, W |-> FALSE]
  BY <1>1, <1>2 DEF pde, DirectoryAt, Mapped, entry_pgdir
<1>4. pte(la) = [addr |-> PTX(la) * PGSIZE, P |-> TRUE, W |-> TRUE]
  BY <1>2, <1>3 DEF pte, TableAt, entry_pgtable
<1>5. Paging
  BY DEF Mapped, Paging
<1> QED
  BY <1>2, <1>3, <1>4, <1>5 DEF Readable, Phys

LEMMA High ==
  ASSUME Mapped, NEW la \in Image
  PROVE  Writable(la) /\ Phys(la) = RELOC(la)
<1>1. PICK d \in 1..(NPDENTRIES - 1) : KERNBASE = d * PTSIZE
  BY EntryAssumption
<1> DEFINE off == la - KERNBASE
<1>2. off \in 0..(PTSIZE - 1) /\ la = d * PTSIZE + off /\ d \in 0..(NPDENTRIES - 1) /\ d # 0
  BY <1>1, Numbers DEF Image
<1> HIDE DEF off
<1>3. PDX(la) = d /\ PTX(la) \in 0..(NPTENTRIES - 1) /\ PTX(la) * PGSIZE + PGOFF(la) = off
  BY <1>2, Parts
<1>4. PDX(KERNBASE) = d
  <2>1. 0 \in 0..(PTSIZE - 1) /\ KERNBASE = d * PTSIZE + 0
    BY <1>1, <1>2, Numbers
  <2> QED
    BY <1>2, <2>1, Parts
<1>5. pde(la) = [addr |-> RELOC(pgtable_at), P |-> TRUE, W |-> TRUE]
  BY <1>2, <1>3, <1>4 DEF pde, DirectoryAt, Mapped, entry_pgdir
<1>6. pte(la) = [addr |-> PTX(la) * PGSIZE, P |-> TRUE, W |-> TRUE]
  BY <1>3, <1>5 DEF pte, TableAt, entry_pgtable
<1>7. Paging
  BY DEF Mapped, Paging
<1> QED
  BY <1>3, <1>5, <1>6, <1>7 DEF Readable, Writable, Phys, RELOC, off

-----------------------------------------------------------------------------
(* The way *)

\* Where the n-th instruction is when the processor comes to it, and what has been
\* done by then.
Before(n) ==
  /\ eip = (IF n < 4 THEN RELOC(entry_at) ELSE entry_at) + n
  /\ stack = <<>>
  /\ n < 3 => ~Paging
  /\ n >= 2 => cr3 = RELOC(pgdir_at)
  /\ n >= 3 => Mapped
  /\ n >= 5 => ebp = 0
  /\ n = 6 => esp = bootstacktop

Arrived == eip = i386_init_at /\ Mapped /\ stack = <<entry_at + 7>> /\ ebp = 0

OnTheWay == Arrived \/ \E n \in 0..6 : Before(n)

\* Wherever it is on the way, the processor finds the instruction that is next and no
\* other.
LEMMA FindsNext ==
  ASSUME NEW n \in 0..6, Before(n), NEW m \in 0..6
  PROVE  Executes(m) <=> m = n
<1>1. /\ RELOC(entry_at) + n \in 0..(PTSIZE - 1) /\ entry_at + n \in Image
      /\ RELOC(entry_at + n) = RELOC(entry_at) + n
  BY EntryAssumption, Numbers DEF Image, RELOC
<1>2. Readable(eip) /\ Phys(eip) = RELOC(entry_at) + n
  <2>1. CASE n < 3
    BY <2>1 DEF Before, Readable, Phys
  <2>2. CASE n = 3
    BY <1>1, <2>2, Low DEF Before
  <2>3. CASE n > 3
    BY <1>1, <2>3, High DEF Before, Writable
  <2> QED
    BY <2>1, <2>2, <2>3
<1>3. RELOC(entry_at) \in Int
  BY Numbers DEF RELOC
<1> QED
  BY <1>2, <1>3 DEF Executes

LEMMA Over ==
  ASSUME Arrived, NEW m \in 0..6
  PROVE  ~Executes(m)
<1>1. Phys(eip) = RELOC(i386_init_at)
  BY High, EntryAssumption DEF Arrived
<1>2. RELOC(i386_init_at) # RELOC(entry_at) + m
  BY EntryAssumption, Numbers DEF RELOC
<1> QED
  BY <1>1, <1>2 DEF Executes

LEMMA SetsOff == EntryInit => OnTheWay
<1> SUFFICES ASSUME EntryInit PROVE Before(0)
  BY DEF OnTheWay
<1> QED
  BY Numbers DEF EntryInit, Before, Paging, RELOC

\* The last step: the return address is the one after entry.S.
LEMMA Calls ==
  ASSUME Before(6), call_i386_init
  PROVE  Arrived'
<1>1. eip = entry_at + 6 /\ Mapped /\ stack = <<>> /\ ebp = 0
  BY DEF Before
<1>2. eip' = i386_init_at
  BY <1>1, Numbers DEF call_i386_init
<1>3. stack' = <<entry_at + 7>>
  BY <1>1, Numbers DEF call_i386_init, Pushes
<1>4. Mapped' /\ ebp' = 0
  BY <1>1 DEF call_i386_init, Mapped
<1> QED
  BY <1>2, <1>3, <1>4 DEF Arrived

LEMMA GoesOn == OnTheWay /\ [EntryNext]_regs => OnTheWay'
<1> SUFFICES ASSUME OnTheWay, [EntryNext]_regs PROVE OnTheWay'
  OBVIOUS
<1>1. CASE UNCHANGED regs
  BY <1>1 DEF OnTheWay, Arrived, Before, regs, Mapped, Paging
<1>2. CASE Arrived /\ EntryNext
  BY <1>2, Over DEF EntryNext, warm_boot, load_cr3, paging_on, jmp_relocated, clear_ebp,
                    set_esp, call_i386_init
<1>3. CASE EntryNext /\ \E n \in 0..6 : Before(n)
  <2>1. PICK n \in 0..6 : Before(n)
    BY <1>3
  <2>2. RELOC(entry_at) \in Int /\ entry_at \in Int
    BY Numbers DEF RELOC
  <2>3. CASE warm_boot
    <3>1. n = 0
      BY <2>1, <2>3, FindsNext DEF warm_boot
    <3>2. Before(1)'
      BY <2>1, <2>2, <2>3, <3>1 DEF Before, warm_boot, Paging
    <3> QED
      BY <3>2 DEF OnTheWay
  <2>4. CASE load_cr3
    <3>1. n = 1
      BY <2>1, <2>4, FindsNext DEF load_cr3
    <3>2. Before(2)'
      BY <2>1, <2>2, <2>4, <3>1 DEF Before, load_cr3, Paging
    <3> QED
      BY <3>2 DEF OnTheWay
  <2>5. CASE paging_on
    <3>1. n = 2
      BY <2>1, <2>5, FindsNext DEF paging_on
    <3>2. Before(3)'
      BY <2>1, <2>2, <2>5, <3>1 DEF Before, paging_on, Mapped
    <3> QED
      BY <3>2 DEF OnTheWay
  <2>6. CASE jmp_relocated
    <3>1. n = 3
      BY <2>1, <2>6, FindsNext DEF jmp_relocated
    <3>2. Before(4)'
      BY <2>1, <2>2, <2>6, <3>1 DEF Before, jmp_relocated, Mapped
    <3> QED
      BY <3>2 DEF OnTheWay
  <2>7. CASE clear_ebp
    <3>1. n = 4
      BY <2>1, <2>7, FindsNext DEF clear_ebp
    <3>2. Before(5)'
      BY <2>1, <2>2, <2>7, <3>1 DEF Before, clear_ebp, Mapped
    <3> QED
      BY <3>2 DEF OnTheWay
  <2>8. CASE set_esp
    <3>1. n = 5
      BY <2>1, <2>8, FindsNext DEF set_esp
    <3>2. Before(6)'
      BY <2>1, <2>2, <2>8, <3>1 DEF Before, set_esp, Mapped
    <3> QED
      BY <3>2 DEF OnTheWay
  <2>9. CASE call_i386_init
    <3>1. n = 6
      BY <2>1, <2>9, FindsNext DEF call_i386_init
    <3> QED
      BY <2>1, <2>9, <3>1, Calls DEF OnTheWay
  <2> QED
    BY <1>3, <2>3, <2>4, <2>5, <2>6, <2>7, <2>8, <2>9 DEF EntryNext
<1> QED
  BY <1>1, <1>2, <1>3 DEF OnTheWay

LEMMA Everywhere == EntrySpec => []OnTheWay
BY SetsOff, GoesOn, PTL DEF EntrySpec

\* Every instruction of entry.S is found, before paging, between cr0 and the jump, and
\* after it (module Entry, Fetches).
THEOREM AlwaysFetches == EntrySpec => []Fetches
<1>1. OnTheWay => Fetches
  <2> SUFFICES ASSUME OnTheWay, stack = <<>> PROVE \E n \in 0..6 : Executes(n)
    BY DEF Fetches
  <2>1. PICK n \in 0..6 : Before(n)
    BY DEF OnTheWay, Arrived
  <2> QED
    BY <2>1, FindsNext
<1> QED
  BY <1>1, Everywhere, PTL

\* i386_init is entered at its link address, over memory that is where everything was
\* linked, with the end of the chain of frame pointers (module Entry, AtHome).
THEOREM AlwaysAtHome == EntrySpec => []AtHome
<1>1. OnTheWay => AtHome
  <2> SUFFICES ASSUME OnTheWay, Len(stack) = 1
               PROVE  /\ eip = i386_init_at
                      /\ \A la \in Image : Writable(la) /\ Phys(la) = RELOC(la)
                      /\ stack[1] \in Image /\ ebp = 0
    BY DEF AtHome
  <2>1. Arrived
    BY DEF OnTheWay, Before
  <2>2. entry_at + 7 \in Image
    BY EntryAssumption, Numbers DEF Image
  <2> QED
    BY <2>1, <2>2, High DEF Arrived
<1> QED
  BY <1>1, Everywhere, PTL

-----------------------------------------------------------------------------
(* The line editor and runcmd *)

\* A NUL ahead of runcmd keeps it inside the buffer.
Ended == pc \in {"gobble", "scan"} => \E e \in p..(BUFLEN - 1) : buf[e] = 0

EditInv == TypeOK /\ Seen /\ Ended

-----------------------------------------------------------------------------

LEMMA Empty == Init => EditInv
<1> SUFFICES ASSUME Init PROVE EditInv
  OBVIOUS
<1> USE MonitorAssumption
<1>1. buf \in [0..(BUFLEN - 1) -> Byte]
  BY DEF Init, Byte
<1>2. TypeOK
  BY <1>1 DEF Init, TypeOK
<1>3. shown = [k \in 1..i |-> buf[k - 1]]
  <2>1. i = 0 /\ shown = <<>>
    BY DEF Init
  <2> QED
    BY <2>1
<1> QED
  BY <1>2, <1>3 DEF Init, EditInv, Seen, Ended

\* Whenever a line has been dealt with, and with nothing left of it.
LEMMA Restarts ==
  ASSUME TypeOK, Prompt
  PROVE  EditInv'
<1> USE MonitorAssumption
<1>1. pc' = "read" /\ i' = 0 /\ shown' = <<>> /\ p' = 0 /\ argc' = 0 /\ argv' = <<>> /\ line' = <<>>
      /\ buf' = buf
  BY DEF Prompt
<1>2. TypeOK'
  BY <1>1 DEF TypeOK
<1>3. shown' = [k \in 1..i' |-> buf'[k - 1]]
  BY <1>1
<1> QED
  BY <1>1, <1>2, <1>3 DEF EditInv, Seen, Ended

-----------------------------------------------------------------------------
(* readline *)

\* While a line is read, as many characters are shown as are in the buffer.
LEMMA Length ==
  ASSUME TypeOK, Seen, pc = "read"
  PROVE  /\ i \in Nat /\ shown \in Seq(Byte) /\ Len(shown) = i
         /\ \A k \in 1..i : shown[k] = buf[k - 1]
<1>1. i \in Nat /\ shown \in Seq(Byte) /\ shown = [k \in 1..i |-> buf[k - 1]]
  BY MonitorAssumption DEF TypeOK, Seen
<1>2. DOMAIN shown = 1..i
  BY <1>1
<1>3. Len(shown) = i
  BY <1>1, <1>2
<1> QED
  BY <1>1, <1>3

\* A sequence is the function of its elements.
LEMMA Equal ==
  ASSUME NEW T, NEW t \in Seq(T), NEW m \in Nat, Len(t) = m,
         NEW f, \A k \in 1..m : t[k] = f[k - 1]
  PROVE  t = [k \in 1..m |-> f[k - 1]]
<1>1. t = [k \in 1..Len(t) |-> t[k]]
  OBVIOUS
<1> QED
  BY <1>1

LEMMA Erases ==
  ASSUME EditInv, NEW c \in Keys, pc = "read", Erase(c)
  PROVE  EditInv'
<1> USE MonitorAssumption
<1>1. TypeOK /\ Seen
  BY DEF EditInv
<1>2. /\ i \in Nat /\ i > 0 /\ i' = i - 1
      /\ shown' = SubSeq(shown, 1, Len(shown) - 1)
      /\ UNCHANGED <<buf, pc, p, argc, argv, line>>
  BY <1>1 DEF Erase, Echo, BS, TypeOK
<1>3. shown \in Seq(Byte) /\ Len(shown) = i /\ \A k \in 1..i : shown[k] = buf[k - 1]
  BY <1>1, Length
<1>4. /\ shown' \in Seq(Byte) /\ Len(shown') = i'
      /\ \A k \in 1..i' : shown'[k] = shown[k]
  BY <1>2, <1>3
<1>5. TypeOK'
  BY <1>1, <1>2, <1>4 DEF TypeOK
<1>6. i' \in Nat /\ \A k \in 1..i' : shown'[k] = buf[k - 1]
  BY <1>2, <1>3, <1>4
<1>7. shown' = [k \in 1..i' |-> buf[k - 1]]
  BY <1>4, <1>6, Equal
<1> QED
  BY <1>2, <1>5, <1>7 DEF EditInv, Seen, Ended

LEMMA Echoes ==
  ASSUME EditInv, NEW c \in Keys, pc = "read", Enters(c)
  PROVE  EditInv'
<1> USE MonitorAssumption
<1>1. TypeOK /\ Seen
  BY DEF EditInv
<1>2. /\ i \in Nat /\ i < BUFLEN - 1 /\ i' = i + 1 /\ c \in Byte
      /\ shown' = Append(shown, c)
      /\ buf' = [buf EXCEPT ![i] = c]
      /\ UNCHANGED <<pc, p, argc, argv, line>>
  BY <1>1 DEF Enters, Echo, Room, BS, TypeOK, Byte
<1>3. shown \in Seq(Byte) /\ Len(shown) = i /\ \A k \in 1..i : shown[k] = buf[k - 1]
  BY <1>1, Length
<1>4. /\ shown' \in Seq(Byte) /\ Len(shown') = i' /\ shown'[i'] = c
      /\ \A k \in 1..i : shown'[k] = shown[k]
  BY <1>2, <1>3
<1>5. /\ buf \in [0..(BUFLEN - 1) -> Byte] /\ i \in 0..(BUFLEN - 1)
  BY <1>1 DEF TypeOK
<1>6. /\ buf' \in [0..(BUFLEN - 1) -> Byte] /\ buf'[i] = c
      /\ \A k \in 0..(i - 1) : buf'[k] = buf[k]
  BY <1>2, <1>5
<1>7. TypeOK'
  BY <1>1, <1>2, <1>4, <1>6 DEF TypeOK
<1>8. \A k \in 1..i' : shown'[k] = buf'[k - 1]
  <2> SUFFICES ASSUME NEW k \in 1..i' PROVE shown'[k] = buf'[k - 1]
    OBVIOUS
  <2>1. CASE k = i'
    BY <1>2, <1>4, <1>6, <2>1
  <2>2. CASE k # i'
    <3>1. k \in 1..i /\ k - 1 \in 0..(i - 1)
      BY <1>2, <2>2
    <3> QED
      BY <1>3, <1>4, <1>6, <3>1
  <2> QED
    BY <2>1, <2>2
<1>9. shown' = [k \in 1..i' |-> buf'[k - 1]]
  <2>1. i' \in Nat
    BY <1>2
  <2> QED
    BY <1>4, <1>8, <2>1, Equal
<1> QED
  BY <1>2, <1>7, <1>9 DEF EditInv, Seen, Ended

\* Enter: the NUL that stops runcmd.
LEMMA Entered ==
  ASSUME EditInv, NEW c \in Keys, pc = "read", Ends(c)
  PROVE  EditInv'
<1> USE MonitorAssumption
<1>1. TypeOK
  BY DEF EditInv
<1>2. /\ buf' = [buf EXCEPT ![i] = 0] /\ line' = shown
      /\ pc' = "gobble" /\ p' = 0 /\ argc' = 0 /\ argv' = <<>>
      /\ UNCHANGED <<i, shown>>
  BY DEF Ends
<1>3. /\ buf \in [0..(BUFLEN - 1) -> Byte] /\ i \in 0..(BUFLEN - 1) /\ 0 \in Byte
  BY <1>1 DEF TypeOK, Byte
<1>4. buf' \in [0..(BUFLEN - 1) -> Byte] /\ buf'[i] = 0
  BY <1>2, <1>3
<1>5. TypeOK'
  BY <1>1, <1>2, <1>4 DEF TypeOK
<1>6. Ended'
  BY <1>2, <1>3, <1>4 DEF Ended
<1> QED
  BY <1>2, <1>5, <1>6 DEF EditInv, Seen

-----------------------------------------------------------------------------
(* runcmd *)

LEMMA Gobbles ==
  ASSUME EditInv, gobble
  PROVE  EditInv'
<1> USE MonitorAssumption
<1>1. TypeOK
  BY DEF EditInv
<1>2. /\ buf[p] # 0 /\ buf' = [buf EXCEPT ![p] = 0] /\ p' = p + 1 /\ pc = "gobble"
      /\ UNCHANGED <<i, shown, pc, argc, argv, line>>
  BY DEF gobble, WHITESPACE
<1>3. /\ buf \in [0..(BUFLEN - 1) -> Byte] /\ p \in 0..(BUFLEN - 1) /\ 0 \in Byte
  BY <1>1 DEF TypeOK, Byte
<1>4. PICK e \in p..(BUFLEN - 1) : buf[e] = 0
  BY <1>2 DEF EditInv, Ended
<1>5. e \in (p + 1)..(BUFLEN - 1) /\ e \in 0..(BUFLEN - 1)
  BY <1>2, <1>3, <1>4
<1>6. buf' \in [0..(BUFLEN - 1) -> Byte] /\ buf'[e] = 0
  BY <1>2, <1>3, <1>4, <1>5
<1>7. p' \in 0..(BUFLEN - 1)
  BY <1>2, <1>3, <1>5
<1>8. TypeOK'
  BY <1>1, <1>2, <1>6, <1>7 DEF TypeOK
<1>9. Ended'
  BY <1>2, <1>5, <1>6 DEF Ended
<1> QED
  BY <1>2, <1>8, <1>9 DEF EditInv, Seen

LEMMA Scans ==
  ASSUME EditInv, scan
  PROVE  EditInv'
<1> USE MonitorAssumption
<1>1. TypeOK
  BY DEF EditInv
<1>2. /\ pc = "scan" /\ UNCHANGED <<buf, i, shown, argc, argv, line>>
      /\ \/ buf[p] # 0 /\ p' = p + 1 /\ pc' = "scan"
         \/ p' = p /\ pc' = "gobble"
  BY DEF scan
<1>3. p \in 0..(BUFLEN - 1)
  BY <1>1 DEF TypeOK
<1>4. PICK e \in p..(BUFLEN - 1) : buf[e] = 0
  BY <1>2 DEF EditInv, Ended
<1>5. p' \in 0..(BUFLEN - 1) /\ e \in p'..(BUFLEN - 1)
  BY <1>2, <1>3, <1>4
<1>6. TypeOK'
  BY <1>1, <1>2, <1>5 DEF TypeOK
<1>7. Ended'
  BY <1>2, <1>4, <1>5 DEF Ended
<1> QED
  BY <1>2, <1>6, <1>7 DEF EditInv, Seen

LEMMA Argues ==
  ASSUME EditInv, next_arg
  PROVE  EditInv'
<1> USE MonitorAssumption
<1>1. TypeOK
  BY DEF EditInv
<1>2. /\ pc = "gobble" /\ argc # MAXARGS - 1 /\ pc' = "scan"
      /\ argv' = Append(argv, p) /\ argc' = argc + 1
      /\ UNCHANGED <<buf, i, shown, p, line>>
  BY DEF next_arg
<1>3. argc \in 0..(MAXARGS - 1) /\ p \in 0..(BUFLEN - 1)
      /\ argv \in Seq(0..(BUFLEN - 1)) /\ Len(argv) = argc
  BY <1>1 DEF TypeOK
<1>4. argv' \in Seq(0..(BUFLEN - 1)) /\ Len(argv') = argc' /\ argc' \in 0..(MAXARGS - 1)
  BY <1>2, <1>3
<1>5. TypeOK'
  BY <1>1, <1>2, <1>4 DEF TypeOK
<1>6. Ended'
  BY <1>2 DEF EditInv, Ended
<1> QED
  BY <1>2, <1>5, <1>6 DEF EditInv, Seen

LEMMA Edits == EditInv /\ [Next]_vars => EditInv'
<1> SUFFICES ASSUME EditInv, [Next]_vars PROVE EditInv'
  OBVIOUS
<1>1. ASSUME NEW c \in Keys, readline(c)
      PROVE  EditInv'
  BY <1>1, Erases, Echoes, Entered DEF readline
<1>2. CASE gobble
  BY <1>2, Gobbles
<1>3. CASE too_many
  BY <1>3, Restarts DEF too_many, EditInv
<1>4. CASE next_arg
  BY <1>4, Argues
<1>5. CASE scan
  BY <1>5, Scans
<1>6. CASE end_of_line
  BY <1>6 DEF end_of_line, EditInv, TypeOK, Seen, Ended
<1>7. CASE lookup
  <2>1. CASE Prompt
    BY <2>1, Restarts DEF EditInv
  <2>2. CASE ~Prompt
    <3>1. pc' = "command" /\ UNCHANGED <<buf, i, shown, p, argc, argv, line>>
      BY <1>7, <2>2 DEF lookup
    <3> QED
      BY <3>1 DEF EditInv, TypeOK, Seen, Ended
  <2> QED
    BY <2>1, <2>2
<1>8. CASE command
  BY <1>8, Restarts DEF command, EditInv
<1>9. CASE UNCHANGED vars
  BY <1>9 DEF EditInv, TypeOK, Seen, Ended, vars
<1> QED
  BY <1>1, <1>2, <1>3, <1>4, <1>5, <1>6, <1>7, <1>8, <1>9 DEF Next, runcmd, parse

-----------------------------------------------------------------------------
(* The words of the line *)

\* runcmd has found where the word at a begins, and at e where it ends.
Begun(a) == a < Len(line) /\ \A j \in (a + 1)..p : line[j] \notin WHITESPACE
WordTo(a, e) == /\ e \in (a + 1)..Len(line)
                /\ \A j \in (a + 1)..e : line[j] \notin WHITESPACE
                /\ e = Len(line) \/ line[e + 1] \in WHITESPACE

\* How far the beginnings of words are known: the character scanned is in a word.
KnownTo == IF pc = "scan" THEN p + 1 ELSE p

\* What runcmd has made of the line up to p, with zeros for white space.
Parsed ==
  /\ Len(line) < BUFLEN /\ p <= Len(line)
  /\ \A k \in 1..Len(line) : line[k] # 0
  /\ buf[Len(line)] = 0
  /\ \A a \in 0..(Len(line) - 1) :
       buf[a] = IF a < p /\ line[a + 1] \in WHITESPACE THEN 0 ELSE line[a + 1]
  /\ \A j, k \in 1..argc : j < k => argv[j] < argv[k]
  /\ \A k \in 1..argc : argv[k] + 1 \in Starts(line) \cap 1..KnownTo
  /\ \A m \in Starts(line) \cap 1..KnownTo : \E k \in 1..argc : m = argv[k] + 1
  /\ pc = "scan" => argc > 0 /\ argv[argc] <= p /\ Begun(argv[argc])
  /\ \A k \in 1..argc : k < argc \/ pc # "scan" => \E e \in Nat : WordTo(argv[k], e)
  /\ pc = "gobble" => \/ p = 0 \/ p = Len(line)
                      \/ line[p] \in WHITESPACE \/ line[p + 1] \in WHITESPACE
  /\ pc \in {"lookup", "command"} => p = Len(line)

WordsInv == /\ pc = "read" => \A k \in 1..Len(shown) : shown[k] # 0
            /\ pc # "read" => Parsed

LEMMA Element ==
  ASSUME NEW T, NEW t \in Seq(T), NEW k \in 1..Len(t)
  PROVE  t[k] \in T
OBVIOUS

\* What the lemmas below need of the types.
LEMMA Typed ==
  ASSUME TypeOK
  PROVE  /\ BUFLEN \in Nat /\ p \in Nat /\ argc \in Nat /\ i \in Nat /\ i < BUFLEN
         /\ Len(line) \in Nat /\ line \in Seq(Byte) /\ shown \in Seq(Byte) /\ Len(shown) \in Nat
         /\ argv \in Seq(0..(BUFLEN - 1)) /\ Len(argv) = argc /\ \A k \in 1..argc : argv[k] \in Nat
         /\ buf \in [0..(BUFLEN - 1) -> Byte] /\ p < BUFLEN
         /\ \A k \in 1..Len(line) : line[k] \in Nat
<1>1. argv \in Seq(0..(BUFLEN - 1)) /\ Len(argv) = argc /\ argc \in Nat
  BY MonitorAssumption DEF TypeOK
<1>2. \A k \in 1..argc : argv[k] \in Nat
  <2> SUFFICES ASSUME NEW k \in 1..argc PROVE argv[k] \in Nat
    OBVIOUS
  <2>1. k \in 1..Len(argv)
    BY <1>1
  <2>2. argv[k] \in 0..(BUFLEN - 1)
    BY <1>1, <2>1, Element
  <2> QED
    BY <2>2
<1>3. line \in Seq(Byte) /\ Byte \subseteq Nat
  BY DEF TypeOK, Byte
<1>4. \A k \in 1..Len(line) : line[k] \in Nat
  <2> SUFFICES ASSUME NEW k \in 1..Len(line) PROVE line[k] \in Nat
    OBVIOUS
  <2>1. line[k] \in Byte
    BY <1>3
  <2> QED
    BY <1>3, <2>1
<1> QED
  BY <1>1, <1>2, <1>3, <1>4, MonitorAssumption DEF TypeOK

\* The character at p, until runcmd comes to the NUL.
LEMMA Character ==
  ASSUME TypeOK, Parsed
  PROVE  /\ buf[p] # 0 => p < Len(line) /\ buf[p] = line[p + 1]
         /\ buf[p] = 0 => p = Len(line)
<1>1. p \in Nat /\ Len(line) \in Nat /\ p <= Len(line) /\ buf[Len(line)] = 0
  BY Typed DEF Parsed
<1>2. CASE p < Len(line)
  <2>1. p \in 0..(Len(line) - 1) /\ p + 1 \in 1..Len(line)
    BY <1>1, <1>2
  <2>2. buf[p] = line[p + 1] /\ line[p + 1] # 0
    BY <1>1, <2>1 DEF Parsed
  <2> QED
    BY <1>2, <2>2
<1>3. CASE p = Len(line)
  BY <1>1, <1>3
<1> QED
  BY <1>1, <1>2, <1>3

\* Typing enters no NUL.
LEMMA Typing ==
  ASSUME EditInv, WordsInv, NEW c \in Keys, pc = "read", Erase(c) \/ Enters(c)
  PROVE  WordsInv'
<1>1. /\ shown \in Seq(Byte) /\ Len(shown) = i /\ i \in Nat
      /\ \A k \in 1..Len(shown) : shown[k] # 0
  BY Length DEF EditInv, WordsInv
<1>2. pc' = "read" /\ \A k \in 1..Len(shown') : shown'[k] # 0
  <2>1. CASE Erase(c)
    <3>1. i > 0 /\ shown' = SubSeq(shown, 1, Len(shown) - 1) /\ pc' = pc
      BY <2>1 DEF Erase, Echo, BS
    <3> QED
      BY <1>1, <3>1
  <2>2. CASE Enters(c)
    <3>1. c \in Nat /\ c >= 32 /\ shown' = Append(shown, c) /\ pc' = pc
      BY <2>2, MonitorAssumption DEF Enters, Echo, BS
    <3> QED
      BY <1>1, <3>1
  <2> QED
    BY <2>1, <2>2
<1> QED
  BY <1>2 DEF WordsInv

LEMMA HandsOver ==
  ASSUME EditInv, WordsInv, NEW c \in Keys, pc = "read", Ends(c)
  PROVE  WordsInv'
<1>1. /\ shown \in Seq(Byte) /\ Len(shown) = i /\ i \in Nat /\ i < BUFLEN
      /\ \A k \in 1..i : shown[k] # 0 /\ shown[k] = buf[k - 1]
      /\ buf \in [0..(BUFLEN - 1) -> Byte] /\ BUFLEN \in Nat
  BY Length, Typed DEF EditInv, WordsInv
<1>2. /\ buf' = [buf EXCEPT ![i] = 0] /\ line' = shown
      /\ pc' = "gobble" /\ p' = 0 /\ argc' = 0 /\ argv' = <<>>
  BY DEF Ends
<1>3. /\ buf'[i] = 0 /\ \A a \in 0..(i - 1) : buf'[a] = buf[a]
  BY <1>1, <1>2
<1>4. \A a \in 0..(i - 1) : buf'[a] = shown[a + 1]
  <2> SUFFICES ASSUME NEW a \in 0..(i - 1) PROVE buf[a] = shown[a + 1]
    BY <1>3
  <2>1. a + 1 \in 1..i /\ (a + 1) - 1 = a
    BY <1>1
  <2> QED
    BY <1>1, <2>1
<1>5. KnownTo' = 0 /\ 1..0 = {}
  BY <1>2 DEF KnownTo
<1>6. Parsed'
  <2>1. /\ Len(line') < BUFLEN /\ p' <= Len(line') /\ buf'[Len(line')] = 0
        /\ \A k \in 1..Len(line') : line'[k] # 0
    BY <1>1, <1>2, <1>3
  <2>2. \A a \in 0..(Len(line') - 1) :
          buf'[a] = IF a < p' /\ line'[a + 1] \in WHITESPACE THEN 0 ELSE line'[a + 1]
    BY <1>1, <1>2, <1>4
  <2> QED
    BY <1>2, <1>5, <2>1, <2>2 DEF Parsed
<1> QED
  BY <1>2, <1>6 DEF WordsInv

LEMMA Gobbled ==
  ASSUME TypeOK, Parsed, gobble
  PROVE  Parsed'
<1>1. /\ pc = "gobble" /\ buf[p] \in WHITESPACE /\ buf[p] # 0
      /\ buf' = [buf EXCEPT ![p] = 0] /\ p' = p + 1
      /\ UNCHANGED <<i, shown, pc, argc, argv, line>>
  BY DEF gobble, WHITESPACE
<1>2. p < Len(line) /\ line[p + 1] \in WHITESPACE
  BY <1>1, Character
<1>3. /\ BUFLEN \in Nat /\ p \in Nat /\ argc \in Nat /\ Len(line) \in Nat
      /\ buf \in [0..(BUFLEN - 1) -> Byte] /\ \A k \in 1..argc : argv[k] \in Nat
  BY Typed
<1>4. Len(line) < BUFLEN /\ buf[Len(line)] = 0
  BY DEF Parsed
<1>5. buf'[p] = 0 /\ \A a \in 0..Len(line) : a # p => buf'[a] = buf[a]
  BY <1>1, <1>2, <1>3, <1>4
<1>6. /\ Len(line') < BUFLEN /\ p' <= Len(line') /\ buf'[Len(line')] = 0
      /\ \A k \in 1..Len(line') : line'[k] # 0
  BY <1>1, <1>2, <1>3, <1>4, <1>5 DEF Parsed
<1>7. \A a \in 0..(Len(line') - 1) :
        buf'[a] = IF a < p' /\ line'[a + 1] \in WHITESPACE THEN 0 ELSE line'[a + 1]
  <2> SUFFICES ASSUME NEW a \in 0..(Len(line) - 1)
               PROVE  buf'[a] = IF a < p + 1 /\ line[a + 1] \in WHITESPACE THEN 0 ELSE line[a + 1]
    BY <1>1
  <2>1. buf[a] = IF a < p /\ line[a + 1] \in WHITESPACE THEN 0 ELSE line[a + 1]
    BY DEF Parsed
  <2>2. CASE a = p
    BY <1>2, <1>3, <1>5, <2>2
  <2>3. CASE a # p
    <3>1. a \in 0..Len(line) /\ (a < p + 1 <=> a < p)
      BY <1>3, <2>3
    <3> QED
      BY <1>5, <2>1, <2>3, <3>1
  <2> QED
    BY <2>2, <2>3
<1>8. p + 1 \notin Starts(line)
  BY <1>2 DEF Starts
<1>9. KnownTo = p /\ KnownTo' = p + 1
  BY <1>1 DEF KnownTo
<1>10. Starts(line) \cap 1..KnownTo' = Starts(line) \cap 1..KnownTo
  BY <1>3, <1>8, <1>9 DEF Starts
<1>11. Starts(line)' = Starts(line)
  BY <1>1 DEF Starts
<1>12. \A k \in 1..argc : \E e \in Nat : WordTo(argv[k], e)
  BY <1>1 DEF Parsed
<1>13. \A k \in 1..argc' : \E e \in Nat : WordTo(argv[k], e)'
  BY <1>1, <1>12 DEF WordTo
<1>14. p' # 0 /\ line'[p'] \in WHITESPACE
  BY <1>1, <1>2, <1>3
<1> QED
  BY <1>1, <1>6, <1>7, <1>10, <1>11, <1>13, <1>14 DEF Parsed

LEMMA Argued ==
  ASSUME TypeOK, Parsed, next_arg
  PROVE  Parsed'
<1>1. /\ pc = "gobble" /\ buf[p] \notin WHITESPACE /\ buf[p] # 0
      /\ pc' = "scan" /\ argv' = Append(argv, p) /\ argc' = argc + 1
      /\ UNCHANGED <<buf, i, shown, p, line>>
  BY DEF next_arg
<1>2. p < Len(line) /\ line[p + 1] \notin WHITESPACE
  BY <1>1, Character
<1>3. /\ p \in Nat /\ argc \in Nat /\ Len(line) \in Nat /\ argv \in Seq(0..(BUFLEN - 1)) /\ Len(argv) = argc
      /\ \A k \in 1..argc : argv[k] \in Nat
  BY Typed
<1>4. KnownTo = p /\ KnownTo' = p + 1
  BY <1>1 DEF KnownTo
<1>5. p + 1 \in Starts(line)
  <2>1. p = 0 \/ line[p] \in WHITESPACE
    BY <1>1, <1>2, <1>3 DEF Parsed
  <2>2. p + 1 \in 1..Len(line) /\ (p + 1) - 1 = p /\ (p = 0 => p + 1 = 1)
    BY <1>2, <1>3
  <2> QED
    BY <1>2, <2>1, <2>2 DEF Starts
<1>6. /\ argv'[argc'] = p /\ \A k \in 1..argc : argv'[k] = argv[k]
      /\ \A k \in 1..argc' : k = argc' \/ k \in 1..argc
      /\ argc' \in 1..argc' /\ \A k \in 1..argc : k \in 1..argc' /\ k < argc'
  BY <1>1, <1>3
<1>7. \A k \in 1..argc : argv[k] + 1 \in Starts(line) /\ argv[k] < p
  <2> SUFFICES ASSUME NEW k \in 1..argc PROVE argv[k] + 1 \in Starts(line) /\ argv[k] < p
    OBVIOUS
  <2>1. argv[k] + 1 \in Starts(line) /\ argv[k] + 1 \in 1..p
    BY <1>4 DEF Parsed
  <2> QED
    BY <1>3, <2>1
<1>8. \A j, k \in 1..argc' : j < k => argv'[j] < argv'[k]
  <2> SUFFICES ASSUME NEW j \in 1..argc', NEW k \in 1..argc', j < k PROVE argv'[j] < argv'[k]
    OBVIOUS
  <2>1. j \in 1..argc
    BY <1>1, <1>3, <1>6
  <2>2. CASE k = argc'
    BY <1>6, <1>7, <2>1, <2>2
  <2>3. CASE k \in 1..argc
    BY <1>6, <2>1, <2>3 DEF Parsed
  <2> QED
    BY <1>6, <2>2, <2>3
<1>9. \A k \in 1..argc' : argv'[k] + 1 \in Starts(line) \cap 1..(p + 1)
  <2> SUFFICES ASSUME NEW k \in 1..argc' PROVE argv'[k] + 1 \in Starts(line) \cap 1..(p + 1)
    OBVIOUS
  <2>1. CASE k = argc'
    BY <1>3, <1>5, <1>6, <2>1
  <2>2. CASE k \in 1..argc
    <3>1. argv[k] \in Nat /\ argv[k] < p /\ argv[k] + 1 \in Starts(line)
      BY <1>3, <1>7, <2>2
    <3> QED
      BY <1>3, <1>6, <2>2, <3>1
  <2> QED
    BY <1>6, <2>1, <2>2
<1>10. \A m \in Starts(line) \cap 1..(p + 1) : \E k \in 1..argc' : m = argv'[k] + 1
  <2> SUFFICES ASSUME NEW m \in Starts(line) \cap 1..(p + 1) PROVE \E k \in 1..argc' : m = argv'[k] + 1
    OBVIOUS
  <2>1. CASE m = p + 1
    BY <1>6, <2>1
  <2>2. CASE m # p + 1
    <3>1. m \in Starts(line) \cap 1..p
      BY <1>3, <2>2
    <3>2. PICK k \in 1..argc : m = argv[k] + 1
      BY <1>4, <3>1 DEF Parsed
    <3> QED
      BY <1>6, <3>2
  <2> QED
    BY <2>1, <2>2
<1>11. \A k \in 1..argc' : k < argc' => \E e \in Nat : WordTo(argv[k], e)'
  <2> SUFFICES ASSUME NEW k \in 1..argc', k < argc' PROVE \E e \in Nat : WordTo(argv[k], e)'
    OBVIOUS
  <2>1. k \in 1..argc
    BY <1>1, <1>3
  <2>2. PICK e \in Nat : WordTo(argv[k], e)
    BY <1>1, <2>1 DEF Parsed
  <2>3. WordTo(argv[k], e)'
    BY <1>1, <1>6, <2>1, <2>2 DEF WordTo
  <2> QED
    BY <2>3
<1>12. Begun(argv[argc])' /\ argv'[argc'] <= p' /\ argc' > 0
  <2>1. (p + 1)..p = {}
    BY <1>3
  <2> QED
    BY <1>1, <1>2, <1>3, <1>6, <2>1 DEF Begun
<1>13. Starts(line)' = Starts(line)
  BY <1>1 DEF Starts
<1> QED
  BY <1>1, <1>4, <1>8, <1>9, <1>10, <1>11, <1>12, <1>13 DEF Parsed

LEMMA Scanned ==
  ASSUME TypeOK, Parsed, scan
  PROVE  Parsed'
<1>1. pc = "scan" /\ UNCHANGED <<buf, i, shown, argc, argv, line>>
  BY DEF scan
<1>2. /\ p \in Nat /\ argc \in Nat /\ Len(line) \in Nat /\ argv \in Seq(0..(BUFLEN - 1)) /\ Len(argv) = argc
      /\ \A k \in 1..argc : argv[k] \in Nat
  BY Typed
<1>3. Starts(line)' = Starts(line) /\ KnownTo = p + 1
  BY <1>1 DEF Starts, KnownTo
<1>4. argc > 0 /\ argv[argc] <= p /\ Begun(argv[argc]) /\ argc \in 1..argc
  BY <1>1, <1>2 DEF Parsed
<1>5. CASE buf[p] \notin WHITESPACE \cup {0}
  <2>1. p' = p + 1 /\ pc' = pc
    BY <1>5 DEF scan
  <2>2. p < Len(line) /\ line[p + 1] \notin WHITESPACE
    BY <1>5, Character
  <2>3. KnownTo' = p + 2
    BY <1>1, <1>2, <2>1 DEF KnownTo
  <2>4. p + 2 \notin Starts(line)
    <3>1. p + 2 # 1 /\ (p + 2) - 1 = p + 1
      BY <1>2
    <3> QED
      BY <2>2, <3>1 DEF Starts
  <2>5. Starts(line) \cap 1..(p + 2) = Starts(line) \cap 1..(p + 1)
    BY <1>2, <2>4 DEF Starts
  <2>6. Begun(argv[argc])'
    <3> SUFFICES ASSUME NEW j \in (argv[argc] + 1)..(p + 1) PROVE line[j] \notin WHITESPACE
      BY <1>1, <1>4, <2>1 DEF Begun
    <3>1. argv[argc] \in Nat
      BY <1>2, <1>4
    <3>2. j = p + 1 \/ j \in (argv[argc] + 1)..p
      BY <1>2, <3>1
    <3> QED
      BY <1>4, <2>2, <3>2 DEF Begun
  <2>7. argv'[argc'] <= p'
    BY <1>1, <1>2, <1>4, <2>1
  <2>8. \A a \in 0..(Len(line) - 1) :
          buf[a] = IF a < p + 1 /\ line[a + 1] \in WHITESPACE THEN 0 ELSE line[a + 1]
    <3> SUFFICES ASSUME NEW a \in 0..(Len(line) - 1)
                 PROVE  buf[a] = IF a < p + 1 /\ line[a + 1] \in WHITESPACE THEN 0 ELSE line[a + 1]
      OBVIOUS
    <3>1. buf[a] = IF a < p /\ line[a + 1] \in WHITESPACE THEN 0 ELSE line[a + 1]
      BY DEF Parsed
    <3>2. a = p \/ (a < p + 1 <=> a < p)
      BY <1>2
    <3> QED
      BY <2>2, <3>1, <3>2
  <2>9. \A k \in 1..argc : k < argc => \E e \in Nat : WordTo(argv[k], e)'
    BY <1>1 DEF Parsed, WordTo
  <2>10. p' <= Len(line')
    BY <1>1, <1>2, <2>1, <2>2
  <2> QED
    BY <1>1, <1>3, <1>4, <2>1, <2>3, <2>5, <2>6, <2>7, <2>8, <2>9, <2>10 DEF Parsed
<1>6. CASE buf[p] \in WHITESPACE \cup {0}
  <2>1. p' = p /\ pc' = "gobble"
    BY <1>6 DEF scan
  <2>2. p = Len(line) \/ (p < Len(line) /\ line[p + 1] \in WHITESPACE)
    BY <1>6, Character DEF WHITESPACE
  <2>3. KnownTo' = p
    BY <2>1 DEF KnownTo
  <2>4. p + 1 \notin Starts(line)
    BY <1>2, <2>2 DEF Starts
  <2>5. Starts(line) \cap 1..p = Starts(line) \cap 1..(p + 1)
    BY <1>2, <2>4 DEF Starts
  <2>6. WordTo(argv[argc], p)
    <3>1. argv[argc] \in Nat
      BY <1>2, <1>4
    <3>2. argv[argc] # p
      <4> SUFFICES ASSUME argv[argc] = p PROVE FALSE
        OBVIOUS
      <4>1. p + 1 \in Starts(line)
        BY <1>3, <1>4 DEF Parsed
      <4> QED
        BY <2>4, <4>1
    <3>3. p \in (argv[argc] + 1)..Len(line)
      BY <1>2, <1>4, <2>2, <3>1, <3>2
    <3> QED
      BY <1>4, <2>2, <3>3 DEF WordTo, Begun
  <2>7. \A k \in 1..argc : \E e \in Nat : WordTo(argv[k], e)
    <3> SUFFICES ASSUME NEW k \in 1..argc PROVE \E e \in Nat : WordTo(argv[k], e)
      OBVIOUS
    <3>1. CASE k = argc
      BY <1>2, <2>6, <3>1
    <3>2. CASE k < argc
      BY <3>2 DEF Parsed
    <3> QED
      BY <1>2, <3>1, <3>2
  <2>8. \A k \in 1..argc' : \E e \in Nat : WordTo(argv[k], e)'
    BY <1>1, <2>7 DEF WordTo
  <2> QED
    BY <1>1, <1>3, <2>1, <2>2, <2>3, <2>5, <2>8 DEF Parsed
<1> QED
  BY <1>5, <1>6

\* Nothing else changes what has been parsed.
LEMMA Kept ==
  ASSUME Parsed, UNCHANGED <<buf, p, argc, argv, line>>, pc # "scan", pc' # "scan",
         pc' = "gobble" => pc = "gobble",
         pc' \in {"lookup", "command"} => p = Len(line)
  PROVE  Parsed'
<1>1. KnownTo' = KnownTo /\ Starts(line)' = Starts(line)
  BY DEF KnownTo, Starts
<1>2. \A k \in 1..argc' : \E e \in Nat : WordTo(argv[k], e)'
  BY DEF Parsed, WordTo
<1> QED
  BY <1>1, <1>2 DEF Parsed

LEMMA Prompted ==
  ASSUME Prompt
  PROVE  WordsInv'
<1>1. pc' = "read" /\ shown' = <<>>
  BY DEF Prompt
<1>2. Len(<<>>) = 0 /\ 1..0 = {}
  OBVIOUS
<1> QED
  BY <1>1, <1>2 DEF WordsInv

LEMMA Spells == EditInv /\ WordsInv /\ [Next]_vars => WordsInv'
<1> SUFFICES ASSUME EditInv, WordsInv, [Next]_vars PROVE WordsInv'
  OBVIOUS
<1> USE DEF WordsInv
<1>1. TypeOK
  BY DEF EditInv
<1>2. ASSUME NEW c \in Keys, readline(c)
      PROVE  WordsInv'
  BY <1>2, Typing, HandsOver DEF readline
<1>3. CASE gobble
  BY <1>1, <1>3, Gobbled DEF gobble
<1>4. CASE too_many
  BY <1>4, Prompted DEF too_many
<1>5. CASE next_arg
  BY <1>1, <1>5, Argued DEF next_arg
<1>6. CASE scan
  <2>1. pc = "scan" /\ pc' \in {"scan", "gobble"}
    BY <1>6 DEF scan
  <2> QED
    BY <1>1, <1>6, <2>1, Scanned
<1>7. CASE end_of_line
  <2>1. pc = "gobble" /\ buf[p] = 0 /\ pc' = "lookup" /\ UNCHANGED <<buf, p, argc, argv, line>>
    BY <1>7 DEF end_of_line
  <2>2. Parsed /\ p = Len(line)
    BY <1>1, <2>1, Character
  <2> QED
    BY <2>1, <2>2, Kept
<1>8. CASE lookup
  <2>1. CASE Prompt
    BY <2>1, Prompted
  <2>2. CASE ~Prompt
    <3>1. pc = "lookup" /\ pc' = "command" /\ UNCHANGED <<buf, p, argc, argv, line>>
      BY <1>8, <2>2 DEF lookup
    <3>2. Parsed /\ p = Len(line)
      BY <3>1 DEF Parsed
    <3> QED
      BY <3>1, <3>2, Kept
  <2> QED
    BY <2>1, <2>2
<1>9. CASE command
  BY <1>9, Prompted DEF command
<1>10. CASE UNCHANGED vars
  <2>1. UNCHANGED <<buf, p, argc, argv, line>> /\ pc' = pc /\ shown' = shown
    BY <1>10 DEF vars
  <2>2. Parsed => Parsed'
    BY <2>1 DEF Parsed, KnownTo, Starts, WordTo, Begun
  <2> QED
    BY <2>1, <2>2
<1> QED
  BY <1>2, <1>3, <1>4, <1>5, <1>6, <1>7, <1>8, <1>9, <1>10 DEF Next, runcmd, parse

\* The NUL that ends an argument is where its word ends.
LEMMA Cuts ==
  ASSUME TypeOK, Parsed, p = Len(line), NEW a \in Nat, NEW e \in Nat, WordTo(a, e)
  PROVE  CString(a) = WordAt(line, a + 1)
<1>1. /\ BUFLEN \in Nat /\ Len(line) \in Nat /\ line \in Seq(Byte) /\ Len(line) < BUFLEN
      /\ e \in (a + 1)..Len(line) /\ buf[Len(line)] = 0
  BY Typed DEF Parsed, WordTo
<1>2. buf[e] = 0
  <2>1. CASE e = Len(line)
    BY <1>1, <2>1
  <2>2. CASE e # Len(line)
    <3>1. e \in 0..(Len(line) - 1) /\ e < p /\ line[e + 1] \in WHITESPACE
      BY <1>1, <2>2 DEF WordTo
    <3> QED
      BY <3>1 DEF Parsed
  <2> QED
    BY <2>1, <2>2
<1>3. \A k \in a..(e - 1) : buf[k] = line[k + 1] /\ buf[k] # 0
  <2> SUFFICES ASSUME NEW k \in a..(e - 1) PROVE buf[k] = line[k + 1] /\ buf[k] # 0
    OBVIOUS
  <2>1. k \in 0..(Len(line) - 1) /\ k + 1 \in (a + 1)..e /\ k + 1 \in 1..Len(line)
    BY <1>1
  <2>2. line[k + 1] \notin WHITESPACE /\ line[k + 1] # 0
    BY <2>1 DEF WordTo, Parsed
  <2> QED
    BY <2>1, <2>2 DEF Parsed
<1> DEFINE Nul(m)    == buf[m] = 0 /\ \A k \in a..(m - 1) : buf[k] # 0
           Inside(m) == \A j \in (a + 1)..m : line[j] \notin WHITESPACE
           End(m)    == Inside(m) /\ ~(m < Len(line) /\ Inside(m + 1))
<1>4. e \in a..(BUFLEN - 1) /\ Nul(e)
  BY <1>1, <1>2, <1>3
<1>5. ASSUME NEW m \in a..(BUFLEN - 1), Nul(m) PROVE m = e
  <2>1. ~(m < e)
    BY <1>1, <1>3, <1>5
  <2>2. ~(e < m)
    BY <1>1, <1>2, <1>5
  <2> QED
    BY <1>1, <2>1, <2>2
<1>6. (CHOOSE m \in a..(BUFLEN - 1) : Nul(m)) = e
  <2> HIDE DEF Nul
  <2> QED
    BY <1>4, <1>5
<1>7. CString(a) = [k \in 1..(e - a) |-> buf[a + k - 1]]
  BY <1>6 DEF CString
<1>8. e \in (a + 1)..Len(line) /\ End(e)
  <2>1. Inside(e)
    BY DEF WordTo
  <2>2. e < Len(line) => ~Inside(e + 1)
    BY <1>1 DEF WordTo
  <2> QED
    BY <1>1, <2>1, <2>2
<1>9. ASSUME NEW m \in (a + 1)..Len(line), End(m) PROVE m = e
  <2>1. ~(m < e)
    <3> SUFFICES ASSUME m < e PROVE FALSE
      OBVIOUS
    <3>1. m < Len(line) /\ \A j \in (a + 1)..(m + 1) : j \in (a + 1)..e
      BY <1>1
    <3> QED
      BY <1>8, <1>9, <3>1
  <2>2. ~(e < m)
    <3> SUFFICES ASSUME e < m PROVE FALSE
      OBVIOUS
    <3>1. e < Len(line) /\ \A j \in (a + 1)..(e + 1) : j \in (a + 1)..m
      BY <1>1
    <3> QED
      BY <1>8, <1>9, <3>1
  <2> QED
    BY <1>1, <2>1, <2>2
<1>10. (CHOOSE m \in (a + 1)..Len(line) : End(m)) = e
  <2> HIDE DEF End
  <2> QED
    BY <1>8, <1>9
<1>11. WordAt(line, a + 1) = SubSeq(line, a + 1, e)
  BY <1>10 DEF WordAt
<1>12. SubSeq(line, a + 1, e) = [k \in 1..(e - a) |-> line[a + k]]
  <2>1. e - (a + 1) + 1 = e - a /\ \A k \in 1..(e - a) : (a + 1) + k - 1 = a + k
    BY <1>1
  <2> QED
    BY <2>1
<1>13. \A k \in 1..(e - a) : buf[a + k - 1] = line[a + k]
  <2> SUFFICES ASSUME NEW k \in 1..(e - a) PROVE buf[a + k - 1] = line[a + k]
    OBVIOUS
  <2>1. a + k - 1 \in a..(e - 1) /\ (a + k - 1) + 1 = a + k
    BY <1>1
  <2> QED
    BY <1>3, <2>1
<1> QED
  BY <1>7, <1>11, <1>12, <1>13

LEMMA Delivers == TypeOK /\ WordsInv => ArgsAreWords
<1> SUFFICES ASSUME TypeOK, WordsInv, pc \in {"lookup", "command"}
             PROVE  /\ {<<argv[k] + 1, Args[k]>> : k \in 1..argc} = WordSet(line)
                    /\ \A j, k \in 1..argc : j < k => argv[j] < argv[k]
  BY DEF ArgsAreWords
<1>1. Parsed /\ p = Len(line) /\ KnownTo = p /\ Len(line) \in Nat
  BY Typed DEF WordsInv, Parsed, KnownTo
<1>2. \A k \in 1..argc : argv[k] \in Nat /\ argv[k] + 1 \in Starts(line)
  BY <1>1, Typed DEF Parsed
<1>3. \A m \in Starts(line) : \E k \in 1..argc : m = argv[k] + 1
  <2>1. Starts(line) \cap 1..p = Starts(line)
    BY <1>1 DEF Starts
  <2> QED
    BY <1>1, <2>1 DEF Parsed
<1>4. ASSUME NEW k \in 1..argc
      PROVE  Args[k] = WordAt(line, argv[k] + 1)
  <2>1. PICK e \in Nat : WordTo(argv[k], e)
    BY <1>1 DEF Parsed
  <2>2. argv[k] \in Nat
    BY <1>2
  <2> QED
    BY <1>1, <2>1, <2>2, Cuts DEF Args
<1>5. {<<argv[k] + 1, Args[k]>> : k \in 1..argc} = {<<m, WordAt(line, m)>> : m \in Starts(line)}
  BY <1>2, <1>3, <1>4
<1> QED
  BY <1>1, <1>5 DEF WordSet, Parsed

-----------------------------------------------------------------------------
(* The monitor *)

MonitorInv == EditInv /\ WordsInv

LEMMA Begins == Init => MonitorInv
<1>1. Init => WordsInv
  <2>1. 1..0 = {} /\ Len(<<>>) = 0
    OBVIOUS
  <2> QED
    BY <2>1 DEF Init, WordsInv
<1> QED
  BY <1>1, Empty DEF MonitorInv

LEMMA Prompts ==
  ASSUME TypeOK, Prompt
  PROVE  MonitorInv'
BY Restarts, Prompted DEF MonitorInv

LEMMA Follows == MonitorInv /\ [Next]_vars => MonitorInv'
BY Edits, Spells DEF MonitorInv

LEMMA Holds == Spec => []MonitorInv
BY Begins, Follows, PTL DEF Spec

\* No index of readline or runcmd leaves buf or argv, whatever is typed (module
\* Monitor, TypeOK).
THEOREM InBounds == Spec => []TypeOK
<1>1. MonitorInv => TypeOK
  BY DEF MonitorInv, EditInv
<1> QED
  BY <1>1, Holds, PTL

\* The line entered is the line seen (module Monitor, Seen).
THEOREM AlwaysSeen == Spec => []Seen
<1>1. MonitorInv => Seen
  BY DEF MonitorInv, EditInv
<1> QED
  BY <1>1, Holds, PTL

\* A command is called with the words of the line just entered, whatever the static
\* buffer held before and however runcmd has cut it up (module Monitor, ArgsAreWords).
THEOREM AlwaysWords == Spec => []ArgsAreWords
<1>1. MonitorInv => ArgsAreWords
  BY Delivers DEF MonitorInv, EditInv
<1> QED
  BY <1>1, Holds, PTL

-----------------------------------------------------------------------------
(* Where the functions are *)

Names == {"i386_init", "_panic", "test_backtrace", "mon_backtrace",
          "exec_hidden_cases", "runcmd", "monitor"}

Rank(f) == (CHOOSE k \in 1..Len(Functions) : Functions[k] = f) - 1

LEMMA Ranks ==
  /\ Rank("i386_init") = 0 /\ Rank("_panic") = 1 /\ Rank("test_backtrace") = 2
  /\ Rank("mon_backtrace") = 3 /\ Rank("exec_hidden_cases") = 4 /\ Rank("runcmd") = 5
  /\ Rank("monitor") = 6
<1>1. /\ Len(Functions) = 7
      /\ Functions[1] = "i386_init" /\ Functions[2] = "_panic" /\ Functions[3] = "test_backtrace"
      /\ Functions[4] = "mon_backtrace" /\ Functions[5] = "exec_hidden_cases"
      /\ Functions[6] = "runcmd" /\ Functions[7] = "monitor"
  BY DEF Functions
<1>2. \A k \in 1..7 : k = 1 \/ k = 2 \/ k = 3 \/ k = 4 \/ k = 5 \/ k = 6 \/ k = 7
  OBVIOUS
<1>3. ASSUME NEW k \in 1..7
      PROVE  (CHOOSE j \in 1..Len(Functions) : Functions[j] = Functions[k]) = k
  <2> DEFINE c == CHOOSE j \in 1..Len(Functions) : Functions[j] = Functions[k]
  <2>1. c \in 1..7 /\ Functions[c] = Functions[k]
    BY <1>1
  <2> HIDE DEF c
  <2>2. c = k
    BY <1>1, <1>2, <2>1
  <2> QED
    BY <2>2 DEF c
<1>4. \A k \in 1..7 : Rank(Functions[k]) = k - 1
  BY <1>3 DEF Rank
<1> QED
  BY <1>1, <1>4

\* The address as the linear expression it is.
LEMMA Linked ==
  ASSUME NEW n \in Int
  PROVE  /\ At("i386_init", n) = i386_init_at + n
         /\ At("_panic", n) = i386_init_at + n + FNSIZE
         /\ At("test_backtrace", n) = i386_init_at + n + 2 * FNSIZE
         /\ At("mon_backtrace", n) = i386_init_at + n + 3 * FNSIZE
         /\ At("exec_hidden_cases", n) = i386_init_at + n + 4 * FNSIZE
         /\ At("runcmd", n) = i386_init_at + n + 5 * FNSIZE
         /\ At("monitor", n) = i386_init_at + n + 6 * FNSIZE
<1>1. \A f : At(f, n) = i386_init_at + n + FNSIZE * Rank(f)
  BY DEF At, Rank
<1>2. FNSIZE \in Int /\ i386_init_at \in Int
  BY KernelAssumption, Numbers
<1> QED
  BY <1>1, <1>2, Ranks

LEMMA Apart ==
  ASSUME NEW f \in Names, NEW g \in Names, NEW n \in 0..4, NEW k \in 0..4, At(f, n) = At(g, k)
  PROVE  f = g /\ n = k
<1>1. FNSIZE \in Int /\ FNSIZE > 4 /\ i386_init_at \in Int
  BY KernelAssumption, Numbers
<1>2. n \in Int /\ k \in Int /\ 0 <= n /\ n <= 4 /\ 0 <= k /\ k <= 4
  OBVIOUS
<1> QED
  BY <1>1, <1>2, Linked DEF Names

LEMMA Named ==
  ASSUME NEW f \in Names, NEW n \in 0..(FNSIZE - 1)
  PROVE  /\ FunctionOf(At(f, n)) = f
         /\ At(f, n) \in Image /\ At(f, n) >= i386_init_at /\ At(f, n) \in Int
<1>1. FNSIZE \in Nat \ {0} /\ i386_init_at \in Int /\ KERNBASE \in Int /\ PTSIZE \in Int /\ n \in Int
  BY KernelAssumption, Numbers
<1>2. Len(Functions) = 7
  BY DEF Functions
<1>3. i386_init_at >= KERNBASE /\ i386_init_at + FNSIZE * 7 - 1 < KERNBASE + PTSIZE
  BY <1>1, <1>2, KernelAssumption, EntryAssumption DEF Image
<1>4. PICK q \in 0..6 : Functions[q + 1] = f /\ At(f, n) = i386_init_at + (q * FNSIZE + n)
  <2>1. /\ 0 \in 0..6 /\ 1 \in 0..6 /\ 2 \in 0..6 /\ 3 \in 0..6 /\ 4 \in 0..6 /\ 5 \in 0..6 /\ 6 \in 0..6
        /\ Functions[0 + 1] = "i386_init" /\ Functions[1 + 1] = "_panic"
        /\ Functions[2 + 1] = "test_backtrace" /\ Functions[3 + 1] = "mon_backtrace"
        /\ Functions[4 + 1] = "exec_hidden_cases" /\ Functions[5 + 1] = "runcmd"
        /\ Functions[6 + 1] = "monitor"
    BY DEF Functions
  <2> QED
    BY <1>1, <2>1, Linked DEF Names
<1>5. q * FNSIZE + n \in Int /\ 0 <= q * FNSIZE + n /\ q * FNSIZE + n <= FNSIZE * 7 - 1
  <2>1. q = 0 \/ q = 1 \/ q = 2 \/ q = 3 \/ q = 4 \/ q = 5 \/ q = 6
    OBVIOUS
  <2> QED
    BY <1>1, <2>1
<1>6. (At(f, n) - i386_init_at) \div FNSIZE = q
  <2>1. At(f, n) - i386_init_at = q * FNSIZE + n
    BY <1>1, <1>4, <1>5
  <2> QED
    BY <1>1, <2>1, Division
<1>7. At("monitor", FNSIZE) = i386_init_at + FNSIZE * 7
  BY <1>1, Linked
<1> QED
  BY <1>1, <1>3, <1>4, <1>5, <1>6, <1>7 DEF FunctionOf, Image

-----------------------------------------------------------------------------
(* The frames *)

\* Who calls whom, and how far into the caller it returns.
Links == {<<"i386_init", "test_backtrace", 3>>, <<"i386_init", "monitor", 4>>,
          <<"test_backtrace", "test_backtrace", 2>>, <<"test_backtrace", "mon_backtrace", 2>>,
          <<"exec_hidden_cases", "_panic", FNSIZE>>, <<"_panic", "monitor", 3>>,
          <<"monitor", "runcmd", 3>>, <<"runcmd", "mon_backtrace", 2>>,
          <<"runcmd", "exec_hidden_cases", 2>>}

Callers == Names \cup {"entry"}

Activations == [fn : Names, args : Seq(Int), from : Callers]

\* P[k] is the place of the k-th call's saved ebp on the stack, and Frame(P, k) its
\* address, which is the call's ebp; above the first there is the zero of entry.S.
Frame(P, k) == IF k = 0 THEN 0 ELSE bootstacktop - P[k]

\* The stack is full of frames, each below the one before.  The first done of them are
\* built; the last call may not have saved ebp yet.
Places(P, done) ==
  /\ calls \in Seq(Activations) /\ calls # <<>> /\ calls[1].fn = "i386_init"
  /\ stack \in Seq(Int)
  /\ P \in [0..Len(calls) -> Nat] /\ P[0] = 0
  /\ \A k \in 1..Len(calls) : P[k] = P[k - 1] + Len(calls[k].args) + 2
  /\ \A j, k \in 0..Len(calls) : j < k => P[j] < P[k]
  /\ \/ done = Len(calls) /\ Len(stack) = P[done]
     \/ done = Len(calls) - 1 /\ Len(stack) = P[Len(calls)] - 1
  /\ esp = bootstacktop - Len(stack)
  /\ ebp = Frame(P, done)

\* What the k-th call's caller has left on the stack.
Left(P, k) ==
  /\ \A n \in 1..Len(calls[k].args) : stack[P[k] - 1 - n] = calls[k].args[n]
  /\ IF k = 1 THEN stack[P[k] - 1] = entry_at + 7 /\ calls[k].from = "entry"
     ELSE /\ calls[k].from = calls[k - 1].fn
          /\ \E off \in 0..FNSIZE : /\ <<calls[k - 1].fn, calls[k].fn, off>> \in Links
                                    /\ stack[P[k] - 1] = At(calls[k - 1].fn, off)
  /\ calls[k].fn = "test_backtrace" => Len(calls[k].args) = 1

Built(P, done) ==
  /\ Places(P, done)
  /\ \A k \in 1..Len(calls) : Left(P, k)
  /\ \A k \in 1..done : stack[P[k]] = Frame(P, k - 1)

Top == calls[Len(calls)]

InTop(done) ==
  \E n \in 0..4 : eip = At(Top.fn, n) /\ (done = Len(calls) <=> n # 0)

Lines == [eip : Int, name : Callers, args : [1..5 -> Int]]

\* The walk of a backtrace.
Walked(P) ==
  eip = At("mon_backtrace", 2) =>
    /\ trace \in Seq(Lines) /\ Len(trace) <= Len(calls)
    /\ ebp_b = Frame(P, Len(calls) - Len(trace))
    /\ \A k \in 1..Len(trace) :
         LET call == calls[Len(calls) - k + 1]
         IN  /\ \A n \in 1..Len(call.args) : n <= 5 => trace[k].args[n] = call.args[n]
             /\ call.fn # "_panic" => trace[k].name = call.from

\* The stack is the chain of frames of the calls not yet returned from, and eip is in the
\* latest of them.
Chained == \E P : \E done \in {Len(calls) - 1, Len(calls)} :
             Built(P, done) /\ InTop(done) /\ Walked(P)

-----------------------------------------------------------------------------
(* The panics *)

Messages == {"first", "later", "User address"}

\* Until the BSS is clear, panicstr is whatever was in memory.
Unclear == calls = <<>> \/ eip \in {At("i386_init", 0), At("i386_init", 1)}
\* _panic is running and has not yet said anything.
Telling == eip \in {At("_panic", 0), At("_panic", 1)}

\* panicstr is set once something has been said, and only the first panic is said.
Told ==
  /\ panics \in Seq(Messages)
  /\ Unclear => panics = <<>> /\ said = <<>> /\ pc = "read" /\ i = 0
  /\ ~Unclear => (panicstr = "NULL" <=> said = <<>>)
  /\ calls = <<>> => trace = <<>>
  /\ calls # <<>> /\ Telling =>
       panics # <<>> /\ said = IF Len(panics) = 1 THEN <<>> ELSE <<panics[1]>>
  /\ calls # <<>> /\ ~Telling =>
       said = IF panics = <<>> THEN <<>> ELSE <<panics[1]>>

\* What every step of the kernel keeps: the monitor's own invariant, what the panics
\* have said, and either the way through entry.S or a stack of frames above address 0.
KernelInv ==
  /\ MonitorInv
  /\ Told
  /\ \/ calls = <<>> /\ OnTheWay /\ ~Arrived
     \/ calls # <<>> /\ Mapped /\ esp > 0 /\ Chained

-----------------------------------------------------------------------------
(* Calls and returns *)

LEMMA Inside ==
  ASSUME NEW q \in Nat, NEW w \in Nat, NEW a \in Nat, NEW top \in Nat, NEW len \in Nat,
         q = w + a + 2, q <= top, len >= top - 1
  PROVE  q - 1 \in 1..len /\ \A n \in 1..a : q - 1 - n \in 1..len
OBVIOUS

LEMMA Heights ==
  ASSUME NEW P, NEW done, Places(P, done)
  PROVE  /\ Len(calls) \in Nat /\ Len(calls) >= 1 /\ Len(stack) \in Nat
         /\ \A k \in 0..Len(calls) : P[k] \in Nat /\ P[k] <= P[Len(calls)]
         /\ \A k \in 1..Len(calls) :
              /\ Len(calls[k].args) \in Nat /\ calls[k].args \in Seq(Int) /\ calls[k].fn \in Names
              /\ P[k - 1] \in Nat /\ P[k] = P[k - 1] + Len(calls[k].args) + 2
              /\ P[k] - 1 \in 1..Len(stack)
              /\ \A n \in 1..Len(calls[k].args) : P[k] - 1 - n \in 1..Len(stack)
<1> DEFINE m == Len(calls)
<1>1. m \in Nat /\ m >= 1 /\ Len(stack) \in Nat
  BY DEF Places
<1>2. P \in [0..m -> Nat] /\ \A j, k \in 0..m : j < k => P[j] < P[k]
  BY DEF Places
<1> HIDE DEF m
<1>3. ASSUME NEW k \in 0..m
      PROVE  P[k] \in Nat /\ P[k] <= P[m]
  <2>1. P[k] \in Nat /\ P[m] \in Nat /\ m \in 0..m
    BY <1>1, <1>2
  <2>2. k = m \/ P[k] < P[m]
    BY <1>1, <1>2, <2>1
  <2> QED
    BY <2>1, <2>2
<1>4. Len(stack) >= P[m] - 1
  <2>1. P[m] \in Nat
    BY <1>1, <1>3
  <2> QED
    BY <1>1, <2>1 DEF Places, m
<1>5. ASSUME NEW k \in 1..m
      PROVE  /\ Len(calls[k].args) \in Nat /\ calls[k].args \in Seq(Int) /\ calls[k].fn \in Names
             /\ P[k - 1] \in Nat /\ P[k] = P[k - 1] + Len(calls[k].args) + 2
             /\ P[k] - 1 \in 1..Len(stack)
             /\ \A n \in 1..Len(calls[k].args) : P[k] - 1 - n \in 1..Len(stack)
  <2>1. calls[k] \in Activations
    BY DEF Places, m
  <2>2. calls[k].args \in Seq(Int) /\ Len(calls[k].args) \in Nat /\ calls[k].fn \in Names
    BY <2>1 DEF Activations
  <2>3. P[k - 1] \in Nat /\ P[k] \in Nat /\ P[k] <= P[m] /\ P[m] \in Nat
    BY <1>1, <1>3
  <2>4. P[k] = P[k - 1] + Len(calls[k].args) + 2
    BY DEF Places, m
  <2>5. /\ P[k] - 1 \in 1..Len(stack)
        /\ \A n \in 1..Len(calls[k].args) : P[k] - 1 - n \in 1..Len(stack)
    BY <1>1, <1>4, <2>2, <2>3, <2>4, Inside
  <2> QED
    BY <2>2, <2>3, <2>4, <2>5
<1> QED
  BY <1>1, <1>3, <1>5 DEF m

LEMMA Appended ==
  ASSUME NEW T, NEW t \in Seq(T), NEW e \in T
  PROVE  /\ Append(t, e) \in Seq(T) /\ Len(Append(t, e)) = Len(t) + 1
         /\ Append(t, e)[Len(t) + 1] = e
         /\ \A k \in 1..Len(t) : Append(t, e)[k] = t[k]
OBVIOUS

\* A frame stays what it is as long as nobody writes to it.
LEMMA Stays ==
  ASSUME NEW P, NEW Q, NEW k, Left(P, k), Q[k] = P[k],
         calls'[k] = calls[k], k = 1 \/ calls'[k - 1] = calls[k - 1],
         stack'[P[k] - 1] = stack[P[k] - 1],
         \A n \in 1..Len(calls[k].args) : stack'[P[k] - 1 - n] = stack[P[k] - 1 - n]
  PROVE  Left(Q, k)'
<1>1. CASE k = 1
  BY <1>1 DEF Left
<1>2. CASE k # 1
  BY <1>2 DEF Left
<1> QED
  BY <1>1, <1>2

\* The prologue of a function builds its frame.
LEMMA Parted ==
  ASSUME NEW P, NEW done, Places(P, done)
  PROVE  /\ stack \in Seq(Int) /\ bootstacktop \in Int /\ calls \in Seq(Activations)
         /\ esp = bootstacktop - Len(stack) /\ ebp = Frame(P, done)
         /\ \A j, k \in 0..Len(calls) : j < k => P[j] < P[k]
         /\ P[0] = 0 /\ calls[1].fn = "i386_init" /\ calls # <<>>
BY Numbers DEF Places

LEMMA Saves ==
  ASSUME NEW P, Built(P, Len(calls) - 1), Pushes(<<ebp>>), ebp' = esp', UNCHANGED calls
  PROVE  Built(P, Len(calls))'
<1> DEFINE m == Len(calls)
           d == m - 1
<1>p. Places(P, d)
  BY DEF Built
<1>1. (\A k \in 1..m : Left(P, k)) /\ \A k \in 1..d : stack[P[k]] = Frame(P, k - 1)
  BY DEF Built
<1>2. /\ m \in Nat /\ m >= 1 /\ Len(stack) \in Nat
      /\ \A k \in 0..m : P[k] \in Nat /\ P[k] <= P[m]
      /\ \A k \in 1..m : /\ P[k] - 1 \in 1..Len(stack)
                         /\ \A n \in 1..Len(calls[k].args) : P[k] - 1 - n \in 1..Len(stack)
  BY <1>p, Heights
<1>3. /\ stack \in Seq(Int) /\ bootstacktop \in Int
      /\ Len(stack) = P[m] - 1 /\ esp = bootstacktop - Len(stack) /\ ebp = Frame(P, d)
      /\ \A j, k \in 0..m : j < k => P[j] < P[k]
  <2>1. Len(stack) = P[m] - 1
    BY <1>p, <1>2 DEF Places
  <2> QED
    BY <1>p, <2>1, Parted
<1>4. ebp \in Int
  <2>1. P[d] \in Nat
    BY <1>2
  <2> QED
    BY <1>3, <2>1 DEF Frame
<1>5. P[m] \in Nat /\ P[m] = Len(stack) + 1
  BY <1>2, <1>3
<1>6. stack' = Append(stack, ebp) /\ esp' = esp - 1
  BY <1>3, <1>4 DEF Pushes
<1>7. /\ stack' \in Seq(Int) /\ Len(stack') = P[m] /\ stack'[P[m]] = ebp
      /\ \A k \in 1..Len(stack) : stack'[k] = stack[k]
  <2>1. stack \in Seq(Int)
    BY <1>3
  <2> QED
    BY <1>4, <1>5, <1>6, <2>1, Appended
<1>8. esp' = bootstacktop - P[m] /\ ebp' = Frame(P, m)
  <2>1. m # 0 /\ esp = bootstacktop - Len(stack) /\ bootstacktop \in Int
    BY <1>2, <1>3
  <2>2. esp' = bootstacktop - P[m]
    BY <1>2, <1>5, <1>6, <2>1
  <2> QED
    BY <2>1, <2>2 DEF Frame
<1>9. Places(P, m)'
  BY <1>p, <1>7, <1>8 DEF Places, Frame
<1>10. \A k \in 1..m : Left(P, k)'
  BY <1>1, <1>2, <1>7, Stays
<1>11. \A k \in 1..m : stack'[P[k]] = Frame(P, k - 1)
  <2> SUFFICES ASSUME NEW k \in 1..m PROVE stack'[P[k]] = Frame(P, k - 1)
    OBVIOUS
  <2>1. CASE k = m
    BY <1>3, <1>7, <2>1
  <2>2. CASE k # m
    <3>1. k \in 1..d /\ k \in 0..m /\ m \in 0..m /\ k < m
      BY <1>2, <2>2
    <3>2. P[k] \in 1..Len(stack)
      <4>1. P[k] < P[m] /\ P[k] \in Nat /\ P[k] - 1 \in 1..Len(stack)
        BY <1>2, <1>3, <3>1
      <4> QED
        BY <1>2, <1>5, <4>1
    <3> QED
      BY <1>1, <1>7, <3>1, <3>2
  <2> QED
    BY <2>1, <2>2
<1> QED
  BY <1>9, <1>10, <1>11 DEF Built, Frame

LEMMA Integral ==
  ASSUME NEW f, NEW g, NEW off, <<f, g, off>> \in Links
  PROVE  f \in Names /\ g \in Names /\ off \in 0..FNSIZE /\ At(f, off) \in Int
<1>1. FNSIZE \in Int /\ FNSIZE > 4 /\ i386_init_at \in Int
  BY KernelAssumption, Numbers
<1>2. f \in Names /\ g \in Names /\ off \in {2, 3, 4, FNSIZE}
  BY DEF Links, Names
<1>3. off \in 0..FNSIZE /\ off \in Int
  BY <1>1, <1>2
<1>4. At(f, off) \in Int
  BY <1>1, <1>2, <1>3, Linked DEF Names
<1> QED
  BY <1>2, <1>3, <1>4

LEMMA Joins ==
  ASSUME NEW t \in Seq(Int), NEW u \in Seq(Int)
  PROVE  /\ t \o u \in Seq(Int) /\ Len(t \o u) = Len(t) + Len(u)
         /\ \A k \in 1..Len(t) : (t \o u)[k] = t[k]
         /\ \A k \in 1..Len(u) : (t \o u)[Len(t) + k] = u[k]
OBVIOUS

LEMMA Backwards ==
  ASSUME NEW t \in Seq(Int), NEW passed \in Seq(Int), NEW ret \in Int, NEW w,
         w = Append([k \in 1..Len(passed) |-> passed[Len(passed) - k + 1]], ret)
  PROVE  /\ t \o w \in Seq(Int) /\ Len(w) = Len(passed) + 1
         /\ Len(t \o w) = Len(t) + Len(passed) + 1
         /\ \A k \in 1..Len(t) : (t \o w)[k] = t[k]
         /\ (t \o w)[Len(t) + Len(passed) + 1] = ret
         /\ \A n \in 1..Len(passed) : (t \o w)[Len(t) + Len(passed) + 1 - n] = passed[n]
<1> DEFINE a == Len(passed)
           b == Len(t)
           pushed == [k \in 1..a |-> passed[a - k + 1]]
           words == Append(pushed, ret)
           all == t \o words
<1>1. a \in Nat /\ b \in Nat /\ \A k \in 1..a : passed[k] \in Int
  OBVIOUS
<1> HIDE DEF a
<1>2. \A k \in 1..a : a - k + 1 \in 1..a
  BY <1>1
<1>3. pushed \in [1..a -> Int]
  BY <1>1, <1>2
<1>4. pushed \in Seq(Int) /\ Len(pushed) = a /\ \A k \in 1..a : pushed[k] = passed[a - k + 1]
  BY <1>1, <1>3
<1> HIDE DEF pushed
<1>5. /\ words \in Seq(Int) /\ Len(words) = a + 1 /\ words[a + 1] = ret
      /\ \A k \in 1..a : words[k] = passed[a - k + 1]
  <2>1. /\ words \in Seq(Int) /\ Len(words) = a + 1 /\ words[a + 1] = ret
        /\ \A k \in 1..a : words[k] = pushed[k]
    BY <1>4, Appended
  <2> QED
    BY <1>4, <2>1
<1> HIDE DEF words
<1>6. /\ all \in Seq(Int) /\ Len(all) = b + (a + 1)
      /\ \A k \in 1..b : all[k] = t[k]
      /\ \A k \in 1..(a + 1) : all[b + k] = words[k]
  <2>1. t \in Seq(Int) /\ words \in Seq(Int) /\ Len(words) = a + 1
    BY <1>5
  <2>2. /\ all \in Seq(Int) /\ Len(all) = Len(t) + Len(words)
        /\ \A k \in 1..Len(t) : all[k] = t[k]
        /\ \A k \in 1..Len(words) : all[Len(t) + k] = words[k]
    <3> HIDE DEF b, a
    <3> QED
      BY <2>1, Joins
  <2> QED
    BY <2>1, <2>2
<1> HIDE DEF all, b
<1>7. all[b + a + 1] = ret /\ Len(all) = b + a + 1
  <2>1. a + 1 \in 1..(a + 1) /\ b + (a + 1) = b + a + 1
    BY <1>1
  <2> QED
    BY <1>5, <1>6, <2>1
<1>8. ASSUME NEW n \in 1..a
      PROVE  all[b + a + 1 - n] = passed[n]
  <2>1. /\ a + 1 - n \in 1..a /\ a + 1 - n \in 1..(a + 1)
        /\ b + (a + 1 - n) = b + a + 1 - n /\ a - (a + 1 - n) + 1 = n
    BY <1>1
  <2>2. all[b + (a + 1 - n)] = words[a + 1 - n] /\ words[a + 1 - n] = passed[a - (a + 1 - n) + 1]
    BY <1>5, <1>6, <2>1
  <2> QED
    BY <2>1, <2>2
<1> QED
  <2>1. w = words
    BY DEF words, pushed, a
  <2> QED
    BY <1>5, <1>6, <1>7, <1>8, <2>1 DEF all, a, b

LEMMA Deeper ==
  ASSUME NEW m \in Nat, NEW P, NEW a \in Nat,
         \A k \in 0..m : P[k] \in Nat /\ P[k] <= P[m],
         \A j, k \in 0..m : j < k => P[j] < P[k]
  PROVE  LET Q == [k \in 0..(m + 1) |-> IF k = m + 1 THEN P[m] + a + 2 ELSE P[k]]
         IN  /\ Q \in [0..(m + 1) -> Nat] /\ Q[m + 1] = P[m] + a + 2
             /\ \A k \in 0..m : Q[k] = P[k]
             /\ \A j, k \in 0..(m + 1) : j < k => Q[j] < Q[k]
<1> DEFINE Q == [k \in 0..(m + 1) |-> IF k = m + 1 THEN P[m] + a + 2 ELSE P[k]]
           top == P[m]
<1>1. top \in Nat
  OBVIOUS
<1> HIDE DEF top
<1>2. Q[m + 1] = top + a + 2 /\ \A k \in 0..m : Q[k] = P[k]
  BY DEF top
<1>3. \A k \in 0..(m + 1) : k \in 0..m \/ k = m + 1
  OBVIOUS
<1>4. Q \in [0..(m + 1) -> Nat]
  <2>1. \A k \in 0..(m + 1) : (IF k = m + 1 THEN P[m] + a + 2 ELSE P[k]) \in Nat
    BY <1>1, <1>3 DEF top
  <2> QED
    BY <2>1
<1> HIDE DEF Q
<1>5. ASSUME NEW j \in 0..(m + 1), NEW k \in 0..(m + 1), j < k
      PROVE  Q[j] < Q[k]
  <2>1. j \in 0..m
    BY <1>5
  <2>2. CASE k = m + 1
    <3>1. P[j] \in Nat /\ P[j] <= top /\ Q[j] = P[j]
      BY <1>2, <2>1 DEF top
    <3> HIDE DEF top
    <3> QED
      BY <1>1, <1>2, <2>2, <3>1
  <2>3. CASE k \in 0..m
    BY <1>2, <1>5, <2>1, <2>3
  <2> QED
    BY <1>3, <2>2, <2>3
<1> QED
  BY <1>2, <1>4, <1>5 DEF Q, top

\* A call adds a frame that lacks only ebp.
LEMMA Adds ==
  ASSUME NEW P, Built(P, Len(calls)), NEW f, NEW g, NEW off, <<f, g, off>> \in Links,
         NEW passed \in Seq(Int), g = "test_backtrace" => Len(passed) = 1,
         f = Top.fn, f = FunctionOf(eip), CallFrom(g, passed, At(f, off))
  PROVE  /\ \E Q : Built(Q, Len(calls) - 1)'
         /\ Len(calls') = Len(calls) + 1 /\ calls' \in Seq(Activations)
         /\ \A k \in 1..Len(calls) : calls'[k] = calls[k]
         /\ Top'.fn = g /\ eip' = At(g, 0)
<1>m. PICK m \in Nat : m = Len(calls)
  <2>1. Places(P, Len(calls))
    BY DEF Built
  <2> QED
    BY <2>1, Heights
<1> DEFINE a == Len(passed)
           ret == At(f, off)
           act == [fn |-> g, args |-> passed, from |-> f]
           Q == [k \in 0..(m + 1) |-> IF k = m + 1 THEN P[m] + a + 2 ELSE P[k]]
           top == P[m]
<1>p. Places(P, m)
  BY <1>m DEF Built
<1>1. (\A k \in 1..m : Left(P, k)) /\ \A k \in 1..m : stack[P[k]] = Frame(P, k - 1)
  BY <1>m DEF Built
<1>2. /\ m \in Nat /\ m >= 1 /\ Len(stack) \in Nat
      /\ \A k \in 0..m : P[k] \in Nat /\ P[k] <= P[m]
      /\ \A k \in 1..m : /\ P[k] - 1 \in 1..Len(stack) /\ calls[k].fn \in Names
                         /\ \A n \in 1..Len(calls[k].args) : P[k] - 1 - n \in 1..Len(stack)
                         /\ P[k - 1] \in Nat /\ P[k] = P[k - 1] + Len(calls[k].args) + 2
  BY <1>m, <1>p, Heights
<1>3. /\ stack \in Seq(Int) /\ bootstacktop \in Int /\ calls \in Seq(Activations)
      /\ esp = bootstacktop - Len(stack) /\ ebp = Frame(P, m)
      /\ \A j, k \in 0..m : j < k => P[j] < P[k]
      /\ P[0] = 0 /\ calls[1].fn = "i386_init" /\ calls # <<>>
  BY <1>m, <1>p, Parted
<1>4. Len(stack) = top /\ top \in Nat
  BY <1>m, <1>p, <1>2 DEF Places
<1>5. a \in Nat /\ ret \in Int /\ g \in Names /\ f \in Names /\ f = calls[m].fn /\ off \in 0..FNSIZE
  <2>1. ret \in Int /\ g \in Names /\ f \in Names /\ off \in 0..FNSIZE
    BY Integral
  <2>2. f = calls[m].fn
    BY <1>m DEF Top
  <2> QED
    BY <2>1, <2>2
<1>6. act \in Activations
  <2>1. f \in Callers
    BY <1>5 DEF Callers
  <2> QED
    BY <1>5, <2>1 DEF Activations
<1>7. /\ stack' = stack \o Append([k \in 1..a |-> passed[a - k + 1]], ret)
      /\ esp' = esp - Len(Append([k \in 1..a |-> passed[a - k + 1]], ret)) /\ ebp' = ebp
      /\ calls' = Append(calls, act) /\ eip' = At(g, 0)
  BY DEF CallFrom, Pushes, Start
<1>8. act.fn = g /\ act.args = passed /\ act.from = f
  OBVIOUS
<1> HIDE DEF act, ret
<1>9. /\ stack' \in Seq(Int) /\ Len(stack') = top + a + 1 /\ esp' = esp - (a + 1)
      /\ \A k \in 1..top : stack'[k] = stack[k]
      /\ stack'[top + a + 1] = ret
      /\ \A n \in 1..a : stack'[top + a + 1 - n] = passed[n]
  <2> DEFINE words == Append([k \in 1..a |-> passed[a - k + 1]], ret)
             all == stack \o words
  <2>1. /\ all \in Seq(Int) /\ Len(words) = a + 1 /\ Len(all) = Len(stack) + a + 1
        /\ \A k \in 1..Len(stack) : all[k] = stack[k]
        /\ all[Len(stack) + a + 1] = ret
        /\ \A n \in 1..a : all[Len(stack) + a + 1 - n] = passed[n]
    <3>1. words = Append([k \in 1..Len(passed) |-> passed[Len(passed) - k + 1]], ret)
      OBVIOUS
    <3>2. stack \in Seq(Int) /\ passed \in Seq(Int) /\ ret \in Int
      BY <1>3, <1>5
    <3> HIDE DEF words
    <3>3. /\ stack \o words \in Seq(Int) /\ Len(words) = Len(passed) + 1
          /\ Len(stack \o words) = Len(stack) + Len(passed) + 1
          /\ \A k \in 1..Len(stack) : (stack \o words)[k] = stack[k]
          /\ (stack \o words)[Len(stack) + Len(passed) + 1] = ret
          /\ \A n \in 1..Len(passed) :
               (stack \o words)[Len(stack) + Len(passed) + 1 - n] = passed[n]
      BY ONLY <3>1, <3>2, Backwards
    <3> QED
      BY <3>3
  <2>2. stack' = all /\ esp' = esp - Len(words)
    BY <1>7
  <2> HIDE DEF all, words
  <2> QED
    BY <1>4, <2>1, <2>2
<1>10. /\ calls' \in Seq(Activations) /\ Len(calls') = m + 1 /\ calls'[m + 1] = act
       /\ \A k \in 1..m : calls'[k] = calls[k]
  BY <1>m, <1>3, <1>6, <1>7, Appended
<1>11. /\ Q \in [0..(m + 1) -> Nat] /\ Q[m + 1] = top + a + 2
       /\ \A k \in 0..m : Q[k] = P[k]
       /\ \A j, k \in 0..(m + 1) : j < k => Q[j] < Q[k]
  BY <1>2, <1>3, <1>5, Deeper
<1> HIDE DEF Q, a, top
<1>12. Places(Q, m)'
  <2>1. calls' # <<>> /\ calls'[1].fn = "i386_init" /\ Q[0] = 0
    <3>1. 1 \in 1..m /\ 0 \in 0..m /\ m + 1 # 0
      BY <1>2
    <3> QED
      BY <1>3, <1>10, <1>11, <3>1
  <2>2. ASSUME NEW k \in 1..(m + 1)
        PROVE  Q[k] = Q[k - 1] + Len(calls'[k].args) + 2
    <3>1. CASE k = m + 1
      <4>1. k - 1 = m /\ m \in 0..m
        BY <1>2, <3>1
      <4>2. Q[k - 1] = top /\ calls'[k].args = passed
        BY <1>8, <1>10, <1>11, <3>1, <4>1 DEF top
      <4> QED
        BY <1>11, <3>1, <4>2 DEF a
    <3>2. CASE k # m + 1
      <4>1. k \in 1..m /\ k \in 0..m /\ k - 1 \in 0..m
        BY <1>2, <3>2
      <4>2. Q[k] = P[k] /\ Q[k - 1] = P[k - 1] /\ calls'[k] = calls[k]
        BY <1>10, <1>11, <4>1
      <4> QED
        BY <1>2, <4>1, <4>2
    <3> QED
      BY <3>1, <3>2
  <2>3. Len(stack') = Q[Len(calls')] - 1 /\ m = Len(calls') - 1
    <3>1. Q[Len(calls')] = top + a + 2 /\ Len(calls') = m + 1
      BY <1>10, <1>11
    <3> QED
      BY <1>2, <1>4, <1>5, <1>9, <3>1
  <2>4. esp' = bootstacktop - Len(stack')
    BY <1>3, <1>4, <1>5, <1>9
  <2>5. ebp' = Frame(Q, m)
    <3>1. m \in 0..m /\ Q[m] = P[m]
      BY <1>2, <1>11
    <3> QED
      BY <1>3, <1>7, <3>1 DEF Frame
  <2> QED
    BY <1>9, <1>10, <1>11, <2>1, <2>2, <2>3, <2>4, <2>5 DEF Places, Frame
<1>13. ASSUME NEW k \in 1..(m + 1)
       PROVE  Left(Q, k)'
  <2>1. CASE k = m + 1
    <3>1. Q[k] - 1 = top + a + 1 /\ k # 1 /\ k - 1 = m /\ m \in 1..m
      BY <1>2, <1>4, <1>5, <1>11, <2>1
    <3>2. stack'[Q[k] - 1] = At(f, off)
      BY <1>9, <3>1 DEF ret
    <3>3. \A n \in 1..a : stack'[Q[k] - 1 - n] = passed[n]
      <4>1. \A n \in 1..a : Q[k] - 1 - n = top + a + 1 - n
        BY <1>4, <1>5, <3>1
      <4> QED
        BY <1>9, <4>1
    <3>4. calls'[k].args = passed /\ calls'[k].from = f /\ calls'[k].fn = g /\ calls'[k - 1].fn = f
      BY <1>5, <1>8, <1>10, <2>1, <3>1
    <3> QED
      BY <1>5, <3>1, <3>2, <3>3, <3>4 DEF Left, a
  <2>2. CASE k # m + 1
    <3>1. k \in 1..m /\ k \in 0..m /\ (k = 1 \/ k - 1 \in 1..m)
      BY <1>2, <2>2
    <3>2. /\ Left(P, k) /\ Q[k] = P[k] /\ calls'[k] = calls[k]
          /\ (k = 1 \/ calls'[k - 1] = calls[k - 1])
      BY <1>1, <1>10, <1>11, <3>1
    <3>3. /\ stack'[P[k] - 1] = stack[P[k] - 1]
          /\ \A n \in 1..Len(calls[k].args) : stack'[P[k] - 1 - n] = stack[P[k] - 1 - n]
      BY <1>2, <1>4, <1>9, <3>1
    <3> QED
      BY <3>2, <3>3, Stays
  <2> QED
    BY <2>1, <2>2
<1>14. ASSUME NEW k \in 1..m
       PROVE  stack'[Q[k]] = Frame(Q, k - 1)
  <2>1. k \in 0..m /\ k - 1 \in 0..m /\ Q[k] = P[k] /\ Q[k - 1] = P[k - 1]
    BY <1>2, <1>11
  <2>2. P[k] \in 1..top
    <3>1. P[k] \in Nat /\ P[k] <= top /\ P[k] - 1 \in 1..top
      BY <1>2, <1>4, <2>1 DEF top
    <3> QED
      BY <1>4, <3>1
  <2>3. stack'[P[k]] = stack[P[k]]
    BY <1>9, <2>2
  <2>4. stack[P[k]] = Frame(P, k - 1)
    BY <1>1
  <2> QED
    BY <2>1, <2>3, <2>4 DEF Frame
<1>15. m = Len(calls') - 1
  BY <1>2, <1>10
<1>16. Built(Q, m)'
  <2>1. 1..Len(calls') = 1..(m + 1)
    BY <1>10
  <2> QED
    BY <1>12, <1>13, <1>14, <2>1 DEF Built, Frame
<1>17. Top'.fn = g
  BY <1>8, <1>10 DEF Top
<1>18. \E R : Built(R, Len(calls) - 1)'
  BY <1>m, <1>15, <1>16
<1> QED
  BY <1>m, <1>7, <1>10, <1>17, <1>18

LEMMA Cut ==
  ASSUME NEW T, NEW t \in Seq(T), NEW n \in 0..Len(t)
  PROVE  /\ SubSeq(t, 1, n) \in Seq(T) /\ Len(SubSeq(t, 1, n)) = n
         /\ \A k \in 1..n : SubSeq(t, 1, n)[k] = t[k]
<1>1. n \in Nat /\ \A k \in 1..n : k \in 1..Len(t) /\ t[k] \in T
  OBVIOUS
<1>2. SubSeq(t, 1, n) = [k \in 1..n |-> t[k]]
  BY <1>1
<1> QED
  BY <1>1, <1>2

\* What is read at an address of the stack.
LEMMA Reads ==
  ASSUME NEW P, NEW done, Places(P, done), NEW j \in 1..Len(stack)
  PROVE  Word(bootstacktop - j) = stack[j] /\ stack[j] \in Int
<1>1. stack \in Seq(Int) /\ bootstacktop \in Int /\ esp = bootstacktop - Len(stack)
  BY Parted
<1>2. Len(stack) \in Nat /\ j \in Int
  BY <1>1
<1>3. bootstacktop - j \in esp..(bootstacktop - 1) /\ bootstacktop - (bootstacktop - j) = j
  BY <1>1, <1>2
<1> QED
  BY <1>1, <1>3 DEF Word

\* A return takes the frame away and finds its way by it.
LEMMA Unwinds ==
  ASSUME NEW P, Built(P, Len(calls)), Len(calls) > 1, Return
  PROVE  /\ \E Q : Built(Q, Len(calls))'
         /\ Len(calls') = Len(calls) - 1 /\ calls' \in Seq(Activations)
         /\ \A k \in 1..(Len(calls) - 1) : calls'[k] = calls[k]
         /\ \E off \in 0..FNSIZE : /\ <<Top'.fn, Top.fn, off>> \in Links
                                   /\ eip' = At(Top'.fn, off)
<1>m. PICK m \in Nat : m = Len(calls)
  <2>1. Places(P, Len(calls))
    BY DEF Built
  <2> QED
    BY <2>1, Heights
<1> DEFINE Q == [k \in 0..(m - 1) |-> P[k]]
           top == P[m]
           rest == P[m - 1]
           a == Len(calls[m].args)
<1>p. Places(P, m)
  BY <1>m DEF Built
<1>1. (\A k \in 1..m : Left(P, k)) /\ \A k \in 1..m : stack[P[k]] = Frame(P, k - 1)
  BY <1>m DEF Built
<1>2. /\ m > 1 /\ Len(stack) \in Nat
      /\ \A k \in 0..m : P[k] \in Nat /\ P[k] <= P[m]
      /\ \A k \in 1..m : /\ P[k] - 1 \in 1..Len(stack) /\ calls[k].fn \in Names
                         /\ \A n \in 1..Len(calls[k].args) : P[k] - 1 - n \in 1..Len(stack)
                         /\ P[k - 1] \in Nat /\ P[k] = P[k - 1] + Len(calls[k].args) + 2
                         /\ Len(calls[k].args) \in Nat
  BY <1>m, <1>p, Heights
<1>3. /\ stack \in Seq(Int) /\ bootstacktop \in Int /\ calls \in Seq(Activations)
      /\ esp = bootstacktop - Len(stack) /\ ebp = Frame(P, m)
      /\ \A j, k \in 0..m : j < k => P[j] < P[k]
      /\ P[0] = 0 /\ calls[1].fn = "i386_init" /\ calls # <<>>
  BY <1>m, <1>p, Parted
<1>4. Len(stack) = top /\ m - 1 \in 0..m /\ m \in 1..m /\ m \in 0..m
  BY <1>m, <1>p, <1>2 DEF Places
<1>5. top \in Nat /\ rest \in Nat /\ a \in Nat /\ top = rest + a + 2
  BY <1>2, <1>4
<1>6. \A k \in 1..(m - 1) : /\ k \in 1..m /\ k \in 0..(m - 1) /\ k - 1 \in 0..(m - 1)
                            /\ P[k] - 1 \in 1..rest /\ P[k] \in 1..rest
                            /\ \A n \in 1..Len(calls[k].args) : P[k] - 1 - n \in 1..rest
  <2> SUFFICES ASSUME NEW k \in 1..(m - 1)
               PROVE  /\ k \in 1..m /\ k \in 0..(m - 1) /\ k - 1 \in 0..(m - 1)
                      /\ P[k] - 1 \in 1..rest /\ P[k] \in 1..rest
                      /\ \A n \in 1..Len(calls[k].args) : P[k] - 1 - n \in 1..rest
    OBVIOUS
  <2>1. k \in 1..m /\ k \in 0..(m - 1) /\ k - 1 \in 0..(m - 1) /\ k \in 0..m
    BY <1>2
  <2>2. P[k] = rest \/ P[k] < rest
    <3>1. k = m - 1 \/ k < m - 1
      BY <1>m
    <3>2. CASE k = m - 1
      BY <3>2
    <3>3. CASE k < m - 1
      BY <1>3, <1>4, <2>1, <3>3
    <3> QED
      BY <3>1, <3>2, <3>3
  <2>3. /\ P[k] \in Nat /\ P[k - 1] \in Nat /\ Len(calls[k].args) \in Nat
        /\ P[k] = P[k - 1] + Len(calls[k].args) + 2 /\ P[k] <= rest
    <3>1. P[k] \in Nat /\ P[k - 1] \in Nat /\ Len(calls[k].args) \in Nat
          /\ P[k] = P[k - 1] + Len(calls[k].args) + 2
      BY <1>2, <2>1
    <3>2. rest \in Nat
      BY <1>5
    <3> HIDE DEF rest
    <3> QED
      BY <2>2, <3>1, <3>2
  <2> HIDE DEF rest
  <2>4. P[k] - 1 \in 1..rest /\ \A n \in 1..Len(calls[k].args) : P[k] - 1 - n \in 1..rest
    <3>1. rest >= rest - 1
      BY <1>5
    <3> QED
      BY <1>5, <2>3, <3>1, Inside
  <2>5. P[k] \in 1..rest
    <3>1. P[k] >= 1 /\ rest \in Nat
      BY <1>5, <2>3
    <3> QED
      BY <2>3, <3>1
  <2> QED
    BY <2>1, <2>4, <2>5
<1>7. ebp = bootstacktop - top
  BY <1>2, <1>3 DEF Frame
<1> HIDE DEF top, rest, a
<1>8. /\ ebp + 2 + a = bootstacktop - rest /\ bootstacktop - (bootstacktop - rest) = rest
      /\ ebp + 1 = bootstacktop - (top - 1) /\ top - 1 \in 1..Len(stack) /\ top \in 1..Len(stack)
  BY <1>3, <1>4, <1>5, <1>7
<1>9. /\ eip' = stack[top - 1] /\ ebp' = stack[top] /\ esp' = bootstacktop - rest
      /\ stack' = SubSeq(stack, 1, rest) /\ calls' = SubSeq(calls, 1, m - 1)
  <2>1. /\ eip' = Word(ebp + 1) /\ ebp' = Word(ebp) /\ esp' = ebp + 2 + a
        /\ stack' = SubSeq(stack, 1, bootstacktop - (ebp + 2 + a))
        /\ calls' = SubSeq(calls, 1, m - 1)
    BY <1>m DEF Return, a
  <2>2. Word(ebp + 1) = stack[top - 1] /\ Word(ebp) = stack[top]
    BY <1>p, <1>7, <1>8, Reads
  <2> QED
    BY <1>8, <2>1, <2>2
<1>10. /\ stack' \in Seq(Int) /\ Len(stack') = rest
       /\ \A k \in 1..rest : stack'[k] = stack[k]
  <2>1. rest \in 0..Len(stack)
    BY <1>4, <1>5
  <2> QED
    BY <1>3, <1>9, <2>1, Cut
<1>11. /\ calls' \in Seq(Activations) /\ Len(calls') = m - 1
       /\ \A k \in 1..(m - 1) : calls'[k] = calls[k]
  <2>1. m - 1 \in 0..Len(calls)
    BY <1>m, <1>2
  <2> QED
    BY <1>3, <1>9, <2>1, Cut
<1>12. /\ Q \in [0..(m - 1) -> Nat] /\ \A k \in 0..(m - 1) : k \in 0..m /\ Q[k] = P[k]
  <2>1. \A k \in 0..(m - 1) : k \in 0..m /\ P[k] \in Nat
    BY <1>2
  <2> QED
    BY <2>1
<1> HIDE DEF Q
<1>13. ebp' = Frame(Q, m - 1)
  <2>1. stack[top] = Frame(P, m - 1)
    BY <1>1, <1>4 DEF top
  <2>2. Q[m - 1] = P[m - 1]
    BY <1>2, <1>12
  <2> QED
    BY <1>9, <2>1, <2>2 DEF Frame
<1>14. Places(Q, m - 1)'
  <2>1. calls' # <<>> /\ calls'[1].fn = "i386_init" /\ Q[0] = 0
    <3>1. 1 \in 1..(m - 1) /\ 0 \in 0..(m - 1) /\ m - 1 # 0
      BY <1>2
    <3> QED
      BY <1>3, <1>11, <1>12, <3>1
  <2>2. ASSUME NEW k \in 1..(m - 1)
        PROVE  Q[k] = Q[k - 1] + Len(calls'[k].args) + 2
    <3>1. Q[k] = P[k] /\ Q[k - 1] = P[k - 1] /\ calls'[k] = calls[k] /\ k \in 1..m
      BY <1>6, <1>11, <1>12
    <3> QED
      BY <1>2, <3>1
  <2>3. \A j, k \in 0..(m - 1) : j < k => Q[j] < Q[k]
    BY <1>3, <1>12
  <2>4. Len(stack') = Q[m - 1] /\ esp' = bootstacktop - Len(stack')
    <3>1. Q[m - 1] = rest
      BY <1>2, <1>12 DEF rest
    <3> QED
      BY <1>9, <1>10, <3>1
  <2> QED
    BY <1>10, <1>11, <1>12, <1>13, <2>1, <2>2, <2>3, <2>4 DEF Places, Frame
<1>15. ASSUME NEW k \in 1..(m - 1)
       PROVE  Left(Q, k)'
  <2>1. /\ Left(P, k) /\ Q[k] = P[k] /\ calls'[k] = calls[k]
        /\ (k = 1 \/ calls'[k - 1] = calls[k - 1])
    <3>1. k = 1 \/ k - 1 \in 1..(m - 1)
      BY <1>2
    <3> QED
      BY <1>1, <1>6, <1>11, <1>12, <3>1
  <2>2. /\ stack'[P[k] - 1] = stack[P[k] - 1]
        /\ \A n \in 1..Len(calls[k].args) : stack'[P[k] - 1 - n] = stack[P[k] - 1 - n]
    BY <1>6, <1>10
  <2> QED
    BY <2>1, <2>2, Stays
<1>16. ASSUME NEW k \in 1..(m - 1)
       PROVE  stack'[Q[k]] = Frame(Q, k - 1)
  <2>1. Q[k] = P[k] /\ Q[k - 1] = P[k - 1] /\ stack'[P[k]] = stack[P[k]]
    BY <1>6, <1>10, <1>12
  <2> QED
    BY <1>1, <1>6, <2>1 DEF Frame
<1>17. Built(Q, m - 1)'
  <2>1. 1..Len(calls') = 1..(m - 1)
    BY <1>11
  <2> QED
    BY <1>14, <1>15, <1>16, <2>1 DEF Built, Frame
<1>18. \E R : Built(R, Len(calls))'
  BY <1>11, <1>17
<1>19. \E off \in 0..FNSIZE : /\ <<Top'.fn, Top.fn, off>> \in Links
                              /\ eip' = At(Top'.fn, off)
  <2>1. Left(P, m) /\ m # 1
    BY <1>1, <1>2, <1>4
  <2>2. PICK off \in 0..FNSIZE : /\ <<calls[m - 1].fn, calls[m].fn, off>> \in Links
                                 /\ stack[P[m] - 1] = At(calls[m - 1].fn, off)
    BY <2>1 DEF Left
  <2>3. Top'.fn = calls[m - 1].fn /\ Top.fn = calls[m].fn
    <3>1. m - 1 \in 1..(m - 1)
      BY <1>2
    <3> QED
      BY <1>m, <1>11, <3>1 DEF Top
  <2> QED
    BY <1>9, <2>2, <2>3 DEF top
<1> QED
  BY <1>m, <1>11, <1>18, <1>19

-----------------------------------------------------------------------------
(* The steps *)

Remain == \A k \in 1..Len(calls) :
            calls[k].fn = "_panic" => Len(calls') >= k /\ calls'[k] = calls[k]

\* eip tells which call is the latest.
LEMMA Standing ==
  ASSUME NEW P, NEW done, Places(P, done), InTop(done),
         NEW f \in Names, NEW k \in 0..4, eip = At(f, k)
  PROVE  Top.fn = f /\ (done = Len(calls) <=> k # 0) /\ FunctionOf(eip) = f /\ eip \in Int
<1>1. PICK n \in 0..4 : eip = At(Top.fn, n) /\ (done = Len(calls) <=> n # 0)
  BY DEF InTop
<1>2. Top.fn \in Names
  BY Heights DEF Top
<1>3. Top.fn = f /\ n = k
  <2>1. PICK g \in Names : g = Top.fn
    BY <1>2
  <2>2. At(g, n) = At(f, k)
    BY <1>1, <2>1
  <2> QED
    BY <2>1, <2>2, Apart
<1>4. k \in 0..(FNSIZE - 1)
  BY KernelAssumption
<1>5. FunctionOf(eip) = f /\ eip \in Int
  BY <1>4, Named
<1> QED
  BY <1>1, <1>3, <1>5

\* What is written to the stack lands above KERNBASE.
LEMMA Aloft ==
  ASSUME Mapped, NEW words \in Seq(Int), Len(words) > 0, esp \in Int, Pushes(words)
  PROVE  esp' > 0
<1> DEFINE n == Len(words)
           la == esp - n
<1>1. n \in 1..n /\ la \in Int
  OBVIOUS
<1>2. Phys(la) = la - KERNBASE /\ esp' = la
  BY <1>1 DEF Pushes, RELOC
<1> HIDE DEF la
<1>3. Phys(la) \in Nat
  <2>1. PGOFF(la) \in Nat /\ PTX(la) \in 0..(NPTENTRIES - 1)
    BY <1>1, EntryAssumption DEF PGOFF, PTX
  <2>2. pte(la).addr \in Nat
    <3>1. PTX(la) * PGSIZE \in Nat
      BY <2>1, EntryAssumption
    <3> QED
      BY <2>1, <3>1 DEF pte, TableAt, entry_pgtable, Absent
  <2>3. Paging
    BY DEF Mapped, Paging
  <2> QED
    BY <2>1, <2>2, <2>3 DEF Phys
<1>4. KERNBASE \in Nat /\ KERNBASE > 0
  <2>1. PICK d \in 1..(NPDENTRIES - 1) : KERNBASE = d * PTSIZE
    BY EntryAssumption
  <2>2. d \in Nat \ {0} /\ PTSIZE \in Nat \ {0}
    BY Numbers, EntryAssumption
  <2> QED
    BY <2>1, <2>2
<1> QED
  BY <1>1, <1>2, <1>3, <1>4

LEMMA Called ==
  ASSUME Chained, Mapped, NEW f \in Names, NEW k \in 1..4, eip = At(f, k),
         NEW g, NEW off, <<f, g, off>> \in Links,
         NEW passed \in Seq(Int), g = "test_backtrace" => Len(passed) = 1,
         CallFrom(g, passed, At(f, off))
  PROVE  /\ Chained' /\ Mapped' /\ calls' # <<>> /\ esp' > 0
         /\ Remain /\ eip' = At(g, 0) /\ g \in Names
<1>1. PICK P : \E done \in {Len(calls) - 1, Len(calls)} :
                 Built(P, done) /\ InTop(done) /\ Walked(P)
  BY DEF Chained
<1>2. PICK done \in {Len(calls) - 1, Len(calls)} : Built(P, done) /\ InTop(done)
  BY <1>1
<1>3. Places(P, done)
  BY <1>2 DEF Built
<1>4. Top.fn = f /\ done = Len(calls) /\ FunctionOf(eip) = f
  BY <1>2, <1>3, Standing
<1>5. Len(calls) \in Nat /\ Len(calls) >= 1
  BY <1>3, Heights
<1>6. /\ \E Q : Built(Q, Len(calls) - 1)'
      /\ Len(calls') = Len(calls) + 1 /\ calls' \in Seq(Activations)
      /\ \A j \in 1..Len(calls) : calls'[j] = calls[j]
      /\ Top'.fn = g /\ eip' = At(g, 0)
  BY <1>2, <1>4, Adds
<1>7. g \in Names
  BY Integral
<1>8. eip' # At("mon_backtrace", 2)
  <2>1. "mon_backtrace" \in Names
    BY DEF Names
  <2> QED
    BY <1>6, <1>7, <2>1, Apart
<1>9. Chained'
  <2>1. PICK Q : Built(Q, Len(calls) - 1)'
    BY <1>6
  <2>2. Walked(Q)'
    BY <1>8 DEF Walked, At
  <2>3. InTop(Len(calls) - 1)'
    <3>1. Len(calls') - 1 # Len(calls')
      BY <1>5, <1>6
    <3>2. eip' = At(Top'.fn, 0)
      BY <1>6
    <3> QED
      BY <3>1, <3>2 DEF InTop, At
  <2> QED
    BY <2>1, <2>2, <2>3 DEF Chained
<1>10. Mapped' /\ esp' > 0
  <2> DEFINE words == Append([j \in 1..Len(passed) |-> passed[Len(passed) - j + 1]], At(f, off))
  <2>1. words \in Seq(Int) /\ Len(words) > 0
    <3>1. At(f, off) \in Int
      BY Integral
    <3>2. <<>> \in Seq(Int) /\ Len(<<>>) = 0
      OBVIOUS
    <3> HIDE DEF words
    <3>3. words = Append([j \in 1..Len(passed) |-> passed[Len(passed) - j + 1]], At(f, off))
      BY DEF words
    <3>4. <<>> \o words \in Seq(Int) /\ Len(words) = Len(passed) + 1
      BY <3>1, <3>2, <3>3, Backwards
    <3>5. <<>> \o words = words
      <4>1. [j \in 1..Len(passed) |-> passed[Len(passed) - j + 1]] \in Seq(Int)
        <5>1. Len(passed) \in Nat
          OBVIOUS
        <5>2. \A j \in 1..Len(passed) : passed[Len(passed) - j + 1] \in Int
          OBVIOUS
        <5> QED
          BY <5>1, <5>2
      <4> QED
        BY <3>1, <3>3, <4>1
    <3> QED
      BY <3>4, <3>5
  <2>2. Pushes(words) /\ UNCHANGED <<cr3, cr0>>
    BY DEF CallFrom
  <2>3. esp \in Int
    <3>1. esp = bootstacktop - Len(stack) /\ bootstacktop \in Int /\ Len(stack) \in Nat
      BY <1>3, Parted, Heights
    <3> QED
      BY <3>1
  <2> HIDE DEF words
  <2> QED
    BY <2>1, <2>2, <2>3, Aloft DEF Mapped
<1>11. calls' # <<>>
  BY <1>5, <1>6
<1>12. Remain
  BY <1>5, <1>6 DEF Remain
<1> QED
  BY <1>6, <1>7, <1>9, <1>10, <1>11, <1>12

\* _panic is never left.
LEMMA Returned ==
  ASSUME Chained, Mapped, esp > 0,
         NEW f \in Names \ {"_panic", "i386_init"}, NEW k \in 1..4, eip = At(f, k), Return
  PROVE  /\ Chained' /\ Mapped' /\ calls' # <<>> /\ esp' > 0 /\ Remain
         /\ \E g \in Names : \E n \in 2..4 : eip' = At(g, n)
<1>1. PICK P : \E done \in {Len(calls) - 1, Len(calls)} :
                 Built(P, done) /\ InTop(done) /\ Walked(P)
  BY DEF Chained
<1>2. PICK done \in {Len(calls) - 1, Len(calls)} : Built(P, done) /\ InTop(done)
  BY <1>1
<1>3. Places(P, done)
  BY <1>2 DEF Built
<1>4. Top.fn = f /\ done = Len(calls)
  BY <1>2, <1>3, Standing
<1>5. Len(calls) \in Nat /\ Len(calls) > 1
  <2>1. Len(calls) \in Nat /\ Len(calls) >= 1 /\ calls[1].fn = "i386_init"
    BY <1>3, Heights, Parted
  <2> QED
    BY <1>4, <2>1 DEF Top
<1>6. /\ \E Q : Built(Q, Len(calls))'
      /\ Len(calls') = Len(calls) - 1 /\ calls' \in Seq(Activations)
      /\ \A j \in 1..(Len(calls) - 1) : calls'[j] = calls[j]
      /\ \E off \in 0..FNSIZE : /\ <<Top'.fn, Top.fn, off>> \in Links
                                /\ eip' = At(Top'.fn, off)
  BY <1>2, <1>4, <1>5, Unwinds
<1>7. PICK g, n : <<g, f, n>> \in Links /\ g = Top'.fn /\ eip' = At(g, n)
  BY <1>4, <1>6
<1>8. g \in Names /\ g # "mon_backtrace" /\ n \in 2..4
  <2>1. f # "_panic" /\ f # "i386_init"
    OBVIOUS
  <2> QED
    BY <1>7, <2>1 DEF Links, Names
<1>9. eip' # At("mon_backtrace", 2)
  <2>1. "mon_backtrace" \in Names /\ n \in 0..4
    BY <1>8 DEF Names
  <2> QED
    BY <1>7, <1>8, <2>1, Apart
<1>10. PICK Q : Built(Q, Len(calls))'
  BY <1>6
<1>11. Chained'
  <2>1. Walked(Q)'
    BY <1>9 DEF Walked, At
  <2>2. InTop(Len(calls))'
    <3>1. eip' = At(Top'.fn, n) /\ n \in 0..4 /\ n # 0
      BY <1>7, <1>8
    <3> QED
      BY <3>1 DEF InTop, At
  <2>3. (\E d \in {Len(calls) - 1, Len(calls)} : Built(Q, d) /\ InTop(d) /\ Walked(Q))'
    BY <1>10, <2>1, <2>2
  <2> QED
    BY <2>3 DEF Chained
<1>12. esp' > 0
  <2>1. esp' = ebp + 2 + Len(Top.args)
    BY DEF Return, Top
  <2>2. ebp = bootstacktop - P[Len(calls)] /\ esp = bootstacktop - P[Len(calls)]
    BY <1>3, <1>4, <1>5 DEF Places, Frame
  <2>3. Len(Top.args) \in Nat /\ P[Len(calls)] \in Nat
    BY <1>3, <1>5, Heights DEF Top
  <2>4. ebp = esp /\ esp \in Int /\ esp > 0
    BY <2>2, <2>3, Numbers
  <2>5. PICK n1, b \in Nat : n1 = Len(Top.args) /\ b = ebp
    BY <2>3, <2>4
  <2>6. esp' = b + 2 + n1
    BY <2>1, <2>5
  <2> QED
    BY <2>6
<1>13. calls' # <<>> /\ Mapped'
  <2>1. calls' # <<>>
    BY <1>5, <1>6
  <2>2. UNCHANGED <<cr3, cr0>>
    BY DEF Return
  <2> QED
    BY <2>1, <2>2 DEF Mapped
<1>14. Remain
  <2> SUFFICES ASSUME NEW j \in 1..Len(calls), calls[j].fn = "_panic"
               PROVE  Len(calls') >= j /\ calls'[j] = calls[j]
    BY DEF Remain
  <2>1. j # Len(calls)
    BY <1>4 DEF Top
  <2>2. j \in 1..(Len(calls) - 1)
    BY <1>5, <2>1
  <2> QED
    BY <1>5, <1>6, <2>2
<1> QED
  BY <1>7, <1>8, <1>11, <1>12, <1>13, <1>14

\* Further into the same function, or no further, with nothing to be said of a walk.
LEMMA Onward ==
  ASSUME Chained, NEW f \in Names, NEW k \in 1..4, eip = At(f, k),
         NEW n \in 1..4, eip' = At(f, n), UNCHANGED <<ebp, esp, cr3, cr0, stack, calls>>,
         f # "mon_backtrace" \/ (trace' = <<>> /\ ebp_b' = ebp)
  PROVE  Chained'
<1>1. PICK P : \E done \in {Len(calls) - 1, Len(calls)} :
                 Built(P, done) /\ InTop(done) /\ Walked(P)
  BY DEF Chained
<1>2. PICK done \in {Len(calls) - 1, Len(calls)} : Built(P, done) /\ InTop(done)
  BY <1>1
<1>3. Places(P, done)
  BY <1>2 DEF Built
<1>4. Top.fn = f /\ done = Len(calls) /\ Len(calls) \in Nat /\ ebp = Frame(P, done)
  BY <1>2, <1>3, Standing, Heights, Parted
<1>5. Built(P, Len(calls))'
  <2>1. Places(P, Len(calls))'
    BY <1>3, <1>4 DEF Places, Frame
  <2>2. \A j \in 1..Len(calls) : Left(P, j)'
    <3>1. \A j \in 1..Len(calls) : Left(P, j)
      BY <1>2 DEF Built
    <3> QED
      BY <3>1, Stays
  <2>3. \A j \in 1..Len(calls) : stack'[P[j]] = Frame(P, j - 1)
    BY <1>2, <1>4 DEF Built
  <2> QED
    BY <2>1, <2>2, <2>3 DEF Built, Frame
<1>6. InTop(Len(calls))'
  <2>1. eip' = At(Top'.fn, n) /\ n \in 0..4 /\ n # 0
    BY <1>4 DEF Top
  <2> QED
    BY <2>1 DEF InTop, At
<1>7. Walked(P)'
  <2>1. CASE f # "mon_backtrace"
    <3>1. eip' # At("mon_backtrace", 2)
      <4>1. "mon_backtrace" \in Names /\ n \in 0..4
        BY DEF Names
      <4> QED
        BY <2>1, <4>1, Apart
    <3> QED
      BY <3>1 DEF Walked, At
  <2>2. CASE trace' = <<>> /\ ebp_b' = ebp
    <3>1. trace' \in Seq(Lines) /\ Len(trace') = 0
      BY <2>2
    <3>2. ebp_b' = Frame(P, Len(calls') - Len(trace')) /\ Len(trace') <= Len(calls')
      BY <1>4, <2>2, <3>1
    <3> QED
      BY <3>1, <3>2 DEF Walked, Lines, Frame
  <2> QED
    BY <2>1, <2>2
<1> QED
  BY <1>5, <1>6, <1>7 DEF Chained

LEMMA Following ==
  ASSUME NEW f \in Names, NEW n \in Int
  PROVE  At(f, n) + 1 = At(f, n + 1)
<1>1. FNSIZE \in Int /\ i386_init_at \in Int
  BY KernelAssumption, Numbers
<1> QED
  BY <1>1, Linked DEF Names

LEMMA Prologued ==
  ASSUME Chained, Mapped, prologue
  PROVE  /\ Chained' /\ Mapped' /\ calls' = calls /\ esp' > 0
         /\ \E f \in Names : eip = At(f, 0) /\ eip' = At(f, 1)
<1>1. PICK P : \E done \in {Len(calls) - 1, Len(calls)} :
                 Built(P, done) /\ InTop(done) /\ Walked(P)
  BY DEF Chained
<1>2. PICK done \in {Len(calls) - 1, Len(calls)} : Built(P, done) /\ InTop(done)
  BY <1>1
<1>3. Places(P, done)
  BY <1>2 DEF Built
<1>4. PICK f \in Names : eip = At(f, 0)
  <2>1. PICK k \in 1..Len(Functions) : eip = Start(Functions[k])
    BY DEF prologue
  <2>2. Functions[k] \in Names
    <3>1. k \in 1..7
      BY DEF Functions
    <3>2. k = 1 \/ k = 2 \/ k = 3 \/ k = 4 \/ k = 5 \/ k = 6 \/ k = 7
      BY <3>1
    <3> QED
      BY <3>2 DEF Functions, Names
  <2> QED
    BY <2>1, <2>2 DEF Start
<1>5. Top.fn = f /\ done = Len(calls) - 1 /\ Len(calls) \in Nat /\ Len(calls) >= 1
  BY <1>2, <1>3, <1>4, Standing, Heights
<1>6. Pushes(<<ebp>>) /\ ebp' = esp' /\ eip' = eip + 1 /\ UNCHANGED <<calls, cr3, cr0>>
  BY DEF prologue
<1>7. Built(P, Len(calls))'
  BY <1>2, <1>5, <1>6, Saves
<1>8. eip' = At(f, 1)
  BY <1>4, <1>6, Following
<1>9. Chained'
  <2>1. InTop(Len(calls))'
    <3>1. eip' = At(Top'.fn, 1) /\ 1 \in 0..4
      BY <1>5, <1>6, <1>8 DEF Top
    <3> QED
      BY <3>1 DEF InTop, At
  <2>2. Walked(P)'
    <3>1. eip' # At("mon_backtrace", 2)
      <4>1. "mon_backtrace" \in Names /\ 1 \in 0..4 /\ 2 \in 0..4 /\ 1 # 2
        BY DEF Names
      <4> QED
        BY <1>8, <4>1, Apart
    <3> QED
      BY <3>1 DEF Walked, At
  <2> QED
    BY <1>7, <2>1, <2>2 DEF Chained
<1>10. esp' > 0
  <2>1. ebp \in Int /\ esp \in Int
    <3>1. P[done] \in Nat /\ ebp = Frame(P, done)
      BY <1>3, <1>5, Heights, Parted
    <3>2. esp = bootstacktop - Len(stack) /\ Len(stack) \in Nat
      BY <1>3, Heights, Parted
    <3> QED
      BY <3>1, <3>2, Numbers DEF Frame
  <2>2. <<ebp>> \in Seq(Int) /\ Len(<<ebp>>) > 0
    BY <2>1
  <2> QED
    BY <1>6, <2>1, <2>2, Aloft
<1> QED
  BY <1>4, <1>6, <1>8, <1>9, <1>10 DEF Mapped

-----------------------------------------------------------------------------
(* What a function finds on the stack *)

LEMMA Finds ==
  ASSUME NEW P, NEW done, Built(P, done), NEW k \in 1..Len(calls), k <= done
  PROVE  /\ Frame(P, k) = bootstacktop - P[k] /\ P[k] \in 1..Len(stack)
         /\ Word(Frame(P, k)) = Frame(P, k - 1)
         /\ Word(Frame(P, k) + 1) = stack[P[k] - 1]
         /\ \A n \in 1..Len(calls[k].args) : Word(Frame(P, k) + 1 + n) = calls[k].args[n]
<1>1. Places(P, done) /\ Left(P, k) /\ done \in Int
  <2>1. Places(P, done)
    BY DEF Built
  <2>2. Len(calls) \in Nat /\ done \in {Len(calls) - 1, Len(calls)}
    BY <2>1, Heights DEF Places
  <2>3. done \in Int
    BY <2>2
  <2>4. Left(P, k)
    BY <2>2, <2>3 DEF Built
  <2> QED
    BY <2>1, <2>3, <2>4
<1>2. /\ Len(calls) \in Nat /\ P[k] \in Nat /\ P[k] - 1 \in 1..Len(stack) /\ Len(stack) \in Nat
      /\ P[k - 1] \in Nat /\ P[k] = P[k - 1] + Len(calls[k].args) + 2
      /\ Len(calls[k].args) \in Nat
      /\ \A n \in 1..Len(calls[k].args) : P[k] - 1 - n \in 1..Len(stack)
  BY <1>1, Heights
<1>3. k \in 1..done /\ stack[P[k]] = Frame(P, k - 1)
  BY <1>1 DEF Built
<1>4. Frame(P, k) = bootstacktop - P[k] /\ bootstacktop \in Int
  BY Numbers DEF Frame
<1>5. P[k] \in 1..Len(stack)
  <2>1. P[done] <= Len(stack) /\ P[done] \in Nat
    <3>1. CASE done = Len(calls) /\ Len(stack) = P[done]
      BY <1>2, <3>1
    <3>2. CASE done = Len(calls) - 1 /\ Len(stack) = P[Len(calls)] - 1
      <4>m. PICK m \in Nat : m = Len(calls)
        BY <1>2
      <4>1. /\ done \in 0..Len(calls) /\ Len(calls) \in 0..Len(calls) /\ done < Len(calls)
        <5>1. m >= 1 /\ done = m - 1
          BY <3>2, <4>m
        <5>2. done \in 0..m /\ m \in 0..m /\ done < m
          BY <5>1
        <5> QED
          BY <4>m, <5>2
      <4>2. P[done] < P[Len(calls)] /\ P[done] \in Nat /\ P[Len(calls)] \in Nat
        BY <1>1, <4>1, Heights, Parted
      <4> QED
        BY <3>2, <4>2
    <3> QED
      BY <1>1, <3>1, <3>2 DEF Places
  <2>2. P[k] <= P[done]
    <3>1. k = done \/ P[k] < P[done]
      <4>1. done \in 0..Len(calls) /\ k \in 0..Len(calls) /\ (k = done \/ k < done)
        <5>1. done = Len(calls) \/ done = Len(calls) - 1
          BY <1>1 DEF Places
        <5> QED
          BY <1>2, <1>3, <5>1
      <4> QED
        BY <1>1, <4>1, Parted
    <3> QED
      BY <1>2, <2>1, <3>1
  <2> QED
    BY <1>2, <2>1, <2>2
<1>6. Word(bootstacktop - P[k]) = stack[P[k]]
  BY <1>1, <1>5, Reads
<1>7. Word(bootstacktop - P[k] + 1) = stack[P[k] - 1]
  <2>1. bootstacktop - P[k] + 1 = bootstacktop - (P[k] - 1)
    BY <1>2, <1>4
  <2> QED
    BY <1>1, <1>2, <2>1, Reads
<1>8. ASSUME NEW n \in 1..Len(calls[k].args)
      PROVE  Word(bootstacktop - P[k] + 1 + n) = calls[k].args[n]
  <2>1. bootstacktop - P[k] + 1 + n = bootstacktop - (P[k] - 1 - n)
    BY <1>2, <1>4
  <2>2. Word(bootstacktop - (P[k] - 1 - n)) = stack[P[k] - 1 - n]
    BY <1>1, <1>2, Reads
  <2>3. stack[P[k] - 1 - n] = calls[k].args[n]
    BY <1>1 DEF Left
  <2> QED
    BY <2>1, <2>2, <2>3
<1> QED
  BY <1>3, <1>4, <1>5, <1>6, <1>7, <1>8

LEMMA Worded ==
  ASSUME NEW P, NEW done, Places(P, done), NEW a \in Int
  PROVE  Word(a) \in Int
<1>1. /\ stack \in Seq(Int) /\ bootstacktop \in Int /\ esp = bootstacktop - Len(stack)
      /\ Len(stack) \in Nat
  BY Parted, Heights
<1>2. CASE a \in esp..(bootstacktop - 1)
  <2>1. bootstacktop - a \in 1..Len(stack)
    BY <1>1, <1>2
  <2> QED
    BY <1>1, <1>2, <2>1 DEF Word
<1>3. CASE a \notin esp..(bootstacktop - 1)
  BY <1>3, KernelAssumption DEF Word
<1> QED
  BY <1>2, <1>3

\* The return address in a frame is the kernel's, and leads to the caller's name.
LEMMA Known ==
  ASSUME NEW P, NEW done, Built(P, done), NEW k \in 1..Len(calls)
  PROVE  /\ stack[P[k] - 1] >= ULIM /\ stack[P[k] - 1] \in Int
         /\ FunctionOf(stack[P[k] - 1]) \in Callers
         /\ calls[k].fn # "_panic" => FunctionOf(stack[P[k] - 1]) = calls[k].from
<1>1. Left(P, k)
  BY DEF Built
<1>2. KERNBASE \in Int /\ ULIM \in Int /\ ULIM <= KERNBASE /\ entry_at \in Int
      /\ FNSIZE \in Int /\ FNSIZE > 4
      /\ i386_init_at \in Int /\ entry_at >= KERNBASE /\ i386_init_at >= KERNBASE
  BY KernelAssumption, EntryAssumption, Numbers DEF Image
<1>3. CASE k = 1
  <2>1. stack[P[k] - 1] = entry_at + 7 /\ calls[k].from = "entry"
    BY <1>1, <1>3 DEF Left
  <2>2. entry_at + 7 < i386_init_at
    BY <1>2, EntryAssumption
  <2> QED
    BY <1>2, <2>1, <2>2 DEF FunctionOf, Callers
<1>4. CASE k # 1
  <2>1. PICK off \in 0..FNSIZE : /\ <<calls[k - 1].fn, calls[k].fn, off>> \in Links
                                 /\ stack[P[k] - 1] = At(calls[k - 1].fn, off)
    BY <1>1, <1>4 DEF Left
  <2>2. PICK f, g : f = calls[k - 1].fn /\ g = calls[k].fn
    OBVIOUS
  <2>3. f \in Names /\ calls[k].from = f /\ f \in Callers
    <3>1. calls[k].from = f
      BY <1>1, <1>4, <2>2 DEF Left
    <3>2. f \in Names
      BY <2>1, <2>2, Integral
    <3> QED
      BY <3>1, <3>2 DEF Callers
  <2>4. At(f, off) \in Int /\ At(f, off) >= i386_init_at
    <3>1. off \in Int /\ off >= 0
      BY <1>2
    <3> QED
      <4>1. /\ At("i386_init", off) = i386_init_at + off
            /\ At("_panic", off) = i386_init_at + off + FNSIZE
            /\ At("test_backtrace", off) = i386_init_at + off + 2 * FNSIZE
            /\ At("mon_backtrace", off) = i386_init_at + off + 3 * FNSIZE
            /\ At("exec_hidden_cases", off) = i386_init_at + off + 4 * FNSIZE
            /\ At("runcmd", off) = i386_init_at + off + 5 * FNSIZE
            /\ At("monitor", off) = i386_init_at + off + 6 * FNSIZE
        BY <3>1, Linked
      <4> QED
        BY <1>2, <2>3, <3>1, <4>1 DEF Names
  <2>5. CASE off \in 0..(FNSIZE - 1)
    <3>1. FunctionOf(At(f, off)) = f
      BY <2>3, <2>5, Named
    <3> QED
      BY <1>2, <2>1, <2>2, <2>3, <2>4, <3>1
  <2>6. CASE off \notin 0..(FNSIZE - 1)
    <3>1. off = FNSIZE /\ FNSIZE > 4
      BY <1>2, <2>6, KernelAssumption
    <3>2. f = "exec_hidden_cases" /\ g = "_panic"
      BY <2>1, <2>2, <3>1 DEF Links
    <3>3. FunctionOf(At(f, off)) = "runcmd"
      <4>1. At(f, off) = At("runcmd", 0)
        BY <1>2, <3>1, <3>2, Linked
      <4>2. "runcmd" \in Names /\ 0 \in 0..(FNSIZE - 1)
        BY <1>2, <3>1 DEF Names
      <4> QED
        BY <4>1, <4>2, Named
    <3> QED
      BY <1>2, <2>1, <2>2, <2>4, <3>2, <3>3 DEF Callers, Names
  <2> QED
    BY <2>5, <2>6
<1> QED
  BY <1>3, <1>4

LEMMA Stepping ==
  ASSUME Chained, backtrace
  PROVE  Chained' /\ UNCHANGED <<machine, panics>>
<1>1. PICK P : \E done \in {Len(calls) - 1, Len(calls)} :
                 Built(P, done) /\ InTop(done) /\ Walked(P)
  BY DEF Chained
<1>2. PICK done \in {Len(calls) - 1, Len(calls)} : Built(P, done) /\ InTop(done) /\ Walked(P)
  BY <1>1
<1>3. Places(P, done)
  BY <1>2 DEF Built
<1>4. eip = At("mon_backtrace", 2) /\ ebp_b > 0
  BY DEF backtrace
<1>5. Top.fn = "mon_backtrace" /\ done = Len(calls) /\ Len(calls) \in Nat
  <2>1. "mon_backtrace" \in Names /\ 2 \in 0..4
    BY DEF Names
  <2> QED
    BY <1>2, <1>3, <1>4, <2>1, Standing, Heights
<1>w. /\ trace \in Seq(Lines) /\ Len(trace) <= Len(calls)
      /\ ebp_b = Frame(P, Len(calls) - Len(trace))
      /\ \A k \in 1..Len(trace) :
           LET call == calls[Len(calls) - k + 1]
           IN  /\ \A n \in 1..Len(call.args) : n <= 5 => trace[k].args[n] = call.args[n]
               /\ call.fn # "_panic" => trace[k].name = call.from
  BY <1>2, <1>4 DEF Walked
<1>6. PICK t \in Nat : t = Len(trace)
  BY <1>w
<1>7. PICK j \in Int : j = Len(calls) - t
  <2>1. Len(calls) - t \in Int
    BY <1>5, <1>6
  <2> QED
    BY <2>1
<1>8. j \in 1..Len(calls)
  <2>1. j # 0
    BY <1>4, <1>6, <1>7, <1>w DEF Frame
  <2> QED
    BY <1>5, <1>6, <1>7, <1>w, <2>1
<1>9. /\ ebp_b = Frame(P, j) /\ ebp_b = bootstacktop - P[j] /\ P[j] \in 1..Len(stack)
      /\ Word(ebp_b) = Frame(P, j - 1)
      /\ Word(ebp_b + 1) = stack[P[j] - 1]
      /\ \A n \in 1..Len(calls[j].args) : Word(ebp_b + 1 + n) = calls[j].args[n]
  <2>1. ebp_b = Frame(P, j) /\ j <= done
    BY <1>5, <1>6, <1>7, <1>8, <1>w
  <2> QED
    BY <1>2, <1>8, <2>1, Finds
<1>10. ebp_b \in Int
  BY <1>3, <1>9, Numbers, Heights
<1>11. PICK saved : saved = Word(ebp_b + 1)
  OBVIOUS
<1>12. /\ saved >= ULIM /\ saved \in Int /\ ULIM \in Int
       /\ FunctionOf(saved) \in Callers
       /\ calls[j].fn # "_panic" => FunctionOf(saved) = calls[j].from
  BY <1>2, <1>8, <1>9, <1>11, Known, KernelAssumption, Numbers
<1> DEFINE row == [eip |-> saved, name |-> FunctionOf(saved),
                   args |-> [k \in 1..5 |-> Word(ebp_b + 1 + k)]]
<1>13. trace' = Append(trace, row) /\ ebp_b' = Word(ebp_b) /\ UNCHANGED <<machine, panics>>
  <2>1. ~(saved < ULIM)
    BY <1>12
  <2> QED
    BY <1>11, <2>1 DEF backtrace
<1>14. row \in Lines
  <2>1. \A k \in 1..5 : Word(ebp_b + 1 + k) \in Int
    BY <1>3, <1>10, Worded
  <2> QED
    BY <1>12, <2>1 DEF Lines
<1>15. /\ \A n \in 1..Len(calls[j].args) : n <= 5 => row.args[n] = calls[j].args[n]
       /\ calls[j].fn # "_panic" => row.name = calls[j].from
  <2>1. \A n \in 1..Len(calls[j].args) : n <= 5 => n \in 1..5
    <3>1. Len(calls[j].args) \in Nat
      BY <1>3, <1>8, Heights
    <3> QED
      BY <3>1
  <2> QED
    BY <1>9, <1>12, <2>1
<1> HIDE DEF row
<1>16. /\ trace' \in Seq(Lines) /\ Len(trace') = t + 1 /\ trace'[t + 1] = row
       /\ \A k \in 1..t : trace'[k] = trace[k]
  BY <1>6, <1>13, <1>14, <1>w, Appended
<1>17. UNCHANGED <<eip, ebp, esp, cr3, cr0, stack, calls>>
  BY <1>13 DEF machine, regs
<1>18. Built(P, Len(calls))'
  <2>1. Places(P, Len(calls))'
    BY <1>3, <1>5, <1>17 DEF Places, Frame
  <2>2. \A k \in 1..Len(calls) : Left(P, k)'
    <3>1. \A k \in 1..Len(calls) : Left(P, k)
      BY <1>2 DEF Built
    <3> QED
      BY <1>17, <3>1, Stays
  <2>3. \A k \in 1..Len(calls) : stack'[P[k]] = Frame(P, k - 1)
    BY <1>2, <1>5, <1>17 DEF Built
  <2> QED
    BY <1>17, <2>1, <2>2, <2>3 DEF Built, Frame
<1>19. InTop(Len(calls))'
  <2>1. 2 \in 0..4 /\ 2 # 0 /\ eip' = At(Top'.fn, 2)
    BY <1>4, <1>5, <1>17 DEF Top
  <2> QED
    BY <2>1 DEF InTop, At
<1>20. Walked(P)'
  <2>1. Len(trace') <= Len(calls') /\ Len(calls') - Len(trace') = j - 1
    BY <1>5, <1>7, <1>8, <1>16, <1>17
  <2>2. ASSUME NEW k \in 1..(t + 1)
        PROVE  LET call == calls[Len(calls) - k + 1]
               IN  /\ \A n \in 1..Len(call.args) : n <= 5 => trace'[k].args[n] = call.args[n]
                   /\ call.fn # "_panic" => trace'[k].name = call.from
    <3>1. CASE k = t + 1
      <4>1. Len(calls) - k + 1 = j
        BY <1>5, <1>7, <3>1
      <4> QED
        BY <1>15, <1>16, <3>1, <4>1
    <3>2. CASE k # t + 1
      <4>1. k \in 1..t
        BY <3>2
      <4> QED
        BY <1>6, <1>16, <1>w, <4>1
    <3> QED
      BY <3>1, <3>2
  <2>3. ebp_b' = Frame(P, j - 1)
    BY <1>9, <1>13
  <2> QED
    BY <1>16, <1>17, <2>1, <2>2, <2>3 DEF Walked, Frame, Lines
<1> QED
  BY <1>13, <1>17, <1>18, <1>19, <1>20 DEF Chained

-----------------------------------------------------------------------------
(* What the panics leave *)

LEMMA Whereabouts ==
  ASSUME NEW f \in Names, NEW k \in 0..4, NEW a, a = At(f, k)
  PROVE  /\ a \in {At("i386_init", 0), At("i386_init", 1)} <=> f = "i386_init" /\ k < 2
         /\ a \in {At("_panic", 0), At("_panic", 1)} <=> f = "_panic" /\ k < 2
<1>1. "i386_init" \in Names /\ "_panic" \in Names /\ 0 \in 0..4 /\ 1 \in 0..4
  BY DEF Names
<1>2. k < 2 <=> k = 0 \/ k = 1
  OBVIOUS
<1> QED
  BY <1>1, <1>2, Apart

\* In C code there is a stack of calls.
LEMMA Arrives ==
  ASSUME KernelInv, NEW f \in Names, NEW k \in 0..4, eip = At(f, k)
  PROVE  calls # <<>> /\ Mapped /\ esp > 0 /\ Chained
<1> SUFFICES ASSUME OnTheWay, ~Arrived PROVE FALSE
  BY DEF KernelInv
<1>1. PICK n \in 0..6 : Before(n)
  BY DEF OnTheWay
<1>2. k \in 0..(FNSIZE - 1)
  BY KernelAssumption
<1>3. eip >= i386_init_at
  BY <1>2, Named
<1> QED
  BY <1>1, <1>3, EntryAssumption, Numbers DEF Before, RELOC

\* A step that neither enters nor leaves what the panics or the start are about.
LEMMA Silent ==
  ASSUME Told, calls # <<>>, calls' # <<>>, NEW f \in Names, NEW k \in 0..4,
         NEW g \in Names, NEW n \in 0..4, eip = At(f, k), eip' = At(g, n),
         UNCHANGED <<panics, said, panicstr>>,
         (f = "i386_init" /\ k < 2) <=> (g = "i386_init" /\ n < 2),
         (f = "_panic" /\ k < 2) <=> (g = "_panic" /\ n < 2),
         (f = "i386_init" /\ k < 2) => UNCHANGED <<pc, i>>
  PROVE  Told'
<1>1. /\ Unclear <=> f = "i386_init" /\ k < 2
      /\ Telling <=> f = "_panic" /\ k < 2
  BY Whereabouts DEF Unclear, Telling
<1>2. /\ eip' \in {At("i386_init", 0), At("i386_init", 1)} <=> g = "i386_init" /\ n < 2
      /\ eip' \in {At("_panic", 0), At("_panic", 1)} <=> g = "_panic" /\ n < 2
  BY Whereabouts
<1>3. /\ Unclear' <=> g = "i386_init" /\ n < 2
      /\ Telling' <=> g = "_panic" /\ n < 2
  BY <1>2 DEF Unclear, Telling, At
<1>4. (Unclear' <=> Unclear) /\ (Telling' <=> Telling) /\ (Unclear => UNCHANGED <<pc, i>>)
  BY <1>1, <1>3
<1> HIDE DEF Unclear, Telling
<1> QED
  BY <1>4 DEF Told

LEMMA Bystander ==
  ASSUME MonitorInv, UNCHANGED vars
  PROVE  MonitorInv'
BY Follows

LEMMA Still ==
  ASSUME Chained, UNCHANGED calls
  PROVE  Remain
<1>1. Len(calls) \in Nat
  BY Heights DEF Chained, Built
<1> QED
  BY <1>1 DEF Remain

-----------------------------------------------------------------------------
(* One lemma for each action *)

LEMMA Step_prologue ==
  ASSUME KernelInv, prologue
  PROVE  KernelInv' /\ Remain
<1>1. MonitorInv /\ Told
  BY DEF KernelInv
<1>2. PICK k \in 1..Len(Functions) : eip = Start(Functions[k])
  BY DEF prologue
<1>3. Functions[k] \in Names
  <2>1. k \in 1..7
    BY DEF Functions
  <2>2. k = 1 \/ k = 2 \/ k = 3 \/ k = 4 \/ k = 5 \/ k = 6 \/ k = 7
    BY <2>1
  <2> QED
    BY <2>2 DEF Functions, Names
<1>4. calls # <<>> /\ Mapped /\ esp > 0 /\ Chained
  BY <1>2, <1>3, Arrives DEF Start
<1>5. /\ Chained' /\ Mapped' /\ calls' = calls /\ esp' > 0
      /\ \E f \in Names : eip = At(f, 0) /\ eip' = At(f, 1)
  BY <1>4, Prologued
<1>6. UNCHANGED <<vars, panicstr, said, panics>> /\ UNCHANGED <<pc, i>>
  BY DEF prologue, vars
<1>7. PICK f \in Names : eip = At(f, 0) /\ eip' = At(f, 1)
  BY <1>5
<1>8. Told'
  BY <1>1, <1>4, <1>5, <1>6, <1>7, Silent
<1>9. MonitorInv'
  BY <1>1, <1>6, Bystander
<1>10. Remain
  BY <1>4, <1>5, Still
<1> QED
  BY <1>4, <1>5, <1>8, <1>9, <1>10 DEF KernelInv

LEMMA Step_clear_bss ==
  ASSUME KernelInv, clear_bss
  PROVE  KernelInv' /\ Remain
<1>1. MonitorInv /\ Told
  BY DEF KernelInv
<1> DEFINE f == "i386_init"
<1>2. f \in Names /\ eip = At(f, 1)
  BY DEF clear_bss, Names
<1>3. calls # <<>> /\ Mapped /\ esp > 0 /\ Chained
  BY <1>2, Arrives
<1>4. Continue /\ eip' = At(f, 2)
  BY <1>2, Following DEF clear_bss, Continue
<1>5. Chained'
  BY <1>2, <1>3, <1>4, Onward DEF Continue
<1>6. Unclear /\ panics = <<>> /\ said = <<>> /\ pc = "read" /\ i = 0
  BY <1>1, <1>2 DEF Told, Unclear
<1>7. /\ panicstr' = "NULL" /\ buf' = Zeros
      /\ UNCHANGED <<i, shown, pc, p, argc, argv, line, said, panics, calls>>
  BY DEF clear_bss, Continue
<1>8. Told'
  <2>1. /\ ~(eip' \in {At("i386_init", 0), At("i386_init", 1)})
        /\ ~(eip' \in {At("_panic", 0), At("_panic", 1)})
    BY <1>2, <1>4, Whereabouts
  <2>2. ~Unclear' /\ ~Telling'
    BY <1>3, <1>7, <2>1 DEF Unclear, Telling, At
  <2> HIDE DEF Unclear, Telling
  <2> QED
    BY <1>1, <1>3, <1>6, <1>7, <2>2 DEF Told
<1>9. MonitorInv'
  <2>1. Zeros \in [0..(BUFLEN - 1) -> Byte]
    BY DEF Zeros, Byte
  <2>2. TypeOK'
    BY <1>1, <1>7, <2>1 DEF MonitorInv, EditInv, TypeOK
  <2>3. shown' = [k \in 1..i' |-> buf'[k - 1]]
    <3>1. shown = [k \in 1..0 |-> buf[k - 1]]
      BY <1>1, <1>6 DEF MonitorInv, EditInv, Seen
    <3> QED
      BY <1>6, <1>7, <3>1
  <2> QED
    BY <1>1, <1>6, <1>7, <2>2, <2>3 DEF MonitorInv, EditInv, WordsInv, Seen, Ended
<1>10. Remain
  BY <1>3, <1>7, Still
<1> QED
  BY <1>3, <1>4, <1>5, <1>7, <1>8, <1>9, <1>10 DEF KernelInv, Continue, Mapped

LEMMA Step_call_test_backtrace ==
  ASSUME KernelInv, call_test_backtrace
  PROVE  KernelInv' /\ Remain
<1>1. MonitorInv /\ Told
  BY DEF KernelInv
<1>2. /\ "i386_init" \in Names /\ eip = At("i386_init", 2) /\ "test_backtrace" \in Names
      /\ <<"i386_init", "test_backtrace", 3>> \in Links
  BY DEF call_test_backtrace, Names, Links
<1>3. calls # <<>> /\ Mapped /\ esp > 0 /\ Chained
  BY <1>2, Arrives
<1>4. CallFrom("test_backtrace", <<5>>, At("i386_init", 3))
  BY <1>2, Following DEF call_test_backtrace, Call
<1>5. PICK passed \in Seq(Int) : passed = <<5>> /\ Len(passed) = 1
  <2>1. <<5>> \in Seq(Int) /\ Len(<<5>>) = 1
    OBVIOUS
  <2> QED
    BY <2>1
<1>6. /\ Chained' /\ Mapped' /\ calls' # <<>> /\ esp' > 0
      /\ Remain /\ eip' = At("test_backtrace", 0)
  <2>1. CallFrom("test_backtrace", passed, At("i386_init", 3)) /\ 2 \in 1..4
    BY <1>4, <1>5
  <2> QED
    BY <1>2, <1>3, <1>5, <2>1, Called
<1>7. UNCHANGED <<vars, panicstr, said, panics>>
  BY DEF call_test_backtrace
<1>8. Told'
  BY <1>1, <1>2, <1>3, <1>6, <1>7, Silent
<1> QED
  BY <1>1, <1>6, <1>7, <1>8, Bystander DEF KernelInv

LEMMA Step_test_backtrace ==
  ASSUME KernelInv, test_backtrace
  PROVE  KernelInv' /\ Remain
<1>1. MonitorInv /\ Told
  BY DEF KernelInv
<1> DEFINE f == "test_backtrace"
<1>2. f \in Names /\ "mon_backtrace" \in Names
  BY DEF Names
<1>3. PICK k \in 1..4 : eip = At(f, k)
  BY DEF test_backtrace
<1>4. calls # <<>> /\ Mapped /\ esp > 0 /\ Chained
  BY <1>2, <1>3, Arrives
<1>5. UNCHANGED <<vars, panicstr, said, panics>>
  BY DEF test_backtrace
<1>6. CASE eip = At(f, 2) /\ Return
  <2>1. /\ Chained' /\ Mapped' /\ calls' # <<>> /\ esp' > 0 /\ Remain
        /\ \E g \in Names : \E n \in 2..4 : eip' = At(g, n)
    <3>1. f # "_panic" /\ f # "i386_init"
      OBVIOUS
    <3> QED
      BY <1>2, <1>4, <1>6, <3>1, Returned
  <2>2. PICK g \in Names : \E n \in 2..4 : eip' = At(g, n)
    BY <2>1
  <2>3. PICK n \in 2..4 : eip' = At(g, n)
    BY <2>2
  <2>4. Told'
    <3>1. ~(n < 2) /\ n \in 0..4
      OBVIOUS
    <3> QED
      BY <1>1, <1>2, <1>4, <1>5, <1>6, <2>1, <2>3, <3>1, Silent
  <2> QED
    BY <1>1, <1>5, <2>1, <2>4, Bystander DEF KernelInv
<1>7. CASE /\ eip = At(f, 1)
           /\ IF x > 0 THEN Call("test_backtrace", <<x - 1>>) ELSE Call("mon_backtrace", <<0, 0, 0>>)
  <2>1. x \in Int
    <3>1. PICK P : \E done \in {Len(calls) - 1, Len(calls)} : Built(P, done)
      BY <1>4 DEF Chained
    <3>2. PICK done : Places(P, done)
      BY <3>1 DEF Built
    <3>3. ebp + 2 \in Int
      <4>1. done \in 0..Len(calls) /\ ebp = Frame(P, done)
        <5>1. Len(calls) \in Nat /\ Len(calls) >= 1
          BY <3>2, Heights
        <5> QED
          BY <3>2, <5>1 DEF Places
      <4>2. P[done] \in Nat
        BY <3>2, <4>1, Heights
      <4> QED
        BY <4>1, <4>2, Numbers DEF Frame
    <3> QED
      BY <3>2, <3>3, Worded DEF x
  <2>2. PICK g, passed : /\ <<f, g, 2>> \in Links /\ passed \in Seq(Int)
                         /\ g = "test_backtrace" => Len(passed) = 1
                         /\ CallFrom(g, passed, At(f, 2))
    <3>1. At(f, 1) + 1 = At(f, 2)
      BY <1>2, Following
    <3>2. CASE x > 0
      <4>1. CallFrom("test_backtrace", <<x - 1>>, At(f, 2))
        BY <1>7, <3>1, <3>2 DEF Call
      <4>2. <<x - 1>> \in Seq(Int) /\ Len(<<x - 1>>) = 1
        BY <2>1
      <4>3. <<f, "test_backtrace", 2>> \in Links
        BY DEF Links
      <4> QED
        BY <4>1, <4>2, <4>3
    <3>3. CASE ~(x > 0)
      <4>1. CallFrom("mon_backtrace", <<0, 0, 0>>, At(f, 2))
        BY <1>7, <3>1, <3>3 DEF Call
      <4>2. <<0, 0, 0>> \in Seq(Int)
        OBVIOUS
      <4>3. <<f, "mon_backtrace", 2>> \in Links /\ "mon_backtrace" # "test_backtrace"
        BY DEF Links
      <4> QED
        BY <4>1, <4>2, <4>3
    <3> QED
      BY <3>2, <3>3
  <2>3. /\ Chained' /\ Mapped' /\ calls' # <<>> /\ esp' > 0
        /\ Remain /\ eip' = At(g, 0) /\ g \in Names
    BY <1>2, <1>4, <1>7, <2>2, Called
  <2>4. g # "_panic" /\ g # "i386_init"
    BY <2>2 DEF Links
  <2>5. Told'
    BY <1>1, <1>2, <1>4, <1>5, <1>7, <2>3, <2>4, Silent
  <2> QED
    BY <1>1, <1>5, <2>3, <2>5, Bystander DEF KernelInv
<1> QED
  BY <1>6, <1>7 DEF test_backtrace

LEMMA Step_call_monitor ==
  ASSUME KernelInv, call_monitor
  PROVE  KernelInv' /\ Remain
<1>1. MonitorInv /\ Told
  BY DEF KernelInv
<1>2. PICK f \in {"i386_init", "_panic"}, k \in 2..3 :
        eip = At(f, k) /\ <<f, "monitor", k + 1>> \in Links
  BY DEF call_monitor, dead, Links
<1>3. f \in Names /\ "monitor" \in Names /\ k \in 1..4 /\ ~(k < 2)
  BY DEF Names
<1>4. calls # <<>> /\ Mapped /\ esp > 0 /\ Chained
  BY <1>2, <1>3, Arrives
<1>5. CallFrom("monitor", <<0>>, At(f, k + 1))
  BY <1>2, <1>3, Following DEF call_monitor, Call
<1>6. <<0>> \in Seq(Int)
  OBVIOUS
<1>7. /\ Chained' /\ Mapped' /\ calls' # <<>> /\ esp' > 0
      /\ Remain /\ eip' = At("monitor", 0)
  BY <1>2, <1>3, <1>4, <1>5, <1>6, Called
<1>8. UNCHANGED <<panicstr, said, panics>>
  BY DEF call_monitor
<1>9. Told'
  BY <1>1, <1>2, <1>3, <1>4, <1>7, <1>8, Silent
<1>10. MonitorInv'
  BY <1>1, Prompts DEF call_monitor, Prompt, MonitorInv, EditInv
<1> QED
  BY <1>7, <1>9, <1>10 DEF KernelInv

LEMMA Step__panic ==
  ASSUME KernelInv, _panic
  PROVE  KernelInv' /\ Remain
<1>1. MonitorInv /\ Told
  BY DEF KernelInv
<1>2. "_panic" \in Names /\ eip = At("_panic", 1)
  BY DEF _panic, Names
<1>3. calls # <<>> /\ Mapped /\ esp > 0 /\ Chained
  BY <1>2, Arrives
<1>4. Continue /\ eip' = At("_panic", 2) /\ UNCHANGED <<vars, panics>>
  BY <1>2, Following DEF _panic, Continue
<1>5. Chained'
  BY <1>2, <1>3, <1>4, Onward DEF Continue
<1>6. Telling /\ ~Unclear
  BY <1>2, <1>3, Whereabouts DEF Telling, Unclear
<1>7. ~Telling' /\ ~Unclear' /\ calls' # <<>>
  <2>1. /\ ~(eip' \in {At("i386_init", 0), At("i386_init", 1)})
        /\ ~(eip' \in {At("_panic", 0), At("_panic", 1)})
    BY <1>2, <1>4, Whereabouts
  <2> QED
    BY <1>3, <1>4, <2>1 DEF Unclear, Telling, At, Continue
<1> HIDE DEF Telling, Unclear
<1>8. /\ panics \in Seq(Messages) /\ panics # <<>>
      /\ said = IF Len(panics) = 1 THEN <<>> ELSE <<panics[1]>>
      /\ panicstr = "NULL" <=> said = <<>>
  BY <1>1, <1>3, <1>6 DEF Told
<1>9. panicstr' # "NULL" /\ said' = <<panics[1]>>
  <2>1. CASE panicstr # "NULL"
    <3>1. UNCHANGED <<panicstr, said>>
      BY <2>1 DEF _panic
    <3> QED
      BY <1>8, <2>1, <3>1
  <2>2. CASE panicstr = "NULL"
    <3>1. panicstr' = fmt /\ said' = Append(said, fmt)
      BY <2>2 DEF _panic
    <3>2. Len(panics) = 1 /\ said = <<>>
      BY <1>8, <2>2
    <3>3. fmt = panics[1] /\ fmt # "NULL"
      <4>1. fmt = panics[1]
        BY <3>2 DEF fmt
      <4>2. panics[1] \in Messages
        BY <1>8, <3>2
      <4> QED
        BY <4>1, <4>2 DEF Messages
    <3> QED
      BY <3>1, <3>2, <3>3
  <2> QED
    BY <2>1, <2>2
<1>10. Told'
  BY <1>4, <1>7, <1>8, <1>9 DEF Told
<1>11. MonitorInv'
  BY <1>1, <1>4, Bystander
<1>12. Remain
  BY <1>3, <1>4, Still DEF Continue
<1> QED
  BY <1>3, <1>4, <1>5, <1>7, <1>10, <1>11, <1>12 DEF KernelInv, Continue, Mapped

LEMMA Step_read_ebp ==
  ASSUME KernelInv, read_ebp
  PROVE  KernelInv' /\ Remain
<1>1. MonitorInv /\ Told
  BY DEF KernelInv
<1> DEFINE f == "mon_backtrace"
<1>2. f \in Names /\ eip = At(f, 1)
  BY DEF read_ebp, Names
<1>3. calls # <<>> /\ Mapped /\ esp > 0 /\ Chained
  BY <1>2, Arrives
<1>4. Continue /\ eip' = At(f, 2)
  BY <1>2, Following DEF read_ebp, Continue
<1>5. UNCHANGED <<ebp, esp, cr3, cr0, stack, calls>> /\ UNCHANGED <<vars, panicstr, said, panics>>
      /\ trace' = <<>> /\ ebp_b' = ebp
  BY DEF read_ebp, Continue
<1>6. Chained'
  BY <1>2, <1>3, <1>4, <1>5, Onward
<1>7. calls' # <<>>
  BY <1>3, <1>5
<1>8. Told'
  BY <1>1, <1>2, <1>3, <1>4, <1>5, <1>7, Silent
<1> QED
  BY <1>1, <1>3, <1>5, <1>6, <1>7, <1>8, Bystander, Still DEF KernelInv, Mapped

LEMMA Step_backtrace ==
  ASSUME KernelInv, backtrace
  PROVE  KernelInv' /\ Remain
<1>1. MonitorInv /\ Told
  BY DEF KernelInv
<1> DEFINE f == "mon_backtrace"
<1>2. f \in Names /\ eip = At(f, 2)
  BY DEF backtrace, Names
<1>3. calls # <<>> /\ Mapped /\ esp > 0 /\ Chained
  BY <1>2, Arrives
<1>4. Chained' /\ UNCHANGED <<machine, panics>>
  BY <1>3, Stepping
<1>5. UNCHANGED <<eip, ebp, esp, cr3, cr0, stack, calls>> /\ UNCHANGED <<vars, panicstr, said, panics>>
  BY <1>4 DEF backtrace, machine, regs
<1>6. calls' # <<>> /\ eip' = At(f, 2)
  BY <1>2, <1>3, <1>5
<1>7. Told'
  BY <1>1, <1>2, <1>3, <1>5, <1>6, Silent
<1> QED
  BY <1>1, <1>3, <1>4, <1>5, <1>6, <1>7, Bystander, Still DEF KernelInv, Mapped

\* What returns to somewhere says nothing.
LEMMA Leaves ==
  ASSUME KernelInv, NEW f \in Names \ {"_panic", "i386_init"}, NEW k \in 1..4, eip = At(f, k),
         Return, UNCHANGED <<panicstr, said, panics>>, MonitorInv'
  PROVE  KernelInv' /\ Remain
<1>1. Told /\ f \in Names /\ f # "_panic" /\ f # "i386_init" /\ k \in 0..4
  BY DEF KernelInv
<1>2. calls # <<>> /\ Mapped /\ esp > 0 /\ Chained
  BY <1>1, Arrives
<1>3. /\ Chained' /\ Mapped' /\ calls' # <<>> /\ esp' > 0 /\ Remain
      /\ \E g \in Names : \E n \in 2..4 : eip' = At(g, n)
  BY <1>2, Returned
<1>4. PICK g \in Names : \E n \in 2..4 : eip' = At(g, n)
  BY <1>3
<1>5. PICK n \in 2..4 : eip' = At(g, n)
  BY <1>4
<1>6. ~(n < 2) /\ n \in 0..4
  OBVIOUS
<1>7. Told'
  BY <1>1, <1>2, <1>3, <1>5, <1>6, Silent
<1> QED
  BY <1>3, <1>7 DEF KernelInv

\* What calls somebody other than _panic says nothing.
LEMMA Hands ==
  ASSUME KernelInv, NEW f \in Names, NEW k \in 1..4, eip = At(f, k),
         NEW g, NEW off, <<f, g, off>> \in Links, g # "_panic",
         NEW passed \in Seq(Int), g # "test_backtrace", f \notin {"i386_init", "_panic"},
         CallFrom(g, passed, At(f, off)),
         UNCHANGED <<panicstr, said, panics>>, MonitorInv'
  PROVE  KernelInv' /\ Remain
<1>1. Told /\ k \in 0..4 /\ g # "i386_init"
  BY DEF KernelInv, Links
<1>2. calls # <<>> /\ Mapped /\ esp > 0 /\ Chained
  BY <1>1, Arrives
<1>3. /\ Chained' /\ Mapped' /\ calls' # <<>> /\ esp' > 0
      /\ Remain /\ eip' = At(g, 0) /\ g \in Names
  BY <1>2, Called
<1>4. Told'
  BY <1>1, <1>2, <1>3, Silent
<1> QED
  BY <1>3, <1>4 DEF KernelInv

LEMMA Step_backtrace_returns ==
  ASSUME KernelInv, backtrace_returns
  PROVE  KernelInv' /\ Remain
<1>1. MonitorInv' /\ UNCHANGED <<panicstr, said, panics>> /\ Return
  BY Bystander DEF backtrace_returns, KernelInv
<1>2. "mon_backtrace" \in Names \ {"_panic", "i386_init"} /\ eip = At("mon_backtrace", 2)
  BY DEF backtrace_returns, Names
<1> QED
  BY <1>1, <1>2, Leaves

LEMMA Step_exec_hidden_cases ==
  ASSUME KernelInv, exec_hidden_cases
  PROVE  KernelInv' /\ Remain
<1>1. MonitorInv' /\ UNCHANGED <<panicstr, said, panics>> /\ Return
  BY Bystander DEF exec_hidden_cases, KernelInv
<1>2. /\ "exec_hidden_cases" \in Names \ {"_panic", "i386_init"}
      /\ eip = At("exec_hidden_cases", 1)
  BY DEF exec_hidden_cases, Names
<1> QED
  BY <1>1, <1>2, Leaves

LEMMA Step_hidden_panics ==
  ASSUME KernelInv, hidden_panics
  PROVE  KernelInv' /\ Remain
<1>1. MonitorInv /\ Told
  BY DEF KernelInv
<1> DEFINE f == "exec_hidden_cases"
           now == IF panics = <<>> THEN "first" ELSE "later"
<1>2. f \in Names /\ eip = At(f, 1) /\ "_panic" \in Names /\ <<f, "_panic", FNSIZE>> \in Links
  BY DEF hidden_panics, Names, Links
<1>3. calls # <<>> /\ Mapped /\ esp > 0 /\ Chained
  BY <1>2, Arrives
<1>4. /\ CallFrom("_panic", <<Beyond, Beyond, Beyond>>, At(f, FNSIZE))
      /\ panics' = Append(panics, now) /\ UNCHANGED <<vars, panicstr, said>>
  BY DEF hidden_panics, Panic
<1>5. PICK passed \in Seq(Int) : passed = <<Beyond, Beyond, Beyond>>
  <2>1. <<Beyond, Beyond, Beyond>> \in Seq(Int)
    BY KernelAssumption
  <2> QED
    BY <2>1
<1>6. /\ Chained' /\ Mapped' /\ calls' # <<>> /\ esp' > 0
      /\ Remain /\ eip' = At("_panic", 0)
  <2>1. CallFrom("_panic", passed, At(f, FNSIZE)) /\ 1 \in 1..4
    BY <1>4, <1>5
  <2> QED
    BY <1>2, <1>3, <2>1, Called
<1>7. ~Unclear /\ ~Telling
  BY <1>2, <1>3, Whereabouts DEF Unclear, Telling
<1>8. ~Unclear' /\ Telling'
  <2>1. /\ ~(eip' \in {At("i386_init", 0), At("i386_init", 1)})
        /\ eip' \in {At("_panic", 0), At("_panic", 1)}
    BY <1>2, <1>6, Whereabouts
  <2> QED
    BY <1>6, <2>1 DEF Unclear, Telling, At
<1> HIDE DEF Unclear, Telling
<1>9. /\ panics \in Seq(Messages) /\ (panicstr = "NULL" <=> said = <<>>)
      /\ said = IF panics = <<>> THEN <<>> ELSE <<panics[1]>>
  BY <1>1, <1>3, <1>7 DEF Told
<1>10. now \in Messages
  BY DEF Messages
<1> HIDE DEF now
<1>11. /\ panics' \in Seq(Messages) /\ panics' # <<>>
       /\ said' = IF Len(panics') = 1 THEN <<>> ELSE <<panics'[1]>>
  <2>1. CASE panics = <<>>
    <3>1. panics' = <<now>>
      BY <1>4, <2>1
    <3> QED
      BY <1>4, <1>9, <1>10, <2>1, <3>1
  <2>2. CASE panics # <<>>
    <3>1. Len(panics) \in Nat /\ Len(panics) >= 1
      BY <1>9, <2>2
    <3>2. /\ panics' \in Seq(Messages) /\ Len(panics') = Len(panics) + 1
          /\ panics'[1] = panics[1]
      BY <1>4, <1>9, <1>10, <3>1, Appended
    <3> QED
      BY <1>4, <1>9, <2>2, <3>1, <3>2
  <2> QED
    BY <2>1, <2>2
<1>12. Told'
  BY <1>4, <1>6, <1>8, <1>9, <1>11 DEF Told
<1> QED
  BY <1>1, <1>4, <1>6, <1>12, Bystander DEF KernelInv

LEMMA Step_monitor ==
  ASSUME KernelInv, monitor
  PROVE  KernelInv' /\ Remain
<1>1. MonitorInv /\ Told
  BY DEF KernelInv
<1> DEFINE f == "monitor"
<1>2. PICK k \in 1..4 : eip = At(f, k)
  BY DEF monitor
<1>3. f \in Names /\ eip' = At(f, 2) /\ k \in 0..4
  BY DEF monitor, Names
<1>4. calls # <<>> /\ Mapped /\ esp > 0 /\ Chained
  BY <1>2, <1>3, Arrives
<1>5. UNCHANGED <<ebp, esp, cr3, cr0, stack, calls>> /\ UNCHANGED <<vars, panicstr, said, panics>>
  BY DEF monitor
<1>6. Chained' /\ calls' # <<>>
  <2>1. f # "mon_backtrace" /\ 2 \in 1..4
    OBVIOUS
  <2> QED
    BY <1>2, <1>3, <1>4, <1>5, <2>1, Onward
<1>7. Told'
  BY <1>1, <1>2, <1>3, <1>4, <1>5, <1>6, Silent
<1> QED
  BY <1>1, <1>4, <1>5, <1>6, <1>7, Bystander, Still DEF KernelInv, Mapped

\* The processor stays where it is while runcmd or readline works.
LEMMA Works ==
  ASSUME KernelInv, NEW f \in {"monitor", "runcmd"}, NEW k \in 1..4, eip = At(f, k),
         UNCHANGED machine, UNCHANGED <<panicstr, said, panics>>, MonitorInv'
  PROVE  KernelInv' /\ Remain
<1>1. Told /\ f \in Names /\ f # "mon_backtrace" /\ k \in 0..4 /\ f \notin {"i386_init", "_panic"}
  BY DEF KernelInv, Names
<1>2. calls # <<>> /\ Mapped /\ esp > 0 /\ Chained
  BY <1>1, Arrives
<1>3. UNCHANGED <<eip, ebp, esp, cr3, cr0, stack, calls>> /\ eip' = At(f, k)
  BY DEF machine, regs
<1>4. Chained' /\ calls' # <<>>
  BY <1>1, <1>2, <1>3, Onward
<1>5. Told'
  BY <1>1, <1>2, <1>3, <1>4, Silent
<1> QED
  BY <1>2, <1>3, <1>4, <1>5, Still DEF KernelInv, Mapped

LEMMA Step_types ==
  ASSUME KernelInv, NEW c \in Keys, types(c)
  PROVE  KernelInv' /\ Remain
<1>1. /\ eip = At("monitor", 2) /\ readline(c) /\ UNCHANGED <<panicstr, said, panics>>
      /\ UNCHANGED machine \/ Call("runcmd", <<buf_at, 0>>)
  BY DEF types
<1>2. MonitorInv'
  <2>1. MonitorInv /\ Next
    BY <1>1 DEF KernelInv, Next
  <2> QED
    BY <2>1, Follows
<1>3. CASE UNCHANGED machine
  BY <1>1, <1>2, <1>3, Works
<1>4. CASE Call("runcmd", <<buf_at, 0>>)
  <2>1. /\ "monitor" \in Names /\ <<"monitor", "runcmd", 3>> \in Links
        /\ "monitor" \notin {"i386_init", "_panic"}
    BY DEF Names, Links
  <2>2. PICK passed \in Seq(Int) : passed = <<buf_at, 0>>
    <3>1. <<buf_at, 0>> \in Seq(Int)
      BY KernelAssumption
    <3> QED
      BY <3>1
  <2>3. CallFrom("runcmd", passed, At("monitor", 3))
    BY <1>1, <1>4, <2>1, <2>2, Following DEF Call
  <2>4. /\ eip = At("monitor", 2) /\ 2 \in 1..4
        /\ "runcmd" # "_panic" /\ "runcmd" # "test_backtrace"
        /\ UNCHANGED <<panicstr, said, panics>>
    BY <1>1
  <2> QED
    BY <1>2, <2>1, <2>3, <2>4, Hands
<1> QED
  BY <1>1, <1>3, <1>4

LEMMA Step_runs ==
  ASSUME KernelInv, runs
  PROVE  KernelInv' /\ Remain
<1> DEFINE f == "runcmd"
<1>1. f \in Names /\ f \in Names \ {"_panic", "i386_init"} /\ f \notin {"i386_init", "_panic"}
  BY DEF Names
<1>2. UNCHANGED <<panicstr, said, panics>> /\ MonitorInv
  BY DEF runs, KernelInv
<1>3. CASE eip = At(f, 2) /\ command /\ Return
  <2>1. MonitorInv'
    BY <1>2, <1>3, Follows DEF Next, runcmd
  <2> QED
    BY <1>1, <1>2, <1>3, <2>1, Leaves
<1>4. CASE /\ eip = At(f, 1) /\ parse
           /\ CASE pc' = "read"    -> Return
                [] pc' = "command" -> Call(Function[Args[1]], <<argc, esp, 0>>)
                [] OTHER           -> UNCHANGED machine
  <2>1. MonitorInv'
    BY <1>2, <1>4, Follows DEF Next, runcmd
  <2>2. CASE pc' = "read"
    <3>1. Return
      BY <1>4, <2>2
    <3> QED
      BY <1>1, <1>2, <1>4, <2>1, <3>1, Leaves
  <2>3. CASE pc' = "command"
    <3>1. Call(Function[Args[1]], <<argc, esp, 0>>)
      BY <1>4, <2>3
    <3>2. Args[1] \in Commands
      BY <1>4, <2>3 DEF parse, gobble, too_many, next_arg, scan, end_of_line, lookup, Prompt
    <3>3. PICK g \in {"mon_backtrace", "exec_hidden_cases"} : g = Function[Args[1]]
      BY <3>2, KernelAssumption
    <3>4. <<f, g, 2>> \in Links /\ g # "_panic" /\ g # "test_backtrace"
      BY DEF Links
    <3>5. PICK passed \in Seq(Int) : passed = <<argc, esp, 0>>
      <4>1. argc \in Int
        BY <1>2, MonitorAssumption DEF MonitorInv, EditInv, TypeOK
      <4>2. esp \in Int
        <5>1. Chained
          BY <1>1, <1>4, Arrives
        <5>2. PICK P, done : Places(P, done)
          BY <5>1 DEF Chained, Built
        <5> QED
          BY <5>2, Parted, Heights
      <4>3. <<argc, esp, 0>> \in Seq(Int)
        BY <4>1, <4>2
      <4> QED
        BY <4>3
    <3>6. CallFrom(g, passed, At(f, 2))
      BY <1>1, <1>4, <3>1, <3>3, <3>5, Following DEF Call
    <3>7. 1 \in 1..4 /\ eip = At(f, 1)
      BY <1>4
    <3> HIDE DEF f
    <3> QED
      BY <1>1, <1>2, <2>1, <3>4, <3>6, <3>7, Hands
  <2>4. CASE pc' \notin {"read", "command"}
    <3>1. UNCHANGED machine
      BY <1>4, <2>4
    <3> QED
      BY <1>2, <1>4, <2>1, <3>1, Works
  <2> QED
    BY <2>2, <2>3, <2>4
<1> QED
  BY <1>3, <1>4 DEF runs

LEMMA Step_entry ==
  ASSUME KernelInv, entry
  PROVE  KernelInv' /\ Remain
<1>1. MonitorInv /\ Told /\ EntryNext
  BY DEF KernelInv, entry
<1>2. /\ UNCHANGED <<vars, panicstr, ebp_b, trace, said, panics>>
      /\ calls' = IF Len(stack') = 1
                  THEN <<[fn |-> "i386_init", args |-> <<>>, from |-> "entry"]>> ELSE calls
  BY DEF entry
<1>3. MonitorInv'
  BY <1>1, <1>2, Bystander
<1>4. calls = <<>> /\ OnTheWay /\ ~Arrived
  <2> SUFFICES ASSUME calls # <<>>, Mapped, Chained PROVE FALSE
    BY DEF KernelInv
  <2>1. PICK P, done : Places(P, done) /\ InTop(done)
    BY DEF Chained, Built
  <2>2. PICK n \in 0..4 : eip = At(Top.fn, n)
    BY <2>1 DEF InTop
  <2>3. Top.fn \in Names
    BY <2>1, Heights DEF Top
  <2>4. n \in 0..(FNSIZE - 1)
    BY KernelAssumption
  <2>5. eip \in Image /\ eip >= i386_init_at /\ eip \in Int
    BY <2>2, <2>3, <2>4, Named
  <2>6. Phys(eip) = RELOC(eip)
    BY <2>5, High
  <2>7. \A m \in 0..6 : ~Executes(m)
    BY <2>5, <2>6, EntryAssumption, Numbers DEF Executes, RELOC
  <2> QED
    BY <1>1, <2>7 DEF EntryNext, warm_boot, load_cr3, paging_on, jmp_relocated, clear_ebp,
                      set_esp, call_i386_init
<1>5. PICK n \in 0..6 : Before(n)
  BY <1>4 DEF OnTheWay
<1>6. OnTheWay'
  BY <1>1, <1>4, GoesOn
<1>7. panics = <<>> /\ said = <<>> /\ pc = "read" /\ i = 0 /\ trace = <<>>
  BY <1>1, <1>4 DEF Told, Unclear
<1>8. Remain
  <2>1. Len(calls) = 0
    BY <1>4
  <2> QED
    BY <2>1 DEF Remain
<1>9. CASE call_i386_init
  <2>1. n = 6
    BY <1>5, <1>9, FindsNext DEF call_i386_init
  <2>2. Arrived'
    BY <1>5, <1>9, <2>1, Calls
  <2>3. esp' = bootstacktop - 1 /\ eip' = i386_init_at /\ ebp' = 0 /\ stack' = <<entry_at + 7>>
    <3>1. esp = bootstacktop
      BY <1>5, <2>1 DEF Before
    <3>2. esp' = esp - 1
      BY <1>9 DEF call_i386_init, Pushes
    <3> QED
      BY <2>2, <3>1, <3>2 DEF Arrived
  <2> DEFINE act == [fn |-> "i386_init", args |-> <<>>, from |-> "entry"]
  <2>4. calls' = <<act>>
    <3>1. Len(stack') = 1
      BY <2>3
    <3> QED
      BY <1>2, <3>1
  <2>5. /\ act \in Activations /\ act.fn = "i386_init" /\ Len(act.args) = 0 /\ act.from = "entry"
        /\ "i386_init" \in Names
    BY DEF Activations, Names, Callers
  <2> HIDE DEF act
  <2>6. calls' \in Seq(Activations) /\ Len(calls') = 1 /\ calls'[1] = act
    BY <2>4, <2>5
  <2> DEFINE P == [k \in 0..1 |-> IF k = 0 THEN 0 ELSE 2]
  <2>7. P \in [0..1 -> Nat] /\ P[0] = 0 /\ P[1] = 2
    OBVIOUS
  <2> HIDE DEF P
  <2>8. stack' \in Seq(Int) /\ Len(stack') = 1 /\ stack'[1] = entry_at + 7
    BY <2>3, Numbers
  <2>9. Places(P, 0)'
    <3>1. \A k \in 1..1 : P[k] = P[k - 1] + Len(calls'[k].args) + 2
      BY <2>5, <2>6, <2>7
    <3>2. \A j, k \in 0..1 : j < k => P[j] < P[k]
      BY <2>7
    <3>3. calls' # <<>> /\ calls'[1].fn = "i386_init"
      BY <2>4, <2>5, <2>6
    <3>4. 0 = Len(calls') - 1 /\ Len(stack') = P[Len(calls')] - 1 /\ esp' = bootstacktop - Len(stack')
      BY <2>3, <2>6, <2>7, <2>8
    <3> QED
      BY <2>3, <2>6, <2>7, <2>8, <3>1, <3>2, <3>3, <3>4 DEF Places, Frame
  <2>10. Left(P, 1)'
    <3>1. P[1] - 1 = 1 /\ calls'[1].fn # "test_backtrace" /\ calls'[1].from = "entry"
      BY <2>5, <2>6, <2>7
    <3>2. \A k \in 1..Len(calls'[1].args) : stack'[P[1] - 1 - k] = calls'[1].args[k]
      BY <2>5, <2>6
    <3> QED
      BY <2>8, <3>1, <3>2 DEF Left
  <2>11. Built(P, 0)'
    BY <2>6, <2>9, <2>10 DEF Built
  <2>12. eip' = At("i386_init", 0)
    BY <2>3, Linked, Numbers
  <2>13. InTop(0)'
    <3>1. eip' = At(Top'.fn, 0) /\ 0 # Len(calls') /\ 0 \in 0..4
      BY <2>5, <2>6, <2>12 DEF Top
    <3> QED
      BY <3>1 DEF InTop, At
  <2>14. Walked(P)'
    <3>1. eip' # At("mon_backtrace", 2)
      <4>1. "mon_backtrace" \in Names /\ 0 \in 0..4 /\ 2 \in 0..4 /\ 0 # 2
        BY DEF Names
      <4> QED
        BY <2>5, <2>12, <4>1, Apart
    <3> QED
      BY <3>1 DEF Walked, At
  <2>15. Chained' /\ calls' # <<>>
    <3>1. 0 \in {Len(calls') - 1, Len(calls')} /\ calls' # <<>>
      BY <2>6
    <3> QED
      BY <2>11, <2>13, <2>14, <3>1 DEF Chained
  <2>16. Mapped' /\ esp' > 0
    BY <2>2, <2>3, EntryAssumption, Numbers DEF Arrived, Image
  <2>17. Told'
    <3>1. /\ eip' \in {At("i386_init", 0), At("i386_init", 1)}
          /\ ~(eip' \in {At("_panic", 0), At("_panic", 1)})
      BY <2>5, <2>12, Whereabouts
    <3>2. Unclear' /\ ~Telling'
      BY <3>1 DEF Unclear, Telling, At
    <3>3. UNCHANGED <<panics, said, pc, i>>
      BY <1>2 DEF vars
    <3>4. panics \in Seq(Messages)
      BY <1>1 DEF Told
    <3> HIDE DEF Unclear, Telling
    <3> QED
      BY <1>7, <2>15, <3>2, <3>3, <3>4 DEF Told
  <2> QED
    BY <1>3, <1>8, <2>15, <2>16, <2>17 DEF KernelInv
<1>10. CASE ~call_i386_init
  <2>1. stack' = <<>>
    <3>1. stack = <<>>
      BY <1>5 DEF Before
    <3> QED
      BY <1>1, <1>10, <3>1 DEF EntryNext, warm_boot, load_cr3, paging_on, jmp_relocated,
                               clear_ebp, set_esp
  <2>2. calls' = <<>> /\ ~Arrived'
    <3>1. Len(stack') = 0 /\ stack' # <<entry_at + 7>>
      BY <2>1
    <3> QED
      BY <1>2, <1>4, <3>1 DEF Arrived
  <2>3. Told'
    <3>1. UNCHANGED <<panics, said, trace, pc, i>>
      BY <1>2 DEF vars
    <3>2. panics \in Seq(Messages)
      BY <1>1 DEF Told
    <3>3. Unclear'
      BY <2>2 DEF Unclear
    <3> HIDE DEF Unclear, Telling
    <3> QED
      BY <1>7, <2>2, <3>1, <3>2, <3>3 DEF Told
  <2> QED
    BY <1>3, <1>6, <1>8, <2>2, <2>3 DEF KernelInv
<1> QED
  BY <1>9, <1>10

-----------------------------------------------------------------------------
(* The whole kernel *)

LEMMA Boots == KernelInit => KernelInv
<1> SUFFICES ASSUME KernelInit PROVE KernelInv
  OBVIOUS
<1>1. MonitorInv /\ OnTheWay
  BY Begins, SetsOff DEF KernelInit
<1>2. stack = <<>> /\ ~Arrived
  <2>1. stack = <<>>
    BY DEF KernelInit, EntryInit
  <2>2. stack # <<entry_at + 7>>
    BY <2>1
  <2> QED
    BY <2>1, <2>2 DEF Arrived
<1>3. panics = <<>> /\ said = <<>> /\ trace = <<>> /\ calls = <<>> /\ pc = "read" /\ i = 0
  BY DEF KernelInit, Init
<1>4. panics \in Seq(Messages) /\ Unclear
  BY <1>3 DEF Unclear
<1>5. Told
  BY <1>3, <1>4 DEF Told
<1> QED
  BY <1>1, <1>2, <1>3, <1>5 DEF KernelInv

LEMMA Steps == KernelInv /\ [KernelNext]_kernel => KernelInv' /\ Remain
<1> SUFFICES ASSUME KernelInv, [KernelNext]_kernel PROVE KernelInv' /\ Remain
  OBVIOUS
<1>1. CASE UNCHANGED kernel
  <2>1. /\ UNCHANGED <<eip, ebp, esp, cr3, cr0, stack>>
        /\ UNCHANGED <<vars, panicstr, ebp_b, trace, said, calls, panics>> /\ UNCHANGED <<pc, i>>
    BY <1>1 DEF kernel, regs, vars
  <2>2. MonitorInv'
    BY <2>1, Bystander DEF KernelInv
  <2>3. Told'
    <3>1. (Unclear' <=> Unclear) /\ (Telling' <=> Telling)
      BY <2>1 DEF Unclear, Telling, At
    <3> HIDE DEF Unclear, Telling
    <3> QED
      BY <2>1, <3>1 DEF KernelInv, Told
  <2>4. CASE calls = <<>>
    <3>1. OnTheWay /\ ~Arrived
      BY <2>4 DEF KernelInv
    <3>2. OnTheWay'
      BY <2>1, <3>1, GoesOn DEF regs
    <3>3. ~Arrived'
      BY <2>1, <3>1 DEF Arrived, Mapped
    <3>4. Len(calls) = 0
      BY <2>4
    <3> QED
      BY <2>1, <2>2, <2>3, <2>4, <3>2, <3>3, <3>4 DEF KernelInv, Remain
  <2>5. CASE calls # <<>>
    <3>1. Mapped /\ esp > 0 /\ Chained
      BY <2>5 DEF KernelInv
    <3>2. Chained'
      <4>1. PICK P : \E done \in {Len(calls) - 1, Len(calls)} :
                       Built(P, done) /\ InTop(done) /\ Walked(P)
        BY <3>1 DEF Chained
      <4>2. PICK done \in {Len(calls) - 1, Len(calls)} :
                       Built(P, done) /\ InTop(done) /\ Walked(P)
        BY <4>1
      <4>3. Places(P, done)'
        BY <2>1, <4>2 DEF Built, Places, Frame
      <4>4. \A j \in 1..Len(calls) : Left(P, j)'
        <5>1. \A j \in 1..Len(calls) : Left(P, j)
          BY <4>2 DEF Built
        <5> QED
          BY <2>1, <5>1, Stays
      <4>5. \A j \in 1..done : stack'[P[j]] = Frame(P, j - 1)
        BY <2>1, <4>2 DEF Built
      <4>6. Built(P, done)'
        BY <2>1, <4>3, <4>4, <4>5 DEF Built, Frame
      <4>7. InTop(done)'
        BY <2>1, <4>2 DEF InTop, Top, At
      <4>8. Walked(P)'
        BY <2>1, <4>2 DEF Walked, Frame, At, Lines
      <4> QED
        BY <2>1, <4>2, <4>6, <4>7, <4>8 DEF Chained
    <3> QED
      BY <2>1, <2>2, <2>3, <2>5, <3>1, <3>2, Still DEF KernelInv, Mapped
  <2> QED
    BY <2>4, <2>5
<1>2. CASE KernelNext
  BY <1>2, Step_entry, Step_prologue, Step_clear_bss, Step_call_test_backtrace,
     Step_test_backtrace, Step_call_monitor, Step__panic, Step_read_ebp, Step_backtrace,
     Step_backtrace_returns, Step_exec_hidden_cases, Step_hidden_panics, Step_monitor,
     Step_runs, Step_types DEF KernelNext, Processor
<1> QED
  BY <1>1, <1>2

LEMMA Runs == KernelSpec => []KernelInv
<1>1. KernelInv /\ [KernelNext]_kernel => KernelInv'
  BY Steps
<1> QED
  BY Boots, <1>1, PTL DEF KernelSpec

\* A backtrace tells the calls not yet returned from, with their arguments and the names
\* of their callers, and ends at i386_init, at every depth of recursion and of panics in
\* monitors of panics (module Kernel, BacktraceTrue).
THEOREM AlwaysTrue == KernelSpec => []BacktraceTrue
<1>1. KernelInv => BacktraceTrue
  <2> SUFFICES ASSUME KernelInv, eip = At("mon_backtrace", 2)
               PROVE  /\ Len(trace) <= Len(calls)
                      /\ ebp_b = 0 <=> Len(trace) = Len(calls)
                      /\ \A k \in 1..Len(trace) :
                           LET call == calls[Len(calls) - k + 1]
                           IN  /\ \A n \in 1..Len(call.args) :
                                    n <= 5 => trace[k].args[n] = call.args[n]
                               /\ call.fn # "_panic" => trace[k].name = call.from
    BY DEF BacktraceTrue
  <2>1. "mon_backtrace" \in Names /\ 2 \in 0..4
    BY DEF Names
  <2>2. Chained /\ esp > 0
    BY <2>1, Arrives
  <2>3. PICK P : \E done \in {Len(calls) - 1, Len(calls)} :
                   Built(P, done) /\ InTop(done) /\ Walked(P)
    BY <2>2 DEF Chained
  <2>4. PICK done \in {Len(calls) - 1, Len(calls)} : Built(P, done) /\ InTop(done) /\ Walked(P)
    BY <2>3
  <2>5. Places(P, done)
    BY <2>4 DEF Built
  <2>6. done = Len(calls) /\ Len(calls) \in Nat
    BY <2>1, <2>4, <2>5, Standing, Heights
  <2>7. /\ trace \in Seq(Lines) /\ Len(trace) <= Len(calls)
        /\ ebp_b = Frame(P, Len(calls) - Len(trace))
        /\ \A k \in 1..Len(trace) :
             LET call == calls[Len(calls) - k + 1]
             IN  /\ \A n \in 1..Len(call.args) : n <= 5 => trace[k].args[n] = call.args[n]
                 /\ call.fn # "_panic" => trace[k].name = call.from
    BY <2>4 DEF Walked
  <2>8. PICK t \in Nat : t = Len(trace)
    BY <2>7
  <2>9. CASE t = Len(calls)
    BY <2>6, <2>7, <2>8, <2>9 DEF Frame
  <2>10. CASE t # Len(calls)
    <3>1. PICK j \in 1..Len(calls) : j = Len(calls) - t
      <4>1. Len(calls) - t \in 1..Len(calls)
        BY <2>6, <2>7, <2>8, <2>10
      <4> QED
        BY <4>1
    <3>2. ebp_b = bootstacktop - P[j] /\ P[j] \in 1..Len(stack)
      <4>1. ebp_b = Frame(P, j) /\ j <= done
        BY <2>6, <2>7, <2>8, <3>1
      <4> QED
        BY <2>4, <4>1, Finds
    <3>3. esp = bootstacktop - Len(stack) /\ Len(stack) \in Nat /\ bootstacktop \in Int
      BY <2>5, Parted, Heights
    <3>4. ebp_b > 0 /\ ebp_b \in Int
      BY <2>2, <3>2, <3>3
    <3> QED
      BY <2>7, <2>8, <2>10, <3>4
  <2> QED
    BY <2>9, <2>10
<1> QED
  BY <1>1, Runs, PTL

\* The first panic's message is printed and no other's, whatever panics inside its
\* monitor (module Kernel, FirstPanicSaid).
THEOREM AlwaysFirst == KernelSpec => []FirstPanicSaid
<1>1. KernelInv => FirstPanicSaid
  <2> SUFFICES ASSUME KernelInv, ~Telling
               PROVE  said = IF panics = <<>> THEN <<>> ELSE <<panics[1]>>
    BY DEF FirstPanicSaid, Telling
  <2>1. Told
    BY DEF KernelInv
  <2>2. CASE calls = <<>>
    <3>1. panics = <<>> /\ said = <<>>
      BY <2>1, <2>2 DEF Told, Unclear
    <3> QED
      BY <3>1
  <2>3. CASE calls # <<>>
    <3> HIDE DEF Telling, Unclear
    <3> QED
      BY <2>1, <2>3 DEF Told
  <2> QED
    BY <2>2, <2>3
<1> QED
  BY <1>1, Runs, PTL

\* Nothing that a panic interrupted ever goes on (module Kernel, NoReturnFromPanic).
THEOREM NeverBack == KernelSpec => NoReturnFromPanic
<1>1. KernelInv /\ [KernelNext]_kernel =>
        [\A k \in 1..Len(calls) : calls[k].fn = "_panic" =>
           Len(calls') >= k /\ calls'[k] = calls[k]]_kernel
  BY Steps DEF Remain
<1> QED
  BY <1>1, Runs, PTL DEF KernelSpec, NoReturnFromPanic

\* What holds of entry.S and of the line editor by themselves holds in the kernel that
\* they are part of.
THEOREM Composed == KernelSpec => [](TypeOK /\ Seen /\ ArgsAreWords /\ Fetches /\ AtHome)
<1>1. KernelInv => TypeOK /\ Seen /\ ArgsAreWords /\ Fetches /\ AtHome
  <2> SUFFICES ASSUME KernelInv PROVE TypeOK /\ Seen /\ ArgsAreWords /\ Fetches /\ AtHome
    OBVIOUS
  <2>1. TypeOK /\ Seen /\ ArgsAreWords
    BY Delivers DEF KernelInv, MonitorInv, EditInv
  <2>2. CASE calls = <<>>
    <3>1. PICK n \in 0..6 : Before(n)
      BY <2>2 DEF KernelInv, OnTheWay
    <3>2. stack = <<>> /\ Executes(n)
      BY <3>1, FindsNext DEF Before
    <3>3. Len(stack) = 0
      BY <3>2
    <3> QED
      BY <2>1, <3>2, <3>3 DEF Fetches, AtHome
  <2>3. CASE calls # <<>>
    <3>1. Mapped /\ Chained
      BY <2>3 DEF KernelInv
    <3>2. PICK P : \E done \in {Len(calls) - 1, Len(calls)} : Built(P, done) /\ InTop(done)
      BY <3>1 DEF Chained
    <3>3. PICK done \in {Len(calls) - 1, Len(calls)} : Built(P, done) /\ InTop(done)
      BY <3>2
    <3>4. Places(P, done)
      BY <3>3 DEF Built
    <3>5. /\ Len(calls) \in Nat /\ Len(calls) >= 1 /\ Len(stack) \in Nat
          /\ \A k \in 1..Len(calls) :
               /\ P[k - 1] \in Nat /\ Len(calls[k].args) \in Nat /\ P[k] - 1 \in 1..Len(stack)
               /\ P[k] = P[k - 1] + Len(calls[k].args) + 2
      BY <3>4, Heights
    <3>6. stack # <<>>
      <4>1. P[1] - 1 \in 1..Len(stack) /\ Len(<<>>) = 0
        BY <3>5
      <4> QED
        BY <3>5, <4>1
    <3>7. ASSUME Len(stack) = 1
          PROVE  /\ eip = i386_init_at
                 /\ \A la \in Image : Writable(la) /\ Phys(la) = RELOC(la)
                 /\ stack[1] \in Image /\ ebp = 0
      <4>1. Len(calls) = 1 /\ P[1] = 2
        <5>1. \A k \in 1..Len(calls) : P[k] \in Int /\ P[k] - 1 = 1
          BY <3>5, <3>7
        <5>2. Len(calls) < 2
          <6> SUFFICES ASSUME Len(calls) >= 2 PROVE FALSE
            BY <3>5
          <6>1. 1 \in 1..Len(calls) /\ 2 \in 1..Len(calls) /\ 2 - 1 = 1
            BY <3>5
          <6>2. P[1] - 1 = 1 /\ P[2] - 1 = 1 /\ P[1] \in Int /\ P[2] \in Int
            BY <5>1, <6>1
          <6>3. P[2] = P[1] + Len(calls[2].args) + 2 /\ Len(calls[2].args) \in Nat
            BY <3>5, <6>1
          <6> QED
            BY <6>2, <6>3
        <5>3. 1 \in 1..Len(calls)
          BY <3>5
        <5>4. P[1] \in Int /\ P[1] - 1 = 1
          BY <5>1, <5>3
        <5>5. Len(calls) \in Nat /\ Len(calls) >= 1
          BY <3>5
        <5>6. Len(calls) = 1
          <6>1. PICK m \in Nat : m = Len(calls)
            BY <5>5
          <6>2. m < 2 /\ m >= 1
            BY <5>2, <5>5, <6>1
          <6>3. m = 1
            BY <6>2
          <6> QED
            BY <6>1, <6>3
        <5>7. P[1] = 2
          BY <5>4
        <5> QED
          BY <5>6, <5>7
      <4>2. done = 0 /\ Top.fn = "i386_init" /\ ebp = 0
        <5>1. done = 0
          BY <3>4, <3>7, <4>1 DEF Places
        <5> QED
          BY <3>4, <4>1, <5>1, Parted DEF Top, Frame
      <4>3. eip = i386_init_at
        <5>1. PICK n \in 0..4 : eip = At(Top.fn, n) /\ (done = Len(calls) <=> n # 0)
          BY <3>3 DEF InTop
        <5>2. n = 0
          BY <4>1, <4>2, <5>1
        <5> QED
          BY <4>2, <5>1, <5>2, Linked, Numbers
      <4>4. stack[1] \in Image
        <5>1. Left(P, 1)
          BY <3>3, <4>1 DEF Built
        <5>2. stack[1] = entry_at + 7
          BY <4>1, <5>1 DEF Left
        <5> QED
          BY <5>2, EntryAssumption, Numbers DEF Image
      <4> QED
        BY <3>1, <4>2, <4>3, <4>4, High
    <3> QED
      BY <2>1, <3>6, <3>7 DEF Fetches, AtHome
  <2> QED
    BY <2>2, <2>3
<1> QED
  BY <1>1, Runs, PTL
=============================================================================
