------------------------------- MODULE Entry -------------------------------
(***************************************************************************)
(* kern/entry.S over the page directory and page table of                  *)
(* kern/entrypgdir.c, with the address macros of inc/mmu.h: the first      *)
(* instructions of the kernel, which runs where the boot loader put it     *)
(* until paging is on, and where it was linked from then on.               *)
(*                                                                         *)
(* One action is one instruction; it can only be taken if the processor    *)
(* finds it, so a wrong mapping stops the machine.  Instructions and words *)
(* take up one address each.                                               *)
(***************************************************************************)
EXTENDS Integers, Sequences

CONSTANTS
  PGSIZE, NPTENTRIES, NPDENTRIES,
  KERNBASE,
  entry_at, pgdir_at, pgtable_at,   \* link addresses: the code of entry.S, and
                                    \* entry_pgdir and entry_pgtable
  i386_init_at,                     \* link address of i386_init
  bootstacktop

PTSIZE == PGSIZE * NPTENTRIES       \* bytes mapped by a page directory entry

\* The first PTSIZE bytes of memory, at their link addresses: all that entry.S maps.
Image == KERNBASE..(KERNBASE + PTSIZE - 1)

ASSUME EntryAssumption ==
  /\ PGSIZE \in Nat \ {0} /\ NPTENTRIES \in Nat \ {0} /\ NPDENTRIES \in Nat \ {0}
  /\ KERNBASE \in Nat
  /\ \E d \in 1..(NPDENTRIES - 1) : KERNBASE = d * PTSIZE
  /\ entry_at \in Image /\ entry_at + 6 \in Image /\ i386_init_at \in Image
  /\ pgdir_at \in Image /\ pgtable_at \in Image /\ pgdir_at # pgtable_at
  /\ bootstacktop \in Nat /\ bootstacktop - 2 \in Image /\ bootstacktop - 1 \in Image
  /\ i386_init_at > entry_at + 7

VARIABLES
  eip, ebp, esp,
  cr3, cr0,       \* cr0 is a set of flags
  stack           \* the words from bootstacktop down to esp

regs == <<eip, ebp, esp, cr3, cr0, stack>>

-----------------------------------------------------------------------------
(* Addresses and tables *)

RELOC(x) == x - KERNBASE

PDX(la)   == (la \div PTSIZE) % NPDENTRIES
PTX(la)   == (la \div PGSIZE) % NPTENTRIES
PGOFF(la) == la % PGSIZE

\* A directory or table entry: the address in it, and the flags PTE_P and PTE_W.
Absent == [addr |-> 0, P |-> FALSE, W |-> FALSE]

\* A slip: the table's link address where its physical one belongs.
entry_pgdir_Linked ==
  [d \in 0..(NPDENTRIES - 1) |->
     IF d \in {0, PDX(KERNBASE)} THEN [addr |-> pgtable_at, P |-> TRUE, W |-> d # 0]
     ELSE Absent]

\* [0, PTSIZE) for reading only, and KERNBASE up.
entry_pgdir ==
  [d \in 0..(NPDENTRIES - 1) |->
     IF d = 0 THEN [addr |-> RELOC(pgtable_at), P |-> TRUE, W |-> FALSE]
     ELSE IF d = PDX(KERNBASE) THEN [addr |-> RELOC(pgtable_at), P |-> TRUE, W |-> TRUE]
     ELSE Absent]

entry_pgtable == [t \in 0..(NPTENTRIES - 1) |-> [addr |-> t * PGSIZE, P |-> TRUE, W |-> TRUE]]

-----------------------------------------------------------------------------
(* The processor (external) *)

\* What it finds when it takes the memory at a physical address for a directory or
\* for a table.
DirectoryAt(pa) == IF pa = RELOC(pgdir_at) THEN entry_pgdir
                   ELSE [d \in 0..(NPDENTRIES - 1) |-> Absent]
TableAt(pa)     == IF pa = RELOC(pgtable_at) THEN entry_pgtable
                   ELSE [t \in 0..(NPTENTRIES - 1) |-> Absent]

pde(la) == DirectoryAt(cr3)[PDX(la)]
pte(la) == TableAt(pde(la).addr)[PTX(la)]

Paging == "PG" \in cr0

Readable(la) == Paging => pde(la).P /\ pte(la).P
Writable(la) == Readable(la) /\ (Paging /\ "WP" \in cr0 => pde(la).W /\ pte(la).W)
Phys(la)     == IF Paging THEN pte(la).addr + PGOFF(la) ELSE la

\* The code of entry.S is in memory at its load address; the n-th instruction is
\* executed if that is what eip leads to.
Executes(n) == Readable(eip) /\ Phys(eip) = RELOC(entry_at) + n

\* A write to the stack has to find the memory linked there.
Pushes(words) ==
  /\ \A k \in 1..Len(words) : Writable(esp - k) /\ Phys(esp - k) = RELOC(esp - k)
  /\ stack' = stack \o words
  /\ esp' = esp - Len(words)

-----------------------------------------------------------------------------
(* entry.S *)

\* _start: entered by the boot loader, in protected mode, on its own stack.
EntryInit == /\ eip = RELOC(entry_at)
             /\ cr0 = {"PE"} /\ cr3 = 0
             /\ ebp = 1 /\ esp = 0 /\ stack = <<>>

warm_boot == Executes(0) /\ eip' = eip + 1 /\ UNCHANGED <<ebp, esp, cr3, cr0, stack>>

load_cr3 == /\ Executes(1) /\ eip' = eip + 1
            /\ cr3' = RELOC(pgdir_at)
            /\ UNCHANGED <<ebp, esp, cr0, stack>>

paging_on == /\ Executes(2) /\ eip' = eip + 1
             /\ cr0' = cr0 \cup {"PE", "PG", "WP"}
             /\ UNCHANGED <<ebp, esp, cr3, stack>>

jmp_relocated == Executes(3) /\ eip' = entry_at + 4 /\ UNCHANGED <<ebp, esp, cr3, cr0, stack>>

\* A slip: the boot loader's frame pointer is kept.
clear_ebp_Not == Executes(4) /\ eip' = eip + 1 /\ UNCHANGED <<ebp, esp, cr3, cr0, stack>>

clear_ebp == Executes(4) /\ eip' = eip + 1 /\ ebp' = 0 /\ UNCHANGED <<esp, cr3, cr0, stack>>

set_esp == /\ Executes(5) /\ eip' = eip + 1
           /\ esp' = bootstacktop /\ stack' = <<>>
           /\ UNCHANGED <<ebp, cr3, cr0>>

\* The call is relative to eip.  It does not return, so the jump after it, which
\* would spin, is not modelled.
call_i386_init == /\ Executes(6) /\ eip' = eip + (i386_init_at - (entry_at + 6))
                  /\ Pushes(<<eip + 1>>)
                  /\ UNCHANGED <<ebp, cr3, cr0>>

EntryNext == \/ warm_boot \/ load_cr3 \/ paging_on \/ jmp_relocated
             \/ clear_ebp \/ set_esp \/ call_i386_init

EntrySpec == EntryInit /\ [][EntryNext]_regs

-----------------------------------------------------------------------------
(* Properties *)

\* The machine never stops on the way from the boot loader to C code, though the
\* ground changes under it: the next instruction is always where eip leads, before
\* paging, between cr0 and the jump, and after it.
Fetches == stack = <<>> => \E n \in 0..6 : Executes(n)

\* C code is entered at its link address, with every address of the first PTSIZE
\* bytes of memory above KERNBASE leading where the boot loader put what is linked
\* there, and writable; with a return address that the backtrace takes for the
\* kernel's; and with the end of the chain of frame pointers in ebp.
AtHome == Len(stack) = 1 =>
            /\ eip = i386_init_at
            /\ \A la \in Image : Writable(la) /\ Phys(la) = RELOC(la)
            /\ stack[1] \in Image /\ ebp = 0

=============================================================================
