----------------------------- MODULE BootLoader -----------------------------
(***************************************************************************)
(* The boot loader: boot/boot.S opens the A20 gate through the keyboard    *)
(* controller and enters bootmain (boot/main.c), which reads the ELF       *)
(* header of the kernel from the disk, then its segments, and jumps to it. *)
(*                                                                         *)
(* The processor polls two devices (external) that work beside it: the     *)
(* keyboard controller and the IDE disk.  One action is the code from one  *)
(* status read to the next.                                                *)
(*                                                                         *)
(* A byte in memory is the position on the disk it was read from, so that  *)
(* the properties can say what is where.  The ELF header is the first byte *)
(* of the file; every program header is one byte after it.                 *)
(*                                                                         *)
(* A sector the disk fails to read holds junk.  As junk, the first sector  *)
(* of the header page is taken not to begin with ELF's magic number; a     *)
(* program header can be any of JunkHeaders, and bootmain goes by it.      *)
(***************************************************************************)
EXTENDS Integers, Sequences

CONSTANTS
  SECTSIZE,
  HdrSects,     \* sectors of the header page: 8
  ELFHDR,       \* where the header page is read to: 0x10000
  A20BIT,       \* the value of address bit 20
  MemSize,
  Kernels,      \* kernel images: [magic : BOOLEAN, ph : the program headers]
  JunkHeaders   \* what there can be in a program header's place: [pa, memsz, offset]

Addr == 0..(MemSize - 1)

ASSUME BootAssumption ==
  /\ SECTSIZE \in Nat \ {0} /\ HdrSects \in Nat \ {0} /\ ELFHDR \in Nat
  /\ A20BIT \in Nat \ {0} /\ MemSize \in Nat
  /\ ELFHDR % SECTSIZE = 0 /\ ELFHDR + SECTSIZE * HdrSects <= A20BIT
  /\ ELFHDR + SECTSIZE * HdrSects <= MemSize
  /\ JunkHeaders \subseteq [pa : Nat, memsz : Nat, offset : Nat]

\* The program headers are in the header page.  Segments as a linker lays them out:
\* their file offsets congruent to their addresses
\* modulo the sector size, in the memory there is, and one without bytes (the header for
\* the stack) not in the middle of a sector, which readseg would read.
ProgramHeaders == [pa : Nat, filesz : Nat, memsz : Nat, offset : Nat]

ASSUME KernelsAssumption ==
  \A image \in Kernels :
    /\ image.ph \in Seq(ProgramHeaders) /\ Len(image.ph) < SECTSIZE * HdrSects
    /\ \A k \in 1..Len(image.ph) :
         LET p == image.ph[k]
         IN  /\ p.filesz <= p.memsz /\ p.pa + p.memsz <= MemSize
             /\ p.pa % SECTSIZE = p.offset % SECTSIZE
             /\ p.memsz = 0 => p.pa % SECTSIZE = 0

VARIABLES
  kernel,        \* the image on the disk, from sector 1 on
  a20,           \* address bit 20 is let through
  kbc,           \* keyboard controller: the byte in its input buffer, or "empty"
  outport,       \* keyboard controller: its next data byte is for the output port
  disk,          \* "ready", "busy" or "data" (a sector is waiting)
  sector,        \* the sector number last written to the disk's registers
  good,          \* the disk has read what it was asked for
  mem,
  pc,
  pa, end_pa, offset,  \* locals of readseg
  ph,            \* bootmain's ph: how many program headers are done
  failed,        \* history: the disk has failed to read a sector
  astray         \* history: bootmain has gone by a program header that is not the file's

gate   == <<a20, kbc, outport>>
drive  == <<disk, sector, good>>
seg    == <<pa, end_pa, offset>>
past   == <<failed, astray>>
vars   == <<kernel, gate, drive, mem, pc, seg, ph, past>>

Old  == -1     \* what the memory held before
Junk == -2     \* what comes from the disk when it has failed

-----------------------------------------------------------------------------
(* The devices (external) *)

\* The controller takes up the byte in its input buffer.
kbc_done ==
  /\ kbc # "empty"
  /\ kbc' = "empty"
  /\ outport' = (kbc = "d1")
  /\ a20' = (a20 \/ (kbc = "df" /\ outport))
  /\ UNCHANGED <<kernel, drive, mem, pc, seg, ph, past>>

\* A byte written to the controller while it has not taken up the one before is
\* lost.
ToKbc(b) == kbc' = IF kbc = "empty" THEN b ELSE kbc

\* The disk has read the sector, or reports an error.  It is slower than the
\* keyboard controller.
disk_done ==
  /\ disk = "busy" /\ kbc = "empty"
  /\ disk' = "data"
  /\ good' \in BOOLEAN
  /\ failed' = (failed \/ ~good')
  /\ UNCHANGED <<kernel, gate, sector, mem, pc, seg, ph, astray>>

DiskReady_Idle == disk = "ready"     \* a slip: a status bit too many

\* Status 0x40 of 0xC0: not busy, and ready.  The error bit is not looked at.
DiskReady == disk # "busy"

-----------------------------------------------------------------------------
(* boot.S *)

seta20_1 ==
  /\ pc = "seta20.1" /\ kbc = "empty"
  /\ ToKbc("d1")
  /\ pc' = "seta20.2"
  /\ UNCHANGED <<kernel, a20, outport, drive, mem, seg, ph, past>>

\* A slip: the address not rounded down.
readseg_Unrounded(pa0, count, off) ==
  /\ end_pa' = pa0 + count
  /\ pa' = pa0
  /\ offset' = (off \div SECTSIZE) + 1
  /\ pc' = "readseg"

\* readseg(pa, count, offset) is called.
readseg(pa0, count, off) ==
  /\ end_pa' = pa0 + count
  /\ pa' = pa0 - (pa0 % SECTSIZE)
  /\ offset' = (off \div SECTSIZE) + 1
  /\ pc' = "readseg"

\* A slip: the second byte is written without waiting for the first.
seta20_2_Hasty ==
  /\ pc = "seta20.2"
  /\ ToKbc("df")
  /\ readseg(ELFHDR, SECTSIZE * HdrSects, 0)
  /\ UNCHANGED <<kernel, a20, outport, drive, mem, ph, past>>

\* The second byte; then protected mode, and bootmain reads the header page.
seta20_2 ==
  /\ pc = "seta20.2" /\ kbc = "empty"
  /\ ToKbc("df")
  /\ readseg(ELFHDR, SECTSIZE * HdrSects, 0)
  /\ UNCHANGED <<kernel, a20, outport, drive, mem, ph, past>>

-----------------------------------------------------------------------------
(* readsect *)

\* The first waitdisk, and the command.
read_command ==
  /\ pc = "readseg" /\ pa < end_pa
  /\ DiskReady
  /\ disk' = "busy" /\ sector' = offset
  /\ pc' = "waitdisk"
  /\ UNCHANGED <<kernel, gate, good, mem, seg, ph, past>>

\* The byte an access to address a goes to.
Phys(a) == IF ~a20 /\ (a \div A20BIT) % 2 = 1 THEN a - A20BIT ELSE a

\* The byte at disk position d as insl reads it from the disk's buffer.
FromDisk(k) == IF good THEN sector * SECTSIZE + k ELSE Junk

\* The second waitdisk, and insl; readseg goes to the next sector.
read_data ==
  /\ pc = "waitdisk" /\ DiskReady
  /\ LET target == {Phys(pa + k) : k \in 0..(SECTSIZE - 1)}
     IN  mem' = [a \in Addr |->
                   IF a \in target
                   THEN FromDisk(CHOOSE k \in 0..(SECTSIZE - 1) : Phys(pa + k) = a)
                   ELSE mem[a]]
  /\ disk' = "ready"
  /\ pa' = pa + SECTSIZE /\ offset' = offset + 1
  /\ pc' = "readseg"
  /\ UNCHANGED <<kernel, gate, sector, good, end_pa, ph, past>>

-----------------------------------------------------------------------------
(* bootmain, each time readseg has returned *)

SegmentRead == pc = "readseg" /\ pa >= end_pa

\* Byte k of the header page is that of the file.
Header(k) == mem[Phys(ELFHDR + k)] = SECTSIZE + k

Valid == Header(0) /\ kernel.magic

not_elf ==
  /\ SegmentRead /\ ph = 0 /\ ~Valid
  /\ pc' = "bad"
  /\ UNCHANGED <<kernel, gate, drive, mem, seg, ph, past>>

next_segment ==
  /\ SegmentRead /\ (ph = 0 => Valid) /\ ph < Len(kernel.ph)
  /\ Header(ph + 1)
  /\ LET p == kernel.ph[ph + 1] IN readseg(p.pa, p.memsz, p.offset)
  /\ ph' = ph + 1
  /\ UNCHANGED <<kernel, gate, drive, mem, past>>

\* The program header is not the file's: bootmain goes by what there is, and sectors
\* of the disk are read to wherever that says.
wild ==
  /\ SegmentRead /\ (ph = 0 => Valid) /\ ph < Len(kernel.ph)
  /\ ~Header(ph + 1)
  /\ \E p \in JunkHeaders : readseg(p.pa, p.memsz, p.offset)
  /\ ph' = ph + 1
  /\ astray' = TRUE
  /\ UNCHANGED <<kernel, gate, drive, mem, failed>>

enter_kernel ==
  /\ SegmentRead /\ (ph = 0 => Valid) /\ ph = Len(kernel.ph)
  /\ pc' = "kernel"
  /\ UNCHANGED <<kernel, gate, drive, mem, seg, ph, past>>

-----------------------------------------------------------------------------
Init == /\ kernel \in Kernels
        /\ a20 \in BOOLEAN                   \* the BIOS may have opened the gate
        /\ kbc \in {"empty", "other"} /\ outport = FALSE
        /\ disk = "ready" /\ sector = 0 /\ good = TRUE
        /\ mem = [a \in Addr |-> Old]
        /\ pc = "seta20.1" /\ pa = 0 /\ end_pa = 0 /\ offset = 0 /\ ph = 0
        /\ failed = FALSE /\ astray = FALSE

Loader  == \/ seta20_1 \/ seta20_2 \/ read_command \/ read_data
           \/ not_elf \/ next_segment \/ wild \/ enter_kernel
Devices == kbc_done \/ disk_done

Next == Loader \/ Devices

\* The processor goes on, and the devices answer.
Spec == Init /\ [][Next]_vars /\ WF_vars(Loader) /\ WF_vars(kbc_done) /\ WF_vars(disk_done)

-----------------------------------------------------------------------------
(* Properties *)

\* The parts of the file that are read: the header page, and the segments.
Part(k) == IF k = 0 THEN [pa |-> ELFHDR, filesz |-> SECTSIZE * HdrSects,
                          memsz |-> SECTSIZE * HdrSects, offset |-> 0]
           ELSE kernel.ph[k]
Parts   == 0..Len(kernel.ph)

\* The sectors of memory readseg fills for the address range [from, from + count).
Frames(from, count) ==
  {a \in Addr : \E b \in from..(from + count - 1) : a \div SECTSIZE = b \div SECTSIZE}
PartFrames(k) == Frames(Part(k).pa, Part(k).memsz)

\* The bytes of a part are in memory where its header puts them.
InPlace(k) == \A b \in 0..(Part(k).filesz - 1) :
                mem[Part(k).pa + b] = SECTSIZE + Part(k).offset + b

\* Whatever kernel is entered, its segments are all in memory, if the disk has not
\* failed and no two parts have bytes in one sector of memory (the sector of
\* the second is then read over the end of the first; kernel.ld puts the segments on
\* pages of their own, far above the header page).  This takes the A20 gate, the
\* disk's handshake, readseg's rounding of memory addresses and of file offsets, and
\* program headers that stay in memory until the last is used.
SharedSector == \E j, k \in Parts : j # k /\ PartFrames(j) \cap PartFrames(k) # {}
Loaded == pc = "kernel" /\ ~failed /\ ~SharedSector =>
            \A k \in Parts \ {0} : InPlace(k)

\* As long as bootmain has gone by the file's own program headers, nothing but the
\* header page and the sectors of the segments is written to: the BIOS's data and the
\* loader itself, in low memory, stay as they are, whether the gate was open before or
\* not.  Nothing is claimed from the moment a program header was in a sector the
\* disk failed to read: waitdisk does not look at the disk's error bit, and bootmain
\* then has sectors read to anywhere.
NothingElseWritten == ~astray => \A a \in Addr : mem[a] # Old => \E k \in Parts : a \in PartFrames(k)

\* The loader comes to an end: it enters the kernel, stops at a file that is not a
\* kernel, or has been led astray by a disk that failed (it may then have read junk
\* over itself).
Decides == <>(pc \in {"kernel", "bad"} \/ (astray /\ failed))

=============================================================================
