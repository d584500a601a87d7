-------------------------- MODULE BootLoaderProofs --------------------------
(***************************************************************************)
(* What the boot loader writes, and where, for every kernel a linker makes, *)
(* every size of sectors and of memory and both states the BIOS can leave  *)
(* the A20 gate in, up to the moment a program header is lost with a       *)
(* sector the disk failed to read.                                         *)
(***************************************************************************)
EXTENDS BootLoader, TLAPS

\* The range readseg was last called for.
From  == Part(ph).pa
Count == Part(ph).memsz

InBoot == pc \in {"seta20.1", "seta20.2"}

\* The two bytes to the keyboard controller are taken up one after the other, and
\* there are no data from the disk before that.
Gate ==
  /\ disk \in {"ready", "busy", "data"}
  /\ pc = "seta20.1" => kbc \in {"empty", "other"}
  /\ pc = "seta20.2" => kbc = "d1" \/ (kbc = "empty" /\ outport)
  /\ ~InBoot => (kbc = "df" /\ outport) \/ (kbc = "empty" /\ a20)
  /\ InBoot => disk = "ready"
  /\ disk = "data" => kbc = "empty"
  /\ pc = "waitdisk" => disk # "ready"

\* readseg goes over the sectors of its range, as long as the file's program headers
\* say which.
Reading == ~astray =>
  /\ ph \in Parts
  /\ InBoot => ph = 0
  /\ ~InBoot => /\ \E q \in Nat : pa = q * SECTSIZE
                /\ From - (From % SECTSIZE) <= pa /\ end_pa = From + Count
  /\ pc = "waitdisk" => pa < end_pa

Shape == /\ kernel \in Kernels /\ DOMAIN mem = Addr
         /\ Gate /\ Reading

-----------------------------------------------------------------------------
(* Arithmetic, and the kernel *)

\* Quotient and remainder are unique.
LEMMA Quotient ==
  ASSUME NEW m \in Nat \ {0}, NEW q \in Nat, NEW r \in 0..(m - 1)
  PROVE  (q * m + r) \div m = q /\ (q * m + r) % m = r
<1> DEFINE a == q * m + r
           e == a \div m
           f == a % m
<1>1. q * m \in Nat /\ a \in Nat
  OBVIOUS
<1> HIDE DEF a
<1>2. e \in Nat /\ f \in 0..(m - 1) /\ a = m * e + f
  BY <1>1
<1> HIDE DEF e, f
<1>3. m * e + f = m * q + r
  BY <1>2 DEF a
<1>4. ASSUME NEW s \in Nat, NEW t \in Nat, s < t PROVE m * s + m <= m * t
  <2>1. PICK k \in Nat : t = s + 1 + k
    <3>1. t - s - 1 \in Nat /\ t = s + 1 + (t - s - 1)
      BY <1>4
    <3> QED
      BY <3>1
  <2>2. m * t = m * s + m + m * k /\ m * k \in Nat
    BY <2>1
  <2> QED
    BY <2>2
<1>5. m * e \in Nat /\ m * q \in Nat
  BY <1>2
<1>6. ~(e < q)
  BY <1>2, <1>3, <1>4, <1>5
<1>7. ~(q < e)
  BY <1>2, <1>3, <1>4, <1>5
<1>8. e = q /\ f = r
  BY <1>2, <1>3, <1>6, <1>7
<1> QED
  BY <1>8 DEF a, e, f

LEMMA Rounded ==
  ASSUME NEW a \in Nat
  PROVE  /\ a \div SECTSIZE \in Nat /\ a % SECTSIZE \in 0..(SECTSIZE - 1)
         /\ (a \div SECTSIZE) * SECTSIZE = a - (a % SECTSIZE)
         /\ a - (a % SECTSIZE) \in Nat
<1>1. SECTSIZE \in Nat \ {0}
  BY BootAssumption
<1> QED
  BY <1>1

LEMMA NextSector ==
  ASSUME NEW q \in Nat
  PROVE  q * SECTSIZE \in Nat /\ q * SECTSIZE + SECTSIZE = (q + 1) * SECTSIZE
<1>1. SECTSIZE \in Nat \ {0}
  BY BootAssumption
<1> QED
  BY <1>1

LEMMA HowMany ==
  ASSUME kernel \in Kernels
  PROVE  Len(kernel.ph) \in Nat /\ Len(kernel.ph) < SECTSIZE * HdrSects
<1>1. kernel.ph \in Seq(ProgramHeaders) /\ Len(kernel.ph) < SECTSIZE * HdrSects
  BY KernelsAssumption
<1> QED
  BY <1>1

LEMMA Headers ==
  ASSUME kernel \in Kernels, NEW k \in Parts
  PROVE  /\ Part(k).pa \in Nat /\ Part(k).filesz \in Nat /\ Part(k).memsz \in Nat
         /\ Part(k).offset \in Nat
         /\ Part(k).filesz <= Part(k).memsz
         /\ Part(k).pa + Part(k).memsz <= MemSize
         /\ Part(k).pa % SECTSIZE = Part(k).offset % SECTSIZE
         /\ Part(k).memsz = 0 => Part(k).pa % SECTSIZE = 0
<1>1. CASE k = 0
  <2>1. /\ ELFHDR \in Nat /\ SECTSIZE \in Nat \ {0} /\ SECTSIZE * HdrSects \in Nat
        /\ ELFHDR + SECTSIZE * HdrSects <= MemSize /\ ELFHDR % SECTSIZE = 0
    BY BootAssumption
  <2>2. 0 % SECTSIZE = 0
    BY <2>1
  <2> QED
    BY <1>1, <2>1, <2>2 DEF Part
<1>2. CASE k # 0
  <2>1. k \in 1..Len(kernel.ph) /\ Part(k) = kernel.ph[k]
    BY <1>2, HowMany DEF Parts, Part
  <2>2. kernel.ph[k] \in ProgramHeaders
    BY <2>1, KernelsAssumption
  <2>3. /\ kernel.ph[k].filesz <= kernel.ph[k].memsz
        /\ kernel.ph[k].pa + kernel.ph[k].memsz <= MemSize
        /\ kernel.ph[k].pa % SECTSIZE = kernel.ph[k].offset % SECTSIZE
        /\ kernel.ph[k].memsz = 0 => kernel.ph[k].pa % SECTSIZE = 0
    BY <2>1, KernelsAssumption
  <2> QED
    BY <2>1, <2>2, <2>3 DEF ProgramHeaders
<1> QED
  BY <1>1, <1>2

LEMMA Ranges ==
  ASSUME kernel \in Kernels, ph \in Parts
  PROVE  From \in Nat /\ Count \in Nat /\ (Count = 0 => From % SECTSIZE = 0)
BY Headers DEF From, Count

-----------------------------------------------------------------------------
(* A sector is read *)

\* It goes where pa says, and that is in the frames of the range.
LEMMA Sector ==
  ASSUME Shape, read_data, ~astray
  PROVE  /\ \A a \in Addr : ~(pa <= a /\ a < pa + SECTSIZE) => mem'[a] = mem[a]
         /\ \A a \in Addr : pa <= a /\ a < pa + SECTSIZE => mem'[a] = FromDisk(a - pa)
         /\ \A a \in Addr : pa <= a /\ a < pa + SECTSIZE => a \in PartFrames(ph)
         /\ pa \in Nat
<1>1. ~InBoot /\ pa < end_pa /\ disk = "data" /\ a20
  <2>1. pc = "waitdisk" /\ disk # "busy"
    BY DEF read_data, DiskReady
  <2>2. ~InBoot /\ pa < end_pa /\ disk # "ready"
    BY <2>1 DEF Shape, Gate, Reading, InBoot
  <2>3. disk = "data"
    BY <2>1, <2>2 DEF Shape, Gate
  <2> QED
    BY <2>2, <2>3 DEF Shape, Gate
<1>2. \A a : Phys(a) = a
  BY <1>1 DEF Phys
<1>3. SECTSIZE \in Nat \ {0} /\ Addr \subseteq Nat
  BY BootAssumption DEF Addr
<1>4. PICK q \in Nat : pa = q * SECTSIZE
  BY <1>1 DEF Shape, Reading
<1>5. pa \in Nat /\ From \in Nat /\ Count \in Nat /\ From - (From % SECTSIZE) <= pa
      /\ pa < From + Count
  <2>1. From \in Nat /\ Count \in Nat
    BY Ranges DEF Shape, Reading
  <2>2. From - (From % SECTSIZE) <= pa /\ pa < From + Count
    <3>1. /\ From - (From % SECTSIZE) <= pa /\ end_pa = From + Count
      BY <1>1 DEF Shape, Reading
    <3> HIDE DEF From, Count
    <3> QED
      BY <1>1, <3>1
  <2> QED
    BY <1>4, <2>1, <2>2, NextSector
<1> DEFINE target == {Phys(pa + k) : k \in 0..(SECTSIZE - 1)}
<1>6. \A a \in Addr : a \in target <=> pa <= a /\ a < pa + SECTSIZE
  <2> SUFFICES ASSUME NEW a \in Addr
               PROVE  a \in target <=> pa <= a /\ a < pa + SECTSIZE
    OBVIOUS
  <2>1. a \in target => pa <= a /\ a < pa + SECTSIZE
    BY <1>2, <1>3, <1>5
  <2>2. ASSUME pa <= a, a < pa + SECTSIZE PROVE a \in target
    <3>1. a - pa \in 0..(SECTSIZE - 1) /\ pa + (a - pa) = a
      BY <1>3, <1>5, <2>2
    <3> QED
      BY <1>2, <3>1
  <2> QED
    BY <2>1, <2>2
<1>7. /\ \A a \in Addr : a \notin target => mem'[a] = mem[a]
      /\ \A a \in Addr : a \in target =>
           mem'[a] = FromDisk(CHOOSE k \in 0..(SECTSIZE - 1) : Phys(pa + k) = a)
  BY DEF read_data
<1>8. ASSUME NEW a \in Addr, pa <= a, a < pa + SECTSIZE
      PROVE  mem'[a] = FromDisk(a - pa)
  <2>1. a - pa \in 0..(SECTSIZE - 1) /\ pa + (a - pa) = a
    BY <1>3, <1>5, <1>8
  <2>2. \A k \in 0..(SECTSIZE - 1) : Phys(pa + k) = a => k = a - pa
    BY <1>2, <1>3, <1>5
  <2>3. (CHOOSE k \in 0..(SECTSIZE - 1) : Phys(pa + k) = a) = a - pa
    <3>1. Phys(pa + (a - pa)) = a
      BY <1>2, <2>1
    <3> HIDE DEF Phys
    <3> QED
      BY <2>1, <2>2, <3>1
  <2>4. a \in target
    BY <1>6, <1>8
  <2> QED
    BY <1>7, <2>3, <2>4
<1>9. ASSUME NEW a \in Addr, pa <= a, a < pa + SECTSIZE
      PROVE  a \in PartFrames(ph)
  <2>1. a \div SECTSIZE = q
    <3>1. PICK r \in 0..(SECTSIZE - 1) : r = a - pa
      BY <1>3, <1>5, <1>9
    <3>2. a = q * SECTSIZE + r
      BY <1>3, <1>4, <1>5, <3>1, NextSector
    <3> QED
      BY <1>3, <3>2, Quotient
  <2>2. \E b \in From..(From + Count - 1) : b \div SECTSIZE = q
    <3>1. CASE From <= pa
      <4>1. pa \in From..(From + Count - 1)
        BY <1>5, <3>1
      <4>2. (q * SECTSIZE + 0) \div SECTSIZE = q
        BY <1>3, Quotient
      <4>3. q * SECTSIZE + 0 = pa
        BY <1>4, <1>5
      <4>4. pa \div SECTSIZE = q
        BY <4>2, <4>3
      <4> QED
        BY <4>1, <4>4
    <3>2. CASE pa < From
      <4>1. From \in From..(From + Count - 1)
        <5>1. Count = 0 => From % SECTSIZE = 0
          BY Ranges DEF Shape, Reading
        <5>2. Count # 0
          <6> HIDE DEF From, Count
          <6> QED
            BY <1>5, <3>2, <5>1
        <5> HIDE DEF From, Count
        <5> QED
          BY <1>5, <5>2
      <4>2. PICK r \in 0..(SECTSIZE - 1) : From = q * SECTSIZE + r
        <5>1. From % SECTSIZE \in 0..(SECTSIZE - 1)
          BY <1>5, Rounded
        <5>2. From - pa \in 0..(SECTSIZE - 1) /\ From = pa + (From - pa)
          BY <1>3, <1>5, <3>2, <5>1
        <5> QED
          BY <1>4, <5>2
      <4>3. From \div SECTSIZE = q
        BY <1>3, <4>2, Quotient
      <4> QED
        BY <4>1, <4>3
    <3> QED
      BY <1>5, <3>1, <3>2
  <2> QED
    BY <2>1, <2>2 DEF PartFrames, Frames, From, Count
<1> HIDE DEF target
<1> QED
  BY <1>5, <1>6, <1>7, <1>8, <1>9

-----------------------------------------------------------------------------
(* The invariant *)

LEMMA Call ==
  ASSUME NEW a \in Nat, NEW count \in Nat, NEW off \in Nat, readseg(a, count, off)
  PROVE  /\ \E q \in Nat : pa' = q * SECTSIZE
         /\ a - (a % SECTSIZE) <= pa' /\ pa' <= a /\ end_pa' = a + count /\ pc' = "readseg"
         /\ offset' = (off \div SECTSIZE) + 1 /\ pa' = a - (a % SECTSIZE)
<1>1. pa' = a - (a % SECTSIZE) /\ end_pa' = a + count /\ pc' = "readseg"
      /\ offset' = (off \div SECTSIZE) + 1
  BY DEF readseg
<1>2. /\ a \div SECTSIZE \in Nat /\ a % SECTSIZE \in 0..(SECTSIZE - 1)
      /\ (a \div SECTSIZE) * SECTSIZE = a - (a % SECTSIZE) /\ a - (a % SECTSIZE) \in Nat
  BY Rounded
<1>3. SECTSIZE \in Nat \ {0}
  BY BootAssumption
<1>4. PICK r \in Nat : r = a % SECTSIZE /\ r <= a
  BY <1>2, <1>3
<1>5. PICK q \in Nat : q = a \div SECTSIZE
  BY <1>2
<1>6. pa' = q * SECTSIZE
  BY <1>1, <1>2, <1>5
<1>7. a - r <= a
  BY <1>4
<1> QED
  BY <1>1, <1>4, <1>6, <1>7

LEMMA GateStep == Gate /\ [Next]_vars => Gate'
<1> SUFFICES ASSUME Gate, [Next]_vars PROVE Gate'
  OBVIOUS
<1>1. CASE kbc_done
  BY <1>1 DEF kbc_done, Gate, InBoot, drive
<1>2. CASE disk_done
  BY <1>2 DEF disk_done, Gate, InBoot, gate
<1>3. CASE seta20_1
  BY <1>3 DEF seta20_1, Gate, InBoot, ToKbc, drive
<1>4. CASE seta20_2
  BY <1>4 DEF seta20_2, Gate, InBoot, ToKbc, readseg, drive
<1>5. CASE read_command
  BY <1>5 DEF read_command, Gate, InBoot, gate
<1>6. CASE read_data
  BY <1>6 DEF read_data, Gate, InBoot, gate, DiskReady
<1>7. CASE not_elf \/ wild \/ enter_kernel
  BY <1>7 DEF not_elf, wild, enter_kernel, readseg, SegmentRead, Gate, InBoot, gate, drive
<1>8. CASE next_segment
  BY <1>8 DEF next_segment, SegmentRead, readseg, Gate, InBoot, gate, drive
<1>9. CASE UNCHANGED vars
  BY <1>9 DEF vars, gate, drive, Gate, InBoot
<1> QED
  BY <1>1, <1>2, <1>3, <1>4, <1>5, <1>6, <1>7, <1>8, <1>9 DEF Next, Loader, Devices

LEMMA SameKernel == [Next]_vars => kernel' = kernel
BY DEF Next, Loader, Devices, vars, kbc_done, disk_done, seta20_1, seta20_2, read_command,
       read_data, not_elf, next_segment, wild, enter_kernel

LEMMA SameParts == [Next]_vars => Parts' = Parts /\ \A k : Part(k)' = Part(k)
BY SameKernel DEF Parts, Part

LEMMA StillAstray == [Next]_vars /\ astray => astray'
BY DEF Next, Loader, Devices, vars, past, kbc_done, disk_done, seta20_1, seta20_2, read_command,
       read_data, not_elf, next_segment, wild, enter_kernel

LEMMA ReadingStep == Shape /\ [Next]_vars => Reading'
<1> SUFFICES ASSUME Shape, [Next]_vars, ~astray, ~astray' PROVE Reading'
  BY StillAstray DEF Reading
<1>0. kernel \in Kernels /\ Reading /\ Parts' = Parts /\ Len(kernel.ph) \in Nat /\ ph \in Parts
  BY SameParts, HowMany DEF Shape, Reading
<1>1. ASSUME UNCHANGED <<pc, seg, ph>> PROVE Reading'
  BY <1>0, <1>1, SameParts DEF Reading, InBoot, From, Count, seg
<1>2. CASE Devices
  BY <1>1, <1>2 DEF Devices, kbc_done, disk_done
<1>3. CASE seta20_1
  BY <1>0, <1>3 DEF seta20_1, Reading, InBoot
<1>4. CASE seta20_2
  <2>1. ph = 0 /\ ph' = 0 /\ readseg(ELFHDR, SECTSIZE * HdrSects, 0)
    BY <1>0, <1>4 DEF seta20_2, Reading, InBoot
  <2>2. ELFHDR \in Nat /\ SECTSIZE * HdrSects \in Nat
    BY BootAssumption
  <2>3. From' = ELFHDR /\ Count' = SECTSIZE * HdrSects
    BY <2>1 DEF From, Count, Part
  <2>4. /\ \E q \in Nat : pa' = q * SECTSIZE
        /\ ELFHDR - (ELFHDR % SECTSIZE) <= pa' /\ end_pa' = ELFHDR + SECTSIZE * HdrSects
        /\ pc' = "readseg"
    BY <2>1, <2>2, Call
  <2> QED
    BY <1>0, <2>1, <2>3, <2>4 DEF Reading, InBoot
<1>5. CASE read_command
  <2>1. From' = From /\ Count' = Count
    BY <1>5, SameParts DEF read_command, From, Count
  <2> QED
    BY <1>0, <1>5, <2>1 DEF read_command, Reading, InBoot, seg
<1>6. CASE read_data
  <2>1. /\ pc = "waitdisk" /\ pc' = "readseg" /\ ph' = ph /\ end_pa' = end_pa
        /\ pa' = pa + SECTSIZE /\ From' = From /\ Count' = Count
    BY <1>0, <1>6, SameParts DEF read_data, From, Count
  <2>2. PICK q \in Nat : pa = q * SECTSIZE
    BY <1>0, <2>1 DEF Reading, InBoot
  <2>3. pa' = (q + 1) * SECTSIZE /\ q + 1 \in Nat
    BY <2>1, <2>2, NextSector
  <2>4. From - (From % SECTSIZE) <= pa /\ end_pa = From + Count
    BY <1>0, <2>1 DEF Reading, InBoot
  <2>5. From \in Nat /\ From % SECTSIZE \in Int /\ pa \in Nat /\ SECTSIZE \in Nat
    BY <1>0, <2>2, Ranges, Rounded, NextSector, BootAssumption DEF Reading
  <2>6. From - (From % SECTSIZE) <= pa'
    BY <2>1, <2>4, <2>5
  <2> QED
    BY <1>0, <2>1, <2>3, <2>4, <2>6 DEF Reading, InBoot
<1>7. CASE not_elf \/ enter_kernel
  <2>1. From' = From /\ Count' = Count
    BY <1>7, SameParts DEF not_elf, enter_kernel, From, Count
  <2> QED
    BY <1>0, <1>7, <2>1 DEF not_elf, enter_kernel, SegmentRead, Reading, InBoot, seg
<1>8. CASE next_segment
  <2>1. /\ ph < Len(kernel.ph) /\ ph' = ph + 1
        /\ readseg(kernel.ph[ph + 1].pa, kernel.ph[ph + 1].memsz, kernel.ph[ph + 1].offset)
    BY <1>8 DEF next_segment
  <2>2. ph + 1 \in Parts /\ ph + 1 # 0 /\ Part(ph + 1) = kernel.ph[ph + 1]
    BY <1>0, <2>1 DEF Parts, Part
  <2>3. From' = kernel.ph[ph + 1].pa /\ Count' = kernel.ph[ph + 1].memsz
    BY <2>1, <2>2, SameParts DEF From, Count
  <2>4. From' \in Nat /\ Count' \in Nat /\ kernel.ph[ph + 1].offset \in Nat
    BY <1>0, <2>2, <2>3, Headers
  <2>5. /\ \E q \in Nat : pa' = q * SECTSIZE
        /\ From' - (From' % SECTSIZE) <= pa' /\ end_pa' = From' + Count'
        /\ pc' = "readseg"
    BY <2>1, <2>3, <2>4, Call
  <2> QED
    BY <1>0, <2>1, <2>2, <2>5 DEF Reading, InBoot
<1>9. CASE UNCHANGED vars
  BY <1>1, <1>9 DEF vars
<1>10. CASE wild
  BY <1>10 DEF wild
<1> QED
  BY <1>2, <1>3, <1>4, <1>5, <1>6, <1>7, <1>8, <1>9, <1>10 DEF Next, Loader

LEMMA ShapeInit == Init => Shape
<1> SUFFICES ASSUME Init PROVE Shape
  OBVIOUS
<1>1. kernel \in Kernels /\ Len(kernel.ph) \in Nat
  BY HowMany DEF Init
<1> QED
  BY <1>1 DEF Init, Shape, Gate, Reading, InBoot, Addr, Parts

LEMMA ShapeStep == Shape /\ [Next]_vars => Shape'
<1> SUFFICES ASSUME Shape, [Next]_vars PROVE Shape'
  OBVIOUS
<1>1. DOMAIN mem' = Addr
  BY DEF Shape, Next, Loader, Devices, vars, kbc_done, disk_done, seta20_1, seta20_2,
         read_command, read_data, not_elf, next_segment, wild, enter_kernel
<1> QED
  BY <1>1, SameKernel, GateStep, ReadingStep DEF Shape

\* As long as bootmain has gone by the file's own program headers, only the sectors of
\* the header page and of the segments are written to: the gate is open before the first
\* one is read, and readseg rounds down only its beginning.
THEOREM OnlyItsOwn == Spec => []NothingElseWritten
<1>1. Init => NothingElseWritten
  BY DEF Init, NothingElseWritten
<1>2. Shape /\ NothingElseWritten /\ [Next]_vars => NothingElseWritten'
  <2> SUFFICES ASSUME Shape, NothingElseWritten, [Next]_vars, ~astray, ~astray',
                      NEW a \in Addr, mem'[a] # Old
               PROVE  \E k \in Parts' : a \in PartFrames(k)'
    BY StillAstray DEF NothingElseWritten
  <2>1. \E k \in Parts : a \in PartFrames(k)
    <3>1. CASE mem'[a] = mem[a]
      BY <3>1 DEF NothingElseWritten
    <3>2. CASE mem'[a] # mem[a]
      <4>1. read_data
        BY <3>2 DEF Next, Loader, Devices, vars, kbc_done, disk_done, seta20_1, seta20_2,
               read_command, read_data, not_elf, next_segment, wild, enter_kernel
      <4>2. a \in PartFrames(ph) /\ ph \in Parts
        BY <3>2, <4>1, Sector DEF Shape, Reading
      <4> QED
        BY <4>2
    <3> QED
      BY <3>1, <3>2
  <2> QED
    BY <2>1, SameParts DEF PartFrames, Frames
<1> QED
  BY <1>1, <1>2, ShapeInit, ShapeStep, PTL DEF Spec

-----------------------------------------------------------------------------
(* What is in place *)

\* The sector that is read next is the one that belongs at pa, and it is the one the
\* disk has been asked for.
InStep ==
  /\ ~failed => good
  /\ ~astray =>
       /\ pc = "waitdisk" => sector = offset
       /\ ~InBoot => /\ offset \in Nat
                     /\ offset * SECTSIZE + Part(ph).pa = SECTSIZE + Part(ph).offset + pa
       /\ pc = "kernel" => ph = Len(kernel.ph) /\ pa >= end_pa

Byte(k, b) == mem[Part(k).pa + b] = SECTSIZE + Part(k).offset + b

\* The parts before the current one are in place, and of that one what is below pa; the
\* program headers among them, so that bootmain goes by those of the file.
SoFar ==
  ~failed /\ ~SharedSector =>
    /\ ~astray
    /\ ~InBoot => \A k \in 0..ph : \A b \in 0..(Part(k).filesz - 1) :
                    k < ph \/ Part(k).pa + b < pa => Byte(k, b)

\* The bytes of the file are in the sectors of their part.
LEMMA Inside ==
  ASSUME kernel \in Kernels, NEW k \in Parts,
         NEW b \in 0..(Part(k).filesz - 1)
  PROVE  /\ Part(k).pa + b \in PartFrames(k) /\ Part(k).pa + b \in Addr
         /\ Part(k).pa + b < Part(k).pa + Part(k).memsz
<1>1. /\ Part(k).pa \in Nat /\ Part(k).filesz \in Nat /\ Part(k).memsz \in Nat
      /\ Part(k).filesz <= Part(k).memsz
      /\ Part(k).pa + Part(k).memsz <= MemSize
  BY Headers
<1>2. PICK from \in Nat, count \in Nat : from = Part(k).pa /\ count = Part(k).memsz
  BY <1>1
<1>3. PICK a \in Nat : a = from + b
  BY <1>1, <1>2
<1>4. b < count /\ from + count <= MemSize /\ MemSize \in Nat
  BY <1>1, <1>2, BootAssumption
<1>5. a \in Addr /\ a \in from..(from + count - 1)
  BY <1>3, <1>4 DEF Addr
<1>6. a \in Frames(from, count)
  BY <1>5 DEF Frames
<1>7. a < from + count
  BY <1>3, <1>4
<1> QED
  BY <1>2, <1>3, <1>5, <1>6, <1>7 DEF PartFrames

\* Where readseg begins a part, its file offset is at the same place in a sector as
\* its address.
LEMMA Together ==
  ASSUME NEW a \in Nat, NEW off \in Nat, a % SECTSIZE = off % SECTSIZE
  PROVE  /\ (off \div SECTSIZE) + 1 \in Nat
         /\ ((off \div SECTSIZE) + 1) * SECTSIZE + a = SECTSIZE + off + (a - (a % SECTSIZE))
<1>1. /\ off \div SECTSIZE \in Nat /\ off % SECTSIZE \in 0..(SECTSIZE - 1)
      /\ (off \div SECTSIZE) * SECTSIZE = off - (off % SECTSIZE)
  BY Rounded
<1>2. SECTSIZE \in Nat \ {0}
  BY BootAssumption
<1>3. PICK q \in Nat : q = off \div SECTSIZE
  BY <1>1
<1>4. PICK r \in Nat : r = off % SECTSIZE
  BY <1>1, <1>2
<1>5. q * SECTSIZE = off - r
  BY <1>1, <1>3, <1>4
<1>6. (q + 1) * SECTSIZE = q * SECTSIZE + SECTSIZE
  BY <1>3, NextSector
<1>7. (q + 1) * SECTSIZE + a = SECTSIZE + off + (a - r)
  BY <1>2, <1>4, <1>5, <1>6
<1> QED
  BY <1>3, <1>4, <1>7

LEMMA InStepStep == Shape /\ InStep /\ [Next]_vars => InStep'
<1> SUFFICES ASSUME Shape, InStep, [Next]_vars PROVE InStep'
  OBVIOUS
<1>1. (~failed => good)'
  BY DEF InStep, Next, Loader, Devices, vars, past, drive, kbc_done, disk_done, seta20_1,
         seta20_2, read_command, read_data, not_elf, next_segment, wild, enter_kernel
<1>2. ASSUME ~astray, ~astray'
      PROVE  /\ (pc = "waitdisk" => sector = offset)'
             /\ ~InBoot' => /\ offset' \in Nat
                            /\ offset' * SECTSIZE + Part(ph)'.pa = SECTSIZE + Part(ph)'.offset + pa'
             /\ (pc = "kernel" => ph = Len(kernel.ph) /\ pa >= end_pa)'
  <2>0. /\ kernel \in Kernels /\ kernel' = kernel /\ ph \in Parts /\ Len(kernel.ph) \in Nat
        /\ \A k : Part(k)' = Part(k)
    BY <1>2, SameKernel, SameParts, HowMany DEF Shape, Reading
  <2>1. ASSUME UNCHANGED <<ph, seg>>, InBoot' => InBoot, InBoot => InBoot',
               pc' = "waitdisk" => sector' = offset, pc' = "kernel" => pc = "kernel"
        PROVE  /\ (pc = "waitdisk" => sector = offset)'
               /\ ~InBoot' => /\ offset' \in Nat
                              /\ offset' * SECTSIZE + Part(ph)'.pa
                                   = SECTSIZE + Part(ph)'.offset + pa'
               /\ (pc = "kernel" => ph = Len(kernel.ph) /\ pa >= end_pa)'
    <3>1. Part(ph)' = Part(ph) /\ pa' = pa /\ offset' = offset /\ end_pa' = end_pa /\ ph' = ph
      BY <2>0, <2>1 DEF seg, Part
    <3> HIDE DEF Part
    <3> QED
      BY <1>2, <2>0, <2>1, <3>1 DEF InStep
  <2>2. CASE Devices
    BY <1>2, <2>1, <2>2 DEF Devices, kbc_done, disk_done, InBoot, drive, InStep
  <2>3. CASE seta20_1
    BY <2>1, <2>3 DEF seta20_1, InBoot
  <2>4. CASE seta20_2
    <3>1. ph = 0 /\ ph' = 0 /\ readseg(ELFHDR, SECTSIZE * HdrSects, 0)
      BY <1>2, <2>4 DEF seta20_2, Shape, Reading, InBoot
    <3>2. /\ pc' = "readseg" /\ offset' = (0 \div SECTSIZE) + 1
          /\ pa' = ELFHDR - (ELFHDR % SECTSIZE)
      BY <3>1 DEF readseg
    <3>3. ELFHDR \in Nat /\ 0 \in Nat /\ ELFHDR % SECTSIZE = 0 % SECTSIZE
      BY BootAssumption
    <3>4. offset' \in Nat /\ offset' * SECTSIZE + ELFHDR = SECTSIZE + 0 + pa'
      BY <3>2, <3>3, Together
    <3>5. Part(ph)'.pa = ELFHDR /\ Part(ph)'.offset = 0
      BY <3>1 DEF Part
    <3> QED
      BY <3>2, <3>4, <3>5
  <2>5. CASE read_command
    BY <2>1, <2>5 DEF read_command, InBoot
  <2>6. CASE read_data
    <3>1. /\ pc' = "readseg" /\ ph' = ph /\ pa' = pa + SECTSIZE /\ offset' = offset + 1
          /\ ~InBoot
      BY <2>6 DEF read_data, InBoot
    <3>2. offset \in Nat /\ offset * SECTSIZE + Part(ph).pa = SECTSIZE + Part(ph).offset + pa
      BY <1>2, <3>1 DEF InStep
    <3>3. PICK from \in Nat, off \in Nat : from = Part(ph).pa /\ off = Part(ph).offset
      BY <2>0, Headers
    <3>4. offset * SECTSIZE \in Nat /\ (offset + 1) * SECTSIZE = offset * SECTSIZE + SECTSIZE
      BY <3>2, NextSector
    <3>5. pa \in Nat /\ SECTSIZE \in Nat
      BY <1>2, <2>6, Sector, BootAssumption
    <3>6. offset * SECTSIZE + from = SECTSIZE + off + pa
      BY <3>2, <3>3
    <3>7. (offset + 1) * SECTSIZE + from = SECTSIZE + off + (pa + SECTSIZE)
      BY <3>3, <3>4, <3>5, <3>6
    <3>8. Part(ph)' = Part(ph)
      BY <2>0, <3>1 DEF Part
    <3> HIDE DEF Part
    <3> QED
      BY <3>1, <3>2, <3>3, <3>7, <3>8
  <2>7. CASE not_elf
    BY <2>1, <2>7 DEF not_elf, SegmentRead, InBoot
  <2>8. CASE next_segment
    <3> DEFINE p == kernel.ph[ph + 1]
    <3>1. ph' = ph + 1 /\ ph < Len(kernel.ph) /\ readseg(p.pa, p.memsz, p.offset)
      BY <2>8 DEF next_segment
    <3>2. ph + 1 \in Parts /\ Part(ph + 1) = p
      BY <2>0, <3>1 DEF Parts, Part
    <3>3. /\ p.pa \in Nat /\ p.memsz \in Nat /\ p.offset \in Nat
          /\ p.pa % SECTSIZE = p.offset % SECTSIZE
      BY <2>0, <3>2, Headers
    <3>4. /\ pc' = "readseg" /\ offset' = (p.offset \div SECTSIZE) + 1
          /\ pa' = p.pa - (p.pa % SECTSIZE)
      BY <3>1 DEF readseg
    <3>5. offset' \in Nat /\ offset' * SECTSIZE + p.pa = SECTSIZE + p.offset + pa'
      BY <3>3, <3>4, Together
    <3>6. Part(ph)' = p
      BY <2>0, <3>1, <3>2 DEF Part
    <3> HIDE DEF p
    <3> QED
      BY <3>4, <3>5, <3>6
  <2>9. CASE wild
    BY <1>2, <2>9 DEF wild
  <2>10. CASE enter_kernel
    <3>1. /\ ph' = ph /\ pa' = pa /\ offset' = offset /\ end_pa' = end_pa /\ pc' = "kernel"
          /\ ph = Len(kernel.ph) /\ pa >= end_pa /\ ~InBoot /\ Part(ph)' = Part(ph)
      BY <2>0, <2>10 DEF enter_kernel, SegmentRead, InBoot, seg, Part
    <3>2. offset \in Nat /\ offset * SECTSIZE + Part(ph).pa = SECTSIZE + Part(ph).offset + pa
      BY <1>2, <3>1 DEF InStep
    <3> HIDE DEF Part
    <3> QED
      BY <2>0, <3>1, <3>2
  <2>11. CASE UNCHANGED vars
    BY <1>2, <2>1, <2>11 DEF vars, InBoot, drive, seg, InStep
  <2> QED
    BY <2>2, <2>3, <2>4, <2>5, <2>6, <2>7, <2>8, <2>9, <2>10, <2>11 DEF Next, Loader
<1> QED
  BY <1>1, <1>2, StillAstray DEF InStep

LEMMA Shifted ==
  ASSUME NEW x \in Nat, NEW y \in Nat, NEW from \in Nat, NEW off \in Nat, NEW b \in Nat,
         NEW sect \in Nat, x + from = sect + off + y
  PROVE  x + ((from + b) - y) = sect + off + b
OBVIOUS

\* What a sector read for part ph brings, and leaves.
LEMMA SectorOfPart ==
  ASSUME Shape, InStep, SoFar, read_data, ~failed, ~SharedSector,
         NEW k \in 0..ph, NEW b \in 0..(Part(k).filesz - 1),
         k < ph \/ Part(k).pa + b < pa + SECTSIZE
  PROVE  mem'[Part(k).pa + b] = SECTSIZE + Part(k).offset + b
<1>0. ~astray /\ ~InBoot
  BY DEF SoFar, read_data, InBoot
<1>1. kernel \in Kernels /\ ph \in Parts /\ k \in Parts
  BY <1>0, HowMany DEF Shape, Reading, Parts
<1>2. PICK from \in Nat, off \in Nat : from = Part(k).pa /\ off = Part(k).offset
  BY <1>1, Headers
<1>3. PICK a \in Addr : a = from + b
  BY <1>1, <1>2, Inside
<1>4. a \in PartFrames(k)
  BY <1>1, <1>2, <1>3, Inside
<1>5. pa \in Nat /\ SECTSIZE \in Nat /\ b \in Nat /\ a \in Nat
  BY <1>0, <1>1, <1>3, Sector, Headers, BootAssumption DEF Addr
<1>6. (k < ph \/ a < pa) => mem[a] = SECTSIZE + off + b
  BY <1>0, <1>2, <1>3 DEF SoFar, Byte
<1>7. CASE ~(pa <= a /\ a < pa + SECTSIZE)
  <2>1. mem'[a] = mem[a]
    BY <1>0, <1>7, Sector
  <2>2. k < ph \/ a < pa
    BY <1>2, <1>3, <1>5, <1>7
  <2> QED
    BY <1>2, <1>3, <1>6, <2>1, <2>2
<1>8. CASE pa <= a /\ a < pa + SECTSIZE
  <2>1. a \in PartFrames(ph)
    BY <1>0, <1>8, Sector
  <2>2. k = ph
    BY <1>1, <1>4, <2>1 DEF SharedSector
  <2>3. mem'[a] = sector * SECTSIZE + (a - pa)
    <3>1. mem'[a] = FromDisk(a - pa) /\ good
      BY <1>0, <1>8, Sector DEF InStep
    <3> QED
      BY <3>1 DEF FromDisk
  <2>4. sector = offset /\ offset \in Nat /\ offset * SECTSIZE + from = SECTSIZE + off + pa
    BY <1>0, <1>2, <2>2 DEF InStep, read_data
  <2>5. offset * SECTSIZE \in Nat
    BY <2>4, NextSector
  <2>6. offset * SECTSIZE + (a - pa) = SECTSIZE + off + b
    <3>1. PICK x \in Nat, y \in Nat, sect \in Nat :
            x = offset * SECTSIZE /\ y = pa /\ sect = SECTSIZE
      BY <1>5, <2>5
    <3>2. x + from = sect + off + y
      BY <2>4, <3>1
    <3>3. x + ((from + b) - y) = sect + off + b
      BY <1>5, <3>2, Shifted
    <3> QED
      BY <1>3, <3>1, <3>3
  <2> QED
    BY <1>2, <1>3, <2>3, <2>4, <2>6
<1> QED
  BY <1>7, <1>8

\* When readseg has returned, the whole part is in place.
LEMMA Whole ==
  ASSUME Shape, SoFar, ~failed, ~SharedSector, ~InBoot, pa >= end_pa,
         NEW k \in 0..ph, NEW b \in 0..(Part(k).filesz - 1)
  PROVE  Byte(k, b)
<1>0. ~astray
  BY DEF SoFar
<1>1. kernel \in Kernels /\ ph \in Parts /\ k \in Parts /\ ph \in Nat
  BY <1>0, HowMany DEF Shape, Reading, Parts
<1>2. k < ph \/ Part(k).pa + b < pa
  <2>1. CASE k = ph
    <3>1. Part(k).pa + b < Part(k).pa + Part(k).memsz /\ Part(k).pa + b \in Nat
      BY <1>1, Inside DEF Addr
    <3>2. end_pa = Part(k).pa + Part(k).memsz
      BY <1>0, <2>1 DEF Shape, Reading, From, Count
    <3>3. \E q \in Nat : pa = q * SECTSIZE
      BY <1>0 DEF Shape, Reading
    <3>4. pa \in Nat
      BY <3>3, NextSector
    <3>5. PICK last \in Nat : last = Part(k).pa + Part(k).memsz
      <4>1. Part(k).pa \in Nat /\ Part(k).memsz \in Nat
        BY <1>1, Headers
      <4> QED
        BY <4>1
    <3>6. PICK a \in Nat : a = Part(k).pa + b
      BY <3>1
    <3>7. a < last /\ pa >= last
      BY <3>1, <3>2, <3>5, <3>6
    <3>8. a < pa
      BY <3>4, <3>5, <3>6, <3>7
    <3> QED
      BY <3>6, <3>8
  <2> QED
    BY <1>1, <2>1
<1> QED
  BY <1>2 DEF SoFar

\* As long as the disk has not failed, the next program header is there.
LEMMA HeaderThere ==
  ASSUME Shape, SoFar, SegmentRead, ~failed, ~SharedSector, ph < Len(kernel.ph)
  PROVE  Header(ph + 1)
<1>0. ~astray /\ ~InBoot /\ pa >= end_pa
  BY DEF SoFar, SegmentRead, InBoot
<1>1. kernel \in Kernels /\ ph \in Nat /\ Len(kernel.ph) \in Nat /\ Len(kernel.ph) < SECTSIZE * HdrSects
  BY <1>0, HowMany DEF Shape, Reading, Parts
<1>2. SECTSIZE * HdrSects \in Nat /\ ELFHDR \in Nat
  BY BootAssumption
<1>3. 0 \in 0..ph /\ ph + 1 \in 0..(Part(0).filesz - 1)
  BY <1>1, <1>2 DEF Part
<1>4. Byte(0, ph + 1)
  BY <1>0, <1>3, Whole
<1>5. mem[ELFHDR + (ph + 1)] = SECTSIZE + (ph + 1)
  <2>1. Part(0).pa = ELFHDR /\ Part(0).offset = 0 /\ SECTSIZE + 0 = SECTSIZE
    BY BootAssumption DEF Part
  <2> QED
    BY <1>4, <2>1 DEF Byte
<1>6. Phys(ELFHDR + (ph + 1)) = ELFHDR + (ph + 1)
  <2>1. PICK a \in Nat : a = ELFHDR + (ph + 1)
    BY <1>1, <1>2
  <2>2. a < A20BIT /\ A20BIT \in Nat \ {0}
    <3>1. SECTSIZE * HdrSects \in Nat /\ ELFHDR + SECTSIZE * HdrSects <= A20BIT
      BY BootAssumption
    <3>2. ph + 1 < SECTSIZE * HdrSects
      BY <1>1, <1>2
    <3> QED
      BY <1>1, <1>2, <2>1, <3>1, <3>2, BootAssumption
  <2>3. a \div A20BIT = 0
    <3>1. (0 * A20BIT + a) \div A20BIT = 0
      BY <2>2, Quotient
    <3> QED
      BY <2>2, <3>1
  <2>4. 0 % 2 # 1
    OBVIOUS
  <2> QED
    BY <2>1, <2>3, <2>4 DEF Phys
<1> QED
  BY <1>5, <1>6 DEF Header

LEMMA SoFarStep == Shape /\ InStep /\ SoFar /\ [Next]_vars => SoFar'
<1> SUFFICES ASSUME Shape, InStep, SoFar, [Next]_vars, ~failed', ~SharedSector' PROVE SoFar'
  BY DEF SoFar
<1>0. ~failed /\ ~SharedSector /\ ~astray /\ \A k : Part(k)' = Part(k)
  <2>1. SharedSector' = SharedSector
    BY SameParts DEF SharedSector, PartFrames, Frames
  <2>2. failed => failed'
    BY DEF Next, Loader, Devices, vars, past, kbc_done, disk_done, seta20_1, seta20_2,
           read_command, read_data, not_elf, next_segment, wild, enter_kernel
  <2> QED
    BY <2>1, <2>2, SameParts DEF SoFar
<1>1. kernel \in Kernels /\ Len(kernel.ph) \in Nat /\ ph \in Parts /\ ph \in Nat
  BY <1>0, HowMany DEF Shape, Reading, Parts
<1>2. ASSUME ph' = ph, pa' = pa, mem' = mem, astray' = astray, ~InBoot' => ~InBoot PROVE SoFar'
  <2>1. \A k, b : Byte(k, b)' = Byte(k, b)
    BY <1>0, <1>2 DEF Byte, Part
  <2> HIDE DEF Byte, Part
  <2> QED
    BY <1>0, <1>2, <2>1 DEF SoFar
<1>3. CASE kbc_done \/ disk_done \/ seta20_1 \/ read_command \/ not_elf \/ enter_kernel
  BY <1>2, <1>3 DEF kbc_done, disk_done, seta20_1, read_command, not_elf, enter_kernel,
                    SegmentRead, InBoot, seg, past
<1>4. CASE wild
  BY <1>0, <1>4, HeaderThere DEF wild
<1>5. CASE seta20_2
  <2>1. ph = 0 /\ ph' = 0 /\ readseg(ELFHDR, SECTSIZE * HdrSects, 0) /\ astray' = astray
    BY <1>0, <1>5 DEF seta20_2, Shape, Reading, InBoot, past
  <2>2. pa' <= ELFHDR /\ pa' \in Nat /\ ELFHDR \in Nat
    <3>1. ELFHDR \in Nat /\ SECTSIZE * HdrSects \in Nat
      BY BootAssumption
    <3>2. pa' <= ELFHDR /\ \E q \in Nat : pa' = q * SECTSIZE
      BY <2>1, <3>1, Call
    <3> QED
      BY <3>1, <3>2, NextSector
  <2>3. ASSUME NEW k \in 0..ph', NEW b \in 0..(Part(k)'.filesz - 1),
               k < ph' \/ Part(k)'.pa + b < pa'
        PROVE  FALSE
    <3>1. k = 0 /\ Part(k)'.pa = ELFHDR /\ Part(k)'.filesz = SECTSIZE * HdrSects
      BY <2>1 DEF Part
    <3>2. ELFHDR + b < pa' /\ b \in Nat
      BY <2>1, <2>3, <3>1, BootAssumption
    <3> QED
      BY <2>2, <3>2
  <2> HIDE DEF Part
  <2> QED
    BY <1>0, <2>1, <2>3 DEF SoFar
<1>6. CASE read_data
  <2>1. ph' = ph /\ pa' = pa + SECTSIZE /\ astray' = astray
    BY <1>6 DEF read_data, past
  <2>2. ASSUME NEW k \in 0..ph, NEW b \in 0..(Part(k).filesz - 1),
               k < ph \/ Part(k).pa + b < pa + SECTSIZE
        PROVE  mem'[Part(k).pa + b] = SECTSIZE + Part(k).offset + b
    BY <1>0, <1>6, <2>2, SectorOfPart
  <2> HIDE DEF Part
  <2> QED
    BY <1>0, <2>1, <2>2 DEF SoFar, Byte
<1>7. CASE next_segment
  <2>1. /\ ph' = ph + 1 /\ ph < Len(kernel.ph) /\ mem' = mem /\ astray' = astray
        /\ pc = "readseg" /\ pa >= end_pa
        /\ readseg(kernel.ph[ph + 1].pa, kernel.ph[ph + 1].memsz, kernel.ph[ph + 1].offset)
    BY <1>7 DEF next_segment, SegmentRead, past
  <2>2. ph + 1 \in Parts /\ Part(ph + 1) = kernel.ph[ph + 1]
    BY <1>1, <2>1 DEF Parts, Part
  <2>3. Part(ph + 1).pa \in Nat /\ Part(ph + 1).memsz \in Nat /\ Part(ph + 1).offset \in Nat
        /\ Part(ph + 1).filesz \in Nat
    BY <1>1, <2>2, Headers
  <2>4. pa' <= Part(ph + 1).pa /\ pa' \in Nat
    <3>1. readseg(Part(ph + 1).pa, Part(ph + 1).memsz, Part(ph + 1).offset)
      BY <2>1, <2>2
    <3>2. pa' <= Part(ph + 1).pa /\ \E q \in Nat : pa' = q * SECTSIZE
      BY <2>3, <3>1, Call
    <3> QED
      BY <3>2, NextSector
  <2>5. ASSUME NEW k \in 0..(ph + 1), NEW b \in 0..(Part(k).filesz - 1),
               k < ph + 1 \/ Part(k).pa + b < pa'
        PROVE  Byte(k, b)
    <3>1. k \in 0..ph
      <4>1. CASE k = ph + 1
        <5>1. PICK from \in Nat, low \in Nat : from = Part(ph + 1).pa /\ low = pa'
          BY <2>3, <2>4
        <5>2. b \in Nat
          BY <2>3, <4>1
        <5>3. from + b < low
          BY <1>1, <2>5, <4>1, <5>1
        <5> QED
          BY <2>4, <5>1, <5>2, <5>3
      <4> QED
        BY <1>1, <4>1
    <3>2. ~InBoot
      BY <2>1 DEF InBoot
    <3> QED
      BY <1>0, <2>1, <3>1, <3>2, Whole
  <2>6. \A k, b : Byte(k, b)' = Byte(k, b)
    BY <1>0, <2>1 DEF Byte, Part
  <2> HIDE DEF Byte, Part
  <2> QED
    BY <1>0, <2>1, <2>5, <2>6 DEF SoFar
<1>8. CASE UNCHANGED vars
  BY <1>2, <1>8 DEF vars, seg, past, InBoot
<1> QED
  BY <1>3, <1>4, <1>5, <1>6, <1>7, <1>8 DEF Next, Loader, Devices

\* Whatever kernel is entered, its segments are in memory: with the gate open, every
\* sector is the one that belongs at pa, none is read over another part, the program
\* headers stay where they are, and bootmain enters the kernel after the last.
THEOREM AllInPlace == Spec => []Loaded
<1>1. Init => InStep /\ SoFar
  BY DEF Init, InStep, SoFar, InBoot
<1>2. Shape /\ InStep /\ SoFar => Loaded
  <2> SUFFICES ASSUME Shape, InStep, SoFar, pc = "kernel", ~failed, ~SharedSector,
                      NEW k \in Parts \ {0}, NEW b \in 0..(Part(k).filesz - 1)
               PROVE  mem[Part(k).pa + b] = SECTSIZE + Part(k).offset + b
    BY DEF Loaded, InPlace
  <2>1. ~astray /\ ~InBoot
    BY DEF SoFar, InBoot
  <2>2. k \in 0..ph /\ pa >= end_pa
    BY <2>1 DEF InStep, Parts
  <2> QED
    BY <2>1, <2>2, Whole DEF Byte
<1> QED
  BY <1>1, <1>2, ShapeInit, ShapeStep, InStepStep, SoFarStep, PTL DEF Spec

=============================================================================
