---------------------------- MODULE MCBootLoader ----------------------------
(* Sectors of two bytes, a header page of two sectors, kernels of one or two *)
(* segments above address bit 20, in increasing order and one not over the   *)
(* other, their file offsets laid out as a linker does: congruent to the     *)
(* addresses modulo the sector size.                                         *)
EXTENDS BootLoader

Hdr == SECTSIZE * HdrSects

Segments == {s \in [pa : A20BIT..(A20BIT + 5), filesz : 1..3, memsz : 1..3, offset : Hdr..(Hdr + 5)] :
               /\ s.filesz <= s.memsz
               /\ s.pa % SECTSIZE = s.offset % SECTSIZE}

SegmentImages == {[magic |-> TRUE, ph |-> <<s>>] : s \in Segments}
          \cup {[magic |-> TRUE, ph |-> <<s, t>>] :
                  <<s, t>> \in {x \in Segments \X Segments : x[1].pa + x[1].memsz <= x[2].pa}}

\* Linkers append a header without bytes that says how the stack is to be mapped.
GnuStack == [pa |-> 0, filesz |-> 0, memsz |-> 0, offset |-> 0]

NotAKernel == [magic |-> FALSE, ph |-> <<>>]

MCKernels == SegmentImages \cup {[magic |-> TRUE, ph |-> <<s, GnuStack>>] : s \in Segments}
                           \cup {NotAKernel}

\* Junk that points below the header page, into it, and to the end of memory.
MCJunkHeaders == {[pa |-> 0, memsz |-> 3, offset |-> 0], [pa |-> 5, memsz |-> 1, offset |-> 4],
                  [pa |-> MemSize - 1, memsz |-> 2, offset |-> 0]}

=============================================================================
