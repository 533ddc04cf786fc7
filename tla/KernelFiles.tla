---------------------------- MODULE KernelFiles ----------------------------
(***************************************************************************)
(* Kernel files for ElfLoader with sectors of 2 units and a load buffer of *)
(* 4.                                                                      *)
(***************************************************************************)

Load(offset, vaddr, filesz, memsz) ==
    [load |-> TRUE, offset |-> offset, vaddr |-> vaddr, filesz |-> filesz,
     memsz |-> memsz]

Note == [load |-> FALSE, offset |-> 3, vaddr |-> 0, filesz |-> 1, memsz |-> 1]

\* A segment that takes two pieces to reach and one with zeroes behind it; a
\* table at the end of the file; a table that begins within the header; and a
\* file cut off in its last segment.
Usual   == [size |-> 9, phoff |-> 1,
            segments |-> <<Load(6, 1, 3, 3), Note, Load(4, 5, 1, 3)>>]
TableAtEnd == [size |-> 8, phoff |-> 6, segments |-> <<Note, Load(1, 2, 3, 3)>>]
TableInHeader == [size |-> 5, phoff |-> 0, segments |-> <<Load(2, 0, 2, 2)>>]
CutOff  == [size |-> 6, phoff |-> 1, segments |-> <<Load(4, 0, 3, 3)>>]

\* A segment larger than the load buffer.
Large   == [size |-> 10, phoff |-> 1, segments |-> <<Load(2, 0, 6, 7)>>]

MCImages == {Usual, TableAtEnd, TableInHeader, CutOff, Large}
=============================================================================
