------------------------------- MODULE MCBoot -------------------------------
(***************************************************************************)
(* Boot with sectors of two paragraphs, room for three of them before the  *)
(* boot sector, and tables of two regions.  Each machine has one of the    *)
(* kernel files of MCElfLoader.                                            *)
(***************************************************************************)
EXTENDS Boot, KernelFiles

Geometry(sectors, heads) == [sectors |-> sectors, heads |-> heads]

Block(lba, n) == [lba |-> lba, count |-> n]

\* The sectors up to the end of each block.
UpTo(blocks) ==
    LET upTo[b \in 0 .. Len(blocks)] ==
            IF b = 0 THEN 0 ELSE upTo[b - 1] + blocks[b].count
    IN  upTo

WithBlocks(list, m) == [m EXCEPT !.blocks = list, !.ends = UpTo(list)]

\* A floppy disk with the second stage in two pieces.
Floppy ==
    [id |-> 0, extensions |-> FALSE, drive |-> Geometry(2, 2),
     header |-> Geometry(2, 2), entry |-> 0,
     blocks |-> <<Block(1, 1), Block(9, 2)>>, ends |-> UpTo(<<Block(1, 1), Block(9, 2)>>),
     regions |-> <<"low", "high">>, end |-> "zero", file |-> Usual]

\* One whose drive has a geometry of its own, and of which BIOS tells nothing.
OtherFloppy ==
    WithBlocks(<<Block(1, 3)>>, [Floppy EXCEPT !.drive = Geometry(3, 2),
                                     !.regions = <<>>, !.file = TableInHeader])

HardDisk ==
    [id |-> 128, extensions |-> TRUE, drive |-> Geometry(2, 2),
     header |-> Geometry(2, 2), entry |-> 7,
     blocks |-> <<Block(5, 2), Block(2, 1)>>, ends |-> UpTo(<<Block(5, 2), Block(2, 1)>>),
     regions |-> <<"low", "high">>, end |-> "error", file |-> Large]

\* One with as many regions as the table takes, a region more, with a region of
\* continuation 0; one with too many; one whose second stage is too large.
FullTable ==
    [HardDisk EXCEPT !.extensions = FALSE, !.regions = <<"low", "high", "acpi">>,
                     !.end = "zero", !.file = TableAtEnd]
TooManyRegions == [FullTable EXCEPT !.end = "error"]
TooLarge == WithBlocks(<<Block(5, 3), Block(2, 1)>>, [HardDisk EXCEPT !.file = CutOff])

MCRegions == {"low", "high", "acpi"}

MCMachines == {Floppy, OtherFloppy, HardDisk, FullTable, TooManyRegions, TooLarge}
=============================================================================
