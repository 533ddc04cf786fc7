-------------------------------- MODULE Disk --------------------------------
(***************************************************************************)
(* The second stage's disk driver: DISK_Initialize, MBR_DetectPartition,   *)
(* Partition_ReadSectors and DISK_ReadSectors with its three attempts, over *)
(* the register packing of x86.asm and a BIOS that addresses sectors by    *)
(* cylinder, head and sector.  The BIOS is external: its reads may fail,   *)
(* and after a failure the drive answers nothing but failures until it is  *)
(* reset.                                                                  *)
(***************************************************************************)
EXTENDS Integers

CONSTANTS
    Drives,    \* the drives the machine may have
    Lbas,      \* the sectors of the partition that are asked for
    MaxFaults  \* bound: failures of the drive during a call

NONE   == -1
FAILED == -2
ANY    == -3

\* What a BIOS can describe in the registers of function 08h.
Describable(d) ==
    /\ d.id \in 0 .. 255 /\ d.cylinders \in 1 .. 1024
    /\ d.heads \in 1 .. 256 /\ d.sectors \in 1 .. 63
    /\ d.start \in Nat

ASSUME DriveAssumption == \A d \in Drives : Describable(d)
ASSUME LbaAssumption   == Lbas \subseteq Nat /\ MaxFaults \in Nat

VARIABLES
    drive,   \* external: the drive's number and geometry, and the start of the
             \* partition in its partition table
    hung,    \* external: the drive needs a reset
    pc,      \* "off", "idle", "read", "reset" or "halted"
    disk,    \* the DISK record
    partitionOffset,
    lba,     \* argument of the running DISK_ReadSectors
    tries,   \* its loop counter
    asked,   \* the sector of the partition being read, or NONE
    got,     \* the last answer: the sector of the drive delivered, or FAILED
    faults   \* external: failures of the drive during the call, counting one for
             \* a drive that needed a reset when the call began

vars == <<drive, hung, pc, disk, partitionOffset, lba, tries, asked, got, faults>>

-----------------------------------------------------------------------------
(* Geometry and registers                                                   *)

\* int 13h, function 08h (external): the highest cylinder and head numbers.
Parameters(d) ==
    LET c == d.cylinders - 1
    IN  [ch |-> c % 256, cl |-> (c \div 256) * 64 + d.sectors, dh |-> d.heads - 1]

\* x86_Disk_GetDriveParams, x86.asm:116-137.
Geometry(r) ==
    [cylinders |-> (r.ch + 256 * (r.cl \div 64) + 1) % 65536,
     sectors   |-> r.cl % 64,
     heads     |-> (r.dh + 1) % 65536]

\* Mutant: the head and the cylinder are taken from each other's quotient.
LBA2CHS_Swapped(g, n) ==
    [sector   |-> (n % g.sectors) + 1,
     cylinder |-> ((n \div g.sectors) % g.heads) % 65536,
     head     |-> ((n \div g.sectors) \div g.heads) % 65536]

\* DISK_LBA2CHS, with its uint16_t results.
LBA2CHS(g, n) ==
    [sector   |-> ((n % g.sectors) + 1) % 65536,
     cylinder |-> ((n \div g.sectors) \div g.heads) % 65536,
     head     |-> ((n \div g.sectors) % g.heads) % 65536]

\* x86_Disk_Read, x86.asm:209-218: the low byte of the cylinder in CH, two bits
\* of its high byte above the sector's six in CL, the low byte of the head.
Registers(chs) ==
    [ch |-> chs.cylinder % 256,
     cl |-> (((chs.cylinder \div 256) * 64) % 256) + (chs.sector % 64),
     dh |-> chs.head % 256]

\* int 13h, function 02h (external): the sector of the drive the registers
\* mean, or NONE.
Addressed(d, r) ==
    LET cylinder == r.ch + 256 * (r.cl \div 64)
        sector   == r.cl % 64
    IN  IF cylinder < d.cylinders /\ r.dh < d.heads /\ sector \in 1 .. d.sectors
        THEN (cylinder * d.heads + r.dh) * d.sectors + sector - 1
        ELSE NONE

Capacity(d) == d.cylinders * d.heads * d.sectors

-----------------------------------------------------------------------------
Init ==
    /\ drive \in Drives
    /\ hung = FALSE
    /\ pc = "off"
    /\ disk = [cylinders |-> 0, sectors |-> 0, heads |-> 0]
    /\ partitionOffset = 0
    /\ lba = 0 /\ tries = 0 /\ asked = NONE /\ got = NONE
    /\ faults = 0

\* Mutant: sectors of a partition are counted from the start of the drive.
Initialize_NoOffset ==
    /\ pc = "off"
    /\ pc' = "idle"
    /\ disk' = Geometry(Parameters(drive))
    /\ partitionOffset' = 0
    /\ UNCHANGED <<drive, hung, lba, tries, asked, got, faults>>

\* DISK_Initialize, then MBR_DetectPartition: a floppy has no partitions.
Initialize ==
    /\ pc = "off"
    /\ pc' = "idle"
    /\ disk' = Geometry(Parameters(drive))
    /\ partitionOffset' = IF drive.id < 128 THEN 0 ELSE drive.start
    /\ UNCHANGED <<drive, hung, lba, tries, asked, got, faults>>

\* The BIOS does not describe the drive: start() stops.
InitializeFails ==
    /\ pc = "off"
    /\ pc' = "halted"
    /\ UNCHANGED <<drive, hung, disk, partitionOffset, lba, tries, asked, got, faults>>

\* Partition_ReadSectors is called.
ReadSectors(sector) ==
    /\ pc = "idle"
    /\ pc' = "read"
    /\ lba' = sector + partitionOffset
    /\ tries' = 0
    /\ asked' = sector /\ got' = NONE
    /\ faults' = IF hung THEN 1 ELSE 0
    /\ UNCHANGED <<drive, hung, disk, partitionOffset>>

Here == Addressed(drive, Registers(LBA2CHS(disk, lba)))

\* disk.c:41-42: the BIOS delivers.
ReadSucceeds ==
    /\ pc = "read" /\ ~hung /\ Here # NONE
    /\ pc' = "idle"
    /\ got' = Here
    /\ asked' = NONE
    /\ UNCHANGED <<drive, hung, disk, partitionOffset, lba, tries, faults>>

\* disk.c:41: the BIOS refuses the address, or the drive fails.
ReadFails ==
    /\ pc = "read"
    /\ \/ Here = NONE /\ UNCHANGED <<hung, faults>>
       \/ hung /\ UNCHANGED <<hung, faults>>
       \/ /\ ~hung /\ faults < MaxFaults
          /\ hung' = TRUE /\ faults' = faults + 1
    /\ pc' = "reset"
    /\ UNCHANGED <<drive, disk, partitionOffset, lba, tries, asked, got>>

\* Mutant: the drive is not reset between two attempts.
Reset_Missing ==
    /\ pc = "reset"
    /\ tries' = tries + 1
    /\ IF tries + 1 < 3
       THEN pc' = "read" /\ UNCHANGED <<asked, got>>
       ELSE pc' = "idle" /\ got' = FAILED /\ asked' = NONE
    /\ UNCHANGED <<drive, hung, disk, partitionOffset, lba, faults>>

\* Mutant: <= for < in the loop's test.
Reset_OneMore ==
    /\ pc = "reset"
    /\ \/ hung' = FALSE /\ UNCHANGED faults
       \/ hung' = TRUE /\ faults < MaxFaults /\ faults' = faults + 1
    /\ tries' = tries + 1
    /\ IF tries + 1 <= 3
       THEN pc' = "read" /\ UNCHANGED <<asked, got>>
       ELSE pc' = "idle" /\ got' = FAILED /\ asked' = NONE
    /\ UNCHANGED <<drive, disk, partitionOffset, lba>>

\* disk.c:44 and the loop's test.  A reset may fail, which nobody looks at.
Reset ==
    /\ pc = "reset"
    /\ \/ hung' = FALSE /\ UNCHANGED faults
       \/ hung' = TRUE /\ faults < MaxFaults /\ faults' = faults + 1
    /\ tries' = tries + 1
    /\ IF tries + 1 < 3
       THEN pc' = "read" /\ UNCHANGED <<asked, got>>
       ELSE pc' = "idle" /\ got' = FAILED /\ asked' = NONE
    /\ UNCHANGED <<drive, disk, partitionOffset, lba>>

Stopped == pc = "halted" /\ UNCHANGED vars

Attempt == ReadSucceeds \/ ReadFails \/ Reset

Next ==
    \/ Initialize
    \/ InitializeFails
    \/ \E sector \in Lbas : ReadSectors(sector)
    \/ Attempt
    \/ Stopped

\* There is one thread, and each BIOS call returns.
Spec == Init /\ [][Next]_vars /\ WF_vars(Attempt)
-----------------------------------------------------------------------------
(* Properties                                                               *)

\* Where the partition begins; a floppy has none.
Start(d) == IF d.id < 128 THEN 0 ELSE d.start

Word16  == 0 .. 65535
SixBits == 0 .. 63

TypeOK ==
    /\ drive \in Drives /\ hung \in BOOLEAN
    /\ pc \in {"off", "idle", "read", "reset", "halted"}
    /\ disk \in [cylinders : Word16, sectors : SixBits, heads : Word16]
    /\ partitionOffset \in Nat /\ lba \in Nat
    /\ tries \in 0 .. 3 /\ (pc \in {"read", "reset"} => tries < 3)
    /\ asked \in Lbas \cup {NONE} /\ got \in Nat \cup {NONE, FAILED} /\ faults \in Nat

\* The registers of every attempt mean the sector asked for, for each sector
\* the drive has: the BIOS's geometry, its decoding by x86_Disk_GetDriveParams,
\* the division by DISK_LBA2CHS and the packing by x86_Disk_Read fit together.
AddressesTheSector ==
    pc \in {"read", "reset"} /\ lba < Capacity(drive) =>
        Addressed(drive, Registers(LBA2CHS(disk, lba))) = lba

\* DISK_ReadSectors gives up only on a drive that failed three times (or on a
\* sector the drive does not have): two failures, of reads or of the resets
\* between them, are hidden from the file system.
TwoFailuresAreHidden ==
    [][got # FAILED /\ got' = FAILED /\ lba < Capacity(drive) => faults' >= 3]_vars

\* The sectors of the partition the drive has, and the answer as the file
\* system sees it: a sector of the partition.
Present == {sector \in Lbas : sector + Start(drive) < Capacity(drive)}

Answered == CASE got \in {NONE, FAILED} -> got
              [] got \in Nat -> IF lba < Capacity(drive) THEN got - Start(drive)
                                                        ELSE ANY

\* The driver implements the device the file system relies on: over all its
\* attempts, it answers with the sector of the partition that was asked for or
\* with a failure, and it answers (mbr.c:44-47, disk.c:33-48).
Device == INSTANCE SectorDevice WITH
    Asks <- Lbas, present <- Present, got <- Answered

ImplementsDevice == Device!Spec
=============================================================================
