----------------------------- MODULE BootSector -----------------------------
(***************************************************************************)
(* The first stage, stage1/boot.asm: it saves the partition entry that the *)
(* master boot record points to, reads the second stage by a list of       *)
(* blocks, each up to three times with a reset after every failure, and    *)
(* jumps to it.                                                            *)
(*                                                                         *)
(* Memory is modelled by what lies at the addresses a sector may be read   *)
(* to, a sector by its number.  BIOS is external: a call succeeds or fails *)
(* after some of the sectors have arrived.                                 *)
(***************************************************************************)
EXTENDS Integers, Sequences

CONSTANTS
    STAGE2_LOAD_OFFSET,       \* where the second stage goes, in segment 0
    PARTITION_ENTRY_SEGMENT,  \* where the partition entry goes, at offset 0
    BOOT_SECTOR,              \* where the stack and the boot sector begin
    PARAGRAPHS,               \* sixteens of bytes in a sector
    Places,                   \* the addresses whose content is told apart
    MaxFaults                 \* bound: failures of the disk in a behaviour

\* What a place may hold other than a sector.
EMPTY == -1
TABLE_ENTRY == -2
CODE  == -3

VARIABLES
    machine,  \* the machine and its disk, the same throughout
    loader,   \* what the boot sector is doing: see TypeOK
    ram,      \* what lies at each place
    block,    \* si: number of the block in the list
    es,       \* the segment the next block goes to
    count,    \* the sectors BIOS is asked for
    tries,    \* di: attempts left
    faults,   \* failures of the disk so far
    failed,   \* history: failed attempts at this block
    cut       \* history: a repeated call asked for fewer sectors than the list

sectorVars == <<loader, ram, block, es, count, tries, failed, cut>>

Linear(segment, offset) == segment * 16 + offset

Init ==
    /\ loader = "start"
    /\ ram = [p \in Places |-> IF p = BOOT_SECTOR THEN CODE ELSE EMPTY]
    /\ block = 1 /\ es = 0 /\ count = 0 /\ tries = 0
    /\ failed = 0 /\ cut = FALSE

\* The list of blocks ends with an entry of zeroes.
Blocks  == machine.blocks
IsBlock == block <= Len(Blocks)

\* The or of numbers of two bits.
Or(x, y) == IF x = 0 THEN y ELSE IF y = 0 \/ y = x THEN x ELSE 3

\* Mutant: the first sector of a track has number 0.
Addressed_NoInc(lba) ==
    LET track    == (lba % 65536) \div machine.header.sectors
        cx       == (lba % 65536) % machine.header.sectors
        ax       == track \div machine.header.heads
        cylinder == (ax % 256) + 256 * Or((ax \div 256) % 4, (cx \div 64) % 4)
        head     == (track % machine.header.heads) % 256
    IN  IF machine.extensions THEN lba
        ELSE (cylinder * machine.drive.heads + head) * machine.drive.sectors
             + (cx % 64) - 1

\* The sector a call addresses: the number itself with the extensions, and
\* otherwise what the drive makes of CH, CL and DH as lba_to_chs fills them by
\* the geometry in the boot sector's header.  CL has six bits for the sector; in
\* its upper two, the sector's own meet those of the cylinder.
Addressed(lba) ==
    LET track    == (lba % 65536) \div machine.header.sectors
        cx       == ((lba % 65536) % machine.header.sectors) + 1
        ax       == track \div machine.header.heads
        cylinder == (ax % 256) + 256 * Or((ax \div 256) % 4, (cx \div 64) % 4)
        head     == (track % machine.header.heads) % 256
    IN  IF machine.extensions THEN lba
        ELSE (cylinder * machine.drive.heads + head) * machine.drive.sectors
             + (cx % 64) - 1

\* The first n sectors of the block at hand have arrived.
Filled(n) ==
    LET from == Linear(es, STAGE2_LOAD_OFFSET)
        nth(p) == (p - from) \div (16 * PARAGRAPHS)
    IN  [p \in Places |-> IF p >= from /\ nth(p) < n
                          THEN Addressed(Blocks[block].lba) + nth(p) ELSE ram[p]]

\* BIOS returns to the boot sector, if that is still there.
Goes(next) == loader' = IF ram'[BOOT_SECTOR] = CODE THEN next ELSE "undefined"
-----------------------------------------------------------------------------
Start ==
    /\ loader = "start"
    /\ ram' = [ram EXCEPT ![Linear(PARTITION_ENTRY_SEGMENT, 0)] = TABLE_ENTRY]
    /\ loader' = "block"
    /\ UNCHANGED <<block, es, count, tries, faults, failed, cut>>

\* Mutant: two attempts.
NextBlock_Twice ==
    /\ loader = "block" /\ IsBlock
    /\ count' = Blocks[block].count
    /\ tries' = 2 /\ failed' = 0
    /\ loader' = "read"
    /\ UNCHANGED <<ram, block, es, faults, cut>>

NextBlock ==
    /\ loader = "block" /\ IsBlock
    /\ count' = Blocks[block].count
    /\ tries' = 3 /\ failed' = 0
    /\ loader' = "read"
    /\ UNCHANGED <<ram, block, es, faults, cut>>

\* The list has ended: the second stage is jumped to.
Jump ==
    /\ loader = "block" /\ ~IsBlock
    /\ loader' = "left"
    /\ UNCHANGED <<ram, block, es, count, tries, faults, failed, cut>>

\* The segment moves on by what the list says, whatever was read.
Read ==
    /\ loader = "read"
    /\ ram' = Filled(count)
    /\ Goes("block")
    /\ block' = block + 1
    /\ es' = es + Blocks[block].count * PARAGRAPHS
    /\ cut' = (cut \/ count < Blocks[block].count)
    /\ UNCHANGED <<count, tries, faults, failed>>

\* With the extensions BIOS may write how many sectors it moved into the count
\* of the packet, which the next attempt uses again.
ReadFails ==
    /\ loader = "read" /\ faults < MaxFaults
    /\ \E n \in 0 .. count :
          /\ ram' = Filled(n)
          /\ count' \in IF machine.extensions THEN {count, n} ELSE {count}
    /\ Goes("reset")
    /\ faults' = faults + 1 /\ failed' = failed + 1
    /\ UNCHANGED <<block, es, tries, cut>>

Reset ==
    /\ loader = "reset"
    /\ tries' = tries - 1
    /\ loader' = IF tries' = 0 THEN "key" ELSE "read"
    /\ UNCHANGED <<ram, block, es, count, faults, failed, cut>>

\* disk_reset jumps to floppy_error at once.
ResetFails ==
    /\ loader = "reset" /\ faults < MaxFaults
    /\ loader' = "key"
    /\ faults' = faults + 1
    /\ UNCHANGED <<ram, block, es, count, tries, failed, cut>>

\* wait_key_and_reboot: the machine starts again.
Reboot ==
    /\ loader = "key"
    /\ loader' = "rebooted"
    /\ UNCHANGED <<ram, block, es, count, tries, faults, failed, cut>>

Work == Start \/ NextBlock \/ Jump \/ Read \/ ReadFails \/ Reset \/ ResetFails
-----------------------------------------------------------------------------
TypeOK ==
    /\ loader \in {"start", "block", "read", "reset", "left", "key", "rebooted",
                   "undefined"}
    /\ ram \in [Places -> {EMPTY, TABLE_ENTRY, CODE} \cup Int]
    /\ block \in 1 .. Len(Blocks) + 1
    /\ es \in Nat /\ count \in Nat /\ tries \in 0 .. 3
    /\ faults \in 0 .. MaxFaults /\ failed \in 0 .. 3 /\ cut \in BOOLEAN

\* The second stage: the sectors of the list, one after the other.  The list's
\* first i blocks have machine.ends[i] of them.
Size == machine.ends[Len(Blocks)]

SectorOf(k) ==
    LET i == CHOOSE j \in DOMAIN Blocks : machine.ends[j - 1] <= k /\ k < machine.ends[j]
    IN  Blocks[i].lba + (k - machine.ends[i - 1])

\* From the jump on, the whole second stage lies in memory in order, and stays
\* there (boot.asm:121-138): whatever calls failed before, however a sector was
\* addressed, and whatever the later parts of the boot write.  Excepted is a
\* list of which a repeated call read less.
StageTwoWhole ==
    loader = "left" /\ ~cut =>
        \A k \in 0 .. Size - 1 :
            ram[STAGE2_LOAD_OFFSET + 16 * PARAGRAPHS * k] = SectorOf(k)

\* The boot sector gives up only after three failed reads of a block, or after a
\* reset that failed (boot.asm:299-334).
GivesUpLate ==
    [][loader # "key" /\ loader' = "key" =>
        failed = 3 \/ (loader = "reset" /\ faults' > faults)]_<<machine, faults, sectorVars>>
=============================================================================
