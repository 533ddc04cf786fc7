-------------------------------- MODULE Boot --------------------------------
(***************************************************************************)
(* The boot as a whole: the boot sector, stage 2's entry and start(), and  *)
(* the kernel's start() up to its last loop.  It composes BootSector,      *)
(* KeyboardController, Processor, MemoryMap and ElfLoader, which share the  *)
(* machine, its memory and its failures, and puts their steps in the order *)
(* of the code; a call of BIOS from stage 2 goes through real mode.        *)
(*                                                                         *)
(* Reads of FAT_Initialize and ELF_Read are their modules' own: the calls  *)
(* of BIOS below them are as those shown here.                             *)
(***************************************************************************)
EXTENDS ElfLoader

CONSTANTS
    STAGE2_LOAD_OFFSET, PARTITION_ENTRY_SEGMENT, BOOT_SECTOR, PARAGRAPHS, Places,
    MAX_REGIONS,
    MEMORY_FAT_ADDR,  \* where the FAT driver keeps its data
    Regions,          \* the regions of memory BIOS may report
    Machines          \* the machines, each with a disk to boot from

VARIABLES
    machine, loader, ram, block, es, count, tries, failed, cut,
    line, eax, input, data, output, value, port, before, keyboard, writing, pressed,
    cpu, todo,
    detect, continuation, region, ret, g_MemRegions,
    at,         \* how far the boot is: see BootTypeOK
    calling,    \* a call of BIOS from stage 2: "no", "entering" real mode, or
                \* "leaving" it
    disk,       \* the drive's parameters: "unknown", "known" or "failed"
    partition,  \* partitionOffset
    logged      \* the regions the kernel has logged

Sector   == INSTANCE BootSector
Keyboard == INSTANCE KeyboardController
Cpu      == INSTANCE Processor
Map      == INSTANCE MemoryMap

\* An offset before MBR_DetectPartition, and what FAT_Initialize leaves in place
\* of the partition entry.
UNKNOWN == -1
DRIVER  == -4

\* Those a header may state, and those a drive may have.
Geometries == [sectors : Nat \ {0}, heads : Nat \ {0}]
DriveGeometries == [sectors : 1 .. 63, heads : 1 .. 256]

\* A drive is read by its own geometry.  The boot sector's header agrees with
\* it wherever that makes a difference.
Addressable(m, lba) ==
    \/ m.extensions
    \/ m.header = m.drive /\ lba < 65536
       /\ (lba \div m.drive.sectors) \div m.drive.heads < 1024
    \/ lba < Min({m.header.sectors, m.drive.sectors}) /\ lba < 65536

\* The second stage ends below the partition entry and the FAT driver's data.
BlocksOk(m) ==
    /\ Len(m.blocks) \in 1 .. 5 /\ DOMAIN m.blocks = 1 .. Len(m.blocks)
    /\ \A b \in DOMAIN m.blocks :
          /\ m.blocks[b].lba \in Nat \ {0} /\ m.blocks[b].count \in 1 .. 255
          /\ Addressable(m, m.blocks[b].lba)
          /\ m.ends[b] = m.ends[b - 1] + m.blocks[b].count
    /\ m.ends \in [0 .. Len(m.blocks) -> 0 .. 5 * 255] /\ m.ends[0] = 0
    /\ \A k \in 0 .. m.ends[Len(m.blocks)] - 1 :
          LET place == STAGE2_LOAD_OFFSET + 16 * PARAGRAPHS * k
          IN  /\ place \in Places
              /\ place + 16 * PARAGRAPHS <= MEMORY_FAT_ADDR
              /\ place + 16 * PARAGRAPHS <= PARTITION_ENTRY_SEGMENT * 16

MachineOk(m) ==
    /\ m.id \in 0 .. 255 /\ m.entry \in Nat /\ m.extensions \in BOOLEAN
    /\ m.drive \in DriveGeometries /\ m.header \in Geometries /\ BlocksOk(m)
    /\ m.regions \in Seq(Regions) /\ m.end \in {"zero", "error"}
    /\ m.file \in Images

ASSUME MachineAssumption == \A m \in Machines : MachineOk(m)

ASSUME PlaceAssumption ==
    /\ {BOOT_SECTOR, MEMORY_FAT_ADDR, PARTITION_ENTRY_SEGMENT * 16} \subseteq Places
    /\ Places \subseteq Nat /\ STAGE2_LOAD_OFFSET \in Nat
    /\ PARTITION_ENTRY_SEGMENT \in Nat /\ PARAGRAPHS \in Nat \ {0}
    /\ MAX_REGIONS \in Nat \ {0}

sectorVars   == <<loader, ram, block, es, count, tries, failed, cut>>
keyboardVars == <<line, eax, input, data, output, value, port, before, keyboard,
                  writing, pressed>>
mapVars  == <<detect, continuation, region, ret, g_MemRegions>>
elfVars  == <<image, pc, memory, position, buffer, i, left, target, silent>>
bootVars == <<machine, elfVars, faults, sectorVars, keyboardVars,
              cpu, todo, mapVars, at, calling, disk, partition, logged>>

BootInit ==
    /\ machine \in Machines
    /\ Sector!Init /\ Keyboard!Init /\ Cpu!Init /\ Map!Init
    /\ Init /\ image = machine.file
    /\ at = "stage1" /\ calling = "no"
    /\ disk = "unknown" /\ partition = UNKNOWN /\ logged = <<>>
-----------------------------------------------------------------------------
(* Stage 1                                                                  *)

Stage1 ==
    /\ at = "stage1" /\ Sector!Work
    /\ UNCHANGED <<machine, elfVars, keyboardVars, cpu, todo, mapVars,
                   at, calling, disk, partition, logged>>

Reboot ==
    /\ at = "stage1" /\ Sector!Reboot
    /\ at' = "restarted"
    /\ UNCHANGED <<machine, elfVars, keyboardVars, cpu, todo, mapVars,
                   calling, disk, partition, logged>>

\* The jump to stage 2, or to what is left of the boot sector.
Stage2 ==
    /\ at = "stage1"
    /\ \/ loader = "left" /\ at' = "entry" /\ todo' = Cpu!entry_A20
       \/ loader = "undefined" /\ at' = "undefined" /\ UNCHANGED todo
    /\ UNCHANGED <<machine, elfVars, faults, sectorVars, keyboardVars,
                   cpu, mapVars, calling, disk, partition, logged>>
-----------------------------------------------------------------------------
(* Stage 2: entry.asm                                                       *)

notKeyboard == <<machine, elfVars, faults, sectorVars, cpu, mapVars,
                 calling, disk, partition, logged>>

Instruction ==
    /\ Cpu!Step
    /\ UNCHANGED <<machine, elfVars, faults, sectorVars, keyboardVars,
                   mapVars, at, calling, disk, partition, logged>>

EnableA20 ==
    /\ \/ at = "entry" /\ todo = <<>> /\ at' = "a20"
          /\ UNCHANGED <<todo, keyboardVars>>
       \/ at = "a20" /\ Keyboard!Work /\ UNCHANGED <<todo, at>>
       \/ at = "a20" /\ Keyboard!Now = "done"
          /\ at' = "switch" /\ todo' = Cpu!entry_pmode
          /\ UNCHANGED keyboardVars
    /\ UNCHANGED notKeyboard

\* Bit 0 of the port resets the processor.
Controller ==
    /\ Keyboard!Controller
    /\ at' = IF Keyboard!RESET \in port' THEN at ELSE "restarted"
    /\ UNCHANGED <<todo, notKeyboard>>

\* Once interrupts are off, a key stays in the controller.
Press ==
    /\ at \in {"entry", "a20"} /\ ~cpu.interrupts
    /\ Keyboard!Press
    /\ UNCHANGED <<todo, at, notKeyboard>>
-----------------------------------------------------------------------------
(* Stage 2: start()                                                         *)

\* Mutant: the partition is looked up after the FAT driver has its data.
Parts_FatFirst == <<"disk", "fat", "partition", "detect", "elf">>

Parts == <<"disk", "partition", "fat", "detect", "elf">>

Part(part)  == \E k \in DOMAIN Parts : Parts[k] = part
After(part) == Parts[1 + CHOOSE k \in DOMAIN Parts : Parts[k] = part]

\* C code runs.
InC == calling = "no" /\ todo = <<>>

notPart == <<machine, keyboardVars, cpu>>

\* bss is cleared by the segment es, which still has the limit of real mode.
EnterStart ==
    /\ at = "switch" /\ todo = <<>>
    /\ at' = "disk"
    /\ UNCHANGED <<notPart, elfVars, faults, sectorVars, mapVars, todo,
                   calling, disk, partition, logged>>

\* x86_Disk_GetDriveParams and x86_E820GetNextBlock, up to the interrupt and
\* after it.
CallBios ==
    /\ InC
    /\ \/ at = "disk" /\ disk = "unknown"
       \/ at = "detect" /\ detect = "call"
    /\ calling' = "entering" /\ todo' = Cpu!x86_EnterRealMode
    /\ UNCHANGED <<notPart, elfVars, faults, sectorVars, mapVars, at, disk,
                   partition, logged>>

Bios ==
    /\ calling = "entering" /\ todo = <<>>
    /\ calling' = "leaving" /\ todo' = Cpu!x86_EnterProtectedMode
    /\ \/ at = "disk" /\ disk' = "known" /\ UNCHANGED <<faults, mapVars>>
       \/ at = "disk" /\ faults < MaxFaults /\ disk' = "failed" /\ faults' = faults + 1
          /\ UNCHANGED mapVars
       \/ at = "detect" /\ Map!GetNextBlock /\ UNCHANGED <<disk, faults>>
    /\ UNCHANGED <<notPart, elfVars, sectorVars, at, partition, logged>>

BackInC ==
    /\ calling = "leaving" /\ todo = <<>>
    /\ calling' = "no"
    /\ UNCHANGED <<notPart, elfVars, faults, sectorVars, mapVars, todo, at,
                   disk, partition, logged>>

DISK_Initialize ==
    /\ at = "disk" /\ InC /\ disk # "unknown"
    /\ at' = IF disk = "failed" THEN "halted" ELSE After(at)
    /\ UNCHANGED <<notPart, elfVars, faults, sectorVars, mapVars, todo,
                   calling, disk, partition, logged>>

\* The entry is where the boot sector put it.
MBR_DetectPartition ==
    /\ at = "partition" /\ InC
    /\ partition' =
          IF machine.id < 128 THEN 0
          ELSE IF ram[PARTITION_ENTRY_SEGMENT * 16] = Sector!TABLE_ENTRY THEN machine.entry
          ELSE GARBAGE
    /\ at' = After(at)
    /\ UNCHANGED <<notPart, elfVars, faults, sectorVars, mapVars, todo,
                   calling, disk, logged>>

\* The first thing it does is read a sector to MEMORY_FAT_ADDR.
FAT_Initialize ==
    /\ at = "fat" /\ InC
    /\ ram' = [ram EXCEPT ![MEMORY_FAT_ADDR] = DRIVER]
    /\ \/ at' = After(at) /\ UNCHANGED faults
       \/ at' = "halted" /\ faults < MaxFaults /\ faults' = faults + 1
    /\ UNCHANGED <<notPart, elfVars, loader, block, es, count, tries, failed, cut,
                   mapVars, todo, calling, disk, partition, logged>>

\* Memory_Detect, beside its calls of BIOS.
Memory_Detect ==
    /\ at = "detect" /\ InC
    /\ \/ Map!Keep /\ at' = IF detect' = "undefined" THEN "undefined" ELSE at
       \/ Map!Done /\ at' = After(at)
    /\ UNCHANGED <<notPart, elfVars, faults, sectorVars, todo, calling, disk,
                   partition, logged>>

\* The kernel is entered: its start() first calls HAL_Initialize.
LoadKernel ==
    /\ at = "elf" /\ InC
    /\ \/ ELF_Read /\ UNCHANGED <<at, todo>>
       \/ pc = "loaded" /\ at' = "gdt" /\ todo' = Cpu!i686_GDT_Load
          /\ UNCHANGED vars
       \/ pc = "failed" /\ at' = "halted" /\ UNCHANGED <<vars, todo>>
       \/ pc = "undefined" /\ at' = "undefined" /\ UNCHANGED <<vars, todo>>
    /\ UNCHANGED <<notPart, sectorVars, mapVars, calling, disk, partition,
                   logged>>
-----------------------------------------------------------------------------
(* The kernel                                                               *)

\* i686_IRQ_Initialize turns interrupts on at its end, if it has found a
\* controller: see module Interrupts.
HAL_Initialize ==
    /\ at = "gdt" /\ InC
    /\ at' = "log"
    /\ \E on \in BOOLEAN : cpu' = [cpu EXCEPT !.interrupts = on]
    /\ UNCHANGED <<machine, keyboardVars, elfVars, faults, sectorVars,
                   mapVars, todo, calling, disk, partition, logged>>

LogRegions ==
    /\ at = "log"
    /\ IF Len(logged) < Len(g_MemRegions)
       THEN logged' = Append(logged, g_MemRegions[Len(logged) + 1]) /\ UNCHANGED at
       ELSE at' = "loop" /\ UNCHANGED logged
    /\ UNCHANGED <<notPart, elfVars, faults, sectorVars, mapVars, todo,
                   calling, disk, partition>>
-----------------------------------------------------------------------------
\* The endless loops, the BIOS that starts anew, and what no one can say.
Ends == {"loop", "halted", "restarted", "undefined"}

BootWork ==
    \/ Stage1 \/ Stage2 \/ Instruction \/ EnableA20 \/ EnterStart
    \/ CallBios \/ Bios \/ BackInC
    \/ DISK_Initialize \/ MBR_DetectPartition \/ FAT_Initialize \/ Memory_Detect
    \/ LoadKernel \/ HAL_Initialize \/ LogRegions

BootNext == BootWork \/ Controller \/ Press \/ Reboot

\* The processor and the keyboard controller go on; no one has to press a key.
BootSpec ==
    BootInit /\ [][BootNext]_bootVars /\ WF_bootVars(BootWork) /\ WF_bootVars(Controller)
-----------------------------------------------------------------------------
BootTypeOK ==
    /\ machine \in Machines
    /\ Sector!TypeOK /\ Keyboard!TypeOK /\ Map!TypeOK
    /\ at \in {"stage1", "entry", "a20", "switch", "gdt", "log"} \cup Ends \/ Part(at)
    /\ calling \in {"no", "entering", "leaving"}
    /\ calling # "no" => at \in {"disk", "detect"}
    /\ disk \in {"unknown", "known", "failed"}
    /\ partition \in {UNKNOWN, GARBAGE} \cup Nat

\* boot.asm:121-138; see module BootSector.
StageTwoWhole == Sector!StageTwoWhole

\* boot.asm:299-334; see module BootSector.
GivesUpLate == Sector!GivesUpLate

\* entry.asm:73-105; see module KeyboardController.
PortKept == Keyboard!PortKept

\* The file system is looked for where the partition begins that the boot sector
\* was told of, or at the start of a floppy disk (mbr.c:27-42): the entry is
\* still there when it is read.
PartitionIsTheBooted ==
    at \in {"fat", "detect", "elf", "gdt", "log", "loop"} =>
        partition = IF machine.id < 128 THEN 0 ELSE machine.entry

\* Every instruction runs in a segment of the width it was assembled for, C code
\* finds flat segments, and BIOS finds real mode with segments at 0 (entry.asm,
\* x86.asm:1-48, gdt_asm.asm).
CodeFits ==
    /\ todo # <<>> => (Head(todo).bits = 32) = cpu.cs.big
    /\ (InC /\ (Part(at) \/ at \in {"gdt", "log", "loop"})) => Cpu!FitsC
    /\ at = "stage1" \/ (calling = "entering" /\ todo = <<>>) => Cpu!FitsBios
    /\ at \in {"log", "loop"} => cpu.table = "kernel" /\ Cpu!Flat(cpu.es)

\* Whenever an interrupt may come there is someone to handle it: BIOS in real
\* mode, and the kernel once HAL_Initialize is done (x86.asm:21, 28).
InterruptsHaveAHandler ==
    cpu.interrupts => ~cpu.protected \/ at \in {"log", "loop"}

\* The kernel logs the regions that BIOS reported, all of them and in their
\* order, but for one that came with a continuation of 0 (memdetect.c:19-33,
\* kernel/main.c:27-33).
RegionsReachKernel == at = "loop" => logged = Map!Reported

\* The boot comes to an end or waits for a key, whatever fails.
BootEnds == <>(at \in Ends \/ loader = "key")
=============================================================================
