# A verification development of nanobyte_os

TLA+ modules that model the parts of nanobyte_os with control flow worth checking, TLC
configurations that check them on small instances, and theorems about them that TLAPS
proves for every value of the constants. Paths below are relative to the repository
(`src/bootloader/stage2/fat.c` and so on are under its own `src` directory);
`PROJECT.json` gives, for every definition, the lines it translates.

## 1. The system

nanobyte_os is an x86 boot loader in two stages, a 32-bit kernel and the first parts of
a C++ core library. Everything runs on one processor; the only concurrency is between
the running program and hardware interrupts in the kernel. The only state that outlives
a call is memory; nothing is written to the disk.

| Part | State | Operations | Talks to |
|---|---|---|---|
| Boot sector, `stage1/boot.asm` | geometry, boot partition, block list | entry, disk_read | BIOS int 13h; jumps to stage 2 |
| Stage 2 entry, `entry.asm`, `x86.asm` | - | A20, GDT, protected mode, port and BIOS calls | all of stage 2 |
| Disk and partition, `disk.c`, `mbr.c` | DISK, Partition | Initialize, ReadSectors, DetectPartition | BIOS; called by fat.c |
| FAT driver, `fat.c` | FAT_Data: boot sector, table cache, root directory, table of open files | Initialize, Open, Read, ReadEntry, Close, NextCluster | Partition_ReadSectors; called by elf.c |
| ELF loader, `elf.c`, `memory.c` | load buffer, memory | ELF_Read | FAT_Open / Read / Close; called by main.c |
| Memory detection, `memdetect.c` | table of regions | Memory_Detect | BIOS E820; boot parameters |
| Stage 2 console and printf, `stdio.c` | cursor, screen | clrscr, putc, puts, printf | VGA memory, port E9 |
| Kernel start, `main.c`, `hal.c`, `debug.c` | - | HAL_Initialize, logf | the parts below |
| Interrupts, `gdt.c idt.c isr.c irq.c i8259.c` | IDT, handler tables, driver, mask | Initialize, registration, Mask / Unmask, EOI | 8259 controllers, processor |
| Kernel console and printf, `vga_text.c`, `stdio.c`, `vfs.c` | cursor, screen | putc, fprintf, VFS_Write | VGA memory, port E9 |
| Core library, `libs/core` | cursor, screen | TextDevice::Format / Write, VGATextDevice | character devices |
| Host FAT tool, `tools/fat`; build scripts | - | build time only | - |

What makes each part correct, and where it is hard:

- **FAT table cache.** A window of FAT_CACHE_SIZE sectors over the table, with entries
  of 12, 16 or 32 bits. The position must say what the window holds after fills that
  fail part-way; a 12-bit entry may straddle sectors and the window.
- **FAT driver.** A one-sector buffer per open file must hold the sector the position
  is in, across sector and cluster boundaries, failed reads, close and reopen. The
  root directory is one shared handle that every walk uses and that clients may open
  too. Handles must be returned on every error path.
- **Disk.** The cylinder, head and sector of a request travel through a struct of
  small fields and packed registers. A read is tried three times, with a reset in
  between that may itself fail.
- **ELF loader.** Headers are read through a buffer with ad-hoc position arithmetic;
  FAT_Read may return short; a truncated file must not be started.
- **Interrupts.** The controllers are programmed by sequences of port writes during
  which interrupts may come; each handled line must be ended at the right controllers;
  the mask the driver remembers must be what the controllers have.
- **Formatted output.** A state machine that is written three times; the cursor, tabs
  and scrolling at the edges of the screen.
- **Boot order.** Memory that is shared by address only: the block list, the stage 2
  image, the load buffer.

## 2. Modules

| Module | Models | Extends |
|---|---|---|
| `FatTable` | FAT_NextCluster, FAT_ReadFat | |
| `FatTableProofs` | theorems on FatTable | FatTable |
| `Fat` | FAT_Initialize, Open, FindFile, OpenEntry, Read, Close | |
| `FatProofs` | theorems on Fat and OpenPath: types, handles, positions, buffers, reads, and what a path finds | OpenPath, PathProofs |
| `SectorDevice` | abstract: what a caller of the disk is promised | |
| `Disk` | disk.c, mbr.c, the disk calls of x86.asm | |
| `DiskProofs` | theorems on Disk, and the refinement's safety half | Disk |
| `Path` | FAT_GetShortName and the string helpers: what FAT_Open makes of a path | |
| `PathProofs` | theorem on Path: the loop finds the components | Path; instance of Recursion |
| `OpenPath` | FAT_Open called with a text | Fat, Path |
| `ElfLoader` | ELF_Read, memcpy, memset | |
| `BootSector` | stage1/boot.asm | |
| `KeyboardController` | EnableA20 of entry.asm, the keyboard controller | |
| `Processor` | descriptor tables, segments and the mode switches of entry.asm, x86.asm, gdt.c | |
| `MemoryMap` | Memory_Detect, the E820 call | |
| `Boot` | the boot from power-on to the kernel's last loop | ElfLoader; instances of the four above |
| `Interrupts` | hal.c, idt.c, isr.c, irq.c, i8259.c, the controllers | |
| `InterruptsProofs` | theorems on Interrupts | Interrupts |
| `Console` | the three text screens | |
| `Printf` | the three printf's, puts, print_buffer and logf, over Console | Console |
| `PrintfProofs` | theorems on Printf and Console | Printf; instances of Recursion |
| `BootProofs` | theorems on ElfLoader, KeyboardController and Boot | Boot |
| `Recursion` | induction over the naturals, and functions defined by recursion | |
| `KernelFiles` | the kernel files that the runs load | |
| `MC*` | constants and alternative definitions for TLC | |

Components meet at contracts. `Fat` takes FAT_NextCluster as what `FatTable` shows it
returns (the table's entry, or anything after a failed fill), and a read of the disk as
what `SectorDevice` allows (the sector asked for, or a failure), which `Disk` is shown
to implement. `ElfLoader` takes FAT_Read as `Fat` shows it behaves: short at the end of
the file or after a failure, a stale buffer when the failure falls on the last sector of
a request, arbitrary contents after the cluster chain was lost. Composing the disk stack
by contract and not by INSTANCE keeps each state space small enough to let every loop
turn and every failed read be a step. The boot order is a real composition: `Boot`
instantiates the parts over one machine, one memory and one count of failures.

### FatTable

`FatCache` is the cache as bytes, `FatCachePosition` the sector it starts at, `cluster`
and `next` the argument and the result of the last call. One action is one call of
FAT_NextCluster: `NextClusterCached` when the sector of the entry lies in the window,
`NextClusterRefill` when it does not; `ReadFat` and `ReadFatFails` are what FAT_ReadFat
leaves in the cache, a failure after any number of its sectors arrived; the cache starts
with whatever was in memory (`LeftInMemory`). The load of 8, 16 or 32 bits reads
wherever the offset points, behind the cache included, where FatCachePosition is the
next member of FAT_Data. Bytes are bytes here, since the properties are about which byte
is read; in the other modules contents are abstract.

### Fat

`fd` is FAT_FileData of every handle and of the root directory: Opened, FirstCluster,
CurrentCluster, CurrentSectorInCluster, Position, Size, and Buffer as the number of the
sector it holds. `pc` with `cur`, `name`, `rest`, `entry` and `left` is the call in
progress. `Initialize` and `InitializeFails` mount; `Open` begins a walk, `FindFile`
reads one directory entry of it, `NotFound`, `OpenEntry`, `OpenFails`, `OutOfHandles`
and `OpenReadFails` are how the search of a component ends; `Read` begins a client's
FAT_Read and `ReadTurn` is one turn of its loop (FAT_FindFile's entries are read by the
same `Turn`); `Close` is FAT_Close. Data is counted in units of a directory entry; the
content of a sector is what the volume says it holds. The history variables `path` and
`until` are the path being opened and the position a read should stop at, `stale` the
files whose buffer was not filled for their position, `astray` those whose cluster does
not come from a good table, `doubt` whether the running call met a fault.

A component in the middle of a path may turn out to be a file. The comments there say
"check if directory" and "not a directory" (`fat.c:492`, `fat.c:495`), and `Resolve`, which
says what a path names, refuses to go through a file; but the test (`fat.c:493`) is never
true, so the actions search the file's data as entries, as the code does, and the FAT16
volume has a file whose data look like one. OpenResolves excepts such a path by name
(`ThroughFile`). It excepts as well a path that ends in a slash behind a file: cutting the
text drops the slash, and both sides open the file.

What the properties except is named in their formulas. Of the exceptions, five have a run
of their own that shows the code's behaviour, the findings of section 3. The others have
none: `ThroughFile` (without it `fat_clients` fails), the late terminator (`Misread` in `Fat`,
`Firm` in `Path`), the failure that no count reports (`silent`), the blocks cut short by a
repeated read (`cut`), and a FAT32 root directory past its first cluster (in `astray`).

### Path and OpenPath

`Path` is FAT_Open's view of a path: skip a slash, find the next one (`strchr`), copy the
component into a buffer that keeps what an earlier, longer component left (`Terminated`),
and make a short name of it (`GetShortName`: the position of the dot, upper case, spaces).
`Take` is a turn of the loop over what FAT_Open keeps in its locals (`Walks`), `TakeAll`
the loop, a recursive function, and `Walked` what it comes to. Its reference is written
apart from it: `Split` at slashes, then `Plain` names in upper case; `Meant` says which
texts name what. `OpenPath` is `Fat` with FAT_Open taking a text (`given`), so that the
walk over a volume and the reading of the text are one run.

### Disk and SectorDevice

`disk` is the DISK record made of the parameters BIOS reported, `lba` and `tries` the
call in progress, `Registers` the packing of x86_Disk_Read (eight bits of cylinder in
CH, two more in CL beside six of sector, head in DH) and `Addressed` what BIOS makes of
them. One step is one BIOS call: `ReadSucceeds`, `ReadFails`, `Reset`. BIOS is external:
a read fails or succeeds, and a drive that failed keeps failing until it is reset.
`SectorDevice` is the abstract promise: every request is answered, once, by the sector
asked for or by a failure (and, for a sector the drive does not have, perhaps by some
data). `Device` in `Disk` is the refinement mapping.

### ElfLoader

The file is a sequence of units, each with a number of its own, and `memory` says which
unit is at each address, so that loading correctly is an equation between addresses and
file offsets. A step is one FAT_Read and what the code does with its result:
`ReadHeader`, `SeekTable`, `ReadTable`, `NextSegment`, `Clear`, `Skip`, `Copy`. The count of
`SeekTable`'s read is what the file says, or the remainder of a negative number, and goes
into a buffer of one sector (`elf.c:43`): what such a read overwrites behind the buffer is not
modelled. The 16-bit count of memcpy and memset is a remainder by `NUM`. `silent` records that some
failure was not reported by a short count. A kernel file is one a linker makes
(`ImageOk`): the segments it loads have places of their own in memory, as kernel/linker.ld
gives them. It may be cut off anywhere.

### BootSector, KeyboardController, Processor, MemoryMap and Boot

`BootSector` is the first stage. `ram` says what lies at the addresses a sector may be
read to: a sector of the disk, the boot sector's own code, the partition entry, or the
FAT driver's data. A step is one BIOS call and what follows it; `block`, `es`, `count`
and `tries` are si, es, the count in the packet, and di. A read over the boot sector
itself ends as `undefined`. With the extensions BIOS may leave in the packet how many
sectors it moved, which the next attempt asks for; `cut` remembers when that lost a
sector, and StageTwoWhole excepts it. A machine's `ends` are the sums of the counts of its
block list, so that the place of each sector of stage 2 is a number and no recursion is
needed to say where it lies.

`KeyboardController` is EnableA20 line by line against a controller that has one byte of
buffer in each direction and works at its own pace; a byte is its bits 0 (the
processor's reset line) and 1 (A20). A key may be pressed until the keyboard is disabled.

`Processor` holds segment registers as what was loaded from a descriptor, so that the
width of the code that runs, and what C code and BIOS may assume, are facts about
the state. A program is a sequence of instructions with the width each was assembled
for: the entry of stage 2, the two macros around every BIOS call, and the kernel's
i686_GDT_Load. The kernel's descriptors are built by the macros of gdt.c and decoded as
the processor would.

`MemoryMap` is Memory_Detect over a BIOS that tells the end of its list by a
continuation of 0 or by failing after the last region. The table is filled without a
look at its size, so one region too many is `undefined`.

`Boot` puts them in order. `at` says how far the boot is, `calling` whether a BIOS call
of stage 2 enters or leaves real mode, and `todo`, the processor's, the instructions up
to the next C code or BIOS call. start() is `Parts`: DISK_Initialize,
MBR_DetectPartition, FAT_Initialize, Memory_Detect, ELF_Read (`ElfLoader`, which the
module extends). The partition entry that the boot sector saved and the FAT driver's data
share the address of the same segment, which is why the order of the parts matters.
HAL_Initialize is one step here and the module `Interrupts` elsewhere. `MachineOk` is what
the build scripts and the BIOS provide: block lists whose counts fit the single byte they
are stored in, drives within BIOS's limits, sectors the drive can be asked for by a header
that agrees with it where that matters (`Addressable`), and a last
sector lies below the partition entry and the FAT driver's data, for otherwise stage 2
would write over itself; `PlaceAssumption` names the addresses in question.

### Interrupts

A step of the kernel is one port write or the code between two. `pc` follows
HAL_Initialize; `todo` are the port writes the driver call in progress still has to make
(`Out` makes one); `frame` is the interrupt being handled. All gates are interrupt gates
(isrs_gen.c and idt.c), so no interrupt comes during another and no stack of frames is
needed. The controllers are external, with the behaviour the code relies on: the four
initialization words, the mask, fixed priority, in-service bits, the cascade, and a
request that has vanished by the time it is acknowledged. A panic halts the processor with
interrupts off, so the frame it came from stays where it was and nothing more is written
(`pc = "halted"` ends the handling). After start-up, drivers
register handlers and mask and unmask lines in any order (the code offers the calls; the
only registration, `kernel/main.c:42`, is commented out). A registered handler does nothing
in the model. One that masked or unmasked a line could come between the read and the write
of g_PicMask in a driver call (`i8259.c:124`, `i8259.c:129`, and `i8259.c:63` reads it once
more), and one that printed, as the commented-out `timer` would, could come in the middle of
a putc: neither is among the behaviours, here or in `Printf`.

### Console and Printf

Stage 2, the kernel and the core library hold the same state machine three times, with
small differences: where a character goes besides the screen, and that a core library
device may fail. `Console` is putc with newline, carriage return, the loop of a tab, and
scrolling; in `Printf` a step handles one character of the format or writes one character.
A call is a list of `parts`, each some plain text and a format: printf and puts have one,
print_buffer is one text of hexadecimal digits, and logf has three (color, module and the
caller's format, reset). The reference is written separately: `Item` cuts a format by its
grammar, `Meaning` joins what each item means with the arguments that go with it
(`ArgumentsFor`), and `Page` lays all that was put on an endless page, of which the screen
must show the end. A tab counts on that page as the spaces that its loop emits, which are
fewer than the column asks for since the loop reads the column it moves (`stdio.c:88`): no
document says how many they should be, and the width of a tab is not checked. print_buffer
is given less than 65536 bytes (`BufferAssumption`): its index has 16 bits (`stdio.c:309`), and
from there on its loop does not end.

## 3. Runs

Every module's passing run checks its type invariant (for `Fat`, `fat_faults` does). The
last column names the bounds.

| Run | Question | Bounds |
|---|---|---|
| `fat_table` | Does the cache hold what its position says, and is the answer the table's entry, for any order of clusters and any failed fill? | 15 clusters, cache of 2 sectors of 4 bytes: a FAT32 table of eight windows, FAT12 entries that straddle sectors and windows, end marks in each format; a failed fill brings any number of its sectors |
| `fat12_straddle` | finding | as above |
| `fat_faults` | Buffers, handles, end of file and short counts, with one failed read anywhere | 1 handle, 2 units per sector, 2 sectors per cluster, a FAT16 and a FAT32 volume with files of more than one cluster and a subdirectory |
| `fat_clients` | Reading and resolution of paths, and return of every call, with other files open | 2 handles, FAT16, no failures; ten texts, with and without slashes at their ends, in small letters and capitals, with an extension left open, with a file in the middle of the path, and three of them with a character left over in FAT_Open's buffer |
| `fat_root_stale`, `fat32_end` | findings | as the two above |
| `disk` | Registers, retries and refinement | four drives at the edges of what BIOS reports; up to 4 failures of reads and resets in a call, of which three make it give up |
| `boot` | The whole boot: is stage 2 whole when it is entered, does it find the booted partition, does every instruction run in the mode it was made for, is the kernel in place, does it get the memory map, and does the boot end? | six machines and five kernel files (below), up to 3 failures of the disk anywhere, one key press, a keyboard controller of any speed; sectors of two paragraphs, tables of two regions, header and table entry of one unit, load buffer of 4 |
| `elf_64k` | finding | a kernel with a segment larger than the load buffer, no failures |
| `interrupts` | Ends, masks, numbers and delivery | lines 1 and 8 (one per controller), 3 requests or spurious interrupts |
| `printf` | Is the output what the format means, and does the screen show it? | printf, puts, print_buffer and logf; formats of up to 3 characters, 4 after a percent sign, over one character of each class, and a few longer ones; 3 calls; screen of 4 by 2; int of 5 bits, long long of 8 |
| `device_negative` | finding | as above |

The machines of `boot`: a floppy disk with stage 2 in two pieces; one whose drive has
another geometry than the file system's header; a hard disk with the BIOS extensions;
one without them whose memory map fills the table exactly; one with a region too many;
and one whose stage 2 is so large that it overwrites the boot sector while that runs.
The kernel files: an ordinary one, one with its table in the header's sector, one with
the table at the end, one larger than the buffer, and one that is cut off. In the run the
machine does stop, in the kernel's loop, in a halt, by a restart or where the code's
behaviour is undefined (`Ends`), so its cfg turns the check for deadlock off; BootEnds
says that it stops nowhere else.

Why these bounds are enough to be interesting: every loop of the code turns at least
twice in some behaviour, sectors, clusters, cache windows and screen lines are crossed,
numbers exceed their words, and every action, the error paths among them, is taken.
MaxFaults bounds the failures of a behaviour, not where they fall. Two handles suffice
for one client's file to survive another's walk; with three the same steps repeat.
MaxRequests bounds requests and spurious interrupts together: without it an endless
stream of line 1 starves line 8 by the controllers' fixed priority, which is their
design and not a fault of the code. The proofs lift the bounds where they exist (section
5).

The `violation` runs show where the code does not do what a comment beside it says:

- `fat12_straddle`: a 12-bit entry whose first byte is the last of the cache takes its
  second byte from FatCachePosition, the member behind the cache.
- `fat_root_stale`: FAT_Close of the root directory rewinds the position but not the
  buffer, so the next FAT_Open may overlook a file.
- `fat32_end`: a FAT32 end mark is not recognised (`fat.c:349`), so a subdirectory is read
  past the end of its chain. The root directory runs on too, by other lines
  (`fat.c:329-338`, which look for no end of a chain); the property speaks of the handles and
  not of the root.
- `elf_64k`: memcpy's 16-bit count makes a full piece of 64 KiB into 0 bytes.
- `device_negative`: TextDevice::Write of a negative number divides the signed number.

The properties, run by run:

- `fat_table`: CacheCoherent relates position and bytes; NextClusterCorrect states the
  answer against `TableEntry`, a direct reading of the table.
- `fat_faults`: BufferHoldsPosition (the buffer is the sector the position is in,
  except after a failed read or bad table, or after the close of the second finding),
  HandlesAccountedFor (the open handles are exactly the clients' and the walk's own
  one), NoReadPastEnd, ReadsWhatIsThere (a read stops where the request or the file
  ends; a shorter count has a failed read or a bad table behind it).
- `fat_clients`: HandlesAccountedFor with two handles, PathIsMeant (the names FAT_Open
  looks for are those the text means, whatever is left in its buffer), OpenResolves
  against a declarative path resolution but for paths that go through a file, CallReturns.
- `disk`: AddressesTheSector, TwoFailuresAreHidden, ImplementsDevice.
- `boot`: of the loader, LoadedInPlace, CutOffIsRejected, OnlySegmentsTouched. Of the
  boot, StageTwoWhole (from the jump on all of stage 2 lies in memory in order and stays
  there), GivesUpLate (the boot sector asks for a key only after three failed reads or a
  failed reset), PortKept (EnableA20 opens line 20 and touches no other bit of the port,
  unless a key came in between), PartitionIsTheBooted (the entry is read before the FAT
  driver puts its data there), CodeFits (each instruction runs in a segment of its
  width; C code finds flat segments and BIOS finds real mode), InterruptsHaveAHandler,
  RegionsReachKernel (the kernel's log has the regions of BIOS, but for one that
  comes with a continuation of 0), BootEnds.
- `interrupts`: NothingLeftInService (outside a handler no in-service bit is left set,
  so no line is blocked), MaskIsWritten (the mask remembered is the controllers' once
  no write is outstanding), IrqIsTheLine (a handler is called with the line that was
  acknowledged), OnlyUnmaskedLines, RequestsAreTaken. The last speaks of lines that
  can reach the processor: a line from 8 up passes through line 2 of the first
  controller, which start-up masks with all others and no code unmasks; in the model
  drivers may unmask line 2 as well.
- `printf`: ScreenShowsOutput, OutputIsMeaning.

### Fairness

The system is single-threaded, so a call that was begun goes on: `Fat` and `Disk` assume
weak fairness of the work of the call in progress, and none of the clients' decision to
call. `Interrupts` assumes weak fairness of HAL_Initialize, of the port writes of a
driver call begun, and of the handling of an interrupt, including the processor's
delivery of one that the controllers signal while interrupts are enabled; none of
devices or clients. `Boot` assumes weak fairness of the processor's next step and of the
keyboard controller, none of key presses, neither those that race with EnableA20 nor the
one that a failed boot sector waits for. `FatTable` and `Printf` state safety only and
assume none.

## 4. Hazards

`PROJECT.json` lists 39 places, each with its line and the properties aimed at it. The
main groups: failed reads in the middle of a loop (partial failure), buffers and cache
windows that outlive what they describe (stale state), memory that two parts of the boot
share by address only (ordering, protocol sequences), devices that answer at their own
pace (interleaving), interrupts between port writes (interleaving), and field widths
(numeric edges). Six have no property, and their notes say why: the properties
near them except these cases or do not reach them. They are a file searched as a directory, a FAT32 root directory
beyond its first cluster, segments over the second stage, the memory map's region with a
continuation of 0 and the one after a full table, the count a failed extended read leaves
behind, and a header that disagrees with the drive. Other notes say where a property covers
its hazard in part only.

## 5. Proofs

Each theorem holds for every value of the constants, if the module has any, that satisfies
the module's named assumptions; TLC evaluates these on every run.

**FatTableProofs.** Assumptions: sector sizes are positive multiples of four
(`SizeAssumption`), every window lies on the volume and its sector numbers do not wrap
(`WordAssumption`), the table consists of bytes (`TableAssumption`). The inductive
invariant is TypeOK /\ CacheCoherent /\ NextClusterCorrect: the answer is right only
since the window was. The argument is byte arithmetic: a fill that read k sectors leaves
k * SECTOR_SIZE bytes of the table, an entry's bytes are in the window if its sector is
and it does not straddle, and the value for "nothing loaded" cannot be mistaken for a
window. Theorems: TypeCorrect, CacheAlwaysCoherent, NextClusterAlwaysCorrect.

**FatProofs.** *Types and handles.* Assumptions: `FatAssumption`, and `VolumeAssumption`
that volumes are well formed (chains of existing clusters, first clusters of entries that
belong to them). Neither invariant is inductive alone: a step of the walk opens the entry
that the search has found, so the invariant adds that the entry found is one of the
volume's, that nothing is held before mounting (`Walking`), and that an open file's first
cluster begins a file of the volume (`OpenedFromEntry`), without which the types of
positions and clusters would not be kept. Theorems: TypeCorrect,
HandlesAlwaysAccountedFor, and OpenTextAccountsForHandles for paths that are texts.

*Reading.* What FAT_Read keeps is spread over five fields that move one at a time, and the
three properties need each other: BufferHoldsPosition at the next sector needs the cluster
and the sector within it now, a cluster needs the position not to pass the chain's end,
and that needs a read not to pass the file's length. The inductive invariant, beside the
one above, is `Course`:
- `OnCourse`, of an open file that did not follow a bad table: its size is the entry's, or
  for a directory 0 until the end of the chain has been written down as the size
  (`Sized`), and below the end of the chain CurrentCluster is the link of the chain that
  the position's quotient names, CurrentSectorInCluster its remainder and the buffer the
  sector of the two, if the last read succeeded (`OnChain`);
- `RootOnCourse`, of the root directory: sector by sector from its first one, to the end on
  FAT12 and FAT16 and on FAT32 as far as the first cluster goes, beyond which the code
  takes the wrong sectors and the model counts the directory as astray;
- `Reading`: what a running FAT_Read has left, added to the position, stays in the file,
  and `until` is still the least of that and the file's length.

The arithmetic (StepWithin, StepByOne, Below) is that of a step that stays within a sector
or cluster or uses it up, for any sector and cluster size; ChainFacts and ChainPosition tie
it to chains; CourseStays, CourseNextSector, CourseNextCluster and CourseEnds are the ways
a turn of the loop can go, RootTurns the same for the root directory, and one lemma per
action follows. Theorems: BufferAlwaysHoldsPosition, NeverReadsPastEnd,
AlwaysReadsWhatIsThere (an action property: the step that ends a read without a fault ends
it at `until`).

*What a path finds.* OpenResolves compares the step that ends FAT_Open with `Resolve`, a
fold over the components. The invariant `Walk` says how far a walk without a fault is: the
path is the components that are gone, the one looked for and the rest; those gone name the
directory the walk is in (`Reached`); no entry before the position has the name; and an
entry found is the one `Component` names. What it needs of `Resolve` is that one component
more is one `Component` more (ResolveStep), which is the induction over the path;
ComponentFound and ComponentMissing are the search of one directory, and FindFileAdvances
takes from `Course` that reading an entry moves the position by one and shows that entry.
`Component` refuses to go through a file, the code does not: the invariant speaks only of
paths that do not go through a file (`ThroughFile`), and BehindFile that a walk which has gone
on behind a file is of no such path. Excepted as well, as in the property (`doubt`), is a
walk that met a fault or that began without a free handle, with a root directory that is
stale or not rewound, or with a last component that the late terminator leaves in doubt
(`Misread`). OpenAlwaysResolves is of
`Spec`, OpenTextAlwaysResolves of `OpenSpec`: given a text, FAT_Open is the same action on
what its loop makes of the text.

*What a text means.* Further assumption: `OpenPathAssumption`, that texts have no NUL and
the buffer has room for them, which the code relies on without a look, and that their short
names are names of the model. `WalksGiven` is the invariant: as long as FAT_Open runs on a
text, `path` is what its loop makes of that text. PathProofs shows what that is. Theorem:
PathAlwaysMeant.

**PathProofs.** Assumption: `PathAssumption`, that names and extensions have at least one
character. The loop cuts a text at one slash after the other and overwrites one buffer;
`Components` cuts it at all slashes at once, by counting them, and drops empty ends.
SplitIs gives both one form, a sequence of places with none of the separators in between
(`CutBy`); ComponentsAre is the same for components. `Stage` is what holds after n
turns: the rest of the path begins at the n-th place, n short names are right, and the buffer
is clear behind the last component if it is to be (`Quiet`). StageStep is one turn, and
StageAll the induction. Within a turn, NameMeant shows that the text in the buffer, which
may have a character too many behind the last component, gives the same short name as
the component: it is cut off by the name's length, by the extension's, or is NUL. Theorem:
WalkedMeant.

**DiskProofs.** SectorRoundTrip is the arithmetic of LBA and CHS, for any geometry;
AlwaysAddressesTheSector adds the packing into registers, for every geometry BIOS can
describe. TwoFailuresAlwaysHidden is an action property, from an invariant that counts
the failures of the call in progress. ImplementsDeviceSteps is the safety half of the
refinement: initial states map to initial states and each step maps to a step of
SectorDevice or to none.

**InterruptsProofs.** Assumption: no device asks on line 2 (`DeviceAssumption`). That
nothing is left in service when no interrupt is handled does not follow from the end of the
handler alone: what is in service during it is determined by the line that was acknowledged
(`InService`, `Serving`) and each of the writes that remain ends one of those lines
(`Ending`). The masks agree because the writes of a driver call in progress are known
(`Masking`), and the offsets and the cascade because i8259_Configure has told them in this
order (`Configured`, and `Made` for each write of it). Theorems: TypeCorrect,
NothingIsLeftInService, MaskIsAlwaysWritten, IrqIsAlwaysTheLine, OnlyUnmaskedLinesAlways
(an action property).

**PrintfProofs.** Assumptions: `ConsoleAssumption` (a screen of at least one cell; NUL,
newline, tab and return are not printable) and `PrintfAssumption` (sizes of numbers, types of
what callers pass, and that digits, signs and logf's brackets are printable).
- *The screen.* `Showing` says that the screen is the end of the page that `put` makes. A
  character does the same to the page's last lines as `Settle` does to the screen: with
  room below, at the last line, at the last column and at both (PutCharShows), so it is
  inductive by itself, together with the bound of a tab's counter.
- *The machine.* A conversion is consumed a character at a time, the meaning is given item by
  item. `Pending` is what the machine has consumed of the item it is in, as its state and
  length tell it, and `Ahead`, that and the rest of the format, is what its output
  depends on. The invariant says that the arguments left are those of `Ahead`
  (`Fitting`), and that what is written, what is queued, and what `Ahead` and the parts to
  come mean (`Owed`) are together what was meant (`Told`); after a failure, that a strict
  beginning was written. AheadItemLength decides when the next character ends the item:
  a third "l" does, as the character of a conversion that does not exist.
- *Numbers.* Division yields the digits from behind, one remainder after the other;
  `Numeral` takes each from a power of the radix. DigitsAreNumeral shows them equal by
  induction over the number, for any width and the radixes 8, 10 and 16; the least
  negative number needs that the bits of its negation are its own (SignedDigitsAreText).

Theorems: TypesHold, ScreenAlwaysShowsOutput, OutputAlwaysIsMeaning.

**Recursion.** The references of these properties recurse over texts, formats, pages and
numbers. The library's induction and recursion theorems take operators as parameters,
which the installed provers cannot instantiate. Two facts take their place: SetInduction,
induction as a statement about a set of naturals, from the library's well-founded minimum
principle; and the lemma FunctionObeys, in a module whose operators are CONSTANTS, so that an instance
with a name gives them for each recursive function. A function that looks itself up only
at arguments of lower rank is built from functions that obey its definition up to a rank
(SomeObeysBelow), which agree (OneObeysBelow). Definitions that are reasoned about are
recursive functions for that reason, and no module of the proofs has a recursive operator.

**BootProofs: the loader.** Assumptions: `SizeAssumption` and `ImageAssumption`; that the
loaded segments do not overlap is needed, since loading the second of two that do would
undo the first. LoadedInPlace speaks of the end; the inductive invariant says what holds
during the load: every segment before the i-th is in place (`Done`), the i-th is cleared
while the loader skips to it (`Skipping`), and while it is copied its first filesz - left
units are there, with position, target and left summing up to the segment's ends
(`Copying`). `Own` is the type invariant without the count of failures, which in `Boot`
other parts raise as well, so the lemmas carry over to the whole boot. Theorems:
TypeCorrect, AlwaysLoadedInPlace, CutOffAlwaysRejected, OnlySegmentsEverTouched.

**BootProofs: address line 20.** No assumptions. PortKept speaks of the end of EnableA20,
but what the port is then was read from it five lines earlier; the invariant adds what the
controller may still have to take at each line (`A20Protocol`), and that the port is as it
was until the data arrive and what was read, with bit 1, from then on (`A20ReadBack`). The
waits for an empty input buffer are what makes `A20Protocol` inductive. Theorems:
A20TypeCorrect, A20PortAlwaysKept.

**BootProofs: the boot.** Assumptions: MachineAssumption, PlaceAssumption and the
loader's. The invariant `Booting` is a conjunction of one part per question, and each step of the boot
is a step of one part that leaves the variables of the others alone.
- The invariant of address line 20 carries over (KeyboardStep); `Calm` adds that the
  controller has nothing left to take once EnableA20 returned, without which it could reset
  the processor in the middle of any later part. PortAlwaysKept.
- `Attempts`: the attempts made and those left at a block are three. AlwaysGivesUpLate.
- `Order` and `Modes`: at each part of the boot, how much of the running sequence of
  instructions is still to come, and with each remainder the mode and segments reached so
  far (`Entering`, `Protecting`, `Unprotecting`, `Loading`). CodeFits and
  InterruptsHaveAHandler speak of every instruction, and only the remainder says which one
  is next. CodeAlwaysFits, InterruptsAlwaysHandled.
- `Collecting` and `Logging`: the table is a prefix of what BIOS tells, the continuation
  says how long, and the log is a prefix of the table. RegionsAlwaysReachKernel.
- `Sectors`, `Counters` and `Handed`: the blocks before the one at hand lie in memory, es
  is where the next one goes, stage 2 is entered from the loader alone, and the partition
  entry is untouched from the boot sector's first instructions until it is read.
  StageTwoAlwaysWhole, PartitionAlwaysTheBooted. The arithmetic shows that no block's
  addresses meet those of an earlier one, of the partition entry or of FAT_Data, and that
  dividing a sector number into cylinder, head and sector and back is the identity.
- the loader's invariant: KernelAlwaysLoaded, and with all the rest BootTypesCorrect.

Every invariant and every safety action property of the passing runs is proved. Model-checked
only:
- liveness (CallReturns, RequestsAreTaken, BootEnds, and with it the liveness half of
  ImplementsDevice), which rests on fairness and so on ENABLED, which this prover does
  not reach;
- the five violated properties of the findings.

The proofs speak of the modules, not of their contracts: that `Fat` may take
FAT_NextCluster and the disk as it does, and `ElfLoader` FAT_Read, is argued in section 2 and
not a theorem.

## 6. Not modelled, and the plan

Not modelled:

- The host tool (`src/tools/fat`), an earlier copy of the FAT driver that runs over a
  file on the build machine; the build and image scripts, whose result (the block list,
  the place of the partition entry) is the assumption MachineOk of `Boot`.
- Code without callers: qsort, strcpy, strcmp and the UTF conversions (used by the
  long-name code, which is commented out), the kernel's memcpy, memset and memcmp, and the
  two reads of controller registers in i8259.c. Stage 2's memcmp has two callers: `fat.c:447`,
  modelled as the comparison of names, and `elf.c:27`, whose result is used for nothing.
- What stage 2's entry does to its own bytes: the clearing of bss and _init.
- Console colours, which nothing changes from the default; fixed messages; the
  interfaces of the core library that have no code, and its port E9 device.
- Memory itself below 1 MiB, apart from the addresses named above: a kernel segment over
  the second stage is possible in the code (a TODO at `elf.c:57`), as is a read of a header
  longer than its buffer (`elf.c:43`), and the model does not say what happens then.
- Interrupt handlers that mask, unmask or print, and with them a race for g_PicMask and a
  putc within a putc; the width of a tab.
- With the extensions, a partial failure that leaves a smaller count in the packet is
  modelled and excepted (`cut`), not excluded; a header whose geometry disagrees with the
  drive's is admitted only where it makes no difference to the block list (MachineOk).

The plan, in order:

1. (done) FAT table cache, FAT driver, disk, ELF loader, interrupts, formatted output.
2. (done) The boot as a composition: boot sector, A20, mode switches, parts of start(),
   memory map, kernel start.
3. (done) Paths as texts; logf and print_buffer.
4. (done) Proofs of every safety property: FatTable, Disk, KeyboardController, Boot, ElfLoader,
   Interrupts, Fat, and with recursion over paths, formats and pages OpenPath, Path, Printf
   and Console.
5. Left: the contracts between Fat, FatTable and Disk, and between ElfLoader and Fat, as
   refinements; liveness by proof, when the prover reaches it.
