------------------------------ MODULE ElfLoader ------------------------------
(***************************************************************************)
(* ELF_Read, which stage2/main.c calls to bring the kernel into memory:    *)
(* the header and the table of program headers are read, then the file is  *)
(* opened again for each loadable segment, read up to the segment in       *)
(* pieces, for want of a seek, and copied to its address in pieces.        *)
(*                                                                         *)
(* A file is modelled by the numbers of its units, memory by the unit that *)
(* lies at each address.  FAT_Open, FAT_Read and FAT_Close appear by what   *)
(* module Fat shows of them: a read is short when the file ends or a sector *)
(* could not be read, and a sector that could not be read at the very end  *)
(* of a request is not reported; the next request gets the old buffer.     *)
(***************************************************************************)
EXTENDS Integers, Sequences, FiniteSetsExt

CONSTANTS
    HEADER,       \* units of the ELF header
    ENTRY,        \* units of a program header
    SECTOR_SIZE,  \* units of a sector
    LOAD_SIZE,    \* MEMORY_LOAD_SIZE, units of the load buffer
    NUM,          \* memcpy and memset take their counts modulo NUM
    WORD,         \* uint32_t arithmetic is modulo WORD
    Memory,       \* the addresses
    Images,       \* the kernel files that may lie on the disk
    MaxFaults     \* bound: failed reads of the disk in a behaviour

\* What an address may hold other than a unit of the file.
OLD     == -1
ZERO    == -2
GARBAGE == -3

\* A kernel file: its size, where its program headers begin, and the segments
\* these describe, which a linker puts one after the other (kernel/linker.ld).
\* The file on the disk may have been cut off.
Segments == [load : BOOLEAN, offset : Nat, vaddr : Nat, filesz : Nat, memsz : Nat]

Addresses(s) == s.vaddr .. s.vaddr + s.memsz - 1

SegmentOk(s) == s.filesz <= s.memsz /\ Addresses(s) \subseteq Memory

ImageOk(image) ==
    /\ image.size \in Nat /\ image.size < WORD /\ image.phoff \in 0 .. WORD - 1
    /\ image.segments \in Seq(Segments)
    /\ \A i \in DOMAIN image.segments : SegmentOk(image.segments[i])
    /\ \A i, j \in DOMAIN image.segments :
          i # j /\ image.segments[i].load /\ image.segments[j].load
          => Addresses(image.segments[i]) \cap Addresses(image.segments[j]) = {}

ASSUME SizeAssumption ==
    /\ SECTOR_SIZE \in Nat \ {0} /\ LOAD_SIZE \in Nat \ {0} /\ NUM \in Nat \ {0}
    /\ HEADER \in 1 .. SECTOR_SIZE - 1 /\ ENTRY \in Nat \ {0}
    /\ WORD \in Nat /\ HEADER < WORD /\ MaxFaults \in Nat /\ Memory \subseteq Nat

ASSUME ImageAssumption == \A image \in Images : ImageOk(image)

VARIABLES
    image,    \* the kernel file, the same throughout
    pc,       \* where ELF_Read is: see TypeOK
    memory,   \* the unit of the file, or what else, at each address
    position, \* Position of the open file
    buffer,   \* its buffer: "good", "stale" after an unread sector, or "lost"
              \* after the chain of clusters was not read
    i,        \* number of the program header
    left,     \* Offset or FileSize of that header, whichever is counted down
    target,   \* virtAddress
    faults,   \* failed disk reads so far
    silent    \* history: some failure was not reported by a short count

vars == <<image, pc, memory, position, buffer, i, left, target, faults, silent>>

Init ==
    /\ image \in Images
    /\ pc = "start"
    /\ memory = [a \in Memory |-> OLD]
    /\ position = 0 /\ buffer = "good"
    /\ i = 1 /\ left = 0 /\ target = 0
    /\ faults = 0 /\ silent = FALSE

Segment == image.segments[i]
-----------------------------------------------------------------------------
(* The file (FAT_Open, FAT_Read)                                            *)

\* FAT_Open answers with NULL when it fails, and ELF_Read uses what it gets.
OpenFile(then) ==
    \/ /\ pc' = then
       /\ position' = 0 /\ buffer' = "good"
       /\ UNCHANGED faults
    \/ /\ faults < MaxFaults /\ faults' = faults + 1
       /\ pc' = "undefined"
       /\ UNCHANGED <<position, buffer>>

Clip(count) == Min({count, image.size - position})

\* What FAT_Read may answer to a request: n units, from a buffer that is as
\* given afterwards; "reported" unless a failure left n as large as asked for.
Answers(count) ==
    LET all    == Clip(count)
        ends   == {b \in position + 1 .. position + all : b % SECTOR_SIZE = 0}
        Failed(n, after) ==
            [n |-> n, buffer |-> after, failed |-> TRUE, reported |-> n < count]
    IN  {[n |-> all, failed |-> FALSE, reported |-> TRUE,
          buffer |-> IF ends # {} /\ buffer = "stale" THEN "good" ELSE buffer]}
        \cup {[n |-> b - position, failed |-> FALSE, reported |-> TRUE,
               buffer |-> "lost"] : b \in IF buffer = "lost" THEN ends ELSE {}}
        \cup {Failed(b - position, "stale") : b \in ends}
        \cup {Failed(n, "lost") : n \in {b - position : b \in ends} \cup
                                        (IF ends = {} THEN {} ELSE {all})}

\* The k-th unit that arrives: units of a sector that was not read are the
\* buffer's old ones, and nothing is known of those after a lost chain.
Arrived(k, r) ==
    IF \/ r.buffer = "lost"
       \/ /\ buffer = "stale"
          /\ (position + k) \div SECTOR_SIZE = position \div SECTOR_SIZE
    THEN GARBAGE ELSE position + k

ReadFile(r) ==
    /\ r.failed => faults < MaxFaults
    /\ faults' = IF r.failed THEN faults + 1 ELSE faults
    /\ position' = position + r.n
    /\ buffer' = r.buffer
    /\ silent' = (silent \/ ~r.reported)

-----------------------------------------------------------------------------
(* The headers, elf.c:15-50                                                 *)

Start ==
    /\ pc = "start"
    /\ OpenFile("header")
    /\ UNCHANGED <<image, memory, i, left, target, silent>>

\* elf.c:17-22.  What the header says of the file is not looked at.
ReadHeader ==
    /\ pc = "header"
    /\ \E r \in Answers(HEADER) :
          /\ ReadFile(r)
          /\ pc' = IF r.n = HEADER THEN "seek" ELSE "failed"
    /\ UNCHANGED <<image, memory, i, left, target>>

\* elf.c:43, whose count nobody compares.  The count is the file's word, or the
\* remainder of a negative one, and the buffer one sector: what lies behind the
\* buffer is not modelled, so a read longer than it only moves the position.
SeekTable ==
    /\ pc = "seek"
    /\ \E r \in Answers((image.phoff - position) % WORD) : ReadFile(r)
    /\ pc' = "table"
    /\ UNCHANGED <<image, memory, i, left, target>>

\* elf.c:44-50.  A table that is not the file's has no defined effect.
ReadTable ==
    LET size == ENTRY * Len(image.segments)
    IN  /\ pc = "table"
        /\ \E r \in Answers(size) :
              /\ ReadFile(r)
              /\ pc' = IF r.n # size THEN "failed"
                       ELSE IF \A k \in 0 .. size - 1 : Arrived(k, r) = image.phoff + k
                       THEN "segment" ELSE "undefined"
        /\ UNCHANGED <<image, memory, i, left, target>>

-----------------------------------------------------------------------------
(* The segments, elf.c:53-94                                                *)

\* elf.c:55-56, 94: a segment that is not loaded, or the end of the table.
NextSegment ==
    /\ pc = "segment"
    /\ IF i > Len(image.segments) THEN pc' = "loaded" /\ UNCHANGED i
       ELSE ~Segment.load /\ i' = i + 1 /\ UNCHANGED pc
    /\ UNCHANGED <<image, memory, position, buffer, left, target, faults, silent>>

\* memset(address, 0, count)
Cleared(address, count) ==
    [a \in Memory |-> IF a \in address .. address + (count % NUM) - 1
                      THEN ZERO ELSE memory[a]]

\* Mutant: the size in the file in place of the size in memory.
Clear_FileSize ==
    /\ pc = "segment" /\ i <= Len(image.segments) /\ Segment.load
    /\ memory' = Cleared(Segment.vaddr, Segment.filesz)
    /\ OpenFile("skip")
    /\ left' = Segment.offset /\ target' = Segment.vaddr
    /\ UNCHANGED <<image, i, silent>>

\* elf.c:56-63.
Clear ==
    /\ pc = "segment" /\ i <= Len(image.segments) /\ Segment.load
    /\ memory' = Cleared(Segment.vaddr, Segment.memsz)
    /\ OpenFile("skip")
    /\ left' = Segment.offset /\ target' = Segment.vaddr
    /\ UNCHANGED <<image, i, silent>>

\* Mutant: a piece counts as a full buffer.
Skip_WholeBuffer ==
    /\ pc = "skip" /\ left > 0
    /\ \E r \in Answers(Min({left, LOAD_SIZE})) :
          /\ ReadFile(r)
          /\ IF r.n # Min({left, LOAD_SIZE}) THEN pc' = "failed" /\ UNCHANGED left
             ELSE left' = left - LOAD_SIZE /\ UNCHANGED pc
    /\ UNCHANGED <<image, memory, i, target>>

\* elf.c:64-73.
Skip ==
    /\ pc = "skip" /\ left > 0
    /\ \E r \in Answers(Min({left, LOAD_SIZE})) :
          /\ ReadFile(r)
          /\ IF r.n # Min({left, LOAD_SIZE}) THEN pc' = "failed" /\ UNCHANGED left
             ELSE left' = left - r.n /\ UNCHANGED pc
    /\ UNCHANGED <<image, memory, i, target>>

Skipped ==
    /\ pc = "skip" /\ left = 0
    /\ pc' = "copy" /\ left' = Segment.filesz
    /\ UNCHANGED <<image, memory, position, buffer, i, target, faults, silent>>

\* Mutant: the whole load buffer is copied each time.
Copied_WholeBuffer(r) ==
    [a \in Memory |-> IF a \in target .. target + LOAD_SIZE - 1
                      THEN Arrived(a - target, r) ELSE memory[a]]

\* memcpy(target, loadBuffer, r.n)
Copied(r) ==
    [a \in Memory |-> IF a \in target .. target + (r.n % NUM) - 1
                      THEN Arrived(a - target, r) ELSE memory[a]]

\* Mutant: the count that was asked for is copied and believed.
Copy_Unchecked ==
    /\ pc = "copy" /\ left > 0
    /\ \E r \in Answers(Min({left, LOAD_SIZE})) :
          /\ ReadFile(r)
          /\ left' = left - Min({left, LOAD_SIZE})
          /\ target' = target + r.n
          /\ memory' = Copied(r)
    /\ UNCHANGED <<image, pc, i>>

\* elf.c:76-88.
Copy ==
    /\ pc = "copy" /\ left > 0
    /\ \E r \in Answers(Min({left, LOAD_SIZE})) :
          /\ ReadFile(r)
          /\ IF r.n # Min({left, LOAD_SIZE})
             THEN pc' = "failed" /\ UNCHANGED <<left, target, memory>>
             ELSE /\ left' = left - r.n
                  /\ target' = target + r.n
                  /\ memory' = Copied(r)
                  /\ UNCHANGED pc
    /\ UNCHANGED <<image, i>>

\* elf.c:90, and the loop's end.
CopyDone ==
    /\ pc = "copy" /\ left = 0
    /\ pc' = "segment" /\ i' = i + 1
    /\ UNCHANGED <<image, memory, position, buffer, left, target, faults, silent>>

\* The kernel runs, start() stops, or no one can say.
Stopped == pc \in {"loaded", "failed", "undefined"} /\ UNCHANGED vars

ELF_Read ==
    \/ Start \/ ReadHeader \/ SeekTable \/ ReadTable
    \/ NextSegment \/ Clear \/ Skip \/ Skipped \/ Copy \/ CopyDone

Next == ELF_Read \/ Stopped

Spec == Init /\ [][Next]_vars
-----------------------------------------------------------------------------
TypeOK ==
    /\ image \in Images
    /\ pc \in {"start", "header", "seek", "table", "segment", "skip", "copy",
               "loaded", "failed", "undefined"}
    /\ memory \in [Memory -> {OLD, ZERO, GARBAGE} \cup Nat]
    /\ position \in 0 .. image.size
    /\ buffer \in {"good", "stale", "lost"}
    /\ i \in 1 .. Len(image.segments) + 1
    /\ pc \in {"skip", "copy"} => i <= Len(image.segments)
    /\ left \in Nat /\ target \in Nat
    /\ faults \in 0 .. MaxFaults
    /\ silent \in BOOLEAN

Loads == {j \in DOMAIN image.segments : image.segments[j].load}

\* Segment s lies at its address, and nothing but zeroes after it.
InPlace(s) ==
    /\ \A k \in 0 .. s.filesz - 1 : memory[s.vaddr + k] = s.offset + k
    /\ \A k \in s.filesz .. s.memsz - 1 : memory[s.vaddr + k] = ZERO

\* A kernel that is started is the one in the file: when ELF_Read returns true
\* (elf.c:94) every segment is in place, however often the disk failed in
\* between, as long as each failure made a read short and no segment is as
\* large as memset and memcpy can count.
LoadedInPlace ==
    pc = "loaded" /\ ~silent =>
        \A j \in Loads : image.segments[j].memsz < NUM => InPlace(image.segments[j])

\* A file that lacks part of a segment is rejected (elf.c:68, 80).
CutOffIsRejected ==
    pc = "loaded" =>
        \A j \in Loads : image.segments[j].filesz > 0 =>
            image.segments[j].offset + image.segments[j].filesz <= image.size

\* At no time is memory outside of the segments touched, whatever arrives from
\* the disk (the target runs through the segment only, elf.c:86-87).
OnlySegmentsTouched ==
    \A a \in Memory : memory[a] # OLD =>
        \E j \in Loads : a \in Addresses(image.segments[j])

\* "read program" (elf.c:75), without a condition on sizes.
ProgramIsRead ==
    pc = "loaded" /\ faults = 0 => \A j \in Loads : InPlace(image.segments[j])
=============================================================================
