------------------------------ MODULE Processor ------------------------------
(***************************************************************************)
(* The processor's modes and segments, as the second stage's entry.asm,    *)
(* the macros of x86.asm around every BIOS call, and the kernel's gdt.c    *)
(* and gdt_asm.asm change them.                                            *)
(*                                                                         *)
(* A segment register holds what was loaded from a descriptor: in real     *)
(* mode a load changes the base only.  A limit is the number of the last   *)
(* page of 4 KiB.  A program is a sequence of instructions, each with the  *)
(* width it was assembled for.                                             *)
(***************************************************************************)
EXTENDS Integers, Sequences

VARIABLES
    cpu,   \* the registers: see Start
    todo   \* the instructions up to the next call of BIOS or of C code

-----------------------------------------------------------------------------
(* Descriptors                                                              *)

GDT_ENTRY(base, limit, access, flags) ==
    [LimitLow     |-> limit % 65536,
     BaseLow      |-> base % 65536,
     BaseMiddle   |-> (base \div 65536) % 256,
     Access       |-> access,
     FlagsLimitHi |-> ((limit \div 65536) % 16) + ((flags \div 16) % 16) * 16,
     BaseHigh     |-> (base \div 16777216) % 256]

\* What the processor reads in a descriptor (external).
Decode(d) ==
    LET limit == (d.FlagsLimitHi % 16) * 65536 + d.LimitLow
        flags == d.FlagsLimitHi \div 16
    IN  [base  |-> (d.BaseHigh * 256 + d.BaseMiddle) * 65536 + d.BaseLow,
         limit |-> IF flags >= 8 THEN limit ELSE limit \div 4096,
         big   |-> (flags \div 4) % 2 = 1,
         code  |-> d.Access \div 8 = 19]

\* The table of entry.asm, byte by byte, by selector.
Raw(access, flagsLimit) ==
    [LimitLow |-> 65535, BaseLow |-> 0, BaseMiddle |-> 0, Access |-> access,
     FlagsLimitHi |-> flagsLimit, BaseHigh |-> 0]

g_GDT_stage2 ==
    [s \in {8, 16, 24, 32} |->
        CASE s = 8 -> Raw(154, 207) [] s = 16 -> Raw(146, 207)
          [] s = 24 -> Raw(154, 15) [] s = 32 -> Raw(146, 15)]

\* The enums of gdt.c.
ACCESS_PRESENT == 128
CODE_SEGMENT   == 24
DATA_SEGMENT   == 16
READ_WRITE     == 2
FLAG_32BIT     == 64
FLAG_4K        == 128

g_GDT_kernel ==
    [s \in {8, 16} |->
        GDT_ENTRY(0, 1048575,
                  ACCESS_PRESENT + READ_WRITE
                  + (IF s = 8 THEN CODE_SEGMENT ELSE DATA_SEGMENT),
                  FLAG_32BIT + FLAG_4K)]

Tables == [stage2 |-> g_GDT_stage2, kernel |-> g_GDT_kernel]
-----------------------------------------------------------------------------
(* Instructions                                                             *)

I(bits, op, arg) == [bits |-> bits, op |-> op, arg |-> arg]

SegmentRegisters == {"cs", "ds", "es", "ss"}

\* A segment register after a selector was loaded.
Loaded(c, register, selector) ==
    IF c.protected THEN Decode(Tables[c.table][selector])
    ELSE [c[register] EXCEPT !.base = selector * 16]

Executed(c, i) ==
    CASE i.op = "cli"  -> [c EXCEPT !.interrupts = FALSE]
      [] i.op = "sti"  -> [c EXCEPT !.interrupts = TRUE]
      [] i.op = "lgdt" -> [c EXCEPT !.table = i.arg]
      [] i.op = "pe"   -> [c EXCEPT !.protected = i.arg]
      [] i.op = "jump" -> [c EXCEPT !.cs = Loaded(c, "cs", i.arg)]
      [] i.op \in SegmentRegisters -> [c EXCEPT ![i.op] = Loaded(c, i.op, i.arg)]

Step ==
    /\ todo # <<>>
    /\ cpu' = Executed(cpu, Head(todo))
    /\ todo' = Tail(todo)

\* Mutant: interrupts stay on.
x86_EnterProtectedMode_NoCli ==
    <<I(16, "pe", TRUE), I(16, "jump", 8), I(32, "ds", 16), I(32, "ss", 16)>>

x86_EnterProtectedMode ==
    <<I(16, "cli", 0), I(16, "pe", TRUE), I(16, "jump", 8),
      I(32, "ds", 16), I(32, "ss", 16)>>

\* Mutant: straight to real mode, from the 32-bit segment.
x86_EnterRealMode_NoPmode16 ==
    <<I(32, "pe", FALSE), I(32, "jump", 0), I(16, "ds", 0), I(16, "ss", 0),
      I(16, "sti", 0)>>

x86_EnterRealMode ==
    <<I(32, "jump", 24), I(16, "pe", FALSE), I(16, "jump", 0),
      I(16, "ds", 0), I(16, "ss", 0), I(16, "sti", 0)>>

\* entry.asm before EnableA20 is called, and after it.
entry_A20   == <<I(16, "cli", 0), I(16, "ss", 0)>>
entry_pmode == <<I(16, "lgdt", "stage2"), I(16, "pe", TRUE), I(16, "jump", 8),
                 I(32, "ds", 16), I(32, "ss", 16)>>

\* i686_GDT_Load; its jump is a far return.
i686_GDT_Load ==
    <<I(32, "lgdt", "kernel"), I(32, "jump", 8), I(32, "ds", 16),
      I(32, "es", 16), I(32, "ss", 16)>>
-----------------------------------------------------------------------------
\* As the boot sector leaves it: segment 0, with the limit of real mode.
RealSegment == [base |-> 0, limit |-> 15, big |-> FALSE, code |-> FALSE]

Init ==
    /\ cpu = [protected |-> FALSE, interrupts |-> TRUE, table |-> "none",
              cs |-> [RealSegment EXCEPT !.code = TRUE],
              ds |-> RealSegment, es |-> RealSegment, ss |-> RealSegment]
    /\ todo = <<>>

Flat(segment) == segment.base = 0 /\ segment.limit = 1048575 /\ segment.big

\* What C code is compiled for, but for the extra segment, which the second
\* stage never loads in protected mode; and what BIOS expects.
FitsC    == /\ cpu.protected /\ cpu.cs.code /\ \A r \in {"cs", "ds", "ss"} : Flat(cpu[r])
FitsBios == /\ ~cpu.protected /\ cpu.interrupts /\ ~cpu.cs.big
            /\ \A r \in {"cs", "ds", "ss"} : cpu[r].base = 0
=============================================================================
