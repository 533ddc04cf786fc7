------------------------------ MODULE MemoryMap ------------------------------
(***************************************************************************)
(* Memory_Detect (stage2/memdetect.c) over x86_E820GetNextBlock (x86.asm): *)
(* the regions of memory that BIOS reports, one a call, go to a table of   *)
(* MAX_REGIONS entries that the kernel is given.                           *)
(*                                                                         *)
(* A region is a model value.  BIOS is external: its answers are a list,   *)
(* and the end is told by a continuation of 0 with the last region or by a *)
(* call that fails after it.                                               *)
(***************************************************************************)
EXTENDS Integers, Sequences

CONSTANT MAX_REGIONS

VARIABLES
    machine,       \* the machine, with its "regions" and its "end"
    detect,        \* "call", "test", "done", or "undefined" past the table
    continuation,
    region,        \* block
    ret,
    g_MemRegions   \* the table up to g_MemRegionCount

mapVars == <<detect, continuation, region, ret, g_MemRegions>>

Init ==
    /\ detect = "call" /\ continuation = 0 /\ region = 0 /\ ret = 0
    /\ g_MemRegions = <<>>

\* int 15h, with the continuation numbering the region answered last.  A call
\* that fails leaves block and continuation alone.
NextContinuation(n) ==
    IF n = Len(machine.regions) /\ machine.end = "zero" THEN 0 ELSE n

\* Mutant: no look at the signature that a call returns.
GetNextBlock_NoTest ==
    LET n == continuation + 1
    IN  /\ detect = "call"
        /\ ret' = 24 /\ continuation' = NextContinuation(n)
        /\ region' = IF n \in DOMAIN machine.regions THEN machine.regions[n] ELSE region
        /\ detect' = "test"
        /\ UNCHANGED g_MemRegions

GetNextBlock ==
    LET n == continuation + 1
    IN  /\ detect = "call"
        /\ IF n \in DOMAIN machine.regions
           THEN /\ ret' = 24 /\ region' = machine.regions[n]
                /\ continuation' = NextContinuation(n)
           ELSE ret' = -1 /\ UNCHANGED <<region, continuation>>
        /\ detect' = "test"
        /\ UNCHANGED g_MemRegions

\* Mutant: the region is not kept when the call after it is made.
Keep_First ==
    /\ detect = "test" /\ ret > 0 /\ continuation # 0
    /\ g_MemRegions' = <<region>>
    /\ detect' = "call"
    /\ UNCHANGED <<continuation, region, ret>>

\* The loop's body.  The table is filled without a look at its size.
Keep ==
    /\ detect = "test" /\ ret > 0 /\ continuation # 0
    /\ g_MemRegions' = Append(g_MemRegions, region)
    /\ detect' = IF Len(g_MemRegions) < MAX_REGIONS THEN "call" ELSE "undefined"
    /\ UNCHANGED <<continuation, region, ret>>

Done ==
    /\ detect = "test" /\ (ret <= 0 \/ continuation = 0)
    /\ detect' = "done"
    /\ UNCHANGED <<continuation, region, ret, g_MemRegions>>

\* What the kernel is to get: what BIOS reports, without the region that comes
\* with a continuation of 0.
Reported ==
    IF machine.end = "zero" /\ machine.regions # <<>>
    THEN SubSeq(machine.regions, 1, Len(machine.regions) - 1) ELSE machine.regions
-----------------------------------------------------------------------------
TypeOK ==
    /\ detect \in {"call", "test", "done", "undefined"}
    /\ continuation \in 0 .. Len(machine.regions)
    /\ ret \in {-1, 0, 24}
    /\ Len(g_MemRegions) <= MAX_REGIONS \/ detect = "undefined"
=============================================================================
