----------------------------- MODULE Interrupts -----------------------------
(***************************************************************************)
(* Interrupts in the kernel: the descriptor table (idt.c), the dispatch to *)
(* registered handlers (isr.c, isr_asm.asm), IRQ lines (irq.c) and the     *)
(* driver of the two interrupt controllers (i8259.c), with the controllers *)
(* and the processor as the code uses them.                                *)
(*                                                                         *)
(* A step of the kernel is one write to a port of a controller, or the code *)
(* between two of them.  An interrupt may come between any two steps once  *)
(* interrupts are enabled; all gates are interrupt gates, so none comes    *)
(* during another.  A byte is the set of its bits that are set.            *)
(***************************************************************************)
EXTENDS Integers, Sequences, FiniteSetsExt

CONSTANTS
    Devices,     \* the IRQ lines that have a device
    MaxRequests  \* bound: requests by the devices and spurious interrupts

Lines == 0 .. 15  \* IRQ lines, 0 .. 7 of the first controller
Bits  == 0 .. 7
Pics  == {1, 2}

PIC_REMAP_OFFSET == 32
Vectors  == 0 .. 255
NONE     == -1
SPURIOUS == -2  \* no line: the request was gone when it was acknowledged

ASSUME DeviceAssumption == Devices \subseteq Lines \ {2} /\ MaxRequests \in Nat

VARIABLES
    pc,           \* how far HAL_Initialize is: see TypeOK
    todo,         \* writes the running driver call has still to make
    PicMask,      \* g_PicMask
    driver,       \* g_Driver is not NULL
    gates,        \* the gates of g_IDT that are present
    isrHandlers,  \* the vectors whose g_ISRHandlers is i686_IRQ_Handler
    irqHandlers,  \* the lines with a handler in g_IRQHandlers
    frame,        \* the interrupt being handled: its vector, how far, the
                  \* writes left, and (history) the line that was acknowledged
    enabled,      \* external: the processor's interrupt flag
    hasPic,       \* external: the machine has the controllers
    pic,          \* external: the controllers
    requests      \* external: number of requests and spurious ones so far

kernel == <<driver, gates, isrHandlers, irqHandlers>>
vars   == <<pc, todo, PicMask, kernel, frame, enabled, hasPic, pic, requests>>

NoFrame == [vector |-> NONE, at |-> "none", writes |-> <<>>, line |-> NONE]
-----------------------------------------------------------------------------
(* The controllers (external)                                               *)

\* What the BIOS leaves: vectors from 8 and from 112 on.
BiosPic(p) ==
    [imr |-> {}, irr |-> {}, isr |-> {}, expects |-> "mask", needs4 |-> TRUE,
     offset |-> IF p = 1 THEN {3} ELSE {4, 5, 6},
     cascade |-> IF p = 1 THEN {2} ELSE {1}, auto |-> FALSE]

\* A write to the command port: initialization starts over, or the line served
\* is done with.
Commanded(c, byte) ==
    CASE 4 \in byte ->
            [c EXCEPT !.imr = {}, !.irr = {}, !.isr = {}, !.auto = FALSE,
                      !.expects = "offset", !.needs4 = 0 \in byte]
      [] 5 \in byte /\ c.isr # {} /\ byte \cap {3, 4} = {} ->
            [c EXCEPT !.isr = @ \ {Min(@)}]
      [] OTHER -> c

\* A write to the data port: the next initialization word, or the mask.
Supplied(c, byte) ==
    CASE c.expects = "offset"  -> [c EXCEPT !.offset = byte, !.expects = "cascade"]
      [] c.expects = "cascade" -> [c EXCEPT !.cascade = byte,
                                            !.expects = IF c.needs4 THEN "mode" ELSE "mask"]
      [] c.expects = "mode"    -> [c EXCEPT !.auto = 1 \in byte, !.expects = "mask"]
      [] OTHER                 -> [c EXCEPT !.imr = byte]

\* i686_outb to one of the four ports.
Written(w) ==
    [pic EXCEPT ![w.pic] = IF ~hasPic THEN @
                           ELSE IF w.port = "command" THEN Commanded(@, w.byte)
                                ELSE Supplied(@, w.byte)]

Value(byte) ==
    LET Bit(b) == IF b \in byte THEN 2 ^ b ELSE 0
    IN  Bit(0) + Bit(1) + Bit(2) + Bit(3) + Bit(4) + Bit(5) + Bit(6) + Bit(7)

\* The lines a controller asks for service, those more urgent than every line
\* in service.
Urgent(c, lines) == {l \in lines \ c.imr : \A s \in c.isr : l < s}

\* The second controller's output is line 2 of the first, if they were told so.
Asking(p) ==
    IF p = 2 THEN Urgent(pic[2], pic[2].irr)
    ELSE Urgent(pic[1], pic[1].irr \cup
                        (IF Urgent(pic[2], pic[2].irr) # {} THEN {2} ELSE {}))

Serve(c, l) == [c EXCEPT !.irr = @ \ {l}, !.isr = IF c.auto THEN @ ELSE @ \cup {l}]

Interrupted(vector, line) ==
    /\ frame' = [vector |-> vector, at |-> "isr", writes |-> <<>>, line |-> line]
    /\ enabled' = FALSE

\* The processor acknowledges an interrupt.
Acknowledge ==
    /\ enabled /\ hasPic /\ Asking(1) # {}
    /\ LET l == Min(Asking(1))
           s == Min(Asking(2))
       IN  IF l \in pic[1].cascade /\ Value(pic[2].cascade) = l
           THEN /\ Interrupted(Value(pic[2].offset) + s, 8 + s)
                /\ pic' = [pic EXCEPT ![1] = Serve(@, l), ![2] = Serve(@, s)]
           ELSE /\ Interrupted(Value(pic[1].offset) + l, l)
                /\ pic' = [pic EXCEPT ![1] = Serve(@, l)]
    /\ UNCHANGED <<pc, todo, PicMask, kernel, hasPic, requests>>

\* A request is gone by the time it is acknowledged: a controller then answers
\* with its line 7, and only the first notes that the second is served.
SpuriousFirst ==
    /\ enabled /\ hasPic /\ requests < MaxRequests
    /\ Interrupted(Value(pic[1].offset) + 7, SPURIOUS)
    /\ requests' = requests + 1
    /\ UNCHANGED <<pc, todo, PicMask, kernel, hasPic, pic>>

SpuriousSecond ==
    /\ enabled /\ hasPic /\ requests < MaxRequests /\ 2 \in Urgent(pic[1], {2})
    /\ Interrupted(Value(pic[2].offset) + 7, SPURIOUS)
    /\ pic' = [pic EXCEPT ![1] = Serve(@, 2)]
    /\ requests' = requests + 1
    /\ UNCHANGED <<pc, todo, PicMask, kernel, hasPic>>

\* A device makes a request.
Raise(l) ==
    /\ requests < MaxRequests /\ pc # "halted"
    /\ requests' = requests + 1
    /\ pic' = IF l < 8 THEN [pic EXCEPT ![1].irr = @ \cup {l}]
                       ELSE [pic EXCEPT ![2].irr = @ \cup {l - 8}]
    /\ UNCHANGED <<pc, todo, PicMask, kernel, frame, enabled, hasPic>>

-----------------------------------------------------------------------------
(* i8259.c                                                                  *)

Outb(p, port, byte) == [pic |-> p, port |-> port, byte |-> byte]

\* Mutant: the high half of the mask is not shifted down.
SetMask_NotShifted(mask) ==
    <<Outb(1, "data", mask \cap Bits), Outb(2, "data", mask \ Bits)>>

\* The writes of i8259_SetMask.  g_PicMask is set before them and read again for
\* the second (i8259.c:63); nothing changes it in between, since an interrupt
\* handler sets no mask here: see HandleIrq.
SetMask(mask) ==
    <<Outb(1, "data", mask \cap Bits), Outb(2, "data", {l - 8 : l \in mask \ Bits})>>

\* Mutant: the mask the initialization clears is not written again.
Configure_NoMask ==
    SetMask(Lines) \o
    <<Outb(1, "command", {0, 4}), Outb(2, "command", {0, 4}),
      Outb(1, "data", {5}),       Outb(2, "data", {3, 5}),
      Outb(1, "data", {2}),       Outb(2, "data", {1}),
      Outb(1, "data", {0}),       Outb(2, "data", {0})>>

\* Mutant: both controllers get the first one's offset.
Configure_OneOffset ==
    SetMask(Lines) \o
    <<Outb(1, "command", {0, 4}), Outb(2, "command", {0, 4}),
      Outb(1, "data", {5}),       Outb(2, "data", {5}),
      Outb(1, "data", {2}),       Outb(2, "data", {1}),
      Outb(1, "data", {0}),       Outb(2, "data", {0})>>
    \o SetMask(Lines)

\* i8259_Configure: initialization words 1 to 4 for both controllers, with
\* offsets 0x20 and 0x28, the second on line 2 of the first, no automatic end.
Configure ==
    SetMask(Lines) \o
    <<Outb(1, "command", {0, 4}), Outb(2, "command", {0, 4}),
      Outb(1, "data", {5}),       Outb(2, "data", {3, 5}),
      Outb(1, "data", {2}),       Outb(2, "data", {1}),
      Outb(1, "data", {0}),       Outb(2, "data", {0})>>
    \o SetMask(Lines)

\* Mutant: only the first controller is told.
SendEndOfInterrupt_FirstOnly(irq) == <<Outb(1, "command", {5})>>

SendEndOfInterrupt(irq) ==
    (IF irq >= 8 THEN <<Outb(2, "command", {5})>> ELSE <<>>)
    \o <<Outb(1, "command", {5})>>

\* 0x1337, the mask i8259_Probe writes and reads back.
ProbeMask == {0, 1, 2, 4, 5, 8, 9, 12}

\* i8259_GetMask; nothing answers with ones.
ReadMask == IF hasPic THEN pic[1].imr \cup {b + 8 : b \in pic[2].imr} ELSE Lines

-----------------------------------------------------------------------------
(* Initialization: HAL_Initialize from i686_IDT_Initialize on               *)

InitialPic == [p \in Pics |-> BiosPic(p)]

Init ==
    /\ pc = "idt" /\ todo = <<>> /\ PicMask = Lines
    /\ driver = FALSE /\ gates = {} /\ isrHandlers = {} /\ irqHandlers = {}
    /\ frame = NoFrame
    /\ enabled = FALSE /\ hasPic \in BOOLEAN /\ pic = InitialPic
    /\ requests = 0

\* The kernel's own code runs, and is not inside a driver call.
At(place) == pc = place /\ todo = <<>> /\ frame = NoFrame

\* i686_IDT_EnableGate.
EnableGates(vectors) == gates' = gates \cup vectors

\* i686_IDT_Initialize and i686_ISR_Initialize.
InitializeGates ==
    /\ At("idt") /\ pc' = "probe"
    /\ EnableGates(Vectors \ {128})
    /\ UNCHANGED <<todo, PicMask, driver, isrHandlers, irqHandlers, frame, enabled,
                   hasPic, pic, requests>>

\* i8259_Probe: i8259_Disable and the probing mask.
Probe ==
    /\ At("probe") /\ pc' = "probed"
    /\ PicMask' = ProbeMask
    /\ todo' = SetMask(Lines) \o SetMask(ProbeMask)
    /\ UNCHANGED <<kernel, frame, enabled, hasPic, pic, requests>>

\* irq.c:40-52.
Probed ==
    /\ At("probed")
    /\ IF ReadMask = ProbeMask
       THEN /\ pc' = "register" /\ driver' = TRUE
            /\ PicMask' = Lines /\ todo' = Configure
       ELSE pc' = "running" /\ UNCHANGED <<driver, PicMask, todo>>
    /\ UNCHANGED <<gates, isrHandlers, irqHandlers, frame, enabled, hasPic, pic, requests>>

IrqVectors == {PIC_REMAP_OFFSET + l : l \in Lines}

\* irq.c:54-59.
RegisterAndEnable ==
    /\ At("register") /\ pc' = "running"
    /\ isrHandlers' = isrHandlers \cup IrqVectors
    /\ EnableGates(IrqVectors)
    /\ enabled' = TRUE
    /\ UNCHANGED <<todo, PicMask, driver, irqHandlers, frame, hasPic, pic, requests>>

\* The next write of the running call.
Out ==
    /\ todo # <<>> /\ frame = NoFrame /\ pc # "halted"
    /\ pic' = Written(Head(todo))
    /\ todo' = Tail(todo)
    /\ UNCHANGED <<pc, PicMask, kernel, frame, enabled, hasPic, requests>>

-----------------------------------------------------------------------------
(* What a device's driver calls                                             *)

\* i686_IRQ_RegisterHandler.
RegisterHandler(irq) ==
    /\ At("running")
    /\ irqHandlers' = irqHandlers \cup {irq}
    /\ UNCHANGED <<pc, todo, PicMask, driver, gates, isrHandlers, frame, enabled,
                   hasPic, pic, requests>>

\* Mutant: g_PicMask is left as it was.
SetPicMask_NotKept(mask) ==
    /\ At("running") /\ driver
    /\ todo' = SetMask(mask)
    /\ UNCHANGED <<pc, PicMask, kernel, frame, enabled, hasPic, pic, requests>>

\* i8259_Mask and i8259_Unmask, reached through g_Driver.
SetPicMask(mask) ==
    /\ At("running") /\ driver
    /\ PicMask' = mask
    /\ todo' = SetMask(mask)
    /\ UNCHANGED <<pc, kernel, frame, enabled, hasPic, pic, requests>>

Mask(irq)   == SetPicMask(PicMask \cup {irq})
Unmask(irq) == SetPicMask(PicMask \ {irq})

-----------------------------------------------------------------------------
(* Handling an interrupt                                                    *)

Halt == pc' = "halted" /\ UNCHANGED <<frame, enabled>>

\* iret.
ReturnFromInterrupt == frame' = NoFrame /\ enabled' = TRUE

\* i686_ISR_Handler; an unknown vector is logged, an exception is the end.
Dispatch ==
    LET v == frame.vector
    IN  /\ frame.at = "isr" /\ pc # "halted"
        /\ CASE v \in gates \cap isrHandlers ->
                  frame' = [frame EXCEPT !.at = "irq"] /\ UNCHANGED <<pc, enabled>>
             [] v \in gates /\ v \notin isrHandlers /\ v >= 32 ->
                  ReturnFromInterrupt /\ UNCHANGED pc
             [] OTHER -> Halt
        /\ UNCHANGED <<todo, PicMask, kernel, hasPic, pic, requests>>

\* Mutant: an IRQ without a handler is logged and left.
HandleIrq_NoEnd ==
    /\ frame.at = "irq" /\ driver /\ pc # "halted"
    /\ IF frame.vector - PIC_REMAP_OFFSET \in irqHandlers
       THEN /\ frame' = [frame EXCEPT !.at = "end",
                    !.writes = SendEndOfInterrupt(frame.vector - PIC_REMAP_OFFSET)]
            /\ UNCHANGED enabled
       ELSE ReturnFromInterrupt
    /\ UNCHANGED <<pc, todo, PicMask, kernel, hasPic, pic, requests>>

\* i686_IRQ_Handler: the line's handler, if there is one, and then
\* SendEndOfInterrupt.  A handler changes nothing here.  The repository's only
\* one prints a character, and its registration is commented out
\* (kernel/main.c:42): a handler that masked a line between the read and the
\* write of g_PicMask at i8259.c:124 or 129 is not among the behaviours.
HandleIrq ==
    /\ frame.at = "irq" /\ driver /\ pc # "halted"
    /\ frame' = [frame EXCEPT !.at = "end",
                    !.writes = SendEndOfInterrupt(frame.vector - PIC_REMAP_OFFSET)]
    /\ UNCHANGED <<pc, todo, PicMask, kernel, enabled, hasPic, pic, requests>>

\* Its writes, and the return.
EndOfInterrupt ==
    /\ frame.at = "end" /\ pc # "halted"
    /\ IF frame.writes = <<>>
       THEN ReturnFromInterrupt /\ UNCHANGED pic
       ELSE /\ pic' = Written(Head(frame.writes))
            /\ frame' = [frame EXCEPT !.writes = Tail(@)]
            /\ UNCHANGED enabled
    /\ UNCHANGED <<pc, todo, PicMask, kernel, hasPic, requests>>

\* Any code of the kernel may fault: no handler is registered for exceptions,
\* and i686_Panic halts with interrupts disabled.  Before there are gates the
\* processor resets.
Exception ==
    /\ pc # "halted"
    /\ pc' = "halted" /\ enabled' = FALSE
    /\ UNCHANGED <<todo, PicMask, kernel, frame, hasPic, pic, requests>>

Halted == pc = "halted" /\ UNCHANGED vars

-----------------------------------------------------------------------------
Initialize == InitializeGates \/ Probe \/ Probed \/ RegisterAndEnable
Handle     == Acknowledge \/ Dispatch \/ HandleIrq \/ EndOfInterrupt
Spurious   == SpuriousFirst \/ SpuriousSecond
Driver     == \/ \E irq \in Devices : RegisterHandler(irq)
              \/ \E irq \in Devices \cup {2} : Mask(irq) \/ Unmask(irq)

Next ==
    \/ Initialize \/ Out \/ Driver \/ Handle
    \/ Spurious \/ Exception \/ Halted
    \/ \E l \in Devices : Raise(l)

\* The processor goes on, and acknowledges an interrupt that is asked for; the
\* devices and drivers do as they please.
Spec ==
    /\ Init /\ [][Next]_vars
    /\ WF_vars(Initialize) /\ WF_vars(Out) /\ WF_vars(Handle)
-----------------------------------------------------------------------------
(* Properties                                                               *)

ByteWrite == [pic : Pics, port : {"command", "data"}, byte : SUBSET Bits]

Controller ==
    [imr : SUBSET Bits, irr : SUBSET Bits, isr : SUBSET Bits,
     expects : {"offset", "cascade", "mode", "mask"}, needs4 : BOOLEAN,
     offset : SUBSET Bits, cascade : SUBSET Bits, auto : BOOLEAN]

TypeOK ==
    /\ pc \in {"idt", "probe", "probed", "register", "running", "halted"}
    /\ todo \in Seq(ByteWrite)
    /\ PicMask \subseteq Lines
    /\ driver \in BOOLEAN /\ enabled \in BOOLEAN /\ hasPic \in BOOLEAN
    /\ gates \subseteq Vectors /\ isrHandlers \subseteq Vectors
    /\ irqHandlers \subseteq Lines
    /\ frame \in [vector : Vectors \cup {NONE}, at : {"none", "isr", "irq", "end"},
                  writes : Seq(ByteWrite), line : Lines \cup {NONE, SPURIOUS}]
    /\ pic \in [Pics -> Controller]
    /\ requests \in 0 .. MaxRequests

\* When the kernel's own code runs, no line is in service on either controller:
\* every path through the dispatch, with or without a handler and for requests
\* that had vanished, ends what was acknowledged.  Otherwise the line and all
\* less urgent ones would be dead.
NothingLeftInService ==
    frame = NoFrame => pic[1].isr = {} /\ pic[2].isr = {}

\* Once the kernel runs, the controllers' masks are g_PicMask whenever no call
\* is setting it (i8259_Mask and i8259_Unmask go by the variable alone).
MaskIsWritten ==
    pc = "running" /\ driver /\ todo = <<>> =>
        pic[1].imr = PicMask \cap Bits /\ pic[2].imr = {l - 8 : l \in PicMask \ Bits}

\* The number i686_IRQ_Handler computes from the vector is the line that was
\* acknowledged (irq.c:18 against the words written by i8259_Configure), or 7
\* or 15 for none.
IrqIsTheLine ==
    frame.at \in {"irq", "end"} =>
        LET irq == frame.vector - PIC_REMAP_OFFSET
        IN  IF frame.line = SPURIOUS THEN irq \in {7, 15} ELSE irq = frame.line

\* No line is acknowledged that its driver has not unmasked ("mask all
\* interrupts until they are enabled by the device driver", i8259.c:106); a
\* call that masks it may still be under way.
OnlyUnmaskedLines ==
    [][frame = NoFrame /\ frame'.line \in Lines /\ todo = <<>>
       => frame'.line \notin PicMask]_vars

\* A request on a line that stays unmasked is taken, unless the kernel halts.
Requested(l) == IF l < 8 THEN l \in pic[1].irr ELSE l - 8 \in pic[2].irr
Reaches(l)   == l \notin PicMask /\ (l >= 8 => 2 \notin PicMask)

RequestsAreTaken ==
    \A l \in Devices : pc = "running" /\ driver /\ Requested(l) /\ Reaches(l)
                       ~> ~Requested(l) \/ ~Reaches(l) \/ pc = "halted"
=============================================================================
