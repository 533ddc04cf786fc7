------------------------- MODULE KeyboardController -------------------------
(***************************************************************************)
(* EnableA20 of the second stage (stage2/entry.asm) and the keyboard       *)
(* controller it talks to: one byte in each direction, and a control       *)
(* output port whose bit 0 holds the processor out of reset and whose bit  *)
(* 1 is address line 20.                                                   *)
(*                                                                         *)
(* A byte is modelled by the set of its bits 0 and 1.  The controller is   *)
(* external and works on its own; a key may be pressed until the keyboard  *)
(* is disabled.                                                            *)
(***************************************************************************)
EXTENDS Integers, Sequences

RESET == 0
A20   == 1
Byte  == SUBSET {RESET, A20}

Commands == {"disable", "readPort", "writePort", "enable"}

\* Mutant: the port is not asked for.
Program_NoRead == <<"disable", "in", "writePort", "out", "enable", "ret">>

\* Each line of EnableA20 waits for the controller and then does one thing.
Program == <<"disable", "readPort", "in", "writePort", "out", "enable", "ret">>

VARIABLES
    line,     \* the next line of EnableA20
    eax,      \* the byte it has read
    input,    \* the controller's input buffer: a command, "data" or "none"
    data,     \* the byte in it, when it holds data
    output,   \* its output buffer: "none", or whose byte it holds
    value,    \* that byte
    port,     \* the control output port
    before,   \* history: the port when EnableA20 was called
    keyboard, \* the keyboard may send
    writing,  \* the next byte is for the port
    pressed   \* history: a key was pressed meanwhile

keyboardVars ==
    <<line, eax, input, data, output, value, port, before, keyboard, writing, pressed>>

\* The processor runs, so bit 0 is set; BIOS may have opened line 20.
Init ==
    /\ line = 1 /\ eax = {} /\ input = "none" /\ data = {}
    /\ output = "none" /\ value = {}
    /\ port \in {{RESET}, {RESET, A20}} /\ before = port
    /\ keyboard = TRUE /\ writing = FALSE /\ pressed = FALSE

Now == IF line \in DOMAIN Program THEN Program[line] ELSE "done"
Runs == RESET \in port
-----------------------------------------------------------------------------
(* The program                                                              *)

\* Mutant: the command is written whether or not the last one was taken.
Command_NoWait ==
    /\ Runs /\ Now \in Commands
    /\ input' = Now /\ line' = line + 1
    /\ UNCHANGED <<eax, data, output, value, port, before, keyboard, writing, pressed>>

\* A20WaitInput, out 64h.
Command ==
    /\ Runs /\ Now \in Commands /\ input = "none"
    /\ input' = Now /\ line' = line + 1
    /\ UNCHANGED <<eax, data, output, value, port, before, keyboard, writing, pressed>>

\* A20WaitOutput, in 60h: whatever byte comes first.
In ==
    /\ Runs /\ Now = "in" /\ output # "none"
    /\ eax' = value /\ output' = "none" /\ value' = {} /\ line' = line + 1
    /\ UNCHANGED <<input, data, port, before, keyboard, writing, pressed>>

\* A20WaitInput, or al 2, out 60h.
Out ==
    /\ Runs /\ Now = "out" /\ input = "none"
    /\ input' = "data" /\ data' = eax \cup {A20} /\ line' = line + 1
    /\ UNCHANGED <<eax, output, value, port, before, keyboard, writing, pressed>>

\* A20WaitInput, ret.
Ret ==
    /\ Runs /\ Now = "ret" /\ input = "none"
    /\ line' = line + 1
    /\ UNCHANGED <<eax, input, data, output, value, port, before, keyboard, writing,
                   pressed>>

Work == Command \/ In \/ Out \/ Ret
-----------------------------------------------------------------------------
(* The controller                                                           *)

Take(command) == input = command /\ input' = "none" /\ data' = {}

TakeKeyboard ==
    /\ \/ Take("disable") /\ keyboard' = FALSE
       \/ Take("enable")  /\ keyboard' = TRUE
    /\ UNCHANGED <<line, eax, output, value, port, before, writing, pressed>>

\* The answer replaces a key in the output buffer, or waits until that is read.
TakeReadPort ==
    /\ Take("readPort")
    /\ output' = "port" /\ value' = port
    /\ UNCHANGED <<line, eax, port, before, keyboard, writing, pressed>>

TakeWritePort ==
    /\ Take("writePort")
    /\ writing' = TRUE
    /\ UNCHANGED <<line, eax, output, value, port, before, keyboard, pressed>>

TakeData ==
    /\ Take("data")
    /\ port' = IF writing THEN data ELSE port
    /\ writing' = FALSE
    /\ UNCHANGED <<line, eax, output, value, before, keyboard, pressed>>

Controller == TakeKeyboard \/ TakeReadPort \/ TakeWritePort \/ TakeData

\* A key is pressed, while the output buffer is free, before the keyboard is
\* disabled.
Press ==
    /\ keyboard /\ output = "none" /\ line < 3 /\ ~pressed
    /\ output' = "key" /\ value' \in Byte
    /\ pressed' = TRUE
    /\ UNCHANGED <<line, eax, input, data, port, before, keyboard, writing>>

Next == Work \/ Controller \/ Press

Spec == Init /\ [][Next]_keyboardVars /\ WF_keyboardVars(Work) /\ WF_keyboardVars(Controller)
-----------------------------------------------------------------------------
TypeOK ==
    /\ line \in 1 .. Len(Program) + 1
    /\ input \in Commands \cup {"data", "none"} /\ data \in Byte
    /\ output \in {"key", "port", "none"} /\ value \in Byte
    /\ eax \in Byte /\ port \in Byte /\ before \in Byte
    /\ keyboard \in BOOLEAN /\ writing \in BOOLEAN /\ pressed \in BOOLEAN

\* EnableA20 opens line 20 and leaves the rest of the port alone
\* (entry.asm:73-105), however the controller takes its time; a key pressed just
\* before the keyboard is disabled may be written to the port in its place.
PortKept ==
    /\ Now = "done" => A20 \in port
    /\ ~pressed => port = before \/ port = before \cup {A20}
    /\ port # before => A20 \in port
=============================================================================
