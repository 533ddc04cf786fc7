---------------------------- MODULE SectorDevice ----------------------------
(***************************************************************************)
(* What the file system takes Partition_ReadSectors for: a device that is  *)
(* asked for a sector and answers with that sector or with a failure, and  *)
(* always answers.                                                         *)
(***************************************************************************)
CONSTANTS
    Asks,      \* the sectors that may be asked for
    NONE,      \* no sector
    FAILED,    \* the answer that no sector was read
    ANY        \* some data, the answer for a sector the device does not have

VARIABLES
    present,   \* the sectors the device has
    asked,     \* the sector being read, or NONE
    got        \* the last answer

vars == <<present, asked, got>>

Init == present \subseteq Asks /\ asked = NONE /\ got = NONE

Ask(sector) ==
    /\ asked = NONE
    /\ asked' = sector
    /\ got' = NONE
    /\ UNCHANGED present

Answer ==
    /\ asked # NONE
    /\ got' \in {FAILED} \cup {IF asked \in present THEN asked ELSE ANY}
    /\ asked' = NONE
    /\ UNCHANGED present

Next == Answer \/ \E sector \in Asks : Ask(sector)

Spec == Init /\ [][Next]_vars /\ WF_vars(Answer)
=============================================================================
