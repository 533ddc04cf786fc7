------------------------------- MODULE MCDisk -------------------------------
(***************************************************************************)
(* Disk on a floppy, on a hard disk of more than 256 cylinders and on one  *)
(* with the most heads and sectors there can be.                           *)
(***************************************************************************)
EXTENDS Disk

Drive(id, cylinders, heads, sectors, start) ==
    [id |-> id, cylinders |-> cylinders, heads |-> heads, sectors |-> sectors,
     start |-> start]

MCDrives == {Drive(0, 80, 2, 18, 7), Drive(128, 600, 3, 2, 5),
             Drive(129, 1024, 1, 1, 0), Drive(128, 2, 256, 63, 2048)}

\* First and last sectors of tracks, cylinders and drives, their neighbours,
\* and sectors the smaller drives do not have.
MCLbas == {0, 1, 2, 3, 16, 17, 18, 35, 36, 62, 63, 255, 256, 1019, 1023, 1024,
           1530, 1531, 1536, 2879, 2880, 3594, 3595, 14079, 14080, 30207, 30208}
=============================================================================
