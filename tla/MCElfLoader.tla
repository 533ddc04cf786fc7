---------------------------- MODULE MCElfLoader ----------------------------
(***************************************************************************)
(* ElfLoader alone, on the files of KernelFiles.                           *)
(***************************************************************************)
EXTENDS ElfLoader, KernelFiles
=============================================================================
