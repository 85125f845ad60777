----------------------------- MODULE MCCpuSetup -----------------------------
(***************************************************************************)
(* Lines at both ends of both controllers, a page table of four entries,   *)
(* and frequencies of zero, of a timer and beyond the base frequency.      *)
(***************************************************************************)
EXTENDS CpuSetup

SomeLines == {0, 7, 8, 15}

SomeFrequencies == {0, 100, 2386364}
=============================================================================
