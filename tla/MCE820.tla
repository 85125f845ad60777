------------------------------- MODULE MCE820 -------------------------------
(***************************************************************************)
(* Maps of one to five entries for a buffer of three, in every way a BIOS  *)
(* may end or fail.                                                        *)
(***************************************************************************)
EXTENDS E820

Entries == [1 .. 5 -> {"ram", "reserved"}]

AllMaps == {SubSeq(m, 1, n) : m \in Entries, n \in 1 .. 5}
=============================================================================
