--------------------------- MODULE MCKeyboardIrq ---------------------------
(***************************************************************************)
(* Four keys on a screen two columns wide: enough for a row to wrap, for a *)
(* Backspace at its beginning, for a byte in the buffer with others behind *)
(* it while the handler runs, and for keys at every step of the boot.      *)
(* isr_handler finds the number it expects or another one, and iret comes  *)
(* back or not; AsBuilt are arguments that the stub of isr.s leaves.       *)
(***************************************************************************)
EXTENDS KeyboardIrq

CONSTANTS a, b, enter, backspace, release

Letters  == {a, b}
Unmapped == {release}

Numbers == {33, 16}
AsBuilt == {16, 24 + 65536 * 33}
Either  == BOOLEAN
Never   == {FALSE}
=============================================================================
