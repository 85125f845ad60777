--------------------------- MODULE MCKernelPanic ---------------------------
(***************************************************************************)
(* Two frames, so that a chain may be empty, end, fault or be a cycle; a   *)
(* short message and one longer than a row; two activations after the      *)
(* first.                                                                  *)
(***************************************************************************)
EXTENDS KernelPanic
=============================================================================
