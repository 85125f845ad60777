--------------------------- MODULE PageAllocator ---------------------------
(***************************************************************************)
(* What a physical page allocator without a working free promises its      *)
(* callers: a set of pages is put under management once, a request hands   *)
(* out a page that nobody holds yet, and a request is refused only when    *)
(* every managed page is held.                                             *)
(*                                                                         *)
(* kernel/pmm.c implements this with a bump pointer (module Pmm).          *)
(***************************************************************************)
CONSTANTS
  Frames,   (* every address a page can start at; NULL is not one of them *)
  NULL      (* the result of a refused request                           *)

VARIABLES
  pool,     (* the pages under management, {} until the manager is up    *)
  owned,    (* the pages that have been handed out                       *)
  ret       (* the result of the latest request                          *)

vars == <<pool, owned, ret>>

Init ==
  /\ pool  = {}
  /\ owned = {}
  /\ ret   = NULL

Open ==
  /\ pool = {}
  /\ pool' \in SUBSET Frames
  /\ UNCHANGED <<owned, ret>>

Allocate ==
  \E p \in pool \ owned :
    /\ owned' = owned \cup {p}
    /\ ret'   = p
    /\ UNCHANGED pool

Refuse ==
  /\ pool \subseteq owned
  /\ ret' = NULL
  /\ UNCHANGED <<pool, owned>>

Next == Open \/ Allocate \/ Refuse

Spec == Init /\ [][Next]_vars
=============================================================================
