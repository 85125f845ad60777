-------------------------------- MODULE E820 --------------------------------
(***************************************************************************)
(* detect_memory of main.core.asm: asks the BIOS for the memory map, one   *)
(* entry per call of INT 15h with EAX = E820h, and stores the entries one  *)
(* behind the other in e820_map.                                           *)
(*                                                                         *)
(* The BIOS is modelled from how the code uses it: EBX says where to go on *)
(* and comes back as 0 with the last entry, or the call after the last     *)
(* entry sets the carry flag; a call may also fail.                        *)
(*                                                                         *)
(* That is what the routine is written for.  As the file stands it runs in *)
(* protected mode, where INT 15h goes to the kernel's own gate 21 and not  *)
(* to a BIOS: Gate21 is then the only thing that can happen.               *)
(***************************************************************************)
EXTENDS Integers, Sequences

CONSTANTS
  Biosmaps,           (* the memory maps a BIOS may have: sequences       *)
  FailingCalls,       (* which call of the BIOS may fail, 0 for none      *)
  e820_max_entries

ASSUME E820Assumption ==
  /\ \A m \in Biosmaps : m \in Seq({m[i] : i \in DOMAIN m})
  /\ FailingCalls \subseteq Nat
  /\ e820_max_entries \in Nat \ {0}

VARIABLES
  bios,            (* [map |-> its memory map, ends |-> how it tells the end, *)
                   (*  fails |-> the entry at which a call fails, or 0]      *)
  pc,
  ebx,             (* continuation: the entries delivered, 0 at the ends  *)
  cf,              (* the carry flag, or a wrong signature, after a call  *)
  edi,             (* where the next entry goes, in entries               *)
  e820_map,
  e820_map_count,
  eax              (* the result register: "caller" is what it held before *)

vars == <<bios, pc, ebx, cf, edi, e820_map, e820_map_count, eax>>

Slots == 0 .. e820_max_entries - 1
Empty == "empty"

\* How many of the BIOS's calls succeed.
Good(b) == IF b.fails = 0 THEN Len(b.map) ELSE b.fails - 1

Init ==
  /\ bios \in [map : Biosmaps, ends : {"ebx", "carry"}, fails : FailingCalls]
  /\ bios.fails <= Len(bios.map)
  /\ pc = "enter" /\ ebx = 0 /\ cf = FALSE /\ edi = 0
  /\ e820_map = [s \in Slots |-> Empty]
  /\ e820_map_count = 0
  /\ eax = "caller"

Enter ==
  /\ pc = "enter" /\ pc' = "loop"
  /\ edi' = 0 /\ ebx' = 0 /\ e820_map_count' = 0
  /\ UNCHANGED <<bios, cf, e820_map, eax>>

\* INT 15h: the entry after the ebx delivered so far, written at edi.
Int15 ==
  /\ pc = "loop" /\ pc' = "check"
  /\ IF ebx < Good(bios)
       THEN /\ cf' = FALSE
            /\ e820_map' = [e820_map EXCEPT ![edi] = bios.map[ebx + 1]]
            /\ ebx' = IF ebx + 1 = Len(bios.map) /\ bios.ends = "ebx"
                        THEN 0 ELSE ebx + 1
       ELSE cf' = TRUE /\ UNCHANGED <<e820_map, ebx>>
  /\ eax' = "signature"
  /\ UNCHANGED <<bios, edi, e820_map_count>>

\* In protected mode vector 21 is isr21's (populate_idt). It is a stub for an
\* exception with an error code, which INT does not push, so it does not come
\* back here (TrapStubs).
Gate21 ==
  /\ pc = "loop" /\ pc' = "trapped"
  /\ UNCHANGED <<bios, ebx, cf, edi, e820_map, e820_map_count, eax>>

Error ==
  /\ pc = "check" /\ cf
  /\ eax' = "0" /\ pc' = "exit"
  /\ UNCHANGED <<bios, ebx, cf, edi, e820_map, e820_map_count>>

\* A mutant of LastEntry: the zero continuation is not taken for the end.
LastEntryMissed ==
  /\ pc = "check" /\ ~cf /\ ebx = 0
  /\ pc' = "loop"
  /\ UNCHANGED <<bios, ebx, cf, edi, e820_map, e820_map_count, eax>>

\* The last entry is in place; it is not counted.
LastEntry ==
  /\ pc = "check" /\ ~cf /\ ebx = 0
  /\ eax' = "1" /\ pc' = "exit"
  /\ UNCHANGED <<bios, ebx, cf, edi, e820_map, e820_map_count>>

\* A mutant of Full: one entry more than there is room for.
FullLate(n) == n > e820_max_entries

\* A mutant of Full: one entry is left unused.
FullEarly(n) == n = e820_max_entries - 1

Full(n) == n = e820_max_entries

\* A mutant of CountEntry: the store pointer is not moved.
CountWithoutMove ==
  /\ pc = "check" /\ ~cf /\ ebx # 0
  /\ e820_map_count' = e820_map_count + 1
  /\ IF Full(e820_map_count') THEN eax' = "1" /\ pc' = "exit"
                              ELSE pc' = "loop" /\ UNCHANGED eax
  /\ UNCHANGED <<bios, ebx, cf, edi, e820_map>>

CountEntry ==
  /\ pc = "check" /\ ~cf /\ ebx # 0
  /\ edi' = edi + 1
  /\ e820_map_count' = e820_map_count + 1
  /\ IF Full(e820_map_count') THEN eax' = "1" /\ pc' = "exit"
                              ELSE pc' = "loop" /\ UNCHANGED eax
  /\ UNCHANGED <<bios, ebx, cf, e820_map>>

\* popa restores every register, eax among them.
Exit ==
  /\ pc = "exit" /\ pc' = "done"
  /\ eax' = "caller"
  /\ UNCHANGED <<bios, ebx, cf, edi, e820_map, e820_map_count>>

Next == Enter \/ Int15 \/ Gate21 \/ Error \/ LastEntry \/ CountEntry \/ Exit

Spec == Init /\ [][Next]_vars

FairSpec == Spec /\ WF_vars(Next)

-----------------------------------------------------------------------------
(* Properties *)

\* The count fits the buffer, and every entry is written inside it.
WithinBuffer ==
  /\ e820_map_count \in 0 .. e820_max_entries
  /\ pc = "loop" => edi \in Slots

\* The entries counted are the BIOS's entries, each once and in its order.
CountedAreDelivered ==
  /\ e820_map_count <= Good(bios)
  /\ \A i \in 1 .. e820_map_count : e820_map[i - 1] = bios.map[i]

\* detect_memory ends for every BIOS, one with more entries than there is
\* room for included, unless the kernel's own gate takes it away.
Terminates == <>(pc \in {"done", "trapped"})

\* When no call failed, as much of the map as there is room for is in the
\* buffer, in order, whichever way the BIOS tells the end.
WholeMapStored ==
  pc = "done" /\ bios.fails = 0 =>
    \A i \in 1 .. Len(bios.map) :
      i <= e820_max_entries => e820_map[i - 1] = bios.map[i]
=============================================================================
