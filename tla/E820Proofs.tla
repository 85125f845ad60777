---------------------------- MODULE E820Proofs -----------------------------
(***************************************************************************)
(* Proofs about E820, for a buffer of any size, memory maps of any length  *)
(* and a BIOS that fails at any call.                                      *)
(***************************************************************************)
EXTENDS E820, SequenceTheorems, TLAPS

\* The first n entries of the BIOS's map are in the buffer.
Holds(n) == \A i \in 1 .. n : i - 1 \in Slots /\ e820_map[i - 1] = bios.map[i]

BiosOK ==
  /\ Len(bios.map) \in Nat
  /\ bios.fails \in 0 .. Len(bios.map)
  /\ bios.ends \in {"ebx", "carry"}

StateOK ==
  /\ pc \in {"enter", "loop", "check", "exit", "done", "trapped"}
  /\ cf \in BOOLEAN
  /\ DOMAIN e820_map = Slots
  /\ e820_map_count \in Nat /\ e820_map_count <= e820_max_entries

\* Before a call, pointer and continuation agree with the count, and there is
\* room for one entry.
AtLoop == edi = e820_map_count /\ ebx = e820_map_count
          /\ e820_map_count < e820_max_entries

\* After a call that delivered: the entry behind the counted ones is stored,
\* and a zero continuation is that of the last entry.
Delivered ==
  /\ e820_map_count + 1 <= Good(bios) /\ e820_map_count < e820_max_entries
  /\ Holds(e820_map_count + 1)
  /\ edi = e820_map_count
  /\ ebx = IF e820_map_count + 1 = Len(bios.map) /\ bios.ends = "ebx"
           THEN 0 ELSE e820_map_count + 1

\* The count when a map that fits has been read to its end.
Counted ==
  IF bios.ends = "ebx" /\ Len(bios.map) > 0 THEN Len(bios.map) - 1
  ELSE Len(bios.map)

\* What WholeMapStored asks for when detect_memory returns, and the count.
Complete ==
  bios.fails = 0 =>
    /\ \A i \in 1 .. Len(bios.map) :
         i <= e820_max_entries => e820_map[i - 1] = bios.map[i]
    /\ Len(bios.map) <= e820_max_entries => e820_map_count = Counted

IInv ==
  /\ BiosOK
  /\ StateOK
  /\ e820_map_count <= Good(bios) /\ e820_map_count <= Counted
  /\ Holds(e820_map_count)
  /\ pc = "enter" => e820_map_count = 0
  /\ pc = "loop" => AtLoop
  /\ (pc = "check" /\ cf) => e820_map_count = Good(bios)
  /\ (pc = "check" /\ ~cf) => Delivered
  /\ pc \in {"exit", "done"} => Complete

LEMMA MaxIsNat ==
  /\ e820_max_entries \in Nat /\ e820_max_entries > 0
  /\ FailingCalls \subseteq Nat
BY E820Assumption

LEMMA GoodIsNat ==
  ASSUME BiosOK
  PROVE  /\ Good(bios) \in Nat /\ Good(bios) <= Len(bios.map)
         /\ bios.fails = 0 => Good(bios) = Len(bios.map)
BY DEF BiosOK, Good

LEMMA InitEstablishes == Init => IInv
<1> SUFFICES ASSUME Init PROVE IInv
  OBVIOUS
<1>1. bios.map \in Biosmaps /\ bios.ends \in {"ebx", "carry"}
      /\ bios.fails \in FailingCalls /\ bios.fails <= Len(bios.map)
  BY DEF Init
<1>2. Len(bios.map) \in Nat
  <2> DEFINE m == bios.map
  <2>1. m \in Seq({m[i] : i \in DOMAIN m})
    BY <1>1, E820Assumption
  <2> HIDE DEF m
  <2>2. Len(m) \in Nat
    BY <2>1, LenProperties
  <2> QED
    BY <2>2 DEF m
<1>3. BiosOK
  <2>1. bios.fails \in Nat
    BY <1>1, MaxIsNat
  <2>2. bios.fails \in 0 .. Len(bios.map)
    BY <1>1, <1>2, <2>1
  <2> QED
    BY <1>1, <1>2, <2>2 DEF BiosOK
<1>4. e820_map_count = 0 /\ pc = "enter" /\ cf = FALSE
      /\ DOMAIN e820_map = Slots
  BY DEF Init
<1>5. StateOK
  <2>1. cf \in BOOLEAN
    BY <1>4
  <2>2. e820_map_count \in Nat /\ e820_map_count <= e820_max_entries
    BY <1>4, MaxIsNat
  <2> QED
    BY <1>4, <2>1, <2>2 DEF StateOK
<1>6. e820_map_count <= Counted
  BY <1>2, <1>4 DEF Counted
<1> QED
  BY <1>3, <1>4, <1>5, <1>6, GoodIsNat DEF IInv, Holds

\* The BIOS call: it fails behind the good entries, or delivers the next one.
LEMMA Int15Keeps == IInv /\ Int15 => IInv'
<1> SUFFICES ASSUME IInv, Int15 PROVE IInv'
  OBVIOUS
<1> DEFINE n == e820_map_count
<1>1. /\ pc = "loop" /\ pc' = "check"
      /\ bios' = bios /\ edi' = edi /\ e820_map_count' = n
  BY DEF Int15
<1>2. /\ BiosOK /\ StateOK /\ AtLoop /\ n <= Good(bios) /\ Holds(n)
  BY <1>1 DEF IInv
<1>0. (n <= Counted)'
  BY <1>1 DEF IInv, Counted
<1>3. /\ n \in Nat /\ n < e820_max_entries /\ n \in Slots
      /\ Good(bios) \in Nat /\ Good(bios) <= Len(bios.map)
      /\ Len(bios.map) \in Nat /\ ebx = n /\ edi = n
      /\ DOMAIN e820_map = Slots
  BY <1>2, MaxIsNat, GoodIsNat DEF StateOK, AtLoop, Slots, BiosOK
<1>4. CASE n < Good(bios)
  <2>1. /\ cf' = FALSE
        /\ e820_map' = [e820_map EXCEPT ![n] = bios.map[n + 1]]
        /\ ebx' = IF n + 1 = Len(bios.map) /\ bios.ends = "ebx"
                  THEN 0 ELSE n + 1
    BY <1>3, <1>4 DEF Int15
  <2>2. ASSUME NEW i \in 1 .. n + 1
        PROVE  i - 1 \in Slots /\ e820_map'[i - 1] = bios.map[i]
    <3>0. i \in 1 .. n + 1
      BY <2>2
    <3>1. i \in Nat /\ i - 1 \in Slots
      BY <1>3, <3>0, MaxIsNat DEF Slots
    <3>2. CASE i = n + 1
      BY <1>3, <2>1, <3>1, <3>2
    <3>3. CASE i \in 1 .. n
      <4>1. e820_map[i - 1] = bios.map[i] /\ i - 1 # n
        BY <1>2, <1>3, <3>3 DEF Holds
      <4> QED
        BY <1>3, <2>1, <3>1, <4>1
    <3> QED
      BY <1>3, <3>0, <3>2, <3>3
  <2>3. Holds(n + 1)' /\ Holds(n)'
    BY <1>1, <1>3, <2>2 DEF Holds, Slots
  <2>4. DOMAIN e820_map' = Slots
    BY <1>3, <2>1
  <2>5. BiosOK' /\ StateOK'
    BY <1>1, <1>2, <2>1, <2>4 DEF BiosOK, StateOK, Slots
  <2>6. Good(bios)' = Good(bios)
    BY <1>1 DEF Good
  <2>7. Delivered'
    BY <1>1, <1>3, <1>4, <2>1, <2>3, <2>6 DEF Delivered
  <2> QED
    BY <1>0, <1>1, <1>2, <2>1, <2>3, <2>5, <2>6, <2>7 DEF IInv
<1>5. CASE ~ (n < Good(bios))
  <2>1. cf' = TRUE /\ e820_map' = e820_map /\ ebx' = ebx
    BY <1>3, <1>5 DEF Int15
  <2>2. Good(bios)' = Good(bios) /\ n = Good(bios)
    BY <1>1, <1>2, <1>3, <1>5 DEF Good
  <2>3. BiosOK' /\ StateOK' /\ Holds(n)'
    BY <1>1, <1>2, <2>1 DEF BiosOK, StateOK, Holds, Slots
  <2> QED
    BY <1>0, <1>1, <1>2, <2>1, <2>2, <2>3 DEF IInv
<1> QED
  BY <1>4, <1>5

\* The two ways to the end: the carry flag, and the last continuation.
LEMMA EndsKeep == IInv /\ (Error \/ LastEntry) => IInv'
<1> SUFFICES ASSUME IInv, Error \/ LastEntry PROVE IInv'
  OBVIOUS
<1> DEFINE n == e820_map_count
<1>1. /\ pc = "check" /\ pc' = "exit"
      /\ UNCHANGED <<bios, ebx, cf, edi, e820_map, e820_map_count>>
      /\ cf \/ (~cf /\ ebx = 0)
  BY DEF Error, LastEntry
<1>2. BiosOK /\ StateOK /\ n \in Nat /\ n <= Good(bios) /\ Holds(n)
      /\ Len(bios.map) \in Nat
  BY DEF IInv, StateOK, BiosOK
<1>2a. n <= Counted /\ (n <= Counted)'
  BY <1>1 DEF IInv, Counted
<1>3. Complete
  <2>1. CASE cf
    <3>1. bios.fails = 0 => n = Len(bios.map)
      BY <1>1, <1>2, <2>1, GoodIsNat DEF IInv
    <3>2. bios.fails = 0 => n = Counted
      BY <1>2, <1>2a, <3>1 DEF Counted
    <3> QED
      BY <1>2, <3>1, <3>2 DEF Complete, Holds
  <2>2. CASE ~cf /\ ebx = 0
    <3>1. Delivered
      BY <1>1, <2>2 DEF IInv
    <3>2. n + 1 = Len(bios.map) /\ bios.ends = "ebx" /\ Holds(n + 1)
      BY <1>2, <2>2, <3>1 DEF Delivered
    <3>3. n = Counted
      BY <1>2, <3>2 DEF Counted
    <3> QED
      BY <3>2, <3>3 DEF Complete, Holds
  <2> QED
    BY <1>1, <2>1, <2>2
<1>4. BiosOK' /\ StateOK' /\ Complete'
  BY <1>1, <1>2, <1>3 DEF BiosOK, StateOK, Complete, Counted, Slots
<1>5. e820_map_count' <= Good(bios)' /\ Holds(e820_map_count)'
  BY <1>1, <1>2 DEF Good, Holds, Slots
<1> QED
  BY <1>1, <1>4, <1>5, <1>2a DEF IInv

\* An entry is counted, and the buffer may be full with it.
LEMMA CountKeeps == IInv /\ CountEntry => IInv'
<1> SUFFICES ASSUME IInv, CountEntry PROVE IInv'
  OBVIOUS
<1> DEFINE n == e820_map_count
<1>1. /\ pc = "check" /\ ~cf /\ ebx # 0 /\ edi' = edi + 1
      /\ e820_map_count' = n + 1
      /\ UNCHANGED <<bios, ebx, cf, e820_map>>
      /\ IF n + 1 = e820_max_entries THEN pc' = "exit" ELSE pc' = "loop"
  BY DEF CountEntry, Full
<1>2. /\ BiosOK /\ StateOK /\ n \in Nat /\ Len(bios.map) \in Nat
      /\ Good(bios) \in Nat /\ Good(bios) <= Len(bios.map)
      /\ bios.fails = 0 => Good(bios) = Len(bios.map)
  BY GoodIsNat DEF IInv, StateOK, BiosOK
<1>3. Delivered
  BY <1>1 DEF IInv
<1>4. /\ n + 1 <= Good(bios) /\ n < e820_max_entries /\ Holds(n + 1)
      /\ edi = n /\ ebx = n + 1
  BY <1>1, <1>3 DEF Delivered
<1>4a. n + 1 <= Counted /\ Counted <= Len(bios.map) /\ Counted' = Counted
      /\ Counted \in Nat
  <2>1. ~(n + 1 = Len(bios.map) /\ bios.ends = "ebx")
    BY <1>1, <1>3 DEF Delivered
  <2> QED
    BY <1>1, <1>2, <1>4, <2>1 DEF Counted
<1>4b. (e820_map_count <= Counted)'
  BY <1>1, <1>4a
<1>5. /\ BiosOK' /\ StateOK'
      /\ e820_map_count' <= Good(bios)' /\ Holds(e820_map_count)'
  <2>1. BiosOK' /\ Good(bios)' = Good(bios)
    BY <1>1, <1>2 DEF BiosOK, Good
  <2>2. e820_map_count' \in Nat /\ e820_map_count' <= e820_max_entries
    BY <1>1, <1>2, <1>4, MaxIsNat
  <2>3. StateOK'
    BY <1>1, <1>2, <2>2 DEF StateOK, Slots
  <2>4. Holds(e820_map_count)'
    BY <1>1, <1>4 DEF Holds, Slots
  <2> QED
    BY <1>1, <1>4, <2>1, <2>3, <2>4
<1>6. CASE n + 1 = e820_max_entries
  <2>1. Len(bios.map) <= e820_max_entries => n + 1 = Counted
    BY <1>2, <1>4, <1>6, <1>4a, MaxIsNat
  <2>2. Complete'
    BY <1>1, <1>2, <1>4, <1>6, <1>4a, <2>1 DEF Complete, Holds
  <2> QED
    BY <1>1, <1>5, <1>6, <1>4b, <2>2 DEF IInv
<1>7. CASE n + 1 # e820_max_entries
  <2>1. AtLoop'
    BY <1>1, <1>2, <1>4, <1>7, MaxIsNat DEF AtLoop
  <2> QED
    BY <1>1, <1>5, <1>7, <1>4b, <2>1 DEF IInv
<1> QED
  BY <1>6, <1>7

LEMMA EnterKeeps == IInv /\ Enter => IInv'
<1> SUFFICES ASSUME IInv, Enter PROVE IInv'
  OBVIOUS
<1>1. /\ pc' = "loop" /\ edi' = 0 /\ ebx' = 0 /\ e820_map_count' = 0
      /\ UNCHANGED <<bios, cf, e820_map>>
  BY DEF Enter
<1>2. BiosOK' /\ Good(bios)' = Good(bios)
  BY <1>1 DEF IInv, BiosOK, Good
<1>3. StateOK'
  BY <1>1, MaxIsNat DEF IInv, StateOK, Slots
<1>4. AtLoop' /\ Holds(e820_map_count)' /\ e820_map_count' <= Good(bios)'
  BY <1>1, <1>2, MaxIsNat, GoodIsNat DEF AtLoop, Holds, IInv
<1>5. (e820_map_count <= Counted)'
  BY <1>1 DEF IInv, BiosOK, Counted
<1> QED
  BY <1>1, <1>2, <1>3, <1>4, <1>5 DEF IInv

LEMMA ExitKeeps == IInv /\ (Exit \/ Gate21 \/ UNCHANGED vars) => IInv'
<1> SUFFICES ASSUME IInv, Exit \/ Gate21 \/ UNCHANGED vars PROVE IInv'
  OBVIOUS
<1>1. /\ UNCHANGED <<bios, ebx, cf, edi, e820_map, e820_map_count>>
      /\ \/ pc' = pc
         \/ pc = "exit" /\ pc' = "done"
         \/ pc' = "trapped"
  BY DEF Exit, Gate21, vars
<1>2. BiosOK' /\ StateOK' /\ Good(bios)' = Good(bios)
  BY <1>1 DEF IInv, BiosOK, StateOK, Slots, Good
<1>3. Holds(e820_map_count)' /\ (Complete => Complete') /\ (AtLoop => AtLoop')
  BY <1>1 DEF IInv, Holds, Slots, Complete, Counted, AtLoop
<1>4. Delivered => Delivered'
  BY <1>1, <1>2 DEF Delivered, Holds, Slots
<1>5. (e820_map_count <= Counted)'
  BY <1>1 DEF IInv, Counted
<1> QED
  BY <1>1, <1>2, <1>3, <1>4, <1>5 DEF IInv

\* The inductive invariant of detect_memory.
THEOREM MapInvariant == Spec => []IInv
<1>1. IInv /\ [Next]_vars => IInv'
  BY EnterKeeps, Int15Keeps, EndsKeep, CountKeeps, ExitKeeps DEF Next
<1> QED
  BY <1>1, InitEstablishes, PTL DEF Spec

\* detect_memory never counts or writes behind its buffer, for maps of any
\* length (main.core.asm:666).
THEOREM StaysInBuffer == Spec => []WithinBuffer
<1>1. IInv => WithinBuffer
  BY MaxIsNat DEF IInv, StateOK, AtLoop, WithinBuffer, Slots
<1> QED
  BY <1>1, MapInvariant, PTL

\* What it counts are the BIOS's entries, in order, also when a call fails
\* in the middle (main.core.asm:652-668).
THEOREM CountsDelivered == Spec => []CountedAreDelivered
<1>1. IInv => CountedAreDelivered
  BY DEF IInv, Holds, CountedAreDelivered
<1> QED
  BY <1>1, MapInvariant, PTL

\* Without a failing call as much of the map as fits is in the buffer when
\* detect_memory returns, for either way of telling the end
\* (main.core.asm:657-675).
THEOREM NothingMissing == Spec => []WholeMapStored
<1>1. IInv => WholeMapStored
  BY DEF IInv, Complete, WholeMapStored
<1> QED
  BY <1>1, MapInvariant, PTL

\* A map that fits, and whose end the BIOS tells by EBX = 0, is counted one
\* short: e820_map_count is not the number of entries that main.core.asm:636
\* calls it, for the jump of line 661 leaves before line 665 counts. Told by
\* the carry flag, the count is right.
THEOREM LastEntryUncounted ==
  Spec => [](pc = "done" /\ bios.fails = 0
               /\ Len(bios.map) \in 1 .. e820_max_entries
             => e820_map_count = IF bios.ends = "ebx" THEN Len(bios.map) - 1
                                                     ELSE Len(bios.map))
<1>1. IInv => (pc = "done" /\ bios.fails = 0
                 /\ Len(bios.map) \in 1 .. e820_max_entries
               => e820_map_count = IF bios.ends = "ebx" THEN Len(bios.map) - 1
                                                       ELSE Len(bios.map))
  BY MaxIsNat DEF IInv, Complete, Counted
<1> QED
  BY <1>1, MapInvariant, PTL
=============================================================================
