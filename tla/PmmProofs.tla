----------------------------- MODULE PmmProofs -----------------------------
(***************************************************************************)
(* Theorems about the physical memory manager, for every address width,    *)
(* page size, kernel end and well-formed set of memory maps.               *)
(*                                                                         *)
(* The first part holds for every map.  The second assumes TopPageUnused:  *)
(* without it the bump pointer wraps and the statements are false.         *)
(***************************************************************************)
EXTENDS Pmm, FiniteSetTheorems, TLAPS

-----------------------------------------------------------------------------
(* Arithmetic *)

\* The cut to 32 bits yields a u32.
LEMMA U32Type == ASSUME NEW x \in Int PROVE U32(x) \in 0 .. Word - 1
  BY PmmAssumption, SMT DEF U32

\* The cut leaves a u32 alone.
LEMMA U32Small == ASSUME NEW x \in 0 .. Word - 1 PROVE U32(x) = x
  BY PmmAssumption, SMT DEF U32

\* One past the top wraps to zero and so on: a sum less than a word above
\* the top loses exactly one word.
LEMMA U32Wrap ==
  ASSUME NEW x \in Word .. 2 * Word - 1 PROVE U32(x) = x - Word
  BY PmmAssumption, SMT DEF U32

-----------------------------------------------------------------------------
(* What holds for every memory map *)

\* What the walk has established about the entries before byte mmap.
WalkedSoFar ==
  /\ mmap \in DOMAIN mbd.mmap \cup {mbd.mmap_length}
  /\ \A o \in UsableEntries(mbd) :
       o < mmap => mbd.mmap[o].length <= best_region_len
  /\ \/ best_region_base = 0 /\ best_region_len = 0
     \/ \E o \in UsableEntries(mbd) :
          /\ o < mmap
          /\ mbd.mmap[o].base_addr = best_region_base
          /\ mbd.mmap[o].length = best_region_len
          /\ \A q \in UsableEntries(mbd) :
               q < o => mbd.mmap[q].length < best_region_len

\* The bump pointer stays between the start and the end.
BreakInBounds ==
  /\ pc = "check" =>
       pmm_start_addr = 0 /\ pmm_current_break = 0 /\ pmm_memory_end = 0
  /\ pc = "ready" =>
       pmm_current_break <= pmm_memory_end /\ pmm_start_addr < pmm_memory_end

IInv ==
  /\ TypeOK
  /\ pc \in {"walk", "ready"} => WalkedSoFar
  /\ pc = "ready" => mmap = mbd.mmap_length
  /\ BreakInBounds

\* It holds at boot.
LEMMA InitIInv == Init => IInv
  BY PmmAssumption, SMT
  DEF Init, IInv, TypeOK, BreakInBounds, NULL

\* Division: a number lies between the multiple of d below it and the next.
LEMMA DivMod ==
  ASSUME NEW a \in Nat, NEW d \in Nat \ {0}
  PROVE  /\ a \div d \in Nat
         /\ a % d \in 0 .. d - 1
         /\ a = (a \div d) * d + (a % d)
  BY SMT

\* The end of the kernel rounds up to a u32 that starts a page.
LEMMA AlignUpKernelEnd ==
  /\ AlignUp(KernelEnd) \in KernelEnd .. Word - 1
  /\ \E k \in Nat : AlignUp(KernelEnd) = k * PageSize
<1> DEFINE k == KernelEnd \div PageSize
           r == KernelEnd % PageSize
<1>1. k \in Nat /\ r \in 0 .. PageSize - 1 /\ KernelEnd = k * PageSize + r
  BY DivMod, PmmAssumption
<1>2. k * PageSize \in Nat
  BY <1>1, PmmAssumption, SMT
<1>3. (k + 1) * PageSize = k * PageSize + PageSize
  BY <1>1, PmmAssumption, SMT
<1> HIDE DEF k, r
<1>4. CASE r = 0
  <2>1. AlignUp(KernelEnd) = KernelEnd
    BY <1>4 DEF AlignUp, r
  <2> QED  BY <2>1, <1>1, <1>2, <1>4, PmmAssumption, SMT
<1>5. CASE r # 0
  <2>1. AlignUp(KernelEnd) = U32((k + 1) * PageSize)
    BY <1>5 DEF AlignUp, r, k
  <2>2. (k + 1) * PageSize \in KernelEnd .. Word - 1
    BY <1>1, <1>2, <1>3, <1>5, PmmAssumption, SMT
  <2>3. (k + 1) * PageSize \in 0 .. Word - 1
    BY <2>2, PmmAssumption, SMT
  <2>4. AlignUp(KernelEnd) = (k + 1) * PageSize
    BY <2>1, <2>3, U32Small
  <2> QED  BY <2>2, <2>4, <1>1
<1> QED  BY <1>4, <1>5

-----------------------------------------------------------------------------
(* Every step preserves the invariant. *)

\* The walk of a map: what is established before an entry is established
\* before the next one.
LEMMA WalkEntryKeepsIInv == IInv /\ WalkEntry => IInv'
<1> SUFFICES ASSUME IInv, WalkEntry PROVE IInv'
  OBVIOUS
<1> DEFINE e == mbd.mmap[mmap]
<1>1. mbd \in BootInfos /\ WellFormed(mbd)
  BY PmmAssumption DEF IInv, TypeOK
<1>2. mmap \in DOMAIN mbd.mmap /\ mmap \in Nat /\ WalkedSoFar
  BY <1>1 DEF IInv, TypeOK, WalkedSoFar, WalkEntry, WellFormed
<1>3. /\ e.length \in Nat /\ e.base_addr \in Nat /\ e.size \in Nat
      /\ mmap' = After(mbd, mmap)
      /\ mmap' \in DOMAIN mbd.mmap \cup {mbd.mmap_length}
      /\ mmap' \in Nat /\ mmap' > mmap
      /\ \A q \in DOMAIN mbd.mmap : q < mmap' => q <= mmap
  BY <1>1, <1>2 DEF WellFormed, WalkEntry, NextEntry, After, SizeField
<1>4. TypeOK'
  BY <1>3 DEF IInv, TypeOK, WalkEntry, best, state
<1>5. WalkedSoFar'
  <2>1. UsableEntries(mbd)' = UsableEntries(mbd) /\ mbd' = mbd
    BY DEF WalkEntry, UsableEntries
  <2>2. \A o \in UsableEntries(mbd) :
          /\ o \in DOMAIN mbd.mmap /\ o \in Nat /\ Usable(mbd.mmap[o])
          /\ mbd.mmap[o].length \in Nat
    BY <1>1 DEF UsableEntries, WellFormed
  <2>3. best_region_len \in Nat
    BY DEF IInv, TypeOK
  <2>4. CASE Better(e)
    <3>1. best_region_base' = e.base_addr /\ best_region_len' = e.length
      BY <2>4 DEF WalkEntry
    <3>2. mmap \in UsableEntries(mbd) /\ e.length > best_region_len
      BY <2>4, <1>2 DEF Better, UsableEntries
    <3>3. \A q \in UsableEntries(mbd) :
            q < mmap => mbd.mmap[q].length < e.length
      BY <1>2, <1>3, <2>2, <2>3, <3>2 DEF WalkedSoFar
    <3>4. \A o \in UsableEntries(mbd) :
            o < mmap' => mbd.mmap[o].length <= e.length
      BY <1>2, <1>3, <2>2, <3>3
    <3> QED
      BY <1>3, <2>1, <3>1, <3>2, <3>3, <3>4 DEF WalkedSoFar
  <2>5. CASE ~Better(e)
    <3>1. best_region_base' = best_region_base
          /\ best_region_len' = best_region_len
      BY <2>5 DEF WalkEntry, best
    <3>2. \A o \in UsableEntries(mbd) :
            o < mmap' => mbd.mmap[o].length <= best_region_len
      BY <1>2, <1>3, <2>2, <2>3, <2>5 DEF WalkedSoFar, Better
    <3>3. \A o \in UsableEntries(mbd) : o < mmap => o < mmap'
      BY <1>2, <1>3, <2>2
    <3> QED
      BY <1>2, <1>3, <2>1, <3>1, <3>2, <3>3 DEF WalkedSoFar
  <2> QED  BY <2>4, <2>5
<1> QED  BY <1>4, <1>5 DEF IInv, BreakInBounds, WalkEntry, state

\* The end of the walk sets the allocator up or stops the kernel.
LEMMA FinishInitKeepsIInv == IInv /\ FinishInit => IInv'
<1> SUFFICES ASSUME IInv, FinishInit PROVE IInv'
  OBVIOUS
<1>1. mbd \in BootInfos /\ WellFormed(mbd)
  BY PmmAssumption DEF IInv, TypeOK
<1>2. WalkedSoFar /\ mmap \in Nat /\ mmap = mbd.mmap_length
  BY <1>1 DEF IInv, TypeOK, FinishInit, WalkedSoFar, WellFormed
<1>3. /\ pmm_current_break' \in 0 .. Word - 1
      /\ pmm_memory_end' \in 0 .. Word - 1
  <2>1. best_region_base \in Nat /\ best_region_len \in Nat
    BY DEF IInv, TypeOK
  <2>2. U32(best_region_base) + U32(best_region_len) \in Int
    BY <2>1, U32Type
  <2>3. RegionEnd \in 0 .. Word - 1
    BY <2>2, U32Type DEF RegionEnd
  <2> QED  BY <2>3, AlignUpKernelEnd, PmmAssumption DEF FinishInit
<1>4. TypeOK'
  BY <1>3 DEF IInv, TypeOK, FinishInit, best
<1>5. WalkedSoFar'
  BY <1>2 DEF FinishInit, WalkedSoFar, best, UsableEntries
<1>6. BreakInBounds'
  BY <1>3 DEF FinishInit, BreakInBounds
<1> QED  BY <1>2, <1>4, <1>5, <1>6 DEF IInv, FinishInit

\* A request moves the bump pointer up to the end at most; before init_pmm
\* the end is 0 and every request is refused.
LEMMA AllocKeepsIInv == IInv /\ pmm_alloc_page => IInv'
<1> SUFFICES ASSUME IInv, pmm_alloc_page PROVE IInv'
  OBVIOUS
<1>1. U32(pmm_current_break + PageSize) \in 0 .. Word - 1
  BY U32Type, PmmAssumption DEF IInv, TypeOK
<1>2. TypeOK'
  <2>1. 0 \in 0 .. Word - 1
    BY PmmAssumption
  <2>2. ret' \in 0 .. Word - 1 /\ pmm_current_break' \in 0 .. Word - 1
    BY <1>1, <2>1 DEF IInv, TypeOK, pmm_alloc_page, NULL
  <2>3. owned' \subseteq 0 .. Word - 1
    BY DEF IInv, TypeOK, pmm_alloc_page
  <2>4. UNCHANGED <<mbd, pc, mmap, best_region_base, best_region_len,
                    pmm_memory_end, pmm_start_addr>>
    BY DEF pmm_alloc_page, best
  <2> QED  BY <2>2, <2>3, <2>4 DEF IInv, TypeOK
<1>3. pc = "check" => ~HasRoom
  <2> SUFFICES ASSUME pc = "check" PROVE ~HasRoom
    OBVIOUS
  <2>1. HasRoom <=> U32(PageSize) <= 0
    BY PmmAssumption DEF HasRoom, IInv, BreakInBounds
  <2>2. PageSize \in 0 .. Word - 1
    BY PmmAssumption
  <2> QED  BY <2>1, <2>2, U32Small, PmmAssumption
<1>4. BreakInBounds'
  BY <1>1, <1>3 DEF IInv, BreakInBounds, pmm_alloc_page, HasRoom
<1>5. pc \in {"walk", "ready"} => WalkedSoFar'
  BY DEF IInv, WalkedSoFar, pmm_alloc_page, best, UsableEntries
<1> QED  BY <1>2, <1>4, <1>5 DEF IInv, pmm_alloc_page

\* Every step keeps the invariant.
LEMMA NextIInv == IInv /\ [Next]_vars => IInv'
<1> SUFFICES ASSUME IInv, [Next]_vars PROVE IInv'
  OBVIOUS
<1>1. CASE RejectBootInfo
  BY <1>1 DEF RejectBootInfo, IInv, TypeOK, BreakInBounds, best, state
<1>2. CASE AcceptBootInfo
  <2>1. mbd \in BootInfos /\ WellFormed(mbd)
    BY PmmAssumption DEF IInv, TypeOK
  <2>2. 0 \in DOMAIN mbd.mmap \cup {mbd.mmap_length}
    BY <2>1 DEF WellFormed
  <2>3. \A o \in UsableEntries(mbd) : o \in Nat
    BY <2>1 DEF UsableEntries, WellFormed
  <2>4. WalkedSoFar'
    BY <1>2, <2>2, <2>3 DEF WalkedSoFar, AcceptBootInfo, UsableEntries
  <2> QED
    BY <1>2, <2>4 DEF AcceptBootInfo, IInv, TypeOK, BreakInBounds, state
<1>3. CASE WalkEntry
  BY <1>3, WalkEntryKeepsIInv
<1>4. CASE FinishInit
  BY <1>4, FinishInitKeepsIInv
<1>5. CASE pmm_alloc_page
  BY <1>5, AllocKeepsIInv
<1>6. ASSUME NEW p \in owned, pmm_free_page(p) PROVE IInv'
  BY <1>6 DEF pmm_free_page, vars, best, state, IInv, TypeOK, BreakInBounds,
              WalkedSoFar, UsableEntries
<1>7. CASE UNCHANGED vars
  BY <1>7 DEF vars, best, state, IInv, TypeOK, BreakInBounds,
              WalkedSoFar, UsableEntries
<1> QED  BY <1>1, <1>2, <1>3, <1>4, <1>5, <1>6, <1>7 DEF Next

\* The invariant holds of every run, for every map.
THEOREM InvariantHolds == Spec => []IInv
  BY InitIInv, NextIInv, PTL DEF Spec

\* Every cell of the allocator keeps its type, so no sum or cast of
\* init_pmm and pmm_alloc_page leaves the u32 range.
THEOREM TypeCorrect == Spec => []TypeOK
<1>1. IInv => TypeOK
  BY DEF IInv
<1> QED  BY <1>1, InvariantHolds, PTL

\* The walk reads memory-map entries only where they start (pmm.c:26-34).
THEOREM WalkSafe == Spec => []WalkOnEntries
<1>1. IInv => WalkOnEntries
  BY DEF IInv, WalkOnEntries, WalkedSoFar
<1> QED  BY <1>1, InvariantHolds, PTL

\* The region init_pmm keeps is the first of the longest usable regions of
\* the map (pmm.c:21-34).
THEOREM LargestChosen == Spec => []LargestRegionChosen
<1>1. ASSUME IInv PROVE LargestRegionChosen
  <2> SUFFICES ASSUME pc \in {"walk", "ready"}, mmap = mbd.mmap_length
               PROVE  LargestRegionChosen
    BY <1>1 DEF LargestRegionChosen, IInv
  <2>1. \A o \in UsableEntries(mbd) : o < mmap
    BY <1>1, PmmAssumption DEF IInv, TypeOK, WellFormed, UsableEntries
  <2> QED  BY <1>1, <2>1 DEF IInv, WalkedSoFar, LargestRegionChosen, best
<1> QED  BY <1>1, InvariantHolds, PTL

\* The counters memstat prints are consistent after any number of requests
\* (pmm.c:76-93).
THEOREM StatsNeverContradict == Spec => []StatsConsistent
<1>1. ASSUME IInv PROVE StatsConsistent
  <2> SUFFICES ASSUME pc \in {"check", "ready"}
               PROVE  /\ pmm_get_used_mem <= pmm_get_total_mem
                      /\ pmm_get_used_mem + pmm_get_free_memory
                           = pmm_get_total_mem
    BY DEF StatsConsistent
  <2>1. /\ pmm_memory_end \in 0 .. Word - 1
        /\ pmm_current_break \in 0 .. Word - 1
        /\ pmm_start_addr \in 0 .. Word - 1
        /\ pmm_current_break <= pmm_memory_end
        /\ pmm_start_addr <= pmm_memory_end
    BY <1>1, PmmAssumption DEF IInv, TypeOK, BreakInBounds
  <2>2. /\ pmm_get_total_mem = pmm_memory_end - pmm_start_addr
        /\ pmm_get_total_mem \in 0 .. Word - 1
    BY <2>1, PmmAssumption, U32Small DEF pmm_get_total_mem
  <2>3. /\ pmm_get_used_mem \in 0 .. Word - 1
        /\ pmm_get_used_mem <= pmm_get_total_mem
    <3>1. CASE pmm_current_break < pmm_start_addr
      BY <3>1, <2>1, <2>2, PmmAssumption DEF pmm_get_used_mem
    <3>2. CASE ~(pmm_current_break < pmm_start_addr)
      <4>1. pmm_current_break - pmm_start_addr \in 0 .. Word - 1
        BY <3>2, <2>1, PmmAssumption
      <4>2. pmm_get_used_mem = pmm_current_break - pmm_start_addr
        BY <3>2, <4>1, U32Small DEF pmm_get_used_mem
      <4> QED  BY <4>1, <4>2, <2>1, <2>2
    <3> QED  BY <3>1, <3>2
  <2>4. pmm_get_total_mem - pmm_get_used_mem \in 0 .. Word - 1
    BY <2>2, <2>3, PmmAssumption
  <2>5. pmm_get_free_memory = pmm_get_total_mem - pmm_get_used_mem
    BY <2>4, U32Small DEF pmm_get_free_memory
  <2> QED  BY <2>2, <2>3, <2>5
<1> QED  BY <1>1, InvariantHolds, PTL

-----------------------------------------------------------------------------
(* What holds when no usable region reaches the last page of the address   *)
(* space: the bump pointer never wraps.                                    *)

\* The pages from address lo up to address hi.
PagesFrom(lo, hi) == {a \in lo .. hi - 1 : IsPage(a)}

\* While the manager is up, the pages handed out are exactly those between
\* the start and the bump pointer, and so are counted by it.
BumpInv ==
  /\ pc # "ready" => owned = {}
  /\ pc = "ready" =>
       /\ pmm_start_addr >= KernelEnd
       /\ pmm_memory_end = RegionEnd
       /\ pmm_memory_end + PageSize < Word
       /\ IsPage(pmm_current_break)
       /\ pmm_start_addr <= pmm_current_break
       /\ owned = PagesFrom(pmm_start_addr, pmm_current_break)
       /\ IsFiniteSet(owned)
       /\ pmm_current_break = pmm_start_addr + PageSize * Cardinality(owned)

\* Multiples of the page size differ by a page size at least.
LEMMA PagesApart ==
  ASSUME NEW j \in Nat, NEW k \in Nat, j < k
  PROVE  j * PageSize + PageSize <= k * PageSize
<1>1. PICK d \in Nat : k = j + 1 + d
  <2>1. k - j - 1 \in Nat /\ k = j + 1 + (k - j - 1)
    OBVIOUS
  <2> QED  BY <2>1
<1>2. k * PageSize = j * PageSize + PageSize + d * PageSize
  BY <1>1, PmmAssumption, SMT
<1>3. d * PageSize \in Nat /\ j * PageSize \in Nat
  BY PmmAssumption, SMT
<1> QED  BY <1>2, <1>3, PmmAssumption

\* A page at or above a page b and below the next page is b.
LEMMA NoPageBetween ==
  ASSUME NEW a \in Nat, NEW b \in Nat, IsPage(a), IsPage(b), a < b
  PROVE  a + PageSize <= b
<1>1. PICK j \in 0 .. Word : a = j * PageSize
  BY DEF IsPage
<1>2. PICK k \in 0 .. Word : b = k * PageSize
  BY DEF IsPage
<1>3. j \in Nat /\ k \in Nat
  BY PmmAssumption
<1>4. j < k
  <2>1. CASE j = k
    BY <2>1, <1>1, <1>2
  <2>2. CASE k < j
    <3>1. b + PageSize <= a
      BY <2>2, <1>1, <1>2, <1>3, PagesApart
    <3> QED  BY <3>1, PmmAssumption
  <2> QED  BY <2>1, <2>2, <1>3
<1> QED  BY <1>1, <1>2, <1>3, <1>4, PagesApart

\* Moving up by a page adds one page.
LEMMA PagesFromStep ==
  ASSUME NEW lo \in Nat, NEW b \in Nat, lo <= b, IsPage(b)
  PROVE  PagesFrom(lo, b + PageSize) = PagesFrom(lo, b) \cup {b}
<1>1. ASSUME NEW a \in PagesFrom(lo, b + PageSize), a # b
      PROVE  a \in PagesFrom(lo, b)
  <2>1. a \in Nat /\ lo <= a /\ a < b + PageSize /\ IsPage(a)
    BY <1>1, PmmAssumption DEF PagesFrom
  <2>2. b < a => b + PageSize <= a
    BY <2>1, NoPageBetween
  <2>3. a \in lo .. b - 1
    BY <1>1, <2>1, <2>2, PmmAssumption
  <2> QED  BY <2>1, <2>3 DEF PagesFrom
<1>2. ASSUME NEW a \in PagesFrom(lo, b)
      PROVE  a \in PagesFrom(lo, b + PageSize)
  BY PmmAssumption DEF PagesFrom
<1>3. b \in PagesFrom(lo, b + PageSize)
  BY PmmAssumption DEF PagesFrom
<1> QED  BY <1>1, <1>2, <1>3

\* The page after a page starts a page, if it is still a u32.
LEMMA NextIsPage ==
  ASSUME NEW b \in Nat, IsPage(b), b + PageSize < Word
  PROVE  IsPage(b + PageSize)
<1>1. PICK k \in 0 .. Word : b = k * PageSize
  BY DEF IsPage
<1>2. (k + 1) * PageSize = b + PageSize /\ k \in Nat
  BY <1>1, PmmAssumption, SMT
<1>3. k * PageSize >= k
  BY <1>2, PmmAssumption, SMT
<1>4. k + 1 \in 0 .. Word
  BY <1>1, <1>2, <1>3, PmmAssumption
<1> QED  BY <1>2, <1>4 DEF IsPage

\* The start page lies above the kernel and the end below the last page.
LEMMA FinishInitKeepsBumpInv ==
  ASSUME \A m \in BootInfos : TopPageUnused(m)
  PROVE  IInv /\ BumpInv /\ FinishInit => BumpInv'
<1> SUFFICES ASSUME IInv, BumpInv, FinishInit, pc' = "ready" PROVE BumpInv'
  BY DEF BumpInv, FinishInit
<1>1. mbd \in BootInfos /\ WellFormed(mbd) /\ TopPageUnused(mbd)
  BY PmmAssumption DEF IInv, TypeOK
<1>2. /\ pmm_current_break' = AlignUp(KernelEnd)
      /\ pmm_start_addr' = AlignUp(KernelEnd)
      /\ pmm_memory_end' = RegionEnd /\ RegionEnd' = RegionEnd
      /\ AlignUp(KernelEnd) < RegionEnd
      /\ owned = {} /\ owned' = {}
      /\ pc' = "ready"
  <2>1. AlignUp(KernelEnd) \in Int /\ RegionEnd \in Int
    BY AlignUpKernelEnd, U32Type DEF RegionEnd, IInv, TypeOK
  <2>2. RegionEnd' = RegionEnd
    BY DEF FinishInit, RegionEnd, best, U32
  <2> QED  BY <2>1, <2>2 DEF FinishInit, BumpInv
<1>3. RegionEnd < Word - PageSize
  <2>1. WalkedSoFar
    BY DEF IInv, FinishInit
  <2>2. CASE best_region_base = 0 /\ best_region_len = 0
    <3>1. U32(0) = 0
      BY U32Small, PmmAssumption
    <3>2. RegionEnd = 0
      BY <2>2, <3>1 DEF RegionEnd
    <3> QED  BY <3>2, <1>1, PmmAssumption DEF TopPageUnused
  <2>3. CASE \E o \in UsableEntries(mbd) :
               /\ mbd.mmap[o].base_addr = best_region_base
               /\ mbd.mmap[o].length = best_region_len
    BY <2>3, <1>1 DEF TopPageUnused, RegionEnd
  <2> QED  BY <2>1, <2>2, <2>3 DEF WalkedSoFar
<1>4. IsPage(AlignUp(KernelEnd))
  <2>1. PICK k \in Nat : AlignUp(KernelEnd) = k * PageSize
    BY AlignUpKernelEnd
  <2>2. k * PageSize >= k
    BY PmmAssumption, SMT
  <2>3. k \in 0 .. Word
    BY <2>1, <2>2, AlignUpKernelEnd, PmmAssumption
  <2> QED  BY <2>1, <2>3 DEF IsPage
<1>5. /\ AlignUp(KernelEnd) \in Nat /\ AlignUp(KernelEnd) >= KernelEnd
      /\ RegionEnd \in Nat
  BY AlignUpKernelEnd, U32Type, PmmAssumption DEF RegionEnd, IInv, TypeOK
<1>6. PagesFrom(pmm_start_addr, pmm_current_break)' = {}
  BY <1>2, <1>5 DEF PagesFrom
<1>7. Cardinality({}) = 0 /\ IsFiniteSet({})
  BY FS_EmptySet
<1>8. AlignUp(KernelEnd) = AlignUp(KernelEnd) + PageSize * 0
  BY <1>5, PmmAssumption
<1>9. RegionEnd + PageSize < Word
  BY <1>3, <1>5, PmmAssumption
<1> QED  BY <1>2, <1>4, <1>5, <1>6, <1>7, <1>8, <1>9 DEF BumpInv, IsPage

\* A granted request: the page at the bump pointer is new, and the pointer
\* moves to the next page without wrapping.
LEMMA GrantStep ==
  ASSUME IInv, BumpInv, pmm_alloc_page, pc = "ready", HasRoom
  PROVE  /\ pmm_current_break \notin owned
         /\ pmm_current_break' = pmm_current_break + PageSize
         /\ pmm_current_break + PageSize <= pmm_memory_end
         /\ owned' = owned \cup {pmm_current_break}
         /\ ret' = pmm_current_break
<1>1. /\ pmm_current_break \in Nat /\ pmm_memory_end \in Nat
      /\ pmm_start_addr \in Nat
      /\ pmm_current_break <= pmm_memory_end
      /\ pmm_memory_end + PageSize < Word
  BY PmmAssumption DEF IInv, TypeOK, BreakInBounds, BumpInv
<1>2. pmm_current_break + PageSize \in 0 .. Word - 1
  BY <1>1, PmmAssumption
<1>3. U32(pmm_current_break + PageSize) = pmm_current_break + PageSize
  BY <1>2, U32Small
<1>4. pmm_current_break \notin owned
  BY <1>1 DEF BumpInv, PagesFrom
<1> QED  BY <1>1, <1>3, <1>4 DEF pmm_alloc_page, HasRoom

\* A request keeps it, granted or refused.
LEMMA AllocKeepsBumpInv == IInv /\ BumpInv /\ pmm_alloc_page => BumpInv'
<1> SUFFICES ASSUME IInv, BumpInv, pmm_alloc_page PROVE BumpInv'
  OBVIOUS
<1>0. /\ pmm_current_break \in Nat /\ pmm_memory_end \in Nat
      /\ pmm_start_addr \in Nat
  BY PmmAssumption DEF IInv, TypeOK
<1>1. CASE pc = "ready" /\ HasRoom
  <2> DEFINE b == pmm_current_break
  <2>1. /\ b \notin owned
        /\ b' = b + PageSize
        /\ b + PageSize <= pmm_memory_end
        /\ owned' = owned \cup {b}
    BY <1>1, GrantStep
  <2>2. /\ UNCHANGED <<pc, pmm_start_addr, pmm_memory_end>>
        /\ pmm_start_addr <= b /\ IsPage(b)
        /\ owned = PagesFrom(pmm_start_addr, b) /\ IsFiniteSet(owned)
        /\ pmm_memory_end + PageSize < Word
    BY <1>1 DEF BumpInv, pmm_alloc_page
  <2>3. IsPage(b + PageSize)
    BY <1>0, <2>1, <2>2, NextIsPage, PmmAssumption
  <2>4. owned' = PagesFrom(pmm_start_addr', b')
    <3>1. PagesFrom(pmm_start_addr, b + PageSize) = owned'
      BY <1>0, <2>1, <2>2, PagesFromStep
    <3>2. pmm_start_addr' = pmm_start_addr
      BY <2>2
    <3> QED  BY <2>1, <3>1, <3>2
  <2>5. IsFiniteSet(owned') /\ Cardinality(owned') = Cardinality(owned) + 1
    BY <2>1, <2>2, FS_AddElement
  <2>6. b + PageSize = pmm_start_addr + PageSize * (Cardinality(owned) + 1)
    <3>1. Cardinality(owned) \in Nat
      BY <2>2, FS_CardinalityType
    <3>2. PageSize * (Cardinality(owned) + 1)
            = PageSize * Cardinality(owned) + PageSize
      BY <3>1, PmmAssumption, SMT
    <3>3. b = pmm_start_addr + PageSize * Cardinality(owned)
      BY <1>1 DEF BumpInv
    <3>4. PageSize * Cardinality(owned) \in Nat
      BY <3>1, PmmAssumption, SMT
    <3> QED  BY <3>2, <3>3, <3>4, <1>0, PmmAssumption
  <2>7. pc' = "ready" /\ pmm_start_addr' >= KernelEnd
    BY <1>1, <2>2 DEF BumpInv
  <2>8. pmm_start_addr <= b + PageSize
    BY <1>0, <2>2, PmmAssumption
  <2>9. IsPage(b)'
    BY <2>1, <2>3 DEF IsPage
  <2>10. pmm_memory_end' = RegionEnd'
    BY <1>1 DEF BumpInv, pmm_alloc_page, best, RegionEnd, U32
  <2> QED
    BY <2>1, <2>2, <2>4, <2>5, <2>6, <2>7, <2>8, <2>9, <2>10 DEF BumpInv
<1>2. CASE ~HasRoom
  BY <1>2
  DEF pmm_alloc_page, BumpInv, PagesFrom, IsPage, best, RegionEnd, U32
<1>3. CASE pc = "check" /\ HasRoom
  <2>1. HasRoom <=> U32(PageSize) <= 0
    BY <1>3, PmmAssumption DEF HasRoom, IInv, BreakInBounds
  <2>2. PageSize \in 0 .. Word - 1
    BY PmmAssumption
  <2> QED  BY <1>3, <2>1, <2>2, U32Small, PmmAssumption
<1> QED  BY <1>1, <1>2, <1>3 DEF pmm_alloc_page, Callable

\* Every step keeps it.
LEMMA NextBumpInv ==
  ASSUME \A m \in BootInfos : TopPageUnused(m)
  PROVE  IInv /\ BumpInv /\ [Next]_vars => BumpInv'
<1> SUFFICES ASSUME IInv, BumpInv, [Next]_vars PROVE BumpInv'
  OBVIOUS
<1>1. CASE RejectBootInfo
  BY <1>1 DEF RejectBootInfo, BumpInv
<1>2. CASE AcceptBootInfo
  BY <1>2 DEF AcceptBootInfo, BumpInv
<1>3. CASE WalkEntry
  BY <1>3 DEF WalkEntry, BumpInv
<1>4. CASE FinishInit
  BY <1>4, FinishInitKeepsBumpInv
<1>5. CASE pmm_alloc_page
  BY <1>5, AllocKeepsBumpInv
<1>6. ASSUME NEW p \in owned, pmm_free_page(p) PROVE BumpInv'
  BY <1>6 DEF pmm_free_page, vars, state, best, BumpInv, PagesFrom, IsPage,
                RegionEnd, U32
<1>7. CASE UNCHANGED vars
  BY <1>7 DEF vars, state, best, BumpInv, PagesFrom, IsPage, RegionEnd, U32
<1> QED  BY <1>1, <1>2, <1>3, <1>4, <1>5, <1>6, <1>7 DEF Next

\* Under TopPageUnused the pages handed out are exactly those from the start
\* to the bump pointer, which only ever moves up (pmm.c:54-67).
THEOREM BumpInvHolds ==
  ASSUME \A m \in BootInfos : TopPageUnused(m)
  PROVE  Spec => []BumpInv
<1>1. Init => BumpInv
  BY DEF Init, BumpInv
<1>2. IInv /\ BumpInv /\ [Next]_vars => BumpInv'
  BY NextBumpInv
<1> QED  BY <1>1, <1>2, InvariantHolds, PTL DEF Spec

\* No page is handed out twice: the page the next request gets is one nobody
\* holds (pmm.c:58-67).
THEOREM FreshPages ==
  ASSUME \A m \in BootInfos : TopPageUnused(m)
  PROVE  Spec => []NextPageIsFresh
<1>1. ASSUME IInv, BumpInv PROVE NextPageIsFresh
  <2>1. CASE pc = "ready"
    BY <1>1, <2>1, PmmAssumption
    DEF NextPageIsFresh, BumpInv, PagesFrom, IInv, TypeOK
  <2>2. CASE pc # "ready"
    BY <1>1, <2>2 DEF NextPageIsFresh, BumpInv
  <2> QED  BY <2>1, <2>2
<1> QED  BY <1>1, InvariantHolds, BumpInvHolds, PTL

\* Every page handed out lies above the kernel image and ends by the end of
\* the chosen region.
THEOREM PagesInBounds ==
  ASSUME \A m \in BootInfos : TopPageUnused(m)
  PROVE  Spec => []PagesBetweenKernelAndEnd
<1>1. ASSUME IInv, BumpInv PROVE PagesBetweenKernelAndEnd
  <2> SUFFICES ASSUME NEW p \in owned, pc = "ready"
               PROVE  p >= KernelEnd /\ p + PageSize <= pmm_memory_end
    BY <1>1 DEF PagesBetweenKernelAndEnd, BumpInv
  <2>1. /\ pmm_current_break \in Nat /\ pmm_memory_end \in Nat
        /\ pmm_start_addr \in Nat /\ pmm_start_addr >= KernelEnd
        /\ p \in Nat /\ p >= pmm_start_addr /\ p < pmm_current_break
        /\ IsPage(p) /\ IsPage(pmm_current_break)
        /\ pmm_current_break <= pmm_memory_end
    BY <1>1, PmmAssumption
    DEF IInv, TypeOK, BreakInBounds, BumpInv, PagesFrom
  <2>2. p + PageSize <= pmm_current_break
    BY <2>1, NoPageBetween
  <2> QED  BY <2>1, <2>2, PmmAssumption
<1> QED  BY <1>1, InvariantHolds, BumpInvHolds, PTL

\* Every page handed out is usable RAM, when the longest usable regions begin
\* by the kernel's end: pmm.c:47 then computes the end of the one it chose.
THEOREM UsableRam ==
  ASSUME \A m \in BootInfos : TopPageUnused(m)
  PROVE  Spec => []PagesAreUsableRam
<1>1. ASSUME IInv, BumpInv, PagesBetweenKernelAndEnd PROVE PagesAreUsableRam
  <2> SUFFICES ASSUME KernelInRegion(mbd), NEW p \in owned
               PROVE  InUsableRam(mbd, p)
    BY DEF PagesAreUsableRam
  <2>1. /\ pc = "ready" /\ WalkedSoFar /\ mmap = mbd.mmap_length
        /\ WellFormed(mbd)
        /\ p \in Nat /\ p >= KernelEnd /\ p + PageSize <= pmm_memory_end
        /\ pmm_memory_end = RegionEnd
    BY <1>1, PmmAssumption
    DEF BumpInv, IInv, TypeOK, PagesBetweenKernelAndEnd, PagesFrom
  <2>2. RegionEnd # 0
    BY <2>1, PmmAssumption
  <2>3. PICK o \in UsableEntries(mbd) :
          /\ mbd.mmap[o].base_addr = best_region_base
          /\ mbd.mmap[o].length = best_region_len
    <3>1. U32(0) = 0
      BY U32Small, PmmAssumption
    <3>2. ~(best_region_base = 0 /\ best_region_len = 0)
      BY <2>2, <3>1 DEF RegionEnd
    <3> QED  BY <2>1, <3>2 DEF WalkedSoFar
  <2>4. \A q \in UsableEntries(mbd) : mbd.mmap[q].length <= mbd.mmap[o].length
    <3> SUFFICES ASSUME NEW q \in UsableEntries(mbd)
                 PROVE  mbd.mmap[q].length <= best_region_len
      BY <2>3
    <3>1. q \in DOMAIN mbd.mmap
      BY DEF UsableEntries
    <3>2. q < mbd.mmap_length
      BY <2>1, <3>1 DEF WellFormed
    <3> QED  BY <2>1, <3>2 DEF WalkedSoFar
  <2>5. /\ best_region_base <= KernelEnd
        /\ best_region_base + best_region_len < Word
    BY <2>3, <2>4 DEF KernelInRegion
  <2>6. best_region_base \in Nat /\ best_region_len \in Nat
    BY <1>1 DEF IInv, TypeOK
  <2>7. RegionEnd = best_region_base + best_region_len
    <3>1. /\ best_region_base \in 0 .. Word - 1
          /\ best_region_len \in 0 .. Word - 1
          /\ best_region_base + best_region_len \in 0 .. Word - 1
      BY <2>5, <2>6, PmmAssumption
    <3> QED  BY <3>1, U32Small DEF RegionEnd
  <2> QED
    BY <2>1, <2>3, <2>5, <2>6, <2>7, PmmAssumption DEF InUsableRam
<1> QED  BY <1>1, InvariantHolds, BumpInvHolds, PagesInBounds, PTL

\* The memory reported as used is the memory handed out (pmm.c:76-80).
THEOREM UsedIsOwned ==
  ASSUME \A m \in BootInfos : TopPageUnused(m)
  PROVE  Spec => []UsedMatchesOwned
<1>1. ASSUME IInv, BumpInv PROVE UsedMatchesOwned
  <2> SUFFICES ASSUME pc = "ready"
               PROVE  pmm_get_used_mem = PageSize * Cardinality(owned)
    BY DEF UsedMatchesOwned
  <2>1. /\ pmm_current_break \in 0 .. Word - 1
        /\ pmm_start_addr \in 0 .. Word - 1
        /\ pmm_start_addr <= pmm_current_break
        /\ IsFiniteSet(owned)
        /\ pmm_current_break = pmm_start_addr + PageSize * Cardinality(owned)
    BY <1>1 DEF IInv, TypeOK, BumpInv
  <2>2. PageSize * Cardinality(owned) \in Nat
    BY <2>1, FS_CardinalityType, PmmAssumption, SMT
  <2>3. pmm_current_break - pmm_start_addr = PageSize * Cardinality(owned)
    BY <2>1, <2>2
  <2>4. pmm_current_break - pmm_start_addr \in 0 .. Word - 1
    BY <2>1, PmmAssumption
  <2> QED  BY <2>1, <2>3, <2>4, U32Small, PmmAssumption DEF pmm_get_used_mem
<1> QED  BY <1>1, InvariantHolds, BumpInvHolds, PTL

-----------------------------------------------------------------------------
(* The bump allocator implements the page allocator. *)

LEMMA InitImplements == Init => PA!Init
  BY DEF Init, PA!Init, ManagedPages, NULL

\* A step of the manager is a step of the page allocator or leaves it alone.
LEMMA NextImplements ==
  ASSUME \A m \in BootInfos : TopPageUnused(m)
  PROVE  IInv /\ BumpInv /\ [Next]_vars /\ IInv' /\ BumpInv'
           => [PA!Next]_PA!vars
<1> SUFFICES ASSUME IInv, BumpInv, [Next]_vars, IInv', BumpInv'
             PROVE  [PA!Next]_PA!vars
  OBVIOUS
<1> USE DEF PA!vars
<1>1. CASE RejectBootInfo
  BY <1>1 DEF RejectBootInfo, ManagedPages
<1>2. CASE AcceptBootInfo
  BY <1>2 DEF AcceptBootInfo, ManagedPages
<1>3. CASE WalkEntry
  BY <1>3 DEF WalkEntry, ManagedPages
<1>4. CASE FinishInit
  <2>1. ManagedPages = {} /\ owned' = owned /\ ret' = ret
    BY <1>4 DEF FinishInit, ManagedPages
  <2>2. CASE pc' = "ready"
    <3>1. /\ pmm_start_addr' \in Nat /\ pmm_start_addr' > 0
          /\ pmm_memory_end' \in 0 .. Word - 1
      BY <2>2, PmmAssumption DEF IInv, TypeOK, BumpInv
    <3>2. \A a \in ManagedPages' : a \in 1 .. Word - 1
      BY <2>2, <3>1, PmmAssumption DEF ManagedPages
    <3> QED  BY <2>1, <3>2 DEF PA!Next, PA!Open
  <2>3. CASE pc' # "ready"
    BY <2>1, <2>3 DEF ManagedPages
  <2> QED  BY <2>2, <2>3
<1>5. CASE pmm_alloc_page
  <2>0. ManagedPages' = ManagedPages
    BY <1>5 DEF pmm_alloc_page, ManagedPages, IsPage
  <2>1. CASE pc = "ready" /\ HasRoom
    <3>1. /\ pmm_current_break \notin owned
          /\ pmm_current_break + PageSize <= pmm_memory_end
          /\ owned' = owned \cup {pmm_current_break}
          /\ ret' = pmm_current_break
      BY <1>5, <2>1, GrantStep
    <3>2. /\ pmm_current_break \in Nat /\ pmm_memory_end \in Nat
          /\ pmm_start_addr \in Nat
          /\ pmm_start_addr <= pmm_current_break
          /\ pmm_current_break <= pmm_memory_end
          /\ IsPage(pmm_current_break)
      BY <2>1, PmmAssumption DEF IInv, TypeOK, BreakInBounds, BumpInv
    <3>3. pmm_current_break \in ManagedPages
      BY <2>1, <3>1, <3>2 DEF ManagedPages
    <3> QED  BY <2>0, <3>1, <3>3 DEF PA!Next, PA!Allocate
  <2>2. CASE pc = "ready" /\ ~HasRoom
    <3>1. /\ pmm_current_break \in Nat /\ pmm_memory_end \in Nat
          /\ pmm_start_addr \in Nat
          /\ pmm_current_break <= pmm_memory_end
          /\ pmm_memory_end + PageSize < Word
      BY <2>2, PmmAssumption DEF IInv, TypeOK, BreakInBounds, BumpInv
    <3>2. pmm_current_break + PageSize > pmm_memory_end
      <4>1. pmm_current_break + PageSize \in 0 .. Word - 1
        BY <3>1, PmmAssumption
      <4> QED  BY <2>2, <4>1, <3>1, U32Small DEF HasRoom
    <3>3. ManagedPages \subseteq owned
      <4> SUFFICES ASSUME NEW a \in ManagedPages PROVE a \in owned
        OBVIOUS
      <4>1. /\ a \in pmm_start_addr .. pmm_memory_end /\ IsPage(a)
            /\ a + PageSize <= pmm_memory_end
        BY <2>2 DEF ManagedPages
      <4>2. a \in pmm_start_addr .. pmm_current_break - 1
        BY <3>1, <3>2, <4>1, PmmAssumption
      <4> QED  BY <2>2, <4>1, <4>2 DEF BumpInv, PagesFrom
    <3> QED
      BY <1>5, <2>0, <2>2, <3>3 DEF pmm_alloc_page, PA!Next, PA!Refuse
  <2>3. CASE pc # "ready"
    <3>1. ManagedPages = {} /\ owned = {} /\ pc = "check"
      BY <1>5, <2>3 DEF ManagedPages, BumpInv, pmm_alloc_page, Callable
    <3>2. owned' = {}
      BY <1>5, <3>1 DEF pmm_alloc_page, BumpInv
    <3>3. ret' = NULL
      BY <1>5, <3>2 DEF pmm_alloc_page
    <3> QED  BY <2>0, <3>1, <3>2, <3>3 DEF PA!Next, PA!Refuse
  <2> QED  BY <2>1, <2>2, <2>3
<1>6. ASSUME NEW p \in owned, pmm_free_page(p) PROVE [PA!Next]_PA!vars
  BY <1>6 DEF pmm_free_page, vars, state, ManagedPages, IsPage
<1>7. CASE UNCHANGED vars
  BY <1>7 DEF vars, state, ManagedPages, IsPage
<1> QED  BY <1>1, <1>2, <1>3, <1>4, <1>5, <1>6, <1>7 DEF Next

\* pmm.c implements the page allocator: each managed page is handed out at
\* most once, and a request is refused only when all of them are held.
THEOREM Refinement ==
  ASSUME \A m \in BootInfos : TopPageUnused(m)
  PROVE  Spec => ImplementsPageAllocator
<1>1. IInv /\ BumpInv /\ [Next]_vars /\ IInv' /\ BumpInv'
        => [PA!Next]_PA!vars
  BY NextImplements
<1> QED
  BY <1>1, InitImplements, InvariantHolds, BumpInvHolds, PTL
  DEF Spec, ImplementsPageAllocator, PA!Spec
=============================================================================
