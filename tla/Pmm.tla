-------------------------------- MODULE Pmm --------------------------------
(***************************************************************************)
(* The physical memory manager of kernel/pmm.c: init_pmm walks the         *)
(* Multiboot memory map, keeps the longest usable region and sets up a     *)
(* bump allocator between the end of the kernel image and the end of that  *)
(* region; pmm_alloc_page hands out the page at the bump pointer.          *)
(*                                                                         *)
(* Addresses are u32, so every sum and every cast from the map's u64       *)
(* fields is taken modulo Word, in the places where the code takes it.     *)
(***************************************************************************)
EXTENDS Integers, FiniteSets

CONSTANTS
  Word,       (* how many values a u32 has: 2^32 in the build            *)
  PageSize,   (* PAGE_SIZE                                               *)
  KernelEnd,  (* the address of the linker symbol `end`                  *)
  BootInfos   (* the boot informations the loader may pass               *)

(***************************************************************************)
(* A boot information says whether it has a memory map, how many bytes the *)
(* map has, and which entry starts at which byte of it.  The entries of a  *)
(* map tile it: the u32 size field of an entry counts the bytes after      *)
(* itself, and the next entry, or the end of the map, comes right there.   *)
(* mmap_length and mmap_addr are taken to be what the loader put there:    *)
(* multiboot.h:27 gives syms three words where the Multiboot structure has *)
(* four, so the code reads both fields four bytes before their places.     *)
(***************************************************************************)
SizeField == 4

After(m, o) == o + m.mmap[o].size + SizeField

WellFormed(m) ==
  /\ m.has_mmap \in BOOLEAN
  /\ m.mmap_length \in Nat
  /\ DOMAIN m.mmap \subseteq Nat
  /\ \A o \in DOMAIN m.mmap :
       /\ m.mmap[o].size \in Nat
       /\ m.mmap[o].base_addr \in Nat
       /\ m.mmap[o].length \in Nat
       /\ After(m, o) \in DOMAIN m.mmap \cup {m.mmap_length}
       /\ \A q \in DOMAIN m.mmap : q > o => q >= After(m, o)
  /\ m.mmap_length > 0 => 0 \in DOMAIN m.mmap
  /\ \A o \in DOMAIN m.mmap : o < m.mmap_length

(***************************************************************************)
(* The kernel is linked at 1 MiB and is far smaller than the address       *)
(* space, so rounding its end up to a page does not wrap.                  *)
(***************************************************************************)
ASSUME PmmAssumption ==
  /\ Word \in Nat \ {0}
  /\ PageSize \in Nat \ {0}
  /\ KernelEnd \in Nat \ {0}
  /\ KernelEnd + PageSize <= Word
  /\ \A m \in BootInfos : WellFormed(m)

VARIABLES
  mbd,                (* the boot information passed to init_pmm         *)
  pc,                 (* where init_pmm is: "check", "walk", "ready",    *)
                      (* or "panic" once panic() has stopped the kernel  *)
  mmap,               (* the byte of the map the walk is at              *)
  best_region_base,
  best_region_len,
  pmm_memory_end,
  pmm_current_break,
  pmm_start_addr,
  ret,                (* the value pmm_alloc_page returned last          *)
  owned               (* history: the addresses it has handed out        *)

best  == <<best_region_base, best_region_len>>
state == <<pmm_memory_end, pmm_current_break, pmm_start_addr>>
vars  == <<mbd, pc, mmap, best, state, ret, owned>>

NULL == 0

U32(x) == x % Word

Init ==
  /\ mbd \in BootInfos
  /\ pc = "check"
  /\ mmap = 0
  /\ best_region_base = 0 /\ best_region_len = 0
  /\ pmm_memory_end = 0 /\ pmm_current_break = 0 /\ pmm_start_addr = 0
  /\ ret = NULL
  /\ owned = {}

-----------------------------------------------------------------------------
(* init_pmm *)

\* A boot information without a memory map stops the kernel.
RejectBootInfo ==
  /\ pc = "check" /\ ~mbd.has_mmap
  /\ pc' = "panic"
  /\ UNCHANGED <<mbd, mmap, best, state, ret, owned>>

AcceptBootInfo ==
  /\ pc = "check" /\ mbd.has_mmap
  /\ pc' = "walk"
  /\ mmap' = 0
  /\ best_region_base' = 0 /\ best_region_len' = 0
  /\ UNCHANGED <<mbd, state, ret, owned>>

Usable(e) == e.type = 1

\* A mutant of Better: the last of the longest regions, not the first.
BetterOrEqual(e) == Usable(e) /\ e.length >= best_region_len
\* A mutant of Better: reserved regions count too.
BetterOfAnyType(e) == e.length > best_region_len

Better(e) == Usable(e) /\ e.length > best_region_len

\* A mutant of NextEntry: the walk does not move.
NextEntryStuck == mmap
\* A mutant of NextEntry: entries taken to have the size of memory_map_t.
NextEntryFixedSize == mmap + 20 + SizeField

NextEntry == mmap + mbd.mmap[mmap].size + SizeField

WalkEntry ==
  /\ pc = "walk" /\ mmap < mbd.mmap_length
  /\ LET e == mbd.mmap[mmap] IN
       IF Better(e)
         THEN best_region_base' = e.base_addr /\ best_region_len' = e.length
         ELSE UNCHANGED best
  /\ mmap' = NextEntry
  /\ UNCHANGED <<mbd, pc, state, ret, owned>>

\* A mutant of AlignUp: rounds down, into the kernel image.
AlignDown(a) == (a \div PageSize) * PageSize

AlignUp(a) ==
  IF a % PageSize # 0 THEN U32((a \div PageSize + 1) * PageSize) ELSE a

\* A mutant of RegionEnd: the sum is not cut to 32 bits.
RegionEndNoWrap == best_region_base + best_region_len

RegionEnd == U32(U32(best_region_base) + U32(best_region_len))

FinishInit ==
  /\ pc = "walk" /\ mmap >= mbd.mmap_length
  /\ pmm_current_break' = AlignUp(KernelEnd)
  /\ pmm_memory_end' = RegionEnd
  /\ IF pmm_current_break' >= pmm_memory_end'
       THEN pc' = "panic" /\ UNCHANGED pmm_start_addr
       ELSE pc' = "ready" /\ pmm_start_addr' = pmm_current_break'
  /\ UNCHANGED <<mbd, mmap, best, ret, owned>>

-----------------------------------------------------------------------------
(* The allocator.  Before init_pmm its state is all zero and it refuses.   *)

Callable == pc \in {"check", "ready"}

\* A mutant of HasRoom: a page that only starts below the end is accepted.
HasRoomForStart == pmm_current_break < pmm_memory_end

HasRoom == U32(pmm_current_break + PageSize) <= pmm_memory_end

\* A mutant of pmm_alloc_page: the bump pointer is left where it is.
AllocWithoutBump ==
  /\ Callable
  /\ IF HasRoom THEN /\ ret' = pmm_current_break
                     /\ owned' = owned \cup {pmm_current_break}
                ELSE ret' = NULL /\ UNCHANGED owned
  /\ UNCHANGED <<mbd, pc, mmap, best, state>>

pmm_alloc_page ==
  /\ Callable
  /\ IF HasRoom
       THEN /\ ret' = pmm_current_break
            /\ owned' = owned \cup {pmm_current_break}
            /\ pmm_current_break' = U32(pmm_current_break + PageSize)
       ELSE /\ ret' = NULL
            /\ UNCHANGED <<owned, pmm_current_break>>
  /\ UNCHANGED <<mbd, pc, mmap, best, pmm_memory_end, pmm_start_addr>>

\* Giving a page back changes nothing.
pmm_free_page(p) ==
  /\ Callable
  /\ p \in owned
  /\ UNCHANGED vars

\* A mutant of pmm_get_used_mem: measured from the unaligned kernel end.
UsedSinceKernelEnd ==
  IF pmm_current_break <= pmm_start_addr THEN 0
  ELSE U32(pmm_current_break - KernelEnd)

pmm_get_used_mem ==
  IF pmm_current_break < pmm_start_addr THEN 0
  ELSE U32(pmm_current_break - pmm_start_addr)

pmm_get_total_mem ==
  IF pmm_memory_end <= pmm_start_addr THEN 0
  ELSE U32(pmm_memory_end - pmm_start_addr)

pmm_get_free_memory == U32(pmm_get_total_mem - pmm_get_used_mem)

Next ==
  \/ RejectBootInfo
  \/ AcceptBootInfo
  \/ WalkEntry
  \/ FinishInit
  \/ pmm_alloc_page
  \/ \E p \in owned : pmm_free_page(p)

Spec == Init /\ [][Next]_vars

\* init_pmm is straight-line code with a loop: once started it keeps going.
FairSpec ==
  Spec /\ WF_vars(RejectBootInfo \/ AcceptBootInfo \/ WalkEntry \/ FinishInit)

-----------------------------------------------------------------------------
(* Properties *)

\* Every cell of the allocator's state is a u32 and every page it has handed
\* out has a u32 address.
TypeOK ==
  /\ mbd \in BootInfos
  /\ pc \in {"check", "walk", "ready", "panic"}
  /\ mmap \in Nat
  /\ best_region_base \in Nat /\ best_region_len \in Nat
  /\ pmm_memory_end \in 0 .. Word - 1
  /\ pmm_current_break \in 0 .. Word - 1
  /\ pmm_start_addr \in 0 .. Word - 1
  /\ ret \in 0 .. Word - 1
  /\ owned \subseteq 0 .. Word - 1

\* The walk reads entries only where entries start, whatever their size
\* fields say (the advance at pmm.c:33), and stops exactly at the map's end.
WalkOnEntries ==
  pc = "walk" => mmap \in DOMAIN mbd.mmap \cup {mbd.mmap_length}

UsableEntries(m) == {o \in DOMAIN m.mmap : Usable(m.mmap[o])}

\* When the walk is over, the region kept is the first of the longest usable
\* regions of the map, or (0, 0) when no usable region has any bytes
\* (pmm.c:21-34).
LargestRegionChosen ==
  pc = "ready" \/ (pc = "walk" /\ mmap = mbd.mmap_length) =>
    LET U == UsableEntries(mbd) IN
      /\ \A o \in U : mbd.mmap[o].length <= best_region_len
      /\ \/ best = <<0, 0>>
         \/ \E o \in U :
              /\ mbd.mmap[o].base_addr = best_region_base
              /\ mbd.mmap[o].length = best_region_len
              /\ \A q \in U : q < o => mbd.mmap[q].length < best_region_len

\* The counters the shell prints never contradict each other: used memory
\* never exceeds total memory, so free memory does not wrap below zero
\* (pmm.c:76-93).  It holds even when the bump pointer wraps.
StatsConsistent ==
  pc \in {"check", "ready"} =>
    /\ pmm_get_used_mem <= pmm_get_total_mem
    /\ pmm_get_used_mem + pmm_get_free_memory = pmm_get_total_mem

\* The memory reported as used is the memory that has been handed out.
UsedMatchesOwned ==
  pc = "ready" => pmm_get_used_mem = PageSize * Cardinality(owned)

\* No page overlaps the kernel image, and every page ends by the end of the
\* chosen region.
PagesBetweenKernelAndEnd ==
  \A p \in owned : p >= KernelEnd /\ p + PageSize <= pmm_memory_end

\* init_pmm terminates, in the manager being up or in a panic, for every
\* map (the loop at pmm.c:26 always advances).
InitTerminates == <>(pc \in {"ready", "panic"})

-----------------------------------------------------------------------------
(* The allocator implements PageAllocator.                                 *)

\* Address a starts a page.
IsPage(a) == \E k \in 0 .. Word : a = k * PageSize

\* The pages between the start and the end recorded by init_pmm.
ManagedPages ==
  IF pc = "ready"
    THEN {a \in pmm_start_addr .. pmm_memory_end :
            IsPage(a) /\ a + PageSize <= pmm_memory_end}
    ELSE {}

PA == INSTANCE PageAllocator
        WITH Frames <- 1 .. Word - 1, NULL <- NULL,
             pool <- ManagedPages, owned <- owned, ret <- ret

\* The bump allocator hands out each managed page once and refuses only when
\* all of them are out.
ImplementsPageAllocator == PA!Spec

-----------------------------------------------------------------------------
(* Conditions on the map, and what holds only under them.                  *)

\* The last page of the address space lies above every usable region (its
\* end cut to 32 bits, as the code computes it).
TopPageUnused(m) ==
  /\ PageSize < Word
  /\ \A o \in UsableEntries(m) :
       U32(U32(m.mmap[o].base_addr) + U32(m.mmap[o].length)) < Word - PageSize

\* The bytes [a, a + PageSize) lie in one usable region of the map.
InUsableRam(m, a) ==
  \E o \in UsableEntries(m) :
    /\ m.mmap[o].base_addr <= a
    /\ a + PageSize <= m.mmap[o].base_addr + m.mmap[o].length

\* The longest usable regions start by the end of the kernel image and end
\* where a u32 can say so.
KernelInRegion(m) ==
  \A o \in UsableEntries(m) :
    (\A q \in UsableEntries(m) : m.mmap[q].length <= m.mmap[o].length) =>
      /\ m.mmap[o].base_addr <= KernelEnd
      /\ m.mmap[o].base_addr + m.mmap[o].length < Word

\* Every page handed out is RAM the map calls usable, although pmm.c forgets
\* where the chosen region begins: when it begins below the kernel's end.
PagesAreUsableRam ==
  KernelInRegion(mbd) => \A p \in owned : InUsableRam(mbd, p)

\* Region o ends far enough above the kernel image to hold a page there.
FitsPage(m, o) ==
  m.mmap[o].base_addr + m.mmap[o].length >= AlignUp(KernelEnd) + PageSize

\* init_pmm stops the kernel for lack of memory only when no usable region of
\* the greatest length has room for a page above the kernel (pmm.c:49-51).
PanicOnlyWhenShort ==
  pc = "panic" /\ mbd.has_mmap =>
    \A o \in UsableEntries(mbd) :
      (\A q \in UsableEntries(mbd) : mbd.mmap[q].length <= mbd.mmap[o].length)
        => ~FitsPage(mbd, o)

\* The page the next request would get is not held by anyone yet.
NextPageIsFresh == Callable /\ HasRoom => pmm_current_break \notin owned
=============================================================================
