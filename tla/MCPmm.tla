------------------------------- MODULE MCPmm -------------------------------
(***************************************************************************)
(* Small address spaces and memory maps for the runs of Pmm: 32 addresses, *)
(* 4-byte pages, and maps of at most two entries, 24 and 20 bytes long: a  *)
(* loader's entries need not have the same size.                           *)
(***************************************************************************)
EXTENDS Pmm

Entries(bases, lengths) ==
  [base_addr : bases, length : lengths, type : {1, 2}]

NoMap == [has_mmap |-> FALSE, mmap_length |-> 0, mmap |-> <<>>]

Sized(n, e) ==
  [size |-> n, base_addr |-> e.base_addr, length |-> e.length, type |-> e.type]

OneEntry(e) ==
  [has_mmap |-> TRUE, mmap_length |-> 28, mmap |-> [o \in {0} |-> Sized(24, e)]]

TwoEntries(e, f) ==
  [has_mmap |-> TRUE, mmap_length |-> 52,
   mmap |-> [o \in {0, 28} |-> IF o = 0 THEN Sized(24, e) ELSE Sized(20, f)]]

MapsOf(E) ==
  {NoMap} \cup {[NoMap EXCEPT !.has_mmap = TRUE]}
          \cup {OneEntry(e) : e \in E} \cup {TwoEntries(e, f) : e, f \in E}

\* Regions below, above and across the kernel's end, beyond the address
\* space, empty, and with an end that wraps; none ends in the last page.
MapsBelowTopPage ==
  {m \in MapsOf(Entries({0, 4, 32}, {0, 3, 16, 25, 40})) :
     TopPageUnused(m)}

\* A PC with 2 or 3 GiB below and 4 GiB above the 4 GiB line, scaled down to
\* 32 addresses per 4 GiB.
HighRegion ==
  {TwoEntries([base_addr |-> 0,  length |-> low, type |-> 1],
              [base_addr |-> 32, length |-> 32,  type |-> 1]) : low \in {16, 24}}
=============================================================================
