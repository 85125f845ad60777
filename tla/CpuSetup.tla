------------------------------ MODULE CpuSetup ------------------------------
(***************************************************************************)
(* From _start to kmain in main.core.asm: gdt_install, idt_install with    *)
(* populate_idt and pic_remap, tss_install, pit_install, fpu_sse_install   *)
(* and paging_install. Each routine is a sequence of instruction groups    *)
(* between which the state of the processor differs for an interrupt.      *)
(*                                                                         *)
(* The file has two _start routines, which begin with cli. "basic"         *)
(* installs GDT and IDT and calls kmain with EBX; "advanced", further      *)
(* down, means to install everything and to execute sti before kmain.      *)
(* kmain is not in the repository: it may call each exported install       *)
(* routine once, in any order, and unmask lines.                           *)
(***************************************************************************)
EXTENDS Integers, Sequences, FiniteSets

CONSTANTS
  Lines,           (* the interrupt lines looked at, of 0 .. 15           *)
  Frequencies,     (* the frequencies kmain may ask pit_install for       *)
  Pages            (* entries of a page table; 1024 in the code           *)

ASSUME CpuSetupAssumption ==
  /\ Lines \subseteq 0 .. 15
  /\ Frequencies \subseteq Nat
  /\ Pages \in Nat \ {0}

PIT_BASE_FREQUENCY == 1193182

VARIABLES
  start,           (* "basic" or "advanced"                               *)
  calls,           (* the install routines _start has left to call        *)
  code,            (* the instruction groups left of the running routine  *)
  pc,              (* "start" before kmain, "kmain" in it                 *)
  cpu,             (* "runs", "reset" or "faulted" (in fault_handler)     *)
  IF_,             (* EFLAGS.IF                                           *)
  gdt, cs,         (* whose descriptor table, and whose code selector     *)
  idtr,            (* whose interrupt table                               *)
  gates,           (* the vectors with a gate                             *)
  pic,             (* [base1, base2 |-> vectors of lines 0 and 8, mask]   *)
  cr0, cr3, cr4,   (* cr0 and cr4 as sets of bits                         *)
  page_directory,  (* its first entry                                     *)
  first_page_table,
  pit,             (* [hz |-> asked for, divisor |-> programmed]          *)
  ebx,
  called           (* what kmain has called                               *)

sels  == <<gdt, cs>>
ints  == <<IF_, idtr, gates, pic>>
pages == <<cr3, page_directory, first_page_table>>
vars  == <<start, calls, code, pc, cpu, sels, ints, cr0, cr4, pages, pit,
           ebx, called>>

Entries == 0 .. Pages - 1

\* The bits of CR0 the code looks at, or changes, by number.
Cr0Bits == {0, 2, 5, 16, 30, 31}
PE == 0
EM == 2
NE == 5
PG == 31

gdt_install  == <<"lgdt", "segments">>
idt_install  == <<"populate_idt", "icw", "mask", "lidt", "sti">>
tss_install  == <<"ltr">>
pit_install  == <<"pit">>
fpu_sse_install == <<"fpu", "sse">>

\* A mutant of paging_install: paging is on before the tables are.
PagingBeforeTables == <<"zero", "cr3", "pg", "map", "directory">>

paging_install  == <<"zero", "map", "directory", "cr3", "pg">>

\* The install routines declared global (main.core.asm:701, 774, 856, 1110).
Exported == {tss_install, pit_install, fpu_sse_install, paging_install}

\* What each _start does between its cli and its call of kmain.
StartCalls(s) ==
  IF s = "basic" THEN <<gdt_install, idt_install>>
  ELSE <<gdt_install, tss_install, idt_install, pit_install,
         fpu_sse_install, paging_install, <<"sti">>>>

\* GRUB hands over in protected mode without paging, interrupts off, with
\* descriptor tables of its own and the BIOS's interrupt controllers. The
\* first instruction is cli.
Init ==
  /\ start \in {"basic", "advanced"}
  /\ calls = StartCalls(start)
  /\ code = <<"cli">> /\ pc = "start" /\ cpu = "runs"
  /\ IF_ = FALSE
  /\ gdt = "grub" /\ cs = "grub" /\ idtr = "grub" /\ gates = {}
  /\ pic = [base1 |-> 8, base2 |-> 112, mask |-> {}]
  /\ cr0 \in {{PE} \cup b : b \in SUBSET (Cr0Bits \ {PE, PG})}
  /\ cr3 = "none" /\ cr4 = {}
  /\ page_directory = "garbage"
  /\ first_page_table = [e \in Entries |-> "garbage"]
  /\ pit = [hz |-> 0, divisor |-> 0]
  /\ ebx = "multiboot_info"
  /\ called = {}

Runs(group) ==
  /\ cpu = "runs" /\ code # <<>> /\ Head(code) = group
  /\ code' = Tail(code)
  /\ UNCHANGED <<start, calls, pc, called>>

\* _start calls its next routine.
Call ==
  /\ cpu = "runs" /\ pc = "start" /\ code = <<>> /\ calls # <<>>
  /\ code' = Head(calls) /\ calls' = Tail(calls)
  /\ UNCHANGED <<start, pc, cpu, sels, ints, cr0, cr4, pages, pit, ebx, called>>

\* push ebx, call kmain
CallKmain ==
  /\ cpu = "runs" /\ pc = "start" /\ code = <<>> /\ calls = <<>>
  /\ pc' = "kmain"
  /\ UNCHANGED <<start, calls, code, cpu, sels, ints, cr0, cr4, pages, pit,
                 ebx, called>>

\* kmain calls an exported routine.
KmainCalls(routine) ==
  /\ cpu = "runs" /\ pc = "kmain" /\ code = <<>> /\ routine \notin called
  /\ code' = routine /\ called' = called \cup {routine}
  /\ UNCHANGED <<start, calls, pc, cpu, sels, ints, cr0, cr4, pages, pit, ebx>>

\* kmain unmasks a line, with the exported port routines.
KmainUnmasks(line) ==
  /\ cpu = "runs" /\ pc = "kmain" /\ code = <<>> /\ line \in pic.mask
  /\ pic' = [pic EXCEPT !.mask = @ \ {line}]
  /\ UNCHANGED <<start, calls, code, pc, cpu, sels, IF_, idtr, gates, cr0, cr4,
                 pages, pit, ebx, called>>

\* enable_interrupts and disable_interrupts, which kmain may call.
KmainSetsInterrupts(on) ==
  /\ cpu = "runs" /\ pc = "kmain" /\ code = <<>> /\ IF_ # on
  /\ IF_' = on
  /\ UNCHANGED <<start, calls, code, pc, cpu, sels, idtr, gates, pic, cr0, cr4,
                 pages, pit, ebx, called>>

-----------------------------------------------------------------------------
(* The instruction groups *)

cli ==
  /\ Runs("cli") /\ IF_' = FALSE
  /\ UNCHANGED <<cpu, sels, idtr, gates, pic, cr0, cr4, pages, pit, ebx>>

lgdt ==
  /\ Runs("lgdt") /\ gdt' = "kernel"
  /\ UNCHANGED <<cpu, cs, ints, cr0, cr4, pages, pit, ebx>>

\* The data segment registers, and the far jump to 0x08.
Segments ==
  /\ Runs("segments") /\ cs' = "kernel"
  /\ UNCHANGED <<cpu, gdt, ints, cr0, cr4, pages, pit, ebx>>

\* A mutant of IrqGates: the loop of gates ends one short.
IrqGatesShort == 32 .. 46

IrqGates == 32 .. 47

populate_idt ==
  /\ Runs("populate_idt") /\ gates' = (0 .. 31) \cup IrqGates
  /\ UNCHANGED <<cpu, sels, IF_, idtr, pic, cr0, cr4, pages, pit, ebx>>

\* ICW1 to ICW4; ICW1 clears the masks.
InitPics ==
  /\ Runs("icw") /\ pic' = [base1 |-> 32, base2 |-> 40, mask |-> {}]
  /\ UNCHANGED <<cpu, sels, IF_, idtr, gates, cr0, cr4, pages, pit, ebx>>

\* A mutant of Masked: the second controller is left unmasked.
MaskedFirst == Lines \cap (0 .. 7)

\* The lines masked by 0xFF to both data ports.
Masked == Lines

MaskAll ==
  /\ Runs("mask") /\ pic' = [pic EXCEPT !.mask = Masked]
  /\ UNCHANGED <<cpu, sels, IF_, idtr, gates, cr0, cr4, pages, pit, ebx>>

lidt ==
  /\ Runs("lidt") /\ idtr' = "kernel"
  /\ UNCHANGED <<cpu, sels, IF_, gates, pic, cr0, cr4, pages, pit, ebx>>

\* In idt_install, and at the end of the advanced _start.
sti ==
  /\ Runs("sti") /\ IF_' = TRUE
  /\ UNCHANGED <<cpu, sels, idtr, gates, pic, cr0, cr4, pages, pit, ebx>>

\* The last byte of the table gdt_ptr describes: null, code and data.
gdt_limit == 3 * 8 - 1

SelectorInGdt(selector) == selector + 7 <= gdt_limit

\* ltr 0x18, after the descriptor and the TSS are filled in: a selector
\* outside the table faults, and without an interrupt table a fault resets.
ltr ==
  /\ Runs("ltr")
  /\ cpu' = IF SelectorInGdt(24) THEN cpu
            ELSE IF idtr = "kernel" THEN "faulted" ELSE "reset"
  /\ UNCHANGED <<sels, ints, cr0, cr4, pages, pit, ebx>>

\* pit_install(hz): EAX, the frequency, is divided by EBX, the base.
ProgramPit(hz) ==
  /\ Runs("pit")
  /\ IF hz = 0 THEN UNCHANGED <<pit, ebx>>
     ELSE /\ pit' = [hz |-> hz, divisor |-> (hz \div PIT_BASE_FREQUENCY) % 65536]
          /\ ebx' = "PIT_BASE_FREQUENCY"
  /\ UNCHANGED <<cpu, sels, ints, cr0, cr4, pages>>

\* and eax, 0xFFFB keeps bits 0 to 15 without bit 2; or eax, 0x20
SetFpuBits ==
  /\ Runs("fpu") /\ cr0' = {b \in cr0 : b < 16 /\ b # EM} \cup {NE}
  /\ UNCHANGED <<cpu, sels, ints, cr4, pages, pit, ebx>>

\* CPUID, which also loads EBX, tells whether there is SSE; then FINIT.
SetSseBits(sse) ==
  /\ Runs("sse") /\ cr4' = IF sse THEN cr4 \cup {9, 10} ELSE cr4
  /\ ebx' = "cpuid"
  /\ UNCHANGED <<cpu, sels, ints, cr0, pages, pit>>

ZeroTables ==
  /\ Runs("zero")
  /\ page_directory' = "none"
  /\ first_page_table' = [e \in Entries |-> "none"]
  /\ UNCHANGED <<cpu, sels, ints, cr0, cr3, cr4, pit, ebx>>

\* Entry e maps its page to page frame e.
MapPages ==
  /\ Runs("map") /\ first_page_table' = [e \in Entries |-> e]
  /\ UNCHANGED <<cpu, sels, ints, cr0, cr3, cr4, page_directory, pit, ebx>>

SetDirectory ==
  /\ Runs("directory") /\ page_directory' = "first_page_table"
  /\ UNCHANGED <<cpu, sels, ints, cr0, cr3, cr4, first_page_table, pit, ebx>>

LoadCr3 ==
  /\ Runs("cr3") /\ cr3' = "page_directory"
  /\ UNCHANGED <<cpu, sels, ints, cr0, cr4, page_directory, first_page_table,
                 pit, ebx>>

SetPg ==
  /\ Runs("pg") /\ cr0' = cr0 \cup {PG}
  /\ UNCHANGED <<cpu, sels, ints, cr4, pages, pit, ebx>>

Next ==
  \/ Call \/ CallKmain
  \/ \E routine \in Exported : KmainCalls(routine)
  \/ \E line \in Lines : KmainUnmasks(line)
  \/ \E on \in BOOLEAN : KmainSetsInterrupts(on)
  \/ cli \/ lgdt \/ Segments
  \/ populate_idt \/ InitPics \/ MaskAll \/ lidt \/ sti
  \/ ltr
  \/ \E hz \in Frequencies : ProgramPit(hz)
  \/ SetFpuBits \/ (\E sse \in BOOLEAN : SetSseBits(sse))
  \/ ZeroTables \/ MapPages \/ SetDirectory \/ LoadCr3 \/ SetPg

Spec == Init /\ [][Next]_vars

-----------------------------------------------------------------------------
(* Properties *)

Vector(line) == IF line < 8 THEN pic.base1 + line ELSE pic.base2 + line - 8

Deliverable(line) == cpu = "runs" /\ IF_ /\ line \notin pic.mask

\* A line that can interrupt has a gate of its own: our table is loaded, the
\* line's vector is none of the processor's exceptions, populate_idt set its
\* gate, and the selector in it is that of the loaded code segment.
IrqReachesItsGate ==
  \A line \in Lines : Deliverable(line) =>
    /\ idtr = "kernel" /\ gdt = "kernel" /\ cs = "kernel"
    /\ Vector(line) \in gates \ (0 .. 31)
    /\ \A other \in Lines \ {line} : Vector(other) # Vector(line)

\* idt_install's sti lets no line through: _start masked them all, and the
\* first interrupt comes when kmain has unmasked its line.
NoIrqBeforeKmain ==
  pc = "start" => ~ \E line \in Lines : Deliverable(line)

\* While paging is on, every page of the tables translates to itself, so
\* code, stack and tables stay where they are: also when fpu_sse_install
\* has switched it off again, or comes first.
PagingIsIdentity ==
  PG \in cr0 =>
    /\ cr3 = "page_directory" /\ page_directory = "first_page_table"
    /\ \A e \in Entries : first_page_table[e] = e
=============================================================================
