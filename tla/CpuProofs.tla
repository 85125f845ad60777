----------------------------- MODULE CpuProofs -----------------------------
(***************************************************************************)
(* Proofs about CpuSetup, for any choice of interrupt lines and of         *)
(* frequencies, and page tables of any size; and about TrapStubs, the      *)
(* stubs behind the gates that CpuSetup sets, for any registers, frame and *)
(* stack of the interrupted program.                                       *)
(***************************************************************************)
EXTENDS CpuSetup, TrapStubs, SequenceTheorems, TLAPS

\* What can be left of a routine that has begun.
GdtCode == {gdt_install, <<"segments">>}

IdtCode == {idt_install, <<"icw", "mask", "lidt", "sti">>,
            <<"mask", "lidt", "sti">>, <<"lidt", "sti">>, <<"sti">>}

FpuCode == {fpu_sse_install, <<"sse">>}

PagingCode == {paging_install, <<"map", "directory", "cr3", "pg">>,
               <<"directory", "cr3", "pg">>, <<"cr3", "pg">>, <<"pg">>}

BootCode  == {<<>>, <<"cli">>, tss_install} \cup GdtCode \cup IdtCode
KmainCode == {<<>>, tss_install, pit_install} \cup FpuCode \cup PagingCode

AllGates == (0 .. 31) \cup (32 .. 47)

Remapped(p) == p.base1 = 32 /\ p.base2 = 40

Ready ==
  /\ gdt = "kernel" /\ cs = "kernel" /\ idtr = "kernel"
  /\ gates = AllGates /\ Remapped(pic)

\* How far _start is, told by what is left of the running routine. Up to
\* kmain no line is let through: interrupts are off, or all lines masked.
BootProgress ==
  pc = "start" /\ cpu = "runs" =>
    /\ code \in BootCode
    /\ code # <<>> => ~IF_
    /\ code = <<"cli">> => calls = StartCalls(start)
    /\ code \in GdtCode => calls = Tail(StartCalls(start))
    /\ code = <<"segments">> => gdt = "kernel"
    /\ code \in IdtCode => calls = <<>> /\ gdt = "kernel" /\ cs = "kernel"
    /\ code \in IdtCode \ {idt_install} => gates = AllGates
    /\ code \in {<<"mask", "lidt", "sti">>, <<"lidt", "sti">>, <<"sti">>} =>
         Remapped(pic)
    /\ code \in {<<"lidt", "sti">>, <<"sti">>} => pic.mask = Lines
    /\ code = <<"sti">> => idtr = "kernel"
    /\ code = <<>> =>
         \/ calls = StartCalls(start) /\ ~IF_
         \/ /\ calls = Tail(StartCalls(start)) /\ ~IF_
            /\ gdt = "kernel" /\ cs = "kernel"
         \/ calls = <<>> /\ Ready /\ pic.mask = Lines

\* kmain finds descriptor tables and interrupt controllers ready, and none
\* of the routines it can call changes them.
KmainProgress ==
  pc = "kmain" /\ cpu = "runs" => code \in KmainCode /\ Ready

\* What paging_install has done before it sets CR0.PG.
PagingProgress ==
  /\ pc = "start" \/ paging_install \notin called \/ code \in PagingCode =>
       PG \notin cr0
  /\ code \in PagingCode => paging_install \in called
  /\ code \in {<<"directory", "cr3", "pg">>, <<"cr3", "pg">>, <<"pg">>} =>
       \A e \in Entries : first_page_table[e] = e
  /\ code \in {<<"cr3", "pg">>, <<"pg">>} => page_directory = "first_page_table"
  /\ code = <<"pg">> => cr3 = "page_directory"

PicOK == pic \in [base1 : Nat, base2 : Nat, mask : SUBSET Lines]

IInv ==
  /\ pc \in {"start", "kmain"}
  /\ BootProgress
  /\ KmainProgress
  /\ PagingProgress
  /\ PagingIsIdentity

-----------------------------------------------------------------------------
(* Code *)

\* The first group tells what is left.
LEMMA CodeIs ==
  ASSUME NEW c \in BootCode \cup KmainCode, c # <<>>
  PROVE  /\ Head(c) = "lgdt" => c = gdt_install
         /\ Head(c) = "segments" => c = <<"segments">>
         /\ Head(c) = "populate_idt" => c = idt_install
         /\ Head(c) = "icw" => c = <<"icw", "mask", "lidt", "sti">>
         /\ Head(c) = "mask" => c = <<"mask", "lidt", "sti">>
         /\ Head(c) = "lidt" => c = <<"lidt", "sti">>
         /\ Head(c) = "sti" => c = <<"sti">>
         /\ Head(c) = "ltr" => c = tss_install
         /\ Head(c) = "cli" => c = <<"cli">>
         /\ Head(c) = "pit" => c = pit_install
         /\ Head(c) = "fpu" => c = fpu_sse_install
         /\ Head(c) = "sse" => c = <<"sse">>
         /\ Head(c) = "zero" => c = paging_install
         /\ Head(c) = "map" => c = <<"map", "directory", "cr3", "pg">>
         /\ Head(c) = "directory" => c = <<"directory", "cr3", "pg">>
         /\ Head(c) = "cr3" => c = <<"cr3", "pg">>
         /\ Head(c) = "pg" => c = <<"pg">>
<1> USE DEF BootCode, KmainCode, GdtCode, IdtCode, FpuCode, PagingCode,
            gdt_install, idt_install, tss_install, pit_install,
            fpu_sse_install, paging_install
<1>1. Head(c) = "lgdt" => c = gdt_install
  OBVIOUS
<1>2. Head(c) = "segments" => c = <<"segments">>
  OBVIOUS
<1>3. Head(c) = "populate_idt" => c = idt_install
  OBVIOUS
<1>4. Head(c) = "icw" => c = <<"icw", "mask", "lidt", "sti">>
  OBVIOUS
<1>5. Head(c) = "mask" => c = <<"mask", "lidt", "sti">>
  OBVIOUS
<1>6. Head(c) = "lidt" => c = <<"lidt", "sti">>
  OBVIOUS
<1>7. Head(c) = "sti" => c = <<"sti">>
  OBVIOUS
<1>8. Head(c) = "ltr" => c = tss_install
  OBVIOUS
<1>9. Head(c) = "pit" => c = pit_install
  OBVIOUS
<1>10. Head(c) = "fpu" => c = fpu_sse_install
  OBVIOUS
<1>11. Head(c) = "sse" => c = <<"sse">>
  OBVIOUS
<1>12. Head(c) = "zero" => c = paging_install
  OBVIOUS
<1>13. Head(c) = "map" => c = <<"map", "directory", "cr3", "pg">>
  OBVIOUS
<1>14. Head(c) = "directory" => c = <<"directory", "cr3", "pg">>
  OBVIOUS
<1>15. Head(c) = "cr3" => c = <<"cr3", "pg">>
  OBVIOUS
<1>16. Head(c) = "pg" => c = <<"pg">>
  OBVIOUS
<1>17. Head(c) = "cli" => c = <<"cli">>
  OBVIOUS
<1> QED
  BY <1>1, <1>2, <1>3, <1>4, <1>5, <1>6, <1>7, <1>8, <1>9, <1>10, <1>11,
     <1>12, <1>13, <1>14, <1>15, <1>16, <1>17, Zenon

\* A group that runs is the first of the code at hand.
LEMMA RunsIs ==
  ASSUME IInv, NEW group, Runs(group)
  PROVE  /\ code \in BootCode \cup KmainCode /\ code # <<>>
         /\ Head(code) = group /\ code' = Tail(code)
         /\ cpu = "runs" /\ UNCHANGED <<start, calls, pc, called>>
         /\ pc \in {"start", "kmain"}
         /\ pc = "start" => code \in BootCode
         /\ pc = "kmain" => code \in KmainCode /\ Ready
<1>1. pc \in {"start", "kmain"} /\ cpu = "runs"
  BY DEF IInv, Runs
<1>2. pc = "start" => code \in BootCode
  BY <1>1 DEF IInv, BootProgress
<1>3. pc = "kmain" => code \in KmainCode /\ Ready
  BY <1>1 DEF IInv, KmainProgress
<1> QED
  BY <1>1, <1>2, <1>3 DEF Runs

LEMMA Separate ==
  ASSUME NEW c \in GdtCode \cup IdtCode
  PROVE  c \notin KmainCode /\ c \notin PagingCode /\ c # <<>>
BY DEF GdtCode, IdtCode, KmainCode, FpuCode, PagingCode,
       gdt_install, idt_install, tss_install, pit_install,
       fpu_sse_install, paging_install

\* What leaves the tables alone, and does not turn paging on.
LEMMA PagingKeeps ==
  ASSUME IInv, UNCHANGED <<pages, called>>, code' \notin PagingCode,
         PG \in cr0' => PG \in cr0, pc' = "start" => pc = "start"
  PROVE  PagingProgress' /\ PagingIsIdentity'
<1>1. code' # <<"pg">> /\ code' # <<"cr3", "pg">>
      /\ code' # <<"directory", "cr3", "pg">>
  BY DEF PagingCode
<1>2. PagingProgress'
  BY <1>1 DEF IInv, PagingProgress, pages
<1>3. PagingIsIdentity'
  BY DEF IInv, PagingIsIdentity, pages
<1> QED
  BY <1>2, <1>3

-----------------------------------------------------------------------------
(* Up to kmain *)

LEMMA lgdtKeeps == ASSUME IInv, lgdt PROVE IInv'
<1>1. /\ Runs("lgdt") /\ gdt' = "kernel"
      /\ UNCHANGED <<cpu, cs, ints, cr0, cr4, pages, pit, ebx>>
  BY DEF lgdt
<1>2. code = gdt_install /\ code' = <<"segments">>
  <2>1. code = gdt_install
    BY <1>1, RunsIs, CodeIs
  <2> QED
    BY <1>1, <2>1, RunsIs DEF gdt_install
<1>3. code \in GdtCode /\ code' \in GdtCode
  BY <1>2 DEF GdtCode
<1>4. pc = "start" /\ pc' = "start" /\ cpu = "runs" /\ code # <<>>
      /\ UNCHANGED <<start, calls, called>>
  BY <1>1, <1>3, RunsIs, Separate
<1>5. calls = Tail(StartCalls(start)) /\ ~IF_
  BY <1>3, <1>4 DEF IInv, BootProgress
<1>6. code' \notin IdtCode /\ code' \notin PagingCode /\ code' # <<>>
  BY <1>2, <1>3, Separate DEF IdtCode, idt_install
<1>7. BootProgress'
  <2>1. code' \in BootCode
    BY <1>3 DEF BootCode
  <2>2. UNCHANGED IF_
    BY <1>1 DEF ints
  <2>3. code' # <<"sti">> /\ code' # <<"lidt", "sti">>
        /\ code' # <<"mask", "lidt", "sti">> /\ code' # <<"cli">>
    BY <1>2
  <2> QED
    BY <1>1, <1>4, <1>5, <1>6, <2>1, <2>2, <2>3 DEF BootProgress
<1>8. PagingProgress' /\ PagingIsIdentity'
  BY <1>1, <1>4, <1>6, PagingKeeps
<1> QED
  BY <1>4, <1>7, <1>8 DEF IInv, KmainProgress

LEMMA SegmentsKeeps == ASSUME IInv, Segments PROVE IInv'
<1>1. /\ Runs("segments") /\ cs' = "kernel"
      /\ UNCHANGED <<cpu, gdt, ints, cr0, cr4, pages, pit, ebx>>
  BY DEF Segments
<1>2. code = <<"segments">> /\ code' = <<>>
  <2>1. code = <<"segments">>
    BY <1>1, RunsIs, CodeIs
  <2> QED
    BY <1>1, <2>1, RunsIs
<1>3. code \in GdtCode
  BY <1>2 DEF GdtCode
<1>4. pc = "start" /\ pc' = "start" /\ cpu = "runs" /\ code # <<>>
      /\ UNCHANGED <<start, calls, called>>
  BY <1>1, <1>3, RunsIs, Separate
<1>5. calls = Tail(StartCalls(start)) /\ ~IF_ /\ gdt = "kernel"
  BY <1>2, <1>3, <1>4 DEF IInv, BootProgress
<1>6. /\ code' \notin IdtCode /\ code' \notin GdtCode /\ code' \notin PagingCode
      /\ code' \in BootCode
  BY <1>2, Separate DEF PagingCode, paging_install, BootCode
<1>7. BootProgress'
  <2>1. UNCHANGED IF_
    BY <1>1 DEF ints
  <2>2. code' # <<"sti">> /\ code' # <<"lidt", "sti">>
        /\ code' # <<"mask", "lidt", "sti">> /\ code' # <<"segments">>
    BY <1>2
  <2> QED
    BY <1>1, <1>2, <1>4, <1>5, <1>6, <2>1, <2>2 DEF BootProgress
<1>8. PagingProgress' /\ PagingIsIdentity'
  BY <1>1, <1>4, <1>6, PagingKeeps
<1> QED
  BY <1>4, <1>7, <1>8 DEF IInv, KmainProgress

\* What every group of idt_install starts from, and leaves alone.
LEMMA IdtStep ==
  ASSUME IInv, NEW group, Runs(group), code \in IdtCode, code' \notin PagingCode,
         UNCHANGED <<cpu, sels, cr0, pages>>
  PROVE  /\ pc = "start" /\ cpu = "runs" /\ code # <<>>
         /\ calls = <<>> /\ gdt = "kernel" /\ cs = "kernel" /\ ~IF_
         /\ UNCHANGED <<start, calls, pc, cpu, gdt, cs, called>>
         /\ PagingProgress' /\ PagingIsIdentity'
<1>1. pc = "start" /\ cpu = "runs" /\ code # <<>>
      /\ UNCHANGED <<start, calls, pc, called>>
  BY RunsIs, Separate
<1>2. calls = <<>> /\ gdt = "kernel" /\ cs = "kernel" /\ ~IF_
  BY <1>1 DEF IInv, BootProgress
<1>3. PagingProgress' /\ PagingIsIdentity'
  BY <1>1, PagingKeeps
<1> QED
  BY <1>1, <1>2, <1>3 DEF sels

LEMMA IdtCodes ==
  /\ idt_install \in IdtCode /\ <<"icw", "mask", "lidt", "sti">> \in IdtCode
  /\ <<"mask", "lidt", "sti">> \in IdtCode /\ <<"lidt", "sti">> \in IdtCode
  /\ <<"sti">> \in IdtCode
  /\ \A c \in IdtCode : c \in BootCode /\ c \notin GdtCode /\ c \notin PagingCode
                        /\ c # <<"segments">> /\ c # <<>> /\ c # <<"cli">>
  /\ <<>> \in BootCode /\ <<>> \notin GdtCode /\ <<>> \notin IdtCode
  /\ <<>> \notin PagingCode
BY DEF IdtCode, idt_install, GdtCode, gdt_install, PagingCode, paging_install,
       BootCode

LEMMA cliKeeps == ASSUME IInv, cli PROVE IInv'
<1>1. /\ Runs("cli") /\ IF_' = FALSE
      /\ UNCHANGED <<cpu, sels, idtr, gates, pic, cr0, pages>>
  BY DEF cli
<1>2. code = <<"cli">> /\ code' = <<>>
  <2>1. code = <<"cli">>
    BY <1>1, RunsIs, CodeIs
  <2> QED
    BY <1>1, <2>1, RunsIs
<1>3. code \notin KmainCode /\ code # <<>>
  BY <1>2 DEF KmainCode, FpuCode, PagingCode, tss_install, pit_install,
              fpu_sse_install, paging_install
<1>4. pc = "start" /\ pc' = "start" /\ cpu = "runs"
      /\ UNCHANGED <<start, calls, called>>
  BY <1>1, <1>3, RunsIs
<1>5. calls = StartCalls(start)
  BY <1>2, <1>4 DEF IInv, BootProgress
<1>6. code' # <<"sti">> /\ code' # <<"lidt", "sti">> /\ code' # <<"cli">>
      /\ code' # <<"mask", "lidt", "sti">> /\ code' # <<"segments">>
  BY <1>2
<1>7. BootProgress'
  BY <1>1, <1>2, <1>4, <1>5, <1>6, IdtCodes DEF BootProgress
<1>8. PagingProgress' /\ PagingIsIdentity'
  BY <1>1, <1>2, <1>4, IdtCodes, PagingKeeps
<1> QED
  BY <1>4, <1>7, <1>8 DEF IInv, KmainProgress

LEMMA populate_idtKeeps == ASSUME IInv, populate_idt PROVE IInv'
<1>1. /\ Runs("populate_idt") /\ gates' = AllGates
      /\ UNCHANGED <<cpu, sels, IF_, idtr, pic, cr0, pages>>
  BY DEF populate_idt, IrqGates, AllGates
<1>2. code = idt_install /\ code' = <<"icw", "mask", "lidt", "sti">>
  <2>1. code = idt_install
    BY <1>1, RunsIs, CodeIs
  <2> QED
    BY <1>1, <2>1, RunsIs DEF idt_install
<1>3. code' \in IdtCode /\ code \in IdtCode /\ code' \notin PagingCode
  BY <1>2, IdtCodes
<1>4. /\ pc = "start" /\ cpu = "runs" /\ calls = <<>>
      /\ gdt = "kernel" /\ cs = "kernel" /\ ~IF_
      /\ UNCHANGED <<start, calls, pc, cpu, gdt, cs, called>>
      /\ PagingProgress' /\ PagingIsIdentity'
  BY <1>1, <1>3, IdtStep
<1>5. BootProgress'
  <2>1. code' # <<"mask", "lidt", "sti">> /\ code' # <<"lidt", "sti">>
        /\ code' # <<"sti">> /\ code' # idt_install
    BY <1>2 DEF idt_install
  <2> QED
    BY <1>1, <1>3, <1>4, <2>1, IdtCodes DEF BootProgress
<1> QED
  BY <1>4, <1>5 DEF IInv, KmainProgress

LEMMA InitPicsKeeps == ASSUME IInv, InitPics PROVE IInv'
<1>1. /\ Runs("icw") /\ Remapped(pic')
      /\ UNCHANGED <<cpu, sels, IF_, idtr, gates, cr0, pages>>
  BY DEF InitPics, Remapped
<1>2. /\ code = <<"icw", "mask", "lidt", "sti">>
      /\ code' = <<"mask", "lidt", "sti">>
  <2>1. code = <<"icw", "mask", "lidt", "sti">>
    BY <1>1, RunsIs, CodeIs
  <2> QED
    BY <1>1, <2>1, RunsIs
<1>3. code' \in IdtCode /\ code \in IdtCode /\ code' \notin PagingCode
  BY <1>2, IdtCodes
<1>4. /\ pc = "start" /\ cpu = "runs" /\ calls = <<>>
      /\ gdt = "kernel" /\ cs = "kernel" /\ ~IF_
      /\ UNCHANGED <<start, calls, pc, cpu, gdt, cs, called>>
      /\ PagingProgress' /\ PagingIsIdentity'
  BY <1>1, <1>3, IdtStep
<1>5. gates = AllGates
  BY <1>2, <1>3, <1>4 DEF IInv, BootProgress, idt_install
<1>6. BootProgress'
  <2>1. code' # <<"lidt", "sti">> /\ code' # <<"sti">> /\ code' # idt_install
    BY <1>2 DEF idt_install
  <2> QED
    BY <1>1, <1>3, <1>4, <1>5, <2>1, IdtCodes DEF BootProgress
<1> QED
  BY <1>4, <1>6 DEF IInv, KmainProgress

LEMMA MaskAllKeeps == ASSUME IInv, PicOK, MaskAll PROVE IInv'
<1>1. /\ Runs("mask") /\ pic' = [pic EXCEPT !.mask = Masked]
      /\ UNCHANGED <<cpu, sels, IF_, idtr, gates, cr0, pages>>
  BY DEF MaskAll
<1>2. code = <<"mask", "lidt", "sti">> /\ code' = <<"lidt", "sti">>
  <2>1. code = <<"mask", "lidt", "sti">>
    BY <1>1, RunsIs, CodeIs
  <2> QED
    BY <1>1, <2>1, RunsIs
<1>3. code' \in IdtCode /\ code \in IdtCode /\ code' \notin PagingCode
  BY <1>2, IdtCodes
<1>4. /\ pc = "start" /\ cpu = "runs" /\ calls = <<>>
      /\ gdt = "kernel" /\ cs = "kernel" /\ ~IF_
      /\ UNCHANGED <<start, calls, pc, cpu, gdt, cs, called>>
      /\ PagingProgress' /\ PagingIsIdentity'
  BY <1>1, <1>3, IdtStep
<1>5. gates = AllGates /\ Remapped(pic)
  BY <1>2, <1>3, <1>4 DEF IInv, BootProgress, idt_install
<1>6. Remapped(pic') /\ pic'.mask = Lines
  BY <1>1, <1>5 DEF Remapped, Masked, PicOK
<1>7. BootProgress'
  <2>1. code' # <<"sti">>
    BY <1>2
  <2> QED
    BY <1>1, <1>3, <1>4, <1>5, <1>6, <2>1, IdtCodes DEF BootProgress
<1> QED
  BY <1>4, <1>7 DEF IInv, KmainProgress

LEMMA lidtKeeps == ASSUME IInv, lidt PROVE IInv'
<1>1. /\ Runs("lidt") /\ idtr' = "kernel"
      /\ UNCHANGED <<cpu, sels, IF_, gates, pic, cr0, pages>>
  BY DEF lidt
<1>2. code = <<"lidt", "sti">> /\ code' = <<"sti">>
  <2>1. code = <<"lidt", "sti">>
    BY <1>1, RunsIs, CodeIs
  <2> QED
    BY <1>1, <2>1, RunsIs
<1>3. code' \in IdtCode /\ code \in IdtCode /\ code' \notin PagingCode
  BY <1>2, IdtCodes
<1>4. /\ pc = "start" /\ cpu = "runs" /\ calls = <<>>
      /\ gdt = "kernel" /\ cs = "kernel" /\ ~IF_
      /\ UNCHANGED <<start, calls, pc, cpu, gdt, cs, called>>
      /\ PagingProgress' /\ PagingIsIdentity'
  BY <1>1, <1>3, IdtStep
<1>5. gates = AllGates /\ Remapped(pic) /\ pic.mask = Lines
  BY <1>2, <1>3, <1>4 DEF IInv, BootProgress, idt_install
<1>6. BootProgress'
  BY <1>1, <1>3, <1>4, <1>5, IdtCodes DEF BootProgress
<1> QED
  BY <1>4, <1>6 DEF IInv, KmainProgress

LEMMA stiKeeps == ASSUME IInv, sti PROVE IInv'
<1>1. /\ Runs("sti") /\ UNCHANGED <<cpu, sels, idtr, gates, pic, cr0, pages>>
  BY DEF sti
<1>2. code = <<"sti">> /\ code' = <<>>
  <2>1. code = <<"sti">>
    BY <1>1, RunsIs, CodeIs
  <2> QED
    BY <1>1, <2>1, RunsIs
<1>3. code \in IdtCode /\ code' \notin PagingCode
  BY <1>2, IdtCodes
<1>4. /\ pc = "start" /\ cpu = "runs" /\ calls = <<>>
      /\ gdt = "kernel" /\ cs = "kernel" /\ ~IF_
      /\ UNCHANGED <<start, calls, pc, cpu, gdt, cs, called>>
      /\ PagingProgress' /\ PagingIsIdentity'
  BY <1>1, <1>3, IdtStep
<1>5. gates = AllGates /\ Remapped(pic) /\ pic.mask = Lines /\ idtr = "kernel"
  BY <1>2, <1>3, <1>4 DEF IInv, BootProgress, idt_install
<1>6. BootProgress'
  <2>1. code' # <<"mask", "lidt", "sti">> /\ code' # <<"lidt", "sti">>
        /\ code' # <<"sti">> /\ code' # <<"segments">>
    BY <1>2
  <2> QED
    BY <1>1, <1>2, <1>4, <1>5, <2>1, IdtCodes DEF BootProgress, Ready
<1> QED
  BY <1>4, <1>6 DEF IInv, KmainProgress

\* CallKmain is only reached when everything kmain relies on is there.
LEMMA CallKmainKeeps == ASSUME IInv, CallKmain PROVE IInv'
<1>1. /\ cpu = "runs" /\ pc = "start" /\ code = <<>> /\ calls = <<>>
      /\ pc' = "kmain"
      /\ UNCHANGED <<start, calls, code, cpu, sels, ints, cr0, pages, called>>
  BY DEF CallKmain
<1>2. StartCalls(start) # <<>> /\ Tail(StartCalls(start)) # <<>>
  BY DEF StartCalls
<1>3. Ready
  BY <1>1, <1>2 DEF IInv, BootProgress
<1>4. Ready' /\ code' \in KmainCode /\ code' \notin PagingCode
  BY <1>1, <1>3, IdtCodes DEF Ready, sels, ints, KmainCode
<1>5. PagingProgress' /\ PagingIsIdentity'
  BY <1>1, <1>4, PagingKeeps
<1> QED
  BY <1>1, <1>4, <1>5 DEF IInv, BootProgress, KmainProgress

LEMMA CallKeeps == ASSUME IInv, Call PROVE IInv'
<1>1. /\ cpu = "runs" /\ pc = "start" /\ code = <<>> /\ calls # <<>>
      /\ code' = Head(calls) /\ calls' = Tail(calls)
      /\ UNCHANGED <<start, pc, cpu, sels, ints, cr0, pages, called>>
  BY DEF Call
<1>2. ~IF_
  BY <1>1 DEF IInv, BootProgress
<1>3. UNCHANGED <<IF_, gdt, cs, idtr, gates, pic>>
  BY <1>1 DEF sels, ints
<1>4. CASE calls = StartCalls(start)
  <2>1. code' = gdt_install /\ calls' = Tail(StartCalls(start))
    BY <1>1, <1>4 DEF StartCalls
  <2>2. /\ code' \in GdtCode /\ code' # <<"segments">> /\ code' \notin IdtCode
        /\ code' \in BootCode /\ code' \notin PagingCode /\ code' # <<>>
    BY <2>1, Separate, IdtCodes DEF GdtCode, gdt_install, BootCode
  <2>3. code' # <<"mask", "lidt", "sti">> /\ code' # <<"lidt", "sti">>
        /\ code' # <<"sti">> /\ code' # <<"cli">>
    BY <2>1 DEF gdt_install
  <2>4. BootProgress'
    BY <1>1, <1>2, <1>3, <2>1, <2>2, <2>3 DEF BootProgress
  <2>5. PagingProgress' /\ PagingIsIdentity'
    BY <1>1, <2>2, PagingKeeps
  <2> QED
    BY <1>1, <2>4, <2>5 DEF IInv, KmainProgress
<1>5. CASE calls = Tail(StartCalls(start)) /\ gdt = "kernel" /\ cs = "kernel"
  <2>1. CASE start = "basic"
    <3>1. Tail(StartCalls(start)) = <<idt_install>>
      BY <2>1 DEF StartCalls
    <3>2. code' = idt_install /\ calls' = <<>>
      <4>1. \A c : Head(<<c>>) = c /\ Tail(<<c>>) = <<>>
        OBVIOUS
      <4>2. calls = <<idt_install>>
        BY <1>5, <3>1
      <4> QED
        BY <1>1, <4>1, <4>2
    <3>3. code' \in IdtCode /\ code' \notin PagingCode
      BY <3>2, IdtCodes
    <3>4. code' # <<"mask", "lidt", "sti">> /\ code' # <<"lidt", "sti">>
          /\ code' # <<"sti">> /\ code' # <<"cli">>
      BY <3>2 DEF idt_install
    <3>5. BootProgress'
      BY <1>1, <1>2, <1>3, <1>5, <3>2, <3>3, <3>4, IdtCodes DEF BootProgress
    <3>6. PagingProgress' /\ PagingIsIdentity'
      BY <1>1, <3>3, PagingKeeps
    <3> QED
      BY <1>1, <3>5, <3>6 DEF IInv, KmainProgress
  <2>2. CASE start # "basic"
    <3>1. Head(Tail(StartCalls(start))) = tss_install
      BY <2>2 DEF StartCalls
    <3>2. code' = tss_install
      BY <1>1, <1>5, <3>1
    <3>3. /\ code' \in BootCode /\ code' \notin IdtCode /\ code' \notin GdtCode
          /\ code' \notin PagingCode /\ code' # <<>>
      BY <3>2 DEF BootCode, IdtCode, GdtCode, PagingCode, tss_install,
                  idt_install, gdt_install, paging_install
    <3>4. code' # <<"mask", "lidt", "sti">> /\ code' # <<"lidt", "sti">>
          /\ code' # <<"sti">> /\ code' # <<"segments">>
          /\ code' # <<"cli">>
      BY <3>2 DEF tss_install
    <3>5. BootProgress'
      BY <1>1, <1>2, <1>3, <3>3, <3>4 DEF BootProgress
    <3>6. PagingProgress' /\ PagingIsIdentity'
      BY <1>1, <3>3, PagingKeeps
    <3> QED
      BY <1>1, <3>5, <3>6 DEF IInv, KmainProgress
  <2> QED
    BY <2>1, <2>2
<1> QED
  BY <1>1, <1>4, <1>5 DEF IInv, BootProgress

\* ltr's selector is outside the table, so no step follows it.
LEMMA ltrKeeps == ASSUME IInv, ltr PROVE IInv'
<1>1. /\ Runs("ltr") /\ cpu' # "runs"
      /\ UNCHANGED <<sels, ints, cr0, pages>>
  BY DEF ltr, SelectorInGdt, gdt_limit
<1>2. code = tss_install /\ code' = <<>>
  <2>1. code = tss_install
    BY <1>1, RunsIs, CodeIs
  <2> QED
    BY <1>1, <2>1, RunsIs DEF tss_install
<1>3. PagingProgress' /\ PagingIsIdentity'
  BY <1>1, <1>2, RunsIs, IdtCodes, PagingKeeps
<1> QED
  BY <1>1, <1>3, RunsIs DEF IInv, BootProgress, KmainProgress

-----------------------------------------------------------------------------
(* In kmain *)

\* A group of a routine that only kmain gets to call.
LEMMA KmainStep ==
  ASSUME IInv, NEW group, Runs(group), code \notin BootCode,
         code' \in KmainCode, UNCHANGED <<cpu, sels, ints>>
  PROVE  /\ pc = "kmain" /\ UNCHANGED <<pc, called>>
         /\ BootProgress' /\ KmainProgress'
<1>1. pc = "kmain" /\ Ready /\ UNCHANGED <<pc, called>>
  BY RunsIs
<1> QED
  BY <1>1 DEF BootProgress, KmainProgress, Ready, sels, ints

LEMMA KmainCodes ==
  /\ \A c \in FpuCode \cup PagingCode : c \notin BootCode /\ c \in KmainCode
  /\ pit_install \notin BootCode
  /\ <<>> \in KmainCode /\ <<>> \notin PagingCode
  /\ \A c \in FpuCode : c \notin PagingCode
BY DEF FpuCode, PagingCode, BootCode, KmainCode, IdtCode, GdtCode,
       gdt_install, idt_install, tss_install, pit_install, fpu_sse_install,
       paging_install

LEMMA KmainCallsKeeps ==
  ASSUME IInv, NEW routine \in Exported, KmainCalls(routine)
  PROVE  IInv'
<1>1. /\ pc = "kmain" /\ cpu = "runs" /\ code' = routine
      /\ routine \notin called /\ called' = called \cup {routine}
      /\ UNCHANGED <<pc, cpu, sels, ints, cr0, pages>>
  BY DEF KmainCalls
<1>2. Ready' /\ code' \in KmainCode
  BY <1>1 DEF IInv, KmainProgress, Ready, sels, ints, Exported, KmainCode,
              FpuCode, PagingCode
<1>3. BootProgress' /\ KmainProgress'
  BY <1>1, <1>2 DEF BootProgress, KmainProgress
<1>4. code' \in PagingCode => code' = paging_install
  BY <1>1 DEF Exported, PagingCode, tss_install, pit_install,
              fpu_sse_install, paging_install
<1>5. paging_install # <<"pg">> /\ paging_install # <<"cr3", "pg">>
      /\ paging_install # <<"directory", "cr3", "pg">>
  BY DEF paging_install
<1>6. code' # <<"pg">> /\ code' # <<"cr3", "pg">>
      /\ code' # <<"directory", "cr3", "pg">>
  BY <1>4, <1>5 DEF PagingCode
<1>7. PagingProgress'
  BY <1>1, <1>4, <1>6 DEF IInv, PagingProgress, pages
<1>8. PagingIsIdentity'
  BY <1>1 DEF IInv, PagingIsIdentity, pages
<1> QED
  BY <1>1, <1>3, <1>7, <1>8 DEF IInv

\* kmain's other calls: masks and the interrupt flag.
LEMMA KmainPortsKeep ==
  ASSUME IInv, PicOK,
         \/ \E line \in Lines : KmainUnmasks(line)
         \/ \E on \in BOOLEAN : KmainSetsInterrupts(on)
  PROVE  IInv'
<1>1. /\ pc = "kmain" /\ cpu = "runs" /\ code = <<>> /\ Remapped(pic')
      /\ UNCHANGED <<start, calls, code, pc, cpu, sels, idtr, gates, cr0, pages,
                     called>>
  <2>1. pc = "kmain" /\ cpu = "runs" /\ code = <<>>
    BY DEF KmainUnmasks, KmainSetsInterrupts
  <2>2. Remapped(pic)
    BY <2>1 DEF IInv, KmainProgress, Ready
  <2>3. ASSUME NEW line \in Lines, KmainUnmasks(line) PROVE Remapped(pic')
    BY <2>2, <2>3 DEF KmainUnmasks, Remapped, PicOK
  <2>4. ASSUME NEW on \in BOOLEAN, KmainSetsInterrupts(on) PROVE Remapped(pic')
    BY <2>2, <2>4 DEF KmainSetsInterrupts
  <2>5. Remapped(pic')
    BY <2>3, <2>4
  <2> QED
    BY <2>1, <2>5 DEF KmainUnmasks, KmainSetsInterrupts
<1>2. Ready' /\ code' \in KmainCode
  BY <1>1 DEF IInv, KmainProgress, Ready, sels
<1>3. PagingProgress' /\ PagingIsIdentity'
  BY <1>1, IdtCodes, PagingKeeps
<1> QED
  BY <1>1, <1>2, <1>3 DEF IInv, BootProgress, KmainProgress

\* What pit_install and fpu_sse_install do is not what paging needs.
LEMMA PitKeeps ==
  ASSUME IInv, NEW hz, ProgramPit(hz)
  PROVE  IInv'
<1>1. Runs("pit") /\ UNCHANGED <<cpu, sels, ints, cr0, pages>>
  BY DEF ProgramPit
<1>2. code = pit_install /\ code' = <<>>
  <2>1. code = pit_install
    BY <1>1, RunsIs, CodeIs
  <2> QED
    BY <1>1, <2>1, RunsIs DEF pit_install
<1>3. pc = "kmain" /\ UNCHANGED <<pc, called>> /\ BootProgress' /\ KmainProgress'
  BY <1>1, <1>2, KmainCodes, KmainStep
<1>4. PagingProgress' /\ PagingIsIdentity'
  BY <1>1, <1>2, <1>3, KmainCodes, PagingKeeps
<1> QED
  BY <1>3, <1>4 DEF IInv

LEMMA FpuKeeps ==
  ASSUME IInv, SetFpuBits
  PROVE  IInv'
<1>1. /\ Runs("fpu") /\ PG \notin cr0'
      /\ UNCHANGED <<cpu, sels, ints, pages>>
  BY DEF SetFpuBits, PG, NE
<1>2. code = fpu_sse_install /\ code' = <<"sse">>
  <2>1. code = fpu_sse_install
    BY <1>1, RunsIs, CodeIs
  <2> QED
    BY <1>1, <2>1, RunsIs DEF fpu_sse_install
<1>3. code \in FpuCode /\ code' \in FpuCode
  BY <1>2 DEF FpuCode
<1>4. pc = "kmain" /\ UNCHANGED <<pc, called>> /\ BootProgress' /\ KmainProgress'
  BY <1>1, <1>3, KmainCodes, KmainStep
<1>5. PagingProgress' /\ PagingIsIdentity'
  BY <1>1, <1>3, <1>4, KmainCodes, PagingKeeps
<1> QED
  BY <1>4, <1>5 DEF IInv

LEMMA SseKeeps ==
  ASSUME IInv, NEW sse, SetSseBits(sse)
  PROVE  IInv'
<1>1. Runs("sse") /\ UNCHANGED <<cpu, sels, ints, cr0, pages>>
  BY DEF SetSseBits
<1>2. code = <<"sse">> /\ code' = <<>>
  <2>1. code = <<"sse">>
    BY <1>1, RunsIs, CodeIs
  <2> QED
    BY <1>1, <2>1, RunsIs
<1>3. code \in FpuCode
  BY <1>2 DEF FpuCode
<1>4. pc = "kmain" /\ UNCHANGED <<pc, called>> /\ BootProgress' /\ KmainProgress'
  BY <1>1, <1>2, <1>3, KmainCodes, KmainStep
<1>5. PagingProgress' /\ PagingIsIdentity'
  BY <1>1, <1>2, <1>4, KmainCodes, PagingKeeps
<1> QED
  BY <1>4, <1>5 DEF IInv

-----------------------------------------------------------------------------
(* paging_install *)

\* What every group of paging_install starts from.
LEMMA PagingStep ==
  ASSUME IInv, NEW group, Runs(group), code \in PagingCode,
         code' \in KmainCode, UNCHANGED <<cpu, sels, ints>>
  PROVE  /\ pc = "kmain" /\ UNCHANGED <<pc, called>>
         /\ PG \notin cr0 /\ paging_install \in called
         /\ BootProgress' /\ KmainProgress'
<1>1. pc = "kmain" /\ UNCHANGED <<pc, called>> /\ BootProgress' /\ KmainProgress'
  BY KmainCodes, KmainStep
<1>2. PG \notin cr0 /\ paging_install \in called
  BY DEF IInv, PagingProgress
<1> QED
  BY <1>1, <1>2

LEMMA PagingCodes ==
  /\ paging_install \in PagingCode
  /\ <<"map", "directory", "cr3", "pg">> \in PagingCode
  /\ <<"directory", "cr3", "pg">> \in PagingCode
  /\ <<"cr3", "pg">> \in PagingCode /\ <<"pg">> \in PagingCode
BY DEF PagingCode

LEMMA ZeroKeeps == ASSUME IInv, ZeroTables PROVE IInv'
<1>1. Runs("zero") /\ UNCHANGED <<cpu, sels, ints, cr0>>
  BY DEF ZeroTables
<1>2. /\ code = paging_install
      /\ code' = <<"map", "directory", "cr3", "pg">>
  <2>1. code = paging_install
    BY <1>1, RunsIs, CodeIs
  <2> QED
    BY <1>1, <2>1, RunsIs DEF paging_install
<1>3. /\ pc = "kmain" /\ UNCHANGED <<pc, called>>
      /\ PG \notin cr0 /\ paging_install \in called
      /\ BootProgress' /\ KmainProgress'
  BY <1>1, <1>2, PagingCodes, KmainCodes, PagingStep
<1>4. code' # <<"directory", "cr3", "pg">> /\ code' # <<"cr3", "pg">>
      /\ code' # <<"pg">>
  BY <1>2
<1>5. PagingProgress' /\ PagingIsIdentity'
  BY <1>1, <1>3, <1>4 DEF PagingProgress, PagingIsIdentity
<1> QED
  BY <1>3, <1>5 DEF IInv

LEMMA MapKeeps == ASSUME IInv, MapPages PROVE IInv'
<1>1. /\ Runs("map") /\ first_page_table' = [e \in Entries |-> e]
      /\ UNCHANGED <<cpu, sels, ints, cr0>>
  BY DEF MapPages
<1>2. /\ code = <<"map", "directory", "cr3", "pg">>
      /\ code' = <<"directory", "cr3", "pg">>
  <2>1. code = <<"map", "directory", "cr3", "pg">>
    BY <1>1, RunsIs, CodeIs
  <2> QED
    BY <1>1, <2>1, RunsIs
<1>3. /\ pc = "kmain" /\ UNCHANGED <<pc, called>>
      /\ PG \notin cr0 /\ paging_install \in called
      /\ BootProgress' /\ KmainProgress'
  BY <1>1, <1>2, PagingCodes, KmainCodes, PagingStep
<1>4. \A e \in Entries : first_page_table'[e] = e
  BY <1>1
<1>5. code' # <<"cr3", "pg">> /\ code' # <<"pg">>
  BY <1>2
<1>6. PagingProgress' /\ PagingIsIdentity'
  BY <1>1, <1>3, <1>4, <1>5 DEF PagingProgress, PagingIsIdentity
<1> QED
  BY <1>3, <1>6 DEF IInv

LEMMA DirectoryKeeps == ASSUME IInv, SetDirectory PROVE IInv'
<1>1. /\ Runs("directory") /\ page_directory' = "first_page_table"
      /\ UNCHANGED <<cpu, sels, ints, cr0, first_page_table>>
  BY DEF SetDirectory
<1>2. code = <<"directory", "cr3", "pg">> /\ code' = <<"cr3", "pg">>
  <2>1. code = <<"directory", "cr3", "pg">>
    BY <1>1, RunsIs, CodeIs
  <2> QED
    BY <1>1, <2>1, RunsIs
<1>3. /\ pc = "kmain" /\ UNCHANGED <<pc, called>>
      /\ PG \notin cr0 /\ paging_install \in called
      /\ BootProgress' /\ KmainProgress'
  BY <1>1, <1>2, PagingCodes, KmainCodes, PagingStep
<1>4. \A e \in Entries : first_page_table[e] = e
  BY <1>2 DEF IInv, PagingProgress
<1>5. code' # <<"pg">>
  BY <1>2
<1>6. PagingProgress' /\ PagingIsIdentity'
  BY <1>1, <1>3, <1>4, <1>5 DEF PagingProgress, PagingIsIdentity
<1> QED
  BY <1>3, <1>6 DEF IInv

LEMMA Cr3Keeps == ASSUME IInv, LoadCr3 PROVE IInv'
<1>1. /\ Runs("cr3") /\ cr3' = "page_directory"
      /\ UNCHANGED <<cpu, sels, ints, cr0, page_directory, first_page_table>>
  BY DEF LoadCr3
<1>2. code = <<"cr3", "pg">> /\ code' = <<"pg">>
  <2>1. code = <<"cr3", "pg">>
    BY <1>1, RunsIs, CodeIs
  <2> QED
    BY <1>1, <2>1, RunsIs
<1>3. /\ pc = "kmain" /\ UNCHANGED <<pc, called>>
      /\ PG \notin cr0 /\ paging_install \in called
      /\ BootProgress' /\ KmainProgress'
  BY <1>1, <1>2, PagingCodes, KmainCodes, PagingStep
<1>4. /\ \A e \in Entries : first_page_table[e] = e
      /\ page_directory = "first_page_table"
  BY <1>2 DEF IInv, PagingProgress
<1>5. PagingProgress' /\ PagingIsIdentity'
  BY <1>1, <1>3, <1>4 DEF PagingProgress, PagingIsIdentity
<1> QED
  BY <1>3, <1>5 DEF IInv

LEMMA PgKeeps == ASSUME IInv, SetPg PROVE IInv'
<1>1. Runs("pg") /\ UNCHANGED <<cpu, sels, ints, pages>>
  BY DEF SetPg
<1>2. code = <<"pg">> /\ code' = <<>>
  <2>1. code = <<"pg">>
    BY <1>1, RunsIs, CodeIs
  <2> QED
    BY <1>1, <2>1, RunsIs
<1>3. /\ pc = "kmain" /\ UNCHANGED <<pc, called>>
      /\ PG \notin cr0 /\ paging_install \in called
      /\ BootProgress' /\ KmainProgress'
  BY <1>1, <1>2, PagingCodes, KmainCodes, PagingStep
<1>4. /\ \A e \in Entries : first_page_table[e] = e
      /\ page_directory = "first_page_table" /\ cr3 = "page_directory"
  BY <1>2 DEF IInv, PagingProgress
<1>5. /\ code' \notin PagingCode /\ code' # <<"pg">> /\ code' # <<"cr3", "pg">>
      /\ code' # <<"directory", "cr3", "pg">>
  BY <1>2, KmainCodes
<1>6. PagingProgress' /\ PagingIsIdentity'
  BY <1>1, <1>3, <1>4, <1>5 DEF PagingProgress, PagingIsIdentity, pages
<1> QED
  BY <1>3, <1>6 DEF IInv

-----------------------------------------------------------------------------
(* The invariant *)

LEMMA IInvInit == Init => PicOK /\ IInv
<1> SUFFICES ASSUME Init PROVE PicOK /\ IInv
  OBVIOUS
<1>1. /\ calls = StartCalls(start) /\ code = <<"cli">> /\ pc = "start"
      /\ cpu = "runs" /\ ~IF_
  BY DEF Init
<1>2. PicOK
  BY DEF Init, PicOK
<1>3. PG \notin cr0
  BY DEF Init, PG, PE
<1>4. code # <<"segments">> /\ code # <<"mask", "lidt", "sti">>
      /\ code # <<"lidt", "sti">> /\ code # <<"sti">> /\ code # <<"pg">>
      /\ code # <<"cr3", "pg">> /\ code # <<"directory", "cr3", "pg">>
      /\ code # <<>>
  BY <1>1
<1>5. /\ code \in BootCode /\ code \notin GdtCode /\ code \notin IdtCode
      /\ code \notin PagingCode
  BY <1>1 DEF BootCode, GdtCode, IdtCode, PagingCode, gdt_install, idt_install,
              paging_install
<1>6. BootProgress
  BY <1>1, <1>4, <1>5 DEF BootProgress
<1>7. PagingProgress /\ PagingIsIdentity
  BY <1>1, <1>3, <1>4, <1>5 DEF PagingProgress, PagingIsIdentity
<1> QED
  BY <1>1, <1>2, <1>6, <1>7 DEF IInv, KmainProgress

LEMMA PicNext == PicOK /\ [Next]_vars => PicOK'
<1> SUFFICES ASSUME PicOK, [Next]_vars PROVE PicOK'
  OBVIOUS
<1> USE DEF PicOK
<1>1. CASE InitPics
  BY <1>1 DEF InitPics
<1>2. CASE MaskAll
  BY <1>2 DEF MaskAll, Masked
<1>3. ASSUME NEW line \in Lines, KmainUnmasks(line) PROVE PicOK'
  BY <1>3 DEF KmainUnmasks
<1>4. ASSUME NEW on \in BOOLEAN, KmainSetsInterrupts(on) PROVE PicOK'
  BY <1>4 DEF KmainSetsInterrupts
<1>5. CASE populate_idt \/ lidt \/ sti \/ cli
  BY <1>5 DEF populate_idt, lidt, sti, cli
<1>6. ASSUME NEW routine \in Exported, KmainCalls(routine) PROVE PicOK'
  BY <1>6 DEF KmainCalls, ints
<1>7. CASE Call \/ CallKmain \/ lgdt \/ Segments \/ ltr
  BY <1>7 DEF Call, CallKmain, lgdt, Segments, ltr, ints
<1>8. ASSUME NEW hz \in Frequencies, ProgramPit(hz) PROVE PicOK'
  BY <1>8 DEF ProgramPit, ints
<1>9. ASSUME NEW sse \in BOOLEAN, SetSseBits(sse) PROVE PicOK'
  BY <1>9 DEF SetSseBits, ints
<1>10. CASE \/ SetFpuBits \/ ZeroTables \/ MapPages \/ SetDirectory
            \/ LoadCr3 \/ SetPg
  BY <1>10 DEF SetFpuBits, ZeroTables, MapPages, SetDirectory, LoadCr3, SetPg,
               ints
<1>11. CASE UNCHANGED vars
  BY <1>11 DEF vars, ints
<1> QED
  BY <1>1, <1>2, <1>3, <1>4, <1>5, <1>6, <1>7, <1>8, <1>9, <1>10, <1>11
  DEF Next

LEMMA IInvNext == PicOK /\ IInv /\ [Next]_vars => IInv'
<1> SUFFICES ASSUME PicOK, IInv, [Next]_vars PROVE IInv'
  OBVIOUS
<1>1. CASE Call \/ CallKmain
  BY <1>1, CallKeeps, CallKmainKeeps
<1>2. ASSUME NEW routine \in Exported, KmainCalls(routine) PROVE IInv'
  BY <1>2, KmainCallsKeeps
<1>3. CASE \/ \E line \in Lines : KmainUnmasks(line)
           \/ \E on \in BOOLEAN : KmainSetsInterrupts(on)
  BY <1>3, KmainPortsKeep
<1>4. CASE cli \/ lgdt \/ Segments
  BY <1>4, cliKeeps, lgdtKeeps, SegmentsKeeps
<1>5. CASE populate_idt \/ InitPics \/ MaskAll \/ lidt \/ sti
  BY <1>5, populate_idtKeeps, InitPicsKeeps, MaskAllKeeps, lidtKeeps, stiKeeps
<1>6. CASE ltr
  BY <1>6, ltrKeeps
<1>7. ASSUME NEW hz \in Frequencies, ProgramPit(hz) PROVE IInv'
  BY <1>7, PitKeeps
<1>8. ASSUME NEW sse \in BOOLEAN, SetSseBits(sse) PROVE IInv'
  BY <1>8, SseKeeps
<1>9. CASE \/ SetFpuBits \/ ZeroTables \/ MapPages \/ SetDirectory
           \/ LoadCr3 \/ SetPg
  BY <1>9, FpuKeeps, ZeroKeeps, MapKeeps, DirectoryKeeps, Cr3Keeps, PgKeeps
<1>10. CASE UNCHANGED vars
  BY <1>10 DEF IInv, BootProgress, KmainProgress, PagingProgress,
     PagingIsIdentity, Ready, vars, sels, ints, pages
<1> QED
  BY <1>1, <1>2, <1>3, <1>4, <1>5, <1>6, <1>7, <1>8, <1>9, <1>10 DEF Next

\* What holds between any two instruction groups, up to kmain and in it.
THEOREM SetupInvariant == Spec => [](PicOK /\ IInv)
<1>1. Init => PicOK /\ IInv
  BY IInvInit
<1>2. PicOK /\ IInv /\ [Next]_vars => (PicOK /\ IInv)'
  BY PicNext, IInvNext
<1> QED
  BY <1>1, <1>2, PTL DEF Spec

-----------------------------------------------------------------------------
(* The theorems *)

LEMMA LinesAreNumbers == \A line \in Lines : line \in 0 .. 15
BY CpuSetupAssumption

LEMMA DeliveredVector ==
  ASSUME IInv, NEW line \in Lines, Deliverable(line)
  PROVE  /\ Ready /\ gates = (0 .. 31) \cup (32 .. 47)
         /\ pic.base1 = 32 /\ pic.base2 = 40
         /\ line \in 0 .. 15 /\ Vector(line) = 32 + line
<1>1. cpu = "runs" /\ IF_ /\ line \notin pic.mask
  BY DEF Deliverable
<1>2. Ready
  <2>1. CASE pc = "kmain"
    BY <1>1, <2>1 DEF IInv, KmainProgress
  <2>2. CASE pc = "start"
    BY <1>1, <2>2 DEF IInv, BootProgress
  <2> QED
    BY <2>1, <2>2 DEF IInv
<1>3. pic.base1 = 32 /\ pic.base2 = 40 /\ gates = (0 .. 31) \cup (32 .. 47)
  BY <1>2 DEF Ready, Remapped, AllGates
<1>4. line \in 0 .. 15
  BY LinesAreNumbers
<1> QED
  BY <1>2, <1>3, <1>4 DEF Vector

\* A line that can interrupt finds the gate that populate_idt made for it:
\* sti comes after everything else in idt_install, and in kmain nothing
\* changes the tables again.
THEOREM EveryIrqHasItsGate == Spec => []IrqReachesItsGate
<1>1. IInv => IrqReachesItsGate
  <2> SUFFICES ASSUME IInv, NEW line \in Lines, Deliverable(line)
               PROVE  /\ idtr = "kernel" /\ gdt = "kernel" /\ cs = "kernel"
                      /\ Vector(line) \in gates \ (0 .. 31)
                      /\ \A other \in Lines \ {line} :
                           Vector(other) # Vector(line)
    BY DEF IrqReachesItsGate
  <2>1. /\ Ready /\ gates = (0 .. 31) \cup (32 .. 47)
        /\ pic.base1 = 32 /\ pic.base2 = 40
        /\ line \in 0 .. 15 /\ Vector(line) = 32 + line
    BY DeliveredVector
  <2>2. 32 + line \in 32 .. 47 /\ 32 + line \notin 0 .. 31
    BY <2>1
  <2>3. ASSUME NEW other \in Lines \ {line}
        PROVE  Vector(other) # Vector(line)
    <3>1. other \in 0 .. 15 /\ other # line
      BY LinesAreNumbers
    <3>2. Vector(other) = 32 + other
      BY <2>1, <3>1 DEF Vector
    <3> QED
      BY <2>1, <3>1, <3>2
  <2> QED
    BY <2>1, <2>2, <2>3 DEF Ready
<1> QED
  BY <1>1, SetupInvariant, PTL

LineHasItsStub(line) ==
  /\ <<"main.core.asm", Vector(line)>> \in CoreStubs
  /\ Vector(line) \notin ErrStubs /\ ErrorCode(Vector(line), FALSE) = <<>>

\* The gate of a line that can interrupt leads to a stub of main.core.asm for
\* a vector without an error code, so the stub pushes the zero that stands
\* for one (populate_idt, IRQ_STUB).
THEOREM EveryIrqHasItsStub ==
  Spec => [](\A line \in Lines : Deliverable(line) => LineHasItsStub(line))
<1>1. IInv => \A line \in Lines : Deliverable(line) => LineHasItsStub(line)
  <2> SUFFICES ASSUME IInv, NEW line \in Lines, Deliverable(line)
               PROVE  LineHasItsStub(line)
    OBVIOUS
  <2>1. PICK n : n = Vector(line)
    OBVIOUS
  <2>2. n \in 32 .. 47
    <3>1. line \in 0 .. 15 /\ Vector(line) = 32 + line
      BY DeliveredVector
    <3> QED
      BY <2>1, <3>1
  <2>3. n \notin ErrStubs /\ n \notin PushesErrorCode /\ n \in 0 .. 47
    BY <2>2 DEF ErrStubs, PushesErrorCode
  <2>4. <<"main.core.asm", n>> \in CoreStubs /\ ErrorCode(n, FALSE) = <<>>
    BY <2>3 DEF CoreStubs, ErrorCode
  <2> QED
    BY <2>1, <2>3, <2>4 DEF LineHasItsStub
<1> QED
  BY <1>1, SetupInvariant, PTL

\* Between idt_install's sti and kmain every line is masked.
THEOREM QuietUntilKmain == Spec => []NoIrqBeforeKmain
<1>1. IInv => NoIrqBeforeKmain
  <2> SUFFICES ASSUME IInv, pc = "start", NEW line \in Lines, Deliverable(line)
               PROVE  FALSE
    BY DEF NoIrqBeforeKmain
  <2>1. cpu = "runs" /\ IF_ /\ line \notin pic.mask
    BY DEF Deliverable
  <2>2. pic.mask = Lines
    BY <2>1 DEF IInv, BootProgress
  <2> QED
    BY <2>1, <2>2
<1> QED
  BY <1>1, SetupInvariant, PTL

\* While paging is on every page is mapped to itself, in whatever order
\* kmain calls paging_install and fpu_sse_install.
THEOREM IdentityMapped == Spec => []PagingIsIdentity
<1>1. IInv => PagingIsIdentity
  BY DEF IInv
<1> QED
  BY <1>1, SetupInvariant, PTL

-----------------------------------------------------------------------------
(* The stubs behind the gates                                              *)

\* What 16 bits can hold: something of the program's, or half of a symbol.
Symbols == {"error code", "clobbered", "number", "esp"} \X Nat

Cell == Halves \cup (Symbols \X {"lo", "hi"})

Word == Cell \X Cell

\* The stack under the stub's own words, one layer upon the other.
Below == ProgramFrame[1] \o (ProgramFrame[2] \o (ProgramFrame[3] \o ProgramStack))

\* The same after isr.s, which takes the first word of the frame away.
Rest == ProgramFrame[2] \o (ProgramFrame[3] \o ProgramStack)

Err(n) == IF n \in PushesErrorCode THEN Sym("error code") ELSE Num(0)

\* The number of vector v, upon the error code of a stub that fits (f).
Numbered(v, f) == Num(v) \o (IF f THEN Err(v) \o Below ELSE Below)

\* The words that pusha puts upon s, while the program's registers are there.
Pushed(s) ==
  ProgramRegs["edi"] \o (ProgramRegs["esi"] \o (ProgramRegs["ebp"] \o
    (Esp(Len(s)) \o (ProgramRegs["ebx"] \o (ProgramRegs["edx"] \o
      (ProgramRegs["ecx"] \o (ProgramRegs["eax"] \o s)))))))

SavedDs(d) == <<d, ProgramRegs["eax"][2]>>

Segmented(v, f, d) == SavedDs(d) \o Pushed(Numbered(v, f))

WithArgument(v, f, d) == Esp(Len(Segmented(v, f, d))) \o Segmented(v, f, d)

CellOn(c, s) == <<c>> \o s

\* Where a stub of main.core.asm pushes its number; CommonCore is behind it.
Lead(n) == IF n \in ErrStubs THEN 2 ELSE 3

\* ds as the program left it.
Ds == segs0["ds"]

\* What a register holds for the instruction that reads it next.
EaxSaved  == regs["eax"] = SavedDs(Ds)
EaxEsp    == regs["eax"] = Esp(Len(stack))
AxKernel  == Low(regs["eax"]) = KernelData
AxSaved   == Low(regs["eax"]) = Ds
EbxSaved  == Low(regs["ebx"]) = Ds

\* The segments as the program left them, or as an earlier stub did.
OwnSegments == segs \in {segs0, AllSegs(Ds)}

\* What the machine holds at an instruction of a stub of main.core.asm: i
\* counts the instructions from the one that pushes the number.
CoreAt(i) ==
  /\ i <= 14 /\ ~ifl
  /\ i < 0 => stack = ErrorCode(entry[2], soft) \o Below
  /\ i = 0 => stack = IF Fits THEN Err(entry[2]) \o Below ELSE Below
  /\ i \in {1, 13} => stack = Numbered(entry[2], Fits)
  /\ i \in {2, 3, 11, 12} => stack = Pushed(Numbered(entry[2], Fits))
  /\ i \in {4, 5, 6, 7, 10} => stack = Segmented(entry[2], Fits, Ds)
  /\ i \in {8, 9} => stack = WithArgument(entry[2], Fits, Ds)
  /\ i = 14 => stack = IF Fits THEN Below ELSE Rest
  /\ i <= 2 \/ i \in {13, 14} => regs = ProgramRegs
  /\ i = 3 => EaxSaved
  /\ i = 5 => AxKernel
  /\ i = 7 => EaxEsp
  /\ i = 11 => EbxSaved
  /\ i <= 5 => OwnSegments
  /\ i \in 6 .. 11 => segs = AllSegs(KernelData)
  /\ i >= 12 => segs = AllSegs(Ds)

CoreProgress == Core /\ ip # 0 => CoreAt(ip - Lead(entry[2]))

\* The same for kernel/isr.s, which removes a word of the frame at the end.
MicroAt(i) ==
  /\ i <= 14
  /\ i <= 12 => ~ifl
  /\ i <= 2 => stack = Below
  /\ i \in {3, 12} => stack = Numbered(entry[2], Fits)
  /\ i \in {4, 5, 10, 11} => stack = Pushed(Numbered(entry[2], Fits))
  /\ i \in 6 .. 9 => stack = CellOn(Ds, Pushed(Numbered(entry[2], Fits)))
  /\ i \in {13, 14} => stack = Rest
  /\ i <= 4 \/ i \in 12 .. 14 => regs = ProgramRegs
  /\ i \in {5, 10} => AxSaved
  /\ i = 7 => AxKernel
  /\ i <= 7 => OwnSegments
  /\ i \in 8 .. 10 => segs = AllSegs(KernelData)
  /\ i >= 11 => segs = AllSegs(Ds)

MicroProgress == ~Core /\ ip # 0 => MicroAt(ip)

StubTypes ==
  /\ entry \in Stubs /\ ip \in Nat
  /\ soft \in BOOLEAN /\ (soft => entry[2] = 21)
  /\ segs0 \in [SegRegs -> ProgramSegs]
  /\ regs \in [General -> Word]

\* The program's segments between two stubs: what it had, or ds in all four
\* once a handler has been called.
SegmentsHeld ==
  ip = 0 => OwnSegments /\ (Called => segs = AllSegs(Ds))

\* The handler of a stub of isr.s gets ds and half of edi for the number.
GetsDs == Called /\ ~Core => call.arg = <<Ds, Low(ProgramRegs["edi"])>>

StubInv ==
  /\ StubTypes
  /\ CoreProgress /\ MicroProgress
  /\ ip = 0 => regs = ProgramRegs
  /\ SegmentsHeld /\ GetsDs
  /\ ResumesProgram /\ HandlerSeesFrame

\* What is cut from behind a first part is cut from the second.
LEMMA CutBehind ==
  ASSUME NEW S, NEW w \in Seq(S), NEW s \in Seq(S),
         NEW i \in Nat, NEW j \in Nat, i > Len(w), j <= Len(w) + Len(s)
  PROVE  SubSeq(w \o s, i, j) = SubSeq(s, i - Len(w), j - Len(w))
<1> DEFINE t == w \o s
           a == SubSeq(t, i, j)
           b == SubSeq(s, i - Len(w), j - Len(w))
<1>1. /\ Len(w) \in Nat /\ Len(s) \in Nat
      /\ t \in Seq(S) /\ Len(t) = Len(w) + Len(s)
      /\ \A k \in 1 .. Len(w) + Len(s) :
           t[k] = IF k <= Len(w) THEN w[k] ELSE s[k - Len(w)]
  BY LenProperties, ConcatProperties
<1> HIDE DEF t
<1>2. \A k \in i .. j : t[k] \in S /\ t[k] = s[k - Len(w)]
  BY <1>1, ElementOfSeq
<1>3. \A k \in i - Len(w) .. j - Len(w) : s[k] \in S
  BY <1>1, ElementOfSeq
<1>4. /\ a \in Seq(S) /\ Len(a) = (IF i <= j THEN j - i + 1 ELSE 0)
      /\ \A k \in 1 .. j - i + 1 : a[k] = t[i + k - 1]
  BY <1>2, SubSeqProperties
<1>5. /\ b \in Seq(S) /\ Len(b) = (IF i <= j THEN j - i + 1 ELSE 0)
      /\ \A k \in 1 .. j - i + 1 : b[k] = s[i - Len(w) + k - 1]
  <2>1. i - Len(w) \in Int /\ j - Len(w) \in Int
    BY <1>1
  <2>2. (j - Len(w)) - (i - Len(w)) + 1 = j - i + 1
        /\ (i - Len(w) <= j - Len(w) <=> i <= j)
    BY <1>1
  <2> QED
    BY <1>3, <2>1, <2>2, SubSeqProperties
<1> HIDE DEF a, b
<1>6. \A k \in 1 .. Len(a) : a[k] = b[k]
  <2> SUFFICES ASSUME NEW k \in 1 .. Len(a) PROVE a[k] = b[k]
    OBVIOUS
  <2>1. k \in 1 .. j - i + 1 /\ i + k - 1 \in i .. j
    BY <1>4
  <2>2. t[i + k - 1] = s[i - Len(w) + k - 1]
    <3>1. (i + k - 1) - Len(w) = i - Len(w) + k - 1
      BY <1>1
    <3> QED
      BY <1>2, <2>1, <3>1
  <2> QED
    BY <1>4, <1>5, <2>1, <2>2
<1>7. a = b
  BY <1>4, <1>5, <1>6, SeqEqual
<1> QED
  BY <1>7 DEF a, b, t

\* What is on top of a stack, and what is left without it.
LEMMA CutTop ==
  ASSUME NEW S, NEW w \in Seq(S), NEW s \in Seq(S)
  PROVE  /\ w \o s \in Seq(S) /\ Len(w \o s) = Len(w) + Len(s)
         /\ SubSeq(w \o s, 1, Len(w)) = w
         /\ SubSeq(w \o s, Len(w) + 1, Len(w \o s)) = s
<1> DEFINE t == w \o s
           a == SubSeq(t, 1, Len(w))
<1>1. /\ Len(w) \in Nat /\ Len(s) \in Nat
      /\ t \in Seq(S) /\ Len(t) = Len(w) + Len(s)
      /\ \A k \in 1 .. Len(w) + Len(s) :
           t[k] = IF k <= Len(w) THEN w[k] ELSE s[k - Len(w)]
  BY LenProperties, ConcatProperties
<1>2. SubSeq(t, Len(w) + 1, Len(t)) = s
  <2>1. SubSeq(t, Len(w) + 1, Len(t)) =
          SubSeq(s, (Len(w) + 1) - Len(w), Len(t) - Len(w))
    BY <1>1, CutBehind
  <2>2. (Len(w) + 1) - Len(w) = 1 /\ Len(t) - Len(w) = Len(s)
    BY <1>1
  <2> QED
    BY <2>1, <2>2, SubSeqFull
<1>3. \A k \in 1 .. Len(w) : t[k] \in S /\ t[k] = w[k]
  <2> HIDE DEF t
  <2> QED
    BY <1>1, ElementOfSeq
<1>4. /\ a \in Seq(S) /\ Len(a) = Len(w)
      /\ \A k \in 1 .. Len(w) : a[k] = t[k]
  <2> HIDE DEF t
  <2>1. Len(w) - 1 + 1 = Len(w) /\ (IF 1 <= Len(w) THEN Len(w) ELSE 0) = Len(w)
        /\ \A k \in 1 .. Len(w) : 1 + k - 1 = k
    BY <1>1
  <2> QED
    BY <1>1, <1>3, <2>1, SubSeqProperties
<1>5. a = w
  <2> HIDE DEF a
  <2> QED
    BY <1>3, <1>4, SeqEqual
<1> QED
  BY <1>1, <1>2, <1>5

\* A word is two cells.
LEMMA WordIsSeq ==
  ASSUME NEW w \in Word
  PROVE  w \in Seq(Cell) /\ Len(w) = 2 /\ w = <<w[1], w[2]>>
         /\ w[1] \in Cell /\ w[2] \in Cell
<1>1. PICK a \in Cell, b \in Cell : w = <<a, b>>
  BY DEF Word
<1>2. w[1] = a /\ w[2] = b /\ w \in Seq(Cell) /\ Len(w) = 2
  BY <1>1
<1> QED
  BY <1>1, <1>2

\* A stack with a word on top.
LEMMA WordOnTop ==
  ASSUME NEW w \in Word, NEW s \in Seq(Cell)
  PROVE  /\ w \o s \in Seq(Cell) /\ Len(w \o s) = Len(s) + 2 /\ Len(s) \in Nat
         /\ SubSeq(w \o s, 1, 2) = w /\ (w \o s)[1] = w[1]
         /\ SubSeq(w \o s, 3, Len(w \o s)) = s
         /\ \A i \in Nat, j \in Nat : i >= 3 /\ j <= Len(s) + 2 =>
              SubSeq(w \o s, i, j) = SubSeq(s, i - 2, j - 2)
<1> w \in Seq(Cell)
  BY WordIsSeq
<1>1. Len(w) = 2 /\ Len(s) \in Nat
  BY WordIsSeq, LenProperties
<1>2. /\ w \o s \in Seq(Cell) /\ Len(w \o s) = 2 + Len(s)
      /\ SubSeq(w \o s, 1, 2) = w /\ SubSeq(w \o s, 3, Len(w \o s)) = s
  <2>1. /\ w \o s \in Seq(Cell) /\ Len(w \o s) = Len(w) + Len(s)
        /\ SubSeq(w \o s, 1, Len(w)) = w
        /\ SubSeq(w \o s, Len(w) + 1, Len(w \o s)) = s
    BY CutTop
  <2> QED
    BY <1>1, <2>1
<1>3. (w \o s)[1] = w[1]
  <2>1. \A i \in 1 .. Len(w) + Len(s) :
          (w \o s)[i] = IF i <= Len(w) THEN w[i] ELSE s[i - Len(w)]
    BY <1>1, ConcatProperties
  <2> QED
    BY <1>1, <2>1
<1>4. ASSUME NEW i \in Nat, NEW j \in Nat, i >= 3, j <= Len(s) + 2
      PROVE  SubSeq(w \o s, i, j) = SubSeq(s, i - 2, j - 2)
  <2>1. i > Len(w) /\ j <= Len(w) + Len(s)
    BY <1>1, <1>4
  <2>2. SubSeq(w \o s, i, j) = SubSeq(s, i - Len(w), j - Len(w))
    BY <2>1, CutBehind
  <2> QED
    BY <1>1, <2>2
<1> QED
  BY <1>1, <1>2, <1>3, <1>4

\* Words and cells that the stubs and the program put on the stack.
LEMMA SymbolsAreWords ==
  /\ \A n \in Nat : Num(n) \in Word /\ Esp(n) \in Word
  /\ Sym("error code") \in Word /\ Sym("clobbered") \in Word
  /\ KernelData \in Cell
<1>1. ASSUME NEW s \in Symbols
      PROVE  W(s) \in Word /\ W(s)[1] \in Cell
  <2>1. <<s, "lo">> \in Cell /\ <<s, "hi">> \in Cell
    BY DEF Cell
  <2> QED
    BY <2>1 DEF W, Word
<1> QED
  BY <1>1 DEF Symbols, Num, Esp, Sym, KernelData, Low

LEMMA ProgramIsWords ==
  /\ \A r \in General : ProgramRegs[r] \in Word
  /\ \A k \in 1 .. 3 : ProgramFrame[k] \in Word
  /\ ProgramStack \in Seq(Cell) /\ Len(ProgramStack) \in Nat
  /\ \A d \in ProgramSegs : d \in Cell /\ SavedDs(d) \in Word
<1>1. Halves \subseteq Cell
  BY DEF Cell
<1>2. \A w \in ProgramWords : w \in Word
  BY <1>1 DEF ProgramWords, Word
<1>3. /\ \A r \in General : ProgramRegs[r] \in Word
      /\ \A k \in 1 .. 3 : ProgramFrame[k] \in Word
  BY <1>2, TrapStubsAssumption
<1>4. ProgramStack \in Seq(Cell) /\ Len(ProgramStack) \in Nat
  BY <1>1, TrapStubsAssumption, SeqMonotonic, LenProperties
<1>5. ASSUME NEW d \in ProgramSegs PROVE d \in Cell /\ SavedDs(d) \in Word
  <2>1. d \in Cell
    BY <1>1, TrapStubsAssumption
  <2>2. ProgramRegs["eax"] \in Word
    BY <1>3 DEF General
  <2>3. ProgramRegs["eax"][2] \in Cell
    BY <2>2, WordIsSeq
  <2> QED
    BY <2>1, <2>3 DEF SavedDs, Word
<1> QED
  BY <1>3, <1>4, <1>5

\* The two kinds of stubs.
LEMMA StubCases ==
  ASSUME NEW e \in Stubs
  PROVE  /\ e[2] \in Nat
         /\ \/ /\ e[1] = "main.core.asm" /\ e[2] \in 0 .. 47
               /\ Program(e) = StubCore(e[2])
            \/ /\ e[1] = "isr.s" /\ e[1] # "main.core.asm" /\ e[2] \in {0, 1, 33}
               /\ Program(e) = IsrMicro(e[2])
<1>1. e \in MicroStubs \/ e \in CoreStubs
  BY TrapStubsAssumption
<1>2. CASE e \in CoreStubs
  <2>1. PICK n \in 0 .. 47 : e = <<"main.core.asm", n>>
    BY <1>2 DEF CoreStubs
  <2>2. e[1] = "main.core.asm" /\ e[2] = n
    BY <2>1
  <2> QED
    BY <2>2 DEF Program
<1>3. CASE e \in MicroStubs
  <2>1. PICK n \in {0, 1, 33} : e = <<"isr.s", n>>
    BY <1>3 DEF MicroStubs
  <2>2. e[1] = "isr.s" /\ e[2] = n
    BY <2>1
  <2> QED
    BY <2>2 DEF Program
<1> QED
  BY <1>1, <1>2, <1>3

\* An interrupt enters with FALSE, and only vector 21 is entered with TRUE.
LEMMA EntersBy ==
  ASSUME NEW e \in Stubs, Interrupt(e) \/ IntInstruction(e)
  PROVE  \E int \in BOOLEAN :
           Enter(e, int) /\ (int => e[1] = "main.core.asm" /\ e[2] = 21)
<1>1. CASE Interrupt(e)
  BY <1>1 DEF Interrupt
<1>2. CASE IntInstruction(e)
  <2>1. e = <<"main.core.asm", 21>> /\ Enter(e, TRUE)
    BY <1>2 DEF IntInstruction, IntCalls
  <2> QED
    BY <2>1
<1> QED
  BY <1>1, <1>2

\* The stacks are stacks of cells.
LEMMA StacksAreCells ==
  /\ Below \in Seq(Cell)
  /\ \A k \in 1 .. 3 : ProgramFrame[k] \in Word
  /\ ProgramFrame[3] \o ProgramStack \in Seq(Cell)
  /\ ProgramFrame[2] \o (ProgramFrame[3] \o ProgramStack) \in Seq(Cell)
  /\ \A n \in Nat : Err(n) \in Word /\ Err(n) \o Below \in Seq(Cell)
  /\ Rest \in Seq(Cell)
  /\ \A v \in Nat, f \in BOOLEAN : Numbered(v, f) \in Seq(Cell)
<1>1. \A k \in 1 .. 3 : ProgramFrame[k] \in Word
  BY ProgramIsWords
<1>2. ProgramFrame[3] \o ProgramStack \in Seq(Cell)
  BY <1>1, ProgramIsWords, WordOnTop
<1>3. ProgramFrame[2] \o (ProgramFrame[3] \o ProgramStack) \in Seq(Cell)
  BY <1>1, <1>2, WordOnTop
<1>4. Below \in Seq(Cell)
  BY <1>1, <1>3, WordOnTop DEF Below
<1>5. ASSUME NEW n \in Nat PROVE Err(n) \in Word /\ Err(n) \o Below \in Seq(Cell)
  <2>1. Err(n) \in Word
    BY SymbolsAreWords DEF Err
  <2> QED
    BY <1>4, <2>1, WordOnTop
<1>6. ASSUME NEW v \in Nat, NEW f \in BOOLEAN
      PROVE  Numbered(v, f) \in Seq(Cell)
  <2>1. Num(v) \in Word /\ Err(v) \o Below \in Seq(Cell)
    BY <1>5, SymbolsAreWords
  <2>2. Num(v) \o (Err(v) \o Below) \in Seq(Cell)
        /\ Num(v) \o Below \in Seq(Cell)
    BY <1>4, <2>1, WordOnTop
  <2> QED
    BY <2>2 DEF Numbered
<1> QED
  BY <1>1, <1>2, <1>3, <1>4, <1>5, <1>6 DEF Rest

\* pusha pushes in this order, and popa finds each register in its place.
LEMMA PushaPlaces ==
  /\ PushaOrder[1] = "eax" /\ PushaOrder[2] = "ecx" /\ PushaOrder[3] = "edx"
  /\ PushaOrder[4] = "ebx" /\ PushaOrder[5] = "esp" /\ PushaOrder[6] = "ebp"
  /\ PushaOrder[7] = "esi" /\ PushaOrder[8] = "edi"
  /\ \A k \in 1 .. 8 : PushaOrder[k] # "esp" => PushaOrder[k] \in General
  /\ \A r \in General : \E k \in 1 .. 8 : PushaOrder[k] = r
  /\ \A j, k \in 1 .. 8 : PushaOrder[j] = PushaOrder[k] => j = k
<1>1. /\ PushaOrder[1] = "eax" /\ PushaOrder[2] = "ecx" /\ PushaOrder[3] = "edx"
      /\ PushaOrder[4] = "ebx" /\ PushaOrder[5] = "esp" /\ PushaOrder[6] = "ebp"
      /\ PushaOrder[7] = "esi" /\ PushaOrder[8] = "edi"
  BY DEF PushaOrder
<1>2. \A k \in 1 .. 8 : k \in {1, 2, 3, 4, 5, 6, 7, 8}
  OBVIOUS
<1>3. \A k \in 1 .. 8 : PushaOrder[k] # "esp" => PushaOrder[k] \in General
  BY <1>1, <1>2 DEF General
<1>4. \A r \in General : \E k \in 1 .. 8 : PushaOrder[k] = r
  BY <1>1 DEF General
<1>5. \A j, k \in 1 .. 8 : PushaOrder[j] = PushaOrder[k] => j = k
  BY <1>1, <1>2
<1> QED
  BY <1>1, <1>3, <1>4, <1>5

\* The stack t is n cells upon the stack s.
Upon(n, s, t) ==
  /\ s \in Seq(Cell) /\ t \in Seq(Cell)
  /\ Len(s) \in Nat /\ Len(t) = Len(s) + n
  /\ \A i, j \in Nat : n < i /\ i <= j /\ j <= Len(t) =>
       SubSeq(t, i, j) = SubSeq(s, i - n, j - n)

LEMMA WordUpon ==
  ASSUME NEW w \in Word, NEW s \in Seq(Cell)
  PROVE  Upon(2, s, w \o s) /\ SubSeq(w \o s, 1, 2) = w
<1>1. \A i, j \in Nat : 2 < i /\ i <= j /\ j <= Len(s) + 2 =>
        SubSeq(w \o s, i, j) = SubSeq(s, i - 2, j - 2)
  BY WordOnTop
<1> QED
  BY <1>1, WordOnTop DEF Upon

LEMMA UponTwice ==
  ASSUME NEW m \in Nat, NEW n \in Nat, NEW s, NEW t, NEW u,
         Upon(m, s, t), Upon(n, t, u)
  PROVE  Upon(m + n, s, u)
<1>1. /\ s \in Seq(Cell) /\ u \in Seq(Cell)
      /\ Len(s) \in Nat /\ Len(t) = Len(s) + m /\ Len(u) = Len(t) + n
  BY DEF Upon
<1>2. ASSUME NEW i \in Nat, NEW j \in Nat, m + n < i, i <= j, j <= Len(u)
      PROVE  SubSeq(u, i, j) = SubSeq(s, i - (m + n), j - (m + n))
  <2>1. PICK a, b : a = i - n /\ b = j - n
    OBVIOUS
  <2>2. n < i /\ a \in Nat /\ b \in Nat /\ m < a /\ a <= b /\ b <= Len(t)
        /\ i - (m + n) = a - m /\ j - (m + n) = b - m
    BY <1>1, <1>2, <2>1
  <2>3. SubSeq(u, i, j) = SubSeq(t, a, b)
    BY <1>2, <2>1, <2>2 DEF Upon
  <2>4. SubSeq(t, a, b) = SubSeq(s, a - m, b - m)
    BY <2>2 DEF Upon
  <2> QED
    BY <2>2, <2>3, <2>4
<1>3. Len(u) = Len(s) + (m + n) /\ Len(t) \in Nat
  BY <1>1
<1> QED
  BY <1>1, <1>2, <1>3 DEF Upon

\* What lies in s lies n cells deeper in t.
LEMMA CellsDeeper ==
  ASSUME NEW n \in Nat, NEW s, NEW t, Upon(n, s, t),
         NEW i \in Nat, NEW j \in Nat, 1 <= i, i <= j, j <= Len(s)
  PROVE  SubSeq(t, n + i, n + j) = SubSeq(s, i, j)
<1>1. PICK a, b : a = n + i /\ b = n + j
  OBVIOUS
<1>2. Len(s) \in Nat /\ Len(t) = Len(s) + n
  BY DEF Upon
<1>3. a \in Nat /\ b \in Nat /\ n < a /\ a <= b /\ b <= Len(t)
      /\ a - n = i /\ b - n = j
  BY <1>1, <1>2
<1>4. SubSeq(t, a, b) = SubSeq(s, a - n, b - n)
  BY <1>3 DEF Upon
<1> QED
  BY <1>1, <1>3, <1>4

\* What lies at the top of s lies n cells deeper in t.
LEMMA CellsBelow ==
  ASSUME NEW n \in Nat, NEW s, NEW t, Upon(n, s, t)
  PROVE  /\ Len(s) >= 2 => SubSeq(t, n + 1, n + 2) = SubSeq(s, 1, 2)
         /\ Len(s) >= 1 => SubSeq(t, n + 1, Len(t)) = s
<1>1. /\ s \in Seq(Cell) /\ Len(s) \in Nat /\ Len(t) = Len(s) + n
      /\ n + 1 \in Nat /\ n + 2 \in Nat
  BY DEF Upon
<1>2. ASSUME Len(s) >= 2 PROVE SubSeq(t, n + 1, n + 2) = SubSeq(s, 1, 2)
  <2>1. SubSeq(t, n + 1, n + 2) = SubSeq(s, (n + 1) - n, (n + 2) - n)
    BY <1>1, <1>2 DEF Upon
  <2> QED
    BY <2>1
<1>3. ASSUME Len(s) >= 1 PROVE SubSeq(t, n + 1, Len(t)) = s
  <2>1. SubSeq(t, n + 1, Len(t)) = SubSeq(s, (n + 1) - n, Len(t) - n)
    BY <1>1, <1>3 DEF Upon
  <2>2. (n + 1) - n = 1 /\ Len(t) - n = Len(s)
    BY <1>1
  <2> QED
    BY <1>1, <2>1, <2>2, SubSeqFull
<1> QED
  BY <1>2, <1>3

\* The words of pusha upon a stack, and the stack below them.
LEMMA PushedLayers ==
  ASSUME NEW s \in Seq(Cell)
  PROVE  /\ Upon(16, s, Pushed(s))
         /\ \A k \in 1 .. 8 : PushaOrder[k] # "esp" =>
              SubSeq(Pushed(s), 17 - 2 * k, 18 - 2 * k) = ProgramRegs[PushaOrder[k]]
<1>1. ProgramRegs["eax"] \in Word /\ ProgramRegs["ecx"] \in Word
      /\ ProgramRegs["edx"] \in Word /\ ProgramRegs["ebx"] \in Word
      /\ ProgramRegs["ebp"] \in Word /\ ProgramRegs["esi"] \in Word
      /\ ProgramRegs["edi"] \in Word
  BY ProgramIsWords DEF General
<1>2. Len(s) \in Nat /\ Esp(Len(s)) \in Word
  BY LenProperties, SymbolsAreWords
<1>3. PICK t1 : t1 = ProgramRegs["eax"] \o s
  OBVIOUS
<1>4. Upon(2, s, t1) /\ SubSeq(t1, 1, 2) = ProgramRegs["eax"]
  <2>1. s \in Seq(Cell)
    BY DEF Upon
  <2> QED
    BY <1>1, <1>2, <1>3, <2>1, WordUpon
<1>5. PICK t2 : t2 = ProgramRegs["ecx"] \o t1
  OBVIOUS
<1>6. Upon(2, t1, t2) /\ SubSeq(t2, 1, 2) = ProgramRegs["ecx"]
  <2>1. t1 \in Seq(Cell)
    BY <1>4 DEF Upon
  <2> QED
    BY <1>1, <1>2, <1>5, <2>1, WordUpon
<1>7. PICK t3 : t3 = ProgramRegs["edx"] \o t2
  OBVIOUS
<1>8. Upon(2, t2, t3) /\ SubSeq(t3, 1, 2) = ProgramRegs["edx"]
  <2>1. t2 \in Seq(Cell)
    BY <1>6 DEF Upon
  <2> QED
    BY <1>1, <1>2, <1>7, <2>1, WordUpon
<1>9. PICK t4 : t4 = ProgramRegs["ebx"] \o t3
  OBVIOUS
<1>10. Upon(2, t3, t4) /\ SubSeq(t4, 1, 2) = ProgramRegs["ebx"]
  <2>1. t3 \in Seq(Cell)
    BY <1>8 DEF Upon
  <2> QED
    BY <1>1, <1>2, <1>9, <2>1, WordUpon
<1>11. PICK t5 : t5 = Esp(Len(s)) \o t4
  OBVIOUS
<1>12. Upon(2, t4, t5) /\ SubSeq(t5, 1, 2) = Esp(Len(s))
  <2>1. t4 \in Seq(Cell)
    BY <1>10 DEF Upon
  <2> QED
    BY <1>1, <1>2, <1>11, <2>1, WordUpon
<1>13. PICK t6 : t6 = ProgramRegs["ebp"] \o t5
  OBVIOUS
<1>14. Upon(2, t5, t6) /\ SubSeq(t6, 1, 2) = ProgramRegs["ebp"]
  <2>1. t5 \in Seq(Cell)
    BY <1>12 DEF Upon
  <2> QED
    BY <1>1, <1>2, <1>13, <2>1, WordUpon
<1>15. PICK t7 : t7 = ProgramRegs["esi"] \o t6
  OBVIOUS
<1>16. Upon(2, t6, t7) /\ SubSeq(t7, 1, 2) = ProgramRegs["esi"]
  <2>1. t6 \in Seq(Cell)
    BY <1>14 DEF Upon
  <2> QED
    BY <1>1, <1>2, <1>15, <2>1, WordUpon
<1>17. PICK t8 : t8 = ProgramRegs["edi"] \o t7
  OBVIOUS
<1>18. Upon(2, t7, t8) /\ SubSeq(t8, 1, 2) = ProgramRegs["edi"]
  <2>1. t7 \in Seq(Cell)
    BY <1>16 DEF Upon
  <2> QED
    BY <1>1, <1>2, <1>17, <2>1, WordUpon
<1>19. Pushed(s) = t8
  BY <1>3, <1>5, <1>7, <1>9, <1>11, <1>13, <1>15, <1>17 DEF Pushed
<1>20. Upon(4, t6, t8)
  <2>1. Upon(2 + 2, t6, t8)
    BY <1>16, <1>18, UponTwice
  <2> QED
    BY <2>1
<1>21. Upon(6, t5, t8)
  <2>1. Upon(2 + 4, t5, t8)
    BY <1>14, <1>20, UponTwice
  <2> QED
    BY <2>1
<1>22. Upon(8, t4, t8)
  <2>1. Upon(2 + 6, t4, t8)
    BY <1>12, <1>21, UponTwice
  <2> QED
    BY <2>1
<1>23. Upon(10, t3, t8)
  <2>1. Upon(2 + 8, t3, t8)
    BY <1>10, <1>22, UponTwice
  <2> QED
    BY <2>1
<1>24. Upon(12, t2, t8)
  <2>1. Upon(2 + 10, t2, t8)
    BY <1>8, <1>23, UponTwice
  <2> QED
    BY <2>1
<1>25. Upon(14, t1, t8)
  <2>1. Upon(2 + 12, t1, t8)
    BY <1>6, <1>24, UponTwice
  <2> QED
    BY <2>1
<1>26. Upon(16, s, t8)
  <2>1. Upon(2 + 14, s, t8)
    BY <1>4, <1>25, UponTwice
  <2> QED
    BY <2>1
<1>27. SubSeq(t8, 15, 16) = ProgramRegs["eax"]
  <2>1. Len(t1) >= 2
    BY <1>4 DEF Upon
  <2>2. SubSeq(t8, 14 + 1, 14 + 2) = SubSeq(t1, 1, 2)
    BY <1>25, <2>1, CellsBelow
  <2> QED
    BY <1>4, <2>2
<1>28. SubSeq(t8, 13, 14) = ProgramRegs["ecx"]
  <2>1. Len(t2) >= 2
    BY <1>6 DEF Upon
  <2>2. SubSeq(t8, 12 + 1, 12 + 2) = SubSeq(t2, 1, 2)
    BY <1>24, <2>1, CellsBelow
  <2> QED
    BY <1>6, <2>2
<1>29. SubSeq(t8, 11, 12) = ProgramRegs["edx"]
  <2>1. Len(t3) >= 2
    BY <1>8 DEF Upon
  <2>2. SubSeq(t8, 10 + 1, 10 + 2) = SubSeq(t3, 1, 2)
    BY <1>23, <2>1, CellsBelow
  <2> QED
    BY <1>8, <2>2
<1>30. SubSeq(t8, 9, 10) = ProgramRegs["ebx"]
  <2>1. Len(t4) >= 2
    BY <1>10 DEF Upon
  <2>2. SubSeq(t8, 8 + 1, 8 + 2) = SubSeq(t4, 1, 2)
    BY <1>22, <2>1, CellsBelow
  <2> QED
    BY <1>10, <2>2
<1>31. SubSeq(t8, 5, 6) = ProgramRegs["ebp"]
  <2>1. Len(t6) >= 2
    BY <1>14 DEF Upon
  <2>2. SubSeq(t8, 4 + 1, 4 + 2) = SubSeq(t6, 1, 2)
    BY <1>20, <2>1, CellsBelow
  <2> QED
    BY <1>14, <2>2
<1>32. SubSeq(t8, 3, 4) = ProgramRegs["esi"]
  <2>1. Len(t7) >= 2
    BY <1>16 DEF Upon
  <2>2. SubSeq(t8, 2 + 1, 2 + 2) = SubSeq(t7, 1, 2)
    BY <1>18, <2>1, CellsBelow
  <2> QED
    BY <1>16, <2>2
<1>33. ASSUME NEW k \in 1 .. 8, PushaOrder[k] # "esp"
      PROVE  SubSeq(t8, 17 - 2 * k, 18 - 2 * k) = ProgramRegs[PushaOrder[k]]
  <2>1. k \in {1, 2, 3, 4, 6, 7, 8}
    BY <1>33, PushaPlaces
  <2>2. CASE k = 1
    BY <2>2, <1>27, PushaPlaces
  <2>3. CASE k = 2
    BY <2>3, <1>28, PushaPlaces
  <2>4. CASE k = 3
    BY <2>4, <1>29, PushaPlaces
  <2>5. CASE k = 4
    BY <2>5, <1>30, PushaPlaces
  <2>6. CASE k = 6
    BY <2>6, <1>31, PushaPlaces
  <2>7. CASE k = 7
    BY <2>7, <1>32, PushaPlaces
  <2>8. CASE k = 8
    BY <2>8, <1>18, PushaPlaces
  <2> QED
    BY <2>1, <2>2, <2>3, <2>4, <2>5, <2>6, <2>7, <2>8
<1> QED
  BY <1>19, <1>26, <1>33

\* The parts of an instruction.
LEMMA InstructionParts ==
  ASSUME NEW q, NEW m, NEW v
  PROVE  (q = I(m) => q.op = m) /\ (q = I1(m, v) => q.op = m /\ q.x = v)
<1>1. I(m).op = m
  BY DEF I
<1>2. I1(m, v).op = m /\ I1(m, v).x = v
  BY DEF I1
<1> QED
  BY <1>1, <1>2

\* The instruction at hand tells the step.
LEMMA OneStep ==
  ASSUME StubNext, ip # 0, NEW op, op = Program(entry)[ip].op
  PROVE  /\ op = "cli" => Cli
         /\ op = "sti" => Sti
         /\ op = "push" => PushNumber
         /\ op = "push eax" => PushEax
         /\ op = "push ax" => PushAx
         /\ op = "pusha" => Pusha
         /\ op = "popa" => Popa
         /\ op = "mov ax, ds" => MovAxDs
         /\ op = "mov ax, 0x10" => MovAx10
         /\ op = "mov eax, esp" => MovEaxEsp
         /\ op \in {"load segments", "load segments from ebx"} => LoadSegments
         /\ op = "call" => CallHandler
         /\ op \in {"pop eax", "pop ebx", "pop ax"} => Pop
         /\ op = "add esp" => AddEsp
         /\ op = "iret" => Iret
<1>1. Cli => op = "cli"
  BY DEF Cli, Step
<1>2. Sti => op = "sti"
  BY DEF Sti, Step
<1>3. PushNumber => op = "push"
  BY DEF PushNumber, Step
<1>4. PushEax => op = "push eax"
  BY DEF PushEax, Step
<1>5. PushAx => op = "push ax"
  BY DEF PushAx, Step
<1>6. Pusha => op = "pusha"
  BY DEF Pusha, Step
<1>7. Popa => op = "popa"
  BY DEF Popa, Step
<1>8. MovAxDs => op = "mov ax, ds"
  BY DEF MovAxDs, Step
<1>9. MovAx10 => op = "mov ax, 0x10"
  BY DEF MovAx10, Step
<1>10. MovEaxEsp => op = "mov eax, esp"
  BY DEF MovEaxEsp, Step
<1>11. LoadSegments => op \in {"load segments", "load segments from ebx"}
  BY DEF LoadSegments, Step
<1>12. CallHandler => op = "call"
  BY DEF CallHandler, Step
<1>13. Pop => op \in {"pop eax", "pop ebx", "pop ax"}
  BY DEF Pop, Step
<1>14. AddEsp => op = "add esp"
  BY DEF AddEsp, Step
<1>15. Iret => op = "iret"
  BY DEF Iret, Step
<1>16. ~ \E e \in Stubs : Interrupt(e) \/ IntInstruction(e)
  BY DEF Interrupt, IntInstruction, Enter
<1> QED
  BY <1>1, <1>2, <1>3, <1>4, <1>5, <1>6, <1>7, <1>8, <1>9, <1>10, <1>11,
     <1>12, <1>13, <1>14, <1>15, <1>16 DEF StubNext

\* The instructions of a stub of main.core.asm, by their place.
CoreInstructions(p, n, L) ==
  /\ L \in {2, 3} /\ (L = 3 <=> n \notin ErrStubs)
  /\ p[1].op = "cli"
  /\ L = 3 => p[2].op = "push" /\ p[2].x = Num(0)
  /\ p[L].op = "push" /\ p[L].x = Num(n)
  /\ p[L + 1].op = "pusha"
  /\ p[L + 2].op = "mov ax, ds"
  /\ p[L + 3].op = "push eax"
  /\ p[L + 4].op = "mov ax, 0x10"
  /\ p[L + 5].op = "load segments"
  /\ p[L + 6].op = "mov eax, esp"
  /\ p[L + 7].op = "push eax"
  /\ p[L + 8].op = "call"
  /\ p[L + 9].op = "pop eax"
  /\ p[L + 10].op = "pop ebx"
  /\ p[L + 11].op = "load segments from ebx"
  /\ p[L + 12].op = "popa"
  /\ p[L + 13].op = "add esp"
  /\ p[L + 14].op = "iret"
  /\ p[L + 13].x = 4

LEMMA CoreCode ==
  ASSUME NEW n \in 0 .. 47
  PROVE  CoreInstructions(StubCore(n), n, Lead(n))
<1>15. PICK p, L : p = StubCore(n) /\ L = Lead(n)
  OBVIOUS
<1> DEFINE lead == IF n \in ErrStubs THEN << I("cli"), I1("push", Num(n)) >>
                   ELSE << I("cli"), I1("push", Num(0)), I1("push", Num(n)) >>
           C == {I("cli"), I1("push", Num(0)), I1("push", Num(n))} \cup
                  {CommonCore[k] : k \in 1 .. 14}
<1>1. L \in {2, 3} /\ (L = 3 <=> n \notin ErrStubs)
  BY <1>15 DEF Lead
<1>2. p = lead \o CommonCore
  <2>1. CASE n \in ErrStubs
    BY <1>15, <2>1 DEF StubCore
  <2>2. CASE n \notin ErrStubs
    BY <1>15, <2>2 DEF StubCore
  <2> QED
    BY <2>1, <2>2
<1>3. Len(CommonCore) = 14 /\ CommonCore \in Seq(C)
  <2>1. Len(CommonCore) = 14
    BY DEF CommonCore
  <2>2. CommonCore = [k \in 1 .. 14 |-> CommonCore[k]]
    BY DEF CommonCore
  <2> QED
    BY <2>1, <2>2
<1>4. lead \in Seq(C) /\ Len(lead) = L
  <2>1. CASE n \in ErrStubs
    BY <1>15, <2>1 DEF Lead
  <2>2. CASE n \notin ErrStubs
    BY <1>15, <2>2 DEF Lead
  <2> QED
    BY <2>1, <2>2
<1>5. /\ \A k \in 1 .. L : p[k] = lead[k]
      /\ \A k \in 1 .. 14 : p[L + k] = CommonCore[k]
  <2> HIDE DEF lead, C
  <2>1. \A k \in 1 .. L + 14 :
          (lead \o CommonCore)[k] = IF k <= L THEN lead[k] ELSE CommonCore[k - L]
    <3>1. \A k \in 1 .. Len(lead) + Len(CommonCore) :
            (lead \o CommonCore)[k] = IF k <= Len(lead) THEN lead[k]
                                      ELSE CommonCore[k - Len(lead)]
      <4>1. lead \in Seq(C) /\ CommonCore \in Seq(C)
        BY <1>3, <1>4
      <4> QED
        BY <4>1, ConcatProperties
    <3> QED
      BY <1>3, <1>4, <3>1
  <2>2. \A k \in 1 .. 14 : L + k \in 1 .. L + 14 /\ ~(L + k <= L) /\ (L + k) - L = k
    BY <1>1
  <2>3. \A k \in 1 .. L : k \in 1 .. L + 14 /\ k <= L
    BY <1>1
  <2> QED
    BY <1>2, <2>1, <2>2, <2>3
<1>6. /\ lead[1].op = "cli" /\ lead[L].op = "push" /\ lead[L].x = Num(n)
      /\ L = 3 => lead[2] = I1("push", Num(0))
  <2>1. CASE n \in ErrStubs
    <3>1. L = 2 /\ lead = << I("cli"), I1("push", Num(n)) >>
      BY <1>15, <2>1 DEF Lead
    <3>2. lead[1] = I("cli") /\ lead[L] = I1("push", Num(n)) /\ L # 3
      BY <3>1
    <3>3. lead[1].op = "cli" /\ lead[L].op = "push" /\ lead[L].x = Num(n)
      BY <3>2, InstructionParts
    <3> QED
      BY <3>2, <3>3
  <2>2. CASE n \notin ErrStubs
    <3>1. L = 3 /\ lead = << I("cli"), I1("push", Num(0)), I1("push", Num(n)) >>
      BY <1>15, <2>2 DEF Lead
    <3>2. lead[1] = I("cli") /\ lead[L] = I1("push", Num(n))
          /\ lead[2] = I1("push", Num(0))
      BY <3>1
    <3>3. lead[1].op = "cli" /\ lead[L].op = "push" /\ lead[L].x = Num(n)
      BY <3>2, InstructionParts
    <3> QED
      BY <3>2, <3>3, Zenon
  <2> QED
    BY <2>1, <2>2
<1>7. /\ CommonCore[1].op = "pusha"
      /\ CommonCore[2].op = "mov ax, ds"
      /\ CommonCore[3].op = "push eax"
      /\ CommonCore[4].op = "mov ax, 0x10"
      /\ CommonCore[5].op = "load segments"
      /\ CommonCore[6].op = "mov eax, esp"
      /\ CommonCore[7].op = "push eax"
      /\ CommonCore[8].op = "call"
      /\ CommonCore[9].op = "pop eax"
      /\ CommonCore[10].op = "pop ebx"
      /\ CommonCore[11].op = "load segments from ebx"
      /\ CommonCore[12].op = "popa"
      /\ CommonCore[13].op = "add esp"
      /\ CommonCore[14].op = "iret"
      /\ CommonCore[13].x = 4
  BY DEF CommonCore, I, I1
<1> HIDE DEF lead, C
<1>8. 1 \in 1 .. L /\ L \in 1 .. L /\ (L = 3 => 2 \in 1 .. L)
  BY <1>1
<1>9. p[1] = lead[1] /\ p[L] = lead[L] /\ (L = 3 => p[2] = lead[2])
  BY <1>5, <1>8
<1>10. 1 \in 1 .. 14 /\ 2 \in 1 .. 14 /\ 3 \in 1 .. 14 /\ 4 \in 1 .. 14
       /\ 5 \in 1 .. 14 /\ 6 \in 1 .. 14 /\ 7 \in 1 .. 14 /\ 8 \in 1 .. 14
       /\ 9 \in 1 .. 14 /\ 10 \in 1 .. 14 /\ 11 \in 1 .. 14 /\ 12 \in 1 .. 14
       /\ 13 \in 1 .. 14 /\ 14 \in 1 .. 14
  OBVIOUS
<1>11. /\ p[L + 1] = CommonCore[1]
       /\ p[L + 2] = CommonCore[2]
       /\ p[L + 3] = CommonCore[3]
       /\ p[L + 4] = CommonCore[4]
       /\ p[L + 5] = CommonCore[5]
       /\ p[L + 6] = CommonCore[6]
       /\ p[L + 7] = CommonCore[7]
       /\ p[L + 8] = CommonCore[8]
       /\ p[L + 9] = CommonCore[9]
       /\ p[L + 10] = CommonCore[10]
       /\ p[L + 11] = CommonCore[11]
       /\ p[L + 12] = CommonCore[12]
       /\ p[L + 13] = CommonCore[13]
       /\ p[L + 14] = CommonCore[14]
  BY <1>5, <1>10, Zenon
<1>12. L = 3 => p[2].op = "push" /\ p[2].x = Num(0)
  <2> SUFFICES ASSUME L = 3 PROVE p[2].op = "push" /\ p[2].x = Num(0)
    OBVIOUS
  <2>1. p[2] = I1("push", Num(0))
    BY <1>6, <1>9
  <2> QED
    BY <2>1, InstructionParts
<1>13. p[1].op = "cli" /\ p[L].op = "push" /\ p[L].x = Num(n)
  BY <1>6, <1>9
<1>14. /\ p[L + 1].op = "pusha"
       /\ p[L + 2].op = "mov ax, ds"
       /\ p[L + 3].op = "push eax"
       /\ p[L + 4].op = "mov ax, 0x10"
       /\ p[L + 5].op = "load segments"
       /\ p[L + 6].op = "mov eax, esp"
       /\ p[L + 7].op = "push eax"
       /\ p[L + 8].op = "call"
       /\ p[L + 9].op = "pop eax"
       /\ p[L + 10].op = "pop ebx"
       /\ p[L + 11].op = "load segments from ebx"
       /\ p[L + 12].op = "popa"
       /\ p[L + 13].op = "add esp"
       /\ p[L + 14].op = "iret"
       /\ p[L + 13].x = 4
  <2>1. /\ p[L + 1].op = "pusha"
        /\ p[L + 2].op = "mov ax, ds"
        /\ p[L + 3].op = "push eax"
        /\ p[L + 4].op = "mov ax, 0x10"
        /\ p[L + 5].op = "load segments"
    BY <1>7, <1>11
  <2>2. /\ p[L + 6].op = "mov eax, esp"
        /\ p[L + 7].op = "push eax"
        /\ p[L + 8].op = "call"
        /\ p[L + 9].op = "pop eax"
        /\ p[L + 10].op = "pop ebx"
    BY <1>7, <1>11
  <2>3. /\ p[L + 11].op = "load segments from ebx"
        /\ p[L + 12].op = "popa"
        /\ p[L + 13].op = "add esp"
        /\ p[L + 14].op = "iret"
        /\ p[L + 13].x = 4
    BY <1>7, <1>11
  <2> QED
    BY <2>1, <2>2, <2>3, Zenon
<1>16. CoreInstructions(p, n, L)
  BY <1>1, <1>12, <1>13, <1>14 DEF CoreInstructions
<1> QED
  BY <1>15, <1>16

\* The instructions of a stub of kernel/isr.s.
MicroInstructions(p, n) ==
  /\ p[1].op = "cli"
  /\ p[2].op = "push"
  /\ p[3].op = "pusha"
  /\ p[4].op = "mov ax, ds"
  /\ p[5].op = "push ax"
  /\ p[6].op = "mov ax, 0x10"
  /\ p[7].op = "load segments"
  /\ p[8].op = "call"
  /\ p[9].op = "pop ax"
  /\ p[10].op = "load segments"
  /\ p[11].op = "popa"
  /\ p[12].op = "add esp"
  /\ p[13].op = "sti"
  /\ p[14].op = "iret"
  /\ p[2].x = Num(n) /\ p[12].x = 4

LEMMA MicroCode == \A n : MicroInstructions(IsrMicro(n), n)
BY DEF MicroInstructions, IsrMicro, I, I1

\* The frame at the top of the stack, above what the program left there.
LEMMA FrameOnTop ==
  /\ SubSeq(Below, 1, 2) = ProgramFrame[1]
  /\ SubSeq(Below, 3, 4) = ProgramFrame[2]
  /\ SubSeq(Below, 5, 6) = ProgramFrame[3]
  /\ SubSeq(Below, 7, Len(Below)) = ProgramStack
  /\ Len(Below) \in Nat /\ Len(Below) >= 8
<1>1. /\ ProgramFrame[1] \in Word /\ ProgramFrame[2] \in Word
      /\ ProgramFrame[3] \in Word
      /\ ProgramStack \in Seq(Cell) /\ Len(ProgramStack) \in Nat
      /\ Len(ProgramStack) >= 2
  BY ProgramIsWords, TrapStubsAssumption
<1>2. PICK u : u = ProgramFrame[3] \o ProgramStack
  OBVIOUS
<1>3. Upon(2, ProgramStack, u) /\ SubSeq(u, 1, 2) = ProgramFrame[3]
  BY <1>1, <1>2, WordUpon
<1>4. PICK t : t = ProgramFrame[2] \o u
  OBVIOUS
<1>5. Upon(2, u, t) /\ SubSeq(t, 1, 2) = ProgramFrame[2]
  <2>1. u \in Seq(Cell)
    BY <1>3 DEF Upon
  <2> QED
    BY <1>1, <1>4, <2>1, WordUpon
<1>6. PICK b : b = ProgramFrame[1] \o t
  OBVIOUS
<1>7. Upon(2, t, b) /\ SubSeq(b, 1, 2) = ProgramFrame[1]
  <2>1. t \in Seq(Cell)
    BY <1>5 DEF Upon
  <2> QED
    BY <1>1, <1>6, <2>1, WordUpon
<1>8. Upon(4, u, b)
  <2>1. Upon(2 + 2, u, b)
    BY <1>5, <1>7, UponTwice
  <2> QED
    BY <2>1
<1>9. Upon(6, ProgramStack, b)
  <2>1. Upon(2 + 4, ProgramStack, b)
    BY <1>3, <1>8, UponTwice
  <2> QED
    BY <2>1
<1>10. Len(u) >= 2 /\ Len(t) >= 2 /\ Len(b) \in Nat /\ Len(b) >= 8
  BY <1>1, <1>3, <1>5, <1>7 DEF Upon
<1>11. SubSeq(b, 3, 4) = ProgramFrame[2]
  <2>1. SubSeq(b, 2 + 1, 2 + 2) = SubSeq(t, 1, 2)
    BY <1>7, <1>10, CellsBelow
  <2> QED
    BY <1>5, <2>1
<1>12. SubSeq(b, 5, 6) = ProgramFrame[3]
  <2>1. SubSeq(b, 4 + 1, 4 + 2) = SubSeq(u, 1, 2)
    BY <1>8, <1>10, CellsBelow
  <2> QED
    BY <1>3, <2>1
<1>13. SubSeq(b, 7, Len(b)) = ProgramStack
  <2>1. Len(ProgramStack) >= 1
    BY <1>1
  <2>2. SubSeq(b, 6 + 1, Len(b)) = ProgramStack
    BY <1>9, <2>1, CellsBelow
  <2> QED
    BY <2>2
<1>14. b = Below
  BY <1>2, <1>4, <1>6 DEF Below
<1> QED
  BY <1>7, <1>10, <1>11, <1>12, <1>13, <1>14

\* The number, and in a stub that fits the error code, lie upon the frame.
LEMMA NumberOnTop ==
  ASSUME NEW v \in Nat, NEW f \in BOOLEAN
  PROVE  /\ SubSeq(Numbered(v, f), 1, 2) = Num(v)
         /\ Len(Numbered(v, f)) \in Nat /\ Len(Numbered(v, f)) >= 10
         /\ f => /\ Upon(4, Below, Numbered(v, f))
                 /\ SubSeq(Numbered(v, f), 3, 4) = Err(v)
         /\ SubSeq(Numbered(v, f), 5, Len(Numbered(v, f))) =
              IF f THEN Below ELSE Rest
<1>1. Num(v) \in Word /\ Err(v) \in Word
  BY SymbolsAreWords, StacksAreCells
<1>2. Below \in Seq(Cell) /\ Len(Below) \in Nat /\ Len(Below) >= 8
  BY StacksAreCells, FrameOnTop
<1>3. PICK u : u = Err(v) \o Below
  OBVIOUS
<1>4. Upon(2, Below, u) /\ SubSeq(u, 1, 2) = Err(v)
  BY <1>1, <1>2, <1>3, WordUpon
<1>5. PICK n : n = Numbered(v, f)
  OBVIOUS
<1>6. CASE f
  <2>1. n = Num(v) \o u
    BY <1>3, <1>5, <1>6 DEF Numbered
  <2>2. u \in Seq(Cell) /\ Len(u) \in Nat /\ Len(u) >= 8
    BY <1>2, <1>4 DEF Upon
  <2>3. Upon(2, u, n) /\ SubSeq(n, 1, 2) = Num(v)
    BY <1>1, <2>1, <2>2, WordUpon
  <2>4. Upon(4, Below, n)
    <3>1. Upon(2 + 2, Below, n)
      BY <1>4, <2>3, UponTwice
    <3> QED
      BY <3>1
  <2>5. Len(n) \in Nat /\ Len(n) >= 10
    BY <2>2, <2>3 DEF Upon
  <2>6. SubSeq(n, 3, 4) = Err(v)
    <3>1. Len(u) >= 2
      BY <2>2
    <3>2. SubSeq(n, 2 + 1, 2 + 2) = SubSeq(u, 1, 2)
      BY <2>3, <3>1, CellsBelow
    <3> QED
      BY <1>4, <3>2
  <2>7. SubSeq(n, 5, Len(n)) = Below
    <3>1. Len(Below) >= 1
      BY <1>2
    <3>2. SubSeq(n, 4 + 1, Len(n)) = Below
      BY <2>4, <3>1, CellsBelow
    <3> QED
      BY <3>2
  <2> QED
    BY <1>5, <1>6, <2>3, <2>4, <2>5, <2>6, <2>7
<1>7. CASE ~f
  <2>1. n = Num(v) \o Below
    BY <1>5, <1>7 DEF Numbered
  <2>2. Upon(2, Below, n) /\ SubSeq(n, 1, 2) = Num(v)
    BY <1>1, <1>2, <2>1, WordUpon
  <2>3. PICK r : r = Rest
    OBVIOUS
  <2>4. r \in Seq(Cell) /\ ProgramFrame[1] \in Word
    BY <2>3, StacksAreCells
  <2>5. Below = ProgramFrame[1] \o r
    BY <2>3 DEF Below, Rest
  <2>6. Upon(2, r, Below)
    BY <2>4, <2>5, WordUpon
  <2>7. Upon(4, r, n)
    <3>1. Upon(2 + 2, r, n)
      BY <2>2, <2>6, UponTwice
    <3> QED
      BY <3>1
  <2>8. Len(n) \in Nat /\ Len(n) >= 10 /\ Len(r) >= 1
    BY <1>2, <2>2, <2>6 DEF Upon
  <2>9. SubSeq(n, 5, Len(n)) = r
    <3>1. SubSeq(n, 4 + 1, Len(n)) = r
      BY <2>7, <2>8, CellsBelow
    <3> QED
      BY <3>1
  <2> QED
    BY <1>5, <1>7, <2>2, <2>3, <2>8, <2>9
<1> QED
  BY <1>6, <1>7

\* The words that the stubs push upon the registers of pusha.
LEMMA RegistersOnTop ==
  ASSUME NEW v \in Nat, NEW f \in BOOLEAN, NEW d \in ProgramSegs
  PROVE  /\ Upon(16, Numbered(v, f), Pushed(Numbered(v, f)))
         /\ Upon(2, Pushed(Numbered(v, f)), Segmented(v, f, d))
         /\ SubSeq(Segmented(v, f, d), 1, 2) = SavedDs(d)
         /\ Upon(2, Segmented(v, f, d), WithArgument(v, f, d))
         /\ SubSeq(WithArgument(v, f, d), 1, 2) = Esp(Len(Segmented(v, f, d)))
         /\ Pushed(Numbered(v, f)) \in Seq(Cell)
         /\ Segmented(v, f, d) \in Seq(Cell) /\ Len(Segmented(v, f, d)) \in Nat
         /\ SubSeq(Segmented(v, f, d), 3, Len(Segmented(v, f, d))) =
              Pushed(Numbered(v, f))
         /\ SubSeq(WithArgument(v, f, d), 3, Len(WithArgument(v, f, d))) =
              Segmented(v, f, d)
<1>1. PICK n : n = Numbered(v, f)
  OBVIOUS
<1>2. n \in Seq(Cell) /\ Len(n) \in Nat /\ Len(n) >= 10
  BY <1>1, StacksAreCells, NumberOnTop
<1>3. PICK p : p = Pushed(n)
  OBVIOUS
<1>4. Upon(16, n, p)
  BY <1>2, <1>3, PushedLayers
<1>5. p \in Seq(Cell) /\ Len(p) \in Nat /\ Len(p) >= 26
  BY <1>2, <1>4 DEF Upon
<1>6. PICK s : s = SavedDs(d) \o p
  OBVIOUS
<1>7. Upon(2, p, s) /\ SubSeq(s, 1, 2) = SavedDs(d)
  BY <1>5, <1>6, ProgramIsWords, WordUpon
<1>8. s \in Seq(Cell) /\ Len(s) \in Nat /\ Len(s) >= 28
  BY <1>5, <1>7 DEF Upon
<1>9. PICK t : t = Esp(Len(s)) \o s
  OBVIOUS
<1>10. Upon(2, s, t) /\ SubSeq(t, 1, 2) = Esp(Len(s))
  BY <1>8, <1>9, SymbolsAreWords, WordUpon
<1>11. Len(n) >= 1 /\ Len(p) >= 1 /\ Len(s) >= 1
  BY <1>2, <1>5, <1>8
<1>12. SubSeq(s, 3, Len(s)) = p /\ SubSeq(t, 3, Len(t)) = s
  <2>1. SubSeq(s, 2 + 1, Len(s)) = p /\ SubSeq(t, 2 + 1, Len(t)) = s
    BY <1>7, <1>10, <1>11, CellsBelow
  <2> QED
    BY <2>1
<1>13. s = Segmented(v, f, d) /\ t = WithArgument(v, f, d)
  BY <1>1, <1>3, <1>6, <1>9 DEF Segmented, WithArgument
<1> QED
  BY <1>1, <1>3, <1>4, <1>5, <1>7, <1>8, <1>10, <1>12, <1>13

\* Two parts and what is below them.
LEMMA Reassociated ==
  ASSUME NEW v \in Seq(Cell), NEW w \in Seq(Cell)
  PROVE  /\ v \o w \in Seq(Cell)
         /\ \A r \in Seq(Cell) : (v \o w) \o r = v \o (w \o r)
BY ConcatProperties, ConcatAssociative

\* Parts that are put in a row, and the same put one upon the other.
Row4(a, b, c, d, s) == a \o b \o c \o d \o s

Pile4(a, b, c, d, s) == a \o (b \o (c \o (d \o s)))

\* Four parts and what is below them.
LEMMA FourParts ==
  ASSUME NEW w1 \in Seq(Cell), NEW w2 \in Seq(Cell), NEW w3 \in Seq(Cell),
         NEW w4 \in Seq(Cell), NEW s \in Seq(Cell)
  PROVE  Row4(w1, w2, w3, w4, s) = Pile4(w1, w2, w3, w4, s)
<1>1. PICK u : u = w1 \o w2
  OBVIOUS
<1>2. u \in Seq(Cell) /\ \A r \in Seq(Cell) : u \o r = w1 \o (w2 \o r)
  <2>1. /\ w1 \o w2 \in Seq(Cell)
        /\ \A r \in Seq(Cell) : (w1 \o w2) \o r = w1 \o (w2 \o r)
    BY Reassociated
  <2> QED
    BY <1>1, <2>1
<1>3. PICK v : v = u \o w3
  OBVIOUS
<1>4. v \in Seq(Cell) /\ \A r \in Seq(Cell) : v \o r = u \o (w3 \o r)
  <2>1. /\ u \o w3 \in Seq(Cell)
        /\ \A r \in Seq(Cell) : (u \o w3) \o r = u \o (w3 \o r)
    BY <1>2, Reassociated
  <2> QED
    BY <1>3, <2>1
<1>5. (v \o w4) \o s = v \o (w4 \o s)
  <2>1. \A r \in Seq(Cell) : (v \o w4) \o r = v \o (w4 \o r)
    BY <1>4, Reassociated
  <2> QED
    BY <2>1
<1>6. PICK a : a = w4 \o s
  OBVIOUS
<1>7. PICK b : b = w3 \o a
  OBVIOUS
<1>8. a \in Seq(Cell) /\ b \in Seq(Cell)
  <2>1. a \in Seq(Cell)
    BY <1>6, Reassociated
  <2> QED
    BY <1>7, <2>1, Reassociated
<1>9. v \o a = u \o b /\ u \o b = w1 \o (w2 \o b)
  BY <1>2, <1>4, <1>7, <1>8
<1> QED
  BY <1>1, <1>3, <1>5, <1>6, <1>7, <1>9 DEF Row4, Pile4

\* pusha puts its words on top of the stack, eax first and edi last.
LEMMA PushaPushes ==
  ASSUME Pusha, stack \in Seq(Cell), regs = ProgramRegs
  PROVE  stack' = Pushed(stack)
<1>1. stack \in Seq(Cell) /\ Len(stack) \in Nat
  BY LenProperties
<1>2. /\ regs["edi"] \in Word /\ regs["esi"] \in Word /\ regs["ebp"] \in Word
      /\ regs["ebx"] \in Word /\ regs["edx"] \in Word /\ regs["ecx"] \in Word
      /\ regs["eax"] \in Word
  BY ProgramIsWords DEF General
<1>3. Esp(Len(stack)) \in Word
  BY <1>1, SymbolsAreWords
<1>4. stack' = regs["edi"] \o regs["esi"] \o regs["ebp"] \o Esp(Len(stack))
                 \o regs["ebx"] \o regs["edx"] \o regs["ecx"]
                 \o regs["eax"] \o stack
  BY DEF Pusha, Saved
<1>5. PICK w1 \in Word, w2 \in Word, w3 \in Word, w4 \in Word, w5 \in Word,
            w6 \in Word, w7 \in Word, w8 \in Word, s \in Seq(Cell) :
        /\ w1 = regs["edi"] /\ w2 = regs["esi"] /\ w3 = regs["ebp"]
        /\ w4 = Esp(Len(stack)) /\ w5 = regs["ebx"] /\ w6 = regs["edx"]
        /\ w7 = regs["ecx"] /\ w8 = regs["eax"] /\ s = stack
  BY <1>1, <1>2, <1>3
<1>6. w1 \o w2 \o w3 \o w4 \o w5 \o w6 \o w7 \o w8 \o s =
        w1 \o (w2 \o (w3 \o (w4 \o (w5 \o (w6 \o (w7 \o (w8 \o s)))))))
  <2>1. /\ w1 \in Seq(Cell) /\ w2 \in Seq(Cell) /\ w3 \in Seq(Cell)
        /\ w4 \in Seq(Cell) /\ w5 \in Seq(Cell) /\ w6 \in Seq(Cell)
        /\ w7 \in Seq(Cell) /\ w8 \in Seq(Cell)
    BY WordIsSeq
  <2>2. PICK u : u = w1 \o w2 \o w3 \o w4
    OBVIOUS
  <2>3. u \in Seq(Cell)
    <3>1. PICK a \in Seq(Cell) : a = w1 \o w2
      BY <2>1, Reassociated
    <3>2. PICK b \in Seq(Cell) : b = a \o w3
      BY <2>1, Reassociated
    <3>3. u = b \o w4
      BY <2>2, <3>1, <3>2
    <3> QED
      BY <2>1, <3>3, Reassociated
  <2>4. PICK v : v = u \o w5
    OBVIOUS
  <2>5. v \in Seq(Cell)
    BY <2>3, <2>1, <2>4, Reassociated
  <2>6. PICK r : r = w5 \o (w6 \o (w7 \o (w8 \o s)))
    OBVIOUS
  <2>7. PICK t : t = w6 \o (w7 \o (w8 \o s))
    OBVIOUS
  <2>8. t \in Seq(Cell) /\ r \in Seq(Cell)
    <3>1. PICK a : a = w8 \o s
      OBVIOUS
    <3>2. a \in Seq(Cell)
      BY <2>1, <3>1, Reassociated
    <3>3. PICK b : b = w7 \o a
      OBVIOUS
    <3>4. b \in Seq(Cell)
      BY <2>1, <3>2, <3>3, Reassociated
    <3>5. t = w6 \o b
      BY <2>7, <3>1, <3>3
    <3>6. t \in Seq(Cell)
      BY <2>1, <3>4, <3>5, Reassociated
    <3>7. r = w5 \o t
      BY <2>6, <2>7
    <3> QED
      BY <2>1, <3>6, <3>7, Reassociated
  <2>9. v \o w6 \o w7 \o w8 \o s = v \o t
    <3>1. Row4(v, w6, w7, w8, s) = Pile4(v, w6, w7, w8, s)
      BY <2>1, <2>5, FourParts, SMTT(30)
    <3> QED
      BY <2>7, <3>1 DEF Row4, Pile4
  <2>10. v \o t = u \o r
    <3>1. u \in Seq(Cell) /\ w5 \in Seq(Cell) /\ t \in Seq(Cell)
      BY <2>1, <2>3, <2>8
    <3>2. (u \o w5) \o t = u \o (w5 \o t)
      <4>1. \A x \in Seq(Cell) : (u \o w5) \o x = u \o (w5 \o x)
        BY <3>1, Reassociated
      <4> QED
        BY <3>1, <4>1
    <3>3. v \o t = (u \o w5) \o t
      BY <2>4, Zenon
    <3>4. r = w5 \o t
      BY <2>6, <2>7, Zenon
    <3>5. u \o r = u \o (w5 \o t)
      BY <3>4, Zenon
    <3> QED
      BY <3>2, <3>3, <3>5, Zenon
  <2>11. u \o r = w1 \o (w2 \o (w3 \o (w4 \o r)))
    <3>1. Row4(w1, w2, w3, w4, r) = Pile4(w1, w2, w3, w4, r)
      BY <2>1, <2>8, FourParts, SMTT(30)
    <3>2. Row4(w1, w2, w3, w4, r) = u \o r
      BY <2>2, Zenon DEF Row4
    <3>3. Pile4(w1, w2, w3, w4, r) = w1 \o (w2 \o (w3 \o (w4 \o r)))
      BY Zenon DEF Pile4
    <3> QED
      BY <3>1, <3>2, <3>3, Zenon
  <2> QED
    BY <2>2, <2>4, <2>6, <2>9, <2>10, <2>11
<1>7. stack' = w1 \o (w2 \o (w3 \o (w4 \o (w5 \o (w6 \o (w7 \o (w8 \o s)))))))
  BY <1>4, <1>5, <1>6
<1> QED
  BY <1>5, <1>7 DEF Pushed

\* popa takes the words of pusha back and finds each register in its place.
LEMMA PopaTakesBack ==
  ASSUME NEW t \in Seq(Cell), Len(t) >= 1, Popa, stack = Pushed(t)
  PROVE  stack' = t /\ regs' = ProgramRegs
<1>1. stack' = t
  <2>1. stack' = SubSeq(stack, 17, Len(stack))
    BY DEF Popa, Drop
  <2>2. Upon(16, t, stack)
    BY PushedLayers
  <2>3. SubSeq(stack, 16 + 1, Len(stack)) = t
    BY <2>2, CellsBelow
  <2> QED
    BY <2>1, <2>3
<1>2. ASSUME NEW r \in General PROVE Popped(r) = ProgramRegs[r]
  <2>1. PICK k \in 1 .. 8 : PushaOrder[k] = r
    BY PushaPlaces
  <2>2. k = CHOOSE j \in 1 .. 8 : PushaOrder[j] = r
    BY <2>1, PushaPlaces
  <2>3. Popped(r) = Cells(1 + 2 * (8 - k), 2)
    BY <2>2 DEF Popped
  <2>4. 1 + 2 * (8 - k) = 17 - 2 * k /\ (17 - 2 * k) + 2 - 1 = 18 - 2 * k
    OBVIOUS
  <2>5. Popped(r) = SubSeq(stack, 17 - 2 * k, 18 - 2 * k)
    BY <2>3, <2>4 DEF Cells
  <2>6. r # "esp"
    BY DEF General
  <2>7. SubSeq(Pushed(t), 17 - 2 * k, 18 - 2 * k) = ProgramRegs[PushaOrder[k]]
    BY <2>1, <2>6, PushedLayers
  <2> QED
    BY <2>1, <2>5, <2>7
<1>3. regs' = [r \in General |-> ProgramRegs[r]]
  BY <1>2 DEF Popa
<1>4. ProgramRegs = [r \in General |-> ProgramRegs[r]]
  BY TrapStubsAssumption
<1> QED
  BY <1>1, <1>3, <1>4

\* The CPU pushes the frame, and for some exceptions an error code on it.
LEMMA CpuPushesFrame ==
  ASSUME NEW e \in Stubs, NEW int \in BOOLEAN, Enter(e, int)
  PROVE  stack' = ErrorCode(e[2], int) \o Below
<1>1. /\ ProgramFrame[1] \in Seq(Cell) /\ ProgramFrame[2] \in Seq(Cell)
      /\ ProgramFrame[3] \in Seq(Cell) /\ ProgramStack \in Seq(Cell)
  BY ProgramIsWords, WordIsSeq
<1>2. ErrorCode(e[2], int) \in Seq(Cell)
  <2>1. Sym("error code") \in Word
    BY SymbolsAreWords
  <2>2. Sym("error code") \in Seq(Cell)
    BY <2>1, WordIsSeq
  <2>3. <<>> \in Seq(Cell)
    OBVIOUS
  <2> QED
    BY <2>2, <2>3 DEF ErrorCode
<1>3. PICK c : c = ErrorCode(e[2], int)
  OBVIOUS
<1>4. stack' = c \o ProgramFrame[1] \o ProgramFrame[2] \o ProgramFrame[3]
                 \o ProgramStack
  BY <1>3 DEF Enter, Resumed
<1>5. PICK f1 \in Seq(Cell), f2 \in Seq(Cell), f3 \in Seq(Cell), s \in Seq(Cell) :
        /\ f1 = ProgramFrame[1] /\ f2 = ProgramFrame[2] /\ f3 = ProgramFrame[3]
        /\ s = ProgramStack
  BY <1>1
<1>6. c \in Seq(Cell)
  BY <1>2, <1>3
<1>7. Row4(c, f1, f2, f3, s) = Pile4(c, f1, f2, f3, s)
  BY <1>6, FourParts
<1>8. stack' = Row4(c, f1, f2, f3, s)
  BY <1>4, <1>5 DEF Row4
<1>9. stack' = c \o (f1 \o (f2 \o (f3 \o s)))
  BY <1>7, <1>8 DEF Pile4
<1> QED
  BY <1>3, <1>5, <1>9 DEF Below

\* What the handler's argument points to has the layout of one frame.
FrameIn(t, v, f, d) ==
  /\ SubSeq(t, 1, 2) = Esp(Len(t) - 2)
  /\ SubSeq(t, 3, 4) = SavedDs(d)
  /\ \A k \in 1 .. 8 : PushaOrder[k] # "esp" =>
       SubSeq(t, 21 - 2 * k, 22 - 2 * k) = ProgramRegs[PushaOrder[k]]
  /\ SubSeq(t, 21, 22) = Num(v)
  /\ f => SubSeq(t, 23, 24) = Err(v)
  /\ f => \A k \in 1 .. 3 : SubSeq(t, 23 + 2 * k, 24 + 2 * k) = ProgramFrame[k]

LEMMA FrameLayout ==
  ASSUME NEW v \in Nat, NEW f \in BOOLEAN, NEW d \in ProgramSegs
  PROVE  FrameIn(WithArgument(v, f, d), v, f, d)
<1>1. PICK s, p, n, t : /\ s = Segmented(v, f, d) /\ p = Pushed(Numbered(v, f))
                        /\ n = Numbered(v, f) /\ t = WithArgument(v, f, d)
  OBVIOUS
<1>2. /\ Upon(2, s, t) /\ SubSeq(t, 1, 2) = Esp(Len(s))
      /\ Upon(2, p, s) /\ SubSeq(s, 1, 2) = SavedDs(d)
      /\ Upon(16, n, p)
  BY <1>1, RegistersOnTop
<1>3. /\ SubSeq(n, 1, 2) = Num(v) /\ Len(n) \in Nat /\ Len(n) >= 10
      /\ f => Upon(4, Below, n) /\ SubSeq(n, 3, 4) = Err(v)
  BY <1>1, NumberOnTop
<1>4. /\ Len(Below) \in Nat /\ Len(Below) >= 8
      /\ Len(p) = Len(n) + 16 /\ Len(s) = Len(p) + 2 /\ Len(t) = Len(s) + 2
  BY <1>2, FrameOnTop DEF Upon
<1>5. Upon(4, p, t) /\ Upon(20, n, t) /\ (f => Upon(24, Below, t))
  <2>1. Upon(2 + 2, p, t)
    BY <1>2, UponTwice
  <2>2. Upon(4, p, t)
    BY <2>1
  <2>3. Upon(16 + 4, n, t)
    BY <1>2, <2>2, UponTwice
  <2>4. Upon(20, n, t)
    BY <2>3
  <2>5. f => Upon(4 + 20, Below, t)
    BY <1>3, <2>4, UponTwice
  <2>6. 4 + 20 = 24
    OBVIOUS
  <2> QED
    BY <2>2, <2>4, <2>5, <2>6
<1>6. SubSeq(t, 1, 2) = Esp(Len(t) - 2)
  <2>1. Len(t) - 2 = Len(s)
    BY <1>4
  <2> QED
    BY <1>2, <2>1
<1>7. SubSeq(t, 3, 4) = SavedDs(d)
  <2>1. Len(s) >= 2
    BY <1>3, <1>4
  <2>2. SubSeq(t, 2 + 1, 2 + 2) = SubSeq(s, 1, 2)
    BY <1>2, <2>1, CellsBelow
  <2> QED
    BY <1>2, <2>2
<1>8. ASSUME NEW k \in 1 .. 8, PushaOrder[k] # "esp"
      PROVE  SubSeq(t, 21 - 2 * k, 22 - 2 * k) = ProgramRegs[PushaOrder[k]]
  <2>1. PICK i, j : i = 21 - 2 * k /\ j = 22 - 2 * k
    OBVIOUS
  <2>2. i \in Nat /\ j \in Nat /\ 4 < i /\ i <= j /\ j <= Len(t)
        /\ i - 4 = 17 - 2 * k /\ j - 4 = 18 - 2 * k
    BY <1>3, <1>4, <2>1
  <2>3. SubSeq(t, i, j) = SubSeq(p, i - 4, j - 4)
    BY <1>5, <2>2 DEF Upon
  <2>4. SubSeq(p, 17 - 2 * k, 18 - 2 * k) = ProgramRegs[PushaOrder[k]]
    <3>1. n \in Seq(Cell) /\ p = Pushed(n)
      BY <1>1, StacksAreCells
    <3> QED
      BY <1>8, <3>1, PushedLayers
  <2> QED
    BY <2>1, <2>2, <2>3, <2>4
<1>9. SubSeq(t, 21, 22) = Num(v)
  <2>1. Len(n) >= 2
    BY <1>3
  <2>2. SubSeq(t, 20 + 1, 20 + 2) = SubSeq(n, 1, 2)
    BY <1>5, <2>1, CellsBelow
  <2> QED
    BY <1>3, <2>2
<1>10. ASSUME f PROVE SubSeq(t, 23, 24) = Err(v)
  <2>1. 4 <= Len(n)
    BY <1>3
  <2>2. SubSeq(t, 20 + 3, 20 + 4) = SubSeq(n, 3, 4)
    BY <1>5, <2>1, CellsDeeper
  <2> QED
    BY <1>3, <1>10, <2>2
<1>11. ASSUME f, NEW k \in 1 .. 3
       PROVE  SubSeq(t, 23 + 2 * k, 24 + 2 * k) = ProgramFrame[k]
  <2>1. 2 <= Len(Below) /\ 4 <= Len(Below) /\ 6 <= Len(Below)
    BY <1>4
  <2>2. SubSeq(t, 24 + 1, 24 + 2) = SubSeq(Below, 1, 2)
    BY <1>5, <1>11, <2>1, CellsDeeper
  <2>3. SubSeq(t, 24 + 3, 24 + 4) = SubSeq(Below, 3, 4)
    BY <1>5, <1>11, <2>1, CellsDeeper
  <2>4. SubSeq(t, 24 + 5, 24 + 6) = SubSeq(Below, 5, 6)
    BY <1>5, <1>11, <2>1, CellsDeeper
  <2>5. CASE k = 1
    <3>1. SubSeq(t, 25, 26) = ProgramFrame[1]
      BY <2>2, FrameOnTop
    <3> QED
      BY <2>5, <3>1
  <2>6. CASE k = 2
    <3>1. SubSeq(t, 27, 28) = ProgramFrame[2]
      BY <2>3, FrameOnTop
    <3> QED
      BY <2>6, <3>1
  <2>7. CASE k = 3
    <3>1. SubSeq(t, 29, 30) = ProgramFrame[3]
      BY <2>4, FrameOnTop
    <3> QED
      BY <2>7, <3>1
  <2> QED
    BY <2>5, <2>6, <2>7
<1> QED
  BY <1>1, <1>6, <1>7, <1>8, <1>9, <1>10, <1>11 DEF FrameIn

\* The program's ds is one of its segments.
LEMMA DsIsSegment == StubTypes => Ds \in ProgramSegs /\ Ds \in Cell
<1> SUFFICES ASSUME StubTypes PROVE Ds \in ProgramSegs /\ Ds \in Cell
  OBVIOUS
<1>1. Ds \in ProgramSegs
  BY DEF StubTypes, Ds, SegRegs
<1> QED
  BY <1>1, ProgramIsWords

\* A handler called on such a stack, with interrupts off and on the kernel's
\* data segment, sees the frame.
LEMMA HandlerCalled ==
  ASSUME StubTypes, Core, CallHandler, ~ifl, segs = AllSegs(KernelData),
         NEW f \in BOOLEAN, f = Fits,
         stack = WithArgument(entry[2], f, Ds)
  PROVE  HandlerSeesFrame'
<1>1. /\ call'.ifl = ifl /\ call'.segs = segs /\ call'.arg = SubSeq(stack, 1, 2)
      /\ call'.at = stack /\ entry' = entry /\ Ds' = Ds /\ Fits' = Fits
  BY DEF CallHandler, Step, Cells, Ds, Fits, Core
<1>2. PICK t, v, d : t = stack /\ v = entry[2] /\ d = Ds
  OBVIOUS
<1>3. v \in Nat /\ d \in ProgramSegs
  BY <1>2, StubCases, DsIsSegment DEF StubTypes
<1>4. FrameIn(t, v, f, d)
  BY <1>2, <1>3, FrameLayout
<1>5. /\ SubSeq(t, 1, 2) = Esp(Len(t) - 2)
      /\ SubSeq(t, 3, 4) = SavedDs(d)
      /\ \A k \in 1 .. 8 : PushaOrder[k] # "esp" =>
           SubSeq(t, 21 - 2 * k, 22 - 2 * k) = ProgramRegs[PushaOrder[k]]
      /\ SubSeq(t, 21, 22) = Num(v)
      /\ f => SubSeq(t, 23, 24) = Err(v)
      /\ f => \A k \in 1 .. 3 : SubSeq(t, 23 + 2 * k, 24 + 2 * k) = ProgramFrame[k]
  BY <1>4 DEF FrameIn
<1>6. \A o : Field(call', o) = SubSeq(t, o \div 2 + 3, o \div 2 + 4)
  BY <1>1, <1>2 DEF Field
<1>7. call'.arg = Esp(Len(call'.at) - 2)
  BY <1>1, <1>2, <1>5
<1>8. Low(Field(call', 0)) = d
  <2>1. Field(call', 0) = SubSeq(t, 0 \div 2 + 3, 0 \div 2 + 4)
    BY <1>6
  <2>2. 0 \div 2 + 3 = 3 /\ 0 \div 2 + 4 = 4
    OBVIOUS
  <2>3. Field(call', 0) = SavedDs(d)
    BY <1>5, <2>1, <2>2
  <2> QED
    BY <2>3 DEF SavedDs, Low
<1>9. ASSUME NEW k \in 1 .. 8, PushaOrder[k] # "esp"
      PROVE  Field(call', 36 - 4 * k) = ProgramRegs[PushaOrder[k]]
  <2>1. (36 - 4 * k) \div 2 + 3 = 21 - 2 * k /\ (36 - 4 * k) \div 2 + 4 = 22 - 2 * k
    OBVIOUS
  <2>2. SubSeq(t, 21 - 2 * k, 22 - 2 * k) = ProgramRegs[PushaOrder[k]]
    BY <1>5, <1>9
  <2>3. Field(call', 36 - 4 * k) =
          SubSeq(t, (36 - 4 * k) \div 2 + 3, (36 - 4 * k) \div 2 + 4)
    BY <1>6
  <2> QED
    BY <2>1, <2>2, <2>3
<1>10. Field(call', 36) = Num(v) /\ (f => Field(call', 40) = Err(v))
  <2>1. /\ 36 \div 2 + 3 = 21 /\ 36 \div 2 + 4 = 22
        /\ 40 \div 2 + 3 = 23 /\ 40 \div 2 + 4 = 24
    OBVIOUS
  <2>2. Field(call', 36) = SubSeq(t, 36 \div 2 + 3, 36 \div 2 + 4)
        /\ Field(call', 40) = SubSeq(t, 40 \div 2 + 3, 40 \div 2 + 4)
    BY <1>6
  <2> QED
    BY <1>5, <2>1, <2>2
<1>11. ASSUME f, NEW k \in 1 .. 3
       PROVE  Field(call', 40 + 4 * k) = ProgramFrame[k]
  <2>1. (40 + 4 * k) \div 2 + 3 = 23 + 2 * k /\ (40 + 4 * k) \div 2 + 4 = 24 + 2 * k
    OBVIOUS
  <2>2. Field(call', 40 + 4 * k) =
          SubSeq(t, (40 + 4 * k) \div 2 + 3, (40 + 4 * k) \div 2 + 4)
    BY <1>6
  <2> QED
    BY <1>5, <1>11, <2>1, <2>2
<1>12. ~ call'.ifl /\ call'.segs = AllSegs(KernelData)
  BY <1>1
<1>13. segs0'["ds"] = d /\ entry'[2] = v /\ (Fits' => f)
  BY <1>1, <1>2 DEF Ds
<1> QED
  BY <1>7, <1>8, <1>9, <1>10, <1>11, <1>12, <1>13 DEF HandlerSeesFrame, Err

\* A step that is no call leaves the last one what it was.
LEMMA HandlerKept ==
  ASSUME HandlerSeesFrame, UNCHANGED <<call, entry, soft, segs0>>
  PROVE  HandlerSeesFrame'
BY DEF HandlerSeesFrame, Called, Core, Fits, Field

LEMMA ArgumentKept ==
  ASSUME GetsDs, UNCHANGED <<call, entry, segs0>>
  PROVE  GetsDs'
BY DEF GetsDs, Called, Core, Ds

\* What a step leaves in a register.
LEMMA RegisterSet ==
  ASSUME regs \in [General -> Word], NEW r \in General, NEW w \in Word,
         regs' = [regs EXCEPT ![r] = w]
  PROVE  regs' \in [General -> Word] /\ regs'[r] = w
OBVIOUS

LEMMA LowSet ==
  ASSUME regs \in [General -> Word], NEW c \in Cell, SetLow(c)
  PROVE  /\ regs' \in [General -> Word] /\ regs'["eax"] = <<c, regs["eax"][2]>>
         /\ Low(regs'["eax"]) = c
<1>1. PICK w : w = regs["eax"]
  OBVIOUS
<1>2. w \in Word
  BY <1>1 DEF General
<1>3. w = <<w[1], w[2]>> /\ w[2] \in Cell
  BY <1>2, WordIsSeq
<1>4. [w EXCEPT ![1] = c] = <<c, w[2]>>
  <2>1. PICK a, b : w = <<a, b>>
    BY <1>3
  <2> QED
    BY <2>1
<1>5. regs' = [regs EXCEPT !["eax"] = <<c, w[2]>>]
  BY <1>1, <1>4 DEF SetLow
<1>6. <<c, w[2]>> \in Word
  BY <1>3 DEF Word
<1>7. regs' \in [General -> Word] /\ regs'["eax"] = <<c, w[2]>>
  BY <1>5, <1>6 DEF General
<1> QED
  BY <1>1, <1>7 DEF Low

\* Which register is popped, and from which the segments are loaded.
LEMMA LoadedFrom ==
  ASSUME LoadSegments, NEW op, op = Program(entry)[ip].op
  PROVE  /\ op = "load segments" => segs' = AllSegs(Low(regs["eax"]))
         /\ op = "load segments from ebx" => segs' = AllSegs(Low(regs["ebx"]))
BY DEF LoadSegments, Step

LEMMA PoppedInto ==
  ASSUME Pop, NEW op, op = Program(entry)[ip].op
  PROVE  /\ op = "pop eax" => PopReg("eax")
         /\ op = "pop ebx" => PopReg("ebx")
         /\ op = "pop ax" => SetLow(stack[1]) /\ stack' = Drop(1)
BY DEF Pop, Step

\* A word that is popped.
LEMMA WordPopped ==
  ASSUME regs \in [General -> Word], NEW r \in General, PopReg(r),
         SubSeq(stack, 1, 2) \in Word
  PROVE  /\ regs' \in [General -> Word] /\ regs'[r] = SubSeq(stack, 1, 2)
         /\ stack' = SubSeq(stack, 3, Len(stack))
<1>1. Cells(1, 2) = SubSeq(stack, 1, 2)
  BY DEF Cells
<1>2. regs' = [regs EXCEPT ![r] = SubSeq(stack, 1, 2)]
  BY <1>1 DEF PopReg
<1>3. stack' = SubSeq(stack, 3, Len(stack))
  BY DEF PopReg, Drop
<1> QED
  BY <1>2, <1>3, RegisterSet

\* A step of a stub of main.core.asm, from what the machine holds at its
\* instruction to what it holds at the next.
LEMMA CoreStep ==
  ASSUME StubTypes, StubNext, Core, ip # 0, CoreProgress, HandlerSeesFrame
  PROVE  /\ StubTypes' /\ UNCHANGED <<entry, soft, segs0>> /\ HandlerSeesFrame'
         /\ ip' # 0 => CoreProgress'
         /\ ip' = 0 => /\ regs' = ProgramRegs /\ segs' = AllSegs(Ds)
                       /\ Fits => Resumed'
<1>0. PICK e, n, L : e = entry /\ n = entry[2] /\ L = Lead(entry[2])
  OBVIOUS
<1>29. PICK f \in BOOLEAN : f = Fits
  BY DEF Fits, Core
<1>30. PICK d : d = Ds
  OBVIOUS
<1>1. /\ e \in Stubs /\ n \in Nat /\ n \in 0 .. 47
      /\ Program(e) = StubCore(n) /\ e[1] = "main.core.asm"
      /\ soft \in BOOLEAN
      /\ f <=> ~soft /\ n \notin {28, 31}
  BY <1>0, <1>29, StubCases DEF Core, Fits, StubTypes
<1>2. /\ ip \in Nat /\ d \in ProgramSegs /\ d \in Cell
      /\ regs \in [General -> Word]
  BY <1>30, DsIsSegment DEF StubTypes
\* What the stub leaves alone keeps what is read of it.
<1>31. ASSUME UNCHANGED <<entry, soft, segs0>>
       PROVE  Fits' = Fits /\ Ds' = Ds
  BY <1>31 DEF Fits, Core, Ds
<1>3. PICK p : p = StubCore(n)
  OBVIOUS
<1>4. CoreInstructions(p, n, L) /\ L \in {2, 3} /\ (L = 3 <=> n \notin ErrStubs)
  <2>1. CoreInstructions(p, n, L)
    BY <1>0, <1>1, <1>3, CoreCode
  <2> QED
    BY <2>1 DEF CoreInstructions
<1>5. PICK i \in Int : i = ip - L
  BY <1>2, <1>4
<1>6. CoreAt(i) /\ ip = L + i
  BY <1>0, <1>2, <1>4, <1>5 DEF CoreProgress
<1>7. i \in -2 .. 14
  <2>1. i <= 14
    BY <1>6 DEF CoreAt
  <2> QED
    BY <1>2, <1>4, <1>5, <2>1
<1>8. PICK q : q = p[ip]
  OBVIOUS
<1>9. Program(entry)[ip] = q
  BY <1>0, <1>1, <1>3, <1>8
\* An instruction that is not the last takes the machine to the next.
<1>10. ASSUME CoreAt(i + 1)', regs' \in [General -> Word], HandlerSeesFrame',
              ip' = ip + 1, UNCHANGED <<entry, soft, segs0>>
       PROVE  /\ StubTypes' /\ UNCHANGED <<entry, soft, segs0>> /\ HandlerSeesFrame'
              /\ ip' # 0 /\ CoreProgress'
  <2>1. ip' # 0 /\ ip' \in Nat /\ ip' - L = i + 1
    BY <1>2, <1>4, <1>5, <1>10
  <2>2. StubTypes'
    BY <1>10, <2>1 DEF StubTypes
  <2>3. CoreProgress'
    <3>1. ip' - Lead(entry'[2]) = i + 1
      BY <1>0, <1>10, <2>1
    <3> QED
      BY <1>10, <3>1 DEF CoreProgress
  <2> QED
    BY <1>10, <2>1, <2>2, <2>3
<1>11. CASE i = -2
  <2>1. L = 3 /\ ip = 1
    BY <1>2, <1>4, <1>6, <1>11
  <2>2. Cli
    <3>1. q.op = "cli"
      BY <1>4, <1>8, <2>1 DEF CoreInstructions
    <3> QED
      BY <1>9, <3>1, OneStep
  <2>3. HandlerSeesFrame'
    BY <2>2, HandlerKept DEF Cli, Step
  <2>4. ip' = ip + 1 /\ UNCHANGED <<entry, soft, segs0, stack, regs, segs>> /\ ~ifl'
    BY <2>2 DEF Cli, Step
  <2>5. CoreAt(-1)'
    BY <1>6, <1>11, <1>31, <2>4 DEF CoreAt, OwnSegments
  <2> QED
    BY <1>2, <1>10, <1>11, <2>3, <2>4, <2>5
<1>12. CASE i = -1
  <2>1. /\ stack = ErrorCode(n, soft) \o Below /\ ~ifl /\ regs = ProgramRegs
        /\ OwnSegments
    BY <1>0, <1>6, <1>12 DEF CoreAt
  <2>2. <<>> \o Below = Below
    BY StacksAreCells, ConcatEmptySeq
  <2>3. CASE L = 2
    <3>1. ip = 1 /\ n \in ErrStubs
      BY <1>4, <1>6, <1>12, <2>3
    <3>2. Cli
      <4>1. q.op = "cli"
        BY <1>4, <1>8, <3>1 DEF CoreInstructions
      <4> QED
        BY <1>9, <4>1, OneStep
    <3>3. HandlerSeesFrame'
      BY <3>2, HandlerKept DEF Cli, Step
    <3>4. stack = IF f THEN Err(n) \o Below ELSE Below
      <4>1. CASE f
        <5>1. n \in PushesErrorCode /\ ~soft
          BY <1>1, <3>1, <4>1 DEF ErrStubs, PushesErrorCode
        <5>2. ErrorCode(n, soft) = Err(n)
          BY <5>1 DEF ErrorCode, Err
        <5> QED
          BY <2>1, <4>1, <5>2
      <4>2. CASE ~f
        <5>1. soft \/ n \in {28, 31}
          BY <1>1, <4>2
        <5>2. soft \/ n \notin PushesErrorCode
          BY <5>1 DEF PushesErrorCode
        <5>3. ErrorCode(n, soft) = <<>>
          BY <5>2 DEF ErrorCode
        <5> QED
          BY <2>1, <2>2, <4>2, <5>3
      <4> QED
        BY <4>1, <4>2
    <3>5. ip' = ip + 1 /\ UNCHANGED <<entry, soft, segs0, stack, regs, segs>> /\ ~ifl'
      BY <3>2 DEF Cli, Step
    <3>6. CoreAt(0)'
      BY <1>0, <1>29, <1>31, <2>1, <3>4, <3>5 DEF CoreAt, OwnSegments
    <3> QED
      BY <1>2, <1>10, <1>12, <3>3, <3>5, <3>6
  <2>4. CASE L = 3
    <3>1. ip = 2 /\ n \notin ErrStubs
      BY <1>4, <1>6, <1>12, <2>4
    <3>2. PushNumber /\ q.x = Num(0)
      <4>1. q.op = "push" /\ q.x = Num(0)
        BY <1>4, <1>8, <2>4, <3>1 DEF CoreInstructions
      <4> QED
        BY <1>9, <4>1, OneStep
    <3>3. HandlerSeesFrame'
      BY <3>2, HandlerKept DEF PushNumber, Step
    <3>4. f /\ stack = Below /\ Err(n) = Num(0)
      <4>1. ~soft
        <5>1. 21 \in ErrStubs
          BY DEF ErrStubs
        <5> QED
          BY <1>0, <1>1, <3>1, <5>1 DEF StubTypes
      <4>2. n \notin PushesErrorCode /\ n \notin {28, 31}
        BY <3>1 DEF ErrStubs, PushesErrorCode
      <4>3. ErrorCode(n, soft) = <<>> /\ Err(n) = Num(0)
        BY <4>2 DEF ErrorCode, Err
      <4> QED
        BY <1>1, <2>1, <2>2, <4>1, <4>2, <4>3
    <3>5. stack' = Err(n) \o Below
      BY <1>9, <3>2, <3>4 DEF PushNumber, Push
    <3>6. ip' = ip + 1 /\ UNCHANGED <<entry, soft, segs0, regs, segs, ifl>>
      BY <3>2 DEF PushNumber, Step
    <3>7. CoreAt(0)'
      BY <1>0, <1>29, <1>31, <2>1, <3>4, <3>5, <3>6 DEF CoreAt, OwnSegments
    <3> QED
      BY <1>2, <1>10, <1>12, <3>3, <3>6, <3>7
  <2> QED
    BY <1>4, <2>3, <2>4
<1>13. CASE i = 0
  <2>1. /\ stack = IF f THEN Err(n) \o Below ELSE Below
        /\ ~ifl /\ regs = ProgramRegs /\ OwnSegments
    BY <1>0, <1>29, <1>6, <1>13 DEF CoreAt
  <2>2. PushNumber /\ q.x = Num(n)
    <3>1. ip = L
      BY <1>2, <1>4, <1>6, <1>13
    <3>2. q.op = "push" /\ q.x = Num(n)
      BY <1>4, <1>8, <3>1 DEF CoreInstructions
    <3> QED
      BY <1>9, <3>2, OneStep
  <2>3. HandlerSeesFrame'
    BY <2>2, HandlerKept DEF PushNumber, Step
  <2>4. stack' = Numbered(n, f)
    BY <1>9, <2>1, <2>2 DEF PushNumber, Push, Numbered
  <2>5. ip' = ip + 1 /\ UNCHANGED <<entry, soft, segs0, regs, segs, ifl>>
    BY <2>2 DEF PushNumber, Step
  <2>6. CoreAt(1)'
    BY <1>0, <1>29, <1>31, <2>1, <2>4, <2>5 DEF CoreAt, OwnSegments
  <2> QED
    BY <1>2, <1>10, <1>13, <2>3, <2>5, <2>6
<1>14. CASE i = 1
  <2>1. stack = Numbered(n, f) /\ ~ifl /\ regs = ProgramRegs /\ OwnSegments
    BY <1>0, <1>29, <1>30, <1>6, <1>14 DEF CoreAt
  <2>2. Pusha /\ q.op = "pusha"
    <3>1. q.op = "pusha"
      BY <1>4, <1>6, <1>8, <1>14 DEF CoreInstructions
    <3> QED
      BY <1>9, <3>1, OneStep
  <2>3. HandlerSeesFrame'
    BY <2>2, HandlerKept DEF Pusha, Step
  <2>4. stack' = Pushed(Numbered(n, f))
    BY <1>1, <2>1, <2>2, StacksAreCells, PushaPushes
  <2>5. ip' = ip + 1 /\ UNCHANGED <<entry, soft, segs0, regs, segs, ifl>>
    BY <2>2 DEF Pusha, Step
  <2>6. CoreAt(2)'
    BY <1>0, <1>29, <1>30, <1>31, <2>1, <2>4, <2>5 DEF CoreAt, OwnSegments
  <2> QED
    BY <1>2, <1>10, <1>14, <2>3, <2>5, <2>6
<1>15. CASE i = 2
  <2>1. stack = Pushed(Numbered(n, f)) /\ ~ifl /\ regs = ProgramRegs /\ OwnSegments
    BY <1>0, <1>29, <1>30, <1>6, <1>15 DEF CoreAt
  <2>2. MovAxDs /\ q.op = "mov ax, ds"
    <3>1. q.op = "mov ax, ds"
      BY <1>4, <1>6, <1>8, <1>15 DEF CoreInstructions
    <3> QED
      BY <1>9, <3>1, OneStep
  <2>3. HandlerSeesFrame'
    BY <2>2, HandlerKept DEF MovAxDs, Step
  <2>4. SetLow(d) /\ regs["eax"] = ProgramRegs["eax"]
    <3>1. segs["ds"] = d
      BY <1>30, <2>1 DEF OwnSegments, Ds, AllSegs, SegRegs
    <3> QED
      BY <2>1, <2>2, <3>1 DEF MovAxDs
  <2>8. regs' \in [General -> Word]
    BY <1>2, <2>4, LowSet
  <2>5. EaxSaved'
    BY <1>2, <1>30, <1>31, <2>2, <2>4, LowSet DEF MovAxDs, EaxSaved, SavedDs, Step
  <2>6. ip' = ip + 1 /\ UNCHANGED <<entry, soft, segs0, stack, segs, ifl>>
    BY <2>2 DEF MovAxDs, Step
  <2>7. CoreAt(3)'
    BY <1>0, <1>29, <1>30, <1>31, <2>1, <2>5, <2>6 DEF CoreAt, OwnSegments
  <2> QED
    BY <1>2, <1>10, <1>15, <2>3, <2>6, <2>7, <2>8
<1>16. CASE i = 3
  <2>1. stack = Pushed(Numbered(n, f)) /\ ~ifl /\ EaxSaved /\ OwnSegments
    BY <1>0, <1>29, <1>30, <1>6, <1>16 DEF CoreAt
  <2>2. PushEax /\ q.op = "push eax"
    <3>1. q.op = "push eax"
      BY <1>4, <1>6, <1>8, <1>16 DEF CoreInstructions
    <3> QED
      BY <1>9, <3>1, OneStep
  <2>3. HandlerSeesFrame'
    BY <2>2, HandlerKept DEF PushEax, Step
  <2>4. stack' = Segmented(n, f, d)
    BY <1>30, <2>1, <2>2 DEF PushEax, Push, EaxSaved, Segmented
  <2>5. ip' = ip + 1 /\ UNCHANGED <<entry, soft, segs0, regs, segs, ifl>>
    BY <2>2 DEF PushEax, Step
  <2>6. CoreAt(4)'
    BY <1>0, <1>29, <1>30, <1>31, <2>1, <2>4, <2>5 DEF CoreAt, OwnSegments
  <2> QED
    BY <1>2, <1>10, <1>16, <2>3, <2>5, <2>6
<1>17. CASE i = 4
  <2>1. stack = Segmented(n, f, d) /\ ~ifl /\ OwnSegments
    BY <1>0, <1>29, <1>30, <1>6, <1>17 DEF CoreAt
  <2>2. MovAx10 /\ q.op = "mov ax, 0x10"
    <3>1. q.op = "mov ax, 0x10"
      BY <1>4, <1>6, <1>8, <1>17 DEF CoreInstructions
    <3> QED
      BY <1>9, <3>1, OneStep
  <2>3. HandlerSeesFrame'
    BY <2>2, HandlerKept DEF MovAx10, Step
  <2>4. regs' \in [General -> Word]
    BY <1>2, <2>2, SymbolsAreWords, LowSet DEF MovAx10
  <2>5. AxKernel'
    BY <1>2, <2>2, SymbolsAreWords, LowSet DEF MovAx10, AxKernel
  <2>6. ip' = ip + 1 /\ UNCHANGED <<entry, soft, segs0, stack, segs, ifl>>
    BY <2>2 DEF MovAx10, Step
  <2>7. CoreAt(5)'
    BY <1>0, <1>29, <1>30, <1>31, <2>1, <2>5, <2>6 DEF CoreAt, OwnSegments
  <2> QED
    BY <1>2, <1>10, <1>17, <2>3, <2>4, <2>6, <2>7
<1>18. CASE i = 5
  <2>1. stack = Segmented(n, f, d) /\ ~ifl /\ AxKernel
    BY <1>0, <1>29, <1>30, <1>6, <1>18 DEF CoreAt
  <2>2. LoadSegments /\ q.op = "load segments"
    <3>1. q.op = "load segments"
      BY <1>4, <1>6, <1>8, <1>18 DEF CoreInstructions
    <3> QED
      BY <1>9, <3>1, OneStep
  <2>3. HandlerSeesFrame'
    BY <2>2, HandlerKept DEF LoadSegments, Step
  <2>4. segs' = AllSegs(KernelData)
    BY <1>9, <2>1, <2>2, LoadedFrom DEF AxKernel
  <2>5. ip' = ip + 1 /\ UNCHANGED <<entry, soft, segs0, stack, regs, ifl>>
    BY <2>2 DEF LoadSegments, Step
  <2>6. CoreAt(6)'
    BY <1>0, <1>29, <1>30, <1>31, <2>1, <2>4, <2>5 DEF CoreAt
  <2> QED
    BY <1>2, <1>10, <1>18, <2>3, <2>5, <2>6
<1>19. CASE i = 6
  <2>1. stack = Segmented(n, f, d) /\ ~ifl /\ segs = AllSegs(KernelData)
    BY <1>0, <1>29, <1>30, <1>6, <1>19 DEF CoreAt
  <2>2. MovEaxEsp /\ q.op = "mov eax, esp"
    <3>1. q.op = "mov eax, esp"
      BY <1>4, <1>6, <1>8, <1>19 DEF CoreInstructions
    <3> QED
      BY <1>9, <3>1, OneStep
  <2>3. HandlerSeesFrame'
    BY <2>2, HandlerKept DEF MovEaxEsp, Step
  <2>4. Esp(Len(stack)) \in Word /\ "eax" \in General
    BY <1>1, <1>2, <2>1, RegistersOnTop, SymbolsAreWords DEF General
  <2>5. regs' \in [General -> Word]
    BY <1>2, <2>2, <2>4, RegisterSet DEF MovEaxEsp
  <2>6. EaxEsp'
    BY <1>2, <2>2, <2>4, RegisterSet DEF MovEaxEsp, EaxEsp
  <2>7. ip' = ip + 1 /\ UNCHANGED <<entry, soft, segs0, stack, segs, ifl>>
    BY <2>2 DEF MovEaxEsp, Step
  <2>8. CoreAt(7)'
    BY <1>0, <1>29, <1>30, <1>31, <2>1, <2>6, <2>7 DEF CoreAt
  <2> QED
    BY <1>2, <1>10, <1>19, <2>3, <2>5, <2>7, <2>8
<1>20. CASE i = 7
  <2>1. stack = Segmented(n, f, d) /\ ~ifl /\ segs = AllSegs(KernelData) /\ EaxEsp
    BY <1>0, <1>29, <1>30, <1>6, <1>20 DEF CoreAt
  <2>2. PushEax /\ q.op = "push eax"
    <3>1. q.op = "push eax"
      BY <1>4, <1>6, <1>8, <1>20 DEF CoreInstructions
    <3> QED
      BY <1>9, <3>1, OneStep
  <2>3. HandlerSeesFrame'
    BY <2>2, HandlerKept DEF PushEax, Step
  <2>4. stack' = WithArgument(n, f, d)
    BY <2>1, <2>2 DEF PushEax, Push, EaxEsp, WithArgument
  <2>5. ip' = ip + 1 /\ UNCHANGED <<entry, soft, segs0, regs, segs, ifl>>
    BY <2>2 DEF PushEax, Step
  <2>6. CoreAt(8)'
    BY <1>0, <1>29, <1>30, <1>31, <2>1, <2>4, <2>5 DEF CoreAt
  <2> QED
    BY <1>2, <1>10, <1>20, <2>3, <2>5, <2>6
<1>21. CASE i = 8
  <2>1. stack = WithArgument(n, f, d) /\ ~ifl /\ segs = AllSegs(KernelData)
    BY <1>0, <1>29, <1>30, <1>6, <1>21 DEF CoreAt
  <2>2. CallHandler /\ q.op = "call"
    <3>1. q.op = "call"
      BY <1>4, <1>6, <1>8, <1>21 DEF CoreInstructions
    <3> QED
      BY <1>9, <3>1, OneStep
  <2>3. HandlerSeesFrame'
    BY <1>0, <1>29, <1>30, <2>1, <2>2, HandlerCalled
  <2>4. regs' \in [General -> Word]
    BY <1>2, <2>2, SymbolsAreWords DEF CallHandler
  <2>5. ip' = ip + 1 /\ UNCHANGED <<entry, soft, segs0, stack, segs, ifl>>
    BY <2>2 DEF CallHandler, Step
  <2>6. CoreAt(9)'
    BY <1>0, <1>29, <1>30, <1>31, <2>1, <2>5 DEF CoreAt
  <2> QED
    BY <1>2, <1>10, <1>21, <2>3, <2>4, <2>5, <2>6
<1>22. CASE i = 9
  <2>1. stack = WithArgument(n, f, d) /\ ~ifl /\ segs = AllSegs(KernelData)
    BY <1>0, <1>29, <1>30, <1>6, <1>22 DEF CoreAt
  <2>2. Pop /\ q.op = "pop eax"
    <3>1. q.op = "pop eax"
      BY <1>4, <1>6, <1>8, <1>22 DEF CoreInstructions
    <3> QED
      BY <1>9, <3>1, OneStep
  <2>3. HandlerSeesFrame'
    BY <2>2, HandlerKept DEF Pop, Step
  <2>4. SubSeq(stack, 1, 2) \in Word
    <3>1. /\ SubSeq(stack, 1, 2) = Esp(Len(Segmented(n, f, d)))
          /\ Len(Segmented(n, f, d)) \in Nat
      BY <1>1, <1>2, <2>1, RegistersOnTop
    <3> QED
      BY <3>1, SymbolsAreWords
  <2>5. PopReg("eax") /\ "eax" \in General
    BY <1>9, <2>2, PoppedInto DEF General
  <2>6. regs' \in [General -> Word] /\ stack' = SubSeq(stack, 3, Len(stack))
    BY <1>2, <2>4, <2>5, WordPopped
  <2>7. stack' = Segmented(n, f, d)
    BY <1>1, <1>2, <2>1, <2>6, RegistersOnTop
  <2>8. ip' = ip + 1 /\ UNCHANGED <<entry, soft, segs0, segs, ifl>>
    BY <2>2 DEF Pop, Step
  <2>9. CoreAt(10)'
    BY <1>0, <1>29, <1>30, <1>31, <2>1, <2>7, <2>8 DEF CoreAt
  <2> QED
    BY <1>2, <1>10, <1>22, <2>3, <2>6, <2>8, <2>9
<1>23. CASE i = 10
  <2>1. stack = Segmented(n, f, d) /\ ~ifl /\ segs = AllSegs(KernelData)
    BY <1>0, <1>29, <1>30, <1>6, <1>23 DEF CoreAt
  <2>2. Pop /\ q.op = "pop ebx"
    <3>1. q.op = "pop ebx"
      BY <1>4, <1>6, <1>8, <1>23 DEF CoreInstructions
    <3> QED
      BY <1>9, <3>1, OneStep
  <2>3. HandlerSeesFrame'
    BY <2>2, HandlerKept DEF Pop, Step
  <2>4. SubSeq(stack, 1, 2) = SavedDs(d) /\ SavedDs(d) \in Word
    BY <1>1, <1>2, <2>1, RegistersOnTop, ProgramIsWords
  <2>5. PopReg("ebx") /\ "ebx" \in General
    BY <1>9, <2>2, PoppedInto DEF General
  <2>6. regs' \in [General -> Word] /\ stack' = SubSeq(stack, 3, Len(stack))
    BY <1>2, <2>4, <2>5, WordPopped
  <2>7. regs'["ebx"] = SavedDs(d)
    BY <1>2, <2>4, <2>5, WordPopped
  <2>8. EbxSaved'
    <3>1. UNCHANGED <<entry, soft, segs0>>
      BY <2>2 DEF Pop, Step
    <3> QED
      BY <1>30, <1>31, <2>7, <3>1 DEF EbxSaved, Low, SavedDs
  <2>9. stack' = Pushed(Numbered(n, f))
    BY <1>1, <1>2, <2>1, <2>6, RegistersOnTop
  <2>10. ip' = ip + 1 /\ UNCHANGED <<entry, soft, segs0, segs, ifl>>
    BY <2>2 DEF Pop, Step
  <2>11. CoreAt(11)'
    BY <1>0, <1>29, <1>30, <1>31, <2>1, <2>8, <2>9, <2>10 DEF CoreAt
  <2> QED
    BY <1>2, <1>10, <1>23, <2>3, <2>6, <2>10, <2>11
<1>24. CASE i = 11
  <2>1. stack = Pushed(Numbered(n, f)) /\ ~ifl /\ EbxSaved
    BY <1>0, <1>29, <1>30, <1>6, <1>24 DEF CoreAt
  <2>2. LoadSegments /\ q.op = "load segments from ebx"
    <3>1. q.op = "load segments from ebx"
      BY <1>4, <1>6, <1>8, <1>24 DEF CoreInstructions
    <3> QED
      BY <1>9, <3>1, OneStep
  <2>3. HandlerSeesFrame'
    BY <2>2, HandlerKept DEF LoadSegments, Step
  <2>4. segs' = AllSegs(d)
    BY <1>9, <1>30, <2>1, <2>2, LoadedFrom DEF EbxSaved
  <2>5. ip' = ip + 1 /\ UNCHANGED <<entry, soft, segs0, stack, regs, ifl>>
    BY <2>2 DEF LoadSegments, Step
  <2>6. CoreAt(12)'
    BY <1>0, <1>29, <1>30, <1>31, <2>1, <2>4, <2>5 DEF CoreAt
  <2> QED
    BY <1>2, <1>10, <1>24, <2>3, <2>5, <2>6
<1>25. CASE i = 12
  <2>1. stack = Pushed(Numbered(n, f)) /\ ~ifl /\ segs = AllSegs(d)
    BY <1>0, <1>29, <1>30, <1>6, <1>25 DEF CoreAt
  <2>2. Popa /\ q.op = "popa"
    <3>1. q.op = "popa"
      BY <1>4, <1>6, <1>8, <1>25 DEF CoreInstructions
    <3> QED
      BY <1>9, <3>1, OneStep
  <2>3. HandlerSeesFrame'
    BY <2>2, HandlerKept DEF Popa, Step
  <2>4. stack' = Numbered(n, f) /\ regs' = ProgramRegs
    <3>1. Numbered(n, f) \in Seq(Cell)
      BY <1>1, StacksAreCells
    <3>2. Len(Numbered(n, f)) \in Nat /\ Len(Numbered(n, f)) >= 10
      BY <1>1, NumberOnTop
    <3>3. Len(Numbered(n, f)) >= 1
      BY <3>2
    <3> QED
      BY <2>1, <2>2, <3>1, <3>3, PopaTakesBack
  <2>5. regs' \in [General -> Word]
    BY <2>4, ProgramIsWords, TrapStubsAssumption
  <2>6. ip' = ip + 1 /\ UNCHANGED <<entry, soft, segs0, segs, ifl>>
    BY <2>2 DEF Popa, Step
  <2>7. CoreAt(13)'
    BY <1>0, <1>29, <1>30, <1>31, <2>1, <2>4, <2>6 DEF CoreAt
  <2> QED
    BY <1>2, <1>10, <1>25, <2>3, <2>5, <2>6, <2>7
<1>26. CASE i = 13
  <2>1. stack = Numbered(n, f) /\ ~ifl /\ regs = ProgramRegs /\ segs = AllSegs(d)
    BY <1>0, <1>29, <1>30, <1>6, <1>26 DEF CoreAt
  <2>2. AddEsp /\ q.op = "add esp"
    <3>1. q.op = "add esp"
      BY <1>4, <1>6, <1>8, <1>26 DEF CoreInstructions
    <3> QED
      BY <1>9, <3>1, OneStep
  <2>3. HandlerSeesFrame'
    BY <2>2, HandlerKept DEF AddEsp, Step
  <2>4. q.x = 4
    BY <1>4, <1>6, <1>8, <1>26 DEF CoreInstructions
  <2>5. stack' = Drop(4)
    BY <1>9, <2>2, <2>4 DEF AddEsp
  <2>6. stack' = SubSeq(stack, 5, Len(stack))
    BY <2>5 DEF Drop
  <2>7. stack' = IF f THEN Below ELSE Rest
    BY <1>1, <2>1, <2>6, NumberOnTop
  <2>8. ip' = ip + 1 /\ UNCHANGED <<entry, soft, segs0, regs, segs, ifl>>
    BY <2>2 DEF AddEsp, Step
  <2>9. CoreAt(14)'
    BY <1>0, <1>29, <1>30, <1>31, <2>1, <2>7, <2>8 DEF CoreAt
  <2> QED
    BY <1>2, <1>10, <1>26, <2>3, <2>8, <2>9
<1>27. CASE i = 14
  <2>1. /\ stack = IF f THEN Below ELSE Rest
        /\ ~ifl /\ regs = ProgramRegs /\ segs = AllSegs(Ds)
    BY <1>6, <1>27, <1>29 DEF CoreAt
  <2>2. Iret
    <3>1. q.op = "iret"
      BY <1>4, <1>6, <1>8, <1>27 DEF CoreInstructions
    <3> QED
      BY <1>9, <3>1, OneStep
  <2>3. HandlerSeesFrame'
    BY <2>2, HandlerKept DEF Iret
  <2>4. /\ frame' = <<SubSeq(stack, 1, 2), SubSeq(stack, 3, 4), SubSeq(stack, 5, 6)>>
        /\ stack' = SubSeq(stack, 7, Len(stack))
    BY <2>2 DEF Iret, Cells, Drop
  <2>5. Fits => Resumed'
    <3> SUFFICES ASSUME Fits PROVE Resumed'
      OBVIOUS
    <3>1. stack = Below
      BY <1>29, <2>1
    <3>2. /\ frame' = <<ProgramFrame[1], ProgramFrame[2], ProgramFrame[3]>>
          /\ stack' = ProgramStack
      BY <2>4, <3>1, FrameOnTop
    <3>3. ProgramFrame = <<ProgramFrame[1], ProgramFrame[2], ProgramFrame[3]>>
      BY TrapStubsAssumption
    <3> QED
      BY <3>2, <3>3 DEF Resumed
  <2>6. /\ ip' = 0 /\ UNCHANGED <<entry, soft, segs0, regs, segs>>
    BY <2>2 DEF Iret
  <2>7. StubTypes'
    BY <2>6 DEF StubTypes
  <2> QED
    BY <2>1, <2>3, <2>5, <2>6, <2>7
<1>28. i \in {-2, -1, 0, 1, 2, 3, 4, 5, 6, 7, 8, 9, 10, 11, 12, 13, 14}
  BY <1>7
<1> QED
  BY <1>28, <1>11, <1>12, <1>13, <1>14, <1>15, <1>16, <1>17, <1>18,
      <1>19, <1>20, <1>21, <1>22, <1>23, <1>24, <1>25, <1>26, <1>27

\* A cell on top of a stack.
LEMMA CellOnTop ==
  ASSUME NEW c \in Cell, NEW s \in Seq(Cell)
  PROVE  /\ (<<c>> \o s)[1] = c
         /\ SubSeq(<<c>> \o s, 2, Len(<<c>> \o s)) = s
<1>1. PICK w : w = <<c>>
  OBVIOUS
<1>2. w \in Seq(Cell)
  BY <1>1
<1>3. SubSeq(w \o s, Len(w) + 1, Len(w \o s)) = s
  BY <1>2, CutTop
<1>5. Len(w) = 1 /\ w[1] = c
  BY <1>1
<1>4. (w \o s)[1] = c
  <2>1. Len(s) \in Nat
    BY LenProperties
  <2>2. \A k \in 1 .. Len(w) + Len(s) :
          (w \o s)[k] = IF k <= Len(w) THEN w[k] ELSE s[k - Len(w)]
    BY <1>2, ConcatProperties
  <2> QED
    BY <1>5, <2>1, <2>2
<1> QED
  BY <1>1, <1>3, <1>4, <1>5

\* The same for a stub of kernel/isr.s.
LEMMA MicroStep ==
  ASSUME StubTypes, StubNext, ~Core, ip # 0, MicroProgress, HandlerSeesFrame
  PROVE  /\ StubTypes' /\ UNCHANGED <<entry, soft, segs0>> /\ HandlerSeesFrame'
         /\ ip' # 0 => MicroProgress'
         /\ ip' = 0 => regs' = ProgramRegs /\ segs' = AllSegs(Ds)
<1>0. PICK e, n : e = entry /\ n = entry[2]
  OBVIOUS
<1>1. /\ e \in Stubs /\ n \in Nat /\ e[1] # "main.core.asm"
      /\ Program(e) = IsrMicro(n)
  BY <1>0, StubCases DEF Core, StubTypes
<1>26. PICK d : d = Ds
  OBVIOUS
<1>28. PICK f \in BOOLEAN : f = Fits
  BY DEF Fits, Core
<1>29. ~f
  BY <1>28 DEF Fits
<1>2. /\ ip \in Nat /\ d \in ProgramSegs /\ d \in Cell
      /\ regs \in [General -> Word]
  BY <1>26, DsIsSegment DEF StubTypes
<1>27. ASSUME UNCHANGED <<entry, soft, segs0>>
       PROVE  Ds' = Ds /\ Fits' = Fits
  BY <1>27 DEF Ds, Fits, Core
<1>3. PICK p : p = IsrMicro(n)
  OBVIOUS
<1>4. MicroInstructions(p, n)
  BY <1>3, MicroCode
<1>5. PICK i \in Int : i = ip
  BY <1>2
<1>6. MicroAt(i)
  BY <1>5 DEF MicroProgress
<1>7. i \in 1 .. 14
  <2>1. i <= 14
    BY <1>6 DEF MicroAt
  <2> QED
    BY <1>2, <1>5, <2>1
<1>8. PICK q : q = p[i]
  OBVIOUS
<1>9. Program(entry)[ip] = q
  BY <1>0, <1>1, <1>3, <1>5, <1>8
\* An instruction that is not the last takes the machine to the next.
<1>10. ASSUME MicroAt(i + 1)', regs' \in [General -> Word], HandlerSeesFrame',
              ip' = ip + 1, UNCHANGED <<entry, soft, segs0>>
       PROVE  /\ StubTypes' /\ UNCHANGED <<entry, soft, segs0>> /\ HandlerSeesFrame'
              /\ ip' # 0 /\ MicroProgress'
  <2>1. ip' # 0 /\ ip' \in Nat /\ ip' = i + 1
    BY <1>2, <1>5, <1>10
  <2>2. StubTypes'
    BY <1>10, <2>1 DEF StubTypes
  <2>3. MicroProgress'
    BY <1>10, <2>1 DEF MicroProgress
  <2> QED
    BY <1>10, <2>1, <2>2, <2>3
<1>11. CASE i = 1
  <2>1. stack = Below /\ regs = ProgramRegs /\ OwnSegments
    BY <1>0, <1>26, <1>28, <1>6, <1>11 DEF MicroAt
  <2>2. Cli /\ q.op = "cli"
    <3>1. q.op = "cli"
      BY <1>4, <1>8, <1>11 DEF MicroInstructions
    <3> QED
      BY <1>9, <3>1, OneStep
  <2>3. HandlerSeesFrame'
    BY <2>2, HandlerKept DEF Cli, Step
  <2>4. ip' = ip + 1 /\ UNCHANGED <<entry, soft, segs0, stack, regs, segs>> /\ ~ifl'
    BY <2>2 DEF Cli, Step
  <2>5. MicroAt(2)'
    BY <1>0, <1>26, <1>27, <1>28, <2>1, <2>4 DEF MicroAt, OwnSegments
  <2> QED
    BY <1>2, <1>10, <1>11, <2>3, <2>4, <2>5
<1>12. CASE i = 2
  <2>1. stack = Below /\ ~ifl /\ regs = ProgramRegs /\ OwnSegments
    BY <1>0, <1>26, <1>28, <1>6, <1>12 DEF MicroAt
  <2>2. PushNumber /\ q.op = "push"
    <3>1. q.op = "push"
      BY <1>4, <1>8, <1>12 DEF MicroInstructions
    <3> QED
      BY <1>9, <3>1, OneStep
  <2>3. HandlerSeesFrame'
    BY <2>2, HandlerKept DEF PushNumber, Step
  <2>4. q.x = Num(n)
    BY <1>4, <1>8, <1>12 DEF MicroInstructions
  <2>5. stack' = Numbered(n, f)
    BY <1>9, <1>29, <2>1, <2>2, <2>4 DEF PushNumber, Push, Numbered
  <2>6. ip' = ip + 1 /\ UNCHANGED <<entry, soft, segs0, regs, segs, ifl>>
    BY <2>2 DEF PushNumber, Step
  <2>7. MicroAt(3)'
    BY <1>0, <1>26, <1>27, <1>28, <2>1, <2>5, <2>6 DEF MicroAt, OwnSegments
  <2> QED
    BY <1>2, <1>10, <1>12, <2>3, <2>6, <2>7
<1>13. CASE i = 3
  <2>1. stack = Numbered(n, f) /\ ~ifl /\ regs = ProgramRegs /\ OwnSegments
    BY <1>0, <1>26, <1>28, <1>6, <1>13 DEF MicroAt
  <2>2. Pusha /\ q.op = "pusha"
    <3>1. q.op = "pusha"
      BY <1>4, <1>8, <1>13 DEF MicroInstructions
    <3> QED
      BY <1>9, <3>1, OneStep
  <2>3. HandlerSeesFrame'
    BY <2>2, HandlerKept DEF Pusha, Step
  <2>4. stack' = Pushed(Numbered(n, f))
    BY <1>1, <2>1, <2>2, StacksAreCells, PushaPushes
  <2>5. ip' = ip + 1 /\ UNCHANGED <<entry, soft, segs0, regs, segs, ifl>>
    BY <2>2 DEF Pusha, Step
  <2>6. MicroAt(4)'
    BY <1>0, <1>26, <1>27, <1>28, <2>1, <2>4, <2>5 DEF MicroAt, OwnSegments
  <2> QED
    BY <1>2, <1>10, <1>13, <2>3, <2>5, <2>6
<1>14. CASE i = 4
  <2>1. stack = Pushed(Numbered(n, f)) /\ ~ifl /\ regs = ProgramRegs /\ OwnSegments
    BY <1>0, <1>26, <1>28, <1>6, <1>14 DEF MicroAt
  <2>2. MovAxDs /\ q.op = "mov ax, ds"
    <3>1. q.op = "mov ax, ds"
      BY <1>4, <1>8, <1>14 DEF MicroInstructions
    <3> QED
      BY <1>9, <3>1, OneStep
  <2>3. HandlerSeesFrame'
    BY <2>2, HandlerKept DEF MovAxDs, Step
  <2>8. SetLow(d)
    <3>1. segs["ds"] = d
      BY <1>26, <2>1 DEF OwnSegments, Ds, AllSegs, SegRegs
    <3> QED
      BY <2>2, <3>1 DEF MovAxDs
  <2>4. regs' \in [General -> Word]
    BY <1>2, <2>8, LowSet
  <2>5. AxSaved'
    BY <1>2, <1>26, <1>27, <2>2, <2>8, LowSet DEF MovAxDs, AxSaved, Step
  <2>6. ip' = ip + 1 /\ UNCHANGED <<entry, soft, segs0, stack, segs, ifl>>
    BY <2>2 DEF MovAxDs, Step
  <2>7. MicroAt(5)'
    BY <1>0, <1>26, <1>27, <1>28, <2>1, <2>5, <2>6 DEF MicroAt, OwnSegments
  <2> QED
    BY <1>2, <1>10, <1>14, <2>3, <2>4, <2>6, <2>7
<1>15. CASE i = 5
  <2>1. stack = Pushed(Numbered(n, f)) /\ ~ifl /\ AxSaved /\ OwnSegments
    BY <1>0, <1>26, <1>28, <1>6, <1>15 DEF MicroAt
  <2>2. PushAx /\ q.op = "push ax"
    <3>1. q.op = "push ax"
      BY <1>4, <1>8, <1>15 DEF MicroInstructions
    <3> QED
      BY <1>9, <3>1, OneStep
  <2>3. HandlerSeesFrame'
    BY <2>2, HandlerKept DEF PushAx, Step
  <2>4. stack' = CellOn(d, Pushed(Numbered(n, f)))
    BY <1>26, <2>1, <2>2 DEF PushAx, Push, AxSaved, CellOn
  <2>5. ip' = ip + 1 /\ UNCHANGED <<entry, soft, segs0, regs, segs, ifl>>
    BY <2>2 DEF PushAx, Step
  <2>6. MicroAt(6)'
    BY <1>0, <1>26, <1>27, <1>28, <2>1, <2>4, <2>5 DEF MicroAt, OwnSegments
  <2> QED
    BY <1>2, <1>10, <1>15, <2>3, <2>5, <2>6
<1>16. CASE i = 6
  <2>1. stack = CellOn(d, Pushed(Numbered(n, f))) /\ ~ifl /\ OwnSegments
    BY <1>0, <1>26, <1>28, <1>6, <1>16 DEF MicroAt
  <2>2. MovAx10 /\ q.op = "mov ax, 0x10"
    <3>1. q.op = "mov ax, 0x10"
      BY <1>4, <1>8, <1>16 DEF MicroInstructions
    <3> QED
      BY <1>9, <3>1, OneStep
  <2>3. HandlerSeesFrame'
    BY <2>2, HandlerKept DEF MovAx10, Step
  <2>4. regs' \in [General -> Word]
    BY <1>2, <2>2, SymbolsAreWords, LowSet DEF MovAx10
  <2>5. AxKernel'
    BY <1>2, <2>2, SymbolsAreWords, LowSet DEF MovAx10, AxKernel
  <2>6. ip' = ip + 1 /\ UNCHANGED <<entry, soft, segs0, stack, segs, ifl>>
    BY <2>2 DEF MovAx10, Step
  <2>7. MicroAt(7)'
    BY <1>0, <1>26, <1>27, <1>28, <2>1, <2>5, <2>6 DEF MicroAt, OwnSegments
  <2> QED
    BY <1>2, <1>10, <1>16, <2>3, <2>4, <2>6, <2>7
<1>17. CASE i = 7
  <2>1. stack = CellOn(d, Pushed(Numbered(n, f))) /\ ~ifl /\ AxKernel
    BY <1>0, <1>26, <1>28, <1>6, <1>17 DEF MicroAt
  <2>2. LoadSegments /\ q.op = "load segments"
    <3>1. q.op = "load segments"
      BY <1>4, <1>8, <1>17 DEF MicroInstructions
    <3> QED
      BY <1>9, <3>1, OneStep
  <2>3. HandlerSeesFrame'
    BY <2>2, HandlerKept DEF LoadSegments, Step
  <2>4. segs' = AllSegs(KernelData)
    BY <1>9, <2>1, <2>2, LoadedFrom DEF AxKernel
  <2>5. ip' = ip + 1 /\ UNCHANGED <<entry, soft, segs0, stack, regs, ifl>>
    BY <2>2 DEF LoadSegments, Step
  <2>6. MicroAt(8)'
    BY <1>0, <1>26, <1>27, <1>28, <2>1, <2>4, <2>5 DEF MicroAt
  <2> QED
    BY <1>2, <1>10, <1>17, <2>3, <2>5, <2>6
<1>18. CASE i = 8
  <2>1. stack = CellOn(d, Pushed(Numbered(n, f))) /\ ~ifl /\ segs = AllSegs(KernelData)
    BY <1>0, <1>26, <1>28, <1>6, <1>18 DEF MicroAt
  <2>2. CallHandler /\ q.op = "call"
    <3>1. q.op = "call"
      BY <1>4, <1>8, <1>18 DEF MicroInstructions
    <3> QED
      BY <1>9, <3>1, OneStep
  <2>3. HandlerSeesFrame'
    BY <2>1, <2>2 DEF CallHandler, Step, HandlerSeesFrame, Core, Fits
  <2>4. regs' \in [General -> Word]
    BY <1>2, <2>2, SymbolsAreWords DEF CallHandler
  <2>5. ip' = ip + 1 /\ UNCHANGED <<entry, soft, segs0, stack, segs, ifl>>
    BY <2>2 DEF CallHandler, Step
  <2>6. MicroAt(9)'
    BY <1>0, <1>26, <1>27, <1>28, <2>1, <2>5 DEF MicroAt
  <2> QED
    BY <1>2, <1>10, <1>18, <2>3, <2>4, <2>5, <2>6
<1>19. CASE i = 9
  <2>1. stack = CellOn(d, Pushed(Numbered(n, f))) /\ ~ifl /\ segs = AllSegs(KernelData)
    BY <1>0, <1>26, <1>28, <1>6, <1>19 DEF MicroAt
  <2>2. Pop /\ q.op = "pop ax"
    <3>1. q.op = "pop ax"
      BY <1>4, <1>8, <1>19 DEF MicroInstructions
    <3> QED
      BY <1>9, <3>1, OneStep
  <2>3. HandlerSeesFrame'
    BY <2>2, HandlerKept DEF Pop, Step
  <2>4. Pushed(Numbered(n, f)) \in Seq(Cell)
    BY <1>1, <1>2, RegistersOnTop
  <2>5. stack[1] = d /\ SubSeq(stack, 2, Len(stack)) = Pushed(Numbered(n, f))
    BY <1>2, <2>1, <2>4, CellOnTop DEF CellOn
  <2>6. SetLow(d) /\ stack' = Drop(1) /\ segs0' = segs0
    BY <1>9, <2>2, <2>5, PoppedInto DEF Pop, Step
  <2>7. regs' \in [General -> Word]
    BY <1>2, <2>6, LowSet
  <2>8. AxSaved'
    <3>1. Ds' = d
      BY <1>26, <2>6 DEF Ds
    <3> QED
      BY <1>2, <2>6, <3>1, LowSet DEF AxSaved
  <2>9. stack' = Pushed(Numbered(n, f))
    BY <2>5, <2>6 DEF Drop
  <2>10. ip' = ip + 1 /\ UNCHANGED <<entry, soft, segs0, segs, ifl>>
    BY <2>2 DEF Pop, Step
  <2>11. MicroAt(10)'
    BY <1>0, <1>26, <1>27, <1>28, <2>1, <2>8, <2>9, <2>10 DEF MicroAt
  <2> QED
    BY <1>2, <1>10, <1>19, <2>3, <2>7, <2>10, <2>11
<1>20. CASE i = 10
  <2>1. stack = Pushed(Numbered(n, f)) /\ ~ifl /\ AxSaved
    BY <1>0, <1>26, <1>28, <1>6, <1>20 DEF MicroAt
  <2>2. LoadSegments /\ q.op = "load segments"
    <3>1. q.op = "load segments"
      BY <1>4, <1>8, <1>20 DEF MicroInstructions
    <3> QED
      BY <1>9, <3>1, OneStep
  <2>3. HandlerSeesFrame'
    BY <2>2, HandlerKept DEF LoadSegments, Step
  <2>4. segs' = AllSegs(d)
    BY <1>9, <1>26, <2>1, <2>2, LoadedFrom DEF AxSaved
  <2>5. ip' = ip + 1 /\ UNCHANGED <<entry, soft, segs0, stack, regs, ifl>>
    BY <2>2 DEF LoadSegments, Step
  <2>6. MicroAt(11)'
    BY <1>0, <1>26, <1>27, <1>28, <2>1, <2>4, <2>5 DEF MicroAt
  <2> QED
    BY <1>2, <1>10, <1>20, <2>3, <2>5, <2>6
<1>21. CASE i = 11
  <2>1. stack = Pushed(Numbered(n, f)) /\ ~ifl /\ segs = AllSegs(d)
    BY <1>0, <1>26, <1>28, <1>6, <1>21 DEF MicroAt
  <2>2. Popa /\ q.op = "popa"
    <3>1. q.op = "popa"
      BY <1>4, <1>8, <1>21 DEF MicroInstructions
    <3> QED
      BY <1>9, <3>1, OneStep
  <2>3. HandlerSeesFrame'
    BY <2>2, HandlerKept DEF Popa, Step
  <2>4. stack' = Numbered(n, f) /\ regs' = ProgramRegs
    <3>1. Numbered(n, f) \in Seq(Cell)
      BY <1>1, StacksAreCells
    <3>2. Len(Numbered(n, f)) \in Nat /\ Len(Numbered(n, f)) >= 10
      BY <1>1, NumberOnTop
    <3>3. Len(Numbered(n, f)) >= 1
      BY <3>2
    <3> QED
      BY <2>1, <2>2, <3>1, <3>3, PopaTakesBack
  <2>5. regs' \in [General -> Word]
    BY <2>4, ProgramIsWords, TrapStubsAssumption
  <2>6. ip' = ip + 1 /\ UNCHANGED <<entry, soft, segs0, segs, ifl>>
    BY <2>2 DEF Popa, Step
  <2>7. MicroAt(12)'
    BY <1>0, <1>26, <1>27, <1>28, <2>1, <2>4, <2>6 DEF MicroAt
  <2> QED
    BY <1>2, <1>10, <1>21, <2>3, <2>5, <2>6, <2>7
<1>22. CASE i = 12
  <2>1. stack = Numbered(n, f) /\ ~ifl /\ regs = ProgramRegs /\ segs = AllSegs(d)
    BY <1>0, <1>26, <1>28, <1>6, <1>22 DEF MicroAt
  <2>2. AddEsp /\ q.op = "add esp"
    <3>1. q.op = "add esp"
      BY <1>4, <1>8, <1>22 DEF MicroInstructions
    <3> QED
      BY <1>9, <3>1, OneStep
  <2>3. HandlerSeesFrame'
    BY <2>2, HandlerKept DEF AddEsp, Step
  <2>4. q.x = 4
    BY <1>4, <1>8, <1>22 DEF MicroInstructions
  <2>5. stack' = Drop(4)
    BY <1>9, <2>2, <2>4 DEF AddEsp
  <2>6. stack' = SubSeq(stack, 5, Len(stack))
    BY <2>5 DEF Drop
  <2>7. stack' = Rest
    BY <1>1, <1>29, <2>1, <2>6, NumberOnTop
  <2>8. ip' = ip + 1 /\ UNCHANGED <<entry, soft, segs0, regs, segs, ifl>>
    BY <2>2 DEF AddEsp, Step
  <2>9. MicroAt(13)'
    BY <1>0, <1>26, <1>27, <1>28, <2>1, <2>7, <2>8 DEF MicroAt
  <2> QED
    BY <1>2, <1>10, <1>22, <2>3, <2>8, <2>9
<1>23. CASE i = 13
  <2>1. stack = Rest /\ regs = ProgramRegs /\ segs = AllSegs(d)
    BY <1>0, <1>26, <1>28, <1>6, <1>23 DEF MicroAt
  <2>2. Sti /\ q.op = "sti"
    <3>1. q.op = "sti"
      BY <1>4, <1>8, <1>23 DEF MicroInstructions
    <3> QED
      BY <1>9, <3>1, OneStep
  <2>3. HandlerSeesFrame'
    BY <2>2, HandlerKept DEF Sti, Step
  <2>4. ip' = ip + 1 /\ UNCHANGED <<entry, soft, segs0, stack, regs, segs>>
    BY <2>2 DEF Sti, Step
  <2>5. MicroAt(14)'
    BY <1>0, <1>26, <1>27, <1>28, <2>1, <2>4 DEF MicroAt
  <2> QED
    BY <1>2, <1>10, <1>23, <2>3, <2>4, <2>5
<1>24. CASE i = 14
  <2>1. regs = ProgramRegs /\ segs = AllSegs(Ds)
    BY <1>6, <1>24 DEF MicroAt
  <2>2. Iret
    <3>1. q.op = "iret"
      BY <1>4, <1>8, <1>24 DEF MicroInstructions
    <3> QED
      BY <1>9, <3>1, OneStep
  <2>3. HandlerSeesFrame'
    BY <2>2, HandlerKept DEF Iret
  <2> QED
    BY <2>1, <2>2, <2>3 DEF Iret, StubTypes
<1>25. i \in {1, 2, 3, 4, 5, 6, 7, 8, 9, 10, 11, 12, 13, 14}
  BY <1>7
<1> QED
  BY <1>11, <1>12, <1>13, <1>14, <1>15, <1>16, <1>17, <1>18, <1>19, <1>20,
     <1>21, <1>22,
     <1>23, <1>24, <1>25

\* The cell that isr.s pushes, and the one of edi's that is next to it.
LEMMA FirstCells ==
  ASSUME NEW v \in Nat, NEW f \in BOOLEAN, NEW d \in Cell, NEW t,
         t = CellOn(d, Pushed(Numbered(v, f)))
  PROVE  SubSeq(t, 1, 2) = <<d, Low(ProgramRegs["edi"])>>
<1>1. PICK u : u = Pushed(Numbered(v, f))
  OBVIOUS
<1>2. /\ u \in Seq(Cell) /\ Len(u) \in Nat /\ Len(u) >= 26
      /\ SubSeq(u, 1, 2) = ProgramRegs["edi"]
  <2>1. PICK n : n = Numbered(v, f)
    OBVIOUS
  <2>2. n \in Seq(Cell) /\ Len(n) \in Nat /\ Len(n) >= 10
    BY <2>1, StacksAreCells, NumberOnTop
  <2>3. u = Pushed(n)
    BY <1>1, <2>1
  <2>4. Upon(16, n, u)
    BY <2>2, <2>3, PushedLayers
  <2>5. SubSeq(u, 1, 2) = ProgramRegs["edi"]
    <3>1. SubSeq(u, 17 - 2 * 8, 18 - 2 * 8) = ProgramRegs[PushaOrder[8]]
      BY <2>2, <2>3, PushedLayers, PushaPlaces
    <3> QED
      BY <3>1, PushaPlaces
  <2> QED
    BY <2>2, <2>4, <2>5 DEF Upon
<1>3. \A k \in 1 .. 2 : u[k] \in Cell
  BY <1>2, ElementOfSeq
<1>4. u[1] = ProgramRegs["edi"][1]
  <2>1. SubSeq(u, 1, 2)[1] = u[1]
    BY <1>2, <1>3, SubSeqProperties
  <2> QED
    BY <1>2, <2>1
<1>5. PICK w : w = <<d>>
  OBVIOUS
<1>6. w \in Seq(Cell) /\ Len(w) = 1 /\ w[1] = d
  BY <1>5
<1>7. t = w \o u
  BY <1>1, <1>5 DEF CellOn
<1>8. /\ w \o u \in Seq(Cell) /\ Len(w \o u) = Len(w) + Len(u)
      /\ \A k \in 1 .. Len(w) + Len(u) :
           (w \o u)[k] = IF k <= Len(w) THEN w[k] ELSE u[k - Len(w)]
  BY <1>2, <1>6, ConcatProperties
<1>9. /\ t \in Seq(Cell) /\ Len(t) \in Nat /\ Len(t) >= 2
      /\ \A k \in 1 .. Len(t) : t[k] = IF k <= 1 THEN d ELSE u[k - 1]
  <2>1. Len(w) + Len(u) = 1 + Len(u)
    BY <1>6
  <2>2. \A k \in 1 .. 1 + Len(u) : k <= 1 => k = 1
    BY <1>2
  <2> QED
    BY <1>2, <1>6, <1>7, <1>8, <2>1, <2>2
<1>10. t[1] = d /\ t[2] = u[1]
  <2>1. 1 \in 1 .. Len(t) /\ 2 \in 1 .. Len(t) /\ ~(2 <= 1) /\ 2 - 1 = 1
    BY <1>9
  <2>2. t[1] = d
    BY <1>9, <2>1
  <2>3. t[2] = u[2 - 1]
    BY <1>9, <2>1
  <2> QED
    BY <2>1, <2>2, <2>3
<1>11. t[1] \in Cell /\ t[2] \in Cell
  BY <1>3, <1>10
<1>12. \A k \in 1 .. 2 : t[k] \in Cell
  BY <1>11
<1>13. PICK a : a = SubSeq(t, 1, 2)
  OBVIOUS
<1>14. /\ a \in Seq(Cell) /\ Len(a) = (IF 1 <= 2 THEN 2 - 1 + 1 ELSE 0)
       /\ \A k \in 1 .. 2 - 1 + 1 : a[k] = t[1 + k - 1]
  BY <1>12, <1>13, SubSeqProperties
<1>15. a \in Seq(Cell) /\ Len(a) = 2 /\ a[1] = t[1] /\ a[2] = t[2]
  <2>1. \A k \in 1 .. 2 : 1 + k - 1 = k
    OBVIOUS
  <2> QED
    BY <1>14, <2>1
<1>16. a = <<a[1], a[2]>>
  BY <1>15
<1> QED
  BY <1>4, <1>10, <1>13, <1>15, <1>16 DEF Low

\* The call of a stub of isr.s finds ds and half of edi for the argument.
LEMMA MicroCall ==
  ASSUME StubTypes, ~Core, ip # 0, MicroProgress, CallHandler
  PROVE  GetsDs'
<1>1. PICK e, n : e = entry /\ n = entry[2]
  OBVIOUS
<1>2. n \in Nat /\ Program(e) = IsrMicro(n)
  BY <1>1, StubCases DEF Core, StubTypes
<1>3. PICK i \in Int : i = ip
  BY DEF StubTypes
<1>4. MicroAt(i)
  BY <1>3 DEF MicroProgress
<1>5. i \in {1, 2, 3, 4, 5, 6, 7, 8, 9, 10, 11, 12, 13, 14}
  <2>1. i <= 14
    BY <1>4 DEF MicroAt
  <2> QED
    BY <1>3, <2>1 DEF StubTypes
<1>6. PICK p, q : p = IsrMicro(n) /\ q = p[i]
  OBVIOUS
<1>7. MicroInstructions(p, n)
  BY <1>6, MicroCode
<1>8. q.op = "call"
  BY <1>1, <1>2, <1>3, <1>6 DEF CallHandler, Step
<1>9. i = 8
  <2>1. i \notin {1, 2, 3, 4, 5, 6, 7}
    BY <1>6, <1>7, <1>8 DEF MicroInstructions
  <2>2. i \notin {9, 10, 11, 12, 13, 14}
    BY <1>6, <1>7, <1>8 DEF MicroInstructions
  <2> QED
    BY <1>5, <2>1, <2>2
<1>13. PICK f \in BOOLEAN : f = Fits
  BY DEF Fits, Core
<1>10. stack = CellOn(Ds, Pushed(Numbered(n, f)))
  BY <1>1, <1>4, <1>9, <1>13 DEF MicroAt
<1>11. SubSeq(stack, 1, 2) = <<Ds, Low(ProgramRegs["edi"])>>
  BY <1>2, <1>10, DsIsSegment, FirstCells
<1>12. call'.arg = SubSeq(stack, 1, 2) /\ Ds' = Ds
  BY DEF CallHandler, Cells, Step, Ds
<1> QED
  BY <1>11, <1>12 DEF GetsDs

\* An interrupt finds the program where it was, and starts a stub.
LEMMA InterruptStep ==
  ASSUME StubInv, NEW e \in Stubs, Interrupt(e) \/ IntInstruction(e)
  PROVE  StubInv'
<1>0. PICK int \in BOOLEAN :
        Enter(e, int) /\ (int => e[1] = "main.core.asm" /\ e[2] = 21)
  BY EntersBy
<1>1. /\ entry' = e /\ soft' = int /\ ip' = 1 /\ ~ifl' /\ call' = NoCall
      /\ regs' = ProgramRegs /\ OwnSegments' /\ segs0' = segs0
      /\ stack' = ErrorCode(e[2], int) \o Below
  <2>1. stack' = ErrorCode(e[2], int) \o Below
    BY <1>0, CpuPushesFrame
  <2>2. regs = ProgramRegs /\ OwnSegments
    BY <1>0 DEF StubInv, SegmentsHeld, Enter
  <2>3. OwnSegments'
    BY <1>0, <2>2 DEF OwnSegments, Ds, Enter
  <2> QED
    BY <1>0, <2>1, <2>2, <2>3 DEF Enter
<1>2. StubTypes'
  BY <1>0, <1>1 DEF StubInv, StubTypes, Enter
<1>3. CoreProgress'
  <2> SUFFICES ASSUME Core' PROVE CoreAt(ip - Lead(entry[2]))'
    BY DEF CoreProgress
  <2>1. PICK i : i = ip' - Lead(entry'[2])
    OBVIOUS
  <2>2. i \in {-1, -2}
    BY <1>1, <2>1 DEF Lead
  <2>3. CoreAt(i)'
    BY <1>1, <2>2 DEF CoreAt
  <2> QED
    BY <2>1, <2>3
<1>4. MicroProgress'
  <2> SUFFICES ASSUME ~Core' PROVE MicroAt(ip)'
    BY DEF MicroProgress
  <2>1. e[2] \in {0, 1, 33}
    BY <1>1, StubCases DEF Core
  <2>2. ErrorCode(e[2], int) = <<>>
    <3>1. e[2] \notin PushesErrorCode
      BY <2>1 DEF PushesErrorCode
    <3> QED
      BY <3>1 DEF ErrorCode
  <2>3. <<>> \o Below = Below
    BY StacksAreCells, ConcatEmptySeq
  <2>4. stack' = Below
    BY <1>1, <2>2, <2>3
  <2>5. MicroAt(1)'
    BY <1>1, <2>4 DEF MicroAt
  <2> QED
    BY <1>1, <2>5
<1>5. /\ (ip = 0 => regs = ProgramRegs)' /\ SegmentsHeld' /\ GetsDs'
      /\ ResumesProgram' /\ HandlerSeesFrame'
  BY <1>1 DEF SegmentsHeld, GetsDs, ResumesProgram, HandlerSeesFrame, Called
<1> QED
  BY <1>2, <1>3, <1>4, <1>5 DEF StubInv

LEMMA StubStep == StubInv /\ [StubNext]_stubVars => StubInv'
<1> SUFFICES ASSUME StubInv, [StubNext]_stubVars PROVE StubInv'
  OBVIOUS
<1>1. CASE UNCHANGED stubVars
  <2>1. UNCHANGED <<entry, soft, ip, stack, regs, segs, segs0, frame, ifl, call>>
    BY <1>1 DEF stubVars
  <2>2. StubTypes'
    BY <2>1 DEF StubInv, StubTypes
  <2>3. /\ EaxSaved' = EaxSaved /\ EaxEsp' = EaxEsp /\ AxKernel' = AxKernel
        /\ AxSaved' = AxSaved /\ EbxSaved' = EbxSaved /\ Ds' = Ds
        /\ OwnSegments' = OwnSegments /\ Fits' = Fits
    BY <2>1 DEF EaxSaved, EaxEsp, AxKernel, AxSaved, EbxSaved, Ds, OwnSegments,
       Fits, Core
  <2>4. CoreProgress'
    BY <2>1, <2>3 DEF StubInv, CoreProgress, CoreAt, Core
  <2>5. MicroProgress'
    BY <2>1, <2>3 DEF StubInv, MicroProgress, MicroAt, Core
  <2>6. (ip = 0 => regs = ProgramRegs)' /\ SegmentsHeld' /\ ResumesProgram'
    BY <2>1, <2>3 DEF StubInv, SegmentsHeld, Called, ResumesProgram, Resumed
  <2>7. HandlerSeesFrame' /\ GetsDs'
    BY <2>1, HandlerKept, ArgumentKept DEF StubInv
  <2> QED
    BY <2>2, <2>4, <2>5, <2>6, <2>7 DEF StubInv
<1>2. CASE \E e \in Stubs : Interrupt(e) \/ IntInstruction(e)
  BY <1>2, InterruptStep
<1>3. CASE StubNext /\ ip # 0 /\ Core
  <2>1. /\ StubTypes' /\ UNCHANGED <<entry, soft, segs0>> /\ HandlerSeesFrame'
        /\ ip' # 0 => CoreProgress'
        /\ ip' = 0 => /\ regs' = ProgramRegs /\ segs' = AllSegs(Ds)
                      /\ Fits => Resumed'
    BY <1>3, CoreStep DEF StubInv
  <2>2. Core' /\ Fits' = Fits /\ Ds' = Ds
    BY <1>3, <2>1 DEF Core, Fits, Ds
  <2>3. CoreProgress' /\ MicroProgress'
    BY <2>1, <2>2 DEF CoreProgress, MicroProgress
  <2>4. SegmentsHeld' /\ ResumesProgram' /\ GetsDs'
    BY <2>1, <2>2 DEF SegmentsHeld, OwnSegments, ResumesProgram, GetsDs
  <2> QED
    BY <2>1, <2>3, <2>4 DEF StubInv
<1>4. CASE StubNext /\ ip # 0 /\ ~Core
  <2>1. /\ StubTypes' /\ UNCHANGED <<entry, soft, segs0>> /\ HandlerSeesFrame'
        /\ ip' # 0 => MicroProgress'
        /\ ip' = 0 => regs' = ProgramRegs /\ segs' = AllSegs(Ds)
    BY <1>4, MicroStep DEF StubInv
  <2>2. ~Core' /\ ~Fits' /\ Ds' = Ds
    BY <1>4, <2>1 DEF Core, Fits, Ds
  <2>3. CoreProgress' /\ MicroProgress'
    BY <2>1, <2>2 DEF CoreProgress, MicroProgress
  <2>4. SegmentsHeld' /\ ResumesProgram'
    BY <2>1, <2>2 DEF SegmentsHeld, OwnSegments, ResumesProgram
  <2>5. GetsDs'
    <3>1. CASE CallHandler
      BY <1>4, <3>1, MicroCall DEF StubInv
    <3>2. CASE ~CallHandler
      <4>1. call' = call
        BY <1>4, <3>2 DEF StubNext, Interrupt, IntInstruction, Enter, Cli, Sti,
           PushNumber, PushEax, PushAx, Pusha, Popa, MovAxDs, MovAx10,
           MovEaxEsp, LoadSegments, Pop, AddEsp, Iret
      <4> QED
        BY <2>1, <4>1, ArgumentKept DEF StubInv
    <3> QED
      BY <3>1, <3>2
  <2> QED
    BY <2>1, <2>3, <2>4, <2>5 DEF StubInv
<1>5. StubNext =>
        (\E e \in Stubs : Interrupt(e) \/ IntInstruction(e)) \/ ip # 0
  BY DEF StubNext, Cli, Sti, PushNumber, PushEax, PushAx, Pusha, Popa, MovAxDs,
     MovAx10, MovEaxEsp, LoadSegments, CallHandler, Pop, AddEsp, Iret, Step
<1> QED
  BY <1>1, <1>2, <1>3, <1>4, <1>5

\* At every instruction of a stub the stack, the registers and the segments are
\* as listed, for all 51 stubs, with the CPU's error code or without the one
\* the stub expects, and whatever the program's registers and four segments
\* held (isr.s, main.core.asm).
THEOREM StubInvariant == StubSpec => []StubInv
<1>1. StubInit => StubInv
  <2> SUFFICES ASSUME StubInit PROVE StubInv
    OBVIOUS
  <2>1. ProgramRegs \in [General -> Word]
    BY ProgramIsWords, TrapStubsAssumption
  <2>2. StubTypes
    BY <2>1 DEF StubInit, StubTypes
  <2> QED
    BY <2>2 DEF StubInit, StubInv, CoreProgress, MicroProgress, SegmentsHeld,
       OwnSegments, GetsDs, ResumesProgram, Resumed, HandlerSeesFrame, Called
<1> QED
  BY <1>1, StubStep, PTL DEF StubSpec

\* Whichever stub ran, the program has its general registers and ds back when
\* the stub is done, and es, fs and gs if they held the same as ds (isr.s:
\* isr_handler_common; main.core.asm: isr_common_stub and irq_common_stub).
THEOREM RegistersComeBack == StubSpec => []RegistersRestored
<1>1. StubInv => RegistersRestored
  <2> SUFFICES ASSUME StubInv, ip = 0 PROVE RegistersRestored
    BY DEF RegistersRestored
  <2>1. regs = ProgramRegs /\ segs \in {segs0, AllSegs(Ds)}
    BY DEF StubInv, SegmentsHeld, OwnSegments
  <2>2. AllSegs(Ds)["ds"] = Ds
    BY DEF AllSegs, SegRegs
  <2> QED
    BY <2>1, <2>2 DEF RegistersRestored, Ds
<1> QED
  BY <1>1, StubInvariant, PTL

\* A stub that has called its handler leaves the program's ds in es, fs and gs
\* too, so that what they held is lost when it was something else (isr.s:36-39,
\* main.core.asm:399-402, 426-429).
THEOREM OnlyDsComesBack ==
  StubSpec => [](ip = 0 /\ Called => segs = AllSegs(segs0["ds"]))
<1>1. StubInv => (ip = 0 /\ Called => segs = AllSegs(segs0["ds"]))
  BY DEF StubInv, SegmentsHeld, Ds
<1> QED
  BY <1>1, StubInvariant, PTL

\* isr_handler's int_num is never the number that the stub of isr.s pushed: it
\* is ds, pushed last in 16 bits, with the low half of edi above it
\* (isr.s:24-33).
THEOREM HandlerGetsDs ==
  StubSpec => [](Called /\ ~Core =>
                   call.arg = <<segs0["ds"], Low(ProgramRegs["edi"])>>)
<1>1. StubInv => (Called /\ ~Core =>
                    call.arg = <<segs0["ds"], Low(ProgramRegs["edi"])>>)
  BY DEF StubInv, GetsDs, Ds
<1> QED
  BY <1>1, StubInvariant, PTL

\* The stubs of main.core.asm resume the program where it was, with its own
\* stack, for the vectors with an error code and for those without; but for
\* vectors 28 and 31, and 21 by an int instruction.
THEOREM ProgramGoesOn == StubSpec => []ResumesProgram
<1>1. StubInv => ResumesProgram
  BY DEF StubInv
<1> QED
  BY <1>1, StubInvariant, PTL

\* Every handler is called with interrupts off on the kernel's data segment,
\* and those of main.core.asm with a pointer to the one layout of the frame,
\* up to the vector for every stub, and beyond it for those that fit.
THEOREM HandlerGetsFrame == StubSpec => []HandlerSeesFrame
<1>1. StubInv => HandlerSeesFrame
  BY DEF StubInv
<1> QED
  BY <1>1, StubInvariant, PTL

ShiftedFrame ==
  <<ProgramFrame[2], ProgramFrame[3], SubSeq(ProgramStack, 1, 2)>>

\* What iret takes from a stack that has lost the first word of the frame.
LEMMA RestIsShifted ==
  ASSUME Iret, stack = Rest
  PROVE  frame' = ShiftedFrame
<1>1. frame' = <<SubSeq(stack, 1, 2), SubSeq(stack, 3, 4), SubSeq(stack, 5, 6)>>
  BY DEF Iret, Cells
<1>2. PICK u, r : u = ProgramFrame[3] \o ProgramStack /\ r = Rest
  OBVIOUS
<1>3. Upon(2, ProgramStack, u) /\ SubSeq(u, 1, 2) = ProgramFrame[3]
  BY <1>2, ProgramIsWords, WordUpon
<1>4. Upon(2, u, r) /\ SubSeq(r, 1, 2) = ProgramFrame[2]
  <2>1. u \in Seq(Cell) /\ r = ProgramFrame[2] \o u
    BY <1>2, <1>3 DEF Upon, Rest
  <2> QED
    BY <2>1, ProgramIsWords, WordUpon
<1>5. Len(ProgramStack) \in Nat /\ Len(ProgramStack) >= 2 /\ Len(u) >= 2
  BY <1>3, ProgramIsWords, TrapStubsAssumption DEF Upon
<1>6. SubSeq(r, 3, 4) = ProgramFrame[3]
  <2>1. SubSeq(r, 2 + 1, 2 + 2) = SubSeq(u, 1, 2)
    BY <1>4, <1>5, CellsBelow
  <2> QED
    BY <1>3, <2>1
<1>7. SubSeq(r, 5, 6) = SubSeq(ProgramStack, 1, 2)
  <2>1. Upon(2 + 2, ProgramStack, r)
    BY <1>3, <1>4, UponTwice
  <2>2. Upon(4, ProgramStack, r)
    BY <2>1
  <2>3. SubSeq(r, 4 + 1, 4 + 2) = SubSeq(ProgramStack, 1, 2)
    BY <1>5, <2>2, CellsBelow
  <2> QED
    BY <2>3
<1> QED
  BY <1>1, <1>2, <1>4, <1>6, <1>7 DEF ShiftedFrame

\* The iret of a stub of isr.s, and of main.core.asm's 28, 31 and, by an int
\* instruction, 21, never takes the program back to where it was: it takes what
\* lies one word above the frame, cs for eip, eflags for cs and a word of the
\* program's own stack for eflags (isr.s:42; main.core.asm:360, 363, 650).
THEOREM FrameIsShifted ==
  StubSpec => [][Iret /\ ~Fits => frame' = ShiftedFrame]_stubVars
<1>1. ASSUME StubInv, Iret, ~Fits PROVE stack = Rest
  <2>1. PICK e, n : e = entry /\ n = entry[2]
    OBVIOUS
  <2>2. /\ e \in Stubs /\ ip \in Nat /\ ip # 0
        /\ Program(e)[ip].op = "iret"
    BY <1>1, <2>1 DEF StubInv, StubTypes, Iret
  <2>3. CASE ~Core
    <3>1. PICK i \in Int : i = ip
      BY <2>2
    <3>2. MicroAt(i) /\ Program(e) = IsrMicro(n)
      BY <1>1, <2>1, <2>2, <2>3, <3>1, StubCases DEF StubInv, MicroProgress, Core
    <3>3. i \in {1, 2, 3, 4, 5, 6, 7, 8, 9, 10, 11, 12, 13, 14}
      <4>1. i <= 14
        BY <3>2 DEF MicroAt
      <4> QED
        BY <2>2, <3>1, <4>1
    <3>4. PICK p, q : p = IsrMicro(n) /\ q = p[i]
      OBVIOUS
    <3>5. MicroInstructions(p, n) /\ q.op = "iret"
      BY <2>2, <3>1, <3>2, <3>4, MicroCode
    <3>6. i = 14
      <4>1. i \notin {1, 2, 3, 4, 5, 6, 7}
        BY <3>4, <3>5 DEF MicroInstructions
      <4>2. i \notin {8, 9, 10, 11, 12, 13}
        BY <3>4, <3>5 DEF MicroInstructions
      <4> QED
        BY <3>3, <4>1, <4>2
    <3> QED
      BY <3>2, <3>6 DEF MicroAt
  <2>4. CASE Core
    <3>1. n \in 0 .. 47 /\ Program(e) = StubCore(n)
      BY <2>1, <2>2, <2>4, StubCases DEF Core
    <3>2. PICK p, L : p = StubCore(n) /\ L = Lead(n)
      OBVIOUS
    <3>3. CoreInstructions(p, n, L) /\ L \in {2, 3}
      <4>1. CoreInstructions(p, n, L)
        BY <3>1, <3>2, CoreCode
      <4> QED
        BY <4>1 DEF CoreInstructions
    <3>4. PICK i \in Int : i = ip - L
      BY <2>2, <3>3
    <3>5. CoreAt(i)
      BY <1>1, <2>1, <2>2, <2>4, <3>2, <3>4 DEF StubInv, CoreProgress
    <3>6. i \in {-2, -1, 0, 1, 2, 3, 4, 5, 6, 7, 8, 9, 10, 11, 12, 13, 14}
      <4>1. i <= 14
        BY <3>5 DEF CoreAt
      <4> QED
        BY <2>2, <3>3, <3>4, <4>1
    <3>7. PICK q : q = p[ip] /\ ip = L + i
      BY <2>2, <3>3, <3>4
    <3>8. q.op = "iret"
      BY <2>2, <3>1, <3>2, <3>7
    <3>9. i = 14
      <4>1. i \notin {1, 2, 3, 4, 5, 6}
        BY <3>3, <3>7, <3>8 DEF CoreInstructions
      <4>2. i \notin {7, 8, 9, 10, 11, 12, 13}
        BY <3>3, <3>7, <3>8 DEF CoreInstructions
      <4>3. i \notin {-2, -1, 0}
        <5>1. ASSUME i \in {-2, -1, 0} PROVE FALSE
          <6>1. \/ ip = 1
                \/ ip = 2 /\ L \in {2, 3}
                \/ ip = 3 /\ L = 3
            BY <2>2, <3>3, <3>7, <5>1
          <6>2. ip # 1
            BY <3>3, <3>7, <3>8 DEF CoreInstructions
          <6>3. ~(ip = 2 /\ L = 2) /\ ~(ip = 3 /\ L = 3)
            BY <3>3, <3>7, <3>8 DEF CoreInstructions
          <6>4. ~(ip = 2 /\ L = 3)
            BY <3>3, <3>7, <3>8 DEF CoreInstructions
          <6> QED
            BY <6>1, <6>2, <6>3, <6>4
        <5> QED
          BY <5>1
      <4> QED
        BY <3>6, <4>1, <4>2, <4>3
    <3> QED
      BY <1>1, <3>5, <3>9 DEF CoreAt
  <2> QED
    BY <2>3, <2>4
<1>2. StubInv /\ [StubNext]_stubVars =>
        [Iret /\ ~Fits => frame' = ShiftedFrame]_stubVars
  BY <1>1, RestIsShifted
<1> QED
  BY <1>2, StubInvariant, PTL DEF StubSpec
=============================================================================
