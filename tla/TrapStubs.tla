----------------------------- MODULE TrapStubs -----------------------------
(***************************************************************************)
(* The assembly stubs between the CPU and the C handlers of interrupts:    *)
(* kernel/isr.s for MicroKernel++ and the stubs of main.core.asm for       *)
(* Imperium OS.  A stub is a sequence of instructions, and a machine with  *)
(* a stack of 16-bit cells runs it, so that a push of a 16-bit register    *)
(* and an argument that straddles two pushes are what they are.            *)
(*                                                                         *)
(* A 32-bit value is the pair of its halves, low half first. What the      *)
(* program holds is given; what the stubs add to it are symbols.           *)
(***************************************************************************)
EXTENDS Integers, Sequences

CONSTANTS
  Stubs,         (* those that run: <<"isr.s" or "main.core.asm", vector>> *)
  Halves,        (* what 16 bits of the interrupted program can hold       *)
  ProgramRegs,   (* its registers                                          *)
  ProgramStack,  (* its stack, the cell at esp first                       *)
  ProgramFrame,  (* its eip, cs and eflags                                 *)
  ProgramSegs    (* what its segment registers can hold                    *)

W(s)    == << <<s, "lo">>, <<s, "hi">> >>
Low(w)  == w[1]
Sym(s)  == W(<<s, 0>>)
Num(n)  == W(<<"number", n>>)
Esp(n)  == W(<<"esp", n>>)

General == {"eax", "ecx", "edx", "ebx", "ebp", "esi", "edi"}
SegRegs == {"ds", "es", "fs", "gs"}

AllSegs(c) == [r \in SegRegs |-> c]

\* kernel/isr.s defines three stubs, main.core.asm one for each vector.
MicroStubs == {"isr.s"} \X {0, 1, 33}
CoreStubs  == {"main.core.asm"} \X (0 .. 47)

\* The int instruction of detect_memory, which in protected mode goes to the
\* kernel's own gate.
IntCalls == {<<"main.core.asm", 21>>}

ProgramWords == Halves \X Halves

ASSUME TrapStubsAssumption ==
  /\ Stubs \subseteq MicroStubs \cup CoreStubs
  /\ ProgramRegs \in [General -> ProgramWords]
  /\ ProgramFrame \in [1 .. 3 -> ProgramWords]
  /\ ProgramStack \in Seq(Halves) /\ Len(ProgramStack) >= 2
  /\ ProgramSegs \subseteq Halves

\* The order in which pusha pushes; esp is the stack itself.
PushaOrder == <<"eax", "ecx", "edx", "ebx", "esp", "ebp", "esi", "edi">>

VARIABLES
  entry,      (* the stub that runs, or ran last                          *)
  soft,       (* whether an int instruction started it                    *)
  ip,         (* its next instruction, 0 while the program runs           *)
  stack,      (* the cells at esp and above, the one at esp first         *)
  regs,       (* the general registers                                    *)
  segs,       (* ds, es, fs and gs                                        *)
  segs0,      (* what they held when the program started                  *)
  frame,      (* eip, cs and eflags of the running program                *)
  ifl,        (* the interrupt flag                                       *)
  call        (* what the C handler was called with                       *)

stubVars == <<entry, soft, ip, stack, regs, segs, segs0, frame, ifl, call>>

NoCall ==
  [ifl |-> FALSE, segs |-> AllSegs(Low(Sym("none"))), arg |-> Sym(""), at |-> <<>>]

KernelData == Low(Num(16))

\* The program goes on where it was interrupted, on its own stack.
Resumed == frame = ProgramFrame /\ stack = ProgramStack

StubInit ==
  /\ entry \in Stubs /\ soft = FALSE /\ ip = 0
  /\ stack = ProgramStack /\ regs = ProgramRegs
  /\ segs0 \in [SegRegs -> ProgramSegs] /\ segs = segs0
  /\ frame = ProgramFrame /\ ifl = TRUE
  /\ call = NoCall

-----------------------------------------------------------------------------
(* The stubs *)

I(op)      == [op |-> op, x |-> "", y |-> ""]
I1(op, x)  == [op |-> op, x |-> x,  y |-> ""]

\* kernel/isr.s: ISR_NOERR_STUB and isr_handler_common.
\* A mutant of IsrMicro: the data segment is popped before the call returns
\* its place, after popa.
IsrMicroSwapped(n) ==
  << I("cli"), I1("push", Num(n)), I("pusha"),
     I("mov ax, ds"), I("push ax"), I("mov ax, 0x10"), I("load segments"),
     I("call"),
     I("popa"), I("pop ax"), I("load segments"),
     I1("add esp", 4), I("sti"), I("iret") >>

IsrMicro(n) ==
  << I("cli"), I1("push", Num(n)), I("pusha"),
     I("mov ax, ds"), I("push ax"), I("mov ax, 0x10"), I("load segments"),
     I("call"),
     I("pop ax"), I("load segments"), I("popa"),
     I1("add esp", 4), I("sti"), I("iret") >>

\* A mutant of ErrStubs: the page fault is taken to have no error code.
ErrStubsWithout14 == {8, 10, 11, 12, 13, 17, 21, 28, 29, 30, 31}

\* main.core.asm: the vectors for which ISR_ERR_STUB is used.
ErrStubs == {8, 10, 11, 12, 13, 14, 17, 21, 28, 29, 30, 31}

\* A mutant of CommonCore: the handler's argument is left on the stack.
CommonWithoutPop ==
  << I("pusha"),
     I("mov ax, ds"), I("push eax"), I("mov ax, 0x10"), I("load segments"),
     I("mov eax, esp"), I("push eax"), I("call"),
     I("pop ebx"), I("load segments from ebx"), I("popa"),
     I1("add esp", 4), I("iret") >>

\* isr_common_stub and irq_common_stub are the same but for the handler.
CommonCore ==
  << I("pusha"),
     I("mov ax, ds"), I("push eax"), I("mov ax, 0x10"), I("load segments"),
     I("mov eax, esp"), I("push eax"), I("call"), I("pop eax"),
     I("pop ebx"), I("load segments from ebx"), I("popa"),
     I1("add esp", 4), I("iret") >>

StubCore(n) ==
  << I("cli") >> \o (IF n \in ErrStubs THEN <<>> ELSE << I1("push", Num(0)) >>)
    \o << I1("push", Num(n)) >> \o CommonCore

Program(e) == IF e[1] = "isr.s" THEN IsrMicro(e[2]) ELSE StubCore(e[2])

-----------------------------------------------------------------------------
(* The CPU *)

\* The exceptions for which the CPU pushes an error code.
PushesErrorCode == {8, 10, 11, 12, 13, 14, 17, 21, 29, 30}

ErrorCode(n, int) ==
  IF n \in PushesErrorCode /\ ~int THEN Sym("error code") ELSE <<>>

\* The way through a present interrupt gate (0x8E); a program that is not
\* resumed where it was is not interrupted again.
Enter(e, int) ==
  /\ ip = 0 /\ Resumed
  /\ entry' = e /\ soft' = int /\ ip' = 1
  /\ stack' = ErrorCode(e[2], int) \o frame[1] \o frame[2] \o frame[3] \o stack
  /\ ifl' = FALSE
  /\ call' = NoCall
  /\ UNCHANGED <<regs, segs, segs0, frame>>

\* An interrupt or an exception.
Interrupt(e) == Enter(e, FALSE)

\* The program's own int instruction, for which the CPU pushes no error code.
IntInstruction(e) == e \in IntCalls /\ Enter(e, TRUE)

Step(op) ==
  /\ ip # 0 /\ Program(entry)[ip].op = op
  /\ ip' = ip + 1
  /\ UNCHANGED <<entry, soft, segs0>>

Push(w) == stack' = w \o stack
Drop(n) == SubSeq(stack, n + 1, Len(stack))
Cells(i, n) == SubSeq(stack, i, i + n - 1)

Cli == Step("cli") /\ ifl' = FALSE /\ UNCHANGED <<stack, regs, segs, frame, call>>
Sti == Step("sti") /\ ifl' = TRUE  /\ UNCHANGED <<stack, regs, segs, frame, call>>

PushNumber ==
  /\ Step("push") /\ Push(Program(entry)[ip].x)
  /\ UNCHANGED <<regs, segs, frame, ifl, call>>

PushEax ==
  /\ Step("push eax") /\ Push(regs["eax"])
  /\ UNCHANGED <<regs, segs, frame, ifl, call>>

PushAx ==
  /\ Step("push ax") /\ Push(<<Low(regs["eax"])>>)
  /\ UNCHANGED <<regs, segs, frame, ifl, call>>

Saved(r) == IF r = "esp" THEN Esp(Len(stack)) ELSE regs[r]

Pusha ==
  /\ Step("pusha")
  /\ stack' = Saved("edi") \o Saved("esi") \o Saved("ebp") \o Saved("esp")
                \o Saved("ebx") \o Saved("edx") \o Saved("ecx")
                \o Saved("eax") \o stack
  /\ UNCHANGED <<regs, segs, frame, ifl, call>>

\* The cells of register r when the last register pushed is at esp.
Popped(r) ==
  LET k == CHOOSE j \in 1 .. 8 : PushaOrder[j] = r
  IN  Cells(1 + 2 * (8 - k), 2)

Popa ==
  /\ Step("popa")
  /\ regs' = [r \in General |-> Popped(r)]
  /\ stack' = Drop(16)
  /\ UNCHANGED <<segs, frame, ifl, call>>

SetLow(w) == regs' = [regs EXCEPT !["eax"][1] = w]

MovAxDs ==
  /\ Step("mov ax, ds") /\ SetLow(segs["ds"])
  /\ UNCHANGED <<stack, segs, frame, ifl, call>>

MovAx10 ==
  /\ Step("mov ax, 0x10") /\ SetLow(KernelData)
  /\ UNCHANGED <<stack, segs, frame, ifl, call>>

MovEaxEsp ==
  /\ Step("mov eax, esp")
  /\ regs' = [regs EXCEPT !["eax"] = Esp(Len(stack))]
  /\ UNCHANGED <<stack, segs, frame, ifl, call>>

\* ds, es, fs and gs are loaded with the same word.
LoadSegments ==
  /\ \/ Step("load segments") /\ segs' = AllSegs(Low(regs["eax"]))
     \/ Step("load segments from ebx") /\ segs' = AllSegs(Low(regs["ebx"]))
  /\ UNCHANGED <<stack, regs, frame, ifl, call>>

\* The C handler finds its argument at esp, above the return address it is
\* called with; it keeps ebx, ebp, esi and edi and its caller's stack.
CallHandler ==
  /\ Step("call")
  /\ call' = [ifl |-> ifl, segs |-> segs, arg |-> Cells(1, 2), at |-> stack]
  /\ regs' = [r \in General |->
                IF r \in {"eax", "ecx", "edx"} THEN Sym("clobbered") ELSE regs[r]]
  /\ UNCHANGED <<stack, segs, frame, ifl>>

PopReg(r) == regs' = [regs EXCEPT ![r] = Cells(1, 2)] /\ stack' = Drop(2)

Pop ==
  /\ \/ Step("pop eax") /\ PopReg("eax")
     \/ Step("pop ebx") /\ PopReg("ebx")
     \/ Step("pop ax")  /\ SetLow(stack[1]) /\ stack' = Drop(1)
  /\ UNCHANGED <<segs, frame, ifl, call>>

\* Counted in cells: add esp, 8 drops 4.
AddEsp ==
  /\ Step("add esp") /\ stack' = Drop(Program(entry)[ip].x)
  /\ UNCHANGED <<regs, segs, frame, ifl, call>>

Iret ==
  /\ ip # 0 /\ Program(entry)[ip].op = "iret"
  /\ ip' = 0
  /\ frame' = <<Cells(1, 2), Cells(3, 2), Cells(5, 2)>>
  /\ stack' = Drop(6)
  /\ ifl' \in IF frame'[3] = ProgramFrame[3] THEN {TRUE} ELSE BOOLEAN
  /\ UNCHANGED <<entry, soft, regs, segs, segs0, call>>

StubNext ==
  \/ \E e \in Stubs : Interrupt(e) \/ IntInstruction(e)
  \/ Cli \/ Sti \/ PushNumber \/ PushEax \/ PushAx \/ Pusha \/ Popa
  \/ MovAxDs \/ MovAx10 \/ MovEaxEsp \/ LoadSegments \/ CallHandler \/ Pop
  \/ AddEsp \/ Iret

StubSpec == StubInit /\ [][StubNext]_stubVars

-----------------------------------------------------------------------------
(* Properties *)

\* Whatever the stub did, the interrupted program gets its registers and ds
\* back, and a program with one data segment, as both kernels are, also es, fs
\* and gs.
RegistersRestored ==
  ip = 0 =>
    /\ regs = ProgramRegs
    /\ segs["ds"] = segs0["ds"]
    /\ segs0 = AllSegs(segs0["ds"]) => segs = segs0

Core == entry[1] = "main.core.asm"

\* The stubs of main.core.asm that take off the stack what was put on it:
\* ISR_ERR_STUB also stands for 28 and 31, which have no error code
\* (main.core.asm:360, 363), and for 21 when an int instruction enters it.
Fits == Core /\ ~soft /\ entry[2] \notin {28, 31}

\* After a stub that fits, the program goes on where it was interrupted, on
\* its own stack, for the vectors with an error code and for those without.
ResumesProgram == ip = 0 /\ Fits => Resumed

\* kernel/isr.s "removes the error code and the interrupt number from the
\* stack" (isr.s:42) before iret, so the program goes on where it was.
MicroResumesProgram == ip = 0 /\ ~Core => Resumed

\* The 32-bit field at byte offset o of the frame the handler's argument
\* points to, behind the argument itself.
Field(c, o) == SubSeq(c.at, o \div 2 + 3, o \div 2 + 4)

Called == call # NoCall

\* Every C handler is called with interrupts off, and with the kernel's data
\* segment in all four registers. Those of main.core.asm get a pointer to one
\* frame layout for all vectors: the data segment at 0, the registers of pusha
\* from 4 on, the vector at 36; and for the stubs that fit the error code or 0
\* at 40, eip, cs and eflags from 44 on.
HandlerSeesFrame ==
  Called =>
    /\ ~call.ifl /\ call.segs = AllSegs(KernelData)
    /\ Core =>
         /\ call.arg = Esp(Len(call.at) - 2)
         /\ Low(Field(call, 0)) = segs0["ds"]
         /\ \A k \in 1 .. 8 : PushaOrder[k] # "esp" =>
              Field(call, 36 - 4 * k) = ProgramRegs[PushaOrder[k]]
         /\ Field(call, 36) = Num(entry[2])
    /\ Fits =>
         /\ Field(call, 40) = IF entry[2] \in PushesErrorCode
                                THEN Sym("error code") ELSE Num(0)
         /\ \A k \in 1 .. 3 : Field(call, 40 + 4 * k) = ProgramFrame[k]
=============================================================================
