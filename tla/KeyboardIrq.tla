---------------------------- MODULE KeyboardIrq ----------------------------
(***************************************************************************)
(* Key presses of MicroKernel++: kernel_main (kernel/kernel.c) sets up the *)
(* IDT and the PIC (kernel/idth.c) and goes on with interrupts enabled; a  *)
(* key makes the keyboard controller raise IRQ 1, the CPU enters           *)
(* isr_handler, and keyboard_handler (kernel/keyboard.c) reads the         *)
(* scancode and echoes it.                                                 *)
(*                                                                         *)
(* Hardware, modelled from how the code uses it: the keyboard's queue, the *)
(* controller's one-byte output buffer at port 0x60, line 1 of the master  *)
(* PIC in edge mode, the CPU's interrupt flag.  The other lines are masked *)
(* throughout, so the slave's EOI for numbers from 40 on finds nothing in  *)
(* service there.                                                          *)
(*                                                                         *)
(* What the stub of kernel/isr.s hands isr_handler, and where its iret     *)
(* goes, are constants.  isr_handler expects 33 and a stub that resumes    *)
(* kernel_main: 33 \in Arguments and TRUE \in Resumes.  The stub as it is  *)
(* written pushes ds last, in 16 bits, so the argument is ds + 65536 * x,  *)
(* ds the boot loader's data selector, 16 or 24, and x the low half of     *)
(* EDI; and it removes four bytes too many before iret (TrapStubs):        *)
(* Resumes = {FALSE}.                                                      *)
(*                                                                         *)
(* kernel_main's own messages on rows 0 to 2, 4 and 8 to 11 are left out   *)
(* of the screen.                                                          *)
(***************************************************************************)
EXTENDS Integers, Sequences, SequencesExt

CONSTANTS
  Chars,      (* the scancodes below 58 that draw a character            *)
  Enter,      (* scancode 28                                             *)
  Backspace,  (* scancode 14                                             *)
  Others,     (* the scancodes from 58 on, which the table has no entry for *)
  Space,      (* what an empty cell of the screen shows                  *)
  COLS,       (* 80                                                      *)
  FirstRow,   (* 3                                                       *)
  Arguments,  (* what isr_handler may find as its int_num for line 1     *)
  Resumes,    (* can iret resume kernel_main, can it go elsewhere        *)
  MaxKeys     (* bound: how many keys are pressed in all                 *)

Keys == Chars \cup {Enter, Backspace} \cup Others

ASSUME KeyboardAssumption ==
  /\ COLS \in Nat \ {0} /\ FirstRow \in Nat /\ MaxKeys \in Nat
  /\ Arguments \subseteq Nat \ {0} /\ Resumes \subseteq BOOLEAN
  /\ Enter # Backspace
  /\ Chars \cap Others = {}
  /\ {Enter, Backspace} \cap (Chars \cup Others) = {}
  /\ Space \notin Chars

VARIABLES
  main,       (* where kernel_main is                                    *)
  gates,      (* the vectors the IDT has a present gate for              *)
  idtr,       (* has lidt loaded the IDT?                                *)
  ifl,        (* the CPU's interrupt flag                                *)
  hpc,        (* where the interrupt's handler is, "none" outside, and   *)
              (* "lost" when iret has not come back to kernel_main       *)
  int_num,    (* what isr_handler has last been called with              *)
  fault,      (* has an interrupt found no gate?                         *)
  base,       (* the PIC's first vector                                  *)
  imr, irr, isr,  (* its mask, request and in-service bits of line 1     *)
  obf, data,  (* the controller's output buffer: is it full, its byte    *)
  fifo,       (* the bytes behind it                                     *)
  cursor_x, cursor_y,
  echo,       (* what keyboard_handler has put on the screen             *)
  early,      (* history: was a byte in the buffer at the PIC's reset?   *)
  pressed,    (* history: the scancodes sent                             *)
  reads       (* history: the scancodes keyboard_handler has read        *)

cpu    == <<ifl, hpc, int_num, fault>>
pic    == <<base, imr, irr, isr>>
device == <<obf, data, fifo, early, pressed>>
driver == <<cursor_x, cursor_y, echo, reads>>
vars   == <<main, gates, idtr, cpu, pic, device, driver>>

Cols == 0 .. COLS - 1
Rows == FirstRow .. FirstRow + MaxKeys

Init ==
  /\ main = "clear" /\ gates = {} /\ idtr = FALSE
  /\ ifl = FALSE /\ hpc = "none" /\ int_num = 0 /\ fault = FALSE
  /\ base = 8 /\ imr = FALSE /\ irr = FALSE /\ isr = FALSE
  /\ obf = FALSE /\ data = Enter /\ fifo = <<>>
  /\ cursor_x = 0 /\ cursor_y = FirstRow
  /\ echo = [r \in Rows |-> [x \in Cols |-> Space]]
  /\ early = FALSE /\ pressed = <<>> /\ reads = <<>>

-----------------------------------------------------------------------------
(* kernel_main: one action per step that the interrupt path depends on.    *)

\* kernel_main goes from one step to the next when no handler runs.
Main(here, next) ==
  /\ main = here /\ hpc = "none" /\ ~fault
  /\ main' = next
  /\ UNCHANGED <<obf, data, fifo, pressed, driver, hpc, int_num, fault>>

\* init_idt zeroes all gates.
ClearIdt ==
  /\ Main("clear", "icw1") /\ gates' = {}
  /\ UNCHANGED <<early, idtr, ifl, pic>>

\* ICW1 resets the PIC: a request already latched is forgotten, and line 1
\* must fall and rise again to make a new one.
ICW1 ==
  /\ Main("icw1", "icw2") /\ early' = obf
  /\ imr' = FALSE /\ irr' = FALSE /\ isr' = FALSE
  /\ UNCHANGED <<gates, idtr, ifl, base>>

ICW2 ==
  /\ Main("icw2", "mask") /\ base' = 32
  /\ UNCHANGED <<early, gates, idtr, ifl, imr, irr, isr>>

\* A mutant of Mask: 0xFE, which opens line 0 instead of line 1.
MaskLine1 ==
  /\ Main("mask", "gate") /\ imr' = TRUE
  /\ UNCHANGED <<early, gates, idtr, ifl, base, irr, isr>>

\* Only line 1 is open.
Mask ==
  /\ Main("mask", "gate") /\ imr' = FALSE
  /\ UNCHANGED <<early, gates, idtr, ifl, base, irr, isr>>

\* A mutant of SetGate: the gate for IRQ 1 before the remapping.
SetGate9 ==
  /\ Main("gate", "lidt") /\ gates' = gates \cup {9}
  /\ UNCHANGED <<early, idtr, ifl, pic>>

SetGate ==
  /\ Main("gate", "lidt") /\ gates' = gates \cup {33}
  /\ UNCHANGED <<early, idtr, ifl, pic>>

Lidt ==
  /\ Main("lidt", "sti") /\ idtr' = TRUE
  /\ UNCHANGED <<early, gates, ifl, pic>>

Sti ==
  /\ Main("sti", "init_pmm") /\ ifl' = TRUE
  /\ UNCHANGED <<early, gates, idtr, pic>>

\* init_pmm runs with interrupts enabled; it may stop the kernel, and panic()
\* disables interrupts.
InitPmm ==
  /\ \/ Main("init_pmm", "alloc") /\ UNCHANGED ifl
     \/ Main("init_pmm", "panic") /\ ifl' = FALSE
  /\ UNCHANGED <<early, gates, idtr, pic>>

\* The three test allocations; then kernel_main halts for good.
TestPmm ==
  /\ Main("alloc", "hlt")
  /\ UNCHANGED <<early, gates, idtr, ifl, pic>>

kernel_main ==
  \/ ClearIdt \/ ICW1 \/ ICW2 \/ Mask \/ SetGate \/ Lidt \/ Sti
  \/ InitPmm \/ TestPmm

-----------------------------------------------------------------------------
(* The keyboard, its controller and the PIC                                *)

Press(k) ==
  /\ Len(pressed) < MaxKeys /\ ~fault
  /\ pressed' = Append(pressed, k)
  /\ fifo' = Append(fifo, k)
  /\ UNCHANGED <<main, gates, idtr, cpu, pic, driver, obf, data, early>>

\* The controller takes the next byte into its empty buffer; that raises
\* line 1, and the PIC latches the edge.
Load ==
  /\ ~obf /\ fifo # <<>> /\ ~fault
  /\ obf' = TRUE /\ data' = Head(fifo) /\ fifo' = Tail(fifo)
  /\ irr' = TRUE
  /\ UNCHANGED <<main, gates, idtr, cpu, base, imr, isr, early, pressed,
                 driver>>

\* The CPU takes the interrupt, through its gate if there is one, and the
\* stub calls isr_handler.
Deliver ==
  /\ ifl /\ irr /\ ~imr /\ ~isr /\ ~fault
  /\ irr' = FALSE /\ isr' = TRUE
  /\ IF idtr /\ base + 1 \in gates
       THEN /\ hpc' = "isr_handler" /\ int_num' \in Arguments
            /\ ifl' = FALSE
            /\ UNCHANGED fault
       ELSE /\ fault' = TRUE
            /\ UNCHANGED <<hpc, int_num, ifl>>
  /\ UNCHANGED <<main, gates, idtr, base, imr, device, driver>>

-----------------------------------------------------------------------------
(* The handler                                                             *)

\* A mutant of Wraps: the cursor leaves the row one column too late.
WrapsLate(x) == x > COLS

Wraps(x) == x >= COLS

\* Draws character c at the cursor.
Draw(c) ==
  /\ echo' = [echo EXCEPT ![cursor_y][cursor_x] = c]
  /\ IF Wraps(cursor_x + 1)
       THEN cursor_x' = 0 /\ cursor_y' = cursor_y + 1
       ELSE cursor_x' = cursor_x + 1 /\ UNCHANGED cursor_y

\* A mutant of Rubout: the cell at the cursor is cleared, not the last one.
RuboutHere ==
  IF cursor_x > 0
    THEN /\ cursor_x' = cursor_x - 1
         /\ echo' = [echo EXCEPT ![cursor_y][cursor_x] = Space]
         /\ UNCHANGED cursor_y
    ELSE UNCHANGED <<cursor_x, cursor_y, echo>>

Rubout ==
  IF cursor_x > 0
    THEN /\ cursor_x' = cursor_x - 1
         /\ echo' = [echo EXCEPT ![cursor_y][cursor_x - 1] = Space]
         /\ UNCHANGED cursor_y
    ELSE UNCHANGED <<cursor_x, cursor_y, echo>>

\* inb(0x60) empties the output buffer, which drops line 1.
\* A mutant of inb: the port is read again, which yields the same byte.
InbTwice == obf' = FALSE /\ reads' = reads \o <<data, data>>

inb == obf' = FALSE /\ reads' = Append(reads, data)

keyboard_handler ==
  /\ inb
  /\ CASE data = Enter ->
            cursor_x' = 0 /\ cursor_y' = cursor_y + 1 /\ UNCHANGED echo
       [] data = Backspace -> Rubout
       [] data \in Chars -> Draw(data)
       [] OTHER -> UNCHANGED <<cursor_x, cursor_y, echo>>
  /\ UNCHANGED <<data, fifo, early, pressed>>

\* A mutant of isr_handler: the keyboard is looked for at the number that
\* IRQ 1 had before the remapping.
IsrHandlerFor9 ==
  /\ hpc = "isr_handler"
  /\ IF int_num = 9 THEN keyboard_handler ELSE UNCHANGED <<device, driver>>
  /\ hpc' = "eoi"
  /\ UNCHANGED <<main, gates, idtr, ifl, int_num, fault, pic>>

isr_handler ==
  /\ hpc = "isr_handler"
  /\ IF int_num = 33 THEN keyboard_handler ELSE UNCHANGED <<device, driver>>
  /\ hpc' = "eoi"
  /\ UNCHANGED <<main, gates, idtr, ifl, int_num, fault, pic>>

\* A mutant of EOI: the PIC is not told.
NoEOI ==
  /\ hpc = "eoi" /\ hpc' = "iret"
  /\ UNCHANGED <<main, gates, idtr, ifl, int_num, fault, pic, device, driver>>

EOI ==
  /\ hpc = "eoi" /\ hpc' = "iret"
  /\ isr' = FALSE
  /\ UNCHANGED <<main, gates, idtr, ifl, int_num, fault, base, imr, irr,
                 device, driver>>

\* sti takes effect only after the iret behind it.  An iret that takes its
\* frame from the wrong place is the end of kernel_main.
Iret ==
  /\ hpc = "iret"
  /\ \E resumes \in Resumes :
       /\ hpc' = IF resumes THEN "none" ELSE "lost"
       /\ ifl' = resumes
  /\ UNCHANGED <<main, gates, idtr, int_num, fault, pic, device, driver>>

Handler == isr_handler \/ EOI \/ Iret

Next ==
  \/ kernel_main
  \/ \E k \in Keys : Press(k)
  \/ Load
  \/ Deliver
  \/ Handler

Spec == Init /\ [][Next]_vars

\* The CPU runs, takes the interrupts it may take, and the controller passes
\* bytes on; nobody has to press a key.
FairSpec ==
  Spec /\ WF_vars(kernel_main) /\ WF_vars(Handler) /\ WF_vars(Load)
       /\ WF_vars(Deliver)

-----------------------------------------------------------------------------
(* Properties *)

\* Every variable keeps its type: the cursor never leaves the row's columns.
TypeOK ==
  /\ main \in {"clear", "icw1", "icw2", "mask", "gate", "lidt", "sti",
               "init_pmm", "alloc", "hlt", "panic"}
  /\ gates \subseteq 0 .. 255 /\ idtr \in BOOLEAN
  /\ ifl \in BOOLEAN /\ fault \in BOOLEAN
  /\ hpc \in {"none", "isr_handler", "eoi", "iret", "lost"}
  /\ int_num \in Arguments \cup {0}
  /\ base \in {8, 32} /\ imr \in BOOLEAN /\ irr \in BOOLEAN /\ isr \in BOOLEAN
  /\ obf \in BOOLEAN /\ data \in Keys /\ fifo \in Seq(Keys)
  /\ cursor_x \in Cols /\ cursor_y \in Rows
  /\ early \in BOOLEAN
  /\ pressed \in Seq(Keys) /\ reads \in Seq(Keys)

\* No interrupt ever finds the IDT missing, or no gate for its vector,
\* whenever keys are pressed while init_idt runs (idth.c:40-58).
EveryInterruptHasItsGate == ~fault

\* Every scancode sent is read exactly once and in order, or still on its
\* way: none is lost between the buffer, the PIC and the handler, whose EOI
\* comes after the read while the next byte may already be in.
EveryKeyAccounted ==
  pressed = reads \o (IF obf THEN <<data>> ELSE <<>>) \o fifo

\* A handler runs alone, with interrupts off, and the PIC holds the line in
\* service exactly from the delivery to the EOI.
OneHandlerAtATime ==
  /\ hpc # "none" => ~ifl /\ main \in {"init_pmm", "alloc", "hlt"}
  /\ isr <=> hpc \in {"isr_handler", "eoi"}

\* isr_handler has been called with another number than the keyboard's.
Unrecognised == int_num \notin {0, 33}

\* Once the PIC is reset, a full buffer always has its interrupt requested,
\* or its reader at work; else nothing would ever empty it.  There are two
\* exceptions: a byte that was in the buffer at the reset, and one whose
\* interrupt isr_handler (idth.c:61-66) did not recognise.
FullBufferIsRequested ==
  main \notin {"clear", "icw1"} /\ obf /\ ~early /\ ~Unrecognised =>
    irr \/ hpc = "isr_handler"

\* The rows of text after one scancode more.
Edit(rows, k) ==
  LET row == rows[Len(rows)]
      put(r) == [rows EXCEPT ![Len(rows)] = r]
  IN  CASE k = Enter -> Append(rows, <<>>)
        [] k = Backspace -> IF row = <<>> THEN rows ELSE put(Front(row))
        [] k \in Chars ->
             IF Len(row) + 1 = COLS
               THEN Append(put(Append(row, k)), <<>>)
               ELSE put(Append(row, k))
        [] OTHER -> rows

\* The rows of text that a sequence of scancodes stands for.
Typed(keys) ==
  LET text[n \in 0 .. Len(keys)] ==
        IF n = 0 THEN << <<>> >> ELSE Edit(text[n - 1], keys[n])
  IN  text[Len(keys)]

\* What a screen with these rows of text shows at column x of row r.
Cell(rows, r, x) ==
  LET i == r - FirstRow + 1
  IN  IF i <= Len(rows) /\ x < Len(rows[i]) THEN rows[i][x + 1] ELSE Space

\* The screen shows the text typed, row by row, and nothing else, with the
\* cursor behind it, through wraps, Enters and Backspaces (keyboard.c:16-37).
EchoIsTyped ==
  LET text == Typed(reads) IN
    /\ cursor_y = FirstRow + Len(text) - 1
    /\ cursor_x = Len(Last(text))
    /\ \A r \in Rows, x \in Cols : echo[r][x] = Cell(text, r, x)

\* Every key pressed is read, unless init_pmm stops the kernel, a key was in
\* the buffer when init_pic reset the PIC, or the stub let isr_handler down:
\* with another number than 33, or an iret that does not resume kernel_main.
KeysAreRead ==
  \A n \in 1 .. MaxKeys :
    Len(pressed) >= n ~>
      Len(reads) >= n \/ main = "panic" \/ early \/ Unrecognised \/ hpc = "lost"

\* What is typed after the message of kernel.c:31, "Keyboard enabled. Type
\* something:", is read.
EnabledKeyboardIsRead ==
  \A n \in 1 .. MaxKeys :
    [](main \in {"alloc", "hlt"} /\ Len(pressed) < n =>
         [](Len(pressed) >= n => <>(Len(reads) >= n)))
=============================================================================
