---------------------------- MODULE KernelPanic ----------------------------
(***************************************************************************)
(* kernel_panic of coresystem.c, with the stack trace and the printing it  *)
(* does on text memory.                                                    *)
(*                                                                         *)
(* A panic runs with interrupts off, but a non-maskable interrupt, or a    *)
(* fault while the stack trace follows a frame pointer into nowhere,       *)
(* enters kernel_panic again: nested activations, of which only the last   *)
(* runs, since none ever returns.                                          *)
(***************************************************************************)
EXTENDS Integers, Sequences

CONSTANTS
  MessageLengths,    (* lengths of the message                            *)
  FileLengths,       (* lengths of the file name                          *)
  LineLengths,       (* digits of the line number                         *)
  Frames,            (* the stack frames: positive addresses              *)
  MaxActivations     (* bound on the activations there are at an NMI      *)

Null == 0
Bad == -1            \* a frame pointer to memory that faults

ASSUME PanicAssumption ==
  /\ MessageLengths \subseteq Nat /\ FileLengths \subseteq Nat
  /\ LineLengths \subseteq 1 .. 10
  /\ Frames \subseteq Nat \ {Null}
  /\ MaxActivations \in Nat \ {0}

Width == 80
Height == 25
Cells == (0 .. Width - 1) \X (0 .. Height - 1)
max_frames == 5

VARIABLES
  panic,             (* what the first panic is about, see Panics         *)
  next,              (* frame -> the frame pointer saved in it            *)
  return,            (* frame -> whether its return address is not 0      *)
  activation,        (* the running activation of kernel_panic            *)
  pc,
  panic_in_progress,
  IF_,
  frame_pointer, i,  (* locals of print_stack_trace                       *)
  screen             (* the texts printed: each with its activation, the  *)
                     (* last on top                                       *)

vars == <<panic, next, return, activation, pc, panic_in_progress, IF_,
          frame_pointer, i, screen>>

Pointers == Frames \cup {Null, Bad}

\* The ebp a panic starts its trace from is that of regs, which a fault can
\* leave anywhere, or whatever the ebp register holds when there are no regs.
Panics == [message : MessageLengths, file : FileLengths, line : LineLengths,
           regs : BOOLEAN, ebp : Pointers]

Init ==
  /\ panic \in Panics
  /\ next \in [Frames -> Pointers]
  /\ return \in [Frames -> BOOLEAN]
  /\ activation = 1 /\ pc = "cli"
  /\ panic_in_progress = FALSE /\ IF_ = TRUE
  /\ frame_pointer = Null /\ i = 0
  /\ screen = <<>>

-----------------------------------------------------------------------------
(* Printing *)

\* What the code prints is told apart by its name: "blank", "label",
\* "message" or "value".
Text(x, y, length, name) == [x |-> x, y |-> y, length |-> length, name |-> name]

\* The cells panic_vga_print_str writes: a text that reaches the right edge
\* goes on in the next row, under its start. panic_vga_print_char drops what
\* is off the screen.
Covered(t) ==
  {c \in Cells :
     /\ c[1] >= t.x /\ c[2] >= t.y
     /\ (c[2] - t.y) * (Width - t.x) + (c[1] - t.x) < t.length}

\* The screen after the running activation printed the texts.
Printed(texts) ==
  screen \o [k \in DOMAIN texts |-> [by |-> activation, text |-> texts[k]]]

\* The clearing of the screen, row by row.
Blank == [y \in 1 .. Height |-> Text(0, y - 1, Width, "blank")]

\* A mutant of Header: the file goes into the row of the reason.
HeaderInOneRow ==
  <<Text(22, 1, 32, "label"),
    Text(2, 3, 7, "label"), Text(10, 3, panic.message, "message"),
    Text(2, 3, 3, "label"), Text(6, 3, panic.file, "value"),
    Text(40, 4, 1, "label"), Text(42, 4, panic.line, "value")>>

\* The title, "reason:", the message, "at:", the file, ":" and the line.
Header ==
  <<Text(22, 1, 32, "label"),
    Text(2, 3, 7, "label"), Text(10, 3, panic.message, "message"),
    Text(2, 4, 3, "label"), Text(6, 4, panic.file, "value"),
    Text(40, 4, 1, "label"), Text(42, 4, panic.line, "value")>>

\* Eight hexadecimal digits behind "0x", see panic_vga_print_hex.
Register(x, y) == Text(x, y, 10, "value")

\* "register dump:", then a row of eax to edx, of esi to esp, and of eip, cs
\* and eflags.
Registers ==
  <<Text(2, 6, 14, "label"),
    Text(4, 7, 4, "label"), Register(9, 7),
    Text(24, 7, 4, "label"), Register(29, 7),
    Text(44, 7, 4, "label"), Register(49, 7),
    Text(64, 7, 4, "label"), Register(69, 7),
    Text(4, 8, 4, "label"), Register(9, 8),
    Text(24, 8, 4, "label"), Register(29, 8),
    Text(44, 8, 4, "label"), Register(49, 8),
    Text(64, 8, 4, "label"), Register(69, 8),
    Text(4, 10, 4, "label"), Register(9, 10),
    Text(24, 10, 3, "label"), Register(29, 10),
    Text(44, 10, 7, "label"), Register(52, 10)>>

\* "[ ]" and the return address.
TraceLine(k) == <<Text(4, 9 + k, 3, "label"), Register(8, 9 + k)>>

-----------------------------------------------------------------------------
(* kernel_panic *)

Goto(here, there) == pc = here /\ pc' = there

Cli ==
  /\ Goto("cli", "test") /\ IF_' = FALSE
  /\ UNCHANGED <<panic, next, return, activation, panic_in_progress,
                 frame_pointer, i, screen>>

Test ==
  /\ Goto("test", IF panic_in_progress THEN "spin" ELSE "set")
  /\ UNCHANGED <<panic, next, return, activation, panic_in_progress, IF_,
                 frame_pointer, i, screen>>

\* A mutant of Set: the flag is not set.
SetNothing ==
  /\ Goto("set", "header")
  /\ UNCHANGED <<panic, next, return, activation, panic_in_progress, IF_,
                 frame_pointer, i, screen>>

Set ==
  /\ Goto("set", "header") /\ panic_in_progress' = TRUE
  /\ UNCHANGED <<panic, next, return, activation, IF_, frame_pointer, i, screen>>

PrintHeader ==
  /\ Goto("header", "registers")
  /\ screen' = Printed(Blank \o Header)
  /\ UNCHANGED <<panic, next, return, activation, panic_in_progress, IF_,
                 frame_pointer, i>>

PrintRegisters ==
  /\ Goto("registers", "trace")
  /\ screen' = IF panic.regs THEN Printed(Registers) ELSE screen
  /\ frame_pointer' = panic.ebp /\ i' = 0
  /\ UNCHANGED <<panic, next, return, activation, panic_in_progress, IF_>>

\* "stack trace:"
TraceTitle ==
  /\ Goto("trace", "frame")
  /\ screen' = Printed(<<Text(2, 8, 12, "label")>>)
  /\ UNCHANGED <<panic, next, return, activation, panic_in_progress, IF_,
                 frame_pointer, i>>

\* The loop's condition.
MoreFrames == i < max_frames /\ frame_pointer # Null

\* A mutant of PrintFrame: the frames printed are not counted. A line
\* printed over itself is left out.
PrintFrameUncounted ==
  /\ pc = "frame" /\ MoreFrames
  /\ frame_pointer \in Frames /\ return[frame_pointer]
  /\ screen' = IF \E k \in DOMAIN screen : screen[k].text = TraceLine(i)[1]
                 THEN screen ELSE Printed(TraceLine(i))
  /\ frame_pointer' = next[frame_pointer] /\ UNCHANGED i
  /\ UNCHANGED <<panic, next, return, activation, pc, panic_in_progress, IF_>>

PrintFrame ==
  /\ pc = "frame" /\ MoreFrames
  /\ frame_pointer \in Frames /\ return[frame_pointer]
  /\ screen' = Printed(TraceLine(i))
  /\ frame_pointer' = next[frame_pointer] /\ i' = i + 1
  /\ UNCHANGED <<panic, next, return, activation, pc, panic_in_progress, IF_>>

EndTrace ==
  /\ pc = "frame"
  /\ ~MoreFrames \/ (frame_pointer \in Frames /\ ~return[frame_pointer])
  /\ pc' = "footer"
  /\ UNCHANGED <<panic, next, return, activation, panic_in_progress, IF_,
                 frame_pointer, i, screen>>

\* "system halted" and what follows it
PrintFooter ==
  /\ Goto("footer", "halt")
  /\ screen' = Printed(<<Text(25, 23, 29, "label")>>)
  /\ UNCHANGED <<panic, next, return, activation, panic_in_progress, IF_,
                 frame_pointer, i>>

-----------------------------------------------------------------------------
(* What enters kernel_panic again *)

\* The new activation is about what its handler passes: here the same data.
Enter ==
  /\ activation' = activation + 1 /\ pc' = "cli"
  /\ UNCHANGED <<panic, next, return, panic_in_progress, IF_, frame_pointer, i,
                 screen>>

\* frame_pointer[1] faults.
TraceFaults == pc = "frame" /\ MoreFrames /\ frame_pointer = Bad /\ Enter

NonMaskableInterrupt == activation < MaxActivations /\ Enter

Processor ==
  \/ Cli \/ Test \/ Set
  \/ PrintHeader \/ PrintRegisters
  \/ TraceTitle \/ PrintFrame \/ EndTrace \/ TraceFaults
  \/ PrintFooter

Next == Processor \/ NonMaskableInterrupt

Spec == Init /\ [][Next]_vars

\* The processor goes on with the running activation.
FairSpec == Spec /\ WF_vars(Processor)

-----------------------------------------------------------------------------
(* Properties *)

\* The k-th text printed is on the screen as it was printed.
Readable(k) ==
  \A l \in k + 1 .. Len(screen) :
    Covered(screen[k].text) \cap Covered(screen[l].text) = {}

\* One panic reports: all that is printed, from the clearing on, is one
\* activation's, although a second panic may come between any two steps,
\* the test and the setting of panic_in_progress included.
OneReport ==
  \A k, l \in DOMAIN screen : screen[k].by = screen[l].by

\* A message that fits its row can be read when the system has halted,
\* whatever the registers, the file and the stack trace printed below it.
MessageReadable ==
  pc = "halt" /\ panic.message <= Width - 10 =>
    \A k \in DOMAIN screen : screen[k].text.name = "message" => Readable(k)

\* Every panic ends in the halt or, nested, in the endless loop: also when
\* the chain of frames is a cycle, leads nowhere, or faults.
Settles == <>[](pc \in {"halt", "spin"})
=============================================================================
