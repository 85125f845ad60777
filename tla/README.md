# Verification of Micro-Kernel: models, checks and proofs

This directory holds TLA+ models of the kernel sources beside it, the TLC
configurations that check them, and TLAPS proofs about them. `PROJECT.json`
lists, per definition, the source lines it stands for; per run, what it asks;
per hazard, the line where it bites and the properties that watch it.

    tlasany Pmm.tla                                # parse
    tlc -workers 2 -config Shell_lines.cfg MCShell # check one run
    tlapm PmmProofs.tla                            # check the proofs

## 1. The system

The repository holds two kernels that share a tree and are not linked together.

**MicroKernel++** (`boot/`, `kernel/`): GRUB loads it at 1 MiB, `boot.s` pushes
EBX (the Multiboot information) and calls `kernel_main`, which clears the
screen, sets up IDT and PIC and enables interrupts, starts the memory manager,
allocates three pages and halts. From then on only keyboard interrupts run.

**Imperium OS** (`main.core.asm`, `coresystem.c`): one assembly file with two
`_start` routines, the descriptor tables, interrupt stubs, memory detection,
paging, timer, FPU and a text console; and a C file with the kernel panic, a
few commands and many prototypes.

| Component | State | Operations | Interacts by |
|---|---|---|---|
| Memory manager, `kernel/pmm.c` | `pmm_memory_end`, `pmm_current_break`, `pmm_start_addr` | `init_pmm`, `pmm_alloc_page`, `pmm_free_page`, statistics | reads the Multiboot map; called by `kernel_main` and the shell's `memstat`; calls `panic` |
| Shell, `kernel/shell.c`, `string.c` | `cmd_buffer`, `cmd_pos`, strtok's `last` | key press: edit, or split and run a line | writes the screen; calls `pmm_*`, `panic`; nothing calls it yet |
| Keyboard interrupts, `idth.c`, `keyboard.c` | IDT, PIC registers, `cursor_x`, `cursor_y` | `init_idt`, `isr_handler`, `keyboard_handler` | hardware interrupts, at any step of `kernel_main` |
| Interrupt stubs, `isr.s`, `main.core.asm` | stack and registers | one stub per vector, three common stubs | CPU frame above, C handler below |
| Processor set-up, `main.core.asm` | GDTR, IDTR, TR, CR0, CR3, CR4, PIC, PIT, page tables | six install routines, called in order | later routines rely on earlier ones; interrupts in between |
| Memory detection, `main.core.asm` | `e820_map`, `e820_map_count` | `detect_memory` | meant to call the BIOS; no caller |
| Text console, `main.core.asm` | cursor, text memory, CRTC registers | clear, print, scroll, cursor | called by `_start` |
| Kernel panic, `coresystem.c` | `panic_in_progress`, text memory | `kernel_panic`, stack trace | called from anywhere, itself included |
| CoreSH commands, `coresystem.c` | locals of a dump, `system_tick_count` | `cmd_hexdump`, `cmd_uptime`, `cmd_top`, `cmd_klog`, `cmd_lspci` | print with `shell_printf`, read arguments with `atoi` |
| Conversions, `string.c`, `kernel.c`, `coresystem.c` | none | `utoa`, `hex_to_str`, `atoi`, `shell_printf` | called by the commands and by `kernel_main` |
| Page bitmap | `pmm_memory_bitmap`, `pmm_total_pages` (never set) | set, unset, test, without callers | none |
| VFS, RamFS, scheduler, system calls | prototypes only | none | none |

What is hard here, and cannot be seen from a screen in an emulator:

- arithmetic at the width of the machine: sums of `u32` that wrap, `u64` cut to
  `u32`, 16-bit masks and pushes among 32-bit ones;
- keys that arrive at any instruction of the boot and of their own handler;
- a buffer that is never cleared and is cut in place by a function with a
  static pointer;
- boot steps whose order matters although each is right alone;
- a panic inside a panic, and a stack trace through a broken stack;
- a dump whose last row, address or length sits on a boundary, and counters
  shown in units that all roll over at once.

What makes each component correct: a page goes to one owner, is RAM, and is
counted; the line on the screen is the line that runs, and only its words reach
the command; each key is read once, in order, eventually; an interrupted
program gets its registers back, its handler the frame it expects, and `iret`
the frame the CPU pushed; an interrupt has a gate when it can come; the map the
BIOS told is the map that is stored; the cursor and the scrolls agree; one panic
makes one readable report and the machine stops; a dump is a table of the memory
it was asked for, and the uptime shown is the time that passed. The code does
not do all of this: section 5 lists where it does not, and each property says
what it excepts.

## 2. Modules

Each module follows one component; its definitions keep the source's names.
`MC*` modules give the constants values for TLC. Operators commented "A mutant
of X" are wrong versions of the definition X behind them, used to show that a
property notices; no specification uses them.

| Module | What it is | Proofs |
|---|---|---|
| `PageAllocator` | abstract: pages are free or owned, an allocation takes a free one, and is refused only when none is left | |
| `Pmm` | `pmm.c`, the map walk entry by entry, `u32` sums modulo `Word`; implements `PageAllocator` | `PmmProofs` |
| `CommandLine` | abstract: a line is typed, erased, run as words, each from where it starts to the next blank | |
| `Shell` | `shell.c` and `strtok`, one action per token; implements `CommandLine` | `ShellProofs` |
| `KeyboardIrq` | `idth.c`, `keyboard.c` and the order of `kernel_main`, against PIC, controller and interrupt flag | `KeyboardProofs` |
| `TrapStubs` | every stub as instructions on a stack of 16-bit cells and four segment registers | `CpuProofs` |
| `CpuSetup` | both `_start` routines and the install routines, in instruction groups | `CpuProofs` |
| `E820` | `detect_memory` against a BIOS, and against the kernel's own gate | `E820Proofs` |
| `VgaConsole` | console and cursor registers | `VgaProofs` |
| `KernelPanic` | `kernel_panic` step by step, nested activations | `PanicProofs` |
| `Conversions` | `utoa`, `hex_to_str`, `atoi`, `%d`, `%x`: operators on sequences of digits, and `Value`, the number that digits mean | |
| `CoreShell` | the CoreSH commands on top of `Conversions` | `CoreShellProofs` |

How state and actions correspond to the code:

- **Pmm.** The variables are the C globals and `init_pmm`'s locals; `pc` says
  where `init_pmm` is. `RejectBootInfo`, `AcceptBootInfo`, `WalkEntry` and
  `FinishInit` are its parts (pmm.c:16-19, 22-25, 26-34, 36-54);
  `pmm_alloc_page` is one action, since nothing interrupts it that uses its
  state. A map is a function from the byte where an entry starts to the entry.
  `owned` and `ret` record what was handed out.
- **Shell.** `cmd_buffer` is a function on its indexes and pointers are indexes.
  A key press that is not Enter is one action; Enter runs through "split" (one
  action per `strtok` call), "dispatch" and "prompt". What is behind the NUL is
  kept, because the code never clears it. The screen is reduced to the row of
  the prompt and to what the command printed.
- **KeyboardIrq.** `kernel_main` advances one step at a time (`ClearIdt`,
  `ICW1`, `ICW2`, `Mask`, `SetGate`, `Lidt`, `Sti`, `InitPmm`, `TestPmm`); a
  handler runs as read, EOI, iret; the keyboard presses keys, the controller
  loads them into its one-byte buffer and raises the line, the CPU delivers.
  ICW1 clears the PIC's request latch; an edge comes only from an empty buffer
  that fills. `sti` before `iret` (isr.s:43) takes effect after the `iret`.
  What the stub leaves for `isr_handler` is `Arguments`, and whether its `iret`
  comes back is `Resumes`: with 33 and TRUE among them this is the handler as it
  is meant, with `AsBuilt` and FALSE as it is (`TrapStubs`). `isr_handler` sends
  the EOI for every number (idth.c:71), so a line that is not read is
  acknowledged all the same.
- **TrapStubs.** A stub is a sequence of instructions and one action executes
  one of them. What the program holds is a constant: its registers, its frame
  (eip, cs, eflags), its stack, and the values its four segment registers may
  have, each its own; what the stubs add (their number, an error code, a saved
  esp, what C leaves in a register) are symbols. For TLC each half of a register
  holds a value of its own, so equality means that this very value came back. A
  stub is entered by an interrupt, with the CPU's error code where it has one,
  or, 21 only, by the int instruction at main.core.asm:650, without.
- **CpuSetup.** Each routine is cut where the state of the processor changes for
  an interrupt. An interrupt is possible whenever IF is set and a line is
  unmasked; with no table loaded a fault resets the processor. `_start` "basic"
  is main.core.asm:60-90, "advanced" main.core.asm:1163-1218; both begin with
  cli, and the advanced one executes sti before `kmain`.
- **E820.** The BIOS has a map, tells its end by EBX = 0 or by a failing call
  after the last entry, and may fail earlier. The file runs in protected mode
  (main.core.asm:61), where the int instruction reaches no BIOS but the kernel's
  gate 21: `Gate21`. The other actions are the routine as it is written to work,
  so what holds of them is a statement about its logic and not about this boot.
- **VgaConsole.** A word of text memory is its character. Registers are
  modelled where the code overwrites one that it still needs: AX over the cell's
  address at main.core.asm:970, AL over the cursor position at 1069.
- **KernelPanic.** The prints of one part of the report (header, registers,
  title of the trace, one frame, footer) are one step; a text is its place, its
  length and one of four names ("blank", "label", "message", "value"). A
  non-maskable interrupt, or a fault of the stack trace, starts another
  activation; the interrupted one never runs again.
- **Conversions.** A string of digits is the sequence of their values; a word has
  `HexWidth` hexadecimal digits, at least two. A loop that divides is `Quotient`,
  what is left after so many rounds; the loop of `k_atoi` is a recursive function
  over the digits it reads, and `Value` says what a string of digits means.
- **CoreShell.** One element of `out` per call of `shell_printf`: the format and
  what each of its conversions became. `cmd_hexdump`'s loop takes one action per
  byte and one for the end; `ascii_buf` starts with whatever the stack held.
  `CoreShellAssumption` says what the C types say: memory and stack hold bytes,
  an argument is a string without NUL, the tick counter is a word.
  Memory is a function of the address that the dump does not change: a dump of
  the text memory it is printed to is not covered. `system_tick_count` is any
  number, since the timer handler that would count is not in the repository.

The modules are separate because the code is: the kernels share no image, the
shell is not called by the keyboard handler, and the handler does not allocate.
Where a component relies on another, the model states what it relies on: the
memory manager takes any map of `WellFormed` shape, `isr_handler` in
`KeyboardIrq` finds any of `Arguments`, of which `TrapStubs` says what they are
(`HandlerGetsDs`: ds, and the low half of EDI above it).

### Read before relying on a model

- The assembly does not assemble as it stands in places: `mov al, eax`
  (main.core.asm:1069) is read as "the low byte of EAX"; `isr.s` mixes NASM
  macros and GAS comments and is read as what its instructions say; `push ax`
  and `push byte` are pushes of 16 and (sign-extended) 32 bits; two `_start`
  labels are two programs.
- `write_vga_at`, `write_char_at` and `clear_screen` are declared in `vga.h` and
  defined nowhere; `kmain`, `fault_handler` and `irq_handler` are called by the
  assembly and defined nowhere. They are external: `kmain` may call each
  exported install routine at most once, in any order, and unmask any lines.
- `panic` is the one in coresystem.c:116, the only definition in the repository:
  it disables interrupts and does not return.
- GRUB hands over with interrupts off; other bits of CR0 are arbitrary, except
  that protection is on and paging off. `k_atoi` and `-v` overflow an `int`
  (coresystem.c:126, 162) and are read as arithmetic modulo a word. The screen
  and the cursor registers hold what the BIOS left. The Multiboot header
  (boot.s:8) sets bit 6 of the request flags and no loader promises a memory map
  for it, so `init_pmm` is
  checked with and without one. `multiboot.h:27` gives `syms` one word too few,
  so the code reads `mmap_length` and `mmap_addr` from the words before them;
  `Pmm` takes both as the loader meant them.

## 3. Runs

Passing runs show that their properties hold on the instance; violation runs
show that a line of documentation or a comment is not what the code does, and
are described under `findings` in PROJECT.json.

| Run | Result | What it shows |
|---|---|---|
| `Pmm_maps` | pass | for every map no region of which ends in the last page: the walk stays on entries and ends, the region is the first longest usable one, the statistics agree with each other and with the pages owned, pages lie between the kernel and the region's end, and are usable RAM if the longest region holds the kernel's end; implements `PageAllocator` |
| `Pmm_high_region` | violation | a PC with 3 GiB of RAM from 0 on and 4 GiB from 4 GiB on: the longest region's base and length are both cut to 0, and the kernel stops for lack of memory |
| `Shell_lines` | pass | implements `CommandLine`; buffer sealed by its NUL, argv well formed, screen and buffer agree, prompt comes back |
| `TrapStubs_all` | pass | all 51 stubs and the int instruction, for any four segments: general registers and ds restored, es, fs and gs if they were equal to ds; handlers called with interrupts off on the kernel's data segment; on `main.core.asm` one frame layout up to the vector. For its vectors but 28 and 31, and but for the int instruction, also the error code and the interrupted eip, cs and eflags, and resumption |
| `TrapStubs_micro` | violation | `isr.s` does not find its `iret` frame |
| `Keyboard_keys` | pass | keys at any step: no interrupt without gate, no scancode lost or doubled, one handler at a time, a full buffer is always requested, the echo is the text typed; each key is eventually read unless one was waiting at the PIC's reset, or the stub handed over another number than 33 or did not resume `kernel_main` |
| `Keyboard_typed` | violation | with what `isr.s` leaves for `isr_handler` and where its `iret` goes, a key typed after "Keyboard enabled. Type something:" is not read |
| `E820_maps` | pass | ends unless gate 21 takes it away, stays in its buffer, what is counted was delivered, the whole map is stored (that it is counted to the last is not so: section 5) |
| `Vga_console` | pass | cursor on screen; from the cursor on the screen is what was there before, or blanks, scrolled; the high byte of the hardware's cursor follows |
| `Cpu_boot` | pass | an interrupt that can come has its gate, none comes before `kmain` unmasks it, paging is the identity |
| `Panic_reports` | pass | one report, its message readable, and the system settles, under nested panics |
| `CoreShell_commands` | pass | a dump is a table of the memory asked for: addresses, bytes, gaps and characters, read back from their digits, for every kind of argument; days to seconds add up to the time of the ticks. Three assumptions of `MCCoreShell`, evaluated with it, check the conversions over bounded numbers: `UtoaShowsItsNumber`, `HexToStrIsBackwards`, `AtoiReadsDecimal` |

### Bounds, and why they are enough

- **Pmm**: `Word` 32, `PageSize` 4, `KernelEnd` 6: eight pages, an unaligned
  kernel end, and every wrap of a sum. Maps have at most two entries, of
  different sizes (24 and 20 bytes), usable or not, with bases and lengths on
  both sides of the word: enough for ties, truncation, an empty map and a walk
  that must use the size field. No region ends in the last page of the address
  space, where `pmm_current_break + PAGE_SIZE` wraps (section 5). The theorems
  cover every value.
- **Shell**: a buffer of 5 and argv of 4, three characters of which one is the
  blank: a full line, a line with more words than argv holds, blanks in any
  place, stale cells behind a shorter line. The table has a command that is a
  prefix of what may be typed.
- **KeyboardIrq**: two columns, four keys (`MaxKeys`, the one bound of the
  typist): a wrap, a Backspace at a row's start, an Enter after a full row, and
  a queue behind the full buffer. The stub hands over 33 or 16, anew for each
  key, and resumes or not. One key is enough for `Keyboard_typed`, where it
  hands over 16 or 24 + 65536 * 33 (`AsBuilt`) and does not resume.
- **TrapStubs** runs every stub of both files, 28 and 31 included; the program is
  interrupted again and again, with the kernel's data segment or another in each
  of its four segment registers. Four cells of its stack are enough, a shifted
  `iret` taking two. The theorems cover every program.
- **CpuSetup**: interrupt lines 0, 7, 8 and 15, the ends of both PICs; four
  page-table entries stand for 1024, each written by the same loop body.
- **E820**: a buffer of 3, maps of up to 5 entries, failing calls 1 to 3
  (`FailingCalls`).
- **VgaConsole**: 80 by 4 cells, so that a position needs both bytes of the
  cursor registers, and 4 scrolls (`MaxScrolls`): every row of the first screen
  has left it by then.
- **KernelPanic**: the real screen; messages that fit and do not fit their row;
  two frames with every chain (ends, cycles, faults); three activations
  (`MaxActivations`) in which a non-maskable interrupt may still come.
- **CoreShell**: words of six hexadecimal digits, so that every intermediate
  number fits TLC's integers; rows of 16 as in the code; addresses in digits,
  negative, cut short by a letter, beyond a word, just below the end of memory,
  empty and missing; lengths 0, 1, 15, 16, 17, 33 and 300 (around one and two
  rows, and beyond a byte); ticks on both sides of a second, a minute, an hour, a
  day and the sign bit. The theorems cover every word, argument and memory.

`CHECK_DEADLOCK FALSE` stands where the machine really stops: a panic, a halt
with interrupts off, the return of the routine, or the bound of the typist.

### Fairness

Straight-line code runs on: weak fairness of the handler's steps (`Shell`,
`E820`), of `init_pmm`'s (`Pmm`), of the running activation (`KernelPanic`). In
`KeyboardIrq` the CPU also takes interrupts it may take and the controller
passes bytes on: weak fairness of `kernel_main`, `Handler`, `Load`, `Deliver`.
No fairness makes anybody press a key, call a function or send an interrupt, and
none is strong.

## 4. Proofs

`PmmProofs` proves, for every word size, page size, kernel end and well-formed
map (`PmmAssumption`):

- `InvariantHolds`: the inductive invariant `IInv`. `TypeOK` alone is not
  inductive: `FinishInit` needs to know what the walk established about the
  entries before byte `mmap` (`WalkedSoFar`), and a request needs the pointer to
  stay at or below the end (`BreakInBounds`);
- from it `TypeCorrect`, `WalkSafe`, `LargestChosen`, `StatsNeverContradict`.

Under `TopPageUnused` (no usable region reaches into the last page, without
which the statements are false), from a second invariant `BumpInv`, that the
pages owned are exactly the pages from the start to the pointer and the pointer
is a page boundary:

- `BumpInvHolds`; `FreshPages`, that the next page to be handed out is held by
  nobody; `PagesInBounds`, `UsedIsOwned`;
- `UsableRam`: with a longest region that begins by the kernel's end and ends
  below 4 GiB, every page handed out is usable RAM;
- `Refinement`: `Pmm` implements `PageAllocator`.

`KeyboardProofs` proves, for any keys, screen width and number of presses
(`KeyboardAssumption`), every invariant of `Keyboard_keys`:

- `KeyboardInvariant`: the conjunction is inductive only with `BootProgress`
  (each step of `init_idt` leaves its part behind, and interrupts are enabled
  after all of them), `RequestHasByte` (a request is for a byte in the buffer,
  and the byte that the handler is about to read is not requested again) and
  `Bounded` (one row of the screen per key). `LoadKeepsOrder`, `ReadKeepsOrder`
  and `UnreadKey` are the facts about sequences it needs;
- from it `TypeCorrect`, `GateWhenDelivered`, `NoKeyLost`, `HandlerAlone`, and
  `NotStuck`: whatever number the stub hands over and wherever its `iret` goes, a
  full buffer is requested or being read, unless it was full at the PIC's reset
  or its interrupt was not recognised;
- `NothingIsRead`: if 33 is not among the numbers the stub leaves, no key is ever
  read. Together with `HandlerGetsDs` (below) this is what becomes of the
  keyboard as the code stands;
- `EchoShowsText`: the text typed is recursive over the keys read, so the proof
  shows what one more key makes of it, and that the handler does the same to
  cursor and screen.

`ShellProofs` proves, for every alphabet, buffer length, argv size and command
table (`ShellAssumption`):

- `ShellInvariant`: besides the four properties below, `IInv` says how far
  `strtok` is (`Splitting`: the strings found lie one behind the other and end
  before `last`, which is the terminator of the token or stands one behind it)
  and that the row is empty while a line runs (`RowCleared`). The end of a token
  and of a string is the minimum of a set of indexes, which exists because the
  naturals are well founded and the last cell is NUL. The lemmas about cutting
  say that a NUL written behind the end of every earlier string leaves those
  strings what they were;
- from it `TypeCorrect`, `StaysSealed`, `EchoIsLine`, `ArgumentsWellFormed`;
- `WordsInvariant`: a second invariant `JInv` ties the buffer being cut to the
  line that Enter handed over: the arguments found so far are that line's words,
  one for each start before `last`, and what is behind `last` is still the line's.
  `StrtokCuts` is its step, that one `strtok` call finds the word at the next
  start; `StringKept`, that cutting leaves the earlier words what they were;
  `StrcmpIs`, that `strcmp` returns 0 for equal strings and no others;
- `ShellIsCommandLine`: with both invariants `Shell` implements `CommandLine`,
  action by action. The table is a table (`TableAssumption`: names differ, and
  argv has room for a word and the NULL behind it).

`CpuProofs` proves, for any interrupt lines, timer frequencies and size of the
page table (`CpuSetupAssumption`), every property of `Cpu_boot`:

- `SetupInvariant`: the three properties hold only because of the order of the
  instructions, so the invariant is keyed on the code that is still to run:
  `BootProgress` (what each routine of `_start` has left behind, and that no
  line is let through), `KmainProgress` (`kmain` starts with everything ready
  and calls nothing that takes it away) and `PagingProgress` (table, directory
  and CR3 before CR0.PG);
- from it `EveryIrqHasItsGate`, `QuietUntilKmain`, `IdentityMapped`.

The same module proves, for any registers, frame, four segments and stack of the
interrupted program and any subset of the stubs (`TrapStubsAssumption`), every
invariant of `TrapStubs_all`. It stands in one module with the set-up because
the gates of the one lead to the stubs of the other:

- `StubInvariant`: that the registers are right at the end says nothing about
  the middle, so `StubInv` says what the machine holds at each instruction
  (`CoreAt` for `main.core.asm`, counted from the push of the number so that
  stubs with and without an error code agree; `MicroAt` for `isr.s`): which words
  lie upon the program's stack, what eax or ebx holds for the next instruction
  that reads it, and which segments are loaded. `Upon` says that a stack is
  another one with words on top, and its lemmas say what a pop, a `popa`, an
  `add esp` or an `iret` finds there;
- from it `RegistersComeBack`, `ProgramGoesOn` and `HandlerGetsFrame`, with the
  exceptions of section 3; and what happens in the excepted cases:
- `OnlyDsComesBack`: after any stub that called its handler es, fs and gs hold
  the program's ds;
- `HandlerGetsDs`: `isr_handler` gets ds and the low half of EDI for its number;
- `FrameIsShifted`: the `iret` of every stub of `isr.s`, of 28 and 31 of
  `main.core.asm`, and of its 21 entered by the int instruction takes cs for eip,
  eflags for cs and a word of the program's stack for eflags, whatever the
  program was doing. The run `TrapStubs_micro` shows one such step;
- `EveryIrqHasItsStub`: a line that can interrupt has a gate to a stub of
  `main.core.asm` for a vector without an error code, the case for which
  `StubInvariant` then says what happens.

`PanicProofs` proves, for messages, file names and stacks of any size and any
number of nested panics (`PanicAssumption`):

- `PanicInvariant`: the flag is set before anything is printed (`FlagFirst`),
  all that is printed belongs to the activation that prints (`OwnReport`), and
  behind the message come only texts that start below its row (`MessageLast`),
  where no text can reach up;
- from it `OneActivationReports` and `MessageStaysReadable`.

`E820Proofs` proves, for a buffer of any size, maps of any length and failures
at any call (`E820Assumption`), `MapInvariant`: before a call, pointer,
continuation and count are equal and there is room (`AtLoop`); after a call that
delivered, one entry more is stored than counted (`Delivered`); at the end the
map is complete (`Complete`). From it `StaysInBuffer`, `CountsDelivered`,
`NothingMissing`, and `LastEntryUncounted`: a map that fits is counted one entry
short when EBX = 0 tells its end, and right when the carry flag does.

`VgaProofs` proves, for every screen of at most 32 KiB and every text
(`VgaAssumption`), `ConsoleInvariant`: the cursor's place and the text are
inductive only together, since the cursor decides when to scroll and the address
of a store. From it `CursorStays`, `RestMovesUp` (no trace of printing behind
the cursor) and `HwCursorInStep`. `OnlyScrollsShow` is the defect of line 970 in
full: no printed character ever shows, anywhere. No run asks for that.

`CoreShellProofs` proves, for words of any width above a byte, every memory and
every argument (`ConversionsAssumption`, `CoreShellAssumption`), both properties
of `CoreShell_commands` and the conversions below them:

- `Recursion` and `NatInd`: that a recursive function exists and has the values
  its equation says, and induction over a set of naturals, from the
  well-foundedness of the naturals. With them `Quotient`, `Value` and `NumberOf`
  get their equations (`QuotientIs`, `ValueIs`, `NumberRead`);
- `UtoaShows`, `HexShows`: digits that are the remainders of the quotients of a
  number, highest first, read as the number (`DigitsShow`: what has been read up
  to a digit is the quotient that digit came from), and no word needs more of
  them than a loop produces (`HexWidthIsEnough`, `BitsAreEnough`);
  `HexToStrIsBackwards`;
- `AtoiReadsDecimal`: `k_atoi` counts modulo a word, which does not show as long
  as the number is one (`ModuloHidden`);
- `UptimeIsTime`, about the numbers of `cmd_uptime`, and `UptimeIsShown`, about
  the digits it prints;
- `CommandsInvariant`: after n bytes of a dump, row and column are the quotient
  and the remainder of n - 1 by 16, everything printed is in its place, closed
  rows hold their characters, and `ascii_buf` those of the open one (`Written`).
  `RowIsOpen` says that the loop body closes and opens rows when it must,
  `ByteAdded` that its byte then lands in its place, `DumpEnd` that the gaps and
  the last characters complete the table (`Table`). From it `DumpIsMemory`.

Only model-checked: liveness (`InitTerminates`, `PromptComesBack`,
`KeysAreRead`, `Terminates`, `Settles`), which is beyond the prover. Every other
property of a passing run is stated by a theorem.

## 5. Where the code and its comments disagree

Three disagreements are shown by a run (section 3, and `findings` in
PROJECT.json). The others were met while the models were written; the models
do what the code does, and no property of a passing run asks for more.

- `isr.s:26` pushes the saved ds last and in 16 bits, so `isr_handler(u32
  int_num)` (`idth.c:61`) gets ds and the low half of EDI for its number.
  MicroKernel++ keeps the data selector of the boot loader, which is 16 or 24
  and not 33: no key is read. It sends the EOI all the same (71), but the `iret` behind it is lost.
- `init_pic` (`idth.c:23`) does not empty the keyboard's buffer: a key pressed
  before it leaves the buffer full, ICW1 forgets its edge, and no later key
  raises the line again, even with a right stub.
- `multiboot.h:27` declares `syms[3]` where the Multiboot structure has four
  words, so `init_pmm` reads `mmap_length` at byte 40 and `mmap_addr` at 44,
  which are the last word of `syms` and the length.
- The stubs save ds only and load ds, es, fs and gs from it (`isr.s:24-39`,
  `main.core.asm:386-404`, 413-431), so a program with other values in es, fs or
  gs does not get them back.
- Vectors 28 and 31 use `ISR_ERR_STUB` (`main.core.asm:360`, 363) although the CPU
  pushes no error code for them: their handler sees a shifted frame and their
  `iret` takes cs for eip.
- `detect_memory` executes `int 0x15` (`main.core.asm:650`) in protected mode (61):
  it enters the kernel's gate 21 (231), whose stub expects an error code (353),
  and does not come back.
- `registers_t` (`coresystem.c:464-465`) does not have the layout of the frame
  that the stubs of `main.core.asm` build (305-306, 387).
- `pmm.c:54` starts at the kernel's end whatever the base of the longest region
  is; when that region begins above the kernel, pages in front of it need not
  be RAM. `PagesAreUsableRam` excepts such maps.
- `pmm.c:59` compares `pmm_current_break + PAGE_SIZE` after it may have wrapped:
  with a region that ends in the last page of the address space, addresses start
  again at 0.
- A line of blanks is answered with "Command not found" (`shell.c:57-58`).
- `detect_memory` jumps to its end on EBX = 0 before the last entry is counted
  (`main.core.asm:661`, 665), so `e820_map_count` is not the number of entries
  that 636 says it is; and its result is overwritten by `popa` (678, 634).
- `vga_print_char` stores through a register it has overwritten
  (`main.core.asm:970`, 948); the low byte of the cursor's position is replaced
  by the register number 0Fh (1069, 1058-1064).
- `pit_install` divides the wrong way round (`main.core.asm:792`).
- `fpu_sse_install` writes back only the low 16 bits of CR0 (`main.core.asm:864`).
- `tss_install` loads TR with selector 18h, which is outside the GDT of three
  entries (`main.core.asm:1150`, 98-128). The advanced `_start` calls it before
  `idt_install` (1178, 1183), so the fault has no handler and the processor
  resets: that boot never reaches `kmain`. Called by `kmain`, it faults.
- `pit_install` and `fpu_sse_install` overwrite EBX, which a C caller expects
  back.
- `hex_to_str` writes the lowest digit first (`kernel.c:12`), so `kernel_main`
  shows the addresses of its pages backwards.
- `hexdump 0x1000 16` dumps from address 0, although `hexdump` prints its own
  addresses with 0x: `atoi` stops at the x (`coresystem.c:125`). With length 0
  it prints a buffer that was never written (979, 1010).
- From 2^31 ticks on `uptime` shows the count as a negative number (933).
- The stack trace is printed on the rows of ESI and EIP (`coresystem.c:777`,
  843). `%02x` and `%08x` are not padded (145): `HexdumpShowsMemory` reads digits
  as numbers and does not ask for padding. `pmm_total_pages` is never set (243).

## 6. Not modelled

- `%c`, `%%` and unknown conversions of `shell_printf`, which no caller uses, and
  the room of its buffer: its longest output here has about 120 of 512 bytes.
- The bitmap helpers of coresystem.c:242-270: no caller, and `pmm_total_pages` is
  0 for ever, so that each would return at once.
- `CoreSystem_Initialize`: a constant text and a loop. `cmd_top`'s rows: a table
  nothing fills.
- VFS, RamFS, scheduler, system calls: prototypes.
- `keyboard_read_scancode`, `cpuid_*`, port I/O, `memset`, `memcpy`, headers,
  linker script, editor and workflow files: one instruction, a plain loop, or
  no code of the kernel.
- Rows of the screen shared by `kernel_main`'s messages and the echo, and rows
  below the screen: decided by functions the repository does not define.

## 7. What is left

The memory manager came first, being what everything else would allocate from;
then the shell and the keyboard, the two parts a user drives; then the stubs,
the boot, memory detection, the console and the panic; then the CoreSH commands
with their conversions; last the proofs, module by module, the stubs at the
end. What the code leaves room for:

1. The stubs and `KeyboardIrq` in one state space. Now `TrapStubs` says what the
   stub leaves, and `KeyboardIrq` takes it as the constants `Arguments` and
   `Resumes`.
2. A timer handler, a caller of the shell, the bitmap allocator and the
   scheduler, when the repository has them: the models leave the places open
   (ticks, keys, pages, interrupt lines).
