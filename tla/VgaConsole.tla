----------------------------- MODULE VgaConsole -----------------------------
(***************************************************************************)
(* The text console of main.core.asm: vga_clear_screen, vga_print_char,    *)
(* vga_print_string, vga_scroll_screen and vga_update_hw_cursor. Both      *)
(* _start routines and kmain call them one at a time; kmain is not in the  *)
(* repository, so it may call any of them with any character and string.   *)
(*                                                                         *)
(* A word of text memory is a character and an attribute; the attribute    *)
(* is vga_text_attribute throughout, so a word is modelled by its          *)
(* character. Text memory starts with what the BIOS left there.            *)
(***************************************************************************)
EXTENDS Integers, Sequences

CONSTANTS
  VGA_WIDTH, VGA_HEIGHT,
  VGA_MEMORY_ADDRESS,
  Chars,             (* the character codes printed, BS and NL among them *)
  Strings,           (* the strings printed                               *)
  MaxScrolls         (* bound on the scrolls of a behaviour               *)

BS == 8
NL == 10
Space == 32
vga_text_attribute == 15

ASSUME VgaAssumption ==
  /\ VGA_WIDTH \in Nat \ {0} /\ VGA_HEIGHT \in Nat \ {0}
  /\ VGA_WIDTH * VGA_HEIGHT <= 16384           (* 32 KiB of text memory *)
  /\ VGA_MEMORY_ADDRESS \in Nat /\ VGA_MEMORY_ADDRESS % 65536 = 32768
  /\ Chars \subseteq 1 .. 255 /\ Strings \subseteq Seq(Chars)
  /\ MaxScrolls \in Nat

VARIABLES
  text,              (* the words of text memory, row by row              *)
  vga_cursor_x, vga_cursor_y,
  crtc,              (* cursor position registers 0Eh (high), 0Fh (low)   *)
  esi,               (* what vga_print_string has left to print           *)
  scrolls            (* scrolls since text memory was last cleared        *)

vars == <<text, vga_cursor_x, vga_cursor_y, crtc, esi, scrolls>>

Cells == 0 .. VGA_WIDTH * VGA_HEIGHT - 1

\* What a cell held before this program ran: no two cells are known to
\* hold the same, so each has a value of its own.
Bios(i) == -1 - i

Position(x, y) == y * VGA_WIDTH + x

\* Where a character is stored: the address of the cell is in EAX when the
\* attribute and the character are moved to AH and AL.
CharAddress(p, c) ==
  LET address == VGA_MEMORY_ADDRESS + 2 * p
  IN  address - (address % 65536) + 256 * vga_text_attribute + c

\* The text after the word c is stored at the address, in or out of it.
Stored(address, c) ==
  [i \in Cells |-> IF address = VGA_MEMORY_ADDRESS + 2 * i THEN c ELSE text[i]]

\* A mutant of Scrolled: the last row is copied, and not blanked.
ScrolledWithoutBlank(t) ==
  [i \in Cells |->
    IF i + VGA_WIDTH \in Cells THEN t[i + VGA_WIDTH] ELSE t[i]]

\* vga_scroll_screen
Scrolled(t) ==
  [i \in Cells |->
    IF i + VGA_WIDTH \in Cells THEN t[i + VGA_WIDTH] ELSE Space]

\* vga_update_hw_cursor: the index 0Fh of the low register is moved to AL,
\* over the position's low byte, before AL is sent.
HwCursor(x, y) == [high |-> Position(x, y) \div 256, low |-> 15]

\* Where the BIOS left the cursor: at the start of row 24 of 80 columns.
BiosCursor == [high |-> 7, low |-> 128]

Init ==
  /\ text = [i \in Cells |-> Bios(i)]
  /\ vga_cursor_x = 0 /\ vga_cursor_y = 0
  /\ crtc = BiosCursor
  /\ esi = <<>>
  /\ scrolls = 0

vga_clear_screen ==
  /\ esi = <<>>
  /\ text' = [i \in Cells |-> Space]
  /\ vga_cursor_x' = 0 /\ vga_cursor_y' = 0
  /\ crtc' = HwCursor(0, 0)
  /\ scrolls' = 0
  /\ UNCHANGED esi

CursorTo(x, y) ==
  /\ vga_cursor_x' = x /\ vga_cursor_y' = y
  /\ crtc' = HwCursor(x, y)

\* A mutant of EndOfScreen: the row below the last one is still accepted.
EndOfScreenLate(y) == y > VGA_HEIGHT

EndOfScreen(y) == y >= VGA_HEIGHT

\* .handle_newline and .check_scroll, on text t.
NewLine(t) ==
  IF EndOfScreen(vga_cursor_y + 1)
    THEN /\ scrolls < MaxScrolls
         /\ text' = Scrolled(t)
         /\ scrolls' = scrolls + 1
         /\ CursorTo(0, VGA_HEIGHT - 1)
    ELSE /\ text' = t
         /\ CursorTo(0, vga_cursor_y + 1)
         /\ UNCHANGED scrolls

\* A mutant of Backspace: it leaves without vga_update_hw_cursor.
BackspaceWithoutUpdate ==
  LET x == IF vga_cursor_x = 0 THEN 0 ELSE vga_cursor_x - 1
  IN  /\ text' = IF vga_cursor_x = 0 THEN text
                 ELSE Stored(CharAddress(Position(x, vga_cursor_y), Space), Space)
      /\ vga_cursor_x' = x
      /\ UNCHANGED <<vga_cursor_y, crtc, scrolls>>

Backspace ==
  LET x == IF vga_cursor_x = 0 THEN 0 ELSE vga_cursor_x - 1
  IN  /\ text' = IF vga_cursor_x = 0 THEN text
                 ELSE Stored(CharAddress(Position(x, vga_cursor_y), Space), Space)
      /\ CursorTo(x, vga_cursor_y)
      /\ UNCHANGED scrolls

Printable(c) ==
  LET t == Stored(CharAddress(Position(vga_cursor_x, vga_cursor_y), c), c)
  IN  IF vga_cursor_x + 1 < VGA_WIDTH
        THEN /\ text' = t
             /\ CursorTo(vga_cursor_x + 1, vga_cursor_y)
             /\ UNCHANGED scrolls
        ELSE NewLine(t)

PrintChar(c) ==
  CASE c = BS -> Backspace
    [] c = NL -> NewLine(text)
    [] OTHER  -> Printable(c)

vga_print_char(c) == esi = <<>> /\ PrintChar(c) /\ UNCHANGED esi

vga_print_string(s) ==
  /\ esi = <<>> /\ esi' = s
  /\ UNCHANGED <<text, vga_cursor_x, vga_cursor_y, crtc, scrolls>>

\* One turn of vga_print_string's loop.
NextChar == esi # <<>> /\ PrintChar(Head(esi)) /\ esi' = Tail(esi)

\* kmain calls the exported vga_scroll_screen itself: the cursor stays.
vga_scroll_screen ==
  /\ esi = <<>> /\ scrolls < MaxScrolls
  /\ text' = Scrolled(text)
  /\ scrolls' = scrolls + 1
  /\ UNCHANGED <<vga_cursor_x, vga_cursor_y, crtc, esi>>

Next ==
  \/ vga_clear_screen
  \/ \E c \in Chars : vga_print_char(c)
  \/ \E s \in Strings : vga_print_string(s)
  \/ NextChar
  \/ vga_scroll_screen

Spec == Init /\ [][Next]_vars

-----------------------------------------------------------------------------
(* Properties *)

\* The cursor is on the screen between any two characters, whatever was
\* printed, so the address of a cell is always that of a cell: the wrap at
\* the end of a row, the scroll at the last row and the stop of a backspace
\* at the first column agree with each other.
CursorOnScreen ==
  /\ vga_cursor_x \in 0 .. VGA_WIDTH - 1
  /\ vga_cursor_y \in 0 .. VGA_HEIGHT - 1

\* Every cell shows what it was found with, moved up by the scrolls, or a
\* blank; a printed character can only be before the cursor. So a scroll
\* leaves blank rows below (main.core.asm:1036-1051), a Backspace leaves no
\* character behind, and nothing is printed over what lies after the cursor.
TextBeforeCursor ==
  \A i \in Cells :
    LET found == i + scrolls * VGA_WIDTH
    IN  \/ text[i] = Space
        \/ found \in Cells /\ text[i] = Bios(found)
        \/ i < Position(vga_cursor_x, vga_cursor_y) /\ text[i] \in Chars

\* Once something has been printed or cleared the high byte of the hardware's
\* cursor is that of the console's, whichever way the cursor has moved:
\* vga_print_char updates it on every path (main.core.asm:1011-1012).
HwCursorFollows ==
  \/ crtc = BiosCursor
  \/ crtc.high = Position(vga_cursor_x, vga_cursor_y) \div 256
=============================================================================
