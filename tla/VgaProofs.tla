----------------------------- MODULE VgaProofs -----------------------------
(***************************************************************************)
(* Proofs about VgaConsole, for every screen that fits text memory, every  *)
(* character, every string and any number of scrolls.                      *)
(***************************************************************************)
EXTENDS VgaConsole, SequenceTheorems, TLAPS

Size == VGA_WIDTH * VGA_HEIGHT

\* What the screen shows is settled by the scrolls alone: the text found
\* there, or the blanks of a clear, moved up by the number of scrolls, with
\* blank rows below it. No printed character is part of it: not what the code
\* is for (main.core.asm:948), but what it does.
ScreenIsScrolledText ==
  LET Shown(i) == i + scrolls * VGA_WIDTH
  IN  \/ \A i \in Cells : text[i] = Space
      \/ \A i \in Cells :
           text[i] = IF Shown(i) \in Cells THEN Bios(Shown(i)) ELSE Space

\* The cursor alone does not decide what is stored where, and the text alone
\* not where the cursor goes: they are proved together.
IInv ==
  /\ scrolls \in Nat
  /\ esi \in Seq(Chars)
  /\ CursorOnScreen
  /\ ScreenIsScrolledText

\* The numbers of the console.
LEMMA ScreenSize ==
  /\ VGA_WIDTH \in Nat /\ VGA_WIDTH > 0 /\ VGA_HEIGHT \in Nat /\ VGA_HEIGHT > 0
  /\ Size \in Nat /\ Size <= 16384 /\ Cells = 0 .. Size - 1
<1>1. VGA_WIDTH \in Nat /\ VGA_WIDTH > 0 /\ VGA_HEIGHT \in Nat /\ VGA_HEIGHT > 0
  BY VgaAssumption
<1>2. Size \in Nat /\ Size <= 16384
  BY <1>1, VgaAssumption DEF Size
<1> QED
  BY <1>1, <1>2 DEF Size, Cells

\* A cursor on the screen is at a cell of text memory.
LEMMA PositionIsCell ==
  ASSUME NEW x \in 0 .. VGA_WIDTH - 1, NEW y \in 0 .. VGA_HEIGHT - 1
  PROVE  Position(x, y) \in 0 .. Size - 1
<1>1. /\ VGA_WIDTH \in Nat /\ VGA_HEIGHT \in Nat /\ x \in Nat /\ y \in Nat
      /\ x <= VGA_WIDTH - 1 /\ y <= VGA_HEIGHT - 1
  BY ScreenSize
<1>2. y * VGA_WIDTH \in Nat
  BY <1>1
<1>3. y * VGA_WIDTH <= (VGA_HEIGHT - 1) * VGA_WIDTH
  BY <1>1
<1>4. (VGA_HEIGHT - 1) * VGA_WIDTH = Size - VGA_WIDTH
  BY <1>1 DEF Size
<1> QED
  BY <1>1, <1>2, <1>3, <1>4, ScreenSize DEF Position

\* The address a character is stored at, its low half overwritten, is below
\* text memory, whatever the cell and the character (main.core.asm:970).
LEMMA StoreMissesText ==
  ASSUME NEW p \in 0 .. Size - 1, NEW c \in 1 .. 255
  PROVE  CharAddress(p, c) < VGA_MEMORY_ADDRESS
<1> DEFINE M == VGA_MEMORY_ADDRESS
<1>1. M \in Nat /\ M % 65536 = 32768
  BY VgaAssumption
<1>2. p \in Nat /\ 2 * p < 32768
  BY ScreenSize
<1> HIDE DEF M
<1>3. (M + 2 * p) % 65536 = 32768 + 2 * p
  BY <1>1, <1>2
<1>4. (M + 2 * p) - ((M + 2 * p) % 65536) = M - 32768
  BY <1>1, <1>2, <1>3
<1>5. CharAddress(p, c) = (M - 32768) + 256 * 15 + c
  BY <1>4 DEF CharAddress, vga_text_attribute, M
<1>6. c \in Nat /\ c <= 255
  OBVIOUS
<1>7. CharAddress(p, c) < M
  BY <1>1, <1>5, <1>6
<1> QED
  BY <1>7 DEF M

\* So storing a character leaves every cell as it was.
LEMMA StoreKeepsText ==
  ASSUME NEW p \in 0 .. Size - 1, NEW c \in 1 .. 255,
         NEW i \in Cells
  PROVE  Stored(CharAddress(p, c), c)[i] = text[i]
<1>1. i \in Nat /\ VGA_MEMORY_ADDRESS \in Nat
  BY ScreenSize, VgaAssumption
<1>2. CharAddress(p, c) # VGA_MEMORY_ADDRESS + 2 * i
  BY <1>1, StoreMissesText DEF CharAddress
<1> QED
  BY <1>2 DEF Stored

\* The text t is the first one, or blank, after n scrolls.
IsScrolled(t, n) ==
  \/ \A i \in Cells : t[i] = Space
  \/ \A i \in Cells :
       t[i] = IF i + n * VGA_WIDTH \in Cells THEN Bios(i + n * VGA_WIDTH)
              ELSE Space

\* vga_scroll_screen adds one scroll.
LEMMA ScrollAddsOne ==
  ASSUME NEW t, NEW n \in Nat, IsScrolled(t, n)
  PROVE  IsScrolled(Scrolled(t), n + 1)
<1>1. CASE \A i \in Cells : t[i] = Space
  BY <1>1 DEF IsScrolled, Scrolled
<1>2. CASE \A i \in Cells :
             t[i] = IF i + n * VGA_WIDTH \in Cells THEN Bios(i + n * VGA_WIDTH)
                    ELSE Space
  <2> SUFFICES ASSUME NEW i \in Cells
               PROVE  Scrolled(t)[i] =
                        IF i + (n + 1) * VGA_WIDTH \in Cells
                        THEN Bios(i + (n + 1) * VGA_WIDTH) ELSE Space
    BY DEF IsScrolled
  <2>1. (n + 1) * VGA_WIDTH = n * VGA_WIDTH + VGA_WIDTH /\ n * VGA_WIDTH \in Nat
    BY ScreenSize
  <2>2. i \in Nat /\ i + (n + 1) * VGA_WIDTH = (i + VGA_WIDTH) + n * VGA_WIDTH
    BY <2>1, ScreenSize
  <2>3. CASE i + VGA_WIDTH \in Cells
    BY <1>2, <2>2, <2>3 DEF Scrolled
  <2>4. CASE i + VGA_WIDTH \notin Cells
    <3>1. i + (n + 1) * VGA_WIDTH \notin Cells
      BY <2>1, <2>2, <2>4, ScreenSize
    <3> QED
      BY <2>4, <3>1 DEF Scrolled
  <2> QED
    BY <2>3, <2>4
<1> QED
  BY <1>1, <1>2 DEF IsScrolled

\* A text that agrees on every cell is the same screen.
LEMMA SameCells ==
  ASSUME NEW t, NEW u, NEW n, IsScrolled(t, n), \A i \in Cells : u[i] = t[i]
  PROVE  IsScrolled(u, n)
BY DEF IsScrolled

\* The state after NewLine on a text that shows n scrolls.
LEMMA NewLineKeeps ==
  ASSUME IInv, NEW t, IsScrolled(t, scrolls), NewLine(t)
  PROVE  scrolls' \in Nat /\ CursorOnScreen' /\ IsScrolled(text', scrolls')
<1>1. scrolls \in Nat /\ vga_cursor_y \in 0 .. VGA_HEIGHT - 1
  BY DEF IInv, CursorOnScreen
<1>2. CASE EndOfScreen(vga_cursor_y + 1)
  <2>1. /\ text' = Scrolled(t) /\ scrolls' = scrolls + 1
        /\ vga_cursor_x' = 0 /\ vga_cursor_y' = VGA_HEIGHT - 1
    BY <1>2 DEF NewLine, CursorTo
  <2> QED
    BY <1>1, <2>1, ScrollAddsOne, ScreenSize DEF CursorOnScreen
<1>3. CASE ~ EndOfScreen(vga_cursor_y + 1)
  <2>1. /\ text' = t /\ scrolls' = scrolls
        /\ vga_cursor_x' = 0 /\ vga_cursor_y' = vga_cursor_y + 1
    BY <1>3 DEF NewLine, CursorTo
  <2> QED
    BY <1>1, <1>3, <2>1, ScreenSize DEF CursorOnScreen, EndOfScreen
<1> QED
  BY <1>2, <1>3

LEMMA ShownIsScrolled == ScreenIsScrolledText <=> IsScrolled(text, scrolls)
BY DEF ScreenIsScrolledText, IsScrolled

LEMMA ShownIsScrolledNext ==
  ScreenIsScrolledText' <=> IsScrolled(text', scrolls')
BY DEF ScreenIsScrolledText, IsScrolled, Cells, Bios, Space

\* One character: control, printable, at the end of a row or of the screen.
LEMMA PrintKeeps ==
  ASSUME IInv, NEW c \in Chars, PrintChar(c)
  PROVE  scrolls' \in Nat /\ CursorOnScreen' /\ ScreenIsScrolledText'
<1>1. /\ scrolls \in Nat /\ IsScrolled(text, scrolls)
      /\ vga_cursor_x \in 0 .. VGA_WIDTH - 1
      /\ vga_cursor_y \in 0 .. VGA_HEIGHT - 1
      /\ c \in 1 .. 255
  BY ShownIsScrolled, VgaAssumption DEF IInv, CursorOnScreen
<1>2. CASE c = BS
  <2> DEFINE x == IF vga_cursor_x = 0 THEN 0 ELSE vga_cursor_x - 1
             p == Position(x, vga_cursor_y)
  <2>0. Backspace
    BY <1>2 DEF PrintChar, BS, NL
  <2>1. /\ text' = IF vga_cursor_x = 0 THEN text
                   ELSE Stored(CharAddress(p, Space), Space)
        /\ vga_cursor_x' = x /\ vga_cursor_y' = vga_cursor_y
        /\ scrolls' = scrolls
    BY <2>0 DEF Backspace, CursorTo
  <2>2. x \in 0 .. VGA_WIDTH - 1
    BY <1>1, ScreenSize
  <2> HIDE DEF x
  <2>3. p \in 0 .. Size - 1
    BY <1>1, <2>2, PositionIsCell
  <2> HIDE DEF p
  <2>4. Space \in 1 .. 255
    BY DEF Space
  <2>5. \A i \in Cells : text'[i] = text[i]
    BY <2>1, <2>3, <2>4, StoreKeepsText
  <2>6. IsScrolled(text', scrolls')
    BY <1>1, <2>1, <2>5, SameCells
  <2> QED
    BY <1>1, <2>1, <2>2, <2>6, ShownIsScrolledNext DEF CursorOnScreen
<1>3. CASE c = NL
  <2>1. NewLine(text)
    BY <1>3 DEF PrintChar, BS, NL
  <2> QED
    BY <1>1, <2>1, NewLineKeeps, ShownIsScrolledNext
<1>4. CASE c # BS /\ c # NL
  <2> DEFINE p == Position(vga_cursor_x, vga_cursor_y)
             t == Stored(CharAddress(p, c), c)
  <2>1. Printable(c)
    BY <1>4 DEF PrintChar
  <2>2. IF vga_cursor_x + 1 < VGA_WIDTH
          THEN /\ text' = t /\ scrolls' = scrolls
               /\ vga_cursor_x' = vga_cursor_x + 1
               /\ vga_cursor_y' = vga_cursor_y
          ELSE NewLine(t)
    BY <2>1 DEF Printable, CursorTo
  <2>3. p \in 0 .. Size - 1
    BY <1>1, PositionIsCell
  <2> HIDE DEF p
  <2>4. \A i \in Cells : t[i] = text[i]
    BY <1>1, <2>3, StoreKeepsText
  <2> HIDE DEF t
  <2>5. IsScrolled(t, scrolls)
    BY <1>1, <2>4, SameCells
  <2>6. CASE vga_cursor_x + 1 < VGA_WIDTH
    <3>1. vga_cursor_x' \in 0 .. VGA_WIDTH - 1
      BY <1>1, <2>2, <2>6, ScreenSize
    <3> QED
      BY <1>1, <2>2, <2>5, <2>6, <3>1, ShownIsScrolledNext DEF CursorOnScreen
  <2>7. CASE ~ (vga_cursor_x + 1 < VGA_WIDTH)
    BY <2>2, <2>5, <2>7, NewLineKeeps, ShownIsScrolledNext
  <2> QED
    BY <2>6, <2>7
<1> QED
  BY <1>2, <1>3, <1>4

\* The inductive invariant of the console.
THEOREM ConsoleInvariant == Spec => []IInv
<1>1. Init => IInv
  <2> SUFFICES ASSUME Init PROVE IInv
    OBVIOUS
  <2>1. /\ scrolls = 0 /\ esi = <<>> /\ vga_cursor_x = 0 /\ vga_cursor_y = 0
        /\ text = [i \in Cells |-> Bios(i)]
    BY DEF Init
  <2>2. \A i \in Cells : i \in Nat /\ i + 0 * VGA_WIDTH = i
    BY ScreenSize
  <2>3. IsScrolled(text, scrolls)
    BY <2>1, <2>2 DEF IsScrolled
  <2> QED
    BY <2>1, <2>3, ShownIsScrolled, ScreenSize DEF IInv, CursorOnScreen
<1>2. IInv /\ [Next]_vars => IInv'
  <2> SUFFICES ASSUME IInv, [Next]_vars PROVE IInv'
    OBVIOUS
  <2>0. IsScrolled(text, scrolls) /\ scrolls \in Nat /\ esi \in Seq(Chars)
    BY ShownIsScrolled DEF IInv
  <2>1. CASE vga_clear_screen
    <3>1. /\ text' = [i \in Cells |-> Space] /\ vga_cursor_x' = 0
          /\ vga_cursor_y' = 0 /\ scrolls' = 0 /\ esi' = esi
      BY <2>1 DEF vga_clear_screen
    <3>2. IsScrolled(text', scrolls')
      BY <3>1 DEF IsScrolled
    <3> QED
      BY <2>0, <3>1, <3>2, ShownIsScrolledNext, ScreenSize DEF IInv, CursorOnScreen
  <2>2. CASE \E c \in Chars : vga_print_char(c)
    <3>1. PICK c \in Chars : vga_print_char(c)
      BY <2>2
    <3>2. PrintChar(c) /\ esi' = esi
      BY <3>1 DEF vga_print_char
    <3> QED
      BY <2>0, <3>2, PrintKeeps DEF IInv
  <2>3. CASE \E s \in Strings : vga_print_string(s)
    <3>1. /\ esi' \in Strings
          /\ UNCHANGED <<text, vga_cursor_x, vga_cursor_y, scrolls>>
      BY <2>3 DEF vga_print_string
    <3>2. esi' \in Seq(Chars)
      BY <3>1, VgaAssumption
    <3>3. IsScrolled(text', scrolls')
      BY <2>0, <3>1
    <3> QED
      BY <3>1, <3>2, <3>3, ShownIsScrolledNext DEF IInv, CursorOnScreen
  <2>4. CASE NextChar
    <3>1. esi # <<>> /\ PrintChar(Head(esi)) /\ esi' = Tail(esi)
      BY <2>4 DEF NextChar
    <3>2. Head(esi) \in Chars /\ Tail(esi) \in Seq(Chars)
      BY <2>0, <3>1, HeadTailProperties
    <3> QED
      BY <3>1, <3>2, PrintKeeps DEF IInv
  <2>5. CASE vga_scroll_screen
    <3>1. /\ text' = Scrolled(text) /\ scrolls' = scrolls + 1
          /\ UNCHANGED <<vga_cursor_x, vga_cursor_y, esi>>
      BY <2>5 DEF vga_scroll_screen
    <3>2. IsScrolled(text', scrolls')
      BY <2>0, <3>1, ScrollAddsOne
    <3> QED
      BY <2>0, <3>1, <3>2, ShownIsScrolledNext DEF IInv, CursorOnScreen
  <2>6. CASE UNCHANGED vars
    <3>1. UNCHANGED <<text, vga_cursor_x, vga_cursor_y, esi, scrolls>>
      BY <2>6 DEF vars
    <3>2. IsScrolled(text', scrolls')
      BY <2>0, <3>1
    <3> QED
      BY <3>1, <3>2, ShownIsScrolledNext DEF IInv, CursorOnScreen
  <2> QED
    BY <2>1, <2>2, <2>3, <2>4, <2>5, <2>6 DEF Next
<1> QED
  BY <1>1, <1>2, PTL DEF Spec

\* The cursor stays on the screen through every wrap, scroll and backspace
\* (main.core.asm:980-1014), for every width and height.
THEOREM CursorStays == Spec => []CursorOnScreen
<1>1. IInv => CursorOnScreen
  BY DEF IInv
<1> QED
  BY <1>1, ConsoleInvariant, PTL

\* On every screen, no printed character ever reaches text memory: line 970
\* moves the attribute and the character into the register that holds the
\* address, so vga_print_char does not write the character at the cursor, as
\* its description in line 948 says.
THEOREM OnlyScrollsShow == Spec => []ScreenIsScrolledText
<1>1. IInv => ScreenIsScrolledText
  BY DEF IInv
<1> QED
  BY <1>1, ConsoleInvariant, PTL

\* So nothing is printed behind the cursor, and what was there is moved up by
\* the scrolls with blank rows below it.
THEOREM RestMovesUp == Spec => []TextBeforeCursor
<1>1. IInv => TextBeforeCursor
  BY DEF IInv, ScreenIsScrolledText, TextBeforeCursor
<1> QED
  BY <1>1, ConsoleInvariant, PTL

\* Every path through vga_print_char and vga_clear_screen ends in
\* vga_update_hw_cursor, which sends the high byte of the cursor's position
\* (main.core.asm:1073-1078), for every width and height.
THEOREM HwCursorInStep == Spec => []HwCursorFollows
<1>1. Init => HwCursorFollows
  BY DEF Init, HwCursorFollows
<1>2. HwCursorFollows /\ [Next]_vars => HwCursorFollows'
  <2> SUFFICES ASSUME HwCursorFollows, [Next]_vars PROVE HwCursorFollows'
    OBVIOUS
  <2>1. ASSUME NEW x, NEW y, CursorTo(x, y) PROVE HwCursorFollows'
    BY <2>1 DEF CursorTo, HwCursor, HwCursorFollows, Position
  <2>2. ASSUME NEW c, PrintChar(c) PROVE HwCursorFollows'
    <3>1. CASE c = BS
      <4>1. Backspace
        BY <2>2, <3>1 DEF PrintChar, BS, NL
      <4>2. PICK x : CursorTo(x, vga_cursor_y)
        BY <4>1 DEF Backspace
      <4> QED
        BY <2>1, <4>2
    <3>2. ASSUME NEW t, NewLine(t) PROVE HwCursorFollows'
      BY <2>1, <3>2 DEF NewLine
    <3>3. CASE c # BS /\ c = NL
      BY <2>2, <3>2, <3>3 DEF PrintChar
    <3>4. CASE c # BS /\ c # NL
      BY <2>1, <2>2, <3>2, <3>4 DEF PrintChar, Printable
    <3> QED
      BY <3>1, <3>3, <3>4
  <2>3. CASE UNCHANGED <<vga_cursor_x, vga_cursor_y, crtc>>
    BY <2>3 DEF HwCursorFollows, BiosCursor, Position
  <2>4. CASE vga_clear_screen
    BY <2>1, <2>4 DEF vga_clear_screen, CursorTo
  <2> QED
    BY <2>2, <2>3, <2>4 DEF Next, vars, vga_print_char, vga_print_string,
       NextChar, vga_scroll_screen
<1> QED
  BY <1>1, <1>2, PTL DEF Spec
=============================================================================
