---------------------------- MODULE Conversions ----------------------------
(***************************************************************************)
(* Numbers and their digits: utoa of kernel/string.c, hex_to_str of        *)
(* kernel/kernel.c, and the conversions of shell_printf and k_atoi in      *)
(* coresystem.c. A string of digits is the sequence of their values; a     *)
(* word has HexWidth hexadecimal digits (8 in the code).                   *)
(***************************************************************************)
EXTENDS Integers, Sequences, SequencesExt

CONSTANT HexWidth

\* A word is wider than a byte.
ASSUME ConversionsAssumption == HexWidth \in Nat /\ HexWidth > 1

Word ==
  LET power[k \in Nat] == IF k = 0 THEN 1 ELSE 16 * power[k - 1]
  IN  power[HexWidth]

\* What is left of v after k divisions by base; v >> (k * 4) for base 16.
Quotient(v, base, k) ==
  LET left[j \in Nat] == IF j = 0 THEN v ELSE left[j - 1] \div base
  IN  left[k]

Nibble(v, k) == Quotient(v, 16, k) % 16

\* The loops divide until nothing is left; a word has 4 * HexWidth bits, the
\* most digits it can have.
DigitCount(v, base) ==
  CHOOSE n \in 0 .. 4 * HexWidth :
    /\ Quotient(v, base, n) = 0
    /\ n > 0 => Quotient(v, base, n - 1) > 0

\* The digits of v > 0 as the loops find them, the last one first.
LowFirst(v, base) ==
  [k \in 1 .. DigitCount(v, base) |-> Quotient(v, base, k - 1) % base]

utoa(value, base) ==
  IF base \notin 2 .. 36 THEN <<>>
  ELSE IF value = 0 THEN <<0>>
  ELSE Reverse(LowFirst(value, base))

\* out[i + 2] takes digit i counted from the low end.
hex_to_str(n) == [i \in 1 .. HexWidth |-> Nibble(n, i - 1)]

\* A u32 passed for %d is read as an int.
Signed(v) == IF v < Word \div 2 THEN v ELSE v - Word

\* %d
Decimal(v) == [neg |-> Signed(v) < 0,
               digits |-> utoa(IF Signed(v) < 0 THEN Word - v ELSE v, 10)]

\* %x, %02x and %08x: the width is parsed and not used.
Hex(v) ==
  LET top == CHOOSE k \in 0 .. HexWidth - 1 :
               /\ k = 0 \/ Nibble(v, k) # 0
               /\ \A j \in k + 1 .. HexWidth - 1 : Nibble(v, j) = 0
  IN  [i \in 1 .. top + 1 |-> Nibble(v, top + 1 - i)]

\* Character codes of the digits and of '-'.
IsDigit(c) == c \in 48 .. 57
Minus == 45

\* k_atoi reads the digits before the first other character ...
DigitsOf(s) ==
  CHOOSE k \in 0 .. Len(s) : /\ \A j \in 1 .. k : IsDigit(s[j])
                             /\ k = Len(s) \/ ~ IsDigit(s[k + 1])

\* ... modulo a word.
NumberOf(s) ==
  LET n[k \in 0 .. DigitsOf(s)] ==
        IF k = 0 THEN 0 ELSE (n[k - 1] * 10 + (s[k] - 48)) % Word
  IN  n[DigitsOf(s)]

atoi(s) ==
  IF s # <<>> /\ s[1] = Minus THEN (Word - NumberOf(Tail(s))) % Word
  ELSE NumberOf(s)

\* What a string of digits says: the reference for all of the above.
Value(digits, base) ==
  LET n[k \in 0 .. Len(digits)] ==
        IF k = 0 THEN 0 ELSE n[k - 1] * base + digits[k]
  IN  n[Len(digits)]

\* A %d, sign included.
SignedValue(d) ==
  IF d.neg THEN -Value(d.digits, 10) ELSE Value(d.digits, 10)
=============================================================================
