---------------------------- MODULE MCCoreShell ----------------------------
(***************************************************************************)
(* Words of six hexadecimal digits, so that every intermediate value fits  *)
(* TLC's integers. Arguments in digits, signed, cut short by a letter, too *)
(* large for a word, empty and missing; lengths around one and two rows    *)
(* and beyond a byte; ticks around a minute, a day and the sign bit.       *)
(***************************************************************************)
EXTENDS CoreShell

Bytes(a) == (a * 7 + a \div 256) % 256

Code(n) == [k \in 1 .. Len(utoa(n, 10)) |-> 48 + utoa(n, 10)[k]]

Addresses ==
  {Code(0), Code(1000), Code(Word - 5), Code(Word + 3), <<Minus>> \o Code(2),
   Code(12) \o <<120>> \o Code(4), <<120>>, <<>>}

Lengths == {Code(n) : n \in {0, 1, 15, 16, 17, 33, 300}} \cup {<<>>}

ArgumentLists ==
  {<<>>} \cup {<<a>> : a \in Addresses}
         \cup {<<a, l>> : a \in Addresses, l \in Lengths}

Ticks ==
  {0, 49, 50, 2999, 3000, 179999, 180000, 4319999, 4320000,
   Word \div 2 - 1, Word \div 2, Word - 1}

Leftovers == {[c \in Columns |-> 0], [c \in Columns |-> 65 + c]}

\* utoa against the value of its digits, in every base, without leading
\* zeros (string.c:39-65); a base out of range gives the empty string.
ASSUME UtoaShowsItsNumber ==
  \A v \in 0 .. 300 \cup Ticks, base \in 2 .. 36 :
    /\ Value(utoa(v, base), base) = v
    /\ v > 0 => utoa(v, base)[1] # 0
    /\ utoa(v, 1) = <<>> /\ utoa(v, 37) = <<>>

\* hex_to_str stores the lowest digit first (kernel.c:12-14): what it shows
\* reads as the number only from right to left.
ASSUME HexToStrIsBackwards ==
  \A v \in 0 .. 300 \cup Ticks : Value(Reverse(hex_to_str(v)), 16) = v

\* What %d shows is what atoi reads, the lowest negative number apart from
\* its sign (coresystem.c:121-131, 169-178).
ASSUME AtoiReadsDecimal ==
  \A v \in 0 .. 300 \cup Ticks :
    LET d == Decimal(v)
        s == [k \in DOMAIN d.digits |-> 48 + d.digits[k]]
    IN  atoi(IF d.neg THEN <<Minus>> \o s ELSE s) = v
=============================================================================
