---------------------------- MODULE ShellProofs ----------------------------
(***************************************************************************)
(* Proofs about Shell, for any alphabet, buffer length, number of argument *)
(* slots and command table.                                                *)
(***************************************************************************)
EXTENDS Shell, SequenceTheorems, FiniteSetTheorems, WellFoundedInduction,
        TLAPS

Buffers == [Cells -> Chars \cup {NUL}]

Sealed(b) == b[MAX_CMD_LEN - 1] = NUL

LEMMA Size == MAX_CMD_LEN \in Nat /\ MAX_CMD_LEN >= 1
BY ShellAssumption

LEMMA LastCell == MAX_CMD_LEN - 1 \in Cells /\ Cells \subseteq Nat
BY Size DEF Cells

-----------------------------------------------------------------------------
(* Scans *)

\* A set of numbers that has an element has a least one.
LEMMA LeastExists ==
  ASSUME NEW S \in SUBSET Nat, S # {}
  PROVE  Min(S) \in S /\ \A y \in S : Min(S) <= y
<1> DEFINE R == OpToRel(<, Nat)
<1>1. IsWellFoundedOn(R, Nat)
  BY NatLessThanWellFounded, Zenon
<1>2. R = {ss \in Nat \X Nat : ss[1] < ss[2]}
  BY DEF OpToRel
<1> HIDE DEF R
<1>3. PICK x \in S : \A y \in S : ~(<<y, x>> \in R)
  BY <1>1, WFMin
<1>4. \A y \in S : x <= y
  <2> SUFFICES ASSUME NEW y \in S, y < x PROVE FALSE
    OBVIOUS
  <2>1. <<y, x>> \in R
    BY <1>2
  <2> QED
    BY <2>1, <1>3
<1> QED
  BY <1>4 DEF Min

\* A scan for NUL stops in the buffer, at the first one.
LEMMA StringEndIs ==
  ASSUME NEW b, Sealed(b), NEW s \in Cells
  PROVE  /\ StringEnd(b, s) \in Cells
         /\ s <= StringEnd(b, s)
         /\ b[StringEnd(b, s)] = NUL
         /\ \A i \in s .. StringEnd(b, s) - 1 : b[i] # NUL
<1> DEFINE S == {i \in s .. MAX_CMD_LEN - 1 : b[i] = NUL}
<1>1. s \in Nat /\ s <= MAX_CMD_LEN - 1 /\ MAX_CMD_LEN - 1 \in Nat
  BY Size DEF Cells
<1>2. S \in SUBSET Nat /\ MAX_CMD_LEN - 1 \in S
  BY <1>1 DEF Sealed
<1>3. Min(S) \in S /\ \A y \in S : Min(S) <= y
  BY <1>2, LeastExists
<1>4. StringEnd(b, s) = Min(S)
  BY DEF StringEnd
<1> HIDE DEF S
<1>5. StringEnd(b, s) \in S /\ \A y \in S : StringEnd(b, s) <= y
  BY <1>3, <1>4
<1>6. StringEnd(b, s) \in s .. MAX_CMD_LEN - 1 /\ b[StringEnd(b, s)] = NUL
  BY <1>5 DEF S
<1>7. ASSUME NEW i \in s .. StringEnd(b, s) - 1, b[i] = NUL PROVE FALSE
  <2>1. i \in S
    BY <1>1, <1>6, <1>7 DEF S
  <2> QED
    BY <1>1, <1>5, <1>6, <2>1
<1> QED
  BY <1>1, <1>6, <1>7 DEF Cells

\* StringEnd is the only cell with these properties.
LEMMA StringEndFrom ==
  ASSUME NEW b, Sealed(b), NEW s \in Cells, NEW e \in Cells, s <= e,
         b[e] = NUL, \A i \in s .. e - 1 : b[i] # NUL
  PROVE  StringEnd(b, s) = e
<1> DEFINE d == StringEnd(b, s)
<1>1. /\ d \in Cells /\ s <= d /\ b[d] = NUL
      /\ \A i \in s .. d - 1 : b[i] # NUL
  BY StringEndIs
<1>2. d \in Nat /\ e \in Nat /\ s \in Nat
  BY <1>1, LastCell
<1> HIDE DEF d
<1>3. ~(d < e)
  <2>1. d < e => d \in s .. e - 1
    BY <1>1, <1>2
  <2> QED
    BY <1>1, <2>1
<1>4. ~(e < d)
  <2>1. e < d => e \in s .. d - 1
    BY <1>2
  <2> QED
    BY <1>1, <2>1
<1> QED
  BY <1>2, <1>3, <1>4 DEF d

\* A scan for the end of a word stops in the buffer, too.
LEMMA TokenEndIs ==
  ASSUME NEW b, Sealed(b), NEW s \in Cells
  PROVE  /\ TokenEnd(b, s) \in Cells
         /\ s <= TokenEnd(b, s)
         /\ b[TokenEnd(b, s)] \in {Blank, NUL}
         /\ \A i \in s .. TokenEnd(b, s) - 1 : b[i] \notin {Blank, NUL}
<1> DEFINE S == {i \in s .. MAX_CMD_LEN - 1 : b[i] \in {Blank, NUL}}
<1>1. s \in Nat /\ s <= MAX_CMD_LEN - 1 /\ MAX_CMD_LEN - 1 \in Nat
  BY Size DEF Cells
<1>2. S \in SUBSET Nat /\ MAX_CMD_LEN - 1 \in S
  BY <1>1 DEF Sealed
<1>3. Min(S) \in S /\ \A y \in S : Min(S) <= y
  BY <1>2, LeastExists
<1>4. TokenEnd(b, s) = Min(S)
  BY DEF TokenEnd
<1> HIDE DEF S
<1>5. TokenEnd(b, s) \in S /\ \A y \in S : TokenEnd(b, s) <= y
  BY <1>3, <1>4
<1>6. TokenEnd(b, s) \in s .. MAX_CMD_LEN - 1 /\ b[TokenEnd(b, s)] \in {Blank, NUL}
  BY <1>5 DEF S
<1>7. ASSUME NEW i \in s .. TokenEnd(b, s) - 1, b[i] \in {Blank, NUL} PROVE FALSE
  <2>1. i \in S
    BY <1>1, <1>6, <1>7 DEF S
  <2> QED
    BY <1>1, <1>5, <1>6, <2>1
<1> QED
  BY <1>1, <1>6, <1>7 DEF Cells

\* Cutting the buffer at or behind the end of a string leaves the string.
LEMMA CutBehind ==
  ASSUME NEW b \in Buffers, Sealed(b), NEW s \in Cells, NEW e \in Cells,
         StringEnd(b, s) <= e
  PROVE  StringEnd([b EXCEPT ![e] = NUL], s) = StringEnd(b, s)
<1> DEFINE c == [b EXCEPT ![e] = NUL]
           d == StringEnd(b, s)
<1>1. /\ d \in Cells /\ s <= d /\ b[d] = NUL
      /\ \A i \in s .. d - 1 : b[i] # NUL
  BY StringEndIs
<1>2. \A i \in Cells : c[i] = IF i = e THEN NUL ELSE b[i]
  BY DEF Buffers
<1>3. s \in Nat /\ d \in Nat /\ e \in Nat /\ d <= e
  BY <1>1, LastCell
<1>4. Sealed(c)
  BY <1>2, LastCell DEF Sealed
<1>5. \A i \in s .. d - 1 : i \in Cells /\ i # e
  BY <1>1, <1>3, Size DEF Cells
<1>6. c[d] = NUL /\ \A i \in s .. d - 1 : c[i] # NUL
  BY <1>1, <1>2, <1>5
<1> HIDE DEF c, d
<1> QED
  BY <1>1, <1>4, <1>6, StringEndFrom DEF c, d

-----------------------------------------------------------------------------
(* strtok *)

\* One call of strtok on a sealed buffer.
LEMMA StrtokIs ==
  ASSUME NEW b \in Buffers, Sealed(b), NEW p \in Cells, NEW r, r = strtok(b, p)
  PROVE  /\ r.buffer \in Buffers /\ Sealed(r.buffer)
         /\ r.last \in Cells /\ p <= r.last
         /\ \A s \in Cells : StringEnd(b, s) <= p =>
              StringEnd(r.buffer, s) = StringEnd(b, s)
         /\ r.token \in {p, NULL}
         /\ r.token = p =>
              /\ StringEnd(r.buffer, p) <= r.last
              /\ r.buffer[r.last] # NUL => r.last = StringEnd(r.buffer, p) + 1
         /\ b[p] = NUL => r.token = NULL
<1>1. p \in Nat /\ p # NULL /\ Cells \subseteq Nat
  BY LastCell DEF NULL
<1>2. CASE b[p] = NUL
  <2>1. r = [token |-> NULL, last |-> p, buffer |-> b]
    BY <1>2 DEF strtok
  <2> QED
    BY <1>1, <1>2, <2>1
<1>3. CASE b[p] # NUL
  <2> DEFINE e == TokenEnd(b, p)
             c == [b EXCEPT ![e] = NUL]
  <2>1. /\ e \in Cells /\ p <= e /\ b[e] \in {Blank, NUL}
        /\ \A i \in p .. e - 1 : b[i] \notin {Blank, NUL}
    BY TokenEndIs
  <2>2. r = [token |-> p, last |-> IF b[e] = NUL THEN e ELSE e + 1, buffer |-> c]
    BY <1>3 DEF strtok
  <2>3. \A i \in Cells : c[i] = IF i = e THEN NUL ELSE b[i]
    BY DEF Buffers
  <2>4. c \in Buffers /\ Sealed(c)
    <3>1. c \in Buffers
      BY <2>1 DEF Buffers
    <3>2. Sealed(c)
      BY <2>3, LastCell DEF Sealed
    <3> QED
      BY <3>1, <3>2
  <2>5. e \in Nat
    BY <1>1, <2>1
  <2>6. ASSUME NEW s \in Cells, StringEnd(b, s) <= p
        PROVE  StringEnd(c, s) = StringEnd(b, s)
    <3>1. StringEnd(b, s) \in Nat
      BY <1>1, StringEndIs
    <3>2. StringEnd(b, s) <= e
      BY <1>1, <2>1, <2>5, <2>6, <3>1
    <3> QED
      BY <2>1, <3>2, CutBehind
  <2>7. StringEnd(c, p) = e
    <3>1. \A i \in p .. e - 1 : i \in Cells /\ i # e
      BY <1>1, <2>1, <2>5, Size DEF Cells
    <3>2. c[e] = NUL /\ \A i \in p .. e - 1 : c[i] # NUL
      BY <2>1, <2>3, <3>1
    <3> HIDE DEF c, e
    <3> QED
      BY <2>1, <2>4, <3>2, StringEndFrom
  <2>8. b[e] # NUL => e + 1 \in Cells
    <3>1. b[e] # NUL => e # MAX_CMD_LEN - 1
      BY DEF Sealed
    <3> QED
      BY <2>1, <2>5, <3>1, Size DEF Cells
  <2> HIDE DEF c, e
  <2>9. r.token = p /\ r.buffer = c /\ r.last = IF b[e] = NUL THEN e ELSE e + 1
    BY <2>2
  <2>10. r.last \in Cells /\ p <= r.last /\ e <= r.last
    BY <1>1, <2>1, <2>5, <2>8, <2>9
  <2>11. c[r.last] # NUL => r.last = e + 1
    <3>1. c[e] = NUL
      BY <2>1, <2>3
    <3> QED
      BY <2>9, <3>1
  <2> QED
    BY <1>1, <1>3, <2>4, <2>6, <2>7, <2>9, <2>10, <2>11
<1> QED
  BY <1>2, <1>3

-----------------------------------------------------------------------------
(* The line *)

Characters == Chars \cup {NUL}

\* The first n characters of the buffer b: Line is that of cmd_buffer.
LineOf(b, n) == [i \in 1 .. n |-> b[i - 1]]

LEMMA SameRange ==
  ASSUME NEW m \in Nat, NEW n \in Nat, 1 .. m = 1 .. n
  PROVE  m = n
<1>1. m >= 1 => m \in 1 .. n
  OBVIOUS
<1>2. n >= 1 => n \in 1 .. m
  OBVIOUS
<1> QED
  BY <1>1, <1>2

LEMMA LineIs ==
  ASSUME NEW b \in Buffers, NEW n \in Nat, n <= MAX_CMD_LEN
  PROVE  /\ LineOf(b, n) \in Seq(Characters)
         /\ Len(LineOf(b, n)) = n
         /\ \A i \in 1 .. n : LineOf(b, n)[i] = b[i - 1]
<1>1. \A i \in 1 .. n : i - 1 \in Cells /\ b[i - 1] \in Characters
  BY Size DEF Buffers, Characters, Cells
<1>2. /\ LineOf(b, n) \in [1 .. n -> Characters]
      /\ \A i \in 1 .. n : LineOf(b, n)[i] = b[i - 1]
  BY <1>1 DEF LineOf
<1>3. LineOf(b, n) \in Seq(Characters)
  BY <1>2, SeqDef
<1>4. DOMAIN LineOf(b, n) = 1 .. Len(LineOf(b, n)) /\ Len(LineOf(b, n)) \in Nat
  BY <1>3, LenProperties
<1>5. 1 .. Len(LineOf(b, n)) = 1 .. n
  BY <1>2, <1>4
<1>6. Len(LineOf(b, n)) = n
  BY <1>4, <1>5, SameRange
<1> QED
  BY <1>2, <1>3, <1>6

LEMMA LineTyped ==
  ASSUME NEW b \in Buffers, NEW n \in Nat, n + 1 <= MAX_CMD_LEN, NEW c \in Chars
  PROVE  LineOf([b EXCEPT ![n] = c], n + 1) = Append(LineOf(b, n), c)
<1> DEFINE d == [b EXCEPT ![n] = c]
           s == LineOf(b, n)
           t == LineOf(d, n + 1)
<1>1. n \in Cells /\ n <= MAX_CMD_LEN /\ n + 1 \in Nat
  BY Size DEF Cells
<1>2. d \in Buffers /\ \A i \in Cells : d[i] = IF i = n THEN c ELSE b[i]
  BY <1>1 DEF Buffers
<1> HIDE DEF d
<1>3. /\ s \in Seq(Characters) /\ Len(s) = n
      /\ \A i \in 1 .. n : s[i] = b[i - 1]
  BY <1>1, LineIs
<1>4. /\ t \in Seq(Characters) /\ Len(t) = n + 1
      /\ \A i \in 1 .. n + 1 : t[i] = d[i - 1]
  BY <1>1, <1>2, LineIs
<1>5. c \in Characters
  BY DEF Characters
<1> HIDE DEF s, t
<1>6. /\ Append(s, c) \in Seq(Characters) /\ Len(Append(s, c)) = n + 1
      /\ \A i \in 1 .. n : Append(s, c)[i] = s[i]
      /\ Append(s, c)[n + 1] = c
  BY <1>3, <1>5, AppendProperties
<1>7. ASSUME NEW i \in 1 .. n + 1 PROVE t[i] = Append(s, c)[i]
  <2>1. CASE i = n + 1
    <3>1. n + 1 - 1 = n /\ n + 1 \in 1 .. n + 1
      OBVIOUS
    <3>2. t[n + 1] = d[n]
      BY <1>4, <3>1
    <3> QED
      BY <1>1, <1>2, <1>6, <2>1, <3>2
  <2>2. CASE i # n + 1
    <3>1. i \in 1 .. n /\ i - 1 \in Cells /\ i - 1 # n
      BY <1>1, <2>2, Size DEF Cells
    <3>2. t[i] = d[i - 1]
      BY <1>4
    <3> QED
      BY <1>2, <1>3, <1>6, <3>1, <3>2
  <2> QED
    BY <2>1, <2>2
<1>8. t = Append(s, c)
  BY <1>4, <1>6, <1>7, SeqEqual
<1> QED
  BY <1>8 DEF s, t, d

LEMMA LineErased ==
  ASSUME NEW b \in Buffers, NEW n \in Nat, 0 < n, n <= MAX_CMD_LEN
  PROVE  LineOf(b, n - 1) = SubSeq(LineOf(b, n), 1, Len(LineOf(b, n)) - 1)
<1> DEFINE s == LineOf(b, n)
           t == LineOf(b, n - 1)
<1>1. n - 1 \in Nat /\ n - 1 <= MAX_CMD_LEN
  BY Size
<1>2. /\ s \in Seq(Characters) /\ Len(s) = n
      /\ \A i \in 1 .. n : s[i] = b[i - 1]
  BY LineIs
<1>3. /\ t \in Seq(Characters) /\ Len(t) = n - 1
      /\ \A i \in 1 .. n - 1 : t[i] = b[i - 1]
  BY <1>1, LineIs
<1> HIDE DEF s, t
<1>4. \A i \in 1 .. n - 1 : i \in 1 .. n
  OBVIOUS
<1>5. \A i \in 1 .. n - 1 : s[i] \in Characters
  BY <1>2, <1>4, ElementOfSeq
<1>6. /\ SubSeq(s, 1, n - 1) \in Seq(Characters)
      /\ Len(SubSeq(s, 1, n - 1)) = IF 1 <= n - 1 THEN n - 1 - 1 + 1 ELSE 0
      /\ \A i \in 1 .. n - 1 - 1 + 1 : SubSeq(s, 1, n - 1)[i] = s[1 + i - 1]
  BY <1>1, <1>5, SubSeqProperties
<1>7. Len(SubSeq(s, 1, n - 1)) = n - 1
  BY <1>1, <1>6
<1>8. \A i \in 1 .. n - 1 : SubSeq(s, 1, n - 1)[i] = s[i]
  BY <1>1, <1>6
<1>9. \A i \in 1 .. n - 1 : t[i] = SubSeq(s, 1, n - 1)[i]
  BY <1>2, <1>3, <1>4, <1>8
<1>10. t = SubSeq(s, 1, n - 1)
  BY <1>3, <1>6, <1>7, <1>9, SeqEqual
<1> QED
  BY <1>2, <1>10 DEF s, t

LEMMA LineEmpty == \A b : LineOf(b, 0) = <<>>
<1>1. 1 .. 0 = {}
  OBVIOUS
<1>2. ASSUME NEW b PROVE LineOf(b, 0) = [i \in {} |-> b[i - 1]]
  BY <1>1 DEF LineOf
<1> QED
  BY <1>2

-----------------------------------------------------------------------------
(* The invariant *)

\* The first n pointers of v are strings of b, each behind the one before,
\* that have ended when the position is p.
Strings(b, v, n, p) ==
  /\ \A i \in 0 .. n - 1 : v[i] \in Cells /\ StringEnd(b, v[i]) <= p
  /\ \A i \in 1 .. n - 1 : v[i] = StringEnd(b, v[i - 1]) + 1

\* Between two calls of strtok: what the buffer has been cut into so far,
\* and that the token at hand is the next piece.
Splitting ==
  pc = "split" =>
    /\ last \in Cells
    /\ Strings(cmd_buffer, argv, argc, last)
    /\ token # NULL =>
         /\ token \in Cells /\ StringEnd(cmd_buffer, token) <= last
         /\ cmd_buffer[last] # NUL =>
              last = StringEnd(cmd_buffer, token) + 1
         /\ argc > 0 => token = StringEnd(cmd_buffer, argv[argc - 1]) + 1

\* While a line runs the row of the next prompt is empty.
RowCleared == pc \notin {"start", "idle"} => row = <<>>

IInv ==
  /\ TypeOK
  /\ BufferSealed
  /\ EchoMatchesLine
  /\ RowCleared
  /\ Splitting
  /\ ArgvWellFormed

LEMMA LineIsLineOf == Line = LineOf(cmd_buffer, cmd_pos)
BY DEF Line, LineOf

LEMMA InvBuffer ==
  ASSUME IInv
  PROVE  /\ cmd_buffer \in Buffers /\ Sealed(cmd_buffer)
         /\ cmd_pos \in Cells /\ cmd_pos \in Nat /\ cmd_pos < MAX_CMD_LEN
         /\ argc \in Nat /\ MaxArgv \in Nat /\ MaxArgv >= 1 /\ argc < MaxArgv
         /\ Cells \subseteq Pointers /\ NULL \in Pointers
<1>1. MaxArgv \in Nat /\ MaxArgv >= 1
  BY ShellAssumption
<1>2. argc \in 0 .. MaxArgv - 1 /\ cmd_pos \in Cells
  BY DEF IInv, TypeOK
<1>3. argc \in Nat /\ argc < MaxArgv
  BY <1>1, <1>2
<1>4. cmd_pos \in Nat /\ cmd_pos < MAX_CMD_LEN
  BY <1>2, Size DEF Cells
<1>5. cmd_buffer \in Buffers /\ Sealed(cmd_buffer)
  BY DEF IInv, TypeOK, BufferSealed, Buffers, Sealed
<1> QED
  BY <1>1, <1>2, <1>3, <1>4, <1>5 DEF Pointers

LEMMA IInvInit == Init => IInv
<1> SUFFICES ASSUME Init PROVE IInv
  OBVIOUS
<1> USE DEF Init
<1>1. cmd_pos = 0 /\ 0 \in Cells
  BY Size DEF Cells
<1>2. cmd_buffer \in [Cells -> Chars \cup {NUL}] /\ BufferSealed
  BY LastCell DEF BufferSealed
<1>3. argc \in 0 .. MaxArgv - 1
  BY ShellAssumption
<1>4. argv \in [0 .. MaxArgv - 1 -> Pointers] /\ last \in Pointers
      /\ token \in Pointers
  BY DEF Pointers
<1>5. TypeOK
  BY <1>1, <1>2, <1>3, <1>4 DEF TypeOK
<1>6. EchoMatchesLine
  BY LineIsLineOf, LineEmpty DEF EchoMatchesLine
<1> QED
  BY <1>2, <1>5, <1>6 DEF IInv, RowCleared, Splitting, ArgvWellFormed

-----------------------------------------------------------------------------
(* The steps *)

\* A step that leaves the arguments alone and is not inside the splitting.
LEMMA OutsideSplitting ==
  ASSUME IInv, UNCHANGED args, pc' \in {"start", "idle", "prompt", "panic"},
         cmd_buffer' \in Buffers, Sealed(cmd_buffer'), cmd_pos' \in Cells,
         pc' \in {"start", "idle"} => row' = LineOf(cmd_buffer', cmd_pos'),
         pc' \notin {"start", "idle"} => row' = <<>>
  PROVE  IInv'
<1>1. TypeOK'
  BY DEF IInv, TypeOK, args, Buffers
<1>2. BufferSealed'
  BY DEF BufferSealed, Sealed
<1>3. Line' = LineOf(cmd_buffer', cmd_pos')
  BY DEF Line, LineOf
<1>4. EchoMatchesLine' /\ RowCleared'
  BY <1>3 DEF EchoMatchesLine, RowCleared
<1>5. Splitting' /\ ArgvWellFormed'
  BY DEF Splitting, ArgvWellFormed
<1> QED
  BY <1>1, <1>2, <1>4, <1>5 DEF IInv

LEMMA CharKeeps ==
  ASSUME IInv, NEW c \in Chars, KeyChar(c)
  PROVE  IInv'
<1>1. pc = "idle" /\ pc' = "idle" /\ UNCHANGED args
      /\ row = LineOf(cmd_buffer, cmd_pos)
  BY LineIsLineOf DEF KeyChar, IInv, EchoMatchesLine
<1>2. CASE RoomForChar
  <2>1. /\ cmd_buffer' = [cmd_buffer EXCEPT ![cmd_pos] = c]
        /\ cmd_pos' = cmd_pos + 1
        /\ row' = Append(row, c)
    BY <1>2 DEF KeyChar
  <2>2. /\ cmd_pos + 1 <= MAX_CMD_LEN /\ cmd_pos + 1 \in Cells
        /\ cmd_pos # MAX_CMD_LEN - 1
    BY <1>2, InvBuffer, Size DEF RoomForChar, Cells
  <2>3. row' = LineOf(cmd_buffer', cmd_pos')
    BY <1>1, <2>1, <2>2, InvBuffer, LineTyped
  <2>4. cmd_buffer' \in Buffers
    BY <2>1, InvBuffer DEF Buffers
  <2>5. Sealed(cmd_buffer')
    BY <2>1, <2>2, InvBuffer, LastCell DEF Sealed, Buffers
  <2> QED
    BY <1>1, <2>1, <2>2, <2>3, <2>4, <2>5, OutsideSplitting
<1>3. CASE ~RoomForChar
  <2>1. UNCHANGED <<cmd_buffer, cmd_pos, row>>
    BY <1>3 DEF KeyChar
  <2> QED
    BY <1>1, <2>1, InvBuffer, OutsideSplitting
<1> QED
  BY <1>2, <1>3

LEMMA BackspaceKeeps ==
  ASSUME IInv, KeyBackspace
  PROVE  IInv'
<1>1. pc = "idle" /\ pc' = "idle" /\ UNCHANGED <<cmd_buffer, args>>
      /\ row = LineOf(cmd_buffer, cmd_pos)
  BY LineIsLineOf DEF KeyBackspace, IInv, EchoMatchesLine
<1>2. CASE cmd_pos > 0
  <2>1. cmd_pos' = cmd_pos - 1 /\ row' = SubSeq(row, 1, Len(row) - 1)
    BY <1>2 DEF KeyBackspace
  <2>2. cmd_pos - 1 \in Cells /\ 0 < cmd_pos /\ cmd_pos <= MAX_CMD_LEN
    BY <1>2, InvBuffer, Size DEF Cells
  <2>3. row' = LineOf(cmd_buffer', cmd_pos')
    BY <1>1, <2>1, <2>2, InvBuffer, LineErased
  <2> QED
    BY <1>1, <2>1, <2>2, <2>3, InvBuffer, OutsideSplitting
<1>3. CASE ~(cmd_pos > 0)
  <2>1. UNCHANGED <<cmd_pos, row>>
    BY <1>3 DEF KeyBackspace
  <2> QED
    BY <1>1, <2>1, InvBuffer, OutsideSplitting
<1> QED
  BY <1>2, <1>3

LEMMA EnterKeeps ==
  ASSUME IInv, KeyEnter
  PROVE  IInv'
<1> DEFINE r == strtok(Terminated, 0)
<1>1. /\ pc' = "split" /\ row' = <<>> /\ argc' = 0 /\ argv' = argv
      /\ cmd_buffer' = r.buffer /\ last' = r.last /\ token' = r.token
      /\ cmd_pos' = cmd_pos
  BY DEF KeyEnter
<1>2. Terminated \in Buffers /\ Sealed(Terminated)
  BY InvBuffer, LastCell DEF Terminated, Buffers, Sealed
<1>3. 0 \in Cells
  BY Size DEF Cells
<1>4. /\ r.buffer \in Buffers /\ Sealed(r.buffer)
      /\ r.last \in Cells
      /\ r.token \in {0, NULL}
      /\ r.token = 0 =>
           /\ StringEnd(r.buffer, 0) <= r.last
           /\ r.buffer[r.last] # NUL => r.last = StringEnd(r.buffer, 0) + 1
  BY <1>2, <1>3, StrtokIs
<1> HIDE DEF r
<1>5. TypeOK'
  <2>1. argc' \in 0 .. MaxArgv - 1
    BY <1>1, InvBuffer
  <2>2. argv' \in [0 .. MaxArgv - 1 -> Pointers]
    BY <1>1 DEF IInv, TypeOK
  <2>3. last' \in Pointers /\ token' \in Pointers /\ cmd_pos' \in Cells
    BY <1>1, <1>3, <1>4, InvBuffer
  <2> QED
    BY <1>1, <1>4, <2>1, <2>2, <2>3 DEF TypeOK, Buffers
<1>6. Splitting'
  <2>1. Strings(cmd_buffer', argv', argc', last')
    <3>1. 0 .. 0 - 1 = {} /\ 1 .. 0 - 1 = {}
      OBVIOUS
    <3> QED
      BY <1>1, <3>1 DEF Strings
  <2>2. token' # NULL => token' = 0
    BY <1>1, <1>4
  <2>3. token' # NULL =>
          /\ token' \in Cells /\ StringEnd(cmd_buffer', token') <= last'
          /\ cmd_buffer'[last'] # NUL =>
               last' = StringEnd(cmd_buffer', token') + 1
    BY <1>1, <1>3, <1>4, <2>2
  <2> QED
    BY <1>1, <1>4, <2>1, <2>3 DEF Splitting
<1>7. BufferSealed' /\ EchoMatchesLine' /\ RowCleared' /\ ArgvWellFormed'
  BY <1>1, <1>4 DEF BufferSealed, Sealed, EchoMatchesLine, RowCleared,
                    ArgvWellFormed
<1> QED
  BY <1>5, <1>6, <1>7 DEF IInv

\* The token becomes the next argument, and strtok is called again.
LEMMA StoreKeeps ==
  ASSUME IInv, StoreArgument
  PROVE  IInv'
<1> DEFINE r == strtok(cmd_buffer, last)
<1>1. /\ pc = "split" /\ pc' = "split" /\ token # NULL /\ argc < MaxArgv - 1
      /\ argv' = [argv EXCEPT ![argc] = token] /\ argc' = argc + 1
      /\ cmd_buffer' = r.buffer /\ last' = r.last /\ token' = r.token
      /\ UNCHANGED <<cmd_pos, row>>
  BY DEF StoreArgument, MoreArguments
<1>2. /\ last \in Cells /\ token \in Cells
      /\ StringEnd(cmd_buffer, token) <= last
      /\ cmd_buffer[last] # NUL => last = StringEnd(cmd_buffer, token) + 1
      /\ argc > 0 => token = StringEnd(cmd_buffer, argv[argc - 1]) + 1
  BY <1>1 DEF IInv, Splitting
<1>3. /\ \A i \in 0 .. argc - 1 :
           argv[i] \in Cells /\ StringEnd(cmd_buffer, argv[i]) <= last
      /\ \A i \in 1 .. argc - 1 :
           argv[i] = StringEnd(cmd_buffer, argv[i - 1]) + 1
  BY <1>1 DEF IInv, Splitting, Strings
<1>4. /\ r.buffer \in Buffers /\ Sealed(r.buffer)
      /\ r.last \in Cells /\ last <= r.last
      /\ \A s \in Cells : StringEnd(cmd_buffer, s) <= last =>
           StringEnd(r.buffer, s) = StringEnd(cmd_buffer, s)
      /\ r.token \in {last, NULL}
      /\ r.token = last =>
           /\ StringEnd(r.buffer, last) <= r.last
           /\ r.buffer[r.last] # NUL => r.last = StringEnd(r.buffer, last) + 1
      /\ cmd_buffer[last] = NUL => r.token = NULL
  BY <1>2, InvBuffer, StrtokIs
<1> HIDE DEF r
<1>5. argc \in 0 .. MaxArgv - 1 /\ argc' \in 0 .. MaxArgv - 1 /\ argc \in Nat
  BY <1>1, InvBuffer
<1>6. /\ argv \in [0 .. MaxArgv - 1 -> Pointers]
      /\ argv' \in [0 .. MaxArgv - 1 -> Pointers]
      /\ argv'[argc] = token
      /\ \A i \in 0 .. argc - 1 : argv'[i] = argv[i]
  <2>1. argv \in [0 .. MaxArgv - 1 -> Pointers] /\ token \in Pointers
    BY DEF IInv, TypeOK
  <2>2. argv' \in [0 .. MaxArgv - 1 -> Pointers]
    BY <1>1, <2>1
  <2>3. argv'[argc] = token
    BY <1>1, <1>5, <2>1
  <2>4. ASSUME NEW i \in 0 .. argc - 1 PROVE argv'[i] = argv[i]
    <3>1. i \in 0 .. MaxArgv - 1 /\ i # argc
      BY <1>5, InvBuffer
    <3> QED
      BY <1>1, <2>1, <3>1
  <2> QED
    BY <2>1, <2>2, <2>3, <2>4
<1>7. TypeOK'
  <2>1. last' \in Pointers /\ token' \in Pointers /\ cmd_pos' \in Cells
    BY <1>1, <1>2, <1>4, InvBuffer
  <2> QED
    BY <1>1, <1>4, <1>5, <1>6, <2>1 DEF TypeOK, Buffers
<1>8. \A s \in Cells : StringEnd(cmd_buffer, s) <= last =>
        /\ StringEnd(r.buffer, s) = StringEnd(cmd_buffer, s)
        /\ StringEnd(r.buffer, s) <= r.last
  <2> SUFFICES ASSUME NEW s \in Cells, StringEnd(cmd_buffer, s) <= last
               PROVE  /\ StringEnd(r.buffer, s) = StringEnd(cmd_buffer, s)
                      /\ StringEnd(r.buffer, s) <= r.last
    OBVIOUS
  <2>1. StringEnd(cmd_buffer, s) \in Nat /\ last \in Nat /\ r.last \in Nat
    BY <1>2, <1>4, InvBuffer, StringEndIs, LastCell
  <2> QED
    BY <1>4, <2>1
<1>9. Strings(cmd_buffer', argv', argc', last')
  <2>1. ASSUME NEW i \in 0 .. argc' - 1
        PROVE  argv'[i] \in Cells /\ StringEnd(r.buffer, argv'[i]) <= r.last
    <3>1. i \in 0 .. argc - 1 \/ i = argc
      BY <1>1, <1>5
    <3> QED
      BY <1>2, <1>3, <1>6, <1>8, <3>1
  <2>2. ASSUME NEW i \in 1 .. argc' - 1
        PROVE  argv'[i] = StringEnd(r.buffer, argv'[i - 1]) + 1
    <3>1. i - 1 \in 0 .. argc - 1
      BY <1>1, <1>5
    <3>2. StringEnd(r.buffer, argv'[i - 1]) = StringEnd(cmd_buffer, argv[i - 1])
      BY <1>3, <1>6, <1>8, <3>1
    <3>3. CASE i = argc
      BY <1>2, <1>5, <1>6, <3>2, <3>3
    <3>4. CASE i # argc
      <4>1. i \in 1 .. argc - 1 /\ i \in 0 .. argc - 1
        BY <1>1, <1>5, <3>4
      <4> QED
        BY <1>3, <1>6, <3>2, <4>1
    <3> QED
      BY <3>3, <3>4
  <2> QED
    BY <1>1, <2>1, <2>2 DEF Strings
<1>10. Splitting'
  <2> SUFFICES ASSUME token' # NULL
               PROVE  /\ token' \in Cells
                      /\ StringEnd(r.buffer, token') <= r.last
                      /\ r.buffer[r.last] # NUL =>
                           r.last = StringEnd(r.buffer, token') + 1
                      /\ token' = StringEnd(r.buffer, argv'[argc' - 1]) + 1
    BY <1>1, <1>4, <1>9 DEF Splitting
  <2>1. token' = last /\ cmd_buffer[last] # NUL
    BY <1>1, <1>4
  <2>2. last = StringEnd(cmd_buffer, token) + 1
    BY <1>2, <2>1
  <2>3. argc' - 1 = argc
    BY <1>1, <1>5
  <2>4. StringEnd(r.buffer, token) = StringEnd(cmd_buffer, token)
    BY <1>2, <1>8
  <2>5. token' = StringEnd(r.buffer, argv'[argc' - 1]) + 1
    BY <1>6, <2>1, <2>2, <2>3, <2>4
  <2> QED
    BY <1>1, <1>2, <1>4, <2>1, <2>5
<1>11. BufferSealed' /\ EchoMatchesLine' /\ RowCleared' /\ ArgvWellFormed'
  BY <1>1, <1>4 DEF IInv, BufferSealed, Sealed, EchoMatchesLine, RowCleared,
                    ArgvWellFormed
<1> QED
  BY <1>7, <1>10, <1>11 DEF IInv

\* The NULL behind the last argument.
LEMMA EndKeeps ==
  ASSUME IInv, EndArguments
  PROVE  IInv'
<1>1. /\ pc = "split" /\ pc' \in {"prompt", "dispatch"}
      /\ pc' = "dispatch" => argc # 0
      /\ argv' = [argv EXCEPT ![argc] = NULL]
      /\ UNCHANGED <<cmd_buffer, cmd_pos, last, token, argc, row>>
  BY DEF EndArguments
<1>2. argc \in 0 .. MaxArgv - 1 /\ argc \in Nat /\ MaxArgv \in Nat
  BY InvBuffer
<1>3. argv \in [0 .. MaxArgv - 1 -> Pointers] /\ NULL \in Pointers
  BY InvBuffer DEF IInv, TypeOK
<1>4. /\ argv' \in [0 .. MaxArgv - 1 -> Pointers]
      /\ argv'[argc] = NULL
  BY <1>1, <1>2, <1>3
<1>5. ASSUME NEW i \in 0 .. argc - 1 PROVE argv'[i] = argv[i]
  <2>1. i \in 0 .. MaxArgv - 1 /\ i # argc
    BY <1>2
  <2> QED
    BY <1>1, <1>3, <2>1
<1>6. TypeOK'
  BY <1>1, <1>4 DEF IInv, TypeOK
<1>7. /\ \A i \in 0 .. argc - 1 : argv[i] \in Cells
      /\ \A i \in 1 .. argc - 1 :
           argv[i] = StringEnd(cmd_buffer, argv[i - 1]) + 1
  BY <1>1 DEF IInv, Splitting, Strings
<1>8. ArgvWellFormed'
  <2>1. \A i \in 0 .. argc - 1 : argv'[i] \in Cells
    BY <1>5, <1>7
  <2>2. ASSUME NEW i \in 1 .. argc - 1
        PROVE  argv'[i] = StringEnd(cmd_buffer, argv'[i - 1]) + 1
    <3>1. i \in 0 .. argc - 1 /\ i - 1 \in 0 .. argc - 1
      BY <1>2
    <3> QED
      BY <1>5, <1>7, <3>1
  <2>3. pc' = "dispatch" => argc > 0
    BY <1>1, <1>2
  <2> QED
    BY <1>1, <1>4, <2>1, <2>2, <2>3 DEF ArgvWellFormed
<1>9. BufferSealed' /\ EchoMatchesLine' /\ RowCleared' /\ Splitting'
  BY <1>1 DEF IInv, BufferSealed, EchoMatchesLine, RowCleared, Splitting
<1> QED
  BY <1>6, <1>8, <1>9 DEF IInv

\* A command leaves line and arguments alone, and the row empty.
LEMMA CommandKeeps ==
  ASSUME IInv, Command \/ CommandNotFound
  PROVE  IInv'
<1>1. /\ pc = "dispatch" /\ pc' \in {"prompt", "panic"}
      /\ UNCHANGED <<cmd_buffer, cmd_pos, args>>
      /\ row' \in {row, <<>>}
  BY DEF Command, CommandNotFound, Calls, cmd_help, cmd_echo, cmd_memstat,
         cmd_clear, cmd_panic_test
<1>2. row = <<>>
  BY <1>1 DEF IInv, RowCleared
<1> QED
  BY <1>1, <1>2, InvBuffer, OutsideSplitting

LEMMA IInvNext == IInv /\ [Next]_vars => IInv'
<1> SUFFICES ASSUME IInv, [Next]_vars PROVE IInv'
  OBVIOUS
<1>1. CASE shell_main_loop
  <2>1. /\ pc = "start" /\ pc' = "idle"
        /\ UNCHANGED <<cmd_buffer, cmd_pos, args, row>>
    BY <1>1 DEF shell_main_loop
  <2>2. row = LineOf(cmd_buffer, cmd_pos)
    BY <2>1, LineIsLineOf DEF IInv, EchoMatchesLine
  <2> QED
    BY <2>1, <2>2, InvBuffer, OutsideSplitting
<1>2. ASSUME NEW c \in Chars, KeyChar(c) PROVE IInv'
  BY <1>2, CharKeeps
<1>3. CASE KeyBackspace
  BY <1>3, BackspaceKeeps
<1>4. CASE KeyEnterEmpty
  <2>1. /\ pc' = "prompt" /\ row' = <<>>
        /\ UNCHANGED <<cmd_buffer, cmd_pos, args>>
    BY <1>4 DEF KeyEnterEmpty
  <2> QED
    BY <2>1, InvBuffer, OutsideSplitting
<1>5. CASE KeyEnter
  BY <1>5, EnterKeeps
<1>6. CASE StoreArgument
  BY <1>6, StoreKeeps
<1>7. CASE EndArguments
  BY <1>7, EndKeeps
<1>8. CASE Command \/ CommandNotFound
  BY <1>8, CommandKeeps
<1>9. CASE Prompt
  <2>1. /\ pc = "prompt" /\ pc' = "idle" /\ cmd_pos' = 0
        /\ UNCHANGED <<cmd_buffer, args, row>>
    BY <1>9 DEF Prompt
  <2>2. row = <<>> /\ 0 \in Cells
    BY <2>1, Size DEF IInv, RowCleared, Cells
  <2>3. row' = LineOf(cmd_buffer', cmd_pos')
    BY <2>1, <2>2, LineEmpty
  <2> QED
    BY <2>1, <2>2, <2>3, InvBuffer, OutsideSplitting
<1>10. CASE UNCHANGED vars
  BY <1>10 DEF IInv, TypeOK, BufferSealed, EchoMatchesLine, RowCleared,
     Splitting, Strings, ArgvWellFormed, Line, StringEnd, vars, args
<1> QED
  BY <1>1, <1>2, <1>3, <1>4, <1>5, <1>6, <1>7, <1>8, <1>9, <1>10
  DEF Next, Key, Handler

\* What holds between any two steps of the shell.
THEOREM ShellInvariant == Spec => []IInv
BY IInvInit, IInvNext, PTL DEF Spec

-----------------------------------------------------------------------------
(* The words of a line, as CommandLine counts them                         *)

Count(l, p) == Cardinality(CL!Before(l, p))

LEMMA StartsAreFinite ==
  ASSUME NEW l \in Seq(Chars)
  PROVE  /\ Len(l) \in Nat /\ CL!Starts(l) \subseteq 1 .. Len(l)
         /\ IsFiniteSet(CL!Starts(l)) /\ Cardinality(CL!Starts(l)) \in Nat
         /\ \A p : /\ CL!Before(l, p) \subseteq CL!Starts(l)
                   /\ IsFiniteSet(CL!Before(l, p)) /\ Count(l, p) \in Nat
                   /\ Count(l, p) <= Cardinality(CL!Starts(l))
<1>1. Len(l) \in Nat /\ 1 \in Int /\ Len(l) \in Int
  BY LenProperties
<1>2. CL!Starts(l) \subseteq 1 .. Len(l)
  BY DEF CL!Starts
<1>3. IsFiniteSet(1 .. Len(l))
  BY <1>1, FS_Interval
<1>4. IsFiniteSet(CL!Starts(l))
  BY <1>2, <1>3, FS_Subset
<1>5. ASSUME NEW p
      PROVE  /\ CL!Before(l, p) \subseteq CL!Starts(l)
             /\ IsFiniteSet(CL!Before(l, p)) /\ Count(l, p) \in Nat
             /\ Count(l, p) <= Cardinality(CL!Starts(l))
  <2>1. CL!Before(l, p) \subseteq CL!Starts(l)
    BY DEF CL!Before
  <2> QED
    BY <2>1, <1>4, FS_Subset, FS_CardinalityType DEF Count
<1> QED
  BY <1>1, <1>2, <1>4, <1>5, FS_CardinalityType

\* A word more starts before q than before p if one starts at p, and none
\* between them.
LEMMA NextCount ==
  ASSUME NEW l \in Seq(Chars), NEW p \in CL!Starts(l), NEW q,
         CL!Before(l, q) = CL!Before(l, p) \cup {p}
  PROVE  Count(l, q) = Count(l, p) + 1
<1>1. IsFiniteSet(CL!Before(l, p))
  BY StartsAreFinite
<1>2. p \notin CL!Before(l, p)
  <2>1. p \in Int
    BY StartsAreFinite
  <2> QED
    BY <2>1 DEF CL!Before
<1> QED
  BY <1>1, <1>2, FS_AddElement DEF Count

\* The number of words that start before it tells a start from the others.
LEMMA CountTells ==
  ASSUME NEW l \in Seq(Chars), NEW p \in CL!Starts(l), NEW q \in CL!Starts(l),
         Count(l, p) = Count(l, q)
  PROVE  p = q
<1>1. ASSUME NEW a \in CL!Starts(l), NEW b \in CL!Starts(l), a < b
      PROVE  Count(l, a) # Count(l, b)
  <2>1. a \in Int /\ b \in Int
    BY StartsAreFinite
  <2> DEFINE A == CL!Before(l, a)
             B == CL!Before(l, b)
  <2>2. IsFiniteSet(A) /\ a \notin A /\ Cardinality(A) \in Nat
    <3>1. IsFiniteSet(A) /\ Cardinality(A) \in Nat
      BY StartsAreFinite DEF Count
    <3>2. a \notin A
      BY <2>1 DEF CL!Before
    <3> QED
      BY <3>1, <3>2
  <2>3. IsFiniteSet(B) /\ Cardinality(B) \in Nat
    BY StartsAreFinite DEF Count
  <2>4. A \cup {a} \subseteq B
    <3>1. a \in B
      BY <1>1 DEF CL!Before
    <3>2. ASSUME NEW x \in A PROVE x \in B
      <4>1. x \in CL!Starts(l) /\ x < a
        BY DEF CL!Before
      <4>2. x \in Int
        BY <4>1, StartsAreFinite
      <4>3. x < b
        BY <1>1, <2>1, <4>1, <4>2
      <4> QED
        BY <4>1, <4>3 DEF CL!Before
    <3> QED
      BY <3>1, <3>2
  <2> HIDE DEF A, B
  <2>5. Cardinality(A \cup {a}) = Cardinality(A) + 1
    BY <2>2, FS_AddElement
  <2>6. Cardinality(A \cup {a}) <= Cardinality(B)
    BY <2>3, <2>4, FS_Subset
  <2>7. Cardinality(A) # Cardinality(B)
    BY <2>2, <2>3, <2>5, <2>6
  <2> QED
    BY <2>7 DEF Count, A, B
<1>2. p \in Int /\ q \in Int
  BY StartsAreFinite
<1> QED
  BY <1>1, <1>2

\* A word that no blank is in up to e ends at e.
LEMMA WordEndIs ==
  ASSUME NEW l \in Seq(Chars), NEW p \in 1 .. Len(l), NEW e \in Nat,
         p <= e, e <= Len(l) + 1, e = Len(l) + 1 \/ l[e] = Blank,
         \A i \in p .. e - 1 : l[i] # Blank
  PROVE  CL!WordEnd(l, p) = e
<1> DEFINE S == {i \in p .. Len(l) : l[i] = Blank} \cup {Len(l) + 1}
<1>1. Len(l) \in Nat /\ p \in Nat
  BY LenProperties
<1>2. S \in SUBSET Nat /\ e \in S
  BY <1>1
<1>3. Min(S) \in S /\ \A y \in S : Min(S) <= y
  BY <1>2, LeastExists
<1>4. ASSUME NEW y \in S PROVE e <= y
  BY <1>1, <1>4
<1>5. CL!WordEnd(l, p) = Min(S)
  BY DEF CL!WordEnd, CL!Min, Min
<1> HIDE DEF S
<1>6. Min(S) <= e /\ e <= Min(S) /\ Min(S) \in Nat
  BY <1>2, <1>3, <1>4
<1> QED
  BY <1>5, <1>6

LEMMA WordEndBounds ==
  ASSUME NEW l \in Seq(Chars), NEW p \in 1 .. Len(l)
  PROVE  CL!WordEnd(l, p) \in p .. Len(l) + 1
<1> DEFINE S == {i \in p .. Len(l) : l[i] = Blank} \cup {Len(l) + 1}
<1>1. Len(l) \in Nat /\ p \in Nat /\ p <= Len(l)
  BY LenProperties
<1>2. S \in SUBSET Nat /\ S # {}
  BY <1>1
<1>3. Min(S) \in S
  BY <1>2, LeastExists
<1>4. CL!WordEnd(l, p) = Min(S)
  BY DEF CL!WordEnd, CL!Min, Min
<1>5. S \subseteq p .. Len(l) + 1
  BY <1>1
<1> QED
  BY <1>3, <1>4, <1>5

LEMMA WordAtIs ==
  ASSUME NEW l \in Seq(Chars), NEW p \in 1 .. Len(l)
  PROVE  /\ CL!WordAt(l, p) \in Seq(Chars)
         /\ Len(CL!WordAt(l, p)) = CL!WordEnd(l, p) - p
         /\ \A i \in 1 .. CL!WordEnd(l, p) - p : CL!WordAt(l, p)[i] = l[p + i - 1]
<1> DEFINE e == CL!WordEnd(l, p)
<1>1. e \in p .. Len(l) + 1
  BY WordEndBounds
<1>2. Len(l) \in Nat /\ p \in Int /\ e \in Int /\ e - 1 \in Int /\ p >= 1
  BY <1>1, LenProperties
<1> HIDE DEF e
<1>3. \A i \in p .. e - 1 : i \in 1 .. Len(l)
  BY <1>1, <1>2
<1>4. \A i \in p .. e - 1 : l[i] \in Chars
  BY <1>3, ElementOfSeq
<1>5. /\ SubSeq(l, p, e - 1) \in Seq(Chars)
      /\ Len(SubSeq(l, p, e - 1)) = IF p <= e - 1 THEN e - 1 - p + 1 ELSE 0
      /\ \A i \in 1 .. e - 1 - p + 1 : SubSeq(l, p, e - 1)[i] = l[p + i - 1]
  BY <1>2, <1>4, SubSeqProperties
<1>6. Len(SubSeq(l, p, e - 1)) = e - p /\ e - 1 - p + 1 = e - p
  BY <1>1, <1>2, <1>5
<1> QED
  BY <1>5, <1>6 DEF CL!WordAt, e

-----------------------------------------------------------------------------
(* The line in the buffer                                                  *)

\* The buffer b holds the line l, cut at the blanks before p.
CutTo(b, l, p) ==
  /\ l \in Seq(Chars) /\ Len(l) > 0 /\ Len(l) < MAX_CMD_LEN
  /\ p \in 0 .. Len(l)
  /\ b[Len(l)] = NUL
  /\ \A i \in 1 .. Len(l) :
       b[i - 1] = IF l[i] = Blank /\ i <= p THEN NUL ELSE l[i]

\* The string at s in b is the word of l that n others start before.
HoldsWord(b, l, s, n) ==
  /\ s + 1 \in CL!Starts(l) /\ Count(l, s + 1) = n
  /\ StringAt(b, s) = CL!WordAt(l, s + 1)

\* strtok finds the word that starts where it left off, cuts it off and
\* leaves its pointer at the start of the next one, or at the line's end.
LEMMA StrtokCuts ==
  ASSUME NEW b \in Buffers, Sealed(b), NEW l, NEW p, CutTo(b, l, p),
         b[p] # NUL, p + 1 \in CL!Starts(l), NEW r, r = strtok(b, p)
  PROVE  /\ r.token = p /\ p < r.last /\ CutTo(r.buffer, l, r.last)
         /\ r.last = Len(l) \/ l[r.last] = Blank
         /\ CL!Before(l, r.last + 1) = CL!Before(l, p + 1) \cup {p + 1}
         /\ StringAt(r.buffer, p) = CL!WordAt(l, p + 1)
<1> DEFINE e == TokenEnd(b, p)
           c == [b EXCEPT ![e] = NUL]
           n == Len(l)
<1>1. /\ l \in Seq(Chars) /\ n \in Nat /\ n > 0 /\ n < MAX_CMD_LEN
      /\ MAX_CMD_LEN \in Nat /\ p \in Nat /\ p <= n /\ b[n] = NUL
      /\ \A i \in 1 .. n :
           b[i - 1] = IF l[i] = Blank /\ i <= p THEN NUL ELSE l[i]
  BY Size, LenProperties DEF CutTo
<1>2. p < n /\ p \in Cells /\ n \in Cells /\ \A i \in 1 .. n : i - 1 \in Cells
  BY <1>1 DEF Cells
<1>3. /\ e \in Cells /\ e \in Nat /\ p <= e /\ b[e] \in {Blank, NUL}
      /\ \A i \in p .. e - 1 : b[i] \notin {Blank, NUL}
  BY <1>2, TokenEndIs, LastCell
<1>4. \A i \in Cells : c[i] = IF i = e THEN NUL ELSE b[i]
  BY DEF Buffers
<1>5. \A i \in 1 .. n : l[i] \in Chars /\ l[i] # NUL
  BY <1>1, ElementOfSeq, ShellAssumption
<1>6. r = [token |-> p, last |-> IF b[e] = NUL THEN e ELSE e + 1, buffer |-> c]
  BY DEF strtok
<1>7. c \in Buffers /\ Sealed(c)
  <2>1. c \in Buffers
    BY <1>3 DEF Buffers
  <2>2. Sealed(c)
    BY <1>4, LastCell DEF Sealed
  <2> QED
    BY <2>1, <2>2
<1> HIDE DEF e, c, n
<1>8. e <= n
  <2> SUFFICES ASSUME n < e PROVE FALSE
    BY <1>1, <1>3
  <2>1. n \in p .. e - 1
    BY <1>1, <1>3
  <2> QED
    BY <1>1, <1>3, <2>1
<1>9. ASSUME NEW i \in p + 1 .. e PROVE l[i] # Blank /\ b[i - 1] = l[i]
  <2>1. i \in 1 .. n /\ i - 1 \in p .. e - 1 /\ ~(i <= p)
    BY <1>1, <1>3, <1>8
  <2> QED
    BY <1>1, <1>3, <2>1
<1>10. e < n => b[e] = l[e + 1] /\ l[e + 1] = Blank /\ b[e] # NUL
  <2>1. e < n => e + 1 \in 1 .. n /\ ~(e + 1 <= p) /\ (e + 1) - 1 = e
    BY <1>1, <1>3
  <2> QED
    BY <1>1, <1>3, <1>5, <2>1
<1> DEFINE last1 == IF b[e] = NUL THEN e ELSE e + 1
<1>11. /\ r.token = p /\ r.buffer = c /\ r.last = last1
       /\ last1 = IF e < n THEN e + 1 ELSE n
  BY <1>1, <1>3, <1>6, <1>8, <1>10
<1> HIDE DEF last1
<1>12. last1 \in Nat /\ e <= last1 /\ last1 <= n /\ last1 <= e + 1
       /\ (e < n => last1 = e + 1) /\ (~(e < n) => last1 = n /\ e = n)
  BY <1>1, <1>3, <1>8, <1>11
<1>13. p < last1
  BY <1>1, <1>2, <1>3, <1>12
<1>14. last1 = n \/ l[last1] = Blank
  BY <1>10, <1>12
<1>15. CutTo(c, l, last1)
  <2>1. c[n] = NUL
    BY <1>1, <1>2, <1>4
  <2>2. ASSUME NEW i \in 1 .. n
        PROVE  c[i - 1] = IF l[i] = Blank /\ i <= last1 THEN NUL ELSE l[i]
    <3>1. c[i - 1] = IF i - 1 = e THEN NUL ELSE b[i - 1]
      BY <1>2, <1>4
    <3>2. b[i - 1] = IF l[i] = Blank /\ i <= p THEN NUL ELSE l[i]
      BY <1>1
    <3>3. CASE i <= p
      <4>1. i - 1 # e /\ i <= last1
        BY <1>1, <1>3, <1>12, <1>13, <3>3
      <4> QED
        BY <3>1, <3>2, <3>3, <4>1
    <3>4. CASE p < i /\ i <= e
      <4>1. i - 1 # e /\ l[i] # Blank /\ b[i - 1] = l[i]
        BY <1>1, <1>3, <1>9, <3>4
      <4> QED
        BY <3>1, <4>1
    <3>5. CASE i = e + 1
      <4>1. e < n /\ i - 1 = e
        BY <1>1, <1>3, <3>5
      <4>2. l[i] = Blank /\ i <= last1
        BY <1>3, <1>10, <1>12, <3>5, <4>1
      <4> QED
        BY <3>1, <4>1, <4>2
    <3>6. CASE e + 1 < i
      <4>1. i - 1 # e /\ ~(i <= last1) /\ ~(i <= p)
        BY <1>1, <1>3, <1>12, <3>6
      <4> QED
        BY <3>1, <3>2, <4>1
    <3> QED
      BY <1>1, <1>3, <3>3, <3>4, <3>5, <3>6
  <2>3. last1 \in 0 .. n
    BY <1>1, <1>12
  <2> QED
    BY <1>1, <2>1, <2>2, <2>3 DEF CutTo, n
<1>16. CL!Before(l, last1 + 1) = CL!Before(l, p + 1) \cup {p + 1}
  <2>1. ASSUME NEW q \in CL!Starts(l)
        PROVE  q < last1 + 1 <=> q < p + 1 \/ q = p + 1
    <3>1. q \in 1 .. n /\ (q = 1 \/ l[q - 1] = Blank)
      BY DEF CL!Starts, n
    <3>2. p + 1 < last1 + 1
      BY <1>1, <1>12, <1>13
    <3>3. ASSUME q < last1 + 1, p + 1 < q PROVE FALSE
      <4>1. q - 1 \in p + 1 .. e /\ q # 1
        BY <1>1, <1>3, <1>12, <3>1, <3>3
      <4> QED
        BY <1>9, <3>1, <4>1
    <3> QED
      BY <1>1, <1>12, <3>1, <3>2, <3>3
  <2> QED
    BY <2>1 DEF CL!Before
<1>17. StringEnd(c, p) = e
  <2>1. \A i \in p .. e - 1 : i \in Cells /\ i # e
    BY <1>1, <1>3, <1>8 DEF Cells
  <2>2. c[e] = NUL /\ \A i \in p .. e - 1 : c[i] # NUL
    BY <1>3, <1>4, <2>1
  <2> QED
    BY <1>2, <1>3, <1>7, <2>2, StringEndFrom
<1>18. CL!WordEnd(l, p + 1) = e + 1
  <2>1. p + 1 \in 1 .. Len(l) /\ e + 1 \in Nat /\ p + 1 <= e + 1
    BY <1>1, <1>2, <1>3 DEF n
  <2>2. e + 1 <= Len(l) + 1 /\ (e + 1 = Len(l) + 1 \/ l[e + 1] = Blank)
    BY <1>1, <1>3, <1>8, <1>10 DEF n
  <2>3. ASSUME NEW q, q = p + 1, NEW f, f = e + 1 PROVE CL!WordEnd(l, q) = f
    <3>1. q \in 1 .. Len(l) /\ f \in Nat /\ q <= f
      BY <2>1, <2>3
    <3>2. f <= Len(l) + 1 /\ (f = Len(l) + 1 \/ l[f] = Blank)
      BY <2>2, <2>3
    <3>3. ASSUME NEW i \in q .. f - 1 PROVE l[i] # Blank
      <4>1. i \in p + 1 .. e
        BY <1>3, <2>3
      <4> QED
        BY <1>9, <4>1
    <3> QED
      BY <1>1, <3>1, <3>2, <3>3, WordEndIs
  <2> QED
    BY <2>3
<1>19. StringAt(c, p) = CL!WordAt(l, p + 1)
  <2> DEFINE w == CL!WordAt(l, p + 1)
  <2>1. p + 1 \in 1 .. Len(l)
    BY <1>1, <1>2 DEF n
  <2>2. /\ w \in Seq(Chars) /\ Len(w) = (e + 1) - (p + 1)
        /\ \A i \in 1 .. (e + 1) - (p + 1) : w[i] = l[(p + 1) + i - 1]
    BY <1>1, <1>18, <2>1, WordAtIs
  <2> HIDE DEF w
  <2>3. (e + 1) - (p + 1) = e - p
    BY <1>1, <1>3
  <2>4. w = [i \in 1 .. e - p |-> w[i]]
    BY <2>2, <2>3, LenProperties
  <2>5. ASSUME NEW i \in 1 .. e - p PROVE w[i] = c[p + i - 1]
    <3>1. /\ p + i \in p + 1 .. e /\ p + i - 1 \in Cells /\ p + i - 1 # e
          /\ (p + 1) + i - 1 = p + i
      BY <1>1, <1>3, <1>8 DEF Cells
    <3>2. b[p + i - 1] = l[p + i]
      <4>1. PICK k \in p + 1 .. e : k = p + i
        BY <3>1
      <4>2. b[k - 1] = l[k]
        BY <1>9
      <4>3. k - 1 = p + i - 1
        BY <1>1, <4>1
      <4> QED
        BY <4>1, <4>2, <4>3
    <3>3. c[p + i - 1] = b[p + i - 1]
      BY <1>4, <3>1
    <3>4. w[i] = l[(p + 1) + i - 1]
      BY <2>2, <2>3
    <3> QED
      BY <3>1, <3>2, <3>3, <3>4
  <2>6. StringAt(c, p) = [i \in 1 .. e - p |-> c[p + i - 1]]
    BY <1>17 DEF StringAt
  <2>7. [i \in 1 .. e - p |-> c[p + i - 1]] = [i \in 1 .. e - p |-> w[i]]
    BY <2>5
  <2> QED
    BY <2>4, <2>6, <2>7 DEF w
<1> QED
  BY <1>11, <1>13, <1>14, <1>15, <1>16, <1>19 DEF n

\* A string that has ended stays what it is when strtok goes on.
LEMMA StringKept ==
  ASSUME NEW b \in Buffers, Sealed(b), NEW p \in Cells, NEW r, r = strtok(b, p),
         NEW s \in Cells, StringEnd(b, s) <= p
  PROVE  StringAt(r.buffer, s) = StringAt(b, s)
<1> DEFINE d == StringEnd(b, s)
           e == TokenEnd(b, p)
<1>1. StringEnd(r.buffer, s) = d
  BY StrtokIs
<1>2. s \in Nat /\ d \in Nat /\ s <= d /\ d <= p /\ p \in Nat /\ d \in Cells
  BY StringEndIs, LastCell
<1>3. \A j \in Cells : j < p => r.buffer[j] = b[j]
  <2>1. CASE b[p] = NUL
    BY <2>1 DEF strtok
  <2>2. CASE b[p] # NUL
    <3>1. e \in Cells /\ e \in Nat /\ p <= e
      BY TokenEndIs, LastCell
    <3>2. r.buffer = [b EXCEPT ![e] = NUL]
      BY <2>2 DEF strtok
    <3> HIDE DEF e
    <3>3. \A j \in Cells : r.buffer[j] = IF j = e THEN NUL ELSE b[j]
      BY <3>2 DEF Buffers
    <3>4. ASSUME NEW j \in Cells, j < p PROVE r.buffer[j] = b[j]
      <4>1. j \in Nat /\ j # e
        BY <1>2, <3>1, <3>4, LastCell
      <4> QED
        BY <3>3, <4>1
    <3> QED
      BY <3>4
  <2> QED
    BY <2>1, <2>2
<1> HIDE DEF d
<1>4. ASSUME NEW i \in 1 .. d - s PROVE r.buffer[s + i - 1] = b[s + i - 1]
  <2>1. s + i - 1 \in Cells /\ s + i - 1 < p
    BY <1>2, Size DEF Cells
  <2> QED
    BY <1>3, <2>1
<1>5. StringAt(r.buffer, s) = [i \in 1 .. d - s |-> r.buffer[s + i - 1]]
  BY <1>1 DEF StringAt
<1>6. StringAt(b, s) = [i \in 1 .. d - s |-> b[s + i - 1]]
  BY DEF StringAt, d
<1> QED
  BY <1>4, <1>5, <1>6

\* strcmp finds equal what is equal.
LEMMA StrcmpIs ==
  ASSUME NEW s \in Seq(Chars), NEW t \in Seq(Chars)
  PROVE  strcmp(s, t) <=> s = t
<1> DEFINE S == {i \in 1 .. Len(s) + 1 :
                   Char(s, i) = NUL \/ Char(s, i) # Char(t, i)}
           d == Min(S)
<1>1. Len(s) \in Nat /\ Len(t) \in Nat
  BY LenProperties
<1>2. /\ \A i \in 1 .. Len(s) : s[i] \in Chars /\ s[i] # NUL
      /\ \A i \in 1 .. Len(t) : t[i] \in Chars /\ t[i] # NUL
  BY ElementOfSeq, ShellAssumption
<1>3. S \in SUBSET Nat /\ Len(s) + 1 \in S
  BY <1>1 DEF Char
<1>4. d \in S /\ \A y \in S : d <= y
  BY <1>3, LeastExists
<1>5. strcmp(s, t) <=> Char(s, d) = Char(t, d)
  BY DEF strcmp
<1> HIDE DEF d
<1>6. d \in 1 .. Len(s) + 1 /\ d \in Nat
  BY <1>1, <1>4
<1>7. ASSUME Char(s, d) = Char(t, d) PROVE s = t
  <2>1. Char(s, d) = NUL
    BY <1>4, <1>7
  <2>2. d = Len(s) + 1
    BY <1>1, <1>2, <1>6, <2>1 DEF Char
  <2>3. ~(d <= Len(t))
    BY <1>1, <1>2, <1>6, <1>7, <2>1 DEF Char
  <2>4. ASSUME NEW i \in 1 .. Len(s) PROVE Char(s, i) = Char(t, i)
    <3>1. i \in 1 .. Len(s) + 1 /\ ~(d <= i)
      BY <1>1, <2>2
    <3> QED
      BY <1>4, <3>1
  <2>5. ASSUME NEW i \in 1 .. Len(s) PROVE i <= Len(t) /\ s[i] = t[i]
    <3>1. Char(s, i) = s[i] /\ s[i] # NUL
      BY <1>1, <1>2 DEF Char
    <3> QED
      BY <2>4, <3>1 DEF Char
  <2>6. Len(s) = Len(t)
    <3>1. Len(s) > 0 => Len(s) \in 1 .. Len(s)
      BY <1>1
    <3> QED
      BY <1>1, <2>2, <2>3, <2>5, <3>1
  <2> QED
    BY <2>5, <2>6, SeqEqual
<1> QED
  BY <1>5, <1>7

-----------------------------------------------------------------------------
(* The line that runs                                                      *)

\* While a line is cut up and run, argv holds its first words.
WordsInArgv ==
  pc \in {"split", "dispatch"} =>
    /\ CutTo(cmd_buffer, job, last)
    /\ \A i \in 0 .. argc - 1 : HoldsWord(cmd_buffer, job, argv[i], i)

\* The token is the word behind those, and strtok's pointer is where the one
\* behind the token starts; without a token there are no more words.
NextWord ==
  pc = "split" =>
    IF token = NULL THEN Cardinality(CL!Starts(job)) = argc
    ELSE /\ HoldsWord(cmd_buffer, job, token, argc)
         /\ token < last
         /\ CL!Before(job, last + 1) = CL!Before(job, token + 1) \cup {token + 1}
         /\ last = Len(job) \/ job[last] = Blank

\* A command is called with all the words, or with as many as argv has room for.
AllWords ==
  pc = "dispatch" =>
    argc = IF Cardinality(CL!Starts(job)) < MaxArgv - 1
             THEN Cardinality(CL!Starts(job)) ELSE MaxArgv - 1

\* What has been typed are characters; where no line runs, none is kept, and
\* where none has run, nothing is printed.
TypedLine == pc \in {"start", "idle"} => Line \in Seq(Chars)

JobStates ==
  /\ pc \in {"start", "idle"} => job = <<>>
  /\ pc \in {"start", "idle", "split", "dispatch"} => out = NoOutput
  /\ pc = "prompt" =>
       (out = NoOutput /\ job = <<>>) \/ (out # NoOutput /\ out.func # "panic")

JInv == WordsInArgv /\ NextWord /\ AllWords /\ TypedLine /\ JobStates

\* The first word of a line starts with it.
LEMMA FirstStart ==
  ASSUME NEW l \in Seq(Chars), Len(l) > 0
  PROVE  1 \in CL!Starts(l) /\ Count(l, 1) = 0
<1>1. Len(l) \in Nat
  BY LenProperties
<1>2. 1 \in CL!Starts(l)
  BY <1>1 DEF CL!Starts
<1>3. CL!Before(l, 1) = {}
  BY <1>1 DEF CL!Before, CL!Starts
<1> QED
  BY <1>2, <1>3, FS_EmptySet DEF Count

LEMMA JInvInit == Init => JInv
<1> SUFFICES ASSUME Init PROVE JInv
  OBVIOUS
<1>1. Line = <<>>
  BY LineIsLineOf, LineEmpty DEF Init
<1> QED
  BY <1>1 DEF Init, JInv, WordsInArgv, NextWord, AllWords, TypedLine, JobStates

\* A step between key presses, which leaves what was typed.
LEMMA TypingKeeps ==
  ASSUME pc' \in {"start", "idle"}, job' = <<>>, out' = NoOutput,
         Line' \in Seq(Chars)
  PROVE  JInv'
BY DEF JInv, WordsInArgv, NextWord, AllWords, TypedLine, JobStates

LEMMA CharKeepsJob ==
  ASSUME IInv, JInv, NEW c \in Chars, KeyChar(c)
  PROVE  JInv'
<1>1. /\ pc = "idle" /\ pc' = "idle" /\ UNCHANGED <<out, job>>
      /\ Line \in Seq(Chars) /\ job = <<>> /\ out = NoOutput
  BY DEF KeyChar, JInv, TypedLine, JobStates
<1>2. Line' \in Seq(Chars)
  <2>1. Line' = LineOf(cmd_buffer', cmd_pos')
    BY DEF Line, LineOf
  <2>2. CASE RoomForChar
    <3>1. /\ cmd_buffer' = [cmd_buffer EXCEPT ![cmd_pos] = c]
          /\ cmd_pos' = cmd_pos + 1
      BY <2>2 DEF KeyChar
    <3>2. cmd_pos + 1 <= MAX_CMD_LEN
      BY <2>2, InvBuffer, Size DEF RoomForChar
    <3>3. Line' = Append(Line, c)
      BY <2>1, <3>1, <3>2, InvBuffer, LineTyped, LineIsLineOf
    <3> QED
      BY <1>1, <3>3, AppendProperties
  <2>3. CASE ~RoomForChar
    BY <1>1, <2>1, <2>3, LineIsLineOf DEF KeyChar
  <2> QED
    BY <2>2, <2>3
<1> QED
  BY <1>1, <1>2, TypingKeeps

LEMMA BackspaceKeepsJob ==
  ASSUME IInv, JInv, KeyBackspace
  PROVE  JInv'
<1>1. /\ pc = "idle" /\ pc' = "idle" /\ UNCHANGED <<cmd_buffer, out, job>>
      /\ Line \in Seq(Chars) /\ job = <<>> /\ out = NoOutput
  BY DEF KeyBackspace, JInv, TypedLine, JobStates
<1>2. Line' \in Seq(Chars)
  <2>1. Line' = LineOf(cmd_buffer, cmd_pos')
    BY <1>1 DEF Line, LineOf
  <2>2. CASE cmd_pos > 0
    <3>1. cmd_pos' = cmd_pos - 1 /\ 0 < cmd_pos /\ cmd_pos <= MAX_CMD_LEN
      BY <2>2, InvBuffer, Size DEF KeyBackspace
    <3>2. Line' = SubSeq(Line, 1, Len(Line) - 1)
      BY <2>1, <3>1, InvBuffer, LineErased, LineIsLineOf
    <3>3. Len(Line) \in Nat /\ \A i \in 1 .. Len(Line) - 1 : Line[i] \in Chars
      BY <1>1, LenProperties, ElementOfSeq
    <3>4. Len(Line) - 1 \in Int /\ 1 \in Int
      BY <3>3
    <3> QED
      BY <3>2, <3>3, <3>4, SubSeqProperties
  <2>3. CASE ~(cmd_pos > 0)
    BY <1>1, <2>1, <2>3, LineIsLineOf DEF KeyBackspace
  <2> QED
    BY <2>2, <2>3
<1> QED
  BY <1>1, <1>2, TypingKeeps

\* Enter hands the line over with its first word cut off.
LEMMA EnterKeepsJob ==
  ASSUME IInv, JInv, KeyEnter
  PROVE  JInv'
<1> DEFINE b == Terminated
           r == strtok(b, 0)
<1>1. /\ pc = "idle" /\ cmd_pos > 0 /\ pc' = "split" /\ argc' = 0 /\ argv' = argv
      /\ cmd_buffer' = r.buffer /\ last' = r.last /\ token' = r.token
      /\ job' = Line /\ out' = out
  BY DEF KeyEnter
<1>2. Line \in Seq(Chars) /\ out = NoOutput
  BY <1>1 DEF JInv, TypedLine, JobStates
<1>3. /\ Len(Line) = cmd_pos /\ \A i \in 1 .. cmd_pos : Line[i] = cmd_buffer[i - 1]
      /\ cmd_pos \in Nat /\ cmd_pos < MAX_CMD_LEN /\ cmd_pos \in Cells
      /\ cmd_buffer \in Buffers /\ MAX_CMD_LEN \in Nat
  <2>1. /\ cmd_pos \in Nat /\ cmd_pos < MAX_CMD_LEN /\ cmd_pos \in Cells
        /\ cmd_buffer \in Buffers /\ MAX_CMD_LEN \in Nat
        /\ cmd_pos <= MAX_CMD_LEN
    BY InvBuffer, Size
  <2>2. /\ Len(LineOf(cmd_buffer, cmd_pos)) = cmd_pos
        /\ \A i \in 1 .. cmd_pos : LineOf(cmd_buffer, cmd_pos)[i] = cmd_buffer[i - 1]
    BY <2>1, LineIs
  <2> QED
    BY <2>1, <2>2, LineIsLineOf
<1>4. b \in Buffers /\ Sealed(b)
  BY InvBuffer, LastCell DEF Terminated, Buffers, Sealed
<1>5. \A i \in Cells : b[i] = IF i = cmd_pos THEN NUL ELSE cmd_buffer[i]
  BY <1>3 DEF Terminated, Buffers
<1> HIDE DEF b
<1>6. ASSUME NEW i \in 1 .. cmd_pos PROVE b[i - 1] = Line[i]
  <2>1. i - 1 \in Cells /\ i - 1 # cmd_pos
    BY <1>3 DEF Cells
  <2> QED
    BY <1>3, <1>5, <2>1
<1>7. CutTo(b, Line, 0)
  <2>1. b[cmd_pos] = NUL
    BY <1>3, <1>5
  <2>2. \A i \in 1 .. cmd_pos : ~(i <= 0)
    BY <1>3
  <2> QED
    BY <1>1, <1>2, <1>3, <1>6, <2>1, <2>2 DEF CutTo
<1>8. 1 \in CL!Starts(Line) /\ Count(Line, 1) = 0
  BY <1>1, <1>2, <1>3, FirstStart
<1>9. b[0] # NUL
  <2>1. 1 \in 1 .. cmd_pos /\ Line[1] \in Chars
    BY <1>1, <1>2, <1>3, ElementOfSeq
  <2>2. b[1 - 1] = Line[1]
    BY <1>6, <2>1
  <2> QED
    BY <2>1, <2>2, ShellAssumption
<1>10. /\ r.token = 0 /\ 0 < r.last /\ CutTo(r.buffer, Line, r.last)
       /\ r.last = Len(Line) \/ Line[r.last] = Blank
       /\ CL!Before(Line, r.last + 1) = CL!Before(Line, 0 + 1) \cup {0 + 1}
       /\ StringAt(r.buffer, 0) = CL!WordAt(Line, 0 + 1)
  <2>1. ASSUME NEW p, p = 0
        PROVE  /\ r.token = p /\ p < r.last /\ CutTo(r.buffer, Line, r.last)
               /\ r.last = Len(Line) \/ Line[r.last] = Blank
               /\ CL!Before(Line, r.last + 1) = CL!Before(Line, p + 1) \cup {p + 1}
               /\ StringAt(r.buffer, p) = CL!WordAt(Line, p + 1)
    <3>1. CutTo(b, Line, p) /\ b[p] # NUL /\ p + 1 \in CL!Starts(Line)
          /\ r = strtok(b, p)
      BY <1>7, <1>8, <1>9, <2>1
    <3> HIDE DEF r
    <3> QED
      BY <1>4, <3>1, StrtokCuts
  <2> QED
    BY <2>1
<1> HIDE DEF r
<1>11. 0 # NULL /\ 0 + 1 = 1
  BY DEF NULL
<1>12. WordsInArgv'
  <2>1. 0 .. 0 - 1 = {}
    OBVIOUS
  <2> QED
    BY <1>1, <1>10, <2>1 DEF WordsInArgv
<1>13. NextWord'
  BY <1>1, <1>8, <1>10, <1>11 DEF NextWord, HoldsWord
<1>14. AllWords' /\ TypedLine' /\ JobStates'
  BY <1>1, <1>2 DEF AllWords, TypedLine, JobStates
<1> QED
  BY <1>12, <1>13, <1>14 DEF JInv

\* strtok's token becomes an argument, and the next word is cut off.
LEMMA StoreKeepsJob ==
  ASSUME IInv, JInv, StoreArgument
  PROVE  JInv'
<1> DEFINE b == cmd_buffer
           p == last
           r == strtok(b, p)
           l == job
<1>1. /\ pc = "split" /\ pc' = "split" /\ token # NULL /\ argc < MaxArgv - 1
      /\ argv' = [argv EXCEPT ![argc] = token] /\ argc' = argc + 1
      /\ cmd_buffer' = r.buffer /\ last' = r.last /\ token' = r.token
      /\ job' = l /\ out' = out
  BY DEF StoreArgument, MoreArguments
<1>2. /\ p \in Cells /\ token \in Cells /\ StringEnd(b, token) <= p
      /\ \A i \in 0 .. argc - 1 : argv[i] \in Cells /\ StringEnd(b, argv[i]) <= p
  BY <1>1 DEF IInv, Splitting, Strings
<1>3. /\ CutTo(b, l, p) /\ \A i \in 0 .. argc - 1 : HoldsWord(b, l, argv[i], i)
      /\ HoldsWord(b, l, token, argc) /\ token < p
      /\ CL!Before(l, p + 1) = CL!Before(l, token + 1) \cup {token + 1}
      /\ p = Len(l) \/ l[p] = Blank
  BY <1>1 DEF JInv, WordsInArgv, NextWord
<1>4. b \in Buffers /\ Sealed(b) /\ argc \in Nat /\ MaxArgv \in Nat
  BY InvBuffer
<1>5. /\ l \in Seq(Chars) /\ Len(l) \in Nat /\ p \in 0 .. Len(l) /\ b[Len(l)] = NUL
      /\ p \in Nat /\ token \in Nat /\ p <= Len(l) /\ token + 1 \in CL!Starts(l)
      /\ Count(l, token + 1) = argc
  BY <1>2, <1>3, LenProperties, LastCell DEF CutTo, HoldsWord
<1>6. Count(l, p + 1) = argc + 1
  BY <1>3, <1>5, NextCount
<1>7. \A s \in Cells : StringEnd(b, s) <= p =>
        StringAt(r.buffer, s) = StringAt(b, s)
  BY <1>2, <1>4, StringKept
<1>8. /\ argv'[argc] = token /\ \A i \in 0 .. argc - 1 : argv'[i] = argv[i]
  <2>1. argv \in [0 .. MaxArgv - 1 -> Pointers] /\ argc \in 0 .. MaxArgv - 1
    BY DEF IInv, TypeOK
  <2>2. \A i \in 0 .. argc - 1 : i \in 0 .. MaxArgv - 1 /\ i # argc
    BY <1>1, <1>4
  <2> QED
    BY <1>1, <2>1, <2>2
<1>9. \A i \in 0 .. argc' - 1 : HoldsWord(r.buffer, l, argv'[i], i)
  <2> SUFFICES ASSUME NEW i \in 0 .. argc' - 1
               PROVE  HoldsWord(r.buffer, l, argv'[i], i)
    OBVIOUS
  <2>1. i \in 0 .. argc - 1 \/ i = argc
    BY <1>1, <1>4
  <2>2. ASSUME NEW s \in Cells, StringEnd(b, s) <= p, HoldsWord(b, l, s, i)
        PROVE  HoldsWord(r.buffer, l, s, i)
    BY <1>7, <2>2 DEF HoldsWord
  <2> HIDE DEF r, b, p, l
  <2>3. CASE i \in 0 .. argc - 1
    BY <1>2, <1>3, <1>8, <2>2, <2>3
  <2>4. CASE i = argc
    BY <1>2, <1>3, <1>8, <2>2, <2>4
  <2> QED
    BY <2>1, <2>3, <2>4
<1>10. CASE b[p] = NUL
  <2>1. r.token = NULL /\ r.last = p /\ r.buffer = b
    BY <1>10 DEF strtok
  <2>2. p = Len(l)
    <3> SUFFICES ASSUME p < Len(l) PROVE FALSE
      BY <1>5
    <3>1. p + 1 \in 1 .. Len(l) /\ ~(p + 1 <= p) /\ (p + 1) - 1 = p
      BY <1>5
    <3>2. b[p] = l[p + 1] /\ l[p + 1] \in Chars
      BY <1>3, <1>5, <3>1, ElementOfSeq DEF CutTo
    <3> QED
      BY <1>10, <3>2, ShellAssumption
  <2>3. CL!Before(l, p + 1) = CL!Starts(l)
    <3>1. \A q \in CL!Starts(l) : q < p + 1
      BY <1>5, <2>2 DEF CL!Starts
    <3> QED
      BY <3>1 DEF CL!Before
  <2>4. Cardinality(CL!Starts(l)) = argc + 1
    BY <1>6, <2>3 DEF Count
  <2>5. WordsInArgv'
    BY <1>1, <1>3, <1>9, <2>1 DEF WordsInArgv
  <2>6. NextWord'
    BY <1>1, <2>1, <2>4 DEF NextWord
  <2> QED
    BY <1>1, <2>5, <2>6 DEF JInv, AllWords, TypedLine, JobStates
<1>11. CASE b[p] # NUL
  <2>1. p # Len(l) /\ p + 1 \in 1 .. Len(l) /\ l[p] = Blank /\ (p + 1) - 1 = p
    BY <1>3, <1>5, <1>11
  <2>2. p + 1 \in CL!Starts(l)
    BY <2>1 DEF CL!Starts
  <2>3. /\ r.token = p /\ p < r.last /\ CutTo(r.buffer, l, r.last)
        /\ r.last = Len(l) \/ l[r.last] = Blank
        /\ CL!Before(l, r.last + 1) = CL!Before(l, p + 1) \cup {p + 1}
        /\ StringAt(r.buffer, p) = CL!WordAt(l, p + 1)
    BY <1>3, <1>4, <1>11, <2>2, StrtokCuts
  <2> HIDE DEF r, b, p, l
  <2>4. WordsInArgv'
    BY <1>1, <1>9, <2>3 DEF WordsInArgv
  <2>5. p # NULL
    BY <1>2, LastCell DEF NULL
  <2>6. NextWord'
    BY <1>1, <1>6, <2>2, <2>3, <2>5 DEF NextWord, HoldsWord
  <2>7. AllWords' /\ TypedLine' /\ JobStates'
    BY <1>1 DEF JInv, AllWords, TypedLine, JobStates
  <2> QED
    BY <2>4, <2>6, <2>7 DEF JInv
<1> QED
  BY <1>10, <1>11

\* The loop ends with the last word, or with the last place of argv.
LEMMA EndKeepsJob ==
  ASSUME IInv, JInv, EndArguments
  PROVE  JInv' /\ pc' = "dispatch"
<1> DEFINE n == Cardinality(CL!Starts(job))
<1>1. /\ pc = "split" /\ ~MoreArguments /\ argv' = [argv EXCEPT ![argc] = NULL]
      /\ pc' = IF argc = 0 THEN "prompt" ELSE "dispatch"
      /\ UNCHANGED <<cmd_buffer, last, argc, job, out>>
  BY DEF EndArguments
<1>2. /\ CutTo(cmd_buffer, job, last)
      /\ \A i \in 0 .. argc - 1 : HoldsWord(cmd_buffer, job, argv[i], i)
      /\ IF token = NULL THEN n = argc
         ELSE token + 1 \in CL!Starts(job) /\ Count(job, token + 1) = argc
  BY <1>1 DEF JInv, WordsInArgv, NextWord, HoldsWord
<1>3. job \in Seq(Chars) /\ Len(job) > 0
  BY <1>2 DEF CutTo
<1>4. argc \in Nat /\ MaxArgv \in Nat /\ MaxArgv > 1 /\ argc < MaxArgv
  BY InvBuffer, TableAssumption
<1>5. n \in Nat /\ argc <= n
  BY <1>2, <1>3, <1>4, StartsAreFinite
<1>6. n # 0
  <2>1. 1 \in CL!Starts(job) /\ IsFiniteSet(CL!Starts(job))
    BY <1>3, FirstStart, StartsAreFinite
  <2> QED
    BY <2>1, FS_EmptySet
<1>7. n = argc \/ argc = MaxArgv - 1
  BY <1>1, <1>2, <1>4 DEF MoreArguments
<1>8. argc # 0 /\ argc = IF n < MaxArgv - 1 THEN n ELSE MaxArgv - 1
  BY <1>4, <1>5, <1>6, <1>7
<1>9. \A i \in 0 .. argc - 1 : argv'[i] = argv[i]
  <2>1. argv \in [0 .. MaxArgv - 1 -> Pointers]
    BY DEF IInv, TypeOK
  <2>2. \A i \in 0 .. argc - 1 : i \in 0 .. MaxArgv - 1 /\ i # argc
    BY <1>4
  <2> QED
    BY <1>1, <2>1, <2>2
<1>10. pc' = "dispatch"
  BY <1>1, <1>8
<1>11. WordsInArgv'
  BY <1>1, <1>2, <1>9, <1>10 DEF WordsInArgv
<1>12. AllWords'
  BY <1>1, <1>8 DEF AllWords
<1>13. NextWord' /\ TypedLine' /\ JobStates'
  BY <1>1, <1>10 DEF JInv, NextWord, TypedLine, JobStates
<1> QED
  BY <1>10, <1>11, <1>12, <1>13 DEF JInv

\* A command leaves its output for the person to read.
LEMMA CommandKeepsJob ==
  ASSUME JInv, Command \/ CommandNotFound
  PROVE  JInv'
<1>1. ASSUME NEW f, NEW w, f \notin {"none", "panic"}, pc' = "prompt",
             out' = [func |-> f, words |-> w]
      PROVE  pc' = "prompt" /\ out' # NoOutput /\ out'.func # "panic"
  <2>1. out'.func = f /\ NoOutput.func = "none"
    BY <1>1 DEF NoOutput
  <2> QED
    BY <1>1, <2>1
<1>2. CASE cmd_panic_test
  <2>1. pc' = "panic"
    BY <1>2 DEF cmd_panic_test
  <2> QED
    BY <2>1 DEF JInv, WordsInArgv, NextWord, AllWords, TypedLine, JobStates
<1>3. CASE cmd_help \/ cmd_echo \/ cmd_memstat \/ cmd_clear \/ CommandNotFound
  <2>1. pc' = "prompt" /\ out' # NoOutput /\ out'.func # "panic"
    <3>1. CASE cmd_help
      BY <3>1, <1>1 DEF cmd_help
    <3>2. CASE cmd_echo
      <4>1. pc' = "prompt" /\ out' = [func |-> "echo", words |-> EchoedArguments]
        BY <3>2 DEF cmd_echo
      <4> QED
        BY <4>1, <1>1
    <3>3. CASE cmd_memstat
      BY <3>3, <1>1 DEF cmd_memstat
    <3>4. CASE cmd_clear
      BY <3>4, <1>1 DEF cmd_clear
    <3>5. CASE CommandNotFound
      <4>1. pc' = "prompt" /\ out' = [func |-> "not found", words |-> <<Arg(0)>>]
        BY <3>5 DEF CommandNotFound
      <4>2. out'.func = "not found"
        BY <4>1
      <4>3. NoOutput.func = "none"
        BY DEF NoOutput
      <4> QED
        BY <4>1, <4>2, <4>3
    <3> QED
      BY <1>3, <3>1, <3>2, <3>3, <3>4, <3>5
  <2> QED
    BY <2>1 DEF JInv, WordsInArgv, NextWord, AllWords, TypedLine, JobStates
<1> QED
  BY <1>2, <1>3 DEF Command

LEMMA JInvNext == IInv /\ JInv /\ [Next]_vars => JInv'
<1> SUFFICES ASSUME IInv, JInv, [Next]_vars PROVE JInv'
  OBVIOUS
<1>1. CASE shell_main_loop
  <2>1. /\ pc = "start" /\ pc' = "idle"
        /\ UNCHANGED <<cmd_buffer, cmd_pos, out, job>>
    BY <1>1 DEF shell_main_loop
  <2>2. Line' = Line
    BY <2>1 DEF Line
  <2> QED
    BY <2>1, <2>2, TypingKeeps DEF JInv, TypedLine, JobStates
<1>2. ASSUME NEW c \in Chars, KeyChar(c) PROVE JInv'
  BY <1>2, CharKeepsJob
<1>3. CASE KeyBackspace
  BY <1>3, BackspaceKeepsJob
<1>4. CASE KeyEnterEmpty
  BY <1>4 DEF KeyEnterEmpty, JInv, WordsInArgv, NextWord, AllWords, TypedLine,
              JobStates
<1>5. CASE KeyEnter
  BY <1>5, EnterKeepsJob
<1>6. CASE StoreArgument
  BY <1>6, StoreKeepsJob
<1>7. CASE EndArguments
  BY <1>7, EndKeepsJob
<1>8. CASE Command \/ CommandNotFound
  BY <1>8, CommandKeepsJob
<1>9. CASE Prompt
  <2>1. pc' = "idle" /\ cmd_pos' = 0 /\ out' = NoOutput /\ job' = <<>>
    BY <1>9 DEF Prompt
  <2>2. Line' = <<>>
    <3>1. Line' = LineOf(cmd_buffer', cmd_pos')
      BY DEF Line, LineOf
    <3> QED
      BY <2>1, <3>1, LineEmpty
  <2> QED
    BY <2>1, <2>2, TypingKeeps
<1>10. CASE UNCHANGED vars
  BY <1>10 DEF JInv, WordsInArgv, CutTo, HoldsWord, StringAt, StringEnd,
     NextWord, AllWords, TypedLine, JobStates, Line, vars, args
<1> QED
  BY <1>1, <1>2, <1>3, <1>4, <1>5, <1>6, <1>7, <1>8, <1>9, <1>10
  DEF Next, Key, Handler

\* While a line runs its words are in argv, whatever the lines before it left
\* in the buffer, and what strtok has cut of it are words of it.
THEOREM WordsInvariant == Spec => []JInv
<1>1. Init => JInv
  BY JInvInit
<1>2. IInv /\ JInv /\ [Next]_vars => JInv'
  BY JInvNext
<1> QED
  BY <1>1, <1>2, ShellInvariant, PTL DEF Spec

-----------------------------------------------------------------------------
(* The shell is a command line                                             *)

\* CommandLine's Cardinality, by its name there.
LEMMA SameCardinality == \A S : CL!Cardinality(S) = Cardinality(S)
BY DEF CL!Cardinality, Cardinality

LEMMA TheStart ==
  ASSUME NEW l \in Seq(Chars), NEW p \in CL!Starts(l), NEW k, Count(l, p) = k - 1
  PROVE  (CHOOSE q \in CL!Starts(l) : CL!Cardinality(CL!Before(l, q)) = k - 1) = p
<1> DEFINE q == CHOOSE q \in CL!Starts(l) :
                  CL!Cardinality(CL!Before(l, q)) = k - 1
<1>1. CL!Cardinality(CL!Before(l, p)) = k - 1
  BY SameCardinality DEF Count
<1>2. q \in CL!Starts(l) /\ CL!Cardinality(CL!Before(l, q)) = k - 1
  BY <1>1, Zenon
<1>3. Count(l, q) = Count(l, p)
  BY <1>2, SameCardinality DEF Count
<1> HIDE DEF q
<1>4. q = p
  BY <1>2, <1>3, CountTells
<1> QED
  BY <1>4 DEF q

\* What the command finds in argv are the words of the line.
LEMMA WordsAre ==
  ASSUME IInv, JInv, pc = "dispatch"
  PROVE  /\ job \in Seq(Chars) /\ job # <<>> /\ argc \in Nat /\ argc > 0
         /\ \A k \in 1 .. argc : Arg(k - 1) \in Seq(Chars)
         /\ CL!Words(job) = [k \in 1 .. argc |-> Arg(k - 1)]
<1> DEFINE n == Cardinality(CL!Starts(job))
           start(k) == CHOOSE q \in CL!Starts(job) :
                         CL!Cardinality(CL!Before(job, q)) = k - 1
<1>1. /\ job \in Seq(Chars) /\ Len(job) > 0
      /\ \A i \in 0 .. argc - 1 : HoldsWord(cmd_buffer, job, argv[i], i)
      /\ argc = IF n < MaxArgv - 1 THEN n ELSE MaxArgv - 1
  BY DEF JInv, WordsInArgv, AllWords, CutTo
<1>1a. CL!Cardinality(CL!Starts(job)) = n
  BY SameCardinality
<1>2. argc \in Nat /\ argc > 0
  BY InvBuffer DEF IInv, ArgvWellFormed
<1>3. job # <<>>
  BY <1>1, EmptySeq
<1>4. ASSUME NEW k \in 1 .. argc
      PROVE  /\ Arg(k - 1) \in Seq(Chars)
             /\ CL!WordAt(job, start(k)) = Arg(k - 1)
  <2>1. k - 1 \in 0 .. argc - 1
    BY <1>2
  <2>2. PICK p : p = argv[k - 1] + 1
    OBVIOUS
  <2>3. /\ p \in CL!Starts(job) /\ Count(job, p) = k - 1
        /\ Arg(k - 1) = CL!WordAt(job, p)
    BY <1>1, <2>1, <2>2 DEF HoldsWord, Arg
  <2>4. start(k) = p
    BY <1>1, <2>3, TheStart
  <2>5. p \in 1 .. Len(job)
    BY <1>1, <2>3, StartsAreFinite
  <2> HIDE DEF start
  <2> QED
    BY <1>1, <2>3, <2>4, <2>5, WordAtIs
<1>5. CL!Words(job) = [k \in 1 .. argc |-> CL!WordAt(job, start(k))]
  BY <1>1, <1>1a DEF CL!Words
<1> HIDE DEF start
<1>6. CL!Words(job) = [k \in 1 .. argc |-> Arg(k - 1)]
  BY <1>4, <1>5
<1> QED
  BY <1>1, <1>2, <1>3, <1>4, <1>6

\* The table has one entry for a name, and strcmp finds it.
LEMMA TheCommand ==
  ASSUME NEW w \in Seq(Chars), Arg(0) = w
  PROVE  /\ Matches = CL!Named(w)
         /\ Matches # {} =>
              Min(Matches) = CHOOSE i \in CL!Named(w) : TRUE
<1>1. \A i \in DOMAIN commands : commands[i].name \in Seq(Chars)
  <2> DEFINE E == [name : Seq(Chars),
                   func : {"help", "echo", "memstat", "clear", "panic"}]
  <2>1. commands \in Seq(E)
    BY TableAssumption
  <2>2. \A e \in E : e.name \in Seq(Chars)
    OBVIOUS
  <2> HIDE DEF E
  <2>3. DOMAIN commands = 1 .. Len(commands)
    BY <2>1, LenProperties
  <2>4. \A i \in DOMAIN commands : commands[i] \in E
    BY <2>1, <2>3, ElementOfSeq
  <2> QED
    BY <2>2, <2>4
<1>2. Matches = CL!Named(w)
  BY <1>1, StrcmpIs DEF Matches, CL!Named
<1>3. ASSUME Matches # {}
      PROVE  Min(Matches) = CHOOSE i \in CL!Named(w) : TRUE
  <2>1. DOMAIN commands \subseteq Nat
    BY TableAssumption, LenProperties
  <2>2. Matches \in SUBSET Nat
    BY <2>1 DEF Matches
  <2>3. Min(Matches) \in Matches
    BY <1>3, <2>2, LeastExists
  <2> DEFINE c == CHOOSE i \in CL!Named(w) : TRUE
  <2>4. c \in CL!Named(w)
    BY <1>2, <1>3
  <2> HIDE DEF c
  <2>5. ASSUME NEW m \in CL!Named(w)
        PROVE  m = c
    BY <2>4, <2>5, TableAssumption DEF CL!Named
  <2>6. Min(Matches) = c
    BY <1>2, <2>3, <2>5
  <2> QED
    BY <2>6 DEF c
<1> QED
  BY <1>2, <1>3

\* echo prints the words behind the first.
LEMMA EchoedAre ==
  ASSUME IInv, JInv, pc = "dispatch"
  PROVE  Tail(CL!Words(job)) = EchoedArguments
<1> DEFINE w == [k \in 1 .. argc |-> Arg(k - 1)]
<1>1. CL!Words(job) = w /\ argc \in Nat /\ argc > 0
  BY WordsAre
<1>2. \A k \in 1 .. argc : Arg(k - 1) \in Seq(Chars)
  BY WordsAre
<1>3. w \in Seq(Seq(Chars)) /\ Len(w) = argc
  <2>1. w \in [1 .. argc -> Seq(Chars)]
    BY <1>2
  <2> HIDE DEF w
  <2> QED
    BY <1>1, <2>1, SeqDef, LenProperties
<1>4. \A k \in 1 .. argc : w[k] = Arg(k - 1)
  OBVIOUS
<1> HIDE DEF w
<1>5. /\ Tail(w) \in Seq(Seq(Chars)) /\ Len(Tail(w)) = argc - 1
      /\ \A i \in 1 .. Len(Tail(w)) : Tail(w)[i] = w[i + 1]
  <2>1. w # <<>>
    BY <1>1, <1>3, EmptySeq
  <2> QED
    BY <1>3, <2>1, HeadTailProperties
<1>6. \A i \in 1 .. argc - 1 : Tail(w)[i] = Arg(i)
  <2> SUFFICES ASSUME NEW i \in 1 .. argc - 1 PROVE Tail(w)[i] = Arg(i)
    OBVIOUS
  <2>1. PICK k : k = i + 1
    OBVIOUS
  <2>2. k \in 1 .. argc /\ k - 1 = i /\ i \in 1 .. Len(Tail(w))
    BY <1>1, <1>5, <2>1
  <2>3. Tail(w)[i] = w[k]
    BY <1>5, <2>1, <2>2
  <2> QED
    BY <1>4, <2>2, <2>3
<1>7. Tail(w) = [i \in 1 .. argc - 1 |-> Tail(w)[i]]
  BY <1>5, LenProperties
<1>8. [i \in 1 .. argc - 1 |-> Tail(w)[i]] = EchoedArguments
  BY <1>6 DEF EchoedArguments
<1> QED
  BY <1>1, <1>7, <1>8

\* What a command prints is what the line promises.
LEMMA OutcomeIs ==
  ASSUME IInv, JInv, Command \/ CommandNotFound
  PROVE  /\ job # <<>> /\ out = NoOutput
         /\ out' = CL!Outcome(job)
         /\ pc' \notin {"start", "idle"} /\ pc = "dispatch" /\ job' = job
<1>1. /\ pc = "dispatch" /\ job' = job /\ pc' \in {"prompt", "panic"}
  BY DEF Command, CommandNotFound, Calls, cmd_help, cmd_echo, cmd_memstat,
         cmd_clear, cmd_panic_test
<1>2. job # <<>> /\ out = NoOutput
  BY <1>1, WordsAre DEF JInv, JobStates
<1> DEFINE w == CL!Words(job)
<1>3. w[1] = Arg(0) /\ Arg(0) \in Seq(Chars)
  <2>1. 1 \in 1 .. argc /\ 1 - 1 = 0
    BY <1>1, WordsAre
  <2> QED
    BY <1>1, <2>1, WordsAre
<1>4. Tail(w) = EchoedArguments
  BY <1>1, EchoedAre
<1>5. /\ Matches = CL!Named(w[1])
      /\ Matches # {} => Min(Matches) = CHOOSE i \in CL!Named(w[1]) : TRUE
  BY <1>3, TheCommand
<1>6. CL!Outcome(job) =
        IF CL!Named(w[1]) = {} THEN [func |-> "not found", words |-> <<w[1]>>]
        ELSE LET f == commands[CHOOSE i \in CL!Named(w[1]) : TRUE].func
             IN  [func |-> f, words |-> IF f = "echo" THEN Tail(w) ELSE <<>>]
  BY DEF CL!Outcome
<1> DEFINE none == <<>>
           only == <<w[1]>>
<1> HIDE DEF w, none, only
<1>7. CASE CommandNotFound
  <2>1. Matches = {} /\ out' = [func |-> "not found", words |-> <<w[1]>>]
    BY <1>3, <1>7 DEF CommandNotFound
  <2> QED
    BY <1>1, <1>2, <1>5, <1>6, <2>1
<1>8. ASSUME NEW f, Calls(f), f # "echo", out' = [func |-> f, words |-> none]
      PROVE  out' = CL!Outcome(job)
  <2>1. Matches # {} /\ commands[Min(Matches)].func = f
    BY <1>8 DEF Calls
  <2>2. CL!Outcome(job) = [func |-> f, words |-> none]
    BY <1>5, <1>6, <1>8, <2>1, Zenon DEF none
  <2> QED
    BY <1>8, <2>2
<1>9. CASE cmd_echo
  <2>1. /\ Matches # {} /\ commands[Min(Matches)].func = "echo"
        /\ out' = [func |-> "echo", words |-> Tail(w)]
    BY <1>4, <1>9 DEF cmd_echo, Calls
  <2>2. CL!Outcome(job) = [func |-> "echo", words |-> Tail(w)]
    BY <1>5, <1>6, <2>1, Zenon
  <2> QED
    BY <1>1, <1>2, <2>1, <2>2
<1>10. CASE cmd_help \/ cmd_memstat \/ cmd_clear \/ cmd_panic_test
  <2>1. PICK f : f # "echo" /\ Calls(f) /\ out' = [func |-> f, words |-> none]
    BY <1>10 DEF cmd_help, cmd_memstat, cmd_clear, cmd_panic_test, none
  <2> QED
    BY <1>1, <1>2, <1>8, <2>1
<1> QED
  BY <1>7, <1>9, <1>10 DEF Command

AbstractLine == IF pc \in {"start", "idle"} THEN Line ELSE <<>>

LEMMA InitIsCommandLine == Init => CL!Init
<1> SUFFICES ASSUME Init PROVE CL!Init
  OBVIOUS
<1>1. Line = <<>>
  BY LineIsLineOf, LineEmpty DEF Init
<1> QED
  BY <1>1 DEF Init, CL!Init, CL!None, NoOutput

\* Every step of the handler is a step of the command line, or none.
LEMMA StepIsCommandLine == IInv /\ JInv /\ [Next]_vars => [CL!Next]_CL!vars
<1> SUFFICES ASSUME IInv, JInv, [Next]_vars PROVE [CL!Next]_CL!vars
  OBVIOUS
<1>1. ASSUME AbstractLine' = AbstractLine, job' = job, out' = out
      PROVE  [CL!Next]_CL!vars
  BY <1>1 DEF CL!vars, AbstractLine
<1>2. CASE shell_main_loop
  <2>1. /\ pc = "start" /\ pc' = "idle"
        /\ UNCHANGED <<cmd_buffer, cmd_pos, out, job>>
    BY <1>2 DEF shell_main_loop
  <2>2. Line' = Line
    BY <2>1 DEF Line
  <2> QED
    BY <1>1, <2>1, <2>2 DEF AbstractLine
<1>3. ASSUME NEW c \in Chars, KeyChar(c) PROVE [CL!Next]_CL!vars
  <2>1. pc = "idle" /\ pc' = "idle" /\ UNCHANGED <<out, job>> /\ job = <<>>
    BY <1>3 DEF KeyChar, JInv, JobStates
  <2>2. Line' = LineOf(cmd_buffer', cmd_pos')
    BY DEF Line, LineOf
  <2>3. CASE RoomForChar
    <3>1. /\ cmd_buffer' = [cmd_buffer EXCEPT ![cmd_pos] = c]
          /\ cmd_pos' = cmd_pos + 1
      BY <1>3, <2>3 DEF KeyChar
    <3>2. cmd_pos + 1 <= MAX_CMD_LEN /\ cmd_pos <= MAX_CMD_LEN
          /\ cmd_pos < MAX_CMD_LEN - 1
      BY <2>3, InvBuffer, Size DEF RoomForChar
    <3>3. Line' = Append(Line, c)
      BY <2>2, <3>1, <3>2, InvBuffer, LineTyped, LineIsLineOf
    <3>4. Len(Line) < MAX_CMD_LEN - 1
      BY <3>2, InvBuffer, LineIs, LineIsLineOf
    <3>5. CL!Type(c)
      BY <2>1, <3>3, <3>4 DEF CL!Type
    <3> QED
      BY <3>5 DEF CL!Next
  <2>4. CASE ~RoomForChar
    <3>1. Line' = Line
      BY <1>3, <2>2, <2>4, LineIsLineOf DEF KeyChar
    <3> QED
      BY <1>1, <2>1, <3>1 DEF AbstractLine
  <2> QED
    BY <2>3, <2>4
<1>4. CASE KeyBackspace
  <2>1. /\ pc = "idle" /\ pc' = "idle" /\ job = <<>>
        /\ UNCHANGED <<cmd_buffer, out, job>>
    BY <1>4 DEF KeyBackspace, JInv, JobStates
  <2>2. Line' = LineOf(cmd_buffer, cmd_pos')
    BY <2>1 DEF Line, LineOf
  <2>3. CASE cmd_pos > 0
    <3>1. cmd_pos' = cmd_pos - 1 /\ 0 < cmd_pos /\ cmd_pos <= MAX_CMD_LEN
      BY <1>4, <2>3, InvBuffer, Size DEF KeyBackspace
    <3>2. Line' = SubSeq(Line, 1, Len(Line) - 1)
      BY <2>2, <3>1, InvBuffer, LineErased, LineIsLineOf
    <3>3. Line # <<>>
      <4>1. Len(Line) = cmd_pos
        BY <3>1, InvBuffer, LineIs, LineIsLineOf
      <4> QED
        BY <3>1, <4>1, EmptySeq
    <3>4. CL!Erase
      BY <2>1, <3>2, <3>3 DEF CL!Erase
    <3> QED
      BY <3>4 DEF CL!Next
  <2>4. CASE ~(cmd_pos > 0)
    <3>1. Line' = Line
      BY <1>4, <2>2, <2>4, LineIsLineOf DEF KeyBackspace
    <3> QED
      BY <1>1, <2>1, <3>1 DEF AbstractLine
  <2> QED
    BY <2>3, <2>4
<1>5. CASE KeyEnterEmpty
  <2>1. /\ pc = "idle" /\ cmd_pos = 0 /\ pc' = "prompt"
        /\ UNCHANGED <<out, job>>
    BY <1>5 DEF KeyEnterEmpty
  <2>2. Line = <<>>
    BY <2>1, LineIsLineOf, LineEmpty
  <2> QED
    BY <1>1, <2>1, <2>2 DEF AbstractLine
<1>6. CASE KeyEnter
  <2>1. /\ pc = "idle" /\ cmd_pos > 0 /\ pc' = "split" /\ job = <<>>
        /\ job' = Line /\ out' = out
    BY <1>6 DEF KeyEnter, JInv, JobStates
  <2>2. Line # <<>>
    <3>1. cmd_pos \in Nat /\ cmd_pos <= MAX_CMD_LEN
      BY InvBuffer, Size
    <3>2. Len(Line) = cmd_pos
      BY <3>1, InvBuffer, LineIs, LineIsLineOf
    <3> QED
      BY <2>1, <3>2, EmptySeq
  <2>3. CL!Enter
    BY <2>1, <2>2 DEF CL!Enter
  <2> QED
    BY <2>3 DEF CL!Next
<1>7. CASE StoreArgument
  BY <1>1, <1>7 DEF StoreArgument, AbstractLine
<1>8. CASE EndArguments
  <2>1. pc' = "dispatch"
    BY <1>8, EndKeepsJob
  <2> QED
    BY <1>1, <1>8, <2>1 DEF EndArguments, AbstractLine
<1>9. CASE Command \/ CommandNotFound
  <2>1. /\ job # <<>> /\ out = NoOutput
        /\ out' = CL!Outcome(job)
        /\ pc' \notin {"start", "idle"} /\ pc = "dispatch" /\ job' = job
    BY <1>9, OutcomeIs
  <2>2. CL!Run
    BY <2>1 DEF CL!Run, CL!None, NoOutput
  <2> QED
    BY <2>2 DEF CL!Next
<1>10. CASE Prompt
  <2>1. /\ pc = "prompt" /\ pc' = "idle" /\ cmd_pos' = 0
        /\ out' = NoOutput /\ job' = <<>>
    BY <1>10 DEF Prompt
  <2>2. Line' = <<>>
    <3>1. Line' = LineOf(cmd_buffer', cmd_pos')
      BY DEF Line, LineOf
    <3> QED
      BY <2>1, <3>1, LineEmpty
  <2>3. CASE out = NoOutput /\ job = <<>>
    BY <1>1, <2>1, <2>2, <2>3 DEF AbstractLine
  <2>4. CASE out # NoOutput /\ out.func # "panic"
    <3>1. CL!Done
      BY <2>1, <2>2, <2>4 DEF CL!Done, CL!None, NoOutput
    <3> QED
      BY <3>1 DEF CL!Next
  <2> QED
    BY <2>1, <2>3, <2>4 DEF JInv, JobStates
<1>11. CASE UNCHANGED vars
  <2>1. Line' = Line
    BY <1>11 DEF Line, vars
  <2> QED
    BY <1>1, <1>11, <2>1 DEF AbstractLine, vars
<1> QED
  BY <1>2, <1>3, <1>4, <1>5, <1>6, <1>7, <1>8, <1>9, <1>10, <1>11
  DEF Next, Key, Handler

\* The shell implements the command line: editing, cutting and running in one
\* buffer, which is never cleared, runs what was typed and not erased, and
\* nothing of the lines before.
THEOREM ShellIsCommandLine == Spec => ImplementsCommandLine
<1>1. Init => CL!Init
  BY InitIsCommandLine
<1>2. IInv /\ JInv /\ [Next]_vars => [CL!Next]_CL!vars
  BY StepIsCommandLine
<1> QED
  BY <1>1, <1>2, ShellInvariant, WordsInvariant, PTL
  DEF Spec, ImplementsCommandLine, CL!Spec

-----------------------------------------------------------------------------
(* The theorems *)

\* Positions and pointers stay inside cmd_buffer and argv: strtok's static
\* pointer, too, which is used again on every call.
THEOREM TypeCorrect == Spec => []TypeOK
<1>1. IInv => TypeOK
  BY DEF IInv
<1> QED
  BY <1>1, ShellInvariant, PTL

\* The last cell of cmd_buffer stays NUL, so every scan ends in the buffer.
THEOREM StaysSealed == Spec => []BufferSealed
<1>1. IInv => BufferSealed
  BY DEF IInv
<1> QED
  BY <1>1, ShellInvariant, PTL

\* The row of the prompt shows the line that Enter will run.
THEOREM EchoIsLine == Spec => []EchoMatchesLine
<1>1. IInv => EchoMatchesLine
  BY DEF IInv
<1> QED
  BY <1>1, ShellInvariant, PTL

\* A command is called with the line's words, one string behind the other,
\* and NULL behind the last: however many blanks the line has, and also when
\* argv is full.
THEOREM ArgumentsWellFormed == Spec => []ArgvWellFormed
<1>1. IInv => ArgvWellFormed
  BY DEF IInv
<1> QED
  BY <1>1, ShellInvariant, PTL

=============================================================================
