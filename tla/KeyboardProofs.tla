--------------------------- MODULE KeyboardProofs ---------------------------
(***************************************************************************)
(* Theorems about the key presses of MicroKernel++, for any set of keys,   *)
(* any number of columns and any number of presses.  One inductive         *)
(* invariant carries them: the gate is there because the boot is past it,  *)
(* the boot is past it because interrupts are on, and interrupts are off   *)
(* while the handler has the byte in its hands.                            *)
(***************************************************************************)
EXTENDS KeyboardIrq, SequenceTheorems, WellFoundedInduction, TLAPS

\* The steps of kernel_main with interrupts enabled.
Enabled == {"init_pmm", "alloc", "hlt"}

\* What each step of init_idt has left behind, for the steps after it.
BootProgress ==
  /\ imr = FALSE
  /\ main \notin {"clear", "icw1", "icw2"} => base = 32
  /\ main \in Enabled \cup {"panic", "sti", "lidt"} => 33 \in gates
  /\ main \in Enabled \cup {"panic", "sti"} => idtr
  /\ ifl => main \in Enabled

\* A request is always for a byte that is in the buffer, and the handler
\* starts with a byte in the buffer that is not requested again.
RequestHasByte ==
  /\ irr => obf
  /\ hpc = "isr_handler" => obf /\ ~irr /\ int_num \in Arguments

\* The bound of the typist, and one row of the screen per key at most.
Bounded ==
  /\ Len(pressed) <= MaxKeys
  /\ cursor_y <= FirstRow + Len(reads)

IInv ==
  /\ TypeOK
  /\ EveryInterruptHasItsGate
  /\ EveryKeyAccounted
  /\ OneHandlerAtATime
  /\ FullBufferIsRequested
  /\ BootProgress
  /\ RequestHasByte
  /\ Bounded

-----------------------------------------------------------------------------
(* The text that scancodes stand for                                       *)

\* Induction over the numbers, with the set of those that have the property.
LEMMA NatInd ==
  ASSUME NEW S, 0 \in S, \A n \in Nat : n \in S => n + 1 \in S
  PROVE  Nat \subseteq S
<1> DEFINE R == OpToRel(<, Nat)
<1> SUFFICES ASSUME Nat \ S # {} PROVE FALSE
  OBVIOUS
<1>1. IsWellFoundedOn(R, Nat)
  BY NatLessThanWellFounded, Zenon
<1>2. R = {ss \in Nat \X Nat : ss[1] < ss[2]}
  BY DEF OpToRel
<1> HIDE DEF R
<1>3. PICK x \in Nat \ S : \A y \in Nat \ S : ~(<<y, x>> \in R)
  BY <1>1, WFMin
<1>4. x # 0 /\ x - 1 \in Nat
  OBVIOUS
<1>5. <<x - 1, x>> \in R
  BY <1>2, <1>4
<1>6. x - 1 \in S
  BY <1>3, <1>4, <1>5
<1> QED
  BY <1>4, <1>6

\* The functions over 0 .. N that the recursion from a by G defines.
Solutions(N, V, a, G) ==
  {f \in [0 .. N -> V] : f[0] = a /\ \A n \in 1 .. N : f[n] = G[n][f[n - 1]]}

\* A recursion over 0 .. N whose steps stay in V has a solution.
LEMMA RecursionTo ==
  ASSUME NEW N \in Nat, NEW V, NEW a \in V, NEW G \in [1 .. N -> [V -> V]]
  PROVE  Solutions(N, V, a, G) # {}
<1> DEFINE Rec(m, f) == f[0] = a /\ \A n \in 1 .. m : f[n] = G[n][f[n - 1]]
           S == {m \in Nat : m <= N => \E f \in [0 .. m -> V] : Rec(m, f)}
<1>1. 0 \in S
  <2> DEFINE f == [n \in 0 .. 0 |-> a]
  <2>1. f \in [0 .. 0 -> V] /\ Rec(0, f)
    OBVIOUS
  <2> QED
    BY <2>1
<1>2. ASSUME NEW m \in Nat, m \in S PROVE m + 1 \in S
  <2> SUFFICES ASSUME m + 1 <= N PROVE \E f \in [0 .. m + 1 -> V] : Rec(m + 1, f)
    OBVIOUS
  <2>1. PICK f \in [0 .. m -> V] : Rec(m, f)
    BY <1>2
  <2> DEFINE g == [n \in 0 .. m + 1 |-> IF n = m + 1 THEN G[m + 1][f[m]] ELSE f[n]]
  <2>2. f[m] \in V /\ m + 1 \in 1 .. N
    OBVIOUS
  <2>3. G[m + 1][f[m]] \in V
    BY <2>2
  <2>4. g \in [0 .. m + 1 -> V]
    BY <2>3
  <2>5. g[m + 1] = G[m + 1][f[m]] /\ \A n \in 0 .. m : g[n] = f[n]
    OBVIOUS
  <2> HIDE DEF g
  <2>6. g[0] = a
    BY <2>1, <2>5
  <2>7. ASSUME NEW n \in 1 .. m + 1 PROVE g[n] = G[n][g[n - 1]]
    <3>1. CASE n = m + 1
      BY <3>1, <2>5
    <3>2. CASE n \in 1 .. m
      <4>1. n \in 0 .. m /\ n - 1 \in 0 .. m
        BY <3>2
      <4> QED
        BY <3>2, <4>1, <2>1, <2>5
    <3> QED
      BY <3>1, <3>2
  <2> QED
    BY <2>4, <2>6, <2>7
<1> HIDE DEF S
<1>3. N \in S
  BY <1>1, <1>2, NatInd
<1> QED
  BY <1>3 DEF S, Solutions

\* Rows of characters that fit the screen, the last one with room for more.
Texts ==
  {rows \in Seq(Seq(Chars)) :
     /\ Len(rows) > 0
     /\ \A i \in 1 .. Len(rows) : Len(rows[i]) <= COLS
     /\ Len(rows[Len(rows)]) < COLS}

\* A new empty row behind rows that fit has room for more.
LEMMA NewRowIsText ==
  ASSUME NEW t \in Seq(Seq(Chars)), \A i \in 1 .. Len(t) : Len(t[i]) <= COLS
  PROVE  Append(t, <<>>) \in Texts
<1> DEFINE more == Append(t, <<>>)
<1>1. /\ <<>> \in Seq(Chars) /\ Len(t) \in Nat /\ Len(<<>>) = 0
      /\ COLS \in Nat \ {0}
  BY LenProperties, EmptySeq, KeyboardAssumption
<1>2. /\ more \in Seq(Seq(Chars)) /\ Len(more) = Len(t) + 1
      /\ \A i \in 1 .. Len(t) : more[i] = t[i]
      /\ more[Len(t) + 1] = <<>>
  BY <1>1, AppendProperties
<1> HIDE DEF more
<1>3. ASSUME NEW i \in 1 .. Len(t) + 1 PROVE Len(more[i]) <= COLS
  <2>1. CASE i = Len(t) + 1
    BY <2>1, <1>1, <1>2
  <2>2. CASE i \in 1 .. Len(t)
    BY <2>2, <1>2
  <2> QED
    BY <1>1, <2>1, <2>2
<1>4. more \in Texts
  BY <1>1, <1>2, <1>3 DEF Texts
<1> QED
  BY <1>4 DEF more

\* Another last row that fits leaves rows that fit.
LEMMA PutIsText ==
  ASSUME NEW rows \in Texts, NEW r \in Seq(Chars), Len(r) <= COLS
  PROVE  LET put == [rows EXCEPT ![Len(rows)] = r] IN
           /\ put \in Seq(Seq(Chars))
           /\ \A i \in 1 .. Len(put) : Len(put[i]) <= COLS
           /\ Len(r) < COLS => put \in Texts
<1> DEFINE put == [rows EXCEPT ![Len(rows)] = r]
<1>1. rows \in Seq(Seq(Chars)) /\ Len(rows) \in Nat /\ Len(rows) > 0
      /\ \A i \in 1 .. Len(rows) : Len(rows[i]) <= COLS
  BY LenProperties DEF Texts
<1>2. /\ put \in Seq(Seq(Chars)) /\ Len(put) = Len(rows)
      /\ put[Len(rows)] = r
      /\ \A i \in 1 .. Len(rows) : i # Len(rows) => put[i] = rows[i]
  BY <1>1
<1> HIDE DEF put
<1>3. ASSUME NEW i \in 1 .. Len(rows) PROVE Len(put[i]) <= COLS
  <2>1. CASE i = Len(rows)
    BY <2>1, <1>2
  <2>2. CASE i # Len(rows)
    BY <2>2, <1>1, <1>2
  <2> QED
    BY <2>1, <2>2
<1>4. Len(r) < COLS => put \in Texts
  BY <1>1, <1>2, <1>3 DEF Texts
<1> QED
  BY <1>2, <1>3, <1>4 DEF put

\* One scancode more leaves rows of text.
LEMMA EditKeepsTexts ==
  ASSUME NEW rows \in Texts, NEW k
  PROVE  Edit(rows, k) \in Texts
<1> DEFINE row == rows[Len(rows)]
           put(r) == [rows EXCEPT ![Len(rows)] = r]
<1>1. rows \in Seq(Seq(Chars)) /\ Len(rows) \in Nat /\ Len(rows) > 0
      /\ row \in Seq(Chars) /\ Len(row) \in Nat /\ Len(row) < COLS
      /\ COLS \in Nat \ {0}
  BY KeyboardAssumption, LenProperties DEF Texts
<1>2. ASSUME NEW r \in Seq(Chars), Len(r) < COLS PROVE put(r) \in Texts
  <2>1. Len(r) <= COLS
    BY <1>1, <1>2, LenProperties
  <2> QED
    BY <2>1, <1>2, PutIsText
<1>3. CASE k = Enter
  <2>1. Edit(rows, k) = Append(rows, <<>>)
    BY <1>3, KeyboardAssumption DEF Edit
  <2>2. \A i \in 1 .. Len(rows) : Len(rows[i]) <= COLS
    BY DEF Texts
  <2> QED
    BY <2>1, <2>2, <1>1, NewRowIsText
<1>4. CASE k # Enter /\ k = Backspace
  <2>1. Edit(rows, k) = IF row = <<>> THEN rows ELSE put(Front(row))
    BY <1>4, KeyboardAssumption DEF Edit
  <2>2. ASSUME row # <<>> PROVE Front(row) \in Seq(Chars) /\ Len(Front(row)) < COLS
    <3>1. Len(row) > 0
      BY <2>2, <1>1, EmptySeq
    <3>2. Front(row) \in Seq(Chars) /\ Len(Front(row)) = Len(row) - 1
      BY <1>1, <3>1, SubSeqProperties DEF Front
    <3> QED
      BY <1>1, <3>2
  <2> QED
    BY <2>1, <2>2, <1>2
<1>5. CASE k # Enter /\ k # Backspace /\ k \in Chars
  <2>1. Append(row, k) \in Seq(Chars) /\ Len(Append(row, k)) = Len(row) + 1
    BY <1>1, <1>5, AppendProperties
  <2>2. CASE Len(row) + 1 = COLS
    <3>1. Edit(rows, k) = Append(put(Append(row, k)), <<>>)
      BY <1>5, <2>2 DEF Edit
    <3>2. Len(Append(row, k)) <= COLS
      BY <1>1, <2>1, <2>2
    <3>3. /\ put(Append(row, k)) \in Seq(Seq(Chars))
          /\ \A i \in 1 .. Len(put(Append(row, k))) :
               Len(put(Append(row, k))[i]) <= COLS
      BY <2>1, <3>2, PutIsText
    <3> HIDE DEF put
    <3> QED
      BY <3>1, <3>3, NewRowIsText
  <2>3. CASE Len(row) + 1 # COLS
    <3>1. Edit(rows, k) = put(Append(row, k))
      BY <1>5, <2>3 DEF Edit
    <3>2. Len(Append(row, k)) < COLS
      BY <1>1, <2>1, <2>3
    <3> QED
      BY <3>1, <3>2, <2>1, <1>2
  <2> QED
    BY <2>2, <2>3
<1>6. CASE k # Enter /\ k # Backspace /\ k \notin Chars
  BY <1>6 DEF Edit
<1> QED
  BY <1>3, <1>4, <1>5, <1>6

\* The text after all but the last scancode, and then the last one.
LEMMA TypedSteps ==
  ASSUME NEW keys \in Seq(Keys)
  PROVE  \E t \in [0 .. Len(keys) -> Texts] :
           /\ t[0] = << <<>> >>
           /\ \A n \in 1 .. Len(keys) : t[n] = Edit(t[n - 1], keys[n])
           /\ Typed(keys) = t[Len(keys)]
<1> DEFINE N == Len(keys)
           G == [n \in 1 .. N |-> [rows \in Texts |-> Edit(rows, keys[n])]]
           F(t) == [n \in 0 .. N |->
                      IF n = 0 THEN << <<>> >> ELSE Edit(t[n - 1], keys[n])]
           w == CHOOSE t : t = F(t)
<1>1. N \in Nat
  BY LenProperties
<1>2. << <<>> >> \in Texts
  <2>1. <<>> \in Seq(Chars) /\ Len(<<>>) = 0
    BY EmptySeq
  <2>2. << <<>> >> \in Seq(Seq(Chars)) /\ Len(<< <<>> >>) = 1
        /\ << <<>> >>[1] = <<>>
    BY <2>1
  <2> QED
    BY <2>1, <2>2, KeyboardAssumption DEF Texts
<1>3. G \in [1 .. N -> [Texts -> Texts]]
  BY EditKeepsTexts
<1>4. \A n \in 1 .. N, rows \in Texts : G[n][rows] = Edit(rows, keys[n])
  OBVIOUS
<1>5. PICK f \in [0 .. N -> Texts] :
        f[0] = << <<>> >> /\ \A n \in 1 .. N : f[n] = G[n][f[n - 1]]
  <2> HIDE DEF G, N
  <2>1. Solutions(N, Texts, << <<>> >>, G) # {}
    BY <1>1, <1>2, <1>3, RecursionTo
  <2> QED
    BY <2>1 DEF Solutions
<1> HIDE DEF G
<1>6. ASSUME NEW n \in 1 .. N PROVE f[n] = Edit(f[n - 1], keys[n])
  <2>1. n - 1 \in 0 .. N
    BY <1>1
  <2> QED
    BY <2>1, <1>4, <1>5
<1>7. f = F(f)
  <2> HIDE DEF N
  <2>1. ASSUME NEW n \in 0 .. N
        PROVE  f[n] = IF n = 0 THEN << <<>> >> ELSE Edit(f[n - 1], keys[n])
    <3>1. CASE n = 0
      BY <3>1, <1>5
    <3>2. CASE n \in 1 .. N
      BY <3>2, <1>6
    <3> QED
      BY <1>1, <3>1, <3>2
  <2> QED
    BY <2>1
<1>8. w = F(w)
  BY <1>7, Zenon
<1>9. Typed(keys) = w[N]
  BY DEF Typed
<1>10. \A n \in 0 .. N :
         w[n] = IF n = 0 THEN << <<>> >> ELSE Edit(w[n - 1], keys[n])
  BY <1>8, Zenon
<1> HIDE DEF w, F
<1> DEFINE S == {n \in Nat : n <= N => w[n] = f[n]}
<1>11. 0 \in S
  BY <1>5, <1>10
<1>12. ASSUME NEW n \in Nat, n \in S PROVE n + 1 \in S
  <2> SUFFICES ASSUME n + 1 <= N PROVE w[n + 1] = f[n + 1]
    OBVIOUS
  <2>1. w[n] = f[n] /\ n + 1 \in 1 .. N /\ (n + 1) - 1 = n
    BY <1>1, <1>12
  <2> QED
    BY <2>1, <1>6, <1>10
<1> HIDE DEF S
<1>13. Nat \subseteq S
  BY <1>11, <1>12, NatInd
<1>14. w[N] = f[N]
  BY <1>1, <1>13 DEF S
<1> QED
  BY <1>5, <1>6, <1>9, <1>14

\* Nothing typed is one empty row.
LEMMA TypedNothing == Typed(<<>>) = << <<>> >>
<1>1. <<>> \in Seq(Keys) /\ Len(<<>>) = 0
  BY EmptySeq
<1> QED
  BY <1>1, TypedSteps

\* A scancode more edits the text of those before it.
LEMMA TypedAppend ==
  ASSUME NEW keys \in Seq(Keys), NEW k \in Keys
  PROVE  /\ Typed(keys) \in Texts
         /\ Typed(Append(keys, k)) = Edit(Typed(keys), k)
<1> DEFINE N == Len(keys)
           more == Append(keys, k)
<1>1. /\ N \in Nat /\ more \in Seq(Keys) /\ Len(more) = N + 1
      /\ \A i \in 1 .. N : more[i] = keys[i]
      /\ more[N + 1] = k
  BY LenProperties, AppendProperties
<1>2. PICK t \in [0 .. N -> Texts] :
        /\ t[0] = << <<>> >>
        /\ \A n \in 1 .. N : t[n] = Edit(t[n - 1], keys[n])
        /\ Typed(keys) = t[N]
  BY TypedSteps
<1> HIDE DEF more
<1>3. PICK u \in [0 .. N + 1 -> Texts] :
        /\ u[0] = << <<>> >>
        /\ \A n \in 1 .. N + 1 : u[n] = Edit(u[n - 1], more[n])
        /\ Typed(more) = u[N + 1]
  BY <1>1, TypedSteps
<1> HIDE DEF N
<1> DEFINE S == {n \in Nat : n <= N => u[n] = t[n]}
<1>4. 0 \in S
  BY <1>2, <1>3
<1>5. ASSUME NEW n \in Nat, n \in S PROVE n + 1 \in S
  <2> SUFFICES ASSUME n + 1 <= N PROVE u[n + 1] = t[n + 1]
    OBVIOUS
  <2>1. /\ u[n] = t[n] /\ n + 1 \in 1 .. N /\ n + 1 \in 1 .. N + 1
        /\ (n + 1) - 1 = n
    BY <1>1, <1>5
  <2> QED
    BY <2>1, <1>1, <1>2, <1>3
<1> HIDE DEF S
<1>6. Nat \subseteq S
  BY <1>4, <1>5, NatInd
<1>7. u[N] = t[N]
  BY <1>1, <1>6 DEF S
<1>8. u[N + 1] = Edit(u[N], more[N + 1])
  BY <1>1, <1>3
<1> QED
  BY <1>1, <1>2, <1>3, <1>7, <1>8 DEF more, N

-----------------------------------------------------------------------------
(* The way of a scancode: keyboard, buffer, handler                        *)

\* The byte that the controller loads is the first of those behind the buffer.
LEMMA LoadKeepsOrder ==
  ASSUME NEW S, NEW r \in Seq(S), NEW f \in Seq(S), f # <<>>
  PROVE  (r \o <<>>) \o f = (r \o <<Head(f)>>) \o Tail(f)
<1>1. Head(f) \in S /\ Tail(f) \in Seq(S)
  BY HeadTailProperties
<1>2. <<Head(f)>> \in Seq(S)
  BY <1>1
<1>3. f = <<Head(f)>> \o Tail(f)
  <2> DEFINE g == <<Head(f)>> \o Tail(f)
  <2>1. /\ Len(Tail(f)) = Len(f) - 1
        /\ \A i \in 1 .. Len(Tail(f)) : Tail(f)[i] = f[i + 1]
    BY HeadTailProperties
  <2>2. /\ g \in Seq(S)
        /\ Len(g) = Len(<<Head(f)>>) + Len(Tail(f))
        /\ \A i \in 1 .. Len(<<Head(f)>>) + Len(Tail(f)) :
             g[i] = IF i <= Len(<<Head(f)>>) THEN <<Head(f)>>[i]
                      ELSE Tail(f)[i - Len(<<Head(f)>>)]
    BY <1>1, <1>2, ConcatProperties
  <2>3. Len(<<Head(f)>>) = 1 /\ <<Head(f)>>[1] = Head(f) /\ Head(f) = f[1]
    BY SMT
  <2>4. Len(f) \in Nat
    BY LenProperties
  <2>5. Len(g) = Len(f)
    BY <2>1, <2>2, <2>3, <2>4
  <2>6. ASSUME NEW i \in 1 .. Len(f)
        PROVE  f[i] = g[i]
    <3> HIDE DEF g
    <3>1. CASE i = 1
      BY <3>1, <2>1, <2>2, <2>3, <2>4
    <3>2. CASE i # 1
      <4>1. g[i] = Tail(f)[i - 1]
        BY <3>2, <2>1, <2>2, <2>3, <2>4
      <4>2. i - 1 \in 1 .. Len(Tail(f)) /\ (i - 1) + 1 = i
        BY <3>2, <2>1, <2>4
      <4> QED
        BY <4>1, <4>2, <2>1
    <3> QED
      BY <3>1, <3>2
  <2> HIDE DEF g
  <2>7. f = g
    BY <2>2, <2>5, <2>6, SeqEqual
  <2> QED
    BY <2>7 DEF g
<1>4. r \o <<>> = r
  BY ConcatEmptySeq
<1> QED
  BY <1>1, <1>2, <1>3, <1>4, ConcatAssociative

\* The byte that is read goes from the buffer to the end of those read.
LEMMA ReadKeepsOrder ==
  ASSUME NEW S, NEW r \in Seq(S), NEW d \in S
  PROVE  r \o <<d>> = Append(r, d) \o <<>>
<1>1. Append(r, d) \in Seq(S)
  BY AppendProperties
<1> QED
  BY <1>1, AppendIsConcat, ConcatEmptySeq

\* A byte in the buffer is one key that was pressed and not yet read.
LEMMA UnreadKey ==
  ASSUME IInv, obf
  PROVE  Len(reads) + 1 <= MaxKeys
<1>1. /\ reads \in Seq(Keys) /\ fifo \in Seq(Keys) /\ <<data>> \in Seq(Keys)
      /\ pressed = (reads \o <<data>>) \o fifo
      /\ Len(pressed) <= MaxKeys
  BY DEF IInv, TypeOK, EveryKeyAccounted, Bounded
<1>2. reads \o <<data>> \in Seq(Keys)
      /\ Len(reads \o <<data>>) = Len(reads) + Len(<<data>>)
  BY <1>1, ConcatProperties
<1>3. Len(pressed) = Len(reads \o <<data>>) + Len(fifo)
  BY <1>1, <1>2, ConcatProperties
<1>4. Len(<<data>>) = 1 /\ Len(fifo) \in Nat /\ Len(reads) \in Nat
  BY <1>1, LenProperties
<1> QED
  BY <1>1, <1>2, <1>3, <1>4, KeyboardAssumption

-----------------------------------------------------------------------------
(* Induction                                                               *)

LEMMA InitEstablishes == Init => IInv
<1> SUFFICES ASSUME Init PROVE IInv
  OBVIOUS
<1>1. TypeOK
  <2>1. Enter \in Keys
    BY DEF Keys
  <2>2. 0 \in Cols /\ FirstRow \in Rows
    BY KeyboardAssumption DEF Cols, Rows
  <2> QED
    BY <2>1, <2>2 DEF Init, TypeOK
<1>2. EveryKeyAccounted
  <2>1. <<>> \in Seq(Keys)
    OBVIOUS
  <2>2. (<<>> \o <<>>) \o <<>> = <<>>
    BY <2>1, ConcatEmptySeq
  <2> QED
    BY <2>2 DEF Init, EveryKeyAccounted
<1>3. Bounded
  BY KeyboardAssumption DEF Init, Bounded
<1> QED
  BY <1>1, <1>2, <1>3 DEF Init, IInv, EveryInterruptHasItsGate,
     OneHandlerAtATime, FullBufferIsRequested, BootProgress, RequestHasByte,
     Enabled

\* kernel_main sets up what an interrupt needs before it enables interrupts.
LEMMA MainPreserves == IInv /\ kernel_main => IInv'
<1> SUFFICES ASSUME IInv, kernel_main PROVE IInv'
  OBVIOUS
<1> USE DEF IInv, Main
<1>1. /\ hpc = "none" /\ hpc' = "none" /\ ~fault /\ ~fault'
      /\ UNCHANGED <<fault, obf, data, fifo, pressed, driver, int_num>>
  BY DEF kernel_main, ClearIdt, ICW1, ICW2, Mask, SetGate, Lidt, Sti,
         InitPmm, TestPmm
<1>2. EveryKeyAccounted' /\ Bounded' /\ EveryInterruptHasItsGate'
  BY <1>1 DEF EveryKeyAccounted, Bounded, EveryInterruptHasItsGate, driver
<1>3. TypeOK'
  <2>1. UNCHANGED <<obf, data, fifo, pressed, cursor_x, cursor_y, reads>>
    BY <1>1 DEF driver
  <2>2. main' \in {"icw1", "icw2", "mask", "gate", "lidt", "sti",
                   "init_pmm", "alloc", "hlt", "panic"}
    BY DEF kernel_main, ClearIdt, ICW1, ICW2, Mask, SetGate, Lidt, Sti,
           InitPmm, TestPmm
  <2>3. base' \in {base, 32}
    BY DEF pic, kernel_main, ClearIdt, ICW1, ICW2, Mask, SetGate, Lidt, Sti,
           InitPmm, TestPmm
  <2>4. gates' \in {gates, {}, gates \cup {33}}
    BY DEF kernel_main, ClearIdt, ICW1, ICW2, Mask, SetGate, Lidt, Sti,
           InitPmm, TestPmm
  <2>5. idtr' \in BOOLEAN /\ ifl' \in BOOLEAN
    BY DEF TypeOK, pic, kernel_main, ClearIdt, ICW1, ICW2, Mask, SetGate,
           Lidt, Sti, InitPmm, TestPmm
  <2>6. early' \in BOOLEAN
    BY DEF TypeOK, pic, kernel_main, ClearIdt, ICW1, ICW2, Mask, SetGate,
           Lidt, Sti, InitPmm, TestPmm
  <2>7. imr' \in BOOLEAN
    BY DEF TypeOK, pic, kernel_main, ClearIdt, ICW1, ICW2, Mask, SetGate,
           Lidt, Sti, InitPmm, TestPmm
  <2>8. irr' \in BOOLEAN /\ isr' \in BOOLEAN
    BY DEF TypeOK, pic, kernel_main, ClearIdt, ICW1, ICW2, Mask, SetGate,
           Lidt, Sti, InitPmm, TestPmm
  <2> QED
    BY <1>1, <2>1, <2>2, <2>3, <2>4, <2>5, <2>6, <2>7, <2>8 DEF TypeOK
<1>4. OneHandlerAtATime'
  BY <1>1 DEF OneHandlerAtATime, pic, kernel_main, ClearIdt, ICW1, ICW2,
              Mask, SetGate, Lidt, Sti, InitPmm, TestPmm
<1>5. FullBufferIsRequested'
  BY <1>1 DEF FullBufferIsRequested, Unrecognised, pic, kernel_main,
              ClearIdt, ICW1, ICW2,
              Mask, SetGate, Lidt, Sti, InitPmm, TestPmm
<1>6. BootProgress'
  BY <1>1 DEF BootProgress, Enabled, pic, kernel_main, ClearIdt, ICW1, ICW2,
              Mask, SetGate, Lidt, Sti, InitPmm, TestPmm
<1>7. RequestHasByte'
  BY <1>1 DEF RequestHasByte, pic, kernel_main, ClearIdt, ICW1, ICW2, Mask,
              SetGate, Lidt, Sti, InitPmm, TestPmm
<1> QED
  BY <1>2, <1>3, <1>4, <1>5, <1>6, <1>7

\* A key goes behind those on their way; nothing else changes.
LEMMA PressPreserves ==
  ASSUME IInv, NEW k \in Keys, Press(k)
  PROVE  IInv'
<1> USE DEF IInv
<1>0. k \in Keys
  OBVIOUS
<1>1. TypeOK'
  BY DEF TypeOK, Press, cpu, pic, driver
<1>2. EveryKeyAccounted'
  <2> DEFINE b == IF obf THEN <<data>> ELSE <<>>
  <2>1. /\ reads \in Seq(Keys) /\ fifo \in Seq(Keys) /\ b \in Seq(Keys)
        /\ pressed \in Seq(Keys) /\ pressed = (reads \o b) \o fifo
        /\ <<k>> \in Seq(Keys)
    BY <1>0 DEF TypeOK, EveryKeyAccounted
  <2>2. pressed' = pressed \o <<k>> /\ fifo' = fifo \o <<k>>
    BY <1>0, <2>1, AppendIsConcat DEF Press
  <2>3. b' = b /\ reads' = reads
    BY DEF Press, driver
  <2> HIDE DEF b
  <2>4. reads \o b \in Seq(Keys)
    BY <2>1, ConcatProperties
  <2>5. ((reads \o b) \o fifo) \o <<k>> = (reads \o b) \o (fifo \o <<k>>)
    BY <2>1, <2>4, ConcatAssociative
  <2>6. pressed' = (reads' \o b') \o fifo'
    BY <2>1, <2>2, <2>3, <2>5
  <2> QED
    BY <2>6 DEF b, EveryKeyAccounted
<1>3. Bounded'
  <2>1. Len(pressed') = Len(pressed) + 1 /\ Len(pressed) \in Nat
    BY AppendProperties, LenProperties DEF Press, TypeOK
  <2> QED
    BY <2>1, KeyboardAssumption DEF Bounded, Press, driver
<1>4. /\ EveryInterruptHasItsGate' /\ OneHandlerAtATime'
      /\ FullBufferIsRequested' /\ BootProgress' /\ RequestHasByte'
  BY DEF Press, cpu, pic, EveryInterruptHasItsGate, OneHandlerAtATime,
         FullBufferIsRequested, Unrecognised, BootProgress, RequestHasByte
<1> QED
  BY <1>1, <1>2, <1>3, <1>4

\* The controller moves a byte into its empty buffer and requests at once.
LEMMA LoadPreserves == IInv /\ Load => IInv'
<1> SUFFICES ASSUME IInv, Load PROVE IInv'
  OBVIOUS
<1> USE DEF IInv
<1>1. reads \in Seq(Keys) /\ fifo \in Seq(Keys) /\ fifo # <<>> /\ ~obf
  BY DEF TypeOK, Load
<1>2. TypeOK'
  BY <1>1, HeadTailProperties DEF TypeOK, Load, cpu, driver
<1>3. EveryKeyAccounted'
  <2>1. pressed = (reads \o <<>>) \o fifo
    BY <1>1 DEF EveryKeyAccounted
  <2>2. pressed = (reads \o <<Head(fifo)>>) \o Tail(fifo)
    BY <1>1, <2>1, LoadKeepsOrder
  <2> QED
    BY <2>2 DEF EveryKeyAccounted, Load, driver
<1>4. Bounded' /\ EveryInterruptHasItsGate' /\ OneHandlerAtATime'
  BY DEF Load, cpu, driver, Bounded, EveryInterruptHasItsGate,
         OneHandlerAtATime
<1>5. FullBufferIsRequested' /\ BootProgress'
  BY DEF Load, cpu, FullBufferIsRequested, Unrecognised, BootProgress
<1>6. RequestHasByte'
  BY <1>1 DEF Load, cpu, RequestHasByte
<1> QED
  BY <1>2, <1>3, <1>4, <1>5, <1>6

\* Interrupts are on, so the boot is past lidt and the gate is there.
LEMMA DeliverPreserves == IInv /\ Deliver => IInv'
<1> SUFFICES ASSUME IInv, Deliver PROVE IInv'
  OBVIOUS
<1> USE DEF IInv
<1>1. main \in Enabled
  BY DEF Deliver, BootProgress
<1>2. idtr /\ base + 1 = 33 /\ 33 \in gates
  BY <1>1 DEF BootProgress, Enabled
<1>3. /\ hpc' = "isr_handler" /\ int_num' \in Arguments /\ ifl' = FALSE
      /\ UNCHANGED <<fault, main, gates, idtr, base, imr, device, driver>>
      /\ irr /\ ~irr' /\ isr'
  BY <1>2 DEF Deliver
<1>4. TypeOK'
  <2>1. UNCHANGED <<obf, data, fifo, early, pressed, cursor_x, cursor_y, reads>>
    BY <1>3 DEF device, driver
  <2>2. irr' = FALSE /\ isr' = TRUE
    BY DEF Deliver
  <2>3. /\ main' \in {"clear", "icw1", "icw2", "mask", "gate", "lidt", "sti",
                     "init_pmm", "alloc", "hlt", "panic"}
        /\ gates' \subseteq 0 .. 255 /\ base' \in {8, 32}
    BY <1>3 DEF TypeOK
  <2>4. /\ int_num' \in Arguments \cup {0}
        /\ hpc' \in {"none", "isr_handler", "eoi", "iret", "lost"}
    BY <1>3
  <2>5. /\ idtr' \in BOOLEAN /\ ifl' \in BOOLEAN /\ fault' \in BOOLEAN
        /\ imr' \in BOOLEAN /\ irr' \in BOOLEAN /\ isr' \in BOOLEAN
    BY <1>3, <2>2 DEF TypeOK
  <2>6. /\ obf' \in BOOLEAN /\ early' \in BOOLEAN
        /\ data' \in Keys /\ fifo' \in Seq(Keys) /\ cursor_x' \in Cols
        /\ cursor_y' \in Rows /\ pressed' \in Seq(Keys) /\ reads' \in Seq(Keys)
    BY <2>1 DEF TypeOK
  <2> QED
    BY <2>3, <2>4, <2>5, <2>6 DEF TypeOK
<1>5. EveryKeyAccounted' /\ Bounded' /\ EveryInterruptHasItsGate'
  BY <1>3 DEF EveryKeyAccounted, Bounded, EveryInterruptHasItsGate, device,
              driver
<1>6. OneHandlerAtATime' /\ FullBufferIsRequested'
  BY <1>1, <1>3 DEF OneHandlerAtATime, FullBufferIsRequested, Enabled
<1>7. BootProgress' /\ RequestHasByte'
  BY <1>3 DEF BootProgress, RequestHasByte, device
<1> QED
  BY <1>4, <1>5, <1>6, <1>7

\* The handler reads the byte once and leaves the buffer empty.
LEMMA ReadPreserves == IInv /\ isr_handler /\ int_num = 33 => IInv'
<1> SUFFICES ASSUME IInv, isr_handler, int_num = 33 PROVE IInv'
  OBVIOUS
<1> USE DEF IInv
<1>1. obf /\ ~irr /\ int_num = 33 /\ hpc = "isr_handler"
  BY DEF isr_handler, RequestHasByte
<1>2. /\ keyboard_handler /\ hpc' = "eoi"
      /\ UNCHANGED <<main, gates, idtr, ifl, int_num, fault, pic>>
  BY <1>1 DEF isr_handler
<1>3. /\ obf' = FALSE /\ reads' = Append(reads, data)
      /\ UNCHANGED <<data, fifo, early, pressed>>
  BY <1>2 DEF keyboard_handler, inb
<1>4. /\ reads \in Seq(Keys) /\ data \in Keys /\ reads' \in Seq(Keys)
      /\ Len(reads') = Len(reads) + 1 /\ Len(reads) \in Nat
  BY <1>3, AppendProperties, LenProperties DEF TypeOK
<1>5. EveryKeyAccounted'
  <2>1. pressed = (reads \o <<data>>) \o fifo
    BY <1>1 DEF EveryKeyAccounted
  <2>2. pressed = (Append(reads, data) \o <<>>) \o fifo
    BY <1>4, <2>1, ReadKeepsOrder
  <2> QED
    BY <1>3, <2>2 DEF EveryKeyAccounted
<1>6. cursor_x' \in Cols /\ cursor_y' \in {cursor_y, cursor_y + 1}
  <2>1. COLS \in Nat \ {0} /\ cursor_x \in Int /\ 0 <= cursor_x /\ cursor_x < COLS
    BY KeyboardAssumption DEF TypeOK, Cols
  <2>2. CASE data = Enter
    <3>1. cursor_x' = 0 /\ cursor_y' = cursor_y + 1
      BY <1>2, <2>2, KeyboardAssumption DEF keyboard_handler
    <3> QED
      BY <2>1, <3>1 DEF Cols
  <2>3. CASE data # Enter /\ data = Backspace
    <3>1. Rubout
      BY <1>2, <2>3, KeyboardAssumption DEF keyboard_handler
    <3> QED
      BY <2>1, <3>1 DEF Rubout, Cols
  <2>4. CASE data # Enter /\ data # Backspace /\ data \in Chars
    <3>1. Draw(data)
      BY <1>2, <2>4 DEF keyboard_handler
    <3> QED
      BY <2>1, <3>1 DEF Draw, Wraps, Cols
  <2>5. CASE data # Enter /\ data # Backspace /\ data \notin Chars
    BY <1>2, <2>1, <2>5 DEF keyboard_handler, Cols
  <2> QED
    BY <2>2, <2>3, <2>4, <2>5
<1>7. cursor_y \in Nat /\ FirstRow \in Nat /\ MaxKeys \in Nat
      /\ FirstRow <= cursor_y /\ cursor_y <= FirstRow + Len(reads)
  BY KeyboardAssumption DEF TypeOK, Rows, Bounded
<1>8. Len(reads) + 1 <= MaxKeys
  BY <1>1, UnreadKey
<1>9. Bounded'
  BY <1>3, <1>4, <1>6, <1>7 DEF Bounded
<1>10. cursor_y' \in Rows
  BY <1>4, <1>6, <1>7, <1>8 DEF Rows
<1>11. TypeOK'
  <2>1. UNCHANGED <<base, imr, irr, isr>>
    BY <1>2 DEF pic
  <2>2. main' \in {"clear", "icw1", "icw2", "mask", "gate", "lidt", "sti",
                   "init_pmm", "alloc", "hlt", "panic"}
    BY <1>2 DEF TypeOK
  <2>3. /\ gates' \subseteq 0..255 /\ idtr' \in BOOLEAN /\ ifl' \in BOOLEAN
        /\ fault' \in BOOLEAN /\ int_num' \in Arguments \cup {0}
    BY <1>2 DEF TypeOK
  <2>4. base' \in {8, 32} /\ imr' \in BOOLEAN /\ irr' \in BOOLEAN
        /\ isr' \in BOOLEAN
    BY <2>1 DEF TypeOK
  <2>5. data' \in Keys /\ fifo' \in Seq(Keys) /\ early' \in BOOLEAN
        /\ pressed' \in Seq(Keys)
    BY <1>3 DEF TypeOK
  <2> QED
    BY <1>2, <1>3, <1>4, <1>6, <1>10, <2>2, <2>3, <2>4, <2>5 DEF TypeOK
<1>12. EveryInterruptHasItsGate' /\ OneHandlerAtATime'
  BY <1>1, <1>2 DEF EveryInterruptHasItsGate, OneHandlerAtATime, pic
<1>13. FullBufferIsRequested' /\ RequestHasByte'
  BY <1>1, <1>2, <1>3 DEF FullBufferIsRequested, RequestHasByte, pic
<1>14. BootProgress'
  BY <1>2 DEF BootProgress, pic
<1> QED
  BY <1>5, <1>9, <1>11, <1>12, <1>13, <1>14

\* Called with another number the handler reads nothing, and the byte stays.
LEMMA IgnorePreserves == IInv /\ isr_handler /\ int_num # 33 => IInv'
<1> SUFFICES ASSUME IInv, isr_handler, int_num # 33 PROVE IInv'
  OBVIOUS
<1> USE DEF IInv
<1>1. /\ hpc = "isr_handler" /\ hpc' = "eoi" /\ int_num \in Arguments
      /\ UNCHANGED <<device, driver, main, gates, idtr, ifl, int_num, fault, pic>>
  BY DEF isr_handler, RequestHasByte
<1>2. Unrecognised'
  BY <1>1, KeyboardAssumption DEF Unrecognised
<1>3. TypeOK'
  BY <1>1 DEF TypeOK, device, driver, pic
<1>4. /\ EveryKeyAccounted' /\ Bounded' /\ EveryInterruptHasItsGate'
      /\ OneHandlerAtATime'
  BY <1>1 DEF EveryKeyAccounted, Bounded, EveryInterruptHasItsGate,
              OneHandlerAtATime, device, driver, pic
<1>5. FullBufferIsRequested' /\ BootProgress' /\ RequestHasByte'
  BY <1>1, <1>2 DEF FullBufferIsRequested, BootProgress, RequestHasByte,
                    device, pic
<1> QED
  BY <1>3, <1>4, <1>5

\* The EOI ends the service of the line, the iret enables interrupts again.
LEMMA ReturnPreserves == IInv /\ (EOI \/ Iret) => IInv'
<1> SUFFICES ASSUME IInv, EOI \/ Iret PROVE IInv'
  OBVIOUS
<1> USE DEF IInv
<1>1. /\ UNCHANGED <<main, gates, idtr, int_num, fault, base, imr, irr,
                     device, driver>>
      /\ hpc \in {"eoi", "iret"} /\ hpc' # "isr_handler"
  BY DEF EOI, Iret, pic
<1>2. main \in Enabled
  BY <1>1 DEF OneHandlerAtATime, Enabled
<1>3. TypeOK'
  <2>1. UNCHANGED <<obf, data, fifo, early, pressed, cursor_x, cursor_y, reads>>
    BY <1>1 DEF device, driver
  <2>2. /\ ifl' \in BOOLEAN /\ isr' \in BOOLEAN
        /\ hpc' \in {"iret", "none", "lost"}
    BY KeyboardAssumption DEF EOI, Iret, pic, TypeOK
  <2> QED
    BY <1>1, <2>1, <2>2 DEF TypeOK
<1>4. EveryKeyAccounted' /\ Bounded' /\ EveryInterruptHasItsGate'
  BY <1>1 DEF EveryKeyAccounted, Bounded, EveryInterruptHasItsGate, device,
              driver
<1>5. OneHandlerAtATime'
  BY DEF OneHandlerAtATime, EOI, Iret, pic
<1>6. FullBufferIsRequested' /\ RequestHasByte'
  BY <1>1 DEF FullBufferIsRequested, Unrecognised, RequestHasByte, device
<1>7. BootProgress'
  BY <1>1, <1>2 DEF BootProgress
<1> QED
  BY <1>3, <1>4, <1>5, <1>6, <1>7

\* The inductive invariant of the keyboard's interrupts.
THEOREM KeyboardInvariant == Spec => []IInv
<1>1. Init => IInv
  BY InitEstablishes
<1>2. IInv /\ [Next]_vars => IInv'
  <2> SUFFICES ASSUME IInv, [Next]_vars PROVE IInv'
    OBVIOUS
  <2>1. CASE kernel_main
    BY <2>1, MainPreserves
  <2>2. CASE \E k \in Keys : Press(k)
    BY <2>2, PressPreserves
  <2>3. CASE Load
    BY <2>3, LoadPreserves
  <2>4. CASE Deliver
    BY <2>4, DeliverPreserves
  <2>5. CASE Handler
    BY <2>5, ReadPreserves, IgnorePreserves, ReturnPreserves DEF Handler
  <2>6. CASE UNCHANGED vars
    BY <2>6 DEF vars, cpu, pic, device, driver, IInv, TypeOK,
       EveryInterruptHasItsGate, EveryKeyAccounted, OneHandlerAtATime,
       FullBufferIsRequested, Unrecognised, BootProgress, RequestHasByte,
       Bounded
  <2> QED
    BY <2>1, <2>2, <2>3, <2>4, <2>5, <2>6 DEF Next
<1> QED
  BY <1>1, <1>2, PTL DEF Spec

-----------------------------------------------------------------------------
(* The echo on the screen                                                  *)

\* The screen and the cursor show the text of the scancodes read so far.
EchoInv ==
  /\ echo \in [Rows -> [Cols -> Chars \cup {Space}]]
  /\ EchoIsTyped

\* Its last row is where the cursor is; the rows behind it are empty.
LEMMA TextAtCursor ==
  ASSUME IInv, EchoInv, NEW text, text = Typed(reads)
  PROVE  /\ text \in Texts /\ text \in Seq(Seq(Chars))
         /\ Len(text) \in Nat \ {0}
         /\ cursor_y = FirstRow + Len(text) - 1
         /\ text[Len(text)] \in Seq(Chars)
         /\ cursor_x = Len(text[Len(text)]) /\ cursor_x \in Nat
         /\ cursor_x < COLS /\ cursor_x \in Cols /\ cursor_y \in Rows
         /\ \A r \in Rows, x \in Cols : echo[r][x] = Cell(text, r, x)
<1>1. reads \in Seq(Keys) /\ data \in Keys /\ cursor_x \in Cols /\ cursor_y \in Rows
  BY DEF IInv, TypeOK
<1>2. text \in Texts
  BY <1>1, TypedAppend
<1>3. text \in Seq(Seq(Chars)) /\ Len(text) \in Nat \ {0}
  BY <1>2, LenProperties DEF Texts
<1>4. text[Len(text)] \in Seq(Chars) /\ Len(text[Len(text)]) < COLS
  BY <1>2, <1>3 DEF Texts
<1>5. Last(text) = text[Len(text)]
  BY DEF Last
<1> QED
  BY <1>1, <1>2, <1>3, <1>4, <1>5, LenProperties DEF EchoInv, EchoIsTyped

\* A new empty row shows nothing new.
LEMMA NewRowShows ==
  ASSUME NEW rows \in Seq(Seq(Chars)), NEW r \in Rows, NEW x \in Cols
  PROVE  /\ Len(Append(rows, <<>>)) = Len(rows) + 1
         /\ Append(rows, <<>>)[Len(rows) + 1] = <<>>
         /\ Cell(Append(rows, <<>>), r, x) = Cell(rows, r, x)
<1> DEFINE more == Append(rows, <<>>)
           i == r - FirstRow + 1
<1>1. /\ rows \in Seq(Seq(Chars)) /\ Len(rows) \in Nat
      /\ <<>> \in Seq(Chars) /\ Len(<<>>) = 0
  BY LenProperties, EmptySeq
<1>2. /\ Len(more) = Len(rows) + 1 /\ more[Len(rows) + 1] = <<>>
      /\ \A j \in 1 .. Len(rows) : more[j] = rows[j]
  BY <1>1, AppendProperties
<1>3. i \in Nat \ {0} /\ x \in Nat
  BY KeyboardAssumption DEF Rows, Cols
<1>4. Cell(more, r, x) = Cell(rows, r, x)
  <2> HIDE DEF more, i
  <2>1. Cell(more, r, x) = IF i <= Len(more) /\ x < Len(more[i])
                             THEN more[i][x + 1] ELSE Space
    BY DEF Cell, i
  <2>2. Cell(rows, r, x) = IF i <= Len(rows) /\ x < Len(rows[i])
                             THEN rows[i][x + 1] ELSE Space
    BY DEF Cell, i
  <2>3. CASE i <= Len(rows)
    <3>1. more[i] = rows[i] /\ i <= Len(more)
      BY <1>1, <1>2, <1>3, <2>3
    <3> QED
      BY <2>1, <2>2, <2>3, <3>1
  <2>4. CASE i = Len(rows) + 1
    <3>1. Len(more[i]) = 0 /\ ~(i <= Len(rows))
      BY <1>1, <1>2, <2>4
    <3> QED
      BY <1>3, <2>1, <2>2, <3>1
  <2>5. CASE i > Len(rows) + 1
    BY <1>1, <1>2, <1>3, <2>1, <2>2, <2>5
  <2> QED
    BY <1>1, <1>3, <2>3, <2>4, <2>5
<1> QED
  BY <1>2, <1>4

\* Another last row shows where it differs, and only there.
LEMMA PutShows ==
  ASSUME NEW rows \in Texts, NEW row \in Seq(Chars),
         NEW r \in Rows, NEW x \in Cols
  PROVE  /\ Len([rows EXCEPT ![Len(rows)] = row]) = Len(rows)
         /\ [rows EXCEPT ![Len(rows)] = row][Len(rows)] = row
         /\ Cell([rows EXCEPT ![Len(rows)] = row], r, x) =
              IF r # FirstRow + Len(rows) - 1 THEN Cell(rows, r, x)
              ELSE IF x < Len(row) THEN row[x + 1] ELSE Space
<1> DEFINE put == [rows EXCEPT ![Len(rows)] = row]
           i == r - FirstRow + 1
           shown == IF r # FirstRow + Len(rows) - 1 THEN Cell(rows, r, x)
                    ELSE IF x < Len(row) THEN row[x + 1] ELSE Space
<1>1. rows \in Seq(Seq(Chars)) /\ Len(rows) \in Nat /\ Len(rows) \in 1 .. Len(rows)
  BY LenProperties DEF Texts
<1>2. /\ Len(put) = Len(rows) /\ put[Len(rows)] = row
      /\ \A j \in 1 .. Len(rows) : j # Len(rows) => put[j] = rows[j]
  BY <1>1, ExceptSeq
<1>3. i \in Nat \ {0} /\ x \in Nat /\ r \in Nat /\ FirstRow \in Nat
      /\ (r # FirstRow + Len(rows) - 1 <=> i # Len(rows))
  BY <1>1, KeyboardAssumption DEF Rows, Cols
<1>4. Cell(put, r, x) = IF i <= Len(put) /\ x < Len(put[i])
                          THEN put[i][x + 1] ELSE Space
  BY DEF Cell
<1>5. Cell(rows, r, x) = IF i <= Len(rows) /\ x < Len(rows[i])
                           THEN rows[i][x + 1] ELSE Space
  BY DEF Cell
<1> HIDE DEF put, i
<1>6. ASSUME i = Len(rows) PROVE Cell(put, r, x) = shown
  <2>1. Cell(put, r, x) = IF x < Len(row) THEN row[x + 1] ELSE Space
    BY <1>1, <1>2, <1>4, <1>6
  <2> QED
    BY <1>3, <1>6, <2>1
<1>7. ASSUME i # Len(rows) PROVE Cell(put, r, x) = shown
  <2>1. CASE i <= Len(rows)
    <3>1. put[i] = rows[i]
      BY <1>1, <1>2, <1>3, <1>7, <2>1
    <3>2. Cell(put, r, x) = Cell(rows, r, x)
      BY <1>2, <1>4, <1>5, <2>1, <3>1
    <3> QED
      BY <1>3, <1>7, <3>2
  <2>2. CASE ~(i <= Len(rows))
    <3>1. Cell(put, r, x) = Cell(rows, r, x)
      BY <1>2, <1>4, <1>5, <2>2
    <3> QED
      BY <1>3, <1>7, <3>1
  <2> QED
    BY <2>1, <2>2
<1>8. Cell(put, r, x) = shown
  BY <1>6, <1>7
<1> QED
  BY <1>2, <1>8 DEF put

\* The screen is empty, and nothing is typed.
LEMMA EchoInit == Init => EchoInv
<1> SUFFICES ASSUME Init PROVE EchoInv
  OBVIOUS
<1>1. /\ Typed(reads) = << <<>> >> /\ Len(<< <<>> >>) = 1
      /\ Last(<< <<>> >>) = <<>> /\ Len(<<>>) = 0
  BY TypedNothing DEF Init, Last
<1>2. cursor_x = 0 /\ cursor_y = FirstRow /\ FirstRow \in Nat
  BY KeyboardAssumption DEF Init
<1>3. echo \in [Rows -> [Cols -> Chars \cup {Space}]]
  BY DEF Init
<1>4. ASSUME NEW r \in Rows, NEW x \in Cols
      PROVE  echo[r][x] = Cell(<< <<>> >>, r, x)
  <2>1. echo[r][x] = Space
    BY DEF Init
  <2>2. x >= 0 /\ x \in Int /\ r - FirstRow + 1 >= 1 /\ r \in Int
    BY KeyboardAssumption DEF Rows, Cols
  <2>3. ~(r - FirstRow + 1 <= 1 /\ x < Len(<< <<>> >>[r - FirstRow + 1]))
    <3>1. CASE r - FirstRow + 1 = 1
      BY <1>1, <2>2, <3>1
    <3> QED
      BY <1>2, <2>2, <3>1
  <2> QED
    BY <1>1, <2>1, <2>3 DEF Cell
<1> QED
  BY <1>1, <1>2, <1>3, <1>4 DEF EchoInv, EchoIsTyped

\* What is to be shown once a byte is read, with the screen and the cursor
\* that the handler leaves.
LEMMA EchoAfterRead ==
  ASSUME IInv, EchoInv, isr_handler, int_num = 33,
         NEW text, text = Edit(Typed(reads), data),
         Len(text) \in Nat,
         cursor_y' = FirstRow + Len(text) - 1,
         cursor_x' = Len(text[Len(text)]),
         echo' \in [Rows -> [Cols -> Chars \cup {Space}]],
         \A r \in Rows, x \in Cols : echo'[r][x] = Cell(text, r, x)
  PROVE  EchoInv'
<1>1. reads \in Seq(Keys) /\ data \in Keys /\ int_num = 33
  BY DEF IInv, TypeOK
<1>2. reads' = Append(reads, data)
  BY <1>1 DEF isr_handler, keyboard_handler, inb
<1>3. Typed(reads') = text
  BY <1>1, <1>2, TypedAppend
<1>4. Last(text) = text[Len(text)]
  BY DEF Last
<1>5. EchoIsTyped'
  BY <1>3, <1>4 DEF EchoIsTyped
<1> QED
  BY <1>5 DEF EchoInv

\* keyboard_handler edits the screen the way the scancode edits the text.
LEMMA ReadShows ==
  IInv /\ EchoInv /\ isr_handler /\ int_num = 33 => EchoInv'
<1> SUFFICES ASSUME IInv, EchoInv, isr_handler, int_num = 33 PROVE EchoInv'
  OBVIOUS
<1> DEFINE text == Typed(reads)
           n == Len(text)
           row == text[n]
           new == Edit(text, data)
           put(r) == [text EXCEPT ![n] = r]
<1>1. /\ text \in Texts /\ text \in Seq(Seq(Chars)) /\ n \in Nat \ {0}
      /\ cursor_y = FirstRow + n - 1
      /\ row \in Seq(Chars) /\ cursor_x = Len(row) /\ cursor_x \in Nat
      /\ cursor_x < COLS /\ cursor_x \in Cols /\ cursor_y \in Rows
      /\ \A r \in Rows, x \in Cols : echo[r][x] = Cell(text, r, x)
  BY TextAtCursor
<1>2. keyboard_handler /\ int_num = 33
  BY DEF isr_handler
<1>3. COLS \in Nat \ {0} /\ FirstRow \in Nat /\ Enter # Backspace
      /\ echo \in [Rows -> [Cols -> Chars \cup {Space}]]
  BY KeyboardAssumption DEF EchoInv
<1>4. new = CASE data = Enter -> Append(text, <<>>)
              [] data = Backspace -> IF row = <<>> THEN text ELSE put(Front(row))
              [] data \in Chars ->
                   IF Len(row) + 1 = COLS
                     THEN Append(put(Append(row, data)), <<>>)
                     ELSE put(Append(row, data))
              [] OTHER -> text
  BY DEF Edit
<1>5. new = Edit(Typed(reads), data)
  OBVIOUS
<1>6. CASE data = Enter
  <2>1. new = Append(text, <<>>)
    BY <1>4, <1>6, KeyboardAssumption
  <2>2. cursor_x' = 0 /\ cursor_y' = cursor_y + 1 /\ echo' = echo
    BY <1>2, <1>6, KeyboardAssumption DEF keyboard_handler
  <2>3. \A r \in Rows, x \in Cols : Cell(Append(text, <<>>), r, x) = Cell(text, r, x)
    BY <1>1, NewRowShows
  <2>4. Len(Append(text, <<>>)) = n + 1 /\ Append(text, <<>>)[n + 1] = <<>>
    BY <1>1, AppendProperties
  <2>9. Len(new) = n + 1
    BY <2>1, <2>4
  <2> HIDE DEF new, text, n
  <2>5. Len(new) \in Nat /\ cursor_y' = FirstRow + Len(new) - 1
    BY <1>1, <1>3, <2>2, <2>9
  <2>6. cursor_x' = Len(new[Len(new)])
    BY <2>1, <2>2, <2>4
  <2>7. echo' \in [Rows -> [Cols -> Chars \cup {Space}]]
    BY <1>3, <2>2
  <2>8. \A r \in Rows, x \in Cols : echo'[r][x] = Cell(new, r, x)
    BY <1>1, <2>1, <2>2, <2>3
  <2> QED
    BY <1>5, <2>5, <2>6, <2>7, <2>8, EchoAfterRead
<1>7. CASE data # Enter /\ data = Backspace
  <2>1. Rubout
    BY <1>2, <1>7, KeyboardAssumption DEF keyboard_handler
  <2>2. new = IF row = <<>> THEN text ELSE put(Front(row))
    BY <1>4, <1>7, KeyboardAssumption
  <2>3. CASE row = <<>>
    <3>1. cursor_x = 0 /\ UNCHANGED <<cursor_x, cursor_y, echo>> /\ new = text
      BY <1>1, <2>1, <2>2, <2>3 DEF Rubout
    <3> HIDE DEF new
    <3>2. /\ Len(new) \in Nat /\ cursor_y' = FirstRow + Len(new) - 1
          /\ cursor_x' = Len(new[Len(new)])
          /\ echo' \in [Rows -> [Cols -> Chars \cup {Space}]]
          /\ \A r \in Rows, x \in Cols : echo'[r][x] = Cell(new, r, x)
      BY <1>1, <1>3, <3>1
    <3> QED
      BY <1>5, <3>2, EchoAfterRead DEF new
  <2>4. CASE row # <<>>
    <3>1. Len(row) > 0
      BY <1>1, <2>4, EmptySeq
    <3>2. /\ Front(row) \in Seq(Chars) /\ Len(Front(row)) = Len(row) - 1
          /\ \A i \in 1 .. Len(row) - 1 : Front(row)[i] = row[i]
      BY <1>1, <3>1, SubSeqProperties, ElementOfSeq DEF Front
    <3>3. /\ cursor_x' = cursor_x - 1 /\ cursor_y' = cursor_y
          /\ echo' = [echo EXCEPT ![cursor_y][cursor_x - 1] = Space]
      BY <1>1, <2>1, <3>1 DEF Rubout
    <3>4. /\ Len(put(Front(row))) = n /\ put(Front(row))[n] = Front(row)
      BY <1>1, <3>2, ExceptSeq
    <3>5. \A r \in Rows, x \in Cols :
            Cell(put(Front(row)), r, x) =
              IF r # FirstRow + n - 1 THEN Cell(text, r, x)
              ELSE IF x < Len(Front(row)) THEN Front(row)[x + 1] ELSE Space
      <4> DEFINE front == Front(row)
      <4>1. front \in Seq(Chars)
        BY <3>2
      <4> HIDE DEF front
      <4>2. \A r \in Rows, x \in Cols :
              Cell(put(front), r, x) =
                IF r # FirstRow + n - 1 THEN Cell(text, r, x)
                ELSE IF x < Len(front) THEN front[x + 1] ELSE Space
        BY <1>1, <4>1, PutShows
      <4> QED
        BY <4>2 DEF front
    <3>6. new = put(Front(row))
      BY <2>2, <2>4
    <3> HIDE DEF new, text, put, n, row
    <3>7. /\ Len(new) \in Nat /\ cursor_y' = FirstRow + Len(new) - 1
          /\ cursor_x' = Len(new[Len(new)])
      BY <1>1, <1>3, <3>2, <3>3, <3>4, <3>6
    <3>8. cursor_x - 1 \in Cols
      BY <1>1, <1>3, <3>1 DEF Cols, row, n, text
    <3>9. echo' \in [Rows -> [Cols -> Chars \cup {Space}]]
      BY <1>1, <1>3, <3>3, <3>8
    <3>10. ASSUME NEW r \in Rows, NEW x \in Cols
           PROVE  echo'[r][x] = Cell(new, r, x)
      <4>1. r \in Int /\ x \in Int /\ x >= 0
        BY <1>3 DEF Rows, Cols
      <4>2. CASE r # cursor_y
        <5>1. echo'[r][x] = echo[r][x]
          BY <1>3, <3>3, <4>2
        <5> QED
          BY <1>1, <3>5, <3>6, <4>2, <5>1
      <4>3. CASE r = cursor_y /\ x = cursor_x - 1
        <5>1. echo'[r][x] = Space
          BY <1>1, <1>3, <3>3, <3>8, <4>3
        <5>2. ~(x < Len(Front(row)))
          BY <1>1, <3>2, <4>3
        <5> QED
          BY <1>1, <3>5, <3>6, <4>3, <5>1, <5>2
      <4>4. CASE r = cursor_y /\ x # cursor_x - 1
        <5>1. echo'[r][x] = Cell(text, r, x)
          BY <1>1, <1>3, <3>3, <3>8, <4>4
        <5>2. Cell(text, r, x) = IF x < Len(row) THEN row[x + 1] ELSE Space
          <6>1. r - FirstRow + 1 = n
            BY <1>1, <1>3, <4>4
          <6> QED
            BY <1>1, <6>1 DEF Cell, row, n
        <5>3. CASE x < Len(Front(row))
          <6>1. x + 1 \in 1 .. Len(row) - 1 /\ x < Len(row)
            BY <1>1, <3>2, <4>1, <5>3
          <6> QED
            BY <1>1, <3>2, <3>5, <3>6, <4>4, <5>1, <5>2, <5>3, <6>1
        <5>4. CASE ~(x < Len(Front(row)))
          <6>1. ~(x < Len(row))
            BY <1>1, <3>2, <4>1, <4>4, <5>4
          <6> QED
            BY <1>1, <3>5, <3>6, <4>4, <5>1, <5>2, <5>4, <6>1
        <5> QED
          BY <5>3, <5>4
      <4> QED
        BY <4>2, <4>3, <4>4
    <3> QED
      BY <1>5, <3>7, <3>9, <3>10, EchoAfterRead DEF new, text
  <2> QED
    BY <2>3, <2>4
<1>8. CASE data # Enter /\ data # Backspace /\ data \in Chars
  <2> DEFINE longer == Append(row, data)
  <2>1. Draw(data)
    BY <1>2, <1>8 DEF keyboard_handler
  <2>2. new = IF Len(row) + 1 = COLS THEN Append(put(longer), <<>>) ELSE put(longer)
    BY <1>4, <1>8
  <2>3. /\ longer \in Seq(Chars) /\ Len(longer) = Len(row) + 1
        /\ \A i \in 1 .. Len(row) : longer[i] = row[i]
        /\ longer[Len(row) + 1] = data
    BY <1>1, <1>8, AppendProperties
  <2> HIDE DEF longer
  <2>4. /\ Len(put(longer)) = n /\ put(longer)[n] = longer
        /\ put(longer) \in Seq(Seq(Chars))
    BY <1>1, <2>3, ExceptSeq
  <2>5. \A r \in Rows, x \in Cols :
          Cell(put(longer), r, x) =
            IF r # FirstRow + n - 1 THEN Cell(text, r, x)
            ELSE IF x < Len(longer) THEN longer[x + 1] ELSE Space
    <3>1. longer \in Seq(Chars)
      BY <2>3
    <3> QED
      BY <1>1, <3>1, PutShows
  <2>6. echo' = [echo EXCEPT ![cursor_y][cursor_x] = data]
    BY <2>1 DEF Draw
  <2>7. echo' \in [Rows -> [Cols -> Chars \cup {Space}]]
    BY <1>1, <1>3, <1>8, <2>6
  <2>8. ASSUME NEW r \in Rows, NEW x \in Cols
        PROVE  echo'[r][x] = Cell(put(longer), r, x)
    <3> HIDE DEF new, text, put, n, row
    <3>1. r \in Int /\ x \in Int /\ x >= 0
      BY <1>3 DEF Rows, Cols
    <3>2. CASE r # cursor_y
      <4>1. echo'[r][x] = echo[r][x]
        BY <1>3, <2>6, <3>2
      <4> QED
        BY <1>1, <2>5, <3>2, <4>1
    <3>3. CASE r = cursor_y /\ x = cursor_x
      <4>1. echo'[r][x] = data
        BY <1>1, <1>3, <2>6, <3>3
      <4>2. x < Len(longer) /\ longer[x + 1] = data
        BY <1>1, <2>3, <3>3
      <4> QED
        BY <1>1, <2>5, <3>3, <4>1, <4>2
    <3>4. CASE r = cursor_y /\ x # cursor_x
      <4>1. echo'[r][x] = Cell(text, r, x)
        BY <1>1, <1>3, <2>6, <3>4
      <4>2. Cell(text, r, x) = IF x < Len(row) THEN row[x + 1] ELSE Space
        <5>1. r - FirstRow + 1 = n
          BY <1>1, <1>3, <3>4
        <5> QED
          BY <1>1, <5>1 DEF Cell, row, n
      <4>3. CASE x < Len(row)
        <5>1. x + 1 \in 1 .. Len(row) /\ x < Len(longer)
          BY <1>1, <2>3, <3>1, <4>3
        <5> QED
          BY <1>1, <2>3, <2>5, <3>4, <4>1, <4>2, <4>3, <5>1
      <4>4. CASE ~(x < Len(row))
        <5>1. ~(x < Len(longer))
          BY <1>1, <2>3, <3>1, <3>4, <4>4
        <5> QED
          BY <1>1, <2>5, <3>4, <4>1, <4>2, <4>4, <5>1
      <4> QED
        BY <4>3, <4>4
    <3> QED
      BY <3>2, <3>3, <3>4
  <2>9. CASE Len(row) + 1 = COLS
    <3>1. new = Append(put(longer), <<>>)
      BY <2>2, <2>9
    <3>2. cursor_x' = 0 /\ cursor_y' = cursor_y + 1
      BY <1>1, <1>3, <2>1, <2>9 DEF Draw, Wraps
    <3>3. /\ Len(Append(put(longer), <<>>)) = n + 1
          /\ Append(put(longer), <<>>)[n + 1] = <<>>
      <4>1. <<>> \in Seq(Chars)
        BY EmptySeq
      <4>2. ASSUME NEW s \in Seq(Seq(Chars))
            PROVE  /\ Len(Append(s, <<>>)) = Len(s) + 1
                   /\ Append(s, <<>>)[Len(s) + 1] = <<>>
        BY <4>1, AppendProperties
      <4>3. put(longer) \in Seq(Seq(Chars)) /\ Len(put(longer)) = n
        BY <2>4
      <4> HIDE DEF put, n
      <4> QED
        BY <4>2, <4>3
    <3>4. \A r \in Rows, x \in Cols :
            Cell(Append(put(longer), <<>>), r, x) = Cell(put(longer), r, x)
      BY <2>4, NewRowShows
    <3>5. Len(new) = n + 1 /\ Len(new[n + 1]) = 0
      BY <3>1, <3>3
    <3> HIDE DEF new, text, put, n, row
    <3>6. /\ Len(new) \in Nat /\ cursor_y' = FirstRow + Len(new) - 1
          /\ cursor_x' = Len(new[Len(new)])
      BY <1>1, <1>3, <3>2, <3>5
    <3>7. \A r \in Rows, x \in Cols : echo'[r][x] = Cell(new, r, x)
      BY <2>8, <3>1, <3>4
    <3> QED
      BY <1>5, <2>7, <3>6, <3>7, EchoAfterRead DEF new, text
  <2>10. CASE Len(row) + 1 # COLS
    <3>1. new = put(longer)
      BY <2>2, <2>10
    <3>2. cursor_x' = cursor_x + 1 /\ cursor_y' = cursor_y
      BY <1>1, <1>3, <2>1, <2>10 DEF Draw, Wraps
    <3> HIDE DEF new, text, put, n, row
    <3>3. /\ Len(new) \in Nat /\ cursor_y' = FirstRow + Len(new) - 1
          /\ cursor_x' = Len(new[Len(new)])
      BY <1>1, <1>3, <2>3, <2>4, <3>1, <3>2
    <3>4. \A r \in Rows, x \in Cols : echo'[r][x] = Cell(new, r, x)
      BY <2>8, <3>1
    <3> QED
      BY <1>5, <2>7, <3>3, <3>4, EchoAfterRead DEF new, text
  <2> QED
    BY <2>9, <2>10
<1>9. CASE data # Enter /\ data # Backspace /\ data \notin Chars
  <2>1. new = text
    BY <1>4, <1>9
  <2>2. UNCHANGED <<cursor_x, cursor_y, echo>>
    BY <1>2, <1>9 DEF keyboard_handler
  <2> HIDE DEF new
  <2>3. /\ Len(new) \in Nat /\ cursor_y' = FirstRow + Len(new) - 1
        /\ cursor_x' = Len(new[Len(new)])
        /\ echo' \in [Rows -> [Cols -> Chars \cup {Space}]]
        /\ \A r \in Rows, x \in Cols : echo'[r][x] = Cell(new, r, x)
    BY <1>1, <1>3, <2>1, <2>2
  <2> QED
    BY <1>5, <2>3, EchoAfterRead DEF new
<1> QED
  BY <1>6, <1>7, <1>8, <1>9

-----------------------------------------------------------------------------
(* What it shows                                                           *)

\* Cursor, buffer, PIC and kernel_main keep their types: keyboard_handler's
\* cursor stays in its row, and moves down at most once per key.
THEOREM TypeCorrect == Spec => []TypeOK
<1>1. IInv => TypeOK
  BY DEF IInv
<1> QED
  BY <1>1, KeyboardInvariant, PTL

\* Whenever keys are pressed during the boot, an interrupt that the CPU takes
\* finds the table loaded and isr1 in it (idth.c:40-58).
THEOREM GateWhenDelivered == Spec => []EveryInterruptHasItsGate
<1>1. IInv => EveryInterruptHasItsGate
  BY DEF IInv
<1> QED
  BY <1>1, KeyboardInvariant, PTL

\* No scancode is lost, doubled or overtaken between the keyboard and
\* keyboard_handler's inb (keyboard.c:17), for any number of keys.
THEOREM NoKeyLost == Spec => []EveryKeyAccounted
<1>1. IInv => EveryKeyAccounted
  BY DEF IInv
<1> QED
  BY <1>1, KeyboardInvariant, PTL

\* The handler is never entered while it runs, and the PIC holds the line in
\* service exactly until its EOI (idth.c:61-73).
THEOREM HandlerAlone == Spec => []OneHandlerAtATime
<1>1. IInv => OneHandlerAtATime
  BY DEF IInv
<1> QED
  BY <1>1, KeyboardInvariant, PTL

\* After the PIC's reset a byte in the buffer is requested or being read, or
\* it was there at the reset (idth.c:23), or isr_handler was called with
\* another number than 33 (idth.c:62): nothing else makes the keyboard stick,
\* whatever the stub leaves and wherever its iret goes.
THEOREM NotStuck == Spec => []FullBufferIsRequested
<1>1. IInv => FullBufferIsRequested
  BY DEF IInv
<1> QED
  BY <1>1, KeyboardInvariant, PTL

\* After any number of keys the screen shows the text that they stand for and
\* the cursor is behind it, whatever the width of the screen: wraps, Enters and
\* Backspaces at the start of a row included (keyboard.c:16-37).
THEOREM EchoShowsText == Spec => []EchoIsTyped
<1>1. Init => EchoInv
  BY EchoInit
<1>2. IInv /\ EchoInv /\ [Next]_vars => EchoInv'
  <2> SUFFICES ASSUME IInv, EchoInv, [Next]_vars PROVE EchoInv'
    OBVIOUS
  <2>1. CASE isr_handler /\ int_num = 33
    BY <2>1, ReadShows
  <2>2. CASE UNCHANGED driver
    BY <2>2 DEF driver, EchoInv, EchoIsTyped
  <2>3. (isr_handler /\ int_num = 33) \/ UNCHANGED driver
    BY DEF isr_handler, Next, vars, kernel_main, ClearIdt, ICW1, ICW2, Mask, SetGate, Lidt,
       Sti, InitPmm, TestPmm, Main, Press, Load, Deliver, Handler, EOI, Iret
  <2> QED
    BY <2>1, <2>2, <2>3
<1>3. EchoInv => EchoIsTyped
  BY DEF EchoInv
<1> QED
  BY <1>1, <1>2, <1>3, KeyboardInvariant, PTL DEF Spec

\* Without 33 among what the stub leaves for isr_handler (isr.s:26 leaves ds)
\* no key is ever read, whatever else happens: the branch of idth.c:62 that
\* calls keyboard_handler is never taken.
THEOREM NothingIsRead ==
  ASSUME 33 \notin Arguments PROVE Spec => [](reads = <<>>)
<1>1. Init => reads = <<>>
  BY DEF Init
<1>2. IInv /\ reads = <<>> /\ [Next]_vars => (reads = <<>>)'
  <2> SUFFICES ASSUME IInv, reads = <<>>, [Next]_vars PROVE reads' = reads
    OBVIOUS
  <2>1. isr_handler => int_num # 33
    BY DEF IInv, RequestHasByte, isr_handler
  <2>2. isr_handler \/ UNCHANGED driver
    BY DEF Next, vars, kernel_main, ClearIdt, ICW1, ICW2, Mask, SetGate, Lidt,
       Sti, InitPmm, TestPmm, Main, Press, Load, Deliver, Handler, EOI, Iret
  <2> QED
    BY <2>1, <2>2 DEF isr_handler, driver
<1> QED
  BY <1>1, <1>2, KeyboardInvariant, PTL DEF Spec
=============================================================================
