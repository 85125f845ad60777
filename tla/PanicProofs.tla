---------------------------- MODULE PanicProofs ----------------------------
(***************************************************************************)
(* Proofs about KernelPanic, for messages, file names and line numbers of  *)
(* any length, any stack of frames, and any number of nested panics.       *)
(***************************************************************************)
EXTENDS KernelPanic, SequenceTheorems, TLAPS

Names == {"blank", "label", "message", "value"}

Texts   == [x : Nat, y : Nat, length : Nat, name : Names]
Entries == [by : Nat, text : Texts]

\* Texts that neither are the message nor reach its row from below it.
Low == {t \in Texts : t.y >= 4 /\ t.name # "message"}

Reporting == {"registers", "trace", "frame", "footer", "halt"}

\* The flag is set by whoever printed, and before it printed.
FlagFirst ==
  /\ pc \in {"set", "header"} => screen = <<>>
  /\ screen # <<>> => panic_in_progress
  /\ pc \in {"header"} \cup Reporting => panic_in_progress

\* Once the running activation has printed, all there is is its own.
OwnReport ==
  pc \in Reporting => \A k \in DOMAIN screen : screen[k].by = activation

\* Behind the message only texts of lower rows are printed.
MessageLast ==
  pc \in Reporting =>
    \A k \in DOMAIN screen :
      screen[k].text.name = "message" =>
        /\ screen[k].text = Text(10, 3, panic.message, "message")
        /\ \A l \in k + 1 .. Len(screen) : screen[l].text \in Low

IInv ==
  /\ panic \in Panics
  /\ activation \in Nat /\ i \in Nat
  /\ screen \in Seq(Entries)
  /\ pc \in {"cli", "test", "set", "header", "spin"} \cup Reporting
  /\ FlagFirst
  /\ OneReport
  /\ OwnReport
  /\ MessageLast

LEMMA ScreenIndexes ==
  ASSUME screen \in Seq(Entries)
  PROVE  Len(screen) \in Nat /\ DOMAIN screen = 1 .. Len(screen)
BY LenProperties

\* What a print does to the screen.
LEMMA PrintedTexts ==
  ASSUME screen \in Seq(Entries), activation \in Nat,
         NEW texts \in Seq(Texts)
  PROVE  /\ Printed(texts) \in Seq(Entries)
         /\ Len(Printed(texts)) = Len(screen) + Len(texts)
         /\ Len(screen) \in Nat /\ Len(texts) \in Nat
         /\ \A k \in 1 .. Len(screen) : Printed(texts)[k] = screen[k]
         /\ \A k \in Len(screen) + 1 .. Len(screen) + Len(texts) :
              Printed(texts)[k] =
                [by |-> activation, text |-> texts[k - Len(screen)]]
<1> DEFINE new == [k \in DOMAIN texts |-> [by |-> activation, text |-> texts[k]]]
<1>1. /\ Len(texts) \in Nat /\ DOMAIN texts = 1 .. Len(texts)
      /\ Len(screen) \in Nat
      /\ \A k \in 1 .. Len(texts) : texts[k] \in Texts
  BY LenProperties, ElementOfSeq
<1>2. \A k \in 1 .. Len(texts) :
        [by |-> activation, text |-> texts[k]] \in Entries
  BY <1>1 DEF Entries
<1>3. new \in Seq(Entries) /\ Len(new) = Len(texts)
  <2>1. new \in [1 .. Len(texts) -> Entries]
    BY <1>1, <1>2
  <2>2. new \in Seq(Entries)
    BY <1>1, <2>1, SeqDef
  <2>3. DOMAIN new = 1 .. Len(new) /\ Len(new) \in Nat
    BY <2>2, LenProperties
  <2>4. 1 .. Len(new) = 1 .. Len(texts)
    BY <2>1, <2>3
  <2>5. Len(new) = Len(texts)
    BY <1>1, <2>3, <2>4
  <2> QED
    BY <2>2, <2>5
<1>4. \A k \in 1 .. Len(texts) :
        new[k] = [by |-> activation, text |-> texts[k]]
  BY <1>1
<1> HIDE DEF new
<1>5. /\ screen \o new \in Seq(Entries)
      /\ Len(screen \o new) = Len(screen) + Len(new)
      /\ \A k \in 1 .. Len(screen) + Len(new) :
           (screen \o new)[k] = IF k <= Len(screen) THEN screen[k]
                                ELSE new[k - Len(screen)]
  BY <1>3, ConcatProperties
<1>6. Printed(texts) = screen \o new
  BY DEF Printed, new
<1> QED
  BY <1>1, <1>3, <1>4, <1>5, <1>6

\* A reporting activation that prints texts below the message's row.
LEMMA LowTextsKeep ==
  ASSUME IInv, pc \in Reporting, NEW texts \in Seq(Low),
         screen' = Printed(texts), pc' \in Reporting, i' \in Nat,
         UNCHANGED <<panic, activation, panic_in_progress>>
  PROVE  IInv'
<1> DEFINE n == Len(screen)
           m == Len(texts)
<1>1. screen \in Seq(Entries) /\ activation \in Nat
  BY DEF IInv
<1>2. texts \in Seq(Texts) /\ \A k \in 1 .. m : texts[k] \in Low
  <2>1. Low \subseteq Texts
    BY DEF Low
  <2> QED
    BY <2>1, SeqMonotonic, ElementOfSeq
<1>3. /\ screen' \in Seq(Entries) /\ Len(screen') = n + m
      /\ n \in Nat /\ m \in Nat
      /\ \A k \in 1 .. n : screen'[k] = screen[k]
      /\ \A k \in n + 1 .. n + m :
           screen'[k] = [by |-> activation, text |-> texts[k - n]]
  BY <1>1, <1>2, PrintedTexts
<1>4. DOMAIN screen = 1 .. n /\ DOMAIN screen' = 1 .. n + m
  BY <1>1, <1>3, LenProperties
<1>5. \A k \in n + 1 .. n + m :
        screen'[k].by = activation /\ screen'[k].text \in Low
  <2> SUFFICES ASSUME NEW k \in n + 1 .. n + m
               PROVE  screen'[k].by = activation /\ screen'[k].text \in Low
    OBVIOUS
  <2>1. k \in n + 1 .. n + m
    OBVIOUS
  <2>2. k - n \in 1 .. m
    BY <1>3, <2>1
  <2>3. screen'[k] = [by |-> activation, text |-> texts[k - n]]
    BY <1>3, <2>1
  <2> QED
    BY <1>2, <2>2, <2>3
<1> HIDE DEF n, m
<1>6. \A k \in 1 .. n + m : k \in 1 .. n \/ k \in n + 1 .. n + m
  BY <1>3
<1>7. \A k \in 1 .. n : screen[k].by = activation
  BY <1>4 DEF IInv, OwnReport
<1>8. \A k \in DOMAIN screen' : screen'[k].by = activation
  BY <1>3, <1>4, <1>5, <1>6, <1>7
<1>9. OneReport' /\ OwnReport'
  BY <1>8 DEF OneReport, OwnReport
<1>10. MessageLast'
  <2> SUFFICES ASSUME NEW k \in 1 .. n + m, screen'[k].text.name = "message"
               PROVE  /\ screen'[k].text = Text(10, 3, panic.message, "message")
                      /\ \A l \in k + 1 .. n + m : screen'[l].text \in Low
    BY <1>3, <1>4 DEF MessageLast, Reporting, Low, Texts, Text, n, m
  <2>1. k \in 1 .. n
    BY <1>5, <1>6 DEF Low
  <2>2. screen[k].text.name = "message" /\ screen'[k].text = screen[k].text
    BY <1>3, <2>1
  <2>3. /\ screen[k].text = Text(10, 3, panic.message, "message")
        /\ \A l \in k + 1 .. n : screen[l].text \in Low
    BY <1>4, <2>1, <2>2 DEF IInv, MessageLast, n
  <2>4. ASSUME NEW l \in k + 1 .. n + m PROVE screen'[l].text \in Low
    <3>1. l \in k + 1 .. n + m /\ k \in Nat /\ k >= 1
      BY <1>3, <2>1
    <3>2. l \in 1 .. n + m
      BY <1>3, <3>1
    <3>3. CASE l \in 1 .. n
      <4>1. l \in k + 1 .. n
        BY <1>3, <3>1, <3>3
      <4> QED
        BY <1>3, <2>3, <3>3, <4>1
    <3>4. CASE l \in n + 1 .. n + m
      BY <1>5, <3>4
    <3> QED
      BY <1>6, <3>2, <3>3, <3>4
  <2> QED
    BY <2>2, <2>3, <2>4
<1>11. FlagFirst'
  BY DEF IInv, FlagFirst, Reporting
<1> QED
  BY <1>1, <1>3, <1>9, <1>10, <1>11 DEF IInv

\* A step that prints nothing: it stays in the report, or does not touch it.
LEMMA SilentKeeps ==
  ASSUME IInv, UNCHANGED <<panic, screen>>, activation' \in Nat, i' \in Nat,
         pc' \in {"cli", "test", "spin", "set", "header"} \cup Reporting,
         pc' \in {"set", "header"} => screen = <<>>,
         pc' \in Reporting => pc \in Reporting /\ activation' = activation,
         pc' \in {"header"} \cup Reporting => panic_in_progress',
         panic_in_progress => panic_in_progress'
  PROVE  IInv'
<1>1. /\ panic' \in Panics /\ screen' \in Seq(Entries)
  BY DEF IInv, Panics, Pointers
<1>2. FlagFirst'
  BY DEF IInv, FlagFirst
<1>3. OneReport' /\ OwnReport'
  BY DEF IInv, OneReport, OwnReport, Reporting
<1>4. MessageLast'
  BY DEF IInv, MessageLast, Reporting, Text, Low, Texts
<1> QED
  BY <1>1, <1>2, <1>3, <1>4 DEF IInv, Reporting

-----------------------------------------------------------------------------
(* The texts *)

LEMMA LowText ==
  ASSUME NEW x \in Nat, NEW y \in Nat, NEW length \in Nat, y >= 4
  PROVE  Text(x, y, length, "label") \in Low /\ Text(x, y, length, "value") \in Low
BY DEF Text, Low, Texts, Names

LEMMA LowRegister ==
  ASSUME NEW x \in Nat, NEW y \in Nat, y >= 4
  PROVE  Register(x, y) \in Low
BY LowText DEF Register

LEMMA RegistersLow == Registers \in Seq(Low)
<1>1. /\ Text(2, 6, 14, "label") \in Low
      /\ Text(4, 7, 4, "label") \in Low /\ Register(9, 7) \in Low
      /\ Text(24, 7, 4, "label") \in Low /\ Register(29, 7) \in Low
      /\ Text(44, 7, 4, "label") \in Low /\ Register(49, 7) \in Low
      /\ Text(64, 7, 4, "label") \in Low /\ Register(69, 7) \in Low
  BY LowText, LowRegister
<1>2. /\ Text(4, 8, 4, "label") \in Low /\ Register(9, 8) \in Low
      /\ Text(24, 8, 4, "label") \in Low /\ Register(29, 8) \in Low
      /\ Text(44, 8, 4, "label") \in Low /\ Register(49, 8) \in Low
      /\ Text(64, 8, 4, "label") \in Low /\ Register(69, 8) \in Low
  BY LowText, LowRegister
<1>3. /\ Text(4, 10, 4, "label") \in Low /\ Register(9, 10) \in Low
      /\ Text(24, 10, 3, "label") \in Low /\ Register(29, 10) \in Low
      /\ Text(44, 10, 7, "label") \in Low /\ Register(52, 10) \in Low
  BY LowText, LowRegister
<1> QED
  BY <1>1, <1>2, <1>3 DEF Registers

LEMMA TraceLineLow == ASSUME NEW k \in Nat PROVE TraceLine(k) \in Seq(Low)
<1>1. 9 + k \in Nat /\ 9 + k >= 4
  OBVIOUS
<1>2. Text(4, 9 + k, 3, "label") \in Low /\ Register(8, 9 + k) \in Low
  BY <1>1, LowText, LowRegister
<1> QED
  BY <1>2 DEF TraceLine

LEMMA PanicLengths ==
  ASSUME panic \in Panics
  PROVE  panic.message \in Nat /\ panic.file \in Nat /\ panic.line \in Nat
<1>1. /\ panic.message \in MessageLengths /\ panic.file \in FileLengths
      /\ panic.line \in LineLengths
  BY DEF Panics
<1>2. MessageLengths \subseteq Nat /\ FileLengths \subseteq Nat
  BY PanicAssumption
<1>3. LineLengths \subseteq 1 .. 10
  BY PanicAssumption
<1>4. panic.message \in Nat /\ panic.file \in Nat
  BY <1>1, <1>2
<1>5. panic.line \in 1 .. 10
  BY <1>1, <1>3
<1> QED
  BY <1>4, <1>5

\* The clearing of the screen and the header.
LEMMA HeaderTexts ==
  ASSUME panic \in Panics
  PROVE  /\ Blank \o Header \in Seq(Texts)
         /\ Len(Blank \o Header) = 32
         /\ \A k \in 1 .. 25 : (Blank \o Header)[k].name = "blank"
         /\ \A k \in 26 .. 32 : (Blank \o Header)[k] = Header[k - 25]
<1>1. panic.message \in Nat /\ panic.file \in Nat /\ panic.line \in Nat
  BY PanicLengths
<1>2. \A k \in 1 .. 25 : Text(0, k - 1, 80, "blank") \in Texts
  BY DEF Text, Texts, Names
<1>3. /\ Blank \in [1 .. 25 -> Texts]
      /\ \A k \in 1 .. 25 : Blank[k] = Text(0, k - 1, 80, "blank")
  BY <1>2 DEF Blank, Width, Height
<1>4. Blank \in Seq(Texts) /\ Len(Blank) = 25
  <2>1. Blank \in Seq(Texts)
    BY <1>3, SeqDef
  <2>2. DOMAIN Blank = 1 .. Len(Blank) /\ Len(Blank) \in Nat
    BY <2>1, LenProperties
  <2>3. 1 .. Len(Blank) = 1 .. 25
    BY <1>3, <2>2
  <2> QED
    BY <2>1, <2>2, <2>3
<1>5. Header \in Seq(Texts) /\ Len(Header) = 7
  <2>1. /\ Text(22, 1, 32, "label") \in Texts
        /\ Text(2, 3, 7, "label") \in Texts
        /\ Text(10, 3, panic.message, "message") \in Texts
        /\ Text(2, 4, 3, "label") \in Texts
        /\ Text(6, 4, panic.file, "value") \in Texts
        /\ Text(40, 4, 1, "label") \in Texts
        /\ Text(42, 4, panic.line, "value") \in Texts
    BY <1>1 DEF Text, Texts, Names
  <2> QED
    BY <2>1 DEF Header
<1>6. /\ Blank \o Header \in Seq(Texts)
      /\ Len(Blank \o Header) = Len(Blank) + Len(Header)
      /\ \A k \in 1 .. Len(Blank) + Len(Header) :
           (Blank \o Header)[k] = IF k <= Len(Blank) THEN Blank[k]
                                  ELSE Header[k - Len(Blank)]
  BY <1>4, <1>5, ConcatProperties
<1>7. \A k \in 1 .. 25 : Blank[k].name = "blank"
  BY <1>3 DEF Text
<1>8. Len(Blank \o Header) = 32
  BY <1>4, <1>5, <1>6
<1>9. ASSUME NEW k \in 1 .. 25 PROVE (Blank \o Header)[k] = Blank[k]
  <2>1. k \in 1 .. Len(Blank) + Len(Header) /\ k <= Len(Blank)
    BY <1>4, <1>5
  <2> QED
    BY <1>6, <2>1
<1>10. ASSUME NEW k \in 26 .. 32 PROVE (Blank \o Header)[k] = Header[k - 25]
  <2>1. k \in 1 .. Len(Blank) + Len(Header) /\ ~(k <= Len(Blank))
    BY <1>4, <1>5
  <2> QED
    BY <1>4, <1>6, <2>1
<1> QED
  BY <1>6, <1>7, <1>8, <1>9, <1>10

LEMMA HeaderParts ==
  ASSUME panic \in Panics, NEW k \in 1 .. 7
  PROVE  /\ k = 3 => Header[k] = Text(10, 3, panic.message, "message")
         /\ k # 3 => Header[k].name # "message"
         /\ k > 3 => Header[k] \in Low
<1>1. panic.message \in Nat /\ panic.file \in Nat /\ panic.line \in Nat
  BY PanicLengths
<1>2. /\ Header[1] = Text(22, 1, 32, "label")
      /\ Header[2] = Text(2, 3, 7, "label")
      /\ Header[3] = Text(10, 3, panic.message, "message")
      /\ Header[4] = Text(2, 4, 3, "label")
      /\ Header[5] = Text(6, 4, panic.file, "value")
      /\ Header[6] = Text(40, 4, 1, "label")
      /\ Header[7] = Text(42, 4, panic.line, "value")
  BY DEF Header
<1>3. Header[1].name # "message" /\ Header[2].name # "message"
  BY <1>2 DEF Text
<1>4. /\ Header[4] \in Low /\ Header[5] \in Low
      /\ Header[6] \in Low /\ Header[7] \in Low
  BY <1>1, <1>2, LowText
<1>5. \A t \in Low : t.name # "message"
  BY DEF Low
<1>6. k \in {1, 2, 3, 4, 5, 6, 7}
  OBVIOUS
<1> QED
  BY <1>2, <1>3, <1>4, <1>5, <1>6

\* The first texts printed hold the message once, and only texts of lower
\* rows behind it.
LEMMA HeaderKeeps ==
  ASSUME IInv, PrintHeader
  PROVE  IInv'
<1> DEFINE texts == Blank \o Header
<1>1. /\ pc = "header" /\ pc' = "registers" /\ screen' = Printed(texts)
      /\ UNCHANGED <<panic, activation, panic_in_progress, i>>
  BY DEF PrintHeader, Goto
<1>2. /\ panic \in Panics /\ activation \in Nat /\ screen \in Seq(Entries)
      /\ screen = <<>> /\ panic_in_progress
  BY <1>1 DEF IInv, FlagFirst
<1>3. /\ texts \in Seq(Texts) /\ Len(texts) = 32
      /\ \A k \in 1 .. 25 : texts[k].name = "blank"
      /\ \A k \in 26 .. 32 : texts[k] = Header[k - 25]
  BY <1>2, HeaderTexts
<1>4. Len(screen) = 0
  BY <1>2
<1> HIDE DEF texts
<1>5. /\ screen' \in Seq(Entries)
      /\ Len(screen') = Len(screen) + Len(texts)
      /\ \A k \in Len(screen) + 1 .. Len(screen) + Len(texts) :
           screen'[k] = [by |-> activation, text |-> texts[k - Len(screen)]]
  BY <1>1, <1>2, <1>3, PrintedTexts
<1>6. ASSUME NEW k \in 1 .. 32
      PROVE  screen'[k].by = activation /\ screen'[k].text = texts[k]
  <2>1. k - Len(screen) = k /\ k \in Len(screen) + 1 .. Len(screen) + Len(texts)
    BY <1>3, <1>4
  <2>2. screen'[k] = [by |-> activation, text |-> texts[k - Len(screen)]]
    BY <1>5, <2>1
  <2>3. screen'[k] = [by |-> activation, text |-> texts[k]]
    BY <2>1, <2>2
  <2> QED
    BY <2>3
<1>7. Len(screen') = 32 /\ DOMAIN screen' = 1 .. 32
  <2>1. Len(screen') = 32
    BY <1>3, <1>4, <1>5
  <2>2. DOMAIN screen' = 1 .. Len(screen')
    BY <1>5, LenProperties
  <2> QED
    BY <2>1, <2>2
<1>8. OneReport' /\ OwnReport'
  <2>1. \A k \in DOMAIN screen' : screen'[k].by = activation
    BY <1>6, <1>7
  <2>2. activation' = activation
    BY <1>1
  <2> QED
    BY <2>1, <2>2 DEF OneReport, OwnReport
<1>9. ASSUME NEW k \in 26 .. 32
      PROVE  /\ k = 28 => texts[k] = Text(10, 3, panic.message, "message")
             /\ k # 28 => texts[k].name # "message"
             /\ k > 28 => texts[k] \in Low
  <2>1. k - 25 \in 1 .. 7
    OBVIOUS
  <2>2. \A j \in 26 .. 32 : texts[j] = Header[j - 25]
    BY <1>3
  <2>3. k - 25 \in 1 .. 7 /\ texts[k] = Header[k - 25]
    BY <2>1, <2>2
  <2>4. /\ k = 28 => k - 25 = 3
        /\ k # 28 => k - 25 # 3
        /\ k > 28 => k - 25 > 3
    OBVIOUS
  <2> QED
    BY <1>2, <2>3, <2>4, HeaderParts
<1>10. ASSUME NEW k \in 1 .. 32, texts[k].name = "message" PROVE k = 28
  <2>1. k \in 1 .. 25 \/ k \in 26 .. 32
    OBVIOUS
  <2>2. k \notin 1 .. 25
    BY <1>3, <1>10
  <2> QED
    BY <1>9, <1>10, <2>1, <2>2
<1>11. MessageLast'
  <2> SUFFICES ASSUME NEW k \in 1 .. 32, screen'[k].text.name = "message"
               PROVE  /\ screen'[k].text = Text(10, 3, panic.message, "message")
                      /\ \A l \in k + 1 .. 32 : screen'[l].text \in Low
    BY <1>1, <1>5, <1>7 DEF MessageLast, Low, Texts, Text
  <2>1. k = 28
    BY <1>6, <1>10
  <2>2. screen'[k].text = Text(10, 3, panic.message, "message")
    BY <1>6, <1>9, <2>1
  <2>3. ASSUME NEW l \in 29 .. 32 PROVE screen'[l].text \in Low
    <3>1. l \in 26 .. 32 /\ l > 28 /\ l \in 1 .. 32
      OBVIOUS
    <3> QED
      BY <1>6, <1>9, <3>1
  <2> QED
    BY <2>1, <2>2, <2>3
<1>12. FlagFirst'
  BY <1>1, <1>2 DEF FlagFirst
<1> QED
  BY <1>1, <1>2, <1>5, <1>8, <1>11, <1>12 DEF IInv, Reporting

-----------------------------------------------------------------------------
(* The steps *)

LEMMA IInvInit == Init => IInv
<1> SUFFICES ASSUME Init PROVE IInv
  OBVIOUS
<1>1. screen = <<>> /\ pc = "cli" /\ activation = 1 /\ i = 0 /\ panic \in Panics
  BY DEF Init
<1>2. screen \in Seq(Entries) /\ DOMAIN screen = {}
  BY <1>1
<1>3. FlagFirst
  BY <1>1 DEF FlagFirst, Reporting
<1>4. OneReport /\ OwnReport /\ MessageLast
  BY <1>2 DEF OneReport, OwnReport, MessageLast
<1> QED
  BY <1>1, <1>2, <1>3, <1>4 DEF IInv

LEMMA IInvNext == IInv /\ [Next]_vars => IInv'
<1> SUFFICES ASSUME IInv, [Next]_vars PROVE IInv'
  OBVIOUS
<1>1. /\ activation \in Nat /\ activation + 1 \in Nat /\ i \in Nat
      /\ i + 1 \in Nat /\ 0 \in Nat
  BY DEF IInv
<1>2. CASE Cli
  BY <1>1, <1>2, SilentKeeps DEF Cli, Goto, Reporting
<1>3. CASE Test
  <2>1. ~panic_in_progress => screen = <<>>
    BY DEF IInv, FlagFirst
  <2> QED
    BY <1>1, <1>3, <2>1, SilentKeeps DEF Test, Goto, Reporting
<1>4. CASE Set
  <2>1. screen = <<>>
    BY <1>4 DEF IInv, FlagFirst, Set, Goto
  <2> QED
    BY <1>1, <1>4, <2>1, SilentKeeps DEF Set, Goto, Reporting
<1>5. CASE PrintHeader
  BY <1>5, HeaderKeeps
<1>6. CASE PrintRegisters
  <2>1. CASE panic.regs
    BY <1>1, <1>6, <2>1, RegistersLow, LowTextsKeep
    DEF PrintRegisters, Goto, Reporting
  <2>2. CASE ~panic.regs
    <3>1. panic_in_progress
      BY <1>6 DEF IInv, FlagFirst, PrintRegisters, Goto, Reporting
    <3> QED
      BY <1>1, <1>6, <2>2, <3>1, SilentKeeps DEF PrintRegisters, Goto, Reporting
  <2> QED
    BY <2>1, <2>2
<1>7. CASE TraceTitle
  <2>1. <<Text(2, 8, 12, "label")>> \in Seq(Low)
    BY LowText
  <2> QED
    BY <1>1, <1>7, <2>1, LowTextsKeep DEF TraceTitle, Goto, Reporting
<1>8. CASE PrintFrame
  <2>1. TraceLine(i) \in Seq(Low)
    BY <1>1, TraceLineLow
  <2> QED
    BY <1>1, <1>8, <2>1, LowTextsKeep DEF PrintFrame, Reporting
<1>9. CASE EndTrace
  <2>1. panic_in_progress
    BY <1>9 DEF IInv, FlagFirst, EndTrace, Reporting
  <2> QED
    BY <1>1, <1>9, <2>1, SilentKeeps DEF EndTrace, Reporting
<1>10. CASE PrintFooter
  <2>1. <<Text(25, 23, 29, "label")>> \in Seq(Low)
    BY LowText
  <2> QED
    BY <1>1, <1>10, <2>1, LowTextsKeep DEF PrintFooter, Goto, Reporting
<1>11. CASE TraceFaults \/ NonMaskableInterrupt
  BY <1>1, <1>11, SilentKeeps DEF TraceFaults, NonMaskableInterrupt, Enter, Reporting
<1>12. CASE UNCHANGED vars
  <2>1. /\ pc \in {"cli", "test", "spin", "set", "header"} \cup Reporting
        /\ pc \in {"set", "header"} => screen = <<>>
        /\ pc \in {"header"} \cup Reporting => panic_in_progress
    BY DEF IInv, FlagFirst
  <2> QED
    BY <1>1, <1>12, <2>1, SilentKeeps DEF vars
<1> QED
  BY <1>2, <1>3, <1>4, <1>5, <1>6, <1>7, <1>8, <1>9, <1>10, <1>11, <1>12
  DEF Next, Processor

\* What holds in every state of a panic, however it is interrupted.
THEOREM PanicInvariant == Spec => []IInv
BY IInvInit, IInvNext, PTL DEF Spec

-----------------------------------------------------------------------------
(* The theorems *)

\* One activation reports: the flag is set before anything is printed, and
\* an activation that finds it set prints nothing.
THEOREM OneActivationReports == Spec => []OneReport
<1>1. IInv => OneReport
  BY DEF IInv
<1> QED
  BY <1>1, PanicInvariant, PTL

LEMMA MessageRow ==
  ASSUME NEW length \in Nat, length <= 70,
         NEW c \in Covered(Text(10, 3, length, "message"))
  PROVE  c[2] = 3
<1>1. /\ c[1] \in 0 .. 79 /\ c[2] \in 0 .. 24 /\ c[1] >= 10 /\ c[2] >= 3
      /\ (c[2] - 3) * (80 - 10) + (c[1] - 10) < length
  BY DEF Covered, Cells, Width, Height, Text
<1> QED
  BY <1>1

LEMMA LowRows ==
  ASSUME NEW t \in Low, NEW c \in Covered(t)
  PROVE  c[2] >= 4
<1>1. t.y \in Nat /\ t.y >= 4
  BY DEF Low, Texts
<1>2. c[2] \in 0 .. 24 /\ c[2] >= t.y
  BY DEF Covered, Cells, Width, Height
<1> QED
  BY <1>1, <1>2

\* A message that fits its row stays readable: only the header prints in
\* its row, and before it.
THEOREM MessageStaysReadable == Spec => []MessageReadable
<1>1. IInv => MessageReadable
  <2> SUFFICES ASSUME IInv, pc = "halt", panic.message <= Width - 10,
                      NEW k \in DOMAIN screen, screen[k].text.name = "message",
                      NEW l \in k + 1 .. Len(screen)
               PROVE  Covered(screen[k].text) \cap Covered(screen[l].text) = {}
    BY DEF MessageReadable, Readable
  <2>1. screen[k].text = Text(10, 3, panic.message, "message")
    BY DEF IInv, MessageLast, Reporting
  <2>2. screen[l].text \in Low
    BY DEF IInv, MessageLast, Reporting
  <2>3. panic.message \in Nat /\ panic.message <= 70
    BY PanicLengths DEF IInv, Width
  <2>4. ASSUME NEW c \in Covered(screen[k].text), c \in Covered(screen[l].text)
        PROVE  FALSE
    <3>1. c[2] = 3
      BY <2>1, <2>3, MessageRow
    <3>2. c[2] >= 4
      BY <2>2, <2>4, LowRows
    <3> QED
      BY <3>1, <3>2
  <2> QED
    BY <2>4
<1> QED
  BY <1>1, PanicInvariant, PTL

=============================================================================
