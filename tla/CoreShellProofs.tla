-------------------------- MODULE CoreShellProofs --------------------------
(***************************************************************************)
(* What the conversions show and read, for every number and every base,    *)
(* and what the commands of CoreSH print: the uptime, and a dump of any    *)
(* memory, for any arguments.                                              *)
(***************************************************************************)
EXTENDS CoreShell, SequenceTheorems, WellFoundedInduction, TLAPS

-----------------------------------------------------------------------------
(* Recursive functions over numbers                                        *)

\* A set of numbers that has an element has a least one.
LEMMA LeastExists ==
  ASSUME NEW S \in SUBSET Nat, S # {}
  PROVE  \E x \in S : \A y \in S : x <= y
<1> DEFINE R == OpToRel(<, Nat)
<1>1. IsWellFoundedOn(R, Nat)
  BY NatLessThanWellFounded, Zenon
<1>2. R = {ss \in Nat \X Nat : ss[1] < ss[2]}
  BY DEF OpToRel
<1> HIDE DEF R
<1>3. PICK x \in S : \A y \in S : ~(<<y, x>> \in R)
  BY <1>1, WFMin
<1>4. ASSUME NEW y \in S, y < x PROVE FALSE
  <2>1. <<y, x>> \in R
    BY <1>2, <1>4
  <2> QED
    BY <2>1, <1>3
<1> QED
  BY <1>4

LEMMA NatInd ==
  ASSUME NEW S, 0 \in S, \A n \in Nat : n \in S => n + 1 \in S
  PROVE  Nat \subseteq S
<1> SUFFICES ASSUME Nat \ S # {} PROVE FALSE
  OBVIOUS
<1>1. PICK x \in Nat \ S : \A y \in Nat \ S : x <= y
  BY LeastExists
<1>2. x # 0 /\ x - 1 \in Nat
  BY <1>1
<1>3. x - 1 \in S
  BY <1>1, <1>2
<1> QED
  BY <1>1, <1>2, <1>3

\* The functions up to N that a recursion describes: the value for 0, and how
\* each value comes from the one before.
Solutions(N, V, a, G) ==
  {f \in [0 .. N -> V] : f[0] = a /\ \A n \in 1 .. N : f[n] = G[n][f[n - 1]]}

LEMMA RecursionTo ==
  ASSUME NEW V, NEW a \in V, NEW G \in [Nat -> [V -> V]], NEW N \in Nat
  PROVE  Solutions(N, V, a, G) # {}
<1> DEFINE S == {m \in Nat : Solutions(m, V, a, G) # {}}
<1>1. 0 \in S
  <2> DEFINE f == [n \in 0 .. 0 |-> a]
  <2>1. f \in Solutions(0, V, a, G)
    BY DEF Solutions
  <2> QED
    BY <2>1
<1>2. ASSUME NEW m \in Nat, m \in S PROVE m + 1 \in S
  <2>1. PICK f \in [0 .. m -> V] :
          f[0] = a /\ \A n \in 1 .. m : f[n] = G[n][f[n - 1]]
    BY <1>2 DEF Solutions
  <2> DEFINE x == G[m + 1][f[m]]
             g == [n \in 0 .. m + 1 |-> IF n = m + 1 THEN x ELSE f[n]]
  <2>2. x \in V
    <3>1. f[m] \in V /\ m + 1 \in Nat
      OBVIOUS
    <3> QED
      BY <3>1
  <2>3. g \in [0 .. m + 1 -> V]
    BY <2>2
  <2>4. g[m + 1] = x /\ \A n \in 0 .. m : g[n] = f[n]
    OBVIOUS
  <2> HIDE DEF g
  <2>5. g[0] = a
    BY <2>1, <2>4
  <2>6. ASSUME NEW n \in 1 .. m + 1 PROVE g[n] = G[n][g[n - 1]]
    <3>1. CASE n = m + 1
      BY <3>1, <2>4
    <3>2. CASE n \in 1 .. m
      <4>1. n \in 0 .. m /\ n - 1 \in 0 .. m
        BY <3>2
      <4> QED
        BY <3>2, <4>1, <2>1, <2>4
    <3> QED
      BY <3>1, <3>2
  <2>7. g \in Solutions(m + 1, V, a, G)
    BY <2>3, <2>5, <2>6 DEF Solutions
  <2> QED
    BY <2>7
<1> HIDE DEF S
<1>3. N \in S
  BY <1>1, <1>2, NatInd
<1> QED
  BY <1>3 DEF S

\* They agree with one another, and so make up one function.
Recursions(V, a, G) ==
  {h \in [Nat -> V] : h[0] = a /\ \A n \in Nat : h[n + 1] = G[n + 1][h[n]]}

LEMMA Recursion ==
  ASSUME NEW V, NEW a \in V, NEW G \in [Nat -> [V -> V]]
  PROVE  Recursions(V, a, G) # {}
<1> DEFINE F(m) == CHOOSE f : f \in Solutions(m, V, a, G)
           h == [m \in Nat |-> F(m)[m]]
<1>1. ASSUME NEW m \in Nat
      PROVE  /\ F(m) \in [0 .. m -> V] /\ F(m)[0] = a
             /\ \A n \in 1 .. m : F(m)[n] = G[n][F(m)[n - 1]]
  <2>1. Solutions(m, V, a, G) # {}
    BY RecursionTo
  <2>2. F(m) \in Solutions(m, V, a, G)
    BY <2>1
  <2> HIDE DEF F
  <2> QED
    BY <2>2 DEF Solutions
<1> HIDE DEF F
<1>2. ASSUME NEW m \in Nat PROVE F(m + 1)[m] = F(m)[m]
  <2> DEFINE S == {n \in Nat : n <= m => F(m + 1)[n] = F(m)[n]}
  <2>1. 0 \in S
    BY <1>1
  <2>2. ASSUME NEW n \in Nat, n \in S PROVE n + 1 \in S
    <3> SUFFICES ASSUME n + 1 <= m PROVE F(m + 1)[n + 1] = F(m)[n + 1]
      OBVIOUS
    <3>1. PICK k : k = n + 1
      OBVIOUS
    <3>2. k \in 1 .. m /\ k \in 1 .. m + 1 /\ k - 1 = n
      BY <3>1
    <3>3. F(m)[k] = G[k][F(m)[k - 1]] /\ F(m + 1)[k] = G[k][F(m + 1)[k - 1]]
      BY <1>1, <3>2
    <3> QED
      BY <2>2, <3>1, <3>2, <3>3
  <2> HIDE DEF S
  <2>3. m \in S
    BY <2>1, <2>2, NatInd
  <2> QED
    BY <2>3 DEF S
<1>3. h \in [Nat -> V]
  BY <1>1
<1>4. h[0] = a
  BY <1>1
<1>5. ASSUME NEW n \in Nat PROVE h[n + 1] = G[n + 1][h[n]]
  <2>1. PICK k : k = n + 1
    OBVIOUS
  <2>2. k \in Nat /\ k \in 1 .. k /\ k - 1 = n
    BY <2>1
  <2>3. F(k)[k] = G[k][F(k)[n]]
    BY <1>1, <2>2
  <2>4. F(k)[n] = F(n)[n]
    BY <1>2, <2>1
  <2>5. h[k] = F(k)[k] /\ h[n] = F(n)[n]
    BY <2>2
  <2> QED
    BY <2>1, <2>3, <2>4, <2>5
<1> HIDE DEF h
<1>6. h \in Recursions(V, a, G)
  BY <1>3, <1>4, <1>5 DEF Recursions
<1> QED
  BY <1>6

\* Two functions with the same start and the same step are the same, here up
\* to N.
LEMMA SameTo ==
  ASSUME NEW N \in Nat, NEW f, NEW g, f[0] = g[0],
         \A n \in 0 .. N - 1 : f[n] = g[n] => f[n + 1] = g[n + 1]
  PROVE  \A n \in 0 .. N : f[n] = g[n]
<1> DEFINE S == {n \in Nat : n <= N => f[n] = g[n]}
<1>1. 0 \in S
  OBVIOUS
<1>2. ASSUME NEW n \in Nat, n \in S PROVE n + 1 \in S
  BY <1>2
<1> HIDE DEF S
<1>3. Nat \subseteq S
  BY <1>1, <1>2, NatInd
<1> QED
  BY <1>3 DEF S

-----------------------------------------------------------------------------
(* The recursive functions of Conversions                                  *)

LEMMA ValueIs ==
  ASSUME NEW d \in Seq(Nat), NEW base \in Nat
  PROVE  \E n \in [0 .. Len(d) -> Nat] :
           /\ n[0] = 0 /\ \A k \in 1 .. Len(d) : n[k] = n[k - 1] * base + d[k]
           /\ Value(d, base) = n[Len(d)]
<1> DEFINE G == [k \in Nat |-> [x \in Nat |->
                   IF k \in 1 .. Len(d) THEN x * base + d[k] ELSE x]]
           F(n) == [k \in 0 .. Len(d) |->
                      IF k = 0 THEN 0 ELSE n[k - 1] * base + d[k]]
           w == CHOOSE n : n = F(n)
<1>1. Len(d) \in Nat /\ 0 \in Nat
  BY LenProperties
<1>2. G \in [Nat -> [Nat -> Nat]]
  BY ElementOfSeq
<1>3. \A k \in 1 .. Len(d), x \in Nat : G[k][x] = x * base + d[k]
  BY <1>1
<1> HIDE DEF G
<1>4. PICK f \in [0 .. Len(d) -> Nat] :
        f[0] = 0 /\ \A k \in 1 .. Len(d) : f[k] = G[k][f[k - 1]]
  <2>1. Solutions(Len(d), Nat, 0, G) # {}
    BY <1>1, <1>2, RecursionTo
  <2> QED
    BY <2>1 DEF Solutions
<1>5. ASSUME NEW k \in 1 .. Len(d) PROVE f[k] = f[k - 1] * base + d[k]
  <2>1. f[k - 1] \in Nat
    BY <1>1
  <2> QED
    BY <2>1, <1>3, <1>4
<1>6. f = F(f)
  BY <1>4, <1>5
<1>7. w = F(w)
  BY <1>6, Zenon
<1>8. Value(d, base) = w[Len(d)]
  BY DEF Value
<1>9. \A k \in 0 .. Len(d) : w[k] = IF k = 0 THEN 0 ELSE w[k - 1] * base + d[k]
  BY <1>7, Zenon
<1> HIDE DEF w
<1>10. w[0] = f[0]
  BY <1>1, <1>4, <1>9
<1>11. ASSUME NEW k \in 0 .. Len(d) - 1, w[k] = f[k] PROVE w[k + 1] = f[k + 1]
  <2>1. PICK m : m = k + 1
    OBVIOUS
  <2>2. m \in 1 .. Len(d) /\ m - 1 = k
    BY <1>1, <2>1
  <2> QED
    BY <1>5, <1>9, <1>11, <2>1, <2>2
<1>12. w[Len(d)] = f[Len(d)]
  <2>1. \A k \in 0 .. Len(d) : w[k] = f[k]
    BY <1>1, <1>10, <1>11, SameTo, ZenonT(30)
  <2> QED
    BY <1>1, <2>1
<1> QED
  BY <1>4, <1>5, <1>8, <1>12

LEMMA WordIs ==
  \E p \in [Nat -> Nat] : /\ p[0] = 1 /\ \A k \in Nat : p[k + 1] = 16 * p[k]
                          /\ Word = p[HexWidth]
<1> DEFINE G == [k \in Nat |-> [x \in Nat |-> 16 * x]]
           F(p) == [k \in Nat |-> IF k = 0 THEN 1 ELSE 16 * p[k - 1]]
           w == CHOOSE p : p = F(p)
<1>1. HexWidth \in Nat
  BY ConversionsAssumption
<1>2. G \in [Nat -> [Nat -> Nat]] /\ \A k \in Nat, x \in Nat : G[k][x] = 16 * x
  OBVIOUS
<1> HIDE DEF G
<1>3. PICK f \in [Nat -> Nat] : f[0] = 1 /\ \A k \in Nat : f[k + 1] = G[k + 1][f[k]]
  <2>1. 1 \in Nat
    OBVIOUS
  <2>2. Recursions(Nat, 1, G) # {}
    BY <1>2, <2>1, Recursion
  <2> QED
    BY <2>2 DEF Recursions
<1>4. ASSUME NEW k \in Nat PROVE f[k + 1] = 16 * f[k]
  <2>1. k + 1 \in Nat /\ f[k] \in Nat
    OBVIOUS
  <2> QED
    BY <2>1, <1>2, <1>3
<1>5. f = F(f)
  <2>1. ASSUME NEW k \in Nat, k # 0 PROVE f[k] = 16 * f[k - 1]
    <3>1. PICK m \in Nat : k = m + 1
      BY <2>1
    <3> QED
      BY <1>4, <3>1
  <2> QED
    BY <1>3, <2>1
<1>6. w = F(w)
  BY <1>5, Zenon
<1>7. Word = w[HexWidth]
  BY DEF Word
<1>8. \A k \in Nat : w[k] = IF k = 0 THEN 1 ELSE 16 * w[k - 1]
  BY <1>6, Zenon
<1> HIDE DEF w
<1>9. w[0] = f[0]
  BY <1>3, <1>8
<1>10. ASSUME NEW k \in 0 .. HexWidth - 1, w[k] = f[k] PROVE w[k + 1] = f[k + 1]
  <2>1. PICK m : m = k + 1
    OBVIOUS
  <2>2. m \in Nat /\ m # 0 /\ m - 1 = k /\ k \in Nat
    BY <2>1
  <2> QED
    BY <1>4, <1>8, <1>10, <2>1, <2>2
<1>11. w[HexWidth] = f[HexWidth]
  <2>1. \A k \in 0 .. HexWidth : w[k] = f[k]
    BY <1>1, <1>9, <1>10, SameTo, ZenonT(30)
  <2> QED
    BY <1>1, <2>1
<1> QED
  BY <1>3, <1>4, <1>7, <1>11

LEMMA QuotientIs ==
  ASSUME NEW v \in Nat, NEW base \in Nat, base > 0
  PROVE  /\ Quotient(v, base, 0) = v
         /\ \A k \in Nat : /\ Quotient(v, base, k) \in Nat
                           /\ Quotient(v, base, k + 1) = Quotient(v, base, k) \div base
<1> DEFINE G == [k \in Nat |-> [x \in Nat |-> x \div base]]
           F(q) == [j \in Nat |-> IF j = 0 THEN v ELSE q[j - 1] \div base]
           w == CHOOSE q : q = F(q)
<1>1. /\ G \in [Nat -> [Nat -> Nat]]
      /\ \A k \in Nat, x \in Nat : G[k][x] = x \div base
  OBVIOUS
<1> HIDE DEF G
<1>2. PICK f \in [Nat -> Nat] : f[0] = v /\ \A k \in Nat : f[k + 1] = G[k + 1][f[k]]
  <2>1. Recursions(Nat, v, G) # {}
    BY <1>1, Recursion
  <2> QED
    BY <2>1 DEF Recursions
<1>3. ASSUME NEW k \in Nat PROVE f[k + 1] = f[k] \div base
  <2>1. k + 1 \in Nat /\ f[k] \in Nat
    OBVIOUS
  <2> QED
    BY <2>1, <1>1, <1>2
<1>4. f = F(f)
  <2>1. ASSUME NEW k \in Nat, k # 0 PROVE f[k] = f[k - 1] \div base
    <3>1. PICK m \in Nat : k = m + 1
      BY <2>1
    <3>2. m = k - 1
      BY <3>1
    <3> QED
      BY <1>3, <3>1, <3>2
  <2> QED
    BY <1>2, <2>1
<1>5. w = F(w)
  BY <1>4, Zenon
<1>6. \A k : Quotient(v, base, k) = w[k]
  BY DEF Quotient
<1>7. \A j \in Nat : w[j] = IF j = 0 THEN v ELSE w[j - 1] \div base
  BY <1>5, Zenon
<1> HIDE DEF w
<1>8. w[0] = f[0]
  BY <1>2, <1>7
<1>9. ASSUME NEW k \in Nat, w[k] = f[k] PROVE w[k + 1] = f[k + 1]
  <2>1. PICK m : m = k + 1
    OBVIOUS
  <2>2. m \in Nat /\ m # 0 /\ m - 1 = k
    BY <2>1
  <2> QED
    BY <1>3, <1>7, <1>9, <2>1, <2>2
<1>10. ASSUME NEW k \in Nat PROVE w[k] = f[k]
  <2>1. \A n \in 0 .. k - 1 : w[n] = f[n] => w[n + 1] = f[n + 1]
    BY <1>9
  <2>2. \A n \in 0 .. k : w[n] = f[n]
    BY <1>8, <2>1, SameTo, ZenonT(30)
  <2> QED
    BY <2>2
<1>11. \A k \in Nat : Quotient(v, base, k) = f[k]
  BY <1>6, <1>10
<1>12. Quotient(v, base, 0) = f[0]
  BY <1>11
<1>13. ASSUME NEW k \in Nat
       PROVE  /\ Quotient(v, base, k) \in Nat
              /\ Quotient(v, base, k + 1) = Quotient(v, base, k) \div base
  <2>1. PICK m \in Nat : m = k + 1
    OBVIOUS
  <2>2. Quotient(v, base, m) = f[m] /\ Quotient(v, base, k) = f[k] /\ f[k] \in Nat
    BY <1>11
  <2> QED
    BY <1>3, <2>1, <2>2
<1> QED
  BY <1>2, <1>12, <1>13

\* How k_atoi reads a string of characters.
LEMMA NumberIs ==
  ASSUME NEW s \in Seq(Nat)
  PROVE  LET N == DigitsOf(s) IN
         /\ N \in 0 .. Len(s)
         /\ \A j \in 1 .. N : IsDigit(s[j])
         /\ N = Len(s) \/ ~ IsDigit(s[N + 1])
<1> DEFINE P(k) == (\A j \in 1 .. k : IsDigit(s[j])) /\ (k = Len(s) \/ ~ IsDigit(s[k + 1]))
           S == {k \in 0 .. Len(s) : k = Len(s) \/ ~ IsDigit(s[k + 1])}
<1>1. Len(s) \in Nat
  BY LenProperties
<1>2. PICK k \in S : \A j \in S : k <= j
  <2>1. Len(s) \in S /\ S \subseteq Nat
    BY <1>1
  <2> QED
    BY <2>1, LeastExists
<1>3. P(k)
  <2>1. ASSUME NEW j \in 1 .. k PROVE IsDigit(s[j])
    <3>1. PICK m : m = j - 1
      OBVIOUS
    <3>2. m \in 0 .. Len(s) /\ m < k /\ j = m + 1
      BY <1>1, <1>2, <2>1, <3>1
    <3>3. m \notin S
      BY <1>2, <3>2
    <3> QED
      BY <3>2, <3>3
  <2> QED
    BY <1>2, <2>1
<1>4. DigitsOf(s) = CHOOSE n \in 0 .. Len(s) : P(n)
  BY DEF DigitsOf
<1> HIDE DEF P
<1>5. DigitsOf(s) \in 0 .. Len(s) /\ P(DigitsOf(s))
  BY <1>2, <1>3, <1>4
<1> QED
  BY <1>5 DEF P

\* The number k_atoi has read after each digit.
LEMMA NumberRead ==
  ASSUME NEW s \in Seq(Nat), Word \in Nat, Word > 0
  PROVE  LET N == DigitsOf(s) IN
         \E n \in [0 .. N -> 0 .. Word - 1] :
           /\ n[0] = 0
           /\ \A k \in 1 .. N : n[k] = (n[k - 1] * 10 + (s[k] - 48)) % Word
           /\ NumberOf(s) = n[N]
<1> DEFINE N == DigitsOf(s)
           V == 0 .. Word - 1
           next(k, x) == (x * 10 + (s[k] - 48)) % Word
           G == [k \in Nat |-> [x \in V |-> IF k \in 1 .. N THEN next(k, x) ELSE x]]
           F(n) == [k \in 0 .. N |-> IF k = 0 THEN 0 ELSE next(k, n[k - 1])]
           w == CHOOSE n : n = F(n)
<1>1. N \in Nat /\ 0 \in V
  BY NumberIs, LenProperties
<1>2. \A k \in 1 .. N : s[k] \in 48 .. 57
  BY NumberIs DEF IsDigit
<1>3. ASSUME NEW k \in 1 .. N, NEW x \in V PROVE next(k, x) \in V
  <2>1. PICK c : c = s[k] - 48
    OBVIOUS
  <2>2. c \in Nat
    BY <1>2, <2>1
  <2>3. x * 10 + c \in Nat
    BY <2>2
  <2>4. (x * 10 + c) % Word \in V
    BY <2>3
  <2> QED
    BY <2>1, <2>4
<1> HIDE DEF N, V, next
<1>4. /\ G \in [Nat -> [V -> V]]
      /\ \A k \in 1 .. N, x \in V : G[k][x] = next(k, x)
  BY <1>1, <1>3
<1> HIDE DEF G
<1>5. PICK f \in [0 .. N -> V] :
        f[0] = 0 /\ \A k \in 1 .. N : f[k] = G[k][f[k - 1]]
  <2>1. Solutions(N, V, 0, G) # {}
    BY <1>1, <1>4, RecursionTo
  <2> QED
    BY <2>1 DEF Solutions
<1>6. ASSUME NEW k \in 1 .. N PROVE f[k] = next(k, f[k - 1])
  <2>1. f[k - 1] \in V
    BY <1>1
  <2> QED
    BY <2>1, <1>4, <1>5
<1>7. f = F(f)
  BY <1>5, <1>6
<1>8. w = F(w)
  BY <1>7, Zenon
<1>9. NumberOf(s) = w[N]
  BY DEF NumberOf, N, next
<1>10. \A k \in 0 .. N : w[k] = IF k = 0 THEN 0 ELSE next(k, w[k - 1])
  BY <1>8, Zenon
<1> HIDE DEF w
<1>11. w[0] = f[0]
  BY <1>1, <1>5, <1>10
<1>12. ASSUME NEW k \in 0 .. N - 1, w[k] = f[k] PROVE w[k + 1] = f[k + 1]
  <2>1. PICK m : m = k + 1
    OBVIOUS
  <2>2. m \in 1 .. N /\ m \in 0 .. N /\ m # 0 /\ m - 1 = k
    BY <1>1, <2>1
  <2>3. w[m] = next(m, w[k]) /\ f[m] = next(m, f[k])
    BY <1>6, <1>10, <2>2
  <2> QED
    BY <1>12, <2>1, <2>3
<1>13. w[N] = f[N]
  <2>1. \A k \in 0 .. N : w[k] = f[k]
    BY <1>1, <1>11, <1>12, SameTo, ZenonT(30)
  <2> QED
    BY <1>1, <2>1
<1>14. \A k \in 1 .. N : f[k] = (f[k - 1] * 10 + (s[k] - 48)) % Word
  BY <1>6 DEF next
<1> QED
  BY <1>5, <1>9, <1>13, <1>14 DEF N, V

-----------------------------------------------------------------------------
(* Words and quotients                                                     *)

LEMMA WordFacts == Word \in Nat /\ Word > 255
<1>1. PICK p \in [Nat -> Nat] : /\ p[0] = 1 /\ \A k \in Nat : p[k + 1] = 16 * p[k]
                                /\ Word = p[HexWidth]
  BY WordIs
<1> DEFINE S == {k \in Nat : k > 1 => p[k] > 255}
<1>2. 0 \in S
  OBVIOUS
<1>3. ASSUME NEW k \in Nat, k \in S PROVE k + 1 \in S
  <2>1. p[k] \in Nat /\ p[k + 1] \in Nat /\ p[k + 1] = 16 * p[k]
    BY <1>1
  <2>2. CASE k > 1
    BY <1>3, <2>1, <2>2
  <2>3. CASE k = 1
    <3>1. p[0 + 1] = 16 * p[0]
      BY <1>1
    <3>2. p[1] = 16
      BY <1>1, <3>1
    <3> QED
      BY <2>1, <2>3, <3>2
  <2>4. CASE k = 0
    BY <2>4
  <2> QED
    BY <2>2, <2>3, <2>4
<1> HIDE DEF S
<1>4. HexWidth \in S
  BY <1>2, <1>3, NatInd, ConversionsAssumption
<1> QED
  BY <1>1, <1>4, ConversionsAssumption DEF S

LEMMA QuotientShrinks ==
  ASSUME NEW v \in Nat, NEW base \in Nat, base > 0
  PROVE  \A k \in Nat : Quotient(v, base, k) <= v
<1> DEFINE S == {k \in Nat : Quotient(v, base, k) <= v}
<1>1. 0 \in S
  BY QuotientIs
<1>2. ASSUME NEW k \in Nat, k \in S PROVE k + 1 \in S
  <2>1. PICK q : q = Quotient(v, base, k)
    OBVIOUS
  <2>2. q \in Nat /\ q <= v /\ Quotient(v, base, k + 1) = q \div base
    BY <1>2, <2>1, QuotientIs
  <2>3. q \div base \in Nat /\ q \div base <= q
    BY <2>2
  <2> QED
    BY <2>2, <2>3
<1> HIDE DEF S
<1>3. Nat \subseteq S
  BY <1>1, <1>2, NatInd
<1> QED
  BY <1>3 DEF S

\* A word has HexWidth hexadecimal digits, and no more.
LEMMA HexWidthIsEnough ==
  ASSUME NEW v \in 0 .. Word - 1
  PROVE  Quotient(v, 16, HexWidth) = 0
<1>1. PICK p \in [Nat -> Nat] : /\ p[0] = 1 /\ \A k \in Nat : p[k + 1] = 16 * p[k]
                                /\ Word = p[HexWidth]
  BY WordIs
<1>2. HexWidth \in Nat /\ Word \in Nat /\ v \in Nat /\ v < Word
  BY ConversionsAssumption, WordFacts
<1> DEFINE S == {k \in Nat : k <= HexWidth =>
                   Quotient(v, 16, k) < p[HexWidth - k]}
<1>3. 0 \in S
  BY <1>1, <1>2, QuotientIs
<1>4. ASSUME NEW k \in Nat, k \in S PROVE k + 1 \in S
  <2> SUFFICES ASSUME k + 1 <= HexWidth
               PROVE  Quotient(v, 16, k + 1) < p[HexWidth - (k + 1)]
    OBVIOUS
  <2>1. PICK q, m : q = Quotient(v, 16, k) /\ m = HexWidth - (k + 1)
    OBVIOUS
  <2>2. m \in Nat /\ HexWidth - k = m + 1
    BY <1>2, <2>1
  <2>3. q \in Nat /\ Quotient(v, 16, k + 1) = q \div 16
    BY <1>2, <2>1, QuotientIs
  <2>4. q < 16 * p[m] /\ p[m] \in Nat
    BY <1>1, <1>2, <1>4, <2>1, <2>2
  <2>5. q \div 16 < p[m]
    BY <2>3, <2>4
  <2> QED
    BY <2>1, <2>3, <2>5
<1> HIDE DEF S
<1>5. HexWidth \in S
  BY <1>2, <1>3, <1>4, NatInd
<1>6. Quotient(v, 16, HexWidth) < p[HexWidth - HexWidth]
  BY <1>2, <1>5 DEF S
<1>7. HexWidth - HexWidth = 0 /\ Quotient(v, 16, HexWidth) \in Nat
  BY <1>2, QuotientIs
<1> QED
  BY <1>1, <1>6, <1>7

\* In any base there are no more digits than bits.
LEMMA BitsAreEnough ==
  ASSUME NEW v \in 0 .. Word - 1, NEW base \in Nat, base > 1
  PROVE  Quotient(v, base, 4 * HexWidth) = 0
<1>1. PICK p \in [Nat -> Nat] : /\ p[0] = 1 /\ \A k \in Nat : p[k + 1] = 16 * p[k]
                                /\ Word = p[HexWidth]
  BY WordIs
<1>2. HexWidth \in Nat /\ Word \in Nat /\ v \in Nat /\ v < Word /\ base > 0
  BY ConversionsAssumption, WordFacts
<1> DEFINE S == {k \in Nat : k <= HexWidth =>
                   Quotient(v, base, 4 * k) < p[HexWidth - k]}
<1>3. 0 \in S
  BY <1>1, <1>2, QuotientIs
<1>4. ASSUME NEW k \in Nat
      PROVE  /\ Quotient(v, base, k) \in Nat
             /\ 2 * Quotient(v, base, k + 1) <= Quotient(v, base, k)
  <2>1. PICK q : q = Quotient(v, base, k)
    OBVIOUS
  <2>2. q \in Nat /\ Quotient(v, base, k + 1) = q \div base
    BY <1>2, <2>1, QuotientIs
  <2>3. 2 * (q \div base) <= q
    BY <2>2
  <2> QED
    BY <2>1, <2>2, <2>3
<1>5. ASSUME NEW k \in Nat, k \in S PROVE k + 1 \in S
  <2> SUFFICES ASSUME k + 1 <= HexWidth
               PROVE  Quotient(v, base, 4 * (k + 1)) < p[HexWidth - (k + 1)]
    OBVIOUS
  <2>1. PICK j, m : j = 4 * k /\ m = HexWidth - (k + 1)
    OBVIOUS
  <2>2. /\ m \in Nat /\ HexWidth - k = m + 1 /\ 4 * (k + 1) = j + 4
        /\ j \in Nat /\ j + 1 \in Nat /\ j + 2 \in Nat /\ j + 3 \in Nat
        /\ (j + 1) + 1 = j + 2 /\ (j + 2) + 1 = j + 3 /\ (j + 3) + 1 = j + 4
        /\ j + 4 \in Nat
    BY <1>2, <2>1
  <2>3. Quotient(v, base, j) < 16 * p[m] /\ p[m] \in Nat
    BY <1>1, <1>2, <1>5, <2>1, <2>2
  <2>4. /\ 2 * Quotient(v, base, j + 1) <= Quotient(v, base, j)
        /\ 2 * Quotient(v, base, j + 2) <= Quotient(v, base, j + 1)
        /\ 2 * Quotient(v, base, j + 3) <= Quotient(v, base, j + 2)
        /\ 2 * Quotient(v, base, j + 4) <= Quotient(v, base, j + 3)
    BY <1>4, <2>2
  <2>5. /\ Quotient(v, base, j) \in Nat /\ Quotient(v, base, j + 1) \in Nat
        /\ Quotient(v, base, j + 2) \in Nat /\ Quotient(v, base, j + 3) \in Nat
        /\ Quotient(v, base, j + 4) \in Nat
    BY <1>4, <2>2
  <2>6. Quotient(v, base, j + 4) < p[m]
    BY <2>3, <2>4, <2>5
  <2> QED
    BY <2>1, <2>2, <2>6
<1> HIDE DEF S
<1>6. HexWidth \in S
  BY <1>2, <1>3, <1>5, NatInd
<1>7. Quotient(v, base, 4 * HexWidth) < p[HexWidth - HexWidth]
  BY <1>2, <1>6 DEF S
<1>8. HexWidth - HexWidth = 0 /\ Quotient(v, base, 4 * HexWidth) \in Nat
  BY <1>2, QuotientIs
<1> QED
  BY <1>1, <1>7, <1>8

-----------------------------------------------------------------------------
(* What digits show                                                        *)

\* The digits d are the remainders of the quotients of v, the last one first.
Remainders(d, v, base) ==
  /\ d \in Seq(Nat) /\ Quotient(v, base, Len(d)) = 0
  /\ \A k \in 1 .. Len(d) : d[k] = Quotient(v, base, Len(d) - k) % base

\* Read digit by digit, d says v, and no more before its end.
ReadsAs(d, v, base) ==
  /\ Value(d, base) = v
  /\ \E n \in [0 .. Len(d) -> 0 .. v] :
       /\ n[0] = 0 /\ n[Len(d)] = v
       /\ \A k \in 1 .. Len(d) : n[k] = n[k - 1] * base + d[k]

\* Up to any digit, what has been read is the quotient that digit came from.
LEMMA DigitsShow ==
  ASSUME NEW v \in Nat, NEW base \in Nat, base > 0, NEW d, Remainders(d, v, base)
  PROVE  ReadsAs(d, v, base)
<1> DEFINE N == Len(d)
<1>0. /\ d \in Seq(Nat) /\ N \in Nat /\ Quotient(v, base, N) = 0
      /\ \A k \in 1 .. N : d[k] = Quotient(v, base, N - k) % base
  BY LenProperties DEF Remainders
<1>1. PICK n \in [0 .. N -> Nat] :
        /\ n[0] = 0 /\ \A k \in 1 .. N : n[k] = n[k - 1] * base + d[k]
        /\ Value(d, base) = n[N]
  BY <1>0, ValueIs
<1> HIDE DEF N
<1> DEFINE S == {k \in Nat : k <= N => n[k] = Quotient(v, base, N - k)}
<1>2. 0 \in S
  BY <1>0, <1>1
<1>3. ASSUME NEW k \in Nat, k \in S PROVE k + 1 \in S
  <2> SUFFICES ASSUME k + 1 <= N PROVE n[k + 1] = Quotient(v, base, N - (k + 1))
    OBVIOUS
  <2>1. PICK m, j, q : m = k + 1 /\ j = N - m /\ q = Quotient(v, base, j)
    OBVIOUS
  <2>2. m \in 1 .. N /\ m - 1 = k /\ j \in Nat /\ N - k = j + 1
    BY <1>0, <2>1
  <2>3. q \in Nat /\ Quotient(v, base, N - k) = q \div base
    BY <2>1, <2>2, QuotientIs
  <2>4. n[k] = q \div base
    BY <1>0, <1>3, <2>2, <2>3
  <2>5. n[m] = n[k] * base + d[m] /\ d[m] = q % base
    BY <1>0, <1>1, <2>1, <2>2
  <2>6. q = (q \div base) * base + (q % base)
    BY <2>3
  <2>7. n[m] = q
    BY <2>4, <2>5, <2>6
  <2> QED
    BY <2>1, <2>7
<1> HIDE DEF S
<1>4. ASSUME NEW k \in 0 .. N
      PROVE  n[k] = Quotient(v, base, N - k) /\ n[k] \in 0 .. v
  <2>1. Nat \subseteq S
    BY <1>2, <1>3, NatInd
  <2>2. n[k] = Quotient(v, base, N - k) /\ N - k \in Nat
    BY <1>0, <2>1 DEF S
  <2>3. Quotient(v, base, N - k) \in Nat /\ Quotient(v, base, N - k) <= v
    BY <2>2, QuotientIs, QuotientShrinks
  <2> QED
    BY <2>2, <2>3
<1>5. n[N] = v
  <2>1. N - N = 0 /\ N \in 0 .. N
    BY <1>0
  <2> QED
    BY <1>4, <2>1, QuotientIs
<1>6. n \in [0 .. N -> 0 .. v]
  BY <1>4
<1> QED
  BY <1>1, <1>5, <1>6 DEF N, ReadsAs

\* The loops end, at the latest when a word has lost all its bits.
LEMMA DigitCountIs ==
  ASSUME NEW v \in 0 .. Word - 1, NEW base \in Nat, base > 1
  PROVE  LET n == DigitCount(v, base) IN
         /\ n \in Nat /\ Quotient(v, base, n) = 0
         /\ n > 0 => Quotient(v, base, n - 1) > 0
<1> DEFINE B == 4 * HexWidth
           P(n) == Quotient(v, base, n) = 0 /\ (n > 0 => Quotient(v, base, n - 1) > 0)
           S == {n \in 0 .. B : Quotient(v, base, n) = 0}
<1>1. B \in Nat /\ v \in Nat /\ base > 0
  BY ConversionsAssumption, WordFacts
<1>2. PICK n \in S : \A m \in S : n <= m
  <2>1. B \in S /\ S \subseteq Nat
    BY <1>1, BitsAreEnough
  <2> QED
    BY <2>1, LeastExists
<1>3. P(n)
  <2>1. ASSUME n > 0 PROVE Quotient(v, base, n - 1) > 0
    <3>1. n - 1 \in 0 .. B /\ n - 1 \in Nat /\ n - 1 < n
      BY <1>1, <1>2, <2>1
    <3>2. n - 1 \notin S
      BY <1>2, <3>1
    <3>3. Quotient(v, base, n - 1) \in Nat
      BY <1>1, <3>1, QuotientIs
    <3> QED
      BY <3>1, <3>2, <3>3
  <2> QED
    BY <1>2, <2>1
<1>4. DigitCount(v, base) = CHOOSE m \in 0 .. B : P(m)
  BY DEF DigitCount
<1> HIDE DEF P
<1>5. DigitCount(v, base) \in 0 .. B /\ P(DigitCount(v, base))
  BY <1>2, <1>3, <1>4
<1> QED
  BY <1>1, <1>5 DEF P

\* utoa shows every number in every base: its digits are of the base, say the
\* number when they are read, and do not start with a zero
\* (string.c:39-65); the digits come out backwards and are reversed.
THEOREM UtoaShows ==
  ASSUME NEW v \in 0 .. Word - 1, NEW base \in 2 .. 36
  PROVE  /\ utoa(v, base) \in Seq(0 .. base - 1)
         /\ ReadsAs(utoa(v, base), v, base)
         /\ v > 0 => utoa(v, base)[1] # 0
<1>1. v \in Nat /\ base \in Nat /\ base > 1 /\ base > 0
  BY WordFacts
<1>2. CASE v = 0
  <2>1. PICK d : d = <<0>>
    OBVIOUS
  <2>2. utoa(v, base) = d
    BY <1>2, <2>1 DEF utoa
  <2>3. d \in Seq(0 .. base - 1) /\ d \in Seq(Nat) /\ Len(d) = 1 /\ d[1] = 0
    BY <1>1, <2>1
  <2>4. Quotient(v, base, 0) = 0 /\ Quotient(v, base, 1) = 0
    <3>1. Quotient(v, base, 0) = 0
      BY <1>1, <1>2, QuotientIs
    <3>2. Quotient(v, base, 0 + 1) = 0 \div base
      BY <1>1, <3>1, QuotientIs
    <3>3. 0 \div base = 0 /\ 0 + 1 = 1
      BY <1>1
    <3> QED
      BY <3>1, <3>2, <3>3
  <2>5. ASSUME NEW k \in 1 .. 1 PROVE d[k] = Quotient(v, base, 1 - k) % base
    <3>1. k = 1 /\ 1 - k = 0 /\ 0 % base = 0
      BY <1>1
    <3> QED
      BY <2>3, <2>4, <3>1
  <2>6. ReadsAs(d, v, base)
    <3>1. Remainders(d, v, base)
      BY <2>3, <2>4, <2>5 DEF Remainders
    <3> QED
      BY <1>1, <3>1, DigitsShow
  <2> QED
    BY <1>2, <2>2, <2>3, <2>6
<1>3. CASE v > 0
  <2> DEFINE N == DigitCount(v, base)
             l == LowFirst(v, base)
             d == Reverse(l)
  <2>1. /\ N \in Nat /\ Quotient(v, base, N) = 0
        /\ N > 0 => Quotient(v, base, N - 1) > 0
    BY <1>1, DigitCountIs
  <2>2. utoa(v, base) = d
    BY <1>1, <1>3 DEF utoa
  <2>3. \A k \in Nat : Quotient(v, base, k) \in Nat
    BY <1>1, QuotientIs
  <2>4. l = [k \in 1 .. N |-> Quotient(v, base, k - 1) % base]
    BY DEF LowFirst
  <2>5. ASSUME NEW k \in 1 .. N
        PROVE  Quotient(v, base, k - 1) % base \in 0 .. base - 1
    <3>1. PICK q : q = Quotient(v, base, k - 1)
      OBVIOUS
    <3>2. k - 1 \in Nat
      BY <2>1
    <3>3. q \in Nat
      BY <2>3, <3>1, <3>2
    <3>4. q % base \in 0 .. base - 1
      BY <1>1, <3>3
    <3> QED
      BY <3>1, <3>4
  <2> HIDE DEF N, l
  <2>6. l \in [1 .. N -> 0 .. base - 1]
    BY <2>4, <2>5
  <2>7. Len(l) = N
    BY <2>1, <2>6
  <2>8. d = [k \in 1 .. N |-> l[N - k + 1]]
    BY <2>7 DEF Reverse
  <2>9. ASSUME NEW k \in 1 .. N
        PROVE  d[k] = Quotient(v, base, N - k) % base /\ d[k] \in 0 .. base - 1
    <3>1. PICK m : m = N - k + 1
      OBVIOUS
    <3>2. m \in 1 .. N /\ m - 1 = N - k
      BY <2>1, <3>1
    <3>3. d[k] = l[m]
      BY <2>8, <3>1
    <3> QED
      BY <2>4, <2>6, <3>2, <3>3
  <2>10. d \in [1 .. N -> 0 .. base - 1]
    BY <2>8, <2>9
  <2> HIDE DEF d
  <2>11. d \in Seq(0 .. base - 1) /\ d \in Seq(Nat) /\ Len(d) = N
    <3>1. 0 .. base - 1 \subseteq Nat
      BY <1>1
    <3> QED
      BY <2>1, <2>10, <3>1, SeqDef
  <2>12. ReadsAs(d, v, base)
    <3>1. Remainders(d, v, base)
      BY <2>1, <2>9, <2>11 DEF Remainders
    <3> QED
      BY <1>1, <3>1, DigitsShow
  <2>13. d[1] # 0
    <3>1. N # 0
      <4>1. Quotient(v, base, 0) = v
        BY <1>1, QuotientIs
      <4> QED
        BY <1>3, <2>1, <4>1
    <3>2. PICK m \in Nat : N = m + 1
      BY <2>1, <3>1
    <3>3. PICK q : q = Quotient(v, base, m)
      OBVIOUS
    <3>4. q \in Nat /\ q > 0 /\ q \div base = 0
      <4>1. N - 1 = m /\ N > 0
        BY <2>1, <3>1, <3>2
      <4> QED
        BY <1>1, <2>1, <3>2, <3>3, <4>1, QuotientIs
    <3>5. q % base = q
      BY <1>1, <3>4
    <3>6. 1 \in 1 .. N /\ N - 1 = m
      BY <2>1, <3>2
    <3> QED
      BY <2>9, <3>3, <3>4, <3>5, <3>6
  <2> QED
    BY <2>2, <2>11, <2>12, <2>13
<1> QED
  BY <1>1, <1>2, <1>3

-----------------------------------------------------------------------------
(* Hexadecimal and signed numbers                                          *)

\* %x shows every word: at least one digit, and no zero before the others
\* (coresystem.c:169-178).
THEOREM HexShows ==
  ASSUME NEW v \in 0 .. Word - 1
  PROVE  /\ Hex(v) \in Seq(0 .. 15) /\ Len(Hex(v)) \in 1 .. HexWidth
         /\ Value(Hex(v), 16) = v
         /\ Len(Hex(v)) > 1 => Hex(v)[1] # 0
<1>1. v \in Nat /\ HexWidth \in Nat /\ HexWidth > 1
  BY WordFacts, ConversionsAssumption
<1> DEFINE Q(k) == Quotient(v, 16, k)
           P(k) == /\ k = 0 \/ Nibble(v, k) # 0
                   /\ \A j \in k + 1 .. HexWidth - 1 : Nibble(v, j) = 0
           top == CHOOSE k \in 0 .. HexWidth - 1 : P(k)
           S == {m \in 1 .. HexWidth :
                   \A j \in m .. HexWidth - 1 : Nibble(v, j) = 0}
<1>2. /\ Q(0) = v /\ Q(HexWidth) = 0
      /\ \A k \in Nat : Q(k) \in Nat /\ Q(k + 1) = Q(k) \div 16
      /\ \A k : Nibble(v, k) = Q(k) % 16
  <2>1. 16 \in Nat /\ 16 > 0
    OBVIOUS
  <2>2. Q(0) = v /\ \A k \in Nat : Q(k) \in Nat /\ Q(k + 1) = Q(k) \div 16
    BY <1>1, <2>1, QuotientIs
  <2>3. Q(HexWidth) = 0
    BY HexWidthIsEnough
  <2>4. \A k : Nibble(v, k) = Q(k) % 16
    BY DEF Nibble
  <2> QED
    BY <2>2, <2>3, <2>4
<1> HIDE DEF Q
<1>3. top \in 0 .. HexWidth - 1 /\ P(top)
  <2>1. PICK m \in S : \A j \in S : m <= j
    <3>1. HexWidth \in S /\ S \subseteq Nat
      BY <1>1
    <3> QED
      BY <3>1, LeastExists
  <2>2. PICK k : k = m - 1
    OBVIOUS
  <2>3. k \in 0 .. HexWidth - 1 /\ m = k + 1 /\ k < m
    BY <1>1, <2>1, <2>2
  <2>4. ASSUME k # 0, Nibble(v, k) = 0 PROVE FALSE
    <3>1. k \in 1 .. HexWidth
      BY <1>1, <2>3, <2>4
    <3>2. \A j \in k .. HexWidth - 1 : Nibble(v, j) = 0
      <4>1. \A j \in m .. HexWidth - 1 : Nibble(v, j) = 0
        BY <2>1
      <4>2. \A j \in k .. HexWidth - 1 : j = k \/ j \in m .. HexWidth - 1
        BY <1>1, <2>3
      <4> QED
        BY <2>4, <4>1, <4>2
    <3>3. k \in S
      BY <3>1, <3>2
    <3> QED
      BY <2>1, <2>3, <3>3
  <2>5. P(k)
    BY <2>1, <2>3, <2>4
  <2> HIDE DEF P
  <2> QED
    BY <2>3, <2>5
<1>4. Hex(v) = [k \in 1 .. top + 1 |-> Nibble(v, top + 1 - k)]
  BY DEF Hex
<1> HIDE DEF top
<1>5. PICK N : N = top + 1
  OBVIOUS
<1>5a. N - 1 = top
  BY <1>3, <1>5
<1>6. /\ N \in 1 .. HexWidth
      /\ N = 1 \/ Nibble(v, N - 1) # 0
      /\ \A j \in N .. HexWidth - 1 : Nibble(v, j) = 0
      /\ Hex(v) = [k \in 1 .. N |-> Nibble(v, N - k)]
  <2>1. N \in 1 .. HexWidth
    BY <1>1, <1>3, <1>5
  <2>2. N = 1 \/ Nibble(v, N - 1) # 0
    BY <1>3, <1>5, <1>5a
  <2>3. \A j \in N .. HexWidth - 1 : Nibble(v, j) = 0
    BY <1>3, <1>5
  <2>4. Hex(v) = [k \in 1 .. N |-> Nibble(v, N - k)]
    <3>1. \A k \in 1 .. N : top + 1 - k = N - k
      BY <1>1, <1>3, <1>5
    <3>2. Hex(v) = [k \in 1 .. N |-> Nibble(v, top + 1 - k)]
      BY <1>4, <1>5
    <3> QED
      BY <3>1, <3>2
  <2> QED
    BY <2>1, <2>2, <2>3, <2>4
<1> HIDE DEF S, P
<1>7. Q(N) = 0
  <2> DEFINE T == {n \in Nat : n <= HexWidth - N => Q(HexWidth - n) = 0}
  <2>1. 0 \in T
    BY <1>1, <1>2
  <2>2. ASSUME NEW n \in Nat, n \in T PROVE n + 1 \in T
    <3> SUFFICES ASSUME n + 1 <= HexWidth - N PROVE Q(HexWidth - (n + 1)) = 0
      OBVIOUS
    <3>1. PICK j : j = HexWidth - (n + 1)
      OBVIOUS
    <3>2. j \in N .. HexWidth - 1 /\ j \in Nat /\ HexWidth - n = j + 1
      BY <1>1, <1>6, <3>1
    <3>3. Q(j) \in Nat /\ Q(j) \div 16 = 0 /\ Q(j) % 16 = 0
      <4>1. n <= HexWidth - N
        BY <1>1, <1>6
      <4>2. Q(j + 1) = 0
        BY <2>2, <3>2, <4>1
      <4>3. Nibble(v, j) = 0
        BY <1>6, <3>2
      <4> QED
        BY <1>2, <3>2, <4>2, <4>3
    <3>4. Q(j) = 0
      BY <3>3
    <3> QED
      BY <3>1, <3>4
  <2> HIDE DEF T
  <2>3. Nat \subseteq T
    BY <2>1, <2>2, NatInd
  <2>4. HexWidth - N \in Nat /\ HexWidth - (HexWidth - N) = N
    BY <1>1, <1>6
  <2>5. HexWidth - N \in T
    BY <2>3, <2>4
  <2> QED
    BY <2>4, <2>5 DEF T
<1>8. ASSUME NEW k \in 1 .. N
      PROVE  Hex(v)[k] = Q(N - k) % 16 /\ Hex(v)[k] \in 0 .. 15
  <2>1. PICK q : q = Q(N - k)
    OBVIOUS
  <2>2. N - k \in Nat
    BY <1>1, <1>6
  <2>3. q \in Nat
    BY <1>2, <2>1, <2>2
  <2>4. q % 16 \in 0 .. 15
    BY <2>3
  <2>5. Hex(v)[k] = Nibble(v, N - k)
    BY <1>6
  <2> QED
    BY <1>2, <2>1, <2>4, <2>5
<1>9. Hex(v) \in [1 .. N -> 0 .. 15]
  BY <1>6, <1>8
<1> DEFINE d == Hex(v)
<1> HIDE DEF d
<1>10. d \in Seq(0 .. 15) /\ d \in Seq(Nat) /\ Len(d) = N
  <2>1. 0 .. 15 \subseteq Nat /\ N \in Nat
    BY <1>1, <1>6
  <2>2. d \in [1 .. N -> 0 .. 15] /\ d \in [1 .. N -> Nat]
    BY <1>9, <2>1 DEF d
  <2> QED
    BY <2>1, <2>2, SeqDef
<1>11. ReadsAs(d, v, 16)
  <2>1. Remainders(d, v, 16)
    BY <1>7, <1>8, <1>10 DEF Remainders, d, Q
  <2> QED
    BY <1>1, <2>1, DigitsShow
<1>12. N > 1 => d[1] # 0
  BY <1>1, <1>6 DEF d
<1> QED
  BY <1>6, <1>10, <1>11, <1>12 DEF d, ReadsAs

\* hex_to_str stores digit i from the low end at out[i + 2]: it shows every
\* word, but from right to left (kernel.c:12-14).
THEOREM HexToStrIsBackwards ==
  ASSUME NEW v \in 0 .. Word - 1
  PROVE  Value(Reverse(hex_to_str(v)), 16) = v
<1> DEFINE h == hex_to_str(v)
           d == Reverse(h)
           N == HexWidth
<1>1. v \in Nat /\ N \in Nat
  BY WordFacts, ConversionsAssumption
<1>2. h = [k \in 1 .. N |-> Quotient(v, 16, k - 1) % 16]
  BY DEF hex_to_str, Nibble
<1>3. ASSUME NEW k \in 1 .. N
      PROVE  Quotient(v, 16, k - 1) % 16 \in Nat
  <2>1. PICK q : q = Quotient(v, 16, k - 1)
    OBVIOUS
  <2>2. k - 1 \in Nat
    BY <1>1
  <2>3. q \in Nat
    BY <1>1, <2>1, <2>2, QuotientIs
  <2>4. q % 16 \in Nat
    BY <2>3
  <2> QED
    BY <2>1, <2>4
<1> HIDE DEF h, N
<1>4. h \in [1 .. N -> Nat] /\ Len(h) = N
  BY <1>1, <1>2, <1>3
<1>5. d = [k \in 1 .. N |-> h[N - k + 1]]
  BY <1>4 DEF Reverse
<1>6. ASSUME NEW k \in 1 .. N
      PROVE  d[k] = Quotient(v, 16, N - k) % 16 /\ d[k] \in Nat
  <2>1. PICK m : m = N - k + 1
    OBVIOUS
  <2>2. m \in 1 .. N /\ m - 1 = N - k
    BY <1>1, <2>1
  <2>3. d[k] = h[m]
    BY <1>5, <2>1
  <2> QED
    BY <1>2, <1>4, <2>2, <2>3
<1>7. d \in [1 .. N -> Nat]
  BY <1>5, <1>6
<1> HIDE DEF d
<1>8. d \in Seq(Nat) /\ Len(d) = N
  BY <1>1, <1>7, SeqDef
<1>9. Remainders(d, v, 16)
  <2>1. Quotient(v, 16, N) = 0
    BY HexWidthIsEnough DEF N
  <2> QED
    BY <1>6, <1>8, <2>1 DEF Remainders
<1>10. ReadsAs(d, v, 16)
  BY <1>1, <1>9, DigitsShow
<1> QED
  BY <1>10 DEF ReadsAs, d, h

\* What %d shows says the number as an int, with its sign.
LEMMA DecimalShows ==
  ASSUME NEW v \in 0 .. Word - 1
  PROVE  LET d == Decimal(v) IN
         /\ SignedValue(d) = Signed(v)
         /\ \E u \in 0 .. Word - 1 :
              /\ d.digits \in Seq(0 .. 9) /\ ReadsAs(d.digits, u, 10)
              /\ d.neg \in BOOLEAN /\ v = IF d.neg THEN Word - u ELSE u
<1> DEFINE neg == Signed(v) < 0
           u == IF neg THEN Word - v ELSE v
           t == utoa(u, 10)
<1>1. Word \in Nat /\ Word > 255 /\ v \in Nat /\ v < Word
  BY WordFacts
<1>2. Word \div 2 \in Nat /\ Word \div 2 > 0
  BY <1>1
<1>3. /\ u \in 0 .. Word - 1 /\ Signed(v) = IF neg THEN -u ELSE u
      /\ neg \in BOOLEAN /\ v = IF neg THEN Word - u ELSE u
  BY <1>1, <1>2 DEF Signed
<1>4. Decimal(v) = [neg |-> neg, digits |-> t]
  BY DEF Decimal
<1> HIDE DEF neg, u
<1>5. t \in Seq(0 .. 9) /\ ReadsAs(t, u, 10)
  <2>1. 10 \in 2 .. 36 /\ 10 - 1 = 9
    OBVIOUS
  <2> QED
    BY <1>3, <2>1, UtoaShows
<1> HIDE DEF t
<1>6. Decimal(v).neg = neg /\ Decimal(v).digits = t
  BY <1>4
<1>7. SignedValue(Decimal(v)) = IF neg THEN -u ELSE u
  BY <1>5, <1>6 DEF SignedValue, ReadsAs
<1> QED
  BY <1>3, <1>5, <1>6, <1>7

-----------------------------------------------------------------------------
(* Reading                                                                 *)

LEMMA NumberIsWord ==
  ASSUME NEW s \in Seq(Nat)
  PROVE  NumberOf(s) \in 0 .. Word - 1
<1> DEFINE N == DigitsOf(s)
<1>1. Word \in Nat /\ Word > 0
  BY WordFacts
<1>2. PICK n \in [0 .. N -> 0 .. Word - 1] : NumberOf(s) = n[N]
  BY <1>1, NumberRead
<1>3. N \in Nat
  BY NumberIs, LenProperties
<1> HIDE DEF N
<1> QED
  BY <1>2, <1>3

\* Whatever the argument is, a command gets a word.
LEMMA AtoiIsWord ==
  ASSUME NEW s \in Seq(Nat)
  PROVE  atoi(s) \in 0 .. Word - 1
<1>1. Word \in Nat /\ Word > 0
  BY WordFacts
<1>2. CASE s # <<>> /\ s[1] = Minus
  <2>1. PICK m : m = NumberOf(Tail(s))
    OBVIOUS
  <2>2. m \in 0 .. Word - 1
    BY <1>2, <2>1, HeadTailProperties, NumberIsWord
  <2>3. Word - m \in Nat
    BY <1>1, <2>2
  <2>4. (Word - m) % Word \in 0 .. Word - 1
    BY <1>1, <2>3
  <2> QED
    BY <1>2, <2>1, <2>4 DEF atoi
<1>3. CASE ~(s # <<>> /\ s[1] = Minus)
  BY <1>3, NumberIsWord DEF atoi
<1> QED
  BY <1>2, <1>3

LEMMA SmallModulo ==
  ASSUME NEW x \in Nat, NEW W \in Nat, x < W
  PROVE  x % W = x
OBVIOUS

\* Counting modulo a word does not show as long as the number is a word.
LEMMA ModuloHidden ==
  ASSUME NEW W \in Nat, NEW N \in Nat, NEW c \in [1 .. N -> 48 .. 57],
         NEW u \in 0 .. W - 1, NEW m \in [0 .. N -> 0 .. u],
         NEW n \in [0 .. N -> 0 .. W - 1], n[0] = m[0],
         \A k \in 1 .. N : m[k] = m[k - 1] * 10 + (c[k] - 48),
         \A k \in 1 .. N : n[k] = (n[k - 1] * 10 + (c[k] - 48)) % W
  PROVE  n[N] = m[N]
<1> DEFINE S == {k \in Nat : k <= N => n[k] = m[k]}
<1>1. 0 \in S
  OBVIOUS
<1>2. ASSUME NEW k \in Nat, k \in S PROVE k + 1 \in S
  <2> SUFFICES ASSUME k + 1 <= N PROVE n[k + 1] = m[k + 1]
    OBVIOUS
  <2>1. PICK j : j = k + 1
    OBVIOUS
  <2>2. j \in 1 .. N /\ j \in 0 .. N /\ j - 1 = k
    BY <2>1
  <2>3. PICK x : x = m[j]
    OBVIOUS
  <2>4. x \in Nat /\ x < W
    BY <2>2, <2>3
  <2>5. x % W = x
    BY <2>4, SmallModulo, Zenon
  <2>6. x = m[k] * 10 + (c[j] - 48) /\ n[j] = (n[k] * 10 + (c[j] - 48)) % W
    BY <2>2, <2>3
  <2>7. n[k] = m[k]
    BY <1>2
  <2>8. n[j] = x % W
    BY <2>6, <2>7
  <2> QED
    BY <2>1, <2>3, <2>5, <2>8
<1> HIDE DEF S
<1>3. N \in S
  BY <1>1, <1>2, NatInd
<1> QED
  BY <1>3 DEF S

\* Characters of decimal digits are read as the number they say.
LEMMA NumberShown ==
  ASSUME NEW t \in Seq(0 .. 9), NEW u \in 0 .. Word - 1, ReadsAs(t, u, 10),
         NEW s \in Seq(48 .. 57), Len(s) = Len(t),
         \A k \in 1 .. Len(t) : t[k] = s[k] - 48
  PROVE  s \in Seq(Nat) /\ NumberOf(s) = u
<1>1. PICK N \in Nat : N = Len(t)
  BY LenProperties
<1>2. s \in [1 .. N -> 48 .. 57] /\ \A k \in 1 .. N : t[k] = s[k] - 48
  BY <1>1, LenProperties
<1>3. PICK m \in [0 .. N -> 0 .. u] :
        /\ m[0] = 0 /\ m[N] = u
        /\ \A k \in 1 .. N : m[k] = m[k - 1] * 10 + t[k]
  BY <1>1 DEF ReadsAs
<1>4. \A k \in 1 .. N : m[k] = m[k - 1] * 10 + (s[k] - 48)
  BY <1>2, <1>3
<1>5. s \in Seq(Nat)
  <2>1. 48 .. 57 \subseteq Nat
    OBVIOUS
  <2> QED
    BY <2>1, SeqMonotonic
<1>6. DigitsOf(s) = N
  <2>1. PICK M : M = DigitsOf(s)
    OBVIOUS
  <2>2. M \in 0 .. N /\ (M = N \/ ~ IsDigit(s[M + 1]))
    BY <1>1, <1>5, <2>1, NumberIs
  <2>3. PICK k : k = M + 1
    OBVIOUS
  <2>4. M # N => k \in 1 .. N
    BY <2>2, <2>3
  <2>5. M # N => IsDigit(s[k])
    BY <1>2, <2>4 DEF IsDigit
  <2> QED
    BY <2>1, <2>2, <2>3, <2>5
<1>7. Word \in Nat /\ Word > 0
  BY WordFacts
<1>8. PICK n \in [0 .. N -> 0 .. Word - 1] :
        /\ n[0] = 0 /\ NumberOf(s) = n[N]
        /\ \A k \in 1 .. N : n[k] = (n[k - 1] * 10 + (s[k] - 48)) % Word
  BY <1>5, <1>6, <1>7, NumberRead
<1>9. n[N] = m[N]
  <2>1. n[0] = m[0]
    BY <1>3, <1>8
  <2> QED
    BY <1>2, <1>4, <1>7, <1>8, <2>1, ModuloHidden
<1> QED
  BY <1>3, <1>5, <1>8, <1>9

\* The text of a %d, in character codes.
Characters(d) ==
  LET s == [k \in DOMAIN d.digits |-> 48 + d.digits[k]]
  IN  IF d.neg THEN <<Minus>> \o s ELSE s

\* k_atoi reads what %d shows, for every word: as an int the number is the
\* same, and the lowest one, too, which has no positive counterpart
\* (coresystem.c:121-131, 158-168).
THEOREM AtoiReadsDecimal ==
  ASSUME NEW v \in 0 .. Word - 1
  PROVE  atoi(Characters(Decimal(v))) = v
<1> DEFINE d == Decimal(v)
           t == d.digits
           s == [k \in DOMAIN t |-> 48 + t[k]]
<1>1. PICK u \in 0 .. Word - 1 :
        /\ t \in Seq(0 .. 9) /\ ReadsAs(t, u, 10)
        /\ d.neg \in BOOLEAN /\ v = IF d.neg THEN Word - u ELSE u
  BY DecimalShows
<1>2. Word \in Nat /\ Word > 0 /\ v \in Nat /\ v < Word /\ u \in Nat /\ u < Word
  BY WordFacts
<1>3. Characters(d) = IF d.neg THEN <<Minus>> \o s ELSE s
  BY DEF Characters
<1> HIDE DEF t, d
<1>4. DOMAIN t = 1 .. Len(t) /\ Len(t) \in Nat /\ \A k \in 1 .. Len(t) : t[k] \in 0 .. 9
  BY <1>1, LenProperties, ElementOfSeq
<1>5. s = [k \in 1 .. Len(t) |-> 48 + t[k]]
  BY <1>4
<1> HIDE DEF s
<1>6. /\ \A k \in 1 .. Len(t) : t[k] = s[k] - 48 /\ s[k] \in 48 .. 57
      /\ s \in [1 .. Len(t) -> 48 .. 57]
  <2>1. \A k \in 1 .. Len(t) : 48 + t[k] \in 48 .. 57 /\ t[k] = (48 + t[k]) - 48
    BY <1>4
  <2>2. \A k \in 1 .. Len(t) : s[k] = 48 + t[k]
    BY <1>5
  <2> QED
    BY <1>5, <2>1, <2>2
<1>7. s \in Seq(48 .. 57) /\ Len(s) = Len(t)
  BY <1>4, <1>6, SeqDef, LenProperties
<1>8. NumberOf(s) = u /\ s \in Seq(Nat)
  BY <1>1, <1>6, <1>7, NumberShown
<1>9. CASE d.neg
  <2> DEFINE r == <<Minus>> \o s
  <2>1. <<Minus>> \in Seq(Nat) /\ Len(<<Minus>>) = 1 /\ <<Minus>>[1] = Minus
    BY DEF Minus
  <2>2. /\ r \in Seq(Nat) /\ Len(r) = 1 + Len(s)
        /\ r[1] = Minus /\ \A k \in 1 .. Len(s) : r[k + 1] = s[k]
    BY <1>8, <2>1
  <2> HIDE DEF r
  <2>3. r # <<>>
    BY <1>4, <1>7, <2>2, EmptySeq
  <2>4. /\ Tail(r) \in Seq(Nat) /\ Len(Tail(r)) = Len(s)
        /\ \A k \in 1 .. Len(s) : Tail(r)[k] = s[k]
    <3>1. /\ Tail(r) \in Seq(Nat) /\ Len(Tail(r)) = Len(r) - 1
          /\ \A k \in 1 .. Len(Tail(r)) : Tail(r)[k] = r[k + 1]
      BY <2>2, <2>3, HeadTailProperties
    <3> QED
      BY <1>4, <1>7, <2>2, <3>1
  <2>5. Tail(r) = s
    BY <1>8, <2>4, SeqEqual
  <2>6. atoi(r) = (Word - u) % Word
    BY <1>8, <2>2, <2>3, <2>5 DEF atoi
  <2>7. v = Word - u
    BY <1>1, <1>9
  <2>8. v % Word = v
    BY <1>2
  <2> QED
    BY <1>3, <1>9, <2>6, <2>7, <2>8 DEF r, d
<1>10. CASE ~ d.neg
  <2>1. s # <<>> => s[1] # Minus
    <3>1. s # <<>> => 1 \in 1 .. Len(t)
      BY <1>4, <1>7, EmptySeq
    <3> QED
      BY <1>6, <3>1 DEF Minus
  <2>2. atoi(s) = u
    BY <1>8, <2>1 DEF atoi
  <2> QED
    BY <1>1, <1>3, <1>10, <2>2 DEF d
<1> QED
  BY <1>1, <1>9, <1>10

-----------------------------------------------------------------------------
(* The uptime                                                              *)

\* A quotient and its remainder.
LEMMA Division ==
  ASSUME NEW n \in Nat, NEW d \in {24, 50, 60, 1000}
  PROVE  /\ n \div d \in Nat /\ n % d \in 0 .. d - 1
         /\ n = d * (n \div d) + (n % d)
<1>1. CASE d = 24
  BY <1>1
<1>2. CASE d = 50
  BY <1>2
<1>3. CASE d = 60
  BY <1>3
<1>4. CASE d = 1000
  BY <1>4
<1> QED
  BY <1>1, <1>2, <1>3, <1>4

\* 1000 / SCHEDULER_QUANTUM_MS ticks are a second, without a remainder.
LEMMA TicksPerSecond ==
  ASSUME NEW ticks \in Nat
  PROVE  ticks \div (1000 \div SCHEDULER_QUANTUM_MS)
           = (ticks * SCHEDULER_QUANTUM_MS) \div 1000
<1>1. 1000 \div SCHEDULER_QUANTUM_MS = 50
  BY DEF SCHEDULER_QUANTUM_MS
<1> DEFINE q == ticks \div 50
           r == ticks % 50
<1>2. q \in Nat /\ r \in 0 .. 49 /\ ticks = 50 * q + r
  BY Division
<1> HIDE DEF q, r
<1>3. ticks * 20 = 1000 * q + 20 * r /\ 20 * r \in 0 .. 999
  BY <1>2
<1>4. (ticks * 20) \div 1000 = q
  BY <1>2, <1>3
<1> QED
  BY <1>1, <1>4 DEF q, SCHEDULER_QUANTUM_MS

\* The numbers cmd_uptime prints (coresystem.c:921-937) add up to the time
\* the ticks took, each below the next unit: dividing by the ticks of a
\* second, then by 60, 60 and 24, and taking the remainders of the quotients,
\* loses nothing.
THEOREM UptimeIsTime ==
  ASSUME NEW ticks \in Nat
  PROVE  LET p == UptimeParts(ticks) IN
         /\ p[1] \in Nat /\ p[2] \in 0 .. 23
         /\ p[3] \in 0 .. 59 /\ p[4] \in 0 .. 59
         /\ ((p[1] * 24 + p[2]) * 60 + p[3]) * 60 + p[4]
              = (ticks * SCHEDULER_QUANTUM_MS) \div 1000
         /\ p[5] = ticks
<1> DEFINE seconds == ticks \div (1000 \div SCHEDULER_QUANTUM_MS)
           minutes == seconds \div 60
           hours   == minutes \div 60
           p       == UptimeParts(ticks)
<1>1. /\ p[1] = hours \div 24 /\ p[2] = hours % 24
      /\ p[3] = minutes % 60 /\ p[4] = seconds % 60 /\ p[5] = ticks
  BY DEF UptimeParts
<1>2. 1000 \div SCHEDULER_QUANTUM_MS = 50
  BY DEF SCHEDULER_QUANTUM_MS
<1>3. seconds \in Nat
  BY <1>2, Division
<1>4. seconds = (ticks * SCHEDULER_QUANTUM_MS) \div 1000
  BY TicksPerSecond
<1> HIDE DEF seconds
<1>5. /\ minutes \in Nat /\ seconds % 60 \in 0 .. 59
      /\ seconds = 60 * minutes + (seconds % 60)
  BY <1>3, Division
<1> HIDE DEF minutes
<1>6. /\ hours \in Nat /\ minutes % 60 \in 0 .. 59
      /\ minutes = 60 * hours + (minutes % 60)
  BY <1>5, Division
<1> HIDE DEF hours
<1>7. /\ hours \div 24 \in Nat /\ hours % 24 \in 0 .. 23
      /\ hours = 24 * (hours \div 24) + (hours % 24)
  BY <1>6, Division
<1> HIDE DEF p
<1>8. ((p[1] * 24 + p[2]) * 60 + p[3]) * 60 + p[4] = seconds
  <2>1. p[1] * 24 + p[2] = hours
    BY <1>1, <1>7
  <2>2. hours * 60 + p[3] = minutes
    BY <1>1, <1>6
  <2>3. minutes * 60 + p[4] = seconds
    BY <1>1, <1>5
  <2> QED
    BY <2>1, <2>2, <2>3
<1> QED
  BY <1>1, <1>4, <1>5, <1>6, <1>7, <1>8 DEF p

LEMMA NegativeModulo ==
  ASSUME NEW x \in Nat, NEW W \in Nat, x < W
  PROVE  (x - W) % W = x
OBVIOUS

\* The numbers of days to seconds are too small to be shown as negative.
LEMMA PartsAreSmall ==
  ASSUME NEW ticks \in 0 .. Word - 1
  PROVE  \A k \in 1 .. 4 : /\ UptimeParts(ticks)[k] \in 0 .. Word - 1
                           /\ Signed(UptimeParts(ticks)[k]) = UptimeParts(ticks)[k]
<1> DEFINE p == UptimeParts(ticks)
           s == (ticks * SCHEDULER_QUANTUM_MS) \div 1000
<1>1. Word \in Nat /\ Word > 255 /\ ticks \in Nat /\ ticks < Word
  BY WordFacts
<1>2. /\ p[1] \in Nat /\ p[2] \in 0 .. 23 /\ p[3] \in 0 .. 59 /\ p[4] \in 0 .. 59
      /\ ((p[1] * 24 + p[2]) * 60 + p[3]) * 60 + p[4] = s
  BY <1>1, UptimeIsTime
<1>3. s \in Nat /\ 50 * s <= ticks
  <2>1. 1000 \div SCHEDULER_QUANTUM_MS = 50
    BY DEF SCHEDULER_QUANTUM_MS
  <2>2. s = ticks \div 50
    BY <1>1, <2>1, TicksPerSecond
  <2> HIDE DEF s
  <2> QED
    BY <1>1, <2>2, Division
<1> HIDE DEF p, s
<1>4. \A k \in 1 .. 4 : p[k] \in Nat /\ p[k] <= s
  <2>1. ASSUME NEW a \in Nat, NEW b \in Nat, NEW c \in Nat, NEW d \in Nat,
               ((a * 24 + b) * 60 + c) * 60 + d = s
        PROVE  a <= s /\ b <= s /\ c <= s /\ d <= s
    BY <2>1
  <2>2. p[2] \in Nat /\ p[3] \in Nat /\ p[4] \in Nat
    BY <1>2
  <2>3. p[1] <= s /\ p[2] <= s /\ p[3] <= s /\ p[4] <= s
    BY <1>2, <2>1, <2>2
  <2> QED
    BY <1>2, <2>2, <2>3
<1>5. ASSUME NEW k \in 1 .. 4 PROVE p[k] \in 0 .. Word - 1 /\ Signed(p[k]) = p[k]
  <2>1. PICK x : x = p[k]
    OBVIOUS
  <2>2. x \in Nat /\ 50 * x < Word
    BY <1>1, <1>3, <1>4, <2>1
  <2>3. x < Word \div 2 /\ x < Word
    BY <1>1, <2>2
  <2>4. Signed(x) = x
    BY <2>3 DEF Signed
  <2> QED
    BY <1>1, <2>1, <2>2, <2>3, <2>4
<1> QED
  BY <1>5 DEF p

\* What the uptime printed last is the uptime of its ticks.
UptimePrinted ==
  pc = "idle" /\ call.cmd = "uptime" =>
    /\ call.ticks \in 0 .. Word - 1
    /\ out = <<Uptime(UptimeParts(call.ticks))>>

LEMMA PrintedAddsUp == UptimePrinted => UptimeAddsUp
<1> SUFFICES ASSUME UptimePrinted, pc = "idle", call.cmd = "uptime"
             PROVE  UptimeAddsUp
  BY DEF UptimeAddsUp
<1> DEFINE ticks == call.ticks
           p == UptimeParts(ticks)
           shown == [k \in 1 .. 5 |-> SignedValue(out[1].shown[k])]
<1>1. ticks \in 0 .. Word - 1 /\ out = <<Uptime(p)>>
  BY DEF UptimePrinted
<1>2. Word \in Nat /\ Word > 255 /\ ticks \in Nat /\ ticks < Word
  BY <1>1, WordFacts
<1>3. out[1].shown = [k \in DOMAIN p |-> Decimal(p[k])]
  BY <1>1 DEF Uptime
<1>4. DOMAIN p = 1 .. 5
  BY DEF UptimeParts
<1>5. /\ p[1] \in Nat /\ p[2] \in 0 .. 23 /\ p[3] \in 0 .. 59 /\ p[4] \in 0 .. 59
      /\ ((p[1] * 24 + p[2]) * 60 + p[3]) * 60 + p[4]
           = (ticks * SCHEDULER_QUANTUM_MS) \div 1000
      /\ p[5] = ticks
  BY <1>2, UptimeIsTime
<1>6. \A k \in 1 .. 4 : p[k] \in 0 .. Word - 1 /\ Signed(p[k]) = p[k]
  BY <1>1, PartsAreSmall
<1> HIDE DEF p
<1>7. \A k \in 1 .. 5 : shown[k] = SignedValue(Decimal(p[k]))
  BY <1>3, <1>4
<1>8. \A k \in 1 .. 4 : shown[k] = p[k]
  <2> SUFFICES ASSUME NEW k \in 1 .. 4 PROVE shown[k] = p[k]
    OBVIOUS
  <2>1. SignedValue(Decimal(p[k])) = Signed(p[k])
    BY <1>6, DecimalShows
  <2>2. k \in 1 .. 5
    OBVIOUS
  <2> QED
    BY <1>6, <1>7, <2>1, <2>2
<1>9. shown[5] % Word = ticks
  <2>1. SignedValue(Decimal(ticks)) = Signed(ticks)
    BY <1>1, DecimalShows
  <2>2. shown[5] = Signed(ticks)
    BY <1>5, <1>7, <2>1
  <2>3. Signed(ticks) % Word = ticks
    <3>1. ticks % Word = ticks /\ (ticks - Word) % Word = ticks
      BY <1>2, SmallModulo, NegativeModulo
    <3> QED
      BY <3>1 DEF Signed
  <2> QED
    BY <2>2, <2>3
<1> HIDE DEF shown
<1>10. /\ shown[2] \in 0 .. 23 /\ shown[3] \in 0 .. 59 /\ shown[4] \in 0 .. 59
       /\ ((shown[1] * 24 + shown[2]) * 60 + shown[3]) * 60 + shown[4]
            = (ticks * SCHEDULER_QUANTUM_MS) \div 1000
  BY <1>5, <1>8
<1> QED
  BY <1>9, <1>10 DEF UptimeAddsUp, shown

-----------------------------------------------------------------------------
(* The table of a dump, at address a, as far as it is printed              *)

\* The calls of shell_printf in cmd_hexdump's loop and behind it.
Calls ==
  {Row(v) : v \in 0 .. Word - 1} \cup {Byte(b) : b \in 0 .. 255}
    \cup {Ascii(b) : b \in [Columns -> 0 .. 255]} \cup {Text("gap")}

Place(a, n) == (a + n) % Word

ByteAt(a, n) == Memory(Place(a, n))

\* The characters of row r when l bytes are dumped.
Characters16(a, l, r) ==
  [c \in Columns |-> IF r * 16 + c < l THEN Printable(ByteAt(a, r * 16 + c)) ELSE 32]

\* The rows up to R are there, those before R closed, with the first n bytes.
Holds(o, a, n, R) ==
  /\ \A r \in 0 .. R : o[r * 18 + 1] = Row(Place(a, r * 16))
  /\ \A r \in 0 .. R - 1 :
       /\ r * 16 + 15 < n
       /\ o[r * 18 + 18] = Ascii(Characters16(a, n, r))
  /\ \A r \in 0 .. R, c \in Columns :
       r * 16 + c < n => o[r * 18 + c + 2] = Byte(ByteAt(a, r * 16 + c))

\* The last of the n bytes is in column C of row R, and ascii_buf holds the
\* characters of its row.
Written(o, b, a, n, R, C) ==
  /\ o \in Seq(Calls) /\ R \in Nat /\ C \in Columns
  /\ n = R * 16 + C + 1 /\ Len(o) = R * 18 + C + 2
  /\ Holds(o, a, n, R)
  /\ \A c \in 0 .. C : b[c] = Printable(ByteAt(a, R * 16 + c))

Added(p, o, x) == p = o \o <<x>>

\* Row R is open, and the next byte, number n, belongs in its column C.
Open(o, b, a, n, R, C) ==
  /\ o \in Seq(Calls) /\ R \in Nat /\ C \in Columns
  /\ n = R * 16 + C /\ Len(o) = R * 18 + C + 1
  /\ Holds(o, a, n, R)
  /\ \A c \in 0 .. C - 1 : b[c] = Printable(ByteAt(a, R * 16 + c))

\* The end of the loop body prints that byte and keeps its character.
Put(p, d, o, b, a, n, C) ==
  /\ Added(p, o, Byte(ByteAt(a, n)))
  /\ d = [b EXCEPT ![C] = Printable(ByteAt(a, n))]

\* The dump of l bytes is complete.
Table(o, a, l, R, C) ==
  /\ R \in Nat /\ C \in Columns /\ l = R * 16 + C + 1 /\ Len(o) = (R + 1) * 18
  /\ \A r \in 0 .. R :
       /\ o[r * 18 + 1] = Row(Place(a, r * 16))
       /\ o[r * 18 + 18] = Ascii(Characters16(a, l, r))
       /\ \A c \in Columns :
            o[r * 18 + c + 2] = IF r * 16 + c < l THEN Byte(ByteAt(a, r * 16 + c))
                                ELSE Text("gap")

LEMMA AddOne ==
  ASSUME NEW S, NEW o \in Seq(S), NEW x \in S, NEW p, Added(p, o, x)
  PROVE  /\ p \in Seq(S) /\ Len(p) = Len(o) + 1 /\ p[Len(o) + 1] = x
         /\ \A k \in 1 .. Len(o) : p[k] = o[k]
<1> DEFINE t == <<x>>
<1>1. t \in Seq(S) /\ Len(t) = 1 /\ t[1] = x
  OBVIOUS
<1>2. p = o \o t
  BY DEF Added
<1> HIDE DEF t
<1>3. /\ p \in Seq(S) /\ Len(p) = Len(o) + 1
      /\ \A k \in 1 .. Len(o) + 1 :
           p[k] = IF k <= Len(o) THEN o[k] ELSE t[k - Len(o)]
  <2>1. /\ o \o t \in Seq(S) /\ Len(o \o t) = Len(o) + 1
        /\ \A k \in 1 .. Len(o) + 1 :
             (o \o t)[k] = IF k <= Len(o) THEN o[k] ELSE t[k - Len(o)]
    BY <1>1, ConcatProperties, SMTT(30)
  <2> QED
    BY <1>2, <2>1
<1>4. Len(o) \in Nat
  BY LenProperties
<1>5. \A k \in 1 .. Len(o) : p[k] = o[k]
  BY <1>3, <1>4
<1>6. p[Len(o) + 1] = x
  <2>1. PICK m : m = Len(o) + 1
    OBVIOUS
  <2>2. m \in 1 .. Len(o) + 1 /\ ~(m <= Len(o)) /\ m - Len(o) = 1
    BY <1>4, <2>1
  <2> QED
    BY <1>1, <1>3, <2>1, <2>2
<1> QED
  BY <1>3, <1>5, <1>6

LEMMA PlaceIsWord ==
  ASSUME NEW a \in Nat, NEW n \in Nat
  PROVE  /\ Place(a, n) \in 0 .. Word - 1 /\ ByteAt(a, n) \in 0 .. 255
         /\ ByteAt(a, n) \in 0 .. Word - 1
         /\ Printable(ByteAt(a, n)) \in 32 .. 126
<1>1. Word \in Nat /\ Word > 255
  BY WordFacts
<1>2. PICK k : k = a + n
  OBVIOUS
<1>3. k \in Nat
  BY <1>2
<1>4. k % Word \in 0 .. Word - 1
  BY <1>1, <1>3
<1>5. Place(a, n) \in 0 .. Word - 1
  BY <1>2, <1>4 DEF Place
<1>6. ByteAt(a, n) \in 0 .. 255
  BY <1>5, CoreShellAssumption DEF ByteAt
<1>7. Printable(ByteAt(a, n)) \in 32 .. 126
  BY <1>6 DEF Printable
<1> QED
  BY <1>1, <1>5, <1>6, <1>7

\* A buffer of characters is printed whole.
LEMMA CStringIs ==
  ASSUME NEW b \in [Columns -> 0 .. 255], \A c \in Columns : b[c] # 0
  PROVE  CString(b) = [j \in 1 .. 16 |-> b[j - 1]]
<1> DEFINE P(k) == /\ \A j \in 0 .. k - 1 : b[j] # 0
                   /\ k = RowLen \/ b[k] = 0
           end == CHOOSE k \in 0 .. RowLen : P(k)
<1>1. Columns = 0 .. 15 /\ RowLen = 16
  BY DEF Columns, RowLen
<1>2. 16 \in 0 .. RowLen /\ P(16)
  BY <1>1
<1>3. \A k \in 0 .. RowLen : P(k) => k = 16
  <2> SUFFICES ASSUME NEW k \in 0 .. RowLen, P(k), k # 16 PROVE FALSE
    OBVIOUS
  <2>1. k \in Columns
    BY <1>1
  <2> QED
    BY <1>1, <2>1
<1> HIDE DEF P
<1>4. end \in 0 .. RowLen /\ P(end)
  BY <1>2
<1> HIDE DEF end
<1>5. end = 16
  BY <1>3, <1>4
<1>6. CString(b) = [j \in 1 .. end |-> b[j - 1]]
  BY DEF CString, end, P
<1> QED
  BY <1>5, <1>6

LEMMA SameCell ==
  ASSUME NEW R \in Nat, NEW C \in 0 .. 15, NEW r \in 0 .. R, NEW c \in 0 .. 15,
         r * 16 + c < R * 16 + C + 1, ~(r * 16 + c < R * 16 + C)
  PROVE  r = R /\ c = C
OBVIOUS

\* The next byte of a row that is open.
LEMMA ByteAdded ==
  ASSUME NEW a \in Nat, NEW R, NEW C, NEW n, NEW o, NEW b \in [Columns -> 0 .. 255],
         Open(o, b, a, n, R, C), NEW p, NEW d, Put(p, d, o, b, a, n, C)
  PROVE  Written(p, d, a, n + 1, R, C) /\ d \in [Columns -> 0 .. 255]
<1>1. /\ Columns = 0 .. 15 /\ R \in Nat /\ C \in 0 .. 15
      /\ n = R * 16 + C /\ Len(o) = R * 18 + C + 1 /\ Holds(o, a, n, R)
      /\ \A c \in 0 .. C - 1 : b[c] = Printable(ByteAt(a, R * 16 + c))
  BY DEF Open, Columns, RowLen
<1>2. n \in Nat
  BY <1>1
<1>3. /\ p \in Seq(Calls) /\ Len(p) = Len(o) + 1
      /\ p[Len(o) + 1] = Byte(ByteAt(a, n))
      /\ \A k \in 1 .. Len(o) : p[k] = o[k]
  <2>1. Byte(ByteAt(a, n)) \in Calls
    BY <1>2, PlaceIsWord DEF Calls
  <2>2. o \in Seq(Calls) /\ Added(p, o, Byte(ByteAt(a, n)))
    BY DEF Open, Put
  <2> QED
    BY <2>1, <2>2, AddOne
<1>4. ASSUME NEW k \in 1 .. R * 18 + C + 1 PROVE p[k] = o[k]
  BY <1>1, <1>3
<1>5. \A r \in 0 .. R : p[r * 18 + 1] = Row(Place(a, r * 16))
  <2> SUFFICES ASSUME NEW r \in 0 .. R PROVE p[r * 18 + 1] = Row(Place(a, r * 16))
    OBVIOUS
  <2>1. r * 18 + 1 \in 1 .. R * 18 + C + 1
    BY <1>1
  <2> QED
    BY <1>1, <1>4, <2>1 DEF Holds
<1>6. ASSUME NEW r \in 0 .. R - 1
      PROVE  /\ r * 16 + 15 < n + 1
             /\ p[r * 18 + 18] = Ascii(Characters16(a, n + 1, r))
  <2>1. r * 18 + 18 \in 1 .. R * 18 + C + 1 /\ r * 16 + 15 < n
    BY <1>1
  <2>2. \A c \in Columns : r * 16 + c < n /\ r * 16 + c < n + 1
    BY <1>1, <1>2, <2>1
  <2>3. Characters16(a, n + 1, r) = Characters16(a, n, r)
    BY <2>2 DEF Characters16
  <2>4. o[r * 18 + 18] = Ascii(Characters16(a, n, r))
    BY <1>1 DEF Holds
  <2> QED
    BY <1>2, <1>4, <2>1, <2>3, <2>4
<1>7. ASSUME NEW r \in 0 .. R, NEW c \in Columns, r * 16 + c < n + 1
      PROVE  p[r * 18 + c + 2] = Byte(ByteAt(a, r * 16 + c))
  <2>1. CASE r * 16 + c < n
    <3>1. r * 18 + c + 2 \in 1 .. R * 18 + C + 1
      BY <1>1, <2>1
    <3> QED
      BY <1>1, <1>4, <2>1, <3>1 DEF Holds
  <2>2. CASE ~(r * 16 + c < n)
    <3>1. r = R /\ c = C
      BY <1>1, <1>7, <2>2, SameCell
    <3>2. r * 18 + c + 2 = Len(o) + 1 /\ r * 16 + c = n
      BY <1>1, <3>1
    <3> QED
      BY <1>3, <3>2
  <2> QED
    BY <2>1, <2>2
<1>8. Holds(p, a, n + 1, R)
  BY <1>5, <1>6, <1>7 DEF Holds
<1>9. /\ d \in [Columns -> 0 .. 255]
      /\ d[C] = Printable(ByteAt(a, n)) /\ \A c \in Columns \ {C} : d[c] = b[c]
  <2>1. Printable(ByteAt(a, n)) \in 32 .. 126
    BY <1>2, PlaceIsWord
  <2>2. PICK x : x = Printable(ByteAt(a, n))
    OBVIOUS
  <2>3. x \in 0 .. 255
    BY <2>1, <2>2
  <2>4. d = [b EXCEPT ![C] = x] /\ C \in Columns
    BY <1>1, <2>2 DEF Put
  <2>5. d \in [Columns -> 0 .. 255] /\ d[C] = x /\ \A c \in Columns \ {C} : d[c] = b[c]
    BY <2>3, <2>4
  <2> QED
    BY <2>2, <2>5
<1>10. ASSUME NEW c \in 0 .. C PROVE d[c] = Printable(ByteAt(a, R * 16 + c))
  <2>1. CASE c = C
    BY <1>1, <1>9, <2>1
  <2>2. CASE c # C
    <3>1. c \in 0 .. C - 1 /\ c \in Columns \ {C}
      BY <1>1, <2>2
    <3> QED
      BY <1>1, <1>9, <3>1
  <2> QED
    BY <2>1, <2>2
<1>11. Len(p) = R * 18 + C + 2 /\ n + 1 = R * 16 + C + 1
  BY <1>1, <1>3
<1> QED
  BY <1>1, <1>3, <1>8, <1>9, <1>10, <1>11 DEF Written


LEMMA AddTwo ==
  ASSUME NEW S, NEW o \in Seq(S), NEW x \in S, NEW y \in S, NEW N \in Nat, Len(o) = N,
         NEW p, Added(p, o, x), NEW q, Added(q, p, y)
  PROVE  /\ q \in Seq(S) /\ Len(q) = N + 2 /\ q[N + 1] = x /\ q[N + 2] = y
         /\ \A k \in 1 .. N : q[k] = o[k]
<1>1. /\ p \in Seq(S) /\ Len(p) = N + 1 /\ p[N + 1] = x
      /\ \A k \in 1 .. N : p[k] = o[k]
  BY AddOne, SMTT(30)
<1>2. PICK K : K = N + 1
  OBVIOUS
<1>3. Len(p) = K /\ p[K] = x
  BY <1>1, <1>2
<1>4. /\ q \in Seq(S) /\ Len(q) = K + 1 /\ q[K + 1] = y
      /\ \A k \in 1 .. K : q[k] = p[k]
  BY <1>1, <1>3, AddOne
<1>5. K + 1 = N + 2 /\ K \in 1 .. K /\ \A k \in 1 .. N : k \in 1 .. K
  BY <1>2
<1> QED
  BY <1>1, <1>2, <1>3, <1>4, <1>5, Zenon

Joined(q, o, g) == q = o \o g

LEMMA AddMany ==
  ASSUME NEW S, NEW o \in Seq(S), NEW N \in Nat, Len(o) = N,
         NEW M \in Nat, NEW g \in [1 .. M -> S], NEW q, Joined(q, o, g)
  PROVE  /\ q \in Seq(S) /\ Len(q) = N + M
         /\ \A k \in 1 .. N : q[k] = o[k]
         /\ \A k \in N + 1 .. N + M : q[k] = g[k - N]
<1>1. g \in Seq(S) /\ Len(g) = M
  BY SeqDef, LenProperties
<1>2. /\ o \o g \in Seq(S) /\ Len(o \o g) = N + M
      /\ \A k \in 1 .. N + M : (o \o g)[k] = IF k <= N THEN o[k] ELSE g[k - N]
  BY <1>1, ConcatProperties
<1>3. q = o \o g
  BY DEF Joined
<1> QED
  BY <1>2, <1>3

\* p is o, M calls g, and a last one.
Ended(p, o, g, x, N, M) ==
  /\ o \in Seq(Calls) /\ N \in Nat /\ Len(o) = N
  /\ M \in Nat /\ g \in [1 .. M -> Calls] /\ x \in Calls
  /\ \E q : Joined(q, o, g) /\ Added(p, q, x)

LEMMA AddLast ==
  ASSUME NEW p, NEW o, NEW g, NEW x, NEW N, NEW M, Ended(p, o, g, x, N, M)
  PROVE  /\ Len(p) = N + M + 1 /\ p[N + M + 1] = x
         /\ \A k \in 1 .. N : p[k] = o[k]
         /\ \A k \in N + 1 .. N + M : p[k] = g[k - N]
<1>1. /\ o \in Seq(Calls) /\ N \in Nat /\ Len(o) = N
      /\ M \in Nat /\ g \in [1 .. M -> Calls] /\ x \in Calls
  BY DEF Ended
<1>2. PICK q : Joined(q, o, g) /\ Added(p, q, x)
  BY DEF Ended
<1>3. /\ q \in Seq(Calls) /\ Len(q) = N + M
      /\ \A k \in 1 .. N : q[k] = o[k]
      /\ \A k \in N + 1 .. N + M : q[k] = g[k - N]
  BY <1>1, <1>2, AddMany
<1>4. /\ Len(p) = Len(q) + 1 /\ p[Len(q) + 1] = x
      /\ \A k \in 1 .. Len(q) : p[k] = q[k]
  <2>1. q \in Seq(Calls) /\ x \in Calls /\ Added(p, q, x)
    BY <1>1, <1>2, <1>3
  <2> QED
    BY <2>1, AddOne
<1> QED
  BY <1>1, <1>3, <1>4

\* The characters of row R, whose last byte is in column C.
Filled(d, a, R, C) ==
  /\ d \in [Columns -> 0 .. 255]
  /\ \A c \in Columns : d[c] = IF c <= C THEN Printable(ByteAt(a, R * 16 + c)) ELSE 32

LEMMA RowFilled ==
  ASSUME NEW a \in Nat, NEW R \in Nat, NEW C \in Columns, NEW d, Filled(d, a, R, C)
  PROVE  d = Characters16(a, R * 16 + C + 1, R)
<1>1. Columns = 0 .. 15
  BY DEF Columns, RowLen
<1>2. \A c \in Columns : c <= C <=> R * 16 + c < R * 16 + C + 1
  BY <1>1
<1> QED
  BY <1>2 DEF Characters16, Filled

LEMMA CellOfRows ==
  ASSUME NEW R \in Nat, NEW r \in 0 .. R + 1, NEW c \in 0 .. 15,
         r * 16 + c < R * 16 + 16
  PROVE  r \in 0 .. R /\ r * 18 + c + 2 \in 1 .. R * 18 + 17
OBVIOUS

\* The row that is closed holds the characters of its bytes.
LEMMA RowOpened ==
  ASSUME NEW a \in Nat, NEW R \in Nat, NEW n, n = R * 16 + 16,
         NEW b \in [Columns -> 0 .. 255], NEW o, Written(o, b, a, n, R, 15),
         NEW p, Added(p, o, Ascii(b)), NEW q, Added(q, p, Row(Place(a, n)))
  PROVE  /\ q \in Seq(Calls) /\ Len(q) = (R + 1) * 18 + 1
         /\ Holds(q, a, n, R + 1)
<1>1. Columns = 0 .. 15 /\ n \in Nat
  BY DEF Columns, RowLen
<1>2. o \in Seq(Calls) /\ Len(o) = R * 18 + 17 /\ Holds(o, a, n, R)
  BY <1>1 DEF Written
<1>3. Ascii(b) \in Calls /\ Row(Place(a, n)) \in Calls
  BY <1>1, PlaceIsWord, SMTT(30) DEF Calls
<1>4. PICK N : N = R * 18 + 17
  OBVIOUS
<1>5. /\ q \in Seq(Calls) /\ Len(q) = N + 2
      /\ q[N + 1] = Ascii(b) /\ q[N + 2] = Row(Place(a, n))
      /\ \A k \in 1 .. N : q[k] = o[k]
  <2>1. N \in Nat /\ Len(o) = N
    BY <1>2, <1>4
  <2> QED
    BY <1>2, <1>3, <2>1, AddTwo
<1>6. /\ Len(q) = R * 18 + 19 /\ q[R * 18 + 19] = Row(Place(a, n))
      /\ q[R * 18 + 18] = Ascii(b)
  <2>1. N + 1 = R * 18 + 18 /\ N + 2 = R * 18 + 19
    BY <1>4
  <2> QED
    BY <1>5, <2>1, Zenon
<1>7. ASSUME NEW k \in 1 .. R * 18 + 17 PROVE q[k] = o[k]
  BY <1>4, <1>5
<1>8. b = Characters16(a, n, R)
  <2>1. 15 \in Columns /\ n = R * 16 + 15 + 1 /\ \A c \in Columns : c <= 15
    BY <1>1
  <2>2. Filled(b, a, R, 15)
    BY <1>1, <2>1 DEF Written, Filled
  <2>3. b = Characters16(a, R * 16 + 15 + 1, R)
    BY <2>1, <2>2, RowFilled
  <2> QED
    BY <2>1, <2>3
<1>9. ASSUME NEW r \in 0 .. R + 1 PROVE q[r * 18 + 1] = Row(Place(a, r * 16))
  <2>1. CASE r = R + 1
    <3>1. r * 18 + 1 = R * 18 + 19 /\ r * 16 = n
      BY <2>1
    <3> QED
      BY <1>6, <3>1
  <2>2. CASE r # R + 1
    <3>1. r \in 0 .. R /\ r * 18 + 1 \in 1 .. R * 18 + 17
      BY <2>2
    <3> QED
      BY <1>2, <1>7, <3>1 DEF Holds
  <2> QED
    BY <2>1, <2>2
<1>10. ASSUME NEW r \in 0 .. (R + 1) - 1
       PROVE  /\ r * 16 + 15 < n
              /\ q[r * 18 + 18] = Ascii(Characters16(a, n, r))
  <2>1. CASE r = R
    BY <1>6, <1>8, <2>1
  <2>2. CASE r # R
    <3>1. r \in 0 .. R - 1 /\ r * 18 + 18 \in 1 .. R * 18 + 17
      BY <2>2
    <3> QED
      BY <1>2, <1>7, <3>1 DEF Holds
  <2> QED
    BY <2>1, <2>2
<1>11. ASSUME NEW r \in 0 .. R + 1, NEW c \in Columns, r * 16 + c < n
       PROVE  q[r * 18 + c + 2] = Byte(ByteAt(a, r * 16 + c))
  <2>1. r \in 0 .. R /\ r * 18 + c + 2 \in 1 .. R * 18 + 17
    BY <1>1, <1>11, CellOfRows
  <2> QED
    BY <1>2, <1>7, <1>11, <2>1 DEF Holds
<1>12. Holds(q, a, n, R + 1)
  BY <1>9, <1>10, <1>11 DEF Holds
<1> QED
  BY <1>5, <1>6, <1>12

-----------------------------------------------------------------------------
(* A byte of the dump *)

Dumping(o, b, a, n) ==
  \/ n = 0 /\ o = <<>>
  \/ \E R \in Nat, C \in Columns : Written(o, b, a, n, R, C)

\* Where the byte stands that comes next.
LEMMA SixteenPerRow ==
  ASSUME NEW R \in Nat, NEW C \in 0 .. 15
  PROVE  (R * 16 + C) % 16 = C
OBVIOUS

LEMMA FirstByte ==
  ASSUME NEW a \in Nat, NEW b \in [Columns -> 0 .. 255],
         NEW q, q = <<Row(Place(a, 0))>>
  PROVE  Open(q, b, a, 0, 0, 0)
<1>1. Columns = 0 .. 15
  BY DEF Columns, RowLen
<1>2. q \in Seq(Calls) /\ Len(q) = 1 /\ q[1] = Row(Place(a, 0))
  <2>1. PICK x : x = Row(Place(a, 0))
    OBVIOUS
  <2>2. x \in Calls
    BY <2>1, PlaceIsWord DEF Calls
  <2> QED
    BY <2>1, <2>2
<1>3. Holds(q, a, 0, 0)
  <2>1. 0 * 16 = 0 /\ 0 * 18 + 1 = 1 /\ 0 .. 0 = {0} /\ 0 .. 0 - 1 = {}
    OBVIOUS
  <2>2. \A c \in Columns : ~(0 * 16 + c < 0)
    BY <1>1
  <2> QED
    BY <1>2, <2>1, <2>2 DEF Holds
<1> QED
  BY <1>1, <1>2, <1>3 DEF Open

LEMMA SameRow ==
  ASSUME NEW a \in Nat, NEW b \in [Columns -> 0 .. 255], NEW R, NEW C, NEW n,
         NEW o, Written(o, b, a, n, R, C), C # 15
  PROVE  Open(o, b, a, n, R, C + 1) /\ n % 16 = C + 1 /\ n > 0
<1>1. Columns = 0 .. 15
  BY DEF Columns, RowLen
<1>2. /\ o \in Seq(Calls) /\ n = R * 16 + C + 1 /\ Len(o) = R * 18 + C + 2
      /\ Holds(o, a, n, R) /\ R \in Nat /\ C \in 0 .. 14
      /\ \A c \in 0 .. C : b[c] = Printable(ByteAt(a, R * 16 + c))
  BY <1>1 DEF Written
<1>3. PICK K : K = C + 1
  OBVIOUS
<1>4. K \in 0 .. 15 /\ K > 0
  BY <1>2, <1>3
<1>5. /\ n = R * 16 + K /\ Len(o) = R * 18 + K + 1
      /\ \A c \in 0 .. K - 1 : b[c] = Printable(ByteAt(a, R * 16 + c))
  BY <1>2, <1>3
<1>6. n % 16 = K /\ n > 0
  BY <1>2, <1>4, <1>5, SixteenPerRow
<1> QED
  BY <1>1, <1>2, <1>3, <1>4, <1>5, <1>6 DEF Open

LEMMA NewRow ==
  ASSUME NEW a \in Nat, NEW b \in [Columns -> 0 .. 255], NEW R, NEW n,
         NEW o, Written(o, b, a, n, R, 15),
         NEW p, Added(p, o, Ascii(b)), NEW q, Added(q, p, Row(Place(a, n)))
  PROVE  Open(q, b, a, n, R + 1, 0) /\ n % 16 = 0 /\ n > 0
<1>1. Columns = 0 .. 15
  BY DEF Columns, RowLen
<1>2. n = R * 16 + 16 /\ R \in Nat
  BY DEF Written
<1>3. PICK Q : Q = R + 1
  OBVIOUS
<1>4. Q \in Nat /\ n = Q * 16 + 0 /\ n > 0
  BY <1>2, <1>3
<1>5. n % 16 = 0
  BY <1>4, SixteenPerRow
<1>6. q \in Seq(Calls) /\ Len(q) = Q * 18 + 1 /\ Holds(q, a, n, Q)
  BY <1>2, <1>3, RowOpened
<1>7. 0 \in Columns /\ 0 .. 0 - 1 = {} /\ Len(q) = Q * 18 + 0 + 1
  BY <1>1, <1>4, <1>6
<1>8. Open(q, b, a, n, Q, 0)
  BY <1>4, <1>6, <1>7, Zenon DEF Open
<1> QED
  BY <1>3, <1>4, <1>5, <1>8

\* What the loop body prints before its byte.
Before(a, n, b) ==
  LET new == IF n % 16 = 0 THEN <<Row(Place(a, n))>> ELSE <<>>
      old == IF n % 16 = 0 /\ n > 0 THEN <<Ascii(b)>> ELSE <<>>
  IN  <<old, new>>

Prepared(q, o, b, a, n) == q = o \o Before(a, n, b)[1] \o Before(a, n, b)[2]

LEMMA RowIsOpen ==
  ASSUME NEW a \in Nat, NEW n, NEW b \in [Columns -> 0 .. 255],
         NEW o, Dumping(o, b, a, n), NEW q, Prepared(q, o, b, a, n)
  PROVE  \E R \in Nat, C \in Columns : Open(q, b, a, n, R, C) /\ n % 16 = C
<1>1. CASE n = 0 /\ o = <<>>
  <2>1. PICK x : x = <<Row(Place(a, 0))>>
    OBVIOUS
  <2>2. n % 16 = 0
    BY <1>1
  <2>3. q = o \o <<>> \o x
    BY <1>1, <2>1, <2>2 DEF Prepared, Before
  <2>4. x \in Seq({Row(Place(a, 0))})
    BY <2>1
  <2>5. <<>> \o <<>> = <<>> /\ <<>> \o x = x
    BY <2>4
  <2>6. q = x
    BY <1>1, <2>3, <2>5
  <2>7. Open(q, b, a, 0, 0, 0) /\ 0 \in Columns
    BY <2>1, <2>6, FirstByte DEF Columns, RowLen
  <2> QED
    BY <1>1, <2>2, <2>7
<1>2. ASSUME NEW R \in Nat, NEW C \in Columns, Written(o, b, a, n, R, C), C # 15
      PROVE  \E r \in Nat, c \in Columns : Open(q, b, a, n, r, c) /\ n % 16 = c
  <2>1. Open(o, b, a, n, R, C + 1) /\ n % 16 = C + 1 /\ n > 0 /\ C + 1 # 0
    BY <1>2, SameRow DEF Columns, RowLen
  <2>2. o \in Seq(Calls) /\ C + 1 \in Columns
    BY <2>1 DEF Open
  <2>3. n % 16 # 0
    BY <2>1
  <2>4. q = o \o <<>> \o <<>>
    BY <2>3, Zenon DEF Prepared, Before
  <2>5. q = o
    BY <2>2, <2>4
  <2> QED
    BY <2>1, <2>2, <2>5
<1>3. ASSUME NEW R \in Nat, Written(o, b, a, n, R, 15)
      PROVE  \E r \in Nat, c \in Columns : Open(q, b, a, n, r, c) /\ n % 16 = c
  <2>1. PICK o1, q1 : Added(o1, o, Ascii(b)) /\ Added(q1, o1, Row(Place(a, n)))
    BY DEF Added
  <2>2. Open(q1, b, a, n, R + 1, 0) /\ n % 16 = 0 /\ n > 0
    BY <1>3, <2>1, NewRow
  <2>3. q = o \o <<Ascii(b)>> \o <<Row(Place(a, n))>>
    BY <2>2, Zenon DEF Prepared, Before
  <2>4. q = q1
    BY <2>1, <2>3, Zenon DEF Added
  <2>5. R + 1 \in Nat /\ 0 \in Columns
    BY DEF Columns, RowLen
  <2> QED
    BY <2>2, <2>4, <2>5
<1> QED
  BY <1>1, <1>2, <1>3 DEF Dumping

LEMMA DumpStep ==
  ASSUME NEW a \in Nat, NEW n, NEW b \in [Columns -> 0 .. 255],
         NEW o, Dumping(o, b, a, n), NEW q, Prepared(q, o, b, a, n),
         NEW p, NEW d, Put(p, d, q, b, a, n, n % 16)
  PROVE  Dumping(p, d, a, n + 1) /\ d \in [Columns -> 0 .. 255]
<1>1. PICK R \in Nat, C \in Columns : Open(q, b, a, n, R, C) /\ n % 16 = C
  BY RowIsOpen
<1>2. Put(p, d, q, b, a, n, C)
  BY <1>1
<1> QED
  BY <1>1, <1>2, ByteAdded DEF Dumping

-----------------------------------------------------------------------------
(* The end of the dump *)

LEMMA MissingIs ==
  ASSUME NEW R \in Nat, NEW C \in 0 .. 15, NEW l, l = R * 16 + C + 1
  PROVE  (IF l % 16 = 0 THEN 0 ELSE 16 - (l % 16)) = 15 - C
<1>1. CASE C = 15
  <2>1. PICK Q : Q = R + 1
    OBVIOUS
  <2>2. Q \in Nat /\ l = Q * 16 + 0
    BY <1>1, <2>1
  <2> QED
    BY <1>1, <2>2, SixteenPerRow
<1>2. CASE C # 15
  <2>1. PICK K : K = C + 1
    OBVIOUS
  <2>2. K \in 0 .. 15 /\ K > 0 /\ l = R * 16 + K
    BY <1>2, <2>1
  <2>3. l % 16 = K
    BY <2>2, SixteenPerRow
  <2> QED
    BY <2>1, <2>2, <2>3
<1> QED
  BY <1>1, <1>2

LEMMA RowEnd ==
  ASSUME NEW R \in Nat, NEW C \in 0 .. 15, NEW M, M = 15 - C,
         NEW N, N = R * 18 + C + 2
  PROVE  N \in Nat /\ N + M \in Nat /\ N + M = R * 18 + 17
OBVIOUS

LEMMA CellBefore ==
  ASSUME NEW R \in Nat, NEW C \in 0 .. 15, NEW r \in 0 .. R, NEW c \in 0 .. 15,
         r * 16 + c < R * 16 + C + 1
  PROVE  r * 18 + c + 2 \in 1 .. R * 18 + C + 2
OBVIOUS

LEMMA CellBehind ==
  ASSUME NEW R \in Nat, NEW C \in 0 .. 15, NEW r \in 0 .. R, NEW c \in 0 .. 15,
         ~(r * 16 + c < R * 16 + C + 1)
  PROVE  r * 18 + c + 2 \in R * 18 + C + 3 .. R * 18 + 17
<1>1. r = R /\ c > C
  OBVIOUS
<1> QED
  BY <1>1

LEMMA DumpEnd ==
  ASSUME NEW a \in Nat, NEW R \in Nat, NEW C \in Columns, NEW n,
         NEW b, NEW o, Written(o, b, a, n, R, C),
         NEW M, M = 15 - C, NEW g \in [1 .. M -> {Text("gap")}],
         NEW d \in [Columns -> 0 .. 255], d = Characters16(a, n, R),
         NEW q, Joined(q, o, g), NEW p, Added(p, q, Ascii(d))
  PROVE  Table(p, a, n, R, C)
<1>1. Columns = 0 .. 15 /\ RowLen = 16 /\ M \in Nat
  BY DEF Columns, RowLen
<1>2. /\ o \in Seq(Calls) /\ n = R * 16 + C + 1 /\ Len(o) = R * 18 + C + 2
      /\ Holds(o, a, n, R)
  BY DEF Written
<1>3. Text("gap") \in Calls /\ Ascii(d) \in Calls
  BY Zenon DEF Calls
<1>4. g \in [1 .. M -> Calls] /\ \A k \in 1 .. M : g[k] = Text("gap")
  BY <1>3
<1>5. PICK N : N = R * 18 + C + 2
  OBVIOUS
<1>6. N \in Nat /\ Len(o) = N /\ N + M \in Nat /\ N + M = R * 18 + 17
  <2>1. C \in 0 .. 15
    BY <1>1
  <2> QED
    BY <1>2, <1>5, <2>1, RowEnd
<1>7. /\ Len(p) = N + M + 1 /\ p[N + M + 1] = Ascii(d)
      /\ \A k \in 1 .. N : p[k] = o[k]
      /\ \A k \in N + 1 .. N + M : p[k] = g[k - N]
  <2>1. M \in Nat /\ o \in Seq(Calls) /\ g \in [1 .. M -> Calls] /\ Ascii(d) \in Calls
    BY <1>1, <1>2, <1>3, <1>4
  <2>2. N \in Nat /\ Len(o) = N
    BY <1>6
  <2>3. Ended(p, o, g, Ascii(d), N, M)
    BY <2>1, <2>2 DEF Ended
  <2> QED
    BY <2>3, AddLast, SMT
<1>9. Len(p) = (R + 1) * 18 /\ p[R * 18 + 18] = Ascii(d)
  <2>1. N + M + 1 = (R + 1) * 18 /\ N + M + 1 = R * 18 + 18
    BY <1>6
  <2> QED
    BY <1>7, <2>1, Zenon
<1>10. ASSUME NEW k \in 1 .. R * 18 + C + 2 PROVE p[k] = o[k]
  <2>1. k \in 1 .. N
    BY <1>1, <1>5, <1>6
  <2> QED
    BY <1>7, <2>1, Zenon
<1>11. ASSUME NEW k \in R * 18 + C + 3 .. R * 18 + 17 PROVE p[k] = Text("gap")
  <2>1. k \in N + 1 .. N + M /\ k - N \in 1 .. M
    BY <1>1, <1>5, <1>6
  <2> QED
    BY <1>4, <1>7, <2>1, Zenon
<1>12. ASSUME NEW r \in 0 .. R
       PROVE  /\ p[r * 18 + 1] = Row(Place(a, r * 16))
              /\ p[r * 18 + 18] = Ascii(Characters16(a, n, r))
  <2>1. r * 18 + 1 \in 1 .. R * 18 + C + 2
    BY <1>1
  <2>2. p[r * 18 + 1] = Row(Place(a, r * 16))
    BY <1>2, <1>10, <2>1, Zenon DEF Holds
  <2>3. CASE r = R
    BY <1>9, <2>2, <2>3, Zenon
  <2>4. CASE r # R
    <3>1. r \in 0 .. R - 1 /\ r * 18 + 18 \in 1 .. R * 18 + C + 2
      BY <1>1, <2>4
    <3> QED
      BY <1>2, <1>10, <2>2, <3>1, Zenon DEF Holds
  <2> QED
    BY <2>3, <2>4
<1>13. ASSUME NEW r \in 0 .. R, NEW c \in Columns
       PROVE  p[r * 18 + c + 2]
                = IF r * 16 + c < n THEN Byte(ByteAt(a, r * 16 + c)) ELSE Text("gap")
  <2>1. r \in Nat /\ r <= R /\ c \in 0 .. 15 /\ C \in 0 .. 15
    BY <1>1
  <2>2. CASE r * 16 + c < n
    <3>1. r * 18 + c + 2 \in 1 .. R * 18 + C + 2
      BY <1>2, <2>1, <2>2, CellBefore
    <3> QED
      BY <1>2, <1>10, <2>2, <3>1, Zenon DEF Holds
  <2>3. CASE ~(r * 16 + c < n)
    <3>1. r * 18 + c + 2 \in R * 18 + C + 3 .. R * 18 + 17
      BY <1>2, <2>1, <2>3, CellBehind
    <3> QED
      BY <1>11, <2>3, <3>1, Zenon
  <2> QED
    BY <2>2, <2>3
<1> QED
  BY <1>2, <1>9, <1>12, <1>13, Zenon DEF Table

-----------------------------------------------------------------------------
(* What a finished dump shows *)

LEMMA CallsShow ==
  ASSUME NEW v \in 0 .. Word - 1
  PROVE  /\ Row(v).fmt = "row" /\ Value(Row(v).shown[1], 16) = v
         /\ Byte(v).fmt = "byte" /\ Value(Byte(v).shown[1], 16) = v
<1>1. PICK h : h = Hex(v)
  OBVIOUS
<1>2. Value(h, 16) = v
  BY <1>1, HexShows
<1>3. Row(v) = [fmt |-> "row", shown |-> <<h>>] /\ Byte(v) = [fmt |-> "byte", shown |-> <<h>>]
  BY <1>1 DEF Row, Byte
<1> QED
  BY <1>2, <1>3

LEMMA CharactersShow ==
  ASSUME NEW a \in Nat, NEW l \in Nat, NEW r \in Nat,
         NEW s, s = Ascii(Characters16(a, l, r))
  PROVE  /\ s.fmt = "ascii" /\ Len(s.shown[1]) = 16
         /\ \A c \in Columns : s.shown[1][c + 1] = Characters16(a, l, r)[c]
<1>1. Columns = 0 .. 15
  BY DEF Columns, RowLen
<1>2. PICK b : b = Characters16(a, l, r)
  OBVIOUS
<1>3. b \in [Columns -> 0 .. 255] /\ \A c \in Columns : b[c] # 0
  <2>1. \A c \in Columns : r * 16 + c \in Nat
    BY <1>1
  <2>2. \A c \in Columns : Printable(ByteAt(a, r * 16 + c)) \in 32 .. 126
    BY <2>1, PlaceIsWord
  <2>3. \A c \in Columns : b[c] \in 32 .. 126
    BY <1>2, <2>2 DEF Characters16
  <2>4. b = [c \in Columns |-> b[c]]
    BY <1>2 DEF Characters16
  <2> QED
    BY <2>3, <2>4
<1>4. PICK t : t = CString(b)
  OBVIOUS
<1>5. t = [j \in 1 .. 16 |-> b[j - 1]]
  BY <1>3, <1>4, CStringIs
<1>6. Len(t) = 16 /\ \A c \in Columns : t[c + 1] = b[c]
  BY <1>1, <1>5
<1>7. s = [fmt |-> "ascii", shown |-> <<t>>]
  BY <1>2, <1>4 DEF Ascii
<1> QED
  BY <1>2, <1>6, <1>7

LEMMA RowCount ==
  ASSUME NEW R \in Nat, NEW C \in 0 .. 15, NEW l, l = R * 16 + C + 1
  PROVE  (l + 16 - 1) \div 16 = R + 1
<1>1. PICK Q : Q = R + 1
  OBVIOUS
<1>2. Q \in Nat /\ l + 16 - 1 = Q * 16 + C
  BY <1>1
<1>3. (Q * 16 + C) \div 16 = Q
  BY <1>2
<1> QED
  BY <1>1, <1>2, <1>3

LEMMA TableShowsMemory ==
  ASSUME addr \in Nat, len \in Nat, NEW R, NEW C, Table(out, addr, len, R, C)
  PROVE  HexdumpShowsMemory
<1>1. /\ R \in Nat /\ C \in 0 .. 15 /\ len = R * 16 + C + 1 /\ Len(out) = (R + 1) * 18
      /\ Columns = 0 .. 15 /\ RowLen = 16
  BY DEF Table, Columns, RowLen
<1> DEFINE rows == (len + RowLen - 1) \div RowLen
           At(r, k) == out[r * (RowLen + 2) + k]
<1>2. rows = R + 1
  BY <1>1, RowCount
<1> HIDE DEF rows
<1>3. Len(out) = rows * (RowLen + 2)
  BY <1>1, <1>2
<1>4. ASSUME NEW r \in 0 .. rows - 1
      PROVE  /\ r \in 0 .. R /\ r \in Nat
             /\ At(r, 1) = Row(Place(addr, r * 16))
             /\ At(r, RowLen + 2) = Ascii(Characters16(addr, len, r))
             /\ \A c \in Columns :
                  At(r, c + 2) = IF r * 16 + c < len THEN Byte(ByteAt(addr, r * 16 + c))
                                 ELSE Text("gap")
  <2>1. r \in 0 .. R /\ r \in Nat
    BY <1>1, <1>2
  <2>2. /\ r * (RowLen + 2) + 1 = r * 18 + 1
        /\ r * (RowLen + 2) + (RowLen + 2) = r * 18 + 18
        /\ \A c \in Columns : r * (RowLen + 2) + (c + 2) = r * 18 + c + 2
    BY <1>1, <2>1
  <2> QED
    BY <2>1, <2>2 DEF Table
<1> HIDE DEF At
<1>5. ASSUME NEW r \in 0 .. rows - 1
      PROVE  /\ At(r, 1).fmt = "row"
             /\ Value(At(r, 1).shown[1], 16) = Place(addr, r * RowLen)
             /\ At(r, RowLen + 2).fmt = "ascii"
             /\ Len(At(r, RowLen + 2).shown[1]) = RowLen
             /\ \A c \in Columns :
                  At(r, RowLen + 2).shown[1][c + 1] = Characters16(addr, len, r)[c]
  <2>1. r \in Nat /\ r * 16 \in Nat
    BY <1>4
  <2>2. Place(addr, r * 16) \in 0 .. Word - 1
    BY <2>1, PlaceIsWord
  <2>3. At(r, 1).fmt = "row" /\ Value(At(r, 1).shown[1], 16) = Place(addr, r * RowLen)
    BY <1>1, <1>4, <2>2, CallsShow
  <2>4. PICK s : s = At(r, RowLen + 2)
    OBVIOUS
  <2>5. s = Ascii(Characters16(addr, len, r))
    BY <1>4, <2>4
  <2>6. /\ s.fmt = "ascii" /\ Len(s.shown[1]) = 16
        /\ \A c \in Columns : s.shown[1][c + 1] = Characters16(addr, len, r)[c]
    BY <2>1, <2>5, CharactersShow
  <2> QED
    BY <1>1, <2>3, <2>4, <2>6
<1>6. ASSUME NEW r \in 0 .. rows - 1, NEW c \in Columns
      PROVE  IF r * RowLen + c < len
             THEN /\ At(r, c + 2).fmt = "byte"
                  /\ Value(At(r, c + 2).shown[1], 16) = ByteAt(addr, r * RowLen + c)
                  /\ Characters16(addr, len, r)[c]
                       = Printable(ByteAt(addr, r * RowLen + c))
             ELSE At(r, c + 2).fmt = "gap" /\ Characters16(addr, len, r)[c] = 32
  <2>1. r * 16 + c \in Nat
    BY <1>1, <1>4
  <2>2. CASE r * 16 + c < len
    <3>1. At(r, c + 2) = Byte(ByteAt(addr, r * 16 + c))
      BY <1>4, <2>2
    <3>2. ByteAt(addr, r * 16 + c) \in 0 .. Word - 1
      BY <2>1, PlaceIsWord
    <3>3. /\ At(r, c + 2).fmt = "byte"
          /\ Value(At(r, c + 2).shown[1], 16) = ByteAt(addr, r * 16 + c)
      BY <3>1, <3>2, CallsShow
    <3>4. Characters16(addr, len, r)[c] = Printable(ByteAt(addr, r * 16 + c))
      BY <2>2 DEF Characters16
    <3> QED
      BY <1>1, <2>2, <3>3, <3>4
  <2>3. CASE ~(r * 16 + c < len)
    <3>1. At(r, c + 2) = Text("gap")
      BY <1>4, <2>3
    <3>2. At(r, c + 2).fmt = "gap"
      BY <3>1 DEF Text
    <3>3. Characters16(addr, len, r)[c] = 32
      BY <2>3 DEF Characters16
    <3> QED
      BY <1>1, <2>3, <3>2, <3>3
  <2> QED
    BY <2>2, <2>3
<1> DEFINE Address(n) == (addr + n) % Word
<1>7. ASSUME NEW r \in 0 .. rows - 1, NEW c \in Columns
      PROVE  LET n    == r * RowLen + c
                 cell == At(r, c + 2)
                 char == At(r, RowLen + 2).shown[1][c + 1]
             IN  IF n < len
                 THEN /\ cell.fmt = "byte"
                      /\ Value(cell.shown[1], 16) = Memory(Address(n))
                      /\ char = Printable(Memory(Address(n)))
                 ELSE cell.fmt = "gap" /\ char = 32
  <2>1. At(r, RowLen + 2).shown[1][c + 1] = Characters16(addr, len, r)[c]
    BY <1>5
  <2> QED
    BY <1>6, <2>1, Zenon DEF Place, ByteAt
<1>8. ASSUME NEW r \in 0 .. rows - 1
      PROVE  /\ At(r, 1).fmt = "row"
             /\ Value(At(r, 1).shown[1], 16) = Address(r * RowLen)
             /\ At(r, RowLen + 2).fmt = "ascii"
             /\ Len(At(r, RowLen + 2).shown[1]) = RowLen
  BY <1>5, Zenon DEF Place
<1> QED
  BY <1>3, <1>7, <1>8, Zenon DEF HexdumpShowsMemory, rows, At

-----------------------------------------------------------------------------
(* The inductive invariant of the commands *)

\* In the loop, what is printed is the table up to the byte that comes next.
DumpRuns ==
  pc = "dump" =>
    /\ call.cmd = "hexdump" /\ Len(call.args) >= 2
    /\ i \in 0 .. len /\ Dumping(out, ascii_buf, addr, i)

DumpDone ==
  Dumped /\ len > 0 => \E R \in Nat, C \in Columns : Table(out, addr, len, R, C)

IInv ==
  /\ pc \in {"idle", "dump"} /\ ascii_buf \in [Columns -> 0 .. 255]
  /\ call.cmd = "hexdump" => call.args \in Arguments
  /\ DumpRuns /\ DumpDone /\ UptimePrinted

\* The arguments of a dump are read as words.
LEMMA ArgumentsAreWords ==
  ASSUME NEW args \in Arguments, Len(args) >= 2
  PROVE  atoi(args[1]) \in 0 .. Word - 1 /\ atoi(args[2]) \in 0 .. Word - 1
<1>1. args \in Seq(Seq(1 .. 255))
  BY CoreShellAssumption
<1>2. args[1] \in Seq(1 .. 255) /\ args[2] \in Seq(1 .. 255)
  BY <1>1
<1>3. 1 .. 255 \subseteq Nat
  OBVIOUS
<1>4. args[1] \in Seq(Nat) /\ args[2] \in Seq(Nat)
  BY <1>2, <1>3, SeqMonotonic
<1> QED
  BY <1>4, AtoiIsWord

LEMMA InitInvariant == Init => IInv
<1> SUFFICES ASSUME Init PROVE IInv
  OBVIOUS
<1>1. pc = "idle" /\ call.cmd = "none" /\ ascii_buf \in [Columns -> 0 .. 255]
  BY CoreShellAssumption DEF Init, Columns, RowLen
<1> QED
  BY <1>1 DEF IInv, DumpRuns, DumpDone, Dumped, UptimePrinted

LEMMA LinesInvariant ==
  ASSUME IInv, NEW cmd \in DOMAIN Lines, PrintLines(cmd)
  PROVE  IInv'
<1>1. cmd \in {"klog", "lspci", "top"}
  BY DEF Lines
<1>2. pc' = "idle" /\ call'.cmd = cmd /\ ascii_buf' = ascii_buf
  BY DEF PrintLines
<1>3. call'.cmd # "hexdump" /\ call'.cmd # "uptime"
  BY <1>1, <1>2
<1> QED
  BY <1>2, <1>3 DEF IInv, DumpRuns, DumpDone, Dumped, UptimePrinted

LEMMA UptimeInvariant ==
  ASSUME IInv, NEW ticks \in TickCounts, cmd_uptime(ticks)
  PROVE  IInv'
<1>1. /\ pc' = "idle" /\ call'.cmd = "uptime" /\ ascii_buf' = ascii_buf
      /\ call'.ticks = ticks /\ out' = <<Uptime(UptimeParts(ticks))>>
  BY DEF cmd_uptime
<1>2. UptimePrinted'
  BY <1>1, CoreShellAssumption DEF UptimePrinted
<1> QED
  BY <1>1, <1>2 DEF IInv, DumpRuns, DumpDone, Dumped

LEMMA UsageInvariant ==
  ASSUME IInv, NEW args \in Arguments, HexdumpUsage(args)
  PROVE  IInv'
<1>1. /\ pc' = "idle" /\ call'.cmd = "hexdump" /\ ascii_buf' = ascii_buf
      /\ call'.args = args /\ Len(args) < 2
  BY DEF HexdumpUsage
<1>2. ~ Dumped'
  <2>1. Len(args) \in Nat
    BY CoreShellAssumption, LenProperties
  <2> QED
    BY <1>1, <2>1 DEF Dumped
<1> QED
  BY <1>1, <1>2 DEF IInv, DumpRuns, DumpDone, UptimePrinted

LEMMA StartInvariant ==
  ASSUME IInv, NEW args \in Arguments, HexdumpStart(args)
  PROVE  IInv'
<1>1. /\ pc' = "dump" /\ call'.cmd = "hexdump" /\ call'.args = args /\ Len(args) >= 2
      /\ i' = 0 /\ out' = <<>> /\ ascii_buf' \in Garbage
  BY DEF HexdumpStart
<1>2. ascii_buf' \in [Columns -> 0 .. 255]
  BY <1>1, CoreShellAssumption DEF Columns, RowLen
<1>3. i' \in 0 .. len'
  <2>1. len' \in 0 .. Word - 1
    BY <1>1, ArgumentsAreWords DEF len
  <2> QED
    BY <1>1, <2>1
<1>4. DumpRuns'
  BY <1>1, <1>3 DEF DumpRuns, Dumping
<1> QED
  BY <1>1, <1>2, <1>4 DEF IInv, DumpDone, Dumped, UptimePrinted

\* The words of a dump that runs.
LEMMA DumpingWords ==
  ASSUME IInv, pc = "dump"
  PROVE  /\ addr \in Nat /\ len \in Nat /\ i \in 0 .. len
         /\ call.cmd = "hexdump" /\ Len(call.args) >= 2 /\ call.args \in Arguments
         /\ ascii_buf \in [Columns -> 0 .. 255] /\ Dumping(out, ascii_buf, addr, i)
<1>1. /\ call.cmd = "hexdump" /\ Len(call.args) >= 2 /\ call.args \in Arguments
      /\ ascii_buf \in [Columns -> 0 .. 255] /\ i \in 0 .. len
      /\ Dumping(out, ascii_buf, addr, i)
  BY DEF IInv, DumpRuns
<1>2. addr \in 0 .. Word - 1 /\ len \in 0 .. Word - 1
  BY <1>1, ArgumentsAreWords DEF addr, len
<1>3. addr \in Nat /\ len \in Nat
  BY <1>2, WordFacts
<1> QED
  BY <1>1, <1>3

LEMMA ByteInvariant ==
  ASSUME IInv, DumpByte
  PROVE  IInv'
<1>1. pc = "dump" /\ pc' = "dump" /\ call' = call /\ i < len /\ i' = i + 1
  BY DEF DumpByte
<1>2. addr' = addr /\ len' = len
  BY <1>1 DEF addr, len
<1>3. /\ addr \in Nat /\ len \in Nat /\ i \in 0 .. len
      /\ call.cmd = "hexdump" /\ Len(call.args) >= 2 /\ call.args \in Arguments
      /\ ascii_buf \in [Columns -> 0 .. 255] /\ Dumping(out, ascii_buf, addr, i)
  BY <1>1, DumpingWords
<1>4. PICK q : Prepared(q, out, ascii_buf, addr, i)
  BY DEF Prepared
<1>5. Put(out', ascii_buf', q, ascii_buf, addr, i, i % 16)
  <2>1. q = out \o (IF i % 16 = 0 /\ i > 0 THEN <<Ascii(ascii_buf)>> ELSE <<>>)
                \o (IF i % 16 = 0 THEN <<Row(Place(addr, i))>> ELSE <<>>)
    BY <1>4 DEF Prepared, Before
  <2>2. /\ out' = q \o <<Byte(ByteAt(addr, i))>>
        /\ ascii_buf' = [ascii_buf EXCEPT ![i % 16] = Printable(ByteAt(addr, i))]
    BY <2>1 DEF DumpByte, Place, ByteAt, RowLen
  <2> QED
    BY <2>2 DEF Put, Added
<1>6. Dumping(out', ascii_buf', addr, i + 1) /\ ascii_buf' \in [Columns -> 0 .. 255]
  BY <1>3, <1>4, <1>5, DumpStep, Zenon
<1>7. i + 1 \in 0 .. len
  BY <1>1, <1>3
<1>8. DumpRuns'
  BY <1>1, <1>2, <1>3, <1>6, <1>7 DEF DumpRuns
<1> QED
  BY <1>1, <1>3, <1>6, <1>8 DEF IInv, DumpDone, Dumped, UptimePrinted

LEMMA EndInvariant ==
  ASSUME IInv, EndDump
  PROVE  IInv'
<1>1. /\ pc = "dump" /\ pc' = "idle" /\ call' = call /\ i >= len
      /\ ascii_buf' = [c \in Columns |-> IF c >= 16 - Missing THEN 32 ELSE ascii_buf[c]]
      /\ out' = out \o [k \in 1 .. Missing |-> Text("gap")] \o <<Ascii(ascii_buf')>>
  BY DEF EndDump, RowLen
<1>2. addr' = addr /\ len' = len
  BY <1>1 DEF addr, len
<1>3. /\ addr \in Nat /\ len \in Nat /\ i \in 0 .. len
      /\ call.cmd = "hexdump" /\ Len(call.args) >= 2 /\ call.args \in Arguments
      /\ ascii_buf \in [Columns -> 0 .. 255] /\ Dumping(out, ascii_buf, addr, i)
  BY <1>1, DumpingWords
<1>4. i = len
  BY <1>1, <1>3
<1>5. ascii_buf' \in [Columns -> 0 .. 255]
  BY <1>1, <1>3
<1>6. ASSUME len > 0
      PROVE  \E R \in Nat, C \in Columns : Table(out', addr, len, R, C)
  <2>1. PICK R \in Nat, C \in Columns : Written(out, ascii_buf, addr, len, R, C)
    BY <1>3, <1>4, <1>6 DEF Dumping
  <2>2. Columns = 0 .. 15
    BY DEF Columns, RowLen
  <2>3. /\ C \in 0 .. 15 /\ len = R * 16 + C + 1
        /\ \A c \in 0 .. C : ascii_buf[c] = Printable(ByteAt(addr, R * 16 + c))
    BY <2>1, <2>2 DEF Written
  <2>4. Missing = 15 - C
    BY <2>3, MissingIs DEF Missing, RowLen
  <2>5. Filled(ascii_buf', addr, R, C)
    <3>1. ASSUME NEW c \in Columns
          PROVE  ascii_buf'[c]
                   = IF c <= C THEN Printable(ByteAt(addr, R * 16 + c)) ELSE 32
      <4>1. c >= 16 - Missing <=> ~(c <= C)
        BY <2>2, <2>3, <2>4
      <4>2. ascii_buf'[c] = IF c >= 16 - Missing THEN 32 ELSE ascii_buf[c]
        BY <1>1
      <4>3. c <= C => c \in 0 .. C
        BY <2>2, <2>3
      <4> QED
        BY <2>3, <4>1, <4>2, <4>3
    <3> QED
      BY <1>5, <3>1 DEF Filled
  <2>6. ascii_buf' = Characters16(addr, len, R)
    BY <1>3, <2>3, <2>5, RowFilled
  <2>7. PICK M : M = Missing
    OBVIOUS
  <2>8. PICK g : g = [k \in 1 .. M |-> Text("gap")]
    OBVIOUS
  <2>9. PICK q : Joined(q, out, g)
    BY DEF Joined
  <2>10. Added(out', q, Ascii(ascii_buf'))
    BY <1>1, <2>7, <2>8, <2>9 DEF Joined, Added
  <2>11. g \in [1 .. M -> {Text("gap")}]
    BY <2>8
  <2>12. Table(out', addr, len, R, C)
    BY <1>3, <1>5, <2>1, <2>4, <2>6, <2>7, <2>9, <2>10, <2>11, DumpEnd
  <2> QED
    BY <2>12
<1>7. DumpDone'
  BY <1>2, <1>6 DEF DumpDone
<1> QED
  BY <1>1, <1>3, <1>5, <1>7 DEF IInv, DumpRuns, UptimePrinted

LEMMA StepInvariant == IInv /\ [Next]_vars => IInv'
<1> SUFFICES ASSUME IInv, [Next]_vars PROVE IInv'
  OBVIOUS
<1>1. CASE \E cmd \in DOMAIN Lines : PrintLines(cmd)
  BY <1>1, LinesInvariant
<1>2. CASE \E ticks \in TickCounts : cmd_uptime(ticks)
  BY <1>2, UptimeInvariant
<1>3. CASE \E args \in Arguments : HexdumpUsage(args) \/ HexdumpStart(args)
  BY <1>3, UsageInvariant, StartInvariant
<1>4. CASE DumpByte
  BY <1>4, ByteInvariant
<1>5. CASE EndDump
  BY <1>5, EndInvariant
<1>6. CASE UNCHANGED vars
  BY <1>6 DEF vars, IInv, DumpRuns, DumpDone, Dumped, UptimePrinted, addr, len
<1> QED
  BY <1>1, <1>2, <1>3, <1>4, <1>5, <1>6, Zenon DEF Next

THEOREM CommandsInvariant == Spec => []IInv
  BY InitInvariant, StepInvariant, PTL DEF Spec

\* uptime shows the time the ticks took, with hours, minutes and seconds in
\* their ranges, and the tick count, for every count a word can hold
\* (coresystem.c:921-934).
THEOREM UptimeIsShown == Spec => []UptimeAddsUp
<1>1. IInv => UptimeAddsUp
  BY PrintedAddsUp DEF IInv
<1> QED
  BY <1>1, CommandsInvariant, PTL

\* hexdump shows every byte it is asked for in its place, for all arguments
\* and any memory: rows that are full or cut short, an address that wraps
\* around, and whatever the stack held in ascii_buf (coresystem.c:969-1021).
THEOREM DumpIsMemory == Spec => []HexdumpShowsMemory
<1>1. IInv => HexdumpShowsMemory
  <2>1. CASE Dumped /\ len > 0
    <3>1. ASSUME IInv PROVE HexdumpShowsMemory
      <4>1. PICK R \in Nat, C \in Columns : Table(out, addr, len, R, C)
        BY <2>1, <3>1 DEF IInv, DumpDone
      <4>2. call.args \in Arguments /\ Len(call.args) >= 2
        BY <2>1, <3>1 DEF IInv, Dumped
      <4>3. addr \in 0 .. Word - 1 /\ len \in 0 .. Word - 1
        BY <4>2, ArgumentsAreWords DEF addr, len
      <4>4. addr \in Nat /\ len \in Nat
        BY <4>3, WordFacts
      <4> QED
        BY <4>1, <4>4, TableShowsMemory
    <3> QED
      BY <3>1
  <2>2. CASE ~(Dumped /\ len > 0)
    BY <2>2 DEF HexdumpShowsMemory
  <2> QED
    BY <2>1, <2>2
<1> QED
  BY <1>1, CommandsInvariant, PTL

=============================================================================
