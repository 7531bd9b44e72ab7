------------------------------ MODULE TextProofs ------------------------------
(***************************************************************************)
(* What is written as text, for every width of the numbers: what the       *)
(* logging framework puts, for every set of characters, all messages and   *)
(* every use of the framework; then what the character device streams      *)
(* write and read, for every script and however the line is interleaved.   *)
(*                                                                         *)
(* Of Logging, the invariant of its last part says, at every place main    *)
(* may be at, what is still missing of what the messages begun show        *)
(* (Core).  It is proved for a step of main at once for all that is shown  *)
(* (Step), so that it serves under a lock, where it counts every message,  *)
(* and without one, where it counts main's alone.  What a message shows is *)
(* a recursive function of its items, its digits one of the number; the    *)
(* parts before are about those functions.                                 *)
(*                                                                         *)
(* Of Streams, what was sent is the texts of the items, one laid behind    *)
(* the other (WriterInv); what a call has taken is spaces, a sign and      *)
(* digits, or a word, that it remembers (ReaderInv); and where a program   *)
(* waits for the line, every call begins behind what the one before it     *)
(* left of its separator (BackInv).  The parts before are about the texts  *)
(* of numbers and their values, and about the grammar of a call.           *)
(***************************************************************************)
EXTENDS Logging, Streams, SequenceTheorems, FiniteSetTheorems, WellFoundedInduction, TLAPS

(***************************************************************************)
(* A set of numbers that holds 0 and the successor of each of its members  *)
(* holds all of them.  The rule of the library takes a predicate for a     *)
(* parameter; that < is well-founded is stated with sets alone.            *)
(***************************************************************************)
LEMMA Induction ==
  ASSUME NEW T, 0 \in T, \A n \in Nat : n \in T => n + 1 \in T
  PROVE  Nat \subseteq T
<1>1. ASSUME NEW n \in Nat \ T PROVE FALSE
  <2>1. PICK m \in Nat \ T : \A k \in Nat \ T : ~ (<<k, m>> \in OpToRel(<, Nat))
    BY <1>1, NatLessThanWellFounded, WFMin
  <2>2. \A k \in Nat \ T : ~ (k < m)
    BY <2>1 DEF OpToRel
  <2>3. m # 0 /\ m - 1 \in Nat /\ m - 1 \notin Nat \ T
    BY <2>2
  <2> QED BY <2>3
<1> QED BY <1>1


(* f is the recursive function in the definition of PrintItems(s, xs).    *)
PrintSteps(f, s, xs, n) ==
  f = [k \in 0 .. n |-> IF k = 0 THEN s ELSE PrintItem(f[k - 1], xs[k])]

PrintRuns(f, s, xs, n) ==
  /\ f[0] = s
  /\ \A k \in 1 .. n : f[k] = PrintItem(f[k - 1], xs[k])

LEMMA PrintStep ==
  ASSUME NEW s, NEW xs, NEW n \in Nat, NEW f, PrintSteps(f, s, xs, n)
  PROVE  PrintRuns(f, s, xs, n)
<1> DEFINE h == [k \in 0 .. n |-> IF k = 0 THEN s ELSE PrintItem(f[k - 1], xs[k])]
<1>1. f = h
  BY DEF PrintSteps
<1>2. \A k \in 0 .. n : h[k] = IF k = 0 THEN s ELSE PrintItem(f[k - 1], xs[k])
  BY Zenon
<1> HIDE DEF h
<1>3. \A k \in 0 .. n : f[k] = IF k = 0 THEN s ELSE PrintItem(f[k - 1], xs[k])
  BY <1>1, <1>2, Zenon
<1>4. 0 \in 0 .. n /\ \A k \in 1 .. n : k # 0 /\ k \in 0 .. n
  OBVIOUS
<1> QED BY <1>3, <1>4, Zenon DEF PrintRuns

LEMMA PrintExists == ASSUME NEW s, NEW xs PROVE \A n \in Nat : \E f : PrintSteps(f, s, xs, n)
<1> DEFINE T == {n \in Nat : \E f : PrintSteps(f, s, xs, n)}
<1>1. 0 \in T
  <2> DEFINE f == [k \in 0 .. 0 |-> s]
  <2>1. \A k \in 0 .. 0 : k = 0
    OBVIOUS
  <2>2. f = [k \in 0 .. 0 |-> IF k = 0 THEN s ELSE PrintItem(f[k - 1], xs[k])]
    BY <2>1, Zenon
  <2>3. PrintSteps(f, s, xs, 0)
    BY <2>2, Zenon DEF PrintSteps
  <2> QED BY <2>3
<1>2. ASSUME NEW n \in Nat, n \in T PROVE n + 1 \in T
  <2>1. PICK f : PrintSteps(f, s, xs, n)
    BY <1>2
  <2> DEFINE h(k) == IF k = 0 THEN s ELSE PrintItem(f[k - 1], xs[k])
             g == [k \in 0 .. n + 1 |-> h(k)]
  <2>2. \A k \in 0 .. n : f[k] = h(k)
    <3>1. \A k \in 0 .. n : k = 0 \/ (k # 0 /\ k \in 1 .. n)
      OBVIOUS
    <3>2. f[0] = h(0) /\ \A k \in 1 .. n : f[k] = h(k)
      BY <2>1, PrintStep DEF PrintRuns
    <3> QED BY <3>1, <3>2, Zenon
  <2>3. \A k \in 0 .. n + 1 : k # 0 => k - 1 \in 0 .. n
    OBVIOUS
  <2>4. \A k \in 0 .. n + 1 : g[k] = h(k)
    BY Zenon
  <2>5. \A k \in 0 .. n : k \in 0 .. n + 1
    OBVIOUS
  <2>6. \A k \in 0 .. n : g[k] = f[k]
    BY <2>2, <2>4, <2>5, Zenon
  <2> HIDE DEF g
  <2>7. \A k \in 0 .. n + 1 : h(k) = IF k = 0 THEN s ELSE PrintItem(g[k - 1], xs[k])
    BY <2>3, <2>6, Zenon
  <2> HIDE DEF h
  <2>8. g = [k \in 0 .. n + 1 |-> IF k = 0 THEN s ELSE PrintItem(g[k - 1], xs[k])]
    BY <2>7, Zenon DEF g
  <2>9. PrintSteps(g, s, xs, n + 1)
    BY <2>8, Zenon DEF PrintSteps
  <2>10. n + 1 \in Nat
    OBVIOUS
  <2> QED BY <2>9, <2>10
<1> HIDE DEF T
<1>3. Nat \subseteq T
  BY <1>1, <1>2, Induction
<1> QED BY <1>3 DEF T

PrintFn(s, xs, n) ==
  CHOOSE f : f = [k \in 0 .. n |-> IF k = 0 THEN s ELSE PrintItem(f[k - 1], xs[k])]

LEMMA PrintIs ==
  ASSUME NEW s, NEW xs, NEW n \in Nat, NEW f, f = PrintFn(s, xs, n)
  PROVE  /\ f[0] = s
         /\ \A k \in 1 .. n : f[k] = PrintItem(f[k - 1], xs[k])
<1>1. \E g : PrintSteps(g, s, xs, n)
  BY PrintExists
<1>2. PrintSteps(f, s, xs, n)
  BY <1>1, Zenon DEF PrintSteps, PrintFn
<1>3. PrintRuns(f, s, xs, n)
  BY <1>2, PrintStep
<1> QED BY <1>3 DEF PrintRuns

LEMMA PrintItemsIs == \A s, xs : PrintItems(s, xs) = PrintFn(s, xs, Len(xs))[Len(xs)]
BY Zenon DEF PrintItems, PrintFn


(* f is the recursive function in the definition of PrintedAll(switch, ms, N).*)
PrintedSteps(f, switch, ms, N, n) ==
  f = [k \in 0 .. n |-> IF k = 0 THEN New ELSE PrintNth(switch, f[k - 1], ms, k, N)]

LEMMA PrintedStep ==
  ASSUME NEW switch, NEW ms, NEW N, NEW n \in Nat, NEW f, PrintedSteps(f, switch, ms, N, n)
  PROVE  /\ f[0] = New
         /\ \A k \in 1 .. n : f[k] = PrintNth(switch, f[k - 1], ms, k, N)
<1> DEFINE h == [k \in 0 .. n |-> IF k = 0 THEN New ELSE PrintNth(switch, f[k - 1], ms, k, N)]
<1>1. f = h
  BY DEF PrintedSteps
<1>2. \A k \in 0 .. n : h[k] = IF k = 0 THEN New ELSE PrintNth(switch, f[k - 1], ms, k, N)
  BY Zenon
<1> HIDE DEF h
<1>3. \A k \in 0 .. n : f[k] = IF k = 0 THEN New ELSE PrintNth(switch, f[k - 1], ms, k, N)
  BY <1>1, <1>2, Zenon
<1>4. 0 \in 0 .. n /\ \A k \in 1 .. n : k # 0 /\ k \in 0 .. n
  OBVIOUS
<1> QED BY <1>3, <1>4, Zenon

LEMMA PrintedExists ==
  ASSUME NEW switch, NEW ms, NEW N
  PROVE  \A n \in Nat : \E f : PrintedSteps(f, switch, ms, N, n)
<1> DEFINE T == {n \in Nat : \E f : PrintedSteps(f, switch, ms, N, n)}
<1>1. 0 \in T
  <2> DEFINE f == [k \in 0 .. 0 |-> New]
  <2>1. \A k \in 0 .. 0 : k = 0
    OBVIOUS
  <2>2. f = [k \in 0 .. 0 |-> IF k = 0 THEN New ELSE PrintNth(switch, f[k - 1], ms, k, N)]
    BY <2>1, Zenon
  <2>3. PrintedSteps(f, switch, ms, N, 0)
    BY <2>2, Zenon DEF PrintedSteps
  <2> QED BY <2>3
<1>2. ASSUME NEW n \in Nat, n \in T PROVE n + 1 \in T
  <2>1. PICK f : PrintedSteps(f, switch, ms, N, n)
    BY <1>2
  <2> DEFINE h(k) == IF k = 0 THEN New ELSE PrintNth(switch, f[k - 1], ms, k, N)
             g == [k \in 0 .. n + 1 |-> h(k)]
  <2>2. \A k \in 0 .. n : f[k] = h(k)
    <3>1. \A k \in 0 .. n : k = 0 \/ (k # 0 /\ k \in 1 .. n)
      OBVIOUS
    <3>2. f[0] = h(0) /\ \A k \in 1 .. n : f[k] = h(k)
      BY <2>1, PrintedStep
    <3> QED BY <3>1, <3>2, Zenon
  <2>3. \A k \in 0 .. n + 1 : k # 0 => k - 1 \in 0 .. n
    OBVIOUS
  <2>4. \A k \in 0 .. n + 1 : g[k] = h(k)
    BY Zenon
  <2>5. \A k \in 0 .. n : k \in 0 .. n + 1
    OBVIOUS
  <2>6. \A k \in 0 .. n : g[k] = f[k]
    BY <2>2, <2>4, <2>5, Zenon
  <2> HIDE DEF g
  <2>7. \A k \in 0 .. n + 1 : h(k) = IF k = 0 THEN New ELSE PrintNth(switch, g[k - 1], ms, k, N)
    BY <2>3, <2>6, Zenon
  <2> HIDE DEF h
  <2>8. g = [k \in 0 .. n + 1 |-> IF k = 0 THEN New ELSE PrintNth(switch, g[k - 1], ms, k, N)]
    BY <2>7, Zenon DEF g
  <2>9. PrintedSteps(g, switch, ms, N, n + 1)
    BY <2>8, Zenon DEF PrintedSteps
  <2>10. n + 1 \in Nat
    OBVIOUS
  <2> QED BY <2>9, <2>10
<1> HIDE DEF T
<1>3. Nat \subseteq T
  BY <1>1, <1>2, Induction
<1> QED BY <1>3 DEF T

PrintedFn(switch, ms, N, n) ==
  CHOOSE f : f = [k \in 0 .. n |-> IF k = 0 THEN New ELSE PrintNth(switch, f[k - 1], ms, k, N)]

LEMMA PrintedIs ==
  ASSUME NEW switch, NEW ms, NEW N, NEW n \in Nat, NEW f, f = PrintedFn(switch, ms, N, n)
  PROVE  /\ f[0] = New
         /\ \A k \in 1 .. n : f[k] = PrintNth(switch, f[k - 1], ms, k, N)
<1>1. \E g : PrintedSteps(g, switch, ms, N, n)
  BY PrintedExists
<1>2. PrintedSteps(f, switch, ms, N, n)
  BY <1>1, Zenon DEF PrintedSteps, PrintedFn
<1> QED BY <1>2, PrintedStep

LEMMA PrintedAllIs ==
  \A switch, ms, N : PrintedAll(switch, ms, N) = PrintedFn(switch, ms, N, Len(ms))[Len(ms)]
BY Zenon DEF PrintedAll, PrintedFn


(* f is the recursive function in the definition of Chars(s, N).          *)
PutSteps(f, s, N, n) ==
  f = [k \in 0 .. n |-> IF k = 0 THEN << >> ELSE CharsNext(f[k - 1], s[k], N)]

LEMMA PutStep ==
  ASSUME NEW s, NEW N, NEW n \in Nat, NEW f, PutSteps(f, s, N, n)
  PROVE  /\ f[0] = << >>
         /\ \A k \in 1 .. n : f[k] = CharsNext(f[k - 1], s[k], N)
<1> DEFINE h == [k \in 0 .. n |-> IF k = 0 THEN << >> ELSE CharsNext(f[k - 1], s[k], N)]
<1>1. f = h
  BY DEF PutSteps
<1>2. \A k \in 0 .. n : h[k] = IF k = 0 THEN << >> ELSE CharsNext(f[k - 1], s[k], N)
  BY Zenon
<1> HIDE DEF h
<1>3. \A k \in 0 .. n : f[k] = IF k = 0 THEN << >> ELSE CharsNext(f[k - 1], s[k], N)
  BY <1>1, <1>2, Zenon
<1>4. 0 \in 0 .. n /\ \A k \in 1 .. n : k # 0 /\ k \in 0 .. n
  OBVIOUS
<1> QED BY <1>3, <1>4, Zenon

LEMMA PutExists == ASSUME NEW s, NEW N PROVE \A n \in Nat : \E f : PutSteps(f, s, N, n)
<1> DEFINE T == {n \in Nat : \E f : PutSteps(f, s, N, n)}
<1>1. 0 \in T
  <2> DEFINE f == [k \in 0 .. 0 |-> << >>]
  <2>1. \A k \in 0 .. 0 : k = 0
    OBVIOUS
  <2>2. f = [k \in 0 .. 0 |-> IF k = 0 THEN << >> ELSE CharsNext(f[k - 1], s[k], N)]
    BY <2>1, Zenon
  <2>3. PutSteps(f, s, N, 0)
    BY <2>2, Zenon DEF PutSteps
  <2> QED BY <2>3
<1>2. ASSUME NEW n \in Nat, n \in T PROVE n + 1 \in T
  <2>1. PICK f : PutSteps(f, s, N, n)
    BY <1>2
  <2> DEFINE h(k) == IF k = 0 THEN << >> ELSE CharsNext(f[k - 1], s[k], N)
             g == [k \in 0 .. n + 1 |-> h(k)]
  <2>2. \A k \in 0 .. n : f[k] = h(k)
    <3>1. \A k \in 0 .. n : k = 0 \/ (k # 0 /\ k \in 1 .. n)
      OBVIOUS
    <3>2. f[0] = h(0) /\ \A k \in 1 .. n : f[k] = h(k)
      <4>1. f[0] = h(0)
        BY <2>1, PutStep, Zenon
      <4>2. \A k \in 1 .. n : f[k] = CharsNext(f[k - 1], s[k], N) /\ k # 0
        BY <2>1, PutStep
      <4> QED BY <4>1, <4>2, Zenon
    <3> QED BY <3>1, <3>2, Zenon
  <2>3. \A k \in 0 .. n + 1 : k # 0 => k - 1 \in 0 .. n
    OBVIOUS
  <2>4. \A k \in 0 .. n + 1 : g[k] = h(k)
    BY Zenon
  <2>5. \A k \in 0 .. n : k \in 0 .. n + 1
    OBVIOUS
  <2>6. \A k \in 0 .. n : g[k] = f[k]
    BY <2>2, <2>4, <2>5, Zenon
  <2> HIDE DEF g
  <2>7. \A k \in 0 .. n + 1 : h(k) = IF k = 0 THEN << >> ELSE CharsNext(g[k - 1], s[k], N)
    BY <2>3, <2>6, Zenon
  <2> HIDE DEF h
  <2>8. g = [k \in 0 .. n + 1 |-> IF k = 0 THEN << >> ELSE CharsNext(g[k - 1], s[k], N)]
    BY <2>7, Zenon DEF g
  <2>9. PutSteps(g, s, N, n + 1)
    BY <2>8, Zenon DEF PutSteps
  <2>10. n + 1 \in Nat
    OBVIOUS
  <2> QED BY <2>9, <2>10
<1> HIDE DEF T
<1>3. Nat \subseteq T
  BY <1>1, <1>2, Induction
<1> QED BY <1>3 DEF T

PutFn(s, N, n) ==
  CHOOSE f : f = [k \in 0 .. n |-> IF k = 0 THEN << >> ELSE CharsNext(f[k - 1], s[k], N)]

LEMMA PutIs ==
  ASSUME NEW s, NEW N, NEW n \in Nat, NEW f, f = PutFn(s, N, n)
  PROVE  /\ f[0] = << >>
         /\ \A k \in 1 .. n : f[k] = CharsNext(f[k - 1], s[k], N)
<1>1. \E g : PutSteps(g, s, N, n)
  BY PutExists
<1>2. PutSteps(f, s, N, n)
  BY <1>1, Zenon DEF PutSteps, PutFn
<1> QED BY <1>2, PutStep

LEMMA CharsIs == \A s, N : Chars(s, N) = PutFn(s, N, Len(s))[Len(s)]
BY Zenon DEF Chars, PutFn


-----------------------------------------------------------------------------
(***************************************************************************)
(* Numerals.                                                               *)
(***************************************************************************)
LEMMA DigitType == \A d \in Nat : Digit(d) \in Char
<1> SUFFICES ASSUME NEW d \in Nat PROVE Digit(d) \in Char
  OBVIOUS
<1>1. CASE d >= 16
  BY <1>1, CharAssumption DEF Digit
<1>2. CASE d < 16
  <2>1. d \in {0, 1, 2, 3, 4, 5, 6, 7, 8, 9, 10, 11, 12, 13, 14, 15}
    BY <1>2
  <2> QED BY <2>1, CharAssumption DEF Digit
<1> QED BY <1>1, <1>2

LEMMA Divides ==
  ASSUME NEW n \in Nat, NEW b \in Bases
  PROVE  /\ n \div b \in Nat /\ n % b \in 0 .. b - 1 /\ n % b \in Nat
         /\ n = b * (n \div b) + (n % b)
         /\ n >= b => n \div b < n /\ n \div b >= 1
BY DEF Bases

DigitsTo(d, b, n) ==
  /\ d \in [0 .. n -> Seq(Char)]
  /\ \A k \in 0 .. n :
       d[k] = IF k < b THEN <<Digit(k)>> ELSE Append(d[k \div b], Digit(k % b))

LEMMA DigitsExist == ASSUME NEW b \in Bases PROVE \A n \in Nat : \E d : DigitsTo(d, b, n)
<1> DEFINE T == {n \in Nat : \E d : DigitsTo(d, b, n)}
<1>1. 0 \in T
  <2> DEFINE d == [k \in 0 .. 0 |-> <<Digit(0)>>]
  <2>1. <<Digit(0)>> \in Seq(Char) /\ 0 < b
    BY DigitType DEF Bases
  <2>2. DigitsTo(d, b, 0)
    BY <2>1 DEF DigitsTo
  <2> QED BY <2>2
<1>2. ASSUME NEW n \in Nat, n \in T PROVE n + 1 \in T
  <2>1. PICK d : DigitsTo(d, b, n)
    BY <1>2
  <2> DEFINE x == IF n + 1 < b THEN <<Digit(n + 1)>>
                               ELSE Append(d[(n + 1) \div b], Digit((n + 1) % b))
             e == [k \in 0 .. n + 1 |-> IF k = n + 1 THEN x ELSE d[k]]
  <2>2. \A k \in 0 .. n + 1 : ~ k < b => k \div b \in 0 .. n
    <3> TAKE k \in 0 .. n + 1
    <3> HAVE ~ k < b
    <3>1. k \in Nat /\ k >= b
      BY DEF Bases
    <3>2. k \div b \in Nat /\ k \div b < k
      BY <3>1, Divides
    <3> QED BY <3>1, <3>2
  <2>3. x \in Seq(Char)
    <3>1. CASE n + 1 < b
      <4>1. Digit(n + 1) \in Char
        BY DigitType
      <4>2. <<Digit(n + 1)>> \in Seq(Char)
        BY <4>1
      <4> QED BY <3>1, <4>2
    <3>2. CASE ~ n + 1 < b
      <4>1. d[(n + 1) \div b] \in Seq(Char)
        BY <2>1, <2>2, <3>2 DEF DigitsTo
      <4>2. Digit((n + 1) % b) \in Char
        BY DigitType, Divides
      <4>3. x = Append(d[(n + 1) \div b], Digit((n + 1) % b))
        BY <3>2
      <4> QED BY <4>1, <4>2, <4>3, AppendProperties
    <3> QED BY <3>1, <3>2
  <2> HIDE DEF x
  <2>4. e \in [0 .. n + 1 -> Seq(Char)] /\ e[n + 1] = x /\ \A k \in 0 .. n : e[k] = d[k]
    BY <2>1, <2>3 DEF DigitsTo
  <2> HIDE DEF e
  <2>5. ASSUME NEW k \in 0 .. n + 1
        PROVE  e[k] = IF k < b THEN <<Digit(k)>> ELSE Append(e[k \div b], Digit(k % b))
    <3>1. ~ k < b => e[k \div b] = d[k \div b]
      BY <2>2, <2>4
    <3>2. CASE k = n + 1
      BY <2>4, <3>1, <3>2 DEF x
    <3>3. CASE k # n + 1
      <4>1. k \in 0 .. n
        BY <3>3
      <4>2. e[k] = d[k]
        BY <2>4, <4>1
      <4>3. d[k] = IF k < b THEN <<Digit(k)>> ELSE Append(d[k \div b], Digit(k % b))
        BY <2>1, <4>1 DEF DigitsTo
      <4> QED BY <3>1, <4>2, <4>3
    <3> QED BY <3>2, <3>3
  <2>6. DigitsTo(e, b, n + 1)
    BY <2>4, <2>5 DEF DigitsTo
  <2> QED BY <2>6
<1> HIDE DEF T
<1>3. Nat \subseteq T
  BY <1>1, <1>2, Induction
<1> QED BY <1>3 DEF T

LEMMA DigitsAre ==
  ASSUME NEW b \in Bases, NEW v \in 0 .. Modulus - 1
  PROVE  /\ Digits(v, b) \in Seq(Char)
         /\ Digits(v, b) = IF v < b THEN <<Digit(v)>>
                                    ELSE Append(Digits(v \div b, b), Digit(v % b))
<1> DEFINE d == CHOOSE f : f = [n \in 0 .. Modulus - 1 |->
                   IF n < b THEN <<Digit(n)>> ELSE Append(f[n \div b], Digit(n % b))]
<1>1. Modulus - 1 \in Nat
  BY ModulusAssumption
<1>2. PICK e : DigitsTo(e, b, Modulus - 1)
  BY <1>1, DigitsExist
<1>3. e = [n \in 0 .. Modulus - 1 |->
            IF n < b THEN <<Digit(n)>> ELSE Append(e[n \div b], Digit(n % b))]
  BY <1>2, Zenon DEF DigitsTo
<1>4. d = [n \in 0 .. Modulus - 1 |->
            IF n < b THEN <<Digit(n)>> ELSE Append(d[n \div b], Digit(n % b))]
  BY <1>3, Zenon
<1>5. \A n : Digits(n, b) = d[n]
  BY Zenon DEF Digits
<1> HIDE DEF d
<1>6. \A n \in 0 .. Modulus - 1 :
        d[n] = IF n < b THEN <<Digit(n)>> ELSE Append(d[n \div b], Digit(n % b))
  BY <1>4, Zenon
<1> DEFINE T == {n \in Nat : \A k \in 0 .. n : k <= Modulus - 1 => d[k] \in Seq(Char)}
<1>7. ASSUME NEW k \in 0 .. Modulus - 1, \A j \in 0 .. k - 1 : d[j] \in Seq(Char)
      PROVE  d[k] \in Seq(Char)
  <2>1. k \in Nat
    BY <1>1
  <2>2. CASE k < b
    <3>1. <<Digit(k)>> \in Seq(Char)
      BY <2>1, DigitType
    <3> QED BY <1>6, <2>2, <3>1
  <2>3. CASE ~ k < b
    <3>1. k \div b \in 0 .. k - 1 /\ k % b \in Nat
      BY <2>1, <2>3, Divides DEF Bases
    <3>2. d[k \div b] \in Seq(Char) /\ Digit(k % b) \in Char
      BY <1>7, <3>1, DigitType
    <3>3. d[k] = Append(d[k \div b], Digit(k % b))
      BY <1>6, <2>3
    <3> QED BY <3>2, <3>3, AppendProperties
  <2> QED BY <2>2, <2>3
<1>8. 0 \in T
  <2>1. \A k \in 0 .. 0 : k \in 0 .. Modulus - 1 /\ \A j \in 0 .. k - 1 : d[j] \in Seq(Char)
    BY <1>1
  <2> QED BY <1>7, <2>1
<1>9. ASSUME NEW n \in Nat, n \in T PROVE n + 1 \in T
  <2> SUFFICES ASSUME NEW k \in 0 .. n + 1, k <= Modulus - 1 PROVE d[k] \in Seq(Char)
    OBVIOUS
  <2>1. k \in 0 .. Modulus - 1 /\ \A j \in 0 .. k - 1 : j \in 0 .. n /\ j <= Modulus - 1
    BY <1>1
  <2>2. \A j \in 0 .. k - 1 : d[j] \in Seq(Char)
    BY <1>9, <2>1
  <2> QED BY <1>7, <2>1, <2>2
<1> HIDE DEF T
<1>10. Nat \subseteq T
  BY <1>8, <1>9, Induction
<1>11. v \in Nat /\ v \in 0 .. v /\ v <= Modulus - 1
  BY <1>1
<1>12. v \in T
  BY <1>10, <1>11
<1>13. d[v] \in Seq(Char)
  BY <1>11, <1>12 DEF T
<1> QED BY <1>5, <1>6, <1>13, Zenon

(* A power of b is in every set of numbers that holds 1 and is closed      *)
(* under multiplication with b.                                            *)
Power(w, b) ==
  \A S \in SUBSET Nat : 1 \in S /\ (\A u \in S : b * u \in S) => w \in S

LEMMA Powers ==
  ASSUME NEW b \in Bases
  PROVE  /\ Power(1, b)
         /\ \A u \in Nat : Power(u, b) => Power(b * u, b)
         /\ \A w : Power(w, b) =>
              \/ w = 1
              \/ \E u \in Nat : Power(u, b) /\ u >= 1 /\ w = b * u
<1> b \in Nat \ {0}
  BY DEF Bases
<1>1. Power(1, b)
  BY DEF Power
<1>2. ASSUME NEW u \in Nat, Power(u, b) PROVE Power(b * u, b)
  BY <1>2, Zenon DEF Power
<1>3. ASSUME NEW w, Power(w, b)
      PROVE  w = 1 \/ \E u \in Nat : Power(u, b) /\ u >= 1 /\ w = b * u
  <2> DEFINE S == {u \in Nat : Power(u, b) /\ u >= 1
                       /\ (u = 1 \/ \E t \in Nat : Power(t, b) /\ t >= 1 /\ u = b * t)}
  <2>1. 1 \in S
    BY <1>1
  <2>2. ASSUME NEW u \in S PROVE b * u \in S
    <3>1. u \in Nat /\ u >= 1 /\ Power(u, b)
      OBVIOUS
    <3>2. b * u \in Nat /\ b * u >= 1
      BY <3>1
    <3> QED BY <1>2, <3>1, <3>2
  <2>3. S \in SUBSET Nat
    OBVIOUS
  <2> HIDE DEF S
  <2>4. w \in S
    BY <1>3, <2>1, <2>2, <2>3, Zenon DEF Power
  <2> QED BY <2>4 DEF S
<1> QED BY <1>1, <1>2, <1>3

-----------------------------------------------------------------------------
(***************************************************************************)
(* Items.  Now is the state of an object that prints in base b and has put *)
(* the characters o.                                                       *)
(***************************************************************************)
Now(b, o) == [base |-> b, out |-> o]

BaseAfter(b, x) == IF x.kind = "base" THEN x.n ELSE b

Shows(b, x) ==
  IF x.kind = "text" THEN x.text
  ELSE IF x.kind = "base" THEN << >>
  ELSE IF x.kind = "int" THEN Sign(x.n) \o Numeral(magnitude(x.n), b)
  ELSE Numeral(x.n, 16)

LEMMA NowIs == \A b, o : Now(b, o).base = b /\ Now(b, o).out = o
BY DEF Now

LEMMA NowSame == \A b, o, c, p : Now(b, o) = Now(c, p) => b = c /\ o = p
BY DEF Now

LEMMA ItemType ==
  ASSUME NEW x \in Item
  PROVE  \/ x.kind = "text" /\ x.text \in Seq(Char) /\ x.text # << >>
         \/ x.kind = "base" /\ x.n \in Bases
         \/ x.kind = "int" /\ x.n \in Int /\ x.n >= - Modulus /\ x.n < Modulus
         \/ x.kind = "ptr" /\ x.n \in 0 .. Modulus - 1
<1>1. Modulus \in Nat
  BY ModulusAssumption
<1>2. CASE x \in [kind : {"text"}, text : Text]
  BY <1>2 DEF Text
<1>3. CASE x \in [kind : {"base"}, n : Bases]
  BY <1>3
<1>4. CASE x \in [kind : {"int"}, n : -(Modulus \div 2) .. Modulus - 1]
  BY <1>1, <1>4
<1>5. CASE x \in [kind : {"ptr"}, n : 0 .. Modulus - 1]
  BY <1>5
<1> QED BY <1>2, <1>3, <1>4, <1>5 DEF Item

LEMMA PrefixType == \A b \in Bases : Prefix(b) \in Seq(Char)
<1>1. /\ <<"b">> \in Seq(Char) /\ <<"0">> \in Seq(Char) /\ <<"0", "x">> \in Seq(Char)
      /\ << >> \in Seq(Char)
  BY CharAssumption
<1>2. \A b : Prefix(b) \in {<<"b">>, <<"0">>, <<"0", "x">>, << >>}
  <2> SUFFICES ASSUME NEW b PROVE Prefix(b) \in {<<"b">>, <<"0">>, <<"0", "x">>, << >>}
    OBVIOUS
  <2>1. CASE b = 2
    BY <2>1, Zenon DEF Prefix
  <2>2. CASE b = 8
    BY <2>2, Zenon DEF Prefix
  <2>3. CASE b = 16
    BY <2>3, Zenon DEF Prefix
  <2>4. CASE b # 2 /\ b # 8 /\ b # 16
    BY <2>4, Zenon DEF Prefix
  <2> QED BY <2>1, <2>2, <2>3, <2>4
<1> QED BY <1>1, <1>2, Zenon

LEMMA NumeralType ==
  ASSUME NEW v \in 0 .. Modulus - 1, NEW b \in Bases
  PROVE  Numeral(v, b) \in Seq(Char)
<1>1. Prefix(b) \in Seq(Char) /\ Digits(v, b) \in Seq(Char)
  BY PrefixType, DigitsAre
<1> QED BY <1>1, ConcatProperties, Zenon DEF Numeral

LEMMA SignType ==
  ASSUME NEW v \in Int, v >= - Modulus, v < Modulus
  PROVE  Sign(v) \in Seq(Char) /\ magnitude(v) \in 0 .. Modulus - 1
<1>1. Modulus \in Nat /\ Modulus > 0
  BY ModulusAssumption
<1>2. <<"-">> \in Seq(Char) /\ << >> \in Seq(Char)
  BY CharAssumption
<1>3. Sign(v) \in Seq(Char)
  BY <1>2 DEF Sign
<1>4. \A u \in Int : u % Modulus \in 0 .. Modulus - 1
  BY <1>1
<1>5. magnitude(v) \in 0 .. Modulus - 1
  BY <1>4 DEF magnitude
<1> QED BY <1>3, <1>5

LEMMA PrintItemIs ==
  ASSUME NEW b, NEW o, NEW x
  PROVE  /\ x.kind = "text" => PrintItem(Now(b, o), x) = Now(b, o \o x.text)
         /\ x.kind = "base" => PrintItem(Now(b, o), x) = Now(x.n, o)
         /\ x.kind = "int"  =>
              PrintItem(Now(b, o), x) = Now(b, (o \o Sign(x.n)) \o Numeral(magnitude(x.n), b))
         /\ x.kind = "ptr"  => PrintItem(Now(b, o), x) = Now(b, o \o Numeral(x.n, 16))
<1> DEFINE s == Now(b, o)
<1>1. /\ \A t : [s EXCEPT !.out = t] = Now(b, t)
      /\ \A c : [s EXCEPT !.base = c] = Now(c, o)
  BY DEF Now
<1>2. s.base = b /\ s.out = o
  BY NowIs
<1> HIDE DEF s
<1>3. ASSUME x.kind = "text" PROVE PrintItem(s, x) = Now(b, o \o x.text)
  <2>1. PrintItem(s, x) = [s EXCEPT !.out = s.out \o x.text]
    BY <1>3, Zenon DEF PrintItem
  <2> QED BY <1>1, <1>2, <2>1, Zenon
<1>4. ASSUME x.kind = "base" PROVE PrintItem(s, x) = Now(x.n, o)
  <2>1. PrintItem(s, x) = [s EXCEPT !.base = x.n]
    BY <1>4, Zenon DEF PrintItem
  <2> QED BY <1>1, <1>2, <2>1, Zenon
<1>5. ASSUME x.kind = "int"
      PROVE  PrintItem(s, x) = Now(b, (o \o Sign(x.n)) \o Numeral(magnitude(x.n), b))
  <2>1. PrintItem(s, x)
          = [s EXCEPT !.out = (s.out \o Sign(x.n)) \o Numeral(magnitude(x.n), s.base)]
    BY <1>5, Zenon DEF PrintItem
  <2> QED BY <1>1, <1>2, <2>1, Zenon
<1>6. ASSUME x.kind = "ptr" PROVE PrintItem(s, x) = Now(b, o \o Numeral(x.n, 16))
  <2>1. PrintItem(s, x) = [s EXCEPT !.out = s.out \o Numeral(x.n, 16)]
    BY <1>6, Zenon DEF PrintItem
  <2> QED BY <1>1, <1>2, <2>1, Zenon
<1> QED BY <1>3, <1>4, <1>5, <1>6, Zenon DEF s

LEMMA ItemPrinted ==
  ASSUME NEW b, NEW o \in Seq(Char), NEW x \in Item, x.kind = "int" => b \in Bases
  PROVE  /\ Shows(b, x) \in Seq(Char) /\ BaseAfter(b, x) \in Bases \cup {b}
         /\ PrintItem(Now(b, o), x) = Now(BaseAfter(b, x), o \o Shows(b, x))
<1>1. /\ x.kind = "text" => PrintItem(Now(b, o), x) = Now(b, o \o x.text)
      /\ x.kind = "base" => PrintItem(Now(b, o), x) = Now(x.n, o)
      /\ x.kind = "int"  =>
           PrintItem(Now(b, o), x) = Now(b, (o \o Sign(x.n)) \o Numeral(magnitude(x.n), b))
      /\ x.kind = "ptr"  => PrintItem(Now(b, o), x) = Now(b, o \o Numeral(x.n, 16))
  BY PrintItemIs
<1>2. CASE x.kind = "text" /\ x.text \in Seq(Char)
  <2>1. Shows(b, x) = x.text /\ BaseAfter(b, x) = b
    BY <1>2 DEF Shows, BaseAfter
  <2>2. PrintItem(Now(b, o), x) = Now(b, o \o x.text)
    BY <1>2, <1>1, Zenon
  <2> QED BY <1>2, <2>1, <2>2, Zenon
<1>3. CASE x.kind = "base" /\ x.n \in Bases
  <2>1. Shows(b, x) = << >> /\ BaseAfter(b, x) = x.n
    BY <1>3 DEF Shows, BaseAfter
  <2>2. PrintItem(Now(b, o), x) = Now(x.n, o)
    BY <1>3, <1>1, Zenon
  <2>3. o \o << >> = o /\ << >> \in Seq(Char)
    BY ConcatEmptySeq, EmptySeq
  <2> QED BY <1>3, <2>1, <2>2, <2>3, Zenon
<1>4. CASE x.kind = "int" /\ x.n \in Int /\ x.n >= - Modulus /\ x.n < Modulus
  <2> DEFINE a == Sign(x.n)
             d == Numeral(magnitude(x.n), b)
  <2>1. Shows(b, x) = a \o d /\ BaseAfter(b, x) = b
    BY <1>4 DEF Shows, BaseAfter
  <2>2. PrintItem(Now(b, o), x) = Now(b, (o \o a) \o d)
    BY <1>4, <1>1, Zenon
  <2>3. a \in Seq(Char) /\ d \in Seq(Char)
    BY <1>4, SignType, NumeralType
  <2> HIDE DEF a, d
  <2>4. (o \o a) \o d = o \o (a \o d) /\ a \o d \in Seq(Char)
    BY <2>3, ConcatAssociative, ConcatProperties
  <2> QED BY <2>1, <2>2, <2>4, Zenon
<1>5. CASE x.kind = "ptr" /\ x.n \in 0 .. Modulus - 1
  <2>1. Shows(b, x) = Numeral(x.n, 16) /\ BaseAfter(b, x) = b
    BY <1>5 DEF Shows, BaseAfter
  <2>2. PrintItem(Now(b, o), x) = Now(b, o \o Numeral(x.n, 16))
    BY <1>5, <1>1, Zenon
  <2>3. Numeral(x.n, 16) \in Seq(Char)
    BY <1>5, NumeralType DEF Bases
  <2> QED BY <2>1, <2>2, <2>3, Zenon
<1> QED BY <1>2, <1>3, <1>4, <1>5, ItemType

-----------------------------------------------------------------------------
(***************************************************************************)
(* Sequences of items.                                                     *)
(***************************************************************************)
LEMMA PrintNone == \A s : PrintItems(s, << >>) = s
<1> SUFFICES ASSUME NEW s PROVE PrintItems(s, << >>) = s
  OBVIOUS
<1>1. PICK f : f = PrintFn(s, << >>, 0)
  OBVIOUS
<1>2. f[0] = s
  BY <1>1, PrintIs
<1>3. PrintItems(s, << >>) = PrintFn(s, << >>, Len(<< >>))[Len(<< >>)]
  BY PrintItemsIs, Zenon
<1>4. Len(<< >>) = 0
  OBVIOUS
<1> QED BY <1>1, <1>2, <1>3, <1>4, Zenon

LEMMA PrintHead ==
  ASSUME NEW s, NEW S, NEW xs \in Seq(S), xs # << >>
  PROVE  PrintItems(s, xs) = PrintItems(PrintItem(s, Head(xs)), Tail(xs))
<1>1. PICK n \in Nat : n + 1 = Len(xs) /\ n = Len(Tail(xs))
  BY HeadTailProperties, EmptySeq
<1>2. PICK h, t : h = Head(xs) /\ t = Tail(xs)
  OBVIOUS
<1>3. xs[1] = h /\ \A k \in 1 .. n : t[k] = xs[k + 1]
  BY <1>1, <1>2, HeadTailProperties
<1>4. PICK f : f = PrintFn(s, xs, n + 1)
  OBVIOUS
<1>5. PICK g : g = PrintFn(PrintItem(s, h), t, n)
  OBVIOUS
<1>6. f[0] = s /\ \A k \in 1 .. n + 1 : f[k] = PrintItem(f[k - 1], xs[k])
  BY <1>1, <1>4, PrintIs
<1>7. g[0] = PrintItem(s, h) /\ \A k \in 1 .. n : g[k] = PrintItem(g[k - 1], t[k])
  BY <1>1, <1>5, PrintIs
<1> DEFINE T == {k \in Nat : k <= n => f[k + 1] = g[k]}
<1>8. 0 \in T
  <2>1. f[1] = PrintItem(f[0], xs[1])
    BY <1>6
  <2> QED BY <1>3, <1>6, <1>7, <2>1
<1>9. ASSUME NEW k \in Nat, k \in T PROVE k + 1 \in T
  <2> SUFFICES ASSUME k + 1 <= n PROVE f[(k + 1) + 1] = g[k + 1]
    OBVIOUS
  <2>1. /\ (k + 1) + 1 \in 1 .. n + 1 /\ ((k + 1) + 1) - 1 = k + 1
        /\ k + 1 \in 1 .. n /\ (k + 1) - 1 = k /\ k <= n
    OBVIOUS
  <2>2. f[k + 1] = g[k]
    BY <1>9, <2>1
  <2>3. f[(k + 1) + 1] = PrintItem(f[k + 1], xs[(k + 1) + 1])
    BY <1>6, <2>1
  <2>4. g[k + 1] = PrintItem(g[k], t[k + 1])
    BY <1>7, <2>1
  <2>5. t[k + 1] = xs[(k + 1) + 1]
    BY <1>3, <2>1
  <2> QED BY <2>2, <2>3, <2>4, <2>5, Zenon
<1> HIDE DEF T
<1>10. n \in T
  BY <1>8, <1>9, Induction
<1>11. f[n + 1] = g[n]
  BY <1>10 DEF T
<1>12. PrintItems(s, xs) = f[n + 1]
  BY <1>1, <1>4, PrintItemsIs, Zenon
<1>13. PrintItems(PrintItem(s, h), t) = g[n]
  BY <1>1, <1>2, <1>5, PrintItemsIs, Zenon
<1> QED BY <1>2, <1>11, <1>12, <1>13, Zenon

Alike(xs, b, c, q) ==
  \/ b = c /\ b \in Bases
  \/ \A k \in 1 .. Len(xs) : xs[k].kind = "int" => q \in 1 .. k - 1 /\ xs[q].kind = "base"

Run(xs, b, c, o, p, x, y, r) ==
  /\ PrintItems(Now(b, o), xs) = Now(x, o \o r)
  /\ PrintItems(Now(c, p), xs) = Now(y, p \o r)
  /\ b = c => x = y
  /\ (\A k \in 1 .. Len(xs) : xs[k].kind # "base") => x = b

LEMMA JoinChars == \A x, y, z \in Seq(Char) : (x \o y) \o z = x \o (y \o z)
BY ConcatAssociative

(* Two objects that print the same items put the same characters if they   *)
(* start with the same base, or if every number comes behind the base q.   *)
LEMMA Runs ==
  ASSUME NEW xs \in Seq(Item), NEW b, NEW c, NEW o \in Seq(Char), NEW p \in Seq(Char), NEW q,
         Alike(xs, b, c, q)
  PROVE  \E x \in Bases \cup {b}, y \in Bases \cup {c}, r \in Seq(Char) :
           Run(xs, b, c, o, p, x, y, r)
<1> USE DEF Alike
<1>1. PICK n \in Nat : n = Len(xs)
  OBVIOUS
<1>2. PICK f : f = PrintFn(Now(b, o), xs, n)
  OBVIOUS
<1>3. PICK g : g = PrintFn(Now(c, p), xs, n)
  OBVIOUS
<1>4. f[0] = Now(b, o) /\ \A k \in 1 .. n : f[k] = PrintItem(f[k - 1], xs[k])
  BY <1>2, PrintIs
<1>5. g[0] = Now(c, p) /\ \A k \in 1 .. n : g[k] = PrintItem(g[k - 1], xs[k])
  BY <1>3, PrintIs
<1> DEFINE Good(k, x, y, r) ==
             /\ f[k] = Now(x, o \o r) /\ g[k] = Now(y, p \o r)
             /\ b = c => x = y
             /\ q \in 1 .. k /\ xs[q].kind = "base" => x = y /\ x \in Bases
             /\ (\A j \in 1 .. n : xs[j].kind # "base") => x = b
           T == {k \in Nat : k <= n =>
                   \E x \in Bases \cup {b}, y \in Bases \cup {c}, r \in Seq(Char) : Good(k, x, y, r)}
<1>6. 0 \in T
  <2>1. o \o << >> = o /\ p \o << >> = p /\ << >> \in Seq(Char)
    BY ConcatEmptySeq, EmptySeq
  <2>2. q \notin 1 .. 0
    OBVIOUS
  <2>3. Good(0, b, c, << >>)
    BY <1>4, <1>5, <2>1, <2>2, Zenon
  <2> HIDE DEF Good
  <2> QED BY <2>1, <2>3
<1>7. ASSUME NEW k \in Nat, k \in T PROVE k + 1 \in T
  <2> SUFFICES ASSUME k + 1 <= n
               PROVE  \E x \in Bases \cup {b}, y \in Bases \cup {c}, r \in Seq(Char) :
                        Good(k + 1, x, y, r)
    OBVIOUS
  <2>1. k <= n /\ k + 1 \in 1 .. n /\ (k + 1) - 1 = k
    OBVIOUS
  <2>2. PICK x \in Bases \cup {b}, y \in Bases \cup {c}, r \in Seq(Char) : Good(k, x, y, r)
    BY <1>7, <2>1
  <2>3. PICK z \in Item : z = xs[k + 1]
    BY <1>1, <2>1, ElementOfSeq
  <2>4. z.kind = "int" => x = y /\ x \in Bases
    <3>1. CASE b = c /\ b \in Bases
      BY <2>2, <3>1
    <3>2. CASE \A j \in 1 .. n : xs[j].kind = "int" => q \in 1 .. j - 1 /\ xs[q].kind = "base"
      BY <2>1, <2>2, <2>3, <3>2
    <3> QED BY <1>1, <3>1, <3>2
  <2>5. PICK d : d = Shows(x, z)
    OBVIOUS
  <2>6. Shows(y, z) = d
    <3>1. CASE z.kind = "int"
      BY <2>4, <2>5, <3>1
    <3>2. CASE z.kind # "int"
      BY <2>5, <3>2 DEF Shows
    <3> QED BY <3>1, <3>2
  <2>7. PICK u, v : u = BaseAfter(x, z) /\ v = BaseAfter(y, z)
    OBVIOUS
  <2>8. o \o r \in Seq(Char) /\ p \o r \in Seq(Char)
    BY ConcatProperties
  <2>9. f[k + 1] = Now(u, (o \o r) \o d) /\ d \in Seq(Char) /\ u \in Bases \cup {x}
    <3>1. f[k + 1] = PrintItem(Now(x, o \o r), z)
      BY <1>4, <2>1, <2>2, <2>3
    <3> QED BY <2>4, <2>5, <2>7, <2>8, <3>1, ItemPrinted
  <2>10. g[k + 1] = Now(v, (p \o r) \o d) /\ v \in Bases \cup {y}
    <3>1. g[k + 1] = PrintItem(Now(y, p \o r), z)
      BY <1>5, <2>1, <2>2, <2>3
    <3> QED BY <2>4, <2>6, <2>7, <2>8, <3>1, ItemPrinted
  <2>11. /\ (o \o r) \o d = o \o (r \o d) /\ (p \o r) \o d = p \o (r \o d)
         /\ r \o d \in Seq(Char)
    <3>1. (o \o r) \o d = o \o (r \o d) /\ (p \o r) \o d = p \o (r \o d)
      BY <2>9, JoinChars, Zenon
    <3>2. r \o d \in Seq(Char)
      BY <2>9, ConcatProperties
    <3> QED BY <3>1, <3>2
  <2>12. x = y => u = v
    BY <2>7
  <2>13. z.kind = "base" => u = v /\ u \in Bases
    <3>1. z.kind = "base" => z.n \in Bases
      BY ItemType
    <3> QED BY <2>7, <3>1 DEF BaseAfter
  <2>14. z.kind # "base" => u = x
    BY <2>7 DEF BaseAfter
  <2>15. b = c => u = v
    BY <2>2, <2>12
  <2>16. q \in 1 .. k + 1 /\ xs[q].kind = "base" => u = v /\ u \in Bases
    <3>1. q \in 1 .. k + 1 => q \in 1 .. k \/ q = k + 1
      OBVIOUS
    <3>2. x = y /\ x \in Bases => u = v /\ u \in Bases
      BY <2>9, <2>12
    <3> QED BY <2>2, <2>3, <2>13, <3>1, <3>2
  <2>17. (\A j \in 1 .. n : xs[j].kind # "base") => u = b
    BY <2>1, <2>2, <2>3, <2>14
  <2>18. Good(k + 1, u, v, r \o d)
    BY <2>9, <2>10, <2>11, <2>15, <2>16, <2>17, Zenon
  <2> HIDE DEF Good
  <2> QED BY <2>9, <2>10, <2>11, <2>18
<1> HIDE DEF T
<1>8. n \in T
  BY <1>6, <1>7, Induction
<1>9. PICK x \in Bases \cup {b}, y \in Bases \cup {c}, r \in Seq(Char) : Good(n, x, y, r)
  BY <1>8 DEF T
<1>10. PrintItems(Now(b, o), xs) = f[n] /\ PrintItems(Now(c, p), xs) = g[n]
  BY <1>1, <1>2, <1>3, PrintItemsIs, Zenon
<1> QED BY <1>1, <1>9, <1>10, Zenon DEF Run

LEMMA Prints ==
  ASSUME NEW xs \in Seq(Item), NEW b \in Bases, NEW o \in Seq(Char)
  PROVE  \E x \in Bases, r \in Seq(Char) :
           /\ PrintItems(Now(b, o), xs) = Now(x, o \o r)
           /\ PrintItems(Now(b, << >>), xs) = Now(x, r)
           /\ (\A k \in 1 .. Len(xs) : xs[k].kind # "base") => x = b
<1>1. << >> \in Seq(Char)
  BY EmptySeq
<1>2. PICK x \in Bases \cup {b}, y \in Bases \cup {b}, r \in Seq(Char) :
           Run(xs, b, b, o, << >>, x, y, r)
  <2>1. Alike(xs, b, b, 0)
    BY DEF Alike
  <2> QED BY <1>1, <2>1, Runs
<1>3. << >> \o r = r
  BY ConcatEmptySeq
<1>4. x \in Bases
  OBVIOUS
<1> QED BY <1>2, <1>3, <1>4, Zenon DEF Run

LEMMA ItemsOf ==
  ASSUME NEW m \in Message
  PROVE  /\ Items(m) \in Seq(Item) /\ m.level \in Level /\ m.items \in Seq(Item)
         /\ (\A j \in DOMAIN m.items : m.items[j].kind # "base") =>
              \A k \in 1 .. Len(Items(m)) : Items(m)[k].kind # "base"
         /\ OwnBase(m) => \E q : \A k \in 1 .. Len(Items(m)) : Items(m)[k].kind = "int" =>
              q \in 1 .. k - 1 /\ Items(m)[q].kind = "base"
<1>1. m.level \in Level /\ m.items \in Seq(Item)
  BY DEF Message
<1>2. PICK d, xs : d = desc(m.level) /\ xs = m.items
  OBVIOUS
<1>3. /\ d \in Seq(Item) /\ \A k \in 1 .. Len(d) : d[k].kind = "text"
  <2>1. CASE m.level = "normal"
    <3>1. d = << >>
      BY <1>2, <2>1 DEF desc
    <3> QED BY <3>1
  <2>2. CASE m.level # "normal"
    <3>1. PICK x : x = [kind |-> "text", text |-> <<m.level>>]
      OBVIOUS
    <3>2. <<m.level>> \in Text
      BY <1>1, CharAssumption DEF Text
    <3>3. x \in Item /\ x.kind = "text"
      BY <3>1, <3>2 DEF Item
    <3>4. d = <<x>>
      BY <1>2, <2>2, <3>1 DEF desc
    <3> QED BY <3>3, <3>4
  <2> QED BY <2>1, <2>2
<1>4. Items(m) = d \o xs
  BY <1>2 DEF Items
<1>5. PICK i \in Nat, n \in Nat : i = Len(d) /\ n = Len(xs)
  BY <1>1, <1>2, <1>3
<1>6. PICK all : all = d \o xs
  OBVIOUS
<1>7. /\ all \in Seq(Item) /\ Len(all) = i + n
      /\ \A k \in 1 .. i : all[k] = d[k]
      /\ \A k \in 1 .. i + n : k > i => all[k] = xs[k - i]
  <2>1. d \in Seq(Item) /\ xs \in Seq(Item)
    BY <1>1, <1>2, <1>3
  <2>2. /\ d \o xs \in Seq(Item) /\ Len(d \o xs) = Len(d) + Len(xs)
        /\ \A k \in 1 .. Len(d) + Len(xs) :
             (d \o xs)[k] = IF k <= Len(d) THEN d[k] ELSE xs[k - Len(d)]
    BY <2>1, ConcatProperties
  <2>3. \A k \in 1 .. i + n : all[k] = IF k <= i THEN d[k] ELSE xs[k - i]
    BY <1>5, <1>6, <2>2, Zenon
  <2>4. \A k \in 1 .. i : k \in 1 .. i + n /\ k <= i
    OBVIOUS
  <2>5. \A k \in 1 .. i + n : k > i => ~ k <= i
    OBVIOUS
  <2>6. all \in Seq(Item) /\ Len(all) = i + n
    BY <1>5, <1>6, <2>2, Zenon
  <2> QED BY <2>3, <2>4, <2>5, <2>6, Zenon
<1>8. DOMAIN xs = 1 .. n
  BY <1>1, <1>2, <1>5
<1>9. ASSUME \A j \in DOMAIN xs : xs[j].kind # "base"
      PROVE  \A k \in 1 .. i + n : all[k].kind # "base"
  <2> TAKE k \in 1 .. i + n
  <2>1. CASE k <= i
    <3>1. k \in 1 .. i
      BY <2>1
    <3> QED BY <1>3, <1>5, <1>7, <3>1
  <2>2. CASE k > i
    <3>1. k - i \in 1 .. n
      BY <2>2
    <3> QED BY <1>7, <1>8, <1>9, <2>2, <3>1
  <2> QED BY <2>1, <2>2
<1>10. ASSUME OwnBase(m)
       PROVE  \A k \in 1 .. i + n : all[k].kind = "int" =>
                i + 1 \in 1 .. k - 1 /\ all[i + 1].kind = "base"
  <2> TAKE k \in 1 .. i + n
  <2> HAVE all[k].kind = "int"
  <2>1. k > i
    <3>1. k <= i => k \in 1 .. i
      OBVIOUS
    <3> QED BY <1>3, <1>5, <1>7, <3>1
  <2>2. k - i \in 1 .. n /\ all[k] = xs[k - i]
    BY <1>7, <2>1
  <2>3. xs[1].kind = "base"
    BY <1>2, <1>8, <1>10, <2>2 DEF OwnBase
  <2>4. i + 1 \in 1 .. i + n /\ i + 1 > i /\ (i + 1) - i = 1
    BY <2>2
  <2>5. all[i + 1] = xs[1]
    BY <1>7, <2>4
  <2>6. k # i + 1
    BY <2>3, <2>5
  <2> QED BY <2>1, <2>3, <2>5, <2>6
<1>11. (\A j \in DOMAIN m.items : m.items[j].kind # "base") =>
         \A k \in 1 .. Len(Items(m)) : Items(m)[k].kind # "base"
  BY <1>2, <1>4, <1>6, <1>7, <1>9, Zenon
<1>12. OwnBase(m) => \E q : \A k \in 1 .. Len(Items(m)) : Items(m)[k].kind = "int" =>
         q \in 1 .. k - 1 /\ Items(m)[q].kind = "base"
  <2>1. OwnBase(m) => \A k \in 1 .. Len(Items(m)) : Items(m)[k].kind = "int" =>
          i + 1 \in 1 .. k - 1 /\ Items(m)[i + 1].kind = "base"
    BY <1>4, <1>6, <1>7, <1>10, Zenon
  <2> QED BY <2>1, Zenon
<1>13. Items(m) \in Seq(Item)
  BY <1>4, <1>6, <1>7
<1> QED BY <1>1, <1>11, <1>12, <1>13, Zenon

(* What a handler prints: the same characters in any base, if its message  *)
(* sets the base of its numbers.                                           *)
LEMMA HandlerPrints ==
  ASSUME NEW m \in Message, NEW b \in Bases \cup {0}, b \in Bases \/ OwnBase(m)
  PROVE  \E x \in Bases \cup {b}, r \in Seq(Char) :
           /\ Printed(b, m) = Now(x, r)
           /\ (\A j \in DOMAIN m.items : m.items[j].kind # "base") => x = b
           /\ OwnBase(m) => Printed(10, m).out = r
           /\ \A o \in Seq(Char) : b \in Bases => PrintItems(Now(b, o), Items(m)) = Now(x, o \o r)
<1>1. PICK xs \in Seq(Item) : xs = Items(m)
  BY ItemsOf
<1>2. PICK e \in Seq(Char) : e = << >>
  BY EmptySeq
<1>3. \A a : Printed(a, m) = PrintItems(Now(a, e), xs)
  BY <1>1, <1>2, Zenon DEF Printed, Now
<1>4. \A r \in Seq(Char) : e \o r = r
  BY <1>2, ConcatEmptySeq
<1>5. 10 \in Bases
  BY DEF Bases
<1>6. CASE OwnBase(m)
  <2>1. PICK q : Alike(xs, b, 10, q)
    BY <1>1, <1>6, ItemsOf, Zenon DEF Alike
  <2>2. PICK x \in Bases \cup {b}, y \in Bases \cup {10}, r \in Seq(Char) :
               Run(xs, b, 10, e, e, x, y, r)
    BY <2>1, Runs
  <2>6. /\ PrintItems(Now(b, e), xs) = Now(x, r)
        /\ PrintItems(Now(10, e), xs) = Now(y, r)
        /\ (\A k \in 1 .. Len(xs) : xs[k].kind # "base") => x = b
    BY <1>4, <2>2, Zenon DEF Run
  <2>3. \A o \in Seq(Char) : b \in Bases => PrintItems(Now(b, o), xs) = Now(x, o \o r)
    <3> SUFFICES ASSUME NEW o \in Seq(Char), b \in Bases
                 PROVE  PrintItems(Now(b, o), xs) = Now(x, o \o r)
      OBVIOUS
    <3>1. PICK u \in Bases, s \in Seq(Char) :
           PrintItems(Now(b, o), xs) = Now(u, o \o s) /\ PrintItems(Now(b, e), xs) = Now(u, s)
      BY <1>2, Prints
    <3>2. u = x /\ s = r
      <4>1. Now(u, s) = Now(x, r)
        BY <2>6, <3>1, Zenon
      <4> QED BY <4>1, NowSame
    <3> QED BY <3>1, <3>2
  <2>4. Printed(b, m) = Now(x, r) /\ Printed(10, m).out = r
    <3>1. Now(y, r).out = r
      BY NowIs
    <3> QED BY <1>3, <2>6, <3>1, Zenon
  <2>5. (\A j \in DOMAIN m.items : m.items[j].kind # "base") => x = b
    BY <1>1, <2>6, ItemsOf, Zenon
  <2> QED BY <1>1, <2>3, <2>4, <2>5, Zenon
<1>7. CASE ~ OwnBase(m)
  <2>1. PICK x \in Bases, r \in Seq(Char) :
               /\ PrintItems(Now(b, e), xs) = Now(x, e \o r)
               /\ PrintItems(Now(b, << >>), xs) = Now(x, r)
               /\ (\A k \in 1 .. Len(xs) : xs[k].kind # "base") => x = b
    BY <1>7, Prints
  <2>2. \A o \in Seq(Char) : b \in Bases => PrintItems(Now(b, o), xs) = Now(x, o \o r)
    <3> SUFFICES ASSUME NEW o \in Seq(Char), b \in Bases
                 PROVE  PrintItems(Now(b, o), xs) = Now(x, o \o r)
      OBVIOUS
    <3>1. PICK u \in Bases, s \in Seq(Char) :
           PrintItems(Now(b, o), xs) = Now(u, o \o s) /\ PrintItems(Now(b, << >>), xs) = Now(u, s)
      BY Prints
    <3>2. u = x /\ s = r
      BY <2>1, <3>1, NowSame
    <3> QED BY <3>1, <3>2
  <2>3. Printed(b, m) = Now(x, r)
    BY <1>2, <1>3, <2>1
  <2>4. (\A j \in DOMAIN m.items : m.items[j].kind # "base") => x = b
    BY <1>1, <2>1, ItemsOf, Zenon
  <2>5. x \in Bases \cup {b}
    OBVIOUS
  <2> QED BY <1>1, <1>7, <2>2, <2>3, <2>4, <2>5, Zenon
<1> QED BY <1>6, <1>7

-----------------------------------------------------------------------------
(***************************************************************************)
(* The characters put, and the messages begun.                             *)
(***************************************************************************)
Tagged == [c : Char, n : Nat]

LEMMA CharsEmpty == \A N : Chars(<< >>, N) = << >>
<1> SUFFICES ASSUME NEW N PROVE Chars(<< >>, N) = << >>
  OBVIOUS
<1>1. PICK f : f = PutFn(<< >>, N, 0)
  OBVIOUS
<1>2. f[0] = << >>
  BY <1>1, PutIs
<1>3. Chars(<< >>, N) = PutFn(<< >>, N, Len(<< >>))[Len(<< >>)]
  BY CharsIs, Zenon
<1>4. Len(<< >>) = 0
  OBVIOUS
<1> QED BY <1>1, <1>2, <1>3, <1>4, Zenon

(* Only the numbers count that occur.                                      *)
LEMMA CharsSame ==
  ASSUME NEW s \in Seq(Tagged), NEW M, NEW N, \A k \in 1 .. Len(s) : s[k].n \in M <=> s[k].n \in N
  PROVE  Chars(s, M) = Chars(s, N) /\ Chars(s, N) \in Seq(Char)
<1>1. PICK n \in Nat : n = Len(s)
  OBVIOUS
<1>2. PICK f : f = PutFn(s, M, n)
  OBVIOUS
<1>3. PICK g : g = PutFn(s, N, n)
  OBVIOUS
<1>4. f[0] = << >> /\ \A k \in 1 .. n : f[k] = CharsNext(f[k - 1], s[k], M)
  BY <1>2, PutIs
<1>5. g[0] = << >> /\ \A k \in 1 .. n : g[k] = CharsNext(g[k - 1], s[k], N)
  BY <1>3, PutIs
<1> DEFINE T == {k \in Nat : k <= n => f[k] = g[k] /\ g[k] \in Seq(Char)}
<1>6. 0 \in T
  BY <1>4, <1>5, EmptySeq
<1>7. ASSUME NEW k \in Nat, k \in T PROVE k + 1 \in T
  <2> SUFFICES ASSUME k + 1 <= n PROVE f[k + 1] = g[k + 1] /\ g[k + 1] \in Seq(Char)
    OBVIOUS
  <2>1. k <= n /\ k + 1 \in 1 .. n /\ (k + 1) - 1 = k
    OBVIOUS
  <2>2. PICK e \in Tagged : e = s[k + 1]
    BY <1>1, <2>1, ElementOfSeq
  <2>3. f[k + 1] = CharsNext(f[k], e, M) /\ g[k + 1] = CharsNext(g[k], e, N)
    BY <1>4, <1>5, <2>1, <2>2
  <2>4. f[k] = g[k] /\ g[k] \in Seq(Char)
    BY <1>7, <2>1
  <2>5. e.n \in M <=> e.n \in N
    BY <1>1, <2>1, <2>2
  <2>6. e.c \in Char
    BY DEF Tagged
  <2>7. Append(g[k], e.c) \in Seq(Char)
    BY <2>4, <2>6, AppendProperties
  <2>8. CASE e.n \in N
    BY <2>3, <2>4, <2>5, <2>7, <2>8, Zenon DEF CharsNext
  <2>9. CASE e.n \notin N
    BY <2>3, <2>4, <2>5, <2>9, Zenon DEF CharsNext
  <2> QED BY <2>8, <2>9
<1> HIDE DEF T
<1>8. n \in T
  BY <1>6, <1>7, Induction
<1>9. f[n] = g[n] /\ g[n] \in Seq(Char)
  BY <1>8 DEF T
<1>10. Chars(s, M) = f[n] /\ Chars(s, N) = g[n]
  BY <1>1, <1>2, <1>3, CharsIs, Zenon
<1> QED BY <1>9, <1>10, Zenon

LEMMA CharsNone ==
  ASSUME NEW s \in Seq(Tagged), NEW N, \A k \in 1 .. Len(s) : s[k].n \notin N
  PROVE  Chars(s, N) = << >>
<1>1. PICK n \in Nat : n = Len(s)
  OBVIOUS
<1>2. PICK f : f = PutFn(s, N, n)
  OBVIOUS
<1>3. f[0] = << >> /\ \A k \in 1 .. n : f[k] = CharsNext(f[k - 1], s[k], N)
  BY <1>2, PutIs
<1> DEFINE T == {k \in Nat : k <= n => f[k] = << >>}
<1>4. 0 \in T
  BY <1>3
<1>5. ASSUME NEW k \in Nat, k \in T PROVE k + 1 \in T
  <2> SUFFICES ASSUME k + 1 <= n PROVE f[k + 1] = << >>
    OBVIOUS
  <2>1. k <= n /\ k + 1 \in 1 .. n /\ (k + 1) - 1 = k
    OBVIOUS
  <2>2. f[k] = << >> /\ f[k + 1] = CharsNext(f[k], s[k + 1], N) /\ s[k + 1].n \notin N
    BY <1>1, <1>3, <1>5, <2>1
  <2> QED BY <2>2, Zenon DEF CharsNext
<1> HIDE DEF T
<1>6. n \in T
  BY <1>4, <1>5, Induction
<1>7. Chars(s, N) = f[n]
  BY <1>1, <1>2, CharsIs, Zenon
<1> QED BY <1>6, <1>7 DEF T

LEMMA ConcatAppend ==
  ASSUME NEW o \in Seq(Char), NEW a \in Seq(Char), NEW c \in Char
  PROVE  Append(o \o a, c) = o \o Append(a, c)
<1>1. o \o a \in Seq(Char) /\ <<c>> \in Seq(Char)
  BY ConcatProperties
<1>2. Append(o \o a, c) = (o \o a) \o <<c>> /\ Append(a, c) = a \o <<c>>
  BY <1>1, AppendIsConcat
<1>3. (o \o a) \o <<c>> = o \o (a \o <<c>>)
  BY <1>1, ConcatAssociative
<1> QED BY <1>2, <1>3

(* The characters q are put, for the message i.                            *)
Tags(q, i) == [j \in DOMAIN q |-> [c |-> q[j], n |-> i]]

LEMMA TagsIs ==
  ASSUME NEW q \in Seq(Char), NEW i \in Nat
  PROVE  /\ Tags(q, i) \in Seq(Tagged) /\ Len(Tags(q, i)) = Len(q)
         /\ \A j \in 1 .. Len(q) : Tags(q, i)[j].c = q[j] /\ Tags(q, i)[j].n = i
<1>1. PICK n \in Nat : n = Len(q) /\ DOMAIN q = 1 .. n /\ \A j \in 1 .. n : q[j] \in Char
  BY ElementOfSeq
<1>2. PICK t : t = Tags(q, i)
  OBVIOUS
<1>3. t = [j \in 1 .. n |-> [c |-> q[j], n |-> i]]
  BY <1>1, <1>2 DEF Tags
<1>4. \A j \in 1 .. n : [c |-> q[j], n |-> i] \in Tagged
  BY <1>1 DEF Tagged
<1>5. t \in Seq(Tagged)
  BY <1>3, <1>4, IsASeq
<1>6. Len(t) = n
  BY <1>3, <1>5
<1> QED BY <1>1, <1>2, <1>3, <1>5, <1>6

LEMMA CharsPut ==
  ASSUME NEW s \in Seq(Tagged), NEW N, NEW q \in Seq(Char), NEW i \in Nat
  PROVE  /\ s \o Tags(q, i) \in Seq(Tagged)
         /\ \A k \in 1 .. Len(s \o Tags(q, i)) :
              \/ k \in 1 .. Len(s) /\ (s \o Tags(q, i))[k] = s[k]
              \/ k > Len(s) /\ (s \o Tags(q, i))[k].n = i
         /\ i \in N => Chars(s \o Tags(q, i), N) = Chars(s, N) \o q
         /\ i \notin N => Chars(s \o Tags(q, i), N) = Chars(s, N)
<1>1. PICK t \in Seq(Tagged) : t = Tags(q, i)
  BY TagsIs
<1>2. PICK m \in Nat, n \in Nat : m = Len(s) /\ n = Len(q)
  OBVIOUS
<1>3. Len(t) = n /\ \A j \in 1 .. n : t[j].c = q[j] /\ t[j].n = i
  BY <1>1, <1>2, TagsIs
<1>4. PICK u : u = s \o t
  OBVIOUS
<1>5. /\ u \in Seq(Tagged) /\ Len(u) = m + n
      /\ \A k \in 1 .. m + n : u[k] = IF k <= m THEN s[k] ELSE t[k - m]
  <2>1. /\ s \o t \in Seq(Tagged) /\ Len(s \o t) = Len(s) + Len(t)
        /\ \A k \in 1 .. Len(s) + Len(t) : (s \o t)[k] = IF k <= Len(s) THEN s[k] ELSE t[k - Len(s)]
    BY ConcatProperties
  <2> QED BY <1>2, <1>3, <1>4, <2>1, Zenon
<1>6. PICK f : f = PutFn(u, N, m + n)
  OBVIOUS
<1>7. PICK g : g = PutFn(s, N, m)
  OBVIOUS
<1>8. f[0] = << >> /\ \A k \in 1 .. m + n : f[k] = CharsNext(f[k - 1], u[k], N)
  BY <1>6, PutIs
<1>9. g[0] = << >> /\ \A k \in 1 .. m : g[k] = CharsNext(g[k - 1], s[k], N)
  BY <1>7, PutIs
<1>10. Chars(u, N) = f[m + n] /\ Chars(s, N) = g[m]
  BY <1>2, <1>5, <1>6, <1>7, CharsIs, Zenon
<1>11. PICK o \in Seq(Char) : o = Chars(s, N)
  <2>1. \A k \in 1 .. Len(s) : s[k].n \in N <=> s[k].n \in N
    OBVIOUS
  <2> QED BY <2>1, CharsSame
<1> DEFINE T == {k \in Nat : k <= m => f[k] = g[k]}
<1>12. 0 \in T
  BY <1>8, <1>9
<1>13. ASSUME NEW k \in Nat, k \in T PROVE k + 1 \in T
  <2> SUFFICES ASSUME k + 1 <= m PROVE f[k + 1] = g[k + 1]
    OBVIOUS
  <2>1. /\ k <= m /\ k + 1 <= m /\ k + 1 \in 1 .. m /\ k + 1 \in 1 .. m + n /\ (k + 1) - 1 = k
    OBVIOUS
  <2>2. f[k] = g[k] /\ u[k + 1] = s[k + 1]
    BY <1>5, <1>13, <2>1
  <2> QED BY <1>8, <1>9, <2>1, <2>2
<1> HIDE DEF T
<1>14. f[m] = o
  <2>1. m \in T
    BY <1>12, <1>13, Induction
  <2> QED BY <1>10, <1>11, <2>1 DEF T
<1>15. \A j \in 1 .. n : /\ m + j \in 1 .. m + n /\ u[m + j] = t[j]
                        /\ (m + j) - 1 = m + (j - 1)
  <2> TAKE j \in 1 .. n
  <2>1. m + j \in 1 .. m + n /\ ~ m + j <= m /\ (m + j) - m = j /\ (m + j) - 1 = m + (j - 1)
    OBVIOUS
  <2> QED BY <1>5, <2>1
<1>16. \A j \in 1 .. n : f[m + j] = CharsNext(f[m + (j - 1)], t[j], N)
  BY <1>8, <1>15
<1>17. ASSUME i \notin N PROVE Chars(u, N) = o
  <2> DEFINE U == {j \in Nat : j <= n => f[m + j] = o}
  <2>1. 0 \in U
    BY <1>14
  <2>2. ASSUME NEW j \in Nat, j \in U PROVE j + 1 \in U
    <3> SUFFICES ASSUME j + 1 <= n PROVE f[m + (j + 1)] = o
      OBVIOUS
    <3>1. j <= n /\ j + 1 \in 1 .. n /\ (j + 1) - 1 = j
      OBVIOUS
    <3>2. f[m + j] = o /\ f[m + (j + 1)] = CharsNext(f[m + j], t[j + 1], N) /\ t[j + 1].n \notin N
      BY <1>3, <1>16, <1>17, <2>2, <3>1
    <3> QED BY <3>2, Zenon DEF CharsNext
  <2> HIDE DEF U
  <2>3. n \in U
    BY <2>1, <2>2, Induction
  <2> QED BY <1>10, <2>3 DEF U
<1>18. ASSUME i \in N PROVE Chars(u, N) = o \o q
  <2> DEFINE U == {j \in Nat : j <= n => f[m + j] = o \o SubSeq(q, 1, j)}
  <2>1. 0 \in U
    <3>1. SubSeq(q, 1, 0) = << >> /\ o \o << >> = o
      BY SubSeqEmpty, ConcatEmptySeq
    <3> QED BY <1>14, <3>1
  <2>2. ASSUME NEW j \in Nat, j \in U PROVE j + 1 \in U
    <3> SUFFICES ASSUME j + 1 <= n PROVE f[m + (j + 1)] = o \o SubSeq(q, 1, j + 1)
      OBVIOUS
    <3>1. j <= n /\ j + 1 \in 1 .. n /\ (j + 1) - 1 = j
      OBVIOUS
    <3>2. /\ f[m + j] = o \o SubSeq(q, 1, j)
          /\ f[m + (j + 1)] = CharsNext(f[m + j], t[j + 1], N)
          /\ t[j + 1].n \in N /\ t[j + 1].c = q[j + 1]
      BY <1>3, <1>16, <1>18, <2>2, <3>1
    <3>3. f[m + (j + 1)] = Append(o \o SubSeq(q, 1, j), q[j + 1])
      BY <3>2, Zenon DEF CharsNext
    <3>4. PICK a \in Seq(Char), c \in Char : a = SubSeq(q, 1, j) /\ c = q[j + 1]
      <4>1. SubSeq(q, 1, j) \in Seq(Char) /\ q[j + 1] \in Char
        BY <1>2, <3>1, SubSeqProperties, ElementOfSeq
      <4> QED BY <4>1
    <3>5. SubSeq(q, 1, j + 1) = Append(a, c)
      BY <1>2, <3>1, <3>4, SubSeqRecursiveSecond
    <3>6. Append(o \o a, c) = o \o Append(a, c)
      BY ConcatAppend
    <3> QED BY <3>3, <3>4, <3>5, <3>6
  <2> HIDE DEF U
  <2>3. n \in U
    BY <2>1, <2>2, Induction
  <2>4. SubSeq(q, 1, n) = q
    BY <1>2, SubSeqFull
  <2> QED BY <1>10, <2>3, <2>4 DEF U
<1>19. \A k \in 1 .. m + n : \/ k \in 1 .. m /\ u[k] = s[k]
                             \/ k > m /\ u[k].n = i
  <2> TAKE k \in 1 .. m + n
  <2>1. CASE k <= m
    BY <1>5, <2>1
  <2>2. CASE ~ k <= m
    <3>1. k - m \in 1 .. n /\ k > m
      BY <2>2
    <3> QED BY <1>3, <1>5, <2>2, <3>1
  <2> QED BY <2>1, <2>2
<1>20. /\ u \in Seq(Tagged)
       /\ \A k \in 1 .. Len(u) : \/ k \in 1 .. Len(s) /\ u[k] = s[k]
                                 \/ k > Len(s) /\ u[k].n = i
  BY <1>2, <1>5, <1>19, Zenon
<1> QED BY <1>1, <1>4, <1>11, <1>17, <1>18, <1>20, Zenon

Record == [main : BOOLEAN, m : Message]

LEMMA NewIs == New = Now(10, << >>)
BY DEF New, Now

LEMMA PrintedAllNone == \A switch, N : PrintedAll(switch, << >>, N) = Now(10, << >>)
<1> SUFFICES ASSUME NEW switch, NEW N PROVE PrintedAll(switch, << >>, N) = Now(10, << >>)
  OBVIOUS
<1>1. PICK f : f = PrintedFn(switch, << >>, N, 0)
  OBVIOUS
<1>2. f[0] = New
  BY <1>1, PrintedIs
<1>3. PrintedAll(switch, << >>, N) = PrintedFn(switch, << >>, N, Len(<< >>))[Len(<< >>)]
  BY PrintedAllIs, Zenon
<1>4. Len(<< >>) = 0
  OBVIOUS
<1> QED BY <1>1, <1>2, <1>3, <1>4, NewIs, Zenon

(* One more message: it is printed behind the others, if its number counts.*)
LEMMA PrintedAllAppend ==
  ASSUME NEW switch, NEW ms \in Seq(Record), NEW e \in Record, NEW M, NEW N,
         \A k \in 1 .. Len(ms) : k \in M <=> k \in N
  PROVE  PrintedAll(switch, Append(ms, e), N) =
           IF Len(ms) + 1 \in N THEN PrintNext(switch, PrintedAll(switch, ms, M), e.m)
                                ELSE PrintedAll(switch, ms, M)
<1>1. PICK n \in Nat : n = Len(ms)
  OBVIOUS
<1>2. PICK ns : ns = Append(ms, e)
  OBVIOUS
<1>3. Len(ns) = n + 1 /\ ns[n + 1] = e /\ \A k \in 1 .. n : ns[k] = ms[k]
  BY <1>1, <1>2, AppendProperties
<1>4. PICK f : f = PrintedFn(switch, ns, N, n + 1)
  OBVIOUS
<1>5. PICK g : g = PrintedFn(switch, ms, M, n)
  OBVIOUS
<1>6. f[0] = New /\ \A k \in 1 .. n + 1 : f[k] = PrintNth(switch, f[k - 1], ns, k, N)
  BY <1>4, PrintedIs
<1>7. g[0] = New /\ \A k \in 1 .. n : g[k] = PrintNth(switch, g[k - 1], ms, k, M)
  BY <1>5, PrintedIs
<1> DEFINE T == {k \in Nat : k <= n => f[k] = g[k]}
<1>8. 0 \in T
  BY <1>6, <1>7
<1>9. ASSUME NEW k \in Nat, k \in T PROVE k + 1 \in T
  <2> SUFFICES ASSUME k + 1 <= n PROVE f[k + 1] = g[k + 1]
    OBVIOUS
  <2>1. k <= n /\ k + 1 \in 1 .. n /\ k + 1 \in 1 .. n + 1 /\ (k + 1) - 1 = k
    OBVIOUS
  <2>2. f[k] = g[k] /\ ns[k + 1] = ms[k + 1] /\ (k + 1 \in M <=> k + 1 \in N)
    BY <1>1, <1>3, <1>9, <2>1
  <2>3. /\ f[k + 1] = PrintNth(switch, f[k], ns, k + 1, N)
        /\ g[k + 1] = PrintNth(switch, g[k], ms, k + 1, M)
    BY <1>6, <1>7, <2>1
  <2>4. CASE k + 1 \in N
    BY <2>2, <2>3, <2>4, Zenon DEF PrintNth
  <2>5. CASE k + 1 \notin N
    BY <2>2, <2>3, <2>5, Zenon DEF PrintNth
  <2> QED BY <2>4, <2>5
<1> HIDE DEF T
<1>10. f[n] = g[n]
  <2>1. n \in T
    BY <1>8, <1>9, Induction
  <2> QED BY <2>1 DEF T
<1>11. PrintedAll(switch, ns, N) = f[n + 1] /\ PrintedAll(switch, ms, M) = g[n]
  BY <1>1, <1>3, <1>4, <1>5, PrintedAllIs, Zenon
<1>12. f[n + 1] = PrintNth(switch, g[n], ns, n + 1, N)
  <2>1. n + 1 \in 1 .. n + 1 /\ (n + 1) - 1 = n
    OBVIOUS
  <2> QED BY <1>6, <1>10, <2>1
<1>13. CASE n + 1 \in N
  BY <1>1, <1>2, <1>3, <1>11, <1>12, <1>13, Zenon DEF PrintNth
<1>14. CASE n + 1 \notin N
  BY <1>1, <1>2, <1>3, <1>11, <1>12, <1>14, Zenon DEF PrintNth
<1> QED BY <1>13, <1>14

-----------------------------------------------------------------------------
(***************************************************************************)
(* Arithmetic of the digits: v is b * w * q + w * d + e.                   *)
(***************************************************************************)
LEMMA Division ==
  ASSUME NEW v \in Nat, NEW a \in Nat \ {0}, NEW q \in Nat, NEW r \in Nat, v = a * q + r, r < a
  PROVE  v \div a = q /\ v % a = r
<1>1. v \div a \in Nat /\ v % a \in Nat /\ v % a < a /\ v = a * (v \div a) + (v % a)
  OBVIOUS
<1>2. PICK k \in Nat, s \in Nat : k = v \div a /\ s = v % a
  BY <1>1
<1>3. a * k + s = a * q + r /\ s < a
  BY <1>1, <1>2
<1>4. ~ k < q
  <2> SUFFICES ASSUME k < q PROVE FALSE
    OBVIOUS
  <2>1. PICK i \in Nat : q = k + 1 + i
    <3>1. q - k - 1 \in Nat /\ q = k + 1 + (q - k - 1)
      OBVIOUS
    <3> QED BY <3>1
  <2>2. a * q = a * k + a + a * i /\ a * i \in Nat /\ a * k \in Nat
    BY <2>1
  <2> QED BY <1>3, <2>2
<1>5. ~ q < k
  <2> SUFFICES ASSUME q < k PROVE FALSE
    OBVIOUS
  <2>1. PICK i \in Nat : k = q + 1 + i
    <3>1. k - q - 1 \in Nat /\ k = q + 1 + (k - q - 1)
      OBVIOUS
    <3> QED BY <3>1
  <2>2. a * k = a * q + a + a * i /\ a * i \in Nat /\ a * q \in Nat
    BY <2>1
  <2> QED BY <1>3, <2>2
<1>6. k = q
  BY <1>4, <1>5
<1>7. a * k = a * q /\ a * q \in Nat
  BY <1>6
<1>8. s = r
  BY <1>3, <1>7
<1> QED BY <1>2, <1>6, <1>8

Digit1(v, b, w) ==
  /\ b * w \in Nat /\ b * w >= 1 /\ v \div (b * w) \in Nat /\ v % (b * w) \in Nat
  /\ v \div w \in Nat /\ v % w \in Nat /\ v % w < w
  /\ (v \div w) \div b = v \div (b * w)
  /\ (v % (b * w)) \div w = (v \div w) % b
  /\ (v % (b * w)) - w * ((v % (b * w)) \div w) = v % w
  /\ v < b * w => v % (b * w) = v /\ v \div w < b
  /\ v >= b * w => v \div w >= b

LEMMA Digit1Is ==
  ASSUME NEW v \in Nat, NEW b \in Nat, b >= 2, NEW w \in Nat, w >= 1
  PROVE  Digit1(v, b, w)
<1>1. b * w \in Nat \ {0} /\ b * w >= 1
  <2>1. b * w >= 1
    BY SMTT(20)
  <2> QED BY <2>1
<1>2. PICK q \in Nat, r \in Nat : q = v \div (b * w) /\ r = v % (b * w)
  BY <1>1
<1>3. v = (b * w) * q + r /\ r < b * w
  BY <1>1, <1>2
<1>4. PICK d \in Nat, e \in Nat : d = r \div w /\ e = r % w
  OBVIOUS
<1>5. r = w * d + e /\ e < w
  BY <1>4
<1>6. d < b
  <2> SUFFICES ASSUME d >= b PROVE FALSE
    OBVIOUS
  <2>1. w * d >= w * b
    BY SMTT(20)
  <2>2. w * b = b * w /\ w * d \in Nat
    OBVIOUS
  <2> QED BY <1>1, <1>3, <1>5, <2>1, <2>2
<1>7. v = w * (b * q + d) + e /\ b * q + d \in Nat
  BY <1>3, <1>5
<1>8. v \div w = b * q + d /\ v % w = e
  BY <1>5, <1>7, Division
<1>9. (v \div w) \div b = q /\ (v \div w) % b = d
  BY <1>6, <1>8, Division
<1>10. r - w * d = e
  BY <1>5
<1>11. ASSUME v < b * w PROVE r = v /\ v \div w < b
  <2>1. v = (b * w) * 0 + v
    BY <1>1
  <2>2. q = 0 /\ r = v
    BY <1>1, <1>2, <1>11, <2>1, Division
  <2> QED BY <1>6, <1>8, <2>2
<1>12. ASSUME v >= b * w PROVE v \div w >= b
  <2>1. q # 0
    BY <1>1, <1>3, <1>12
  <2>2. b * q >= b
    BY <2>1, SMTT(20)
  <2> QED BY <1>8, <2>2
<1>13. v \div w \in Nat /\ v % w \in Nat /\ v % w < w
  BY <1>5, <1>7, <1>8
<1>14. /\ (v \div w) \div b = v \div (b * w)
       /\ (v % (b * w)) \div w = (v \div w) % b
       /\ (v % (b * w)) - w * ((v % (b * w)) \div w) = v % w
  BY <1>2, <1>4, <1>8, <1>9, <1>10, Zenon
<1>15. v < b * w => v % (b * w) = v /\ v \div w < b
  BY <1>2, <1>11, Zenon
<1>16. v \div (b * w) \in Nat /\ v % (b * w) \in Nat /\ b * w \in Nat
  BY <1>1, <1>2, Zenon
<1> QED BY <1>1, <1>12, <1>13, <1>14, <1>15, <1>16, Zenon DEF Digit1

LEMMA OneDigit ==
  ASSUME NEW v \in Nat, NEW b \in Nat, b >= 2, NEW w \in Nat, w >= 1
  PROVE  /\ b * w \in Nat /\ b * w >= 1 /\ v \div (b * w) \in Nat /\ v % (b * w) \in Nat
         /\ v \div w \in Nat /\ v % w \in Nat /\ v % w < w
         /\ (v \div w) \div b = v \div (b * w)
         /\ (v % (b * w)) \div w = (v \div w) % b
         /\ (v % (b * w)) - w * ((v % (b * w)) \div w) = v % w
         /\ v < b * w => v % (b * w) = v /\ v \div w < b
         /\ v >= b * w => v \div w >= b
BY Digit1Is DEF Digit1

LEMMA NoDigit ==
  ASSUME NEW v \in Nat, NEW b \in Nat, b >= 2, NEW w \in Nat, w >= 1, v < b * w
  PROVE  v % (b * w) = v
BY OneDigit

-----------------------------------------------------------------------------
(***************************************************************************)
(* The invariant.  It holds while a handler comes in anywhere.             *)
(***************************************************************************)
Printing == {"prefix", "scale", "digit"}

TypeInv ==
  /\ use \in Uses /\ constructed \in BOOLEAN /\ mine \in Nat
  /\ emitted \in Seq(Record) /\ items \in Seq(Item)
  /\ pc \in {"idle", "instance", "zero", "OutputStream", "OutputLevel", "constructed", "level",
             "item", "text", "base", "int", "ptr", "ptrBase", "ptrEnd"} \cup Printing
  /\ base \in Bases \cup {0} /\ ival \in 0 .. Modulus - 1 /\ div \in Nat

LineInv == line \in Seq(Tagged) /\ \A k \in 1 .. Len(line) : line[k].n \in 1 .. Len(emitted)

MineInv ==
  pc # "idle" => /\ mine \in 1 .. Len(emitted) /\ emitted[mine].main
                 /\ \E j \in 1 .. Len(use.Main) : emitted[mine].m = use.Main[j]

ItemInv ==
  /\ pc \in {"text", "base", "int", "ptr"} => items # << >> /\ Head(items).kind = pc
  /\ pc \in {"ptrBase", "ptrEnd"} => items # << >> /\ Head(items).kind = "ptr"
  /\ pc \in Printing => items # << >> /\ Head(items).kind \in {"int", "ptr"}
  /\ pc \in {"scale", "digit"} => div >= 1
  /\ pc \in {"ptrBase", "ptrEnd"} \cup Printing /\ Head(items).kind = "ptr" => oldbase \in Bases

(* What is constructed when.  A handler may find the flag of an object set *)
(* that is not, if the build has not kept the order, or if it zeroes what  *)
(* another handler has constructed meanwhile.                              *)
ObjectInv ==
  /\ pc \notin {"idle", "instance", "zero", "OutputStream", "OutputLevel", "constructed"} =>
       constructed
  /\ pc = "zero" => use.Zeroed
  /\ Sound(use) /\ constructed => level = Switched /\ base \in Bases
  /\ pc \notin {"zero", "OutputStream", "OutputLevel"} /\ (constructed \/ pc = "constructed") =>
       level = Switched
  /\ pc \notin {"zero", "OutputStream"} /\ (constructed \/ pc \in {"OutputLevel", "constructed"}) =>
       base \in Bases

StateInv == TypeInv /\ MineInv /\ ItemInv /\ ObjectInv

(* Main's message is to be printed; the object lets through what it is     *)
(* sent now.                                                               *)
On     == allowed(use.Switch, Switched, emitted[mine].m.level)
Allows == allowed(use.Switch, Switched, current)

(* The base that the next message finds.                                   *)
BaseOf == IF constructed THEN base ELSE 10

Finish(s) == IF On THEN PrintItems(s, items) ELSE s

(* When the first item is printed and o put, the others lead to T.         *)
Rest(o, T) ==
  /\ T = PrintItems(Now(IF Head(items).kind = "ptr" THEN oldbase ELSE base, o), Tail(items))
  /\ Head(items).kind = "ptr" => base = 16

(* The digits of v down to the power behind div have been put behind out.  *)
Halfway(o, T, v, out) ==
  /\ div = 1 \/ div <= v
  /\ ival = v % (base * div)
  /\ o = IF v < base * div THEN out ELSE out \o Digits(v \div (base * div), base)
  /\ Rest(out \o Digits(v, base), T)

(* o has been put of T, what is put when main's message is finished: what  *)
(* main is going to put at each place makes up the difference.             *)
Core(o, T) ==
  \/ pc = "idle" /\ T = Now(BaseOf, o)
  \/ pc = "instance" /\ T = Finish(Now(BaseOf, o))
  \/ pc \in {"zero", "OutputStream"} /\ T = Finish(Now(10, o))
  \/ pc \in {"OutputLevel", "constructed"} /\ base = 10 /\ T = Finish(Now(10, o))
  \/ pc = "level" /\ T = Finish(Now(base, o))
  \/ pc = "item" /\ (On <=> Allows) /\ T = Finish(Now(base, o))
  \/ /\ On /\ Allows
     /\ \/ pc \in {"text", "base", "int", "ptr"} /\ T = PrintItems(Now(base, o), items)
        \/ pc = "ptrBase" /\ oldbase = base /\ T = PrintItems(Now(base, o), items)
        \/ pc = "prefix" /\ Rest(o \o Numeral(ival, base), T)
        \/ pc = "scale" /\ Power(div, base) /\ (div = 1 \/ div <= ival)
             /\ Rest(o \o Digits(ival, base), T)
        \/ pc = "digit" /\ Power(div, base)
             /\ \E v \in 0 .. Modulus - 1, out \in Seq(Char) : Halfway(o, T, v, out)
        \/ pc = "ptrEnd" /\ Rest(o, T)

(* The numbers of main's messages.                                         *)
Own == {n \in DOMAIN emitted : emitted[n].main}

(* What a handler that is done has put stays; with a lock, what all have   *)
(* put is what they show but for the rest of main's message; without, what *)
(* main has put, if the handlers are unobtrusive.                          *)
CompleteInv ==
  \A n \in 1 .. Len(emitted) :
    (use.Locked \/ Sound(use)) /\ ~ emitted[n].main
        /\ allowed(use.Switch, Switched, emitted[n].m.level) /\ OwnBase(emitted[n].m) =>
      Chars(line, {n}) = Printed(10, emitted[n].m).out

LockedInv ==
  use.Locked =>
    \A N, o, T : N = DOMAIN emitted /\ o = Chars(line, N)
                   /\ T = PrintedAll(use.Switch, emitted, N) => Core(o, T)

OwnInv ==
  Unobtrusive =>
    \A N, o, T : N = Own /\ o = Chars(line, N)
                   /\ T = PrintedAll(use.Switch, emitted, N) => Core(o, T)

IInv == StateInv /\ LineInv /\ CompleteInv /\ LockedInv /\ OwnInv

(* What a step of main does: it puts s, and o of T becomes o \o s.         *)
Step(s) ==
  /\ UNCHANGED <<use, emitted, mine>> /\ pc # "idle"
  /\ StateInv'
  /\ line' = line \o Tags(s, mine)
  /\ \A o \in Seq(Char) : \A T : Core(o, T) => Core(o \o s, T)'

LEMMA Nothing ==
  ASSUME LineInv, NEW n
  PROVE  /\ line \o Tags(<< >>, n) = line /\ << >> \in Seq(Char)
         /\ \A o \in Seq(Char) : o \o << >> = o
<1>1. Tags(<< >>, n) = << >>
  BY DEF Tags
<1>2. line \in Seq(Tagged)
  BY DEF LineInv
<1> QED BY <1>1, <1>2, ConcatEmptySeq, EmptySeq

LEMMA Puts ==
  ASSUME NEW s, put(s)
  PROVE  line' = line \o Tags(s, mine)
BY DEF put, Tags

LEMMA SameMessage ==
  ASSUME UNCHANGED <<use, emitted, mine>>
  PROVE  /\ On' <=> On
         /\ current' = current => (Allows' <=> Allows)
         /\ MineInv /\ pc # "idle" => MineInv'
<1>1. On' <=> On
  BY Zenon DEF On, allowed
<1>2. ASSUME current' = current PROVE Allows' <=> Allows
  BY <1>2, Zenon DEF Allows, allowed
<1>3. MineInv /\ pc # "idle" => MineInv'
  BY Zenon DEF MineInv
<1> QED BY <1>1, <1>2, <1>3, Zenon

LEMMA InstanceStep == ASSUME StateInv, LineInv, instance PROVE Step(<< >>)
<1>1. /\ UNCHANGED <<base, level, current, line, use, emitted, mine, items, print>>
      /\ pc = "instance"
      /\ pc' = IF constructed THEN "level" ELSE IF use.Zeroed THEN "zero" ELSE "OutputStream"
      /\ constructed' = (constructed \/ ~ use.Ordered)
  BY DEF instance
<1>2. StateInv'
  <2>1. TypeInv'
    <3>1. constructed' \in BOOLEAN /\ pc' \in {"level", "zero", "OutputStream"}
      BY <1>1
    <3> QED BY <1>1, <3>1 DEF StateInv, TypeInv, print
  <2>2. MineInv'
    BY <1>1, Zenon DEF StateInv, MineInv
  <2>3. ItemInv'
    BY <1>1 DEF ItemInv, Printing
  <2>4. ObjectInv'
    BY <1>1 DEF StateInv, ObjectInv, TypeInv, Sound
  <2> QED BY <2>1, <2>2, <2>3, <2>4 DEF StateInv
<1>3. ASSUME NEW o \in Seq(Char), NEW T, Core(o, T) PROVE Core(o, T)'
  <2>1. T = Finish(Now(BaseOf, o))
    BY <1>1, <1>3 DEF Core
  <2>2. \A s : Finish(s)' = Finish(s)
    BY <1>1, SameMessage, Zenon DEF Finish
  <2>3. CASE constructed
    BY <1>1, <2>1, <2>2, <2>3 DEF Core, BaseOf
  <2>4. CASE ~ constructed
    BY <1>1, <2>1, <2>2, <2>4 DEF Core, BaseOf
  <2> QED BY <2>3, <2>4
<1> QED BY <1>1, <1>2, <1>3, Nothing DEF Step

LEMMA ZeroStep == ASSUME StateInv, LineInv, zero PROVE Step(<< >>)
<1>1. /\ UNCHANGED <<constructed, line, use, emitted, mine, items, print>>
      /\ pc = "zero" /\ pc' = "OutputStream" /\ base' = 0 /\ level' = {}
  BY DEF zero
<1>2. StateInv'
  <2>1. TypeInv'
    BY <1>1 DEF StateInv, TypeInv, print, Bases
  <2>2. MineInv'
    BY <1>1, Zenon DEF StateInv, MineInv
  <2>3. ItemInv'
    BY <1>1 DEF ItemInv, Printing
  <2>4. ObjectInv'
    BY <1>1 DEF StateInv, ObjectInv, Sound
  <2> QED BY <2>1, <2>2, <2>3, <2>4 DEF StateInv
<1>3. ASSUME NEW o \in Seq(Char), NEW T, Core(o, T) PROVE Core(o, T)'
  <2>1. T = Finish(Now(10, o))
    BY <1>1, <1>3 DEF Core
  <2>2. \A s : Finish(s)' = Finish(s)
    BY <1>1, SameMessage, Zenon DEF Finish
  <2> QED BY <1>1, <2>1, <2>2 DEF Core
<1> QED BY <1>1, <1>2, <1>3, Nothing DEF Step

LEMMA OutputStreamStep == ASSUME StateInv, LineInv, OutputStream PROVE Step(<< >>)
<1>1. /\ UNCHANGED <<constructed, level, current, line, use, emitted, mine, items, print>>
      /\ pc = "OutputStream" /\ pc' = "OutputLevel" /\ base' = 10
  BY DEF OutputStream
<1>2. StateInv'
  <2>1. TypeInv'
    BY <1>1 DEF StateInv, TypeInv, print, Bases
  <2>2. MineInv'
    BY <1>1, Zenon DEF StateInv, MineInv
  <2>3. ItemInv'
    BY <1>1 DEF ItemInv, Printing
  <2>4. ObjectInv'
    BY <1>1 DEF StateInv, ObjectInv, TypeInv, Bases
  <2> QED BY <2>1, <2>2, <2>3, <2>4 DEF StateInv
<1>3. ASSUME NEW o \in Seq(Char), NEW T, Core(o, T) PROVE Core(o, T)'
  <2>1. T = Finish(Now(10, o))
    BY <1>1, <1>3 DEF Core
  <2>2. \A s : Finish(s)' = Finish(s)
    BY <1>1, SameMessage, Zenon DEF Finish
  <2> QED BY <1>1, <2>1, <2>2 DEF Core
<1> QED BY <1>1, <1>2, <1>3, Nothing DEF Step

LEMMA OutputLevelStep == ASSUME StateInv, LineInv, OutputLevel PROVE Step(<< >>)
<1>1. /\ UNCHANGED <<constructed, base, line, use, emitted, mine, items, print>>
      /\ pc = "OutputLevel" /\ pc' = "constructed" /\ level' = Switched
  BY DEF OutputLevel
<1>2. StateInv'
  <2>1. TypeInv'
    BY <1>1 DEF StateInv, TypeInv, print
  <2>2. MineInv'
    BY <1>1, Zenon DEF StateInv, MineInv
  <2>3. ItemInv'
    BY <1>1 DEF ItemInv, Printing
  <2>4. ObjectInv'
    BY <1>1 DEF StateInv, ObjectInv, TypeInv
  <2> QED BY <2>1, <2>2, <2>3, <2>4 DEF StateInv
<1>3. ASSUME NEW o \in Seq(Char), NEW T, Core(o, T) PROVE Core(o, T)'
  <2>1. base = 10 /\ T = Finish(Now(10, o))
    BY <1>1, <1>3 DEF Core
  <2>2. \A s : Finish(s)' = Finish(s)
    BY <1>1, SameMessage, Zenon DEF Finish
  <2> QED BY <1>1, <2>1, <2>2 DEF Core
<1> QED BY <1>1, <1>2, <1>3, Nothing DEF Step

LEMMA SetConstructedStep == ASSUME StateInv, LineInv, setConstructed PROVE Step(<< >>)
<1>1. /\ UNCHANGED <<base, level, current, line, use, emitted, mine, items, print>>
      /\ pc = "constructed" /\ pc' = "level" /\ constructed' = TRUE
  BY DEF setConstructed
<1>2. StateInv'
  <2>1. TypeInv'
    BY <1>1 DEF StateInv, TypeInv, print
  <2>2. MineInv'
    BY <1>1, Zenon DEF StateInv, MineInv
  <2>3. ItemInv'
    BY <1>1 DEF ItemInv, Printing
  <2>4. ObjectInv'
    BY <1>1 DEF StateInv, ObjectInv, TypeInv
  <2> QED BY <2>1, <2>2, <2>3, <2>4 DEF StateInv
<1>3. ASSUME NEW o \in Seq(Char), NEW T, Core(o, T) PROVE Core(o, T)'
  <2>1. base = 10 /\ T = Finish(Now(10, o))
    BY <1>1, <1>3 DEF Core
  <2>2. \A s : Finish(s)' = Finish(s)
    BY <1>1, SameMessage, Zenon DEF Finish
  <2> QED BY <1>1, <2>1, <2>2 DEF Core
<1> QED BY <1>1, <1>2, <1>3, Nothing DEF Step

LEMMA SetLevelStep == ASSUME StateInv, LineInv, setLevel PROVE Step(<< >>)
<1>1. /\ UNCHANGED <<constructed, base, level, line, use, emitted, mine, items, print>>
      /\ pc = "level" /\ pc' = "item" /\ current' = emitted[mine].m.level
  BY DEF setLevel
<1>2. StateInv'
  <2>1. TypeInv'
    BY <1>1 DEF StateInv, TypeInv, print
  <2>2. MineInv'
    BY <1>1, Zenon DEF StateInv, MineInv
  <2>3. ItemInv'
    BY <1>1 DEF ItemInv, Printing
  <2>4. ObjectInv'
    BY <1>1 DEF StateInv, ObjectInv, TypeInv
  <2> QED BY <2>1, <2>2, <2>3, <2>4 DEF StateInv
<1>3. ASSUME NEW o \in Seq(Char), NEW T, Core(o, T) PROVE Core(o, T)'
  <2>1. T = Finish(Now(base, o))
    BY <1>1, <1>3 DEF Core
  <2>2. \A s : Finish(s)' = Finish(s)
    BY <1>1, SameMessage, Zenon DEF Finish
  <2>3. On' <=> Allows'
    BY <1>1, Zenon DEF On, Allows
  <2> QED BY <1>1, <2>1, <2>2, <2>3 DEF Core
<1> QED BY <1>1, <1>2, <1>3, Nothing DEF Step

LEMMA HeadTail ==
  ASSUME NEW xs \in Seq(Item), xs # << >>
  PROVE  Head(xs) \in Item /\ Tail(xs) \in Seq(Item)
BY HeadTailProperties

LEMMA ItemStep == ASSUME StateInv, LineInv, item PROVE Step(<< >>)
<1>1. /\ UNCHANGED <<object, line, use, emitted, mine, print>> /\ pc = "item"
      /\ \/ items = << >> /\ pc' = "idle" /\ UNCHANGED items
         \/ items # << >> /\ ~ allowed(use.Switch, level, current)
            /\ items' = Tail(items) /\ UNCHANGED pc
         \/ items # << >> /\ allowed(use.Switch, level, current)
            /\ pc' = Head(items).kind /\ UNCHANGED items
  BY DEF item
<1>2. items \in Seq(Item) /\ (items # << >> => Head(items) \in Item /\ Tail(items) \in Seq(Item))
  BY HeadTail DEF StateInv, TypeInv
<1>3. pc' \in {"idle", "item", "text", "base", "int", "ptr"}
  BY <1>1, <1>2, ItemType
<1>4. level = Switched /\ constructed /\ base \in Bases
  BY <1>1 DEF StateInv, ObjectInv
<1>5. StateInv'
  <2>1. TypeInv'
    BY <1>1, <1>2, <1>3 DEF StateInv, TypeInv, object, print
  <2>2. MineInv'
    BY <1>1, Zenon DEF StateInv, MineInv
  <2>3. ItemInv'
    BY <1>1, <1>3 DEF ItemInv, Printing
  <2>4. ObjectInv'
    BY <1>1, <1>3, <1>4 DEF StateInv, ObjectInv, TypeInv, object
  <2> QED BY <2>1, <2>2, <2>3, <2>4 DEF StateInv
<1>6. ASSUME NEW o \in Seq(Char), NEW T, Core(o, T) PROVE Core(o, T)'
  <2>1. (On <=> Allows) /\ T = Finish(Now(base, o))
    BY <1>1, <1>6 DEF Core
  <2>2. Allows <=> allowed(use.Switch, level, current)
    BY <1>4, Zenon DEF Allows
  <2>3. (On' <=> On) /\ (Allows' <=> Allows) /\ base' = base /\ constructed' = constructed
    BY <1>1, SameMessage DEF object
  <2>4. \A s : Finish(s)' = IF On THEN PrintItems(s, items') ELSE s
    BY <2>3, Zenon DEF Finish
  <2>5. CASE items = << >> /\ pc' = "idle" /\ UNCHANGED items
    <3>1. T = Now(base, o)
      BY <2>1, <2>5, PrintNone, Zenon DEF Finish
    <3> QED BY <1>4, <2>3, <2>5, <3>1 DEF Core, BaseOf
  <2>6. CASE items # << >> /\ ~ allowed(use.Switch, level, current)
            /\ items' = Tail(items) /\ UNCHANGED pc
    <3>1. ~ On
      BY <2>1, <2>2, <2>6
    <3>2. T = Now(base, o)
      BY <2>1, <3>1, Zenon DEF Finish
    <3>3. T = Finish(Now(base, o))'
      BY <2>3, <3>1, <3>2, Zenon DEF Finish
    <3> QED BY <1>1, <2>1, <2>3, <2>6, <3>3 DEF Core
  <2>7. CASE items # << >> /\ allowed(use.Switch, level, current)
            /\ pc' = Head(items).kind /\ UNCHANGED items
    <3>1. On /\ Allows
      BY <2>1, <2>2, <2>7
    <3>2. T = PrintItems(Now(base, o), items)
      BY <2>1, <3>1, Zenon DEF Finish
    <3>3. pc' \in {"text", "base", "int", "ptr"}
      BY <1>2, <2>7, ItemType
    <3> QED BY <2>3, <2>7, <3>1, <3>2, <3>3 DEF Core
  <2> QED BY <1>1, <2>5, <2>6, <2>7
<1> QED BY <1>1, <1>5, <1>6, Nothing DEF Step

(* The first item is printed: what has been put and what is left of it.    *)
LEMMA FirstItem ==
  ASSUME NEW xs \in Seq(Item), xs # << >>, NEW b, NEW o
  PROVE  LET x == Head(xs)
             t == Tail(xs)
         IN  /\ x.kind = "text" => PrintItems(Now(b, o), xs) = PrintItems(Now(b, o \o x.text), t)
             /\ x.kind = "base" => PrintItems(Now(b, o), xs) = PrintItems(Now(x.n, o), t)
             /\ x.kind = "int"  => PrintItems(Now(b, o), xs) =
                  PrintItems(Now(b, (o \o Sign(x.n)) \o Numeral(magnitude(x.n), b)), t)
             /\ x.kind = "ptr"  => PrintItems(Now(b, o), xs) =
                  PrintItems(Now(b, o \o Numeral(x.n, 16)), t)
<1>1. PICK x, t : x = Head(xs) /\ t = Tail(xs)
  OBVIOUS
<1>2. PrintItems(Now(b, o), xs) = PrintItems(PrintItem(Now(b, o), x), t)
  BY <1>1, PrintHead
<1>3. /\ x.kind = "text" => PrintItem(Now(b, o), x) = Now(b, o \o x.text)
      /\ x.kind = "base" => PrintItem(Now(b, o), x) = Now(x.n, o)
      /\ x.kind = "int"  =>
           PrintItem(Now(b, o), x) = Now(b, (o \o Sign(x.n)) \o Numeral(magnitude(x.n), b))
      /\ x.kind = "ptr"  => PrintItem(Now(b, o), x) = Now(b, o \o Numeral(x.n, 16))
  BY PrintItemIs
<1> QED BY <1>1, <1>2, <1>3, Zenon

LEMMA SetBaseStep == ASSUME StateInv, LineInv, setBase PROVE Step(<< >>)
<1>1. /\ UNCHANGED <<constructed, level, current, line, use, emitted, mine, print>>
      /\ pc = "base" /\ pc' = "item" /\ base' = Head(items).n /\ items' = Tail(items)
  BY DEF setBase
<1>2. items # << >> /\ Head(items).kind = "base" /\ items \in Seq(Item)
  BY <1>1 DEF StateInv, ItemInv, TypeInv
<1>3. Tail(items) \in Seq(Item) /\ Head(items).n \in Bases
  BY <1>2, HeadTail, ItemType
<1>4. StateInv'
  <2>1. TypeInv'
    BY <1>1, <1>3 DEF StateInv, TypeInv, print
  <2>2. MineInv'
    BY <1>1, Zenon DEF StateInv, MineInv
  <2>3. ItemInv'
    BY <1>1 DEF ItemInv, Printing
  <2>4. ObjectInv'
    BY <1>1, <1>3 DEF StateInv, ObjectInv, TypeInv
  <2> QED BY <2>1, <2>2, <2>3, <2>4 DEF StateInv
<1>5. ASSUME NEW o \in Seq(Char), NEW T, Core(o, T) PROVE Core(o, T)'
  <2>1. On /\ Allows /\ T = PrintItems(Now(base, o), items)
    BY <1>1, <1>5 DEF Core
  <2>2. On' /\ Allows'
    BY <1>1, <2>1, SameMessage
  <2>3. T = PrintItems(Now(base', o), items')
    BY <1>1, <1>2, <2>1, FirstItem, Zenon
  <2>4. T = Finish(Now(base, o))'
    BY <2>2, <2>3, Zenon DEF Finish
  <2> QED BY <1>1, <2>2, <2>4 DEF Core
<1> QED BY <1>1, <1>4, <1>5, Nothing DEF Step

LEMMA PtrStep == ASSUME StateInv, LineInv, ptr PROVE Step(<< >>)
<1>1. /\ UNCHANGED <<object, line, use, emitted, mine, items, ival, div>>
      /\ pc = "ptr" /\ pc' = "ptrBase" /\ oldbase' = base
  BY DEF ptr
<1>2. items # << >> /\ Head(items).kind = "ptr" /\ base \in Bases
  BY <1>1 DEF StateInv, ItemInv, ObjectInv
<1>3. StateInv'
  <2>1. TypeInv'
    BY <1>1 DEF StateInv, TypeInv, object
  <2>2. MineInv'
    BY <1>1, Zenon DEF StateInv, MineInv
  <2>3. ItemInv'
    BY <1>1, <1>2 DEF ItemInv, Printing
  <2>4. ObjectInv'
    BY <1>1 DEF StateInv, ObjectInv, TypeInv, object
  <2> QED BY <2>1, <2>2, <2>3, <2>4 DEF StateInv
<1>4. ASSUME NEW o \in Seq(Char), NEW T, Core(o, T) PROVE Core(o, T)'
  <2>1. On /\ Allows /\ T = PrintItems(Now(base, o), items)
    BY <1>1, <1>4 DEF Core
  <2>2. On' /\ Allows' /\ base' = base
    BY <1>1, <2>1, SameMessage DEF object
  <2> QED BY <1>1, <2>1, <2>2 DEF Core
<1> QED BY <1>1, <1>3, <1>4, Nothing DEF Step

LEMMA PtrBaseStep == ASSUME StateInv, LineInv, ptrBase PROVE Step(<< >>)
<1>1. /\ UNCHANGED <<constructed, level, current, line, use, emitted, mine, items, div, oldbase>>
      /\ pc = "ptrBase" /\ pc' = "prefix" /\ base' = 16 /\ ival' = Head(items).n
  BY DEF ptrBase
<1>2. items # << >> /\ Head(items).kind = "ptr" /\ items \in Seq(Item) /\ oldbase \in Bases
  BY <1>1 DEF StateInv, ItemInv, TypeInv
<1>3. Head(items).n \in 0 .. Modulus - 1 /\ 16 \in Bases
  BY <1>2, HeadTail, ItemType DEF Bases
<1>4. StateInv'
  <2>1. TypeInv'
    BY <1>1, <1>3 DEF StateInv, TypeInv, Printing
  <2>2. MineInv'
    BY <1>1, Zenon DEF StateInv, MineInv
  <2>3. ItemInv'
    BY <1>1, <1>2 DEF ItemInv, Printing
  <2>4. ObjectInv'
    BY <1>1, <1>3 DEF StateInv, ObjectInv, TypeInv
  <2> QED BY <2>1, <2>2, <2>3, <2>4 DEF StateInv
<1>5. ASSUME NEW o \in Seq(Char), NEW T, Core(o, T) PROVE Core(o, T)'
  <2>1. On /\ Allows /\ oldbase = base /\ T = PrintItems(Now(base, o), items)
    BY <1>1, <1>5 DEF Core
  <2>2. On' /\ Allows'
    BY <1>1, <2>1, SameMessage
  <2>3. T = PrintItems(Now(oldbase, o \o Numeral(ival', base')), Tail(items))
    <3>1. PrintItems(Now(base, o), items)
            = PrintItems(Now(base, o \o Numeral(Head(items).n, 16)), Tail(items))
      BY <1>2, FirstItem, ZenonT(30)
    <3> QED BY <1>1, <2>1, <3>1, Zenon
  <2>4. Rest(o \o Numeral(ival, base), T)'
    BY <1>1, <1>2, <2>3, Zenon DEF Rest
  <2> QED BY <1>1, <2>2, <2>4 DEF Core
<1> QED BY <1>1, <1>4, <1>5, Nothing DEF Step

LEMMA PtrEndStep == ASSUME StateInv, LineInv, ptrEnd PROVE Step(<< >>)
<1>1. /\ UNCHANGED <<constructed, level, current, line, use, emitted, mine, print>>
      /\ pc = "ptrEnd" /\ pc' = "item" /\ base' = oldbase /\ items' = Tail(items)
  BY DEF ptrEnd
<1>2. items # << >> /\ Head(items).kind = "ptr" /\ items \in Seq(Item) /\ oldbase \in Bases
  BY <1>1 DEF StateInv, ItemInv, TypeInv
<1>3. Tail(items) \in Seq(Item)
  BY <1>2, HeadTail
<1>4. StateInv'
  <2>1. TypeInv'
    BY <1>1, <1>2, <1>3 DEF StateInv, TypeInv, print
  <2>2. MineInv'
    BY <1>1, Zenon DEF StateInv, MineInv
  <2>3. ItemInv'
    BY <1>1 DEF ItemInv, Printing
  <2>4. ObjectInv'
    BY <1>1, <1>2 DEF StateInv, ObjectInv, TypeInv
  <2> QED BY <2>1, <2>2, <2>3, <2>4 DEF StateInv
<1>5. ASSUME NEW o \in Seq(Char), NEW T, Core(o, T) PROVE Core(o, T)'
  <2>1. On /\ Allows /\ Rest(o, T)
    BY <1>1, <1>5 DEF Core
  <2>2. On' /\ Allows'
    BY <1>1, <2>1, SameMessage
  <2>3. T = PrintItems(Now(base', o), items')
    BY <1>1, <1>2, <2>1, Zenon DEF Rest
  <2>4. T = Finish(Now(base, o))'
    BY <2>2, <2>3, Zenon DEF Finish
  <2> QED BY <1>1, <2>2, <2>4 DEF Core
<1> QED BY <1>1, <1>4, <1>5, Nothing DEF Step

LEMMA HandleSignStep == ASSUME StateInv, LineInv, handleSign PROVE \E s \in Seq(Char) : Step(s)
<1> DEFINE s == Sign(Head(items).n)
<1>1. /\ UNCHANGED <<object, use, emitted, mine, items, div, oldbase>>
      /\ pc = "int" /\ pc' = "prefix" /\ ival' = magnitude(Head(items).n)
      /\ line' = line \o Tags(s, mine)
  BY Puts DEF handleSign
<1>2. items # << >> /\ Head(items).kind = "int" /\ items \in Seq(Item)
  BY <1>1 DEF StateInv, ItemInv, TypeInv
<1>3. s \in Seq(Char) /\ magnitude(Head(items).n) \in 0 .. Modulus - 1
  BY <1>2, HeadTail, ItemType, SignType
<1>4. StateInv'
  <2>1. TypeInv'
    BY <1>1, <1>3 DEF StateInv, TypeInv, Printing, object
  <2>2. MineInv'
    BY <1>1, Zenon DEF StateInv, MineInv
  <2>3. ItemInv'
    BY <1>1, <1>2 DEF ItemInv, Printing
  <2>4. ObjectInv'
    BY <1>1 DEF StateInv, ObjectInv, TypeInv, object
  <2> QED BY <2>1, <2>2, <2>3, <2>4 DEF StateInv
<1>5. PICK q : q = s
  OBVIOUS
<1>6. ASSUME NEW o \in Seq(Char), NEW T, Core(o, T) PROVE Core(o \o q, T)'
  <2>1. On /\ Allows /\ T = PrintItems(Now(base, o), items)
    BY <1>1, <1>6 DEF Core
  <2>2. On' /\ Allows' /\ base' = base
    BY <1>1, <2>1, SameMessage DEF object
  <2>3. T = PrintItems(Now(base, (o \o q) \o Numeral(ival', base)), Tail(items))
    BY <1>1, <1>2, <1>5, <2>1, FirstItem, Zenon
  <2>4. Head(items).kind # "ptr"
    BY <1>2
  <2>5. Rest((o \o q) \o Numeral(ival, base), T)'
    BY <1>1, <2>2, <2>3, <2>4, Zenon DEF Rest
  <2> QED BY <1>1, <2>2, <2>5 DEF Core
<1> HIDE DEF s
<1>7. Step(q)
  BY <1>1, <1>4, <1>5, <1>6 DEF Step
<1> QED BY <1>3, <1>5, <1>7

LEMMA PrefixStep == ASSUME StateInv, LineInv, prefix PROVE \E s \in Seq(Char) : Step(s)
<1> DEFINE s == Prefix(base)
<1>1. /\ UNCHANGED <<object, use, emitted, mine, items, ival, oldbase>>
      /\ pc = "prefix" /\ pc' = "scale" /\ div' = 1
      /\ line' = line \o Tags(s, mine)
  BY Puts DEF prefix
<1>2. base \in Bases /\ ival \in 0 .. Modulus - 1
  BY <1>1 DEF StateInv, ObjectInv, TypeInv
<1>3. s \in Seq(Char)
  BY <1>2, PrefixType
<1>4. StateInv'
  <2>1. TypeInv'
    BY <1>1 DEF StateInv, TypeInv, Printing, object
  <2>2. MineInv'
    BY <1>1, Zenon DEF StateInv, MineInv
  <2>3. ItemInv'
    BY <1>1 DEF StateInv, ItemInv, Printing
  <2>4. ObjectInv'
    BY <1>1 DEF StateInv, ObjectInv, TypeInv, object
  <2> QED BY <2>1, <2>2, <2>3, <2>4 DEF StateInv
<1>5. PICK q \in Seq(Char) : q = s
  BY <1>3
<1>6. ASSUME NEW o \in Seq(Char), NEW T, Core(o, T) PROVE Core(o \o q, T)'
  <2>1. On /\ Allows /\ Rest(o \o Numeral(ival, base), T)
    BY <1>1, <1>6 DEF Core
  <2>2. On' /\ Allows' /\ base' = base
    BY <1>1, <2>1, SameMessage DEF object
  <2>3. PICK d \in Seq(Char) : d = Digits(ival, base)
    BY <1>2, DigitsAre
  <2>4. Numeral(ival, base) = q \o d
    BY <1>5, <2>3, Zenon DEF Numeral
  <2>5. o \o (q \o d) = (o \o q) \o d
    BY ConcatAssociative
  <2>6. Rest((o \o q) \o d, T)
    BY <2>1, <2>4, <2>5, Zenon
  <2>7. Rest((o \o q) \o d, T)'
    BY <1>1, <2>2, <2>6, Zenon DEF Rest
  <2>8. d = Digits(ival', base')
    BY <1>1, <2>2, <2>3
  <2>9. Rest((o \o q) \o Digits(ival, base), T)'
    BY <2>7, <2>8, Zenon
  <2>10. Power(div, base)' /\ div' = 1
    BY <1>1, <1>2, <2>2, Powers
  <2> QED BY <1>1, <2>2, <2>9, <2>10 DEF Core
<1> HIDE DEF s
<1>7. Step(q)
  BY <1>1, <1>4, <1>5, <1>6 DEF Step
<1> QED BY <1>7

LEMMA PutTextStep == ASSUME StateInv, LineInv, putText PROVE \E s \in Seq(Char) : Step(s)
<1> DEFINE x == Head(items)
<1>1. /\ UNCHANGED <<object, use, emitted, mine, print>> /\ pc = "text"
      /\ line' = line \o Tags(<<Head(x.text)>>, mine)
      /\ \/ Len(x.text) = 1 /\ items' = Tail(items) /\ pc' = "item"
         \/ Len(x.text) > 1 /\ items' = [items EXCEPT ![1].text = Tail(@)] /\ UNCHANGED pc
  BY Puts DEF putText
<1>2. items # << >> /\ x.kind = "text" /\ items \in Seq(Item)
  BY <1>1 DEF StateInv, ItemInv, TypeInv
<1>3. x \in Item /\ Tail(items) \in Seq(Item) /\ x.text \in Seq(Char) /\ x.text # << >>
  BY <1>2, HeadTail, ItemType
<1>4. PICK c \in Char, t \in Seq(Char) : c = Head(x.text) /\ t = Tail(x.text)
  BY <1>3, HeadTailProperties
<1>5. /\ Len(t) = Len(x.text) - 1 /\ Len(t) \in Nat /\ <<c>> \in Seq(Char)
      /\ x.text = <<c>> \o t
  BY <1>3, <1>4, HeadTailProperties
<1>6. PICK q \in Seq(Char) : q = <<c>>
  BY <1>5
<1>7. CASE Len(x.text) = 1 /\ items' = Tail(items) /\ pc' = "item"
  <2>1. StateInv'
    <3>1. TypeInv'
      BY <1>1, <1>3, <1>7 DEF StateInv, TypeInv, object, print
    <3>2. MineInv'
      BY <1>1, Zenon DEF StateInv, MineInv
    <3>3. ItemInv'
      BY <1>7 DEF ItemInv, Printing
    <3>4. ObjectInv'
      BY <1>1, <1>7 DEF StateInv, ObjectInv, TypeInv, object
    <3> QED BY <3>1, <3>2, <3>3, <3>4 DEF StateInv
  <2>2. ASSUME NEW o \in Seq(Char), NEW T, Core(o, T) PROVE Core(o \o q, T)'
    <3>1. On /\ Allows /\ T = PrintItems(Now(base, o), items)
      BY <1>1, <2>2 DEF Core
    <3>2. On' /\ Allows' /\ base' = base
      BY <1>1, <3>1, SameMessage DEF object
    <3>3. x.text = q
      <4>1. t = << >>
        BY <1>5, <1>7, EmptySeq
      <4> QED BY <1>5, <1>6, <4>1, ConcatEmptySeq
    <3>4. PrintItems(Now(base, o), items) = PrintItems(Now(base, o \o x.text), Tail(items))
      BY <1>2, FirstItem, Zenon
    <3>5. T = PrintItems(Now(base', o \o q), items')
      BY <1>7, <3>1, <3>2, <3>3, <3>4, Zenon
    <3>6. T = Finish(Now(base, o \o q))'
      BY <3>2, <3>5, Zenon DEF Finish
    <3> QED BY <1>7, <3>2, <3>6 DEF Core
  <2>3. Step(q)
    BY <1>1, <1>4, <1>6, <2>1, <2>2 DEF Step
  <2> QED BY <2>3
<1>8. CASE Len(x.text) > 1 /\ items' = [items EXCEPT ![1].text = Tail(@)] /\ UNCHANGED pc
  <2>1. PICK y : y = [x EXCEPT !.text = t]
    OBVIOUS
  <2>2. y \in Item /\ y.kind = "text" /\ y.text = t
    <3>1. t # << >>
      BY <1>5, <1>8
    <3>2. x \in [kind : {"text"}, text : Text]
      BY <1>2, <1>3 DEF Item
    <3> QED BY <2>1, <3>1, <3>2 DEF Item, Text
  <2>3. items' = [items EXCEPT ![1] = y]
    <3>1. x = items[1]
      BY <1>2
    <3> QED BY <1>4, <1>8, <2>1, <3>1
  <2>4. /\ items' \in Seq(Item) /\ items' # << >> /\ Head(items') = y
        /\ Tail(items') = Tail(items)
    BY <1>2, <2>2, <2>3
  <2>5. StateInv'
    <3>1. TypeInv'
      BY <1>1, <1>8, <2>4 DEF StateInv, TypeInv, object, print
    <3>2. MineInv'
      BY <1>1, Zenon DEF StateInv, MineInv
    <3>3. ItemInv'
      BY <1>1, <1>8, <2>2, <2>4 DEF ItemInv, Printing
    <3>4. ObjectInv'
      BY <1>1, <1>8 DEF StateInv, ObjectInv, TypeInv, object
    <3> QED BY <3>1, <3>2, <3>3, <3>4 DEF StateInv
  <2>6. ASSUME NEW o \in Seq(Char), NEW T, Core(o, T) PROVE Core(o \o q, T)'
    <3>1. On /\ Allows /\ T = PrintItems(Now(base, o), items)
      BY <1>1, <2>6 DEF Core
    <3>2. On' /\ Allows' /\ base' = base
      BY <1>1, <3>1, SameMessage DEF object
    <3>3. o \o x.text = (o \o q) \o t
      <4>1. x.text = q \o t
        BY <1>5, <1>6, Zenon
      <4>2. (o \o q) \o t = o \o (q \o t)
        BY ConcatAssociative
      <4> QED BY <4>1, <4>2, Zenon
    <3>4. PrintItems(Now(base, o), items) = PrintItems(Now(base, o \o x.text), Tail(items))
      BY <1>2, FirstItem, Zenon
    <3>5. PICK xs \in Seq(Item) : xs = items'
      BY <2>4
    <3>6. PrintItems(Now(base, o \o q), xs) = PrintItems(Now(base, (o \o q) \o t), Tail(xs))
      <4>1. xs # << >> /\ Head(xs).kind = "text" /\ Head(xs).text = t
        BY <2>2, <2>4, <3>5
      <4> QED BY <4>1, FirstItem, Zenon
    <3>7. T = PrintItems(Now(base, o \o q), items)'
      BY <2>4, <3>1, <3>2, <3>3, <3>4, <3>5, <3>6, Zenon
    <3> QED BY <1>1, <1>8, <3>2, <3>7 DEF Core
  <2>7. Step(q)
    BY <1>1, <1>4, <1>6, <2>5, <2>6 DEF Step
  <2> QED BY <2>7
<1> QED BY <1>1, <1>7, <1>8

LEMMA ScaleStep == ASSUME StateInv, LineInv, scale PROVE Step(<< >>)
<1>1. /\ UNCHANGED <<object, line, use, emitted, mine, items, ival, oldbase>> /\ pc = "scale"
      /\ \/ scales   /\ div' = (div * base) % Modulus /\ UNCHANGED pc
         \/ ~ scales /\ pc' = "digit" /\ UNCHANGED div
  BY DEF scale
<1>2. base \in Bases /\ div \in Nat /\ div >= 1 /\ ival \in 0 .. Modulus - 1
  BY <1>1 DEF StateInv, ObjectInv, ItemInv, TypeInv
<1>3. base \in Nat /\ base >= 2 /\ ival \in Nat /\ Modulus \in Nat
  BY <1>2, ModulusAssumption DEF Bases
<1>4. base * div \in Nat /\ base * div >= 1
  BY <1>2, <1>3, OneDigit
<1>5. scales => ival >= base * div
  <2>1. ival < base * div => ival \div div < base
    BY <1>2, <1>3, OneDigit
  <2>2. PICK a \in Nat, d \in Nat : a = base * div /\ d = ival \div div
    BY <1>2, <1>3, <1>4, OneDigit
  <2>3. ~ ival < a => ival >= a
    BY <1>3
  <2>4. ~ (d < base /\ d >= base)
    BY <1>3
  <2> QED BY <2>1, <2>2, <2>3, <2>4, Zenon DEF scales
<1>6. ~ scales => ival < base * div
  <2>1. ival >= base * div => ival \div div >= base
    BY <1>2, <1>3, OneDigit
  <2> QED BY <1>3, <1>4, <2>1 DEF scales
<1>7. scales => div' = base * div
  <2>1. ASSUME scales PROVE div' = base * div
    <3>1. PICK a \in Nat : a = base * div
      BY <1>4
    <3>2. div * base = a
      BY <1>2, <1>3, <3>1
    <3>3. a < Modulus
      BY <1>2, <1>3, <1>5, <2>1, <3>1
    <3>4. a % Modulus = a
      BY <1>3, <3>3
    <3> QED BY <1>1, <2>1, <3>1, <3>2, <3>4
  <2> QED BY <2>1
<1>8. StateInv'
  <2>1. TypeInv'
    <3>1. div' \in Nat
      BY <1>1, <1>2, <1>4, <1>7
    <3> QED BY <1>1, <3>1 DEF StateInv, TypeInv, object, Printing
  <2>2. MineInv'
    BY <1>1, Zenon DEF StateInv, MineInv
  <2>3. ItemInv'
    <3>1. div' >= 1
      BY <1>1, <1>2, <1>4, <1>7
    <3> QED BY <1>1, <3>1 DEF StateInv, ItemInv, Printing
  <2>4. ObjectInv'
    BY <1>1 DEF StateInv, ObjectInv, TypeInv, object
  <2> QED BY <2>1, <2>2, <2>3, <2>4 DEF StateInv
<1>9. ASSUME NEW o \in Seq(Char), NEW T, Core(o, T) PROVE Core(o, T)'
  <2>1. /\ On /\ Allows /\ Power(div, base) /\ (div = 1 \/ div <= ival)
        /\ Rest(o \o Digits(ival, base), T)
    BY <1>1, <1>9 DEF Core
  <2>2. On' /\ Allows' /\ base' = base
    BY <1>1, <2>1, SameMessage DEF object
  <2>3. \A u : Rest(u, T) => Rest(u, T)'
    BY <1>1, <2>2, Zenon DEF Rest
  <2>4. CASE scales
    <3>1. Power(div, base)'
      BY <1>2, <1>7, <2>1, <2>2, <2>4, Powers
    <3>2. div' <= ival'
      BY <1>1, <1>2, <1>3, <1>4, <1>5, <1>7, <2>4
    <3>3. Rest(o \o Digits(ival, base), T)'
      <4>1. Digits(ival', base') = Digits(ival, base)
        BY <1>1, <2>2
      <4> QED BY <2>1, <2>3, <4>1, Zenon
    <3> QED BY <1>1, <2>2, <2>4, <3>1, <3>2, <3>3 DEF Core
  <2>5. CASE ~ scales
    <3>1. PICK v \in 0 .. Modulus - 1 : v = ival
      BY <1>2
    <3>2. ival % (base * div) = ival
      <4>1. ival < base * div
        BY <1>6, <2>5, Zenon
      <4> QED BY <1>2, <1>3, <4>1, NoDigit
    <3>3. div' = div /\ ival' = ival
      BY <1>1, <2>5
    <3>4. Rest(o \o Digits(v, base), T)'
      <4>1. Digits(v, base') = Digits(ival, base)
        BY <2>2, <3>1
      <4> QED BY <2>1, <2>3, <4>1, Zenon
    <3>5. Halfway(o, T, v, o)'
      <4>1. div' = 1 \/ div' <= v
        BY <2>1, <3>1, <3>3
      <4>2. ival' = v % (base' * div')
        BY <2>2, <3>1, <3>2, <3>3, Zenon
      <4>3. v < base' * div'
        BY <1>6, <2>2, <2>5, <3>1, <3>3, Zenon
      <4> QED BY <3>4, <4>1, <4>2, <4>3, Zenon DEF Halfway
    <3>6. Power(div, base)'
      BY <2>1, <2>2, <3>3
    <3>7. \E u \in 0 .. Modulus - 1, out \in Seq(Char) : Halfway(o, T, u, out)'
      BY <3>5, Zenon
    <3> QED BY <1>1, <2>2, <2>5, <3>6, <3>7, Zenon DEF Core
  <2> QED BY <2>4, <2>5
<1> QED BY <1>1, <1>8, <1>9, Nothing DEF Step

LEMMA Shrinks == ASSUME NEW n \in Nat, NEW b \in Bases, n >= b PROVE n \div b <= n
BY DEF Bases

LEMMA DigitsMore ==
  ASSUME NEW b \in Bases, NEW q \in 0 .. Modulus - 1, NEW out \in Seq(Char)
  PROVE  /\ Digit(q % b) \in Char
         /\ (IF q < b THEN out ELSE out \o Digits(q \div b, b)) \o <<Digit(q % b)>> =
              out \o Digits(q, b)
<1>1. b \in Nat /\ b >= 2 /\ q \in Nat /\ Modulus \in Nat /\ q < Modulus
  BY ModulusAssumption DEF Bases
<1>2. q % b \in Nat
  BY <1>1, Divides
<1>3. PICK d \in Nat : d = q % b
  BY <1>2
<1>4. PICK c \in Char : c = Digit(d)
  BY DigitType
<1>5. Digits(q, b) = IF q < b THEN <<Digit(q)>> ELSE Append(Digits(q \div b, b), c)
  BY <1>3, <1>4, DigitsAre, Zenon
<1>6. CASE q < b
  <2>1. d = q
    BY <1>1, <1>3, <1>6
  <2> QED BY <1>3, <1>4, <1>5, <1>6, <2>1, Zenon
<1>7. CASE ~ q < b
  <2>1. PICK t \in 0 .. Modulus - 1 : t = q \div b
    <3>1. PICK t \in Nat : t = q \div b
      BY <1>1, Divides
    <3>2. t <= q
      BY <1>1, <1>7, <3>1, Shrinks
    <3>3. t <= Modulus - 1
      BY <1>1, <3>2
    <3> QED BY <3>1, <3>3
  <2>2. PICK a \in Seq(Char) : a = Digits(t, b)
    BY DigitsAre
  <2>3. (out \o a) \o <<c>> = Append(out \o a, c) /\ Append(out \o a, c) = out \o Append(a, c)
    <3>1. out \o a \in Seq(Char)
      BY ConcatProperties
    <3> QED BY <3>1, AppendIsConcat, ConcatAppend
  <2> QED BY <1>3, <1>4, <1>5, <1>7, <2>1, <2>2, <2>3, Zenon
<1> QED BY <1>6, <1>7

(* The digit of v at the power w of b.                                     *)
LEMMA DigitAt ==
  ASSUME NEW b \in Bases, NEW v \in 0 .. Modulus - 1, NEW w \in Nat, w >= 1, w = 1 \/ w <= v,
         Power(w, b)
  PROVE  /\ v \div w \in 0 .. Modulus - 1
         /\ (v \div w) \div b = v \div (b * w)
         /\ (v % (b * w)) \div w = (v \div w) % b
         /\ ((v % (b * w)) - w * ((v % (b * w)) \div w)) % Modulus = v % w
         /\ v < b * w <=> v \div w < b
         /\ w = 1 => w \div b = 0 /\ v \div w = v
         /\ w # 1 => /\ w \div b \in Nat /\ w \div b >= 1 /\ w = b * (w \div b)
                     /\ Power(w \div b, b) /\ w \div b <= v /\ w <= v
<1>1. b \in Nat /\ b >= 2 /\ v \in Nat /\ Modulus \in Nat /\ v < Modulus
  BY ModulusAssumption DEF Bases
<1>2. /\ b * w \in Nat /\ v \div w \in Nat /\ v % w \in Nat
      /\ (v \div w) \div b = v \div (b * w)
      /\ (v % (b * w)) \div w = (v \div w) % b
      /\ (v % (b * w)) - w * ((v % (b * w)) \div w) = v % w
      /\ v < b * w => v \div w < b
      /\ v >= b * w => v \div w >= b
  <2>1. Digit1(v, b, w)
    BY <1>1, Digit1Is
  <2> QED BY <2>1, Zenon DEF Digit1
<1>3. PICK q \in Nat, e \in Nat, p \in Nat : q = v \div w /\ e = v % w /\ p = b * w
  BY <1>2, Zenon
<1>4. e <= v /\ q <= v
  <2>1. v = w * q + e
    BY <1>1, <1>3
  <2>2. w * q >= q /\ w * q \in Nat
    BY SMTT(20)
  <2> QED BY <1>1, <2>1, <2>2
<1>5. v \div w \in 0 .. Modulus - 1
  <2>1. q \in 0 .. Modulus - 1
    BY <1>1, <1>4
  <2> QED BY <1>3, <2>1, Zenon
<1>6. (v % w) % Modulus = v % w
  <2>1. e \in Nat /\ e < Modulus
    BY <1>1, <1>4
  <2>2. \A k \in Nat : k < Modulus => k % Modulus = k
    BY <1>1
  <2> QED BY <1>3, <2>1, <2>2, Zenon
<1>7. v < b * w <=> v \div w < b
  <2>1. (v < p => q < b) /\ (v >= p => q >= b)
    BY <1>2, <1>3, Zenon
  <2>2. v < p <=> q < b
    BY <1>1, <2>1
  <2> QED BY <1>3, <2>2, Zenon
<1>8. w = 1 => w \div b = 0 /\ v \div w = v
  <2> SUFFICES ASSUME w = 1 PROVE w \div b = 0 /\ v \div w = v
    OBVIOUS
  <2>1. 1 = b * 0 + 1 /\ 1 < b /\ v = 1 * v + 0
    BY <1>1
  <2> QED BY <1>1, <2>1, Division
<1>9. w # 1 => /\ w \div b \in Nat /\ w \div b >= 1 /\ w = b * (w \div b)
               /\ Power(w \div b, b) /\ w \div b <= v /\ w <= v
  <2> SUFFICES ASSUME w # 1
               PROVE  /\ w \div b \in Nat /\ w \div b >= 1 /\ w = b * (w \div b)
                      /\ Power(w \div b, b) /\ w \div b <= v /\ w <= v
    OBVIOUS
  <2>1. PICK u \in Nat : Power(u, b) /\ u >= 1 /\ w = b * u
    BY Powers, Zenon
  <2>2. w \div b = u
    <3>1. w = b * u + 0 /\ 0 < b /\ b \in Nat \ {0}
      BY <1>1, <2>1
    <3> QED BY <3>1, Division
  <2>3. b * u >= u
    BY <1>1, SMTT(20)
  <2>4. w <= v
    OBVIOUS
  <2>5. u <= v
    BY <1>1, <2>1, <2>3, <2>4
  <2> QED BY <2>1, <2>2, <2>4, <2>5
<1> QED BY <1>2, <1>5, <1>6, <1>7, <1>8, <1>9, Zenon

LEMMA DigitStep == ASSUME StateInv, LineInv, digit PROVE \E s \in Seq(Char) : Step(s)
<1>1. /\ UNCHANGED <<object, use, emitted, mine, oldbase>> /\ pc = "digit"
      /\ line' = line \o Tags(<<Digit(ival \div div)>>, mine)
      /\ ival' = (ival - div * (ival \div div)) % Modulus
      /\ div' = div \div base
      /\ \/ div' > 0 /\ UNCHANGED <<pc, items>>
         \/ div' = 0 /\ Head(items).kind = "int" /\ pc' = "item" /\ items' = Tail(items)
         \/ div' = 0 /\ Head(items).kind = "ptr" /\ pc' = "ptrEnd" /\ UNCHANGED items
  BY Puts DEF digit
<1>2. base \in Bases /\ div \in Nat /\ div >= 1 /\ ival \in 0 .. Modulus - 1
  BY <1>1 DEF StateInv, ObjectInv, ItemInv, TypeInv
<1>3. base \in Nat /\ base >= 2 /\ ival \in Nat /\ Modulus \in Nat /\ Modulus > 0
  BY <1>2, ModulusAssumption DEF Bases
<1>4. items # << >> /\ items \in Seq(Item) /\ Tail(items) \in Seq(Item)
  <2>1. items # << >> /\ items \in Seq(Item)
    BY <1>1 DEF StateInv, ItemInv, TypeInv, Printing
  <2> QED BY <2>1, HeadTail
<1>5. PICK d \in Nat : d = ival \div div
  BY <1>2, <1>3
<1>6. PICK q \in Seq(Char) : q = <<Digit(d)>>
  <2>1. Digit(d) \in Char
    BY DigitType
  <2>2. <<Digit(d)>> \in Seq(Char)
    BY <2>1
  <2> QED BY <2>2, Zenon
<1>7. StateInv'
  <2>1. TypeInv'
    <3>1. ival' \in 0 .. Modulus - 1
      <4>1. PICK e \in Int : e = ival - div * d
        BY <1>2, <1>3
      <4>2. e % Modulus \in 0 .. Modulus - 1
        BY <1>3
      <4> QED BY <1>1, <1>5, <4>1, <4>2, Zenon
    <3>2. div' \in Nat
      BY <1>1, <1>2, <1>3
    <3>3. items' \in Seq(Item)
      BY <1>1, <1>4
    <3> QED BY <1>1, <3>1, <3>2, <3>3 DEF StateInv, TypeInv, object, Printing
  <2>2. MineInv'
    BY <1>1, Zenon DEF StateInv, MineInv
  <2>3. ItemInv'
    <3>1. div' \in Nat /\ (div' > 0 => div' >= 1)
      BY <1>1, <1>2, <1>3
    <3> QED BY <1>1, <3>1 DEF StateInv, ItemInv, Printing
  <2>4. ObjectInv'
    BY <1>1 DEF StateInv, ObjectInv, TypeInv, object
  <2> QED BY <2>1, <2>2, <2>3, <2>4 DEF StateInv
<1>8. ASSUME NEW o \in Seq(Char), NEW T, Core(o, T) PROVE Core(o \o q, T)'
  <2>1. /\ On /\ Allows /\ Power(div, base)
        /\ \E v \in 0 .. Modulus - 1, out \in Seq(Char) : Halfway(o, T, v, out)
    BY <1>1, <1>8 DEF Core
  <2>2. On' /\ Allows' /\ base' = base /\ oldbase' = oldbase
    BY <1>1, <2>1, SameMessage DEF object
  <2>3. PICK v \in 0 .. Modulus - 1, out \in Seq(Char) : Halfway(o, T, v, out)
    BY <2>1
  <2>4. /\ div = 1 \/ div <= v
        /\ ival = v % (base * div)
        /\ o = IF v < base * div THEN out ELSE out \o Digits(v \div (base * div), base)
        /\ Rest(out \o Digits(v, base), T)
    BY <2>3, Zenon DEF Halfway
  <2>5. /\ o \o q = out \o Digits(v \div div, base)
        /\ ival' = v % div
        /\ div = 1 => div' = 0 /\ v \div div = v
        /\ div # 1 => /\ div' \in Nat /\ div' >= 1 /\ div = base * div'
                      /\ Power(div', base) /\ div' <= v /\ div <= v
    <3>1. /\ v \div div \in 0 .. Modulus - 1
          /\ (v \div div) \div base = v \div (base * div)
          /\ ival \div div = (v \div div) % base
          /\ (ival - div * (ival \div div)) % Modulus = v % div
          /\ v < base * div <=> v \div div < base
          /\ div = 1 => div \div base = 0 /\ v \div div = v
          /\ div # 1 => /\ div \div base \in Nat /\ div \div base >= 1
                        /\ div = base * (div \div base)
                        /\ Power(div \div base, base) /\ div \div base <= v /\ div <= v
      <4>1. /\ v \div div \in 0 .. Modulus - 1
            /\ (v \div div) \div base = v \div (base * div)
            /\ (v % (base * div)) \div div = (v \div div) % base
            /\ ((v % (base * div)) - div * ((v % (base * div)) \div div)) % Modulus = v % div
            /\ v < base * div <=> v \div div < base
            /\ div = 1 => div \div base = 0 /\ v \div div = v
            /\ div # 1 => /\ div \div base \in Nat /\ div \div base >= 1
                          /\ div = base * (div \div base)
                          /\ Power(div \div base, base) /\ div \div base <= v /\ div <= v
        BY <1>2, <2>1, <2>4, DigitAt
      <4> QED BY <2>4, <4>1, Zenon
    <3>2. PICK t \in 0 .. Modulus - 1 : t = v \div div
      BY <3>1
    <3>3. (IF t < base THEN out ELSE out \o Digits(t \div base, base)) \o <<Digit(t % base)>> =
            out \o Digits(t, base)
      BY <1>2, DigitsMore
    <3>4. o = IF t < base THEN out ELSE out \o Digits(t \div base, base)
      BY <2>4, <3>1, <3>2, Zenon
    <3>5. o \o q = out \o Digits(v \div div, base)
      BY <1>5, <1>6, <3>1, <3>2, <3>3, <3>4, Zenon
    <3> QED BY <1>1, <3>1, <3>5, Zenon
  <2>6. CASE div # 1
    <3>1. div' > 0 /\ ~ (div' = 0)
      BY <2>5, <2>6
    <3>2. pc' = "digit" /\ items' = items
      BY <1>1, <3>1
    <3>3. Power(div, base)'
      BY <2>2, <2>5, <2>6, Zenon
    <3>4. base' * div' = div
      BY <2>2, <2>5, <2>6, Zenon
    <3>5. Rest(out \o Digits(v, base), T)'
      BY <2>2, <2>4, <3>2, Zenon DEF Rest
    <3>6. ~ v < div
      BY <1>2, <1>3, <2>5, <2>6
    <3>7. Halfway(o \o q, T, v, out)'
      <4>1. div' <= v
        BY <2>5, <2>6, Zenon
      <4>2. ival' = v % (base' * div')
        BY <2>5, <3>4, Zenon
      <4>3. o \o q = IF v < base' * div' THEN out ELSE out \o Digits(v \div (base' * div'), base')
        BY <2>2, <2>5, <3>4, <3>6, Zenon
      <4> QED BY <3>5, <4>1, <4>2, <4>3, Zenon DEF Halfway
    <3>8. \E u \in 0 .. Modulus - 1, x \in Seq(Char) : Halfway(o \o q, T, u, x)'
      BY <3>7, Zenon
    <3> QED BY <2>2, <3>2, <3>3, <3>8, Zenon DEF Core
  <2>7. CASE div = 1
    <3>1. div' = 0 /\ o \o q = out \o Digits(v, base) /\ ~ div' > 0
      <4>1. div' = 0 /\ o \o q = out \o Digits(v, base)
        BY <2>5, <2>7, Zenon
      <4> QED BY <4>1
    <3>2. Rest(o \o q, T)
      BY <2>4, <3>1, Zenon
    <3>3. CASE Head(items).kind = "int" /\ pc' = "item" /\ items' = Tail(items)
      <4>1. T = PrintItems(Now(base, o \o q), Tail(items))
        <5>1. Head(items).kind # "ptr"
          BY <3>3
        <5> QED BY <3>2, <5>1, Zenon DEF Rest
      <4>2. T = Finish(Now(base, o \o q))'
        BY <2>2, <3>3, <4>1, Zenon DEF Finish
      <4> QED BY <2>2, <3>3, <4>2 DEF Core
    <3>4. CASE Head(items).kind = "ptr" /\ pc' = "ptrEnd" /\ UNCHANGED items
      <4>1. Rest(o \o q, T)'
        BY <2>2, <3>2, <3>4, Zenon DEF Rest
      <4> QED BY <2>2, <3>4, <4>1 DEF Core
    <3> QED BY <1>1, <3>1, <3>3, <3>4
  <2> QED BY <2>6, <2>7
<1>9. Step(q)
  BY <1>1, <1>5, <1>6, <1>7, <1>8 DEF Step
<1> QED BY <1>9

-----------------------------------------------------------------------------
(***************************************************************************)
(* The invariant holds after every step of main ...                        *)
(***************************************************************************)
MainNext ==
  \/ instance \/ zero \/ OutputStream \/ OutputLevel \/ setConstructed \/ setLevel
  \/ item \/ putText \/ setBase \/ handleSign \/ ptr \/ ptrBase \/ ptrEnd
  \/ prefix \/ scale \/ digit

LEMMA MainStep == ASSUME StateInv, LineInv, MainNext PROVE \E s \in Seq(Char) : Step(s)
<1>1. << >> \in Seq(Char)
  BY EmptySeq
<1>2. Step(<< >>) => \E s \in Seq(Char) : Step(s)
  BY <1>1, Zenon
<1>3. CASE instance
  BY <1>2, <1>3, InstanceStep, Zenon
<1>z. CASE zero
  BY <1>2, <1>z, ZeroStep, Zenon
<1>4. CASE OutputStream
  BY <1>2, <1>4, OutputStreamStep, Zenon
<1>5. CASE OutputLevel
  BY <1>2, <1>5, OutputLevelStep, Zenon
<1>6. CASE setConstructed
  BY <1>2, <1>6, SetConstructedStep, Zenon
<1>7. CASE setLevel
  BY <1>2, <1>7, SetLevelStep, Zenon
<1>8. CASE item
  BY <1>2, <1>8, ItemStep, Zenon
<1>9. CASE putText
  BY <1>9, PutTextStep, Zenon
<1>10. CASE setBase
  BY <1>2, <1>10, SetBaseStep, Zenon
<1>11. CASE handleSign
  BY <1>11, HandleSignStep, Zenon
<1>12. CASE ptr
  BY <1>2, <1>12, PtrStep, Zenon
<1>13. CASE ptrBase
  BY <1>2, <1>13, PtrBaseStep, Zenon
<1>14. CASE ptrEnd
  BY <1>2, <1>14, PtrEndStep, Zenon
<1>15. CASE prefix
  BY <1>15, PrefixStep, Zenon
<1>16. CASE scale
  BY <1>2, <1>16, ScaleStep, Zenon
<1>17. CASE digit
  BY <1>17, DigitStep, Zenon
<1> QED BY <1>3, <1>z, <1>4, <1>5, <1>6, <1>7, <1>8, <1>9, <1>10, <1>11, <1>12, <1>13, <1>14, <1>15,
           <1>16, <1>17, Zenon DEF MainNext

LEMMA CharsType == ASSUME LineInv, NEW N PROVE Chars(line, N) \in Seq(Char)
<1>1. PICK l \in Seq(Tagged) : l = line
  BY DEF LineInv
<1>2. \A k \in 1 .. Len(l) : l[k].n \in N <=> l[k].n \in N
  OBVIOUS
<1>3. Chars(l, N) \in Seq(Char)
  BY <1>2, CharsSame
<1> QED BY <1>1, <1>3

LEMMA StepKeeps == ASSUME IInv, NEW s \in Seq(Char), Step(s) PROVE IInv'
<1>1. /\ use' = use /\ emitted' = emitted /\ mine' = mine /\ pc # "idle" /\ StateInv'
      /\ line' = line \o Tags(s, mine)
      /\ \A o \in Seq(Char) : \A T : Core(o, T) => Core(o \o s, T)'
  BY DEF Step
<1>2. PICK i \in Nat, l \in Seq(Tagged), n \in Nat : i = mine /\ l = line /\ n = Len(emitted)
  <2>1. mine \in Nat /\ line \in Seq(Tagged)
    BY DEF IInv, StateInv, TypeInv, LineInv
  <2>2. emitted \in Seq(Record)
    BY DEF IInv, StateInv, TypeInv
  <2>3. Len(emitted) \in Nat
    BY <2>2
  <2> QED BY <2>1, <2>3, Zenon
<1>3. i \in 1 .. n /\ emitted[i].main
  BY <1>1, <1>2 DEF IInv, StateInv, MineInv
<1>4. PICK t : t = l \o Tags(s, i)
  OBVIOUS
<1>5. /\ t \in Seq(Tagged)
      /\ \A k \in 1 .. Len(t) : (k \in 1 .. Len(l) /\ t[k] = l[k]) \/ t[k].n = i
  <2>1. /\ l \o Tags(s, i) \in Seq(Tagged)
        /\ \A k \in 1 .. Len(l \o Tags(s, i)) :
             \/ k \in 1 .. Len(l) /\ (l \o Tags(s, i))[k] = l[k]
             \/ k > Len(l) /\ (l \o Tags(s, i))[k].n = i
    BY CharsPut
  <2> QED BY <1>4, <2>1, Zenon
<1>6. \A N : /\ i \in N => Chars(t, N) = Chars(l, N) \o s
             /\ i \notin N => Chars(t, N) = Chars(l, N)
  BY <1>4, CharsPut
<1>7. line' = t
  BY <1>1, <1>2, <1>4
<1>8. LineInv'
  <2>1. \A k \in 1 .. Len(l) : l[k].n \in 1 .. n
    BY <1>2 DEF IInv, LineInv
  <2>2. \A k \in 1 .. Len(t) : t[k].n \in 1 .. n
    BY <1>3, <1>5, <2>1, Zenon
  <2> QED BY <1>1, <1>2, <1>5, <1>7, <2>2, Zenon DEF LineInv
<1>9. CompleteInv'
  <2>1. \A k \in 1 .. n : ~ emitted[k].main => Chars(t, {k}) = Chars(l, {k})
    BY <1>3, <1>6
  <2> QED BY <1>1, <1>2, <1>7, <2>1, Zenon DEF IInv, CompleteInv
<1>10. ASSUME NEW N, i \in N, Core(Chars(l, N), PrintedAll(use.Switch, emitted, N))
       PROVE  \A o, T : o = Chars(t, N) /\ T = PrintedAll(use.Switch, emitted, N) => Core(o, T)'
  <2>1. PICK c \in Seq(Char) : c = Chars(l, N)
    BY <1>2, CharsType DEF IInv
  <2>2. PICK T : T = PrintedAll(use.Switch, emitted, N)
    OBVIOUS
  <2>3. Core(c \o s, T)'
    <3>1. Core(c, T)
      BY <1>10, <2>1, <2>2, Zenon
    <3> QED BY <1>1, <3>1
  <2>4. PICK o : o = c \o s
    OBVIOUS
  <2>5. Core(o, T)'
    BY <2>3, <2>4
  <2>6. o = Chars(t, N)
    BY <1>6, <1>10, <2>1, <2>4, Zenon
  <2> QED BY <2>2, <2>5, <2>6, Zenon
<1>11. LockedInv'
  <2>1. PICK N : N = DOMAIN emitted
    OBVIOUS
  <2>2. i \in N
    BY <1>2, <1>3, <2>1 DEF IInv, StateInv, TypeInv
  <2>3. use.Locked => Core(Chars(l, N), PrintedAll(use.Switch, emitted, N))
    BY <1>2, <2>1, Zenon DEF IInv, LockedInv
  <2> QED BY <1>1, <1>7, <1>10, <2>1, <2>2, <2>3, Zenon DEF LockedInv
<1>12. OwnInv'
  <2>1. PICK N : N = Own
    OBVIOUS
  <2>2. i \in N
    BY <1>2, <1>3, <2>1 DEF IInv, StateInv, TypeInv, Own
  <2>3. Unobtrusive => Core(Chars(l, N), PrintedAll(use.Switch, emitted, N))
    BY <1>2, <2>1, Zenon DEF IInv, OwnInv
  <2>4. Own' = Own /\ (Unobtrusive' <=> Unobtrusive)
    BY <1>1, Zenon DEF Own, Unobtrusive
  <2> QED BY <1>1, <1>7, <1>10, <2>1, <2>2, <2>3, <2>4, Zenon DEF OwnInv
<1> QED BY <1>1, <1>8, <1>9, <1>11, <1>12, Zenon DEF IInv

(***************************************************************************)
(* ... when a message is begun, of main or of the handler.  M are the      *)
(* numbers of all messages, or of main's.                                  *)
(***************************************************************************)
Begun(e, es, n) ==
  /\ es \in Seq(Record) /\ Len(es) = n + 1 /\ es[n + 1] = e
  /\ \A k \in 1 .. n : es[k] = emitted[k]
  /\ DOMAIN es = 1 .. n + 1 /\ DOMAIN emitted = 1 .. n

LEMMA Begins ==
  ASSUME emitted \in Seq(Record), NEW e \in Record, NEW es, es = Append(emitted, e),
         NEW n, n = Len(emitted)
  PROVE  n \in Nat /\ Begun(e, es, n)
<1>1. n \in Nat /\ DOMAIN emitted = 1 .. n
  OBVIOUS
<1>2. es \in Seq(Record) /\ Len(es) = n + 1 /\ es[n + 1] = e /\ \A k \in 1 .. n : es[k] = emitted[k]
  BY AppendProperties
<1>3. DOMAIN es = 1 .. n + 1
  BY <1>2
<1> QED BY <1>1, <1>2, <1>3 DEF Begun

LEMMA Numbers ==
  ASSUME LineInv, emitted \in Seq(Record), NEW e \in Record, NEW n \in Nat, n = Len(emitted),
         NEW M, NEW N, \A k \in 1 .. n : k \in M <=> k \in N, NEW switch
  PROVE  /\ Chars(line, M) = Chars(line, N)
         /\ PrintedAll(switch, Append(emitted, e), M) =
              IF n + 1 \in M THEN PrintNext(switch, PrintedAll(switch, emitted, N), e.m)
                             ELSE PrintedAll(switch, emitted, N)
<1>1. PICK l \in Seq(Tagged) : l = line
  BY DEF LineInv
<1>2. \A k \in 1 .. Len(l) : l[k].n \in 1 .. n
  BY <1>1 DEF LineInv
<1>3. \A k \in 1 .. Len(l) : l[k].n \in M <=> l[k].n \in N
  BY <1>2, Zenon
<1>4. Chars(l, M) = Chars(l, N)
  BY <1>3, CharsSame
<1>5. PICK es \in Seq(Record) : es = emitted
  OBVIOUS
<1>6. \A k \in 1 .. Len(es) : k \in N <=> k \in M
  BY <1>5, Zenon
<1>7. PrintedAll(switch, Append(es, e), M) =
        IF Len(es) + 1 \in M THEN PrintNext(switch, PrintedAll(switch, es, N), e.m)
                             ELSE PrintedAll(switch, es, N)
  BY <1>6, PrintedAllAppend
<1> QED BY <1>1, <1>4, <1>5, <1>7, Zenon

Same(M, N, n) == \A k \in 1 .. n : k \in M <=> k \in N

LEMMA CharsLast ==
  ASSUME LineInv, emitted \in Seq(Record), NEW e \in Record, NEW n \in Nat, n = Len(emitted),
         NEW M, NEW N, Same(M, N, n)
  PROVE  Chars(line, M) = Chars(line, N)
BY Numbers DEF Same

LEMMA PrintedIn ==
  ASSUME LineInv, emitted \in Seq(Record), NEW e \in Record, NEW n \in Nat, n = Len(emitted),
         NEW M, NEW N, Same(M, N, n), NEW switch, n + 1 \in M
  PROVE  PrintedAll(switch, Append(emitted, e), M) =
           PrintNext(switch, PrintedAll(switch, emitted, N), e.m)
BY Numbers DEF Same

LEMMA PrintedOut ==
  ASSUME LineInv, emitted \in Seq(Record), NEW e \in Record, NEW n \in Nat, n = Len(emitted),
         NEW M, NEW N, Same(M, N, n), NEW switch, n + 1 \notin M
  PROVE  PrintedAll(switch, Append(emitted, e), M) = PrintedAll(switch, emitted, N)
BY Numbers DEF Same

LEMMA CharsIn ==
  ASSUME NEW s \in Seq(Tagged), NEW N, NEW q \in Seq(Char), NEW i \in Nat, i \in N
  PROVE  Chars(s \o Tags(q, i), N) = Chars(s, N) \o q
BY CharsPut, SMTT(30)

LEMMA CharsOut ==
  ASSUME NEW s \in Seq(Tagged), NEW N, NEW q \in Seq(Char), NEW i \in Nat, i \notin N
  PROVE  Chars(s \o Tags(q, i), N) = Chars(s, N)
BY CharsPut

LEMMA AllNumbers ==
  ASSUME NEW e \in Record, NEW es, NEW n \in Nat, Begun(e, es, n)
  PROVE  /\ \A k \in 1 .. n : k \in DOMAIN es <=> k \in DOMAIN emitted
         /\ n + 1 \in DOMAIN es
         /\ \A k \in 1 .. n : k \in {j \in DOMAIN es : es[j].main} <=> k \in Own
         /\ n + 1 \in {j \in DOMAIN es : es[j].main} <=> e.main
<1>1. /\ \A k \in 1 .. n : es[k] = emitted[k]
      /\ DOMAIN es = 1 .. n + 1 /\ DOMAIN emitted = 1 .. n /\ es[n + 1] = e
  BY DEF Begun
<1>2. n + 1 \in 1 .. n + 1 /\ \A k \in 1 .. n : k \in 1 .. n + 1
  OBVIOUS
<1> QED BY <1>1, <1>2, Zenon DEF Own

LEMMA MessageOfMain ==
  ASSUME TypeInv, emit
  PROVE  \E msg \in Message :
           /\ \E j \in 1 .. Len(use.Main) : msg = use.Main[j]
           /\ pc = "idle" /\ pc' = "instance"
           /\ emitted' = Append(emitted, [main |-> TRUE, m |-> msg])
           /\ mine' = Len(emitted') /\ items' = Items(msg)
           /\ UNCHANGED <<object, line, use, print>>
<1>1. PICK k : k = Cardinality({j \in DOMAIN emitted : emitted[j].main})
  OBVIOUS
<1>2. k \in Nat
  <2>1. emitted \in Seq(Record)
    BY DEF TypeInv
  <2>2. IsFiniteSet(DOMAIN emitted)
    <3>1. PICK n \in Nat : DOMAIN emitted = 1 .. n
      BY <2>1
    <3> QED BY <3>1, FS_Interval
  <2>3. IsFiniteSet({j \in DOMAIN emitted : emitted[j].main})
    BY <2>2, FS_Subset
  <2> QED BY <1>1, <2>3, FS_CardinalityType
<1>3. /\ pc = "idle" /\ k < Len(use.Main) /\ pc' = "instance"
      /\ emitted' = Append(emitted, [main |-> TRUE, m |-> use.Main[k + 1]])
      /\ mine' = Len(emitted') /\ items' = Items(use.Main[k + 1])
      /\ UNCHANGED <<object, line, use, print>>
  BY <1>1, Zenon DEF emit
<1>4. PICK ms \in Seq(Message) : ms = use.Main
  BY UsesAssumption DEF TypeInv, IsUse
<1>5. k + 1 \in 1 .. Len(ms)
  BY <1>2, <1>3, <1>4
<1>6. ms[k + 1] \in Message
  BY <1>5, ElementOfSeq
<1> QED BY <1>3, <1>4, <1>5, <1>6, Zenon

LEMMA EmitKeeps == ASSUME IInv, emit PROVE IInv'
<1>1. PICK msg \in Message :
           /\ \E j \in 1 .. Len(use.Main) : msg = use.Main[j]
           /\ pc = "idle" /\ pc' = "instance"
           /\ emitted' = Append(emitted, [main |-> TRUE, m |-> msg])
           /\ mine' = Len(emitted') /\ items' = Items(msg)
           /\ UNCHANGED <<object, line, use, print>>
  BY MessageOfMain, Zenon DEF IInv, StateInv
<1>2. PICK e \in Record : e = [main |-> TRUE, m |-> msg] /\ e.main /\ e.m = msg
  <2>1. PICK e : e = [main |-> TRUE, m |-> msg]
    OBVIOUS
  <2>2. e \in Record
    BY <2>1 DEF Record
  <2>3. e.main = TRUE /\ e.m = msg
    BY <2>1
  <2> QED BY <2>1, <2>2, <2>3, Zenon
<1>3. emitted \in Seq(Record)
  BY DEF IInv, StateInv, TypeInv
<1>4. PICK n : n = Len(emitted)
  OBVIOUS
<1>5. PICK es : es = emitted'
  OBVIOUS
<1>6. n \in Nat /\ Begun(e, es, n)
  BY <1>1, <1>2, <1>3, <1>4, <1>5, Begins
<1>7. /\ es \in Seq(Record) /\ Len(es) = n + 1 /\ es[n + 1] = e
      /\ \A k \in 1 .. n : es[k] = emitted[k]
      /\ n + 1 \in 1 .. n + 1 /\ \A k \in 1 .. n : k \in 1 .. n + 1
  BY <1>6 DEF Begun
<1>8. mine' = n + 1 /\ n + 1 \in Nat
  BY <1>1, <1>5, <1>6, <1>7
<1>9. StateInv'
  <2>1. TypeInv'
    <3>1. Items(msg) \in Seq(Item)
      BY ItemsOf
    <3> QED BY <1>1, <1>5, <1>7, <1>8, <3>1 DEF IInv, StateInv, TypeInv, object, print
  <2>2. MineInv'
    BY <1>1, <1>2, <1>5, <1>7, <1>8, Zenon DEF MineInv
  <2>3. ItemInv'
    BY <1>1 DEF ItemInv, Printing
  <2>4. ObjectInv'
    BY <1>1 DEF IInv, StateInv, ObjectInv, object
  <2> QED BY <2>1, <2>2, <2>3, <2>4 DEF StateInv
<1>10. LineInv'
  BY <1>1, <1>4, <1>5, <1>7, Zenon DEF IInv, LineInv, object
<1>11. CompleteInv'
  <2> SUFFICES ASSUME NEW k \in 1 .. n + 1, ~ es[k].main, use.Locked \/ Sound(use),
                      allowed(use.Switch, Switched, es[k].m.level), OwnBase(es[k].m)
               PROVE  Chars(line, {k}) = Printed(10, es[k].m).out
    BY <1>1, <1>5, <1>7, Zenon DEF CompleteInv
  <2>1. k # n + 1
    BY <1>2, <1>7
  <2>2. k \in 1 .. n
    BY <1>6, <2>1
  <2>3. es[k] = emitted[k]
    BY <1>7, <2>2
  <2> QED BY <1>4, <2>2, <2>3, Zenon DEF IInv, CompleteInv
<1>12. ASSUME NEW o, NEW T, NEW t, T = Now(BaseOf, o), t = PrintNext(use.Switch, T, msg)
       PROVE  Core(o, t)'
  <2>1. On' <=> allowed(use.Switch, Switched, msg.level)
    BY <1>1, <1>2, <1>5, <1>7, <1>8, Zenon DEF On
  <2>2. BaseOf' = BaseOf
    BY <1>1 DEF BaseOf, object
  <2>3. t = Finish(Now(BaseOf, o))'
    BY <1>1, <1>12, <2>1, <2>2, Zenon DEF PrintNext, Finish
  <2> QED BY <1>1, <2>3, Zenon DEF Core
<1>13. ASSUME NEW M, NEW N, \A k \in 1 .. n : k \in M <=> k \in N, n + 1 \in M,
              Core(Chars(line, N), PrintedAll(use.Switch, emitted, N))
       PROVE  \A o, T : o = Chars(line, M) /\ T = PrintedAll(use.Switch, es, M) => Core(o, T)'
  <2> TAKE o, T
  <2> HAVE o = Chars(line, M) /\ T = PrintedAll(use.Switch, es, M)
  <2>1. PICK switch : switch = use.Switch
    OBVIOUS
  <2>2. /\ Chars(line, M) = Chars(line, N)
        /\ PrintedAll(switch, Append(emitted, e), M) =
             IF n + 1 \in M THEN PrintNext(switch, PrintedAll(switch, emitted, N), e.m)
                            ELSE PrintedAll(switch, emitted, N)
    BY <1>3, <1>4, <1>6, <1>13, Numbers DEF IInv
  <2>3. PICK S : S = PrintedAll(switch, emitted, N)
    OBVIOUS
  <2>4. Core(o, S)
    BY <1>13, <2>1, <2>2, <2>3, Zenon
  <2>5. S = Now(BaseOf, o)
    BY <1>1, <2>4 DEF Core
  <2>6. T = PrintNext(switch, S, msg)
    BY <1>1, <1>2, <1>5, <1>13, <2>1, <2>2, <2>3, Zenon
  <2> QED BY <1>12, <2>1, <2>5, <2>6, Zenon
<1>14. LockedInv'
  <2>1. PICK M, N : M = DOMAIN es /\ N = DOMAIN emitted
    OBVIOUS
  <2>2. (\A k \in 1 .. n : k \in M <=> k \in N) /\ n + 1 \in M
    BY <1>6, <2>1, AllNumbers, Zenon
  <2>3. use.Locked => Core(Chars(line, N), PrintedAll(use.Switch, emitted, N))
    BY <2>1, Zenon DEF IInv, LockedInv
  <2> QED BY <1>1, <1>5, <1>13, <2>1, <2>2, <2>3, Zenon DEF LockedInv, object
<1>15. OwnInv'
  <2>1. PICK M, N : M = {j \in DOMAIN es : es[j].main} /\ N = Own
    OBVIOUS
  <2>2. (\A k \in 1 .. n : k \in M <=> k \in N) /\ n + 1 \in M
    BY <1>2, <1>6, <2>1, AllNumbers, Zenon
  <2>3. Unobtrusive => Core(Chars(line, N), PrintedAll(use.Switch, emitted, N))
    BY <2>1, Zenon DEF IInv, OwnInv
  <2>4. Own' = M /\ (Unobtrusive' <=> Unobtrusive)
    BY <1>1, <1>5, <2>1, Zenon DEF Own, Unobtrusive
  <2> QED BY <1>1, <1>5, <1>13, <2>1, <2>2, <2>3, <2>4, Zenon DEF OwnInv, object
<1> QED BY <1>9, <1>10, <1>11, <1>14, <1>15, Zenon DEF IInv

(***************************************************************************)
(* ... and after the handler has logged a message: r is what it prints, q  *)
(* what of it is put.                                                      *)
(***************************************************************************)
Handled(m, e, es, b, x, r, q, n) ==
  /\ b = BaseOf /\ b \in Bases \cup {0} /\ x \in Bases \cup {b} /\ m \in Message
  /\ pc \notin {"zero", "OutputStream"} \/ Sound(use) => b \in Bases
  /\ use.Locked => pc = "idle"
  /\ e \in Record /\ ~ e.main /\ e.m = m /\ es = emitted'
  /\ n \in Nat /\ n = Len(emitted) /\ Begun(e, es, n) /\ es = Append(emitted, e)
  /\ constructed' = TRUE /\ current' = m.level
  /\ level' = IF constructed THEN level ELSE Switched
  /\ base' = x \/ base' = b
  /\ q \in Seq(Char) /\ r \in Seq(Char) /\ line' = line \o Tags(q, n + 1)
  /\ (\A j \in DOMAIN m.items : m.items[j].kind # "base") => x = b
  /\ OwnBase(m) => Printed(10, m).out = r
  /\ UNCHANGED <<use, pc, mine, items, print>>
  /\ level' = Switched =>
       IF allowed(use.Switch, Switched, m.level)
         THEN /\ base' = x /\ q = r
              /\ \A o \in Seq(Char) : b \in Bases => PrintItems(Now(b, o), Items(m)) = Now(x, o \o r)
         ELSE base' = b /\ q = << >>

LEMMA HandlerIs ==
  ASSUME IInv, NEW m \in use.Handler, handler(m)
  PROVE  \E e, es, b, x, r, q, n : Handled(m, e, es, b, x, r, q, n)
<1>1. PICK b, lv, n : b = BaseOf /\ lv = (IF constructed THEN level ELSE Switched) /\ n = Len(emitted)
  OBVIOUS
<1>2. PICK p : p = Printed(b, m)
  OBVIOUS
<1>3. PICK e : e = [main |-> FALSE, m |-> m]
  OBVIOUS
<1>4. PICK es : es = Append(emitted, e)
  OBVIOUS
<1>5. /\ use.Locked => pc = "idle"
      /\ emitted' = es /\ constructed' = TRUE /\ level' = lv /\ current' = m.level
      /\ base' = IF allowed(use.Switch, lv, m.level) THEN p.base ELSE b
      /\ line' = IF allowed(use.Switch, lv, m.level)
                   THEN line \o [j \in DOMAIN p.out |-> [c |-> p.out[j], n |-> Len(emitted')]]
                   ELSE line
      /\ UNCHANGED <<use, pc, mine, items, print>>
  BY <1>1, <1>2, <1>3, <1>4, Zenon DEF handler, BaseOf
<1>6. IsUse(use) /\ m \in Message
  BY UsesAssumption DEF IInv, StateInv, TypeInv, IsUse
<1>7. /\ b \in Bases \cup {0} /\ (pc \notin {"zero", "OutputStream"} \/ Sound(use) => b \in Bases)
  BY <1>1 DEF IInv, StateInv, TypeInv, ObjectInv, BaseOf, Bases
<1>8. b \in Bases \/ OwnBase(m)
  BY <1>5, <1>6, <1>7 DEF IsUse
<1>9. PICK x \in Bases \cup {b}, r \in Seq(Char) :
           /\ Printed(b, m) = Now(x, r)
           /\ (\A j \in DOMAIN m.items : m.items[j].kind # "base") => x = b
           /\ OwnBase(m) => Printed(10, m).out = r
           /\ \A o \in Seq(Char) : b \in Bases => PrintItems(Now(b, o), Items(m)) = Now(x, o \o r)
  BY <1>6, <1>7, <1>8, HandlerPrints
<1>10. p.base = x /\ p.out = r
  <2>1. Now(x, r).base = x /\ Now(x, r).out = r
    BY NowIs
  <2> QED BY <1>2, <1>9, <2>1, Zenon
<1>11. e \in Record /\ ~ e.main /\ e.m = m
  <2>1. e \in Record
    BY <1>3, <1>6 DEF Record
  <2>2. e.main = FALSE /\ e.m = m
    BY <1>3
  <2> QED BY <2>1, <2>2
<1>12. n \in Nat /\ Begun(e, es, n)
  <2>1. emitted \in Seq(Record)
    BY DEF IInv, StateInv, TypeInv
  <2> QED BY <1>1, <1>4, <1>11, <2>1, Begins
<1>13. Len(emitted') = n + 1
  BY <1>5, <1>12, Zenon DEF Begun
<1>14. line = line \o Tags(<< >>, n + 1) /\ << >> \in Seq(Char)
  BY Nothing DEF IInv
<1>15. CASE allowed(use.Switch, lv, m.level)
  <2>1. base' = x /\ line' = line \o Tags(r, n + 1)
    BY <1>5, <1>10, <1>13, <1>15, Zenon DEF Tags
  <2>2. level' = Switched => allowed(use.Switch, Switched, m.level)
    BY <1>5, <1>15, Zenon
  <2>3. Handled(m, e, es, b, x, r, r, n)
    BY <1>1, <1>4, <1>5, <1>6, <1>7, <1>9, <1>11, <1>12, <2>1, <2>2, Zenon DEF Handled
  <2> QED BY <2>3, Zenon
<1>16. CASE ~ allowed(use.Switch, lv, m.level)
  <2>1. base' = b /\ line' = line \o Tags(<< >>, n + 1)
    BY <1>5, <1>14, <1>16, Zenon
  <2>2. level' = Switched => ~ allowed(use.Switch, Switched, m.level)
    BY <1>5, <1>16, Zenon
  <2>3. PICK q \in Seq(Char) : q = << >>
    BY <1>14
  <2>4. Handled(m, e, es, b, x, r, q, n)
    BY <1>1, <1>4, <1>5, <1>6, <1>7, <1>9, <1>11, <1>12, <2>1, <2>2, <2>3, Zenon DEF Handled
  <2> QED BY <2>4, Zenon
<1> QED BY <1>15, <1>16

LEMMA HandlerState ==
  ASSUME IInv, NEW m, NEW e, NEW es, NEW b, NEW x, NEW r, NEW q, NEW n,
         Handled(m, e, es, b, x, r, q, n)
  PROVE  StateInv' /\ LineInv'
<1>1. /\ b = BaseOf /\ b \in Bases \cup {0} /\ x \in Bases \cup {b}
      /\ pc \notin {"zero", "OutputStream"} \/ Sound(use) => b \in Bases
      /\ es = emitted' /\ n \in Nat /\ n = Len(emitted) /\ Begun(e, es, n)
      /\ constructed' = TRUE
      /\ level' = IF constructed THEN level ELSE Switched
      /\ base' = x \/ base' = b
      /\ q \in Seq(Char) /\ line' = line \o Tags(q, n + 1)
      /\ UNCHANGED <<use, pc, mine, items, print>>
  BY Zenon DEF Handled
<1>2. /\ es \in Seq(Record) /\ Len(es) = n + 1 /\ es[n + 1] = e
      /\ \A k \in 1 .. n : es[k] = emitted[k]
      /\ n + 1 \in 1 .. n + 1 /\ \A k \in 1 .. n : k \in 1 .. n + 1
  BY <1>1 DEF Begun
<1>3. base' \in Bases \cup {0} /\ (b \in Bases => base' \in Bases)
  BY <1>1
<1>4. TypeInv'
  BY <1>1, <1>2, <1>3 DEF IInv, StateInv, TypeInv, print, Printing
<1>5. MineInv'
  BY <1>1, <1>2, Zenon DEF IInv, StateInv, MineInv
<1>6. ItemInv'
  BY <1>1 DEF IInv, StateInv, ItemInv, Printing, print
<1>7. ObjectInv'
  <2>1. pc' \notin {"zero", "OutputStream"} \/ Sound(use') => base' \in Bases
    BY <1>1, <1>3
  <2>2. Sound(use') \/ pc' \notin {"zero", "OutputStream", "OutputLevel"} => level' = Switched
    BY <1>1 DEF IInv, StateInv, ObjectInv
  <2>3. pc' = "zero" => use'.Zeroed
    BY <1>1 DEF IInv, StateInv, ObjectInv
  <2> QED BY <1>1, <2>1, <2>2, <2>3 DEF ObjectInv
<1>8. LineInv'
  <2>1. PICK l \in Seq(Tagged) : l = line /\ \A k \in 1 .. Len(l) : l[k].n \in 1 .. n
    BY <1>1 DEF IInv, LineInv
  <2>2. PICK t : t = l \o Tags(q, n + 1)
    OBVIOUS
  <2>3. /\ t \in Seq(Tagged)
        /\ \A k \in 1 .. Len(t) : (k \in 1 .. Len(l) /\ t[k] = l[k]) \/ t[k].n = n + 1
    <3>1. n + 1 \in Nat
      BY <1>1
    <3>2. /\ l \o Tags(q, n + 1) \in Seq(Tagged)
          /\ \A k \in 1 .. Len(l \o Tags(q, n + 1)) :
               \/ k \in 1 .. Len(l) /\ (l \o Tags(q, n + 1))[k] = l[k]
               \/ k > Len(l) /\ (l \o Tags(q, n + 1))[k].n = n + 1
      BY <1>1, <3>1, CharsPut
    <3> QED BY <2>2, <3>2, Zenon
  <2>4. \A k \in 1 .. Len(t) : t[k].n \in 1 .. n + 1
    BY <1>2, <2>1, <2>3, Zenon
  <2> QED BY <1>1, <1>2, <2>1, <2>2, <2>3, <2>4, Zenon DEF LineInv
<1> QED BY <1>4, <1>5, <1>6, <1>7, <1>8 DEF StateInv

LEMMA HandlerComplete ==
  ASSUME IInv, NEW m, NEW e, NEW es, NEW b, NEW x, NEW r, NEW q, NEW n,
         Handled(m, e, es, b, x, r, q, n)
  PROVE  CompleteInv'
<1>1. /\ b = BaseOf /\ b \in Bases \cup {0} /\ x \in Bases \cup {b}
      /\ es = emitted' /\ n \in Nat /\ n = Len(emitted) /\ Begun(e, es, n) /\ e.m = m
      /\ level' = IF constructed THEN level ELSE Switched
      /\ q \in Seq(Char) /\ r \in Seq(Char) /\ line' = line \o Tags(q, n + 1)
      /\ OwnBase(m) => Printed(10, m).out = r
      /\ UNCHANGED <<use, pc>>
      /\ level' = Switched =>
           (IF allowed(use.Switch, Switched, m.level) THEN q = r ELSE q = << >>)
  BY Zenon DEF Handled
<1>2. /\ Len(es) = n + 1 /\ es[n + 1] = e
      /\ \A k \in 1 .. n : es[k] = emitted[k]
  BY <1>1 DEF Begun
<1>3. PICK l \in Seq(Tagged) : l = line /\ \A k \in 1 .. Len(l) : l[k].n \in 1 .. n
  BY <1>1 DEF IInv, LineInv
<1>4. PICK i \in Nat : i = n + 1
  BY <1>1
<1>5. PICK t : t = l \o Tags(q, i)
  OBVIOUS
<1>6. \A N : /\ i \in N => Chars(t, N) = Chars(l, N) \o q
             /\ i \notin N => Chars(t, N) = Chars(l, N)
  <2>1. q \in Seq(Char)
    BY <1>1
  <2> QED BY <1>5, <2>1, CharsPut
<1>7. line' = t
  BY <1>1, <1>3, <1>4, <1>5, Zenon
<1> SUFFICES ASSUME NEW k \in 1 .. n + 1, ~ es[k].main, use.Locked \/ Sound(use),
                    allowed(use.Switch, Switched, es[k].m.level), OwnBase(es[k].m)
             PROVE  Chars(t, {k}) = Printed(10, es[k].m).out
  BY <1>1, <1>2, <1>7, Zenon DEF CompleteInv
<1>8. CASE k = n + 1
  <2>1. k = i /\ es[k] = e
    BY <1>2, <1>4, <1>8
  <2>2. level' = Switched
    <3>1. use.Locked => pc = "idle"
      BY Zenon DEF Handled
    <3>2. constructed => level = Switched
      BY <3>1 DEF IInv, StateInv, ObjectInv
    <3> QED BY <1>1, <3>2
  <2>3. q = r
    BY <1>1, <2>1, <2>2, Zenon
  <2>4. Chars(l, {k}) = << >>
    <3>1. \A j \in 1 .. Len(l) : l[j].n \notin {k}
      <4>1. k \notin 1 .. n
        BY <1>1, <1>8
      <4> QED BY <1>3, <4>1
    <3> QED BY <3>1, CharsNone
  <2>5. Chars(t, {k}) = << >> \o q
    BY <1>6, <2>1, <2>4, Zenon
  <2>6. << >> \o q = q
    BY <1>1, ConcatEmptySeq
  <2> QED BY <1>1, <2>1, <2>3, <2>5, <2>6, Zenon
<1>9. CASE k \in 1 .. n
  <2>1. es[k] = emitted[k] /\ i \notin {k}
    BY <1>1, <1>2, <1>4, <1>9
  <2>2. Chars(t, {k}) = Chars(l, {k})
    BY <1>6, <2>1, Zenon
  <2> QED BY <1>1, <1>3, <1>9, <2>1, <2>2, Zenon DEF IInv, CompleteInv
<1> QED BY <1>1, <1>8, <1>9

LEMMA HandlerLocked ==
  ASSUME IInv, NEW m, NEW e, NEW es, NEW b, NEW x, NEW r, NEW q, NEW n,
         Handled(m, e, es, b, x, r, q, n)
  PROVE  LockedInv'
<1> SUFFICES ASSUME use.Locked, NEW M, M = DOMAIN es
             PROVE  \A o, T : o = Chars(line, M)' /\ T = PrintedAll(use.Switch, es, M) => Core(o, T)'
  <2>1. use' = use /\ es = emitted'
    BY Zenon DEF Handled
  <2> QED BY <2>1, Zenon DEF LockedInv
<1>1. /\ b = BaseOf /\ pc = "idle" /\ e \in Record /\ e.m = m /\ m \in Message
      /\ pc \notin {"zero", "OutputStream"} \/ Sound(use) => b \in Bases
      /\ es = emitted' /\ es = Append(emitted, e)
      /\ n \in Nat /\ n = Len(emitted) /\ Begun(e, es, n)
      /\ constructed' = TRUE /\ level' = IF constructed THEN level ELSE Switched
      /\ x \in Bases \cup {b}
      /\ q \in Seq(Char) /\ r \in Seq(Char) /\ line' = line \o Tags(q, n + 1)
      /\ UNCHANGED <<use, pc>>
      /\ level' = Switched =>
           IF allowed(use.Switch, Switched, m.level)
             THEN /\ base' = x /\ q = r
                  /\ \A o \in Seq(Char) : b \in Bases => PrintItems(Now(b, o), Items(m)) = Now(x, o \o r)
             ELSE base' = b /\ q = << >>
  BY Zenon DEF Handled
<1>2. PICK i \in Nat : i = n + 1
  BY <1>1
<1>3. i \in M /\ b \in Bases
  <2>1. i \in M
    BY <1>1, <1>2, AllNumbers
  <2>2. pc \notin {"zero", "OutputStream"}
    BY <1>1
  <2> QED BY <1>1, <2>1, <2>2
<1>4. level' = Switched
  <2>1. constructed => level = Switched
    BY <1>1 DEF IInv, StateInv, ObjectInv
  <2> QED BY <1>1, <2>1
<1>5. PICK N, switch : N = DOMAIN emitted /\ switch = use.Switch
  OBVIOUS
<1>6. PICK S : S = PrintedAll(switch, emitted, N)
  OBVIOUS
<1>7. PICK c \in Seq(Char) : c = Chars(line, N)
  BY CharsType DEF IInv
<1>8. S = Now(b, c)
  <2>1. Core(c, S)
    BY <1>5, <1>6, <1>7, Zenon DEF IInv, LockedInv
  <2> QED BY <1>1, <2>1 DEF Core
<1>9. Chars(line, M) = c /\ PrintedAll(switch, es, M) = PrintNext(switch, S, m)
  <2>1. emitted \in Seq(Record)
    BY DEF IInv, StateInv, TypeInv
  <2>2. Same(M, N, n)
    BY <1>1, <1>5, AllNumbers DEF Same
  <2>3. e \in Record /\ n \in Nat /\ n = Len(emitted) /\ n + 1 \in M /\ LineInv
    BY <1>1, <1>2, <1>3 DEF IInv
  <2>4. Chars(line, M) = Chars(line, N)
    BY <2>1, <2>2, <2>3, CharsLast
  <2>5. PrintedAll(switch, Append(emitted, e), M) = PrintNext(switch, PrintedAll(switch, emitted, N), e.m)
    BY <2>1, <2>2, <2>3, PrintedIn
  <2> QED BY <1>1, <1>6, <1>7, <2>4, <2>5, Zenon
<1>10. Chars(line', M) = c \o q
  <2>1. PICK l \in Seq(Tagged) : l = line
    BY DEF IInv, LineInv
  <2>2. Chars(l \o Tags(q, i), M) = Chars(l, M) \o q
    <3>1. q \in Seq(Char)
      BY <1>1
    <3> QED BY <1>3, <3>1, CharsIn
  <2> QED BY <1>1, <1>2, <1>9, <2>1, <2>2, Zenon
<1>11. PrintNext(switch, S, m) = Now(base', c \o q)
  <2>1. CASE allowed(use.Switch, Switched, m.level)
    BY <1>1, <1>3, <1>4, <1>5, <1>8, <2>1, Zenon DEF PrintNext
  <2>2. CASE ~ allowed(use.Switch, Switched, m.level)
    <3>1. c \o << >> = c
      BY ConcatEmptySeq
    <3> QED BY <1>1, <1>4, <1>5, <1>8, <2>2, <3>1, Zenon DEF PrintNext
  <2> QED BY <2>1, <2>2
<1>12. TAKE o, T
<1>13. HAVE o = Chars(line, M)' /\ T = PrintedAll(use.Switch, es, M)
<1>14. T = Now(base', o)
  BY <1>5, <1>9, <1>10, <1>11, <1>13, Zenon
<1> QED BY <1>1, <1>14, Zenon DEF Core, BaseOf

LEMMA HandlerOwn ==
  ASSUME IInv, NEW m \in use.Handler, NEW e, NEW es, NEW b, NEW x, NEW r, NEW q, NEW n,
         Handled(m, e, es, b, x, r, q, n)
  PROVE  OwnInv'
<1>1. /\ b = BaseOf /\ e \in Record /\ ~ e.main /\ e.m = m /\ m \in Message
      /\ es = emitted' /\ es = Append(emitted, e)
      /\ n \in Nat /\ n = Len(emitted) /\ Begun(e, es, n)
      /\ constructed' = TRUE /\ current' = m.level
      /\ base' = x \/ base' = b
      /\ (\A j \in DOMAIN m.items : m.items[j].kind # "base") => x = b
      /\ line' = line \o Tags(q, n + 1)
      /\ UNCHANGED <<use, pc, mine, items, ival, div, oldbase>>
  BY Zenon DEF Handled, print
<1>2. q \in Seq(Char)
  BY Zenon DEF Handled
<1>3. Unobtrusive' <=> Unobtrusive
  BY <1>1, Zenon DEF Unobtrusive
<1>4. PICK M : M = {j \in DOMAIN es : es[j].main}
  OBVIOUS
<1> SUFFICES ASSUME Unobtrusive
             PROVE  \A o, T : o = Chars(line, M)' /\ T = PrintedAll(use.Switch, es, M) => Core(o, T)'
  BY <1>1, <1>3, <1>4, Zenon DEF OwnInv, Own
<1>5. base' = b /\ allowed(use.Switch, Switched, m.level)
  BY <1>1, Zenon DEF Unobtrusive
<1>6. PICK i \in Nat : i = n + 1
  BY <1>1
<1>7. PICK N, switch : N = Own /\ switch = use.Switch
  OBVIOUS
<1>8. (\A k \in 1 .. n : k \in M <=> k \in N) /\ i \notin M
  BY <1>1, <1>4, <1>6, <1>7, AllNumbers, Zenon
<1>9. PICK S : S = PrintedAll(switch, emitted, N)
  OBVIOUS
<1>10. PICK c \in Seq(Char) : c = Chars(line, N)
  BY CharsType DEF IInv
<1>11. Core(c, S)
  BY <1>7, <1>9, <1>10, Zenon DEF IInv, OwnInv
<1>12. Chars(line, M) = c /\ PrintedAll(switch, es, M) = S
  <2>1. emitted \in Seq(Record)
    BY DEF IInv, StateInv, TypeInv
  <2>2. Same(M, N, n)
    BY <1>8 DEF Same
  <2>3. e \in Record /\ n \in Nat /\ n = Len(emitted) /\ n + 1 \notin M /\ LineInv
    BY <1>1, <1>6, <1>8 DEF IInv
  <2>4. Chars(line, M) = Chars(line, N)
    BY <2>1, <2>2, <2>3, CharsLast
  <2>5. PrintedAll(switch, Append(emitted, e), M) = PrintedAll(switch, emitted, N)
    BY <2>1, <2>2, <2>3, PrintedOut
  <2> QED BY <1>1, <1>9, <1>10, <2>4, <2>5, Zenon
<1>13. Chars(line', M) = c
  <2>1. PICK l \in Seq(Tagged) : l = line
    BY DEF IInv, LineInv
  <2>2. Chars(l \o Tags(q, i), M) = Chars(l, M)
    BY <1>2, <1>8, CharsOut
  <2> QED BY <1>1, <1>6, <1>12, <2>1, <2>2, Zenon
<1>14. Core(c, S)'
  <2>1. BaseOf' = b
    BY <1>1, <1>5, Zenon DEF BaseOf
  <2>2. /\ pc # "idle" => (On' <=> On) /\ On
        /\ Allows'
    <3>1. pc # "idle" => /\ mine \in 1 .. n
                         /\ \E j \in 1 .. Len(use.Main) : emitted[mine].m = use.Main[j]
      BY <1>1 DEF IInv, StateInv, MineInv
    <3>2. \A k \in 1 .. n : es[k] = emitted[k]
      BY <1>1 DEF Begun
    <3>3. PICK ms \in Seq(Message) : ms = use.Main
      BY UsesAssumption DEF IInv, StateInv, TypeInv, IsUse
    <3>4. DOMAIN use.Main = 1 .. Len(use.Main)
      BY <3>3
    <3>5. pc # "idle" => On
      BY <3>1, <3>4, Zenon DEF On, Unobtrusive
    <3>6. pc # "idle" => (On' <=> On)
      BY <1>1, <3>1, <3>2, Zenon DEF On
    <3>7. Allows'
      BY <1>1, <1>5, Zenon DEF Allows
    <3> QED BY <3>5, <3>6, <3>7, Zenon
  <2>3. \A s : pc # "idle" => Finish(s)' = Finish(s)
    BY <1>1, <2>2, Zenon DEF Finish
  <2>4. constructed => base' = base
    BY <1>1, <1>5 DEF BaseOf
  <2>5. constructed => \A o : Rest(o, S) => Rest(o, S)'
    BY <1>1, <2>4, Zenon DEF Rest
  <2>6. CASE pc \in {"idle", "instance", "zero", "OutputStream"}
    BY <1>1, <1>11, <2>1, <2>3, <2>6 DEF Core
  <2>7. CASE pc \in {"OutputLevel", "constructed"}
    <3>1. base = 10 /\ S = Finish(Now(10, c))
      BY <1>11, <2>7 DEF Core
    <3>2. base' = 10
      BY <1>1, <1>5, <3>1 DEF BaseOf
    <3> QED BY <1>1, <2>3, <2>7, <3>1, <3>2 DEF Core
  <2>8. CASE pc \in {"level", "item"}
    <3>1. constructed
      BY <2>8 DEF IInv, StateInv, ObjectInv
    <3>2. S = Finish(Now(base, c))
      BY <1>11, <2>8 DEF Core
    <3>3. S = Finish(Now(base, c))'
      BY <2>3, <2>4, <2>8, <3>1, <3>2
    <3> QED BY <1>1, <2>2, <2>8, <3>3 DEF Core
  <2>9. CASE pc \in {"text", "base", "int", "ptr", "ptrBase", "ptrEnd"}
    <3>1. constructed
      BY <2>9 DEF IInv, StateInv, ObjectInv
    <3> QED BY <1>1, <1>11, <2>2, <2>4, <2>5, <2>9, <3>1 DEF Core
  <2>10. CASE pc \in {"prefix", "scale"}
    <3>1. constructed
      BY <2>10 DEF IInv, StateInv, ObjectInv
    <3>2. base' = base /\ ival' = ival /\ div' = div
      BY <1>1, <2>4, <3>1
    <3>3. /\ pc = "prefix" => Rest(c \o Numeral(ival, base), S)'
          /\ pc = "scale" => /\ Power(div, base)' /\ (div = 1 \/ div <= ival)'
                             /\ Rest(c \o Digits(ival, base), S)'
      <4>1. /\ pc = "prefix" => Rest(c \o Numeral(ival, base), S)
            /\ pc = "scale" => /\ Power(div, base) /\ (div = 1 \/ div <= ival)
                               /\ Rest(c \o Digits(ival, base), S)
        BY <1>11, <2>10 DEF Core
      <4> QED BY <2>5, <3>1, <3>2, <4>1, Zenon
    <3> QED BY <1>1, <2>2, <2>10, <3>3 DEF Core
  <2>11. CASE pc = "digit"
    <3>1. constructed
      BY <2>11 DEF IInv, StateInv, ObjectInv
    <3>2. base' = base /\ ival' = ival /\ div' = div
      BY <1>1, <2>4, <3>1
    <3>3. PICK v \in 0 .. Modulus - 1, out \in Seq(Char) : Halfway(c, S, v, out)
      BY <1>11, <2>11 DEF Core
    <3>4. Halfway(c, S, v, out)'
      <4>1. Rest(out \o Digits(v, base), S)'
        BY <2>5, <3>1, <3>2, <3>3, Zenon DEF Halfway
      <4> QED BY <3>2, <3>3, <4>1, Zenon DEF Halfway
    <3>5. \E u \in 0 .. Modulus - 1, o \in Seq(Char) : Halfway(c, S, u, o)'
      BY <3>4, Zenon
    <3>6. Power(div, base)'
      BY <1>11, <2>11, <3>2 DEF Core
    <3> QED BY <1>1, <2>2, <2>11, <3>5, <3>6, Zenon DEF Core
  <2> QED BY <2>6, <2>7, <2>8, <2>9, <2>10, <2>11 DEF IInv, StateInv, TypeInv, Printing
<1> QED BY <1>7, <1>12, <1>13, <1>14, Zenon

-----------------------------------------------------------------------------
(***************************************************************************)
(* Core is about what has been put of what T shows: its beginning.         *)
(***************************************************************************)
LEMMA DigitsPrefix ==
  ASSUME NEW b \in Bases, NEW w, Power(w, b), NEW v \in 0 .. Modulus - 1, w <= v
  PROVE  w \in Nat /\ \E a \in Seq(Char) : Digits(v, b) = Digits(v \div w, b) \o a
<1> DEFINE Q(u, n) == \E a \in Seq(Char) : Digits(n, b) = Digits(n \div u, b) \o a
           S == {u \in Nat : u >= 1 /\ \A n \in 0 .. Modulus - 1 : u <= n => Q(u, n)}
<1>1. b \in Nat /\ b >= 2 /\ Modulus \in Nat
  BY ModulusAssumption DEF Bases
<1>2. ASSUME NEW n \in 0 .. Modulus - 1 PROVE Q(1, n)
  <2>1. n \div 1 = n
    BY <1>1
  <2>2. PICK d \in Seq(Char) : d = Digits(n, b)
    BY DigitsAre
  <2>3. d = d \o << >> /\ << >> \in Seq(Char)
    BY ConcatEmptySeq, EmptySeq
  <2> QED BY <2>1, <2>2, <2>3, Zenon
<1>3. ASSUME NEW u \in Nat, u >= 1, NEW n \in 0 .. Modulus - 1, b * u <= n, u <= n => Q(u, n)
      PROVE  Q(b * u, n)
  <2>1. n \in Nat /\ n < Modulus
    BY <1>1
  <2>2. Digit1(n, b, u)
    BY <1>1, <1>3, <2>1, Digit1Is
  <2>3. /\ b * u \in Nat /\ n \div u \in Nat /\ (n \div u) \div b = n \div (b * u)
        /\ n >= b * u => n \div u >= b
    BY <2>2, Zenon DEF Digit1
  <2>4. PICK p \in Nat, q \in Nat : p = b * u /\ q = n \div u
    BY <2>3, Zenon
  <2>5. n >= p /\ p <= n
    BY <1>3, <2>1, <2>4
  <2>6. q >= b
    BY <2>3, <2>4, <2>5, Zenon
  <2>7. u <= n
    <3>1. b * u >= u
      BY <1>1, SMTT(20)
    <3> QED BY <2>1, <2>4, <2>5, <3>1
  <2>8. q \in 0 .. Modulus - 1
    <3>1. q <= n
      <4>1. n = u * q + (n % u) /\ n % u \in Nat
        BY <1>3, <2>1, <2>4
      <4>2. u * q >= q /\ u * q \in Nat
        BY <1>3, SMTT(20)
      <4>3. PICK s \in Nat, t \in Nat : s = u * q /\ t = n % u
        BY <4>1, <4>2, Zenon
      <4>4. n = s + t /\ s >= q
        BY <4>1, <4>2, <4>3, Zenon
      <4> QED BY <2>1, <4>4
    <3> QED BY <1>1, <2>1, <3>1
  <2>9. PICK a \in Seq(Char) : Digits(n, b) = Digits(q, b) \o a
    BY <1>3, <2>4, <2>7, Zenon
  <2>10. PICK t \in 0 .. Modulus - 1 : t = q \div b
    <3>1. PICK t \in Nat : t = q \div b
      BY <2>4, Divides
    <3>2. t <= q
      BY <2>6, <3>1, Shrinks
    <3>3. t <= Modulus - 1
      BY <1>1, <2>8, <3>2
    <3> QED BY <3>1, <3>3
  <2>11. PICK d \in Seq(Char), c \in Char : d = Digits(t, b) /\ c = Digit(q % b)
    <3>1. Digits(t, b) \in Seq(Char)
      BY DigitsAre
    <3>2. q % b \in Nat
      BY <2>4, Divides
    <3>3. Digit(q % b) \in Char
      BY <3>2, DigitType
    <3> QED BY <3>1, <3>3, Zenon
  <2>12. Digits(q, b) = Append(d, c)
    <3>1. ~ q < b
      BY <1>1, <2>6
    <3>2. Digits(q, b) = IF q < b THEN <<Digit(q)>> ELSE Append(Digits(q \div b, b), Digit(q % b))
      BY <2>8, DigitsAre
    <3> QED BY <2>10, <2>11, <3>1, <3>2, Zenon
  <2>13. Append(d, c) \o a = d \o (<<c>> \o a) /\ <<c>> \o a \in Seq(Char)
    <3>1. <<c>> \in Seq(Char) /\ Append(d, c) = d \o <<c>>
      BY AppendIsConcat
    <3>2. (d \o <<c>>) \o a = d \o (<<c>> \o a) /\ <<c>> \o a \in Seq(Char)
      BY <3>1, ConcatAssociative, ConcatProperties
    <3> QED BY <3>1, <3>2, Zenon
  <2>14. Digits(n, b) = Digits(n \div (b * u), b) \o (<<c>> \o a)
    BY <2>3, <2>4, <2>9, <2>10, <2>11, <2>12, <2>13, Zenon
  <2> QED BY <2>13, <2>14, Zenon
<1> HIDE DEF Q
<1>4. 1 \in S
  BY <1>2
<1>5. ASSUME NEW u \in S PROVE b * u \in S
  <2>1. u \in Nat /\ u >= 1 /\ b * u \in Nat /\ b * u >= 1
    BY <1>1
  <2>2. \A n \in 0 .. Modulus - 1 : b * u <= n => Q(b * u, n)
    BY <1>3, <2>1
  <2> QED BY <2>1, <2>2
<1>6. S \in SUBSET Nat
  OBVIOUS
<1> HIDE DEF S
<1>7. w \in S
  BY <1>4, <1>5, <1>6, Zenon DEF Power
<1>8. w \in Nat /\ Q(w, v)
  BY <1>7 DEF S
<1> QED BY <1>8 DEF Q

LEMMA Quotient ==
  ASSUME NEW v \in 0 .. Modulus - 1, NEW p \in Nat, p >= 1
  PROVE  v \div p \in 0 .. Modulus - 1
<1>1. v \in Nat /\ Modulus \in Nat
  BY ModulusAssumption
<1>2. PICK q \in Nat, r \in Nat : q = v \div p /\ r = v % p
  BY <1>1
<1>3. v = p * q + r
  BY <1>1, <1>2
<1>4. PICK s \in Nat : s = p * q
  OBVIOUS
<1>5. s >= q
  BY <1>4, SMTT(20)
<1>6. v = s + r
  BY <1>3, <1>4
<1> QED BY <1>1, <1>2, <1>5, <1>6

(* T shows o, and more.                                                    *)
Extends(o, T) == \E r \in Seq(Char) : T.out = o \o r

LEMMA PrintsMore ==
  ASSUME NEW xs \in Seq(Item), NEW b \in Bases, NEW o \in Seq(Char)
  PROVE  Extends(o, PrintItems(Now(b, o), xs))
<1>1. PICK x \in Bases, r \in Seq(Char) : PrintItems(Now(b, o), xs) = Now(x, o \o r)
  BY Prints
<1>2. Now(x, o \o r).out = o \o r
  BY NowIs
<1> QED BY <1>1, <1>2, Zenon DEF Extends

LEMMA ExtendsMore ==
  ASSUME NEW o \in Seq(Char), NEW a \in Seq(Char), NEW T, Extends(o \o a, T)
  PROVE  Extends(o, T)
<1>1. PICK r \in Seq(Char) : T.out = (o \o a) \o r
  BY DEF Extends
<1>2. (o \o a) \o r = o \o (a \o r) /\ a \o r \in Seq(Char)
  BY ConcatAssociative, ConcatProperties
<1> QED BY <1>1, <1>2, Zenon DEF Extends

LEMMA FinishMore ==
  ASSUME StateInv, NEW b \in Bases, NEW o \in Seq(Char)
  PROVE  Extends(o, Finish(Now(b, o)))
<1>1. items \in Seq(Item)
  BY DEF StateInv, TypeInv
<1>2. CASE On
  BY <1>1, <1>2, PrintsMore, Zenon DEF Finish
<1>3. CASE ~ On
  <2>1. Now(b, o).out = o /\ o = o \o << >> /\ << >> \in Seq(Char)
    BY NowIs, ConcatEmptySeq, EmptySeq
  <2>2. Extends(o, Now(b, o))
    BY <2>1, Zenon DEF Extends
  <2> QED BY <1>3, <2>2, Zenon DEF Finish
<1> QED BY <1>2, <1>3

LEMMA RestMore ==
  ASSUME StateInv, pc \in Printing \cup {"ptrEnd"}, NEW o \in Seq(Char), NEW T, Rest(o, T)
  PROVE  Extends(o, T)
<1>1. items \in Seq(Item) /\ items # << >>
  BY DEF StateInv, TypeInv, ItemInv
<1>2. Tail(items) \in Seq(Item)
  BY <1>1, HeadTail
<1>3. PICK b : b = IF Head(items).kind = "ptr" THEN oldbase ELSE base
  OBVIOUS
<1>4. b \in Bases
  BY <1>3 DEF StateInv, ItemInv, ObjectInv, Printing
<1>5. T = PrintItems(Now(b, o), Tail(items))
  BY <1>3, Zenon DEF Rest
<1> QED BY <1>2, <1>4, <1>5, PrintsMore, Zenon

LEMMA CoreMore ==
  ASSUME StateInv, NEW o \in Seq(Char), NEW T, Core(o, T)
  PROVE  Extends(o, T) /\ (pc = "idle" => T.out = o)
<1>1. items \in Seq(Item) /\ 10 \in Bases /\ ival \in 0 .. Modulus - 1
  BY DEF StateInv, TypeInv, Bases
<1>2. pc \notin {"zero", "OutputStream"} => BaseOf \in Bases
  BY DEF StateInv, ObjectInv, BaseOf, Bases
<1>3. pc \notin {"idle", "instance", "zero", "OutputStream", "OutputLevel", "constructed"} => base \in Bases
  BY DEF StateInv, ObjectInv
<1>4. CASE pc = "idle"
  <2>1. T = Now(BaseOf, o)
    BY <1>4 DEF Core
  <2>2. Now(BaseOf, o).out = o /\ o = o \o << >> /\ << >> \in Seq(Char)
    BY NowIs, ConcatEmptySeq, EmptySeq
  <2> QED BY <2>1, <2>2, Zenon DEF Extends
<1>5. CASE pc \in {"instance", "zero", "OutputStream", "OutputLevel", "constructed", "level", "item"}
  <2>1. \E b \in Bases : T = Finish(Now(b, o))
    BY <1>1, <1>2, <1>3, <1>5 DEF Core
  <2>2. Extends(o, T)
    BY <2>1, FinishMore, Zenon
  <2> QED BY <1>5, <2>2
<1>6. CASE pc \in {"text", "base", "int", "ptr", "ptrBase"}
  <2>1. T = PrintItems(Now(base, o), items) /\ base \in Bases
    BY <1>3, <1>6 DEF Core
  <2>2. Extends(o, T)
    BY <1>1, <2>1, PrintsMore, Zenon
  <2> QED BY <1>6, <2>2
<1>7. CASE pc \in {"prefix", "scale"}
  <2>1. \E a \in Seq(Char) : Rest(o \o a, T)
    <3>1. Numeral(ival, base) \in Seq(Char) /\ Digits(ival, base) \in Seq(Char)
      BY <1>1, <1>3, <1>7, NumeralType, DigitsAre
    <3>2. Rest(o \o Numeral(ival, base), T) \/ Rest(o \o Digits(ival, base), T)
      BY <1>7 DEF Core
    <3> QED BY <3>1, <3>2, Zenon
  <2>2. PICK a \in Seq(Char) : Rest(o \o a, T)
    BY <2>1
  <2>3. o \o a \in Seq(Char)
    BY ConcatProperties
  <2>4. pc \in Printing \cup {"ptrEnd"} /\ pc # "idle"
    BY <1>7 DEF Printing
  <2> QED BY <2>2, <2>3, <2>4, RestMore, ExtendsMore
<1>8. CASE pc = "digit"
  <2>1. /\ Power(div, base) /\ base \in Bases
        /\ \E v \in 0 .. Modulus - 1, out \in Seq(Char) : Halfway(o, T, v, out)
    BY <1>3, <1>8 DEF Core
  <2>2. PICK v \in 0 .. Modulus - 1, out \in Seq(Char) : Halfway(o, T, v, out)
    BY <2>1
  <2>3. PICK p : p = base * div
    OBVIOUS
  <2>4. /\ o = IF v < p THEN out ELSE out \o Digits(v \div p, base)
        /\ Rest(out \o Digits(v, base), T)
    BY <2>2, <2>3, Zenon DEF Halfway
  <2>5. PICK d \in Seq(Char) : d = Digits(v, base)
    BY <2>1, DigitsAre
  <2>6. out \o d \in Seq(Char)
    BY ConcatProperties
  <2>7. pc \in Printing \cup {"ptrEnd"} /\ pc # "idle"
    BY <1>8 DEF Printing
  <2>8. Extends(out \o d, T)
    BY <2>4, <2>5, <2>6, <2>7, RestMore
  <2>9. CASE v < p
    BY <2>4, <2>7, <2>8, <2>9, ExtendsMore
  <2>10. CASE ~ v < p
    <3>1. Power(p, base) /\ p <= v /\ p \in Nat
      <4>1. div \in Nat /\ base \in Nat
        BY <2>1 DEF StateInv, TypeInv, Bases
      <4>2. p \in Nat
        BY <2>3, <4>1
      <4>3. Power(p, base)
        BY <2>1, <2>3, <4>1, Powers
      <4>4. v \in Nat
        BY ModulusAssumption
      <4> QED BY <2>10, <4>2, <4>3, <4>4
    <3>2. PICK a \in Seq(Char) : Digits(v, base) = Digits(v \div p, base) \o a
      BY <2>1, <3>1, DigitsPrefix
    <3>3. PICK t \in 0 .. Modulus - 1 : t = v \div p
      <4>1. div >= 1 /\ div \in Nat /\ base \in Nat /\ base >= 2
        BY <1>8, <2>1 DEF StateInv, TypeInv, ItemInv, Bases
      <4>2. base * div >= 1
        BY <4>1, SMTT(20)
      <4>3. p >= 1
        BY <2>3, <4>2, Zenon
      <4> QED BY <3>1, <4>3, Quotient
    <3>4. PICK f \in Seq(Char) : f = Digits(t, base)
      BY <2>1, DigitsAre
    <3>5. out \o d = o \o a
      <4>1. (out \o f) \o a = out \o (f \o a)
        BY JoinChars, Zenon
      <4> QED BY <2>4, <2>5, <2>10, <3>2, <3>3, <3>4, <4>1, Zenon
    <3>6. Extends(o \o a, T)
      BY <2>8, <3>5, Zenon
    <3> QED BY <2>7, <3>6, ExtendsMore
  <2> QED BY <2>9, <2>10
<1>9. CASE pc = "ptrEnd"
  <2>1. Rest(o, T)
    BY <1>9 DEF Core
  <2> QED BY <1>9, <2>1, RestMore
<1> QED BY <1>4, <1>5, <1>6, <1>7, <1>8, <1>9 DEF StateInv, TypeInv, Printing

LEMMA PrefixIs ==
  ASSUME NEW o \in Seq(Char), NEW r \in Seq(Char)
  PROVE  IsPrefix(o, o \o r)
<1>1. PICK t : t = o \o r
  OBVIOUS
<1>2. /\ t \in Seq(Char) /\ Len(t) = Len(o) + Len(r)
      /\ \A k \in 1 .. Len(o) + Len(r) : t[k] = IF k <= Len(o) THEN o[k] ELSE r[k - Len(o)]
  <2>1. /\ o \o r \in Seq(Char) /\ Len(o \o r) = Len(o) + Len(r)
        /\ \A k \in 1 .. Len(o) + Len(r) : (o \o r)[k] = IF k <= Len(o) THEN o[k] ELSE r[k - Len(o)]
    BY ConcatProperties
  <2> QED BY <1>1, <2>1, Zenon
<1>3. PICK n \in Nat, k \in Nat : n = Len(o) /\ k = Len(r)
  OBVIOUS
<1>4. \A j \in 1 .. n : t[j] = o[j]
  <2>1. \A j \in 1 .. n : j \in 1 .. n + k /\ j <= n
    OBVIOUS
  <2> QED BY <1>2, <1>3, <2>1, Zenon
<1>5. SubSeq(o, 1, n) = SubSeq(t, 1, n)
  <2>1. SubSeq(o, 1, n) = [j \in 1 .. n |-> o[j]] /\ SubSeq(t, 1, n) = [j \in 1 .. n |-> t[j]]
    BY <1>2, <1>3
  <2> QED BY <1>4, <2>1
<1>6. n <= Len(t)
  BY <1>2, <1>3
<1> QED BY <1>1, <1>3, <1>5, <1>6 DEF IsPrefix

LEMMA AloneIs ==
  ASSUME StateInv, LineInv, NEW N,
         \A o, T : o = Chars(line, N) /\ T = PrintedAll(use.Switch, emitted, N) => Core(o, T)
  PROVE  Alone(N)
<1>1. PICK o \in Seq(Char) : o = Chars(line, N)
  BY CharsType
<1>2. PICK T : T = PrintedAll(use.Switch, emitted, N)
  OBVIOUS
<1>3. Core(o, T)
  BY <1>1, <1>2, Zenon
<1>4. Extends(o, T) /\ (pc = "idle" => T.out = o)
  BY <1>3, CoreMore
<1>5. PICK r \in Seq(Char) : T.out = o \o r
  BY <1>4 DEF Extends
<1>6. IsPrefix(o, T.out)
  BY <1>5, PrefixIs, Zenon
<1> QED BY <1>1, <1>2, <1>4, <1>6, Zenon DEF Alone

LEMMA Concludes == IInv => AsIfAlone /\ MainUndisturbed /\ HandlersComplete
<1> SUFFICES ASSUME IInv PROVE AsIfAlone /\ MainUndisturbed /\ HandlersComplete
  OBVIOUS
<1>1. emitted \in Seq(Record) /\ line \in Seq(Tagged)
  BY DEF IInv, StateInv, TypeInv, LineInv
<1>2. DOMAIN emitted = 1 .. Len(emitted) /\ DOMAIN line = 1 .. Len(line)
  BY <1>1
<1>3. AsIfAlone
  <2>1. use.Locked => Alone(DOMAIN emitted)
    BY AloneIs, Zenon DEF IInv, LockedInv
  <2>2. \A k \in DOMAIN line : line[k].n \in DOMAIN emitted
    BY <1>2, Zenon DEF IInv, LineInv
  <2> QED BY <2>1, <2>2, Zenon DEF AsIfAlone
<1>4. MainUndisturbed
  <2>1. Unobtrusive => Alone(Own)
    BY AloneIs, Zenon DEF IInv, OwnInv
  <2> QED BY <2>1, Zenon DEF MainUndisturbed, Own
<1>5. HandlersComplete
  BY <1>2, Zenon DEF IInv, CompleteInv, HandlersComplete
<1> QED BY <1>3, <1>4, <1>5

LEMMA InitIInv == Init => IInv
<1> SUFFICES ASSUME Init PROVE IInv
  OBVIOUS
<1>1. /\ constructed = FALSE /\ base = 0 /\ level = {} /\ line = << >> /\ use \in Uses
      /\ emitted = << >> /\ pc = "idle" /\ mine = 0 /\ items = << >> /\ ival = 0 /\ div = 0
  BY DEF Init
<1>2. << >> \in Seq(Record) /\ << >> \in Seq(Item) /\ << >> \in Seq(Tagged) /\ Len(<< >>) = 0
  BY EmptySeq
<1>3. StateInv
  <2>1. TypeInv
    <3>1. 0 \in 0 .. Modulus - 1
      BY ModulusAssumption
    <3>2. emitted \in Seq(Record) /\ items \in Seq(Item)
      BY <1>1, <1>2, Zenon
    <3>3. /\ ival \in 0 .. Modulus - 1 /\ div \in Nat /\ base \in Bases \cup {0}
          /\ mine \in Nat /\ constructed \in BOOLEAN
      BY <1>1, <3>1
    <3> QED BY <1>1, <3>2, <3>3, Zenon DEF TypeInv
  <2>2. MineInv /\ ItemInv /\ ObjectInv
    BY <1>1 DEF MineInv, ItemInv, ObjectInv, Printing
  <2> QED BY <2>1, <2>2 DEF StateInv
<1>4. LineInv
  BY <1>1, <1>2 DEF LineInv
<1>5. CompleteInv
  <2>1. 1 .. 0 = {}
    OBVIOUS
  <2> QED BY <1>1, <1>2, <2>1 DEF CompleteInv
<1>6. \A N, o, T : o = Chars(line, N) /\ T = PrintedAll(use.Switch, emitted, N) => Core(o, T)
  <2> TAKE N, o, T
  <2> HAVE o = Chars(line, N) /\ T = PrintedAll(use.Switch, emitted, N)
  <2>1. o = << >>
    BY <1>1, CharsEmpty
  <2>2. T = Now(10, << >>)
    BY <1>1, PrintedAllNone
  <2>3. BaseOf = 10
    BY <1>1 DEF BaseOf
  <2> QED BY <1>1, <2>1, <2>2, <2>3 DEF Core
<1>7. LockedInv /\ OwnInv
  BY <1>6, Zenon DEF LockedInv, OwnInv
<1> QED BY <1>3, <1>4, <1>5, <1>7 DEF IInv

LEMMA Stutters == IInv /\ UNCHANGED vars => IInv'
<1> SUFFICES ASSUME IInv, UNCHANGED vars PROVE IInv'
  OBVIOUS
<1>1. /\ constructed' = constructed /\ base' = base /\ level' = level /\ current' = current
      /\ line' = line /\ use' = use /\ emitted' = emitted /\ pc' = pc /\ mine' = mine
      /\ items' = items /\ ival' = ival /\ div' = div /\ oldbase' = oldbase
  BY DEF vars, object, print
<1>2. StateInv'
  BY <1>1, Zenon DEF IInv, StateInv, TypeInv, MineInv, ItemInv, ObjectInv, Printing
<1>3. LineInv' /\ CompleteInv'
  BY <1>1, Zenon DEF IInv, LineInv, CompleteInv
<1>4. \A o, T : Core(o, T) => Core(o, T)'
  <2>1. \A o, T : Rest(o, T)' <=> Rest(o, T)
    BY <1>1, Zenon DEF Rest
  <2>2. \A o, T, v, out : Halfway(o, T, v, out)' <=> Halfway(o, T, v, out)
    BY <1>1, <2>1, Zenon DEF Halfway
  <2>3. \A s : Finish(s)' = Finish(s)
    BY <1>1, Zenon DEF Finish, On
  <2>4. (On' <=> On) /\ (Allows' <=> Allows) /\ BaseOf' = BaseOf
    BY <1>1, Zenon DEF On, Allows, BaseOf
  <2> TAKE o, T
  <2> HAVE Core(o, T)
  <2>5. CASE pc = "idle" /\ T = Now(BaseOf, o)
    BY <1>1, <2>4, <2>5, Zenon DEF Core
  <2>6. CASE pc = "instance" /\ T = Finish(Now(BaseOf, o))
    BY <1>1, <2>3, <2>4, <2>6, Zenon DEF Core
  <2>7. CASE pc \in {"zero", "OutputStream"} /\ T = Finish(Now(10, o))
    BY <1>1, <2>3, <2>7, Zenon DEF Core
  <2>8. CASE pc \in {"OutputLevel", "constructed"} /\ base = 10 /\ T = Finish(Now(10, o))
    BY <1>1, <2>3, <2>8, Zenon DEF Core
  <2>9. CASE pc = "level" /\ T = Finish(Now(base, o))
    BY <1>1, <2>3, <2>9, Zenon DEF Core
  <2>10. CASE pc = "item" /\ (On <=> Allows) /\ T = Finish(Now(base, o))
    BY <1>1, <2>3, <2>4, <2>10, Zenon DEF Core
  <2>11. CASE On /\ Allows /\ ~ pc \in {"idle", "instance", "zero", "OutputStream", "OutputLevel",
                                         "constructed", "level", "item"}
    BY <1>1, <2>1, <2>2, <2>4, <2>11, Zenon DEF Core
  <2> QED BY <2>5, <2>6, <2>7, <2>8, <2>9, <2>10, <2>11 DEF Core
<1>5. LockedInv'
  BY <1>1, <1>4, Zenon DEF IInv, LockedInv
<1>6. OwnInv'
  BY <1>1, <1>4, Zenon DEF IInv, OwnInv, Own, Unobtrusive
<1> QED BY <1>2, <1>3, <1>5, <1>6 DEF IInv

LEMMA Keeps == IInv /\ [Next]_vars => IInv'
<1> SUFFICES ASSUME IInv, [Next]_vars PROVE IInv'
  OBVIOUS
<1>1. CASE emit
  BY <1>1, EmitKeeps
<1>2. CASE MainNext
  <2>1. StateInv /\ LineInv
    BY DEF IInv
  <2>2. PICK s \in Seq(Char) : Step(s)
    BY <1>2, <2>1, MainStep, Zenon
  <2> QED BY <2>2, StepKeeps
<1>3. ASSUME NEW m \in use.Handler, handler(m) PROVE IInv'
  <2>1. PICK e, es, b, x, r, q, n : Handled(m, e, es, b, x, r, q, n)
    BY <1>3, HandlerIs
  <2>2. StateInv' /\ LineInv'
    BY <2>1, HandlerState
  <2>3. CompleteInv'
    BY <2>1, HandlerComplete
  <2>4. LockedInv'
    BY <2>1, HandlerLocked
  <2>5. OwnInv'
    BY <2>1, HandlerOwn
  <2> QED BY <2>2, <2>3, <2>4, <2>5 DEF IInv
<1>4. CASE UNCHANGED vars
  BY <1>4, Stutters
<1> QED BY <1>1, <1>2, <1>3, <1>4, Zenon DEF Next, MainNext

LEMMA Invariant == Spec => []IInv
<1>1. Init => IInv
  BY InitIInv
<1>2. IInv /\ [Next]_vars => IInv'
  BY Keeps
<1> QED BY <1>1, <1>2, PTL DEF Spec

-----------------------------------------------------------------------------
(***************************************************************************)
(* If main holds the interrupt lock while it logs, every message comes out *)
(* whole and in order, its numbers digit for digit in the base that the    *)
(* messages before it have left (OutputStream::printIntType,               *)
(* OutputStream.h:84-115), and those of a level that is switched off not   *)
(* at all (OutputLevelRunTimeSwitch.h:62-83).                              *)
(***************************************************************************)
THEOREM WholeMessages == Spec => []AsIfAlone
<1>1. IInv => AsIfAlone
  BY Concludes
<1> QED BY <1>1, Invariant, PTL

(***************************************************************************)
(* Without a lock, what main prints through log::emit (Logger.h:199-207)   *)
(* is what it would print alone, wherever an interrupt handler logs in     *)
(* between - within a number, within operator<<(void* ), which sets the    *)
(* base and sets it back, or within the construction of the output - as    *)
(* long as the handlers set no base and log at levels that are switched    *)
(* on.                                                                     *)
(***************************************************************************)
THEOREM UndisturbedMain == Spec => []MainUndisturbed
<1>1. IInv => MainUndisturbed
  BY Concludes
<1> QED BY <1>1, Invariant, PTL

(***************************************************************************)
(* What a handler logs comes out whole, if main logs under a lock; or,     *)
(* wherever it interrupts main, if the build sets the flag of              *)
(* singleton::instance (singleton.h:36-46) last and does not make the      *)
(* object zero before its constructors run: then no handler uses an output *)
(* that is still being constructed, however many come in between.          *)
(***************************************************************************)
THEOREM CompleteHandlers == Spec => []HandlersComplete
<1>1. IInv => HandlersComplete
  BY Concludes
<1> QED BY <1>1, Invariant, PTL

-----------------------------------------------------------------------------
(***************************************************************************)
(* The character device streams.  Joining, appending and cutting sequences *)
(* of numbers, element by element.                                         *)
(***************************************************************************)
LEMMA JoinIs ==
  ASSUME NEW w \in Seq(Int), NEW t \in Seq(Int)
  PROVE  /\ w \o t \in Seq(Int) /\ Len(w \o t) = Len(w) + Len(t)
         /\ \A k \in 1 .. Len(w \o t) : (w \o t)[k] = IF k <= Len(w) THEN w[k] ELSE t[k - Len(w)]
         /\ \A k \in 1 .. Len(w) : (w \o t)[k] = w[k]
         /\ \A k \in 1 .. Len(t) : (w \o t)[Len(w) + k] = t[k] /\ (w \o t)[k + Len(w)] = t[k]
<1>1. w \o t \in Seq(Int) /\ Len(w \o t) = Len(w) + Len(t)
  BY ConcatProperties
<1>2. ASSUME NEW k \in 1 .. Len(w) PROVE (w \o t)[k] = w[k]
  BY ConcatProperties
<1>3. ASSUME NEW k \in 1 .. Len(t) PROVE (w \o t)[Len(w) + k] = t[k] /\ (w \o t)[k + Len(w)] = t[k]
  BY ConcatProperties
<1>4. ASSUME NEW k \in 1 .. Len(w \o t)
      PROVE  (w \o t)[k] = IF k <= Len(w) THEN w[k] ELSE t[k - Len(w)]
  BY <1>1, ConcatProperties
<1> QED BY <1>1, <1>2, <1>3, <1>4

LEMMA JoinThree == \A x, y, z \in Seq(Int) : (x \o y) \o z = x \o (y \o z)
BY ConcatAssociative

LEMMA Joined ==
  \A w, t \in Seq(Int) : \E s \in Seq(Int) : s = w \o t /\ Len(s) = Len(w) + Len(t)
    /\ \A k \in 1 .. Len(s) : s[k] = IF k <= Len(w) THEN w[k] ELSE t[k - Len(w)]
<1> SUFFICES ASSUME NEW w \in Seq(Int), NEW t \in Seq(Int)
             PROVE  \E s \in Seq(Int) : s = w \o t /\ Len(s) = Len(w) + Len(t)
               /\ \A k \in 1 .. Len(s) : s[k] = IF k <= Len(w) THEN w[k] ELSE t[k - Len(w)]
  OBVIOUS
<1>1. PICK s \in Seq(Int) : s = w \o t /\ Len(s) = Len(w) + Len(t)
    /\ \A k \in 1 .. Len(s) : s[k] = IF k <= Len(w) THEN w[k] ELSE t[k - Len(w)]
  BY JoinIs, Zenon
<1> QED BY <1>1

LEMMA Halves ==
  \A x, y \in Seq(Int) : SubSeq(x \o y, 1, Len(x)) = x /\ After(x \o y, Len(x)) = y
<1> SUFFICES ASSUME NEW x \in Seq(Int), NEW y \in Seq(Int)
             PROVE  SubSeq(x \o y, 1, Len(x)) = x /\ After(x \o y, Len(x)) = y
  OBVIOUS
<1> QED BY Joined DEF After

LEMMA AddIs ==
  ASSUME NEW w \in Seq(Int), NEW c \in Int
  PROVE  /\ Append(w, c) \in Seq(Int) /\ Len(Append(w, c)) = Len(w) + 1
         /\ \A k \in 1 .. Len(w) : Append(w, c)[k] = w[k]
         /\ Append(w, c)[Len(w) + 1] = c
OBVIOUS

LEMMA Cut ==
  ASSUME NEW w \in Seq(Int), NEW a \in Nat \ {0}, NEW e \in Nat, a <= e + 1, e <= Len(w)
  PROVE  \E u \in Seq(Int) : u = SubSeq(w, a, e) /\ Len(u) = (e + 1) - a
           /\ \A k \in 1 .. (e + 1) - a : u[k] = w[(a - 1) + k]
<1>1. SubSeq(w, a, e) \in Seq(Int) /\ Len(SubSeq(w, a, e)) = (e + 1) - a
  OBVIOUS
<1>2. \A k \in 1 .. (e + 1) - a : SubSeq(w, a, e)[k] = w[(a - 1) + k]
  OBVIOUS
<1> QED BY <1>1, <1>2, Zenon

LEMMA RestIs ==
  ASSUME NEW t \in Seq(Int), t # << >>
  PROVE  /\ Tail(t) \in Seq(Int) /\ Len(Tail(t)) = Len(t) - 1 /\ Len(t) >= 1
         /\ Head(t) = t[1] /\ t[1] \in Int
         /\ \A k \in 1 .. Len(t) - 1 : Tail(t)[k] = t[k + 1]
OBVIOUS

LEMMA SameSeq ==
  ASSUME NEW s \in Seq(Int), NEW t \in Seq(Int), Len(s) = Len(t), \A k \in 1 .. Len(s) : s[k] = t[k]
  PROVE  s = t
OBVIOUS

-----------------------------------------------------------------------------
(***************************************************************************)
(* Recursive functions over the numbers up to N: step says of each number  *)
(* what it makes of the value before.                                      *)
(***************************************************************************)
Steps(f, S, start, step, n) ==
  f \in [0 .. n -> S] /\ f[0] = start /\ \A k \in 1 .. n : f[k] = step[k][f[k - 1]]

LEMMA StepsExist ==
  ASSUME NEW N \in Nat, NEW S, NEW start \in S, NEW step \in [1 .. N -> [S -> S]]
  PROVE  \E f : Steps(f, S, start, step, N)
<1> DEFINE T == {n \in Nat : n <= N => \E f : Steps(f, S, start, step, n)}
<1>1. 0 \in T
  <2> DEFINE f == [k \in 0 .. 0 |-> start]
  <2>1. Steps(f, S, start, step, 0)
    BY DEF Steps
  <2> QED BY <2>1
<1>2. ASSUME NEW n \in Nat, n \in T PROVE n + 1 \in T
  <2> SUFFICES ASSUME n + 1 <= N PROVE \E f : Steps(f, S, start, step, n + 1)
    OBVIOUS
  <2>1. PICK f : Steps(f, S, start, step, n)
    BY <1>2
  <2> DEFINE g == [k \in 0 .. n + 1 |-> IF k = n + 1 THEN step[n + 1][f[n]] ELSE f[k]]
  <2>2. n \in 0 .. n /\ n + 1 \in 1 .. N
    OBVIOUS
  <2>3. f[n] \in S /\ step[n + 1][f[n]] \in S
    BY <2>1, <2>2 DEF Steps
  <2>4. g \in [0 .. n + 1 -> S]
    BY <2>1, <2>3 DEF Steps
  <2>5. g[0] = start
    BY <2>1 DEF Steps
  <2>6. ASSUME NEW k \in 1 .. n + 1 PROVE g[k] = step[k][g[k - 1]]
    <3>1. g[k - 1] = f[k - 1]
      OBVIOUS
    <3>2. CASE k = n + 1
      <4>1. g[k] = step[n + 1][f[n]] /\ k - 1 = n
        BY <3>2
      <4> QED BY <3>1, <3>2, <4>1, Zenon
    <3>3. CASE k \in 1 .. n
      <4>1. g[k] = f[k]
        BY <3>3
      <4> QED BY <2>1, <3>1, <3>3, <4>1, Zenon DEF Steps
    <3> QED BY <3>2, <3>3
  <2>7. Steps(g, S, start, step, n + 1)
    BY <2>4, <2>5, <2>6 DEF Steps
  <2> QED BY <2>7
<1> HIDE DEF T
<1>3. Nat \subseteq T
  BY <1>1, <1>2, Induction
<1> QED BY <1>3 DEF T

LEMMA StepsUnique ==
  ASSUME NEW N \in Nat, NEW M \in Nat, NEW S, NEW start, NEW step, NEW other, NEW f, NEW g,
         N <= M, Steps(f, S, start, step, N), Steps(g, S, start, other, M),
         \A k \in 1 .. N : step[k] = other[k]
  PROVE  \A k \in 0 .. N : f[k] = g[k]
<1> DEFINE T == {n \in Nat : n <= N => f[n] = g[n]}
<1>1. 0 \in T
  BY DEF Steps
<1>2. ASSUME NEW n \in Nat, n \in T PROVE n + 1 \in T
  <2> SUFFICES ASSUME n + 1 <= N PROVE f[n + 1] = g[n + 1]
    OBVIOUS
  <2>1. n + 1 \in 1 .. N /\ n + 1 \in 1 .. M /\ (n + 1) - 1 = n /\ n <= N
    OBVIOUS
  <2>2. f[n + 1] = step[n + 1][f[n]] /\ g[n + 1] = other[n + 1][g[n]]
    BY <2>1 DEF Steps
  <2>3. f[n] = g[n]
    BY <1>2, <2>1
  <2> QED BY <2>1, <2>2, <2>3, Zenon
<1> HIDE DEF T
<1>3. Nat \subseteq T
  BY <1>1, <1>2, Induction
<1> QED BY <1>3 DEF T

-----------------------------------------------------------------------------
(* Powers of two.                                                          *)
Doubling(w) == [k \in 1 .. w |-> [x \in Nat |-> 2 * x]]

LEMMA Pow2Steps ==
  ASSUME NEW w \in Nat
  PROVE  \E f : Steps(f, Nat, 1, Doubling(w), w) /\ Pow2(w) = f[w]
<1> DEFINE two == CHOOSE f : f = [n \in 0 .. w |-> IF n = 0 THEN 1 ELSE 2 * f[n - 1]]
<1>1. PICK f : Steps(f, Nat, 1, Doubling(w), w)
  <2>1. Doubling(w) \in [1 .. w -> [Nat -> Nat]]
    BY DEF Doubling
  <2>2. 1 \in Nat
    OBVIOUS
  <2> HIDE DEF Doubling
  <2> QED BY <2>1, <2>2, StepsExist
<1>2. ASSUME NEW k \in 0 .. w PROVE f[k] = IF k = 0 THEN 1 ELSE 2 * f[k - 1]
  <2>1. CASE k = 0
    BY <1>1, <2>1 DEF Steps
  <2>2. CASE k # 0
    <3>1. k \in 1 .. w /\ k - 1 \in 0 .. w
      BY <2>2
    <3>2. f[k - 1] \in Nat /\ f[k] = Doubling(w)[k][f[k - 1]]
      BY <1>1, <3>1 DEF Steps
    <3> QED BY <2>2, <3>1, <3>2 DEF Doubling
  <2> QED BY <2>1, <2>2
<1> DEFINE h(k) == IF k = 0 THEN 1 ELSE 2 * f[k - 1]
<1>3. f = [n \in 0 .. w |-> h(n)]
  BY <1>1, <1>2 DEF Steps
<1>4. two = [n \in 0 .. w |-> IF n = 0 THEN 1 ELSE 2 * two[n - 1]]
  BY <1>3, Zenon
<1>5. Pow2(w) = two[w]
  BY Zenon DEF Pow2
<1> HIDE DEF two
<1> DEFINE h2(k) == IF k = 0 THEN 1 ELSE 2 * two[k - 1]
<1>6. \A k \in 0 .. w : two[k] = h2(k)
  BY <1>4, Zenon
<1> DEFINE T == {n \in Nat : n <= w => two[n] = f[n]}
<1>7. 0 \in T
  BY <1>1, <1>6 DEF Steps
<1>8. ASSUME NEW n \in Nat, n \in T PROVE n + 1 \in T
  <2> SUFFICES ASSUME n + 1 <= w PROVE two[n + 1] = f[n + 1]
    OBVIOUS
  <2>1. n + 1 \in 0 .. w /\ n + 1 # 0 /\ (n + 1) - 1 = n /\ n <= w
    OBVIOUS
  <2>2. two[n + 1] = 2 * two[n] /\ f[n + 1] = 2 * f[n]
    BY <1>2, <1>6, <2>1
  <2>3. two[n] = f[n]
    BY <1>8, <2>1
  <2> QED BY <2>2, <2>3, Zenon
<1> HIDE DEF T
<1>9. Nat \subseteq T
  BY <1>7, <1>8, Induction
<1>10. two[w] = f[w]
  BY <1>9 DEF T
<1> QED BY <1>1, <1>5, <1>10

LEMMA Pow2Is ==
  /\ Pow2(0) = 1
  /\ \A w \in Nat : Pow2(w) \in Nat \ {0} /\ Pow2(w + 1) = 2 * Pow2(w)
<1>1. Pow2(0) = 1
  <2>1. PICK f : Steps(f, Nat, 1, Doubling(0), 0) /\ Pow2(0) = f[0]
    BY Pow2Steps
  <2> QED BY <2>1 DEF Steps
<1>2. \A w \in Nat : Pow2(w) \in Nat /\ Pow2(w + 1) = 2 * Pow2(w)
  <2> SUFFICES ASSUME NEW w \in Nat PROVE Pow2(w) \in Nat /\ Pow2(w + 1) = 2 * Pow2(w)
    OBVIOUS
  <2>1. PICK f : Steps(f, Nat, 1, Doubling(w), w) /\ Pow2(w) = f[w]
    BY Pow2Steps
  <2>2. PICK g : Steps(g, Nat, 1, Doubling(w + 1), w + 1) /\ Pow2(w + 1) = g[w + 1]
    BY Pow2Steps
  <2>3. \A k \in 1 .. w : Doubling(w)[k] = Doubling(w + 1)[k]
    BY DEF Doubling
  <2>4. f[w] = g[w]
    BY <2>1, <2>2, <2>3, StepsUnique
  <2>5. f[w] \in Nat /\ g[w + 1] = Doubling(w + 1)[w + 1][g[w]]
    BY <2>1, <2>2 DEF Steps
  <2>6. Doubling(w + 1)[w + 1][g[w]] = 2 * g[w]
    BY <2>4, <2>5 DEF Doubling
  <2> QED BY <2>1, <2>2, <2>4, <2>5, <2>6
<1> DEFINE T == {n \in Nat : Pow2(n) # 0}
<1>3. 0 \in T
  BY <1>1
<1>4. ASSUME NEW n \in Nat, n \in T PROVE n + 1 \in T
  BY <1>2, <1>4
<1> HIDE DEF T
<1>5. Nat \subseteq T
  BY <1>3, <1>4, Induction
<1> QED BY <1>1, <1>2, <1>5 DEF T

-----------------------------------------------------------------------------
(* Numbers in two's complement.                                            *)
LEMMA Half ==
  ASSUME NEW w \in Nat \ {0}
  PROVE  \E h \in Nat \ {0} : Pow2(w - 1) = h /\ Pow2(w) = 2 * h
<1>1. w - 1 \in Nat /\ (w - 1) + 1 = w
  OBVIOUS
<1> QED BY <1>1, Pow2Is

(* A number that differs from x by a multiple of how many there are.       *)
LEMMA Modulo ==
  ASSUME NEW m \in Nat \ {0}, NEW x \in Int, NEW q \in Int
  PROVE  (x + m * q) % m = x % m
<1>1. x % m \in 0 .. m - 1 /\ x = m * (x \div m) + (x % m) /\ x \div m \in Int
  OBVIOUS
<1>2. PICK d \in Int, r \in 0 .. m - 1 : d = x \div m /\ r = x % m
  BY <1>1
<1>3. PICK y \in Int : y = x + m * q
  OBVIOUS
<1>4. y % m \in 0 .. m - 1 /\ y = m * (y \div m) + (y % m) /\ y \div m \in Int
  BY <1>3
<1>5. PICK e \in Int, s \in 0 .. m - 1 : e = y \div m /\ s = y % m
  BY <1>4
<1>6. m * e + s = m * d + r + m * q
  BY <1>1, <1>2, <1>3, <1>4, <1>5
<1>7. m * (e - d - q) = r - s
  BY <1>6
<1>8. PICK k \in Int : k = e - d - q
  OBVIOUS
<1>9. m * k = r - s /\ r - s < m /\ -m < r - s
  BY <1>7, <1>8
<1>10. k = 0
  <2>1. ASSUME k >= 1 PROVE FALSE
    <3>1. PICK i \in Nat : k = 1 + i
      <4>1. k - 1 \in Nat /\ k = 1 + (k - 1)
        BY <2>1
      <4> QED BY <4>1
    <3>2. m * k = m + m * i /\ m * i \in Nat
      BY <3>1
    <3> QED BY <1>9, <3>2
  <2>2. ASSUME k <= -1 PROVE FALSE
    <3>1. PICK i \in Nat : k = -1 - i
      <4>1. -1 - k \in Nat /\ k = -1 - (-1 - k)
        BY <2>2
      <4> QED BY <4>1
    <3>2. m * k = -m - m * i /\ m * i \in Nat
      BY <3>1
    <3> QED BY <1>9, <3>2
  <2> QED BY <2>1, <2>2
<1>11. r = s
  BY <1>9, <1>10
<1> QED BY <1>2, <1>3, <1>5, <1>11

LEMMA SignedIs ==
  ASSUME NEW w \in Nat \ {0}, NEW x \in Int
  PROVE  /\ signed(x, w) \in Int
         /\ -Pow2(w - 1) <= signed(x, w) /\ signed(x, w) < Pow2(w - 1)
         /\ \E q \in Int : signed(x, w) = x + Pow2(w) * q
<1>1. PICK h \in Nat \ {0} : Pow2(w - 1) = h /\ Pow2(w) = 2 * h
  BY Half
<1>2. PICK m \in Nat \ {0} : m = 2 * h
  BY <1>1
<1>3. x % m \in 0 .. m - 1 /\ x = m * (x \div m) + (x % m) /\ x \div m \in Int
  OBVIOUS
<1>4. PICK d \in Int, r \in 0 .. m - 1 : d = x \div m /\ r = x % m
  BY <1>3
<1>5. signed(x, w) = IF r < h THEN r ELSE r - m
  BY <1>1, <1>2, <1>4 DEF signed
<1>6. r = x + m * (-d) /\ -d \in Int
  BY <1>3, <1>4
<1>7. r - m = x + m * (-d - 1) /\ -d - 1 \in Int
  BY <1>3, <1>4
<1> QED BY <1>1, <1>2, <1>5, <1>6, <1>7

LEMMA SignedSame ==
  ASSUME NEW w \in Nat \ {0}, NEW x \in Int, NEW y \in Int, NEW q \in Int, y = x + Pow2(w) * q
  PROVE  signed(y, w) = signed(x, w)
<1>1. Pow2(w) \in Nat \ {0}
  BY Pow2Is
<1>2. y % Pow2(w) = x % Pow2(w)
  BY <1>1, Modulo
<1> QED BY <1>2, Zenon DEF signed

LEMMA SignedSmall ==
  ASSUME NEW w \in Nat \ {0}, NEW x \in Int, -Pow2(w - 1) <= x, x < Pow2(w - 1)
  PROVE  signed(x, w) = x
<1>1. PICK h \in Nat \ {0} : Pow2(w - 1) = h /\ Pow2(w) = 2 * h
  BY Half
<1>2. PICK m \in Nat \ {0} : m = 2 * h
  BY <1>1
<1>3. CASE x >= 0
  <2>1. x = m * 0 + x /\ x \in Nat /\ x < m
    BY <1>1, <1>2, <1>3
  <2>2. x % m = x
    BY <2>1, Division
  <2> QED BY <1>1, <1>2, <2>2 DEF signed
<1>4. CASE x < 0
  <2>1. PICK y \in Nat : y = x + m
    BY <1>1, <1>2
  <2>2. y = m * 0 + y /\ y < m /\ y >= h
    BY <1>1, <1>2, <1>4, <2>1
  <2>3. y % m = y
    BY <2>1, <2>2, Division
  <2>4. signed(y, w) = x
    BY <1>1, <1>2, <2>1, <2>2, <2>3 DEF signed
  <2>5. y = x + Pow2(w) * 1
    BY <1>1, <1>2, <2>1
  <2> QED BY <2>4, <2>5, SignedSame
<1> QED BY <1>3, <1>4

(* What readInt computes, one digit at a time and then the sign.           *)
LEMMA SignedDigit ==
  ASSUME NEW w \in Nat \ {0}, NEW x \in Int, NEW c \in Int
  PROVE  signed(signed(x, w) * 10 + c, w) = signed(x * 10 + c, w)
<1>1. PICK q \in Int : signed(x, w) = x + Pow2(w) * q
  BY SignedIs
<1>2. PICK m \in Nat \ {0}, y \in Int : m = Pow2(w) /\ y = signed(x, w)
  BY Pow2Is, SignedIs
<1>3. y * 10 + c = (x * 10 + c) + m * (10 * q) /\ 10 * q \in Int /\ x * 10 + c \in Int
      /\ y * 10 + c \in Int
  BY <1>1, <1>2
<1> QED BY <1>2, <1>3, SignedSame

LEMMA SignedMinus ==
  ASSUME NEW w \in Nat \ {0}, NEW x \in Int
  PROVE  signed(-signed(x, w), w) = signed(-x, w)
<1>1. PICK q \in Int : signed(x, w) = x + Pow2(w) * q
  BY SignedIs
<1>2. PICK m \in Nat \ {0}, y \in Int : m = Pow2(w) /\ y = signed(x, w)
  BY Pow2Is, SignedIs
<1>3. -y = -x + m * (-q) /\ -q \in Int /\ -x \in Int /\ -y \in Int
  BY <1>1, <1>2
<1> QED BY <1>2, <1>3, SignedSame

-----------------------------------------------------------------------------
(* The number that a text means.                                           *)
Adding(t, radix) == [k \in 1 .. Len(t) |-> [x \in Int |-> x * radix + DigitOf(t[k], radix)]]

LEMMA DigitOfType == ASSUME NEW c \in Int, NEW radix PROVE DigitOf(c, radix) \in Int
BY DEF DigitOf, Number, Zero

LEMMA ValueSteps ==
  ASSUME NEW t \in Seq(Int), NEW radix \in Nat
  PROVE  \E f : Steps(f, Int, 0, Adding(t, radix), Len(t)) /\ ValueOf(t, radix) = f[Len(t)]
<1>1. PICK w \in Nat : w = Len(t)
  OBVIOUS
<1> DEFINE a(k) == DigitOf(t[k], radix)
<1>2. \A k \in 1 .. w : a(k) \in Int
  <2> SUFFICES ASSUME NEW k \in 1 .. w PROVE a(k) \in Int
    OBVIOUS
  <2>1. t[k] \in Int
    BY <1>1
  <2> QED BY <2>1, DigitOfType
<1> HIDE DEF a
<1>3. Adding(t, radix) = [k \in 1 .. w |-> [x \in Int |-> x * radix + a(k)]]
  BY <1>1, Zenon DEF Adding, a
<1>4. Adding(t, radix) \in [1 .. w -> [Int -> Int]]
  BY <1>2, <1>3
<1>5. PICK f : Steps(f, Int, 0, Adding(t, radix), w)
  <2>1. 0 \in Int
    OBVIOUS
  <2> QED BY <1>4, <2>1, StepsExist
<1>6. ASSUME NEW k \in 0 .. w PROVE f[k] = IF k = 0 THEN 0 ELSE f[k - 1] * radix + a(k)
  <2>1. CASE k = 0
    BY <1>5, <2>1 DEF Steps
  <2>2. CASE k # 0
    <3>1. k \in 1 .. w /\ k - 1 \in 0 .. w
      BY <2>2
    <3>2. f[k - 1] \in Int /\ f[k] = Adding(t, radix)[k][f[k - 1]]
      BY <1>5, <3>1 DEF Steps
    <3> QED BY <1>3, <2>2, <3>1, <3>2
  <2> QED BY <2>1, <2>2
<1> DEFINE h(k) == IF k = 0 THEN 0 ELSE f[k - 1] * radix + a(k)
           v == CHOOSE g : g = [n \in 0 .. w |-> IF n = 0 THEN 0 ELSE g[n - 1] * radix + a(n)]
<1>7. f = [n \in 0 .. w |-> h(n)]
  BY <1>5, <1>6 DEF Steps
<1>8. v = [n \in 0 .. w |-> IF n = 0 THEN 0 ELSE v[n - 1] * radix + a(n)]
  BY <1>7, Zenon
<1>9. ValueOf(t, radix) = v[w]
  BY <1>1, Zenon DEF ValueOf, a
<1> HIDE DEF v
<1> DEFINE h2(k) == IF k = 0 THEN 0 ELSE v[k - 1] * radix + a(k)
<1>10. \A k \in 0 .. w : v[k] = h2(k)
  BY <1>8, Zenon
<1> DEFINE T == {n \in Nat : n <= w => v[n] = f[n]}
<1>11. 0 \in T
  BY <1>5, <1>10 DEF Steps
<1>12. ASSUME NEW n \in Nat, n \in T PROVE n + 1 \in T
  <2> SUFFICES ASSUME n + 1 <= w PROVE v[n + 1] = f[n + 1]
    OBVIOUS
  <2>1. n + 1 \in 0 .. w /\ n + 1 # 0 /\ (n + 1) - 1 = n /\ n <= w
    OBVIOUS
  <2>2. v[n + 1] = v[n] * radix + a(n + 1) /\ f[n + 1] = f[n] * radix + a(n + 1)
    BY <1>6, <1>10, <2>1
  <2>3. v[n] = f[n]
    BY <1>12, <2>1
  <2> QED BY <2>2, <2>3, Zenon
<1> HIDE DEF T
<1>13. Nat \subseteq T
  BY <1>11, <1>12, Induction
<1>14. v[w] = f[w]
  BY <1>13 DEF T
<1> QED BY <1>1, <1>5, <1>9, <1>14

LEMMA ValueType == ASSUME NEW t \in Seq(Int), NEW radix \in Nat PROVE ValueOf(t, radix) \in Int
<1>1. PICK f : Steps(f, Int, 0, Adding(t, radix), Len(t)) /\ ValueOf(t, radix) = f[Len(t)]
  BY ValueSteps
<1>2. Len(t) \in Nat /\ Len(t) \in 0 .. Len(t)
  OBVIOUS
<1> QED BY <1>1, <1>2 DEF Steps

LEMMA ValueNone == ASSUME NEW radix \in Nat PROVE ValueOf(<< >>, radix) = 0
<1>1. << >> \in Seq(Int) /\ Len(<< >>) = 0
  OBVIOUS
<1>2. PICK f : Steps(f, Int, 0, Adding(<< >>, radix), 0) /\ ValueOf(<< >>, radix) = f[0]
  BY <1>1, ValueSteps
<1> QED BY <1>2 DEF Steps

LEMMA ValueAppend ==
  ASSUME NEW t \in Seq(Int), NEW c \in Int, NEW radix \in Nat
  PROVE  ValueOf(Append(t, c), radix) = ValueOf(t, radix) * radix + DigitOf(c, radix)
<1>1. PICK u \in Seq(Int) : u = Append(t, c)
  <2>1. Append(t, c) \in Seq(Int)
    OBVIOUS
  <2> QED BY <2>1
<1>2. PICK w \in Nat : w = Len(t)
  OBVIOUS
<1>3. Len(u) = w + 1 /\ u[w + 1] = c /\ \A k \in 1 .. w : u[k] = t[k]
  BY <1>1, <1>2
<1>4. PICK f : Steps(f, Int, 0, Adding(t, radix), w) /\ ValueOf(t, radix) = f[w]
  BY <1>2, ValueSteps
<1>5. PICK g : Steps(g, Int, 0, Adding(u, radix), w + 1) /\ ValueOf(u, radix) = g[w + 1]
  BY <1>3, ValueSteps
<1>6. \A k \in 1 .. w : Adding(t, radix)[k] = Adding(u, radix)[k]
  <2> SUFFICES ASSUME NEW k \in 1 .. w PROVE Adding(t, radix)[k] = Adding(u, radix)[k]
    OBVIOUS
  <2>1. k \in 1 .. Len(t) /\ k \in 1 .. Len(u) /\ t[k] = u[k]
    BY <1>2, <1>3
  <2> QED BY <2>1, Zenon DEF Adding
<1>7. f[w] = g[w]
  BY <1>4, <1>5, <1>6, StepsUnique
<1>8. g[w] \in Int /\ g[w + 1] = Adding(u, radix)[w + 1][g[w]]
  BY <1>5 DEF Steps
<1>9. w + 1 \in 1 .. Len(u)
  BY <1>3
<1>10. Adding(u, radix)[w + 1][g[w]] = g[w] * radix + DigitOf(u[w + 1], radix)
  BY <1>8, <1>9, Zenon DEF Adding
<1> QED BY <1>1, <1>3, <1>4, <1>5, <1>7, <1>8, <1>10, Zenon

LEMMA Pow2Grows == \A a, b \in Nat : a <= b => Pow2(a) <= Pow2(b)
<1> SUFFICES ASSUME NEW a \in Nat PROVE \A b \in Nat : a <= b => Pow2(a) <= Pow2(b)
  OBVIOUS
<1> DEFINE T == {n \in Nat : Pow2(a) <= Pow2(a + n)}
<1>1. 0 \in T
  <2>1. a + 0 = a /\ Pow2(a) \in Nat
    BY Pow2Is
  <2> QED BY <2>1
<1>2. ASSUME NEW n \in Nat, n \in T PROVE n + 1 \in T
  <2>1. PICK w \in Nat : w = a + n
    OBVIOUS
  <2>2. Pow2(a) <= Pow2(w)
    BY <1>2, <2>1
  <2>3. a + (n + 1) = w + 1 /\ Pow2(a) \in Nat /\ Pow2(w) \in Nat /\ Pow2(w + 1) = 2 * Pow2(w)
    BY <2>1, Pow2Is
  <2>4. Pow2(a) <= Pow2(a + (n + 1))
    BY <2>2, <2>3
  <2> QED BY <2>4
<1> HIDE DEF T
<1>3. Nat \subseteq T
  BY <1>1, <1>2, Induction
<1>4. ASSUME NEW b \in Nat, a <= b PROVE Pow2(a) <= Pow2(b)
  <2>1. b - a \in Nat /\ a + (b - a) = b
    BY <1>4
  <2> QED BY <1>3, <2>1 DEF T
<1> QED BY <1>4

-----------------------------------------------------------------------------
(***************************************************************************)
(* Decimal digits.                                                         *)
(***************************************************************************)
LEMMA TenthIs ==
  ASSUME NEW d \in Int
  PROVE  /\ Tenth(d) \in Int /\ Remainder(d) \in Int
         /\ d >= 1 => Tenth(d) >= 0 /\ Tenth(d) < d
         /\ d <= -1 => Tenth(d) > d /\ Tenth(d) <= 0
         /\ d >= 0 => /\ Remainder(d) \in 0 .. 9 /\ d = 10 * Tenth(d) + Remainder(d)
                      /\ Tenth(d) >= 0
<1>1. CASE d >= 0
  BY <1>1 DEF Tenth, Remainder
<1>2. CASE d < 0
  <2>1. PICK e \in Nat : e = -d /\ e >= 1
    BY <1>2
  <2>2. e \div 10 \in Nat /\ e \div 10 < e
    BY <2>1
  <2>3. Tenth(d) = -(e \div 10)
    BY <1>2, <2>1 DEF Tenth
  <2>4. PICK q \in Nat : q = e \div 10
    BY <2>2
  <2> QED BY <1>2, <2>1, <2>2, <2>3, <2>4 DEF Remainder
<1> QED BY <1>1, <1>2

DecimalTo(g, n) ==
  /\ g \in [-n .. n -> Seq(Int)]
  /\ \A k \in -n .. n :
       g[k] = IF k = 0 THEN << >> ELSE Append(g[Tenth(k)], Zero + Remainder(k))

LEMMA TenthInside ==
  ASSUME NEW n \in Nat, NEW k \in -(n + 1) .. n + 1, k # 0 PROVE Tenth(k) \in -n .. n
<1>1. k \in Int
  OBVIOUS
<1> QED BY <1>1, TenthIs

LEMMA DecimalExists == \A n \in Nat : \E g : DecimalTo(g, n)
<1> DEFINE T == {n \in Nat : \E g : DecimalTo(g, n)}
<1>1. 0 \in T
  <2> DEFINE g == [k \in 0 .. 0 |-> << >>]
  <2>1. << >> \in Seq(Int) /\ -0 .. 0 = 0 .. 0
    OBVIOUS
  <2>2. DecimalTo(g, 0)
    BY <2>1 DEF DecimalTo
  <2> QED BY <2>2
<1>2. ASSUME NEW n \in Nat, n \in T PROVE n + 1 \in T
  <2>1. PICK g : DecimalTo(g, n)
    BY <1>2
  <2> DEFINE more(k) == Append(g[Tenth(k)], Zero + Remainder(k))
             e == [k \in -(n + 1) .. n + 1 |-> IF k \in -n .. n THEN g[k] ELSE more(k)]
  <2>2. ASSUME NEW k \in -(n + 1) .. n + 1, k # 0
        PROVE  /\ Tenth(k) \in -n .. n /\ more(k) \in Seq(Int)
    <3>1. Tenth(k) \in -n .. n
      BY <2>2, TenthInside
    <3>2. k \in Int
      OBVIOUS
    <3>3. Remainder(k) \in Int
      BY <3>2, TenthIs
    <3>4. g[Tenth(k)] \in Seq(Int) /\ Zero + Remainder(k) \in Int
      BY <2>1, <3>1, <3>3 DEF DecimalTo, Zero
    <3> QED BY <3>1, <3>4, AppendProperties
  <2>3. \A k \in -n .. n : k \in -(n + 1) .. n + 1
    OBVIOUS
  <2>4. 0 \in -n .. n
    OBVIOUS
  <2> HIDE DEF more
  <2>5. e \in [-(n + 1) .. n + 1 -> Seq(Int)]
    BY <2>1, <2>2, <2>4 DEF DecimalTo
  <2>6. ASSUME NEW k \in -(n + 1) .. n + 1
        PROVE  e[k] = IF k = 0 THEN << >> ELSE Append(e[Tenth(k)], Zero + Remainder(k))
    <3>1. CASE k = 0
      <4>1. e[k] = g[k] /\ k \in -n .. n
        BY <2>4, <3>1
      <4> QED BY <2>1, <3>1, <4>1 DEF DecimalTo
    <3>2. CASE k # 0
      <4>1. Tenth(k) \in -n .. n /\ Tenth(k) \in -(n + 1) .. n + 1
        BY <2>2, <2>3, <3>2
      <4>2. e[Tenth(k)] = g[Tenth(k)]
        BY <4>1
      <4>3. k \in -n .. n => e[k] = g[k] /\ g[k] = more(k)
        BY <2>1, <3>2, Zenon DEF DecimalTo, more
      <4>4. k \notin -n .. n => e[k] = more(k)
        OBVIOUS
      <4> QED BY <3>2, <4>2, <4>3, <4>4, Zenon DEF more
    <3> QED BY <3>1, <3>2
  <2> HIDE DEF e
  <2>7. DecimalTo(e, n + 1)
    BY <2>5, <2>6, Zenon DEF DecimalTo
  <2> QED BY <2>7
<1> HIDE DEF T
<1>3. Nat \subseteq T
  BY <1>1, <1>2, Induction
<1> QED BY <1>3 DEF T

Domain == -Pow2(Bits) .. Pow2(Bits)

LEMMA BitsType == Bits \in Nat \ {0} /\ Bits % 8 = 0 /\ Pow2(Bits) \in Nat \ {0}
<1>1. Bits \in Nat \ {0} /\ Bits % 8 = 0
  BY WidthAssumption
<1> QED BY <1>1, Pow2Is

LEMMA DecimalIs ==
  \A d \in Domain :
    /\ digits(d) \in Seq(Int) /\ Tenth(d) \in Domain
    /\ digits(d) = IF d = 0 THEN << >> ELSE Append(digits(Tenth(d)), Zero + Remainder(d))
<1>1. PICK p \in Nat : p = Pow2(Bits)
  BY BitsType
<1> DEFINE f == CHOOSE g : g = [n \in -p .. p |->
                  IF n = 0 THEN << >> ELSE Append(g[Tenth(n)], Zero + Remainder(n))]
<1>2. PICK e : DecimalTo(e, p)
  BY DecimalExists
<1>3. e = [n \in -p .. p |-> IF n = 0 THEN << >> ELSE Append(e[Tenth(n)], Zero + Remainder(n))]
  BY <1>2, Zenon DEF DecimalTo
<1>4. f = [n \in -p .. p |-> IF n = 0 THEN << >> ELSE Append(f[Tenth(n)], Zero + Remainder(n))]
  BY <1>3, Zenon
<1>5. \A d : digits(d) = f[d]
  BY <1>1, Zenon DEF digits
<1> HIDE DEF f
<1> DEFINE h(n) == IF n = 0 THEN << >> ELSE Append(f[Tenth(n)], Zero + Remainder(n))
<1>6. \A n \in -p .. p : f[n] = h(n)
  BY <1>4, Zenon
<1> DEFINE T == {n \in Nat : n <= p => \A k \in -n .. n : f[k] = e[k]}
<1>7. 0 \in -p .. p /\ f[0] = e[0]
  <2>1. 0 \in -p .. p
    BY <1>1
  <2> QED BY <1>2, <1>6, <2>1, Zenon DEF DecimalTo
<1>8. 0 \in T
  <2>1. \A k \in -0 .. 0 : k = 0
    OBVIOUS
  <2> QED BY <1>7, <2>1
<1>9. ASSUME NEW n \in Nat, n \in T PROVE n + 1 \in T
  <2> SUFFICES ASSUME n + 1 <= p, NEW k \in -(n + 1) .. n + 1 PROVE f[k] = e[k]
    OBVIOUS
  <2>1. CASE k = 0
    BY <1>7, <2>1
  <2>2. CASE k # 0
    <3>1. Tenth(k) \in -n .. n
      BY <2>2, TenthInside
    <3>2. f[Tenth(k)] = e[Tenth(k)]
      BY <1>9, <3>1
    <3>3. k \in -p .. p
      BY <1>1
    <3>4. e[k] = Append(e[Tenth(k)], Zero + Remainder(k))
      BY <1>2, <2>2, <3>3, Zenon DEF DecimalTo
    <3> QED BY <1>6, <2>2, <3>2, <3>3, <3>4, Zenon
  <2> QED BY <2>1, <2>2
<1> HIDE DEF T
<1>10. Nat \subseteq T
  BY <1>8, <1>9, Induction
<1>11. \A k \in -p .. p : f[k] = e[k]
  BY <1>1, <1>10 DEF T
<1>12. \A d \in -p .. p : Tenth(d) \in -p .. p
  <2> SUFFICES ASSUME NEW d \in -p .. p PROVE Tenth(d) \in -p .. p
    OBVIOUS
  <2>1. d \in Int /\ (d = 0 \/ d >= 1 \/ d <= -1)
    OBVIOUS
  <2> QED BY <2>1, TenthIs DEF Tenth
<1>13. \A d \in -p .. p : f[d] \in Seq(Int)
  BY <1>2, <1>11 DEF DecimalTo
<1>14. Domain = -p .. p
  BY <1>1 DEF Domain
<1> QED BY <1>5, <1>6, <1>12, <1>13, <1>14, Zenon

(* The digits of a positive number: they mean it, the first is not zero.   *)
IsNumeral(s, d) ==
  /\ s \in Seq(Number) /\ s \in Seq(Int) /\ Len(s) >= 1 /\ s[1] # Zero
  /\ ValueOf(s, 10) = d

LEMMA NumberIs == /\ Number \subseteq Int /\ \A r \in 0 .. 9 : Zero + r \in Number
                  /\ \A c \in Number : DigitOf(c, 10) = c - Zero /\ c - Zero \in 0 .. 9
                  /\ Minus \notin Number /\ Number \cap Whitespace = {} /\ Minus \notin Whitespace
                  /\ Zero \in Number /\ Minus \in Int /\ Whitespace \subseteq Int
BY DEF Number, Zero, DigitOf, Minus, Whitespace

LEMMA OneMore ==
  ASSUME NEW d \in Nat, d >= 1, NEW s,
         (s = << >> /\ Tenth(d) = 0) \/ IsNumeral(s, Tenth(d))
  PROVE  IsNumeral(Append(s, Zero + Remainder(d)), d)
<1>1. PICK t \in Nat, r \in 0 .. 9 : t = Tenth(d) /\ r = Remainder(d) /\ d = 10 * t + r
  <2>1. d \in Int
    OBVIOUS
  <2>2. Tenth(d) \in Nat /\ Remainder(d) \in 0 .. 9 /\ d = 10 * Tenth(d) + Remainder(d)
    BY <2>1, TenthIs
  <2> QED BY <2>2
<1>2. PICK c \in Number : c = Zero + r
  BY NumberIs
<1>3. DigitOf(c, 10) = r /\ c \in Int
  <2>1. DigitOf(c, 10) = c - Zero
    BY NumberIs
  <2> QED BY <1>2, <2>1, NumberIs DEF Zero
<1>4. s \in Seq(Number) /\ s \in Seq(Int)
  <2>1. << >> \in Seq(Number) /\ << >> \in Seq(Int)
    OBVIOUS
  <2> QED BY <2>1, Zenon DEF IsNumeral
<1>5. PICK u : u = Append(s, c)
  OBVIOUS
<1>6. u \in Seq(Number) /\ u \in Seq(Int) /\ Len(u) = Len(s) + 1 /\ Len(s) \in Nat
  BY <1>3, <1>4, <1>5, AppendProperties
<1>7. ValueOf(u, 10) = ValueOf(s, 10) * 10 + r
  BY <1>3, <1>4, <1>5, ValueAppend
<1>8. ValueOf(s, 10) = t
  <2>1. ValueOf(<< >>, 10) = 0
    BY ValueNone
  <2> QED BY <1>1, <2>1 DEF IsNumeral
<1>9. u[1] # Zero
  <2>1. CASE s = << >> /\ t = 0
    <3>1. u[1] = c /\ r # 0
      BY <1>1, <1>5, <2>1
    <3> QED BY <1>2, <3>1 DEF Zero
  <2>2. CASE IsNumeral(s, t)
    <3>1. Len(s) >= 1 /\ s[1] # Zero
      BY <2>2 DEF IsNumeral
    <3>2. u[1] = s[1]
      BY <1>4, <1>5, <3>1
    <3> QED BY <3>1, <3>2
  <2> QED BY <1>1, <2>1, <2>2
<1>10. IsNumeral(u, d)
  BY <1>1, <1>6, <1>7, <1>8, <1>9 DEF IsNumeral
<1> QED BY <1>1, <1>2, <1>5, <1>10

LEMMA DigitsNumeral ==
  \A d \in 1 .. Pow2(Bits) : IsNumeral(digits(d), d)
<1>1. PICK p \in Nat : p = Pow2(Bits)
  BY BitsType
<1> DEFINE T == {n \in Nat : \A d \in 1 .. n : d <= p => IsNumeral(digits(d), d)}
<1>2. 0 \in T
  OBVIOUS
<1>3. ASSUME NEW n \in Nat, n \in T PROVE n + 1 \in T
  <2> SUFFICES ASSUME NEW d \in 1 .. n + 1, d <= p PROVE IsNumeral(digits(d), d)
    OBVIOUS
  <2>1. d \in Domain /\ d # 0 /\ d \in Nat /\ d \in Int /\ d >= 1 /\ 0 \in Domain
    BY <1>1 DEF Domain
  <2>2. digits(d) = Append(digits(Tenth(d)), Zero + Remainder(d))
    BY <2>1, DecimalIs
  <2>3. Tenth(d) = 0 \/ (Tenth(d) \in 1 .. n /\ Tenth(d) <= p)
    BY <2>1, TenthIs
  <2>4. digits(0) = << >>
    BY <2>1, DecimalIs
  <2>5. Tenth(d) # 0 => IsNumeral(digits(Tenth(d)), Tenth(d))
    BY <1>3, <2>3
  <2>6. (digits(Tenth(d)) = << >> /\ Tenth(d) = 0) \/ IsNumeral(digits(Tenth(d)), Tenth(d))
    BY <2>4, <2>5, Zenon
  <2>7. IsNumeral(Append(digits(Tenth(d)), Zero + Remainder(d)), d)
    BY <2>1, <2>6, OneMore
  <2> QED BY <2>2, <2>7, Zenon
<1> HIDE DEF T
<1>4. Nat \subseteq T
  BY <1>2, <1>3, Induction
<1> QED BY <1>1, <1>4 DEF T

(* A byte has three digits at most.                                        *)
LEMMA DigitsLength ==
  \A k \in Nat : \A d \in 0 .. Pow2(Bits) : d < Pow2(8 * k) => Len(digits(d)) <= 3 * k
<1>1. \A d \in 0 .. Pow2(Bits) :
        /\ d \in Domain /\ digits(d) \in Seq(Int) /\ Tenth(d) \in 0 .. Pow2(Bits)
        /\ Len(digits(d)) \in Nat /\ Tenth(d) = d \div 10
        /\ Len(digits(d)) <= Len(digits(Tenth(d))) + 1 /\ (d = 0 => Len(digits(d)) = 0)
  <2> SUFFICES ASSUME NEW d \in 0 .. Pow2(Bits)
               PROVE  /\ d \in Domain /\ digits(d) \in Seq(Int) /\ Tenth(d) \in 0 .. Pow2(Bits)
                      /\ Len(digits(d)) \in Nat /\ Tenth(d) = d \div 10
                      /\ Len(digits(d)) <= Len(digits(Tenth(d))) + 1
                      /\ (d = 0 => Len(digits(d)) = 0)
    OBVIOUS
  <2>1. d \in Domain /\ d \in Nat /\ Pow2(Bits) \in Nat
    BY BitsType DEF Domain
  <2>2. Tenth(d) = d \div 10 /\ Tenth(d) \in 0 .. Pow2(Bits)
    BY <2>1 DEF Tenth
  <2>3. Tenth(d) \in Domain /\ Remainder(d) \in Int
    BY <2>1, DecimalIs, TenthIs
  <2>4. PICK s, u : s = digits(d) /\ u = digits(Tenth(d))
    OBVIOUS
  <2>5. s \in Seq(Int) /\ u \in Seq(Int)
    BY <2>1, <2>3, <2>4, DecimalIs
  <2>6. s = IF d = 0 THEN << >> ELSE Append(u, Zero + Remainder(d))
    BY <2>1, <2>4, DecimalIs
  <2>7. Len(s) \in Nat /\ Len(s) <= Len(u) + 1 /\ (d = 0 => Len(s) = 0)
    <3>1. CASE d = 0
      BY <2>5, <2>6, <3>1
    <3>2. CASE d # 0
      <4>1. Len(Append(u, Zero + Remainder(d))) = Len(u) + 1 /\ Len(u) \in Nat
        BY <2>5
      <4> QED BY <2>6, <3>2, <4>1
    <3> QED BY <3>1, <3>2
  <2> QED BY <2>1, <2>2, <2>4, <2>5, <2>7
<1> DEFINE T == {k \in Nat : \A d \in 0 .. Pow2(Bits) : d < Pow2(8 * k) => Len(digits(d)) <= 3 * k}
<1>2. 0 \in T
  <2>1. Pow2(8 * 0) = 1
    BY Pow2Is
  <2>2. ASSUME NEW d \in 0 .. Pow2(Bits), d < Pow2(8 * 0) PROVE Len(digits(d)) <= 3 * 0
    <3>1. d = 0
      BY <2>1, <2>2, BitsType
    <3> QED BY <1>1, <2>2, <3>1
  <2> QED BY <2>2
<1>3. ASSUME NEW k \in Nat, k \in T PROVE k + 1 \in T
  <2>1. PICK x \in Nat \ {0} : x = Pow2(8 * k)
    BY Pow2Is
  <2>2. Pow2(8 * (k + 1)) = 256 * x
    <3>1. PICK w \in Nat : w = 8 * k
      OBVIOUS
    <3>2. /\ w + 1 \in Nat /\ w + 2 \in Nat /\ w + 3 \in Nat /\ w + 4 \in Nat /\ w + 5 \in Nat
          /\ w + 6 \in Nat /\ w + 7 \in Nat
          /\ (w + 1) + 1 = w + 2 /\ (w + 2) + 1 = w + 3 /\ (w + 3) + 1 = w + 4
          /\ (w + 4) + 1 = w + 5 /\ (w + 5) + 1 = w + 6 /\ (w + 6) + 1 = w + 7
          /\ (w + 7) + 1 = 8 * (k + 1)
      BY <3>1
    <3>3. Pow2(w + 1) = 2 * x /\ Pow2(w + 2) = 2 * Pow2(w + 1) /\ Pow2(w + 3) = 2 * Pow2(w + 2)
          /\ Pow2(w + 4) = 2 * Pow2(w + 3) /\ Pow2(w + 5) = 2 * Pow2(w + 4)
          /\ Pow2(w + 6) = 2 * Pow2(w + 5) /\ Pow2(w + 7) = 2 * Pow2(w + 6)
          /\ Pow2(8 * (k + 1)) = 2 * Pow2(w + 7)
      BY <2>1, <3>1, <3>2, Pow2Is, Zenon
    <3> QED BY <3>3
  <2> SUFFICES ASSUME NEW d \in 0 .. Pow2(Bits), d < Pow2(8 * (k + 1))
               PROVE  Len(digits(d)) <= 3 * (k + 1)
    OBVIOUS
  <2>3. PICK e \in 0 .. Pow2(Bits) : e = Tenth(d) /\ e = d \div 10 /\ Len(digits(d)) <= Len(digits(e)) + 1
    BY <1>1
  <2>4. PICK f \in 0 .. Pow2(Bits) : f = Tenth(e) /\ f = e \div 10 /\ Len(digits(e)) <= Len(digits(f)) + 1
    BY <1>1
  <2>5. PICK g \in 0 .. Pow2(Bits) : g = Tenth(f) /\ g = f \div 10 /\ Len(digits(f)) <= Len(digits(g)) + 1
    BY <1>1
  <2>6. d \in Nat /\ e \in Nat /\ f \in Nat /\ g \in Nat /\ d < 256 * x
    BY <2>2, BitsType
  <2>7. g < x
    <3>1. 10 * e <= d /\ 10 * f <= e /\ 10 * g <= f
      BY <2>3, <2>4, <2>5, <2>6
    <3> QED BY <2>6, <3>1
  <2>8. Len(digits(g)) <= 3 * k
    BY <1>3, <2>1, <2>7
  <2>9. Len(digits(d)) \in Nat /\ Len(digits(e)) \in Nat /\ Len(digits(f)) \in Nat /\ Len(digits(g)) \in Nat
    BY <1>1
  <2>10. PICK ld, le, lf, lg \in Nat :
           ld = Len(digits(d)) /\ le = Len(digits(e)) /\ lf = Len(digits(f)) /\ lg = Len(digits(g))
    BY <2>9
  <2>11. ld <= 3 * (k + 1)
    <3>1. ld <= le + 1 /\ le <= lf + 1 /\ lf <= lg + 1 /\ lg <= 3 * k
      BY <2>3, <2>4, <2>5, <2>8, <2>10, Zenon
    <3> QED BY <3>1
  <2> QED BY <2>10, <2>11
<1> HIDE DEF T
<1>4. Nat \subseteq T
  BY <1>2, <1>3, Induction
<1> QED BY <1>4 DEF T

-----------------------------------------------------------------------------
(***************************************************************************)
(* What the decimal devices write.                                         *)
(***************************************************************************)
DecimalOf(d) ==
  CASE d = 0 -> <<Zero>> [] d < 0 -> <<Minus>> \o digits(-d) [] d > 0 -> digits(d)

ShowsAs(t, d, n) == t \in Seq(Int) /\ IsDecimal(t) /\ Decimal(t) = d /\ Len(t) <= n

LEMMA NumeralShows ==
  ASSUME NEW s, NEW d \in Int, NEW n \in Nat, IsNumeral(s, d), Len(s) <= n
  PROVE  ShowsAs(s, d, n) /\ ShowsAs(<<Minus>> \o s, -d, n + 1)
<1>1. /\ s \in Seq(Int) /\ s \in Seq(Number) /\ Len(s) \in Nat /\ Len(s) >= 1
      /\ s[1] # Zero /\ ValueOf(s, 10) = d
  BY DEF IsNumeral
<1>2. s # << >> /\ (\A k \in 1 .. Len(s) : s[k] \in Number) /\ s[1] \in Number
  BY <1>1
<1>3. s[1] # Minus
  BY <1>2, NumberIs
<1>4. ShowsAs(s, d, n)
  BY <1>1, <1>2, <1>3, Zenon DEF ShowsAs, IsDecimal, Decimal
<1>5. PICK t : t = <<Minus>> \o s
  OBVIOUS
<1>6. <<Minus>> \in Seq(Int)
  BY NumberIs
<1>7. t \in Seq(Int) /\ Len(t) = 1 + Len(s) /\ t[1] = Minus /\ Tail(t) = s /\ t # << >>
  <2>1. t \in Seq(Int) /\ Len(t) = 1 + Len(s)
    BY <1>1, <1>5, <1>6
  <2>2. t[1] = Minus /\ \A k \in 1 .. Len(s) : t[k + 1] = s[k]
    BY <1>1, <1>5, <1>6
  <2>3. Tail(t) \in Seq(Int) /\ Len(Tail(t)) = Len(s) /\ \A k \in 1 .. Len(s) : Tail(t)[k] = t[k + 1]
    BY <1>1, <2>1
  <2>4. Tail(t) = s
    BY <1>1, <2>2, <2>3, SameSeq
  <2> QED BY <2>1, <2>2, <2>4
<1>8. Len(t) <= n + 1
  BY <1>1, <1>7
<1>9. ShowsAs(t, -d, n + 1)
  BY <1>1, <1>2, <1>7, <1>8, Zenon DEF ShowsAs, IsDecimal, Decimal
<1> QED BY <1>4, <1>5, <1>9

LEMMA ZeroShows == \A n \in Nat : n >= 1 => ShowsAs(<<Zero>>, 0, n)
<1>1. PICK t : t = <<Zero>>
  OBVIOUS
<1>2. t \in Seq(Int) /\ Len(t) = 1 /\ t[1] = Zero /\ t # << >> /\ \A k \in 1 .. Len(t) : t[k] = Zero
  BY <1>1, NumberIs
<1>3. Zero # Minus
  BY DEF Zero, Minus
<1>4. IsDecimal(t)
  BY <1>1, <1>2, <1>3, NumberIs, Zenon DEF IsDecimal
<1>5. ValueOf(t, 10) = 0
  <2>1. t = Append(<< >>, Zero) /\ << >> \in Seq(Int) /\ Zero \in Int
    BY <1>1, NumberIs
  <2>2. DigitOf(Zero, 10) = 0
    BY NumberIs DEF Zero
  <2>3. ValueOf(t, 10) = ValueOf(<< >>, 10) * 10 + 0
    BY <2>1, <2>2, ValueAppend
  <2> QED BY <2>3, ValueNone
<1>6. Decimal(t) = 0
  BY <1>2, <1>3, <1>5, Zenon DEF Decimal
<1> QED BY <1>1, <1>2, <1>4, <1>6 DEF ShowsAs

LEMMA DecimalShows ==
  ASSUME NEW d \in Int, -Pow2(Bits - 1) < d, d < Pow2(Bits)
  PROVE  ShowsAs(DecimalOf(d), d, (Bits \div 8) * 3 + (IF d < 0 THEN 1 ELSE 0))
<1>1. PICK k \in Nat \ {0} : k = Bits \div 8 /\ 8 * k = Bits
  BY BitsType
<1>2. PICK h \in Nat \ {0} : Pow2(Bits - 1) = h /\ Pow2(Bits) = 2 * h
  BY Half, BitsType
<1>3. \A e \in 1 .. 2 * h - 1 : IsNumeral(digits(e), e) /\ Len(digits(e)) <= k * 3
  <2> SUFFICES ASSUME NEW e \in 1 .. 2 * h - 1 PROVE IsNumeral(digits(e), e) /\ Len(digits(e)) <= k * 3
    OBVIOUS
  <2>1. e \in 1 .. Pow2(Bits) /\ e \in 0 .. Pow2(Bits) /\ e < Pow2(8 * k)
    BY <1>1, <1>2
  <2>2. Len(digits(e)) <= 3 * k
    BY <2>1, DigitsLength
  <2> QED BY <2>1, <2>2, DigitsNumeral
<1>4. k * 3 \in Nat /\ k * 3 >= 1
  OBVIOUS
<1>5. CASE d = 0
  <2>1. DecimalOf(d) = <<Zero>>
    BY <1>5 DEF DecimalOf
  <2>2. (Bits \div 8) * 3 + (IF d < 0 THEN 1 ELSE 0) = k * 3
    BY <1>1, <1>5
  <2> QED BY <1>4, <1>5, <2>1, <2>2, ZeroShows
<1>6. CASE d > 0
  <2>1. DecimalOf(d) = digits(d)
    BY <1>6 DEF DecimalOf
  <2>2. (Bits \div 8) * 3 + (IF d < 0 THEN 1 ELSE 0) = k * 3
    BY <1>1, <1>6
  <2>3. d \in 1 .. 2 * h - 1
    BY <1>2, <1>6
  <2> QED BY <1>3, <1>4, <2>1, <2>2, <2>3, NumeralShows
<1>7. CASE d < 0
  <2>1. DecimalOf(d) = <<Minus>> \o digits(-d)
    BY <1>7 DEF DecimalOf
  <2>2. (Bits \div 8) * 3 + (IF d < 0 THEN 1 ELSE 0) = k * 3 + 1
    BY <1>1, <1>7
  <2>3. PICK e \in 1 .. 2 * h - 1 : e = -d /\ e \in Int /\ -e = d
    BY <1>2, <1>7
  <2>4. ShowsAs(<<Minus>> \o digits(e), -e, k * 3 + 1)
    BY <1>3, <1>4, <2>3, NumeralShows
  <2> QED BY <2>1, <2>2, <2>3, <2>4
<1> QED BY <1>5, <1>6, <1>7

LEMMA WidthBelow ==
  ASSUME NEW b \in Nat \ {0}, b < Bits
  PROVE  Pow2(b) <= Pow2(Bits - 1) /\ Pow2(b - 1) <= Pow2(Bits - 1)
<1>1. b - 1 \in Nat /\ Bits - 1 \in Nat /\ b <= Bits - 1 /\ b - 1 <= Bits - 1 /\ b \in Nat
  BY BitsType
<1> QED BY <1>1, Pow2Grows

(* The digits are of the number that is written.                           *)
LEMMA IntDecimal ==
  ASSUME NEW n \in Int, NEW b \in Nat \ {0}, b <= Bits, n < Pow2(b), n >= -Pow2(b - 1),
         n # -Pow2(Bits - 1)
  PROVE  /\ writeInt(n, b) = DecimalOf(n) /\ -Pow2(Bits - 1) < n /\ n < Pow2(Bits)
         /\ b # Bits => signed(n, Bits) = n
<1>1. PICK h \in Nat \ {0} : Pow2(Bits - 1) = h /\ Pow2(Bits) = 2 * h
  BY Half, BitsType
<1>2. b # Bits => n < h /\ n >= -h
  <2> SUFFICES ASSUME b # Bits PROVE n < h /\ n >= -h
    OBVIOUS
  <2>1. b < Bits
    BY BitsType
  <2>2. Pow2(b) <= h /\ Pow2(b - 1) <= h
    BY <1>1, <2>1, WidthBelow
  <2>3. Pow2(b) \in Nat /\ Pow2(b - 1) \in Nat
    <3>1. b \in Nat /\ b - 1 \in Nat
      OBVIOUS
    <3> QED BY <3>1, Pow2Is
  <2> QED BY <2>2, <2>3
<1>3. b # Bits => signed(n, Bits) = n
  BY <1>1, <1>2, BitsType, SignedSmall
<1>4. n < 2 * h /\ n > -h
  BY <1>1, <1>2
<1>5. ASSUME n < 0 PROVE signed(-n, Bits) = -n
  <2>1. -n \in Int /\ -n < h /\ -n >= -h
    BY <1>4, <1>5
  <2> QED BY <1>1, <2>1, BitsType, SignedSmall
<1>6. (IF b = Bits THEN n ELSE signed(n, Bits)) = n
  BY <1>3
<1>7. writeInt(n, b) = CASE n = 0 -> <<Zero>> [] n < 0 -> <<Minus>> \o digits(signed(-n, Bits))
                         [] n > 0 -> digits(n)
  BY <1>6, Zenon DEF writeInt
<1>8. writeInt(n, b) = DecimalOf(n)
  <2>1. CASE n = 0
    BY <1>7, <2>1 DEF DecimalOf
  <2>2. CASE n > 0
    BY <1>7, <2>2 DEF DecimalOf
  <2>3. CASE n < 0
    BY <1>5, <1>7, <2>3 DEF DecimalOf
  <2> QED BY <2>1, <2>2, <2>3
<1> QED BY <1>1, <1>3, <1>4, <1>8

LEMMA UIntDecimal ==
  ASSUME NEW n \in Nat, NEW b \in Nat \ {0}, b <= Bits, n < Pow2(b)
  PROVE  writeUInt(n, b) = DecimalOf(n) /\ n < Pow2(Bits) /\ -Pow2(Bits - 1) < n
<1>1. PICK h \in Nat \ {0} : Pow2(Bits - 1) = h /\ Pow2(Bits) = 2 * h
  BY Half, BitsType
<1>2. CASE b = Bits
  <2>1. writeUInt(n, b) = IF n = 0 THEN <<Zero>> ELSE digits(n)
    BY <1>2 DEF writeUInt
  <2>2. DecimalOf(n) = IF n = 0 THEN <<Zero>> ELSE digits(n)
    BY DEF DecimalOf
  <2> QED BY <1>1, <1>2, <2>1, <2>2
<1>3. CASE b # Bits
  <2>1. writeUInt(n, b) = writeInt(signed(n, Bits), Bits)
    BY <1>3 DEF writeUInt
  <2>2. Pow2(b) <= h /\ Pow2(b) \in Nat /\ Pow2(b - 1) \in Nat
    <3>1. b < Bits /\ b \in Nat /\ b - 1 \in Nat
      BY <1>3, BitsType
    <3> QED BY <1>1, <3>1, WidthBelow, Pow2Is
  <2>3. n < h /\ n >= -h /\ n \in Int
    BY <2>2
  <2>4. signed(n, Bits) = n
    BY <1>1, <2>3, BitsType, SignedSmall
  <2>5. n < Pow2(Bits) /\ n >= -Pow2(Bits - 1) /\ n # -Pow2(Bits - 1)
    BY <1>1, <2>3
  <2>6. writeInt(n, Bits) = DecimalOf(n) /\ -Pow2(Bits - 1) < n /\ n < Pow2(Bits)
    <3>1. Bits \in Nat \ {0} /\ Bits <= Bits
      BY BitsType
    <3> QED BY <2>3, <2>5, <3>1, IntDecimal
  <2> QED BY <2>1, <2>4, <2>6
<1> QED BY <1>2, <1>3

-----------------------------------------------------------------------------
(***************************************************************************)
(* What the other devices write.                                           *)
(***************************************************************************)
LEMMA Power8 == \A i \in Nat : Pow2(8 * (i + 1)) = 256 * Pow2(8 * i)
<1> SUFFICES ASSUME NEW i \in Nat PROVE Pow2(8 * (i + 1)) = 256 * Pow2(8 * i)
  OBVIOUS
<1>1. PICK w \in Nat : w = 8 * i
  OBVIOUS
<1>2. PICK x \in Nat : x = Pow2(w)
  BY Pow2Is
<1>3. /\ w + 1 \in Nat /\ w + 2 \in Nat /\ w + 3 \in Nat /\ w + 4 \in Nat /\ w + 5 \in Nat
      /\ w + 6 \in Nat /\ w + 7 \in Nat
      /\ (w + 1) + 1 = w + 2 /\ (w + 2) + 1 = w + 3 /\ (w + 3) + 1 = w + 4
      /\ (w + 4) + 1 = w + 5 /\ (w + 5) + 1 = w + 6 /\ (w + 6) + 1 = w + 7
      /\ (w + 7) + 1 = 8 * (i + 1)
  BY <1>1
<1>4. Pow2(w + 1) = 2 * x /\ Pow2(w + 2) = 2 * Pow2(w + 1) /\ Pow2(w + 3) = 2 * Pow2(w + 2)
      /\ Pow2(w + 4) = 2 * Pow2(w + 3) /\ Pow2(w + 5) = 2 * Pow2(w + 4)
      /\ Pow2(w + 6) = 2 * Pow2(w + 5) /\ Pow2(w + 7) = 2 * Pow2(w + 6)
      /\ Pow2(8 * (i + 1)) = 2 * Pow2(w + 7)
  BY <1>2, <1>3, Pow2Is, Zenon
<1> QED BY <1>1, <1>2, <1>4

(* The number above byte i is 256 times the one above the next, and it.    *)
LEMMA ByteIs ==
  ASSUME NEW d \in Nat, NEW i \in Nat
  PROVE  /\ byte(d, i + 1) \in 0 .. 255
         /\ d \div Pow2(8 * i) = 256 * (d \div Pow2(8 * (i + 1))) + byte(d, i + 1)
         /\ d \div Pow2(8 * i) \in Nat
<1>1. PICK x \in Nat \ {0} : x = Pow2(8 * i)
  BY Pow2Is
<1>2. Pow2(8 * (i + 1)) = 256 * x
  BY <1>1, Power8
<1>3. byte(d, i + 1) = (d \div x) % 256
  <2>1. 8 * ((i + 1) - 1) = 8 * i
    OBVIOUS
  <2> QED BY <1>1, <2>1, Zenon DEF byte
<1>4. PICK q \in Nat, r \in Nat : q = d \div x /\ r = d % x /\ d = x * q + r /\ r < x
  OBVIOUS
<1>5. PICK e \in Nat, b \in 0 .. 255 : e = q \div 256 /\ b = q % 256 /\ q = 256 * e + b
  OBVIOUS
<1>6. PICK s \in Nat : s = x * b + r /\ s < 256 * x
  <2>1. x * b + r \in Nat
    OBVIOUS
  <2>2. x * b + r < 256 * x
    <3>1. PICK c \in Nat : b + 1 + c = 256
      <4>1. 255 - b \in Nat /\ b + 1 + (255 - b) = 256
        OBVIOUS
      <4> QED BY <4>1
    <3>2. 256 * x = x * b + x + x * c /\ x * c \in Nat
      <4>1. 256 * x = (b + 1 + c) * x
        BY <3>1
      <4>2. (b + 1 + c) * x = x * b + x + x * c
        OBVIOUS
      <4> QED BY <4>1, <4>2
    <3> QED BY <1>4, <3>2
  <2> QED BY <2>1, <2>2
<1>7. d = (256 * x) * e + s
  <2>1. x * q = x * (256 * e + b)
    BY <1>5
  <2>2. x * (256 * e + b) = (256 * x) * e + x * b
    OBVIOUS
  <2>3. (256 * x) * e \in Nat /\ x * b \in Nat /\ x * q \in Nat
    OBVIOUS
  <2> QED BY <1>4, <1>6, <2>1, <2>2, <2>3
<1>8. d \div (256 * x) = e
  <2>1. 256 * x \in Nat \ {0}
    OBVIOUS
  <2> QED BY <1>6, <1>7, <2>1, Division
<1> QED BY <1>1, <1>2, <1>3, <1>4, <1>5, <1>8

LEMMA CIntIs ==
  ASSUME NEW d \in Nat, NEW n \in Nat
  PROVE  /\ writeCInt(d, n) \in Seq(0 .. 255) /\ Len(writeCInt(d, n)) = n
         /\ \A k \in 1 .. n : writeCInt(d, n)[k] = byte(d, (n - k) + 1)
<1>1. \A k \in 1 .. n : n - k \in Nat /\ (n - k) + 1 = n + 1 - k
  OBVIOUS
<1>2. \A k \in 1 .. n : byte(d, (n - k) + 1) \in 0 .. 255
  BY <1>1, ByteIs
<1>3. writeCInt(d, n) = [k \in 1 .. n |-> byte(d, (n - k) + 1)]
  BY <1>1, Zenon DEF writeCInt
<1> HIDE DEF writeCInt
<1> DEFINE b(k) == byte(d, (n - k) + 1)
<1>4. \A k \in 1 .. n : b(k) \in 0 .. 255
  BY <1>2
<1>5. writeCInt(d, n) = [k \in 1 .. n |-> b(k)]
  BY <1>3
<1> HIDE DEF b
<1>6. /\ writeCInt(d, n) \in Seq(0 .. 255) /\ Len(writeCInt(d, n)) = n
      /\ \A k \in 1 .. n : writeCInt(d, n)[k] = b(k)
  BY <1>4, <1>5
<1> QED BY <1>6 DEF b

(* The first characters mean the highest bytes.                            *)
LEMMA Highest ==
  ASSUME NEW s, NEW k \in Nat, s \in Seq(Int), k + 1 <= Len(s), NEW radix \in Nat
  PROVE  /\ SubSeq(s, 1, k) \in Seq(Int)
         /\ ValueOf(SubSeq(s, 1, k + 1), radix)
              = ValueOf(SubSeq(s, 1, k), radix) * radix + DigitOf(s[k + 1], radix)
<1>1. PICK t : t = SubSeq(s, 1, k)
  OBVIOUS
<1>2. t \in Seq(Int) /\ s[k + 1] \in Int
  BY <1>1
<1>3. SubSeq(s, 1, k + 1) = Append(t, s[k + 1])
  BY <1>1
<1> QED BY <1>1, <1>2, <1>3, ValueAppend

LEMMA BytesAreInt == \A s \in Seq(0 .. 255) : s \in Seq(Int)
<1>1. 0 .. 255 \subseteq Int
  OBVIOUS
<1> QED BY <1>1, SeqMonotonic

LEMMA SubSeqNone == \A s : SubSeq(s, 1, 0) = << >>
OBVIOUS

LEMMA CIntMeans ==
  ASSUME NEW d \in Nat, NEW n \in Nat, d < Pow2(8 * n)
  PROVE  ValueOf(writeCInt(d, n), 256) = d
<1>1. PICK s : s = writeCInt(d, n)
  OBVIOUS
<1>2. s \in Seq(0 .. 255) /\ s \in Seq(Int) /\ Len(s) = n /\ \A k \in 1 .. n : s[k] = byte(d, (n - k) + 1)
  BY <1>1, CIntIs, BytesAreInt
<1> DEFINE T == {k \in Nat : k <= n => ValueOf(SubSeq(s, 1, k), 256) = d \div Pow2(8 * (n - k))}
<1>3. 0 \in T
  <2>1. ValueOf(SubSeq(s, 1, 0), 256) = 0
    <3>1. ValueOf(<< >>, 256) = 0
      BY ValueNone
    <3> QED BY <3>1, SubSeqNone, Zenon
  <2>2. PICK p \in Nat \ {0} : p = Pow2(8 * n) /\ n - 0 = n
    BY Pow2Is
  <2>3. d = p * 0 + d /\ d < p
    BY <2>2
  <2>4. d \div p = 0
    BY <2>3, Division
  <2> QED BY <2>1, <2>2, <2>4
<1>4. ASSUME NEW k \in Nat, k \in T PROVE k + 1 \in T
  <2> SUFFICES ASSUME k + 1 <= n
               PROVE  ValueOf(SubSeq(s, 1, k + 1), 256) = d \div Pow2(8 * (n - (k + 1)))
    OBVIOUS
  <2>1. PICK i \in Nat : i = n - (k + 1) /\ n - k = i + 1
    OBVIOUS
  <2>2. ValueOf(SubSeq(s, 1, k), 256) = d \div Pow2(8 * (i + 1))
    <3>1. k <= n
      OBVIOUS
    <3> QED BY <1>4, <2>1, <3>1
  <2>3. s[k + 1] = byte(d, i + 1) /\ s[k + 1] \in Int
    BY <1>2, <2>1, ByteIs
  <2>4. DigitOf(s[k + 1], 256) = byte(d, i + 1)
    BY <2>3 DEF DigitOf
  <2>5. ValueOf(SubSeq(s, 1, k + 1), 256) = ValueOf(SubSeq(s, 1, k), 256) * 256 + byte(d, i + 1)
    <3>1. PICK radix \in Nat : radix = 256
      OBVIOUS
    <3>2. k + 1 <= Len(s) /\ s \in Seq(Int)
      BY <1>2
    <3>3. ValueOf(SubSeq(s, 1, k + 1), radix)
            = ValueOf(SubSeq(s, 1, k), radix) * radix + DigitOf(s[k + 1], radix)
      BY <3>2, Highest, Zenon
    <3> QED BY <2>4, <3>1, <3>3, Zenon
  <2>6. PICK v \in Nat, w \in Nat, b \in Int :
          v = d \div Pow2(8 * i) /\ w = d \div Pow2(8 * (i + 1)) /\ b = byte(d, i + 1)
          /\ v = 256 * w + b
    <3>1. i + 1 \in Nat
      OBVIOUS
    <3>2. d \div Pow2(8 * i) \in Nat /\ d \div Pow2(8 * (i + 1)) \in Nat
          /\ byte(d, i + 1) \in 0 .. 255
          /\ d \div Pow2(8 * i) = 256 * (d \div Pow2(8 * (i + 1))) + byte(d, i + 1)
      BY <3>1, ByteIs
    <3>3. byte(d, i + 1) \in Int
      BY <3>2
    <3> QED BY <3>2, <3>3, Zenon
  <2> QED BY <2>1, <2>2, <2>5, <2>6
<1> HIDE DEF T
<1>5. Nat \subseteq T
  BY <1>3, <1>4, Induction
<1>6. ValueOf(SubSeq(s, 1, n), 256) = d \div Pow2(8 * (n - n))
  BY <1>5 DEF T
<1>7. SubSeq(s, 1, n) = s
  BY <1>2
<1>8. Pow2(8 * (n - n)) = 1
  <2>1. 8 * (n - n) = 0
    OBVIOUS
  <2> QED BY <2>1, Pow2Is
<1>9. d \div 1 = d
  OBVIOUS
<1> QED BY <1>1, <1>6, <1>7, <1>8, <1>9, Zenon

HexDigits(d, n) ==
  [k \in 1 .. 2 * n |-> _write1HInt(writeCInt(d, n)[(k + 1) \div 2])[2 - (k % 2)]]

LEMMA HexIs == \A h \in 0 .. 15 : hex(h) \in Int /\ DigitOf(hex(h), 16) = h
BY DEF hex, DigitOf, Number, Zero

LEMMA HexDigitsAre ==
  ASSUME NEW d \in Nat, NEW n \in Nat
  PROVE  /\ HexDigits(d, n) \in Seq(Int) /\ Len(HexDigits(d, n)) = 2 * n
         /\ \A k \in Nat : k < n =>
              /\ HexDigits(d, n)[2 * k + 1] = hex(byte(d, n - k) \div 16)
              /\ HexDigits(d, n)[2 * k + 2] = hex(byte(d, n - k) % 16)
<1>1. PICK c : c = writeCInt(d, n)
  OBVIOUS
<1>2. c \in Seq(0 .. 255) /\ Len(c) = n /\ \A k \in 1 .. n : c[k] = byte(d, (n - k) + 1)
  BY <1>1, CIntIs
<1> DEFINE e(k) == _write1HInt(c[(k + 1) \div 2])[2 - (k % 2)]
<1>3. HexDigits(d, n) = [k \in 1 .. 2 * n |-> e(k)]
  BY <1>1, Zenon DEF HexDigits
<1>4. \A k \in Nat : k < n =>
        /\ e(2 * k + 1) = hex(c[k + 1] \div 16)
        /\ e(2 * k + 2) = hex(c[k + 1] % 16)
        /\ c[k + 1] \in 0 .. 255 /\ c[k + 1] = byte(d, n - k)
  <2> SUFFICES ASSUME NEW k \in Nat, k < n
               PROVE  /\ e(2 * k + 1) = hex(c[k + 1] \div 16)
                      /\ e(2 * k + 2) = hex(c[k + 1] % 16)
                      /\ c[k + 1] \in 0 .. 255 /\ c[k + 1] = byte(d, n - k)
    OBVIOUS
  <2>1. ((2 * k + 1) + 1) \div 2 = k + 1 /\ 2 - ((2 * k + 1) % 2) = 1
    OBVIOUS
  <2>2. ((2 * k + 2) + 1) \div 2 = k + 1 /\ 2 - ((2 * k + 2) % 2) = 2
    OBVIOUS
  <2>3. \A b : _write1HInt(b)[1] = hex(b \div 16) /\ _write1HInt(b)[2] = hex(b % 16)
    BY DEF _write1HInt
  <2>4. k + 1 \in 1 .. n /\ (n - (k + 1)) + 1 = n - k
    OBVIOUS
  <2>5. c[k + 1] \in 0 .. 255 /\ c[k + 1] = byte(d, n - k)
    <3>1. c[k + 1] = byte(d, (n - (k + 1)) + 1)
      BY <1>2, <2>4, Zenon
    <3>2. c[k + 1] \in 0 .. 255
      BY <1>2, <2>4, ElementOfSeq
    <3> QED BY <2>4, <3>1, <3>2, Zenon
  <2> QED BY <2>1, <2>2, <2>3, <2>5, Zenon
<1>5. \A b \in 0 .. 255 : hex(b \div 16) \in Int /\ hex(b % 16) \in Int
  <2>1. \A b \in 0 .. 255 : b \div 16 \in 0 .. 15 /\ b % 16 \in 0 .. 15
    OBVIOUS
  <2> QED BY <2>1, HexIs
<1> HIDE DEF e
<1>6. \A i \in 1 .. 2 * n : e(i) \in Int
  <2> SUFFICES ASSUME NEW i \in 1 .. 2 * n PROVE e(i) \in Int
    OBVIOUS
  <2>1. PICK k \in Nat : k < n /\ (i = 2 * k + 1 \/ i = 2 * k + 2)
    <3>1. (i - 1) \div 2 \in Nat /\ (i - 1) \div 2 < n
          /\ (i = 2 * ((i - 1) \div 2) + 1 \/ i = 2 * ((i - 1) \div 2) + 2)
      OBVIOUS
    <3> QED BY <3>1
  <2>2. e(2 * k + 1) \in Int /\ e(2 * k + 2) \in Int
    BY <1>4, <1>5, <2>1
  <2> QED BY <2>1, <2>2, Zenon
<1>7. HexDigits(d, n) \in Seq(Int) /\ Len(HexDigits(d, n)) = 2 * n
  BY <1>3, <1>6
<1>8. \A i \in 1 .. 2 * n : HexDigits(d, n)[i] = e(i)
  BY <1>3, Zenon
<1>9. \A k \in Nat : k < n => 2 * k + 1 \in 1 .. 2 * n /\ 2 * k + 2 \in 1 .. 2 * n
  OBVIOUS
<1> QED BY <1>4, <1>7, <1>8, <1>9, Zenon

LEMMA HexMeans ==
  ASSUME NEW d \in Nat, NEW n \in Nat, d < Pow2(8 * n)
  PROVE  ValueOf(HexDigits(d, n), 16) = d
<1>1. PICK s : s = HexDigits(d, n)
  OBVIOUS
<1>2. s \in Seq(Int) /\ Len(s) = 2 * n
  BY <1>1, HexDigitsAre
<1>9. \A c \in Nat : c < n => /\ s[2 * c + 1] = hex(byte(d, n - c) \div 16)
                             /\ s[2 * c + 2] = hex(byte(d, n - c) % 16)
  <2>1. \A c \in Nat : c < n => /\ HexDigits(d, n)[2 * c + 1] = hex(byte(d, n - c) \div 16)
                               /\ HexDigits(d, n)[2 * c + 2] = hex(byte(d, n - c) % 16)
    BY HexDigitsAre
  <2> QED BY <1>1, <2>1
<1> DEFINE T == {k \in Nat : k <= n => ValueOf(SubSeq(s, 1, 2 * k), 16) = d \div Pow2(8 * (n - k))}
<1>3. 0 \in T
  <2>1. ValueOf(SubSeq(s, 1, 2 * 0), 16) = 0
    <3>1. ValueOf(<< >>, 16) = 0 /\ 2 * 0 = 0
      BY ValueNone
    <3> QED BY <3>1, SubSeqNone, Zenon
  <2>2. PICK p \in Nat \ {0} : p = Pow2(8 * n) /\ n - 0 = n
    BY Pow2Is
  <2>3. d = p * 0 + d /\ d < p
    BY <2>2
  <2>4. d \div p = 0
    BY <2>3, Division
  <2> QED BY <2>1, <2>2, <2>4
<1>4. ASSUME NEW k \in Nat, k \in T PROVE k + 1 \in T
  <2> SUFFICES ASSUME k + 1 <= n
               PROVE  ValueOf(SubSeq(s, 1, 2 * (k + 1)), 16) = d \div Pow2(8 * (n - (k + 1)))
    OBVIOUS
  <2>1. PICK i \in Nat : i = n - (k + 1) /\ n - k = i + 1
    OBVIOUS
  <2>2. ValueOf(SubSeq(s, 1, 2 * k), 16) = d \div Pow2(8 * (i + 1))
    <3>1. k <= n
      OBVIOUS
    <3> QED BY <1>4, <2>1, <3>1
  <2>3. PICK b \in 0 .. 255 : b = byte(d, i + 1)
    BY ByteIs
  <2>4. PICK u \in 0 .. 15, l \in 0 .. 15 : u = b \div 16 /\ l = b % 16 /\ b = 16 * u + l
    OBVIOUS
  <2>5. PICK j \in Nat : j = 2 * k /\ j + 1 <= Len(s) /\ (j + 1) + 1 <= Len(s)
                         /\ (j + 1) + 1 = 2 * (k + 1) /\ j + 1 = 2 * k + 1 /\ j + 1 \in Nat
    BY <1>2
  <2>6. s[j + 1] = hex(u) /\ s[(j + 1) + 1] = hex(l)
    <3>1. k < n /\ (j + 1) + 1 = 2 * k + 2
      BY <2>5
    <3>2. s[2 * k + 1] = hex(byte(d, n - k) \div 16) /\ s[2 * k + 2] = hex(byte(d, n - k) % 16)
      BY <1>9, <3>1
    <3> QED BY <2>1, <2>3, <2>4, <2>5, <3>1, <3>2, Zenon
  <2>7. DigitOf(s[j + 1], 16) = u /\ DigitOf(s[(j + 1) + 1], 16) = l
    BY <2>4, <2>6, HexIs
  <2>8. 16 \in Nat
    OBVIOUS
  <2>9. ValueOf(SubSeq(s, 1, j + 1), 16) = ValueOf(SubSeq(s, 1, j), 16) * 16 + u
    <3>1. ValueOf(SubSeq(s, 1, j + 1), 16) = ValueOf(SubSeq(s, 1, j), 16) * 16 + DigitOf(s[j + 1], 16)
      BY <1>2, <2>5, <2>8, Highest
    <3> QED BY <2>7, <3>1, Zenon
  <2>10. ValueOf(SubSeq(s, 1, (j + 1) + 1), 16) = ValueOf(SubSeq(s, 1, j + 1), 16) * 16 + l
    <3>1. ValueOf(SubSeq(s, 1, (j + 1) + 1), 16)
            = ValueOf(SubSeq(s, 1, j + 1), 16) * 16 + DigitOf(s[(j + 1) + 1], 16)
      BY <1>2, <2>5, <2>8, Highest
    <3> QED BY <2>7, <3>1, Zenon
  <2>11. PICK v \in Nat, w \in Nat :
           v = d \div Pow2(8 * i) /\ w = d \div Pow2(8 * (i + 1)) /\ v = 256 * w + b
    <3>1. i + 1 \in Nat
      OBVIOUS
    <3>2. d \div Pow2(8 * i) \in Nat /\ d \div Pow2(8 * (i + 1)) \in Nat
          /\ d \div Pow2(8 * i) = 256 * (d \div Pow2(8 * (i + 1))) + byte(d, i + 1)
      BY <3>1, ByteIs
    <3> QED BY <2>3, <3>2
  <2>12. PICK x : x = ValueOf(SubSeq(s, 1, 2 * (k + 1)), 16)
    OBVIOUS
  <2>13. x = (w * 16 + u) * 16 + l
    BY <2>2, <2>5, <2>9, <2>10, <2>11, <2>12, Zenon
  <2>14. x = v
    BY <2>4, <2>11, <2>13
  <2> QED BY <2>1, <2>11, <2>12, <2>14, Zenon
<1> HIDE DEF T
<1>5. Nat \subseteq T
  BY <1>3, <1>4, Induction
<1>6. ValueOf(SubSeq(s, 1, 2 * n), 16) = d \div Pow2(8 * (n - n))
  BY <1>5 DEF T
<1>7. SubSeq(s, 1, 2 * n) = s
  BY <1>2
<1>8. Pow2(8 * (n - n)) = 1
  <2>1. 8 * (n - n) = 0
    OBVIOUS
  <2> QED BY <2>1, Pow2Is
<1>10. d \div 1 = d
  OBVIOUS
<1> QED BY <1>1, <1>6, <1>7, <1>8, <1>10, Zenon

-----------------------------------------------------------------------------
(***************************************************************************)
(* What is written for an item means it.                                   *)
(***************************************************************************)
LEMMA DomainIs ==
  ASSUME NEW x \in Int
  PROVE  signed(x, Bits) \in Domain /\ digits(signed(x, Bits)) \in Seq(Int)
<1>1. PICK h \in Nat \ {0} : Pow2(Bits - 1) = h /\ Pow2(Bits) = 2 * h
  BY Half, BitsType
<1>2. signed(x, Bits) \in Int /\ -Pow2(Bits - 1) <= signed(x, Bits) /\ signed(x, Bits) < Pow2(Bits - 1)
  BY BitsType, SignedIs
<1>3. signed(x, Bits) \in Domain
  BY <1>1, <1>2 DEF Domain
<1> QED BY <1>3, DecimalIs

LEMMA IntType ==
  ASSUME NEW n \in Int, NEW b, b = Bits => n \in Domain
  PROVE  writeInt(n, b) \in Seq(Int)
<1>1. PICK d \in Domain : d = IF b = Bits THEN n ELSE signed(n, Bits)
  <2>1. (IF b = Bits THEN n ELSE signed(n, Bits)) \in Domain
    BY DomainIs
  <2> QED BY <2>1
<1>2. d \in Int
  BY <1>1, BitsType DEF Domain
<1>3. writeInt(n, b) = CASE d = 0 -> <<Zero>> [] d < 0 -> <<Minus>> \o digits(signed(-d, Bits))
                         [] d > 0 -> digits(d)
  BY <1>1, Zenon DEF writeInt
<1>4. <<Zero>> \in Seq(Int) /\ <<Minus>> \in Seq(Int) /\ -d \in Int
  BY <1>2 DEF Zero, Minus
<1>5. digits(d) \in Seq(Int) /\ digits(signed(-d, Bits)) \in Seq(Int)
  BY <1>1, <1>4, DecimalIs, DomainIs
<1>6. <<Minus>> \o digits(signed(-d, Bits)) \in Seq(Int)
  BY <1>4, <1>5
<1>7. CASE d = 0
  BY <1>3, <1>4, <1>7
<1>8. CASE d < 0
  BY <1>2, <1>3, <1>6, <1>8
<1>9. CASE d > 0
  BY <1>2, <1>3, <1>5, <1>9
<1> QED BY <1>2, <1>7, <1>8, <1>9

Faithful(i) == written(i) \in Seq(Int) /\ Means(written(i), i)

(* A text that shows a number fits into the buffer.                        *)
LEMMA ShowsMeans ==
  ASSUME NEW i, NEW t, NEW n \in Int, i.kind \in {"int", "uint"}, i.value = n,
         ShowsAs(t, n, (Bits \div 8) * 3 + (IF n < 0 THEN 1 ELSE 0)),
         i.kind = "uint" => n >= 0
  PROVE  Means(t, i)
<1>1. PICK m \in Nat : m = (Bits \div 8) * 3
  BY BitsType
<1>2. t \in Seq(Int) /\ IsDecimal(t) /\ Decimal(t) = i.value
      /\ Len(t) <= m + (IF n < 0 THEN 1 ELSE 0)
  BY <1>1, Zenon DEF ShowsAs
<1>3. Len(t) \in Nat
  BY <1>2
<1>4. Buffer(i) = m + (IF i.kind = "int" THEN 1 ELSE 0)
  BY <1>1, Zenon DEF Buffer
<1>5. Len(t) <= Buffer(i)
  <2>1. CASE i.kind = "int"
    BY <1>2, <1>3, <1>4, <2>1
  <2>2. CASE i.kind = "uint"
    BY <1>2, <1>3, <1>4, <2>2
  <2> QED BY <2>1, <2>2
<1> QED BY <1>2, <1>5 DEF Means

LEMMA IntFaithful == ASSUME NEW i, i.kind = "int", IsNumber(i) PROVE Faithful(i)
<1>1. PICK n \in Int, b \in Nat \ {0} : n = i.value /\ b = i.bits
  BY DEF IsNumber
<1>2. b <= Bits => n < Pow2(b) /\ n >= -Pow2(b - 1)
  BY <1>1 DEF IsNumber
<1>3. written(i) = writeInt(n, b)
  BY <1>1 DEF written
<1>4. b = Bits => n \in Domain
  <2>1. PICK h \in Nat \ {0} : Pow2(Bits - 1) = h /\ Pow2(Bits) = 2 * h
    BY Half, BitsType
  <2> QED BY <1>2, <2>1, BitsType DEF Domain
<1>5. written(i) \in Seq(Int)
  BY <1>3, <1>4, IntType
<1>6. ASSUME Writable(i) PROVE Means(written(i), i)
  <2>1. b <= Bits /\ n # -Pow2(Bits - 1)
    BY <1>1, <1>6 DEF Writable
  <2>2. writeInt(n, b) = DecimalOf(n) /\ -Pow2(Bits - 1) < n /\ n < Pow2(Bits)
    BY <1>2, <2>1, IntDecimal
  <2>3. ShowsAs(written(i), n, (Bits \div 8) * 3 + (IF n < 0 THEN 1 ELSE 0))
    BY <1>3, <2>2, DecimalShows
  <2> QED BY <1>1, <2>3, ShowsMeans
<1>7. ASSUME ~ Writable(i) PROVE Means(written(i), i)
  BY <1>7 DEF Means
<1> QED BY <1>5, <1>6, <1>7 DEF Faithful

LEMMA UIntFaithful == ASSUME NEW i, i.kind = "uint", IsNumber(i) PROVE Faithful(i)
<1>1. PICK n \in Int, b \in Nat \ {0} : n = i.value /\ b = i.bits
  BY DEF IsNumber
<1>2. b <= Bits => n < Pow2(b) /\ n >= 0
  BY <1>1 DEF IsNumber
<1>3. written(i) = writeUInt(n, b)
  BY <1>1 DEF written
<1>4. ASSUME b <= Bits
      PROVE  ShowsAs(written(i), n, (Bits \div 8) * 3 + (IF n < 0 THEN 1 ELSE 0)) /\ n >= 0
  <2>1. n \in Nat /\ n < Pow2(b)
    BY <1>2, <1>4
  <2>2. writeUInt(n, b) = DecimalOf(n) /\ n < Pow2(Bits) /\ -Pow2(Bits - 1) < n
    BY <1>4, <2>1, UIntDecimal
  <2> QED BY <1>3, <2>1, <2>2, DecimalShows
<1>5. CASE b <= Bits
  <2>1. Means(written(i), i)
    BY <1>1, <1>4, <1>5, ShowsMeans
  <2>2. written(i) \in Seq(Int)
    BY <1>4, <1>5 DEF ShowsAs
  <2> QED BY <2>1, <2>2 DEF Faithful
<1>6. CASE ~ b <= Bits
  <2>1. b # Bits
    BY <1>6, BitsType
  <2>2. writeUInt(n, b) = writeInt(signed(n, Bits), Bits)
    BY <2>1 DEF writeUInt
  <2>3. signed(n, Bits) \in Domain /\ signed(n, Bits) \in Int
    BY BitsType, DomainIs, SignedIs
  <2>4. written(i) \in Seq(Int)
    BY <1>3, <2>2, <2>3, IntType
  <2>5. ~ Writable(i)
    BY <1>1, <1>6 DEF Writable
  <2> QED BY <2>4, <2>5 DEF Faithful, Means
<1> QED BY <1>5, <1>6

LEMMA CutToSize ==
  ASSUME NEW x \in Int, NEW b \in Nat \ {0}, b % 8 = 0
  PROVE  /\ x % Pow2(b) \in Nat /\ b \div 8 \in Nat /\ 8 * (b \div 8) = b
         /\ x % Pow2(b) < Pow2(8 * (b \div 8)) /\ 2 * (b \div 8) = b \div 4
<1>1. PICK m \in Nat \ {0} : m = Pow2(b)
  BY Pow2Is
<1>2. x % m \in 0 .. m - 1
  OBVIOUS
<1>3. b \div 8 \in Nat /\ 8 * (b \div 8) = b /\ 2 * (b \div 8) = b \div 4
  OBVIOUS
<1> QED BY <1>1, <1>2, <1>3

LEMMA CIntFaithful == ASSUME NEW i, i.kind = "cint", IsNumber(i) PROVE Faithful(i)
<1>1. PICK n \in Int, b \in Nat \ {0} : n = i.value /\ b = i.bits /\ b % 8 = 0
  BY DEF IsNumber
<1>2. PICK d \in Nat, l \in Nat : d = n % Pow2(b) /\ l = b \div 8 /\ d < Pow2(8 * l)
  BY <1>1, CutToSize
<1>3. written(i) = writeCInt(d, l)
  BY <1>1, <1>2 DEF written
<1>4. writeCInt(d, l) \in Seq(Int) /\ Len(writeCInt(d, l)) = l
  BY CIntIs, BytesAreInt
<1>5. ValueOf(writeCInt(d, l), 256) = d
  BY <1>2, CIntMeans
<1> QED BY <1>1, <1>2, <1>3, <1>4, <1>5 DEF Faithful, Means

LEMMA HIntFaithful == ASSUME NEW i, i.kind = "hint", IsNumber(i) PROVE Faithful(i)
<1>1. PICK n \in Int, b \in Nat \ {0} : n = i.value /\ b = i.bits /\ b % 8 = 0
  BY DEF IsNumber
<1>2. PICK d \in Nat, l \in Nat : d = n % Pow2(b) /\ l = b \div 8 /\ d < Pow2(8 * l)
                                  /\ 2 * l = b \div 4
  BY <1>1, CutToSize
<1>3. PICK s \in Seq(Int) : s = HexDigits(d, l) /\ Len(s) = 2 * l
  BY HexDigitsAre
<1>4. written(i) = writeHInt(d, l)
  BY <1>1, <1>2 DEF written
<1>5. PICK h \in Seq(Int) : h = Hexadecimal /\ Len(h) = 2
  <2>1. <<Zero, 120>> \in Seq(Int) /\ Len(<<Zero, 120>>) = 2
    BY DEF Zero
  <2> QED BY <2>1 DEF Hexadecimal
<1>6. PICK t : t = h \o s
  OBVIOUS
<1>7. written(i) = t
  BY <1>3, <1>4, <1>5, <1>6, Zenon DEF writeHInt, HexDigits
<1>8. ValueOf(s, 16) = d
  BY <1>2, <1>3, HexMeans
<1>9. /\ t \in Seq(Int) /\ Len(t) = 2 + 2 * l
      /\ SubSeq(t, 1, 2) = h /\ SubSeq(t, 3, Len(t)) = s
  <2>0. t \in Seq(Int) /\ Len(t) = Len(h) + Len(s)
    BY <1>6, JoinIs, Zenon
  <2>1. t \in Seq(Int) /\ Len(t) = 2 + 2 * l
    BY <1>3, <1>5, <2>0
  <2>2. SubSeq(t, 1, Len(h)) = h /\ SubSeq(t, Len(h) + 1, Len(t)) = s
    BY <1>6, Halves DEF After
  <2>3. Len(h) + 1 = 3
    BY <1>5
  <2> QED BY <1>5, <2>1, <2>2, <2>3
<1>10. Means(t, i)
  <2>1. Len(t) = 2 + i.bits \div 4
    BY <1>1, <1>2, <1>9
  <2>2. ValueOf(SubSeq(t, 3, Len(t)), 16) = i.value % Pow2(i.bits)
    BY <1>1, <1>2, <1>8, <1>9
  <2> QED BY <1>5, <1>9, <2>1, <2>2 DEF Means
<1> QED BY <1>7, <1>9, <1>10 DEF Faithful

LEMMA TextFaithful == ASSUME NEW i, i.kind \in {"string", "char", "newline"}, IsItem(i) PROVE Faithful(i)
<1>1. Means(written(i), i)
  BY DEF Means
<1>2. CASE i.kind = "string"
  <2>1. written(i) = i.text /\ i.text \in Seq(0 .. 255)
    BY <1>2 DEF written, IsItem, Character
  <2> QED BY <1>1, <2>1, BytesAreInt DEF Faithful
<1>3. CASE i.kind = "char"
  <2>1. written(i) = <<i.value>> /\ i.value \in Int
    BY <1>3 DEF written, IsItem, Character
  <2> QED BY <1>1, <2>1 DEF Faithful
<1>4. CASE i.kind = "newline"
  <2>1. written(i) = <<10, 13>>
    BY <1>4 DEF written
  <2> QED BY <1>1, <2>1 DEF Faithful
<1> QED BY <1>2, <1>3, <1>4

LEMMA ItemFaithful == ASSUME NEW i, IsItem(i) PROVE Faithful(i)
<1>1. CASE i.kind \in {"string", "char", "newline"}
  BY <1>1, TextFaithful
<1>2. CASE i.kind \in {"int", "uint", "hint", "cint"} /\ IsNumber(i)
  BY <1>2, IntFaithful, UIntFaithful, HIntFaithful, CIntFaithful
<1> QED BY <1>1, <1>2 DEF IsItem

-----------------------------------------------------------------------------
(* The writer: what it has put since an item began, with what is left of   *)
(* it, is what the item is written as.                                     *)
Piece(b, e) == SubSeq(sent, b + 1, e)
Laid(k) == Piece(begins[k], begins[k + 1]) = written(script.items[k])
Put == Piece(begins[entry - 1], Len(sent)) \o text = written(script.items[entry - 1])

WriterInv ==
  /\ script \in Scripts
  /\ entry \in Nat \ {0} /\ entry - 1 <= Len(script.items)
  /\ sent \in Seq(Int) /\ text \in Seq(Int)
  /\ begins \in Seq(Nat) /\ Len(begins) = entry - 1
  /\ \A k \in 1 .. entry - 1 : begins[k] <= Len(sent)
  /\ \A k \in 1 .. entry - 2 : Laid(k)
  /\ entry = 1 => text = << >>
  /\ entry # 1 => Put

LEMMA PieceGrows ==
  ASSUME NEW s \in Seq(Int), NEW c \in Int, NEW a \in Nat \ {0}, a <= Len(s) + 1
  PROVE  /\ \A e \in Nat : e <= Len(s) => SubSeq(Append(s, c), a, e) = SubSeq(s, a, e)
         /\ SubSeq(Append(s, c), a, Len(s) + 1) = Append(SubSeq(s, a, Len(s)), c)
<1>1. PICK n \in Nat : n = Len(s)
  OBVIOUS
<1>2. PICK t \in Seq(Int) : t = Append(s, c) /\ Len(t) = Len(s) + 1 /\ t[Len(s) + 1] = c
                            /\ \A k \in 1 .. Len(s) : t[k] = s[k]
  BY AddIs, Zenon
<1>3. Len(t) = n + 1 /\ t[n + 1] = c /\ (\A k \in 1 .. n : t[k] = s[k]) /\ n + 1 \in Nat /\ a <= n + 1
      /\ n <= Len(s) /\ n + 1 <= Len(t) /\ a <= (n + 1) + 1
  BY <1>1, <1>2
<1>4. ASSUME NEW e \in Nat, e <= n PROVE SubSeq(t, a, e) = SubSeq(s, a, e)
  <2>1. CASE a <= e + 1
    <3>1. e <= Len(s) /\ e <= Len(t)
      BY <1>1, <1>3, <1>4
    <3>2. PICK x \in Seq(Int) : x = SubSeq(t, a, e) /\ Len(x) = (e + 1) - a
                                /\ \A k \in 1 .. (e + 1) - a : x[k] = t[(a - 1) + k]
      BY <2>1, <3>1, Cut, Zenon
    <3>3. PICK y \in Seq(Int) : y = SubSeq(s, a, e) /\ Len(y) = (e + 1) - a
                                /\ \A k \in 1 .. (e + 1) - a : y[k] = s[(a - 1) + k]
      BY <2>1, <3>1, Cut, Zenon
    <3>4. \A k \in 1 .. (e + 1) - a : (a - 1) + k \in 1 .. n
      BY <1>4
    <3>5. \A k \in 1 .. Len(x) : x[k] = y[k]
      BY <1>3, <3>2, <3>3, <3>4
    <3> QED BY <3>2, <3>3, <3>5, SameSeq
  <2>2. CASE ~ a <= e + 1
    <3>1. a > e
      BY <2>2
    <3> QED BY <1>2, <3>1
  <2> QED BY <2>1, <2>2
<1>5. PICK u \in Seq(Int) : u = SubSeq(s, a, n) /\ Len(u) = (n + 1) - a
                            /\ \A k \in 1 .. (n + 1) - a : u[k] = s[(a - 1) + k]
  BY <1>3, Cut, Zenon
<1>6. PICK v \in Seq(Int) : v = SubSeq(t, a, n + 1) /\ Len(v) = ((n + 1) + 1) - a
                            /\ \A k \in 1 .. ((n + 1) + 1) - a : v[k] = t[(a - 1) + k]
  BY <1>3, Cut, Zenon
<1>7. PICK x \in Seq(Int) : x = Append(u, c) /\ Len(x) = Len(u) + 1 /\ x[Len(u) + 1] = c
                            /\ \A k \in 1 .. Len(u) : x[k] = u[k]
  BY AddIs, Zenon
<1>8. PICK m \in Nat : m = (n + 1) - a
  BY <1>3
<1>9. Len(u) = m /\ Len(v) = m + 1 /\ Len(x) = m + 1 /\ (a - 1) + (m + 1) = n + 1
      /\ ((n + 1) + 1) - a = m + 1
  BY <1>5, <1>6, <1>7, <1>8
<1>10. \A k \in 1 .. m : (a - 1) + k \in 1 .. n /\ k \in 1 .. m + 1
  BY <1>8
<1>11. ASSUME NEW k \in 1 .. m + 1 PROVE v[k] = x[k]
  <2>1. v[k] = t[(a - 1) + k]
    BY <1>6, <1>9
  <2>2. CASE k = m + 1
    <3>1. x[m + 1] = c
      BY <1>7, <1>9
    <3> QED BY <1>3, <1>9, <2>1, <2>2, <3>1
  <2>3. CASE k \in 1 .. m
    <3>1. t[(a - 1) + k] = s[(a - 1) + k]
      BY <1>3, <1>10, <2>3
    <3>2. x[k] = u[k] /\ u[k] = s[(a - 1) + k]
      BY <1>5, <1>7, <1>8, <1>9, <2>3
    <3> QED BY <2>1, <3>1, <3>2
  <2>4. k = m + 1 \/ k \in 1 .. m
    OBVIOUS
  <2> QED BY <2>2, <2>3, <2>4
<1>12. v = x
  BY <1>9, <1>11, SameSeq
<1> QED BY <1>1, <1>2, <1>4, <1>5, <1>6, <1>7, <1>12

LEMMA HeadFirst ==
  ASSUME NEW u \in Seq(Int), NEW t \in Seq(Int), t # << >>
  PROVE  /\ Append(u, Head(t)) \o Tail(t) = u \o t
         /\ Head(t) \in Int /\ Tail(t) \in Seq(Int)
<1>1. PICK c \in Int : c = Head(t) /\ c = t[1]
  BY RestIs
<1>2. PICK v \in Seq(Int) : v = Tail(t) /\ Len(v) = Len(t) - 1 /\ Len(t) >= 1
                            /\ \A k \in 1 .. Len(t) - 1 : v[k] = t[k + 1]
  BY RestIs
<1>3. PICK w \in Seq(Int) : w = Append(u, c) /\ Len(w) = Len(u) + 1 /\ w[Len(u) + 1] = c
                            /\ \A k \in 1 .. Len(u) : w[k] = u[k]
  BY AddIs
<1>4. PICK x \in Seq(Int) : x = w \o v /\ Len(x) = Len(w) + Len(v)
         /\ \A k \in 1 .. Len(x) : x[k] = IF k <= Len(w) THEN w[k] ELSE v[k - Len(w)]
  BY JoinIs
<1>5. PICK y \in Seq(Int) : y = u \o t /\ Len(y) = Len(u) + Len(t)
         /\ \A k \in 1 .. Len(y) : y[k] = IF k <= Len(u) THEN u[k] ELSE t[k - Len(u)]
  BY JoinIs
<1>6. Len(x) = Len(y)
  BY <1>2, <1>3, <1>4, <1>5
<1>7. ASSUME NEW k \in 1 .. Len(x) PROVE x[k] = y[k]
  <2>1. CASE k <= Len(u)
    BY <1>3, <1>4, <1>5, <1>6, <1>7, <2>1
  <2>2. CASE k = Len(u) + 1
    BY <1>1, <1>3, <1>4, <1>5, <1>6, <1>7, <2>2
  <2>3. CASE k > Len(u) + 1
    <3>1. k - Len(w) \in 1 .. Len(t) - 1 /\ (k - Len(w)) + 1 = k - Len(u) /\ ~ k <= Len(w) /\ ~ k <= Len(u)
      BY <1>2, <1>3, <1>4, <1>7, <2>3
    <3> QED BY <1>2, <1>4, <1>5, <1>6, <3>1
  <2> QED BY <2>1, <2>2, <2>3
<1> QED BY <1>1, <1>2, <1>3, <1>4, <1>5, <1>6, <1>7, SameSeq

LEMMA WriteKeeps == ASSUME WriterInv, Write PROVE WriterInv'
<1>1. PICK n \in Nat : n = Len(sent)
  BY DEF WriterInv
<1>2. IsItem(script.items[entry]) /\ Len(script.items) \in Nat
  BY ScriptsAssumption DEF WriterInv, Write
<1>3. PICK w \in Seq(Int) : w = written(script.items[entry])
  BY <1>2, ItemFaithful DEF Faithful
<1>4. /\ begins' \in Seq(Nat) /\ Len(begins') = entry /\ begins'[entry] = n
      /\ \A k \in 1 .. entry - 1 : begins'[k] = begins[k]
  BY <1>1 DEF WriterInv, Write
<1>5. entry' = entry + 1 /\ text' = w /\ sent' = sent /\ script' = script /\ text = << >>
  BY <1>3 DEF Write
<1>6. \A k \in 1 .. entry - 2 : Laid(k)'
  <2> SUFFICES ASSUME NEW k \in 1 .. entry - 2 PROVE Laid(k)'
    OBVIOUS
  <2>1. Laid(k) /\ begins'[k] = begins[k] /\ begins'[k + 1] = begins[k + 1]
    BY <1>4 DEF WriterInv
  <2> QED BY <1>5, <2>1 DEF Laid, Piece
<1>7. ASSUME entry # 1, NEW k, k = entry - 1 PROVE Laid(k)'
  <2>1. k \in 1 .. entry - 1 /\ k + 1 = entry
    BY <1>7 DEF WriterInv
  <2>2. begins'[k] = begins[k] /\ begins'[k + 1] = n /\ begins[k] \in Nat /\ begins[k] <= n
    BY <1>1, <1>4, <2>1 DEF WriterInv
  <2>3. Piece(begins[k], n) \o << >> = written(script.items[k])
    BY <1>1, <1>5, <1>7 DEF WriterInv, Put
  <2>4. Piece(begins[k], n) \in Seq(Int)
    BY <1>1, <2>2 DEF Piece, WriterInv
  <2>5. Piece(begins[k], n) = written(script.items[k])
    BY <2>3, <2>4, ConcatEmptySeq, Zenon
  <2> QED BY <1>5, <2>2, <2>5 DEF Laid, Piece
<1>8. \A k \in 1 .. entry' - 2 : Laid(k)'
  <2>1. PICK n0 \in Nat \ {0} : n0 = entry
    BY DEF WriterInv
  <2>2. \A k \in 1 .. (n0 + 1) - 2 : k \in 1 .. n0 - 2 \/ (k = n0 - 1 /\ n0 # 1)
    BY <2>1
  <2>3. entry' = n0 + 1
    BY <1>5, <2>1
  <2> SUFFICES ASSUME NEW k \in 1 .. (n0 + 1) - 2 PROVE Laid(k)'
    BY <2>3, Zenon
  <2> QED BY <1>6, <1>7, <2>1, <2>2
<1>9. Put'
  <2>1. entry' - 1 = entry
    BY <1>5 DEF WriterInv
  <2>2. begins'[entry' - 1] = n /\ Len(sent') = n /\ text' = w
        /\ written(script.items[entry - 1])' = written(script.items[entry])
    BY <1>1, <1>4, <1>5, <2>1
  <2>3. SubSeq(sent, n + 1, n) = << >>
    BY <1>1 DEF WriterInv
  <2>4. << >> \o w = w
    BY <1>3, ConcatEmptySeq
  <2> QED BY <1>3, <1>5, <2>2, <2>3, <2>4 DEF Put, Piece
<1>10. \A k \in 1 .. entry' - 1 : begins'[k] <= Len(sent')
  <2>1. \A k \in 1 .. entry - 1 : begins'[k] <= n
    BY <1>1, <1>4 DEF WriterInv
  <2> QED BY <1>1, <1>4, <1>5, <2>1 DEF WriterInv
<1>11. entry' \in Nat \ {0} /\ entry' - 1 <= Len(script'.items) /\ Len(begins') = entry' - 1 /\ entry' # 1
  BY <1>2, <1>4, <1>5 DEF WriterInv, Write
<1> QED BY <1>3, <1>4, <1>5, <1>8, <1>9, <1>10, <1>11 DEF WriterInv

LEMMA SecPutKeeps == ASSUME WriterInv, secPut PROVE WriterInv'
<1>1. PICK n \in Nat : n = Len(sent)
  BY DEF WriterInv
<1>2. PICK c \in Int, v \in Seq(Int) : c = Head(text) /\ v = Tail(text)
  BY HeadFirst DEF WriterInv, secPut
<1>3. sent' = Append(sent, c) /\ text' = v /\ sent' \in Seq(Int) /\ Len(sent') = n + 1
  BY <1>1, <1>2 DEF secPut, WriterInv
<1>4. UNCHANGED <<script, entry, begins>>
  BY DEF secPut
<1>11. sent \in Seq(Int)
  BY DEF WriterInv
<1>5. \A k \in 1 .. entry - 1 : begins[k] \in Nat /\ begins[k] <= n
  BY <1>1 DEF WriterInv
<1>6. \A k \in 1 .. entry - 2 : Laid(k)'
  <2> SUFFICES ASSUME NEW k \in 1 .. entry - 2 PROVE Laid(k)'
    OBVIOUS
  <2>1. Laid(k) /\ k \in 1 .. entry - 1 /\ k + 1 \in 1 .. entry - 1
    BY DEF WriterInv
  <2>2. PICK b \in Nat, e \in Nat : b = begins[k] /\ e = begins[k + 1] /\ b <= n /\ e <= n
    BY <1>5, <2>1
  <2>3. SubSeq(sent', b + 1, e) = SubSeq(sent, b + 1, e)
    <3>1. b + 1 \in Nat \ {0} /\ b + 1 <= Len(sent) + 1 /\ e <= Len(sent)
      BY <1>1, <2>2
    <3> QED BY <1>3, <1>11, <3>1, PieceGrows, Zenon
  <2> QED BY <1>4, <2>1, <2>2, <2>3 DEF Laid, Piece
<1>7. entry # 1
  BY DEF WriterInv, secPut
<1>8. Put'
  <2>1. PICK b \in Nat : b = begins[entry - 1] /\ b <= n
    BY <1>5, <1>7 DEF WriterInv
  <2>6. b + 1 \in Nat \ {0} /\ b + 1 <= Len(sent) + 1 /\ Len(sent) <= Len(sent) /\ Len(sent) \in Nat
    BY <1>1, <2>1
  <2>2. PICK u \in Seq(Int) : u = SubSeq(sent, b + 1, n)
    <3>1. PICK x \in Seq(Int) : x = SubSeq(sent, b + 1, Len(sent)) /\ Len(x) = (Len(sent) + 1) - (b + 1)
             /\ \A k \in 1 .. (Len(sent) + 1) - (b + 1) : x[k] = sent[((b + 1) - 1) + k]
      BY <1>11, <2>6, Cut, Zenon
    <3> QED BY <1>1, <3>1
  <2>3. SubSeq(sent', b + 1, n + 1) = Append(u, c)
    <3>1. SubSeq(Append(sent, c), b + 1, Len(sent) + 1) = Append(SubSeq(sent, b + 1, Len(sent)), c)
      BY <1>11, <2>6, PieceGrows, Zenon
    <3> QED BY <1>1, <1>3, <2>2, <3>1, Zenon
  <2>4. Append(u, c) \o v = u \o text
    <3>1. text \in Seq(Int) /\ text # << >>
      BY DEF WriterInv, secPut
    <3> QED BY <1>2, <3>1, HeadFirst, Zenon
  <2>5. u \o text = written(script.items[entry - 1])
    BY <1>1, <1>7, <2>1, <2>2 DEF WriterInv, Put, Piece
  <2> QED BY <1>3, <1>4, <2>1, <2>3, <2>4, <2>5 DEF Put, Piece
<1>9. \A k \in 1 .. entry - 1 : begins[k] <= n + 1
  BY <1>5
<1>10. WriterInv!1 /\ WriterInv!2 /\ begins \in Seq(Nat) /\ Len(begins) = entry - 1
  BY DEF WriterInv
<1> QED BY <1>2, <1>3, <1>4, <1>6, <1>7, <1>8, <1>9, <1>10 DEF WriterInv

LEMMA WriterFrame == ASSUME WriterInv, UNCHANGED <<script, writer>> PROVE WriterInv'
<1>1. UNCHANGED <<script, entry, text, begins, sent>>
  BY DEF writer
<1>2. \A k : Laid(k)' <=> Laid(k)
  BY <1>1 DEF Laid, Piece
<1>3. Put' <=> Put
  BY <1>1 DEF Put, Piece
<1> QED BY <1>1, <1>2, <1>3 DEF WriterInv

LEMMA ReaderKeepsWriter ==
  ASSUME Arrive \/ Begin \/ runDry \/ eatWhitespace \/ readSign \/ readDigit \/ readEnd
         \/ readChar \/ readWordEnd \/ UNCHANGED streamVars
  PROVE  UNCHANGED <<script, writer>>
BY DEF Arrive, Begin, runDry, eatWhitespace, readSign, readDigit, readEnd, readChar, readWordEnd, streamVars

LEMMA WriterStep == ASSUME WriterInv, [StreamNext]_streamVars PROVE WriterInv'
BY WriteKeeps, SecPutKeeps, ReaderKeepsWriter, WriterFrame DEF StreamNext

LEMMA WriterStart == StreamInit => WriterInv
<1> SUFFICES ASSUME StreamInit PROVE WriterInv
  OBVIOUS
<1>1. Len(script.items) \in Nat
  BY ScriptsAssumption DEF StreamInit
<1> QED BY <1>1 DEF StreamInit, WriterInv

LEMMA WriterShows == WriterInv => WritesValue
<1> SUFFICES ASSUME WriterInv, NEW k \in 1 .. Len(begins), k < Len(begins) \/ text = << >>
             PROVE  Means(SubSeq(sent, begins[k] + 1, IF k < Len(begins) THEN begins[k + 1] ELSE Len(sent)),
                          script.items[k])
  BY DEF WritesValue
<1>1. k \in 1 .. entry - 1 /\ Len(begins) = entry - 1 /\ entry \in Nat
  BY DEF WriterInv
<1>2. Means(written(script.items[k]), script.items[k])
  <2>1. k \in 1 .. Len(script.items)
    BY <1>1, ScriptsAssumption DEF WriterInv
  <2>2. IsItem(script.items[k])
    BY <2>1, ScriptsAssumption DEF WriterInv
  <2> QED BY <2>2, ItemFaithful DEF Faithful
<1>3. CASE k < Len(begins)
  <2>1. k \in 1 .. entry - 2
    BY <1>1, <1>3
  <2>2. SubSeq(sent, begins[k] + 1, begins[k + 1]) = written(script.items[k])
    BY <2>1 DEF WriterInv, Laid, Piece
  <2> QED BY <1>2, <1>3, <2>2, Zenon
<1>4. CASE ~ k < Len(begins)
  <2>1. k = entry - 1 /\ entry # 1 /\ text = << >>
    BY <1>1, <1>4
  <2>2. Piece(begins[k], Len(sent)) \in Seq(Int)
    <3>1. begins[k] \in Nat
      BY <1>1 DEF WriterInv
    <3> QED BY <3>1 DEF WriterInv, Piece
  <2>3. Piece(begins[k], Len(sent)) \o << >> = written(script.items[k])
    BY <2>1 DEF WriterInv, Put
  <2>4. Piece(begins[k], Len(sent)) = written(script.items[k])
    BY <2>2, <2>3, ConcatEmptySeq
  <2> QED BY <1>2, <1>4, <2>4 DEF Piece
<1> QED BY <1>3, <1>4

(* Every number that is on the line means the number that was written, for *)
(* all widths and all scripts: writeInt, writeUInt, writeHInt, writeCInt.  *)
THEOREM WritesValueCorrect == StreamSpec => []WritesValue
<1>1. StreamInit => WriterInv
  BY WriterStart
<1>2. WriterInv /\ [StreamNext]_streamVars => WriterInv'
  BY WriterStep
<1>3. WriterInv => WritesValue
  BY WriterShows
<1> QED BY <1>1, <1>2, <1>3, PTL DEF StreamSpec

-----------------------------------------------------------------------------
(* The grammar of what a call takes: spaces w, a sign, digits or letters   *)
(* v, and at most one character e that ends it.                            *)
LEMMA Split ==
  ASSUME NEW S, NEW w \in Seq(Int), NEW t \in Seq(Int), \A k \in 1 .. Len(w) : w[k] \in S,
         t # << >> => t[1] \notin S
  PROVE  /\ Leading(w \o t, S) = Len(w) /\ After(w \o t, Len(w)) = t
         /\ SubSeq(w \o t, 1, Len(w)) = w
<1>1. PICK s \in Seq(Int) : /\ s = w \o t /\ Len(s) = Len(w) + Len(t)
                            /\ \A k \in 1 .. Len(s) : s[k] = IF k <= Len(w) THEN w[k] ELSE t[k - Len(w)]
  BY JoinIs
<1>2. PICK n \in Nat : n = Len(w) /\ n <= Len(s)
  BY <1>1
<1> DEFINE Is(m) == (\A k \in 1 .. m : s[k] \in S) /\ (m < Len(s) => s[m + 1] \notin S)
<1>3. Is(n)
  <2>1. \A k \in 1 .. n : s[k] \in S
    BY <1>1, <1>2
  <2>2. ASSUME n < Len(s) PROVE s[n + 1] \notin S
    <3>1. t # << >> /\ s[n + 1] = t[1]
      BY <1>1, <1>2, <2>2
    <3> QED BY <3>1
  <2> QED BY <2>1, <2>2
<1>4. \A m \in 0 .. Len(s) : Is(m) => m = n
  <2> SUFFICES ASSUME NEW m \in 0 .. Len(s), Is(m), m # n PROVE FALSE
    OBVIOUS
  <2>1. CASE m < n
    <3>1. m + 1 \in 1 .. n /\ m < Len(s)
      BY <1>2, <2>1
    <3> QED BY <1>3, <3>1
  <2>2. CASE n < m
    <3>1. n + 1 \in 1 .. m /\ n < Len(s)
      BY <1>2, <2>2
    <3> QED BY <1>3, <3>1
  <2> QED BY <1>2, <2>1, <2>2
<1>5. Leading(s, S) = n
  <2>1. n \in 0 .. Len(s)
    BY <1>2
  <2>2. Leading(s, S) = CHOOSE m \in 0 .. Len(s) : Is(m)
    BY DEF Leading
  <2> HIDE DEF Is
  <2> QED BY <1>3, <1>4, <2>1, <2>2
<1>6. After(s, n) = t
  BY <1>1, <1>2 DEF After
<1>7. SubSeq(s, 1, n) = w
  BY <1>1, <1>2
<1> QED BY <1>1, <1>2, <1>5, <1>6, <1>7

LEMMA InSeq ==
  ASSUME NEW S, S \subseteq Int, NEW w \in Seq(S)
  PROVE  w \in Seq(Int) /\ Len(w) \in Nat /\ \A k \in 1 .. Len(w) : w[k] \in S
<1>1. w \in Seq(Int)
  BY SeqMonotonic
<1>2. Len(w) \in Nat
  OBVIOUS
<1>3. \A k \in 1 .. Len(w) : w[k] \in S
  OBVIOUS
<1> QED BY <1>1, <1>2, <1>3

SignText(minus) == IF minus THEN <<Minus>> ELSE << >>
Ended(e) == e = << >> \/ \E c \in Int : e = <<c>>

LEMMA EndedIs ==
  ASSUME NEW e, Ended(e)
  PROVE  e \in Seq(Int) /\ Len(e) = (IF e = << >> THEN 0 ELSE 1)
<1>1. CASE e = << >>
  BY <1>1
<1>2. CASE e # << >>
  <2>1. PICK c \in Int : e = <<c>>
    BY <1>2 DEF Ended
  <2>2. <<c>> \in Seq(Int) /\ Len(<<c>>) = 1
    OBVIOUS
  <2> QED BY <1>2, <2>1, <2>2
<1> QED BY <1>1, <1>2

LEMMA SignTail ==
  ASSUME NEW u \in Seq(Int), NEW minus \in BOOLEAN, ~ minus /\ u # << >> => u[1] # Minus
  PROVE  LET t == SignText(minus) \o u
         IN  /\ t \in Seq(Int) /\ (t # << >> /\ t[1] = Minus) = minus
             /\ (IF minus THEN Tail(t) ELSE t) = u
             /\ t # << >> => t[1] = IF minus THEN Minus ELSE u[1]
<1>1. CASE minus
  <2>1. PICK t \in Seq(Int) : /\ t = <<Minus>> \o u /\ Len(t) = Len(u) + 1 /\ t[1] = Minus
                              /\ \A k \in 1 .. Len(u) : t[k + 1] = u[k]
    <3>1. PICK m \in Seq(Int) : m = <<Minus>> /\ Len(m) = 1 /\ m[1] = Minus
      <4>1. <<Minus>> \in Seq(Int)
        BY DEF Minus
      <4> QED BY <4>1
    <3>2. PICK t \in Seq(Int) : t = m \o u /\ Len(t) = Len(m) + Len(u) /\ (\A k \in 1 .. Len(m) : t[k] = m[k])
                                /\ \A k \in 1 .. Len(u) : t[k + Len(m)] = u[k]
      BY JoinIs, Zenon
    <3>3. t = <<Minus>> \o u /\ Len(t) = Len(u) + 1 /\ t[1] = Minus
      BY <3>1, <3>2
    <3>4. \A k \in 1 .. Len(u) : t[k + 1] = u[k]
      BY <3>1, <3>2
    <3> QED BY <3>3, <3>4
  <2>2. Tail(t) = u /\ t # << >>
    BY <2>1
  <2> QED BY <1>1, <2>1, <2>2 DEF SignText
<1>2. CASE ~ minus
  <2>1. << >> \o u = u
    BY ConcatEmptySeq
  <2> QED BY <1>2, <2>1 DEF SignText
<1> QED BY <1>1, <1>2

(* In a line g the parts are the ones that its grammar finds.              *)
NumberParts(g, w, minus, v, e) ==
  /\ w \in Seq(Whitespace) /\ v \in Seq(Number) /\ minus \in BOOLEAN /\ e \in Seq(Int)
  /\ g = w \o (SignText(minus) \o (v \o e))
  /\ e # << >> => e[1] \notin Number
  /\ e # << >> /\ ~ minus /\ v = << >> => e[1] \notin Whitespace \cup {Minus}

LEMMA NumberPartsAre ==
  ASSUME NEW g, NEW w, NEW minus, NEW v, NEW e, NumberParts(g, w, minus, v, e)
  PROVE  LET t == After(g, Leading(g, Whitespace))
             u == IF minus THEN Tail(t) ELSE t
         IN  /\ (t # << >> /\ t[1] = Minus) = minus
             /\ Leading(u, Number) = Len(v) /\ SubSeq(u, 1, Len(v)) = v /\ After(u, Len(v)) = e
             /\ Len(u) = Len(v) + Len(e) /\ (v # << >>) = (Len(v) > 0)
<1>1. /\ w \in Seq(Int) /\ \A k \in 1 .. Len(w) : w[k] \in Whitespace
      /\ v \in Seq(Int) /\ \A k \in 1 .. Len(v) : v[k] \in Number
  BY InSeq, NumberIs DEF NumberParts
<1>2. e \in Seq(Int) /\ minus \in BOOLEAN
  BY DEF NumberParts
<1>3. PICK u \in Seq(Int) : u = v \o e /\ Len(u) = Len(v) + Len(e)
                            /\ (v # << >> => u # << >> /\ u[1] = v[1]) /\ (v = << >> => u = e)
  <2>1. PICK u \in Seq(Int) : u = v \o e /\ Len(u) = Len(v) + Len(e)
           /\ \A k \in 1 .. Len(u) : u[k] = IF k <= Len(v) THEN v[k] ELSE e[k - Len(v)]
    BY <1>1, <1>2, Joined
  <2>2. v # << >> => u # << >> /\ u[1] = v[1]
    BY <1>1, <1>2, <2>1
  <2>3. v = << >> => u = e
    BY <1>2, <2>1, ConcatEmptySeq
  <2> QED BY <2>1, <2>2, <2>3
<1>4. v # << >> => v[1] \in Number
  BY <1>1
<1>5. ~ minus /\ u # << >> => u[1] # Minus /\ u[1] \notin Whitespace
  <2>1. CASE v # << >>
    BY <1>3, <1>4, <2>1, NumberIs
  <2>2. CASE v = << >>
    BY <1>3, <2>2 DEF NumberParts
  <2> QED BY <2>1, <2>2
<1>6. PICK t \in Seq(Int) : /\ t = SignText(minus) \o u /\ (t # << >> /\ t[1] = Minus) = minus
                            /\ (IF minus THEN Tail(t) ELSE t) = u
                            /\ t # << >> => t[1] = IF minus THEN Minus ELSE u[1]
  BY <1>2, <1>5, SignTail
<1>7. t # << >> => t[1] \notin Whitespace
  <2>1. ASSUME t # << >>, ~ minus PROVE u # << >>
    BY <1>6, <2>1
  <2> QED BY <1>5, <1>6, <2>1, NumberIs
<1>8. After(w \o t, Leading(w \o t, Whitespace)) = t
  <2>1. w \in Seq(Int) /\ \A k \in 1 .. Len(w) : w[k] \in Whitespace
    BY <1>1
  <2>2. Leading(w \o t, Whitespace) = Len(w) /\ After(w \o t, Len(w)) = t
    BY <1>7, <2>1, Split, Zenon
  <2> QED BY <2>2
<1>9. Leading(u, Number) = Len(v) /\ SubSeq(u, 1, Len(v)) = v /\ After(u, Len(v)) = e
  <2>1. e # << >> => e[1] \notin Number
    BY DEF NumberParts
  <2> QED BY <1>1, <1>2, <1>3, <2>1, Split
<1>10. (v # << >>) = (Len(v) > 0)
  BY <1>1
<1>11. g = w \o t
  BY <1>3, <1>6, Zenon DEF NumberParts
<1> QED BY <1>3, <1>6, <1>8, <1>9, <1>10, <1>11, Zenon

LEMMA NumberUnique ==
  ASSUME NEW g, NEW w, NEW minus, NEW v, NEW e, NumberParts(g, w, minus, v, e),
         NEW w0, NEW minus0, NEW v0, NEW e0, NumberParts(g, w0, minus0, v0, e0)
  PROVE  minus = minus0 /\ v = v0 /\ e = e0
<1>1. PICK t : t = After(g, Leading(g, Whitespace))
  OBVIOUS
<1>2. (t # << >> /\ t[1] = Minus) = minus /\ (t # << >> /\ t[1] = Minus) = minus0
  BY <1>1, NumberPartsAre
<1>3. minus = minus0
  BY <1>2
<1>4. PICK u : u = IF minus THEN Tail(t) ELSE t
  OBVIOUS
<1>5. /\ Leading(u, Number) = Len(v) /\ SubSeq(u, 1, Len(v)) = v /\ After(u, Len(v)) = e
      /\ Leading(u, Number) = Len(v0) /\ SubSeq(u, 1, Len(v0)) = v0 /\ After(u, Len(v0)) = e0
  BY <1>1, <1>3, <1>4, NumberPartsAre
<1> QED BY <1>3, <1>5

LEMMA NumberIsRead ==
  ASSUME NEW g, NEW w, NEW minus, NEW v, NEW e, NumberParts(g, w, minus, v, e), Ended(e),
         NEW r, r.found = (v # << >>), r.dry = (e = << >>),
         r.val = signed(IF minus THEN -ValueOf(v, 10) ELSE ValueOf(v, 10), Bits)
  PROVE  NumberPiece(g, r)
<1>1. PICK t : t = After(g, Leading(g, Whitespace))
  OBVIOUS
<1>2. PICK u : u = IF minus THEN Tail(t) ELSE t
  OBVIOUS
<1>3. /\ (t # << >> /\ t[1] = Minus) = minus
      /\ Leading(u, Number) = Len(v) /\ SubSeq(u, 1, Len(v)) = v
      /\ Len(u) = Len(v) + Len(e) /\ (v # << >>) = (Len(v) > 0)
  BY <1>1, <1>2, NumberPartsAre
<1>4. Len(u) = Len(v) + IF r.dry THEN 0 ELSE 1
  BY <1>3, EndedIs
<1> QED BY <1>1, <1>2, <1>3, <1>4, Zenon DEF NumberPiece

LEMMA WordIsRead ==
  ASSUME NEW w \in Seq(Whitespace), NEW v \in Seq(Int), \A k \in 1 .. Len(v) : v[k] \notin Whitespace,
         NEW e, Ended(e), NEW max, Len(v) <= max,
         e # << >> => e[1] \in Whitespace \/ Len(v) = max,
         e # << >> /\ v = << >> => e[1] \notin Whitespace,
         NEW r, r.word = v, r.dry = (e = << >>)
  PROVE  WordPiece(w \o (v \o e), r, max)
<1>1. w \in Seq(Int) /\ \A k \in 1 .. Len(w) : w[k] \in Whitespace
  BY InSeq, NumberIs
<1>2. e \in Seq(Int) /\ Len(e) = IF e = << >> THEN 0 ELSE 1
  BY EndedIs
<1>3. PICK u \in Seq(Int) : u = v \o e /\ Len(u) = Len(v) + Len(e)
         /\ \A k \in 1 .. Len(u) : u[k] = IF k <= Len(v) THEN v[k] ELSE e[k - Len(v)]
  <2>1. PICK x \in Seq(Int) : x = e
    BY <1>2
  <2>2. \E u \in Seq(Int) : u = v \o x /\ Len(u) = Len(v) + Len(x)
         /\ \A k \in 1 .. Len(u) : u[k] = IF k <= Len(v) THEN v[k] ELSE x[k - Len(v)]
    BY Joined, Zenon
  <2> QED BY <2>1, <2>2, Zenon
<1>4. u # << >> => u[1] \notin Whitespace
  <2>1. CASE v # << >>
    BY <1>2, <1>3, <2>1
  <2>2. CASE v = << >>
    BY <1>2, <1>3, <2>2
  <2> QED BY <2>1, <2>2
<1>5. After(w \o u, Leading(w \o u, Whitespace)) = u
  BY <1>1, <1>4, Split
<1>6. v = SubSeq(u, 1, Len(v))
  BY <1>2, <1>3
<1>7. Len(u) = Len(v) + IF r.dry THEN 0 ELSE 1
  BY <1>2, <1>3
<1>8. ~ r.dry => u[Len(u)] \in Whitespace \/ Len(v) = max
  <2> SUFFICES ASSUME e # << >> PROVE u[Len(u)] \in Whitespace \/ Len(v) = max
    OBVIOUS
  <2>1. Len(e) = 1 /\ Len(u) = Len(v) + 1 /\ Len(v) \in Nat
    BY <1>2, <1>3
  <2>2. u[Len(u)] = e[1]
    <3>1. Len(u) \in 1 .. Len(u) /\ ~ Len(u) <= Len(v) /\ Len(u) - Len(v) = 1
      BY <2>1
    <3> QED BY <1>3, <3>1
  <2> QED BY <2>2
<1>9. WordPiece(w \o u, r, max)
  BY <1>5, <1>6, <1>7, <1>8, Zenon DEF WordPiece
<1> QED BY <1>3, <1>9

-----------------------------------------------------------------------------
(* The reader: what the call at work has taken since it began are spaces,  *)
(* then the sign and the digits, or the characters, that it remembers; and *)
(* every call that returned did right by what it took.                     *)
Result == [val : Int, found : BOOLEAN, word : Seq(Int), from : Nat, to : Nat, dry : BOOLEAN]
EndOf(k) == IF k = 0 THEN 0 ELSE results[k].to
Says(piece, r, c) ==
  IF c.op = "readInt" THEN NumberPiece(piece, r) ELSE WordPiece(piece, r, c.maxLength - 1)
Was(k) ==
  /\ results[k].from = EndOf(k - 1) /\ results[k].from <= results[k].to
  /\ results[k].to <= Len(sent)
  /\ Says(Piece(results[k].from, results[k].to), results[k], script.calls[k])

NumberSoFar(w, v) ==
  /\ Piece(from, taken) = w \o (SignText(neg) \o v)
  /\ val = signed(ValueOf(v, 10), Bits) /\ found = (v # << >>)
  /\ reading = "whitespace" <=> ~ neg /\ v = << >>
WordSoFar(w) ==
  /\ Piece(from, taken) = w \o word
  /\ Len(word) <= script.calls[call].maxLength - 1
  /\ \A k \in 1 .. Len(word) : word[k] \notin Whitespace
  /\ reading = "whitespace" <=> word = << >>

Counts == taken \in Nat /\ arrived \in Nat /\ taken <= arrived /\ arrived <= Len(sent)
CallInv ==
  /\ call \in Nat \ {0} /\ call - 1 <= Len(script.calls)
  /\ reading # "idle" => call <= Len(script.calls)
  /\ results \in Seq(Result) /\ Len(results) = call - 1
  /\ taken >= EndOf(call - 1) /\ (reading = "idle" => taken = EndOf(call - 1))
  /\ reading # "idle" => from = EndOf(call - 1)
ReaderState ==
  /\ neg \in BOOLEAN /\ val \in Int /\ found \in BOOLEAN /\ word \in Seq(Int) /\ from \in Nat
  /\ reading # "idle" => from <= taken
SoFar ==
  /\ Calling("readInt") => \E w \in Seq(Whitespace), v \in Seq(Number) : NumberSoFar(w, v)
  /\ Calling("readString") => \E w \in Seq(Whitespace) : WordSoFar(w)
ReaderInv == Counts /\ CallInv /\ ReaderState /\ SoFar /\ \A k \in 1 .. call - 1 : Was(k)

LEMMA TheCall ==
  ASSUME WriterInv, ReaderInv, reading # "idle"
  PROVE  /\ IsCall(script.calls[call]) /\ (Calling("readInt") \/ Calling("readString"))
         /\ Calling("readInt") = (script.calls[call].op = "readInt")
         /\ Calling("readString") = (script.calls[call].op = "readString")
         /\ call \in 1 .. Len(script.calls)
<1>1. call \in 1 .. Len(script.calls)
  BY ScriptsAssumption DEF WriterInv, ReaderInv, CallInv
<1>2. IsCall(script.calls[call])
  BY <1>1, ScriptsAssumption DEF WriterInv
<1> QED BY <1>1, <1>2 DEF IsCall, Calling, Op

LEMMA ResultsAre ==
  ASSUME WriterInv, ReaderInv
  PROVE  /\ \A k \in 1 .. call - 1 : results[k] \in Result /\ results[k].from \in Nat /\ results[k].to \in Nat
         /\ \A k \in 0 .. call - 1 : EndOf(k) \in Nat
<1>1. \A k \in 1 .. call - 1 : results[k] \in Result
  BY DEF ReaderInv, CallInv
<1>2. call \in Nat
  BY DEF ReaderInv, CallInv
<1> QED BY <1>1, <1>2 DEF Result, EndOf

(* The line changes only by growing, and what was taken stays.             *)
Grown == sent' = sent \/ \E c \in Int : sent' = Append(sent, c)

LEMMA PieceStays ==
  ASSUME WriterInv, Grown, NEW b \in Nat, NEW e \in Nat, b <= e, e <= Len(sent)
  PROVE  SubSeq(sent', b + 1, e) = SubSeq(sent, b + 1, e)
<1>1. sent \in Seq(Int) /\ b + 1 \in Nat \ {0} /\ b + 1 <= Len(sent) + 1
  BY DEF WriterInv
<1>2. CASE sent' = sent
  BY <1>2
<1>3. CASE \E c \in Int : sent' = Append(sent, c)
  <2>1. PICK c \in Int : sent' = Append(sent, c)
    BY <1>3
  <2>2. SubSeq(Append(sent, c), b + 1, e) = SubSeq(sent, b + 1, e)
    BY <1>1, PieceGrows, Zenon
  <2> QED BY <2>1, <2>2
<1> QED BY <1>2, <1>3 DEF Grown

LEMMA GrownLen == ASSUME WriterInv, Grown PROVE Len(sent') \in Nat /\ Len(sent) <= Len(sent')
BY DEF Grown, WriterInv

LEMMA WasStays ==
  ASSUME WriterInv, ReaderInv, Grown, UNCHANGED script, NEW k \in 1 .. call - 1,
         \A m \in 1 .. k : results'[m] = results[m]
  PROVE  Was(k)'
<1>1. Was(k) /\ results[k].from \in Nat /\ results[k].to \in Nat
  BY ResultsAre DEF ReaderInv
<1>2. results'[k] = results[k] /\ EndOf(k - 1)' = EndOf(k - 1)
  <2>1. k - 1 # 0 => k - 1 \in 1 .. k
    OBVIOUS
  <2> QED BY <2>1 DEF EndOf
<1>3. PICK r : r = results[k]
  OBVIOUS
<1>4. SubSeq(sent', r.from + 1, r.to) = SubSeq(sent, r.from + 1, r.to) /\ r.to <= Len(sent')
  <2>1. r.from \in Nat /\ r.to \in Nat /\ r.from <= r.to /\ r.to <= Len(sent)
    BY <1>1, <1>3 DEF Was
  <2>2. Len(sent) \in Nat /\ Len(sent') \in Nat /\ Len(sent) <= Len(sent')
    BY GrownLen DEF WriterInv
  <2>3. r.to <= Len(sent')
    BY <2>1, <2>2
  <2> QED BY <2>1, <2>3, PieceStays, Zenon
<1> QED BY <1>1, <1>2, <1>3, <1>4 DEF Was, Says, Piece, NumberPiece, WordPiece

LEMMA LineGrows ==
  ASSUME WriterInv, ReaderInv, Grown, UNCHANGED <<script, reader>>,
         arrived' \in Nat, arrived <= arrived', arrived' <= Len(sent')
  PROVE  ReaderInv'
<1>1. UNCHANGED <<call, reading, from, neg, val, found, word, results, taken>>
  BY DEF reader
<1>2. \A k \in 1 .. call - 1 : Was(k)'
  BY <1>1, WasStays
<1>3. ASSUME reading # "idle" PROVE Piece(from, taken)' = Piece(from, taken)
  <2>1. from \in Nat /\ taken \in Nat /\ from <= taken /\ taken <= Len(sent)
    <3>1. Len(sent) \in Nat
      BY DEF WriterInv
    <3> QED BY <1>3, <3>1 DEF ReaderInv, ReaderState, Counts
  <2> QED BY <1>1, <2>1, PieceStays DEF Piece
<1>4. SoFar'
  <2>1. ASSUME reading # "idle" PROVE \A w, v : NumberSoFar(w, v) => NumberSoFar(w, v)'
    BY <1>1, <1>3, <2>1 DEF NumberSoFar
  <2>2. ASSUME reading # "idle" PROVE \A w : WordSoFar(w) => WordSoFar(w)'
    BY <1>1, <1>3, <2>2 DEF WordSoFar
  <2>3. SoFar /\ Calling("readInt")' = Calling("readInt")
        /\ Calling("readString")' = Calling("readString")
    BY <1>1 DEF ReaderInv, Calling, Op
  <2> QED BY <2>1, <2>2, <2>3 DEF SoFar, Calling
<1>5. Counts'
  BY <1>1 DEF ReaderInv, Counts
<1>6. CallInv' /\ ReaderState'
  BY <1>1 DEF ReaderInv, CallInv, ReaderState, EndOf
<1> QED BY <1>1, <1>2, <1>4, <1>5, <1>6 DEF ReaderInv

LEMMA ArriveReads == ASSUME WriterInv, ReaderInv, Arrive PROVE ReaderInv'
<1>1. arrived' \in Nat /\ arrived <= arrived' /\ arrived' <= Len(sent') /\ sent' = sent
  BY DEF Arrive, writer, ReaderInv, Counts, WriterInv
<1>2. UNCHANGED <<script, reader>>
  BY DEF Arrive
<1> QED BY <1>1, <1>2, LineGrows DEF Grown

LEMMA WriterReads == ASSUME WriterInv, ReaderInv, Write \/ secPut PROVE ReaderInv'
<1>1. UNCHANGED <<script, reader>> /\ arrived' = arrived
  BY DEF Write, secPut
<1>2. Grown
  BY HeadFirst DEF Write, secPut, Grown, WriterInv
<1>3. arrived' <= Len(sent') /\ arrived \in Nat /\ arrived <= arrived
  <2>1. Len(sent) \in Nat /\ arrived \in Nat /\ arrived <= Len(sent)
    BY DEF ReaderInv, Counts, WriterInv
  <2> QED BY <1>1, <1>2, <2>1, GrownLen
<1> QED BY <1>1, <1>2, <1>3, LineGrows

LEMMA StutterReads == ASSUME WriterInv, ReaderInv, UNCHANGED streamVars PROVE ReaderInv'
<1>1. UNCHANGED <<script, reader>> /\ arrived' = arrived /\ sent' = sent
  BY DEF streamVars, writer
<1>2. arrived' \in Nat /\ arrived <= arrived' /\ arrived' <= Len(sent')
  BY <1>1 DEF ReaderInv, Counts
<1> QED BY <1>1, <1>2, LineGrows DEF Grown

LEMMA NothingYet ==
  ASSUME NEW w \in Seq(Int)
  PROVE  w \o (SignText(FALSE) \o << >>) = w /\ w \o << >> = w
<1>1. SignText(FALSE) \o << >> = << >>
  BY ConcatEmptySeq DEF SignText
<1>2. w \o << >> = w
  BY ConcatEmptySeq
<1> QED BY <1>1, <1>2

LEMMA AppendRight ==
  ASSUME NEW w \in Seq(Int), NEW x \in Seq(Int), NEW c \in Int
  PROVE  Append(w \o x, c) = w \o Append(x, c) /\ Append(w, c) = w \o <<c>> /\ w \o x \in Seq(Int)
<1>1. ASSUME NEW s \in Seq(Int) PROVE Append(s, c) = s \o <<c>> /\ <<c>> \in Seq(Int)
  BY AppendIsConcat
<1>2. w \o x \in Seq(Int)
  BY JoinIs, Zenon
<1>3. (w \o x) \o <<c>> = w \o (x \o <<c>>)
  <2>1. <<c>> \in Seq(Int)
    OBVIOUS
  <2> QED BY <2>1, ConcatAssociative
<1>4. Append(w \o x, c) = (w \o x) \o <<c>> /\ Append(x, c) = x \o <<c>> /\ Append(w, c) = w \o <<c>>
  BY <1>1, <1>2, Zenon
<1> QED BY <1>2, <1>3, <1>4, Zenon

LEMMA SignIs == \A minus \in BOOLEAN : SignText(minus) \in Seq(Int)
BY DEF SignText, Minus

LEMMA BeginReads == ASSUME WriterInv, ReaderInv, Begin PROVE ReaderInv'
<1>1. /\ UNCHANGED <<script, sent, arrived, call, results, taken>>
      /\ reading' = "whitespace" /\ from' = taken /\ neg' = FALSE /\ val' = 0 /\ found' = FALSE
      /\ word' = << >> /\ call <= Len(script.calls) /\ reading = "idle"
  BY DEF Begin, writer
<1>2. Counts' /\ CallInv' /\ ReaderState'
  <2>1. Counts'
    BY <1>1 DEF ReaderInv, Counts
  <2>2. taken \in Nat /\ EndOf(call - 1)' = EndOf(call - 1) /\ taken = EndOf(call - 1)
    BY <1>1 DEF ReaderInv, Counts, CallInv, EndOf
  <2>6. taken' = taken /\ from' = taken
    BY <1>1
  <2>7. FALSE \in BOOLEAN /\ 0 \in Int /\ << >> \in Seq(Int)
    OBVIOUS
  <2>3. taken >= taken /\ taken <= taken
    BY <2>2
  <2>4. CallInv'
    BY <1>1, <2>2, <2>3 DEF ReaderInv, CallInv
  <2>5. ReaderState'
    <3>1. neg' \in BOOLEAN /\ val' \in Int /\ found' \in BOOLEAN /\ word' \in Seq(Int)
      BY <1>1, <2>7, Zenon
    <3>2. from' \in Nat /\ from' <= taken'
      BY <2>2, <2>3, <2>6
    <3> QED BY <3>1, <3>2 DEF ReaderState
  <2> QED BY <2>1, <2>4, <2>5
<1>3. \A k \in 1 .. call - 1 : Was(k)'
  BY <1>1, WasStays DEF Grown
<1>4. Piece(from, taken)' = << >>
  <2>1. taken \in Nat
    BY DEF ReaderInv, Counts
  <2>2. SubSeq(sent, taken + 1, taken) = << >>
    BY <2>1 DEF WriterInv
  <2> QED BY <1>1, <2>2 DEF Piece
<1>5. << >> \in Seq(Whitespace) /\ << >> \in Seq(Number) /\ << >> \in Seq(Int)
  OBVIOUS
<1>6. NumberSoFar(<< >>, << >>)'
  <2>1. signed(0, Bits) = 0
    <3>1. PICK h \in Nat \ {0} : Pow2(Bits - 1) = h
      BY Half, BitsType
    <3> QED BY <3>1, BitsType, SignedSmall
  <2>2. ValueOf(<< >>, 10) = 0
    BY ValueNone
  <2>3. << >> \o (SignText(FALSE) \o << >>) = << >>
    BY <1>5, NothingYet
  <2> QED BY <1>1, <1>4, <2>1, <2>2, <2>3 DEF NumberSoFar
<1>7. ASSUME Calling("readString")' PROVE WordSoFar(<< >>)'
  <2>1. IsCall(script.calls[call])
    <3>1. call \in 1 .. Len(script.calls)
      BY <1>1, ScriptsAssumption DEF WriterInv, ReaderInv, CallInv
    <3> QED BY <3>1, ScriptsAssumption DEF WriterInv
  <2>2. script.calls[call].op = "readString"
    BY <1>1, <1>7 DEF Calling, Op
  <2>3. script.calls[call].maxLength \in 1 .. 255
    BY <2>1, <2>2 DEF IsCall
  <2>4. << >> \o << >> = << >> /\ Len(<< >>) = 0
    BY <1>5, NothingYet
  <2>5. 0 <= script.calls[call].maxLength - 1
    BY <2>3
  <2> QED BY <1>1, <1>4, <2>4, <2>5 DEF WordSoFar
<1>8. SoFar'
  BY <1>5, <1>6, <1>7 DEF SoFar
<1> QED BY <1>1, <1>2, <1>3, <1>8 DEF ReaderInv

LEMMA SubSeqGrows ==
  ASSUME NEW s \in Seq(Int), NEW a \in Nat \ {0}, NEW n \in Nat, a <= n + 1, n + 1 <= Len(s)
  PROVE  SubSeq(s, a, n + 1) = Append(SubSeq(s, a, n), s[n + 1])
<1>1. PICK c \in Int : c = s[n + 1]
  OBVIOUS
<1>2. n <= Len(s) /\ n + 1 \in Nat /\ a <= (n + 1) + 1
  OBVIOUS
<1>3. PICK u \in Seq(Int) : u = SubSeq(s, a, n) /\ Len(u) = (n + 1) - a
                            /\ \A k \in 1 .. (n + 1) - a : u[k] = s[(a - 1) + k]
  BY <1>2, Cut, Zenon
<1>4. PICK v \in Seq(Int) : v = SubSeq(s, a, n + 1) /\ Len(v) = ((n + 1) + 1) - a
                            /\ \A k \in 1 .. ((n + 1) + 1) - a : v[k] = s[(a - 1) + k]
  BY <1>2, Cut, Zenon
<1>5. PICK x \in Seq(Int) : x = Append(u, c) /\ Len(x) = Len(u) + 1 /\ x[Len(u) + 1] = c
                            /\ \A k \in 1 .. Len(u) : x[k] = u[k]
  BY AddIs, Zenon
<1>6. PICK m \in Nat : m = (n + 1) - a
  OBVIOUS
<1>7. Len(u) = m /\ Len(v) = m + 1 /\ Len(x) = m + 1 /\ (a - 1) + (m + 1) = n + 1
      /\ ((n + 1) + 1) - a = m + 1
  BY <1>3, <1>4, <1>5, <1>6
<1>8. ASSUME NEW k \in 1 .. m + 1 PROVE v[k] = x[k]
  <2>1. v[k] = s[(a - 1) + k]
    BY <1>4, <1>7
  <2>2. CASE k = m + 1
    <3>1. x[m + 1] = c
      BY <1>5, <1>7
    <3> QED BY <1>1, <1>7, <2>1, <2>2, <3>1
  <2>3. CASE k \in 1 .. m
    <3>1. x[k] = u[k] /\ u[k] = s[(a - 1) + k]
      BY <1>3, <1>5, <1>6, <1>7, <2>3
    <3> QED BY <2>1, <3>1
  <2>4. k = m + 1 \/ k \in 1 .. m
    OBVIOUS
  <2> QED BY <2>2, <2>3, <2>4
<1>9. v = x
  BY <1>7, <1>8, SameSeq
<1> QED BY <1>1, <1>3, <1>4, <1>5, <1>9

LEMMA GetIs ==
  ASSUME WriterInv, ReaderInv, reading # "idle", NEW c, get(c)
  PROVE  /\ c \in Int /\ taken' = taken + 1 /\ taken' \in Nat /\ taken' <= arrived
         /\ from \in Nat /\ from <= taken' /\ taken < arrived /\ c = sent[taken + 1]
         /\ Piece(from, taken) \in Seq(Int)
         /\ SubSeq(sent, from + 1, taken') = Append(Piece(from, taken), c)
<1>1. PICK n \in Nat, b \in Nat, a \in Nat : n = taken /\ b = from /\ a = arrived /\ b <= n /\ n < a
                                             /\ a <= Len(sent)
  BY DEF ReaderInv, Counts, ReaderState, get
<1>2. c = sent[n + 1] /\ taken' = n + 1
  BY <1>1 DEF get
<1>3. c \in Int
  <2>1. n + 1 \in 1 .. Len(sent) /\ Len(sent) \in Nat
    BY <1>1 DEF WriterInv
  <2> QED BY <1>2, <2>1 DEF WriterInv
<1>4. SubSeq(sent, b + 1, n) \in Seq(Int) /\ SubSeq(sent, b + 1, n + 1) = Append(SubSeq(sent, b + 1, n), c)
  <2>1. PICK m \in Nat : m = n + 1 /\ m \in 1 .. Len(sent) /\ b + 1 \in Nat \ {0} /\ b + 1 <= n + 1
                         /\ n <= Len(sent) /\ sent \in Seq(Int) /\ c = sent[m]
    BY <1>1, <1>2 DEF WriterInv
  <2>2. SubSeq(sent, b + 1, n) \in Seq(Int)
    <3>1. PICK x \in Seq(Int) : x = SubSeq(sent, b + 1, n) /\ Len(x) = (n + 1) - (b + 1)
             /\ \A k \in 1 .. (n + 1) - (b + 1) : x[k] = sent[((b + 1) - 1) + k]
      BY <2>1, Cut, Zenon
    <3> QED BY <3>1
  <2>3. SubSeq(sent, b + 1, n + 1) = Append(SubSeq(sent, b + 1, n), sent[n + 1])
    BY <1>1, <2>1, SubSeqGrows
  <2> QED BY <1>2, <2>2, <2>3
<1> QED BY <1>1, <1>2, <1>3, <1>4 DEF Piece

(* A step that takes a character and goes on.                              *)
LEMMA GoesOn ==
  ASSUME WriterInv, ReaderInv, reading # "idle", reading' # "idle", NEW c, get(c),
         UNCHANGED <<script, writer, arrived, call, from, results>>,
         neg' \in BOOLEAN, val' \in Int, found' \in BOOLEAN, word' \in Seq(Int), SoFar'
  PROVE  ReaderInv'
<1>1. UNCHANGED <<script, sent, arrived, call, from, results>>
  BY DEF writer
<1>2. Counts' /\ ReaderState'
  BY <1>1, GetIs DEF ReaderInv, Counts, ReaderState
<1>3. taken' = taken + 1 /\ taken \in Nat /\ EndOf(call - 1) \in Nat
  <2>1. call - 1 \in 0 .. call - 1
    BY DEF ReaderInv, CallInv
  <2> QED BY <2>1, GetIs, ResultsAre DEF ReaderInv, Counts
<1>4. CallInv'
  BY <1>1, <1>3 DEF ReaderInv, CallInv, EndOf
<1>5. \A k \in 1 .. call - 1 : Was(k)'
  BY <1>1, WasStays DEF Grown
<1> QED BY <1>1, <1>2, <1>4, <1>5 DEF ReaderInv

LEMMA CallingSame ==
  ASSUME reading # "idle", reading' # "idle", UNCHANGED <<script, call>>
  PROVE  /\ Calling("readInt")' = Calling("readInt") /\ Calling("readString")' = Calling("readString")
         /\ script.calls[call]' = script.calls[call] /\ ~ (Calling("readInt") /\ Calling("readString"))
BY DEF Calling, Op

LEMMA SpacesRead == ASSUME WriterInv, ReaderInv, eatWhitespace PROVE ReaderInv'
<1>1. PICK c \in Whitespace : get(c)
  BY DEF eatWhitespace
<1>2. /\ reading = "whitespace" /\ UNCHANGED <<script, writer, arrived, call, from, results>>
      /\ UNCHANGED <<reading, neg, val, found, word>>
  BY DEF eatWhitespace
<1>3. c \in Int /\ SubSeq(sent, from + 1, taken') = Append(Piece(from, taken), c)
  BY <1>1, <1>2, GetIs
<1>4. Piece(from, taken)' = Append(Piece(from, taken), c)
  BY <1>2, <1>3 DEF Piece, writer
<1>5. ASSUME NEW w \in Seq(Whitespace)
      PROVE  /\ w \in Seq(Int) /\ Append(w, c) \in Seq(Whitespace) /\ Append(w, c) \in Seq(Int)
             /\ w \o (SignText(FALSE) \o << >>) = w /\ w \o << >> = w
             /\ Append(w, c) \o (SignText(FALSE) \o << >>) = Append(w, c) /\ Append(w, c) \o << >> = Append(w, c)
  <2>1. w \in Seq(Int)
    BY InSeq, NumberIs
  <2>2. Append(w, c) \in Seq(Whitespace) /\ Append(w, c) \in Seq(Int)
    BY <1>1, <1>3, <2>1
  <2> QED BY <2>1, <2>2, NothingYet
<1>6. ASSUME Calling("readInt") PROVE \E w \in Seq(Whitespace), v \in Seq(Number) : NumberSoFar(w, v)'
  <2>1. PICK w \in Seq(Whitespace), v \in Seq(Number) : NumberSoFar(w, v)
    BY <1>6 DEF ReaderInv, SoFar
  <2>2. neg = FALSE /\ v = << >>
    BY <1>2, <2>1 DEF NumberSoFar, ReaderInv, ReaderState
  <2>3. Piece(from, taken) = w
    BY <1>5, <2>1, <2>2 DEF NumberSoFar
  <2>4. NumberSoFar(Append(w, c), v)'
    BY <1>2, <1>4, <1>5, <2>1, <2>2, <2>3 DEF NumberSoFar
  <2> QED BY <1>5, <2>4
<1>7. ASSUME Calling("readString") PROVE \E w \in Seq(Whitespace) : WordSoFar(w)'
  <2>1. PICK w \in Seq(Whitespace) : WordSoFar(w)
    BY <1>7 DEF ReaderInv, SoFar
  <2>2. word = << >>
    BY <1>2, <2>1 DEF WordSoFar
  <2>3. Piece(from, taken) = w
    BY <1>5, <2>1, <2>2 DEF WordSoFar
  <2>4. WordSoFar(Append(w, c))'
    BY <1>2, <1>4, <1>5, <2>1, <2>2, <2>3 DEF WordSoFar
  <2> QED BY <1>5, <2>4
<1>8. SoFar'
  BY <1>2, <1>6, <1>7, CallingSame DEF SoFar
<1>9. neg' \in BOOLEAN /\ val' \in Int /\ found' \in BOOLEAN /\ word' \in Seq(Int)
  BY <1>2 DEF ReaderInv, ReaderState
<1> QED BY <1>1, <1>2, <1>8, <1>9, GoesOn

LEMMA SignReads == ASSUME WriterInv, ReaderInv, readSign PROVE ReaderInv'
<1>1. /\ get(Minus) /\ Calling("readInt") /\ reading = "whitespace" /\ reading' = "number" /\ neg' = TRUE
      /\ UNCHANGED <<script, writer, arrived, call, from, results>> /\ UNCHANGED <<val, found, word>>
  BY DEF readSign
<1>2. Minus \in Int /\ SubSeq(sent, from + 1, taken') = Append(Piece(from, taken), Minus)
  BY <1>1, GetIs
<1>3. PICK w \in Seq(Whitespace), v \in Seq(Number) : NumberSoFar(w, v)
  BY <1>1 DEF ReaderInv, SoFar
<1>4. neg = FALSE /\ v = << >> /\ w \in Seq(Int)
  BY <1>1, <1>3, InSeq, NumberIs DEF NumberSoFar, ReaderInv, ReaderState
<1>5. Piece(from, taken) = w
  BY <1>3, <1>4, NothingYet DEF NumberSoFar
<1>6. Piece(from, taken)' = w \o <<Minus>>
  BY <1>1, <1>2, <1>4, <1>5, AppendRight DEF Piece, writer
<1>7. SignText(TRUE) \o << >> = <<Minus>>
  BY <1>2, ConcatEmptySeq DEF SignText
<1>8. NumberSoFar(w, v)'
  BY <1>1, <1>3, <1>4, <1>6, <1>7 DEF NumberSoFar
<1>9. SoFar'
  BY <1>1, <1>8, CallingSame DEF SoFar
<1>10. neg' \in BOOLEAN /\ val' \in Int /\ found' \in BOOLEAN /\ word' \in Seq(Int)
  BY <1>1 DEF ReaderInv, ReaderState
<1> QED BY <1>1, <1>9, <1>10, GoesOn

LEMMA DigitReads == ASSUME WriterInv, ReaderInv, readDigit PROVE ReaderInv'
<1>1. PICK c \in Number : get(c) /\ val' = signed(val * 10 + (c - Zero), Bits)
  BY DEF readDigit
<1>2. /\ Calling("readInt") /\ reading # "idle" /\ reading' = "number" /\ found' = TRUE
      /\ UNCHANGED <<script, writer, arrived, call, from, results>> /\ UNCHANGED <<neg, word>>
  BY DEF readDigit, Calling
<1>3. c \in Int /\ SubSeq(sent, from + 1, taken') = Append(Piece(from, taken), c)
  BY <1>1, <1>2, GetIs
<1>4. PICK w \in Seq(Whitespace), v \in Seq(Number) : NumberSoFar(w, v)
  BY <1>2 DEF ReaderInv, SoFar
<1>5. w \in Seq(Int) /\ v \in Seq(Int) /\ SignText(neg) \in Seq(Int)
  BY InSeq, NumberIs, SignIs DEF ReaderInv, ReaderState
<1>6. PICK u : u = Append(v, c)
  OBVIOUS
<1>7. u \in Seq(Number) /\ u # << >>
  BY <1>6
<1>8. Piece(from, taken)' = w \o (SignText(neg) \o u)
  <2>1. PICK x \in Seq(Int) : x = SignText(neg) \o v /\ Append(x, c) = SignText(neg) \o u
    BY <1>3, <1>5, <1>6, AppendRight
  <2>2. Append(w \o x, c) = w \o Append(x, c)
    BY <1>3, <1>5, AppendRight
  <2>3. Piece(from, taken) = w \o x
    BY <1>4, <2>1 DEF NumberSoFar
  <2> QED BY <1>2, <1>3, <2>1, <2>2, <2>3 DEF Piece, writer
<1>9. val' = signed(ValueOf(u, 10), Bits) /\ val' \in Int
  <2>1. PICK x \in Int : x = ValueOf(v, 10)
    BY <1>5, ValueType
  <2>2. PICK d \in Int : d = c - Zero /\ DigitOf(c, 10) = d
    BY NumberIs
  <2>3. ValueOf(u, 10) = x * 10 + d
    BY <1>3, <1>5, <1>6, <2>1, <2>2, ValueAppend
  <2>4. val = signed(x, Bits)
    BY <1>4, <2>1 DEF NumberSoFar
  <2>5. signed(signed(x, Bits) * 10 + d, Bits) = signed(x * 10 + d, Bits)
    BY BitsType, SignedDigit
  <2>6. signed(x * 10 + d, Bits) \in Int
    BY BitsType, SignedIs
  <2> QED BY <1>1, <2>2, <2>3, <2>4, <2>5, <2>6
<1>10. NumberSoFar(w, u)'
  BY <1>2, <1>7, <1>8, <1>9 DEF NumberSoFar
<1>11. SoFar'
  BY <1>2, <1>7, <1>10, CallingSame DEF SoFar
<1>12. neg' \in BOOLEAN /\ val' \in Int /\ found' \in BOOLEAN /\ word' \in Seq(Int)
  BY <1>2, <1>9 DEF ReaderInv, ReaderState
<1> QED BY <1>1, <1>2, <1>11, <1>12, GoesOn

LEMMA RoomIs ==
  ASSUME WriterInv, ReaderInv, Calling("readString")
  PROVE  /\ room(script.calls[call].maxLength) = script.calls[call].maxLength - 1
         /\ script.calls[call].maxLength - 1 \in Nat
<1>1. IsCall(script.calls[call]) /\ script.calls[call].op = "readString"
  BY TheCall DEF Calling
<1>2. PICK m \in 1 .. 255 : m = script.calls[call].maxLength
  BY <1>1 DEF IsCall
<1>3. (m - 1) % 256 = m - 1
  OBVIOUS
<1> QED BY <1>2, <1>3 DEF room

LEMMA CharReads == ASSUME WriterInv, ReaderInv, readChar PROVE ReaderInv'
<1>1. PICK c : c = sent[taken + 1] /\ c \notin Whitespace /\ get(c) /\ word' = Append(word, c)
  BY DEF readChar
<1>2. /\ Calling("readString") /\ reading # "idle" /\ reading' = "word"
      /\ UNCHANGED <<script, writer, arrived, call, from, results>> /\ UNCHANGED <<neg, val, found>>
      /\ Len(word) < room(script.calls[call].maxLength)
  BY DEF readChar, Calling
<1>3. c \in Int /\ SubSeq(sent, from + 1, taken') = Append(Piece(from, taken), c)
  BY <1>1, <1>2, GetIs
<1>4. PICK w \in Seq(Whitespace) : WordSoFar(w)
  BY <1>2 DEF ReaderInv, SoFar
<1>5. w \in Seq(Int) /\ word \in Seq(Int)
  BY InSeq, NumberIs DEF ReaderInv, ReaderState
<1>6. PICK u \in Seq(Int) : u = Append(word, c) /\ Len(u) = Len(word) + 1 /\ u[Len(word) + 1] = c
                            /\ \A k \in 1 .. Len(word) : u[k] = word[k]
  BY <1>3, <1>5, AddIs, Zenon
<1>7. Piece(from, taken)' = w \o u
  <2>1. Piece(from, taken) = w \o word
    BY <1>4 DEF WordSoFar
  <2>2. Append(w \o word, c) = w \o u
    BY <1>3, <1>5, <1>6, AppendRight
  <2> QED BY <1>2, <1>3, <2>1, <2>2 DEF Piece, writer
<1>8. u # << >> /\ Len(u) <= script.calls[call].maxLength - 1
  <2>1. PICK m \in Nat : m = script.calls[call].maxLength - 1 /\ Len(word) < m
    BY <1>2, RoomIs
  <2> QED BY <1>5, <1>6, <2>1
<1>9. \A k \in 1 .. Len(u) : u[k] \notin Whitespace
  <2>1. \A k \in 1 .. Len(word) : word[k] \notin Whitespace
    BY <1>4 DEF WordSoFar
  <2> QED BY <1>1, <1>5, <1>6, <2>1
<1>10. WordSoFar(w)'
  <2>1. word' = u
    BY <1>1, <1>6
  <2>2. script.calls[call]' = script.calls[call]
    BY <1>2
  <2> QED BY <1>2, <1>7, <1>8, <1>9, <2>1, <2>2 DEF WordSoFar
<1>11. SoFar'
  BY <1>2, <1>10, CallingSame DEF SoFar
<1>12. neg' \in BOOLEAN /\ val' \in Int /\ found' \in BOOLEAN /\ word' \in Seq(Int)
  BY <1>1, <1>2, <1>6 DEF ReaderInv, ReaderState
<1> QED BY <1>1, <1>2, <1>11, <1>12, GoesOn

(* A call that returns and has taken a piece that says what it got.        *)
LEMMA Returns ==
  ASSUME WriterInv, ReaderInv, reading # "idle", NEW dry \in BOOLEAN, Return(dry),
         UNCHANGED <<script, writer, arrived, from>>,
         taken' \in Nat, taken <= taken', taken' <= arrived,
         Says(Piece(from, taken'), results'[call], script.calls[call])
  PROVE  ReaderInv'
<1>1. UNCHANGED <<script, sent, arrived, from, neg, val, found, word>>
      /\ call' = call + 1 /\ reading' = "idle"
  BY DEF writer, Return
<1>2. PICK n : n = IF neg THEN signed(-val, Bits) ELSE val
  OBVIOUS
<1>3. n \in Int
  <2>1. -val \in Int
    BY DEF ReaderInv, ReaderState
  <2>2. signed(-val, Bits) \in Int
    BY <2>1, BitsType, SignedIs
  <2> QED BY <1>2, <2>2 DEF ReaderInv, ReaderState
<1>4. PICK r \in Result : /\ r.from = from /\ r.to = taken'
                          /\ r = [val |-> n, found |-> found, word |-> word, from |-> from,
                                  to |-> taken', dry |-> dry]
  <2>1. found \in BOOLEAN /\ word \in Seq(Int) /\ from \in Nat
    BY DEF ReaderInv, ReaderState
  <2> QED BY <1>3, <2>1 DEF Result
<1>5. PICK c \in Nat \ {0} : c = call /\ results \in Seq(Result) /\ Len(results) = c - 1
  BY DEF ReaderInv, CallInv
<1>6. results' = Append(results, r)
  BY <1>2, <1>4 DEF Return
<1>7. /\ results' \in Seq(Result) /\ Len(results') = c /\ results'[c] = r
      /\ \A k \in 1 .. c - 1 : results'[k] = results[k]
  BY <1>5, <1>6
<1>8. \A k \in 1 .. c - 1 : Was(k)'
  BY <1>1, <1>5, <1>7, WasStays DEF Grown
<1>9. EndOf(c - 1)' = EndOf(c - 1) /\ from = EndOf(c - 1)
  <2>1. c - 1 # 0 => c - 1 \in 1 .. c - 1
    BY <1>5
  <2>2. from = EndOf(c - 1)
    BY <1>5 DEF ReaderInv, CallInv
  <2> QED BY <1>7, <2>1, <2>2 DEF EndOf
<1>10. Was(c)'
  <2>1. r.from <= r.to /\ r.to <= Len(sent)
    <3>1. from <= taken /\ from \in Nat /\ taken \in Nat /\ arrived \in Nat /\ arrived <= Len(sent)
          /\ Len(sent) \in Nat
      BY DEF ReaderInv, ReaderState, Counts, WriterInv
    <3> QED BY <1>4, <3>1
  <2>2. PICK p : p = Piece(from, taken') /\ p = Piece(r.from, r.to)'
    BY <1>1, <1>4 DEF Piece
  <2>3. Says(p, r, script.calls[c])
    BY <1>5, <1>7, <2>2
  <2>4. Says(p, r, script.calls[c])'
    BY <1>1, <2>3 DEF Says, NumberPiece, WordPiece
  <2> QED BY <1>1, <1>4, <1>7, <1>9, <2>1, <2>2, <2>4 DEF Was
<1>11. Counts' /\ ReaderState'
  BY <1>1 DEF ReaderInv, Counts, ReaderState
<1>12. CallInv'
  <2>1. c <= Len(script.calls) /\ EndOf(c)' = taken'
    BY <1>4, <1>5, <1>7 DEF EndOf, ReaderInv, CallInv
  <2>2. (call - 1)' = c /\ call' \in Nat \ {0}
    BY <1>1, <1>5
  <2>3. EndOf(call - 1)' = taken'
    BY <2>1, <2>2
  <2>4. taken' >= taken'
    OBVIOUS
  <2> QED BY <1>1, <1>7, <2>1, <2>2, <2>3, <2>4 DEF CallInv
<1>13. SoFar'
  BY <1>1 DEF SoFar, Calling
<1>14. \A k \in 1 .. (call - 1)' : Was(k)'
  BY <1>1, <1>5, <1>8, <1>10
<1> QED BY <1>11, <1>12, <1>13, <1>14 DEF ReaderInv

LEMMA ReturnIs ==
  ASSUME WriterInv, ReaderInv, NEW dry \in BOOLEAN, Return(dry)
  PROVE  /\ results'[call].val = (IF neg THEN signed(-val, Bits) ELSE val)
         /\ results'[call].found = found /\ results'[call].word = word /\ results'[call].dry = dry
<1>1. PICK c \in Nat \ {0} : c = call /\ results \in Seq(Result) /\ Len(results) = c - 1
  BY DEF ReaderInv, CallInv
<1>2. PICK r : r = [val |-> IF neg THEN signed(-val, Bits) ELSE val, found |-> found,
                    word |-> word, from |-> from, to |-> taken', dry |-> dry]
  OBVIOUS
<1>3. results' = Append(results, r)
  BY <1>2 DEF Return
<1>4. Append(results, r)[c] = r
  BY <1>1
<1> QED BY <1>1, <1>2, <1>3, <1>4

(* What a call has taken, with the character that ends it, if any.         *)
LEMMA NumberReturns ==
  ASSUME WriterInv, ReaderInv, Calling("readInt"), NEW dry \in BOOLEAN, Return(dry),
         NEW e, Ended(e), dry = (e = << >>), e # << >> => e[1] \notin Number,
         e # << >> /\ reading = "whitespace" => e[1] \notin Whitespace \cup {Minus},
         NEW g, g = Piece(from, taken) \o e
  PROVE  Says(g, results'[call], script.calls[call])
<1>1. PICK w \in Seq(Whitespace), v \in Seq(Number) : NumberSoFar(w, v)
  BY DEF ReaderInv, SoFar
<1>2. w \in Seq(Int) /\ v \in Seq(Int) /\ SignText(neg) \in Seq(Int) /\ e \in Seq(Int) /\ neg \in BOOLEAN
  BY InSeq, NumberIs, SignIs, EndedIs DEF ReaderInv, ReaderState
<1>3. PICK r : r = results'[call]
  OBVIOUS
<1>4. g = w \o (SignText(neg) \o (v \o e))
  <2>1. PICK x \in Seq(Int) : x = SignText(neg) \o v
    BY <1>2, JoinIs, Zenon
  <2>2. x \o e = SignText(neg) \o (v \o e)
    <3>1. PICK m \in Seq(Int), y \in Seq(Int), z \in Seq(Int) : m = SignText(neg) /\ y = v /\ z = e
      BY <1>2
    <3>2. (m \o y) \o z = m \o (y \o z)
      BY JoinThree, Zenon
    <3> QED BY <2>1, <3>1, <3>2, Zenon
  <2>3. (w \o x) \o e = w \o (x \o e)
    <3>1. PICK y \in Seq(Int), z \in Seq(Int) : y = w /\ z = e
      BY <1>2
    <3>2. (y \o x) \o z = y \o (x \o z)
      BY JoinThree, Zenon
    <3> QED BY <3>1, <3>2
  <2> QED BY <1>1, <2>1, <2>2, <2>3 DEF NumberSoFar
<1>5. r.val = signed(IF neg THEN -ValueOf(v, 10) ELSE ValueOf(v, 10), Bits)
  <2>1. PICK x \in Int : x = ValueOf(v, 10)
    BY <1>2, ValueType
  <2>2. signed(-signed(x, Bits), Bits) = signed(-x, Bits)
    BY BitsType, SignedMinus
  <2>3. val = signed(x, Bits)
    BY <1>1, <2>1 DEF NumberSoFar
  <2> QED BY <1>3, <2>1, <2>2, <2>3, ReturnIs
<1>6. r.found = (v # << >>) /\ r.dry = (e = << >>)
  BY <1>1, <1>3, ReturnIs DEF NumberSoFar
<1>7. e # << >> /\ ~ neg /\ v = << >> => e[1] \notin Whitespace \cup {Minus}
  BY <1>1 DEF NumberSoFar
<1>8. NumberParts(g, w, neg, v, e)
  BY <1>2, <1>4, <1>7, Zenon DEF NumberParts
<1>10. NumberPiece(g, r)
  <2>1. r.found = (v # << >>)
    BY <1>6
  <2>2. r.dry = (e = << >>)
    BY <1>6
  <2> QED BY <1>5, <1>8, <2>1, <2>2, NumberIsRead
<1>9. script.calls[call].op = "readInt"
  BY DEF Calling, Op
<1> QED BY <1>3, <1>10, <1>9 DEF Says

LEMMA WordReturns ==
  ASSUME WriterInv, ReaderInv, Calling("readString"), NEW dry \in BOOLEAN, Return(dry),
         NEW e, Ended(e), dry = (e = << >>),
         e # << >> => e[1] \in Whitespace \/ Len(word) >= room(script.calls[call].maxLength),
         e # << >> /\ e[1] \in Whitespace => reading = "word",
         NEW g, g = Piece(from, taken) \o e
  PROVE  Says(g, results'[call], script.calls[call])
<1>1. PICK w \in Seq(Whitespace) : WordSoFar(w)
  BY DEF ReaderInv, SoFar
<1>2. w \in Seq(Int) /\ word \in Seq(Int) /\ e \in Seq(Int)
  BY InSeq, NumberIs, EndedIs DEF ReaderInv, ReaderState
<1>3. PICK r : r = results'[call]
  OBVIOUS
<1>4. PICK max \in Nat : max = script.calls[call].maxLength - 1
                         /\ room(script.calls[call].maxLength) = max
  BY RoomIs
<1>5. g = w \o (word \o e)
  <2>1. PICK x \in Seq(Int), y \in Seq(Int), z \in Seq(Int) : x = w /\ y = word /\ z = e
    BY <1>2
  <2>2. (x \o y) \o z = x \o (y \o z)
    BY JoinThree, Zenon
  <2> QED BY <1>1, <2>1, <2>2 DEF WordSoFar
<1>6. Len(word) <= max /\ \A k \in 1 .. Len(word) : word[k] \notin Whitespace
  BY <1>1, <1>4 DEF WordSoFar
<1>7. e # << >> => e[1] \in Whitespace \/ Len(word) = max
  BY <1>2, <1>4, <1>6
<1>8. e # << >> /\ word = << >> => e[1] \notin Whitespace
  BY <1>1 DEF WordSoFar
<1>9. r.word = word /\ r.dry = (e = << >>)
  BY <1>3, ReturnIs
<1>10. WordPiece(g, r, max)
  <2>1. WordPiece(w \o (word \o e), r, max)
    <3>1. word \in Seq(Int) /\ Len(word) <= max
      BY <1>2, <1>6
    <3>2. \A k \in 1 .. Len(word) : word[k] \notin Whitespace
      BY <1>6
    <3>3. r.word = word
      BY <1>9
    <3>4. r.dry = (e = << >>)
      BY <1>9
    <3> QED BY <1>7, <1>8, <3>1, <3>2, <3>3, <3>4, WordIsRead
  <2> QED BY <1>5, <2>1
<1>11. script.calls[call].op = "readString"
  BY DEF Calling, Op
<1> QED BY <1>3, <1>4, <1>10, <1>11 DEF Says

LEMMA DryReads == ASSUME WriterInv, ReaderInv, runDry PROVE ReaderInv'
<1>1. /\ reading # "idle" /\ taken' = taken /\ Return(TRUE)
      /\ UNCHANGED <<script, writer, arrived, from>>
  BY DEF runDry, noneYet
<1>2. taken \in Nat /\ taken <= taken /\ taken <= arrived /\ from \in Nat
  BY DEF ReaderInv, Counts, ReaderState
<1>3. Piece(from, taken) = Piece(from, taken) \o << >>
  <2>1. Piece(from, taken) \in Seq(Int)
    <3>1. from <= taken /\ taken <= Len(sent)
      BY <1>1 DEF ReaderInv, ReaderState, Counts, WriterInv
    <3> QED BY <1>2, <3>1 DEF Piece, WriterInv
  <2> QED BY <2>1, ConcatEmptySeq
<1>4. Ended(<< >>)
  BY DEF Ended
<1>5. Says(Piece(from, taken), results'[call], script.calls[call])
  BY <1>1, <1>3, <1>4, TheCall, NumberReturns, WordReturns
<1> QED BY <1>1, <1>2, <1>5, Returns

LEMMA EndedBy ==
  ASSUME WriterInv, ReaderInv, reading # "idle", NEW c, get(c)
  PROVE  /\ Ended(<<c>>) /\ <<c>> # << >> /\ <<c>>[1] = c
         /\ Piece(from, taken') = Piece(from, taken) \o <<c>>
         /\ taken' \in Nat /\ taken <= taken' /\ taken' <= arrived
<1>1. /\ c \in Int /\ taken' = taken + 1 /\ taken' \in Nat /\ taken' <= arrived
      /\ Piece(from, taken) \in Seq(Int)
      /\ SubSeq(sent, from + 1, taken') = Append(Piece(from, taken), c)
  BY GetIs
<1>2. Append(Piece(from, taken), c) = Piece(from, taken) \o <<c>>
  BY <1>1, AppendRight
<1>3. taken \in Nat /\ taken <= taken'
  <2>1. taken \in Nat
    BY DEF ReaderInv, Counts
  <2> QED BY <1>1, <2>1
<1>4. Piece(from, taken') = SubSeq(sent, from + 1, taken')
  BY DEF Piece
<1>5. <<c>> # << >> /\ <<c>>[1] = c
  OBVIOUS
<1> QED BY <1>1, <1>2, <1>3, <1>4, <1>5, Zenon DEF Ended

LEMMA NumberEnds == ASSUME WriterInv, ReaderInv, readEnd PROVE ReaderInv'
<1>1. /\ Calling("readInt") /\ reading # "idle" /\ Return(FALSE)
      /\ UNCHANGED <<script, writer, arrived, from>>
  BY DEF readEnd, Calling
<1>2. PICK c : /\ c \notin Number /\ get(c)
               /\ reading = "whitespace" => c \notin Whitespace \cup {Minus}
  BY DEF readEnd
<1>3. /\ Ended(<<c>>) /\ <<c>> # << >> /\ <<c>>[1] = c
      /\ Piece(from, taken') = Piece(from, taken) \o <<c>>
      /\ taken' \in Nat /\ taken <= taken' /\ taken' <= arrived
  BY <1>1, <1>2, EndedBy
<1>4. Says(Piece(from, taken'), results'[call], script.calls[call])
  BY <1>1, <1>2, <1>3, NumberReturns
<1> QED BY <1>1, <1>3, <1>4, Returns

LEMMA WordEnds == ASSUME WriterInv, ReaderInv, readWordEnd PROVE ReaderInv'
<1>1. /\ Calling("readString") /\ reading # "idle" /\ Return(FALSE)
      /\ UNCHANGED <<script, writer, arrived, from>>
  BY DEF readWordEnd, Calling
<1>2. PICK c : /\ c \in Whitespace => reading = "word"
               /\ c \in Whitespace \/ Len(word) >= room(script.calls[call].maxLength)
               /\ get(c)
  BY DEF readWordEnd
<1>3. /\ Ended(<<c>>) /\ <<c>> # << >> /\ <<c>>[1] = c
      /\ Piece(from, taken') = Piece(from, taken) \o <<c>>
      /\ taken' \in Nat /\ taken <= taken' /\ taken' <= arrived
  BY <1>1, <1>2, EndedBy
<1>4. Says(Piece(from, taken'), results'[call], script.calls[call])
  BY <1>1, <1>2, <1>3, WordReturns
<1> QED BY <1>1, <1>3, <1>4, Returns

LEMMA ReaderStep == ASSUME WriterInv, ReaderInv, [StreamNext]_streamVars PROVE ReaderInv'
<1>1. CASE Write \/ secPut
  BY <1>1, WriterReads
<1>2. CASE Arrive
  BY <1>2, ArriveReads
<1>3. CASE Begin
  BY <1>3, BeginReads
<1>4. CASE runDry
  BY <1>4, DryReads
<1>5. CASE eatWhitespace
  BY <1>5, SpacesRead
<1>6. CASE readSign
  BY <1>6, SignReads
<1>7. CASE readDigit
  BY <1>7, DigitReads
<1>8. CASE readEnd
  BY <1>8, NumberEnds
<1>9. CASE readChar
  BY <1>9, CharReads
<1>10. CASE readWordEnd
  BY <1>10, WordEnds
<1>11. CASE UNCHANGED streamVars
  BY <1>11, StutterReads
<1> QED BY <1>1, <1>2, <1>3, <1>4, <1>5, <1>6, <1>7, <1>8, <1>9, <1>10, <1>11 DEF StreamNext

LEMMA ReaderStart == StreamInit => ReaderInv
<1> SUFFICES ASSUME StreamInit PROVE ReaderInv
  OBVIOUS
<1>1. Len(script.calls) \in Nat
  BY ScriptsAssumption DEF StreamInit
<1>2. Counts
  <2>1. Len(<< >>) = 0
    OBVIOUS
  <2> QED BY <2>1 DEF StreamInit, Counts
<1>4. ReaderState
  <2>1. FALSE \in BOOLEAN /\ 0 \in Int /\ 0 \in Nat /\ << >> \in Seq(Int)
    OBVIOUS
  <2> QED BY <2>1, Zenon DEF StreamInit, ReaderState
<1>5. SoFar
  BY DEF StreamInit, SoFar, Calling
<1>3. CallInv
  BY <1>1 DEF StreamInit, CallInv, EndOf
<1>6. \A k \in 1 .. call - 1 : Was(k)
  BY DEF StreamInit
<1> QED BY <1>2, <1>3, <1>4, <1>5, <1>6 DEF ReaderInv

LEMMA ReaderShows == WriterInv /\ ReaderInv => ReadsPiece
<1> SUFFICES ASSUME WriterInv, ReaderInv, NEW k \in 1 .. Len(results)
             PROVE  /\ results[k].from = IF k = 1 THEN 0 ELSE results[k - 1].to
                    /\ IF script.calls[k].op = "readInt"
                       THEN NumberPiece(SubSeq(sent, results[k].from + 1, results[k].to), results[k])
                       ELSE WordPiece(SubSeq(sent, results[k].from + 1, results[k].to), results[k],
                                      script.calls[k].maxLength - 1)
  BY DEF ReadsPiece
<1>1. k \in 1 .. call - 1
  BY DEF ReaderInv, CallInv
<1>2. Was(k) /\ EndOf(k - 1) = IF k = 1 THEN 0 ELSE results[k - 1].to
  BY <1>1 DEF ReaderInv, EndOf
<1> QED BY <1>2 DEF Was, Says, Piece

(* A call returns what the characters that it took say, whenever they      *)
(* arrive, for all widths and all scripts: readInt, readString.            *)
THEOREM ReadsPieceCorrect == StreamSpec => []ReadsPiece
<1>1. StreamInit => WriterInv /\ ReaderInv
  BY WriterStart, ReaderStart
<1>2. WriterInv /\ ReaderInv /\ [StreamNext]_streamVars => WriterInv' /\ ReaderInv'
  BY WriterStep, ReaderStep
<1>3. WriterInv /\ ReaderInv => ReadsPiece
  BY ReaderShows
<1> QED BY <1>1, <1>2, <1>3, PTL DEF StreamSpec

-----------------------------------------------------------------------------
(* What was written comes back.  When a program has waited, the line is    *)
(* the items one after the other, an edge between each and the next.       *)
LEMMA Cancel ==
  \A x, y, x0, y0 \in Seq(Int) : Len(x) = Len(x0) /\ x \o y = x0 \o y0 => x = x0 /\ y = y0
<1>1. ASSUME NEW x \in Seq(Int), NEW y \in Seq(Int), NEW x0 \in Seq(Int), NEW y0 \in Seq(Int),
             Len(x) = Len(x0), x \o y = x0 \o y0
      PROVE  x = x0 /\ y = y0
  <2>1. SubSeq(x \o y, 1, Len(x)) = x /\ After(x \o y, Len(x)) = y
    BY Halves, Zenon
  <2>2. SubSeq(x0 \o y0, 1, Len(x0)) = x0 /\ After(x0 \o y0, Len(x0)) = y0
    BY Halves, Zenon
  <2> QED BY <1>1, <2>1, <2>2, Zenon
<1> QED BY <1>1, Zenon

LEMMA InInt == \A x \in Seq(Int) : \A k \in 1 .. Len(x) : x[k] \in Int
OBVIOUS

LEMMA FirstIs ==
  ASSUME NEW x \in Seq(Int), NEW y \in Seq(Int)
  PROVE  /\ x \o y \in Seq(Int) /\ x # << >> => x \o y # << >> /\ (x \o y)[1] = x[1]
         /\ x = << >> => x \o y = y
<1>1. PICK u \in Seq(Int) : u = x \o y /\ Len(u) = Len(x) + Len(y)
         /\ \A k \in 1 .. Len(u) : u[k] = IF k <= Len(x) THEN x[k] ELSE y[k - Len(x)]
  BY Joined
<1>2. x # << >> => u # << >> /\ u[1] = x[1]
  BY <1>1
<1>3. x = << >> => u = y
  BY <1>1, ConcatEmptySeq
<1> QED BY <1>1, <1>2, <1>3

LEMMA AfterSpaces ==
  ASSUME NEW w \in Seq(Whitespace), NEW u \in Seq(Int), u # << >> => u[1] \notin Whitespace
  PROVE  After(w \o u, Leading(w \o u, Whitespace)) = u
<1>1. w \in Seq(Int) /\ \A k \in 1 .. Len(w) : w[k] \in Whitespace
  BY InSeq, NumberIs
<1>2. Leading(w \o u, Whitespace) = Len(w) /\ After(w \o u, Len(w)) = u
  BY <1>1, Split, Zenon
<1> QED BY <1>2

(* The parts of a line that the grammar of a word finds.                   *)
WordParts(g, w, v, e, max) ==
  /\ w \in Seq(Whitespace) /\ v \in Seq(Int) /\ e \in Seq(Int) /\ g = w \o (v \o e)
  /\ \A k \in 1 .. Len(v) : v[k] \notin Whitespace
  /\ Len(v) <= max
  /\ e # << >> => e[1] \in Whitespace \/ Len(v) = max
  /\ e # << >> /\ v = << >> => e[1] \notin Whitespace

LEMMA WordUnique ==
  ASSUME NEW g, NEW max \in Nat, NEW w, NEW v, NEW e, WordParts(g, w, v, e, max),
         NEW w0, NEW v0, NEW e0, WordParts(g, w0, v0, e0, max),
         v0 # << >>, e0 # << >> => e0[1] \in Whitespace
  PROVE  v = v0 /\ e = e0
<1> SUFFICES ASSUME w \in Seq(Whitespace), w0 \in Seq(Whitespace), v \in Seq(Int), v0 \in Seq(Int),
                    e \in Seq(Int), e0 \in Seq(Int),
                    \A k \in 1 .. Len(v) : v[k] \notin Whitespace, \A k \in 1 .. Len(v0) : v0[k] \notin Whitespace,
                    Len(v) <= max, Len(v0) <= max,
                    e # << >> => e[1] \in Whitespace \/ Len(v) = max,
                    e # << >> /\ v = << >> => e[1] \notin Whitespace,
                    w \o (v \o e) = w0 \o (v0 \o e0)
             PROVE  v = v0 /\ e = e0
  BY DEF WordParts
<1>1. /\ w \in Seq(Int) /\ \A k \in 1 .. Len(w) : w[k] \in Whitespace
      /\ w0 \in Seq(Int) /\ \A k \in 1 .. Len(w0) : w0[k] \in Whitespace
  BY InSeq, NumberIs
<1>2. PICK u \in Seq(Int) : u = v \o e /\ Len(u) = Len(v) + Len(e)
         /\ \A k \in 1 .. Len(u) : u[k] = IF k <= Len(v) THEN v[k] ELSE e[k - Len(v)]
  BY Joined
<1>3. PICK u0 \in Seq(Int) : u0 = v0 \o e0 /\ Len(u0) = Len(v0) + Len(e0)
         /\ \A k \in 1 .. Len(u0) : u0[k] = IF k <= Len(v0) THEN v0[k] ELSE e0[k - Len(v0)]
  BY Joined
<1>4. u # << >> => u[1] \notin Whitespace
  <2>1. CASE v # << >>
    <3>1. u[1] = v[1] /\ 1 \in 1 .. Len(v)
      BY <1>2, <2>1, FirstIs
    <3> QED BY <3>1
  <2>2. CASE v = << >>
    <3>1. u = e
      BY <1>2, <2>2, FirstIs
    <3> QED BY <2>2, <3>1
  <2> QED BY <2>1, <2>2
<1>10. u0 # << >> => u0[1] \notin Whitespace
  <2>1. u0[1] = v0[1] /\ 1 \in 1 .. Len(v0)
    BY <1>3, FirstIs
  <2> QED BY <2>1
<1>5. After(w \o u, Leading(w \o u, Whitespace)) = u
  BY <1>4, AfterSpaces
<1>6. After(w0 \o u0, Leading(w0 \o u0, Whitespace)) = u0
  BY <1>10, AfterSpaces
<1>7. u = u0
  BY <1>2, <1>3, <1>5, <1>6
<1>8. Len(v) = Len(v0)
  <2> DEFINE Black == Int \ Whitespace
  <2>1. (\A k \in 1 .. Len(v) : v[k] \in Black) /\ (\A k \in 1 .. Len(v0) : v0[k] \in Black)
    <3>1. (\A k \in 1 .. Len(v) : v[k] \in Int) /\ (\A k \in 1 .. Len(v0) : v0[k] \in Int)
      BY InInt, Zenon
    <3> QED BY <3>1
  <2>2. (e0 # << >> => e0[1] \notin Black) /\ (e # << >> /\ e[1] \in Whitespace => e[1] \notin Black)
    OBVIOUS
  <2> HIDE DEF Black
  <2>3. Leading(u0, Black) = Len(v0)
    BY <1>3, <2>1, <2>2, Split
  <2>4. CASE e = << >> \/ e[1] \in Whitespace
    <3>1. Leading(u, Black) = Len(v)
      BY <1>2, <2>1, <2>2, <2>4, Split
    <3> QED BY <1>7, <2>3, <3>1
  <2>5. CASE e # << >> /\ Len(v) = max
    <3>1. CASE Len(v0) < Len(v)
      <4>3. PICK a \in Nat, b \in Nat, c \in Nat, d \in Nat :
                 a = Len(v) /\ b = Len(v0) /\ c = Len(e) /\ d = Len(e0)
        OBVIOUS
      <4>4. Len(u) = a + c /\ Len(u) = b + d /\ Len(u0) = Len(u) /\ b < a
        BY <1>2, <1>3, <1>7, <3>1, <4>3
      <4>5. /\ b + 1 \in 1 .. a /\ b + 1 \in 1 .. a + c /\ (b + 1) - b = 1 /\ ~ b + 1 <= b
            /\ b + 1 <= a /\ d >= 1
        BY <4>4
      <4>1. PICK k \in Nat : k = Len(v0) + 1 /\ k \in 1 .. Len(v) /\ k \in 1 .. Len(u) /\ k \in 1 .. Len(u0)
                             /\ k - Len(v0) = 1 /\ ~ k <= Len(v0) /\ k <= Len(v) /\ Len(e0) >= 1
        BY <4>3, <4>4, <4>5
      <4>2. u[k] = v[k] /\ u0[k] = e0[1] /\ e0 # << >>
        BY <1>2, <1>3, <4>1
      <4> QED BY <1>7, <4>1, <4>2
    <3>2. ~ Len(v0) < Len(v)
      BY <3>1
    <3> QED BY <2>5, <3>2
  <2> QED BY <2>4, <2>5
<1> QED BY <1>2, <1>3, <1>7, <1>8, Cancel, Zenon

(* The edges of the items on the line of a program that has waited.        *)
Edges ==
  /\ entry = 1 => sent = << >>
  /\ entry # 1 => begins[1] = 0
  /\ \A k \in 1 .. entry - 2 : begins[k] <= begins[k + 1]

LEMMA EdgesStart == StreamInit => Edges
BY DEF StreamInit, Edges

LEMMA WriteEdges == ASSUME WriterInv, Edges, Write PROVE Edges'
<1>1. PICK n \in Nat, m \in Nat \ {0} : n = Len(sent) /\ m = entry
  BY DEF WriterInv
<1>2. /\ Len(begins') = m /\ begins'[m] = n /\ \A k \in 1 .. m - 1 : begins'[k] = begins[k]
      /\ entry' = m + 1
  BY <1>1 DEF WriterInv, Write
<1>3. begins'[1] = 0
  <2>1. CASE m = 1
    <3>1. sent = << >>
      BY <1>1, <2>1 DEF Edges
    <3>2. n = 0
      BY <1>1, <3>1
    <3> QED BY <1>2, <2>1, <3>2
  <2>2. CASE m # 1
    <3>1. 1 \in 1 .. m - 1
      BY <1>1, <2>2
    <3> QED BY <1>1, <1>2, <2>2, <3>1 DEF Edges
  <2> QED BY <2>1, <2>2
<1>4. ASSUME NEW k \in 1 .. m - 1 PROVE begins'[k] <= begins'[k + 1]
  <2>1. CASE k = m - 1
    <3>1. begins'[k + 1] = n /\ begins[k] <= n
      BY <1>1, <1>2, <2>1 DEF WriterInv
    <3> QED BY <1>2, <3>1
  <2>2. CASE k # m - 1
    <3>1. k \in 1 .. m - 2 /\ k + 1 \in 1 .. m - 1
      BY <2>2
    <3>2. begins[k] <= begins[k + 1]
      BY <1>1, <3>1 DEF Edges
    <3> QED BY <1>2, <3>1, <3>2
  <2> QED BY <2>1, <2>2
<1>5. entry' - 2 = m - 1 /\ entry' # 1
  BY <1>1, <1>2
<1> QED BY <1>3, <1>4, <1>5 DEF Edges

LEMMA EdgesStep == ASSUME WriterInv, Edges, [StreamNext]_streamVars PROVE Edges'
<1>1. CASE Write
  BY <1>1, WriteEdges
<1>2. CASE secPut
  <2>1. entry # 1
    BY <1>2 DEF secPut, WriterInv
  <2> QED BY <1>2, <2>1 DEF secPut, Edges
<1>3. CASE UNCHANGED <<script, writer>>
  BY <1>3 DEF writer, Edges
<1> QED BY <1>1, <1>2, <1>3, ReaderKeepsWriter DEF StreamNext

Done == entry > Len(script.items) /\ text = << >> /\ arrived = Len(sent)
Edge(k) == IF k <= Len(script.items) THEN begins[k] ELSE Len(sent)
Unread(p) == SubSeq(sent, p + 1, Len(sent))

LEMMA CutTwo ==
  ASSUME NEW s \in Seq(Int), NEW a \in Nat, NEW b \in Nat, a <= b, b <= Len(s)
  PROVE  /\ SubSeq(s, a + 1, Len(s)) = SubSeq(s, a + 1, b) \o SubSeq(s, b + 1, Len(s))
         /\ SubSeq(s, a + 1, b) \in Seq(Int) /\ SubSeq(s, b + 1, Len(s)) \in Seq(Int)
         /\ Len(SubSeq(s, b + 1, Len(s))) = Len(s) - b
         /\ b < Len(s) => SubSeq(s, b + 1, Len(s)) # << >> /\ SubSeq(s, b + 1, Len(s))[1] = s[b + 1]
<1>1. PICK n \in Nat : n = Len(s) /\ n <= Len(s)
  OBVIOUS
<1>2. a + 1 \in Nat \ {0} /\ b + 1 \in Nat \ {0} /\ a + 1 <= b + 1 /\ a + 1 <= n + 1 /\ b + 1 <= n + 1
  BY <1>1
<1>3. PICK x \in Seq(Int) : x = SubSeq(s, a + 1, b) /\ Len(x) = (b + 1) - (a + 1)
         /\ \A k \in 1 .. (b + 1) - (a + 1) : x[k] = s[((a + 1) - 1) + k]
  BY <1>2, Cut, Zenon
<1>4. PICK y \in Seq(Int) : y = SubSeq(s, b + 1, n) /\ Len(y) = (n + 1) - (b + 1)
         /\ \A k \in 1 .. (n + 1) - (b + 1) : y[k] = s[((b + 1) - 1) + k]
  BY <1>1, <1>2, Cut, Zenon
<1>5. PICK z \in Seq(Int) : z = SubSeq(s, a + 1, n) /\ Len(z) = (n + 1) - (a + 1)
         /\ \A k \in 1 .. (n + 1) - (a + 1) : z[k] = s[((a + 1) - 1) + k]
  <2>1. a + 1 \in Nat \ {0} /\ n \in Nat /\ a + 1 <= n + 1 /\ n <= Len(s)
    BY <1>1, <1>2
  <2> QED BY <2>1, Cut, Zenon
<1>6. PICK u \in Seq(Int) : u = x \o y /\ Len(u) = Len(x) + Len(y)
         /\ \A k \in 1 .. Len(u) : u[k] = IF k <= Len(x) THEN x[k] ELSE y[k - Len(x)]
  BY Joined
<1>7. /\ Len(x) = b - a /\ Len(y) = n - b /\ Len(z) = n - a /\ Len(u) = n - a
      /\ (b + 1) - (a + 1) = b - a /\ (n + 1) - (b + 1) = n - b /\ (n + 1) - (a + 1) = n - a
      /\ (a + 1) - 1 = a /\ (b + 1) - 1 = b
  <2>1. /\ (b + 1) - (a + 1) = b - a /\ (n + 1) - (b + 1) = n - b /\ (n + 1) - (a + 1) = n - a
        /\ (a + 1) - 1 = a /\ (b + 1) - 1 = b
    OBVIOUS
  <2>2. Len(x) = b - a /\ Len(y) = n - b /\ Len(z) = n - a
    BY <1>3, <1>4, <1>5, <2>1
  <2>3. Len(u) = (b - a) + (n - b)
    BY <1>6, <2>2
  <2> QED BY <2>1, <2>2, <2>3
<1>8. ASSUME NEW k \in 1 .. n - a PROVE z[k] = u[k]
  <2>1. z[k] = s[a + k]
    BY <1>5, <1>7
  <2>2. CASE k <= b - a
    <3>1. k \in 1 .. b - a
      BY <2>2
    <3>2. x[k] = s[a + k] /\ u[k] = x[k]
      BY <1>3, <1>6, <1>7, <2>2, <3>1
    <3> QED BY <2>1, <3>2
  <2>3. CASE ~ k <= b - a
    <3>1. PICK m \in 1 .. n - b : m = k - (b - a) /\ b + m = a + k
      BY <2>3
    <3>2. y[m] = s[b + m] /\ u[k] = y[m]
      BY <1>4, <1>6, <1>7, <2>3, <3>1
    <3> QED BY <2>1, <3>1, <3>2
  <2> QED BY <2>2, <2>3
<1>9. z = u
  BY <1>7, <1>8, SameSeq
<1>10. ASSUME b < n PROVE y # << >> /\ y[1] = s[b + 1]
  <2>1. 1 \in 1 .. n - b
    BY <1>10
  <2>2. y[1] = s[b + 1]
    BY <1>4, <1>7, <2>1
  <2>3. y # << >>
    BY <1>7, <2>1
  <2> QED BY <2>2, <2>3
<1> QED BY <1>1, <1>3, <1>4, <1>5, <1>6, <1>7, <1>9, <1>10

LEMMA EdgeIs ==
  ASSUME WriterInv, Edges, Done
  PROVE  /\ entry = Len(script.items) + 1
         /\ Edge(Len(script.items) + 1) = Len(sent) /\ Edge(1) = 0
         /\ \A k \in 1 .. Len(script.items) + 1 : Edge(k) \in Nat /\ Edge(k) <= Len(sent)
         /\ \A k \in 1 .. Len(script.items) :
              /\ Edge(k) <= Edge(k + 1) /\ written(script.items[k]) = Piece(Edge(k), Edge(k + 1))
              /\ Unread(Edge(k)) = written(script.items[k]) \o Unread(Edge(k + 1))
<1>1. PICK n \in Nat, L \in Nat : n = Len(sent) /\ L = Len(script.items)
  BY ScriptsAssumption DEF WriterInv
<1>2. entry = L + 1 /\ Len(begins) = L /\ text = << >>
  BY <1>1 DEF WriterInv, Done
<1>3. \A k \in 1 .. L : Edge(k) = begins[k] /\ begins[k] \in Nat /\ begins[k] <= n
  BY <1>1, <1>2 DEF Edge, WriterInv
<1>4. Edge(L + 1) = n
  BY <1>1 DEF Edge
<1>5. Edge(1) = 0
  <2>1. CASE L = 0
    <3>1. sent = << >>
      BY <1>2, <2>1 DEF Edges
    <3> QED BY <1>1, <1>4, <2>1, <3>1
  <2>2. CASE L # 0
    <3>1. 1 \in 1 .. L /\ entry # 1
      BY <1>2, <2>2
    <3> QED BY <1>3, <3>1 DEF Edges
  <2> QED BY <2>1, <2>2
<1>6. \A k \in 1 .. L + 1 : Edge(k) \in Nat /\ Edge(k) <= n
  <2>1. \A k \in 1 .. L + 1 : k \in 1 .. L \/ k = L + 1
    OBVIOUS
  <2> QED BY <1>3, <1>4, <2>1
<1>7. ASSUME NEW k \in 1 .. L
      PROVE  Edge(k) <= Edge(k + 1) /\ written(script.items[k]) = Piece(Edge(k), Edge(k + 1))
  <2>1. CASE k = L
    <3>1. Edge(k + 1) = n /\ Edge(k) = begins[k] /\ begins[k] \in Nat /\ begins[k] <= n
      BY <1>3, <1>4, <2>1
    <3>2. entry # 1 /\ entry - 1 = k
      BY <1>2, <2>1
    <3>3. Piece(begins[k], n) \o << >> = written(script.items[k])
      BY <1>1, <1>2, <3>2 DEF WriterInv, Put
    <3>4. Piece(begins[k], n) \in Seq(Int)
      BY <1>1, <3>1 DEF Piece, WriterInv
    <3>5. Piece(begins[k], n) = written(script.items[k])
      BY <3>3, <3>4, ConcatEmptySeq, Zenon
    <3> QED BY <3>1, <3>5
  <2>2. CASE k # L
    <3>1. k \in 1 .. entry - 2 /\ k + 1 \in 1 .. L
      BY <1>2, <2>2
    <3>2. Laid(k) /\ begins[k] <= begins[k + 1]
      BY <3>1 DEF WriterInv, Edges
    <3> QED BY <1>3, <3>1, <3>2 DEF Laid
  <2> QED BY <2>1, <2>2
<1>8. ASSUME NEW k \in 1 .. L PROVE Unread(Edge(k)) = written(script.items[k]) \o Unread(Edge(k + 1))
  <2>1. PICK a \in Nat, b \in Nat : a = Edge(k) /\ b = Edge(k + 1) /\ a <= b /\ b <= Len(sent)
    <3>1. k \in 1 .. L + 1 /\ k + 1 \in 1 .. L + 1
      OBVIOUS
    <3> QED BY <1>1, <1>6, <1>7, <3>1
  <2>2. SubSeq(sent, a + 1, Len(sent)) = SubSeq(sent, a + 1, b) \o SubSeq(sent, b + 1, Len(sent))
    BY <2>1, CutTwo DEF WriterInv
  <2>3. written(script.items[k]) = SubSeq(sent, a + 1, b)
    BY <1>7, <2>1 DEF Piece
  <2> QED BY <2>1, <2>2, <2>3 DEF Unread
<1> QED BY <1>1, <1>2, <1>4, <1>5, <1>6, <1>7, <1>8

(* What a number or a separator is written as, and where the reader is     *)
(* when the call for an item begins.                                       *)
LEMMA NumberData ==
  ASSUME NEW i, IsItem(i), i.kind \in {"int", "uint"}, Writable(i)
  PROVE  \E minus \in BOOLEAN, v \in Seq(Number) :
           /\ written(i) = SignText(minus) \o v /\ v # << >>
           /\ i.value = IF minus THEN -ValueOf(v, 10) ELSE ValueOf(v, 10)
<1>1. PICK t \in Seq(Int) : t = written(i) /\ IsDecimal(t) /\ Decimal(t) = i.value
  BY ItemFaithful DEF Faithful, Means
<1>2. PICK minus \in BOOLEAN : minus = (t[1] = Minus)
  OBVIOUS
<1>3. PICK v : v = IF t[1] = Minus THEN Tail(t) ELSE t
  OBVIOUS
<1>4. t # << >> /\ v # << >> /\ \A k \in 1 .. Len(v) : v[k] \in Number
  BY <1>1, <1>3, Zenon DEF IsDecimal
<1>5. v \in Seq(Int)
  BY <1>3, <1>4, RestIs
<1>6. v \in Seq(Number)
  <2>1. v = [k \in 1 .. Len(v) |-> v[k]] /\ Len(v) \in Nat
    BY <1>5
  <2> QED BY <1>4, <2>1
<1>7. i.value = IF minus THEN -ValueOf(v, 10) ELSE ValueOf(v, 10)
  BY <1>1, <1>2, <1>3, Zenon DEF Decimal
<1>8. t = SignText(minus) \o v
  <2>1. CASE minus
    <3>1. PICK c \in Seq(Int) : c = <<Minus>> /\ Len(c) = 1 /\ c[1] = Minus
      <4>1. <<Minus>> \in Seq(Int)
        BY NumberIs
      <4> QED BY <4>1
    <3>2. PICK u \in Seq(Int) : u = c \o v /\ Len(u) = Len(c) + Len(v)
             /\ \A k \in 1 .. Len(u) : u[k] = IF k <= Len(c) THEN c[k] ELSE v[k - Len(c)]
      BY <1>5, Joined
    <3>3. /\ v = Tail(t) /\ Len(v) = Len(t) - 1 /\ Len(t) >= 1 /\ t[1] = Minus
          /\ \A k \in 1 .. Len(t) - 1 : v[k] = t[k + 1]
      BY <1>2, <1>3, <1>4, <2>1, RestIs
    <3>4. Len(u) = Len(t)
      BY <3>1, <3>2, <3>3
    <3>5. ASSUME NEW k \in 1 .. Len(u) PROVE u[k] = t[k]
      <4>1. CASE k = 1
        BY <3>1, <3>2, <3>3, <4>1
      <4>2. CASE k # 1
        <5>1. k - 1 \in 1 .. Len(t) - 1 /\ (k - 1) + 1 = k /\ ~ k <= Len(c) /\ k - Len(c) = k - 1
          BY <3>1, <3>4, <4>2
        <5> QED BY <3>2, <3>3, <5>1
      <4> QED BY <4>1, <4>2
    <3> QED BY <2>1, <3>1, <3>2, <3>4, <3>5, SameSeq DEF SignText
  <2>2. CASE ~ minus
    <3>1. << >> \o v = v
      BY <1>5, ConcatEmptySeq
    <3> QED BY <1>2, <1>3, <2>2, <3>1 DEF SignText
  <2> QED BY <2>1, <2>2
<1> QED BY <1>1, <1>4, <1>6, <1>7, <1>8

LEMMA SeparatorIs ==
  ASSUME NEW s, NEW i, IsItem(s), Separates(s, i), i.kind \in {"int", "uint", "string"}
  PROVE  \E c \in Int, w \in Seq(Whitespace) :
           written(s) = <<c>> \o w /\ c \notin Number /\ (i.kind = "string" => c \in Whitespace)
<1>1. CASE s.kind = "newline"
  <2>1. written(s) = <<10, 13>>
    BY <1>1 DEF written
  <2>2. <<10, 13>> = <<10>> \o <<13>> /\ <<13>> \in Seq(Whitespace)
    BY DEF Whitespace
  <2>3. 10 \in Int /\ 10 \notin Number /\ 10 \in Whitespace
    BY DEF Number, Zero, Whitespace
  <2> QED BY <2>1, <2>2, <2>3
<1>2. CASE s.kind = "char"
  <2>1. written(s) = <<s.value>> /\ s.value \in Int
    BY <1>2 DEF written, IsItem, Character
  <2>2. <<s.value>> = <<s.value>> \o << >> /\ << >> \in Seq(Whitespace)
    BY <2>1
  <2>3. s.value \notin Number /\ (i.kind = "string" => s.value \in Whitespace)
    BY <1>2, NumberIs DEF Separates
  <2> QED BY <2>1, <2>2, <2>3
<1> QED BY <1>1, <1>2 DEF Separates

LEMMA FitsIs ==
  ASSUME WriterInv, Fits, NEW k \in 1 .. Len(script.calls)
  PROVE  /\ 2 * k - 1 \in 1 .. Len(script.items) /\ 2 * k <= Len(script.items) + 1
         /\ ReadBy(Data(k), script.calls[k]) /\ IsItem(Data(k))
         /\ Data(k).kind \in {"int", "uint", "string"}
         /\ 2 * k <= Len(script.items) =>
              /\ 2 * k \in 1 .. Len(script.items) /\ IsItem(script.items[2 * k])
              /\ Separates(script.items[2 * k], Data(k))
<1>1. PICK L \in Nat, n \in Nat : L = Len(script.items) /\ n = Len(script.calls)
  BY ScriptsAssumption DEF WriterInv
<1>2. L = 2 * n - 1 \/ L = 2 * n
  BY <1>1 DEF Fits
<1>3. 2 * k - 1 \in 1 .. L /\ 2 * k <= L + 1 /\ (2 * k <= L => 2 * k \in 1 .. L)
  BY <1>1, <1>2
<1>4. \A m \in 1 .. L : IsItem(script.items[m])
  BY <1>1, ScriptsAssumption DEF WriterInv
<1>5. ReadBy(Data(k), script.calls[k])
  BY DEF Fits
<1>6. Data(k).kind \in {"int", "uint", "string"}
  BY <1>5 DEF ReadBy
<1>7. 2 * k <= L => Separates(script.items[2 * k], Data(k))
  BY <1>1 DEF Fits
<1>8. IsItem(Data(k))
  BY <1>3, <1>4 DEF Data
<1> QED BY <1>1, <1>3, <1>4, <1>5, <1>6, <1>7, <1>8

LEMMA RestsAre ==
  ASSUME WriterInv, NEW p \in Nat, p <= Len(sent)
  PROVE  /\ Unread(p) \in Seq(Int) /\ Len(Unread(p)) = Len(sent) - p
         /\ p < Len(sent) => Unread(p) # << >> /\ Unread(p)[1] = sent[p + 1]
         /\ p = Len(sent) => Unread(p) = << >>
<1>1. sent \in Seq(Int) /\ p <= p
  BY DEF WriterInv
<1>2. /\ Unread(p) \in Seq(Int) /\ Len(Unread(p)) = Len(sent) - p
      /\ p < Len(sent) => Unread(p) # << >> /\ Unread(p)[1] = sent[p + 1]
  BY <1>1, CutTwo DEF Unread
<1>3. ASSUME p = Len(sent) PROVE Unread(p) = << >>
  <2>1. Len(Unread(p)) = 0
    BY <1>1, <1>2, <1>3
  <2> QED BY <1>2, <2>1
<1> QED BY <1>2, <1>3

LEMMA RestSplits ==
  ASSUME WriterInv, NEW a \in Nat, NEW b \in Nat, a <= b, b <= Len(sent)
  PROVE  Unread(a) = Piece(a, b) \o Unread(b) /\ Piece(a, b) \in Seq(Int) /\ Unread(b) \in Seq(Int)
<1>1. sent \in Seq(Int)
  BY DEF WriterInv
<1> QED BY <1>1, CutTwo DEF Unread, Piece

(* Behind the data of a call there is its separator, or nothing.           *)
LEMMA BehindData ==
  ASSUME WriterInv, Edges, Done, Fits, NEW k \in 1 .. Len(script.calls)
  PROVE  /\ Edge(2 * k) \in Nat /\ Edge(2 * k) <= Len(sent) /\ Unread(Edge(2 * k)) \in Seq(Int)
         /\ 2 * k <= Len(script.items) =>
              /\ Unread(Edge(2 * k)) # << >> /\ Edge(2 * k) < Len(sent)
              /\ Unread(Edge(2 * k))[1] \notin Number
              /\ Data(k).kind = "string" => Unread(Edge(2 * k))[1] \in Whitespace
              /\ \E w \in Seq(Whitespace) : Unread(Edge(2 * k) + 1) = w \o Unread(Edge(2 * k + 1))
         /\ ~ 2 * k <= Len(script.items) => Edge(2 * k) = Len(sent) /\ Unread(Edge(2 * k)) = << >>
<1>1. PICK m \in Nat \ {0}, L \in Nat : m = 2 * k /\ L = Len(script.items) /\ m <= L + 1
  <2>1. Len(script.items) \in Nat /\ Len(script.calls) \in Nat
    BY ScriptsAssumption DEF WriterInv
  <2>2. 2 * k \in Nat \ {0}
    BY <2>1
  <2>3. 2 * k <= Len(script.items) + 1
    BY FitsIs
  <2> QED BY <2>1, <2>2, <2>3
<1>2. m \in 1 .. L + 1
  BY <1>1
<1>3. Edge(m) \in Nat /\ Edge(m) <= Len(sent)
  BY <1>1, <1>2, EdgeIs
<1>4. Unread(Edge(m)) \in Seq(Int)
  BY <1>3, RestsAre
<1>5. ASSUME ~ m <= L PROVE Edge(m) = Len(sent) /\ Unread(Edge(m)) = << >>
  <2>1. Edge(m) = Len(sent)
    BY <1>1, <1>5 DEF Edge
  <2> QED BY <1>3, <2>1, RestsAre
<1>6. ASSUME m <= L
      PROVE  /\ Unread(Edge(m)) # << >> /\ Edge(m) < Len(sent) /\ Unread(Edge(m))[1] \notin Number
             /\ Data(k).kind = "string" => Unread(Edge(m))[1] \in Whitespace
             /\ \E w \in Seq(Whitespace) : Unread(Edge(m) + 1) = w \o Unread(Edge(m + 1))
  <2>1. m \in 1 .. L /\ IsItem(script.items[m]) /\ Separates(script.items[m], Data(k))
        /\ Data(k).kind \in {"int", "uint", "string"}
    BY <1>1, <1>6, FitsIs
  <2>2. PICK c \in Int, w \in Seq(Whitespace) :
             /\ written(script.items[m]) = <<c>> \o w /\ c \notin Number
             /\ Data(k).kind = "string" => c \in Whitespace
    BY <2>1, SeparatorIs
  <2>3. Edge(m + 1) \in Nat /\ Edge(m + 1) <= Len(sent) /\ Unread(Edge(m)) = (<<c>> \o w) \o Unread(Edge(m + 1))
    <3>1. m + 1 \in 1 .. L + 1
      BY <2>1
    <3> QED BY <1>1, <2>1, <2>2, <3>1, EdgeIs
  <2>4. PICK x \in Seq(Int), y \in Seq(Int), r \in Seq(Int) :
             x = <<c>> /\ y = w /\ r = Unread(Edge(m + 1)) /\ Len(x) = 1 /\ x[1] = c /\ x # << >>
    <3>1. w \in Seq(Int) /\ Unread(Edge(m + 1)) \in Seq(Int)
      BY <2>3, InSeq, NumberIs, RestsAre
    <3>2. <<c>> \in Seq(Int) /\ Len(<<c>>) = 1 /\ <<c>>[1] = c /\ <<c>> # << >>
      OBVIOUS
    <3> QED BY <3>1, <3>2
  <2>5. Unread(Edge(m)) = x \o (y \o r) /\ y \o r \in Seq(Int)
    <3>1. (x \o y) \o r = x \o (y \o r)
      BY JoinThree, Zenon
    <3>2. y \o r \in Seq(Int)
      BY JoinIs, Zenon
    <3> QED BY <2>3, <2>4, <3>1, <3>2, Zenon
  <2>6. Unread(Edge(m)) # << >> /\ Unread(Edge(m))[1] = c
    <3>1. x \o (y \o r) # << >> /\ (x \o (y \o r))[1] = x[1]
      BY <2>4, <2>5, FirstIs
    <3> QED BY <2>4, <2>5, <3>1
  <2>7. PICK e \in Nat : e = Edge(m) /\ e < Len(sent) /\ e + 1 \in Nat /\ e <= e + 1 /\ e + 1 <= Len(sent)
    <3>1. Edge(m) # Len(sent)
      BY <1>3, <2>6, RestsAre
    <3>2. Len(sent) \in Nat
      BY DEF WriterInv
    <3>3. PICK e \in Nat, n \in Nat : e = Edge(m) /\ n = Len(sent) /\ e <= n /\ e # n
      BY <1>3, <3>1, <3>2
    <3>4. e < n /\ e + 1 \in Nat /\ e <= e + 1 /\ e + 1 <= n
      BY <3>3
    <3> QED BY <3>3, <3>4
  <2>8. Unread(e) = Piece(e, e + 1) \o Unread(e + 1) /\ Piece(e, e + 1) \in Seq(Int) /\ Unread(e + 1) \in Seq(Int)
    BY <2>7, RestSplits
  <2>9. Len(Piece(e, e + 1)) = Len(x)
    <3>1. sent \in Seq(Int)
      BY DEF WriterInv
    <3>2. PICK a \in Nat \ {0}, b \in Nat : a = e + 1 /\ b = a /\ a <= b + 1 /\ b <= Len(sent) /\ (b + 1) - a = 1
      BY <2>7
    <3>3. PICK u \in Seq(Int) : u = SubSeq(sent, a, b) /\ Len(u) = (b + 1) - a
             /\ \A j \in 1 .. (b + 1) - a : u[j] = sent[(a - 1) + j]
      <4>1. a <= b + 1 /\ b <= Len(sent)
        BY <3>2
      <4> QED BY <3>1, <4>1, Cut, Zenon
    <3> QED BY <2>4, <3>2, <3>3 DEF Piece
  <2>10. Unread(e + 1) = y \o r
    <3>1. PICK q \in Seq(Int), u \in Seq(Int), t \in Seq(Int) :
               q = y \o r /\ u = Piece(e, e + 1) /\ t = Unread(e + 1) /\ Len(u) = Len(x)
      BY <2>5, <2>8, <2>9
    <3>2. u \o t = x \o q
      BY <2>5, <2>7, <2>8, <3>1
    <3>4. Len(u) = Len(x)
      BY <3>1
    <3>3. t = q
      BY <3>2, <3>4, Cancel
    <3> QED BY <3>1, <3>3
  <2> QED BY <2>2, <2>4, <2>6, <2>7, <2>10
<1> QED BY <1>1, <1>3, <1>4, <1>5, <1>6

(* The calls that returned: each got its item back, and stopped behind the *)
(* first character of the separator.                                       *)
Past(k) == IF k = 0 THEN 0
           ELSE IF 2 * k <= Len(script.items) THEN Edge(2 * k) + 1 ELSE Len(sent)
GotBack(k) ==
  IF Data(k).kind = "string" THEN results[k].word = Data(k).text
  ELSE results[k].found /\ results[k].val = signed(Data(k).value, Bits)
Back(k) == EndOf(k) = Past(k) /\ GotBack(k)

BackInv ==
  script.waits /\ Fits =>
    /\ reading # "idle" \/ call # 1 => Done
    /\ \A k \in 1 .. call - 1 : Back(k)

LEMMA BeforeData ==
  ASSUME WriterInv, Edges, Done, Fits, NEW k \in 1 .. Len(script.calls)
  PROVE  \E w \in Seq(Whitespace) :
           Unread(Past(k - 1)) = w \o (written(Data(k)) \o Unread(Edge(2 * k)))
<1>1. PICK L \in Nat, m \in Nat : /\ L = Len(script.items) /\ m \in 1 .. L /\ m = 2 * k - 1 /\ m + 1 = 2 * k
  <2>1. Len(script.items) \in Nat
    BY ScriptsAssumption DEF WriterInv
  <2> QED BY <2>1, FitsIs
<1>2. Unread(Edge(m)) = written(Data(k)) \o Unread(Edge(2 * k))
  BY <1>1, EdgeIs DEF Data
<1>3. Unread(Edge(m)) \in Seq(Int)
  <2>1. m \in 1 .. L + 1
    BY <1>1
  <2> QED BY <1>1, <2>1, EdgeIs, RestsAre
<1>4. CASE k = 1
  <2>1. Unread(Past(k - 1)) = Unread(Edge(m))
    BY <1>1, <1>4, EdgeIs DEF Past
  <2>2. << >> \o Unread(Edge(m)) = Unread(Edge(m)) /\ << >> \in Seq(Whitespace)
    BY <1>3, ConcatEmptySeq
  <2> QED BY <1>2, <2>1, <2>2
<1>5. CASE k # 1
  <2>1. PICK j \in 1 .. Len(script.calls) : j = k - 1 /\ j # 0 /\ 2 * j <= L /\ 2 * j + 1 = m
    <3>1. Len(script.calls) \in Nat
      BY ScriptsAssumption DEF WriterInv
    <3> QED BY <1>1, <1>5, <3>1
  <2>2. PICK w \in Seq(Whitespace) : Unread(Edge(2 * j) + 1) = w \o Unread(Edge(2 * j + 1))
    BY <1>1, <2>1, BehindData
  <2>3. Past(k - 1) = Edge(2 * j) + 1
    BY <1>1, <2>1 DEF Past
  <2> QED BY <1>2, <2>1, <2>2, <2>3
<1> QED BY <1>4, <1>5

LEMMA NumberPartsOf ==
  ASSUME NEW w \in Seq(Whitespace), NEW minus \in BOOLEAN, NEW v \in Seq(Number), NEW e \in Seq(Int),
         NEW g, g = (w \o (SignText(minus) \o v)) \o e \/ g = w \o ((SignText(minus) \o v) \o e),
         e # << >> => e[1] \notin Number,
         e # << >> /\ ~ minus /\ v = << >> => e[1] \notin Whitespace \cup {Minus}
  PROVE  NumberParts(g, w, minus, v, e)
<1>1. PICK a \in Seq(Int), m \in Seq(Int), b \in Seq(Int) : a = w /\ m = SignText(minus) /\ b = v
  <2>1. w \in Seq(Int) /\ v \in Seq(Int)
    BY InSeq, NumberIs
  <2> QED BY <2>1, SignIs
<1>2. (m \o b) \o e = m \o (b \o e)
  BY JoinThree, Zenon
<1>3. (a \o (m \o b)) \o e = a \o ((m \o b) \o e)
  <2>1. PICK y \in Seq(Int) : y = m \o b
    BY JoinIs, Zenon
  <2>2. (a \o y) \o e = a \o (y \o e)
    BY JoinThree, Zenon
  <2> QED BY <2>1, <2>2
<1>4. g = w \o (SignText(minus) \o (v \o e))
  BY <1>1, <1>2, <1>3
<1> QED BY <1>4 DEF NumberParts

LEMMA WordPartsOf ==
  ASSUME NEW w \in Seq(Whitespace), NEW v \in Seq(Int), NEW e \in Seq(Int), NEW max,
         NEW g, g = (w \o v) \o e,
         \A k \in 1 .. Len(v) : v[k] \notin Whitespace, Len(v) <= max,
         e # << >> => e[1] \in Whitespace \/ Len(v) = max,
         e # << >> /\ v = << >> => e[1] \notin Whitespace
  PROVE  WordParts(g, w, v, e, max)
<1>1. PICK a \in Seq(Int) : a = w
  BY InSeq, NumberIs
<1>2. (a \o v) \o e = a \o (v \o e)
  BY JoinThree, Zenon
<1>3. g = w \o (v \o e)
  BY <1>1, <1>2
<1> QED BY <1>3 DEF WordParts

LEMMA WholeRest ==
  ASSUME WriterInv, ReaderInv, reading # "idle"
  PROVE  /\ Unread(from) = Piece(from, taken) \o Unread(taken) /\ Unread(taken) \in Seq(Int)
         /\ from = EndOf(call - 1) /\ taken \in Nat /\ taken <= Len(sent)
<1>1. from \in Nat /\ taken \in Nat /\ from <= taken /\ taken <= Len(sent) /\ from = EndOf(call - 1)
  <2>1. Len(sent) \in Nat
    BY DEF WriterInv
  <2> QED BY <2>1 DEF ReaderInv, ReaderState, Counts, CallInv
<1> QED BY <1>1, RestSplits

(* A call that has come to the end of a number, or of a word, has come to  *)
(* the end of the item that it is for.                                     *)
LEMMA NumberBack ==
  ASSUME WriterInv, ReaderInv, Edges, Done, Fits, EndOf(call - 1) = Past(call - 1), Calling("readInt"),
         Unread(taken) # << >> => Unread(taken)[1] \notin Number,
         Unread(taken) # << >> /\ reading = "whitespace" => Unread(taken)[1] \notin Whitespace \cup {Minus}
  PROVE  /\ Unread(taken) = Unread(Edge(2 * call)) /\ Data(call).kind # "string"
         /\ found /\ (IF neg THEN signed(-val, Bits) ELSE val) = signed(Data(call).value, Bits)
<1>1. PICK w \in Seq(Whitespace), v \in Seq(Number) : NumberSoFar(w, v)
  BY DEF ReaderInv, SoFar
<1>16. PICK g : g = Unread(from)
  OBVIOUS
<1>2. PICK e \in Seq(Int), e0 \in Seq(Int) : e = Unread(taken) /\ e0 = Unread(Edge(2 * call))
  <2>1. Unread(taken) \in Seq(Int)
    BY WholeRest DEF Calling
  <2>2. Unread(Edge(2 * call)) \in Seq(Int)
    BY TheCall, BehindData DEF Calling
  <2> QED BY <2>1, <2>2
<1>3. call \in 1 .. Len(script.calls) /\ script.calls[call].op = "readInt"
  BY TheCall DEF Calling
<1>4. /\ Data(call).kind \in {"int", "uint"} /\ Data(call).kind # "string" /\ Writable(Data(call))
      /\ IsItem(Data(call))
  <2>1. ReadBy(Data(call), script.calls[call]) /\ IsItem(Data(call))
        /\ Data(call).kind \in {"int", "uint", "string"}
    BY <1>3, FitsIs
  <2>2. Data(call).kind # "string"
    BY <1>3, <2>1 DEF ReadBy
  <2> QED BY <2>1, <2>2 DEF ReadBy
<1>5. PICK minus \in BOOLEAN, v0 \in Seq(Number) :
           /\ written(Data(call)) = SignText(minus) \o v0 /\ v0 # << >>
           /\ Data(call).value = IF minus THEN -ValueOf(v0, 10) ELSE ValueOf(v0, 10)
  BY <1>4, NumberData
<1>6. PICK w0 \in Seq(Whitespace) : g = w0 \o ((SignText(minus) \o v0) \o e0)
  <2>1. PICK w0 \in Seq(Whitespace) :
             Unread(Past(call - 1)) = w0 \o (written(Data(call)) \o Unread(Edge(2 * call)))
    BY <1>3, BeforeData
  <2>2. from = Past(call - 1)
    BY WholeRest DEF Calling
  <2> QED BY <1>2, <1>5, <1>16, <2>1, <2>2
<1>7. neg \in BOOLEAN
  BY DEF ReaderInv, ReaderState
<1>8. v \in Seq(Int)
  BY InSeq, NumberIs
<1>9. NumberParts(g, w, neg, v, e)
  <2>1. g = (w \o (SignText(neg) \o v)) \o e
    BY <1>1, <1>2, <1>16, WholeRest DEF NumberSoFar, Calling
  <2>2. e # << >> => e[1] \notin Number
    BY <1>2
  <2>3. e # << >> /\ ~ neg /\ v = << >> => e[1] \notin Whitespace \cup {Minus}
    BY <1>1, <1>2 DEF NumberSoFar
  <2> QED BY <1>7, <2>1, <2>2, <2>3, NumberPartsOf
<1>10. NumberParts(g, w0, minus, v0, e0)
  <2>1. e0 # << >> => e0[1] \notin Number
    BY <1>2, <1>3, BehindData
  <2> QED BY <1>5, <1>6, <2>1, NumberPartsOf
<1>11. neg = minus /\ v = v0 /\ e = e0
  BY <1>9, <1>10, NumberUnique
<1>12. PICK x \in Int : x = ValueOf(v, 10)
  BY <1>8, ValueType
<1>13. found /\ val = signed(x, Bits)
  BY <1>1, <1>5, <1>11, <1>12 DEF NumberSoFar
<1>14. signed(-signed(x, Bits), Bits) = signed(-x, Bits)
  BY BitsType, SignedMinus
<1>15. (IF neg THEN signed(-val, Bits) ELSE val) = signed(Data(call).value, Bits)
  <2>1. Data(call).value = IF neg THEN -x ELSE x
    BY <1>5, <1>11, <1>12
  <2> QED BY <1>13, <1>14, <2>1
<1> QED BY <1>2, <1>4, <1>11, <1>13, <1>15

LEMMA WordBack ==
  ASSUME WriterInv, ReaderInv, Edges, Done, Fits, EndOf(call - 1) = Past(call - 1), Calling("readString"),
         Unread(taken) # << >> =>
           Unread(taken)[1] \in Whitespace \/ Len(word) >= room(script.calls[call].maxLength),
         Unread(taken) # << >> /\ Unread(taken)[1] \in Whitespace => reading = "word"
  PROVE  Unread(taken) = Unread(Edge(2 * call)) /\ Data(call).kind = "string" /\ word = Data(call).text
<1>1. PICK w \in Seq(Whitespace) : WordSoFar(w)
  BY DEF ReaderInv, SoFar
<1>14. PICK g : g = Unread(from)
  OBVIOUS
<1>2. PICK e \in Seq(Int), e0 \in Seq(Int), v \in Seq(Int) :
           e = Unread(taken) /\ e0 = Unread(Edge(2 * call)) /\ v = word
  <2>1. Unread(taken) \in Seq(Int)
    BY WholeRest DEF Calling
  <2>2. Unread(Edge(2 * call)) \in Seq(Int)
    BY TheCall, BehindData DEF Calling
  <2>3. word \in Seq(Int)
    BY DEF ReaderInv, ReaderState
  <2> QED BY <2>1, <2>2, <2>3
<1>3. call \in 1 .. Len(script.calls) /\ script.calls[call].op = "readString"
  BY TheCall DEF Calling
<1>4. PICK max \in Nat : max = script.calls[call].maxLength - 1
                         /\ room(script.calls[call].maxLength) = max
  BY RoomIs
<1>5. /\ Data(call).kind = "string" /\ IsItem(Data(call)) /\ Len(Data(call).text) \in 1 .. max
      /\ \A k \in 1 .. Len(Data(call).text) : Data(call).text[k] \notin Whitespace
  <2>1. ReadBy(Data(call), script.calls[call]) /\ IsItem(Data(call))
        /\ Data(call).kind \in {"int", "uint", "string"}
    BY <1>3, FitsIs
  <2>2. Data(call).kind = "string"
    BY <1>3, <2>1 DEF ReadBy
  <2> QED BY <1>4, <2>1, <2>2 DEF ReadBy
<1>6. PICK v0 \in Seq(Int) : /\ v0 = Data(call).text /\ v0 = written(Data(call)) /\ v0 # << >>
                             /\ Len(v0) <= max /\ \A k \in 1 .. Len(v0) : v0[k] \notin Whitespace
  <2>1. Data(call).text \in Seq(Character) /\ written(Data(call)) = Data(call).text
    BY <1>5 DEF IsItem, written
  <2>2. Data(call).text \in Seq(Int)
    BY <2>1, BytesAreInt DEF Character
  <2>3. Data(call).text # << >>
    BY <1>5
  <2> QED BY <1>5, <2>1, <2>2, <2>3
<1>7. PICK w0 \in Seq(Whitespace) : g = w0 \o (v0 \o e0)
  <2>1. PICK w0 \in Seq(Whitespace) :
             Unread(Past(call - 1)) = w0 \o (written(Data(call)) \o Unread(Edge(2 * call)))
    BY <1>3, BeforeData
  <2>2. from = Past(call - 1)
    BY WholeRest DEF Calling
  <2> QED BY <1>2, <1>6, <1>14, <2>1, <2>2
<1>8. g = (w \o v) \o e
  BY <1>1, <1>2, <1>14, WholeRest DEF WordSoFar, Calling
<1>9. Len(v) <= max /\ \A k \in 1 .. Len(v) : v[k] \notin Whitespace
  BY <1>1, <1>2, <1>4 DEF WordSoFar
<1>10. e # << >> => e[1] \in Whitespace \/ Len(v) = max
  <2>1. Len(v) \in Nat
    OBVIOUS
  <2> QED BY <1>2, <1>4, <1>9, <2>1
<1>11. e # << >> /\ v = << >> => e[1] \notin Whitespace
  BY <1>1, <1>2 DEF WordSoFar
<1>12. e0 # << >> => e0[1] \in Whitespace
  BY <1>2, <1>3, <1>5, BehindData
<1>13. WordParts(g, w, v, e, max)
  BY <1>8, <1>9, <1>10, <1>11, WordPartsOf
<1>15. WordParts(g, w0, v0, e0, max)
  BY <1>6, <1>7, <1>12 DEF WordParts
<1>17. v = v0 /\ e = e0
  BY <1>6, <1>12, <1>13, <1>15, WordUnique
<1> QED BY <1>2, <1>5, <1>6, <1>17

LEMMA ReturnsBack ==
  ASSUME WriterInv, ReaderInv, Edges, BackInv, reading # "idle", NEW dry \in BOOLEAN, Return(dry),
         UNCHANGED <<script, writer, arrived, from>>,
         dry => taken' = taken /\ taken = arrived, ~ dry => taken' = taken + 1 /\ taken < arrived,
         script.waits /\ Fits =>
           /\ Unread(taken) = Unread(Edge(2 * call))
           /\ IF Data(call).kind = "string" THEN word = Data(call).text
              ELSE found /\ (IF neg THEN signed(-val, Bits) ELSE val) = signed(Data(call).value, Bits)
  PROVE  BackInv'
<1>1. UNCHANGED <<script, entry, text, begins, sent, arrived>> /\ call' = call + 1 /\ reading' = "idle"
  BY DEF writer, Return
<1>2. script.waits' = script.waits /\ Fits' = Fits /\ Done' = Done
  BY <1>1 DEF Fits, Data, Done
<1> SUFFICES ASSUME script.waits, Fits PROVE Done' /\ \A k \in 1 .. call' - 1 : Back(k)'
  BY <1>2 DEF BackInv
<1>3. Done /\ arrived = Len(sent)
  BY DEF BackInv, Done
<1>4. PICK c \in Nat \ {0} : c = call /\ results \in Seq(Result) /\ Len(results) = c - 1
                             /\ c \in 1 .. Len(script.calls)
  BY TheCall DEF ReaderInv, CallInv
<1>5. PICK r : /\ r.val = (IF neg THEN signed(-val, Bits) ELSE val) /\ r.found = found /\ r.word = word
               /\ r.to = taken' /\ results' = Append(results, r)
  BY DEF Return
<1>6. results'[c] = r /\ \A k \in 1 .. c - 1 : results'[k] = results[k]
  BY <1>4, <1>5
<1>7. \A k : /\ Edge(k)' = Edge(k) /\ Past(k)' = Past(k) /\ Data(k)' = Data(k)
  BY <1>1 DEF Edge, Past, Data
<1>8. ASSUME NEW k \in 1 .. c - 1 PROVE Back(k)'
  <2>1. Back(k)
    BY <1>4 DEF BackInv
  <2>2. results'[k] = results[k]
    BY <1>6
  <2> QED BY <1>7, <2>1, <2>2 DEF Back, GotBack, EndOf
<1>9. GotBack(c)'
  <2>1. r.found = found /\ r.word = word /\ r.val = (IF neg THEN signed(-val, Bits) ELSE val)
        /\ results'[c] = r
    BY <1>5, <1>6
  <2> QED BY <1>4, <1>7, <2>1 DEF GotBack
<1>10. taken = Edge(2 * c)
  <2>1. Edge(2 * c) \in Nat /\ Edge(2 * c) <= Len(sent)
    BY <1>3, <1>4, BehindData
  <2>2. Len(Unread(Edge(2 * c))) = Len(sent) - Edge(2 * c)
    BY <2>1, RestsAre
  <2>3. taken \in Nat /\ taken <= Len(sent) /\ Len(sent) \in Nat
    BY WholeRest DEF WriterInv
  <2>4. Len(Unread(taken)) = Len(sent) - taken
    BY <2>3, RestsAre
  <2>5. Unread(taken) = Unread(Edge(2 * c))
    BY <1>4
  <2> QED BY <2>1, <2>2, <2>3, <2>4, <2>5
<1>11. taken' = Past(c)
  <2>1. (2 * c <= Len(script.items) => Edge(2 * c) < Len(sent))
        /\ (~ 2 * c <= Len(script.items) => Edge(2 * c) = Len(sent))
    BY <1>3, <1>4, BehindData
  <2>2. Past(c) = IF 2 * c <= Len(script.items) THEN taken + 1 ELSE Len(sent)
    BY <1>4, <1>10 DEF Past
  <2>3. taken \in Nat /\ Len(sent) \in Nat
    BY WholeRest DEF WriterInv
  <2>4. CASE dry
    <3>1. taken' = Len(sent) /\ Edge(2 * c) = Len(sent)
      BY <1>3, <1>10, <2>4
    <3> QED BY <2>1, <2>2, <2>3, <3>1
  <2>5. CASE ~ dry
    <3>1. taken' = taken + 1 /\ Edge(2 * c) # Len(sent)
      BY <1>3, <1>10, <2>3, <2>5
    <3> QED BY <2>1, <2>2, <3>1
  <2> QED BY <2>4, <2>5
<1>12. Back(c)'
  <2>1. EndOf(c)' = taken'
    BY <1>4, <1>5, <1>6 DEF EndOf
  <2> QED BY <1>7, <1>9, <1>11, <2>1 DEF Back
<1>13. \A k \in 1 .. call' - 1 : k \in 1 .. c - 1 \/ k = c
  BY <1>1, <1>4
<1> QED BY <1>2, <1>3, <1>8, <1>12, <1>13

LEMMA BackSoFar ==
  ASSUME ReaderInv, BackInv, script.waits, Fits, reading # "idle"
  PROVE  Done /\ EndOf(call - 1) = Past(call - 1)
<1>1. Done /\ \A k \in 1 .. call - 1 : Back(k)
  BY DEF BackInv
<1>2. call \in Nat \ {0}
  BY DEF ReaderInv, CallInv
<1>3. CASE call = 1
  BY <1>1, <1>3 DEF EndOf, Past
<1>4. CASE call # 1
  <2>1. call - 1 \in 1 .. call - 1
    BY <1>2, <1>4
  <2> QED BY <1>1, <2>1 DEF Back
<1> QED BY <1>1, <1>3, <1>4

(* What the call returns, if it stops where its item ends.                 *)
Returned ==
  /\ Unread(taken) = Unread(Edge(2 * call))
  /\ IF Data(call).kind = "string" THEN word = Data(call).text
     ELSE found /\ (IF neg THEN signed(-val, Bits) ELSE val) = signed(Data(call).value, Bits)

LEMMA DryBack == ASSUME WriterInv, ReaderInv, Edges, BackInv, runDry PROVE BackInv'
<1>1. reading # "idle" /\ Return(TRUE) /\ taken' = taken /\ taken = arrived
      /\ UNCHANGED <<script, writer, arrived, from>>
  BY DEF runDry, noneYet
<1>2. ASSUME script.waits, Fits PROVE Returned
  <2>1. Done /\ EndOf(call - 1) = Past(call - 1)
    BY <1>1, <1>2, BackSoFar
  <2>2. taken \in Nat /\ taken = Len(sent) /\ taken <= Len(sent)
    <3>1. Len(sent) \in Nat
      BY DEF WriterInv
    <3> QED BY <1>1, <2>1, <3>1 DEF Done, ReaderInv, Counts
  <2>3. Unread(taken) = << >>
    BY <2>2, RestsAre
  <2>4. CASE Calling("readInt")
    <3>1. /\ Unread(taken) = Unread(Edge(2 * call)) /\ Data(call).kind # "string"
          /\ found /\ (IF neg THEN signed(-val, Bits) ELSE val) = signed(Data(call).value, Bits)
      BY <1>2, <2>1, <2>3, <2>4, NumberBack
    <3> QED BY <3>1 DEF Returned
  <2>5. CASE Calling("readString")
    <3>1. Unread(taken) = Unread(Edge(2 * call)) /\ Data(call).kind = "string" /\ word = Data(call).text
      BY <1>2, <2>1, <2>3, <2>5, WordBack
    <3> QED BY <3>1 DEF Returned
  <2> QED BY <1>1, <2>4, <2>5, TheCall
<1> QED BY <1>1, <1>2, ReturnsBack DEF Returned

LEMMA NumberEndBack == ASSUME WriterInv, ReaderInv, Edges, BackInv, readEnd PROVE BackInv'
<1>1. Calling("readInt") /\ reading # "idle" /\ Return(FALSE) /\ UNCHANGED <<script, writer, arrived, from>>
  BY DEF readEnd, Calling
<1>2. PICK c : /\ c = sent[taken + 1] /\ c \notin Number
               /\ reading = "whitespace" => c \notin Whitespace \cup {Minus}
  BY DEF readEnd
<1>3. taken < arrived /\ taken' = taken + 1
  BY DEF readEnd, get
<1>4. Unread(taken)[1] = c
  <2>1. taken \in Nat /\ taken < Len(sent) /\ taken <= Len(sent)
    <3>1. Len(sent) \in Nat
      BY DEF WriterInv
    <3> QED BY <1>3, <3>1 DEF ReaderInv, Counts
  <2> QED BY <1>2, <2>1, RestsAre
<1>5. ASSUME script.waits, Fits PROVE Returned
  <2>1. Done /\ EndOf(call - 1) = Past(call - 1)
    BY <1>1, <1>5, BackSoFar
  <2>2. /\ Unread(taken) = Unread(Edge(2 * call)) /\ Data(call).kind # "string"
        /\ found /\ (IF neg THEN signed(-val, Bits) ELSE val) = signed(Data(call).value, Bits)
    BY <1>1, <1>2, <1>4, <1>5, <2>1, NumberBack
  <2> QED BY <2>2 DEF Returned
<1> QED BY <1>1, <1>3, <1>5, ReturnsBack DEF Returned

LEMMA WordEndBack == ASSUME WriterInv, ReaderInv, Edges, BackInv, readWordEnd PROVE BackInv'
<1>1. Calling("readString") /\ reading # "idle" /\ Return(FALSE) /\ UNCHANGED <<script, writer, arrived, from>>
  BY DEF readWordEnd, Calling
<1>2. PICK c : /\ c = sent[taken + 1] /\ (c \in Whitespace => reading = "word")
               /\ c \in Whitespace \/ Len(word) >= room(script.calls[call].maxLength)
  BY DEF readWordEnd
<1>3. taken < arrived /\ taken' = taken + 1
  BY DEF readWordEnd, get
<1>4. Unread(taken)[1] = c
  <2>1. taken \in Nat /\ taken < Len(sent) /\ taken <= Len(sent)
    <3>1. Len(sent) \in Nat
      BY DEF WriterInv
    <3> QED BY <1>3, <3>1 DEF ReaderInv, Counts
  <2> QED BY <1>2, <2>1, RestsAre
<1>5. ASSUME script.waits, Fits PROVE Returned
  <2>1. Done /\ EndOf(call - 1) = Past(call - 1)
    BY <1>1, <1>5, BackSoFar
  <2>2. Unread(taken) = Unread(Edge(2 * call)) /\ Data(call).kind = "string" /\ word = Data(call).text
    BY <1>1, <1>2, <1>4, <1>5, <2>1, WordBack
  <2> QED BY <2>2 DEF Returned
<1> QED BY <1>1, <1>3, <1>5, ReturnsBack DEF Returned

LEMMA GoesOnBack ==
  ASSUME BackInv, UNCHANGED <<script, writer, arrived, call, results>>,
         reading' # "idle" => reading # "idle" \/ (script.waits => Done)
  PROVE  BackInv'
<1>1. UNCHANGED <<entry, text, begins, sent>>
  BY DEF writer
<1>2. Fits' = Fits /\ Done' = Done
  BY <1>1 DEF Fits, Data, Done
<1>3. \A k : Back(k)' = Back(k)
  BY <1>1 DEF Back, GotBack, EndOf, Past, Edge, Data
<1> QED BY <1>2, <1>3 DEF BackInv

LEMMA LineBack == ASSUME WriterInv, ReaderInv, BackInv, Write \/ secPut \/ Arrive PROVE BackInv'
<1>1. script' = script /\ call' = call /\ reading' = reading
  BY DEF Write, secPut, Arrive, reader, writer
<1>2. ~ Done
  <2>1. Len(script.items) \in Nat /\ Len(sent) \in Nat
    BY ScriptsAssumption DEF WriterInv
  <2>2. entry <= Len(script.items) \/ text # << >> \/ arrived < Len(sent)
    BY DEF Write, secPut, Arrive
  <2> QED BY <2>1, <2>2 DEF Done, WriterInv, ReaderInv, Counts
<1>3. Fits' = Fits
  BY <1>1 DEF Fits, Data
<1> SUFFICES ASSUME script.waits, Fits
             PROVE  /\ reading' # "idle" \/ call' # 1 => Done'
                    /\ \A k \in 1 .. call' - 1 : Back(k)'
  BY <1>1, <1>3 DEF BackInv
<1>4. reading = "idle" /\ call = 1
  BY <1>2 DEF BackInv
<1> QED BY <1>1, <1>4

LEMMA BackStep == ASSUME WriterInv, ReaderInv, Edges, BackInv, [StreamNext]_streamVars PROVE BackInv'
<1>1. CASE Write \/ secPut \/ Arrive
  BY <1>1, LineBack
<1>2. CASE Begin
  BY <1>2, GoesOnBack DEF Begin, Done
<1>3. CASE runDry
  BY <1>3, DryBack
<1>4. CASE eatWhitespace
  BY <1>4, GoesOnBack DEF eatWhitespace
<1>5. CASE readSign
  BY <1>5, GoesOnBack DEF readSign, Calling
<1>6. CASE readDigit
  BY <1>6, GoesOnBack DEF readDigit, Calling
<1>7. CASE readChar
  BY <1>7, GoesOnBack DEF readChar, Calling
<1>8. CASE readEnd
  BY <1>8, NumberEndBack
<1>9. CASE readWordEnd
  BY <1>9, WordEndBack
<1>10. CASE UNCHANGED streamVars
  BY <1>10, GoesOnBack DEF streamVars, reader
<1> QED BY <1>1, <1>2, <1>3, <1>4, <1>5, <1>6, <1>7, <1>8, <1>9, <1>10 DEF StreamNext

LEMMA BackStart == StreamInit => BackInv
BY DEF StreamInit, BackInv

LEMMA BackShows == ReaderInv /\ BackInv => ComesBack
<1> SUFFICES ASSUME ReaderInv, BackInv, script.waits, Fits, NEW k \in 1 .. Len(results)
             PROVE  GotBack(k)
  BY DEF ComesBack, GotBack
<1>1. k \in 1 .. call - 1
  BY DEF ReaderInv, CallInv
<1> QED BY <1>1 DEF BackInv, Back

(* A program that waits until the line holds all it wrote, and reads it    *)
(* with the call for each kind, gets back every number and every word that *)
(* it separated by one item: whatever the numbers, words and widths are,   *)
(* no call takes a sign or a character that belongs to the next one.       *)
(* (operator<< of the decimal devices, readInt, readString.)               *)
THEOREM ComesBackCorrect == StreamSpec => []ComesBack
<1>1. StreamInit => WriterInv /\ ReaderInv /\ Edges /\ BackInv
  BY WriterStart, ReaderStart, EdgesStart, BackStart
<1>2. WriterInv /\ ReaderInv /\ Edges /\ BackInv /\ [StreamNext]_streamVars
        => (WriterInv /\ ReaderInv /\ Edges /\ BackInv)'
  BY WriterStep, ReaderStep, EdgesStep, BackStep
<1>3. WriterInv /\ ReaderInv /\ Edges /\ BackInv => ComesBack
  BY BackShows
<1> QED BY <1>1, <1>2, <1>3, PTL DEF StreamSpec
=============================================================================
