------------------------- MODULE CDeviceFrameProofs -------------------------
(***************************************************************************)
(* What the interrupt driven frame layer puts on the line and takes from   *)
(* it, for every character set, every configuration of CFrame, all         *)
(* messages, every size and every way to use the class.                    *)
(***************************************************************************)
EXTENDS CDeviceFrame, SequenceTheorems, WellFoundedInduction, TLAPS

(***************************************************************************)
(* A set of numbers that holds 0 and the successor of each of its members  *)
(* holds all of them.  The rule of the library takes a predicate for a     *)
(* parameter; that < is well-founded is stated with sets alone.            *)
(***************************************************************************)
LEMMA Induction ==
  ASSUME NEW T, 0 \in T, \A n \in Nat : n \in T => n + 1 \in T
  PROVE  Nat \subseteq T
<1>1. ASSUME NEW n \in Nat \ T PROVE FALSE
  <2>1. PICK m \in Nat \ T : \A k \in Nat \ T : ~ (<<k, m>> \in OpToRel(<, Nat))
    BY <1>1, NatLessThanWellFounded, WFMin
  <2>2. \A k \in Nat \ T : ~ (k < m)
    BY <2>1 DEF OpToRel
  <2>3. m # 0 /\ m - 1 \in Nat /\ m - 1 \notin Nat \ T
    BY <2>2
  <2> QED BY <2>3
<1> QED BY <1>1

(* f is the recursive function in the definition of FlattenSeq.            *)
Flat(f, ss, n) == f = [i \in 1 .. n |-> IF i = 1 THEN ss[i] ELSE f[i-1] \o ss[i]]

LEMMA FlatStep ==
  ASSUME NEW f, NEW ss, NEW n \in Nat, Flat(f, ss, n)
  PROVE  /\ n > 0 => f[1] = ss[1]
         /\ \A i \in 1 .. n : i # 1 => f[i] = f[i-1] \o ss[i]
<1> DEFINE h == [i \in 1 .. n |-> IF i = 1 THEN ss[i] ELSE f[i-1] \o ss[i]]
<1>1. f = h
  BY DEF Flat
<1>2. \A i \in 1 .. n : h[i] = IF i = 1 THEN ss[i] ELSE f[i-1] \o ss[i]
  OBVIOUS
<1> HIDE DEF h
<1>3. \A i \in 1 .. n : f[i] = IF i = 1 THEN ss[i] ELSE f[i-1] \o ss[i]
  BY <1>1, <1>2
<1>4. n > 0 => 1 \in 1 .. n
  OBVIOUS
<1> QED BY <1>3, <1>4, Zenon

LEMMA FlatExists == ASSUME NEW ss PROVE \A n \in Nat : \E f : Flat(f, ss, n)
<1> DEFINE T == {n \in Nat : \E f : Flat(f, ss, n)}
<1>1. 0 \in T
  <2> DEFINE f == [i \in 1 .. 0 |-> << >>]
  <2>1. Flat(f, ss, 0)
    BY DEF Flat
  <2> QED BY <2>1
<1>2. ASSUME NEW n \in Nat, n \in T PROVE n + 1 \in T
  <2>1. PICK f : Flat(f, ss, n)
    BY <1>2
  <2> DEFINE h(i) == IF i = 1 THEN ss[i] ELSE f[i-1] \o ss[i]
             g == [i \in 1 .. n + 1 |-> h(i)]
  <2>2. \A i \in 1 .. n : f[i] = h(i)
    <3>1. n > 0 \/ \A i \in 1 .. n : FALSE
      OBVIOUS
    <3> QED BY <2>1, <3>1, FlatStep, Zenon
  <2>3. \A i \in 1 .. n + 1 : i # 1 => i - 1 \in 1 .. n
    OBVIOUS
  <2>4. \A i \in 1 .. n + 1 : g[i] = h(i)
    BY Zenon
  <2>5. \A i \in 1 .. n : g[i] = h(i)
    BY <2>4
  <2>6. \A i \in 1 .. n : g[i] = f[i]
    BY <2>2, <2>5
  <2> HIDE DEF g
  <2>7. \A i \in 1 .. n + 1 : h(i) = IF i = 1 THEN ss[i] ELSE g[i-1] \o ss[i]
    BY <2>3, <2>6
  <2> HIDE DEF h
  <2>8. g = [i \in 1 .. n + 1 |-> IF i = 1 THEN ss[i] ELSE g[i-1] \o ss[i]]
    BY <2>7, Zenon DEF g
  <2>9. Flat(g, ss, n + 1)
    BY <2>8, Zenon DEF Flat
  <2>10. n + 1 \in Nat
    OBVIOUS
  <2> QED BY <2>9, <2>10
<1> HIDE DEF T
<1>3. Nat \subseteq T
  BY <1>1, <1>2, Induction
<1> QED BY <1>3 DEF T

LEMMA FlattenFlat ==
  ASSUME NEW S, NEW ss \in Seq(S), ss # << >>
  PROVE  \E f : Flat(f, ss, Len(ss)) /\ FlattenSeq(ss) = f[Len(ss)]
<1> DEFINE n == Len(ss)
           g == CHOOSE f : f = [i \in 1 .. n |-> IF i = 1 THEN ss[i] ELSE f[i-1] \o ss[i]]
<1>1. n \in Nat /\ n # 0
  OBVIOUS
<1>2. FlattenSeq(ss) = g[n]
  BY <1>1, Zenon DEF FlattenSeq
<1>3. \E f : Flat(f, ss, n)
  BY <1>1, FlatExists
<1>4. Flat(g, ss, n)
  BY <1>3, Zenon DEF Flat
<1> QED BY <1>2, <1>4

LEMMA FlattenEmpty == FlattenSeq(<< >>) = << >>
<1>1. Len(<< >>) = 0
  OBVIOUS
<1> QED BY <1>1, Zenon DEF FlattenSeq

LEMMA FlatAgree ==
  ASSUME NEW S, NEW ss \in Seq(Seq(S)), NEW tt, NEW k \in Nat, NEW f, NEW g,
         Flat(f, ss, Len(ss)), Flat(g, tt, k), Len(ss) <= k,
         \A i \in 1 .. Len(ss) : tt[i] = ss[i]
  PROVE  \A i \in 1 .. Len(ss) : f[i] = g[i] /\ f[i] \in Seq(S)
<1> DEFINE n == Len(ss)
           T == {j \in Nat : j + 1 \in 1 .. n => f[j + 1] = g[j + 1] /\ f[j + 1] \in Seq(S)}
<1>1. n \in Nat /\ \A i \in 1 .. n : ss[i] \in Seq(S)
  OBVIOUS
<1>2. /\ n > 0 => f[1] = ss[1]
      /\ \A i \in 1 .. n : i # 1 => f[i] = f[i-1] \o ss[i]
  BY <1>1, FlatStep, Zenon
<1>3. /\ k > 0 => g[1] = tt[1]
      /\ \A i \in 1 .. k : i # 1 => g[i] = g[i-1] \o tt[i]
  BY FlatStep, Zenon
<1>4. 0 \in T
  <2>1. 0 + 1 = 1 /\ (1 \in 1 .. n => n > 0 /\ k > 0)
    BY <1>1
  <2> QED BY <2>1, <1>1, <1>2, <1>3
<1>5. ASSUME NEW j \in Nat, j \in T PROVE j + 1 \in T
  <2>1. (j + 1) + 1 = j + 2 /\ (j + 2) - 1 = j + 1
    OBVIOUS
  <2> SUFFICES ASSUME j + 2 \in 1 .. n PROVE f[j + 2] = g[j + 2] /\ f[j + 2] \in Seq(S)
    BY <2>1
  <2>2. f[j + 2] = f[j + 1] \o ss[j + 2] /\ g[j + 2] = g[j + 1] \o tt[j + 2]
    <3>1. j + 2 # 1 /\ j + 2 \in 1 .. k
      BY <1>1
    <3> QED BY <1>2, <1>3, <2>1, <3>1
  <2>3. f[j + 1] = g[j + 1] /\ f[j + 1] \in Seq(S)
    BY <1>5, <1>1
  <2>4. ss[j + 2] \in Seq(S) /\ tt[j + 2] = ss[j + 2]
    BY <1>1
  <2>5. f[j + 2] = g[j + 2]
    BY <2>2, <2>3, <2>4
  <2> HIDE DEF T
  <2> QED BY <2>2, <2>3, <2>4, <2>5
<1> HIDE DEF T
<1>6. Nat \subseteq T
  BY <1>4, <1>5, Induction
<1>7. ASSUME NEW i \in 1 .. n PROVE f[i] = g[i] /\ f[i] \in Seq(S)
  <2>1. i - 1 \in Nat /\ (i - 1) + 1 = i
    BY <1>1
  <2>2. i - 1 \in T
    BY <2>1, <1>6
  <2> QED BY <2>1, <2>2 DEF T
<1> QED BY <1>7

LEMMA FlattenAppend ==
  ASSUME NEW S, NEW ss \in Seq(Seq(S)), NEW s \in Seq(S)
  PROVE  /\ FlattenSeq(ss) \in Seq(S)
         /\ FlattenSeq(Append(ss, s)) = FlattenSeq(ss) \o s
<1> DEFINE n == Len(ss)
           tt == Append(ss, s)
<1>1. /\ n \in Nat /\ Len(tt) = n + 1 /\ tt[n + 1] = s /\ tt \in Seq(Seq(S)) /\ tt # << >>
      /\ \A i \in 1 .. n : tt[i] = ss[i]
  BY AppendProperties, LenProperties
<1> HIDE DEF n, tt
<1>2. PICK g : Flat(g, tt, Len(tt)) /\ FlattenSeq(tt) = g[Len(tt)]
  BY <1>1, FlattenFlat
<1>3. /\ g[1] = tt[1]
      /\ \A i \in 1 .. n + 1 : i # 1 => g[i] = g[i-1] \o tt[i]
  <2>1. n + 1 \in Nat /\ n + 1 > 0
    BY <1>1
  <2>2. Flat(g, tt, n + 1)
    BY <1>1, <1>2
  <2> HIDE DEF n
  <2> QED BY <2>1, <2>2, FlatStep, Zenon
<1>4. CASE n = 0
  <2>1. ss = << >> /\ n + 1 = 1
    BY <1>4, EmptySeq DEF n
  <2>2. FlattenSeq(tt) = s
    BY <1>1, <1>2, <1>3, <2>1
  <2>3. FlattenSeq(ss) = << >>
    BY <2>1, FlattenEmpty
  <2> QED BY <2>2, <2>3, ConcatEmptySeq DEF tt
<1>5. CASE n # 0
  <2>1. PICK f : Flat(f, ss, n) /\ FlattenSeq(ss) = f[n]
    <3>1. ss # << >>
      BY <1>5, EmptySeq DEF n
    <3> QED BY <3>1, FlattenFlat DEF n
  <2>2. n \in 1 .. n /\ n + 1 \in 1 .. n + 1 /\ n + 1 # 1 /\ n <= n + 1 /\ (n + 1) - 1 = n
    BY <1>1, <1>5
  <2>3. f[n] = g[n] /\ f[n] \in Seq(S)
    <3>1. \A i \in 1 .. Len(ss) : f[i] = g[i] /\ f[i] \in Seq(S)
      <4>1. Flat(g, tt, n + 1) /\ n + 1 \in Nat
        BY <1>1, <1>2
      <4>2. Len(ss) <= n + 1 /\ Flat(f, ss, Len(ss)) /\ \A i \in 1 .. Len(ss) : tt[i] = ss[i]
        BY <1>1, <2>1, <2>2 DEF n
      <4> QED BY <4>1, <4>2, FlatAgree
    <3> QED BY <3>1, <2>2 DEF n
  <2>4. g[n + 1] = g[n] \o s
    BY <1>3, <1>1, <2>2
  <2> QED BY <1>1, <1>2, <2>1, <2>3, <2>4 DEF tt
<1> QED BY <1>4, <1>5
-----------------------------------------------------------------------------
(* The first frames, or the first characters of one, of those in ss.       *)
UpTo(ss, i) == FlattenSeq(SubSeq(ss, 1, i))

Extends(S, s, t) == \E u \in Seq(S) : t = s \o u

LEMMA ExtendsTransitive ==
  ASSUME NEW S, NEW r \in Seq(S), NEW s, NEW t, Extends(S, r, s), Extends(S, s, t)
  PROVE  Extends(S, r, t)
<1>1. PICK u \in Seq(S), v \in Seq(S) : s = r \o u /\ t = s \o v
  BY DEF Extends
<1>2. t = r \o (u \o v) /\ u \o v \in Seq(S)
  BY <1>1, ConcatAssociative, ConcatProperties
<1> QED BY <1>2 DEF Extends

LEMMA ExtendsConcat ==
  ASSUME NEW S, NEW r \in Seq(S), NEW s \in Seq(S), NEW t, Extends(S, s, t)
  PROVE  Extends(S, r \o s, r \o t)
<1>1. PICK u \in Seq(S) : t = s \o u
  BY DEF Extends
<1>2. r \o t = (r \o s) \o u
  BY <1>1, ConcatAssociative
<1> QED BY <1>2 DEF Extends

LEMMA ExtendsPrefix ==
  ASSUME NEW S, NEW s \in Seq(S), NEW t, Extends(S, s, t)
  PROVE  IsPrefix(s, t)
<1>1. PICK u \in Seq(S) : t = s \o u
  BY DEF Extends
<1>2. Len(s) \in Nat /\ Len(u) \in Nat /\ Len(t) = Len(s) + Len(u)
  BY <1>1, ConcatProperties, LenProperties
<1>3. SubSeq(s, 1, Len(s)) = SubSeq(t, 1, Len(s))
  <2>1. CASE Len(s) = 0
    BY <2>1, SubSeqEmpty
  <2>2. CASE Len(s) # 0
    BY <1>1, <1>2, <2>2, SubSeqOfConcat1
  <2> QED BY <2>1, <2>2
<1> QED BY <1>2, <1>3 DEF IsPrefix

LEMMA AppendExtends ==
  ASSUME NEW S, NEW s \in Seq(S), NEW c \in S
  PROVE  /\ Append(s, c) = s \o <<c>> /\ <<c>> \in Seq(S)
         /\ Append(s, c) \in Seq(S) /\ Extends(S, s, Append(s, c))
<1>1. Append(s, c) = s \o <<c>> /\ <<c>> \in Seq(S) /\ Append(s, c) \in Seq(S)
  BY AppendIsConcat
<1> QED BY <1>1 DEF Extends

LEMMA ExtendsItself ==
  ASSUME NEW S, NEW s \in Seq(S) PROVE Extends(S, s, s)
<1>1. s = s \o << >> /\ << >> \in Seq(S)
  BY ConcatEmptySeq
<1> QED BY <1>1 DEF Extends

LEMMA UpToNext ==
  ASSUME NEW S, NEW ss \in Seq(Seq(S)), NEW i \in 0 .. Len(ss) - 1
  PROVE  /\ UpTo(ss, i) \in Seq(S)
         /\ UpTo(ss, i + 1) \in Seq(S)
         /\ UpTo(ss, i + 1) = UpTo(ss, i) \o ss[i + 1]
         /\ Extends(S, UpTo(ss, i), UpTo(ss, i + 1))
<1> DEFINE rr == SubSeq(ss, 1, i)
<1>1. Len(ss) \in Nat /\ i + 1 \in 1 .. Len(ss) /\ ss[i + 1] \in Seq(S) /\ (i + 1) - 1 = i
  BY LenProperties, ElementOfSeq
<1>2. rr \in Seq(Seq(S))
  BY <1>1
<1>3. SubSeq(ss, 1, i + 1) = Append(rr, ss[i + 1])
  <2>1. SubSeq(ss, 1, i + 1) = SubSeq(ss, 1, (i + 1) - 1) \o << ss[i + 1] >>
    BY <1>1, SubSeqRecursiveSecond, 1 \in 1 .. Len(ss), i + 1 \in 1 .. Len(ss)
  <2> QED BY <2>1, <1>1, <1>2, AppendIsConcat
<1> HIDE DEF rr
<1>4. /\ FlattenSeq(rr) \in Seq(S)
      /\ FlattenSeq(Append(rr, ss[i + 1])) = FlattenSeq(rr) \o ss[i + 1]
  BY <1>1, <1>2, FlattenAppend
<1>5. FlattenSeq(rr) \o ss[i + 1] \in Seq(S)
  BY <1>1, <1>4, ConcatProperties
<1> QED BY <1>1, <1>3, <1>4, <1>5 DEF UpTo, Extends, rr

LEMMA UpToAll ==
  ASSUME NEW S, NEW ss \in Seq(Seq(S))
  PROVE  /\ UpTo(ss, 0) = << >> /\ UpTo(ss, Len(ss)) = FlattenSeq(ss)
         /\ FlattenSeq(ss) \in Seq(S)
         /\ \A i \in 0 .. Len(ss) : UpTo(ss, i) \in Seq(S)
<1>1. Len(ss) \in Nat
  BY LenProperties
<1>2. UpTo(ss, 0) = << >>
  <2>1. SubSeq(ss, 1, 0) = << >>
    BY SubSeqEmpty, 0 \in Int, 1 \in Int, 0 < 1
  <2> QED BY <2>1, FlattenEmpty, Zenon DEF UpTo
<1>3. UpTo(ss, Len(ss)) = FlattenSeq(ss)
  BY SubSeqFull DEF UpTo
<1>4. ASSUME NEW i \in 0 .. Len(ss) PROVE UpTo(ss, i) \in Seq(S)
  <2>1. CASE i = 0
    BY <2>1, <1>2, EmptySeq
  <2>2. CASE i # 0
    <3>1. i - 1 \in 0 .. Len(ss) - 1 /\ (i - 1) + 1 = i
      BY <1>1, <2>2
    <3> QED BY <3>1, UpToNext
  <2> QED BY <2>1, <2>2
<1>5. Len(ss) \in 0 .. Len(ss)
  BY <1>1
<1> QED BY <1>2, <1>3, <1>4, <1>5

LEMMA UpToExtends ==
  ASSUME NEW S, NEW ss \in Seq(Seq(S)), NEW i \in 0 .. Len(ss)
  PROVE  Extends(S, UpTo(ss, i), FlattenSeq(ss))
<1> DEFINE T == {n \in Nat : i + n <= Len(ss) => Extends(S, UpTo(ss, i), UpTo(ss, i + n))}
<1>1. Len(ss) \in Nat /\ UpTo(ss, i) \in Seq(S) /\ UpTo(ss, Len(ss)) = FlattenSeq(ss)
  BY LenProperties, UpToAll
<1>2. 0 \in T
  <2>1. i + 0 = i
    OBVIOUS
  <2> QED BY <2>1, <1>1, ExtendsItself
<1>3. ASSUME NEW n \in Nat, n \in T PROVE n + 1 \in T
  <2> SUFFICES ASSUME i + (n + 1) <= Len(ss)
               PROVE  Extends(S, UpTo(ss, i), UpTo(ss, i + (n + 1)))
    OBVIOUS
  <2>1. i + n <= Len(ss) /\ i + n \in 0 .. Len(ss) - 1 /\ i + (n + 1) = (i + n) + 1
    BY <1>1
  <2>2. Extends(S, UpTo(ss, i + n), UpTo(ss, (i + n) + 1))
    BY <2>1, UpToNext
  <2>3. Extends(S, UpTo(ss, i), UpTo(ss, i + n))
    BY <1>3, <2>1
  <2> HIDE DEF T
  <2> QED BY <1>1, <2>1, <2>2, <2>3, ExtendsTransitive
<1> HIDE DEF T
<1>4. Nat \subseteq T
  BY <1>2, <1>3, Induction
<1>5. Len(ss) - i \in T /\ i + (Len(ss) - i) = Len(ss)
  BY <1>1, <1>4
<1> QED BY <1>1, <1>5 DEF T

-----------------------------------------------------------------------------
Stuff(c) == IF c \in Stuffed THEN <<esc, Mod[c]>> ELSE <<c>>
Stuffing(m) == [k \in DOMAIN m |-> Stuff(m[k])]

(* The frame of m when the first i characters of m are out and the machine *)
(* that sends it is in state t.                                            *)
Begun(m, i, t) ==
  LET s == <<sofr>> \o UpTo(Stuffing(m), i) IN IF t = "stuff" THEN Append(s, esc) ELSE s

LEMMA Chars ==
  /\ sofr \in Stuffed /\ eofr \in Stuffed /\ esc \in Stuffed /\ Flow \subseteq Stuffed
  /\ Stuffed \subseteq Char
  /\ sofr # eofr /\ sofr # esc /\ eofr # esc
  /\ sofr \notin Flow /\ eofr \notin Flow /\ esc \notin Flow
  /\ \A c \in Char : Mod[c] \in Char /\ Mod[Mod[c]] = c
  /\ \A c \in Stuffed : Mod[c] # sofr
BY CharAssumption, ModAssumption DEF Stuffed

LEMMA StuffingType ==
  ASSUME NEW m \in Seq(Char)
  PROVE  /\ Stuffing(m) \in Seq(Seq(Char)) /\ Len(Stuffing(m)) = Len(m)
         /\ \A k \in 1 .. Len(m) : Stuffing(m)[k] = Stuff(m[k]) /\ m[k] \in Char
<1>1. Len(m) \in Nat /\ DOMAIN m = 1 .. Len(m) /\ \A k \in 1 .. Len(m) : m[k] \in Char
  BY LenProperties, ElementOfSeq
<1>2. \A c \in Char : Stuff(c) \in Seq(Char)
  <2>1. ASSUME NEW c \in Char PROVE Stuff(c) \in Seq(Char)
    <3>1. <<c>> \in Seq(Char) /\ <<esc, Mod[c]>> \in Seq(Char)
      BY Chars
    <3> QED BY <3>1, Zenon DEF Stuff
  <2> QED BY <2>1
<1>3. Stuffing(m) = [k \in 1 .. Len(m) |-> Stuff(m[k])]
  BY <1>1, Zenon DEF Stuffing
<1> DEFINE e(k) == Stuff(m[k])
<1>4. \A k \in 1 .. Len(m) : e(k) \in Seq(Char)
  BY <1>1, <1>2
<1> HIDE DEF e
<1>5. Len([k \in 1 .. Len(m) |-> e(k)]) = Len(m) /\ [k \in 1 .. Len(m) |-> e(k)] \in Seq(Seq(Char))
      /\ \A k \in 1 .. Len(m) : [j \in 1 .. Len(m) |-> e(j)][k] = e(k)
  BY <1>1, <1>4
<1> QED BY <1>1, <1>3, <1>5 DEF e

LEMMA EncodeIs ==
  ASSUME NEW m \in Seq(Char)
  PROVE  /\ Encode(m) = (<<sofr>> \o FlattenSeq(Stuffing(m))) \o <<eofr>>
         /\ Encode(m) \in Seq(Char)
<1>1. Stuffing(m) = [k \in DOMAIN m |-> IF m[k] \in Stuffed THEN <<esc, Mod[m[k]]>> ELSE <<m[k]>>]
  BY Zenon DEF Stuffing, Stuff
<1>2. FlattenSeq(Stuffing(m)) \in Seq(Char)
  BY StuffingType, UpToAll
<1>3. <<sofr>> \in Seq(Char) /\ <<eofr>> \in Seq(Char)
  BY Chars
<1>4. /\ Encode(m) = <<sofr>> \o FlattenSeq(Stuffing(m)) \o <<eofr>>
  BY <1>1, Zenon DEF Encode
<1>5. (<<sofr>> \o FlattenSeq(Stuffing(m))) \o <<eofr>> \in Seq(Char)
  BY <1>2, <1>3, ConcatProperties
<1> QED BY <1>4, <1>5

LEMMA BegunType ==
  ASSUME NEW m \in Seq(Char), NEW i \in 0 .. Len(m), NEW t
  PROVE  /\ Begun(m, i, t) \in Seq(Char)
         /\ t # "stuff" => Begun(m, i, t) = Begun(m, i, "regular")
         /\ t = "stuff" => /\ Begun(m, i, t) = Append(Begun(m, i, "regular"), esc)
                           /\ Extends(Char, Begun(m, i, "regular"), Begun(m, i, t))
<1> DEFINE s == <<sofr>> \o UpTo(Stuffing(m), i)
<1>1. s \in Seq(Char)
  <2>1. UpTo(Stuffing(m), i) \in Seq(Char)
    BY StuffingType, UpToAll
  <2>2. <<sofr>> \in Seq(Char)
    BY Chars
  <2> QED BY <2>1, <2>2, ConcatProperties
<1>2. Begun(m, i, "regular") = s /\ Begun(m, i, t) = IF t = "stuff" THEN Append(s, esc) ELSE s
  BY Zenon DEF Begun
<1> HIDE DEF s
<1>3. esc \in Char
  BY Chars
<1> QED BY <1>1, <1>2, <1>3, AppendExtends

(* A character of the message, plain or in two, and the end of the frame.  *)
LEMMA BegunNext ==
  ASSUME NEW m \in Seq(Char), NEW i \in 0 .. Len(m) - 1
  PROVE  /\ m[i + 1] \notin Stuffed =>
              Begun(m, i + 1, "regular") = Append(Begun(m, i, "regular"), m[i + 1])
         /\ m[i + 1] \in Stuffed =>
              Begun(m, i + 1, "regular") = Append(Begun(m, i, "stuff"), Mod[m[i + 1]])
<1> DEFINE a == UpTo(Stuffing(m), i)
           c == m[i + 1]
<1>1. /\ Len(m) \in Nat /\ i + 1 \in 1 .. Len(m) /\ i \in 0 .. Len(Stuffing(m)) - 1
      /\ i \in 0 .. Len(m)
  BY LenProperties, StuffingType
<1>2. a \in Seq(Char) /\ UpTo(Stuffing(m), i + 1) = a \o Stuff(c) /\ c \in Char
  <2>1. Stuffing(m)[i + 1] = Stuff(c) /\ c \in Char
    BY <1>1, StuffingType
  <2> QED BY <1>1, <2>1, StuffingType, UpToNext
<1>3. <<sofr>> \in Seq(Char) /\ <<c>> \in Seq(Char) /\ <<esc>> \in Seq(Char)
      /\ <<Mod[c]>> \in Seq(Char) /\ esc \in Char /\ Mod[c] \in Char
  BY <1>2, Chars
<1> DEFINE b == Begun(m, i, "regular")
<1>4. b = <<sofr>> \o a /\ b \in Seq(Char)
  <2>1. b = <<sofr>> \o a
    BY Zenon DEF Begun
  <2> QED BY <2>1, <1>2, <1>3, ConcatProperties
<1>5. Begun(m, i + 1, "regular") = <<sofr>> \o UpTo(Stuffing(m), i + 1)
  BY Zenon DEF Begun
<1>6. Begun(m, i, "stuff") = Append(b, esc)
  BY <1>1, BegunType
<1> HIDE DEF a, b, c
<1>7. CASE c \notin Stuffed
  <2>1. Stuff(c) = <<c>>
    BY <1>7, Zenon DEF Stuff
  <2>2. Begun(m, i + 1, "regular") = b \o <<c>>
    <3>1. (<<sofr>> \o a) \o <<c>> = <<sofr>> \o (a \o <<c>>)
      BY <1>2, <1>3, ConcatAssociative
    <3> QED BY <1>2, <1>4, <1>5, <2>1, <3>1, Zenon
  <2>3. Begun(m, i + 1, "regular") = Append(b, c)
    BY <1>2, <1>4, <2>2, AppendExtends
  <2> QED BY <2>3, <1>7 DEF b, c
<1>8. CASE c \in Stuffed
  <2>1. Stuff(c) = <<esc, Mod[c]>>
    BY <1>8, Zenon DEF Stuff
  <2>2. <<esc, Mod[c]>> = <<esc>> \o <<Mod[c]>>
    BY <1>3
  <2>3. Begun(m, i + 1, "regular") = b \o (<<esc>> \o <<Mod[c]>>)
    <3>1. <<esc, Mod[c]>> \in Seq(Char)
      BY <1>3
    <3>2. (<<sofr>> \o a) \o <<esc, Mod[c]>> = <<sofr>> \o (a \o <<esc, Mod[c]>>)
      BY <1>2, <1>3, <3>1, ConcatAssociative
    <3> QED BY <1>2, <1>4, <1>5, <2>1, <2>2, <3>2, Zenon
  <2>4. b \o (<<esc>> \o <<Mod[c]>>) = Append(Append(b, esc), Mod[c])
    <3>1. Append(b, esc) = b \o <<esc>> /\ Append(b, esc) \in Seq(Char)
      BY <1>3, <1>4, AppendExtends
    <3>2. Append(Append(b, esc), Mod[c]) = (b \o <<esc>>) \o <<Mod[c]>>
      BY <1>3, <3>1, AppendExtends
    <3> QED BY <1>3, <1>4, <3>2, ConcatAssociative
  <2> QED BY <1>6, <1>8, <2>3, <2>4 DEF b, c
<1> QED BY <1>7, <1>8

LEMMA BegunEnds ==
  ASSUME NEW m \in Seq(Char)
  PROVE  /\ Begun(m, 0, "regular") = <<sofr>>
         /\ Encode(m) = Append(Begun(m, Len(m), "regular"), eofr)
         /\ \A i \in 0 .. Len(m) : Extends(Char, Begun(m, i, "regular"), Encode(m))
         /\ \A i \in 0 .. Len(m) - 1 :
              m[i + 1] \in Stuffed => Extends(Char, Begun(m, i, "stuff"), Encode(m))
<1> DEFINE ss == Stuffing(m)
<1>1. /\ Len(m) \in Nat /\ ss \in Seq(Seq(Char)) /\ Len(ss) = Len(m)
      /\ <<sofr>> \in Seq(Char) /\ <<eofr>> \in Seq(Char) /\ eofr \in Char
  BY LenProperties, StuffingType, Chars
<1>2. \A i : Begun(m, i, "regular") = <<sofr>> \o UpTo(ss, i)
  BY Zenon DEF Begun
<1>3. \A i \in 0 .. Len(m) : Begun(m, i, "regular") \in Seq(Char)
  BY BegunType
<1> HIDE DEF ss
<1>4. UpTo(ss, 0) = << >> /\ UpTo(ss, Len(m)) = FlattenSeq(ss)
  BY <1>1, UpToAll
<1>5. Begun(m, 0, "regular") = <<sofr>>
  BY <1>1, <1>2, <1>4, ConcatEmptySeq
<1>6. Encode(m) = Begun(m, Len(m), "regular") \o <<eofr>>
  BY <1>2, <1>4, EncodeIs, Zenon DEF ss
<1>7. Begun(m, Len(m), "regular") \in Seq(Char)
  BY <1>1, <1>3
<1>8. Encode(m) = Append(Begun(m, Len(m), "regular"), eofr)
  BY <1>1, <1>6, <1>7, AppendExtends
<1>9. ASSUME NEW i \in 0 .. Len(m) PROVE Extends(Char, Begun(m, i, "regular"), Encode(m))
  <2>1. UpTo(ss, i) \in Seq(Char)
    BY <1>1, UpToAll
  <2>2. Extends(Char, UpTo(ss, i), FlattenSeq(ss))
    BY <1>1, UpToExtends
  <2>3. Extends(Char, Begun(m, i, "regular"), Begun(m, Len(m), "regular"))
    BY <1>1, <1>2, <1>4, <2>1, <2>2, ExtendsConcat
  <2>4. Extends(Char, Begun(m, Len(m), "regular"), Encode(m))
    BY <1>1, <1>7, <1>8, AppendExtends
  <2> QED BY <1>3, <2>3, <2>4, ExtendsTransitive
<1>10. ASSUME NEW i \in 0 .. Len(m) - 1, m[i + 1] \in Stuffed
       PROVE  Extends(Char, Begun(m, i, "stuff"), Encode(m))
  <2>1. i \in 0 .. Len(m) /\ i + 1 \in 0 .. Len(m) /\ i + 1 \in 1 .. Len(m)
    BY <1>1
  <2>2. Begun(m, i, "stuff") \in Seq(Char)
    BY <2>1, BegunType
  <2>3. Mod[m[i + 1]] \in Char
    BY <2>1, Chars, ElementOfSeq
  <2>4. Extends(Char, Begun(m, i, "stuff"), Begun(m, i + 1, "regular"))
    <3>1. Begun(m, i + 1, "regular") = Append(Begun(m, i, "stuff"), Mod[m[i + 1]])
      BY <1>10, BegunNext
    <3>2. Extends(Char, Begun(m, i, "stuff"), Append(Begun(m, i, "stuff"), Mod[m[i + 1]]))
      BY <2>2, <2>3, AppendExtends
    <3> QED BY <3>1, <3>2
  <2> QED BY <1>9, <2>1, <2>2, <2>4, ExtendsTransitive
<1> QED BY <1>5, <1>8, <1>9, <1>10

-----------------------------------------------------------------------------
Frames(ms) == [k \in DOMAIN ms |-> Encode(ms[k])]

LEMMA FramesType ==
  ASSUME NEW ms \in Seq(Seq(Char))
  PROVE  /\ Frames(ms) \in Seq(Seq(Char)) /\ Len(Frames(ms)) = Len(ms)
         /\ \A k \in 1 .. Len(ms) : Frames(ms)[k] = Encode(ms[k])
         /\ EncodeAll(ms) = FlattenSeq(Frames(ms)) /\ EncodeAll(ms) \in Seq(Char)
<1>1. Len(ms) \in Nat /\ DOMAIN ms = 1 .. Len(ms) /\ \A k \in 1 .. Len(ms) : ms[k] \in Seq(Char)
  BY LenProperties, ElementOfSeq
<1> DEFINE e(k) == Encode(ms[k])
<1>2. \A k \in 1 .. Len(ms) : e(k) \in Seq(Char)
  BY <1>1, EncodeIs
<1>3. Frames(ms) = [k \in 1 .. Len(ms) |-> e(k)] /\ EncodeAll(ms) = FlattenSeq(Frames(ms))
  BY <1>1, Zenon DEF Frames, EncodeAll
<1> HIDE DEF e
<1>4. /\ [k \in 1 .. Len(ms) |-> e(k)] \in Seq(Seq(Char))
      /\ Len([k \in 1 .. Len(ms) |-> e(k)]) = Len(ms)
      /\ \A k \in 1 .. Len(ms) : [j \in 1 .. Len(ms) |-> e(j)][k] = e(k)
  BY <1>1, <1>2
<1>5. Frames(ms) \in Seq(Seq(Char))
  BY <1>3, <1>4
<1>6. FlattenSeq(Frames(ms)) \in Seq(Char)
  BY <1>5, UpToAll
<1> QED BY <1>3, <1>4, <1>5, <1>6 DEF e

LEMMA EncodeAppend ==
  ASSUME NEW ms \in Seq(Seq(Char)), NEW m \in Seq(Char)
  PROVE  EncodeAll(Append(ms, m)) = EncodeAll(ms) \o Encode(m)
<1> DEFINE ns == Append(ms, m)
           n  == Len(ms)
<1>1. /\ ns \in Seq(Seq(Char)) /\ Len(ns) = n + 1 /\ n \in Nat
      /\ ns[n + 1] = m /\ \A k \in 1 .. n : ns[k] = ms[k]
  BY AppendProperties, LenProperties
<1> HIDE DEF ns, n
<1>2. /\ Frames(ms) \in Seq(Seq(Char)) /\ Len(Frames(ms)) = n
      /\ \A k \in 1 .. n : Frames(ms)[k] = Encode(ms[k])
  BY FramesType DEF n
<1>3. /\ Frames(ns) \in Seq(Seq(Char)) /\ Len(Frames(ns)) = n + 1
      /\ \A k \in 1 .. n + 1 : Frames(ns)[k] = Encode(ns[k])
  BY <1>1, FramesType
<1>4. Encode(m) \in Seq(Char)
  BY EncodeIs
<1>5. Frames(ns) = Append(Frames(ms), Encode(m))
  <2> DEFINE s == Append(Frames(ms), Encode(m))
  <2>1. /\ s \in Seq(Seq(Char)) /\ Len(s) = n + 1 /\ s[n + 1] = Encode(m)
        /\ \A k \in 1 .. n : s[k] = Encode(ms[k])
    BY <1>2, <1>4, AppendProperties
  <2> HIDE DEF s
  <2>2. \A k \in 1 .. n + 1 : Frames(ns)[k] = s[k]
    <3> SUFFICES ASSUME NEW k \in 1 .. n + 1 PROVE Frames(ns)[k] = s[k]
      OBVIOUS
    <3>1. CASE k = n + 1
      BY <3>1, <2>1, <1>1, <1>3
    <3>2. CASE k # n + 1
      <4>1. k \in 1 .. n
        BY <3>2, <1>1
      <4> QED BY <4>1, <2>1, <1>1, <1>3
    <3> QED BY <3>1, <3>2
  <2> QED BY <1>3, <2>1, <2>2, SeqEqual DEF s
<1>6. FlattenSeq(Append(Frames(ms), Encode(m))) = FlattenSeq(Frames(ms)) \o Encode(m)
  BY <1>2, <1>4, FlattenAppend
<1>7. EncodeAll(ns) = FlattenSeq(Frames(ns)) /\ EncodeAll(ms) = FlattenSeq(Frames(ms))
  BY <1>1, FramesType
<1> QED BY <1>5, <1>6, <1>7 DEF ns

LEMMA FrontLast ==
  ASSUME NEW S, NEW ms \in Seq(S)
  PROVE  /\ \A m \in S : Front(Append(ms, m)) = ms /\ Last(Append(ms, m)) = m
                         /\ Append(ms, m) # << >> /\ Append(ms, m) \in Seq(S)
         /\ ms # << >> => /\ Front(ms) \in Seq(S) /\ Last(ms) \in S
                          /\ ms = Append(Front(ms), Last(ms))
<1>1. ASSUME NEW m \in S
      PROVE  Front(Append(ms, m)) = ms /\ Last(Append(ms, m)) = m
             /\ Append(ms, m) # << >> /\ Append(ms, m) \in Seq(S)
  BY <1>1 DEF Front, Last
<1>2. ASSUME ms # << >>
      PROVE  Front(ms) \in Seq(S) /\ Last(ms) \in S /\ ms = Append(Front(ms), Last(ms))
  <2>1. PICK s \in Seq(S), e \in S : ms = Append(s, e)
    BY <1>2, SequenceEmptyOrAppend
  <2>2. Front(Append(s, e)) = s /\ Last(Append(s, e)) = e
    BY DEF Front, Last
  <2> QED BY <2>1, <2>2
<1> QED BY <1>1, <1>2

LEMMA MessageType ==
  /\ \A m \in Message : m \in Seq(Char) /\ Len(m) \in 0 .. payload
  /\ \A ms \in Seq(Message) : ms \in Seq(Seq(Char))
<1>1. payload \in Nat /\ Message \subseteq Seq(Char) /\ \A m \in Message : Len(m) <= payload
  BY SizeAssumption, MessageAssumption
<1>2. \A m \in Message : Len(m) \in Nat
  BY <1>1, LenProperties
<1>3. \A ms \in Seq(Message) : ms \in Seq(Seq(Char))
  BY <1>1, SeqMonotonic
<1> QED BY <1>1, <1>2, <1>3

LEMMA EncodeLast ==
  ASSUME NEW ms \in Seq(Message), ms # << >>
  PROVE  /\ EncodeAll(ms) = EncodeAll(Front(ms)) \o Encode(Last(ms))
         /\ EncodeAll(Front(ms)) \in Seq(Char) /\ Last(ms) \in Seq(Char)
<1>1. /\ Front(ms) \in Seq(Message) /\ Last(ms) \in Message
      /\ ms = Append(Front(ms), Last(ms))
  BY FrontLast
<1>2. Front(ms) \in Seq(Seq(Char)) /\ Last(ms) \in Seq(Char)
  BY <1>1, MessageType
<1>3. EncodeAll(Append(Front(ms), Last(ms))) = EncodeAll(Front(ms)) \o Encode(Last(ms))
  BY <1>2, EncodeAppend
<1> QED BY <1>1, <1>2, <1>3, FramesType

-----------------------------------------------------------------------------
(* The peer's line, and what it is behind its first f frames.              *)
Item == [c : Char, f : Nat]

Numbered(s, f) == [j \in DOMAIN s |-> [c |-> s[j], f |-> f]]

Items(ms) == [k \in DOMAIN ms |-> Numbered(Encode(ms[k]), k)]

LEMMA NumberedType ==
  ASSUME NEW s \in Seq(Char), NEW f \in Nat
  PROVE  /\ Numbered(s, f) \in Seq(Item) /\ Len(Numbered(s, f)) = Len(s)
         /\ \A j \in 1 .. Len(s) : Numbered(s, f)[j] = [c |-> s[j], f |-> f]
<1>1. Len(s) \in Nat /\ DOMAIN s = 1 .. Len(s) /\ \A k \in 1 .. Len(s) : s[k] \in Char
  BY LenProperties, ElementOfSeq
<1> DEFINE e(j) == [c |-> s[j], f |-> f]
<1>2. \A j \in 1 .. Len(s) : e(j) \in Item
  BY <1>1 DEF Item
<1>3. Numbered(s, f) = [j \in 1 .. Len(s) |-> e(j)]
  BY <1>1, Zenon DEF Numbered
<1> HIDE DEF e
<1>4. /\ [j \in 1 .. Len(s) |-> e(j)] \in Seq(Item)
      /\ Len([j \in 1 .. Len(s) |-> e(j)]) = Len(s)
      /\ \A j \in 1 .. Len(s) : [k \in 1 .. Len(s) |-> e(k)][j] = e(j)
  BY <1>1, <1>2
<1> QED BY <1>3, <1>4 DEF e

LEMMA NumberedConcat ==
  ASSUME NEW s \in Seq(Char), NEW t \in Seq(Char), NEW f \in Nat
  PROVE  Numbered(s \o t, f) = Numbered(s, f) \o Numbered(t, f)
<1> DEFINE u == s \o t
           v == Numbered(s, f) \o Numbered(t, f)
<1>1. /\ u \in Seq(Char) /\ Len(u) = Len(s) + Len(t) /\ Len(s) \in Nat /\ Len(t) \in Nat
      /\ \A i \in 1 .. Len(u) : u[i] = IF i <= Len(s) THEN s[i] ELSE t[i - Len(s)]
  BY ConcatProperties, LenProperties
<1>2. /\ Numbered(s, f) \in Seq(Item) /\ Len(Numbered(s, f)) = Len(s)
      /\ Numbered(t, f) \in Seq(Item) /\ Len(Numbered(t, f)) = Len(t)
  BY NumberedType
<1>3. /\ v \in Seq(Item) /\ Len(v) = Len(s) + Len(t)
      /\ \A i \in 1 .. Len(v) : v[i] = IF i <= Len(s) THEN Numbered(s, f)[i]
                                                      ELSE Numbered(t, f)[i - Len(s)]
  <2> DEFINE a == Numbered(s, f)
             b == Numbered(t, f)
  <2>1. v = a \o b /\ a \in Seq(Item) /\ b \in Seq(Item) /\ Len(a) = Len(s) /\ Len(b) = Len(t)
    BY <1>2
  <2> HIDE DEF a, b, v
  <2>2. /\ a \o b \in Seq(Item) /\ Len(a \o b) = Len(a) + Len(b)
        /\ \A i \in 1 .. Len(a) + Len(b) : (a \o b)[i] = IF i <= Len(a) THEN a[i] ELSE b[i - Len(a)]
    BY <2>1, ConcatProperties
  <2>3. /\ v \in Seq(Item) /\ Len(v) = Len(s) + Len(t)
        /\ \A i \in 1 .. Len(v) : v[i] = IF i <= Len(s) THEN a[i] ELSE b[i - Len(s)]
    BY <2>1, <2>2
  <2> QED BY <2>3 DEF a, b
<1> HIDE DEF u, v
<1>4. /\ Numbered(u, f) \in Seq(Item) /\ Len(Numbered(u, f)) = Len(u)
      /\ \A i \in 1 .. Len(u) : Numbered(u, f)[i] = [c |-> u[i], f |-> f]
  BY <1>1, NumberedType
<1>5. ASSUME NEW i \in 1 .. Len(u) PROVE Numbered(u, f)[i] = v[i]
  <2>1. CASE i <= Len(s)
    <3>1. i \in 1 .. Len(s)
      BY <1>1, <2>1
    <3>2. Numbered(s, f)[i] = [c |-> s[i], f |-> f]
      BY <3>1, NumberedType
    <3> QED BY <1>1, <1>3, <1>4, <2>1, <3>2
  <2>2. CASE ~ (i <= Len(s))
    <3>1. i - Len(s) \in 1 .. Len(t)
      BY <1>1, <2>2
    <3>2. Numbered(t, f)[i - Len(s)] = [c |-> t[i - Len(s)], f |-> f]
      BY <3>1, NumberedType
    <3> QED BY <1>1, <1>3, <1>4, <2>2, <3>2
  <2> QED BY <2>1, <2>2
<1> QED BY <1>1, <1>3, <1>4, <1>5, SeqEqual DEF u, v

LEMMA NumberedAppend ==
  ASSUME NEW s \in Seq(Char), NEW c \in Char, NEW f \in Nat
  PROVE  Numbered(Append(s, c), f) = Append(Numbered(s, f), [c |-> c, f |-> f])
<1>1. Append(s, c) = s \o <<c>> /\ <<c>> \in Seq(Char)
  BY AppendExtends
<1>2. Numbered(Append(s, c), f) = Numbered(s, f) \o Numbered(<<c>>, f)
  BY <1>1, NumberedConcat
<1>3. Numbered(<<c>>, f) = << [c |-> c, f |-> f] >>
  <2> DEFINE one == <<c>>
  <2>1. one \in Seq(Char) /\ Len(one) = 1 /\ one[1] = c /\ 1 \in 1 .. Len(one)
    BY <1>1
  <2> HIDE DEF one
  <2>2. /\ Numbered(one, f) \in Seq(Item) /\ Len(Numbered(one, f)) = Len(one)
        /\ Numbered(one, f)[1] = [c |-> one[1], f |-> f]
    BY <2>1, NumberedType
  <2>3. /\ Numbered(one, f) \in Seq(Item) /\ Len(Numbered(one, f)) = 1
        /\ Numbered(one, f)[1] = [c |-> c, f |-> f]
    BY <2>1, <2>2
  <2>4. Numbered(one, f) = << [c |-> c, f |-> f] >>
    BY <2>3
  <2> QED BY <2>4 DEF one
<1>4. Numbered(s, f) \in Seq(Item) /\ [c |-> c, f |-> f] \in Item
  BY NumberedType DEF Item
<1> QED BY <1>2, <1>3, <1>4, AppendExtends

LEMMA ItemsType ==
  ASSUME NEW ms \in Seq(Seq(Char))
  PROVE  /\ Items(ms) \in Seq(Seq(Item)) /\ Len(Items(ms)) = Len(ms)
         /\ \A k \in 1 .. Len(ms) : Items(ms)[k] = Numbered(Encode(ms[k]), k)
         /\ PeerLine(ms) = FlattenSeq(Items(ms)) /\ PeerLine(ms) \in Seq(Item)
<1>1. Len(ms) \in Nat /\ DOMAIN ms = 1 .. Len(ms) /\ \A k \in 1 .. Len(ms) : ms[k] \in Seq(Char)
  BY LenProperties, ElementOfSeq
<1> DEFINE e(k) == Numbered(Encode(ms[k]), k)
<1>2. \A k \in 1 .. Len(ms) : e(k) \in Seq(Item)
  BY <1>1, EncodeIs, NumberedType
<1>3. Items(ms) = [k \in 1 .. Len(ms) |-> e(k)] /\ PeerLine(ms) = FlattenSeq(Items(ms))
  BY <1>1, Zenon DEF Items, PeerLine, Numbered
<1> HIDE DEF e
<1>4. /\ [k \in 1 .. Len(ms) |-> e(k)] \in Seq(Seq(Item))
      /\ Len([k \in 1 .. Len(ms) |-> e(k)]) = Len(ms)
      /\ \A k \in 1 .. Len(ms) : [j \in 1 .. Len(ms) |-> e(j)][k] = e(k)
  BY <1>1, <1>2
<1>5. Items(ms) \in Seq(Seq(Item))
  BY <1>3, <1>4
<1>6. FlattenSeq(Items(ms)) \in Seq(Item)
  BY <1>5, UpToAll
<1> QED BY <1>3, <1>4, <1>5, <1>6 DEF e

-----------------------------------------------------------------------------
(* What the functions of the machine return (cframe.new.h:155-266).        *)
LEMMA Out ==
  ASSUME NEW t \in {"started", "regular", "stuff"}, NEW c \in Char,
         NEW out, out = transformOut(t, c)
  PROVE  /\ t # "stuff" /\ c \in Stuffed => out.c = esc /\ out.tx = "stuff"
         /\ t # "stuff" /\ c \notin Stuffed => out.c = c /\ out.tx = "regular"
         /\ t = "stuff" => out.c = Mod[c] /\ out.tx = "regular"
BY CharAssumption, ModAssumption DEF transformOut, Stuffed

LEMMA OutState ==
  ASSUME NEW t \in State, NEW c, NEW out, out = transformOut(t, c)
  PROVE  out.tx \in State /\ startFrame(t) \in State /\ endFrame(t) \in State
BY DEF transformOut, startFrame, endFrame, Stuffed, State

LEMMA In ==
  ASSUME NEW r \in State, NEW c \in Char, NEW in, in = transformIn(r, c)
  PROVE  /\ in.rx \in State /\ in.c \in Char /\ in.data \in BOOLEAN
         /\ r = "invalid" =>
              in.rx = (IF c = sofr THEN "started" ELSE "invalid") /\ ~ in.data
         /\ r = "fine" => in.rx = "fine" /\ ~ in.data
         /\ r = "stuff" => in.rx = "regular" /\ in.data /\ in.c = Mod[c]
         /\ r \in {"started", "regular"} =>
              /\ c = eofr => in.rx = "fine" /\ ~ in.data
              /\ c = esc => in.rx = "stuff" /\ ~ in.data
              /\ c \notin Stuffed => in.rx = "regular" /\ in.data /\ in.c = c
BY CharAssumption, ModAssumption DEF transformIn, Stuffed, State

-----------------------------------------------------------------------------
Place == {"idle", "send", "size", "position", "copy", "resetTx", "storeTx", "enable",
          "resetRx", "storeRx"}

Typed ==
  /\ use \in Uses /\ peer \in use.Peers
  /\ tx \in State /\ rx \in State /\ state[1] \in State /\ state[2] \in State
  /\ pc \in Place /\ readyIE \in BOOLEAN
  /\ data \in Message \cup {<< >>} /\ accepted \in Seq(Message)
  /\ rxReg \in Item \cup {NoItem} /\ coming \in Seq(Item) /\ recvMob \in Seq(Char)
  /\ frame \in Nat /\ received \in Seq([m : Seq(Char), f : Nat])

(* Main is in a call of send, or of recv.                                  *)
Sends == pc \in {"send", "size", "position", "copy", "resetTx", "storeTx", "enable"}
Reads == pc \in {"resetRx", "storeRx"}

(* A direction that a program does not use stays at rest.                  *)
Silent ==
  /\ peer = << >> => /\ coming = << >> /\ rxReg = NoItem /\ rx = "invalid" /\ ~ Reads
                     /\ pc = "storeTx" => state[2] = "invalid"
  /\ use.MaxSend = 0 => /\ ~ Sends /\ ~ readyIE /\ tx = "invalid"
                        /\ pc = "storeRx" => state[1] = "invalid"
  /\ use.RecvBack => ~ Reads

LEMMA UseType ==
  ASSUME Typed
  PROVE  /\ use.SendBack \in BOOLEAN /\ use.RecvBack \in BOOLEAN /\ use.Locked \in BOOLEAN
         /\ use.MaxSend \in Nat /\ peer \in Seq(Seq(Char))
         /\ Len(accepted) \in Nat /\ Len(recvMob) \in Nat
<1>1. IsUse(use)
  BY UsesAssumption DEF Typed
<1> QED BY <1>1, LenProperties DEF Typed, IsUse

LEMMA NoneProps == None \notin Char /\ NoItem \notin Item
BY NoneAssumption DEF NoItem, Item

(* getonReceive keeps the types whatever arrives.                          *)
LEMMA ReceiveTyped == Typed /\ getonReceive => Typed'
<1> SUFFICES ASSUME Typed, getonReceive PROVE Typed'
  OBVIOUS
<1> DEFINE r  == IF recvPosition = payload THEN "invalid" ELSE rx
           in == transformIn(r, rxReg.c)
           f  == IF finished(rx) THEN frame ELSE rxReg.f
           take == finished(in.rx) /\ use.RecvBack /\ fits
<1>1. rxReg \in Item /\ rxReg.c \in Char /\ rxReg.f \in Nat /\ r \in State
  BY DEF Typed, getonReceive, Item, State
<1>2. in.rx \in State /\ in.c \in Char /\ in.data \in BOOLEAN
  <2> HIDE DEF r
  <2> QED BY <1>1, In
<1>3. f \in Nat
  BY <1>1 DEF Typed
<1>4. /\ rxReg' = NoItem /\ recvMob' = stored(in)
      /\ rx' = IF take THEN "invalid" ELSE in.rx
      /\ frame' = IF finished(in.rx) THEN f ELSE frame
      /\ received' = IF take THEN Append(received, [m |-> recvMob, f |-> f]) ELSE received
      /\ UNCHANGED <<tx, main, sender, use, peer, coming, accepted>>
  BY Zenon DEF getonReceive
<1> HIDE DEF in, f, take
<1>5. rx' \in State
  BY <1>2, <1>4 DEF State
<1>6. recvMob' \in Seq(Char)
  BY <1>2, <1>4, AppendProperties, EmptySeq DEF stored, Typed
<1>7. frame' \in Nat
  BY <1>3, <1>4 DEF Typed
<1>8. received' \in Seq([m : Seq(Char), f : Nat])
  <2>1. [m |-> recvMob, f |-> f] \in [m : Seq(Char), f : Nat]
    BY <1>3 DEF Typed
  <2> QED BY <2>1, <1>4, AppendProperties DEF Typed
<1> QED BY <1>4, <1>5, <1>6, <1>7, <1>8 DEF Typed, main, sender

LEMMA AcceptsTyped ==
  ASSUME Typed, NEW m \in Message \cup {<< >>}, Accepts(m)
  PROVE  accepted' \in Seq(Message)
BY AppendProperties DEF Typed, Accepts

LEMMA ReadyTyped == Typed /\ putonReady => Typed'
<1> SUFFICES ASSUME Typed, putonReady PROVE Typed'
  OBVIOUS
<1>1. UNCHANGED <<rx, main, line, recver>>
  BY DEF putonReady
<1>2. /\ tx' \in State /\ readyIE' \in BOOLEAN /\ accepted' \in Seq(Message)
  <2>1. CASE tx' = startFrame(tx) /\ UNCHANGED <<sendMob, readyIE, accepted>>
    BY <2>1, OutState DEF Typed
  <2>2. CASE sendInCallback
    BY <2>2, AcceptsTyped DEF sendInCallback, Typed, State
  <2>3. CASE tx' = endFrame(tx) /\ UNCHANGED <<sendMob, readyIE, accepted>>
    BY <2>3, OutState DEF Typed
  <2>4. CASE /\ tx' = transformOut(tx, Byte(sendMob.position)).tx
             /\ UNCHANGED <<readyIE, accepted>>
    BY <2>4, OutState DEF Typed
  <2> QED BY <2>1, <2>2, <2>3, <2>4 DEF putonReady
<1> QED BY <1>1, <1>2 DEF Typed, main, recver

LEMMA InitTyped == Init => Typed /\ Silent
<1> SUFFICES ASSUME Init PROVE Typed /\ Silent
  OBVIOUS
<1>1. IsUse(use) /\ peer \in Seq(Seq(Char))
  BY UsesAssumption DEF Init, IsUse
<1>2. PeerLine(peer) \in Seq(Item)
  BY <1>1, ItemsType
<1>3. peer = << >> => coming = << >>
  <2>1. [k \in DOMAIN << >> |-> Numbered(Encode(<< >>[k]), k)] = << >>
    OBVIOUS
  <2>2. Items(<< >>) = << >>
    BY <2>1, Zenon DEF Items
  <2>3. PeerLine(<< >>) = << >>
    BY <2>2, FlattenEmpty, ItemsType, EmptySeq
  <2> QED BY <2>3 DEF Init
<1>4. Typed
  BY <1>2, EmptySeq DEF Init, Typed, State, Place
<1>5. Silent
  BY <1>3 DEF Init, Silent, Reads, Sends
<1> QED BY <1>4, <1>5

LEMMA NextTyped == Typed /\ [Next]_vars => Typed'
<1> SUFFICES ASSUME Typed, [Next]_vars PROVE Typed'
  OBVIOUS
<1> USE DEF Typed, Place, State
<1>1. CASE UNCHANGED vars
  BY <1>1 DEF vars, cframe, main, sender, recver
<1>2. ASSUME NEW m \in Message, send(m) \/ enableonReady(m) PROVE Typed'
  BY <1>2 DEF send, enableonReady, Starts, cframe, sender, recver
<1>3. CASE sendSending \/ sendSize \/ sendPosition \/ sendCopy
  BY <1>3 DEF sendSending, sendSize, sendPosition, sendCopy, cframe, sender, recver
<1>4. CASE resetTx \/ storeTx \/ resetRx \/ storeRx
  BY <1>4 DEF resetTx, storeTx, resetRx, storeRx, cframe, sender, recver
<1>5. CASE sendEnable
  BY <1>5, AcceptsTyped DEF sendEnable, cframe, recver
<1>6. CASE recv
  <2>1. [m |-> recvMob, f |-> frame] \in [m : Seq(Char), f : Nat]
    OBVIOUS
  <2> QED BY <1>6, <2>1, AppendProperties DEF recv, cframe, sender
<1>7. CASE putonReady
  BY <1>7, ReadyTyped
<1>8. CASE getonReceive
  BY <1>8, ReceiveTyped
<1>9. CASE Transmit
  BY <1>9 DEF Transmit, cframe, main, recver
<1>10. CASE Arrive
  BY <1>10, HeadTailProperties DEF Arrive, cframe, main, sender
<1> QED BY <1>1, <1>2, <1>3, <1>4, <1>5, <1>6, <1>7, <1>8, <1>9, <1>10 DEF Next, Main

LEMMA NextSilent == Typed /\ Silent /\ [Next]_vars => Silent'
<1> SUFFICES ASSUME Typed, Silent, [Next]_vars PROVE Silent'
  OBVIOUS
<1> USE DEF Silent, Sends, Reads
<1>1. CASE UNCHANGED vars
  BY <1>1 DEF vars, cframe, main, sender, recver
<1>2. ASSUME NEW m \in Message, send(m) \/ enableonReady(m) PROVE Silent'
  <2>1. use.MaxSend # 0
    BY <1>2, UseType DEF send, enableonReady
  <2> QED BY <1>2, <2>1 DEF send, enableonReady, Starts, cframe, sender, recver
<1>3. CASE sendSending \/ sendSize \/ sendPosition \/ sendCopy
  BY <1>3 DEF sendSending, sendSize, sendPosition, sendCopy, cframe, sender, recver
<1>4. CASE resetTx \/ storeTx \/ resetRx \/ storeRx
  BY <1>4 DEF resetTx, storeTx, resetRx, storeRx, cframe, sender, recver
<1>5. CASE sendEnable
  BY <1>5 DEF sendEnable, cframe, recver
<1>6. CASE recv
  BY <1>6 DEF recv, cframe, sender, finished
<1>7. CASE putonReady
  BY <1>7 DEF putonReady, main, recver
<1>8. CASE getonReceive
  BY <1>8, Zenon DEF getonReceive, main, sender
<1>9. CASE Transmit
  BY <1>9 DEF Transmit, cframe, main, recver
<1>10. CASE Arrive
  BY <1>10 DEF Arrive, cframe, main, sender
<1> QED BY <1>1, <1>2, <1>3, <1>4, <1>5, <1>6, <1>7, <1>8, <1>9, <1>10 DEF Next, Main

-----------------------------------------------------------------------------
(***************************************************************************)
(* The transmitter.  Between two frames the line is what was accepted;     *)
(* in one, the message object holds the message last accepted, and the     *)
(* line has so much of it as position and state say.  While main fills the *)
(* object the transmitter is at rest.                                      *)
(***************************************************************************)
Holds(m) == sendMob.size = Len(m) /\ \A k \in 1 .. Len(m) : sendMob.payload[k] = m[k]

Started == accepted # << >> /\ Holds(Last(accepted))

AtRest == Output = EncodeAll(accepted)

SendTyped ==
  /\ sendMob \in [position : 0 .. payload, size : 0 .. payload,
                  payload : [1 .. payload -> Char \cup {None}]]
  /\ txReg \in Char \cup {None} /\ line \in Seq(Char)

Filling ==
  /\ Sends => ~ sending(tx) /\ (readyIE => use.Locked) /\ AtRest
  /\ pc = "position" => sendMob.size = 0
  /\ pc = "copy" => /\ sendMob.position = 0 /\ sendMob.size <= Len(data)
                    /\ \A k \in 1 .. sendMob.size : sendMob.payload[k] = data[k]
  /\ pc \in {"resetTx", "storeTx", "enable"} => sendMob.position = 0 /\ Holds(data)
  /\ pc = "enable" => tx = "invalid"

Waiting ==
  /\ sendMob.position = 0
  /\ IF sendMob.size = 0 THEN AtRest
     ELSE Started /\ Output = EncodeAll(Front(accepted))

Underway ==
  /\ Started /\ sendMob.position <= sendMob.size
  /\ sendMob.position = sendMob.size => tx = "regular"
  /\ tx = "stuff" => Last(accepted)[sendMob.position + 1] \in Stuffed
  /\ Output = EncodeAll(Front(accepted)) \o Begun(Last(accepted), sendMob.position, tx)

Putting ==
  /\ ~ readyIE => ~ sending(tx) /\ AtRest
  /\ readyIE /\ tx = "invalid" => Waiting
  /\ readyIE /\ tx = "fine" => AtRest
  /\ sending(tx) => Underway

SendInv ==
  /\ SendTyped /\ Filling
  /\ ~ Sends => Putting
  /\ pc = "storeRx" => state[1] = tx

Given == Typed /\ Silent /\ OneByOne /\ TxKept /\ SendInv

LEMMA OutputIs ==
  ASSUME SendTyped
  PROVE  /\ Output \in Seq(Char)
         /\ txReg = None => Output = line
         /\ txReg # None => txReg \in Char /\ Output = Append(line, txReg)
<1>1. CASE txReg = None
  BY <1>1, ConcatEmptySeq DEF SendTyped, Output
<1>2. CASE txReg # None
  <2>1. txReg \in Char /\ line \in Seq(Char) /\ Output = line \o <<txReg>>
    BY <1>2 DEF SendTyped, Output
  <2> QED BY <1>2, <2>1, AppendExtends
<1> QED BY <1>1, <1>2

(* A character that the handler puts into the empty register.              *)
LEMMA Puts ==
  ASSUME SendTyped, txReg = None, NEW c \in Char, txReg' = c, line' = line
  PROVE  Output' = Append(Output, c)
<1>1. c # None
  BY NoneProps
<1>2. Output' = line \o <<c>> /\ Output = line /\ line \in Seq(Char)
  BY <1>1, OutputIs DEF Output, SendTyped
<1> QED BY <1>2, AppendExtends

(* The handler runs only when main is in no call of send, and not between  *)
(* the read and the write of recv.                                         *)
LEMMA Interrupting ==
  ASSUME Given, putonReady
  PROVE  ~ Sends /\ pc # "storeRx" /\ Putting
<1>1. readyIE /\ Interrupted
  BY DEF putonReady
<1>2. ~ Sends
  <2>1. ASSUME Sends PROVE FALSE
    <3>1. use.Locked
      BY <1>1, <2>1 DEF Given, SendInv, Filling
    <3> QED BY <1>1, <2>1, <3>1 DEF Interrupted, Sends
  <2> QED BY <2>1
<1>3. pc # "storeRx"
  <2>1. CASE use.Locked
    BY <1>1, <2>1 DEF Interrupted
  <2>2. CASE use.MaxSend = 0
    BY <1>1, <2>2 DEF Given, Silent
  <2>3. CASE peer = << >> \/ use.RecvBack
    BY <2>3 DEF Given, Silent, Reads
  <2> QED BY <2>1, <2>2, <2>3 DEF Given, TxKept, Alone
<1> QED BY <1>2, <1>3 DEF Given, SendInv

(* What leaves the transmitter alone, and main out of the calls of send.   *)
LEMMA KeepsSending ==
  ASSUME SendInv, UNCHANGED <<tx, sender, accepted>>, ~ Sends, ~ Sends',
         pc' = "storeRx" => state'[1] = tx
  PROVE  SendInv'
<1>1. SendTyped' /\ (Putting => Putting')
  BY DEF SendInv, SendTyped, Putting, Waiting, Underway, Started, Holds, AtRest, Output, sender
<1>2. Filling'
  BY DEF Filling, Sends
<1> QED BY <1>1, <1>2 DEF SendInv

LEMMA StartsSending ==
  ASSUME Given, NEW m \in Message, send(m) \/ enableonReady(m)
  PROVE  SendInv'
<1>1. /\ pc = "idle" /\ data' = m /\ pc' = "send" /\ Len(accepted) < use.MaxSend
      /\ UNCHANGED <<cframe, state, sender, recver, accepted>>
  BY DEF send, enableonReady, Starts
<1>2. Putting /\ SendTyped /\ tx \in State
  BY <1>1 DEF Given, SendInv, Sends, Typed
<1>3. ~ sending(tx) /\ (readyIE => use.Locked) /\ AtRest
  <2>1. CASE ~ readyIE
    BY <1>2, <2>1 DEF Putting
  <2>2. CASE readyIE
    <3>1. use.Locked /\ use.MaxSend <= 1
      BY <2>2 DEF Given, OneByOne, send, enableonReady
    <3>2. accepted = << >>
      BY <1>1, <3>1, UseType, EmptySeq DEF Given, Typed
    <3>3. ~ Started
      BY <3>2 DEF Started
    <3>4. ~ sending(tx)
      BY <1>2, <3>3 DEF Putting, Underway
    <3>5. tx = "invalid" \/ tx = "fine"
      BY <3>4 DEF sending
    <3>6. AtRest
      BY <1>2, <2>2, <3>3, <3>5 DEF Putting, Waiting
    <3> QED BY <3>1, <3>4, <3>6
  <2> QED BY <2>1, <2>2
<1>4. SendTyped' /\ AtRest' /\ ~ sending(tx')
  BY <1>1, <1>2, <1>3 DEF SendTyped, AtRest, Output, sender, cframe, sending
<1>5. Filling'
  BY <1>1, <1>3, <1>4 DEF Filling, sender, recver
<1> QED BY <1>1, <1>4, <1>5 DEF SendInv, Sends

(* The steps of send up to the one that releases the handler.              *)
LEMMA FillsObject ==
  ASSUME Given, sendSending \/ sendSize \/ sendPosition \/ resetTx \/ storeTx
  PROVE  SendInv'
<1>1. Sends /\ Filling /\ SendTyped /\ ~ sending(tx) /\ (readyIE => use.Locked) /\ AtRest
  BY DEF Given, SendInv, Filling, Sends, sendSending, sendSize, sendPosition, resetTx, storeTx
<1>2. UNCHANGED <<readyIE, txReg, line, use, accepted, data>> /\ Sends' /\ pc' # "storeRx"
  BY <1>1 DEF sendSending, sendSize, sendPosition, resetTx, storeTx, sender, recver, Sends
<1>3. AtRest' /\ (readyIE' => use'.Locked)
  BY <1>1, <1>2 DEF AtRest, Output
<1>4. ~ sending(tx')
  BY <1>1 DEF sendSending, sendSize, sendPosition, resetTx, storeTx, cframe, sending
<1>5. SendTyped'
  <2>1. payload \in Nat
    BY SizeAssumption
  <2>2. CASE sendMob' = sendMob
    BY <1>1, <1>2, <2>2 DEF SendTyped
  <2>3. CASE sendMob' = [sendMob EXCEPT !.size = 0] \/ sendMob' = [sendMob EXCEPT !.position = 0]
    BY <1>1, <1>2, <2>1, <2>3 DEF SendTyped
  <2> QED BY <2>2, <2>3 DEF sendSending, sendSize, sendPosition, resetTx, storeTx, sender
<1>6. /\ pc' = "position" => sendMob'.size = 0
      /\ pc' = "copy" => /\ sendMob'.position = 0 /\ sendMob'.size = 0
      /\ pc' \in {"resetTx", "storeTx", "enable"} => sendMob' = sendMob /\ sendMob.position = 0
                                                     /\ Holds(data)
      /\ pc' = "enable" => tx' = "invalid"
  BY <1>1 DEF SendTyped, Filling, sendSending, sendSize, sendPosition, resetTx, storeTx, sender
<1>7. data \in Seq(Char) /\ Len(data) \in Nat
  BY MessageType, EmptySeq, LenProperties DEF Given, Typed
<1>8. Filling'
  <2>1. pc' = "copy" => /\ sendMob'.position = 0 /\ sendMob'.size <= Len(data')
                        /\ \A k \in 1 .. sendMob'.size : sendMob'.payload[k] = data'[k]
    BY <1>2, <1>6, <1>7
  <2>2. pc' \in {"resetTx", "storeTx", "enable"} => sendMob'.position = 0 /\ Holds(data)'
    BY <1>2, <1>6 DEF Holds
  <2> QED BY <1>3, <1>4, <1>6, <2>1, <2>2 DEF Filling
<1> QED BY <1>2, <1>5, <1>8 DEF SendInv

LEMMA CopiesMessage ==
  ASSUME Given, sendCopy
  PROVE  SendInv'
<1>1. /\ pc = "copy" /\ Sends /\ Filling /\ SendTyped
      /\ UNCHANGED <<cframe, data, state, readyIE, txReg, line, recver, accepted>>
  BY DEF Given, SendInv, Sends, sendCopy
<1>2. /\ ~ sending(tx) /\ (readyIE => use.Locked) /\ AtRest
      /\ sendMob.position = 0 /\ sendMob.size <= Len(data)
      /\ \A k \in 1 .. sendMob.size : sendMob.payload[k] = data[k]
  BY <1>1 DEF Filling
<1>3. ~ sending(tx') /\ (readyIE' => use'.Locked) /\ AtRest'
  BY <1>1, <1>2 DEF AtRest, Output, cframe, recver, sending
<1>4. data \in Seq(Char) /\ Len(data) \in 0 .. payload /\ payload \in Nat
  <2>1. data \in Message \/ data = << >>
    BY DEF Given, Typed
  <2>2. payload \in Nat
    BY SizeAssumption
  <2>3. CASE data \in Message
    BY <2>2, <2>3, MessageType
  <2>4. CASE data = << >>
    <3>1. << >> \in Seq(Char) /\ Len(<< >>) = 0
      BY EmptySeq
    <3> QED BY <2>2, <2>4, <3>1
  <2> QED BY <2>1, <2>3, <2>4
<1>5. CASE sendMob.size < Len(data) /\ pc' = "copy"
  <2> DEFINE n == sendMob.size + 1
  <2>1. sendMob' = [sendMob EXCEPT !.payload[n] = data[n], !.size = @ + 1]
    BY <1>1, <1>5 DEF sendCopy
  <2>2. /\ n \in 1 .. payload /\ n \in 1 .. Len(data) /\ data[n] \in Char
    BY <1>1, <1>4, <1>5 DEF SendTyped
  <2>3. /\ sendMob'.size = n /\ sendMob'.position = 0
        /\ sendMob'.payload = [sendMob.payload EXCEPT ![n] = data[n]]
        /\ sendMob' \in [position : 0 .. payload, size : 0 .. payload,
                         payload : [1 .. payload -> Char \cup {None}]]
    <3>1. sendMob \in [position : 0 .. payload, size : 0 .. payload,
                       payload : [1 .. payload -> Char \cup {None}]]
      BY <1>1 DEF SendTyped
    <3>2. sendMob.payload \in [1 .. payload -> Char \cup {None}] /\ n \in 0 .. payload
      BY <3>1, <1>4, <2>2
    <3> DEFINE P == [1 .. payload -> Char \cup {None}]
               q == [sendMob.payload EXCEPT ![n] = data[n]]
    <3>3. q \in P
      BY <2>2, <3>2
    <3>4. sendMob' = [sendMob EXCEPT !.payload = q, !.size = n]
      BY <2>1
    <3>5. sendMob \in [position : 0 .. payload, size : 0 .. payload, payload : P]
      BY <3>1
    <3> HIDE DEF P, q, n
    <3>6. /\ sendMob'.size = n /\ sendMob'.position = 0 /\ sendMob'.payload = q
          /\ sendMob' \in [position : 0 .. payload, size : 0 .. payload, payload : P]
      BY <1>2, <3>2, <3>3, <3>4, <3>5
    <3> QED BY <3>6 DEF P, q
  <2>4. \A k \in 1 .. n : sendMob'.payload[k] = data[k]
    <3> SUFFICES ASSUME NEW k \in 1 .. n PROVE sendMob'.payload[k] = data[k]
      OBVIOUS
    <3>1. k \in 1 .. payload /\ (k # n => k \in 1 .. sendMob.size)
      <4>1. sendMob.size \in 0 .. payload /\ payload \in Nat
        BY <1>1, <1>4 DEF SendTyped
      <4> QED BY <4>1, <2>2
    <3>2. sendMob.payload \in [1 .. payload -> Char \cup {None}]
      BY <1>1 DEF SendTyped
    <3> HIDE DEF n
    <3> QED BY <1>2, <2>3, <3>1, <3>2
  <2>5. sendMob'.size <= Len(data') /\ \A k \in 1 .. sendMob'.size : sendMob'.payload[k] = data'[k]
    BY <1>1, <2>2, <2>3, <2>4
  <2>6. SendTyped'
    BY <1>1, <2>3 DEF SendTyped
  <2>7. Filling'
    BY <1>3, <1>5, <2>3, <2>5 DEF Filling
  <2> QED BY <1>5, <2>6, <2>7 DEF SendInv, Sends
<1>6. CASE sendMob.size = Len(data) /\ pc' = "resetTx" /\ sendMob' = sendMob
  <2>1. Holds(data) /\ data' = data
    BY <1>1, <1>2, <1>6 DEF Holds
  <2>2. SendTyped' /\ Holds(data)' /\ sendMob'.position = 0
    BY <1>1, <1>2, <1>6, <2>1 DEF SendTyped, Holds
  <2>3. Filling'
    BY <1>3, <1>6, <2>2 DEF Filling
  <2> QED BY <1>6, <2>2, <2>3 DEF SendInv, Sends
<1> QED BY <1>1, <1>5, <1>6 DEF sendCopy

(* A message that the object holds is accepted, and waits; or it is empty. *)
LEMMA WaitsWhole ==
  ASSUME SendTyped', AtRest, Output' = Output, accepted \in Seq(Message),
         NEW m \in Message \cup {<< >>}, Accepts(m), Holds(m)', sendMob'.position = 0
  PROVE  Waiting'
<1>1. m \in Seq(Char) /\ Len(m) \in Nat /\ sendMob'.size = Len(m)
  BY MessageType, EmptySeq, LenProperties DEF Holds
<1>2. CASE m = << >>
  BY <1>1, <1>2 DEF Waiting, AtRest, Accepts
<1>3. CASE m # << >>
  <2>1. accepted' = Append(accepted, m) /\ m \in Message
    BY <1>3 DEF Accepts
  <2>2. accepted' # << >> /\ Front(accepted') = accepted /\ Last(accepted') = m
    BY <2>1, FrontLast
  <2>3. sendMob'.size # 0
    BY <1>1, <1>3, EmptySeq
  <2>4. Output' = EncodeAll(Front(accepted'))
    BY <2>2 DEF AtRest
  <2>5. Started'
    BY <2>2 DEF Started, Holds
  <2> QED BY <2>3, <2>4, <2>5 DEF Waiting
<1> QED BY <1>2, <1>3

LEMMA EnablesReady ==
  ASSUME Given, sendEnable
  PROVE  SendInv'
<1>1. /\ pc = "enable" /\ pc' = "idle" /\ Accepts(data) /\ readyIE' = TRUE
      /\ UNCHANGED <<cframe, data, state, sendMob, txReg, line, recver>>
      /\ Filling /\ SendTyped /\ AtRest /\ Holds(data) /\ sendMob.position = 0 /\ tx = "invalid"
  BY DEF Given, SendInv, Filling, Sends, sendEnable
<1>2. SendTyped' /\ Output' = Output /\ Holds(data)' /\ tx' = "invalid" /\ data' = data
  BY <1>1 DEF SendTyped, Output, Holds, cframe
<1>3. Waiting'
  <2>1. PICK m \in Message \cup {<< >>} : m = data
    BY DEF Given, Typed
  <2>2. Holds(m)' /\ Accepts(m)
    BY <1>1, <1>2, <2>1 DEF Holds
  <2> QED BY <1>1, <1>2, <2>2, WaitsWhole DEF Given, Typed
<1>4. Putting'
  BY <1>1, <1>2, <1>3 DEF Putting, sending
<1> QED BY <1>1, <1>2, <1>4 DEF SendInv, Filling, Sends

LEMMA ReadsSending ==
  ASSUME Given, recv \/ resetRx \/ storeRx
  PROVE  SendInv'
<1>1. ~ Sends /\ ~ Sends' /\ UNCHANGED <<sender, accepted>>
  BY DEF recv, resetRx, storeRx, Sends
<1>2. tx' = tx /\ (pc' = "storeRx" => state'[1] = tx)
  BY DEF recv, resetRx, storeRx, Given, SendInv, cframe
<1> QED BY <1>1, <1>2, KeepsSending DEF Given

LEMMA TransmitsSending ==
  ASSUME Given, Transmit
  PROVE  SendInv'
<1>1. /\ txReg # None /\ line' = Append(line, txReg) /\ txReg' = None
      /\ UNCHANGED <<cframe, main, sendMob, readyIE, recver, accepted>>
      /\ SendTyped
  BY DEF Transmit, Given, SendInv
<1>2. txReg \in Char /\ Output = Append(line, txReg) /\ line \in Seq(Char)
  BY <1>1, OutputIs DEF SendTyped
<1>3. SendTyped'
  BY <1>1, <1>2, AppendProperties DEF SendTyped
<1>4. Output' = Output
  <2>1. line' \o << >> = line'
    BY <1>3, ConcatEmptySeq DEF SendTyped
  <2> QED BY <1>1, <1>2, <2>1 DEF Output
<1>5. AtRest' = AtRest /\ (Putting => Putting')
  BY <1>1, <1>4 DEF Putting, Waiting, Underway, Started, Holds, AtRest, cframe
<1>6. Filling => Filling'
  BY <1>1, <1>5 DEF Filling, Holds, cframe, main, recver, Sends
<1> QED BY <1>1, <1>3, <1>5, <1>6 DEF Given, SendInv, main, Sends, cframe

-----------------------------------------------------------------------------
(* putonReady: the start of a frame; the callback and its message; the end;*)
(* and a character of the payload.                                         *)
Putted == UNCHANGED <<rx, main, line, recver>> /\ txReg = None /\ readyIE

LEMMA PutsKeep ==
  ASSUME Given, putonReady, SendTyped', Putting'
  PROVE  SendInv'
<1>1. ~ Sends /\ pc # "storeRx" /\ UNCHANGED main
  BY Interrupting DEF putonReady
<1> QED BY <1>1 DEF SendInv, Filling, Sends, main

LEMMA PutsStart ==
  ASSUME Given, putonReady, putonReadyStarts, txReg' = sofr, tx' = startFrame(tx),
         UNCHANGED <<sendMob, readyIE, accepted>>
  PROVE  SendInv'
<1>1. /\ Putting /\ SendTyped /\ txReg = None /\ readyIE /\ line' = line
      /\ tx = "invalid" /\ tx' = "started" /\ sendMob.position = 0 /\ sendMob.size > 0
  BY Interrupting DEF putonReady, putonReadyStarts, Given, SendInv, startFrame, readyToStart
<1>2. Waiting /\ Started /\ Output = EncodeAll(Front(accepted))
  BY <1>1 DEF Putting, Waiting
<1>3. Output' = Append(Output, sofr) /\ SendTyped' /\ Output \in Seq(Char)
  BY <1>1, Puts, Chars, OutputIs DEF SendTyped
<1>4. Underway'
  <2>1. accepted' = accepted /\ sendMob' = sendMob /\ Last(accepted) \in Seq(Char)
    BY <1>2, EncodeLast DEF Given, Typed, Started
  <2> DEFINE m == Last(accepted)
  <2>2. Begun(m, 0, "started") = <<sofr>>
    <3>1. 0 \in 0 .. Len(m)
      BY <2>1, LenProperties
    <3> QED BY <2>1, <3>1, BegunType, BegunEnds
  <2>3. Output' = EncodeAll(Front(accepted)) \o Begun(m, 0, "started")
    BY <1>2, <1>3, <2>2, Chars, AppendExtends
  <2>4. Started'
    BY <1>2, <2>1 DEF Started, Holds
  <2>5. sendMob'.position = 0 /\ 0 <= sendMob'.size /\ 0 # sendMob'.size /\ tx' = "started"
    BY <1>1, <2>1, SizeAssumption DEF SendTyped
  <2>6. Output' = EncodeAll(Front(accepted')) \o Begun(Last(accepted'), sendMob'.position, tx')
    BY <2>1, <2>3, <2>5
  <2> QED BY <2>4, <2>5, <2>6 DEF Underway
<1>5. Putting'
  BY <1>1, <1>4 DEF Putting, sending
<1> QED BY <1>3, <1>5, PutsKeep

LEMMA PutsEnd ==
  ASSUME Given, putonReady, sending(tx), sendMob.position = sendMob.size,
         txReg' = eofr, tx' = endFrame(tx), UNCHANGED <<sendMob, readyIE, accepted>>
  PROVE  SendInv'
<1>1. /\ Putting /\ SendTyped /\ txReg = None /\ readyIE /\ line' = line
  BY Interrupting DEF putonReady, Given, SendInv
<1>2. /\ Started /\ tx = "regular" /\ tx' = "fine"
      /\ Output = EncodeAll(Front(accepted)) \o Begun(Last(accepted), sendMob.position, tx)
  BY <1>1 DEF Putting, Underway, endFrame
<1>3. Output' = Append(Output, eofr) /\ SendTyped'
  BY <1>1, Puts, Chars DEF SendTyped
<1> DEFINE m == Last(accepted)
           a == EncodeAll(Front(accepted))
           b == Begun(m, Len(m), "regular")
<1>4. /\ m \in Seq(Char) /\ a \in Seq(Char) /\ Len(m) \in 0 .. Len(m) /\ sendMob.position = Len(m)
      /\ EncodeAll(accepted) = a \o Encode(m)
  <2>1. accepted \in Seq(Message) /\ accepted # << >> /\ sendMob.size = Len(m)
    BY <1>2 DEF Given, Typed, Started, Holds
  <2>2. m \in Seq(Char) /\ a \in Seq(Char) /\ EncodeAll(accepted) = a \o Encode(m)
    BY <2>1, EncodeLast
  <2> HIDE DEF m, a
  <2>3. Len(m) \in Nat
    BY <2>2, LenProperties
  <2> QED BY <2>1, <2>2, <2>3
<1>5. b \in Seq(Char) /\ Encode(m) = Append(b, eofr)
  BY <1>4, BegunType, BegunEnds
<1>6. Output = a \o b
  BY <1>2, <1>4
<1> HIDE DEF a, b, m
<1>7. Append(a \o b, eofr) = a \o Append(b, eofr)
  <2>1. a \o b \in Seq(Char) /\ <<eofr>> \in Seq(Char) /\ eofr \in Char
    BY <1>4, <1>5, Chars, ConcatProperties
  <2>2. Append(a \o b, eofr) = (a \o b) \o <<eofr>> /\ Append(b, eofr) = b \o <<eofr>>
    BY <1>5, <2>1, AppendExtends
  <2> QED BY <1>4, <1>5, <2>1, <2>2, ConcatAssociative
<1>8. AtRest'
  BY <1>3, <1>4, <1>5, <1>6, <1>7 DEF AtRest
<1>9. Putting'
  BY <1>1, <1>2, <1>8 DEF Putting, sending
<1> QED BY <1>3, <1>9, PutsKeep

LEMMA PutsCharacter ==
  ASSUME Given, putonReady, sending(tx), sendMob.position # sendMob.size,
         NEW out, out = transformOut(tx, Byte(sendMob.position)),
         txReg' = out.c, tx' = out.tx,
         sendMob' = [sendMob EXCEPT !.position = advance(out.tx)],
         UNCHANGED <<readyIE, accepted>>
  PROVE  SendInv'
<1>1. /\ Putting /\ SendTyped /\ txReg = None /\ readyIE /\ line' = line
  BY Interrupting DEF putonReady, Given, SendInv
<1> DEFINE m == Last(accepted)
           a == EncodeAll(Front(accepted))
           i == sendMob.position
           b == Begun(m, i, tx)
           c == m[i + 1]
<1>2. /\ Started /\ tx \in {"started", "regular", "stuff"}
      /\ i <= sendMob.size /\ (tx = "stuff" => c \in Stuffed)
      /\ Output = a \o b
  BY <1>1 DEF Putting, Underway, sending, Given, Typed, State
<1>3. /\ m \in Seq(Char) /\ a \in Seq(Char) /\ Len(m) = sendMob.size
      /\ \A k \in 1 .. Len(m) : sendMob.payload[k] = m[k]
  BY <1>2, EncodeLast DEF Given, Typed, Started, Holds
<1>4. /\ i \in 0 .. Len(m) - 1 /\ i + 1 \in 1 .. Len(m) /\ i + 1 \in 0 .. Len(m) /\ i \in 0 .. Len(m)
      /\ i < payload /\ (i + 1) % FLT = i + 1 /\ Len(m) <= payload
  <2>1. i \in 0 .. payload /\ sendMob.size \in 0 .. payload /\ i # sendMob.size
    BY <1>1 DEF SendTyped
  <2>2. payload \in Nat /\ FLT \in Nat /\ payload < FLT
    BY SizeAssumption
  <2> HIDE DEF m, i
  <2>3. i < payload /\ i + 1 \in 0 .. FLT - 1 /\ i < Len(m) /\ Len(m) <= payload /\ Len(m) \in Nat
    BY <1>2, <1>3, <2>1, <2>2
  <2>4. (i + 1) % FLT = i + 1
    BY <2>2, <2>3
  <2> QED BY <2>1, <2>3, <2>4
<1>5. c \in Char /\ Byte(i) = c
  BY <1>3, <1>4, ElementOfSeq DEF Byte
<1>6. /\ Begun(m, i, tx) \in Seq(Char)
      /\ tx # "stuff" => Begun(m, i, tx) = Begun(m, i, "regular")
      /\ Begun(m, i, "stuff") = Append(Begun(m, i, "regular"), esc)
  BY <1>3, <1>4, BegunType
<1>7. /\ sendMob' \in [position : 0 .. payload, size : 0 .. payload,
                       payload : [1 .. payload -> Char \cup {None}]]
      /\ sendMob'.position = advance(out.tx) /\ sendMob'.size = sendMob.size
      /\ sendMob'.payload = sendMob.payload
      /\ advance(out.tx) = IF out.tx = "regular" THEN i + 1 ELSE i
  <2>1. advance(out.tx) = IF out.tx = "regular" THEN i + 1 ELSE i
    BY <1>4 DEF advance, again
  <2>2. advance(out.tx) \in 0 .. payload
    BY <2>1, <1>4, SizeAssumption DEF SendTyped
  <2> QED BY <1>1, <2>1, <2>2 DEF SendTyped
<1>8. /\ tx # "stuff" /\ c \in Stuffed => out.c = esc /\ out.tx = "stuff"
      /\ tx # "stuff" /\ c \notin Stuffed => out.c = c /\ out.tx = "regular"
      /\ tx = "stuff" => out.c = Mod[c] /\ out.tx = "regular"
  BY <1>2, <1>5, Out
<1>9. /\ out.c \in Char /\ out.tx \in {"regular", "stuff"}
      /\ Begun(m, sendMob'.position, out.tx) = Append(b, out.c)
      /\ out.tx = "stuff" => sendMob'.position = i /\ c \in Stuffed
  <2> HIDE DEF m, i, c
  <2>1. CASE tx # "stuff" /\ c \in Stuffed
    BY <2>1, <1>6, <1>7, <1>8, Chars
  <2>2. CASE tx # "stuff" /\ c \notin Stuffed
    BY <2>2, <1>3, <1>4, <1>5, <1>6, <1>7, <1>8, BegunNext DEF c
  <2>3. CASE tx = "stuff"
    BY <2>3, <1>2, <1>3, <1>4, <1>5, <1>7, <1>8, Chars, BegunNext DEF c
  <2> QED BY <2>1, <2>2, <2>3
<1>10. SendTyped' /\ Output' = Append(Output, out.c)
  BY <1>1, <1>7, <1>9, Puts DEF SendTyped
<1>11. Output' = a \o Begun(m, sendMob'.position, out.tx)
  <2> HIDE DEF a, b, m, i
  <2>1. b \in Seq(Char)
    BY <1>6 DEF b
  <2>2. a \o b \in Seq(Char) /\ <<out.c>> \in Seq(Char)
    BY <1>3, <1>9, <2>1, ConcatProperties
  <2>3. Append(a \o b, out.c) = (a \o b) \o <<out.c>> /\ Append(b, out.c) = b \o <<out.c>>
    BY <1>9, <2>1, <2>2, AppendExtends
  <2>4. (a \o b) \o <<out.c>> = a \o (b \o <<out.c>>)
    BY <1>3, <2>1, <2>2, ConcatAssociative
  <2> QED BY <1>2, <1>9, <1>10, <2>3, <2>4
<1>12. accepted' = accepted /\ Last(accepted') = m /\ Front(accepted') = Front(accepted)
  OBVIOUS
<1>13. Started'
  <2>1. accepted # << >>
    BY <1>2 DEF Started
  <2> HIDE DEF m
  <2> QED BY <1>3, <1>7, <1>12, <2>1 DEF Started, Holds
<1>14. Underway'
  <2>1. /\ sendMob'.position <= sendMob'.size
        /\ sendMob'.position = sendMob'.size => tx' = "regular"
    BY <1>3, <1>4, <1>7, <1>9
  <2>2. tx' = "stuff" => Last(accepted')[sendMob'.position + 1] \in Stuffed
    BY <1>9, <1>12
  <2>3. Output' = EncodeAll(Front(accepted')) \o Begun(Last(accepted'), sendMob'.position, tx')
    BY <1>11, <1>12
  <2> QED BY <1>13, <2>1, <2>2, <2>3 DEF Underway
<1>15. Putting'
  <2>1. tx' # "invalid" /\ tx' # "fine" /\ readyIE'
    BY <1>1, <1>9
  <2> QED BY <1>14, <2>1 DEF Putting
<1> QED BY <1>10, <1>15, PutsKeep

(* The callback sends a message, if it has one.                            *)
LEMMA PutsMessage ==
  ASSUME Given, putonReady, ~ putonReadyStarts, ~ sending(tx), sendInCallback, txReg' = txReg
  PROVE  SendInv'
<1>1. /\ Putting /\ SendTyped /\ txReg = None /\ readyIE /\ line' = line
      /\ accepted \in Seq(Message) /\ Output' = Output
  BY Interrupting DEF putonReady, Given, SendInv, Typed, Output
<1>2. AtRest
  <2>1. tx = "fine" \/ tx = "invalid"
    BY DEF sending
  <2>2. CASE tx = "invalid"
    <3>1. Waiting /\ sendMob.position = 0 /\ ~ (sendMob.size > 0)
      BY <1>1, <2>2 DEF Putting, Waiting, putonReadyStarts, readyToStart
    <3>2. sendMob.size = 0
      BY <1>1, <3>1, SizeAssumption DEF SendTyped
    <3> QED BY <3>1, <3>2 DEF Waiting
  <2> QED BY <1>1, <2>1, <2>2 DEF Putting
<1>3. CASE readyIE' = FALSE /\ UNCHANGED <<sendMob, tx, accepted>>
  <2>1. SendTyped' /\ AtRest' /\ ~ sending(tx')
    BY <1>1, <1>2, <1>3 DEF SendTyped, AtRest, sending
  <2>2. Putting'
    BY <1>3, <2>1 DEF Putting
  <2> QED BY <2>1, <2>2, PutsKeep
<1>4. ASSUME NEW m \in Message, Accepts(m), tx' = "invalid", readyIE' = TRUE,
             sendMob' = [position |-> 0, size |-> Len(m),
                         payload  |-> m \o SubSeq(sendMob.payload, Len(m) + 1, payload)]
      PROVE  SendInv'
  <2> DEFINE C == Char \cup {None}
             n == Len(m)
             s == SubSeq(sendMob.payload, n + 1, payload)
  <2>1. m \in Seq(C) /\ n \in 0 .. payload /\ payload \in Nat
    <3>1. m \in Seq(Char) /\ n \in 0 .. payload
      BY MessageType
    <3> QED BY <3>1, SizeAssumption
  <2>2. sendMob.payload \in [1 .. payload -> C]
    BY <1>1 DEF SendTyped
  <2>3. s \in Seq(C) /\ Len(s) = payload - n
    <3>1. \A k \in n + 1 .. payload : sendMob.payload[k] \in C
      BY <2>1, <2>2
    <3> HIDE DEF C
    <3>2. n + 1 \in Int /\ payload \in Int /\ Len(s) = IF n + 1 <= payload THEN payload - (n + 1) + 1 ELSE 0
      BY <2>1, <3>1, SubSeqProperties
    <3>3. s \in Seq(C)
      BY <2>1, <3>1, SubSeqProperties
    <3> HIDE DEF s, n
    <3> QED BY <2>1, <3>2, <3>3
  <2> HIDE DEF C, s, n
  <2>4. m \o s \in [1 .. payload -> C] /\ \A k \in 1 .. n : (m \o s)[k] = m[k]
    <3>1. /\ m \o s \in Seq(C) /\ Len(m \o s) = n + (payload - n)
          /\ \A k \in 1 .. n + (payload - n) : (m \o s)[k] = IF k <= n THEN m[k] ELSE s[k - n]
      BY <2>1, <2>3, ConcatProperties DEF n
    <3>2. n + (payload - n) = payload /\ \A k \in 1 .. n : k \in 1 .. payload /\ k <= n
      BY <2>1
    <3> DEFINE t == m \o s
    <3> HIDE DEF t
    <3>3. t \in Seq(C) /\ Len(t) = payload /\ \A k \in 1 .. n : t[k] = m[k]
      BY <3>1, <3>2 DEF t
    <3>4. t \in [1 .. payload -> C]
      BY <3>3, LenProperties
    <3> QED BY <3>3, <3>4 DEF t
  <2>5. sendMob' = [position |-> 0, size |-> n, payload |-> m \o s]
    BY <1>4 DEF n, s
  <2>6. SendTyped'
    BY <1>1, <2>1, <2>4, <2>5 DEF SendTyped, C
  <2>7. Holds(m)' /\ sendMob'.position = 0
    BY <2>4, <2>5 DEF Holds, n
  <2>8. Waiting'
    <3>1. m \in Message \cup {<< >>}
      OBVIOUS
    <3> QED BY <1>1, <1>2, <1>4, <2>6, <2>7, <3>1, WaitsWhole
  <2>9. Putting'
    BY <1>4, <2>8 DEF Putting, sending
  <2> QED BY <2>6, <2>9, PutsKeep
<1> QED BY <1>3, <1>4 DEF sendInCallback

LEMMA PutsSending == ASSUME Given, putonReady PROVE SendInv'
<1>1. CASE /\ putonReadyStarts
           /\ txReg' = sofr /\ tx' = startFrame(tx)
           /\ UNCHANGED <<sendMob, readyIE, accepted>>
  BY <1>1, PutsStart
<1>2. CASE /\ ~ putonReadyStarts /\ ~ sending(tx)
           /\ sendInCallback
           /\ UNCHANGED txReg
  BY <1>2, PutsMessage
<1>3. CASE /\ sending(tx) /\ sendMob.position = sendMob.size
           /\ txReg' = eofr /\ tx' = endFrame(tx)
           /\ UNCHANGED <<sendMob, readyIE, accepted>>
  BY <1>3, PutsEnd
<1>4. CASE /\ sending(tx) /\ sendMob.position # sendMob.size
           /\ LET out == transformOut(tx, Byte(sendMob.position)) IN
                /\ txReg' = out.c /\ tx' = out.tx
                /\ sendMob' = [sendMob EXCEPT !.position = advance(out.tx)]
           /\ UNCHANGED <<readyIE, accepted>>
  <2> DEFINE out == transformOut(tx, Byte(sendMob.position))
  <2>1. /\ txReg' = out.c /\ tx' = out.tx
        /\ sendMob' = [sendMob EXCEPT !.position = advance(out.tx)]
    BY <1>4
  <2>2. out = transformOut(tx, Byte(sendMob.position))
    OBVIOUS
  <2> HIDE DEF out
  <2> QED BY <1>4, <2>1, <2>2, PutsCharacter
<1> QED BY <1>1, <1>2, <1>3, <1>4, Zenon DEF putonReady

-----------------------------------------------------------------------------
SendIInv == Typed /\ Silent /\ (OneByOne /\ TxKept => SendInv)

LEMMA InitSending == Init => SendInv
<1> SUFFICES ASSUME Init PROVE SendInv
  OBVIOUS
<1>1. SendTyped
  <2>1. payload \in Nat
    BY SizeAssumption
  <2> QED BY <2>1, EmptySeq DEF Init, SendTyped
<1>2. Output = << >> /\ EncodeAll(<< >>) = << >>
  <2>1. Output = << >>
    BY <1>1, OutputIs DEF Init
  <2>2. [k \in DOMAIN << >> |-> Encode(<< >>[k])] = << >>
    OBVIOUS
  <2>3. EncodeAll(<< >>) = << >>
    BY <2>2, FlattenEmpty, Zenon DEF EncodeAll
  <2> QED BY <2>1, <2>3
<1>3. AtRest
  BY <1>2 DEF Init, AtRest
<1> QED BY <1>1, <1>3 DEF Init, SendInv, Filling, Putting, Sends, sending

LEMMA NextSending == SendIInv /\ [Next]_vars => SendIInv'
<1> SUFFICES ASSUME SendIInv, [Next]_vars PROVE SendIInv'
  OBVIOUS
<1>1. Typed' /\ Silent'
  BY NextTyped, NextSilent DEF SendIInv
<1>2. UNCHANGED <<use, peer>>
  BY DEF Next, Main, vars, recver, cframe, send, enableonReady, Starts, sendSending, sendSize,
         sendPosition, sendCopy, resetTx, storeTx, sendEnable, recv, resetRx, storeRx,
         putonReady, getonReceive, Transmit, Arrive
<1> SUFFICES ASSUME OneByOne, TxKept PROVE SendInv'
  BY <1>1, <1>2 DEF SendIInv, OneByOne, TxKept, Alone
<1>3. Given
  BY DEF Given, SendIInv
<1>4. ASSUME NEW m \in Message, send(m) \/ enableonReady(m) PROVE SendInv'
  BY <1>3, <1>4, StartsSending
<1>5. CASE Main
  BY <1>3, <1>5, FillsObject, CopiesMessage, EnablesReady, ReadsSending DEF Main
<1>6. CASE recv
  BY <1>3, <1>6, ReadsSending
<1>7. CASE putonReady
  BY <1>3, <1>7, PutsSending
<1>8. CASE getonReceive \/ Arrive \/ UNCHANGED vars
  <2>1. UNCHANGED <<tx, main, sender, accepted>>
    BY <1>8, Zenon DEF getonReceive, Arrive, vars, cframe
  <2>2. SendInv => SendInv'
    BY <1>2, <2>1 DEF SendInv, SendTyped, Filling, Putting, Waiting, Underway, Started, Holds,
                      AtRest, Output, Sends, main, sender
  <2> QED BY <1>3, <2>2 DEF Given
<1>9. CASE Transmit
  BY <1>3, <1>9, TransmitsSending
<1> QED BY <1>4, <1>5, <1>6, <1>7, <1>8, <1>9 DEF Next

LEMMA SendingLine == SendIInv => LineIsFrames
<1> SUFFICES ASSUME SendIInv, OneByOne, TxKept
             PROVE  IsPrefix(Output, EncodeAll(accepted)) /\ (Quiet => AtRest)
  BY DEF LineIsFrames, AtRest
<1>1. SendInv /\ Typed /\ SendTyped /\ accepted \in Seq(Message)
  BY DEF SendIInv, SendInv, Typed
<1>2. Quiet => AtRest
  BY <1>1 DEF SendInv, Putting, Quiet, Sends
<1>3. Output \in Seq(Char) /\ EncodeAll(accepted) \in Seq(Char)
  BY <1>1, OutputIs, MessageType, FramesType
<1> SUFFICES IsPrefix(Output, EncodeAll(accepted))
  BY <1>2
<1>4. CASE AtRest
  <2>1. Extends(Char, Output, EncodeAll(accepted))
    BY <1>3, <1>4, ExtendsItself DEF AtRest
  <2> QED BY <1>3, <2>1, ExtendsPrefix
<1>5. CASE ~ AtRest
  <2>1. Putting
    BY <1>1, <1>5 DEF SendInv, Filling
  <2> DEFINE a == EncodeAll(Front(accepted))
             m == Last(accepted)
  <2>2. Waiting \/ Underway
    BY <1>1, <1>5, <2>1 DEF Putting, Typed, State, sending
  <2>3. Started /\ (Output = a \/ Underway)
    BY <1>5, <2>2 DEF Waiting, Underway
  <2>4. /\ a \in Seq(Char) /\ m \in Seq(Char) /\ EncodeAll(accepted) = a \o Encode(m)
        /\ Encode(m) \in Seq(Char)
    BY <1>1, <2>3, EncodeLast, EncodeIs DEF Started
  <2>5. CASE Output = a
    BY <1>3, <2>4, <2>5, ExtendsPrefix DEF Extends
  <2>6. CASE Underway
    <3> DEFINE i == sendMob.position
    <3>1. Len(m) = sendMob.size /\ i \in 0 .. Len(m) /\ (i = Len(m) => tx = "regular")
      <4>1. Len(m) = sendMob.size /\ i <= sendMob.size /\ (i = sendMob.size => tx = "regular")
        BY <2>6 DEF Underway, Started, Holds
      <4>2. i \in Nat /\ sendMob.size \in Nat
        BY <1>1, SizeAssumption DEF SendTyped
      <4> QED BY <4>1, <4>2
    <3>2. Extends(Char, Begun(m, i, tx), Encode(m)) /\ Begun(m, i, tx) \in Seq(Char)
      <4>1. Begun(m, i, tx) \in Seq(Char)
        BY <2>4, <3>1, BegunType
      <4>2. CASE tx = "stuff"
        <5>1. i \in 0 .. Len(m) - 1 /\ m[i + 1] \in Stuffed
          <6>1. m[i + 1] \in Stuffed
            BY <4>2, <2>6 DEF Underway
          <6>2. i # Len(m) /\ Len(m) \in Nat
            BY <4>2, <3>1, <2>4, LenProperties
          <6> HIDE DEF i, m
          <6> QED BY <3>1, <6>1, <6>2
        <5> QED BY <4>1, <4>2, <5>1, <2>4, BegunEnds
      <4>3. CASE tx # "stuff"
        BY <4>1, <4>3, <2>4, <3>1, BegunType, BegunEnds
      <4> QED BY <4>1, <4>2, <4>3
    <3>3. Output = a \o Begun(m, i, tx)
      BY <2>6 DEF Underway
    <3> HIDE DEF a, m, i
    <3>4. Extends(Char, Output, EncodeAll(accepted))
      BY <2>4, <3>2, <3>3, ExtendsConcat
    <3> QED BY <1>3, <3>4, ExtendsPrefix
  <2> QED BY <2>3, <2>5, <2>6
<1> QED BY <1>4, <1>5

(***************************************************************************)
(* However long the messages are and however main, the two handlers and    *)
(* the device interleave, the line carries the frames of the messages that *)
(* send has accepted, each whole and in order, and at rest all of them     *)
(* (cdeviceframe.h:188-208, 246-259).                                      *)
(***************************************************************************)
THEOREM LineCorrect == Spec => []LineIsFrames
<1>1. Init => SendIInv
  BY InitTyped, InitSending DEF SendIInv
<1>2. SendIInv /\ [Next]_vars => SendIInv'
  BY NextSending
<1>3. SendIInv => LineIsFrames
  BY SendingLine
<1> QED BY <1>1, <1>2, <1>3, PTL DEF Spec

-----------------------------------------------------------------------------
LEMMA ConcatCancel ==
  ASSUME NEW S, NEW r \in Seq(S), NEW s \in Seq(S), NEW t \in Seq(S), r \o s = r \o t
  PROVE  s = t
<1>1. Len(r) \in Nat /\ Len(s) \in Nat /\ Len(t) \in Nat
  BY LenProperties
<1>2. /\ Len(r \o s) = Len(r) + Len(s)
      /\ \A i \in 1 .. Len(r) + Len(s) : (r \o s)[i] = IF i <= Len(r) THEN r[i] ELSE s[i - Len(r)]
  BY ConcatProperties
<1>3. /\ Len(r \o t) = Len(r) + Len(t)
      /\ \A i \in 1 .. Len(r) + Len(t) : (r \o t)[i] = IF i <= Len(r) THEN r[i] ELSE t[i - Len(r)]
  BY ConcatProperties
<1>4. Len(s) = Len(t)
  BY <1>1, <1>2, <1>3
<1>5. ASSUME NEW i \in 1 .. Len(s) PROVE s[i] = t[i]
  <2> DEFINE k == Len(r) + i
  <2>1. k \in 1 .. Len(r) + Len(s) /\ ~ (k <= Len(r)) /\ k - Len(r) = i
    BY <1>1
  <2> HIDE DEF k
  <2>2. (r \o s)[k] = s[i] /\ (r \o t)[k] = t[i]
    BY <1>2, <1>3, <1>4, <2>1
  <2> QED BY <2>2
<1> QED BY <1>4, <1>5, SeqEqual

(***************************************************************************)
(* The receiver.  A position is how far the handler has taken the peer's   *)
(* line: behind frame f, or in it, behind i characters of its message and, *)
(* when t is stuff, the escape character.                                  *)
(***************************************************************************)
Position == [f : Nat, i : Nat, t : {"regular", "stuff", "fine"}]

Valid(p) ==
  /\ p \in Position /\ p.f <= Len(peer)
  /\ p.t # "fine" => p.f # 0 /\ p.i <= Len(peer[p.f])
  /\ p.t = "stuff" => p.i < Len(peer[p.f]) /\ peer[p.f][p.i + 1] \in Stuffed

Taken(p) ==
  IF p.t = "fine" THEN UpTo(Items(peer), p.f)
  ELSE UpTo(Items(peer), p.f - 1) \o Numbered(Begun(peer[p.f], p.i, p.t), p.f)

(* The character x that leads from p to q.                                 *)
At(p, c, i, t, x, q) == x = [c |-> c, f |-> p.f] /\ q = [f |-> p.f, i |-> i, t |-> t]

Opens(p, x, q) ==
  /\ p.t = "fine" /\ p.f < Len(peer)
  /\ x = [c |-> sofr, f |-> p.f + 1] /\ q = [f |-> p.f + 1, i |-> 0, t |-> "regular"]
Plain(p, x, q) ==
  /\ p.t = "regular" /\ p.i < Len(peer[p.f]) /\ peer[p.f][p.i + 1] \notin Stuffed
  /\ At(p, peer[p.f][p.i + 1], p.i + 1, "regular", x, q)
Escapes(p, x, q) ==
  /\ p.t = "regular" /\ p.i < Len(peer[p.f]) /\ peer[p.f][p.i + 1] \in Stuffed
  /\ At(p, esc, p.i, "stuff", x, q)
Escaped(p, x, q) ==
  p.t = "stuff" /\ At(p, Mod[peer[p.f][p.i + 1]], p.i + 1, "regular", x, q)
Closes(p, x, q) ==
  p.t = "regular" /\ p.i = Len(peer[p.f]) /\ At(p, eofr, p.i, "fine", x, q)

Step(p, x, q) ==
  Opens(p, x, q) \/ Plain(p, x, q) \/ Escapes(p, x, q) \/ Escaped(p, x, q) \/ Closes(p, x, q)

LEMMA PeerType ==
  ASSUME peer \in Seq(Seq(Char)), NEW f \in Nat
  PROVE  /\ Len(peer) \in Nat
         /\ f <= Len(peer) =>
              /\ UpTo(Items(peer), f) \in Seq(Item)
              /\ Extends(Item, UpTo(Items(peer), f), PeerLine(peer))
         /\ f = Len(peer) => UpTo(Items(peer), f) = PeerLine(peer)
         /\ f # 0 /\ f <= Len(peer) =>
              /\ f - 1 \in Nat /\ f - 1 <= Len(peer) /\ (f - 1) + 1 = f
              /\ peer[f] \in Seq(Char) /\ Len(peer[f]) \in Nat
              /\ UpTo(Items(peer), f - 1) \in Seq(Item)
              /\ UpTo(Items(peer), f) =
                   UpTo(Items(peer), f - 1) \o Numbered(Encode(peer[f]), f)
<1> DEFINE ss == Items(peer)
<1>1. /\ ss \in Seq(Seq(Item)) /\ Len(ss) = Len(peer) /\ Len(peer) \in Nat
      /\ PeerLine(peer) = FlattenSeq(ss)
      /\ \A k \in 1 .. Len(peer) : ss[k] = Numbered(Encode(peer[k]), k)
  BY ItemsType, LenProperties
<1> HIDE DEF ss
<1>2. \A i \in 0 .. Len(ss) : UpTo(ss, i) \in Seq(Item)
  BY <1>1, UpToAll
<1>3. f <= Len(peer) => /\ UpTo(ss, f) \in Seq(Item)
                        /\ Extends(Item, UpTo(ss, f), PeerLine(peer))
  <2> SUFFICES ASSUME f <= Len(peer)
               PROVE  UpTo(ss, f) \in Seq(Item) /\ Extends(Item, UpTo(ss, f), PeerLine(peer))
    OBVIOUS
  <2>1. f \in 0 .. Len(ss)
    BY <1>1
  <2> QED BY <1>1, <1>2, <2>1, UpToExtends
<1>4. f = Len(peer) => UpTo(ss, f) = PeerLine(peer)
  BY <1>1, UpToAll
<1>5. ASSUME f # 0, f <= Len(peer)
      PROVE  /\ f - 1 \in Nat /\ f - 1 <= Len(peer) /\ (f - 1) + 1 = f
             /\ peer[f] \in Seq(Char) /\ Len(peer[f]) \in Nat
             /\ UpTo(ss, f - 1) \in Seq(Item)
             /\ UpTo(ss, f) = UpTo(ss, f - 1) \o Numbered(Encode(peer[f]), f)
  <2>1. /\ f - 1 \in 0 .. Len(ss) - 1 /\ (f - 1) + 1 = f /\ f \in 1 .. Len(peer)
        /\ f - 1 \in Nat /\ f - 1 <= Len(peer) /\ f - 1 \in 0 .. Len(ss)
    BY <1>1, <1>5
  <2>2. UpTo(ss, (f - 1) + 1) = UpTo(ss, f - 1) \o ss[(f - 1) + 1]
    BY <1>1, <2>1, UpToNext
  <2>3. peer[f] \in Seq(Char)
    BY <2>1, ElementOfSeq
  <2>4. Len(peer[f]) \in Nat
    BY <2>3, LenProperties
  <2> QED BY <1>1, <1>2, <2>1, <2>2, <2>3, <2>4
<1> QED BY <1>1, <1>3, <1>4, <1>5 DEF ss

(* A valid position in a frame, and its message.                           *)
LEMMA InFrame ==
  ASSUME peer \in Seq(Seq(Char)), NEW p, Valid(p), p.t # "fine"
  PROVE  /\ p.f \in Nat /\ p.f # 0 /\ p.f <= Len(peer) /\ p.i \in 0 .. Len(peer[p.f])
         /\ peer[p.f] \in Seq(Char) /\ Len(peer[p.f]) \in Nat /\ p.t \in {"regular", "stuff"}
         /\ UpTo(Items(peer), p.f - 1) \in Seq(Item)
         /\ Begun(peer[p.f], p.i, p.t) \in Seq(Char)
         /\ Extends(Char, Begun(peer[p.f], p.i, p.t), Encode(peer[p.f]))
         /\ p.i < Len(peer[p.f]) => p.i \in 0 .. Len(peer[p.f]) - 1
                                    /\ peer[p.f][p.i + 1] \in Char
<1>1. /\ p.f \in Nat /\ p.f # 0 /\ p.f <= Len(peer) /\ p.i <= Len(peer[p.f]) /\ p.i \in Nat
      /\ p.t \in {"regular", "stuff"}
  BY DEF Valid, Position
<1> DEFINE m == peer[p.f]
<1>2. m \in Seq(Char) /\ Len(m) \in Nat /\ UpTo(Items(peer), p.f - 1) \in Seq(Item)
  BY <1>1, PeerType
<1>3. p.i \in 0 .. Len(m)
  BY <1>1, <1>2
<1>4. Begun(m, p.i, p.t) \in Seq(Char)
  BY <1>2, <1>3, BegunType
<1>5. ASSUME p.i < Len(m) PROVE p.i \in 0 .. Len(m) - 1 /\ m[p.i + 1] \in Char
  <2> HIDE DEF m
  <2>1. p.i + 1 \in 1 .. Len(m) /\ p.i \in 0 .. Len(m) - 1
    BY <1>2, <1>3, <1>5
  <2> QED BY <1>2, <2>1, ElementOfSeq
<1>6. Extends(Char, Begun(m, p.i, p.t), Encode(m))
  <2>1. CASE p.t = "regular"
    BY <1>2, <1>3, <2>1, BegunEnds
  <2>2. CASE p.t = "stuff"
    <3>1. p.i < Len(m) /\ m[p.i + 1] \in Stuffed
      BY <2>2 DEF Valid
    <3> QED BY <1>2, <1>5, <2>2, <3>1, BegunEnds
  <2> QED BY <1>1, <2>1, <2>2
<1> QED BY <1>1, <1>2, <1>3, <1>4, <1>5, <1>6

LEMMA TakenExtends ==
  ASSUME peer \in Seq(Seq(Char)), NEW p, Valid(p)
  PROVE  /\ Taken(p) \in Seq(Item) /\ Extends(Item, Taken(p), PeerLine(peer))
         /\ p.t = "fine" /\ p.f = Len(peer) => Taken(p) = PeerLine(peer)
<1>1. p.f \in Nat /\ p.f <= Len(peer)
  BY DEF Valid, Position
<1>2. CASE p.t = "fine"
  BY <1>1, <1>2, PeerType DEF Taken
<1>3. CASE p.t # "fine"
  <2> DEFINE u == UpTo(Items(peer), p.f - 1)
             m == peer[p.f]
             b == Begun(m, p.i, p.t)
  <2>1. /\ p.f \in Nat /\ p.f # 0 /\ p.f <= Len(peer) /\ u \in Seq(Item) /\ b \in Seq(Char)
        /\ Extends(Char, b, Encode(m))
    BY <1>3, InFrame
  <2>2. /\ UpTo(Items(peer), p.f) = u \o Numbered(Encode(m), p.f)
        /\ Extends(Item, UpTo(Items(peer), p.f), PeerLine(peer))
    BY <2>1, PeerType
  <2>3. Taken(p) = u \o Numbered(b, p.f)
    BY <1>3 DEF Taken
  <2> HIDE DEF u, m, b
  <2>4. PICK v \in Seq(Char) : Encode(m) = b \o v
    BY <2>1 DEF Extends
  <2>5. /\ Numbered(Encode(m), p.f) = Numbered(b, p.f) \o Numbered(v, p.f)
        /\ Numbered(b, p.f) \in Seq(Item) /\ Numbered(v, p.f) \in Seq(Item)
    <3>1. Numbered(b \o v, p.f) = Numbered(b, p.f) \o Numbered(v, p.f)
      BY <2>1, NumberedConcat
    <3>2. Numbered(b, p.f) \in Seq(Item)
      BY <2>1, NumberedType
    <3>3. Numbered(v, p.f) \in Seq(Item)
      BY <2>1, NumberedType
    <3> QED BY <2>4, <3>1, <3>2, <3>3
  <2>6. Extends(Item, Numbered(b, p.f), Numbered(Encode(m), p.f))
    BY <2>5 DEF Extends
  <2>7. Extends(Item, Taken(p), UpTo(Items(peer), p.f)) /\ Taken(p) \in Seq(Item)
    BY <2>1, <2>2, <2>3, <2>5, <2>6, ExtendsConcat, ConcatProperties
  <2> QED BY <1>3, <2>2, <2>7, ExtendsTransitive
<1> QED BY <1>2, <1>3

(* One character more in the same frame.                                   *)
LEMMA TakenNext ==
  ASSUME peer \in Seq(Seq(Char)), NEW p, Valid(p), p.t # "fine",
         NEW q, q.f = p.f, NEW c \in Char, NEW b,
         b = Append(Begun(peer[p.f], p.i, p.t), c),
         Taken(q) = UpTo(Items(peer), p.f - 1) \o Numbered(b, p.f)
  PROVE  Taken(q) = Append(Taken(p), [c |-> c, f |-> p.f])
<1> DEFINE u == UpTo(Items(peer), p.f - 1)
           a == Begun(peer[p.f], p.i, p.t)
           x == [c |-> c, f |-> p.f]
<1>1. /\ p.f \in Nat /\ u \in Seq(Item) /\ a \in Seq(Char) /\ Taken(p) = u \o Numbered(a, p.f)
  BY InFrame DEF Taken
<1>2. x \in Item /\ <<x>> \in Seq(Item)
  <2>1. x \in Item
    BY <1>1 DEF Item
  <2> QED BY <2>1
<1> HIDE DEF u, a
<1>3. Numbered(b, p.f) = Append(Numbered(a, p.f), x) /\ Numbered(a, p.f) \in Seq(Item)
  BY <1>1, NumberedAppend, NumberedType DEF a
<1> HIDE DEF x
<1>4. u \o Numbered(a, p.f) \in Seq(Item)
  BY <1>1, <1>3, ConcatProperties
<1>5. Append(Numbered(a, p.f), x) = Numbered(a, p.f) \o <<x>>
  BY <1>2, <1>3, AppendExtends
<1>6. Append(u \o Numbered(a, p.f), x) = (u \o Numbered(a, p.f)) \o <<x>>
  BY <1>2, <1>4, AppendExtends
<1>7. (u \o Numbered(a, p.f)) \o <<x>> = u \o (Numbered(a, p.f) \o <<x>>)
  <2> DEFINE n == Numbered(a, p.f)
             y == <<x>>
  <2>1. n \in Seq(Item) /\ y \in Seq(Item) /\ u \in Seq(Item)
    BY <1>1, <1>2, <1>3
  <2> HIDE DEF n, y
  <2>2. (u \o n) \o y = u \o (n \o y)
    BY <2>1, ConcatAssociative, SMTT(30)
  <2> QED BY <2>2, Zenon DEF n, y
<1> QED BY <1>1, <1>3, <1>5, <1>6, <1>7 DEF x, u

LEMMA StepTaken ==
  ASSUME peer \in Seq(Seq(Char)), NEW p, Valid(p), NEW x, NEW q, Step(p, x, q)
  PROVE  Valid(q) /\ x \in Item /\ Taken(q) = Append(Taken(p), x)
<1>1. p \in Position /\ p.f \in Nat /\ p.i \in Nat /\ p.f <= Len(peer) /\ Len(peer) \in Nat
  BY LenProperties DEF Valid, Position
<1>2. CASE Opens(p, x, q)
  <2> DEFINE g == p.f + 1
  <2>1. /\ p.t = "fine" /\ g \in Nat /\ g # 0 /\ g <= Len(peer) /\ g - 1 = p.f
        /\ x = [c |-> sofr, f |-> g] /\ q = [f |-> g, i |-> 0, t |-> "regular"]
    <3>1. /\ p.t = "fine" /\ p.f < Len(peer)
          /\ x = [c |-> sofr, f |-> g] /\ q = [f |-> g, i |-> 0, t |-> "regular"]
      BY <1>2, Zenon DEF Opens
    <3>2. g \in Nat /\ g # 0 /\ g <= Len(peer) /\ g - 1 = p.f
      <4>1. p.f \in Nat /\ Len(peer) \in Nat /\ p.f < Len(peer)
        BY <1>1, <3>1
      <4> QED BY <4>1
    <3> HIDE DEF g
    <3> QED BY <3>1, <3>2
  <2> HIDE DEF g
  <2>2. peer[g] \in Seq(Char) /\ Len(peer[g]) \in Nat /\ UpTo(Items(peer), p.f) \in Seq(Item)
    BY <1>1, <2>1, PeerType
  <2>3. Valid(q)
    BY <2>1, <2>2 DEF Valid, Position
  <2>4. x \in Item
    BY <2>1, Chars DEF Item
  <2>5. Taken(q) = UpTo(Items(peer), p.f) \o Numbered(<<sofr>>, g)
    <3>1. Begun(peer[g], 0, "regular") = <<sofr>>
      BY <2>2, BegunEnds
    <3> QED BY <2>1, <3>1 DEF Taken
  <2>6. Numbered(<<sofr>>, g) = <<x>>
    <3>1. Numbered(Append(<< >>, sofr), g) = Append(Numbered(<< >>, g), [c |-> sofr, f |-> g])
      BY <2>1, EmptySeq, Chars, NumberedAppend
    <3>2. Numbered(<< >>, g) = << >>
      <4>1. << >> \in Seq(Char) /\ Len(<< >>) = 0
        BY EmptySeq
      <4>2. Numbered(<< >>, g) \in Seq(Item) /\ Len(Numbered(<< >>, g)) = 0
        BY <2>1, <4>1, NumberedType
      <4> QED BY <4>2, EmptySeq
    <3>3. Append(<< >>, sofr) = <<sofr>> /\ Append(<< >>, x) = <<x>>
      OBVIOUS
    <3> QED BY <2>1, <3>1, <3>2, <3>3
  <2>7. Taken(p) = UpTo(Items(peer), p.f)
    BY <2>1 DEF Taken
  <2> QED BY <2>2, <2>3, <2>4, <2>5, <2>6, <2>7, AppendExtends
<1>3. CASE ~ Opens(p, x, q)
  <2> DEFINE m == peer[p.f]
             c == m[p.i + 1]
  <2>1. p.t # "fine" /\ x.f = p.f /\ q.f = p.f /\ x = [c |-> x.c, f |-> p.f]
    BY <1>3 DEF Step, Plain, Escapes, Escaped, Closes, At
  <2>2. /\ m \in Seq(Char) /\ Len(m) \in Nat /\ p.i \in 0 .. Len(m) /\ p.f # 0
        /\ p.i < Len(m) => p.i \in 0 .. Len(m) - 1 /\ c \in Char
    BY <2>1, InFrame
  <2>3. Mod[c] \in Char \/ c \notin Char
    BY Chars
  <2>4. Begun(m, p.i, "stuff") = Append(Begun(m, p.i, "regular"), esc)
    BY <2>2, BegunType
  <2> SUFFICES /\ Valid(q) /\ x.c \in Char
               /\ \E b : /\ b = Append(Begun(peer[p.f], p.i, p.t), x.c)
                         /\ Taken(q) = UpTo(Items(peer), p.f - 1) \o Numbered(b, p.f)
    <3>1. ASSUME x.c \in Char,
                 NEW b, b = Append(Begun(peer[p.f], p.i, p.t), x.c),
                 Taken(q) = UpTo(Items(peer), p.f - 1) \o Numbered(b, p.f)
          PROVE  Taken(q) = Append(Taken(p), x)
      <4>1. Taken(q) = Append(Taken(p), [c |-> x.c, f |-> p.f])
        <5> HIDE DEF m, c
        <5>1. PICK d \in Char : d = x.c
          BY <3>1
        <5> QED BY <2>1, <3>1, <5>1, TakenNext
      <4> QED BY <2>1, <4>1, Zenon
    <3>2. x.c \in Char => x \in Item
      BY <1>1, <2>1 DEF Item
    <3> QED BY <3>1, <3>2
  <2>5. q.t # "fine" => Taken(q) = UpTo(Items(peer), p.f - 1) \o Numbered(Begun(m, q.i, q.t), p.f)
    BY <2>1 DEF Taken
  <2>6. CASE Plain(p, x, q)
    <3>1. p.t = "regular" /\ p.i < Len(m) /\ c \notin Stuffed /\ x.c = c
          /\ q = [f |-> p.f, i |-> p.i + 1, t |-> "regular"]
      BY <2>6 DEF Plain, At
    <3>2. Begun(m, q.i, q.t) = Append(Begun(m, p.i, p.t), c)
      BY <2>2, <3>1, BegunNext
    <3>3. Valid(q)
      <4> HIDE DEF m, c
      <4>1. p.i + 1 \in Nat /\ p.i + 1 <= Len(m)
        BY <1>1, <2>2, <3>1
      <4> QED BY <1>1, <2>2, <3>1, <4>1 DEF Valid, Position, m
    <3> QED BY <2>2, <2>5, <3>1, <3>2, <3>3
  <2>7. CASE Escapes(p, x, q)
    <3>1. p.t = "regular" /\ p.i < Len(m) /\ c \in Stuffed /\ x.c = esc
          /\ q = [f |-> p.f, i |-> p.i, t |-> "stuff"]
      BY <2>7 DEF Escapes, At
    <3>2. Begun(m, q.i, q.t) = Append(Begun(m, p.i, p.t), esc)
      BY <2>4, <3>1
    <3>3. Valid(q)
      BY <1>1, <2>2, <3>1 DEF Valid, Position
    <3> QED BY <2>5, <3>1, <3>2, <3>3, Chars
  <2>8. CASE Escaped(p, x, q)
    <3>1. p.t = "stuff" /\ p.i < Len(m) /\ c \in Stuffed /\ x.c = Mod[c]
          /\ q = [f |-> p.f, i |-> p.i + 1, t |-> "regular"]
      BY <2>8 DEF Escaped, At, Valid
    <3>2. Begun(m, q.i, q.t) = Append(Begun(m, p.i, p.t), Mod[c])
      BY <2>2, <3>1, BegunNext
    <3>3. Valid(q)
      <4> HIDE DEF m, c
      <4>1. p.i + 1 \in Nat /\ p.i + 1 <= Len(m)
        BY <1>1, <2>2, <3>1
      <4> QED BY <1>1, <2>2, <3>1, <4>1 DEF Valid, Position, m
    <3> QED BY <2>2, <2>3, <2>5, <3>1, <3>2, <3>3
  <2>9. CASE Closes(p, x, q)
    <3>1. p.t = "regular" /\ p.i = Len(m) /\ x.c = eofr
          /\ q = [f |-> p.f, i |-> p.i, t |-> "fine"]
      BY <2>9 DEF Closes, At
    <3>2. Encode(m) = Append(Begun(m, p.i, p.t), eofr)
      BY <2>2, <3>1, BegunEnds
    <3>3. Valid(q)
      BY <1>1, <3>1 DEF Valid, Position
    <3>4. Taken(q) = UpTo(Items(peer), p.f - 1) \o Numbered(Encode(m), p.f)
      <4>1. Taken(q) = UpTo(Items(peer), p.f)
        BY <3>1 DEF Taken
      <4> QED BY <1>1, <2>2, <4>1, PeerType
    <3> QED BY <3>1, <3>2, <3>3, <3>4, Chars
  <2> QED BY <1>3, <2>6, <2>7, <2>8, <2>9 DEF Step
<1> QED BY <1>2, <1>3

LEMMA StepExists ==
  ASSUME peer \in Seq(Seq(Char)), NEW p, Valid(p), ~ (p.t = "fine" /\ p.f = Len(peer))
  PROVE  \E x, q : Step(p, x, q)
<1>1. CASE p.t = "fine"
  <2>1. p.f < Len(peer)
    BY <1>1, LenProperties DEF Valid, Position
  <2>2. \E x, q : Opens(p, x, q)
    BY <1>1, <2>1 DEF Opens
  <2> QED BY <2>2 DEF Step
<1>2. CASE p.t = "stuff"
  <2>1. \E x, q : Escaped(p, x, q)
    BY <1>2 DEF Escaped, At
  <2> QED BY <2>1 DEF Step
<1>3. CASE p.t = "regular"
  <2>1. p.i < Len(peer[p.f]) \/ p.i = Len(peer[p.f])
    BY <1>3, InFrame
  <2>2. \E x, q : Plain(p, x, q) \/ Escapes(p, x, q) \/ Closes(p, x, q)
    BY <1>3, <2>1, Zenon DEF Plain, Escapes, Closes, At
  <2> QED BY <2>2 DEF Step
<1> QED BY <1>1, <1>2, <1>3 DEF Valid, Position

(* What arrives next is what the position asks for.                        *)
LEMMA NextItem ==
  ASSUME peer \in Seq(Seq(Char)), NEW p, Valid(p), NEW x \in Item, NEW rest \in Seq(Item),
         Taken(p) \o (<<x>> \o rest) = PeerLine(peer)
  PROVE  \E q : Step(p, x, q) /\ Valid(q) /\ Taken(q) \o rest = PeerLine(peer)
<1> DEFINE a == Taken(p)
           L == PeerLine(peer)
<1>1. a \in Seq(Item) /\ <<x>> \in Seq(Item) /\ <<x>> \o rest \in Seq(Item) /\ <<x>> \o rest # << >>
      /\ (<<x>> \o rest)[1] = x
  BY TakenExtends
<1>2. ~ (p.t = "fine" /\ p.f = Len(peer))
  <2> SUFFICES ASSUME a = L PROVE FALSE
    BY TakenExtends
  <2> HIDE DEF a, L
  <2>1. a \o (<<x>> \o rest) = a
    BY DEF a, L
  <2> QED BY <1>1, <2>1, ConcatEqualIffEmpty
<1>3. PICK y, q : Step(p, y, q)
  BY <1>2, StepExists
<1>4. Valid(q) /\ y \in Item /\ Taken(q) = Append(a, y)
  BY <1>3, StepTaken
<1>5. PICK u \in Seq(Item) : L = Taken(q) \o u
  BY <1>4, TakenExtends DEF Extends
<1> HIDE DEF a, L
<1>6. <<y>> \in Seq(Item) /\ <<y>> \o u \in Seq(Item) /\ (<<y>> \o u)[1] = y
  BY <1>4
<1>7. Taken(q) = a \o <<y>>
  BY <1>1, <1>4, AppendExtends
<1>8. L = a \o (<<y>> \o u)
  BY <1>1, <1>5, <1>6, <1>7, ConcatAssociative
<1>9. <<x>> \o rest = <<y>> \o u
  <2>1. a \o (<<x>> \o rest) = a \o (<<y>> \o u)
    BY <1>8 DEF a, L
  <2> QED BY <1>1, <1>6, <2>1, ConcatCancel
<1>10. x = y
  BY <1>1, <1>6, <1>9
<1>11. rest = u
  BY <1>1, <1>9, <1>10, ConcatCancel
<1> QED BY <1>3, <1>4, <1>5, <1>10, <1>11 DEF L

-----------------------------------------------------------------------------
(***************************************************************************)
(* In a frame the handler skips it, or has stored what came of its         *)
(* message; a finished message, whose frame it knows, stays until recv has *)
(* read it, and every frame read before is an earlier one.                 *)
(***************************************************************************)
Pending == IF rxReg = NoItem THEN coming ELSE <<rxReg>> \o coming

Below(n) == \A k \in 1 .. Len(received) : received[k].f < n

Ordered ==
  \A k \in 1 .. Len(received) :
    /\ received[k].f \in 1 .. Len(peer) /\ received[k].m = peer[received[k].f]
    /\ k > 1 => received[k - 1].f < received[k].f

Stores(p) ==
  /\ rx \in {"started", "regular", "stuff"} =>
       p.t # "fine" /\ recvMob = SubSeq(peer[p.f], 1, p.i) /\ (rx = "stuff" <=> p.t = "stuff")
  /\ rx = "fine" => /\ frame \in 1 .. p.f /\ (frame = p.f => p.t = "fine")
                    /\ recvMob = peer[frame]
  /\ Ordered /\ Below(p.f + 1) /\ (p.t # "fine" => Below(p.f))
  /\ rx = "fine" => Below(frame + 1) /\ (~ Reads => Below(frame))

Calls ==
  /\ Reads => rx = "fine"
  /\ pc = "storeTx" => state[2] = rx

RecvInv(p) == Valid(p) /\ Taken(p) \o Pending = PeerLine(peer) /\ Stores(p) /\ Calls

RecvIInv == Typed /\ Silent /\ (RxKept => \E p : RecvInv(p))

LEMMA ReceivedType ==
  ASSUME Typed PROVE \A k \in 1 .. Len(received) : received[k].f \in Nat
<1> DEFINE R == [m : Seq(Char), f : Nat]
<1>1. received \in Seq(R) /\ \A e \in R : e.f \in Nat
  BY DEF Typed
<1> HIDE DEF R
<1> QED BY <1>1, ElementOfSeq

LEMMA BelowMonotone ==
  ASSUME Typed, NEW a \in Nat, NEW b \in Nat, a <= b, Below(a)
  PROVE  Below(b)
<1>1. \A k \in 1 .. Len(received) : received[k].f \in Nat
  BY ReceivedType
<1> QED BY <1>1 DEF Below

(* The message recv returns is of a later frame than those before.         *)
LEMMA AppendsLater ==
  ASSUME Typed, Ordered, peer' = peer, NEW g \in 1 .. Len(peer), recvMob = peer[g], Below(g),
         received' = Append(received, [m |-> recvMob, f |-> g])
  PROVE  Ordered' /\ \A n \in Nat : g < n => Below(n)'
<1> DEFINE R == [m : Seq(Char), f : Nat]
           e == [m |-> recvMob, f |-> g]
           n == Len(received)
<1>1. e \in R /\ received \in Seq(R) /\ e.f = g /\ e.m = recvMob /\ g \in Nat /\ Len(peer) \in Nat
  BY UseType, LenProperties DEF Typed
<1>2. received' = Append(received, e)
  OBVIOUS
<1> HIDE DEF R, e
<1>3. /\ n \in Nat /\ Len(received') = n + 1 /\ received'[n + 1] = e
      /\ \A k \in 1 .. n : received'[k] = received[k]
  BY <1>1, <1>2, AppendProperties, LenProperties
<1>4. \A k \in 1 .. n : received[k].f \in Nat /\ received[k].f < g
  BY ReceivedType DEF Below
<1> HIDE DEF n
<1>5. \A k \in 1 .. n + 1 : k # n + 1 => k \in 1 .. n
  BY <1>3
<1>6. Ordered'
  <2>1. ASSUME NEW k \in 1 .. n + 1
        PROVE  /\ received'[k].f \in 1 .. Len(peer) /\ received'[k].m = peer[received'[k].f]
               /\ k > 1 => received'[k - 1].f < received'[k].f
    <3>1. CASE k = n + 1
      <4>1. k > 1 => received'[k - 1] = received[k - 1] /\ received[k - 1].f < g
        <5>1. k > 1 => k - 1 \in 1 .. n
          BY <1>3, <3>1
        <5> QED BY <1>3, <1>4, <5>1
      <4> QED BY <1>1, <1>3, <3>1, <4>1
    <3>2. CASE k # n + 1
      <4>1. k \in 1 .. n /\ (k > 1 => k - 1 \in 1 .. n)
        BY <1>3, <3>2
      <4>2. received'[k] = received[k] /\ (k > 1 => received'[k - 1] = received[k - 1])
        BY <1>3, <4>1
      <4> QED BY <4>1, <4>2 DEF Ordered, n
    <3> QED BY <3>1, <3>2
  <2> QED BY <1>3, <2>1 DEF Ordered
<1>7. ASSUME NEW j \in Nat, g < j PROVE Below(j)'
  <2>1. \A k \in 1 .. n + 1 : received'[k].f < j
    BY <1>1, <1>3, <1>4, <1>5, <1>7
  <2> QED BY <1>3, <2>1 DEF Below
<1> QED BY <1>6, <1>7

(* A step that leaves the line and the message alone.                      *)
LEMMA KeepsReceiving ==
  ASSUME NEW p, RecvInv(p), UNCHANGED <<rx, recvMob, rxReg, peer, coming, frame, received>>,
         Reads' => Reads \/ rx = "fine", Reads => Reads', pc' = "storeTx" => state'[2] = rx
  PROVE  RecvInv(p)'
<1>1. Valid(p)' /\ (Taken(p) \o Pending = PeerLine(peer))'
  BY DEF RecvInv, Valid, Taken, Pending
<1>2. Stores(p)' /\ Calls'
  BY DEF RecvInv, Stores, Ordered, Below, Calls
<1> QED BY <1>1, <1>2 DEF RecvInv

LEMMA ReadsReceiving ==
  ASSUME Typed, NEW p, RecvInv(p), recv
  PROVE  RecvInv(p)'
<1>1. /\ rx = "fine" /\ ~ Reads /\ Reads' /\ pc' = "resetRx"
      /\ received' = Append(received, [m |-> recvMob, f |-> frame])
      /\ UNCHANGED <<rx, recvMob, rxReg, peer, coming, frame>>
  BY DEF recv, finished, Reads, cframe
<1>2. /\ Valid(p) /\ Stores(p) /\ Ordered /\ Below(frame) /\ recvMob = peer[frame]
      /\ p.f \in Nat /\ p.f <= Len(peer) /\ frame \in 1 .. p.f /\ (frame = p.f => p.t = "fine")
  BY <1>1 DEF RecvInv, Stores, Valid, Position
<1>3. frame \in 1 .. Len(peer) /\ frame \in Nat /\ p.f + 1 \in Nat /\ frame < p.f + 1 /\ frame < frame + 1
      /\ frame + 1 \in Nat /\ (p.t # "fine" => frame < p.f)
  BY <1>2, UseType, LenProperties
<1>4. Ordered' /\ \A n \in Nat : frame < n => Below(n)'
  BY <1>1, <1>2, <1>3, AppendsLater
<1>5. Below(p.f + 1)' /\ (p.t # "fine" => Below(p.f)')
  BY <1>2, <1>3, <1>4
<1>6. Below(frame + 1)'
  <2>1. PICK g \in Nat : g = frame + 1
    BY <1>3
  <2>2. Below(g)' /\ g = (frame + 1)'
    BY <1>1, <1>3, <1>4, <2>1
  <2> QED BY <2>2 DEF Below
<1>7. Stores(p)'
  BY <1>1, <1>2, <1>4, <1>5, <1>6 DEF Stores
<1>8. Valid(p)' /\ (Taken(p) \o Pending = PeerLine(peer))'
  BY <1>1 DEF RecvInv, Valid, Taken, Pending
<1> QED BY <1>1, <1>7, <1>8 DEF RecvInv, Calls

LEMMA FreesReceiver ==
  ASSUME Typed, NEW p, RecvInv(p), storeRx
  PROVE  RecvInv(p)'
<1>1. /\ rx' = "invalid" /\ ~ Reads' /\ pc' = "idle"
      /\ UNCHANGED <<recvMob, rxReg, peer, coming, frame, received>>
  BY DEF storeRx, Reads, recver
<1>2. Stores(p)' /\ Calls'
  BY <1>1 DEF RecvInv, Stores, Calls, Ordered, Below
<1>3. Valid(p)' /\ (Taken(p) \o Pending = PeerLine(peer))'
  BY <1>1 DEF RecvInv, Valid, Taken, Pending
<1> QED BY <1>2, <1>3 DEF RecvInv

LEMMA ArrivesNext ==
  ASSUME Typed, NEW p, RecvInv(p), Arrive
  PROVE  RecvInv(p)'
<1>1. /\ rxReg = NoItem /\ coming # << >> /\ rxReg' = Head(coming) /\ coming' = Tail(coming)
      /\ UNCHANGED <<rx, pc, state, recvMob, peer, frame, received>>
  BY DEF Arrive, cframe, main
<1>2. Head(coming) \in Item /\ coming = <<Head(coming)>> \o Tail(coming)
  BY <1>1 DEF Typed
<1>3. Pending' = Pending
  <2>1. rxReg' # NoItem
    BY <1>1, <1>2, NoneProps
  <2>2. Pending = coming
    BY <1>1 DEF Pending
  <2>3. Pending' = <<rxReg'>> \o coming'
    BY <2>1 DEF Pending
  <2> QED BY <1>1, <1>2, <2>2, <2>3, Zenon
<1>4. Valid(p)' /\ (Taken(p) \o Pending = PeerLine(peer))'
  BY <1>1, <1>3 DEF RecvInv, Valid, Taken
<1>5. Stores(p)' /\ Calls'
  BY <1>1 DEF RecvInv, Stores, Ordered, Below, Calls, Reads
<1> QED BY <1>4, <1>5 DEF RecvInv

-----------------------------------------------------------------------------
(* getonReceive takes the character that leads from p to q.                *)
LEMMA StepOrder ==
  ASSUME NEW p, Valid(p), NEW x, NEW q, Step(p, x, q)
  PROVE  /\ p.f \in Nat /\ q.f \in Nat /\ p.f <= q.f
         /\ q.f = p.f => p.t # "fine"
         /\ q.f # p.f => q.f = p.f + 1 /\ q.t = "regular" /\ Opens(p, x, q)
         /\ Opens(p, x, q) => q.f = p.f + 1
<1>1. p.f \in Nat
  BY DEF Valid, Position
<1>2. CASE Opens(p, x, q)
  <2>1. q.f = p.f + 1 /\ q.t = "regular"
    BY <1>2 DEF Opens
  <2> QED BY <1>1, <1>2, <2>1
<1>3. CASE ~ Opens(p, x, q)
  <2>1. q.f = p.f /\ p.t # "fine"
    BY <1>3 DEF Step, Plain, Escapes, Escaped, Closes, At
  <2> QED BY <1>1, <1>3, <2>1
<1> QED BY <1>2, <1>3

LEMMA ReceivesStep ==
  ASSUME Typed, Silent, RxKept, NEW p, RecvInv(p), NEW q, Step(p, rxReg, q), Valid(q),
         getonReceive
  PROVE  Stores(q)' /\ Calls'
<1> DEFINE x  == rxReg
           in == transformIn(rx, x.c)
           f  == IF finished(rx) THEN frame ELSE x.f
           take == finished(in.rx) /\ use.RecvBack /\ fits
           m  == peer[p.f]
           c  == m[p.i + 1]
<1>1. /\ rx \in State /\ x # NoItem /\ x \in Item /\ x.c \in Char /\ peer \in Seq(Seq(Char))
      /\ Interrupted /\ use.RecvBack \in BOOLEAN
  BY UseType DEF Typed, Item, getonReceive
<1>2. /\ recvMob' = stored(in)
      /\ rx' = IF take THEN "invalid" ELSE in.rx
      /\ frame' = IF finished(in.rx) THEN f ELSE frame
      /\ received' = IF take THEN Append(received, [m |-> recvMob, f |-> f]) ELSE received
      /\ UNCHANGED <<tx, main, sender, use, peer, coming, accepted>>
  <2>1. recvPosition # payload
    BY SizeAssumption DEF recvPosition
  <2>2. (IF recvPosition = payload THEN "invalid" ELSE rx) = rx
    BY <2>1
  <2> QED BY <2>2, Zenon DEF getonReceive
<1>3. /\ in.rx \in State /\ in.c \in Char /\ in.data \in BOOLEAN
      /\ rx = "invalid" => in.rx = (IF x.c = sofr THEN "started" ELSE "invalid") /\ ~ in.data
      /\ rx = "fine" => in.rx = "fine" /\ ~ in.data
      /\ rx = "stuff" => in.rx = "regular" /\ in.data /\ in.c = Mod[x.c]
      /\ rx \in {"started", "regular"} =>
           /\ x.c = eofr => in.rx = "fine" /\ ~ in.data
           /\ x.c = esc => in.rx = "stuff" /\ ~ in.data
           /\ x.c \notin Stuffed => in.rx = "regular" /\ in.data /\ in.c = x.c
  BY <1>1, In
<1>4. /\ Stores(p) /\ Calls /\ Ordered /\ Valid(p)
      /\ Below(p.f + 1) /\ (p.t # "fine" => Below(p.f))
  BY DEF RecvInv, Stores
<1>5. /\ p.f \in Nat /\ q.f \in Nat /\ p.f <= q.f
      /\ q.f = p.f => p.t # "fine"
      /\ q.f # p.f => q.f = p.f + 1 /\ q.t = "regular" /\ Opens(p, x, q)
      /\ Opens(p, x, q) => q.f = p.f + 1
  BY <1>4, StepOrder
<1>6. q.f <= Len(peer) /\ Len(peer) \in Nat
  BY <1>1, LenProperties DEF Valid
<1>7. Below(q.f) /\ Below(q.f + 1)
  <2>1. q.f \in Nat /\ q.f + 1 \in Nat /\ q.f <= q.f + 1
    BY <1>5
  <2>2. Below(q.f)
    BY <1>4, <1>5
  <2> QED BY <2>1, <2>2, BelowMonotone
<1>8. stored(in) = IF in.data THEN Append(recvMob, in.c)
                   ELSE IF restarted(in.rx) THEN << >> ELSE recvMob
  BY DEF stored
<1> HIDE DEF in
<1>9. ~ finished(in.rx) => ~ take
  OBVIOUS
(* Main is not between the read and the write of send.                     *)
<1>10. pc # "storeTx" /\ UNCHANGED <<pc, state>> /\ (Reads => ~ use.RecvBack)
  <2>1. pc # "storeTx"
    BY <1>1 DEF RxKept, Alone, Silent, Sends, Interrupted
  <2> QED BY <1>2, <2>1 DEF main, Silent
<1>11. Reads' = Reads
  BY <1>10 DEF Reads
(* Where nothing is finished, received is what it was.                     *)
<1>12. ASSUME ~ finished(in.rx)
       PROVE  /\ rx' = in.rx /\ received' = received /\ Ordered' /\ Below(q.f + 1)' /\ Below(q.f)'
  BY <1>2, <1>4, <1>7, <1>12 DEF Ordered, Below
<1> USE DEF finished, restarted
<1>13. CASE rx = "fine"
  <2>1. /\ frame \in 1 .. p.f /\ (frame = p.f => p.t = "fine") /\ recvMob = peer[frame]
        /\ Below(frame + 1) /\ (~ Reads => Below(frame))
    BY <1>4, <1>13 DEF Stores
  <2>2. /\ in.rx = "fine" /\ ~ in.data /\ recvMob' = recvMob /\ f = frame /\ frame' = frame
    BY <1>2, <1>3, <1>8, <1>13
  <2>3. /\ frame \in Nat /\ frame < q.f /\ frame < q.f + 1 /\ frame \in 1 .. q.f
        /\ frame \in 1 .. Len(peer) /\ q.f + 1 \in Nat
    BY <1>5, <1>6, <2>1
  <2>4. CASE take
    <3>1. rx' = "invalid" /\ ~ Reads /\ received' = Append(received, [m |-> recvMob, f |-> frame])
      BY <1>2, <1>10, <2>2, <2>4
    <3>2. Ordered' /\ \A n \in Nat : frame < n => Below(n)'
      BY <1>2, <1>4, <2>1, <2>3, <3>1, AppendsLater
    <3>3. Below(q.f)' /\ Below(q.f + 1)'
      BY <1>5, <2>3, <3>2
    <3> QED BY <1>10, <1>11, <3>1, <3>2, <3>3 DEF Stores, Calls
  <2>5. CASE ~ take
    <3>1. rx' = "fine" /\ received' = received
      BY <1>2, <2>2, <2>5
    <3>2. Ordered' /\ Below(q.f)' /\ Below(q.f + 1)' /\ Below(frame + 1)' /\ (~ Reads => Below(frame)')
      <4>1. received' = received /\ peer' = peer /\ frame' = frame
        BY <1>2, <2>2, <3>1
      <4>2. Ordered' /\ Below(q.f)' /\ Below(q.f + 1)'
        BY <1>4, <1>7, <4>1 DEF Ordered, Below
      <4> QED BY <2>1, <4>1, <4>2 DEF Below
    <3>3. frame' \in 1 .. q.f /\ frame' # q.f /\ recvMob' = peer'[frame']
      BY <1>2, <1>5, <2>1, <2>2, <2>3
    <3>4. Stores(q)'
      BY <1>11, <3>1, <3>2, <3>3 DEF Stores
    <3> QED BY <1>10, <1>11, <3>1, <3>4 DEF Calls
  <2> QED BY <2>4, <2>5
<1>14. CASE rx = "invalid"
  <2>1. CASE Opens(p, x, q)
    <3>1. x.c = sofr /\ q = [f |-> p.f + 1, i |-> 0, t |-> "regular"]
      BY <2>1 DEF Opens
    <3>2. in.rx = "started" /\ ~ in.data
      BY <1>3, <1>14, <3>1
    <3>3. /\ rx' = "started" /\ recvMob' = << >> /\ received' = received /\ Ordered'
          /\ Below(q.f + 1)' /\ Below(q.f)'
      BY <1>2, <1>8, <1>12, <3>2
    <3>4. SubSeq(peer'[q.f], 1, q.i) = << >> /\ q.t = "regular"
      <4>1. q.i = 0 /\ q.t = "regular" /\ 0 \in Int /\ 1 \in Int /\ 0 < 1
        BY <3>1
      <4> QED BY <4>1, SubSeqEmpty
    <3>5. Stores(q)'
      BY <3>3, <3>4 DEF Stores
    <3>6. ~ Reads
      BY <1>4, <1>14 DEF Calls
    <3> QED BY <1>10, <1>11, <3>5, <3>6 DEF Calls
  <2>2. CASE ~ Opens(p, x, q)
    <3>1. x.c # sofr
      <4>1. p.t # "fine"
        BY <1>5, <2>2
      <4>2. p.t = "stuff" => c \in Stuffed
        BY <1>4 DEF Valid
      <4> QED BY <2>2, <4>2, Chars DEF Step, Plain, Escapes, Escaped, Closes, At
    <3>2. in.rx = "invalid"
      BY <1>3, <1>14, <3>1
    <3>3. rx' = "invalid" /\ Ordered' /\ Below(q.f + 1)' /\ Below(q.f)' /\ ~ Reads
      BY <1>4, <1>12, <1>14, <3>2 DEF Calls
    <3> QED BY <1>10, <1>11, <3>3 DEF Stores, Calls
  <2> QED BY <2>1, <2>2
<1>15. CASE rx \in {"started", "regular", "stuff"}
  <2>1. /\ p.t # "fine" /\ recvMob = SubSeq(m, 1, p.i) /\ (rx = "stuff" <=> p.t = "stuff")
        /\ ~ Reads
    BY <1>4, <1>15 DEF Stores, Calls
  <2>2. /\ p.f # 0 /\ p.f <= Len(peer) /\ m \in Seq(Char) /\ Len(m) \in Nat /\ p.i \in 0 .. Len(m)
        /\ p.i < Len(m) => p.i \in 0 .. Len(m) - 1 /\ c \in Char
    BY <1>1, <1>4, <2>1, InFrame
  <2>3. q.f = p.f /\ ~ Opens(p, x, q) /\ x.f = p.f /\ Below(p.f)
    <3>1. ~ Opens(p, x, q)
      BY <2>1 DEF Opens
    <3> QED BY <1>4, <2>1, <3>1 DEF Step, Plain, Escapes, Escaped, Closes, At
  <2>4. ASSUME p.i < Len(m), in.rx = "regular", in.data, in.c = c, q.t = "regular", q.i = p.i + 1
        PROVE  Stores(q)' /\ Calls'
    <3>1. rx' = "regular" /\ Ordered' /\ Below(q.f + 1)' /\ Below(q.f)'
      BY <1>12, <2>4
    <3>2. recvMob' = Append(SubSeq(m, 1, p.i), c)
      BY <1>2, <1>8, <2>1, <2>4
    <3>3. SubSeq(m, 1, p.i + 1) = Append(SubSeq(m, 1, p.i), c)
      <4> HIDE DEF m
      <4>1. p.i + 1 \in 1 .. Len(m) /\ 1 \in 1 .. Len(m) /\ (p.i + 1) - 1 = p.i
        BY <2>2, <2>4
      <4>2. SubSeq(m, 1, p.i + 1) = SubSeq(m, 1, (p.i + 1) - 1) \o << m[p.i + 1] >>
        BY <2>2, <4>1, SubSeqRecursiveSecond
      <4>3. SubSeq(m, 1, p.i) \in Seq(Char) /\ c \in Char
        BY <2>2, <2>4
      <4> QED BY <4>1, <4>2, <4>3, AppendExtends
    <3>4. recvMob' = SubSeq(peer'[q.f], 1, q.i)
      BY <1>2, <2>3, <2>4, <3>2, <3>3
    <3>5. Stores(q)'
      BY <2>4, <3>1, <3>4 DEF Stores
    <3> QED BY <1>10, <1>11, <2>1, <3>5 DEF Calls
  <2>5. CASE Plain(p, x, q)
    <3>1. p.t = "regular" /\ p.i < Len(m) /\ c \notin Stuffed /\ x.c = c
          /\ q.t = "regular" /\ q.i = p.i + 1
      BY <2>5 DEF Plain, At
    <3>2. rx \in {"started", "regular"}
      BY <1>15, <2>1, <3>1
    <3> QED BY <1>3, <2>4, <3>1, <3>2
  <2>6. CASE Escapes(p, x, q)
    <3>1. p.t = "regular" /\ x.c = esc /\ q.t = "stuff" /\ q.i = p.i
      BY <2>6 DEF Escapes, At
    <3>2. in.rx = "stuff" /\ ~ in.data
      BY <1>3, <1>15, <2>1, <3>1
    <3>3. /\ rx' = "stuff" /\ recvMob' = recvMob /\ Ordered' /\ Below(q.f + 1)' /\ Below(q.f)'
      BY <1>2, <1>8, <1>12, <3>2
    <3>4. recvMob' = SubSeq(peer'[q.f], 1, q.i)
      BY <1>2, <2>1, <2>3, <3>1, <3>3
    <3>5. Stores(q)'
      BY <3>1, <3>3, <3>4 DEF Stores
    <3> QED BY <1>10, <1>11, <2>1, <3>5 DEF Calls
  <2>7. CASE Escaped(p, x, q)
    <3>1. p.t = "stuff" /\ x.c = Mod[c] /\ q.t = "regular" /\ q.i = p.i + 1 /\ p.i < Len(m)
      BY <1>4, <2>7 DEF Escaped, At, Valid
    <3>2. in.rx = "regular" /\ in.data /\ in.c = c
      BY <1>3, <2>1, <2>2, <3>1, Chars
    <3> QED BY <2>4, <3>1, <3>2
  <2>8. CASE Closes(p, x, q)
    <3>1. p.t = "regular" /\ p.i = Len(m) /\ x.c = eofr /\ q.t = "fine" /\ q.i = p.i
      BY <2>8 DEF Closes, At
    <3>2. in.rx = "fine" /\ ~ in.data
      BY <1>3, <1>15, <2>1, <3>1
    <3>3. /\ recvMob' = recvMob /\ f = p.f /\ frame' = p.f
      BY <1>2, <1>8, <1>15, <2>3, <3>2
    <3>4. recvMob = peer[p.f]
      BY <2>1, <2>2, <3>1, SubSeqFull
    <3>5. p.f \in 1 .. Len(peer) /\ p.f \in 1 .. p.f /\ p.f < p.f + 1 /\ p.f + 1 \in Nat
      BY <1>5, <1>6, <2>2
    <3>6. CASE take
      <4>1. rx' = "invalid" /\ received' = Append(received, [m |-> recvMob, f |-> p.f])
        BY <1>2, <3>3, <3>6
      <4>2. Ordered' /\ \A n \in Nat : p.f < n => Below(n)'
        BY <1>2, <1>4, <2>3, <3>4, <3>5, <4>1, AppendsLater
      <4>3. Below(q.f + 1)'
        BY <2>3, <3>5, <4>2
      <4> QED BY <1>10, <1>11, <2>1, <3>1, <4>1, <4>2, <4>3 DEF Stores, Calls
    <3>7. CASE ~ take
      <4>1. rx' = "fine" /\ received' = received
        BY <1>2, <3>2, <3>7
      <4>2. Ordered' /\ Below(q.f + 1)' /\ Below(frame + 1)' /\ Below(frame)'
        <5>1. received' = received /\ peer' = peer /\ frame' = q.f
          BY <1>2, <2>3, <3>3, <4>1
        <5>2. Ordered' /\ Below(q.f + 1)' /\ Below(q.f)'
          BY <1>4, <1>7, <5>1 DEF Ordered, Below
        <5> QED BY <5>1, <5>2 DEF Below
      <4>3. frame' \in 1 .. q.f /\ recvMob' = peer'[frame']
        BY <1>2, <2>3, <3>3, <3>4, <3>5
      <4>4. Stores(q)'
        BY <3>1, <4>1, <4>2, <4>3 DEF Stores
      <4> QED BY <1>10, <4>1, <4>4 DEF Calls
    <3> QED BY <3>6, <3>7
  <2> QED BY <2>3, <2>5, <2>6, <2>7, <2>8 DEF Step
<1> QED BY <1>1, <1>13, <1>14, <1>15 DEF State

LEMMA ReceivesNext ==
  ASSUME Typed, Silent, RxKept, NEW p, RecvInv(p), getonReceive
  PROVE  \E q : RecvInv(q)'
<1>1. /\ rxReg # NoItem /\ rxReg \in Item /\ coming \in Seq(Item) /\ peer \in Seq(Seq(Char))
      /\ rxReg' = NoItem
  BY UseType DEF Typed, getonReceive
<1>2. UNCHANGED <<peer, coming>>
  BY Zenon DEF getonReceive
<1>3. Taken(p) \o (<<rxReg>> \o coming) = PeerLine(peer) /\ Valid(p)
  BY <1>1 DEF RecvInv, Pending
<1>4. PICK q : Step(p, rxReg, q) /\ Valid(q) /\ Taken(q) \o coming = PeerLine(peer)
  <2>1. PICK x \in Item, rest \in Seq(Item) : x = rxReg /\ rest = coming
    BY <1>1
  <2>2. Taken(p) \o (<<x>> \o rest) = PeerLine(peer)
    BY <1>3, <2>1
  <2>3. \E q : Step(p, x, q) /\ Valid(q) /\ Taken(q) \o rest = PeerLine(peer)
    BY <1>1, <1>3, <2>2, NextItem
  <2> QED BY <2>1, <2>3
<1>5. Pending' = coming
  BY <1>1, <1>2 DEF Pending
<1>6. Valid(q)' /\ Taken(q)' = Taken(q)
  BY <1>2, <1>4 DEF Valid, Taken
<1>7. (Taken(q) \o Pending = PeerLine(peer))'
  BY <1>2, <1>4, <1>5, <1>6
<1>8. Stores(q)' /\ Calls'
  BY <1>4, ReceivesStep
<1> QED BY <1>6, <1>7, <1>8 DEF RecvInv

LEMMA InitReceiving == Init => \E p : RecvInv(p)
<1> SUFFICES ASSUME Init PROVE \E p : RecvInv(p)
  OBVIOUS
<1> DEFINE p == [f |-> 0, i |-> 0, t |-> "fine"]
<1>1. Typed /\ peer \in Seq(Seq(Char)) /\ Len(peer) \in Nat
  BY InitTyped, UseType, LenProperties
<1>2. Valid(p)
  BY <1>1 DEF Valid, Position
<1>3. Taken(p) = << >>
  <2>1. UpTo(Items(peer), 0) = << >>
    BY <1>1, ItemsType, UpToAll
  <2> QED BY <2>1 DEF Taken
<1>4. Taken(p) \o Pending = PeerLine(peer)
  <2>1. Pending = PeerLine(peer) /\ PeerLine(peer) \in Seq(Item)
    BY <1>1, ItemsType DEF Init, Pending
  <2> QED BY <1>3, <2>1, ConcatEmptySeq
<1>5. Stores(p) /\ Calls
  BY EmptySeq DEF Init, Stores, Calls, Ordered, Below, Reads
<1> QED BY <1>2, <1>4, <1>5 DEF RecvInv

LEMMA NextReceiving == RecvIInv /\ [Next]_vars => RecvIInv'
<1> SUFFICES ASSUME RecvIInv, [Next]_vars PROVE RecvIInv'
  OBVIOUS
<1>1. Typed' /\ Silent'
  BY NextTyped, NextSilent DEF RecvIInv
<1>2. UNCHANGED <<use, peer>>
  BY DEF Next, Main, vars, recver, cframe, send, enableonReady, Starts, sendSending, sendSize,
         sendPosition, sendCopy, resetTx, storeTx, sendEnable, recv, resetRx, storeRx,
         putonReady, getonReceive, Transmit, Arrive
<1> SUFFICES ASSUME RxKept PROVE \E p : RecvInv(p)'
  BY <1>1, <1>2 DEF RecvIInv, RxKept, Alone
<1>3. PICK p : RecvInv(p)
  BY DEF RecvIInv
<1>4. Typed /\ Silent
  BY DEF RecvIInv
<1>5. CASE \/ \E m \in Message : send(m) \/ enableonReady(m)
           \/ sendSending \/ sendSize \/ sendPosition \/ sendCopy \/ sendEnable
           \/ Transmit \/ UNCHANGED vars
  <2>1. UNCHANGED <<rx, recvMob, rxReg, peer, coming, frame, received>> /\ state' = state
    BY <1>5 DEF vars, recver, cframe, main, send, enableonReady, Starts, sendSending,
                sendSize, sendPosition, sendCopy, sendEnable, Transmit
  <2>2. Reads' <=> Reads
    BY <1>5 DEF Reads, vars, main, send, enableonReady, Starts, sendSending, sendSize,
                sendPosition, sendCopy, sendEnable, Transmit
  <2>3. pc' = "storeTx" => pc = "storeTx"
    BY <1>5 DEF vars, main, send, enableonReady, Starts, sendSending, sendSize,
                sendPosition, sendCopy, sendEnable, Transmit
  <2>4. pc' = "storeTx" => state'[2] = rx
    BY <1>3, <2>1, <2>3 DEF RecvInv, Calls
  <2> QED BY <1>3, <2>1, <2>2, <2>4, KeepsReceiving
<1>6. CASE resetTx
  <2>1. /\ UNCHANGED <<rx, recvMob, rxReg, peer, coming, frame, received>> /\ state'[2] = rx
        /\ ~ Reads /\ ~ Reads'
    BY <1>6 DEF resetTx, recver, cframe, Reads
  <2> QED BY <1>3, <2>1, KeepsReceiving
<1>7. CASE storeTx
  <2>1. /\ UNCHANGED <<rx, recvMob, rxReg, peer, coming, frame, received>> /\ pc' # "storeTx"
        /\ ~ Reads /\ ~ Reads'
    BY <1>3, <1>7 DEF storeTx, recver, RecvInv, Calls, Reads
  <2> QED BY <1>3, <2>1, KeepsReceiving
<1>8. CASE resetRx
  <2>1. /\ UNCHANGED <<rx, recvMob, rxReg, peer, coming, frame, received>> /\ pc' # "storeTx"
        /\ Reads /\ Reads'
    BY <1>8 DEF resetRx, recver, cframe, Reads
  <2> QED BY <1>3, <2>1, KeepsReceiving
<1>9. CASE storeRx
  BY <1>3, <1>4, <1>9, FreesReceiver
<1>10. CASE recv
  BY <1>3, <1>4, <1>10, ReadsReceiving
<1>11. CASE putonReady
  <2>1. UNCHANGED <<rx, recvMob, rxReg, peer, coming, frame, received, pc, state>>
    BY <1>11 DEF putonReady, main, recver
  <2>2. (Reads' <=> Reads) /\ (pc' = "storeTx" => state'[2] = rx)
    BY <1>3, <2>1 DEF Reads, RecvInv, Calls
  <2> QED BY <1>3, <2>1, <2>2, KeepsReceiving
<1>12. CASE getonReceive
  BY <1>3, <1>4, <1>12, ReceivesNext
<1>13. CASE Arrive
  BY <1>3, <1>4, <1>13, ArrivesNext
<1> QED BY <1>5, <1>6, <1>7, <1>8, <1>9, <1>10, <1>11, <1>12, <1>13 DEF Next, Main

LEMMA ReceivingSent == RecvIInv => ReceivedIsSent
<1> SUFFICES ASSUME RecvIInv, RxKept PROVE ReceivedIsSent
  BY DEF ReceivedIsSent
<1>1. Ordered
  BY DEF RecvIInv, RecvInv, Stores
<1>2. DOMAIN received = 1 .. Len(received)
  BY LenProperties DEF RecvIInv, Typed
<1> QED BY <1>1, <1>2 DEF Ordered, ReceivedIsSent

(***************************************************************************)
(* However the line, the handler and main interleave, what recv returns is *)
(* a message of the peer, whole, and of a later frame than the one before  *)
(* (cdeviceframe.h:169-186, 273-284).                                      *)
(***************************************************************************)
THEOREM ReceivedCorrect == Spec => []ReceivedIsSent
<1>1. Init => RecvIInv
  BY InitTyped, InitReceiving DEF RecvIInv
<1>2. RecvIInv /\ [Next]_vars => RecvIInv'
  BY NextReceiving
<1>3. RecvIInv => ReceivedIsSent
  BY ReceivingSent
<1> QED BY <1>1, <1>2, <1>3, PTL DEF Spec

=============================================================================
