----------------------------- MODULE RingProofs -----------------------------
(***************************************************************************)
(* Lemmas about the index arithmetic of module Ring, for every Length and  *)
(* every set S of elements: what storing behind the last element and       *)
(* advancing either index do to the contents of a ring.  The proofs about  *)
(* the buffers built from a ring rest on them.  The theorems about         *)
(* QueueBuffer, the ring that one caller uses, are the second part.        *)
(***************************************************************************)
EXTENDS QueueBuffer, SequenceTheorems, TLAPS

(* The rings of elements of S.                                             *)
Rings(S) == [Slot -> S]

(***************************************************************************)
(* add1overrun stays within the ring.                                      *)
(***************************************************************************)
LEMMA add1overrunSlot ==
  ASSUME NEW p \in Slot
  PROVE  add1overrun(p) \in Slot
BY LengthAssumption DEF Slot, add1overrun

(***************************************************************************)
(* Every index that Contents reads is a slot of the ring.                  *)
(***************************************************************************)
LEMMA WrapSlot ==
  ASSUME NEW p \in Slot, NEW q \in Slot, NEW i \in 1 .. Used(p, q)
  PROVE  Wrap(p + i - 1) \in Slot
BY LengthAssumption DEF Slot, Used, Wrap

LEMMA UsedRange ==
  ASSUME NEW p \in Slot, NEW q \in Slot
  PROVE  Used(p, q) \in 0 .. Length - 1
BY LengthAssumption DEF Slot, Used

(***************************************************************************)
(* The contents of a ring are a sequence of elements, one per used slot.   *)
(***************************************************************************)
LEMMA ContentsIsSeq ==
  ASSUME NEW S, NEW b \in Rings(S), NEW p \in Slot, NEW q \in Slot
  PROVE  /\ Contents(b, p, q) \in Seq(S)
         /\ Len(Contents(b, p, q)) = Used(p, q)
         /\ \A i \in 1 .. Used(p, q) : Contents(b, p, q)[i] = b[Wrap(p + i - 1)]
<1>1. Used(p, q) \in Nat
  BY UsedRange
<1>2. \A i \in 1 .. Used(p, q) : b[Wrap(p + i - 1)] \in S
  BY WrapSlot DEF Rings
<1>3. Contents(b, p, q) \in Seq(S)
  BY <1>1, <1>2, IsASeq DEF Contents
<1>4. DOMAIN Contents(b, p, q) = 1 .. Used(p, q)
  BY DEF Contents
<1>5. Len(Contents(b, p, q)) = Used(p, q)
  BY <1>1, <1>3, <1>4, LenProperties
<1>6. QED
  BY <1>3, <1>5 DEF Contents

(***************************************************************************)
(* b2 is b with x stored in slot q, as put leaves it.                      *)
(***************************************************************************)
Stored(b, b2, q, x) == \A k \in Slot : b2[k] = IF k = q THEN x ELSE b[k]

(***************************************************************************)
(* Storing at pose and advancing it appends, as long as the ring is not    *)
(* full before.                                                            *)
(***************************************************************************)
LEMMA PutAppends ==
  ASSUME NEW S, NEW b \in Rings(S), NEW p \in Slot, NEW q \in Slot,
         NEW b2 \in Rings(S), NEW q2 \in Slot, NEW x \in S
  PROVE  /\ ~ isFull_i(p, q)
         /\ q2 = add1overrun(q)
         /\ Stored(b, b2, q, x)
         => Contents(b2, p, q2) = Append(Contents(b, p, q), x)
<1> DEFINE s == Contents(b, p, q)
           t == Contents(b2, p, q2)
           n == Used(p, q)
<1>1. n \in Nat
  BY UsedRange
<1>2. /\ s \in Seq(S)
      /\ Len(s) = n
      /\ \A i \in 1 .. n : s[i] = b[Wrap(p + i - 1)]
  BY ContentsIsSeq, Zenon
<1>3. /\ t \in Seq(S)
      /\ Len(t) = Used(p, q2)
      /\ \A i \in 1 .. Used(p, q2) : t[i] = b2[Wrap(p + i - 1)]
  BY ContentsIsSeq, Zenon
<1> SUFFICES ASSUME ~ isFull_i(p, q),
                    q2 = add1overrun(q),
                    \A k \in Slot : b2[k] = IF k = q THEN x ELSE b[k]
             PROVE  t = Append(s, x)
  BY DEF Stored
<1>4. Used(p, q2) = n + 1
  BY LengthAssumption DEF Slot, Used, add1overrun, isFull_i
<1>5. Wrap(p + (n + 1) - 1) = q
  BY LengthAssumption DEF Slot, Used, Wrap
<1>6. \A i \in 1 .. n : Wrap(p + i - 1) # q /\ Wrap(p + i - 1) \in Slot
  BY LengthAssumption DEF Slot, Used, Wrap
<1> HIDE DEF s, t, n
<1>7. /\ Append(s, x) \in Seq(S) /\ Len(Append(s, x)) = n + 1
      /\ \A i \in 1 .. n : Append(s, x)[i] = s[i]
      /\ Append(s, x)[n + 1] = x
  BY <1>2, AppendProperties
<1>8. t[n + 1] = Append(s, x)[n + 1]
  <2>1. t[n + 1] = b2[Wrap(p + (n + 1) - 1)]
    BY <1>1, <1>3, <1>4
  <2> QED BY <2>1, <1>5, <1>7
<1>9. \A i \in 1 .. n : t[i] = Append(s, x)[i]
  <2> SUFFICES ASSUME NEW i \in 1 .. n
               PROVE  t[i] = Append(s, x)[i]
    OBVIOUS
  <2>1. t[i] = b2[Wrap(p + i - 1)]
    BY <1>1, <1>3, <1>4
  <2>2. b2[Wrap(p + i - 1)] = b[Wrap(p + i - 1)]
    BY <1>6
  <2>3. s[i] = b[Wrap(p + i - 1)] /\ Append(s, x)[i] = s[i]
    BY ONLY <1>2, <1>7, i \in 1 .. n, Zenon
  <2> QED BY <2>1, <2>2, <2>3, Zenon
<1>10. \A i \in 1 .. n + 1 : t[i] = Append(s, x)[i]
  <2>1. ASSUME NEW i \in 1 .. n + 1, i # n + 1
        PROVE  i \in 1 .. n
    BY <1>1, <2>1
  <2> QED BY <1>8, <1>9, <2>1, Zenon
<1>11. Len(t) = Len(Append(s, x)) /\ \A i \in 1 .. Len(t) : t[i] = Append(s, x)[i]
  BY <1>3, <1>4, <1>7, <1>10
<1> QED
  BY ONLY <1>3, <1>7, <1>11, SeqEqual, Zenon

(***************************************************************************)
(* Advancing poss removes the first element of a ring that is not empty.   *)
(***************************************************************************)
LEMMA AdvanceIsTail ==
  ASSUME NEW S, NEW b \in Rings(S), NEW p \in Slot, NEW q \in Slot,
         NEW p2 \in Slot
  PROVE  p # q /\ p2 = add1overrun(p)
         => /\ Contents(b, p, q) # << >>
            /\ Head(Contents(b, p, q)) = b[p]
            /\ Contents(b, p2, q) = Tail(Contents(b, p, q))
<1> DEFINE s == Contents(b, p, q)
           t == Contents(b, p2, q)
           n == Used(p, q)
<1>1. /\ s \in Seq(S)
      /\ Len(s) = n
      /\ \A i \in 1 .. n : s[i] = b[Wrap(p + i - 1)]
  BY ContentsIsSeq, Zenon
<1>2. /\ t \in Seq(S)
      /\ Len(t) = Used(p2, q)
      /\ \A i \in 1 .. Used(p2, q) : t[i] = b[Wrap(p2 + i - 1)]
  BY ContentsIsSeq, Zenon
<1> SUFFICES ASSUME p # q, p2 = add1overrun(p)
             PROVE  s # << >> /\ Head(s) = b[p] /\ t = Tail(s)
  OBVIOUS
<1>3. Used(p2, q) = n - 1 /\ n \in Nat \ {0}
  BY LengthAssumption DEF Slot, Used, add1overrun
<1>4. \A i \in 1 .. n - 1 : Wrap(p2 + i - 1) = Wrap(p + (i + 1) - 1)
  BY LengthAssumption DEF Slot, Used, Wrap, add1overrun
<1>5. Wrap(p + 1 - 1) = p
  BY LengthAssumption DEF Slot, Wrap
<1> HIDE DEF s, t, n
<1>6. s # << >> /\ s[1] = b[p]
  BY <1>1, <1>3, <1>5, EmptySeq
<1>7. /\ Tail(s) \in Seq(S) /\ Len(Tail(s)) = n - 1
      /\ \A i \in 1 .. n - 1 : Tail(s)[i] = s[i + 1]
      /\ Head(s) = s[1]
  BY <1>1, <1>6, HeadTailProperties
<1>8. \A i \in 1 .. n - 1 : t[i] = Tail(s)[i]
  <2> SUFFICES ASSUME NEW i \in 1 .. n - 1
               PROVE  t[i] = Tail(s)[i]
    OBVIOUS
  <2>1. i \in 1 .. n /\ i + 1 \in 1 .. n /\ i \in 1 .. Used(p2, q)
    BY <1>3
  <2>2. t[i] = b[Wrap(p + (i + 1) - 1)]
    BY <1>2, <1>4, <2>1
  <2>3. s[i + 1] = b[Wrap(p + (i + 1) - 1)]
    BY ONLY <1>1, <2>1, Zenon
  <2> QED BY <1>7, <2>2, <2>3, Zenon
<1>9. Len(t) = Len(Tail(s)) /\ \A i \in 1 .. Len(t) : t[i] = Tail(s)[i]
  BY <1>2, <1>3, <1>7, <1>8
<1>10. t = Tail(s)
  BY ONLY <1>2, <1>7, <1>9, SeqEqual, Zenon
<1> QED
  BY <1>6, <1>7, <1>10

(***************************************************************************)
(* A ring is full when its indices say so, and its contents are empty      *)
(* when the indices meet.                                                  *)
(***************************************************************************)
LEMMA FullAndEmpty ==
  ASSUME NEW S, NEW b \in Rings(S), NEW p \in Slot, NEW q \in Slot
  PROVE  /\ isFull_i(p, q) <=> Used(p, q) = Length - 1
         /\ p = q <=> Contents(b, p, q) = << >>
<1>1. isFull_i(p, q) <=> Used(p, q) = Length - 1
  BY LengthAssumption DEF Slot, Used, isFull_i
<1>2. p = q <=> Used(p, q) = 0
  BY LengthAssumption DEF Slot, Used
<1>3. Contents(b, p, q) \in Seq(S) /\ Len(Contents(b, p, q)) = Used(p, q)
  BY ContentsIsSeq, Zenon
<1>4. QED
  BY <1>1, <1>2, <1>3, EmptySeq

(***************************************************************************)
(* Storing at pose, before it is advanced, leaves the contents alone: the  *)
(* slot behind the last element is not one of theirs.                      *)
(***************************************************************************)
LEMMA StoreKeeps ==
  ASSUME NEW S, NEW b \in Rings(S), NEW p \in Slot, NEW q \in Slot,
         NEW b2 \in Rings(S), NEW x
  PROVE  Stored(b, b2, q, x) => Contents(b2, p, q) = Contents(b, p, q)
<1> DEFINE s == Contents(b, p, q)
           t == Contents(b2, p, q)
           n == Used(p, q)
<1>1. n \in Nat
  BY UsedRange
<1>2. /\ s \in Seq(S)
      /\ Len(s) = n
      /\ \A i \in 1 .. n : s[i] = b[Wrap(p + i - 1)]
  BY ContentsIsSeq, Zenon
<1>3. /\ t \in Seq(S)
      /\ Len(t) = n
      /\ \A i \in 1 .. n : t[i] = b2[Wrap(p + i - 1)]
  BY ContentsIsSeq, Zenon
<1> SUFFICES ASSUME \A k \in Slot : b2[k] = IF k = q THEN x ELSE b[k]
             PROVE  t = s
  BY DEF Stored
<1>4. \A i \in 1 .. n : Wrap(p + i - 1) # q /\ Wrap(p + i - 1) \in Slot
  BY LengthAssumption DEF Slot, Used, Wrap
<1> HIDE DEF s, t, n
<1>5. \A i \in 1 .. n : t[i] = s[i]
  BY <1>2, <1>3, <1>4
<1> QED
  BY ONLY <1>2, <1>3, <1>5, SeqEqual, Zenon

(***************************************************************************)
(* b2 is b with the slots from q on filled with the elements of t.         *)
(***************************************************************************)
FilledWith(b, b2, q, t) ==
  \A k \in Slot :
    b2[k] = IF Used(q, k) < Len(t) THEN t[Used(q, k) + 1] ELSE b[k]

(***************************************************************************)
(* Filling free slots from pose on appends what they are filled with.      *)
(***************************************************************************)
LEMMA FillAppends ==
  ASSUME NEW S, NEW b \in Rings(S), NEW p \in Slot, NEW q \in Slot,
         NEW b2 \in Rings(S), NEW q2 \in Slot, NEW t \in Seq(S)
  PROVE  /\ Len(t) <= (Length - 1) - Used(p, q)
         /\ q2 = Wrap(q + Len(t))
         /\ FilledWith(b, b2, q, t)
         => Contents(b2, p, q2) = Contents(b, p, q) \o t
<1> DEFINE s == Contents(b, p, q)
           u == Contents(b2, p, q2)
           n == Used(p, q)
           m == Len(t)
<1>1. n \in Nat /\ m \in Nat
  BY UsedRange, LenProperties
<1>2. /\ s \in Seq(S)
      /\ Len(s) = n
      /\ \A i \in 1 .. n : s[i] = b[Wrap(p + i - 1)]
  BY ContentsIsSeq, Zenon
<1>3. /\ u \in Seq(S)
      /\ Len(u) = Used(p, q2)
      /\ \A i \in 1 .. Used(p, q2) : u[i] = b2[Wrap(p + i - 1)]
  BY ContentsIsSeq, Zenon
<1>4. /\ s \o t \in Seq(S)
      /\ Len(s \o t) = n + m
      /\ \A i \in 1 .. n + m :
           (s \o t)[i] = IF i <= n THEN s[i] ELSE t[i - n]
  <2>1. /\ s \o t \in Seq(S)
        /\ Len(s \o t) = Len(s) + Len(t)
        /\ \A i \in 1 .. Len(s) + Len(t) :
             (s \o t)[i] = IF i <= Len(s) THEN s[i] ELSE t[i - Len(s)]
    BY <1>2, ConcatProperties, Zenon
  <2> QED BY <1>2, <2>1, Zenon
<1> SUFFICES ASSUME m <= (Length - 1) - n,
                    q2 = Wrap(q + m),
                    \A k \in Slot : b2[k] = IF Used(q, k) < m THEN t[Used(q, k) + 1]
                                                              ELSE b[k]
             PROVE  u = s \o t
  BY DEF FilledWith
<1>5. Used(p, q2) = n + m
  BY <1>1, LengthAssumption DEF Slot, Used, Wrap
<1>6. \A i \in 1 .. n + m :
        /\ Wrap(p + i - 1) \in Slot
        /\ i <= n => ~ Used(q, Wrap(p + i - 1)) < m
        /\ ~ i <= n => Used(q, Wrap(p + i - 1)) = i - n - 1
  BY <1>1, LengthAssumption DEF Slot, Used, Wrap
<1> HIDE DEF s, u, n, m
<1>7. \A i \in 1 .. n + m : u[i] = (s \o t)[i]
  <2> SUFFICES ASSUME NEW i \in 1 .. n + m
               PROVE  u[i] = (s \o t)[i]
    OBVIOUS
  <2> DEFINE k == Wrap(p + i - 1)
  <2>1. k \in Slot /\ u[i] = b2[k]
    BY <1>3, <1>5, <1>6
  <2>2. CASE i <= n
    <3>1. b2[k] = b[k]
      BY <1>6, <2>1, <2>2
    <3>2. s[i] = b[k]
      BY <1>1, <1>2, <2>2
    <3> QED BY <1>4, <2>1, <2>2, <3>1, <3>2
  <2>3. CASE ~ i <= n
    <3>1. Used(q, k) < m /\ Used(q, k) + 1 = i - n
      BY <1>1, <1>6, <2>3
    <3>2. b2[k] = t[i - n]
      BY <2>1, <3>1
    <3> QED BY <1>4, <2>1, <2>3, <3>2
  <2> QED BY <2>2, <2>3
<1> QED
  BY ONLY <1>3, <1>4, <1>5, <1>7, SeqEqual, Zenon
(***************************************************************************)
(* Which slots hold an element after a step: those that did, without the   *)
(* first one when poss is advanced, with pose when pose is advanced, with  *)
(* the n slots from pose on when they are filled; and all but pose when    *)
(* the ring is full.                                                       *)
(***************************************************************************)
InUse(p, q, s) == Used(p, s) < Used(p, q)

LEMMA InUseSteps ==
  ASSUME NEW p \in Slot, NEW q \in Slot, NEW s \in Slot
  PROVE  /\ p # q /\ InUse(add1overrun(p), q, s) => InUse(p, q, s)
         /\ InUse(p, add1overrun(q), s) => s = q \/ InUse(p, q, s)
         /\ isFull_i(p, q) /\ s # q => InUse(p, q, s)
         /\ ~ InUse(p, q, q)
<1> USE LengthAssumption DEF InUse, Slot, Used, add1overrun, isFull_i
<1>1. p # q /\ InUse(add1overrun(p), q, s) => InUse(p, q, s)
  OBVIOUS
<1>2. InUse(p, add1overrun(q), s) => s = q \/ InUse(p, q, s)
  OBVIOUS
<1>3. isFull_i(p, q) /\ s # q => InUse(p, q, s)
  OBVIOUS
<1>4. ~ InUse(p, q, q)
  OBVIOUS
<1> QED BY <1>1, <1>2, <1>3, <1>4, Zenon

LEMMA InUseFilled ==
  ASSUME NEW p \in Slot, NEW q \in Slot, NEW s \in Slot, NEW n \in Nat,
         n <= (Length - 1) - Used(p, q), InUse(p, Wrap(q + n), s)
  PROVE  Used(q, s) < n \/ InUse(p, q, s)
BY LengthAssumption DEF InUse, Slot, Used, Wrap

-----------------------------------------------------------------------------
(* A sequence whose elements are all in G is a sequence over G.            *)
LEMMA SeqOfElements ==
  ASSUME NEW S, NEW G, NEW s \in Seq(S), \A i \in 1 .. Len(s) : s[i] \in G
  PROVE  s \in Seq(G)
<1>1. Len(s) \in Nat /\ s = [i \in 1 .. Len(s) |-> s[i]]
  BY LenProperties
<1>2. [i \in 1 .. Len(s) |-> s[i]] \in Seq(G)
  BY <1>1, IsASeq
<1> QED BY <1>1, <1>2, Zenon

(* Each element of s is a number from 1 to g, larger than the one before.  *)
Ordered(s, g) ==
  /\ \A i, j \in 1 .. Len(s) : i < j => s[i] < s[j]
  /\ \A i \in 1 .. Len(s) : s[i] \in 1 .. g

EndsWith(s, g) == s # << >> /\ s[Len(s)] = g

(* The bound of an ordered sequence may grow, and the next number may be   *)
(* appended to it.                                                         *)
LEMMA OrderedMore ==
  ASSUME NEW s \in Seq(Nat), NEW g \in Nat, NEW h \in Nat, Ordered(s, g), g <= h
  PROVE  Ordered(s, h)
<1>1. \A x : x \in 1 .. g => x \in 1 .. h
  OBVIOUS
<1> QED BY <1>1, Zenon DEF Ordered

LEMMA OrderedAppend ==
  ASSUME NEW s \in Seq(Nat), NEW g \in Nat, Ordered(s, g)
  PROVE  /\ Append(s, g + 1) \in Seq(Nat)
         /\ Ordered(Append(s, g + 1), g + 1)
         /\ EndsWith(Append(s, g + 1), g + 1)
         /\ Len(Append(s, g + 1)) = Len(s) + 1
<1> DEFINE t == Append(s, g + 1)
<1>1. /\ t \in Seq(Nat) /\ t # << >>
      /\ Len(s) \in Nat /\ Len(t) = Len(s) + 1
      /\ \A i \in 1 .. Len(s) : t[i] = s[i]
      /\ t[Len(s) + 1] = g + 1
  BY AppendProperties, LenProperties
<1>2. \A i \in 1 .. Len(s) : s[i] \in 1 .. g
  BY DEF Ordered
<1>3. \A i, j \in 1 .. Len(s) : i < j => s[i] < s[j]
  BY DEF Ordered
<1> HIDE DEF t
<1>4. \A i \in 1 .. Len(t) : i \in 1 .. Len(s) \/ i = Len(s) + 1
  BY <1>1
<1>5. \A i \in 1 .. Len(t) : t[i] \in 1 .. g + 1
  <2> SUFFICES ASSUME NEW i \in 1 .. Len(t)
               PROVE  t[i] \in 1 .. g + 1
    OBVIOUS
  <2>1. CASE i \in 1 .. Len(s)
    <3>1. t[i] = s[i] /\ s[i] \in 1 .. g
      BY ONLY <1>1, <1>2, <2>1, Zenon
    <3> QED BY <3>1
  <2>2. CASE i = Len(s) + 1
    BY <1>1, <2>2
  <2> QED BY <1>4, <2>1, <2>2
<1>6. \A i, j \in 1 .. Len(t) : i < j => t[i] < t[j]
  <2> SUFFICES ASSUME NEW i \in 1 .. Len(t), NEW j \in 1 .. Len(t), i < j
               PROVE  t[i] < t[j]
    OBVIOUS
  <2>1. i \in 1 .. Len(s)
    BY <1>1
  <2>2. CASE j \in 1 .. Len(s)
    BY <1>1, <1>3, <2>1, <2>2
  <2>3. CASE j = Len(s) + 1
    BY <1>1, <1>2, <2>1, <2>3, SMTT(30)
  <2> QED BY <1>4, <2>2, <2>3
<1> QED BY <1>1, <1>5, <1>6 DEF Ordered, EndsWith, t

-----------------------------------------------------------------------------
(***************************************************************************)
(* Theorems about the class QueueBuffer for every Length and every set of  *)
(* elements: its indices stay in range, isFull() and count() mean what     *)
(* they say, and the ring implements the drop-oldest FIFO of module Fifo.  *)
(***************************************************************************)

(***************************************************************************)
(* The indices stay in the ring and every slot holds an element, whatever  *)
(* the operations (queuebuffer.h:50-99).                                   *)
(***************************************************************************)
THEOREM QueueTypeCorrect == QueueSpec => []QueueTypeOK
<1>1. QueueInit => QueueTypeOK
  <2>1. 0 \in Slot
    BY LengthAssumption DEF Slot
  <2> QED BY <2>1, Zenon DEF QueueInit, QueueTypeOK
<1>2. QueueTypeOK /\ [QueueNext]_queueVars => QueueTypeOK'
  <2> SUFFICES ASSUME QueueTypeOK, [QueueNext]_queueVars
               PROVE  QueueTypeOK'
    OBVIOUS
  <2>0. add1overrun(qposs) \in Slot /\ add1overrun(qpose) \in Slot
    BY add1overrunSlot DEF QueueTypeOK
  <2>1. ASSUME NEW x \in Data_Type, queuePut(x)
        PROVE  QueueTypeOK'
    BY <2>0, <2>1 DEF QueueTypeOK, queuePut
  <2>2. CASE queueGet
    BY <2>0, <2>2 DEF QueueTypeOK, queueGet
  <2>3. CASE look
    BY <2>3 DEF QueueTypeOK, look
  <2>4. CASE clear
    BY <2>4 DEF QueueTypeOK, clear
  <2>5. CASE UNCHANGED queueVars
    BY <2>5 DEF QueueTypeOK, queueVars
  <2> QED BY <2>1, <2>2, <2>3, <2>4, <2>5 DEF QueueNext
<1> QED BY <1>1, <1>2, PTL DEF QueueSpec

(***************************************************************************)
(* isFull() tells the truth about a queue of any length                    *)
(* (queuebuffer.h:107-111).                                                *)
(***************************************************************************)
THEOREM FullCorrect == QueueSpec => []FullIsCapacity
<1>1. QueueTypeOK => FullIsCapacity
  <2> SUFFICES ASSUME QueueTypeOK
               PROVE  FullIsCapacity
    OBVIOUS
  <2>1. Len(queue) = Used(qposs, qpose)
    BY ContentsIsSeq DEF QueueTypeOK, Rings, queue
  <2>2. isFull_i(qposs, qpose) <=> Used(qposs, qpose) = Length - 1
    BY FullAndEmpty DEF QueueTypeOK, Rings
  <2> QED BY <2>1, <2>2 DEF FullIsCapacity
<1> QED BY <1>1, QueueTypeCorrect, PTL

(***************************************************************************)
(* count() is the number of elements of a queue of any length that is not  *)
(* empty (queuebuffer.h:113-117).                                          *)
(***************************************************************************)
THEOREM CountCorrect == QueueSpec => []CountOfNonEmpty
<1>1. QueueTypeOK => CountOfNonEmpty
  <2> SUFFICES ASSUME QueueTypeOK
               PROVE  CountOfNonEmpty
    OBVIOUS
  <2>1. Len(queue) = Used(qposs, qpose)
    BY ContentsIsSeq DEF QueueTypeOK, Rings, queue
  <2>2. queue # << >> => qposs # qpose
    BY FullAndEmpty DEF QueueTypeOK, Rings, queue
  <2>3. queue # << >> => count(qposs, qpose) = Used(qposs, qpose)
    BY <2>2, LengthAssumption DEF QueueTypeOK, count, Used, Slot
  <2> QED BY <2>1, <2>3 DEF CountOfNonEmpty
<1> QED BY <1>1, QueueTypeCorrect, PTL

(* The initial state, and the step that may drop an element, refine Fifo. *)
LEMMA QueueInitRefines == QueueInit => Abstract!Init
<1> SUFFICES ASSUME QueueInit
             PROVE  queue = << >>
  BY DEF QueueInit, Abstract!Init
<1>1. qbu \in Rings(Data_Type) /\ qposs \in Slot /\ qpose \in Slot /\ qposs = qpose
  BY LengthAssumption DEF QueueInit, Slot, Rings
<1> QED BY <1>1, FullAndEmpty DEF queue

LEMMA QueuePutRefines ==
  ASSUME QueueTypeOK, NEW x \in Data_Type, queuePut(x)
  PROVE  Abstract!Put(x)
<1>0. /\ qbu \in Rings(Data_Type) /\ qbu' \in Rings(Data_Type)
      /\ qposs \in Slot /\ qpose \in Slot /\ qposs' \in Slot /\ qpose' \in Slot
  BY add1overrunSlot DEF QueueTypeOK, queuePut, Rings
<1>1. qpose' = add1overrun(qpose) /\ Stored(qbu, qbu', qpose, x)
  BY add1overrunSlot DEF QueueTypeOK, queuePut, Stored
<1>2. queue \in Seq(Data_Type) /\ Len(queue) = Used(qposs, qpose)
  BY ContentsIsSeq DEF QueueTypeOK, Rings, queue
<1>3. Append(queue, x) \in Seq(Data_Type) /\ Len(Append(queue, x)) = Len(queue) + 1
  BY <1>2, AppendProperties
<1>4. CASE ~ isFull_i(qposs, qpose)
  <2>1. qposs' = qposs
    BY <1>4 DEF queuePut
  <2>2. queue' = Append(queue, x)
    <3>1. /\ ~ isFull_i(qposs, qpose)
          /\ qpose' = add1overrun(qpose)
          /\ Stored(qbu, qbu', qpose, x)
          => Contents(qbu', qposs, qpose') = Append(Contents(qbu, qposs, qpose), x)
      BY <1>0, PutAppends
    <3> QED BY <1>1, <1>4, <2>1, <3>1, Zenon DEF queue
  <2>3. ~ Len(Append(queue, x)) > Length - 1
    BY <1>0, <1>2, <1>3, <1>4, LengthAssumption DEF Used, isFull_i, Slot
  <2> QED BY <2>2, <2>3 DEF queuePut, Abstract!Put, Abstract!Newest
<1>5. CASE isFull_i(qposs, qpose)
  <2>1. qposs' = add1overrun(qposs)
    BY <1>5 DEF queuePut
  <2>2. Len(Append(queue, x)) > Length - 1
    BY <1>0, <1>2, <1>3, <1>5, LengthAssumption DEF Used, isFull_i, Slot
  <2>3. queue' = Tail(Append(queue, x))
    <3>1. CASE qposs = qpose
      <4>1. queue = << >>
        BY <1>0, <3>1, FullAndEmpty DEF queue
      <4>2. qposs' = qpose'
        BY <1>1, <2>1, <3>1
      <4>3. queue' = << >>
        BY <1>0, <4>2, FullAndEmpty DEF queue
      <4> QED BY <4>1, <4>3
    <3>2. CASE qposs # qpose
      <4>1. queue # << >> /\ Contents(qbu, qposs', qpose) = Tail(queue)
        <5>1. qposs # qpose /\ qposs' = add1overrun(qposs)
              => queue # << >> /\ Contents(qbu, qposs', qpose) = Tail(queue)
          BY <1>0, AdvanceIsTail, Zenon DEF queue
        <5> QED BY <2>1, <3>2, <5>1
      <4>2. ~ isFull_i(qposs', qpose)
        BY <1>0, <1>5, <2>1, <3>2, LengthAssumption DEF isFull_i, add1overrun, Slot
      <4>3. queue' = Append(Contents(qbu, qposs', qpose), x)
        <5>1. /\ ~ isFull_i(qposs', qpose)
              /\ qpose' = add1overrun(qpose)
              /\ Stored(qbu, qbu', qpose, x)
              => Contents(qbu', qposs', qpose') = Append(Contents(qbu, qposs', qpose), x)
          BY <1>0, PutAppends
        <5> QED BY <1>1, <4>2, <5>1, Zenon DEF queue
      <4>4. Tail(Append(queue, x)) = Append(Tail(queue), x)
        BY <1>2, <4>1, HeadTailAppend
      <4> QED BY <4>1, <4>3, <4>4
    <3> QED BY <3>1, <3>2
  <2> QED BY <2>2, <2>3 DEF queuePut, Abstract!Put, Abstract!Newest
<1> QED BY <1>4, <1>5

(***************************************************************************)
(* QueueBuffer implements the drop-oldest FIFO of Length - 1 elements, for *)
(* every Length: get and look answer with the oldest element, put loses    *)
(* the oldest one of a full queue and nothing else (queuebuffer.h:79).     *)
(***************************************************************************)
THEOREM QueueBufferIsFifo == QueueSpec => ImplementsFifo
<1>1. QueueTypeOK /\ [QueueNext]_queueVars => [Abstract!Next]_(Abstract!vars)
  <2> SUFFICES ASSUME QueueTypeOK, [QueueNext]_queueVars
               PROVE  [Abstract!Next]_(Abstract!vars)
    OBVIOUS
  <2>1. ASSUME NEW x \in Data_Type, queuePut(x)
        PROVE  [Abstract!Next]_(Abstract!vars)
    BY <2>1, QueuePutRefines DEF Abstract!Next
  <2>2. qposs # qpose => /\ queue # << >>
                       /\ Head(queue) = qbu[qposs]
                       /\ Contents(qbu, add1overrun(qposs), qpose) = Tail(queue)
    BY add1overrunSlot, AdvanceIsTail DEF QueueTypeOK, Rings, queue
  <2>3. qposs = qpose <=> queue = << >>
    BY FullAndEmpty DEF QueueTypeOK, Rings, queue
  <2>4. CASE queueGet
    <3>1. CASE qposs # qpose
      BY <2>2, <2>4, <3>1 DEF queueGet, queue, Abstract!Next, Abstract!Get
    <3>2. CASE qposs = qpose
      BY <2>3, <2>4, <3>2 DEF queueGet, queue, Abstract!Next, Abstract!Get
    <3> QED BY <3>1, <3>2
  <2>5. CASE look
    BY <2>2, <2>3, <2>5 DEF look, queue, Abstract!Next, Abstract!Look
  <2>6. CASE clear
    <3>1. queue' = << >>
      BY <2>6, FullAndEmpty DEF QueueTypeOK, Rings, clear, queue
    <3> QED BY <2>6, <3>1 DEF clear, Abstract!Next, Abstract!Clear
  <2>7. CASE UNCHANGED queueVars
    BY <2>7 DEF queueVars, queue, Abstract!vars
  <2> QED BY <2>1, <2>4, <2>5, <2>6, <2>7 DEF QueueNext
<1> QED
  BY <1>1, QueueInitRefines, QueueTypeCorrect, PTL
     DEF QueueSpec, ImplementsFifo, Abstract!Spec
=============================================================================
