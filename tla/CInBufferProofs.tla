-------------------------- MODULE CInBufferProofs ---------------------------
(***************************************************************************)
(* Theorems about CInBuffer for every Length, every number of arriving     *)
(* characters and every use of the class: the characters are read in the   *)
(* order of their arrival, and the interrupt that a full ring switched off *)
(* is switched on again by a reader that holds the lock.                   *)
(***************************************************************************)
EXTENDS CInBuffer, RingProofs

TypeInv == TypeOK /\ overrun \subseteq 1 .. arrived

(* Under the lock the interrupt is off only while the ring is full, or     *)
(* while a get that has seen it full has yet to switch it on.              *)
Full == isFull_i(poss, pose)

FullInv ==
  use.Locked /\ ~ receiveIE =>
    /\ pc \in {"idle", "sendonReceive", "isFull"} => Full
    /\ pc \in {"get", "load", "remove", "removed"} => wasFull

(* From its test of the ring on, get holds the first character of the      *)
(* ring: the handler does not take it out.                                 *)
GetInv ==
  /\ pc \in {"load", "remove", "removed"} => poss # pose
  /\ pc \in {"remove", "removed"} => c = bu[poss]
  /\ pc = "removed" => pos = poss

Elements(s) == {s[i] : i \in 1 .. Len(s)}

HeldInv ==
  /\ Ordered(Held, arrived)
  /\ Elements(Held) = (1 .. arrived) \ overrun

OrderInv ==
  /\ onReceive => use.Callback
  /\ LockedCallback => GetInv /\ HeldInv
-----------------------------------------------------------------------------
(* The characters and the unwritten ones, as numbers, and the types one by *)
(* one.                                                                    *)
LEMMA Types ==
  /\ MaxRecv \in Nat
  /\ Char \cup {NoChar} = 0 .. MaxRecv
  /\ TypeOK <=> /\ bu \in Rings(0 .. MaxRecv)
                /\ poss \in Slot /\ pose \in Slot /\ pos \in Slot
                /\ onReceive \in BOOLEAN /\ receiveIE \in BOOLEAN /\ wasFull \in BOOLEAN
                /\ use \in Uses
                /\ rx \in 0 .. MaxRecv /\ c \in 0 .. MaxRecv
                /\ arrived \in 0 .. MaxRecv
                /\ overrun \subseteq 1 .. MaxRecv
                /\ got \in Seq(0 .. MaxRecv)
                /\ pc \in {"idle", "sendonReceive", "isFull", "get", "load",
                           "remove", "removed", "enable"}
<1>1. MaxRecv \in Nat /\ Char \cup {NoChar} = 0 .. MaxRecv
  BY MaxRecvAssumption DEF Char, NoChar
<1>2. {onReceive, receiveIE, wasFull} \subseteq BOOLEAN
      <=> onReceive \in BOOLEAN /\ receiveIE \in BOOLEAN /\ wasFull \in BOOLEAN
  BY Zenon
<1>3. {rx, c} \subseteq 0 .. MaxRecv <=> rx \in 0 .. MaxRecv /\ c \in 0 .. MaxRecv
  BY Zenon
<1> QED BY <1>1, <1>2, <1>3, Zenon DEF TypeOK, Rings, Char

(* What the handler stores, and what it hands on.                          *)
LEMMA HandlerRing ==
  ASSUME TypeOK, getonReceive, ~ isFull_i(poss, pose)
  PROVE  /\ bu' = [bu EXCEPT ![pose] = rx] /\ bu' \in Rings(0 .. MaxRecv)
         /\ pose' = add1overrun(pose) /\ pose' \in Slot
         /\ Stored(bu, bu', pose, rx)
         /\ poss' \in {poss, pose'} /\ (poss' # poss => onReceive)
         /\ Contents(bu', poss, pose') \in Seq(0 .. MaxRecv)
         /\ got' = IF onReceive THEN got \o Contents(bu', poss, pose') ELSE got
<1>1. /\ bu \in Rings(0 .. MaxRecv) /\ poss \in Slot /\ pose \in Slot
      /\ rx \in 0 .. MaxRecv
  BY Types
<1>2. /\ bu' = [bu EXCEPT ![pose] = rx] /\ pose' = add1overrun(pose)
      /\ poss' = IF onReceive THEN pose' ELSE poss
      /\ got' = IF onReceive THEN got \o Contents(bu', poss, pose') ELSE got
  BY Zenon DEF getonReceive
<1>3. pose' \in Slot
  BY <1>1, <1>2, add1overrunSlot
<1>4. bu' \in Rings(0 .. MaxRecv) /\ Stored(bu, bu', pose, rx)
  BY <1>1, <1>2 DEF Rings, Stored
<1>5. Contents(bu', poss, pose') \in Seq(0 .. MaxRecv)
  BY <1>1, <1>3, <1>4, ContentsIsSeq
<1>6. poss' \in {poss, pose'} /\ (poss' # poss => onReceive)
  BY <1>2, Zenon
<1> QED BY <1>2, <1>3, <1>4, <1>5, <1>6, Zenon

LEMMA InitType == Init => TypeInv
<1> SUFFICES ASSUME Init
             PROVE  TypeInv
  OBVIOUS
<1>1. 0 \in Slot
  BY LengthAssumption DEF Slot
<1>2. bu \in Rings(0 .. MaxRecv)
  BY Types DEF Init, Rings, NoChar
<1>3. onReceive \in BOOLEAN /\ receiveIE \in BOOLEAN /\ wasFull \in BOOLEAN
  BY Zenon DEF Init
<1>4. got \in Seq(0 .. MaxRecv)
  BY DEF Init
<1>5. rx \in 0 .. MaxRecv /\ c \in 0 .. MaxRecv /\ arrived \in 0 .. MaxRecv
  BY Types DEF Init, NoChar
<1> QED
  BY <1>1, <1>2, <1>3, <1>4, <1>5, Types DEF Init, TypeInv

LEMMA NextType == TypeInv /\ [Next]_vars => TypeInv'
<1> SUFFICES ASSUME TypeInv, [Next]_vars
             PROVE  TypeInv'
  OBVIOUS
<1>0. /\ bu \in Rings(0 .. MaxRecv)
      /\ poss \in Slot /\ pose \in Slot /\ pos \in Slot
      /\ onReceive \in BOOLEAN /\ receiveIE \in BOOLEAN /\ wasFull \in BOOLEAN
      /\ use \in Uses
      /\ rx \in 0 .. MaxRecv /\ c \in 0 .. MaxRecv
      /\ arrived \in 0 .. MaxRecv
      /\ overrun \subseteq 1 .. MaxRecv
      /\ got \in Seq(0 .. MaxRecv)
      /\ pc \in {"idle", "sendonReceive", "isFull", "get", "load", "remove",
                 "removed", "enable"}
      /\ overrun \subseteq 1 .. arrived
  BY Types, Zenon DEF TypeInv
<1>a. ASSUME bu' \in Rings(0 .. MaxRecv),
             poss' \in Slot, pose' \in Slot, pos' \in Slot,
             onReceive' \in BOOLEAN, receiveIE' \in BOOLEAN, wasFull' \in BOOLEAN,
             use' \in Uses,
             rx' \in 0 .. MaxRecv, c' \in 0 .. MaxRecv,
             arrived' \in 0 .. MaxRecv,
             overrun' \subseteq 1 .. MaxRecv, overrun' \subseteq 1 .. arrived',
             got' \in Seq(0 .. MaxRecv),
             pc' \in {"idle", "sendonReceive", "isFull", "get", "load", "remove",
                      "removed", "enable"}
      PROVE  TypeInv'
  <2>1. Char \cup {NoChar} = 0 .. MaxRecv /\ Char = 1 .. MaxRecv
    BY Types DEF Char
  <2>2. {onReceive', receiveIE', wasFull'} \subseteq BOOLEAN
    BY <1>a, Zenon
  <2>3. {rx', c'} \subseteq 0 .. MaxRecv
    BY <1>a, Zenon
  <2> QED BY <1>a, <2>1, <2>2, <2>3, Zenon DEF TypeInv, TypeOK, Rings
<1> USE <1>0, <1>a DEF Caller, ring, base, main
<1>1. CASE get
  BY <1>1 DEF get
<1>2. CASE getIsFull
  <2>1. wasFull' \in BOOLEAN
    BY <1>2, Zenon DEF getIsFull, isFull_i
  <2> QED BY <1>2, <2>1 DEF getIsFull
<1>3. CASE getCompare
  BY <1>3 DEF getCompare
<1>4. CASE getLoad
  <2>1. bu[poss] \in 0 .. MaxRecv
    BY DEF Rings
  <2> QED BY <1>4, <2>1 DEF getLoad
<1>5. CASE getRemove
  BY <1>5 DEF getRemove
<1>6. CASE getRemoved
  <2>1. add1overrun(pos) \in Slot
    BY add1overrunSlot
  <2>2. Append(got, c) \in Seq(0 .. MaxRecv)
    BY AppendProperties
  <2> QED BY <1>6, <2>1, <2>2 DEF getRemoved
<1>7. CASE getEnable
  BY <1>7 DEF getEnable
<1>8. CASE enableonReceive
  BY <1>8 DEF enableonReceive
<1>9. CASE sendonReceive
  BY <1>9 DEF sendonReceive
<1>10. CASE getonReceive
  <2>1. UNCHANGED <<onReceive, arrived, overrun, pc, use, wasFull, pos, c>>
    BY <1>10 DEF getonReceive
  <2>2. CASE isFull_i(poss, pose)
    BY <1>10, <2>1, <2>2 DEF getonReceive
  <2>3. CASE ~ isFull_i(poss, pose)
    <3>1. got \o Contents(bu', poss, pose') \in Seq(0 .. MaxRecv)
      BY <1>10, <2>3, HandlerRing, ConcatProperties DEF TypeInv
    <3>2. got' \in Seq(0 .. MaxRecv)
      BY <1>10, <2>3, <3>1, HandlerRing, Zenon DEF TypeInv
    <3>3. bu' \in Rings(0 .. MaxRecv) /\ pose' \in Slot /\ poss' \in Slot
      BY <1>10, <2>3, HandlerRing, Zenon DEF TypeInv
    <3>4. receiveIE' = receiveIE /\ rx' = NoChar
      BY <1>10, <2>3 DEF getonReceive
    <3> QED BY <2>1, <3>2, <3>3, <3>4, Types DEF NoChar
  <2> QED BY <2>2, <2>3
<1>11. CASE Arrive
  <2>1. UNCHANGED <<bu, poss, pose, onReceive, receiveIE, got, pc, use, wasFull, pos, c>>
    BY <1>11 DEF Arrive
  <2>2. arrived' \in 0 .. MaxRecv /\ arrived' = arrived + 1 /\ arrived' \in 1 .. MaxRecv
    BY <1>11, Types DEF Arrive
  <2>3. rx' \in 0 .. MaxRecv
    BY <1>11, <2>2 DEF Arrive
  <2>4. overrun' \subseteq 1 .. MaxRecv /\ overrun' \subseteq 1 .. arrived'
    <3>1. 1 .. arrived \subseteq 1 .. arrived' /\ 1 .. arrived' \subseteq 1 .. MaxRecv
      BY <2>2, Types
    <3>2. arrived' \in 1 .. arrived'
      BY <2>2, Types
    <3>3. overrun' = overrun \/ overrun' = overrun \cup {arrived'}
      BY <1>11, Zenon DEF Arrive
    <3> QED BY <3>1, <3>2, <3>3
  <2> QED BY <2>1, <2>2, <2>3, <2>4
<1>12. CASE UNCHANGED vars
  BY <1>12 DEF vars
<1> QED
  BY <1>1, <1>2, <1>3, <1>4, <1>5, <1>6, <1>7, <1>8, <1>9, <1>10, <1>11, <1>12,
     Zenon DEF Next, Main

LEMMA TypeInvCorrect == Spec => []TypeInv
BY InitType, NextType, PTL DEF Spec

(***************************************************************************)
(* The indices stay in the ring and every slot and register holds a        *)
(* character or none, whatever the handler interrupts (cbuffer.h:83-111).  *)
(***************************************************************************)
THEOREM TypeCorrect == Spec => []TypeOK
<1>1. TypeInv => TypeOK
  BY DEF TypeInv
<1> QED BY <1>1, TypeInvCorrect, PTL
-----------------------------------------------------------------------------
(***************************************************************************)
(* A program that holds the lock during its calls never finds the receive  *)
(* interrupt off with room in the ring once get has returned: the get that *)
(* makes room in a full ring (cbuffer.h:100-105) switches on what the      *)
(* handler has switched off (cbuffer.h:86-87).                             *)
(***************************************************************************)
THEOREM FullOrEnabledCorrect == Spec => []FullOrEnabled
<1>1. Init => FullInv
  BY Zenon DEF Init, FullInv
<1>2. TypeInv /\ FullInv /\ [Next]_vars => FullInv'
  <2> SUFFICES ASSUME TypeInv, FullInv, [Next]_vars
               PROVE  FullInv'
    OBVIOUS
  <2> USE DEF FullInv, Full, ring, base, main, Caller
  <2>1. CASE get
    BY <2>1 DEF get
  <2>2. CASE getIsFull
    <3>1. /\ UNCHANGED <<poss, pose, receiveIE, use>>
          /\ pc = "isFull" /\ pc' = "get"
          /\ (wasFull' <=> isFull_i(poss, pose))
      BY <2>2, Zenon DEF getIsFull
    <3>2. use.Locked /\ ~ receiveIE => wasFull'
      BY <3>1
    <3> QED BY <3>1, <3>2
  <2>3. CASE getCompare
    <3>1. /\ UNCHANGED <<poss, pose, receiveIE, use, wasFull>>
          /\ pc = "get"
          /\ pc' = "load" \/ pc' = "enable" \/ ~ wasFull
      BY <2>3 DEF getCompare
    <3> QED BY <3>1
  <2>4. CASE getLoad
    BY <2>4 DEF getLoad
  <2>5. CASE getRemove
    BY <2>5 DEF getRemove
  <2>6. CASE getRemoved
    <3>1. /\ UNCHANGED <<receiveIE, use, wasFull>>
          /\ pc = "removed"
          /\ pc' = "enable" \/ ~ wasFull
          /\ pc' \in {"enable", "idle", "sendonReceive"}
      BY <2>6 DEF getRemoved
    <3> QED BY <3>1
  <2>7. CASE getEnable
    <3>1. receiveIE'
      BY <2>7, Zenon DEF getEnable
    <3> QED BY <3>1
  <2>8. CASE enableonReceive
    BY <2>8 DEF enableonReceive
  <2>9. CASE sendonReceive
    BY <2>9 DEF sendonReceive
  <2>10. CASE getonReceive
    <3>1. /\ UNCHANGED <<pc, use, wasFull>>
          /\ receiveIE /\ (use.Locked => pc = "idle")
      BY <2>10, Zenon DEF getonReceive
    <3>2. CASE isFull_i(poss, pose)
      <4>1. UNCHANGED <<poss, pose>>
        BY <2>10, <3>2 DEF getonReceive
      <4> QED BY <3>1, <3>2, <4>1
    <3>3. CASE ~ isFull_i(poss, pose)
      <4>1. receiveIE'
        BY <2>10, <3>3, Zenon DEF getonReceive
      <4> QED BY <4>1
    <3> QED BY <3>2, <3>3
  <2>11. CASE Arrive
    BY <2>11 DEF Arrive
  <2>12. CASE UNCHANGED vars
    BY <2>12 DEF vars
  <2> QED
    BY <2>1, <2>2, <2>3, <2>4, <2>5, <2>6, <2>7, <2>8, <2>9, <2>10, <2>11, <2>12,
       Zenon DEF Next, Main
<1>3. FullInv => FullOrEnabled
  BY DEF FullInv, Full, FullOrEnabled
<1> QED BY <1>1, <1>2, <1>3, TypeInvCorrect, PTL DEF Spec

-----------------------------------------------------------------------------
(* The register of the receiver as a sequence.                             *)
Reg(t) == IF t = NoChar THEN << >> ELSE <<t>>

LEMMA HeldParts ==
  ASSUME TypeInv
  PROVE  /\ got \in Seq(Nat) /\ Contents(bu, poss, pose) \in Seq(Nat)
         /\ Reg(rx) \in Seq(Nat) /\ got \o Contents(bu, poss, pose) \in Seq(Nat)
         /\ Held = (got \o Contents(bu, poss, pose)) \o Reg(rx)
         /\ Held \in Seq(Nat)
<1>1. /\ got \in Seq(Nat) /\ rx \in Nat
      /\ bu \in Rings(Nat) /\ poss \in Slot /\ pose \in Slot
  <2>1. /\ bu \in Rings(0 .. MaxRecv) /\ poss \in Slot /\ pose \in Slot
        /\ rx \in 0 .. MaxRecv /\ got \in Seq(0 .. MaxRecv) /\ MaxRecv \in Nat
    BY Types DEF TypeInv
  <2> QED BY <2>1, SeqMonotonic DEF Rings
<1>2. Contents(bu, poss, pose) \in Seq(Nat)
  BY <1>1, ContentsIsSeq
<1>3. Reg(rx) \in Seq(Nat)
  BY <1>1 DEF Reg
<1>4. got \o Contents(bu, poss, pose) \in Seq(Nat)
  BY <1>1, <1>2, ConcatProperties
<1>5. Held = (got \o Contents(bu, poss, pose)) \o Reg(rx)
  BY DEF Held, Reg
<1>6. Held \in Seq(Nat)
  BY <1>3, <1>4, <1>5, ConcatProperties
<1> QED BY <1>1, <1>2, <1>3, <1>4, <1>5, <1>6, Zenon

LEMMA ConcatAssoc ==
  \A s, t, u \in Seq(Nat) : (s \o t) \o u = s \o (t \o u)
BY ConcatAssociative

(* get moves the first character of the ring to the program.               *)
LEMMA HeldRemoved ==
  ASSUME TypeInv, GetInv, getRemoved
  PROVE  Held' = Held
<1> DEFINE d == Contents(bu, poss, pose)
<1>1. /\ bu \in Rings(Nat) /\ poss \in Slot /\ pose \in Slot /\ poss' \in Slot
      /\ poss # pose /\ poss' = add1overrun(poss)
      /\ got' = Append(got, bu[poss]) /\ UNCHANGED <<bu, pose, rx>>
      /\ bu[poss] \in Nat
  <2>1. /\ bu \in Rings(0 .. MaxRecv) /\ poss \in Slot /\ pose \in Slot
        /\ MaxRecv \in Nat
    BY Types DEF TypeInv
  <2>2. bu[poss] \in Nat
    BY <2>1 DEF Rings
  <2> QED BY <2>1, <2>2, add1overrunSlot DEF Rings, getRemoved, GetInv, base
<1>2. d # << >> /\ Head(d) = bu[poss] /\ Contents(bu, poss', pose) = Tail(d)
  BY <1>1, AdvanceIsTail, Zenon
<1>3. got \in Seq(Nat) /\ d \in Seq(Nat) /\ Reg(rx) \in Seq(Nat)
  BY HeldParts
<1>4. Held = (got \o d) \o Reg(rx)
  BY HeldParts
<1>5. Held' = (got' \o Tail(d)) \o Reg(rx)
  BY <1>1, <1>2, Zenon DEF Held, Reg
<1> HIDE DEF d
<1>6. d = <<Head(d)>> \o Tail(d) /\ Tail(d) \in Seq(Nat) /\ <<Head(d)>> \in Seq(Nat)
  BY <1>1, <1>2, <1>3
<1>7. got' = got \o <<Head(d)>>
  BY <1>1, <1>2, <1>3, AppendIsConcat
<1>8. (got \o <<Head(d)>>) \o Tail(d) = got \o (<<Head(d)>> \o Tail(d))
  BY <1>3, <1>6, ConcatAssoc, Zenon
<1> QED BY <1>4, <1>5, <1>6, <1>7, <1>8, Zenon

(* The handler moves the character from the register to the ring, and with *)
(* a callback on to the program.                                           *)
LEMMA HeldHandler ==
  ASSUME TypeInv, getonReceive
  PROVE  Held' = Held
<1> DEFINE d == Contents(bu, poss, pose)
<1>1. CASE isFull_i(poss, pose)
  BY <1>1 DEF getonReceive, Held, ring
<1>2. CASE ~ isFull_i(poss, pose)
  <2>1. /\ bu \in Rings(Nat) /\ bu' \in Rings(Nat)
        /\ poss \in Slot /\ pose \in Slot /\ pose' \in Slot
        /\ rx \in Nat /\ rx # NoChar /\ rx' = NoChar
        /\ pose' = add1overrun(pose) /\ Stored(bu, bu', pose, rx)
        /\ got \in Seq(Nat)
    <3>1. /\ bu \in Rings(0 .. MaxRecv) /\ poss \in Slot /\ pose \in Slot
          /\ rx \in 0 .. MaxRecv /\ MaxRecv \in Nat
      BY Types DEF TypeInv
    <3>2. /\ bu' \in Rings(0 .. MaxRecv) /\ pose' \in Slot
          /\ pose' = add1overrun(pose) /\ Stored(bu, bu', pose, rx)
      BY <1>2, HandlerRing DEF TypeInv
    <3>3. rx # NoChar /\ rx' = NoChar
      BY <1>2 DEF getonReceive
    <3> QED BY <3>1, <3>2, <3>3, HeldParts DEF Rings
  <2>2. Contents(bu', poss, pose') = Append(d, rx)
    <3>1. /\ ~ isFull_i(poss, pose)
          /\ pose' = add1overrun(pose)
          /\ Stored(bu, bu', pose, rx)
          => Contents(bu', poss, pose') = Append(d, rx)
      BY <2>1, PutAppends
    <3> QED BY <1>2, <2>1, <3>1, Zenon
  <2>3. d \in Seq(Nat) /\ Held = (got \o d) \o <<rx>>
    BY <2>1, HeldParts, Zenon DEF Reg
  <2>4. got' \o Contents(bu', poss', pose') = got \o Append(d, rx)
    <3>1. CASE onReceive
      <4>1. poss' = pose' /\ got' = got \o Append(d, rx)
        BY <1>2, <2>2, <3>1, Zenon DEF getonReceive
      <4>2. Contents(bu', poss', pose') = << >>
        BY <2>1, <4>1, FullAndEmpty
      <4> HIDE DEF d
      <4>3. Append(d, rx) \in Seq(Nat)
        BY <2>1, <2>3, AppendProperties
      <4>4. got' \in Seq(Nat)
        BY <2>1, <4>1, <4>3, ConcatProperties
      <4>5. got' \o << >> = got'
        BY <4>4, ConcatEmptySeq
      <4> QED BY <4>1, <4>2, <4>5, Zenon
    <3>2. CASE ~ onReceive
      <4>1. poss' = poss /\ got' = got
        BY <1>2, <3>2, Zenon DEF getonReceive
      <4> QED BY <2>2, <4>1, Zenon
    <3> QED BY <3>1, <3>2, Zenon
  <2>5. Held' = (got \o Append(d, rx)) \o << >>
    BY <2>1, <2>4, Zenon DEF Held
  <2> HIDE DEF d
  <2>6. <<rx>> \in Seq(Nat) /\ Append(d, rx) = d \o <<rx>> /\ d \o <<rx>> \in Seq(Nat)
    BY <2>1, <2>3, AppendIsConcat, ConcatProperties
  <2>7. got \o (d \o <<rx>>) \in Seq(Nat)
    BY <2>1, <2>6, ConcatProperties
  <2>8. (got \o (d \o <<rx>>)) \o << >> = got \o (d \o <<rx>>)
    BY <2>7, ConcatEmptySeq
  <2>9. (got \o d) \o <<rx>> = got \o (d \o <<rx>>)
    BY <2>1, <2>3, <2>6, ConcatAssoc, Zenon
  <2> QED BY <2>3, <2>5, <2>6, <2>8, <2>9, Zenon
<1> QED BY <1>1, <1>2

(* A character that arrives in an empty register comes behind all others.  *)
LEMMA HeldArrive ==
  ASSUME TypeInv, Arrive
  PROVE  \/ /\ Held' = Append(Held, arrived + 1)
            /\ overrun' = overrun
         \/ /\ Held' = Held
            /\ overrun' = overrun \cup {arrived + 1}
<1>1. /\ UNCHANGED <<bu, poss, pose, got>> /\ arrived' = arrived + 1 /\ arrived \in Nat
  BY Types DEF Arrive, ring, TypeInv
<1>2. CASE rx = NoChar /\ rx' = arrived' /\ overrun' = overrun
  <2> DEFINE u == got \o Contents(bu, poss, pose)
  <2>1. rx' # NoChar
    BY <1>1, <1>2 DEF NoChar
  <2>2. Held' = u \o <<arrived + 1>>
    BY <1>1, <1>2, <2>1, Zenon DEF Held
  <2>3. Held = u \o << >> /\ u \in Seq(Nat)
    BY <1>2, HeldParts, Zenon DEF Reg
  <2> HIDE DEF u
  <2>4. Held = u
    BY <2>3, ConcatEmptySeq
  <2>5. Append(u, arrived + 1) = u \o <<arrived + 1>>
    BY <1>1, <2>3, AppendIsConcat
  <2> QED BY <1>2, <2>2, <2>4, <2>5, Zenon
<1>3. CASE rx' = rx /\ overrun' = overrun \cup {arrived'}
  BY <1>1, <1>3 DEF Held
<1> QED BY <1>2, <1>3 DEF Arrive

(* The elements of a sequence with one more.                               *)
LEMMA ElementsAppend ==
  ASSUME NEW s \in Seq(Nat), NEW x \in Nat
  PROVE  Elements(Append(s, x)) = Elements(s) \cup {x}
<1> DEFINE t == Append(s, x)
<1>1. /\ Len(s) \in Nat /\ Len(t) = Len(s) + 1
      /\ \A i \in 1 .. Len(s) : t[i] = s[i]
      /\ t[Len(s) + 1] = x
  BY AppendProperties, LenProperties
<1> HIDE DEF t
<1>2. \A i : i \in 1 .. Len(t) <=> i \in 1 .. Len(s) \/ i = Len(s) + 1
  BY <1>1
<1>3. \A y : y \in Elements(t) <=> y \in Elements(s) \cup {x}
  BY <1>1, <1>2, Zenon DEF Elements
<1> QED BY <1>3 DEF t
-----------------------------------------------------------------------------
LEMMA InitOrder == Init => OrderInv
<1> SUFFICES ASSUME Init
             PROVE  OrderInv
  OBVIOUS
<1>1. TypeInv /\ poss = pose /\ rx = NoChar /\ got = << >> /\ arrived = 0 /\ pc = "idle"
  BY InitType DEF Init
<1>2. Contents(bu, poss, pose) = << >>
  BY <1>1, Types, FullAndEmpty DEF TypeInv
<1>3. Held = << >>
  BY <1>1, <1>2 DEF Held
<1>4. Len(Held) = 0
  BY <1>3
<1>5. HeldInv
  BY <1>1, <1>4 DEF HeldInv, Ordered, Elements
<1>6. GetInv /\ (onReceive => use.Callback)
  BY <1>1 DEF GetInv, Init
<1> QED BY <1>5, <1>6 DEF OrderInv

(* A step of the program that leaves what is held alone.                   *)
LEMMA OrderSame ==
  ASSUME OrderInv, Held' = Held, UNCHANGED <<arrived, overrun, use>>,
         onReceive' => onReceive \/ use.Callback, LockedCallback /\ GetInv => GetInv'
  PROVE  OrderInv'
BY DEF OrderInv, HeldInv, LockedCallback, Elements

LEMMA OrderArrive ==
  ASSUME TypeInv, OrderInv, Arrive
  PROVE  OrderInv'
<1>1. /\ UNCHANGED <<bu, poss, pose, got, onReceive, use, pc, pos, c>>
      /\ arrived' = arrived + 1 /\ arrived \in Nat /\ overrun \subseteq 1 .. arrived
  BY Types DEF Arrive, ring, main, TypeInv
<1>2. GetInv => GetInv'
  BY <1>1 DEF GetInv
<1>3. ASSUME HeldInv
      PROVE  HeldInv'
  <2>1. Ordered(Held, arrived) /\ Elements(Held) = (1 .. arrived) \ overrun
    BY <1>3 DEF HeldInv
  <2>2. Held \in Seq(Nat)
    BY HeldParts
  <2>3. 1 .. arrived + 1 = (1 .. arrived) \cup {arrived + 1} /\ arrived + 1 \notin 1 .. arrived
    BY <1>1
  <2>4. CASE Held' = Append(Held, arrived + 1) /\ overrun' = overrun
    <3>1. Ordered(Held', arrived')
      BY <1>1, <2>1, <2>2, <2>4, OrderedAppend
    <3>2. Elements(Held') = Elements(Held) \cup {arrived + 1}
      BY <1>1, <2>2, <2>4, ElementsAppend
    <3>3. ((1 .. arrived) \ overrun) \cup {arrived + 1} = (1 .. arrived + 1) \ overrun
      BY <1>1, <2>3, Zenon
    <3> QED BY <1>1, <2>1, <2>4, <3>1, <3>2, <3>3, Zenon DEF HeldInv, Elements
  <2>5. CASE Held' = Held /\ overrun' = overrun \cup {arrived + 1}
    <3>1. Ordered(Held', arrived')
      BY <1>1, <2>1, <2>2, <2>5, OrderedMore
    <3>2. (1 .. arrived) \ overrun = (1 .. arrived + 1) \ (overrun \cup {arrived + 1})
      BY <2>3, Zenon
    <3> QED BY <1>1, <2>1, <2>5, <3>1, <3>2, Zenon DEF HeldInv, Elements
  <2> QED BY <2>4, <2>5, HeldArrive
<1> QED BY <1>1, <1>2, <1>3 DEF OrderInv, LockedCallback

(* While get is at work the handler appends behind what get reads.         *)
LEMMA OrderHandler ==
  ASSUME TypeInv, OrderInv, getonReceive
  PROVE  OrderInv'
<1>1. /\ UNCHANGED <<onReceive, arrived, overrun, pc, use, wasFull, pos, c>>
      /\ (use.Locked => pc = "idle")
  BY DEF getonReceive, main
<1>2. Held' = Held
  BY HeldHandler
<1>3. ASSUME LockedCallback, GetInv
      PROVE  GetInv'
  <2>1. CASE isFull_i(poss, pose)
    BY <1>1, <1>3, <2>1 DEF getonReceive, GetInv, ring
  <2>2. CASE ~ isFull_i(poss, pose) /\ pc = "idle"
    BY <1>1, <2>2 DEF GetInv
  <2>3. CASE ~ isFull_i(poss, pose) /\ pc # "idle"
    <3>1. ~ onReceive
      BY <1>1, <1>3, <2>3, Zenon DEF OrderInv, LockedCallback
    <3>2. /\ poss' = poss /\ pose' = add1overrun(pose)
          /\ bu' = [bu EXCEPT ![pose] = rx]
          /\ bu \in Rings(0 .. MaxRecv) /\ poss \in Slot /\ pose \in Slot
      BY <2>3, <3>1, HandlerRing, Types DEF TypeInv
    <3>3. poss # pose'
      BY <2>3, <3>2, LengthAssumption DEF isFull_i, add1overrun, Slot
    <3>4. poss # pose => bu'[poss] = bu[poss]
      BY <3>2 DEF Rings
    <3> QED BY <1>1, <1>3, <3>2, <3>3, <3>4 DEF GetInv
  <2> QED BY <2>1, <2>2, <2>3
<1> QED BY <1>1, <1>2, <1>3, OrderSame

LEMMA NextOrder == TypeInv /\ OrderInv /\ [Next]_vars => OrderInv'
<1> SUFFICES ASSUME TypeInv, OrderInv, [Next]_vars
             PROVE  OrderInv'
  OBVIOUS
<1> USE DEF ring, base, main, Caller
<1>a. ASSUME UNCHANGED <<bu, poss, pose, got, rx>>
      PROVE  Held' = Held
  BY <1>a DEF Held
<1>1. CASE get
  BY <1>1, <1>a, OrderSame DEF get, GetInv
<1>2. CASE getIsFull
  BY <1>2, <1>a, OrderSame DEF getIsFull, GetInv
<1>3. CASE getCompare
  BY <1>3, <1>a, OrderSame DEF getCompare, GetInv
<1>4. CASE getLoad
  BY <1>4, <1>a, OrderSame DEF getLoad, GetInv
<1>5. CASE getRemove
  BY <1>5, <1>a, OrderSame DEF getRemove, GetInv
<1>6. CASE getRemoved
  <2>1. LockedCallback => Held' = Held
    BY <1>6, HeldRemoved DEF OrderInv
  <2>2. UNCHANGED <<onReceive, arrived, overrun, use>>
    BY <1>6 DEF getRemoved
  <2>3. GetInv'
    BY <1>6 DEF getRemoved, GetInv
  <2> QED BY <2>1, <2>2, <2>3 DEF OrderInv, HeldInv, LockedCallback, Elements
<1>7. CASE getEnable
  BY <1>7, <1>a, OrderSame DEF getEnable, GetInv
<1>8. CASE enableonReceive
  <2>1. /\ UNCHANGED <<bu, poss, pose, got, rx, arrived, overrun, use>>
        /\ use.Callback /\ pc' = "sendonReceive"
    BY <1>8 DEF enableonReceive
  <2> QED BY <1>a, <2>1, OrderSame DEF GetInv
<1>9. CASE sendonReceive
  BY <1>9, <1>a, OrderSame DEF sendonReceive, GetInv
<1>10. CASE getonReceive
  BY <1>10, OrderHandler
<1>11. CASE Arrive
  BY <1>11, OrderArrive
<1>12. CASE UNCHANGED vars
  BY <1>12, <1>a, OrderSame DEF vars, GetInv
<1> QED
  BY <1>1, <1>2, <1>3, <1>4, <1>5, <1>6, <1>7, <1>8, <1>9, <1>10, <1>11, <1>12,
     Zenon DEF Next, Main

(***************************************************************************)
(* What the program has read, what waits in the ring and what waits in the *)
(* receiver are the characters in the order of their arrival, without      *)
(* those alone that the receiver lost, however the handler                 *)
(* (cbuffer.h:83-90) interrupts get (cbuffer.h:97-111).                    *)
(***************************************************************************)
THEOREM ReadInOrder == Spec => []InOrder
<1>1. OrderInv => InOrder
  BY Zenon DEF OrderInv, InOrder, HeldInv, Ordered, Elements
<1>2. Spec => []OrderInv
  BY InitOrder, NextOrder, TypeInvCorrect, PTL DEF Spec
<1> QED BY <1>1, <1>2, PTL
=============================================================================
