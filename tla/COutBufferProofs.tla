-------------------------- MODULE COutBufferProofs --------------------------
(***************************************************************************)
(* Theorems about COutBuffer for every Length, every number of characters  *)
(* and every use of the class: no wakeup is lost, only what was put is     *)
(* sent, and it is sent in order.                                          *)
(***************************************************************************)
EXTENDS COutBuffer, RingProofs

(* put has taken a number for its character, and has not yet stored it or  *)
(* not yet advanced pose behind it.                                        *)
Putting == pc \in {"isFull", "drop", "dropped", "store", "advance"}

TypeInv ==
  /\ TypeOK
  /\ ~ Resting => given > 0

(* The slots behind poss, all slots but pose while put drops, and the slot *)
(* that put has stored into hold characters that were put.                 *)
Written ==
  /\ \A s \in Slot : InUse(poss, pose, s) => bu[s] \in 1 .. given
  /\ pc \in {"drop", "dropped"} => \A s \in Slot : s # pose => bu[s] \in 1 .. given
  /\ pc = "advance" => bu[pose] \in 1 .. given
  /\ tx \in 0 .. given
  /\ \A i \in 1 .. Len(line) : line[i] \in 1 .. given

WrittenInv ==
  /\ onReady => use.Callback
  /\ LockedCallback => Written

(* The last character that is in the ring, or has left it.                 *)
Before == IF Putting THEN given - 1 ELSE given

(* A put that found room keeps it until it has advanced pose; one that     *)
(* drops does so under the lock, on the ring that it found full.           *)
SerialInv ==
  /\ Ordered(Sent, Before)
  /\ Length > 1 /\ ~ Putting /\ given > 0 => EndsWith(Sent, given)
  /\ Length > 1 /\ pc \in {"store", "advance"} => ~ isFull_i(poss, pose)
  /\ pc = "advance" => bu[pose] = given
  /\ pc \in {"drop", "dropped"} => isFull_i(poss, pose) /\ use.Locked
  /\ pc = "dropped" => pos = poss

WaitingInv ==
  /\ pc \notin {"drop", "dropped"}
  /\ pc \in {"isFull", "store", "advance"} => ~ isFull_i(poss, pose)
  /\ Len(Sent) = Before

OrderInv ==
  LockedCallback => /\ Serial => SerialInv
                    /\ Waiting => WaitingInv

-----------------------------------------------------------------------------
(* The characters and the unwritten ones, as numbers.                      *)
LEMMA CharIsNat ==
  /\ MaxPut \in Nat
  /\ Char \cup {NoChar} = 0 .. MaxPut
  /\ Rings(Char \cup {NoChar}) = Rings(0 .. MaxPut)
BY MaxPutAssumption DEF Char, NoChar, Rings

(***************************************************************************)
(* How many characters sendonReady puts in the handler: no more than fit,  *)
(* no more than there are, and none without a callback.                    *)
(***************************************************************************)
LEMMA FilledRange ==
  ASSUME TypeOK, NEW p \in Slot
  PROVE  /\ Filled(p) \in Nat
         /\ Filled(p) <= (Length - 1) - Used(p, pose)
         /\ given + Filled(p) <= MaxPut
         /\ ~ onReady => Filled(p) = 0
<1>1. Used(p, pose) \in 0 .. Length - 1
  BY UsedRange DEF TypeOK
<1>2. given \in 0 .. MaxPut
  BY DEF TypeOK
<1>3. CASE ~ onReady
  BY <1>1, <1>2, <1>3, CharIsNat, LengthAssumption DEF Filled
<1>4. CASE onReady
  BY <1>1, <1>2, <1>4, CharIsNat, LengthAssumption DEF Filled
<1> QED BY <1>3, <1>4

(* The characters n + 1, ..., n + k.                                       *)
Run(n, k) == [i \in 1 .. k |-> n + i]

LEMMA RunIsSeq ==
  ASSUME NEW n \in Nat, NEW k \in Nat
  PROVE  /\ Run(n, k) \in Seq(1 .. n + k)
         /\ Len(Run(n, k)) = k
         /\ \A i \in 1 .. k : Run(n, k)[i] = n + i
<1>1. \A i \in 1 .. k : n + i \in 1 .. n + k
  OBVIOUS
<1>2. Run(n, k) \in Seq(1 .. n + k)
  BY <1>1, IsASeq DEF Run
<1>3. DOMAIN Run(n, k) = 1 .. k
  BY DEF Run
<1>4. Len(Run(n, k)) = k
  BY <1>2, <1>3, LenProperties
<1> QED BY <1>2, <1>4 DEF Run

(***************************************************************************)
(* What sendonReady leaves behind in the handler.                          *)
(***************************************************************************)
LEMMA FillRing ==
  ASSUME TypeOK, NEW p \in Slot, sendonReadyFrom(p)
  PROVE  /\ bu' \in Rings(0 .. MaxPut)
         /\ pose' \in Slot
         /\ given' = given + Filled(p) /\ given' \in 0 .. MaxPut
         /\ pose' = Wrap(pose + Filled(p))
         /\ onReady' \in BOOLEAN /\ (onReady' => onReady)
         /\ FilledWith(bu, bu', pose, Run(given, Filled(p)))
<1> DEFINE n == Filled(p)
<1>1. /\ n \in Nat /\ n <= (Length - 1) - Used(p, pose)
      /\ given \in Nat /\ given + n <= MaxPut
  BY FilledRange, CharIsNat DEF TypeOK
<1>2. pose \in Slot /\ bu \in Rings(0 .. MaxPut)
  BY CharIsNat DEF TypeOK, Rings
<1>3. Used(p, pose) \in 0 .. Length - 1
  BY <1>2, UsedRange
<1>4. /\ bu' = [s \in Slot |-> IF Used(pose, s) < n THEN given + Used(pose, s) + 1
                                                    ELSE bu[s]]
      /\ pose' = Wrap(pose + n)
      /\ given' = given + n
  BY DEF sendonReadyFrom
<1>5. onReady' \in BOOLEAN /\ (onReady' => onReady)
  BY Zenon DEF sendonReadyFrom
<1> HIDE DEF n
<1>6. \A s \in Slot : Used(pose, s) \in Nat
  BY <1>2, UsedRange
<1>7. \A s \in Slot : Used(pose, s) < n => given + Used(pose, s) + 1 \in 0 .. MaxPut
  BY <1>1, <1>6, CharIsNat
<1>8. bu' \in Rings(0 .. MaxPut)
  BY <1>2, <1>4, <1>7 DEF Rings
<1>9. pose' \in Slot
  BY <1>1, <1>2, <1>3, <1>4, LengthAssumption DEF Wrap, Slot
<1>10. FilledWith(bu, bu', pose, Run(given, n))
  <2>1. /\ Len(Run(given, n)) = n
        /\ \A i \in 1 .. n : Run(given, n)[i] = given + i
    BY <1>1, RunIsSeq
  <2> SUFFICES ASSUME NEW k \in Slot
               PROVE  bu'[k] = IF Used(pose, k) < n THEN Run(given, n)[Used(pose, k) + 1]
                                                    ELSE bu[k]
    BY <2>1 DEF FilledWith
  <2>2. Used(pose, k) < n => Run(given, n)[Used(pose, k) + 1] = given + Used(pose, k) + 1
    BY <1>1, <1>6, <2>1
  <2> QED BY <1>4, <2>2
<1> QED
  BY <1>1, <1>4, <1>5, <1>8, <1>9, <1>10 DEF n
-----------------------------------------------------------------------------
(* The initial states are well typed.                                      *)
LEMMA InitType == Init => TypeInv
<1> SUFFICES ASSUME Init
             PROVE  TypeInv
  OBVIOUS
<1>1. 0 \in Slot
  BY LengthAssumption DEF Slot
<1>2. bu \in [Slot -> Char \cup {NoChar}] /\ tx \in Char \cup {NoChar}
  BY DEF Init
<1>3. use \in Use /\ use.Callback \in BOOLEAN
  BY UsesAssumption, Zenon DEF Init, Use
<1>4. onReady \in BOOLEAN
  BY <1>3, Zenon DEF Init
<1>5. given \in 0 .. MaxPut /\ line \in Seq(Char)
  BY CharIsNat DEF Init
<1> QED
  BY <1>1, <1>2, <1>4, <1>5 DEF Init, TypeInv, TypeOK, Resting

(* Every step keeps the types.                                             *)
LEMMA NextType == TypeInv /\ [Next]_vars => TypeInv'
<1> SUFFICES ASSUME TypeInv, [Next]_vars
             PROVE  TypeInv'
  OBVIOUS
<1> USE DEF TypeInv, Resting
<1>0. add1overrun(pos) \in Slot /\ add1overrun(pose) \in Slot /\ add1overrun(poss) \in Slot
  BY add1overrunSlot DEF TypeOK
<1>1. CASE put
  BY <1>1, CharIsNat DEF TypeOK, put, ring, base
<1>2. CASE putIsFull
  BY <1>2 DEF TypeOK, putIsFull, ring, base, app
<1>3. CASE putDrop
  BY <1>3 DEF TypeOK, putDrop, ring, base, app
<1>4. CASE putDropped
  BY <1>0, <1>4 DEF TypeOK, putDropped, base, app
<1>5. CASE putStore
  <2>1. given \in Char \cup {NoChar}
    BY CharIsNat DEF TypeOK
  <2>2. bu' \in [Slot -> Char \cup {NoChar}]
    BY <1>5, <2>1 DEF TypeOK, putStore
  <2> QED BY <1>5, <2>2 DEF TypeOK, putStore, base, app
<1>6. CASE putAdvance
  BY <1>0, <1>6 DEF TypeOK, putAdvance, base, app
<1>7. CASE putBind
  BY <1>7 DEF TypeOK, putBind, ring, app
<1>8. CASE putEnable
  BY <1>8 DEF TypeOK, putEnable, ring, app
<1>9. CASE enableonReady
  BY <1>9 DEF TypeOK, enableonReady, ring, app
<1>10. CASE sendonReady
  <2>1. UNCHANGED <<bu, poss, pose, bound, readyIE, tx, line, use, pos>>
    BY <1>10 DEF sendonReady, ring, base
  <2>2. given' \in 0 .. MaxPut /\ (pc' \notin {"idle", "sendonReady"} => given' > 0)
    BY <1>10, CharIsNat DEF TypeOK, sendonReady
  <2>3. onReady' \in BOOLEAN
    BY <1>10 DEF TypeOK, sendonReady
  <2>4. pc' \in {"idle", "isFull", "sendonReady"}
    BY <1>10 DEF TypeOK, sendonReady
  <2> QED BY <2>1, <2>2, <2>3, <2>4 DEF TypeOK
<1>11. CASE putonReady
  <2>1. poss' \in Slot /\ tx' \in Char \cup {NoChar}
    <3>1. bu[poss] \in Char \cup {NoChar}
      BY DEF TypeOK
    <3> QED BY <1>0, <1>11, <3>1 DEF TypeOK, putonReady
  <2>2. sendonReadyFrom(poss')
    BY <1>11 DEF putonReady
  <2>3. /\ bu' \in [Slot -> Char \cup {NoChar}] /\ pose' \in Slot
        /\ given' \in 0 .. MaxPut /\ given' >= given /\ onReady' \in BOOLEAN
    <3>1. Filled(poss') \in Nat
      BY <2>1, FilledRange
    <3>2. /\ bu' \in Rings(0 .. MaxPut) /\ pose' \in Slot
          /\ given' = given + Filled(poss')
          /\ given' \in 0 .. MaxPut /\ onReady' \in BOOLEAN
      BY <2>1, <2>2, FillRing, Zenon
    <3> QED BY <3>1, <3>2, CharIsNat DEF Rings, TypeOK
  <2>4. readyIE' \in BOOLEAN
    BY <1>11, Zenon DEF putonReady, staysEnabled
  <2>5. UNCHANGED <<bound, line, use, pc, pos>>
    BY <1>11 DEF putonReady
  <2> QED BY <2>1, <2>3, <2>4, <2>5, CharIsNat DEF TypeOK
<1>12. CASE Transmit
  <2>1. line' \in Seq(Char)
    BY <1>12 DEF TypeOK, Transmit
  <2> QED BY <1>12, <2>1 DEF TypeOK, Transmit, ring, app
<1>13. CASE UNCHANGED vars
  BY <1>13 DEF TypeOK, vars, ring, base, app
<1> QED
  BY <1>1, <1>2, <1>3, <1>4, <1>5, <1>6, <1>7, <1>8, <1>9, <1>10, <1>11, <1>12,
     <1>13, Zenon DEF Next, Main

(***************************************************************************)
(* The indices stay in the ring, its slots hold characters of the program, *)
(* and put knows its character (cbuffer.h:26-44).                          *)
(***************************************************************************)
THEOREM TypeCorrect == Spec => []TypeOK
<1>1. TypeInv => TypeOK
  BY DEF TypeInv
<1> QED BY <1>1, InitType, NextType, PTL DEF Spec

(* The strengthened type invariant holds too.                             *)
LEMMA TypeInvCorrect == Spec => []TypeInv
BY InitType, NextType, PTL DEF Spec
-----------------------------------------------------------------------------
(* put binds the handler before it enables the interrupt.                  *)
WakeInv ==
  /\ NoLostWakeup
  /\ pc = "enable" => bound

(* The handler disables the interrupt only on a ring that stays empty.     *)
LEMMA HandlerWakes ==
  ASSUME TypeInv, WakeInv, putonReady
  PROVE  WakeInv'
<1>1. bound /\ bound' = bound /\ pc' = pc /\ poss \in Slot /\ pose \in Slot
  BY DEF putonReady, TypeInv, TypeOK
<1>2. CASE ~ isEmpty(poss, pose) \/ Filled(poss') > 0
  <2>1. staysEnabled(Filled(poss'))
    BY <1>2, Zenon DEF staysEnabled
  <2>2. readyIE'
    BY <2>1, Zenon DEF putonReady
  <2> QED BY <1>1, <2>2, Zenon DEF WakeInv, NoLostWakeup
<1>3. CASE isEmpty(poss, pose) /\ ~ Filled(poss') > 0
  <2>1. poss' = poss
    BY <1>3, Zenon DEF putonReady
  <2>2. Filled(poss') = 0
    BY <1>1, <1>3, <2>1, FilledRange DEF TypeInv
  <2>3. pose' = Wrap(pose + 0)
    BY <2>2, Zenon DEF putonReady, sendonReadyFrom
  <2>4. pose' = pose
    BY <1>1, <2>3, LengthAssumption DEF Wrap, Slot
  <2>5. isEmpty(poss', pose')
    BY <1>3, <2>1, <2>4 DEF isEmpty
  <2> QED BY <1>1, <2>5, Zenon DEF WakeInv, NoLostWakeup
<1> QED BY <1>2, <1>3, Zenon

(***************************************************************************)
(* Whenever put is at rest and the ring holds a character, the transmitter *)
(* interrupt is enabled and bound to the handler, in every interleaving of *)
(* put with the handler's disableonReady (cbuffer.h:31, 41-42).            *)
(***************************************************************************)
THEOREM NoWakeupIsLost == Spec => []NoLostWakeup
<1>1. Init => WakeInv
  BY DEF Init, WakeInv, NoLostWakeup, isEmpty, Resting
<1>2. TypeInv /\ WakeInv /\ [Next]_vars => WakeInv'
  <2> SUFFICES ASSUME TypeInv, WakeInv, [Next]_vars
               PROVE  WakeInv'
    OBVIOUS
  <2> USE DEF WakeInv, NoLostWakeup, Resting
  <2>1. CASE put
    BY <2>1 DEF put
  <2>2. CASE putIsFull
    BY <2>2 DEF putIsFull
  <2>3. CASE putDrop
    BY <2>3 DEF putDrop
  <2>4. CASE putDropped
    BY <2>4 DEF putDropped
  <2>5. CASE putStore
    BY <2>5 DEF putStore
  <2>6. CASE putAdvance
    BY <2>6 DEF putAdvance
  <2>7. CASE putBind
    BY <2>7 DEF putBind
  <2>8. CASE putEnable
    BY <2>8 DEF putEnable
  <2>9. CASE enableonReady
    <3>1. UNCHANGED <<poss, pose, bound>> /\ readyIE' /\ pc = "idle" /\ pc' = "sendonReady"
      BY <2>9, Zenon DEF enableonReady, ring
    <3> QED BY <3>1 DEF isEmpty
  <2>10. CASE sendonReady
    <3>1. /\ UNCHANGED <<poss, pose, bound, readyIE>>
          /\ pc = "sendonReady" /\ pc' \in {"idle", "sendonReady", "isFull"}
      BY <2>10 DEF sendonReady, ring, base
    <3> QED BY <3>1 DEF isEmpty
  <2>11. CASE putonReady
    BY <2>11, HandlerWakes
  <2>12. CASE Transmit
    BY <2>12 DEF Transmit, ring, isEmpty
  <2>13. CASE UNCHANGED vars
    BY <2>13 DEF vars, ring, base, isEmpty
  <2> QED
    BY <2>1, <2>2, <2>3, <2>4, <2>5, <2>6, <2>7, <2>8, <2>9, <2>10, <2>11, <2>12,
       <2>13, Zenon DEF Next, Main
<1>3. WakeInv => NoLostWakeup
  BY DEF WakeInv
<1> QED BY <1>1, <1>2, <1>3, TypeInvCorrect, PTL DEF Spec
-----------------------------------------------------------------------------
(* The handler fills slots only while the main program rests.              *)
LEMMA FillsAtRest ==
  ASSUME TypeInv, WrittenInv, LockedCallback, putonReady
  PROVE  pc = "idle" \/ Filled(poss') = 0
<1>1. CASE onReady
  BY <1>1, Zenon DEF WrittenInv, LockedCallback, putonReady
<1>2. CASE ~ onReady
  <2>1. poss' \in Slot
    BY add1overrunSlot DEF putonReady, TypeInv, TypeOK
  <2> QED BY <1>2, <2>1, FilledRange DEF TypeInv
<1> QED BY <1>1, <1>2

(* The handler moves a written character to the transmitter, and fills the *)
(* free slots with the characters that come next.                          *)
LEMMA HandlerWrites ==
  ASSUME TypeInv, WrittenInv, LockedCallback, putonReady
  PROVE  Written'
<1> DEFINE n == Filled(poss')
<1>1. /\ poss \in Slot /\ pose \in Slot /\ poss' \in Slot /\ add1overrun(poss) \in Slot
      /\ bu \in Rings(0 .. MaxPut) /\ given \in Nat
  BY add1overrunSlot, CharIsNat DEF putonReady, TypeInv, TypeOK, Rings
<1>2. /\ n \in Nat
      /\ n <= (Length - 1) - Used(poss', pose)
      /\ n > 0 => pc = "idle"
  BY <1>1, FilledRange, FillsAtRest DEF TypeInv
<1>3. /\ pose' = Wrap(pose + n) /\ pose' \in Slot
      /\ given' = given + n
      /\ FilledWith(bu, bu', pose, Run(given, n))
  BY <1>1, FillRing, Zenon DEF putonReady, TypeInv
<1>4. /\ Len(Run(given, n)) = n
      /\ \A i \in 1 .. n : Run(given, n)[i] = given + i
  BY <1>1, <1>2, RunIsSeq
<1>5. Written
  BY Zenon DEF WrittenInv
<1>6. UNCHANGED <<line, pc>>
  BY DEF putonReady
<1> HIDE DEF n
<1>7. \A s \in Slot : InUse(poss', pose, s) => InUse(poss, pose, s)
  <2>1. poss' = poss \/ (poss' = add1overrun(poss) /\ poss # pose)
    BY Zenon DEF putonReady, isEmpty
  <2> QED BY <1>1, <2>1, InUseSteps
<1>8. \A s \in Slot : Used(pose, s) < n => bu'[s] \in 1 .. given'
  <2> SUFFICES ASSUME NEW s \in Slot, Used(pose, s) < n
               PROVE  bu'[s] \in 1 .. given'
    OBVIOUS
  <2>1. Used(pose, s) \in Nat
    BY <1>1, UsedRange
  <2>2. bu'[s] = Run(given, n)[Used(pose, s) + 1]
    BY <1>3, <1>4 DEF FilledWith
  <2>3. bu'[s] = given + Used(pose, s) + 1
    BY <1>1, <1>2, <1>4, <2>1, <2>2
  <2> QED BY <1>1, <1>2, <1>3, <2>1, <2>3
<1>9. \A s \in Slot : bu[s] \in 1 .. given => bu'[s] \in 1 .. given'
  <2>1. ASSUME NEW s \in Slot, ~ Used(pose, s) < n
        PROVE  bu'[s] = bu[s]
    BY <1>3, <1>4, <2>1 DEF FilledWith
  <2>2. \A x : x \in 1 .. given => x \in 1 .. given'
    BY <1>1, <1>2, <1>3
  <2> QED BY <1>8, <2>1, <2>2, Zenon
<1>10. \A s \in Slot : InUse(poss', pose', s) => bu'[s] \in 1 .. given'
  <2> SUFFICES ASSUME NEW s \in Slot, InUse(poss', pose', s)
               PROVE  bu'[s] \in 1 .. given'
    OBVIOUS
  <2>1. Used(pose, s) < n \/ InUse(poss', pose, s)
    BY <1>1, <1>2, <1>3, InUseFilled
  <2> QED BY <1>5, <1>7, <1>8, <1>9, <2>1, Zenon DEF Written
<1>11. pc # "idle" => pose' = pose
  <2>1. pose = Wrap(pose + 0)
    BY <1>1, LengthAssumption DEF Wrap, Slot
  <2>2. pc # "idle" => n = 0
    BY <1>2
  <2> QED BY <1>3, <2>1, <2>2
<1>12. tx' \in 0 .. given'
  <2>1. tx' = tx \/ (tx' = bu[poss] /\ InUse(poss, pose, poss))
    <3>1. isEmpty(poss, pose) \/ InUse(poss, pose, poss)
      BY <1>1, LengthAssumption DEF isEmpty, InUse, Used, Slot
    <3> QED BY <3>1, Zenon DEF putonReady
  <2>2. tx' \in 0 .. given
    BY <1>1, <1>5, <2>1 DEF Written
  <2> QED BY <1>1, <1>2, <1>3, <2>2
<1>13. \A i \in 1 .. Len(line) : line[i] \in 1 .. given'
  <2>1. \A x : x \in 1 .. given => x \in 1 .. given'
    BY <1>1, <1>2, <1>3
  <2> QED BY <1>5, <2>1, Zenon DEF Written
<1>14. pc \in {"drop", "dropped"} => \A s \in Slot : s # pose' => bu'[s] \in 1 .. given'
  <2>1. pc \in {"drop", "dropped"} => pc # "idle"
    OBVIOUS
  <2> QED BY <1>5, <1>9, <1>11, <2>1, Zenon DEF Written
<1>15. pc = "advance" => bu'[pose'] \in 1 .. given'
  <2>1. pc = "advance" => pc # "idle"
    OBVIOUS
  <2> QED BY <1>1, <1>5, <1>9, <1>11, <2>1, Zenon DEF Written
<1> QED
  BY <1>6, <1>10, <1>12, <1>13, <1>14, <1>15, Zenon DEF Written
(* What was put stays put when the next character is numbered.             *)
LEMMA WrittenMore ==
  ASSUME TypeInv, Written, UNCHANGED <<bu, poss, pose, tx, line>>,
         given' \in Nat, given <= given',
         pc' \notin {"drop", "dropped", "advance"}
  PROVE  Written'
<1>1. given \in Nat
  BY CharIsNat DEF TypeInv, TypeOK
<1>2. \A x : x \in 0 .. given => x \in 0 .. given'
  BY <1>1
<1>3. \A x : x \in 1 .. given => x \in 1 .. given'
  BY <1>1
<1> QED BY <1>2, <1>3, Zenon DEF Written

(* Every step keeps what is on its way out written.                        *)
LEMMA NextWritten == TypeInv /\ WrittenInv /\ [Next]_vars => WrittenInv'
<1> SUFFICES ASSUME TypeInv, WrittenInv, [Next]_vars
             PROVE  WrittenInv'
  OBVIOUS
<1>0. /\ poss \in Slot /\ pose \in Slot /\ pos \in Slot /\ given \in Nat
      /\ bu \in Rings(0 .. MaxPut)
      /\ (~ Resting => given > 0)
  BY CharIsNat DEF TypeInv, TypeOK, Rings
<1>a. ASSUME UNCHANGED <<onReady, use>>, LockedCallback => Written'
      PROVE  WrittenInv'
  BY <1>a DEF WrittenInv, LockedCallback
<1>1. CASE put
  <2>1. LockedCallback => Written'
    BY <1>0, <1>1, WrittenMore DEF put, ring, base, WrittenInv
  <2> QED BY <1>1, <1>a, <2>1 DEF put
<1>2. CASE putIsFull
  <2>1. /\ UNCHANGED <<bu, poss, pose, tx, line, given, onReady, use>>
        /\ pc' = IF isFull_i(poss, pose) THEN "drop" ELSE "store"
    BY <1>2 DEF putIsFull, ring, base, app
  <2>2. ASSUME Written PROVE Written'
    <3>1. \A s \in Slot : isFull_i(poss, pose) /\ s # pose => InUse(poss, pose, s)
      BY <1>0, InUseSteps
    <3>2. isFull_i(poss, pose) => \A s \in Slot : s # pose => bu[s] \in 1 .. given
      BY <2>2, <3>1, Zenon DEF Written
    <3> QED BY <2>1, <2>2, <3>2 DEF Written
  <2> QED BY <1>a, <2>1, <2>2, Zenon DEF WrittenInv
<1>3. CASE putDrop
  <2>1. /\ UNCHANGED <<bu, poss, pose, tx, line, given, onReady, use>>
        /\ pc = "drop" /\ pc' = "dropped"
    BY <1>3 DEF putDrop, ring, base, app
  <2> QED BY <1>a, <2>1 DEF Written, WrittenInv
<1>4. CASE putDropped
  <2>1. /\ UNCHANGED <<bu, pose, tx, line, given, onReady, use>>
        /\ pc = "dropped" /\ pc' = "store" /\ poss' \in Slot
    BY <1>0, <1>4, add1overrunSlot DEF putDropped, base, app
  <2>2. ASSUME Written PROVE Written'
    <3>1. \A s \in Slot : InUse(poss', pose, s) => s # pose
      BY <1>0, <2>1, InUseSteps
    <3> QED BY <2>1, <2>2, <3>1 DEF Written
  <2> QED BY <1>a, <2>1, <2>2, Zenon DEF WrittenInv
<1>5. CASE putStore
  <2>1. /\ UNCHANGED <<poss, pose, tx, line, given, onReady, use>>
        /\ pc = "store" /\ pc' = "advance"
        /\ given > 0
        /\ bu' = [bu EXCEPT ![pose] = given]
    BY <1>0, <1>5 DEF putStore, base, app, Resting
  <2>2. bu'[pose] \in 1 .. given /\ \A s \in Slot : s # pose => bu'[s] = bu[s]
    BY <1>0, <2>1 DEF Rings
  <2>3. ASSUME Written PROVE Written'
    BY <2>1, <2>2, <2>3 DEF Written
  <2> QED BY <1>a, <2>1, <2>3, Zenon DEF WrittenInv
<1>6. CASE putAdvance
  <2>1. /\ UNCHANGED <<bu, poss, tx, line, given, onReady, use>>
        /\ pc = "advance" /\ pc' = "bind" /\ pose' = add1overrun(pose)
    BY <1>6 DEF putAdvance, base, app
  <2>2. ASSUME Written PROVE Written'
    <3>1. \A s \in Slot : InUse(poss, pose', s) => s = pose \/ InUse(poss, pose, s)
      BY <1>0, <2>1, InUseSteps
    <3> QED BY <2>1, <2>2, <3>1 DEF Written
  <2> QED BY <1>a, <2>1, <2>2, Zenon DEF WrittenInv
<1>7. CASE putBind
  <2>1. /\ UNCHANGED <<bu, poss, pose, tx, line, given, onReady, use>>
        /\ pc' = "enable"
    BY <1>7 DEF putBind, ring, app
  <2> QED BY <1>a, <2>1 DEF Written, WrittenInv
<1>8. CASE putEnable
  <2>1. /\ UNCHANGED <<bu, poss, pose, tx, line, given, onReady, use>>
        /\ pc' \in {"sendonReady", "idle"}
    BY <1>8 DEF putEnable, ring, app
  <2> QED BY <1>a, <2>1 DEF Written, WrittenInv
<1>9. CASE enableonReady
  <2>1. /\ UNCHANGED <<bu, poss, pose, tx, line, given, onReady, use>>
        /\ pc' = "sendonReady"
    BY <1>9 DEF enableonReady, ring, app
  <2> QED BY <1>a, <2>1 DEF Written, WrittenInv
<1>10. CASE sendonReady
  <2>1. /\ UNCHANGED <<bu, poss, pose, tx, line, use>>
        /\ pc' \in {"idle", "sendonReady", "isFull"}
        /\ given' \in Nat /\ given <= given'
        /\ onReady' = onReady \/ onReady' = FALSE
    BY <1>0, <1>10 DEF sendonReady, ring, base
  <2>2. Written => Written'
    BY <2>1, WrittenMore
  <2>3. onReady' => onReady
    BY <2>1, Zenon
  <2> QED BY <2>1, <2>2, <2>3, Zenon DEF WrittenInv, LockedCallback
<1>11. CASE putonReady
  <2>1. LockedCallback => Written'
    BY <1>11, HandlerWrites
  <2>2. use' = use /\ (onReady' => onReady)
    BY <1>11, Zenon DEF putonReady, sendonReadyFrom
  <2> QED BY <2>1, <2>2, Zenon DEF WrittenInv, LockedCallback
<1>12. CASE Transmit
  <2>1. /\ UNCHANGED <<bu, poss, pose, given, onReady, use, pc>>
        /\ tx # NoChar /\ line' = Append(line, tx) /\ tx' = NoChar
    BY <1>12 DEF Transmit, ring, app
  <2>2. line \in Seq(Char) /\ tx \in Char
    BY <2>1 DEF TypeInv, TypeOK
  <2>3. ASSUME Written PROVE Written'
    <3>1. tx \in 1 .. given /\ tx' \in 0 .. given'
      BY <1>0, <2>1, <2>3 DEF Written, NoChar
    <3>2. /\ Len(line') = Len(line) + 1 /\ Len(line) \in Nat
          /\ \A i \in 1 .. Len(line) : line'[i] = line[i]
          /\ line'[Len(line) + 1] = tx
      BY <2>1, <2>2, AppendProperties, LenProperties
    <3>3. \A i \in 1 .. Len(line') : i = Len(line) + 1 \/ i \in 1 .. Len(line)
      BY <3>2
    <3>4. \A i \in 1 .. Len(line') : line'[i] \in 1 .. given'
      BY <2>1, <2>3, <3>1, <3>2, <3>3 DEF Written
    <3> QED BY <2>1, <2>3, <3>1, <3>4, Zenon DEF Written
  <2> QED BY <1>a, <2>1, <2>3, Zenon DEF WrittenInv
<1>13. CASE UNCHANGED vars
  BY <1>13 DEF vars, ring, base, app, WrittenInv, Written, LockedCallback
<1> QED
  BY <1>1, <1>2, <1>3, <1>4, <1>5, <1>6, <1>7, <1>8, <1>9, <1>10, <1>11, <1>12,
     <1>13, Zenon DEF Next, Main
-----------------------------------------------------------------------------
(* The register of the transmitter as a sequence.                          *)
Reg(t) == IF t = NoChar THEN << >> ELSE <<t>>

LEMMA SentParts ==
  ASSUME TypeInv
  PROVE  /\ line \in Seq(Nat) /\ Reg(tx) \in Seq(Nat) /\ line \o Reg(tx) \in Seq(Nat)
         /\ Contents(bu, poss, pose) \in Seq(Nat)
         /\ Sent = (line \o Reg(tx)) \o Contents(bu, poss, pose)
         /\ Sent \in Seq(Nat)
<1>1. /\ line \in Seq(Nat)
      /\ tx \in Nat
      /\ bu \in Rings(Nat) /\ poss \in Slot /\ pose \in Slot
  BY CharIsNat, SeqMonotonic DEF TypeInv, TypeOK, Rings
<1>2. Reg(tx) \in Seq(Nat)
  BY <1>1 DEF Reg
<1>3. line \o Reg(tx) \in Seq(Nat)
  BY <1>1, <1>2, ConcatProperties
<1>4. Contents(bu, poss, pose) \in Seq(Nat)
  BY <1>1, ContentsIsSeq
<1>5. Sent = (line \o Reg(tx)) \o Contents(bu, poss, pose)
  BY DEF Sent, Reg
<1>6. Sent \in Seq(Nat)
  BY <1>3, <1>4, <1>5, ConcatProperties
<1> QED BY <1>1, <1>2, <1>3, <1>4, <1>5, <1>6, Zenon

LEMMA WrittenIsPut ==
  ASSUME TypeInv, Written
  PROVE  \A i \in 1 .. Len(Sent) : Sent[i] \in 1 .. given
<1> DEFINE G == 1 .. given
<1>1. /\ line \in Seq(Char) /\ tx \in Nat /\ given \in Nat
      /\ bu \in Rings(0 .. MaxPut) /\ poss \in Slot /\ pose \in Slot
  BY CharIsNat DEF TypeInv, TypeOK, Rings
<1>2. line \in Seq(G)
  BY <1>1, SeqOfElements DEF Written
<1>3. Reg(tx) \in Seq(G)
  <2>1. tx = NoChar \/ tx \in G
    BY <1>1 DEF Written, NoChar
  <2> HIDE DEF G
  <2>2. << >> \in Seq(G)
    OBVIOUS
  <2>3. tx \in G => <<tx>> \in Seq(G)
    OBVIOUS
  <2> QED BY <2>1, <2>2, <2>3, Zenon DEF Reg
<1>4. line \o Reg(tx) \in Seq(G)
  BY <1>2, <1>3, ConcatProperties
<1>5. \A i \in 1 .. Used(poss, pose) : bu[Wrap(poss + i - 1)] \in G
  <2> SUFFICES ASSUME NEW i \in 1 .. Used(poss, pose)
               PROVE  bu[Wrap(poss + i - 1)] \in G
    OBVIOUS
  <2>1. Wrap(poss + i - 1) \in Slot
    BY <1>1, WrapSlot
  <2>2. InUse(poss, pose, Wrap(poss + i - 1))
    BY <1>1, LengthAssumption DEF InUse, Used, Wrap, Slot
  <2> QED BY <2>1, <2>2 DEF Written
<1>6. Contents(bu, poss, pose) \in Seq(G)
  <2> DEFINE c == Contents(bu, poss, pose)
  <2>1. /\ c \in Seq(0 .. MaxPut)
        /\ Len(c) = Used(poss, pose)
        /\ \A i \in 1 .. Used(poss, pose) : c[i] = bu[Wrap(poss + i - 1)]
    BY <1>1, ContentsIsSeq, Zenon
  <2> HIDE DEF c, G
  <2>2. \A i \in 1 .. Len(c) : c[i] \in G
    BY <1>5, <2>1, Zenon
  <2>3. c \in Seq(G)
    BY <2>1, <2>2, SeqOfElements
  <2> QED BY <2>3 DEF c
<1>7. Sent \in Seq(G)
  BY <1>4, <1>6, SentParts, ConcatProperties
<1> QED BY <1>7, ElementOfSeq

(* Nothing is on its way out at the start.                                 *)
LEMMA InitWritten == Init => WrittenInv
<1> SUFFICES ASSUME Init
             PROVE  WrittenInv
  OBVIOUS
<1>1. \A s \in Slot : ~ InUse(poss, pose, s)
  BY LengthAssumption DEF Init, InUse, Used, Slot
<1>2. tx \in 0 .. given /\ Len(line) = 0 /\ pc = "idle"
  BY DEF Init, NoChar
<1>3. Written
  BY <1>1, <1>2 DEF Written
<1>4. onReady => use.Callback
  BY Zenon DEF Init
<1> QED BY <1>3, <1>4 DEF WrittenInv

LEMMA WrittenInvCorrect == Spec => []WrittenInv
BY InitWritten, NextWritten, TypeInvCorrect, PTL DEF Spec

(***************************************************************************)
(* Whatever leaves the transmitter, or is on its way out, the program has  *)
(* put: a put that drops the oldest character while the handler takes it   *)
(* (cbuffer.h:26-44, queuebuffer.h:81-92) exposes no unwritten slot.       *)
(***************************************************************************)
THEOREM SendsOnlyWhatWasPut == Spec => []OnlyWhatWasPut
<1>1. TypeInv /\ WrittenInv => OnlyWhatWasPut
  BY WrittenIsPut DEF OnlyWhatWasPut, WrittenInv
<1> QED BY <1>1, WrittenInvCorrect, TypeInvCorrect, PTL
-----------------------------------------------------------------------------
(* What each step does to the characters on their way out.                 *)

LEMMA SentSame ==
  UNCHANGED <<bu, poss, pose, tx, line>> => Sent' = Sent
BY DEF Sent

(* The character in the register becomes the last one of the line.         *)
LEMMA SentTransmit ==
  ASSUME TypeInv, Transmit
  PROVE  Sent' = Sent
<1>1. /\ line \in Seq(Nat) /\ tx \in Nat /\ tx # NoChar
      /\ line' = Append(line, tx) /\ tx' = NoChar
      /\ UNCHANGED <<bu, poss, pose>>
  BY CharIsNat, SeqMonotonic DEF TypeInv, TypeOK, Transmit, ring
<1>2. line' = line \o <<tx>> /\ line' \in Seq(Nat)
  BY <1>1, AppendIsConcat, AppendProperties
<1>3. line' \o << >> = line'
  BY <1>2, ConcatEmptySeq
<1> QED BY <1>1, <1>2, <1>3, Zenon DEF Sent

(* Storing behind the last character shows nothing yet.                    *)
LEMMA SentStore ==
  ASSUME TypeInv, putStore
  PROVE  Sent' = Sent
<1>1. /\ bu \in Rings(Nat) /\ poss \in Slot /\ pose \in Slot /\ given \in Nat
      /\ UNCHANGED <<poss, pose, tx, line>>
      /\ bu' = [bu EXCEPT ![pose] = given]
  BY CharIsNat DEF TypeInv, TypeOK, Rings, putStore, base
<1>2. bu' \in Rings(Nat) /\ Stored(bu, bu', pose, given)
  BY <1>1 DEF Rings, Stored
<1>3. Contents(bu', poss, pose) = Contents(bu, poss, pose)
  BY <1>1, <1>2, StoreKeeps, Zenon
<1> QED BY <1>1, <1>3, Zenon DEF Sent

(* Advancing pose of a ring with room appends the character stored there;  *)
(* in a ring of one slot it shows nothing.                                 *)
LEMMA SentAdvance ==
  ASSUME TypeInv, putAdvance
  PROVE  /\ ~ isFull_i(poss, pose) => Sent' = Append(Sent, bu[pose])
         /\ Length = 1 => Sent' = Sent
<1>1. /\ bu \in Rings(Nat) /\ poss \in Slot /\ pose \in Slot /\ pose' \in Slot
      /\ UNCHANGED <<bu, poss, tx, line>>
      /\ pose' = add1overrun(pose)
  BY CharIsNat, add1overrunSlot DEF TypeInv, TypeOK, Rings, putAdvance, base
<1>2. bu[pose] \in Nat /\ Stored(bu, bu, pose, bu[pose])
  BY <1>1 DEF Rings, Stored
<1>3. ASSUME ~ isFull_i(poss, pose)
      PROVE  Sent' = Append(Sent, bu[pose])
  <2> DEFINE u == line \o Reg(tx)
             c == Contents(bu, poss, pose)
             x == bu[pose]
  <2>1. Contents(bu, poss, pose') = Append(c, x)
    <3>1. /\ ~ isFull_i(poss, pose)
          /\ pose' = add1overrun(pose)
          /\ Stored(bu, bu, pose, x)
          => Contents(bu, poss, pose') = Append(c, x)
      BY <1>1, <1>2, PutAppends
    <3> QED BY <1>1, <1>2, <1>3, <3>1, Zenon
  <2>2. u \in Seq(Nat) /\ c \in Seq(Nat) /\ x \in Nat /\ Sent = u \o c /\ Sent \in Seq(Nat)
    BY <1>2, SentParts, Zenon
  <2>3. Sent' = u \o Append(c, x)
    BY <1>1, <2>1, Zenon DEF Sent, Reg
  <2> HIDE DEF u, c, x
  <2>4. <<x>> \in Seq(Nat)
    BY <2>2
  <2>5. Append(c, x) = c \o <<x>> /\ Append(Sent, x) = Sent \o <<x>>
    BY <2>2, AppendIsConcat
  <2>6. (u \o c) \o <<x>> = u \o (c \o <<x>>)
    BY <2>2, <2>4, ConcatAssociative
  <2>7. Sent' = Append(Sent, x)
    BY <2>2, <2>3, <2>5, <2>6, Zenon
  <2> QED BY <2>7 DEF x
<1>4. ASSUME Length = 1
      PROVE  Sent' = Sent
  <2>1. pose' = pose
    BY <1>1, <1>4 DEF Slot
  <2> QED BY <1>1, <2>1, SentSame, Zenon
<1> QED BY <1>3, <1>4, Zenon

(* Dropping the oldest character of a full ring.                           *)
LEMMA SentDrop ==
  ASSUME TypeInv, putDropped, pos = poss, isFull_i(poss, pose)
  PROVE  \/ Sent' = Sent
         \/ /\ Contents(bu, poss, pose) # << >>
            /\ Sent' = (line \o Reg(tx)) \o Tail(Contents(bu, poss, pose))
<1>1. /\ bu \in Rings(Nat) /\ poss \in Slot /\ pose \in Slot /\ poss' \in Slot
      /\ UNCHANGED <<bu, pose, tx, line>>
      /\ poss' = add1overrun(poss)
  BY CharIsNat, add1overrunSlot DEF TypeInv, TypeOK, Rings, putDropped, base
<1>2. CASE poss = pose
  <2>1. poss' = poss
    BY <1>1, <1>2, LengthAssumption DEF isFull_i, add1overrun, Slot
  <2> QED BY <1>1, <2>1, SentSame, Zenon
<1>3. CASE poss # pose
  <2>1. /\ Contents(bu, poss, pose) # << >>
        /\ Contents(bu, poss', pose) = Tail(Contents(bu, poss, pose))
    BY <1>1, <1>3, AdvanceIsTail, Zenon
  <2> QED BY <1>1, <2>1, Zenon DEF Sent, Reg
<1> QED BY <1>2, <1>3, Zenon

(* The handler moves the first character of the ring to the transmitter    *)
(* and appends those that it fills the ring with.                          *)
LEMMA SentHandler ==
  ASSUME TypeInv, Written, putonReady
  PROVE  Sent' = Sent \o Run(given, Filled(poss'))
<1> DEFINE n == Filled(poss')
           u == line \o Reg(tx)
           v == line \o Reg(tx')
           c == Contents(bu, poss, pose)
           d == Contents(bu, poss', pose)
           r == Run(given, n)
<1>1. /\ poss \in Slot /\ pose \in Slot /\ poss' \in Slot
      /\ bu \in Rings(Nat) /\ given \in Nat /\ line \in Seq(Nat)
      /\ tx = NoChar /\ line' = line
  BY add1overrunSlot, CharIsNat, SeqMonotonic DEF putonReady, TypeInv, TypeOK, Rings
<1>2. n \in Nat /\ n <= (Length - 1) - Used(poss', pose)
  BY <1>1, FilledRange DEF TypeInv
<1>3. /\ pose' = Wrap(pose + n) /\ pose' \in Slot
      /\ bu' \in Rings(0 .. MaxPut)
      /\ FilledWith(bu, bu', pose, r)
  BY <1>1, FillRing, Zenon DEF putonReady, TypeInv
<1>4. r \in Seq(Nat) /\ Len(r) = n
  <2>1. r \in Seq(1 .. given + n) /\ Len(r) = n
    BY <1>1, <1>2, RunIsSeq
  <2>2. 1 .. given + n \subseteq Nat
    BY <1>1, <1>2
  <2> QED BY <2>1, <2>2, SeqMonotonic
<1>5. bu' \in Rings(Nat)
  BY <1>3, CharIsNat DEF Rings
<1>6. /\ u \in Seq(Nat) /\ c \in Seq(Nat) /\ Sent = u \o c /\ u = line \o << >>
  BY <1>1, SentParts, Zenon DEF Reg
<1>7. d \in Seq(Nat)
  BY <1>1, ContentsIsSeq
<1>8. Contents(bu', poss', pose') = d \o r
  <2> HIDE DEF n, r
  <2>1. /\ Len(r) <= (Length - 1) - Used(poss', pose)
        /\ pose' = Wrap(pose + Len(r))
        /\ FilledWith(bu, bu', pose, r)
        => Contents(bu', poss', pose') = d \o r
    BY <1>1, <1>3, <1>4, <1>5, FillAppends
  <2> QED BY <1>2, <1>3, <1>4, <2>1, Zenon
<1>9. Sent' = v \o (d \o r)
  BY <1>1, <1>8, Zenon DEF Sent, Reg
<1> HIDE DEF n, r
<1>10. v \in Seq(Nat) /\ v \o d = u \o c
  <2>1. CASE isEmpty(poss, pose)
    <3>1. poss' = poss /\ tx' = tx
      BY <2>1, Zenon DEF putonReady
    <3> QED BY <1>6, <3>1, Zenon
  <2>2. CASE ~ isEmpty(poss, pose)
    <3>1. poss' = add1overrun(poss) /\ tx' = bu[poss] /\ poss # pose
      BY <2>2, Zenon DEF putonReady, isEmpty
    <3>2. c # << >> /\ Head(c) = bu[poss] /\ d = Tail(c)
      BY <1>1, <3>1, AdvanceIsTail, Zenon
    <3>3. InUse(poss, pose, poss)
      BY <1>1, <3>1, LengthAssumption DEF InUse, Used, Slot
    <3>4. tx' # NoChar /\ tx' \in Nat
      BY <1>1, <3>1, <3>3 DEF Written, NoChar
    <3>5. Reg(tx') = <<Head(c)>> /\ <<Head(c)>> \in Seq(Nat) /\ Head(c) \in Nat
      BY <3>1, <3>2, <3>4 DEF Reg
    <3> HIDE DEF c, d
    <3>6. c = <<Head(c)>> \o Tail(c)
      BY <1>6, <3>2
    <3>7. (line \o <<Head(c)>>) \o d = line \o (<<Head(c)>> \o d)
      BY <1>1, <1>7, <3>5, ConcatAssociative
    <3>8. u = line
      BY <1>1, <1>6, ConcatEmptySeq
    <3>9. line \o <<Head(c)>> \in Seq(Nat)
      BY <1>1, <3>5, ConcatProperties
    <3> QED BY <3>2, <3>5, <3>6, <3>7, <3>8, <3>9, Zenon
  <2> QED BY <2>1, <2>2
<1> HIDE DEF u, v, c, d
<1>11. v \o (d \o r) = (v \o d) \o r
  <2>1. \A x, y, z \in Seq(Nat) : (x \o y) \o z = x \o (y \o z)
    BY ConcatAssociative
  <2>2. v \in Seq(Nat) /\ d \in Seq(Nat) /\ r \in Seq(Nat)
    BY <1>4, <1>7, <1>10
  <2> QED BY <2>1, <2>2, Zenon
<1>12. Sent' = Sent \o r
  BY <1>6, <1>9, <1>10, <1>11, Zenon
<1> QED BY <1>12 DEF r, n
-----------------------------------------------------------------------------
(* Ordered sequences: the next numbers may be appended, and an element may *)
(* be taken out of the middle.                                             *)

LEMMA OrderedRun ==
  ASSUME NEW s \in Seq(Nat), NEW g \in Nat, NEW n \in Nat, Ordered(s, g)
  PROVE  /\ Ordered(s \o Run(g, n), g + n)
         /\ n > 0 => EndsWith(s \o Run(g, n), g + n)
         /\ n = 0 => s \o Run(g, n) = s
         /\ Len(s \o Run(g, n)) = Len(s) + n
<1> DEFINE r == Run(g, n)
           t == s \o r
<1>1. /\ r \in Seq(1 .. g + n) /\ Len(r) = n
      /\ \A i \in 1 .. n : r[i] = g + i
  BY RunIsSeq
<1>2. r \in Seq(Nat)
  BY <1>1, SeqMonotonic
<1> HIDE DEF r
<1>3. /\ t \in Seq(Nat) /\ Len(t) = Len(s) + Len(r)
      /\ \A i \in 1 .. Len(s) + Len(r) :
           t[i] = IF i <= Len(s) THEN s[i] ELSE r[i - Len(s)]
  BY <1>2, ConcatProperties, Zenon
<1>4. Len(s) \in Nat /\ Len(t) = Len(s) + n
  BY <1>1, <1>3, LenProperties
<1>5. \A i \in 1 .. Len(s) : s[i] \in 1 .. g
  BY DEF Ordered
<1>6. \A i, j \in 1 .. Len(s) : i < j => s[i] < s[j]
  BY DEF Ordered
<1>7. n = 0 => t = s
  <2>1. n = 0 => r = << >>
    BY <1>1, <1>2, EmptySeq
  <2> QED BY <2>1, ConcatEmptySeq
<1> HIDE DEF t
<1>8. \A i \in 1 .. Len(t) : /\ i <= Len(s) => i \in 1 .. Len(s) /\ t[i] = s[i]
                             /\ ~ i <= Len(s) => t[i] = g + (i - Len(s))
  <2> SUFFICES ASSUME NEW i \in 1 .. Len(t)
               PROVE  /\ i <= Len(s) => i \in 1 .. Len(s) /\ t[i] = s[i]
                      /\ ~ i <= Len(s) => t[i] = g + (i - Len(s))
    OBVIOUS
  <2>1. CASE i <= Len(s)
    BY <1>1, <1>3, <1>4, <2>1
  <2>2. CASE ~ i <= Len(s)
    <3>1. i - Len(s) \in 1 .. n
      BY <1>4, <2>2
    <3>2. t[i] = r[i - Len(s)]
      BY <1>1, <1>3, <1>4, <2>2
    <3> QED BY <1>1, <2>2, <3>1, <3>2
  <2> QED BY <2>1, <2>2
<1>9. \A i \in 1 .. Len(t) : t[i] \in 1 .. g + n
  BY <1>4, <1>5, <1>8
<1>10. \A i, j \in 1 .. Len(t) : i < j => t[i] < t[j]
  <2> SUFFICES ASSUME NEW i \in 1 .. Len(t), NEW j \in 1 .. Len(t), i < j
               PROVE  t[i] < t[j]
    OBVIOUS
  <2>1. CASE j <= Len(s)
    BY <1>4, <1>6, <1>8, <2>1
  <2>2. CASE ~ j <= Len(s) /\ i <= Len(s)
    BY <1>4, <1>5, <1>8, <2>2
  <2>3. CASE ~ j <= Len(s) /\ ~ i <= Len(s)
    BY <1>4, <1>8, <2>3
  <2> QED BY <2>1, <2>2, <2>3
<1>11. n > 0 => t # << >> /\ t[Len(t)] = g + n
  <2>1. n > 0 => t # << >>
    BY <1>3, <1>4, EmptySeq
  <2>2. n > 0 => Len(t) \in 1 .. Len(t) /\ ~ Len(t) <= Len(s) /\ Len(t) - Len(s) = n
    BY <1>4
  <2> QED BY <1>8, <2>1, <2>2
<1> QED BY <1>4, <1>7, <1>9, <1>10, <1>11 DEF Ordered, EndsWith, t, r

LEMMA OrderedTail ==
  ASSUME NEW u \in Seq(Nat), NEW c \in Seq(Nat), NEW g \in Nat,
         c # << >>, Ordered(u \o c, g)
  PROVE  Ordered(u \o Tail(c), g)
<1> DEFINE s == u \o c
           t == u \o Tail(c)
           m == Len(u)
<1>1. /\ Tail(c) \in Seq(Nat) /\ Len(Tail(c)) = Len(c) - 1
      /\ \A i \in 1 .. Len(Tail(c)) : Tail(c)[i] = c[i + 1]
      /\ m \in Nat /\ Len(c) \in Nat \ {0}
  BY HeadTailProperties, LenProperties, EmptySeq
<1>2. /\ Len(s) = m + Len(c)
      /\ \A i \in 1 .. m + Len(c) : s[i] = IF i <= m THEN u[i] ELSE c[i - m]
  BY ConcatProperties, Zenon
<1>3. /\ Len(t) = m + Len(Tail(c))
      /\ \A i \in 1 .. m + Len(Tail(c)) : t[i] = IF i <= m THEN u[i] ELSE Tail(c)[i - m]
  BY <1>1, ConcatProperties, Zenon
<1> DEFINE at(i) == IF i <= m THEN i ELSE i + 1
<1> HIDE DEF s, t, m
<1>4. \A i \in 1 .. Len(t) : at(i) \in 1 .. Len(s) /\ t[i] = s[at(i)]
  <2> SUFFICES ASSUME NEW i \in 1 .. Len(t)
               PROVE  at(i) \in 1 .. Len(s) /\ t[i] = s[at(i)]
    OBVIOUS
  <2>1. CASE i <= m
    BY <1>1, <1>2, <1>3, <2>1
  <2>2. CASE ~ i <= m
    <3>1. i - m \in 1 .. Len(Tail(c)) /\ i + 1 \in 1 .. m + Len(c)
      BY <1>1, <1>3, <2>2
    <3>2. t[i] = c[(i - m) + 1]
      BY <1>1, <1>3, <2>2, <3>1
    <3>3. s[i + 1] = c[(i + 1) - m] /\ (i + 1) - m = (i - m) + 1
      BY <1>1, <1>2, <2>2, <3>1
    <3> QED BY <1>2, <2>2, <3>1, <3>2, <3>3
  <2> QED BY <2>1, <2>2
<1>5. \A i, j \in 1 .. Len(t) : i < j => at(i) < at(j)
  BY <1>1, <1>3
<1> HIDE DEF at
<1> QED
  BY <1>4, <1>5, Zenon DEF Ordered, s, t
-----------------------------------------------------------------------------
(* A step that leaves the ring and the line alone and neither begins nor   *)
(* ends a put.                                                             *)
LEMMA OrderSame ==
  ASSUME OrderInv, Sent' = Sent, UNCHANGED <<bu, poss, pose, given, use, pos>>,
         Putting' <=> Putting, Before' = Before,
         pc' \in {"drop", "dropped", "store", "advance"} => pc' = pc,
         pc' = "isFull" => pc = "isFull"
  PROVE  OrderInv'
BY DEF OrderInv, SerialInv, WaitingInv, Serial, Waiting, LockedCallback, EndsWith

(* The ring of a put that has room keeps it while the handler takes        *)
(* characters out; the ring that a put drops from has room afterwards.     *)
LEMMA RoomStays ==
  ASSUME NEW p \in Slot, NEW q \in Slot
  PROVE  /\ p # q /\ ~ isFull_i(p, q) => ~ isFull_i(add1overrun(p), q)
         /\ Length > 1 /\ isFull_i(p, q) => ~ isFull_i(add1overrun(p), q)
         /\ Length = 1 => isFull_i(p, q)
<1> USE LengthAssumption DEF Slot, isFull_i, add1overrun
<1>1. p # q /\ ~ isFull_i(p, q) => ~ isFull_i(add1overrun(p), q)
  OBVIOUS
<1>2. Length > 1 /\ isFull_i(p, q) => ~ isFull_i(add1overrun(p), q)
  OBVIOUS
<1>3. Length = 1 => isFull_i(p, q)
  OBVIOUS
<1> QED BY <1>1, <1>2, <1>3, Zenon

LEMMA OrderPut ==
  ASSUME TypeInv, OrderInv, put
  PROVE  OrderInv'
<1>1. /\ UNCHANGED <<bu, poss, pose, tx, line, use, pos>>
      /\ pc = "idle" /\ pc' = "isFull" /\ given' = given + 1 /\ given \in Nat
  BY CharIsNat DEF put, ring, base, TypeInv, TypeOK
<1>2. Waiting => ~ isFull_i(poss, pose)
  BY Zenon DEF Waiting, put, ready
<1>3. Sent' = Sent /\ Before = given /\ Before' = given
  BY <1>1, SentSame DEF Before, Putting
<1>4. Serial /\ SerialInv => SerialInv'
  BY <1>1, <1>3 DEF SerialInv, Putting
<1>5. Waiting /\ WaitingInv => WaitingInv'
  BY <1>1, <1>2, <1>3 DEF WaitingInv
<1>6. (Serial' <=> Serial) /\ (Waiting' <=> Waiting) /\ (LockedCallback' <=> LockedCallback)
  BY <1>1 DEF Serial, Waiting, LockedCallback
<1> QED BY <1>4, <1>5, <1>6, Zenon DEF OrderInv

LEMMA OrderIsFull ==
  ASSUME TypeInv, OrderInv, putIsFull
  PROVE  OrderInv'
<1>1. /\ UNCHANGED <<bu, poss, pose, tx, line, use, pos, given>>
      /\ pc = "isFull" /\ pc' = IF isFull_i(poss, pose) THEN "drop" ELSE "store"
  BY DEF putIsFull, ring, base, app
<1>2. Sent' = Sent /\ Before' = Before
  BY <1>1, SentSame DEF Before, Putting
<1>3. Serial /\ ~ Waiting => use.Locked
  BY Zenon DEF Serial
<1>4. Waiting /\ WaitingInv => ~ isFull_i(poss, pose)
  BY <1>1 DEF WaitingInv
<1>5. Waiting /\ WaitingInv => WaitingInv'
  BY <1>1, <1>2, <1>4 DEF WaitingInv
<1>6. Serial /\ SerialInv /\ (isFull_i(poss, pose) => use.Locked) => SerialInv'
  BY <1>1, <1>2 DEF SerialInv, Putting
<1>7. (Serial' <=> Serial) /\ (Waiting' <=> Waiting) /\ (LockedCallback' <=> LockedCallback)
  BY <1>1 DEF Serial, Waiting, LockedCallback
<1> QED BY <1>3, <1>4, <1>5, <1>6, <1>7, Zenon DEF OrderInv

LEMMA OrderDropped ==
  ASSUME TypeInv, OrderInv, putDropped
  PROVE  OrderInv'
<1>1. /\ UNCHANGED <<bu, pose, tx, line, use, pos, given>>
      /\ pc = "dropped" /\ pc' = "store" /\ poss' = add1overrun(pos)
      /\ poss \in Slot /\ pose \in Slot /\ given \in Nat /\ given > 0
  BY CharIsNat DEF putDropped, base, app, TypeInv, TypeOK, Resting
<1>2. Before = given - 1 /\ Before' = given - 1
  BY <1>1 DEF Before, Putting
<1>3. ~ (Waiting /\ WaitingInv)
  BY <1>1 DEF WaitingInv
<1>4. ASSUME SerialInv
      PROVE  SerialInv'
  <2>1. pos = poss /\ isFull_i(poss, pose) /\ Ordered(Sent, given - 1)
    BY <1>1, <1>2, <1>4 DEF SerialInv
  <2>2. Length > 1 => ~ isFull_i(poss', pose')
    BY <1>1, <2>1, RoomStays
  <2>3. Ordered(Sent', given - 1)
    <3> DEFINE u == line \o Reg(tx)
               c == Contents(bu, poss, pose)
    <3>1. u \in Seq(Nat) /\ c \in Seq(Nat) /\ Sent = u \o c
      BY SentParts, Zenon
    <3>2. Sent' = Sent \/ (c # << >> /\ Sent' = u \o Tail(c))
      BY <2>1, SentDrop, Zenon
    <3>3. given - 1 \in Nat
      BY <1>1
    <3> HIDE DEF u, c
    <3>4. c # << >> => Ordered(u \o Tail(c), given - 1)
      BY <2>1, <3>1, <3>3, OrderedTail
    <3> QED BY <2>1, <3>2, <3>4, Zenon
  <2> QED BY <1>1, <1>2, <2>2, <2>3 DEF SerialInv, Putting
<1>5. (Serial' <=> Serial) /\ (Waiting' <=> Waiting) /\ (LockedCallback' <=> LockedCallback)
  BY <1>1 DEF Serial, Waiting, LockedCallback
<1> QED BY <1>3, <1>4, <1>5, Zenon DEF OrderInv

LEMMA OrderStore ==
  ASSUME TypeInv, OrderInv, putStore
  PROVE  OrderInv'
<1>1. /\ UNCHANGED <<poss, pose, tx, line, use, pos, given>>
      /\ pc = "store" /\ pc' = "advance" /\ bu' = [bu EXCEPT ![pose] = given]
      /\ pose \in Slot /\ bu \in [Slot -> Char \cup {NoChar}]
  BY DEF putStore, base, app, TypeInv, TypeOK
<1>2. Sent' = Sent /\ Before' = Before /\ bu'[pose'] = given'
  BY <1>1, SentStore DEF Before, Putting
<1>3. SerialInv => SerialInv'
  BY <1>1, <1>2 DEF SerialInv, Putting
<1>4. WaitingInv => WaitingInv'
  BY <1>1, <1>2 DEF WaitingInv
<1>5. (Serial' <=> Serial) /\ (Waiting' <=> Waiting) /\ (LockedCallback' <=> LockedCallback)
  BY <1>1 DEF Serial, Waiting, LockedCallback
<1> QED BY <1>3, <1>4, <1>5, Zenon DEF OrderInv

LEMMA OrderAdvance ==
  ASSUME TypeInv, OrderInv, putAdvance
  PROVE  OrderInv'
<1>1. /\ UNCHANGED <<bu, poss, tx, line, use, pos, given>>
      /\ pc = "advance" /\ pc' = "bind"
      /\ poss \in Slot /\ pose \in Slot /\ given \in Nat /\ given > 0
  BY CharIsNat DEF putAdvance, base, app, TypeInv, TypeOK, Resting
<1>2. Before = given - 1 /\ Before' = given /\ ~ Putting' /\ given' = given
  BY <1>1 DEF Before, Putting
<1>3. given - 1 \in Nat /\ (given - 1) + 1 = given /\ Sent \in Seq(Nat)
  BY <1>1, SentParts
<1>4. ASSUME SerialInv, ~ isFull_i(poss, pose)
      PROVE  /\ Ordered(Sent', given) /\ EndsWith(Sent', given)
             /\ Len(Sent') = Len(Sent) + 1
  <2>1. Sent' = Append(Sent, given) /\ Ordered(Sent, given - 1)
    BY <1>1, <1>2, <1>4, SentAdvance DEF SerialInv
  <2>2. /\ Ordered(Append(Sent, (given - 1) + 1), (given - 1) + 1)
        /\ EndsWith(Append(Sent, (given - 1) + 1), (given - 1) + 1)
        /\ Len(Append(Sent, (given - 1) + 1)) = Len(Sent) + 1
    BY <1>3, <2>1, OrderedAppend
  <2> QED BY <1>3, <2>1, <2>2
<1>5. ASSUME SerialInv, isFull_i(poss, pose)
      PROVE  Ordered(Sent', given) /\ ~ Length > 1
  <2>1. ~ Length > 1 /\ Ordered(Sent, given - 1)
    BY <1>1, <1>2, <1>5 DEF SerialInv
  <2>2. Sent' = Sent
    BY <2>1, LengthAssumption, SentAdvance
  <2>3. Ordered(Sent, given)
    BY <1>1, <1>3, <2>1, OrderedMore
  <2> QED BY <2>1, <2>2, <2>3
<1>6. SerialInv => SerialInv'
  BY <1>1, <1>2, <1>4, <1>5 DEF SerialInv
<1>7. SerialInv /\ WaitingInv => WaitingInv'
  <2> SUFFICES ASSUME SerialInv, WaitingInv
               PROVE  WaitingInv'
    OBVIOUS
  <2>1. ~ isFull_i(poss, pose) /\ Len(Sent) = given - 1
    BY <1>1, <1>2 DEF WaitingInv
  <2>2. Len(Sent') = given
    BY <1>1, <1>4, <2>1
  <2> QED BY <1>1, <1>2, <2>2 DEF WaitingInv
<1>8. (Serial' <=> Serial) /\ (Waiting' <=> Waiting) /\ (LockedCallback' <=> LockedCallback)
  BY <1>1 DEF Serial, Waiting, LockedCallback
<1>9. Waiting => Serial
  BY DEF Serial
<1> QED BY <1>6, <1>7, <1>8, <1>9, Zenon DEF OrderInv

LEMMA OrderSendonReady ==
  ASSUME TypeInv, WrittenInv, OrderInv, sendonReady
  PROVE  OrderInv'
<1>1. /\ UNCHANGED <<bu, poss, pose, tx, line, use, pos>>
      /\ pc = "sendonReady" /\ given \in Nat
  BY CharIsNat DEF sendonReady, ring, base, TypeInv, TypeOK
<1>2. Sent' = Sent /\ Before = given
  BY <1>1, SentSame DEF Before, Putting
<1>3. CASE pc' \in {"idle", "sendonReady"} /\ given' = given
  <2>1. Before' = Before /\ ~ Putting /\ ~ Putting'
    BY <1>1, <1>2, <1>3 DEF Before, Putting
  <2> QED BY <1>1, <1>2, <1>3, <2>1, OrderSame
<1>4. CASE ready /\ onReady /\ given' = given + 1 /\ pc' = "isFull"
  <2>1. Before' = given
    BY <1>1, <1>4 DEF Before, Putting
  <2>2. Serial /\ SerialInv => SerialInv'
    BY <1>1, <1>2, <1>4, <2>1 DEF SerialInv, Putting
  <2>3. ~ isFull_i(poss, pose)
    BY <1>4 DEF ready
  <2>4. WaitingInv => WaitingInv'
    BY <1>1, <1>2, <1>4, <2>1, <2>3 DEF WaitingInv
  <2>5. (Serial' <=> Serial) /\ (Waiting' <=> Waiting) /\ (LockedCallback' <=> LockedCallback)
    BY <1>1 DEF Serial, Waiting, LockedCallback
  <2> QED BY <2>2, <2>4, <2>5, Zenon DEF OrderInv
<1> QED BY <1>1, <1>3, <1>4 DEF sendonReady

LEMMA OrderHandler ==
  ASSUME TypeInv, WrittenInv, OrderInv, putonReady
  PROVE  OrderInv'
<1> SUFFICES ASSUME LockedCallback
             PROVE  OrderInv'
  <2>1. use' = use
    BY DEF putonReady
  <2> QED BY <2>1 DEF OrderInv, LockedCallback
<1> DEFINE n == Filled(poss')
<1>1. /\ UNCHANGED <<use, pc, pos>> /\ (use.Locked => pc = "idle")
      /\ poss \in Slot /\ pose \in Slot /\ poss' \in Slot
      /\ given \in Nat /\ (~ Resting => given > 0)
  BY add1overrunSlot, CharIsNat DEF putonReady, TypeInv, TypeOK
<1>2. n \in Nat /\ (pc = "idle" \/ n = 0)
  BY <1>1, FilledRange, FillsAtRest DEF TypeInv
<1>3. /\ given' = given + n /\ pose' = Wrap(pose + n)
      /\ FilledWith(bu, bu', pose, Run(given, n))
  BY <1>1, FillRing, Zenon DEF putonReady, TypeInv
<1>4. Sent' = Sent \o Run(given, n) /\ Sent \in Seq(Nat)
  BY SentHandler, SentParts, Zenon DEF WrittenInv
<1> HIDE DEF n
<1>5. ASSUME n = 0
      PROVE  /\ pose' = pose /\ given' = given /\ bu'[pose] = bu[pose]
             /\ ~ isFull_i(poss, pose) => ~ isFull_i(poss', pose)
  <2>1. pose' = pose /\ given' = given
    BY <1>1, <1>3, <1>5, LengthAssumption DEF Wrap, Slot
  <2>2. Len(Run(given, n)) = 0
    BY <1>1, <1>5, RunIsSeq
  <2>3. ~ Used(pose, pose) < 0
    BY <1>1, UsedRange
  <2>4. bu'[pose] = bu[pose]
    BY <1>1, <1>3, <2>2, <2>3 DEF FilledWith
  <2>5. ~ isFull_i(poss, pose) => ~ isFull_i(poss', pose)
    <3>1. poss' = poss \/ (poss' = add1overrun(poss) /\ poss # pose)
      BY Zenon DEF putonReady, isEmpty
    <3> QED BY <1>1, <3>1, RoomStays
  <2> QED BY <2>1, <2>4, <2>5
<1>6. CASE pc = "idle"
  <2>1. ~ Putting /\ ~ Putting' /\ Before = given /\ Before' = given'
    BY <1>1, <1>6 DEF Before, Putting
  <2>2. ASSUME SerialInv
        PROVE  SerialInv'
    <3>1. Ordered(Sent, given)
      BY <2>1, <2>2 DEF SerialInv
    <3>2. /\ Ordered(Sent', given')
          /\ n > 0 => EndsWith(Sent', given')
          /\ n = 0 => Sent' = Sent
      BY <1>1, <1>2, <1>3, <1>4, <3>1, OrderedRun
    <3>3. Length > 1 /\ given' > 0 => EndsWith(Sent', given')
      <4>1. CASE n > 0
        BY <3>2, <4>1
      <4>2. CASE n = 0
        BY <1>5, <2>1, <2>2, <3>2, <4>2 DEF SerialInv
      <4> QED BY <1>2, <4>1, <4>2
    <3> QED BY <1>1, <1>6, <2>1, <3>2, <3>3 DEF SerialInv
  <2>3. ASSUME WaitingInv, SerialInv
        PROVE  WaitingInv'
    <3>1. Len(Sent) = given /\ Ordered(Sent, given)
      BY <2>1, <2>3 DEF WaitingInv, SerialInv
    <3>2. Len(Sent') = given'
      BY <1>1, <1>2, <1>3, <1>4, <3>1, OrderedRun
    <3> QED BY <1>1, <1>6, <2>1, <3>2 DEF WaitingInv
  <2>4. (Serial' <=> Serial) /\ (Waiting' <=> Waiting) /\ (Waiting => Serial)
    BY <1>1 DEF Serial, Waiting
  <2> QED BY <2>2, <2>3, <2>4, Zenon DEF OrderInv
<1>7. CASE pc # "idle"
  <2>1. n = 0 /\ ~ use.Locked
    BY <1>1, <1>2, <1>7, Zenon
  <2>2. Run(given, n) = << >>
    BY <1>1, <2>1, RunIsSeq, EmptySeq
  <2>3. Sent' = Sent
    BY <1>4, <2>2, ConcatEmptySeq
  <2>4. Before' = Before /\ (Putting' <=> Putting)
    BY <1>1, <1>5, <2>1 DEF Before, Putting
  <2>5. SerialInv => SerialInv'
    <3>1. SerialInv => pc \notin {"drop", "dropped"}
      BY <2>1, Zenon DEF SerialInv
    <3> QED BY <1>1, <1>5, <2>1, <2>3, <2>4, <3>1 DEF SerialInv
  <2>6. WaitingInv => WaitingInv'
    BY <1>1, <1>5, <2>1, <2>3, <2>4 DEF WaitingInv
  <2>7. (Serial' <=> Serial) /\ (Waiting' <=> Waiting)
    BY <1>1 DEF Serial, Waiting
  <2> QED BY <2>5, <2>6, <2>7, Zenon DEF OrderInv
<1> QED BY <1>6, <1>7
-----------------------------------------------------------------------------
LEMMA InitOrder == Init => OrderInv
<1> SUFFICES ASSUME Init
             PROVE  OrderInv
  OBVIOUS
<1>1. /\ poss = 0 /\ pose = 0 /\ tx = NoChar /\ line = << >>
      /\ given = 0 /\ pc = "idle" /\ TypeInv
  BY InitType DEF Init
<1>2. Contents(bu, poss, pose) = << >> /\ Reg(tx) = << >>
  <2>1. poss \in Slot /\ pose \in Slot /\ bu \in Rings(0 .. MaxPut)
    BY <1>1, CharIsNat DEF TypeInv, TypeOK, Rings
  <2> QED BY <1>1, <2>1, FullAndEmpty DEF Reg
<1>3. Sent = << >>
  BY <1>1, <1>2, SentParts DEF Reg
<1>4. Len(Sent) = 0 /\ Before = 0 /\ ~ Putting
  BY <1>1, <1>3 DEF Before, Putting
<1>5. Ordered(Sent, 0)
  BY <1>4 DEF Ordered
<1> QED BY <1>1, <1>4, <1>5 DEF OrderInv, SerialInv, WaitingInv

LEMMA NextOrder == TypeInv /\ WrittenInv /\ OrderInv /\ [Next]_vars => OrderInv'
<1> SUFFICES ASSUME TypeInv, WrittenInv, OrderInv, [Next]_vars
             PROVE  OrderInv'
  OBVIOUS
<1>1. CASE put
  BY <1>1, OrderPut
<1>2. CASE putIsFull
  BY <1>2, OrderIsFull
<1>3. CASE putDrop
  <2>1. /\ UNCHANGED <<bu, poss, pose, tx, line, use, given>>
        /\ pc = "drop" /\ pc' = "dropped" /\ pos' = poss
    BY <1>3 DEF putDrop, ring, base, app
  <2>2. Sent' = Sent /\ Before' = Before
    BY <2>1, SentSame DEF Before, Putting
  <2> QED
    BY <2>1, <2>2 DEF OrderInv, SerialInv, WaitingInv, Serial, Waiting,
                      LockedCallback, Putting
<1>4. CASE putDropped
  BY <1>4, OrderDropped
<1>5. CASE putStore
  BY <1>5, OrderStore
<1>6. CASE putAdvance
  BY <1>6, OrderAdvance
<1>7. CASE putBind
  <2>1. /\ UNCHANGED <<bu, poss, pose, tx, line, use, given, pos>>
        /\ pc = "bind" /\ pc' = "enable"
    BY <1>7 DEF putBind, ring, app
  <2>2. Sent' = Sent /\ Before' = Before /\ (Putting' <=> Putting)
    BY <2>1, SentSame DEF Before, Putting
  <2> QED BY <2>1, <2>2, OrderSame
<1>8. CASE putEnable
  <2>1. /\ UNCHANGED <<bu, poss, pose, tx, line, use, given, pos>>
        /\ pc = "enable" /\ pc' \in {"idle", "sendonReady"}
    BY <1>8 DEF putEnable, ring, app
  <2>2. Sent' = Sent /\ Before' = Before /\ (Putting' <=> Putting)
    BY <2>1, SentSame DEF Before, Putting
  <2> QED BY <2>1, <2>2, OrderSame
<1>9. CASE enableonReady
  <2>1. /\ UNCHANGED <<bu, poss, pose, tx, line, use, given, pos>>
        /\ pc = "idle" /\ pc' = "sendonReady"
    BY <1>9 DEF enableonReady, ring, app
  <2>2. Sent' = Sent /\ Before' = Before /\ (Putting' <=> Putting)
    BY <2>1, SentSame DEF Before, Putting
  <2> QED BY <2>1, <2>2, OrderSame
<1>10. CASE sendonReady
  BY <1>10, OrderSendonReady
<1>11. CASE putonReady
  BY <1>11, OrderHandler
<1>12. CASE Transmit
  <2>1. UNCHANGED <<bu, poss, pose, use, given, pos, pc>>
    BY <1>12 DEF Transmit, ring, app
  <2>2. Sent' = Sent /\ Before' = Before /\ (Putting' <=> Putting)
    BY <1>12, <2>1, SentTransmit DEF Before, Putting
  <2> QED BY <2>1, <2>2, OrderSame
<1>13. CASE UNCHANGED vars
  <2>1. UNCHANGED <<bu, poss, pose, tx, line, use, given, pos, pc>>
    BY <1>13 DEF vars, ring, base, app
  <2>2. Sent' = Sent /\ Before' = Before /\ (Putting' <=> Putting)
    BY <2>1, SentSame DEF Before, Putting
  <2> QED BY <2>1, <2>2, OrderSame
<1> QED
  BY <1>1, <1>2, <1>3, <1>4, <1>5, <1>6, <1>7, <1>8, <1>9, <1>10, <1>11, <1>12,
     <1>13, Zenon DEF Next, Main

(***************************************************************************)
(* The characters leave in the order in which they were put, none twice;   *)
(* a program that puts under a lock loses only the oldest ones, and one    *)
(* that puts only where there is room loses none, however the handler      *)
(* (cbuffer.h:26-33) interrupts put (cbuffer.h:36-44).                     *)
(***************************************************************************)
THEOREM SentInOrder == Spec => []InOrder
<1>1. TypeInv /\ OrderInv => InOrder
  <2> SUFFICES ASSUME TypeInv, OrderInv, LockedCallback
               PROVE  /\ Serial => /\ \A i, j \in 1 .. Len(Sent) : i < j => Sent[i] < Sent[j]
                                   /\ Length > 1 /\ Resting /\ given > 0 =>
                                        Sent # << >> /\ Sent[Len(Sent)] = given
                      /\ Waiting /\ Resting => Len(Sent) = given
    BY DEF InOrder
  <2>1. Resting => ~ Putting /\ Before = given
    BY DEF Resting, Putting, Before
  <2>2. Serial => SerialInv
    BY DEF OrderInv
  <2>3. Waiting => WaitingInv
    BY DEF OrderInv
  <2>4. SerialInv => /\ \A i, j \in 1 .. Len(Sent) : i < j => Sent[i] < Sent[j]
                     /\ Length > 1 /\ ~ Putting /\ given > 0 =>
                          Sent # << >> /\ Sent[Len(Sent)] = given
    BY Zenon DEF SerialInv, Ordered, EndsWith
  <2>5. WaitingInv => Len(Sent) = Before
    BY DEF WaitingInv
  <2> QED BY <2>1, <2>2, <2>3, <2>4, <2>5, Zenon
<1>2. Spec => []OrderInv
  BY InitOrder, NextOrder, TypeInvCorrect, WrittenInvCorrect, PTL DEF Spec
<1> QED BY <1>1, <1>2, TypeInvCorrect, PTL
=============================================================================
