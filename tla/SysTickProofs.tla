--------------------------- MODULE SysTickProofs ----------------------------
(***************************************************************************)
(* Proofs about the clock, for every length of the counter's period, every *)
(* delay and every nesting of locks: first of SysTick, from main on, then  *)
(* of Boot, from the reset on, and of the processor's clock there.         *)
(***************************************************************************)
EXTENDS Boot, TLAPS

(* Decrementing sysTickHigh takes a period off the clock.                  *)
LEMMA OnePeriodLess ==
  ASSUME NEW h \in Int, NEW p \in Int
  PROVE  (h - 1) * p = h * p - p
  OBVIOUS

LEMMA ProductInt ==
  ASSUME NEW h \in Int, NEW p \in Int
  PROVE  h * p \in Int
  OBVIOUS

LEMMA CountsNat ==
  ASSUME NEW v \in Values
  PROVE  counts(v) \in Nat
<1>1. v \in Nat /\ PerUnit \in Nat BY DelayAssumption
<1>2. PerUnit \div 8 \in Nat BY <1>1
<1>3. \A a, b \in Nat : a * b \in Nat OBVIOUS
<1> QED BY <1>1, <1>2, <1>3 DEF counts

(* The clock without the tick that waits.                                  *)
Settled == sysTickHigh * Period + value - Waiting

(* Counts since the counter reached zero.                                  *)
Since == IF value = 0 THEN 0 ELSE Period - value

(* Ticks are lost only if there has been a period for each of them: there  *)
(* is credit for the next one while a tick waits behind a lock, and as     *)
(* many counts in hand as have passed since it came.                       *)
Behind(lost) ==
  /\ Settled = clock + lost * Period
  /\ faultmask = 1 /\ pending => (late - lost) * Period + held >= 1 + Since

ClockBehind == \E lost \in 0 .. late : Behind(lost)

LEMMA WaitingPeriods == TypeOK => Waiting \in {0, Period} /\ Settled \in Int
BY ProductInt, PeriodAssumption DEF TypeOK, Waiting, Settled

LEMMA BehindAgrees == TypeOK /\ ClockBehind => HalvesAgree
<1> SUFFICES ASSUME TypeOK, ClockBehind PROVE HalvesAgree OBVIOUS
<1> USE PeriodAssumption
<1>1. PICK lost \in 0 .. late : Behind(lost) BY DEF ClockBehind
<1>2. lost * Period \in Int /\ sysTickHigh * Period \in Int
  BY ProductInt DEF TypeOK
<1>3. sysTickHigh * Period + value = clock + lost * Period + Waiting
  BY <1>1, <1>2, WaitingPeriods DEF Behind, Settled, TypeOK
<1> QED BY <1>3 DEF HalvesAgree

(* A step that leaves the counter, the time and the mask, or masks with    *)
(* nothing pending, or unmasks, leaves the clock as far behind as it was.  *)
LEMMA BehindKeeps ==
  ASSUME ClockBehind, UNCHANGED <<counter, span>>,
         faultmask' = 1 /\ pending => faultmask = 1 /\ held' = held
  PROVE  ClockBehind'
<1>1. PICK lost \in 0 .. late : Behind(lost) BY DEF ClockBehind
<1>2. UNCHANGED <<Settled, Since, clock, late, pending>>
  BY DEF Settled, Waiting, Since, counter, span
<1>3. Behind(lost)' BY <1>1, <1>2 DEF Behind
<1> QED BY <1>1, <1>2, <1>3 DEF ClockBehind

(* With more than minus a period in hand, the periods in hand are not      *)
(* negative.                                                               *)
LEMMA CreditLeft ==
  ASSUME NEW a \in Int, a * Period >= 1 - Period
  PROVE  a >= 0
<1> SUFFICES ASSUME a <= -1 PROVE FALSE OBVIOUS
<1>1. \A x, y \in Nat : x * y >= 0 OBVIOUS
<1>2. (-1 - a) * Period >= 0 BY <1>1, PeriodAssumption
<1>3. (-1 - a) * Period = -Period - a * Period BY PeriodAssumption
<1> QED BY <1>2, <1>3, ProductInt, PeriodAssumption

-----------------------------------------------------------------------------
(* The locks held have saved FAULTMASK as it was: clear for the outermost, *)
(* set for those inside it.                                                *)
Nested ==
  /\ \A i \in 1 .. Len(locks) : locks[i] = IF i = 1 THEN 0 ELSE 1
  /\ faultmask = IF Len(locks) = 0 THEN 0 ELSE 1
  /\ InTime => Len(locks) > 0

(* time holds one half of the clock, and the handler cannot change it.     *)
HalfRead == pc = "value" => now = sysTickHigh * Period

(* The counter does not leave zero without its exception.                  *)
ZeroPends == value = 0 => pending

IInv == TypeOK /\ Nested /\ HalfRead /\ ZeroPends /\ ClockBehind /\ ReadingBound

LEMMA InitInv == Init => IInv
<1> SUFFICES ASSUME Init PROVE IInv OBVIOUS
<1> USE PeriodAssumption, StartAssumption, BoundAssumption
<1>1. Start * Period \in Int BY ProductInt
<1>2. TypeOK
  <2>1. clock \in Int BY <1>1 DEF Init
  <2>2. locks \in Seq({0, 1}) BY DEF Init
  <2>3. /\ sysTickHigh \in Int /\ sysTickHigh <= Start
        /\ value \in 0 .. Period - 1 BY DEF Init
  <2>4. /\ faultmask \in {0, 1} /\ error \in {0, Period}
        /\ held \in 0 .. Period /\ late \in Nat BY DEF Init
  <2>7. pending \in BOOLEAN BY DEF Init
  <2>5. /\ pc \in {"idle", "lock", "high", "value", "unlock", "return"}
        /\ caller \in {"delay", "loop"} BY DEF Init
  <2>6. /\ now \in Int /\ wait \in Nat /\ then \in Int
        /\ elapsed \in 0 .. MaxTime
        /\ at \in Int /\ begun \in 0 .. MaxTime BY DEF Init
  <2> QED BY <2>1, <2>2, <2>3, <2>4, <2>5, <2>6, <2>7 DEF TypeOK
<1>3. Nested /\ HalfRead /\ ZeroPends /\ ReadingBound
  BY DEF Init, ZeroPends, Nested, HalfRead, ReadingBound, InTime
<1>4. Behind(0) BY <1>1 DEF Init, Behind, Settled, Waiting
<1>5. ClockBehind BY <1>4 DEF Init, ClockBehind
<1> QED BY <1>2, <1>3, <1>5 DEF IInv

-----------------------------------------------------------------------------
(* The steps of the counter and of its handler.                            *)

LEMMA CountSettles ==
  ASSUME IInv, Count
  PROVE  /\ Settled' = Settled - 1 + IF Loses THEN Period ELSE 0
         /\ value' = 0 => pending'
<1> USE PeriodAssumption DEF IInv
<1>1. sysTickHigh * Period \in Int BY ProductInt DEF TypeOK
<1>2. sysTickHigh' * Period = sysTickHigh * Period BY DEF Count
<1>3. CASE value = 0
  <2>1. pending /\ ~ Loses
    <3>1. value # 1 BY <1>3
    <3> QED BY <1>3, <3>1, Zenon DEF ZeroPends, Loses
  <2>2. pending' BY <2>1, Zenon DEF Count
  <2>3. value' = Period - 1 BY <1>3 DEF Count
  <2> QED BY <1>1, <1>2, <1>3, <2>1, <2>2, <2>3 DEF Settled, Waiting, TypeOK
<1>4. CASE value = 1
  <2>1. value' = 0 BY <1>4 DEF Count
  <2>2. pending' BY <1>4, Zenon DEF Count
  <2>3. Loses <=> pending BY <1>4, Zenon DEF Loses
  <2> QED BY <1>1, <1>2, <1>4, <2>1, <2>2, <2>3 DEF Settled, Waiting, TypeOK
<1>5. CASE value > 1
  <2>1. value # 0 /\ value # 1 /\ value \in Int BY <1>5 DEF TypeOK
  <2>2. ~ Loses BY <2>1, Zenon DEF Loses
  <2>3. value' = value - 1 /\ value' # 0 BY <2>1 DEF Count, TypeOK
  <2>4. pending' <=> pending BY <2>1, Zenon DEF Count
  <2> QED BY <1>1, <1>2, <2>1, <2>2, <2>3, <2>4 DEF Settled, Waiting, TypeOK
<1> QED BY <1>3, <1>4, <1>5 DEF TypeOK

(* The counts that a lock is held for, in periods and counts.              *)
LEMMA CountHeld ==
  ASSUME TypeOK, Count
  PROVE  /\ held' \in 0 .. Period /\ late' \in Nat /\ late' >= late
         /\ faultmask = 1 =>
              \A lost \in Int :
                (late' - lost) * Period + held' = (late - lost) * Period + held + 1
<1> USE PeriodAssumption
<1>1. CASE faultmask = 0 BY <1>1 DEF Count, TypeOK
<1>2. CASE faultmask = 1 /\ held = Period
  <2>1. held' = 1 /\ late' = late + 1 BY <1>2 DEF Count
  <2>2. ASSUME NEW lost \in Int
        PROVE  (late' - lost) * Period + held' = (late - lost) * Period + held + 1
    <3>1. (late + 1 - lost) * Period = (late - lost) * Period + Period
      BY <2>2, OnePeriodLess DEF TypeOK
    <3>2. (late - lost) * Period \in Int BY <2>2, ProductInt DEF TypeOK
    <3> QED BY <2>1, <3>1, <3>2, <1>2 DEF TypeOK
  <2> QED BY <2>1, <2>2, <1>2 DEF TypeOK
<1>3. CASE faultmask = 1 /\ held # Period
  <2>1. held' = held + 1 /\ late' = late BY <1>3 DEF Count
  <2>2. ASSUME NEW lost \in Int
        PROVE  (late' - lost) * Period + held' = (late - lost) * Period + held + 1
    <3>1. (late - lost) * Period \in Int BY <2>2, ProductInt DEF TypeOK
    <3> QED BY <2>1, <3>1 DEF TypeOK
  <2> QED BY <2>1, <2>2, <1>3 DEF TypeOK
<1> QED BY <1>1, <1>2, <1>3 DEF TypeOK

LEMMA CountBehind == IInv /\ Count => ClockBehind'
<1> SUFFICES ASSUME IInv, Count PROVE ClockBehind' OBVIOUS
<1> USE PeriodAssumption DEF IInv
<1>1. PICK lost \in 0 .. late : Behind(lost) BY DEF ClockBehind
<1>2. lost \in Int /\ late \in Nat /\ lost * Period \in Int /\ Settled \in Int
  BY <1>1, ProductInt, WaitingPeriods DEF TypeOK
<1>3. clock' = clock - 1 /\ faultmask' = faultmask BY DEF Count, mask
<1>4. (late - lost) * Period \in Int BY <1>2, ProductInt
<1>5. CASE Loses
  <2>1. faultmask = 1 /\ pending /\ value = 1 BY <1>5 DEF Count, Loses
  <2>2. value' = 0 BY <2>1 DEF Count
  <2>3. (late - lost) * Period + held >= Period BY <1>1, <2>1 DEF Behind, Since
  <2>4. (late' - (lost + 1)) * Period = (late' - lost) * Period - Period
    <3>1. late' - lost \in Int BY <1>2, CountHeld
    <3>2. (late' - lost - 1) * Period = (late' - lost) * Period - Period
      BY <3>1, OnePeriodLess
    <3>3. late' - (lost + 1) = late' - lost - 1 BY <1>2, CountHeld
    <3> QED BY <3>2, <3>3
  <2>5. (late' - lost) * Period + held' = (late - lost) * Period + held + 1
    BY <1>2, <2>1, CountHeld
  <2>6. (late' - lost) * Period \in Int BY <1>2, CountHeld, ProductInt
  <2>7. (late' - (lost + 1)) * Period + held' >= 1
    BY <1>4, <2>3, <2>4, <2>5, <2>6, CountHeld DEF TypeOK
  <2>8. lost + 1 \in 0 .. late'
    <3>1. late' - (lost + 1) \in Int BY <1>2, CountHeld
    <3>2. (late' - (lost + 1)) * Period >= 1 - Period
      BY <2>4, <2>6, <2>7, CountHeld
    <3>3. late' - (lost + 1) >= 0 BY <3>1, <3>2, CreditLeft
    <3> QED BY <1>1, <1>2, <3>3, CountHeld
  <2>9. (lost + 1) * Period = lost * Period + Period
    BY <1>2, OnePeriodLess
  <2>10. Settled' = clock' + (lost + 1) * Period
    BY <1>1, <1>2, <1>3, <1>5, <2>9, CountSettles DEF Behind, TypeOK
  <2>11. Behind(lost + 1)' BY <2>2, <2>7, <2>10 DEF Behind, Since
  <2> QED BY <2>8, <2>11 DEF ClockBehind
<1>6. CASE ~ Loses
  <2>1. Settled' = clock' + lost * Period
    BY <1>1, <1>2, <1>3, <1>6, CountSettles DEF Behind, TypeOK
  <2>2. ASSUME faultmask' = 1, pending'
        PROVE  (late' - lost) * Period + held' >= 1 + Since'
    <3>0. faultmask = 1 BY <1>3, <2>2
    <3>1. (late' - lost) * Period + held' = (late - lost) * Period + held + 1
      BY <1>2, <3>0, CountHeld
    <3>2. CASE pending
      <4>1. (late - lost) * Period + held >= 1 + Since BY <1>1, <3>0, <3>2 DEF Behind
      <4>2. value # 1 BY <1>6, <3>2, Zenon DEF Loses
      <4>3. Since' = Since + 1 BY <4>2 DEF Since, Count, TypeOK
      <4>4. Since \in Int BY DEF Since, TypeOK
      <4> QED BY <1>4, <3>1, <4>1, <4>3, <4>4 DEF TypeOK
    <3>3. CASE ~ pending
      <4>1. value = 1 BY <2>2, <3>3, Zenon DEF Count
      <4>2. Since' = 0 BY <4>1 DEF Count, Since
      <4>3. (late - lost) * Period >= 0
        <5>1. \A x, y \in Nat : x * y >= 0 OBVIOUS
        <5>2. late - lost \in Nat BY <1>1, <1>2
        <5> QED BY <5>1, <5>2
      <4> QED BY <1>4, <3>1, <4>2, <4>3 DEF TypeOK
    <3> QED BY <3>2, <3>3
  <2>3. Behind(lost)' BY <2>1, <2>2 DEF Behind
  <2>4. lost \in 0 .. late' BY <1>1, <1>2, CountHeld
  <2> QED BY <2>3, <2>4 DEF ClockBehind
<1> QED BY <1>5, <1>6

LEMMA CountInv == IInv /\ Count => IInv'
<1> SUFFICES ASSUME IInv, Count PROVE IInv' OBVIOUS
<1> USE PeriodAssumption, BoundAssumption DEF IInv
<1>1. TypeOK'
  <2>1. clock' \in Int BY DEF TypeOK, Count
  <2>2. value' \in 0 .. Period - 1 BY DEF TypeOK, Count
  <2>3. pending' \in BOOLEAN BY DEF TypeOK, Count
  <2>4. elapsed' \in 0 .. MaxTime BY DEF TypeOK, Count
  <2> QED BY <2>1, <2>2, <2>3, <2>4, CountHeld
       DEF TypeOK, Count, mask, program, reading
<1>2. Nested' /\ HalfRead'
  BY DEF Count, Nested, HalfRead, InTime, mask, program, reading
<1>3. ReadingBound'
  <2>1. 0 .. late + 1 \subseteq 0 .. late' + 1 BY CountHeld DEF TypeOK
  <2>2. UNCHANGED <<pc, now, at>> BY DEF Count, reading
  <2> QED BY <2>1, <2>2 DEF ReadingBound
<1>4. ZeroPends' BY CountSettles DEF ZeroPends
<1> QED BY <1>1, <1>2, <1>3, <1>4, CountBehind

LEMMA TickInv == IInv /\ tick => IInv'
<1> SUFFICES ASSUME IInv, tick PROVE IInv' OBVIOUS
<1> USE PeriodAssumption, StartAssumption DEF IInv
<1>1. TypeOK'
  <2>1. sysTickHigh' \in Int /\ sysTickHigh' <= Start BY DEF TypeOK, tick
  <2>2. pending' \in BOOLEAN BY DEF tick
  <2> QED BY <2>1, <2>2 DEF TypeOK, tick, mask, program, ghost, span, reading
<1>2. ~ InTime BY DEF tick, Nested, TypeOK
<1>3. Nested' /\ HalfRead' /\ ZeroPends' /\ ReadingBound'
  BY <1>2 DEF tick, ZeroPends, Nested, HalfRead, ReadingBound, InTime, mask, program,
              ghost, span, reading
<1>4. Settled' = Settled
  <2>1. (sysTickHigh - 1) * Period = sysTickHigh * Period - Period
    BY OnePeriodLess DEF TypeOK
  <2>2. sysTickHigh * Period \in Int BY ProductInt DEF TypeOK
  <2> QED BY <2>1, <2>2 DEF tick, Settled, Waiting, TypeOK
<1>5. ClockBehind' BY <1>4 DEF ClockBehind, Behind, tick, ghost, span, mask
<1> QED BY <1>1, <1>3, <1>5

-----------------------------------------------------------------------------
(* Taking and releasing a lock.                                            *)

LEMMA LockNests ==
  ASSUME TypeOK, Nested, Lock
  PROVE  /\ locks' \in Seq({0, 1}) /\ faultmask' \in {0, 1}
         /\ Len(locks') = Len(locks) + 1
         /\ \A i \in 1 .. Len(locks') : locks'[i] = IF i = 1 THEN 0 ELSE 1
         /\ faultmask' = IF Len(locks') = 0 THEN 0 ELSE 1
BY DEF TypeOK, Nested, Lock

LEMMA UnlockNests ==
  ASSUME TypeOK, Nested, Unlock, Len(locks) > 0
  PROVE  /\ locks' \in Seq({0, 1}) /\ faultmask' \in {0, 1}
         /\ Len(locks') = Len(locks) - 1
         /\ \A i \in 1 .. Len(locks') : locks'[i] = IF i = 1 THEN 0 ELSE 1
         /\ faultmask' = IF Len(locks') = 0 THEN 0 ELSE 1
<1>1. PICK k \in Nat : Len(locks) = k + 1 BY DEF TypeOK
<1>2. locks \in Seq({0, 1}) /\ k \in Nat BY DEF TypeOK
<1>3. locks' = SubSeq(locks, 1, k) BY <1>1, <1>2 DEF Unlock
<1>4. locks' \in Seq({0, 1}) BY <1>1, <1>2, <1>3
<1>5. Len(locks') = k BY <1>1, <1>2, <1>3
<1>6. \A i \in 1 .. k : locks'[i] = locks[i] BY <1>1, <1>2, <1>3
<1>7. faultmask' = IF k = 0 THEN 0 ELSE 1 BY <1>1, <1>2 DEF Unlock, Saved, Nested
<1>8. \A i \in 1 .. k : locks'[i] = IF i = 1 THEN 0 ELSE 1
  BY <1>1, <1>2, <1>6 DEF Nested
<1> QED BY <1>1, <1>2, <1>4, <1>5, <1>7, <1>8

LEMMA LocksInv == IInv /\ (lock \/ unlock \/ timeLock \/ timeUnlock) => IInv'
<1> SUFFICES ASSUME IInv, lock \/ unlock \/ timeLock \/ timeUnlock PROVE IInv'
  OBVIOUS
<1> USE PeriodAssumption DEF IInv
<1>1. /\ UNCHANGED <<counter, wait, then, now, span, reading, caller>>
      /\ pc' \in {"idle", "high", "return"}
      /\ pc' = "return" => pc = "unlock"
  BY DEF lock, unlock, timeLock, timeUnlock, program, ghost
<1>2. /\ locks' \in Seq({0, 1}) /\ faultmask' \in {0, 1}
      /\ \A i \in 1 .. Len(locks') : locks'[i] = IF i = 1 THEN 0 ELSE 1
      /\ faultmask' = IF Len(locks') = 0 THEN 0 ELSE 1
      /\ pc' = "high" => Len(locks') > 0
  <2>1. CASE lock BY <2>1, LockNests DEF lock
  <2>2. CASE unlock BY <2>2, UnlockNests DEF unlock, Own, InTime
  <2>3. CASE timeLock BY <2>3, LockNests DEF timeLock, TypeOK
  <2>4. CASE timeUnlock BY <2>4, UnlockNests DEF timeUnlock, Nested, InTime
  <2> QED BY <2>1, <2>2, <2>3, <2>4
<1>3. /\ held' \in {0, held}
      /\ faultmask' = 1 /\ pending => faultmask = 1 /\ held' = held
  <2>1. CASE lock \/ timeLock
    BY <2>1 DEF lock, timeLock, Lock, Runs, ghost
  <2>2. CASE unlock \/ timeUnlock
    <3>1. Len(locks) > 0 BY <2>2 DEF unlock, timeUnlock, Own, InTime, Nested
    <3>2. faultmask = 1 BY <3>1 DEF Nested, TypeOK
    <3> QED BY <2>2, <3>2 DEF unlock, timeUnlock, Unlock
  <2> QED BY <2>1, <2>2
<1>4. TypeOK' BY <1>1, <1>2, <1>3 DEF TypeOK, counter, span, reading
<1>5. Nested' BY <1>1, <1>2 DEF Nested, InTime
<1>6. HalfRead' /\ ZeroPends' /\ ReadingBound'
  BY <1>1 DEF ZeroPends, HalfRead, ReadingBound, counter, span, reading
<1>7. ClockBehind' BY <1>1, <1>3, BehindKeeps
<1> QED BY <1>4, <1>5, <1>6, <1>7

-----------------------------------------------------------------------------
(* The steps of time between them, and those of the delays.                *)

LEMMA TimeHighInv == IInv /\ timeHigh => IInv'
<1> SUFFICES ASSUME IInv, timeHigh PROVE IInv' OBVIOUS
<1> USE DEF IInv
<1>1. now' \in Int BY ProductInt, PeriodAssumption DEF timeHigh, TypeOK
<1>2. TypeOK' BY <1>1 DEF timeHigh, TypeOK, counter, mask, program, ghost, span, reading
<1>3. Nested' BY DEF timeHigh, Nested, InTime, mask
<1>4. HalfRead' /\ ZeroPends' /\ ReadingBound'
  BY DEF timeHigh, ZeroPends, HalfRead, ReadingBound, counter
<1>5. ClockBehind' BY BehindKeeps DEF timeHigh, mask, ghost
<1> QED BY <1>2, <1>3, <1>4, <1>5

LEMMA TimeValueInv == IInv /\ timeValue => IInv'
<1> SUFFICES ASSUME IInv, timeValue PROVE IInv' OBVIOUS
<1> USE PeriodAssumption DEF IInv
<1>1. now' = sysTickHigh * Period + value
  BY DEF timeValue, HalfRead
<1>2. now' \in Int /\ at' \in Int /\ begun' \in 0 .. MaxTime /\ error' \in {0, Period}
  BY WaitingPeriods DEF timeValue, TypeOK
<1>3. TypeOK' BY <1>2 DEF timeValue, TypeOK, counter, mask, program, ghost, span
<1>4. Nested' BY DEF timeValue, Nested, InTime, mask
<1>5. HalfRead' /\ ZeroPends'
  BY DEF timeValue, ZeroPends, HalfRead, counter
<1>6. ClockBehind' BY BehindKeeps DEF timeValue, mask, ghost
<1>7. ReadingBound'
  <2>1. PICK lost \in 0 .. late : now' = clock + lost * Period + Waiting
    BY <1>1, BehindAgrees DEF HalvesAgree
  <2>2. lost \in Int /\ lost * Period \in Int BY <2>1, ProductInt DEF TypeOK
  <2>3. (lost + 1) * Period = lost * Period + Period BY <2>2, OnePeriodLess
  <2>4. now' = clock + lost * Period \/ now' = clock + (lost + 1) * Period
    BY <2>1, <2>2, <2>3, WaitingPeriods DEF TypeOK
  <2>5. lost \in 0 .. late + 1 /\ lost + 1 \in 0 .. late + 1
    BY <2>1 DEF TypeOK
  <2>6. \E behind \in 0 .. late + 1 : now' = clock + behind * Period
    BY <2>4, <2>5
  <2> QED BY <2>6 DEF ReadingBound, timeValue, ghost, span
<1> QED BY <1>3, <1>4, <1>5, <1>6, <1>7

LEMMA DelayInv ==
  IInv /\ ((\E v \in Values : delay(v)) \/ delayBegin \/ delayLoop) => IInv'
<1> SUFFICES ASSUME IInv, (\E v \in Values : delay(v)) \/ delayBegin \/ delayLoop
             PROVE  IInv'
  OBVIOUS
<1> USE DEF IInv
<1>1. /\ UNCHANGED <<counter, mask, now, ghost, reading>>
      /\ pc' \in {"idle", "lock"} /\ ~ InTime
  BY DEF delay, delayBegin, delayLoop, program, InTime
<1>2. caller' \in {"delay", "loop"} /\ wait' \in Nat /\ then' \in Int
  BY CountsNat DEF delay, delayBegin, delayLoop, program, End, TypeOK
<1>3. TypeOK' BY <1>1, <1>2 DEF TypeOK, counter, mask, ghost, span, reading
<1>4. Nested' /\ HalfRead' /\ ZeroPends' /\ ReadingBound'
  BY <1>1 DEF ZeroPends, Nested, InTime, HalfRead, ReadingBound,
              counter, mask, ghost, span, reading
<1>5. ClockBehind' BY <1>1, BehindKeeps DEF mask, ghost
<1> QED BY <1>3, <1>4, <1>5

LEMMA StutterInv == IInv /\ UNCHANGED vars => IInv'
<1> SUFFICES ASSUME IInv, UNCHANGED vars PROVE IInv' OBVIOUS
<1>1. ClockBehind' BY BehindKeeps DEF IInv, vars, mask, ghost
<1> QED BY <1>1 DEF IInv, TypeOK, Nested, HalfRead, ZeroPends, ReadingBound,
       InTime, vars, counter, mask, program, ghost, span, reading

LEMMA InvHolds == Spec => []IInv
<1>1. IInv /\ [Next]_vars => IInv'
  BY CountInv, TickInv, LocksInv, TimeHighInv, TimeValueInv, DelayInv, StutterInv
     DEF Next, Time
<1> QED BY InitInv, <1>1, PTL DEF Spec

-----------------------------------------------------------------------------
(***************************************************************************)
(* Every variable keeps to its range; sysTickHigh only counts down.        *)
(***************************************************************************)
THEOREM TypeCorrect == Spec => []TypeOK
<1>1. IInv => TypeOK BY DEF IInv
<1> QED BY <1>1, InvHolds, PTL

(***************************************************************************)
(* For every length of the period and however long and deep the program's  *)
(* locks, the clock (sysTickHigh and the counter) never runs ahead of the  *)
(* real time, and falls behind it by the tick that has yet to be handled   *)
(* (tick, start.cpp) and by no more than a period for every period that    *)
(* locks have outlasted their first.                                       *)
(***************************************************************************)
THEOREM ClockCorrect == Spec => []HalvesAgree
<1>1. IInv => HalvesAgree BY BehindAgrees DEF IInv
<1> QED BY <1>1, InvHolds, PTL

(***************************************************************************)
(* What time returns (delay.h:15-23) is right or one period too large, and *)
(* more periods too large only where locks have been held for so many.     *)
(***************************************************************************)
THEOREM ReadingCorrect == Spec => []ReadingBound
<1>1. IInv => ReadingBound BY DEF IInv
<1> QED BY <1>1, InvHolds, PTL

(***************************************************************************)
(* The lock of time never opens a lock of the program, nor leaves one      *)
(* behind, however deep they nest.                                         *)
(***************************************************************************)
THEOREM LocksCorrect == Spec => []LocksNest
<1>1. IInv => LocksNest
  BY DEF IInv, TypeOK, Nested, LocksNest, Own, InTime
<1> QED BY <1>1, InvHolds, PTL

-----------------------------------------------------------------------------
(* Until its end, a delay has at least as many counts before it as are     *)
(* left of it; the clock is never ahead of the real time, and what it      *)
(* loses in a lock only prolongs the delay.                                *)
Left(t) == t + elapsed >= then + wait + begun - error

Deadline ==
  /\ caller = "delay" /\ pc \in {"unlock", "return"} =>
       Settled + elapsed >= now - error + begun
  /\ caller = "loop" /\ pc # "idle" => Left(Settled)
  /\ caller = "loop" /\ pc \in {"unlock", "return"} => Left(now)

LEMMA DeadlineInit == Init => Deadline
BY DEF Init, Deadline

(* A step that leaves the clock and the delay.                             *)
LEMMA DeadlineKeeps ==
  ASSUME Deadline, UNCHANGED <<Settled, elapsed, caller, then, wait, begun, error>>,
         pc' \in {"unlock", "return"} => pc \in {"unlock", "return"} /\ now' = now,
         pc' # "idle" => pc # "idle"
  PROVE  Deadline'
BY DEF Deadline, Left

LEMMA DeadlineNext == IInv /\ Deadline /\ [Next]_vars => Deadline'
<1> SUFFICES ASSUME IInv, Deadline, [Next]_vars PROVE Deadline' OBVIOUS
<1> USE PeriodAssumption, BoundAssumption DEF IInv
<1>0. Settled \in Int /\ error \in Int BY WaitingPeriods DEF TypeOK
<1>1. CASE Count
  <2>1. elapsed' = elapsed + 1 /\ Settled' \in Int /\ Settled' >= Settled - 1
    <3>1. CASE Loses BY <1>0, <1>1, <3>1, CountSettles DEF Count
    <3>2. CASE ~ Loses BY <1>0, <1>1, <3>2, CountSettles DEF Count
    <3> QED BY <3>1, <3>2
  <2>2. UNCHANGED <<pc, caller, wait, then, now, begun, error>>
    BY <1>1 DEF Count, program, reading
  <2>3. {Settled, Settled', elapsed, elapsed', then, wait, begun, error, now} \subseteq Int
    BY <1>0, <2>1 DEF TypeOK
  <2>4. Settled' + elapsed' >= Settled + elapsed BY <2>1, <2>3
  <2>5. Left(Settled) => Left(Settled)' BY <2>2, <2>3, <2>4 DEF Left
  <2>6. Left(now) => Left(now)' BY <2>1, <2>2, <2>3 DEF Left
  <2>7. Settled + elapsed >= now - error + begun
          => Settled' + elapsed' >= now' - error' + begun'
    BY <2>2, <2>3, <2>4
  <2> QED BY <2>2, <2>5, <2>6, <2>7 DEF Deadline
<1>2. CASE tick
  <2>1. (sysTickHigh - 1) * Period = sysTickHigh * Period - Period
    BY OnePeriodLess DEF TypeOK
  <2>2. sysTickHigh * Period \in Int BY ProductInt DEF TypeOK
  <2>3. Settled' = Settled BY <1>2, <2>1, <2>2 DEF tick, Settled, Waiting, TypeOK
  <2> QED BY <1>2, <2>3, DeadlineKeeps DEF tick, program, ghost, span, reading
<1>3. CASE lock \/ unlock
  <2>1. Settled' = Settled BY <1>3 DEF lock, unlock, Settled, Waiting, counter
  <2> QED BY <1>3, <2>1, DeadlineKeeps DEF lock, unlock, program, ghost, span, reading
<1>4. CASE \E v \in Values : delay(v)
  BY <1>4 DEF delay, Deadline
<1>5. CASE timeLock \/ timeHigh \/ timeUnlock
  <2>1. Settled' = Settled
    BY <1>5 DEF timeLock, timeHigh, timeUnlock, Settled, Waiting, counter
  <2> QED BY <1>5, <2>1, DeadlineKeeps
          DEF timeLock, timeHigh, timeUnlock, program, ghost, span, reading
<1>6. CASE timeValue
  <2>0. pc' = "unlock" /\ pc = "value" BY <1>6 DEF timeValue
  <2>1. now' = Settled + Waiting
    <3>1. now' = sysTickHigh * Period + value BY <1>6 DEF timeValue, HalfRead
    <3>2. sysTickHigh * Period \in Int BY ProductInt DEF TypeOK
    <3> QED BY <3>1, <3>2, WaitingPeriods DEF Settled, TypeOK
  <2>2. Settled' = Settled BY <1>6 DEF timeValue, Settled, Waiting, counter
  <2>3. UNCHANGED <<caller, wait, then, elapsed>>
    BY <1>6 DEF timeValue, program, ghost, span
  <2>4. CASE caller = "delay"
    <3>1. error' = Waiting /\ begun' = elapsed BY <1>6, <2>4 DEF timeValue
    <3>2. Settled' + elapsed' >= now' - error' + begun'
      BY <1>0, <2>1, <2>2, <2>3, <3>1, WaitingPeriods DEF TypeOK
    <3> QED BY <2>3, <2>4, <3>2 DEF Deadline
  <2>5. CASE caller = "loop"
    <3>1. UNCHANGED <<begun, error>> BY <1>6, <2>5 DEF timeValue
    <3>2. Left(Settled) BY <2>0, <2>5 DEF Deadline
    <3>3. Left(Settled)' BY <2>2, <2>3, <3>1, <3>2 DEF Left
    <3>4. now' \in Int /\ now' >= Settled BY <1>0, <2>1, WaitingPeriods DEF TypeOK
    <3>5. now' + elapsed >= then + wait + begun - error
      <4>1. \A a, b, c, d \in Int : a >= b /\ b + c >= d => a + c >= d OBVIOUS
      <4>2. then + wait + begun - error \in Int /\ elapsed \in Int BY <1>0 DEF TypeOK
      <4>3. Settled + elapsed >= then + wait + begun - error BY <3>2 DEF Left
      <4> HIDE DEF Settled, IInv
      <4> QED BY <1>0, <3>4, <4>1, <4>2, <4>3
    <3>6. Left(now)' BY <2>3, <3>1, <3>5 DEF Left
    <3> QED BY <2>0, <2>3, <2>5, <3>3, <3>6 DEF Deadline
  <2> QED BY <2>4, <2>5 DEF TypeOK
<1>7. CASE delayBegin
  <2>1. /\ caller = "delay" /\ pc = "return" /\ caller' = "loop" /\ pc' = "lock"
        /\ then' = now - wait
        /\ UNCHANGED <<wait, elapsed, begun, error>>
    BY <1>7 DEF delayBegin, End, ghost, span, reading
  <2>2. Settled' = Settled BY <1>7 DEF delayBegin, Settled, Waiting, counter
  <2> QED BY <1>0, <2>1, <2>2 DEF Deadline, Left, TypeOK
<1>8. CASE delayLoop
  <2>1. Settled' = Settled BY <1>8 DEF delayLoop, Settled, Waiting, counter
  <2> QED BY <1>8, <2>1, DeadlineKeeps DEF delayLoop, program, ghost, span, reading
<1>9. CASE UNCHANGED vars
  <2>1. Settled' = Settled BY <1>9 DEF vars, Settled, Waiting, counter
  <2> QED BY <1>9, <2>1, DeadlineKeeps DEF vars, program, ghost, span, reading
<1> QED BY <1>1, <1>2, <1>3, <1>4, <1>5, <1>6, <1>7, <1>8, <1>9 DEF Next, Time

LEMMA LongEnough ==
  IInv /\ Deadline => [delayLoop /\ pc' = "idle" => elapsed - begun >= wait - error]_vars
<1> SUFFICES ASSUME IInv, Deadline, delayLoop, pc' = "idle"
             PROVE  elapsed - begun >= wait - error
  OBVIOUS
<1> USE PeriodAssumption, BoundAssumption DEF IInv
<1>1. pc = "return" /\ caller = "loop" /\ now <= then
  BY DEF delayLoop, TypeOK
<1>2. Left(now) BY <1>1 DEF Deadline
<1> QED BY <1>1, <1>2 DEF Left, TypeOK

(***************************************************************************)
(* For every period and every delay (delay.h:25-40): none is shorter than  *)
(* asked for, in real time, unless a tick waited at its first reading, and *)
(* then by no more than that period.                                       *)
(***************************************************************************)
THEOREM DelayLongEnough == Spec => DelayNotEarly
<1>1. Spec => []Deadline
  BY DeadlineInit, DeadlineNext, InvHolds, PTL DEF Spec
<1> QED BY <1>1, LongEnough, InvHolds, PTL DEF Spec, DelayNotEarly

-----------------------------------------------------------------------------
(* Start-up.  What of init is before the program runs, and what of it is   *)
(* before the crystal is selected and the PLL is asked for.                *)
Unstarted == {"watchdogDisable", "enableXtal", "xtalStable", "selectXtal"}
Unselected == Unstarted \cup {"selInProgress"}
Unlocked == Unselected \cup {"pllConfig", "lockA"}
Slow == Unlocked \cup {"cssMain", "mainReady", "masterConfig"}
Silent == Slow \cup {"pllReady", "sysTickSetup", "copyData", "clearBSS", "initArray"}

(* Nothing gives up, so that what was waited for is there: the oscillator  *)
(* that is selected, the PLL that is locked to it.  A status that was      *)
(* already set is cleared before it is waited for.                         *)
BootInv ==
  /\ phase \in Silent \cup {"main", "finiArray", "loop"}
  /\ timeout \in 0 .. MaxTimeout
  /\ "rc" \in mor
  /\ main \in {"rc", "xtal"} /\ css \in {"main", "pll"} /\ master \in {"main", "pll"}
  /\ main = "xtal" => "xtalStable" \in status
  /\ phase \notin Unstarted /\ "selInProgress" \in status => main = "xtal"
  /\ phase \notin Unselected => "selInProgress" \in status
  /\ phase \notin Unlocked => "lockA" \in status
  /\ phase \in Slow => css = "main" /\ master = "main"
  /\ phase \in Silent \ {"initArray"} => pc = "idle"

(* sysTickHigh gets its value; every other step of start-up is one of the  *)
(* clock and its program, or changes nothing of theirs.                    *)
StoreHigh ==
  /\ sysTickHigh' = Start
  /\ clock' = Start * Period + value - Waiting
  /\ pc = "idle"
  /\ UNCHANGED <<value, pending, mask, pc, program, now, elapsed, late, held, reading>>

Masks ==
  /\ Lock /\ pc = "idle" /\ Runs
  /\ UNCHANGED <<counter, pc, program, now, ghost, reading>>

LEMMA BootStep == BootInv /\ [BootNext]_bootVars => [Next]_vars \/ StoreHigh \/ Masks
<1> SUFFICES ASSUME BootInv, [BootNext]_bootVars PROVE [Next]_vars \/ StoreHigh \/ Masks
  OBVIOUS
<1>1. CASE Stable \/ Selected \/ Locked \/ Switched
  BY <1>1, Zenon DEF Stable, Selected, Locked, Switched, Becomes
<1>2. CASE watchdogDisable \/ enableXtal \/ selectXtal \/ pllConfig \/ cssMain \/ masterConfig
  BY <1>2, Zenon DEF watchdogDisable, enableXtal, selectXtal, pllConfig, cssMain, masterConfig, write
<1>3. CASE poll \/ sysTickSetup \/ clearBSS \/ enterMain \/ finiArray
  BY <1>3, Zenon DEF poll, sysTickSetup, clearBSS, enterMain, finiArray, goes
<1>4. CASE copyData
  <2>1. pc = "idle"
    BY <1>4 DEF copyData, BootInv, Silent
  <2>2. UNCHANGED <<value, pending, mask, pc, program, now, elapsed, late, held, reading>>
    BY <1>4 DEF copyData
  <2>3. \/ UNCHANGED <<sysTickHigh, clock>>
        \/ /\ sysTickHigh' = Start
           /\ clock' = Start * Period + value - Waiting
    BY <1>4, Zenon DEF copyData
  <2> QED BY <2>1, <2>2, <2>3 DEF StoreHigh, vars, counter, ghost, span
<1>5. CASE disableInterrupts
  BY <1>5, Zenon DEF disableInterrupts, Returned, Masks
<1>6. CASE (Ticking /\ (Count \/ tick)) \/ (Program /\ (Time \/ delayBegin \/ delayLoop))
           \/ (Program /\ (lock \/ unlock \/ \E v \in Values : delay(v)))
  BY <1>6, Zenon DEF Next
<1>7. CASE UNCHANGED bootVars
  BY <1>7 DEF bootVars
<1> QED BY <1>1, <1>2, <1>3, <1>4, <1>5, <1>6, <1>7, Zenon DEF BootNext, Setup

LEMMA BootInitInv == BootInit => IInv /\ Deadline /\ BootInv
<1> SUFFICES ASSUME BootInit PROVE IInv /\ Deadline /\ BootInv
  OBVIOUS
<1> USE PeriodAssumption, StartAssumption, BoundAssumption, DataAssumption
<1>1. sysTickHigh \in 0 .. Start
  BY DEF BootInit
<1>2. sysTickHigh * Period \in Int
  BY <1>1, ProductInt
<1>3. clock \in Int
  BY <1>2 DEF BootInit
<1>4. pending \in BOOLEAN
  BY DEF BootInit
<1>5. TypeOK
  BY <1>1, <1>3, <1>4 DEF BootInit, TypeOK
<1>6. Nested /\ HalfRead /\ ZeroPends /\ ReadingBound /\ Deadline
  BY DEF BootInit, Nested, HalfRead, ZeroPends, ReadingBound, InTime, Deadline
<1>7. ClockBehind
  <2>1. Behind(0) BY <1>2 DEF BootInit, Behind, Settled, Waiting
  <2> QED BY <2>1 DEF BootInit, ClockBehind
<1>8. BootInv
  BY DEF BootInit, BootInv, Silent, Slow, Unlocked, Unselected, Unstarted
<1> QED BY <1>5, <1>6, <1>7, <1>8 DEF IInv

LEMMA StoreHighInv == IInv /\ Deadline /\ StoreHigh => IInv' /\ Deadline'
<1> SUFFICES ASSUME IInv, Deadline, StoreHigh PROVE IInv' /\ Deadline'
  OBVIOUS
<1> USE PeriodAssumption, StartAssumption DEF IInv
<1>1. Start * Period \in Int
  BY ProductInt
<1>2. sysTickHigh' = Start /\ clock' \in Int
  BY <1>1, WaitingPeriods DEF StoreHigh, TypeOK
<1>3. TypeOK'
  BY <1>2 DEF StoreHigh, TypeOK, mask, program, reading
<1>4. Nested' /\ HalfRead' /\ ZeroPends' /\ ReadingBound' /\ Deadline'
  BY DEF StoreHigh, Nested, HalfRead, ZeroPends, ReadingBound, InTime, Deadline, mask, program, reading
<1>5. ClockBehind'
  <2>1. PICK lost \in 0 .. late : Behind(lost) BY DEF ClockBehind
  <2>2. lost \in Int /\ lost <= late BY <2>1
  <2>3. Settled' = clock' + 0 * Period
    BY <1>1, WaitingPeriods DEF StoreHigh, Settled, Waiting, TypeOK
  <2>4. faultmask = 1 /\ pending => (late - 0) * Period + held >= 1 + Since
    <3>1. \A x, y \in Nat : x * y >= 0 OBVIOUS
    <3>2. late * Period = (late - lost) * Period + lost * Period
      BY <2>2 DEF TypeOK
    <3>3. lost * Period >= 0 BY <2>1, <3>1 DEF TypeOK
    <3>4. (late - lost) * Period \in Int /\ lost * Period \in Int /\ late * Period \in Int
      BY <2>2, ProductInt DEF TypeOK
    <3>5. Since \in Int BY DEF Since, TypeOK
    <3> QED BY <2>1, <3>2, <3>3, <3>4, <3>5 DEF Behind, TypeOK
  <2>5. Behind(0)' BY <2>3, <2>4 DEF Behind, StoreHigh, Since, mask
  <2>6. 0 \in 0 .. late' BY DEF StoreHigh, TypeOK
  <2> QED BY <2>5, <2>6 DEF ClockBehind
<1> QED BY <1>3, <1>4, <1>5

LEMMA MasksInv == IInv /\ Deadline /\ Masks => IInv' /\ Deadline'
<1> SUFFICES ASSUME IInv, Deadline, Masks PROVE IInv' /\ Deadline'
  OBVIOUS
<1> USE DEF IInv
<1>1. /\ locks' \in Seq({0, 1}) /\ faultmask' \in {0, 1}
      /\ \A i \in 1 .. Len(locks') : locks'[i] = IF i = 1 THEN 0 ELSE 1
      /\ faultmask' = IF Len(locks') = 0 THEN 0 ELSE 1
  BY LockNests DEF Masks
<1>2. UNCHANGED <<counter, pc, program, now, ghost, reading>> /\ pc = "idle" /\ Runs
  BY DEF Masks
<1>3. TypeOK'
  BY <1>1, <1>2 DEF TypeOK, counter, program, ghost, span, reading
<1>4. Nested'
  BY <1>1, <1>2 DEF Nested, InTime
<1>5. HalfRead' /\ ZeroPends' /\ ReadingBound' /\ Deadline'
  BY <1>2 DEF ZeroPends, HalfRead, ReadingBound, Deadline, counter, program, ghost, span, reading
<1>6. ClockBehind'
  BY <1>2, BehindKeeps DEF Runs, ghost
<1> QED BY <1>3, <1>4, <1>5, <1>6

(* A wait ends only when it has what it waits for: its counter, of a fixed *)
(* width, never passes its greatest value (start.cpp:102-120).             *)
LEMMA PollWaits ==
  ASSUME BootInv, poll
  PROVE  \E w \in Waits : phase = w[1] /\ (phase' = phase \/ (phase' = w[3] /\ w[2] \in status))
<1>1. patient(timeout)
  BY DataAssumption DEF BootInv, patient
<1> QED BY <1>1, Zenon DEF poll

LEMMA BootInvStep == BootInv /\ [BootNext]_bootVars => BootInv'
<1> SUFFICES ASSUME BootInv, [BootNext]_bootVars PROVE BootInv'
  OBVIOUS
<1> USE DEF BootInv, Silent, Slow, Unlocked, Unselected, Unstarted
<1>t. MaxTimeout \in Nat
  BY DataAssumption
<1>1. CASE Stable \/ Locked
  BY <1>1 DEF Stable, Locked, Becomes, vars
<1>2. CASE Selected
  BY <1>2 DEF Selected, Becomes, vars
<1>3. CASE Switched
  BY <1>3 DEF Switched, Becomes, vars
<1>4. CASE watchdogDisable
  BY <1>4 DEF watchdogDisable, hardware, vars
<1>5. CASE enableXtal \/ selectXtal
  BY <1>5, <1>t DEF enableXtal, selectXtal, write, vars
<1>6. CASE pllConfig \/ cssMain \/ masterConfig
  BY <1>6, <1>t DEF pllConfig, cssMain, masterConfig, write, vars
<1>7. CASE poll
  <2>1. timeout' \in 0 .. MaxTimeout /\ UNCHANGED <<vars, word, hardware>>
    BY <1>7, <1>t DEF poll
  <2>2. PICK w \in Waits : phase = w[1] /\ (phase' = phase \/ (phase' = w[3] /\ w[2] \in status))
    BY <1>7, PollWaits, Zenon
  <2> QED BY <2>1, <2>2 DEF Waits, vars, hardware
<1>8. CASE sysTickSetup \/ copyData
  BY <1>8 DEF sysTickSetup, copyData, hardware, vars
<1>9. CASE clearBSS \/ enterMain \/ finiArray
  BY <1>9 DEF clearBSS, enterMain, finiArray, goes, hardware, vars
<1>10. CASE disableInterrupts
  BY <1>10 DEF disableInterrupts, hardware
<1>11. CASE Ticking /\ (Count \/ tick)
  BY <1>11 DEF Ticking, Count, tick, boot, hardware
<1>12. CASE Program /\ (lock \/ unlock \/ \E v \in Values : delay(v))
  BY <1>12 DEF Program, boot, hardware
<1>13. CASE Program /\ (Time \/ delayBegin \/ delayLoop)
  BY <1>13 DEF Program, boot, hardware
<1>14. CASE UNCHANGED bootVars
  BY <1>14 DEF bootVars, vars, boot, hardware
<1> QED BY <1>1, <1>2, <1>3, <1>4, <1>5, <1>6, <1>7, <1>8, <1>9, <1>10, <1>11, <1>12, <1>13, <1>14
        DEF BootNext, Setup

LEMMA BootInvariant == BootSpec => [](IInv /\ Deadline /\ BootInv)
<1>1. IInv /\ [Next]_vars => IInv'
  BY CountInv, TickInv, LocksInv, TimeHighInv, TimeValueInv, DelayInv, StutterInv
     DEF Next, Time
<1>2. IInv /\ Deadline /\ BootInv /\ [BootNext]_bootVars => IInv' /\ Deadline' /\ BootInv'
  BY <1>1, DeadlineNext, StoreHighInv, MasksInv, BootStep, BootInvStep, Zenon
<1> QED BY BootInitInv, <1>2, PTL DEF BootSpec

(***************************************************************************)
(* The processor never runs from a clock that does not run, whatever the   *)
(* width of the counter of the waits (start.cpp:102-121).                   *)
(***************************************************************************)
THEOREM ClockRunsCorrect == BootSpec => []ClockRuns
<1>1. BootInv => ClockRuns
  BY DEF BootInv, ClockRuns, Slow, Unlocked, Unselected, Unstarted
<1> QED BY <1>1, BootInvariant, PTL

(***************************************************************************)
(* A program that is started by init has the clock of SysTick: whatever    *)
(* sysTickHigh holds before its word is copied, and ticks that come before *)
(* that, from the store on (copyData) the clock keeps to the real time,    *)
(* its readings and delays to their bounds, and locks stay in force.       *)
(***************************************************************************)
THEOREM StartedClockCorrect ==
  BootSpec => [](TypeOK /\ HalvesAgree /\ ReadingBound /\ LocksNest) /\ DelayNotEarly
<1>1. IInv => TypeOK /\ HalvesAgree /\ ReadingBound /\ LocksNest
  BY BehindAgrees DEF IInv, TypeOK, Nested, LocksNest, Own, InTime
<1> QED BY <1>1, LongEnough, BootInvariant, PTL DEF BootSpec, DelayNotEarly
=============================================================================
