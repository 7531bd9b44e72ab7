------------------------------ MODULE SysTick -------------------------------
(***************************************************************************)
(* The clock of common/delay.h: the SysTick counter counts down, its       *)
(* exception handler tick (start.cpp) counts the periods in sysTickHigh,   *)
(* and SysTickTimer::time puts the two together under a                    *)
(* GlobalInterruptLock (arm/locking.h).  The delays wait for that clock.   *)
(*                                                                         *)
(* External: the counter of the processor.  An exception that is pending   *)
(* and not masked is taken before the next instruction of the program, but *)
(* not before the counter has left zero (entering it takes longer than a   *)
(* count, which is 8 cycles).  FAULTMASK masks it; while it is masked the  *)
(* counter may run through more than one period, if the program holds a    *)
(* lock of its own for that long: the processor keeps one tick pending,    *)
(* and those that follow it are lost.                                      *)
(***************************************************************************)
EXTENDS Integers, Sequences

CONSTANTS
  Period,     \* counts of a period: 2^24
  Start,      \* sysTickHigh when main begins: 2^32 - 1
  PerUnit,    \* cycles in a microsecond or millisecond: F_CPU / 1000000
  Values,     \* the arguments of the delays
  MaxTime,    \* bound: how long the counter runs
  MaxDepth    \* bound: how many locks of its own the program nests

ASSUME PeriodAssumption == Period \in Nat /\ Period > 1
ASSUME StartAssumption == Start \in Nat
ASSUME DelayAssumption == PerUnit \in Nat /\ Values \subseteq Nat
ASSUME BoundAssumption == MaxTime \in Nat /\ MaxDepth \in Nat

VARIABLES
  sysTickHigh, value, pending,  \* the counter and its exception
  faultmask, locks,             \* FAULTMASK; what the locks held have saved
  pc, caller,                   \* the program in time, and where that returns
  now, wait, then,              \* time's result; the counts to delay, the end
  elapsed, clock,               \* real time: counts since Init, and counted down
  held, late,                   \* counts since FAULTMASK was set; the periods
                                \* by which locks have outlasted their first
  at, begun, error              \* clock and elapsed when time read value for
                                \* the last and for the first time in a delay,
                                \* and a period if a tick waited that first time

counter == <<sysTickHigh, value, pending>>
mask    == <<faultmask, locks>>
program == <<caller, wait, then>>
span    == <<elapsed, clock, late>>
ghost   == <<span, held>>
reading == <<at, begun, error>>
vars    == <<counter, mask, pc, program, now, ghost, reading>>

TypeOK ==
  /\ sysTickHigh \in Int /\ sysTickHigh <= Start
  /\ value \in 0 .. Period - 1 /\ pending \in BOOLEAN
  /\ faultmask \in {0, 1} /\ locks \in Seq({0, 1})
  /\ pc \in {"idle", "lock", "high", "value", "unlock", "return"}
  /\ caller \in {"delay", "loop"}
  /\ now \in Int /\ wait \in Nat /\ then \in Int
  /\ elapsed \in 0 .. MaxTime /\ clock \in Int
  /\ held \in 0 .. Period /\ late \in Nat
  /\ at \in Int /\ begun \in 0 .. MaxTime /\ error \in {0, Period}

Init ==
  /\ sysTickHigh = Start /\ value \in 1 .. Period - 1 /\ pending = FALSE
  /\ faultmask = 0 /\ locks = << >>
  /\ pc = "idle" /\ caller = "delay"
  /\ now = 0 /\ wait = 0 /\ then = 0
  /\ elapsed = 0 /\ clock = Start * Period + value /\ held = 0 /\ late = 0
  /\ at = 0 /\ begun = 0 /\ error = 0

(* The locks the program holds beside the one of time.                     *)
InTime == pc \in {"high", "value", "unlock"}

Own == IF InTime THEN Len(locks) - 1 ELSE Len(locks)

-----------------------------------------------------------------------------
(* The counter, and its handler.                                           *)

Loses == pending /\ value = 1      \* a tick while the last one is pending

(* The tick that waits to be handled, once the counter is reloaded.        *)
Waiting == IF pending /\ value # 0 THEN Period ELSE 0

(* Bounds: the counter stops at MaxTime, and leaves a delay that has not    *)
(* begun the time it takes.                                                 *)
Room(n) == elapsed + n + 2 * Period < MaxTime

Count ==
  /\ elapsed < MaxTime
  /\ pc \in {"lock", "high", "value"} /\ caller = "delay" /\ value # 0 => Room(wait)
  /\ Loses => faultmask = 1 /\ Own > 0
  /\ value' = IF value = 0 THEN Period - 1 ELSE value - 1
  /\ pending' = (pending \/ value = 1)
  /\ elapsed' = elapsed + 1
  /\ clock' = clock - 1
  /\ IF faultmask = 0
     THEN UNCHANGED <<held, late>>
     ELSE IF held = Period
          THEN held' = 1 /\ late' = late + 1
          ELSE held' = held + 1 /\ UNCHANGED late
  /\ UNCHANGED <<sysTickHigh, mask, pc, program, now, reading>>

(* Mutant: the handler counts up.                                          *)
tickUp ==
  /\ pending /\ faultmask = 0 /\ value # 0
  /\ sysTickHigh' = sysTickHigh + 1
  /\ pending' = FALSE
  /\ UNCHANGED <<value, mask, pc, program, now, ghost, reading>>

tick ==
  /\ pending /\ faultmask = 0 /\ value # 0
  /\ sysTickHigh' = sysTickHigh - 1
  /\ pending' = FALSE
  /\ UNCHANGED <<value, mask, pc, program, now, ghost, reading>>

-----------------------------------------------------------------------------
(* GlobalInterruptLock, of the program and of time.                        *)
Runs == pending => faultmask = 1      \* no exception is to be taken first

(* Mutant: the constructor does not mask the exceptions.                   *)
LockOpen ==
  /\ locks' = Append(locks, faultmask)
  /\ UNCHANGED faultmask

Lock ==
  /\ locks' = Append(locks, faultmask)
  /\ faultmask' = 1

(* Mutant: the destructor enables the exceptions.                          *)
SavedNone == 0

Saved == locks[Len(locks)]

Unlock ==
  /\ faultmask' = Saved
  /\ locks' = SubSeq(locks, 1, Len(locks) - 1)
  /\ held' = IF faultmask' = 0 THEN 0 ELSE held

lock ==
  /\ Runs /\ pc = "idle" /\ Own < MaxDepth
  /\ Lock
  /\ UNCHANGED <<counter, pc, program, now, ghost, reading>>

unlock ==
  /\ Runs /\ pc = "idle" /\ Own > 0
  /\ Unlock
  /\ UNCHANGED <<counter, pc, program, now, span, reading>>

-----------------------------------------------------------------------------
(* SysTickTimer::time.                                                     *)

timeLock ==
  /\ Runs /\ pc = "lock" /\ pc' = "high"
  /\ Lock
  /\ UNCHANGED <<counter, program, now, ghost, reading>>

timeHigh ==
  /\ Runs /\ pc = "high" /\ pc' = "value"
  /\ now' = sysTickHigh * Period
  /\ UNCHANGED <<counter, mask, program, ghost, reading>>

timeValue ==
  /\ Runs /\ pc = "value" /\ pc' = "unlock"
  /\ now' = now + value
  /\ at' = clock
  /\ begun' = IF caller = "delay" THEN elapsed ELSE begun
  /\ error' = IF caller = "delay" THEN Waiting ELSE error
  /\ UNCHANGED <<counter, mask, program, ghost>>

timeUnlock ==
  /\ Runs /\ pc = "unlock" /\ pc' = "return"
  /\ Unlock
  /\ UNCHANGED <<counter, program, now, span, reading>>

-----------------------------------------------------------------------------
(* delay_us and delay_ms, which differ in their unit.                      *)
counts(v) == (PerUnit \div 8) * v

delay(v) ==
  /\ Runs /\ pc = "idle" /\ pc' = "lock"
  /\ Room(counts(v))
  /\ caller' = "delay"
  /\ wait' = counts(v)
  /\ UNCHANGED <<counter, mask, now, then, ghost, reading>>

(* Mutant: the end lies in the direction of a clock that counts up.        *)
EndUp == now + wait

End == now - wait

delayBegin ==
  /\ Runs /\ pc = "return" /\ caller = "delay"
  /\ then' = End
  /\ caller' = "loop" /\ pc' = "lock"
  /\ UNCHANGED <<counter, mask, wait, now, ghost, reading>>

delayLoop ==
  /\ Runs /\ pc = "return" /\ caller = "loop"
  /\ pc' = IF now > then THEN "lock" ELSE "idle"
  /\ UNCHANGED <<counter, mask, program, now, ghost, reading>>

-----------------------------------------------------------------------------
Time == timeLock \/ timeHigh \/ timeValue \/ timeUnlock

Next == \/ Count \/ tick
        \/ lock \/ unlock
        \/ \E v \in Values : delay(v)
        \/ Time \/ delayBegin \/ delayLoop

(* The counter counts, an exception that is not masked is taken, and the   *)
(* processor goes on with a call it has begun.                             *)
Fairness == /\ WF_vars(Count) /\ WF_vars(tick)
            /\ WF_vars(Time) /\ WF_vars(delayBegin) /\ WF_vars(delayLoop)

Spec == Init /\ [][Next]_vars /\ Fairness

-----------------------------------------------------------------------------
(***************************************************************************)
(* The clock against the real time: sysTickHigh and the counter together   *)
(* never run ahead of it, and fall behind it by the tick that waits to be  *)
(* handled (start.cpp:201-204) and by at most one period for every period  *)
(* that locks have outlasted their first.                                  *)
(***************************************************************************)
HalvesAgree ==
  \E lost \in 0 .. late :
    sysTickHigh * Period + value = clock + lost * Period + Waiting

(***************************************************************************)
(* What time returns (delay.h:20-22) is the real time when it read the     *)
(* counter or a period too much, and whole periods more only if locks have *)
(* been held for longer than one.                                          *)
(***************************************************************************)
ReadingBound ==
  pc \in {"unlock", "return"} =>
    \E behind \in 0 .. late + 1 : now = at + behind * Period

(***************************************************************************)
(* A lock of the program stays in force over the calls of time, which has  *)
(* one of its own (delay.h:17); without one, the exceptions are enabled    *)
(* again.                                                                  *)
(***************************************************************************)
LocksNest == pc \notin {"high", "value", "unlock"} => (faultmask = 1 <=> Own > 0)

(***************************************************************************)
(* A delay (delay.h:29-39) takes the counts it was asked for, in real      *)
(* time, and only if a tick waited at its first reading up to a period     *)
(* less; ticks that a lock loses only prolong it.                          *)
(***************************************************************************)
DelayNotEarly ==
  [][delayLoop /\ pc' = "idle" => elapsed - begun >= wait - error]_vars

(***************************************************************************)
(* A delay ends, unless the program holds a lock of its own: then the      *)
(* clock does not run on into the next period.                             *)
(***************************************************************************)
DelayEnds == pc = "lock" /\ Own = 0 ~> pc = "idle"
=============================================================================
