-------------------------------- MODULE Boot --------------------------------
(***************************************************************************)
(* Start-up (src/start.cpp, init): the clock of the processor is brought   *)
(* from the RC oscillator to the PLL behind the crystal, one register and  *)
(* one wait after the other; the SysTick is enabled; the data of the       *)
(* program, sysTickHigh among them, is copied word by word while tick may  *)
(* come already; then run the constructors, main and the destructors, as   *)
(* the program of SysTick.                                                 *)
(*                                                                         *)
(* External: the power management controller.  Writing a register clears   *)
(* the status that says that it is obeyed; the oscillator, the selection,  *)
(* the PLL and the switch of the master clock take their time.             *)
(***************************************************************************)
EXTENDS SysTick

CONSTANTS
  MaxTimeout,  \* the greatest value of the counter timeout: 2^32 - 1
  Words,       \* words of the data
  HighWord,    \* the one that is sysTickHigh
  Garbage      \* what memory holds in its place after a reset

ASSUME DataAssumption ==
  MaxTimeout \in Nat /\ HighWord \in 1 .. Words /\ Garbage \subseteq 0 .. Start

VARIABLES
  phase,            \* the function of init that runs, or the wait
  timeout,          \* the rounds of that wait
  word,             \* the next word to copy
  mor, pll, css,    \* oscillators enabled and selected, PLL on, clock asked for
  main, master,     \* the oscillator, and the clock that the processor runs from
  status            \* the status register

hardware == <<mor, pll, css, main, master, status>>
boot     == <<phase, timeout, word, hardware>>
bootVars == <<vars, boot>>

(* After a reset: the RC oscillator, and the SysTick off.                  *)
BootInit ==
  /\ sysTickHigh \in Garbage /\ value \in 1 .. Period - 1 /\ pending = FALSE
  /\ faultmask = 0 /\ locks = << >>
  /\ pc = "idle" /\ caller = "delay" /\ now = 0 /\ wait = 0 /\ then = 0
  /\ elapsed = 0 /\ clock = sysTickHigh * Period + value /\ held = 0 /\ late = 0
  /\ at = 0 /\ begun = 0 /\ error = 0
  /\ phase = "watchdogDisable" /\ timeout = 0 /\ word = 1
  /\ mor = {"rc"} /\ pll = FALSE /\ css = "main"
  /\ main = "rc" /\ master = "main" /\ status = {"masterReady", "selInProgress"}

-----------------------------------------------------------------------------
(* The power management controller.                                        *)
Becomes(flag) == status' = status \cup {flag} /\ UNCHANGED <<vars, phase, timeout, word, mor, pll, css>>

Stable == /\ "xtal" \in mor /\ "xtalStable" \notin status
          /\ Becomes("xtalStable") /\ UNCHANGED <<main, master>>
Selected == /\ "select" \in mor /\ "xtalStable" \in status /\ "selInProgress" \notin status
            /\ Becomes("selInProgress") /\ main' = "xtal" /\ UNCHANGED master
Locked == /\ pll /\ "lockA" \notin status
          /\ Becomes("lockA") /\ UNCHANGED <<main, master>>
Switched == /\ "masterReady" \notin status
            /\ Becomes("masterReady") /\ master' = css /\ UNCHANGED main

-----------------------------------------------------------------------------
watchdogDisable ==
  /\ phase = "watchdogDisable" /\ phase' = "enableXtal"
  /\ UNCHANGED <<vars, timeout, word, hardware>>

(* clockSetup: each register is written, and then its status waited for.   *)
write(here, next) ==
  /\ phase = here /\ phase' = next /\ timeout' = 0
  /\ UNCHANGED <<vars, word, main, master>>

\* Mutant: the crystal is not enabled.
enableXtalNot ==
  /\ write("enableXtal", "xtalStable") /\ mor' = {"rc"}
  /\ UNCHANGED <<pll, css, status>>

enableXtal ==
  /\ write("enableXtal", "xtalStable") /\ mor' = {"rc", "xtal"}
  /\ UNCHANGED <<pll, css, status>>

selectXtal ==
  /\ write("selectXtal", "selInProgress") /\ mor' = {"rc", "xtal", "select"}
  /\ status' = status \ {"selInProgress"} /\ UNCHANGED <<pll, css>>

pllConfig ==
  /\ write("pllConfig", "lockA") /\ pll' = TRUE
  /\ status' = status \ {"lockA"} /\ UNCHANGED <<mor, css>>

cssMain ==
  /\ write("cssMain", "mainReady") /\ css' = "main"
  /\ status' = status \ {"masterReady"} /\ UNCHANGED <<mor, pll>>

masterConfig ==
  /\ write("masterConfig", "pllReady") /\ css' = "pll"
  /\ status' = status \ {"masterReady"} /\ UNCHANGED <<mor, pll>>

\* Mutant: the wait gives up after MaxTimeout rounds.
patientFor(rounds) == rounds < MaxTimeout

(* timeout++ <= 0xFFFFFFFF, of a number of 32 bits.                        *)
patient(rounds) == rounds <= MaxTimeout

(* The waits: where, for what, and what comes then.                        *)
Waits ==
  {<<"xtalStable", "xtalStable", "selectXtal">>, <<"selInProgress", "selInProgress", "pllConfig">>,
   <<"lockA", "lockA", "cssMain">>, <<"mainReady", "masterReady", "masterConfig">>,
   <<"pllReady", "masterReady", "sysTickSetup">>}

poll ==
  /\ \E w \in Waits :
       /\ phase = w[1]
       /\ phase' = IF w[2] \notin status /\ patient(timeout) THEN phase ELSE w[3]
  /\ timeout' = (timeout + 1) % (MaxTimeout + 1)
  /\ UNCHANGED <<vars, word, hardware>>

sysTickSetup ==
  /\ phase = "sysTickSetup" /\ phase' = "copyData"
  /\ UNCHANGED <<vars, timeout, word, hardware>>

(* A word is stored.  When it is sysTickHigh, the store says which time it *)
(* is; a tick that is still pending counts from here on.                   *)
copyData ==
  /\ phase = "copyData" /\ Runs
  /\ IF word <= Words
     THEN /\ word' = word + 1 /\ phase' = phase
          /\ IF word = HighWord
             THEN /\ sysTickHigh' = Start
                  /\ clock' = Start * Period + value - Waiting
             ELSE UNCHANGED <<sysTickHigh, clock>>
     ELSE phase' = "clearBSS" /\ UNCHANGED <<word, sysTickHigh, clock>>
  /\ UNCHANGED <<value, pending, mask, pc, program, now, elapsed, late, held, reading, timeout, hardware>>

(* The functions that follow; the program is back in init between them.    *)
Returned == Runs /\ pc = "idle" /\ Own = 0
goes(here, next) ==
  /\ phase = here /\ Returned /\ phase' = next
  /\ UNCHANGED <<vars, timeout, word, hardware>>
clearBSS  == goes("clearBSS", "initArray")
enterMain == goes("initArray", "main")
finiArray == goes("main", "finiArray")

(* cpsid f, and the loop behind it: a lock that nobody releases.           *)
disableInterrupts ==
  /\ phase = "finiArray" /\ Returned /\ phase' = "loop"
  /\ Lock
  /\ UNCHANGED <<counter, pc, program, now, ghost, reading, timeout, word, hardware>>

-----------------------------------------------------------------------------
Program == phase \in {"initArray", "main", "finiArray"} /\ UNCHANGED boot
Ticking == phase \in {"copyData", "clearBSS", "initArray", "main", "finiArray", "loop"} /\ UNCHANGED boot

Setup == \/ watchdogDisable \/ enableXtal \/ selectXtal \/ pllConfig \/ cssMain \/ masterConfig
         \/ poll \/ sysTickSetup \/ copyData \/ clearBSS

BootNext ==
  \/ Stable \/ Selected \/ Locked \/ Switched
  \/ Setup
  \/ enterMain \/ finiArray \/ disableInterrupts
  \/ Ticking /\ (Count \/ tick)
  \/ Program /\ (lock \/ unlock \/ \E v \in Values : delay(v))
  \/ Program /\ (Time \/ delayBegin \/ delayLoop)

(* The oscillators come up, the counter counts, an exception that is not   *)
(* masked is taken, and the processor goes on with what it has begun.      *)
BootFairness ==
  /\ WF_bootVars(Stable) /\ WF_bootVars(Selected) /\ WF_bootVars(Locked) /\ WF_bootVars(Switched)
  /\ WF_bootVars(Setup) /\ WF_bootVars(Ticking /\ Count) /\ WF_bootVars(Ticking /\ tick)
  /\ WF_bootVars(Program /\ Time) /\ WF_bootVars(Program /\ delayBegin)
  /\ WF_bootVars(Program /\ delayLoop)

BootSpec == BootInit /\ [][BootNext]_bootVars /\ BootFairness

-----------------------------------------------------------------------------
(***************************************************************************)
(* The processor never runs from, and is never switched to, a clock that   *)
(* does not run: the crystal is stable when it is selected, the RC         *)
(* oscillator stays on until then, and the PLL is locked to the crystal    *)
(* before it is asked for.  For this the waits of clockSetup               *)
(* (start.cpp:102-120) must never give up.                                 *)
(***************************************************************************)
ClockRuns ==
  /\ IF main = "xtal" THEN "xtalStable" \in status ELSE "rc" \in mor
  /\ "pll" \in {master, css} => "lockA" \in status /\ main = "xtal"

(***************************************************************************)
(* If the oscillators come up, start-up reaches the constructors of the    *)
(* program: no wait of clockSetup waits for what has been before or for    *)
(* what nobody has asked for, and no tick holds up copyData for ever.      *)
(***************************************************************************)
StartsUp == <>(phase = "initArray")
=============================================================================
