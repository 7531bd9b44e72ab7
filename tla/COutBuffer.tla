----------------------------- MODULE COutBuffer -----------------------------
(***************************************************************************)
(* The class template COutBuffer of common/cbuffer.h: a ring of characters *)
(* between the program and the transmitter of a character device.  put     *)
(* runs in the main program, one memory access of the ring at a time;      *)
(* putonReady is the interrupt handler, which runs to its end whenever it  *)
(* is enabled between two of them.                                         *)
(*                                                                         *)
(* Characters are numbered 1, 2, ... in the order in which the program     *)
(* hands them to put, so that the transmitted line shows what was lost,    *)
(* doubled or overtaken; NoChar is an unwritten slot or an empty register. *)
(*                                                                         *)
(* The base device is external: it calls onReady while its interrupt is    *)
(* enabled and its transmit register empty.                                *)
(***************************************************************************)
EXTENDS Ring

CONSTANTS
  MaxPut,     \* bound: how many characters the program sends
  Uses        \* how the programs considered use the class, see Use

(* Waits: the caller waits for ready() before put (SecOut, coutdevice.h).   *)
(* Locked: it holds a GlobalInterruptLock during its calls.  Callback: the  *)
(* characters come from a callback bound to onReady, not from put calls of  *)
(* the main program.                                                        *)
Use == [Waits : BOOLEAN, Locked : BOOLEAN, Callback : BOOLEAN]

ASSUME MaxPutAssumption == MaxPut \in Nat
ASSUME UsesAssumption == Uses \subseteq Use

NoChar == 0
Char == 1 .. MaxPut

VARIABLES
  bu, poss, pose,   \* outBuffer
  onReady,          \* whether COutBuffer::onReady has a callback bound
  bound,            \* whether BaseCDevice::onReady is bound to putonReady
  readyIE,          \* the base device's ready interrupt is enabled
  tx,               \* its transmit register
  line,             \* what has left it
  use,              \* how the program uses the class
  given,            \* how many characters the program has handed to put
  pc, pos           \* where the main program is; add1overrun's copy of poss

ring == <<bu, poss, pose>>
base == <<bound, readyIE, tx, line>>
app  == <<onReady, given, use>>
vars == <<ring, base, app, pc, pos>>

TypeOK ==
  /\ bu \in [Slot -> Char \cup {NoChar}]
  /\ poss \in Slot /\ pose \in Slot /\ pos \in Slot
  /\ onReady \in BOOLEAN /\ bound \in BOOLEAN /\ readyIE \in BOOLEAN
  /\ tx \in Char \cup {NoChar}
  /\ line \in Seq(Char)
  /\ given \in 0 .. MaxPut /\ use \in Uses
  /\ pc \in {"idle", "sendonReady", "isFull", "drop", "dropped", "store",
             "advance", "bind", "enable"}

Init ==
  /\ bu = [s \in Slot |-> NoChar] /\ poss = 0 /\ pose = 0
  /\ use \in Uses
  /\ onReady = use.Callback
  /\ bound = FALSE /\ readyIE = FALSE
  /\ tx = NoChar /\ line = << >>
  /\ given = 0
  /\ pc = "idle" /\ pos = 0

ready == ~ isFull_i(poss, pose)

-----------------------------------------------------------------------------
(* put, called by the main program (or by the callback, from sendonReady). *)

put ==
  /\ ~ use.Callback /\ pc = "idle"
  /\ given < MaxPut
  /\ use.Waits => ready
  /\ given' = given + 1
  /\ pc' = "isFull"
  /\ UNCHANGED <<ring, base, onReady, use, pos>>

putIsFull ==
  /\ pc = "isFull"
  /\ pc' = IF isFull_i(poss, pose) THEN "drop" ELSE "store"
  /\ UNCHANGED <<ring, base, app, pos>>

(* add1overrun(poss) is a call: it reads poss, and later writes it back.   *)
putDrop ==
  /\ pc = "drop"
  /\ pos' = poss
  /\ pc' = "dropped"
  /\ UNCHANGED <<ring, base, app>>

putDropped ==
  /\ pc = "dropped"
  /\ poss' = add1overrun(pos)
  /\ pc' = "store"
  /\ UNCHANGED <<bu, pose, base, app, pos>>

(* Mutant: the character is stored one slot too far.                       *)
putStoreBehind ==
  /\ pc = "store"
  /\ bu' = [bu EXCEPT ![add1overrun(pose)] = given]
  /\ pc' = "advance"
  /\ UNCHANGED <<poss, pose, base, app, pos>>

putStore ==
  /\ pc = "store"
  /\ bu' = [bu EXCEPT ![pose] = given]
  /\ pc' = "advance"
  /\ UNCHANGED <<poss, pose, base, app, pos>>

putAdvance ==
  /\ pc = "advance"
  /\ pose' = add1overrun(pose)
  /\ pc' = "bind"
  /\ UNCHANGED <<bu, poss, base, app, pos>>

putBind ==
  /\ pc = "bind"
  /\ bound' = TRUE
  /\ pc' = "enable"
  /\ UNCHANGED <<ring, readyIE, tx, line, app, pos>>

(* Mutant: the interrupt is enabled for the first character only.          *)
putEnableFirst ==
  /\ pc = "enable"
  /\ readyIE' = (readyIE \/ given = 1)
  /\ pc' = IF use.Callback THEN "sendonReady" ELSE "idle"
  /\ UNCHANGED <<ring, bound, tx, line, app, pos>>

putEnable ==
  /\ pc = "enable"
  /\ readyIE' = TRUE
  /\ pc' = IF use.Callback THEN "sendonReady" ELSE "idle"
  /\ UNCHANGED <<ring, bound, tx, line, app, pos>>

-----------------------------------------------------------------------------
(* enableonReady, called by the main program of a callback application, and *)
(* the loop of sendonReady it runs; the callback puts its next character,   *)
(* and resets the delegate once it has none left.                           *)

enableonReady ==
  /\ onReady /\ pc = "idle"
  /\ readyIE' = TRUE
  /\ pc' = "sendonReady"
  /\ UNCHANGED <<ring, bound, tx, line, app, pos>>

sendonReady ==
  /\ pc = "sendonReady"
  /\ \/ /\ ~ ready \/ ~ onReady
        /\ pc' = "idle"
        /\ UNCHANGED <<onReady, given>>
     \/ /\ ready /\ onReady /\ given < MaxPut
        /\ given' = given + 1
        /\ pc' = "isFull"
        /\ UNCHANGED onReady
     \/ /\ ready /\ onReady /\ given = MaxPut
        /\ onReady' = FALSE
        /\ UNCHANGED <<given, pc>>
  /\ UNCHANGED <<ring, base, use, pos>>

-----------------------------------------------------------------------------
(* The same loop run by the handler, uninterrupted, over the ring from p    *)
(* to pose: it fills the free slots, or puts what the callback has left.    *)
Filled(p) ==
  LET free == (Length - 1) - Used(p, pose)
      left == MaxPut - given
  IN  IF ~ onReady THEN 0 ELSE IF left < free THEN left ELSE free

sendonReadyFrom(p) ==
  LET n == Filled(p)
  IN  /\ bu' = [s \in Slot |-> IF Used(pose, s) < n THEN given + Used(pose, s) + 1
                                                    ELSE bu[s]]
      /\ pose' = Wrap(pose + n)
      /\ given' = given + n
      /\ onReady' = (onReady /\ Used(p, pose) + n = Length - 1)

(* Mutant: the interrupt is disabled after every character.                *)
staysEnabledNever(n) == FALSE

staysEnabled(n) == ~ isEmpty(poss, pose) \/ n > 0

putonReady ==
  /\ readyIE /\ bound /\ tx = NoChar
  /\ use.Locked => pc = "idle"
  /\ \/ /\ ~ isEmpty(poss, pose)
        /\ tx' = bu[poss]
        /\ poss' = add1overrun(poss)
     \/ /\ isEmpty(poss, pose)
        /\ UNCHANGED <<poss, tx>>
  /\ sendonReadyFrom(poss')
  /\ readyIE' = staysEnabled(Filled(poss'))
  /\ UNCHANGED <<bound, line, use, pc, pos>>

(* The transmitter (external) sends the character in its register.         *)
Transmit ==
  /\ tx # NoChar
  /\ line' = Append(line, tx)
  /\ tx' = NoChar
  /\ UNCHANGED <<ring, bound, readyIE, app, pc, pos>>

-----------------------------------------------------------------------------
Main == \/ putIsFull \/ putDrop \/ putDropped \/ putStore \/ putAdvance
        \/ putBind \/ putEnable \/ sendonReady

Next == put \/ enableonReady \/ Main \/ putonReady \/ Transmit

(* The program finishes a call it has begun, a pending interrupt is served  *)
(* as soon as the lock is released and the transmitter sends; nothing       *)
(* obliges the program to call.                                             *)
Fairness == WF_vars(Main) /\ SF_vars(putonReady) /\ WF_vars(Transmit)

Spec == Init /\ [][Next]_vars /\ Fairness

-----------------------------------------------------------------------------
(* Everything on its way out, oldest first.                                *)
Sent == line \o (IF tx = NoChar THEN << >> ELSE <<tx>>) \o Contents(bu, poss, pose)

(* Between two calls of put.                                                *)
Resting == pc \in {"idle", "sendonReady"}

(* A program that waits, and a callback that is called under a lock, put    *)
(* only where there is room; they and any other program that holds the lock *)
(* share poss with the handler in turn.                                     *)
Waiting == use.Waits \/ (use.Callback /\ use.Locked)

Serial == Waiting \/ use.Locked

(* A callback runs in the main program and in the handler, and needs a     *)
(* lock to be called in turn.                                              *)
LockedCallback == use.Callback => use.Locked

(***************************************************************************)
(* The handler and put never double or reorder a character, in any         *)
(* interleaving, nor lose the one that was just put; of a program that     *)
(* puts only where there is room they lose none.  (A ring of one slot is   *)
(* full when it is empty, and drops whatever it is given.)                 *)
(***************************************************************************)
InOrder ==
  LockedCallback =>
    /\ Serial => /\ \A i, j \in 1 .. Len(Sent) : i < j => Sent[i] < Sent[j]
                 /\ Length > 1 /\ Resting /\ given > 0 =>
                      Sent # << >> /\ Sent[Len(Sent)] = given
    /\ Waiting /\ Resting => Len(Sent) = given

(***************************************************************************)
(* The handler that disables the interrupt on an empty ring (cbuffer.h:31) *)
(* and the put that fills it never leave a character behind with the       *)
(* interrupt disabled.                                                     *)
(***************************************************************************)
NoLostWakeup ==
  Resting /\ ~ isEmpty(poss, pose) => readyIE /\ bound

(***************************************************************************)
(* Only what was put is sent, even if the oldest characters are dropped    *)
(* while the handler takes them.                                           *)
(***************************************************************************)
OnlyWhatWasPut ==
  LockedCallback => \A i \in 1 .. Len(Sent) : Sent[i] \in 1 .. given

(***************************************************************************)
(* Every character that was put leaves the transmitter.                    *)
(***************************************************************************)
AllSent == \A n \in Char : Waiting /\ given >= n ~> Len(line) >= n
=============================================================================
