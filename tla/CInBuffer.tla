----------------------------- MODULE CInBuffer ------------------------------
(***************************************************************************)
(* The class template CInBuffer of common/cbuffer.h: a ring of characters  *)
(* between the receiver of a character device and the program.  The        *)
(* handler getonReceive fills the ring and switches its own interrupt off  *)
(* when the ring is full; get, in the main program, takes characters out,  *)
(* one memory access at a time, and switches the interrupt on again.       *)
(*                                                                         *)
(* Characters are numbered in the order in which they arrive.  The base    *)
(* device is external: it calls onReceive while its interrupt is enabled   *)
(* and its receive register holds a character, and loses a character that  *)
(* arrives before the last one was read.                                   *)
(***************************************************************************)
EXTENDS Ring

CONSTANTS
  MaxRecv,    \* bound: how many characters arrive
  Uses        \* how the programs considered use the class, see Use

(* Locked: the caller holds a GlobalInterruptLock during its calls.         *)
(* Callback: it binds onReceive and calls enableonReceive, instead of       *)
(* calling get itself.                                                      *)
Use == [Locked : BOOLEAN, Callback : BOOLEAN]

ASSUME MaxRecvAssumption == MaxRecv \in Nat
ASSUME UsesAssumption == Uses \subseteq Use

NoChar == 0
Char == 1 .. MaxRecv

VARIABLES
  bu, poss, pose,   \* inBuffer
  onReceive,        \* whether CInBuffer::onReceive has a callback bound
  receiveIE,        \* the base device's receive interrupt is enabled
  rx,               \* its receive register
  arrived,          \* how many characters have arrived
  overrun,          \* those that found the register occupied
  got,              \* what get has returned to the program
  pc, wasFull,      \* where the main program is, and which branch of get
  use,              \* how the program uses the class
  pos, c            \* add1overrun's copy of poss; the character read

ring == <<bu, poss, pose>>
base == <<rx, arrived, overrun>>
main == <<use, wasFull, pos, c>>
vars == <<ring, onReceive, receiveIE, base, got, pc, main>>

TypeOK ==
  /\ bu \in [Slot -> Char \cup {NoChar}]
  /\ poss \in Slot /\ pose \in Slot /\ pos \in Slot
  /\ {onReceive, receiveIE, wasFull} \subseteq BOOLEAN /\ use \in Uses
  /\ {rx, c} \subseteq Char \cup {NoChar}
  /\ arrived \in 0 .. MaxRecv
  /\ overrun \subseteq Char
  /\ got \in Seq(Char \cup {NoChar})
  /\ pc \in {"idle", "sendonReceive", "isFull", "get", "load", "remove",
             "removed", "enable"}

(* The constructor binds getonReceive and enables the interrupt.           *)
Init ==
  /\ bu = [s \in Slot |-> NoChar] /\ poss = 0 /\ pose = 0
  /\ onReceive = FALSE /\ receiveIE = TRUE
  /\ rx = NoChar /\ arrived = 0 /\ overrun = {}
  /\ got = << >> /\ use \in Uses
  /\ pc = "idle" /\ wasFull = FALSE /\ pos = 0 /\ c = NoChar

(* Where get returns to.                                                   *)
Caller == IF use.Callback THEN "sendonReceive" ELSE "idle"

-----------------------------------------------------------------------------
(* get, called by the main program (or by the callback, from sendonReceive). *)

get ==
  /\ ~ use.Callback /\ pc = "idle"
  /\ pc' = "isFull"
  /\ UNCHANGED <<ring, onReceive, receiveIE, base, got, main>>

(* Mutant: the interrupt is never switched on again.                       *)
getNeverFull ==
  /\ pc = "isFull"
  /\ wasFull' = FALSE
  /\ pc' = "get"
  /\ UNCHANGED <<ring, onReceive, receiveIE, base, got, use, pos, c>>

getIsFull ==
  /\ pc = "isFull"
  /\ wasFull' = isFull_i(poss, pose)
  /\ pc' = "get"
  /\ UNCHANGED <<ring, onReceive, receiveIE, base, got, use, pos, c>>

getCompare ==
  /\ pc = "get"
  /\ pc' = IF pose # poss THEN "load" ELSE IF wasFull THEN "enable" ELSE Caller
  /\ UNCHANGED <<ring, onReceive, receiveIE, base, got, main>>

getLoad ==
  /\ pc = "load"
  /\ c' = bu[poss]
  /\ pc' = "remove"
  /\ UNCHANGED <<ring, onReceive, receiveIE, base, got, use, wasFull, pos>>

(* add1overrun(poss) is a call: it reads poss, and later writes it back.   *)
getRemove ==
  /\ pc = "remove"
  /\ pos' = poss
  /\ pc' = "removed"
  /\ UNCHANGED <<ring, onReceive, receiveIE, base, got, use, wasFull, c>>

getRemoved ==
  /\ pc = "removed"
  /\ poss' = add1overrun(pos)
  /\ got' = Append(got, c)
  /\ pc' = IF wasFull THEN "enable" ELSE Caller
  /\ UNCHANGED <<bu, pose, onReceive, receiveIE, base, main>>

(* Binding getonReceive again stores what the delegate holds already.      *)
getEnable ==
  /\ pc = "enable"
  /\ receiveIE' = TRUE
  /\ pc' = Caller
  /\ UNCHANGED <<ring, onReceive, base, got, main>>

-----------------------------------------------------------------------------
(* A callback application binds onReceive, calls enableonReceive, and is    *)
(* called back from the loop of sendonReceive until the ring is empty; its  *)
(* callback calls get.                                                      *)

enableonReceive ==
  /\ use.Callback /\ pc = "idle" /\ ~ onReceive
  /\ onReceive' = TRUE
  /\ pc' = "sendonReceive"
  /\ UNCHANGED <<ring, receiveIE, base, got, main>>

sendonReceive ==
  /\ pc = "sendonReceive"
  /\ pc' = IF isEmpty(poss, pose) THEN "idle" ELSE "isFull"
  /\ UNCHANGED <<ring, onReceive, receiveIE, base, got, main>>

(* The handler: with a callback bound it hands on all that the ring holds. *)
getonReceive ==
  /\ receiveIE /\ rx # NoChar
  /\ use.Locked => pc = "idle"
  /\ \/ /\ isFull_i(poss, pose)
        /\ receiveIE' = FALSE
        /\ UNCHANGED <<ring, rx, got>>
     \/ /\ ~ isFull_i(poss, pose)
        /\ bu' = [bu EXCEPT ![pose] = rx]
        /\ pose' = add1overrun(pose)
        /\ got' = IF onReceive THEN got \o Contents(bu', poss, pose') ELSE got
        /\ poss' = IF onReceive THEN pose' ELSE poss
        /\ rx' = NoChar
        /\ UNCHANGED receiveIE
  /\ UNCHANGED <<onReceive, arrived, overrun, pc, main>>

(* The receiver (external).                                                *)
Arrive ==
  /\ arrived < MaxRecv
  /\ arrived' = arrived + 1
  /\ \/ rx = NoChar /\ rx' = arrived' /\ UNCHANGED overrun
     \/ rx # NoChar /\ overrun' = overrun \cup {arrived'} /\ UNCHANGED rx
  /\ UNCHANGED <<ring, onReceive, receiveIE, got, pc, main>>

-----------------------------------------------------------------------------
Main == \/ getIsFull \/ getCompare \/ getLoad \/ getRemove \/ getRemoved
        \/ getEnable \/ sendonReceive

Next == get \/ enableonReceive \/ Main \/ getonReceive \/ Arrive

(* The program polls get, or enables its callback, finishes every call and *)
(* lets pending interrupts in between two calls.                           *)
Fairness == /\ WF_vars(get) /\ WF_vars(enableonReceive) /\ WF_vars(Main)
            /\ SF_vars(getonReceive)

Spec == Init /\ [][Next]_vars /\ Fairness

-----------------------------------------------------------------------------
(* What has arrived and was not lost in the register: what get returned,    *)
(* what waits in the ring and in the register.                              *)
Held == got \o Contents(bu, poss, pose) \o (IF rx = NoChar THEN << >> ELSE <<rx>>)

(* A callback gets in the main program and in the handler, and needs a lock *)
(* to be called in turn.                                                    *)
LockedCallback == use.Callback => use.Locked

(***************************************************************************)
(* The ring loses, doubles and reorders nothing: the program reads the     *)
(* characters in the order of their arrival, those apart that the receiver *)
(* itself lost, in any interleaving of the handler and get.                *)
(***************************************************************************)
InOrder ==
  LockedCallback =>
    /\ \A i, j \in 1 .. Len(Held) : i < j => Held[i] < Held[j]
    /\ {Held[i] : i \in 1 .. Len(Held)} = (1 .. arrived) \ overrun

(***************************************************************************)
(* An interrupt that the handler has switched off on a full ring           *)
(* (cbuffer.h:86-87) is switched on by the reader that makes room, if get  *)
(* cannot be interrupted between its test of the ring and its access.      *)
(***************************************************************************)
FullOrEnabled ==
  use.Locked /\ pc = "idle" => receiveIE \/ isFull_i(poss, pose)

(***************************************************************************)
(* A program that keeps reading, under a lock, reads every character that  *)
(* the receiver holds.                                                     *)
(***************************************************************************)
TakenUnderLock == use.Locked /\ rx # NoChar ~> rx = NoChar

(***************************************************************************)
(* "Reads a character from the input buffer" (cbuffer.h:92): a program     *)
(* that keeps calling get reads every character that the receiver holds.   *)
(***************************************************************************)
Taken == rx # NoChar ~> rx = NoChar
=============================================================================
