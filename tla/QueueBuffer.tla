---------------------------- MODULE QueueBuffer -----------------------------
(***************************************************************************)
(* The class template QueueBuffer of common/queuebuffer.h, its operations  *)
(* called one at a time by a single caller.  (COutBuffer and CInBuffer are *)
(* the modules in which an interrupt handler calls the same operations     *)
(* while the main program is in the middle of one; the names of this       *)
(* module differ from theirs, so that RingProofs may be about all three.)  *)
(***************************************************************************)
EXTENDS Ring

CONSTANT Data_Type      \* the template parameter Data_Type: the elements

VARIABLES
  qbu,    \* bu, the ring buffer; its slots are not initialised by the constructor
  qposs,  \* poss, index of the first element
  qpose,  \* pose, index behind the last element
  e,      \* the caller's variable, passed by reference to get and look
  ret     \* the result of the last get or look

queueVars == <<qbu, qposs, qpose, e, ret>>

QueueTypeOK ==
  /\ qbu \in [Slot -> Data_Type]
  /\ qposs \in Slot
  /\ qpose \in Slot
  /\ e \in Data_Type
  /\ ret \in BOOLEAN

QueueInit ==
  /\ qbu \in [Slot -> Data_Type]
  /\ qposs = 0
  /\ qpose = 0
  /\ e \in Data_Type
  /\ ret = FALSE

(* Mutant: a put that tests for a full ring after it has stored.           *)
putTestsLate(x) ==
  /\ qbu' = [qbu EXCEPT ![qpose] = x]
  /\ qpose' = add1overrun(qpose)
  /\ qposs' = IF isFull_i(qposs, qpose') THEN add1overrun(qposs) ELSE qposs
  /\ UNCHANGED <<e, ret>>

queueGet ==
  \/ /\ qpose # qposs
     /\ e' = qbu[qposs]
     /\ qposs' = add1overrun(qposs)
     /\ ret' = TRUE
     /\ UNCHANGED <<qbu, qpose>>
  \/ /\ qpose = qposs
     /\ ret' = FALSE
     /\ UNCHANGED <<qbu, qposs, qpose, e>>

look ==
  \/ /\ qpose # qposs
     /\ e' = qbu[qposs]
     /\ ret' = TRUE
     /\ UNCHANGED <<qbu, qposs, qpose>>
  \/ /\ qpose = qposs
     /\ ret' = FALSE
     /\ UNCHANGED <<qbu, qposs, qpose, e>>

queuePut(x) ==
  /\ qposs' = IF isFull_i(qposs, qpose) THEN add1overrun(qposs) ELSE qposs
  /\ qbu' = [qbu EXCEPT ![qpose] = x]
  /\ qpose' = add1overrun(qpose)
  /\ UNCHANGED <<e, ret>>

clear ==
  /\ qposs' = qpose
  /\ UNCHANGED <<qbu, qpose, e, ret>>

QueueNext == (\E x \in Data_Type : queuePut(x)) \/ queueGet \/ look \/ clear

QueueSpec == QueueInit /\ [][QueueNext]_queueVars

-----------------------------------------------------------------------------
queue == Contents(qbu, qposs, qpose)

(***************************************************************************)
(* The ring implements a first-in first-out queue of Length - 1 elements   *)
(* that loses its oldest element, and only that one, when it overflows.    *)
(***************************************************************************)
Abstract == INSTANCE Fifo WITH Capacity <- Length - 1

ImplementsFifo == Abstract!Spec

(***************************************************************************)
(* isFull() (queuebuffer.h:107-111) holds exactly when one more put would  *)
(* lose an element: with the indices alone, the ring cannot tell Length    *)
(* elements from none.                                                     *)
(***************************************************************************)
FullIsCapacity == isFull_i(qposs, qpose) <=> Len(queue) = Length - 1

(***************************************************************************)
(* count() (queuebuffer.h:113-117) is right whenever the queue holds       *)
(* something; of an empty queue it says Length.                            *)
(***************************************************************************)
CountOfNonEmpty == queue # << >> => count(qposs, qpose) = Len(queue)
=============================================================================
