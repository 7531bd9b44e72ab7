-------------------------------- MODULE Fifo --------------------------------
(***************************************************************************)
(* What QueueBuffer promises to its user: a first-in first-out queue of at *)
(* most Capacity elements.  A put on a full queue loses the oldest element *)
(* and never the new one (queuebuffer.h: "If the queue is full the first   *)
(* (oldest) element is lost!").  e is the caller's variable that get and   *)
(* look return an element in, ret the Boolean they return.                 *)
(***************************************************************************)
EXTENDS Naturals, Sequences

CONSTANTS Data_Type, Capacity

VARIABLES queue, e, ret

vars == <<queue, e, ret>>

Init ==
  /\ queue = << >>
  /\ e \in Data_Type
  /\ ret = FALSE

Newest(s) == IF Len(s) > Capacity THEN Tail(s) ELSE s

Put(x) ==
  /\ queue' = Newest(Append(queue, x))
  /\ UNCHANGED <<e, ret>>

Get ==
  \/ /\ queue # << >>
     /\ e' = Head(queue)
     /\ queue' = Tail(queue)
     /\ ret' = TRUE
  \/ /\ queue = << >>
     /\ ret' = FALSE
     /\ UNCHANGED <<queue, e>>

Look ==
  \/ /\ queue # << >>
     /\ e' = Head(queue)
     /\ ret' = TRUE
     /\ UNCHANGED queue
  \/ /\ queue = << >>
     /\ ret' = FALSE
     /\ UNCHANGED <<queue, e>>

Clear ==
  /\ queue' = << >>
  /\ UNCHANGED <<e, ret>>

Next == (\E x \in Data_Type : Put(x)) \/ Get \/ Look \/ Clear

Spec == Init /\ [][Next]_vars
=============================================================================
