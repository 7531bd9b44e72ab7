---------------------------- MODULE FrameChannel ----------------------------
(***************************************************************************)
(* What the framing layers promise over a line that may damage a frame:    *)
(* the frame behind a damaged one may be lost with it, because the         *)
(* receiver needs a mark to find back; every other message that fits the   *)
(* receiver is received, once, whole and in the order of acceptance.       *)
(***************************************************************************)
EXTENDS Naturals, Sequences

CONSTANT Message

VARIABLES
  accepted,     \* the messages sent; their index is the number of their frame
  damaged,      \* the frames that the line has damaged
  received,     \* the messages received, with the number of their frame
  room          \* how long a message the receiver has room for

vars == <<accepted, damaged, received, room>>

Init == accepted = << >> /\ damaged = {} /\ received = << >> /\ room \in Nat

Intact(f) == {f - 1, f} \cap damaged = {}

Send(m) ==
  /\ accepted' = Append(accepted, m)
  /\ UNCHANGED <<damaged, received, room>>

(* Only the frame on its way can be damaged, and only before it is received. *)
Damage ==
  LET f == Len(accepted) IN
  /\ \A k \in DOMAIN received : received[k].f < f
  /\ damaged' = damaged \cup {f}
  /\ UNCHANGED <<accepted, received, room>>

Due == {f \in DOMAIN accepted :
          /\ Len(accepted[f]) <= room /\ Intact(f)
          /\ \A k \in DOMAIN received : received[k].f < f}

Receive ==
  \E f \in Due :
    /\ \A g \in Due : f <= g
    /\ received' = Append(received, [m |-> accepted[f], f |-> f])
    /\ UNCHANGED <<accepted, damaged, room>>

(* What comes out of a damaged frame, or of one behind it, is anything.    *)
Garble ==
  LET k == Len(received) + 1
      r == received'[k]
  IN  /\ Len(received') = k /\ received' = Append(received, r)
      /\ r.f \in DOMAIN accepted /\ ~ Intact(r.f)
      /\ \A j \in DOMAIN received : received[j].f <= r.f
      /\ \A f \in Due : r.f < f
      /\ UNCHANGED <<accepted, damaged, room>>

Next == (\E m \in Message : Send(m)) \/ Damage \/ Receive \/ Garble

Safe == Init /\ [][Next]_vars
Spec == Safe /\ WF_vars(Receive)
=============================================================================
