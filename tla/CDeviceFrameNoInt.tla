------------------------- MODULE CDeviceFrameNoInt --------------------------
(***************************************************************************)
(* The class template CDeviceFrameNoInt of common/cdeviceframe.h: two      *)
(* programs, one of which sends messages in frames over its UART (arm/     *)
(* uart.h) and the other of which receives them, both polling.  A step is  *)
(* one character put or got.                                               *)
(*                                                                         *)
(* The wire between them is external: a queue of characters that may lose  *)
(* some and, if the configuration uses flow control, may carry characters  *)
(* of it in between.  Every character carries the number of its frame, so  *)
(* that the properties can tell which frames the wire has damaged; neither *)
(* program looks at it.                                                    *)
(***************************************************************************)
EXTENDS CFrame, SequencesExt

CONSTANT Links      \* the pairs of programs considered, see IsLink

(* Message: what the sender sends.  size: what the receiver gives recv.     *)
(* Two bounds: MaxSend, how many messages are sent, and MaxFault, how many  *)
(* characters the wire loses or inserts.                                    *)
IsLink(l) ==
  /\ l.Message \subseteq Seq(Char)
  /\ {l.size, l.MaxSend, l.MaxFault} \subseteq Nat

ASSUME LinksAssumption == \A l \in Links : IsLink(l)

Item == [c : Char, f : Nat]
Empty == [c |-> sofr, f |-> 0]     \* no character in the transmit register

VARIABLES
  link,               \* which of the links
  pc, i, tx,          \* send: where it is, its index, its state machine
  thr,                \* the transmit register of the UART
  wire, faults, damaged,
  rx, buffer,         \* recv: its state machine, the data so far
  accepted,           \* the messages that send was called with
  received            \* what recv returned, with the frame that ended it

snd  == <<pc, i, tx, accepted>>
net  == <<wire, faults, damaged, link>>
rcv  == <<rx, buffer, received>>
vars == <<snd, thr, net, rcv>>

TypeOK ==
  /\ pc \in {"idle", "data", "end"} /\ i \in Nat /\ tx \in State
  /\ thr \in Item \cup {Empty}
  /\ wire \in Seq(Item) /\ link \in Links
  /\ faults \in 0 .. link.MaxFault /\ damaged \subseteq 1 .. link.MaxSend
  /\ rx \in State \ {"fine"} /\ buffer \in Seq(Char) /\ Len(buffer) <= link.size
  /\ accepted \in Seq(link.Message)
  /\ received \in Seq([m : Seq(Char), f : 1 .. link.MaxSend])

Init ==
  /\ pc = "idle" /\ i = 0 /\ tx = "invalid"
  /\ thr = Empty
  /\ wire = << >> /\ faults = 0 /\ damaged = {} /\ link \in Links
  /\ rx = "invalid" /\ buffer = << >>
  /\ accepted = << >> /\ received = << >>

-----------------------------------------------------------------------------
(* Uart0 under SecOut (coutdevice.h), whose put waits for the UART to be   *)
(* ready: the start mark is put without another test of ready.             *)
ready == thr = Empty

put(c, f) ==
  /\ ready
  /\ thr' = [c |-> c, f |-> f]

(* send: an empty message is not sent.                                     *)
send(m) ==
  /\ pc = "idle" /\ Len(accepted) < link.MaxSend
  /\ \/ m = << >> /\ UNCHANGED <<snd, thr>>
     \/ /\ m # << >>
        /\ accepted' = Append(accepted, m)
        /\ tx' = startFrame("invalid")
        /\ put(sofr, Len(accepted'))
        /\ i' = 1
        /\ pc' = "data"
  /\ UNCHANGED <<net, rcv>>

nextIndex(t) == IF again(t) THEN i ELSE i + 1

sendChar ==
  LET out == transformOut(tx, Last(accepted)[i]) IN
  /\ pc = "data"
  /\ put(out.c, Len(accepted))
  /\ tx' = out.tx
  /\ i' = nextIndex(out.tx)
  /\ pc' = IF i' > Len(Last(accepted)) THEN "end" ELSE "data"
  /\ UNCHANGED <<accepted, net, rcv>>

sendEnd ==
  /\ pc = "end"
  /\ put(eofr, Len(accepted))
  /\ tx' = endFrame(tx)
  /\ pc' = "idle"
  /\ UNCHANGED <<i, accepted, net, rcv>>

-----------------------------------------------------------------------------
(* The UART shifts the character out; the wire may lose it, or insert one  *)
(* of flow control behind it.  Damage is what the receiver cannot repair:  *)
(* a loss, or an insertion between an escape and its character.            *)

Shift ==
  /\ ~ ready
  /\ thr' = Empty
  /\ wire' = Append(wire, thr)
  /\ UNCHANGED <<snd, faults, damaged, link, rcv>>

Lose ==
  /\ ~ ready /\ faults < link.MaxFault
  /\ thr' = Empty
  /\ faults' = faults + 1
  /\ damaged' = damaged \cup {thr.f}
  /\ UNCHANGED <<snd, wire, link, rcv>>

Insert(c) ==
  /\ wire # << >> /\ faults < link.MaxFault
  /\ wire' = Append(wire, [c |-> c, f |-> Last(wire).f])
  /\ faults' = faults + 1
  /\ damaged' = IF Last(wire).c = esc THEN damaged \cup {Last(wire).f} ELSE damaged
  /\ UNCHANGED <<snd, thr, link, rcv>>

bufferFull == Len(buffer) = link.size

(* recv, one character at a time.  A frame longer than size is forgotten;  *)
(* recv returns with a frame, and is called again with a new machine.      *)
recv ==
  LET in == transformIn(rx, Head(wire).c) IN
  /\ wire # << >>
  /\ wire' = Tail(wire)
  /\ \/ /\ in.data /\ bufferFull
        /\ rx' = "invalid" /\ buffer' = << >>
        /\ UNCHANGED received
     \/ /\ in.data /\ ~ bufferFull
        /\ rx' = in.rx /\ buffer' = Append(buffer, in.c)
        /\ UNCHANGED received
     \/ /\ ~ in.data /\ restarted(in.rx)
        /\ rx' = in.rx /\ buffer' = << >>
        /\ UNCHANGED received
     \/ /\ ~ in.data /\ finished(in.rx)
        /\ rx' = "invalid" /\ buffer' = << >>
        /\ received' = Append(received, [m |-> buffer, f |-> Head(wire).f])
     \/ /\ ~ in.data /\ ~ restarted(in.rx) /\ ~ finished(in.rx)
        /\ rx' = in.rx
        /\ UNCHANGED <<buffer, received>>
  /\ UNCHANGED <<snd, thr, faults, damaged, link>>

-----------------------------------------------------------------------------
Next ==
  \/ \E m \in link.Message : send(m)
  \/ sendChar \/ sendEnd
  \/ Shift \/ Lose \/ (\E c \in Flow : Insert(c))
  \/ recv

(* A send that was begun goes on as soon as the UART is ready, the UART    *)
(* sends, and the receiver polls.                                          *)
Fairness == WF_vars(sendChar) /\ WF_vars(sendEnd) /\ WF_vars(Shift) /\ WF_vars(recv)

Spec == Init /\ [][Next]_vars /\ Fairness

-----------------------------------------------------------------------------
(***************************************************************************)
(* Over a wire without faults the layer is a message channel: all messages *)
(* that fit the receiver's buffer come out, whole and in order, and those  *)
(* that do not are dropped without a trace.  Whatever the wire loses or    *)
(* inserts, one undamaged frame is enough to bring the receiver            *)
(* (cdeviceframe.h:92-127) back into step, and an undamaged frame behind   *)
(* an undamaged one is never received as something else.                   *)
(***************************************************************************)
Channel == INSTANCE FrameChannel
             WITH Message <- UNION {l.Message : l \in Links}, room <- link.size

ImplementsChannel == Channel!Spec
=============================================================================
