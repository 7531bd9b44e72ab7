---------------------------- MODULE CDeviceFrame ----------------------------
(***************************************************************************)
(* The class template CDeviceFrame of common/cdeviceframe.h: frames sent   *)
(* and received by the interrupt handlers putonReady and getonReceive,     *)
(* while the main program calls send and recv.  A handler runs to its end; *)
(* the main program is interrupted between its accesses to the memory it   *)
(* shares with them.  The two states of the machine CFrame are bit fields  *)
(* of one byte, so that storing one of them reads and rewrites the other.  *)
(*                                                                         *)
(* External: the base device, which calls a handler while its interrupt is *)
(* enabled and its register ready, and the peer, whose frames arrive.      *)
(***************************************************************************)
EXTENDS CFrame, SequencesExt

CONSTANTS
  Message,      \* what the program sends: sequences of characters
  payload,      \* the template parameter PL: bytes of a message object
  FLT,          \* how many values the template parameter FLT has
  Uses          \* how the programs considered use the class, see Use

(* SendBack: the program sends from its onReady callback, else from main.   *)
(* RecvBack: it calls recv from its onReceive callback, else from main.     *)
(* Locked: main holds a GlobalInterruptLock during its calls.  Size: of the *)
(* buffer the program gives recv.  Two bounds: MaxSend, how many messages   *)
(* it sends, and Peers, the sequences of messages that the peer may send    *)
(* it, none longer than the message object.                                 *)
IsUse(u) ==
  /\ {u.SendBack, u.RecvBack, u.Locked} \subseteq BOOLEAN
  /\ u.MaxSend \in Nat /\ u.Size \in Nat
  /\ u.Peers \subseteq Seq(Seq(Char))
  /\ \A ms \in u.Peers : \A k \in DOMAIN ms : Len(ms[k]) <= payload

ASSUME SizeAssumption ==
  payload \in Nat \ {0} /\ FLT \in Nat /\ payload < FLT
(* Neither send nor getonReceive has room for a longer message, and no     *)
(* check that works: see recvPosition.                                     *)
ASSUME MessageAssumption ==
  Message \subseteq Seq(Char) /\ \A m \in Message : Len(m) <= payload
ASSUME UsesAssumption == \A u \in Uses : IsUse(u)

None == "none"      \* no character: an unwritten or a foreign byte, an
                    \* empty register
ASSUME NoneAssumption == None \notin Char

NoItem == [c |-> None, f |-> 0]

VARIABLES
  tx, rx,               \* the byte cframe.state
  sendMob,              \* position, size and payload of the message to send
  recvMob,              \* the data received: size and payload
  pc, data, state,      \* main: where it is, send's argument, the byte read
  readyIE, txReg, line, \* the transmitter of the base device and its output
  use,                  \* how the program uses the class
  rxReg, peer, coming,  \* the receiver; the peer's messages; what has yet to arrive
  frame,                \* which of the peer's frames rx = "fine" stands for
  accepted, received    \* the messages send has returned the size of, and
                        \* those recv has returned, with their frame

cframe == <<tx, rx>>
main   == <<pc, data, state>>
sender == <<sendMob, readyIE, txReg, line>>
recver == <<recvMob, rxReg, use, peer, coming, frame, received>>
vars   == <<cframe, main, sender, recver, accepted>>

-----------------------------------------------------------------------------
(* A frame on the line, and the frames of a sequence of messages.          *)
Encode(m) ==
  <<sofr>>
  \o FlattenSeq([k \in DOMAIN m |-> IF m[k] \in Stuffed THEN <<esc, Mod[m[k]]>>
                                                        ELSE <<m[k]>>])
  \o <<eofr>>

EncodeAll(ms) == FlattenSeq([k \in DOMAIN ms |-> Encode(ms[k])])

(* The line of a peer that sends ms; each character with the number of its *)
(* frame.                                                                  *)
PeerLine(ms) ==
  FlattenSeq([k \in DOMAIN ms |->
                [j \in DOMAIN Encode(ms[k]) |-> [c |-> Encode(ms[k])[j], f |-> k]]])

TypeOK ==
  /\ tx \in State /\ rx \in State
  /\ sendMob.size \in 0 .. payload /\ sendMob.position \in 0 .. payload
  /\ sendMob.position > sendMob.size => pc = "position"
  /\ recvMob \in Seq(Char)
  /\ pc \in {"idle", "send", "size", "position", "copy", "resetTx", "storeTx",
             "enable", "resetRx", "storeRx"}
  /\ readyIE \in BOOLEAN /\ txReg \in Char \cup {None} /\ line \in Seq(Char)
  /\ coming \in Seq([c : Char, f : Nat]) /\ use \in Uses
  /\ accepted \in Seq(Message)

Init ==
  /\ tx = "invalid" /\ rx = "invalid"
  /\ sendMob = [position |-> 0, size |-> 0,
                payload  |-> [k \in 1 .. payload |-> None]]
  /\ recvMob = << >>
  /\ pc = "idle" /\ data = << >> /\ state = <<"invalid", "invalid">>
  /\ readyIE = FALSE /\ txReg = None /\ line = << >>
  /\ use \in Uses /\ peer \in use.Peers
  /\ rxReg = NoItem /\ coming = PeerLine(peer) /\ frame = 0
  /\ accepted = << >> /\ received = << >>

-----------------------------------------------------------------------------
(* send, called by main.                                                   *)

Starts(m) ==
  /\ pc = "idle"
  /\ data' = m /\ pc' = "send"
  /\ UNCHANGED <<cframe, state, sender, recver, accepted>>

(* Main sends whenever it likes; or it calls enableonReady, which calls    *)
(* the callback, once the callback has had nothing to send.                *)
send(m) == ~ use.SendBack /\ Len(accepted) < use.MaxSend /\ Starts(m)

enableonReady(m) ==
  /\ use.SendBack /\ ~ readyIE /\ Len(accepted) < use.MaxSend
  /\ ~ sending(tx)
  /\ Starts(m)

sendSending ==
  /\ pc = "send"
  /\ pc' = IF sending(tx) THEN "idle" ELSE "size"
  /\ UNCHANGED <<cframe, data, state, sender, recver, accepted>>

sendSize ==
  /\ pc = "size"
  /\ sendMob' = [sendMob EXCEPT !.size = 0]
  /\ pc' = "position"
  /\ UNCHANGED <<cframe, data, state, readyIE, txReg, line, recver, accepted>>

(* Mutant: the position of the last message is kept.                       *)
sendPositionKept ==
  /\ pc = "position"
  /\ pc' = "copy"
  /\ UNCHANGED <<cframe, data, state, sender, recver, accepted>>

sendPosition ==
  /\ pc = "position"
  /\ sendMob' = [sendMob EXCEPT !.position = 0]
  /\ pc' = "copy"
  /\ UNCHANGED <<cframe, data, state, readyIE, txReg, line, recver, accepted>>

sendCopy ==
  /\ pc = "copy"
  /\ \/ /\ sendMob.size < Len(data)
        /\ sendMob' = [sendMob EXCEPT
             !.payload[sendMob.size + 1] = data[sendMob.size + 1], !.size = @ + 1]
        /\ UNCHANGED pc
     \/ /\ sendMob.size = Len(data)
        /\ pc' = "resetTx"
        /\ UNCHANGED sendMob
  /\ UNCHANGED <<cframe, data, state, readyIE, txReg, line, recver, accepted>>

(* resetTx and resetRx store a bit field: the byte is read and written.    *)
resetTx ==
  /\ pc = "resetTx"
  /\ state' = cframe
  /\ pc' = "storeTx"
  /\ UNCHANGED <<cframe, data, sender, recver, accepted>>

storeTx ==
  /\ pc = "storeTx"
  /\ tx' = "invalid" /\ rx' = state[2]
  /\ pc' = "enable"
  /\ UNCHANGED <<data, state, sender, recver, accepted>>

Accepts(m) == accepted' = IF m = << >> THEN accepted ELSE Append(accepted, m)

sendEnable ==
  /\ pc = "enable"
  /\ readyIE' = TRUE
  /\ Accepts(data)
  /\ pc' = "idle"
  /\ UNCHANGED <<cframe, data, state, sendMob, txReg, line, recver>>

-----------------------------------------------------------------------------
(* recv, called by main; the message cannot change while it is copied,     *)
(* because getonReceive ignores what arrives while rx is fine.             *)

(* Mutant: a message as long as the buffer does not fit.                   *)
fitsStrictly == Len(recvMob) < use.Size

fits == Len(recvMob) <= use.Size

recv ==
  /\ ~ use.RecvBack /\ pc = "idle"
  /\ finished(rx) /\ fits
  /\ received' = Append(received, [m |-> recvMob, f |-> frame])
  /\ pc' = "resetRx"
  /\ UNCHANGED <<cframe, data, state, sender, recvMob, rxReg, use,
                 peer, coming, frame, accepted>>

resetRx ==
  /\ pc = "resetRx"
  /\ state' = cframe
  /\ pc' = "storeRx"
  /\ UNCHANGED <<cframe, data, sender, recver, accepted>>

storeRx ==
  /\ pc = "storeRx"
  /\ rx' = "invalid" /\ tx' = state[1]
  /\ pc' = "idle"
  /\ UNCHANGED <<data, state, sender, recver, accepted>>

-----------------------------------------------------------------------------
Interrupted == use.Locked => pc = "idle"

(* The callback of putonReady, which may send its next message: the whole  *)
(* of send, uninterrupted.                                                 *)
sendInCallback ==
  \/ /\ use.SendBack /\ Len(accepted) < use.MaxSend
     /\ \E m \in Message :
          /\ sendMob' = [position |-> 0, size |-> Len(m),
                         payload  |-> m \o SubSeq(sendMob.payload, Len(m) + 1, payload)]
          /\ Accepts(m)
     /\ tx' = "invalid"
     /\ readyIE' = TRUE
  \/ /\ readyIE' = FALSE
     /\ UNCHANGED <<sendMob, tx, accepted>>

Byte(k) == IF k < payload THEN sendMob.payload[k + 1] ELSE None

(* Mutant: position counts characters on the line.                         *)
advanceAlways(t) == (sendMob.position + 1) % FLT

advance(t) == IF again(t) THEN sendMob.position ELSE (sendMob.position + 1) % FLT

putonReadyStarts == readyToStart(tx) /\ sendMob.position = 0 /\ sendMob.size > 0

putonReady ==
  /\ readyIE /\ txReg = None /\ Interrupted
  /\ \/ /\ putonReadyStarts
        /\ txReg' = sofr /\ tx' = startFrame(tx)
        /\ UNCHANGED <<sendMob, readyIE, accepted>>
     \/ /\ ~ putonReadyStarts /\ ~ sending(tx)
        /\ sendInCallback
        /\ UNCHANGED txReg
     \/ /\ sending(tx) /\ sendMob.position = sendMob.size
        /\ txReg' = eofr /\ tx' = endFrame(tx)
        /\ UNCHANGED <<sendMob, readyIE, accepted>>
     \/ /\ sending(tx) /\ sendMob.position # sendMob.size
        /\ LET out == transformOut(tx, Byte(sendMob.position)) IN
             /\ txReg' = out.c /\ tx' = out.tx
             /\ sendMob' = [sendMob EXCEPT !.position = advance(out.tx)]
        /\ UNCHANGED <<readyIE, accepted>>
  /\ UNCHANGED <<rx, main, line, recver>>

(* getonReceive asks recvMob.position, which only the constructor sets,    *)
(* whether the message object is full.  With a frame complete, and with    *)
(* every character after it until recv, it calls the callback.             *)
recvPosition == 0

(* Mutant: a frame that is broken off is not forgotten.                    *)
storedKept(in) == IF in.data THEN Append(recvMob, in.c) ELSE recvMob

stored(in) ==
  IF in.data THEN Append(recvMob, in.c)
  ELSE IF restarted(in.rx) THEN << >> ELSE recvMob

getonReceive ==
  LET in   == transformIn(IF recvPosition = payload THEN "invalid" ELSE rx, rxReg.c)
      f    == IF finished(rx) THEN frame ELSE rxReg.f
      take == finished(in.rx) /\ use.RecvBack /\ fits
  IN  /\ rxReg # NoItem /\ Interrupted
      /\ rxReg' = NoItem
      /\ recvMob' = stored(in)
      /\ rx' = IF take THEN "invalid" ELSE in.rx
      /\ frame' = IF finished(in.rx) THEN f ELSE frame
      /\ received' = IF take THEN Append(received, [m |-> recvMob, f |-> f]) ELSE received
      /\ UNCHANGED <<tx, main, sender, use, peer, coming, accepted>>

(* The base device (external).                                             *)
Transmit ==
  /\ txReg # None
  /\ line' = Append(line, txReg)
  /\ txReg' = None
  /\ UNCHANGED <<cframe, main, sendMob, readyIE, recver, accepted>>

Arrive ==
  /\ rxReg = NoItem /\ coming # << >>
  /\ rxReg' = Head(coming)
  /\ coming' = Tail(coming)
  /\ UNCHANGED <<cframe, main, sender, recvMob, use, peer, frame, accepted, received>>

-----------------------------------------------------------------------------
Main == \/ sendSending \/ sendSize \/ sendPosition \/ sendCopy \/ resetTx
        \/ storeTx \/ sendEnable \/ resetRx \/ storeRx

Next == \/ \E m \in Message : send(m) \/ enableonReady(m)
        \/ Main \/ recv
        \/ putonReady \/ getonReceive
        \/ Transmit \/ Arrive

(* A call that was begun is finished, pending interrupts are served when   *)
(* the lock is released, the device transmits, the peer sends its line and *)
(* a program that polls recv does so again and again, between its other    *)
(* calls.  Nobody has to send.                                             *)
Fairness == /\ WF_vars(Main) /\ SF_vars(recv)
            /\ SF_vars(putonReady) /\ SF_vars(getonReceive)
            /\ WF_vars(Transmit) /\ WF_vars(Arrive)

Spec == Init /\ [][Next]_vars /\ Fairness

-----------------------------------------------------------------------------
Output == line \o (IF txReg = None THEN << >> ELSE <<txReg>>)

Quiet == pc = "idle" /\ ~ readyIE

(* The programs that send when the transmitter is at rest: from the        *)
(* callback, or main its only message.  Another send of main may replace   *)
(* the message that waits, or change it while the handler begins it.       *)
OneByOne == use.SendBack \/ (use.Locked /\ use.MaxSend <= 1)

(* Where main rewrites the byte of the states, the handler of the other    *)
(* direction does not run, or finds nothing to do: recv keeps tx, and send *)
(* keeps rx.                                                               *)
Alone  == use.Locked \/ use.MaxSend = 0 \/ peer = << >>
TxKept == Alone \/ use.RecvBack
RxKept == Alone

(***************************************************************************)
(* The line carries the frames of the messages that send has accepted,     *)
(* and nothing else; when the transmitter comes to rest, all of them.      *)
(***************************************************************************)
LineIsFrames ==
  OneByOne /\ TxKept => /\ IsPrefix(Output, EncodeAll(accepted))
                        /\ Quiet => Output = EncodeAll(accepted)

(***************************************************************************)
(* Every message that send has accepted gets out, whole, behind those that *)
(* were accepted before it.                                                *)
(***************************************************************************)
AcceptedGetsOut ==
  \A n \in UNION {1 .. u.MaxSend : u \in Uses} :
    Len(accepted) >= n ~> /\ Len(accepted) >= n
                          /\ IsPrefix(EncodeAll(SubSeq(accepted, 1, n)), line)

(***************************************************************************)
(* What recv returns is a message of the peer, whole, and each at most     *)
(* once and in order, even though those that arrive while one waits to be  *)
(* read are missed.                                                        *)
(***************************************************************************)
ReceivedIsSent ==
  RxKept => \A k \in DOMAIN received :
              /\ received[k].m = peer[received[k].f]
              /\ k > 1 => received[k - 1].f < received[k].f

(***************************************************************************)
(* A receiver whose callback reads every message, with a buffer for the    *)
(* longest of them, misses none.                                           *)
(***************************************************************************)
AllReceived ==
  use.RecvBack /\ (\A k \in DOMAIN peer : Len(peer[k]) <= use.Size)
    ~> Len(received) = Len(peer)

(***************************************************************************)
(* A program that polls, or reads in its callback, frees the receiver      *)
(* again and again; or, from some moment on, the receiver keeps for ever a *)
(* message larger than the program's buffer, which recv refuses each time  *)
(* (cdeviceframe.h:277), and misses all that follow.  Nothing else stops   *)
(* it.                                                                     *)
(***************************************************************************)
ReceiverIsFreed ==
  \/ []<>~ finished(rx)
  \/ <>[](finished(rx) /\ Len(recvMob) > use.Size)

(***************************************************************************)
(* "Reads the last message received" (cdeviceframe.h:268): recv reads      *)
(* messages that the peer has sent.                                        *)
(***************************************************************************)
ReadsAMessage ==
  \A k \in DOMAIN received : received[k].m = peer[received[k].f]
=============================================================================
