---------------------- MODULE CDeviceFrameNoIntProofs -----------------------
(***************************************************************************)
(* The polling frame layer implements the message channel of FrameChannel, *)
(* for every character set, every configuration of CFrame, all messages    *)
(* and whatever the wire loses or inserts.                                 *)
(***************************************************************************)
EXTENDS CDeviceFrameNoInt, SequenceTheorems, TLAPS

(***************************************************************************)
(* How far a frame has come: its number, the index of the next character   *)
(* of its message, and the state of the machine that sends it.  Before the *)
(* first frame nothing is open.                                            *)
(***************************************************************************)
Position == {p \in [f : Nat, i : Nat, t : State] : p.f = 0 => p.t = "fine"}

Sent == [f |-> Len(accepted), i |-> i, t |-> IF pc = "idle" THEN "fine" ELSE tx]

(* The character x takes its frame from p to q: as the first one, one of   *)
(* the message, the last one, or one of flow control that is ignored.      *)
Opens(p, x, q) ==
  p.f < x.f /\ x.c = sofr /\ q = [f |-> x.f, i |-> 1, t |-> "started"]
Carries(p, x, q) ==
  LET m == accepted[x.f]  out == transformOut(p.t, m[p.i]) IN
  /\ p.f = x.f /\ p.t \in {"started", "regular", "stuff"} /\ p.i \in 1 .. Len(m)
  /\ p.t = "stuff" => m[p.i] \in Stuffed
  /\ x.c = out.c
  /\ q = [f |-> x.f, i |-> IF again(out.tx) THEN p.i ELSE p.i + 1, t |-> out.tx]
Closes(p, x, q) ==
  /\ p.f = x.f /\ p.t = "regular" /\ p.i = Len(accepted[x.f]) + 1
  /\ x.c = eofr /\ q = [f |-> x.f, i |-> p.i, t |-> "fine"]
Puts(p, x, q)  == Opens(p, x, q) \/ Carries(p, x, q) \/ Closes(p, x, q)
Skips(p, x, q) == p.f = x.f /\ x.c \in Flow /\ p.t # "stuff" /\ q = p

(* Between two characters on the wire nothing of an undamaged frame is     *)
(* missing; the characters of an undamaged frame are its encoding.         *)
Follows(p, f) ==
  /\ p.f <= f /\ \A h \in p.f + 1 .. f - 1 : h \in damaged
  /\ p.f < f /\ p.f \notin damaged => p.t = "fine"
Link(p, x, q) ==
  /\ q.f = x.f /\ Follows(p, x.f)
  /\ x.f \notin damaged => Puts(p, x, q) \/ Skips(p, x, q)
Monotone(p, q) ==
  p.f <= q.f /\ (p.f = q.f /\ p.f \notin damaged /\ p.t = "fine" => q.t = "fine")

-----------------------------------------------------------------------------
(* The sender is inside of its message; everything has a sent frame.       *)
SendInv ==
  /\ pc = "data" => /\ tx \in {"started", "regular", "stuff"} /\ accepted # << >>
                    /\ i \in 1 .. Len(Last(accepted))
                    /\ tx = "stuff" => Last(accepted)[i] \in Stuffed
  /\ pc = "end" => tx = "regular" /\ accepted # << >> /\ i = Len(Last(accepted)) + 1
  /\ thr # Empty => thr.f = Len(accepted) /\ accepted # << >>
  /\ Len(accepted) <= link.MaxSend
  /\ \A k \in 1 .. Len(wire) : wire[k].f \in 1 .. Len(accepted)
  /\ \A k \in 1 .. Len(received) : received[k].f \in 1 .. Len(accepted)
  /\ damaged \subseteq 1 .. Len(accepted)

(* g[k] is the position of the frames behind the first k characters on the *)
(* wire; g[0] is how far the receiver is.                                  *)
Trace == [0 .. Len(wire) -> Position]
WireInv(g) ==
  /\ \A k \in 1 .. Len(wire) : Link(g[k - 1], wire[k], g[k])
  /\ \A j, k \in 0 .. Len(wire) : j <= k => Monotone(g[j], g[k])

(* The character in the transmit register, if there is one, leads from     *)
(* behind the wire, at p, to what has been sent.                           *)
ThrInv(p) ==
  LET n == Len(accepted) IN
  /\ thr # Empty => Link(p, thr, Sent) /\ (n \notin damaged => Puts(p, thr, Sent))
  /\ thr = Empty => /\ p.f <= n
                    /\ \A h \in p.f + 1 .. n : h \in damaged
                    /\ p.f \notin damaged => p.t = "fine" \/ p.f = n
                    /\ n \notin damaged => p = Sent

(* Inside of an undamaged frame the receiver is in the state of the sender *)
(* or ignores the rest; if the one before is undamaged too, it holds what  *)
(* has come of the message, or has dropped one that is too long.           *)
Intact(f) == {f - 1, f} \cap damaged = {}
Fits(f) == Len(accepted[f]) <= link.size
InPhase(p) ==
  rx # "invalid" => p.t # "fine" /\ (p.t = "stuff" <=> rx = "stuff")
Holds(p) ==
  \/ rx = "invalid" /\ ~ Fits(p.f)
  \/ /\ rx # "invalid" /\ Len(buffer) = p.i - 1
     /\ \A k \in 1 .. Len(buffer) : buffer[k] = accepted[p.f][k]
RecvInv(p) ==
  /\ \A k \in 1 .. Len(received) :
       /\ received[k].f <= p.f
       /\ p.f \notin damaged /\ p.t # "fine" => received[k].f < p.f
  /\ p.f \notin damaged => InPhase(p)
  /\ Intact(p.f) /\ p.t # "fine" => Holds(p)
  /\ \A h \in 1 .. Len(accepted) :
       (h < p.f \/ (h = p.f /\ p.t = "fine")) /\ Intact(h) /\ Fits(h)
         => \E k \in 1 .. Len(received) : received[k].f >= h

Inv(g) == g \in Trace /\ WireInv(g) /\ ThrInv(g[Len(wire)]) /\ RecvInv(g[0])

IInv == TypeOK /\ SendInv /\ \E g : Inv(g)

-----------------------------------------------------------------------------
(* What the functions of the machine return (cframe.new.h:155-181).        *)
LEMMA Out ==
  ASSUME NEW t \in {"started", "regular", "stuff"}, NEW c \in Char,
         NEW out, out = transformOut(t, c)
  PROVE  /\ out.c \in Char /\ out.tx \in {"regular", "stuff"}
         /\ t # "stuff" /\ c \in Stuffed => out.c = esc /\ out.tx = "stuff"
         /\ t # "stuff" /\ c \notin Stuffed => out.c = c /\ out.tx = "regular"
         /\ t = "stuff" => out.c = Mod[c] /\ out.tx = "regular"
BY CharAssumption, ModAssumption DEF transformOut, Stuffed

(* cframe.new.h:212-266.                                                   *)
LEMMA In ==
  ASSUME NEW r \in State \ {"fine"}, NEW c \in Char, NEW in, in = transformIn(r, c)
  PROVE  /\ in.rx \in State /\ in.c \in Char /\ in.data \in BOOLEAN
         /\ in.data => in.rx = "regular"
         /\ r = "invalid" =>
              in.rx = (IF c = sofr THEN "started" ELSE "invalid") /\ ~ in.data
         /\ r = "stuff" => in.rx = "regular" /\ in.data /\ in.c = Mod[c]
         /\ r \in {"started", "regular"} =>
              /\ c = sofr => in.rx = "started" /\ ~ in.data
              /\ c = eofr => in.rx = "fine" /\ ~ in.data
              /\ c = esc => in.rx = "stuff" /\ ~ in.data
              /\ c \in Flow => in.rx = "regular" /\ ~ in.data
              /\ c \notin Stuffed => in.rx = "regular" /\ in.data /\ in.c = c
BY CharAssumption, ModAssumption DEF transformIn, Stuffed, State

LEMMA Chars ==
  /\ sofr \in Stuffed /\ eofr \in Stuffed /\ esc \in Stuffed /\ Flow \subseteq Stuffed
  /\ Stuffed \subseteq Char
  /\ sofr # eofr /\ sofr # esc /\ eofr # esc
  /\ sofr \notin Flow /\ eofr \notin Flow /\ esc \notin Flow
  /\ \A c \in Char : Mod[c] \in Char /\ Mod[Mod[c]] = c
  /\ \A c \in Stuffed : Mod[c] # sofr
BY CharAssumption, ModAssumption DEF Stuffed

-----------------------------------------------------------------------------
LEMMA Typed ==
  ASSUME TypeOK
  PROVE  /\ link.Message \subseteq Seq(Char) /\ link.size \in Nat /\ link.MaxSend \in Nat
         /\ link.MaxFault \in Nat
         /\ accepted \in Seq(Seq(Char)) /\ Len(accepted) \in Nat
         /\ \A k \in 1 .. Len(accepted) :
              accepted[k] \in link.Message /\ accepted[k] \in Seq(Char) /\ Len(accepted[k]) \in Nat
         /\ accepted # << >> => /\ Len(accepted) \in 1 .. Len(accepted)
                                /\ Last(accepted) = accepted[Len(accepted)]
         /\ thr \in Item /\ Len(wire) \in Nat
         /\ \A k \in 1 .. Len(wire) : wire[k] \in Item
<1>1. /\ link.Message \subseteq Seq(Char) /\ link.size \in Nat /\ link.MaxSend \in Nat
      /\ link.MaxFault \in Nat
  BY LinksAssumption DEF TypeOK, IsLink
<1>2. accepted \in Seq(link.Message) /\ wire \in Seq(Item)
  BY DEF TypeOK
<1>3. accepted \in Seq(Seq(Char))
  BY <1>1, <1>2, SeqMonotonic
<1>4. \A k \in 1 .. Len(accepted) : accepted[k] \in link.Message
  BY <1>2, ElementOfSeq
<1>5. /\ Len(accepted) \in Nat /\ Len(wire) \in Nat
      /\ accepted # << >> => Len(accepted) # 0
  BY <1>2
<1>6. \A k \in 1 .. Len(wire) : wire[k] \in Item
  BY <1>2, ElementOfSeq
<1>7. thr \in Item
  BY Chars DEF TypeOK, Item, Empty
<1>8. Last(accepted) = accepted[Len(accepted)]
  BY DEF Last
<1>9. \A k \in 1 .. Len(accepted) : accepted[k] \in Seq(Char) /\ Len(accepted[k]) \in Nat
  BY <1>1, <1>4, LenProperties
<1> QED BY <1>1, <1>3, <1>4, <1>5, <1>6, <1>7, <1>8, <1>9

(* A sequence that grows by one element.                                   *)
LEMMA Grown ==
  ASSUME NEW S, NEW s \in Seq(S), NEW e \in S
  PROVE  /\ Append(s, e) \in Seq(S) /\ Len(Append(s, e)) = Len(s) + 1 /\ Len(s) \in Nat
         /\ Append(s, e) # << >> /\ Append(s, e)[Len(s) + 1] = e
         /\ \A k \in 1 .. Len(s) : Append(s, e)[k] = s[k]
         /\ Last(Append(s, e)) = e
<1>1. /\ Append(s, e) \in Seq(S) /\ Len(Append(s, e)) = Len(s) + 1 /\ Len(s) \in Nat
      /\ Append(s, e)[Len(s) + 1] = e
      /\ \A k \in 1 .. Len(s) : Append(s, e)[k] = s[k]
  OBVIOUS
<1>2. Append(s, e) # << >>
  BY <1>1
<1> QED BY <1>1, <1>2 DEF Last

Base == TypeOK /\ SendInv

LEMMA SendBase ==
  ASSUME Base, NEW m \in link.Message, send(m) PROVE Base'
<1>1. CASE m = << >> /\ UNCHANGED <<snd, thr>>
  BY <1>1 DEF Base, TypeOK, SendInv, send, snd, net, rcv
<1>2. CASE m # << >>
  <2>1. /\ accepted' = Append(accepted, m) /\ tx' = "started" /\ i' = 1 /\ pc' = "data"
        /\ thr' = [c |-> sofr, f |-> Len(accepted')]
        /\ Len(accepted) < link.MaxSend
        /\ UNCHANGED <<wire, faults, damaged, link, rx, buffer, received>>
    BY <1>2 DEF send, put, startFrame, net, rcv, snd
  <2>2. /\ accepted' \in Seq(link.Message) /\ Len(accepted') = Len(accepted) + 1
        /\ Len(accepted) \in Nat /\ accepted' # << >> /\ Last(accepted') = m
    BY <2>1, Grown DEF Base, TypeOK
  <2>3. Len(m) \in Nat /\ Len(m) # 0
    BY <1>2, Typed, LenProperties, EmptySeq DEF Base
  <2>4. thr' \in Item
    BY <2>1, <2>2, Chars DEF Item
  <2>5. TypeOK'
    BY <2>1, <2>2, <2>4 DEF Base, TypeOK, State
  <2>6. SendInv'
    BY <2>1, <2>2, <2>3, Typed DEF Base, SendInv
  <2> QED BY <2>5, <2>6 DEF Base
<1> QED BY <1>1, <1>2 DEF send

LEMMA SendCharBase ==
  ASSUME Base, sendChar PROVE Base'
<1> DEFINE c == Last(accepted)[i]
           out == transformOut(tx, c)
<1>1. /\ tx \in {"started", "regular", "stuff"} /\ accepted # << >>
      /\ i \in 1 .. Len(Last(accepted)) /\ (tx = "stuff" => c \in Stuffed)
  BY DEF sendChar, Base, SendInv
<1>2. c \in Char
  BY <1>1, Typed, ElementOfSeq DEF Base
<1>3. /\ out.c \in Char /\ out.tx \in {"regular", "stuff"}
      /\ out.tx = "stuff" => c \in Stuffed
  BY <1>1, <1>2, Out
<1>4. /\ thr' = [c |-> out.c, f |-> Len(accepted)] /\ tx' = out.tx
      /\ i' = (IF again(out.tx) THEN i ELSE i + 1)
      /\ pc' = (IF i' > Len(Last(accepted)) THEN "end" ELSE "data")
      /\ UNCHANGED <<accepted, wire, faults, damaged, link, rx, buffer, received>>
  BY DEF sendChar, put, nextIndex, net, rcv
<1>5. again(out.tx) <=> out.tx = "stuff"
  BY <1>3 DEF again
<1>6. Len(accepted) \in Nat /\ Len(Last(accepted)) \in Nat /\ i \in Nat
  BY <1>1, Typed DEF Base
<1> HIDE DEF c, out
<1>7. thr' \in Item
  BY <1>3, <1>4, <1>6 DEF Item
<1>8. TypeOK'
  BY <1>3, <1>4, <1>6, <1>7 DEF Base, TypeOK, State
<1>9. SendInv'
  BY <1>1, <1>3, <1>4, <1>5, <1>6 DEF Base, SendInv, c
<1> QED BY <1>8, <1>9 DEF Base

LEMMA SendEndBase ==
  ASSUME Base, sendEnd PROVE Base'
<1>1. /\ thr' = [c |-> eofr, f |-> Len(accepted)] /\ tx' = "fine" /\ pc' = "idle"
      /\ accepted # << >>
      /\ UNCHANGED <<i, accepted, wire, faults, damaged, link, rx, buffer, received>>
  BY DEF sendEnd, put, endFrame, net, rcv, Base, SendInv
<1>2. thr' \in Item
  BY <1>1, Typed, Chars DEF Item, Base
<1> QED BY <1>1, <1>2 DEF Base, TypeOK, SendInv, State

LEMMA ShiftBase ==
  ASSUME Base, Shift PROVE Base'
<1>1. thr \in Item /\ thr # Empty /\ wire \in Seq(Item)
  BY Typed DEF Base, Shift, ready, TypeOK
<1>2. /\ wire' = Append(wire, thr) /\ thr' = Empty
      /\ UNCHANGED <<pc, i, tx, accepted, faults, damaged, link, rx, buffer, received>>
  BY DEF Shift, snd, rcv
<1>3. /\ wire' \in Seq(Item) /\ Len(wire') = Len(wire) + 1 /\ Len(wire) \in Nat
      /\ wire'[Len(wire) + 1] = thr /\ \A k \in 1 .. Len(wire) : wire'[k] = wire[k]
  BY <1>1, <1>2, Grown
<1>4. thr.f \in 1 .. Len(accepted)
  BY <1>1, Typed DEF Base, SendInv
<1>5. \A k \in 1 .. Len(wire') : wire'[k].f \in 1 .. Len(accepted)
  BY <1>3, <1>4 DEF Base, SendInv
<1> QED BY <1>2, <1>3, <1>5 DEF Base, TypeOK, SendInv

LEMMA LoseBase ==
  ASSUME Base, Lose PROVE Base'
<1>1. /\ thr' = Empty /\ faults' = faults + 1 /\ faults < link.MaxFault
      /\ damaged' = damaged \cup {thr.f} /\ thr # Empty
      /\ UNCHANGED <<pc, i, tx, accepted, wire, link, rx, buffer, received>>
  BY DEF Lose, ready, snd, rcv
<1>2. /\ thr.f \in 1 .. Len(accepted) /\ Len(accepted) <= link.MaxSend
      /\ Len(accepted) \in Nat /\ link.MaxSend \in Nat /\ link.MaxFault \in Nat
  BY <1>1, Typed DEF Base, SendInv
<1>3. thr.f \in 1 .. link.MaxSend
  BY <1>2
<1>4. faults \in 0 .. link.MaxFault /\ damaged \subseteq 1 .. link.MaxSend
  BY DEF Base, TypeOK
<1>5. faults' \in 0 .. link.MaxFault
  BY <1>1, <1>2, <1>4
<1>6. damaged' \subseteq 1 .. link.MaxSend
  BY <1>1, <1>3, <1>4
<1> QED BY <1>1, <1>2, <1>5, <1>6 DEF Base, TypeOK, SendInv

LEMMA InsertBase ==
  ASSUME Base, NEW c \in Flow, Insert(c) PROVE Base'
<1> DEFINE x == wire[Len(wire)]
           y == [c |-> c, f |-> x.f]
<1>1. wire \in Seq(Item) /\ wire # << >> /\ Last(wire) = x
  BY DEF Base, TypeOK, Insert, Last
<1>2. Len(wire) \in Nat /\ Len(wire) > 0
  BY <1>1
<1>3. x \in Item /\ x.f \in 1 .. Len(accepted) /\ Len(accepted) \in Nat
  BY <1>2, Typed DEF Base, SendInv
<1>4. y \in Item /\ y.f = x.f
  BY <1>3, Chars DEF Item
<1>5. /\ wire' = Append(wire, y) /\ faults' = faults + 1 /\ faults < link.MaxFault
      /\ damaged' \in {damaged, damaged \cup {x.f}}
      /\ UNCHANGED <<thr, pc, i, tx, accepted, link, rx, buffer, received>>
  BY <1>1 DEF Insert, snd, rcv
<1> HIDE DEF x, y
<1>6. /\ wire' \in Seq(Item) /\ Len(wire') = Len(wire) + 1
      /\ wire'[Len(wire) + 1] = y /\ \A k \in 1 .. Len(wire) : wire'[k] = wire[k]
  BY <1>1, <1>4, <1>5, Grown
<1>7. \A k \in 1 .. Len(wire') : wire'[k].f \in 1 .. Len(accepted)
  BY <1>2, <1>3, <1>4, <1>6 DEF Base, SendInv
<1>8. /\ faults' \in 0 .. link.MaxFault /\ damaged' \subseteq 1 .. link.MaxSend
      /\ damaged' \subseteq 1 .. Len(accepted)
  BY <1>3, <1>5, Typed, SMTT(30) DEF Base, TypeOK, SendInv
<1> QED BY <1>5, <1>6, <1>7, <1>8 DEF Base, TypeOK, SendInv

(* What recv takes from the wire.                                          *)
LEMMA Taken ==
  ASSUME Base, wire # << >>
  PROVE  /\ Head(wire) = wire[1] /\ wire[1] \in Item /\ wire[1].f \in 1 .. Len(accepted)
         /\ Tail(wire) \in Seq(Item) /\ Len(Tail(wire)) = Len(wire) - 1 /\ Len(wire) \in Nat \ {0}
         /\ \A k \in 1 .. Len(Tail(wire)) : Tail(wire)[k] = wire[k + 1]
<1>1. wire \in Seq(Item)
  BY DEF Base, TypeOK
<1>2. Len(wire) \in Nat \ {0} /\ Head(wire) = wire[1]
  BY <1>1
<1>3. wire[1] \in Item /\ wire[1].f \in 1 .. Len(accepted)
  BY <1>1, <1>2, ElementOfSeq DEF Base, SendInv
<1> QED BY <1>1, <1>2, <1>3, HeadTailProperties

LEMMA RecvBase ==
  ASSUME Base, recv PROVE Base'
<1> DEFINE x == Head(wire)
           in == transformIn(rx, x.c)
<1>1. /\ wire' = Tail(wire) /\ wire # << >>
      /\ UNCHANGED <<thr, pc, i, tx, accepted, faults, damaged, link>>
  BY DEF recv, snd
<1>2. x \in Item /\ x.f \in 1 .. Len(accepted) /\ x.c \in Char
  BY <1>1, Taken DEF Item
<1>3. rx \in State \ {"fine"}
  BY DEF Base, TypeOK
<1>4. in.rx \in State /\ in.c \in Char /\ (in.data => in.rx = "regular")
  BY <1>2, <1>3, In
<1>5. wire' \in Seq(Item) /\ \A k \in 1 .. Len(wire') : wire'[k].f \in 1 .. Len(accepted)
  BY <1>1, Taken DEF Base, SendInv
<1>6. buffer \in Seq(Char) /\ Len(buffer) \in Nat /\ Len(buffer) <= link.size /\ link.size \in Nat
  BY Typed DEF Base, TypeOK
<1>7. Append(buffer, in.c) \in Seq(Char) /\ Len(Append(buffer, in.c)) = Len(buffer) + 1
  BY <1>4, <1>6, Grown
<1>8. << >> \in Seq(Char) /\ Len(<< >>) = 0
  BY EmptySeq
<1>9. /\ rx' \in State \ {"fine"} /\ buffer' \in Seq(Char) /\ Len(buffer') <= link.size
  <2>1. CASE in.data /\ bufferFull /\ rx' = "invalid" /\ buffer' = << >>
    BY <2>1, <1>6, <1>8 DEF State
  <2>2. CASE in.data /\ ~ bufferFull /\ rx' = in.rx /\ buffer' = Append(buffer, in.c)
    BY <2>2, <1>4, <1>6, <1>7 DEF State, bufferFull
  <2>3. CASE restarted(in.rx) /\ rx' = in.rx /\ buffer' = << >>
    BY <2>3, <1>4, <1>6, <1>8 DEF State, restarted
  <2>4. CASE finished(in.rx) /\ rx' = "invalid" /\ buffer' = << >>
    BY <2>4, <1>6, <1>8 DEF State
  <2>5. CASE ~ finished(in.rx) /\ rx' = in.rx /\ buffer' = buffer
    BY <2>5, <1>4, <1>6 DEF State, finished
  <2> HIDE DEF in
  <2> QED BY <2>1, <2>2, <2>3, <2>4, <2>5 DEF recv, in
<1>10. /\ received' \in Seq([m : Seq(Char), f : 1 .. link.MaxSend])
       /\ \A k \in 1 .. Len(received') : received'[k].f \in 1 .. Len(accepted)
  <2> DEFINE r == [m |-> buffer, f |-> x.f]
             R == [m : Seq(Char), f : 1 .. link.MaxSend]
  <2>1. received' = received \/ received' = Append(received, r)
    BY DEF recv
  <2>2. received \in Seq(R) /\ \A k \in 1 .. Len(received) : received[k].f \in 1 .. Len(accepted)
    BY DEF Base, TypeOK, SendInv
  <2>3. r \in R /\ r.f = x.f
    BY <1>2, <1>6, Typed DEF Base, SendInv
  <2> HIDE DEF r, R
  <2>4. /\ Append(received, r) \in Seq(R) /\ Len(Append(received, r)) = Len(received) + 1
        /\ Len(received) \in Nat /\ Append(received, r)[Len(received) + 1] = r
        /\ \A k \in 1 .. Len(received) : Append(received, r)[k] = received[k]
    BY <2>2, <2>3, Grown
  <2>5. \A k \in 1 .. Len(received) + 1 : Append(received, r)[k].f \in 1 .. Len(accepted)
    <3> TAKE k \in 1 .. Len(received) + 1
    <3>1. CASE k = Len(received) + 1
      BY <3>1, <1>2, <2>3, <2>4
    <3>2. CASE k # Len(received) + 1
      BY <3>2, <2>2, <2>4
    <3> QED BY <3>1, <3>2
  <2> QED BY <2>1, <2>2, <2>4, <2>5 DEF R
<1> QED BY <1>1, <1>5, <1>9, <1>10 DEF Base, TypeOK, SendInv

LEMMA BaseStep ==
  ASSUME Base, [Next]_vars PROVE Base'
<1>1. CASE UNCHANGED vars
  BY <1>1 DEF Base, TypeOK, SendInv, vars, snd, net, rcv
<1> QED BY <1>1, SendBase, SendCharBase, SendEndBase, ShiftBase, LoseBase, InsertBase,
           RecvBase DEF Next

LEMMA InitBase == Init => Base
<1> SUFFICES ASSUME Init PROVE Base
  OBVIOUS
<1>1. link \in Links /\ link.MaxFault \in Nat /\ link.size \in Nat /\ link.MaxSend \in Nat
  BY LinksAssumption DEF Init, IsLink
<1>2. Len(<< >>) = 0 /\ \A S : << >> \in Seq(S)
  BY EmptySeq
<1> QED BY <1>1, <1>2 DEF Init, Base, TypeOK, SendInv, State, Empty

-----------------------------------------------------------------------------
(* Further messages and further damage change nothing of what is known of  *)
(* the characters on the wire and of the receiver.                         *)
Goes ==
  /\ \A k \in 1 .. Len(accepted) : accepted'[k] = accepted[k]
  /\ Len(accepted) <= Len(accepted)' /\ damaged \subseteq damaged'

LEMMA LinkStable ==
  ASSUME Goes, NEW p, NEW x, NEW q, x.f \in 1 .. Len(accepted)
  PROVE  /\ Link(p, x, q) => Link(p, x, q)'
         /\ Puts(p, x, q) => Puts(p, x, q)'
<1>1. accepted'[x.f] = accepted[x.f]
  BY DEF Goes
<1>2. Puts(p, x, q) => Puts(p, x, q)'
  BY <1>1 DEF Puts, Opens, Carries, Closes
<1>3. Skips(p, x, q) <=> Skips(p, x, q)'
  BY DEF Skips
<1>4. Follows(p, x.f) => Follows(p, x.f)'
  BY DEF Goes, Follows
<1> QED BY <1>2, <1>3, <1>4 DEF Link, Goes

LEMMA MonotoneStable ==
  ASSUME Goes, NEW p, NEW q, Monotone(p, q) PROVE Monotone(p, q)'
BY DEF Goes, Monotone

LEMMA LinkMonotone ==
  ASSUME NEW p \in Position, NEW x, NEW q, Link(p, x, q) PROVE Monotone(p, q)
<1>1. p.f <= q.f /\ q.f = x.f
  BY DEF Link, Follows
<1>2. ASSUME p.f = q.f, p.f \notin damaged, p.t = "fine" PROVE q.t = "fine"
  <2>1. Puts(p, x, q) \/ Skips(p, x, q)
    BY <1>1, <1>2 DEF Link
  <2>2. ~ Puts(p, x, q)
    BY <1>1, <1>2 DEF Puts, Opens, Carries, Closes, Position
  <2> QED BY <2>1, <2>2, <1>2 DEF Skips
<1> QED BY <1>1, <1>2 DEF Monotone

LEMMA WireStable ==
  ASSUME Base, Goes, UNCHANGED wire, NEW g, WireInv(g) PROVE WireInv(g)'
<1>1. \A k \in 1 .. Len(wire) : Link(g[k - 1], wire[k], g[k])'
  <2> TAKE k \in 1 .. Len(wire)
  <2> DEFINE x == wire[k]
  <2>1. PICK y : y = wire[k]
    OBVIOUS
  <2>2. y.f \in 1 .. Len(accepted) /\ Link(g[k - 1], y, g[k])
    BY <2>1 DEF Base, SendInv, WireInv
  <2>3. Link(g[k - 1], y, g[k])'
    BY <2>2, LinkStable
  <2> QED BY <2>1, <2>3
<1>2. \A j, k \in 0 .. Len(wire) : j <= k => Monotone(g[j], g[k])'
  BY MonotoneStable DEF WireInv
<1> QED BY <1>1, <1>2 DEF WireInv

LEMMA Bounded ==
  ASSUME Base, NEW g, Inv(g)
  PROVE  \A k \in 0 .. Len(wire) : g[k] \in Position /\ g[k].f \in 0 .. Len(accepted)
<1> DEFINE p == g[Len(wire)]
<1>1. Len(wire) \in Nat /\ Len(accepted) \in Nat
  BY Typed DEF Base
<1>2. \A k \in 0 .. Len(wire) : g[k] \in Position /\ g[k].f \in Nat
  BY DEF Inv, Trace, Position
<1>3. p.f <= Len(accepted)
  BY DEF Inv, ThrInv, Link, Follows, Base, SendInv
<1>4. \A k \in 0 .. Len(wire) : g[k].f <= p.f
  BY <1>1 DEF Inv, WireInv, Monotone
<1> QED BY <1>1, <1>2, <1>3, <1>4

LEMMA RecvStable ==
  ASSUME Base, Goes, UNCHANGED <<rx, buffer, received, link>>,
         NEW p \in Position, p.f \in 0 .. Len(accepted), RecvInv(p)
  PROVE  RecvInv(p)'
<1>1. Len(accepted) \in Nat
  BY Typed DEF Base
<1>2. \A h : Intact(h)' => Intact(h)
  BY DEF Intact, Goes
<1>3. \A h \in 1 .. Len(accepted) : Fits(h)' <=> Fits(h)
  BY DEF Fits, Goes
<1>4. p.f # 0 => p.f \in 1 .. Len(accepted)
  BY <1>1
<1>5. /\ InPhase(p) => InPhase(p)'
      /\ p.t # "fine" /\ Holds(p) => Holds(p)'
  BY <1>3, <1>4 DEF InPhase, Holds, Position, Goes
<1>6. /\ \A k \in 1 .. Len(received)' :
           /\ received'[k].f <= p.f
           /\ p.f \notin damaged' /\ p.t # "fine" => received'[k].f < p.f
      /\ p.f \notin damaged' => InPhase(p)'
      /\ Intact(p.f)' /\ p.t # "fine" => Holds(p)'
  BY <1>2, <1>5 DEF RecvInv, Goes
<1>7. ASSUME NEW h \in 1 .. Len(accepted)', h < p.f \/ (h = p.f /\ p.t = "fine"),
             Intact(h)', Fits(h)'
      PROVE  \E k \in 1 .. Len(received)' : received'[k].f >= h
  <2>1. h \in 1 .. Len(accepted)
    BY <1>1, <1>7
  <2>2. Intact(h) /\ Fits(h)
    BY <1>2, <1>3, <1>7, <2>1
  <2> QED BY <1>7, <2>1, <2>2 DEF RecvInv
<1> QED BY <1>6, <1>7 DEF RecvInv

-----------------------------------------------------------------------------
(* The sender: the wire and the receiver stay as they are.                 *)
LEMMA Beside ==
  ASSUME Base, Goes, UNCHANGED <<wire, rx, buffer, received, link>>,
         NEW g, Inv(g), ThrInv(g[Len(wire)])'
  PROVE  Inv(g)'
<1>1. g \in Trace' /\ WireInv(g)'
  BY WireStable DEF Inv, Trace
<1>2. RecvInv(g[0])'
  <2>1. PICK p : p = g[0]
    OBVIOUS
  <2>2. p \in Position /\ p.f \in 0 .. Len(accepted) /\ RecvInv(p)
    BY <2>1, Bounded, Typed DEF Inv, Base
  <2>3. RecvInv(p)'
    BY <2>2, RecvStable
  <2> QED BY <2>1, <2>3
<1> QED BY <1>1, <1>2 DEF Inv

(* The position behind the wire.                                           *)
LEMMA Behind ==
  ASSUME Base, NEW g, Inv(g), NEW p, p = g[Len(wire)]
  PROVE  p \in Position /\ p.f \in 0 .. Len(accepted) /\ ThrInv(p) /\ Len(accepted) \in Nat
BY Bounded, Typed DEF Inv, Base

LEMMA SendInvStep ==
  ASSUME Base, NEW m \in link.Message, send(m), NEW g, Inv(g) PROVE Inv(g)'
<1>1. CASE m = << >> /\ UNCHANGED <<snd, thr>>
  <2>1. UNCHANGED <<vars>> /\ Goes
    BY <1>1, Typed DEF send, vars, Goes, snd, net, rcv, Base
  <2>2. ThrInv(g[Len(wire)])'
    BY <2>1 DEF Inv, ThrInv, Sent, Link, Follows, Puts, Skips, Opens, Carries, Closes, vars, snd, net
  <2> QED BY <2>1, <2>2, Beside DEF vars, net, rcv
<1>2. CASE m # << >>
  <2> DEFINE n == Len(accepted)
  <2>1. /\ accepted' = Append(accepted, m) /\ tx' = "started" /\ i' = 1 /\ pc' = "data"
        /\ thr' = [c |-> sofr, f |-> n']
        /\ thr = Empty /\ pc = "idle"
        /\ UNCHANGED <<wire, faults, damaged, link, rx, buffer, received>>
    BY <1>2 DEF send, put, startFrame, net, rcv, snd, ready
  <2>2. accepted \in Seq(link.Message)
    BY DEF Base, TypeOK
  <2>3. n' = n + 1 /\ n \in Nat /\ \A k \in 1 .. n : accepted'[k] = accepted[k]
    BY <2>1, <2>2, Grown
  <2>4. Goes
    BY <2>1, <2>3 DEF Goes
  <2>5. PICK p : p = g[Len(wire)]
    OBVIOUS
  <2>6. p \in Position /\ p.f \in 0 .. n /\ ThrInv(p)
    BY <2>5, Behind
  <2>7. /\ \A h \in p.f + 1 .. n : h \in damaged
        /\ p.f \notin damaged => p.t = "fine" \/ p.f = n
        /\ n \notin damaged => p = Sent
    BY <2>1, <2>6 DEF ThrInv
  <2>8. p.f \notin damaged => p.t = "fine"
    BY <2>1, <2>7 DEF Sent
  <2>9. Follows(p, n)'
    BY <2>1, <2>3, <2>6, <2>7, <2>8 DEF Follows
  <2>10. Sent' = [f |-> n + 1, i |-> 1, t |-> "started"] /\ thr' = [c |-> sofr, f |-> n + 1]
    BY <2>1, <2>3 DEF Sent
  <2>11. Opens(p, thr, Sent)'
    BY <2>3, <2>6, <2>10 DEF Opens
  <2>12. thr' # Empty
    BY <2>3, <2>10 DEF Empty
  <2>13. ThrInv(p)'
    BY <2>3, <2>9, <2>10, <2>11, <2>12 DEF ThrInv, Link, Puts, Follows
  <2> QED BY <2>1, <2>4, <2>5, <2>13, Beside
<1> QED BY <1>1, <1>2 DEF send

LEMMA SendCharInvStep ==
  ASSUME Base, sendChar, NEW g, Inv(g) PROVE Inv(g)'
<1> DEFINE n == Len(accepted)
           m == Last(accepted)
           out == transformOut(tx, m[i])
<1>1. /\ thr' = [c |-> out.c, f |-> n] /\ tx' = out.tx
      /\ i' = (IF again(out.tx) THEN i ELSE i + 1)
      /\ pc' \in {"data", "end"} /\ thr = Empty /\ pc = "data"
      /\ UNCHANGED <<accepted, wire, faults, damaged, link, rx, buffer, received>>
  BY DEF sendChar, put, nextIndex, net, rcv, ready
<1>2. /\ tx \in {"started", "regular", "stuff"} /\ accepted # << >>
      /\ i \in 1 .. Len(m) /\ (tx = "stuff" => m[i] \in Stuffed)
  BY <1>1 DEF Base, SendInv
<1>3. m = accepted[n] /\ n \in Nat /\ n # 0
  BY <1>2, Typed DEF Base
<1>4. Goes
  BY <1>1, <1>3 DEF Goes
<1>5. PICK p : p = g[Len(wire)]
  OBVIOUS
<1>6. p \in Position /\ p.f \in 0 .. n /\ ThrInv(p)
  BY <1>5, Behind
<1>7. /\ \A h \in p.f + 1 .. n : h \in damaged
      /\ p.f \notin damaged => p.t = "fine" \/ p.f = n
      /\ n \notin damaged => p = [f |-> n, i |-> i, t |-> tx]
  BY <1>1, <1>6 DEF ThrInv, Sent
<1>8. Follows(p, n)
  BY <1>3, <1>6, <1>7 DEF Follows
<1>9. Sent' = [f |-> n, i |-> IF again(out.tx) THEN i ELSE i + 1, t |-> out.tx]
  BY <1>1 DEF Sent
<1>10. thr' # Empty
  BY <1>1, <1>3 DEF Empty
<1> HIDE DEF out
<1>11. n \notin damaged => Carries(p, thr, Sent)'
  BY <1>1, <1>2, <1>3, <1>7, <1>9 DEF Carries, out
<1>12. ThrInv(p)'
  BY <1>1, <1>8, <1>9, <1>10, <1>11 DEF ThrInv, Link, Puts, Follows
<1> QED BY <1>1, <1>4, <1>5, <1>12, Beside

LEMMA SendEndInvStep ==
  ASSUME Base, sendEnd, NEW g, Inv(g) PROVE Inv(g)'
<1> DEFINE n == Len(accepted)
<1>1. /\ thr' = [c |-> eofr, f |-> n] /\ pc' = "idle" /\ pc = "end" /\ thr = Empty
      /\ accepted # << >> /\ tx = "regular" /\ i = Len(Last(accepted)) + 1
      /\ UNCHANGED <<i, accepted, wire, faults, damaged, link, rx, buffer, received>>
  BY DEF sendEnd, put, net, rcv, ready, Base, SendInv
<1>2. Last(accepted) = accepted[n] /\ n \in Nat /\ n # 0
  BY <1>1, Typed DEF Base
<1>3. Goes
  BY <1>1, <1>2 DEF Goes
<1>4. PICK p : p = g[Len(wire)]
  OBVIOUS
<1>5. p \in Position /\ p.f \in 0 .. n /\ ThrInv(p)
  BY <1>4, Behind
<1>6. /\ \A h \in p.f + 1 .. n : h \in damaged
      /\ p.f \notin damaged => p.t = "fine" \/ p.f = n
      /\ n \notin damaged => p = [f |-> n, i |-> i, t |-> "regular"]
  BY <1>1, <1>5 DEF ThrInv, Sent
<1>7. Follows(p, n)
  BY <1>2, <1>5, <1>6 DEF Follows
<1>8. Sent' = [f |-> n, i |-> i, t |-> "fine"]
  BY <1>1 DEF Sent
<1>9. thr' # Empty
  BY <1>1, <1>2 DEF Empty
<1>10. n \notin damaged => Closes(p, thr, Sent)'
  BY <1>1, <1>2, <1>6, <1>8 DEF Closes
<1>11. ThrInv(p)'
  BY <1>1, <1>7, <1>8, <1>9, <1>10 DEF ThrInv, Link, Puts, Follows
<1> QED BY <1>1, <1>3, <1>4, <1>11, Beside

(* A lost character damages the frame that is being sent.                  *)
LEMMA LoseInvStep ==
  ASSUME Base, Lose, NEW g, Inv(g) PROVE Inv(g)'
<1> DEFINE n == Len(accepted)
<1>1. /\ thr' = Empty /\ damaged' = damaged \cup {thr.f} /\ thr # Empty
      /\ UNCHANGED <<pc, i, tx, accepted, wire, link, rx, buffer, received>>
  BY DEF Lose, ready, snd, rcv
<1>2. thr.f = n /\ n \in Nat
  BY <1>1, Typed DEF Base, SendInv
<1>3. Goes
  BY <1>1, <1>2 DEF Goes
<1>4. PICK p : p = g[Len(wire)]
  OBVIOUS
<1>5. p \in Position /\ p.f \in 0 .. n /\ Follows(p, n)
  BY <1>1, <1>2, <1>4, Behind DEF ThrInv, Link
<1>6. ThrInv(p)'
  BY <1>1, <1>2, <1>5 DEF ThrInv, Follows
<1> QED BY <1>1, <1>3, <1>4, <1>6, Beside

-----------------------------------------------------------------------------
(* The wire grows by one character x, which leads to q.                    *)
LEMMA Longer ==
  ASSUME Base, Goes, UNCHANGED <<rx, buffer, received, link>>,
         NEW g, Inv(g), NEW x, NEW q \in Position, NEW p, p = g[Len(wire)],
         wire' = Append(wire, x), x \in Item, x.f \in 1 .. Len(accepted),
         Link(p, x, q)', Monotone(p, q)', ThrInv(q)'
  PROVE  \E h : Inv(h)'
<1>1. wire \in Seq(Item)
  BY DEF Base, TypeOK
<1>2. /\ Len(wire') = Len(wire) + 1 /\ Len(wire) \in Nat
      /\ wire'[Len(wire) + 1] = x /\ \A k \in 1 .. Len(wire) : wire'[k] = wire[k]
  BY <1>1, Grown
<1>3. PICK n : n = Len(wire)
  OBVIOUS
<1> DEFINE h == [k \in 0 .. n + 1 |-> IF k <= n THEN g[k] ELSE q]
<1>4. n \in Nat /\ Len(wire') = n + 1 /\ g \in [0 .. n -> Position] /\ p = g[n] /\ p \in Position
  BY <1>2, <1>3, Bounded DEF Inv, Trace
<1>5. /\ h \in [0 .. n + 1 -> Position] /\ h[n + 1] = q /\ h[0] = g[0]
      /\ \A k \in 0 .. n : h[k] = g[k]
  BY <1>4
<1> HIDE DEF h
<1>6. ASSUME NEW k \in 1 .. n + 1 PROVE Link(h[k - 1], wire[k], h[k])'
  <2>1. CASE k = n + 1
    <3>1. h[k - 1] = p /\ h[k] = q /\ wire'[k] = x
      BY <2>1, <1>2, <1>3, <1>4, <1>5
    <3> QED BY <3>1
  <2>2. CASE k # n + 1
    <3>1. PICK y : y = wire[k]
      OBVIOUS
    <3>2. k \in 1 .. n /\ k - 1 \in 0 .. n
      BY <2>2, <1>4
    <3>3. Link(g[k - 1], y, g[k]) /\ y.f \in 1 .. Len(accepted)
      BY <3>1, <3>2, <1>3 DEF Inv, WireInv, Base, SendInv
    <3>4. Link(g[k - 1], y, g[k])'
      BY <3>3, LinkStable
    <3>5. h[k - 1] = g[k - 1] /\ h[k] = g[k] /\ wire'[k] = y
      BY <3>1, <3>2, <1>2, <1>3, <1>4, <1>5
    <3> QED BY <3>4, <3>5
  <2> QED BY <2>1, <2>2
<1>7. ASSUME NEW j \in 0 .. n + 1, NEW k \in 0 .. n + 1, j <= k
      PROVE  Monotone(h[j], h[k])'
  <2>1. CASE k <= n
    <3>1. j \in 0 .. n /\ k \in 0 .. n
      BY <2>1, <1>4, <1>7
    <3>2. Monotone(g[j], g[k])
      BY <3>1, <1>3, <1>7 DEF Inv, WireInv
    <3> QED BY <3>1, <3>2, <1>5, MonotoneStable
  <2>2. CASE k = n + 1 /\ j = n + 1
    BY <2>2, <1>5 DEF Monotone, Position
  <2>3. CASE k = n + 1 /\ j # n + 1
    <3>1. j \in 0 .. n /\ n \in 0 .. n /\ j <= n
      BY <2>3, <1>4
    <3>2. Monotone(g[j], p) /\ g[j] \in Position
      BY <3>1, <1>3, <1>4 DEF Inv, WireInv
    <3>3. Monotone(g[j], q)'
      BY <3>2, <1>4 DEF Monotone, Position, Goes
    <3> QED BY <2>3, <3>1, <3>3, <1>5
  <2> QED BY <2>1, <2>2, <2>3, <1>4
<1>8. WireInv(h)'
  BY <1>4, <1>6, <1>7 DEF WireInv
<1>9. RecvInv(h[0])'
  <2>1. PICK p0 : p0 = g[0]
    OBVIOUS
  <2>2. p0 \in Position /\ p0.f \in 0 .. Len(accepted) /\ RecvInv(p0)
    BY <2>1, <1>3, <1>4, Bounded DEF Inv
  <2> QED BY <2>1, <2>2, <1>5, RecvStable
<1>10. ThrInv(h[Len(wire)])'
  BY <1>4, <1>5
<1>11. h \in Trace'
  BY <1>4, <1>5 DEF Trace
<1> QED BY <1>8, <1>9, <1>10, <1>11 DEF Inv

LEMMA ShiftInvStep ==
  ASSUME Base, Shift, NEW g, Inv(g) PROVE \E h : Inv(h)'
<1> DEFINE n == Len(accepted)
<1>1. /\ wire' = Append(wire, thr) /\ thr' = Empty /\ thr # Empty
      /\ UNCHANGED <<pc, i, tx, accepted, faults, damaged, link, rx, buffer, received>>
  BY DEF Shift, snd, rcv, ready
<1>2. PICK x, q, p : x = thr /\ q = Sent /\ p = g[Len(wire)]
  OBVIOUS
<1>3. x \in Item /\ x.f = n /\ n \in Nat \ {0} /\ thr # Empty
  BY <1>1, <1>2, Typed DEF Base, SendInv
<1>4. Goes
  BY <1>1, <1>3 DEF Goes
<1>5. Link(p, x, q)
  BY <1>2, <1>3, Behind DEF ThrInv
<1>6. q = [f |-> n, i |-> i, t |-> IF pc = "idle" THEN "fine" ELSE tx] /\ q \in Position
  BY <1>2, <1>3 DEF Sent, Position, Base, TypeOK, State
<1>7. q = Sent'
  BY <1>1, <1>2 DEF Sent
<1>8. ThrInv(q)'
  BY <1>1, <1>3, <1>6, <1>7 DEF ThrInv
<1>9. p \in Position
  BY <1>2, Behind
<1>10. Link(p, x, q)' /\ Monotone(p, q)'
  BY <1>3, <1>4, <1>5, <1>9, LinkMonotone, LinkStable, MonotoneStable
<1> QED BY <1>1, <1>2, <1>3, <1>4, <1>6, <1>8, <1>10, Longer

(* A character of flow control is ignored, but behind an escape.           *)
LEMMA InsertInvStep ==
  ASSUME Base, NEW c \in Flow, Insert(c), NEW g, Inv(g) PROVE \E h : Inv(h)'
<1> DEFINE n == Len(accepted)
           w == wire[Len(wire)]
<1>1. wire \in Seq(Item) /\ wire # << >> /\ Last(wire) = w
  BY DEF Base, TypeOK, Insert, Last
<1>2. Len(wire) \in Nat \ {0} /\ n \in Nat
  BY <1>1, Typed DEF Base
<1>3. PICK p, o : p = g[Len(wire)] /\ o = g[Len(wire) - 1]
  OBVIOUS
<1>4. w \in Item /\ w.f \in 1 .. n /\ Link(o, w, p) /\ o \in Position
  <2>1. w \in Item
    BY <1>1, <1>2, ElementOfSeq
  <2>2. w.f \in 1 .. n
    BY <1>2 DEF Base, SendInv
  <2>3. Link(o, w, p)
    BY <1>2, <1>3 DEF Inv, WireInv
  <2>4. o \in Position
    BY <1>2, <1>3, Bounded
  <2> QED BY <2>1, <2>2, <2>3, <2>4
<1>5. p \in Position /\ p.f = w.f /\ ThrInv(p)
  BY <1>3, <1>4, Behind DEF Link
<1>6. PICK x : x = [c |-> c, f |-> w.f]
  OBVIOUS
<1>7. x \in Item /\ x.c = c /\ x.f = p.f /\ x.f \in 1 .. n
  BY <1>4, <1>5, <1>6, Chars DEF Item
<1>8. /\ wire' = Append(wire, x)
      /\ damaged' = (IF w.c = esc THEN damaged \cup {p.f} ELSE damaged)
      /\ UNCHANGED <<thr, pc, i, tx, accepted, link, rx, buffer, received>>
  BY <1>1, <1>5, <1>6 DEF Insert, snd, rcv
<1>9. Goes
  BY <1>2, <1>8 DEF Goes
<1>10. p.f \notin damaged /\ p.t = "stuff" => w.c = esc
  <2> SUFFICES ASSUME p.f \notin damaged, p.t = "stuff" PROVE w.c = esc
    OBVIOUS
  <2>1. Puts(o, w, p) /\ ~ Opens(o, w, p) /\ ~ Closes(o, w, p)
    BY <1>4, <1>5 DEF Link, Skips, Puts, Opens, Closes
  <2> DEFINE m == accepted[w.f]
             out == transformOut(o.t, m[o.i])
  <2>2. /\ o.t \in {"started", "regular", "stuff"} /\ o.i \in 1 .. Len(m)
        /\ w.c = out.c /\ out.tx = "stuff"
    BY <2>1 DEF Puts, Carries
  <2>3. m \in Seq(Char)
    BY <1>4, Typed DEF Base
  <2>4. m[o.i] \in Char
    BY <2>2, <2>3, ElementOfSeq
  <2> QED BY <2>2, <2>4, Out
<1>11. Link(p, x, p)' /\ Monotone(p, p)'
  BY <1>5, <1>7, <1>8, <1>10, Chars DEF Link, Follows, Skips, Monotone, Position
<1>12. ThrInv(p)'
  <2>1. PICK y, s : y = thr /\ s = Sent
    OBVIOUS
  <2>2. Sent' = s /\ thr' = y
    BY <1>8, <2>1 DEF Sent
  <2>3. CASE y # Empty
    <3>1. y.f = n /\ y.f \in 1 .. n
      BY <2>1, <2>3, Typed DEF Base, SendInv
    <3>2. Link(p, y, s) /\ (n \notin damaged => Puts(p, y, s))
      BY <1>5, <2>1, <2>3 DEF ThrInv
    <3>3. Link(p, y, s)' /\ (n \notin damaged' => Puts(p, y, s)')
      BY <1>9, <3>1, <3>2, LinkStable DEF Goes
    <3> QED BY <1>8, <2>2, <2>3, <3>3 DEF ThrInv
  <2>4. CASE y = Empty
    BY <1>5, <1>8, <1>9, <2>1, <2>2, <2>4 DEF ThrInv, Goes
  <2> QED BY <2>3, <2>4
<1> QED BY <1>3, <1>5, <1>7, <1>8, <1>9, <1>11, <1>12, Longer

-----------------------------------------------------------------------------
(* What recv does with the first character x of the wire.                  *)
LEMMA Reads ==
  ASSUME Base, recv, NEW x, x = wire[1], NEW in, in = transformIn(rx, x.c)
  PROVE  /\ in.data /\ Len(buffer) = link.size =>
              rx' = "invalid" /\ buffer' = << >> /\ received' = received
         /\ in.data /\ Len(buffer) # link.size =>
              rx' = in.rx /\ buffer' = Append(buffer, in.c) /\ received' = received
         /\ ~ in.data /\ in.rx = "started" =>
              rx' = "started" /\ buffer' = << >> /\ received' = received
         /\ ~ in.data /\ in.rx = "fine" =>
              /\ rx' = "invalid" /\ buffer' = << >>
              /\ received' = Append(received, [m |-> buffer, f |-> x.f])
         /\ ~ in.data /\ in.rx \notin {"started", "fine"} =>
              rx' = in.rx /\ buffer' = buffer /\ received' = received
<1>1. wire # << >> /\ x = Head(wire)
  BY Taken DEF recv
<1> QED BY <1>1 DEF recv, bufferFull, restarted, finished

(* A position p on the way to q over x, and where the receiver is.         *)
Reading(p, x, q) ==
  /\ p \in Position /\ x \in Item /\ x.f \in 1 .. Len(accepted) /\ x.f \notin damaged
  /\ Follows(p, x.f)
  /\ p.f \notin damaged => InPhase(p)
  /\ Intact(p.f) /\ p.t # "fine" => Holds(p)
Tracked(q) == InPhase(q)' /\ (Intact(q.f) /\ q.t # "fine" => Holds(q)')

LEMMA ReadsOpening ==
  ASSUME Base, recv, NEW x, x = wire[1], NEW p, NEW q, Reading(p, x, q), Opens(p, x, q)
  PROVE  Tracked(q) /\ received' = received /\ q.t # "fine"
<1>1. PICK in : in = transformIn(rx, x.c)
  OBVIOUS
<1>2. x.c = sofr /\ q = [f |-> x.f, i |-> 1, t |-> "started"]
  BY DEF Opens
<1>3. /\ rx \in {"invalid", "started", "regular"} => in.rx = "started" /\ ~ in.data
      /\ rx = "stuff" => in.rx = "regular" /\ in.data
      /\ rx \in {"invalid", "started", "regular", "stuff"}
  BY <1>1, <1>2, In, Chars DEF Base, TypeOK, State
<1>4. /\ rx' \in {"invalid", "started", "regular"} /\ received' = received
      /\ rx = "invalid" => rx' = "started" /\ buffer' = << >>
  BY <1>1, <1>3, Reads
<1>5. ASSUME Intact(x.f) PROVE rx = "invalid"
  <2>1. p.f \in Nat /\ x.f \in Nat /\ p.f < x.f /\ x.f - 1 \notin damaged
    BY <1>5 DEF Intact, Opens, Reading, Position, Item
  <2>2. p.f = x.f - 1 /\ p.t = "fine" /\ InPhase(p)
    BY <2>1 DEF Reading, Follows
  <2> QED BY <2>2 DEF InPhase
<1>6. rx' = "started" /\ buffer' = << >> => Holds(q)'
  BY <1>2, EmptySeq DEF Holds
<1> QED BY <1>2, <1>4, <1>5, <1>6 DEF Tracked, InPhase

LEMMA ReadsCarried ==
  ASSUME Base, recv, NEW x, x = wire[1], NEW p, NEW q, Reading(p, x, q), Carries(p, x, q)
  PROVE  Tracked(q) /\ received' = received /\ q.t # "fine"
<1> DEFINE m == accepted[x.f]
           a == m[p.i]
<1>1. PICK in : in = transformIn(rx, x.c)
  OBVIOUS
<1>2. PICK out : out = transformOut(p.t, a)
  OBVIOUS
<1>3. /\ p.f = x.f /\ p.t \in {"started", "regular", "stuff"} /\ p.i \in 1 .. Len(m)
      /\ p.t = "stuff" => a \in Stuffed
      /\ x.c = out.c
      /\ q = [f |-> x.f, i |-> IF again(out.tx) THEN p.i ELSE p.i + 1, t |-> out.tx]
  BY <1>2 DEF Carries
<1>4. m \in Seq(Char) /\ Len(m) \in Nat /\ p.i \in Nat /\ x.c \in Char
  BY <1>3, Typed DEF Base, Reading, Item
<1>5. a \in Char
  BY <1>3, <1>4, ElementOfSeq
<1>6. InPhase(p) /\ (Intact(p.f) => Holds(p))
  BY <1>3 DEF Reading
<1>7. /\ rx \in {"invalid", "started", "regular", "stuff"} /\ rx \in State \ {"fine"}
      /\ rx = "stuff" => p.t = "stuff"
      /\ p.t = "stuff" => rx \in {"invalid", "stuff"}
  BY <1>6 DEF Base, TypeOK, State, InPhase
<1>8. buffer \in Seq(Char) /\ Len(buffer) \in Nat /\ Len(buffer) <= link.size /\ link.size \in Nat
  BY Typed DEF Base, TypeOK
<1>9. UNCHANGED <<accepted, link>>
  BY DEF recv, snd
<1> HIDE DEF a
(* The receiver ignores the rest of the frame.                             *)
<1>10. CASE rx = "invalid"
  <2>1. out.c # sofr /\ out.tx \in {"regular", "stuff"}
    BY <1>2, <1>3, <1>5, Out, Chars
  <2> in.rx = "invalid" /\ ~ in.data
    BY <1>1, <1>3, <1>4, <1>7, <1>10, <2>1, In
  <2>2. rx' = "invalid" /\ received' = received
    BY <1>1, Reads
  <2>3. Intact(p.f) => Holds(q)'
    BY <1>3, <1>6, <1>9, <1>10, <2>2 DEF Holds, Fits
  <2> QED BY <1>3, <2>1, <2>2, <2>3 DEF Tracked, InPhase
(* An escape.                                                              *)
<1>11. CASE rx # "invalid" /\ p.t # "stuff" /\ a \in Stuffed
  <2>1. out.c = esc /\ out.tx = "stuff"
    BY <1>2, <1>3, <1>5, <1>11, Out
  <2>2. in.rx = "stuff" /\ ~ in.data
    BY <1>1, <1>3, <1>4, <1>7, <1>11, <2>1, In
  <2>3. rx' = "stuff" /\ buffer' = buffer /\ received' = received
    BY <1>1, <2>2, Reads
  <2>4. q = [f |-> x.f, i |-> p.i, t |-> "stuff"]
    BY <1>3, <2>1 DEF again
  <2>5. Intact(p.f) => Holds(q)'
    BY <1>3, <1>6, <1>9, <1>11, <2>3, <2>4 DEF Holds
  <2> QED BY <1>3, <2>3, <2>4, <2>5 DEF Tracked, InPhase
(* A character of the message.                                             *)
<1>12. CASE rx # "invalid" /\ ~ (p.t # "stuff" /\ a \in Stuffed)
  <2>1. in.data /\ in.rx = "regular" /\ in.c = a /\ out.tx = "regular"
    <3>1. CASE p.t # "stuff"
      <4>1. out.c = a /\ out.tx = "regular" /\ a \notin Stuffed
        BY <1>2, <1>3, <1>5, <1>12, <3>1, Out
      <4> QED BY <1>1, <1>3, <1>4, <1>7, <1>12, <3>1, <4>1, In
    <3>2. CASE p.t = "stuff"
      <4>1. out.c = Mod[a] /\ out.tx = "regular"
        BY <1>2, <1>5, <3>2, Out
      <4>2. rx = "stuff" /\ Mod[Mod[a]] = a
        BY <1>5, <1>7, <1>12, <3>2, Chars
      <4> QED BY <1>1, <1>3, <1>4, <4>1, <4>2, In DEF State
    <3> QED BY <3>1, <3>2
  <2>2. q = [f |-> x.f, i |-> p.i + 1, t |-> "regular"]
    BY <1>3, <2>1 DEF again
  <2>3. CASE Len(buffer) = link.size
    <3>1. rx' = "invalid" /\ received' = received
      BY <1>1, <2>1, <2>3, Reads
    <3>2. Intact(p.f) => Holds(q)'
      BY <1>3, <1>4, <1>6, <1>8, <1>9, <1>12, <2>2, <2>3, <3>1 DEF Holds, Fits
    <3> QED BY <1>3, <2>2, <3>1, <3>2 DEF Tracked, InPhase
  <2>4. CASE Len(buffer) # link.size
    <3>1. rx' = "regular" /\ buffer' = Append(buffer, a) /\ received' = received
      BY <1>1, <2>1, <2>4, Reads
    <3>2. /\ Len(buffer') = Len(buffer) + 1 /\ buffer'[Len(buffer) + 1] = a
          /\ \A k \in 1 .. Len(buffer) : buffer'[k] = buffer[k]
      BY <1>5, <1>8, <3>1, Grown
    <3>3. Intact(p.f) => Holds(q)'
      BY <1>3, <1>4, <1>6, <1>8, <1>9, <1>12, <2>2, <3>1, <3>2 DEF Holds, a
    <3> QED BY <1>3, <2>2, <3>1, <3>3 DEF Tracked, InPhase
  <2> QED BY <2>3, <2>4
<1> QED BY <1>10, <1>11, <1>12

LEMMA ReadsClosing ==
  ASSUME Base, recv, NEW x, x = wire[1], NEW p, NEW q, Reading(p, x, q), Closes(p, x, q)
  PROVE  /\ Tracked(q) /\ q.t = "fine" /\ p.t # "fine" /\ p.f = x.f
         /\ received' \in {received, Append(received, [m |-> buffer, f |-> x.f])}
         /\ Intact(x.f) /\ Fits(x.f) =>
              received' = Append(received, [m |-> accepted[x.f], f |-> x.f])
         /\ Intact(x.f) /\ ~ Fits(x.f) => received' = received
<1> DEFINE m == accepted[x.f]
<1>1. PICK in : in = transformIn(rx, x.c)
  OBVIOUS
<1>2. /\ p.f = x.f /\ p.t = "regular" /\ p.i = Len(m) + 1 /\ x.c = eofr
      /\ q = [f |-> x.f, i |-> p.i, t |-> "fine"]
  BY DEF Closes
<1>3. InPhase(p) /\ (Intact(x.f) => Holds(p))
  BY <1>2 DEF Reading
<1>4. rx \in {"invalid", "started", "regular"}
  BY <1>2, <1>3 DEF Base, TypeOK, State, InPhase
<1>5. /\ rx = "invalid" => in.rx = "invalid" /\ ~ in.data
      /\ rx # "invalid" => in.rx = "fine" /\ ~ in.data
  BY <1>1, <1>2, <1>4, In, Chars DEF State
<1>6. /\ rx = "invalid" => rx' = "invalid" /\ received' = received
      /\ rx # "invalid" =>
           rx' = "invalid" /\ received' = Append(received, [m |-> buffer, f |-> x.f])
  BY <1>1, <1>5, Reads
<1>7. Tracked(q)
  BY <1>2, <1>6 DEF Tracked, InPhase
<1>8. ASSUME Intact(x.f), rx # "invalid" PROVE buffer = m /\ Fits(x.f)
  <2>1. m \in Seq(Char) /\ Len(m) \in Nat
    BY Typed DEF Base, Reading
  <2>2. buffer \in Seq(Char) /\ Len(buffer) <= link.size
    BY DEF Base, TypeOK
  <2>3. Len(buffer) = Len(m) /\ \A k \in 1 .. Len(buffer) : buffer[k] = m[k]
    BY <1>2, <1>3, <1>8, <2>1 DEF Holds
  <2> QED BY <2>1, <2>2, <2>3, SeqEqual DEF Fits
<1>9. ASSUME Intact(x.f), rx = "invalid" PROVE ~ Fits(x.f)
  BY <1>2, <1>3, <1>9 DEF Holds
<1> QED BY <1>2, <1>6, <1>7, <1>8, <1>9

LEMMA ReadsSkipped ==
  ASSUME Base, recv, NEW x, x = wire[1], NEW p, NEW q, Reading(p, x, q), Skips(p, x, q)
  PROVE  Tracked(q) /\ received' = received /\ q = p
<1>1. PICK in : in = transformIn(rx, x.c)
  OBVIOUS
<1>2. p.f = x.f /\ x.c \in Flow /\ p.t # "stuff" /\ q = p
  BY DEF Skips
<1>3. InPhase(p) /\ (Intact(p.f) /\ p.t # "fine" => Holds(p))
  BY <1>2 DEF Reading
<1>4. rx \in {"invalid", "started", "regular"}
  BY <1>2, <1>3 DEF Base, TypeOK, State, InPhase
<1>5. /\ rx = "invalid" => in.rx = "invalid" /\ ~ in.data
      /\ rx # "invalid" => in.rx = "regular" /\ ~ in.data
  BY <1>1, <1>2, <1>4, In, Chars DEF State
<1>6. /\ buffer' = buffer /\ received' = received
      /\ rx = "invalid" => rx' = "invalid"
      /\ rx # "invalid" => rx' = "regular"
  BY <1>1, <1>5, Reads
<1>7. UNCHANGED <<accepted, link>>
  BY DEF recv, snd
<1> QED BY <1>2, <1>3, <1>4, <1>6, <1>7 DEF Tracked, InPhase, Holds, Fits

(* A character of an undamaged frame.                                      *)
LEMMA Tracks ==
  ASSUME Base, recv, NEW x, x = wire[1], NEW p, NEW q, Reading(p, x, q), Link(p, x, q)
  PROVE  /\ Tracked(q)
         /\ received' = received
            \/ /\ received' = Append(received, [m |-> buffer, f |-> x.f])
               /\ q.t = "fine" /\ p.t # "fine" /\ p.f = x.f
         /\ Intact(x.f) /\ Fits(x.f) /\ q.t = "fine" =>
              \/ q = p
              \/ received' = Append(received, [m |-> accepted[x.f], f |-> x.f])
         /\ Intact(x.f) /\ received' # received =>
              /\ Fits(x.f)
              /\ received' = Append(received, [m |-> accepted[x.f], f |-> x.f])
<1>1. Puts(p, x, q) \/ Skips(p, x, q)
  BY DEF Link, Reading
<1>2. CASE Opens(p, x, q)
  BY <1>2, ReadsOpening
<1>3. CASE Carries(p, x, q)
  BY <1>3, ReadsCarried
<1>4. CASE Closes(p, x, q)
  BY <1>4, ReadsClosing
<1>5. CASE Skips(p, x, q)
  BY <1>5, ReadsSkipped
<1> QED BY <1>1, <1>2, <1>3, <1>4, <1>5 DEF Puts

(* What recv finds on the wire.                                            *)
LEMMA Found ==
  ASSUME Base, recv, NEW g, Inv(g)
  PROVE  /\ Len(wire) \in Nat \ {0} /\ wire' = Tail(wire) /\ Len(wire') = Len(wire) - 1
         /\ \A k \in 1 .. Len(wire') : wire'[k] = wire[k + 1]
         /\ UNCHANGED <<thr, pc, i, tx, accepted, faults, damaged, link>>
         /\ wire[1] \in Item /\ wire[1].f \in 1 .. Len(accepted) /\ Head(wire) = wire[1]
         /\ g[0] \in Position /\ g[1] \in Position /\ Link(g[0], wire[1], g[1])
         /\ RecvInv(g[0])
         /\ wire[1].f \notin damaged => Reading(g[0], wire[1], g[1])
<1>1. wire # << >> /\ wire' = Tail(wire)
      /\ UNCHANGED <<thr, pc, i, tx, accepted, faults, damaged, link>>
  BY DEF recv, snd
<1>2. /\ Len(wire) \in Nat \ {0} /\ Len(wire') = Len(wire) - 1
      /\ \A k \in 1 .. Len(wire') : wire'[k] = wire[k + 1]
      /\ wire[1] \in Item /\ wire[1].f \in 1 .. Len(accepted) /\ Head(wire) = wire[1]
  BY <1>1, Taken
<1>3. g[0] \in Position /\ g[1] \in Position
  BY <1>2, Bounded
<1>4. Link(g[0], wire[1], g[1]) /\ RecvInv(g[0])
  BY <1>2 DEF Inv, WireInv
<1>5. wire[1].f \notin damaged => Reading(g[0], wire[1], g[1])
  BY <1>2, <1>3, <1>4 DEF Reading, Link, RecvInv
<1> QED BY <1>1, <1>2, <1>3, <1>4, <1>5

(* What recv returns it has returned behind all before.                    *)
LEMMA Returned ==
  ASSUME Base, recv, NEW x, x = wire[1]
  PROVE  /\ received' \in {received, Append(received, [m |-> buffer, f |-> x.f])}
         /\ Len(received) \in Nat /\ Len(received') \in Nat /\ Len(received) <= Len(received')
         /\ \A k \in 1 .. Len(received) : received'[k] = received[k]
         /\ received' # received =>
              Len(received') = Len(received) + 1 /\ received'[Len(received) + 1].f = x.f
<1> DEFINE r == [m |-> buffer, f |-> x.f]
           R == [m : Seq(Char), f : 1 .. link.MaxSend]
<1>1. received' \in {received, Append(received, r)}
  BY Taken DEF recv
<1>2. wire # << >>
  BY DEF recv
<1>3. x.f \in 1 .. Len(accepted) /\ Len(accepted) <= link.MaxSend
  BY <1>2, Taken DEF Base, SendInv
<1>4. received \in Seq(R) /\ r \in R
  BY <1>3, Typed DEF Base, TypeOK
<1> HIDE DEF R
<1>5. /\ Len(Append(received, r)) = Len(received) + 1 /\ Len(received) \in Nat
      /\ Append(received, r)[Len(received) + 1] = r
      /\ \A k \in 1 .. Len(received) : Append(received, r)[k] = received[k]
  BY <1>4, Grown
<1> QED BY <1>1, <1>5

LEMMA RecvInvNext ==
  ASSUME Base, recv, NEW g, Inv(g), NEW q, q = g[1] PROVE RecvInv(q)'
<1>1. PICK p, x : p = g[0] /\ x = wire[1]
  OBVIOUS
<1>2. /\ p \in Position /\ q \in Position /\ Link(p, x, q) /\ RecvInv(p) /\ q.f = x.f
      /\ x.f \in 1 .. Len(accepted) /\ x.f \in Nat
      /\ x.f \notin damaged => Reading(p, x, q)
      /\ UNCHANGED <<accepted, damaged, link>>
  BY <1>1, Found DEF Link, Item
<1>3. p.f \in Nat /\ q.f \in Nat /\ p.f <= q.f
  BY <1>2 DEF Position, Link, Follows
<1>4. /\ Len(received) \in Nat /\ Len(received') \in Nat /\ Len(received) <= Len(received')
      /\ \A k \in 1 .. Len(received) : received'[k] = received[k]
      /\ received' # received =>
           Len(received') = Len(received) + 1 /\ received'[Len(received) + 1].f = x.f
  BY <1>1, Returned
<1>5. ASSUME NEW k \in 1 .. Len(received')
      PROVE  /\ received'[k].f <= q.f
             /\ q.f \notin damaged /\ q.t # "fine" => received'[k].f < q.f
  <2>1. CASE k \in 1 .. Len(received)
    <3>1. /\ received'[k].f = received[k].f /\ received[k].f <= p.f
          /\ p.f \notin damaged /\ p.t # "fine" => received[k].f < p.f
          /\ received[k].f \in Nat
      BY <2>1, <1>2, <1>4, Typed DEF RecvInv, Base, SendInv
    <3>2. ASSUME q.f \notin damaged, q.t # "fine" PROVE received[k].f < q.f
      <4>1. p.f < q.f \/ p.t # "fine"
        BY <3>2, <1>2, <1>3, LinkMonotone DEF Monotone
      <4> QED BY <3>1, <3>2, <4>1, <1>3
    <3> QED BY <3>1, <3>2, <1>3
  <2>2. CASE k \notin 1 .. Len(received)
    <3>1. received' # received /\ k = Len(received) + 1
      BY <2>2, <1>4
    <3>2. received'[k].f = q.f
      BY <3>1, <1>2, <1>4
    <3>3. q.f \notin damaged => q.t = "fine"
      BY <3>1, <1>1, <1>2, Tracks
    <3> QED BY <3>2, <3>3, <1>3
  <2> QED BY <2>1, <2>2
<1>6. /\ q.f \notin damaged => InPhase(q)'
      /\ Intact(q.f) /\ q.t # "fine" => Holds(q)'
  BY <1>1, <1>2, Tracks DEF Tracked, Intact
<1>7. ASSUME NEW h \in 1 .. Len(accepted), h < q.f \/ (h = q.f /\ q.t = "fine"),
             Intact(h), Fits(h)
      PROVE  \E k \in 1 .. Len(received') : received'[k].f >= h
  <2>1. h \in Nat /\ h \notin damaged
    BY <1>7 DEF Intact
  <2>2. CASE h < p.f \/ (h = p.f /\ p.t = "fine")
    <3>1. PICK k \in 1 .. Len(received) : received[k].f >= h
      BY <2>2, <1>2, <1>7 DEF RecvInv
    <3> QED BY <3>1, <1>4
  <2>3. CASE ~ (h < p.f \/ (h = p.f /\ p.t = "fine"))
    <3>1. h = q.f /\ q.t = "fine"
      <4>1. p.f < h /\ h < q.f => h \in damaged
        BY <2>1, <1>2, <1>3 DEF Link, Follows
      <4>2. h = p.f /\ h < q.f => p.t = "fine"
        BY <2>1, <1>2, <1>3 DEF Link, Follows
      <4> QED BY <2>1, <2>3, <4>1, <4>2, <1>3, <1>7
    <3>2. q # p
      BY <2>3, <3>1
    <3>3. received' = Append(received, [m |-> accepted[x.f], f |-> x.f])
      BY <2>1, <3>1, <3>2, <1>1, <1>2, <1>7, Tracks
    <3>4. received' # received
      <4>1. PICK S : received \in Seq(S) /\ [m |-> accepted[x.f], f |-> x.f] \in S
        <5>1. received \in Seq([m : Seq(Char), f : 1 .. link.MaxSend])
          BY DEF Base, TypeOK
        <5>2. [m |-> accepted[x.f], f |-> x.f] \in [m : Seq(Char), f : 1 .. link.MaxSend]
          BY <1>2, Typed DEF Base, SendInv
        <5> QED BY <5>1, <5>2
      <4> QED BY <4>1, <3>3, Grown
    <3>5. Len(received) + 1 \in 1 .. Len(received') /\ received'[Len(received) + 1].f = h
      BY <3>1, <3>4, <1>2, <1>4
    <3> QED BY <3>5, <2>1
  <2> QED BY <2>2, <2>3
<1>8. /\ \A h : Intact(h)' <=> Intact(h)
      /\ \A h : Fits(h)' <=> Fits(h)
  BY <1>2 DEF Intact, Fits
<1> QED BY <1>2, <1>5, <1>6, <1>7, <1>8 DEF RecvInv

LEMMA RecvInvStep ==
  ASSUME Base, recv, NEW g, Inv(g) PROVE \E h : Inv(h)'
<1>1. /\ Len(wire) \in Nat \ {0} /\ Len(wire') = Len(wire) - 1
      /\ \A k \in 1 .. Len(wire') : wire'[k] = wire[k + 1]
      /\ UNCHANGED <<thr, pc, i, tx, accepted, faults, damaged, link>>
  BY Found
<1>2. PICK n : n = Len(wire)
  OBVIOUS
<1> DEFINE h == [k \in 0 .. n - 1 |-> g[k + 1]]
<1>3. n \in Nat \ {0} /\ Len(wire') = n - 1 /\ g \in [0 .. n -> Position]
  BY <1>1, <1>2 DEF Inv, Trace
<1>4. /\ h \in [0 .. n - 1 -> Position] /\ h[0] = g[1] /\ h[n - 1] = g[n]
      /\ \A k \in 0 .. n - 1 : h[k] = g[k + 1] /\ k + 1 \in 1 .. n
  BY <1>3
<1> HIDE DEF h
<1>5. h \in Trace'
  BY <1>3, <1>4 DEF Trace
<1>6. Goes
  BY <1>1, Typed DEF Goes, Base
<1>7. WireInv(h)'
  <2>1. ASSUME NEW k \in 1 .. n - 1 PROVE Link(h[k - 1], wire[k], h[k])'
    <3>1. PICK y : y = wire[k + 1]
      OBVIOUS
    <3>2. k + 1 \in 1 .. n /\ (k + 1) - 1 = k
      BY <1>3
    <3>3. Link(g[k], y, g[k + 1]) /\ y.f \in 1 .. Len(accepted)
      BY <3>1, <3>2, <1>2 DEF Inv, WireInv, Base, SendInv
    <3>4. Link(g[k], y, g[k + 1])'
      BY <3>3, <1>6, LinkStable
    <3>5. h[k - 1] = g[k] /\ h[k] = g[k + 1] /\ wire'[k] = y
      BY <3>1, <1>1, <1>3, <1>4
    <3> QED BY <3>4, <3>5
  <2>2. ASSUME NEW j \in 0 .. n - 1, NEW k \in 0 .. n - 1, j <= k
        PROVE  Monotone(h[j], h[k])'
    <3>1. j + 1 \in 0 .. n /\ k + 1 \in 0 .. n /\ j + 1 <= k + 1
      BY <1>3, <2>2
    <3>2. Monotone(g[j + 1], g[k + 1])
      BY <3>1, <1>2 DEF Inv, WireInv
    <3> QED BY <3>2, <1>4, <1>6, MonotoneStable
  <2> QED BY <2>1, <2>2, <1>3 DEF WireInv
<1>8. ThrInv(h[Len(wire)])'
  <2>1. PICK q, s, y : q = g[n] /\ s = Sent /\ y = thr
    OBVIOUS
  <2>2. ThrInv(q)
    BY <2>1, <1>2, Behind
  <2>3. Sent' = s /\ thr' = y
    BY <1>1, <2>1 DEF Sent
  <2>4. ThrInv(q)'
    BY <1>1, <2>1, <2>2, <2>3 DEF ThrInv, Link, Follows, Puts, Skips, Opens, Carries, Closes
  <2> QED BY <2>1, <2>4, <1>3, <1>4
<1>9. RecvInv(h[0])'
  <2>1. PICK q : q = g[1]
    OBVIOUS
  <2> QED BY <2>1, <1>4, RecvInvNext
<1> QED BY <1>5, <1>7, <1>8, <1>9 DEF Inv

-----------------------------------------------------------------------------
LEMMA InitInv == Init => IInv
<1> SUFFICES ASSUME Init PROVE IInv
  OBVIOUS
<1> DEFINE p == [f |-> 0, i |-> 0, t |-> "fine"]
           g == [k \in 0 .. 0 |-> p]
<1>1. Base /\ Len(wire) = 0 /\ Len(accepted) = 0 /\ Len(received) = 0
  BY InitBase, EmptySeq DEF Init
<1>2. p \in Position /\ p.f = 0 /\ p.t = "fine" /\ p.i = 0
  BY DEF Position, State
<1>3. g \in Trace /\ g[0] = p
  BY <1>1, <1>2 DEF Trace
<1>4. Sent = p
  BY <1>1 DEF Sent, Init
<1> HIDE DEF g, p
<1>5. WireInv(g)
  BY <1>1, <1>2, <1>3 DEF WireInv, Monotone
<1>6. ThrInv(g[Len(wire)])
  BY <1>1, <1>2, <1>3, <1>4 DEF ThrInv, Init
<1>7. RecvInv(g[0])
  BY <1>1, <1>2, <1>3 DEF RecvInv, InPhase, Init
<1> QED BY <1>1, <1>3, <1>5, <1>6, <1>7 DEF IInv, Inv, Base

LEMMA InvStep == IInv /\ [Next]_vars => IInv'
<1> SUFFICES ASSUME IInv, [Next]_vars PROVE IInv'
  OBVIOUS
<1>1. Base /\ Base'
  BY BaseStep DEF IInv, Base
<1>2. PICK g : Inv(g)
  BY DEF IInv
<1>3. ASSUME \E h : Inv(h)' PROVE IInv'
  BY <1>1, <1>3 DEF IInv, Base
<1>4. CASE UNCHANGED vars
  <2>1. Goes
    BY <1>1, <1>4, Typed DEF Goes, Base, vars, snd, net
  <2>2. ThrInv(g[Len(wire)])'
    BY <1>2, <1>4 DEF Inv, ThrInv, Sent, Link, Follows, Puts, Skips, Opens, Carries, Closes,
       vars, snd, net
  <2>3. Inv(g)'
    BY <1>1, <1>2, <1>4, <2>1, <2>2, Beside DEF vars, net, rcv
  <2> QED BY <1>3, <2>3
<1>5. ASSUME NEW m \in link.Message, send(m) PROVE IInv'
  BY <1>1, <1>2, <1>3, <1>5, SendInvStep
<1>6. CASE sendChar
  BY <1>1, <1>2, <1>3, <1>6, SendCharInvStep
<1>7. CASE sendEnd
  BY <1>1, <1>2, <1>3, <1>7, SendEndInvStep
<1>8. CASE Shift
  BY <1>1, <1>2, <1>3, <1>8, ShiftInvStep
<1>9. CASE Lose
  BY <1>1, <1>2, <1>3, <1>9, LoseInvStep
<1>10. ASSUME NEW c \in Flow, Insert(c) PROVE IInv'
  BY <1>1, <1>2, <1>3, <1>10, InsertInvStep
<1>11. CASE recv
  BY <1>1, <1>2, <1>3, <1>11, RecvInvStep
<1> QED BY <1>4, <1>5, <1>6, <1>7, <1>8, <1>9, <1>10, <1>11 DEF Next

(***************************************************************************)
(* Whatever send and recv (cdeviceframe.h:59-127) have done, and whatever  *)
(* the wire has lost, the characters under way are those of the accepted   *)
(* frames in their order, and the receiver has of each undamaged frame     *)
(* exactly what has reached it.                                            *)
(***************************************************************************)
THEOREM FramesAreTracked == Spec => []IInv
<1> QED BY InitInv, InvStep, PTL DEF Spec

-----------------------------------------------------------------------------
(* The steps of the layer are steps of the channel.                        *)
LEMMA Domains ==
  ASSUME Base
  PROVE  /\ DOMAIN accepted = 1 .. Len(accepted) /\ DOMAIN received = 1 .. Len(received)
         /\ \A k \in 1 .. Len(received) : received[k].f \in Nat
<1>1. /\ accepted \in Seq(link.Message)
      /\ received \in Seq([m : Seq(Char), f : 1 .. link.MaxSend])
  BY DEF Base, TypeOK
<1>2. DOMAIN accepted = 1 .. Len(accepted) /\ DOMAIN received = 1 .. Len(received)
  BY <1>1
<1> QED BY <1>2, Typed DEF Base, SendInv

LEMMA SendSends ==
  ASSUME Base, NEW m \in link.Message, send(m) PROVE [Channel!Next]_(Channel!vars)
<1>1. m \in UNION {l.Message : l \in Links}
  BY DEF Base, TypeOK
<1>2. CASE UNCHANGED <<snd, thr>>
  BY <1>2 DEF send, snd, net, rcv, Channel!vars
<1>3. CASE accepted' = Append(accepted, m)
  BY <1>1, <1>3 DEF send, net, rcv, Channel!Next, Channel!Send
<1> QED BY <1>2, <1>3 DEF send

(* Nothing of an undamaged frame that is not closed has been received.     *)
LEMMA NotReceived ==
  ASSUME Base, NEW g, Inv(g), NEW p, p = g[Len(wire)], NEW f \in Nat, f \notin damaged,
         p.f <= f, p.f = f => p.t # "fine"
  PROVE  \A k \in DOMAIN received : received[k].f < f
<1>1. PICK o : o = g[0]
  OBVIOUS
<1>2. Len(wire) \in Nat /\ 0 \in 0 .. Len(wire) /\ Len(wire) \in 0 .. Len(wire)
  BY Typed DEF Base
<1>3. o \in Position /\ p \in Position /\ Monotone(o, p) /\ RecvInv(o)
  BY <1>1, <1>2, Bounded DEF Inv, WireInv
<1>4. o.f \in Nat /\ p.f \in Nat
  BY <1>3 DEF Position
<1>5. ASSUME NEW k \in 1 .. Len(received) PROVE received[k].f < f
  <2>1. /\ received[k].f \in Nat /\ received[k].f <= o.f
        /\ o.f \notin damaged /\ o.t # "fine" => received[k].f < o.f
    BY <1>3, Domains DEF RecvInv
  <2> QED BY <1>3, <1>4, <2>1 DEF Monotone
<1> QED BY <1>5, Domains

LEMMA LoseDamages ==
  ASSUME Base, Lose, NEW g, Inv(g) PROVE [Channel!Next]_(Channel!vars)
<1> DEFINE n == Len(accepted)
<1>1. /\ damaged' = damaged \cup {thr.f} /\ thr # Empty
      /\ UNCHANGED <<accepted, received, link>>
  BY DEF Lose, ready, snd, rcv
<1>2. thr.f = n /\ n \in Nat
  BY <1>1, Typed DEF Base, SendInv
<1>3. CASE n \in damaged
  BY <1>1, <1>2, <1>3 DEF Channel!vars
<1>4. CASE n \notin damaged
  <2>1. PICK p : p = g[Len(wire)]
    OBVIOUS
  <2>2. p \in Position /\ p.f \in 0 .. n /\ Puts(p, thr, Sent)
    BY <1>1, <1>4, <2>1, Behind DEF ThrInv
  <2>3. p.f = n => p.t # "fine"
    BY <1>2, <2>2 DEF Puts, Opens, Carries, Closes, Position
  <2>4. \A k \in DOMAIN received : received[k].f < n
    BY <1>2, <1>4, <2>1, <2>2, <2>3, NotReceived
  <2> QED BY <1>1, <1>2, <2>4 DEF Channel!Next, Channel!Damage
<1> QED BY <1>3, <1>4

LEMMA InsertDamages ==
  ASSUME Base, NEW c \in Flow, Insert(c), NEW g, Inv(g) PROVE [Channel!Next]_(Channel!vars)
<1> DEFINE n == Len(accepted)
           w == wire[Len(wire)]
<1>1. wire \in Seq(Item) /\ wire # << >> /\ Last(wire) = w
  BY DEF Base, TypeOK, Insert, Last
<1>2. Len(wire) \in Nat \ {0} /\ n \in Nat
  BY <1>1, Typed DEF Base
<1>3. PICK p, o : p = g[Len(wire)] /\ o = g[Len(wire) - 1]
  OBVIOUS
<1>4. Link(o, w, p) /\ o \in Position /\ w.f \in 1 .. n
  <2>1. Link(o, w, p)
    BY <1>2, <1>3 DEF Inv, WireInv
  <2>2. o \in Position
    BY <1>2, <1>3, Bounded
  <2>3. w.f \in 1 .. n
    BY <1>2 DEF Base, SendInv
  <2> QED BY <2>1, <2>2, <2>3
<1>5. p \in Position /\ p.f = w.f /\ p.f \in 0 .. n /\ ThrInv(p)
  BY <1>3, <1>4, Behind DEF Link
<1>6. /\ damaged' = (IF w.c = esc THEN damaged \cup {p.f} ELSE damaged)
      /\ UNCHANGED <<accepted, received, link>>
  BY <1>1, <1>5 DEF Insert, snd, rcv
<1>7. CASE w.c # esc \/ p.f \in damaged
  BY <1>6, <1>7 DEF Channel!vars
<1>8. CASE w.c = esc /\ p.f \notin damaged
  <2>1. p.t # "fine"
    <3>1. Carries(o, w, p)
      BY <1>4, <1>5, <1>8, Chars DEF Link, Puts, Opens, Closes, Skips
    <3> DEFINE m == accepted[w.f]
               out == transformOut(o.t, m[o.i])
    <3>2. /\ o.t \in {"started", "regular", "stuff"} /\ o.i \in 1 .. Len(m)
          /\ p.t = out.tx
      BY <3>1 DEF Carries
    <3>3. m \in Seq(Char)
      BY <1>4, Typed DEF Base
    <3>4. m[o.i] \in Char
      BY <3>2, <3>3, ElementOfSeq
    <3> QED BY <3>2, <3>4, Out
  <2>2. p.f = n
    <3>1. CASE thr = Empty
      BY <1>5, <1>8, <2>1, <3>1 DEF ThrInv
    <3>2. CASE thr # Empty
      <4>1. Follows(p, n)
        BY <1>5, <3>2, Typed DEF ThrInv, Link, Base, SendInv
      <4> QED BY <1>2, <1>5, <1>8, <2>1, <4>1 DEF Follows
    <3> QED BY <3>1, <3>2
  <2>3. \A k \in DOMAIN received : received[k].f < n
    BY <1>2, <1>3, <1>8, <2>1, <2>2, NotReceived
  <2> QED BY <1>6, <1>8, <2>2, <2>3 DEF Channel!Next, Channel!Damage
<1> QED BY <1>7, <1>8

LEMMA RecvReceives ==
  ASSUME Base, recv, NEW g, Inv(g) PROVE [Channel!Next]_(Channel!vars)
<1>1. PICK p, q, x : p = g[0] /\ q = g[1] /\ x = wire[1]
  OBVIOUS
<1>2. /\ p \in Position /\ q \in Position /\ Link(p, x, q) /\ RecvInv(p)
      /\ x.f \in 1 .. Len(accepted) /\ x.f \in Nat
      /\ x.f \notin damaged => Reading(p, x, q)
      /\ UNCHANGED <<accepted, damaged, link>>
  BY <1>1, Found DEF Item
<1>3. CASE received' = received
  BY <1>2, <1>3 DEF Channel!vars
<1>4. CASE received' # received
  <2>1. p.f \in Nat /\ Follows(p, x.f)
    BY <1>2 DEF Position, Link
  <2>2. /\ DOMAIN accepted = 1 .. Len(accepted) /\ DOMAIN received = 1 .. Len(received)
        /\ Len(received) \in Nat /\ \A k \in 1 .. Len(received) : received[k].f \in Nat
    BY <1>1, Domains, Returned
  <2>3. ASSUME NEW h \in Channel!Due, h <= x.f PROVE h = x.f
    <3>1. /\ h \in 1 .. Len(accepted) /\ h \in Nat /\ h \notin damaged
          /\ Intact(h) /\ Fits(h)
          /\ \A k \in 1 .. Len(received) : received[k].f < h
      BY <2>2, <2>3 DEF Channel!Due, Channel!Intact, Intact, Fits
    <3>2. ~ (h < p.f \/ (h = p.f /\ p.t = "fine"))
      BY <1>2, <2>2, <3>1 DEF RecvInv
    <3>3. h < x.f => ~ (p.f < h) /\ (h = p.f => p.t = "fine")
      BY <1>2, <2>1, <3>1 DEF Follows
    <3> QED BY <1>2, <2>1, <2>3, <3>1, <3>2, <3>3
  <2>4. CASE Intact(x.f)
    <3>1. /\ x.f \notin damaged /\ Fits(x.f) /\ p.t # "fine" /\ p.f = x.f
          /\ received' = Append(received, [m |-> accepted[x.f], f |-> x.f])
      BY <1>1, <1>2, <1>4, <2>4, Tracks DEF Intact
    <3>2. \A k \in 1 .. Len(received) : received[k].f < x.f
      BY <1>2, <3>1 DEF RecvInv
    <3>3. x.f \in Channel!Due
      BY <1>2, <2>2, <2>4, <3>1, <3>2 DEF Channel!Due, Channel!Intact, Intact, Fits
    <3>4. \A h \in Channel!Due : x.f <= h
      BY <1>2, <2>2, <2>3 DEF Channel!Due
    <3> QED BY <1>2, <3>1, <3>3, <3>4 DEF Channel!Next, Channel!Receive
  <2>5. CASE ~ Intact(x.f)
    <3> DEFINE k == Len(received) + 1
               r == received'[k]
    <3>1. Len(received') = k /\ r.f = x.f /\ received' = Append(received, r)
      <4> DEFINE e == [m |-> buffer, f |-> x.f]
                 R == [m : Seq(Char), f : 1 .. link.MaxSend]
      <4>1. received' = Append(received, e)
        BY <1>1, <1>4, Returned
      <4>2. received \in Seq(R) /\ e \in R
        BY <1>2, Typed DEF Base, TypeOK, SendInv
      <4> HIDE DEF e, R
      <4>3. Len(received') = k /\ received'[k] = e
        BY <4>1, <4>2, Grown
      <4> QED BY <4>1, <4>3 DEF e
    <3>2. \A j \in DOMAIN received : received[j].f <= r.f
      BY <1>2, <2>1, <2>2, <3>1 DEF RecvInv, Follows
    <3>3. \A h \in Channel!Due : r.f < h
      BY <1>2, <2>2, <2>3, <2>5, <3>1 DEF Channel!Due, Channel!Intact, Intact
    <3>4. r.f \in DOMAIN accepted /\ ~ Channel!Intact(r.f)
      BY <1>2, <2>2, <2>5, <3>1 DEF Channel!Intact, Intact
    <3> QED BY <1>2, <3>1, <3>2, <3>3, <3>4 DEF Channel!Next, Channel!Garble
  <2> QED BY <2>4, <2>5
<1> QED BY <1>3, <1>4

LEMMA StepOfChannel ==
  IInv /\ [Next]_vars => [Channel!Next]_(Channel!vars)
<1> SUFFICES ASSUME IInv, [Next]_vars PROVE [Channel!Next]_(Channel!vars)
  OBVIOUS
<1>1. Base
  BY DEF IInv, Base
<1>2. PICK g : Inv(g)
  BY DEF IInv
<1>3. CASE UNCHANGED vars
  BY <1>3 DEF vars, snd, net, rcv, Channel!vars
<1>4. ASSUME NEW m \in link.Message, send(m) PROVE [Channel!Next]_(Channel!vars)
  BY <1>1, <1>4, SendSends
<1>5. CASE sendChar
  BY <1>5 DEF sendChar, net, rcv, Channel!vars
<1>6. CASE sendEnd
  BY <1>6 DEF sendEnd, net, rcv, Channel!vars
<1>7. CASE Shift
  BY <1>7 DEF Shift, snd, rcv, Channel!vars
<1>8. CASE Lose
  BY <1>1, <1>2, <1>8, LoseDamages
<1>9. ASSUME NEW c \in Flow, Insert(c) PROVE [Channel!Next]_(Channel!vars)
  BY <1>1, <1>2, <1>9, InsertDamages
<1>10. CASE recv
  BY <1>1, <1>2, <1>10, RecvReceives
<1> QED BY <1>3, <1>4, <1>5, <1>6, <1>7, <1>8, <1>9, <1>10 DEF Next

LEMMA InitOfChannel == Init => Channel!Init
BY InitBase, Typed DEF Init, Channel!Init, Base

(***************************************************************************)
(* The layer of send and recv (cdeviceframe.h:59-127) is a channel that    *)
(* loses damaged messages, and those behind them, and nothing else.  That  *)
(* every message that is due is received in the end needs fairness, and is *)
(* left to ImplementsChannel.                                              *)
(***************************************************************************)
THEOREM LayerIsChannel == Spec => Channel!Safe
<1>1. Spec => [][Channel!Next]_(Channel!vars)
  BY FramesAreTracked, StepOfChannel, PTL DEF Spec
<1> QED BY InitOfChannel, <1>1, PTL DEF Spec, Channel!Safe
=============================================================================
