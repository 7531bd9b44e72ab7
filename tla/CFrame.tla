------------------------------- MODULE CFrame -------------------------------
(***************************************************************************)
(* The state machine CFrame of common/cframe.new.h, which marks the start  *)
(* and the end of a frame on a character line and escapes the characters   *)
(* of the payload that look like a mark.  Its operations are functions of  *)
(* the state and the character; a machine has two states, tx and rx, one   *)
(* for each direction.                                                     *)
(***************************************************************************)
EXTENDS Naturals, Sequences

CONSTANTS
  Char,               \* the characters
  sofr, eofr, esc,    \* the three control characters of a configuration
  Flow,               \* none, xon and xoff, as far as it uses them
  Mod                 \* c ^ escmod

Stuffed == {sofr, eofr, esc} \cup Flow

ASSUME CharAssumption ==
  /\ Stuffed \subseteq Char
  /\ sofr # eofr /\ sofr # esc /\ eofr # esc
  /\ {sofr, eofr, esc} \cap Flow = {}
(* In the configurations of the header no escaped character looks like a   *)
(* start: a receiver that skips a frame takes it for none.                 *)
ASSUME ModAssumption ==
  /\ Mod \in [Char -> Char]
  /\ \A c \in Char : Mod[Mod[c]] = c
  /\ \A c \in Stuffed : Mod[c] # sofr

State == {"invalid", "started", "regular", "stuff", "fine"}

-----------------------------------------------------------------------------
sending(tx)      == tx \notin {"invalid", "fine"}
readyToStart(tx) == tx = "invalid"
again(tx)        == tx # "regular"

(* The states that startFrame and endFrame leave; they return sofr, eofr.  *)
startFrame(tx) == IF tx = "invalid" THEN "started" ELSE tx
endFrame(tx)   == IF tx = "regular" THEN "fine" ELSE tx

(* Mutant: the escape character itself is not escaped.                     *)
transformOutEsc(tx, c) ==
  LET t == IF tx = "started" THEN "regular" ELSE tx
  IN  CASE t = "regular" /\ c \in Stuffed \ {esc} -> [tx |-> "stuff",   c |-> esc]
        [] t = "stuff"                   -> [tx |-> "regular", c |-> Mod[c]]
        [] OTHER                         -> [tx |-> t,         c |-> c]

transformOut(tx, c) ==
  LET t == IF tx = "started" THEN "regular" ELSE tx
  IN  CASE t = "regular" /\ c \in Stuffed -> [tx |-> "stuff",   c |-> esc]
        [] t = "stuff"                    -> [tx |-> "regular", c |-> Mod[c]]
        [] OTHER                          -> [tx |-> t,         c |-> c]

-----------------------------------------------------------------------------
restarted(rx) == rx = "started"
finished(rx)  == rx = "fine"

(* data: whether the function returns true, c being payload then.          *)
transformIn(rx, c) ==
  LET r == IF rx = "started" THEN "regular" ELSE rx
      out(s, x, data) == [rx |-> s, c |-> x, data |-> data]
  IN  CASE r \in {"invalid", "regular"} /\ c = sofr -> out("started", c, FALSE)
        [] r = "regular" /\ c = eofr -> out("fine", c, FALSE)
        [] r = "regular" /\ c = esc  -> out("stuff", c, FALSE)
        [] r = "regular" /\ c \notin Stuffed -> out("regular", c, TRUE)
        [] r = "stuff"               -> out("regular", Mod[c], TRUE)
        [] OTHER                     -> out(r, c, FALSE)   \* ignored
=============================================================================
