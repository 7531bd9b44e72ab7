----------------------------- MODULE MCLogging ------------------------------
EXTENDS Logging

MCChar == Level \cup
  {"0", "1", "2", "3", "4", "5", "6", "7", "8", "9", "a", "b", "c", "d", "e", "f",
   "x", "-", "?", "m", "n", "h", "i"}

text(s) == [kind |-> "text", text |-> s]
int(v)  == [kind |-> "int", n |-> v]
at(v)   == [kind |-> "ptr", n |-> v]
in(b)   == [kind |-> "base", n |-> b]

message(l, s) == [level |-> l, items |-> s]

(* Every number of 8 bits in every base, with a pointer behind it, and the  *)
(* number again in the base it was left in.                                 *)
MCNumbers ==
  {[Main |-> <<message("normal", <<in(b), int(v), at((v + 16) % 256)>>),
               message("normal", <<int(v)>>)>>,
    Handler |-> {}, Max |-> 0, Locked |-> TRUE,
    Switch |-> FALSE, Ordered |-> TRUE, Zeroed |-> FALSE] :
     b \in {2, 8, 10, 16}, v \in -128 .. 255}

MCMain == <<message("normal", <<in(16), int(26), text(<<"m", "n">>), at(16)>>),
            message("error", <<int(-100)>>)>>

(* A handler that does not disturb, and one that changes base and level.    *)
MCQuiet == {message("error", <<text(<<"h", "i">>), at(255)>>),
            message("normal", <<text(<<"h">>)>>)}
MCNoisy == {message("debug", <<in(2), int(5)>>), message("normal", <<in(2), int(5)>>)}

MCUse(ms, hs, locked, switch, ordered, zeroed) ==
  [Main |-> ms, Handler |-> hs, Max |-> 2, Locked |-> locked, Switch |-> switch,
   Ordered |-> ordered, Zeroed |-> zeroed]

MCUses ==
  MCNumbers
  \cup {MCUse(MCMain, h, locked, switch, ordered, zeroed) :
          h \in {MCQuiet, MCNoisy}, locked, switch, ordered, zeroed \in BOOLEAN}
  \cup {MCUse(<<message("debug", <<in(16), int(1)>>), MCMain[1]>>, MCNoisy, locked, TRUE, TRUE, FALSE) :
          locked \in BOOLEAN}
=============================================================================
