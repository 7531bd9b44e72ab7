------------------------ MODULE MCCDeviceFrameNoInt -------------------------
(***************************************************************************)
(* CFrameReadable (cframe.new.h:31-34): sofr, eofr and esc are a, s and e, *)
(* and 0x20 is the difference of a letter and its capital.  q stands for a *)
(* character of flow control.                                              *)
(***************************************************************************)
EXTENDS CDeviceFrameNoInt

MCChar == {"a", "A", "s", "S", "e", "E", "q", "Q"}

MCMod == [c \in MCChar |->
            CASE c = "a" -> "A" [] c = "A" -> "a" [] c = "s" -> "S" [] c = "S" -> "s"
              [] c = "e" -> "E" [] c = "E" -> "e" [] c = "q" -> "Q" [] c = "Q" -> "q"]

(* Every message of at most two characters, over a wire without faults, to *)
(* a receiver that has room for one; and a message of each kind - plain,   *)
(* one that looks like a frame, one that looks like an escape and is too   *)
(* long - over a wire that damages two characters.                         *)
MCLinks ==
  {[Message |-> UNION {[1 .. n -> MCChar] : n \in 0 .. 2},
    size |-> 1, MaxSend |-> 2, MaxFault |-> 0],
   [Message |-> {<<"S">>, <<"a", "s">>, <<"e", "E", "S">>},
    size |-> 2, MaxSend |-> 3, MaxFault |-> 2]}
=============================================================================
