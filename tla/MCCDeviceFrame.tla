--------------------------- MODULE MCCDeviceFrame ---------------------------
(***************************************************************************)
(* CFrameReadable (cframe.new.h:31-34): sofr, eofr and esc are a, s and e, *)
(* and 0x20 is the difference of a letter and its capital.                 *)
(***************************************************************************)
EXTENDS CDeviceFrame

MCChar == {"a", "A", "s", "S", "e", "E"}

MCMod == [c \in MCChar |->
            CASE c = "a" -> "A" [] c = "A" -> "a" [] c = "s" -> "S"
              [] c = "S" -> "s" [] c = "e" -> "E" [] c = "E" -> "e"]

(* Nothing, a plain character, an escaped one, as many as the payload has. *)
MCMessage == {<< >>, <<"S">>, <<"s">>, <<"a", "E", "s">>}

(* The peer sends n messages, short, or long with a character to escape.   *)
MCPeers(n) == [1 .. n -> {<<"S">>, <<"e", "E", "A">>}]

MCUse(sendback, recvback, locked, size, n, peers) ==
  [SendBack |-> sendback, RecvBack |-> recvback, Locked |-> locked, Size |-> size,
   MaxSend |-> n, Peers |-> peers]

(* Sending alone and receiving alone need no lock, both together do; main  *)
(* sends one message, the callback several.  The buffer holds the longest  *)
(* message or only the short one.                                          *)
MCUses == {MCUse(FALSE, TRUE, TRUE, 3, 1, {<< >>}),
           MCUse(TRUE, TRUE, FALSE, 3, 3, {<< >>}),
           MCUse(TRUE, FALSE, FALSE, 3, 0, MCPeers(3)),
           MCUse(TRUE, FALSE, FALSE, 1, 0, MCPeers(3)),
           MCUse(TRUE, TRUE, FALSE, 1, 0, MCPeers(3)),
           MCUse(TRUE, TRUE, TRUE, 3, 2, {<<<<"e", "E", "A">>, <<"S">>>>}),
           MCUse(TRUE, FALSE, TRUE, 3, 1, {<<<<"e", "E", "A">>, <<"S">>>>})}

(* Sending and receiving without a lock.                                   *)
MCUnlocked == {MCUse(TRUE, FALSE, FALSE, 3, 1, MCPeers(2))}
=============================================================================
