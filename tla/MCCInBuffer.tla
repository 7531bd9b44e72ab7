---------------------------- MODULE MCCInBuffer -----------------------------
EXTENDS CInBuffer

(* Every use but that of a callback that runs in the main program and in   *)
(* the handler without a lock.                                             *)
MCUses == Use \ {[Locked |-> FALSE, Callback |-> TRUE]}

MCUnlocked == {[Locked |-> FALSE, Callback |-> FALSE]}
=============================================================================
