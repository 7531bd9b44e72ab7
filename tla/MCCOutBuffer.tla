---------------------------- MODULE MCCOutBuffer ----------------------------
EXTENDS COutBuffer

MCUse(waits, locked, callback) ==
  [Waits |-> waits, Locked |-> locked, Callback |-> callback]

(* Every use but that of a callback that runs in the main program and in   *)
(* the handler without a lock.                                             *)
MCUses == Use \ {u \in Use : u.Callback /\ (u.Waits \/ ~ u.Locked)}
=============================================================================
