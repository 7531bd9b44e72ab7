--------------------------- MODULE MCRemoteRegMap ---------------------------
(***************************************************************************)
(* Registers of the three modes, of one, two and three bytes, that share   *)
(* addresses as the registers of an SRF10 do (remote/srf10.h).             *)
(***************************************************************************)
EXTENDS RemoteRegMap

MCReg == {"distance", "command", "gain"}

MCaddress == [r \in MCReg |-> CASE r = "distance" -> 0 [] r = "command" -> 0 [] r = "gain" -> 1]
MCmode == [r \in MCReg |-> CASE r = "distance" -> "read" [] r = "command" -> "write"
                             [] r = "gain" -> "both"]
MCsize == [r \in MCReg |-> CASE r = "distance" -> 3 [] r = "command" -> 1 [] r = "gain" -> 2]
=============================================================================
