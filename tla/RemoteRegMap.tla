---------------------------- MODULE RemoteRegMap ----------------------------
(***************************************************************************)
(* A register map of a device on a bus: the program changes its copies of  *)
(* the registers and synchronises one of them at a time (SyncRegister,     *)
(* regmaps.h; Register::sync, base/register.h) over the two-wire interface *)
(* (base/twi.h), one transfer of the bus at a time.                        *)
(*                                                                         *)
(* External: the driver of the bus, whose start and write return whether   *)
(* the device has acknowledged them, and the device, which may change its  *)
(* registers at any time, by itself or because of what was written.  It    *)
(* sends a byte after every one that was acknowledged to it; from a bus    *)
(* that no device drives the program reads ones.                           *)
(*                                                                         *)
(* The names that LocalRegMap has too begin with Remote here: RegMapProofs *)
(* is about both.                                                          *)
(***************************************************************************)
EXTENDS Naturals, Sequences

CONSTANTS
  Reg,                  \* the registers of the map
  address, mode, size,  \* of each: address, mode and number of bytes
  Byte, ones            \* the values of a byte; 0xFF

ASSUME RegAssumption ==
  /\ address \in [Reg -> Nat] /\ size \in [Reg -> Nat \ {0}]
  /\ mode \in [Reg -> {"read", "write", "both"}]

(* What a copy holds before it is read or assigned; no byte of the device.  *)
Unknown == "unknown"

ASSUME ByteAssumption == ones \in Byte /\ Unknown \notin Byte

(* The addresses of register r; those of the device.                       *)
At(r, k) == address[r] + k - 1
BytesOf(r) == 1 .. size[r]
Own(r) == {At(r, k) : k \in BytesOf(r)}
Address == UNION {Own(r) : r \in Reg}

VARIABLES
  dev, pointer,     \* the device: its bytes, and the address of the next one
  bus,              \* free, or taken: the device is written to, read from, or
                    \* deaf: it has not acknowledged, or was not
  local, init,      \* the copies, and Register::init
  pc, reg, k,       \* where a synchronisation is, of which register and byte
  result,           \* what it returns
  given, seen       \* the copy when it began; what the bytes have been since

device == <<dev, pointer>>
call   == <<pc, reg, k, result, given>>
copies == <<local, init>>
remoteVars == <<device, bus, copies, call, seen>>

RemoteTypeOK ==
  /\ dev \in [Address -> Byte \cup {Unknown}]
  /\ pointer \in Nat
  /\ bus \in {"free", "write", "read", "deaf"}
  /\ \A r \in Reg : local[r] \in [BytesOf(r) -> Byte \cup {Unknown}]
  /\ init \subseteq {r \in Reg : mode[r] = "both"}
  /\ pc \in {"idle", "done", "wstart", "waddress", "wdata", "wstop",
             "rstart", "raddress", "rrestart", "rdata", "rstop"}
  /\ reg \in Reg /\ k \in 1 .. size[reg] + 1 /\ result \in BOOLEAN

RemoteInit ==
  /\ dev \in [Address -> Byte] /\ pointer = 0 /\ bus = "free"
  /\ local = [r \in Reg |-> [j \in BytesOf(r) |-> Unknown]] /\ init = {}
  /\ pc = "idle" /\ reg \in Reg /\ k = 1 /\ result = FALSE
  /\ given = local[reg] /\ seen = [j \in BytesOf(reg) |-> {}]

Resting == pc \in {"idle", "done"}

-----------------------------------------------------------------------------
(* The device changes the byte at a, by itself or because of the program.  *)
Sees(r) ==
  seen' = IF Resting THEN seen
          ELSE [j \in DOMAIN seen |-> seen[j] \cup {dev'[At(r, j)]}]

Change(a, b) ==
  /\ dev' = [dev EXCEPT ![a] = b]
  /\ Sees(reg)
  /\ UNCHANGED <<pointer, bus, copies, call>>

(* The program assigns a byte of its copy.                                 *)
assignByte(r, j, b) ==
  /\ Resting /\ mode[r] # "read"
  /\ local' = [local EXCEPT ![r][j] = b]
  /\ pc' = "idle"
  /\ UNCHANGED <<device, bus, init, reg, k, result, given, seen>>

(* Mutant: a register of both modes is written before it has been read.     *)
FirstAlways(r) == IF mode[r] = "read" THEN "rstart" ELSE "wstart"

(* Register::sync of the three modes.  The program assigns a register that *)
(* is only written before it synchronises it.                              *)
First(r) ==
  IF mode[r] = "write" \/ r \in init THEN "wstart" ELSE "rstart"

sync(r) ==
  /\ Resting
  /\ mode[r] = "write" => \A j \in BytesOf(r) : local[r][j] # Unknown
  /\ pc' = First(r) /\ reg' = r /\ k' = 1 /\ result' = TRUE
  /\ given' = local[r]
  /\ seen' = [j \in BytesOf(r) |-> {dev[At(r, j)]}]
  /\ UNCHANGED <<device, bus, copies>>

(* Mutant: the register is read although it could not be written.          *)
FailsOnce ==
  /\ pc' = IF mode[reg] = "both" /\ pc \in {"wstart", "waddress", "wdata"}
             THEN "rstart" ELSE "done"
  /\ result' = FALSE
  /\ bus' = "deaf"

Fails ==
  /\ pc' = "done" /\ result' = FALSE
  /\ bus' = "deaf"

-----------------------------------------------------------------------------
(* TWI::write.  It returns without a stop when it is not acknowledged.     *)

writeStart ==
  /\ pc = "wstart"
  /\ \/ pc' = "waddress" /\ bus' = "write" /\ UNCHANGED result
     \/ Fails
  /\ UNCHANGED <<device, copies, reg, k, given, seen>>

writeAddress ==
  /\ pc = "waddress"
  /\ \/ pc' = "wdata" /\ pointer' = address[reg] /\ UNCHANGED <<bus, result>>
     \/ Fails /\ UNCHANGED pointer
  /\ UNCHANGED <<dev, copies, reg, k, given, seen>>

(* Mutant: --size.                                                         *)
lastByteEarly == k + 1 >= size[reg]

lastByte == k = size[reg]

writeData ==
  /\ pc = "wdata"
  /\ \/ /\ dev' = [dev EXCEPT ![pointer] = local[reg][k]]
        /\ pointer' = pointer + 1 /\ k' = k + 1
        /\ pc' = IF lastByte THEN "wstop" ELSE "wdata"
        /\ UNCHANGED <<bus, result>>
     \/ Fails /\ UNCHANGED <<device, k>>
  /\ Sees(reg)
  /\ UNCHANGED <<copies, reg, given>>

(* Register::sync goes on to read a register of both modes.                *)
writeStop ==
  /\ pc = "wstop"
  /\ bus' = "free"
  /\ pc' = IF mode[reg] = "both" THEN "rstart" ELSE "done"
  /\ k' = 1
  /\ UNCHANGED <<device, copies, reg, result, given, seen>>

-----------------------------------------------------------------------------
(* TWI::read: the address is written, then the bytes are read.             *)

readStart ==
  /\ pc = "rstart"
  /\ \/ pc' = "raddress" /\ bus' = "write" /\ UNCHANGED result
     \/ Fails
  /\ UNCHANGED <<device, copies, reg, k, given, seen>>

readAddress ==
  /\ pc = "raddress"
  /\ \/ pc' = "rrestart" /\ pointer' = address[reg] /\ UNCHANGED <<bus, result>>
     \/ Fails /\ UNCHANGED pointer
  /\ UNCHANGED <<dev, copies, reg, k, given, seen>>

(* Mutant: the result of the second start is not tested.                   *)
readRestartUntested ==
  /\ pc = "rrestart"
  /\ pc' = "rdata" /\ bus' \in {"read", "deaf"}
  /\ UNCHANGED <<device, copies, reg, k, result, given, seen>>

readRestart ==
  /\ pc = "rrestart"
  /\ \/ pc' = "rdata" /\ bus' = "read" /\ UNCHANGED result
     \/ Fails
  /\ UNCHANGED <<device, copies, reg, k, given, seen>>

(* The argument of the driver's read, whether to acknowledge byte k; size  *)
(* has been decremented when it is tested.                                 *)
acknowledges == size[reg] - k # 1

readData ==
  /\ pc = "rdata"
  /\ local' = [local EXCEPT ![reg][k] = IF bus = "read" THEN dev[pointer] ELSE ones]
  /\ pointer' = pointer + 1 /\ k' = k + 1
  /\ bus' = IF acknowledges THEN bus ELSE "deaf"
  /\ pc' = IF k = size[reg] THEN "rstop" ELSE "rdata"
  /\ UNCHANGED <<dev, init, reg, result, given, seen>>

readStop ==
  /\ pc = "rstop"
  /\ bus' = "free"
  /\ init' = IF mode[reg] = "both" THEN init \cup {reg} ELSE init
  /\ pc' = "done" /\ k' = 1
  /\ UNCHANGED <<device, local, reg, result, given, seen>>

-----------------------------------------------------------------------------
RemoteNext ==
  \/ \E a \in Address, b \in Byte : Change(a, b)
  \/ \E r \in Reg : sync(r) \/ \E j \in BytesOf(r), b \in Byte : assignByte(r, j, b)
  \/ writeStart \/ writeAddress \/ writeData \/ writeStop
  \/ readStart \/ readAddress \/ readRestart \/ readData \/ readStop

RemoteSpec == RemoteInit /\ [][RemoteNext]_remoteVars

-----------------------------------------------------------------------------
(***************************************************************************)
(* A synchronisation that returns true has read what the device held in    *)
(* the meantime, whatever the device does and however the synchronisations *)
(* before it have failed - the last byte of several apart, which nobody    *)
(* sends, because the one before it was not acknowledged (twi.h:89).       *)
(***************************************************************************)
ReadsDevice ==
  pc = "done" /\ result /\ mode[reg] # "write" =>
    \A j \in BytesOf(reg) : j = 1 \/ j < size[reg] => local[reg][j] \in seen[j]

(***************************************************************************)
(* One that fails, at whatever transfer, leaves the copy of the program as *)
(* it was (register.h:164-183), so that it can be tried again.             *)
(***************************************************************************)
FailureKeepsCopy == pc = "done" /\ ~ result => local[reg] = given

(***************************************************************************)
(* What the program has neither read nor assigned never reaches the        *)
(* device: a register of both modes is not written before it has been read *)
(* whole (register.h:167-180), also if its first synchronisations fail.    *)
(***************************************************************************)
NothingUnknownWritten == \A a \in Address : dev[a] # Unknown

(***************************************************************************)
(* A register that is written (twi.h:59-72) has been put on the device     *)
(* whole when the bus is released, and no other address was written.       *)
(***************************************************************************)
Writes ==
  [][/\ writeStop => \A j \in BytesOf(reg) : given[j] \in seen[j]
     /\ call' # call => \A a \in Address \ Own(reg) : dev'[a] = dev[a]]_remoteVars
=============================================================================
