---------------------------- MODULE RegMapProofs ----------------------------
(***************************************************************************)
(* Theorems about the register maps (regmaps.h), of devices on a bus and   *)
(* of the controller.                                                      *)
(***************************************************************************)
EXTENDS RemoteRegMap, LocalRegMap, TLAPS

-----------------------------------------------------------------------------
(***************************************************************************)
(* RemoteRegMap, for every set of registers, with any addresses, shared    *)
(* ones included, modes and sizes: what a synchronisation reads, writes    *)
(* and, when it fails, leaves alone.                                       *)
(***************************************************************************)
Value == Byte \cup {Unknown}

(* The transfers of a write, and the others before the first byte is read. *)
Writing == pc \in {"wstart", "waddress", "wdata", "wstop"}
BeforeRead == Writing \/ pc \in {"rstart", "raddress", "rrestart"}

RemoteTypeInv ==
  /\ dev \in [Address -> Byte]
  /\ pointer \in Nat
  /\ DOMAIN local = Reg /\ \A r \in Reg : local[r] \in [BytesOf(r) -> Value]
  /\ init \subseteq {r \in Reg : mode[r] = "both"}
  /\ reg \in Reg /\ k \in Nat /\ result \in BOOLEAN
  /\ given \in [BytesOf(reg) -> Value]
  /\ seen \in [BytesOf(reg) -> SUBSET Byte]
  /\ bus \in {"free", "write", "read", "deaf"}
  /\ \/ Resting \/ Writing \/ BeforeRead \/ pc \in {"rdata", "rstop"}

(* The byte a transfer is about, and where the device takes it to be: only *)
(* the last of several bytes is read from a bus that no device drives.     *)
PlaceInv ==
  /\ k \in 1 .. size[reg] + 1
  /\ pc \in {"wstart", "waddress", "rstart", "raddress", "rrestart"} => k = 1
  /\ pc = "rrestart" => pointer = At(reg, 1)
  /\ pc \in {"wdata", "rdata"} => k \in BytesOf(reg)
  /\ pc = "wdata" => pointer = At(reg, k)
  /\ pc = "rdata" => \/ bus = "read" /\ pointer = At(reg, k)
                     \/ bus = "deaf" /\ k = size[reg] /\ k # 1
  /\ pc \in {"wstop", "rstop"} => k = size[reg] + 1

(* Nothing unknown is on its way: the registers that have been read once   *)
(* and the one that is being written are known.                            *)
Known(r) == \A j \in BytesOf(r) : local[r][j] \in Byte

KnownInv ==
  /\ \A r \in init : Known(r)
  /\ Writing => Known(reg) /\ mode[reg] # "read"
  /\ pc \in {"rdata", "rstop"} => \A j \in BytesOf(reg) : j < k => local[reg][j] \in Byte

(* What the bytes are now, what has been read of them and what has been    *)
(* written.                                                                *)
SeenInv ==
  /\ ~ Resting => result /\ \A j \in BytesOf(reg) : dev[At(reg, j)] \in seen[j]
  /\ pc \in {"rdata", "rstop"} =>
       \A j \in BytesOf(reg) : j < k /\ (j = 1 \/ j < size[reg]) => local[reg][j] \in seen[j]
  /\ pc \in {"wdata", "wstop"} => \A j \in BytesOf(reg) : j < k => given[j] \in seen[j]
  /\ ReadsDevice

(* Nothing fails once a byte has been read.                                *)
FailureInv == BeforeRead \/ (pc = "done" /\ ~ result) => local[reg] = given

RemoteIInv == RemoteTypeInv /\ PlaceInv /\ KnownInv /\ SeenInv /\ FailureInv

-----------------------------------------------------------------------------
(* Every byte of a register has an address of its own on the device.       *)
LEMMA RemotePlaces ==
  /\ \A r \in Reg : size[r] \in Nat \ {0} /\ address[r] \in Nat /\ 1 \in BytesOf(r)
  /\ \A r \in Reg : \A j \in BytesOf(r) : At(r, j) \in Own(r) /\ At(r, j) \in Address /\ At(r, j) \in Nat
  /\ \A r \in Reg : \A i, j \in BytesOf(r) : At(r, i) = At(r, j) => i = j
  /\ \A r \in Reg : Own(r) \subseteq Address
  /\ \A r \in Reg : \A j \in BytesOf(r) : j \in Nat /\ 1 <= j /\ j <= size[r]
  /\ Address \subseteq Nat
<1>1. \A r \in Reg : size[r] \in Nat \ {0} /\ address[r] \in Nat /\ 1 \in BytesOf(r)
  BY RegAssumption DEF BytesOf
<1>2. \A r \in Reg : \A j \in BytesOf(r) : j \in Nat /\ 1 <= j /\ j <= size[r] /\ At(r, j) \in Nat
  BY <1>1 DEF BytesOf, At
<1>3. \A r \in Reg : \A i, j \in BytesOf(r) : At(r, i) = At(r, j) => i = j
  BY <1>1, <1>2 DEF At
<1>4. \A r \in Reg : \A j \in BytesOf(r) : At(r, j) \in Own(r)
  BY Zenon DEF Own
<1>5. \A r \in Reg : Own(r) \subseteq Address
  BY Zenon DEF Address
<1>6. Address \subseteq Nat
  BY <1>2 DEF Address, Own
<1> QED BY <1>1, <1>2, <1>3, <1>4, <1>5, <1>6, Zenon

LEMMA RemoteInitIInv == RemoteInit => RemoteIInv
<1> SUFFICES ASSUME RemoteInit PROVE RemoteIInv
  OBVIOUS
<1>1. \A r \in Reg : local[r] = [j \in BytesOf(r) |-> Unknown]
  BY Zenon DEF RemoteInit
<1>2. \A r \in Reg : local[r] \in [BytesOf(r) -> Value]
  BY <1>1 DEF Value
<1>3. RemoteTypeInv
  BY <1>2 DEF RemoteInit, RemoteTypeInv, Resting
<1>4. PlaceInv
  BY RemotePlaces DEF RemoteInit, PlaceInv
<1>5. KnownInv /\ SeenInv /\ FailureInv
  BY DEF RemoteInit, KnownInv, SeenInv, FailureInv, ReadsDevice, Writing, BeforeRead, Resting
<1> QED BY <1>3, <1>4, <1>5 DEF RemoteIInv

(* The two steps that move a byte: of the register's own, at its place.     *)
LEMMA WriteDataStep ==
  ASSUME RemoteIInv, writeData
  PROVE  /\ pc = "wdata" /\ k \in BytesOf(reg) /\ local[reg][k] \in Byte
         /\ UNCHANGED <<local, init, reg, given>>
         /\ \/ /\ dev' = [dev EXCEPT ![At(reg, k)] = local[reg][k]]
               /\ pointer' = At(reg, k) + 1 /\ k' = k + 1
               /\ pc' = IF k = size[reg] THEN "wstop" ELSE "wdata"
               /\ bus' = bus /\ result' = result
            \/ /\ pc' = "done" /\ result' = FALSE /\ bus' = "deaf"
               /\ dev' = dev /\ pointer' = pointer /\ k' = k
         /\ seen' = [j \in BytesOf(reg) |-> seen[j] \cup {dev'[At(reg, j)]}]
<1>1. pc = "wdata" /\ k \in BytesOf(reg) /\ pointer = At(reg, k) /\ local[reg][k] \in Byte
  BY DEF writeData, RemoteIInv, RemoteTypeInv, PlaceInv, KnownInv, Known, Writing
<1>2. DOMAIN seen = BytesOf(reg)
  BY DEF RemoteIInv, RemoteTypeInv
<1>3. seen' = [j \in BytesOf(reg) |-> seen[j] \cup {dev'[At(reg, j)]}]
  BY <1>1, <1>2 DEF writeData, Sees, Resting
<1>4. CASE Fails /\ UNCHANGED <<device, k>>
  BY <1>1, <1>3, <1>4 DEF writeData, Fails, device, copies
<1>5. CASE /\ dev' = [dev EXCEPT ![pointer] = local[reg][k]]
           /\ pointer' = pointer + 1 /\ k' = k + 1
           /\ pc' = IF lastByte THEN "wstop" ELSE "wdata"
           /\ UNCHANGED <<bus, result>>
  BY <1>1, <1>3, <1>5 DEF writeData, copies, lastByte
<1> QED BY <1>4, <1>5, Zenon DEF writeData

LEMMA ReadDataStep ==
  ASSUME RemoteIInv, readData
  PROVE  /\ pc = "rdata" /\ k \in BytesOf(reg)
         /\ UNCHANGED <<dev, init, reg, result, given, seen>>
         /\ pointer' = pointer + 1 /\ k' = k + 1
         /\ pc' = IF k = size[reg] THEN "rstop" ELSE "rdata"
         /\ bus' = IF size[reg] - k # 1 THEN bus ELSE "deaf"
         /\ DOMAIN local' = Reg /\ \A r \in Reg : local'[r] \in [BytesOf(r) -> Value]
         /\ \A r \in Reg \ {reg} : local'[r] = local[r]
         /\ \A j \in BytesOf(reg) \ {k} : local'[reg][j] = local[reg][j]
         /\ local'[reg][k] \in Byte
         /\ k = 1 \/ k < size[reg] => local'[reg][k] = dev[At(reg, k)]
<1>1. /\ pc = "rdata" /\ k \in BytesOf(reg) /\ reg \in Reg
      /\ bus = "read" => pointer = At(reg, k)
      /\ bus # "read" => k = size[reg] /\ k # 1
  BY DEF readData, RemoteIInv, RemoteTypeInv, PlaceInv
<1>2. bus = "read" => dev[pointer] \in Byte
  BY <1>1, RemotePlaces DEF RemoteIInv, RemoteTypeInv
<1> DEFINE b == IF bus = "read" THEN dev[pointer] ELSE ones
<1>3. b \in Byte
  BY <1>2, ByteAssumption
<1>4. k = 1 \/ k < size[reg] => b = dev[At(reg, k)]
  BY <1>1, RemotePlaces
<1> HIDE DEF b
<1>5. local' = [local EXCEPT ![reg] = [local[reg] EXCEPT ![k] = b]]
  BY DEF readData, b
<1>6. DOMAIN local = Reg /\ \A r \in Reg : local[r] \in [BytesOf(r) -> Value]
  BY DEF RemoteIInv, RemoteTypeInv
<1>7. /\ DOMAIN local' = Reg /\ local'[reg] = [local[reg] EXCEPT ![k] = b]
      /\ \A r \in Reg \ {reg} : local'[r] = local[r]
  BY <1>1, <1>5, <1>6
<1>8. /\ local'[reg][k] = b
      /\ \A j \in BytesOf(reg) \ {k} : local'[reg][j] = local[reg][j]
      /\ local'[reg] \in [BytesOf(reg) -> Value]
  BY <1>1, <1>3, <1>6, <1>7 DEF Value
<1>9. \A r \in Reg : local'[r] \in [BytesOf(r) -> Value]
  BY <1>6, <1>7, <1>8
<1> QED BY <1>1, <1>3, <1>4, <1>7, <1>8, <1>9 DEF readData, acknowledges

(* The types after every step.                                             *)
LEMMA TypeStep == RemoteIInv /\ [RemoteNext]_remoteVars => RemoteTypeInv'
<1> SUFFICES ASSUME RemoteIInv, [RemoteNext]_remoteVars PROVE RemoteTypeInv'
  OBVIOUS
<1> USE DEF RemoteTypeInv
<1>a. RemoteTypeInv /\ PlaceInv /\ KnownInv
  BY DEF RemoteIInv
<1>1. ASSUME NEW a \in Address, NEW b \in Byte, Change(a, b) PROVE RemoteTypeInv'
  <2>1. UNCHANGED <<pointer, bus, local, init, pc, reg, k, result, given>>
    BY <1>1 DEF Change, copies, call
  <2>2. dev' \in [Address -> Byte]
    BY <1>1, <1>a DEF Change
  <2>3. \A j \in BytesOf(reg) : dev'[At(reg, j)] \in Byte
    BY <1>a, <2>2, RemotePlaces
  <2>4. seen' \in [BytesOf(reg) -> SUBSET Byte]
    BY <1>1, <1>a, <2>3 DEF Change, Sees
  <2> QED BY <1>a, <2>1, <2>2, <2>4 DEF Resting, Writing, BeforeRead
<1>2. ASSUME NEW r \in Reg, NEW j \in BytesOf(r), NEW b \in Byte, assignByte(r, j, b) PROVE RemoteTypeInv'
  <2>1. /\ UNCHANGED <<dev, pointer, bus, init, reg, k, result, given, seen>>
        /\ pc' = "idle" /\ local' = [local EXCEPT ![r][j] = b]
    BY <1>2 DEF assignByte, device
  <2>2. b \in Value
    BY DEF Value
  <2>3. DOMAIN local' = Reg /\ \A q \in Reg : local'[q] \in [BytesOf(q) -> Value]
    BY <2>1, <2>2, <1>a
  <2> QED BY <1>a, <2>1, <2>3 DEF Resting
<1>3. ASSUME NEW r \in Reg, sync(r) PROVE RemoteTypeInv'
  <2>1. /\ UNCHANGED <<dev, pointer, bus, local, init>>
        /\ pc' = First(r) /\ reg' = r /\ k' = 1 /\ result' = TRUE
        /\ given' = local[r]
        /\ seen' = [j \in BytesOf(r) |-> {dev[At(r, j)]}]
    BY <1>3 DEF sync, device, copies
  <2>2. seen' \in [BytesOf(r) -> SUBSET Byte]
    BY <2>1, <1>a, RemotePlaces
  <2>3. pc' \in {"wstart", "rstart"}
    BY <2>1 DEF First
  <2> QED BY <1>a, <2>1, <2>2, <2>3 DEF Writing, BeforeRead
<1>4. CASE writeStart \/ readStart \/ readRestart
  BY <1>4, <1>a DEF writeStart, readStart, readRestart, Fails, device, copies, Resting, Writing, BeforeRead
<1>5. CASE writeAddress \/ readAddress
  BY <1>5, <1>a, RemotePlaces DEF writeAddress, readAddress, Fails, copies, Resting, Writing, BeforeRead
<1>6. CASE writeData
  <2>1. dev' \in [Address -> Byte]
    BY <1>6, <1>a, WriteDataStep, RemotePlaces
  <2>2. UNCHANGED <<local, init, reg, given>>
    BY <1>6, WriteDataStep
  <2>3. \A j \in BytesOf(reg) : dev'[At(reg, j)] \in Byte
    BY <1>a, <2>1, RemotePlaces
  <2>4. seen' \in [BytesOf(reg) -> SUBSET Byte]
    BY <1>6, <1>a, <2>3, WriteDataStep
  <2>5. /\ pc' \in {"wdata", "wstop", "done"} /\ result' \in {result, FALSE}
        /\ bus' \in {bus, "deaf"}
        /\ k' \in {k, k + 1} /\ pointer' \in {pointer, At(reg, k) + 1} /\ k \in BytesOf(reg)
    BY <1>6, WriteDataStep
  <2>6. pointer' \in Nat /\ k' \in Nat
    BY <1>a, <2>5, RemotePlaces
  <2>7. result' \in BOOLEAN
    BY <1>a, <2>5, Zenon
  <2> QED BY <1>a, <2>1, <2>2, <2>4, <2>5, <2>6, <2>7 DEF Resting, Writing
<1>7. CASE writeStop
  BY <1>7, <1>a DEF writeStop, device, copies, Resting, BeforeRead
<1>8. CASE readData
  <2>1. /\ UNCHANGED <<dev, init, reg, result, given, seen>>
        /\ pointer' \in Nat /\ k' \in Nat /\ bus' \in {bus, "deaf"}
        /\ pc' \in {"rstop", "rdata"}
    BY <1>8, <1>a, ReadDataStep
  <2>2. DOMAIN local' = Reg /\ \A q \in Reg : local'[q] \in [BytesOf(q) -> Value]
    BY <1>8, ReadDataStep
  <2> QED BY <1>a, <2>1, <2>2
<1>9. CASE readStop
  <2>1. /\ UNCHANGED <<dev, pointer, local, reg, result, given, seen>>
        /\ pc' = "done" /\ k' = 1 /\ bus' = "free"
        /\ init' = IF mode[reg] = "both" THEN init \cup {reg} ELSE init
    BY <1>9 DEF readStop, device
  <2> QED BY <1>a, <2>1 DEF Resting
<1>10. CASE UNCHANGED remoteVars
  BY <1>10, <1>a DEF remoteVars, device, copies, call, Resting, Writing, BeforeRead
<1> QED BY <1>1, <1>2, <1>3, <1>4, <1>5, <1>6, <1>7, <1>8, <1>9, <1>10 DEF RemoteNext

-----------------------------------------------------------------------------
(* Each byte at its place.                                                 *)
LEMMA PlaceStep == RemoteIInv /\ [RemoteNext]_remoteVars => PlaceInv'
<1> SUFFICES ASSUME RemoteIInv, [RemoteNext]_remoteVars PROVE PlaceInv'
  OBVIOUS
<1> USE DEF PlaceInv
<1>a. PlaceInv /\ reg \in Reg /\ k \in Nat
  BY DEF RemoteIInv, RemoteTypeInv
<1>b. size[reg] \in Nat \ {0} /\ address[reg] \in Nat
  BY <1>a, RemotePlaces
<1>1. ASSUME NEW a \in Address, NEW b \in Byte, Change(a, b) PROVE PlaceInv'
  BY <1>1, <1>a DEF Change, copies, call, At, BytesOf
<1>2. ASSUME NEW r \in Reg, NEW j \in BytesOf(r), NEW b \in Byte, assignByte(r, j, b) PROVE PlaceInv'
  BY <1>2, <1>a DEF assignByte, device, At, BytesOf
<1>3. ASSUME NEW r \in Reg, sync(r) PROVE PlaceInv'
  <2>1. pc' \in {"wstart", "rstart"} /\ reg' = r /\ k' = 1
    BY <1>3 DEF sync, First
  <2> QED BY <2>1, RemotePlaces
<1>4. CASE writeStart \/ readStart
  BY <1>4, <1>a DEF writeStart, readStart, Fails, device, copies
<1>5. CASE readRestart
  BY <1>5, <1>a, <1>b DEF readRestart, Fails, device, copies, At, BytesOf
<1>6. CASE writeAddress
  BY <1>6, <1>a, <1>b DEF writeAddress, Fails, copies, At, BytesOf
<1>7. CASE readAddress
  BY <1>7, <1>a, <1>b DEF readAddress, Fails, copies, At, BytesOf
<1>8. CASE writeData
  <2>1. /\ reg' = reg /\ k \in 1 .. size[reg]
        /\ \/ k' = k /\ pc' = "done"
           \/ /\ pointer' = At(reg, k) + 1 /\ k' = k + 1
              /\ pc' = IF k = size[reg] THEN "wstop" ELSE "wdata"
    BY <1>8, WriteDataStep DEF BytesOf
  <2> QED BY <2>1, <1>b DEF At, BytesOf
<1>9. CASE readData
  <2>1. /\ reg' = reg /\ k \in 1 .. size[reg] /\ k' = k + 1 /\ pointer' = pointer + 1
        /\ pc' = IF k = size[reg] THEN "rstop" ELSE "rdata"
        /\ bus' = IF size[reg] - k # 1 THEN bus ELSE "deaf"
    BY <1>9, ReadDataStep DEF BytesOf
  <2>2. \/ bus = "read" /\ pointer = At(reg, k)
        \/ bus = "deaf" /\ k = size[reg] /\ k # 1
    BY <1>9, <1>a DEF readData
  <2>3. CASE k = size[reg]
    BY <2>1, <2>3, <1>b
  <2>4. CASE k # size[reg]
    BY <2>1, <2>2, <2>4, <1>b DEF At, BytesOf
  <2> QED BY <2>3, <2>4
<1>10. CASE writeStop \/ readStop
  BY <1>10, <1>a, <1>b DEF writeStop, readStop, device
<1>11. CASE UNCHANGED remoteVars
  BY <1>11, <1>a DEF remoteVars, device, call, At, BytesOf
<1> QED BY <1>1, <1>2, <1>3, <1>4, <1>5, <1>6, <1>7, <1>8, <1>9, <1>10, <1>11 DEF RemoteNext

(* What is known stays known.                                              *)
LEMMA KnownStep == RemoteIInv /\ [RemoteNext]_remoteVars => KnownInv'
<1> SUFFICES ASSUME RemoteIInv, [RemoteNext]_remoteVars PROVE KnownInv'
  OBVIOUS
<1> USE DEF KnownInv
<1>a. RemoteTypeInv /\ KnownInv /\ PlaceInv
  BY DEF RemoteIInv
<1>b. \A r \in init : r \in Reg /\ mode[r] = "both"
  BY <1>a DEF RemoteTypeInv
<1>1. ASSUME NEW a \in Address, NEW b \in Byte, Change(a, b) PROVE KnownInv'
  BY <1>1, <1>a DEF Change, copies, call, Known, Writing
<1>2. ASSUME NEW r \in Reg, NEW j \in BytesOf(r), NEW b \in Byte, assignByte(r, j, b) PROVE KnownInv'
  <2>1. pc' = "idle" /\ init' = init /\ local' = [local EXCEPT ![r][j] = b]
    BY <1>2 DEF assignByte
  <2>2. \A q \in init : Known(q)'
    BY <2>1, <1>a, <1>b DEF Known, RemoteTypeInv
  <2> QED BY <2>1, <2>2 DEF Writing
<1>3. ASSUME NEW r \in Reg, sync(r) PROVE KnownInv'
  <2>1. UNCHANGED <<local, init>> /\ pc' = First(r) /\ reg' = r
    BY <1>3 DEF sync, copies
  <2>2. mode[r] \in {"read", "write", "both"} /\ local[r] \in [BytesOf(r) -> Value]
    BY <1>a, RegAssumption DEF RemoteTypeInv
  <2>3. mode[r] = "write" => Known(r)
    BY <1>3, <2>2 DEF sync, Known, Value
  <2>4. pc' \in {"wstart", "rstart"} /\ (pc' = "wstart" => Known(r) /\ mode[r] # "read")
    BY <2>1, <2>2, <2>3, <1>a, <1>b DEF First
  <2> QED BY <2>1, <2>4, <1>a DEF Known, Writing
<1>4. CASE writeStart \/ readStart
  BY <1>4, <1>a DEF writeStart, readStart, Fails, device, copies, Known, Writing
<1>5. CASE readRestart
  <2>1. UNCHANGED <<local, init, reg, k>> /\ pc' \in {"rdata", "done"} /\ k = 1
    BY <1>5, <1>a DEF readRestart, Fails, copies, PlaceInv
  <2>2. \A j \in BytesOf(reg) : ~ (j < 1)
    BY DEF BytesOf
  <2> QED BY <2>1, <2>2, <1>a DEF Known, Writing
<1>6. CASE writeAddress \/ readAddress
  BY <1>6, <1>a DEF writeAddress, readAddress, Fails, copies, Known, Writing
<1>7. CASE writeData
  <2>1. UNCHANGED <<local, init, reg>> /\ pc = "wdata" /\ pc' \in {"wdata", "wstop", "done"}
    BY <1>7, WriteDataStep
  <2> QED BY <2>1, <1>a DEF Known, Writing
<1>8. CASE readData
  <2>1. /\ UNCHANGED <<init, reg>> /\ k' = k + 1 /\ k \in BytesOf(reg)
        /\ pc = "rdata" /\ pc' \in {"rdata", "rstop"}
    BY <1>8, ReadDataStep
  <2>2. /\ \A r \in Reg \ {reg} : local'[r] = local[r]
        /\ \A j \in BytesOf(reg) \ {k} : local'[reg][j] = local[reg][j]
        /\ local'[reg][k] \in Byte
    BY <1>8, ReadDataStep
  <2>3. \A q \in init : Known(q)'
    BY <2>1, <2>2, <1>a, <1>b DEF Known
  <2>4. \A j \in BytesOf(reg) : j < k + 1 => j < k \/ j = k
    BY <1>a DEF BytesOf, RemoteTypeInv
  <2>5. \A j \in BytesOf(reg) : j < k + 1 => local'[reg][j] \in Byte
    BY <2>1, <2>2, <2>4, <1>a
  <2> QED BY <2>1, <2>3, <2>5 DEF Writing
<1>9. CASE writeStop
  <2>1. UNCHANGED <<local, init>> /\ pc' \in {"rstart", "done"}
    BY <1>9 DEF writeStop, copies
  <2> QED BY <2>1, <1>a DEF Known, Writing
<1>10. CASE readStop
  <2>1. UNCHANGED local /\ pc' = "done" /\ init' \subseteq init \cup {reg} /\ k = size[reg] + 1 /\ pc = "rstop"
    BY <1>10, <1>a DEF readStop, PlaceInv
  <2>2. \A j \in BytesOf(reg) : j < k
    BY <2>1, <1>a, RemotePlaces DEF RemoteTypeInv
  <2>3. Known(reg)
    BY <2>1, <2>2, <1>a DEF Known
  <2> QED BY <2>1, <2>3, <1>a DEF Known, Writing
<1>11. CASE UNCHANGED remoteVars
  BY <1>11, <1>a DEF remoteVars, copies, call, Known, Writing
<1> QED BY <1>1, <1>2, <1>3, <1>4, <1>5, <1>6, <1>7, <1>8, <1>9, <1>10, <1>11 DEF RemoteNext

-----------------------------------------------------------------------------
(* What the bytes have been, have been read as and have been set to.       *)
LEMMA SeenStep == RemoteIInv /\ [RemoteNext]_remoteVars => SeenInv'
<1> SUFFICES ASSUME RemoteIInv, [RemoteNext]_remoteVars PROVE SeenInv'
  OBVIOUS
<1> USE DEF SeenInv, ReadsDevice
<1>a. SeenInv /\ PlaceInv /\ DOMAIN seen = BytesOf(reg) /\ reg \in Reg
  BY DEF RemoteIInv, RemoteTypeInv
<1>1. ASSUME NEW a \in Address, NEW b \in Byte, Change(a, b) PROVE SeenInv'
  <2>1. UNCHANGED <<local, pc, reg, k, result, given>>
    BY <1>1 DEF Change, copies, call
  <2>2. CASE Resting
    <3>1. seen' = seen
      BY <1>1, <2>2 DEF Change, Sees
    <3> QED BY <2>1, <2>2, <3>1, <1>a DEF Resting
  <2>3. CASE ~ Resting
    <3>1. seen' = [j \in BytesOf(reg) |-> seen[j] \cup {dev'[At(reg, j)]}]
      BY <1>1, <2>3, <1>a DEF Change, Sees
    <3>2. \A j \in BytesOf(reg) : dev'[At(reg, j)] \in seen'[j] /\ seen[j] \subseteq seen'[j]
      BY <3>1
    <3> QED BY <2>1, <2>3, <3>2, <1>a DEF Resting
  <2> QED BY <2>2, <2>3
<1>2. ASSUME NEW r \in Reg, NEW j \in BytesOf(r), NEW b \in Byte, assignByte(r, j, b) PROVE SeenInv'
  BY <1>2 DEF assignByte, Resting
<1>3. ASSUME NEW r \in Reg, sync(r) PROVE SeenInv'
  <2>1. /\ dev' = dev /\ reg' = r /\ result' = TRUE /\ pc' = First(r)
        /\ seen' = [j \in BytesOf(r) |-> {dev[At(r, j)]}]
    BY <1>3 DEF sync, device
  <2> QED BY <2>1 DEF First, Resting
<1>4. CASE writeStart \/ readStart
  BY <1>4, <1>a DEF writeStart, readStart, Fails, device, copies, Resting
<1>5. CASE readRestart
  <2>1. UNCHANGED <<dev, local, reg, k, given, seen>> /\ k = 1 /\ pc = "rrestart"
    BY <1>5, <1>a DEF readRestart, device, copies, PlaceInv
  <2>2. \/ pc' = "rdata" /\ result' = result
        \/ pc' = "done" /\ result' = FALSE
    BY <1>5 DEF readRestart, Fails
  <2>3. \A j \in BytesOf(reg) : ~ (j < 1)
    BY DEF BytesOf
  <2> QED BY <2>1, <2>2, <2>3, <1>a DEF Resting
<1>6. CASE writeAddress
  <2>1. UNCHANGED <<dev, local, reg, k, given, seen>> /\ k = 1 /\ pc = "waddress"
    BY <1>6, <1>a DEF writeAddress, copies, PlaceInv
  <2>2. \/ pc' = "wdata" /\ result' = result
        \/ pc' = "done" /\ result' = FALSE
    BY <1>6 DEF writeAddress, Fails
  <2>3. \A j \in BytesOf(reg) : ~ (j < 1)
    BY DEF BytesOf
  <2> QED BY <2>1, <2>2, <2>3, <1>a DEF Resting
<1>7. CASE readAddress
  BY <1>7, <1>a DEF readAddress, Fails, copies, Resting
<1>8. CASE writeData
  <2>1. /\ pc = "wdata" /\ k \in BytesOf(reg) /\ UNCHANGED <<local, reg, given>>
        /\ seen' = [j \in BytesOf(reg) |-> seen[j] \cup {dev'[At(reg, j)]}]
    BY <1>8, WriteDataStep
  <2>2. \A j \in BytesOf(reg) : dev'[At(reg, j)] \in seen'[j] /\ seen[j] \subseteq seen'[j]
    BY <2>1
  <2>3. CASE pc' = "done" /\ result' = FALSE
    BY <2>3 DEF Resting
  <2>4. CASE /\ dev' = [dev EXCEPT ![At(reg, k)] = local[reg][k]]
             /\ pc' \in {"wdata", "wstop"} /\ k' = k + 1 /\ result' = result
    <3>1. dev'[At(reg, k)] = given[k]
      BY <2>1, <2>4, <1>a, RemotePlaces DEF RemoteIInv, RemoteTypeInv, FailureInv, BeforeRead, Writing
    <3>2. given[k] \in seen'[k]
      BY <2>1, <2>2, <3>1
    <3>3. \A j \in BytesOf(reg) : j < k + 1 => j < k \/ j = k
      BY <2>1 DEF BytesOf
    <3>4. \A j \in BytesOf(reg) : j < k + 1 => given[j] \in seen'[j]
      BY <2>1, <2>2, <3>2, <3>3, <1>a
    <3> QED BY <2>1, <2>2, <2>4, <3>4, <1>a DEF Resting
  <2> QED BY <2>3, <2>4, <1>8, WriteDataStep
<1>9. CASE readData
  <2>1. /\ pc = "rdata" /\ k \in BytesOf(reg) /\ UNCHANGED <<dev, reg, result, given, seen>>
        /\ k' = k + 1 /\ pc' \in {"rdata", "rstop"}
        /\ \A j \in BytesOf(reg) \ {k} : local'[reg][j] = local[reg][j]
        /\ k = 1 \/ k < size[reg] => local'[reg][k] = dev[At(reg, k)]
    BY <1>9, ReadDataStep
  <2>2. k = 1 \/ k < size[reg] => local'[reg][k] \in seen[k]
    BY <2>1, <1>a DEF Resting
  <2>3. \A j \in BytesOf(reg) : j < k + 1 => j < k \/ j = k
    BY <2>1 DEF BytesOf
  <2>4. \A j \in BytesOf(reg) : j < k + 1 /\ (j = 1 \/ j < size[reg]) => local'[reg][j] \in seen[j]
    BY <2>1, <2>2, <2>3, <1>a, RemotePlaces
  <2> QED BY <2>1, <2>4, <1>a DEF Resting
<1>10. CASE writeStop
  <2>1. /\ pc = "wstop" /\ UNCHANGED <<dev, local, reg, result, given, seen>>
        /\ pc' = IF mode[reg] = "both" THEN "rstart" ELSE "done"
    BY <1>10 DEF writeStop, device, copies
  <2>2. mode[reg] \in {"write", "both"}
    BY <2>1, <1>a, RegAssumption DEF RemoteIInv, KnownInv, Writing
  <2> QED BY <2>1, <2>2, <1>a DEF Resting
<1>11. CASE readStop
  <2>1. /\ pc = "rstop" /\ UNCHANGED <<dev, local, reg, result, given, seen>>
        /\ pc' = "done" /\ k = size[reg] + 1
    BY <1>11, <1>a DEF readStop, device, PlaceInv
  <2>2. \A j \in BytesOf(reg) : j < k
    BY <2>1, <1>a, RemotePlaces
  <2> QED BY <2>1, <2>2, <1>a DEF Resting
<1>12. CASE UNCHANGED remoteVars
  BY <1>12, <1>a DEF remoteVars, device, copies, call, Resting
<1> QED BY <1>1, <1>2, <1>3, <1>4, <1>5, <1>6, <1>7, <1>8, <1>9, <1>10, <1>11, <1>12 DEF RemoteNext

(* The copy is what it was until its first byte is read.                   *)
LEMMA CopyStep == RemoteIInv /\ [RemoteNext]_remoteVars => FailureInv'
<1> SUFFICES ASSUME RemoteIInv, [RemoteNext]_remoteVars PROVE FailureInv'
  OBVIOUS
<1> USE DEF FailureInv, BeforeRead, Writing
<1>a. FailureInv
  BY DEF RemoteIInv
<1>1. ASSUME NEW a \in Address, NEW b \in Byte, Change(a, b) PROVE FailureInv'
  BY <1>1, <1>a DEF Change, copies, call
<1>2. ASSUME NEW r \in Reg, NEW j \in BytesOf(r), NEW b \in Byte, assignByte(r, j, b) PROVE FailureInv'
  BY <1>2 DEF assignByte
<1>3. ASSUME NEW r \in Reg, sync(r) PROVE FailureInv'
  BY <1>3 DEF sync, copies
<1>4. CASE writeStart \/ writeAddress \/ writeStop
  BY <1>4, <1>a DEF writeStart, writeAddress, writeStop, copies
<1>5. CASE readStart \/ readAddress \/ readRestart
  BY <1>5, <1>a DEF readStart, readAddress, readRestart, copies
<1>6. CASE writeData
  BY <1>6, <1>a DEF writeData, copies
<1>7. CASE readData
  BY <1>7, ReadDataStep
<1>8. CASE readStop
  BY <1>8 DEF readStop, RemoteIInv, SeenInv, Resting
<1>9. CASE UNCHANGED remoteVars
  BY <1>9, <1>a DEF remoteVars, copies, call
<1> QED BY <1>1, <1>2, <1>3, <1>4, <1>5, <1>6, <1>7, <1>8, <1>9 DEF RemoteNext

LEMMA RemoteInvariant == RemoteSpec => []RemoteIInv
<1>1. RemoteIInv /\ [RemoteNext]_remoteVars => RemoteIInv'
  BY TypeStep, PlaceStep, KnownStep, SeenStep, CopyStep, Zenon DEF RemoteIInv
<1> QED BY RemoteInitIInv, <1>1, PTL DEF RemoteSpec

-----------------------------------------------------------------------------
(* The variables keep their types, whatever fails (regmaps.h, register.h,  *)
(* twi.h:59-91).                                                           *)
THEOREM TypeCorrect == RemoteSpec => []RemoteTypeOK
<1>1. RemoteIInv => RemoteTypeOK
  BY DEF RemoteIInv, RemoteTypeInv, PlaceInv, RemoteTypeOK, Value, Resting, Writing, BeforeRead
<1> QED BY RemoteInvariant, <1>1, PTL

(* A synchronisation that returns true has read what the device held in    *)
(* the meantime (register.h:174-179, twi.h:78-91).                         *)
THEOREM RemoteReadsCorrect == RemoteSpec => []ReadsDevice
<1>1. RemoteIInv => ReadsDevice
  BY DEF RemoteIInv, SeenInv
<1> QED BY RemoteInvariant, <1>1, PTL

(* One that fails leaves the copy as it was (register.h:164-183).          *)
THEOREM FailureCorrect == RemoteSpec => []FailureKeepsCopy
<1>1. RemoteIInv => FailureKeepsCopy
  BY DEF RemoteIInv, FailureInv, FailureKeepsCopy
<1> QED BY RemoteInvariant, <1>1, PTL

(* Only what has been read or assigned is written (register.h:167-180).    *)
THEOREM KnownCorrect == RemoteSpec => []NothingUnknownWritten
<1>1. RemoteIInv => NothingUnknownWritten
  BY ByteAssumption DEF RemoteIInv, RemoteTypeInv, NothingUnknownWritten
<1> QED BY RemoteInvariant, <1>1, PTL

(* A register is written whole, and nothing else is (twi.h:59-72).         *)
THEOREM WritesCorrect == RemoteSpec => Writes
<1> DEFINE Step ==
      /\ writeStop => \A j \in BytesOf(reg) : given[j] \in seen[j]
      /\ call' # call => \A a \in Address \ Own(reg) : dev'[a] = dev[a]
<1>1. RemoteIInv /\ [RemoteNext]_remoteVars => [Step]_remoteVars
  <2> SUFFICES ASSUME RemoteIInv, RemoteNext PROVE Step
    BY DEF remoteVars
  <2>1. ASSUME writeStop PROVE \A j \in BytesOf(reg) : given[j] \in seen[j]
    <3>1. pc = "wstop" /\ k = size[reg] + 1 /\ reg \in Reg
      BY <2>1 DEF writeStop, RemoteIInv, RemoteTypeInv, PlaceInv
    <3>2. \A j \in BytesOf(reg) : j < k
      BY <3>1, RemotePlaces
    <3> QED BY <3>1, <3>2 DEF RemoteIInv, SeenInv
  <2>2. ASSUME call' # call PROVE \A a \in Address \ Own(reg) : dev'[a] = dev[a]
    <3>1. CASE dev' = dev
      BY <3>1
    <3>2. CASE writeData
      <4>1. reg \in Reg /\ k \in BytesOf(reg) /\ dev \in [Address -> Byte]
        BY <3>2, WriteDataStep DEF RemoteIInv, RemoteTypeInv
      <4>2. \/ dev' = dev
            \/ dev' = [dev EXCEPT ![At(reg, k)] = local[reg][k]]
        BY <3>2, WriteDataStep, Zenon
      <4>3. At(reg, k) \in Own(reg)
        BY <4>1, RemotePlaces
      <4> QED BY <4>1, <4>2, <4>3
    <3>3. ASSUME NEW a \in Address, NEW b \in Byte, Change(a, b) PROVE FALSE
      BY <3>3, <2>2 DEF Change
    <3>4. \/ dev' = dev \/ writeData
          \/ \E a \in Address, b \in Byte : Change(a, b)
      BY DEF RemoteNext, assignByte, sync, writeStart, writeAddress, writeStop, readStart, readAddress,
             readRestart, readData, readStop, device
    <3> QED BY <3>1, <3>2, <3>3, <3>4
  <2> QED BY <2>1, <2>2
<1> QED BY RemoteInvariant, <1>1, PTL DEF RemoteSpec, Writes

-----------------------------------------------------------------------------
(***************************************************************************)
(* LocalRegMap, for every layout of the fields in memory and every program *)
(* that takes the lock where ProgramsAssumption asks for it: the           *)
(* bit-fields behave as variables of their own, and what is read of the    *)
(* handler's field is current.                                             *)
(***************************************************************************)
H == prog.handler.field
ByteOf(bit) == bit \div 8
FieldBytes == UNION {Bytes(f) : f \in prog.fields}

(* The bytes that are the program's alone in the window it is in.          *)
Alone(b) == Quiet(prog, window) \/ b \notin Bytes(H)

TypeInv ==
  /\ prog \in Programs /\ window \in Nat \ {0} /\ window <= Len(prog.windows) + 1
  /\ done \in Nat /\ step \in Nat /\ step <= Len(Locking)
  /\ mem \in [Memory -> Bit] /\ copy \in [Memory -> Bit]
  /\ held \subseteq FieldBytes /\ dirty \subseteq Memory

MaskInv ==
  Running => IF step = 0 THEN Before(prog, window) => masked
                         ELSE masked <=> Locking[step] = "lock"

(* What is assigned lies in bytes that are kept, and beside the field of   *)
(* the handler; the rest of these bytes is as in the memory, if the handler *)
(* cannot come in between.                                                 *)
CopyInv ==
  /\ held # {} => Running
  /\ \A bit \in dirty : ByteOf(bit) \in held /\ bit \notin Bits(H) /\ Alone(ByteOf(bit))
  /\ \A bit \in Memory \ dirty :
       ByteOf(bit) \in held /\ Alone(ByteOf(bit)) => copy[bit] = mem[bit]

(* A field in one byte is loaded at once.                                  *)
ShownInv ==
  /\ Shown(mem, H) \in shown
  /\ (\A b, c \in Bytes(H) : b = c) /\ Bytes(H) \subseteq held => Shown(copy, H) \in shown
  /\ ReadsCurrent

IInv == TypeInv /\ MaskInv /\ CopyInv /\ ShownInv

-----------------------------------------------------------------------------
(* Bits and bytes.                                                         *)
LEMMA BitsOfBytes ==
  \A b \in Nat : \A bit \in Nat : bit \in OfByte(b) <=> ByteOf(bit) = b
BY DEF OfByte, ByteOf

LEMMA Layout ==
  ASSUME prog \in Programs
  PROVE  /\ \A f \in prog.fields : Bits(f) \subseteq Memory /\ Bytes(f) \subseteq FieldBytes
         /\ \A f \in prog.fields : \A i \in 0 .. f.width - 1 : f.at + i \in Bits(f)
         /\ FieldBytes \subseteq Nat /\ Memory \subseteq Nat
         /\ \A bit \in Memory : ByteOf(bit) \in FieldBytes
         /\ \A b \in FieldBytes : OfByte(b) \subseteq Memory
         /\ \A f \in prog.fields : \A bit \in Bits(f) : ByteOf(bit) \in Bytes(f)
         /\ \A f \in prog.fields : \A b \in Bytes(f) : \E bit \in Bits(f) : ByteOf(bit) = b
         /\ H \in prog.fields
<1>1. \A f \in prog.fields : f.at \in Nat /\ f.width \in Nat \ {0}
  BY ProgramsAssumption
<1>2. \A f \in prog.fields : Bits(f) \subseteq Nat /\ \A i \in 0 .. f.width - 1 : f.at + i \in Bits(f)
  BY <1>1 DEF Bits
<1>3. /\ \A f \in prog.fields : \A bit \in Bits(f) : ByteOf(bit) \in Bytes(f)
      /\ \A f \in prog.fields : \A b \in Bytes(f) : \E bit \in Bits(f) : ByteOf(bit) = b
  BY Zenon DEF Bytes, ByteOf
<1>4. \A f \in prog.fields : Bytes(f) \subseteq FieldBytes
  BY Zenon DEF FieldBytes
<1>5. \A bit \in Nat : ByteOf(bit) \in Nat
  BY DEF ByteOf
<1>6. FieldBytes \subseteq Nat
  BY <1>2, <1>3, <1>5, Zenon DEF FieldBytes
<1>7. Memory = UNION {OfByte(b) : b \in FieldBytes}
  BY DEF Memory, FieldBytes
<1>8. \A b \in FieldBytes : OfByte(b) \subseteq Memory
  BY <1>7, Zenon
<1>9. \A b \in Nat : OfByte(b) \subseteq Nat
  BY DEF OfByte
<1>10. Memory \subseteq Nat
  BY <1>6, <1>7, <1>9, Zenon
<1>11. \A bit \in Memory : ByteOf(bit) \in FieldBytes
  BY <1>6, <1>7, <1>9, BitsOfBytes, Zenon
<1>12. \A f \in prog.fields : Bits(f) \subseteq Memory
  BY <1>2, <1>3, <1>4, <1>6, <1>8, BitsOfBytes, Zenon
<1>13. H \in prog.fields
  BY ProgramsAssumption DEF H, Assigns
<1> QED BY <1>2, <1>3, <1>4, <1>6, <1>8, <1>10, <1>11, <1>12, <1>13, Zenon

(* What the program may do in the window it is in.                         *)
LEMMA Accessed ==
  ASSUME TypeInv
  PROVE  \A j \in 1 .. Len(Accesses) :
           /\ Running /\ Accesses[j].field \in prog.fields
           /\ \/ /\ Accesses[j].op = "assign" /\ Assigns(prog, Accesses[j])
                 /\ Bits(Accesses[j].field) \cap Bits(H) = {}
                 /\ \A b \in Bytes(Accesses[j].field) : Alone(b)
              \/ /\ Accesses[j].op = "read" /\ Accesses[j].field = H
                 /\ Quiet(prog, window) \/ \A b, c \in Bytes(H) : b = c
<1> SUFFICES ASSUME NEW j \in 1 .. Len(Accesses)
             PROVE  /\ Running /\ Accesses[j].field \in prog.fields
                    /\ \/ /\ Accesses[j].op = "assign" /\ Assigns(prog, Accesses[j])
                          /\ Bits(Accesses[j].field) \cap Bits(H) = {}
                          /\ \A b \in Bytes(Accesses[j].field) : Alone(b)
                       \/ /\ Accesses[j].op = "read" /\ Accesses[j].field = H
                          /\ Quiet(prog, window) \/ \A b, c \in Bytes(H) : b = c
  OBVIOUS
<1>1. Running
  <2>1. CASE ~ Running
    BY <2>1 DEF Accesses
  <2> QED BY <2>1
<1>2. prog \in Programs /\ window \in 1 .. Len(prog.windows)
  BY <1>1, ProgramsAssumption DEF TypeInv, Running
<1>3. Accesses = prog.windows[window].access
  BY <1>1 DEF Accesses
<1>4. Keeps(prog, window, Accesses[j])
  BY <1>2, <1>3, ProgramsAssumption
<1>5. H \in prog.fields
  BY <1>2, Layout
<1> DEFINE a == Accesses[j]
<1>6. CASE /\ a.op = "assign" /\ Assigns(prog, a) /\ a.field # H
           /\ Quiet(prog, window) \/ Bytes(a.field) \cap Bytes(H) = {}
  <2>1. a.field \in prog.fields /\ Bits(a.field) \cap Bits(H) = {}
    BY <1>5, <1>6 DEF Assigns
  <2>2. \A b \in Bytes(a.field) : Alone(b)
    BY <1>6 DEF Alone
  <2> QED BY <1>1, <1>6, <2>1, <2>2
<1>7. CASE /\ a.op = "read" /\ a.field = H
           /\ Quiet(prog, window) \/ \A b, c \in Bytes(H) : b = c
  BY <1>1, <1>5, <1>7
<1> QED BY <1>4, <1>6, <1>7, Zenon DEF Keeps, H

(* While the handler may run, a byte that it writes is the program's alone *)
(* only if the program keeps none.                                         *)
LEMMA QuietMasks ==
  ASSUME TypeInv, MaskInv, Running, Quiet(prog, window)
  PROVE  masked
<1>1. Locking = <<>>
  BY DEF Quiet, Locking
<1>2. step = 0
  BY <1>1 DEF TypeInv
<1> QED BY <1>2 DEF MaskInv, Quiet

LEMMA ShownSame ==
  ASSUME NEW f, NEW m, NEW n, \A i \in 0 .. f.width - 1 : m[f.at + i] = n[f.at + i]
  PROVE  Shown(m, f) = Shown(n, f)
BY DEF Shown

(* What the steps within a window leave as it is.                          *)
LEMMA SameWindow ==
  ASSUME UNCHANGED <<prog, window>>
  PROVE  /\ Memory' = Memory /\ FieldBytes' = FieldBytes /\ H' = H
         /\ Accesses' = Accesses /\ Locking' = Locking /\ (Running' <=> Running)
         /\ (Quiet(prog, window)' <=> Quiet(prog, window))
         /\ \A b : Alone(b)' <=> Alone(b)
         /\ (Before(prog, window)' <=> Before(prog, window))
BY DEF Memory, FieldBytes, H, Accesses, Locking, Running, Quiet, Before, Alone, Bytes, Bits

LEMMA InitIInv == Init => IInv
<1> SUFFICES ASSUME Init PROVE IInv
  OBVIOUS
<1>1. prog \in Programs /\ window = 1 /\ done = 0 /\ step = 0 /\ held = {} /\ dirty = {}
  BY DEF Init
<1>2. prog.start \in Bit /\ Len(prog.windows) \in Nat
  BY <1>1, ProgramsAssumption
<1>3. mem \in [Memory -> Bit] /\ copy \in [Memory -> Bit] /\ copy = mem
  BY <1>2 DEF Init
<1>4. step <= Len(Locking)
  BY <1>1, <1>2, ProgramsAssumption DEF Locking, Running
<1>5. TypeInv
  BY <1>1, <1>2, <1>3, <1>4 DEF TypeInv
<1>6. ~ Before(prog, window)
  BY <1>1 DEF Before
<1>7. MaskInv
  BY <1>1, <1>6 DEF MaskInv
<1>8. CopyInv
  BY <1>1 DEF CopyInv
<1>9. ShownInv
  BY <1>1, <1>3 DEF Init, ShownInv, ReadsCurrent, H
<1> QED BY <1>5, <1>7, <1>8, <1>9 DEF IInv

LEMMA LoadInv == ASSUME IInv, NEW b \in FieldBytes, Load(b) PROVE IInv'
<1> USE DEF IInv
<1>1. /\ UNCHANGED <<prog, window, done, step, masked, mem, dirty, got, shown>>
      /\ copy' = [bit \in Memory |-> IF bit \in OfByte(b) THEN mem[bit] ELSE copy[bit]]
      /\ held' = held \cup {b} /\ b \notin held
  BY DEF Load, progress
<1>2. prog \in Programs
  BY DEF TypeInv
<1>3. Running
  <2>1. PICK j \in done + 1 .. Len(Accesses) : TRUE
    BY Zenon DEF Load
  <2> QED BY <2>1 DEF TypeInv, Accesses
<1>4. \A bit \in Memory : copy'[bit] = IF ByteOf(bit) = b THEN mem[bit] ELSE copy[bit]
  BY <1>1, <1>2, Layout, BitsOfBytes
<1>5. TypeInv'
  <2>1. copy' \in [Memory -> Bit]
    BY <1>1 DEF TypeInv
  <2> QED BY <1>1, <2>1, SameWindow DEF TypeInv
<1>6. MaskInv'
  BY <1>1, SameWindow DEF MaskInv
<1>7. CopyInv'
  <2>1. \A bit \in dirty : ByteOf(bit) \in held' /\ bit \notin Bits(H) /\ Alone(ByteOf(bit))
    BY <1>1 DEF CopyInv
  <2>2. \A bit \in Memory \ dirty :
          ByteOf(bit) \in held' /\ Alone(ByteOf(bit)) => copy'[bit] = mem[bit]
    BY <1>1, <1>4 DEF CopyInv
  <2>3. Bits(H)' = Bits(H)
    BY <1>1 DEF H, Bits
  <2> QED BY <1>1, <1>3, <2>1, <2>2, <2>3, SameWindow DEF CopyInv, ByteOf
<1>8. ShownInv'
  <2>1. ASSUME \A x, y \in Bytes(H) : x = y, Bytes(H) \subseteq held'
        PROVE  Shown(copy', H) \in shown
    <3>1. CASE b \in Bytes(H)
      <4>1. \A i \in 0 .. H.width - 1 : H.at + i \in Memory /\ ByteOf(H.at + i) = b
        BY <1>2, <2>1, <3>1, Layout
      <4>2. Shown(copy', H) = Shown(mem, H)
        BY <4>1, <1>4, ShownSame
      <4> QED BY <4>2 DEF ShownInv
    <3>2. CASE b \notin Bytes(H)
      <4>1. \A i \in 0 .. H.width - 1 : H.at + i \in Memory /\ ByteOf(H.at + i) # b
        BY <1>2, <3>2, Layout
      <4>2. Shown(copy', H) = Shown(copy, H)
        BY <4>1, <1>4, ShownSame
      <4> QED BY <4>2, <3>2, <2>1, <1>1 DEF ShownInv
    <3> QED BY <3>1, <3>2
  <2>2. Bytes(H)' = Bytes(H) /\ Shown(mem, H)' = Shown(mem, H) /\ Shown(copy, H)' = Shown(copy', H)
    BY <1>1 DEF H, Bytes, Bits, Shown
  <2> QED BY <1>1, <2>1, <2>2 DEF ShownInv, ReadsCurrent
<1> QED BY <1>5, <1>6, <1>7, <1>8

LEMMA Offsets ==
  ASSUME NEW f, f.at \in Nat, f.width \in Nat
  PROVE  \A bit \in Bits(f) : bit - f.at \in 0 .. f.width - 1
<1>1. PICK m \in Nat : m = f.at
  OBVIOUS
<1>2. PICK w \in Nat : w = f.width
  OBVIOUS
<1>3. \A bit \in m .. m + w - 1 : bit - m \in 0 .. w - 1
  OBVIOUS
<1> QED BY <1>1, <1>2, <1>3, Zenon DEF Bits

(* An assignment of a, of which the other bits of its bytes are kept.      *)
LEMMA AssignInv ==
  ASSUME IInv, Access, Accesses[done + 1].op = "assign" PROVE IInv'
<1> USE DEF IInv
<1> DEFINE a == Accesses[done + 1]
<1>1. /\ UNCHANGED <<prog, window, step, masked, mem, got, shown>> /\ done' = done + 1
      /\ done < Len(Accesses) /\ Needs(a) \subseteq held
      /\ copy' = Assigned(copy, a) /\ held' = held \cup Bytes(a.field)
      /\ dirty' = dirty \cup Bits(a.field)
  BY DEF Access
<1>2. prog \in Programs /\ done \in Nat /\ held \subseteq FieldBytes /\ dirty \subseteq Memory
  BY DEF TypeInv
<1>3. Len(Accesses) \in Nat
  BY <1>2, ProgramsAssumption DEF Accesses, Running, TypeInv
<1>4. /\ Running /\ a.field \in prog.fields /\ Assigns(prog, a)
      /\ Bits(a.field) \cap Bits(H) = {} /\ \A b \in Bytes(a.field) : Alone(b)
  <2>1. done + 1 \in 1 .. Len(Accesses)
    BY <1>1, <1>2, <1>3
  <2>2. a.op # "read"
    OBVIOUS
  <2> QED BY <2>1, <2>2, Accessed, Zenon
<1>5. \A bit \in Memory : IF bit \in Bits(a.field) THEN copy'[bit] \in Bit ELSE copy'[bit] = copy[bit]
  <2>1. \A bit \in Bits(a.field) : bit - a.field.at \in 0 .. a.field.width - 1
    <3>1. a.field.at \in Nat /\ a.field.width \in Nat
      BY <1>2, <1>4, ProgramsAssumption
    <3> QED BY <3>1, Offsets, Zenon
  <2>2. \A bit \in Bits(a.field) : a.bits[bit - a.field.at] \in Bit
    BY <1>4, <2>1 DEF Assigns
  <2> QED BY <1>1, <2>2 DEF Assigned
<1>6. TypeInv'
  <2>1. copy' \in [Memory -> Bit]
    <3>1. \A bit \in Memory : copy'[bit] \in Bit
      BY <1>5 DEF TypeInv
    <3> QED BY <1>1, <3>1 DEF Assigned
  <2>2. held' \subseteq FieldBytes /\ dirty' \subseteq Memory
    BY <1>1, <1>2, <1>4, Layout
  <2> QED BY <1>1, <1>2, <2>1, <2>2, SameWindow DEF TypeInv
<1>7. MaskInv'
  BY <1>1, SameWindow DEF MaskInv
<1>8. CopyInv'
  <2>1. \A bit \in Bits(a.field) : ByteOf(bit) \in Bytes(a.field)
    BY <1>2, <1>4, Layout
  <2>2. \A bit \in dirty' : ByteOf(bit) \in held' /\ bit \notin Bits(H) /\ Alone(ByteOf(bit))
    BY <1>1, <1>4, <2>1 DEF CopyInv
  <2>3. ASSUME NEW bit \in Memory \ dirty', ByteOf(bit) \in held', Alone(ByteOf(bit))
        PROVE  copy'[bit] = mem[bit]
    <3>1. bit \in Memory \ dirty /\ bit \notin Bits(a.field)
      BY <1>1, <2>3
    <3>2. bit \in OfByte(ByteOf(bit))
      BY <1>2, <3>1, Layout, BitsOfBytes
    <3>3. ByteOf(bit) \in held
      <4>1. CASE ByteOf(bit) \in Bytes(a.field)
        BY <1>1, <3>1, <3>2, <4>1 DEF Needs
      <4>2. CASE ByteOf(bit) \notin Bytes(a.field)
        BY <1>1, <2>3, <4>2
      <4> QED BY <4>1, <4>2
    <3> QED BY <1>5, <2>3, <3>1, <3>3 DEF CopyInv
  <2>4. Bits(H)' = Bits(H)
    BY <1>1 DEF H, Bits
  <2> QED BY <1>1, <1>4, <2>2, <2>3, <2>4, SameWindow DEF CopyInv, ByteOf
<1>9. ShownInv'
  <2>1. \A i \in 0 .. H.width - 1 : H.at + i \in Memory /\ H.at + i \notin Bits(a.field)
    BY <1>2, <1>4, Layout
  <2>2. Shown(copy', H) = Shown(copy, H)
    BY <1>5, <2>1, ShownSame
  <2>3. Bytes(H) \subseteq held' => Bytes(H) \subseteq held
    <3> SUFFICES ASSUME NEW b \in Bytes(H), b \in Bytes(a.field) PROVE b \in held
      BY <1>1
    <3>1. PICK bit \in Bits(H) : ByteOf(bit) = b
      BY <1>2, Layout
    <3>2. bit \in OfByte(b) /\ bit \notin Bits(a.field)
      BY <1>2, <1>4, <3>1, Layout, BitsOfBytes
    <3> QED BY <1>1, <3>2 DEF Needs
  <2>4. Bytes(H)' = Bytes(H) /\ Shown(mem, H)' = Shown(mem, H) /\ Shown(copy, H)' = Shown(copy', H)
    BY <1>1 DEF H, Bytes, Bits, Shown
  <2> QED BY <1>1, <2>2, <2>3, <2>4 DEF ShownInv, ReadsCurrent
<1> QED BY <1>6, <1>7, <1>8, <1>9

LEMMA ReadInv ==
  ASSUME IInv, Access, Accesses[done + 1].op # "assign" PROVE IInv'
<1> USE DEF IInv
<1> DEFINE a == Accesses[done + 1]
<1>1. /\ UNCHANGED <<prog, window, step, masked, mem, copy, held, dirty, shown>>
      /\ done' = done + 1 /\ done < Len(Accesses) /\ Needs(a) \subseteq held
      /\ got' = got \cup {Shown(copy, a.field)}
  BY DEF Access, cpu
<1>2. prog \in Programs /\ done \in Nat
  BY DEF TypeInv
<1>3. Len(Accesses) \in Nat
  BY <1>2, ProgramsAssumption DEF Accesses, Running, TypeInv
<1>4. a.op = "read" /\ a.field = H /\ (Quiet(prog, window) \/ \A b, c \in Bytes(H) : b = c)
  <2>1. done + 1 \in 1 .. Len(Accesses)
    BY <1>1, <1>2, <1>3
  <2> QED BY <2>1, Accessed, Zenon
<1>5. Bytes(H) \subseteq held
  BY <1>1, <1>4 DEF Needs
<1>6. Shown(copy, H) \in shown
  <2>1. CASE Quiet(prog, window)
    <3>1. \A i \in 0 .. H.width - 1 : copy[H.at + i] = mem[H.at + i]
      <4> SUFFICES ASSUME NEW i \in 0 .. H.width - 1 PROVE copy[H.at + i] = mem[H.at + i]
        OBVIOUS
      <4>1. H.at + i \in Bits(H) /\ H.at + i \in Memory /\ ByteOf(H.at + i) \in held
        BY <1>2, <1>5, Layout
      <4> QED BY <2>1, <4>1 DEF CopyInv, Alone
    <3>2. Shown(copy, H) = Shown(mem, H)
      BY <3>1, ShownSame
    <3> QED BY <3>2 DEF ShownInv
  <2>2. CASE \A b, c \in Bytes(H) : b = c
    BY <1>5, <2>2 DEF ShownInv
  <2> QED BY <1>4, <2>1, <2>2
<1>7. TypeInv' /\ MaskInv'
  BY <1>1, <1>2, SameWindow DEF TypeInv, MaskInv
<1>8. CopyInv'
  <2>1. Bits(H)' = Bits(H)
    BY <1>1 DEF H, Bits
  <2> QED BY <1>1, <2>1, SameWindow DEF CopyInv, ByteOf
<1>9. ShownInv'
  <2>1. Bytes(H)' = Bytes(H) /\ Shown(mem, H)' = Shown(mem, H) /\ Shown(copy, H)' = Shown(copy, H)
    BY <1>1 DEF H, Bytes, Bits, Shown
  <2> QED BY <1>1, <1>4, <1>6, <2>1 DEF ShownInv, ReadsCurrent
<1> QED BY <1>7, <1>8, <1>9

LEMMA StoreInv == ASSUME IInv, NEW b \in FieldBytes, Store(b) PROVE IInv'
<1> USE DEF IInv
<1>1. /\ UNCHANGED <<prog, window, done, step, masked, copy, held, got>>
      /\ mem' = [bit \in Memory |-> IF bit \in OfByte(b) THEN copy[bit] ELSE mem[bit]]
      /\ dirty' = dirty \ OfByte(b)
      /\ shown' = shown \cup {Shown(mem', H)}
  BY DEF Store, progress, H
<1>2. prog \in Programs
  BY DEF TypeInv
<1>3. TypeInv'
  <2>1. mem' \in [Memory -> Bit]
    BY <1>1 DEF TypeInv
  <2> QED BY <1>1, <2>1, SameWindow DEF TypeInv
<1>4. MaskInv'
  BY <1>1, SameWindow DEF MaskInv
<1>5. CopyInv'
  <2>1. \A bit \in Memory \ dirty' :
          ByteOf(bit) \in held /\ Alone(ByteOf(bit)) => copy[bit] = mem'[bit]
    BY <1>1 DEF CopyInv
  <2>2. Bits(H)' = Bits(H)
    BY <1>1 DEF H, Bits
  <2> QED BY <1>1, <2>1, <2>2, SameWindow DEF CopyInv, ByteOf
<1>6. ShownInv'
  <2>1. Bytes(H)' = Bytes(H) /\ Shown(mem, H)' = Shown(mem', H) /\ Shown(copy, H)' = Shown(copy, H)
    BY <1>1 DEF H, Bytes, Bits, Shown
  <2> QED BY <1>1, <2>1 DEF ShownInv, ReadsCurrent
<1> QED BY <1>3, <1>4, <1>5, <1>6

LEMMA LockInv == ASSUME IInv, Lock PROVE IInv'
<1> USE DEF IInv
<1>1. /\ UNCHANGED <<prog, window, done, mem, copy, held, dirty, got, shown>>
      /\ step < Len(Locking) /\ step' = step + 1 /\ masked' = (Locking[step + 1] = "lock")
  BY DEF Lock, cpu
<1>2. prog \in Programs /\ step \in Nat
  BY DEF TypeInv
<1>3. Len(Locking) \in Nat
  BY <1>2, ProgramsAssumption DEF Locking, Running, TypeInv
<1>4. TypeInv'
  BY <1>1, <1>2, <1>3, SameWindow DEF TypeInv
<1>5. MaskInv'
  <2>1. step' # 0 /\ Locking' = Locking
    BY <1>1, <1>2, SameWindow
  <2>2. masked' <=> Locking[step'] = "lock"
    BY <1>1, Zenon
  <2> QED BY <2>1, <2>2, Zenon DEF MaskInv
<1>6. CopyInv'
  <2>1. Bits(H)' = Bits(H)
    BY <1>1 DEF H, Bits
  <2> QED BY <1>1, <2>1, SameWindow DEF CopyInv, ByteOf
<1>7. ShownInv'
  <2>1. Bytes(H)' = Bytes(H) /\ Shown(mem, H)' = Shown(mem, H) /\ Shown(copy, H)' = Shown(copy, H)
    BY <1>1 DEF H, Bytes, Bits, Shown
  <2> QED BY <1>1, <2>1 DEF ShownInv, ReadsCurrent
<1> QED BY <1>4, <1>5, <1>6, <1>7

(* What is held is forgotten; the lock stays as the last statement left it. *)
LEMMA SyncInv == ASSUME IInv, Sync PROVE IInv'
<1> USE DEF IInv
<1>1. /\ UNCHANGED <<prog, masked, mem, copy, dirty>> /\ dirty = {} /\ held' = {}
      /\ Running /\ step = Len(Locking) /\ window' = window + 1 /\ done' = 0 /\ step' = 0
      /\ got' = {} /\ shown' = {Shown(mem, H)}
  BY DEF Sync, H
<1>2. prog \in Programs /\ window \in 1 .. Len(prog.windows) /\ Len(prog.windows) \in Nat
  BY <1>1, ProgramsAssumption DEF TypeInv, Running
<1>3. Memory' = Memory /\ FieldBytes' = FieldBytes /\ H' = H
  BY <1>1 DEF Memory, FieldBytes, H
<1>4. TypeInv'
  <2>1. 0 <= Len(Locking')
    BY <1>1, <1>2, ProgramsAssumption DEF Locking, Running
  <2> QED BY <1>1, <1>2, <1>3, <2>1 DEF TypeInv
<1>5. MaskInv'
  <2> SUFFICES ASSUME Before(prog, window + 1) PROVE masked
    BY <1>1 DEF MaskInv, Before
  <2>1. PICK v \in 1 .. window :
          /\ prog.windows[v].locking # <<>> /\ Last(prog.windows[v].locking) = "lock"
          /\ \A u \in v + 1 .. window : prog.windows[u].locking = <<>>
    BY <1>2 DEF Before
  <2>2. Locking = prog.windows[window].locking /\ Locking \in Seq({"lock", "unlock"})
    BY <1>1, <1>2, ProgramsAssumption DEF Locking
  <2>3. CASE v = window
    <3>1. step # 0 /\ Locking[step] = "lock"
      BY <1>1, <2>1, <2>2, <2>3 DEF Last
    <3> QED BY <1>1, <3>1, Zenon DEF MaskInv
  <2>4. CASE v # window
    <3>1. Locking = <<>>
      BY <1>2, <2>1, <2>2, <2>4
    <3>2. Before(prog, window)
      BY <1>2, <2>1, <2>4 DEF Before
    <3> QED BY <1>1, <3>1, <3>2 DEF MaskInv
  <2> QED BY <2>3, <2>4
<1>6. CopyInv'
  BY <1>1 DEF CopyInv
<1>7. ShownInv'
  <2>1. Bytes(H)' = Bytes(H) /\ Shown(mem, H)' = Shown(mem, H)
    BY <1>1 DEF H, Bytes, Bits, Shown
  <2>2. \E b \in Bytes(H) : TRUE
    <3>1. 0 \in 0 .. H.width - 1
      BY <1>2, Layout, ProgramsAssumption
    <3> QED BY <1>2, <3>1, Layout
  <2> QED BY <1>1, <2>1, <2>2 DEF ShownInv, ReadsCurrent
<1> QED BY <1>4, <1>5, <1>6, <1>7

(* The handler runs only where none of its bytes is the program's alone.   *)
LEMMA HandleInv == ASSUME IInv, Handle PROVE IInv'
<1> USE DEF IInv
<1>1. /\ UNCHANGED <<prog, window, done, step, masked, copy, held, dirty, got>> /\ ~ masked
      /\ mem' = Assigned(mem, prog.handler)
      /\ shown' = shown \cup {Shown(mem', H)}
  BY DEF Handle, progress, cpu, H
<1>2. prog \in Programs
  BY DEF TypeInv
<1>3. Assigns(prog, prog.handler)
  BY <1>2, ProgramsAssumption
<1>4. \A bit \in Memory : IF bit \in Bits(H) THEN mem'[bit] \in Bit ELSE mem'[bit] = mem[bit]
  <2>1. \A bit \in Bits(H) : bit - H.at \in 0 .. H.width - 1
    BY <1>2, Layout, ProgramsAssumption DEF Bits
  <2>2. \A bit \in Bits(H) : prog.handler.bits[bit - H.at] \in Bit
    BY <1>3, <2>1 DEF Assigns, H
  <2> QED BY <1>1, <2>2 DEF Assigned, H
<1>5. TypeInv'
  <2>1. mem' \in [Memory -> Bit]
    <3>1. \A bit \in Memory : mem'[bit] \in Bit
      BY <1>4 DEF TypeInv
    <3> QED BY <1>1, <3>1 DEF Assigned
  <2> QED BY <1>1, <2>1, SameWindow DEF TypeInv
<1>6. MaskInv'
  BY <1>1, SameWindow DEF MaskInv
<1>7. CopyInv'
  <2>1. ASSUME NEW bit \in Memory \ dirty, ByteOf(bit) \in held, Alone(ByteOf(bit))
        PROVE  copy[bit] = mem'[bit]
    <3>1. Running
      BY <2>1 DEF CopyInv
    <3>2. ~ Quiet(prog, window)
      BY <1>1, <3>1, QuietMasks
    <3>3. bit \notin Bits(H)
      BY <1>2, <2>1, <3>2, Layout DEF Alone
    <3> QED BY <1>4, <2>1, <3>3 DEF CopyInv
  <2>2. Bits(H)' = Bits(H)
    BY <1>1 DEF H, Bits
  <2> QED BY <1>1, <2>1, <2>2, SameWindow DEF CopyInv, ByteOf
<1>8. ShownInv'
  <2>1. Bytes(H)' = Bytes(H) /\ Shown(mem, H)' = Shown(mem', H) /\ Shown(copy, H)' = Shown(copy, H)
    BY <1>1 DEF H, Bytes, Bits, Shown
  <2> QED BY <1>1, <2>1 DEF ShownInv, ReadsCurrent
<1> QED BY <1>5, <1>6, <1>7, <1>8

LEMMA StutterInv == ASSUME IInv, UNCHANGED vars PROVE IInv'
<1> USE DEF IInv
<1>1. UNCHANGED <<prog, window, done, step, masked, mem, copy, held, dirty, got, shown>>
  BY DEF vars, progress, cpu
<1>2. TypeInv' /\ MaskInv'
  BY <1>1, SameWindow DEF TypeInv, MaskInv
<1>3. Bits(H)' = Bits(H) /\ Bytes(H)' = Bytes(H)
  BY <1>1 DEF H, Bits, Bytes
<1>4. CopyInv'
  BY <1>1, <1>3, SameWindow DEF CopyInv, ByteOf
<1>5. Shown(mem, H)' = Shown(mem, H) /\ Shown(copy, H)' = Shown(copy, H)
  BY <1>1 DEF H, Shown
<1>6. ShownInv'
  BY <1>1, <1>3, <1>5 DEF ShownInv, ReadsCurrent
<1> QED BY <1>2, <1>4, <1>6

LEMMA Invariant == Spec => []IInv
<1>1. IInv /\ [Next]_vars => IInv'
  <2> SUFFICES ASSUME IInv, [Next]_vars PROVE IInv'
    OBVIOUS
  <2>1. ASSUME NEW b \in FieldBytes, Load(b) \/ Store(b) PROVE IInv'
    BY <2>1, LoadInv, StoreInv, Zenon
  <2>2. CASE Access
    BY <2>2, AssignInv, ReadInv, Zenon
  <2>3. CASE Lock \/ Sync \/ Handle
    BY <2>3, LockInv, SyncInv, HandleInv, Zenon
  <2>4. CASE UNCHANGED vars
    BY <2>4, StutterInv
  <2> QED BY <2>1, <2>2, <2>3, <2>4, Zenon DEF Next, FieldBytes
<1> QED BY InitIInv, <1>1, PTL DEF Spec

-----------------------------------------------------------------------------
(* What is read of the field of a handler is current (SyncRegMap,          *)
(* regmaps.h:89).                                                          *)
THEOREM ReadsCorrect == Spec => []ReadsCurrent
<1>1. IInv => ReadsCurrent
  BY DEF IInv, ShownInv
<1> QED BY Invariant, <1>1, PTL

-----------------------------------------------------------------------------
(* The refinement: the fields as variables.                                *)
BitAt(p) == p[1].at + p[2]

LEMMA Places ==
  ASSUME prog \in Programs
  PROVE  \A p \in Place :
           /\ p[1] \in prog.fields /\ p[2] \in 0 .. p[1].width - 1
           /\ BitAt(p) \in Bits(p[1]) /\ BitAt(p) \in Memory
           /\ \A a : Assigns(prog, a) => (BitAt(p) \in Bits(a.field) <=> p[1] = a.field)
<1> SUFFICES ASSUME NEW p \in Place
             PROVE  /\ p[1] \in prog.fields /\ p[2] \in 0 .. p[1].width - 1
                    /\ BitAt(p) \in Bits(p[1]) /\ BitAt(p) \in Memory
                    /\ \A a : Assigns(prog, a) => (BitAt(p) \in Bits(a.field) <=> p[1] = a.field)
  OBVIOUS
<1>1. p[1] \in prog.fields /\ p[2] \in 0 .. p[1].width - 1
  BY DEF Place
<1>2. BitAt(p) \in Bits(p[1]) /\ BitAt(p) \in Memory
  BY <1>1, Layout DEF BitAt
<1>3. ASSUME NEW a, Assigns(prog, a) PROVE BitAt(p) \in Bits(a.field) <=> p[1] = a.field
  BY <1>1, <1>2, <1>3 DEF Assigns
<1> QED BY <1>1, <1>2, <1>3

LEMMA Values ==
  /\ \A p \in Place : valueOf[p] = mem[BitAt(p)]
  /\ \A p \in Place : pendingOf[p] = IF BitAt(p) \in dirty THEN copy[BitAt(p)] ELSE 2
BY DEF valueOf, pendingOf, BitAt

LEMMA SamePlaces ==
  ASSUME UNCHANGED prog
  PROVE  /\ Place' = Place
         /\ valueOf' = [p \in Place |-> mem'[BitAt(p)]]
         /\ pendingOf' = [p \in Place |-> IF BitAt(p) \in dirty' THEN copy'[BitAt(p)] ELSE 2]
<1>1. Place' = Place
  BY DEF Place
<1> QED BY <1>1 DEF valueOf, pendingOf, BitAt

LEMMA InitRefines == Init => Independent!Init
<1> SUFFICES ASSUME Init PROVE Independent!Init
  OBVIOUS
<1>1. prog \in Programs /\ mem = [bit \in Memory |-> prog.start] /\ dirty = {}
  BY DEF Init
<1>2. valueOf = [p \in Independent!Places |-> prog.start]
  BY <1>1, Places DEF valueOf, Place, Independent!Places, BitAt
<1>3. pendingOf = [p \in Independent!Places |-> Independent!None]
  BY <1>1 DEF pendingOf, Place, Independent!Places, Independent!None
<1> QED BY <1>2, <1>3 DEF Init, Independent!Init

LEMMA LoadRefines == ASSUME IInv, NEW b \in FieldBytes, Load(b) PROVE UNCHANGED Independent!vars
<1>1. /\ UNCHANGED <<prog, window, done, handled, mem, dirty>>
      /\ copy' = [bit \in Memory |-> IF bit \in OfByte(b) THEN mem[bit] ELSE copy[bit]]
      /\ b \notin held
  BY DEF Load, progress
<1>2. prog \in Programs /\ dirty \subseteq Memory
  BY DEF IInv, TypeInv
<1>3. \A bit \in dirty : copy'[bit] = copy[bit]
  BY <1>1, <1>2, Layout, BitsOfBytes DEF IInv, CopyInv
<1>4. valueOf' = valueOf /\ pendingOf' = pendingOf
  BY <1>1, <1>3, SamePlaces DEF valueOf, pendingOf, BitAt
<1> QED BY <1>1, <1>4 DEF Independent!vars

LEMMA AccessRefines == ASSUME IInv, Access PROVE Independent!Access
<1> DEFINE a == Accesses[done + 1]
<1>1. /\ UNCHANGED <<prog, window, handled, mem>> /\ done' = done + 1 /\ done < Len(Accesses)
      /\ IF a.op = "assign"
         THEN copy' = Assigned(copy, a) /\ dirty' = dirty \cup Bits(a.field)
         ELSE UNCHANGED <<copy, dirty>>
  BY DEF Access, cpu
<1>2. Accesses = Independent!Accesses
  BY DEF Accesses, Running, Independent!Accesses
<1>3. valueOf' = valueOf
  BY <1>1, SamePlaces DEF valueOf, BitAt
<1>4. CASE a.op # "assign"
  <2>1. pendingOf' = pendingOf
    BY <1>1, <1>4, SamePlaces DEF pendingOf, BitAt
  <2> QED BY <1>1, <1>2, <1>3, <1>4, <2>1 DEF Independent!Access
<1>5. CASE a.op = "assign"
  <2>1. prog \in Programs /\ Assigns(prog, a)
    <3>1. done + 1 \in 1 .. Len(Accesses) /\ prog \in Programs
      BY <1>1, ProgramsAssumption DEF IInv, TypeInv, Accesses, Running
    <3>2. a.op # "read"
      BY <1>5
    <3> QED BY <3>1, <3>2, Accessed, Zenon DEF IInv
  <2>2. \A p \in Place : (IF BitAt(p) \in dirty' THEN copy'[BitAt(p)] ELSE 2)
                        = IF p[1] = a.field THEN a.bits[p[2]] ELSE pendingOf[p]
    <3> SUFFICES ASSUME NEW p \in Place
                 PROVE  (IF BitAt(p) \in dirty' THEN copy'[BitAt(p)] ELSE 2)
                        = IF p[1] = a.field THEN a.bits[p[2]] ELSE pendingOf[p]
      OBVIOUS
    <3>1. /\ p[1] \in prog.fields /\ p[2] \in 0 .. p[1].width - 1 /\ BitAt(p) \in Memory
          /\ BitAt(p) \in Bits(a.field) <=> p[1] = a.field
      BY <2>1, Places
    <3>2. CASE p[1] = a.field
      <4>1. BitAt(p) - a.field.at = p[2]
        BY <2>1, <3>1, <3>2, ProgramsAssumption DEF BitAt
      <4> QED BY <1>1, <1>5, <3>1, <3>2, <4>1 DEF Assigned
    <3>3. CASE p[1] # a.field
      BY <1>1, <1>5, <3>1, <3>3, Values DEF Assigned
    <3> QED BY <3>2, <3>3
  <2>3. pendingOf' = Independent!Assigned(pendingOf, a)
    BY <1>1, <2>2, SamePlaces DEF Independent!Assigned, Independent!Places, Place
  <2> QED BY <1>1, <1>2, <1>3, <1>5, <2>3 DEF Independent!Access
<1> QED BY <1>4, <1>5

LEMMA StoreRefines == ASSUME IInv, NEW b \in FieldBytes, Store(b) PROVE Independent!Settle
<1>1. /\ UNCHANGED <<prog, window, done, handled, copy>> /\ OfByte(b) \cap dirty # {}
      /\ mem' = [bit \in Memory |-> IF bit \in OfByte(b) THEN copy[bit] ELSE mem[bit]]
      /\ dirty' = dirty \ OfByte(b)
  BY DEF Store, progress
<1>2. prog \in Programs /\ dirty \subseteq Memory /\ copy \in [Memory -> Bit]
  BY DEF IInv, TypeInv
<1>3. b \in held /\ Alone(b)
  BY <1>1, <1>2, Layout, BitsOfBytes DEF IInv, CopyInv
<1>4. \A bit \in OfByte(b) \ dirty : copy[bit] = mem[bit]
  BY <1>2, <1>3, Layout, BitsOfBytes DEF IInv, CopyInv
<1>5. /\ \A p \in Place : valueOf'[p] = mem'[BitAt(p)]
      /\ \A p \in Place : pendingOf'[p] = IF BitAt(p) \in dirty' THEN copy[BitAt(p)] ELSE 2
      /\ DOMAIN valueOf' = Place /\ DOMAIN pendingOf' = Place
  BY <1>1, SamePlaces
<1>6. \A p \in Place :
        \/ valueOf'[p] = valueOf[p] /\ pendingOf'[p] = pendingOf[p]
        \/ pendingOf[p] # 2 /\ valueOf'[p] = pendingOf[p] /\ pendingOf'[p] = 2
  <2> SUFFICES ASSUME NEW p \in Place
               PROVE  \/ valueOf'[p] = valueOf[p] /\ pendingOf'[p] = pendingOf[p]
                      \/ pendingOf[p] # 2 /\ valueOf'[p] = pendingOf[p] /\ pendingOf'[p] = 2
    OBVIOUS
  <2>1. BitAt(p) \in Memory /\ copy[BitAt(p)] # 2
    BY <1>2, Places DEF Bit
  <2>2. CASE BitAt(p) \in OfByte(b) /\ BitAt(p) \in dirty
    BY <1>1, <1>5, <2>1, <2>2, Values
  <2>3. CASE ~ (BitAt(p) \in OfByte(b) /\ BitAt(p) \in dirty)
    BY <1>1, <1>4, <1>5, <2>1, <2>3, Values
  <2> QED BY <2>2, <2>3
<1> QED BY <1>1, <1>5, <1>6 DEF Independent!Settle, Independent!Places, Independent!None, Place

LEMMA HandleRefines == ASSUME IInv, Handle PROVE Independent!Handle
<1>1. /\ UNCHANGED <<prog, window, done, copy, dirty>> /\ ~ handled /\ handled' = TRUE
      /\ mem' = Assigned(mem, prog.handler)
  BY DEF Handle, progress, cpu
<1>2. prog \in Programs /\ Assigns(prog, prog.handler)
  BY ProgramsAssumption DEF IInv, TypeInv
<1>3. \A p \in Place :
        mem'[BitAt(p)] = IF p[1] = prog.handler.field THEN prog.handler.bits[p[2]] ELSE valueOf[p]
  <2> SUFFICES ASSUME NEW p \in Place
               PROVE  mem'[BitAt(p)]
                      = IF p[1] = prog.handler.field THEN prog.handler.bits[p[2]] ELSE valueOf[p]
    OBVIOUS
  <2>1. /\ p[1] \in prog.fields /\ p[2] \in 0 .. p[1].width - 1 /\ BitAt(p) \in Memory
        /\ BitAt(p) \in Bits(prog.handler.field) <=> p[1] = prog.handler.field
    BY <1>2, Places
  <2>2. BitAt(p) - p[1].at = p[2]
    BY <1>2, <2>1, ProgramsAssumption DEF BitAt
  <2> QED BY <1>1, <2>1, <2>2, Values DEF Assigned
<1>4. valueOf' = Independent!Assigned(valueOf, prog.handler)
  BY <1>1, <1>3, SamePlaces DEF Independent!Assigned, Independent!Places, Place
<1>5. pendingOf' = pendingOf
  BY <1>1, SamePlaces DEF pendingOf, BitAt
<1> QED BY <1>1, <1>4, <1>5 DEF Independent!Handle

LEMMA SyncRefines == ASSUME IInv, Sync PROVE Independent!Sync
<1>1. /\ UNCHANGED <<prog, handled, mem, copy, dirty>> /\ dirty = {}
      /\ Running /\ done = Len(Accesses) /\ window' = window + 1 /\ done' = 0
  BY DEF Sync
<1>2. Accesses = Independent!Accesses
  BY DEF Accesses, Running, Independent!Accesses
<1>3. UNCHANGED <<valueOf, pendingOf>>
  BY <1>1, SamePlaces DEF valueOf, pendingOf, BitAt
<1>4. pendingOf = [p \in Independent!Places |-> Independent!None]
  BY <1>1 DEF pendingOf, Place, Independent!Places, Independent!None
<1> QED BY <1>1, <1>2, <1>3, <1>4 DEF Independent!Sync, Running

(* The bit-fields of a register map of any layout are variables of their   *)
(* own: whatever the compiler keeps in the registers of the processor      *)
(* between two synchronisations (base/localRegMap.h, regmaps.h:86-92), and *)
(* wherever a handler interrupts, no assignment changes or undoes another. *)
THEOREM FieldsAreIndependent == Spec => ImplementsIndependent
<1>1. IInv /\ [Next]_vars => [Independent!Next]_Independent!vars
  <2> SUFFICES ASSUME IInv, [Next]_vars
               PROVE  Independent!Next \/ UNCHANGED Independent!vars
    OBVIOUS
  <2>1. ASSUME NEW b \in FieldBytes, Load(b) PROVE UNCHANGED Independent!vars
    BY <2>1, LoadRefines
  <2>2. ASSUME NEW b \in FieldBytes, Store(b) PROVE Independent!Next
    BY <2>2, StoreRefines DEF Independent!Next
  <2>3. CASE Access
    BY <2>3, AccessRefines DEF Independent!Next
  <2>4. CASE Sync \/ Handle
    BY <2>4, SyncRefines, HandleRefines DEF Independent!Next
  <2>5. CASE Lock \/ UNCHANGED vars
    <3>1. UNCHANGED <<prog, window, done, handled, mem, copy, dirty>>
      BY <2>5 DEF Lock, vars, progress, cpu
    <3>2. UNCHANGED <<valueOf, pendingOf>>
      BY <3>1, SamePlaces DEF valueOf, pendingOf, BitAt
    <3> QED BY <3>1, <3>2 DEF Independent!vars
  <2> QED BY <2>1, <2>2, <2>3, <2>4, <2>5, Zenon DEF Next, FieldBytes
<1> QED BY InitRefines, Invariant, <1>1, PTL DEF Spec, ImplementsIndependent, Independent!Spec

-----------------------------------------------------------------------------
(* The last assignments of a program.  What it sees of a bit is what it    *)
(* has assigned and not stored, or else the memory.                        *)
Current(bit) == IF bit \in dirty THEN copy[bit] ELSE mem[bit]

Done(w, j) == w < window \/ (w = window /\ j <= done)

LastInv ==
  \A w \in 1 .. Len(prog.windows) : \A j \in 1 .. Len(prog.windows[w].access) :
    LET a == prog.windows[w].access[j] IN
    a.op = "assign" /\ IsLast(prog, w, j) /\ Done(w, j) =>
      \A bit \in Bits(a.field) : Current(bit) = a.bits[bit - a.field.at]

(* What an access of a program is about.                                   *)
LEMMA Kept ==
  ASSUME prog \in Programs, NEW w \in 1 .. Len(prog.windows),
         NEW j \in 1 .. Len(prog.windows[w].access), NEW a, a = prog.windows[w].access[j],
         a.op = "assign"
  PROVE  /\ a.field \in prog.fields /\ a.field # H /\ H \in prog.fields
         /\ \A f \in prog.fields \ {a.field} : Bits(f) \cap Bits(a.field) = {}
         /\ Bits(a.field) \subseteq Memory /\ Bits(a.field) \cap Bits(H) = {}
         /\ a.bits \in [0 .. a.field.width - 1 -> Bit]
<1>1. Keeps(prog, w, a)
  BY ProgramsAssumption
<1>2. Assigns(prog, a) /\ a.field # H
  BY <1>1 DEF Keeps, H
<1>3. H \in prog.fields
  BY Layout
<1> QED BY <1>2, <1>3, Layout DEF Assigns

SameBits == \A bit \in Memory \ Bits(H) : Current(bit)' = Current(bit)

LEMMA LastSame ==
  ASSUME prog \in Programs, LastInv, UNCHANGED <<prog, window, done>>, SameBits
  PROVE  LastInv'
<1> SUFFICES ASSUME NEW w \in 1 .. Len(prog.windows),
                    NEW j \in 1 .. Len(prog.windows[w].access),
                    NEW a, a = prog.windows[w].access[j], a.op = "assign",
                    IsLast(prog, w, j), Done(w, j)', NEW bit \in Bits(a.field)
             PROVE  Current(bit)' = a.bits[bit - a.field.at]
  BY Zenon DEF LastInv, Done, IsLast, Bits
<1>1. bit \in Memory \ Bits(H)
  BY Kept
<1>2. Current(bit) = a.bits[bit - a.field.at]
  BY DEF LastInv, Done
<1> QED BY <1>1, <1>2 DEF SameBits

LEMMA LastInit == Init => LastInv
<1> SUFFICES ASSUME Init, NEW w \in 1 .. Len(prog.windows),
                    NEW j \in 1 .. Len(prog.windows[w].access), Done(w, j)
             PROVE  FALSE
  BY DEF LastInv
<1> QED BY DEF Init, Done

LEMMA LastLoad == ASSUME IInv, LastInv, NEW b \in FieldBytes, Load(b) PROVE LastInv'
<1>1. /\ UNCHANGED <<prog, window, done, mem, dirty>> /\ b \notin held
      /\ copy' = [bit \in Memory |-> IF bit \in OfByte(b) THEN mem[bit] ELSE copy[bit]]
  BY DEF Load, progress
<1>2. prog \in Programs /\ dirty \subseteq Memory
  BY DEF IInv, TypeInv
<1>3. ASSUME NEW bit \in dirty PROVE copy'[bit] = copy[bit]
  <2>1. ByteOf(bit) \in held
    BY DEF IInv, CopyInv
  <2>2. bit \notin OfByte(b)
    BY <1>1, <1>2, <2>1, Layout, BitsOfBytes
  <2> QED BY <1>1, <1>2, <2>2
<1>4. SameBits
  BY <1>1, <1>3 DEF Current, SameBits
<1> QED BY <1>1, <1>2, <1>4, LastSame

LEMMA LastStore == ASSUME IInv, LastInv, NEW b \in FieldBytes, Store(b) PROVE LastInv'
<1>1. /\ UNCHANGED <<prog, window, done, copy>>
      /\ mem' = [bit \in Memory |-> IF bit \in OfByte(b) THEN copy[bit] ELSE mem[bit]]
      /\ dirty' = dirty \ OfByte(b) /\ OfByte(b) \cap dirty # {}
  BY DEF Store, progress
<1>2. prog \in Programs /\ dirty \subseteq Memory
  BY DEF IInv, TypeInv
<1>3. b \in held /\ Alone(b)
  <2>1. PICK bit \in dirty : bit \in OfByte(b)
    BY <1>1
  <2>2. ByteOf(bit) = b
    BY <1>2, <2>1, Layout, BitsOfBytes
  <2> QED BY <2>1, <2>2 DEF IInv, CopyInv
<1>4. ASSUME NEW bit \in Memory PROVE Current(bit)' = Current(bit)
  <2>1. CASE bit \in OfByte(b)
    <3>1. ByteOf(bit) = b
      BY <1>2, <2>1, Layout, BitsOfBytes
    <3>2. bit \notin dirty => copy[bit] = mem[bit]
      BY <1>3, <3>1 DEF IInv, CopyInv
    <3> QED BY <1>1, <2>1, <3>2 DEF Current
  <2>2. CASE bit \notin OfByte(b)
    BY <1>1, <2>2 DEF Current
  <2> QED BY <2>1, <2>2
<1> QED BY <1>1, <1>2, <1>4, LastSame DEF SameBits

LEMMA LastHandle == ASSUME IInv, LastInv, Handle PROVE LastInv'
<1>1. UNCHANGED <<prog, window, done, copy, dirty>> /\ mem' = Assigned(mem, prog.handler)
  BY DEF Handle, progress, cpu
<1>2. prog \in Programs
  BY DEF IInv, TypeInv
<1>3. \A bit \in Memory : bit \notin Bits(H) => mem'[bit] = mem[bit]
  BY <1>1 DEF Assigned, H
<1>4. SameBits
  BY <1>1, <1>3 DEF Current, SameBits
<1> QED BY <1>1, <1>2, <1>4, LastSame

LEMMA LastSync == ASSUME IInv, LastInv, Sync PROVE LastInv'
<1>1. /\ UNCHANGED <<prog, mem, copy, dirty>>
      /\ Running /\ done = Len(Accesses) /\ window' = window + 1 /\ done' = 0
  BY DEF Sync
<1>2. prog \in Programs /\ window \in 1 .. Len(prog.windows)
  BY <1>1, ProgramsAssumption DEF IInv, TypeInv, Running
<1>3. Accesses = prog.windows[window].access
  BY <1>1 DEF Accesses
<1> SUFFICES ASSUME NEW w \in 1 .. Len(prog.windows),
                    NEW j \in 1 .. Len(prog.windows[w].access),
                    NEW a, a = prog.windows[w].access[j], a.op = "assign",
                    IsLast(prog, w, j), Done(w, j)', NEW bit \in Bits(a.field)
             PROVE  Current(bit)' = a.bits[bit - a.field.at]
  BY <1>1, Zenon DEF LastInv, Done, IsLast, Bits
<1>4. Done(w, j)
  <2>1. Len(prog.windows) \in Nat /\ Len(prog.windows[w].access) \in Nat
    BY <1>2, ProgramsAssumption
  <2>2. w < window + 1 \/ (w = window + 1 /\ j <= 0)
    BY <1>1 DEF Done
  <2>3. w = window => j <= done
    BY <1>1, <1>3
  <2> QED BY <1>2, <2>1, <2>2, <2>3 DEF Done
<1>5. Current(bit)' = Current(bit)
  BY <1>1 DEF Current
<1> QED BY <1>4, <1>5 DEF LastInv

LEMMA LastRead ==
  ASSUME IInv, LastInv, Access, Accesses[done + 1].op # "assign" PROVE LastInv'
<1>1. UNCHANGED <<prog, window, mem, copy, dirty>> /\ done' = done + 1 /\ done < Len(Accesses)
  BY DEF Access, cpu
<1>2. prog \in Programs /\ done \in Nat
  BY DEF IInv, TypeInv
<1> SUFFICES ASSUME NEW w \in 1 .. Len(prog.windows),
                    NEW j \in 1 .. Len(prog.windows[w].access),
                    NEW a, a = prog.windows[w].access[j], a.op = "assign",
                    IsLast(prog, w, j), Done(w, j)', NEW bit \in Bits(a.field)
             PROVE  Current(bit)' = a.bits[bit - a.field.at]
  BY <1>1, Zenon DEF LastInv, Done, IsLast, Bits
<1>3. Done(w, j)
  <2>1. w = window => Accesses = prog.windows[w].access
    BY DEF Accesses, Running
  <2>2. Len(prog.windows[w].access) \in Nat
    BY <1>2, ProgramsAssumption
  <2>3. w < window \/ (w = window /\ j <= done + 1)
    BY <1>1 DEF Done
  <2>4. w = window => j # done + 1
    BY <2>1
  <2> QED BY <1>2, <2>2, <2>3, <2>4 DEF Done
<1>4. Current(bit)' = Current(bit)
  BY <1>1 DEF Current
<1> QED BY <1>3, <1>4 DEF LastInv

(* An assignment that has been done to the same field is not the last one. *)
LEMMA LastAssign ==
  ASSUME IInv, LastInv, Access, Accesses[done + 1].op = "assign" PROVE LastInv'
<1> DEFINE b == Accesses[done + 1]
<1>1. /\ UNCHANGED <<prog, window, mem>> /\ done' = done + 1 /\ done < Len(Accesses)
      /\ copy' = Assigned(copy, b) /\ dirty' = dirty \cup Bits(b.field)
  BY DEF Access
<1>2. /\ prog \in Programs /\ done \in Nat /\ window \in Nat \ {0} /\ Len(Accesses) \in Nat
      /\ dirty \subseteq Memory
  BY ProgramsAssumption DEF IInv, TypeInv, Accesses, Running
<1>3. Running
  BY <1>1, <1>2 DEF Accesses
<1>4. window \in 1 .. Len(prog.windows) /\ Accesses = prog.windows[window].access
  BY <1>2, <1>3, ProgramsAssumption DEF Running, Accesses
<1>5. done + 1 \in 1 .. Len(prog.windows[window].access)
  BY <1>1, <1>2, <1>4
<1>6. b.op = "assign" /\ b = prog.windows[window].access[done + 1]
  BY <1>4
<1>7. /\ b.field \in prog.fields /\ Bits(b.field) \subseteq Memory
      /\ \A f \in prog.fields \ {b.field} : Bits(f) \cap Bits(b.field) = {}
  BY <1>2, <1>4, <1>5, <1>6, Kept
<1>8. \A bit \in Memory :
        Current(bit)' = IF bit \in Bits(b.field) THEN b.bits[bit - b.field.at] ELSE Current(bit)
  BY <1>1 DEF Current, Assigned
<1> HIDE DEF b
<1> SUFFICES ASSUME NEW w \in 1 .. Len(prog.windows),
                    NEW j \in 1 .. Len(prog.windows[w].access),
                    NEW a, a = prog.windows[w].access[j], a.op = "assign",
                    IsLast(prog, w, j), Done(w, j)', NEW bit \in Bits(a.field)
             PROVE  Current(bit)' = a.bits[bit - a.field.at]
  BY <1>1, Zenon DEF LastInv, Done, IsLast, Bits
<1>9. a.field \in prog.fields /\ Bits(a.field) \subseteq Memory
  BY <1>2, Kept
<1>10. Len(prog.windows[w].access) \in Nat /\ Len(prog.windows) \in Nat
  BY <1>2, ProgramsAssumption
<1>11. Done(w, j) \/ (w = window /\ j = done + 1)
  <2>1. w < window \/ (w = window /\ j <= done + 1)
    BY <1>1 DEF Done
  <2> QED BY <1>2, <1>10, <2>1 DEF Done
<1>12. CASE w = window /\ j = done + 1
  BY <1>6, <1>8, <1>9, <1>12
<1>13. CASE Done(w, j)
  <2>1. a.field # b.field
    <3>1. ASSUME a.field = b.field PROVE FALSE
      <4>1. window < w \/ (window = w /\ done + 1 <= j)
        BY <1>4, <1>5, <1>6, <3>1 DEF IsLast
      <4> QED BY <1>2, <1>10, <1>13, <4>1 DEF Done
    <3> QED BY <3>1
  <2>2. bit \notin Bits(b.field)
    BY <1>7, <1>9, <2>1
  <2> QED BY <1>8, <1>9, <1>13, <2>2 DEF LastInv
<1> QED BY <1>11, <1>12, <1>13

LEMMA LastInvariant == Spec => [](IInv /\ LastInv)
<1>1. IInv /\ LastInv /\ [Next]_vars => LastInv'
  <2> SUFFICES ASSUME IInv, LastInv, [Next]_vars PROVE LastInv'
    OBVIOUS
  <2>1. ASSUME NEW b \in FieldBytes, Load(b) \/ Store(b) PROVE LastInv'
    BY <2>1, LastLoad, LastStore, Zenon
  <2>2. CASE Access
    BY <2>2, LastAssign, LastRead, Zenon
  <2>3. CASE Lock \/ UNCHANGED vars
    <3>1. UNCHANGED <<prog, window, done, mem, copy, dirty>>
      BY <2>3 DEF Lock, cpu, vars, progress
    <3>2. SameBits
      BY <3>1 DEF Current, SameBits
    <3>3. prog \in Programs
      BY DEF IInv, TypeInv
    <3> QED BY <3>1, <3>2, <3>3, LastSame
  <2>4. CASE Sync \/ Handle
    BY <2>4, LastSync, LastHandle, Zenon
  <2> QED BY <2>1, <2>2, <2>3, <2>4, Zenon DEF Next, FieldBytes
<1> QED BY Invariant, LastInit, <1>1, PTL DEF Spec

-----------------------------------------------------------------------------
(* The number that a field of at most three bits shows.  g is the          *)
(* recursive function in the definition of Read(memory, f).                *)
ReadSteps(g, memory, f) ==
  g = [n \in 0 .. f.width |->
         IF n = 0 THEN 0 ELSE g[n - 1] + memory[f.at + n - 1] * 2^(n - 1)]

LEMMA Powers == 2^0 = 1 /\ 2^1 = 2 /\ 2^2 = 4 /\ 2^3 = 8
OBVIOUS

LEMMA ReadExists ==
  ASSUME NEW memory, NEW f, f.width \in 1 .. 3
  PROVE  \E g : ReadSteps(g, memory, f)
<1> DEFINE term(n) == memory[f.at + n - 1] * 2^(n - 1)
           g == [n \in 0 .. f.width |->
                   IF n = 0 THEN 0 ELSE IF n = 1 THEN 0 + term(1)
                   ELSE IF n = 2 THEN (0 + term(1)) + term(2)
                   ELSE ((0 + term(1)) + term(2)) + term(3)]
           h(n) == IF n = 0 THEN 0 ELSE g[n - 1] + term(n)
<1>1. ASSUME NEW n \in 0 .. f.width PROVE g[n] = h(n)
  <2>1. CASE n = 0
    BY <1>1, <2>1, Zenon
  <2>2. CASE n = 1
    <3>1. n - 1 = 0 /\ n - 1 \in 0 .. f.width /\ n # 0
      BY <2>2
    <3> QED BY <2>2, <3>1, Zenon
  <2>3. CASE n = 2
    <3>1. n - 1 = 1 /\ n - 1 \in 0 .. f.width /\ n # 0 /\ n # 1 /\ 1 # 0
      BY <2>3
    <3> QED BY <2>3, <3>1, Zenon
  <2>4. CASE n = 3
    <3>1. n - 1 = 2 /\ n - 1 \in 0 .. f.width /\ n # 0 /\ n # 1 /\ n # 2 /\ 2 # 0 /\ 2 # 1
      BY <2>4
    <3> QED BY <2>4, <3>1, Zenon
  <2> QED BY <2>1, <2>2, <2>3, <2>4
<1>2. g = [n \in 0 .. f.width |-> h(n)]
  BY <1>1, Zenon
<1> HIDE DEF g
<1>3. ReadSteps(g, memory, f)
  BY <1>2, Zenon DEF ReadSteps
<1> QED BY <1>3

ReadFn(memory, f) ==
  CHOOSE g : g = [n \in 0 .. f.width |->
                    IF n = 0 THEN 0 ELSE g[n - 1] + memory[f.at + n - 1] * 2^(n - 1)]

LEMMA ReadIs ==
  ASSUME NEW memory, NEW f, f.width \in 1 .. 3, NEW g, g = ReadFn(memory, f)
  PROVE  /\ Read(memory, f) = g[f.width] /\ g[0] = 0
         /\ \A n \in 1 .. f.width : g[n] = g[n - 1] + memory[f.at + n - 1] * 2^(n - 1)
<1>1. \E x : ReadSteps(x, memory, f)
  BY ReadExists
<1>2. ReadSteps(g, memory, f)
  BY <1>1, Zenon DEF ReadSteps, ReadFn
<1>3. Read(memory, f) = ReadFn(memory, f)[f.width]
  BY Zenon DEF Read, ReadFn
<1> DEFINE h(n) == IF n = 0 THEN 0 ELSE g[n - 1] + memory[f.at + n - 1] * 2^(n - 1)
<1>4. g = [n \in 0 .. f.width |-> h(n)]
  BY <1>2, Zenon DEF ReadSteps
<1>5. \A n \in 0 .. f.width : g[n] = h(n)
  BY <1>4, Zenon
<1>6. 0 \in 0 .. f.width /\ \A n \in 1 .. f.width : n # 0 /\ n \in 0 .. f.width
  OBVIOUS
<1>7. g[0] = 0
  BY <1>5, <1>6, Zenon
<1>8. \A n \in 1 .. f.width : g[n] = g[n - 1] + memory[f.at + n - 1] * 2^(n - 1)
  BY <1>5, <1>6, Zenon
<1> QED BY <1>3, <1>7, <1>8

LEMMA BitsOfValue ==
  /\ \A v \in 0 .. 1 : v = BitOf(v, 0)
  /\ \A v \in 0 .. 3 : v = BitOf(v, 0) + BitOf(v, 1) * 2
  /\ \A v \in 0 .. 7 : v = BitOf(v, 0) + BitOf(v, 1) * 2 + BitOf(v, 2) * 4
<1>1. \A v : BitOf(v, 0) = (v \div 1) % 2 /\ BitOf(v, 1) = (v \div 2) % 2
             /\ BitOf(v, 2) = (v \div 4) % 2
  BY Powers DEF BitOf
<1>2. \A v \in 0 .. 1 : v = (v \div 1) % 2
  OBVIOUS
<1>3. \A v \in 0 .. 3 : v = ((v \div 1) % 2) + ((v \div 2) % 2) * 2
  OBVIOUS
<1>4. \A v \in 0 .. 7 : v = ((v \div 1) % 2) + ((v \div 2) % 2) * 2 + ((v \div 4) % 2) * 4
  OBVIOUS
<1> QED BY <1>1, <1>2, <1>3, <1>4

LEMMA ReadValue ==
  ASSUME NEW memory, NEW f, f.at \in Nat, NEW v, Holds(f, v),
         \A i \in 0 .. f.width - 1 : memory[f.at + i] = BitOf(v, i)
  PROVE  Read(memory, f) = v
<1>1. PICK w : w = f.width
  OBVIOUS
<1>2. w \in 1 .. 3 /\ v \in 0 .. 2^w - 1
  BY <1>1, Zenon DEF Holds
<1>3. PICK g : g = ReadFn(memory, f)
  OBVIOUS
<1>4. /\ Read(memory, f) = g[w] /\ g[0] = 0
      /\ \A n \in 1 .. w : g[n] = g[n - 1] + memory[f.at + n - 1] * 2^(n - 1)
  BY <1>1, <1>2, <1>3, ReadIs
<1>5. ASSUME NEW n \in 1 .. w PROVE g[n] = g[n - 1] + BitOf(v, n - 1) * 2^(n - 1)
  <2>1. n - 1 \in 0 .. f.width - 1 /\ f.at + n - 1 = f.at + (n - 1)
    BY <1>1, <1>2
  <2> QED BY <1>4, <2>1, Zenon
<1>6. 1 - 1 = 0 /\ 2 - 1 = 1 /\ 3 - 1 = 2
  OBVIOUS
<1>7. g[1] = g[0] + BitOf(v, 0) * 2^0
  <2>1. 1 \in 1 .. w
    BY <1>2
  <2> QED BY <1>5, <1>6, <2>1, Zenon
<1>8. ASSUME w >= 2 PROVE g[2] = g[1] + BitOf(v, 1) * 2^1
  <2>1. 2 \in 1 .. w
    BY <1>2, <1>8
  <2> QED BY <1>5, <1>6, <2>1, Zenon
<1>9. ASSUME w >= 3 PROVE g[3] = g[2] + BitOf(v, 2) * 2^2
  <2>1. 3 \in 1 .. w
    BY <1>2, <1>9
  <2> QED BY <1>5, <1>6, <2>1, Zenon
<1>10. PICK b0, b1, b2 : b0 = BitOf(v, 0) /\ b1 = BitOf(v, 1) /\ b2 = BitOf(v, 2)
  OBVIOUS
<1>11. v \in Nat
  BY <1>2
<1>12. b0 \in {0, 1} /\ b1 \in {0, 1} /\ b2 \in {0, 1}
  <2>1. \A n \in Nat : (n \div 1) % 2 \in {0, 1} /\ (n \div 2) % 2 \in {0, 1}
                       /\ (n \div 4) % 2 \in {0, 1}
    OBVIOUS
  <2>2. b0 = (v \div 1) % 2 /\ b1 = (v \div 2) % 2 /\ b2 = (v \div 4) % 2
    BY <1>10, Powers, Zenon DEF BitOf
  <2> QED BY <1>11, <2>1, <2>2, Zenon
<1>13. g[1] = b0
  <2>1. g[1] = 0 + b0 * 1
    BY <1>4, <1>7, <1>10, Powers, Zenon
  <2> QED BY <1>12, <2>1
<1>14. CASE w = 1
  <2>1. v \in 0 .. 1
    BY <1>2, <1>14, Powers
  <2> QED BY <1>4, <1>10, <1>13, <1>14, <2>1, BitsOfValue, Zenon
<1>15. ASSUME w >= 2 PROVE g[2] = b0 + b1 * 2
  BY <1>8, <1>10, <1>13, <1>15, Powers, Zenon
<1>16. CASE w = 2
  <2>1. v \in 0 .. 3 /\ w >= 2
    BY <1>2, <1>16, Powers
  <2> QED BY <1>4, <1>10, <1>15, <1>16, <2>1, BitsOfValue, Zenon
<1>17. CASE w = 3
  <2>1. v \in 0 .. 7 /\ w >= 2 /\ w >= 3
    BY <1>2, <1>17, Powers
  <2>2. g[3] = b0 + b1 * 2 + b2 * 4
    BY <1>9, <1>10, <1>15, <2>1, Powers, Zenon
  <2> QED BY <1>4, <1>10, <1>17, <2>1, <2>2, BitsOfValue, Zenon
<1> QED BY <1>2, <1>14, <1>16, <1>17

(* A field of a program that is done shows what was assigned to it last.   *)
LEMMA Left ==
  ASSUME IInv, LastInv, ~ Running, NEW a, a.op = "assign", Leaves(prog, a)
  PROVE  /\ a.field \in prog.fields /\ a.field.at \in Nat
         /\ \A i \in 0 .. a.field.width - 1 : mem[a.field.at + i] = a.bits[i]
<1>1. prog \in Programs
  BY DEF IInv, TypeInv
<1>2. PICK w \in 1 .. Len(prog.windows) : \E j \in 1 .. Len(prog.windows[w].access) :
        prog.windows[w].access[j] = a /\ IsLast(prog, w, j)
  BY DEF Leaves
<1>3. PICK j \in 1 .. Len(prog.windows[w].access) :
        prog.windows[w].access[j] = a /\ IsLast(prog, w, j)
  BY <1>2
<1>4. dirty = {}
  BY DEF IInv, CopyInv
<1>5. Done(w, j)
  BY <1>1, ProgramsAssumption DEF Done, Running, IInv, TypeInv
<1>6. \A bit \in Bits(a.field) : mem[bit] = a.bits[bit - a.field.at]
  BY <1>3, <1>4, <1>5 DEF LastInv, Current
<1>7. a.field \in prog.fields
  BY <1>1, <1>3, Kept
<1>8. a.field.at \in Nat /\ a.field.width \in Nat
  BY <1>1, <1>7, ProgramsAssumption
<1>9. \A i \in 0 .. a.field.width - 1 :
        a.field.at + i \in Bits(a.field) /\ (a.field.at + i) - a.field.at = i
  BY <1>8 DEF Bits
<1> QED BY <1>6, <1>7, <1>8, <1>9

LEMMA LeftNumber ==
  ASSUME IInv, LastInv, ~ Running, NEW f, NEW v, Holds(f, v), Leaves(prog, assign(f, v))
  PROVE  Read(mem, f) = v
<1>1. PICK a : a = assign(f, v)
  OBVIOUS
<1>2. a.op = "assign" /\ a.field = f /\ a.bits = [i \in 0 .. f.width - 1 |-> BitOf(v, i)]
  BY <1>1 DEF assign
<1>3. f.at \in Nat /\ \A i \in 0 .. f.width - 1 : mem[f.at + i] = a.bits[i]
  <2>1. Leaves(prog, a)
    BY <1>1, Zenon
  <2>2. /\ a.field \in prog.fields /\ a.field.at \in Nat
        /\ \A i \in 0 .. a.field.width - 1 : mem[a.field.at + i] = a.bits[i]
    BY <1>2, <2>1, Left
  <2> QED BY <1>2, <2>2, Zenon
<1>4. \A i \in 0 .. f.width - 1 : mem[f.at + i] = BitOf(v, i)
  BY <1>2, <1>3
<1> QED BY <1>3, <1>4, ReadValue

(* A form is what setWaveForm cuts it into.                                *)
LEMMA Cut ==
  ASSUME NEW low \in 1 .. 8, NEW high \in 1 .. 8, NEW form \in 0 .. low * high - 1
  PROVE  /\ form % low \in 0 .. low - 1 /\ (form \div low) % high \in 0 .. high - 1
         /\ (form % low) + low * ((form \div low) % high) = form
<1>1. low \in Nat /\ low >= 1 /\ high \in Nat /\ high >= 1 /\ form \in Nat
  BY Z3
<1>2. PICK q \in Nat : q = form \div low
  BY <1>1
<1>3. PICK r \in 0 .. low - 1 : r = form % low
  BY <1>1
<1>4. form = low * q + r
  BY <1>1, <1>2, <1>3
<1>5. q < high
  <2>1. low = 1 \/ low = 2 \/ low = 3 \/ low = 4 \/ low = 5 \/ low = 6 \/ low = 7 \/ low = 8
    OBVIOUS
  <2> QED BY <1>1, <1>3, <1>4, <2>1
<1>6. q % high = q
  BY <1>1, <1>2, <1>5
<1> QED BY <1>2, <1>3, <1>4, <1>5, <1>6

LEMMA Room == \A f, n : Holds(f, n) => n \in 0 .. 7
<1> SUFFICES ASSUME NEW f, NEW n, Holds(f, n) PROVE n \in 0 .. 7
  OBVIOUS
<1>1. PICK w : w = f.width
  OBVIOUS
<1>2. w \in 1 .. 3 /\ n \in 0 .. 2^w - 1
  BY <1>1, Zenon DEF Holds
<1>3. w = 1 \/ w = 2 \/ w = 3
  BY <1>2
<1>4. n \in 0 .. 2 - 1 \/ n \in 0 .. 4 - 1 \/ n \in 0 .. 8 - 1
  BY <1>2, <1>3, Powers, Zenon
<1> QED BY <1>4

(* When a program that selects a wave form and a prescaler is done, the    *)
(* timer has them (setWaveForm and getWaveForm, genericTimer.h:228-244;    *)
(* PSArray), whatever fields share their bytes and wherever the handler    *)
(* has come in between.                                                    *)
THEOREM ModeCorrect == Spec => []ModeIsSelected
<1>1. IInv /\ LastInv => ModeIsSelected
  <2> SUFFICES ASSUME IInv, LastInv, ~ Running, NEW m \in prog.mode
               PROVE  /\ getWaveForm(m.timer, m.modes, mem) = m.form
                      /\ m.modes.divisor[Read(mem, Field(m.timer, "cs"))] = m.modes.value[m.index]
    BY DEF ModeIsSelected
  <2>1. prog \in Programs
    BY DEF IInv, TypeInv
  <2>2. PICK f0 : f0 = Field(m.timer, "wgm0")
    OBVIOUS
  <2>3. PICK f1 : f1 = Field(m.timer, "wgm1")
    OBVIOUS
  <2>4. PICK cs : cs = Field(m.timer, "cs")
    OBVIOUS
  <2>5. PICK low, high, form, code : /\ low = m.modes.low /\ high = m.modes.high
                                     /\ form = m.form /\ code = m.modes.code[m.index]
    BY Zenon
  <2>6. /\ \A i \in 1 .. 3 : Leaves(prog, Selection(m)[i])
        /\ low \in Nat \ {0} /\ Holds(f0, low - 1) /\ high \in Nat \ {0} /\ Holds(f1, high - 1)
        /\ form \in 0 .. low * high - 1 /\ Holds(cs, code)
        /\ m.modes.divisor[code] = m.modes.value[m.index]
    BY <2>1, <2>2, <2>3, <2>4, <2>5, ModesAssumption
  <2>7. low \in 1 .. 8 /\ high \in 1 .. 8
    <3>1. low - 1 \in 0 .. 7 /\ high - 1 \in 0 .. 7
      BY <2>6, Room, Zenon
    <3> QED BY <2>6, <3>1
  <2>8. /\ form % low \in 0 .. low - 1 /\ (form \div low) % high \in 0 .. high - 1
        /\ (form % low) + low * ((form \div low) % high) = form
    BY <2>6, <2>7, Cut
  <2>9. PICK x, y : x = form % low /\ y = (form \div low) % high
    OBVIOUS
  <2>10. Holds(f0, x) /\ Holds(f1, y)
    BY <2>6, <2>7, <2>8, <2>9 DEF Holds
  <2>11. Selection(m) = <<assign(f0, x), assign(f1, y)>> \o <<assign(cs, code)>>
    BY <2>2, <2>3, <2>4, <2>5, <2>9, Zenon DEF Selection, setWaveForm
  <2>12. 1 \in 1 .. 3 /\ 2 \in 1 .. 3 /\ 3 \in 1 .. 3
    OBVIOUS
  <2>13. /\ Leaves(prog, assign(f0, x)) /\ Leaves(prog, assign(f1, y))
         /\ Leaves(prog, assign(cs, code))
    <3>1. PICK s : s = Selection(m)
      OBVIOUS
    <3>2. s[1] = assign(f0, x) /\ s[2] = assign(f1, y) /\ s[3] = assign(cs, code)
      <4>1. PICK a, b, c : a = assign(f0, x) /\ b = assign(f1, y) /\ c = assign(cs, code)
        OBVIOUS
      <4>2. s = <<a, b>> \o <<c>>
        BY <2>11, <3>1, <4>1, Zenon
      <4>3. s[1] = a /\ s[2] = b /\ s[3] = c
        BY <4>2
      <4> QED BY <4>1, <4>3, Zenon
    <3>3. Leaves(prog, s[1]) /\ Leaves(prog, s[2]) /\ Leaves(prog, s[3])
      BY <2>6, <2>12, <3>1, Zenon
    <3> QED BY <3>2, <3>3, Zenon
  <2>14. Read(mem, f0) = x /\ Read(mem, f1) = y /\ Read(mem, cs) = code
    BY <2>6, <2>10, <2>13, LeftNumber
  <2>15. getWaveForm(m.timer, m.modes, mem) = x + low * y
    BY <2>2, <2>3, <2>5, <2>14, Zenon DEF getWaveForm
  <2> QED BY <2>4, <2>5, <2>6, <2>8, <2>9, <2>14, <2>15
<1> QED BY LastInvariant, <1>1, PTL
=============================================================================
