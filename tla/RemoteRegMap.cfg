SPECIFICATION RemoteSpec
CONSTANTS
  Reg <- MCReg
  address <- MCaddress
  mode <- MCmode
  size <- MCsize
  Byte = {"zero", "ones"}
  ones = "ones"
INVARIANTS
  ReadsDevice
  FailureKeepsCopy
  NothingUnknownWritten
PROPERTY Writes
