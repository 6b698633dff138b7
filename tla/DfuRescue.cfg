SPECIFICATION FairSpec
CONSTANTS
  Files <- MCFiles
  RomExtFiles = {"fw"}
  FileUnits <- MCFileUnits
  Gaps <- MCGaps
  BlockUnits = 4
  MsgUnits = 2
  BankPages = 4
  FlashStart = 1
  FlashLimit = 3
  Setups <- MCSetups
  Transports = {"usb", "spi"}
  Sends <- MCSends
  Reads = {"ownerPage0", "bootSvcRsp"}
  ChunkUnits = 2
  Stops <- MCStops
  MaxTransfers = 2
  MaxFaults = 1
INVARIANTS
  TypeOK
  SuccessIsTrue
  BusyIsNotCutOff
PROPERTIES
  ProtectedIsKept
  OperationEnds
