SPECIFICATION Spec
CONSTANTS
  Files <- MCFiles
  RomExtFiles = {"fw"}
  FileUnits <- MCFileUnits
  Gaps <- MCGaps
  BlockUnits = 4
  MsgUnits = 2
  BankPages = 4
  FlashStart = 1
  FlashLimit = 3
  Setups <- MCSetups
  Transports = {"spi"}
  Sends <- MCHoles
  Reads = {"ownerPage0", "bootSvcRsp"}
  ChunkUnits = 2
  Stops = {}
  MaxTransfers = 2
  MaxFaults = 0
INVARIANTS
  SentIsHandled
