SPECIFICATION FairSpec
CONSTANTS
  Files <- MCFiles
  RomExtFiles = {"fw"}
  FileUnits <- MCFileUnits
  Gaps = {}
  BlockUnits = 6
  MsgUnits = 2
  BankPages = 4
  FlashStart = 1
  FlashLimit = 3
  Setups <- MCSetups
  Sends <- MCSends
  Reads = {"ownerPage1", "bootSvcRsp"}
  LongFrame = 3
  FrameNumbers = 3
  SendRetries = 2
  ChipMaxErrors = 2
  HostMaxErrors = 3
  MaxTransfers = 2
  MaxLine = 1
  MaxFaults = 1
INVARIANTS
  TypeOK
  SuccessIsTrue
PROPERTIES
  ProtectedIsKept
  SlotsGrowInOrder
  TransferEnds
