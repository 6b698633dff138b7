SPECIFICATION Spec
CONSTANTS
  Files <- MCFiles
  RomExtFiles = {"fw"}
  FileUnits <- MCFileUnits
  Gaps <- MCGaps
  BlockUnits = 4
  MsgUnits = 2
  BankPages = 5
  FlashStart = 1
  FlashLimit = 4
  Setups <- MCSetups
  Transports = {"usb"}
  Sends <- MCSends
  Reads = {"ownerPage0", "bootSvcRsp"}
  ChunkUnits = 2
  Stops <- MCStopsInData
  MaxTransfers = 2
  MaxFaults = 0
PROPERTIES
  CompletedIsData
