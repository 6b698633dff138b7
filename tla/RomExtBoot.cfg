SPECIFICATION FairSpec
CONSTANTS
  Versions = {0, 1}
  NoImage = NoImage
  Requests <- MCRequests
  Setups <- MCSetups
  FaultKinds = {"cut", "error"}
  MaxFaults = 1
  NoData = NoData
INVARIANTS
  TypeOK
  AnsweredMeansDone
  LogIsTrue
PROPERTIES
  LaunchedAsAsked
  MinSecNeverBricks
  RequestsAreNotLost
  GetsToFirmware
