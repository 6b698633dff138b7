SPECIFICATION Spec
CONSTANTS
  o1 = o1
  o2 = o2
  Owners = {o1, o2}
  Recovery = Recovery
  HasRecoveryKey = TRUE
  Blocks <- TransferBlocks
  NoBlock = NoBlock
  NoOwner = NoOwner
  NoChange = NoChange
  Bad = Bad
  FirstBlock <- Open1
  BootSlots = {"B"}
  FaultKinds = {"cut"}
  MaxFaults = 1
  MaxNonce = 4
  NoData = NoData
PROPERTY RecoveryKeyIsAccepted
