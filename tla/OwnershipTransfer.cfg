SPECIFICATION Spec
CONSTANTS
  o1 = o1
  o2 = o2
  Owners = {o1, o2}
  Recovery = Recovery
  HasRecoveryKey = TRUE
  Blocks <- CheckedBlocks
  NoBlock = NoBlock
  NoOwner = NoOwner
  NoChange = NoChange
  Bad = Bad
  FirstBlock <- Open1
  BootSlots = {}
  FaultKinds = {"cut", "error"}
  MaxFaults = 2
  MaxNonce = 4
  NoData = NoData
INVARIANT TypeOK
PROPERTIES
  OwnersAreLetIn
  ActivationIsComplete
  RequestsAreServedOnce
  SealedPageRemains
  LockedKeepsOwner
