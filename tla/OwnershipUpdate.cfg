SPECIFICATION FairSpec
CONSTANTS
  o1 = o1
  o2 = o2
  Owners = {o1, o2}
  Recovery = Recovery
  HasRecoveryKey = TRUE
  Blocks <- UpdateBlocks
  NoBlock = NoBlock
  NoOwner = NoOwner
  NoChange = NoChange
  Bad = Bad
  FirstBlock <- New1
  BootSlots = {"B"}
  FaultKinds = {"cut", "error", "read"}
  MaxFaults = 1
  MaxNonce = 3
  NoData = NoData
INVARIANTS
  LockedIsConfigured
  LockedPagesAreSealed
PROPERTIES
  LockedKeepsOwnerOrBackup
  AlwaysLaunches
