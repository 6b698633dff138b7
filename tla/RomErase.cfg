SPECIFICATION Spec
CONSTANTS
  Images <- MCImages
  Signed = {"old", "new", "fix"}
  SecVersion <- MCSecVersion
  Version <- MCVersion
  Gaps <- MCGaps
  PageWords = 2
  SectorWords = 4
  SlotWords = 4
  Setups <- MCSetups
  Files <- MCFiles
  Strays <- MCStrays
  WeakErases = {"old", "torn"}
  MaxSteps = 1
  MaxFaults = 1
PROPERTIES
  VerifiedIsErased
