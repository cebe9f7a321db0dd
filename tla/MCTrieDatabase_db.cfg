SPECIFICATION Spec
CONSTANTS
  Hashes <- MCHashes
  Kids <- MCKids
  Ext <- MCExt
  Size <- MCSize
  Roots <- MCRoots
  Preimages <- MCPreimages
  Limits = {0, 300}
  IdealBatchSize = 70
  PreimageLimit = 0
  MaxHeld = 2
  MaxFaults = 1
INVARIANTS
    HeldExactly
    DiskComplete
    Bookkeeping
PROPERTIES
    JobsDone
    ReadNeverMisses
