SPECIFICATION FairSpec
CONSTANTS
  k1 = k1
  k2 = k2
  k3 = k3
  bad = bad
  Uploads = {u1, u2}
  Keys = {k1, k2, k3}
  Invalid = bad
  Files <- MixedFiles
  Untransformable = {k3}
  Window = 1
  MaxTime = 2
INVARIANTS
  KeysMatchBatches
  FileWithBatch
PROPERTIES
  ImplementsContract
  EveryUploadEnds
CHECK_DEADLOCK FALSE
