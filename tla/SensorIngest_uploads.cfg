SPECIFICATION FairSpec
CONSTANTS
  Uploads = {u1, u2}
  Payloads <- MCPayloads
  MaxBatch = 2
  AlarmCap = 1
  BatchCap = 1
  Faults = {"db", "crash"}
INVARIANTS
  TypeOK
  StoredReadingsAccounted
  OnlyWholeValidBatches
  EndTellsStored
PROPERTIES
  ImplementsContract
  UploadEnds
CHECK_DEADLOCK FALSE
