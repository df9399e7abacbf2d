CONSTANTS
  Columns <- MCColumns
  IdColumn = "id"
  Toasted = {"blob"}
  Odd = {"text"}
  Ids = {1, 2}
  Identities = {"key", "other", "full"}
  MaxItems = 3
  Row <- MCRow
  Transports = {"http", "grpc"}
  Existing = {1}
  Unindexed = {2}
  Refusing = {"grpc"}
  Faults = {"itemBusy", "noAnswer"}
  BufferSize = 2
  MaxRows = 3
SPECIFICATION DeliveryFairSpec
INVARIANTS
  DeliveryTypeOK
  DroppedIsApplied
  NoStaleDocument
  DocumentMirrorsRow
  FailsOnlyOnMissing
PROPERTIES
  RetriesSucceed
CHECK_DEADLOCK FALSE
