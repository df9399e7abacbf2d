CONSTANTS
  Row <- MCRow
  BufferSize = 2
  MaxRows = 9
  MaxTxns = 3
  MaxTxnRows = 3
SPECIFICATION FeedSpec
INVARIANTS
  FeedTypeOK
  TailIsOpenTxn
  OnlyCommittedTxnsDelivered
  TxnsNotSplit
  OverflowIsOneTxn
CHECK_DEADLOCK FALSE
