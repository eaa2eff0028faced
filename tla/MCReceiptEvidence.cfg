\* A transaction that moves between blocks of equal and of different numbers.
CONSTANTS
  Wanted = "tx"
  Hashes <- MCHashes
  NoHash = "no hash"
  Numbers = {0, 1, 2}
  Null = Null
  Scalar = Scalar
  Forks <- MCForks
  TransactionOn <- MCTransactionOn
  ReceiptOn <- MCReceiptOn
  ReceiptsOn <- MCReceiptsOn
  HeaderOf <- MCHeaderOf
  OddTransactions <- MCOddTransactions
  OddReceipts <- MCOddReceipts
  OddLists <- MCOddLists
  OddHeaders <- MCOddHeaders
  MaxReorgs = 3
SPECIFICATION Spec
INVARIANTS
  TypeOK
  EvidenceAgrees
  ReceiptIsTrue
  RecoveryIsUnique
  MinedIsFound
\* the command ends
CHECK_DEADLOCK FALSE
