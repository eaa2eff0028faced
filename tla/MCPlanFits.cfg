\* Ranges of a three-bit block number, to its top, against two forks and odd answers.
CONSTANTS
  Blocks = 8
  Commands <- MCCommands
  MaxLogChunkSize = 5
  Addresses = {"a", "b"}
  Topics = {"s", "t"}
  PlanLimit = 4
  Forks <- MCForks
  NoHash = NoHash
  Tip <- MCTip
  Hash <- MCHash
  LogsFor <- MCLogsFor
  OddLogs <- MCOddLogs
  MaxReorgs = 2
SPECIFICATION Spec
INVARIANT PlanFits
CHECK_DEADLOCK FALSE
