SPECIFICATION TxSpec
CONSTANTS
  Waiters = {w1, w2}
  Commands = {c1}
  Statuses = {s1}
  NoCommand = NoCommand
  NoStatus = NoStatus
  MaxExchanges = 1
INVARIANT EnoughTokensToClose
PROPERTIES ImplementsFeedSafety CloseReturnsWaiters
CHECK_DEADLOCK FALSE
