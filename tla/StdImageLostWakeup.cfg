SPECIFICATION StdSpec
CONSTANTS
  Waiters = {w1}
  Commands = {c1}
  Statuses = {s1}
  NoCommand = NoCommand
  NoStatus = NoStatus
  MaxExchanges = 2
  Free = Free
PROPERTY CloseReturnsWaiters
CHECK_DEADLOCK FALSE
