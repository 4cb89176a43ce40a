SPECIFICATION StdTimedSpec
CONSTANTS
  Waiters = {w1, w2}
  Commands = {c1}
  Statuses = {s1}
  NoCommand = NoCommand
  NoStatus = NoStatus
  MaxExchanges = 1
  Free = Free
INVARIANT GenerationRecordsWakeup
PROPERTY EveryCallReturns
CHECK_DEADLOCK FALSE
