SPECIFICATION GripperSpec
CONSTANTS
  Waiters = {cmdr}
  Commander = cmdr
  Commands <- MCTwoCommands
  Statuses <- MCTwoStatuses
  NoCommand = NoCommand
  NoStatus = NoStatus
  MaxExchanges = 1
  FaultThreshold = 2
  ReadAttempts = 2
  CounterRange = 3
  MaxSpeed = 1
  MaxLate = 1
  Found <- MCFound
INVARIANTS NoLostWakeup FaultedIffStale RecordIsOneExchange CarriedCommandHolds ConnectingMovesNothing
PROPERTIES ImplementsFeed DestroyedIsQuiet DestructionCompletes
CHECK_DEADLOCK FALSE
