SPECIFICATION LinkSpec
CONSTANTS
  Room = 1
  Baudrates = {115200, 123}
  Supported = {115200}
  MaxTx = 2
  MaxFaults = 1
  Kinds = {"exchange", "writeCommand"}
  Buffer = 8
INVARIANTS LinkTypeOK OpenIsAllOrNothing CallsKeepTheirTimeouts
PROPERTIES AnswerIsOwnOrLate KeepsLooseContract TransactionEnds
CHECK_DEADLOCK FALSE
