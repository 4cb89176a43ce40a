SPECIFICATION Spec
CONSTANTS
  NoStatus = NoStatus
  Faults <- MCFaults
  MaxUpsets = 1
  MaxLate = 1
INVARIANTS RecoveredBySweep ActivateSpares SweepEndsAtRest
PROPERTIES ProcedureReturns HandshakeCompletes
