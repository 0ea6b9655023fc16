CONSTANTS
  NoStatus = NoStatus
  NoCode = NoCode
  Codes <- MCCodes
  MaxEvents = 3
SPECIFICATION Spec
\* The enumeration of inputs stops at MaxEvents events.
CHECK_DEADLOCK FALSE
INVARIANT GuestExitErrorNeverPasses
