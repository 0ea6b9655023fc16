CONSTANTS
  NoStatus = NoStatus
  NoCode = NoCode
  t1 = t1
  t2 = t2
  Unknown = Unknown
  Schedule <- MCSchedule
  Clean <- MCClean
  Retries = 1
  RunScripts <- MCRunScripts
  ListScripts <- MCListScripts
  GuestCodes <- MCGuestCodes
  TermCode <- MCTermCode
  MaxCrashes = 1
  MaxLagging = 1
SPECIFICATION Spec
\* main returns: the harness process exits.
CHECK_DEADLOCK FALSE
INVARIANT TypeOK
INVARIANT CleanRunIsFirst
INVARIANT CleanRunIsLast
PROPERTY RefinesRunSpec
