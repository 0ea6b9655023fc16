CONSTANTS
  Unknown = Unknown
  NoModule = NoModule
  Modules = {NoModule, m1}
  Names = {a, b, c, d}
  ReplyNames = {a, b}
  MaxTests = 4
  MaxLines = 3
SPECIFICATION Spec
\* The enumeration of inputs stops at MaxTests names and MaxLines lines.
CHECK_DEADLOCK FALSE
INVARIANT MatchesReference
INVARIANT FallbackNeverFires
INVARIANT RunsWhatWasAsked
