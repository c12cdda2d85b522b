\* Flag files and environment variables that name each other, a library that
\* is loaded between two parses, and calls of SetCommandLineOptionWithMode.
CONSTANTS
  NULL = NULL  Illegal = Illegal  refuse = refuse
  Name <- MCName
  Value <- MCText
  Text <- MCText
  Validator <- MCValidator
  Underscored <- MCUnderscored
  Parse <- MCParse
  Equals <- MCEquals
  Fresh <- MCFresh
  Accepts <- MCAccepts
  Bool <- MCBool
  Positive <- MCPositive
  Reporting <- MCReporting
  Entries <- MCEntries
  Contents <- MCContents
  Commands <- RecursionCommands
  Environments <- RecursionEnvironments
  Starts <- RecursionStarts
  Late <- MCLate
  Calls <- MCCalls
  MaxWords = 0
  MaxParses = 2
  MaxCalls = 1
  MaxDepth = 6
SPECIFICATION HistorySpec
INVARIANTS RecursionIsGuarded LastAcceptedValueWins ReparseIsIdempotent
PROPERTIES ModeReachesEveryOption
