\* --tryfromenv=tryfromenv with FLAGS_tryfromenv=x,tryfromenv in the environment.
CONSTANTS
  NULL = NULL  Illegal = Illegal  refuse = refuse
  Name <- MCName
  Value <- MCText
  Text <- MCText
  Validator <- MCValidator
  Underscored <- MCUnderscored
  Parse <- MCParse
  Equals <- MCEquals
  Fresh <- MCFresh
  Accepts <- MCAccepts
  Bool <- MCBool
  Positive <- MCPositive
  Reporting <- MCReporting
  Entries <- MCEntries
  Contents <- MCContents
  Commands <- LoopCommands
  Environments <- LoopEnvironments
  Starts <- RecursionStarts
  Late <- NoLate
  Calls <- NoCalls
  MaxWords = 0
  MaxParses = 1
  MaxCalls = 0
  MaxDepth = 6
SPECIFICATION HistorySpec
INVARIANTS RecursionIsGuarded
