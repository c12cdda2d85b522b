\* Every command line of up to three arguments, without files or environment.
CONSTANTS
  NULL = NULL  Illegal = Illegal  refuse = refuse
  Name <- MCName
  Value <- MCText
  Text <- MCText
  Validator <- MCValidator
  Underscored <- MCUnderscored
  Parse <- MCParse
  Equals <- MCEquals
  Fresh <- MCFresh
  Accepts <- MCAccepts
  Bool <- MCBool
  Positive <- MCPositive
  Reporting <- MCReporting
  Entries <- MCEntries
  Contents <- MCContents
  Commands <- AllCommands
  Environments <- NoEnvironment
  Starts <- ArgvStarts
  Late <- NoLate
  Calls <- NoCalls
  MaxWords = 3
  MaxParses = 1
  MaxCalls = 0
  MaxDepth = 1
SPECIFICATION HistorySpec
INVARIANTS TypeOK OperandsAreKept ExitsExactlyOnError ReturnMeansValid
PROPERTIES Terminates
