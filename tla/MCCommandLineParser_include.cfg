\* SetCommandLineOptionWithMode of --flagfile, where the file includes another.
CONSTANTS
  NULL = NULL  Illegal = Illegal  refuse = refuse
  Name <- MCName
  Value <- MCText
  Text <- MCText
  Validator <- MCValidator
  Underscored <- MCUnderscored
  Parse <- MCParse
  Equals <- MCEquals
  Fresh <- MCFresh
  Accepts <- MCAccepts
  Bool <- MCBool
  Positive <- MCPositive
  Reporting <- MCReporting
  Entries <- MCEntries
  Contents <- MCContents
  Commands <- IncludeCommands
  Environments <- NoEnvironment
  Starts <- RecursionStarts
  Late <- NoLate
  Calls <- IncludeCalls
  MaxWords = 0
  MaxParses = 1
  MaxCalls = 1
  MaxDepth = 6
SPECIFICATION HistorySpec
PROPERTIES IncludedFileIsRead
