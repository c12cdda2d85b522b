SPECIFICATION Spec
CONSTANTS
    Letter <- MCLetter
    Narrow = 3
    Wide = 5
    Double <- MCDouble
    DoubleText <- MCDoubleText
    Strtod <- MCStrtod
    Name <- MCName
    TypeOf <- MCTypeOf
    Settings <- MCSettings
    Others <- MCOthers
    Prog = "p"
    Foreign <- MCForeign
    Nested <- MCNested
    EnvTexts <- MCEnvTexts
    FlagsEnv <- MCFlagsEnv
    Underscored <- MCUnderscored
    Reporting <- MCReporting
INVARIANTS
    TypeOK
    ParsesWhatItMeans
    RoundTrip
    SectionsAreSkipped
