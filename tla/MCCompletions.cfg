SPECIFICATION Spec
CONSTANTS
    Programs <- MCPrograms
    Words <- MCWords
    ShortName = "p"
    Limits <- MCLimits
    Everything = 999
    Columns = 10
INVARIANTS
    TypeOK
    SearchMeansWhatWasTyped
    FitsScreen
    HidesOnlyWhenFull
    RelevantFirst
    SurvivesSorting
    LinesFitColumns
PROPERTIES
    Finishes
