CONSTANTS
    MaxSaves = 4
    OldRows = 2
    MaxStops = 3
SPECIFICATION FairSchemaSpec
INVARIANTS
    RowsSurvive
    CleanWithoutLeftover
PROPERTY StartEnds
CHECK_DEADLOCK FALSE
