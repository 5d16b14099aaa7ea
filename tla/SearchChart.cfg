SPECIFICATION Spec
CONSTANTS
    p1 = p1
    p2 = p2
    v1 = v1
    v2 = v2
    v3 = v3
    None = None
    Reports <- NewReports
    Indexes <- FirstIndexes
    FacetSize = 2
    MaxSize = 2
    Window = 2
    Second = 2
    Day = 4
    Now = 10
    MaxNow = 11
    Lag = 1
    Selections <- PageChoices
    All <- Everything
    Rows = 1
    MaxInputs = 2
    Days = 1
    Shifts <- DaylightSaving
INVARIANT CellsAreInitialized
CHECK_DEADLOCK FALSE
