SPECIFICATION Spec
CONSTANTS
    MaxDay = 0
    MaxHour = 0
    MaxMinute = 1
    Crashes = {c1}
    NoCrash = NoCrash
    Handlers = {h1}
    Workers = {w1, w2}
    MaxSimultaneousProcessing = 2
    Configs <- DevOnly
    MaxReprocess = 2
    Faults = FALSE
    SavesWithinSlot = FALSE
    ScansWithinHour = FALSE
    ReprocessesHits = TRUE
SYMMETRY Symmetry
INVARIANT CollectedIsKept
