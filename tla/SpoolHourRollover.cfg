SPECIFICATION Spec
CONSTANTS
    MaxDay = 1
    MaxHour = 1
    MaxMinute = 1
    Crashes = {c1}
    NoCrash = NoCrash
    Handlers = {h1}
    Workers = {w1}
    MaxSimultaneousProcessing = 1
    Configs <- DevOnly
    MaxReprocess = 1
    Faults = FALSE
    SavesWithinSlot = TRUE
    ScansWithinHour = FALSE
    ReprocessesHits = TRUE
SYMMETRY Symmetry
INVARIANT AnsweredIsFiled
