SPECIFICATION Spec
CONSTANTS
    MaxDay = 0
    MaxHour = 0
    MaxMinute = 1
    Crashes = {c1}
    NoCrash = NoCrash
    Handlers = {h1, h2}
    Workers = {w1, w2}
    MaxSimultaneousProcessing = 2
    Configs <- AllConfigs
    MaxReprocess = 2
    Faults = TRUE
    SavesWithinSlot = FALSE
    ScansWithinHour = FALSE
    ReprocessesHits = TRUE
SYMMETRY Symmetry
INVARIANTS TypeOK FiledAtMostOnce LinkedIsWhole HitHasReport RemovedIsIndexed
PROPERTY ImplementsLife
