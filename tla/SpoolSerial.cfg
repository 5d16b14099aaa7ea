SPECIFICATION Spec
CONSTANTS
    MaxDay = 1
    MaxHour = 1
    MaxMinute = 1
    Crashes = {c1, c2}
    NoCrash = NoCrash
    Handlers = {h1}
    Workers = {w1, w2}
    MaxSimultaneousProcessing = 1
    Configs <- DevOnly
    MaxReprocess = 1
    Faults = TRUE
    SavesWithinSlot = TRUE
    ScansWithinHour = TRUE
    ReprocessesHits = TRUE
SYMMETRY Symmetry
INVARIANTS HandedOnce CollectedIsKept HitReportIsWhole AnsweredIsFiled NoPanic
