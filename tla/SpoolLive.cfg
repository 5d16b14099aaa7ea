SPECIFICATION FairSpec
CONSTANTS
    MaxDay = 1
    MaxHour = 1
    MaxMinute = 1
    Crashes = {c1, c2}
    NoCrash = NoCrash
    Handlers = {h1}
    Workers = {w1}
    MaxSimultaneousProcessing = 1
    Configs <- DevOnly
    MaxReprocess = 1
    Faults = FALSE
    SavesWithinSlot = TRUE
    ScansWithinHour = TRUE
    ReprocessesHits = TRUE
PROPERTIES CollectedIsProcessed
