SPECIFICATION FairSpec
CONSTANTS
    Workers = {w1, w2, w3, w4, w5}
    MaxSimultaneousProcessing = 3
    MaxSlots = 2
    MaxEntries = 4
INVARIANTS TypeOK CountIsCurrent RoundWithinMax OnlyThrottleWaits WaiterHasWaker
PROPERTY InterruptStops
CHECK_DEADLOCK FALSE
