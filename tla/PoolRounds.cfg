SPECIFICATION Spec
CONSTANTS
    Workers = {w1, w2, w3}
    MaxSimultaneousProcessing = 2
    MaxSlots = 1
    MaxEntries = 2
SYMMETRY Symmetry
INVARIANT RunningWithinMax
CHECK_DEADLOCK FALSE
