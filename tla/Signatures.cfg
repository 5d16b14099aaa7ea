SPECIFICATION Spec
CONSTANTS
    Crashes <- AllCrashes
    Lists <- AllLists
    MaxFrames = 3
INVARIANTS TypeOK CollapsedIsOutside SpellingsAgree SignatureIsRelevant NeverEmpty
CHECK_DEADLOCK FALSE
