SPECIFICATION FairSpec
CONSTANTS
    s1 = s1
    s2 = s2
    c1 = c1
    reg = reg
    Sessions <- TwoSessions
    Cleaners <- OneCleaner
    Registry = reg
    Invocations <- SomeArgs
    MaxTime = 1
INVARIANT TypeOK
INVARIANT RegistryKept
INVARIANT SweepComplete
PROPERTY OnlyDueDeleted
PROPERTY CleanEnds
CHECK_DEADLOCK FALSE
