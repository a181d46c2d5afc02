SPECIFICATION FairSpec
CONSTANTS
    s1 = s1
    Sessions <- OneSession
    MaxSignals = 2
INVARIANT SecondSignalTearsDown
CHECK_DEADLOCK FALSE
