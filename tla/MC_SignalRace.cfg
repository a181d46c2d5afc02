SPECIFICATION FairSpec
CONSTANTS
    s1 = s1
    Sessions <- OneSession
    MaxSignals = 1
INVARIANT SignalTearsDown
CHECK_DEADLOCK FALSE
