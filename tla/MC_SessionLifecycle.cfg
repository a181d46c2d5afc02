SPECIFICATION FairSpec
CONSTANTS
    s1 = s1
    Sessions <- OneSession
    MaxSignals = 2
INVARIANT TypeOK
INVARIANT SingleSweep
INVARIANT AttachedConfined
INVARIANT LeakExplained
INVARIANT ScratchExplained
INVARIANT SignalReported
PROPERTY TeardownEnds
PROPERTY TeardownCompletes
PROPERTY ReapedRunEnds
PROPERTY KeepsPromise
CHECK_DEADLOCK FALSE
