SPECIFICATION Spec
CONSTANTS
    Words <- Parts
    Cidrs = {"lan", "all"}
    Block <- Blocks
    Inputs <- Runs
    MaxRefused = 1
    MaxCrashes = 2
INVARIANT PerimeterIsTheTable
INVARIANT KeysStayHeld
PROPERTY SigningRecovers
CHECK_DEADLOCK FALSE
