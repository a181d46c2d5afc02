SPECIFICATION Spec
CONSTANTS
    Dests <- Options
    Kind <- Kinds
    Mode = "auth_mode"
    Modes <- AuthModes
    Items <- Values
    Default <- Defaults
    Inputs <- Runs
INVARIANT NearestWins
INVARIANT ListsAccumulate
CHECK_DEADLOCK FALSE
