SPECIFICATION Spec
CONSTANTS
    Home <- H
    Real <- RealPaths
    Exists <- There
    Dirs <- Folders
    BadProfiles = {"]"}
    Inputs <- Runs
    Threshold = 1
    Life = 4
    MaxTime = 5
    MaxEdits = 1
INVARIANT FreshAtAttach
INVARIANT MountsServed
INVARIANT PlaceholdersOnly
CHECK_DEADLOCK FALSE
