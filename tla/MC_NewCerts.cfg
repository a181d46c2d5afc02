SPECIFICATION Spec
CONSTANTS
    r1 = r1
    r2 = r2
    Runs <- TwoRuns
    MaxCas = 2
SYMMETRY Alike
INVARIANT NewCertsReachTheImage
