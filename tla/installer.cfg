SPECIFICATION Spec
CONSTANTS
    Shas = {a, b}
    NoSha = NoSha
    MaxRuns = 4
    Faults = {"die", "kill", "decay"}
SYMMETRY ShaSymmetry
CHECK_DEADLOCK FALSE
INVARIANTS OneInstaller CurrentIsKept VerifiedIsKept NoHalfBuild
