SPECIFICATION Spec
CONSTANTS
    Procs = {p, q}
    MaxRuns = 3
    MaxTime = 2
    MaxData = 2
    MaxBackupAge = 0
    MaxVerificationAge = 0
    MaxStagingAge = 0
    Faults = {"tool", "raise", "kill"}
SYMMETRY ProcSymmetry
INVARIANTS SuccessHasArtifact VerifiedIsRestorable GateSound
