SPECIFICATION Spec
CONSTANTS
    Operators = {p, q}
    Shas = {a, b, c}
    NoSha = NoSha
    MaxDeploys = 3
    Faults = {"kill"}
    HeadOf <- Heads
    Migrating = {c}
SYMMETRY Symmetry
INVARIANTS OneOfEach ServedIsMigrated
PROPERTY IsALedger
