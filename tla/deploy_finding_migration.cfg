SPECIFICATION Spec
CONSTANTS
    Operators = {p}
    Shas = {a, b, c}
    NoSha = NoSha
    MaxDeploys = 4
    Faults = {}
    HeadOf <- Heads
    Migrating = {c}

PROPERTY RollbackIsPossible
