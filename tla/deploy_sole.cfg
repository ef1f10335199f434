SPECIFICATION Spec
CONSTANTS
    Operators = {p}
    Shas = {a, b, c}
    NoSha = NoSha
    MaxDeploys = 4
    Faults = {"probe", "host", "revert", "db", "kill"}
    HeadOf <- Heads
    Migrating = {c}

INVARIANTS SuccessAgrees AutoRollbackKeepsCurrent PreviousIsAnotherRelease
PROPERTIES RollbackPromotesPrevious EveryCommandEnds
