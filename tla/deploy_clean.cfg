SPECIFICATION Spec
CONSTANTS
    Operators = {p}
    Shas = {a, b, c}
    NoSha = NoSha
    MaxDeploys = 4
    Faults = {"probe", "host"}
    HeadOf <- Heads
    Migrating = {c}

INVARIANT TopologyAgrees
PROPERTIES FailedRollbackReverts FailedDeployRollsBack
