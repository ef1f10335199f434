SPECIFICATION Spec
CONSTANTS
    Chats = {p, q}
    Names = {"food", "rent"}
    lower <- Lower
    casefold <- Casefold
    Amounts = {1}
    MaxToolCalls = 2
    MaxTurns = 2
    MaxAudit = 4
    Faults = {"provider", "crash", "kill"}
INVARIANT WritesAreAudited
PROPERTIES ArchivedForGood EveryTurnEnds
