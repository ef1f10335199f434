SPECIFICATION Safety
CONSTANTS
    Chats = {p}
    Names = {"food", "Food", "strasse", "Strasze"}
    lower <- Lower
    casefold <- Casefold
    Amounts = {1, 2}
    MaxToolCalls = 3
    MaxTurns = 4
    MaxAudit = 4
    Faults = {"provider", "crash", "kill"}
INVARIANTS TrailReplays OneBudgetPerCategory
