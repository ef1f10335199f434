SPECIFICATION Safety
CONSTANTS
    Invokers = {p, q}
    Txns = {t, u}
    MaxEvents = 4
    Faults = {"plaid", "db", "kill"}
INVARIANT MirrorsTheFeed
PROPERTIES CursorNeverRegresses SuccessIsCaughtUp
SYMMETRY Symmetry
