SPECIFICATION Spec
CONSTANTS
    Invokers = {p}
    Txns = {t, u}
    MaxEvents = 3
    Faults = {"plaid", "db", "kill", "lock"}
PROPERTY EveryEventArrives
