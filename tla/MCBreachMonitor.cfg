CONSTANTS
    Address = {a1, a2}
    NoAddress = NoAddress
    Breach = {b1, b2}
    Check = {k1}
    Daily = Daily
    MaxRestarts = 1
SPECIFICATION BreachSpec
INVARIANTS BreachTypeOK NewOnceWhileMonitored
PROPERTY BreachesFound
