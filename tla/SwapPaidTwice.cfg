SPECIFICATION Spec
CONSTANTS
    Uuid = {u1}
    Addr = {a1}
    MaxHash = 2
    MaxHeight = 0
    MaxReduces = 2
    MaxCrashes = 0
    MaxQuotes = 1
    Lifetime = 1
    ClaimMargin = 0
    MinAmount = 2
    MaxAmount = 3
    Reliable = FALSE
    MaxTrouble = 9
CHECK_DEADLOCK FALSE
INVARIANTS PaidWithinLimit
