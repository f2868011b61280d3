SPECIFICATION Spec
CONSTANTS
    Uuid = {u1, u2}
    Addr = {a1, a2}
    MaxHash = 2
    MaxHeight = 1
    MaxReduces = 2
    MaxCrashes = 1
    MaxQuotes = 1
    Lifetime = 1
    ClaimMargin = 0
    MinAmount = 1
    MaxAmount = 2
    Reliable = FALSE
    MaxTrouble = 3
SYMMETRY Symmetry
CONSTRAINT Bounded
CHECK_DEADLOCK FALSE
INVARIANTS CompletionMeets AddressExclusive
 
