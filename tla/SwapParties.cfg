SPECIFICATION PartiesSpec
CONSTANTS
    Uuid = {u1, u2}
    Listings <- MCListings
    Needs = {10, 50}
    max_needed = 20
    ignored_blocks = 1
    swap_timeout = 2
    Never = 20
    MaxHeight = 6
    MaxRestarts = 1
    Swaps = {s1, s2}
    offchainAmount = 100
    Onchain = {89, 95}
    Pairs <- MCPairs
    Fees = {3, 94}
    dust_limit = 5
    min_timeout = 3
    max_timeout = 4
    claim_margin = 2
    MaxTip = 5
    MaxCrashes = 1
SYMMETRY Symmetry
CHECK_DEADLOCK FALSE
INVARIANTS WaitsForPending OneInFlightForTimeout PaidStaysClaimable 
