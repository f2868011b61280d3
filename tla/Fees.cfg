SPECIFICATION FeesSpec
CONSTANTS
    PeerOf <- MCPeerOf
    OpenAtFirst = {"c1", "c2"}
    Notices <- MCNotices
    Legacy <- MCLegacy
    LastDay = 2
    MaxListings = 2
    Gamers = {"g"}
    max_step = 1
    initial_lifetime = 2
    MaxEarn = 2
    MaxPrice = 1
    Feerates = {1, 2, 3}
    InitialSample = 1
    num_initial_samples = 2
    max_num_samples = 5
    hi_to_lo_percentile = 20
    mid_percentile = 40
    lo_to_hi_percentile = 60
    MaxTimers = 5
    Surveys = {"s1", "s2"}
    Gossip <- MCGossip
    Worlds <- MCWorlds
    Balances <- MCBalances
    FirstWorld <- MCFirstWorld
    FirstBalance = 3
    PriceMults = {1}
    BinMult <- MCBinMult
    TotalBalance = 8
    num_bins = 4
    MaxEvents = 1
INVARIANTS
    
    DeckAroundCenter
    
PROPERTIES
    SteadyFeeStaysLow
    EverySurveyEnds
CHECK_DEADLOCK FALSE
