SPECIFICATION ChannelingSpec
CONSTANTS
    Peers = {p1, p2}
    Cycles = {1, 2}
    Settings <- MCSettings
    Funds = {1, 6}
    ChanFunds = {4}
    HoldOff = 3
    MaxEvents = 2
    MaxPolls = 2
    MaxOpens = 1
    Targets = {0, 20000, 64000}
    Floors = {0, 100, 5000}
    Networks <- MCNetworks
    OwnFlows = {9000}
    default_probe_amount = 32000
    sat = 1000
    MaxDowses = 2
    MaxProposals = 4
    Sizes = {1, 2}
    Bins = {1, 2}
    PeersPerBin = {0, 1}
    Records <- MCRecords
    records_per_day = 2
    min_record_days = 7
    keeper_tral_bps = 50
    Nodes = {1, 2, 3}
    Jobs <- MCJobs
    Flows = {0, 1, 2, 3, 5, 7, 9}
CHECK_DEADLOCK FALSE
INVARIANTS NeverAborts
