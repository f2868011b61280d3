SPECIFICATION RebSpec
CONSTANTS
    MinCap = 1
    NoisePpm = 10
    Hooks = {h1, h2}
    OtherDeferrers = {"other"}
    Channels <- MCChannels
    Starts <- MCStarts
    Earnings <- MCEarnings
    Demands = {"d1"}
    Options <- MCOptions
    Forward <- MCForward
    Bounds <- MCBounds

    
CHECK_DEADLOCK FALSE
PROPERTIES
    EveryHtlcAnswered
    CyclesEnd
