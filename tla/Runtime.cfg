SPECIFICATION RuntimeFairSpec
CONSTANTS
    Threads = {t1, t2, t3}
    MaxBeginFails = 2
    Callers = {c1, c2, c3}
    MaxConcurrent = 2
    MaxCommands = 3
    AllowMalformed = TRUE
    Workers = {w1, w2}
    MaxTasks = 3
    PipeCapacity = 3
    Subscribers = 3
    MaxHeight = 3
    MayFail = TRUE
INVARIANTS Atomic AnswerIsMine NoLostWakeup
PROPERTIES Served SentReturns EveryTaskRuns EveryBlockRaised
