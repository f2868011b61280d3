CONSTANTS
    n1 = n1
    n2 = n2
    Nodes = {n1, n2}
    Cases = {c1, c2}
    Probes = {p1}
    Others = {o1}
    NoCase = NoCase
    Batches <- MCBatches
    MaxCandidates = {1}
    min_score = 0
    max_score = 1
    max_candidates = 1
    max_investigation = 1
    Verdict <- MCVerdict
    Spliceable = {}
    MaxEvents = 2
SPECIFICATION Spec
INVARIANTS CaseInOnePlace UnmanagedRefused
PROPERTY EveryCaseEnds
CHECK_DEADLOCK FALSE
