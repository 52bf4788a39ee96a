CONSTANTS
    r1 = r1
    r2 = r2
    r3 = r3
    Requests <- ThreeRequests
    Scopes <- RunsAndAll
    Ttls = {2}
    MinTtl = 2
    MaxTime = 3
    p1 = p1
    p2 = p2
    p3 = p3
    Proposals <- ThreeProposals
    Kind <- EachKind
    Callers = {q1, q2}
    Keys = {k1, k2}
    MaxProposals = 1
    MaxRevision = 1
    MaxApprovals = 3
    MaxFaults = 1
    RunPosts = {q1, q2}
    RunKeys = {k1}
    Bodies = {b1, b2}
    MaxRuns = 2
    MaxMishaps = 0
    Parts = {"admission"}

SYMMETRY Interchangeable
SPECIFICATION MCSpec
CHECK_DEADLOCK FALSE

INVARIANT StoppedIsQuiet
