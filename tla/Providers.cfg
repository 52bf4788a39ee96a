CONSTANTS
    Processes = {root, d1, d2}
    Root = root
    MaxChunk = 2
    StdoutLimit = 2
    StderrLimit = 1
    TotalLimit = 2
    Calls = {c1}
    People = {p1, p2}
    Runs = {r1, r2}
    Accounts = {"own", "other"}
    MaxRefresh = 3
    MaxOutputTokens = 3
    MaxCorrectionRounds = 2

SPECIFICATION MCSpec
CHECK_DEADLOCK FALSE

INVARIANTS
    NoSurvivors
    OutputAccounted
    AdaptersKeepTheirWord

PROPERTIES
    VerdictKept
    LoginStaysOwn
    RunsEnd
