CONSTANTS
    Parts = {"imports", "structuring", "files"}
    Windows = {w1}
    MaxTime = 3
    MaxRequests = 2
    MaxVersions = 3
    MaxFaults = 2
    s1 = s1
    Postings = {j1}
    SearchRuns = {s1}
    Plans = {plan}
    i1 = i1
    Imports = {i1}
    SourceOf <- TheFile
    AiRuns = {run1}
    Sessions = {c1, c2}
    FileFact = cv
    OwnFact = own
    MaxRecognitions = 2
    MaxImportRevision = 4
    MaxAdoptions = 1
    Users = {u1}
    Removers = {u2}
    MaxAttempts = 1
    MaxRevision = 2
    MaxFailures = 1
    r1 = r1
    r2 = r2
    a1 = a1
    a2 = a2
    d1 = d1
    d2 = d2
    case = case
    EndedRuns = {r1, r2}
    Artifacts = {a1, a2}
    Owner <- OwnerOf
    Blob <- SameContent
    CaseOf <- SameCase
    Targets = {a2, r1}
    Holds = {hold}
    Verdicts = {"approved"}
    Sweeps = {d1, d2}
    Selection <- AllAndOne
    MaxReleases = 1

SYMMETRY SessionsAlike
SPECIFICATION MCSpec
CHECK_DEADLOCK FALSE

INVARIANT
    RecordsTellTheTruth

PROPERTY
    DecisionsStay
