CONSTANTS
    Parts = {"agents", "search"}
    Windows = {w1, w2}
    MaxTime = 3
    MaxRequests = 2
    MaxVersions = 3
    MaxFaults = 2
    s1 = s1
    Postings = {j1, j2}
    SearchRuns = {s1, s2}
    Plans = {plan}
    i1 = i1
    Imports = {i1}
    SourceOf <- TheFile
    AiRuns = {run1}
    Sessions = {c1, c2}
    FileFact = cv
    OwnFact = own
    MaxRecognitions = 2
    MaxImportRevision = 4
    MaxAdoptions = 2
    Users = {u1}
    Removers = {u2}
    MaxAttempts = 1
    MaxRevision = 2
    MaxFailures = 1
    r1 = r1
    r2 = r2
    a1 = a1
    a2 = a2
    d1 = d1
    d2 = d2
    case = case
    EndedRuns = {r1, r2}
    Artifacts = {a1, a2}
    Owner <- OwnerOf
    Blob <- SameContent
    CaseOf <- SameCase
    Targets = {a2, r1}
    Holds = {hold}
    Verdicts = {"approved"}
    Sweeps = {d1, d2}
    Selection <- AllAndOne
    MaxReleases = 1

SYMMETRY WindowsAlike
SPECIFICATION MCSpec
CHECK_DEADLOCK FALSE

INVARIANTS
    AnsweredStands
    ChangesFollowSeen

PROPERTY
    MarksStay
