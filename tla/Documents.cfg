CONSTANTS
    k1 = k1
    d1 = d1
    d2 = d2
    a1 = a1
    q1 = q1
    q2 = q2
    Cases <- OneCase
    Documents <- TwoDocuments
    Artifacts <- OneArtifact
    Callers <- TwoCallers
    MaxRevision = 3
    MaxFaults = 1
    Texts = {t1, t2}
    MaxStyleRevision = 3
    MaxRequests = 2
    MaxHandEdits = 1

SYMMETRY Interchangeable
SPECIFICATION MCSpec
CHECK_DEADLOCK FALSE

INVARIANT
    DocumentsAreTrue

PROPERTY
    ReplacesOnlySeen
