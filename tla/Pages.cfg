CONSTANTS
    n1 = n1
    n2 = n2
    n3 = n3
    n4 = n4
    n5 = n5
    s1 = s1
    s2 = s2
    Callers <- FiveCallers
    Signals <- TwoSignals
    SignalOf <- ThreeAndTwo
    Maximum = 2
    GrantRunsFirst = TRUE
    Accounts = {mailbox}
    NoId = {1}
    MailCases = {c1}
    Limit = 1
    MaxMails = 2
    MaxFiles = 1
    MaxCalls = 2
    Identities = {i1, i2}
    MaxRevision = 2
    MaxRequests = 2
    Cases = {k1, k2}
    Jobs = {j1, j2}
    MaxFaults = 1

SYMMETRY Interchangeable
SPECIFICATION MCSpec
CHECK_DEADLOCK FALSE

INVARIANTS
    PlacesUsed
    PagesAreTrue

PROPERTY
    FirstComeFirstServed
