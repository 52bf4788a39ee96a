CONSTANTS
    r1 = r1
    r2 = r2
    r3 = r3
    codex = codex
    openrouter = openrouter
    office = office
    NoRun = NoRun
    Runs = {r1, r2, r3}
    Scopes = {codex, openrouter, office}
    ScopesOf <- TwoProviders
    Limit <- OneSlotEach
    QueueLimit <- NoQueueLimit
    Priority <- Equal
    AgingStep = 1
    AgingMax = 2
    MaxParallel = 2
    MaxQueued = 3
    MaxNow = 0
    Cancellable = {r2, r3}
    Installations = {"competition"}

SPECIFICATION MCSpec
CHECK_DEADLOCK FALSE

INVARIANT
    ScopeLimits
