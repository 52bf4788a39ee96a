CONSTANTS
    evidence = evidence
    author = author
    ats = ats
    style = style
    finalizer = finalizer
    respond = respond
    draft = draft
    review1 = review1
    review2 = review2
    None = None
    Node <- Plan
    DependsOn <- PlanDependsOn
    Gated <- PlanGated
    FailFast <- PlanFailFast
    SideEffect <- PlanSideEffect
    MaxAttempts <- PlanAttempts
    TotalIterations = 5
    Task <- Three
    WaitsFor <- ThreeDependOn
    GateSets <- ThreeGateSets
    FatalTasks = {draft}
    Asking = {draft}
    Tries <- ThreeAttempts
    Parallel = 2
    Continues = 1
    Systems = {"runner", "service"}

SYMMETRY Interchangeable
SPECIFICATION MCSpec
CHECK_DEADLOCK FALSE

INVARIANTS
    FailurePropagates
    WaitsOnlyForGates
    BudgetsKept
    RecordAndRunsAgree
    NeverStuck

PROPERTIES
    Implements
    FinalUnlessStaleCall
