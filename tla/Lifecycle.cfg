CONSTANTS
    Cancellers = {c1, c2}
    Inputs = {i1}
    Outcomes = {"succeeded", "failed"}
    Reporting = {TRUE, FALSE}
    AsksInput = TRUE
    MaxCrashes = 1
    MaxRestarts = 2
    MaxFailures = 1
    Days = {"rough", "quiet"}

SPECIFICATION MCFairSpec
CHECK_DEADLOCK FALSE

INVARIANTS
    LogLeads
    OneVerdict
    Reproducible

PROPERTIES
    TerminalIsFinal
    UncancelledRunEnds
