CONSTANTS
    Imports = {c1, c2}
    Facts = {f1}
    AiRuns = {a1}
    Works = {"facts", "theme", "versions", "claims", "ai"}
    Runs = {r1, r2}
    Flows = {o1}
    Installations = {i1, i2}
    Prompts = {"prompt"}
    MaxChanges = 2
    MaxChecks = 2

SYMMETRY Alike
SPECIFICATION WebSpec
CHECK_DEADLOCK FALSE

INVARIANT
    ScreenIsTrue

PROPERTY
    SavedStaysInPlace
