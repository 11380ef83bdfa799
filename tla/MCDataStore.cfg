\* Requests side by side, restarts, failing commands.
CONSTANTS
    c1 = c1
    c2 = c2
    n1 = n1
    n2 = n2
    d1 = d1
    d2 = d2
    x1 = x1
    Callers <- TwoCallers
    Names <- TwoNames
    Disks <- TwoDisks
    Targets <- OneTarget
    MaxCalls = 5
    Faults = TRUE
SYMMETRY DataStoreSymmetry
SPECIFICATION Spec
INVARIANTS Consistent AnswersAreTrue
PROPERTY FilesAreLeft
\* The requests are bounded.
CHECK_DEADLOCK FALSE
