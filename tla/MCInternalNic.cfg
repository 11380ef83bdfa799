\* Switches and their internal cards: calls side by side, failing commands.
CONSTANTS
    c1 = c1
    c2 = c2
    s1 = s1
    v1 = v1
    v2 = v2
    NicCallers <- TwoCallers
    NicSwitches <- OneSwitch
    Values <- TwoValues
    Asks <- SomeAsks
    NicMaxCalls = 2
    NicFaults = TRUE
SYMMETRY InternalNicSymmetry
SPECIFICATION NicSpec
INVARIANTS NicConsistent NicAnswersAreTrue
\* The calls are bounded.
CHECK_DEADLOCK FALSE
