\* Uplinks: calls side by side, failing commands.
CONSTANTS
    c1 = c1
    c2 = c2
    s1 = s1
    s2 = s2
    n1 = n1
    n2 = n2
    b1 = b1
    Callers <- TwoCallers
    Switches <- TwoSwitches
    Nics <- TwoNics
    Bonds <- OneBond
    Occupied <- OneOccupied
    MaxCalls = 3
    Faults = TRUE
SYMMETRY UpLinkSymmetry
SPECIFICATION Spec
INVARIANTS Consistent AnswersAreTrue
PROPERTIES ChangesHaveCause ModifyNicAnswersForTheCard
\* The calls are bounded.
CHECK_DEADLOCK FALSE
