\* Filters and policies: calls side by side, failing commands.
CONSTANTS
    c1 = c1
    c2 = c2
    f1 = f1
    f2 = f2
    q1 = q1
    t1 = t1
    RulesCallers <- TwoCallers
    Filters <- TwoFilters
    Policies <- OnePolicy
    Taps <- OneTap
    Matches <- ThreeMatches
    Narrower <- Nested
    AclContents <- Acls
    QosContents <- Qoss
    RulesMaxCalls = 3
    RulesFaults = TRUE
SYMMETRY NetRulesSymmetry
SPECIFICATION RulesSpec
INVARIANTS RulesConsistent RulesAnswersAreTrue
\* The calls are bounded.
CHECK_DEADLOCK FALSE
