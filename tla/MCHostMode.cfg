\* Calls side by side, failing writes, restarts.
CONSTANTS
    c1 = c1
    c2 = c2
    j1 = j1
    s1 = s1
    Callers <- TwoCallers
    OtherJobs <- OneJob
    Shutdowns <- OneShutdown
    Faults = TRUE
SYMMETRY CallerSymmetry
SPECIFICATION ModeSpec
INVARIANTS ModeConsistent MaintenanceIsChecked AnswersAreTrue
\* An agent whose global.cfg is lost does not start again.
CHECK_DEADLOCK FALSE
