\* Requests side by side for one domain with up to three disks, restarts, failures.
CONSTANTS
    c1 = c1
    c2 = c2
    vm = vm
    s1 = s1
    s2 = s2
    s3 = s3
    m1 = m1
    Empty = Empty
    Undefined = Undefined
    Callers <- TwoCallers
    Uuids <- OneUuid
    Sources <- ThreeSources
    Macs <- OneMac
    MaxDisks = 3
    MaxCalls = 3
    Faults = TRUE
SYMMETRY DomainsSymmetry
SPECIFICATION DomSpec
INVARIANTS DomConsistent ChangeIsKept AnswersAreTrue
\* The requests are bounded.
CHECK_DEADLOCK FALSE
