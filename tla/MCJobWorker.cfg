\* Two client jobs, one of which never ends and keeps its thread, as the internal
\* job of sysagent does; two pool threads, every interleaving.
CONSTANTS
    j1 = j1
    j2 = j2
    w1 = w1
    w2 = w2
    NoJob = NoJob
    Jobs <- ClientJobs
    Workers <- TwoWorkers
    Cached <- ClientJobs
    Notified <- FirstJob
    Endless <- SecondJob
SPECIFICATION FairSpec
INVARIANTS Consistent VerdictsHold
PROPERTIES VerdictStands QueuedJobsEnd PollerLearnsVerdict
\* Everybody may be done: the pool threads then block in queue.get for good.
CHECK_DEADLOCK FALSE
