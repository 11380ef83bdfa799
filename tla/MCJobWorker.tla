---------------------------- MODULE MCJobWorker ----------------------------
(* Two pool threads and two jobs of clients.                                 *)
EXTENDS JobWorker

CONSTANTS j1, j2, w1, w2

ClientJobs == {j1, j2}
FirstJob   == {j1}
SecondJob  == {j2}
NoJobs     == {}
TwoWorkers == {w1, w2}
=============================================================================
