------------------------------ MODULE JobWorker ------------------------------
(***************************************************************************)
(* The job queue that every node agent embeds (sysagent, virt_agent and    *)
(* storeagent carry one copy each of worker.py and worker_job.py).  gRPC   *)
(* handler threads call add_job; a fixed pool of threads takes jobs from   *)
(* one FIFO queue and runs them; the client that got the job id polls      *)
(* query_job and finally calls del_job.                                    *)
(*                                                                         *)
(* A critical section of the code is one step.  add_job is four of them:   *)
(* the job object is made, put in the cache, put in the queue and only     *)
(* then marked SUBMITTED, so a worker can be ahead of its submitter.       *)
(***************************************************************************)
EXTENDS Naturals, Sequences

CONSTANTS Jobs,       \* job ids (uuid4 in the code), one per add_job call
          Workers,    \* threads of the pool
          Cached,     \* jobs with need_cache, those a client can query
          Notified,   \* jobs with need_notify
          Endless,    \* jobs whose function never returns (HOSTCPUPERCENT)
          NoJob       \* "no job in hand"

ASSUME JobsAssumption ==
    /\ Cached \subseteq Jobs
    /\ Notified \subseteq Jobs
    /\ Endless \subseteq Jobs
    /\ NoJob \notin Jobs

VARIABLES
    status,     \* Jobs.__job_status
    process,    \* Jobs.__process, as "zero", "some" or "full" (0, 1..99, 100)
    cache,      \* Worker.__job_cache: the ids it knows
    queue,      \* Worker.__job_q
    addPc,      \* how far the add_job call for this job has got
    workerPc,   \* where each pool thread is in __worker
    workerJob,  \* the local variable `job` of each pool thread
    outcome,    \* history: what the function of the job really did
    notice,     \* history: the status carried by the notification, if sent
    clientPc,   \* the client that polls the job
    seen        \* the status that client read first in the current query_job

jobVars    == <<status, process>>
clientVars == <<clientPc, seen>>
vars == <<status, process, cache, queue, addPc, workerPc, workerJob,
          outcome, notice, clientPc, seen>>

Terminal  == {"FINISHED_SUCCESSFULLY", "FINISHED_FAILED"}
JobStatus == {"CREATED", "SUBMITTED", "PROCESSING"} \cup Terminal
Process   == {"zero", "some", "full"}
AddPc     == {"absent", "created", "cached", "queued", "returned"}
WorkerPc  == {"idle", "taken", "running", "succeeded", "notify"}
Outcome   == {"none", "ok", "failed"}
ClientPc  == {"polling", "reading", "sawSuccess", "sawFailure", "left"}

TypeOK ==
    /\ status \in [Jobs -> JobStatus]
    /\ process \in [Jobs -> Process]
    /\ cache \in SUBSET Jobs
    /\ queue \in Seq(Jobs)
    /\ addPc \in [Jobs -> AddPc]
    /\ workerPc \in [Workers -> WorkerPc]
    /\ workerJob \in [Workers -> Jobs \cup {NoJob}]
    /\ outcome \in [Jobs -> Outcome]
    /\ notice \in [Jobs -> JobStatus \cup {"none"}]
    /\ clientPc \in [Jobs -> ClientPc]
    /\ seen \in [Jobs -> JobStatus]

Init ==
    /\ status = [j \in Jobs |-> "CREATED"]
    /\ process = [j \in Jobs |-> "zero"]
    /\ cache = {}
    /\ queue = <<>>
    /\ addPc = [j \in Jobs |-> "absent"]
    /\ workerPc = [w \in Workers |-> "idle"]
    /\ workerJob = [w \in Workers |-> NoJob]
    /\ outcome = [j \in Jobs |-> "none"]
    /\ notice = [j \in Jobs |-> "none"]
    /\ clientPc = [j \in Jobs |-> "polling"]
    /\ seen = [j \in Jobs |-> "CREATED"]

-----------------------------------------------------------------------------
(* add_job, run by a gRPC handler thread or by another job.                *)

\* __job_cache_lock is held from the first to the second read of query_job.
CacheLockFree == \A j \in Jobs : clientPc[j] # "reading"

\* job = worker_job.Jobs(...): CREATED with process 0.
CreateJob(j) ==
    /\ addPc[j] = "absent"
    /\ addPc' = [addPc EXCEPT ![j] = IF j \in Cached THEN "created" ELSE "cached"]
    /\ UNCHANGED <<jobVars, cache, queue, workerPc, workerJob, outcome, notice, clientVars>>

\* with self.__job_cache_lock: self.__job_cache[job.job_id] = job
CacheJob(j) ==
    /\ addPc[j] = "created"
    /\ CacheLockFree
    /\ cache' = cache \cup {j}
    /\ addPc' = [addPc EXCEPT ![j] = "cached"]
    /\ UNCHANGED <<jobVars, queue, workerPc, workerJob, outcome, notice, clientVars>>

\* Mutant: a put that drops the job when one is waiting already.
EnqueueJobOrDrop(j) ==
    /\ addPc[j] = "cached"
    /\ queue' = IF queue = <<>> THEN <<j>> ELSE queue
    /\ addPc' = [addPc EXCEPT ![j] = "queued"]
    /\ UNCHANGED <<jobVars, cache, workerPc, workerJob, outcome, notice, clientVars>>

\* self.__job_q.put(job)
EnqueueJob(j) ==
    /\ addPc[j] = "cached"
    /\ queue' = Append(queue, j)
    /\ addPc' = [addPc EXCEPT ![j] = "queued"]
    /\ UNCHANGED <<jobVars, cache, workerPc, workerJob, outcome, notice, clientVars>>

\* job.set_job_status(SUBMITTED), whatever the status is by now; return job_id
MarkSubmitted(j) ==
    /\ addPc[j] = "queued"
    /\ status' = [status EXCEPT ![j] = "SUBMITTED"]
    /\ addPc' = [addPc EXCEPT ![j] = "returned"]
    /\ UNCHANGED <<process, cache, queue, workerPc, workerJob, outcome, notice, clientVars>>

-----------------------------------------------------------------------------
(* __worker, run by each thread of the pool.                               *)

\* Mutant: the job is looked at and stays in the queue.
TakeJobPeeking(w) ==
    /\ workerPc[w] = "idle"
    /\ queue # <<>>
    /\ workerJob' = [workerJob EXCEPT ![w] = Head(queue)]
    /\ workerPc' = [workerPc EXCEPT ![w] = "taken"]
    /\ UNCHANGED <<jobVars, cache, queue, addPc, outcome, notice, clientVars>>

\* job = self.__job_q.get()
TakeJob(w) ==
    /\ workerPc[w] = "idle"
    /\ queue # <<>>
    /\ workerJob' = [workerJob EXCEPT ![w] = Head(queue)]
    /\ queue' = Tail(queue)
    /\ workerPc' = [workerPc EXCEPT ![w] = "taken"]
    /\ UNCHANGED <<jobVars, cache, addPc, outcome, notice, clientVars>>

\* Jobs.run: PROCESSING, then the function of the job type is called
RunJob(w) ==
    /\ workerPc[w] = "taken"
    /\ status' = [status EXCEPT ![workerJob[w]] = "PROCESSING"]
    /\ workerPc' = [workerPc EXCEPT ![w] = "running"]
    /\ UNCHANGED <<process, cache, queue, addPc, workerJob, outcome, notice, clientVars>>

\* the function reports progress with job.set_process(n), n in 1..100
ReportProgress(w) ==
    /\ workerPc[w] = "running"
    /\ \E p \in {"some", "full"} :
           process' = [process EXCEPT ![workerJob[w]] = p]
    /\ UNCHANGED <<status, cache, queue, addPc, workerPc, workerJob, outcome, notice, clientVars>>

\* the function returned: set_job_status(FINISHED_SUCCESSFULLY)
JobSucceeds(w) ==
    /\ workerPc[w] = "running"
    /\ workerJob[w] \notin Endless
    /\ outcome' = [outcome EXCEPT ![workerJob[w]] = "ok"]
    /\ status' = [status EXCEPT ![workerJob[w]] = "FINISHED_SUCCESSFULLY"]
    /\ workerPc' = [workerPc EXCEPT ![w] = "succeeded"]
    /\ UNCHANGED <<process, cache, queue, addPc, workerJob, notice, clientVars>>

\* Mutant: process stays where the function left it.
SetNothing(w) ==
    /\ workerPc[w] = "succeeded"
    /\ workerPc' = [workerPc EXCEPT ![w] = "notify"]
    /\ UNCHANGED <<jobVars, cache, queue, addPc, workerJob, outcome, notice, clientVars>>

\* then, under the lock again, set_process(100)
SetFull(w) ==
    /\ workerPc[w] = "succeeded"
    /\ process' = [process EXCEPT ![workerJob[w]] = "full"]
    /\ workerPc' = [workerPc EXCEPT ![w] = "notify"]
    /\ UNCHANGED <<status, cache, queue, addPc, workerJob, outcome, notice, clientVars>>

\* Mutant: success is recorded on both paths (in the finally block).
JobFailsAsSuccess(w) ==
    /\ workerPc[w] = "running"
    /\ workerJob[w] \notin Endless
    /\ outcome' = [outcome EXCEPT ![workerJob[w]] = "failed"]
    /\ status' = [status EXCEPT ![workerJob[w]] = "FINISHED_SUCCESSFULLY"]
    /\ workerPc' = [workerPc EXCEPT ![w] = "notify"]
    /\ UNCHANGED <<process, cache, queue, addPc, workerJob, notice, clientVars>>

\* the function raised: set_job_status(FINISHED_FAILED), process is left
JobFails(w) ==
    /\ workerPc[w] = "running"
    /\ workerJob[w] \notin Endless
    /\ outcome' = [outcome EXCEPT ![workerJob[w]] = "failed"]
    /\ status' = [status EXCEPT ![workerJob[w]] = "FINISHED_FAILED"]
    /\ workerPc' = [workerPc EXCEPT ![w] = "notify"]
    /\ UNCHANGED <<process, cache, queue, addPc, workerJob, notice, clientVars>>

\* Mutant: the status is reset once it was posted.
NotifyAndReset(w) ==
    /\ workerPc[w] = "notify"
    /\ status' = [status EXCEPT ![workerJob[w]] = "CREATED"]
    /\ workerPc' = [workerPc EXCEPT ![w] = "idle"]
    /\ workerJob' = [workerJob EXCEPT ![w] = NoJob]
    /\ UNCHANGED <<process, cache, queue, addPc, outcome, notice, clientVars>>

\* finally: post the status the job has now (Notify swallows a request that
\* fails), then back to the queue
NotifyAndLoop(w) ==
    /\ workerPc[w] = "notify"
    /\ notice' = IF workerJob[w] \in Notified
                 THEN [notice EXCEPT ![workerJob[w]] = status[workerJob[w]]]
                 ELSE notice
    /\ workerPc' = [workerPc EXCEPT ![w] = "idle"]
    /\ workerJob' = [workerJob EXCEPT ![w] = NoJob]
    /\ UNCHANGED <<jobVars, cache, queue, addPc, outcome, clientVars>>

-----------------------------------------------------------------------------
(* The client that received job_id: the VACli* loops of virt_agentd.py.    *)

\* query_job, first half: find the job under the cache lock, read its status
QueryStatus(j) ==
    /\ clientPc[j] = "polling"
    /\ addPc[j] = "returned"
    /\ j \in cache
    /\ CacheLockFree
    /\ seen' = [seen EXCEPT ![j] = status[j]]
    /\ clientPc' = [clientPc EXCEPT ![j] = "reading"]
    /\ UNCHANGED <<jobVars, cache, queue, addPc, workerPc, workerJob, outcome, notice>>

\* query_job, second half: read process, release the lock; the client then
\* accepts success only together with process 100
QueryProcess(j) ==
    /\ clientPc[j] = "reading"
    /\ clientPc' = [clientPc EXCEPT ![j] =
           CASE seen[j] = "FINISHED_SUCCESSFULLY" /\ process[j] = "full" -> "sawSuccess"
             [] seen[j] = "FINISHED_FAILED" -> "sawFailure"
             [] OTHER -> "polling"]
    /\ UNCHANGED <<jobVars, cache, queue, addPc, workerPc, workerJob, outcome, notice, seen>>

\* a DeleteJob request: by the client that has its answer, or by anybody else
\* who knows the id, at any time (del_job does not look at the status)
DelJob(j) ==
    /\ addPc[j] = "returned"
    /\ j \in cache
    /\ CacheLockFree
    /\ cache' = cache \ {j}
    /\ clientPc' = [clientPc EXCEPT ![j] =
           IF @ \in {"sawSuccess", "sawFailure"} THEN "left" ELSE @]
    /\ UNCHANGED <<jobVars, queue, addPc, workerPc, workerJob, outcome, notice, seen>>

\* a grpc.RpcError (the call timed out): the client quits and deletes nothing
GiveUp(j) ==
    /\ clientPc[j] \in {"polling", "sawSuccess", "sawFailure"}
    /\ addPc[j] = "returned"
    /\ j \in Cached
    /\ clientPc' = [clientPc EXCEPT ![j] = "left"]
    /\ UNCHANGED <<jobVars, cache, queue, addPc, workerPc, workerJob, outcome, notice, seen>>

-----------------------------------------------------------------------------
AddJobStep(j) == CreateJob(j) \/ CacheJob(j) \/ EnqueueJob(j) \/ MarkSubmitted(j)
WorkerStep(w) == \/ TakeJob(w) \/ RunJob(w) \/ JobSucceeds(w) \/ SetFull(w)
                 \/ JobFails(w) \/ NotifyAndLoop(w)
QueryStep(j)  == QueryStatus(j) \/ QueryProcess(j)

Next ==
    \/ \E j \in Jobs : AddJobStep(j) \/ QueryStep(j) \/ DelJob(j) \/ GiveUp(j)
    \/ \E w \in Workers : WorkerStep(w) \/ ReportProgress(w)

Spec == Init /\ [][Next]_vars

\* A thread that can run eventually runs.  An add_job call that has begun is
\* finished; nobody has to call add_job, delete a job or give up.  A client
\* competes for the cache lock, so its turn comes by strong fairness.
Fairness ==
    /\ \A j \in Jobs : /\ WF_vars(EnqueueJob(j) \/ MarkSubmitted(j))
                       /\ SF_vars(CacheJob(j))
                       /\ SF_vars(QueryStatus(j))
                       /\ WF_vars(QueryProcess(j))
    /\ \A w \in Workers : WF_vars(WorkerStep(w))

FairSpec == Spec /\ Fairness

-----------------------------------------------------------------------------
(* Properties                                                              *)

\* Every job is in at most one place: once in the queue or in the hands of one
\* pool thread, and not in either before its put or after its function ended
\* and was notified.  So the function of a job runs once (queue.Queue hands
\* each put to one get; nothing re-queues a job).
InQueue(j) == \E i \in 1..Len(queue) : queue[i] = j
HeldBy(j)  == {w \in Workers : workerJob[w] = j}
EachJobInOnePlace ==
    /\ \A i, k \in 1..Len(queue) : queue[i] = queue[k] => i = k
    /\ \A j \in Jobs : InQueue(j) => HeldBy(j) = {} /\ outcome[j] = "none"
    /\ \A v, w \in Workers :
           workerJob[v] = workerJob[w] /\ workerJob[v] # NoJob => v = w
    /\ \A w \in Workers :
           workerPc[w] \in {"taken", "running"} => outcome[workerJob[w]] = "none"

\* A final status never lies: whoever reads FINISHED_SUCCESSFULLY reads of a
\* function that returned, and FINISHED_FAILED of one that raised.
VerdictIsTrue ==
    \A j \in Jobs : /\ status[j] = "FINISHED_SUCCESSFULLY" => outcome[j] = "ok"
                    /\ status[j] = "FINISHED_FAILED" => outcome[j] = "failed"

\* The client's conclusion is right although status and process are two reads:
\* success only for a job that succeeded and whose process is final.
ClientVerdictIsTrue ==
    \A j \in Jobs : /\ clientPc[j] = "sawSuccess" => outcome[j] = "ok"
                    /\ clientPc[j] = "sawFailure" => outcome[j] = "failed"

\* The only write that can take a final status away is the late SUBMITTED of
\* the add_job call that is still under way; once add_job has returned the id,
\* a verdict stands.
VerdictStands ==
    [][\A j \in Jobs :
          status[j] \in Terminal /\ status'[j] # status[j]
              => addPc[j] = "queued" /\ addPc'[j] = "returned"]_vars

\* A job in the cache whose add_job has returned, and whose function is over,
\* shows a verdict or the SUBMITTED that overwrote it: never CREATED or
\* PROCESSING, which would say the job is still going on.
EndedJobIsNotProcessing ==
    \A j \in Jobs : outcome[j] # "none" => status[j] \in Terminal \cup {"SUBMITTED"}

\* While a thread of the pool is free of endless jobs, every job that was put
\* in the queue is run to its end.
QueuedJobsEnd ==
    \A j \in Jobs \ Endless : addPc[j] = "queued" ~> outcome[j] # "none"

\* A client that goes on polling learns a verdict that is there to be read.
PollerLearnsVerdict ==
    \A j \in Cached :
        addPc[j] = "returned" /\ status[j] \in Terminal
            ~> clientPc[j] \in {"sawSuccess", "sawFailure", "left"} \/ j \notin cache

\* The jobs are well formed, and each is in at most one place.
Consistent == TypeOK /\ EachJobInOnePlace

\* What is read of a job is true, by a client or in the job, and a job that is
\* over does not look as if it went on (query_job).
VerdictsHold == VerdictIsTrue /\ ClientVerdictIsTrue /\ EndedJobIsNotProcessing
=============================================================================
