--------------------------- MODULE SysAgentProofs ---------------------------
(***************************************************************************)
(* The job worker and the host mode of sysagent, for any number of jobs,   *)
(* pool threads, clients, calls side by side, failing writes and restarts. *)
(* Spec and Consistent are those of JobWorker, AnswersAreTrue is that of   *)
(* HostMode.                                                               *)
(***************************************************************************)
EXTENDS JobWorker, HostMode, SequenceTheorems, TLAPS

-----------------------------------------------------------------------------
(***************************************************************************)
(* Part 1.  JobWorker: its types, and the safety of its verdicts: a job is *)
(* run once and whatever a client concludes about it is what its function  *)
(* did.                                                                    *)
(***************************************************************************)

USE DEF jobVars, clientVars

\* Every variable keeps its type, whatever jobs are added and whoever runs,
\* queries or deletes them.
THEOREM TypeCorrect == Spec => []TypeOK
<1>1. Init => TypeOK
  BY DEF Init, TypeOK, JobStatus, Process, AddPc, WorkerPc, Outcome, ClientPc
<1>2. TypeOK /\ [Next]_vars => TypeOK'
  <2> SUFFICES ASSUME TypeOK, [Next]_vars
               PROVE  TypeOK'
    OBVIOUS
  <2> USE DEF TypeOK
  <2>1. ASSUME NEW j \in Jobs, CreateJob(j) PROVE TypeOK'
    BY <2>1 DEF CreateJob, AddPc
  <2>2. ASSUME NEW j \in Jobs, CacheJob(j) PROVE TypeOK'
    BY <2>2 DEF CacheJob, AddPc
  <2>3. ASSUME NEW j \in Jobs, EnqueueJob(j) PROVE TypeOK'
    BY <2>3, AppendProperties DEF EnqueueJob, AddPc
  <2>4. ASSUME NEW j \in Jobs, MarkSubmitted(j) PROVE TypeOK'
    BY <2>4 DEF MarkSubmitted, AddPc, JobStatus
  <2>5. ASSUME NEW j \in Jobs, QueryStatus(j) PROVE TypeOK'
    BY <2>5 DEF QueryStatus, ClientPc
  <2>6. ASSUME NEW j \in Jobs, QueryProcess(j) PROVE TypeOK'
    BY <2>6 DEF QueryProcess, ClientPc
  <2>7. ASSUME NEW j \in Jobs, DelJob(j) PROVE TypeOK'
    BY <2>7 DEF DelJob, ClientPc
  <2>8. ASSUME NEW j \in Jobs, GiveUp(j) PROVE TypeOK'
    BY <2>8 DEF GiveUp, ClientPc
  <2>9. ASSUME NEW w \in Workers, TakeJob(w) PROVE TypeOK'
    BY <2>9, HeadTailProperties DEF TakeJob, WorkerPc
  <2>10. ASSUME NEW w \in Workers, RunJob(w) PROVE TypeOK'
    BY <2>10 DEF RunJob, WorkerPc, JobStatus
  <2>11. ASSUME NEW w \in Workers, ReportProgress(w) PROVE TypeOK'
    BY <2>11 DEF ReportProgress, Process
  <2>12. ASSUME NEW w \in Workers, JobSucceeds(w) PROVE TypeOK'
    BY <2>12 DEF JobSucceeds, WorkerPc, JobStatus, Terminal, Outcome
  <2>13. ASSUME NEW w \in Workers, SetFull(w) PROVE TypeOK'
    BY <2>13 DEF SetFull, WorkerPc, Process
  <2>14. ASSUME NEW w \in Workers, JobFails(w) PROVE TypeOK'
    BY <2>14 DEF JobFails, WorkerPc, JobStatus, Terminal, Outcome
  <2>15. ASSUME NEW w \in Workers, NotifyAndLoop(w) PROVE TypeOK'
    <3>1. workerJob[w] \in Notified => status[workerJob[w]] \in JobStatus
      BY JobsAssumption
    <3>2. notice' \in [Jobs -> JobStatus \cup {"none"}]
      BY <2>15, <3>1 DEF NotifyAndLoop
    <3>3. QED
      BY <2>15, <3>2 DEF NotifyAndLoop, WorkerPc
  <2>16. CASE UNCHANGED vars
    BY <2>16 DEF vars
  <2>17. QED
    BY <2>1, <2>2, <2>3, <2>4, <2>5, <2>6, <2>7, <2>8, <2>9, <2>10, <2>11,
       <2>12, <2>13, <2>14, <2>15, <2>16
       DEF Next, AddJobStep, WorkerStep, QueryStep
<1>3. QED
  BY <1>1, <1>2, PTL DEF Spec

-----------------------------------------------------------------------------
(* The inductive invariant.  Three facts make a job run once: it is in the  *)
(* queue once, never in the queue and in a thread's hands, never in two     *)
(* threads' hands.  They need each other, and need to know that nobody has  *)
(* a job before its put and that its function has not ended while it waits. *)

\* A pool thread has a job in hand exactly when it is not waiting for one.
HandsMatchPc ==
    \A w \in Workers : workerPc[w] = "idle" <=> workerJob[w] = NoJob

\* A job that is not put yet is nowhere and its function has not run.
BeforePut == {"absent", "created", "cached"}
NotYetPut(j) == addPc[j] \in BeforePut
QueueIsSound ==
    \A i \in 1..Len(queue) :
        /\ ~NotYetPut(queue[i])
        /\ outcome[queue[i]] = "none"
        /\ \A w \in Workers : workerJob[w] # queue[i]
        /\ \A k \in 1..Len(queue) : queue[i] = queue[k] => i = k
HandsAreSound ==
    \A w \in Workers : workerPc[w] # "idle" =>
        /\ ~NotYetPut(workerJob[w])
        /\ \A v \in Workers : workerJob[v] = workerJob[w] => v = w
        /\ workerPc[w] \in {"taken", "running"} => outcome[workerJob[w]] = "none"
NotPutNotRun == \A j \in Jobs : NotYetPut(j) => outcome[j] = "none"

\* What a client has read is as true as what it read.
SeenIsTrue ==
    \A j \in Jobs : /\ seen[j] = "FINISHED_SUCCESSFULLY" => outcome[j] = "ok"
                    /\ seen[j] = "FINISHED_FAILED" => outcome[j] = "failed"

IInv == /\ TypeOK
        /\ HandsMatchPc
        /\ QueueIsSound
        /\ HandsAreSound
        /\ NotPutNotRun
        /\ VerdictIsTrue
        /\ SeenIsTrue
        /\ ClientVerdictIsTrue
        /\ EndedJobIsNotProcessing

\* The steps of add_job, of the client and of the pool keep the invariant.
LEMMA InductiveInvariant == Spec => []IInv
<1>1. Init => IInv
  <2> SUFFICES ASSUME Init PROVE IInv
    OBVIOUS
  <2>1. TypeOK
    BY DEF Init, TypeOK, JobStatus, Process, AddPc, WorkerPc, Outcome, ClientPc
  <2>2. QED
    BY <2>1 DEF Init, IInv, HandsMatchPc, QueueIsSound, HandsAreSound,
                NotPutNotRun, VerdictIsTrue, SeenIsTrue, ClientVerdictIsTrue,
                EndedJobIsNotProcessing
<1>2. IInv /\ TypeOK' /\ [Next]_vars => IInv'
  <2> SUFFICES ASSUME IInv, TypeOK', [Next]_vars
               PROVE  IInv'
    OBVIOUS
  <2> USE DEF IInv
  <2>1. ASSUME NEW j \in Jobs, AddJobStep(j) PROVE IInv'
    <3>1. CASE CreateJob(j) \/ CacheJob(j) \/ MarkSubmitted(j)
      <4>1. /\ UNCHANGED <<queue, workerPc, workerJob, outcome, clientVars>>
            /\ \A k \in Jobs : NotYetPut(k)' <=> NotYetPut(k)
        BY <3>1 DEF CreateJob, CacheJob, MarkSubmitted, NotYetPut, BeforePut, TypeOK
      <4>2. \A k \in Jobs : status'[k] = status[k] \/ status'[k] = "SUBMITTED"
        BY <3>1 DEF CreateJob, CacheJob, MarkSubmitted, TypeOK
      <4>3. \A i \in 1..Len(queue) : queue[i] \in Jobs
        BY ElementOfSeq DEF TypeOK
      <4>4. QueueIsSound'
        BY <4>1, <4>3 DEF QueueIsSound
      <4>5. HandsAreSound'
        BY <4>1, JobsAssumption DEF HandsAreSound, HandsMatchPc, TypeOK
      <4>6. HandsMatchPc' /\ NotPutNotRun' /\ SeenIsTrue' /\ ClientVerdictIsTrue'
        BY <4>1 DEF HandsMatchPc, NotPutNotRun, SeenIsTrue, ClientVerdictIsTrue
      <4>7. VerdictIsTrue' /\ EndedJobIsNotProcessing'
        BY <4>1, <4>2 DEF VerdictIsTrue, EndedJobIsNotProcessing
      <4>8. QED
        BY <4>4, <4>5, <4>6, <4>7
    <3>2. CASE EnqueueJob(j)
      <4>1. /\ Len(queue') = Len(queue) + 1
            /\ \A i \in 1..Len(queue) : queue'[i] = queue[i] /\ queue[i] \in Jobs
            /\ queue'[Len(queue) + 1] = j
            /\ Len(queue) \in Nat
        BY <3>2, AppendProperties, ElementOfSeq, LenProperties DEF EnqueueJob, TypeOK
      <4>2. /\ UNCHANGED <<status, workerPc, workerJob, outcome, clientVars>>
            /\ NotYetPut(j) /\ ~NotYetPut(j)'
            /\ \A k \in Jobs : k # j => (NotYetPut(k)' <=> NotYetPut(k))
        BY <3>2 DEF EnqueueJob, NotYetPut, BeforePut, TypeOK
      <4>3. \A i \in 1..Len(queue) : queue[i] # j
        BY <4>2 DEF QueueIsSound
      <4>4. \A w \in Workers : workerJob[w] # j
        BY <4>2, JobsAssumption DEF HandsAreSound, HandsMatchPc
      <4>5. QueueIsSound'
        <5> SUFFICES ASSUME NEW i \in 1..Len(queue')
                     PROVE  /\ addPc'[queue'[i]] \notin BeforePut
                            /\ outcome[queue'[i]] = "none"
                            /\ \A w \in Workers : workerJob[w] # queue'[i]
                            /\ \A k \in 1..Len(queue') : queue'[i] = queue'[k] => i = k
          BY <4>2 DEF QueueIsSound, NotYetPut
        <5>1. CASE i \in 1..Len(queue)
          BY <5>1, <4>1, <4>2, <4>3 DEF QueueIsSound, NotYetPut
        <5>2. CASE i = Len(queue) + 1
          BY <5>2, <4>1, <4>2, <4>3, <4>4 DEF NotPutNotRun, NotYetPut
        <5>3. QED
          BY <4>1, <5>1, <5>2
      <4>6. HandsAreSound'
        BY <4>2, <4>4, JobsAssumption DEF HandsAreSound, HandsMatchPc, TypeOK
      <4>7. HandsMatchPc' /\ NotPutNotRun' /\ SeenIsTrue' /\ ClientVerdictIsTrue' /\ VerdictIsTrue'
        BY <4>2 DEF HandsMatchPc, NotPutNotRun, SeenIsTrue, ClientVerdictIsTrue, VerdictIsTrue
      <4>8. EndedJobIsNotProcessing'
        BY <4>2 DEF EndedJobIsNotProcessing
      <4>9. QED
        BY <4>5, <4>6, <4>7, <4>8
    <3>3. QED
      BY <2>1, <3>1, <3>2 DEF AddJobStep
  <2>2. ASSUME NEW j \in Jobs, QueryStep(j) \/ DelJob(j) \/ GiveUp(j) PROVE IInv'
    <3>1. UNCHANGED <<status, queue, addPc, workerPc, workerJob, outcome>>
      BY <2>2 DEF QueryStep, QueryStatus, QueryProcess, DelJob, GiveUp
    <3>2. SeenIsTrue'
      <4>1. \A k \in Jobs : seen'[k] = seen[k] \/ seen'[k] = status[k]
        BY <2>2 DEF QueryStep, QueryStatus, QueryProcess, DelJob, GiveUp, TypeOK
      <4>2. QED
        BY <3>1, <4>1 DEF SeenIsTrue, VerdictIsTrue
    <3>3. ClientVerdictIsTrue'
      <4>1. \A k \in Jobs :
              /\ clientPc'[k] = "sawSuccess" =>
                   clientPc[k] = "sawSuccess" \/ seen[k] = "FINISHED_SUCCESSFULLY"
              /\ clientPc'[k] = "sawFailure" =>
                   clientPc[k] = "sawFailure" \/ seen[k] = "FINISHED_FAILED"
        BY <2>2 DEF QueryStep, QueryStatus, QueryProcess, DelJob, GiveUp, TypeOK
      <4>2. QED
        BY <3>1, <4>1 DEF SeenIsTrue, ClientVerdictIsTrue
    <3>4. QueueIsSound' /\ HandsAreSound' /\ HandsMatchPc' /\ NotPutNotRun' /\ VerdictIsTrue'
      BY <3>1 DEF QueueIsSound, HandsAreSound, HandsMatchPc, NotPutNotRun, VerdictIsTrue, NotYetPut
    <3>5. EndedJobIsNotProcessing'
      BY <3>1 DEF EndedJobIsNotProcessing
    <3>6. QED
      BY <3>2, <3>3, <3>4, <3>5
  <2>3. ASSUME NEW w \in Workers, TakeJob(w) PROVE IInv'
    <3>1. /\ queue # <<>>
          /\ workerJob' = [workerJob EXCEPT ![w] = queue[1]]
          /\ workerPc' = [workerPc EXCEPT ![w] = "taken"]
          /\ UNCHANGED <<status, addPc, outcome, clientVars>>
      BY <2>3 DEF TakeJob
    <3>2. /\ Len(queue) \in Nat /\ Len(queue) >= 1
          /\ Len(queue') = Len(queue) - 1
          /\ \A i \in 1..Len(queue') : queue'[i] = queue[i + 1]
      BY <2>3, HeadTailProperties, LenProperties, EmptySeq DEF TakeJob, TypeOK
    <3>3. \A i \in 1..Len(queue) : queue[i] \in Jobs
      BY ElementOfSeq DEF TypeOK
    <3>4. QueueIsSound'
      <4> SUFFICES ASSUME NEW i \in 1..Len(queue')
                   PROVE  /\ addPc'[queue'[i]] \notin BeforePut
                          /\ outcome[queue'[i]] = "none"
                          /\ \A v \in Workers : workerJob'[v] # queue'[i]
                          /\ \A k \in 1..Len(queue') : queue'[i] = queue'[k] => i = k
        BY <3>1 DEF QueueIsSound, NotYetPut
      <4>1. i + 1 \in 1..Len(queue) /\ queue'[i] = queue[i + 1] /\ 1 \in 1..Len(queue)
        BY <3>2
      <4>2. addPc'[queue'[i]] \notin BeforePut /\ outcome[queue'[i]] = "none"
        BY <3>1, <4>1 DEF QueueIsSound, NotYetPut
      <4>3. queue[1] # queue[i + 1]
        BY <4>1 DEF QueueIsSound
      <4>4. \A v \in Workers : workerJob'[v] # queue'[i]
        BY <3>1, <4>1, <4>3 DEF QueueIsSound, TypeOK
      <4>5. \A k \in 1..Len(queue') : queue'[i] = queue'[k] => i = k
        <5> SUFFICES ASSUME NEW k \in 1..Len(queue'), queue'[i] = queue'[k]
                     PROVE  i = k
          OBVIOUS
        <5>1. k + 1 \in 1..Len(queue) /\ queue'[k] = queue[k + 1]
          BY <3>2
        <5>2. i + 1 = k + 1
          BY <4>1, <5>1 DEF QueueIsSound
        <5>3. QED
          BY <3>2, <5>2
      <4>6. QED
        BY <4>2, <4>4, <4>5
    <3>5. HandsAreSound'
      <4>1. /\ 1 \in 1..Len(queue) /\ queue[1] \in Jobs
            /\ ~NotYetPut(queue[1]) /\ outcome[queue[1]] = "none"
            /\ \A v \in Workers : workerJob[v] # queue[1]
        BY <3>2, <3>3 DEF QueueIsSound
      <4>2. QED
        BY <3>1, <4>1 DEF HandsAreSound, NotYetPut, TypeOK
    <3>6. HandsMatchPc'
      BY <3>1, <3>2, <3>3, JobsAssumption DEF HandsMatchPc, TypeOK
    <3>7. NotPutNotRun' /\ SeenIsTrue' /\ ClientVerdictIsTrue' /\ VerdictIsTrue'
      BY <3>1 DEF NotPutNotRun, SeenIsTrue, ClientVerdictIsTrue, VerdictIsTrue, NotYetPut
    <3>8. EndedJobIsNotProcessing'
      BY <3>1 DEF EndedJobIsNotProcessing
    <3>9. QED
      BY <3>4, <3>5, <3>6, <3>7, <3>8
  <2>4. ASSUME NEW w \in Workers,
               RunJob(w) \/ ReportProgress(w) \/ SetFull(w)
        PROVE  IInv'
    <3>1. /\ UNCHANGED <<queue, addPc, workerJob, outcome, clientVars>>
          /\ \A v \in Workers : v # w => workerPc'[v] = workerPc[v]
          /\ workerPc[w] # "idle" /\ workerPc'[w] # "idle"
          /\ workerPc'[w] \in {"taken", "running"} =>
                 workerPc[w] \in {"taken", "running"}
          /\ \A k \in Jobs : status'[k] = status[k] \/ status'[k] = "PROCESSING"
      BY <2>4 DEF RunJob, ReportProgress, SetFull, TypeOK, WorkerPc
    <3>2. QueueIsSound' /\ NotPutNotRun' /\ SeenIsTrue' /\ ClientVerdictIsTrue'
      BY <3>1 DEF QueueIsSound, NotPutNotRun, SeenIsTrue, ClientVerdictIsTrue, NotYetPut
    <3>3. HandsAreSound' /\ HandsMatchPc'
      BY <3>1 DEF HandsAreSound, HandsMatchPc, NotYetPut
    <3>4. VerdictIsTrue'
      BY <3>1 DEF VerdictIsTrue
    <3>5. EndedJobIsNotProcessing'
      <4>1. \A k \in Jobs : status'[k] = status[k] \/ outcome[k] = "none"
        BY <2>4 DEF RunJob, ReportProgress, SetFull, HandsAreSound, TypeOK
      <4>2. QED
        BY <3>1, <4>1 DEF EndedJobIsNotProcessing
    <3>6. QED
      BY <3>2, <3>3, <3>4, <3>5
  <2>5. ASSUME NEW w \in Workers, JobSucceeds(w) \/ JobFails(w) PROVE IInv'
    <3> DEFINE endedJob == workerJob[w]
    <3>1. /\ UNCHANGED <<queue, addPc, workerJob, clientVars>>
          /\ workerPc[w] = "running"
          /\ workerPc'[w] \in {"succeeded", "notify"}
          /\ \A v \in Workers : v # w => workerPc'[v] = workerPc[v]
      BY <2>5 DEF JobSucceeds, JobFails, TypeOK
    <3>2. endedJob \in Jobs /\ outcome[endedJob] = "none" /\ ~NotYetPut(endedJob)
      BY <3>1 DEF HandsAreSound, HandsMatchPc, TypeOK
    <3>3. \A k \in Jobs : k # endedJob => outcome'[k] = outcome[k] /\ status'[k] = status[k]
      BY <2>5 DEF JobSucceeds, JobFails, TypeOK
    <3>4. \/ outcome'[endedJob] = "ok" /\ status'[endedJob] = "FINISHED_SUCCESSFULLY"
          \/ outcome'[endedJob] = "failed" /\ status'[endedJob] = "FINISHED_FAILED"
      BY <2>5, <3>2 DEF JobSucceeds, JobFails, TypeOK
    <3>5. QueueIsSound'
      <4>1. \A i \in 1..Len(queue) : queue[i] \in Jobs /\ queue[i] # endedJob
        BY ElementOfSeq DEF QueueIsSound, TypeOK
      <4>2. QED
        BY <3>1, <3>3, <4>1 DEF QueueIsSound, NotYetPut
    <3>6. HandsAreSound'
      <4>1. \A v \in Workers : v # w /\ workerPc[v] # "idle" =>
              workerJob[v] \in Jobs /\ workerJob[v] # endedJob
        BY <3>1, <3>2 DEF HandsAreSound, HandsMatchPc, TypeOK
      <4>2. QED
        BY <3>1, <3>2, <3>3, <4>1 DEF HandsAreSound, NotYetPut
    <3>7. HandsMatchPc'
      BY <3>1 DEF HandsMatchPc
    <3>8. NotPutNotRun'
      BY <3>1, <3>2, <3>3 DEF NotPutNotRun, NotYetPut
    <3>9. VerdictIsTrue'
      BY <3>3, <3>4 DEF VerdictIsTrue
    <3>10. SeenIsTrue' /\ ClientVerdictIsTrue'
      BY <3>1, <3>2, <3>3 DEF SeenIsTrue, ClientVerdictIsTrue
    <3>11. EndedJobIsNotProcessing'
      BY <3>2, <3>3, <3>4 DEF EndedJobIsNotProcessing, Terminal
    <3>12. QED
      BY <3>5, <3>6, <3>7, <3>8, <3>9, <3>10, <3>11
  <2>6. ASSUME NEW w \in Workers, NotifyAndLoop(w) PROVE IInv'
    <3>1. /\ UNCHANGED <<status, queue, addPc, outcome, clientVars>>
          /\ workerPc' = [workerPc EXCEPT ![w] = "idle"]
          /\ workerJob' = [workerJob EXCEPT ![w] = NoJob]
      BY <2>6 DEF NotifyAndLoop
    <3>2. QueueIsSound'
      <4>1. \A i \in 1..Len(queue) : queue[i] # NoJob
        BY ElementOfSeq, JobsAssumption DEF TypeOK
      <4>2. QED
        BY <3>1, <4>1 DEF QueueIsSound, NotYetPut, TypeOK
    <3>3. HandsAreSound' /\ HandsMatchPc'
      BY <3>1, JobsAssumption DEF HandsAreSound, HandsMatchPc, NotYetPut, TypeOK
    <3>4. NotPutNotRun' /\ SeenIsTrue' /\ ClientVerdictIsTrue' /\ VerdictIsTrue'
      BY <3>1 DEF NotPutNotRun, SeenIsTrue, ClientVerdictIsTrue, VerdictIsTrue, NotYetPut
    <3>5. EndedJobIsNotProcessing'
      BY <3>1 DEF EndedJobIsNotProcessing
    <3>6. QED
      BY <3>2, <3>3, <3>4, <3>5
  <2>7. CASE UNCHANGED vars
    BY <2>7 DEF vars, TypeOK, HandsMatchPc, QueueIsSound, HandsAreSound, NotYetPut,
                NotPutNotRun, VerdictIsTrue, SeenIsTrue, ClientVerdictIsTrue,
                EndedJobIsNotProcessing
  <2>8. QED
    BY <2>1, <2>2, <2>3, <2>4, <2>5, <2>6, <2>7 DEF Next, WorkerStep
<1>3. QED
  BY <1>1, <1>2, TypeCorrect, PTL DEF Spec

\* The jobs keep their types, and a job is queued once, taken by one thread of
\* the pool, and its function runs once (queue.Queue, Worker.__worker).
THEOREM JobsRunOnce == Spec => []Consistent
<1>1. IInv => EachJobInOnePlace
  <2> SUFFICES ASSUME IInv PROVE EachJobInOnePlace
    OBVIOUS
  <2>1. \A j \in Jobs : InQueue(j) => HeldBy(j) = {} /\ outcome[j] = "none"
    BY DEF IInv, InQueue, HeldBy, QueueIsSound
  <2>2. \A v, w \in Workers :
          workerJob[v] = workerJob[w] /\ workerJob[v] # NoJob => v = w
    BY DEF IInv, HandsAreSound, HandsMatchPc
  <2>3. \A i, k \in 1..Len(queue) : queue[i] = queue[k] => i = k
    BY DEF IInv, QueueIsSound
  <2>4. \A w \in Workers :
          workerPc[w] \in {"taken", "running"} => outcome[workerJob[w]] = "none"
    BY DEF IInv, HandsAreSound
  <2>5. QED
    BY <2>1, <2>2, <2>3, <2>4 DEF EachJobInOnePlace
<1>2. IInv => Consistent
  BY <1>1 DEF IInv, Consistent
<1>3. QED
  BY <1>2, InductiveInvariant, PTL

\* Neither the status of a job nor a client's conclusion about it ever says
\* anything but what the function of the job did, and a job that is over does
\* not look as if it went on (Worker.query_job).
THEOREM VerdictsAreTrue == Spec => []VerdictsHold
<1>1. IInv => VerdictsHold
  BY DEF IInv, VerdictsHold
<1>2. QED
  BY <1>1, InductiveInvariant, PTL

\* No thread takes a verdict back: the one write over a final status is the
\* SUBMITTED of the add_job call that is still under way (worker.py:97).
THEOREM VerdictsStand == Spec => VerdictStands
<1> DEFINE Stands == \A j \in Jobs : status[j] \in Terminal /\ status'[j] # status[j]
                         => addPc[j] = "queued" /\ addPc'[j] = "returned"
<1>1. IInv /\ [Next]_vars => [Stands]_vars
  <2> SUFFICES ASSUME IInv, Next PROVE Stands
    OBVIOUS
  <2> USE DEF IInv
  <2>1. ASSUME NEW j \in Jobs, CreateJob(j) \/ CacheJob(j) \/ EnqueueJob(j) PROVE Stands
    BY <2>1, JobsAssumption DEF CreateJob, CacheJob, EnqueueJob, TypeOK, Terminal, VerdictIsTrue,
       NotPutNotRun, NotYetPut, BeforePut
  <2>2. ASSUME NEW j \in Jobs, MarkSubmitted(j) PROVE Stands
    BY <2>2 DEF MarkSubmitted, TypeOK
  <2>3. ASSUME NEW j \in Jobs, QueryStep(j) \/ DelJob(j) \/ GiveUp(j) PROVE Stands
    BY <2>3 DEF QueryStep, QueryStatus, QueryProcess, DelJob, GiveUp
  <2>4. ASSUME NEW w \in Workers, RunJob(w) \/ JobSucceeds(w) \/ JobFails(w) PROVE Stands
    <3>1. workerPc[w] \in {"taken", "running"}
      BY <2>4 DEF RunJob, JobSucceeds, JobFails
    <3>2. status[workerJob[w]] \notin Terminal
      BY <3>1, JobsAssumption DEF HandsAreSound, HandsMatchPc, VerdictIsTrue, Terminal, TypeOK
    <3>3. \A j \in Jobs : j # workerJob[w] => status'[j] = status[j]
      BY <2>4 DEF RunJob, JobSucceeds, JobFails, TypeOK
    <3>4. QED
      BY <3>2, <3>3
  <2>5. ASSUME NEW w \in Workers,
               TakeJob(w) \/ ReportProgress(w) \/ SetFull(w) \/ NotifyAndLoop(w)
        PROVE  Stands
    BY <2>5 DEF TakeJob, ReportProgress, SetFull, NotifyAndLoop
  <2>6. QED
    BY <2>1, <2>2, <2>3, <2>4, <2>5 DEF Next, AddJobStep, WorkerStep
<1>2. QED
  BY <1>1, InductiveInvariant, PTL DEF Spec, VerdictStands, Stands

HIDE DEF jobVars, clientVars

-----------------------------------------------------------------------------
(***************************************************************************)
(* Part 2.  HostMode: the host mode and global.cfg, and what SetHostMode   *)
(* guarantees.                                                             *)
(***************************************************************************)

USE DEF callVars, modeJobVars, history

-----------------------------------------------------------------------------
(* Types                                                                   *)

LEMMA TypeStep ==
    ASSUME ModeTypeOK, [ModeNext]_modeVars
    PROVE  ModeTypeOK'
<1> USE DEF ModeTypeOK, Goto, At
<1>1. ASSUME NEW c \in Callers, NEW m \in HostModes, StartSetHostMode(c, m) PROVE ModeTypeOK'
  BY <1>1 DEF StartSetHostMode, Pc, Between, HostModes
<1>2. ASSUME NEW c \in Callers, SysPreCheck(c) PROVE ModeTypeOK'
  BY <1>2 DEF SysPreCheck, Applied, Pc, Between
<1>3. ASSUME NEW c \in Callers, CheckJobs(c) PROVE ModeTypeOK'
  BY <1>3 DEF CheckJobs, Pc, Between
<1>4. ASSUME NEW c \in Callers, SetSysHostMode(c) PROVE ModeTypeOK'
  BY <1>4 DEF SetSysHostMode, Applied, Pc, Between
<1>5. ASSUME NEW c \in Callers, ReadCfg(c) PROVE ModeTypeOK'
  BY <1>5 DEF ReadCfg, CfgModeFail, Pc, Between, Cfg
<1>6. ASSUME NEW c \in Callers, OpenCfg(c) PROVE ModeTypeOK'
  BY <1>6 DEF OpenCfg, Pc, Between, Cfg
<1>7. ASSUME NEW c \in Callers, WriteCfg(c) PROVE ModeTypeOK'
  BY <1>7 DEF WriteCfg, Overwrite, Pc, Between, Cfg
<1>8. ASSUME NEW c \in Callers, CfgFault(c) \/ LoseCfg(c) PROVE ModeTypeOK'
  BY <1>8 DEF CfgFault, LoseCfg, CfgModeFail, Pc, Between
<1>9. ASSUME NEW j \in AllJobs, AddJob(j) \/ AddShutdown(j) PROVE ModeTypeOK'
  BY <1>9 DEF AddJob, AddShutdown, Enqueue, Unfinished
<1>10. ASSUME NEW j \in AllJobs, AdmitShutdown(j) \/ ModeRunJob(j) \/ EndJob(j) \/ ModeDelJob(j)
       PROVE  ModeTypeOK'
  BY <1>10 DEF AdmitShutdown, ModeRunJob, EndJob, ModeDelJob, Unfinished
<1>11. CASE Restart
  BY <1>11 DEF Restart, Stopped, Pc, Between, Cfg, HostModes
<1>12. CASE UNCHANGED modeVars
  BY <1>12 DEF modeVars
<1>13. QED
  BY <1>1, <1>2, <1>3, <1>4, <1>5, <1>6, <1>7, <1>8, <1>9, <1>10, <1>11, <1>12
     DEF ModeNext, Call

-----------------------------------------------------------------------------
(* global.cfg.  As long as nothing has torn it, one call writes at a time,  *)
(* it has read the ports, and what it truncated is what it will write.      *)

CfgInv ==
    \/ torn
    \/ /\ \A c, d \in Callers : Writing(c) /\ Writing(d) => c = d
       /\ \A c \in Callers : Writing(c) => ports[c]
       /\ \A c \in Callers : pc[c] = "write" => cfg.form = "empty"
       /\ (\A c \in Callers : pc[c] # "write") => cfg.form = "whole"

LEMMA CfgStep ==
    ASSUME ModeTypeOK, CfgInv, [ModeNext]_modeVars
    PROVE  CfgInv'
<1> USE DEF ModeTypeOK, Goto, At, Writing
<1>1. ASSUME NEW c \in Callers, pc[c] \notin {"read", "open", "write"},
             pc'[c] \notin {"open", "write"},
             \A d \in Callers \ {c} : pc'[d] = pc[d],
             UNCHANGED <<cfg, ports, torn>>
      PROVE  CfgInv'
  BY <1>1 DEF CfgInv
<1>2. ASSUME NEW c \in Callers, NEW m \in HostModes, StartSetHostMode(c, m) PROVE CfgInv'
  BY <1>1, <1>2 DEF StartSetHostMode, Between
<1>3. ASSUME NEW c \in Callers, SysPreCheck(c) \/ CheckJobs(c) \/ SetSysHostMode(c)
      PROVE  CfgInv'
  BY <1>1, <1>3 DEF SysPreCheck, CheckJobs, SetSysHostMode, Applied
<1>4. ASSUME NEW c \in Callers, ReadCfg(c) PROVE CfgInv'
  <2> SUFFICES ASSUME ~torn' PROVE CfgInv'
    BY DEF CfgInv
  <2>1. /\ ~torn /\ \A d \in Callers : pc[d] \notin {"open", "write"}
        /\ pc[c] = "read"
        /\ \A d \in Callers \ {c} : pc'[d] = pc[d] /\ ports'[d] = ports[d]
        /\ cfg' = cfg /\ ports'[c] = (cfg.form = "whole")
    BY <1>4 DEF ReadCfg, CfgModeFail
  <2>2. cfg.form = "whole" /\ pc'[c] = "open"
    BY <1>4, <2>1 DEF CfgInv, ReadCfg
  <2>3. \A d \in Callers : pc'[d] \in {"open", "write"} => d = c
    BY <2>1
  <2> QED
    BY <2>1, <2>2, <2>3 DEF CfgInv
<1>5. ASSUME NEW c \in Callers, OpenCfg(c) PROVE CfgInv'
  BY <1>5 DEF OpenCfg, CfgInv, Cfg
<1>6. ASSUME NEW c \in Callers, WriteCfg(c) PROVE CfgInv'
  <2> SUFFICES ASSUME ~torn PROVE CfgInv'
    BY <1>6 DEF WriteCfg, CfgInv
  <2>1. /\ pc[c] = "write" /\ pc' = [pc EXCEPT ![c] = "accepted"]
        /\ cfg.form = "empty" /\ ports[c] /\ ports' = ports
        /\ \A d \in Callers \ {c} : pc[d] \notin {"open", "write"}
    BY <1>6 DEF WriteCfg, CfgInv
  <2>2. cfg'.form = "whole"
    BY <1>6, <2>1 DEF WriteCfg, Overwrite
  <2> QED
    BY <2>1, <2>2 DEF CfgInv
<1>7. ASSUME NEW c \in Callers, CfgFault(c) \/ LoseCfg(c) PROVE CfgInv'
  BY <1>7 DEF CfgFault, LoseCfg, CfgModeFail, CfgInv
<1>8. ASSUME UNCHANGED <<pc, cfg, ports, torn>> PROVE CfgInv'
  BY <1>8 DEF CfgInv
<1>9. CASE \/ UNCHANGED modeVars
           \/ \E j \in AllJobs : \/ AddJob(j) \/ AdmitShutdown(j) \/ AddShutdown(j)
                                 \/ ModeRunJob(j) \/ EndJob(j) \/ ModeDelJob(j)
  BY <1>8, <1>9 DEF modeVars, AddJob, AdmitShutdown, AddShutdown, ModeRunJob, EndJob, ModeDelJob, Enqueue
<1>10. CASE Restart
  BY <1>10 DEF Restart, Stopped, CfgInv
<1>11. QED
  BY <1>2, <1>3, <1>4, <1>5, <1>6, <1>7, <1>9, <1>10 DEF ModeNext, Call

-----------------------------------------------------------------------------
(* Maintenance                                                             *)

LEMMA CheckStep ==
    ASSUME ModeTypeOK, MaintenanceIsChecked, [ModeNext]_modeVars
    PROVE  MaintenanceIsChecked'
<1> USE DEF ModeTypeOK, Goto, At, MaintenanceIsChecked
<1>1. ASSUME NEW c \in Callers, NEW m \in HostModes, StartSetHostMode(c, m)
      PROVE  MaintenanceIsChecked'
  BY <1>1 DEF StartSetHostMode
<1>2. ASSUME NEW c \in Callers, SysPreCheck(c) PROVE MaintenanceIsChecked'
  BY <1>2 DEF SysPreCheck, Applied
<1>3. ASSUME NEW c \in Callers, CheckJobs(c) PROVE MaintenanceIsChecked'
  BY <1>3 DEF CheckJobs
<1>4. ASSUME NEW c \in Callers, SetSysHostMode(c) PROVE MaintenanceIsChecked'
  BY <1>4 DEF SetSysHostMode, Applied
<1>5. ASSUME NEW c \in Callers, ReadCfg(c) \/ OpenCfg(c) \/ WriteCfg(c) \/ CfgFault(c) \/ LoseCfg(c)
      PROVE  MaintenanceIsChecked'
  BY <1>5 DEF ReadCfg, OpenCfg, WriteCfg, CfgFault, LoseCfg, CfgModeFail
<1>6. ASSUME NEW j \in AllJobs, AddJob(j) \/ AddShutdown(j) PROVE MaintenanceIsChecked'
  BY <1>6 DEF AddJob, AddShutdown, Enqueue
<1>7. ASSUME NEW j \in AllJobs, AdmitShutdown(j) \/ ModeRunJob(j) \/ EndJob(j) \/ ModeDelJob(j)
      PROVE  MaintenanceIsChecked'
  BY <1>7 DEF AdmitShutdown, ModeRunJob, EndJob, ModeDelJob
<1>8. CASE Restart
  BY <1>8 DEF Restart, Stopped
<1>9. CASE UNCHANGED modeVars
  BY <1>9 DEF modeVars
<1>10. QED
  BY <1>1, <1>2, <1>3, <1>4, <1>5, <1>6, <1>7, <1>8, <1>9 DEF ModeNext, Call

-----------------------------------------------------------------------------
(* The answers of a call that no other has overlapped.                     *)

Swapped(m, n) == \/ m = "NORMAL" /\ n = "MAINTENANCE"
                 \/ m = "MAINTENANCE" /\ n = "NORMAL"

\* Where such a call is, what it has done to the mode and to the file, and what it
\* is about to do: apply the mode wanted or, after a failure, the old one.
Progress(c) ==
    /\ old[c] # want[c]
    /\ goal[c] \in {old[c], want[c]}
    /\ mode = old[c] \/ (mode = want[c] /\ Swapped(old[c], want[c]))
    /\ pc[c] \in {"precheck", "jobs", "set"} /\ ~Undoing(c) => mode = old[c]
    /\ pc[c] \in {"jobs", "set"} => Swapped(mode, goal[c])
    /\ pc[c] = "jobs" => goal[c] = "MAINTENANCE"
    /\ pc[c] \in {"read", "open", "write"} =>
          ~Undoing(c) /\ (mode = want[c] \/ "UNKNOWN" \in {mode, want[c]})
    /\ pc[c] = "write" => cfg.form = "empty"

AloneInv ==
    \A c \in alone :
        /\ \A d \in Callers \ {c} : pc[d] \in Between
        /\ pc[c] \notin Between => Progress(c)

ModeIInv == ModeTypeOK /\ CfgInv /\ MaintenanceIsChecked /\ AloneInv /\ AnswersAreTrue

\* The two claims about one call.
Answer(c) ==
    /\ pc[c] = "accepted" /\ old[c] # want[c] =>
        /\ mode = want[c] \/ "UNKNOWN" \in {mode, want[c]}
        /\ cfg.form = "whole" \/ torn
        /\ cfg.mode = want[c] \/ cfg.form = "empty"
    /\ pc[c] = "refused" =>
        \/ mode = old[c]
        \/ old[c] = "MAINTENANCE" /\ mode = "NORMAL" /\ Undoing(c)

\* A call moves on: if any call is alone it is this one.
LEMMA MoverIsAlone ==
    ASSUME AloneInv, NEW c \in Callers, pc[c] \notin Between
    PROVE  \A d \in alone : d = c /\ Progress(c)
  BY DEF AloneInv

\* So it is enough to look at the call that moved.
LEMMA MoverKeepsAnswers ==
    ASSUME ModeTypeOK, AloneInv, NEW c \in Callers, pc[c] \notin Between,
           alone' = alone, \A d \in Callers \ {c} : pc'[d] = pc[d],
           Progress(c) => IF pc'[c] \in Between THEN Answer(c)' ELSE Progress(c)'
    PROVE  AloneInv' /\ AnswersAreTrue'
<1>1. \A d \in alone : d = c /\ Progress(c)
  BY MoverIsAlone
<1>2. \A d \in alone : pc'[d] \notin Between => Progress(d)'
  BY <1>1
<1>3. \A d \in alone : \A e \in Callers \ {d} : pc'[e] \in Between
  BY <1>1 DEF AloneInv
<1>4. \A d \in alone : Answer(d)'
  BY <1>1 DEF Answer, Between
<1>5. AnswersAreTrue' <=> \A d \in alone' : Answer(d)'
  BY DEF AnswersAreTrue, AcceptedIsDone, RefusedIsUndone, Answer
<1>6. QED
  BY <1>2, <1>3, <1>4, <1>5 DEF AloneInv

LEMMA AloneStep ==
    ASSUME ModeTypeOK, CfgInv, AloneInv, AnswersAreTrue, [ModeNext]_modeVars
    PROVE  AloneInv' /\ AnswersAreTrue'
<1> USE DEF ModeTypeOK, Goto, At
<1>1. ASSUME NEW c \in Callers, NEW m \in HostModes, StartSetHostMode(c, m)
      PROVE  AloneInv' /\ AnswersAreTrue'
  <2>1. /\ old'[c] = mode /\ want'[c] = m /\ goal'[c] = m /\ mode' = mode /\ cfg' = cfg
        /\ pc'[c] = IF mode = m THEN "accepted" ELSE "precheck"
        /\ \A d \in Callers \ {c} : pc'[d] = pc[d]
        /\ alone' = {} \/ (alone' = {c} /\ \A d \in Callers \ {c} : pc[d] \in Between)
    BY <1>1 DEF StartSetHostMode
  <2>2. AloneInv'
    <3>1. pc'[c] \notin Between => Progress(c)'
      BY <2>1 DEF Progress, Undoing, Between
    <3>2. \A d \in alone' : d = c /\ \A e \in Callers \ {d} : pc'[e] \in Between
      BY <2>1
    <3>3. QED
      BY <3>1, <3>2 DEF AloneInv
  <2>3. \A d \in alone' : Answer(d)'
    BY <2>1 DEF Answer
  <2>4. AnswersAreTrue' <=> \A d \in alone' : Answer(d)'
    BY DEF AnswersAreTrue, AcceptedIsDone, RefusedIsUndone, Answer
  <2>5. QED
    BY <2>2, <2>3, <2>4
<1>2. ASSUME NEW c \in Callers, SysPreCheck(c) PROVE AloneInv' /\ AnswersAreTrue'
  <2>1. /\ pc[c] = "precheck"
        /\ UNCHANGED <<mode, cfg, want, old, goal, alone>>
        /\ \A d \in Callers \ {c} : pc'[d] = pc[d]
    BY <1>2 DEF SysPreCheck, Applied
  <2>2. pc'[c] = CASE mode = "NORMAL" /\ goal[c] = "MAINTENANCE" -> "jobs"
                   [] mode = "MAINTENANCE" /\ goal[c] = "NORMAL" -> "set"
                   [] OTHER -> IF Undoing(c) THEN "refused" ELSE "read"
    BY <1>2 DEF SysPreCheck, Applied
  <2>3. Progress(c) => IF pc'[c] \in Between THEN Answer(c)' ELSE Progress(c)'
    <3> SUFFICES ASSUME Progress(c)
                 PROVE  IF pc'[c] \in Between THEN Answer(c)' ELSE Progress(c)'
      OBVIOUS
    <3> USE <2>1 DEF Progress, Answer, Undoing, Between, Swapped
    <3>1. CASE Swapped(mode, goal[c])
      <4>1. pc'[c] \in {"jobs", "set"}
        BY <2>2, <3>1
      <4>2. pc'[c] = "jobs" => goal[c] = "MAINTENANCE"
        BY <2>2
      <4>3. QED
        BY <3>1, <4>1, <4>2
    <3>2. CASE ~Swapped(mode, goal[c]) /\ Undoing(c)
      <4>1. pc'[c] = "refused"
        BY <2>2, <3>2
      <4>2. QED
        BY <3>2, <4>1
    <3>3. CASE ~Swapped(mode, goal[c]) /\ ~Undoing(c)
      <4>1. pc'[c] = "read" /\ mode = old[c] /\ mode \in HostModes /\ goal[c] \in HostModes
        BY <2>2, <3>3
      <4>2. "UNKNOWN" \in {mode, want[c]}
        BY <3>3, <4>1 DEF HostModes
      <4>3. QED
        BY <3>3, <4>1, <4>2
    <3>4. QED
      BY <3>1, <3>2, <3>3
  <2>4. QED
    BY <2>1, <2>3, MoverKeepsAnswers DEF Between
<1>3. ASSUME NEW c \in Callers, CheckJobs(c) PROVE AloneInv' /\ AnswersAreTrue'
  <2>1. /\ pc[c] = "jobs" /\ pc'[c] \in {"set", "refused"}
        /\ UNCHANGED <<mode, cfg, want, old, goal, alone>>
        /\ \A d \in Callers \ {c} : pc'[d] = pc[d]
    BY <1>3 DEF CheckJobs
  <2>2. Progress(c) => IF pc'[c] \in Between THEN Answer(c)' ELSE Progress(c)'
    BY <2>1 DEF Progress, Answer, Undoing, Between, Swapped
  <2>3. QED
    BY <2>1, <2>2, MoverKeepsAnswers DEF Between
<1>4. ASSUME NEW c \in Callers, SetSysHostMode(c) PROVE AloneInv' /\ AnswersAreTrue'
  <2>1. /\ pc[c] = "set" /\ pc'[c] = IF Undoing(c) THEN "refused" ELSE "read"
        /\ mode' = goal[c]
        /\ UNCHANGED <<cfg, want, old, goal, alone>>
        /\ \A d \in Callers \ {c} : pc'[d] = pc[d]
    BY <1>4 DEF SetSysHostMode, Applied
  <2>2. Progress(c) => IF pc'[c] \in Between THEN Answer(c)' ELSE Progress(c)'
    BY <2>1 DEF Progress, Answer, Undoing, Between, Swapped
  <2>3. QED
    BY <2>1, <2>2, MoverKeepsAnswers DEF Between
<1>5. ASSUME NEW c \in Callers, ReadCfg(c) \/ CfgFault(c) PROVE AloneInv' /\ AnswersAreTrue'
  <2>1. /\ pc[c] \in {"read", "open"}
        /\ \/ pc'[c] = "open" /\ goal' = goal
           \/ pc'[c] = "precheck" /\ goal'[c] = old[c]
        /\ UNCHANGED <<mode, cfg, want, old, alone>>
        /\ \A d \in Callers \ {c} : pc'[d] = pc[d]
    BY <1>5 DEF ReadCfg, CfgFault, CfgModeFail
  <2>2. Progress(c) => IF pc'[c] \in Between THEN Answer(c)' ELSE Progress(c)'
    BY <2>1 DEF Progress, Answer, Undoing, Between
  <2>3. QED
    BY <2>1, <2>2, MoverKeepsAnswers DEF Between
<1>6. ASSUME NEW c \in Callers, OpenCfg(c) PROVE AloneInv' /\ AnswersAreTrue'
  <2>1. /\ pc[c] = "open" /\ pc'[c] = "write" /\ cfg'.form = "empty"
        /\ UNCHANGED <<mode, want, old, goal, alone>>
        /\ \A d \in Callers \ {c} : pc'[d] = pc[d]
    BY <1>6 DEF OpenCfg, Cfg
  <2>2. Progress(c) => IF pc'[c] \in Between THEN Answer(c)' ELSE Progress(c)'
    BY <2>1 DEF Progress, Answer, Undoing, Between
  <2>3. QED
    BY <2>1, <2>2, MoverKeepsAnswers DEF Between
<1>7. ASSUME NEW c \in Callers, WriteCfg(c) PROVE AloneInv' /\ AnswersAreTrue'
  <2>1. /\ pc[c] = "write" /\ pc'[c] = "accepted"
        /\ UNCHANGED <<mode, want, old, goal, alone, torn>>
        /\ \A d \in Callers \ {c} : pc'[d] = pc[d]
    BY <1>7 DEF WriteCfg
  <2>2. cfg.form = "empty" =>
          cfg' = [mode |-> want[c], form |-> IF ports[c] THEN "whole" ELSE "modeOnly"]
    BY <1>7 DEF WriteCfg, Overwrite
  <2>3. torn \/ ports[c]
    BY <2>1 DEF CfgInv, Writing
  <2>4. Progress(c) => Answer(c)'
    BY <2>1, <2>2, <2>3 DEF Progress, Answer
  <2>5. QED
    BY <2>1, <2>4, MoverKeepsAnswers DEF Between
<1>8. ASSUME UNCHANGED <<mode, cfg, callVars, alone, torn>> PROVE AloneInv' /\ AnswersAreTrue'
  BY <1>8 DEF AloneInv, Progress, Undoing, AnswersAreTrue, AcceptedIsDone, RefusedIsUndone
<1>9. CASE \/ UNCHANGED modeVars
           \/ \E j \in AllJobs : \/ AddJob(j) \/ AdmitShutdown(j) \/ AddShutdown(j)
                                 \/ ModeRunJob(j) \/ EndJob(j) \/ ModeDelJob(j)
  BY <1>8, <1>9 DEF modeVars, AddJob, AdmitShutdown, AddShutdown, ModeRunJob, EndJob, ModeDelJob, Enqueue
<1>10. CASE Restart
  BY <1>10 DEF Restart, Stopped, AloneInv, AnswersAreTrue, AcceptedIsDone, RefusedIsUndone
<1>11. ASSUME NEW c \in Callers, LoseCfg(c) PROVE AloneInv' /\ AnswersAreTrue'
  <2>1. /\ pc[c] = "write" /\ pc'[c] = "accepted" /\ torn'
        /\ UNCHANGED <<mode, cfg, want, old, goal, alone>>
        /\ \A d \in Callers \ {c} : pc'[d] = pc[d]
    BY <1>11 DEF LoseCfg
  <2>2. Progress(c) => Answer(c)'
    BY <2>1 DEF Progress, Answer
  <2>3. QED
    BY <2>1, <2>2, MoverKeepsAnswers DEF Between
<1>12. QED
  BY <1>1, <1>2, <1>3, <1>4, <1>5, <1>6, <1>7, <1>9, <1>10, <1>11 DEF ModeNext, Call

-----------------------------------------------------------------------------
LEMMA ModeInductiveInvariant == ModeSpec => []ModeIInv
<1>1. ModeInit => ModeIInv
  <2> SUFFICES ASSUME ModeInit PROVE ModeIInv
    OBVIOUS
  <2>1. ModeTypeOK
    BY DEF ModeInit, ModeTypeOK, Cfg, Pc, Between, HostModes
  <2>2. CfgInv
    BY DEF ModeInit, CfgInv, Writing
  <2>3. QED
    BY <2>1, <2>2 DEF ModeInit, ModeIInv, MaintenanceIsChecked, AloneInv, AnswersAreTrue,
                      AcceptedIsDone, RefusedIsUndone
<1>2. ModeIInv /\ [ModeNext]_modeVars => ModeIInv'
  BY TypeStep, CfgStep, CheckStep, AloneStep DEF ModeIInv
<1>3. QED
  BY <1>1, <1>2, PTL DEF ModeSpec

\* For any number of calls, jobs, failures and restarts, global.cfg loses its
\* ports only by a write that was cut short or overlapped (BaseConfig.Set).
THEOREM ConfigLossExplained == ModeSpec => []ModeConsistent
<1>1. ModeIInv => ModeConsistent
  BY DEF ModeIInv, CfgInv, ModeConsistent, ConfigLossHasCause
<1>2. QED
  BY <1>1, ModeInductiveInvariant, PTL

\* No call puts the host into maintenance past a job that was in the cache when
\* that very call looked (is_own_jobs, _SysPreCheckAndSetMode).
THEOREM MaintenanceChecked == ModeSpec => []MaintenanceIsChecked
<1>1. ModeIInv => MaintenanceIsChecked
  BY DEF ModeIInv
<1>2. QED
  BY <1>1, ModeInductiveInvariant, PTL

\* A call that no other has overlapped did both its writes if it was accepted, or
\* left an empty global.cfg on a full disk, and left the mode as it was if it was
\* refused, but for a rollback to maintenance that a job stopped
\* (PreCheckAndSetHostMode).
THEOREM AnswersTrue == ModeSpec => []AnswersAreTrue
<1>1. ModeIInv => AnswersAreTrue
  BY DEF ModeIInv
<1>2. QED
  BY <1>1, ModeInductiveInvariant, PTL
=============================================================================
