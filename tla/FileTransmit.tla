---------------------------- MODULE FileTransmit ----------------------------
(***************************************************************************)
(* File transmission between two sysagents (driver.py).  A transmit job on *)
(* the source host asks the sysagent of the destination host, over gRPC,   *)
(* for a file server; that takes a port from a table and queues a server   *)
(* job; the transmit job polls the server job until it reads PROCESSING,   *)
(* runs the netcopy client in its own thread, polls until the server job   *)
(* has finished, and deletes it.                                           *)
(*                                                                         *)
(* Both kinds of job run on the same few threads of their host's job       *)
(* worker, so a transmit job holds a thread of one host while it waits for *)
(* a thread of the other.  Polls that find nothing new are stuttering      *)
(* steps.  The copy itself is what FileCopy promises of it.                *)
(***************************************************************************)
EXTENDS Naturals, Sequences, FiniteSets

CONSTANTS Transmits,    \* calls of FileTransmit
          Hosts,
          AllPorts,     \* port numbers
          Setups,       \* who transmits where, and how the hosts are configured
          NoPort

ASSUME FileTransmitAssumption ==
    /\ AllPorts \subseteq Nat
    /\ Setups \subseteq
         [src : [Transmits -> Hosts],  \* the host a transmit job runs on
          dst : [Transmits -> Hosts],  \* its grpc_ip
          ports : SUBSET AllPorts,     \* the file server ports of every host
          slots : Nat \ {0},           \* threads free of endless jobs
          restarts : Nat,              \* bound on restarts of agents
          faults : BOOLEAN]            \* whether requests may be lost, copies may
                                       \* fail and other programs may hold ports
    /\ NoPort \notin AllPorts

VARIABLES
    setup,     \* the setup of this behaviour
    payload,   \* the source file: "missing", "empty" or "data"
    dir,       \* whether the directory of the destination exists
    tPc,       \* where the transmit job is
    tOk,       \* whether nothing has failed in it so far
    sent,      \* whether its netcopy client has sent END
    sPc,       \* where its server job is
    sStatus,   \* Jobs.__job_status of the server job
    sAdd,      \* the add_job call of the server job: put, then returned
    cached,    \* whether the server job is in the job cache of its host
    port,      \* the port of the server
    busy,      \* _FILE_SERVER_PORT_DIC: the ports in use, for each host
    queue,     \* __job_q of each host
    landed,    \* the destination file: "none", "partial" or "whole"
    restarts   \* number of restarts so far

tVars == <<tPc, tOk, sent>>
sVars == <<sPc, sStatus, sAdd, cached, port>>
vars  == <<setup, payload, dir, tVars, sVars, busy, queue, landed, restarts>>
world == <<setup, payload, dir, restarts>>

Src == setup.src
Dst == setup.dst
Ports == setup.ports
Slots == setup.slots
Faults == setup.faults

TPc == {"new", "queued", "call", "called", "waitReady", "connect", "client",
        "waitFinish", "delete", "stuck", "ended"}
SPc == {"none", "queued", "running", "listening", "accepted", "receiving",
        "leaving", "done", "unopened", "stuck", "gone"}
Finished == {"FINISHED_SUCCESSFULLY", "FINISHED_FAILED"}
JobStatus == {"CREATED", "SUBMITTED", "PROCESSING"} \cup Finished
JobRef == [kind : {"transmit", "server"}, of : Transmits]

TypeOK ==
    /\ setup \in Setups
    /\ payload \in [Transmits -> {"missing", "empty", "data"}]
    /\ dir \in [Transmits -> BOOLEAN]
    /\ tPc \in [Transmits -> TPc]
    /\ tOk \in [Transmits -> BOOLEAN]
    /\ sent \in [Transmits -> BOOLEAN]
    /\ sPc \in [Transmits -> SPc]
    /\ sStatus \in [Transmits -> JobStatus]
    /\ sAdd \in [Transmits -> {"none", "put", "returned"}]
    /\ cached \in [Transmits -> BOOLEAN]
    /\ port \in [Transmits -> Ports \cup {NoPort}]
    /\ busy \in [Hosts -> SUBSET Ports]
    /\ queue \in [Hosts -> Seq(JobRef)]
    /\ landed \in [Transmits -> {"none", "partial", "whole"}]
    /\ restarts \in 0..setup.restarts

Init ==
    /\ setup \in Setups
    /\ payload \in [Transmits -> {"missing", "empty", "data"}]
    /\ dir \in [Transmits -> BOOLEAN]
    /\ tPc = [t \in Transmits |-> "new"]
    /\ tOk = [t \in Transmits |-> TRUE]
    /\ sent = [t \in Transmits |-> FALSE]
    /\ sPc = [t \in Transmits |-> "none"]
    /\ sStatus = [t \in Transmits |-> "CREATED"]
    /\ sAdd = [t \in Transmits |-> "none"]
    /\ cached = [t \in Transmits |-> FALSE]
    /\ port = [t \in Transmits |-> NoPort]
    /\ busy = [h \in Hosts |-> {}]
    /\ queue = [h \in Hosts |-> <<>>]
    /\ landed = [t \in Transmits |-> "none"]
    /\ restarts = 0

-----------------------------------------------------------------------------
(* The pool of a host                                                      *)

TRunning == {"call", "called", "waitReady", "connect", "client", "waitFinish",
             "delete", "stuck"}
SRunning == {"running", "listening", "accepted", "receiving", "leaving", "stuck"}

\* Jobs that hold a thread of h.
Held(h) == {t \in Transmits : Src[t] = h /\ tPc[t] \in TRunning}
Serving(h) == {t \in Transmits : Dst[t] = h /\ sPc[t] \in SRunning}
PoolFull(h) == Cardinality(Held(h)) + Cardinality(Serving(h)) >= Slots

Goto(t, there) == tPc' = [tPc EXCEPT ![t] = there]
Fail(t, there) == Goto(t, there) /\ tOk' = [tOk EXCEPT ![t] = FALSE]

\* FileTransmit: StartTransmitFile queues the transmit job
StartTransmitFile(t) ==
    /\ tPc[t] = "new"
    /\ queue' = [queue EXCEPT ![Src[t]] = Append(@, [kind |-> "transmit", of |-> t])]
    /\ Goto(t, "queued")
    /\ UNCHANGED <<world, tOk, sent, sVars, busy, landed>>

\* __worker takes a transmit job
RunTransmit(h) ==
    /\ queue[h] # <<>>
    /\ Head(queue[h]).kind = "transmit"
    /\ ~PoolFull(h)
    /\ queue' = [queue EXCEPT ![h] = Tail(@)]
    /\ Goto(Head(queue[h]).of, "call")
    /\ UNCHANGED <<world, tOk, sent, sVars, busy, landed>>

\* __worker takes a server job; Jobs.run marks it PROCESSING before the socket
\* of the server exists
RunServer(h) ==
    /\ queue[h] # <<>>
    /\ Head(queue[h]).kind = "server"
    /\ ~PoolFull(h)
    /\ LET t == Head(queue[h]).of
       IN  /\ sPc' = [sPc EXCEPT ![t] = "running"]
           /\ sStatus' = [sStatus EXCEPT ![t] = "PROCESSING"]
    /\ queue' = [queue EXCEPT ![h] = Tail(@)]
    /\ UNCHANGED <<world, tVars, sAdd, cached, port, busy, landed>>

-----------------------------------------------------------------------------
(* StartRemoteFileServer: the call of the transmit job and the handler     *)

FreePorts(h) == Ports \ busy[h]

\* StartLocalFileServer: AcquirePort takes the first port of the table that is
\* free and that no other program holds; then add_job up to the put
StartFileServer(t) ==
    LET h == Dst[t]
    IN  /\ tPc[t] = "call"
        /\ \E p \in FreePorts(h) :
               /\ Faults \/ \A q \in FreePorts(h) : p <= q
               /\ busy' = [busy EXCEPT ![h] = @ \cup {p}]
               /\ port' = [port EXCEPT ![t] = p]
        /\ cached' = [cached EXCEPT ![t] = TRUE]
        /\ queue' = [queue EXCEPT ![h] = Append(@, [kind |-> "server", of |-> t])]
        /\ sPc' = [sPc EXCEPT ![t] = "queued"]
        /\ sAdd' = [sAdd EXCEPT ![t] = "put"]
        /\ Goto(t, "called")
        /\ UNCHANGED <<world, tOk, sent, sStatus, landed>>

\* NoAvailablePortException: SYS_FAIL, and the transmit job fails
NoAvailablePort(t) ==
    /\ tPc[t] = "call"
    /\ FreePorts(Dst[t]) = {} \/ Faults
    /\ Fail(t, "ended")
    /\ UNCHANGED <<world, sent, sVars, busy, queue, landed>>

\* the rest of add_job
MarkSubmitted(t) ==
    /\ sAdd[t] = "put"
    /\ sStatus' = [sStatus EXCEPT ![t] = "SUBMITTED"]
    /\ sAdd' = [sAdd EXCEPT ![t] = "returned"]
    /\ UNCHANGED <<world, tVars, sPc, cached, port, busy, queue, landed>>

\* the reply arrives
ServerStarted(t) ==
    /\ tPc[t] = "called"
    /\ sAdd[t] = "returned"
    /\ Goto(t, "waitReady")
    /\ UNCHANGED <<world, tOk, sent, sVars, busy, queue, landed>>

\* RpcError in StartRemoteFileServer, which is outside the try: nobody deletes
\* the server job, if there is one
CallLost(t) ==
    /\ \/ Faults /\ tPc[t] \in {"call", "called"}
       \/ tPc[t] = "called" /\ sPc[t] = "gone"
    /\ Fail(t, "ended")
    /\ UNCHANGED <<world, sent, sVars, busy, queue, landed>>

-----------------------------------------------------------------------------
(* The server job: RunLocalFileServer                                      *)

Serve(t, from, to) == sPc[t] = from /\ sPc' = [sPc EXCEPT ![t] = to]

\* GetServerTarget: bind, listen, and wait in accept
Listen(t) ==
    /\ Serve(t, "running", "listening")
    /\ UNCHANGED <<world, tVars, sStatus, sAdd, cached, port, busy, queue, landed>>

\* The job ends inside GetServerTarget: `remote_target` is unbound in the
\* finally clause, PutTarget raises, and the port is not given back.
NotOpened(t) ==
    /\ sStatus' = [sStatus EXCEPT ![t] = "FINISHED_FAILED"]
    /\ UNCHANGED <<world, tVars, sAdd, cached, port, busy, queue, landed>>

\* os.open of the destination raises: the directory does not exist
OpenFails(t) ==
    /\ ~dir[t]
    /\ tPc[t] = "client" /\ payload[t] # "missing"
    /\ Serve(t, "accepted", "unopened")
    /\ NotOpened(t)

\* bind raises: another program took the port after AcquirePort tried it
BindFails(t) ==
    /\ Serve(t, "running", "unopened")
    /\ NotOpened(t)

\* GetServerTarget returns, HEAD is answered and the file gets its size
OpenFile(t) ==
    /\ dir[t]
    /\ tPc[t] = "client" /\ payload[t] # "missing"
    /\ Serve(t, "accepted", "receiving")
    /\ landed' = [landed EXCEPT ![t] = "partial"]
    /\ UNCHANGED <<world, tVars, sStatus, sAdd, cached, port, busy, queue>>

ReleaseFileserverPort(t) == busy' = [busy EXCEPT ![Dst[t]] = @ \ {port[t]}]

\* END: NetCopyEOF, then the finally clause
ReceiveAll(t) ==
    /\ payload[t] = "data"
    /\ sent[t]
    /\ Serve(t, "receiving", "leaving")
    /\ landed' = [landed EXCEPT ![t] = "whole"]
    /\ ReleaseFileserverPort(t)
    /\ UNCHANGED <<world, tVars, sStatus, sAdd, cached, port, queue>>

\* The client of t is no longer there, and has not sent END.
ClientGone(t) == tPc[t] \notin {"client", "stuck"} /\ ~sent[t]

\* The loop raises: a division by the size of an empty file, the connection is
\* reset, or the file system fails.  A put removes its file.
ReceiveFails(t) ==
    /\ payload[t] = "empty" \/ ClientGone(t) \/ Faults
    /\ Serve(t, "receiving", "leaving")
    /\ landed' = [landed EXCEPT ![t] = "none"]
    /\ ReleaseFileserverPort(t)
    /\ UNCHANGED <<world, tVars, sStatus, sAdd, cached, port, queue>>

\* The client closed the connection: RecvAllData loops for ever.
ServerSpins(t) ==
    /\ ClientGone(t)
    /\ \/ Serve(t, "accepted", "stuck")
       \/ Serve(t, "receiving", "stuck")
    /\ UNCHANGED <<world, tVars, sStatus, sAdd, cached, port, busy, queue, landed>>

\* Mutant: the port is given back a second time.
EndServerJobReleasing(t) ==
    /\ Serve(t, "leaving", "done")
    /\ sStatus' = [sStatus EXCEPT ![t] = IF landed[t] = "whole"
                                        THEN "FINISHED_SUCCESSFULLY"
                                        ELSE "FINISHED_FAILED"]
    /\ ReleaseFileserverPort(t)
    /\ UNCHANGED <<world, tVars, sAdd, cached, port, queue, landed>>

\* __worker, after the function of the job
EndServerJob(t) ==
    /\ Serve(t, "leaving", "done")
    /\ sStatus' = [sStatus EXCEPT ![t] = IF landed[t] = "whole"
                                        THEN "FINISHED_SUCCESSFULLY"
                                        ELSE "FINISHED_FAILED"]
    /\ UNCHANGED <<world, tVars, sAdd, cached, port, busy, queue, landed>>

-----------------------------------------------------------------------------
(* The transmit job from WaitRemoteServerReady on                          *)

\* WaitRemoteServerReady: PROCESSING, and nothing else, ends the wait
ServerReady(t) ==
    /\ tPc[t] = "waitReady"
    /\ cached[t]
    /\ sStatus[t] = "PROCESSING"
    /\ Goto(t, "connect")
    /\ UNCHANGED <<world, tOk, sent, sVars, busy, queue, landed>>

\* GetClientTarget connects
Connect(t) ==
    /\ tPc[t] = "connect"
    /\ Serve(t, "listening", "accepted")
    /\ Goto(t, "client")
    /\ UNCHANGED <<world, tOk, sent, sStatus, sAdd, cached, port, busy, queue, landed>>

\* nobody listens on the port, yet or any more
ConnectionRefused(t) ==
    /\ tPc[t] = "connect"
    /\ sPc[t] # "listening"
    /\ Fail(t, "delete")
    /\ UNCHANGED <<world, sent, sVars, busy, queue, landed>>

\* ClientRun ends with END sent; a server that fails after it has answered
\* HEAD, or restarts, may leave the client unaware
SendAll(t) ==
    /\ tPc[t] = "client"
    /\ payload[t] # "missing"
    /\ sPc[t] \in {"receiving", "leaving", "done", "gone"}
    /\ sent' = [sent EXCEPT ![t] = TRUE]
    /\ Goto(t, "waitFinish")
    /\ UNCHANGED <<world, tOk, sVars, busy, queue, landed>>

\* the source cannot be opened or read, or the connection is reset
ClientFails(t) ==
    /\ tPc[t] = "client"
    /\ \/ payload[t] = "missing"
       \/ sPc[t] \in {"unopened", "leaving", "done", "gone"}
       \/ Faults
    /\ Fail(t, "delete")
    /\ UNCHANGED <<world, sent, sVars, busy, queue, landed>>

\* the agent of the server dies between HEAD and its answer, and the client
\* reads a closed connection for ever
ClientSpins(t) ==
    /\ tPc[t] = "client"
    /\ sPc[t] = "gone"
    /\ Goto(t, "stuck")
    /\ UNCHANGED <<world, tOk, sent, sVars, busy, queue, landed>>

\* Mutant: a finished server job is taken for a successful one.
ServerFinishedAnyhow(t) ==
    /\ tPc[t] = "waitFinish"
    /\ cached[t]
    /\ sStatus[t] \in Finished
    /\ Goto(t, "delete")
    /\ UNCHANGED <<world, tOk, sent, sVars, busy, queue, landed>>

\* Mutant: only success ends the wait.
ServerFinishedWell(t) ==
    /\ tPc[t] = "waitFinish"
    /\ cached[t]
    /\ sStatus[t] = "FINISHED_SUCCESSFULLY"
    /\ Goto(t, "delete")
    /\ UNCHANGED <<world, tOk, sent, sVars, busy, queue, landed>>

\* WaitRemoteJobFinish
ServerFinished(t) ==
    /\ tPc[t] = "waitFinish"
    /\ cached[t]
    /\ sStatus[t] \in Finished
    /\ Goto(t, "delete")
    /\ tOk' = [tOk EXCEPT ![t] = sStatus[t] = "FINISHED_SUCCESSFULLY"]
    /\ UNCHANGED <<world, sent, sVars, busy, queue, landed>>

\* Mutant: a job that is not found is asked for again.
QueryFailsOnError(t) ==
    /\ Faults
    /\ tPc[t] \in {"waitReady", "waitFinish"}
    /\ Fail(t, "delete")
    /\ UNCHANGED <<world, sent, sVars, busy, queue, landed>>

\* QueryRemoteJob raises: the job is not known there, or the call failed
QueryFails(t) ==
    /\ tPc[t] \in {"waitReady", "waitFinish"}
    /\ ~cached[t] \/ Faults
    /\ Fail(t, "delete")
    /\ UNCHANGED <<world, sent, sVars, busy, queue, landed>>

\* DeleteRemoteJob in the finally clause
DeleteServerJob(t) ==
    /\ tPc[t] = "delete"
    /\ cached[t]
    /\ cached' = [cached EXCEPT ![t] = FALSE]
    /\ Goto(t, "ended")
    /\ UNCHANGED <<world, tOk, sent, sPc, sStatus, sAdd, port, busy, queue, landed>>

\* it raises, and with it the transmit job fails
DeleteFails(t) ==
    /\ tPc[t] = "delete"
    /\ ~cached[t] \/ Faults
    /\ Fail(t, "ended")
    /\ UNCHANGED <<world, sent, sVars, busy, queue, landed>>

-----------------------------------------------------------------------------
\* sysagentd of h is restarted: queue, job cache, port table and threads are
\* new.  A put in progress leaves its file as it is.
Restart(h) ==
    /\ restarts < setup.restarts
    /\ restarts' = restarts + 1
    /\ LET lost   == {t \in Transmits : Src[t] = h /\ tPc[t] \notin {"new", "ended"}}
           served == {t \in Transmits : Dst[t] = h /\ sPc[t] # "none"}
       IN  /\ tPc' = [t \in Transmits |-> IF t \in lost THEN "ended" ELSE tPc[t]]
           /\ tOk' = [t \in Transmits |-> tOk[t] /\ t \notin lost]
           /\ sPc' = [t \in Transmits |-> IF t \in served THEN "gone" ELSE sPc[t]]
           /\ sAdd' = [t \in Transmits |-> IF t \in served THEN "none" ELSE sAdd[t]]
           /\ cached' = [t \in Transmits |-> cached[t] /\ t \notin served]
    /\ busy' = [busy EXCEPT ![h] = {}]
    /\ queue' = [queue EXCEPT ![h] = <<>>]
    /\ UNCHANGED <<setup, payload, dir, sent, sStatus, port, landed>>

-----------------------------------------------------------------------------
HandlerStep(t) == StartFileServer(t) \/ NoAvailablePort(t) \/ MarkSubmitted(t)
ServerStep(t) == \/ Listen(t) \/ OpenFails(t) \/ OpenFile(t) \/ ReceiveAll(t)
                 \/ ReceiveFails(t) \/ ServerSpins(t) \/ EndServerJob(t)
TransmitStep(t) == \/ ServerStarted(t) \/ CallLost(t) \/ ServerReady(t) \/ Connect(t)
                   \/ ConnectionRefused(t) \/ SendAll(t) \/ ClientFails(t)
                   \/ ClientSpins(t) \/ ServerFinished(t) \/ QueryFails(t)
                   \/ DeleteServerJob(t) \/ DeleteFails(t)
PoolStep(h) == RunTransmit(h) \/ RunServer(h)

Step == \/ \E t \in Transmits : HandlerStep(t) \/ ServerStep(t) \/ TransmitStep(t)
        \/ \E h \in Hosts : PoolStep(h)

Next ==
    \/ Step
    \/ \E t \in Transmits : StartTransmitFile(t) \/ BindFails(t)
    \/ \E h \in Hosts : Restart(h)

Spec == Init /\ [][Next]_vars

\* Threads and handlers that can run do run.  It is no promise of faults.
FairSpec ==
    /\ Spec
    /\ \A t \in Transmits : /\ WF_vars(HandlerStep(t)) /\ WF_vars(ServerStep(t))
                             /\ WF_vars(TransmitStep(t)) /\ WF_vars(StartTransmitFile(t))
    /\ \A h \in Hosts : WF_vars(PoolStep(h))

-----------------------------------------------------------------------------
(* Properties                                                              *)

Live(t) == sPc[t] \in (SRunning \ {"leaving"}) \cup {"queued"}

\* AcquirePort never gives a port out twice: the servers of a host that are
\* queued or running have ports of their own, all marked as in use.
OnePortOneServer ==
    \A t \in Transmits : Live(t) =>
        /\ port[t] \in busy[Dst[t]]
        /\ \A u \in Transmits :
               Live(u) /\ Dst[u] = Dst[t] /\ port[u] = port[t] => u = t

\* A port in use without a server leaked in one way only: its server failed
\* inside GetServerTarget.
PortsLeakOnlyUnopened ==
    \A h \in Hosts : \A p \in busy[h] :
        \E t \in Transmits : /\ Dst[t] = h /\ port[t] = p
                             /\ Live(t) \/ sPc[t] = "unopened"

\* A transmit job that reports success has delivered the file, and has left
\* nothing behind on the other host: no server, no job, no thread in use.
SuccessDelivers ==
    \A t \in Transmits : tPc[t] = "ended" /\ tOk[t] =>
        /\ landed[t] = "whole"
        /\ sPc[t] \in {"done", "gone"}
        /\ ~cached[t]

\* Half a file is never left behind by a server that has ended, except by the
\* restart of its agent.
NoHalfFiles ==
    \A t \in Transmits :
        landed[t] = "partial" => sPc[t] \in {"receiving", "stuck", "gone"}

\* Without faults every transmit job ends, or waits for ever for one of five
\* reasons: its own or its server's turn in a pool that stays full, a server that
\* listens but reads SUBMITTED, a server that failed before PROCESSING was read,
\* or an agent that died in mid-transfer.
Hangs(t) ==
    \/ tPc[t] = "queued" /\ PoolFull(Src[t])
    \/ tPc[t] = "waitReady" /\ sPc[t] = "queued" /\ PoolFull(Dst[t])
    \/ tPc[t] = "waitReady" /\ sPc[t] = "listening" /\ sStatus[t] = "SUBMITTED"
    \/ tPc[t] = "waitReady" /\ sPc[t] = "unopened"
    \/ tPc[t] = "stuck" /\ sPc[t] = "gone"
TransmitsEndOrHang ==
    ~Faults => <>[](\A t \in Transmits : tPc[t] = "ended" \/ Hangs(t))

\* The port table and the servers agree (AcquirePort, ReleaseFileserverPort).
Consistent == TypeOK /\ OnePortOneServer /\ PortsLeakOnlyUnopened

\* What is found at the destination is what the transmit job says, and whole
\* (StartFileTransimt, RunLocalFileServer).
FilesAreWhole == SuccessDelivers /\ NoHalfFiles
=============================================================================
