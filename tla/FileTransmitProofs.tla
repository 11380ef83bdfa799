------------------------- MODULE FileTransmitProofs -------------------------
(***************************************************************************)
(* File transmission, for any number of transmits, hosts, ports, threads   *)
(* and restarts: who holds which port, and what is found at the            *)
(* destination when a transmit job has ended.                              *)
(***************************************************************************)
EXTENDS FileTransmit, SequenceTheorems, TLAPS

LiveAt == {"queued", "running", "listening", "accepted", "receiving", "stuck"}

\* A job waits in the queue of its own host, once, and only while it is queued.
Waits(h, j) == IF j.kind = "transmit" THEN Src[j.of] = h /\ tPc[j.of] = "queued"
                                      ELSE Dst[j.of] = h /\ sPc[j.of] = "queued"
QueueInv ==
    \A h \in Hosts :
        /\ \A k \in 1..Len(queue[h]) : Waits(h, queue[h][k])
        /\ \A k, l \in 1..Len(queue[h]) :
              queue[h][k].kind = queue[h][l].kind /\ queue[h][k].of = queue[h][l].of => k = l

\* Until it has been called for, there is no server.
NoServerYet == \A t \in Transmits : tPc[t] \in {"new", "queued", "call"} => sPc[t] = "none"

\* A server job that says it was successful has written the whole file, and so
\* it is when the transmit job has read that.
Delivered(t) == landed[t] = "whole" /\ sPc[t] \in {"done", "gone"}
Reported ==
    \A t \in Transmits :
        /\ sStatus[t] = "FINISHED_SUCCESSFULLY" => Delivered(t)
        /\ tPc[t] = "delete" /\ tOk[t] => Delivered(t)

IInv == /\ TypeOK /\ QueueInv /\ NoServerYet /\ OnePortOneServer /\ PortsLeakOnlyUnopened
        /\ Reported /\ SuccessDelivers /\ NoHalfFiles

-----------------------------------------------------------------------------
(* Hosts and queues.                                                       *)

LEMMA SetupFacts ==
    ASSUME TypeOK
    PROVE  /\ Src \in [Transmits -> Hosts] /\ Dst \in [Transmits -> Hosts]
           /\ NoPort \notin Ports
  BY FileTransmitAssumption DEF TypeOK, Src, Dst, Ports

\* The oldest job of a queue, and what is left.
LEMMA TailFacts ==
    ASSUME TypeOK, NEW h \in Hosts, queue[h] # <<>>
    PROVE  /\ Head(queue[h]) = queue[h][1] /\ 1 \in 1..Len(queue[h])
           /\ Head(queue[h]) \in JobRef
           /\ Tail(queue[h]) \in Seq(JobRef)
           /\ \A k \in 1..Len(Tail(queue[h])) :
                 k + 1 \in 2..Len(queue[h]) /\ Tail(queue[h])[k] = queue[h][k + 1]
<1>1. queue[h] \in Seq(JobRef)
  BY DEF TypeOK
<1>2. Len(queue[h]) \in Nat /\ Len(queue[h]) > 0
  BY <1>1, EmptySeq
<1>3. Head(queue[h]) = queue[h][1] /\ Head(queue[h]) \in JobRef
  BY <1>1, <1>2
<1>4. Tail(queue[h]) \in Seq(JobRef) /\ Len(Tail(queue[h])) = Len(queue[h]) - 1
      /\ \A k \in 1..Len(Tail(queue[h])) : Tail(queue[h])[k] = queue[h][k + 1]
  BY <1>1, HeadTailProperties
<1>5. QED
  BY <1>2, <1>3, <1>4

\* A job is put at the end of a queue.
LEMMA PutFacts ==
    ASSUME TypeOK, NEW h \in Hosts, NEW j \in JobRef
    PROVE  /\ Append(queue[h], j) \in Seq(JobRef)
           /\ Len(Append(queue[h], j)) = Len(queue[h]) + 1 /\ Len(queue[h]) \in Nat
           /\ \A k \in 1..Len(queue[h]) + 1 :
                 \/ k \in 1..Len(queue[h]) /\ Append(queue[h], j)[k] = queue[h][k]
                 \/ k = Len(queue[h]) + 1 /\ Append(queue[h], j)[k] = j
<1>1. queue[h] \in Seq(JobRef)
  BY DEF TypeOK
<1>2. QED
  BY <1>1, AppendProperties, LenProperties

LEMMA Refs ==
    ASSUME NEW t \in Transmits
    PROVE  [kind |-> "transmit", of |-> t] \in JobRef /\ [kind |-> "server", of |-> t] \in JobRef
  BY DEF JobRef

LEMMA EmptyQueue == <<>> \in Seq(JobRef) /\ Len(<<>>) = 0
  OBVIOUS

-----------------------------------------------------------------------------
(* Types.                                                                  *)

LEMMA TypeStep == ASSUME TypeOK, [Next]_vars PROVE TypeOK'
<1> USE SetupFacts DEF world, tVars, sVars, Goto, Fail, Serve, NotOpened,
                       TPc, SPc, JobStatus, Finished
<1>1. ASSUME NEW t \in Transmits, StartTransmitFile(t) PROVE TypeOK'
  <2>1. Append(queue[Src[t]], [kind |-> "transmit", of |-> t]) \in Seq(JobRef)
    BY PutFacts, Refs
  <2>2. QED
    BY <1>1, <2>1 DEF StartTransmitFile, TypeOK, Ports
<1>2. ASSUME NEW h \in Hosts, RunTransmit(h) \/ RunServer(h) PROVE TypeOK'
  <2>1. queue[h] # <<>>
    BY <1>2 DEF RunTransmit, RunServer
  <2>2. Head(queue[h]).of \in Transmits /\ Tail(queue[h]) \in Seq(JobRef)
    BY <2>1, TailFacts DEF JobRef
  <2>3. CASE RunTransmit(h)
    BY <2>2, <2>3 DEF RunTransmit, TypeOK, Ports
  <2>4. CASE RunServer(h)
    BY <2>2, <2>4 DEF RunServer, TypeOK, Ports
  <2>5. QED
    BY <1>2, <2>3, <2>4
<1>3. ASSUME NEW t \in Transmits, StartFileServer(t) PROVE TypeOK'
  <2>1. Append(queue[Dst[t]], [kind |-> "server", of |-> t]) \in Seq(JobRef)
    BY PutFacts, Refs
  <2>2. PICK p \in Ports : /\ busy' = [busy EXCEPT ![Dst[t]] = @ \cup {p}]
                           /\ port' = [port EXCEPT ![t] = p]
    BY <1>3 DEF StartFileServer, FreePorts
  <2>3. busy' \in [Hosts -> SUBSET Ports] /\ port' \in [Transmits -> Ports \cup {NoPort}]
    BY <2>2 DEF TypeOK
  <2>4. QED
    BY <1>3, <2>1, <2>3 DEF StartFileServer, TypeOK, Ports
<1>4. ASSUME NEW t \in Transmits,
             NoAvailablePort(t) \/ MarkSubmitted(t) \/ ServerStarted(t) \/ CallLost(t)
      PROVE  TypeOK'
  <2>1. CASE NoAvailablePort(t)
    BY <2>1 DEF NoAvailablePort, TypeOK, Ports
  <2>2. CASE MarkSubmitted(t)
    BY <2>2 DEF MarkSubmitted, TypeOK, Ports
  <2>3. CASE ServerStarted(t)
    BY <2>3 DEF ServerStarted, TypeOK, Ports
  <2>4. CASE CallLost(t)
    BY <2>4 DEF CallLost, TypeOK, Ports
  <2>5. QED
    BY <1>4, <2>1, <2>2, <2>3, <2>4
<1>5. ASSUME NEW t \in Transmits, Listen(t) \/ OpenFails(t) \/ BindFails(t) \/ OpenFile(t)
      PROVE  TypeOK'
  <2>1. CASE Listen(t)
    BY <2>1 DEF Listen, TypeOK, Ports
  <2>2. CASE OpenFails(t)
    BY <2>2 DEF OpenFails, TypeOK, Ports
  <2>3. CASE BindFails(t)
    BY <2>3 DEF BindFails, TypeOK, Ports
  <2>4. CASE OpenFile(t)
    BY <2>4 DEF OpenFile, TypeOK, Ports
  <2>5. QED
    BY <1>5, <2>1, <2>2, <2>3, <2>4
<1>6. ASSUME NEW t \in Transmits, ReceiveAll(t) \/ ReceiveFails(t) PROVE TypeOK'
  <2>1. busy' = [busy EXCEPT ![Dst[t]] = @ \ {port[t]}]
    BY <1>6 DEF ReceiveAll, ReceiveFails, ReleaseFileserverPort
  <2>2. busy[Dst[t]] \ {port[t]} \in SUBSET Ports /\ busy \in [Hosts -> SUBSET Ports]
    BY DEF TypeOK
  <2>3. busy' \in [Hosts -> SUBSET Ports]
    BY <2>1, <2>2
  <2>4. CASE ReceiveAll(t)
    BY <2>3, <2>4 DEF ReceiveAll, TypeOK, Ports
  <2>5. CASE ReceiveFails(t)
    BY <2>3, <2>5 DEF ReceiveFails, TypeOK, Ports
  <2>6. QED
    BY <1>6, <2>4, <2>5
<1>7. ASSUME NEW t \in Transmits, ServerSpins(t) \/ EndServerJob(t) PROVE TypeOK'
  <2>1. CASE ServerSpins(t)
    BY <2>1 DEF ServerSpins, TypeOK, Ports
  <2>2. CASE EndServerJob(t)
    BY <2>2 DEF EndServerJob, TypeOK, Ports
  <2>3. QED
    BY <1>7, <2>1, <2>2
<1>8. ASSUME NEW t \in Transmits, ServerReady(t) \/ Connect(t) \/ ConnectionRefused(t)
      PROVE  TypeOK'
  <2>1. CASE Connect(t)
    BY <2>1 DEF Connect, TypeOK, Ports
  <2>2. CASE ServerReady(t)
    BY <2>2 DEF ServerReady, TypeOK, Ports
  <2>3. CASE ConnectionRefused(t)
    BY <2>3 DEF ConnectionRefused, TypeOK, Ports
  <2>4. QED
    BY <1>8, <2>1, <2>2, <2>3
<1>9. ASSUME NEW t \in Transmits, SendAll(t) \/ ClientFails(t) \/ ClientSpins(t)
      PROVE  TypeOK'
  <2>1. CASE SendAll(t)
    BY <2>1 DEF SendAll, TypeOK, Ports
  <2>2. CASE ClientFails(t)
    BY <2>2 DEF ClientFails, TypeOK, Ports
  <2>3. CASE ClientSpins(t)
    BY <2>3 DEF ClientSpins, TypeOK, Ports
  <2>4. QED
    BY <1>9, <2>1, <2>2, <2>3
<1>10. ASSUME NEW t \in Transmits, ServerFinished(t) \/ QueryFails(t) PROVE TypeOK'
  <2>1. CASE ServerFinished(t)
    BY <2>1 DEF ServerFinished, TypeOK, Ports
  <2>2. CASE QueryFails(t)
    BY <2>2 DEF QueryFails, TypeOK, Ports
  <2>3. QED
    BY <1>10, <2>1, <2>2
<1>11. ASSUME NEW t \in Transmits, DeleteServerJob(t) \/ DeleteFails(t) PROVE TypeOK'
  <2>1. CASE DeleteServerJob(t)
    BY <2>1 DEF DeleteServerJob, TypeOK, Ports
  <2>2. CASE DeleteFails(t)
    BY <2>2 DEF DeleteFails, TypeOK, Ports
  <2>3. QED
    BY <1>11, <2>1, <2>2
<1>12. ASSUME NEW h \in Hosts, Restart(h) PROVE TypeOK'
  <2>1. setup.restarts \in Nat
    BY FileTransmitAssumption DEF TypeOK
  <2>2. restarts' \in 0..setup.restarts
    BY <1>12, <2>1 DEF Restart, TypeOK
  <2>3. queue' \in [Hosts -> Seq(JobRef)] /\ busy' \in [Hosts -> SUBSET Ports]
    BY <1>12, EmptyQueue DEF Restart, TypeOK
  <2>4. /\ tPc' \in [Transmits -> TPc] /\ sPc' \in [Transmits -> SPc]
        /\ sAdd' \in [Transmits -> {"none", "put", "returned"}]
    BY <1>12 DEF Restart, TypeOK
  <2>5. tOk' \in [Transmits -> BOOLEAN] /\ cached' \in [Transmits -> BOOLEAN]
    BY <1>12, Zenon DEF Restart, TypeOK
  <2>6. QED
    BY <1>12, <2>2, <2>3, <2>4, <2>5 DEF Restart, TypeOK, Ports
<1>13. CASE UNCHANGED vars
  BY <1>13 DEF vars, TypeOK, Ports
<1>14. QED
  BY <1>1, <1>2, <1>3, <1>4, <1>5, <1>6, <1>7, <1>8, <1>9, <1>10, <1>11, <1>12, <1>13
     DEF Next, Step, HandlerStep, ServerStep, TransmitStep, PoolStep

-----------------------------------------------------------------------------
(* What a step does to the servers and to their ports.                     *)

\* A server job moves on, and keeps its port, which stays in use.
KeepsPort(t) ==
    /\ sPc[t] \in LiveAt
    /\ \E l \in LiveAt \cup {"unopened"} : sPc' = [sPc EXCEPT ![t] = l]
    /\ UNCHANGED <<port, busy>>
GivesPortBack(t) ==
    /\ sPc[t] = "receiving" /\ sPc' = [sPc EXCEPT ![t] = "leaving"]
    /\ busy' = [busy EXCEPT ![Dst[t]] = @ \ {port[t]}] /\ port' = port
Leaves(t) ==
    /\ sPc[t] = "leaving" /\ sPc' = [sPc EXCEPT ![t] = "done"] /\ UNCHANGED <<port, busy>>

ServerMove ==
    \/ UNCHANGED <<sPc, port, busy>>
    \/ \E t \in Transmits :
           KeepsPort(t) \/ GivesPortBack(t) \/ Leaves(t) \/ StartFileServer(t)
    \/ \E h \in Hosts : Restart(h)

LEMMA StepIsServerMove ==
    ASSUME TypeOK, QueueInv, [Next]_vars
    PROVE  /\ setup' = setup /\ Src' = Src /\ Dst' = Dst
           /\ ServerMove
<1> USE DEF world, tVars, sVars, Goto, Fail, Serve, NotOpened, LiveAt
<1>1. setup' = setup
  BY DEF Next, Step, HandlerStep, ServerStep, TransmitStep, PoolStep, StartTransmitFile,
         RunTransmit, RunServer, StartFileServer, NoAvailablePort, MarkSubmitted, ServerStarted,
         CallLost, Listen, OpenFails, BindFails, OpenFile, ReceiveAll, ReceiveFails, ServerSpins,
         EndServerJob, ServerReady, Connect, ConnectionRefused, SendAll, ClientFails,
         ClientSpins, ServerFinished, QueryFails, DeleteServerJob, DeleteFails, Restart, vars
<1>2. ASSUME NEW t \in Transmits,
             \/ StartTransmitFile(t) \/ NoAvailablePort(t) \/ MarkSubmitted(t)
             \/ ServerStarted(t) \/ CallLost(t) \/ ServerReady(t) \/ ConnectionRefused(t)
             \/ SendAll(t) \/ ClientFails(t) \/ ClientSpins(t) \/ ServerFinished(t)
             \/ QueryFails(t) \/ DeleteServerJob(t) \/ DeleteFails(t)
      PROVE  UNCHANGED <<sPc, port, busy>>
  BY <1>2 DEF StartTransmitFile, NoAvailablePort, MarkSubmitted, ServerStarted, CallLost,
              ServerReady, ConnectionRefused, SendAll, ClientFails, ClientSpins,
              ServerFinished, QueryFails, DeleteServerJob, DeleteFails
<1>3. ASSUME NEW h \in Hosts, RunTransmit(h) PROVE UNCHANGED <<sPc, port, busy>>
  BY <1>3 DEF RunTransmit
<1>4. ASSUME NEW h \in Hosts, RunServer(h) PROVE ServerMove
  <2> DEFINE t == Head(queue[h]).of
  <2>1. queue[h] # <<>> /\ Head(queue[h]).kind = "server"
    BY <1>4 DEF RunServer
  <2>2. t \in Transmits /\ sPc[t] = "queued"
    BY <2>1, TailFacts DEF QueueInv, Waits, JobRef
  <2>3. KeepsPort(t)
    BY <1>4, <2>2 DEF RunServer, KeepsPort
  <2>4. QED
    BY <2>2, <2>3 DEF ServerMove
<1>5. ASSUME NEW t \in Transmits,
             \/ Listen(t) \/ OpenFails(t) \/ BindFails(t) \/ OpenFile(t) \/ ServerSpins(t)
             \/ Connect(t)
      PROVE  KeepsPort(t)
  BY <1>5 DEF Listen, OpenFails, BindFails, OpenFile, ServerSpins, Connect, KeepsPort
<1>6. ASSUME NEW t \in Transmits, ReceiveAll(t) \/ ReceiveFails(t) PROVE GivesPortBack(t)
  BY <1>6 DEF ReceiveAll, ReceiveFails, ReleaseFileserverPort, GivesPortBack
<1>7. ASSUME NEW t \in Transmits, EndServerJob(t) PROVE Leaves(t)
  BY <1>7 DEF EndServerJob, Leaves
<1>8. UNCHANGED vars => UNCHANGED <<sPc, port, busy>>
  BY DEF vars
<1>9. ServerMove
  BY <1>2, <1>3, <1>4, <1>5, <1>6, <1>7, <1>8
     DEF Next, Step, HandlerStep, ServerStep, TransmitStep, PoolStep, ServerMove
<1>10. QED
  BY <1>1, <1>9 DEF Src, Dst

LEMMA LiveFacts == \A t \in Transmits : Live(t) <=> sPc[t] \in LiveAt
  BY DEF Live, LiveAt, SRunning

\* The port table and the servers stay in step.
LEMMA PortStep ==
    ASSUME TypeOK, QueueInv, NoServerYet, OnePortOneServer, PortsLeakOnlyUnopened, [Next]_vars
    PROVE  OnePortOneServer' /\ PortsLeakOnlyUnopened'
<1> DEFINE Alive(t) == sPc[t] \in LiveAt
           Holds(t, h, p) == Dst[t] = h /\ port[t] = p /\ (Alive(t) \/ sPc[t] = "unopened")
           One == \A t \in Transmits : Alive(t) =>
                      /\ port[t] \in busy[Dst[t]]
                      /\ \A u \in Transmits :
                             Alive(u) /\ Dst[u] = Dst[t] /\ port[u] = port[t] => u = t
           Known == \A h \in Hosts : \A p \in busy[h] : \E t \in Transmits : Holds(t, h, p)
<1>1. /\ Src \in [Transmits -> Hosts] /\ Dst \in [Transmits -> Hosts]
      /\ sPc \in [Transmits -> SPc] /\ port \in [Transmits -> Ports \cup {NoPort}]
      /\ busy \in [Hosts -> SUBSET Ports]
  BY SetupFacts DEF TypeOK
<1>2. One /\ Known
  BY DEF OnePortOneServer, PortsLeakOnlyUnopened, Live, LiveAt, SRunning
<1>3. setup' = setup /\ Dst' = Dst /\ ServerMove
  BY StepIsServerMove
<1>4. CASE UNCHANGED <<sPc, port, busy>>
  BY <1>2, <1>3, <1>4 DEF OnePortOneServer, PortsLeakOnlyUnopened, Live, LiveAt, SRunning
<1>5. (One /\ Known)' => OnePortOneServer' /\ PortsLeakOnlyUnopened'
  BY DEF OnePortOneServer, PortsLeakOnlyUnopened, Live, LiveAt, SRunning
<1>6. ASSUME NEW t \in Transmits, KeepsPort(t) \/ Leaves(t) PROVE (One /\ Known)'
  <2>1. /\ port' = port /\ busy' = busy
        /\ \A u \in Transmits : Alive(u)' => Alive(u)
        /\ \A u \in Transmits : Alive(u) \/ sPc[u] = "unopened" => Alive(u)' \/ sPc'[u] = "unopened"
    BY <1>1, <1>6 DEF KeepsPort, Leaves, LiveAt
  <2>2. QED
    BY <1>2, <1>3, <2>1
<1>7. ASSUME NEW t \in Transmits, GivesPortBack(t) PROVE (One /\ Known)'
  <2>1. /\ port' = port /\ Alive(t) /\ ~Alive(t)' /\ sPc'[t] # "unopened"
        /\ \A u \in Transmits \ {t} : sPc'[u] = sPc[u]
        /\ busy'[Dst[t]] = busy[Dst[t]] \ {port[t]}
        /\ \A h \in Hosts \ {Dst[t]} : busy'[h] = busy[h]
    BY <1>1, <1>7 DEF GivesPortBack, LiveAt
  <2>2. One'
    <3>1. SUFFICES ASSUME NEW u \in Transmits, Alive(u)'
                   PROVE  /\ port[u] \in busy'[Dst[u]]
                          /\ \A v \in Transmits :
                                Alive(v)' /\ Dst[v] = Dst[u] /\ port[v] = port[u] => v = u
      BY <1>3, <2>1
    <3>2. u # t /\ Alive(u)
      BY <2>1, <3>1
    <3>3. port[u] \in busy[Dst[u]] /\ (Dst[u] = Dst[t] => port[u] # port[t])
      BY <1>2, <2>1, <3>2
    <3>4. port[u] \in busy'[Dst[u]]
      BY <1>1, <2>1, <3>3
    <3>5. QED
      BY <1>2, <2>1, <3>2, <3>4
  <2>3. Known'
    <3>1. SUFFICES ASSUME NEW h \in Hosts, NEW p \in busy'[h]
                   PROVE  \E u \in Transmits : Holds(u, h, p)'
      OBVIOUS
    <3>2. p \in busy[h] /\ (h = Dst[t] => p # port[t])
      BY <2>1, <3>1
    <3>3. PICK u \in Transmits : Holds(u, h, p)
      BY <1>2, <3>2
    <3>4. u # t
      BY <3>2, <3>3
    <3>5. Holds(u, h, p)'
      BY <1>3, <2>1, <3>3, <3>4
    <3>6. QED
      BY <3>5
  <2>4. QED
    BY <2>2, <2>3
<1>8. ASSUME NEW t \in Transmits, StartFileServer(t) PROVE (One /\ Known)'
  <2>1. PICK p \in FreePorts(Dst[t]) : /\ busy' = [busy EXCEPT ![Dst[t]] = @ \cup {p}]
                                       /\ port' = [port EXCEPT ![t] = p]
    BY <1>8 DEF StartFileServer
  <2>2. p \in Ports /\ p \notin busy[Dst[t]]
    BY <2>1 DEF FreePorts
  <2>3. /\ sPc[t] = "none" /\ ~Alive(t) /\ Alive(t)' /\ port'[t] = p
        /\ \A u \in Transmits \ {t} : sPc'[u] = sPc[u] /\ port'[u] = port[u]
        /\ busy'[Dst[t]] = busy[Dst[t]] \cup {p}
        /\ \A h \in Hosts \ {Dst[t]} : busy'[h] = busy[h]
    BY <1>1, <1>8, <2>1 DEF StartFileServer, NoServerYet, LiveAt
  <2>4. One'
    <3>1. SUFFICES ASSUME NEW u \in Transmits, Alive(u)'
                   PROVE  /\ port'[u] \in busy'[Dst[u]]
                          /\ \A v \in Transmits :
                                Alive(v)' /\ Dst[v] = Dst[u] /\ port'[v] = port'[u] => v = u
      BY <1>3
    <3>2. \A v \in Transmits \ {t} : Alive(v)' =>
              Alive(v) /\ port'[v] \in busy[Dst[v]] /\ (Dst[v] = Dst[t] => port'[v] # p)
      BY <1>2, <2>2, <2>3
    <3>3. CASE u = t
      BY <2>3, <3>2, <3>3
    <3>4. CASE u # t
      <4>1. port'[u] \in busy'[Dst[u]]
        BY <1>1, <2>3, <3>1, <3>2, <3>4
      <4>2. ASSUME NEW v \in Transmits, Alive(v)', Dst[v] = Dst[u], port'[v] = port'[u]
            PROVE  v = u
        BY <1>2, <2>3, <3>1, <3>2, <3>4, <4>2
      <4>3. QED
        BY <4>1, <4>2
    <3>5. QED
      BY <3>3, <3>4
  <2>5. Known'
    <3>1. SUFFICES ASSUME NEW h \in Hosts, NEW q \in busy'[h]
                   PROVE  \E u \in Transmits : Holds(u, h, q)'
      OBVIOUS
    <3>2. CASE h = Dst[t] /\ q = p
      <4>1. Holds(t, h, q)'
        BY <1>3, <2>3, <3>2
      <4>2. QED
        BY <4>1
    <3>3. CASE ~(h = Dst[t] /\ q = p)
      <4>1. q \in busy[h]
        BY <2>3, <3>1, <3>3
      <4>2. PICK u \in Transmits : Holds(u, h, q)
        BY <1>2, <4>1
      <4>3. u # t
        BY <2>3, <4>2
      <4>4. Holds(u, h, q)'
        BY <1>3, <2>3, <4>2, <4>3
      <4>5. QED
        BY <4>4
    <3>4. QED
      BY <3>2, <3>3
  <2>6. QED
    BY <2>4, <2>5
<1>9. ASSUME NEW g \in Hosts, Restart(g) PROVE (One /\ Known)'
  <2>1. /\ port' = port
        /\ \A u \in Transmits : sPc'[u] = IF Dst[u] = g /\ sPc[u] # "none" THEN "gone" ELSE sPc[u]
        /\ busy'[g] = {}
        /\ \A h \in Hosts \ {g} : busy'[h] = busy[h]
    BY <1>1, <1>9 DEF Restart
  <2>2. \A u \in Transmits : Alive(u)' => Alive(u) /\ Dst[u] # g
    BY <2>1 DEF LiveAt
  <2>3. One'
    BY <1>1, <1>2, <1>3, <2>1, <2>2
  <2>4. Known'
    <3>1. SUFFICES ASSUME NEW h \in Hosts, NEW p \in busy'[h]
                   PROVE  \E u \in Transmits : Holds(u, h, p)'
      OBVIOUS
    <3>2. h # g /\ p \in busy[h]
      BY <2>1, <3>1
    <3>3. PICK u \in Transmits : Holds(u, h, p)
      BY <1>2, <3>2
    <3>4. Holds(u, h, p)'
      BY <1>3, <2>1, <3>2, <3>3
    <3>5. QED
      BY <3>4
  <2>5. QED
    BY <2>3, <2>4
<1>10. QED
  BY <1>3, <1>4, <1>5, <1>6, <1>7, <1>8, <1>9 DEF ServerMove

-----------------------------------------------------------------------------
(* The queues.                                                             *)

WaitsNext(h, j) == IF j.kind = "transmit" THEN Src'[j.of] = h /\ tPc'[j.of] = "queued"
                                          ELSE Dst'[j.of] = h /\ sPc'[j.of] = "queued"

LEMMA JobsInQueues ==
    ASSUME TypeOK, NEW h \in Hosts, NEW k \in 1..Len(queue[h])
    PROVE  queue[h][k] \in JobRef
<1>1. queue[h] \in Seq(JobRef)
  BY DEF TypeOK
<1>2. QED
  BY <1>1, ElementOfSeq

LEMMA PutStep ==
    ASSUME TypeOK, QueueInv, NEW g \in Hosts, NEW j \in JobRef,
           queue' = [queue EXCEPT ![g] = Append(@, j)],
           ~Waits(g, j), WaitsNext(g, j),
           \A h \in Hosts : \A m \in JobRef : Waits(h, m) => WaitsNext(h, m)
    PROVE  QueueInv'
<1>1. /\ queue'[g] = Append(queue[g], j) /\ \A h \in Hosts \ {g} : queue'[h] = queue[h]
      /\ \A h \in Hosts : \A k \in 1..Len(queue[h]) : queue[h][k] \in JobRef
  BY DEF TypeOK
<1>2. Len(queue'[g]) = Len(queue[g]) + 1 /\ Len(queue[g]) \in Nat
      /\ \A k \in 1..Len(queue'[g]) :
            \/ k \in 1..Len(queue[g]) /\ queue'[g][k] = queue[g][k]
            \/ k = Len(queue[g]) + 1 /\ queue'[g][k] = j
  BY <1>1, PutFacts
<1>3. \A k \in 1..Len(queue[g]) : ~(queue[g][k].kind = j.kind /\ queue[g][k].of = j.of)
  BY DEF QueueInv, Waits, WaitsNext
<1>4. ASSUME NEW h \in Hosts
      PROVE  /\ \A k \in 1..Len(queue'[h]) : WaitsNext(h, queue'[h][k])
             /\ \A k, l \in 1..Len(queue'[h]) :
                   queue'[h][k].kind = queue'[h][l].kind /\ queue'[h][k].of = queue'[h][l].of
                       => k = l
  <2>1. CASE h # g
    <3>1. queue'[h] = queue[h]
      BY <1>1, <2>1
    <3>2. \A k \in 1..Len(queue[h]) : Waits(h, queue[h][k])
      BY DEF QueueInv
    <3>3. \A k \in 1..Len(queue[h]) : WaitsNext(h, queue[h][k])
      BY <1>1, <3>1, <3>2
    <3>4. \A k, l \in 1..Len(queue[h]) :
              queue[h][k].kind = queue[h][l].kind /\ queue[h][k].of = queue[h][l].of => k = l
      BY DEF QueueInv
    <3>5. QED
      BY <3>1, <3>3, <3>4, ZenonT(60)
  <2>2. CASE h = g
    <3>1. \A k \in 1..Len(queue'[h]) : WaitsNext(h, queue'[h][k])
      <4>1. ASSUME NEW k \in 1..Len(queue'[h]) PROVE WaitsNext(h, queue'[h][k])
        <5>1. CASE k \in 1..Len(queue[g]) /\ queue'[g][k] = queue[g][k]
          <6>1. Waits(g, queue[g][k]) /\ queue[g][k] \in JobRef
            BY <1>1, <5>1 DEF QueueInv
          <6>2. QED
            BY <2>2, <5>1, <6>1 DEF Waits, WaitsNext
        <5>2. CASE queue'[g][k] = j
          BY <2>2, <5>2 DEF Waits, WaitsNext
        <5>3. QED
          BY <1>2, <2>2, <5>1, <5>2
      <4>2. QED
        BY <4>1
    <3>2. QED
      BY <1>2, <1>3, <2>2, <3>1 DEF QueueInv
  <2>3. QED
    BY <2>1, <2>2
<1>5. QED
  BY <1>4 DEF QueueInv, Waits, WaitsNext

LEMMA TakeStep ==
    ASSUME TypeOK, QueueInv, NEW g \in Hosts, queue[g] # <<>>,
           queue' = [queue EXCEPT ![g] = Tail(@)],
           \A h \in Hosts : \A m \in JobRef :
               /\ Waits(h, m)
               /\ ~(m.kind = Head(queue[g]).kind /\ m.of = Head(queue[g]).of)
               => WaitsNext(h, m)
    PROVE  QueueInv'
<1>1. /\ queue'[g] = Tail(queue[g]) /\ \A h \in Hosts \ {g} : queue'[h] = queue[h]
      /\ \A h \in Hosts : \A k \in 1..Len(queue[h]) : queue[h][k] \in JobRef
  BY DEF TypeOK
<1>2. /\ Head(queue[g]) = queue[g][1] /\ 1 \in 1..Len(queue[g])
      /\ \A k \in 1..Len(queue'[g]) :
            k + 1 \in 2..Len(queue[g]) /\ queue'[g][k] = queue[g][k + 1]
  BY <1>1, TailFacts, ZenonT(60)
<1>3. Len(queue[g]) \in Nat /\ Len(queue'[g]) \in Nat
  <2>1. queue[g] \in Seq(JobRef) /\ queue'[g] \in Seq(JobRef)
    BY <1>1, TailFacts DEF TypeOK
  <2>2. QED
    BY <2>1, LenProperties
<1>4. ASSUME NEW h \in Hosts, h # g, NEW k \in 1..Len(queue[h])
      PROVE  ~(queue[h][k].kind = Head(queue[g]).kind /\ queue[h][k].of = Head(queue[g]).of)
  BY <1>2, <1>4 DEF QueueInv, Waits, WaitsNext
<1>5. ASSUME NEW h \in Hosts
      PROVE  /\ \A k \in 1..Len(queue'[h]) : WaitsNext(h, queue'[h][k])
             /\ \A k, l \in 1..Len(queue'[h]) :
                   queue'[h][k].kind = queue'[h][l].kind /\ queue'[h][k].of = queue'[h][l].of
                       => k = l
  <2>1. CASE h # g
    <3>1. queue'[h] = queue[h]
      BY <1>1, <2>1
    <3>2. \A k \in 1..Len(queue[h]) : Waits(h, queue[h][k]) /\ queue[h][k] \in JobRef
      BY <1>1 DEF QueueInv
    <3>3. \A k \in 1..Len(queue[h]) : WaitsNext(h, queue[h][k])
      BY <1>4, <2>1, <3>1, <3>2
    <3>4. \A k, l \in 1..Len(queue[h]) :
              queue[h][k].kind = queue[h][l].kind /\ queue[h][k].of = queue[h][l].of => k = l
      BY DEF QueueInv
    <3>5. QED
      BY <3>1, <3>3, <3>4
  <2>2. CASE h = g
    <3>1. ASSUME NEW k \in 1..Len(queue'[h]) PROVE WaitsNext(h, queue'[h][k])
      <4>1. k + 1 \in 2..Len(queue[g]) /\ queue'[g][k] = queue[g][k + 1]
        BY <1>2, <2>2
      <4>2. k + 1 \in 1..Len(queue[g]) /\ k + 1 # 1
        BY <1>3, <4>1
      <4>3. Waits(g, queue[g][k + 1]) /\ queue[g][k + 1] \in JobRef
            /\ ~(queue[g][k + 1].kind = Head(queue[g]).kind /\ queue[g][k + 1].of = Head(queue[g]).of)
        BY <1>1, <1>2, <4>2 DEF QueueInv
      <4>4. QED
        BY <2>2, <4>1, <4>3 DEF Waits, WaitsNext
    <3>2. \A k, l \in 1..Len(queue'[h]) :
              queue'[h][k].kind = queue'[h][l].kind /\ queue'[h][k].of = queue'[h][l].of => k = l
      <4>1. \A k \in 1..Len(queue'[g]) :
                k + 1 \in 1..Len(queue[g]) /\ queue'[g][k] = queue[g][k + 1]
        BY <1>2, <1>3
      <4>2. \A k, l \in 1..Len(queue'[g]) : k + 1 = l + 1 => k = l
        BY <1>3
      <4>3. QED
        BY <2>2, <4>1, <4>2 DEF QueueInv
    <3>3. QED
      BY <3>1, <3>2
  <2>3. QED
    BY <2>1, <2>2
<1>6. QED
  BY <1>5 DEF QueueInv, Waits, WaitsNext

LEMMA QueueStep ==
    ASSUME TypeOK, QueueInv, NoServerYet, [Next]_vars
    PROVE  QueueInv'
<1> USE DEF world, tVars, sVars, Goto, Fail, Serve, NotOpened
<1>1. /\ Src' = Src /\ Dst' = Dst
      /\ Src \in [Transmits -> Hosts] /\ Dst \in [Transmits -> Hosts]
      /\ tPc \in [Transmits -> TPc] /\ sPc \in [Transmits -> SPc]
  BY StepIsServerMove, SetupFacts DEF TypeOK
<1>2. ASSUME queue' = queue,
             \A t \in Transmits : /\ tPc[t] = "queued" => tPc'[t] = "queued"
                                  /\ sPc[t] = "queued" => sPc'[t] = "queued"
      PROVE  QueueInv'
  <2>1. \A h \in Hosts : \A k \in 1..Len(queue[h]) : queue[h][k].of \in Transmits
    BY JobsInQueues DEF JobRef
  <2>2. QED
    BY <1>1, <1>2, <2>1 DEF QueueInv, Waits, WaitsNext
<1>3. ASSUME NEW t \in Transmits, StartTransmitFile(t) PROVE QueueInv'
  <2> DEFINE j == [kind |-> "transmit", of |-> t]
  <2>1. /\ queue' = [queue EXCEPT ![Src[t]] = Append(@, j)] /\ Src[t] \in Hosts
        /\ tPc[t] = "new" /\ tPc' = [tPc EXCEPT ![t] = "queued"] /\ sPc' = sPc
    BY <1>1, <1>3 DEF StartTransmitFile
  <2>2. j \in JobRef /\ ~Waits(Src[t], j) /\ WaitsNext(Src[t], j)
    BY <1>1, <2>1, Refs DEF Waits, WaitsNext
  <2>3. \A h \in Hosts : \A m \in JobRef : Waits(h, m) => WaitsNext(h, m)
    BY <1>1, <2>1 DEF Waits, WaitsNext, JobRef
  <2> HIDE DEF j
  <2>4. QED
    BY <2>1, <2>2, <2>3, PutStep
<1>4. ASSUME NEW t \in Transmits, StartFileServer(t) PROVE QueueInv'
  <2> DEFINE j == [kind |-> "server", of |-> t]
  <2>1. /\ queue' = [queue EXCEPT ![Dst[t]] = Append(@, j)] /\ Dst[t] \in Hosts
        /\ tPc[t] = "call" /\ tPc' = [tPc EXCEPT ![t] = "called"]
        /\ sPc[t] = "none" /\ sPc' = [sPc EXCEPT ![t] = "queued"]
    BY <1>1, <1>4 DEF StartFileServer, NoServerYet
  <2>2. j \in JobRef /\ ~Waits(Dst[t], j) /\ WaitsNext(Dst[t], j)
    BY <1>1, <2>1, Refs DEF Waits, WaitsNext
  <2>3. \A h \in Hosts : \A m \in JobRef : Waits(h, m) => WaitsNext(h, m)
    BY <1>1, <2>1 DEF Waits, WaitsNext, JobRef
  <2> HIDE DEF j
  <2>4. QED
    BY <2>1, <2>2, <2>3, PutStep
<1>5. ASSUME NEW h \in Hosts, RunTransmit(h) PROVE QueueInv'
  <2>1. /\ queue[h] # <<>> /\ queue' = [queue EXCEPT ![h] = Tail(@)]
        /\ Head(queue[h]).kind = "transmit"
        /\ tPc' = [tPc EXCEPT ![Head(queue[h]).of] = "call"] /\ sPc' = sPc
    BY <1>5 DEF RunTransmit
  <2>2. \A g \in Hosts : \A m \in JobRef :
            Waits(g, m) /\ ~(m.kind = Head(queue[h]).kind /\ m.of = Head(queue[h]).of)
                => WaitsNext(g, m)
    BY <1>1, <2>1 DEF Waits, WaitsNext, JobRef
  <2>3. QED
    BY <2>1, <2>2, TakeStep
<1>6. ASSUME NEW h \in Hosts, RunServer(h) PROVE QueueInv'
  <2>1. /\ queue[h] # <<>> /\ queue' = [queue EXCEPT ![h] = Tail(@)]
        /\ Head(queue[h]).kind = "server"
        /\ sPc' = [sPc EXCEPT ![Head(queue[h]).of] = "running"] /\ tPc' = tPc
    BY <1>6 DEF RunServer
  <2>2. \A g \in Hosts : \A m \in JobRef :
            Waits(g, m) /\ ~(m.kind = Head(queue[h]).kind /\ m.of = Head(queue[h]).of)
                => WaitsNext(g, m)
    BY <1>1, <2>1 DEF Waits, WaitsNext, JobRef
  <2>3. QED
    BY <2>1, <2>2, TakeStep
<1>7. ASSUME NEW g \in Hosts, Restart(g) PROVE QueueInv'
  <2>1. /\ queue'[g] = <<>> /\ \A h \in Hosts \ {g} : queue'[h] = queue[h]
        /\ \A t \in Transmits : Src[t] # g => tPc'[t] = tPc[t]
        /\ \A t \in Transmits : Dst[t] # g => sPc'[t] = sPc[t]
    BY <1>1, <1>7 DEF Restart, TypeOK
  <2>2. \A h \in Hosts : \A k \in 1..Len(queue[h]) : queue[h][k].of \in Transmits
    BY JobsInQueues DEF JobRef
  <2>3. QED
    BY <1>1, <2>1, <2>2, EmptyQueue DEF QueueInv, Waits, WaitsNext
<1>8. ASSUME NEW t \in Transmits,
             \/ NoAvailablePort(t) \/ MarkSubmitted(t) \/ ServerStarted(t) \/ CallLost(t)
             \/ ServerReady(t) \/ ConnectionRefused(t) \/ SendAll(t) \/ ClientFails(t)
             \/ ClientSpins(t) \/ ServerFinished(t) \/ QueryFails(t) \/ DeleteServerJob(t)
             \/ DeleteFails(t)
      PROVE  QueueInv'
  BY <1>1, <1>2, <1>8
     DEF NoAvailablePort, MarkSubmitted, ServerStarted, CallLost, ServerReady,
         ConnectionRefused, SendAll, ClientFails, ClientSpins, ServerFinished, QueryFails,
         DeleteServerJob, DeleteFails
<1>9. ASSUME NEW t \in Transmits,
             \/ Listen(t) \/ OpenFails(t) \/ BindFails(t) \/ OpenFile(t) \/ ReceiveAll(t)
             \/ ReceiveFails(t) \/ ServerSpins(t) \/ EndServerJob(t) \/ Connect(t)
      PROVE  QueueInv'
  BY <1>1, <1>2, <1>9
     DEF Listen, OpenFails, BindFails, OpenFile, ReceiveAll, ReceiveFails, ServerSpins,
         EndServerJob, Connect
<1>10. CASE UNCHANGED vars
  BY <1>2, <1>10 DEF vars
<1>11. QED
  BY <1>3, <1>4, <1>5, <1>6, <1>7, <1>8, <1>9, <1>10
     DEF Next, Step, HandlerStep, ServerStep, TransmitStep, PoolStep

-----------------------------------------------------------------------------
(* The files.                                                              *)

LEMMA NoServerStep ==
    ASSUME TypeOK, QueueInv, NoServerYet, [Next]_vars
    PROVE  NoServerYet'
<1> USE DEF world, tVars, sVars, Goto, Fail, Serve, NotOpened
<1>1. tPc \in [Transmits -> TPc] /\ sPc \in [Transmits -> SPc]
  BY DEF TypeOK
<1> DEFINE Early == {"new", "queued", "call"}
<1>2. ASSUME \A t \in Transmits :
               /\ tPc'[t] \in Early => tPc[t] \in Early
               /\ sPc[t] = "none" => sPc'[t] = "none"
      PROVE  NoServerYet'
  BY <1>2 DEF NoServerYet
<1>3. ASSUME NEW t \in Transmits, StartTransmitFile(t) PROVE NoServerYet'
  BY <1>1, <1>2, <1>3 DEF StartTransmitFile
<1>4. ASSUME NEW t \in Transmits, StartFileServer(t) PROVE NoServerYet'
  BY <1>1, <1>4 DEF StartFileServer, NoServerYet
<1>5. ASSUME NEW h \in Hosts, RunTransmit(h) \/ RunServer(h) PROVE NoServerYet'
  <2>1. queue[h] # <<>>
    BY <1>5 DEF RunTransmit, RunServer
  <2>2. Waits(h, Head(queue[h])) /\ Head(queue[h]).of \in Transmits
    BY <2>1, TailFacts DEF QueueInv, JobRef
  <2>3. QED
    BY <1>1, <1>2, <1>5, <2>2 DEF RunTransmit, RunServer, Waits
<1>6. ASSUME NEW g \in Hosts, Restart(g) PROVE NoServerYet'
  BY <1>1, <1>2, <1>6 DEF Restart
<1>7. ASSUME NEW t \in Transmits,
             \/ NoAvailablePort(t) \/ MarkSubmitted(t) \/ ServerStarted(t) \/ CallLost(t)
             \/ ServerReady(t) \/ ConnectionRefused(t) \/ SendAll(t) \/ ClientFails(t)
             \/ ClientSpins(t) \/ ServerFinished(t) \/ QueryFails(t) \/ DeleteServerJob(t)
             \/ DeleteFails(t)
      PROVE  NoServerYet'
  BY <1>1, <1>2, <1>7
     DEF NoAvailablePort, MarkSubmitted, ServerStarted, CallLost, ServerReady,
         ConnectionRefused, SendAll, ClientFails, ClientSpins, ServerFinished, QueryFails,
         DeleteServerJob, DeleteFails
<1>8. ASSUME NEW t \in Transmits,
             \/ Listen(t) \/ OpenFails(t) \/ BindFails(t) \/ OpenFile(t) \/ ReceiveAll(t)
             \/ ReceiveFails(t) \/ ServerSpins(t) \/ EndServerJob(t) \/ Connect(t)
      PROVE  NoServerYet'
  BY <1>1, <1>2, <1>8
     DEF Listen, OpenFails, BindFails, OpenFile, ReceiveAll, ReceiveFails, ServerSpins,
         EndServerJob, Connect
<1>9. CASE UNCHANGED vars
  BY <1>2, <1>9 DEF vars
<1>10. QED
  BY <1>3, <1>4, <1>5, <1>6, <1>7, <1>8, <1>9
     DEF Next, Step, HandlerStep, ServerStep, TransmitStep, PoolStep

\* A server that has left stays so, and the file it has written as it is.
LEMMA DeliveryStands ==
    ASSUME TypeOK, QueueInv, NoServerYet, [Next]_vars, NEW t \in Transmits, Delivered(t)
    PROVE  Delivered(t)'
<1>1. /\ tPc \in [Transmits -> TPc] /\ sPc \in [Transmits -> SPc]
      /\ landed \in [Transmits -> {"none", "partial", "whole"}]
  BY DEF TypeOK
<1>2. sPc'[t] \in {"done", "gone"}
  <2>1. ServerMove
    BY StepIsServerMove
  <2>2. ASSUME NEW u \in Transmits, KeepsPort(u) \/ GivesPortBack(u) \/ Leaves(u)
        PROVE  sPc'[t] \in {"done", "gone"}
    BY <1>1, <2>2 DEF KeepsPort, GivesPortBack, Leaves, LiveAt, Delivered
  <2>3. ASSUME NEW u \in Transmits, StartFileServer(u) PROVE sPc'[t] \in {"done", "gone"}
    BY <1>1, <2>3 DEF StartFileServer, NoServerYet, Delivered
  <2>4. ASSUME NEW h \in Hosts, Restart(h) PROVE sPc'[t] \in {"done", "gone"}
    BY <1>1, <2>4 DEF Restart, Delivered
  <2>5. QED
    BY <2>1, <2>2, <2>3, <2>4 DEF ServerMove, Delivered
<1>3. landed'[t] = landed[t]
  <2>1. \/ landed' = landed
        \/ \E u \in Transmits : /\ sPc[u] \in {"accepted", "receiving"}
                                /\ \E l : landed' = [landed EXCEPT ![u] = l]
    BY DEF Next, Step, HandlerStep, ServerStep, TransmitStep, PoolStep, StartTransmitFile,
         RunTransmit, RunServer, StartFileServer, NoAvailablePort, MarkSubmitted, ServerStarted,
         CallLost, Listen, OpenFails, BindFails, OpenFile, ReceiveAll, ReceiveFails, ServerSpins,
         EndServerJob, ServerReady, Connect, ConnectionRefused, SendAll, ClientFails,
         ClientSpins, ServerFinished, QueryFails, DeleteServerJob, DeleteFails, Restart, vars,
         NotOpened, Serve
  <2>2. QED
    BY <1>1, <2>1 DEF Delivered
<1>4. QED
  BY <1>2, <1>3 DEF Delivered

LEMMA FileStep ==
    ASSUME TypeOK, QueueInv, NoServerYet, Reported, SuccessDelivers, NoHalfFiles, [Next]_vars
    PROVE  Reported' /\ SuccessDelivers'
<1> USE DEF world, tVars, sVars, Goto, Fail, Serve, NotOpened
<1> DEFINE Said(t) == sStatus[t] = "FINISHED_SUCCESSFULLY"
           Read(t) == tPc[t] = "delete" /\ tOk[t]
           Over(t) == tPc[t] = "ended" /\ tOk[t]
<1>1. /\ tPc \in [Transmits -> TPc] /\ sPc \in [Transmits -> SPc]
      /\ tOk \in [Transmits -> BOOLEAN] /\ cached \in [Transmits -> BOOLEAN]
      /\ sStatus \in [Transmits -> JobStatus]
      /\ landed \in [Transmits -> {"none", "partial", "whole"}]
  BY DEF TypeOK
<1>2. \A t \in Transmits : Delivered(t) => Delivered(t)'
  BY DeliveryStands
<1>3. \A t \in Transmits : (Said(t) => Delivered(t)) /\ (Read(t) => Delivered(t))
                           /\ (Over(t) => Delivered(t) /\ ~cached[t])
  BY DEF Reported, SuccessDelivers, Delivered
<1>4. ASSUME \A t \in Transmits :
                /\ Said(t)' => Said(t) \/ Delivered(t)'
                /\ Read(t)' => Read(t) \/ Said(t)
                /\ Over(t)' => Over(t) \/ (Read(t) /\ ~cached'[t])
                /\ Over(t) /\ cached'[t] => cached[t]
      PROVE  Reported' /\ SuccessDelivers'
  BY <1>2, <1>3, <1>4 DEF Reported, SuccessDelivers, Delivered
<1>5. ASSUME NEW t \in Transmits, StartTransmitFile(t) \/ NoAvailablePort(t)
                                  \/ ServerStarted(t) \/ CallLost(t)
      PROVE  Reported' /\ SuccessDelivers'
  BY <1>1, <1>4, <1>5 DEF StartTransmitFile, NoAvailablePort, ServerStarted, CallLost
<1>6. ASSUME NEW t \in Transmits, StartFileServer(t) PROVE Reported' /\ SuccessDelivers'
  BY <1>1, <1>4, <1>6 DEF StartFileServer
<1>7. ASSUME NEW t \in Transmits, MarkSubmitted(t) PROVE Reported' /\ SuccessDelivers'
  BY <1>1, <1>4, <1>7 DEF MarkSubmitted
<1>8. ASSUME NEW h \in Hosts, RunTransmit(h) \/ RunServer(h) PROVE Reported' /\ SuccessDelivers'
  <2>1. queue[h] # <<>>
    BY <1>8 DEF RunTransmit, RunServer
  <2>2. Head(queue[h]).of \in Transmits
    BY <2>1, TailFacts DEF JobRef
  <2>3. CASE RunTransmit(h)
    BY <1>1, <1>4, <2>2, <2>3 DEF RunTransmit
  <2>4. CASE RunServer(h)
    BY <1>1, <1>4, <2>2, <2>4 DEF RunServer
  <2>5. QED
    BY <1>8, <2>3, <2>4
<1>9. ASSUME NEW t \in Transmits,
             \/ Listen(t) \/ OpenFails(t) \/ BindFails(t) \/ OpenFile(t) \/ ReceiveAll(t)
             \/ ReceiveFails(t) \/ ServerSpins(t)
      PROVE  Reported' /\ SuccessDelivers'
  BY <1>1, <1>4, <1>9
     DEF Listen, OpenFails, BindFails, OpenFile, ReceiveAll, ReceiveFails, ServerSpins
<1>10. ASSUME NEW t \in Transmits, EndServerJob(t) PROVE Reported' /\ SuccessDelivers'
  <2>1. \A u \in Transmits : Said(u)' => Said(u) \/ Delivered(u)'
    BY <1>1, <1>10 DEF EndServerJob, Delivered
  <2>2. QED
    BY <1>4, <1>10, <2>1 DEF EndServerJob
<1>11. ASSUME NEW t \in Transmits, Connect(t) \/ ServerReady(t) \/ SendAll(t) \/ ClientSpins(t)
      PROVE  Reported' /\ SuccessDelivers'
  BY <1>1, <1>4, <1>11 DEF Connect, ServerReady, SendAll, ClientSpins
<1>12. ASSUME NEW t \in Transmits, \/ ConnectionRefused(t) \/ ClientFails(t) \/ QueryFails(t)
                                   \/ DeleteFails(t)
      PROVE  Reported' /\ SuccessDelivers'
  BY <1>1, <1>4, <1>12 DEF ConnectionRefused, ClientFails, QueryFails, DeleteFails
<1>13. ASSUME NEW t \in Transmits, ServerFinished(t) PROVE Reported' /\ SuccessDelivers'
  BY <1>1, <1>4, <1>13 DEF ServerFinished
<1>14. ASSUME NEW t \in Transmits, DeleteServerJob(t) PROVE Reported' /\ SuccessDelivers'
  BY <1>1, <1>4, <1>14 DEF DeleteServerJob
<1>15. ASSUME NEW h \in Hosts, Restart(h) PROVE Reported' /\ SuccessDelivers'
  BY <1>1, <1>4, <1>15 DEF Restart
<1>16. CASE UNCHANGED vars
  BY <1>4, <1>16 DEF vars
<1>17. QED
  BY <1>5, <1>6, <1>7, <1>8, <1>9, <1>10, <1>11, <1>12, <1>13, <1>14, <1>15, <1>16
     DEF Next, Step, HandlerStep, ServerStep, TransmitStep, PoolStep

\* Half a file is there only while its server receives it, or waits for ever, or is gone.
LEMMA HalfStep ==
    ASSUME TypeOK, QueueInv, NoServerYet, NoHalfFiles, [Next]_vars
    PROVE  NoHalfFiles'
<1> USE DEF world, tVars, sVars, Goto, Fail, Serve, NotOpened
<1>1. /\ tPc \in [Transmits -> TPc] /\ sPc \in [Transmits -> SPc]
      /\ landed \in [Transmits -> {"none", "partial", "whole"}]
  BY DEF TypeOK
<1>2. CASE landed' = landed /\ sPc' = sPc
  BY <1>2 DEF NoHalfFiles
<1>3. ASSUME NEW t \in Transmits,
             \/ Listen(t) \/ OpenFails(t) \/ BindFails(t) \/ OpenFile(t) \/ ReceiveAll(t)
             \/ ReceiveFails(t) \/ ServerSpins(t) \/ EndServerJob(t) \/ Connect(t)
      PROVE  NoHalfFiles'
  BY <1>1, <1>3
     DEF Listen, OpenFails, BindFails, OpenFile, ReceiveAll, ReceiveFails, ServerSpins,
         EndServerJob, Connect, NoHalfFiles
<1>4. ASSUME NEW t \in Transmits, StartFileServer(t) PROVE NoHalfFiles'
  BY <1>1, <1>4 DEF StartFileServer, NoServerYet, NoHalfFiles
<1>5. ASSUME NEW h \in Hosts, RunServer(h) PROVE NoHalfFiles'
  <2>1. queue[h] # <<>> /\ Head(queue[h]).kind = "server"
    BY <1>5 DEF RunServer
  <2>2. Head(queue[h]).of \in Transmits /\ sPc[Head(queue[h]).of] = "queued"
    BY <2>1, TailFacts DEF QueueInv, Waits, JobRef
  <2>3. QED
    BY <1>1, <1>5, <2>2 DEF RunServer, NoHalfFiles
<1>6. ASSUME NEW h \in Hosts, Restart(h) PROVE NoHalfFiles'
  BY <1>1, <1>6 DEF Restart, NoHalfFiles
<1>7. ASSUME NEW t \in Transmits,
             \/ StartTransmitFile(t) \/ NoAvailablePort(t) \/ MarkSubmitted(t)
             \/ ServerStarted(t) \/ CallLost(t) \/ ServerReady(t) \/ ConnectionRefused(t)
             \/ SendAll(t) \/ ClientFails(t) \/ ClientSpins(t) \/ ServerFinished(t)
             \/ QueryFails(t) \/ DeleteServerJob(t) \/ DeleteFails(t)
      PROVE  NoHalfFiles'
  BY <1>2, <1>7
     DEF StartTransmitFile, NoAvailablePort, MarkSubmitted, ServerStarted, CallLost,
         ServerReady, ConnectionRefused, SendAll, ClientFails, ClientSpins,
         ServerFinished, QueryFails, DeleteServerJob, DeleteFails
<1>8. ASSUME NEW h \in Hosts, RunTransmit(h) PROVE NoHalfFiles'
  BY <1>2, <1>8 DEF RunTransmit
<1>9. CASE UNCHANGED vars
  BY <1>2, <1>9 DEF vars
<1>10. QED
  BY <1>3, <1>4, <1>5, <1>6, <1>7, <1>8, <1>9
     DEF Next, Step, HandlerStep, ServerStep, TransmitStep, PoolStep

-----------------------------------------------------------------------------
(* What is shown.                                                          *)

LEMMA InductiveInvariant == Spec => []IInv
<1>1. Init => IInv
  <2> SUFFICES ASSUME Init PROVE IInv
    OBVIOUS
  <2>1. TypeOK
    <3>1. setup.restarts \in Nat
      BY FileTransmitAssumption DEF Init
    <3>2. QED
      BY <3>1, EmptyQueue DEF Init, TypeOK, TPc, SPc, JobStatus
  <2>2. QueueInv
    BY EmptyQueue DEF Init, QueueInv
  <2>3. QED
    BY <2>1, <2>2 DEF Init, IInv, NoServerYet, OnePortOneServer, PortsLeakOnlyUnopened, Live,
                      SRunning, Reported, SuccessDelivers, NoHalfFiles
<1>2. IInv /\ [Next]_vars => IInv'
  BY TypeStep, QueueStep, NoServerStep, PortStep, FileStep, HalfStep DEF IInv
<1>3. QED
  BY <1>1, <1>2, PTL DEF Spec

\* For any number of transmits, hosts, ports and restarts: a port is never given
\* to two servers at once, and one that stays in use without a server was lost by
\* a server that could not open its target (AcquirePort, ReleaseFileserverPort).
THEOREM PortsAreKept == Spec => []Consistent
<1>1. IInv => Consistent
  BY DEF IInv, Consistent
<1>2. QED
  BY <1>1, InductiveInvariant, PTL

\* Whatever calls, copies and agents fail: a transmit job that reports success
\* has delivered the whole file and left neither a server nor its job behind, and
\* half a file is found only under a server that still waits for the rest, or where
\* an agent was restarted (StartFileTransimt, RunLocalFileServer).
THEOREM SuccessIsDelivery == Spec => []FilesAreWhole
<1>1. IInv => FilesAreWhole
  BY DEF IInv, FilesAreWhole
<1>2. QED
  BY <1>1, InductiveInvariant, PTL
=============================================================================
