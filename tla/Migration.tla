----------------------------- MODULE Migration -----------------------------
(***************************************************************************)
(* Migration of domains between two virt_agents.  A migrate job of the     *)
(* source deletes the domain's snapshots, puts a temporary overlay on its  *)
(* disks, copies the disks, has the destination prepare, calls libvirt,    *)
(* has the destination finish (a job of its pool) and undefines the        *)
(* source.  Only a VirtAgentException rolls back; a libvirtError of the    *)
(* job's own calls, an AttributeError or a KeyError does not.              *)
(*                                                                         *)
(* Abstractions: the disks of a domain are one (every domain has one), its *)
(* snapshots are all there or not, a suspended domain counts as on.        *)
(* libvirt is external: one call is one step, except the live migration    *)
(* and the block commit, which have a beginning and an end.                *)
(***************************************************************************)
EXTENDS Naturals, FiniteSets, SequencesExt

CONSTANTS Hosts, Domains,
          Home,        \* host of each domain when the clients ask
          MaxRequests, \* bound on the migrate requests, numbered as they come
          Asked,       \* <<domain, destination>> that each may ask for
          Threads,     \* size of a virt_agent's pool
          None

ASSUME MigrationAssumption ==
    /\ Domains # {}
    /\ Home \in [Domains -> Hosts]
    /\ Threads \in Nat \ {0}
    /\ MaxRequests \in Nat
    /\ None \notin Nat

Requests == 1..MaxRequests

ASSUME AskedAssumption == Asked \in [Requests -> SUBSET (Domains \X Hosts)]

VARIABLES
    vm,      \* vm[h][d]: the domain as libvirt of host h knows it
    ask,     \* the domain and the destination of each request
    tmp,     \* whether the overlay file for it is on its destination
    queue,   \* job queue of each host
    pc,      \* where the migrate job of a request is
    kept,    \* its local_snapshots and local_tmp_info
    mon,     \* where its monitor job is
    fin,     \* where its finish job on the destination is
    moved,   \* history: requests that libvirt migrated
    reverted \* history: requests whose RevertMigration undefined a domain

history == <<moved, reverted>>
vars == <<vm, ask, tmp, queue, pc, kept, mon, fin, history>>

States == {"none", "off", "on"}
Absent == [state |-> "none", snaps |-> FALSE, chain |-> <<>>, job |-> None]
Vm == [state : States, snaps : BOOLEAN, chain : Seq(Requests), job : Requests \cup {None}]

Job == [kind : {"migrate", "monitor", "finish"}, req : Requests]
Ended == {"done", "failed"}
AtWork == {"start", "check", "backup", "snapshot", "copy", "prepare", "migrate", "moving",
           "finish", "sent", "poll", "misled", "undefine", "rollback", "commit", "restore",
           "revert", "hung"}
FinAtWork == {"run", "commit", "snaps"}

TypeOK ==
    /\ vm \in [Hosts -> [Domains -> Vm]]
    /\ ask \in [Requests -> [dom : Domains, dest : Hosts]]
    /\ tmp \in [Requests -> BOOLEAN]
    /\ queue \in [Hosts -> Seq(Job)]
    /\ pc \in [Requests -> {"idle", "queued"} \cup AtWork \cup Ended]
    /\ kept \in [Requests -> [snaps : BOOLEAN, tmp : {"empty", "none", "made"}]]
    /\ mon \in [Requests -> {"idle", "queued", "watch", "ended"}]
    /\ fin \in [Requests -> {"idle", "queued", "ok", "failed"} \cup FinAtWork]
    /\ moved \subseteq Requests
    /\ reverted \subseteq Requests

Dom(r) == ask[r].dom
Src(r) == Home[Dom(r)]
Dest(r) == ask[r].dest
AtSrc(r) == vm[Src(r)][Dom(r)]
AtDest(r) == vm[Dest(r)][Dom(r)]

Goto(r, l) == pc' = [pc EXCEPT ![r] = l]
SetVm(h, d, v) == vm' = [vm EXCEPT ![h][d] = v]
SetSrc(r, v) == SetVm(Src(r), Dom(r), v)
SetDest(r, v) == SetVm(Dest(r), Dom(r), v)

(* libvirt serialises the jobs of one domain: while it is being migrated   *)
(* or committed, another job on it is refused.                             *)
Moving(h, d) == \E r \in Requests : pc[r] = "moving" /\ Src(r) = h /\ Dom(r) = d
Free(h, d) == vm[h][d].state = "on" /\ vm[h][d].job = None /\ ~Moving(h, d)

Busy(h) ==
    Cardinality({r \in Requests : pc[r] \in AtWork /\ Src(r) = h})
    + Cardinality({r \in Requests : mon[r] = "watch" /\ Src(r) = h})
    + Cardinality({r \in Requests : fin[r] \in FinAtWork /\ Dest(r) = h})

AddJob(h, k, r) == queue' = [queue EXCEPT ![h] = Append(@, [kind |-> k, req |-> r])]

Init ==
    /\ vm = [h \in Hosts |-> [d \in Domains |->
                IF Home[d] # h THEN Absent
                ELSE [Absent EXCEPT !.state = "on", !.snaps = TRUE]]]
    /\ ask \in [Requests -> [dom : {CHOOSE d \in Domains : TRUE}, dest : {CHOOSE h \in Hosts : TRUE}]]
    /\ tmp = [r \in Requests |-> FALSE]
    /\ queue = [h \in Hosts |-> <<>>]
    /\ pc = [r \in Requests |-> "idle"]
    /\ kept = [r \in Requests |-> [snaps |-> FALSE, tmp |-> "empty"]]
    /\ mon = [r \in Requests |-> "idle"]
    /\ fin = [r \in Requests |-> "idle"]
    /\ moved = {}
    /\ reverted = {}

-----------------------------------------------------------------------------
(* MigrateDomain, the gRPC handler of the source: any domain, any          *)
(* destination, and nothing keeps a client from asking twice.              *)
MigrateDomain(r) ==
    /\ pc[r] = "idle"
    /\ \A q \in 1..(r - 1) : pc[q] # "idle"
    /\ \E a \in Asked[r] :
         /\ ask' = [ask EXCEPT ![r] = [dom |-> a[1], dest |-> a[2]]]
         /\ AddJob(Home[a[1]], "migrate", r)
    /\ Goto(r, "queued")
    /\ UNCHANGED <<vm, tmp, kept, mon, fin, history>>

(* A free thread of the pool takes the oldest job.                         *)
TakeJob(h) ==
    /\ queue[h] # <<>>
    /\ Busy(h) < Threads
    /\ LET j == Head(queue[h]) IN
         /\ pc'  = IF j.kind = "migrate" THEN [pc EXCEPT ![j.req] = "start"] ELSE pc
         /\ mon' = IF j.kind = "monitor" THEN [mon EXCEPT ![j.req] = "watch"] ELSE mon
         /\ fin' = IF j.kind = "finish" THEN [fin EXCEPT ![j.req] = "run"] ELSE fin
    /\ queue' = [queue EXCEPT ![h] = Tail(@)]
    /\ UNCHANGED <<vm, ask, tmp, kept, history>>

-----------------------------------------------------------------------------
(* DomainMigrate queues the monitor first; the connection or the domain    *)
(* may be missing, and then nothing is rolled back.                        *)
StartMigrate(r) ==
    /\ pc[r] = "start"
    /\ AddJob(Src(r), "monitor", r)
    /\ mon' = [mon EXCEPT ![r] = "queued"]
    /\ \/ AtSrc(r).state # "none" /\ Goto(r, "check")
       \/ Goto(r, "failed")
    /\ UNCHANGED <<vm, ask, tmp, kept, fin, history>>

(* check_can_migrate turns libvirtErrors into VirtAgentExceptions; a pool  *)
(* it does not know is a KeyError.                                         *)
CheckCanMigrate(r) ==
    /\ pc[r] = "check"
    /\ \/ AtSrc(r).state # "none" /\ Goto(r, "backup")
       \/ Goto(r, "rollback")
       \/ Goto(r, "failed")
    /\ UNCHANGED <<vm, ask, tmp, queue, kept, mon, fin, history>>

BackupDeleteSnapshots(r) ==
    /\ pc[r] = "backup"
    /\ \/ /\ AtSrc(r).state # "none"
          /\ kept' = [kept EXCEPT ![r].snaps = AtSrc(r).snaps]
          /\ SetSrc(r, [AtSrc(r) EXCEPT !.snaps = FALSE])
          /\ Goto(r, "snapshot")
       \/ /\ \/ UNCHANGED vm
             \/ SetSrc(r, [AtSrc(r) EXCEPT !.snaps = FALSE])
          /\ Goto(r, "failed")
          /\ UNCHANGED kept
    /\ UNCHANGED <<ask, tmp, queue, mon, fin, history>>

(* A domain that is off gets no overlay and leaves tmp_info None.          *)
CreateTmpSnapshot(r) ==
    /\ pc[r] = "snapshot"
    /\ \/ /\ Free(Src(r), Dom(r))
          /\ SetSrc(r, [AtSrc(r) EXCEPT !.chain = Append(@, r)])
          /\ kept' = [kept EXCEPT ![r].tmp = "made"]
          /\ Goto(r, "copy")
       \/ /\ AtSrc(r).state = "off"
          /\ kept' = [kept EXCEPT ![r].tmp = "none"]
          /\ Goto(r, "copy")
          /\ UNCHANGED vm
       \/ Goto(r, "failed") /\ UNCHANGED <<vm, kept>>
    /\ UNCHANGED <<ask, tmp, queue, mon, fin, history>>

(* copy_image: a transmit job of sysagent, polled until it ends, which it  *)
(* may never do.                                                           *)
CopyImages(r) ==
    /\ pc[r] = "copy"
    /\ Goto(r, "prepare") \/ Goto(r, "rollback") \/ Goto(r, "hung")
    /\ UNCHANGED <<vm, ask, tmp, queue, kept, mon, fin, history>>

(* The destination rebases the copied images and makes the overlay, or     *)
(* fails.                                                                  *)
DestPrepares(r) == \E b \in BOOLEAN : tmp' = [tmp EXCEPT ![r] = b]

(* The source looks at no reply of PrepareMigration, so only a lost one    *)
(* rolls back.  A tmp_info of None has no items().                         *)
PrepareMigration(r) ==
    /\ pc[r] = "prepare"
    /\ IF kept[r].tmp = "made"
         THEN /\ DestPrepares(r)
              /\ Goto(r, "migrate") \/ Goto(r, "rollback")
         ELSE Goto(r, "failed") /\ UNCHANGED tmp
    /\ UNCHANGED <<vm, ask, queue, kept, mon, fin, history>>

(* migrateToURI3 of a domain that is on; one that went off meanwhile is    *)
(* migrated offline, that is, defined.                                     *)
BeginMigrate(r) ==
    /\ pc[r] = "migrate"
    /\ \/ Free(Src(r), Dom(r)) /\ tmp[r] /\ Goto(r, "moving") /\ UNCHANGED <<vm, moved>>
       \/ /\ AtSrc(r).state = "off"
          /\ Src(r) # Dest(r)
          /\ AtDest(r).state # "on"
          /\ SetDest(r, [AtDest(r) EXCEPT !.state = "off", !.chain = <<r>>])
          /\ moved' = moved \cup {r}
          /\ Goto(r, "finish")
       \/ Goto(r, "failed") /\ UNCHANGED <<vm, moved>>
    /\ UNCHANGED <<ask, tmp, queue, kept, mon, fin, reverted>>

EndMigrate(r) ==
    /\ pc[r] = "moving"
    /\ \/ /\ AtSrc(r).state = "on"
          /\ Src(r) # Dest(r)
          /\ AtDest(r).state # "on"
          /\ vm' = [vm EXCEPT ![Src(r)][Dom(r)].state = "off",
                              ![Dest(r)][Dom(r)].state = "on",
                              ![Dest(r)][Dom(r)].chain = <<r>>]
          /\ moved' = moved \cup {r}
          /\ Goto(r, "finish")
       \/ Goto(r, "failed") /\ UNCHANGED <<vm, moved>>
    /\ UNCHANGED <<ask, tmp, queue, kept, mon, fin, reverted>>

(* The FinishMigration call: the request is lost, or add_job of the        *)
(* destination queues the finish job.                                      *)
SendFinish(r) ==
    /\ pc[r] = "finish"
    /\ \/ Goto(r, "rollback") /\ UNCHANGED <<queue, fin>>
       \/ /\ Goto(r, "sent")
          /\ AddJob(Dest(r), "finish", r)
          /\ fin' = [fin EXCEPT ![r] = "queued"]
    /\ UNCHANGED <<vm, ask, tmp, kept, mon, history>>

(* add_job marks the job as SUBMITTED when it is already in the queue, and *)
(* overwrites the status of one that has ended by then; then the call is   *)
(* answered, or the answer is lost.                                        *)
FinishReplied(r) ==
    /\ pc[r] = "sent"
    /\ \/ Goto(r, "rollback") \/ Goto(r, "poll")
       \/ fin[r] \in {"ok", "failed"} /\ Goto(r, "misled")
    /\ UNCHANGED <<vm, ask, tmp, queue, kept, mon, fin, history>>

\* Mutant: a finish job that has failed is polled for ever.
PollFinishForSuccess(r) ==
    /\ pc[r] = "poll"
    /\ fin[r] = "ok" /\ Goto(r, "undefine")
    /\ UNCHANGED <<vm, ask, tmp, queue, kept, mon, fin, history>>

\* Mutant: whatever has not failed counts as finished.
PollFinishEarly(r) ==
    /\ pc[r] = "poll"
    /\ IF fin[r] = "failed" THEN Goto(r, "rollback") ELSE Goto(r, "undefine")
    /\ UNCHANGED <<vm, ask, tmp, queue, kept, mon, fin, history>>

(* A job that stays SUBMITTED is polled without end.                       *)
PollFinish(r) ==
    /\ pc[r] = "poll"
    /\ \/ fin[r] = "ok" /\ Goto(r, "undefine")
       \/ fin[r] = "failed" /\ Goto(r, "rollback")
    /\ UNCHANGED <<vm, ask, tmp, queue, kept, mon, fin, history>>

(* A QueryJob call fails.                                                  *)
QueryFails(r) ==
    /\ pc[r] \in {"poll", "misled"}
    /\ Goto(r, "rollback")
    /\ UNCHANGED <<vm, ask, tmp, queue, kept, mon, fin, history>>

(* libvirt refuses to undefine a domain that is off and has snapshots.     *)
Undefine(r) ==
    /\ pc[r] = "undefine"
    /\ \/ /\ AtSrc(r).state = "off" /\ ~AtSrc(r).snaps
          /\ SetSrc(r, Absent)
          /\ Goto(r, "done")
       \/ Goto(r, "failed") /\ UNCHANGED vm
    /\ UNCHANGED <<ask, tmp, queue, kept, mon, fin, history>>

(* _rollback begins with block_commit of the overlay, if there is one: it  *)
(* takes a domain that is on and whose top is this overlay.                *)
RollbackCommit(r) ==
    /\ pc[r] = "rollback"
    /\ \/ /\ kept[r].tmp = "empty" /\ Goto(r, "restore")
          /\ UNCHANGED vm
       \/ /\ kept[r].tmp = "made"
          /\ Free(Src(r), Dom(r))
          /\ AtSrc(r).chain # <<>> /\ Last(AtSrc(r).chain) = r
          /\ SetSrc(r, [AtSrc(r) EXCEPT !.job = r])
          /\ Goto(r, "commit")
       \/ kept[r].tmp # "empty" /\ Goto(r, "failed") /\ UNCHANGED vm
    /\ UNCHANGED <<ask, tmp, queue, kept, mon, fin, history>>

\* Mutant: the destination is reverted before the snapshots are restored.
RollbackPivotThenRevert(r) ==
    /\ pc[r] = "commit"
    /\ AtSrc(r).job = r
    /\ SetSrc(r, [AtSrc(r) EXCEPT !.job = None, !.chain = Front(@)])
    /\ Goto(r, "revert")
    /\ UNCHANGED <<ask, tmp, queue, kept, mon, fin, history>>

(* is_job_complete is polled until the job is complete, for ever if the    *)
(* domain has stopped; then the job is pivoted and the overlay removed.    *)
RollbackPivot(r) ==
    /\ pc[r] = "commit"
    /\ AtSrc(r).job = r
    /\ \/ /\ SetSrc(r, [AtSrc(r) EXCEPT !.job = None, !.chain = Front(@)])
          /\ Goto(r, "restore")
       \/ Goto(r, "failed") /\ UNCHANGED vm
    /\ UNCHANGED <<ask, tmp, queue, kept, mon, fin, history>>

RestoreSnapshots(r) ==
    /\ pc[r] = "restore"
    /\ \/ ~kept[r].snaps /\ Goto(r, "revert") /\ UNCHANGED vm
       \/ /\ kept[r].snaps /\ AtSrc(r).state # "none"
          /\ SetSrc(r, [AtSrc(r) EXCEPT !.snaps = TRUE])
          /\ Goto(r, "revert")
       \/ kept[r].snaps /\ Goto(r, "failed") /\ UNCHANGED vm
    /\ UNCHANGED <<ask, tmp, queue, kept, mon, fin, history>>

\* Mutant: the call goes to the local host.
RevertMigrationHere(r) ==
    /\ pc[r] = "revert"
    /\ Goto(r, "failed")
    /\ AtSrc(r).state # "none"
    /\ SetSrc(r, Absent)
    /\ reverted' = reverted \cup {r}
    /\ UNCHANGED <<ask, tmp, queue, kept, mon, fin, moved>>

(* RevertMigration runs in the gRPC handler of the destination.  A domain  *)
(* that is not there ends it; one that is there is stripped, destroyed and *)
(* undefined, as far as libvirt lets it.  The images stay: the lookup of   *)
(* destination_json['disk'] raises KeyError.  The job fails in any case.   *)
RevertMigration(r) ==
    /\ pc[r] = "revert"
    /\ Goto(r, "failed")
    /\ \/ UNCHANGED <<vm, reverted>>
       \/ /\ AtDest(r).state # "none"
          /\ \/ SetDest(r, [AtDest(r) EXCEPT !.snaps = FALSE]) /\ UNCHANGED reverted
             \/ /\ SetDest(r, [AtDest(r) EXCEPT !.snaps = FALSE, !.state = "off", !.job = None])
                /\ UNCHANGED reverted
             \/ SetDest(r, Absent) /\ reverted' = reverted \cup {r}
    /\ UNCHANGED <<ask, tmp, queue, kept, mon, fin, moved>>

-----------------------------------------------------------------------------
(* The finish job of the destination: commit the overlay, then redefine    *)
(* the snapshots.                                                          *)
FinishCommit(r) ==
    /\ fin[r] = "run"
    /\ \/ /\ Free(Dest(r), Dom(r))
          /\ AtDest(r).chain # <<>> /\ Last(AtDest(r).chain) = r
          /\ SetDest(r, [AtDest(r) EXCEPT !.job = r])
          /\ fin' = [fin EXCEPT ![r] = "commit"]
       \/ fin' = [fin EXCEPT ![r] = "failed"] /\ UNCHANGED vm
    /\ UNCHANGED <<ask, tmp, queue, pc, kept, mon, history>>

FinishPivot(r) ==
    /\ fin[r] = "commit"
    /\ AtDest(r).job = r
    /\ \/ /\ SetDest(r, [AtDest(r) EXCEPT !.job = None, !.chain = Front(@)])
          /\ tmp' = [tmp EXCEPT ![r] = FALSE]
          /\ fin' = [fin EXCEPT ![r] = "snaps"]
       \/ fin' = [fin EXCEPT ![r] = "failed"] /\ UNCHANGED <<vm, tmp>>
    /\ UNCHANGED <<ask, queue, pc, kept, mon, history>>

FinishSnapshots(r) ==
    /\ fin[r] = "snaps"
    /\ \/ ~kept[r].snaps /\ fin' = [fin EXCEPT ![r] = "ok"] /\ UNCHANGED vm
       \/ /\ kept[r].snaps /\ AtDest(r).state # "none"
          /\ SetDest(r, [AtDest(r) EXCEPT !.snaps = TRUE])
          /\ fin' = [fin EXCEPT ![r] = "ok"]
       \/ kept[r].snaps /\ fin' = [fin EXCEPT ![r] = "failed"] /\ UNCHANGED vm
    /\ UNCHANGED <<ask, tmp, queue, pc, kept, mon, history>>

(* The monitor reads the job of the domain every half second: no job of a  *)
(* domain that is on is no reason to end, a domain that is not on is.      *)
MonitorEnds(r) ==
    /\ mon[r] = "watch"
    /\ AtSrc(r).state # "on" \/ Moving(Src(r), Dom(r))
    /\ mon' = [mon EXCEPT ![r] = "ended"]
    /\ UNCHANGED <<vm, ask, tmp, queue, pc, kept, fin, history>>

(* A domain may stop by itself or through a DomainStop job.                *)
DomainStops(h, d) ==
    /\ vm[h][d].state = "on"
    /\ SetVm(h, d, [vm[h][d] EXCEPT !.state = "off", !.job = None])
    /\ UNCHANGED <<ask, tmp, queue, pc, kept, mon, fin, history>>

MigrateJob(r) ==
    \/ StartMigrate(r) \/ CheckCanMigrate(r) \/ BackupDeleteSnapshots(r)
    \/ CreateTmpSnapshot(r) \/ CopyImages(r) \/ PrepareMigration(r)
    \/ BeginMigrate(r) \/ EndMigrate(r) \/ SendFinish(r) \/ FinishReplied(r)
    \/ PollFinish(r) \/ Undefine(r) \/ RollbackCommit(r) \/ RollbackPivot(r)
    \/ RestoreSnapshots(r) \/ RevertMigration(r)

FinishJob(r) == FinishCommit(r) \/ FinishPivot(r) \/ FinishSnapshots(r)

Next ==
    \/ \E r \in Requests : \/ MigrateDomain(r) \/ MigrateJob(r) \/ QueryFails(r)
                         \/ FinishJob(r) \/ MonitorEnds(r)
    \/ \E h \in Hosts : TakeJob(h)
    \/ \E h \in Hosts, d \in Domains : DomainStops(h, d)

Spec == Init /\ [][Next]_vars

(* The threads of the pools run and the calls they make return; clients    *)
(* need not ask, guests need not stop, polls need not fail.                *)
FairSpec ==
    /\ Spec
    /\ \A r \in Requests : WF_vars(MigrateJob(r)) /\ WF_vars(FinishJob(r)) /\ WF_vars(MonitorEnds(r))
    /\ \A h \in Hosts : WF_vars(TakeJob(h))

-----------------------------------------------------------------------------
(* r is the only request for its domain.                                   *)
NoRival(r) == \A q \in Requests \ {r} : pc[q] # "idle" => Dom(q) # Dom(r)

(* No domain is lost by its own migration, however it fails.  A domain     *)
(* that no host defines was undefined by the rollback of a request that    *)
(* had not migrated it: a second request for the same domain undid what    *)
(* the first had brought, or the destination was the host itself.          *)
LostOnlyByStrayRollback ==
    \A d \in Domains :
        (\A h \in Hosts : vm[h][d].state = "none") =>
            \E r \in reverted \ moved :
                /\ Dom(r) = d
                /\ Dest(r) = Home[d] \/ \E q \in moved : Dom(q) = d

(* A rollback never reaches the destination once libvirt has migrated the  *)
(* domain there: block_commit of a domain that is off stops it.            *)
RollbackSparesMoved == \A r \in moved : pc[r] \notin {"restore", "revert"}

(* A rollback that gets as far as calling the destination has put back     *)
(* what the job had taken from the source: snapshots and disk.             *)
RollbackRestores ==
    \A r \in Requests :
        pc[r] = "revert" /\ NoRival(r) =>
            /\ AtSrc(r).state # "none"
            /\ AtSrc(r).snaps
            /\ ~Contains(AtSrc(r).chain, r)

(* A migrate job succeeds only when the domain has left the source and is  *)
(* whole on the destination: no overlay, the snapshots redefined.          *)
SuccessIsComplete ==
    [][\A r \in Requests :
          pc[r] # "done" /\ pc'[r] = "done" /\ NoRival(r) =>
              /\ AtSrc(r)'.state = "none"
              /\ AtDest(r)'.state # "none"
              /\ AtDest(r)'.snaps = kept[r].snaps
              /\ AtDest(r)'.chain = <<>>
              /\ ~tmp'[r]]_vars

(* The domain stopped during a block commit, which then never completes.   *)
CommitNeverCompletes(r) ==
    \/ pc[r] = "commit" /\ AtSrc(r).job # r
    \/ pc[r] = "poll" /\ fin[r] = "commit" /\ AtDest(r).job # r

(* Every migrate job ends, unless the copy of an image hangs, the finish   *)
(* job ended before it was marked as submitted, a domain stops under a     *)
(* block commit, or a pool is full for ever: its threads wait for finish   *)
(* jobs that wait for threads of the other pool, or watch domains whose    *)
(* migration never began.                                                  *)
MigrationsEnd ==
    \/ \E h \in Hosts : <>[](Busy(h) = Threads)
    \/ \A r \in Requests :
          \/ <>[](pc[r] = "misled")
          \/ (pc[r] = "queued") ~> (pc[r] \in Ended \cup {"hung"} \/ CommitNeverCompletes(r))

(* Domains are well formed and none is lost but by a stray rollback        *)
(* (DomainMigrate).                                                        *)
Consistent == TypeOK /\ LostOnlyByStrayRollback

(* A rollback puts back what it may, and touches nothing that has moved    *)
(* (the rollback of DomainMigrate).                                        *)
RollbackIsSafe == RollbackSparesMoved /\ RollbackRestores
=============================================================================
