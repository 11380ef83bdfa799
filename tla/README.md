# virtual-frame: a TLA+ verification project

This directory holds TLA+ models of virtual-frame, the configurations that
model-check them with TLC, and theorems about them that TLAPS proves.
Paths are relative to the repository root.

## 1. The system

virtual-frame runs a virtualisation cluster from four gRPC daemons on every
node, a file copy library, and a monitoring back end.

| component | where | state it keeps | operations |
|---|---|---|---|
| job worker | `system_daemon/sysagent/worker.py`, `worker_job.py` (copies in `virt_agent`, `storeagent`) | FIFO queue, job cache, status and process of each job, pool threads | `add_job`, `query_job`, `del_job`, the thread loop, notification |
| netcopy | `netcopy_tool/src/netcp` | one TCP connection per copy, offsets, the process-wide MD5 switch, the destination file | put and get of a file, block by block, with MD5 check |
| file transmit | `system_daemon/sysagent/driver.py` 249-639, `sysapi.py` | table of server ports, server, client and transmit jobs on two hosts | start a file server or client, transmit a file between two hosts, query and delete the remote job |
| host mode | `sysagent/driver.py` 642-777 | mode in memory, mode in the configuration file, of sysagent and of virt_agent | set and get the mode, shut the host down |
| manager binding | `sysagent/sysapi.py` 31-106 and 247-270, `driver.py` 55-246 | manager ip on disk, NTP and hosts files | connect, disconnect, heartbeat |
| virt_agent | `comput_daemon/src/virt_agent` | libvirt domains, `DOMAIN_LIST`, migration jobs and their rollback | domain life cycle, devices, snapshots, migration |
| libvirt connections | `daemon_util/src/util_base/libvirt_util.py`, `virt_agent/worker_job.py` 25-60 | pool of connections, event connection | get, put, reconnect on a close event |
| storeagent | `storage_daemon/storeagent` | `DATASTORE_LIST`, mounts, iSCSI sessions, topology, `multipath.conf` | data store and volume life cycle, scans, multipath configuration |
| net_agent | `network_daemon/net_agent` | bridges, ports, ACL, QoS and uplink records kept in Open vSwitch and XML | create, change and delete each |
| configuration | `daemon_util/src/util_base/sys_util.py` | `global.cfg` and the agents' files | read and write options |
| exporter | `china_mobile_iaas/exporter` | circular queue of samples, cached metrics | collect, enqueue, dequeue, expose |
| iaas back end | `china_mobile_iaas/iaas` | sessions, consumer groups, database | login, queries, Kafka consumers |
| front end | `china_mobile_iaas/V3` | none of its own | pages and charts |

How they meet: gRPC handlers run on a pool of ten threads and call the drivers
directly or queue a job; job functions run on the five threads of the job
worker.  A transmit job on one host calls the gRPC interface of the other host,
which queues a file server job there; the two jobs then speak the netcopy
protocol over TCP.  Host mode and the libvirt connections are process-wide
variables shared by handlers, jobs and callbacks.  Nothing of the job worker or
of a transfer survives a restart of its daemon.

Paths below are under `src/` and, where the directory is clear from the
component, given by their file name only.

### What each component has to get right

**Job worker.** `Worker` starts five threads on one `queue.Queue`; one of
them is taken for good by the internal job that samples the CPU.  A job goes
`CREATED`, `SUBMITTED`, `PROCESSING`, then `FINISHED_SUCCESSFULLY` or
`FINISHED_FAILED`, but three parties write these words without a common lock.
Hard: a job is visible to the pool before `add_job` marks it, status and
process are read in two critical sections, a function may raise or never
return.  Correct: a function runs once, a verdict is true and stands, what was
queued is run while a thread is free, a client that polls learns the verdict.

**netcopy.** A client and a server exchange `REQUEST`, `RESPONSE`, `DATA`, `BLANK` and `END`
messages over a connection of their own; whether blocks of zeros travel and
whether the stream is hashed depends on one variable of the process that every
transfer sets.  Hard: that switch under concurrent transfers, holes over an
existing file, a dead peer, the two different orders in which the ends finish.
Correct: a new file is the source, the sender does not end well before the
receiver has everything, no false MD5 alarm, nobody is stranded by a normal end.

**File transmit.** A job of one host drives a server job of the other by gRPC
and then copies.  State: the port table, two pools, two job caches, the file.
Hard: replies that are lost after the job is queued, polls against a status
that is written twice, restarts, ports that are not given back, pools that
wait for each other.  Correct: one server per port, no port leaks but in the
known way, success means delivered, no half file is left by a server that ended.

**Host mode.** `SetHostMode` checks the jobs, sets memory, rewrites
`global.cfg` in place and rolls back on failure.  Hard: check then act over
three pieces of state, calls side by side, a crash or a full disk between
truncation and write.  Correct: maintenance is entered only past a check of
that call, accepted is done, refused is undone, the file survives.

**Manager binding.** `ConnectHost`, `DisConnectHost` and `BeatHeart` read and
write the manager's ip in one file, without a lock, and edit the NTP and hosts
files.  Correct: one manager at a time; a refused manager changes nothing.

**virt_agent, domains.** Handlers and jobs call libvirt and keep `DOMAIN_LIST`
beside it.  Most of the code edits domain XML.  Correct: the list is what
libvirt defines, whatever the order of callbacks and calls.

**virt_agent, migration.** Three jobs over two agents (migrate, monitor,
finish) and a rollback.  Hard: two requests for one domain, exceptions that the
rollback does not see, calls lost after libvirt moved the domain, jobs that
poll jobs of the other pool.  Correct: a domain exists somewhere, a rollback
restores the source and spares a moved domain, success is complete.

**libvirt connections.** A pool with `get` and `put`, and an event connection
that a close callback replaces.  Correct: no caller gets a connection twice, a
close event is followed by a reconnection.

**storeagent.** `DATASTORE_LIST` in memory, an XML file and a section of
`datastore.cfg` per store, mounts and iSCSI sessions.  Hard: the four are
changed one after the other, with error paths of their own, and only the first
is lost at a restart.  Correct: they agree between operations.
`multipath.conf` is read, changed and written back by three operations.

**net_agent.** Bridges, uplinks, ports, ACL and QoS in Open vSwitch, with XML
records beside them, no lock.  Correct: record and switch agree.

**Exporter.** `/perf` puts samples into a circular queue; a goroutine moves
them to a channel; five handlers store them in maps; each fetch collects the
maps and deletes behind itself what it collected; `/metrics` shows the result.
Hard: only single map operations are atomic.  Correct: samples are neither lost
nor overtaken on the way in, deleted only after they are seen, and a device has
the score that it is shown with.

**iaas back end.** HTTP handlers over a database; a Kafka consumer group that
starts a goroutine for every message.  Correct: changes of one object are
applied in the order they were sent.

**Configuration, front end.** `BaseConfig.Set` is part of host mode; the getters
and the pages keep no state of their own.

## 2. What is modelled and checked

Twelve runs, one per component or part of one; all properties hold.

A module states its claims as named formulas, each with a comment of its own,
and bundles those of one question into one property of the run: `Consistent`
(types, and the pieces of state against each other), `AnswersAreTrue` (what an
answer says of the state), and so on.  A bundle is the conjunction given here.
The components of one agent are proved about in one module, so that they may not
have names in common: `HostMode`, `Domains`, `NetRules` and `InternalNic` put
`Mode`, `Dom`, `Rules` and `Nic` before names that another component of their agent
has too (`ModeSpec`, `rulesCall`).

| run | property | conjunction of |
|---|---|---|
| `job_worker` | `Consistent` | `TypeOK` `EachJobInOnePlace` |
| | `VerdictsHold` | `VerdictIsTrue` `ClientVerdictIsTrue` `EndedJobIsNotProcessing` |
| | `VerdictStands` `QueuedJobsEnd` `PollerLearnsVerdict` | |
| `net_copy` | `Consistent` | `TypeOK` `NewFileIsExact` `StuckOnlyByFailure` |
| | `CheckIsTrue` | `NoFalseAlarm` `SuccessIsVerified` |
| | `CopyIsKept` `TransferEnds` | |
| `file_transmit` | `Consistent` | `TypeOK` `OnePortOneServer` `PortsLeakOnlyUnopened` |
| | `FilesAreWhole` | `SuccessDelivers` `NoHalfFiles` |
| | `TransmitsEndOrHang` | |
| `host_mode` | `ModeConsistent` | `ModeTypeOK` `ConfigLossHasCause` |
| | `AnswersAreTrue` | `AcceptedIsDone` `RefusedIsUndone` |
| | `MaintenanceIsChecked` | |
| `migration` | `Consistent` | `TypeOK` `LostOnlyByStrayRollback` |
| | `RollbackIsSafe` | `RollbackSparesMoved` `RollbackRestores` |
| | `SuccessIsComplete` `MigrationsEnd` | |
| `perf_data` | `Consistent` | `TypeOK` `MissingScoreHasCause` |
| | `SamplesKeepOrder` `StoredIsSeen` `QueueIsFifo` | |
| `up_link` | `Consistent` | `TypeOK` `ReadsTheUplink` |
| | `AnswersAreTrue` | `AcceptedIsDone` `DeletedIsGone` `RefusedIsUndone` |
| | `ChangesHaveCause` | `SecondUplinkHasCause` `OnlyMovedPortsAreStray` |
| | `ModifyNicAnswersForTheCard` | |
| `net_rules` | `RulesConsistent` | `RulesTypeOK` `InForceIsAttached` |
| | `RulesAnswersAreTrue` | `AttachedIsInForce` `RefusalHasCause` `FileAnswers` |
| `internal_nic` | `NicConsistent` | `NicTypeOK` `ConfIsLive` |
| | `NicAnswersAreTrue` | `SetIsDone` `RollbackRestores` `RaisedHasCause` |
| `data_store` | `Consistent` | `TypeOK` `FilesFollowTheList` `OneStorePerTarget` |
| | `AnswersAreTrue` | `AcceptedIsDone` `RefusedIsUndone` |
| | `FilesAreLeft` | `WriteNeverOverwrites` `OrphanStays` |
| `libvirt_pool` | `Consistent` | `TypeOK` `FreeWithinMax` `ConnHasOneHolder` |
| | `NothingIsLost` | `NoConnIsLost` `ClosedIsNoticed` `StuckOnlyByRace` |
| | `EventsReturn` | |
| `domains` | `DomConsistent` | `DomTypeOK` `ListIsDefined` |
| | `AnswersAreTrue` | `AcceptedIsDone` `RefusedIsUndone` |
| | `ChangeIsKept` | |

`job_worker`, `net_copy`, `file_transmit`, `migration` and `libvirt_pool` use the
fair specification `FairSpec` of their module, the others `Spec`, `ModeSpec`,
`RulesSpec`, `NicSpec` or `DomSpec`.  Every cfg but
that of `libvirt_pool` says `CHECK_DEADLOCK FALSE`, because the instance really
comes to an end (all jobs done, all calls answered) and the program then waits
for a next call that the bounds exclude.

### Job worker: `JobWorker`, `MCJobWorker`, `SysAgentProofs`

`JobWorker` is the queue of jobs (`worker.py`, `worker_job.py`), one critical
section of the code per step.  `add_job` is `CreateJob`, `CacheJob`,
`EnqueueJob`, `MarkSubmitted`; a pool thread goes round `TakeJob`, `RunJob`,
`ReportProgress`, `JobSucceeds` and `SetFull` or `JobFails`, `NotifyAndLoop`;
the client that has the id polls with `QueryStatus` and `QueryProcess`, deletes
with `DelJob` or quits (`GiveUp`).  `queue`, `cache`, `status` and `process` are the
program's; `addPc`, `workerPc`, `workerJob`, `clientPc` and `seen` are where its
threads and clients are and what they hold; `outcome` and `notice` are history.
The functions of the jobs are opaque: they return, raise or, if in `Endless`,
never end.

*Run and bounds.*  Two jobs and two threads, one job endless.  A job meets every
other party (its `add_job`, its thread, its client, a deleter) in every order;
a second job is what it takes to compete for threads and for the cache lock,
and an endless one is what it takes to reduce the pool to one thread.  A third
job would only wait.

*Fairness.*  A handler or a thread that can run runs: weak fairness of the
steps of an `add_job` call once begun, of each pool thread and of the second
read of a query.  `CacheJob` and `QueryStatus` take the cache lock, which the
others may hold whenever the scheduler looks: strong fairness, as the code's
`threading.Lock` is always released after a few statements.  Nobody has to call
`add_job`, to delete or to give up.

*Shows.*  Jobs run once and verdicts are true.  `VerdictStands` is exact: the
one write that takes a verdict back is the late `SUBMITTED` of `worker.py:97`,
of a thread that ends the job between `put` and that line; the job then reads
`SUBMITTED` for ever.

### netcopy: `FileCopy`, `NetCopy`, `MCNetCopy`, `NetCopyProofs`

`FileCopy` promises: the receiver succeeds only with every byte of data in
place, after its sender; nothing changes once it is over.  `NetCopy` is one put or get over one connection
(`client.py`, `server.py`, `target.py`,
`protocol.py`, `ncpapi.py`) and implements it:
`CopyIsKept == Copy!Spec`, with `file <- dst` and the outcomes of the two
processes.  A file is a sequence of blocks, each a hole or data; a hash is the
sequence of blocks that went into it, so that two hashes agree exactly if the
blocks do (no collisions); offsets, sizes, the switch read at each of the
places where the code reads it, and both queues of bytes are kept, the latter
as queues of messages.  `Fault` is an exception or the death of a process,
`ConnectionReset` what the peer then sees, `Spin` the loop of `RecvAllData`
on a closed connection, `FlipSwitch` any other transfer of the process.
`upset` is history: whether a fault or a flip has come.

*Bounds.*  Files of at most two blocks (`MaxBlocks`), three contents.  Two
blocks give a first, a middle offset and a last, a hole before, after and
between data; the code keeps nothing from block to block but the offset and
the hash.  Two data contents make old and new data different.

*Fairness.*  Weak, for each side: both are threads that only wait for the
other.  `Fault` and `FlipSwitch` need not come.

*Shows.*  A copy into a new file is exact even if the switch changes in
mid-transfer; into an existing file it is exact only where the source has data (section 4).

### File transmit: `FileTransmit`, `MCFileTransmit`, `FileTransmitProofs`

`FileTransmit` (`driver.py` 249-639) has, for each transmit, its job (`tPc`,
`tOk`, `sent`), the server job it causes on the other host (`sPc`, `sStatus`,
`sAdd`, `cached`, `port`) and the file (`payload`, `dir`, `landed`); for each
host its port table (`busy`) and queue.  Actions: the gRPC handler
(`StartFileServer`, `NoAvailablePort`, `MarkSubmitted`), the server job
(`Listen`, `OpenFails`, `OpenFile`, `ReceiveAll`, `ReceiveFails`, `ServerSpins`,
`EndServerJob`), the transmit job (`ServerStarted`, `CallLost`, `ServerReady`,
`Connect`, `ConnectionRefused`, `SendAll`, `ClientFails`, `ClientSpins`,
`ServerFinished`, `QueryFails`, `DeleteServerJob`, `DeleteFails`), both pools
(`RunTransmit`, `RunServer`), other programs on a port (`BindFails`), `Restart`.
The copy is two steps, as `FileCopy` promises; the job statuses include the late
`SUBMITTED` of `JobWorker`.

*Bounds.*  Two transmits in three setups: crossing, without faults, on pools
of one thread, the smallest in which they can wait for each other; and side by
side to one host with faults on pools of two threads, with one port to compete
for and a restart, or with a port each.  The real pools have four free threads;
filling them takes four transmits each way and the same steps.

*Fairness* (used where `Faults` is false).  Handlers, pool threads and
jobs that can step do.  Restarts are neither required nor excluded.

*Shows.*  Ports are exclusive and leak in one way; success means delivered and
cleaned up.  A transmit ends or hangs for one of the five reasons that `Hangs`
names; each of the five is reached, since without it the run fails.

### Host mode: `HostMode`, `MCHostMode`, `SysAgentProofs`

`HostMode` (`driver.py` 642-777, `sys_util.py` 225-260) has the mode in memory,
`global.cfg` (its mode, and whether it is whole, cut or empty), and the calls:
`StartSetHostMode`, `SysPreCheck`, `CheckJobs`, `SetSysHostMode`, `ReadCfg`, `OpenCfg` (which
truncates), `WriteCfg`, `CfgFault` (the file cannot be opened), `LoseCfg` (the disk is
full); jobs come, run, end and are deleted beside
them (`AddJob`, `ModeRunJob`, `EndJob`, `ModeDelJob`), a shutdown is admitted and queued in
two steps (`AdmitShutdown`, `AddShutdown`), and `Restart` reads the file or stays down.  `late`,
`alone` and `torn` are history.  The hooks of virt_agent and storeagent are
empty in this code and are not modelled.

*Bounds.*  Two callers (any two calls, one after another or side by side), one
job, one shutdown, failing and lost writes at any point, restarts without bound.  Callers
are symmetric.

*Shows.*  What can break the file is a write cut short or lost, or two writes
side by side, nothing else; a single call does what it answers, with three
exceptions which the properties name: `UNKNOWN` is left alone in memory, a
rollback to maintenance may be stopped by a job in the cache (`driver.py`
734-735), and a full disk is answered like a success over an empty file (section 4).  A host may be shut down in normal
mode (section 4).

### Migration: `Migration`, `MCMigration`, `MigrationProofs`

`Migration` (`libvirt_driver.py` 443-900, `migration.py`, `rpcapi.py`) has, for each host and domain, what
libvirt knows (`vm`: state, snapshots, overlays, block job), for each request its
migrate job (`pc`, `kept`), the monitor (`mon`), the finish job at the
destination (`fin`), and the two queues.  `moved` and `reverted` are history.
One disk per domain, snapshots all there or not, a suspended domain counts as on, no
start of a domain, clients ask only the host that had the domain first, image
paths left out.  `FinishReplied` is the end of the call that queues the finish job, with the late
mark of `add_job` (`virt_agent/worker.py` 91-92), `QueryFails` is a lost poll, `DomainStops` a guest that stops
at any point.

*Bounds.*  Two requests: rivals for one domain, two that cross, or one to the
host itself; pools of two threads, the smallest in which a monitor and a
migrate job of one request run together.

*Fairness.*  Weak, of the jobs, the finish jobs, the end of the monitors and the pools: threads run and their calls
return.  Requests, lost polls and stops of guests need not come.

*Shows.*  A domain is lost only by the rollback of another request: the second
of two requests for one domain fails its check because the first has moved the domain, rolls back, and its
`RevertMigration` undefines the domain at the destination; so does a request to
the host itself.  A migrate job ends unless it is in one of the waits that
`MigrationsEnd` lists, each of which is reached.

### Exporter: `FifoQueue`, `MyQueue`, `PerfData`, `MCPerfData`, `PerfDataProofs`

`FifoQueue` is a bounded queue.  `MyQueue` is the array with two indexes of
`models/Queue.go`, and implements it (`QueueIsFifo == Fifo!Spec`) with
`Contents`, the slots from front to rear.  `PerfData` extends it with the
rest of the way (`device_allPermData.go`, `device_alert.go`, `device_cmdb.go`,
`metric_device.go`, `metricData.go`): `UpdateDevicePermData`, the goroutine that
empties the queue (`TakeFromQueue`, `SendToChan`), the handlers (`Receive`,
`LoadEntry`, `GetDeviceCMDB`, `QueryDeviceCMDB`, `UpdateAlertScore`,
`UpdateDeviceMetric`, `LoadEntryAgain`), a fetch (`BeginFetch`, `RangeMetrics`,
`RangeScores`, `FillDeviceMetric`, `Publish`) and the two clean-ups that run on
behind it (`clearOldPerms`, `clearOldAlerts`).  Each map operation is a step; a
`Range` visits one device per step; entries are objects, named by the call that
made them, so that an entry that was deleted from the map while somebody holds
it can be told from the one that took its place.

*Bounds.*  Three samples of one device, two handlers, a channel of one (the
code: five and five), three slots, two fetches by one timer.  A device's entries do not
touch another's; two handlers are what it takes to race for one entry; three
slots make both indexes go round; a second fetch is what it takes to overlap a clean-up.

*No liveness:* the CMDB client has no timeout, so a handler may wait for ever
and the code promises nothing.

*Shows.*  The way in loses and reorders nothing that was accepted.  A sample is
deleted unseen only where two clean-ups of one device overlap.

### Uplinks and cards: `UpLink`, `MCUpLink`, `NetAgentProofs`

`UpLink` (`NicManager.py`, `net_agent_api.py`) is `AddUpLink`, `DelUpLink`,
`ModifyUpLink` and `ModifyNic`.  net_agent keeps nothing: `ports` is what Open
vSwitch has, `driver` what the kernel has, and every command is a step of the
calling thread.  `get_uplink_port_name` is `ListInterfaces`, `LookAtInterface`,
`ListPorts` and `MatchPort`; `set_single_uplink_port` and `set_bond_uplink_port`
are `Decide`, `CheckFree` and `AddPort`; `remove_port` is `CheckPort` and `RemovePort`;
`ModifyNic` is `DetachDriver`, `AttachDriver` and `SetMtu`.  `CommandFails` is a command
that fails, which also stands for an illegal bond mode, driver or MTU.  `alone` is history.

*Bounds.*  Three calls, two at a time, two switches, two cards, one bond, one
port of a virtual machine, a failing command among the calls under way.  Two cards make a bond;
two switches are what it takes to move a port under a call; a third call is
what it takes to find what two have left.

*Shows.*  The name that is read is the uplink's, but for the cases `Unreadable`
lists; `DelUpLink` answers `SYS_OK` in those with nothing deleted; a refused
`ModifyUpLink` may have removed the old uplink; two uplinks on a switch, or the
removal of a port of another switch, take calls side by side or a failing command.

### Traffic rules: `NetRules`, `MCNetRules`, `NetAgentProofs`

`NetRules` (`AclManager.py`, `QosManager.py`) has the filter and policy files
(absent, torn or a list of rules) and what is in force at each port.  Attach and detach are
`CallOnTap`, `CheckFile`, `ReadOfport`, `Parse`, `RunRule` or `RuleRaises`,
`Attached`; the requests on files are `CallOnFile`, `RulesCallDel`, `OpenFile`, `WriteFile`;
`RulesFail` is a failing command or write and `Unplug` the end of a virtual machine.
`attached` and `rulesDirty` are history.  A rule is what it matches, or everything;
`Narrower` says which matches lie within which, since `ovs-ofctl del-flows` without
`--strict` takes those away too.

*Bounds.*  Three calls, two at a time, one port, two filters, one policy; of the
three contents of a filter two are apart, two share a rule and two have a rule within
one of the other.  Ports do not interact; two filters are what it takes for one to
remove the flow of the other.

*Shows.*  Nobody remembers what was attached: what is in force is what the
attached files say only while the files stay and the calls for a port do not
overlap.  Detaching a filter also removes the flows of another that match less
(without that cause TLC finds `InForceIsAttached` violated).  The flow to a policy's
queue is never removed.

### Switches and internal cards: `InternalNic`, `MCInternalNic`, `NetAgentProofs`

`InternalNic` (`net_agent_api.py`, `NicManager.py`) treats a handler as
the list of its commands (`AddvSwitch`, `SetInternalNicParam`, `Rollback`, ...), and an action is one kind of
command (`AddBr`, `MakeConf`, `SetVlan`, `ReadConf`, `OpenConf`, `WriteConf`, ...)
at the head of a thread's list; `NicFail` raises there, and for
`SetInternalNicParam` the list becomes that of the rollback.  `conf` is the
ifcfg file, read, truncated and written for every key.

*Bounds.*  Two calls, side by side, for one switch, two values, five kinds of
request, a VLAN or MTU that is no number, one failure per call, in the change or in
its rollback.  Switches share nothing but the default route.

*Shows.*  Card and file agree except after calls side by side or a failure.  A rollback
restores VLAN and MTU; it does not begin, or stops halfway, where there was no VLAN or
no address to go back to.  A VLAN or an MTU that is no number raises `ValueError`,
which nothing catches: there is no rollback, and a VLAN already set stays.

### Data stores: `DataStore`, `MCDataStore`, `DataStoreProofs`

`DataStore` (`store_driver.py`, `store_util.py`, `storeapi.py`) has the parts of a store: its entry in
`DATASTORE_LIST`, its XML file, its section of `datastore.cfg`, its mount.  The
requests are lists of steps (`CreateLocalStore`, `DeleteLocalStore`, ...), each
step an action with its guard and answer (`NotListed`, `NoFileYet`, `DiskIsFree`, `OpenFile`,
`WriteFile`, `AppendEntry`, `Pop`, `ChangeSection`, `Mount`, `Umount`, ...);
`Fail` is a file that cannot be opened, written or removed, an illegal title or a
command that fails; `LoseSections` is a full disk under `BaseConfig.Set` or
`DeleteSection`, which costs every store its section while the request goes on;
`Restart` empties the list, and `datastore.cfg` where it was being written.
`unwritten` and `orphans` are history.

*Bounds.*  Five requests and restarts, two at a time, two names, two disks, one
iSCSI target.  A create, a start, a restart, and two requests that meet what is
left is the longest history that the four parts can tell apart.

*Shows.*  The parts agree except where a restart, a block store, a failing
write or requests side by side have been.  `STORE_OK` of a creation, a start or a
stop promises nothing of the section where a write of `datastore.cfg` was lost, and
such a write costs the other stores theirs too.  A deletion that fails half way has
no rollback.  After a restart, or such a deletion, a store can neither be deleted nor
created again.

### Libvirt connections: `LibvirtPool`, `MCLibvirtPool`, `VirtAgentProofs`

`LibvirtPool` (`libvirt_util.py`, `worker_job.py` 25-60) has the free list of
`ConnectionPool`, what each borrower is doing, the connection of `LibvirtEvent`
and the close job of each connection.  `get` is `BeginGet`, `LookAtSize`, then
`OpenConn` and `WatchConn` or `PopConn` and `CheckConn`; `put` is `BeginPut` and
`PutConn`; the close job is `CheckEventConn`, `SetConnecting`, `DisableEvents`,
`WhileNotEnabled`, `EnableEvents`, `ClearConnecting`.  Each hold of a lock is a step.
`LoseConns` is libvirtd stopping or one connection closing, `LeaveConn` an invalid
request, for which `CreateDomain` and `ModifyDomain` do not give their connection
back.  `raced` and `missed` are history.

*Bounds.*  Two borrowers beside the event connection, a list of one, three
closes.  Two borrowers race for one connection; the third close is what it
takes to hit the close job of the second while the first still has
`CONNECTING`.  A connection that nobody knows any more gives its number back,
so eight numbers are enough for any history.

*Fairness.*  Weak, of libvirtd being started again, of the enabling borrower
and of the close jobs: the event loop and the pool threads run.  Nothing is asked of
the other borrowers.

*Shows.*  The list is bounded and a connection has one holder although `get`
looks and pops under two holds of the lock; what the race does is raise
`IndexError`, which in the close job leaves `CONNECTING` set for good.  The events come back
unless that happened, a close came while another job was about to clear
`CONNECTING`, or the connection had no callback yet.

### Domains: `Domains`, `MCDomains`, `VirtAgentProofs`

`Domains` (`virt_agentd.py`, `xml_util.py`, `libvirt_driver.py`) has
`DOMAIN_LIST`, what libvirt has defined, and the document a domain runs with.  The
requests are `CallCreate`, `CallDelete`, `CallModify` and then `GetConn`,
`Exists`, `Define`, `AppendDomain`, `Undefine`, `PopDomain`, `ReadDomain`,
`Redefine`, `LibvirtFails` (the call may have been done, its reply being lost:
`ReplyLost`); `Answer` has the `put` of the `finally`, which raises for a connection that
has died; jobs do `DomainStart` and `DomainStop`; `Restart` rebuilds the
list from libvirt.  A document is the disks under the names that
`XmlManagerDomain` gives them by position (`RefreshTargetDevs`) and the
interfaces.

*Bounds.*  Three requests and restarts, two at a time, one domain of up to three disks
with three sources, one interface, one connection that is lost or dies, or one refusal, at a time.
Domains do not interact; three disks are what it takes to take one from the
middle; the third request meets what two have left.

*Shows.*  The list is what libvirt has defined unless requests overlapped,
there was no connection or it was lost with the reply.  A change stays unless
requests overlapped, or the domain was modified while it ran.  Names of disks
are not kept: a request may displace another disk.  An undisturbed request that
was refused has done nothing, unless its connection died on the way: then the
definition may be what was asked for, and if the request raised the list may be,
but nothing else.

## 3. What is proved

TLAPS proves the following for every value of the constants that the modules'
assumptions allow: every property of a run but the six of liveness.
`SysAgentProofs` is about `JobWorker` and `HostMode`, `NetAgentProofs` about
`UpLink`, `NetRules` and `InternalNic`, `VirtAgentProofs` about `LibvirtPool`
and `Domains`, each a part of its own; `Consistent` and the like, without a
prefix, are the first one's there.

| module | theorem | states |
|---|---|---|
| `SysAgentProofs` | `TypeCorrect` | `[]TypeOK` |
| | `JobsRunOnce` | `[]Consistent` |
| | `VerdictsAreTrue` | `[]VerdictsHold` |
| | `VerdictsStand` | `VerdictStands` (action property) |
| | `ConfigLossExplained` | `[]ModeConsistent` |
| | `MaintenanceChecked` | `[]MaintenanceIsChecked` |
| | `AnswersTrue` | `[]AnswersAreTrue` of `HostMode` |
| `NetCopyProofs` | `TransferIsExact` | `[]Consistent` |
| | `CheckTells` | `[]CheckIsTrue` |
| | `CopiesAsPromised` | `CopyIsKept` (refinement of `FileCopy`) |
| `FileTransmitProofs` | `PortsAreKept` | `[]Consistent` |
| | `SuccessIsDelivery` | `[]FilesAreWhole` |
| `MigrationProofs` | `LossExplained` | `[]Consistent` |
| | `RollbackSafe` | `[]RollbackIsSafe` |
| | `SuccessWhole` | `SuccessIsComplete` (action property) |
| `PerfDataProofs` | `QueueImplementsFifo` | `MyQueue` implements `FifoQueue` |
| | `ExporterQueueIsFifo` | `QueueIsFifo` (the same, inside the exporter) |
| | `SamplesInOrder` | `[]SamplesKeepOrder` |
| | `MissingScoresExplained` | `[]Consistent` |
| | `NoSampleDeletedUnseen` | `[]StoredIsSeen` |
| `DataStoreProofs` | `PartsAgree` | `[]Consistent` |
| | `AnswersTell` | `[]AnswersAreTrue` |
| | `FilesStay` | `FilesAreLeft` (action properties) |
| `VirtAgentProofs` | `PoolIsConsistent` | `[]Consistent` |
| | `NoneIsLost` | `[]NothingIsLost` |
| | `DomainsAreConsistent` | `[]DomConsistent` |
| | `ChangesAreKept` | `[]ChangeIsKept` |
| | `DomainAnswersAreTrue` | `[]AnswersAreTrue` of `Domains` |
| `NetAgentProofs` | `UplinksAreConsistent` | `[]Consistent` |
| | `UplinkAnswersAreTrue` | `[]AnswersAreTrue` |
| | `UplinkChangesHaveCause` | `ChangesHaveCause` (action property) |
| | `ModifyNicAnswers` | `ModifyNicAnswersForTheCard` (action property) |
| | `PortsHaveTheirRules` | `[]RulesConsistent` |
| | `RuleAnswersTell` | `[]RulesAnswersAreTrue` |
| | `InternalNicsAreConsistent` | `[]NicConsistent` |
| | `InternalNicAnswersAreTrue` | `[]NicAnswersAreTrue` |

Each follows from an inductive invariant, which the following names; the
property itself hardly ever is one.  An action property and a refinement are
proved of one step from a state of that invariant.

**Job worker.**  From `JobsAssumption`: the kinds of jobs are sets of jobs, and
`NoJob` is none.  That a job is nowhere twice needs that a job not yet put is in
no queue and no hand, that `workerPc` and `workerJob` go together, and that a
job still queued has no outcome.  `IInv` is `TypeOK`, `HandsMatchPc`,
`QueueIsSound`, `HandsAreSound`, `NotPutNotRun`, `VerdictIsTrue`, `SeenIsTrue`,
`ClientVerdictIsTrue`, `EndedJobIsNotProcessing`; each action preserves each
conjunct that it can disturb, with the library's facts about what a `put` and a
`get` do to places in the queue.  `VerdictsStand` comes from `HandsAreSound` (a
job in a thread's hands has no final status) and `NotPutNotRun`.

**netcopy.**  From `NetCopyAssumption`: a hole is a block, `Missing` is no
file, lengths are bounded by some number (any), the processes of `Shared` are
processes.  So files have any length.  The invariant describes the transfer from
the packets: `Handshake` (where the two sides may be, and when nothing has been
sent yet), `Exists`, `AtBlock` (what the sender holds), `Stream` and `EndComes`
(a packet carries the block it names, the `END` is last), `Count` (no more on
its way than the sender has read), `Placed` (a block of the destination is the
old one or the new), `NoneLost` (a block that was sent is on its way or in
place), `Complete`.  From these follow a copy without a gap and, for
`StuckOnlyByFailure`, that a reader whose peer ended well has an `END` to come.
For the check: `SwitchOn`, `SenderHash`, `Numbered` (the n-th packet from the
end carries the n-th block from the last sent), `ReceiverHash`: the two hashes
are prefixes of the source, as long as nothing has disturbed the transfer.  For
the refinement every action is shown to be one of a few moves (`StepIsMove`),
and every move a step of `FileCopy` or a stutter (`MoveIsKept`); the receiver's
last move needs `Complete`.

**File transmit.**  From `FileTransmitAssumption`: ports are numbers, `NoPort`
is none, the setups have their types.  `QueueInv` (a job waits once, in the
queue of its own host, and only while it is queued) makes a job run once;
`NoServerYet` and `Reported` (a server job that says it succeeded has written
the whole file, and so it is when the transmit job has read that) carry the
delivery across the poll.

**Host mode.**  From `HostModeAssumption`: jobs and shutdowns are different,
`Faults` is a Boolean.  `CfgInv`: as long as no two writes of the file have
overlapped and none was cut short or lost, one call is between opening and writing it,
and writes the ports that it has read.  `AloneInv`: what a call that no other
has overlapped has done to the mode and the file at each place (`Progress`),
its rollback included.

**Migration.**  From `MigrationAssumption` (there is a domain, a domain has a
home, there is a thread, `None` is no number) and `AskedAssumption` (what may
be asked for is a set of domains and hosts).  `QueueInv` as above; `StageInv`
(what a migrate job has done, and which of its monitor and finish jobs may run,
by the time it is where it is); `LeftInv`, `HomeInv`, `MovedInv` (a domain has
left its home only for the destination of a request that moved it, and that
only by a stray rollback), from which `LossExplained`; `Untouched`,
`SourceInv`, `DestInv` (without a rival, what is at the source and at the
destination is what the job has noted), from which the rollback and the
success.

**Exporter.**  From `CapAssumption` (`Cap` is a positive number) and
`DeviceAssumption` (samples are numbered, `nil` is none of them).  With both
indexes in range, adding one modulo `Cap` lengthens `Contents` at the rear or
shortens it at the front, by lemmas on `%`; so a put is an `Append` and a get a
`Tail`; every action of the rest of the exporter leaves the queue alone.
`SamplesKeepOrder` needs in addition that no slot of `Contents` is empty
(`OrderInv`): an empty slot in the writer's hand would be dropped.  `TypeInv`
adds to `TypeOK` where a handler has a sample and an entry, and with `OrderInv`
makes `MissingScoreHasCause` inductive.  `StoredIsSeen` needs `SeenInv`: an
entry is stored under its own device (`EntriesAreOwn`), a device that is not
overlapped is claimed by one fetch or clean-up (`ClaimIsSole`), which has
collected the entry it will delete (`ClaimIsSeen`), and the entry that a
handler will still write to is in the map or collected (`WritersAreKept`).

**Data stores.**  From `DataStoreAssumption` and `NamesAssumption`: disks and
targets are different, none of them is `NoFile`, `Torn` or `NoDisk`, and
`NoName` is no name.  A request is always at a tail of its list of steps
(`PlanInv`), and every action is shown to change only its own request's name, sections apart
(`EveryStep`), so that the argument is one table over the steps, read twice.
A step ends in one of four ways (`Ways`): it goes on, goes on although the
sections are lost, is refused, or fails.
`StageInv`: the parts of a name that no request changes are whole, and those of
a name that one changes are as its step says (`StageOf`).  `DoneInv`: the same
for an undisturbed request against the state before it (`DoneOf`), which gives
the answers.  `DirtyInv` and `AloneInv` say that requests side by side are
recorded as such, `OrphanInv` that no request gets past the checks for a name that
a restart or a failed deletion dropped (`OrphanJoins`), and `TargetInv` that the creation of a block store meets every
file with its target while it scans.

**Libvirt connections.**  For any number of borrowers, connections and closes
and any size of the list.  From `LibvirtPoolAssumption`: `Enabler` is not a
user, connections are numbers, two of them those of the start, `NoConn` is
none, and the list has room for one.  The proof goes in layers, each an
invariant proved from those before.  `TypeInv`: a borrower has a connection
exactly at the places in `get` and `put` where it should (`HandsMatchPc`).
`PoolInv`: only `OpenConn` and `PopConn` give a borrower a connection, the one
a fresh one and the other the last of a list without repetition, so no
connection comes into two hands.  `JobInv`: one close job connects at a time,
and from its check to its `disable` the event connection is the one it was
called for.  `HoldInv`: an open connection is held, the one a job replaces is
held by nobody, and one that closes in the hands of `enable` has its job
waiting; this is what `ClosedIsNoticed` needs when `enable` hands it over.

**Domains.**  For any number of threads, domains, requests and restarts.  From
`DomainsAssumption` (there is a domain, `Empty` is no source, documents have
room for at least one disk) and `UndefinedAssumption` (`Undefined` is no
document).  The invariant is `DomInv`: `DomTyped` (a call at a step is of the
kind that has this step, and what it will define is what it read, modified);
`SizeInv` (the documents of a domain leave room for all the disks that its
requests under way may still add, which makes the bound `MaxDisks` on the
inputs a bound on the documents); `ListInv` (a domain that is not in `dirty`
has one request at most, which stands where the list and libvirt say: `Way`);
`KeptInv` (the sources that were given are in the definition, and what a
modification has read is still the definition when it writes it back);
`AloneInv` (what an undisturbed call has found and done: `Story`; what may be
told of it when it is over, `put` raising or not: `Told`).  Beneath it
are lemmas on documents: what `RefreshTargetDevs`, an addition, a deletion, a
mount, an ejection and a retargeting do to the sources, for any number of
disks.  `KeptInv` was not inductive at first: requests side by side on one
domain mark it as `dirty`, a restart forgets them and clears `dirty`, but a
source that the second had overwritten stays lost.  TLC needs four calls
(create, two that overlap, restart) to show it and the run has three; `Restart`
now records such a domain in `stale`.

**Uplinks.**  From `UpLinkAssumption`: there is a switch and a bond, `NoName`
is the name of no card and no bond, and the cards of a host are finitely many.
`UpLinkInv` is `TypeOK`, `PortsSound` (every port has a card, a port of one
card has its name, two ports have neither name nor card in common, which is
what makes the name in a call's hand mean one port), `CallSound` (a call about
to remove a port removes the uplink of its switch, or the port has moved) and
`AloneInv`: the story of an undisturbed call, which is what it has seen of the
cards of the uplink at each step of `get_uplink_port_name`, and that a
`ModifyUpLink` past its removal has left the other ports alone.  The uplink that
could not be read (`Unreadable`) is carried along it as the reason why a name
was not found.

**Traffic rules.**  From `NetRulesAssumption`: there is a port and a content,
filters are not policies, contents are lists of rules, a match covers itself.  `RulesInv` is
`RulesTyped`; `CollideInv` (two calls under way that may disturb each other
have marked their ports); `ForceInv` (at a port without a mark every attached
file is there and, if no call works on it, what is in force is due; if one
does, it is due but for the rules that this call has still to send: `Working`);
`RulesAloneInv` (the story of an undisturbed call).  A detach takes away what
its rules cover of another attached file of the port, so that what it leaves is due
only if they cover none: `Working` says nothing of a detach that does, and
the mark that `Attached` puts at its end is what makes up for it.

**Switches and internal cards.**  From `InternalNicAssumption`: there is a
switch, `Unset` and `Other` are no switches and `Unset` is no value, a request
asks for some of the four parts.  The lists of commands are put in an order
(`Rank`) along which every list of the module increases, so that a thread's
list is told by the set of its steps; `NicTyped` says that what is left is an
upper end of the handler's plan.  `LiveInv` says for a switch without a mark
that one call at most works on it, that its card and its ifcfg file agree when
none does, and otherwise what each of the steps of `save_conf_file_item` and of
the address leaves in between (`Stage`).  `NicAloneInv` is the tale of an
undisturbed `SetInternalNicParam`: what it has set, what it has read to go back
to, and how much the rollback has taken back (`FirstTale`, `BackTale`,
`SetTale`).

Model-checked only, on the bounds of section 2, is liveness, which rests on
fairness and is beyond the prover: `QueuedJobsEnd`, `PollerLearnsVerdict`,
`TransferEnds`, `TransmitsEndOrHang`, `MigrationsEnd`, `EventsReturn`.

## 4. Disagreements

What the code does against what a comment, a test or a name says.  The models
follow the code; where a property has an exception for one of these, its comment
names it.

- A job whose thread ends before `add_job` marks it reads `SUBMITTED` for ever
  (`worker.py:97`); `test_sysagentd.py:201` asks for `FINISHED_SUCCESSFULLY`.
  In virt_agent (`worker.py:92`) it is the finish job of a migration that may, and
  the migrate job then polls it until a poll fails (`rpcapi.py` 35-44).
- A copy over an existing file keeps its old blocks under the holes of the
  source, and the MD5 sums match: they are of the stream
  (`target.py:193`, no `O_TRUNC` at `target.py:472`).
- `ShutdownHost` looks at the mode once and queues a job that does not look
  again (`driver.py:769`); `driver.py:770` says "only in maintenance mode".
- `DomainMigrate` deletes the snapshots and rolls back only on
  `VirtAgentException`: a `libvirtError` or an `AttributeError` on the way leaves
  them deleted (`libvirt_driver.py:661`), where `libvirt_driver.py:450` says
  "Backup local snapshot xmls and delete".
- A device whose entry is there and whose score is not is shown as unavailable
  (`metric_device.go:42`).
- An MD5 mismatch is reported as success: the exception stays in the server's
  thread (`target.py:263`, `client.py` 23-25, `driver.py` 298-300).
- `PROCESSING` is taken for "the server listens", but is set before `bind`
  (`driver.py:517`).
- Maintenance is refused while the cache holds jobs that have ended
  (`worker.py:123` against `driver.py:653`).
- The put job of the client may succeed before the server has finished
  (`target.py:148`; `test_sysagentd.py` 156-159 asks for both).
- `conf.write(open(path, 'w'))` leaves the flush to the finaliser of the file
  (`sys_util.py` 243, 256, 269), which drops its error: on a full disk `SetHostMode`
  answers `SYS_OK` over an empty `global.cfg`, without which sysagentd does not
  start again, where `driver.py:690` has "set host mode to global config file failed";
  `datastore.cfg` loses the sections of all stores behind `STORE_OK`.
- `SetHostMode` with `UNKNOWN` is accepted and leaves memory unchanged
  (`driver.py:655`).
- Migration: `RevertMigration` raises `KeyError` near line 827 before it
  removes images; a request without `destination_json` raises `KeyError`;
  an offline migration raises `AttributeError`; `memory_snapshots` are copied
  with source and destination exchanged (612-614); the results of the CPU and
  memory checks and of the prepare call are not looked at; a job unknown to a
  restarted destination is polled for ever.
- Uplinks: `DelUpLink` answers `SYS_OK` with nothing deleted when the uplink
  could not be read; the answer for the MTU overwrites that for the driver.
- Internal cards: a VLAN or MTU that is no number leaves `SetInternalNicParam` with
  a `ValueError` and without rollback (`OvsManager.py:73`, `NicManager.py:184`,
  `net_agent_api.py:315`); `ModifyvSwitch` that fails raises `AttributeError` on a field
  its request lacks (`net_agent_api.py:278`).
- Rules: detaching a filter deletes the flows of other filters that match less
  (`AclManager.py:310`, no `--strict`); a filter that matches everything raises
  `IndexError` when it is attached; the default action is always written `accept`; `dst_mac` is parsed
  as `dl_src`; a policy's flow to its queue is never removed.
- Stores: creating a block store always ends in `STORE_UNKNOWN_ERROR` with the XML
  file left, and no block store can be started, stopped or deleted; a store with `auto_mount`
  becomes active without a mount; the rollback of `CreateLocalStore` never runs;
  a `%` in a title raises `ValueError` (`store_driver.py:639`); deleting does
  not look at the state or the mount, and a deletion that fails half way leaves a file
  without an entry, which nothing can delete.
- Domains: disks are renamed by position after each addition and deletion, which
  undoes an `UPDATE` of a name and may point a remembered name at another disk;
  `CreateDomain` may overwrite the source of another disk; without a connection
  `CreateDomain` and `DeleteDomain` answer OK; a request to delete both disks and interfaces takes only
  the disks; `utils.generate_libvirt_error` does not exist, so that `ModifyDomain`
  raises where `test_domain.py` (`test_modify_vcpu_failed`) expects
  `LIBVIRT_ERR_XML_ERROR`; `put` in the `finally` raises `libvirtError` for a connection
  that has died (`libvirt_util.py` 157-160), which hides the answer of a request that may be
  done; a `defineXML` or `undefine` whose reply is lost is done and answered as an
  error, and leaves list and libvirt apart until the next restart; the readers answer errors with `DomainDeleteRes`.
- Connections: a `CreateDomain` request that is not valid, and a `ModifyDomain` request that
  is no JSON, keep a connection (`virt_agentd.py` 197-203 and 392).
- Exporter: two first scrapes start two timers (`metricData.go` 14-25); a sample
  that the full queue refuses is answered with 200.

## 5. Not modelled

Volumes (calls of `qemu-img`), scans of sysfs and iSCSI, the pages of the front
end, database handlers, the requests that only read: input and output, no state
that two actors share.  Host performance sampling: reads of `psutil` into
variables nobody waits for.  Byte layout, CRC, formats and log texts are
abstracted everywhere.  File servers and clients started directly over gRPC are
modelled only as ends of `NetCopy`.

Left out of modules that are there: the local pool of storeagent and the making
of its mount directories, and `STORE_IS_BUSY`, which is one with a failing
command; the `GATEWAY` key of the ifcfg file; in a domain's document all but disks and
interfaces, buses other than one, more than three disks, the fields a
request may change that touch neither, an `UPDATE` of the name and the source of a disk
at once (`MOUNT` stands for one of the source alone) and of the MAC of an interface;
what the published list of the exporter shows (scores, CMDB records); snapshot requests other than those of a
migration; what the network commands print, of which the models take the
meaning; the normalisation of a match by Open vSwitch (a port without a protocol); a
configuration file that a full disk cuts in the middle: one that fits into a block is
written by one call, and is there or empty.

## 6. Plan

What remains, in this order.

1. `ManagerBinding` (`sysapi.py` 31-106): two managers, one file.
2. `MultipathConf` (`multipath.py` 166-275): read, change, write back, against
   an abstract set of options.
3. Snapshot requests of `virt_agent`, beside `Domains`; `Domains` composed with
   `Migration`, which does not update `DOMAIN_LIST` and has the domain defined on
   both hosts between `migrateToURI3` and `undefine`
   (`libvirt_driver.py:443`).
4. The logout of `GetIscsiLunListByTarget` (`disk_manager.py` 704-755) against
   a scan that runs beside it.
5. `KafkaConsumer` (`iaas/kafka/consumerGroup.go`, `upgrade.go`): a goroutine
   per message, a channel of one, additions and changes delayed by 100 ms and
   deletions not, offsets never marked.
6. Exporter: the CMDB client without timeout, which lets the queue fill and
   samples be refused (`device_allPermData.go:121`).

Bounds will be of the kind above: two actors, one or two objects, one restart.

The theorems that these modules deserve are of the kind of section 3; of the modules
that are there, all safety properties that a run checks are proved.
