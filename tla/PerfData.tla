------------------------------ MODULE PerfData ------------------------------
(* The performance data of the exporter, from the samples that are posted to   *)
(* /perf to the fetch that publishes them (device_allPermData.go,              *)
(* device_alert.go, device_cmdb.go, metric_device.go, metricData.go).          *)
(*                                                                             *)
(* A sample goes through the circular queue, the goroutine that empties it, a   *)
(* channel and one of the handlers, which stores it in the entry of its device. *)
(* A fetch collects the entries and the alert scores, lets two background       *)
(* goroutines delete what it collected, and publishes the list, whose contents *)
(* are left out.  Nothing but the single map operations is atomic.             *)
EXTENDS MyQueue, FiniteSets

CONSTANTS Devices, Handlers, Fetchers,
          DeviceOf,    \* the device that a sample is about
          ChanLength,  \* newDeviceChanLength
          MaxFetches   \* bound: fetches that each fetcher begins

\* The samples, numbered from 1.
Samples == Elements

\* ResourceMetric objects, each named after the LoadOrStore call that made it:
\* the first (1) or the second (2) of the handler that had the sample.
Objects == Samples \X {1, 2}

ASSUME DeviceAssumption ==
  /\ Samples = 1 .. Cardinality(Samples)
  /\ DeviceOf \in [Samples -> Devices]
  /\ nil \notin Samples /\ nil \notin Objects
  /\ ChanLength \in Nat /\ MaxFetches \in Nat

VARIABLES
  writer,        \* the sample that writePermToChan holds
  newDeviceChan, \* the channel
  hpc, msg, obj, \* of each handler: where it is, its sample and its entry
  allMetrics,    \* device -> the entry in the map
  value,         \* of each object: the sample last stored in it
  allDevMap,     \* the devices whose CMDB record is known
  allAlertScore, \* the devices with an alert score; the code stores only 100
  metricDataInitialized,
  timer,         \* the fetchers that run a timer
  fpc, fetch,    \* of each fetcher: where it is, its running fetch (see NoFetch)
  fetches,       \* of each fetcher: the number of fetches it began
  oldPerms, oldAlerts,
                 \* of each fetch: the devices its clean-ups have still to delete
  posted, taken, collected, overlapped, scrubbed
                 \* history: samples accepted and received; objects that
                 \* a fetch saw; devices that two fetches cleaned at a time;
                 \* devices whose score was deleted from under their entry

handlerVars == <<writer, newDeviceChan, hpc, msg, obj, taken>>
mapVars == <<allMetrics, value, allDevMap, allAlertScore, scrubbed>>
fetchVars == <<metricDataInitialized, timer, fpc, fetch, fetches, collected, overlapped>>
cleanVars == <<oldPerms, oldAlerts>>
vars == <<queueVars, posted, handlerVars, mapVars, fetchVars, cleanVars>>

Nothing == [d \in Devices |-> nil]

\* A fetch: the devices its loop has still to visit, the entries it collected,
\* the devices with a score.
NoFetch == [left |-> {}, got |-> Nothing, scores |-> {}]

Cleanups == Fetchers \X (1 .. MaxFetches)

Init ==
  /\ InitQueue
  /\ posted = << >>
  /\ writer = nil /\ newDeviceChan = << >>
  /\ hpc = [h \in Handlers |-> "idle"]
  /\ msg = [h \in Handlers |-> nil]
  /\ obj = [h \in Handlers |-> nil]
  /\ taken = << >>
  /\ allMetrics = Nothing
  /\ value = [o \in Objects |-> nil]
  /\ allDevMap = {} /\ allAlertScore = {} /\ scrubbed = {}
  /\ metricDataInitialized = FALSE /\ timer = {}
  /\ fpc = [f \in Fetchers |-> "idle"]
  /\ fetch = [f \in Fetchers |-> NoFetch]
  /\ fetches = [f \in Fetchers |-> 0]
  /\ collected = {} /\ overlapped = {}
  /\ oldPerms = [c \in Cleanups |-> {}]
  /\ oldAlerts = [c \in Cleanups |-> {}]

-----------------------------------------------------------------------------
\* A sample is posted to /perf.  The reply is 200 whether or not the queue takes
\* it.  Samples that HandleMetricFromKafka ignores are left out; the others are
\* numbered in the order they are posted.
UpdateDevicePermData(s) ==
  /\ s = Len(posted) + Cardinality(refused) + 1
  /\ EnQueue(s)
  /\ posted' = IF isFull THEN posted ELSE Append(posted, s)
  /\ UNCHANGED <<handlerVars, mapVars, fetchVars, cleanVars>>

\* writePermToChan takes the oldest sample ...
TakeFromQueue ==
  /\ writer = nil
  /\ DeQueue
  /\ writer' = Oldest
  /\ UNCHANGED <<posted, newDeviceChan, hpc, msg, obj, taken, mapVars, fetchVars,
                 cleanVars>>

\* Mutant: a sample that finds the channel full is dropped.
SendOrDrop ==
  /\ writer # nil
  /\ newDeviceChan' = IF Len(newDeviceChan) < ChanLength THEN Append(newDeviceChan, writer)
                                                        ELSE newDeviceChan
  /\ writer' = nil
  /\ UNCHANGED <<queueVars, posted, hpc, msg, obj, taken, mapVars, fetchVars, cleanVars>>

\* ... and waits for room in the channel.
SendToChan ==
  /\ writer # nil
  /\ Len(newDeviceChan) < ChanLength
  /\ newDeviceChan' = Append(newDeviceChan, writer)
  /\ writer' = nil
  /\ UNCHANGED <<queueVars, posted, hpc, msg, obj, taken, mapVars, fetchVars,
                 cleanVars>>

-----------------------------------------------------------------------------
\* handleDevicePermDataFromChan
Receive(h) ==
  /\ hpc[h] = "idle" /\ newDeviceChan # << >>
  /\ msg' = [msg EXCEPT ![h] = Head(newDeviceChan)]
  /\ newDeviceChan' = Tail(newDeviceChan)
  /\ taken' = Append(taken, Head(newDeviceChan))
  /\ hpc' = [hpc EXCEPT ![h] = "load"]
  /\ UNCHANGED <<queueVars, posted, writer, obj, mapVars, fetchVars, cleanVars>>

Dev(h) == DeviceOf[msg[h]]

\* allMetrics.LoadOrStore(id, &ResourceMetric{}): an entry that is there stays.
LoadOrStore(d, o) ==
  allMetrics' = [allMetrics EXCEPT ![d] = IF @ = nil THEN o ELSE @]

LoadEntry(h) ==
  /\ hpc[h] = "load"
  /\ LoadOrStore(Dev(h), <<msg[h], 1>>)
  /\ obj' = [obj EXCEPT ![h] = allMetrics'[Dev(h)]]
  /\ hpc' = [hpc EXCEPT ![h] = IF allMetrics[Dev(h)] = nil THEN "cmdb" ELSE "update"]
  /\ UNCHANGED <<queueVars, posted, writer, newDeviceChan, msg, taken, value,
                 allDevMap, allAlertScore, scrubbed, fetchVars, cleanVars>>

\* UpdateDeviceCMDB asks the CMDB only for a device it does not know.
GetDeviceCMDB(h) ==
  /\ hpc[h] = "cmdb"
  /\ hpc' = [hpc EXCEPT ![h] = IF Dev(h) \in allDevMap THEN "score" ELSE "query"]
  /\ UNCHANGED <<queueVars, posted, writer, newDeviceChan, msg, obj, taken,
                 mapVars, fetchVars, cleanVars>>

\* Mutant: a device that the CMDB does not know gets no score.
QueryOrGiveUp(h) ==
  /\ hpc[h] = "query"
  /\ allDevMap' \in {allDevMap, allDevMap \union {Dev(h)}}
  /\ hpc' = [hpc EXCEPT ![h] = IF Dev(h) \in allDevMap' THEN "score" ELSE "update"]
  /\ UNCHANGED <<queueVars, posted, writer, newDeviceChan, msg, obj, taken, allMetrics,
                 value, allAlertScore, scrubbed, fetchVars, cleanVars>>

\* The answer of the CMDB, or an error, which leaves the device unknown.
QueryDeviceCMDB(h) ==
  /\ hpc[h] = "query"
  /\ allDevMap' \in {allDevMap, allDevMap \union {Dev(h)}}
  /\ hpc' = [hpc EXCEPT ![h] = "score"]
  /\ UNCHANGED <<queueVars, posted, writer, newDeviceChan, msg, obj, taken,
                 allMetrics, value, allAlertScore, scrubbed, fetchVars, cleanVars>>

UpdateAlertScore(h) ==
  /\ hpc[h] = "score"
  /\ allAlertScore' = allAlertScore \union {Dev(h)}
  /\ scrubbed' = scrubbed \ {Dev(h)}
  /\ hpc' = [hpc EXCEPT ![h] = "update"]
  /\ UNCHANGED <<queueVars, posted, writer, newDeviceChan, msg, obj, taken,
                 allMetrics, value, allDevMap, fetchVars, cleanVars>>

\* updateDeviceMetric writes into the object that LoadEntry returned, whether or
\* not it is still in the map.
UpdateDeviceMetric(h) ==
  /\ hpc[h] = "update"
  /\ value' = [value EXCEPT ![obj[h]] = msg[h]]
  /\ hpc' = [hpc EXCEPT ![h] = "reload"]
  /\ UNCHANGED <<queueVars, posted, writer, newDeviceChan, msg, obj, taken, allMetrics,
                 allDevMap, allAlertScore, scrubbed, fetchVars, cleanVars>>

\* The second LoadOrStore leaves an empty entry when the device was cleaned.
LoadEntryAgain(h) ==
  /\ hpc[h] = "reload"
  /\ LoadOrStore(Dev(h), <<msg[h], 2>>)
  /\ hpc' = [hpc EXCEPT ![h] = "idle"]
  /\ msg' = [msg EXCEPT ![h] = nil]
  /\ obj' = [obj EXCEPT ![h] = nil]
  /\ UNCHANGED <<queueVars, posted, writer, newDeviceChan, taken, value,
                 allDevMap, allAlertScore, scrubbed, fetchVars, cleanVars>>

-----------------------------------------------------------------------------
\* fetchAndUpdate: run by a scrape that finds nothing initialised, which then
\* starts a timer, and by that timer.
BeginFetch(f) ==
  /\ fpc[f] = "idle" /\ fetches[f] < MaxFetches
  /\ f \in timer \/ ~metricDataInitialized
  /\ fpc' = [fpc EXCEPT ![f] = "perms"]
  /\ fetch' = [fetch EXCEPT ![f] = [NoFetch EXCEPT !.left = Devices]]
  /\ fetches' = [fetches EXCEPT ![f] = @ + 1]
  /\ UNCHANGED <<queueVars, posted, handlerVars, mapVars, metricDataInitialized, timer,
                 collected, overlapped, cleanVars>>

\* Some fetch collected d and has not deleted it yet.
Claimed(d) ==
  \/ \E c \in Cleanups : d \in oldPerms[c]
  \/ \E f \in Fetchers : fpc[f] = "perms" /\ fetch[f].got[d] # nil

\* The loop goes on with the next device, or the step after the loop.
Visited(f, d, after) ==
  fpc' = IF fetch[f].left = {d} THEN [fpc EXCEPT ![f] = after] ELSE fpc

Collected(got) == {d \in Devices : got[d] # nil}

\* Mutant: every device is cleaned, not only those collected.
RangeAndCleanAll(f, d) ==
  /\ fpc[f] = "perms" /\ d \in fetch[f].left
  /\ fetch' = [fetch EXCEPT ![f].got[d] = allMetrics[d],
                            ![f].left = IF @ = {d} THEN Devices ELSE @ \ {d}]
  /\ collected' = collected \union ({allMetrics[d]} \ {nil})
  /\ overlapped' = IF allMetrics[d] # nil /\ Claimed(d) THEN overlapped \union {d}
                                                        ELSE overlapped
  /\ oldPerms' = IF fetch[f].left = {d}
                 THEN [oldPerms EXCEPT ![<<f, fetches[f]>>] = Devices]
                 ELSE oldPerms
  /\ Visited(f, d, "alerts")
  /\ UNCHANGED <<queueVars, posted, handlerVars, mapVars, metricDataInitialized, timer,
                 fetches, oldAlerts>>

\* RestoreAllPermData: Range comes to a device; after the last one a goroutine
\* starts that deletes the devices collected.
RangeMetrics(f, d) ==
  /\ fpc[f] = "perms" /\ d \in fetch[f].left
  /\ fetch' = [fetch EXCEPT ![f].got[d] = allMetrics[d],
                            ![f].left = IF @ = {d} THEN Devices ELSE @ \ {d}]
  /\ collected' = collected \union ({allMetrics[d]} \ {nil})
  /\ overlapped' = IF allMetrics[d] # nil /\ Claimed(d) THEN overlapped \union {d}
                                                        ELSE overlapped
  /\ oldPerms' = IF fetch[f].left = {d}
                 THEN [oldPerms EXCEPT ![<<f, fetches[f]>>] = Collected(fetch'[f].got)]
                 ELSE oldPerms
  /\ Visited(f, d, "alerts")
  /\ UNCHANGED <<queueVars, posted, handlerVars, mapVars, metricDataInitialized, timer,
                 fetches, oldAlerts>>

\* RestoreAllAlertScore, in the same way.
RangeScores(f, d) ==
  /\ fpc[f] = "alerts" /\ d \in fetch[f].left
  /\ fetch' = [fetch EXCEPT ![f].scores = @ \union ({d} \intersect allAlertScore),
                            ![f].left = IF @ = {d} THEN Collected(fetch[f].got)
                                                   ELSE @ \ {d}]
  /\ oldAlerts' = IF fetch[f].left = {d}
                  THEN [oldAlerts EXCEPT ![<<f, fetches[f]>>] = fetch'[f].scores]
                  ELSE oldAlerts
  /\ Visited(f, d, "fill")
  /\ UNCHANGED <<queueVars, posted, handlerVars, mapVars, metricDataInitialized, timer,
                 fetches, collected, overlapped, oldPerms>>

\* GetDeviceMetrics fills in the object of a device that it collected, with its
\* CMDB record and its score; both are left out.
FillDeviceMetric(f, d) ==
  /\ fpc[f] = "fill" /\ d \in fetch[f].left
  /\ fetch' = [fetch EXCEPT ![f].left = @ \ {d}]
  /\ UNCHANGED <<queueVars, posted, handlerVars, mapVars, metricDataInitialized, timer, fpc,
                 fetches, collected, overlapped, cleanVars>>

Publish(f) ==
  /\ fpc[f] = "fill" /\ fetch[f].left = {}
  /\ metricDataInitialized' = TRUE
  /\ timer' = timer \union {f}
  /\ fpc' = [fpc EXCEPT ![f] = "idle"]
  /\ fetch' = [fetch EXCEPT ![f] = NoFetch]
  /\ UNCHANGED <<queueVars, posted, handlerVars, mapVars, fetches, collected, overlapped,
                 cleanVars>>

clearOldPerms(c, d) ==
  /\ d \in oldPerms[c]
  /\ allMetrics' = [allMetrics EXCEPT ![d] = nil]
  /\ oldPerms' = [oldPerms EXCEPT ![c] = @ \ {d}]
  /\ scrubbed' = scrubbed \ {d}
  /\ UNCHANGED <<queueVars, posted, handlerVars, value, allDevMap, allAlertScore, fetchVars,
                 oldAlerts>>

clearOldAlerts(c, d) ==
  /\ d \in oldAlerts[c]
  /\ allAlertScore' = allAlertScore \ {d}
  /\ oldAlerts' = [oldAlerts EXCEPT ![c] = @ \ {d}]
  /\ scrubbed' = IF allMetrics[d] # nil THEN scrubbed \union {d} ELSE scrubbed
  /\ UNCHANGED <<queueVars, posted, handlerVars, allMetrics, value, allDevMap, fetchVars,
                 oldPerms>>

-----------------------------------------------------------------------------
Handle(h) ==
  \/ Receive(h) \/ LoadEntry(h) \/ GetDeviceCMDB(h) \/ UpdateAlertScore(h)
  \/ UpdateDeviceMetric(h) \/ LoadEntryAgain(h)

Next ==
  \/ \E s \in Samples : UpdateDevicePermData(s)
  \/ TakeFromQueue
  \/ SendToChan
  \/ \E h \in Handlers : Handle(h) \/ QueryDeviceCMDB(h)
  \/ \E f \in Fetchers : BeginFetch(f) \/ Publish(f)
  \/ \E f \in Fetchers, d \in Devices :
       RangeMetrics(f, d) \/ RangeScores(f, d) \/ FillDeviceMetric(f, d)
  \/ \E c \in Cleanups, d \in Devices : clearOldPerms(c, d) \/ clearOldAlerts(c, d)

Spec == Init /\ [][Next]_vars

-----------------------------------------------------------------------------
TypeOK ==
  /\ writer \in Samples \union {nil}
  /\ newDeviceChan \in Seq(Samples) /\ Len(newDeviceChan) <= ChanLength
  /\ hpc \in [Handlers -> {"idle", "load", "cmdb", "query", "score", "update", "reload"}]
  /\ msg \in [Handlers -> Samples \union {nil}]
  /\ obj \in [Handlers -> Objects \union {nil}]
  /\ allMetrics \in [Devices -> Objects \union {nil}]
  /\ value \in [Objects -> Samples \union {nil}]
  /\ allDevMap \subseteq Devices /\ allAlertScore \subseteq Devices
  /\ fpc \in [Fetchers -> {"idle", "perms", "alerts", "fill"}]
  /\ oldPerms \in [Cleanups -> SUBSET Devices] /\ oldAlerts \in [Cleanups -> SUBSET Devices]
  /\ DOMAIN fetch = Fetchers /\ timer \subseteq Fetchers

\* The samples that the queue accepted are, in the order they were accepted: those
\* that handlers took, those in the channel, the one in the writer's hand and
\* those in the queue.  None is lost, doubled or overtaken on the way
\* (device_allPermData.go 82-125, Queue.go 59-82).
SamplesKeepOrder ==
  posted = taken \o newDeviceChan \o (IF writer = nil THEN << >> ELSE <<writer>>)
                 \o Contents

\* An entry without an alert score has one of three causes: its handler is still
\* at the CMDB, a clean-up of the last scores took it from under a new entry, or
\* it is the empty entry of a second LoadOrStore (device_allPermData.go 127-174).
MissingScoreHasCause ==
  \A d \in Devices :
    allMetrics[d] # nil /\ d \notin allAlertScore =>
      \/ \E h \in Handlers : hpc[h] \in {"cmdb", "query", "score"} /\ Dev(h) = d
      \/ d \in scrubbed
      \/ allMetrics[d] \in Samples \X {2}

\* A sample that is stored is in an entry of the map, or in one that a fetch has
\* collected to publish it: no clean-up deletes it unseen.  The exception is a
\* device that two fetches cleaned at the same time, which takes a clean-up that
\* outlasts the refresh period or the two timers that two first scrapes start
\* (metricData.go 14-25, device_allPermData.go 137-146 and 186-212).
StoredIsSeen ==
  \A o \in Objects :
    value[o] # nil =>
      \/ \E d \in Devices : allMetrics[d] = o
      \/ o \in collected
      \/ DeviceOf[o[1]] \in overlapped

\* The map of the devices and their scores is well formed, and a score that is
\* missing has a cause (device_allPermData.go 127-174, device_alert.go).
Consistent == TypeOK /\ MissingScoreHasCause
=============================================================================
