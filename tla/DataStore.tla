------------------------------ MODULE DataStore ------------------------------
(***************************************************************************)
(* The datastores of storeagent.  A store is an XML file, an entry of      *)
(* DATASTORE_LIST in memory and a section of datastore.cfg; a local store  *)
(* has a disk that may be mounted, a block store an iSCSI target.  The     *)
(* pool requests change the three one after the other: the list and the    *)
(* sections under locks of their own, the files under none.  datastore.cfg *)
(* is written as a whole, and a write that fails may go unnoticed.         *)
(* storeagent may be restarted at any time; nothing reads the files back.  *)
(***************************************************************************)
EXTENDS Naturals, Sequences, FiniteSets

CONSTANTS Callers,  \* gRPC threads
          Names,    \* names of datastores
          Disks,    \* naa of the local disks
          Targets,  \* portal and target of the block stores
          MaxCalls, \* bound: requests and restarts
          Faults    \* whether commands, the writing of files and titles may fail

ASSUME DataStoreAssumption ==
    /\ Disks \cap Targets = {}
    /\ MaxCalls \in Nat
    /\ Faults \in BOOLEAN

VARIABLES
    list,    \* DATASTORE_LIST
    xml,     \* the XML file of each name: the disk or the target in it
    conf,    \* the section of each name in datastore.cfg
    mounted, \* the disk that is mounted on the directory of each name
    call,    \* what each thread is doing
    calls,   \* number of requests and restarts so far
    alone,   \* history: requests that no other has overlapped so far
    orphans, \* history: names that had an XML file at a restart, or when their
             \* deletion failed
    unwritten, \* history: names whose section a failed write of datastore.cfg lost
    dirty    \* history: names whose parts have a cause to differ

vars == <<list, xml, conf, mounted, call, calls, alone, orphans, unwritten, dirty>>
store == <<list, xml, conf, mounted>>

NoFile == "no file"
Torn   == "torn"       \* opened for writing
NoDisk == "no disk"
NoName == "no name"
NoSection == [state |-> "none", auto |-> FALSE]
Sections == [state : {"none", "active", "inactive"}, auto : BOOLEAN]
Sources == Disks \cup Targets
ASSUME NamesAssumption == Sources \cap {NoFile, Torn, NoDisk} = {} /\ NoName \notin Names
Of(n) == [listed |-> n \in list, xml |-> xml[n], conf |-> conf[n], mounted |-> mounted[n]]
Unknown == [listed |-> FALSE, xml |-> Torn, conf |-> NoSection, mounted |-> NoDisk]

-----------------------------------------------------------------------------
(* The requests                                                            *)

\* Mutant: the file is opened before the disk is looked at.
CreateOpensFirst == <<"NotListed", "NoFile", "Open", "DiskIsFree", "Write",
                      "Append", "SetState", "SetTitle", "SetAuto">>

CreateLocalStore == <<"NotListed", "NoFile", "DiskIsFree", "Open", "Write",
                      "Append", "SetState", "SetTitle", "SetAuto">>
CreateBlockStore == <<"NotListed", "NoFile", "ListDir", "Scan", "Open", "Write",
                      "AppendString">>

\* Mutant: the section of a deleted store stays.
DeleteKeepsSection == <<"Pop", "HasFile", "RemoveFile">>

DeleteLocalStore == <<"Pop", "HasFile", "DeleteSection", "RemoveFile">>
DeleteBlockStore == <<"HasFile", "RefuseDelete">>
StartLocalStore  == <<"HasFile", "ReadFile", "Mount", "SetActive">>
StopLocalStore   == <<"HasFile", "ReadFile", "NotBusy", "Umount", "SetInactive">>
StartBlockStore  == <<"HasFile", "Raise">>
StopBlockStore   == <<"HasFile", "Raise">>

\* The steps of each request of the pool service, in the order of the code.
Steps == [CreateLocal |-> CreateLocalStore, CreateBlock |-> CreateBlockStore,
          DeleteLocal |-> DeleteLocalStore, DeleteBlock |-> DeleteBlockStore,
          StartLocal |-> StartLocalStore, StopLocal |-> StopLocalStore,
          StartBlock |-> StartBlockStore, StopBlock |-> StopBlockStore]

Ops == DOMAIN Steps
SourcesOf(op) == CASE op = "CreateLocal" -> Disks
                   [] op = "CreateBlock" -> Targets
                   [] OTHER -> {NoDisk}
Answers == {"none", "STORE_OK", "STORE_INVALID_ERROR", "STORE_XML_ERROR",
            "STORE_ENVOY_FAIL", "STORE_UNKNOWN_ERROR"}

TypeOK ==
    /\ list \in SUBSET Names
    /\ xml \in [Names -> Sources \cup {NoFile, Torn}]
    /\ conf \in [Names -> Sections]
    /\ mounted \in [Names -> Disks \cup {NoDisk}]
    /\ \A c \in Callers :
         /\ call[c].op \in Ops /\ call[c].name \in Names \cup {NoName}
         /\ call[c].src \in Sources \cup {NoDisk}
         /\ call[c].scan \in SUBSET Names
         /\ call[c].failed \in BOOLEAN /\ call[c].ok \in Answers
    /\ calls \in 0..MaxCalls
    /\ alone \in SUBSET Callers
    /\ orphans \in SUBSET Names
    /\ unwritten \in SUBSET Names
    /\ dirty \in SUBSET Names

Idle == [op |-> "StopBlock", name |-> NoName, src |-> NoDisk,
         todo |-> <<>>, scan |-> {}, failed |-> FALSE, ok |-> "none", before |-> Unknown]

Init ==
    /\ list = {}
    /\ xml = [n \in Names |-> NoFile]
    /\ conf = [n \in Names |-> NoSection]
    /\ mounted = [n \in Names |-> NoDisk]
    /\ call = [c \in Callers |-> Idle]
    /\ calls = 0
    /\ alone = {}
    /\ orphans = {}
    /\ unwritten = {}
    /\ dirty = {}

At(c, step) == call[c].todo # <<>> /\ Head(call[c].todo) = step
IsIdle(c) == call[c].todo = <<>>
Quiet(n) == \A c \in Callers : IsIdle(c) \/ call[c].name # n
history == <<calls, alone, orphans, unwritten, dirty>>

\* The end of the request r.  Only an undisturbed one is remembered.
EndAs(c, r, answer) ==
    call' = [call EXCEPT ![c] =
               IF c \in alone THEN [r EXCEPT !.todo = <<>>, !.scan = {}, !.ok = answer]
               ELSE [Idle EXCEPT !.ok = answer]]
Answer(c, answer) == EndAs(c, call[c], answer)
Invalid(c) == Answer(c, "STORE_INVALID_ERROR")

\* On to the next step; STORE_OK after the last one.
GoAs(c, r) == IF Len(r.todo) = 1 THEN EndAs(c, r, "STORE_OK")
              ELSE call' = [call EXCEPT ![c] = [r EXCEPT !.todo = Tail(r.todo)]]
Go(c) == GoAs(c, call[c])

\* The request of c, now that one of its steps has failed.
Failed(c) == [call[c] EXCEPT !.failed = TRUE]

\* Two requests for one name, and two block stores that get one target.
Collision(r, s) ==
    IF r.name = s.name \/ (r.op = "CreateBlock" /\ s.op = r.op /\ r.src = s.src)
    THEN {r.name, s.name} ELSE {}

Call(c, op, n, src) ==
    LET others == {d \in Callers : ~IsIdle(d)}
        new == [Idle EXCEPT !.op = op, !.name = n, !.src = src, !.todo = Steps[op],
                   !.before = IF others = {} THEN Of(n) ELSE Unknown]
    IN  /\ IsIdle(c) /\ calls < MaxCalls
        /\ calls' = calls + 1
        /\ call' = [d \in Callers |-> CASE d = c -> new
                                       [] d # c /\ d \notin others -> Idle
                                       [] OTHER -> [call[d] EXCEPT !.before = Unknown]]
        /\ alone' = IF others = {} THEN {c} ELSE {}
        /\ dirty' = dirty \cup UNION {Collision(new, call[d]) : d \in others}
        /\ UNCHANGED <<store, orphans, unwritten>>

Request(c) == \E op \in Ops, n \in Names : \E src \in SourcesOf(op) : Call(c, op, n, src)

-----------------------------------------------------------------------------
(* DATASTORE_LIST and the checks                                           *)

NotListed(c) ==
    /\ At(c, "NotListed")
    /\ IF call[c].name \in list THEN Invalid(c) ELSE Go(c)
    /\ UNCHANGED <<store, history>>

\* Mutant: a file that is there is not looked for.
AnyFile(c) == At(c, "NoFile") /\ Go(c) /\ UNCHANGED <<store, history>>

NoFileYet(c) ==
    /\ At(c, "NoFile")
    /\ IF xml[call[c].name] # NoFile THEN Invalid(c) ELSE Go(c)
    /\ UNCHANGED <<store, history>>

HasFile(c) ==
    /\ At(c, "HasFile")
    /\ IF xml[call[c].name] = NoFile THEN Invalid(c) ELSE Go(c)
    /\ UNCHANGED <<store, history>>

\* GetMountpoint of the device
DiskIsFree(c) ==
    /\ At(c, "DiskIsFree")
    /\ IF \E n \in Names : mounted[n] = call[c].src THEN Invalid(c) ELSE Go(c)
    /\ UNCHANGED <<store, history>>

\* os.listdir: the files that CreateBlockStore is going to read.
ListDir(c) ==
    /\ At(c, "ListDir")
    /\ call' = [call EXCEPT ![c].todo = Tail(@),
                            ![c].scan = {n \in Names : xml[n] # NoFile}]
    /\ UNCHANGED <<store, history>>

\* The next of these files; one that is gone is a StoreOsErrorException, a torn
\* one a StoreXmlException, one with the same portal and target a refusal.
Scan(c) ==
    LET r == call[c]
    IN  /\ At(c, "Scan")
        /\ \/ r.scan = {} /\ Go(c)
           \/ \E n \in r.scan :
                CASE xml[n] = NoFile -> Answer(c, "STORE_UNKNOWN_ERROR")
                  [] xml[n] = Torn -> Answer(c, "STORE_XML_ERROR")
                  [] xml[n] = r.src -> Invalid(c)
                  [] OTHER -> call' = [call EXCEPT ![c].scan = @ \ {n}]
        /\ UNCHANGED <<store, history>>

AppendEntry(c) ==
    /\ At(c, "Append")
    /\ IF call[c].name \in list THEN Invalid(c) ELSE Go(c)
    /\ list' = list \cup {call[c].name}
    /\ UNCHANGED <<xml, conf, mounted, history>>

\* CreateBlockStore gives append the uuid, a string: AssertionError.  The file
\* stays, and there never is an entry or a section.
AppendString(c) ==
    /\ At(c, "AppendString")
    /\ Answer(c, "STORE_UNKNOWN_ERROR")
    /\ UNCHANGED <<store, history>>

\* exists and pop under one hold of the lock
Pop(c) ==
    /\ At(c, "Pop")
    /\ IF call[c].name \in list THEN Go(c) ELSE Invalid(c)
    /\ list' = list \ {call[c].name}
    /\ UNCHANGED <<xml, conf, mounted, history>>

\* DeleteBlockStore refuses a state that is not inactive; for one that is it
\* looks for a UUID among strings, and refuses as well.
RefuseDelete(c) == At(c, "RefuseDelete") /\ Invalid(c) /\ UNCHANGED <<store, history>>

\* StartBlockStore calls IscsiadmLogin with one argument; StopBlockStore looks
\* for SCSI_ID in the wrong dictionary, or for util.STAT.
Raise(c) ==
    /\ At(c, "Raise")
    /\ Answer(c, "STORE_UNKNOWN_ERROR")
    /\ UNCHANGED <<store, history>>

-----------------------------------------------------------------------------
(* XML files                                                               *)

OpenFile(c) ==
    /\ At(c, "Open")
    /\ xml' = [xml EXCEPT ![call[c].name] = Torn]
    /\ Go(c)
    /\ UNCHANGED <<list, conf, mounted, history>>

\* A file that was removed while it was written stays removed.
WriteFile(c) ==
    /\ At(c, "Write")
    /\ xml' = [xml EXCEPT ![call[c].name] = IF @ = NoFile THEN @ ELSE call[c].src]
    /\ Go(c)
    /\ UNCHANGED <<list, conf, mounted, history>>

ReadFile(c) ==
    LET found == xml[call[c].name]
    IN  /\ At(c, "ReadFile")
        /\ CASE found = NoFile -> Answer(c, "STORE_UNKNOWN_ERROR")
             [] found = Torn -> Answer(c, "STORE_XML_ERROR")
             [] OTHER -> call' = [call EXCEPT ![c].todo = Tail(@), ![c].src = found]
        /\ UNCHANGED <<store, history>>

RemoveFile(c) ==
    LET n == call[c].name
    IN  /\ At(c, "RemoveFile")
        /\ xml' = [xml EXCEPT ![n] = NoFile]
        /\ IF xml[n] = NoFile THEN Answer(c, "STORE_UNKNOWN_ERROR") ELSE Go(c)
        /\ UNCHANGED <<list, conf, mounted, history>>

-----------------------------------------------------------------------------
(* Sections of datastore.cfg, under their lock, and mounts                 *)

\* CreateLocalStore keeps the lock from the state to the last value.
ConfIsFree(c) == \A d \in Callers \ {c} : ~At(d, "SetTitle") /\ ~At(d, "SetAuto")
SetConf(c, section) == conf' = [conf EXCEPT ![call[c].name] = section]
ConfSteps == {"SetState", "SetTitle", "SetAuto", "DeleteSection", "SetActive", "SetInactive"}

ChangeSection(c) ==
    LET now == conf[call[c].name]
    IN  /\ ConfIsFree(c)
        /\ \/ At(c, "SetState") /\ SetConf(c, [now EXCEPT !.state = "inactive"])
           \/ At(c, "SetTitle") /\ SetConf(c, now)
           \/ At(c, "SetAuto") /\ SetConf(c, [now EXCEPT !.auto = TRUE])
           \/ At(c, "DeleteSection") /\ SetConf(c, NoSection)
           \/ At(c, "SetActive") /\ SetConf(c, [now EXCEPT !.state = "active"])
           \/ At(c, "SetInactive") /\ SetConf(c, [now EXCEPT !.state = "inactive"])
        /\ Go(c)
        /\ unwritten' = {n \in unwritten : n # call[c].name \/ conf'[n].state = "none"}
        /\ UNCHANGED <<list, xml, mounted, calls, alone, orphans, dirty>>

\* A store with auto_mount is not mounted here, nor anywhere else.  Else the
\* directory must be empty, which it is not under a mount.  A block store has
\* /dev/disk/by-path for its directory and no disk: its mount is refused.
Mount(c) ==
    LET r == call[c]
        n == r.name
    IN  /\ At(c, "Mount") /\ ConfIsFree(c)
        /\ CASE conf[n].auto -> Go(c) /\ UNCHANGED mounted
             [] ~conf[n].auto /\ r.src \in Targets ->
                  Answer(c, "STORE_ENVOY_FAIL") /\ UNCHANGED mounted
             [] ~conf[n].auto /\ r.src \in Disks /\ mounted[n] # NoDisk ->
                  Invalid(c) /\ UNCHANGED mounted
             [] OTHER -> Go(c) /\ mounted' = [mounted EXCEPT ![n] = r.src]
        /\ UNCHANGED <<list, xml, conf, history>>

NotBusy(c) == At(c, "NotBusy") /\ Go(c) /\ UNCHANGED <<store, history>>

Umount(c) ==
    LET n == call[c].name
        there == call[c].src \in Disks /\ mounted[n] # NoDisk
    IN  /\ At(c, "Umount") /\ ConfIsFree(c)
        /\ CASE conf[n].auto -> Go(c) /\ UNCHANGED mounted
             [] ~conf[n].auto /\ ~there ->
                  Answer(c, "STORE_ENVOY_FAIL") /\ UNCHANGED mounted
             [] OTHER -> Go(c) /\ mounted' = [mounted EXCEPT ![n] = NoDisk]
        /\ UNCHANGED <<list, xml, conf, history>>

-----------------------------------------------------------------------------
(* Failures                                                                *)

\* What a failing step answers: no such disk; a file that cannot be opened,
\* written or removed; a title with a percent sign, which configparser refuses; a
\* busy directory or a command that fails (STORE_IS_BUSY for the former).
FailureOf(step) ==
    CASE step = "DiskIsFree" -> "STORE_INVALID_ERROR"
      [] step \in {"Open", "Write", "RemoveFile"} \cup ConfSteps -> "STORE_UNKNOWN_ERROR"
      [] step \in {"Mount", "NotBusy", "Umount"} -> "STORE_ENVOY_FAIL"
      [] OTHER -> "none"

\* The rollback of CreateLocalStore waits for an exception that is not raised, so
\* the store is listed without its section.  DeleteLocalStore has none: the store
\* is out of the list and keeps its file.
Fail(c) ==
    LET r == call[c]
        step == Head(r.todo)
    IN  /\ Faults /\ ~IsIdle(c) /\ FailureOf(step) # "none"
        /\ step \in {"Mount", "Umount"} => ~conf[r.name].auto
        /\ step \in ConfSteps => ConfIsFree(c)
        /\ EndAs(c, Failed(c), FailureOf(step))
        /\ orphans' = orphans \cup
                       (IF step \in {"DeleteSection", "RemoveFile"} THEN {r.name} \ dirty ELSE {})
        /\ unwritten' = unwritten \cup (IF step = "SetState" THEN {r.name} ELSE {})
        /\ UNCHANGED <<store, calls, alone, dirty>>

\* A full disk: datastore.cfg was truncated when it was opened, and what has been
\* buffered is lost without an exception when the file object goes away.  The
\* request goes on, and every store has lost its section.
LoseSections(c) ==
    /\ Faults /\ ConfIsFree(c) /\ \E step \in ConfSteps : At(c, step)
    /\ conf' = [n \in Names |-> NoSection]
    /\ unwritten' = unwritten \cup {n \in Names : n = call[c].name \/ conf[n] # NoSection}
    /\ GoAs(c, Failed(c))
    /\ UNCHANGED <<list, xml, mounted, calls, alone, orphans, dirty>>

\* storeagent is killed and started again.  DataStoreInit does nothing.  A Set
\* that was writing datastore.cfg may leave it empty.
Restart ==
    /\ calls < MaxCalls
    /\ calls' = calls + 1
    /\ list' = {}
    /\ conf' \in {conf} \cup
                 (IF \E c \in Callers : \E step \in ConfSteps : At(c, step)
                  THEN {[n \in Names |-> NoSection]} ELSE {})
    /\ call' = [c \in Callers |-> Idle]
    /\ alone' = {}
    /\ orphans' = orphans \cup {n \in Names : xml[n] # NoFile}
    /\ unwritten' = {}
    /\ UNCHANGED <<xml, mounted, dirty>>

Next ==
    \/ \E c \in Callers :
         \/ Request(c)
         \/ NotListed(c) \/ NoFileYet(c) \/ HasFile(c) \/ DiskIsFree(c)
         \/ ListDir(c) \/ Scan(c) \/ AppendEntry(c) \/ AppendString(c) \/ Pop(c)
         \/ RefuseDelete(c) \/ Raise(c)
         \/ OpenFile(c) \/ WriteFile(c) \/ ReadFile(c) \/ RemoveFile(c)
         \/ ChangeSection(c) \/ Mount(c) \/ NotBusy(c) \/ Umount(c)
         \/ Fail(c) \/ LoseSections(c)
    \/ Restart

Spec == Init /\ [][Next]_vars

-----------------------------------------------------------------------------
(* Properties                                                              *)

\* STORE_OK of an undisturbed request: the parts of the store are as was asked,
\* and a new store has a disk that is not mounted; but for the section of a store
\* that was created, started or stopped when a write of datastore.cfg was lost.
AcceptedIsDone ==
    \A c \in alone : (IsIdle(c) /\ call[c].ok = "STORE_OK") =>
        LET n == call[c].name
            src == call[c].src
        IN  CASE call[c].op = "CreateLocal" ->
                   /\ n \in list /\ xml[n] = src
                   /\ call[c].failed \/ conf[n] = [state |-> "inactive", auto |-> TRUE]
                   /\ \A m \in Names : mounted[m] # src
              [] call[c].op = "DeleteLocal" ->
                   n \notin list /\ xml[n] = NoFile /\ conf[n] = NoSection
              [] call[c].op = "StartLocal" ->
                   IF call[c].failed THEN conf[n] = NoSection
                   ELSE conf[n].state = "active" /\ (conf[n].auto \/ mounted[n] = src)
              [] call[c].op = "StopLocal" ->
                   IF call[c].failed THEN conf[n] = NoSection
                   ELSE conf[n].state = "inactive" /\ (conf[n].auto \/ mounted[n] = NoDisk)
              [] OTHER -> FALSE

\* What a request that is refused may have left behind, of which now is what is
\* there: see RefusedIsUndone.
Undone(r, now) ==
    LET b == r.before
    IN  \/ now = b
        \/ r.op = "CreateBlock" /\ ~r.failed /\ now = [b EXCEPT !.xml = r.src]
        \/ /\ r.op \in {"CreateLocal", "CreateBlock"} /\ r.failed
           /\ now = [b EXCEPT !.xml = Torn]
        \/ /\ r.op = "CreateLocal" /\ r.failed /\ now.listed /\ now.xml = r.src
           /\ now.conf \in {b.conf, [b.conf EXCEPT !.state = "inactive"], NoSection}
        \/ /\ r.op = "DeleteLocal" /\ (r.failed \/ b.xml = NoFile)
           /\ now = [b EXCEPT !.listed = FALSE]
        \/ /\ r.op = "DeleteLocal" /\ r.failed
           /\ now = [b EXCEPT !.listed = FALSE, !.conf = NoSection]
        \/ r.op = "StartLocal" /\ r.failed /\ now = [b EXCEPT !.mounted = r.src]
        \/ r.op = "StopLocal" /\ r.failed /\ now = [b EXCEPT !.mounted = NoDisk]

\* An undisturbed request that is refused leaves the store as it was, but for
\* CreateBlockStore, which leaves the file, a creation whose file cannot be
\* written (a torn file) and CreateLocalStore when a section cannot be (a store
\* without auto_mount); DeleteLocalStore, when there is no file or when the section
\* or the file cannot be removed, takes the store out of the list, and a store
\* whose new state cannot be written has been mounted or unmounted.
RefusedIsUndone ==
    \A c \in alone : (IsIdle(c) /\ call[c].ok \notin {"none", "STORE_OK"}) =>
        Undone(call[c], Of(call[c].name))

\* No request is under way for a name: one in the list has its file and, unless a
\* write of datastore.cfg failed, its section; one that is not has neither, unless
\* it had a file at a restart or when its deletion failed, was to be a block
\* store, failed to be written, or saw requests side by side.
FilesFollowTheList ==
    \A n \in Names \ dirty : Quiet(n) =>
        IF n \in list THEN xml[n] \in Disks /\ (conf[n].state # "none" \/ n \in unwritten)
        ELSE \/ n \in orphans
             \/ xml[n] \in Targets \cup {NoFile, Torn} /\ conf[n] = NoSection

\* A file that is there is opened for writing only by a creation that ran side
\* by side with another request for the name.
WriteNeverOverwrites ==
    [][\A n \in Names : (xml[n] # NoFile /\ xml'[n] = Torn) =>
           (xml[n] = Torn \/ n \in dirty)]_vars

\* A store that a restart or a failed deletion has dropped from the list can never
\* be deleted, nor created again: its file stays as it was.
OrphanStays ==
    [][\A n \in orphans : xml[n] # NoFile => xml'[n] = xml[n]]_vars

\* Two block stores have one portal and target only if they were created side
\* by side.
OneStorePerTarget ==
    \A n, m \in Names \ dirty : (n # m /\ xml[n] \in Targets) => xml[n] # xml[m]

\* The parts of the stores are well formed and agree (DATASTORE_LIST, CreateStoreCfg).
Consistent == TypeOK /\ FilesFollowTheList /\ OneStorePerTarget

\* The answer of an undisturbed request tells what it did.
AnswersAreTrue == AcceptedIsDone /\ RefusedIsUndone

\* A file that is there is neither overwritten nor, once a restart or a failed
\* deletion has dropped its store, ever touched again (CreateStoreCfg, DeleteLocalStore).
FilesAreLeft == WriteNeverOverwrites /\ OrphanStays
=============================================================================
