------------------------------ MODULE Domains ------------------------------
(***************************************************************************)
(* The domains of virt_agent.  CreateDomain, DeleteDomain and ModifyDomain *)
(* look at DOMAIN_LIST, the agent's own list, under its lock and at what   *)
(* libvirt has defined without one; gRPC threads run them side by side,    *)
(* and jobs start and stop the domains meanwhile.                          *)
(*                                                                         *)
(* A document is the disks, under the names that XmlManagerDomain gives    *)
(* them by their position, and the network interfaces.  Every bus is named *)
(* by itself; here there is one.  Every use of the lock and every call of  *)
(* libvirt is a step.                                                      *)
(***************************************************************************)
EXTENDS Naturals, Sequences, FiniteSets

CONSTANTS Callers,   \* gRPC threads
          Uuids,
          Sources,   \* what a disk is backed by
          Empty,     \* the source of an ejected cdrom
          Macs,
          MaxDisks,  \* bound: device names are 1 (vda) to MaxDisks
          MaxCalls,  \* bound: requests and restarts
          Faults,    \* whether the pool has no connection to give, libvirt may
                     \* refuse or a connection die, once in the calls under way
          Undefined

ASSUME DomainsAssumption ==
    /\ Uuids # {}
    /\ Empty \notin Sources
    /\ MaxDisks \in Nat \ {0} /\ MaxCalls \in Nat
    /\ Faults \in BOOLEAN

VARIABLES
    list,     \* DOMAIN_LIST
    defined,  \* libvirt: the persistent definition of each domain
    live,     \* libvirt: the document that it runs with
    call,     \* what each thread is doing
    calls,    \* number of calls and restarts so far
    alone,    \* history: calls that nothing has overlapped so far
    kept,     \* history: the sources that requests have given each domain
    dirty,    \* history: domains whose calls overlapped, had no connection or
              \* lost the reply to a define or undefine
    stale     \* history: domains modified while they ran with another document,
              \* or dirty before a restart

libvirt    == <<defined, live>>
domHistory == <<alone, kept, dirty, stale>>
domVars    == <<list, libvirt, call, calls, domHistory>>

Devs  == 1..MaxDisks
Disks == UNION {[D -> Sources \cup {Empty}] : D \in SUBSET Devs}
Interfaces == SUBSET Macs
Document == [disks : Disks, nics : Interfaces]
SourcesOf(d) == IF d = Undefined THEN {}
                ELSE {d.disks[i] : i \in DOMAIN d.disks} \ {Empty}

ASSUME UndefinedAssumption == Undefined \notin Document

Nothing == [disks |-> <<>>, nics |-> {}]

Modifications == {"ADD", "DELETE", "MOUNT", "UMOUNT", "UPDATE"}
Pc == {"idle", "get", "exists", "define", "append", "undefine", "pop", "read",
       "redefine"}
Answers == {"none", "OK", "INVALID_UUID", "INTERNAL_ERROR", "LIBVIRT_ERROR",
            "raised"}
Item == [dev : Devs, src : Sources]
Request == [op : {"Create", "Delete"} \cup Modifications, uuid : Uuids,
            items : Seq(Item),     \* devices.disk of the JSON
            nics : Interfaces,     \* devices.interface
            to : Devs]             \* target_dev of an update

DomTypeOK ==
    /\ list \in SUBSET Uuids
    /\ defined \in [Uuids -> Document \cup {Undefined}]
    /\ live \in [Uuids -> Document \cup {Undefined}]
    /\ \A c \in Callers : /\ call[c].pc \in Pc /\ call[c].ok \in Answers
                          /\ call[c].req \in Request
                          /\ call[c].read \in Document /\ call[c].doc \in Document
    /\ calls \in 0..MaxCalls
    /\ alone \in SUBSET Callers
    /\ kept \in [Uuids -> SUBSET Sources]
    /\ dirty \in SUBSET Uuids /\ stale \in SUBSET Uuids

NoRequest == [op |-> "Delete", uuid |-> CHOOSE u \in Uuids : TRUE, items |-> <<>>,
              nics |-> {}, to |-> 1]
DomIdle == [pc |-> "idle", req |-> NoRequest, conn |-> TRUE, failed |-> FALSE,
         read |-> Nothing, doc |-> Nothing, ok |-> "none",
         before |-> [listed |-> FALSE, defined |-> Undefined, seen |-> Nothing]]

DomInit ==
    /\ list = {}
    /\ defined = [u \in Uuids |-> Undefined] /\ live = defined
    /\ call = [c \in Callers |-> DomIdle]
    /\ calls = 0
    /\ alone = {}
    /\ kept = [u \in Uuids |-> {}]
    /\ dirty = {} /\ stale = {}

DomAt(c, pc) == call[c].pc = pc
Uuid(c) == call[c].req.uuid
Under(u) == {c \in Callers : ~DomAt(c, "idle") /\ Uuid(c) = u}
Goto(c, pc) == call' = [call EXCEPT ![c].pc = pc]

MayFail(c) == Faults /\ \A d \in Callers : ~call[d].failed
Failed(c) == [call[c] EXCEPT !.failed = TRUE]

\* The end of the call r.  Only an undisturbed one is remembered.
EndAs(c, r, answer) ==
    call' = [call EXCEPT ![c] =
               IF c \in alone THEN [r EXCEPT !.pc = "idle", !.ok = answer,
                                             !.read = Nothing, !.doc = Nothing]
               ELSE [DomIdle EXCEPT !.ok = answer]]

\* The answer, and the finally that gives the connection back: for one that has
\* died meanwhile put raises, whatever the answer was to be.
Answer(c, answer) ==
    \/ EndAs(c, call[c], answer)
    \/ MayFail(c) /\ call[c].conn /\ EndAs(c, Failed(c), "raised")

\* XMLDesc: the document that a domain runs with, if it runs
XMLDesc(u) == IF live[u] # Undefined THEN live[u] ELSE defined[u]

-----------------------------------------------------------------------------
(* XmlManagerDomain                                                        *)

\* parse: the disks in the order that libvirt gives them, which is their names'
InOrder(disks) ==
    LET upto(i) == Cardinality({j \in DOMAIN disks : j <= i})
    IN  [k \in 1..Cardinality(DOMAIN disks) |->
            disks[CHOOSE i \in DOMAIN disks : upto(i) = k]]

\* _refresh_target_devs: disks are named anew by their position
RefreshTargetDevs(srcs) == srcs

SrcsOf(items) == [i \in DOMAIN items |-> items[i].src]
Names(items, dev) == \E i \in DOMAIN items : items[i].dev = dev
Named(items, dev) == items[CHOOSE i \in DOMAIN items : items[i].dev = dev].src

\* Mutant: the new disks take the places of the old ones.
CreateOver(d, r) ==
    [disks |-> RefreshTargetDevs(SrcsOf(r.items)), nics |-> d.nics \cup r.nics]

CreateDevices(d, r) ==
    [disks |-> RefreshTargetDevs(InOrder(d.disks) \o SrcsOf(r.items)),
     nics |-> d.nics \cup r.nics]

\* interfaces are looked at only if the request names no disk
DelDevices(d, r) ==
    LET left == {i \in DOMAIN d.disks : ~Names(r.items, i)}
    IN  IF r.items # <<>>
        THEN [d EXCEPT !.disks = RefreshTargetDevs(InOrder([i \in left |-> d.disks[i]]))]
        ELSE [d EXCEPT !.nics = @ \ r.nics]

\* update_properties, and insert_cdrom, set the source of the named disks: MOUNT
\* stands for an UPDATE of the source as well
SetSource(d, items) ==
    [d EXCEPT !.disks = [i \in DOMAIN d.disks |->
        IF Names(items, i) THEN Named(items, i) ELSE d.disks[i]]]

EjectCdrom(d, r) ==
    [d EXCEPT !.disks = [i \in DOMAIN d.disks |->
        IF Names(r.items, i) THEN Empty ELSE d.disks[i]]]

\* update_properties of target_dev: the disk of that name gets another name.
\* libvirt refuses a document with two of one name.  An UPDATE of name and source
\* at once, and that of the MAC of an interface, are left out.
Clash(d, r) == r.op = "UPDATE" /\ r.to \in DOMAIN d.disks /\ ~Names(r.items, r.to)
               /\ \E i \in DOMAIN d.disks : Names(r.items, i)
Retarget(d, r) ==
    LET moved == {i \in DOMAIN d.disks : Names(r.items, i)}
        names == IF moved = {} THEN DOMAIN d.disks
                 ELSE (DOMAIN d.disks \ moved) \cup {r.to}
    IN  [d EXCEPT !.disks = [i \in names |-> IF i = r.to /\ moved # {}
                                             THEN d.disks[CHOOSE j \in moved : TRUE]
                                             ELSE d.disks[i]]]

Modified(d, r) == CASE r.op = "ADD" -> CreateDevices(d, r)
                    [] r.op = "DELETE" -> DelDevices(d, r)
                    [] r.op = "MOUNT" -> SetSource(d, r.items)
                    [] r.op = "UMOUNT" -> EjectCdrom(d, r)
                    [] r.op = "UPDATE" -> Retarget(d, r)

\* CreateDomain creates the devices of the request and updates them from it: a
\* disk gets the properties of the item that names it.
Created(r) == SetSource(CreateDevices(Nothing, r), r.items)

-----------------------------------------------------------------------------
(* The requests                                                            *)

Call(c, r) ==
    LET others == {d \in Callers : ~DomAt(d, "idle")}
        u == r.uuid
    IN  /\ DomAt(c, "idle") /\ calls < MaxCalls
        /\ calls' = calls + 1
        /\ call' = [d \in Callers |->
             CASE d = c -> [DomIdle EXCEPT !.pc = "get", !.req = r,
                              !.before = IF others # {} THEN @
                                         ELSE [listed |-> u \in list,
                                               defined |-> defined[u],
                                               seen |-> XMLDesc(u)]]
               [] d # c /\ d \notin others -> DomIdle
               [] OTHER -> [call[d] EXCEPT !.before = DomIdle.before]]
        /\ alone' = IF others = {} THEN {c} ELSE {}
        /\ dirty' = IF Under(u) = {} THEN dirty ELSE dirty \cup {u}
        /\ UNCHANGED <<list, libvirt, kept, stale>>

\* Sources that no disk has and no call asks for: a source is asked for once.
AskedBy(c) == {call[c].req.items[i].src : i \in DOMAIN call[c].req.items}
New(u) == Sources \ (SourcesOf(defined[u]) \cup SourcesOf(live[u]) \cup kept[u]
              \cup UNION {SourcesOf(call[c].doc) \cup AskedBy(c) : c \in Under(u)})
OneItem(u) == {<<[dev |-> d, src |-> s]>> : d \in Devs, s \in New(u)}
TwoItems(u) == {p \in {x \o y : x \in OneItem(u), y \in OneItem(u)} :
                  p[1].dev # p[2].dev /\ p[1].src # p[2].src}

\* Bound: n more disks would have names, whatever the calls under way come to.
Room(u, n) ==
    LET asked == UNION {AskedBy(c) : c \in Under(u)}
    IN  \A d \in {defined[u], live[u]} \cup {call[c].doc : c \in Under(u)} :
          d # Undefined => Cardinality(DOMAIN d.disks) + Cardinality(asked) + n <= MaxDisks

CallCreate(c, u) ==
    \E items \in {<<>>} \cup OneItem(u) \cup TwoItems(u) :
        /\ Room(u, Len(items))
        /\ Call(c, [NoRequest EXCEPT !.op = "Create", !.uuid = u, !.items = items])

CallDelete(c, u) == Call(c, [NoRequest EXCEPT !.uuid = u])

CallModify(c, u) ==
    \E op \in Modifications, ns \in SUBSET Macs, dev \in Devs :
        \E items \in OneItem(u) \cup (IF ns = {} THEN {} ELSE {<<>>}) :
            /\ op \in {"MOUNT", "UMOUNT", "UPDATE"} => ns = {}
            /\ op # "UPDATE" => dev = 1
            /\ op = "ADD" => Room(u, Len(items))
            /\ Call(c, [op |-> op, uuid |-> u, items |-> items, nics |-> ns, to |-> dev])

-----------------------------------------------------------------------------
(* CreateDomain, DeleteDomain and ModifyDomain                             *)

\* ConnectionPool.get: no connection if the one in the pool was closed, and an
\* exception if another thread took the last
GetConn(c) ==
    /\ DomAt(c, "get")
    /\ \/ Goto(c, "exists")
       \/ /\ MayFail(c)
          /\ call' = [call EXCEPT ![c].pc = "exists", ![c].conn = FALSE,
                                  ![c].failed = TRUE]
       \/ MayFail(c) /\ EndAs(c, call[c], "raised")
    /\ UNCHANGED <<list, libvirt, calls, domHistory>>

\* DOMAIN_LIST.exists.  Without a connection nothing is asked of libvirt, and
\* ModifyDomain has no domain_ref.
Exists(c) ==
    LET r == call[c]
    IN  /\ DomAt(c, "exists")
        /\ IF (r.req.op = "Create") = (Uuid(c) \in list)
           THEN Answer(c, "INVALID_UUID")
           ELSE CASE r.req.op = "Create" -> Goto(c, IF r.conn THEN "define" ELSE "append")
                  [] r.req.op = "Delete" -> Goto(c, IF r.conn THEN "undefine" ELSE "pop")
                  [] OTHER -> IF r.conn THEN Goto(c, "read")
                              ELSE Answer(c, "INTERNAL_ERROR")
        /\ UNCHANGED <<list, libvirt, calls, domHistory>>

\* defineXML of a new document
DefineXML(u, d) ==
    /\ defined' = [defined EXCEPT ![u] = d]
    /\ kept' = [kept EXCEPT ![u] = SourcesOf(d)]

UndefineXML(u) ==
    /\ defined' = [defined EXCEPT ![u] = Undefined]
    /\ kept' = [kept EXCEPT ![u] = {}]

\* what a request takes from the domain: the sources of the disks it names
Taken(r) ==
    IF r.req.op \in {"ADD", "UPDATE"} THEN {}
    ELSE {r.read.disks[i] : i \in {j \in DOMAIN r.read.disks : Names(r.req.items, j)}}

\* defineXML of the whole document that was read and modified
RedefineXML(u, r) ==
    /\ defined' = [defined EXCEPT ![u] = r.doc]
    /\ kept' = [kept EXCEPT ![u] =
                  (@ \ Taken(r)) \cup (SourcesOf(r.doc) \ SourcesOf(r.read))]

\* libvirt does what it is asked, and its reply is lost with the connection.
ReplyLost(c) ==
    LET u == Uuid(c)
        r == call[c]
    IN  \/ DomAt(c, "define") /\ DefineXML(u, Created(r.req)) /\ dirty' = dirty \cup {u}
        \/ /\ DomAt(c, "undefine") /\ defined[u] # Undefined
           /\ UndefineXML(u) /\ dirty' = dirty \cup {u}
        \/ DomAt(c, "redefine") /\ ~Clash(r.read, r.req) /\ RedefineXML(u, r) /\ UNCHANGED dirty

\* a call of libvirt raises: ModifyDomain looks for a function of utils that
\* there is not, and raises too; so does put, if the connection has died
LibvirtFails(c) ==
    /\ call[c].pc \in {"define", "undefine", "read", "redefine"}
    /\ MayFail(c)
    /\ ReplyLost(c) \/ UNCHANGED <<defined, kept, dirty>>
    /\ \/ EndAs(c, Failed(c), "raised")
       \/ call[c].req.op \notin Modifications /\ EndAs(c, Failed(c), "LIBVIRT_ERROR")
    /\ UNCHANGED <<list, live, calls, alone, stale>>

Define(c) ==
    /\ DomAt(c, "define")
    /\ DefineXML(Uuid(c), Created(call[c].req))
    /\ Goto(c, "append")
    /\ UNCHANGED <<list, live, calls, alone, dirty, stale>>

WithoutConn(c) == dirty' = IF call[c].conn THEN dirty ELSE dirty \cup {Uuid(c)}

AppendDomain(c) ==
    /\ DomAt(c, "append")
    /\ IF Uuid(c) \in list THEN Answer(c, "INTERNAL_ERROR") ELSE Answer(c, "OK")
    /\ list' = list \cup {Uuid(c)}
    /\ WithoutConn(c)
    /\ UNCHANGED <<libvirt, calls, alone, kept, stale>>

\* Mutant: the list is changed first.
PopFirst(c) ==
    LET u == Uuid(c)
    IN  /\ DomAt(c, "undefine")
        /\ list' = list \ {u}
        /\ IF defined[u] = Undefined
           THEN Answer(c, "LIBVIRT_ERROR") /\ UNCHANGED <<defined, kept>>
           ELSE UndefineXML(u) /\ Answer(c, "OK")
        /\ UNCHANGED <<live, calls, alone, dirty, stale>>

\* lookupByUUIDString and undefine: an error without a definition, whether the
\* domain is unknown or only runs
Undefine(c) ==
    LET u == Uuid(c)
    IN  /\ DomAt(c, "undefine")
        /\ IF defined[u] = Undefined
           THEN Answer(c, "LIBVIRT_ERROR") /\ UNCHANGED <<defined, kept>>
           ELSE UndefineXML(u) /\ Goto(c, "pop")
        /\ UNCHANGED <<list, live, calls, alone, dirty, stale>>

\* Mutant: the domain stays in the list.
PopNothing(c) ==
    /\ DomAt(c, "pop")
    /\ Answer(c, "OK")
    /\ UNCHANGED <<list, libvirt, calls, domHistory>>

PopDomain(c) ==
    /\ DomAt(c, "pop")
    /\ IF Uuid(c) \in list THEN Answer(c, "OK") ELSE Answer(c, "INVALID_UUID")
    /\ list' = list \ {Uuid(c)}
    /\ WithoutConn(c)
    /\ UNCHANGED <<libvirt, calls, alone, kept, stale>>

\* lookupByUUIDString, GetDomainXMLRoot, and the change to what was read
ReadDomain(c) ==
    LET u == Uuid(c)
        d == XMLDesc(u)
    IN  /\ DomAt(c, "read")
        /\ IF d = Undefined THEN Answer(c, "raised")
           ELSE call' = [call EXCEPT ![c].pc = "redefine", ![c].read = d,
                                     ![c].doc = Modified(d, call[c].req)]
        /\ stale' = IF live[u] \in {Undefined, defined[u]} THEN stale
                    ELSE stale \cup {u}
        /\ UNCHANGED <<list, libvirt, calls, alone, kept, dirty>>

Redefine(c) ==
    LET r == call[c]
    IN  /\ DomAt(c, "redefine")
        /\ IF Clash(r.read, r.req)
           THEN Answer(c, "raised") /\ UNCHANGED <<defined, kept>>
           ELSE RedefineXML(Uuid(c), r) /\ Answer(c, "OK")
        /\ UNCHANGED <<list, live, calls, alone, dirty, stale>>

-----------------------------------------------------------------------------
(* Jobs and restarts                                                       *)

\* DomainStart: dom.create of a domain that is defined and does not run
DomainStart(u) ==
    /\ defined[u] # Undefined /\ live[u] = Undefined
    /\ live' = [live EXCEPT ![u] = defined[u]]
    /\ alone' = {c \in alone : DomAt(c, "idle")}
    /\ UNCHANGED <<list, defined, call, calls, kept, dirty, stale>>

\* DomainStop: what runs without a definition is gone then
DomainStop(u) ==
    /\ live[u] # Undefined
    /\ live' = [live EXCEPT ![u] = Undefined]
    /\ alone' = {c \in alone : DomAt(c, "idle")}
    /\ UNCHANGED <<list, defined, call, calls, kept, dirty, stale>>

\* virt_agentd is restarted: initialize_domlist asks libvirt for all domains,
\* those that only run among them.  What was lost is lost.
Restart ==
    /\ calls < MaxCalls /\ calls' = calls + 1
    /\ call' = [c \in Callers |-> DomIdle] /\ alone' = {}
    /\ list' = {u \in Uuids : XMLDesc(u) # Undefined}
    /\ dirty' = {u \in Uuids : defined[u] = Undefined /\ live[u] # Undefined}
    /\ stale' = stale \cup dirty
    /\ UNCHANGED <<libvirt, kept>>

-----------------------------------------------------------------------------
Handler(c) == \/ GetConn(c) \/ Exists(c) \/ LibvirtFails(c)
              \/ Define(c) \/ AppendDomain(c) \/ Undefine(c) \/ PopDomain(c)
              \/ ReadDomain(c) \/ Redefine(c)

DomNext ==
    \/ \E c \in Callers, u \in Uuids : CallCreate(c, u) \/ CallDelete(c, u) \/ CallModify(c, u)
    \/ \E c \in Callers : Handler(c)
    \/ \E u \in Uuids : DomainStart(u) \/ DomainStop(u)
    \/ Restart

DomSpec == DomInit /\ [][DomNext]_domVars

-----------------------------------------------------------------------------
(* Properties                                                              *)

\* The list of the agent has what libvirt has defined, once nobody works on it,
\* and again after any restart, unless calls for one domain overlapped, had no
\* connection or lost a reply, or the domain only runs.
ListIsDefined ==
    \A u \in Uuids : Under(u) = {} /\ u \notin dirty =>
        (u \in list <=> defined[u] # Undefined)

\* A source that was given to a domain stays until a request takes it away,
\* unless calls overlapped (both write back the document they read; a restart
\* mends the list and not the document) or it ran with an older document, which
\* is the one that is read then.
ChangeIsKept ==
    \A u \in Uuids : kept[u] \subseteq SourcesOf(defined[u]) \/ u \in dirty \cup stale

\* An undisturbed request that was accepted, with a connection, did what it was
\* asked and nothing to other disks.  Names are not kept: a created disk may be
\* displaced by an item that names its position, and a DELETE of both kinds of
\* devices only takes the disks.
Displaced(items, i) ==
    items[i].dev \notin DOMAIN items /\ Names(items, i)
Asked(r, d) ==
    LET was == r.before.seen
        src == {r.req.items[i].src : i \in DOMAIN r.req.items}
        hit == {i \in DOMAIN was.disks : Names(r.req.items, i)}
        on(devs) == {was.disks[i] : i \in devs} \ {Empty}
        left == on(DOMAIN was.disks \ hit)
    IN  CASE r.req.op = "ADD" -> SourcesOf(d) = SourcesOf(was) \cup src
                                 /\ r.req.nics \subseteq d.nics
          [] r.req.op = "DELETE" -> /\ SourcesOf(d) = left
                                    /\ src = {} => d.nics \cap r.req.nics = {}
          [] r.req.op = "MOUNT" -> SourcesOf(d) = left \cup (IF hit = {} THEN {} ELSE src)
          [] r.req.op = "UMOUNT" -> SourcesOf(d) = left
          [] r.req.op = "UPDATE" -> /\ SourcesOf(d) = SourcesOf(was)
                                    /\ hit # {} => d.disks[r.req.to] \in {was.disks[i] : i \in hit}
AcceptedIsDone ==
    \A c \in alone :
        LET r == call[c]
            u == Uuid(c)
        IN  r.ok = "OK" /\ r.conn =>
            CASE r.req.op = "Create" ->
                   /\ u \in list /\ defined[u] # Undefined
                   /\ \A i \in DOMAIN r.req.items :
                        \/ r.req.items[i].src \in SourcesOf(defined[u])
                        \/ Displaced(r.req.items, i)
              [] r.req.op = "Delete" -> u \notin list /\ defined[u] = Undefined
              [] OTHER -> u \in list /\ Asked(r, defined[u])

\* An undisturbed request that was refused has changed neither the definition nor
\* the list, unless its connection died: then the definition may be as was asked,
\* and the list too, but only if the request raised.
Goal(r) == CASE r.req.op = "Create" -> Created(r.req)
             [] r.req.op = "Delete" -> Undefined
             [] OTHER -> Modified(r.before.seen, r.req)
RefusedIsUndone ==
    \A c \in alone : call[c].ok \notin {"none", "OK"} =>
        LET r == call[c]
            u == Uuid(c)
            same == (u \in list <=> r.before.listed)
        IN  \/ defined[u] = r.before.defined /\ same
            \/ /\ r.failed /\ r.conn /\ r.ok \in {"LIBVIRT_ERROR", "raised"}
               /\ defined[u] = Goal(r)
               /\ \/ same
                  \/ r.ok = "raised" /\ (u \in list <=> r.req.op # "Delete")

\* The documents are well formed, and the list of the agent has the domains of
\* libvirt (CreateDomain, DeleteDomain, initialize_domlist).
DomConsistent == DomTypeOK /\ ListIsDefined

\* The answer of an undisturbed request tells what it did.
AnswersAreTrue == AcceptedIsDone /\ RefusedIsUndone
=============================================================================
