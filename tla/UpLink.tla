------------------------------- MODULE UpLink -------------------------------
(***************************************************************************)
(* The uplinks of net_agent: AddUpLink, DelUpLink, ModifyUpLink and        *)
(* ModifyNic, which gRPC threads run side by side with no lock.  net_agent *)
(* keeps nothing: what a switch has is asked of Open vSwitch and of        *)
(* /sys/class/net, one command after the other, and each command is a step.*)
(***************************************************************************)
EXTENDS Naturals, FiniteSets

CONSTANTS Callers,    \* gRPC threads
          Switches,
          Nics,       \* physical network cards
          Bonds,      \* bond names
          Occupied,   \* switches that have the port of a virtual machine too
          MaxCalls,   \* bound: calls ever started
          Faults      \* whether a command or a write to /sys may fail, one
                      \* in the calls under way

NoName == "no uplink"

ASSUME UpLinkAssumption ==
    /\ Switches # {} /\ Bonds # {}
    /\ IsFiniteSet(Nics)
    /\ NoName \notin Nics \cup Bonds
    /\ Occupied \subseteq Switches
    /\ MaxCalls \in Nat
    /\ Faults \in BOOLEAN

VARIABLES
    ports,   \* the ports of Open vSwitch that have physical interfaces
    driver,  \* driver of each card; without one it is not in /sys/class/net
    call,    \* what each thread is doing
    calls,   \* number of calls so far
    alone    \* history: calls that no other call has overlapped so far

vars == <<ports, driver, call, calls, alone>>

\* A port is named after its card or after the bond; a port that is deleted
\* and added again has other uuids, here the number of the call that added it.
Port == [name : Nics \cup Bonds, on : Switches, nics : SUBSET Nics,
         uuid : 0..MaxCalls]
Drivers == {"none", "old", "new"}
UpLinkOps == {"AddUpLink", "DelUpLink", "ModifyUpLink"}
Reading == {"interfaces", "type", "ports", "port"}
Pc == Reading \cup {"idle", "decide", "exist", "remove", "free", "add",
                    "detach", "attach", "mtu"}
Answers == {"none", "SYS_OK", "SYS_FAIL", "raised"}
Request == [op : UpLinkOps \cup {"ModifyNic"},
            on : Switches, nics : SUBSET Nics,
            bond : Bonds,                     \* bond_name
            driver : BOOLEAN, mtu : BOOLEAN]  \* whether they are to change
Call == [id : 0..MaxCalls, pc : Pc, req : Request,
         todo : SUBSET Nics,                  \* cards still to look at
         phys : SUBSET (Nics \X (0..MaxCalls)), \* phy_nics_list_uuid
         name : Nics \cup Bonds \cup {NoName}, \* uplink_port_name
         ok : Answers,                        \* errno
         before : SUBSET Port,                \* history: ports at the start
         failed : BOOLEAN,                    \* history: a command failed
         moved : BOOLEAN]                     \* history: the port it is to
                                              \* remove left the switch

TypeOK ==
    /\ ports \in SUBSET Port
    /\ driver \in [Nics -> Drivers]
    /\ call \in [Callers -> Call]
    /\ calls \in 0..MaxCalls
    /\ alone \in SUBSET Callers

Uplinks(s) == {p \in ports : p.on = s}
Interfaces(p) == p.nics \X {p.uuid}
AllInterfaces == UNION {Interfaces(p) : p \in ports}

NoRequest == [op |-> "DelUpLink", on |-> CHOOSE s \in Switches : TRUE,
              nics |-> {}, bond |-> CHOOSE b \in Bonds : TRUE,
              driver |-> FALSE, mtu |-> FALSE]

\* What a thread that has no call, and no answer to remember, is doing.
Idle == [id |-> 0, pc |-> "idle", req |-> NoRequest, todo |-> {}, phys |-> {},
         name |-> NoName, ok |-> "none", before |-> {}, failed |-> FALSE,
         moved |-> FALSE]

\* Open vSwitch keeps its ports while net_agent is down: one of the switches
\* may have an uplink from before.
Init ==
    /\ \/ ports = {}
       \/ \E s \in Switches, n \in Nics :
            ports = {[name |-> n, on |-> s, nics |-> {n}, uuid |-> 0]}
       \/ \E s \in Switches, b \in Bonds, ns \in SUBSET Nics :
            /\ Cardinality(ns) = 2
            /\ ports = {[name |-> b, on |-> s, nics |-> ns, uuid |-> 0]}
    /\ driver = [n \in Nics |-> "old"]
    /\ call = [c \in Callers |-> Idle]
    /\ calls = 0
    /\ alone = {}

At(c, here) == call[c].pc = here
Continue(c, r) == call' = [call EXCEPT ![c] = r]
Goto(c, there) == Continue(c, [call[c] EXCEPT !.pc = there])
\* The end of a call.  Of the others only an undisturbed one is remembered.
Undisturbed(r) == \E c \in alone : call[c].id = r.id
Reply(r, answer) ==
    IF Undisturbed(r)
    THEN [Idle EXCEPT !.id = r.id, !.req = r.req, !.before = r.before,
                      !.failed = r.failed, !.ok = answer]
    ELSE [Idle EXCEPT !.ok = answer]
Answer(c, answer) == Continue(c, Reply(call[c], answer))

\* A call begins; what earlier ones answered need not be remembered then.
Start(c, req, there) ==
    /\ At(c, "idle") /\ calls < MaxCalls
    /\ calls' = calls + 1
    /\ call' = [d \in Callers |->
          CASE d = c -> [Idle EXCEPT !.id = calls', !.pc = there, !.req = req,
                                     !.before = ports]
            [] d # c /\ At(d, "idle") -> Idle
            [] OTHER -> [call[d] EXCEPT !.before = {}]]
    /\ alone' = IF \A d \in Callers \ {c} : At(d, "idle") THEN {c} ELSE {}
    /\ UNCHANGED <<ports, driver>>

CallUpLink(c) ==
    \E op \in UpLinkOps, s \in Switches, ns \in SUBSET Nics,
       b \in Bonds :
        /\ Cardinality(ns) <= 2
        /\ op = "DelUpLink" => ns = {}
        /\ Cardinality(ns) <= 1 => b = NoRequest.bond
        /\ Start(c, [NoRequest EXCEPT !.op = op, !.on = s, !.nics = ns,
                                      !.bond = b],
                 "interfaces")

-----------------------------------------------------------------------------
(* get_uplink_port_name: any exception makes it the empty name             *)

ReadNothing(r) == [r EXCEPT !.pc = "decide", !.name = NoName,
                            !.todo = {}, !.phys = {}]
ReadName(r, name) == [ReadNothing(r) EXCEPT !.name = name]

\* list-ifaces.  A switch without any leaves the name '', which is no card.
ListInterfaces(c) ==
    LET found == UNION {p.nics : p \in Uplinks(call[c].req.on)}
    IN  /\ At(c, "interfaces")
        /\ Continue(c, IF found = {} THEN ReadNothing(call[c])
                       ELSE [call[c] EXCEPT !.pc = "type", !.todo = found])
        /\ UNCHANGED <<ports, driver, calls, alone>>

\* Mutant: an interface that is not in /sys/class/net is passed over.
SkipInterface(c) ==
    /\ At(c, "type")
    /\ \E n \in call[c].todo :
         Continue(c, [call[c] EXCEPT !.todo = @ \ {n},
            !.phys = @ \cup {i \in AllInterfaces : i[1] = n /\ driver[n] # "none"},
            !.pc = IF call[c].todo = {n} THEN "ports" ELSE @])
    /\ UNCHANGED <<ports, driver, calls, alone>>

\* get_nic_type and get_interface_uuid of one interface: both raise if it is
\* not there any more
LookAtInterface(c) ==
    /\ At(c, "type")
    /\ \E n \in call[c].todo :
         Continue(c,
            IF driver[n] = "none" \/ ~\E i \in AllInterfaces : i[1] = n
            THEN ReadNothing(call[c])
            ELSE [call[c] EXCEPT !.todo = @ \ {n},
                     !.phys = @ \cup {i \in AllInterfaces : i[1] = n},
                     !.pc = IF call[c].todo = {n} THEN "ports" ELSE @])
    /\ UNCHANGED <<ports, driver, calls, alone>>

\* One card names the port.  Of several the port is looked for, but the lines
\* of list-ports are split at commas: it is only found if it is the only one.
ListPorts(c) ==
    LET r == call[c]
        own == Uplinks(r.req.on)
        lone == Cardinality(own) = 1 /\ r.req.on \notin Occupied
    IN  /\ At(c, "ports")
        /\ Continue(c,
             IF Cardinality(r.phys) = 1
             THEN IF r.phys \subseteq AllInterfaces
                  THEN ReadName(r, CHOOSE n \in Nics : \E i \in r.phys : i[1] = n)
                  ELSE ReadNothing(r)
             ELSE IF lone THEN [r EXCEPT !.pc = "port",
                                         !.name = (CHOOSE p \in own : TRUE).name]
                  ELSE ReadNothing(r))
        /\ UNCHANGED <<ports, driver, calls, alone>>

\* get_interface_of_port: only the first uuid is free of a leading space
MatchPort(c) ==
    /\ At(c, "port")
    /\ \/ /\ \A p \in ports : p.name # call[c].name
          /\ Continue(c, ReadNothing(call[c]))
       \/ \E p \in ports : \E first \in Interfaces(p) :
            /\ p.name = call[c].name
            /\ Continue(c, IF first \in call[c].phys
                           THEN ReadName(call[c], p.name)
                           ELSE ReadNothing(call[c]))
    /\ UNCHANGED <<ports, driver, calls, alone>>

-----------------------------------------------------------------------------
(* The handlers once they have the name                                    *)

\* where the new cards come in: a single port or a bond, checked card by card
SetPort(r) == [r EXCEPT !.pc = "free", !.todo = r.req.nics, !.moved = FALSE]

\* the end of remove_port
Removed(r) ==
    CASE r.req.op = "DelUpLink" -> Reply(r, "SYS_OK")
      [] r.req.op # "DelUpLink" /\ r.req.nics = {} -> Reply(r, "SYS_FAIL")
      [] OTHER -> SetPort(r)

\* DelUpLink goes on with the empty name: remove_port is silent about it
Decide(c) ==
    LET r == call[c]
        none == r.name = NoName
        add == r.req.op = "AddUpLink"
    IN  /\ At(c, "decide")
        /\ Continue(c,
             CASE add /\ ~none -> Reply(r, "SYS_FAIL")
               [] add /\ none /\ r.req.nics = {} -> Reply(r, "SYS_OK")
               [] add /\ none /\ r.req.nics # {} -> SetPort(r)
               [] r.req.op = "ModifyUpLink" /\ none -> Reply(r, "SYS_FAIL")
               [] OTHER -> [r EXCEPT !.pc = "exist"])
        /\ UNCHANGED <<ports, driver, calls, alone>>

\* Mutant: the output of port-to-br keeps its end of line.
NoPortMatches(c) ==
    /\ At(c, "exist")
    /\ Continue(c, Removed(call[c]))
    /\ UNCHANGED <<ports, driver, calls, alone>>

\* is_port_exist: port-to-br
CheckPort(c) ==
    /\ At(c, "exist")
    /\ IF \E p \in Uplinks(call[c].req.on) : p.name = call[c].name
       THEN Goto(c, "remove")
       ELSE Continue(c, Removed(call[c]))
    /\ UNCHANGED <<ports, driver, calls, alone>>

\* Mutant: DelUpLink and ModifyUpLink delete the port and name it again.
RemoveWrongPort(c) ==
    /\ At(c, "remove")
    /\ \E p \in ports : ports' = ports \ {p}
    /\ Continue(c, Removed(call[c]))
    /\ UNCHANGED <<driver, calls, alone>>

\* del-port, whatever switch the port is on by now
RemovePort(c) ==
    LET gone == {p \in ports : p.name = call[c].name}
    IN  /\ At(c, "remove")
        /\ ports' = ports \ gone
        /\ call' = [d \in Callers |->
              IF d = c THEN (IF gone = {} THEN Reply(call[c], "SYS_FAIL")
                             ELSE Removed(call[c]))
              ELSE [call[d] EXCEPT !.moved =
                      \/ @
                      \/ At(d, "remove") /\ \E p \in gone : p.name = call[d].name]]
        /\ UNCHANGED <<driver, calls, alone>>

\* get_nic_type and is_nic_free of one card
CheckFree(c) ==
    /\ At(c, "free")
    /\ \E n \in call[c].todo :
         Continue(c, IF driver[n] = "none" \/ \E p \in ports : n \in p.nics
                     THEN Reply(call[c], "SYS_FAIL")
                     ELSE [call[c] EXCEPT !.todo = @ \ {n},
                              !.pc = IF call[c].todo = {n} THEN "add" ELSE @])
    /\ UNCHANGED <<ports, driver, calls, alone>>

\* add-port, or add-bond of set_dynamic_bond and set_static_bond.  Open vSwitch
\* refuses a name or an interface that is taken.
AddPort(c) ==
    LET r == call[c]
        bond == Cardinality(r.req.nics) > 1
        new == [name |-> IF bond THEN r.req.bond
                         ELSE CHOOSE n \in r.req.nics : TRUE,
                on |-> r.req.on, nics |-> r.req.nics, uuid |-> r.id]
        free == \A p \in ports : p.name # new.name /\ p.nics \cap new.nics = {}
    IN  /\ At(c, "add")
        /\ ports' = IF free THEN ports \cup {new} ELSE ports
        /\ Answer(c, IF free THEN "SYS_OK" ELSE "SYS_FAIL")
        /\ UNCHANGED <<driver, calls, alone>>

-----------------------------------------------------------------------------
(* ModifyNic                                                               *)

\* After the driver, whatever came of it.  The answer about the MTU replaces
\* the one about the driver.
Mtu(r, answer) == IF r.req.mtu THEN [r EXCEPT !.pc = "mtu"]
                  ELSE Reply(r, answer)

CallModifyNic(c) ==
    \E n \in Nics, drv \in BOOLEAN, mtu \in BOOLEAN :
        /\ drv \/ mtu
        /\ Start(c, [NoRequest EXCEPT !.op = "ModifyNic", !.nics = {n},
                                      !.driver = drv, !.mtu = mtu],
                 IF drv THEN "detach" ELSE "mtu")

\* The card is looked up, then get_raw_device, get_driver_path_by_driver_name
\* and the write to unbind.  A card that has gone meanwhile raises what the
\* handler does not catch.
DetachDriver(c) ==
    LET r == call[c]
        n == CHOOSE m \in r.req.nics : TRUE
    IN  /\ At(c, "detach")
        /\ IF driver[n] = "none"
           THEN /\ \E answer \in {"SYS_FAIL", "raised"} : Answer(c, answer)
                /\ UNCHANGED driver
           ELSE /\ driver' = [driver EXCEPT ![n] = "none"]
                /\ Goto(c, "attach")
        /\ UNCHANGED <<ports, calls, alone>>

\* Mutant: the MTU is not looked at, the answer says so.
AttachIsEnough(c) ==
    /\ At(c, "attach")
    /\ driver' = driver
    /\ Continue(c, Mtu(call[c], "SYS_OK"))
    /\ UNCHANGED <<ports, calls, alone>>

\* the write to bind: a device that has a driver again refuses it
AttachDriver(c) ==
    LET n == CHOOSE m \in call[c].req.nics : TRUE
        good == driver[n] = "none"
    IN  /\ At(c, "attach")
        /\ driver' = IF good THEN [driver EXCEPT ![n] = "new"] ELSE driver
        /\ Continue(c, Mtu(call[c], IF good THEN "SYS_OK" ELSE "SYS_FAIL"))
        /\ UNCHANGED <<ports, calls, alone>>

SetMtu(c) ==
    /\ At(c, "mtu")
    /\ Answer(c, IF \A n \in call[c].req.nics : driver[n] # "none"
                 THEN "SYS_OK" ELSE "SYS_FAIL")
    /\ UNCHANGED <<ports, driver, calls, alone>>

-----------------------------------------------------------------------------
\* A command fails: a read tells of no uplink, a port is not there, a card is
\* free; a change raises, as do an illegal bond mode, driver or MTU.
CommandFails(c) ==
    LET r == [call[c] EXCEPT !.failed = TRUE]
    IN  /\ Faults /\ \A d \in Callers : ~call[d].failed
        /\ \/ r.pc \in Reading /\ Continue(c, ReadNothing(r))
           \/ r.pc = "exist" /\ Continue(c, Removed(r))
           \/ /\ r.pc = "free"
              /\ \E n \in r.todo :
                   /\ driver[n] # "none"
                   /\ Continue(c, [r EXCEPT !.todo = @ \ {n},
                                   !.pc = IF r.todo = {n} THEN "add" ELSE @])
           \/ r.pc \in {"remove", "add", "mtu"} /\ Continue(c, Reply(r, "SYS_FAIL"))
           \/ r.pc \in {"detach", "attach"} /\ Continue(c, Mtu(r, "SYS_FAIL"))
        /\ UNCHANGED <<ports, driver, calls, alone>>

Next == \E c \in Callers :
    \/ CallUpLink(c) \/ ListInterfaces(c) \/ LookAtInterface(c)
    \/ ListPorts(c) \/ MatchPort(c) \/ Decide(c)
    \/ CheckPort(c) \/ RemovePort(c) \/ CheckFree(c) \/ AddPort(c)
    \/ CallModifyNic(c) \/ DetachDriver(c) \/ AttachDriver(c) \/ SetMtu(c)
    \/ CommandFails(c)

Spec == Init /\ [][Next]_vars

-----------------------------------------------------------------------------
(* Properties                                                              *)

\* The cases in which get_uplink_port_name cannot name what is there: several
\* uplinks, a bond beside another port, a card without a driver.
Unreadable(s) ==
    \/ Cardinality(Uplinks(s)) > 1
    \/ s \in Occupied /\ \E p \in Uplinks(s) : Cardinality(p.nics) > 1
    \/ \E p \in Uplinks(s) : \E n \in p.nics : driver[n] = "none"

\* What get_uplink_port_name says, undisturbed: the port that is the uplink,
\* or none, though there is one only in the cases above and if no command
\* failed.
ReadsTheUplink ==
    \A c \in alone : At(c, "decide") =>
        IF call[c].name = NoName
        THEN \/ Uplinks(call[c].req.on) = {}
             \/ Unreadable(call[c].req.on)
             \/ call[c].failed
        ELSE {call[c].name} = {p.name : p \in Uplinks(call[c].req.on)}

\* A switch gets a second uplink only from calls side by side, a failing
\* command, or an uplink that could not be read.
SecondUplinkHasCause ==
    [][\A s \in Switches :
          (Uplinks(s) # {} /\ Uplinks(s)' \ Uplinks(s) # {}) =>
             \E c \in Callers : /\ call[c].req.on = s
                                /\ call[c].pc = "add"
                                /\ \/ c \notin alone
                                   \/ call[c].failed
                                   \/ Unreadable(s)]_vars

\* SYS_OK of an undisturbed AddUpLink or ModifyUpLink that names cards: they
\* are an uplink of the switch, and of no other.
AcceptedIsDone ==
    \A c \in alone :
        (/\ At(c, "idle") /\ call[c].ok = "SYS_OK" /\ call[c].req.nics # {}
         /\ call[c].req.op \in {"AddUpLink", "ModifyUpLink"})
        => {p \in ports : p.nics \cap call[c].req.nics # {}}
             = {p \in Uplinks(call[c].req.on) : p.nics = call[c].req.nics}

\* SYS_OK of an undisturbed DelUpLink: the switch has lost its uplink, and
\* nothing else has changed; or it could not be read, and all is as before.
DeletedIsGone ==
    \A c \in alone :
        (At(c, "idle") /\ call[c].ok = "SYS_OK" /\ call[c].req.op = "DelUpLink")
        => \/ ports = {p \in call[c].before : p.on # call[c].req.on}
           \/ /\ ports = call[c].before
              /\ Unreadable(call[c].req.on) \/ call[c].failed

\* SYS_FAIL of an undisturbed call leaves the ports as they were, but for
\* ModifyUpLink, which may have removed the old uplink and never puts it back.
RefusedIsUndone ==
    \A c \in alone : (At(c, "idle") /\ call[c].ok = "SYS_FAIL") =>
        \/ ports = call[c].before
        \/ /\ call[c].req.op = "ModifyUpLink"
           /\ ports = {p \in call[c].before : p.on # call[c].req.on}

\* A port is removed by a call for its own switch, unless it moved to another
\* one after remove_port had looked where it is.
OnlyMovedPortsAreStray ==
    [][\A p \in ports \ ports' :
          \E c \in Callers : /\ call[c].pc = "remove" /\ call'[c].pc # "remove"
                             /\ call[c].name = p.name
                             /\ call[c].req.on = p.on \/ call[c].moved]_vars

\* A card has a driver when ModifyNic answers SYS_OK for it, whatever ran side by
\* side; undisturbed it has the one that was asked for, unless a command failed.
ModifyNicAnswersForTheCard ==
    [][\A c \in Callers :
         LET r == call[c] IN
         (r.req.op = "ModifyNic" /\ r.pc # "idle" /\ call'[c].ok = "SYS_OK")
         => \A n \in r.req.nics :
              /\ driver'[n] # "none"
              /\ (r.req.driver /\ c \in alone) =>
                    driver'[n] = "new" \/ r.failed]_vars

\* Ports and calls are well formed, and the port that a call is about to work on
\* is the uplink (get_uplink_port_name).
Consistent == TypeOK /\ ReadsTheUplink

\* The answer of an undisturbed uplink call tells what became of the ports
\* (AddUpLink, DelUpLink, ModifyUpLink).
AnswersAreTrue == AcceptedIsDone /\ DeletedIsGone /\ RefusedIsUndone

\* No port comes or goes without a cause (remove_port, set_single_uplink_port, set_bond_uplink_port).
ChangesHaveCause == SecondUplinkHasCause /\ OnlyMovedPortsAreStray
=============================================================================
