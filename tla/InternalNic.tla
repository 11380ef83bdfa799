---------------------------- MODULE InternalNic ----------------------------
(***************************************************************************)
(* The virtual switches of net_agent and the internal card each one has:   *)
(* AddvSwitch, DelvSwitch, ModifyvSwitch, SetInternalNicParam and          *)
(* ClearInternalNicParam.  What Open vSwitch and the kernel are told is    *)
(* also kept in an ifcfg file, which is read and written anew for every    *)
(* key.  A handler is a list of commands, one step each; gRPC threads run  *)
(* the handlers side by side with no lock.                                 *)
(***************************************************************************)
EXTENDS Naturals, Sequences

CONSTANTS NicCallers,   \* gRPC threads
          NicSwitches,  \* names of switches, and of their internal cards
          Values,       \* VLANs, MTUs and addresses with their netmask
          Asks,         \* what SetInternalNicParam may be asked to set at once
          NicMaxCalls,  \* bound: calls ever started
          NicFaults     \* whether a command or file operation may fail, once a call

Unset == "unset"     \* no VLAN, no address; the MTU of a new card
Other == "other"     \* some card that is not a switch's

Parts == {"vlan", "mtu", "ip", "gateway"}

ASSUME InternalNicAssumption ==
    /\ NicSwitches # {}
    /\ Unset \notin Values
    /\ NicSwitches \cap {Unset, Other} = {}
    /\ Asks \subseteq SUBSET Parts
    /\ NicMaxCalls \in Nat
    /\ NicFaults \in BOOLEAN

VARIABLES
    bridges,   \* switches there are
    nic,       \* VLAN, MTU and address of the internal card of each
    conf,      \* the ifcfg file of each
    route,     \* the card of the default route
    nicCall,   \* what each thread is doing
    nicCalls,  \* number of calls so far
    nicAlone,  \* history: calls that no other call has overlapped so far
    nicDirty   \* history: switches whose ifcfg file has a cause to be wrong

nicVars == <<bridges, nic, conf, route, nicCall, nicCalls, nicAlone, nicDirty>>

Setting == Values \cup {Unset}
NewNic == [vlan |-> Unset, mtu |-> Unset, addr |-> Unset]
\* head: the lines that generate_conf_file writes
NoConf == [there |-> FALSE, head |-> FALSE, ip |-> Unset, mask |-> Unset]
Truncated == [NoConf EXCEPT !.there = TRUE]
NewConf == [Truncated EXCEPT !.head = TRUE]
Conf == [there : BOOLEAN, head : BOOLEAN, ip : Setting, mask : Setting]

\* Commands that change a switch or a card, file operations, and reads.
Commands == {"add_br", "generate", "del_br", "remove", "multicast",
             "link", "get_vlan", "vlan", "get_mtu", "mtu", "get_ip", "ip_done",
             "flush", "addr", "old_vlan", "old_mtu", "route"}
FileSteps == {"read_ip", "read_mask", "open_ip", "open_mask", "write_ip", "write_mask"}
NicAnswers == {"none", "SYS_OK", "SYS_FAIL", "raised"}

NicTypeOK ==
    /\ bridges \in SUBSET NicSwitches
    /\ nic \in [NicSwitches -> [vlan : Setting, mtu : Setting, addr : Setting]]
    /\ conf \in [NicSwitches -> Conf]
    /\ route \in NicSwitches \cup {Unset, Other}
    /\ \A c \in NicCallers :
         /\ nicCall[c].on \in NicSwitches
         /\ nicCall[c].value \in Values \cup {Unset}
         /\ \A i \in DOMAIN nicCall[c].todo : nicCall[c].todo[i] \in Commands \cup FileSteps
         /\ nicCall[c].done \in SUBSET Parts /\ nicCall[c].copy \in Conf
         /\ nicCall[c].ok \in NicAnswers
    /\ nicCalls \in 0..NicMaxCalls
    /\ nicAlone \in SUBSET NicCallers
    /\ nicDirty \in SUBSET NicSwitches

-----------------------------------------------------------------------------
(* The handlers as lists of commands                                       *)

Save(key) == CASE key = "ip" -> <<"read_ip", "open_ip", "write_ip">>
               [] key = "mask" -> <<"read_mask", "open_mask", "write_mask">>
SetIp == Save("ip") \o Save("mask") \o <<"flush", "addr">>
If(asked, steps) == IF asked THEN steps ELSE <<>>

AddvSwitch(multicast) == <<"add_br", "generate">> \o If(multicast, <<"multicast">>)
DelvSwitch == <<"del_br", "remove">>
ModifyvSwitch(multicast) == If(multicast, <<"multicast">>)

SetInternalNicParam(ask) ==
    <<"link">> \o If("vlan" \in ask, <<"get_vlan", "vlan">>)
               \o If("mtu" \in ask, <<"get_mtu", "mtu">>)
               \o If("ip" \in ask, <<"get_ip">> \o SetIp \o <<"ip_done">>)
               \o If("gateway" \in ask, <<"route">>)

\* The key GATEWAY, written like the others, is left out.
ClearInternalNicParam == <<"flush">> \o Save("ip") \o Save("mask")

\* Mutant: what was done first is not undone.
RollbackOfMtu(done) == If("mtu" \in done, <<"old_mtu">>)

\* What SetInternalNicParam does when a command of it fails.
Rollback(done) == If("ip" \in done, SetIp) \o If("mtu" \in done, <<"old_mtu">>)
                                           \o If("vlan" \in done, <<"old_vlan">>)

-----------------------------------------------------------------------------
(* Calls                                                                   *)

NicIdle == [op |-> "none", on |-> CHOOSE s \in NicSwitches : TRUE, todo |-> <<>>,
         ask |-> {}, value |-> Unset,
         bad |-> {},        \* those of VLAN and MTU that are given as no number
         done |-> {},       \* operate_success
         old |-> NewNic,    \* old_vlan, old_mtu, old_ip and old_netmask
         copy |-> NoConf,   \* the lines of the file as they were read
         undoing |-> FALSE, ok |-> "none",
         before |-> NewNic, \* history: the card at the start,
         routed |-> FALSE,  \* whether there was a default route then,
         failed |-> ""]     \* and whether, and when, a command failed

Running(c) == nicCall[c].op # "none" /\ nicCall[c].ok = "none"
Doing(c, step) == Running(c) /\ nicCall[c].todo # <<>> /\ Head(nicCall[c].todo) = step
NicContinue(c, r) == nicCall' = [nicCall EXCEPT ![c] = r]
Skip(r) == [r EXCEPT !.todo = Tail(@)]
Go(c) == NicContinue(c, Skip(nicCall[c]))

\* A NetAgentException: SetInternalNicParam rolls back, once; one that its
\* rollback raises leaves the handler.  ModifyvSwitch logs a field that its
\* request does not have, which raises.
Raise(r) ==
    CASE r.op = "Set" /\ ~r.undoing ->
           [r EXCEPT !.undoing = TRUE, !.todo = Rollback(r.done), !.value =
              IF r.old.addr = Unset THEN @ ELSE r.old.addr]
      [] r.op = "Modify" \/ (r.op = "Set" /\ r.undoing) -> [r EXCEPT !.ok = "raised"]
      [] OTHER -> [r EXCEPT !.ok = "SYS_FAIL"]
Fails(c) == NicContinue(c, Raise(nicCall[c]))

NicInit ==
    /\ bridges \in SUBSET NicSwitches
    /\ \E v \in Setting :
         /\ nic = [s \in NicSwitches |->
                     IF s \in bridges THEN [vlan |-> v, mtu |-> v, addr |-> v] ELSE NewNic]
         /\ conf = [s \in NicSwitches |->
                     IF s \in bridges THEN [NewConf EXCEPT !.ip = v, !.mask = v] ELSE NoConf]
    /\ route \in {Unset, Other}
    /\ nicCall = [c \in NicCallers |-> NicIdle]
    /\ nicCalls = 0
    /\ nicAlone = {}
    /\ nicDirty = {}

\* A call begins, with OvsHandle and is_vswitch_exist: the switch must be
\* there, or for AddvSwitch it must not.
NicCall(c, op, s, ask, v, bad, steps) ==
    LET others == {d \in NicCallers : Running(d)}
        new == [NicIdle EXCEPT !.op = op, !.on = s, !.ask = ask, !.value = v,
                   !.bad = bad, !.todo = steps,
                   !.ok = IF (s \in bridges) = (op # "Add") THEN "none" ELSE "SYS_FAIL",
                   !.before = IF others = {} THEN nic[s] ELSE NewNic,
                   !.routed = others = {} /\ route # Unset]
    IN  /\ ~Running(c) /\ nicCalls < NicMaxCalls
        /\ nicCalls' = nicCalls + 1
        /\ nicCall' = [d \in NicCallers |->
             CASE d = c -> new
             [] d \in others -> [nicCall[d] EXCEPT !.before = NewNic, !.routed = FALSE]
             [] OTHER -> NicIdle]
        /\ nicAlone' = IF others = {} THEN {c} ELSE {}
        /\ nicDirty' = IF \E d \in others : nicCall[d].on = s
                       THEN nicDirty \cup {s} ELSE nicDirty
        /\ UNCHANGED <<bridges, nic, conf, route>>

CallAdd(c) == \E s \in NicSwitches, m \in BOOLEAN :
    NicCall(c, "Add", s, {}, NicIdle.value, {}, AddvSwitch(m))
NicCallDel(c) == \E s \in NicSwitches :
    NicCall(c, "Del", s, {}, NicIdle.value, {}, DelvSwitch)
CallModify(c) == \E s \in NicSwitches, m \in BOOLEAN :
    NicCall(c, "Modify", s, {}, NicIdle.value, {}, ModifyvSwitch(m))
CallSet(c) == \E s \in NicSwitches, ask \in Asks, v \in Values :
    \E bad \in SUBSET (ask \cap {"vlan", "mtu"}) :
        NicCall(c, "Set", s, ask, v, bad, SetInternalNicParam(ask))
CallClear(c) == \E s \in NicSwitches :
    NicCall(c, "Clear", s, {}, NicIdle.value, {}, ClearInternalNicParam)

\* The list is done.
Finish(c) ==
    /\ Running(c) /\ nicCall[c].todo = <<>>
    /\ NicContinue(c, [nicCall[c] EXCEPT !.ok = IF @ = "none" /\ ~nicCall[c].undoing
                                                THEN "SYS_OK" ELSE "SYS_FAIL"])
    /\ UNCHANGED <<bridges, nic, conf, route, nicCalls, nicAlone, nicDirty>>

-----------------------------------------------------------------------------
(* The commands.  One for a switch that is not there, or is, fails.        *)

AddBr(c) ==
    LET s == nicCall[c].on
    IN  /\ Doing(c, "add_br")
        /\ bridges' = bridges \cup {s}
        /\ IF s \in bridges THEN Fails(c) ELSE Go(c)
        /\ UNCHANGED <<nic, conf, route, nicCalls, nicAlone, nicDirty>>

DelBr(c) ==
    LET s == nicCall[c].on
    IN  /\ Doing(c, "del_br")
        /\ bridges' = bridges \ {s}
        /\ nic' = [nic EXCEPT ![s] = NewNic]
        /\ route' = IF route = s THEN Unset ELSE route
        /\ IF s \in bridges THEN Go(c) ELSE Fails(c)
        /\ UNCHANGED <<conf, nicCalls, nicAlone, nicDirty>>

\* generate_conf_file and remove_conf_file
MakeConf(c) ==
    /\ \E op \in {"generate", "remove"} :
         /\ Doing(c, op)
         /\ conf' = [conf EXCEPT ![nicCall[c].on] =
                                   IF op = "generate" THEN NewConf ELSE NoConf]
    /\ Go(c)
    /\ UNCHANGED <<bridges, nic, route, nicCalls, nicAlone, nicDirty>>

\* set_vswitch_multicast, which only ever switches it on, start_nic, and the
\* values that are read in case they have to be set again
Query(c) ==
    LET r == nicCall[c]
        n == nic[r.on]
    IN  /\ \/ /\ Doing(c, "multicast") \/ Doing(c, "link")
              /\ IF r.on \in bridges THEN Go(c) ELSE Fails(c)
           \/ /\ Doing(c, "get_vlan")
              /\ IF r.on \in bridges
                 THEN NicContinue(c, [Skip(r) EXCEPT !.old.vlan = n.vlan]) ELSE Fails(c)
           \/ /\ Doing(c, "get_mtu")
              /\ IF r.on \in bridges
                 THEN NicContinue(c, [Skip(r) EXCEPT !.old.mtu = n.mtu]) ELSE Fails(c)
           \/ /\ Doing(c, "get_ip")
              /\ NicContinue(c, [Skip(r) EXCEPT !.old.addr = n.addr])
           \/ /\ Doing(c, "ip_done")
              /\ NicContinue(c, [Skip(r) EXCEPT !.done = @ \cup {"ip"}])
        /\ UNCHANGED <<bridges, nic, conf, route, nicCalls, nicAlone, nicDirty>>

\* What is no number raises a ValueError, which nothing catches: the handler ends
\* without a rollback.
NoNumber(c) == NicContinue(c, [nicCall[c] EXCEPT !.ok = "raised"])

SetVlan(c) ==
    LET r == nicCall[c]
    IN  /\ Doing(c, "vlan")
        /\ CASE "vlan" \in r.bad -> NoNumber(c) /\ UNCHANGED nic
             [] "vlan" \notin r.bad /\ r.on \in bridges ->
                  /\ nic' = [nic EXCEPT ![r.on].vlan = r.value]
                  /\ NicContinue(c, [Skip(r) EXCEPT !.done = @ \cup {"vlan"}])
             [] OTHER -> Fails(c) /\ UNCHANGED nic
        /\ UNCHANGED <<bridges, conf, route, nicCalls, nicAlone, nicDirty>>

NicSetMtu(c) ==
    LET r == nicCall[c]
    IN  /\ Doing(c, "mtu")
        /\ CASE "mtu" \in r.bad -> NoNumber(c) /\ UNCHANGED nic
             [] "mtu" \notin r.bad /\ r.on \in bridges ->
                  /\ nic' = [nic EXCEPT ![r.on].mtu = r.value]
                  /\ NicContinue(c, [Skip(r) EXCEPT !.done = @ \cup {"mtu"}])
             [] OTHER -> Fails(c) /\ UNCHANGED nic
        /\ UNCHANGED <<bridges, conf, route, nicCalls, nicAlone, nicDirty>>

\* set_ip_netmask and ClearInternalNicParam: the kernel drops the default route
\* with the address
Flush(c) ==
    LET s == nicCall[c].on
    IN  /\ Doing(c, "flush")
        /\ nic' = [nic EXCEPT ![s].addr = Unset]
        /\ route' = IF route = s THEN Unset ELSE route
        /\ IF s \in bridges THEN Go(c) ELSE Fails(c)
        /\ UNCHANGED <<bridges, conf, nicCalls, nicAlone, nicDirty>>

AddAddr(c) ==
    LET r == nicCall[c]
        good == r.on \in bridges /\ nic[r.on].addr # r.value
    IN  /\ Doing(c, "addr")
        /\ nic' = IF good THEN [nic EXCEPT ![r.on].addr = r.value] ELSE nic
        /\ IF good THEN Go(c) ELSE Fails(c)
        /\ UNCHANGED <<bridges, conf, route, nicCalls, nicAlone, nicDirty>>

\* set_gateway: a default route through whatever card makes it return at once
SetGateway(c) ==
    LET s == nicCall[c].on
    IN  /\ Doing(c, "route")
        /\ route' = IF route = Unset /\ nic[s].addr # Unset THEN s ELSE route
        /\ IF route = Unset /\ nic[s].addr = Unset THEN Fails(c) ELSE Go(c)
        /\ UNCHANGED <<bridges, nic, conf, nicCalls, nicAlone, nicDirty>>

\* The rollback: no VLAN reads as [], which is no number
SetOld(c) ==
    LET r == nicCall[c]
    IN  /\ \/ /\ Doing(c, "old_mtu")
              /\ nic' = IF r.on \in bridges THEN [nic EXCEPT ![r.on].mtu = r.old.mtu] ELSE nic
              /\ IF r.on \in bridges THEN Go(c) ELSE Fails(c)
           \/ /\ Doing(c, "old_vlan")
              /\ IF r.old.vlan = Unset \/ r.on \notin bridges
                 THEN Fails(c) /\ UNCHANGED nic
                 ELSE Go(c) /\ nic' = [nic EXCEPT ![r.on].vlan = r.old.vlan]
        /\ UNCHANGED <<bridges, conf, route, nicCalls, nicAlone, nicDirty>>

-----------------------------------------------------------------------------
(* save_conf_file_item                                                     *)

\* readlines: a file that cannot be read is left alone.  The rollback of an
\* address checks it before, and raises if there was none.
ReadConf(c) ==
    LET r == nicCall[c]
    IN  /\ \E key \in {"ip", "mask"} : Doing(c, Save(key)[1])
        /\ NicContinue(c,
             IF r.undoing /\ r.old.addr = Unset THEN Raise(r)
             ELSE IF conf[r.on].there THEN [Skip(r) EXCEPT !.copy = conf[r.on]]
             ELSE [r EXCEPT !.todo = SubSeq(@, 4, Len(@))])
        /\ UNCHANGED <<bridges, nic, conf, route, nicCalls, nicAlone, nicDirty>>

\* open truncates the file, or makes it again
OpenConf(c) ==
    /\ Doing(c, "open_ip") \/ Doing(c, "open_mask")
    /\ conf' = [conf EXCEPT ![nicCall[c].on] = Truncated]
    /\ Go(c)
    /\ UNCHANGED <<bridges, nic, route, nicCalls, nicAlone, nicDirty>>

\* Mutant: the lines of the other keys are not kept.
WriteKeyOnly(c) ==
    LET r == nicCall[c]
    IN  /\ \E key \in {"ip", "mask"} :
             /\ Doing(c, Save(key)[3])
             /\ conf' = [conf EXCEPT ![r.on] =
                   IF key = "ip" THEN [Truncated EXCEPT !.ip = r.value]
                   ELSE [Truncated EXCEPT !.mask = r.value]]
        /\ Go(c)
        /\ UNCHANGED <<bridges, nic, route, nicCalls, nicAlone, nicDirty>>

\* the lines as they were read, and the one of the key
WriteConf(c) ==
    LET r == nicCall[c]
        new == IF r.op = "Clear" THEN Unset ELSE r.value
    IN  /\ \E key \in {"ip", "mask"} :
             /\ Doing(c, Save(key)[3])
             /\ conf' = [conf EXCEPT ![r.on] = [r.copy EXCEPT
                   !.ip = IF key = "ip" THEN new ELSE @,
                   !.mask = IF key = "mask" THEN new ELSE @]]
        /\ NicContinue(c, [Skip(r) EXCEPT !.copy = NoConf])
        /\ UNCHANGED <<bridges, nic, route, nicCalls, nicAlone, nicDirty>>

\* A command fails, or an argument of it is illegal.
NicFail(c) ==
    LET r == [nicCall[c] EXCEPT !.failed =
                    IF nicCall[c].undoing THEN "rollback" ELSE "first"]
    IN  /\ NicFaults /\ Running(c) /\ nicCall[c].failed = "" /\ r.todo # <<>>
        /\ Head(r.todo) \notin {"ip_done", "write_ip", "write_mask", "get_ip"} \cup r.bad
        /\ NicContinue(c, IF Head(r.todo) \in {"read_ip", "read_mask"}
                          THEN [r EXCEPT !.todo = SubSeq(@, 4, Len(@))] ELSE Raise(r))
        /\ nicDirty' = nicDirty \cup {r.on}
        /\ UNCHANGED <<bridges, nic, conf, route, nicCalls, nicAlone>>

NicNext == \E c \in NicCallers :
    \/ CallAdd(c) \/ NicCallDel(c) \/ CallModify(c) \/ CallSet(c) \/ CallClear(c)
    \/ Finish(c) \/ NicFail(c)
    \/ AddBr(c) \/ DelBr(c) \/ MakeConf(c) \/ Query(c) \/ SetVlan(c) \/ NicSetMtu(c)
    \/ Flush(c) \/ AddAddr(c) \/ SetGateway(c) \/ SetOld(c)
    \/ ReadConf(c) \/ OpenConf(c) \/ WriteConf(c)

NicSpec == NicInit /\ [][NicNext]_nicVars

-----------------------------------------------------------------------------
(* Properties                                                              *)

Ended(c, op, answer) == nicCall[c].op = op /\ nicCall[c].ok = answer
Settled(s) == \A c \in NicCallers : Running(c) => nicCall[c].on # s

\* A switch has its ifcfg file, with the address and the netmask its card has,
\* and a switch that was deleted has none; unless a command for it failed or
\* calls for it ran side by side, of which each writes the lines it has read.
ConfIsLive ==
    \A s \in NicSwitches \ nicDirty : Settled(s) =>
        conf[s] = (IF s \in bridges
                   THEN [NewConf EXCEPT !.ip = nic[s].addr, !.mask = nic[s].addr]
                   ELSE NoConf)

\* SYS_OK of an undisturbed SetInternalNicParam: all that was asked is set, but
\* for a gateway if there was a default route, though it be the card's own.
SetIsDone ==
    \A c \in nicAlone : Ended(c, "Set", "SYS_OK") =>
        LET r == nicCall[c] IN
        nic[r.on] = [vlan |-> IF "vlan" \in r.ask THEN r.value ELSE r.before.vlan,
                     mtu |-> IF "mtu" \in r.ask THEN r.value ELSE r.before.mtu,
                     addr |-> IF "ip" \in r.ask THEN r.value ELSE r.before.addr]
        /\ ("gateway" \in r.ask => route = r.on \/ r.routed)

\* SYS_FAIL of an undisturbed SetInternalNicParam: VLAN and MTU are as before,
\* and so is the address unless it was flushed and none came after it.
RollbackRestores ==
    \A c \in nicAlone : Ended(c, "Set", "SYS_FAIL") =>
        LET r == nicCall[c] IN
        /\ nic[r.on].vlan = r.before.vlan /\ nic[r.on].mtu = r.before.mtu
        /\ nic[r.on].addr # r.before.addr =>
              nic[r.on].addr = Unset /\ "ip" \in r.ask /\ r.failed = "first"

\* An exception leaves an undisturbed SetInternalNicParam, with its rollback
\* unfinished or not begun, only for a VLAN or an MTU that is no number, or if what
\* it is to go back to is no VLAN or no address, or if the rollback fails itself;
\* for a VLAN that is no number nothing has been changed by then.
RaisedHasCause ==
    \A c \in nicAlone : Ended(c, "Set", "raised") =>
        LET r == nicCall[c] IN
        \/ "vlan" \in r.bad /\ nic[r.on] = r.before
        \/ "mtu" \in r.bad
        \/ r.failed = "rollback"
        \/ "vlan" \in r.done /\ r.before.vlan = Unset
        \/ "ip" \in r.done /\ r.before.addr = Unset

\* Switches are well formed, and the ifcfg file of each says what its card has
\* (save_conf_file_item).
NicConsistent == NicTypeOK /\ ConfIsLive

\* The answer of an undisturbed SetInternalNicParam tells what it did and what it
\* took back.
NicAnswersAreTrue == SetIsDone /\ RollbackRestores /\ RaisedHasCause
=============================================================================
