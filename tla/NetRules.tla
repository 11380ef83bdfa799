------------------------------ MODULE NetRules ------------------------------
(***************************************************************************)
(* The traffic rules of net_agent: ACL filters and QoS policies, each an   *)
(* XML file, attached to and detached from the port of a virtual machine.  *)
(* A call reads the file as it is now and gives Open vSwitch one command   *)
(* per rule; nothing remembers what has been attached where.  gRPC threads *)
(* run the calls side by side with no lock.                                *)
(***************************************************************************)
EXTENDS Naturals, Sequences, FiniteSets

CONSTANTS RulesCallers,   \* gRPC threads
          Filters,        \* names of ACL files
          Policies,       \* names of QoS files
          Taps,           \* ports of virtual machines
          Matches,        \* what the rule of a filter matches, but for everything
          Narrower,       \* the matches that each covers, which is itself among them
          AclContents,    \* contents that filters may be given
          QosContents,    \* contents that policies may be given
          RulesMaxCalls,  \* bound: calls ever started
          RulesFaults     \* whether a command or the writing of a file may fail

\* A rule without addresses of protocol ALL.
Everything == "everything"
\* Directions of a QoS rule; "in" with and without a burst.
Directions == {"in", "in+burst", "out"}

ASSUME NetRulesAssumption ==
    /\ Taps # {} /\ AclContents # {}
    /\ Filters \cap Policies = {}
    /\ Matches \cap (Directions \cup {Everything, "rate", "burst", "qos", "queue"}) = {}
    /\ Narrower \in [Matches -> SUBSET Matches]
    /\ \A m \in Matches : m \in Narrower[m]
    /\ AclContents \subseteq Seq(Matches \cup {Everything})
    /\ QosContents \subseteq Seq(Directions)
    /\ RulesMaxCalls \in Nat
    /\ RulesFaults \in BOOLEAN

VARIABLES
    file,        \* the rules in each file
    inForce,     \* what Open vSwitch does at each port: flows, limits and queues
    plugged,     \* ports there are
    rulesCall,   \* what each thread is doing
    rulesCalls,  \* number of calls so far
    rulesAlone,  \* history: calls that no other call has overlapped so far
    attached,    \* history: files attached to a port and not detached since
    rulesDirty   \* history: ports where attached and inForce have a cause to differ

rulesVars == <<file, inForce, plugged, rulesCall, rulesCalls, rulesAlone, attached, rulesDirty>>

Names == Filters \cup Policies
Contents(n) == IF n \in Filters THEN AclContents ELSE QosContents
Absent == <<"absent">>  \* no file
Torn   == <<"torn">>    \* a file that has been opened for writing
RulesNoName == "no name"
Items  == Matches \cup {"rate", "burst", "qos", "queue"}
Ops == {"Attach", "Detach", "Add", "Modify", "Del"}
OnTaps == {"Attach", "Detach"}
RulesPc == {"idle", "exist", "ofport", "parse", "rule", "open", "write"}
RulesAnswers == {"none", "SYS_OK", "SYS_FAIL"}

RulesTypeOK ==
    /\ \A n \in Names : file[n] \in Contents(n) \cup {Absent, Torn}
    /\ inForce \in [Taps -> SUBSET Items]
    /\ plugged \in SUBSET Taps
    /\ \A c \in RulesCallers :
         /\ rulesCall[c].pc \in RulesPc
         /\ rulesCall[c].op \in Ops /\ rulesCall[c].tap \in Taps
         /\ rulesCall[c].name \in Names \cup {RulesNoName}
         /\ rulesCall[c].content \in AclContents \cup QosContents
         /\ rulesCall[c].legal \in BOOLEAN /\ rulesCall[c].failed \in BOOLEAN
         /\ rulesCall[c].ok \in RulesAnswers
    /\ rulesCalls \in 0..RulesMaxCalls
    /\ rulesAlone \in SUBSET RulesCallers
    /\ attached \in [Taps -> SUBSET Names]
    /\ rulesDirty \in SUBSET Taps

-----------------------------------------------------------------------------
(* Rules and commands                                                      *)

\* What the command for a rule puts in force.
Effect(rule) ==
    CASE rule = "in" -> {"rate"}
      [] rule = "in+burst" -> {"rate", "burst"}
      [] rule = "out" -> {"qos"}
      [] rule = Everything -> {}
      [] OTHER -> {rule}

\* What it takes away: ovs-ofctl del-flows is not strict, and deletes the flows of
\* the port that match no more than the rule does.
Deletes(rule) == IF rule \in Matches THEN Narrower[rule] ELSE Effect(rule)

\* A rule "out" is attached by a second command, for the flow to the queue.
\* Nothing takes that flow away.
Rest(r) == IF r.op = "Attach" /\ Head(r.todo) = "out"
           THEN <<"queue">> \o Tail(r.todo) ELSE Tail(r.todo)

\* What is in force once the rules are attached.
InForceBy(rules) ==
    UNION {Effect(rules[i]) \cup (IF rules[i] = "out" THEN {"queue"} ELSE {})
             : i \in DOMAIN rules}
\* What detaching the rules takes away, whoever attached it.
DeletedBy(rules) == UNION {Deletes(rules[i]) : i \in DOMAIN rules}
IsRules(f) == f \notin {Absent, Torn}

RulesIdle == [pc |-> "idle", op |-> "Del", name |-> RulesNoName,
         tap |-> CHOOSE t \in Taps : TRUE, content |-> CHOOSE x \in AclContents : TRUE,
         legal |-> TRUE, todo |-> <<>>, ok |-> "none", before |-> Absent,
         failed |-> FALSE]

\* The files are those of before the agent was started.
RulesInit ==
    /\ file \in [Names -> AclContents \cup QosContents \cup {Absent}]
    /\ \A n \in Names : file[n] \in Contents(n) \cup {Absent}
    /\ inForce = [t \in Taps |-> {}]
    /\ plugged = Taps
    /\ rulesCall = [c \in RulesCallers |-> RulesIdle]
    /\ rulesCalls = 0
    /\ rulesAlone = {}
    /\ attached = [t \in Taps |-> {}]
    /\ rulesDirty = {}

-----------------------------------------------------------------------------
(* Calls                                                                   *)

RulesAt(c, here) == rulesCall[c].pc = here
RulesContinue(c, r) == rulesCall' = [rulesCall EXCEPT ![c] = r]
RulesGoto(c, there) == RulesContinue(c, [rulesCall[c] EXCEPT !.pc = there])
IsAcl(c) == rulesCall[c].name \in Filters

\* The end of a call.  Of the others only an undisturbed one is remembered.
RulesReply(c, r, answer) ==
    IF c \in rulesAlone THEN [r EXCEPT !.pc = "idle", !.ok = answer, !.todo = <<>>]
    ELSE [RulesIdle EXCEPT !.ok = answer]
RulesAnswer(c, answer) == RulesContinue(c, RulesReply(c, rulesCall[c], answer))

\* Ports that two calls may leave otherwise than either alone would.
Collision(r, s) ==
    IF /\ r.op \in OnTaps
       /\ r.name = s.name \/ (s.op \in OnTaps /\ r.tap = s.tap)
    THEN {r.tap} ELSE {}

\* A call begins; what earlier ones answered need not be remembered then.
RulesCall(c, op, n, t, x, legal) ==
    LET others == {d \in RulesCallers : ~RulesAt(d, "idle")}
        new == [RulesIdle EXCEPT !.op = op, !.name = n, !.tap = t,
                   !.content = x, !.legal = legal,
                   !.before = IF others = {} THEN file[n] ELSE Absent,
                   !.pc = IF op = "Del" THEN "open" ELSE "exist"]
    IN  /\ RulesAt(c, "idle") /\ rulesCalls < RulesMaxCalls
        /\ rulesCalls' = rulesCalls + 1
        /\ rulesCall' = [d \in RulesCallers |->
             CASE d = c -> new
             [] d # c /\ d \notin others -> RulesIdle
             [] OTHER -> [rulesCall[d] EXCEPT !.before = Absent]]
        /\ rulesAlone' = IF others = {} THEN {c} ELSE {}
        /\ rulesDirty' = rulesDirty \cup
             UNION {Collision(new, rulesCall[d]) \cup Collision(rulesCall[d], new) :
                    d \in others}
        /\ UNCHANGED <<file, inForce, plugged, attached>>

CallOnTap(c) == \E op \in OnTaps, n \in Names, t \in Taps :
    RulesCall(c, op, n, t, RulesIdle.content, TRUE)
CallOnFile(c) == \E op \in {"Add", "Modify"}, n \in Names :
    \E x \in Contents(n), legal \in BOOLEAN :
        /\ ~legal => x = CHOOSE y \in Contents(n) : TRUE
        /\ RulesCall(c, op, n, RulesIdle.tap, x, legal)
RulesCallDel(c) ==
    \E n \in Names : RulesCall(c, "Del", n, RulesIdle.tap, RulesIdle.content, TRUE)

\* os.path.exists, and after it the parameters.  An illegal rule of a filter is
\* caught in generate_acl_rules_file: SYS_OK, and no file.  An illegal default
\* action of one, and an illegal rule of a policy, are not: SYS_FAIL.
CheckFile(c) ==
    LET r == rulesCall[c]
        refused == (file[r.name] # Absent) = (r.op = "Add")
        onTap == r.op \in OnTaps
    IN  /\ RulesAt(c, "exist")
        /\ \/ refused /\ RulesAnswer(c, "SYS_FAIL")
           \/ ~refused /\ onTap /\ RulesGoto(c, IF IsAcl(c) THEN "ofport" ELSE "parse")
           \/ ~refused /\ ~onTap /\ r.legal /\ RulesGoto(c, "open")
           \/ /\ ~refused /\ ~onTap /\ ~r.legal
              /\ \/ RulesAnswer(c, "SYS_FAIL")
                 \/ IsAcl(c) /\ RulesAnswer(c, "SYS_OK")
        /\ UNCHANGED <<file, inForce, plugged, rulesCalls, rulesAlone, attached, rulesDirty>>

\* iface_to_ofport
ReadOfport(c) ==
    /\ RulesAt(c, "ofport")
    /\ IF rulesCall[c].tap \in plugged THEN RulesGoto(c, "parse") ELSE RulesAnswer(c, "SYS_FAIL")
    /\ UNCHANGED <<file, inForce, plugged, rulesCalls, rulesAlone, attached, rulesDirty>>

\* parse_acl_rules_file, get_qos_rules
Parse(c) ==
    LET rules == file[rulesCall[c].name]
    IN  /\ RulesAt(c, "parse")
        /\ IF IsRules(rules)
           THEN RulesContinue(c, [rulesCall[c] EXCEPT !.pc = "rule", !.todo = rules])
           ELSE RulesAnswer(c, "SYS_FAIL")
        /\ UNCHANGED <<file, inForce, plugged, rulesCalls, rulesAlone, attached, rulesDirty>>

\* Mutant: the rules of other files go too.
RunRuleOnAll(c) ==
    LET r == rulesCall[c]
    IN  /\ RulesAt(c, "rule") /\ r.todo # <<>>
        /\ inForce' = [inForce EXCEPT ![r.tap] =
                         IF r.op = "Attach" THEN Effect(Head(r.todo)) ELSE {}]
        /\ RulesContinue(c, [r EXCEPT !.todo = Rest(r)])
        /\ UNCHANGED <<file, plugged, rulesCalls, rulesAlone, attached, rulesDirty>>

\* One command of attach_rules or detach_rules.  A flow for a port that is not
\* there any more is accepted, and matches nothing; the settings of one are not.
RunRule(c) ==
    LET r == rulesCall[c]
        step == Head(r.todo)
        now == inForce[r.tap]
    IN  /\ RulesAt(c, "rule") /\ r.todo # <<>>
        /\ r.op = "Attach" => step # Everything
        /\ r.tap \in plugged \/ IsAcl(c)
        /\ inForce' = IF r.tap \notin plugged THEN inForce
                      ELSE [inForce EXCEPT ![r.tap] =
                              IF r.op = "Attach" THEN now \cup Effect(step)
                              ELSE now \ Deletes(step)]
        /\ RulesContinue(c, [r EXCEPT !.todo = Rest(r)])
        /\ UNCHANGED <<file, plugged, rulesCalls, rulesAlone, attached, rulesDirty>>

\* A rule that raises: one that matches everything cannot be attached, since
\* nothing is left of it before its action; a policy needs the port.
RuleRaises(c) ==
    /\ RulesAt(c, "rule") /\ rulesCall[c].todo # <<>>
    /\ \/ rulesCall[c].op = "Attach" /\ Head(rulesCall[c].todo) = Everything
       \/ ~IsAcl(c) /\ rulesCall[c].tap \notin plugged
    /\ RulesAnswer(c, "SYS_FAIL")
    /\ rulesDirty' = rulesDirty \cup {rulesCall[c].tap}
    /\ UNCHANGED <<file, inForce, plugged, rulesCalls, rulesAlone, attached>>

\* All commands given.  The history: a file must not say the same as another of the
\* port when it is attached, nor cover what another says when it is detached.
Attached(c) ==
    LET r == rulesCall[c]
        own == attached[r.tap] \ {r.name}
        touched == IF r.op = "Attach" THEN InForceBy(file[r.name]) ELSE DeletedBy(file[r.name])
    IN  /\ RulesAt(c, "rule") /\ r.todo = <<>>
        /\ RulesAnswer(c, "SYS_OK")
        /\ attached' = [attached EXCEPT ![r.tap] =
                          IF r.op = "Attach" THEN @ \cup {r.name} ELSE @ \ {r.name}]
        /\ rulesDirty' = IF IsRules(file[r.name]) /\ \E n \in own :
                              /\ IsRules(file[n])
                              /\ InForceBy(file[n]) \cap touched # {}
                         THEN rulesDirty \cup {r.tap} ELSE rulesDirty
        /\ UNCHANGED <<file, inForce, plugged, rulesCalls, rulesAlone>>

-----------------------------------------------------------------------------
(* Files                                                                   *)

\* The history: the ports that a file, changed now, is attached to.
Changed(n) == rulesDirty \cup {t \in Taps : n \in attached[t]}

\* tree.write opens the file, and DelAclFile or DelQosFile removes it.
OpenFile(c) ==
    LET r == rulesCall[c]
        there == file[r.name] # Absent
    IN  /\ RulesAt(c, "open")
        /\ file' = [file EXCEPT ![r.name] = IF r.op = "Del" THEN Absent ELSE Torn]
        /\ CASE r.op # "Del" -> RulesGoto(c, "write")
             [] r.op = "Del" /\ there -> RulesAnswer(c, "SYS_OK")
             [] OTHER -> RulesAnswer(c, "SYS_FAIL")
        /\ rulesDirty' = IF there THEN Changed(r.name) ELSE rulesDirty
        /\ UNCHANGED <<inForce, plugged, rulesCalls, rulesAlone, attached>>

\* Mutant: the old rules are written again.
WriteOld(c) ==
    /\ RulesAt(c, "write")
    /\ file' = [file EXCEPT ![rulesCall[c].name] = rulesCall[c].before]
    /\ rulesDirty' = Changed(rulesCall[c].name)
    /\ RulesAnswer(c, "SYS_OK")
    /\ UNCHANGED <<inForce, plugged, rulesCalls, rulesAlone, attached>>

\* A file that was removed while it was written stays removed.
WriteFile(c) ==
    LET r == rulesCall[c]
    IN  /\ RulesAt(c, "write")
        /\ file' = [file EXCEPT ![r.name] = IF @ = Absent THEN @ ELSE r.content]
        /\ rulesDirty' = Changed(r.name)
        /\ RulesAnswer(c, "SYS_OK")
        /\ UNCHANGED <<inForce, plugged, rulesCalls, rulesAlone, attached>>

-----------------------------------------------------------------------------
(* Failures and the environment                                            *)

\* A command or a write fails, or is_vswitch_exist finds no switch.  attach_rules
\* and detach_rules of a filter log it (as they do for every rule if the number
\* of the port could not be read), and the writing of one is caught; all else is
\* SYS_FAIL.
RulesFail(c) ==
    LET r == [rulesCall[c] EXCEPT !.failed = TRUE]
        ignored == IsAcl(c) /\ r.pc \in {"rule", "open", "write"} /\ r.op # "Del"
    IN  /\ RulesFaults /\ r.pc \in {"exist", "ofport", "rule", "open", "write"}
        /\ r.pc = "exist" => r.op \in OnTaps
        /\ r.pc = "rule" => r.todo # <<>> /\ Head(r.todo) # Everything
        /\ RulesContinue(c, CASE ~ignored -> RulesReply(c, r, "SYS_FAIL")
                              [] ignored /\ r.pc = "rule" -> [r EXCEPT !.todo = Rest(r)]
                              [] OTHER -> RulesReply(c, r, "SYS_OK"))
        /\ rulesDirty' = IF r.pc = "rule" THEN rulesDirty \cup {r.tap} ELSE rulesDirty
        /\ UNCHANGED <<file, inForce, plugged, rulesCalls, rulesAlone, attached>>

\* A virtual machine stops: its port goes, and all that was set for it.
Unplug(t) ==
    /\ plugged' = plugged \ {t}
    /\ t \in plugged
    /\ inForce' = [inForce EXCEPT ![t] = {}]
    /\ attached' = [attached EXCEPT ![t] = {}]
    /\ UNCHANGED <<file, rulesCall, rulesCalls, rulesAlone, rulesDirty>>

RulesNext ==
    \/ \E c \in RulesCallers :
         \/ CallOnTap(c) \/ CallOnFile(c) \/ RulesCallDel(c)
         \/ CheckFile(c) \/ ReadOfport(c) \/ Parse(c)
         \/ RunRule(c) \/ RuleRaises(c) \/ Attached(c)
         \/ OpenFile(c) \/ WriteFile(c) \/ RulesFail(c)
    \/ \E t \in Taps : Unplug(t)

RulesSpec == RulesInit /\ [][RulesNext]_rulesVars

-----------------------------------------------------------------------------
(* Properties                                                              *)

Busy(t) == \E c \in RulesCallers : /\ ~RulesAt(c, "idle")
                                   /\ rulesCall[c].op \in OnTaps
                                   /\ rulesCall[c].tap = t

\* What is in force at a port is what the files attached to it say, as they are
\* now, unless such a file was changed or removed, two of them say the same, the
\* detaching of one took rules of another that match less with it, a command failed
\* or was refused, or calls for the port or its files ran side by side.  The flow to
\* the queue of a policy is never taken away.
InForceIsAttached ==
    \A t \in plugged \ rulesDirty : ~Busy(t) =>
        LET due == UNION {InForceBy(file[n]) : n \in attached[t]}
        IN  inForce[t] \ {"queue"} = due \ {"queue"} /\ due \subseteq inForce[t]

\* SYS_OK of an undisturbed AttachAcl or AttachQos: the rules are in force,
\* unless a command failed, which AttachAcl hides.
AttachedIsInForce ==
    \A c \in rulesAlone :
        (RulesAt(c, "idle") /\ rulesCall[c].ok = "SYS_OK" /\ rulesCall[c].op = "Attach")
        => \/ InForceBy(rulesCall[c].before) \subseteq inForce[rulesCall[c].tap]
           \/ rulesCall[c].tap \notin plugged
           \/ IsAcl(c) /\ rulesCall[c].failed

\* SYS_FAIL of an undisturbed attach or detach has a cause: no such file, or a
\* torn one; no such port; a rule that matches everything; a failing command.
RefusalHasCause ==
    \A c \in rulesAlone :
        (RulesAt(c, "idle") /\ rulesCall[c].ok = "SYS_FAIL" /\ rulesCall[c].op \in OnTaps)
        => \/ ~IsRules(file[rulesCall[c].name])
           \/ rulesCall[c].tap \notin plugged
           \/ /\ rulesCall[c].op = "Attach"
              /\ \E i \in DOMAIN file[rulesCall[c].name] :
                    file[rulesCall[c].name][i] = Everything
           \/ rulesCall[c].failed

\* The answer of an undisturbed call on a file.  SYS_OK: it is as was asked, but
\* for a filter with an illegal rule or a write that failed, both of which are
\* hidden.  SYS_FAIL: it is as it was, or torn by a write that failed.
FileAnswers ==
    \A c \in rulesAlone : (RulesAt(c, "idle") /\ rulesCall[c].op \notin OnTaps) =>
        LET r == rulesCall[c]
        IN  /\ r.ok = "SYS_OK" =>
                 \/ file[r.name] = (IF r.op = "Del" THEN Absent ELSE r.content)
                 \/ IsAcl(c) /\ file[r.name] = r.before /\ ~(r.legal /\ ~r.failed)
                 \/ IsAcl(c) /\ file[r.name] = Torn /\ r.failed
            /\ r.ok = "SYS_FAIL" =>
                 \/ file[r.name] = r.before
                 \/ file[r.name] = Torn /\ r.failed

\* Files and ports are well formed, and what is in force is what is attached
\* (attach_rules, detach_rules).
RulesConsistent == RulesTypeOK /\ InForceIsAttached

\* The answer of an undisturbed call tells what it did, or hides one of the
\* failures named above.
RulesAnswersAreTrue == AttachedIsInForce /\ RefusalHasCause /\ FileAnswers
=============================================================================
