--------------------------- MODULE NetAgentProofs ---------------------------
(***************************************************************************)
(* The handlers of net_agent, for any number of threads, switches, cards,  *)
(* ports, files and calls: that the pieces of state agree, and that        *)
(* answers are true.  Spec, Consistent and AnswersAreTrue are those of     *)
(* UpLink.                                                                 *)
(***************************************************************************)
EXTENDS UpLink, NetRules, InternalNic, FiniteSetTheorems, SequenceTheorems, TLAPS

-----------------------------------------------------------------------------
(***************************************************************************)
(* Part 1.  UpLink: the uplinks.                                           *)
(***************************************************************************)

(* Ports                                                                   *)

UplinksIn(P, s) == {p \in P : p.on = s}
InterfacesIn(P) == UNION {Interfaces(p) : p \in P}
CardsOf(P) == UNION {p.nics : p \in P}
UnreadableIn(P, D, s) ==
    \/ Cardinality(UplinksIn(P, s)) > 1
    \/ s \in Occupied /\ \E p \in UplinksIn(P, s) : Cardinality(p.nics) > 1
    \/ \E p \in UplinksIn(P, s) : \E n \in p.nics : D[n] = "none"

\* What the ports of Open vSwitch are: each has a card, one with a single card
\* has its name, and no two have the same name or a card in common.
PortsSound(P) ==
    /\ P \in SUBSET Port /\ IsFiniteSet(P)
    /\ \A p \in P : p.nics # {}
    /\ \A p \in P, n \in Nics : p.nics = {n} => p.name = n
    /\ \A p \in P, q \in P : p.name = q.name \/ p.nics \cap q.nics # {} => p = q

\* The model's definitions in these terms.
LEMMA InTermsOfPorts ==
    /\ \A s : Uplinks(s) = UplinksIn(ports, s)
    /\ AllInterfaces = InterfacesIn(ports)
    /\ \A s : Unreadable(s) = UnreadableIn(ports, driver, s)
BY DEF Uplinks, UplinksIn, AllInterfaces, InterfacesIn, Unreadable, UnreadableIn

\* An interface is a card of a port with the uuid of that port.
LEMMA InterfaceOfPort ==
    ASSUME NEW P, NEW i \in InterfacesIn(P)
    PROVE  \E p \in P : i[1] \in p.nics /\ i = <<i[1], p.uuid>>
BY DEF InterfacesIn, Interfaces

LEMMA PortHasInterfaces ==
    ASSUME NEW P, NEW p \in P, NEW n \in p.nics
    PROVE  <<n, p.uuid>> \in InterfacesIn(P) /\ <<n, p.uuid>> \in Interfaces(p)
BY DEF InterfacesIn, Interfaces

\* A card is in one port, so that it has one interface.
LEMMA OneInterface ==
    ASSUME NEW P, PortsSound(P), NEW p \in P, NEW n \in p.nics,
           NEW i \in InterfacesIn(P), i[1] = n
    PROVE  i = <<n, p.uuid>>
<1>1. PICK q \in P : i[1] \in q.nics /\ i = <<i[1], q.uuid>>
  BY InterfaceOfPort
<1>2. p = q
  BY <1>1 DEF PortsSound
<1>3. QED
  BY <1>1, <1>2

\* The interfaces of a switch with one port are those of the port.
LEMMA InterfacesOfLone ==
    ASSUME NEW P, PortsSound(P), NEW s, NEW p \in P, UplinksIn(P, s) = {p}
    PROVE  /\ CardsOf(UplinksIn(P, s)) = p.nics
           /\ {i \in InterfacesIn(P) : i[1] \in CardsOf(UplinksIn(P, s))} = Interfaces(p)
<1>1. CardsOf(UplinksIn(P, s)) = p.nics
  BY DEF CardsOf
<1>2. \A i \in InterfacesIn(P) : i[1] \in p.nics => i \in Interfaces(p)
  BY OneInterface DEF Interfaces
<1>3. \A i \in Interfaces(p) : i \in InterfacesIn(P) /\ i[1] \in p.nics
  BY DEF InterfacesIn, Interfaces
<1>4. QED
  BY <1>1, <1>2, <1>3

\* A switch whose cards have one interface has one port with that card, which
\* is named after it (get_uplink_port_name).
LEMMA LoneInterface ==
    ASSUME NEW P, PortsSound(P), NEW s, UplinksIn(P, s) # {},
           NEW i, {j \in InterfacesIn(P) : j[1] \in CardsOf(UplinksIn(P, s))} = {i}
    PROVE  /\ i \in InterfacesIn(P) /\ i[1] \in Nics
           /\ {p.name : p \in UplinksIn(P, s)} = {i[1]}
<1>1. \A p \in UplinksIn(P, s) : \A n \in p.nics :
         <<n, p.uuid>> \in {j \in InterfacesIn(P) : j[1] \in CardsOf(UplinksIn(P, s))}
  <2> SUFFICES ASSUME NEW p \in UplinksIn(P, s), NEW n \in p.nics
               PROVE  <<n, p.uuid>> \in InterfacesIn(P) /\ n \in CardsOf(UplinksIn(P, s))
    OBVIOUS
  <2>1. p \in P
    BY DEF UplinksIn
  <2>2. QED
    BY <2>1, PortHasInterfaces DEF CardsOf
<1>2. \A p \in UplinksIn(P, s) : \A n \in p.nics : i = <<n, p.uuid>>
  BY <1>1
<1>3. \A p \in UplinksIn(P, s) : p \in P /\ p.nics # {} /\ p.nics \subseteq Nics
  BY DEF UplinksIn, PortsSound, Port
<1>4. \A p \in UplinksIn(P, s) : p.nics = {i[1]} /\ i[1] \in Nics
  <2> SUFFICES ASSUME NEW p \in UplinksIn(P, s)
               PROVE  p.nics = {i[1]} /\ i[1] \in Nics
    OBVIOUS
  <2>1. \A n \in p.nics : n = i[1]
    BY <1>2
  <2>2. QED
    BY <2>1, <1>3
<1>5. \A p \in UplinksIn(P, s) : p.name = i[1]
  BY <1>3, <1>4 DEF PortsSound
<1>6. QED
  BY <1>4, <1>5

\* If they have several, and the switch is no port's alone or is not alone with
\* it, it cannot be read.
LEMMA SeveralInterfaces ==
    ASSUME NEW P, PortsSound(P), NEW D, NEW s, UplinksIn(P, s) # {},
           NEW I, I = {j \in InterfacesIn(P) : j[1] \in CardsOf(UplinksIn(P, s))},
           Cardinality(I) # 1,
           ~(Cardinality(UplinksIn(P, s)) = 1 /\ s \notin Occupied)
    PROVE  UnreadableIn(P, D, s)
<1> DEFINE U == UplinksIn(P, s)
<1>1. IsFiniteSet(U) /\ Cardinality(U) \in Nat /\ Cardinality(U) # 0
  <2>1. U \in SUBSET P /\ IsFiniteSet(P)
    BY DEF UplinksIn, PortsSound
  <2>2. IsFiniteSet(U)
    BY <2>1, FS_Subset
  <2>3. QED
    BY <2>2, FS_CardinalityType, FS_EmptySet
<1>2. CASE Cardinality(U) # 1
  BY <1>1, <1>2 DEF UnreadableIn
<1>3. CASE Cardinality(U) = 1
  <2>1. s \in Occupied
    BY <1>3
  <2>2. PICK p : U = {p}
    BY <1>1, <1>3, FS_Singleton
  <2>3. p \in P /\ p.nics # {} /\ p.nics \in SUBSET Nics
    BY <2>2 DEF UplinksIn, PortsSound, Port
  <2>4. I = Interfaces(p)
    BY <2>2, <2>3, InterfacesOfLone
  <2>5. IsFiniteSet(p.nics) /\ Cardinality(p.nics) \in Nat /\ Cardinality(p.nics) # 0
    <3>1. IsFiniteSet(p.nics)
      BY <2>3, UpLinkAssumption, FS_Subset
    <3>2. QED
      BY <2>3, <3>1, FS_CardinalityType, FS_EmptySet
  <2>6. Cardinality(p.nics) # 1
    <3> SUFFICES ASSUME Cardinality(p.nics) = 1 PROVE FALSE
      OBVIOUS
    <3>1. PICK n : p.nics = {n}
      BY <2>5, FS_Singleton
    <3>2. I = {<<n, p.uuid>>}
      BY <2>4, <3>1 DEF Interfaces
    <3>3. QED
      BY <3>2, FS_Singleton
  <2>7. QED
    BY <2>1, <2>2, <2>5, <2>6 DEF UnreadableIn
<1>4. QED
  BY <1>2, <1>3

-----------------------------------------------------------------------------
(* The inductive invariant                                                 *)

PortPc == Reading \cup {"decide", "exist", "remove", "free", "add"}
CardPc == {"detach", "attach", "mtu"}

\* What a call is, wherever it has got to and whatever runs beside it.
CallSound(r, P) ==
    /\ r.pc # "idle" => r.ok = "none"
    /\ r.pc \in CardPc => r.req.op = "ModifyNic" /\ \E n \in Nics : r.req.nics = {n}
    /\ r.pc \in PortPc => r.req.op \in UpLinkOps
    /\ r.pc \in {"free", "add"} => r.req.op # "DelUpLink" /\ r.req.nics # {}
    /\ r.pc \in {"exist", "remove"} => r.req.op # "AddUpLink"
    /\ r.pc = "remove" => r.moved \/ \E p \in P : p.name = r.name /\ p.on = r.req.on

\* The ports of before a call but for the uplink of its switch.
Without(r) == {p \in r.before : p.on # r.req.on}

\* What an answer says of the ports (AnswersAreTrue).
AnswerTrue(r, ok, P, D) ==
    /\ (ok = "SYS_OK" /\ r.req.nics # {} /\ r.req.op \in {"AddUpLink", "ModifyUpLink"})
       => {p \in P : p.nics \cap r.req.nics # {}}
            = {p \in UplinksIn(P, r.req.on) : p.nics = r.req.nics}
    /\ (ok = "SYS_OK" /\ r.req.op = "DelUpLink")
       => \/ P = Without(r)
          \/ P = r.before /\ (UnreadableIn(P, D, r.req.on) \/ r.failed)
    /\ ok = "SYS_FAIL" => P = r.before \/ (r.req.op = "ModifyUpLink" /\ P = Without(r))

\* The name that get_uplink_port_name has found.
NameTrue(r, P, D) ==
    IF r.name = NoName
    THEN UplinksIn(P, r.req.on) = {} \/ UnreadableIn(P, D, r.req.on) \/ r.failed
    ELSE {r.name} = {p.name : p \in UplinksIn(P, r.req.on)}

\* What an undisturbed call has found and done so far.
Story(r, P, D) ==
    LET cards == CardsOf(UplinksIn(P, r.req.on)) IN
    /\ r.pc \in Reading \cup CardPc \cup {"decide", "exist", "remove"} => P = r.before
    /\ r.pc = "interfaces" => r.phys = {}
    /\ r.pc = "type" => /\ r.todo # {} /\ r.todo \subseteq cards
                        /\ r.phys = {i \in InterfacesIn(P) : i[1] \in cards \ r.todo}
    /\ r.pc \in {"ports", "port"} => /\ UplinksIn(P, r.req.on) # {}
                                     /\ r.phys = {i \in InterfacesIn(P) : i[1] \in cards}
    /\ r.pc = "port" => \E p \in P : UplinksIn(P, r.req.on) = {p} /\ r.name = p.name
    /\ r.pc \in {"decide", "exist", "remove"} => NameTrue(r, P, D)
    /\ (r.pc = "exist" /\ r.req.op = "ModifyUpLink") \/ r.pc = "remove" => r.name # NoName
    /\ r.pc \in {"free", "add"} =>
         /\ P = r.before \/ (r.req.op = "ModifyUpLink" /\ P = Without(r))
         /\ UplinksIn(P, r.req.on) = {} \/ UnreadableIn(P, D, r.req.on) \/ r.failed
    /\ r.pc = "attach" => \A n \in r.req.nics : D[n] = "none"
    /\ (r.pc = "mtu" /\ r.req.driver) => \A n \in r.req.nics : D[n] = "new" \/ r.failed
    /\ r.pc = "idle" => AnswerTrue(r, r.ok, P, D)

\* Nothing runs beside a call that no other has overlapped.
AloneInv ==
    \A c \in alone : /\ \A d \in Callers \ {c} : At(d, "idle")
                     /\ Story(call[c], ports, driver)

UpLinkInv ==
    /\ TypeOK
    /\ PortsSound(ports)
    /\ \A c \in Callers : CallSound(call[c], ports)
    /\ AloneInv

LEMMA IdleIsCall ==
    /\ Idle \in Call /\ NoRequest \in Request
    /\ Idle.pc = "idle" /\ Idle.ok = "none" /\ Idle.id = 0
    /\ Idle.req = NoRequest /\ NoRequest.op = "DelUpLink" /\ NoRequest.nics = {}
BY UpLinkAssumption DEF Idle, NoRequest, Call, Request, Pc, Reading, Answers, UpLinkOps

LEMMA UpLinkInitially == Init => UpLinkInv
<1> SUFFICES ASSUME Init PROVE UpLinkInv
  OBVIOUS
<1>1. PortsSound(ports)
  <2>1. CASE ports = {}
    BY <2>1, FS_EmptySet DEF PortsSound
  <2>2. ASSUME NEW s \in Switches, NEW n \in Nics,
               ports = {[name |-> n, on |-> s, nics |-> {n}, uuid |-> 0]}
        PROVE  PortsSound(ports)
    <3>1. IsFiniteSet(ports)
      BY <2>2, FS_Singleton
    <3>2. QED
      BY <2>2, <3>1, UpLinkAssumption DEF PortsSound, Port
  <2>3. ASSUME NEW s \in Switches, NEW b \in Bonds, NEW ns \in SUBSET Nics,
               Cardinality(ns) = 2,
               ports = {[name |-> b, on |-> s, nics |-> ns, uuid |-> 0]}
        PROVE  PortsSound(ports)
    <3>1. IsFiniteSet(ports)
      BY <2>3, FS_Singleton
    <3>2. ns # {} /\ \A n : ns # {n}
      <4>1. Cardinality({}) # 2
        BY FS_EmptySet
      <4>2. \A n : Cardinality({n}) = 1
        BY FS_Singleton
      <4>3. ASSUME NEW n, ns = {n} PROVE FALSE
        <5>1. Cardinality(ns) = 1
          BY <4>2, <4>3, Zenon
        <5>2. QED
          BY <2>3, <5>1
      <4>4. QED
        BY <2>3, <4>1, <4>3
    <3>3. QED
      BY <2>3, <3>1, <3>2, UpLinkAssumption DEF PortsSound, Port
  <2>4. QED
    BY <2>1, <2>2, <2>3 DEF Init
<1>2. \A c \in Callers : call[c] = Idle
  BY DEF Init
<1>3. TypeOK
  BY <1>1, IdleIsCall, UpLinkAssumption DEF Init, TypeOK, PortsSound, Drivers
<1>4. \A c \in Callers : CallSound(call[c], ports)
  BY <1>2, IdleIsCall DEF CallSound, CardPc, PortPc, Reading
<1>5. AloneInv
  BY DEF Init, AloneInv
<1>6. QED
  BY <1>1, <1>3, <1>4, <1>5 DEF UpLinkInv

-----------------------------------------------------------------------------
(* Steps                                                                   *)

\* Of the calls under way only one that runs alone is undisturbed.
LEMMA AloneIsIt ==
    ASSUME UpLinkInv, NEW c \in Callers, ~At(c, "idle")
    PROVE  /\ \A d \in alone : d = c
           /\ \A r : r.id = call[c].id => (Undisturbed(r) <=> c \in alone)
<1>1. \A d \in alone : d = c
  BY DEF UpLinkInv, AloneInv
<1>2. QED
  BY <1>1 DEF Undisturbed

\* A step of one call that leaves the ports alone.
LEMMA CallStep ==
    ASSUME UpLinkInv, NEW c \in Callers, ~At(c, "idle"), NEW r \in Call,
           Continue(c, r), UNCHANGED <<ports, calls, alone>>,
           driver' \in [Nics -> Drivers],
           CallSound(r, ports), c \in alone => Story(r, ports, driver')
    PROVE  UpLinkInv'
<1>1. /\ call' \in [Callers -> Call] /\ call'[c] = r
      /\ \A d \in Callers \ {c} : call'[d] = call[d]
  BY DEF Continue, UpLinkInv, TypeOK
<1>2. TypeOK'
  BY <1>1 DEF UpLinkInv, TypeOK
<1>3. PortsSound(ports)'
  BY DEF UpLinkInv
<1>4. \A d \in Callers : CallSound(call'[d], ports')
  BY <1>1 DEF UpLinkInv
<1>5. ASSUME NEW d \in alone
      PROVE  /\ \A e \in Callers \ {d} : call'[e].pc = "idle"
             /\ Story(call'[d], ports', driver')
  <2>1. d = c
    BY AloneIsIt
  <2>2. QED
    BY <1>1, <2>1 DEF UpLinkInv, AloneInv, At
<1>6. AloneInv'
  BY <1>5 DEF AloneInv, At
<1>7. QED
  BY <1>2, <1>3, <1>4, <1>6 DEF UpLinkInv

\* The end of a call: its record is forgotten unless it was undisturbed.
LEMMA ReplyIs ==
    ASSUME UpLinkInv, NEW c \in Callers, ~At(c, "idle"),
           NEW r \in Call, r.id = call[c].id, NEW answer \in Answers
    PROVE  /\ Reply(r, answer) \in Call
           /\ Reply(r, answer).pc = "idle" /\ Reply(r, answer).ok = answer
           /\ c \in alone => /\ Reply(r, answer).req = r.req
                             /\ Reply(r, answer).before = r.before
                             /\ Reply(r, answer).failed = r.failed
<1>1. Undisturbed(r) <=> c \in alone
  BY AloneIsIt
<1>2. QED
  BY <1>1, IdleIsCall DEF Reply, Call, Idle

LEMMA ReplySound ==
    ASSUME UpLinkInv, NEW c \in Callers, ~At(c, "idle"),
           NEW r \in Call, r.id = call[c].id, NEW answer \in Answers, NEW P, NEW D,
           c \in alone => AnswerTrue(r, answer, P, D)
    PROVE  /\ CallSound(Reply(r, answer), P)
           /\ c \in alone => Story(Reply(r, answer), P, D)
<1>1. CallSound(Reply(r, answer), P)
  BY ReplyIs DEF CallSound, CardPc, PortPc, Reading
<1>2. ASSUME c \in alone PROVE Story(Reply(r, answer), P, D)
  <2>1. AnswerTrue(Reply(r, answer), answer, P, D)
    BY <1>2, ReplyIs DEF AnswerTrue, Without
  <2>2. QED
    BY <2>1, ReplyIs DEF Story, Reading, CardPc
<1>3. QED
  BY <1>1, <1>2

\* A call that ends and leaves the ports alone.
LEMMA ReplyStep ==
    ASSUME UpLinkInv, NEW c \in Callers, ~At(c, "idle"),
           NEW r \in Call, r.id = call[c].id, NEW answer \in Answers,
           Continue(c, Reply(r, answer)), UNCHANGED <<ports, calls, alone>>,
           driver' \in [Nics -> Drivers],
           c \in alone => AnswerTrue(r, answer, ports, driver')
    PROVE  UpLinkInv'
<1>1. /\ CallSound(Reply(r, answer), ports)
      /\ c \in alone => Story(Reply(r, answer), ports, driver')
  BY ReplySound
<1>2. Reply(r, answer) \in Call
  BY ReplyIs
<1>3. QED
  BY <1>1, <1>2, CallStep

\* A call begins.
LEMMA StartStep ==
    ASSUME UpLinkInv, NEW c \in Callers, NEW req \in Request, NEW there \in Pc,
           Start(c, req, there),
           \/ there = "interfaces" /\ req.op \in UpLinkOps
           \/ /\ there = "detach" \/ (there = "mtu" /\ ~req.driver)
              /\ req.op = "ModifyNic" /\ \E n \in Nics : req.nics = {n}
    PROVE  UpLinkInv'
<1> DEFINE new == [Idle EXCEPT !.id = calls', !.pc = there, !.req = req, !.before = ports]
<1>1. calls' \in 0..MaxCalls
  BY UpLinkAssumption DEF Start, UpLinkInv, TypeOK
<1>2. /\ new \in Call /\ new.pc = there /\ new.req = req /\ new.before = ports
      /\ new.ok = "none" /\ new.phys = {}
  BY <1>1, IdleIsCall DEF UpLinkInv, TypeOK, Call, Idle
<1>3. /\ call' \in [Callers -> Call] /\ call'[c] = new
      /\ \A d \in Callers \ {c} : call'[d] = IF At(d, "idle") THEN Idle
                                             ELSE [call[d] EXCEPT !.before = {}]
  <2>1. \A d \in Callers : [call[d] EXCEPT !.before = {}] \in Call
    BY DEF UpLinkInv, TypeOK, Call
  <2>2. QED
    BY <1>2, <2>1, IdleIsCall DEF Start
<1> HIDE DEF new
<1>4. TypeOK'
  BY <1>1, <1>3 DEF Start, UpLinkInv, TypeOK
<1>5. PortsSound(ports)'
  BY DEF Start, UpLinkInv
<1>6. ASSUME NEW d \in Callers PROVE CallSound(call'[d], ports)
  <2>1. CASE d = c
    BY <1>2, <1>3, <2>1 DEF CallSound, CardPc, PortPc, Reading
  <2>2. CASE d # c /\ At(d, "idle")
    BY <1>3, <2>2, IdleIsCall DEF CallSound, CardPc, PortPc, Reading
  <2>3. CASE d # c /\ ~At(d, "idle")
    <3>1. call'[d] = [call[d] EXCEPT !.before = {}] /\ call[d] \in Call
      BY <1>3, <2>3 DEF UpLinkInv, TypeOK
    <3>2. /\ call'[d].pc = call[d].pc /\ call'[d].ok = call[d].ok
          /\ call'[d].req = call[d].req /\ call'[d].moved = call[d].moved
          /\ call'[d].name = call[d].name
      BY <3>1 DEF Call
    <3>3. CallSound(call[d], ports)
      BY DEF UpLinkInv
    <3>4. QED
      BY <3>2, <3>3 DEF CallSound
  <2>4. QED
    BY <2>1, <2>2, <2>3
<1>7. AloneInv'
  <2> SUFFICES ASSUME NEW d \in alone'
               PROVE  /\ \A e \in Callers \ {d} : call'[e].pc = "idle"
                      /\ Story(call'[d], ports', driver')
    BY DEF AloneInv, At
  <2>1. d = c /\ \A e \in Callers \ {c} : At(e, "idle")
    BY DEF Start
  <2>2. \A e \in Callers \ {c} : call'[e].pc = "idle"
    BY <1>3, <2>1, IdleIsCall
  <2>3. Story(new, ports, driver)
    BY <1>2 DEF Story, Reading, CardPc
  <2>4. QED
    BY <1>3, <2>1, <2>2, <2>3 DEF Start
<1>8. QED
  BY <1>4, <1>5, <1>6, <1>7 DEF UpLinkInv, Start

LEMMA CallUpLinkStep ==
    ASSUME UpLinkInv, NEW c \in Callers, CallUpLink(c)
    PROVE  UpLinkInv'
<1>1. PICK op \in UpLinkOps, s \in Switches, ns \in SUBSET Nics, b \in Bonds :
         Start(c, [NoRequest EXCEPT !.op = op, !.on = s, !.nics = ns, !.bond = b],
               "interfaces")
  BY DEF CallUpLink
<1> DEFINE req == [NoRequest EXCEPT !.op = op, !.on = s, !.nics = ns, !.bond = b]
<1>2. req \in Request /\ req.op = op /\ "interfaces" \in Pc
  BY IdleIsCall DEF Request, Pc, Reading
<1>3. QED
  <2> HIDE DEF req
  <2>1. Start(c, req, "interfaces")
    BY <1>1 DEF req
  <2>2. QED
    BY <1>2, <2>1, StartStep

LEMMA CallModifyNicStep ==
    ASSUME UpLinkInv, NEW c \in Callers, CallModifyNic(c)
    PROVE  UpLinkInv'
<1>1. PICK n \in Nics, drv \in BOOLEAN, mtu \in BOOLEAN :
         Start(c, [NoRequest EXCEPT !.op = "ModifyNic", !.nics = {n},
                                    !.driver = drv, !.mtu = mtu],
               IF drv THEN "detach" ELSE "mtu")
  BY DEF CallModifyNic
<1> DEFINE req == [NoRequest EXCEPT !.op = "ModifyNic", !.nics = {n},
                                    !.driver = drv, !.mtu = mtu]
           there == IF drv THEN "detach" ELSE "mtu"
<1>2. req \in Request /\ req.op = "ModifyNic" /\ req.nics = {n} /\ req.driver = drv
  BY IdleIsCall DEF Request
<1>3. /\ there \in Pc
      /\ there = "detach" \/ (there = "mtu" /\ ~req.driver)
  BY <1>2 DEF Pc
<1>4. Start(c, req, there)
  BY <1>1
<1>5. QED
  <2> HIDE DEF req, there
  <2>1. QED
    BY <1>2, <1>3, <1>4, StartStep

-----------------------------------------------------------------------------
(* get_uplink_port_name                                                    *)

\* What is known of a call under way.
LEMMA UnderWay ==
    ASSUME UpLinkInv, NEW c \in Callers
    PROVE  /\ call[c] \in Call /\ call \in [Callers -> Call]
           /\ CallSound(call[c], ports)
           /\ c \in alone => Story(call[c], ports, driver)
           /\ PortsSound(ports) /\ driver \in [Nics -> Drivers]
BY DEF UpLinkInv, TypeOK, AloneInv

LEMMA ReadNothingIs ==
    ASSUME NEW r \in Call, NEW name \in Nics \cup Bonds \cup {NoName}
    PROVE  /\ ReadName(r, name) \in Call /\ ReadNothing(r) = ReadName(r, NoName)
           /\ ReadName(r, name).pc = "decide" /\ ReadName(r, name).name = name
           /\ ReadName(r, name).id = r.id /\ ReadName(r, name).ok = r.ok
           /\ ReadName(r, name).req = r.req /\ ReadName(r, name).before = r.before
           /\ ReadName(r, name).failed = r.failed
BY DEF ReadName, ReadNothing, Call, Pc

\* The name has been read, or none has: the handler decides.
LEMMA ReadStep ==
    ASSUME UpLinkInv, NEW c \in Callers, call[c].pc \in Reading,
           NEW r \in Call, r.id = call[c].id, r.ok = call[c].ok, r.req = call[c].req,
           r.before = call[c].before,
           NEW name \in Nics \cup Bonds \cup {NoName},
           Continue(c, ReadName(r, name)), UNCHANGED <<ports, driver, calls, alone>>,
           c \in alone => NameTrue(ReadName(r, name), ports, driver)
    PROVE  UpLinkInv'
<1> DEFINE q == ReadName(r, name)
<1>1. /\ q \in Call /\ q.pc = "decide" /\ q.ok = call[c].ok
      /\ q.req = call[c].req /\ q.before = call[c].before
  BY ReadNothingIs
<1> HIDE DEF q
<1>2. ~At(c, "idle")
  BY DEF At, Reading
<1>3. CallSound(q, ports)
  BY <1>1, UnderWay DEF CallSound, CardPc, PortPc, Reading
<1>4. ASSUME c \in alone PROVE Story(q, ports, driver)
  <2>1. ports = q.before
    BY <1>1, <1>4, UnderWay DEF Story
  <2>2. NameTrue(q, ports, driver)
    BY <1>4 DEF q
  <2>3. QED
    BY <1>1, <2>1, <2>2 DEF Story, Reading, CardPc
<1>5. driver' \in [Nics -> Drivers]
  BY UnderWay
<1>6. Continue(c, q)
  BY DEF q
<1>7. QED
  BY <1>1, <1>2, <1>3, <1>4, <1>5, <1>6, CallStep

\* A reading that goes on: to the next interface or the next command.
LEMMA ReadOnStep ==
    ASSUME UpLinkInv, NEW c \in Callers, call[c].pc \in Reading,
           NEW r \in Call, r.pc \in Reading, r.ok = call[c].ok, r.req = call[c].req,
           r.before = call[c].before,
           Continue(c, r), UNCHANGED <<ports, driver, calls, alone>>,
           c \in alone => /\ r.pc # "interfaces"
                          /\ UplinksIn(ports, r.req.on) # {}
                          /\ r.pc = "type" => /\ r.todo # {}
                                              /\ r.todo \subseteq CardsOf(UplinksIn(ports, r.req.on))
                          /\ r.phys = {i \in InterfacesIn(ports) :
                                i[1] \in CardsOf(UplinksIn(ports, r.req.on))
                                         \ (IF r.pc = "type" THEN r.todo ELSE {})}
                          /\ r.pc = "port" => \E p \in ports :
                                UplinksIn(ports, r.req.on) = {p} /\ r.name = p.name
    PROVE  UpLinkInv'
<1>1. ~At(c, "idle")
  BY DEF At, Reading
<1>2. CallSound(r, ports)
  BY UnderWay DEF CallSound, CardPc, PortPc, Reading
<1>3. ASSUME c \in alone PROVE Story(r, ports, driver)
  <2>1. ports = r.before
    BY <1>3, UnderWay DEF Story
  <2>2. r.pc \in {"ports", "port"} =>
          r.phys = {i \in InterfacesIn(ports) : i[1] \in CardsOf(UplinksIn(ports, r.req.on))}
    BY <1>3
  <2>3. r.pc = "type" =>
          r.phys = {i \in InterfacesIn(ports) :
                      i[1] \in CardsOf(UplinksIn(ports, r.req.on)) \ r.todo}
    BY <1>3
  <2>4. QED
    BY <1>3, <2>1, <2>2, <2>3 DEF Story, Reading, CardPc
<1>4. driver' \in [Nics -> Drivers]
  BY UnderWay
<1>5. QED
  BY <1>1, <1>2, <1>3, <1>4, CallStep

LEMMA ListInterfacesStep ==
    ASSUME UpLinkInv, NEW c \in Callers, ListInterfaces(c)
    PROVE  UpLinkInv'
<1> DEFINE r == call[c]
           found == UNION {p.nics : p \in Uplinks(r.req.on)}
           q == [r EXCEPT !.pc = "type", !.todo = found]
<1>1. /\ r \in Call /\ r.pc = "interfaces" /\ r.pc \in Reading
      /\ UNCHANGED <<ports, driver, calls, alone>>
  BY UnderWay DEF ListInterfaces, At, Reading
<1>2. found = CardsOf(UplinksIn(ports, r.req.on))
  BY InTermsOfPorts DEF CardsOf
<1>3. \A p \in UplinksIn(ports, r.req.on) : p.nics # {} /\ p.nics \subseteq Nics
  BY UnderWay DEF UplinksIn, PortsSound, Port
<1>4. CASE found = {}
  <2>1. UplinksIn(ports, r.req.on) = {}
    BY <1>2, <1>3, <1>4 DEF CardsOf
  <2>2. NameTrue(ReadName(r, NoName), ports, driver)
    BY <1>1, <2>1, ReadNothingIs DEF NameTrue
  <2>3. Continue(c, ReadName(r, NoName))
    BY <1>1, <1>4, ReadNothingIs DEF ListInterfaces
  <2>4. QED
    BY <1>1, <2>2, <2>3, ReadStep
<1>5. CASE found # {}
  <2>1. Continue(c, q)
    BY <1>5 DEF ListInterfaces
  <2>2. found \in SUBSET Nics /\ UplinksIn(ports, r.req.on) # {}
    BY <1>2, <1>3, <1>5 DEF CardsOf
  <2>3. /\ q \in Call /\ q.pc = "type" /\ q.todo = found /\ q.ok = r.ok
        /\ q.req = r.req /\ q.before = r.before /\ q.phys = r.phys
    BY <1>1, <2>2 DEF Call, Pc, Reading
  <2>4. ASSUME c \in alone
        PROVE  q.phys = {i \in InterfacesIn(ports) :
                           i[1] \in CardsOf(UplinksIn(ports, r.req.on)) \ found}
    <3>1. q.phys = {}
      BY <1>1, <2>3, <2>4, UnderWay DEF Story
    <3>2. QED
      BY <1>2, <3>1
  <2> HIDE DEF q, found
  <2>5. QED
    BY <1>1, <1>2, <1>5, <2>1, <2>2, <2>3, <2>4, ReadOnStep DEF Reading
<1>6. QED
  BY <1>4, <1>5

LEMMA LookAtInterfaceStep ==
    ASSUME UpLinkInv, NEW c \in Callers, LookAtInterface(c)
    PROVE  UpLinkInv'
<1> DEFINE r == call[c]
           U == UplinksIn(ports, r.req.on)
           I == InterfacesIn(ports)
           gone(n) == driver[n] = "none" \/ ~\E i \in I : i[1] = n
           q(n) == [r EXCEPT !.todo = @ \ {n}, !.phys = @ \cup {i \in I : i[1] = n},
                             !.pc = IF r.todo = {n} THEN "ports" ELSE @]
<1>1. /\ r \in Call /\ r.pc = "type" /\ r.pc \in Reading
      /\ UNCHANGED <<ports, driver, calls, alone>>
  BY UnderWay DEF LookAtInterface, At, Reading
<1>2. PICK n \in r.todo : Continue(c, IF gone(n) THEN ReadNothing(r) ELSE q(n))
  BY InTermsOfPorts DEF LookAtInterface
<1>3. ASSUME c \in alone
      PROVE  /\ r.todo \subseteq CardsOf(U)
             /\ r.phys = {i \in I : i[1] \in CardsOf(U) \ r.todo}
             /\ \E p \in U : p \in ports /\ n \in p.nics
  <2>1. /\ r.todo \subseteq CardsOf(U)
        /\ r.phys = {i \in I : i[1] \in CardsOf(U) \ r.todo}
    BY <1>1, <1>3, UnderWay DEF Story
  <2>2. \E p \in U : p \in ports /\ n \in p.nics
    BY <2>1 DEF CardsOf, UplinksIn
  <2>3. QED
    BY <2>1, <2>2
<1>4. CASE gone(n)
  <2>1. Continue(c, ReadName(r, NoName))
    BY <1>1, <1>2, <1>4, ReadNothingIs
  <2>2. ASSUME c \in alone PROVE UnreadableIn(ports, driver, r.req.on)
    <3>1. PICK p \in U : p \in ports /\ n \in p.nics
      BY <1>3, <2>2
    <3>2. <<n, p.uuid>> \in I /\ <<n, p.uuid>>[1] = n
      BY <3>1, PortHasInterfaces
    <3>3. driver[n] = "none"
      BY <1>4, <3>2
    <3>4. QED
      BY <3>1, <3>3 DEF UnreadableIn
  <2>3. c \in alone => NameTrue(ReadName(r, NoName), ports, driver)
    BY <1>1, <2>2, ReadNothingIs DEF NameTrue
  <2>4. QED
    BY <1>1, <2>1, <2>3, ReadStep
<1>5. CASE ~gone(n)
  <2>1. Continue(c, q(n))
    BY <1>2, <1>5
  <2>2. n \in Nics /\ \A i \in I : i \in Nics \X (0..MaxCalls)
    BY <1>1, UnderWay DEF Call, PortsSound, Port, InterfacesIn, Interfaces
  <2>3. /\ q(n) \in Call /\ q(n).pc = IF r.todo = {n} THEN "ports" ELSE "type"
        /\ q(n).todo = r.todo \ {n} /\ q(n).phys = r.phys \cup {i \in I : i[1] = n}
        /\ q(n).ok = r.ok /\ q(n).req = r.req /\ q(n).before = r.before
    <3>1. {i \in I : i[1] = n} \in SUBSET (Nics \X (0..MaxCalls))
      BY <2>2
    <3> HIDE DEF I
    <3>2. QED
      BY <1>1, <3>1 DEF Call, Pc, Reading
  <2>4. ASSUME c \in alone
        PROVE  /\ U # {}
               /\ q(n).todo \subseteq CardsOf(U)
               /\ q(n).pc = "type" => q(n).todo # {}
               /\ q(n).phys = {i \in I : i[1] \in CardsOf(U) \ q(n).todo}
    <3>1. U # {} /\ n \in CardsOf(U)
      BY <1>3, <2>4 DEF CardsOf
    <3>2. q(n).phys = {i \in I : i[1] \in CardsOf(U) \ (r.todo \ {n})}
      BY <1>3, <2>3, <2>4, <3>1
    <3>3. q(n).pc = "type" => r.todo \ {n} # {}
      BY <1>2, <2>3
    <3>4. QED
      BY <1>3, <2>3, <2>4, <3>1, <3>2, <3>3
  <2>5. ASSUME c \in alone
        PROVE  q(n).phys = {i \in I : i[1] \in CardsOf(U)
                              \ (IF q(n).pc = "type" THEN q(n).todo ELSE {})}
    <3>1. CASE r.todo = {n}
      BY <2>3, <2>4, <2>5, <3>1
    <3>2. CASE r.todo # {n}
      BY <2>3, <2>4, <2>5, <3>2
    <3>3. QED
      BY <3>1, <3>2
  <2>6. q(n).pc \in {"type", "ports"}
    BY <2>3
  <2> HIDE DEF q
  <2>7. QED
    BY <1>1, <2>1, <2>3, <2>4, <2>5, <2>6, ReadOnStep DEF Reading
<1>6. QED
  BY <1>4, <1>5

LEMMA ListPortsStep ==
    ASSUME UpLinkInv, NEW c \in Callers, ListPorts(c)
    PROVE  UpLinkInv'
<1> DEFINE r == call[c]
           U == UplinksIn(ports, r.req.on)
           I == InterfacesIn(ports)
           lone == Cardinality(U) = 1 /\ r.req.on \notin Occupied
           card == CHOOSE n \in Nics : \E i \in r.phys : i[1] = n
           q == [r EXCEPT !.pc = "port", !.name = (CHOOSE p \in U : TRUE).name]
<1>1. /\ r \in Call /\ r.pc = "ports" /\ r.pc \in Reading
      /\ UNCHANGED <<ports, driver, calls, alone>>
  BY UnderWay DEF ListPorts, At, Reading
<1>2. Continue(c, IF Cardinality(r.phys) = 1
                  THEN IF r.phys \subseteq I THEN ReadName(r, card)
                       ELSE ReadNothing(r)
                  ELSE IF lone THEN q ELSE ReadNothing(r))
  BY InTermsOfPorts DEF ListPorts
<1>3. ASSUME c \in alone
      PROVE  U # {} /\ r.phys = {i \in I : i[1] \in CardsOf(U)}
  BY <1>1, <1>3, UnderWay DEF Story
<1>4. r.phys \subseteq Nics \X (0..MaxCalls) /\ IsFiniteSet(r.phys)
  <2>1. r.phys \in SUBSET (Nics \X (0..MaxCalls))
    BY <1>1 DEF Call
  <2>2. IsFiniteSet(Nics \X (0..MaxCalls))
    <3>1. IsFiniteSet(0..MaxCalls)
      BY UpLinkAssumption, FS_Interval
    <3>2. QED
      BY <3>1, UpLinkAssumption, FS_Product
  <2>3. QED
    BY <2>1, <2>2, FS_Subset
<1>5. CASE Cardinality(r.phys) = 1
  <2>1. PICK i : r.phys = {i}
    BY <1>4, <1>5, FS_Singleton
  <2>2. card = i[1] /\ i[1] \in Nics
    BY <1>4, <2>1
  <2>3. ASSUME c \in alone
        PROVE  r.phys \subseteq I /\ {card} = {p.name : p \in U}
    BY <1>3, <2>1, <2>2, <2>3, LoneInterface, UnderWay
  <2>4. CASE r.phys \subseteq I
    <3>1. Continue(c, ReadName(r, card))
      BY <1>2, <1>5, <2>4
    <3>2. card # NoName /\ card \in Nics \cup Bonds \cup {NoName}
      BY <2>2, UpLinkAssumption
    <3> HIDE DEF card
    <3>3. c \in alone => NameTrue(ReadName(r, card), ports, driver)
      BY <1>1, <2>3, <3>2, ReadNothingIs DEF NameTrue
    <3>4. QED
      BY <1>1, <3>1, <3>2, <3>3, ReadStep
  <2>5. CASE ~(r.phys \subseteq I)
    <3>1. c \notin alone
      BY <2>3, <2>5
    <3>2. Continue(c, ReadName(r, NoName))
      BY <1>1, <1>2, <1>5, <2>5, ReadNothingIs
    <3>3. QED
      BY <1>1, <3>1, <3>2, ReadStep
  <2>6. QED
    BY <2>4, <2>5
<1>6. CASE Cardinality(r.phys) # 1 /\ lone
  <2>1. IsFiniteSet(U)
    <3>1. U \in SUBSET ports /\ IsFiniteSet(ports)
      BY UnderWay DEF UplinksIn, PortsSound
    <3>2. QED
      BY <3>1, FS_Subset
  <2>2. PICK p : U = {p}
    BY <1>6, <2>1, FS_Singleton
  <2>3. p \in ports /\ p.name \in Nics \cup Bonds /\ (CHOOSE x \in U : TRUE) = p
    BY <2>2, UnderWay DEF UplinksIn, PortsSound, Port
  <2>4. Continue(c, q)
    BY <1>2, <1>6
  <2>5. /\ q \in Call /\ q.pc = "port" /\ q.name = p.name /\ q.ok = r.ok
        /\ q.req = r.req /\ q.before = r.before /\ q.phys = r.phys
    BY <1>1, <2>3 DEF Call, Pc, Reading
  <2> HIDE DEF q
  <2>6. c \in alone => q.phys = {i \in I : i[1] \in CardsOf(U) \ {}}
    BY <1>3, <2>5
  <2>7. QED
    BY <1>1, <1>3, <2>2, <2>3, <2>4, <2>5, <2>6, ReadOnStep DEF Reading
<1>7. CASE Cardinality(r.phys) # 1 /\ ~lone
  <2>1. c \in alone => UnreadableIn(ports, driver, r.req.on)
    BY <1>3, <1>7, SeveralInterfaces, UnderWay
  <2>2. Continue(c, ReadName(r, NoName))
    BY <1>1, <1>2, <1>7, ReadNothingIs
  <2>3. c \in alone => NameTrue(ReadName(r, NoName), ports, driver)
    BY <1>1, <2>1, ReadNothingIs DEF NameTrue
  <2>4. QED
    BY <1>1, <2>2, <2>3, ReadStep
<1>8. QED
  BY <1>5, <1>6, <1>7

LEMMA MatchPortStep ==
    ASSUME UpLinkInv, NEW c \in Callers, MatchPort(c)
    PROVE  UpLinkInv'
<1> DEFINE r == call[c]
           U == UplinksIn(ports, r.req.on)
<1>1. /\ r \in Call /\ r.pc = "port" /\ r.pc \in Reading
      /\ UNCHANGED <<ports, driver, calls, alone>>
  BY UnderWay DEF MatchPort, At, Reading
<1>2. ASSUME c \in alone
      PROVE  \E u \in ports : /\ U = {u} /\ r.name = u.name
                              /\ r.phys = Interfaces(u)
                              /\ \A p \in ports : p.name = r.name => p = u
  <2>1. PICK u \in ports : U = {u} /\ r.name = u.name
    BY <1>1, <1>2, UnderWay DEF Story
  <2>2. r.phys = Interfaces(u)
    <3>1. r.phys = {i \in InterfacesIn(ports) : i[1] \in CardsOf(U)}
      BY <1>1, <1>2, UnderWay DEF Story
    <3> HIDE DEF r
    <3>2. QED
      BY <2>1, <3>1, InterfacesOfLone, UnderWay, SMTT(30)
  <2>3. \A p \in ports : p.name = r.name => p = u
    BY <2>1, UnderWay DEF PortsSound
  <2>4. QED
    BY <2>1, <2>2, <2>3
<1>3. ASSUME \A p \in ports : p.name # r.name, Continue(c, ReadNothing(r))
      PROVE  UpLinkInv'
  <2>1. c \notin alone
    BY <1>2, <1>3
  <2>2. Continue(c, ReadName(r, NoName))
    BY <1>1, <1>3, ReadNothingIs
  <2>3. QED
    BY <1>1, <2>1, <2>2, ReadStep
<1>4. ASSUME NEW p \in ports, NEW first \in Interfaces(p), p.name = r.name,
             Continue(c, IF first \in r.phys THEN ReadName(r, p.name)
                         ELSE ReadNothing(r))
      PROVE  UpLinkInv'
  <2>1. p.name \in Nics \cup Bonds
    BY UnderWay DEF PortsSound, Port
  <2>2. c \in alone => first \in r.phys /\ {p.name} = {u.name : u \in U}
    BY <1>2, <1>4
  <2>3. CASE first \in r.phys
    <3>1. p.name # NoName
      BY <2>1, UpLinkAssumption
    <3>2. c \in alone => NameTrue(ReadName(r, p.name), ports, driver)
      BY <1>1, <2>1, <2>2, <3>1, ReadNothingIs DEF NameTrue
    <3>3. QED
      BY <1>1, <1>4, <2>1, <2>3, <3>2, ReadStep
  <2>4. CASE first \notin r.phys
    <3>1. Continue(c, ReadName(r, NoName)) /\ c \notin alone
      BY <1>1, <1>4, <2>2, <2>4, ReadNothingIs
    <3>2. QED
      BY <1>1, <3>1, ReadStep
  <2>5. QED
    BY <2>3, <2>4
<1>5. QED
  BY <1>3, <1>4 DEF MatchPort

-----------------------------------------------------------------------------
(* The handlers of uplinks                                                 *)

\* The ports are as before, or without the uplink; one that is still there
\* could not be read or removed.
Cleared(r, P, D) ==
    /\ P = r.before \/ P = Without(r)
    /\ UplinksIn(P, r.req.on) = {} \/ UnreadableIn(P, D, r.req.on) \/ r.failed

LEMMA SetPortSound ==
    ASSUME UpLinkInv, NEW r \in Call, r.ok = "none", NEW P, NEW D,
           r.req.op \in {"AddUpLink", "ModifyUpLink"}, r.req.nics # {}
    PROVE  /\ SetPort(r) \in Call /\ CallSound(SetPort(r), P)
           /\ Cleared(r, P, D) /\ (r.req.op = "AddUpLink" => P = r.before)
              => Story(SetPort(r), P, D)
<1> DEFINE q == SetPort(r)
<1>1. /\ q \in Call /\ q.pc = "free" /\ q.ok = r.ok /\ q.req = r.req
      /\ q.before = r.before /\ q.failed = r.failed
  BY DEF SetPort, Call, Request, Pc
<1> HIDE DEF q
<1>2. CallSound(q, P)
  BY <1>1 DEF CallSound, CardPc, PortPc, Reading, UpLinkOps
<1>3. ASSUME Cleared(r, P, D), r.req.op = "AddUpLink" => P = r.before
      PROVE  Story(q, P, D)
  BY <1>1, <1>3 DEF Story, Cleared, Without, Reading, CardPc
<1>4. QED
  BY <1>1, <1>2, <1>3 DEF q

\* The end of remove_port, be there a port removed or none found.
LEMMA RemovedSound ==
    ASSUME UpLinkInv, NEW c \in Callers, ~At(c, "idle"),
           NEW r \in Call, r.id = call[c].id, r.ok = "none",
           r.req.op \in {"DelUpLink", "ModifyUpLink"}, NEW P, NEW D,
           c \in alone => Cleared(r, P, D)
    PROVE  /\ Removed(r) \in Call /\ CallSound(Removed(r), P)
           /\ c \in alone => Story(Removed(r), P, D)
<1>1. CASE r.req.op = "DelUpLink"
  <2>1. Removed(r) = Reply(r, "SYS_OK")
    BY <1>1 DEF Removed
  <2>5. "SYS_OK" \in Answers
    BY DEF Answers
  <2>2. ASSUME c \in alone PROVE AnswerTrue(r, "SYS_OK", P, D)
    <3>1. UplinksIn(P, r.req.on) = {} /\ P = r.before => P = Without(r)
      BY DEF UplinksIn, Without
    <3>2. QED
      BY <1>1, <2>2, <3>1 DEF AnswerTrue, Cleared
  <2>3. QED
    BY <2>1, <2>5, <2>2, ReplyIs, ReplySound
<1>2. CASE r.req.op = "ModifyUpLink" /\ r.req.nics = {}
  <2>1. Removed(r) = Reply(r, "SYS_FAIL") /\ "SYS_FAIL" \in Answers
    BY <1>2 DEF Removed, Answers
  <2>2. ASSUME c \in alone PROVE AnswerTrue(r, "SYS_FAIL", P, D)
    BY <1>2, <2>2 DEF AnswerTrue, Cleared
  <2>3. QED
    BY <2>1, <2>2, ReplyIs, ReplySound
<1>3. CASE r.req.op = "ModifyUpLink" /\ r.req.nics # {}
  <2>1. Removed(r) = SetPort(r)
    BY <1>3 DEF Removed
  <2>2. QED
    BY <1>3, <2>1, SetPortSound
<1>4. QED
  BY <1>1, <1>2, <1>3

LEMMA DecideStep ==
    ASSUME UpLinkInv, NEW c \in Callers, Decide(c)
    PROVE  UpLinkInv'
<1> DEFINE r == call[c]
           none == r.name = NoName
<1>1. /\ r \in Call /\ r.pc = "decide" /\ ~At(c, "idle") /\ r.ok = "none"
      /\ r.req.op \in UpLinkOps
      /\ UNCHANGED <<ports, driver, calls, alone>>
      /\ driver' \in [Nics -> Drivers] /\ {"SYS_OK", "SYS_FAIL"} \subseteq Answers
  BY UnderWay DEF Decide, At, CallSound, PortPc, Answers
<1>2. ASSUME c \in alone PROVE ports = r.before /\ NameTrue(r, ports, driver)
  BY <1>1, <1>2, UnderWay DEF Story
<1>3. ASSUME NEW answer \in {"SYS_OK", "SYS_FAIL"}, Continue(c, Reply(r, answer)),
             r.req.op # "DelUpLink", answer = "SYS_OK" => r.req.nics = {}
      PROVE  UpLinkInv'
  <2>1. c \in alone => AnswerTrue(r, answer, ports, driver')
    BY <1>2, <1>3 DEF AnswerTrue
  <2>2. QED
    BY <1>1, <1>3, <2>1, ReplyStep
<1>4. CASE r.req.op = "AddUpLink" /\ ~none
  <2>1. Continue(c, Reply(r, "SYS_FAIL"))
    BY <1>4 DEF Decide
  <2>2. QED
    BY <1>3, <1>4, <2>1
<1>5. CASE r.req.op = "AddUpLink" /\ none /\ r.req.nics = {}
  <2>1. Continue(c, Reply(r, "SYS_OK"))
    BY <1>5 DEF Decide
  <2>2. QED
    BY <1>3, <1>5, <2>1
<1>6. CASE r.req.op = "AddUpLink" /\ none /\ r.req.nics # {}
  <2>1. Continue(c, SetPort(r))
    BY <1>6 DEF Decide
  <2>2. c \in alone => Cleared(r, ports, driver)
    BY <1>2, <1>6 DEF Cleared, NameTrue
  <2>3. /\ SetPort(r) \in Call /\ CallSound(SetPort(r), ports)
        /\ c \in alone => Story(SetPort(r), ports, driver)
    BY <1>1, <1>2, <1>6, <2>2, SetPortSound
  <2>4. QED
    BY <1>1, <2>1, <2>3, CallStep
<1>7. CASE r.req.op = "ModifyUpLink" /\ none
  BY <1>3, <1>7 DEF Decide
<1>8. CASE r.req.op # "AddUpLink" /\ ~(r.req.op = "ModifyUpLink" /\ none)
  <2> DEFINE q == [r EXCEPT !.pc = "exist"]
  <2>1. Continue(c, q)
    BY <1>8 DEF Decide
  <2>2. /\ q \in Call /\ q.pc = "exist" /\ q.ok = "none" /\ q.req = r.req
        /\ q.before = r.before /\ q.name = r.name /\ q.failed = r.failed
    BY <1>1 DEF Call, Pc
  <2> HIDE DEF q
  <2>3. CallSound(q, ports)
    BY <1>1, <1>8, <2>2 DEF CallSound, CardPc, PortPc, Reading
  <2>4. ASSUME c \in alone PROVE Story(q, ports, driver)
    <3>1. NameTrue(q, ports, driver)
      BY <1>2, <2>2, <2>4 DEF NameTrue
    <3>2. QED
      BY <1>2, <1>8, <2>2, <2>4, <3>1 DEF Story, Reading, CardPc
  <2>5. QED
    BY <1>1, <2>1, <2>2, <2>3, <2>4, CallStep
<1>9. QED
  BY <1>4, <1>5, <1>6, <1>7, <1>8

LEMMA CheckPortStep ==
    ASSUME UpLinkInv, NEW c \in Callers, CheckPort(c)
    PROVE  UpLinkInv'
<1> DEFINE r == call[c]
           U == UplinksIn(ports, r.req.on)
<1>1. /\ r \in Call /\ r.pc = "exist" /\ ~At(c, "idle") /\ r.ok = "none"
      /\ r.req.op \in {"DelUpLink", "ModifyUpLink"}
      /\ UNCHANGED <<ports, driver, calls, alone>> /\ driver' \in [Nics -> Drivers]
  BY UnderWay DEF CheckPort, At, CallSound, PortPc, UpLinkOps
<1>2. ASSUME c \in alone PROVE ports = r.before /\ NameTrue(r, ports, driver)
  BY <1>1, <1>2, UnderWay DEF Story
<1>3. CASE \E p \in U : p.name = r.name
  <2> DEFINE q == [r EXCEPT !.pc = "remove"]
  <2>1. Continue(c, q)
    BY <1>3, InTermsOfPorts DEF CheckPort, Goto
  <2>2. /\ q \in Call /\ q.pc = "remove" /\ q.ok = "none" /\ q.req = r.req
        /\ q.before = r.before /\ q.name = r.name /\ q.failed = r.failed
    BY <1>1 DEF Call, Pc
  <2> HIDE DEF q
  <2>3. PICK p \in ports : p.name = r.name /\ p.on = r.req.on
    BY <1>3 DEF UplinksIn
  <2>4. CallSound(q, ports)
    BY <1>1, <2>2, <2>3 DEF CallSound, CardPc, PortPc, Reading, UpLinkOps
  <2>5. r.name # NoName
    BY <2>3, UnderWay, UpLinkAssumption DEF PortsSound, Port
  <2>6. ASSUME c \in alone PROVE Story(q, ports, driver)
    <3>1. NameTrue(q, ports, driver)
      BY <1>2, <2>2, <2>6 DEF NameTrue
    <3>2. QED
      BY <1>2, <2>2, <2>5, <2>6, <3>1 DEF Story, Reading, CardPc
  <2>7. QED
    BY <1>1, <2>1, <2>2, <2>4, <2>6, CallStep
<1>4. CASE ~\E p \in U : p.name = r.name
  <2>1. Continue(c, Removed(r))
    BY <1>4, InTermsOfPorts DEF CheckPort
  <2>2. c \in alone => Cleared(r, ports, driver)
    BY <1>2, <1>4 DEF Cleared, NameTrue
  <2>3. /\ Removed(r) \in Call /\ CallSound(Removed(r), ports)
        /\ c \in alone => Story(Removed(r), ports, driver)
    BY <1>1, <2>2, RemovedSound
  <2>4. QED
    BY <1>1, <2>1, <2>3, CallStep
<1>5. QED
  BY <1>3, <1>4

LEMMA CheckFreeStep ==
    ASSUME UpLinkInv, NEW c \in Callers, CheckFree(c)
    PROVE  UpLinkInv'
<1> DEFINE r == call[c]
           q(n) == [r EXCEPT !.todo = @ \ {n}, !.pc = IF r.todo = {n} THEN "add" ELSE @]
<1>1. /\ r \in Call /\ r.pc = "free" /\ ~At(c, "idle") /\ r.ok = "none"
      /\ UNCHANGED <<ports, driver, calls, alone>> /\ driver' \in [Nics -> Drivers]
      /\ "SYS_FAIL" \in Answers
  BY UnderWay DEF CheckFree, At, CallSound, Answers
<1>2. PICK n \in r.todo :
         Continue(c, Reply(r, "SYS_FAIL")) \/ Continue(c, q(n))
  BY DEF CheckFree
<1>3. CASE Continue(c, Reply(r, "SYS_FAIL"))
  <2>1. c \in alone => AnswerTrue(r, "SYS_FAIL", ports, driver')
    BY <1>1, UnderWay DEF Story, AnswerTrue
  <2>2. QED
    BY <1>1, <1>3, <2>1, ReplyStep
<1>4. CASE Continue(c, q(n))
  <2>1. /\ q(n) \in Call /\ q(n).pc \in {"free", "add"} /\ q(n).ok = r.ok
        /\ q(n).req = r.req /\ q(n).before = r.before /\ q(n).failed = r.failed
    BY <1>1 DEF Call, Pc
  <2> HIDE DEF q
  <2>2. CallSound(q(n), ports)
    BY <1>1, <2>1, UnderWay DEF CallSound, CardPc, PortPc, Reading
  <2>3. c \in alone => Story(q(n), ports, driver)
    BY <1>1, <2>1, UnderWay DEF Story, Reading, CardPc, Without
  <2>4. QED
    BY <1>1, <1>4, <2>1, <2>2, <2>3, CallStep
<1>5. QED
  BY <1>2, <1>3, <1>4

\* A step that changes the ports.
LEMMA PortsStep ==
    ASSUME UpLinkInv, NEW c \in Callers, ~At(c, "idle"),
           call' \in [Callers -> Call], PortsSound(ports'),
           UNCHANGED <<driver, calls, alone>>,
           \A d \in Callers \ {c} : /\ call'[d].pc = call[d].pc
                                    /\ CallSound(call'[d], ports'),
           CallSound(call'[c], ports'),
           c \in alone => Story(call'[c], ports', driver)
    PROVE  UpLinkInv'
<1>1. TypeOK'
  BY DEF UpLinkInv, TypeOK, PortsSound
<1>2. AloneInv'
  <2> SUFFICES ASSUME NEW d \in alone
               PROVE  /\ \A e \in Callers \ {d} : call'[e].pc = "idle"
                      /\ Story(call'[d], ports', driver')
    BY DEF AloneInv, At
  <2>1. d = c
    BY AloneIsIt
  <2>2. \A e \in Callers \ {c} : call[e].pc = "idle"
    BY <2>1 DEF UpLinkInv, AloneInv, At
  <2>3. QED
    BY <2>1, <2>2
<1>3. \A d \in Callers : CallSound(call'[d], ports')
  OBVIOUS
<1>4. QED
  BY <1>1, <1>2, <1>3 DEF UpLinkInv

LEMMA RemovePortStep ==
    ASSUME UpLinkInv, NEW c \in Callers, RemovePort(c)
    PROVE  UpLinkInv'
<1> DEFINE r == call[c]
           gone == {p \in ports : p.name = r.name}
           q == IF gone = {} THEN Reply(r, "SYS_FAIL") ELSE Removed(r)
           moved(d) == \/ call[d].moved
                       \/ At(d, "remove") /\ \E p \in gone : p.name = call[d].name
<1>1. /\ r \in Call /\ r.pc = "remove" /\ ~At(c, "idle") /\ r.ok = "none"
      /\ r.req.op \in {"DelUpLink", "ModifyUpLink"}
      /\ UNCHANGED <<driver, calls, alone>> /\ "SYS_FAIL" \in Answers
  BY UnderWay DEF RemovePort, At, CallSound, PortPc, UpLinkOps, Answers
<1>2. ports' = ports \ gone
  BY DEF RemovePort
<1>3. call' = [d \in Callers |-> IF d = c THEN q ELSE [call[d] EXCEPT !.moved = moved(d)]]
  BY DEF RemovePort
<1>4. PortsSound(ports')
  <2>1. ports' \in SUBSET ports
    BY <1>2
  <2>2. IsFiniteSet(ports')
    BY <2>1, FS_Subset, UnderWay DEF PortsSound
  <2>3. QED
    BY <2>1, <2>2, UnderWay DEF PortsSound
<1>5. ASSUME c \in alone
      PROVE  ports = r.before /\ gone = UplinksIn(ports, r.req.on) /\ gone # {}
  <2>1. ports = r.before /\ {r.name} = {p.name : p \in UplinksIn(ports, r.req.on)}
    BY <1>1, <1>5, UnderWay DEF Story, NameTrue
  <2>2. PICK u \in UplinksIn(ports, r.req.on) : u.name = r.name
    BY <2>1
  <2>3. u \in ports /\ \A p \in ports : p.name = u.name => p = u
    BY UnderWay DEF UplinksIn, PortsSound
  <2>4. gone = {u}
    BY <2>2, <2>3
  <2>5. \A p \in UplinksIn(ports, r.req.on) : p \in gone
    BY <2>1 DEF UplinksIn
  <2>6. QED
    BY <2>1, <2>4, <2>5
<1>6. /\ q \in Call /\ CallSound(q, ports')
      /\ c \in alone => Story(q, ports', driver)
  <2>1. CASE gone = {}
    <3>1. c \notin alone
      BY <1>5, <2>1
    <3>2. QED
      BY <1>1, <2>1, <3>1, ReplyIs, ReplySound
  <2>2. CASE gone # {}
    <3>1. ASSUME c \in alone PROVE Cleared(r, ports', driver)
      <4>1. ports' = Without(r)
        BY <1>2, <1>5, <3>1 DEF Without, UplinksIn
      <4>2. UplinksIn(Without(r), r.req.on) = {}
        BY DEF Without, UplinksIn
      <4>3. QED
        BY <4>1, <4>2 DEF Cleared
    <3>2. QED
      BY <1>1, <2>2, <3>1, RemovedSound
  <2>3. QED
    BY <2>1, <2>2
<1>7. ASSUME NEW d \in Callers \ {c}
      PROVE  /\ call'[d] \in Call /\ call'[d].pc = call[d].pc
             /\ CallSound(call'[d], ports')
  <2>1. call'[d] = [call[d] EXCEPT !.moved = moved(d)] /\ call[d] \in Call
    BY <1>3, UnderWay
  <2>2. moved(d) \in BOOLEAN
    BY <2>1 DEF Call
  <2>3. /\ call'[d] \in Call /\ call'[d].pc = call[d].pc /\ call'[d].ok = call[d].ok
        /\ call'[d].req = call[d].req /\ call'[d].name = call[d].name
        /\ call'[d].moved = moved(d)
    BY <2>1, <2>2 DEF Call
  <2>4. call[d].pc = "remove" =>
          moved(d) \/ \E p \in ports' : p.name = call[d].name /\ p.on = call[d].req.on
    BY <1>2, UnderWay DEF CallSound, At
  <2> HIDE DEF moved
  <2>5. QED
    BY <2>3, <2>4, UnderWay DEF CallSound
<1>8. call' \in [Callers -> Call] /\ call'[c] = q
  <2> HIDE DEF q, moved
  <2>1. call'[c] = q /\ call' = [d \in Callers |-> call'[d]]
    BY <1>3
  <2>2. \A d \in Callers : call'[d] \in Call
    BY <1>6, <1>7, <2>1
  <2>3. QED
    BY <2>1, <2>2
<1>9. QED
  <2> HIDE DEF q
  <2>1. QED
    BY <1>1, <1>4, <1>6, <1>7, <1>8, PortsStep

LEMMA AddPortStep ==
    ASSUME UpLinkInv, NEW c \in Callers, AddPort(c)
    PROVE  UpLinkInv'
<1> DEFINE r == call[c]
           bond == Cardinality(r.req.nics) > 1
           new == [name |-> IF bond THEN r.req.bond ELSE CHOOSE n \in r.req.nics : TRUE,
                   on |-> r.req.on, nics |-> r.req.nics, uuid |-> r.id]
           taken == ~\A p \in ports : p.name # new.name /\ p.nics \cap new.nics = {}
           answer == IF taken THEN "SYS_FAIL" ELSE "SYS_OK"
<1>1. /\ r \in Call /\ r.pc = "add" /\ ~At(c, "idle")
      /\ r.req.nics # {} /\ r.req.nics \in SUBSET Nics /\ r.req.op # "DelUpLink"
      /\ UNCHANGED <<driver, calls, alone>> /\ driver \in [Nics -> Drivers]
      /\ answer \in Answers
  BY UnderWay DEF AddPort, At, CallSound, Call, Request, Answers
<1>2. /\ ports' = IF taken THEN ports ELSE ports \cup {new}
      /\ Continue(c, Reply(r, answer))
  BY DEF AddPort, Answer
<1>3. ASSUME c \in alone
      PROVE  ports = r.before \/ (r.req.op = "ModifyUpLink" /\ ports = Without(r))
  BY <1>1, <1>3, UnderWay DEF Story
<1>4. CASE taken
  <2>1. answer = "SYS_FAIL" /\ UNCHANGED ports
    BY <1>2, <1>4
  <2>2. c \in alone => AnswerTrue(r, answer, ports, driver)
    BY <1>3, <2>1 DEF AnswerTrue
  <2> HIDE DEF answer
  <2>3. QED
    BY <1>1, <1>2, <2>1, <2>2, ReplyStep
<1>5. CASE ~taken
  <2>1. answer = "SYS_OK" /\ ports' = ports \cup {new}
    BY <1>2, <1>5
  <2>2. \A p \in ports : p.name # new.name /\ p.nics \cap r.req.nics = {}
    BY <1>5
  <2>3. /\ new \in Port /\ new.nics = r.req.nics /\ new.on = r.req.on
        /\ \A n : r.req.nics = {n} => new.name = n
    <3>1. ASSUME NEW n, r.req.nics = {n} PROVE ~bond /\ (CHOOSE m \in r.req.nics : TRUE) = n
      <4>1. Cardinality({n}) = 1
        BY FS_Singleton
      <4>2. (CHOOSE m \in {n} : TRUE) = n
        OBVIOUS
      <4>3. QED
        BY <3>1, <4>1, <4>2
    <3>2. (CHOOSE n \in r.req.nics : TRUE) \in Nics /\ r.req.bond \in Bonds
          /\ r.req.on \in Switches /\ r.id \in 0..MaxCalls
      BY <1>1 DEF Call, Request
    <3> HIDE DEF r
    <3>3. QED
      BY <1>1, <3>1, <3>2 DEF Port
  <2> HIDE DEF new, answer, taken
  <2>4. PortsSound(ports')
    <3>1. IsFiniteSet(ports')
      BY <2>1, UnderWay, FS_AddElement DEF PortsSound
    <3>2. \A p \in ports : ~(p.name = new.name \/ p.nics \cap new.nics # {})
      BY <2>2, <2>3
    <3>3. QED
      BY <1>1, <2>1, <2>3, <3>1, <3>2, UnderWay DEF PortsSound
  <2>5. AnswerTrue(r, answer, ports', driver)
    <3>1. {p \in ports' : p.nics \cap r.req.nics # {}} = {new}
      BY <1>1, <2>1, <2>2, <2>3
    <3>2. {p \in UplinksIn(ports', r.req.on) : p.nics = r.req.nics} = {new}
      BY <1>1, <2>1, <2>2, <2>3 DEF UplinksIn
    <3>3. QED
      BY <1>1, <2>1, <3>1, <3>2 DEF AnswerTrue
  <2>6. /\ Reply(r, answer) \in Call /\ CallSound(Reply(r, answer), ports')
        /\ c \in alone => Story(Reply(r, answer), ports', driver)
    BY <1>1, <2>5, ReplyIs, ReplySound
  <2>7. /\ call' \in [Callers -> Call] /\ call'[c] = Reply(r, answer)
        /\ \A d \in Callers \ {c} : call'[d] = call[d]
    BY <1>2, <2>6, UnderWay DEF Continue
  <2>8. \A d \in Callers \ {c} : CallSound(call'[d], ports')
    BY <2>1, <2>7, UnderWay DEF CallSound
  <2>9. QED
    BY <1>1, <2>4, <2>6, <2>7, <2>8, PortsStep
<1>6. QED
  BY <1>4, <1>5

-----------------------------------------------------------------------------
(* ModifyNic, and commands that fail                                       *)

\* What a call on a card is about.
LEMMA CardCall ==
    ASSUME UpLinkInv, NEW c \in Callers, call[c].pc \in CardPc
    PROVE  /\ call[c].req.op = "ModifyNic" /\ call[c].ok = "none" /\ ~At(c, "idle")
           /\ \E n \in Nics : call[c].req.nics = {n}
           /\ c \in alone => ports = call[c].before
<1>1. call[c].pc # "idle"
  BY DEF CardPc
<1>2. QED
  BY <1>1, UnderWay DEF CallSound, Story, CardPc, At

\* The end of the driver's part of it (Mtu).
LEMMA MtuStep ==
    ASSUME UpLinkInv, NEW c \in Callers, call[c].pc \in CardPc,
           NEW r \in Call, r.id = call[c].id, r.ok = call[c].ok, r.req = call[c].req,
           r.before = call[c].before, NEW answer \in {"SYS_OK", "SYS_FAIL"},
           Continue(c, Mtu(r, answer)), UNCHANGED <<ports, calls, alone>>,
           driver' \in [Nics -> Drivers],
           c \in alone => \A n \in r.req.nics : driver'[n] = "new" \/ r.failed
    PROVE  UpLinkInv'
<1>1. /\ r.req.op = "ModifyNic" /\ r.ok = "none" /\ ~At(c, "idle")
      /\ \E n \in Nics : r.req.nics = {n}
      /\ c \in alone => ports = r.before
  BY CardCall
<1>2. CASE r.req.mtu
  <2> DEFINE q == [r EXCEPT !.pc = "mtu"]
  <2>1. Continue(c, q)
    BY <1>2 DEF Mtu
  <2>2. /\ q \in Call /\ q.pc = "mtu" /\ q.ok = r.ok /\ q.req = r.req
        /\ q.before = r.before /\ q.failed = r.failed
    BY DEF Call, Pc
  <2> HIDE DEF q
  <2>3. CallSound(q, ports)
    BY <1>1, <2>2 DEF CallSound, CardPc, PortPc, Reading
  <2>4. c \in alone => Story(q, ports, driver')
    BY <1>1, <2>2 DEF Story, Reading, CardPc
  <2>5. QED
    BY <1>1, <2>1, <2>2, <2>3, <2>4, CallStep
<1>3. CASE ~r.req.mtu
  <2>1. Continue(c, Reply(r, answer)) /\ answer \in Answers
    BY <1>3 DEF Mtu, Answers
  <2>2. c \in alone => AnswerTrue(r, answer, ports, driver')
    BY <1>1 DEF AnswerTrue
  <2>3. QED
    BY <1>1, <2>1, <2>2, ReplyStep
<1>4. QED
  BY <1>2, <1>3

\* An answer about a card says nothing of the ports, which are as before.
LEMMA CardReplyStep ==
    ASSUME UpLinkInv, NEW c \in Callers, call[c].pc \in CardPc,
           NEW answer \in Answers, Answer(c, answer),
           UNCHANGED <<ports, driver, calls, alone>>
    PROVE  UpLinkInv'
<1>1. c \in alone => AnswerTrue(call[c], answer, ports, driver')
  BY CardCall DEF AnswerTrue
<1>2. call[c] \in Call /\ driver' \in [Nics -> Drivers] /\ Continue(c, Reply(call[c], answer))
  BY UnderWay DEF Answer
<1>3. ~At(c, "idle")
  BY CardCall
<1>4. QED
  BY <1>1, <1>2, <1>3, ReplyStep

LEMMA DetachDriverStep ==
    ASSUME UpLinkInv, NEW c \in Callers, DetachDriver(c)
    PROVE  UpLinkInv'
<1> DEFINE r == call[c]
           n == CHOOSE m \in r.req.nics : TRUE
           q == [r EXCEPT !.pc = "attach"]
<1>1. /\ r \in Call /\ r.pc = "detach" /\ r.pc \in CardPc
      /\ UNCHANGED <<ports, calls, alone>>
  BY UnderWay DEF DetachDriver, At, CardPc
<1>2. /\ r.req.op = "ModifyNic" /\ r.ok = "none" /\ ~At(c, "idle")
      /\ r.req.nics = {n} /\ n \in Nics
      /\ c \in alone => ports = r.before
  BY <1>1, CardCall
<1>3. CASE driver[n] = "none"
  <2>1. PICK answer \in {"SYS_FAIL", "raised"} : Answer(c, answer)
    BY <1>3 DEF DetachDriver
  <2>2. UNCHANGED driver
    BY <1>3 DEF DetachDriver
  <2>3. answer \in Answers
    BY DEF Answers
  <2>4. QED
    BY <1>1, <2>1, <2>2, <2>3, CardReplyStep
<1>4. CASE driver[n] # "none"
  <2>1. driver' = [driver EXCEPT ![n] = "none"] /\ Continue(c, q)
    BY <1>4 DEF DetachDriver, Goto
  <2>2. driver' \in [Nics -> Drivers] /\ driver'[n] = "none"
    BY <1>2, <2>1, UnderWay DEF Drivers
  <2>3. /\ q \in Call /\ q.pc = "attach" /\ q.ok = r.ok /\ q.req = r.req
        /\ q.before = r.before
    BY <1>1 DEF Call, Pc
  <2> HIDE DEF q, n
  <2>4. CallSound(q, ports)
    BY <1>2, <2>3 DEF CallSound, CardPc, PortPc, Reading
  <2>5. c \in alone => Story(q, ports, driver')
    BY <1>2, <2>2, <2>3 DEF Story, Reading, CardPc
  <2>6. QED
    BY <1>1, <1>2, <2>1, <2>2, <2>3, <2>4, <2>5, CallStep
<1>5. QED
  BY <1>3, <1>4

LEMMA AttachDriverStep ==
    ASSUME UpLinkInv, NEW c \in Callers, AttachDriver(c)
    PROVE  UpLinkInv'
<1> DEFINE r == call[c]
           n == CHOOSE m \in r.req.nics : TRUE
           answer == IF driver[n] = "none" THEN "SYS_OK" ELSE "SYS_FAIL"
<1>1. /\ r \in Call /\ r.pc = "attach" /\ r.pc \in CardPc
      /\ UNCHANGED <<ports, calls, alone>>
  BY UnderWay DEF AttachDriver, At, CardPc
<1>2. r.req.nics = {n} /\ n \in Nics
  BY <1>1, CardCall
<1>3. /\ driver' = IF driver[n] = "none" THEN [driver EXCEPT ![n] = "new"] ELSE driver
      /\ Continue(c, Mtu(r, answer)) /\ answer \in {"SYS_OK", "SYS_FAIL"}
  BY DEF AttachDriver
<1>4. driver' \in [Nics -> Drivers]
  BY <1>3, UnderWay DEF Drivers
<1>5. ASSUME c \in alone PROVE \A m \in r.req.nics : driver'[m] = "new"
  <2>1. driver[n] = "none"
    BY <1>1, <1>2, <1>5, UnderWay DEF Story
  <2> HIDE DEF n
  <2>2. QED
    BY <1>2, <1>3, <2>1, UnderWay
<1> HIDE DEF answer, n
<1>6. QED
  BY <1>1, <1>3, <1>4, <1>5, MtuStep

LEMMA SetMtuStep ==
    ASSUME UpLinkInv, NEW c \in Callers, SetMtu(c)
    PROVE  UpLinkInv'
<1>1. call[c].pc \in CardPc /\ UNCHANGED <<ports, driver, calls, alone>>
  BY DEF SetMtu, At, CardPc
<1>2. PICK answer \in {"SYS_OK", "SYS_FAIL"} : Answer(c, answer)
  BY DEF SetMtu
<1>3. answer \in Answers
  BY DEF Answers
<1>4. QED
  BY <1>1, <1>2, <1>3, CardReplyStep

LEMMA CommandFailsStep ==
    ASSUME UpLinkInv, NEW c \in Callers, CommandFails(c)
    PROVE  UpLinkInv'
<1> DEFINE r == [call[c] EXCEPT !.failed = TRUE]
           free(n) == [r EXCEPT !.todo = @ \ {n}, !.pc = IF r.todo = {n} THEN "add" ELSE @]
<1>1. /\ r \in Call /\ r.pc = call[c].pc /\ r.id = call[c].id /\ r.ok = call[c].ok
      /\ r.req = call[c].req /\ r.before = call[c].before /\ r.failed = TRUE
      /\ r.name = call[c].name
  BY UnderWay DEF Call
<1>2. UNCHANGED <<ports, driver, calls, alone>> /\ driver' \in [Nics -> Drivers]
  BY UnderWay DEF CommandFails
<1>3. /\ {"SYS_OK", "SYS_FAIL"} \subseteq Answers /\ {"detach", "attach"} \subseteq CardPc
      /\ "idle" \notin Reading
  BY DEF Answers, CardPc, Reading
<1>4. \/ r.pc \in Reading /\ Continue(c, ReadNothing(r))
      \/ r.pc = "exist" /\ Continue(c, Removed(r))
      \/ r.pc = "free" /\ \E n \in r.todo : Continue(c, free(n))
      \/ r.pc \in {"remove", "add", "mtu"} /\ Continue(c, Reply(r, "SYS_FAIL"))
      \/ r.pc \in {"detach", "attach"} /\ Continue(c, Mtu(r, "SYS_FAIL"))
  BY DEF CommandFails
<1> HIDE DEF r
<1>5. CASE r.pc \in Reading /\ Continue(c, ReadNothing(r))
  <2>1. Continue(c, ReadName(r, NoName))
    BY <1>1, <1>5, ReadNothingIs
  <2>2. NameTrue(ReadName(r, NoName), ports, driver)
    BY <1>1, ReadNothingIs DEF NameTrue
  <2>3. QED
    BY <1>1, <1>2, <1>5, <2>1, <2>2, ReadStep
<1>6. CASE r.pc = "exist" /\ Continue(c, Removed(r))
  <2>1. ~At(c, "idle") /\ r.ok = "none" /\ r.req.op \in {"DelUpLink", "ModifyUpLink"}
    BY <1>1, <1>6, UnderWay DEF At, CallSound, PortPc, UpLinkOps
  <2>2. c \in alone => Cleared(r, ports, driver)
    BY <1>1, <1>6, UnderWay DEF Cleared, Story
  <2>3. /\ Removed(r) \in Call /\ CallSound(Removed(r), ports)
        /\ c \in alone => Story(Removed(r), ports, driver)
    BY <1>1, <2>1, <2>2, RemovedSound
  <2>4. QED
    BY <1>2, <1>6, <2>1, <2>3, CallStep
<1>7. ASSUME NEW n \in r.todo, r.pc = "free", Continue(c, free(n))
      PROVE  UpLinkInv'
  <2>1. /\ free(n) \in Call /\ free(n).pc \in {"free", "add"} /\ free(n).ok = r.ok
        /\ free(n).req = r.req /\ free(n).before = r.before /\ free(n).failed = TRUE
    BY <1>1, <1>7 DEF Call, Pc
  <2> HIDE DEF free
  <2>2. ~At(c, "idle") /\ CallSound(free(n), ports)
    <3>1. call[c].pc = "free" /\ CallSound(call[c], ports)
      BY <1>1, <1>7, UnderWay
    <3>2. /\ call[c].ok = "none" /\ call[c].req.op \in UpLinkOps
          /\ call[c].req.op # "DelUpLink" /\ call[c].req.nics # {}
      BY <3>1 DEF CallSound, PortPc
    <3>3. /\ free(n).pc \notin CardPc /\ free(n).pc \notin {"exist", "remove"}
          /\ free(n).pc # "idle"
      BY <2>1 DEF CardPc
    <3>4. CallSound(free(n), ports)
      BY <1>1, <2>1, <3>2, <3>3 DEF CallSound
    <3>5. QED
      BY <3>1, <3>4 DEF At
  <2>3. ASSUME c \in alone PROVE Story(free(n), ports, driver)
    <3>1. ports = r.before \/ (r.req.op = "ModifyUpLink" /\ ports = Without(r))
      <4>1. Story(call[c], ports, driver)
        BY <2>3, UnderWay
      <4>2. Without(call[c]) = Without(r)
        BY <1>1 DEF Without
      <4>3. QED
        BY <1>1, <1>7, <4>1, <4>2 DEF Story
    <3>2. Without(free(n)) = Without(r)
      BY <2>1 DEF Without
    <3>3. QED
      BY <1>7, <2>1, <3>1, <3>2 DEF Story, Reading, CardPc
  <2>4. QED
    BY <1>2, <1>7, <2>1, <2>2, <2>3, CallStep
<1>8. CASE r.pc \in {"remove", "add", "mtu"} /\ Continue(c, Reply(r, "SYS_FAIL"))
  <2>1. c \in alone => AnswerTrue(r, "SYS_FAIL", ports, driver')
    BY <1>1, <1>8, UnderWay DEF AnswerTrue, Story, Without, CardPc
  <2>2. ~At(c, "idle")
    BY <1>1, <1>8 DEF At
  <2>3. QED
    BY <1>1, <1>2, <1>3, <1>8, <2>1, <2>2, ReplyStep
<1>9. CASE r.pc \in {"detach", "attach"} /\ Continue(c, Mtu(r, "SYS_FAIL"))
  BY <1>1, <1>2, <1>3, <1>9, MtuStep
<1>10. QED
  BY <1>4, <1>5, <1>6, <1>7, <1>8, <1>9

-----------------------------------------------------------------------------
(* The invariant and what it implies                                       *)

LEMMA UpLinkNextStep ==
    ASSUME UpLinkInv, Next
    PROVE  UpLinkInv'
<1>1. PICK c \in Callers :
         \/ CallUpLink(c) \/ ListInterfaces(c) \/ LookAtInterface(c)
         \/ ListPorts(c) \/ MatchPort(c) \/ Decide(c)
         \/ CheckPort(c) \/ RemovePort(c) \/ CheckFree(c) \/ AddPort(c)
         \/ CallModifyNic(c) \/ DetachDriver(c) \/ AttachDriver(c) \/ SetMtu(c)
         \/ CommandFails(c)
  BY DEF Next
<1>2. QED
  BY <1>1, CallUpLinkStep, ListInterfacesStep, LookAtInterfaceStep, ListPortsStep,
     MatchPortStep, DecideStep, CheckPortStep, RemovePortStep, CheckFreeStep,
     AddPortStep, CallModifyNicStep, DetachDriverStep, AttachDriverStep,
     SetMtuStep, CommandFailsStep

LEMMA UpLinkInvStep ==
    ASSUME UpLinkInv, [Next]_vars
    PROVE  UpLinkInv'
<1>1. CASE UNCHANGED vars
  BY <1>1 DEF vars, UpLinkInv, TypeOK, AloneInv, At
<1>2. QED
  BY <1>1, UpLinkNextStep

LEMMA UpLinkInvHolds == Spec => []UpLinkInv
  BY UpLinkInitially, UpLinkInvStep, PTL DEF Spec

\* Ports and calls are well formed, and the port that an undisturbed call is about
\* to work on is the uplink of its switch (get_uplink_port_name).
THEOREM UplinksAreConsistent == Spec => []Consistent
<1>1. ASSUME UpLinkInv PROVE Consistent
  <2>1. ASSUME NEW c \in alone, At(c, "decide")
        PROVE  NameTrue(call[c], ports, driver)
    BY <1>1, <2>1 DEF UpLinkInv, AloneInv, Story, At
  <2>2. ReadsTheUplink
    BY <2>1, InTermsOfPorts DEF ReadsTheUplink, NameTrue
  <2>3. QED
    BY <1>1, <2>2 DEF Consistent, UpLinkInv
<1>2. QED
  BY <1>1, UpLinkInvHolds, PTL

\* The answer of an undisturbed AddUpLink, DelUpLink or ModifyUpLink tells what
\* became of the ports.
THEOREM UplinkAnswersAreTrue == Spec => []AnswersAreTrue
<1>1. ASSUME UpLinkInv PROVE AnswersAreTrue
  <2>1. ASSUME NEW c \in alone, At(c, "idle")
        PROVE  AnswerTrue(call[c], call[c].ok, ports, driver)
    BY <1>1, <2>1 DEF UpLinkInv, AloneInv, Story, At
  <2>2. AcceptedIsDone
    BY <2>1, InTermsOfPorts DEF AcceptedIsDone, AnswerTrue
  <2>3. DeletedIsGone
    BY <2>1, InTermsOfPorts DEF DeletedIsGone, AnswerTrue, Without
  <2>4. RefusedIsUndone
    BY <2>1 DEF RefusedIsUndone, AnswerTrue, Without
  <2>5. QED
    BY <2>2, <2>3, <2>4 DEF AnswersAreTrue
<1>2. QED
  BY <1>1, UpLinkInvHolds, PTL

-----------------------------------------------------------------------------
(* What a step may do                                                      *)

\* The steps that leave the ports alone.
LEMMA PortsChange ==
    ASSUME Next, ports' # ports
    PROVE  \E c \in Callers : RemovePort(c) \/ AddPort(c)
<1>1. ASSUME NEW c \in Callers, CallUpLink(c) \/ CallModifyNic(c) PROVE UNCHANGED ports
  BY <1>1 DEF CallUpLink, CallModifyNic, Start
<1>2. ASSUME NEW c \in Callers,
             \/ ListInterfaces(c) \/ LookAtInterface(c) \/ ListPorts(c) \/ MatchPort(c)
             \/ Decide(c) \/ CheckPort(c) \/ CheckFree(c)
      PROVE  UNCHANGED ports
  BY <1>2 DEF ListInterfaces, LookAtInterface, ListPorts, MatchPort, Decide, CheckPort,
              CheckFree
<1>3. ASSUME NEW c \in Callers,
             DetachDriver(c) \/ AttachDriver(c) \/ SetMtu(c) \/ CommandFails(c)
      PROVE  UNCHANGED ports
  BY <1>3 DEF DetachDriver, AttachDriver, SetMtu, CommandFails
<1>4. QED
  BY <1>1, <1>2, <1>3 DEF Next

\* A second uplink comes of calls side by side, a failing command or an uplink
\* that could not be read (set_single_uplink_port, set_bond_uplink_port); a port
\* that was no uplink of the switch is removed only if it moved (remove_port).
THEOREM UplinkChangesHaveCause == Spec => ChangesHaveCause
<1> DEFINE Second == \A s \in Switches :
                        (Uplinks(s) # {} /\ Uplinks(s)' \ Uplinks(s) # {}) =>
                           \E c \in Callers : /\ call[c].req.on = s
                                              /\ call[c].pc = "add"
                                              /\ \/ c \notin alone
                                                 \/ call[c].failed
                                                 \/ Unreadable(s)
           Stray == \A p \in ports \ ports' :
                        \E c \in Callers : /\ call[c].pc = "remove" /\ call'[c].pc # "remove"
                                           /\ call[c].name = p.name
                                           /\ call[c].req.on = p.on \/ call[c].moved
<1>1. ASSUME UpLinkInv, Next PROVE Second
  <2> SUFFICES ASSUME NEW s \in Switches, Uplinks(s) # {},
                      NEW p \in Uplinks(s)', p \notin Uplinks(s)
               PROVE  \E c \in Callers : /\ call[c].req.on = s
                                         /\ call[c].pc = "add"
                                         /\ \/ c \notin alone
                                            \/ call[c].failed
                                            \/ Unreadable(s)
    OBVIOUS
  <2>1. p \in ports' /\ p \notin ports /\ p.on = s
    BY DEF Uplinks
  <2>2. PICK c \in Callers : AddPort(c)
    BY <1>1, <2>1, PortsChange DEF RemovePort
  <2>3. p.on = call[c].req.on /\ call[c].pc = "add"
    BY <2>1, <2>2 DEF AddPort, At
  <2>4. c \in alone => call[c].failed \/ Unreadable(s)
    BY <1>1, <2>1, <2>3, UnderWay, InTermsOfPorts DEF Story
  <2>5. QED
    BY <2>1, <2>3, <2>4
<1>2. ASSUME UpLinkInv, Next PROVE Stray
  <2> SUFFICES ASSUME NEW p \in ports, p \notin ports'
               PROVE  \E c \in Callers : /\ call[c].pc = "remove"
                                         /\ call'[c].pc # "remove"
                                         /\ call[c].name = p.name
                                         /\ call[c].req.on = p.on \/ call[c].moved
    OBVIOUS
  <2>1. PICK c \in Callers : RemovePort(c)
    BY <1>2, PortsChange DEF AddPort
  <2>2. call[c].pc = "remove" /\ p.name = call[c].name
    BY <2>1 DEF RemovePort, At
  <2>3. call[c].req.on = p.on \/ call[c].moved
    BY <1>2, <2>2, UnderWay DEF CallSound, PortsSound
  <2>4. call'[c].pc # "remove"
    <3>1. call'[c] = Removed(call[c]) \/ call'[c] = Reply(call[c], "SYS_FAIL")
      BY <2>1 DEF RemovePort
    <3>2. /\ \A answer \in Answers : Reply(call[c], answer).pc = "idle"
          /\ SetPort(call[c]).pc = "free"
      BY <1>2, <2>2, ReplyIs, UnderWay DEF At, SetPort, Call
    <3>3. QED
      BY <3>1, <3>2 DEF Removed, Answers
  <2>5. QED
    BY <2>2, <2>3, <2>4
<1>3. ASSUME UpLinkInv, [Next]_vars PROVE [Second]_vars /\ [Stray]_vars
  BY <1>1, <1>2, <1>3
<1>4. QED
  BY <1>3, UpLinkInvHolds, PTL
     DEF Spec, ChangesHaveCause, SecondUplinkHasCause, OnlyMovedPortsAreStray

\* What others do leaves a call under way without an answer.
LEMMA OthersDoNotAnswer ==
    ASSUME UpLinkInv, Next, NEW c \in Callers, ~At(c, "idle"), call'[c].ok # "none"
    PROVE  \/ /\ call[c].pc \in PortPc
           \/ DetachDriver(c) \/ AttachDriver(c) \/ SetMtu(c) \/ CommandFails(c)
<1>1. /\ call[c] \in Call /\ call[c].ok = "none"
      /\ call[c].pc \in PortPc \cup CardPc
  BY UnderWay DEF At, CallSound, Call, Pc, PortPc, CardPc
<1>2. ASSUME NEW d \in Callers,
             \/ CallUpLink(d) \/ CallModifyNic(d)
      PROVE  FALSE
  <2>1. At(d, "idle") /\ call'[c] = IF d = c THEN call'[c] ELSE [call[c] EXCEPT !.before = {}]
    BY <1>2 DEF CallUpLink, CallModifyNic, Start
  <2>2. d # c
    BY <2>1
  <2>3. QED
    BY <1>1, <2>1, <2>2 DEF Call
<1>3. ASSUME NEW d \in Callers \ {c},
             \/ ListInterfaces(d) \/ LookAtInterface(d) \/ ListPorts(d) \/ MatchPort(d)
             \/ Decide(d) \/ CheckPort(d) \/ CheckFree(d) \/ AddPort(d)
             \/ DetachDriver(d) \/ AttachDriver(d) \/ SetMtu(d) \/ CommandFails(d)
      PROVE  FALSE
  <2>1. ASSUME NEW r, Continue(d, r) PROVE call'[c] = call[c]
    BY <2>1, UnderWay DEF Continue
  <2>2. \E r : Continue(d, r)
    BY <1>3 DEF ListInterfaces, LookAtInterface, ListPorts, MatchPort, Decide, CheckPort,
         CheckFree, AddPort, DetachDriver, AttachDriver, SetMtu, CommandFails, Goto, Answer
  <2>3. QED
    BY <1>1, <2>1, <2>2
<1>4. ASSUME NEW d \in Callers \ {c}, RemovePort(d)
      PROVE  FALSE
  <2>1. \E m : call'[c] = [call[c] EXCEPT !.moved = m]
    BY <1>4 DEF RemovePort
  <2>2. QED
    BY <1>1, <2>1 DEF Call
<1>5. ASSUME \/ ListInterfaces(c) \/ LookAtInterface(c) \/ ListPorts(c) \/ MatchPort(c)
             \/ Decide(c) \/ CheckPort(c) \/ CheckFree(c) \/ AddPort(c) \/ RemovePort(c)
      PROVE  call[c].pc \in PortPc
  BY <1>5 DEF ListInterfaces, LookAtInterface, ListPorts, MatchPort, Decide, CheckPort,
       CheckFree, AddPort, RemovePort, At, PortPc, Reading
<1>6. QED
  BY <1>2, <1>3, <1>4, <1>5 DEF Next

\* SYS_OK of ModifyNic means that the card has a driver, and, undisturbed, the one
\* that was asked for unless a command failed.
THEOREM ModifyNicAnswers == Spec => ModifyNicAnswersForTheCard
<1> DEFINE Tells == \A c \in Callers :
             LET r == call[c] IN
             (r.req.op = "ModifyNic" /\ r.pc # "idle" /\ call'[c].ok = "SYS_OK")
             => \A n \in r.req.nics :
                  /\ driver'[n] # "none"
                  /\ (r.req.driver /\ c \in alone) =>
                        driver'[n] = "new" \/ r.failed
<1>1. ASSUME UpLinkInv, Next, NEW c \in Callers, call[c].req.op = "ModifyNic",
             ~At(c, "idle"), call'[c].ok = "SYS_OK"
      PROVE  \A n \in call[c].req.nics :
               /\ driver'[n] # "none"
               /\ (call[c].req.driver /\ c \in alone) =>
                     driver'[n] = "new" \/ call[c].failed
  <2> DEFINE r == call[c]
  <2>1. /\ r \in Call /\ r.ok = "none" /\ r.pc \notin PortPc
        /\ driver \in [Nics -> Drivers]
    BY <1>1, UnderWay DEF At, CallSound, UpLinkOps
  <2>2. ASSUME NEW q \in Call, q.id = r.id, q.ok = "none", Continue(c, Mtu(q, "SYS_FAIL"))
        PROVE  FALSE
    <3>1. call'[c] = Mtu(q, "SYS_FAIL") /\ "SYS_FAIL" \in Answers
      BY <1>1, <2>2, UnderWay DEF Continue, Answers
    <3>2. Reply(q, "SYS_FAIL").ok = "SYS_FAIL" /\ [q EXCEPT !.pc = "mtu"].ok = "none"
      BY <1>1, <2>2, <3>1, ReplyIs DEF Call
    <3>3. QED
      BY <1>1, <3>1, <3>2 DEF Mtu
  <2>3. ASSUME NEW q \in Call, q.id = r.id, NEW answer \in Answers,
               Continue(c, Reply(q, answer))
        PROVE  answer = "SYS_OK"
    <3>1. call'[c] = Reply(q, answer)
      BY <1>1, <2>3, UnderWay DEF Continue
    <3>2. QED
      BY <1>1, <2>3, <3>1, ReplyIs
  <2>4. CASE DetachDriver(c)
    <3>1. {"SYS_FAIL", "raised"} \subseteq Answers
      BY DEF Answers
    <3>2. Continue(c, [r EXCEPT !.pc = "attach"])
      BY <2>1, <2>3, <2>4, <3>1 DEF DetachDriver, Answer, Goto
    <3>3. call'[c] = [r EXCEPT !.pc = "attach"]
      BY <1>1, <3>2, UnderWay DEF Continue
    <3>4. QED
      BY <1>1, <2>1, <3>3 DEF Call
  <2>5. CASE AttachDriver(c)
    <3> DEFINE m == CHOOSE n \in r.req.nics : TRUE
    <3>1. r.req.nics = {m} /\ m \in Nics
      BY <1>1, <2>5, CardCall DEF AttachDriver, At, CardPc
    <3>2. driver[m] = "none"
      BY <2>1, <2>2, <2>5 DEF AttachDriver
    <3>3. driver' = [driver EXCEPT ![m] = "new"]
      BY <2>5, <3>2 DEF AttachDriver
    <3> HIDE DEF m
    <3>4. QED
      BY <2>1, <3>1, <3>3
  <2>6. CASE SetMtu(c)
    <3>1. {"SYS_OK", "SYS_FAIL"} \subseteq Answers
      BY DEF Answers
    <3>2. \A n \in r.req.nics : driver[n] # "none"
      BY <2>1, <2>3, <2>6, <3>1 DEF SetMtu, Answer
    <3>3. UNCHANGED driver /\ r.pc = "mtu"
      BY <2>6 DEF SetMtu, At
    <3>4. QED
      BY <1>1, <3>2, <3>3, UnderWay DEF Story
  <2>7. CASE CommandFails(c)
    <3> DEFINE q == [r EXCEPT !.failed = TRUE]
    <3>1. q \in Call /\ q.id = r.id /\ q.ok = r.ok /\ q.pc = r.pc /\ "SYS_FAIL" \in Answers
      BY <2>1 DEF Call, Answers
    <3>2. \/ Continue(c, Reply(q, "SYS_FAIL"))
          \/ Continue(c, Mtu(q, "SYS_FAIL"))
          \/ q.pc \in PortPc
      BY <2>7 DEF CommandFails, PortPc
    <3> HIDE DEF q
    <3>3. QED
      BY <2>1, <2>2, <2>3, <3>1, <3>2
  <2>8. QED
    BY <1>1, <2>1, <2>4, <2>5, <2>6, <2>7, OthersDoNotAnswer
<1>2. ASSUME UpLinkInv, [Next]_vars PROVE [Tells]_vars
  BY <1>1, <1>2 DEF At
<1>3. QED
  BY <1>2, UpLinkInvHolds, PTL DEF Spec, ModifyNicAnswersForTheCard

-----------------------------------------------------------------------------
(***************************************************************************)
(* Part 2.  NetRules: the rules in force on the ports of virtual machines. *)
(* Any contents of the files.                                              *)
(***************************************************************************)

(* What a list of rules puts in force                                      *)

\* What attaching a rule asks for; "queue" is the second command of a rule "out".
Commanded == Matches \cup Directions \cup {Everything, "queue"}
PartOf(rule) == Effect(rule) \cup (IF rule = "out" THEN {"queue"} ELSE {})

LEMMA PartsAreItems ==
    ASSUME NEW rule \in Commanded
    PROVE  /\ Effect(rule) \in SUBSET Items
           /\ rule # "queue" => "queue" \notin Effect(rule)
           /\ PartOf("queue") = {"queue"} /\ PartOf("out") = Effect("out") \cup {"queue"}
           /\ rule # "out" => PartOf(rule) = Effect(rule)
BY NetRulesAssumption DEF Commanded, Directions, Everything, Effect, Items, PartOf

LEMMA InForceByParts ==
    ASSUME NEW rules
    PROVE  /\ \A i \in DOMAIN rules : PartOf(rules[i]) \subseteq InForceBy(rules)
           /\ \A x \in InForceBy(rules) : \E i \in DOMAIN rules : x \in PartOf(rules[i])
BY DEF InForceBy, PartOf

LEMMA NothingInForce == InForceBy(<<>>) = {}
<1>1. DOMAIN <<>> = {}
  <2>1. Len(<<>>) = 0 /\ DOMAIN <<>> = 1..Len(<<>>)
    BY EmptySeq, LenProperties
  <2>2. QED
    BY <2>1
<1>2. QED
  BY <1>1 DEF InForceBy

\* The first rule and the rest.
LEMMA InForceByHead ==
    ASSUME NEW S, NEW s \in Seq(S), s # <<>>
    PROVE  /\ Head(s) \in S /\ Tail(s) \in Seq(S)
           /\ \E i \in DOMAIN s : Head(s) = s[i]
           /\ \A i \in DOMAIN Tail(s) : \E j \in DOMAIN s : Tail(s)[i] = s[j]
           /\ InForceBy(s) = PartOf(Head(s)) \cup InForceBy(Tail(s))
<1>1. /\ Len(s) \in Nat \ {0} /\ DOMAIN s = 1..Len(s)
      /\ Head(s) = s[1] /\ Head(s) \in S
      /\ Tail(s) \in Seq(S) /\ Len(Tail(s)) = Len(s) - 1
      /\ \A i \in 1..Len(Tail(s)) : Tail(s)[i] = s[i + 1]
  BY LenProperties, EmptySeq, HeadTailProperties
<1>2. DOMAIN Tail(s) = 1..(Len(s) - 1)
  BY <1>1, LenProperties
<1>3. \A i \in DOMAIN Tail(s) : i + 1 \in DOMAIN s /\ Tail(s)[i] = s[i + 1]
  BY <1>1, <1>2
<1>4. \A j \in DOMAIN s : s[j] = Head(s) \/ \E i \in DOMAIN Tail(s) : s[j] = Tail(s)[i]
  <2> SUFFICES ASSUME NEW j \in DOMAIN s, j # 1
               PROVE  \E i \in DOMAIN Tail(s) : s[j] = Tail(s)[i]
    BY <1>1
  <2>1. j - 1 \in DOMAIN Tail(s) /\ (j - 1) + 1 = j
    BY <1>1, <1>2
  <2>2. Tail(s)[j - 1] = s[j]
    BY <1>3, <2>1
  <2>3. QED
    BY <2>1, <2>2
<1>5. 1 \in DOMAIN s
  BY <1>1
<1>6. \A x : x \in InForceBy(s) <=> x \in PartOf(Head(s)) \/ x \in InForceBy(Tail(s))
  <2>1. ASSUME NEW x \in InForceBy(s)
        PROVE  x \in PartOf(Head(s)) \/ x \in InForceBy(Tail(s))
    BY <1>4, <2>1, InForceByParts
  <2>2. ASSUME NEW x \in PartOf(Head(s)) PROVE x \in InForceBy(s)
    BY <1>1, <1>5, InForceByParts
  <2>3. ASSUME NEW x \in InForceBy(Tail(s)) PROVE x \in InForceBy(s)
    <3>1. PICK i \in DOMAIN Tail(s) : x \in PartOf(Tail(s)[i])
      BY InForceByParts
    <3>2. QED
      BY <1>3, <3>1, InForceByParts
  <2>4. QED
    BY <2>1, <2>2, <2>3
<1>7. InForceBy(s) = PartOf(Head(s)) \cup InForceBy(Tail(s))
  BY <1>6
<1>8. QED
  BY <1>1, <1>3, <1>5, <1>7

\* A rule put before the others.
LEMMA InForceByBefore ==
    ASSUME NEW S, NEW s \in Seq(S), NEW x \in S
    PROVE  /\ <<x>> \o s \in Seq(S)
           /\ \A i \in DOMAIN (<<x>> \o s) :
                 (<<x>> \o s)[i] = x \/ \E j \in DOMAIN s : (<<x>> \o s)[i] = s[j]
           /\ InForceBy(<<x>> \o s) = PartOf(x) \cup InForceBy(s)
<1> DEFINE t == <<x>> \o s
<1>1. <<x>> \in Seq(S) /\ Len(<<x>>) = 1 /\ <<x>>[1] = x /\ Len(s) \in Nat
  BY LenProperties
<1>2. /\ t \in Seq(S) /\ Len(t) = 1 + Len(s)
      /\ \A i \in 1..(1 + Len(s)) : t[i] = IF i <= 1 THEN <<x>>[i] ELSE s[i - 1]
  BY <1>1, ConcatProperties
<1>3. DOMAIN t = 1..(1 + Len(s)) /\ DOMAIN s = 1..Len(s)
  BY <1>2, LenProperties
<1> HIDE DEF t
<1>4. /\ 1 \in DOMAIN t /\ t[1] = x
      /\ \A i \in DOMAIN s : i + 1 \in DOMAIN t /\ t[i + 1] = s[i]
      /\ \A i \in DOMAIN t : i = 1 \/ (i - 1 \in DOMAIN s /\ t[i] = s[i - 1])
  BY <1>1, <1>2, <1>3
<1>5. ASSUME NEW y PROVE y \in InForceBy(t) <=> y \in PartOf(x) \/ y \in InForceBy(s)
  <2>1. ASSUME y \in InForceBy(t) PROVE y \in PartOf(x) \/ y \in InForceBy(s)
    <3>1. PICK i \in DOMAIN t : y \in PartOf(t[i])
      BY <2>1, InForceByParts
    <3>2. QED
      BY <1>4, <3>1, InForceByParts
  <2>2. ASSUME y \in PartOf(x) PROVE y \in InForceBy(t)
    BY <1>4, <2>2, InForceByParts
  <2>3. ASSUME y \in InForceBy(s) PROVE y \in InForceBy(t)
    <3>1. PICK i \in DOMAIN s : y \in PartOf(s[i])
      BY <2>3, InForceByParts
    <3>2. QED
      BY <1>4, <3>1, InForceByParts
  <2>4. QED
    BY <2>1, <2>2, <2>3
<1>6. QED
  BY <1>2, <1>4, <1>5 DEF t

\* What a call has still to command once it has given the first one (Rest).
LEMMA RestOfRules ==
    ASSUME NEW r, r.todo \in Seq(Commanded), r.todo # <<>>
    PROVE  /\ Head(r.todo) \in Commanded /\ Rest(r) \in Seq(Commanded)
           /\ \E i \in DOMAIN r.todo : Head(r.todo) = r.todo[i]
           /\ \A i \in DOMAIN Rest(r) :
                 \/ Rest(r)[i] = "queue" /\ r.op = "Attach"
                 \/ \E j \in DOMAIN r.todo : Rest(r)[i] = r.todo[j]
           /\ InForceBy(Rest(r)) \subseteq InForceBy(r.todo)
           /\ Effect(Head(r.todo)) \subseteq InForceBy(r.todo)
           /\ r.op = "Attach" =>
                InForceBy(r.todo) = Effect(Head(r.todo)) \cup InForceBy(Rest(r))
           /\ InForceBy(r.todo) \subseteq
                Effect(Head(r.todo)) \cup InForceBy(Rest(r)) \cup {"queue"}
<1> DEFINE s == r.todo
<1>1. /\ Head(s) \in Commanded /\ Tail(s) \in Seq(Commanded)
      /\ \E i \in DOMAIN s : Head(s) = s[i]
      /\ \A i \in DOMAIN Tail(s) : \E j \in DOMAIN s : Tail(s)[i] = s[j]
      /\ InForceBy(s) = PartOf(Head(s)) \cup InForceBy(Tail(s))
  BY InForceByHead
<1>2. /\ PartOf("queue") = {"queue"} /\ PartOf("out") = Effect("out") \cup {"queue"}
      /\ Head(s) # "out" => PartOf(Head(s)) = Effect(Head(s))
      /\ Effect(Head(s)) \subseteq PartOf(Head(s))
  BY <1>1, PartsAreItems DEF PartOf
<1>3. CASE r.op = "Attach" /\ Head(s) = "out"
  <2>1. Rest(r) = <<"queue">> \o Tail(s)
    BY <1>3 DEF Rest
  <2>2. "queue" \in Commanded
    BY DEF Commanded
  <2> DEFINE t == Tail(s)
             u == <<"queue">> \o t
  <2>3. /\ u \in Seq(Commanded)
        /\ \A i \in DOMAIN u : u[i] = "queue" \/ \E j \in DOMAIN t : u[i] = t[j]
        /\ InForceBy(u) = PartOf("queue") \cup InForceBy(t)
    <3>1. t \in Seq(Commanded)
      BY <1>1
    <3> HIDE DEF t
    <3>2. QED
      BY <2>2, <3>1, InForceByBefore
  <2>4. Rest(r) = u
    BY <2>1
  <2> HIDE DEF u
  <2>5. QED
    BY <1>1, <1>2, <1>3, <2>3, <2>4
<1>4. CASE ~(r.op = "Attach" /\ Head(s) = "out")
  <2>1. Rest(r) = Tail(s)
    BY <1>4 DEF Rest
  <2>2. QED
    BY <1>1, <1>2, <1>4, <2>1 DEF PartOf
<1>5. QED
  BY <1>3, <1>4

\* A rule takes away what it put in force, and a call no more than its file does.
LEMMA RestClears ==
    ASSUME NEW r, r.todo \in Seq(Commanded), r.todo # <<>>, r.op = "Detach"
    PROVE  /\ Effect(Head(r.todo)) \subseteq Deletes(Head(r.todo))
           /\ Deletes(Head(r.todo)) \subseteq Items
           /\ Deletes(Head(r.todo)) \cup DeletedBy(Rest(r)) \subseteq DeletedBy(r.todo)
<1> DEFINE x == Head(r.todo)
<1>1. /\ x \in Commanded /\ \E i \in DOMAIN r.todo : x = r.todo[i]
      /\ \A i \in DOMAIN Rest(r) : \E j \in DOMAIN r.todo : Rest(r)[i] = r.todo[j]
  BY RestOfRules
<1> HIDE DEF x
<1>2. ASSUME x \in Matches PROVE Effect(x) \subseteq Deletes(x) /\ Deletes(x) \subseteq Items
  <2>1. Effect(x) = {x}
    BY <1>2, NetRulesAssumption DEF Effect, Directions
  <2>2. Deletes(x) = Narrower[x] /\ x \in Narrower[x] /\ Narrower[x] \subseteq Matches
    BY <1>2, NetRulesAssumption DEF Deletes
  <2>3. QED
    BY <2>1, <2>2 DEF Items
<1>3. ASSUME x \notin Matches PROVE Effect(x) \subseteq Deletes(x) /\ Deletes(x) \subseteq Items
  BY <1>1, <1>3, PartsAreItems DEF Deletes
<1>4. Deletes(x) \cup DeletedBy(Rest(r)) \subseteq DeletedBy(r.todo)
  BY <1>1 DEF DeletedBy
<1>5. QED
  BY <1>2, <1>3, <1>4 DEF x

-----------------------------------------------------------------------------
(* Types                                                                   *)

AnyFile == AclContents \cup QosContents \cup {Absent, Torn}
RuleCallRecord == [pc : RulesPc, op : Ops, name : Names \cup {RulesNoName}, tap : Taps,
             content : AclContents \cup QosContents, legal : BOOLEAN,
             todo : Seq(Commanded), ok : RulesAnswers, before : AnyFile,
             failed : BOOLEAN]

\* A call is on a file there may be, and has commands to give only from one.
RulesCallSound(r) ==
    /\ r.pc # "idle" => r.name \in Names
    /\ r.pc \in {"ofport", "parse", "rule"} => r.op \in OnTaps
    /\ r.pc \in {"open", "write"} => r.op \notin OnTaps
    /\ r.pc \in {"exist", "write"} => r.op # "Del"
    /\ (r.pc # "idle" /\ r.op \in {"Add", "Modify"}) => r.content \in Contents(r.name)
    /\ (r.pc = "rule" /\ r.op = "Detach") => \A i \in DOMAIN r.todo : r.todo[i] # "queue"

RulesTyped ==
    /\ file \in [Names -> AnyFile]
    /\ \A n \in Names : file[n] \in Contents(n) \cup {Absent, Torn}
    /\ inForce \in [Taps -> SUBSET Items]
    /\ plugged \in SUBSET Taps
    /\ rulesCall \in [RulesCallers -> RuleCallRecord]
    /\ \A c \in RulesCallers : RulesCallSound(rulesCall[c])
    /\ rulesCalls \in 0..RulesMaxCalls
    /\ rulesAlone \in SUBSET RulesCallers
    /\ attached \in [Taps -> SUBSET Names]
    /\ rulesDirty \in SUBSET Taps

\* The rules in a file are rules.
LEMMA RulesAreCommands ==
    ASSUME NEW n \in Names, NEW f \in Contents(n) \cup {Absent, Torn}, IsRules(f)
    PROVE  /\ f \in Seq(Commanded) /\ f \in Contents(n)
           /\ \A i \in DOMAIN f : f[i] # "queue"
<1>1. f \in Contents(n)
  BY DEF IsRules
<1>2. f \in Seq(Matches \cup {Everything}) \/ f \in Seq(Directions)
  BY <1>1, NetRulesAssumption DEF Contents
<1>3. /\ "queue" \notin Matches \cup {Everything} /\ "queue" \notin Directions
      /\ Matches \cup {Everything} \subseteq Commanded /\ Directions \subseteq Commanded
  BY NetRulesAssumption DEF Commanded, Everything, Directions
<1>4. ASSUME NEW S, S \subseteq Commanded, "queue" \notin S, f \in Seq(S)
      PROVE  f \in Seq(Commanded) /\ \A i \in DOMAIN f : f[i] # "queue"
  <2>1. \A i \in DOMAIN f : f[i] \in S
    BY <1>4, LenProperties, ElementOfSeq
  <2>2. f \in Seq(Commanded)
    BY <1>4
  <2>3. QED
    BY <1>4, <2>1, <2>2
<1>5. QED
  BY <1>1, <1>2, <1>3, <1>4

\* A call begins: the call, and what becomes of the records of the others.
NewCall(op, n, t, x, legal) ==
    [RulesIdle EXCEPT !.op = op, !.name = n, !.tap = t, !.content = x, !.legal = legal,
                      !.before = IF {d \in RulesCallers : ~RulesAt(d, "idle")} = {} THEN file[n] ELSE Absent,
                      !.pc = IF op = "Del" THEN "open" ELSE "exist"]

LEMMA RulesIdleIsCall ==
    /\ RulesIdle \in RuleCallRecord /\ RulesCallSound(RulesIdle)
    /\ RulesIdle.pc = "idle" /\ RulesIdle.ok = "none" /\ RulesIdle.op = "Del" /\ RulesIdle.name = RulesNoName
    /\ RulesIdle.tap \in Taps /\ RulesIdle.content \in AclContents /\ RulesIdle.todo = <<>>
<1>1. <<>> \in Seq(Commanded)
  BY EmptySeq
<1>2. (CHOOSE t \in Taps : TRUE) \in Taps /\ (CHOOSE x \in AclContents : TRUE) \in AclContents
  BY NetRulesAssumption
<1>3. /\ RulesIdle \in RuleCallRecord
      /\ RulesIdle.pc = "idle" /\ RulesIdle.ok = "none" /\ RulesIdle.op = "Del" /\ RulesIdle.name = RulesNoName
      /\ RulesIdle.tap \in Taps /\ RulesIdle.content \in AclContents /\ RulesIdle.todo = <<>>
  BY <1>1, <1>2 DEF RulesIdle, RuleCallRecord, RulesPc, Ops, RulesAnswers, AnyFile
<1>4. RulesCallSound(RulesIdle)
  BY <1>3 DEF RulesCallSound
<1>5. QED
  BY <1>3, <1>4

\* What a call that begins is, in the terms of a later step.
Begins(c, op, n, t, x, legal) ==
    /\ op \in Ops /\ n \in Names /\ t \in Taps /\ legal \in BOOLEAN
    /\ x \in AclContents \cup QosContents
    /\ op \in {"Add", "Modify"} => x \in Contents(n)
    /\ RulesCall(c, op, n, t, x, legal)

LEMMA CallsBegin ==
    ASSUME NEW c \in RulesCallers, CallOnTap(c) \/ CallOnFile(c) \/ RulesCallDel(c)
    PROVE  \E op, n, t, x, legal : Begins(c, op, n, t, x, legal)
<1>1. ASSUME NEW op \in OnTaps, NEW n \in Names, NEW t \in Taps,
             RulesCall(c, op, n, t, RulesIdle.content, TRUE)
      PROVE  Begins(c, op, n, t, RulesIdle.content, TRUE)
  BY <1>1, RulesIdleIsCall DEF Begins, OnTaps, Ops
<1>2. ASSUME NEW op \in {"Add", "Modify"}, NEW n \in Names, NEW x \in Contents(n),
             NEW legal \in BOOLEAN, RulesCall(c, op, n, RulesIdle.tap, x, legal)
      PROVE  Begins(c, op, n, RulesIdle.tap, x, legal)
  BY <1>2, RulesIdleIsCall DEF Begins, Ops, Contents
<1>3. ASSUME NEW n \in Names, RulesCall(c, "Del", n, RulesIdle.tap, RulesIdle.content, TRUE)
      PROVE  Begins(c, "Del", n, RulesIdle.tap, RulesIdle.content, TRUE)
  BY <1>3, RulesIdleIsCall DEF Begins, Ops
<1>4. CASE CallOnTap(c)
  BY <1>1, <1>4 DEF CallOnTap
<1>5. CASE CallOnFile(c)
  BY <1>2, <1>5 DEF CallOnFile
<1>6. CASE RulesCallDel(c)
  BY <1>3, <1>6 DEF RulesCallDel
<1>7. QED
  BY <1>4, <1>5, <1>6

-----------------------------------------------------------------------------
(* The inductive invariant                                                 *)

DueOf(F, A) == UNION {InForceBy(F[n]) : n \in A}
Agree(now, due) == now \ {"queue"} = due \ {"queue"} /\ due \subseteq now

\* An attach or detach that has given some of its commands.  What is in force lies
\* between what was due and what will be; a detach whose rules cover some of another
\* file of the port takes those away too.
Working(r, F, now, A) ==
    LET rules == InForceBy(F[r.name])
        reach == DeletedBy(F[r.name])
        due == DueOf(F, A)
        others == DueOf(F, A \ {r.name})
    IN  /\ IsRules(F[r.name]) /\ InForceBy(r.todo) \subseteq rules
        /\ r.op = "Attach" => /\ due \subseteq now
                              /\ now \subseteq due \cup rules \cup {"queue"}
                              /\ rules \subseteq now \cup InForceBy(r.todo)
        /\ r.op = "Detach" => DeletedBy(r.todo) \subseteq reach
        /\ (r.op = "Detach" /\ others \cap reach = {})
           => /\ others \subseteq now
              /\ now \subseteq others \cup InForceBy(r.todo) \cup {"queue"}

WorksOn(c, t) == RulesAt(c, "rule") /\ rulesCall[c].tap = t

ForceSound(t) ==
    /\ \A n \in attached[t] : IsRules(file[n])
    /\ \A c \in RulesCallers : WorksOn(c, t) => Working(rulesCall[c], file, inForce[t], attached[t])
    /\ (\A c \in RulesCallers : ~WorksOn(c, t)) => Agree(inForce[t], DueOf(file, attached[t]))

ForceInv == \A t \in plugged \ rulesDirty : ForceSound(t)

\* Calls that may disturb each other have left their mark.
CollideInv ==
    \A c \in RulesCallers, d \in RulesCallers :
        (c # d /\ ~RulesAt(c, "idle") /\ ~RulesAt(d, "idle"))
        => Collision(rulesCall[c], rulesCall[d]) \subseteq rulesDirty

\* What the answer of an undisturbed call says (RulesAnswersAreTrue).
RulesAnswerTrue(r, F, I, P) ==
    /\ (r.ok = "SYS_OK" /\ r.op = "Attach")
       => \/ InForceBy(r.before) \subseteq I[r.tap]
          \/ r.tap \notin P
          \/ r.name \in Filters /\ r.failed
    /\ (r.ok = "SYS_FAIL" /\ r.op \in OnTaps)
       => \/ ~IsRules(F[r.name])
          \/ r.tap \notin P
          \/ r.op = "Attach" /\ \E i \in DOMAIN F[r.name] : F[r.name][i] = Everything
          \/ r.failed
    /\ r.op \notin OnTaps =>
       /\ r.ok = "SYS_OK" =>
            \/ F[r.name] = (IF r.op = "Del" THEN Absent ELSE r.content)
            \/ r.name \in Filters /\ F[r.name] = r.before /\ ~(r.legal /\ ~r.failed)
            \/ r.name \in Filters /\ F[r.name] = Torn /\ r.failed
       /\ r.ok = "SYS_FAIL" => F[r.name] = r.before \/ (F[r.name] = Torn /\ r.failed)

\* What an undisturbed call has found and done so far.
RulesStory(r, F, I, P) ==
    /\ r.pc \in RulesPc \ {"idle", "write"} => F[r.name] = r.before
    /\ r.pc = "write" => F[r.name] = Torn
    /\ r.pc = "rule" =>
         /\ r.op = "Attach" => \/ InForceBy(r.before) \subseteq I[r.tap] \cup InForceBy(r.todo)
                               \/ r.tap \notin P
                               \/ r.name \in Filters /\ r.failed
         /\ \A i \in DOMAIN r.todo :
               r.todo[i] = Everything => \E j \in DOMAIN r.before : r.before[j] = Everything
    /\ r.pc = "idle" => RulesAnswerTrue(r, F, I, P)

RulesAloneInv ==
    \A c \in rulesAlone : /\ \A d \in RulesCallers \ {c} : RulesAt(d, "idle")
                          /\ RulesStory(rulesCall[c], file, inForce, plugged)

RulesInv == RulesTyped /\ CollideInv /\ ForceInv /\ RulesAloneInv

LEMMA RulesInitially == RulesInit => RulesInv
<1> SUFFICES ASSUME RulesInit PROVE RulesInv
  OBVIOUS
<1>1. \A c \in RulesCallers : rulesCall[c] = RulesIdle /\ RulesAt(c, "idle")
  BY RulesIdleIsCall DEF RulesInit, RulesAt
<1>2. RulesTyped
  BY <1>1, RulesIdleIsCall, NetRulesAssumption DEF RulesInit, RulesTyped, AnyFile
<1>3. CollideInv /\ RulesAloneInv
  BY <1>1 DEF RulesInit, CollideInv, RulesAloneInv
<1>4. ForceInv
  BY <1>1 DEF RulesInit, ForceInv, ForceSound, WorksOn, RulesAt, Agree, DueOf
<1>5. QED
  BY <1>2, <1>3, <1>4 DEF RulesInv

-----------------------------------------------------------------------------
(* Steps                                                                   *)

\* What is known of a call under way.
LEMMA RulesUnderWay ==
    ASSUME RulesInv, NEW c \in RulesCallers
    PROVE  /\ rulesCall[c] \in RuleCallRecord /\ rulesCall \in [RulesCallers -> RuleCallRecord]
           /\ RulesCallSound(rulesCall[c])
           /\ c \in rulesAlone => RulesStory(rulesCall[c], file, inForce, plugged)
           /\ ~RulesAt(c, "idle") =>
                /\ rulesCall[c].name \in Names
                /\ file[rulesCall[c].name] \in Contents(rulesCall[c].name) \cup {Absent, Torn}
                /\ \A d \in rulesAlone : d = c
BY DEF RulesInv, RulesTyped, RulesAloneInv, RulesCallSound, RulesAt

LEMMA RulesCallStep ==
    ASSUME RulesInv, NEW c \in RulesCallers, ~RulesAt(c, "idle"),
           NEW r \in RuleCallRecord, RulesCallSound(r), RulesContinue(c, r),
           r.pc = "idle" \/ /\ r.op = rulesCall[c].op /\ r.name = rulesCall[c].name
                            /\ r.tap = rulesCall[c].tap,
           UNCHANGED <<plugged, rulesCalls, rulesAlone>>,
           file' \in [Names -> AnyFile],
           \A n \in Names : file'[n] \in Contents(n) \cup {Absent, Torn},
           inForce' \in [Taps -> SUBSET Items], attached' \in [Taps -> SUBSET Names],
           rulesDirty \subseteq rulesDirty', rulesDirty' \subseteq Taps,
           ForceInv',
           c \in rulesAlone => RulesStory(r, file', inForce', plugged)
    PROVE  RulesInv'
<1>1. /\ rulesCall' \in [RulesCallers -> RuleCallRecord] /\ rulesCall'[c] = r
      /\ \A d \in RulesCallers \ {c} : rulesCall'[d] = rulesCall[d]
  BY RulesUnderWay DEF RulesContinue
<1>2. RulesTyped'
  BY <1>1 DEF RulesInv, RulesTyped
<1>3. CollideInv'
  <2> SUFFICES ASSUME NEW a \in RulesCallers, NEW b \in RulesCallers, a # b,
                      rulesCall'[a].pc # "idle", rulesCall'[b].pc # "idle"
               PROVE  Collision(rulesCall'[a], rulesCall'[b]) \subseteq rulesDirty'
    BY DEF CollideInv, RulesAt
  <2>1. /\ rulesCall'[a].op = rulesCall[a].op /\ rulesCall'[a].name = rulesCall[a].name
        /\ rulesCall'[a].tap = rulesCall[a].tap /\ rulesCall[a].pc # "idle"
    BY <1>1 DEF RulesAt
  <2>2. /\ rulesCall'[b].op = rulesCall[b].op /\ rulesCall'[b].name = rulesCall[b].name
        /\ rulesCall'[b].tap = rulesCall[b].tap /\ rulesCall[b].pc # "idle"
    BY <1>1 DEF RulesAt
  <2>3. Collision(rulesCall'[a], rulesCall'[b]) = Collision(rulesCall[a], rulesCall[b])
    BY <2>1, <2>2 DEF Collision
  <2>4. QED
    BY <2>1, <2>2, <2>3 DEF RulesInv, CollideInv, RulesAt
<1>4. RulesAloneInv'
  <2> SUFFICES ASSUME NEW d \in rulesAlone
               PROVE  /\ \A e \in RulesCallers \ {d} : rulesCall'[e].pc = "idle"
                      /\ RulesStory(rulesCall'[d], file', inForce', plugged')
    BY DEF RulesAloneInv, RulesAt
  <2>1. d = c
    BY RulesUnderWay
  <2>2. QED
    BY <1>1, <2>1 DEF RulesInv, RulesAloneInv, RulesAt
<1>5. QED
  BY <1>2, <1>3, <1>4 DEF RulesInv

\* Ports on which neither the call nor what the rules of their files are has changed.
LEMMA ForceStays ==
    ASSUME RulesInv, NEW c \in RulesCallers, NEW r, RulesContinue(c, r),
           NEW t \in plugged \ rulesDirty,
           ~WorksOn(c, t), r.pc = "rule" => r.tap # t,
           inForce'[t] = inForce[t], attached'[t] = attached[t],
           \A n \in attached[t] : file'[n] = file[n],
           \A d \in RulesCallers \ {c} : WorksOn(d, t) => file'[rulesCall[d].name] = file[rulesCall[d].name]
    PROVE  ForceSound(t)'
<1>1. ForceSound(t)
  BY DEF RulesInv, ForceInv
<1>2. /\ rulesCall'[c] = r /\ \A d \in RulesCallers \ {c} : rulesCall'[d] = rulesCall[d]
  BY RulesUnderWay DEF RulesContinue
<1>3. DueOf(file', attached[t]) = DueOf(file, attached[t])
  BY DEF DueOf
<1>4. \A n : DueOf(file', attached[t] \ {n}) = DueOf(file, attached[t] \ {n})
  BY DEF DueOf
<1>5. \A d \in RulesCallers : WorksOn(d, t)' <=> d # c /\ WorksOn(d, t)
  BY <1>2 DEF WorksOn, RulesAt
<1>6. ASSUME NEW d \in RulesCallers, WorksOn(d, t)'
      PROVE  Working(rulesCall'[d], file', inForce'[t], attached'[t])
  <2>1. d # c /\ WorksOn(d, t) /\ rulesCall'[d] = rulesCall[d]
    BY <1>2, <1>5, <1>6
  <2>2. Working(rulesCall[d], file, inForce[t], attached[t])
    BY <1>1, <2>1 DEF ForceSound
  <2>3. file'[rulesCall[d].name] = file[rulesCall[d].name]
    BY <2>1
  <2>4. attached'[t] = attached[t] /\ inForce'[t] = inForce[t]
    OBVIOUS
  <2>5. Working(rulesCall[d], file', inForce[t], attached[t])
    BY <1>3, <1>4, <2>2, <2>3 DEF Working
  <2>6. QED
    BY <2>1, <2>4, <2>5
<1>7. (\A d \in RulesCallers : ~WorksOn(d, t)') => Agree(inForce'[t], DueOf(file', attached'[t]))
  BY <1>1, <1>3, <1>5 DEF ForceSound
<1>8. \A n \in attached'[t] : IsRules(file'[n])
  BY <1>1 DEF ForceSound
<1>9. QED
  BY <1>6, <1>7, <1>8 DEF ForceSound

\* A call that reads or ends, and changes neither files nor ports.
LEMMA QuietStep ==
    ASSUME RulesInv, NEW c \in RulesCallers, ~RulesAt(c, "idle"), ~RulesAt(c, "rule"),
           NEW r \in RuleCallRecord, RulesCallSound(r), RulesContinue(c, r), r.pc # "rule",
           r.pc = "idle" \/ /\ r.op = rulesCall[c].op /\ r.name = rulesCall[c].name
                            /\ r.tap = rulesCall[c].tap,
           UNCHANGED <<file, inForce, plugged, rulesCalls, rulesAlone, attached, rulesDirty>>,
           c \in rulesAlone => RulesStory(r, file, inForce, plugged)
    PROVE  RulesInv'
<1>1. \A t \in plugged \ rulesDirty : ForceSound(t)'
  BY ForceStays DEF WorksOn
<1>2. ForceInv'
  BY <1>1 DEF ForceInv
<1>3. RulesTyped
  BY DEF RulesInv
<1>4. QED
  BY <1>2, <1>3, RulesCallStep DEF RulesTyped

\* The end of a call (Reply): of the others only an undisturbed one is remembered.
LEMMA RulesReplyIs ==
    ASSUME NEW c \in RulesCallers, NEW r \in RuleCallRecord, NEW answer \in RulesAnswers
    PROVE  /\ RulesReply(c, r, answer) \in RuleCallRecord /\ RulesCallSound(RulesReply(c, r, answer))
           /\ RulesReply(c, r, answer).pc = "idle" /\ RulesReply(c, r, answer).ok = answer
           /\ c \in rulesAlone =>
                /\ RulesReply(c, r, answer).op = r.op /\ RulesReply(c, r, answer).name = r.name
                /\ RulesReply(c, r, answer).tap = r.tap /\ RulesReply(c, r, answer).content = r.content
                /\ RulesReply(c, r, answer).legal = r.legal
                /\ RulesReply(c, r, answer).before = r.before
                /\ RulesReply(c, r, answer).failed = r.failed
<1>1. <<>> \in Seq(Commanded)
  BY EmptySeq
<1>2. /\ RulesReply(c, r, answer) \in RuleCallRecord
      /\ RulesReply(c, r, answer).pc = "idle" /\ RulesReply(c, r, answer).ok = answer
      /\ c \in rulesAlone =>
           /\ RulesReply(c, r, answer).op = r.op /\ RulesReply(c, r, answer).name = r.name
           /\ RulesReply(c, r, answer).tap = r.tap /\ RulesReply(c, r, answer).content = r.content
           /\ RulesReply(c, r, answer).legal = r.legal
           /\ RulesReply(c, r, answer).before = r.before
           /\ RulesReply(c, r, answer).failed = r.failed
  BY <1>1, RulesIdleIsCall DEF RulesReply, RuleCallRecord, RulesPc
<1>3. RulesCallSound(RulesReply(c, r, answer))
  BY <1>2 DEF RulesCallSound
<1>4. QED
  BY <1>2, <1>3

\* A call begins: it leaves a mark on every port where it may disturb another.
LEMMA CallBegins ==
    ASSUME RulesInv, NEW c \in RulesCallers, NEW op, NEW n, NEW t, NEW x, NEW legal,
           Begins(c, op, n, t, x, legal)
    PROVE  RulesInv'
<1> DEFINE others == {d \in RulesCallers : ~RulesAt(d, "idle")}
           new == NewCall(op, n, t, x, legal)
<1>1. /\ op \in Ops /\ n \in Names /\ t \in Taps /\ legal \in BOOLEAN
      /\ x \in AclContents \cup QosContents
      /\ op \in {"Add", "Modify"} => x \in Contents(n)
      /\ RulesAt(c, "idle") /\ rulesCalls < RulesMaxCalls /\ rulesCalls' = rulesCalls + 1
      /\ rulesCall' = [d \in RulesCallers |-> CASE d = c -> new
                                      [] d # c /\ d \notin others -> RulesIdle
                                      [] OTHER -> [rulesCall[d] EXCEPT !.before = Absent]]
      /\ rulesAlone' = IF others = {} THEN {c} ELSE {}
      /\ rulesDirty' = rulesDirty \cup UNION {Collision(new, rulesCall[d]) \cup
                                    Collision(rulesCall[d], new) : d \in others}
      /\ UNCHANGED <<file, inForce, plugged, attached>>
  BY DEF Begins, RulesCall, NewCall
<1>2. /\ new \in RuleCallRecord /\ new.op = op /\ new.name = n /\ new.tap = t /\ new.content = x
      /\ new.pc = (IF op = "Del" THEN "open" ELSE "exist")
      /\ others = {} => new.before = file[n]
  <2> DEFINE before == IF others = {} THEN file[n] ELSE Absent
             pc == IF op = "Del" THEN "open" ELSE "exist"
  <2>1. before \in AnyFile /\ pc \in RulesPc /\ (others = {} => before = file[n])
    BY <1>1 DEF RulesInv, RulesTyped, AnyFile, RulesPc
  <2>2. new = [RulesIdle EXCEPT !.op = op, !.name = n, !.tap = t, !.content = x,
                                !.legal = legal, !.before = before, !.pc = pc]
    BY DEF NewCall
  <2>3. pc = (IF op = "Del" THEN "open" ELSE "exist")
    OBVIOUS
  <2> HIDE DEF new, before, pc
  <2>4. QED
    BY <1>1, <2>1, <2>2, <2>3, RulesIdleIsCall DEF RuleCallRecord
<1> HIDE DEF new
<1>3. RulesCallSound(new)
  <2>1. new.pc \in {"open", "exist"} /\ (new.pc = "open" <=> new.op = "Del")
    BY <1>2
  <2>2. QED
    BY <1>1, <1>2, <2>1 DEF RulesCallSound, OnTaps
<1>4. /\ rulesCall'[c] = new
      /\ \A d \in RulesCallers \ {c} : d \notin others => rulesCall'[d] = RulesIdle
      /\ \A d \in others : rulesCall'[d] = [rulesCall[d] EXCEPT !.before = Absent]
      /\ c \notin others /\ others \subseteq RulesCallers
  BY <1>1
<1>5. \A d \in others : /\ rulesCall'[d] \in RuleCallRecord /\ RulesCallSound(rulesCall'[d])
                        /\ rulesCall'[d].pc = rulesCall[d].pc /\ rulesCall'[d].op = rulesCall[d].op
                        /\ rulesCall'[d].name = rulesCall[d].name /\ rulesCall'[d].tap = rulesCall[d].tap
                        /\ rulesCall'[d].todo = rulesCall[d].todo
  <2> SUFFICES ASSUME NEW d \in others
               PROVE  /\ rulesCall'[d] \in RuleCallRecord /\ RulesCallSound(rulesCall'[d])
                      /\ rulesCall'[d].pc = rulesCall[d].pc /\ rulesCall'[d].op = rulesCall[d].op
                      /\ rulesCall'[d].name = rulesCall[d].name /\ rulesCall'[d].tap = rulesCall[d].tap
                      /\ rulesCall'[d].todo = rulesCall[d].todo
    OBVIOUS
  <2>1. rulesCall[d] \in RuleCallRecord /\ RulesCallSound(rulesCall[d]) /\ rulesCall'[d] = [rulesCall[d] EXCEPT !.before = Absent]
    BY <1>4, RulesUnderWay
  <2>2. Absent \in AnyFile
    BY DEF AnyFile
  <2>3. /\ rulesCall'[d] \in RuleCallRecord
        /\ rulesCall'[d].pc = rulesCall[d].pc /\ rulesCall'[d].op = rulesCall[d].op
        /\ rulesCall'[d].name = rulesCall[d].name /\ rulesCall'[d].tap = rulesCall[d].tap
        /\ rulesCall'[d].todo = rulesCall[d].todo /\ rulesCall'[d].content = rulesCall[d].content
    BY <2>1, <2>2 DEF RuleCallRecord
  <2>4. RulesCallSound(rulesCall'[d])
    BY <2>1, <2>3 DEF RulesCallSound
  <2>5. QED
    BY <2>3, <2>4
<1>6. \A d \in RulesCallers : rulesCall'[d] \in RuleCallRecord /\ RulesCallSound(rulesCall'[d])
  <2> TAKE d \in RulesCallers
  <2>1. CASE d = c
    BY <1>2, <1>3, <1>4, <2>1
  <2>2. CASE d # c /\ d \notin others
    BY <1>4, <2>2, RulesIdleIsCall
  <2>3. CASE d \in others
    BY <1>5, <2>3
  <2>4. QED
    BY <2>1, <2>2, <2>3
<1>7. /\ \A d \in others : Collision(new, rulesCall[d]) \cup Collision(rulesCall[d], new) \subseteq rulesDirty'
      /\ rulesDirty \subseteq rulesDirty' /\ rulesDirty' \subseteq Taps
  <2>1. \A d \in others : Collision(new, rulesCall[d]) \cup Collision(rulesCall[d], new) \subseteq Taps
    BY <1>1, <1>2, <1>4, RulesUnderWay DEF Collision, RuleCallRecord
  <2>2. rulesDirty \subseteq Taps
    BY DEF RulesInv, RulesTyped
  <2>3. QED
    BY <1>1, <2>1, <2>2
<1>8. RulesTyped'
  <2>1. rulesCall' \in [RulesCallers -> RuleCallRecord]
    BY <1>1, <1>6
  <2>2. rulesCalls' \in 0..RulesMaxCalls
    BY <1>1, NetRulesAssumption DEF RulesInv, RulesTyped
  <2>3. rulesAlone' \subseteq RulesCallers
    BY <1>1
  <2>4. QED
    BY <1>1, <1>6, <1>7, <2>1, <2>2, <2>3 DEF RulesInv, RulesTyped
<1>9. \A d \in RulesCallers \ {c} : d \notin others => rulesCall'[d].pc = "idle"
  BY <1>4, RulesIdleIsCall
<1>10. CollideInv'
  <2> SUFFICES ASSUME NEW a \in RulesCallers, NEW b \in RulesCallers, a # b,
                      rulesCall'[a].pc # "idle", rulesCall'[b].pc # "idle"
               PROVE  Collision(rulesCall'[a], rulesCall'[b]) \subseteq rulesDirty'
    BY DEF CollideInv, RulesAt
  <2>1. a = c \/ a \in others
    BY <1>9
  <2>2. b = c \/ b \in others
    BY <1>9
  <2>3. CASE a = c
    <3>1. Collision(rulesCall'[a], rulesCall'[b]) = Collision(new, rulesCall[b])
      BY <1>4, <1>5, <2>2, <2>3 DEF Collision
    <3>2. QED
      BY <1>7, <2>2, <2>3, <3>1
  <2>4. CASE b = c
    <3>1. Collision(rulesCall'[a], rulesCall'[b]) = Collision(rulesCall[a], new)
      BY <1>4, <1>5, <2>1, <2>4 DEF Collision
    <3>2. QED
      BY <1>7, <2>1, <2>4, <3>1
  <2>5. CASE a \in others /\ b \in others
    <3>1. Collision(rulesCall'[a], rulesCall'[b]) = Collision(rulesCall[a], rulesCall[b])
      BY <1>5, <2>5 DEF Collision
    <3>2. Collision(rulesCall[a], rulesCall[b]) \subseteq rulesDirty
      BY <2>5 DEF RulesInv, CollideInv
    <3>3. QED
      BY <1>7, <3>1, <3>2
  <2>6. QED
    BY <2>1, <2>2, <2>3, <2>4, <2>5
<1>11. ForceInv'
  <2> SUFFICES ASSUME NEW u \in plugged \ rulesDirty PROVE ForceSound(u)'
    BY <1>1, <1>7 DEF ForceInv
  <2>1. ForceSound(u)
    BY DEF RulesInv, ForceInv
  <2>2. \A d \in RulesCallers : WorksOn(d, u)' <=> WorksOn(d, u)
    <3> TAKE d \in RulesCallers
    <3>1. CASE d = c
      BY <1>1, <1>2, <1>4, <3>1 DEF WorksOn, RulesAt
    <3>2. CASE d # c /\ d \notin others
      BY <1>9, <3>2 DEF WorksOn, RulesAt
    <3>3. CASE d \in others
      BY <1>5, <3>3 DEF WorksOn, RulesAt
    <3>4. QED
      BY <3>1, <3>2, <3>3
  <2>3. ASSUME NEW d \in RulesCallers, WorksOn(d, u)
        PROVE  Working(rulesCall'[d], file', inForce'[u], attached'[u])
    <3>1. d \in others
      BY <2>3 DEF WorksOn, RulesAt
    <3>2. Working(rulesCall[d], file, inForce[u], attached[u])
      BY <2>1, <2>3 DEF ForceSound
    <3>3. QED
      BY <1>1, <1>5, <3>1, <3>2 DEF Working
  <2>4. QED
    BY <1>1, <2>1, <2>2, <2>3 DEF ForceSound
<1>12. RulesAloneInv'
  <2> SUFFICES ASSUME others = {}
               PROVE  /\ \A d \in RulesCallers \ {c} : rulesCall'[d].pc = "idle"
                      /\ RulesStory(new, file, inForce, plugged)
    BY <1>1, <1>4 DEF RulesAloneInv, RulesAt
  <2>1. RulesStory(new, file, inForce, plugged)
    BY <1>2 DEF RulesStory
  <2>2. QED
    BY <1>9, <2>1
<1>13. QED
  BY <1>8, <1>10, <1>11, <1>12 DEF RulesInv

\* The parameters and the file are looked at.
LEMMA FileIsChecked ==
    ASSUME RulesInv, NEW c \in RulesCallers, CheckFile(c)
    PROVE  RulesInv'
<1> DEFINE r == rulesCall[c]
           refused == (file[r.name] # Absent) = (r.op = "Add")
<1>1. /\ r \in RuleCallRecord /\ RulesCallSound(r) /\ r.pc = "exist" /\ ~RulesAt(c, "idle") /\ ~RulesAt(c, "rule")
      /\ c \in rulesAlone => (RulesStory(r, file, inForce, plugged) /\ file[r.name] = r.before)
      /\ r.op # "Del" /\ r.name \in Names
      /\ UNCHANGED <<file, inForce, plugged, rulesCalls, rulesAlone, attached, rulesDirty>>
  BY RulesUnderWay DEF CheckFile, RulesAt, RulesStory, RulesPc, RulesCallSound
<1>2. ASSUME NEW answer \in RulesAnswers, RulesAnswer(c, answer),
             \/ refused /\ answer = "SYS_FAIL"
             \/ r.op \notin OnTaps /\ answer = "SYS_FAIL"
             \/ r.op \notin OnTaps /\ IsAcl(c) /\ ~r.legal /\ answer = "SYS_OK"
      PROVE  RulesInv'
  <2> DEFINE s == RulesReply(c, r, answer)
  <2>1. s \in RuleCallRecord /\ RulesCallSound(s) /\ s.pc = "idle" /\ RulesContinue(c, s)
    BY <1>1, <1>2, RulesReplyIs DEF RulesAnswer
  <2>2. ASSUME c \in rulesAlone PROVE RulesStory(s, file, inForce, plugged)
    <3>1. /\ s.pc = "idle" /\ s.ok = answer /\ s.op = r.op /\ s.name = r.name
          /\ s.legal = r.legal /\ s.before = r.before
      BY <1>1, <2>2, RulesReplyIs
    <3> HIDE DEF s
    <3>2. (r.op \in OnTaps /\ answer = "SYS_FAIL") => ~IsRules(file[r.name])
      BY <1>2 DEF OnTaps, IsRules
    <3>3. QED
      BY <1>1, <1>2, <2>2, <3>1, <3>2 DEF RulesStory, RulesAnswerTrue, OnTaps, IsAcl
  <2> HIDE DEF s
  <2>3. QED
    BY <1>1, <2>1, <2>2, QuietStep
<1>3. ASSUME NEW there \in {"ofport", "parse", "open"}, RulesGoto(c, there),
             (r.op \in OnTaps) = (there # "open")
      PROVE  RulesInv'
  <2> DEFINE s == [r EXCEPT !.pc = there]
  <2>1. /\ s \in RuleCallRecord /\ s.pc = there /\ s.op = r.op /\ s.name = r.name /\ s.tap = r.tap
        /\ s.before = r.before /\ s.content = r.content
    BY <1>1, <1>3 DEF RuleCallRecord, RulesPc
  <2>2. RulesContinue(c, s)
    BY <1>3 DEF RulesGoto
  <2> HIDE DEF s
  <2>3. RulesCallSound(s)
    BY <1>1, <1>3, <2>1 DEF RulesCallSound
  <2>4. c \in rulesAlone => RulesStory(s, file, inForce, plugged)
    BY <1>1, <1>3, <2>1 DEF RulesStory
  <2>5. QED
    BY <1>1, <1>3, <2>1, <2>2, <2>3, <2>4, QuietStep
<1>4. \/ refused /\ RulesAnswer(c, "SYS_FAIL")
      \/ r.op \in OnTaps /\ RulesGoto(c, IF IsAcl(c) THEN "ofport" ELSE "parse")
      \/ r.op \notin OnTaps /\ RulesGoto(c, "open")
      \/ r.op \notin OnTaps /\ RulesAnswer(c, "SYS_FAIL")
      \/ r.op \notin OnTaps /\ ~r.legal /\ IsAcl(c) /\ RulesAnswer(c, "SYS_OK")
  BY DEF CheckFile
<1>5. "SYS_FAIL" \in RulesAnswers /\ "SYS_OK" \in RulesAnswers
  BY DEF RulesAnswers
<1>6. QED
  BY <1>2, <1>3, <1>4, <1>5

\* The number of the port is read.
LEMMA OfportIsRead ==
    ASSUME RulesInv, NEW c \in RulesCallers, ReadOfport(c)
    PROVE  RulesInv'
<1> DEFINE r == rulesCall[c]
<1>1. /\ r \in RuleCallRecord /\ RulesCallSound(r) /\ r.pc = "ofport" /\ ~RulesAt(c, "idle") /\ ~RulesAt(c, "rule")
      /\ c \in rulesAlone => (RulesStory(r, file, inForce, plugged) /\ file[r.name] = r.before)
      /\ r.op \in OnTaps /\ r.name \in Names
      /\ UNCHANGED <<file, inForce, plugged, rulesCalls, rulesAlone, attached, rulesDirty>>
  BY RulesUnderWay DEF ReadOfport, RulesAt, RulesStory, RulesPc, RulesCallSound
<1>2. CASE r.tap \in plugged
  <2> DEFINE s == [r EXCEPT !.pc = "parse"]
  <2>1. /\ s \in RuleCallRecord /\ s.pc = "parse" /\ s.op = r.op /\ s.name = r.name
        /\ s.tap = r.tap /\ s.before = r.before /\ s.content = r.content
    BY <1>1 DEF RuleCallRecord, RulesPc
  <2>2. RulesContinue(c, s)
    BY <1>2 DEF ReadOfport, RulesGoto
  <2> HIDE DEF s
  <2>3. RulesCallSound(s) /\ (c \in rulesAlone => RulesStory(s, file, inForce, plugged))
    BY <1>1, <2>1 DEF RulesCallSound, RulesStory
  <2>4. QED
    BY <1>1, <2>1, <2>2, <2>3, QuietStep
<1>3. CASE r.tap \notin plugged
  <2> DEFINE s == RulesReply(c, r, "SYS_FAIL")
  <2>1. /\ s \in RuleCallRecord /\ RulesCallSound(s) /\ s.pc = "idle" /\ RulesContinue(c, s)
        /\ s.ok = "SYS_FAIL" /\ (c \in rulesAlone => s.op = r.op /\ s.tap = r.tap)
    BY <1>1, <1>3, RulesReplyIs DEF RulesAnswer, RulesAnswers, ReadOfport
  <2> HIDE DEF s
  <2>2. c \in rulesAlone => RulesStory(s, file, inForce, plugged)
    BY <1>1, <1>3, <2>1 DEF RulesStory, RulesAnswerTrue
  <2>3. QED
    BY <1>1, <2>1, <2>2, QuietStep
<1>4. QED
  BY <1>2, <1>3

\* Nobody else works on the port of an attach or detach, unless it is marked.
LEMMA AloneAtPort ==
    ASSUME RulesInv, NEW c \in RulesCallers, ~RulesAt(c, "idle"), rulesCall[c].op \in OnTaps,
           rulesCall[c].tap \notin rulesDirty, NEW d \in RulesCallers \ {c}
    PROVE  ~WorksOn(d, rulesCall[c].tap)
<1> SUFFICES ASSUME WorksOn(d, rulesCall[c].tap) PROVE FALSE
  OBVIOUS
<1>1. rulesCall[d].op \in OnTaps /\ ~RulesAt(d, "idle") /\ rulesCall[d].tap = rulesCall[c].tap
  BY RulesUnderWay DEF WorksOn, RulesAt, RulesCallSound
<1>2. Collision(rulesCall[c], rulesCall[d]) = {rulesCall[c].tap}
  BY <1>1 DEF Collision
<1>3. QED
  BY <1>1, <1>2 DEF RulesInv, CollideInv

\* The rules of the file are read.
LEMMA RulesAreRead ==
    ASSUME RulesInv, NEW c \in RulesCallers, Parse(c)
    PROVE  RulesInv'
<1> DEFINE r == rulesCall[c]
           rules == file[r.name]
<1>1. /\ r \in RuleCallRecord /\ RulesCallSound(r) /\ r.pc = "parse" /\ ~RulesAt(c, "idle") /\ ~RulesAt(c, "rule")
      /\ c \in rulesAlone => (RulesStory(r, file, inForce, plugged) /\ file[r.name] = r.before)
      /\ r.op \in OnTaps /\ r.name \in Names /\ rules \in Contents(r.name) \cup {Absent, Torn}
      /\ UNCHANGED <<file, inForce, plugged, rulesCalls, rulesAlone, attached, rulesDirty>>
  BY RulesUnderWay DEF Parse, RulesAt, RulesStory, RulesPc, RulesCallSound
<1>2. CASE ~IsRules(rules)
  <2> DEFINE s == RulesReply(c, r, "SYS_FAIL")
  <2>1. /\ s \in RuleCallRecord /\ RulesCallSound(s) /\ s.pc = "idle" /\ RulesContinue(c, s)
        /\ s.ok = "SYS_FAIL" /\ (c \in rulesAlone => s.op = r.op /\ s.name = r.name)
    BY <1>1, <1>2, RulesReplyIs DEF RulesAnswer, RulesAnswers, Parse
  <2> HIDE DEF s
  <2>2. c \in rulesAlone => RulesStory(s, file, inForce, plugged)
    BY <1>1, <1>2, <2>1 DEF RulesStory, RulesAnswerTrue
  <2>3. QED
    BY <1>1, <2>1, <2>2, QuietStep
<1>3. CASE IsRules(rules)
  <2> DEFINE s == [r EXCEPT !.pc = "rule", !.todo = rules]
  <2>1. rules \in Seq(Commanded) /\ \A i \in DOMAIN rules : rules[i] # "queue"
    BY <1>1, <1>3, RulesAreCommands
  <2>2. /\ s \in RuleCallRecord /\ s.pc = "rule" /\ s.op = r.op /\ s.name = r.name
        /\ s.tap = r.tap /\ s.before = r.before /\ s.content = r.content /\ s.todo = rules
    BY <1>1, <2>1 DEF RuleCallRecord, RulesPc
  <2>3. RulesContinue(c, s)
    BY <1>3 DEF Parse
  <2> HIDE DEF s
  <2>4. RulesCallSound(s)
    BY <1>1, <2>1, <2>2 DEF RulesCallSound, OnTaps
  <2>5. ASSUME c \in rulesAlone PROVE RulesStory(s, file, inForce, plugged)
    BY <1>1, <2>2, <2>5 DEF RulesStory
  <2>6. ASSUME NEW t \in plugged \ rulesDirty, t # r.tap PROVE ForceSound(t)'
    BY <1>1, <2>2, <2>3, <2>6, ForceStays DEF WorksOn
  <2>7. ASSUME NEW t \in plugged \ rulesDirty, t = r.tap PROVE ForceSound(t)'
    <3>1. \A d \in RulesCallers : ~WorksOn(d, t)
      BY <1>1, <2>7, AloneAtPort DEF WorksOn
    <3>2. ForceSound(t)
      BY DEF RulesInv, ForceInv
    <3>3. Agree(inForce[t], DueOf(file, attached[t]))
      BY <3>1, <3>2 DEF ForceSound
    <3>4. /\ DueOf(file, attached[t] \ {r.name}) \subseteq DueOf(file, attached[t])
          /\ DueOf(file, attached[t])
                \subseteq DueOf(file, attached[t] \ {r.name}) \cup InForceBy(rules)
      BY DEF DueOf
    <3>5. Working(s, file, inForce[t], attached[t])
      BY <1>3, <2>2, <3>3, <3>4 DEF Working, Agree
    <3>6. rulesCall'[c] = s /\ \A d \in RulesCallers \ {c} : rulesCall'[d] = rulesCall[d]
      BY <2>3, RulesUnderWay DEF RulesContinue
    <3>7. \A d \in RulesCallers \ {c} : ~WorksOn(d, t)'
      BY <3>1, <3>6 DEF WorksOn, RulesAt
    <3>8. WorksOn(c, t)'
      BY <2>2, <2>7, <3>6 DEF WorksOn, RulesAt
    <3>9. QED
      BY <1>1, <3>2, <3>5, <3>6, <3>7, <3>8 DEF ForceSound
  <2>8. ForceInv'
    BY <1>1, <2>6, <2>7 DEF ForceInv
  <2>9. RulesTyped
    BY DEF RulesInv
  <2>10. QED
    BY <1>1, <2>2, <2>3, <2>4, <2>5, <2>8, <2>9, RulesCallStep DEF RulesTyped
<1>4. QED
  BY <1>2, <1>3

\* A call that has given the first of its commands, or goes on without it.
LEMMA NextCommand ==
    ASSUME RulesInv, NEW c \in RulesCallers, RulesAt(c, "rule"), rulesCall[c].todo # <<>>
    PROVE  /\ Rest(rulesCall[c]) \in Seq(Commanded)
           /\ \A s \in RuleCallRecord :
                (/\ s.pc = "rule" /\ s.todo = Rest(rulesCall[c]) /\ s.before = rulesCall[c].before
                 /\ s.op = rulesCall[c].op /\ s.name = rulesCall[c].name)
                => /\ RulesCallSound(s)
                   /\ c \in rulesAlone =>
                        /\ file[s.name] = s.before
                        /\ \A i \in DOMAIN s.todo : s.todo[i] = Everything
                              => \E j \in DOMAIN s.before : s.before[j] = Everything
<1> DEFINE r == rulesCall[c]
<1>1. /\ r \in RuleCallRecord /\ RulesCallSound(r) /\ r.todo \in Seq(Commanded) /\ r.pc = "rule"
      /\ c \in rulesAlone => RulesStory(r, file, inForce, plugged)
  BY RulesUnderWay DEF RuleCallRecord, RulesAt
<1>2. /\ Rest(r) \in Seq(Commanded)
      /\ \A i \in DOMAIN Rest(r) : \/ Rest(r)[i] = "queue" /\ r.op = "Attach"
                                   \/ \E j \in DOMAIN r.todo : Rest(r)[i] = r.todo[j]
  BY <1>1, RestOfRules
<1>3. ASSUME NEW s \in RuleCallRecord, s.pc = "rule", s.todo = Rest(r), s.before = r.before,
             s.op = r.op, s.name = r.name
      PROVE  RulesCallSound(s)
  BY <1>1, <1>2, <1>3 DEF RulesCallSound, OnTaps
<1>4. ASSUME c \in rulesAlone
      PROVE  /\ file[r.name] = r.before
             /\ \A i \in DOMAIN Rest(r) : Rest(r)[i] = Everything
                   => \E j \in DOMAIN r.before : r.before[j] = Everything
  <2>1. /\ file[r.name] = r.before
        /\ \A i \in DOMAIN r.todo :
              r.todo[i] = Everything => \E j \in DOMAIN r.before : r.before[j] = Everything
    BY <1>1, <1>4 DEF RulesStory, RulesPc
  <2>2. "queue" # Everything
    BY DEF Everything
  <2>3. QED
    BY <1>2, <2>1, <2>2
<1>5. QED
  BY <1>2, <1>3, <1>4

LEMMA RuleIsRun ==
    ASSUME RulesInv, NEW c \in RulesCallers, RunRule(c)
    PROVE  RulesInv'
<1> DEFINE r == rulesCall[c]
           step == Head(r.todo)
           s == [r EXCEPT !.todo = Rest(r)]
<1>1. /\ r \in RuleCallRecord /\ RulesCallSound(r) /\ r.todo \in Seq(Commanded) /\ r.pc = "rule"
      /\ c \in rulesAlone => RulesStory(r, file, inForce, plugged)
      /\ RulesAt(c, "rule") /\ ~RulesAt(c, "idle") /\ r.todo # <<>> /\ r.op \in OnTaps
      /\ r.tap \in Taps /\ r.failed \in BOOLEAN
      /\ RulesContinue(c, s)
      /\ UNCHANGED <<file, plugged, rulesCalls, rulesAlone, attached, rulesDirty>>
      /\ inForce' = IF r.tap \notin plugged THEN inForce
                    ELSE [inForce EXCEPT ![r.tap] =
                            IF r.op = "Attach" THEN inForce[r.tap] \cup Effect(step)
                            ELSE inForce[r.tap] \ Deletes(step)]
  BY RulesUnderWay DEF RunRule, RulesAt, RulesCallSound, RuleCallRecord
<1>2. /\ step \in Commanded
      /\ InForceBy(Rest(r)) \subseteq InForceBy(r.todo)
      /\ Effect(step) \subseteq InForceBy(r.todo)
      /\ r.op = "Attach" => InForceBy(r.todo) = Effect(step) \cup InForceBy(Rest(r))
      /\ InForceBy(r.todo) \subseteq Effect(step) \cup InForceBy(Rest(r)) \cup {"queue"}
  BY <1>1, RestOfRules
<1>3. /\ Effect(step) \subseteq Items
      /\ r.op = "Detach" => /\ Effect(step) \subseteq Deletes(step)
                            /\ Deletes(step) \subseteq Items
                            /\ Deletes(step) \cup DeletedBy(Rest(r)) \subseteq DeletedBy(r.todo)
  BY <1>1, <1>2, PartsAreItems, RestClears
<1>4. RulesTyped
  BY DEF RulesInv
<1>5. s = [r EXCEPT !.todo = Rest(r)]
  OBVIOUS
<1> HIDE DEF s
<1>6. /\ s \in RuleCallRecord /\ RulesCallSound(s) /\ s.pc = "rule" /\ s.todo = Rest(r)
      /\ s.op = r.op /\ s.name = r.name /\ s.tap = r.tap
      /\ s.before = r.before /\ s.failed = r.failed
      /\ c \in rulesAlone =>
           /\ file[s.name] = s.before
           /\ \A i \in DOMAIN s.todo :
                 s.todo[i] = Everything => \E j \in DOMAIN s.before : s.before[j] = Everything
  <2>1. Rest(r) \in Seq(Commanded)
    BY <1>1, NextCommand
  <2>2. /\ s \in RuleCallRecord /\ s.pc = "rule" /\ s.todo = Rest(r) /\ s.before = r.before
        /\ s.op = r.op /\ s.name = r.name /\ s.tap = r.tap /\ s.failed = r.failed
    BY <1>1, <1>5, <2>1 DEF RuleCallRecord
  <2>3. QED
    BY <1>1, <2>2, NextCommand
<1>7. /\ inForce' \in [Taps -> SUBSET Items]
      /\ \A t \in Taps : t # r.tap => inForce'[t] = inForce[t]
      /\ r.tap \in plugged =>
           inForce'[r.tap] = IF r.op = "Attach" THEN inForce[r.tap] \cup Effect(step)
                             ELSE inForce[r.tap] \ Deletes(step)
  <2> DEFINE now == IF r.op = "Attach" THEN inForce[r.tap] \cup Effect(step)
                    ELSE inForce[r.tap] \ Deletes(step)
  <2>1. now \in SUBSET Items
    BY <1>1, <1>3, <1>4 DEF RulesTyped
  <2>2. inForce' = IF r.tap \notin plugged THEN inForce ELSE [inForce EXCEPT ![r.tap] = now]
    BY <1>1
  <2>3. inForce \in [Taps -> SUBSET Items]
    BY <1>4 DEF RulesTyped
  <2>4. r.tap \in plugged => inForce'[r.tap] = now
    BY <1>1, <2>2, <2>3
  <2>5. inForce' \in [Taps -> SUBSET Items] /\ \A t \in Taps : t # r.tap => inForce'[t] = inForce[t]
    <3> HIDE DEF now
    <3>1. QED
      BY <1>1, <2>1, <2>2, <2>3
  <2>6. QED
    BY <2>4, <2>5
<1>8. ASSUME NEW t \in plugged \ rulesDirty, t # r.tap PROVE ForceSound(t)'
  <2>1. t \in Taps
    BY <1>4 DEF RulesTyped
  <2>2. QED
    BY <1>1, <1>6, <1>7, <1>8, <2>1, ForceStays DEF WorksOn
<1>9. ASSUME NEW t \in plugged \ rulesDirty, t = r.tap PROVE ForceSound(t)'
  <2>1. \A d \in RulesCallers \ {c} : ~WorksOn(d, r.tap)
    BY <1>1, <1>9, AloneAtPort
  <2>2. ForceSound(r.tap)
    BY <1>9 DEF RulesInv, ForceInv
  <2>3. Working(r, file, inForce[r.tap], attached[r.tap])
    BY <1>1, <2>2 DEF ForceSound, WorksOn
  <2>4. rulesCall'[c] = s /\ \A d \in RulesCallers \ {c} : rulesCall'[d] = rulesCall[d]
    BY <1>1, RulesUnderWay DEF RulesContinue
  <2>5. Working(s, file, inForce'[r.tap], attached[r.tap])
    <3> DEFINE rules == InForceBy(file[r.name])
               A == attached[r.tap]
               due == DueOf(file, A)
               others == DueOf(file, A \ {r.name})
               now == inForce[r.tap]
               left == InForceBy(Rest(r))
               todo == InForceBy(r.todo)
               reach == DeletedBy(file[r.name])
    <3>1. /\ IsRules(file[r.name]) /\ todo \subseteq rules
          /\ r.op = "Attach" => /\ due \subseteq now
                                /\ now \subseteq due \cup rules \cup {"queue"}
                                /\ rules \subseteq now \cup todo
          /\ r.op = "Detach" => DeletedBy(r.todo) \subseteq reach
          /\ (r.op = "Detach" /\ others \cap reach = {})
             => /\ others \subseteq now
                /\ now \subseteq others \cup todo \cup {"queue"}
      BY <2>3 DEF Working
    <3>2. r.op = "Attach" => inForce'[r.tap] = now \cup Effect(step)
      BY <1>7, <1>9
    <3>3. r.op = "Detach" => /\ inForce'[r.tap] = now \ Deletes(step)
                             /\ Effect(step) \subseteq Deletes(step)
                             /\ Deletes(step) \cup DeletedBy(Rest(r)) \subseteq DeletedBy(r.todo)
      BY <1>3, <1>7, <1>9
    <3>4. /\ left \subseteq todo /\ Effect(step) \subseteq todo
          /\ r.op = "Attach" => todo = Effect(step) \cup left
          /\ todo \subseteq Effect(step) \cup left \cup {"queue"}
      BY <1>2
    <3> HIDE DEF rules, due, others, now, left, todo, reach
    <3>5. /\ left \subseteq rules
          /\ r.op = "Detach" => DeletedBy(Rest(r)) \subseteq reach
          /\ r.op = "Attach" => /\ due \subseteq inForce'[r.tap]
                                /\ inForce'[r.tap] \subseteq due \cup rules \cup {"queue"}
                                /\ rules \subseteq inForce'[r.tap] \cup left
          /\ (r.op = "Detach" /\ others \cap reach = {})
             => /\ others \subseteq inForce'[r.tap]
                /\ inForce'[r.tap] \subseteq others \cup left \cup {"queue"}
      BY <3>1, <3>2, <3>3, <3>4
    <3>6. QED
      BY <1>6, <3>1, <3>5 DEF Working, rules, due, others, left, reach
  <2>6. (\A d \in RulesCallers \ {c} : ~WorksOn(d, t)') /\ WorksOn(c, t)'
    BY <1>6, <1>9, <2>1, <2>4 DEF WorksOn, RulesAt
  <2>7. QED
    BY <1>1, <1>9, <2>2, <2>4, <2>5, <2>6 DEF ForceSound
<1>10. ForceInv'
  BY <1>1, <1>8, <1>9 DEF ForceInv
<1>11. ASSUME c \in rulesAlone PROVE RulesStory(s, file', inForce', plugged)
  <2>1. r.op = "Attach" => \/ InForceBy(r.before) \subseteq inForce[r.tap] \cup InForceBy(r.todo)
                           \/ r.tap \notin plugged
                           \/ r.name \in Filters /\ r.failed
    BY <1>1, <1>11 DEF RulesStory
  <2>2. r.op = "Attach" => \/ InForceBy(r.before) \subseteq inForce'[r.tap] \cup InForceBy(Rest(r))
                           \/ r.tap \notin plugged
                           \/ r.name \in Filters /\ r.failed
    BY <1>2, <1>7, <2>1
  <2>3. QED
    BY <1>1, <1>6, <1>11, <2>2 DEF RulesStory
<1>12. QED
  BY <1>1, <1>4, <1>6, <1>7, <1>10, <1>11, RulesCallStep DEF RulesTyped

\* A rule raises: the call ends, and marks its port.
LEMMA RulesRaise ==
    ASSUME RulesInv, NEW c \in RulesCallers, RuleRaises(c)
    PROVE  RulesInv'
<1> DEFINE r == rulesCall[c]
           s == RulesReply(c, r, "SYS_FAIL")
<1>1. /\ r \in RuleCallRecord /\ RulesCallSound(r) /\ r.todo \in Seq(Commanded) /\ r.pc = "rule"
      /\ c \in rulesAlone => RulesStory(r, file, inForce, plugged)
      /\ ~RulesAt(c, "idle") /\ r.todo # <<>> /\ r.op \in OnTaps /\ r.tap \in Taps
      /\ \/ r.op = "Attach" /\ Head(r.todo) = Everything
         \/ r.tap \notin plugged
      /\ rulesDirty' = rulesDirty \cup {r.tap}
      /\ UNCHANGED <<file, inForce, plugged, rulesCalls, rulesAlone, attached>>
  BY RulesUnderWay DEF RuleRaises, RulesAt, RulesCallSound, RuleCallRecord
<1>2. /\ s \in RuleCallRecord /\ RulesCallSound(s) /\ s.pc = "idle" /\ RulesContinue(c, s) /\ s.ok = "SYS_FAIL"
      /\ c \in rulesAlone => (s.op = r.op /\ s.name = r.name /\ s.tap = r.tap)
  BY <1>1, RulesReplyIs DEF RulesAnswer, RulesAnswers, RuleRaises
<1> HIDE DEF s
<1>3. ASSUME NEW t \in plugged \ rulesDirty, t # r.tap PROVE ForceSound(t)'
  BY <1>1, <1>2, <1>3, ForceStays DEF WorksOn
<1>4. ForceInv'
  BY <1>1, <1>3 DEF ForceInv
<1>5. ASSUME c \in rulesAlone PROVE RulesStory(s, file, inForce, plugged)
  <2>1. /\ file[r.name] = r.before
        /\ \A i \in DOMAIN r.todo :
              r.todo[i] = Everything => \E j \in DOMAIN r.before : r.before[j] = Everything
    BY <1>1, <1>5 DEF RulesStory, RulesPc
  <2>2. \E i \in DOMAIN r.todo : Head(r.todo) = r.todo[i]
    BY <1>1, RestOfRules
  <2>3. (r.op = "Attach" /\ \E i \in DOMAIN file[r.name] : file[r.name][i] = Everything)
        \/ r.tap \notin plugged
    BY <1>1, <2>1, <2>2
  <2>4. QED
    BY <1>1, <1>2, <1>5, <2>3 DEF RulesStory, RulesAnswerTrue
<1>6. RulesTyped
  BY DEF RulesInv
<1>7. QED
  BY <1>1, <1>2, <1>4, <1>5, <1>6, RulesCallStep DEF RulesTyped

\* All commands have been given.
LEMMA AttachedOrDetached ==
    ASSUME RulesInv, NEW c \in RulesCallers, Attached(c)
    PROVE  RulesInv'
<1> DEFINE r == rulesCall[c]
           s == RulesReply(c, r, "SYS_OK")
           own == attached[r.tap] \ {r.name}
           touched == IF r.op = "Attach" THEN InForceBy(file[r.name]) ELSE DeletedBy(file[r.name])
           overlap == /\ IsRules(file[r.name])
                      /\ \E n \in own : /\ IsRules(file[n])
                                        /\ InForceBy(file[n]) \cap touched # {}
           now == IF r.op = "Attach" THEN attached[r.tap] \cup {r.name} ELSE own
<1>1. /\ r \in RuleCallRecord /\ RulesCallSound(r) /\ r.pc = "rule" /\ r.todo = <<>>
      /\ c \in rulesAlone => RulesStory(r, file, inForce, plugged)
      /\ RulesAt(c, "rule") /\ ~RulesAt(c, "idle") /\ r.op \in OnTaps /\ r.tap \in Taps /\ r.name \in Names
      /\ attached' = [attached EXCEPT ![r.tap] = now]
      /\ rulesDirty' = IF overlap THEN rulesDirty \cup {r.tap} ELSE rulesDirty
      /\ UNCHANGED <<file, inForce, plugged, rulesCalls, rulesAlone>>
  BY RulesUnderWay DEF Attached, RulesAt, RulesCallSound, RuleCallRecord
<1>2. /\ s \in RuleCallRecord /\ RulesCallSound(s) /\ s.pc = "idle" /\ RulesContinue(c, s) /\ s.ok = "SYS_OK"
      /\ c \in rulesAlone => (s.op = r.op /\ s.tap = r.tap /\ s.before = r.before
                          /\ s.name = r.name /\ s.failed = r.failed)
  BY <1>1, RulesReplyIs DEF RulesAnswer, RulesAnswers, Attached
<1>3. RulesTyped
  BY DEF RulesInv
<1> HIDE DEF s
<1>4. /\ attached' \in [Taps -> SUBSET Names] /\ attached'[r.tap] = now
      /\ \A t \in Taps : t # r.tap => attached'[t] = attached[t]
  <2>1. now \in SUBSET Names
    BY <1>1, <1>3 DEF RulesTyped
  <2> HIDE DEF now
  <2>2. QED
    BY <1>1, <1>3, <2>1 DEF RulesTyped
<1>5. rulesDirty \subseteq rulesDirty' /\ rulesDirty' \subseteq Taps /\ (overlap => r.tap \in rulesDirty')
  <2> HIDE DEF overlap
  <2>1. QED
    BY <1>1, <1>3 DEF RulesTyped
<1>6. ASSUME NEW t \in plugged \ rulesDirty, t # r.tap PROVE ForceSound(t)'
  <2>1. t \in Taps
    BY <1>3 DEF RulesTyped
  <2>2. QED
    BY <1>1, <1>2, <1>4, <1>6, <2>1, ForceStays DEF WorksOn
<1>7. ASSUME NEW t \in plugged \ rulesDirty', t = r.tap PROVE ForceSound(t)'
  <2> DEFINE A == attached[t]
             rules == InForceBy(file[r.name])
             due == DueOf(file, A)
             others == DueOf(file, A \ {r.name})
             reach == DeletedBy(file[r.name])
  <2>1. t \in plugged \ rulesDirty
    BY <1>5
  <2>2. ForceSound(t)
    BY <2>1 DEF RulesInv, ForceInv
  <2>3. Working(r, file, inForce[t], A) /\ InForceBy(r.todo) = {}
    BY <1>1, <1>7, <2>2, NothingInForce DEF ForceSound, WorksOn
  <2>4. r.op = "Detach" => \A n \in own : InForceBy(file[n]) \cap reach = {}
    BY <1>5, <1>7, <2>2, <2>3 DEF ForceSound, Working
  <2>5. r.op = "Detach" => others \cap reach = {}
    BY <1>7, <2>4 DEF DueOf
  <2>6. DueOf(file, A \cup {r.name}) = due \cup rules
    BY DEF DueOf
  <2>7. Agree(inForce[t], DueOf(file, now))
    <3>1. CASE r.op = "Attach"
      <4>1. now = A \cup {r.name}
        BY <1>7, <3>1
      <4>2. QED
        BY <2>3, <2>6, <3>1, <4>1 DEF Working, Agree
    <3>2. CASE r.op = "Detach"
      <4>1. now = A \ {r.name}
        BY <1>7, <3>2
      <4>2. QED
        BY <2>3, <2>5, <3>2, <4>1 DEF Working, Agree
    <3>3. QED
      BY <1>1, <3>1, <3>2 DEF OnTaps
  <2>8. \A n \in now : IsRules(file[n])
    BY <1>7, <2>2, <2>3 DEF ForceSound, Working
  <2>9. rulesCall'[c] = s /\ \A d \in RulesCallers \ {c} : rulesCall'[d] = rulesCall[d]
    BY <1>2, RulesUnderWay DEF RulesContinue
  <2>10. \A d \in RulesCallers \ {c} : ~WorksOn(d, t)
    BY <1>1, <1>7, <2>1, AloneAtPort
  <2>11. \A d \in RulesCallers : ~WorksOn(d, t)'
    BY <1>2, <2>9, <2>10 DEF WorksOn, RulesAt
  <2>12. inForce'[t] = inForce[t] /\ attached'[t] = now /\ file' = file
    BY <1>1, <1>4, <1>7
  <2> HIDE DEF now
  <2>13. QED
    BY <2>7, <2>8, <2>11, <2>12 DEF ForceSound
<1>8. ForceInv'
  <2> SUFFICES ASSUME NEW t \in plugged \ rulesDirty' PROVE ForceSound(t)'
    BY <1>1 DEF ForceInv
  <2>1. t \in plugged \ rulesDirty
    BY <1>5
  <2>2. QED
    BY <1>6, <1>7, <2>1
<1>9. ASSUME c \in rulesAlone PROVE RulesStory(s, file, inForce, plugged)
  BY <1>1, <1>2, <1>9, NothingInForce DEF RulesStory, RulesAnswerTrue, OnTaps
<1>10. QED
  BY <1>1, <1>2, <1>3, <1>4, <1>5, <1>8, <1>9, RulesCallStep DEF RulesTyped

\* A file changes: no port it is attached to stays unmarked, and nobody who works
\* on an unmarked port works from it.
LEMMA FileChanges ==
    ASSUME RulesInv, NEW c \in RulesCallers, rulesCall[c].pc \in {"open", "write"},
           NEW r \in RuleCallRecord, RulesCallSound(r), RulesContinue(c, r), r.pc \in {"idle", "write"},
           r.pc = "idle" \/ /\ r.op = rulesCall[c].op /\ r.name = rulesCall[c].name
                            /\ r.tap = rulesCall[c].tap,
           NEW v \in Contents(rulesCall[c].name) \cup {Absent, Torn},
           file' = [file EXCEPT ![rulesCall[c].name] = v],
           rulesDirty' = rulesDirty \/ rulesDirty' = Changed(rulesCall[c].name),
           rulesDirty' = rulesDirty => file[rulesCall[c].name] = Absent \/ rulesDirty = Changed(rulesCall[c].name),
           UNCHANGED <<inForce, plugged, rulesCalls, rulesAlone, attached>>,
           c \in rulesAlone => RulesStory(r, file', inForce, plugged)
    PROVE  RulesInv'
<1> DEFINE n == rulesCall[c].name
<1>1. RulesTyped
  BY DEF RulesInv
<1>2. /\ ~RulesAt(c, "idle") /\ ~RulesAt(c, "rule") /\ n \in Names /\ rulesCall[c].op \notin OnTaps
  BY RulesUnderWay DEF RulesAt, RulesCallSound
<1>3. /\ \A m \in Names : m # n => file'[m] = file[m]
      /\ file' \in [Names -> AnyFile]
      /\ \A m \in Names : file'[m] \in Contents(m) \cup {Absent, Torn}
  <2>1. v \in AnyFile
    BY DEF Contents, AnyFile
  <2>2. QED
    BY <1>1, <1>2, <2>1 DEF RulesTyped
<1>4. rulesDirty \subseteq rulesDirty' /\ rulesDirty' \subseteq Taps
  BY <1>1 DEF RulesTyped, Changed
<1>5. ASSUME NEW t \in plugged \ rulesDirty' PROVE ForceSound(t)'
  <2>1. t \in plugged \ rulesDirty /\ t \in Taps
    BY <1>1, <1>4 DEF RulesTyped
  <2>2. ForceSound(t)
    BY <2>1 DEF RulesInv, ForceInv
  <2>3. n \notin attached[t]
    <3>1. CASE file[n] = Absent
      BY <2>2, <3>1 DEF ForceSound, IsRules
    <3>2. CASE rulesDirty' = Changed(n)
      BY <2>1, <3>2 DEF Changed
    <3>3. QED
      BY <3>1, <3>2
  <2>4. \A m \in attached[t] : file'[m] = file[m]
    BY <1>1, <1>3, <2>1, <2>3 DEF RulesTyped
  <2>5. ASSUME NEW d \in RulesCallers \ {c}, WorksOn(d, t)
        PROVE  file'[rulesCall[d].name] = file[rulesCall[d].name]
    <3>1. /\ rulesCall[d].op \in OnTaps /\ ~RulesAt(d, "idle") /\ rulesCall[d].tap = t
          /\ rulesCall[d].name \in Names
      BY <2>5, RulesUnderWay DEF WorksOn, RulesAt, RulesCallSound
    <3>2. rulesCall[d].name # n
      <4> SUFFICES ASSUME rulesCall[d].name = n PROVE FALSE
        OBVIOUS
      <4>1. Collision(rulesCall[d], rulesCall[c]) = {t}
        BY <3>1 DEF Collision
      <4>2. QED
        BY <1>2, <2>1, <3>1, <4>1 DEF RulesInv, CollideInv
    <3>3. QED
      BY <1>3, <3>1, <3>2
  <2>6. QED
    BY <1>2, <2>1, <2>4, <2>5, ForceStays DEF WorksOn
<1>6. ForceInv'
  BY <1>5 DEF ForceInv
<1>7. QED
  BY <1>1, <1>2, <1>3, <1>4, <1>6, RulesCallStep DEF RulesTyped

\* tree.write opens the file, or the file is removed.
LEMMA FileIsOpened ==
    ASSUME RulesInv, NEW c \in RulesCallers, OpenFile(c)
    PROVE  RulesInv'
<1> DEFINE r == rulesCall[c]
           there == file[r.name] # Absent
           v == IF r.op = "Del" THEN Absent ELSE Torn
<1>1. /\ r \in RuleCallRecord /\ RulesCallSound(r) /\ r.pc = "open" /\ r.op \notin OnTaps
      /\ c \in rulesAlone => (RulesStory(r, file, inForce, plugged) /\ file[r.name] = r.before)
      /\ r.name \in Names
      /\ file' = [file EXCEPT ![r.name] = v]
      /\ rulesDirty' = IF there THEN Changed(r.name) ELSE rulesDirty
      /\ UNCHANGED <<inForce, plugged, rulesCalls, rulesAlone, attached>>
  BY RulesUnderWay DEF OpenFile, RulesAt, RulesStory, RulesPc, RulesCallSound
<1>2. v \in Contents(r.name) \cup {Absent, Torn}
  OBVIOUS
<1>3. file'[r.name] = v
  <2> HIDE DEF v
  <2>1. QED
    BY <1>1 DEF RulesInv, RulesTyped
<1>4. /\ rulesDirty' = rulesDirty \/ rulesDirty' = Changed(r.name)
      /\ rulesDirty' = rulesDirty => (~there \/ rulesDirty = Changed(r.name))
  BY <1>1
<1>5. CASE r.op # "Del"
  <2> DEFINE s == [r EXCEPT !.pc = "write"]
  <2>1. /\ s \in RuleCallRecord /\ s.pc = "write" /\ s.op = r.op /\ s.name = r.name
        /\ s.tap = r.tap /\ s.content = r.content
    BY <1>1 DEF RuleCallRecord, RulesPc
  <2>2. RulesContinue(c, s)
    BY <1>5 DEF OpenFile, RulesGoto
  <2> HIDE DEF s
  <2>3. RulesCallSound(s)
    BY <1>1, <1>5, <2>1 DEF RulesCallSound
  <2>4. c \in rulesAlone => RulesStory(s, file', inForce, plugged)
    BY <1>3, <1>5, <2>1 DEF RulesStory
  <2> HIDE DEF v
  <2>5. QED
    BY <1>1, <1>2, <1>4, <2>1, <2>2, <2>3, <2>4, FileChanges
<1>6. CASE r.op = "Del"
  <2> DEFINE answer == IF there THEN "SYS_OK" ELSE "SYS_FAIL"
             s == RulesReply(c, r, answer)
  <2>1. answer \in RulesAnswers /\ (answer = "SYS_FAIL" => file[r.name] = Absent)
    BY DEF RulesAnswers
  <2>2. RulesAnswer(c, answer)
    BY <1>6 DEF OpenFile
  <2> HIDE DEF answer
  <2>3. /\ s \in RuleCallRecord /\ RulesCallSound(s) /\ s.pc = "idle" /\ RulesContinue(c, s) /\ s.ok = answer
        /\ c \in rulesAlone => (s.op = r.op /\ s.name = r.name /\ s.before = r.before)
    BY <1>1, <2>1, <2>2, RulesReplyIs DEF RulesAnswer
  <2> HIDE DEF s
  <2>4. ASSUME c \in rulesAlone PROVE RulesStory(s, file', inForce, plugged)
    <3>1. file'[r.name] = Absent
      BY <1>3, <1>6
    <3>2. QED
      BY <1>1, <1>6, <2>1, <2>3, <2>4, <3>1 DEF RulesStory, RulesAnswerTrue, OnTaps
  <2> HIDE DEF v
  <2>5. QED
    BY <1>1, <1>2, <1>4, <2>3, <2>4, FileChanges
<1>7. QED
  BY <1>5, <1>6

\* tree.write writes the file.
LEMMA FileIsWritten ==
    ASSUME RulesInv, NEW c \in RulesCallers, WriteFile(c)
    PROVE  RulesInv'
<1> DEFINE r == rulesCall[c]
           v == IF file[r.name] = Absent THEN file[r.name] ELSE r.content
           s == RulesReply(c, r, "SYS_OK")
<1>1. /\ r \in RuleCallRecord /\ RulesCallSound(r) /\ r.pc = "write" /\ r.op \notin OnTaps /\ r.op # "Del"
      /\ c \in rulesAlone => file[r.name] = Torn
      /\ r.name \in Names
      /\ file' = [file EXCEPT ![r.name] = v]
      /\ rulesDirty' = Changed(r.name)
      /\ UNCHANGED <<inForce, plugged, rulesCalls, rulesAlone, attached>>
  BY RulesUnderWay DEF WriteFile, RulesAt, RulesStory, RulesPc, RulesCallSound
<1>2. /\ s \in RuleCallRecord /\ RulesCallSound(s) /\ s.pc = "idle" /\ RulesContinue(c, s) /\ s.ok = "SYS_OK"
      /\ c \in rulesAlone => (s.op = r.op /\ s.name = r.name /\ s.content = r.content)
  BY <1>1, RulesReplyIs DEF RulesAnswer, RulesAnswers, WriteFile
<1> HIDE DEF s
<1>3. v \in Contents(r.name) \cup {Absent, Torn}
  BY <1>1 DEF RulesCallSound, RuleCallRecord, Ops, OnTaps
<1>4. file'[r.name] = v
  <2> HIDE DEF v
  <2>1. QED
    BY <1>1 DEF RulesInv, RulesTyped
<1>5. ASSUME c \in rulesAlone PROVE RulesStory(s, file', inForce, plugged)
  <2>1. file'[r.name] = r.content
    BY <1>1, <1>4, <1>5 DEF Torn, Absent
  <2>2. QED
    BY <1>1, <1>2, <1>5, <2>1 DEF RulesStory, RulesAnswerTrue, OnTaps
<1> HIDE DEF v
<1>6. QED
  BY <1>1, <1>2, <1>3, <1>5, FileChanges

\* A command or a write fails, and the call ends or goes on without it.
LEMMA CallsFail ==
    ASSUME RulesInv, NEW c \in RulesCallers, RulesFail(c)
    PROVE  RulesInv'
<1> DEFINE r == [rulesCall[c] EXCEPT !.failed = TRUE]
           ignored == IsAcl(c) /\ r.pc \in {"rule", "open", "write"} /\ r.op # "Del"
           s == [r EXCEPT !.todo = Rest(r)]
           answer == IF ignored THEN "SYS_OK" ELSE "SYS_FAIL"
           e == RulesReply(c, r, answer)
<1>1. /\ rulesCall[c] \in RuleCallRecord /\ RulesCallSound(rulesCall[c])
      /\ c \in rulesAlone => RulesStory(rulesCall[c], file, inForce, plugged)
  BY RulesUnderWay
<1>2. /\ r \in RuleCallRecord /\ r.pc = rulesCall[c].pc /\ r.op = rulesCall[c].op /\ r.name = rulesCall[c].name
      /\ r.tap = rulesCall[c].tap /\ r.before = rulesCall[c].before /\ r.failed = TRUE
  BY <1>1 DEF RuleCallRecord
<1>3. /\ r.pc \in {"exist", "ofport", "rule", "open", "write"}
      /\ r.pc = "exist" => r.op \in OnTaps
      /\ r.pc = "rule" => r.todo # <<>>
      /\ rulesDirty' = IF r.pc = "rule" THEN rulesDirty \cup {r.tap} ELSE rulesDirty
      /\ UNCHANGED <<file, inForce, plugged, rulesCalls, rulesAlone, attached>>
  BY DEF RulesFail
<1>4. \/ ignored /\ r.pc = "rule" /\ RulesContinue(c, s)
      \/ ~(ignored /\ r.pc = "rule") /\ RulesContinue(c, e)
  BY DEF RulesFail
<1>5. /\ e \in RuleCallRecord /\ RulesCallSound(e) /\ e.pc = "idle" /\ e.ok = answer
      /\ c \in rulesAlone => (e.op = r.op /\ e.name = r.name /\ e.before = r.before
                          /\ e.tap = r.tap /\ e.failed = TRUE)
  <2>1. answer \in RulesAnswers
    BY DEF RulesAnswers
  <2> HIDE DEF r, answer
  <2>2. QED
    BY <1>2, <2>1, RulesReplyIs
<1>6. ~RulesAt(c, "idle") /\ r.tap \in Taps
  BY <1>2, <1>3 DEF RulesAt, RuleCallRecord
<1>7. RulesTyped
  BY DEF RulesInv
<1>8. rulesDirty \subseteq rulesDirty' /\ rulesDirty' \subseteq Taps
  BY <1>3, <1>6, <1>7 DEF RulesTyped
<1> HIDE DEF r, e
<1>9. CASE ignored /\ r.pc = "rule" /\ RulesContinue(c, s)
  <2>1. RulesAt(c, "rule") /\ rulesCall[c].todo # <<>> /\ r.todo = rulesCall[c].todo
    BY <1>1, <1>2, <1>3, <1>9 DEF RulesAt, r, RuleCallRecord
  <2>2. Rest(r) = Rest(rulesCall[c]) /\ Rest(r) \in Seq(Commanded)
    BY <1>2, <2>1, NextCommand DEF Rest
  <2>3. /\ s \in RuleCallRecord /\ s.pc = "rule" /\ s.todo = Rest(rulesCall[c]) /\ s.before = r.before
        /\ s.op = r.op /\ s.name = r.name /\ s.tap = r.tap /\ s.failed = r.failed
    BY <1>2, <1>9, <2>2 DEF RuleCallRecord
  <2> HIDE DEF s
  <2>4. /\ RulesCallSound(s)
        /\ c \in rulesAlone =>
             /\ file[s.name] = s.before
             /\ \A i \in DOMAIN s.todo : s.todo[i] = Everything
                   => \E j \in DOMAIN s.before : s.before[j] = Everything
    BY <1>2, <2>1, <2>3, NextCommand
  <2>5. c \in rulesAlone => RulesStory(s, file, inForce, plugged)
    BY <1>2, <1>9, <2>3, <2>4 DEF RulesStory, IsAcl
  <2>6. ASSUME NEW t \in plugged \ rulesDirty, t # r.tap PROVE ForceSound(t)'
    BY <1>2, <1>3, <1>9, <2>3, <2>6, ForceStays DEF WorksOn
  <2>7. ForceInv'
    BY <1>3, <1>9, <2>6 DEF ForceInv
  <2>8. QED
    BY <1>2, <1>3, <1>6, <1>7, <1>8, <1>9, <2>3, <2>4, <2>5, <2>7, RulesCallStep DEF RulesTyped
<1>10. CASE ~(ignored /\ r.pc = "rule") /\ RulesContinue(c, e)
  <2>1. ASSUME NEW t \in plugged \ rulesDirty, t # r.tap \/ r.pc # "rule" PROVE ForceSound(t)'
    BY <1>2, <1>3, <1>5, <1>10, <2>1, ForceStays DEF WorksOn, RulesAt
  <2>2. ForceInv'
    BY <1>3, <2>1 DEF ForceInv
  <2>3. ASSUME c \in rulesAlone PROVE RulesStory(e, file, inForce, plugged)
    <3>1. /\ r.pc # "write" => file[r.name] = r.before
          /\ r.pc = "write" => file[r.name] = Torn
      BY <1>1, <1>2, <1>3, <2>3 DEF RulesStory, RulesPc
    <3>2. /\ r.pc \in {"exist", "ofport", "rule"} => r.op \in OnTaps
          /\ r.pc \in {"open", "write"} => r.op \notin OnTaps
      BY <1>1, <1>2, <1>3 DEF RulesCallSound
    <3>3. answer = "SYS_OK" => r.name \in Filters /\ r.op \notin OnTaps
      BY <1>2, <1>10, <3>2 DEF IsAcl
    <3> HIDE DEF answer, ignored
    <3>4. RulesAnswerTrue(e, file, inForce, plugged)
      BY <1>3, <1>5, <2>3, <3>1, <3>3 DEF RulesAnswerTrue, OnTaps
    <3>5. QED
      BY <1>5, <3>4 DEF RulesStory, RulesPc
  <2>4. QED
    BY <1>3, <1>5, <1>6, <1>7, <1>8, <1>10, <2>2, <2>3, RulesCallStep DEF RulesTyped
<1>11. QED
  BY <1>4, <1>9, <1>10

\* A virtual machine stops.
LEMMA PortGoes ==
    ASSUME RulesInv, NEW t \in Taps, Unplug(t)
    PROVE  RulesInv'
<1>1. /\ plugged' = plugged \ {t}
      /\ inForce' = [inForce EXCEPT ![t] = {}] /\ attached' = [attached EXCEPT ![t] = {}]
      /\ UNCHANGED <<file, rulesCall, rulesCalls, rulesAlone, rulesDirty>>
  BY DEF Unplug
<1>2. RulesTyped
  BY DEF RulesInv
<1>3. /\ inForce' \in [Taps -> SUBSET Items] /\ attached' \in [Taps -> SUBSET Names]
      /\ \A u \in Taps : u # t => inForce'[u] = inForce[u] /\ attached'[u] = attached[u]
  BY <1>1, <1>2 DEF RulesTyped
<1>4. RulesTyped'
  BY <1>1, <1>2, <1>3 DEF RulesTyped
<1>5. CollideInv'
  BY <1>1 DEF RulesInv, CollideInv, RulesAt
<1>6. ForceInv'
  <2> SUFFICES ASSUME NEW u \in plugged' \ rulesDirty' PROVE ForceSound(u)'
    BY DEF ForceInv
  <2>1. u \in plugged \ rulesDirty /\ u # t /\ u \in Taps
    BY <1>1, <1>2 DEF RulesTyped
  <2>2. ForceSound(u)
    BY <2>1 DEF RulesInv, ForceInv
  <2>3. inForce'[u] = inForce[u] /\ attached'[u] = attached[u]
    BY <1>3, <2>1
  <2>4. QED
    BY <1>1, <2>2, <2>3 DEF ForceSound, WorksOn, RulesAt
<1>7. RulesAloneInv'
  <2> SUFFICES ASSUME NEW c \in rulesAlone
               PROVE  /\ \A d \in RulesCallers \ {c} : RulesAt(d, "idle")
                      /\ RulesStory(rulesCall[c], file, inForce', plugged')
    BY <1>1 DEF RulesAloneInv, RulesAt
  <2>1. /\ \A d \in RulesCallers \ {c} : RulesAt(d, "idle")
        /\ RulesStory(rulesCall[c], file, inForce, plugged) /\ c \in RulesCallers
    BY <1>2 DEF RulesInv, RulesAloneInv, RulesTyped
  <2>2. rulesCall[c].tap \in Taps
    BY <1>2, <2>1 DEF RulesTyped, RuleCallRecord
  <2>3. rulesCall[c].tap \notin plugged' \/ inForce'[rulesCall[c].tap] = inForce[rulesCall[c].tap]
    BY <1>1, <1>3, <2>2
  <2>4. rulesCall[c].tap \notin plugged => rulesCall[c].tap \notin plugged'
    BY <1>1
  <2>5. QED
    BY <2>1, <2>3, <2>4 DEF RulesStory, RulesAnswerTrue
<1>8. QED
  BY <1>4, <1>5, <1>6, <1>7 DEF RulesInv

LEMMA RulesInvNext ==
    ASSUME RulesInv, [RulesNext]_rulesVars
    PROVE  RulesInv'
<1>1. ASSUME NEW c \in RulesCallers, CallOnTap(c) \/ CallOnFile(c) \/ RulesCallDel(c) PROVE RulesInv'
  BY <1>1, CallsBegin, CallBegins
<1>2. ASSUME NEW c \in RulesCallers, CheckFile(c) \/ ReadOfport(c) \/ Parse(c) PROVE RulesInv'
  BY <1>2, FileIsChecked, OfportIsRead, RulesAreRead
<1>3. ASSUME NEW c \in RulesCallers, RunRule(c) \/ RuleRaises(c) \/ Attached(c) PROVE RulesInv'
  BY <1>3, RuleIsRun, RulesRaise, AttachedOrDetached
<1>4. ASSUME NEW c \in RulesCallers, OpenFile(c) \/ WriteFile(c) \/ RulesFail(c) PROVE RulesInv'
  BY <1>4, FileIsOpened, FileIsWritten, CallsFail
<1>5. ASSUME NEW t \in Taps, Unplug(t) PROVE RulesInv'
  BY <1>5, PortGoes
<1>6. CASE UNCHANGED rulesVars
  <2>1. RulesTyped'
    BY <1>6 DEF rulesVars, RulesInv, RulesTyped
  <2>2. CollideInv' /\ RulesAloneInv'
    BY <1>6 DEF rulesVars, RulesInv, CollideInv, RulesAloneInv, RulesAt
  <2>3. ForceInv'
    BY <1>6 DEF rulesVars, RulesInv, ForceInv, ForceSound, WorksOn, RulesAt
  <2>4. QED
    BY <2>1, <2>2, <2>3 DEF RulesInv
<1>7. QED
  BY <1>1, <1>2, <1>3, <1>4, <1>5, <1>6 DEF RulesNext

LEMMA RulesInvHolds == RulesSpec => []RulesInv
<1>1. RulesInit => RulesInv
  BY RulesInitially
<1>2. RulesInv /\ [RulesNext]_rulesVars => RulesInv'
  BY RulesInvNext
<1>3. QED
  BY <1>1, <1>2, PTL DEF RulesSpec

-----------------------------------------------------------------------------
(* The theorems                                                            *)

\* Whatever the calls do beside each other, files and ports stay well formed, and
\* a port that nothing has marked and nobody works on has in force what the files
\* attached to it say now (attach_rules, detach_rules).
THEOREM PortsHaveTheirRules == RulesSpec => []RulesConsistent
<1>1. ASSUME RulesInv PROVE RulesTypeOK
  <2>1. \A c \in RulesCallers : rulesCall[c] \in RuleCallRecord
    BY <1>1 DEF RulesInv, RulesTyped
  <2>2. QED
    BY <1>1, <2>1 DEF RulesInv, RulesTyped, RulesTypeOK, RuleCallRecord
<1>2. ASSUME RulesInv PROVE InForceIsAttached
  <2> SUFFICES ASSUME NEW t \in plugged \ rulesDirty, ~Busy(t)
               PROVE  Agree(inForce[t], DueOf(file, attached[t]))
    BY DEF InForceIsAttached, Agree, DueOf
  <2>1. ForceSound(t)
    BY <1>2 DEF RulesInv, ForceInv
  <2>2. \A c \in RulesCallers : ~WorksOn(c, t)
    BY <1>2, RulesUnderWay DEF Busy, WorksOn, RulesAt, RulesCallSound
  <2>3. QED
    BY <2>1, <2>2 DEF ForceSound
<1>3. RulesInv => RulesConsistent
  BY <1>1, <1>2 DEF RulesConsistent
<1>4. QED
  BY <1>3, RulesInvHolds, PTL

\* What an undisturbed call answers tells what it did, or hides one of the failures
\* that RulesAnswersAreTrue names (aclapi, qosapi).
THEOREM RuleAnswersTell == RulesSpec => []RulesAnswersAreTrue
<1>1. ASSUME RulesInv PROVE RulesAnswersAreTrue
  <2>1. ASSUME NEW c \in rulesAlone, RulesAt(c, "idle")
        PROVE  RulesAnswerTrue(rulesCall[c], file, inForce, plugged)
    BY <1>1, <2>1 DEF RulesInv, RulesAloneInv, RulesStory, RulesAt
  <2>2. AttachedIsInForce
    BY <2>1 DEF AttachedIsInForce, RulesAnswerTrue, IsAcl
  <2>3. RefusalHasCause
    BY <2>1 DEF RefusalHasCause, RulesAnswerTrue
  <2>4. FileAnswers
    BY <2>1 DEF FileAnswers, RulesAnswerTrue, IsAcl
  <2>5. QED
    BY <2>2, <2>3, <2>4 DEF RulesAnswersAreTrue
<1>2. QED
  BY <1>1, RulesInvHolds, PTL

-----------------------------------------------------------------------------
(***************************************************************************)
(* Part 3.  InternalNic: the switches and their internal cards.            *)
(***************************************************************************)

(* Lists of commands: every list is in the order of the ranks, so that what *)
(* a handler has still to do is told by the set of the steps that are left. *)

AllSteps == Commands \cup FileSteps

Rank(op, x) ==
    CASE x = "link" -> 1
      [] x = "get_vlan" -> 2
      [] x = "vlan" -> 3
      [] x = "get_mtu" -> 4
      [] x = "mtu" -> 5
      [] x = "get_ip" -> 6
      [] x = "read_ip" -> 7
      [] x = "open_ip" -> 8
      [] x = "write_ip" -> 9
      [] x = "read_mask" -> 10
      [] x = "open_mask" -> 11
      [] x = "write_mask" -> 12
      [] x = "flush" -> (IF op = "Clear" THEN 0 ELSE 13)
      [] x = "addr" -> 14
      [] x = "ip_done" -> 15
      [] x = "route" -> 16
      [] x = "old_mtu" -> 17
      [] x = "old_vlan" -> 18
      [] x = "add_br" -> 19
      [] x = "generate" -> 20
      [] x = "multicast" -> 21
      [] x = "del_br" -> 22
      [] x = "remove" -> 23

LEMMA Ranks ==
    ASSUME NEW op
    PROVE  /\ Rank(op, "link") = 1 /\ Rank(op, "get_vlan") = 2 /\ Rank(op, "vlan") = 3
           /\ Rank(op, "get_mtu") = 4 /\ Rank(op, "mtu") = 5 /\ Rank(op, "get_ip") = 6
           /\ Rank(op, "read_ip") = 7 /\ Rank(op, "open_ip") = 8 /\ Rank(op, "write_ip") = 9
           /\ Rank(op, "read_mask") = 10 /\ Rank(op, "open_mask") = 11
           /\ Rank(op, "write_mask") = 12
           /\ Rank(op, "flush") = (IF op = "Clear" THEN 0 ELSE 13)
           /\ Rank(op, "addr") = 14 /\ Rank(op, "ip_done") = 15 /\ Rank(op, "route") = 16
           /\ Rank(op, "old_mtu") = 17 /\ Rank(op, "old_vlan") = 18
           /\ Rank(op, "add_br") = 19 /\ Rank(op, "generate") = 20
           /\ Rank(op, "multicast") = 21 /\ Rank(op, "del_br") = 22 /\ Rank(op, "remove") = 23
BY DEF Rank

LEMMA RankIsInt == \A op : \A x \in AllSteps : Rank(op, x) \in Int
<1> TAKE op
<1> TAKE x \in AllSteps
<1>1. CASE x \in FileSteps
  BY <1>1, Ranks DEF FileSteps
<1>2. CASE x \in {"add_br", "generate", "del_br", "remove", "multicast", "link", "get_vlan", "vlan"}
  BY <1>2, Ranks
<1>3. CASE x \in {"get_mtu", "mtu", "get_ip", "ip_done", "flush", "addr", "old_vlan", "old_mtu",
                  "route"}
  <2>1. CASE x = "flush"
    <3>1. Rank(op, "flush") = (IF op = "Clear" THEN 0 ELSE 13)
      BY Ranks
    <3>2. QED
      BY <2>1, <3>1
  <2>2. CASE x # "flush"
    BY <1>3, <2>2, Ranks
  <2>3. QED
    BY <2>1, <2>2
<1>4. QED
  BY <1>1, <1>2, <1>3 DEF AllSteps, Commands

\* The steps of a list, which is in the order of their ranks.
StepsOf(s) == {s[i] : i \in DOMAIN s}
Ranked(op, s) == \A i, j \in DOMAIN s : i < j => Rank(op, s[i]) < Rank(op, s[j])
Lists(op, s, X) == s \in Seq(AllSteps) /\ Ranked(op, s) /\ StepsOf(s) = X

LEMMA ListOfNone == \A op : Lists(op, <<>>, {})
<1>1. DOMAIN <<>> = {}
  <2>1. Len(<<>>) = 0 /\ DOMAIN <<>> = 1..Len(<<>>)
    BY EmptySeq, LenProperties
  <2>2. QED
    BY <2>1
<1>2. <<>> \in Seq(AllSteps)
  BY EmptySeq
<1>3. QED
  BY <1>1, <1>2 DEF Lists, Ranked, StepsOf

LEMMA ListOfOne ==
    ASSUME NEW op, NEW x \in AllSteps PROVE Lists(op, <<x>>, {x})
<1> DEFINE s == <<x>>
<1>1. s \in Seq(AllSteps) /\ Len(s) = 1 /\ s[1] = x /\ DOMAIN s = 1..1
  OBVIOUS
<1> HIDE DEF s
<1>2. \A i \in DOMAIN s : i = 1
  BY <1>1
<1>3. QED
  <2>1. StepsOf(s) = {x}
    BY <1>1, <1>2 DEF StepsOf
  <2>2. Ranked(op, s)
    BY <1>2 DEF Ranked
  <2>3. QED
    BY <1>1, <2>1, <2>2 DEF Lists, s

LEMMA ListOfThree ==
    ASSUME NEW op, NEW x \in AllSteps, NEW y \in AllSteps, NEW z \in AllSteps,
           Rank(op, x) < Rank(op, y), Rank(op, y) < Rank(op, z)
    PROVE  Lists(op, <<x, y, z>>, {x, y, z})
<1> DEFINE s == <<x, y, z>>
<1>1. /\ s \in Seq(AllSteps) /\ Len(s) = 3 /\ DOMAIN s = 1..3
      /\ s[1] = x /\ s[2] = y /\ s[3] = z
  OBVIOUS
<1> HIDE DEF s
<1>2. \A i \in DOMAIN s : i = 1 \/ i = 2 \/ i = 3
  BY <1>1
<1>3. StepsOf(s) = {x, y, z}
  <2>1. 1 \in DOMAIN s /\ 2 \in DOMAIN s /\ 3 \in DOMAIN s
    BY <1>1
  <2>2. QED
    BY <1>1, <1>2, <2>1 DEF StepsOf
<1>4. Ranked(op, s)
  <2>1. Rank(op, x) < Rank(op, z)
    BY RankIsInt
  <2>2. QED
    BY <1>1, <1>2, <2>1 DEF Ranked
<1>5. QED
  BY <1>1, <1>3, <1>4 DEF Lists, s

\* One list after another.
LEMMA ListsJoined ==
    ASSUME NEW op, NEW s, NEW t, NEW X, NEW Y, Lists(op, s, X), Lists(op, t, Y),
           \A x \in X, y \in Y : Rank(op, x) < Rank(op, y)
    PROVE  Lists(op, s \o t, X \cup Y)
<1> DEFINE u == s \o t
<1>1. s \in Seq(AllSteps) /\ t \in Seq(AllSteps) /\ Ranked(op, s) /\ Ranked(op, t)
  BY DEF Lists
<1>2. /\ Len(s) \in Nat /\ Len(t) \in Nat /\ DOMAIN s = 1..Len(s) /\ DOMAIN t = 1..Len(t)
  BY <1>1, LenProperties
<1>3. /\ u \in Seq(AllSteps) /\ Len(u) = Len(s) + Len(t)
      /\ \A i \in 1..(Len(s) + Len(t)) : u[i] = IF i <= Len(s) THEN s[i] ELSE t[i - Len(s)]
  BY <1>1, ConcatProperties
<1>4. DOMAIN u = 1..(Len(s) + Len(t))
  BY <1>3, LenProperties
<1> HIDE DEF u
<1>5. /\ \A i \in DOMAIN s : i \in DOMAIN u /\ u[i] = s[i]
      /\ \A i \in DOMAIN t : i + Len(s) \in DOMAIN u /\ u[i + Len(s)] = t[i]
  <2>1. \A i \in DOMAIN s : i \in DOMAIN u /\ u[i] = s[i]
    BY <1>2, <1>3, <1>4
  <2>2. ASSUME NEW i \in DOMAIN t PROVE i + Len(s) \in DOMAIN u /\ u[i + Len(s)] = t[i]
    <3>1. /\ i + Len(s) \in 1..(Len(s) + Len(t)) /\ ~(i + Len(s) <= Len(s))
          /\ (i + Len(s)) - Len(s) = i
      BY <1>2
    <3>2. QED
      BY <1>3, <1>4, <3>1
  <2>3. QED
    BY <2>1, <2>2
<1>6. \A i \in DOMAIN u : \/ i \in DOMAIN s /\ u[i] = s[i]
                          \/ /\ i > Len(s) /\ i - Len(s) \in DOMAIN t
                             /\ u[i] = t[i - Len(s)]
  BY <1>2, <1>3, <1>4
<1>7. StepsOf(u) = X \cup Y
  <2>1. StepsOf(s) = X /\ StepsOf(t) = Y
    BY DEF Lists
  <2>2. \A x \in StepsOf(u) : x \in X \cup Y
    BY <1>6, <2>1 DEF StepsOf
  <2>3. \A x \in X \cup Y : x \in StepsOf(u)
    BY <1>5, <2>1 DEF StepsOf
  <2>4. QED
    BY <2>2, <2>3
<1>8. Ranked(op, u)
  <2> SUFFICES ASSUME NEW i \in DOMAIN u, NEW j \in DOMAIN u, i < j
               PROVE  Rank(op, u[i]) < Rank(op, u[j])
    BY DEF Ranked
  <2>1. CASE j \in DOMAIN s /\ u[j] = s[j]
    <3>1. i \in DOMAIN s /\ u[i] = s[i]
      BY <1>2, <1>4, <1>5, <2>1
    <3>2. QED
      BY <1>1, <2>1, <3>1 DEF Ranked
  <2>2. CASE j > Len(s) /\ j - Len(s) \in DOMAIN t /\ u[j] = t[j - Len(s)]
    <3>1. CASE i \in DOMAIN s /\ u[i] = s[i]
      <4>1. u[i] \in X /\ u[j] \in Y
        BY <2>2, <3>1 DEF Lists, StepsOf
      <4>2. QED
        BY <4>1
    <3>2. CASE i > Len(s) /\ i - Len(s) \in DOMAIN t /\ u[i] = t[i - Len(s)]
      <4>1. i - Len(s) < j - Len(s)
        BY <1>2, <1>4
      <4>2. QED
        BY <1>1, <2>2, <3>2, <4>1 DEF Ranked
    <3>3. QED
      BY <1>6, <3>1, <3>2
  <2>3. QED
    BY <1>6, <2>1, <2>2
<1>9. QED
  BY <1>3, <1>7, <1>8 DEF Lists, u

LEMMA ListIf ==
    ASSUME NEW op, NEW asked, NEW s, NEW X, Lists(op, s, X)
    PROVE  Lists(op, If(asked, s), IF asked THEN X ELSE {})
<1>1. CASE asked
  BY <1>1 DEF If
<1>2. CASE ~asked
  BY <1>2, ListOfNone DEF If
<1>3. QED
  BY <1>1, <1>2

\* The first step of a list has the lowest rank; the others are left.
LEMMA FirstStep ==
    ASSUME NEW op, NEW s, NEW X, Lists(op, s, X), s # <<>>
    PROVE  /\ Head(s) \in X /\ Head(s) \in AllSteps
           /\ \A x \in X : x = Head(s) \/ Rank(op, Head(s)) < Rank(op, x)
           /\ Lists(op, Tail(s), X \ {Head(s)})
<1>1. s \in Seq(AllSteps) /\ Ranked(op, s) /\ StepsOf(s) = X
  BY DEF Lists
<1>2. /\ Len(s) \in Nat \ {0} /\ DOMAIN s = 1..Len(s)
      /\ Head(s) = s[1] /\ Head(s) \in AllSteps
      /\ Tail(s) \in Seq(AllSteps) /\ Len(Tail(s)) = Len(s) - 1
      /\ \A i \in 1..Len(Tail(s)) : Tail(s)[i] = s[i + 1]
  BY <1>1, LenProperties, EmptySeq, HeadTailProperties
<1>3. DOMAIN Tail(s) = 1..(Len(s) - 1)
  BY <1>2, LenProperties
<1>4. \A i \in DOMAIN Tail(s) : i + 1 \in DOMAIN s /\ i + 1 > 1 /\ Tail(s)[i] = s[i + 1]
  BY <1>2, <1>3
<1>5. 1 \in DOMAIN s
  BY <1>2
<1>6. \A j \in DOMAIN s : j = 1 \/ (j > 1 /\ Rank(op, s[1]) < Rank(op, s[j]))
  BY <1>1, <1>2, <1>5 DEF Ranked
<1>7. Head(s) \in X /\ \A x \in X : x = Head(s) \/ Rank(op, Head(s)) < Rank(op, x)
  BY <1>1, <1>2, <1>5, <1>6 DEF StepsOf
<1>8. Ranked(op, Tail(s))
  <2> SUFFICES ASSUME NEW i \in DOMAIN Tail(s), NEW j \in DOMAIN Tail(s), i < j
               PROVE  Rank(op, Tail(s)[i]) < Rank(op, Tail(s)[j])
    BY DEF Ranked
  <2>1. i + 1 < j + 1
    BY <1>2, <1>3
  <2>2. QED
    BY <1>1, <1>4, <2>1 DEF Ranked
<1>9. StepsOf(Tail(s)) = X \ {Head(s)}
  <2>1. ASSUME NEW x \in StepsOf(Tail(s)) PROVE x \in X /\ x # Head(s)
    <3>1. PICK i \in DOMAIN Tail(s) : x = Tail(s)[i]
      BY DEF StepsOf
    <3>2. x = s[i + 1] /\ i + 1 \in DOMAIN s /\ Rank(op, s[1]) < Rank(op, s[i + 1])
      BY <1>2, <1>3, <1>4, <1>6, <3>1
    <3>3. Rank(op, Head(s)) \in Int
      BY <1>2, RankIsInt
    <3>4. QED
      BY <1>1, <1>2, <3>2, <3>3 DEF StepsOf
  <2>2. ASSUME NEW x \in X, x # Head(s) PROVE x \in StepsOf(Tail(s))
    <3>1. PICK j \in DOMAIN s : x = s[j]
      BY <1>1 DEF StepsOf
    <3>2. j # 1
      BY <1>2, <2>2, <3>1
    <3>3. j - 1 \in DOMAIN Tail(s) /\ (j - 1) + 1 = j
      BY <1>2, <1>3, <3>2
    <3>4. Tail(s)[j - 1] = x
      BY <1>4, <3>1, <3>3
    <3>5. QED
      BY <3>3, <3>4 DEF StepsOf
  <2>3. QED
    BY <2>1, <2>2
<1>10. QED
  BY <1>2, <1>7, <1>8, <1>9 DEF Lists

LEMMA ListOfTwo ==
    ASSUME NEW op, NEW x \in AllSteps, NEW y \in AllSteps, Rank(op, x) < Rank(op, y)
    PROVE  Lists(op, <<x, y>>, {x, y})
<1> DEFINE s == <<x, y>>
<1>1. s \in Seq(AllSteps) /\ Len(s) = 2 /\ DOMAIN s = 1..2 /\ s[1] = x /\ s[2] = y
  OBVIOUS
<1> HIDE DEF s
<1>2. \A i \in DOMAIN s : i = 1 \/ i = 2
  BY <1>1
<1>3. StepsOf(s) = {x, y}
  <2>1. 1 \in DOMAIN s /\ 2 \in DOMAIN s
    BY <1>1
  <2>2. QED
    BY <1>1, <1>2, <2>1 DEF StepsOf
<1>4. Ranked(op, s)
  BY <1>1, <1>2 DEF Ranked
<1>5. QED
  BY <1>1, <1>3, <1>4 DEF Lists, s

-----------------------------------------------------------------------------
(* The steps of the handlers                                               *)

SaveSteps == {"read_ip", "open_ip", "write_ip", "read_mask", "open_mask", "write_mask"}
IpSteps == SaveSteps \cup {"flush", "addr"}
FirstSteps(ask) ==
    {"link"} \cup (IF "vlan" \in ask THEN {"get_vlan", "vlan"} ELSE {})
             \cup (IF "mtu" \in ask THEN {"get_mtu", "mtu"} ELSE {})
             \cup (IF "ip" \in ask THEN IpSteps \cup {"get_ip", "ip_done"} ELSE {})
             \cup (IF "gateway" \in ask THEN {"route"} ELSE {})
BackSteps(done) ==
    (IF "ip" \in done THEN IpSteps ELSE {})
    \cup (IF "mtu" \in done THEN {"old_mtu"} ELSE {})
    \cup (IF "vlan" \in done THEN {"old_vlan"} ELSE {})

LEMMA StepsAreSteps ==
    /\ \A x \in {"link", "get_vlan", "vlan", "get_mtu", "mtu", "get_ip", "ip_done", "route",
                 "old_mtu", "old_vlan"} : x \in AllSteps
    /\ \A x \in SaveSteps : x \in AllSteps
    /\ \A x \in {"flush", "addr", "add_br", "generate", "multicast", "del_br", "remove"} :
          x \in AllSteps
BY DEF AllSteps, Commands, FileSteps, SaveSteps

LEMMA SaveList ==
    ASSUME NEW op PROVE Lists(op, Save("ip") \o Save("mask"), SaveSteps)
<1>1. Save("ip") = <<"read_ip", "open_ip", "write_ip">>
  BY DEF Save
<1>2. Save("mask") = <<"read_mask", "open_mask", "write_mask">>
  BY DEF Save
<1>3. Lists(op, Save("ip"), {"read_ip", "open_ip", "write_ip"})
  <2>1. /\ "read_ip" \in AllSteps /\ "open_ip" \in AllSteps /\ "write_ip" \in AllSteps
    BY StepsAreSteps DEF SaveSteps
  <2>2. Rank(op, "read_ip") < Rank(op, "open_ip") /\ Rank(op, "open_ip") < Rank(op, "write_ip")
    BY Ranks
  <2>3. QED
    BY <1>1, <2>1, <2>2, ListOfThree
<1>4. Lists(op, Save("mask"), {"read_mask", "open_mask", "write_mask"})
  <2>1. /\ "read_mask" \in AllSteps /\ "open_mask" \in AllSteps /\ "write_mask" \in AllSteps
    BY StepsAreSteps DEF SaveSteps
  <2>2. /\ Rank(op, "read_mask") < Rank(op, "open_mask")
        /\ Rank(op, "open_mask") < Rank(op, "write_mask")
    BY Ranks
  <2>3. QED
    BY <1>2, <2>1, <2>2, ListOfThree
<1>5. \A x \in {"read_ip", "open_ip", "write_ip"}, y \in {"read_mask", "open_mask", "write_mask"} :
         Rank(op, x) < Rank(op, y)
  BY Ranks
<1>6. SaveSteps = {"read_ip", "open_ip", "write_ip"}
                     \cup {"read_mask", "open_mask", "write_mask"}
  BY DEF SaveSteps
<1>7. QED
  BY <1>3, <1>4, <1>5, <1>6, ListsJoined

LEMMA ClearList == Lists("Clear", ClearInternalNicParam, {"flush"} \cup SaveSteps)
<1> DEFINE save == Save("ip") \o Save("mask")
<1>1. Lists("Clear", <<"flush">>, {"flush"})
  BY ListOfOne, StepsAreSteps
<1>2. Lists("Clear", save, SaveSteps)
  BY SaveList
<1>3. \A x \in {"flush"}, y \in SaveSteps : Rank("Clear", x) < Rank("Clear", y)
  <2>1. Rank("Clear", "flush") = 0
    BY Ranks
  <2>2. QED
    BY <2>1, Ranks DEF SaveSteps
<1> HIDE DEF save
<1>4. Lists("Clear", <<"flush">> \o save, {"flush"} \cup SaveSteps)
  BY <1>1, <1>2, <1>3, ListsJoined
<1>5. <<"flush">> \o save = ClearInternalNicParam
  <2>1. Save("ip") \in Seq(AllSteps) /\ Save("mask") \in Seq(AllSteps)
        /\ <<"flush">> \in Seq(AllSteps)
    BY ListOfOne, ListOfThree, Ranks, StepsAreSteps DEF Lists, Save, SaveSteps
  <2>2. (<<"flush">> \o Save("ip")) \o Save("mask") = <<"flush">> \o (Save("ip") \o Save("mask"))
    BY <2>1, ConcatAssociative
  <2>3. QED
    BY <2>2 DEF ClearInternalNicParam, save
<1>6. QED
  BY <1>4, <1>5

LEMMA IpList ==
    ASSUME NEW op, op # "Clear" PROVE Lists(op, SetIp, IpSteps)
<1> DEFINE save == Save("ip") \o Save("mask")
           rest == <<"flush", "addr">>
<1>1. Rank(op, "flush") = 13 /\ Rank(op, "addr") = 14
  BY Ranks
<1>2. Lists(op, rest, {"flush", "addr"})
  BY <1>1, ListOfTwo, StepsAreSteps
<1>3. Lists(op, save, SaveSteps)
  BY SaveList
<1>4. \A x \in SaveSteps, y \in {"flush", "addr"} : Rank(op, x) < Rank(op, y)
  BY <1>1, Ranks DEF SaveSteps
<1> HIDE DEF save, rest
<1>5. Lists(op, save \o rest, SaveSteps \cup {"flush", "addr"})
  BY <1>2, <1>3, <1>4, ListsJoined
<1>6. QED
  BY <1>5 DEF SetIp, IpSteps, save, rest

LEMMA AddList ==
    ASSUME NEW m
    PROVE  Lists("Add", AddvSwitch(m), {"add_br", "generate"} \cup (IF m THEN {"multicast"} ELSE {}))
<1> DEFINE a == <<"add_br", "generate">>
           b == If(m, <<"multicast">>)
           X == IF m THEN {"multicast"} ELSE {}
<1>1. Lists("Add", a, {"add_br", "generate"})
  BY ListOfTwo, Ranks, StepsAreSteps, SMTT(30)
<1>2. Lists("Add", b, X)
  <2>1. Lists("Add", <<"multicast">>, {"multicast"})
    BY ListOfOne, StepsAreSteps
  <2>2. QED
    BY <2>1, ListIf
<1>3. \A x \in {"add_br", "generate"}, y \in X : Rank("Add", x) < Rank("Add", y)
  BY Ranks
<1> HIDE DEF a, b, X
<1>4. Lists("Add", a \o b, {"add_br", "generate"} \cup X)
  BY <1>1, <1>2, <1>3, ListsJoined
<1>5. QED
  BY <1>4 DEF AddvSwitch, a, b, X

LEMMA DelList == Lists("Del", DelvSwitch, {"del_br", "remove"})
  BY ListOfTwo, Ranks, StepsAreSteps DEF DelvSwitch

LEMMA ModifyList ==
    ASSUME NEW m
    PROVE  Lists("Modify", ModifyvSwitch(m), IF m THEN {"multicast"} ELSE {})
<1>1. Lists("Modify", <<"multicast">>, {"multicast"})
  BY ListOfOne, StepsAreSteps
<1>2. QED
  BY <1>1, ListIf DEF ModifyvSwitch

LEMMA SetList ==
    ASSUME NEW ask PROVE Lists("Set", SetInternalNicParam(ask), FirstSteps(ask))
<1> DEFINE a == <<"link">>
           b == If("vlan" \in ask, <<"get_vlan", "vlan">>)
           d == If("mtu" \in ask, <<"get_mtu", "mtu">>)
           e == If("ip" \in ask, <<"get_ip">> \o SetIp \o <<"ip_done">>)
           f == If("gateway" \in ask, <<"route">>)
           B == IF "vlan" \in ask THEN {"get_vlan", "vlan"} ELSE {}
           D == IF "mtu" \in ask THEN {"get_mtu", "mtu"} ELSE {}
           E == IF "ip" \in ask THEN IpSteps \cup {"get_ip", "ip_done"} ELSE {}
           F == IF "gateway" \in ask THEN {"route"} ELSE {}
<1>1. Lists("Set", a, {"link"})
  BY ListOfOne, StepsAreSteps
<1>2. Lists("Set", b, B)
  <2>1. Lists("Set", <<"get_vlan", "vlan">>, {"get_vlan", "vlan"})
    <3>1. "get_vlan" \in AllSteps /\ "vlan" \in AllSteps
      BY StepsAreSteps
    <3>2. Rank("Set", "get_vlan") < Rank("Set", "vlan")
      BY Ranks
    <3>3. QED
      BY <3>1, <3>2, ListOfTwo
  <2>2. QED
    BY <2>1, ListIf
<1>3. Lists("Set", d, D)
  <2>1. Lists("Set", <<"get_mtu", "mtu">>, {"get_mtu", "mtu"})
    <3>1. "get_mtu" \in AllSteps /\ "mtu" \in AllSteps
      BY StepsAreSteps
    <3>2. Rank("Set", "get_mtu") < Rank("Set", "mtu")
      BY Ranks
    <3>3. QED
      BY <3>1, <3>2, ListOfTwo
  <2>2. QED
    BY <2>1, ListIf
<1>4. /\ Rank("Set", "flush") = 13
      /\ \A x \in IpSteps : Rank("Set", x) \in 7..14
  <2>1. Rank("Set", "flush") = 13
    BY Ranks
  <2>2. QED
    BY <2>1, Ranks DEF IpSteps, SaveSteps
<1>5. Lists("Set", e, E)
  <2> DEFINE g == <<"get_ip">> \o SetIp
             h == g \o <<"ip_done">>
  <2>1. Lists("Set", <<"get_ip">>, {"get_ip"}) /\ Lists("Set", <<"ip_done">>, {"ip_done"})
    BY ListOfOne, StepsAreSteps
  <2>2. Lists("Set", SetIp, IpSteps)
    BY IpList
  <2>3. Lists("Set", g, {"get_ip"} \cup IpSteps)
    <3>1. \A x \in {"get_ip"}, y \in IpSteps : Rank("Set", x) < Rank("Set", y)
      BY <1>4, Ranks
    <3>2. QED
      BY <2>1, <2>2, <3>1, ListsJoined
  <2> HIDE DEF g
  <2>4. Lists("Set", h, ({"get_ip"} \cup IpSteps) \cup {"ip_done"})
    <3>1. \A x \in {"get_ip"} \cup IpSteps, y \in {"ip_done"} : Rank("Set", x) < Rank("Set", y)
      BY <1>4, Ranks
    <3>2. QED
      BY <2>1, <2>3, <3>1, ListsJoined
  <2>5. ({"get_ip"} \cup IpSteps) \cup {"ip_done"} = IpSteps \cup {"get_ip", "ip_done"}
    OBVIOUS
  <2> HIDE DEF h
  <2>6. Lists("Set", If("ip" \in ask, h), E)
    BY <2>4, <2>5, ListIf
  <2>7. QED
    BY <2>6 DEF h, g
<1>6. Lists("Set", f, F)
  <2>1. Lists("Set", <<"route">>, {"route"})
    BY ListOfOne, StepsAreSteps
  <2>2. QED
    BY <2>1, ListIf
<1>7. /\ \A x \in {"link"} : Rank("Set", x) = 1
      /\ \A x \in B : Rank("Set", x) \in 2..3
      /\ \A x \in D : Rank("Set", x) \in 4..5
      /\ \A x \in E : Rank("Set", x) \in 6..15
      /\ \A x \in F : Rank("Set", x) = 16
  BY <1>4, Ranks
<1> HIDE DEF a, b, d, e, f, B, D, E, F
<1>8. Lists("Set", a \o b, {"link"} \cup B)
  BY <1>1, <1>2, <1>7, ListsJoined
<1>9. Lists("Set", (a \o b) \o d, {"link"} \cup B \cup D)
  <2>1. \A x \in {"link"} \cup B, y \in D : Rank("Set", x) < Rank("Set", y)
    BY <1>7
  <2>2. QED
    BY <1>3, <1>8, <2>1, ListsJoined
<1>10. Lists("Set", ((a \o b) \o d) \o e, {"link"} \cup B \cup D \cup E)
  <2>1. \A x \in {"link"} \cup B \cup D, y \in E : Rank("Set", x) < Rank("Set", y)
    BY <1>7
  <2>2. QED
    BY <1>5, <1>9, <2>1, ListsJoined
<1>11. Lists("Set", (((a \o b) \o d) \o e) \o f, {"link"} \cup B \cup D \cup E \cup F)
  <2>1. \A x \in {"link"} \cup B \cup D \cup E, y \in F : Rank("Set", x) < Rank("Set", y)
    BY <1>7
  <2>2. QED
    BY <1>6, <1>10, <2>1, ListsJoined
<1>12. QED
  BY <1>11 DEF SetInternalNicParam, FirstSteps, a, b, d, e, f, B, D, E, F

LEMMA RollbackList ==
    ASSUME NEW done PROVE Lists("Set", Rollback(done), BackSteps(done))
<1> DEFINE a == If("ip" \in done, SetIp)
           b == If("mtu" \in done, <<"old_mtu">>)
           d == If("vlan" \in done, <<"old_vlan">>)
           A == IF "ip" \in done THEN IpSteps ELSE {}
           B == IF "mtu" \in done THEN {"old_mtu"} ELSE {}
           D == IF "vlan" \in done THEN {"old_vlan"} ELSE {}
<1>1. Lists("Set", a, A)
  <2>1. Lists("Set", SetIp, IpSteps)
    BY IpList
  <2>2. QED
    BY <2>1, ListIf
<1>2. Lists("Set", b, B)
  <2>1. Lists("Set", <<"old_mtu">>, {"old_mtu"})
    BY ListOfOne, StepsAreSteps
  <2>2. QED
    BY <2>1, ListIf
<1>3. Lists("Set", d, D)
  <2>1. Lists("Set", <<"old_vlan">>, {"old_vlan"})
    BY ListOfOne, StepsAreSteps
  <2>2. QED
    BY <2>1, ListIf
<1>4. /\ \A x \in A : Rank("Set", x) \in 7..14
      /\ \A x \in B : Rank("Set", x) = 17
      /\ \A x \in D : Rank("Set", x) = 18
  <2>1. Rank("Set", "flush") = 13
    BY Ranks
  <2>2. QED
    BY <2>1, Ranks DEF IpSteps, SaveSteps
<1> HIDE DEF a, b, d, A, B, D
<1>5. Lists("Set", a \o b, A \cup B)
  BY <1>1, <1>2, <1>4, ListsJoined
<1>6. Lists("Set", (a \o b) \o d, A \cup B \cup D)
  <2>1. \A x \in A \cup B, y \in D : Rank("Set", x) < Rank("Set", y)
    BY <1>4
  <2>2. QED
    BY <1>3, <1>5, <2>1, ListsJoined
<1>7. QED
  BY <1>6 DEF Rollback, BackSteps, a, b, d, A, B, D

-----------------------------------------------------------------------------
(* The inductive invariant                                                 *)

Card == [vlan : Setting, mtu : Setting, addr : Setting]
NicCallRecord == [op : {"none", "Add", "Del", "Modify", "Set", "Clear"},
             on : NicSwitches, todo : Seq(AllSteps), ask : SUBSET Parts, value : Setting,
             bad : SUBSET Parts, done : SUBSET Parts, old : Card, copy : Conf,
             undoing : BOOLEAN, ok : NicAnswers, before : Card, routed : BOOLEAN,
             failed : {"", "first", "rollback"}]

\* The steps that a call has left, and the ones that its handler has in all.
Left(r) == StepsOf(r.todo)
MayCast(r) == IF r.op \in {"Add", "Modify"} THEN {"multicast"} ELSE {}
Plan(r) ==
    IF r.op = "Set" THEN IF r.undoing THEN BackSteps(r.done) ELSE FirstSteps(r.ask)
    ELSE IF r.op = "Clear" THEN {"flush"} \cup SaveSteps
    ELSE IF r.op = "Add" THEN {"add_br", "generate"}
    ELSE IF r.op = "Del" THEN {"del_br", "remove"} ELSE {}

\* A call goes through its list: what is left is the end of it.
TaskSound(r) ==
    /\ Ranked(r.op, r.todo)
    /\ Left(r) \subseteq Plan(r) \cup MayCast(r)
    /\ \A x \in Left(r), y \in Plan(r) : Rank(r.op, x) < Rank(r.op, y) => y \in Left(r)
    /\ r.op = "Set" => r.value \in Values
    /\ r.undoing => r.op = "Set"

NicTyped ==
    /\ bridges \in SUBSET NicSwitches
    /\ nic \in [NicSwitches -> Card]
    /\ conf \in [NicSwitches -> Conf]
    /\ route \in NicSwitches \cup {Unset, Other}
    /\ nicCall \in [NicCallers -> NicCallRecord]
    /\ nicCalls \in 0..NicMaxCalls
    /\ nicAlone \in SUBSET NicCallers
    /\ nicDirty \in SUBSET NicSwitches
    /\ \A s \in NicSwitches \ bridges : nic[s] = NewNic
    /\ \A c \in NicCallers : TaskSound(nicCall[c])

\* What the ifcfg file of a switch says while one call runs for it.
LiveFile(s, B, n) == IF s \in B THEN [NewConf EXCEPT !.ip = n.addr, !.mask = n.addr] ELSE NoConf
Kept(f) == f.there /\ f.head
ValueOf(r) == IF r.op = "Clear" THEN Unset ELSE r.value
InSave(r, f) ==
    /\ "read_ip" \notin Left(r) /\ "write_ip" \in Left(r) => Kept(r.copy)
    /\ "write_ip" \notin Left(r) /\ "read_mask" \in Left(r) => Kept(f) /\ f.ip = ValueOf(r)
    /\ "read_mask" \notin Left(r) /\ "write_mask" \in Left(r) =>
          Kept(r.copy) /\ r.copy.ip = ValueOf(r)
Stage(r, B, n, f) ==
    /\ r.op \in {"none", "Modify"} => f = LiveFile(r.on, B, n)
    /\ r.op = "Add" =>
          IF "add_br" \notin Left(r) /\ "generate" \in Left(r)
          THEN r.on \in B /\ n.addr = Unset ELSE f = LiveFile(r.on, B, n)
    /\ r.op = "Del" =>
          IF "del_br" \notin Left(r) /\ "remove" \in Left(r) THEN r.on \notin B ELSE f = LiveFile(r.on, B, n)
    /\ r.op = "Clear" =>
          /\ r.on \in B /\ InSave(r, f)
          /\ IF "flush" \notin Left(r) /\ "write_mask" \in Left(r)
             THEN n.addr = Unset /\ ("read_ip" \in Left(r) => Kept(f))
             ELSE f = LiveFile(r.on, B, n)
    /\ r.op = "Set" =>
          /\ r.on \in B /\ InSave(r, f)
          /\ "read_ip" \in Left(r) \/ "addr" \notin Left(r) => f = LiveFile(r.on, B, n)
          /\ "write_mask" \notin Left(r) /\ "addr" \in Left(r) =>
                f = [NewConf EXCEPT !.ip = r.value, !.mask = r.value]
          /\ "flush" \notin Left(r) /\ "addr" \in Left(r) => n.addr = Unset
          /\ "read_ip" \notin Left(r) /\ "addr" \in Left(r) /\ r.undoing => r.old.addr # Unset

LiveInv ==
    \A s \in NicSwitches \ nicDirty :
        /\ \A c, d \in NicCallers :
              Running(c) /\ Running(d) /\ nicCall[c].on = s /\ nicCall[d].on = s => c = d
        /\ Settled(s) => conf[s] = LiveFile(s, bridges, nic[s])
        /\ \A c \in NicCallers : Running(c) /\ nicCall[c].on = s =>
              Stage(nicCall[c], bridges, nic[s], conf[s])

\* What SetInternalNicParam has done so far, and has set so far.
FirstTale(r, n) ==
    /\ r.done \subseteq r.ask \cap {"vlan", "mtu", "ip"}
    /\ n.vlan = (IF "vlan" \in r.done THEN r.value ELSE r.before.vlan)
    /\ n.mtu = (IF "mtu" \in r.done THEN r.value ELSE r.before.mtu)
    /\ n.addr = (IF "ip" \notin r.ask \/ "flush" \in Left(r) THEN r.before.addr
                 ELSE IF "addr" \in Left(r) THEN Unset ELSE r.value)
    /\ "vlan" \in r.ask => ("vlan" \in Left(r) <=> "vlan" \notin r.done)
    /\ "mtu" \in r.ask => ("mtu" \in Left(r) <=> "mtu" \notin r.done)
    /\ "ip" \in r.ask => ("ip_done" \in Left(r) <=> "ip" \notin r.done)
    /\ "vlan" \in r.ask /\ "get_vlan" \notin Left(r) => r.old.vlan = r.before.vlan
    /\ "mtu" \in r.ask /\ "get_mtu" \notin Left(r) => r.old.mtu = r.before.mtu
    /\ "ip" \in r.ask /\ "get_ip" \notin Left(r) => r.old.addr = r.before.addr
    /\ r.failed \in {"", "first"}
RouteTale(r, way) ==
    /\ "gateway" \in r.ask /\ "route" \notin Left(r) => way = r.on \/ r.routed
    /\ ~r.routed => way \in {Unset, r.on}

\* What its rollback has set again so far.
BackTale(r, n) ==
    /\ r.done \subseteq r.ask \cap {"vlan", "mtu", "ip"}
    /\ "old_vlan" \notin Left(r) => n.vlan = r.before.vlan
    /\ "old_mtu" \notin Left(r) => n.mtu = r.before.mtu
    /\ "vlan" \in r.done => r.old.vlan = r.before.vlan
    /\ "mtu" \in r.done => r.old.mtu = r.before.mtu
    /\ "ip" \in r.done =>
          /\ r.old.addr = r.before.addr
          /\ r.before.addr = Unset => "read_ip" \in Left(r)
          /\ r.before.addr # Unset => r.value = r.before.addr
          /\ "addr" \notin Left(r) => n.addr = r.before.addr
          /\ "flush" \notin Left(r) /\ "addr" \in Left(r) => n.addr = Unset
          /\ r.failed # ""
    /\ "ip" \notin r.done /\ n.addr # r.before.addr =>
          n.addr = Unset /\ "ip" \in r.ask /\ r.failed = "first"

SetTale(r, B, n, way) ==
    /\ r.ok = "none" => /\ r.on \in B
                        /\ ~r.undoing => FirstTale(r, n) /\ RouteTale(r, way)
                        /\ r.undoing => BackTale(r, n)
    /\ r.ok = "SYS_OK" =>
          /\ n = [vlan |-> IF "vlan" \in r.ask THEN r.value ELSE r.before.vlan,
                  mtu |-> IF "mtu" \in r.ask THEN r.value ELSE r.before.mtu,
                  addr |-> IF "ip" \in r.ask THEN r.value ELSE r.before.addr]
          /\ "gateway" \in r.ask => way = r.on \/ r.routed
    /\ r.ok = "SYS_FAIL" =>
          /\ n.vlan = r.before.vlan /\ n.mtu = r.before.mtu
          /\ n.addr # r.before.addr =>
                n.addr = Unset /\ "ip" \in r.ask /\ r.failed = "first"
    /\ r.ok = "raised" =>
          \/ "vlan" \in r.bad /\ n = r.before
          \/ "mtu" \in r.bad
          \/ r.failed = "rollback"
          \/ "vlan" \in r.done /\ r.before.vlan = Unset
          \/ "ip" \in r.done /\ r.before.addr = Unset

NicAloneInv ==
    \A c \in nicAlone :
        /\ \A d \in NicCallers : d # c => ~Running(d)
        /\ nicCall[c].op = "Set" =>
              SetTale(nicCall[c], bridges, nic[nicCall[c].on], route)

NicInv == NicTyped /\ LiveInv /\ NicAloneInv

-----------------------------------------------------------------------------
(* The steps of a call                                                     *)

LEMMA CallTyped ==
    ASSUME NicTyped, NEW c \in NicCallers
    PROVE  nicCall[c] \in NicCallRecord /\ TaskSound(nicCall[c])
BY DEF NicTyped

\* What comes first, and what comes after it.
LEMMA HeadOf ==
    ASSUME NEW r \in NicCallRecord, TaskSound(r), r.todo # <<>>
    PROVE  /\ Head(r.todo) \in Left(r) /\ Head(r.todo) \in Plan(r) \cup MayCast(r)
           /\ \A x \in Left(r) : x = Head(r.todo) \/ Rank(r.op, Head(r.todo)) < Rank(r.op, x)
           /\ \A y \in Plan(r) : Rank(r.op, Head(r.todo)) < Rank(r.op, y) => y \in Left(r)
           /\ Tail(r.todo) \in Seq(AllSteps) /\ Ranked(r.op, Tail(r.todo))
           /\ StepsOf(Tail(r.todo)) = Left(r) \ {Head(r.todo)}
           /\ Left(r) \subseteq AllSteps
<1>1. Lists(r.op, r.todo, Left(r))
  BY DEF Lists, Left, TaskSound, NicCallRecord
<1>2. /\ Head(r.todo) \in Left(r)
      /\ \A x \in Left(r) : x = Head(r.todo) \/ Rank(r.op, Head(r.todo)) < Rank(r.op, x)
      /\ Lists(r.op, Tail(r.todo), Left(r) \ {Head(r.todo)})
  BY <1>1, FirstStep
<1>3. Left(r) \subseteq AllSteps
  <2>1. r.todo \in Seq(AllSteps)
    BY DEF NicCallRecord
  <2>2. \A i \in DOMAIN r.todo : r.todo[i] \in AllSteps
    BY <2>1, ElementOfSeq, LenProperties
  <2>3. QED
    BY <2>2 DEF Left, StepsOf
<1>4. QED
  BY <1>2, <1>3 DEF Lists, TaskSound

\* A handler that goes on with its list.
LEMMA SkipSound ==
    ASSUME NEW r \in NicCallRecord, TaskSound(r), r.todo # <<>>, NEW q,
           q.op = r.op, q.undoing = r.undoing, q.ask = r.ask, q.value = r.value,
           r.undoing => q.done = r.done, q.todo = Tail(r.todo)
    PROVE  TaskSound(q) /\ Left(q) = Left(r) \ {Head(r.todo)}
<1>1. Left(q) = Left(r) \ {Head(r.todo)} /\ Ranked(q.op, q.todo)
  BY HeadOf DEF Left
<1>2. Plan(q) = Plan(r) /\ MayCast(q) = MayCast(r)
  BY DEF Plan, MayCast
<1>3. ASSUME NEW x \in Left(q), NEW y \in Plan(q), Rank(q.op, x) < Rank(q.op, y)
      PROVE  y \in Left(q)
  <2>1. x \in Left(r) /\ x # Head(r.todo) /\ y \in Plan(r)
    BY <1>1, <1>2
  <2>2. y \in Left(r) /\ Rank(r.op, Head(r.todo)) < Rank(r.op, x)
    BY <1>3, <2>1, HeadOf DEF TaskSound
  <2>3. x \in AllSteps /\ y \in AllSteps /\ Head(r.todo) \in AllSteps
    BY <2>1, <2>2, HeadOf
  <2>4. y # Head(r.todo)
    BY <1>3, <2>2, <2>3, RankIsInt
  <2>5. QED
    BY <1>1, <2>2, <2>4
<1>4. QED
  BY <1>1, <1>2, <1>3 DEF TaskSound

LEMMA ThreeTails ==
    ASSUME NEW s \in Seq(AllSteps), s # <<>>, Tail(s) # <<>>, Tail(Tail(s)) # <<>>
    PROVE  SubSeq(s, 4, Len(s)) = Tail(Tail(Tail(s)))
<1>1. Len(s) \in Nat \ {0} /\ Tail(s) \in Seq(AllSteps) /\ Len(Tail(s)) = Len(s) - 1
  BY LenProperties, EmptySeq, HeadTailProperties
<1>2. /\ Len(Tail(s)) \in Nat \ {0} /\ Tail(Tail(s)) \in Seq(AllSteps)
      /\ Len(Tail(Tail(s))) = Len(Tail(s)) - 1
  BY <1>1, LenProperties, EmptySeq, HeadTailProperties
<1>3. Len(Tail(Tail(s))) \in Nat \ {0}
  BY <1>2, LenProperties, EmptySeq
<1>4. Len(s) \in Nat /\ Len(s) >= 3
  BY <1>1, <1>2, <1>3
<1>5. Tail(s) = SubSeq(s, 2, Len(s))
  BY TailIsSubSeq
<1>6. Tail(SubSeq(s, 2, Len(s))) = SubSeq(s, 3, Len(s))
  <2>1. 2 \in 1..Len(s) /\ Len(s) \in 2..Len(s) /\ 2 + 1 = 3
    BY <1>4
  <2>2. QED
    BY <2>1, HeadTailOfSubSeq
<1>7. Tail(SubSeq(s, 3, Len(s))) = SubSeq(s, 4, Len(s))
  <2>1. 3 \in 1..Len(s) /\ Len(s) \in 3..Len(s) /\ 3 + 1 = 4
    BY <1>4
  <2>2. QED
    BY <2>1, HeadTailOfSubSeq
<1>8. QED
  BY <1>5, <1>6, <1>7

\* save_conf_file_item passed over: its three steps are gone.
LEMMA SaveSkipped ==
    ASSUME NEW r \in NicCallRecord, TaskSound(r), r.todo # <<>>, NEW q,
           NEW x \in {"read_ip", "read_mask"}, Head(r.todo) = x,
           q.op = r.op, q.undoing = r.undoing, q.ask = r.ask, q.value = r.value,
           q.done = r.done, q.todo = SubSeq(r.todo, 4, Len(r.todo))
    PROVE  /\ TaskSound(q) /\ q.todo \in Seq(AllSteps)
           /\ Left(q) \subseteq Left(r)
           /\ \A d \in Left(r) : d \in Left(q) \/ d \in SaveSteps
<1>0. PICK y, z : \/ x = "read_ip" /\ y = "open_ip" /\ z = "write_ip"
                  \/ x = "read_mask" /\ y = "open_mask" /\ z = "write_mask"
  OBVIOUS
<1> DEFINE s == r.todo
           t == Tail(s)
           u == Tail(t)
<1>1. /\ x \in Plan(r) /\ y \in Plan(r) /\ z \in Plan(r)
  <2>1. x \in Plan(r) \cup MayCast(r) /\ x # "multicast"
    BY HeadOf
  <2>2. x \in Plan(r)
    BY <2>1 DEF MayCast
  <2>3. QED
    BY <1>0, <2>2 DEF Plan, FirstSteps, BackSteps, IpSteps, SaveSteps
<1>2. /\ Rank(r.op, y) = Rank(r.op, x) + 1 /\ Rank(r.op, z) = Rank(r.op, x) + 2
      /\ Rank(r.op, x) \in Int
  <2>1. CASE x = "read_ip" /\ y = "open_ip" /\ z = "write_ip"
    BY <2>1, Ranks
  <2>2. CASE x = "read_mask" /\ y = "open_mask" /\ z = "write_mask"
    BY <2>2, Ranks
  <2>3. QED
    BY <1>0, <2>1, <2>2
<1>3. y \in Left(r) /\ z \in Left(r) /\ x # y /\ x # z /\ y # z
  BY <1>0, <1>1, <1>2, HeadOf
<1>4. Lists(r.op, s, Left(r))
  BY DEF Lists, Left, TaskSound, NicCallRecord
<1>5. Lists(r.op, t, Left(r) \ {x})
  BY <1>4, FirstStep
<1>6. t # <<>> /\ Head(t) = y
  <2>1. t # <<>>
    <3>1. StepsOf(t) # {}
      BY <1>3, <1>5 DEF Lists
    <3>2. StepsOf(<<>>) = {}
      BY ListOfNone DEF Lists
    <3>3. QED
      BY <3>1, <3>2
  <2>2. /\ Head(t) \in Left(r) \ {x} /\ Head(t) \in AllSteps
        /\ y = Head(t) \/ Rank(r.op, Head(t)) < Rank(r.op, y)
    BY <1>3, <1>5, <2>1, FirstStep, ZenonT(60)
  <2>3. Rank(r.op, x) < Rank(r.op, Head(t)) /\ Rank(r.op, Head(t)) \in Int
    BY <2>2, HeadOf, RankIsInt
  <2>4. QED
    BY <1>2, <2>1, <2>2, <2>3
<1>7. Lists(r.op, u, (Left(r) \ {x}) \ {y})
  BY <1>5, <1>6, FirstStep
<1>8. u # <<>> /\ Head(u) = z
  <2>1. u # <<>>
    <3>1. StepsOf(u) # {}
      BY <1>3, <1>7 DEF Lists
    <3>2. StepsOf(<<>>) = {}
      BY ListOfNone DEF Lists
    <3>3. QED
      BY <3>1, <3>2
  <2> HIDE DEF u
  <2>2. /\ Head(u) \in (Left(r) \ {x}) \ {y} /\ Head(u) \in AllSteps
        /\ z = Head(u) \/ Rank(r.op, Head(u)) < Rank(r.op, z)
    <3> DEFINE X == (Left(r) \ {x}) \ {y}
    <3>1. Lists(r.op, u, X) /\ z \in X
      BY <1>3, <1>7
    <3> HIDE DEF X
    <3>2. /\ Head(u) \in X /\ Head(u) \in AllSteps
          /\ z = Head(u) \/ Rank(r.op, Head(u)) < Rank(r.op, z)
      BY <2>1, <3>1, FirstStep
    <3>3. QED
      BY <3>2 DEF X
  <2>3. Rank(r.op, Head(u)) \in Int
    BY <2>2, RankIsInt
  <2>4. Rank(r.op, y) < Rank(r.op, Head(u))
    <3> HIDE DEF t
    <3>1. Head(u) \in Left(r) \ {x} /\ Head(u) # Head(t)
      BY <1>6, <2>2
    <3>2. QED
      BY <1>5, <1>6, <3>1, FirstStep
  <2>5. QED
    BY <1>2, <2>1, <2>2, <2>3, <2>4
<1>9. Lists(r.op, Tail(u), ((Left(r) \ {x}) \ {y}) \ {z})
  BY <1>7, <1>8, FirstStep
<1>10. q.todo = Tail(u) /\ Tail(u) \in Seq(AllSteps)
  <2>1. s \in Seq(AllSteps)
    BY <1>4 DEF Lists
  <2>2. q.todo = Tail(u)
    BY <1>6, <1>8, <2>1, ThreeTails
  <2>3. QED
    BY <1>9, <2>2 DEF Lists
<1>11. Left(q) = ((Left(r) \ {x}) \ {y}) \ {z} /\ Ranked(q.op, q.todo) /\ q.todo \in Seq(AllSteps)
  BY <1>9, <1>10 DEF Lists, Left
<1>12. Plan(q) = Plan(r) /\ MayCast(q) = MayCast(r)
  BY DEF Plan, MayCast
<1>13. ASSUME NEW a \in Left(q), NEW b \in Plan(q), Rank(q.op, a) < Rank(q.op, b)
       PROVE  b \in Left(q)
  <2>1. a \in Left(r) /\ b \in Plan(r) /\ b \in Left(r)
    BY <1>11, <1>12, <1>13 DEF TaskSound
  <2>2. Rank(r.op, z) < Rank(r.op, a)
    BY <1>7, <1>8, <1>11, FirstStep
  <2>3. Rank(r.op, a) \in Int /\ Rank(r.op, b) \in Int
    BY <2>1, HeadOf, RankIsInt
  <2>4. b # x /\ b # y /\ b # z
    BY <1>2, <1>13, <2>2, <2>3
  <2>5. QED
    BY <1>11, <2>1, <2>4
<1>14. x \in SaveSteps /\ y \in SaveSteps /\ z \in SaveSteps
  BY <1>0 DEF SaveSteps
<1>15. QED
  BY <1>11, <1>12, <1>13, <1>14 DEF TaskSound

\* A NetAgentException: the rollback is what is left, or nothing more is done.
LEMMA RaiseSound ==
    ASSUME NEW r \in NicCallRecord, TaskSound(r)
    PROVE  /\ Raise(r) \in NicCallRecord /\ TaskSound(Raise(r))
           /\ Raise(r).op = r.op /\ Raise(r).on = r.on /\ Raise(r).ask = r.ask
           /\ Raise(r).bad = r.bad /\ Raise(r).done = r.done /\ Raise(r).old = r.old
           /\ Raise(r).before = r.before /\ Raise(r).failed = r.failed
           /\ r.op = "Set" /\ ~r.undoing =>
                 /\ Raise(r).ok = r.ok /\ Raise(r).undoing = TRUE
                 /\ Left(Raise(r)) = BackSteps(r.done)
                 /\ Raise(r).value = IF r.old.addr = Unset THEN r.value ELSE r.old.addr
           /\ r.op = "Set" /\ r.undoing => Raise(r).ok = "raised"
           /\ r.op # "Set" => Raise(r).ok \in {"SYS_FAIL", "raised"}
<1>1. CASE r.op = "Set" /\ ~r.undoing
  <2> DEFINE q == [r EXCEPT !.undoing = TRUE, !.todo = Rollback(r.done), !.value =
                     IF r.old.addr = Unset THEN @ ELSE r.old.addr]
  <2>1. Raise(r) = q
    BY <1>1 DEF Raise
  <2>2. Lists("Set", Rollback(r.done), BackSteps(r.done))
    BY RollbackList
  <2>3. r.old.addr \in Setting /\ r.value \in Values
    BY <1>1 DEF NicCallRecord, Card, TaskSound
  <2>4. /\ q \in NicCallRecord /\ q.op = r.op /\ q.on = r.on /\ q.ask = r.ask
        /\ q.bad = r.bad /\ q.done = r.done /\ q.old = r.old
        /\ q.before = r.before /\ q.failed = r.failed /\ q.ok = r.ok /\ q.undoing = TRUE
        /\ q.todo = Rollback(r.done)
        /\ q.value = IF r.old.addr = Unset THEN r.value ELSE r.old.addr
    <3>1. Rollback(r.done) \in Seq(AllSteps)
      BY <2>2 DEF Lists
    <3>2. QED
      BY <2>3, <3>1 DEF NicCallRecord
  <2> HIDE DEF q
  <2>5. Left(q) = BackSteps(r.done) /\ Ranked(q.op, q.todo)
    BY <1>1, <2>2, <2>4 DEF Lists, Left
  <2>6. Plan(q) = BackSteps(r.done) /\ q.value \in Values
    BY <1>1, <2>3, <2>4 DEF Plan, Setting
  <2>7. TaskSound(q)
    BY <1>1, <2>4, <2>5, <2>6 DEF TaskSound
  <2>8. QED
    BY <1>1, <2>1, <2>4, <2>5, <2>7
<1>2. CASE ~(r.op = "Set" /\ ~r.undoing)
  <2>1. PICK a \in NicAnswers : Raise(r) = [r EXCEPT !.ok = a]
                                /\ (r.op = "Set" => a = "raised") /\ a \in {"SYS_FAIL", "raised"}
    BY <1>2 DEF Raise, NicAnswers
  <2> DEFINE q == [r EXCEPT !.ok = a]
  <2>2. /\ q \in NicCallRecord /\ q.op = r.op /\ q.on = r.on /\ q.ask = r.ask /\ q.value = r.value
        /\ q.bad = r.bad /\ q.done = r.done /\ q.old = r.old /\ q.todo = r.todo
        /\ q.before = r.before /\ q.failed = r.failed /\ q.ok = a /\ q.undoing = r.undoing
    BY DEF NicCallRecord
  <2> HIDE DEF q
  <2>3. Left(q) = Left(r) /\ Plan(q) = Plan(r) /\ MayCast(q) = MayCast(r)
    BY <2>2 DEF Left, Plan, MayCast
  <2>4. TaskSound(q)
    BY <2>2, <2>3 DEF TaskSound
  <2>5. Raise(r) = q
    BY <2>1 DEF q
  <2>6. QED
    BY <1>2, <2>1, <2>2, <2>4, <2>5
<1>3. QED
  BY <1>1, <1>2

-----------------------------------------------------------------------------
(* What a step of one call keeps                                           *)

LEMMA SkipIs ==
    ASSUME NEW r \in NicCallRecord, TaskSound(r), r.todo # <<>>
    PROVE  /\ Skip(r) \in NicCallRecord /\ TaskSound(Skip(r))
           /\ Skip(r) = [r EXCEPT !.todo = Tail(r.todo)]
           /\ Skip(r).op = r.op /\ Skip(r).on = r.on /\ Skip(r).ask = r.ask
           /\ Skip(r).value = r.value /\ Skip(r).bad = r.bad /\ Skip(r).done = r.done
           /\ Skip(r).old = r.old /\ Skip(r).copy = r.copy /\ Skip(r).undoing = r.undoing
           /\ Skip(r).ok = r.ok /\ Skip(r).before = r.before /\ Skip(r).routed = r.routed
           /\ Skip(r).failed = r.failed
           /\ Left(Skip(r)) = Left(r) \ {Head(r.todo)}
<1> DEFINE q == Skip(r)
<1>1. /\ q = [r EXCEPT !.todo = Tail(r.todo)]
      /\ q.op = r.op /\ q.on = r.on /\ q.ask = r.ask
      /\ q.value = r.value /\ q.bad = r.bad /\ q.done = r.done
      /\ q.old = r.old /\ q.copy = r.copy /\ q.undoing = r.undoing
      /\ q.ok = r.ok /\ q.before = r.before /\ q.routed = r.routed
      /\ q.failed = r.failed /\ q.todo = Tail(r.todo)
  BY DEF Skip, NicCallRecord
<1>2. q \in NicCallRecord
  BY <1>1, HeadOf DEF NicCallRecord
<1> HIDE DEF q
<1>3. TaskSound(q) /\ Left(q) = Left(r) \ {Head(r.todo)}
  BY <1>1, SkipSound
<1>4. QED
  BY <1>1, <1>2, <1>3 DEF q

\* A step that has nothing to do with the file or the address.
OtherSteps == {"link", "get_vlan", "vlan", "get_mtu", "mtu", "get_ip", "ip_done", "route",
               "old_mtu", "old_vlan", "multicast"}

LEMMA StageSkip ==
    ASSUME NEW r \in NicCallRecord, NEW q \in NicCallRecord, TaskSound(r),
           r.todo # <<>>, Head(r.todo) \in OtherSteps,
           q.op = r.op, q.value = r.value, q.copy = r.copy, q.undoing = r.undoing,
           r.undoing => q.old = r.old, Left(q) = Left(r) \ {Head(r.todo)},
           q.on = r.on, NEW B, NEW n, NEW m, m.addr = n.addr, NEW f, Stage(r, B, n, f)
    PROVE  Stage(q, B, m, f)
<1>1. \A x \in SaveSteps \cup {"add_br", "generate", "del_br", "remove", "flush", "addr"} :
         x \in Left(q) <=> x \in Left(r)
  BY DEF SaveSteps, OtherSteps
<1>2. InSave(r, f) => InSave(q, f)
  BY <1>1 DEF InSave, ValueOf, SaveSteps
<1>3. LiveFile(r.on, B, m) = LiveFile(r.on, B, n)
  BY DEF LiveFile
<1>4. QED
  BY <1>1, <1>2, <1>3 DEF Stage, SaveSteps

\* There is no call for the switch any more, or it starts to undo.
LEMMA StageRaise ==
    ASSUME NEW r \in NicCallRecord, NEW q \in NicCallRecord, r.op = "Set", q.op = "Set",
           q.undoing = TRUE, Left(q) = BackSteps(r.done),
           q.on = r.on, NEW B, r.on \in B, NEW n, NEW f,
           f = LiveFile(r.on, B, n)
    PROVE  Stage(q, B, n, f)
<1>1. \/ \A x \in IpSteps : x \in Left(q)
      \/ \A x \in IpSteps : x \notin Left(q)
  BY DEF BackSteps, IpSteps, SaveSteps
<1>2. InSave(q, f)
  BY <1>1 DEF InSave, IpSteps, SaveSteps
<1>3. QED
  BY <1>1, <1>2 DEF Stage, IpSteps, SaveSteps

LEMMA StageFrame ==
    ASSUME NEW r, NEW B, NEW D, r.on \in B <=> r.on \in D, NEW n, NEW f, Stage(r, B, n, f)
    PROVE  Stage(r, D, n, f)
<1>1. LiveFile(r.on, B, n) = LiveFile(r.on, D, n)
  BY DEF LiveFile
<1>2. QED
  BY <1>1 DEF Stage

LEMMA NicStep ==
    ASSUME NicInv, NEW c \in NicCallers, NEW r, r = nicCall[c], NEW q \in NicCallRecord, Running(c),
           nicCall' = [nicCall EXCEPT ![c] = q], TaskSound(q), q.op = r.op, q.on = r.on,
           nicCalls' = nicCalls, nicAlone' = nicAlone, nicDirty' \in {nicDirty, nicDirty \cup {r.on}},
           bridges' \in SUBSET NicSwitches, nic' \in [NicSwitches -> Card], conf' \in [NicSwitches -> Conf],
           route' \in NicSwitches \cup {Unset, Other},
           \A s \in NicSwitches \ {r.on} :
              (s \in bridges' <=> s \in bridges) /\ nic'[s] = nic[s] /\ conf'[s] = conf[s],
           r.on \notin bridges' => nic'[r.on] = NewNic,
           r.on \notin nicDirty' /\ Stage(r, bridges, nic[r.on], conf[r.on]) =>
              IF q.ok = "none" THEN Stage(q, bridges', nic'[r.on], conf'[r.on])
              ELSE conf'[r.on] = LiveFile(r.on, bridges', nic'[r.on]),
           c \in nicAlone /\ r.op = "Set" /\ SetTale(r, bridges, nic[r.on], route) =>
              SetTale(q, bridges', nic'[r.on], route')
    PROVE  NicInv'
<1>1. NicTyped /\ LiveInv /\ NicAloneInv
  BY DEF NicInv
<1>2. /\ \A d \in NicCallers : nicCall'[d] = IF d = c THEN q ELSE nicCall[d]
      /\ r.on \in NicSwitches /\ r.op # "none" /\ r.ok = "none"
  BY <1>1 DEF NicTyped, NicCallRecord, Running
<1>3. NicTyped'
  <2>1. nicCall' \in [NicCallers -> NicCallRecord] /\ \A d \in NicCallers : TaskSound(nicCall'[d])
    BY <1>1, <1>2 DEF NicTyped
  <2>2. \A s \in NicSwitches \ bridges' : nic'[s] = NewNic
    BY <1>1 DEF NicTyped
  <2>3. nicDirty' \in SUBSET NicSwitches /\ nicCalls' \in 0..NicMaxCalls /\ nicAlone' \in SUBSET NicCallers
    BY <1>1, <1>2 DEF NicTyped
  <2>4. \A d \in NicCallers : TaskSound(nicCall[d])'
    BY <2>1
  <2>5. QED
    BY <2>1, <2>2, <2>3, <2>4 DEF NicTyped
<1>4. \A d \in NicCallers : /\ Running(d)' => Running(d)
                            /\ d # c => (Running(d)' <=> Running(d))
                            /\ nicCall'[d].on = nicCall[d].on
  BY <1>2 DEF Running
<1>5. Running(c)' <=> q.ok = "none"
  BY <1>2 DEF Running
<1>6. LiveInv'
  <2> SUFFICES ASSUME NEW s \in NicSwitches, s \notin nicDirty'
               PROVE  /\ \A d, e \in NicCallers :
                            Running(d)' /\ Running(e)' /\ nicCall'[d].on = s /\ nicCall'[e].on = s => d = e
                      /\ Settled(s)' => conf'[s] = LiveFile(s, bridges', nic'[s])
                      /\ \A d \in NicCallers : Running(d)' /\ nicCall'[d].on = s =>
                            Stage(nicCall'[d], bridges', nic'[s], conf'[s])
    BY DEF LiveInv
  <2>1. s \notin nicDirty
    OBVIOUS
  <2>2. /\ \A d, e \in NicCallers :
              Running(d) /\ Running(e) /\ nicCall[d].on = s /\ nicCall[e].on = s => d = e
        /\ Settled(s) => conf[s] = LiveFile(s, bridges, nic[s])
        /\ \A d \in NicCallers : Running(d) /\ nicCall[d].on = s =>
              Stage(nicCall[d], bridges, nic[s], conf[s])
    BY <1>1, <2>1 DEF LiveInv
  <2>3. \A d, e \in NicCallers :
           Running(d)' /\ Running(e)' /\ nicCall'[d].on = s /\ nicCall'[e].on = s => d = e
    BY <1>4, <2>2
  <2>4. CASE s = r.on
    <3>1. Stage(r, bridges, nic[s], conf[s])
      BY <2>2, <2>4
    <3>2. IF q.ok = "none" THEN Stage(q, bridges', nic'[s], conf'[s])
          ELSE conf'[s] = LiveFile(s, bridges', nic'[s])
      BY <2>4, <3>1
    <3>3. Settled(s)' => q.ok # "none"
      <4>1. Settled(s)' => (Running(c)' => nicCall'[c].on # s)
        BY DEF Settled
      <4>2. QED
        BY <1>4, <1>5, <2>4, <4>1
    <3>4. ASSUME NEW d \in NicCallers, Running(d)', nicCall'[d].on = s
          PROVE  Stage(nicCall'[d], bridges', nic'[s], conf'[s])
      <4>1. d = c
        BY <1>4, <2>2, <2>4, <3>4
      <4>2. QED
        BY <1>2, <1>5, <3>2, <3>4, <4>1
    <3>5. QED
      BY <2>3, <3>2, <3>3, <3>4
  <2>5. CASE s # r.on
    <3>1. (s \in bridges' <=> s \in bridges) /\ nic'[s] = nic[s] /\ conf'[s] = conf[s]
      BY <2>5
    <3>2. ASSUME NEW d \in NicCallers, Running(d)', nicCall'[d].on = s
          PROVE  Stage(nicCall'[d], bridges', nic'[s], conf'[s])
      <4>1. d # c /\ nicCall'[d] = nicCall[d] /\ Running(d) /\ nicCall[d].on = s
        BY <1>2, <1>4, <2>5, <3>2
      <4>2. Stage(nicCall[d], bridges, nic[s], conf[s])
        BY <2>2, <4>1
      <4>3. Stage(nicCall[d], bridges', nic[s], conf[s])
        BY <3>1, <4>1, <4>2, StageFrame
      <4>4. QED
        BY <3>1, <4>1, <4>3
    <3>3. Settled(s)' => Settled(s)
      <4> SUFFICES ASSUME Settled(s)' PROVE Settled(s)
        OBVIOUS
      <4>1. \A d \in NicCallers : Running(d)' => nicCall'[d].on # s
        BY DEF Settled
      <4>2. \A d \in NicCallers : Running(d) => nicCall[d].on # s
        BY <1>4, <2>5, <4>1
      <4>3. QED
        BY <4>2 DEF Settled
    <3>4. LiveFile(s, bridges', nic'[s]) = LiveFile(s, bridges, nic[s])
      BY <3>1 DEF LiveFile
    <3>5. QED
      BY <2>2, <2>3, <3>1, <3>2, <3>3, <3>4
  <2>6. QED
    BY <2>4, <2>5
<1>7. NicAloneInv'
  <2> SUFFICES ASSUME NEW d \in nicAlone
               PROVE  /\ \A e \in NicCallers : e # d => ~Running(e)'
                      /\ nicCall'[d].op = "Set" =>
                            SetTale(nicCall'[d], bridges', nic'[nicCall'[d].on], route')
    BY DEF NicAloneInv
  <2>1. d \in NicCallers
    BY <1>1 DEF NicTyped
  <2>2. /\ \A e \in NicCallers : e # d => ~Running(e)
        /\ nicCall[d].op = "Set" =>
              SetTale(nicCall[d], bridges, nic[nicCall[d].on], route)
    BY <1>1 DEF NicAloneInv
  <2>3. d = c
    BY <2>1, <2>2
  <2>4. QED
    BY <1>2, <1>4, <2>2, <2>3
<1>8. QED
  BY <1>3, <1>6, <1>7 DEF NicInv

\* Whose step it is.
LEMMA OpOf ==
    ASSUME NEW r \in NicCallRecord, TaskSound(r), r.todo # <<>>, NEW h, h = Head(r.todo)
    PROVE  /\ h \in {"add_br", "generate"} => r.op = "Add"
           /\ h \in {"del_br", "remove"} => r.op = "Del"
           /\ h = "multicast" => r.op \in {"Add", "Modify"}
           /\ h \in {"link", "get_vlan", "vlan", "get_mtu", "mtu", "get_ip", "ip_done", "route"} =>
                 r.op = "Set" /\ ~r.undoing
           /\ h \in {"get_vlan", "vlan"} => "vlan" \in r.ask
           /\ h \in {"get_mtu", "mtu"} => "mtu" \in r.ask
           /\ h \in {"get_ip", "ip_done"} => "ip" \in r.ask
           /\ h = "route" => "gateway" \in r.ask
           /\ h \in {"old_vlan", "old_mtu"} => r.op = "Set" /\ r.undoing
           /\ h = "old_vlan" => "vlan" \in r.done
           /\ h = "old_mtu" => "mtu" \in r.done
           /\ h = "addr" => r.op = "Set"
           /\ h \in IpSteps => r.op \in {"Set", "Clear"}
           /\ h \in IpSteps /\ r.op = "Set" /\ ~r.undoing => "ip" \in r.ask
           /\ h \in IpSteps /\ r.op = "Set" /\ r.undoing => "ip" \in r.done
<1>1. h \in Plan(r) \cup MayCast(r)
  BY HeadOf
<1>2. CASE r.op = "Set" /\ ~r.undoing
  <2>1. h \in FirstSteps(r.ask)
    BY <1>1, <1>2 DEF Plan, MayCast
  <2>2. QED
    BY <1>2, <2>1 DEF FirstSteps, IpSteps, SaveSteps
<1>3. CASE r.op = "Set" /\ r.undoing
  <2>1. h \in BackSteps(r.done)
    BY <1>1, <1>3 DEF Plan, MayCast
  <2>2. QED
    BY <1>3, <2>1 DEF BackSteps, IpSteps, SaveSteps
<1>4. CASE r.op = "Clear"
  BY <1>1, <1>4 DEF Plan, MayCast, IpSteps, SaveSteps
<1>5. CASE r.op = "Add"
  BY <1>1, <1>5 DEF Plan, MayCast, IpSteps, SaveSteps
<1>6. CASE r.op = "Del"
  BY <1>1, <1>6 DEF Plan, MayCast, IpSteps, SaveSteps
<1>7. CASE r.op \in {"none", "Modify"}
  BY <1>1, <1>7 DEF Plan, MayCast, IpSteps, SaveSteps
<1>8. QED
  BY <1>2, <1>3, <1>4, <1>5, <1>6, <1>7 DEF NicCallRecord

LEMMA StepFacts ==
    ASSUME NicInv, NEW c \in NicCallers, NEW r, r = nicCall[c], Running(c)
    PROVE  /\ r \in NicCallRecord /\ TaskSound(r) /\ r.on \in NicSwitches
           /\ r.ok = "none" /\ r.op # "none"
           /\ bridges \in SUBSET NicSwitches /\ nic \in [NicSwitches -> Card] /\ nic[r.on] \in Card
           /\ conf \in [NicSwitches -> Conf] /\ conf[r.on] \in Conf
           /\ route \in NicSwitches \cup {Unset, Other}
           /\ r.on \notin bridges => nic[r.on] = NewNic
<1>1. r \in NicCallRecord /\ TaskSound(r)
  BY DEF NicInv, NicTyped
<1>2. r.on \in NicSwitches /\ r.ok = "none" /\ r.op # "none"
  BY <1>1 DEF NicCallRecord, Running
<1>3. /\ bridges \in SUBSET NicSwitches /\ nic \in [NicSwitches -> Card]
      /\ conf \in [NicSwitches -> Conf] /\ route \in NicSwitches \cup {Unset, Other}
      /\ \A s \in NicSwitches \ bridges : nic[s] = NewNic
  BY DEF NicInv, NicTyped
<1>4. QED
  BY <1>1, <1>2, <1>3

LEMMA ConfIs ==
    /\ NewConf = [there |-> TRUE, head |-> TRUE, ip |-> Unset, mask |-> Unset]
    /\ \A x \in Setting, y \in Setting :
          [NewConf EXCEPT !.ip = x, !.mask = y] =
             [there |-> TRUE, head |-> TRUE, ip |-> x, mask |-> y]
    /\ Truncated \in Conf /\ NewConf \in Conf /\ NoConf \in Conf
<1>1. \A f \in Conf : f = [there |-> f.there, head |-> f.head, ip |-> f.ip, mask |-> f.mask]
  BY DEF Conf
<1>2. Unset \in Setting
  BY DEF Setting
<1>3. NoConf \in Conf /\ NoConf.ip = Unset /\ NoConf.mask = Unset
  BY <1>2 DEF NoConf, Conf
<1>4. /\ Truncated \in Conf /\ Truncated.there = TRUE
      /\ Truncated.ip = Unset /\ Truncated.mask = Unset
  BY <1>3 DEF Truncated, Conf
<1>5. /\ NewConf \in Conf /\ NewConf.there = TRUE /\ NewConf.head = TRUE
      /\ NewConf.ip = Unset /\ NewConf.mask = Unset
  BY <1>4 DEF NewConf, Conf
<1>6. ASSUME NEW x \in Setting, NEW y \in Setting
      PROVE  [NewConf EXCEPT !.ip = x, !.mask = y] =
                [there |-> TRUE, head |-> TRUE, ip |-> x, mask |-> y]
  <2> DEFINE f == [NewConf EXCEPT !.ip = x, !.mask = y]
  <2>1. f \in Conf /\ f.there = TRUE /\ f.head = TRUE /\ f.ip = x /\ f.mask = y
    BY <1>5 DEF Conf
  <2> HIDE DEF f
  <2>2. f = [there |-> f.there, head |-> f.head, ip |-> f.ip, mask |-> f.mask]
    BY <1>1, <2>1
  <2>3. QED
    BY <2>1, <2>2 DEF f
<1>7. NewConf = [there |-> TRUE, head |-> TRUE, ip |-> Unset, mask |-> Unset]
  <2>1. NewConf = [there |-> NewConf.there, head |-> NewConf.head,
                   ip |-> NewConf.ip, mask |-> NewConf.mask]
    BY <1>1, <1>5
  <2>2. QED
    BY <1>5, <2>1
<1>8. QED
  BY <1>3, <1>4, <1>5, <1>6, <1>7

\* A command fails that changes nothing.
LEMMA RaiseStep ==
    ASSUME NicInv, NEW c \in NicCallers, NEW r, r = nicCall[c], Running(c), Fails(c),
           UNCHANGED <<bridges, nic, conf, route, nicCalls, nicAlone, nicDirty>>,
           Stage(r, bridges, nic[r.on], conf[r.on]) =>
              conf[r.on] = LiveFile(r.on, bridges, nic[r.on]),
           r.op = "Set" /\ SetTale(r, bridges, nic[r.on], route) =>
              SetTale(Raise(r), bridges, nic[r.on], route)
    PROVE  NicInv'
<1> DEFINE q == Raise(r)
<1>1. /\ r \in NicCallRecord /\ TaskSound(r) /\ r.on \in NicSwitches
      /\ r.ok = "none" /\ r.op # "none"
      /\ bridges \in SUBSET NicSwitches /\ nic \in [NicSwitches -> Card]
      /\ conf \in [NicSwitches -> Conf]
      /\ route \in NicSwitches \cup {Unset, Other}
      /\ r.on \notin bridges => nic[r.on] = NewNic
  BY StepFacts
<1>2. /\ q \in NicCallRecord /\ TaskSound(q) /\ q.op = r.op /\ q.on = r.on
      /\ r.op = "Set" /\ ~r.undoing =>
            q.ok = r.ok /\ q.undoing = TRUE /\ Left(q) = BackSteps(r.done)
      /\ r.op = "Set" /\ r.undoing => q.ok = "raised"
      /\ r.op # "Set" => q.ok \in {"SYS_FAIL", "raised"}
  BY <1>1, RaiseSound
<1>3. nicCall' = [nicCall EXCEPT ![c] = q]
  BY DEF Fails, NicContinue
<1> HIDE DEF q
<1>4. Stage(r, bridges, nic[r.on], conf[r.on]) =>
         IF q.ok = "none" THEN Stage(q, bridges, nic[r.on], conf[r.on])
         ELSE conf[r.on] = LiveFile(r.on, bridges, nic[r.on])
  <2> SUFFICES ASSUME Stage(r, bridges, nic[r.on], conf[r.on])
               PROVE  IF q.ok = "none" THEN Stage(q, bridges, nic[r.on], conf[r.on])
                      ELSE conf[r.on] = LiveFile(r.on, bridges, nic[r.on])
    OBVIOUS
  <2>1. conf[r.on] = LiveFile(r.on, bridges, nic[r.on])
    OBVIOUS
  <2>2. CASE r.op = "Set" /\ ~r.undoing
    <3>1. r.on \in bridges
      BY <2>2 DEF Stage
    <3>2. Stage(q, bridges, nic[r.on], conf[r.on])
      BY <1>1, <1>2, <2>1, <2>2, <3>1, StageRaise
    <3>3. QED
      BY <2>1, <3>2
  <2>3. CASE ~(r.op = "Set" /\ ~r.undoing)
    BY <1>2, <2>1, <2>3
  <2>4. QED
    BY <2>2, <2>3
<1>5. r.op = "Set" /\ SetTale(r, bridges, nic[r.on], route) =>
         SetTale(q, bridges, nic[r.on], route)
  BY DEF q
<1>6. QED
  BY <1>1, <1>2, <1>3, <1>4, <1>5, NicStep

\* What was done when it starts to undo.
LEMMA TaleRaise ==
    ASSUME NEW r \in NicCallRecord, TaskSound(r), r.todo # <<>>, r.op = "Set", ~r.undoing,
           r.ok = "none", NEW n, NEW way, NEW B, r.on \in B, FirstTale(r, n),
           r.failed = "first" \/ "ip" \notin r.ask \/ "flush" \in Left(r),
           "ip" \in r.ask /\ "addr" \notin Left(r) => "ip" \in r.done
    PROVE  SetTale(Raise(r), B, n, way)
<1> DEFINE q == Raise(r)
<1>1. /\ q.op = r.op /\ q.on = r.on /\ q.ask = r.ask /\ q.done = r.done
      /\ q.old = r.old /\ q.before = r.before /\ q.failed = r.failed
      /\ q.ok = "none" /\ q.undoing = TRUE /\ Left(q) = BackSteps(r.done)
      /\ q.value = IF r.old.addr = Unset THEN r.value ELSE r.old.addr
  BY RaiseSound
<1> HIDE DEF q
<1>2. /\ "vlan" \in r.done => "vlan" \in r.ask /\ "vlan" \notin Left(r)
      /\ "mtu" \in r.done => "mtu" \in r.ask /\ "mtu" \notin Left(r)
      /\ "ip" \in r.done => "ip" \in r.ask /\ "ip_done" \notin Left(r)
  BY DEF FirstTale
<1>3. /\ "vlan" \in r.done => "get_vlan" \notin Left(r)
      /\ "mtu" \in r.done => "get_mtu" \notin Left(r)
      /\ "ip" \in r.done => "get_ip" \notin Left(r) /\ "flush" \notin Left(r)
                            /\ "addr" \notin Left(r)
  <2>1. \A x \in Left(r), y \in FirstSteps(r.ask) :
           Rank("Set", x) < Rank("Set", y) => y \in Left(r)
    BY DEF TaskSound, Plan
  <2>2. /\ Rank("Set", "get_vlan") = 2 /\ Rank("Set", "vlan") = 3
        /\ Rank("Set", "get_mtu") = 4 /\ Rank("Set", "mtu") = 5
        /\ Rank("Set", "get_ip") = 6 /\ Rank("Set", "flush") = 13 /\ Rank("Set", "addr") = 14
        /\ Rank("Set", "ip_done") = 15
    BY Ranks
  <2>3. /\ "vlan" \in r.ask => "vlan" \in FirstSteps(r.ask)
        /\ "mtu" \in r.ask => "mtu" \in FirstSteps(r.ask)
        /\ "ip" \in r.ask => "ip_done" \in FirstSteps(r.ask)
    BY DEF FirstSteps
  <2>4. QED
    BY <1>2, <2>1, <2>2, <2>3
<1>4. /\ "old_vlan" \in Left(q) <=> "vlan" \in r.done
      /\ "old_mtu" \in Left(q) <=> "mtu" \in r.done
      /\ \A x \in IpSteps : x \in Left(q) <=> "ip" \in r.done
      /\ "read_ip" \in IpSteps /\ "flush" \in IpSteps /\ "addr" \in IpSteps
  BY <1>1 DEF BackSteps, IpSteps, SaveSteps
<1>5. BackTale(q, n)
  BY <1>1, <1>2, <1>3, <1>4 DEF FirstTale, BackTale
<1>6. QED
  BY <1>1, <1>5 DEF SetTale, q

-----------------------------------------------------------------------------
(* The steps of a call keep the invariant                                  *)

LEMMA FinishKeeps ==
    ASSUME NicInv, NEW c \in NicCallers, NEW r, r = nicCall[c], Finish(c) PROVE NicInv'
<1>1. /\ Running(c) /\ r.todo = <<>>
      /\ UNCHANGED <<bridges, nic, conf, route, nicCalls, nicAlone, nicDirty>>
  BY DEF Finish
<1>2. /\ r \in NicCallRecord /\ TaskSound(r) /\ r.on \in NicSwitches
      /\ r.ok = "none" /\ r.op # "none"
      /\ bridges \in SUBSET NicSwitches /\ nic \in [NicSwitches -> Card] /\ nic[r.on] \in Card
      /\ conf \in [NicSwitches -> Conf]
      /\ route \in NicSwitches \cup {Unset, Other}
      /\ r.on \notin bridges => nic[r.on] = NewNic
  BY <1>1, StepFacts
<1> DEFINE q == [r EXCEPT !.ok = IF @ = "none" /\ ~r.undoing THEN "SYS_OK" ELSE "SYS_FAIL"]
<1>3. /\ q.op = r.op /\ q.on = r.on /\ q.ask = r.ask /\ q.value = r.value
      /\ q.bad = r.bad /\ q.done = r.done /\ q.old = r.old
      /\ q.undoing = r.undoing /\ q.before = r.before /\ q.routed = r.routed
      /\ q.failed = r.failed /\ q.todo = r.todo
      /\ q.ok = IF r.undoing THEN "SYS_FAIL" ELSE "SYS_OK"
  BY <1>2 DEF NicCallRecord
<1>4. q \in NicCallRecord
  BY <1>2 DEF NicCallRecord, NicAnswers
<1>5. nicCall' = [nicCall EXCEPT ![c] = q]
  BY DEF Finish, NicContinue
<1> HIDE DEF q
<1>6. TaskSound(q)
  BY <1>2, <1>3 DEF TaskSound, Plan, MayCast, Left
<1>7. Left(r) = {}
  BY <1>1, ListOfNone DEF Left, Lists
<1>8. Stage(r, bridges, nic[r.on], conf[r.on]) =>
         conf[r.on] = LiveFile(r.on, bridges, nic[r.on])
  BY <1>2, <1>7 DEF Stage, NicCallRecord
<1>9. r.op = "Set" /\ SetTale(r, bridges, nic[r.on], route) =>
         SetTale(q, bridges, nic[r.on], route)
  <2> SUFFICES ASSUME r.op = "Set", SetTale(r, bridges, nic[r.on], route)
               PROVE  SetTale(q, bridges, nic[r.on], route)
    OBVIOUS
  <2> DEFINE n == nic[r.on]
  <2>1. n \in Card
    BY <1>2
  <2> HIDE DEF n
  <2>2. CASE ~r.undoing
    <3>1. FirstTale(r, n) /\ RouteTale(r, route)
      BY <1>2, <2>2 DEF SetTale, n
    <3>2. /\ n.vlan = IF "vlan" \in r.ask THEN r.value ELSE r.before.vlan
          /\ n.mtu = IF "mtu" \in r.ask THEN r.value ELSE r.before.mtu
          /\ n.addr = IF "ip" \in r.ask THEN r.value ELSE r.before.addr
          /\ "gateway" \in r.ask => route = r.on \/ r.routed
      BY <1>7, <3>1 DEF FirstTale, RouteTale
    <3>3. n = [vlan |-> n.vlan, mtu |-> n.mtu, addr |-> n.addr]
      BY <2>1 DEF Card
    <3>4. q.ok = "SYS_OK"
      BY <1>3, <2>2
    <3>5. QED
      BY <1>3, <3>2, <3>3, <3>4 DEF SetTale, n
  <2>3. CASE r.undoing
    <3>1. BackTale(r, n)
      BY <1>2, <2>3 DEF SetTale, n
    <3>2. q.ok = "SYS_FAIL"
      BY <1>3, <2>3
    <3>3. QED
      BY <1>3, <1>7, <3>1, <3>2 DEF SetTale, BackTale, n
  <2>4. QED
    BY <2>2, <2>3
<1>10. QED
  BY <1>1, <1>2, <1>3, <1>4, <1>5, <1>6, <1>8, <1>9, NicStep

LEMMA AddBrKeeps ==
    ASSUME NicInv, NEW c \in NicCallers, NEW r, r = nicCall[c], AddBr(c) PROVE NicInv'
<1> DEFINE s == r.on
<1>1. /\ Running(c) /\ r.todo # <<>> /\ Head(r.todo) = "add_br"
      /\ bridges' = bridges \cup {s} /\ UNCHANGED <<nic, conf, route, nicCalls, nicAlone, nicDirty>>
      /\ s \in bridges => Fails(c)
      /\ s \notin bridges => Go(c)
  BY DEF AddBr, Doing
<1>2. /\ r \in NicCallRecord /\ TaskSound(r) /\ r.on \in NicSwitches
      /\ r.ok = "none" /\ r.op # "none"
      /\ bridges \in SUBSET NicSwitches /\ nic \in [NicSwitches -> Card] /\ nic[r.on] \in Card
      /\ conf \in [NicSwitches -> Conf]
      /\ route \in NicSwitches \cup {Unset, Other}
      /\ r.on \notin bridges => nic[r.on] = NewNic
  BY <1>1, StepFacts
<1>3. r.op = "Add"
  BY <1>1, <1>2, OpOf
<1>4. "add_br" \in Left(r) /\ "generate" \in Left(r)
  <2>1. "generate" \in Plan(r) /\ Rank(r.op, "add_br") < Rank(r.op, "generate")
    BY <1>3, Ranks DEF Plan
  <2>2. QED
    BY <1>1, <1>2, <2>1, HeadOf
<1>5. CASE s \in bridges
  <2>1. bridges' = bridges
    BY <1>1, <1>5
  <2>2. Stage(r, bridges, nic[s], conf[s]) => conf[s] = LiveFile(s, bridges, nic[s])
    BY <1>3, <1>4 DEF Stage
  <2>3. QED
    BY <1>1, <1>3, <1>5, <2>1, <2>2, RaiseStep
<1>6. CASE s \notin bridges
  <2> DEFINE q == Skip(r)
  <2>1. nicCall' = [nicCall EXCEPT ![c] = q]
    BY <1>1, <1>6 DEF Go, NicContinue
  <2>2. /\ q \in NicCallRecord /\ TaskSound(q) /\ q.op = r.op /\ q.on = r.on /\ q.ok = r.ok
        /\ Left(q) = Left(r) \ {"add_br"}
    BY <1>1, <1>2, SkipIs
  <2> HIDE DEF q
  <2>3. bridges' \in SUBSET NicSwitches /\ s \in bridges'
        /\ \A x \in NicSwitches \ {s} : x \in bridges' <=> x \in bridges
    BY <1>1, <1>2
  <2>4. Stage(q, bridges', nic[s], conf[s])
    <3>1. nic[s].addr = Unset
      BY <1>2, <1>6 DEF NewNic
    <3>2. QED
      BY <1>3, <1>4, <2>2, <2>3, <3>1 DEF Stage
  <2>5. QED
    BY <1>1, <1>2, <1>3, <1>6, <2>1, <2>2, <2>3, <2>4, NicStep
<1>7. QED
  BY <1>5, <1>6

LEMMA DelBrKeeps ==
    ASSUME NicInv, NEW c \in NicCallers, NEW r, r = nicCall[c], DelBr(c) PROVE NicInv'
<1> DEFINE s == r.on
<1>1. /\ Running(c) /\ r.todo # <<>> /\ Head(r.todo) = "del_br"
      /\ bridges' = bridges \ {s} /\ nic' = [nic EXCEPT ![s] = NewNic]
      /\ route' = (IF route = s THEN Unset ELSE route)
      /\ UNCHANGED <<conf, nicCalls, nicAlone, nicDirty>>
      /\ s \in bridges => Go(c)
      /\ s \notin bridges => Fails(c)
  BY DEF DelBr, Doing
<1>2. /\ r \in NicCallRecord /\ TaskSound(r) /\ r.on \in NicSwitches
      /\ r.ok = "none" /\ r.op # "none"
      /\ bridges \in SUBSET NicSwitches /\ nic \in [NicSwitches -> Card] /\ nic[r.on] \in Card
      /\ conf \in [NicSwitches -> Conf]
      /\ route \in NicSwitches \cup {Unset, Other}
      /\ r.on \notin bridges => nic[r.on] = NewNic
  BY <1>1, StepFacts
<1>3. r.op = "Del"
  BY <1>1, <1>2, OpOf
<1>4. "del_br" \in Left(r) /\ "remove" \in Left(r)
  <2>1. "remove" \in Plan(r) /\ Rank(r.op, "del_br") < Rank(r.op, "remove")
    BY <1>3, Ranks DEF Plan
  <2>2. QED
    BY <1>1, <1>2, <2>1, HeadOf
<1> DEFINE q == IF s \in bridges THEN Skip(r) ELSE Raise(r)
<1>5. nicCall' = [nicCall EXCEPT ![c] = q]
  BY <1>1 DEF Go, Fails, NicContinue
<1>6. /\ q \in NicCallRecord /\ TaskSound(q) /\ q.op = r.op /\ q.on = r.on
      /\ s \in bridges => q.ok = "none" /\ Left(q) = Left(r) \ {"del_br"}
      /\ s \notin bridges => q.ok # "none"
  <2>1. CASE s \in bridges
    <3>1. q = Skip(r)
      BY <2>1
    <3>2. QED
      BY <1>1, <1>2, <2>1, <3>1, SkipIs
  <2>2. CASE s \notin bridges
    <3>1. q = Raise(r)
      BY <2>2
    <3>2. QED
      BY <1>2, <1>3, <2>2, <3>1, RaiseSound
  <2>3. QED
    BY <2>1, <2>2
<1> HIDE DEF q
<1>7. /\ bridges' \in SUBSET NicSwitches /\ s \notin bridges' /\ nic'[s] = NewNic
      /\ NewNic \in Card
  BY <1>1, <1>2 DEF NewNic, Card, Setting
<1>8. /\ nic' \in [NicSwitches -> Card] /\ route' \in NicSwitches \cup {Unset, Other}
      /\ \A x \in NicSwitches \ {s} : (x \in bridges' <=> x \in bridges) /\ nic'[x] = nic[x]
  BY <1>1, <1>2, <1>7
<1>9. Stage(r, bridges, nic[s], conf[s]) =>
         IF q.ok = "none" THEN Stage(q, bridges', nic'[s], conf[s])
         ELSE conf[s] = LiveFile(s, bridges', nic'[s])
  <2>1. CASE s \in bridges
    BY <1>3, <1>4, <1>6, <1>7, <2>1 DEF Stage
  <2>2. CASE s \notin bridges
    BY <1>3, <1>4, <1>6, <1>7, <2>2 DEF Stage, LiveFile
  <2>3. QED
    BY <2>1, <2>2
<1>10. QED
  BY <1>1, <1>2, <1>3, <1>5, <1>6, <1>7, <1>8, <1>9, NicStep

LEMMA MakeConfKeeps ==
    ASSUME NicInv, NEW c \in NicCallers, NEW r, r = nicCall[c], MakeConf(c) PROVE NicInv'
<1> DEFINE s == r.on
<1>1. PICK h \in {"generate", "remove"} :
         Doing(c, h) /\ conf' = [conf EXCEPT ![s] = IF h = "generate" THEN NewConf ELSE NoConf]
  BY DEF MakeConf
<1>2. /\ Running(c) /\ r.todo # <<>> /\ Head(r.todo) = h
      /\ UNCHANGED <<bridges, nic, route, nicCalls, nicAlone, nicDirty>> /\ Go(c)
  BY <1>1 DEF MakeConf, Doing
<1>3. /\ r \in NicCallRecord /\ TaskSound(r) /\ r.on \in NicSwitches
      /\ r.ok = "none" /\ r.op # "none"
      /\ bridges \in SUBSET NicSwitches /\ nic \in [NicSwitches -> Card] /\ nic[r.on] \in Card
      /\ conf \in [NicSwitches -> Conf]
      /\ route \in NicSwitches \cup {Unset, Other}
      /\ r.on \notin bridges => nic[r.on] = NewNic
  BY <1>2, StepFacts
<1>4. (h = "generate" => r.op = "Add") /\ (h = "remove" => r.op = "Del")
  BY <1>2, <1>3, OpOf
<1>5. /\ h \in Left(r)
      /\ h = "generate" => "add_br" \notin Left(r)
      /\ h = "remove" => "del_br" \notin Left(r)
  <2>1. /\ Rank(r.op, "add_br") = 19 /\ Rank(r.op, "generate") = 20
        /\ Rank(r.op, "del_br") = 22 /\ Rank(r.op, "remove") = 23
    BY Ranks
  <2>2. h \in Left(r) /\ \A x \in Left(r) : x = h \/ Rank(r.op, h) < Rank(r.op, x)
    BY <1>2, <1>3, HeadOf
  <2>3. QED
    BY <1>1, <2>1, <2>2
<1> DEFINE q == Skip(r)
<1>6. nicCall' = [nicCall EXCEPT ![c] = q]
  BY <1>2 DEF Go, NicContinue
<1>7. /\ q \in NicCallRecord /\ TaskSound(q) /\ q.op = r.op /\ q.on = r.on /\ q.ok = r.ok
      /\ Left(q) = Left(r) \ {h}
  BY <1>2, <1>3, SkipIs
<1> HIDE DEF q
<1>8. NewConf \in Conf /\ NoConf \in Conf
  BY ConfIs
<1>9. /\ conf' \in [NicSwitches -> Conf] /\ \A x \in NicSwitches \ {s} : conf'[x] = conf[x]
      /\ conf'[s] = IF h = "generate" THEN NewConf ELSE NoConf
  BY <1>1, <1>3, <1>8
<1>10. Stage(r, bridges, nic[s], conf[s]) => Stage(q, bridges, nic[s], conf'[s])
  <2> SUFFICES ASSUME Stage(r, bridges, nic[s], conf[s])
               PROVE  Stage(q, bridges, nic[s], conf'[s])
    OBVIOUS
  <2>1. CASE h = "generate"
    <3>1. s \in bridges /\ nic[s].addr = Unset
      BY <1>4, <1>5, <2>1 DEF Stage
    <3>2. NewConf = [NewConf EXCEPT !.ip = nic[s].addr, !.mask = nic[s].addr]
      <4>1. Unset \in Setting
        BY DEF Setting
      <4>2. [NewConf EXCEPT !.ip = Unset, !.mask = Unset] = NewConf
        BY <4>1, ConfIs
      <4>3. QED
        BY <3>1, <4>2
    <3>3. conf'[s] = LiveFile(s, bridges, nic[s])
      BY <1>9, <2>1, <3>1, <3>2 DEF LiveFile
    <3>4. QED
      BY <1>4, <1>7, <2>1, <3>3 DEF Stage
  <2>2. CASE h = "remove"
    <3>1. s \notin bridges
      BY <1>4, <1>5, <2>2 DEF Stage
    <3>2. conf'[s] = LiveFile(s, bridges, nic[s])
      BY <1>9, <2>2, <3>1 DEF LiveFile
    <3>3. QED
      BY <1>4, <1>7, <2>2, <3>2 DEF Stage
  <2>3. QED
    BY <1>1, <2>1, <2>2
<1>11. r.op # "Set"
  BY <1>1, <1>4
<1>12. QED
  BY <1>2, <1>3, <1>6, <1>7, <1>9, <1>10, <1>11, NicStep

LEMMA QueryKeeps ==
    ASSUME NicInv, NEW c \in NicCallers, NEW r, r = nicCall[c], Query(c) PROVE NicInv'
<1> DEFINE s == r.on
           n == nic[s]
<1>1. PICK h \in {"multicast", "link", "get_vlan", "get_mtu", "get_ip", "ip_done"} :
         /\ Doing(c, h)
         /\ h \in {"multicast", "link"} => IF s \in bridges THEN Go(c) ELSE Fails(c)
         /\ h = "get_vlan" => IF s \in bridges
                              THEN NicContinue(c, [Skip(r) EXCEPT !.old.vlan = n.vlan]) ELSE Fails(c)
         /\ h = "get_mtu" => IF s \in bridges
                             THEN NicContinue(c, [Skip(r) EXCEPT !.old.mtu = n.mtu]) ELSE Fails(c)
         /\ h = "get_ip" => NicContinue(c, [Skip(r) EXCEPT !.old.addr = n.addr])
         /\ h = "ip_done" => NicContinue(c, [Skip(r) EXCEPT !.done = @ \cup {"ip"}])
  BY DEF Query
<1>2. /\ Running(c) /\ r.todo # <<>> /\ Head(r.todo) = h
      /\ UNCHANGED <<bridges, nic, conf, route, nicCalls, nicAlone, nicDirty>>
  BY <1>1 DEF Query, Doing
<1>3. /\ r \in NicCallRecord /\ TaskSound(r) /\ r.on \in NicSwitches
      /\ r.ok = "none" /\ r.op # "none"
      /\ bridges \in SUBSET NicSwitches /\ nic \in [NicSwitches -> Card] /\ nic[r.on] \in Card
      /\ conf \in [NicSwitches -> Conf]
      /\ route \in NicSwitches \cup {Unset, Other}
      /\ r.on \notin bridges => nic[r.on] = NewNic
  BY <1>2, StepFacts
<1>4. /\ h = "multicast" => r.op \in {"Add", "Modify"}
      /\ h # "multicast" => r.op = "Set" /\ ~r.undoing
      /\ h = "get_vlan" => "vlan" \in r.ask
      /\ h = "get_mtu" => "mtu" \in r.ask
      /\ h \in {"get_ip", "ip_done"} => "ip" \in r.ask
  BY <1>1, <1>2, <1>3, OpOf
<1>5. CASE s \notin bridges /\ h \in {"multicast", "link", "get_vlan", "get_mtu"}
  <2>1. Fails(c)
    BY <1>1, <1>5
  <2>2. h = "multicast" /\ r.op = "Add" => "generate" \notin Left(r)
    BY <1>2, <1>3, HeadOf, Ranks
  <2>3. Stage(r, bridges, n, conf[s]) => conf[s] = LiveFile(s, bridges, n)
    BY <1>4, <1>5, <2>2 DEF Stage
  <2>4. r.op = "Set" => ~SetTale(r, bridges, n, route)
    BY <1>3, <1>5 DEF SetTale
  <2>5. QED
    BY <1>2, <2>1, <2>3, <2>4, RaiseStep
<1>6. CASE s \in bridges \/ h \in {"get_ip", "ip_done"}
  <2> DEFINE p == Skip(r)
  <2>1. /\ p \in NicCallRecord /\ TaskSound(p) /\ p.op = r.op /\ p.on = r.on /\ p.ask = r.ask
        /\ p.value = r.value /\ p.done = r.done
        /\ p.old = r.old /\ p.copy = r.copy /\ p.undoing = r.undoing
        /\ p.ok = r.ok /\ p.before = r.before /\ p.routed = r.routed
        /\ p.failed = r.failed /\ p.todo = Tail(r.todo)
        /\ Left(p) = Left(r) \ {h}
    <3>1. p.todo = Tail(r.todo)
      BY <1>3 DEF Skip, NicCallRecord
    <3>2. QED
      BY <1>2, <1>3, <3>1, SkipIs
  <2> HIDE DEF p
  <2>2. PICK q : /\ NicContinue(c, q) /\ q \in NicCallRecord /\ q.op = p.op /\ q.on = p.on
                 /\ q.ask = p.ask /\ q.value = p.value /\ q.copy = p.copy
                 /\ q.undoing = p.undoing /\ q.ok = p.ok /\ q.before = p.before
                 /\ q.routed = p.routed /\ q.failed = p.failed /\ q.todo = p.todo
                 /\ q.done = IF h = "ip_done" THEN p.done \cup {"ip"} ELSE p.done
                 /\ q.old.vlan = IF h = "get_vlan" THEN n.vlan ELSE p.old.vlan
                 /\ q.old.mtu = IF h = "get_mtu" THEN n.mtu ELSE p.old.mtu
                 /\ q.old.addr = IF h = "get_ip" THEN n.addr ELSE p.old.addr
                 /\ h = "multicast" => q.old = p.old
    <3>1. n \in Card /\ p.old \in Card /\ p.done \in SUBSET Parts
      BY <1>3, <2>1 DEF NicCallRecord
    <3> HIDE DEF n
    <3>2. CASE h \in {"multicast", "link"}
      <4>1. NicContinue(c, p)
        BY <1>1, <1>6, <3>2 DEF Go, p
      <4>2. QED
        BY <2>1, <3>2, <4>1
    <3>3. CASE h = "get_vlan"
      <4>1. NicContinue(c, [p EXCEPT !.old.vlan = n.vlan])
        BY <1>1, <1>6, <3>3 DEF p
      <4>2. [p EXCEPT !.old.vlan = n.vlan] \in NicCallRecord
        BY <2>1, <3>1 DEF NicCallRecord, Card
      <4>3. QED
        BY <2>1, <3>1, <3>3, <4>1, <4>2 DEF NicCallRecord, Card
    <3>4. CASE h = "get_mtu"
      <4>1. NicContinue(c, [p EXCEPT !.old.mtu = n.mtu])
        BY <1>1, <1>6, <3>4 DEF p
      <4>2. [p EXCEPT !.old.mtu = n.mtu] \in NicCallRecord
        BY <2>1, <3>1 DEF NicCallRecord, Card
      <4>3. QED
        BY <2>1, <3>1, <3>4, <4>1, <4>2 DEF NicCallRecord, Card
    <3>5. CASE h = "get_ip"
      <4>1. NicContinue(c, [p EXCEPT !.old.addr = n.addr])
        BY <1>1, <3>5 DEF p
      <4>2. [p EXCEPT !.old.addr = n.addr] \in NicCallRecord
        BY <2>1, <3>1 DEF NicCallRecord, Card
      <4>3. QED
        BY <2>1, <3>1, <3>5, <4>1, <4>2 DEF NicCallRecord, Card
    <3>6. CASE h = "ip_done"
      <4>1. NicContinue(c, [p EXCEPT !.done = @ \cup {"ip"}])
        BY <1>1, <3>6 DEF p
      <4>2. [p EXCEPT !.done = @ \cup {"ip"}] \in NicCallRecord
        BY <2>1, <3>1 DEF NicCallRecord, Parts
      <4>3. QED
        BY <2>1, <3>1, <3>6, <4>1, <4>2 DEF NicCallRecord
    <3>7. QED
      BY <1>1, <3>2, <3>3, <3>4, <3>5, <3>6
  <2>3. TaskSound(q) /\ Left(q) = Left(r) \ {h}
    <3>1. r.undoing => h = "multicast" /\ q.done = r.done
      BY <1>1, <1>4, <2>1, <2>2
    <3>2. QED
      BY <1>2, <1>3, <2>1, <2>2, <3>1, SkipSound
  <2>4. nicCall' = [nicCall EXCEPT ![c] = q]
    BY <2>2 DEF NicContinue
  <2>5. Stage(r, bridges, n, conf[s]) => Stage(q, bridges, n, conf[s])
    <3>1. h \in OtherSteps
      BY <1>1 DEF OtherSteps
    <3>2. r.undoing => q.old = r.old
      BY <1>1, <1>3, <1>4, <2>1, <2>2 DEF TaskSound
    <3>3. /\ q \in NicCallRecord /\ q.op = r.op /\ q.value = r.value /\ q.copy = r.copy
          /\ q.undoing = r.undoing /\ r \in NicCallRecord /\ TaskSound(r) /\ r.todo # <<>>
          /\ Head(r.todo) \in OtherSteps /\ Left(q) = Left(r) \ {Head(r.todo)}
          /\ q.on = r.on
      BY <1>2, <1>3, <2>1, <2>2, <2>3, <3>1
    <3>4. QED
      BY <3>2, <3>3, StageSkip
  <2>6. ASSUME r.op = "Set", SetTale(r, bridges, n, route)
        PROVE  SetTale(q, bridges, n, route)
    <3>1. h # "multicast" /\ ~r.undoing
      BY <1>4, <2>6
    <3>2. s \in bridges /\ FirstTale(r, n) /\ RouteTale(r, route)
      BY <1>3, <2>6, <3>1 DEF SetTale
    <3>3. /\ h = "get_vlan" => "vlan" \in Left(r)
          /\ h = "get_mtu" => "mtu" \in Left(r)
          /\ h = "get_ip" => "flush" \in Left(r)
          /\ h = "ip_done" => "get_ip" \notin Left(r)
      <4>1. /\ "vlan" \in r.ask => "vlan" \in Plan(r)
            /\ "mtu" \in r.ask => "mtu" \in Plan(r)
            /\ "ip" \in r.ask => "flush" \in Plan(r)
        BY <1>3, <2>6, <3>1 DEF Plan, FirstSteps, IpSteps
      <4>2. /\ Rank("Set", "get_vlan") < Rank("Set", "vlan")
            /\ Rank("Set", "get_mtu") < Rank("Set", "mtu")
            /\ Rank("Set", "get_ip") = 6 /\ Rank("Set", "flush") = 13
            /\ Rank("Set", "ip_done") = 15
        BY Ranks
      <4>3. /\ \A x \in Left(r) : x = h \/ Rank("Set", h) < Rank("Set", x)
            /\ \A y \in Plan(r) : Rank("Set", h) < Rank("Set", y) => y \in Left(r)
        BY <1>2, <1>3, <2>6, HeadOf
      <4>4. QED
        BY <1>4, <4>1, <4>2, <4>3
    <3>4. FirstTale(q, n)
      <4>1. /\ \A x \in {"flush", "addr", "vlan", "mtu"} : x \in Left(q) <=> x \in Left(r)
            /\ "get_vlan" \in Left(q) <=> "get_vlan" \in Left(r) /\ h # "get_vlan"
            /\ "get_mtu" \in Left(q) <=> "get_mtu" \in Left(r) /\ h # "get_mtu"
            /\ "get_ip" \in Left(q) <=> "get_ip" \in Left(r) /\ h # "get_ip"
            /\ "ip_done" \in Left(q) <=> "ip_done" \in Left(r) /\ h # "ip_done"
        BY <1>1, <2>3, <3>1
      <4>2. /\ q.ask = r.ask /\ q.before = r.before /\ q.value = r.value /\ q.failed = r.failed
            /\ q.done = IF h = "ip_done" THEN r.done \cup {"ip"} ELSE r.done
            /\ q.old.vlan = IF h = "get_vlan" THEN n.vlan ELSE r.old.vlan
            /\ q.old.mtu = IF h = "get_mtu" THEN n.mtu ELSE r.old.mtu
            /\ q.old.addr = IF h = "get_ip" THEN n.addr ELSE r.old.addr
        BY <2>1, <2>2
      <4>3. /\ "vlan" \in q.done <=> "vlan" \in r.done
            /\ "mtu" \in q.done <=> "mtu" \in r.done
            /\ "ip" \in q.done <=> "ip" \in r.done \/ h = "ip_done"
            /\ q.done \subseteq q.ask \cap {"vlan", "mtu", "ip"}
        <5>1. r.done \subseteq r.ask \cap {"vlan", "mtu", "ip"}
          BY <3>2 DEF FirstTale
        <5>2. CASE h = "ip_done"
          BY <1>4, <4>2, <5>1, <5>2
        <5>3. CASE h # "ip_done"
          BY <4>2, <5>1, <5>3
        <5>4. QED
          BY <5>2, <5>3
      <4> HIDE DEF n
      <4>4. /\ n.vlan = (IF "vlan" \in q.done THEN q.value ELSE q.before.vlan)
            /\ n.mtu = (IF "mtu" \in q.done THEN q.value ELSE q.before.mtu)
            /\ n.addr = (IF "ip" \notin q.ask \/ "flush" \in Left(q) THEN q.before.addr
                         ELSE IF "addr" \in Left(q) THEN Unset ELSE q.value)
        BY <3>2, <4>1, <4>2, <4>3 DEF FirstTale
      <4>5. /\ "vlan" \in q.ask /\ "get_vlan" \notin Left(q) => q.old.vlan = q.before.vlan
            /\ "mtu" \in q.ask /\ "get_mtu" \notin Left(q) => q.old.mtu = q.before.mtu
            /\ "ip" \in q.ask /\ "get_ip" \notin Left(q) => q.old.addr = q.before.addr
        BY <3>2, <3>3, <4>1, <4>2 DEF FirstTale
      <4>6. /\ "vlan" \in q.ask => ("vlan" \in Left(q) <=> "vlan" \notin q.done)
            /\ "mtu" \in q.ask => ("mtu" \in Left(q) <=> "mtu" \notin q.done)
            /\ "ip" \in q.ask => ("ip_done" \in Left(q) <=> "ip" \notin q.done)
            /\ q.failed \in {"", "first"}
        BY <3>2, <4>1, <4>2, <4>3 DEF FirstTale
      <4>7. QED
        BY <4>3, <4>4, <4>5, <4>6 DEF FirstTale
    <3>5. RouteTale(q, route)
      BY <1>1, <2>1, <2>2, <2>3, <3>2 DEF RouteTale
    <3>6. QED
      BY <1>3, <2>1, <2>2, <3>1, <3>2, <3>4, <3>5 DEF SetTale
  <2>7. q.op = r.op /\ q.on = r.on /\ q.ok = "none" /\ q \in NicCallRecord
    BY <1>3, <2>1, <2>2
  <2>8. QED
    BY <1>2, <1>3, <2>3, <2>4, <2>5, <2>6, <2>7, NicStep
<1>7. QED
  BY <1>1, <1>5, <1>6

\* A step that leaves the switches alone.
LEMMA CardStep ==
    ASSUME NicInv, NEW c \in NicCallers, NEW r, r = nicCall[c], NEW q \in NicCallRecord, Running(c),
           nicCall' = [nicCall EXCEPT ![c] = q], TaskSound(q), q.op = r.op, q.on = r.on,
           bridges' = bridges, nicCalls' = nicCalls, nicAlone' = nicAlone, nicDirty' = nicDirty,
           nic' \in [NicSwitches -> Card], conf' \in [NicSwitches -> Conf],
           route' \in NicSwitches \cup {Unset, Other},
           \A s \in NicSwitches \ {r.on} : nic'[s] = nic[s] /\ conf'[s] = conf[s],
           r.on \notin bridges => nic'[r.on] = NewNic,
           Stage(r, bridges, nic[r.on], conf[r.on]) =>
              IF q.ok = "none" THEN Stage(q, bridges, nic'[r.on], conf'[r.on])
              ELSE conf'[r.on] = LiveFile(r.on, bridges, nic'[r.on]),
           r.op = "Set" /\ SetTale(r, bridges, nic[r.on], route) =>
              SetTale(q, bridges, nic'[r.on], route')
    PROVE  NicInv'
<1>1. bridges' \in SUBSET NicSwitches
  BY DEF NicInv, NicTyped
<1>2. /\ \A s \in NicSwitches \ {r.on} :
            (s \in bridges' <=> s \in bridges) /\ nic'[s] = nic[s] /\ conf'[s] = conf[s]
      /\ r.on \notin bridges' => nic'[r.on] = NewNic
      /\ nicDirty' \in {nicDirty, nicDirty \cup {r.on}}
  OBVIOUS
<1>3. r.on \notin nicDirty' /\ Stage(r, bridges, nic[r.on], conf[r.on]) =>
         IF q.ok = "none" THEN Stage(q, bridges', nic'[r.on], conf'[r.on])
         ELSE conf'[r.on] = LiveFile(r.on, bridges', nic'[r.on])
  OBVIOUS
<1>4. c \in nicAlone /\ r.op = "Set" /\ SetTale(r, bridges, nic[r.on], route) =>
         SetTale(q, bridges', nic'[r.on], route')
  OBVIOUS
<1>5. QED
  BY <1>1, <1>2, <1>3, <1>4, NicStep

\* A handler that ends before its list does.
LEMMA EndSound ==
    ASSUME NEW r \in NicCallRecord, TaskSound(r), NEW a \in NicAnswers
    PROVE  LET q == [r EXCEPT !.ok = a] IN
           /\ q \in NicCallRecord /\ TaskSound(q) /\ q.op = r.op /\ q.on = r.on /\ q.ask = r.ask
           /\ q.value = r.value /\ q.bad = r.bad /\ q.done = r.done /\ q.old = r.old
           /\ q.undoing = r.undoing /\ q.before = r.before /\ q.routed = r.routed
           /\ q.failed = r.failed /\ q.ok = a /\ Left(q) = Left(r)
<1> DEFINE q == [r EXCEPT !.ok = a]
<1>1. /\ q \in NicCallRecord /\ q.op = r.op /\ q.on = r.on /\ q.ask = r.ask
      /\ q.value = r.value /\ q.bad = r.bad /\ q.done = r.done /\ q.old = r.old
      /\ q.undoing = r.undoing /\ q.before = r.before /\ q.routed = r.routed
      /\ q.failed = r.failed /\ q.ok = a /\ q.todo = r.todo
  BY DEF NicCallRecord
<1> HIDE DEF q
<1>2. Left(q) = Left(r) /\ Plan(q) = Plan(r) /\ MayCast(q) = MayCast(r)
  BY <1>1 DEF Left, Plan, MayCast
<1>3. TaskSound(q)
  BY <1>1, <1>2 DEF TaskSound
<1>4. QED
  BY <1>1, <1>2, <1>3 DEF q

\* No step of set_ip_netmask has begun, or all are done.
LEMMA LiveAt ==
    ASSUME NEW r \in NicCallRecord, TaskSound(r), r.todo # <<>>, r.op = "Set",
           Head(r.todo) \in {"link", "get_vlan", "vlan", "get_mtu", "mtu", "get_ip", "read_ip",
                             "ip_done", "route", "old_mtu", "old_vlan"},
           NEW B, NEW n, NEW f, Stage(r, B, n, f)
    PROVE  f = LiveFile(r.on, B, n)
<1> DEFINE h == Head(r.todo)
<1>1. h \in Left(r) /\ \A x \in Left(r) : x = h \/ Rank("Set", h) < Rank("Set", x)
  BY HeadOf
<1>2. \A y \in Plan(r) : Rank("Set", h) < Rank("Set", y) => y \in Left(r)
  BY HeadOf
<1>3. Rank("Set", "addr") = 14 /\ Rank("Set", "read_ip") = 7
  BY Ranks
<1>4. \/ h = "read_ip"
      \/ Rank("Set", h) < 7
      \/ Rank("Set", h) \in Int /\ Rank("Set", h) > 14
  BY Ranks
<1> HIDE DEF h
<1>5. CASE h = "read_ip"
  BY <1>1, <1>5 DEF Stage
<1>6. CASE Rank("Set", h) < 7
  <2>1. "addr" \in Plan(r) \cup MayCast(r) => "read_ip" \in Plan(r)
    BY DEF Plan, MayCast, FirstSteps, BackSteps, IpSteps, SaveSteps
  <2>2. "addr" \in Left(r) => "read_ip" \in Left(r)
    BY <1>2, <1>3, <1>6, <2>1 DEF TaskSound
  <2>3. QED
    BY <2>2 DEF Stage
<1>7. CASE Rank("Set", h) \in Int /\ Rank("Set", h) > 14
  <2>1. "addr" \notin Left(r)
    <3>1. h # "addr"
      BY <1>3, <1>7
    <3>2. QED
      BY <1>1, <1>3, <1>7, <3>1
  <2>2. QED
    BY <2>1 DEF Stage
<1>8. QED
  BY <1>4, <1>5, <1>6, <1>7

\* When set_vlan begins, nothing has been set yet.
LEMMA NothingSet ==
    ASSUME NEW r \in NicCallRecord, TaskSound(r), r.todo # <<>>, r.op = "Set", ~r.undoing,
           Head(r.todo) = "vlan", "vlan" \in r.ask, NEW n \in Card, FirstTale(r, n)
    PROVE  n = r.before
<1>1. /\ "vlan" \in Left(r)
      /\ \A y \in FirstSteps(r.ask) : Rank("Set", "vlan") < Rank("Set", y) => y \in Left(r)
  BY HeadOf DEF Plan
<1>2. /\ Rank("Set", "vlan") = 3 /\ Rank("Set", "mtu") = 5 /\ Rank("Set", "flush") = 13
      /\ Rank("Set", "ip_done") = 15
  BY Ranks
<1>3. "mtu" \in r.ask => "mtu" \in Left(r)
  BY <1>1, <1>2 DEF FirstSteps
<1>4. "ip" \in r.ask => "flush" \in Left(r) /\ "ip_done" \in Left(r)
  BY <1>1, <1>2 DEF FirstSteps, IpSteps
<1>5. n.vlan = r.before.vlan /\ n.mtu = r.before.mtu /\ n.addr = r.before.addr
  BY <1>1, <1>3, <1>4 DEF FirstTale
<1>6. r.before \in Card
  BY DEF NicCallRecord
<1>7. QED
  BY <1>5, <1>6 DEF Card

LEMMA SetVlanKeeps ==
    ASSUME NicInv, NEW c \in NicCallers, NEW r, r = nicCall[c], SetVlan(c) PROVE NicInv'
<1> DEFINE s == r.on
           n == nic[s]
           q == [Skip(r) EXCEPT !.done = @ \cup {"vlan"}]
<1>1. /\ Running(c) /\ r.todo # <<>> /\ Head(r.todo) = "vlan"
      /\ UNCHANGED <<bridges, conf, route, nicCalls, nicAlone, nicDirty>>
      /\ "vlan" \in r.bad => NicContinue(c, [r EXCEPT !.ok = "raised"]) /\ nic' = nic
      /\ "vlan" \notin r.bad /\ s \in bridges =>
            nic' = [nic EXCEPT ![s].vlan = r.value] /\ NicContinue(c, q)
      /\ "vlan" \notin r.bad /\ s \notin bridges => Fails(c) /\ nic' = nic
  BY DEF SetVlan, NoNumber, Doing
<1>2. /\ r \in NicCallRecord /\ TaskSound(r) /\ r.on \in NicSwitches
      /\ r.ok = "none" /\ r.op # "none"
      /\ bridges \in SUBSET NicSwitches /\ nic \in [NicSwitches -> Card] /\ nic[r.on] \in Card
      /\ conf \in [NicSwitches -> Conf]
      /\ route \in NicSwitches \cup {Unset, Other}
      /\ r.on \notin bridges => nic[r.on] = NewNic
  BY <1>1, StepFacts
<1>3. r.op = "Set" /\ ~r.undoing /\ "vlan" \in r.ask /\ r.value \in Values
  BY <1>1, <1>2, OpOf DEF TaskSound
<1>4. CASE "vlan" \notin r.bad /\ s \notin bridges
  <2>1. ~Stage(r, bridges, n, conf[s]) /\ ~SetTale(r, bridges, n, route)
    BY <1>2, <1>3, <1>4 DEF Stage, SetTale
  <2>2. QED
    BY <1>1, <1>4, <2>1, RaiseStep
<1>5. CASE "vlan" \notin r.bad /\ s \in bridges
  <2> DEFINE p == Skip(r)
  <2>1. /\ p \in NicCallRecord /\ TaskSound(p) /\ p.op = r.op /\ p.on = r.on /\ p.ask = r.ask
        /\ p.value = r.value /\ p.done = r.done
        /\ p.old = r.old /\ p.copy = r.copy /\ p.undoing = r.undoing
        /\ p.ok = r.ok /\ p.before = r.before /\ p.routed = r.routed
        /\ p.failed = r.failed /\ p.todo = Tail(r.todo)
        /\ Left(p) = Left(r) \ {"vlan"}
    <3>1. p.todo = Tail(r.todo)
      BY <1>2 DEF Skip, NicCallRecord
    <3>2. QED
      BY <1>1, <1>2, <3>1, SkipIs
  <2> HIDE DEF p
  <2>2. /\ q \in NicCallRecord /\ q.op = p.op /\ q.on = p.on
        /\ q.ask = p.ask /\ q.value = p.value /\ q.copy = p.copy
        /\ q.undoing = p.undoing /\ q.ok = p.ok /\ q.before = p.before
        /\ q.routed = p.routed /\ q.failed = p.failed /\ q.todo = p.todo
        /\ q.done = p.done \cup {"vlan"} /\ q.old = p.old
    <3>1. q = [p EXCEPT !.done = @ \cup {"vlan"}]
      BY DEF p
    <3>2. QED
      <4>1. p.done \cup {"vlan"} \in SUBSET Parts
        BY <2>1 DEF NicCallRecord, Parts
      <4>2. q = [p EXCEPT !.done = p.done \cup {"vlan"}]
        BY <3>1
      <4>3. QED
        BY <2>1, <4>1, <4>2 DEF NicCallRecord
  <2>3. nicCall' = [nicCall EXCEPT ![c] = q]
    BY <1>1, <1>5 DEF NicContinue
  <2> HIDE DEF q
  <2>4. TaskSound(q) /\ Left(q) = Left(r) \ {"vlan"}
    BY <1>1, <1>2, <1>3, <2>1, <2>2, SkipSound
  <2>5. /\ q \in NicCallRecord /\ q.op = r.op /\ q.on = r.on
        /\ q.ask = r.ask /\ q.value = r.value /\ q.copy = r.copy
        /\ q.undoing = r.undoing /\ q.ok = "none" /\ q.before = r.before
        /\ q.routed = r.routed /\ q.failed = r.failed
        /\ q.done = r.done \cup {"vlan"} /\ q.old = r.old
    BY <1>2, <2>1, <2>2
  <2>6. PICK m : m = nic'[s]
    OBVIOUS
  <2>7. /\ nic' \in [NicSwitches -> Card] /\ m.vlan = r.value
        /\ m.mtu = n.mtu /\ m.addr = n.addr
        /\ \A x \in NicSwitches \ {s} : nic'[x] = nic[x]
    BY <1>1, <1>2, <1>3, <1>5, <2>6 DEF Card, Setting
  <2> HIDE DEF n
  <2>8. Stage(r, bridges, n, conf[s]) => Stage(q, bridges, m, conf[s])
    <3>1. Head(r.todo) \in OtherSteps /\ Left(q) = Left(r) \ {Head(r.todo)}
      BY <1>1, <2>4 DEF OtherSteps
    <3>2. r \in NicCallRecord /\ TaskSound(r) /\ r.todo # <<>> /\ q.on = r.on
      BY <1>1, <1>2, <2>5
    <3>3. m.addr = n.addr
      BY <2>7
    <3>4. QED
      BY <2>5, <3>1, <3>2, <3>3, StageSkip
  <2>9. ASSUME SetTale(r, bridges, n, route)
        PROVE  SetTale(q, bridges, m, route)
    <3>1. FirstTale(r, n) /\ RouteTale(r, route)
      BY <1>2, <1>3, <2>9 DEF SetTale
    <3>2. FirstTale(q, m)
      <4>1. /\ "vlan" \in q.done /\ "vlan" \notin Left(q)
            /\ \A x \in {"mtu", "ip"} : x \in q.done <=> x \in r.done
            /\ \A x \in {"flush", "addr", "mtu", "ip_done", "get_vlan", "get_mtu", "get_ip"} :
                  x \in Left(q) <=> x \in Left(r)
            /\ q.done \subseteq q.ask \cap {"vlan", "mtu", "ip"}
        BY <1>3, <2>4, <2>5, <3>1 DEF FirstTale
      <4>2. m.vlan = r.value /\ m.mtu = n.mtu /\ m.addr = n.addr
        BY <2>7
      <4>3. QED
        BY <2>5, <3>1, <4>1, <4>2, ZenonT(60) DEF FirstTale
    <3>3. RouteTale(q, route)
      BY <2>4, <2>5, <3>1 DEF RouteTale
    <3>4. QED
      BY <1>3, <1>5, <2>5, <3>2, <3>3 DEF SetTale
  <2>10. /\ s \in bridges' <=> s \in bridges
         /\ bridges' = bridges /\ conf' = conf /\ route' = route
         /\ nicCalls' = nicCalls /\ nicAlone' = nicAlone /\ nicDirty' = nicDirty
    BY <1>1
  <2>11. /\ s \notin bridges' => nic'[s] = NewNic
         /\ bridges' \in SUBSET NicSwitches /\ conf' \in [NicSwitches -> Conf]
         /\ route' \in NicSwitches \cup {Unset, Other}
         /\ \A x \in NicSwitches \ {s} :
              (x \in bridges' <=> x \in bridges) /\ nic'[x] = nic[x] /\ conf'[x] = conf[x]
    BY <1>2, <1>5, <2>7, <2>10
  <2>12. /\ Stage(r, bridges, nic[s], conf[s]) =>
               IF q.ok = "none" THEN Stage(q, bridges', nic'[s], conf'[s])
               ELSE conf'[s] = LiveFile(s, bridges', nic'[s])
         /\ SetTale(r, bridges, nic[s], route) => SetTale(q, bridges', nic'[s], route')
    BY <2>5, <2>6, <2>8, <2>9, <2>10 DEF n
  <2>13. Running(c) /\ nic' \in [NicSwitches -> Card]
    BY <1>1, <2>7
  <2>14. QED
    BY <2>3, <2>4, <2>5, <2>10, <2>11, <2>12, <2>13, NicStep
<1>6. CASE "vlan" \in r.bad
  <2> DEFINE e == [r EXCEPT !.ok = "raised"]
  <2>1. /\ e \in NicCallRecord /\ TaskSound(e) /\ e.op = r.op /\ e.on = r.on /\ e.bad = r.bad
        /\ e.ok = "raised" /\ e.before = r.before
    BY <1>2, EndSound DEF NicAnswers
  <2>2. nicCall' = [nicCall EXCEPT ![c] = e]
    BY <1>1, <1>6 DEF NicContinue
  <2> HIDE DEF e
  <2>3. Stage(r, bridges, n, conf[s]) => conf[s] = LiveFile(s, bridges, n)
    BY <1>1, <1>2, <1>3, LiveAt
  <2>4. ASSUME SetTale(r, bridges, n, route) PROVE SetTale(e, bridges, n, route)
    <3>1. FirstTale(r, n)
      BY <1>2, <1>3, <2>4 DEF SetTale
    <3>2. n = r.before
      BY <1>1, <1>2, <1>3, <3>1, NothingSet
    <3>3. QED
      BY <1>6, <2>1, <3>2 DEF SetTale
  <2>5. /\ bridges' = bridges /\ conf' = conf /\ route' = route /\ nic' = nic
        /\ nicCalls' = nicCalls /\ nicAlone' = nicAlone /\ nicDirty' = nicDirty
    BY <1>1, <1>6
  <2>6. /\ Running(c) /\ conf' \in [NicSwitches -> Conf] /\ nic' \in [NicSwitches -> Card]
        /\ route' \in NicSwitches \cup {Unset, Other}
        /\ \A x \in NicSwitches \ {s} : nic'[x] = nic[x] /\ conf'[x] = conf[x]
        /\ s \notin bridges => nic'[s] = NewNic
        /\ Stage(r, bridges, nic[s], conf[s]) =>
              IF e.ok = "none" THEN Stage(e, bridges, nic'[s], conf'[s])
              ELSE conf'[s] = LiveFile(s, bridges, nic'[s])
        /\ r.op = "Set" /\ SetTale(r, bridges, nic[s], route) =>
              SetTale(e, bridges, nic'[s], route')
    BY <1>1, <1>2, <2>1, <2>3, <2>4, <2>5
  <2>7. QED
    BY <2>1, <2>2, <2>5, <2>6, CardStep
<1>7. QED
  BY <1>4, <1>5, <1>6

LEMMA SetMtuKeeps ==
    ASSUME NicInv, NEW c \in NicCallers, NEW r, r = nicCall[c], NicSetMtu(c) PROVE NicInv'
<1> DEFINE s == r.on
<1>1. /\ Running(c) /\ r.todo # <<>> /\ Head(r.todo) = "mtu"
      /\ UNCHANGED <<bridges, conf, route, nicCalls, nicAlone, nicDirty>>
      /\ "mtu" \in r.bad => NicContinue(c, [r EXCEPT !.ok = "raised"]) /\ nic' = nic
      /\ "mtu" \notin r.bad /\ s \in bridges =>
            /\ nic' = [nic EXCEPT ![s].mtu = r.value]
            /\ NicContinue(c, [Skip(r) EXCEPT !.done = @ \cup {"mtu"}])
      /\ "mtu" \notin r.bad /\ s \notin bridges => Fails(c) /\ nic' = nic
  BY DEF NicSetMtu, NoNumber, Doing
<1>2. /\ r \in NicCallRecord /\ TaskSound(r) /\ r.on \in NicSwitches
      /\ r.ok = "none" /\ r.op # "none"
      /\ bridges \in SUBSET NicSwitches /\ nic \in [NicSwitches -> Card] /\ nic[r.on] \in Card
      /\ conf \in [NicSwitches -> Conf]
      /\ route \in NicSwitches \cup {Unset, Other}
      /\ r.on \notin bridges => nic[r.on] = NewNic
  BY <1>1, StepFacts
<1>3. r.op = "Set" /\ ~r.undoing /\ "mtu" \in r.ask /\ r.value \in Values
  BY <1>1, <1>2, OpOf DEF TaskSound
<1>4. PICK n, f, m : n = nic[s] /\ f = conf[s] /\ m = nic'[s]
  OBVIOUS
<1>5. /\ bridges' = bridges /\ conf' = conf /\ route' = route
      /\ nicCalls' = nicCalls /\ nicAlone' = nicAlone /\ nicDirty' = nicDirty
  BY <1>1
<1>6. CASE "mtu" \in r.bad
  <2> DEFINE q == [r EXCEPT !.ok = "raised"]
  <2>1. /\ q \in NicCallRecord /\ TaskSound(q) /\ q.op = r.op /\ q.on = r.on /\ q.bad = r.bad
        /\ q.ok = "raised"
    BY <1>2, EndSound DEF NicAnswers
  <2>2. nicCall' = [nicCall EXCEPT ![c] = q]
    BY <1>1, <1>6 DEF NicContinue
  <2> HIDE DEF q
  <2>3. Stage(r, bridges, n, f) => f = LiveFile(s, bridges, n)
    BY <1>1, <1>2, <1>3, LiveAt
  <2>4. SetTale(q, bridges, m, route)
    BY <1>6, <2>1 DEF SetTale
  <2>5. nic' = nic /\ m = n
    BY <1>1, <1>4, <1>6
  <2>6. /\ Running(c) /\ conf' \in [NicSwitches -> Conf] /\ nic' \in [NicSwitches -> Card]
        /\ route' \in NicSwitches \cup {Unset, Other}
        /\ \A x \in NicSwitches \ {s} : nic'[x] = nic[x] /\ conf'[x] = conf[x]
        /\ s \notin bridges => nic'[s] = NewNic
        /\ Stage(r, bridges, nic[s], conf[s]) =>
              IF q.ok = "none" THEN Stage(q, bridges, nic'[s], conf'[s])
              ELSE conf'[s] = LiveFile(s, bridges, nic'[s])
        /\ r.op = "Set" /\ SetTale(r, bridges, nic[s], route) =>
              SetTale(q, bridges, nic'[s], route')
    BY <1>1, <1>2, <1>4, <1>5, <2>1, <2>3, <2>4, <2>5
  <2>7. QED
    BY <1>5, <2>1, <2>2, <2>6, CardStep
<1>7. CASE "mtu" \notin r.bad /\ s \notin bridges
  <2>1. ~Stage(r, bridges, nic[s], conf[s]) /\ ~SetTale(r, bridges, nic[s], route)
    BY <1>2, <1>3, <1>7 DEF Stage, SetTale
  <2>2. QED
    BY <1>1, <1>7, <2>1, RaiseStep
<1>8. CASE "mtu" \notin r.bad /\ s \in bridges
  <2> DEFINE p == Skip(r)
             q == [p EXCEPT !.done = p.done \cup {"mtu"}]
  <2>1. /\ p \in NicCallRecord /\ p.op = r.op /\ p.on = r.on /\ p.ask = r.ask
        /\ p.value = r.value /\ p.done = r.done
        /\ p.old = r.old /\ p.copy = r.copy /\ p.undoing = r.undoing
        /\ p.ok = r.ok /\ p.before = r.before /\ p.routed = r.routed
        /\ p.failed = r.failed /\ p.todo = Tail(r.todo)
    <3>1. p.todo = Tail(r.todo)
      BY <1>2 DEF Skip, NicCallRecord
    <3>2. QED
      BY <1>1, <1>2, <3>1, SkipIs
  <2>2. nicCall' = [nicCall EXCEPT ![c] = q]
    BY <1>1, <1>8 DEF NicContinue
  <2> HIDE DEF p
  <2>3. /\ q \in NicCallRecord /\ q.op = r.op /\ q.on = r.on
        /\ q.ask = r.ask /\ q.value = r.value /\ q.copy = r.copy
        /\ q.undoing = r.undoing /\ q.ok = "none" /\ q.before = r.before
        /\ q.routed = r.routed /\ q.failed = r.failed
        /\ q.done = r.done \cup {"mtu"} /\ q.old = r.old /\ q.todo = Tail(r.todo)
    <3>1. p.done \cup {"mtu"} \in SUBSET Parts
      BY <2>1 DEF NicCallRecord, Parts
    <3>2. QED
      BY <1>2, <2>1, <3>1 DEF NicCallRecord
  <2> HIDE DEF q
  <2>4. TaskSound(q) /\ Left(q) = Left(r) \ {"mtu"}
    BY <1>1, <1>2, <1>3, <2>3, SkipSound
  <2>5. /\ nic' \in [NicSwitches -> Card] /\ m.mtu = r.value
        /\ m.vlan = n.vlan /\ m.addr = n.addr
        /\ \A x \in NicSwitches \ {s} : nic'[x] = nic[x]
    BY <1>1, <1>2, <1>3, <1>4, <1>8 DEF Card, Setting
  <2>6. Stage(r, bridges, n, f) => Stage(q, bridges, m, f)
    <3>1. Head(r.todo) \in OtherSteps /\ Left(q) = Left(r) \ {Head(r.todo)}
      BY <1>1, <2>4 DEF OtherSteps
    <3>2. r \in NicCallRecord /\ TaskSound(r) /\ r.todo # <<>>
      BY <1>1, <1>2
    <3>3. m.addr = n.addr
      BY <2>5
    <3>4. QED
      BY <2>3, <3>1, <3>2, <3>3, StageSkip
  <2>7. ASSUME SetTale(r, bridges, n, route)
        PROVE  SetTale(q, bridges, m, route)
    <3>1. FirstTale(r, n) /\ RouteTale(r, route)
      BY <1>2, <1>3, <2>7 DEF SetTale
    <3>2. FirstTale(q, m)
      <4>1. /\ "mtu" \in q.done /\ "mtu" \notin Left(q)
            /\ \A x \in {"vlan", "ip"} : x \in q.done <=> x \in r.done
            /\ \A x \in {"flush", "addr", "vlan", "ip_done", "get_vlan", "get_mtu", "get_ip"} :
                  x \in Left(q) <=> x \in Left(r)
            /\ q.done \subseteq q.ask \cap {"vlan", "mtu", "ip"}
        BY <1>3, <2>3, <2>4, <3>1 DEF FirstTale
      <4>2. m.mtu = r.value /\ m.vlan = n.vlan /\ m.addr = n.addr
        BY <2>5
      <4>3. QED
        BY <2>3, <3>1, <4>1, <4>2, ZenonT(60) DEF FirstTale
    <3>3. RouteTale(q, route)
      BY <2>3, <2>4, <3>1 DEF RouteTale
    <3>4. QED
      BY <1>3, <1>8, <2>3, <3>2, <3>3 DEF SetTale
  <2>8. QED
    <3>1. /\ Running(c) /\ conf' \in [NicSwitches -> Conf] /\ nic' \in [NicSwitches -> Card]
          /\ route' \in NicSwitches \cup {Unset, Other}
          /\ \A x \in NicSwitches \ {s} : nic'[x] = nic[x] /\ conf'[x] = conf[x]
          /\ s \notin bridges => nic'[s] = NewNic
          /\ Stage(r, bridges, nic[s], conf[s]) =>
                IF q.ok = "none" THEN Stage(q, bridges, nic'[s], conf'[s])
                ELSE conf'[s] = LiveFile(s, bridges, nic'[s])
          /\ r.op = "Set" /\ SetTale(r, bridges, nic[s], route) =>
                SetTale(q, bridges, nic'[s], route')
      BY <1>1, <1>2, <1>4, <1>5, <1>8, <2>3, <2>5, <2>6, <2>7
    <3>2. QED
      BY <1>5, <2>2, <2>3, <2>4, <3>1, CardStep
<1>9. QED
  BY <1>6, <1>7, <1>8

LEMMA FlushKeeps ==
    ASSUME NicInv, NEW c \in NicCallers, NEW r, r = nicCall[c], Flush(c) PROVE NicInv'
<1> DEFINE s == r.on
<1>1. /\ Running(c) /\ r.todo # <<>> /\ Head(r.todo) = "flush"
      /\ UNCHANGED <<bridges, conf, nicCalls, nicAlone, nicDirty>>
      /\ nic' = [nic EXCEPT ![s].addr = Unset]
      /\ route' = (IF route = s THEN Unset ELSE route)
      /\ s \in bridges => Go(c)
      /\ s \notin bridges => Fails(c)
  BY DEF Flush, Doing
<1>2. /\ r \in NicCallRecord /\ TaskSound(r) /\ r.on \in NicSwitches
      /\ r.ok = "none" /\ r.op # "none"
      /\ bridges \in SUBSET NicSwitches /\ nic \in [NicSwitches -> Card] /\ nic[r.on] \in Card
      /\ conf \in [NicSwitches -> Conf]
      /\ route \in NicSwitches \cup {Unset, Other}
      /\ r.on \notin bridges => nic[r.on] = NewNic
  BY <1>1, StepFacts
<1>3. /\ r.op \in {"Set", "Clear"}
      /\ r.op = "Set" => r.value \in Values
      /\ r.op = "Set" /\ ~r.undoing => "ip" \in r.ask
      /\ r.op = "Set" /\ r.undoing => "ip" \in r.done
  BY <1>1, <1>2, OpOf DEF TaskSound, IpSteps
<1>4. PICK n, f, m : n = nic[s] /\ f = conf[s] /\ m = nic'[s]
  OBVIOUS
<1>5. /\ bridges' = bridges /\ conf' = conf
      /\ nicCalls' = nicCalls /\ nicAlone' = nicAlone /\ nicDirty' = nicDirty
  BY <1>1
<1>6. /\ nic' \in [NicSwitches -> Card] /\ m.mtu = n.mtu
      /\ m.vlan = n.vlan /\ m.addr = Unset
      /\ \A x \in NicSwitches \ {s} : nic'[x] = nic[x]
      /\ route' \in NicSwitches \cup {Unset, Other}
  BY <1>1, <1>2, <1>4 DEF Card, Setting
<1>7. s \notin bridges => m = NewNic
  <2>1. n \in Card /\ m \in Card
    BY <1>2, <1>4, <1>6
  <2>2. \A x \in Card : x = [vlan |-> x.vlan, mtu |-> x.mtu, addr |-> x.addr]
    BY DEF Card
  <2>3. s \notin bridges => n.vlan = Unset /\ n.mtu = Unset
    BY <1>2, <1>4 DEF NewNic
  <2>4. m = [vlan |-> n.vlan, mtu |-> n.mtu, addr |-> Unset]
    BY <1>6, <2>1, <2>2
  <2>5. QED
    BY <2>3, <2>4 DEF NewNic
<1>8. CASE s \notin bridges
  <2> DEFINE q == Raise(r)
  <2>1. q \in NicCallRecord /\ TaskSound(q) /\ q.op = r.op /\ q.on = r.on
    BY <1>2, RaiseSound
  <2>2. nicCall' = [nicCall EXCEPT ![c] = q]
    BY <1>1, <1>8 DEF Fails, NicContinue
  <2> HIDE DEF q
  <2>3. ~Stage(r, bridges, n, f)
    BY <1>3, <1>8 DEF Stage
  <2>4. r.op = "Set" => ~SetTale(r, bridges, n, route)
    BY <1>2, <1>8 DEF SetTale
  <2>5. /\ Running(c) /\ conf' \in [NicSwitches -> Conf] /\ nic' \in [NicSwitches -> Card]
        /\ route' \in NicSwitches \cup {Unset, Other}
        /\ \A x \in NicSwitches \ {s} : nic'[x] = nic[x] /\ conf'[x] = conf[x]
        /\ s \notin bridges => nic'[s] = NewNic
        /\ Stage(r, bridges, nic[s], conf[s]) =>
              IF q.ok = "none" THEN Stage(q, bridges, nic'[s], conf'[s])
              ELSE conf'[s] = LiveFile(s, bridges, nic'[s])
        /\ r.op = "Set" /\ SetTale(r, bridges, nic[s], route) =>
              SetTale(q, bridges, nic'[s], route')
    BY <1>1, <1>2, <1>4, <1>5, <1>6, <1>7, <2>3, <2>4
  <2>6. QED
    BY <1>5, <2>1, <2>2, <2>5, CardStep
<1>9. CASE s \in bridges
  <2> DEFINE q == Skip(r)
  <2>1. /\ q \in NicCallRecord /\ TaskSound(q) /\ q.op = r.op /\ q.on = r.on /\ q.ask = r.ask
        /\ q.value = r.value /\ q.done = r.done
        /\ q.old = r.old /\ q.copy = r.copy /\ q.undoing = r.undoing
        /\ q.ok = "none" /\ q.before = r.before /\ q.routed = r.routed
        /\ q.failed = r.failed /\ Left(q) = Left(r) \ {"flush"}
    BY <1>1, <1>2, SkipIs
  <2>2. nicCall' = [nicCall EXCEPT ![c] = q]
    BY <1>1, <1>9 DEF Go, NicContinue
  <2> HIDE DEF q
  <2>3. /\ Rank("Set", "flush") = 13 /\ Rank("Set", "addr") = 14 /\ Rank("Set", "ip_done") = 15
        /\ Rank("Set", "route") = 16 /\ Rank("Clear", "flush") = 0
        /\ \A x \in SaveSteps \cup {"get_ip"} : Rank("Set", x) < 13
        /\ \A x \in SaveSteps : Rank("Clear", x) > 0
    BY Ranks DEF SaveSteps
  <2>4. /\ "flush" \in Left(r)
        /\ \A x \in Left(r) : x = "flush" \/ Rank(r.op, "flush") < Rank(r.op, x)
        /\ \A y \in Plan(r) : Rank(r.op, "flush") < Rank(r.op, y) => y \in Left(r)
        /\ Left(r) \subseteq AllSteps
    BY <1>1, <1>2, HeadOf
  <2>5. /\ r.op = "Set" => "addr" \in Left(r)
        /\ r.op = "Set" => \A x \in SaveSteps \cup {"get_ip"} : x \notin Left(r)
        /\ r.op = "Set" /\ ~r.undoing => "ip_done" \in Left(r)
        /\ r.op = "Set" /\ ~r.undoing /\ "gateway" \in r.ask => "route" \in Left(r)
        /\ r.op = "Clear" => \A x \in SaveSteps : x \in Left(r)
    <3>1. CASE r.op = "Set"
      <4>1. /\ "addr" \in Plan(r)
            /\ ~r.undoing => "ip_done" \in Plan(r)
            /\ ~r.undoing /\ "gateway" \in r.ask => "route" \in Plan(r)
        BY <1>3, <3>1 DEF Plan, FirstSteps, BackSteps, IpSteps
      <4>2. \A x \in SaveSteps \cup {"get_ip"} : x \notin Left(r)
        <5>1. \A x \in SaveSteps \cup {"get_ip"} : x # "flush"
          BY DEF SaveSteps
        <5>2. \A x \in SaveSteps \cup {"get_ip"} : x \in Left(r) => 13 < Rank("Set", x)
          BY <2>3, <2>4, <3>1, <5>1
        <5>3. \A x \in SaveSteps \cup {"get_ip"} : Rank("Set", x) \in Int
          BY Ranks DEF SaveSteps
        <5>4. QED
          BY <2>3, <5>2, <5>3
      <4>3. QED
        BY <2>3, <2>4, <3>1, <4>1, <4>2
    <3>2. CASE r.op = "Clear"
      <4>1. \A x \in SaveSteps : x \in Plan(r)
        BY <3>2 DEF Plan
      <4>2. QED
        BY <2>3, <2>4, <3>2, <4>1
    <3>3. QED
      BY <1>3, <3>1, <3>2
  <2>6. Stage(r, bridges, n, f) => Stage(q, bridges, m, f)
    <3> SUFFICES ASSUME Stage(r, bridges, n, f) PROVE Stage(q, bridges, m, f)
      OBVIOUS
    <3>1. \A x \in SaveSteps \cup {"addr"} : x \in Left(q) <=> x \in Left(r)
      BY <2>1 DEF SaveSteps
    <3>2. "flush" \notin Left(q)
      BY <2>1
    <3>3. CASE r.op = "Set"
      <4>1. InSave(q, f)
        BY <2>5, <3>1, <3>3 DEF InSave, SaveSteps
      <4>2. f = [NewConf EXCEPT !.ip = r.value, !.mask = r.value]
        BY <2>5, <3>3 DEF Stage, SaveSteps
      <4>3. r.undoing => r.old.addr # Unset
        BY <2>5, <3>3 DEF Stage, SaveSteps
      <4>4. QED
        BY <1>6, <1>9, <2>1, <2>5, <3>1, <3>3, <4>1, <4>2, <4>3 DEF Stage, SaveSteps
    <3>4. CASE r.op = "Clear"
      <4>1. f = LiveFile(s, bridges, n)
        BY <2>4, <3>4 DEF Stage
      <4>2. f.there /\ f.head
        <5>1. n.addr \in Setting
          BY <1>2, <1>4 DEF Card
        <5>2. f = [there |-> TRUE, head |-> TRUE, ip |-> n.addr, mask |-> n.addr]
          BY <1>9, <4>1, <5>1, ConfIs DEF LiveFile
        <5>3. QED
          BY <5>2
      <4>3. InSave(q, f)
        BY <2>5, <3>1, <3>4 DEF InSave, SaveSteps
      <4>4. QED
        BY <1>6, <1>9, <2>1, <2>5, <3>1, <3>2, <3>4, <4>2, <4>3 DEF Stage, SaveSteps, Kept
    <3>5. QED
      BY <1>3, <3>3, <3>4
  <2>7. ASSUME r.op = "Set", SetTale(r, bridges, n, route)
        PROVE  SetTale(q, bridges, m, route')
    <3>1. CASE ~r.undoing
      <4>1. FirstTale(r, n) /\ RouteTale(r, route)
        BY <1>2, <2>7, <3>1 DEF SetTale
      <4>2. \A x \in {"addr", "vlan", "mtu", "ip_done", "get_vlan", "get_mtu", "get_ip", "route"} :
               x \in Left(q) <=> x \in Left(r)
        BY <2>1
      <4>3. FirstTale(q, m)
        BY <1>3, <1>6, <2>1, <2>4, <2>5, <2>7, <3>1, <4>1, <4>2, ZenonT(60) DEF FirstTale
      <4>4. RouteTale(q, route')
        BY <1>1, <2>1, <2>5, <2>7, <3>1, <4>1, <4>2 DEF RouteTale
      <4>5. QED
        BY <1>9, <2>1, <3>1, <4>3, <4>4 DEF SetTale
    <3>2. CASE r.undoing
      <4>1. BackTale(r, n)
        BY <1>2, <2>7, <3>2 DEF SetTale
      <4>2. \A x \in {"addr", "old_vlan", "old_mtu", "read_ip"} : x \in Left(q) <=> x \in Left(r)
        BY <2>1
      <4>3. BackTale(q, m)
        <5>1. /\ "flush" \in Left(r) /\ "flush" \notin Left(q) /\ "addr" \in Left(q)
              /\ m.vlan = n.vlan /\ m.mtu = n.mtu /\ m.addr = Unset
          BY <1>6, <2>1, <2>4, <2>5, <2>7
        <5>2. "ip" \in r.done
          BY <1>3, <2>7, <3>2
        <5>3. QED
          BY <2>1, <4>1, <4>2, <5>1, <5>2, ZenonT(60) DEF BackTale
      <4>4. QED
        BY <1>9, <2>1, <3>2, <4>3 DEF SetTale
    <3>3. QED
      BY <3>1, <3>2
  <2>8. QED
    <3>1. /\ Running(c) /\ conf' \in [NicSwitches -> Conf] /\ nic' \in [NicSwitches -> Card]
          /\ route' \in NicSwitches \cup {Unset, Other}
          /\ \A x \in NicSwitches \ {s} : nic'[x] = nic[x] /\ conf'[x] = conf[x]
          /\ s \notin bridges => nic'[s] = NewNic
          /\ Stage(r, bridges, nic[s], conf[s]) =>
                IF q.ok = "none" THEN Stage(q, bridges, nic'[s], conf'[s])
                ELSE conf'[s] = LiveFile(s, bridges, nic'[s])
          /\ r.op = "Set" /\ SetTale(r, bridges, nic[s], route) =>
                SetTale(q, bridges, nic'[s], route')
      BY <1>1, <1>2, <1>4, <1>5, <1>6, <1>7, <2>1, <2>6, <2>7
    <3>2. QED
      BY <1>5, <2>1, <2>2, <3>1, CardStep
<1>10. QED
  BY <1>8, <1>9

LEMMA AddAddrKeeps ==
    ASSUME NicInv, NEW c \in NicCallers, NEW r, r = nicCall[c], AddAddr(c) PROVE NicInv'
<1> DEFINE s == r.on
<1>1. PICK n, f, m : n = nic[s] /\ f = conf[s] /\ m = nic'[s]
  OBVIOUS
<1>2. /\ Running(c) /\ r.todo # <<>> /\ Head(r.todo) = "addr"
      /\ UNCHANGED <<bridges, conf, route, nicCalls, nicAlone, nicDirty>>
      /\ s \in bridges /\ n.addr # r.value =>
            nic' = [nic EXCEPT ![s].addr = r.value] /\ Go(c)
      /\ ~(s \in bridges /\ n.addr # r.value) => nic' = nic /\ Fails(c)
  BY <1>1 DEF AddAddr, Doing
<1>3. /\ r \in NicCallRecord /\ TaskSound(r) /\ r.on \in NicSwitches
      /\ r.ok = "none" /\ r.op # "none"
      /\ bridges \in SUBSET NicSwitches /\ nic \in [NicSwitches -> Card] /\ nic[r.on] \in Card
      /\ conf \in [NicSwitches -> Conf] /\ conf[r.on] \in Conf
      /\ route \in NicSwitches \cup {Unset, Other}
      /\ r.on \notin bridges => nic[r.on] = NewNic
  BY <1>2, StepFacts
<1>4. /\ r.op = "Set" /\ r.value \in Values
      /\ ~r.undoing => "ip" \in r.ask
      /\ r.undoing => "ip" \in r.done
  BY <1>2, <1>3, OpOf DEF TaskSound, IpSteps
<1>5. /\ bridges' = bridges /\ conf' = conf /\ route' = route
      /\ nicCalls' = nicCalls /\ nicAlone' = nicAlone /\ nicDirty' = nicDirty
  BY <1>2
<1>6. /\ "addr" \in Left(r) /\ "flush" \notin Left(r)
      /\ \A x \in SaveSteps : x \notin Left(r)
  <2>1. "addr" \in Left(r) /\ \A x \in Left(r) : x = "addr" \/ Rank("Set", "addr") < Rank("Set", x)
    BY <1>2, <1>3, <1>4, HeadOf
  <2>2. Rank("Set", "addr") = 14 /\ Rank("Set", "flush") = 13
    BY Ranks
  <2>3. \A x \in SaveSteps : x # "addr" /\ Rank("Set", x) \in Int /\ Rank("Set", x) < 14
    BY Ranks DEF SaveSteps
  <2>4. QED
    BY <2>1, <2>2, <2>3
<1>7. Unset \notin Values
  BY InternalNicAssumption
<1>8. CASE ~(s \in bridges /\ n.addr # r.value)
  <2>1. ~Stage(r, bridges, n, f)
    BY <1>4, <1>6, <1>7, <1>8 DEF Stage
  <2>2. ~SetTale(r, bridges, n, route)
    <3>1. ASSUME SetTale(r, bridges, n, route) PROVE FALSE
      <4>1. s \in bridges
        BY <1>3, <3>1 DEF SetTale
      <4>2. CASE ~r.undoing
        <5>1. FirstTale(r, n)
          BY <1>3, <3>1, <4>2 DEF SetTale
        <5>2. n.addr = Unset
          BY <1>4, <1>6, <4>2, <5>1 DEF FirstTale
        <5>3. QED
          BY <1>4, <1>7, <1>8, <4>1, <5>2
      <4>3. CASE r.undoing
        <5>1. BackTale(r, n)
          BY <1>3, <3>1, <4>3 DEF SetTale
        <5>2. n.addr = Unset
          BY <1>4, <1>6, <4>3, <5>1 DEF BackTale
        <5>3. QED
          BY <1>4, <1>7, <1>8, <4>1, <5>2
      <4>4. QED
        BY <4>2, <4>3
    <3>2. QED
      BY <3>1
  <2>3. UNCHANGED <<bridges, nic, conf, route, nicCalls, nicAlone, nicDirty>> /\ Fails(c) /\ Running(c)
    BY <1>2, <1>8
  <2>4. QED
    BY <1>1, <2>1, <2>2, <2>3, RaiseStep
<1>9. CASE s \in bridges /\ n.addr # r.value
  <2> DEFINE q == Skip(r)
  <2>1. /\ q \in NicCallRecord /\ TaskSound(q) /\ q.op = r.op /\ q.on = r.on /\ q.ask = r.ask
        /\ q.value = r.value /\ q.done = r.done
        /\ q.old = r.old /\ q.copy = r.copy /\ q.undoing = r.undoing
        /\ q.ok = "none" /\ q.before = r.before /\ q.routed = r.routed
        /\ q.failed = r.failed /\ Left(q) = Left(r) \ {"addr"}
    BY <1>2, <1>3, SkipIs
  <2>2. nicCall' = [nicCall EXCEPT ![c] = q]
    BY <1>2, <1>9 DEF Go, NicContinue
  <2> HIDE DEF q
  <2>3. /\ nic' \in [NicSwitches -> Card] /\ m.mtu = n.mtu /\ m.vlan = n.vlan /\ m.addr = r.value
        /\ \A x \in NicSwitches \ {s} : nic'[x] = nic[x]
    BY <1>1, <1>2, <1>3, <1>4, <1>9 DEF Card, Setting
  <2>4. Stage(r, bridges, n, f) => Stage(q, bridges, m, f)
    <3> SUFFICES ASSUME Stage(r, bridges, n, f) PROVE Stage(q, bridges, m, f)
      OBVIOUS
    <3>1. \A x \in SaveSteps \cup {"flush", "addr"} : x \notin Left(q)
      BY <1>6, <2>1
    <3>2. f = [NewConf EXCEPT !.ip = r.value, !.mask = r.value]
      BY <1>4, <1>6 DEF Stage, SaveSteps
    <3>3. f = LiveFile(s, bridges, m)
      BY <1>9, <2>3, <3>2 DEF LiveFile
    <3>4. InSave(q, f)
      BY <3>1 DEF InSave, SaveSteps
    <3>5. QED
      BY <1>4, <1>9, <2>1, <3>1, <3>3, <3>4 DEF Stage, SaveSteps
  <2>5. ASSUME SetTale(r, bridges, n, route) PROVE SetTale(q, bridges, m, route)
    <3>1. CASE ~r.undoing
      <4>1. FirstTale(r, n) /\ RouteTale(r, route)
        BY <1>3, <2>5, <3>1 DEF SetTale
      <4>2. /\ "flush" \notin Left(q) /\ "addr" \notin Left(q)
            /\ \A x \in {"vlan", "mtu", "ip_done", "get_vlan", "get_mtu", "get_ip", "route"} :
                  x \in Left(q) <=> x \in Left(r)
        BY <1>6, <2>1
      <4>3. FirstTale(q, m)
        BY <1>4, <2>1, <2>3, <3>1, <4>1, <4>2, ZenonT(60) DEF FirstTale
      <4>4. RouteTale(q, route)
        BY <2>1, <4>1, <4>2 DEF RouteTale
      <4>5. QED
        BY <1>9, <2>1, <3>1, <4>3, <4>4 DEF SetTale
    <3>2. CASE r.undoing
      <4>1. BackTale(r, n)
        BY <1>3, <2>5, <3>2 DEF SetTale
      <4>2. /\ "read_ip" \notin Left(r) /\ "addr" \notin Left(q)
            /\ \A x \in {"flush", "old_vlan", "old_mtu", "read_ip"} :
                  x \in Left(q) <=> x \in Left(r)
        BY <1>6, <2>1 DEF SaveSteps
      <4>3. r.value = r.before.addr /\ r.before.addr # Unset
        BY <1>4, <3>2, <4>1, <4>2 DEF BackTale
      <4>4. BackTale(q, m)
        BY <1>4, <1>6, <2>1, <2>3, <3>2, <4>1, <4>2, <4>3, ZenonT(60) DEF BackTale
      <4>5. QED
        BY <1>9, <2>1, <3>2, <4>4 DEF SetTale
    <3>3. QED
      BY <3>1, <3>2
  <2>6. /\ Running(c) /\ conf' \in [NicSwitches -> Conf] /\ nic' \in [NicSwitches -> Card]
        /\ route' \in NicSwitches \cup {Unset, Other}
        /\ \A x \in NicSwitches \ {s} : nic'[x] = nic[x] /\ conf'[x] = conf[x]
        /\ s \notin bridges => nic'[s] = NewNic
        /\ Stage(r, bridges, nic[s], conf[s]) =>
              IF q.ok = "none" THEN Stage(q, bridges, nic'[s], conf'[s])
              ELSE conf'[s] = LiveFile(s, bridges, nic'[s])
        /\ r.op = "Set" /\ SetTale(r, bridges, nic[s], route) =>
              SetTale(q, bridges, nic'[s], route')
    BY <1>1, <1>2, <1>3, <1>5, <1>9, <2>1, <2>3, <2>4, <2>5
  <2>7. QED
    BY <1>5, <2>1, <2>2, <2>6, CardStep
<1>10. QED
  BY <1>8, <1>9

LEMMA SetGatewayKeeps ==
    ASSUME NicInv, NEW c \in NicCallers, NEW r, r = nicCall[c], SetGateway(c) PROVE NicInv'
<1> DEFINE s == r.on
<1>1. PICK n, f : n = nic[s] /\ f = conf[s]
  OBVIOUS
<1>2. /\ Running(c) /\ r.todo # <<>> /\ Head(r.todo) = "route"
      /\ UNCHANGED <<bridges, nic, conf, nicCalls, nicAlone, nicDirty>>
      /\ route' = IF route = Unset /\ n.addr # Unset THEN s ELSE route
      /\ route = Unset /\ n.addr = Unset => Fails(c)
      /\ ~(route = Unset /\ n.addr = Unset) => Go(c)
  BY <1>1 DEF SetGateway, Doing
<1>3. /\ r \in NicCallRecord /\ TaskSound(r) /\ r.on \in NicSwitches
      /\ r.ok = "none" /\ r.op # "none"
      /\ bridges \in SUBSET NicSwitches /\ nic \in [NicSwitches -> Card] /\ nic[r.on] \in Card
      /\ conf \in [NicSwitches -> Conf] /\ conf[r.on] \in Conf
      /\ route \in NicSwitches \cup {Unset, Other}
      /\ r.on \notin bridges => nic[r.on] = NewNic
  BY <1>2, StepFacts
<1>4. r.op = "Set" /\ ~r.undoing /\ "gateway" \in r.ask /\ r.value \in Values
  BY <1>2, <1>3, OpOf DEF TaskSound
<1>5. /\ bridges' = bridges /\ conf' = conf /\ nic' = nic
      /\ nicCalls' = nicCalls /\ nicAlone' = nicAlone /\ nicDirty' = nicDirty
  BY <1>2
<1>6. Stage(r, bridges, n, f) => f = LiveFile(s, bridges, n)
  BY <1>2, <1>3, <1>4, LiveAt
<1>7. "addr" \notin Left(r) /\ "flush" \notin Left(r) /\ "ip_done" \notin Left(r)
  <2>1. \A x \in Left(r) : x = "route" \/ Rank("Set", "route") < Rank("Set", x)
    BY <1>2, <1>3, <1>4, HeadOf
  <2>2. /\ Rank("Set", "addr") = 14 /\ Rank("Set", "flush") = 13 /\ Rank("Set", "ip_done") = 15
        /\ Rank("Set", "route") = 16
    BY Ranks
  <2>3. QED
    BY <2>1, <2>2
<1>8. CASE route = Unset /\ n.addr = Unset
  <2>1. SetTale(r, bridges, n, route) => SetTale(Raise(r), bridges, n, route)
    <3> SUFFICES ASSUME SetTale(r, bridges, n, route) PROVE SetTale(Raise(r), bridges, n, route)
      OBVIOUS
    <3>1. s \in bridges /\ FirstTale(r, n)
      BY <1>3, <1>4 DEF SetTale
    <3>2. "ip" \notin r.ask
      BY <1>4, <1>7, <1>8, <3>1, InternalNicAssumption DEF FirstTale
    <3>3. QED
      BY <1>2, <1>3, <1>4, <3>1, <3>2, TaleRaise
  <2>2. UNCHANGED <<bridges, nic, conf, route, nicCalls, nicAlone, nicDirty>> /\ Fails(c) /\ Running(c)
    BY <1>2, <1>8
  <2>3. QED
    BY <1>1, <1>6, <2>1, <2>2, RaiseStep
<1>9. CASE ~(route = Unset /\ n.addr = Unset)
  <2> DEFINE q == Skip(r)
  <2>1. /\ q \in NicCallRecord /\ TaskSound(q) /\ q.op = r.op /\ q.on = r.on /\ q.ask = r.ask
        /\ q.value = r.value /\ q.done = r.done
        /\ q.old = r.old /\ q.copy = r.copy /\ q.undoing = r.undoing
        /\ q.ok = "none" /\ q.before = r.before /\ q.routed = r.routed
        /\ q.failed = r.failed /\ Left(q) = Left(r) \ {"route"}
    BY <1>2, <1>3, SkipIs
  <2>2. nicCall' = [nicCall EXCEPT ![c] = q]
    BY <1>2, <1>9 DEF Go, NicContinue
  <2> HIDE DEF q
  <2>3. Stage(r, bridges, n, f) => Stage(q, bridges, n, f)
    <3>1. Head(r.todo) \in OtherSteps /\ Left(q) = Left(r) \ {Head(r.todo)}
      BY <1>2, <2>1 DEF OtherSteps
    <3>2. r \in NicCallRecord /\ TaskSound(r) /\ r.todo # <<>>
      BY <1>2, <1>3
    <3>3. QED
      BY <2>1, <3>1, <3>2, StageSkip
  <2>4. ASSUME SetTale(r, bridges, n, route) PROVE SetTale(q, bridges, n, route')
    <3>1. s \in bridges /\ FirstTale(r, n) /\ RouteTale(r, route)
      BY <1>3, <1>4, <2>4 DEF SetTale
    <3>2. \A x \in {"flush", "addr", "vlan", "mtu", "ip_done", "get_vlan", "get_mtu", "get_ip"} :
             x \in Left(q) <=> x \in Left(r)
      BY <2>1
    <3>3. FirstTale(q, n)
      BY <2>1, <3>1, <3>2, ZenonT(60) DEF FirstTale
    <3>4. RouteTale(q, route')
      BY <1>2, <1>9, <2>1, <3>1 DEF RouteTale
    <3>5. QED
      BY <1>4, <2>1, <3>1, <3>3, <3>4 DEF SetTale
  <2>5. /\ Running(c) /\ conf' \in [NicSwitches -> Conf] /\ nic' \in [NicSwitches -> Card]
        /\ route' \in NicSwitches \cup {Unset, Other}
        /\ \A x \in NicSwitches \ {s} : nic'[x] = nic[x] /\ conf'[x] = conf[x]
        /\ s \notin bridges => nic'[s] = NewNic
        /\ Stage(r, bridges, nic[s], conf[s]) =>
              IF q.ok = "none" THEN Stage(q, bridges, nic'[s], conf'[s])
              ELSE conf'[s] = LiveFile(s, bridges, nic'[s])
        /\ r.op = "Set" /\ SetTale(r, bridges, nic[s], route) =>
              SetTale(q, bridges, nic'[s], route')
    BY <1>1, <1>2, <1>3, <1>5, <2>1, <2>3, <2>4
  <2>6. QED
    BY <1>5, <2>1, <2>2, <2>5, CardStep, ZenonT(60)
<1>10. QED
  BY <1>8, <1>9

LEMMA SetOldKeeps ==
    ASSUME NicInv, NEW c \in NicCallers, NEW r, r = nicCall[c], SetOld(c) PROVE NicInv'
<1> DEFINE s == r.on
<1>1. PICK n, f, m : n = nic[s] /\ f = conf[s] /\ m = nic'[s]
  OBVIOUS
<1>2. /\ Running(c) /\ r.todo # <<>> /\ Head(r.todo) \in {"old_mtu", "old_vlan"}
      /\ UNCHANGED <<bridges, conf, route, nicCalls, nicAlone, nicDirty>>
      /\ Head(r.todo) = "old_mtu" /\ s \in bridges =>
            nic' = [nic EXCEPT ![s].mtu = r.old.mtu] /\ Go(c)
      /\ Head(r.todo) = "old_vlan" /\ s \in bridges /\ r.old.vlan # Unset =>
            nic' = [nic EXCEPT ![s].vlan = r.old.vlan] /\ Go(c)
      /\ s \notin bridges \/ (Head(r.todo) = "old_vlan" /\ r.old.vlan = Unset) =>
            nic' = nic /\ Fails(c)
  BY <1>1 DEF SetOld, Doing
<1>3. /\ r \in NicCallRecord /\ TaskSound(r) /\ r.on \in NicSwitches
      /\ r.ok = "none" /\ r.op # "none"
      /\ bridges \in SUBSET NicSwitches /\ nic \in [NicSwitches -> Card] /\ nic[r.on] \in Card
      /\ conf \in [NicSwitches -> Conf] /\ conf[r.on] \in Conf
      /\ route \in NicSwitches \cup {Unset, Other}
      /\ r.on \notin bridges => nic[r.on] = NewNic
  BY <1>2, StepFacts
<1> DEFINE h == Head(r.todo)
<1>4. /\ r.op = "Set" /\ r.undoing /\ r.old \in Card
      /\ h = "old_vlan" => "vlan" \in r.done
      /\ h = "old_mtu" => "mtu" \in r.done
  BY <1>2, <1>3, OpOf DEF NicCallRecord
<1>5. /\ bridges' = bridges /\ conf' = conf /\ route' = route
      /\ nicCalls' = nicCalls /\ nicAlone' = nicAlone /\ nicDirty' = nicDirty
  BY <1>2
<1>6. Stage(r, bridges, n, f) => f = LiveFile(s, bridges, n)
  BY <1>2, <1>3, <1>4, LiveAt
<1>7. CASE s \notin bridges \/ (h = "old_vlan" /\ r.old.vlan = Unset)
  <2>1. SetTale(r, bridges, n, route) => SetTale(Raise(r), bridges, n, route)
    <3> SUFFICES ASSUME SetTale(r, bridges, n, route) PROVE SetTale(Raise(r), bridges, n, route)
      OBVIOUS
    <3>1. s \in bridges /\ BackTale(r, n)
      BY <1>3, <1>4 DEF SetTale
    <3>2. "vlan" \in r.done /\ r.before.vlan = Unset
      BY <1>4, <1>7, <3>1 DEF BackTale
    <3>3. Raise(r).ok = "raised" /\ Raise(r).done = r.done /\ Raise(r).before = r.before
      BY <1>3, <1>4, RaiseSound
    <3>4. QED
      BY <3>2, <3>3 DEF SetTale
  <2>2. UNCHANGED <<bridges, nic, conf, route, nicCalls, nicAlone, nicDirty>> /\ Fails(c) /\ Running(c)
    BY <1>2, <1>7
  <2>3. QED
    BY <1>1, <1>6, <2>1, <2>2, RaiseStep
<1>8. CASE s \in bridges /\ ~(h = "old_vlan" /\ r.old.vlan = Unset)
  <2> DEFINE q == Skip(r)
  <2>1. /\ q \in NicCallRecord /\ TaskSound(q) /\ q.op = r.op /\ q.on = r.on /\ q.ask = r.ask
        /\ q.value = r.value /\ q.done = r.done
        /\ q.old = r.old /\ q.copy = r.copy /\ q.undoing = r.undoing
        /\ q.ok = "none" /\ q.before = r.before /\ q.routed = r.routed
        /\ q.failed = r.failed /\ Left(q) = Left(r) \ {h}
    BY <1>2, <1>3, SkipIs
  <2>2. nicCall' = [nicCall EXCEPT ![c] = q]
    BY <1>2, <1>8 DEF Go, NicContinue
  <2> HIDE DEF q
  <2>3. /\ nic' \in [NicSwitches -> Card] /\ m.addr = n.addr
        /\ m.mtu = IF h = "old_mtu" THEN r.old.mtu ELSE n.mtu
        /\ m.vlan = IF h = "old_vlan" THEN r.old.vlan ELSE n.vlan
        /\ \A x \in NicSwitches \ {s} : nic'[x] = nic[x]
    <3>1. CASE h = "old_mtu"
      BY <1>1, <1>2, <1>3, <1>4, <1>8, <3>1, SMTT(30) DEF Card
    <3>2. CASE h = "old_vlan"
      BY <1>1, <1>2, <1>3, <1>4, <1>8, <3>2 DEF Card
    <3>3. QED
      BY <1>2, <3>1, <3>2
  <2>4. Stage(r, bridges, n, f) => Stage(q, bridges, m, f)
    <3>1. Head(r.todo) \in OtherSteps /\ Left(q) = Left(r) \ {Head(r.todo)}
      BY <1>2, <2>1 DEF OtherSteps
    <3>2. r \in NicCallRecord /\ TaskSound(r) /\ r.todo # <<>> /\ m.addr = n.addr
      BY <1>2, <1>3, <2>3
    <3>3. QED
      BY <2>1, <3>1, <3>2, StageSkip
  <2>5. ASSUME SetTale(r, bridges, n, route) PROVE SetTale(q, bridges, m, route)
    <3>1. s \in bridges /\ BackTale(r, n)
      BY <1>3, <1>4, <2>5 DEF SetTale
    <3>2. /\ \A x \in {"flush", "addr", "read_ip"} : x \in Left(q) <=> x \in Left(r)
          /\ "old_vlan" \in Left(q) <=> "old_vlan" \in Left(r) /\ h # "old_vlan"
          /\ "old_mtu" \in Left(q) <=> "old_mtu" \in Left(r) /\ h # "old_mtu"
      BY <1>2, <2>1
    <3> HIDE DEF h
    <3>3. /\ "old_vlan" \notin Left(q) => m.vlan = q.before.vlan
          /\ "old_mtu" \notin Left(q) => m.mtu = q.before.mtu
      BY <1>4, <2>1, <2>3, <3>1, <3>2 DEF BackTale
    <3>4. BackTale(q, m)
      BY <2>1, <2>3, <3>1, <3>2, <3>3 DEF BackTale
    <3>5. QED
      BY <1>4, <2>1, <3>1, <3>4 DEF SetTale
  <2>6. /\ Running(c) /\ conf' \in [NicSwitches -> Conf] /\ nic' \in [NicSwitches -> Card]
        /\ route' \in NicSwitches \cup {Unset, Other}
        /\ \A x \in NicSwitches \ {s} : nic'[x] = nic[x] /\ conf'[x] = conf[x]
        /\ s \notin bridges => nic'[s] = NewNic
        /\ Stage(r, bridges, nic[s], conf[s]) =>
              IF q.ok = "none" THEN Stage(q, bridges, nic'[s], conf'[s])
              ELSE conf'[s] = LiveFile(s, bridges, nic'[s])
        /\ r.op = "Set" /\ SetTale(r, bridges, nic[s], route) =>
              SetTale(q, bridges, nic'[s], route')
    BY <1>1, <1>2, <1>3, <1>5, <1>8, <2>1, <2>3, <2>4, <2>5
  <2>7. QED
    BY <1>5, <2>1, <2>2, <2>6, CardStep
<1>9. QED
  BY <1>7, <1>8

\* How far save_conf_file_item has got.
LEMMA SaveAt ==
    ASSUME NEW r \in NicCallRecord, TaskSound(r), r.todo # <<>>, NEW h, h = Head(r.todo),
           h \in SaveSteps
    PROVE  /\ r.op \in {"Set", "Clear"}
           /\ "read_ip" \in Left(r) <=> h = "read_ip"
           /\ "write_ip" \in Left(r) <=> h \in {"read_ip", "open_ip", "write_ip"}
           /\ "read_mask" \in Left(r) <=> h \in {"read_ip", "open_ip", "write_ip", "read_mask"}
           /\ "write_mask" \in Left(r)
           /\ r.op = "Set" => "flush" \in Left(r) /\ "addr" \in Left(r)
           /\ r.op = "Clear" => "flush" \notin Left(r)
           /\ r.op = "Set" /\ ~r.undoing => "ip" \in r.ask
           /\ r.op = "Set" /\ r.undoing => "ip" \in r.done
<1>1. /\ r.op \in {"Set", "Clear"}
      /\ r.op = "Set" /\ ~r.undoing => "ip" \in r.ask
      /\ r.op = "Set" /\ r.undoing => "ip" \in r.done
  BY OpOf DEF IpSteps
<1>2. /\ h \in Left(r) /\ \A x \in Left(r) : x = h \/ Rank(r.op, h) < Rank(r.op, x)
      /\ \A y \in Plan(r) : Rank(r.op, h) < Rank(r.op, y) => y \in Left(r)
  BY HeadOf
<1>3. /\ Rank(r.op, "read_ip") = 7 /\ Rank(r.op, "open_ip") = 8 /\ Rank(r.op, "write_ip") = 9
      /\ Rank(r.op, "read_mask") = 10 /\ Rank(r.op, "open_mask") = 11
      /\ Rank(r.op, "write_mask") = 12 /\ Rank("Set", "flush") = 13 /\ Rank("Set", "addr") = 14
      /\ Rank("Clear", "flush") = 0
  BY Ranks
<1>4. /\ \A x \in SaveSteps : x \in Plan(r)
      /\ r.op = "Set" => "flush" \in Plan(r) /\ "addr" \in Plan(r)
  BY <1>1 DEF Plan, FirstSteps, BackSteps, IpSteps, SaveSteps
<1>5. /\ "read_ip" \in Left(r) <=> h = "read_ip"
      /\ "write_ip" \in Left(r) <=> h \in {"read_ip", "open_ip", "write_ip"}
      /\ "read_mask" \in Left(r) <=> h \in {"read_ip", "open_ip", "write_ip", "read_mask"}
      /\ "write_mask" \in Left(r)
  <2>1. \A x \in SaveSteps : Rank(r.op, h) < Rank(r.op, x) => x \in Left(r)
    BY <1>2, <1>4
  <2>2. /\ "read_ip" \in SaveSteps /\ "write_ip" \in SaveSteps
        /\ "read_mask" \in SaveSteps /\ "write_mask" \in SaveSteps
    BY DEF SaveSteps
  <2>3. CASE h \in {"read_ip", "open_ip", "write_ip"}
    BY <1>2, <1>3, <2>1, <2>2, <2>3
  <2>4. CASE h \in {"read_mask", "open_mask", "write_mask"}
    BY <1>2, <1>3, <2>1, <2>2, <2>4
  <2>5. QED
    BY <2>3, <2>4 DEF SaveSteps
<1>6. /\ r.op = "Set" => "flush" \in Left(r) /\ "addr" \in Left(r)
      /\ r.op = "Clear" => "flush" \notin Left(r)
  <2>1. Rank(r.op, h) \in 7..12 /\ h # "flush"
    BY <1>3 DEF SaveSteps
  <2>2. QED
    BY <1>2, <1>3, <1>4, <2>1
<1>7. QED
  BY <1>1, <1>5, <1>6

\* Such a step is no part of what SetInternalNicParam tells.
LEMMA TaleSave ==
    ASSUME NEW r \in NicCallRecord, NEW q \in NicCallRecord, r.op = "Set", r.ok = "none",
           q.op = r.op, q.on = r.on, q.ask = r.ask, q.value = r.value, q.done = r.done,
           q.old = r.old, q.undoing = r.undoing, q.ok = "none", q.before = r.before,
           q.routed = r.routed, q.failed = r.failed \/ (~r.undoing /\ q.failed = "first"),
           Left(q) \subseteq Left(r), \A x \in Left(r) : x \in Left(q) \/ x \in SaveSteps,
           NEW B, NEW n, NEW way, SetTale(r, B, n, way),
           r.undoing /\ "ip" \in r.done /\ r.old.addr = Unset => "read_ip" \in Left(q)
    PROVE  SetTale(q, B, n, way)
<1>1. \A x \in {"flush", "addr", "vlan", "mtu", "ip_done", "get_vlan", "get_mtu", "get_ip",
                "route", "old_vlan", "old_mtu"} : x \in Left(q) <=> x \in Left(r)
  BY DEF SaveSteps
<1>2. CASE ~r.undoing
  <2>1. r.on \in B /\ FirstTale(r, n) /\ RouteTale(r, way)
    BY <1>2 DEF SetTale
  <2>2. FirstTale(q, n)
    BY <1>1, <1>2, <2>1 DEF FirstTale
  <2>3. RouteTale(q, way)
    BY <1>1, <2>1 DEF RouteTale
  <2>4. QED
    BY <1>2, <2>1, <2>2, <2>3 DEF SetTale
<1>3. CASE r.undoing
  <2>1. r.on \in B /\ BackTale(r, n)
    BY <1>3 DEF SetTale
  <2>2. BackTale(q, n)
    BY <1>1, <1>3, <2>1, ZenonT(60) DEF BackTale
  <2>3. QED
    BY <1>3, <2>1, <2>2 DEF SetTale
<1>4. QED
  BY <1>2, <1>3

LEMMA ReadConfKeeps ==
    ASSUME NicInv, NEW c \in NicCallers, NEW r, r = nicCall[c], ReadConf(c) PROVE NicInv'
<1> DEFINE s == r.on
<1>1. PICK n, f : n = nic[s] /\ f = conf[s]
  OBVIOUS
<1>2. PICK h \in {"read_ip", "read_mask"} : Doing(c, h)
  <2>1. Save("ip")[1] = "read_ip" /\ Save("mask")[1] = "read_mask"
    BY DEF Save
  <2>2. QED
    BY <2>1 DEF ReadConf
<1>3. /\ Running(c) /\ r.todo # <<>> /\ Head(r.todo) = h
      /\ UNCHANGED <<bridges, nic, conf, route, nicCalls, nicAlone, nicDirty>>
      /\ NicContinue(c, IF r.undoing /\ r.old.addr = Unset THEN Raise(r)
                        ELSE IF f.there THEN [Skip(r) EXCEPT !.copy = f]
                        ELSE [r EXCEPT !.todo = SubSeq(@, 4, Len(@))])
  BY <1>1, <1>2 DEF ReadConf, Doing
<1>4. /\ r \in NicCallRecord /\ TaskSound(r) /\ r.on \in NicSwitches
      /\ r.ok = "none" /\ r.op # "none"
      /\ bridges \in SUBSET NicSwitches /\ nic \in [NicSwitches -> Card] /\ nic[r.on] \in Card
      /\ conf \in [NicSwitches -> Conf] /\ conf[r.on] \in Conf
      /\ route \in NicSwitches \cup {Unset, Other}
      /\ r.on \notin bridges => nic[r.on] = NewNic
  BY <1>3, StepFacts
<1>5. /\ r.op \in {"Set", "Clear"}
      /\ "read_ip" \in Left(r) <=> h = "read_ip"
      /\ "write_ip" \in Left(r) <=> h = "read_ip"
      /\ "read_mask" \in Left(r) /\ "write_mask" \in Left(r)
      /\ r.op = "Set" => "flush" \in Left(r) /\ "addr" \in Left(r)
      /\ r.op = "Clear" => "flush" \notin Left(r)
      /\ r.op = "Set" /\ ~r.undoing => "ip" \in r.ask
      /\ r.op = "Set" /\ r.undoing => "ip" \in r.done
  <2>1. h \in SaveSteps
    BY DEF SaveSteps
  <2>2. QED
    BY <1>3, <1>4, <2>1, SaveAt
<1>6. /\ bridges' = bridges /\ conf' = conf /\ nic' = nic /\ route' = route
      /\ nicCalls' = nicCalls /\ nicAlone' = nicAlone /\ nicDirty' = nicDirty
  BY <1>3
<1>7. r.undoing => r.op = "Set"
  BY <1>4 DEF TaskSound
<1>8. CASE r.undoing /\ r.old.addr = Unset
  <2>1. Stage(r, bridges, n, f) => f = LiveFile(s, bridges, n)
    <3>1. CASE h = "read_ip"
      BY <1>3, <1>4, <1>7, <1>8, <3>1, LiveAt
    <3>2. CASE h = "read_mask"
      BY <1>5, <1>7, <1>8, <3>2 DEF Stage
    <3>3. QED
      BY <3>1, <3>2
  <2>2. r.op = "Set" /\ SetTale(r, bridges, n, route) => SetTale(Raise(r), bridges, n, route)
    <3> SUFFICES ASSUME r.op = "Set", SetTale(r, bridges, n, route)
                 PROVE  SetTale(Raise(r), bridges, n, route)
      OBVIOUS
    <3>1. BackTale(r, n)
      BY <1>4, <1>8 DEF SetTale
    <3>2. "ip" \in r.done /\ r.before.addr = Unset
      BY <1>5, <1>8, <3>1 DEF BackTale
    <3>3. Raise(r).ok = "raised" /\ Raise(r).done = r.done /\ Raise(r).before = r.before
      BY <1>4, <1>8, RaiseSound
    <3>4. QED
      BY <3>2, <3>3 DEF SetTale
  <2>3. UNCHANGED <<bridges, nic, conf, route, nicCalls, nicAlone, nicDirty>> /\ Fails(c) /\ Running(c)
    BY <1>3, <1>8 DEF Fails
  <2>4. QED
    BY <1>1, <2>1, <2>2, <2>3, RaiseStep
<1>9. CASE ~(r.undoing /\ r.old.addr = Unset) /\ f.there
  <2> DEFINE p == Skip(r)
             q == [p EXCEPT !.copy = f]
  <2>1. /\ p \in NicCallRecord /\ p.op = r.op /\ p.on = r.on /\ p.ask = r.ask
        /\ p.value = r.value /\ p.done = r.done
        /\ p.old = r.old /\ p.undoing = r.undoing
        /\ p.ok = r.ok /\ p.before = r.before /\ p.routed = r.routed
        /\ p.failed = r.failed /\ p.todo = Tail(r.todo)
    <3>1. p.todo = Tail(r.todo)
      BY <1>4 DEF Skip, NicCallRecord
    <3>2. QED
      BY <1>3, <1>4, <3>1, SkipIs
  <2>2. nicCall' = [nicCall EXCEPT ![c] = q]
    BY <1>3, <1>9 DEF NicContinue
  <2> HIDE DEF p
  <2>3. /\ q \in NicCallRecord /\ q.op = r.op /\ q.on = r.on
        /\ q.ask = r.ask /\ q.value = r.value /\ q.copy = f
        /\ q.undoing = r.undoing /\ q.ok = "none" /\ q.before = r.before
        /\ q.routed = r.routed /\ q.failed = r.failed
        /\ q.done = r.done /\ q.old = r.old /\ q.todo = Tail(r.todo)
    <3>1. f \in Conf
      BY <1>1, <1>4
    <3>2. QED
      BY <1>4, <2>1, <3>1 DEF NicCallRecord
  <2> HIDE DEF q
  <2>4. TaskSound(q) /\ Left(q) = Left(r) \ {h}
    BY <1>3, <1>4, <2>3, SkipSound
  <2>5. Stage(r, bridges, n, f) => Stage(q, bridges, n, f)
    <3> SUFFICES ASSUME Stage(r, bridges, n, f) PROVE Stage(q, bridges, n, f)
      OBVIOUS
    <3>1. /\ \A x \in {"write_ip", "write_mask", "flush", "addr"} : x \in Left(q) <=> x \in Left(r)
          /\ "read_ip" \notin Left(q)
          /\ "read_mask" \in Left(q) <=> h = "read_ip"
      BY <1>5, <2>4
    <3>2. Kept(f) /\ (h = "read_mask" => f.ip = ValueOf(r))
      <4>1. CASE h = "read_mask"
        BY <1>5, <4>1 DEF Stage, InSave
      <4>2. CASE h = "read_ip" /\ r.op = "Clear"
        BY <1>5, <4>2 DEF Stage
      <4>3. CASE h = "read_ip" /\ r.op = "Set"
        <5>1. f = LiveFile(s, bridges, n) /\ s \in bridges
          BY <1>5, <4>3 DEF Stage
        <5>2. n.addr \in Setting
          BY <1>1, <1>4 DEF Card
        <5>3. f = [there |-> TRUE, head |-> TRUE, ip |-> n.addr, mask |-> n.addr]
          BY <5>1, <5>2, ConfIs DEF LiveFile
        <5>4. QED
          BY <4>3, <5>3 DEF Kept
      <4>4. QED
        BY <1>5, <4>1, <4>2, <4>3
    <3>3. InSave(q, f)
      BY <1>5, <2>3, <3>1, <3>2 DEF InSave, ValueOf
    <3>4. QED
      BY <1>5, <1>9, <2>3, <3>1, <3>3 DEF Stage
  <2>6. r.op = "Set" /\ SetTale(r, bridges, n, route) => SetTale(q, bridges, n, route)
    <3>1. h \in SaveSteps
      BY DEF SaveSteps
    <3>2. Left(q) \subseteq Left(r) /\ \A x \in Left(r) : x \in Left(q) \/ x \in SaveSteps
      BY <2>4, <3>1
    <3>3. QED
      BY <1>4, <1>9, <2>3, <3>2, TaleSave
  <2>7. /\ Running(c) /\ conf' \in [NicSwitches -> Conf] /\ nic' \in [NicSwitches -> Card]
        /\ route' \in NicSwitches \cup {Unset, Other}
        /\ \A x \in NicSwitches \ {s} : nic'[x] = nic[x] /\ conf'[x] = conf[x]
        /\ s \notin bridges => nic'[s] = NewNic
        /\ Stage(r, bridges, nic[s], conf[s]) =>
              IF q.ok = "none" THEN Stage(q, bridges, nic'[s], conf'[s])
              ELSE conf'[s] = LiveFile(s, bridges, nic'[s])
        /\ r.op = "Set" /\ SetTale(r, bridges, nic[s], route) =>
              SetTale(q, bridges, nic'[s], route')
    BY <1>1, <1>3, <1>4, <1>6, <2>3, <2>5, <2>6
  <2>8. q \in NicCallRecord /\ q.op = r.op /\ q.on = r.on /\ q.ok = "none" /\ TaskSound(q)
    BY <2>3, <2>4
  <2>9. QED
    BY <1>6, <2>2, <2>7, <2>8, CardStep
<1>10. CASE ~(r.undoing /\ r.old.addr = Unset) /\ ~f.there
  <2> DEFINE q == [r EXCEPT !.todo = SubSeq(@, 4, Len(@))]
  <2>1. nicCall' = [nicCall EXCEPT ![c] = q]
    BY <1>3, <1>10 DEF NicContinue
  <2>2. /\ q.op = r.op /\ q.on = r.on /\ q.ask = r.ask /\ q.value = r.value
        /\ q.undoing = r.undoing /\ q.ok = "none" /\ q.before = r.before
        /\ q.routed = r.routed /\ q.failed = r.failed
        /\ q.done = r.done /\ q.old = r.old /\ q.todo = SubSeq(r.todo, 4, Len(r.todo))
    BY <1>4 DEF NicCallRecord
  <2>3. /\ TaskSound(q) /\ q.todo \in Seq(AllSteps)
        /\ Left(q) \subseteq Left(r) /\ \A x \in Left(r) : x \in Left(q) \/ x \in SaveSteps
    <3> HIDE DEF q
    <3>1. QED
      BY <1>3, <1>4, <2>2, SaveSkipped
  <2>4. q \in NicCallRecord
    <3>1. SubSeq(r.todo, 4, Len(r.todo)) \in Seq(AllSteps)
      BY <2>2, <2>3
    <3>2. QED
      BY <1>4, <3>1 DEF NicCallRecord
  <2> HIDE DEF q
  <2>5. ~Stage(r, bridges, n, f)
    <3> SUFFICES ASSUME Stage(r, bridges, n, f) PROVE FALSE
      OBVIOUS
    <3>1. CASE h = "read_mask"
      BY <1>5, <1>10, <3>1 DEF Stage, InSave, Kept
    <3>2. CASE h = "read_ip" /\ r.op = "Clear"
      BY <1>5, <1>10, <3>2 DEF Stage, Kept
    <3>3. CASE h = "read_ip" /\ r.op = "Set"
      <4>1. f = LiveFile(s, bridges, n) /\ s \in bridges
        BY <1>5, <3>3 DEF Stage
      <4>2. n.addr \in Setting
        BY <1>1, <1>4 DEF Card
      <4>3. f = [there |-> TRUE, head |-> TRUE, ip |-> n.addr, mask |-> n.addr]
        BY <4>1, <4>2, ConfIs DEF LiveFile
      <4>4. QED
        BY <1>10, <4>3
    <3>4. QED
      BY <1>5, <3>1, <3>2, <3>3
  <2>6. r.op = "Set" /\ SetTale(r, bridges, n, route) => SetTale(q, bridges, n, route)
    BY <1>4, <1>10, <2>2, <2>3, <2>4, TaleSave
  <2>7. /\ Running(c) /\ conf' \in [NicSwitches -> Conf] /\ nic' \in [NicSwitches -> Card]
        /\ route' \in NicSwitches \cup {Unset, Other}
        /\ \A x \in NicSwitches \ {s} : nic'[x] = nic[x] /\ conf'[x] = conf[x]
        /\ s \notin bridges => nic'[s] = NewNic
        /\ Stage(r, bridges, nic[s], conf[s]) =>
              IF q.ok = "none" THEN Stage(q, bridges, nic'[s], conf'[s])
              ELSE conf'[s] = LiveFile(s, bridges, nic'[s])
        /\ r.op = "Set" /\ SetTale(r, bridges, nic[s], route) =>
              SetTale(q, bridges, nic'[s], route')
    BY <1>1, <1>3, <1>4, <1>6, <2>2, <2>5, <2>6
  <2>8. QED
    BY <1>6, <2>1, <2>2, <2>3, <2>4, <2>7, CardStep, ZenonT(60)
<1>11. QED
  BY <1>8, <1>9, <1>10

LEMMA OpenConfKeeps ==
    ASSUME NicInv, NEW c \in NicCallers, NEW r, r = nicCall[c], OpenConf(c) PROVE NicInv'
<1> DEFINE s == r.on
<1>1. PICK n, f, g : n = nic[s] /\ f = conf[s] /\ g = conf'[s]
  OBVIOUS
<1>2. PICK h \in {"open_ip", "open_mask"} : Doing(c, h)
  BY DEF OpenConf
<1>3. /\ Running(c) /\ r.todo # <<>> /\ Head(r.todo) = h
      /\ UNCHANGED <<bridges, nic, route, nicCalls, nicAlone, nicDirty>>
      /\ conf' = [conf EXCEPT ![s] = Truncated] /\ Go(c)
  BY <1>1, <1>2 DEF OpenConf, Doing
<1>4. /\ r \in NicCallRecord /\ TaskSound(r) /\ r.on \in NicSwitches
      /\ r.ok = "none" /\ r.op # "none"
      /\ bridges \in SUBSET NicSwitches /\ nic \in [NicSwitches -> Card] /\ nic[r.on] \in Card
      /\ conf \in [NicSwitches -> Conf] /\ conf[r.on] \in Conf
      /\ route \in NicSwitches \cup {Unset, Other}
      /\ r.on \notin bridges => nic[r.on] = NewNic
  BY <1>3, StepFacts
<1>5. /\ r.op \in {"Set", "Clear"}
      /\ "read_ip" \notin Left(r)
      /\ "write_ip" \in Left(r) <=> h = "open_ip"
      /\ "read_mask" \in Left(r) <=> h = "open_ip"
      /\ "write_mask" \in Left(r)
      /\ r.op = "Set" => "flush" \in Left(r) /\ "addr" \in Left(r)
      /\ r.op = "Clear" => "flush" \notin Left(r)
      /\ h \in SaveSteps
  <2>1. h \in SaveSteps
    BY DEF SaveSteps
  <2>2. QED
    BY <1>3, <1>4, <2>1, SaveAt
<1>6. /\ bridges' = bridges /\ nic' = nic /\ route' = route
      /\ nicCalls' = nicCalls /\ nicAlone' = nicAlone /\ nicDirty' = nicDirty
  BY <1>3
<1> DEFINE q == Skip(r)
<1>7. /\ q \in NicCallRecord /\ TaskSound(q) /\ q.op = r.op /\ q.on = r.on /\ q.ask = r.ask
        /\ q.value = r.value /\ q.done = r.done
        /\ q.old = r.old /\ q.copy = r.copy /\ q.undoing = r.undoing
        /\ q.ok = "none" /\ q.before = r.before /\ q.routed = r.routed
        /\ q.failed = r.failed /\ Left(q) = Left(r) \ {h}
    BY <1>3, <1>4, SkipIs
<1>8. nicCall' = [nicCall EXCEPT ![c] = q]
  BY <1>3 DEF Go, NicContinue
<1> HIDE DEF q
<1>9. conf' \in [NicSwitches -> Conf] /\ \A x \in NicSwitches \ {s} : conf'[x] = conf[x]
  BY <1>3, <1>4, ConfIs
<1>10. Stage(r, bridges, n, f) => Stage(q, bridges, n, g)
  <2> SUFFICES ASSUME Stage(r, bridges, n, f) PROVE Stage(q, bridges, n, g)
    OBVIOUS
  <2>1. \A x \in {"read_ip", "write_ip", "read_mask", "write_mask", "flush", "addr"} :
           x \in Left(q) <=> x \in Left(r)
    BY <1>7
  <2>2. InSave(r, f)
    BY <1>5 DEF Stage
  <2>3. InSave(q, g)
    BY <1>5, <1>7, <2>1, <2>2 DEF InSave, ValueOf
  <2>4. QED
    BY <1>5, <1>7, <2>1, <2>3 DEF Stage
<1>11. r.op = "Set" /\ SetTale(r, bridges, n, route) => SetTale(q, bridges, n, route)
  <2>1. Left(q) \subseteq Left(r) /\ \A x \in Left(r) : x \in Left(q) \/ x \in SaveSteps
    BY <1>5, <1>7
  <2> SUFFICES ASSUME r.op = "Set", SetTale(r, bridges, n, route)
               PROVE  SetTale(q, bridges, n, route)
    OBVIOUS
  <2>2. r.undoing /\ "ip" \in r.done => r.old.addr # Unset
    <3> SUFFICES ASSUME r.undoing, "ip" \in r.done PROVE r.old.addr # Unset
      OBVIOUS
    <3>1. BackTale(r, n)
      BY <1>4 DEF SetTale
    <3>2. QED
      BY <1>5, <3>1 DEF BackTale
  <2>3. QED
    BY <1>4, <1>7, <2>1, <2>2, TaleSave
<1>12. /\ Running(c) /\ conf' \in [NicSwitches -> Conf] /\ nic' \in [NicSwitches -> Card]
       /\ route' \in NicSwitches \cup {Unset, Other}
       /\ \A x \in NicSwitches \ {s} : nic'[x] = nic[x] /\ conf'[x] = conf[x]
       /\ s \notin bridges => nic'[s] = NewNic
       /\ Stage(r, bridges, nic[s], conf[s]) =>
             IF q.ok = "none" THEN Stage(q, bridges, nic'[s], conf'[s])
             ELSE conf'[s] = LiveFile(s, bridges, nic'[s])
       /\ r.op = "Set" /\ SetTale(r, bridges, nic[s], route) =>
             SetTale(q, bridges, nic'[s], route')
  BY <1>1, <1>3, <1>4, <1>6, <1>7, <1>9, <1>10, <1>11
<1>13. QED
  BY <1>6, <1>7, <1>8, <1>12, CardStep, ZenonT(60)

LEMMA WriteConfKeeps ==
    ASSUME NicInv, NEW c \in NicCallers, NEW r, r = nicCall[c], WriteConf(c) PROVE NicInv'
<1> DEFINE s == r.on
           new == IF r.op = "Clear" THEN Unset ELSE r.value
<1>1. PICK n, f, g : n = nic[s] /\ f = conf[s] /\ g = conf'[s]
  OBVIOUS
<1>2. PICK h \in {"write_ip", "write_mask"} :
         /\ Doing(c, h)
         /\ conf' = [conf EXCEPT ![s] = [r.copy EXCEPT
                        !.ip = IF h = "write_ip" THEN new ELSE @,
                        !.mask = IF h = "write_mask" THEN new ELSE @]]
  <2>1. Save("ip")[3] = "write_ip" /\ Save("mask")[3] = "write_mask"
    BY DEF Save
  <2>2. QED
    BY <2>1 DEF WriteConf
<1>3. /\ Running(c) /\ r.todo # <<>> /\ Head(r.todo) = h
      /\ UNCHANGED <<bridges, nic, route, nicCalls, nicAlone, nicDirty>>
      /\ NicContinue(c, [Skip(r) EXCEPT !.copy = NoConf])
  BY <1>1, <1>2 DEF WriteConf, Doing
<1>4. /\ r \in NicCallRecord /\ TaskSound(r) /\ r.on \in NicSwitches
      /\ r.ok = "none" /\ r.op # "none"
      /\ bridges \in SUBSET NicSwitches /\ nic \in [NicSwitches -> Card] /\ nic[r.on] \in Card
      /\ conf \in [NicSwitches -> Conf] /\ conf[r.on] \in Conf
      /\ route \in NicSwitches \cup {Unset, Other}
      /\ r.on \notin bridges => nic[r.on] = NewNic
  BY <1>3, StepFacts
<1>5. /\ r.op \in {"Set", "Clear"}
      /\ "read_ip" \notin Left(r)
      /\ "write_ip" \in Left(r) <=> h = "write_ip"
      /\ "read_mask" \in Left(r) <=> h = "write_ip"
      /\ "write_mask" \in Left(r)
      /\ r.op = "Set" => "flush" \in Left(r) /\ "addr" \in Left(r)
      /\ r.op = "Clear" => "flush" \notin Left(r)
      /\ h \in SaveSteps
  <2>1. h \in SaveSteps
    BY DEF SaveSteps
  <2>2. QED
    BY <1>3, <1>4, <2>1, SaveAt
<1>6. /\ bridges' = bridges /\ nic' = nic /\ route' = route
      /\ nicCalls' = nicCalls /\ nicAlone' = nicAlone /\ nicDirty' = nicDirty
  BY <1>3
<1> DEFINE p == Skip(r)
           q == [p EXCEPT !.copy = NoConf]
<1>7. /\ p \in NicCallRecord /\ p.op = r.op /\ p.on = r.on /\ p.ask = r.ask
      /\ p.value = r.value /\ p.done = r.done
      /\ p.old = r.old /\ p.undoing = r.undoing
      /\ p.ok = r.ok /\ p.before = r.before /\ p.routed = r.routed
      /\ p.failed = r.failed /\ p.todo = Tail(r.todo)
  <2>1. p.todo = Tail(r.todo)
    BY <1>4 DEF Skip, NicCallRecord
  <2>2. QED
    BY <1>3, <1>4, <2>1, SkipIs
<1>8. nicCall' = [nicCall EXCEPT ![c] = q]
  BY <1>3 DEF NicContinue
<1> HIDE DEF p
<1>9. /\ q \in NicCallRecord /\ q.op = r.op /\ q.on = r.on
      /\ q.ask = r.ask /\ q.value = r.value
      /\ q.undoing = r.undoing /\ q.ok = "none" /\ q.before = r.before
      /\ q.routed = r.routed /\ q.failed = r.failed
      /\ q.done = r.done /\ q.old = r.old /\ q.todo = Tail(r.todo)
  BY <1>4, <1>7, ConfIs DEF NicCallRecord
<1> HIDE DEF q
<1>10. TaskSound(q) /\ Left(q) = Left(r) \ {h}
  BY <1>3, <1>4, <1>9, SkipSound
<1>11. /\ g \in Conf /\ g.there = r.copy.there /\ g.head = r.copy.head
       /\ g.ip = (IF h = "write_ip" THEN ValueOf(r) ELSE r.copy.ip)
       /\ h = "write_mask" => g.mask = ValueOf(r)
       /\ conf' \in [NicSwitches -> Conf] /\ \A x \in NicSwitches \ {s} : conf'[x] = conf[x]
  <2> DEFINE k == [r.copy EXCEPT !.ip = IF h = "write_ip" THEN new ELSE @,
                                 !.mask = IF h = "write_mask" THEN new ELSE @]
  <2>1. r.copy \in Conf /\ new \in Setting /\ new = ValueOf(r)
    BY <1>4 DEF NicCallRecord, Setting, ValueOf
  <2> HIDE DEF new
  <2>2. /\ k \in Conf /\ k.there = r.copy.there /\ k.head = r.copy.head
        /\ k.ip = (IF h = "write_ip" THEN new ELSE r.copy.ip)
        /\ h = "write_mask" => k.mask = new
    BY <2>1 DEF Conf
  <2>3. conf' = [conf EXCEPT ![s] = k]
    BY <1>2 DEF new
  <2> HIDE DEF k
  <2>4. g = k /\ conf' \in [NicSwitches -> Conf] /\ \A x \in NicSwitches \ {s} : conf'[x] = conf[x]
    BY <1>1, <1>4, <2>2, <2>3
  <2>5. QED
    BY <2>1, <2>2, <2>4
<1>12. Stage(r, bridges, n, f) => Stage(q, bridges, n, g)
  <2> SUFFICES ASSUME Stage(r, bridges, n, f) PROVE Stage(q, bridges, n, g)
    OBVIOUS
  <2>1. /\ \A x \in {"read_ip", "read_mask", "flush", "addr"} : x \in Left(q) <=> x \in Left(r)
        /\ "write_ip" \notin Left(q)
        /\ "write_mask" \in Left(q) <=> h = "write_ip"
    BY <1>5, <1>10
  <2>2. InSave(r, f)
    BY <1>5 DEF Stage
  <2>3. Kept(g) /\ g.ip = ValueOf(r)
    BY <1>5, <1>11, <2>2 DEF InSave, Kept
  <2>4. InSave(q, g)
    BY <1>5, <1>9, <2>1, <2>3 DEF InSave, ValueOf
  <2>5. h = "write_mask" => g = [there |-> TRUE, head |-> TRUE, ip |-> ValueOf(r), mask |-> ValueOf(r)]
    <3> SUFFICES ASSUME h = "write_mask"
                 PROVE  g = [there |-> TRUE, head |-> TRUE, ip |-> ValueOf(r), mask |-> ValueOf(r)]
      OBVIOUS
    <3>1. g = [there |-> g.there, head |-> g.head, ip |-> g.ip, mask |-> g.mask]
      BY <1>11 DEF Conf
    <3>2. g.there = TRUE /\ g.head = TRUE
      BY <1>11, <2>3 DEF Kept, Conf
    <3>3. QED
      BY <1>11, <2>3, <3>1, <3>2
  <2>6. ValueOf(r) \in Setting
    BY <1>4 DEF NicCallRecord, Setting, ValueOf
  <2>7. CASE r.op = "Set"
    <3>1. h = "write_mask" => g = [NewConf EXCEPT !.ip = r.value, !.mask = r.value]
      BY <2>5, <2>6, <2>7, ConfIs DEF ValueOf
    <3>2. /\ s \in bridges /\ (r.undoing => r.old.addr # Unset)
      BY <1>5, <2>7 DEF Stage
    <3>3. QED
      BY <1>5, <1>9, <2>1, <2>4, <2>7, <3>1, <3>2 DEF Stage
  <2>8. CASE r.op = "Clear"
    <3>1. s \in bridges /\ n.addr = Unset
      BY <1>5, <2>8 DEF Stage
    <3>2. h = "write_mask" => g = LiveFile(s, bridges, n)
      BY <2>5, <2>6, <2>8, <3>1, ConfIs DEF ValueOf, LiveFile
    <3>3. QED
      BY <1>2, <1>5, <1>9, <2>1, <2>3, <2>4, <2>8, <3>1, <3>2 DEF Stage
  <2>9. QED
    BY <1>5, <2>7, <2>8
<1>13. r.op = "Set" /\ SetTale(r, bridges, n, route) => SetTale(q, bridges, n, route)
  <2>1. Left(q) \subseteq Left(r) /\ \A x \in Left(r) : x \in Left(q) \/ x \in SaveSteps
    BY <1>5, <1>10
  <2> SUFFICES ASSUME r.op = "Set", SetTale(r, bridges, n, route)
               PROVE  SetTale(q, bridges, n, route)
    OBVIOUS
  <2>2. r.undoing /\ "ip" \in r.done => r.old.addr # Unset
    <3> SUFFICES ASSUME r.undoing, "ip" \in r.done PROVE r.old.addr # Unset
      OBVIOUS
    <3>1. BackTale(r, n)
      BY <1>4 DEF SetTale
    <3>2. QED
      BY <1>5, <3>1 DEF BackTale
  <2>3. QED
    BY <1>4, <1>9, <2>1, <2>2, TaleSave
<1>14. /\ Running(c) /\ conf' \in [NicSwitches -> Conf] /\ nic' \in [NicSwitches -> Card]
       /\ route' \in NicSwitches \cup {Unset, Other}
       /\ \A x \in NicSwitches \ {s} : nic'[x] = nic[x] /\ conf'[x] = conf[x]
       /\ s \notin bridges => nic'[s] = NewNic
       /\ Stage(r, bridges, nic[s], conf[s]) =>
             IF q.ok = "none" THEN Stage(q, bridges, nic'[s], conf'[s])
             ELSE conf'[s] = LiveFile(s, bridges, nic'[s])
       /\ r.op = "Set" /\ SetTale(r, bridges, nic[s], route) =>
             SetTale(q, bridges, nic'[s], route')
  BY <1>1, <1>3, <1>4, <1>6, <1>9, <1>11, <1>12, <1>13
<1>15. q \in NicCallRecord /\ q.op = r.op /\ q.on = r.on /\ TaskSound(q)
  BY <1>9, <1>10
<1>16. QED
  BY <1>6, <1>8, <1>14, <1>15, CardStep

\* A command fails: the file of the switch may be wrong from now on.
LEMMA FailKeeps ==
    ASSUME NicInv, NEW c \in NicCallers, NEW r, r = nicCall[c], NicFail(c) PROVE NicInv'
<1> DEFINE s == r.on
           h == Head(r.todo)
           p == [r EXCEPT !.failed = IF r.undoing THEN "rollback" ELSE "first"]
           saving == h \in {"read_ip", "read_mask"}
           q == IF saving THEN [p EXCEPT !.todo = SubSeq(@, 4, Len(@))] ELSE Raise(p)
<1>1. Running(c) /\ r.failed = "" /\ UNCHANGED <<bridges, nic, conf, route, nicCalls, nicAlone>>
  BY DEF NicFail
<1>2. /\ r \in NicCallRecord /\ TaskSound(r) /\ r.on \in NicSwitches
      /\ r.ok = "none" /\ r.op # "none"
      /\ bridges \in SUBSET NicSwitches /\ nic \in [NicSwitches -> Card] /\ nic[r.on] \in Card
      /\ conf \in [NicSwitches -> Conf] /\ conf[r.on] \in Conf
      /\ route \in NicSwitches \cup {Unset, Other}
      /\ r.on \notin bridges => nic[r.on] = NewNic
  BY <1>1, StepFacts
<1>3. /\ p \in NicCallRecord /\ p.op = r.op /\ p.on = r.on /\ p.ask = r.ask
      /\ p.value = r.value /\ p.bad = r.bad /\ p.done = r.done
      /\ p.old = r.old /\ p.copy = r.copy /\ p.undoing = r.undoing
      /\ p.ok = r.ok /\ p.before = r.before /\ p.routed = r.routed
      /\ p.failed = (IF r.undoing THEN "rollback" ELSE "first") /\ p.todo = r.todo
  BY <1>2 DEF NicCallRecord
<1>4. /\ r.todo # <<>> /\ h \notin {"ip_done", "write_ip", "write_mask", "get_ip"}
      /\ nicDirty' = nicDirty \cup {s} /\ nicCall' = [nicCall EXCEPT ![c] = q]
  BY <1>3 DEF NicFail, NicContinue
<1> HIDE DEF p
<1>5. TaskSound(p) /\ Left(p) = Left(r)
  BY <1>2, <1>3 DEF TaskSound, Left, Plan, MayCast
<1>6. h \in Left(r) /\ \A y \in Plan(r) : Rank(r.op, h) < Rank(r.op, y) => y \in Left(r)
  BY <1>2, <1>4, HeadOf
<1>7. CASE saving
  <2>1. q = [p EXCEPT !.todo = SubSeq(@, 4, Len(@))]
    BY <1>7
  <2>2. /\ q.op = p.op /\ q.on = p.on /\ q.ask = p.ask /\ q.value = p.value
        /\ q.undoing = p.undoing /\ q.ok = p.ok /\ q.before = p.before
        /\ q.routed = p.routed /\ q.failed = p.failed
        /\ q.done = p.done /\ q.old = p.old /\ q.todo = SubSeq(p.todo, 4, Len(p.todo))
    BY <1>3, <2>1 DEF NicCallRecord
  <2>3. q \in NicCallRecord
    <3>1. SubSeq(p.todo, 4, Len(p.todo)) \in Seq(AllSteps)
      <4> DEFINE w == [p EXCEPT !.todo = SubSeq(p.todo, 4, Len(p.todo))]
      <4>1. /\ w.op = p.op /\ w.undoing = p.undoing /\ w.ask = p.ask /\ w.value = p.value
            /\ w.done = p.done /\ w.todo = SubSeq(p.todo, 4, Len(p.todo))
        BY <1>3 DEF NicCallRecord
      <4> HIDE DEF w
      <4>2. w.todo \in Seq(AllSteps)
        BY <1>3, <1>4, <1>5, <1>7, <4>1, SaveSkipped
      <4>3. QED
        BY <4>1, <4>2
    <3>2. QED
      BY <1>3, <2>1, <3>1 DEF NicCallRecord
  <2> HIDE DEF q
  <2>4. /\ TaskSound(q) /\ Left(q) \subseteq Left(r)
        /\ \A x \in Left(r) : x \in Left(q) \/ x \in SaveSteps
    <3>1. /\ TaskSound(q) /\ Left(q) \subseteq Left(p)
          /\ \A x \in Left(p) : x \in Left(q) \/ x \in SaveSteps
      BY <1>3, <1>4, <1>5, <1>7, <2>2, SaveSkipped
    <3>2. QED
      BY <1>5, <3>1
  <2>5. ASSUME r.op = "Set", SetTale(r, bridges, nic[s], route)
        PROVE  SetTale(q, bridges, nic[s], route)
    <3>1. ~r.undoing
      <4> SUFFICES ASSUME r.undoing PROVE FALSE
        OBVIOUS
      <4>1. BackTale(r, nic[s])
        BY <1>2, <2>5 DEF SetTale
      <4>2. "ip" \in r.done
        <5>1. h \in SaveSteps
          BY <1>7 DEF SaveSteps
        <5>2. QED
          BY <1>2, <1>4, <2>5, <5>1, SaveAt
      <4>3. QED
        BY <1>1, <4>1, <4>2 DEF BackTale
    <3>2. /\ q.op = r.op /\ q.on = r.on /\ q.ask = r.ask /\ q.value = r.value /\ q.done = r.done
          /\ q.old = r.old /\ q.undoing = r.undoing /\ q.ok = "none" /\ q.before = r.before
          /\ q.routed = r.routed /\ q.failed = "first"
      BY <1>2, <1>3, <2>2, <3>1
    <3>3. QED
      BY <1>2, <2>3, <2>4, <2>5, <3>1, <3>2, TaleSave
  <2>6. q.op = r.op /\ q.on = r.on
    BY <1>3, <2>2
  <2>7. /\ conf' = conf /\ nic' = nic /\ bridges' = bridges /\ route' = route
        /\ nicCalls' = nicCalls /\ nicAlone' = nicAlone /\ nicDirty' = nicDirty \cup {s} /\ s \in nicDirty'
        /\ nicCall' = [nicCall EXCEPT ![c] = q]
    BY <1>1, <1>4
  <2>8. /\ s \notin bridges' => nic'[s] = NewNic
        /\ \A x \in NicSwitches \ {s} :
              (x \in bridges' <=> x \in bridges) /\ nic'[x] = nic[x] /\ conf'[x] = conf[x]
        /\ r.op = "Set" /\ SetTale(r, bridges, nic[s], route) =>
              SetTale(q, bridges', nic'[s], route')
    BY <1>2, <2>5, <2>7
  <2>9. QED
    BY <1>1, <1>2, <2>3, <2>4, <2>6, <2>7, <2>8, NicStep
<1>8. CASE ~saving
  <2>1. q = Raise(p)
    BY <1>8
  <2>2. /\ q \in NicCallRecord /\ TaskSound(q) /\ q.op = r.op /\ q.on = r.on
        /\ q.bad = r.bad /\ q.done = r.done /\ q.old = r.old
        /\ q.before = r.before /\ q.failed = p.failed
        /\ r.op = "Set" /\ r.undoing => q.ok = "raised"
    <3> DEFINE e == Raise(p)
    <3>1. /\ e \in NicCallRecord /\ TaskSound(e) /\ e.op = p.op /\ e.on = p.on
          /\ e.bad = p.bad /\ e.done = p.done /\ e.old = p.old
          /\ e.before = p.before /\ e.failed = p.failed
          /\ p.op = "Set" /\ p.undoing => e.ok = "raised"
      BY <1>3, <1>5, RaiseSound
    <3> HIDE DEF e
    <3>2. q = e
      BY <2>1 DEF e
    <3> HIDE DEF q
    <3>3. QED
      BY <1>3, <3>1, <3>2
  <2>3. ASSUME r.op = "Set", SetTale(r, bridges, nic[s], route)
        PROVE  SetTale(q, bridges, nic[s], route)
    <3>1. CASE r.undoing
      BY <1>3, <2>2, <2>3, <3>1 DEF SetTale
    <3>2. CASE ~r.undoing
      <4>1. s \in bridges /\ FirstTale(r, nic[s])
        BY <1>2, <2>3, <3>2 DEF SetTale
      <4>2. FirstTale(p, nic[s])
        BY <1>3, <1>5, <3>2, <4>1 DEF FirstTale
      <4>3. "ip" \in r.ask /\ "addr" \notin Left(r) => "ip" \in r.done
        <5> SUFFICES ASSUME "ip" \in r.ask, "addr" \notin Left(r), "ip_done" \in Left(r)
                     PROVE  FALSE
          BY <4>1 DEF FirstTale
        <5>1. "addr" \in Plan(r)
          BY <2>3, <3>2 DEF Plan, FirstSteps, IpSteps
        <5>2. ~(Rank("Set", h) < Rank("Set", "addr"))
          BY <1>6, <2>3, <5>1
        <5>3. h = "ip_done" \/ Rank("Set", h) < Rank("Set", "ip_done")
          BY <1>2, <1>4, <2>3, HeadOf
        <5>4. Rank("Set", "addr") = 14 /\ Rank("Set", "ip_done") = 15
          BY Ranks
        <5>5. h \in FirstSteps(r.ask)
          BY <1>6, <1>2, <2>3, <3>2 DEF TaskSound, Plan, MayCast
        <5>6. h # "addr" /\ h # "ip_done"
          BY <1>4, <1>6
        <5>7. Rank("Set", h) \in 1..13 \cup {16}
          <6>1. h = "flush" => Rank("Set", h) = 13
            BY Ranks
          <6>2. QED
            BY <5>5, <5>6, <6>1, Ranks DEF FirstSteps, IpSteps, SaveSteps
        <5>8. QED
          BY <5>2, <5>3, <5>4, <5>6, <5>7
      <4>4. SetTale(Raise(p), bridges, nic[s], route)
        BY <1>2, <1>3, <1>4, <1>5, <2>3, <3>2, <4>1, <4>2, <4>3, TaleRaise
      <4>5. QED
        BY <2>1, <4>4
    <3>3. QED
      BY <3>1, <3>2
  <2> HIDE DEF q
  <2>4. /\ conf' = conf /\ nic' = nic /\ bridges' = bridges /\ route' = route
        /\ nicCalls' = nicCalls /\ nicAlone' = nicAlone /\ nicDirty' = nicDirty \cup {s} /\ s \in nicDirty'
        /\ nicCall' = [nicCall EXCEPT ![c] = q]
    BY <1>1, <1>4
  <2>5. /\ s \notin bridges' => nic'[s] = NewNic
        /\ \A x \in NicSwitches \ {s} :
              (x \in bridges' <=> x \in bridges) /\ nic'[x] = nic[x] /\ conf'[x] = conf[x]
        /\ r.op = "Set" /\ SetTale(r, bridges, nic[s], route) =>
              SetTale(q, bridges', nic'[s], route')
    BY <1>2, <2>3, <2>4
  <2>6. q \in NicCallRecord /\ TaskSound(q) /\ q.op = r.op /\ q.on = r.on
    BY <2>2
  <2>7. QED
    BY <1>1, <1>2, <2>4, <2>5, <2>6, NicStep
<1>9. QED
  BY <1>7, <1>8

-----------------------------------------------------------------------------
(* Calls begin                                                             *)

LEMMA IdleSound ==
    /\ NicIdle \in NicCallRecord /\ TaskSound(NicIdle) /\ NicIdle.op = "none" /\ NicIdle.ok = "none"
    /\ NicIdle.undoing = FALSE /\ NicIdle.done = {} /\ NicIdle.failed = "" /\ NicIdle.value = Unset
<1> DEFINE s == CHOOSE s \in NicSwitches : TRUE
<1>1. s \in NicSwitches
  BY InternalNicAssumption
<1>2. NewNic \in Card /\ Unset \in Setting
  BY DEF NewNic, Card, Setting
<1>3. Lists("none", <<>>, {})
  BY ListOfNone
<1> DEFINE k == [op |-> "none", on |-> s, todo |-> <<>>, ask |-> {}, value |-> Unset,
                 bad |-> {}, done |-> {}, old |-> NewNic, copy |-> NoConf,
                 undoing |-> FALSE, ok |-> "none", before |-> NewNic, routed |-> FALSE,
                 failed |-> ""]
<1>4. NicIdle = k
  BY DEF NicIdle
<1> HIDE DEF s
<1>5. k \in NicCallRecord
  BY <1>1, <1>2, <1>3, ConfIs DEF NicCallRecord, Lists, NicAnswers, Parts
<1>6. /\ k.op = "none" /\ k.ok = "none" /\ k.todo = <<>> /\ k.undoing = FALSE
      /\ k.done = {} /\ k.failed = "" /\ k.value = Unset
  OBVIOUS
<1> HIDE DEF k
<1>7. TaskSound(k)
  BY <1>3, <1>6 DEF TaskSound, Lists, Left, Plan
<1>8. QED
  BY <1>4, <1>5, <1>6, <1>7

\* The histories of a call that is overlapped are forgotten.
LEMMA ForgetSound ==
    ASSUME NEW r \in NicCallRecord, TaskSound(r),
           NEW q, q = [r EXCEPT !.before = NewNic, !.routed = FALSE]
    PROVE  /\ q \in NicCallRecord /\ TaskSound(q) /\ q.op = r.op /\ q.on = r.on /\ q.ok = r.ok
           /\ \A B, n, f : Stage(r, B, n, f) => Stage(q, B, n, f)
<1>1. NewNic \in Card
  BY DEF NewNic, Card, Setting
<1>2. /\ q \in NicCallRecord /\ q.op = r.op /\ q.on = r.on /\ q.ok = r.ok /\ q.todo = r.todo
      /\ q.ask = r.ask /\ q.value = r.value /\ q.done = r.done /\ q.old = r.old
      /\ q.copy = r.copy /\ q.undoing = r.undoing
  BY <1>1 DEF NicCallRecord
<1>3. Left(q) = Left(r) /\ Plan(q) = Plan(r) /\ MayCast(q) = MayCast(r)
  BY <1>2 DEF Left, Plan, MayCast
<1>4. TaskSound(q)
  BY <1>2, <1>3 DEF TaskSound
<1>5. ASSUME NEW B, NEW n, NEW f, Stage(r, B, n, f) PROVE Stage(q, B, n, f)
  <2>1. InSave(r, f) => InSave(q, f)
    BY <1>2, <1>3 DEF InSave, ValueOf
  <2>2. QED
    BY <1>2, <1>3, <1>5, <2>1 DEF Stage
<1>6. QED
  BY <1>2, <1>4, <1>5

\* What a handler has to do when it begins.
Begun(op, ask, X) ==
    /\ op = "Set" => X = FirstSteps(ask)
    /\ op = "Clear" => X = {"flush"} \cup SaveSteps
    /\ op = "Add" => {"add_br", "generate"} \subseteq X
                     /\ X \subseteq {"add_br", "generate", "multicast"}
    /\ op = "Del" => X = {"del_br", "remove"}
    /\ op = "Modify" => X \subseteq {"multicast"}

LEMMA NewSound ==
    ASSUME NEW q \in NicCallRecord, NEW X, Lists(q.op, q.todo, X), Begun(q.op, q.ask, X),
           q.op # "none", q.op = "Set" => q.value \in Values, ~q.undoing
    PROVE  /\ TaskSound(q) /\ Left(q) = X
           /\ \A B, n : (q.op # "Add" => q.on \in B) => Stage(q, B, n, LiveFile(q.on, B, n))
<1>1. Left(q) = X /\ Ranked(q.op, q.todo)
  BY DEF Lists, Left
<1>2. q.op \in {"Set", "Clear", "Add", "Del", "Modify"}
  BY DEF NicCallRecord
<1>3. X \subseteq Plan(q) \cup MayCast(q) /\ Plan(q) \subseteq X
  BY <1>2 DEF Begun, Plan, MayCast
<1>4. TaskSound(q)
  BY <1>1, <1>3 DEF TaskSound
<1>5. ASSUME NEW B, NEW n, q.op # "Add" => q.on \in B
      PROVE  Stage(q, B, n, LiveFile(q.on, B, n))
  <2> DEFINE f == LiveFile(q.on, B, n)
  <2> HIDE DEF f
  <2>1. CASE q.op = "Set"
    <3>1. \/ \A x \in IpSteps : x \in X
          \/ \A x \in IpSteps : x \notin X
      BY <2>1 DEF Begun, FirstSteps, IpSteps, SaveSteps
    <3>2. InSave(q, f)
      BY <1>1, <3>1 DEF InSave, IpSteps, SaveSteps
    <3>3. Stage(q, B, n, f)
      BY <1>1, <1>5, <2>1, <3>1, <3>2 DEF Stage, IpSteps, SaveSteps, f
    <3>4. QED
      BY <3>3 DEF f
  <2>2. CASE q.op = "Clear"
    <3>1. "flush" \in X /\ \A x \in SaveSteps : x \in X
      BY <2>2 DEF Begun
    <3>2. InSave(q, f)
      BY <1>1, <3>1 DEF InSave, SaveSteps
    <3>3. Stage(q, B, n, f)
      BY <1>1, <1>5, <2>2, <3>1, <3>2 DEF Stage, f
    <3>4. QED
      BY <3>3 DEF f
  <2>3. CASE q.op \in {"Add", "Del", "Modify"}
    BY <1>1, <2>3 DEF Begun, Stage
  <2>4. QED
    BY <1>2, <2>1, <2>2, <2>3
<1>6. QED
  BY <1>1, <1>4, <1>5

LEMMA CallKeeps ==
    ASSUME NicInv, NEW c \in NicCallers, NEW op \in {"Add", "Del", "Modify", "Set", "Clear"},
           NEW s \in NicSwitches, NEW ask \in SUBSET Parts, NEW v \in Setting, NEW bad \in SUBSET Parts,
           NEW steps, NEW X, Lists(op, steps, X), Begun(op, ask, X),
           op = "Set" => v \in Values, NicCall(c, op, s, ask, v, bad, steps)
    PROVE  NicInv'
<1> DEFINE others == {d \in NicCallers : Running(d)}
           fresh == [NicIdle EXCEPT !.op = op, !.on = s, !.ask = ask, !.value = v,
                       !.bad = bad, !.todo = steps,
                       !.ok = IF (s \in bridges) = (op # "Add") THEN "none" ELSE "SYS_FAIL",
                       !.before = IF others = {} THEN nic[s] ELSE NewNic,
                       !.routed = others = {} /\ route # Unset]
<1>1. NicTyped /\ LiveInv /\ NicAloneInv
  BY DEF NicInv
<1>2. /\ ~Running(c) /\ nicCalls < NicMaxCalls /\ nicCalls' = nicCalls + 1
      /\ nicCall' = [d \in NicCallers |->
           CASE d = c -> fresh
             [] d \in others -> [nicCall[d] EXCEPT !.before = NewNic, !.routed = FALSE]
             [] OTHER -> NicIdle]
      /\ nicAlone' = (IF others = {} THEN {c} ELSE {})
      /\ nicDirty' = (IF \E d \in others : nicCall[d].on = s THEN nicDirty \cup {s} ELSE nicDirty)
      /\ bridges' = bridges /\ nic' = nic /\ conf' = conf /\ route' = route
  BY DEF NicCall
<1>3. /\ bridges \in SUBSET NicSwitches /\ nic \in [NicSwitches -> Card] /\ conf \in [NicSwitches -> Conf]
      /\ nicCall \in [NicCallers -> NicCallRecord] /\ nicCalls \in 0..NicMaxCalls
      /\ nicDirty \in SUBSET NicSwitches /\ \A d \in NicCallers : TaskSound(nicCall[d])
      /\ nic[s] \in Card /\ NicMaxCalls \in Nat
      /\ route \in NicSwitches \cup {Unset, Other}
      /\ \A x \in NicSwitches \ bridges : nic[x] = NewNic
  BY <1>1, InternalNicAssumption DEF NicTyped
<1>4. /\ fresh \in NicCallRecord /\ fresh.op = op /\ fresh.on = s /\ fresh.ask = ask
      /\ fresh.value = v /\ fresh.todo = steps /\ fresh.done = {} /\ fresh.undoing = FALSE
      /\ fresh.failed = ""
      /\ fresh.ok \in {"none", "SYS_FAIL"}
      /\ fresh.ok = "none" => (s \in bridges <=> op # "Add")
      /\ others = {} => fresh.before = nic[s]
      /\ others = {} => (fresh.routed <=> route # Unset)
  <2>1. steps \in Seq(AllSteps) /\ NewNic \in Card
    BY DEF Lists, NewNic, Card, Setting
  <2> DEFINE ok == IF (s \in bridges) = (op # "Add") THEN "none" ELSE "SYS_FAIL"
             before == IF others = {} THEN nic[s] ELSE NewNic
             routed == others = {} /\ route # Unset
  <2>2. /\ ok \in {"none", "SYS_FAIL"} /\ (ok = "none" => (s \in bridges <=> op # "Add"))
        /\ before \in Card /\ routed \in BOOLEAN
        /\ others = {} => before = nic[s] /\ (routed <=> route # Unset)
    BY <1>3, <2>1
  <2>3. fresh = [NicIdle EXCEPT !.op = op, !.on = s, !.ask = ask, !.value = v,
                   !.bad = bad, !.todo = steps, !.ok = ok, !.before = before, !.routed = routed]
    OBVIOUS
  <2> HIDE DEF ok, before, routed, fresh, others
  <2>4. /\ fresh \in NicCallRecord /\ fresh.op = op /\ fresh.on = s /\ fresh.ask = ask
        /\ fresh.value = v /\ fresh.todo = steps /\ fresh.done = NicIdle.done
        /\ fresh.undoing = NicIdle.undoing /\ fresh.failed = NicIdle.failed
        /\ fresh.ok = ok /\ fresh.before = before /\ fresh.routed = routed
    BY <2>1, <2>2, <2>3, IdleSound DEF NicCallRecord, NicAnswers
  <2>5. QED
    BY <2>2, <2>4, IdleSound
<1> HIDE DEF fresh
<1>5. /\ TaskSound(fresh) /\ Left(fresh) = X
      /\ (op # "Add" => s \in bridges) =>
            Stage(fresh, bridges, nic[s], LiveFile(s, bridges, nic[s]))
  BY <1>4, NewSound
<1>6. /\ nicCall'[c] = fresh
      /\ \A d \in NicCallers : d # c /\ Running(d) =>
            nicCall'[d] = [nicCall[d] EXCEPT !.before = NewNic, !.routed = FALSE]
      /\ \A d \in NicCallers : d # c /\ ~Running(d) => nicCall'[d] = NicIdle
      /\ \A d \in NicCallers : d \in others <=> Running(d)
  BY <1>2
<1> HIDE DEF others
<1>7. ASSUME NEW d \in NicCallers, d # c, Running(d)
      PROVE  /\ nicCall'[d] \in NicCallRecord /\ TaskSound(nicCall'[d])
             /\ nicCall'[d].op = nicCall[d].op /\ nicCall'[d].on = nicCall[d].on /\ nicCall'[d].ok = nicCall[d].ok
             /\ \A B, n, f : Stage(nicCall[d], B, n, f) => Stage(nicCall'[d], B, n, f)
  <2>1. nicCall[d] \in NicCallRecord /\ TaskSound(nicCall[d])
    BY <1>3
  <2>2. nicCall'[d] = [nicCall[d] EXCEPT !.before = NewNic, !.routed = FALSE]
    BY <1>6, <1>7
  <2>3. QED
    BY <2>1, <2>2, ForgetSound
<1>8. /\ \A d \in NicCallers : d # c => (Running(d)' <=> Running(d))
      /\ Running(c)' <=> fresh.ok = "none"
  <2>1. ASSUME NEW d \in NicCallers, d # c PROVE Running(d)' <=> Running(d)
    <3>1. CASE Running(d)
      BY <1>7, <2>1, <3>1 DEF Running
    <3>2. CASE ~Running(d)
      BY <1>6, <2>1, <3>2, IdleSound DEF Running
    <3>3. QED
      BY <3>1, <3>2
  <2>2. Running(c)' <=> fresh.ok = "none"
    BY <1>4, <1>6 DEF Running
  <2>3. QED
    BY <2>1, <2>2
<1>9. NicTyped'
  <2>1. ASSUME NEW d \in NicCallers PROVE nicCall'[d] \in NicCallRecord /\ TaskSound(nicCall'[d])
    <3>1. CASE d = c
      BY <1>4, <1>5, <1>6, <3>1
    <3>2. CASE d # c /\ Running(d)
      BY <1>7, <3>2
    <3>3. CASE d # c /\ ~Running(d)
      BY <1>6, <3>3, IdleSound
    <3>4. QED
      BY <3>1, <3>2, <3>3
  <2>2. nicCall' \in [NicCallers -> NicCallRecord]
    <3> DEFINE F(d) == CASE d = c -> fresh
                       [] d \in {x \in NicCallers : Running(x)} ->
                              [nicCall[d] EXCEPT !.before = NewNic, !.routed = FALSE]
                       [] OTHER -> NicIdle
    <3>1. nicCall' = [d \in NicCallers |-> F(d)]
      BY <1>2 DEF others
    <3> HIDE DEF F
    <3>2. \A d \in NicCallers : F(d) \in NicCallRecord
      BY <2>1, <3>1
    <3>3. QED
      BY <3>1, <3>2
  <2>3. /\ nicCalls' \in 0..NicMaxCalls /\ nicAlone' \in SUBSET NicCallers /\ nicDirty' \in SUBSET NicSwitches
        /\ bridges' \in SUBSET NicSwitches /\ nic' \in [NicSwitches -> Card]
        /\ conf' \in [NicSwitches -> Conf] /\ route' \in NicSwitches \cup {Unset, Other}
        /\ \A x \in NicSwitches \ bridges' : nic'[x] = NewNic
    <3>1. nicCalls' \in 0..NicMaxCalls
      <4>1. nicCalls < NicMaxCalls /\ nicCalls' = nicCalls + 1
        BY <1>2
      <4>2. QED
        BY <1>3, <4>1
    <3>2. nicAlone' = {c} \/ nicAlone' = {}
      BY <1>2
    <3>3. nicDirty' = nicDirty \/ nicDirty' = nicDirty \cup {s}
      BY <1>2
    <3>4. bridges' = bridges /\ nic' = nic /\ conf' = conf /\ route' = route
      BY <1>2
    <3>5. QED
      BY <1>3, <3>1, <3>2, <3>3, <3>4
  <2>4. \A d \in NicCallers : TaskSound(nicCall[d])'
    BY <2>1
  <2>5. QED
    BY <2>2, <2>3, <2>4 DEF NicTyped
<1>10. LiveInv'
  <2> SUFFICES ASSUME NEW t \in NicSwitches, t \notin nicDirty'
               PROVE  /\ \A d, e \in NicCallers :
                            Running(d)' /\ Running(e)' /\ nicCall'[d].on = t /\ nicCall'[e].on = t => d = e
                      /\ Settled(t)' => conf'[t] = LiveFile(t, bridges', nic'[t])
                      /\ \A d \in NicCallers : Running(d)' /\ nicCall'[d].on = t =>
                            Stage(nicCall'[d], bridges', nic'[t], conf'[t])
    BY DEF LiveInv
  <2>1. t \notin nicDirty /\ (t = s => \A d \in NicCallers : Running(d) => nicCall[d].on # s)
    BY <1>2, <1>6
  <2>2. /\ \A d, e \in NicCallers :
              Running(d) /\ Running(e) /\ nicCall[d].on = t /\ nicCall[e].on = t => d = e
        /\ Settled(t) => conf[t] = LiveFile(t, bridges, nic[t])
        /\ \A d \in NicCallers : Running(d) /\ nicCall[d].on = t =>
              Stage(nicCall[d], bridges, nic[t], conf[t])
    BY <1>1, <2>1 DEF LiveInv
  <2>3. \A d \in NicCallers : Running(d)' /\ nicCall'[d].on = t =>
           \/ d = c /\ t = s
           \/ d # c /\ t # s /\ Running(d) /\ nicCall[d].on = t
    BY <1>4, <1>6, <1>7, <1>8, <2>1, ZenonT(60)
  <2>4. t = s => conf[t] = LiveFile(t, bridges, nic[t])
    BY <2>1, <2>2 DEF Settled
  <2>5. \A d, e \in NicCallers :
           Running(d)' /\ Running(e)' /\ nicCall'[d].on = t /\ nicCall'[e].on = t => d = e
    BY <2>2, <2>3
  <2>6. Settled(t)' => conf'[t] = LiveFile(t, bridges', nic'[t])
    <3> SUFFICES ASSUME Settled(t)', t # s PROVE conf[t] = LiveFile(t, bridges, nic[t])
      BY <1>2, <2>4
    <3>1. \A d \in NicCallers : Running(d)' => nicCall'[d].on # t
      BY DEF Settled
    <3>2. \A d \in NicCallers : Running(d) => nicCall[d].on # t
      BY <1>2, <1>7, <1>8, <3>1
    <3>3. QED
      BY <2>2, <3>2 DEF Settled
  <2>7. ASSUME NEW d \in NicCallers, Running(d)', nicCall'[d].on = t
        PROVE  Stage(nicCall'[d], bridges', nic'[t], conf'[t])
    <3>1. CASE d = c /\ t = s
      <4>1. op # "Add" => s \in bridges
        BY <1>4, <1>8, <2>7, <3>1
      <4>2. QED
        BY <1>2, <1>5, <1>6, <2>4, <3>1, <4>1
    <3>2. CASE d # c /\ t # s /\ Running(d) /\ nicCall[d].on = t
      BY <1>2, <1>7, <2>2, <3>2
    <3>3. QED
      BY <2>3, <2>7, <3>1, <3>2
  <2>8. QED
    BY <2>5, <2>6, <2>7
<1>11. NicAloneInv'
  <2> SUFFICES ASSUME NEW d \in nicAlone'
               PROVE  /\ \A e \in NicCallers : e # d => ~Running(e)'
                      /\ nicCall'[d].op = "Set" =>
                            SetTale(nicCall'[d], bridges', nic'[nicCall'[d].on], route')
    BY DEF NicAloneInv
  <2>1. others = {} /\ d = c
    BY <1>2
  <2>2. \A e \in NicCallers : e # d => ~Running(e)'
    BY <1>6, <1>8, <2>1
  <2>3. ASSUME op = "Set" PROVE SetTale(fresh, bridges, nic[s], route)
    <3>1. /\ "vlan" \in ask => "vlan" \in X /\ "get_vlan" \in X
          /\ "mtu" \in ask => "mtu" \in X /\ "get_mtu" \in X
          /\ "ip" \in ask => "flush" \in X /\ "ip_done" \in X /\ "get_ip" \in X
          /\ "gateway" \in ask => "route" \in X
      BY <2>3 DEF Begun, FirstSteps, IpSteps
    <3>2. FirstTale(fresh, nic[s])
      BY <1>4, <1>5, <2>1, <3>1 DEF FirstTale
    <3>3. RouteTale(fresh, route)
      BY <1>4, <1>5, <2>1, <3>1 DEF RouteTale
    <3>4. QED
      BY <1>4, <2>1, <2>3, <3>2, <3>3 DEF SetTale
  <2>4. QED
    BY <1>2, <1>4, <1>6, <2>1, <2>2, <2>3
<1>12. QED
  BY <1>9, <1>10, <1>11 DEF NicInv

-----------------------------------------------------------------------------
(* The invariant                                                           *)

LEMMA NicInvInit == NicInit => NicInv
<1> SUFFICES ASSUME NicInit PROVE NicInv
  OBVIOUS
<1>1. PICK v \in Setting :
         /\ nic = [s \in NicSwitches |->
                     IF s \in bridges THEN [vlan |-> v, mtu |-> v, addr |-> v] ELSE NewNic]
         /\ conf = [s \in NicSwitches |->
                     IF s \in bridges THEN [NewConf EXCEPT !.ip = v, !.mask = v] ELSE NoConf]
  BY DEF NicInit
<1>2. /\ bridges \in SUBSET NicSwitches /\ route \in {Unset, Other}
      /\ nicCall = [c \in NicCallers |-> NicIdle] /\ nicCalls = 0 /\ nicAlone = {} /\ nicDirty = {}
  BY DEF NicInit
<1>3. \A c \in NicCallers : nicCall[c] = NicIdle /\ ~Running(c)
  BY <1>2, IdleSound DEF Running
<1>4. [vlan |-> v, mtu |-> v, addr |-> v] \in Card /\ NewNic \in Card
  BY DEF Card, NewNic, Setting
<1>5. [NewConf EXCEPT !.ip = v, !.mask = v] \in Conf
  <2>1. [NewConf EXCEPT !.ip = v, !.mask = v] =
           [there |-> TRUE, head |-> TRUE, ip |-> v, mask |-> v]
    BY ConfIs
  <2>2. QED
    BY <2>1 DEF Conf
<1>6. NicTyped
  <2>1. nic \in [NicSwitches -> Card] /\ conf \in [NicSwitches -> Conf]
    BY <1>1, <1>4, <1>5, ConfIs
  <2>2. \A s \in NicSwitches \ bridges : nic[s] = NewNic
    BY <1>1
  <2>3. nicCall \in [NicCallers -> NicCallRecord] /\ \A c \in NicCallers : TaskSound(nicCall[c])
    BY <1>2, <1>3, IdleSound
  <2>4. nicCalls \in 0..NicMaxCalls
    BY <1>2, InternalNicAssumption
  <2>5. QED
    BY <1>2, <2>1, <2>2, <2>3, <2>4 DEF NicTyped
<1>7. LiveInv
  <2>1. ASSUME NEW s \in NicSwitches PROVE conf[s] = LiveFile(s, bridges, nic[s])
    BY <1>1 DEF LiveFile
  <2>2. QED
    BY <1>3, <2>1 DEF LiveInv
<1>8. NicAloneInv
  BY <1>2 DEF NicAloneInv
<1>9. QED
  BY <1>6, <1>7, <1>8 DEF NicInv

LEMMA NicInvNext ==
    ASSUME NicInv, [NicNext]_nicVars PROVE NicInv'
<1>1. CASE UNCHANGED nicVars
  <2>1. /\ bridges' = bridges /\ nic' = nic /\ conf' = conf /\ route' = route /\ nicCall' = nicCall
        /\ nicCalls' = nicCalls /\ nicAlone' = nicAlone /\ nicDirty' = nicDirty
    BY <1>1 DEF nicVars
  <2>2. NicTyped' /\ LiveInv' /\ NicAloneInv'
    BY <2>1 DEF NicInv, NicTyped, LiveInv, NicAloneInv, Running, Settled, TaskSound
  <2>3. QED
    BY <2>2 DEF NicInv
<1>2. ASSUME NEW c \in NicCallers, CallAdd(c) PROVE NicInv'
  <2>1. PICK s \in NicSwitches, m \in BOOLEAN :
           NicCall(c, "Add", s, {}, NicIdle.value, {}, AddvSwitch(m))
    BY <1>2 DEF CallAdd
  <2> DEFINE X == {"add_br", "generate"} \cup (IF m THEN {"multicast"} ELSE {})
  <2>2. Lists("Add", AddvSwitch(m), X) /\ Begun("Add", {}, X)
    BY AddList DEF Begun
  <2> HIDE DEF X
  <2>3. NicIdle.value \in Setting
    BY IdleSound DEF Setting
  <2>4. QED
    BY <2>1, <2>2, <2>3, CallKeeps
<1>3. ASSUME NEW c \in NicCallers, NicCallDel(c) PROVE NicInv'
  <2>1. PICK s \in NicSwitches : NicCall(c, "Del", s, {}, NicIdle.value, {}, DelvSwitch)
    BY <1>3 DEF NicCallDel
  <2>2. Lists("Del", DelvSwitch, {"del_br", "remove"}) /\ Begun("Del", {}, {"del_br", "remove"})
    BY DelList DEF Begun
  <2>3. NicIdle.value \in Setting
    BY IdleSound DEF Setting
  <2>4. QED
    BY <2>1, <2>2, <2>3, CallKeeps
<1>4. ASSUME NEW c \in NicCallers, CallModify(c) PROVE NicInv'
  <2>1. PICK s \in NicSwitches, m \in BOOLEAN :
           NicCall(c, "Modify", s, {}, NicIdle.value, {}, ModifyvSwitch(m))
    BY <1>4 DEF CallModify
  <2> DEFINE X == IF m THEN {"multicast"} ELSE {}
  <2>2. Lists("Modify", ModifyvSwitch(m), X) /\ Begun("Modify", {}, X)
    BY ModifyList DEF Begun
  <2> HIDE DEF X
  <2>3. NicIdle.value \in Setting
    BY IdleSound DEF Setting
  <2>4. QED
    BY <2>1, <2>2, <2>3, CallKeeps
<1>5. ASSUME NEW c \in NicCallers, CallSet(c) PROVE NicInv'
  <2>1. PICK s \in NicSwitches, ask \in Asks, v \in Values, bad \in SUBSET Parts :
           NicCall(c, "Set", s, ask, v, bad, SetInternalNicParam(ask))
    BY <1>5 DEF CallSet, Parts
  <2>2. Lists("Set", SetInternalNicParam(ask), FirstSteps(ask)) /\ Begun("Set", ask, FirstSteps(ask))
    BY SetList DEF Begun
  <2>3. ask \in SUBSET Parts /\ v \in Setting
    BY InternalNicAssumption DEF Setting
  <2>4. QED
    BY <2>1, <2>2, <2>3, CallKeeps
<1>6. ASSUME NEW c \in NicCallers, CallClear(c) PROVE NicInv'
  <2>1. PICK s \in NicSwitches : NicCall(c, "Clear", s, {}, NicIdle.value, {}, ClearInternalNicParam)
    BY <1>6 DEF CallClear
  <2> DEFINE X == {"flush"} \cup SaveSteps
  <2>2. Lists("Clear", ClearInternalNicParam, X) /\ Begun("Clear", {}, X)
    BY ClearList DEF Begun
  <2> HIDE DEF X
  <2>3. NicIdle.value \in Setting
    BY IdleSound DEF Setting
  <2>4. QED
    BY <2>1, <2>2, <2>3, CallKeeps
<1>7. ASSUME NEW c \in NicCallers,
             Finish(c) \/ NicFail(c) \/ AddBr(c) \/ DelBr(c) \/ MakeConf(c) \/ Query(c)
             \/ SetVlan(c) \/ NicSetMtu(c) \/ Flush(c) \/ AddAddr(c) \/ SetGateway(c) \/ SetOld(c)
             \/ ReadConf(c) \/ OpenConf(c) \/ WriteConf(c)
      PROVE  NicInv'
  <2>1. PICK r : r = nicCall[c]
    OBVIOUS
  <2>2. CASE Finish(c) \/ NicFail(c) \/ AddBr(c) \/ DelBr(c) \/ MakeConf(c)
    BY <2>1, <2>2, FinishKeeps, FailKeeps, AddBrKeeps, DelBrKeeps, MakeConfKeeps
  <2>3. CASE Query(c) \/ SetVlan(c) \/ NicSetMtu(c) \/ Flush(c) \/ AddAddr(c)
    BY <2>1, <2>3, QueryKeeps, SetVlanKeeps, SetMtuKeeps, FlushKeeps, AddAddrKeeps
  <2>4. CASE SetGateway(c) \/ SetOld(c) \/ ReadConf(c) \/ OpenConf(c) \/ WriteConf(c)
    BY <2>1, <2>4, SetGatewayKeeps, SetOldKeeps, ReadConfKeeps, OpenConfKeeps, WriteConfKeeps
  <2>5. QED
    BY <1>7, <2>2, <2>3, <2>4
<1>8. QED
  BY <1>1, <1>2, <1>3, <1>4, <1>5, <1>6, <1>7 DEF NicNext

LEMMA NicAlways == NicSpec => []NicInv
<1>1. NicInit => NicInv
  BY NicInvInit
<1>2. NicInv /\ [NicNext]_nicVars => NicInv'
  BY NicInvNext
<1>3. QED
  BY <1>1, <1>2, PTL DEF NicSpec

LEMMA NicInvConsistent == NicInv => NicConsistent
<1> SUFFICES ASSUME NicInv PROVE NicConsistent
  OBVIOUS
<1>1. NicTyped /\ LiveInv
  BY DEF NicInv
<1>2. NicTypeOK
  <2>1. ASSUME NEW c \in NicCallers
        PROVE  /\ nicCall[c].on \in NicSwitches /\ nicCall[c].value \in Values \cup {Unset}
               /\ \A i \in DOMAIN nicCall[c].todo : nicCall[c].todo[i] \in Commands \cup FileSteps
               /\ nicCall[c].done \in SUBSET Parts /\ nicCall[c].copy \in Conf
               /\ nicCall[c].ok \in NicAnswers
    <3>1. nicCall[c] \in NicCallRecord
      BY <1>1 DEF NicTyped
    <3>2. nicCall[c].todo \in Seq(AllSteps)
      BY <3>1 DEF NicCallRecord
    <3>3. \A i \in DOMAIN nicCall[c].todo : nicCall[c].todo[i] \in AllSteps
      BY <3>2, ElementOfSeq, LenProperties
    <3>4. QED
      BY <3>1, <3>3 DEF NicCallRecord, Setting, AllSteps
  <2>2. QED
    BY <1>1, <2>1 DEF NicTypeOK, NicTyped, Card
<1>3. ConfIsLive
  BY <1>1 DEF ConfIsLive, LiveInv, LiveFile
<1>4. QED
  BY <1>2, <1>3 DEF NicConsistent

LEMMA NicAnswersTrue == NicInv => NicAnswersAreTrue
<1> SUFFICES ASSUME NicInv PROVE NicAnswersAreTrue
  OBVIOUS
<1>1. ASSUME NEW c \in nicAlone, nicCall[c].op = "Set"
      PROVE  SetTale(nicCall[c], bridges, nic[nicCall[c].on], route)
  BY <1>1 DEF NicInv, NicAloneInv
<1>2. SetIsDone
  BY <1>1 DEF SetIsDone, Ended, SetTale
<1>3. RollbackRestores
  BY <1>1 DEF RollbackRestores, Ended, SetTale
<1>4. RaisedHasCause
  BY <1>1 DEF RaisedHasCause, Ended, SetTale
<1>5. QED
  BY <1>2, <1>3, <1>4 DEF NicAnswersAreTrue

\* The switches are well formed in every state, and the ifcfg file of each says
\* what its internal card has, unless a command for it failed or calls for it
\* ran side by side (save_conf_file_item, generate_conf_file).
THEOREM InternalNicsAreConsistent == NicSpec => []NicConsistent
<1>1. NicSpec => []NicInv
  BY NicAlways
<1>2. NicInv => NicConsistent
  BY NicInvConsistent
<1>3. QED
  BY <1>1, <1>2, PTL

\* The answer of an undisturbed SetInternalNicParam tells what it did, what its
\* rollback took back, and why an exception left it.
THEOREM InternalNicAnswersAreTrue == NicSpec => []NicAnswersAreTrue
<1>1. NicSpec => []NicInv
  BY NicAlways
<1>2. NicInv => NicAnswersAreTrue
  BY NicAnswersTrue
<1>3. QED
  BY <1>1, <1>2, PTL
=============================================================================
