-------------------------- MODULE MigrationProofs ---------------------------
(***************************************************************************)
(* Migration, for any number of domains, hosts, requests and threads: when *)
(* a domain can be lost, what a rollback leaves alone and puts back, and   *)
(* what a migrate job that has succeeded has done.                         *)
(***************************************************************************)
EXTENDS Migration, SequenceTheorems, TLAPS

Early  == {"queued", "start", "check", "backup"}
Active == Early \cup {"snapshot", "copy", "prepare", "migrate", "moving", "finish", "sent",
                      "poll", "misled", "undefine", "rollback", "commit", "restore", "revert"}

\* A job waits in the queue of its own host, once, and only while it is queued.
Waits(h, j) ==
    CASE j.kind = "migrate" -> Src(j.req) = h /\ pc[j.req] = "queued"
      [] j.kind = "monitor" -> Src(j.req) = h /\ mon[j.req] = "queued"
      [] j.kind = "finish"  -> Dest(j.req) = h /\ fin[j.req] = "queued"
QueueInv ==
    \A h \in Hosts :
        /\ \A k \in 1..Len(queue[h]) : Waits(h, queue[h][k])
        /\ \A k, l \in 1..Len(queue[h]) :
              queue[h][k].kind = queue[h][l].kind /\ queue[h][k].req = queue[h][l].req => k = l

\* What a migrate job has done by the time it is where it is.
Stage(r) ==
    /\ pc[r] \in {"idle", "snapshot"} \cup Early => kept[r].tmp = "empty"
    /\ pc[r] \in {"copy", "prepare"} => kept[r].tmp # "empty"
    /\ pc[r] \in {"migrate", "moving", "finish", "sent", "poll", "misled", "undefine", "commit"} =>
          kept[r].tmp = "made"
    /\ pc[r] \in {"finish", "sent", "poll", "misled", "undefine"} => r \in moved
    /\ r \in moved => /\ pc[r] \in {"finish", "sent", "poll", "misled", "undefine", "rollback"}
                                   \cup Ended
                      /\ kept[r].tmp = "made"
                      /\ Src(r) # Dest(r)
    /\ r \in reverted => pc[r] = "failed"
    /\ fin[r] # "idle" => r \in moved /\ pc[r] # "finish"
    /\ pc[r] = "undefine" => fin[r] = "ok"
    /\ mon[r] # "idle" => pc[r] \notin {"idle", "queued", "start"}
StageInv == \A r \in Requests : Stage(r)

\* A domain that has been migrated is not on at its home, and never will be again.
LeftInv == \A r \in moved : AtSrc(r).state # "on"

\* A domain has left its home only for the destination of a request that moved
\* it, and that only by a stray rollback.
Stray(d) == {q \in reverted \ moved : Dom(q) = d}
HomeInv ==
    \A d \in Domains :
        \/ vm[Home[d]][d].state # "none"
        \/ \E r \in moved : Dom(r) = d
        \/ \E q \in Stray(d) : Dest(q) = Home[d]
MovedInv == \A r \in moved : AtDest(r).state # "none" \/ Stray(Dom(r)) # {}

\* A domain nobody has asked to migrate is whole, and at home only.
Wanted(d) == \E q \in Requests : pc[q] # "idle" /\ Dom(q) = d
Untouched ==
    \A d \in Domains : ~Wanted(d) =>
        /\ vm[Home[d]][d].state # "none" /\ vm[Home[d]][d].snaps /\ vm[Home[d]][d].chain = <<>>
        /\ \A h \in Hosts \ {Home[d]} : vm[h][d].state = "none" /\ ~vm[h][d].snaps

\* Without a rival, what the job has taken from the source is what it has noted.
SourceIs(r, cell, note, l) ==
    /\ cell.state # "none"
    /\ cell.chain = IF note.tmp = "made" /\ l \notin {"restore", "revert"} THEN <<r>> ELSE <<>>
    /\ l \in Early \cup {"revert"} => cell.snaps
    /\ cell.snaps \/ note.snaps
SourceInv ==
    \A r \in Requests : pc[r] \in Active /\ NoRival(r) => SourceIs(r, AtSrc(r), kept[r], pc[r])

\* Without a rival, what is at the destination is what the job and its finish job
\* have brought there.
Arrived(r, cell, note, overlay, f) ==
    /\ cell.state # "none"
    /\ f \in {"idle", "queued", "run", "commit"} => cell.chain = <<r>> /\ ~cell.snaps
    /\ f \in {"snaps", "ok"} => cell.chain = <<>> /\ ~overlay
    /\ f = "snaps" => ~cell.snaps
    /\ f = "ok" => (cell.snaps <=> note.snaps)
NotYet(cell) == cell.state = "none" /\ ~cell.snaps
DestInv ==
    \A r \in Requests : pc[r] # "idle" /\ NoRival(r) /\ Dest(r) # Src(r) =>
        IF r \in moved THEN Arrived(r, AtDest(r), kept[r], tmp[r], fin[r])
        ELSE NotYet(AtDest(r))

IInv == /\ TypeOK /\ QueueInv /\ StageInv /\ LeftInv /\ HomeInv /\ MovedInv
        /\ Untouched /\ SourceInv /\ DestInv

-----------------------------------------------------------------------------
(* Hosts, domains and sequences of overlays.                               *)

LEMMA Names ==
    ASSUME TypeOK, NEW r \in Requests
    PROVE  /\ Dom(r) \in Domains /\ Src(r) \in Hosts /\ Dest(r) \in Hosts
           /\ Src(r) = Home[Dom(r)]
           /\ AtSrc(r) \in Vm /\ AtDest(r) \in Vm
  BY MigrationAssumption DEF TypeOK, Dom, Src, Dest, AtSrc, AtDest

LEMMA CellType ==
    ASSUME TypeOK, NEW h \in Hosts, NEW d \in Domains
    PROVE  vm[h][d] \in Vm
  BY DEF TypeOK

\* libvirt changes one domain of one host at a time, but for a live migration.
LEMMA SetVmFacts ==
    ASSUME TypeOK, NEW h \in Hosts, NEW d \in Domains, NEW v, SetVm(h, d, v)
    PROVE  /\ vm'[h][d] = v
           /\ \A g \in Hosts, e \in Domains : g # h \/ e # d => vm'[g][e] = vm[g][e]
           /\ v \in Vm => vm' \in [Hosts -> [Domains -> Vm]]
  BY DEF TypeOK, SetVm

LEMMA FrontFacts ==
    /\ \A s \in Seq(Requests) : Front(s) \in Seq(Requests)
    /\ \A r \in Requests : <<r>> \in Seq(Requests) /\ Front(<<r>>) = <<>>
    /\ <<>> \in Seq(Requests) /\ \A r \in Requests : Append(<<>>, r) = <<r>>
<1>1. ASSUME NEW s \in Seq(Requests) PROVE Front(s) \in Seq(Requests)
  <2>1. Len(s) \in Nat /\ \A i \in 1..Len(s) : s[i] \in Requests
    BY ElementOfSeq
  <2>2. QED
    BY <2>1, SubSeqProperties DEF Front
<1>2. ASSUME NEW r \in Requests PROVE <<r>> \in Seq(Requests) /\ Front(<<r>>) = <<>>
  <2>1. <<r>> \in Seq(Requests) /\ Len(<<r>>) = 1
    OBVIOUS
  <2>2. QED
    BY <2>1, SubSeqEmpty DEF Front
<1>3. QED
  BY <1>1, <1>2

LEMMA AbsentFacts ==
    Absent \in Vm /\ Absent.state = "none"
<1>1. <<>> \in Seq(Requests)
  OBVIOUS
<1>2. QED
  BY <1>1 DEF Absent, Vm, States

\* What is left of a domain is a domain.
LEMMA VmFacts ==
    ASSUME NEW v \in Vm
    PROVE  /\ v.state \in States /\ v.snaps \in BOOLEAN /\ v.chain \in Seq(Requests)
           /\ \A b \in BOOLEAN :
                 LET w == [v EXCEPT !.snaps = b]
                 IN  w \in Vm /\ w.state = v.state /\ w.snaps = b /\ w.chain = v.chain
           /\ \A s \in States, c \in Seq(Requests) :
                 LET w == [v EXCEPT !.state = s, !.chain = c]
                 IN  w \in Vm /\ w.state = s /\ w.snaps = v.snaps /\ w.chain = c
           /\ \A c \in Seq(Requests) :
                 LET w == [v EXCEPT !.chain = c]
                 IN  w \in Vm /\ w.state = v.state /\ w.snaps = v.snaps /\ w.chain = c
           /\ \A j \in Requests :
                 LET w == [v EXCEPT !.job = j]
                 IN  w \in Vm /\ w.state = v.state /\ w.snaps = v.snaps /\ w.chain = v.chain
           /\ \A c \in Seq(Requests) :
                 LET w == [v EXCEPT !.job = None, !.chain = c]
                 IN  w \in Vm /\ w.state = v.state /\ w.snaps = v.snaps /\ w.chain = c
           /\ LET w == [v EXCEPT !.state = "off", !.job = None]
              IN  w \in Vm /\ w.state = "off" /\ w.snaps = v.snaps /\ w.chain = v.chain
           /\ LET w == [v EXCEPT !.snaps = FALSE, !.state = "off", !.job = None]
              IN  w \in Vm /\ w.state = "off" /\ w.snaps = FALSE /\ w.chain = v.chain
  BY DEF Vm, States

-----------------------------------------------------------------------------
(* What a step does to the domains.                                        *)

Acts(r) == MigrateJob(r) \/ QueryFails(r) \/ FinishJob(r) \/ MonitorEnds(r)

\* A domain of a host is changed, and if it is there it stays, on only if it was.
Keeps(h, d) ==
    \E v \in Vm : /\ SetVm(h, d, v)
                  /\ \/ v.state = vm[h][d].state
                     \/ vm[h][d].state # "none" /\ v.state = "off"

Arrives(r, state) ==
    /\ pc[r] \in {"migrate", "moving"} /\ pc' = [pc EXCEPT ![r] = "finish"]
    /\ moved' = moved \cup {r} /\ reverted' = reverted
    /\ Src(r) # Dest(r) /\ AtDest(r).state # "on"
    /\ vm'[Dest(r)][Dom(r)] = [AtDest(r) EXCEPT !.state = state, !.chain = <<r>>]

\* Migrated while it is off: defined at the destination.
Defined(r) ==
    /\ Arrives(r, "off") /\ AtSrc(r).state = "off"
    /\ SetDest(r, [AtDest(r) EXCEPT !.state = "off", !.chain = <<r>>])

\* Migrated while it is on: it runs at the destination, and the source is off.
Moved(r) ==
    /\ Arrives(r, "on") /\ AtSrc(r).state = "on"
    /\ vm'[Src(r)][Dom(r)] = [AtSrc(r) EXCEPT !.state = "off"]
    /\ \A g \in Hosts, e \in Domains :
          e # Dom(r) \/ g \notin {Src(r), Dest(r)} => vm'[g][e] = vm[g][e]
    /\ vm' \in [Hosts -> [Domains -> Vm]]

Undefined(r) ==
    /\ pc[r] = "undefine" /\ pc' = [pc EXCEPT ![r] = "done"]
    /\ AtSrc(r).state = "off" /\ SetSrc(r, Absent) /\ UNCHANGED history

Reverted(r) ==
    /\ pc[r] = "revert" /\ pc' = [pc EXCEPT ![r] = "failed"]
    /\ SetDest(r, Absent) /\ reverted' = reverted \cup {r} /\ moved' = moved

VmMove ==
    \/ vm' = vm /\ UNCHANGED history
    \/ (\E h \in Hosts, d \in Domains : Keeps(h, d)) /\ UNCHANGED history
    \/ \E r \in Requests : Defined(r) \/ Moved(r) \/ Undefined(r) \/ Reverted(r)

LEMMA StepIsVmMove == ASSUME TypeOK, [Next]_vars PROVE VmMove
<1> USE DEF Goto, history
<1>1. ASSUME NEW h \in Hosts, NEW d \in Domains, NEW v \in Vm, SetVm(h, d, v), UNCHANGED history,
             v.state = vm[h][d].state \/ (vm[h][d].state # "none" /\ v.state = "off")
      PROVE  VmMove
  BY <1>1 DEF VmMove, Keeps
<1>2. ASSUME NEW r \in Requests, NEW v \in Vm, SetSrc(r, v), v.state = AtSrc(r).state,
             UNCHANGED history
      PROVE  VmMove
  BY <1>1, <1>2, Names DEF SetSrc, AtSrc
<1>3. ASSUME NEW r \in Requests, NEW v \in Vm, SetDest(r, v), UNCHANGED history,
             v.state = AtDest(r).state \/ (AtDest(r).state # "none" /\ v.state = "off")
      PROVE  VmMove
  BY <1>1, <1>3, Names DEF SetDest, AtDest
<1>4. ASSUME NEW r \in Requests,
             \/ MigrateDomain(r) \/ StartMigrate(r) \/ CheckCanMigrate(r) \/ CopyImages(r)
             \/ PrepareMigration(r) \/ SendFinish(r) \/ FinishReplied(r) \/ PollFinish(r)
             \/ QueryFails(r) \/ MonitorEnds(r)
      PROVE  VmMove
  BY <1>4 DEF MigrateDomain, StartMigrate, CheckCanMigrate, CopyImages, PrepareMigration,
              SendFinish, FinishReplied, PollFinish, QueryFails, MonitorEnds, VmMove
<1>5. ASSUME NEW r \in Requests, BackupDeleteSnapshots(r) PROVE VmMove
  <2>1. (vm' = vm \/ SetSrc(r, [AtSrc(r) EXCEPT !.snaps = FALSE])) /\ UNCHANGED history
    BY <1>5 DEF BackupDeleteSnapshots
  <2>2. QED
    BY <1>2, <2>1, Names, VmFacts DEF VmMove
<1>6. ASSUME NEW r \in Requests, CreateTmpSnapshot(r) PROVE VmMove
  <2> DEFINE w == [AtSrc(r) EXCEPT !.chain = Append(@, r)]
  <2>1. (vm' = vm \/ SetSrc(r, w)) /\ UNCHANGED history
    BY <1>6 DEF CreateTmpSnapshot
  <2>2. Append(AtSrc(r).chain, r) \in Seq(Requests)
    BY Names, VmFacts, AppendProperties
  <2>3. w \in Vm /\ w.state = AtSrc(r).state
    BY <2>2, Names DEF Vm
  <2> HIDE DEF w
  <2>4. QED
    BY <1>2, <2>1, <2>3 DEF VmMove
<1>7. ASSUME NEW r \in Requests, BeginMigrate(r) PROVE VmMove
  <2>1. CASE vm' = vm /\ UNCHANGED history
    BY <2>1 DEF VmMove
  <2>2. CASE ~(vm' = vm /\ UNCHANGED history)
    <3>1. /\ pc[r] = "migrate" /\ pc' = [pc EXCEPT ![r] = "finish"]
          /\ AtSrc(r).state = "off" /\ Src(r) # Dest(r) /\ AtDest(r).state # "on"
          /\ SetDest(r, [AtDest(r) EXCEPT !.state = "off", !.chain = <<r>>])
          /\ moved' = moved \cup {r} /\ reverted' = reverted
      BY <1>7, <2>2 DEF BeginMigrate
    <3>2. vm'[Dest(r)][Dom(r)] = [AtDest(r) EXCEPT !.state = "off", !.chain = <<r>>]
      BY <3>1, Names, SetVmFacts DEF SetDest
    <3>3. Defined(r)
      BY <3>1, <3>2 DEF Defined, Arrives
    <3>4. QED
      BY <3>3 DEF VmMove
  <2>3. QED
    BY <2>1, <2>2
<1>8. ASSUME NEW r \in Requests, EndMigrate(r) PROVE VmMove
  <2>1. CASE vm' = vm /\ UNCHANGED history
    BY <2>1 DEF VmMove
  <2>2. CASE ~(vm' = vm /\ UNCHANGED history)
    <3>1. /\ pc[r] = "moving" /\ pc' = [pc EXCEPT ![r] = "finish"]
          /\ AtSrc(r).state = "on" /\ Src(r) # Dest(r) /\ AtDest(r).state # "on"
          /\ vm' = [vm EXCEPT ![Src(r)][Dom(r)].state = "off",
                              ![Dest(r)][Dom(r)].state = "on",
                              ![Dest(r)][Dom(r)].chain = <<r>>]
          /\ moved' = moved \cup {r} /\ reverted' = reverted
      BY <1>8, <2>2 DEF EndMigrate
    <3>2. Src(r) \in Hosts /\ Dest(r) \in Hosts /\ Dom(r) \in Domains
          /\ vm \in [Hosts -> [Domains -> Vm]]
      BY Names DEF TypeOK
    <3>3. /\ vm'[Dest(r)][Dom(r)] = [AtDest(r) EXCEPT !.state = "on", !.chain = <<r>>]
          /\ vm'[Src(r)][Dom(r)] = [AtSrc(r) EXCEPT !.state = "off"]
          /\ \A g \in Hosts, e \in Domains :
                e # Dom(r) \/ g \notin {Src(r), Dest(r)} => vm'[g][e] = vm[g][e]
      BY <3>1, <3>2 DEF AtSrc, AtDest
    <3>4. /\ [AtDest(r) EXCEPT !.state = "on", !.chain = <<r>>] \in Vm
          /\ [AtSrc(r) EXCEPT !.state = "off"] \in Vm
      BY Names, FrontFacts DEF Vm, States
    <3>5. vm' \in [Hosts -> [Domains -> Vm]]
      <4>1. \A g \in Hosts : DOMAIN vm'[g] = Domains /\ vm'[g] = [e \in Domains |-> vm'[g][e]]
        BY <3>1, <3>2
      <4>2. \A g \in Hosts, e \in Domains : vm'[g][e] \in Vm
        BY <3>2, <3>3, <3>4
      <4>3. \A g \in Hosts : vm'[g] \in [Domains -> Vm]
        BY <4>1, <4>2
      <4>4. DOMAIN vm' = Hosts /\ vm' = [g \in Hosts |-> vm'[g]]
        BY <3>1, <3>2
      <4>5. QED
        BY <4>3, <4>4
    <3>6. Moved(r)
      BY <3>1, <3>3, <3>5 DEF Moved, Arrives
    <3>7. QED
      BY <3>6 DEF VmMove
  <2>3. QED
    BY <2>1, <2>2
<1>9. ASSUME NEW r \in Requests, Undefine(r) PROVE VmMove
  BY <1>9 DEF Undefine, VmMove, Undefined
<1>10. ASSUME NEW r \in Requests, RollbackCommit(r) PROVE VmMove
  <2> DEFINE w == [AtSrc(r) EXCEPT !.job = r]
  <2>1. (vm' = vm \/ SetSrc(r, w)) /\ UNCHANGED history
    BY <1>10 DEF RollbackCommit
  <2>2. w \in Vm /\ w.state = AtSrc(r).state
    BY Names DEF Vm
  <2> HIDE DEF w
  <2>3. QED
    BY <1>2, <2>1, <2>2 DEF VmMove
<1>11. ASSUME NEW r \in Requests, RollbackPivot(r) PROVE VmMove
  <2> DEFINE w == [AtSrc(r) EXCEPT !.job = None, !.chain = Front(@)]
  <2>1. (vm' = vm \/ SetSrc(r, w)) /\ UNCHANGED history
    BY <1>11 DEF RollbackPivot
  <2>2. Front(AtSrc(r).chain) \in Seq(Requests)
    BY Names, VmFacts, FrontFacts
  <2>3. w \in Vm /\ w.state = AtSrc(r).state
    BY <2>2, Names DEF Vm
  <2> HIDE DEF w
  <2>4. QED
    BY <1>2, <2>1, <2>3 DEF VmMove
<1>12. ASSUME NEW r \in Requests, RestoreSnapshots(r) PROVE VmMove
  <2>1. (vm' = vm \/ SetSrc(r, [AtSrc(r) EXCEPT !.snaps = TRUE])) /\ UNCHANGED history
    BY <1>12 DEF RestoreSnapshots
  <2>2. QED
    BY <1>2, <2>1, Names, VmFacts DEF VmMove
<1>13. ASSUME NEW r \in Requests, RevertMigration(r) PROVE VmMove
  <2>1. CASE vm' = vm /\ UNCHANGED history
    BY <2>1 DEF VmMove
  <2>2. CASE SetDest(r, Absent) /\ reverted' = reverted \cup {r}
    BY <1>13, <2>2 DEF RevertMigration, Reverted, VmMove
  <2>3. CASE SetDest(r, [AtDest(r) EXCEPT !.snaps = FALSE]) /\ UNCHANGED history
    BY <1>3, <2>3, Names, VmFacts
  <2>4. CASE /\ AtDest(r).state # "none"
             /\ SetDest(r, [AtDest(r) EXCEPT !.snaps = FALSE, !.state = "off", !.job = None])
             /\ UNCHANGED history
    BY <1>3, <2>4, Names, VmFacts
  <2>5. QED
    BY <1>13, <2>1, <2>2, <2>3, <2>4 DEF RevertMigration
<1>14. ASSUME NEW r \in Requests, FinishCommit(r) PROVE VmMove
  <2> DEFINE w == [AtDest(r) EXCEPT !.job = r]
  <2>1. (vm' = vm \/ SetDest(r, w)) /\ UNCHANGED history
    BY <1>14 DEF FinishCommit
  <2>2. w \in Vm /\ w.state = AtDest(r).state
    BY Names DEF Vm
  <2> HIDE DEF w
  <2>3. QED
    BY <1>3, <2>1, <2>2 DEF VmMove
<1>15. ASSUME NEW r \in Requests, FinishPivot(r) PROVE VmMove
  <2> DEFINE w == [AtDest(r) EXCEPT !.job = None, !.chain = Front(@)]
  <2>1. (vm' = vm \/ SetDest(r, w)) /\ UNCHANGED history
    BY <1>15 DEF FinishPivot
  <2>2. Front(AtDest(r).chain) \in Seq(Requests)
    BY Names, VmFacts, FrontFacts
  <2>3. w \in Vm /\ w.state = AtDest(r).state
    BY <2>2, Names DEF Vm
  <2> HIDE DEF w
  <2>4. QED
    BY <1>3, <2>1, <2>3 DEF VmMove
<1>16. ASSUME NEW r \in Requests, FinishSnapshots(r) PROVE VmMove
  <2>1. (vm' = vm \/ SetDest(r, [AtDest(r) EXCEPT !.snaps = TRUE])) /\ UNCHANGED history
    BY <1>16 DEF FinishSnapshots
  <2>2. QED
    BY <1>3, <2>1, Names, VmFacts DEF VmMove
<1>17. ASSUME NEW h \in Hosts, TakeJob(h) PROVE VmMove
  BY <1>17 DEF TakeJob, VmMove
<1>18. ASSUME NEW h \in Hosts, NEW d \in Domains, DomainStops(h, d) PROVE VmMove
  <2>1. /\ vm[h][d].state = "on" /\ UNCHANGED history
        /\ SetVm(h, d, [vm[h][d] EXCEPT !.state = "off", !.job = None])
    BY <1>18 DEF DomainStops
  <2>2. QED
    BY <1>1, <2>1, CellType, VmFacts
<1>19. CASE UNCHANGED vars
  BY <1>19 DEF vars, VmMove
<1>20. QED
  BY <1>4, <1>5, <1>6, <1>7, <1>8, <1>9, <1>10, <1>11, <1>12, <1>13, <1>14, <1>15, <1>16,
     <1>17, <1>18, <1>19 DEF Next, MigrateJob, FinishJob

-----------------------------------------------------------------------------
(* Types.                                                                  *)

LEMMA VmType == ASSUME TypeOK, VmMove PROVE vm' \in [Hosts -> [Domains -> Vm]]
<1>1. CASE vm' = vm
  BY <1>1 DEF TypeOK
<1>2. ASSUME NEW h \in Hosts, NEW d \in Domains, Keeps(h, d)
      PROVE  vm' \in [Hosts -> [Domains -> Vm]]
  BY <1>2, SetVmFacts DEF Keeps
<1>3. ASSUME NEW r \in Requests, Defined(r) PROVE vm' \in [Hosts -> [Domains -> Vm]]
  <2> DEFINE w == [AtDest(r) EXCEPT !.state = "off", !.chain = <<r>>]
  <2>1. SetVm(Dest(r), Dom(r), w)
    BY <1>3 DEF Defined, SetDest
  <2>2. w \in Vm
    BY Names, FrontFacts DEF Vm, States
  <2> HIDE DEF w
  <2>3. QED
    BY <2>1, <2>2, Names, SetVmFacts
<1>4. ASSUME NEW r \in Requests, Moved(r) PROVE vm' \in [Hosts -> [Domains -> Vm]]
  BY <1>4 DEF Moved
<1>5. ASSUME NEW r \in Requests, Undefined(r) \/ Reverted(r)
      PROVE  vm' \in [Hosts -> [Domains -> Vm]]
  BY <1>5, Names, SetVmFacts, AbsentFacts DEF Undefined, Reverted, SetSrc, SetDest
<1>6. QED
  BY <1>1, <1>2, <1>3, <1>4, <1>5 DEF VmMove

\* A job is put at the end of a queue.
LEMMA AddFacts ==
    ASSUME TypeOK, NEW h \in Hosts, NEW r \in Requests,
           NEW k \in {"migrate", "monitor", "finish"}, AddJob(h, k, r)
    PROVE  /\ queue' \in [Hosts -> Seq(Job)]
           /\ \A g \in Hosts \ {h} : queue'[g] = queue[g]
           /\ Len(queue'[h]) = Len(queue[h]) + 1 /\ Len(queue[h]) \in Nat
           /\ \A i \in 1..Len(queue[h]) + 1 :
                 \/ i \in 1..Len(queue[h]) /\ queue'[h][i] = queue[h][i]
                 \/ i = Len(queue[h]) + 1 /\ queue'[h][i] = [kind |-> k, req |-> r]
<1> DEFINE j == [kind |-> k, req |-> r]
<1>1. queue[h] \in Seq(Job) /\ j \in Job /\ queue \in [Hosts -> Seq(Job)]
  BY DEF TypeOK, Job
<1>2. queue' = [queue EXCEPT ![h] = Append(@, j)]
  BY DEF AddJob
<1> HIDE DEF j
<1>3. queue'[h] = Append(queue[h], j) /\ Append(queue[h], j) \in Seq(Job)
  BY <1>1, <1>2, AppendProperties
<1>4. queue' \in [Hosts -> Seq(Job)] /\ \A g \in Hosts \ {h} : queue'[g] = queue[g]
  BY <1>1, <1>2, <1>3
<1>5. /\ Len(queue'[h]) = Len(queue[h]) + 1 /\ Len(queue[h]) \in Nat
      /\ \A i \in 1..Len(queue[h]) + 1 :
            \/ i \in 1..Len(queue[h]) /\ queue'[h][i] = queue[h][i]
            \/ i = Len(queue[h]) + 1 /\ queue'[h][i] = j
  BY <1>1, <1>3, AppendProperties, LenProperties
<1>6. QED
  BY <1>4, <1>5 DEF j

\* The oldest job of a queue, and what is left.
LEMMA TakeFacts ==
    ASSUME TypeOK, NEW h \in Hosts, queue[h] # <<>>
    PROVE  /\ Head(queue[h]) = queue[h][1] /\ Head(queue[h]) \in Job /\ 1 \in 1..Len(queue[h])
           /\ Tail(queue[h]) \in Seq(Job) /\ Len(queue[h]) \in Nat
           /\ Len(Tail(queue[h])) = Len(queue[h]) - 1
           /\ \A k \in 1..Len(Tail(queue[h])) : Tail(queue[h])[k] = queue[h][k + 1]
<1>1. queue[h] \in Seq(Job)
  BY DEF TypeOK
<1>2. Len(queue[h]) \in Nat /\ Len(queue[h]) > 0
  BY <1>1, EmptySeq
<1>3. QED
  BY <1>1, <1>2, HeadTailProperties

LEMMA JobsInQueues ==
    ASSUME TypeOK, NEW h \in Hosts, NEW k \in 1..Len(queue[h])
    PROVE  queue[h][k] \in Job
<1>1. queue[h] \in Seq(Job)
  BY DEF TypeOK
<1>2. QED
  BY <1>1, ElementOfSeq

KeptType == [snaps : BOOLEAN, tmp : {"empty", "none", "made"}]

LEMMA TypeStep == ASSUME TypeOK, [Next]_vars PROVE TypeOK'
<1> USE DEF Goto, history
<1> DEFINE VmOK == vm' \in [Hosts -> [Domains -> Vm]]
<1>1. VmOK
  BY StepIsVmMove, VmType
<1> HIDE DEF VmOK
<1>2. ASSUME NEW r \in Requests, MigrateDomain(r) PROVE TypeOK'
  <2>1. PICK a \in Asked[r] : /\ ask' = [ask EXCEPT ![r] = [dom |-> a[1], dest |-> a[2]]]
                              /\ AddJob(Home[a[1]], "migrate", r)
    BY <1>2 DEF MigrateDomain
  <2>2. a[1] \in Domains /\ a[2] \in Hosts /\ Home[a[1]] \in Hosts
    BY AskedAssumption, MigrationAssumption
  <2>3. queue' \in [Hosts -> Seq(Job)] /\ ask' \in [Requests -> [dom : Domains, dest : Hosts]]
    BY <2>1, <2>2, AddFacts DEF TypeOK
  <2>4. QED
    BY <1>2, <2>3 DEF MigrateDomain, TypeOK
<1>3. ASSUME NEW h \in Hosts, TakeJob(h) PROVE TypeOK'
  <2>1. queue[h] # <<>> /\ queue' = [queue EXCEPT ![h] = Tail(@)]
    BY <1>3 DEF TakeJob
  <2>2. Head(queue[h]).req \in Requests /\ queue' \in [Hosts -> Seq(Job)]
    BY <2>1, TakeFacts DEF TypeOK, Job
  <2>3. QED
    BY <1>3, <2>2 DEF TakeJob, TypeOK, AtWork, FinAtWork
<1>4. ASSUME NEW r \in Requests, StartMigrate(r) PROVE TypeOK'
  <2>1. queue' \in [Hosts -> Seq(Job)]
    BY <1>4, Names, AddFacts DEF StartMigrate
  <2>2. QED
    BY <1>4, <2>1 DEF StartMigrate, TypeOK, AtWork, Ended
<1>5. ASSUME NEW r \in Requests, CheckCanMigrate(r) \/ CopyImages(r) \/ FinishReplied(r)
                                 \/ PollFinish(r) \/ QueryFails(r)
      PROVE  TypeOK'
  BY <1>5 DEF CheckCanMigrate, CopyImages, FinishReplied, PollFinish, QueryFails, TypeOK,
              AtWork, Ended
<1>6. ASSUME NEW r \in Requests, BackupDeleteSnapshots(r) PROVE TypeOK'
  <2>1. AtSrc(r).snaps \in BOOLEAN
    BY Names, VmFacts
  <2> DEFINE w == [kept[r] EXCEPT !.snaps = AtSrc(r).snaps]
  <2>2. kept' = kept \/ kept' = [kept EXCEPT ![r] = w]
    BY <1>6 DEF BackupDeleteSnapshots, TypeOK
  <2>3. w \in KeptType
    BY <2>1 DEF TypeOK, KeptType
  <2> HIDE DEF w
  <2>4. kept' \in [Requests -> KeptType]
    BY <2>2, <2>3 DEF TypeOK, KeptType
  <2>5. QED
    BY <1>1, <1>6, <2>4 DEF BackupDeleteSnapshots, TypeOK, AtWork, Ended, VmOK, KeptType
<1>7. ASSUME NEW r \in Requests, CreateTmpSnapshot(r) PROVE TypeOK'
  <2>1. PICK t \in {"made", "none"} :
              kept' = kept \/ kept' = [kept EXCEPT ![r] = [kept[r] EXCEPT !.tmp = t]]
    BY <1>7 DEF CreateTmpSnapshot, TypeOK
  <2> DEFINE w == [kept[r] EXCEPT !.tmp = t]
  <2>2. kept' = kept \/ kept' = [kept EXCEPT ![r] = w]
    BY <2>1
  <2>3. w \in KeptType
    BY DEF TypeOK, KeptType
  <2> HIDE DEF w
  <2>4. kept' \in [Requests -> KeptType]
    BY <2>2, <2>3 DEF TypeOK, KeptType
  <2>5. QED
    BY <1>1, <1>7, <2>4 DEF CreateTmpSnapshot, TypeOK, AtWork, Ended, VmOK, KeptType
<1>8. ASSUME NEW r \in Requests, PrepareMigration(r) PROVE TypeOK'
  BY <1>8 DEF PrepareMigration, DestPrepares, TypeOK, AtWork, Ended
<1>9. ASSUME NEW r \in Requests, BeginMigrate(r) \/ EndMigrate(r) PROVE TypeOK'
  <2>1. /\ moved' \subseteq Requests /\ reverted' = reverted
        /\ pc' \in [Requests -> {"idle", "queued"} \cup AtWork \cup Ended]
        /\ UNCHANGED <<ask, tmp, queue, kept, mon, fin>>
    BY <1>9 DEF BeginMigrate, EndMigrate, TypeOK, AtWork, Ended
  <2>2. QED
    BY <1>1, <2>1 DEF TypeOK, VmOK
<1>10. ASSUME NEW r \in Requests, SendFinish(r) PROVE TypeOK'
  <2>1. queue' \in [Hosts -> Seq(Job)]
    BY <1>10, Names, AddFacts DEF SendFinish, TypeOK
  <2>2. QED
    BY <1>10, <2>1 DEF SendFinish, TypeOK, AtWork, Ended
<1>11. ASSUME NEW r \in Requests, Undefine(r) \/ RollbackCommit(r) \/ RollbackPivot(r)
                                  \/ RestoreSnapshots(r)
      PROVE  TypeOK'
  <2>1. /\ pc' \in [Requests -> {"idle", "queued"} \cup AtWork \cup Ended]
        /\ UNCHANGED <<ask, tmp, queue, kept, mon, fin, history>>
    BY <1>11 DEF Undefine, RollbackCommit, RollbackPivot, RestoreSnapshots, TypeOK, AtWork, Ended
  <2>2. QED
    BY <1>1, <2>1 DEF TypeOK, VmOK
<1>12. ASSUME NEW r \in Requests, RevertMigration(r) PROVE TypeOK'
  <2>1. /\ pc' \in [Requests -> {"idle", "queued"} \cup AtWork \cup Ended]
        /\ reverted' \subseteq Requests /\ moved' = moved
        /\ UNCHANGED <<ask, tmp, queue, kept, mon, fin>>
    BY <1>12 DEF RevertMigration, TypeOK, Ended
  <2>2. QED
    BY <1>1, <2>1 DEF TypeOK, VmOK
<1>13. ASSUME NEW r \in Requests, FinishJob(r) PROVE TypeOK'
  <2>1. /\ fin' \in [Requests -> {"idle", "queued", "ok", "failed"} \cup FinAtWork]
        /\ tmp' \in [Requests -> BOOLEAN]
        /\ UNCHANGED <<ask, queue, pc, kept, mon, history>>
    BY <1>13 DEF FinishJob, FinishCommit, FinishPivot, FinishSnapshots, TypeOK, FinAtWork
  <2>2. QED
    BY <1>1, <2>1 DEF TypeOK, VmOK
<1>14. ASSUME NEW r \in Requests, MonitorEnds(r) PROVE TypeOK'
  BY <1>14 DEF MonitorEnds, TypeOK
<1>15. ASSUME NEW h \in Hosts, NEW d \in Domains, DomainStops(h, d) PROVE TypeOK'
  BY <1>1, <1>15 DEF DomainStops, TypeOK, VmOK
<1>16. CASE UNCHANGED vars
  BY <1>16 DEF vars, TypeOK
<1>17. QED
  BY <1>2, <1>3, <1>4, <1>5, <1>6, <1>7, <1>8, <1>9, <1>10, <1>11, <1>12, <1>13, <1>14, <1>15,
     <1>16 DEF Next, MigrateJob

-----------------------------------------------------------------------------
(* A job works on its own domain and its own request.                      *)

OnlyOwn(q) ==
    /\ pc[q] # "idle" /\ pc'[q] # "idle" /\ ask' = ask
    /\ \A h \in Hosts, d \in Domains : d # Dom(q) => vm'[h][d] = vm[h][d]
    /\ \A r \in Requests \ {q} :
          /\ pc'[r] = pc[r] /\ kept'[r] = kept[r] /\ tmp'[r] = tmp[r]
          /\ mon'[r] = mon[r] /\ fin'[r] = fin[r]
          /\ (r \in moved' <=> r \in moved) /\ (r \in reverted' <=> r \in reverted)

LEMMA ActsOnOwn ==
    ASSUME TypeOK, StageInv, NEW q \in Requests, Acts(q)
    PROVE  OnlyOwn(q)
<1> DEFINE Frame == \A h \in Hosts, d \in Domains : d # Dom(q) => vm'[h][d] = vm[h][d]
<1> USE DEF Goto, history
<1>1. ASSUME NEW v, SetSrc(q, v) \/ SetDest(q, v) PROVE Frame
  BY <1>1, Names, SetVmFacts DEF SetSrc, SetDest
<1>2. vm' = vm => Frame
  OBVIOUS
<1> HIDE DEF Frame
<1>3. CASE StartMigrate(q) \/ CheckCanMigrate(q) \/ CopyImages(q) \/ PrepareMigration(q)
           \/ SendFinish(q) \/ FinishReplied(q) \/ PollFinish(q) \/ QueryFails(q)
  BY <1>2, <1>3
     DEF StartMigrate, CheckCanMigrate, CopyImages, PrepareMigration, DestPrepares,
         SendFinish, FinishReplied, PollFinish, QueryFails, OnlyOwn, Frame, TypeOK
<1>4. CASE BackupDeleteSnapshots(q) \/ CreateTmpSnapshot(q)
  <2>1. Frame
    BY <1>1, <1>2, <1>4 DEF BackupDeleteSnapshots, CreateTmpSnapshot
  <2>2. QED
    BY <1>4, <2>1 DEF BackupDeleteSnapshots, CreateTmpSnapshot, OnlyOwn, Frame, TypeOK
<1>5. CASE BeginMigrate(q)
  <2>1. Frame
    BY <1>1, <1>2, <1>5 DEF BeginMigrate
  <2>2. QED
    BY <1>5, <2>1 DEF BeginMigrate, OnlyOwn, Frame, TypeOK
<1>6. CASE EndMigrate(q)
  <2>1. Frame
    <3>1. CASE vm' = vm
      BY <1>2, <3>1
    <3>2. CASE vm' # vm
      <4>1. vm' = [vm EXCEPT ![Src(q)][Dom(q)].state = "off",
                             ![Dest(q)][Dom(q)].state = "on",
                             ![Dest(q)][Dom(q)].chain = <<q>>]
        BY <1>6, <3>2 DEF EndMigrate
      <4>2. Src(q) \in Hosts /\ Dest(q) \in Hosts /\ Dom(q) \in Domains
            /\ vm \in [Hosts -> [Domains -> Vm]]
        BY Names DEF TypeOK
      <4>3. QED
        BY <4>1, <4>2 DEF Frame
    <3>3. QED
      BY <3>1, <3>2
  <2>2. QED
    BY <1>6, <2>1 DEF EndMigrate, OnlyOwn, Frame, TypeOK
<1>7. CASE Undefine(q) \/ RollbackCommit(q) \/ RollbackPivot(q) \/ RestoreSnapshots(q)
           \/ RevertMigration(q)
  <2>1. Frame
    BY <1>1, <1>2, <1>7
       DEF Undefine, RollbackCommit, RollbackPivot, RestoreSnapshots, RevertMigration
  <2>2. QED
    BY <1>7, <2>1
       DEF Undefine, RollbackCommit, RollbackPivot, RestoreSnapshots, RevertMigration,
           OnlyOwn, Frame, TypeOK
<1>8. CASE FinishJob(q)
  <2>1. Frame
    BY <1>1, <1>2, <1>8 DEF FinishJob, FinishCommit, FinishPivot, FinishSnapshots
  <2>2. pc[q] # "idle"
    BY <1>8 DEF FinishJob, FinishCommit, FinishPivot, FinishSnapshots, StageInv, Stage, Ended
  <2>3. QED
    BY <1>8, <2>1, <2>2
       DEF FinishJob, FinishCommit, FinishPivot, FinishSnapshots, OnlyOwn, Frame, TypeOK
<1>9. CASE MonitorEnds(q)
  <2>1. pc[q] # "idle"
    BY <1>9 DEF MonitorEnds, StageInv, Stage
  <2>2. QED
    BY <1>2, <1>9, <2>1 DEF MonitorEnds, OnlyOwn, Frame, TypeOK
<1>10. QED
  BY <1>3, <1>4, <1>5, <1>6, <1>7, <1>8, <1>9 DEF Acts, MigrateJob

LEMMA NextCases ==
    ASSUME [Next]_vars
    PROVE  \/ \E r \in Requests : MigrateDomain(r) \/ Acts(r)
           \/ \E h \in Hosts : TakeJob(h)
           \/ \E h \in Hosts, d \in Domains : DomainStops(h, d)
           \/ UNCHANGED vars
  BY DEF Next, Acts

-----------------------------------------------------------------------------
(* What the jobs have done.                                                *)

LEMMA StageStep ==
    ASSUME TypeOK, QueueInv, StageInv, LeftInv, [Next]_vars
    PROVE  StageInv'
<1> USE DEF Goto, history
<1>1. ASSUME NEW r \in Requests, Acts(r) PROVE StageInv'
  <2>1. OnlyOwn(r) /\ Stage(r)
    BY <1>1, ActsOnOwn DEF StageInv
  <2>2. ASSUME NEW q \in Requests, q # r PROVE Stage(q)'
    <3>1. Stage(q)
      BY DEF StageInv
    <3>2. QED
      BY <2>1, <2>2, <3>1 DEF OnlyOwn, Stage, Src, Dest, Dom
  <2>3. Stage(r)'
    <3>1. CASE StartMigrate(r) \/ CheckCanMigrate(r) \/ CopyImages(r) \/ PrepareMigration(r)
      BY <2>1, <3>1
         DEF StartMigrate, CheckCanMigrate, CopyImages, PrepareMigration, DestPrepares,
             Stage, Src, Dest, Dom, TypeOK, Ended, Early
    <3>2. CASE BackupDeleteSnapshots(r)
      BY <2>1, <3>2 DEF BackupDeleteSnapshots, Stage, Src, Dest, Dom, TypeOK, Ended, Early
    <3>3. CASE CreateTmpSnapshot(r)
      BY <2>1, <3>3 DEF CreateTmpSnapshot, Stage, Src, Dest, Dom, TypeOK, Ended, Early
    <3>4. CASE BeginMigrate(r) \/ EndMigrate(r)
      <4>1. \/ pc[r] = "migrate" /\ pc'[r] \in {"moving", "failed"} /\ moved' = moved
            \/ pc[r] = "moving" /\ pc'[r] = "failed" /\ moved' = moved
            \/ /\ pc[r] \in {"migrate", "moving"} /\ pc'[r] = "finish"
               /\ moved' = moved \cup {r} /\ Src(r) # Dest(r)
        BY <3>4 DEF BeginMigrate, EndMigrate, TypeOK
      <4>2. UNCHANGED <<ask, kept, mon, fin, reverted>>
        BY <3>4 DEF BeginMigrate, EndMigrate
      <4>3. QED
        BY <2>1, <4>1, <4>2 DEF Stage, Src, Dest, Dom, Ended, Early
    <3>5. CASE SendFinish(r) \/ FinishReplied(r) \/ PollFinish(r) \/ QueryFails(r)
      BY <2>1, <3>5 DEF SendFinish, FinishReplied, PollFinish, QueryFails, Stage, Src, Dest,
                        Dom, TypeOK, Ended, Early
    <3>6. CASE Undefine(r) \/ RollbackCommit(r) \/ RollbackPivot(r) \/ RestoreSnapshots(r)
               \/ RevertMigration(r)
      <4>1. \/ pc[r] = "undefine" /\ pc'[r] \in Ended /\ reverted' = reverted
            \/ /\ pc[r] = "rollback" /\ reverted' = reverted
               /\ \/ kept[r].tmp = "empty" /\ pc'[r] = "restore"
                  \/ kept[r].tmp = "made" /\ pc'[r] = "commit" /\ r \notin moved
                  \/ pc'[r] = "failed"
            \/ pc[r] = "commit" /\ pc'[r] \in {"restore", "failed"} /\ reverted' = reverted
            \/ pc[r] = "restore" /\ pc'[r] \in {"revert", "failed"} /\ reverted' = reverted
            \/ /\ pc[r] = "revert" /\ pc'[r] = "failed"
               /\ reverted' = reverted \/ reverted' = reverted \cup {r}
        BY <3>6 DEF Undefine, RollbackCommit, RollbackPivot, RestoreSnapshots, RevertMigration,
                    TypeOK, Free, AtSrc, Ended, LeftInv
      <4>2. UNCHANGED <<ask, kept, mon, fin, moved>>
        BY <3>6 DEF Undefine, RollbackCommit, RollbackPivot, RestoreSnapshots, RevertMigration
      <4>3. QED
        BY <2>1, <4>1, <4>2 DEF Stage, Src, Dest, Dom, Ended, Early
    <3>7. CASE FinishJob(r)
      BY <2>1, <3>7 DEF FinishJob, FinishCommit, FinishPivot, FinishSnapshots, Stage, Src,
                        Dest, Dom, TypeOK
    <3>8. CASE MonitorEnds(r)
      BY <2>1, <3>8 DEF MonitorEnds, Stage, Src, Dest, Dom, TypeOK
    <3>9. QED
      BY <1>1, <3>1, <3>2, <3>3, <3>4, <3>5, <3>6, <3>7, <3>8 DEF Acts, MigrateJob
  <2>4. QED
    BY <2>2, <2>3 DEF StageInv
<1>2. ASSUME NEW r \in Requests, MigrateDomain(r) PROVE StageInv'
  <2>1. /\ pc[r] = "idle" /\ pc' = [pc EXCEPT ![r] = "queued"]
        /\ \A q \in Requests \ {r} : ask'[q] = ask[q]
        /\ UNCHANGED <<kept, mon, fin, moved, reverted>>
    BY <1>2 DEF MigrateDomain, TypeOK
  <2>2. ASSUME NEW q \in Requests PROVE Stage(q)'
    <3>1. Stage(q) /\ pc \in [Requests -> {"idle", "queued"} \cup AtWork \cup Ended]
      BY DEF StageInv, TypeOK
    <3>2. QED
      BY <2>1, <3>1 DEF Stage, Src, Dest, Dom, Ended, Early
  <2>3. QED
    BY <2>2 DEF StageInv
<1>3. ASSUME NEW h \in Hosts, TakeJob(h) PROVE StageInv'
  <2> DEFINE j == Head(queue[h])
  <2>1. /\ j \in Job /\ Waits(h, j)
        /\ pc'  = IF j.kind = "migrate" THEN [pc EXCEPT ![j.req] = "start"] ELSE pc
        /\ mon' = IF j.kind = "monitor" THEN [mon EXCEPT ![j.req] = "watch"] ELSE mon
        /\ fin' = IF j.kind = "finish" THEN [fin EXCEPT ![j.req] = "run"] ELSE fin
        /\ UNCHANGED <<ask, kept, moved, reverted>>
    BY <1>3, TakeFacts DEF TakeJob, QueueInv
  <2> HIDE DEF j
  <2>2. ASSUME NEW q \in Requests PROVE Stage(q)'
    <3>1. Stage(q) /\ Stage(j.req) /\ j.req \in Requests
      BY <2>1 DEF StageInv, Job
    <3>2. /\ pc'[q] = pc[q] \/ (pc[q] = "queued" /\ pc'[q] = "start")
          /\ mon'[q] = mon[q] \/ mon[q] = "queued"
          /\ fin'[q] = fin[q] \/ (fin[q] = "queued" /\ fin'[q] = "run")
      BY <2>1, <3>1 DEF TypeOK, Waits
    <3>3. QED
      BY <2>1, <3>1, <3>2 DEF Stage, Src, Dest, Dom, Ended, Early
  <2>3. QED
    BY <2>2 DEF StageInv
<1>4. CASE (\E h \in Hosts, d \in Domains : DomainStops(h, d)) \/ UNCHANGED vars
  <2>1. UNCHANGED <<ask, pc, kept, mon, fin, moved, reverted>>
    BY <1>4 DEF DomainStops, vars
  <2>2. QED
    BY <2>1 DEF StageInv, Stage, Src, Dest, Dom
<1>5. QED
  BY <1>1, <1>2, <1>3, <1>4, NextCases

-----------------------------------------------------------------------------
(* The queues.                                                             *)

SrcNext(r) == Home[ask'[r].dom]
WaitsNext(h, j) ==
    CASE j.kind = "migrate" -> SrcNext(j.req) = h /\ pc'[j.req] = "queued"
      [] j.kind = "monitor" -> SrcNext(j.req) = h /\ mon'[j.req] = "queued"
      [] j.kind = "finish"  -> ask'[j.req].dest = h /\ fin'[j.req] = "queued"

\* Unless its jobs change places, a queue needs only that none of them is taken up.
LEMMA KeepQueue ==
    ASSUME TypeOK, QueueInv, queue' = queue,
           \A h \in Hosts : \A m \in Job : Waits(h, m) => WaitsNext(h, m)
    PROVE  QueueInv'
<1>1. \A h \in Hosts : \A k \in 1..Len(queue[h]) : queue[h][k] \in Job
  BY JobsInQueues
<1>2. \A h \in Hosts : \A k \in 1..Len(queue'[h]) : WaitsNext(h, queue'[h][k])
  BY <1>1 DEF QueueInv
<1>3. QED
  BY <1>2 DEF QueueInv, Waits, WaitsNext, SrcNext, Src, Dest, Dom

LEMMA PutStep ==
    ASSUME TypeOK, QueueInv, NEW g \in Hosts, NEW r \in Requests,
           NEW c \in {"migrate", "monitor", "finish"}, AddJob(g, c, r),
           \A h \in Hosts : ~Waits(h, [kind |-> c, req |-> r]),
           WaitsNext(g, [kind |-> c, req |-> r]),
           \A h \in Hosts : \A m \in Job : Waits(h, m) => WaitsNext(h, m)
    PROVE  QueueInv'
<1> DEFINE j == [kind |-> c, req |-> r]
<1>1. /\ \A h \in Hosts \ {g} : queue'[h] = queue[h]
      /\ Len(queue'[g]) = Len(queue[g]) + 1 /\ Len(queue[g]) \in Nat
      /\ \A k \in 1..Len(queue'[g]) :
            \/ k \in 1..Len(queue[g]) /\ queue'[g][k] = queue[g][k]
            \/ k = Len(queue[g]) + 1 /\ queue'[g][k] = j
  <2>1. /\ \A h \in Hosts \ {g} : queue'[h] = queue[h]
        /\ Len(queue'[g]) = Len(queue[g]) + 1 /\ Len(queue[g]) \in Nat
        /\ \A i \in 1..Len(queue[g]) + 1 :
              \/ i \in 1..Len(queue[g]) /\ queue'[g][i] = queue[g][i]
              \/ i = Len(queue[g]) + 1 /\ queue'[g][i] = j
    BY AddFacts, ZenonT(60)
  <2>2. QED
    BY <2>1
<1>2. \A h \in Hosts : \A k \in 1..Len(queue[h]) :
          queue[h][k] \in Job /\ Waits(h, queue[h][k]) /\ WaitsNext(h, queue[h][k])
  BY JobsInQueues DEF QueueInv
<1>3. /\ j.kind = c /\ j.req = r /\ c \in {"migrate", "monitor", "finish"}
      /\ WaitsNext(g, j) /\ \A h \in Hosts : ~Waits(h, j)
  OBVIOUS
<1> HIDE DEF j
<1>4. \A k \in 1..Len(queue[g]) : ~(queue[g][k].kind = j.kind /\ queue[g][k].req = j.req)
  <2>1. ASSUME NEW k \in 1..Len(queue[g]),
               queue[g][k].kind = j.kind, queue[g][k].req = j.req
        PROVE  FALSE
    <3>1. Waits(g, queue[g][k]) /\ ~Waits(g, j)
      BY <1>2, <1>3
    <3>2. QED
      BY <1>3, <2>1, <3>1 DEF Waits
  <2>2. QED
    BY <2>1
<1>5. \A h \in Hosts : \A k \in 1..Len(queue'[h]) : WaitsNext(h, queue'[h][k])
  <2>1. ASSUME NEW h \in Hosts, h # g, NEW k \in 1..Len(queue'[h])
        PROVE  WaitsNext(h, queue'[h][k])
    <3>1. queue'[h] = queue[h]
      BY <1>1, <2>1
    <3>2. QED
      BY <1>2, <3>1
  <2>2. ASSUME NEW k \in 1..Len(queue'[g]) PROVE WaitsNext(g, queue'[g][k])
    <3>1. CASE k \in 1..Len(queue[g]) /\ queue'[g][k] = queue[g][k]
      <4>1. WaitsNext(g, queue[g][k])
        BY <1>2, <3>1
      <4>2. QED
        BY <3>1, <4>1 DEF WaitsNext
    <3>2. CASE queue'[g][k] = j
      BY <1>3, <3>2 DEF WaitsNext
    <3>3. QED
      BY <1>1, <3>1, <3>2
  <2>3. QED
    BY <2>1, <2>2
<1>6. ASSUME NEW h \in Hosts
      PROVE  \A k, l \in 1..Len(queue'[h]) :
                queue'[h][k].kind = queue'[h][l].kind /\ queue'[h][k].req = queue'[h][l].req
                    => k = l
  <2>1. CASE h # g
    <3>1. queue'[h] = queue[h]
      BY <1>1, <2>1
    <3>2. QED
      BY <3>1 DEF QueueInv
  <2>2. CASE h = g
    <3>1. ASSUME NEW k \in 1..Len(queue'[g]), NEW l \in 1..Len(queue'[g]),
                 queue'[g][k].kind = queue'[g][l].kind, queue'[g][k].req = queue'[g][l].req
          PROVE  k = l
      <4>1. CASE k \in 1..Len(queue[g]) /\ l \in 1..Len(queue[g])
        <5>1. queue'[g][k] = queue[g][k] /\ queue'[g][l] = queue[g][l]
          BY <1>1, <4>1
        <5>2. queue[g][k].kind = queue[g][l].kind /\ queue[g][k].req = queue[g][l].req => k = l
          BY <4>1 DEF QueueInv
        <5>3. QED
          BY <3>1, <5>1, <5>2
      <4>2. CASE k \notin 1..Len(queue[g]) \/ l \notin 1..Len(queue[g])
        BY <1>1, <1>4, <3>1, <4>2
      <4>3. QED
        BY <4>1, <4>2
    <3>2. QED
      BY <2>2, <3>1
  <2>3. QED
    BY <2>1, <2>2
<1>7. QED
  BY <1>5, <1>6 DEF QueueInv, Waits, WaitsNext, SrcNext, Src, Dest, Dom

LEMMA TakeStep ==
    ASSUME TypeOK, QueueInv, NEW g \in Hosts, queue[g] # <<>>,
           queue' = [queue EXCEPT ![g] = Tail(@)],
           \A h \in Hosts : \A m \in Job :
               /\ Waits(h, m)
               /\ ~(m.kind = Head(queue[g]).kind /\ m.req = Head(queue[g]).req)
               => WaitsNext(h, m)
    PROVE  QueueInv'
<1>1. queue'[g] = Tail(queue[g]) /\ \A h \in Hosts \ {g} : queue'[h] = queue[h]
  BY DEF TypeOK
<1>2. /\ Head(queue[g]) = queue[g][1] /\ 1 \in 1..Len(queue[g])
      /\ Head(queue[g]) \in Job /\ Waits(g, Head(queue[g]))
      /\ \A k \in 1..Len(queue'[g]) :
            k + 1 \in 1..Len(queue[g]) /\ k + 1 # 1 /\ queue'[g][k] = queue[g][k + 1]
      /\ \A k, l \in 1..Len(queue'[g]) : k + 1 = l + 1 => k = l
  <2>1. /\ Head(queue[g]) = queue[g][1] /\ Head(queue[g]) \in Job /\ 1 \in 1..Len(queue[g])
        /\ Len(queue[g]) \in Nat /\ Len(queue'[g]) = Len(queue[g]) - 1
        /\ \A k \in 1..Len(queue'[g]) : queue'[g][k] = queue[g][k + 1]
    BY <1>1, TakeFacts
  <2>2. Waits(g, queue[g][1])
    BY <2>1 DEF QueueInv
  <2>3. \A k \in 1..Len(queue'[g]) : k \in Nat /\ k + 1 \in 1..Len(queue[g]) /\ k + 1 # 1
    BY <2>1
  <2>4. QED
    BY <2>1, <2>2, <2>3
<1>3. \A h \in Hosts : \A k \in 1..Len(queue[h]) :
          queue[h][k] \in Job /\ Waits(h, queue[h][k])
  BY JobsInQueues DEF QueueInv
<1>4. ASSUME NEW h \in Hosts, NEW k \in 1..Len(queue[h]), h # g \/ k # 1
      PROVE  WaitsNext(h, queue[h][k])
  <2>1. ~(queue[h][k].kind = Head(queue[g]).kind /\ queue[h][k].req = Head(queue[g]).req)
    <3>1. CASE h # g
      <4>1. Waits(h, queue[h][k]) /\ queue[h][k].kind \in {"migrate", "monitor", "finish"}
        BY <1>3 DEF Job
      <4>2. Waits(g, Head(queue[g]))
        BY <1>2
      <4>3. QED
        BY <3>1, <4>1, <4>2 DEF Waits
    <3>2. CASE h = g
      BY <1>2, <1>4, <3>2 DEF QueueInv
    <3>3. QED
      BY <3>1, <3>2
  <2>2. QED
    BY <1>3, <2>1
<1>5. \A h \in Hosts : \A k \in 1..Len(queue'[h]) : WaitsNext(h, queue'[h][k])
  <2>1. ASSUME NEW h \in Hosts, h # g, NEW k \in 1..Len(queue'[h])
        PROVE  WaitsNext(h, queue'[h][k])
    <3>1. queue'[h] = queue[h]
      BY <1>1, <2>1
    <3>2. QED
      BY <1>4, <2>1, <3>1
  <2>2. ASSUME NEW k \in 1..Len(queue'[g]) PROVE WaitsNext(g, queue'[g][k])
    <3>1. k + 1 \in 1..Len(queue[g]) /\ k + 1 # 1 /\ queue'[g][k] = queue[g][k + 1]
      BY <1>2
    <3>2. WaitsNext(g, queue[g][k + 1])
      BY <1>4, <3>1
    <3>3. QED
      BY <3>1, <3>2 DEF WaitsNext
  <2>3. QED
    BY <2>1, <2>2
<1>6. ASSUME NEW h \in Hosts
      PROVE  \A k, l \in 1..Len(queue'[h]) :
                queue'[h][k].kind = queue'[h][l].kind /\ queue'[h][k].req = queue'[h][l].req
                    => k = l
  <2>1. CASE h # g
    <3>1. queue'[h] = queue[h]
      BY <1>1, <2>1
    <3>2. QED
      BY <3>1 DEF QueueInv
  <2>2. CASE h = g
    BY <1>2, <2>2 DEF QueueInv
  <2>3. QED
    BY <2>1, <2>2
<1>7. QED
  BY <1>5, <1>6 DEF QueueInv, Waits, WaitsNext, SrcNext, Src, Dest, Dom

LEMMA QueueStep ==
    ASSUME TypeOK, QueueInv, StageInv, [Next]_vars
    PROVE  QueueInv'
<1> USE DEF Goto, history
<1>1. ASSUME queue' = queue, ask' = ask,
             \A r \in Requests : /\ pc[r] = "queued" => pc'[r] = "queued"
                                 /\ mon[r] = "queued" => mon'[r] = "queued"
                                 /\ fin[r] = "queued" => fin'[r] = "queued"
      PROVE  QueueInv'
  <2>1. \A h \in Hosts : \A m \in Job : Waits(h, m) => WaitsNext(h, m)
    BY <1>1 DEF Waits, WaitsNext, Job, SrcNext, Src, Dest, Dom
  <2>2. QED
    BY <1>1, <2>1, KeepQueue
<1>2. ASSUME NEW r \in Requests, MigrateDomain(r) PROVE QueueInv'
  <2>1. PICK a \in Asked[r] : /\ ask' = [ask EXCEPT ![r] = [dom |-> a[1], dest |-> a[2]]]
                              /\ AddJob(Home[a[1]], "migrate", r)
    BY <1>2 DEF MigrateDomain
  <2>2. Home[a[1]] \in Hosts
    BY AskedAssumption, MigrationAssumption
  <2>3. /\ pc[r] = "idle" /\ mon[r] = "idle" /\ fin[r] = "idle"
        /\ pc' = [pc EXCEPT ![r] = "queued"] /\ mon' = mon /\ fin' = fin
    BY <1>2 DEF MigrateDomain, StageInv, Stage, Ended
  <2>4. \A h \in Hosts : \A m \in Job : Waits(h, m) => WaitsNext(h, m)
    BY <2>1, <2>3 DEF Waits, WaitsNext, Job, SrcNext, Src, Dest, Dom, TypeOK
  <2>5. WaitsNext(Home[a[1]], [kind |-> "migrate", req |-> r])
    BY <2>1, <2>3 DEF WaitsNext, SrcNext, TypeOK
  <2>6. \A h \in Hosts : ~Waits(h, [kind |-> "migrate", req |-> r])
    BY <2>3 DEF Waits
  <2>7. QED
    BY <2>1, <2>2, <2>4, <2>5, <2>6, PutStep
<1>3. ASSUME NEW r \in Requests, StartMigrate(r) PROVE QueueInv'
  <2>1. /\ AddJob(Src(r), "monitor", r) /\ Src(r) \in Hosts
        /\ mon[r] = "idle" /\ pc[r] = "start" /\ mon' = [mon EXCEPT ![r] = "queued"]
        /\ pc' \in {[pc EXCEPT ![r] = "check"], [pc EXCEPT ![r] = "failed"]}
        /\ fin' = fin /\ ask' = ask
    BY <1>3, Names DEF StartMigrate, StageInv, Stage
  <2>2. \A h \in Hosts : \A m \in Job : Waits(h, m) => WaitsNext(h, m)
    BY <2>1 DEF Waits, WaitsNext, Job, SrcNext, Src, Dest, Dom, TypeOK
  <2>3. /\ WaitsNext(Src(r), [kind |-> "monitor", req |-> r])
        /\ \A h \in Hosts : ~Waits(h, [kind |-> "monitor", req |-> r])
    BY <2>1 DEF Waits, WaitsNext, SrcNext, Src, Dom, TypeOK
  <2>4. QED
    BY <2>1, <2>2, <2>3, PutStep
<1>4. ASSUME NEW r \in Requests, SendFinish(r) PROVE QueueInv'
  <2>1. CASE queue' = queue /\ fin' = fin
    BY <1>1, <1>4, <2>1 DEF SendFinish, TypeOK
  <2>2. CASE AddJob(Dest(r), "finish", r) /\ fin' = [fin EXCEPT ![r] = "queued"]
    <3>1. /\ Dest(r) \in Hosts /\ fin[r] = "idle" /\ pc[r] = "finish"
          /\ pc' \in {[pc EXCEPT ![r] = "rollback"], [pc EXCEPT ![r] = "sent"]}
          /\ mon' = mon /\ ask' = ask
      BY <1>4, Names DEF SendFinish, StageInv, Stage
    <3>2. \A h \in Hosts : \A m \in Job : Waits(h, m) => WaitsNext(h, m)
      <4>1. SUFFICES ASSUME NEW h \in Hosts, NEW m \in Job, Waits(h, m) PROVE WaitsNext(h, m)
        OBVIOUS
      <4>2. m.req \in Requests /\ m.kind \in {"migrate", "monitor", "finish"}
        BY DEF Job
      <4>3. CASE m.kind = "migrate"
        BY <2>2, <3>1, <4>1, <4>2, <4>3 DEF Waits, WaitsNext, SrcNext, Src, Dom, TypeOK
      <4>4. CASE m.kind = "monitor"
        BY <2>2, <3>1, <4>1, <4>2, <4>4 DEF Waits, WaitsNext, SrcNext, Src, Dom, TypeOK
      <4>5. CASE m.kind = "finish"
        BY <2>2, <3>1, <4>1, <4>2, <4>5 DEF Waits, WaitsNext, Dest, TypeOK
      <4>6. QED
        BY <4>2, <4>3, <4>4, <4>5
    <3>3. /\ WaitsNext(Dest(r), [kind |-> "finish", req |-> r])
          /\ \A h \in Hosts : ~Waits(h, [kind |-> "finish", req |-> r])
      BY <2>2, <3>1 DEF Waits, WaitsNext, Dest, TypeOK
    <3>4. QED
      BY <2>2, <3>1, <3>2, <3>3, PutStep
  <2>3. QED
    BY <1>4, <2>1, <2>2 DEF SendFinish
<1>5. ASSUME NEW h \in Hosts, TakeJob(h) PROVE QueueInv'
  <2> DEFINE j == Head(queue[h])
  <2>1. /\ queue[h] # <<>> /\ j \in Job /\ queue' = [queue EXCEPT ![h] = Tail(@)]
        /\ pc'  = IF j.kind = "migrate" THEN [pc EXCEPT ![j.req] = "start"] ELSE pc
        /\ mon' = IF j.kind = "monitor" THEN [mon EXCEPT ![j.req] = "watch"] ELSE mon
        /\ fin' = IF j.kind = "finish" THEN [fin EXCEPT ![j.req] = "run"] ELSE fin
        /\ ask' = ask
    BY <1>5, TakeFacts DEF TakeJob
  <2>2. \A g \in Hosts : \A m \in Job :
            Waits(g, m) /\ ~(m.kind = j.kind /\ m.req = j.req) => WaitsNext(g, m)
    <3> HIDE DEF j
    <3>1. SUFFICES ASSUME NEW g \in Hosts, NEW m \in Job, Waits(g, m),
                          ~(m.kind = j.kind /\ m.req = j.req)
                   PROVE  WaitsNext(g, m)
      OBVIOUS
    <3>2. m.req \in Requests /\ m.kind \in {"migrate", "monitor", "finish"}
      BY DEF Job
    <3>3. CASE m.kind = "migrate"
      BY <2>1, <3>1, <3>2, <3>3 DEF Waits, WaitsNext, SrcNext, Src, Dom, TypeOK
    <3>4. CASE m.kind = "monitor"
      BY <2>1, <3>1, <3>2, <3>4 DEF Waits, WaitsNext, SrcNext, Src, Dom, TypeOK
    <3>5. CASE m.kind = "finish"
      BY <2>1, <3>1, <3>2, <3>5 DEF Waits, WaitsNext, Dest, TypeOK
    <3>6. QED
      BY <3>2, <3>3, <3>4, <3>5
  <2>3. QED
    BY <2>1, <2>2, TakeStep
<1>6. ASSUME NEW r \in Requests,
             \/ CheckCanMigrate(r) \/ BackupDeleteSnapshots(r) \/ CreateTmpSnapshot(r)
             \/ CopyImages(r) \/ PrepareMigration(r) \/ BeginMigrate(r) \/ EndMigrate(r)
             \/ FinishReplied(r) \/ PollFinish(r) \/ QueryFails(r)
      PROVE  QueueInv'
  BY <1>1, <1>6
     DEF CheckCanMigrate, BackupDeleteSnapshots, CreateTmpSnapshot, CopyImages,
         PrepareMigration, BeginMigrate, EndMigrate, FinishReplied, PollFinish, QueryFails, TypeOK
<1>7. ASSUME NEW r \in Requests,
             \/ Undefine(r) \/ RollbackCommit(r) \/ RollbackPivot(r) \/ RestoreSnapshots(r)
             \/ RevertMigration(r) \/ FinishJob(r) \/ MonitorEnds(r)
      PROVE  QueueInv'
  BY <1>1, <1>7
     DEF Undefine, RollbackCommit, RollbackPivot, RestoreSnapshots, RevertMigration,
         FinishJob, FinishCommit, FinishPivot, FinishSnapshots, MonitorEnds, TypeOK
<1>8. ASSUME NEW h \in Hosts, NEW d \in Domains, DomainStops(h, d) PROVE QueueInv'
  BY <1>1, <1>8 DEF DomainStops
<1>9. CASE UNCHANGED vars
  BY <1>1, <1>9 DEF vars
<1>10. QED
  BY <1>2, <1>3, <1>4, <1>5, <1>6, <1>7, <1>8, <1>9 DEF Next, MigrateJob

-----------------------------------------------------------------------------
(* Where a domain is.                                                      *)

\* A domain that is not on at its home stays so.
LEMMA HomeStaysOff ==
    ASSUME TypeOK, VmMove, NEW d \in Domains, vm[Home[d]][d].state # "on"
    PROVE  vm'[Home[d]][d].state # "on"
<1>1. Home[d] \in Hosts
  BY MigrationAssumption
<1>2. ASSUME NEW h \in Hosts, NEW e \in Domains, Keeps(h, e)
      PROVE  vm'[Home[d]][d].state # "on"
  BY <1>1, <1>2, SetVmFacts DEF Keeps
<1>3. ASSUME NEW r \in Requests, Defined(r) PROVE vm'[Home[d]][d].state # "on"
  <2> DEFINE w == [AtDest(r) EXCEPT !.state = "off", !.chain = <<r>>]
  <2>1. w.state = "off"
    BY Names DEF Vm
  <2>2. SetVm(Dest(r), Dom(r), w)
    BY <1>3 DEF Defined, SetDest
  <2> HIDE DEF w
  <2>3. QED
    BY <1>1, <2>1, <2>2, Names, SetVmFacts
<1>4. ASSUME NEW r \in Requests, Moved(r) PROVE vm'[Home[d]][d].state # "on"
  <2>1. CASE d = Dom(r)
    <3>1. Src(r) = Home[d] /\ AtSrc(r).state = "on" /\ AtSrc(r) = vm[Home[d]][d]
      BY <1>4, <2>1, Names DEF Moved, AtSrc
    <3>2. QED
      BY <3>1
  <2>2. CASE d # Dom(r)
    BY <1>1, <1>4, <2>2 DEF Moved
  <2>3. QED
    BY <2>1, <2>2
<1>5. ASSUME NEW r \in Requests, Undefined(r) \/ Reverted(r)
      PROVE  vm'[Home[d]][d].state # "on"
  BY <1>1, <1>5, Names, SetVmFacts, AbsentFacts DEF Undefined, Reverted, SetSrc, SetDest
<1>6. QED
  BY <1>2, <1>3, <1>4, <1>5 DEF VmMove

LEMMA MovedSets ==
    ASSUME NEW q \in Requests
    PROVE  /\ Defined(q) \/ Moved(q) => moved' = moved \cup {q} /\ reverted' = reverted
           /\ Undefined(q) => moved' = moved /\ reverted' = reverted
           /\ Reverted(q) => moved' = moved /\ reverted' = reverted \cup {q}
  BY DEF Defined, Moved, Arrives, Undefined, Reverted, history

\* A request stays what it was when it was made.
LEMMA AsksStay ==
    ASSUME TypeOK, StageInv, [Next]_vars
    PROVE  \A r \in Requests : pc[r] # "idle" => ask'[r] = ask[r] /\ pc'[r] # "idle"
<1>1. ASSUME NEW q \in Requests, Acts(q)
      PROVE  ask' = ask /\ \A r \in Requests : pc[r] # "idle" => pc'[r] # "idle"
  BY <1>1, ActsOnOwn DEF OnlyOwn
<1>2. QED
  BY <1>1, NextCases DEF MigrateDomain, TakeJob, DomainStops, vars, TypeOK, Goto

LEMMA LeftStep ==
    ASSUME TypeOK, StageInv, LeftInv, [Next]_vars
    PROVE  LeftInv'
<1>1. VmMove
  BY StepIsVmMove
<1>2. \A r \in Requests : pc[r] # "idle" => ask'[r] = ask[r]
  BY AsksStay
<1>3. ASSUME NEW r \in moved, r \in Requests PROVE AtSrc(r)'.state # "on"
  <2>1. pc[r] # "idle" /\ AtSrc(r).state # "on"
    BY <1>3 DEF StageInv, Stage, LeftInv, Ended
  <2>2. QED
    BY <1>1, <1>2, <1>3, <2>1, Names, HomeStaysOff DEF AtSrc, Src, Dom
<1>4. ASSUME NEW r \in Requests, r \in moved', r \notin moved PROVE AtSrc(r)'.state # "on"
  <2>1. Defined(r) \/ Moved(r)
    BY <1>1, <1>4, MovedSets DEF VmMove, history
  <2>2. pc[r] # "idle" /\ ask'[r] = ask[r]
    BY <1>2, <2>1 DEF Defined, Moved, Arrives
  <2>3. vm'[Src(r)][Dom(r)].state # "on"
    <3>1. CASE Defined(r)
      BY <1>1, <3>1, Names, HomeStaysOff DEF Defined, AtSrc
    <3>2. CASE Moved(r)
      BY <3>2, Names DEF Moved, Vm
    <3>3. QED
      BY <2>1, <3>1, <3>2
  <2>4. QED
    BY <2>2, <2>3 DEF AtSrc, Src, Dom
<1>5. moved' \subseteq Requests
  BY <1>1, MovedSets DEF VmMove, history, TypeOK
<1>6. QED
  BY <1>3, <1>4, <1>5 DEF LeftInv

\* A domain leaves a host only when it is undefined.
LEMMA StillThere ==
    ASSUME TypeOK, VmMove, NEW h \in Hosts, NEW d \in Domains, vm[h][d].state # "none"
    PROVE  \/ vm'[h][d].state # "none"
           \/ \E r \in Requests : /\ Dom(r) = d
                                  /\ (Undefined(r) /\ Src(r) = h) \/ (Reverted(r) /\ Dest(r) = h)
<1>1. ASSUME NEW g \in Hosts, NEW e \in Domains, Keeps(g, e)
      PROVE  vm'[h][d].state # "none"
  BY <1>1, SetVmFacts DEF Keeps
<1>2. ASSUME NEW r \in Requests, Defined(r) \/ Moved(r) PROVE vm'[h][d].state # "none"
  <2>1. CASE d = Dom(r) /\ h = Dest(r)
    BY <1>2, <2>1, Names DEF Defined, Moved, Arrives, Vm
  <2>2. CASE ~(d = Dom(r) /\ h = Dest(r)) /\ Defined(r)
    BY <2>2, Names, SetVmFacts DEF Defined, SetDest
  <2>3. CASE d = Dom(r) /\ h = Src(r) /\ Moved(r)
    BY <2>3, Names DEF Moved, Vm
  <2>4. CASE ~(d = Dom(r) /\ h \in {Src(r), Dest(r)}) /\ Moved(r)
    BY <2>4 DEF Moved
  <2>5. QED
    BY <1>2, <2>1, <2>2, <2>3, <2>4
<1>3. ASSUME NEW r \in Requests, Undefined(r), vm'[h][d].state = "none"
      PROVE  Dom(r) = d /\ Src(r) = h
  BY <1>3, Names, SetVmFacts DEF Undefined, SetSrc
<1>4. ASSUME NEW r \in Requests, Reverted(r), vm'[h][d].state = "none"
      PROVE  Dom(r) = d /\ Dest(r) = h
  BY <1>4, Names, SetVmFacts DEF Reverted, SetDest
<1>5. QED
  <2>1. CASE \E r \in Requests : Undefined(r)
    BY <1>3, <2>1
  <2>2. CASE \E r \in Requests : Reverted(r)
    BY <1>4, <2>2
  <2>3. CASE vm' = vm
    BY <2>3
  <2>4. QED
    BY <1>1, <1>2, <2>1, <2>2, <2>3 DEF VmMove

LEMMA HomeStep ==
    ASSUME TypeOK, StageInv, HomeInv, MovedInv, [Next]_vars
    PROVE  HomeInv' /\ MovedInv'
<1> DEFINE StrayNext(d) == {q \in reverted' \ moved' : ask'[q].dom = d}
<1>1. VmMove /\ \A r \in Requests : pc[r] # "idle" => ask'[r] = ask[r]
  BY StepIsVmMove, AsksStay
<1>2. moved \subseteq moved' /\ reverted \subseteq reverted' /\ moved' \subseteq Requests
  BY <1>1, MovedSets DEF VmMove, history, TypeOK
<1>3. ASSUME NEW d \in Domains PROVE Stray(d) \subseteq StrayNext(d)
  <2>1. \A q \in Requests : Defined(q) \/ Moved(q) => pc[q] # "failed"
    BY DEF Defined, Moved, Arrives
  <2>2. \A q \in moved' : q \in moved \/ pc[q] # "failed"
    BY <1>1, <2>1, MovedSets DEF VmMove, history, TypeOK
  <2>3. \A q \in reverted : q \in Requests /\ pc[q] = "failed"
    BY DEF StageInv, Stage, TypeOK
  <2>4. QED
    BY <1>1, <1>2, <2>2, <2>3 DEF Stray, Dom
<1>4. \A r \in moved : r \in Requests /\ ask'[r] = ask[r] /\ Src(r) # Dest(r)
  BY <1>1 DEF StageInv, Stage, Ended, TypeOK
<1>5. ASSUME NEW r \in Requests, Reverted(r) PROVE r \in StrayNext(Dom(r)) /\ ask'[r] = ask[r]
  <2>1. r \notin moved /\ pc[r] # "idle" /\ moved' = moved /\ r \in reverted'
    BY <1>5, MovedSets DEF Reverted, StageInv, Stage, Ended
  <2>2. QED
    BY <1>1, <2>1 DEF Dom
<1>6. ASSUME NEW d \in Domains
      PROVE  \/ vm'[Home[d]][d].state # "none"
             \/ \E r \in moved' : ask'[r].dom = d
             \/ \E q \in StrayNext(d) : ask'[q].dest = Home[d]
  <2>1. Home[d] \in Hosts
    BY MigrationAssumption
  <2>2. CASE \E r \in moved : Dom(r) = d
    BY <1>2, <1>4, <2>2 DEF Dom
  <2>3. CASE \E q \in Stray(d) : Dest(q) = Home[d]
    <3>1. PICK q \in Stray(d) : Dest(q) = Home[d]
      BY <2>3
    <3>2. q \in StrayNext(d) /\ pc[q] = "failed" /\ q \in Requests
      BY <1>3, <3>1 DEF Stray, StageInv, Stage, TypeOK
    <3>3. QED
      BY <1>1, <3>1, <3>2 DEF Dest
  <2>4. CASE vm[Home[d]][d].state # "none"
    <3>1. CASE \E r \in Requests : Undefined(r) /\ Dom(r) = d
      BY <1>2, <1>4, <3>1 DEF Undefined, StageInv, Stage, Dom
    <3>2. CASE \E r \in Requests : Reverted(r) /\ Dest(r) = Home[d] /\ Dom(r) = d
      BY <1>5, <3>2 DEF Dest
    <3>3. QED
      BY <1>1, <2>1, <2>4, <3>1, <3>2, StillThere
  <2>5. QED
    BY <2>2, <2>3, <2>4 DEF HomeInv
<1>7. ASSUME NEW r \in moved'
      PROVE  vm'[ask'[r].dest][ask'[r].dom].state # "none" \/ StrayNext(ask'[r].dom) # {}
  <2>1. r \in Requests
    BY <1>2
  <2>2. CASE r \notin moved
    <3>1. Defined(r) \/ Moved(r)
      BY <1>1, <2>2, MovedSets DEF VmMove, history
    <3>2. vm'[Dest(r)][Dom(r)].state # "none" /\ pc[r] # "idle"
      BY <2>1, <3>1, Names DEF Defined, Moved, Arrives, Vm
    <3>3. QED
      BY <1>1, <2>1, <3>2 DEF Dest, Dom
  <2>3. CASE r \in moved
    <3>1. ask'[r].dom = Dom(r) /\ ask'[r].dest = Dest(r) /\ Src(r) # Dest(r)
          /\ Dom(r) \in Domains /\ Dest(r) \in Hosts /\ Src(r) = Home[Dom(r)]
      BY <1>4, <2>1, <2>3, Names DEF Dom, Dest
    <3>2. CASE Stray(Dom(r)) # {}
      BY <1>3, <3>1, <3>2
    <3>3. CASE AtDest(r).state # "none"
      <4>1. CASE \E q \in Requests : Undefined(q) /\ Src(q) = Dest(r) /\ Dom(q) = Dom(r)
        BY <3>1, <4>1 DEF Src
      <4>2. CASE \E q \in Requests : Reverted(q) /\ Dom(q) = Dom(r)
        BY <1>5, <3>1, <4>2
      <4>3. QED
        BY <1>1, <3>1, <3>3, <4>1, <4>2, StillThere DEF AtDest
    <3>4. QED
      BY <2>3, <3>2, <3>3 DEF MovedInv
  <2>4. QED
    BY <2>2, <2>3
<1>8. QED
  BY <1>6, <1>7 DEF HomeInv, MovedInv, AtDest, Dest, Stray, Dom

-----------------------------------------------------------------------------
(* What a request finds, and what it leaves.                               *)

LEMMA UntouchedStep ==
    ASSUME TypeOK, StageInv, Untouched, [Next]_vars
    PROVE  Untouched'
<1> DEFINE Here(h, d) == vm'[h][d].state # "none"
           Clean(h, d) == ~vm'[h][d].snaps
<1>1. ASSUME NEW d \in Domains, ~\E q \in Requests : pc'[q] # "idle" /\ ask'[q].dom = d
      PROVE  /\ Here(Home[d], d) /\ vm'[Home[d]][d].snaps /\ vm'[Home[d]][d].chain = <<>>
             /\ \A h \in Hosts \ {Home[d]} : vm'[h][d].state = "none" /\ Clean(h, d)
  <2>1. ~Wanted(d)
    BY <1>1, AsksStay DEF Wanted, Dom
  <2>2. /\ vm[Home[d]][d].state # "none" /\ vm[Home[d]][d].snaps /\ vm[Home[d]][d].chain = <<>>
        /\ \A h \in Hosts \ {Home[d]} : vm[h][d].state = "none" /\ ~vm[h][d].snaps
        /\ Home[d] \in Hosts
    BY <2>1, MigrationAssumption DEF Untouched
  <2>3. CASE \A h \in Hosts : vm'[h][d] = vm[h][d]
    BY <2>2, <2>3
  <2>4. ASSUME NEW h \in Hosts, NEW e \in Domains, DomainStops(h, e)
        PROVE  \/ \A g \in Hosts : vm'[g][d] = vm[g][d]
               \/ h = Home[d] /\ e = d
    BY <2>2, <2>4, SetVmFacts DEF DomainStops
  <2>5. CASE DomainStops(Home[d], d)
    <3> DEFINE w == [vm[Home[d]][d] EXCEPT !.state = "off", !.job = None]
    <3>1. w.state = "off" /\ w.snaps = vm[Home[d]][d].snaps /\ w.chain = vm[Home[d]][d].chain
      BY <2>2, CellType, VmFacts
    <3>2. SetVm(Home[d], d, w)
      BY <2>5 DEF DomainStops
    <3> HIDE DEF w
    <3>3. vm'[Home[d]][d] = w /\ \A g \in Hosts \ {Home[d]} : vm'[g][d] = vm[g][d]
      BY <2>2, <3>2, SetVmFacts
    <3>4. QED
      BY <2>2, <3>1, <3>3
  <2>6. ASSUME NEW q \in Requests, Acts(q) PROVE \A h \in Hosts : vm'[h][d] = vm[h][d]
    BY <2>1, <2>6, ActsOnOwn DEF OnlyOwn, Wanted
  <2>7. QED
    BY <2>3, <2>4, <2>5, <2>6, NextCases DEF MigrateDomain, TakeJob, vars
<1>2. QED
  BY <1>1 DEF Untouched, Wanted, Dom

NoRivalNext(r) == \A q \in Requests \ {r} : pc'[q] # "idle" => ask'[q].dom # ask'[r].dom

LEMMA StillNoRival ==
    ASSUME TypeOK, StageInv, [Next]_vars, NEW r \in Requests, pc[r] # "idle", NoRivalNext(r)
    PROVE  NoRival(r) /\ ask'[r] = ask[r]
  BY AsksStay DEF NoRival, NoRivalNext, Dom

\* What others do does not concern a request without a rival.
LEMMA OthersLeaveAlone ==
    ASSUME TypeOK, QueueInv, StageInv, [Next]_vars,
           NEW r \in Requests, ~Acts(r), pc[r] # "idle", NoRivalNext(r)
    PROVE  /\ kept'[r] = kept[r] /\ tmp'[r] = tmp[r] /\ (r \in moved' <=> r \in moved)
           /\ pc'[r] = pc[r] \/ (pc[r] = "queued" /\ pc'[r] = "start")
           /\ fin'[r] = fin[r] \/ (fin[r] = "queued" /\ fin'[r] = "run")
           /\ \A h \in Hosts :
                 /\ vm'[h][Dom(r)].state = "none" <=> vm[h][Dom(r)].state = "none"
                 /\ vm'[h][Dom(r)].chain = vm[h][Dom(r)].chain
                 /\ vm'[h][Dom(r)].snaps <=> vm[h][Dom(r)].snaps
<1> USE DEF Goto, history
<1>1. ASSUME NEW q \in Requests, Acts(q)
      PROVE  /\ UNCHANGED <<kept[r], tmp[r], pc[r], fin[r]>> /\ (r \in moved' <=> r \in moved)
             /\ \A h \in Hosts : vm'[h][Dom(r)] = vm[h][Dom(r)]
  <2>1. OnlyOwn(q) /\ q # r
    BY <1>1, ActsOnOwn
  <2>2. Dom(q) # Dom(r) /\ Dom(r) \in Domains
    BY <2>1, Names DEF OnlyOwn, NoRivalNext, Dom
  <2>3. QED
    BY <2>1, <2>2 DEF OnlyOwn
<1>2. ASSUME NEW h \in Hosts, TakeJob(h)
      PROVE  /\ kept' = kept /\ tmp' = tmp /\ moved' = moved /\ vm' = vm
             /\ pc'[r] = pc[r] \/ (pc[r] = "queued" /\ pc'[r] = "start")
             /\ fin'[r] = fin[r] \/ (fin[r] = "queued" /\ fin'[r] = "run")
  <2> DEFINE j == Head(queue[h])
  <2>1. /\ Waits(h, j) /\ j \in Job
        /\ pc'  = IF j.kind = "migrate" THEN [pc EXCEPT ![j.req] = "start"] ELSE pc
        /\ fin' = IF j.kind = "finish" THEN [fin EXCEPT ![j.req] = "run"] ELSE fin
    BY <1>2, TakeFacts DEF TakeJob, QueueInv
  <2> HIDE DEF j
  <2>2. QED
    BY <1>2, <2>1 DEF TakeJob, Waits, Job, TypeOK
<1>3. ASSUME NEW h \in Hosts, NEW d \in Domains, DomainStops(h, d),
             NEW g \in Hosts, NEW e \in Domains
      PROVE  /\ vm'[g][e].state = "none" <=> vm[g][e].state = "none"
             /\ vm'[g][e].chain = vm[g][e].chain
             /\ vm'[g][e].snaps <=> vm[g][e].snaps
  <2> DEFINE w == [vm[h][d] EXCEPT !.state = "off", !.job = None]
  <2>1. w.state = "off" /\ w.snaps = vm[h][d].snaps /\ w.chain = vm[h][d].chain
    BY CellType, VmFacts
  <2>2. SetVm(h, d, w) /\ vm[h][d].state = "on"
    BY <1>3 DEF DomainStops
  <2> HIDE DEF w
  <2>3. vm'[h][d] = w /\ (g # h \/ e # d => vm'[g][e] = vm[g][e])
    BY <2>2, SetVmFacts
  <2>4. CASE g = h /\ e = d
    BY <2>1, <2>2, <2>3, <2>4
  <2>5. CASE g # h \/ e # d
    BY <2>3, <2>5
  <2>6. QED
    BY <2>4, <2>5
<1>4. ASSUME NEW q \in Requests, MigrateDomain(q)
      PROVE  UNCHANGED <<vm, tmp, kept, fin, moved>> /\ pc'[r] = pc[r]
  BY <1>4 DEF MigrateDomain, TypeOK
<1>5. ASSUME NEW h \in Hosts, NEW d \in Domains, DomainStops(h, d)
      PROVE  UNCHANGED <<kept, tmp, moved, pc, fin>>
  BY <1>5 DEF DomainStops
<1>6. Dom(r) \in Domains
  BY Names
<1>7. CASE \E q \in Requests : Acts(q)
  BY <1>1, <1>7
<1>8. CASE \E h \in Hosts : TakeJob(h)
  BY <1>2, <1>8
<1>9. CASE \E h \in Hosts, d \in Domains : DomainStops(h, d)
  BY <1>3, <1>5, <1>6, <1>9
<1>10. CASE (\E q \in Requests : MigrateDomain(q)) \/ UNCHANGED vars
  BY <1>4, <1>10 DEF vars
<1>11. QED
  BY <1>7, <1>8, <1>9, <1>10, NextCases

\* A request for a domain nobody has asked to migrate finds it whole, at home only.
LEMMA FirstRequest ==
    ASSUME TypeOK, StageInv, Untouched, [Next]_vars,
           NEW r \in Requests, MigrateDomain(r), NoRivalNext(r)
    PROVE  /\ pc[r] = "idle" /\ pc'[r] = "queued" /\ r \notin moved'
           /\ kept'[r].tmp = "empty"
           /\ ask'[r].dom \in Domains /\ ask'[r].dest \in Hosts
           /\ vm'[Home[ask'[r].dom]][ask'[r].dom].state # "none"
           /\ vm'[Home[ask'[r].dom]][ask'[r].dom].snaps
           /\ vm'[Home[ask'[r].dom]][ask'[r].dom].chain = <<>>
           /\ ask'[r].dest # Home[ask'[r].dom] => NotYet(vm'[ask'[r].dest][ask'[r].dom])
<1>1. PICK a \in Asked[r] : ask' = [ask EXCEPT ![r] = [dom |-> a[1], dest |-> a[2]]]
  BY DEF MigrateDomain
<1>2. a[1] \in Domains /\ a[2] \in Hosts /\ ask'[r].dom = a[1] /\ ask'[r].dest = a[2]
  <2>1. a \in Domains \X Hosts
    BY AskedAssumption
  <2>2. QED
    BY <1>1, <2>1 DEF TypeOK
<1>3. /\ pc[r] = "idle" /\ pc'[r] = "queued" /\ vm' = vm /\ r \notin moved' /\ kept' = kept
      /\ kept[r].tmp = "empty"
  BY DEF MigrateDomain, Goto, TypeOK, StageInv, Stage, history, Ended
<1>4. ~Wanted(a[1])
  BY <1>2, <1>3, AsksStay DEF Wanted, NoRivalNext, Dom
<1>5. /\ vm[Home[a[1]]][a[1]].state # "none" /\ vm[Home[a[1]]][a[1]].snaps
      /\ vm[Home[a[1]]][a[1]].chain = <<>>
      /\ \A h \in Hosts \ {Home[a[1]]} : NotYet(vm[h][a[1]])
  BY <1>2, <1>4 DEF Untouched, NotYet
<1>6. QED
  BY <1>2, <1>3, <1>5

\* The job of a request without a rival takes from the source what it notes, puts it
\* back before it calls the destination, and leaves the destination alone.
LEMMA OwnSource ==
    ASSUME TypeOK, StageInv, NEW r \in Requests, Acts(r),
           pc[r] \in Active => SourceIs(r, AtSrc(r), kept[r], pc[r])
    PROVE  pc'[r] \in Active => SourceIs(r, vm'[Src(r)][Dom(r)], kept'[r], pc'[r])
<1> DEFINE S == SourceIs(r, AtSrc(r), kept[r], pc[r])
           N == vm'[Src(r)][Dom(r)]
<1> SUFFICES pc'[r] \in Active => SourceIs(r, N, kept'[r], pc'[r])
  OBVIOUS
<1> USE DEF Goto
<1>1. /\ Stage(r) /\ AtSrc(r) \in Vm /\ AtDest(r) \in Vm /\ vm[Src(r)][Dom(r)] = AtSrc(r)
      /\ Src(r) \in Hosts /\ Dest(r) \in Hosts /\ Dom(r) \in Domains
  BY Names DEF StageInv, AtSrc
<1>2. ASSUME NEW v, SetSrc(r, v) PROVE N = v
  BY <1>1, <1>2, SetVmFacts DEF SetSrc
<1>3. ASSUME NEW v, SetDest(r, v), Src(r) # Dest(r) PROVE N = AtSrc(r)
  BY <1>1, <1>3, SetVmFacts DEF SetDest
<1>4. vm' = vm => N = AtSrc(r)
  BY DEF AtSrc
<1> HIDE DEF N
<1>5. CASE StartMigrate(r) \/ CheckCanMigrate(r) \/ CopyImages(r) \/ PrepareMigration(r)
           \/ SendFinish(r) \/ FinishReplied(r) \/ PollFinish(r) \/ QueryFails(r)
  <2>1. N = AtSrc(r) /\ kept'[r] = kept[r]
    BY <1>4, <1>5 DEF StartMigrate, CheckCanMigrate, CopyImages, PrepareMigration, SendFinish,
                      FinishReplied, PollFinish, QueryFails
  <2>2. /\ pc[r] \in Active /\ pc[r] \notin {"restore", "revert"}
        /\ pc'[r] \in {"check", "backup", "prepare", "migrate", "sent", "poll", "misled",
                       "undefine", "rollback", "hung", "failed"}
        /\ pc'[r] \in Early => pc[r] \in Early
    BY <1>5 DEF StartMigrate, CheckCanMigrate, CopyImages, PrepareMigration, SendFinish,
                FinishReplied, PollFinish, QueryFails, TypeOK, Active, Early
  <2>3. QED
    BY <2>1, <2>2 DEF SourceIs, Active, Early
<1>6. CASE BackupDeleteSnapshots(r)
  <2> DEFINE w == [AtSrc(r) EXCEPT !.snaps = FALSE]
  <2>1. w.state = AtSrc(r).state /\ ~w.snaps /\ w.chain = AtSrc(r).chain
    BY <1>1, VmFacts
  <2>2. /\ pc[r] = "backup"
        /\ \/ /\ SetSrc(r, w) /\ kept'[r].snaps = AtSrc(r).snaps
              /\ kept'[r].tmp = kept[r].tmp /\ pc'[r] = "snapshot"
           \/ pc'[r] = "failed"
    BY <1>6 DEF BackupDeleteSnapshots, TypeOK
  <2> HIDE DEF w
  <2>3. QED
    BY <1>1, <1>2, <2>1, <2>2 DEF SourceIs, Active, Early, Stage
<1>7. CASE CreateTmpSnapshot(r)
  <2> DEFINE w == [AtSrc(r) EXCEPT !.chain = Append(@, r)]
  <2>1. w.state = AtSrc(r).state /\ (w.snaps <=> AtSrc(r).snaps) /\ w.chain = Append(AtSrc(r).chain, r)
    BY <1>1 DEF Vm
  <2>2. /\ pc[r] = "snapshot"
        /\ \/ /\ SetSrc(r, w) /\ kept'[r].tmp = "made" /\ (kept'[r].snaps <=> kept[r].snaps)
              /\ pc'[r] = "copy"
           \/ /\ vm' = vm /\ kept'[r].tmp = "none" /\ (kept'[r].snaps <=> kept[r].snaps)
              /\ pc'[r] = "copy"
           \/ pc'[r] = "failed"
    <3>1. \A t \in {"made", "none"} :
              kept' = [kept EXCEPT ![r].tmp = t] =>
                  kept'[r].tmp = t /\ (kept'[r].snaps <=> kept[r].snaps)
      BY DEF TypeOK
    <3>2. QED
      BY <1>7, <3>1 DEF CreateTmpSnapshot, TypeOK
  <2> HIDE DEF w
  <2>3. kept[r].tmp = "empty" /\ S
    BY <1>1, <2>2 DEF Stage, Active
  <2>4. AtSrc(r).state # "none" /\ AtSrc(r).chain = <<>> /\ (AtSrc(r).snaps \/ kept[r].snaps)
    BY <2>3 DEF SourceIs
  <2>5. Append(<<>>, r) = <<r>>
    BY FrontFacts
  <2>6. QED
    BY <1>2, <1>4, <2>1, <2>2, <2>4, <2>5 DEF SourceIs, Active, Early
<1>8. CASE BeginMigrate(r) \/ EndMigrate(r)
  <2>1. CASE vm' = vm
    <3>1. /\ pc[r] \in {"migrate", "moving"} /\ kept' = kept
          /\ pc'[r] \in {"moving", "finish", "failed"}
      BY <1>8 DEF BeginMigrate, EndMigrate, TypeOK
    <3>2. QED
      BY <1>4, <2>1, <3>1 DEF SourceIs, Active, Early
  <2>2. CASE vm' # vm
    <3>1. /\ pc[r] \in {"migrate", "moving"} /\ pc'[r] = "finish" /\ kept' = kept
          /\ Src(r) # Dest(r)
      BY <1>8, <2>2 DEF BeginMigrate, EndMigrate, TypeOK
    <3>2. N.state # "none" /\ N.chain = AtSrc(r).chain /\ (N.snaps <=> AtSrc(r).snaps)
      <4>1. CASE BeginMigrate(r)
        <5>1. N = AtSrc(r)
          BY <1>3, <2>2, <3>1, <4>1 DEF BeginMigrate
        <5>2. QED
          BY <2>2, <4>1, <5>1 DEF BeginMigrate
      <4>2. CASE EndMigrate(r)
        <5>1. vm' = [vm EXCEPT ![Src(r)][Dom(r)].state = "off",
                               ![Dest(r)][Dom(r)].state = "on",
                               ![Dest(r)][Dom(r)].chain = <<r>>]
          BY <2>2, <4>2 DEF EndMigrate
        <5>2. N = [AtSrc(r) EXCEPT !.state = "off"]
          BY <1>1, <3>1, <5>1 DEF AtSrc, TypeOK, N
        <5>3. QED
          BY <1>1, <5>2 DEF Vm
      <4>3. QED
        BY <1>8, <4>1, <4>2
    <3>3. QED
      BY <3>1, <3>2 DEF SourceIs, Active, Early
  <2>3. QED
    BY <2>1, <2>2
<1>9. CASE Undefine(r) \/ RevertMigration(r)
  BY <1>1, <1>9 DEF Undefine, RevertMigration, TypeOK, Active, Early, Ended
<1>10. CASE RollbackCommit(r)
  <2> DEFINE w == [AtSrc(r) EXCEPT !.job = r]
  <2>1. w.state = AtSrc(r).state /\ (w.snaps <=> AtSrc(r).snaps) /\ w.chain = AtSrc(r).chain
    BY <1>1 DEF Vm
  <2>2. /\ pc[r] = "rollback" /\ kept' = kept
        /\ \/ kept[r].tmp = "empty" /\ pc'[r] = "restore" /\ vm' = vm
           \/ SetSrc(r, w) /\ pc'[r] = "commit"
           \/ pc'[r] = "failed"
    BY <1>10 DEF RollbackCommit, TypeOK
  <2> HIDE DEF w
  <2>3. QED
    BY <1>2, <1>4, <2>1, <2>2 DEF SourceIs, Active, Early
<1>11. CASE RollbackPivot(r)
  <2> DEFINE w == [AtSrc(r) EXCEPT !.job = None, !.chain = Front(@)]
  <2>1. w.state = AtSrc(r).state /\ (w.snaps <=> AtSrc(r).snaps) /\ w.chain = Front(AtSrc(r).chain)
    BY <1>1 DEF Vm
  <2>2. /\ pc[r] = "commit" /\ kept' = kept
        /\ \/ SetSrc(r, w) /\ pc'[r] = "restore"
           \/ pc'[r] = "failed"
    BY <1>11 DEF RollbackPivot, TypeOK
  <2> HIDE DEF w
  <2>3. kept[r].tmp = "made" /\ Front(<<r>>) = <<>>
    BY <1>1, <2>2, FrontFacts DEF Stage
  <2>4. QED
    BY <1>2, <2>1, <2>2, <2>3 DEF SourceIs, Active, Early
<1>12. CASE RestoreSnapshots(r)
  <2> DEFINE w == [AtSrc(r) EXCEPT !.snaps = TRUE]
  <2>1. w.state = AtSrc(r).state /\ w.snaps /\ w.chain = AtSrc(r).chain
    BY <1>1, VmFacts
  <2>2. /\ pc[r] = "restore" /\ kept' = kept
        /\ \/ ~kept[r].snaps /\ pc'[r] = "revert" /\ vm' = vm
           \/ SetSrc(r, w) /\ pc'[r] = "revert"
           \/ pc'[r] = "failed"
    BY <1>12 DEF RestoreSnapshots, TypeOK
  <2> HIDE DEF w
  <2>3. QED
    BY <1>2, <1>4, <2>1, <2>2 DEF SourceIs, Active, Early
<1>13. CASE FinishJob(r)
  <2>1. N = AtSrc(r) /\ kept' = kept /\ pc' = pc
    BY <1>1, <1>3, <1>4, <1>13
       DEF FinishJob, FinishCommit, FinishPivot, FinishSnapshots, Stage
  <2>2. QED
    BY <2>1
<1>14. CASE MonitorEnds(r)
  BY <1>4, <1>14 DEF MonitorEnds
<1>15. QED
  BY <1>5, <1>6, <1>7, <1>8, <1>9, <1>10, <1>11, <1>12, <1>13, <1>14 DEF Acts, MigrateJob, N

\* What is at the destination of a request without a rival comes with the migration,
\* and is made whole by the finish job.
LEMMA OwnDest ==
    ASSUME TypeOK, StageInv, NEW r \in Requests, Acts(r), Dest(r) # Src(r),
           IF r \in moved THEN Arrived(r, AtDest(r), kept[r], tmp[r], fin[r])
           ELSE NotYet(AtDest(r))
    PROVE  IF r \in moved' THEN Arrived(r, vm'[Dest(r)][Dom(r)], kept'[r], tmp'[r], fin'[r])
           ELSE NotYet(vm'[Dest(r)][Dom(r)])
<1> DEFINE N == vm'[Dest(r)][Dom(r)]
<1> SUFFICES IF r \in moved' THEN Arrived(r, N, kept'[r], tmp'[r], fin'[r]) ELSE NotYet(N)
  OBVIOUS
<1> USE DEF Goto, history
<1>1. /\ Stage(r) /\ AtSrc(r) \in Vm /\ AtDest(r) \in Vm /\ vm[Dest(r)][Dom(r)] = AtDest(r)
      /\ Src(r) \in Hosts /\ Dest(r) \in Hosts /\ Dom(r) \in Domains
  BY Names DEF StageInv, AtDest
<1>2. ASSUME NEW v, SetDest(r, v) PROVE N = v
  BY <1>1, <1>2, SetVmFacts DEF SetDest
<1>3. ASSUME NEW v, SetSrc(r, v) PROVE N = AtDest(r)
  BY <1>1, <1>3, SetVmFacts DEF SetSrc
<1>4. vm' = vm => N = AtDest(r)
  BY DEF AtDest
<1> HIDE DEF N
<1>5. CASE N = AtDest(r) /\ UNCHANGED <<kept[r], tmp[r], fin[r], moved>>
  BY <1>5
<1>6. CASE StartMigrate(r) \/ CheckCanMigrate(r) \/ CopyImages(r) \/ FinishReplied(r)
           \/ PollFinish(r) \/ QueryFails(r) \/ MonitorEnds(r)
  BY <1>4, <1>5, <1>6
     DEF StartMigrate, CheckCanMigrate, CopyImages, FinishReplied, PollFinish, QueryFails,
         MonitorEnds
<1>7. CASE Undefine(r) \/ RollbackCommit(r) \/ RollbackPivot(r) \/ RestoreSnapshots(r)
  BY <1>3, <1>4, <1>5, <1>7 DEF Undefine, RollbackCommit, RollbackPivot, RestoreSnapshots
<1>8. CASE BackupDeleteSnapshots(r) \/ CreateTmpSnapshot(r)
  <2>1. N = AtDest(r) /\ moved' = moved /\ r \notin moved
    BY <1>1, <1>3, <1>4, <1>8 DEF BackupDeleteSnapshots, CreateTmpSnapshot, Stage, Ended
  <2>2. QED
    BY <2>1
<1>9. CASE PrepareMigration(r)
  <2>1. N = AtDest(r) /\ moved' = moved /\ r \notin moved
    BY <1>1, <1>4, <1>9 DEF PrepareMigration, Stage, Ended
  <2>2. QED
    BY <2>1
<1>10. CASE BeginMigrate(r) \/ EndMigrate(r)
  <2>1. r \notin moved /\ fin[r] = "idle" /\ fin' = fin
    BY <1>1, <1>10 DEF BeginMigrate, EndMigrate, Stage, Ended
  <2>2. CASE vm' = vm /\ moved' = moved
    BY <1>4, <2>1, <2>2
  <2>3. CASE ~(vm' = vm /\ moved' = moved)
    <3>1. r \in moved' /\ NotYet(AtDest(r))
      BY <1>10, <2>1, <2>3 DEF BeginMigrate, EndMigrate
    <3>2. N.state # "none" /\ N.chain = <<r>> /\ (N.snaps <=> AtDest(r).snaps)
      <4>1. CASE BeginMigrate(r)
        <5> DEFINE w == [AtDest(r) EXCEPT !.state = "off", !.chain = <<r>>]
        <5>1. w.state = "off" /\ w.chain = <<r>> /\ (w.snaps <=> AtDest(r).snaps)
          BY <1>1 DEF Vm
        <5>2. SetDest(r, w)
          BY <2>3, <4>1 DEF BeginMigrate
        <5> HIDE DEF w
        <5>3. QED
          BY <1>2, <5>1, <5>2
      <4>2. CASE EndMigrate(r)
        <5>1. vm' = [vm EXCEPT ![Src(r)][Dom(r)].state = "off",
                               ![Dest(r)][Dom(r)].state = "on",
                               ![Dest(r)][Dom(r)].chain = <<r>>]
          BY <2>3, <4>2 DEF EndMigrate
        <5>2. N = [AtDest(r) EXCEPT !.state = "on", !.chain = <<r>>]
          BY <1>1, <5>1 DEF AtDest, TypeOK, N
        <5>3. QED
          BY <1>1, <5>2 DEF Vm
      <4>3. QED
        BY <1>10, <4>1, <4>2
    <3>3. QED
      BY <2>1, <3>1, <3>2 DEF Arrived, NotYet
  <2>4. QED
    BY <2>2, <2>3
<1>11. CASE SendFinish(r)
  <2>1. /\ r \in moved /\ moved' = moved /\ N = AtDest(r) /\ kept' = kept /\ tmp' = tmp
        /\ fin[r] = "idle" /\ fin'[r] \in {"idle", "queued"}
    BY <1>1, <1>4, <1>11 DEF SendFinish, Stage, TypeOK
  <2>2. QED
    BY <2>1 DEF Arrived
<1>12. CASE RevertMigration(r)
  <2>1. r \notin moved /\ moved' = moved
    BY <1>1, <1>12 DEF RevertMigration, Stage, Ended
  <2>2. AtDest(r).state = "none"
    BY <2>1 DEF NotYet
  <2>3. vm' = vm
    BY <1>12, <2>2 DEF RevertMigration
  <2>4. QED
    BY <1>4, <2>1, <2>3
<1>13. CASE FinishCommit(r)
  <2> DEFINE w == [AtDest(r) EXCEPT !.job = r]
  <2>1. w.state = AtDest(r).state /\ (w.snaps <=> AtDest(r).snaps) /\ w.chain = AtDest(r).chain
    BY <1>1 DEF Vm
  <2>2. /\ r \in moved /\ moved' = moved /\ kept' = kept /\ tmp' = tmp /\ fin[r] = "run"
        /\ \/ SetDest(r, w) /\ fin'[r] = "commit"
           \/ vm' = vm /\ fin'[r] = "failed"
    BY <1>1, <1>13 DEF FinishCommit, Stage, TypeOK
  <2> HIDE DEF w
  <2>3. QED
    BY <1>2, <1>4, <2>1, <2>2 DEF Arrived
<1>14. CASE FinishPivot(r)
  <2> DEFINE w == [AtDest(r) EXCEPT !.job = None, !.chain = Front(@)]
  <2>1. w.state = AtDest(r).state /\ (w.snaps <=> AtDest(r).snaps) /\ w.chain = Front(AtDest(r).chain)
    BY <1>1 DEF Vm
  <2>2. /\ r \in moved /\ moved' = moved /\ kept' = kept /\ fin[r] = "commit"
        /\ \/ SetDest(r, w) /\ fin'[r] = "snaps" /\ ~tmp'[r]
           \/ vm' = vm /\ fin'[r] = "failed"
    BY <1>1, <1>14 DEF FinishPivot, Stage, TypeOK
  <2> HIDE DEF w
  <2>3. Front(<<r>>) = <<>>
    BY FrontFacts
  <2>4. QED
    BY <1>2, <1>4, <2>1, <2>2, <2>3 DEF Arrived
<1>15. CASE FinishSnapshots(r)
  <2> DEFINE w == [AtDest(r) EXCEPT !.snaps = TRUE]
  <2>1. w.state = AtDest(r).state /\ w.snaps /\ w.chain = AtDest(r).chain
    BY <1>1, VmFacts
  <2>2. /\ r \in moved /\ moved' = moved /\ kept' = kept /\ tmp' = tmp /\ fin[r] = "snaps"
        /\ \/ ~kept[r].snaps /\ fin'[r] = "ok" /\ vm' = vm
           \/ kept[r].snaps /\ SetDest(r, w) /\ fin'[r] = "ok"
           \/ vm' = vm /\ fin'[r] = "failed"
    BY <1>1, <1>15 DEF FinishSnapshots, Stage, TypeOK
  <2> HIDE DEF w
  <2>3. QED
    BY <1>2, <1>4, <2>1, <2>2 DEF Arrived
<1>16. QED
  BY <1>6, <1>7, <1>8, <1>9, <1>10, <1>11, <1>12, <1>13, <1>14, <1>15
     DEF Acts, MigrateJob, FinishJob

LEMMA EndsStep ==
    ASSUME TypeOK, QueueInv, StageInv, Untouched, SourceInv, DestInv, [Next]_vars
    PROVE  SourceInv' /\ DestInv'
<1> DEFINE d(r) == ask'[r].dom
           S(r) == SourceIs(r, vm'[Home[d(r)]][d(r)], kept'[r], pc'[r])
           D(r) == IF r \in moved'
                     THEN Arrived(r, vm'[ask'[r].dest][d(r)], kept'[r], tmp'[r], fin'[r])
                     ELSE NotYet(vm'[ask'[r].dest][d(r)])
<1>1. ASSUME NEW r \in Requests, NoRivalNext(r), pc[r] # "idle"
      PROVE  /\ pc'[r] \in Active => S(r)
             /\ ask'[r].dest # Home[d(r)] => D(r)
  <2>1. /\ NoRival(r) /\ d(r) = Dom(r) /\ ask'[r].dest = Dest(r) /\ Home[d(r)] = Src(r)
        /\ Src(r) \in Hosts /\ Dest(r) \in Hosts /\ AtDest(r) = vm[Dest(r)][Dom(r)]
        /\ AtSrc(r) = vm[Src(r)][Dom(r)]
    BY <1>1, StillNoRival, Names DEF Dom, Src, Dest, AtSrc, AtDest
  <2>2. /\ pc[r] \in Active => SourceIs(r, AtSrc(r), kept[r], pc[r])
        /\ Dest(r) # Src(r) => IF r \in moved THEN Arrived(r, AtDest(r), kept[r], tmp[r], fin[r])
                               ELSE NotYet(AtDest(r))
    BY <1>1, <2>1 DEF SourceInv, DestInv
  <2>3. CASE Acts(r)
    BY <2>1, <2>2, <2>3, OwnSource, OwnDest
  <2>4. CASE ~Acts(r)
    <3>1. /\ kept'[r] = kept[r] /\ tmp'[r] = tmp[r] /\ (r \in moved' <=> r \in moved)
          /\ pc'[r] = pc[r] \/ (pc[r] = "queued" /\ pc'[r] = "start")
          /\ fin'[r] = fin[r] \/ (fin[r] = "queued" /\ fin'[r] = "run")
          /\ \A h \in Hosts :
                /\ vm'[h][Dom(r)].state = "none" <=> vm[h][Dom(r)].state = "none"
                /\ vm'[h][Dom(r)].chain = vm[h][Dom(r)].chain
                /\ vm'[h][Dom(r)].snaps <=> vm[h][Dom(r)].snaps
      BY <1>1, <2>4, OthersLeaveAlone
    <3>2. pc'[r] \in Active => S(r)
      BY <2>1, <2>2, <3>1 DEF SourceIs, Active, Early
    <3>3. Dest(r) # Src(r) => D(r)
      BY <2>1, <2>2, <3>1 DEF Arrived, NotYet
    <3>4. QED
      BY <2>1, <3>2, <3>3
  <2>5. QED
    BY <2>3, <2>4
<1>2. ASSUME NEW r \in Requests, NoRivalNext(r), pc[r] = "idle", pc'[r] # "idle"
      PROVE  S(r) /\ (ask'[r].dest # Home[d(r)] => D(r))
  <2>1. MigrateDomain(r)
    <3>1. ASSUME NEW q \in Requests, Acts(q) PROVE FALSE
      BY <1>2, <3>1, ActsOnOwn DEF OnlyOwn
    <3>2. ASSUME NEW h \in Hosts, TakeJob(h) PROVE FALSE
      <4> DEFINE j == Head(queue[h])
      <4>1. /\ Waits(h, j) /\ j \in Job
            /\ pc' = IF j.kind = "migrate" THEN [pc EXCEPT ![j.req] = "start"] ELSE pc
        BY <3>2, TakeFacts DEF TakeJob, QueueInv
      <4> HIDE DEF j
      <4>2. QED
        BY <1>2, <4>1 DEF Waits, Job, TypeOK
    <3>3. ASSUME NEW q \in Requests, MigrateDomain(q) PROVE q = r
      BY <1>2, <3>3 DEF MigrateDomain, Goto, TypeOK
    <3>4. CASE (\E h \in Hosts, e \in Domains : DomainStops(h, e)) \/ UNCHANGED vars
      BY <1>2, <3>4 DEF DomainStops, vars
    <3>5. QED
      BY <3>1, <3>2, <3>3, <3>4, NextCases
  <2>2. QED
    BY <1>2, <2>1, FirstRequest DEF SourceIs, Early
<1>3. ASSUME NEW r \in Requests, NoRivalNext(r), pc'[r] # "idle"
      PROVE  /\ pc'[r] \in Active => S(r)
             /\ ask'[r].dest # Home[d(r)] => D(r)
  BY <1>1, <1>2, <1>3
<1>4. "idle" \notin Active
  BY DEF Active, Early
<1>5. QED
  BY <1>3, <1>4 DEF SourceInv, DestInv, NoRival, NoRivalNext, AtSrc, AtDest, Src, Dest, Dom

-----------------------------------------------------------------------------
(* The theorems.                                                           *)

LEMMA InitIInv == Init => IInv
<1> SUFFICES ASSUME Init PROVE IInv
  OBVIOUS
<1>1. TypeOK
  <2>1. [Absent EXCEPT !.state = "on", !.snaps = TRUE] \in Vm /\ Absent \in Vm
    BY AbsentFacts DEF Vm, States
  <2>2. vm \in [Hosts -> [Domains -> Vm]]
    BY <2>1 DEF Init
  <2>3. queue \in [Hosts -> Seq(Job)]
    BY DEF Init
  <2>4. ask \in [Requests -> [dom : Domains, dest : Hosts]]
    BY MigrationAssumption DEF Init
  <2>5. QED
    BY <2>2, <2>3, <2>4 DEF Init, TypeOK
<1>2. QueueInv
  BY DEF Init, QueueInv
<1>3. StageInv
  BY DEF Init, StageInv, Stage, Early, Ended
<1>4. LeftInv /\ MovedInv
  BY DEF Init, LeftInv, MovedInv
<1>5. \A d \in Domains, h \in Hosts :
          /\ h = Home[d] => vm[h][d].state = "on" /\ vm[h][d].snaps /\ vm[h][d].chain = <<>>
          /\ h # Home[d] => vm[h][d].state = "none" /\ ~vm[h][d].snaps
  BY DEF Init, Absent
<1>6. HomeInv /\ Untouched
  BY <1>5, MigrationAssumption DEF HomeInv, Untouched
<1>7. SourceInv /\ DestInv
  BY DEF Init, SourceInv, DestInv, Active, Early
<1>8. QED
  BY <1>1, <1>2, <1>3, <1>4, <1>6, <1>7 DEF IInv

LEMMA InductiveInvariant == Spec => []IInv
<1>1. Init => IInv
  BY InitIInv
<1>2. IInv /\ [Next]_vars => IInv'
  <2>1. SUFFICES ASSUME IInv, [Next]_vars PROVE IInv'
    OBVIOUS
  <2>2. TypeOK' /\ QueueInv' /\ StageInv' /\ LeftInv'
    BY <2>1, TypeStep, QueueStep, StageStep, LeftStep DEF IInv
  <2>3. HomeInv' /\ MovedInv'
    BY <2>1, HomeStep DEF IInv
  <2>4. Untouched'
    BY <2>1, UntouchedStep DEF IInv
  <2>5. SourceInv' /\ DestInv'
    BY <2>1, EndsStep DEF IInv
  <2>6. QED
    BY <2>2, <2>3, <2>4, <2>5 DEF IInv
<1>3. QED
  BY <1>1, <1>2, PTL DEF Spec

\* Domains are well formed, and a domain that no host defines any more was undefined by
\* the rollback of a request that had not migrated it: a migration does not lose its own
\* domain, wherever it fails (DomainMigrate, _rollback and RevertMigration).
THEOREM LossExplained == Spec => []Consistent
<1>1. IInv => Consistent
  <2>1. ASSUME IInv, NEW d \in Domains, \A h \in Hosts : vm[h][d].state = "none"
        PROVE  \E r \in reverted \ moved :
                  /\ Dom(r) = d
                  /\ Dest(r) = Home[d] \/ \E q \in moved : Dom(q) = d
    <3>1. Home[d] \in Hosts /\ TypeOK /\ HomeInv /\ MovedInv
      BY <2>1, MigrationAssumption DEF IInv
    <3>2. CASE \E q \in Stray(d) : Dest(q) = Home[d]
      BY <3>2 DEF Stray
    <3>3. CASE \E q \in moved : Dom(q) = d
      <4>1. PICK q \in moved : Dom(q) = d
        BY <3>3
      <4>2. Dest(q) \in Hosts
        BY <3>1, <4>1, Names DEF TypeOK
      <4>3. Stray(d) # {}
        BY <2>1, <3>1, <4>1, <4>2 DEF MovedInv, AtDest
      <4>4. QED
        BY <3>3, <4>3 DEF Stray
    <3>4. QED
      BY <2>1, <3>1, <3>2, <3>3 DEF HomeInv
  <2>2. QED
    BY <2>1 DEF IInv, Consistent, LostOnlyByStrayRollback
<1>2. QED
  BY <1>1, InductiveInvariant, PTL

\* The rollback of a migrate job never reaches a destination the domain has been
\* migrated to, and one that gets as far as calling the destination has put the disk
\* and the snapshots of the source back (_rollback of DomainMigrate).
THEOREM RollbackSafe == Spec => []RollbackIsSafe
<1>1. IInv => RollbackIsSafe
  <2> SUFFICES ASSUME IInv PROVE RollbackIsSafe
    OBVIOUS
  <2>1. RollbackSparesMoved
    BY DEF IInv, TypeOK, StageInv, Stage, Ended, RollbackSparesMoved
  <2>2. ASSUME NEW r \in Requests, pc[r] = "revert", NoRival(r)
        PROVE  AtSrc(r).state # "none" /\ AtSrc(r).snaps /\ ~Contains(AtSrc(r).chain, r)
    <3>1. SourceIs(r, AtSrc(r), kept[r], pc[r])
      BY <2>2 DEF IInv, SourceInv, Active
    <3>2. AtSrc(r).state # "none" /\ AtSrc(r).snaps /\ AtSrc(r).chain = <<>>
      BY <2>2, <3>1 DEF SourceIs
    <3>3. ~Contains(<<>>, r)
      BY DEF Contains
    <3>4. QED
      BY <3>2, <3>3
  <2>3. QED
    BY <2>1, <2>2 DEF RollbackIsSafe, RollbackRestores
<1>2. QED
  BY <1>1, InductiveInvariant, PTL

\* A migrate job that succeeds has left the source, and the domain is whole at the
\* destination: its snapshots redefined, no overlay on its disk, no file of one
\* (the end of DomainMigrate, after the finish job of FinishMigration).
THEOREM SuccessWhole == Spec => SuccessIsComplete
<1> DEFINE Whole(r) ==
        /\ AtSrc(r)'.state = "none"
        /\ AtDest(r)'.state # "none"
        /\ AtDest(r)'.snaps = kept[r].snaps
        /\ AtDest(r)'.chain = <<>>
        /\ ~tmp'[r]
<1> DEFINE Act == \A r \in Requests : pc[r] # "done" /\ pc'[r] = "done" /\ NoRival(r) => Whole(r)
<1>1. ASSUME IInv, [Next]_vars PROVE [Act]_vars
  <2>1. ASSUME NEW r \in Requests, pc[r] # "done", pc'[r] = "done", NoRival(r) PROVE Whole(r)
    <3>1. TypeOK /\ QueueInv /\ StageInv /\ DestInv
      BY <1>1 DEF IInv
    <3>2. Acts(r)
      <4>1. ASSUME NEW q \in Requests, Acts(q) PROVE q = r
        BY <2>1, <3>1, <4>1, ActsOnOwn DEF OnlyOwn
      <4>2. ASSUME NEW q \in Requests, MigrateDomain(q) PROVE FALSE
        BY <2>1, <3>1, <4>2 DEF MigrateDomain, Goto, TypeOK
      <4>3. ASSUME NEW h \in Hosts, TakeJob(h) PROVE FALSE
        BY <2>1, <3>1, <4>3 DEF TakeJob, TypeOK
      <4>4. CASE (\E h \in Hosts, e \in Domains : DomainStops(h, e)) \/ UNCHANGED vars
        BY <2>1, <4>4 DEF DomainStops, vars
      <4>5. QED
        BY <1>1, <4>1, <4>2, <4>3, <4>4, NextCases
    <3>3. Undefine(r)
      <4>1. ~(StartMigrate(r) \/ CheckCanMigrate(r) \/ CopyImages(r) \/ PrepareMigration(r)
              \/ SendFinish(r) \/ FinishReplied(r) \/ PollFinish(r) \/ QueryFails(r))
        BY <2>1, <3>1 DEF StartMigrate, CheckCanMigrate, CopyImages, PrepareMigration,
                          SendFinish, FinishReplied, PollFinish, QueryFails, Goto, TypeOK
      <4>2. ~(BackupDeleteSnapshots(r) \/ CreateTmpSnapshot(r) \/ BeginMigrate(r) \/ EndMigrate(r))
        BY <2>1, <3>1 DEF BackupDeleteSnapshots, CreateTmpSnapshot, BeginMigrate, EndMigrate,
                          Goto, TypeOK
      <4>3. ~(RollbackCommit(r) \/ RollbackPivot(r) \/ RestoreSnapshots(r) \/ RevertMigration(r))
        BY <2>1, <3>1 DEF RollbackCommit, RollbackPivot, RestoreSnapshots, RevertMigration,
                          Goto, TypeOK
      <4>4. ~(FinishJob(r) \/ MonitorEnds(r))
        BY <2>1 DEF FinishJob, FinishCommit, FinishPivot, FinishSnapshots, MonitorEnds
      <4>5. QED
        BY <3>2, <4>1, <4>2, <4>3, <4>4 DEF Acts, MigrateJob
    <3>4. /\ pc[r] = "undefine" /\ SetSrc(r, Absent)
          /\ UNCHANGED <<ask, tmp, kept>>
      BY <2>1, <3>1, <3>3 DEF Undefine, Goto, TypeOK
    <3>5. r \in moved /\ fin[r] = "ok" /\ Src(r) # Dest(r)
      BY <3>1, <3>4 DEF StageInv, Stage
    <3>6. Arrived(r, AtDest(r), kept[r], tmp[r], "ok")
      BY <2>1, <3>1, <3>4, <3>5 DEF DestInv
    <3>7. AtSrc(r)' = Absent /\ AtDest(r)' = AtDest(r)
      BY <3>1, <3>4, <3>5, Names, SetVmFacts DEF SetSrc, AtSrc, AtDest, Src, Dest, Dom
    <3>8. AtDest(r).snaps \in BOOLEAN /\ kept[r].snaps \in BOOLEAN
      BY <3>1, Names, VmFacts DEF TypeOK
    <3>9. AtDest(r).snaps = kept[r].snaps
      BY <3>6, <3>8 DEF Arrived
    <3>10. QED
      BY <3>4, <3>6, <3>7, <3>9, AbsentFacts DEF Arrived
  <2>2. QED
    BY <2>1
<1>2. IInv /\ [Next]_vars => [Act]_vars
  BY <1>1
<1>3. QED
  BY <1>2, InductiveInvariant, PTL DEF Spec, SuccessIsComplete
=============================================================================
