-------------------------- MODULE DataStoreProofs ---------------------------
(***************************************************************************)
(* DataStore, for any number of threads, names, disks and targets: the     *)
(* list, the files and the sections agree unless requests for one name ran *)
(* side by side or storeagent was restarted, the answers of undisturbed    *)
(* requests are true, and no file is overwritten.                          *)
(***************************************************************************)
EXTENDS DataStore, SequenceTheorems, TLAPS

Left(op, i) == SubSeq(Steps[op], i, Len(Steps[op]))
Plans(op) == {Left(op, i) : i \in 1..(Len(Steps[op]) + 1)}

\* What TypeOK says of the calls, and the rest of their fields.
Part == [listed : BOOLEAN, xml : Sources \cup {NoFile, Torn}, conf : Sections,
         mounted : Disks \cup {NoDisk}]
CallType == [op : Ops, name : Names \cup {NoName}, src : Sources \cup {NoDisk},
             todo : UNION {Plans(op) : op \in Ops}, scan : SUBSET Names,
             failed : BOOLEAN, ok : Answers, before : Part]
CallsOK == call \in [Callers -> CallType]

\* A request follows its plan.
PlanInv ==
    \A c \in Callers :
        /\ call[c].todo \in Plans(call[c].op)
        /\ ~IsIdle(c) => call[c].name \in Names
        /\ call[c].op = "CreateLocal" => call[c].src \in Disks
        /\ call[c].op = "CreateBlock" => call[c].src \in Targets

\* Two requests under way that get in each other's way are known to.
DirtyInv ==
    \A c, d \in Callers : c # d /\ ~IsIdle(c) /\ ~IsIdle(d) =>
        /\ call[c].name = call[d].name => call[c].name \in dirty
        /\ /\ call[c].op = "CreateBlock" /\ call[d].op = "CreateBlock"
           /\ call[c].src = call[d].src
           => call[c].name \in dirty /\ call[d].name \in dirty

Doing(c) == Head(call[c].todo)
Checking == {"NotListed", "NoFile"}
Creations == {"CreateLocal", "CreateBlock"}

\* A name that a restart or a failed deletion has dropped keeps its file, and no
\* request gets past the checks of the list and the file.
OrphanInv ==
    \A n \in orphans :
        /\ xml[n] # NoFile /\ n \notin list
        /\ \A c \in Callers : ~IsIdle(c) /\ call[c].name = n =>
              /\ call[c].op \in Creations => Doing(c) \in Checking
              /\ call[c].op = "DeleteLocal" => Doing(c) = "Pop"

\* The parts of a name that no request is changing: whether it is in the list and
\* among the orphans, its file and its section, which may be gone.
Whole(listed, file, section, orphan, gone) ==
    IF listed THEN file \in Disks /\ (section.state # "none" \/ gone)
    ELSE orphan \/ (file \in Targets \cup {NoFile, Torn} /\ section = NoSection)

\* The parts of a name that the request r has under way, at its step s.
StageOf(r, s, listed, file, section, orphan, gone) ==
    LET bare == ~listed /\ section = NoSection
    IN  /\ r.op \in Creations =>
             /\ s = "NotListed" => Whole(listed, file, section, orphan, gone)
             /\ s = "NoFile" => Whole(listed, file, section, orphan, gone) /\ ~listed
             /\ s \in {"DiskIsFree", "ListDir", "Scan", "Open"} => bare /\ file = NoFile
             /\ s = "Write" => bare /\ file = Torn
             /\ s \in {"Append", "AppendString"} => bare /\ file = r.src
             /\ s = "SetState" => listed /\ file \in Disks
             /\ s \in {"SetTitle", "SetAuto"} =>
                   listed /\ file \in Disks /\ (section.state # "none" \/ gone)
        /\ r.op = "DeleteLocal" =>
             /\ s = "Pop" => Whole(listed, file, section, orphan, gone)
             /\ s \in {"HasFile", "DeleteSection"} => ~listed /\ file \in Disks
             /\ s = "RemoveFile" => bare /\ file \in Disks
        /\ r.op \notin Creations \cup {"DeleteLocal"} =>
             /\ Whole(listed, file, section, orphan, gone)
             /\ s \in {"Mount", "NotBusy", "Umount"} => r.src \in Sources /\ r.src = file
             /\ s \in {"SetActive", "SetInactive"} => listed \/ orphan
StageNow(c) == LET n == call[c].name
               IN  StageOf(call[c], Doing(c), n \in list, xml[n], conf[n], n \in orphans,
                           n \in unwritten)
WholeNow(n) == Whole(n \in list, xml[n], conf[n], n \in orphans, n \in unwritten)
StageInv ==
    /\ \A c \in Callers : ~IsIdle(c) /\ call[c].name \notin dirty => StageNow(c)
    /\ \A n \in Names \ dirty : Quiet(n) => WholeNow(n)

\* The creation of a block store has met every file with its target, or is going to.
MeetsAll(c) ==
    \A m \in Names \ dirty : m # call[c].name /\ xml[m] = call[c].src =>
        \/ Doing(c) \in Checking \cup {"ListDir"}
        \/ Doing(c) = "Scan" /\ m \in call[c].scan
TargetInv ==
    /\ OneStorePerTarget
    /\ \A c \in Callers :
          ~IsIdle(c) /\ call[c].op = "CreateBlock" /\ call[c].name \notin dirty => MeetsAll(c)

\* An undisturbed request has the store to itself.
AloneInv == \A c \in alone : \A d \in Callers \ {c} : IsIdle(d)

\* Nothing is mounted from src.
Unmounted(src) == \A m \in Names : mounted[m] # src

\* The parts of the name n are those of b, but for the XML file, which is file;
\* Kept leaves out whether n is in the list.
Kept(n, b, file) == xml[n] = file /\ conf[n] = b.conf /\ mounted[n] = b.mounted
ButFile(n, b, file) == (n \in list <=> b.listed) /\ Kept(n, b, file)

\* What an undisturbed request r has done when it is at its step s.
DoneOf(r, s) ==
    LET n == r.name
        b == r.before
    IN  /\ r.op = "CreateLocal" =>
             /\ s \in Checking \cup {"DiskIsFree", "Open"} => ButFile(n, b, b.xml)
             /\ s = "Write" => ButFile(n, b, Torn)
             /\ s \in {"Append", "SetState", "SetTitle", "SetAuto"} => xml[n] = r.src
             /\ s \in {"Append", "SetState"} => conf[n] = b.conf
             /\ s \in {"NoFile", "DiskIsFree", "Open", "Write", "Append"} => n \notin list
             /\ s \in {"SetState", "SetTitle", "SetAuto"} => n \in list
             /\ s \in {"SetTitle", "SetAuto"} =>
                   conf[n] = IF r.failed THEN NoSection ELSE [b.conf EXCEPT !.state = "inactive"]
             /\ s \notin {"SetTitle", "SetAuto"} => ~r.failed
             /\ s \notin Checking \cup {"DiskIsFree"} => Unmounted(r.src)
        /\ r.op = "CreateBlock" =>
             /\ s \in Checking \cup {"ListDir", "Scan", "Open"} => ButFile(n, b, b.xml)
             /\ s = "Write" => ButFile(n, b, Torn)
             /\ s = "AppendString" => ButFile(n, b, r.src)
             /\ ~r.failed
        /\ r.op = "DeleteLocal" =>
             /\ s = "Pop" => ButFile(n, b, b.xml)
             /\ s \in {"HasFile", "DeleteSection"} => n \notin list /\ Kept(n, b, b.xml)
             /\ s \in {"DeleteSection", "RemoveFile"} => xml[n] # NoFile
             /\ s = "RemoveFile" => /\ n \notin list /\ xml[n] = b.xml /\ conf[n] = NoSection
                                    /\ mounted[n] = b.mounted
        /\ r.op \notin Creations \cup {"DeleteLocal"} =>
             /\ s = "SetActive" => mounted[n] = IF conf[n].auto THEN b.mounted ELSE r.src
             /\ s = "SetInactive" => mounted[n] = IF conf[n].auto THEN b.mounted ELSE NoDisk
             /\ s \in {"SetActive", "SetInactive"} =>
                   (n \in list <=> b.listed) /\ xml[n] = b.xml /\ conf[n] = b.conf
             /\ s \notin {"SetActive", "SetInactive"} => ButFile(n, b, b.xml)
             /\ ~r.failed
DoneInv ==
    /\ \A c \in alone : ~IsIdle(c) => DoneOf(call[c], Doing(c))
    /\ AnswersAreTrue

IInv == /\ TypeOK /\ CallsOK /\ PlanInv /\ DirtyInv /\ OrphanInv /\ StageInv /\ TargetInv
        /\ AloneInv /\ DoneInv

-----------------------------------------------------------------------------
(* Plans.                                                                  *)

\* The step that comes after step s of a request: "end" after the last one.
Follows(op, s, next) ==
    CASE op = "CreateLocal" ->
           \/ s = "NotListed" /\ next = "NoFile"
           \/ s = "NoFile" /\ next = "DiskIsFree"
           \/ s = "DiskIsFree" /\ next = "Open"
           \/ s = "Open" /\ next = "Write"
           \/ s = "Write" /\ next = "Append"
           \/ s = "Append" /\ next = "SetState"
           \/ s = "SetState" /\ next = "SetTitle"
           \/ s = "SetTitle" /\ next = "SetAuto"
           \/ s = "SetAuto" /\ next = "end"
      [] op = "CreateBlock" ->
           \/ s = "NotListed" /\ next = "NoFile"
           \/ s = "NoFile" /\ next = "ListDir"
           \/ s = "ListDir" /\ next = "Scan"
           \/ s = "Scan" /\ next = "Open"
           \/ s = "Open" /\ next = "Write"
           \/ s = "Write" /\ next = "AppendString"
           \/ s = "AppendString" /\ next = "end"
      [] op = "DeleteLocal" ->
           \/ s = "Pop" /\ next = "HasFile"
           \/ s = "HasFile" /\ next = "DeleteSection"
           \/ s = "DeleteSection" /\ next = "RemoveFile"
           \/ s = "RemoveFile" /\ next = "end"
      [] op = "DeleteBlock" ->
           \/ s = "HasFile" /\ next = "RefuseDelete"
           \/ s = "RefuseDelete" /\ next = "end"
      [] op = "StartLocal" ->
           \/ s = "HasFile" /\ next = "ReadFile"
           \/ s = "ReadFile" /\ next = "Mount"
           \/ s = "Mount" /\ next = "SetActive"
           \/ s = "SetActive" /\ next = "end"
      [] op = "StopLocal" ->
           \/ s = "HasFile" /\ next = "ReadFile"
           \/ s = "ReadFile" /\ next = "NotBusy"
           \/ s = "NotBusy" /\ next = "Umount"
           \/ s = "Umount" /\ next = "SetInactive"
           \/ s = "SetInactive" /\ next = "end"
      [] op \in {"StartBlock", "StopBlock"} ->
           \/ s = "HasFile" /\ next = "Raise"
           \/ s = "Raise" /\ next = "end"

AllOps == {"CreateLocal", "CreateBlock", "DeleteLocal", "DeleteBlock", "StartLocal", "StopLocal",
           "StartBlock", "StopBlock"}

LEMMA OpsAre == Ops = AllOps
  BY DEF Ops, AllOps, Steps

LEMMA StepsAre ==
    /\ Steps["CreateLocal"] = CreateLocalStore /\ Steps["CreateBlock"] = CreateBlockStore
    /\ Steps["DeleteLocal"] = DeleteLocalStore /\ Steps["DeleteBlock"] = DeleteBlockStore
    /\ Steps["StartLocal"] = StartLocalStore /\ Steps["StopLocal"] = StopLocalStore
    /\ Steps["StartBlock"] = StartBlockStore /\ Steps["StopBlock"] = StopBlockStore
  BY DEF Steps

StepAt(op, i) == IF i = Len(Steps[op]) + 1 THEN "end" ELSE Steps[op][i]

StepNames == {"NotListed", "NoFile", "DiskIsFree", "ListDir", "Scan", "Open", "Write", "Append",
              "AppendString", "SetState", "SetTitle", "SetAuto", "Pop", "HasFile", "DeleteSection",
              "RemoveFile", "RefuseDelete", "ReadFile", "Mount", "SetActive", "NotBusy", "Umount",
              "SetInactive", "Raise"}

LEMMA Tuples ==
    /\ \A S : \A a, b \in S : <<a, b>> \in Seq(S)
    /\ \A S : \A a, b, c, d \in S : <<a, b, c, d>> \in Seq(S)
    /\ \A S : \A a, b, c, d, e \in S : <<a, b, c, d, e>> \in Seq(S)
    /\ \A S : \A a, b, c, d, e, f, g \in S : <<a, b, c, d, e, f, g>> \in Seq(S)
    /\ \A S : \A a, b, c, d, e, f, g, h, i \in S : <<a, b, c, d, e, f, g, h, i>> \in Seq(S)
  OBVIOUS

LEMMA StepTable ==
    ASSUME NEW op \in Ops
    PROVE  /\ Steps[op] \in Seq(StepNames) /\ Len(Steps[op]) \in Nat \ {0}
           /\ \A i \in 1..Len(Steps[op]) : Follows(op, Steps[op][i], StepAt(op, i + 1))
           /\ Steps[op][1] = CASE op \in Creations -> "NotListed"
                               [] op = "DeleteLocal" -> "Pop"
                               [] OTHER -> "HasFile"
<1>1. CASE op = "CreateLocal"
  <2>1. Steps[op] = CreateLocalStore /\ Len(CreateLocalStore) = 9
    BY <1>1, StepsAre DEF CreateLocalStore
  <2>2. /\ CreateLocalStore[1] = "NotListed" /\ CreateLocalStore[2] = "NoFile" /\ CreateLocalStore[3] = "DiskIsFree"
        /\ CreateLocalStore[4] = "Open" /\ CreateLocalStore[5] = "Write" /\ CreateLocalStore[6] = "Append"
        /\ CreateLocalStore[7] = "SetState" /\ CreateLocalStore[8] = "SetTitle" /\ CreateLocalStore[9] = "SetAuto"
    BY DEF CreateLocalStore
  <2>3. /\ "NotListed" \in StepNames /\ "NoFile" \in StepNames /\ "DiskIsFree" \in StepNames
        /\ "Open" \in StepNames /\ "Write" \in StepNames /\ "Append" \in StepNames
        /\ "SetState" \in StepNames /\ "SetTitle" \in StepNames /\ "SetAuto" \in StepNames
    BY Zenon DEF StepNames
  <2>4. CreateLocalStore \in Seq(StepNames)
    BY <2>3, Tuples, Zenon DEF CreateLocalStore
  <2>5. ASSUME NEW i \in 1..9
        PROVE  Follows("CreateLocal", CreateLocalStore[i], IF i = 9 THEN "end" ELSE CreateLocalStore[i + 1])
    <3>1. i = 1 \/ i = 2 \/ i = 3 \/ i = 4 \/ i = 5 \/ i = 6 \/ i = 7 \/ i = 8 \/ i = 9
      OBVIOUS
    <3>2. QED
      BY <2>2, <3>1 DEF Follows
  <2>6. ASSUME NEW i \in 1..9
        PROVE  StepAt(op, i + 1) = IF i = 9 THEN "end" ELSE CreateLocalStore[i + 1]
    BY <2>1 DEF StepAt
  <2>7. \A i \in 1..9 : Follows(op, Steps[op][i], StepAt(op, i + 1))
    BY <1>1, <2>1, <2>5, <2>6
  <2>8. QED
    BY <1>1, <2>1, <2>2, <2>4, <2>7 DEF Creations
<1>2. CASE op = "CreateBlock"
  <2>1. Steps[op] = CreateBlockStore /\ Len(CreateBlockStore) = 7
    BY <1>2, StepsAre DEF CreateBlockStore
  <2>2. /\ CreateBlockStore[1] = "NotListed" /\ CreateBlockStore[2] = "NoFile" /\ CreateBlockStore[3] = "ListDir"
        /\ CreateBlockStore[4] = "Scan" /\ CreateBlockStore[5] = "Open" /\ CreateBlockStore[6] = "Write"
        /\ CreateBlockStore[7] = "AppendString"
    BY DEF CreateBlockStore
  <2>3. /\ "NotListed" \in StepNames /\ "NoFile" \in StepNames /\ "ListDir" \in StepNames
        /\ "Scan" \in StepNames /\ "Open" \in StepNames /\ "Write" \in StepNames
        /\ "AppendString" \in StepNames
    BY Zenon DEF StepNames
  <2>4. CreateBlockStore \in Seq(StepNames)
    BY <2>3, Tuples, Zenon DEF CreateBlockStore
  <2>5. ASSUME NEW i \in 1..7
        PROVE  Follows("CreateBlock", CreateBlockStore[i], IF i = 7 THEN "end" ELSE CreateBlockStore[i + 1])
    <3>1. i = 1 \/ i = 2 \/ i = 3 \/ i = 4 \/ i = 5 \/ i = 6 \/ i = 7
      OBVIOUS
    <3>2. QED
      BY <2>2, <3>1 DEF Follows
  <2>6. ASSUME NEW i \in 1..7
        PROVE  StepAt(op, i + 1) = IF i = 7 THEN "end" ELSE CreateBlockStore[i + 1]
    BY <2>1 DEF StepAt
  <2>7. \A i \in 1..7 : Follows(op, Steps[op][i], StepAt(op, i + 1))
    BY <1>2, <2>1, <2>5, <2>6
  <2>8. QED
    BY <1>2, <2>1, <2>2, <2>4, <2>7 DEF Creations
<1>3. CASE op = "DeleteLocal"
  <2>1. Steps[op] = DeleteLocalStore /\ Len(DeleteLocalStore) = 4
    BY <1>3, StepsAre DEF DeleteLocalStore
  <2>2. /\ DeleteLocalStore[1] = "Pop" /\ DeleteLocalStore[2] = "HasFile" /\ DeleteLocalStore[3] = "DeleteSection"
        /\ DeleteLocalStore[4] = "RemoveFile"
    BY DEF DeleteLocalStore
  <2>3. /\ "Pop" \in StepNames /\ "HasFile" \in StepNames /\ "DeleteSection" \in StepNames
        /\ "RemoveFile" \in StepNames
    BY Zenon DEF StepNames
  <2>4. DeleteLocalStore \in Seq(StepNames)
    BY <2>3, Tuples, Zenon DEF DeleteLocalStore
  <2>5. ASSUME NEW i \in 1..4
        PROVE  Follows("DeleteLocal", DeleteLocalStore[i], IF i = 4 THEN "end" ELSE DeleteLocalStore[i + 1])
    <3>1. i = 1 \/ i = 2 \/ i = 3 \/ i = 4
      OBVIOUS
    <3>2. QED
      BY <2>2, <3>1 DEF Follows
  <2>6. ASSUME NEW i \in 1..4
        PROVE  StepAt(op, i + 1) = IF i = 4 THEN "end" ELSE DeleteLocalStore[i + 1]
    BY <2>1 DEF StepAt
  <2>7. \A i \in 1..4 : Follows(op, Steps[op][i], StepAt(op, i + 1))
    BY <1>3, <2>1, <2>5, <2>6
  <2>8. QED
    BY <1>3, <2>1, <2>2, <2>4, <2>7 DEF Creations
<1>4. CASE op = "StartLocal"
  <2>1. Steps[op] = StartLocalStore /\ Len(StartLocalStore) = 4
    BY <1>4, StepsAre DEF StartLocalStore
  <2>2. /\ StartLocalStore[1] = "HasFile" /\ StartLocalStore[2] = "ReadFile" /\ StartLocalStore[3] = "Mount"
        /\ StartLocalStore[4] = "SetActive"
    BY DEF StartLocalStore
  <2>3. /\ "HasFile" \in StepNames /\ "ReadFile" \in StepNames /\ "Mount" \in StepNames
        /\ "SetActive" \in StepNames
    BY Zenon DEF StepNames
  <2>4. StartLocalStore \in Seq(StepNames)
    BY <2>3, Tuples, Zenon DEF StartLocalStore
  <2>5. ASSUME NEW i \in 1..4
        PROVE  Follows("StartLocal", StartLocalStore[i], IF i = 4 THEN "end" ELSE StartLocalStore[i + 1])
    <3>1. i = 1 \/ i = 2 \/ i = 3 \/ i = 4
      OBVIOUS
    <3>2. QED
      BY <2>2, <3>1 DEF Follows
  <2>6. ASSUME NEW i \in 1..4
        PROVE  StepAt(op, i + 1) = IF i = 4 THEN "end" ELSE StartLocalStore[i + 1]
    BY <2>1 DEF StepAt
  <2>7. \A i \in 1..4 : Follows(op, Steps[op][i], StepAt(op, i + 1))
    BY <1>4, <2>1, <2>5, <2>6
  <2>8. QED
    BY <1>4, <2>1, <2>2, <2>4, <2>7 DEF Creations
<1>5. CASE op = "StopLocal"
  <2>1. Steps[op] = StopLocalStore /\ Len(StopLocalStore) = 5
    BY <1>5, StepsAre DEF StopLocalStore
  <2>2. /\ StopLocalStore[1] = "HasFile" /\ StopLocalStore[2] = "ReadFile" /\ StopLocalStore[3] = "NotBusy"
        /\ StopLocalStore[4] = "Umount" /\ StopLocalStore[5] = "SetInactive"
    BY DEF StopLocalStore
  <2>3. /\ "HasFile" \in StepNames /\ "ReadFile" \in StepNames /\ "NotBusy" \in StepNames
        /\ "Umount" \in StepNames /\ "SetInactive" \in StepNames
    BY Zenon DEF StepNames
  <2>4. StopLocalStore \in Seq(StepNames)
    BY <2>3, Tuples, Zenon DEF StopLocalStore
  <2>5. ASSUME NEW i \in 1..5
        PROVE  Follows("StopLocal", StopLocalStore[i], IF i = 5 THEN "end" ELSE StopLocalStore[i + 1])
    <3>1. i = 1 \/ i = 2 \/ i = 3 \/ i = 4 \/ i = 5
      OBVIOUS
    <3>2. QED
      BY <2>2, <3>1 DEF Follows
  <2>6. ASSUME NEW i \in 1..5
        PROVE  StepAt(op, i + 1) = IF i = 5 THEN "end" ELSE StopLocalStore[i + 1]
    BY <2>1 DEF StepAt
  <2>7. \A i \in 1..5 : Follows(op, Steps[op][i], StepAt(op, i + 1))
    BY <1>5, <2>1, <2>5, <2>6
  <2>8. QED
    BY <1>5, <2>1, <2>2, <2>4, <2>7 DEF Creations
<1>6. CASE op \in {"DeleteBlock", "StartBlock", "StopBlock"}
  <2>1. PICK last \in {"RefuseDelete", "Raise"} :
            Steps[op] = <<"HasFile", last>> /\ (last = "RefuseDelete" <=> op = "DeleteBlock")
    BY <1>6, StepsAre DEF DeleteBlockStore, StartBlockStore, StopBlockStore
  <2>2. Len(Steps[op]) = 2 /\ Steps[op][1] = "HasFile"
    BY <2>1
  <2>3. "HasFile" \in StepNames /\ last \in StepNames
    BY Zenon, <2>1 DEF StepNames
  <2>4. Steps[op] \in Seq(StepNames)
    BY <2>1, <2>3, Tuples, Zenon
  <2>5. Follows(op, "HasFile", last) /\ Follows(op, last, "end")
    BY <1>6, <2>1 DEF Follows
  <2>6. StepAt(op, 2) = last /\ StepAt(op, 3) = "end" /\ Steps[op][2] = last
    BY <2>1, <2>2 DEF StepAt
  <2>7. \A i \in 1..2 : i = 1 \/ i = 2
    OBVIOUS
  <2>8. QED
    BY <1>6, <2>2, <2>5, <2>6, <2>7, <2>4 DEF Creations
<1>7. QED
  BY <1>1, <1>2, <1>3, <1>4, <1>5, <1>6, OpsAre DEF AllOps

\* Where a plan goes on.
NextOf(todo) == IF Tail(todo) = <<>> THEN "end" ELSE Head(Tail(todo))

LEMMA PlanFacts ==
    ASSUME NEW op \in Ops, NEW todo \in Plans(op), todo # <<>>
    PROVE  /\ Tail(todo) \in Plans(op) /\ Follows(op, Head(todo), NextOf(todo))
           /\ Len(todo) = 1 <=> Tail(todo) = <<>>
<1> DEFINE N == Len(Steps[op])
<1>1. Steps[op] \in Seq(StepNames) /\ N \in Nat \ {0}
  BY StepTable
<1>2. PICK i \in 1..(N + 1) : todo = SubSeq(Steps[op], i, N)
  BY DEF Plans, Left
<1>3. ASSUME NEW j \in 1..(N + 1)
      PROVE  /\ SubSeq(Steps[op], j, N) = <<>> <=> j = N + 1
             /\ j # N + 1 => /\ Head(SubSeq(Steps[op], j, N)) = Steps[op][j]
                             /\ Tail(SubSeq(Steps[op], j, N)) = SubSeq(Steps[op], j + 1, N)
                             /\ Len(SubSeq(Steps[op], j, N)) = N - j + 1
  <2>1. CASE j = N + 1
    BY <1>1, <2>1, SubSeqEmpty
  <2>2. CASE j \in 1..N
    <3>1. \A k \in j..N : Steps[op][k] \in StepNames
      BY <1>1, ElementOfSeq
    <3>2. Len(SubSeq(Steps[op], j, N)) = N - j + 1
      BY <1>1, <2>2, <3>1, SubSeqProperties
    <3>3. /\ Head(SubSeq(Steps[op], j, N)) = Steps[op][j]
          /\ Tail(SubSeq(Steps[op], j, N)) = SubSeq(Steps[op], j + 1, N)
      <4>1. N \in j..Len(Steps[op]) /\ j \in 1..Len(Steps[op])
        BY <1>1, <2>2
      <4>2. QED
        BY <1>1, <4>1, HeadTailOfSubSeq
    <3>4. SubSeq(Steps[op], j, N) # <<>>
      <4>1. N - j + 1 # 0
        BY <1>1, <2>2
      <4>2. Len(<<>>) = 0
        OBVIOUS
      <4>3. QED
        BY <3>2, <4>1, <4>2, Zenon
    <3>5. j # N + 1
      BY <1>1, <2>2
    <3>6. QED
      BY <3>2, <3>3, <3>4, <3>5, Zenon
  <2>3. QED
    BY <1>1, <2>1, <2>2
<1>4. i \in 1..N /\ i + 1 \in 1..(N + 1)
  BY <1>1, <1>2, <1>3
<1>5. Tail(todo) = SubSeq(Steps[op], i + 1, N) /\ Head(todo) = Steps[op][i] /\ Len(todo) = N - i + 1
  BY <1>2, <1>3, <1>4
<1>6. Tail(todo) = <<>> <=> i + 1 = N + 1
  BY <1>3, <1>4, <1>5
<1>7. NextOf(todo) = StepAt(op, i + 1)
  BY <1>3, <1>4, <1>5, <1>6 DEF NextOf, StepAt
<1>8. Tail(todo) \in Plans(op)
  BY <1>4, <1>5 DEF Plans, Left
<1>9. Follows(op, Head(todo), NextOf(todo))
  BY <1>4, <1>5, <1>7, StepTable
<1>10. QED
  BY <1>1, <1>4, <1>5, <1>6, <1>8, <1>9

LEMMA PlanStarts ==
    ASSUME NEW op \in Ops
    PROVE  /\ Steps[op] \in Plans(op) /\ Steps[op] # <<>> /\ <<>> \in Plans(op)
           /\ Head(Steps[op]) = CASE op \in Creations -> "NotListed"
                                  [] op = "DeleteLocal" -> "Pop"
                                  [] OTHER -> "HasFile"
<1>1. Steps[op] \in Seq(StepNames) /\ Len(Steps[op]) \in Nat \ {0}
  BY StepTable
<1>2. SubSeq(Steps[op], 1, Len(Steps[op])) = Steps[op]
  BY <1>1, SubSeqFull
<1>3. SubSeq(Steps[op], Len(Steps[op]) + 1, Len(Steps[op])) = <<>>
  BY <1>1, SubSeqEmpty
<1>4. Steps[op] \in Plans(op) /\ <<>> \in Plans(op)
  BY <1>1, <1>2, <1>3 DEF Plans, Left
<1>5. Steps[op] # <<>> /\ Head(Steps[op]) = Steps[op][1]
  BY <1>1
<1>6. QED
  BY <1>4, <1>5, StepTable

-----------------------------------------------------------------------------
(* What a step of a request does.                                          *)

Acts(c) ==
    \/ NotListed(c) \/ NoFileYet(c) \/ HasFile(c) \/ DiskIsFree(c)
    \/ ListDir(c) \/ Scan(c) \/ AppendEntry(c) \/ AppendString(c) \/ Pop(c)
    \/ RefuseDelete(c) \/ Raise(c)
    \/ OpenFile(c) \/ WriteFile(c) \/ ReadFile(c) \/ RemoveFile(c)
    \/ ChangeSection(c) \/ Mount(c) \/ NotBusy(c) \/ Umount(c) \/ Fail(c) \/ LoseSections(c)

\* The request of c has been answered.
Ended(c, answer, failed) ==
    /\ call' \in [Callers -> CallType] /\ \A d \in Callers \ {c} : call'[d] = call[d]
    /\ call'[c].todo = <<>> /\ call'[c].ok = answer
    /\ IF c \in alone
       THEN /\ call'[c].op = call[c].op /\ call'[c].name = call[c].name
            /\ call'[c].src = call[c].src /\ call'[c].before = call[c].before
            /\ call'[c].failed = failed
       ELSE call'[c].op = "StopBlock"

\* It goes on to its next step, with this source and these files to read.
Continues(c, src, scan, failed) ==
    /\ call' \in [Callers -> CallType] /\ \A d \in Callers \ {c} : call'[d] = call[d]
    /\ call'[c].todo = Tail(call[c].todo) /\ call'[c].todo # <<>>
    /\ call'[c].op = call[c].op /\ call'[c].name = call[c].name
    /\ call'[c].before = call[c].before /\ call'[c].failed = failed
    /\ call'[c].src = src /\ call'[c].scan = scan

\* It stays at its step, with fewer files to read.
Reads(c, scan) ==
    /\ call' \in [Callers -> CallType] /\ \A d \in Callers \ {c} : call'[d] = call[d]
    /\ call'[c].todo = call[c].todo
    /\ call'[c].op = call[c].op /\ call'[c].name = call[c].name
    /\ call'[c].before = call[c].before /\ call'[c].failed = call[c].failed
    /\ call'[c].src = call[c].src /\ call'[c].scan = scan

\* It goes on, or has been done.
Goes(c, failed) ==
    IF Tail(call[c].todo) = <<>> THEN Ended(c, "STORE_OK", failed)
    ELSE Continues(c, call[c].src, call[c].scan, failed)

Refusals == Answers \ {"none", "STORE_OK"}

LEMMA CallIs ==
    ASSUME CallsOK, PlanInv, NEW c \in Callers
    PROVE  /\ call[c] \in CallType /\ call[c].op \in Ops /\ call[c].todo \in Plans(call[c].op)
           /\ call[c].src \in Sources \cup {NoDisk} /\ call[c].scan \in SUBSET Names
           /\ call[c].name \in Names \cup {NoName} /\ call[c].failed \in BOOLEAN
           /\ call[c].ok \in Answers /\ call[c].before \in Part
           /\ ~IsIdle(c) => /\ call[c].name \in Names
                            /\ Tail(call[c].todo) \in Plans(call[c].op)
                            /\ Follows(call[c].op, Doing(c), NextOf(call[c].todo))
                            /\ Len(call[c].todo) = 1 <=> Tail(call[c].todo) = <<>>
<1>1. /\ call[c] \in CallType /\ call[c].op \in Ops /\ call[c].todo \in Plans(call[c].op)
      /\ call[c].src \in Sources \cup {NoDisk} /\ call[c].scan \in SUBSET Names
      /\ call[c].name \in Names \cup {NoName} /\ call[c].failed \in BOOLEAN
      /\ call[c].ok \in Answers /\ call[c].before \in Part
  BY DEF CallsOK, CallType, PlanInv
<1>2. ASSUME ~IsIdle(c)
      PROVE  /\ call[c].name \in Names
             /\ Tail(call[c].todo) \in Plans(call[c].op)
             /\ Follows(call[c].op, Doing(c), NextOf(call[c].todo))
             /\ Len(call[c].todo) = 1 <=> Tail(call[c].todo) = <<>>
  <2>1. call[c].name \in Names
    BY <1>1, <1>2 DEF PlanInv
  <2>2. call[c].todo # <<>>
    BY <1>2 DEF IsIdle
  <2>3. QED
    BY <1>1, <2>1, <2>2, PlanFacts DEF Doing
<1>3. QED
  BY <1>1, <1>2

LEMMA IdleIs == Idle \in CallType /\ Unknown \in Part
<1>1. NoSection \in Sections
  BY DEF NoSection, Sections
<1>2. Unknown \in Part
  BY <1>1 DEF Unknown, Part
<1>3. "StopBlock" \in Ops /\ <<>> \in Plans("StopBlock")
  BY OpsAre, PlanStarts DEF AllOps
<1>4. QED
  BY <1>2, <1>3 DEF Idle, CallType, Answers

\* The request of c, with this failure.
With(c, failed) == [call[c] EXCEPT !.failed = failed]

LEMMA WithIs ==
    ASSUME CallsOK, PlanInv, NEW c \in Callers
    PROVE  With(c, call[c].failed) = call[c] /\ With(c, TRUE) = Failed(c)
  BY CallIs DEF CallType, With, Failed

LEMMA EndFacts ==
    ASSUME CallsOK, PlanInv, NEW c \in Callers, ~IsIdle(c), NEW answer \in Answers,
           NEW failed \in BOOLEAN, EndAs(c, With(c, failed), answer)
    PROVE  Ended(c, answer, failed)
<1> DEFINE v == [With(c, failed) EXCEPT !.todo = <<>>, !.scan = {}, !.ok = answer]
           w == [Idle EXCEPT !.ok = answer]
<1>1. call[c] \in CallType /\ call[c].op \in Ops
  BY CallIs
<1>2. <<>> \in UNION {Plans(op) : op \in Ops}
  BY <1>1, PlanStarts
<1>3. v \in CallType
  BY <1>1, <1>2 DEF CallType, With
<1>4. /\ v.todo = <<>> /\ v.ok = answer /\ v.op = call[c].op /\ v.name = call[c].name
      /\ v.src = call[c].src /\ v.before = call[c].before /\ v.failed = failed
  BY <1>1 DEF CallType, With
<1>5. w \in CallType
  BY IdleIs DEF CallType
<1>6. w.todo = <<>> /\ w.ok = answer /\ w.op = "StopBlock"
  BY DEF Idle
<1>7. call' = [call EXCEPT ![c] = IF c \in alone THEN v ELSE w]
  BY DEF EndAs
<1> HIDE DEF v, w
<1>8. /\ call' \in [Callers -> CallType] /\ \A d \in Callers \ {c} : call'[d] = call[d]
      /\ call'[c] = IF c \in alone THEN v ELSE w
  BY <1>3, <1>5, <1>7 DEF CallsOK
<1>9. QED
  BY <1>4, <1>6, <1>8 DEF Ended

LEMMA AnswerFacts ==
    ASSUME CallsOK, PlanInv, NEW c \in Callers, ~IsIdle(c), NEW answer \in Answers, Answer(c, answer)
    PROVE  Ended(c, answer, call[c].failed)
  BY CallIs, WithIs, EndFacts DEF Answer

LEMMA MoveFacts ==
    ASSUME CallsOK, PlanInv, NEW c \in Callers, ~IsIdle(c), Tail(call[c].todo) # <<>>,
           NEW src \in Sources \cup {NoDisk}, NEW scan \in SUBSET Names, NEW failed \in BOOLEAN,
           call' = [call EXCEPT ![c] = [call[c] EXCEPT !.todo = Tail(call[c].todo), !.src = src,
                                                       !.scan = scan, !.failed = failed]]
    PROVE  Continues(c, src, scan, failed)
<1> DEFINE v == [call[c] EXCEPT !.todo = Tail(call[c].todo), !.src = src, !.scan = scan,
                                !.failed = failed]
<1>1. call[c] \in CallType /\ call[c].op \in Ops /\ Tail(call[c].todo) \in Plans(call[c].op)
  BY CallIs
<1>2. Tail(call[c].todo) \in UNION {Plans(op) : op \in Ops}
  BY <1>1
<1>3. v \in CallType
  BY <1>1, <1>2 DEF CallType
<1>4. /\ v.todo = Tail(call[c].todo) /\ v.op = call[c].op /\ v.name = call[c].name
      /\ v.src = src /\ v.scan = scan /\ v.before = call[c].before /\ v.failed = failed
  BY <1>1 DEF CallType
<1> HIDE DEF v
<1>5. /\ call' \in [Callers -> CallType] /\ \A d \in Callers \ {c} : call'[d] = call[d]
      /\ call'[c] = v
  <2>1. call' = [call EXCEPT ![c] = v]
    BY DEF v
  <2>2. QED
    BY <1>3, <2>1 DEF CallsOK
<1>6. QED
  BY <1>4, <1>5 DEF Continues

LEMMA GoAsFacts ==
    ASSUME CallsOK, PlanInv, NEW c \in Callers, ~IsIdle(c), NEW failed \in BOOLEAN,
           GoAs(c, With(c, failed))
    PROVE  Goes(c, failed)
<1> DEFINE r == With(c, failed)
<1>1. r.todo = call[c].todo
  BY CallIs DEF CallType, With
<1>2. CASE Tail(call[c].todo) = <<>>
  <2>1. EndAs(c, r, "STORE_OK")
    BY <1>1, <1>2, CallIs DEF GoAs
  <2>2. QED
    BY <1>2, <2>1, EndFacts DEF Goes, Answers
<1>3. CASE Tail(call[c].todo) # <<>>
  <2>1. call' = [call EXCEPT ![c] = [r EXCEPT !.todo = Tail(r.todo)]]
    BY <1>1, <1>3, CallIs DEF GoAs
  <2>2. [r EXCEPT !.todo = Tail(r.todo)]
        = [call[c] EXCEPT !.todo = Tail(call[c].todo), !.src = call[c].src, !.scan = call[c].scan,
                          !.failed = failed]
    BY <1>1, CallIs DEF CallType, With
  <2>3. call' = [call EXCEPT ![c] = [call[c] EXCEPT !.todo = Tail(call[c].todo), !.src = call[c].src,
                                                    !.scan = call[c].scan, !.failed = failed]]
    BY <2>1, <2>2, Zenon
  <2>4. call[c].src \in Sources \cup {NoDisk} /\ call[c].scan \in SUBSET Names
    BY CallIs
  <2>5. Continues(c, call[c].src, call[c].scan, failed)
    BY <1>3, <2>3, <2>4, MoveFacts
  <2>6. QED
    BY <1>3, <2>5 DEF Goes
<1>4. QED
  BY <1>2, <1>3

LEMMA GoFacts ==
    ASSUME CallsOK, PlanInv, NEW c \in Callers, ~IsIdle(c), Go(c)
    PROVE  Goes(c, call[c].failed)
  BY CallIs, WithIs, GoAsFacts DEF Go

\* The store is well formed.
StoreOK ==
    /\ list \in SUBSET Names /\ xml \in [Names -> Sources \cup {NoFile, Torn}]
    /\ conf \in [Names -> Sections] /\ mounted \in [Names -> Disks \cup {NoDisk}]
    /\ orphans \in SUBSET Names /\ unwritten \in SUBSET Names

\* A step of c leaves the parts of all other names, but for the sections that a lost
\* write has cost them.
OnlyOwn(c) ==
    /\ UNCHANGED <<calls, alone, dirty>>
    /\ \A m \in Names \ {call[c].name} :
          /\ m \in list' <=> m \in list
          /\ xml'[m] = xml[m] /\ mounted'[m] = mounted[m]
          /\ m \in orphans' <=> m \in orphans
          /\ \/ conf'[m] = conf[m] /\ (m \in unwritten' <=> m \in unwritten)
             \/ /\ conf'[m] = NoSection
                /\ m \in unwritten' <=> (m \in unwritten \/ conf[m] # NoSection)

Ways == {"goes", "loses", "refused", "fails"}

\* The parts of its own name, when the step s of the request r ends in this way.
Parts(c, way) ==
    LET n == call[c].name
        s == Doing(c)
        set == way # "fails"
    IN  /\ n \in list' <=> (s = "Append" \/ (s # "Pop" /\ n \in list))
        /\ xml'[n] = IF set /\ s = "Open" THEN Torn
                     ELSE IF set /\ s = "RemoveFile" THEN NoFile
                     ELSE IF set /\ s = "Write" /\ xml[n] # NoFile THEN call[c].src
                     ELSE xml[n]
        /\ conf'[n] = IF way = "loses" THEN NoSection
                      ELSE IF way = "fails" THEN conf[n]
                      ELSE IF s \in {"SetState", "SetInactive"} THEN [conf[n] EXCEPT !.state = "inactive"]
                      ELSE IF s = "SetActive" THEN [conf[n] EXCEPT !.state = "active"]
                      ELSE IF s = "SetAuto" THEN [conf[n] EXCEPT !.auto = TRUE]
                      ELSE IF s = "DeleteSection" THEN NoSection
                      ELSE conf[n]
        /\ mounted'[n] = IF way = "goes" /\ ~conf[n].auto /\ s = "Mount" THEN call[c].src
                         ELSE IF way = "goes" /\ ~conf[n].auto /\ s = "Umount" THEN NoDisk
                         ELSE mounted[n]
        /\ n \in orphans' <=> \/ n \in orphans
                              \/ /\ way = "fails" /\ s \in {"DeleteSection", "RemoveFile"}
                                 /\ n \notin dirty
        /\ n \in unwritten' <=> \/ way = "loses" \/ (way = "fails" /\ s = "SetState")
                                \/ /\ n \in unwritten
                                   /\ set /\ s \in ConfSteps => conf'[n].state = "none"

Failing == {"DiskIsFree", "Open", "Write", "RemoveFile", "Mount", "NotBusy", "Umount"} \cup ConfSteps

\* When it goes on, when it is refused and when it may fail.
Gate(c, way) ==
    LET n == call[c].name
        s == Doing(c)
        goes == way = "goes"
    IN  /\ way = "fails" => s \in Failing
        /\ way = "loses" => s \in ConfSteps
        /\ way \in {"goes", "refused"} =>
             /\ s \in {"NotListed", "Append"} => (goes <=> n \notin list)
             /\ s = "Pop" => (goes <=> n \in list)
             /\ s = "NoFile" => (goes <=> xml[n] = NoFile)
             /\ s \in {"HasFile", "RemoveFile"} => (goes <=> xml[n] # NoFile)
             /\ s = "ReadFile" => (goes <=> xml[n] \notin {NoFile, Torn})
             /\ s = "DiskIsFree" => (goes <=> Unmounted(call[c].src))
             /\ s = "Scan" => (goes <=> call[c].scan = {})
             /\ s \in {"Open", "Write", "ListDir", "NotBusy"} \cup ConfSteps => goes
             /\ s \in {"AppendString", "RefuseDelete", "Raise"} => ~goes
             /\ s = "Mount" /\ ~conf[n].auto /\ call[c].src \in Targets => ~goes
             /\ s = "Umount" /\ ~conf[n].auto /\ call[c].src \notin Disks => ~goes

Outcome(c, way) ==
    CASE way = "goes" /\ Doing(c) = "ListDir" ->
           Continues(c, call[c].src, {n \in Names : xml[n] # NoFile}, call[c].failed)
      [] way = "goes" /\ Doing(c) = "ReadFile" ->
           Continues(c, xml[call[c].name], call[c].scan, call[c].failed)
      [] way = "goes" /\ Doing(c) \notin {"ListDir", "ReadFile"} -> Goes(c, call[c].failed)
      [] way = "loses" -> Goes(c, TRUE)
      [] way = "refused" -> \E answer \in Refusals : Ended(c, answer, call[c].failed)
      [] way = "fails" -> \E answer \in Refusals : Ended(c, answer, TRUE)

\* A file that is not in the way.
Looks(c) ==
    /\ Doing(c) = "Scan" /\ UNCHANGED <<store, orphans, unwritten>>
    /\ \E m \in call[c].scan : xml[m] # call[c].src /\ Reads(c, call[c].scan \ {m})

StepsTo(c) ==
    /\ ~IsIdle(c) /\ OnlyOwn(c) /\ StoreOK'
    /\ Looks(c) \/ \E way \in Ways : Parts(c, way) /\ Gate(c, way) /\ Outcome(c, way)

Lookups == {"NotListed", "NoFile", "HasFile", "DiskIsFree", "ListDir", "Scan", "AppendString",
            "RefuseDelete", "Raise", "ReadFile", "NotBusy"}

LEMMA StillFacts ==
    ASSUME TypeOK, NEW c \in Callers, UNCHANGED <<store, history>>
    PROVE  /\ OnlyOwn(c) /\ StoreOK'
           /\ Doing(c) \in Lookups => Parts(c, "goes") /\ Parts(c, "refused")
  BY DEF TypeOK, store, history, OnlyOwn, StoreOK, Lookups, Parts, ConfSteps

LEMMA DoingIs ==
    ASSUME NEW c \in Callers, NEW s, At(c, s)
    PROVE  ~IsIdle(c) /\ Doing(c) = s
  BY DEF At, IsIdle, Doing

\* The steps that look, and change nothing.
LEMMA LookupSteps ==
    ASSUME TypeOK, CallsOK, PlanInv, NEW c \in Callers,
           \/ NotListed(c) \/ NoFileYet(c) \/ HasFile(c) \/ DiskIsFree(c) \/ AppendString(c)
           \/ RefuseDelete(c) \/ Raise(c) \/ NotBusy(c)
    PROVE  StepsTo(c)
<1>1. UNCHANGED <<store, history>> /\ ~IsIdle(c) /\ Doing(c) \in Lookups \ {"ListDir", "ReadFile", "Scan"}
  BY DoingIs DEF NotListed, NoFileYet, HasFile, DiskIsFree, AppendString, RefuseDelete, Raise, NotBusy, Lookups
<1>2. OnlyOwn(c) /\ StoreOK' /\ Parts(c, "goes") /\ Parts(c, "refused")
  BY <1>1, StillFacts
<1>3. ASSUME Go(c) PROVE Outcome(c, "goes")
  BY <1>1, <1>3, GoFacts DEF Outcome
<1>4. ASSUME NEW answer \in Refusals, Answer(c, answer) PROVE Outcome(c, "refused")
  BY <1>1, <1>4, AnswerFacts DEF Outcome, Refusals
<1>5. "STORE_INVALID_ERROR" \in Refusals /\ "STORE_UNKNOWN_ERROR" \in Refusals
  BY DEF Refusals, Answers
<1>6. CASE Go(c) /\ Gate(c, "goes")
  BY <1>1, <1>2, <1>3, <1>6 DEF StepsTo, Ways
<1>7. CASE (Invalid(c) \/ Answer(c, "STORE_UNKNOWN_ERROR")) /\ Gate(c, "refused")
  BY <1>1, <1>2, <1>4, <1>5, <1>7 DEF StepsTo, Ways, Invalid
<1>8. CASE NotListed(c)
  <2>1. Doing(c) = "NotListed"
    BY <1>8, DoingIs DEF NotListed
  <2>2. QED
    BY <1>6, <1>7, <1>8, <2>1 DEF NotListed, Gate, ConfSteps
<1>9. CASE NoFileYet(c)
  <2>1. Doing(c) = "NoFile"
    BY <1>9, DoingIs DEF NoFileYet
  <2>2. QED
    BY <1>6, <1>7, <1>9, <2>1 DEF NoFileYet, Gate, ConfSteps
<1>10. CASE HasFile(c)
  <2>1. Doing(c) = "HasFile"
    BY <1>10, DoingIs DEF HasFile
  <2>2. QED
    BY <1>6, <1>7, <1>10, <2>1 DEF HasFile, Gate, ConfSteps
<1>11. CASE DiskIsFree(c)
  <2>1. Doing(c) = "DiskIsFree"
    BY <1>11, DoingIs DEF DiskIsFree
  <2>2. QED
    BY <1>6, <1>7, <1>11, <2>1 DEF DiskIsFree, Gate, ConfSteps, Unmounted
<1>12. CASE AppendString(c)
  <2>1. Doing(c) = "AppendString"
    BY <1>12, DoingIs DEF AppendString
  <2>2. QED
    BY <1>7, <1>12, <2>1 DEF AppendString, Gate, ConfSteps
<1>13. CASE RefuseDelete(c)
  <2>1. Doing(c) = "RefuseDelete"
    BY <1>13, DoingIs DEF RefuseDelete
  <2>2. QED
    BY <1>7, <1>13, <2>1 DEF RefuseDelete, Gate, ConfSteps
<1>14. CASE Raise(c)
  <2>1. Doing(c) = "Raise"
    BY <1>14, DoingIs DEF Raise
  <2>2. QED
    BY <1>7, <1>14, <2>1 DEF Raise, Gate, ConfSteps
<1>15. CASE NotBusy(c)
  <2>1. Doing(c) = "NotBusy"
    BY <1>15, DoingIs DEF NotBusy
  <2>2. QED
    BY <1>6, <1>15, <2>1 DEF NotBusy, Gate, ConfSteps
<1>16. QED
  BY <1>8, <1>9, <1>10, <1>11, <1>12, <1>13, <1>14, <1>15

LEMMA ListDirStep ==
    ASSUME TypeOK, CallsOK, PlanInv, NEW c \in Callers, ListDir(c)
    PROVE  StepsTo(c)
<1> DEFINE files == {n \in Names : xml[n] # NoFile}
<1>1. Doing(c) = "ListDir" /\ ~IsIdle(c) /\ UNCHANGED <<store, history>>
  BY DoingIs DEF ListDir
<1>2. OnlyOwn(c) /\ StoreOK' /\ Parts(c, "goes")
  BY <1>1, StillFacts DEF Lookups, Ways
<1>3. Tail(call[c].todo) # <<>>
  <2>1. NextOf(call[c].todo) = "Scan"
    BY <1>1, CallIs, OpsAre DEF Follows, AllOps
  <2>2. QED
    BY <2>1 DEF NextOf
<1>4. Continues(c, call[c].src, files, call[c].failed)
  <2> DEFINE v == [call[c] EXCEPT !.todo = Tail(call[c].todo), !.scan = files]
             w == [call[c] EXCEPT !.todo = Tail(call[c].todo), !.src = call[c].src, !.scan = files,
                                  !.failed = call[c].failed]
  <2>1. v = w
    BY CallIs DEF CallType
  <2>2. call' = [call EXCEPT ![c] = v]
    BY DEF ListDir, CallsOK
  <2>3. call' = [call EXCEPT ![c] = w]
    BY <2>1, <2>2
  <2>4. /\ call[c].src \in Sources \cup {NoDisk} /\ files \in SUBSET Names
        /\ call[c].failed \in BOOLEAN
    BY CallIs
  <2> HIDE DEF files, v
  <2>5. QED
    BY <1>1, <1>3, <2>3, <2>4, MoveFacts
<1>5. Gate(c, "goes") /\ Outcome(c, "goes")
  BY <1>1, <1>4 DEF Gate, Outcome, ConfSteps
<1>6. QED
  BY <1>1, <1>2, <1>5 DEF StepsTo, Ways

LEMMA ScanStep ==
    ASSUME TypeOK, CallsOK, PlanInv, NEW c \in Callers, Scan(c)
    PROVE  StepsTo(c)
<1>1. Doing(c) = "Scan" /\ ~IsIdle(c) /\ UNCHANGED <<store, history>>
  BY DoingIs DEF Scan
<1>2. OnlyOwn(c) /\ StoreOK' /\ Parts(c, "goes") /\ Parts(c, "refused")
  BY <1>1, StillFacts DEF Lookups
<1>3. CASE call[c].scan = {} /\ Go(c)
  <2>1. Gate(c, "goes") /\ Outcome(c, "goes")
    BY <1>1, <1>3, GoFacts DEF Gate, Outcome, ConfSteps
  <2>2. QED
    BY <1>1, <1>2, <2>1 DEF StepsTo, Ways
<1>4. ASSUME NEW answer \in Refusals, Answer(c, answer), call[c].scan # {}
      PROVE  StepsTo(c)
  <2>1. Ended(c, answer, call[c].failed)
    BY <1>1, <1>4, AnswerFacts DEF Refusals
  <2>2. Gate(c, "refused") /\ Outcome(c, "refused")
    BY <1>1, <1>4, <2>1 DEF Gate, Outcome, ConfSteps
  <2>3. QED
    BY <1>1, <1>2, <2>2 DEF StepsTo, Ways
<1>5. ASSUME NEW n \in call[c].scan, xml[n] # call[c].src,
             call' = [call EXCEPT ![c].scan = @ \ {n}]
      PROVE  StepsTo(c)
  <2> DEFINE v == [call[c] EXCEPT !.scan = call[c].scan \ {n}]
  <2>1. v \in CallType
    BY <1>1, CallIs DEF CallType
  <2>2. /\ v.todo = call[c].todo /\ v.op = call[c].op /\ v.name = call[c].name
        /\ v.before = call[c].before /\ v.failed = call[c].failed
        /\ v.src = call[c].src /\ v.scan = call[c].scan \ {n}
    BY CallIs DEF CallType
  <2>3. call' = [call EXCEPT ![c] = v]
    BY <1>5 DEF CallsOK
  <2> HIDE DEF v
  <2>4. call' \in [Callers -> CallType] /\ call'[c] = v /\ \A d \in Callers \ {c} : call'[d] = call[d]
    BY <2>1, <2>3 DEF CallsOK
  <2>5. Reads(c, call[c].scan \ {n})
    BY <2>1, <2>2, <2>4 DEF Reads
  <2>6. QED
    BY <1>1, <1>2, <1>5, <2>5 DEF StepsTo, Looks, history
<1>6. /\ "STORE_INVALID_ERROR" \in Refusals /\ "STORE_UNKNOWN_ERROR" \in Refusals
      /\ "STORE_XML_ERROR" \in Refusals
  BY DEF Refusals, Answers
<1>7. QED
  <2>1. \/ call[c].scan = {} /\ Go(c)
        \/ \E n \in call[c].scan :
              \/ \E answer \in Refusals : Answer(c, answer)
              \/ xml[n] # call[c].src /\ call' = [call EXCEPT ![c].scan = @ \ {n}]
    BY <1>6 DEF Scan, Invalid
  <2>2. QED
    BY <1>3, <1>4, <1>5, <2>1

LEMMA ReadFileStep ==
    ASSUME TypeOK, CallsOK, PlanInv, NEW c \in Callers, ReadFile(c)
    PROVE  StepsTo(c)
<1> DEFINE found == xml[call[c].name]
<1>1. Doing(c) = "ReadFile" /\ ~IsIdle(c) /\ UNCHANGED <<store, history>>
  BY DoingIs DEF ReadFile
<1>2. OnlyOwn(c) /\ StoreOK' /\ Parts(c, "goes") /\ Parts(c, "refused")
  BY <1>1, StillFacts DEF Lookups
<1>3. CASE found \in {NoFile, Torn}
  <2>1. \E answer \in Refusals : Answer(c, answer)
    BY <1>3 DEF ReadFile, Refusals, Answers
  <2>2. Gate(c, "refused") /\ Outcome(c, "refused")
    BY <1>1, <1>3, <2>1, AnswerFacts DEF Gate, Outcome, Refusals, ConfSteps
  <2>3. QED
    BY <1>1, <1>2, <2>2 DEF StepsTo, Ways
<1>4. CASE found \notin {NoFile, Torn}
  <2> DEFINE v == [call[c] EXCEPT !.todo = Tail(call[c].todo), !.src = found]
             w == [call[c] EXCEPT !.todo = Tail(call[c].todo), !.src = found, !.scan = call[c].scan,
                                  !.failed = call[c].failed]
  <2>1. v = w
    BY CallIs DEF CallType
  <2>2. call' = [call EXCEPT ![c] = v]
    BY <1>4 DEF ReadFile, CallsOK
  <2>3. found \in Sources
    BY <1>1, <1>4, CallIs DEF TypeOK
  <2>4. Tail(call[c].todo) # <<>>
    <3>1. NextOf(call[c].todo) # "end"
      BY <1>1, CallIs, OpsAre DEF Follows, AllOps
    <3>2. QED
      BY <3>1 DEF NextOf
  <2>a. call' = [call EXCEPT ![c] = w]
    BY <2>1, <2>2
  <2>b. call[c].scan \in SUBSET Names /\ call[c].failed \in BOOLEAN
    BY CallIs
  <2> HIDE DEF found, v
  <2>5. Continues(c, found, call[c].scan, call[c].failed)
    BY <1>1, <2>3, <2>4, <2>a, <2>b, MoveFacts
  <2> USE DEF found
  <2>6. Gate(c, "goes") /\ Outcome(c, "goes")
    BY <1>1, <1>4, <2>5 DEF Gate, Outcome, ConfSteps
  <2>7. QED
    BY <1>1, <1>2, <2>6 DEF StepsTo, Ways
<1>5. QED
  BY <1>3, <1>4

\* The steps that change the list or the file.
LEMMA FileSteps ==
    ASSUME TypeOK, CallsOK, PlanInv, NEW c \in Callers,
           AppendEntry(c) \/ Pop(c) \/ OpenFile(c) \/ WriteFile(c) \/ RemoveFile(c)
    PROVE  StepsTo(c)
<1> DEFINE n == call[c].name
<1>1. ~IsIdle(c) /\ Doing(c) \in {"Append", "Pop", "Open", "Write", "RemoveFile"}
  BY DoingIs DEF AppendEntry, Pop, OpenFile, WriteFile, RemoveFile
<1>2. n \in Names
  BY <1>1, CallIs
<1>3. ASSUME Go(c) PROVE Outcome(c, "goes")
  BY <1>1, <1>3, GoFacts DEF Outcome
<1>4. ASSUME NEW answer \in Refusals, Answer(c, answer) PROVE Outcome(c, "refused")
  BY <1>1, <1>4, AnswerFacts DEF Outcome, Refusals
<1>5. "STORE_INVALID_ERROR" \in Refusals /\ "STORE_UNKNOWN_ERROR" \in Refusals
  BY DEF Refusals, Answers
<1>6. CASE OnlyOwn(c) /\ StoreOK' /\ Go(c) /\ Parts(c, "goes") /\ Gate(c, "goes")
  BY <1>1, <1>3, <1>6 DEF StepsTo, Ways
<1>7. CASE /\ OnlyOwn(c) /\ StoreOK' /\ (Invalid(c) \/ Answer(c, "STORE_UNKNOWN_ERROR"))
           /\ Parts(c, "refused") /\ Gate(c, "refused")
  BY <1>1, <1>4, <1>5, <1>7 DEF StepsTo, Ways, Invalid
<1>8. CASE AppendEntry(c)
  <2>1. Doing(c) = "Append"
    BY <1>8, DoingIs DEF AppendEntry
  <2>2. OnlyOwn(c) /\ StoreOK' /\ Parts(c, "goes") /\ Parts(c, "refused")
    BY <1>2, <1>8, <2>1 DEF AppendEntry, OnlyOwn, StoreOK, Parts, TypeOK, history, ConfSteps
  <2>3. QED
    BY <1>6, <1>7, <1>8, <2>1, <2>2 DEF AppendEntry, Gate, Ways, ConfSteps
<1>9. CASE Pop(c)
  <2>1. Doing(c) = "Pop"
    BY <1>9, DoingIs DEF Pop
  <2>2. OnlyOwn(c) /\ StoreOK' /\ Parts(c, "goes") /\ Parts(c, "refused")
    BY <1>2, <1>9, <2>1 DEF Pop, OnlyOwn, StoreOK, Parts, TypeOK, history, ConfSteps
  <2>3. QED
    BY <1>6, <1>7, <1>9, <2>1, <2>2 DEF Pop, Gate, Ways, ConfSteps
<1>10. CASE OpenFile(c)
  <2>1. Doing(c) = "Open"
    BY <1>10, DoingIs DEF OpenFile
  <2>2. OnlyOwn(c) /\ StoreOK' /\ Parts(c, "goes") /\ Parts(c, "refused")
    BY <1>2, <1>10, <2>1 DEF OpenFile, OnlyOwn, StoreOK, Parts, TypeOK, history, ConfSteps
  <2>3. QED
    BY <1>6, <1>10, <2>1, <2>2 DEF OpenFile, Gate, ConfSteps
<1>11. CASE WriteFile(c)
  <2>1. Doing(c) = "Write"
    BY <1>11, DoingIs DEF WriteFile
  <2>2. call[c].src \in Sources
    <3>1. call[c].op \in Creations
      BY <1>1, <2>1, CallIs, OpsAre DEF Follows, AllOps, Creations
    <3>2. QED
      BY <3>1 DEF PlanInv, Creations, Sources
  <2>3. xml' \in [Names -> Sources \cup {NoFile, Torn}]
    BY <1>2, <1>11, <2>2 DEF WriteFile, TypeOK
  <2>4. OnlyOwn(c) /\ StoreOK' /\ Parts(c, "goes")
    BY <1>2, <1>11, <2>1, <2>3 DEF WriteFile, OnlyOwn, StoreOK, Parts, TypeOK, history, ConfSteps
  <2>5. QED
    BY <1>6, <1>11, <2>1, <2>4 DEF WriteFile, Gate
<1>12. CASE RemoveFile(c)
  <2>1. Doing(c) = "RemoveFile"
    BY <1>12, DoingIs DEF RemoveFile
  <2>2. OnlyOwn(c) /\ StoreOK' /\ Parts(c, "goes") /\ Parts(c, "refused")
    BY <1>2, <1>12, <2>1 DEF RemoveFile, OnlyOwn, StoreOK, Parts, TypeOK, history, ConfSteps
  <2>3. QED
    BY <1>6, <1>7, <1>12, <2>1, <2>2 DEF RemoveFile, Gate, Ways, ConfSteps
<1>13. QED
  BY <1>8, <1>9, <1>10, <1>11, <1>12

LEMMA SectionSteps ==
    ASSUME TypeOK, CallsOK, PlanInv, NEW c \in Callers, ChangeSection(c)
    PROVE  StepsTo(c)
<1> DEFINE n == call[c].name
           now == conf[n]
<1>1. PICK s \in ConfSteps : At(c, s)
  BY DEF ChangeSection, ConfSteps
<1>2. ~IsIdle(c) /\ Doing(c) = s
  BY <1>1, DoingIs
<1>3. n \in Names /\ now \in Sections
  BY <1>2, CallIs DEF TypeOK
<1>4. PICK section \in Sections :
          /\ conf' = [conf EXCEPT ![n] = section]
          /\ section = IF s \in {"SetState", "SetInactive"} THEN [now EXCEPT !.state = "inactive"]
                       ELSE IF s = "SetActive" THEN [now EXCEPT !.state = "active"]
                       ELSE IF s = "SetAuto" THEN [now EXCEPT !.auto = TRUE]
                       ELSE IF s = "DeleteSection" THEN NoSection
                       ELSE now
  <2>1. /\ NoSection \in Sections /\ [now EXCEPT !.state = "inactive"] \in Sections
        /\ [now EXCEPT !.state = "active"] \in Sections /\ [now EXCEPT !.auto = TRUE] \in Sections
    BY <1>3 DEF Sections, NoSection
  <2>2. \A t : At(c, t) => s = t
    BY <1>1 DEF At
  <2>3. QED
    BY <1>3, <2>1, <2>2 DEF ChangeSection, SetConf
<1>5. /\ UNCHANGED <<list, xml, mounted, calls, alone, orphans, dirty>> /\ Go(c)
      /\ unwritten' = {m \in unwritten : m # n \/ conf'[n].state = "none"}
  BY DEF ChangeSection
<1>6. OnlyOwn(c) /\ StoreOK'
  BY <1>3, <1>4, <1>5 DEF OnlyOwn, StoreOK, TypeOK
<1>7. conf'[n] = section
  BY <1>3, <1>4 DEF TypeOK
<1>8. Parts(c, "goes") /\ Gate(c, "goes")
  BY <1>2, <1>4, <1>5, <1>7 DEF Parts, Gate, ConfSteps
<1>9. Outcome(c, "goes")
  BY <1>2, <1>5, GoFacts DEF Outcome, ConfSteps
<1>10. QED
  BY <1>2, <1>6, <1>8, <1>9 DEF StepsTo, Ways

LEMMA MountSteps ==
    ASSUME TypeOK, CallsOK, PlanInv, NEW c \in Callers, Mount(c) \/ Umount(c)
    PROVE  StepsTo(c)
<1> DEFINE n == call[c].name
           r == call[c]
<1>1. ~IsIdle(c) /\ Doing(c) \in {"Mount", "Umount"}
  BY DoingIs DEF Mount, Umount
<1>2. n \in Names /\ r.src \in Sources \cup {NoDisk}
  BY <1>1, CallIs
<1>3. UNCHANGED <<list, xml, conf, history>>
  BY DEF Mount, Umount
<1>4. ASSUME Go(c), mounted' \in [Names -> Disks \cup {NoDisk}], Parts(c, "goes"), Gate(c, "goes"),
             \A m \in Names \ {n} : mounted'[m] = mounted[m]
      PROVE  StepsTo(c)
  <2>1. Outcome(c, "goes")
    BY <1>1, <1>4, GoFacts DEF Outcome
  <2>2. OnlyOwn(c) /\ StoreOK'
    BY <1>3, <1>4 DEF OnlyOwn, StoreOK, TypeOK, history
  <2>3. QED
    BY <1>1, <1>4, <2>1, <2>2 DEF StepsTo, Ways
<1>5. ASSUME UNCHANGED mounted, NEW answer \in Refusals, Answer(c, answer)
      PROVE  StepsTo(c)
  <2>1. Gate(c, "refused") /\ Outcome(c, "refused")
    BY <1>1, <1>5, AnswerFacts DEF Gate, Outcome, ConfSteps, Refusals
  <2>2. OnlyOwn(c) /\ StoreOK' /\ Parts(c, "refused")
    BY <1>1, <1>3, <1>5 DEF OnlyOwn, StoreOK, TypeOK, Parts, history, ConfSteps
  <2>3. QED
    BY <1>1, <2>1, <2>2 DEF StepsTo, Ways
<1>6. "STORE_INVALID_ERROR" \in Refusals /\ "STORE_ENVOY_FAIL" \in Refusals
  BY DEF Refusals, Answers
<1>7. CASE conf[n].auto
  <2>1. Go(c) /\ UNCHANGED mounted
    BY <1>7 DEF Mount, Umount
  <2>2. Parts(c, "goes") /\ Gate(c, "goes")
    BY <1>1, <1>3, <1>7, <2>1 DEF Parts, Gate, ConfSteps, history
  <2>3. QED
    BY <1>4, <2>1, <2>2 DEF TypeOK
<1>8. CASE ~conf[n].auto /\ Mount(c)
  <2>1. Doing(c) = "Mount"
    BY <1>8, DoingIs DEF Mount
  <2>2. CASE r.src \in Targets \/ (r.src \in Disks /\ mounted[n] # NoDisk)
    <3>1. UNCHANGED mounted /\ \E answer \in Refusals : Answer(c, answer)
      BY <1>6, <1>8, <2>2 DEF Mount, Invalid
    <3>2. QED
      BY <1>5, <3>1
  <2>3. CASE r.src \notin Targets /\ ~(r.src \in Disks /\ mounted[n] # NoDisk)
    <3>1. Go(c) /\ mounted' = [mounted EXCEPT ![n] = r.src]
      BY <1>8, <2>3 DEF Mount
    <3>2. r.src \in Disks \cup {NoDisk}
      BY <1>2, <2>3 DEF Sources
    <3>3. Parts(c, "goes") /\ Gate(c, "goes")
      BY <1>2, <1>3, <1>8, <2>1, <2>3, <3>1 DEF Parts, Gate, ConfSteps, TypeOK, history
    <3>4. QED
      BY <1>2, <1>4, <3>1, <3>2, <3>3 DEF TypeOK
  <2>4. QED
    BY <2>2, <2>3
<1>9. CASE ~conf[n].auto /\ Umount(c)
  <2>1. Doing(c) = "Umount"
    BY <1>9, DoingIs DEF Umount
  <2> DEFINE there == r.src \in Disks /\ mounted[n] # NoDisk
  <2>2. CASE ~there
    <3>1. UNCHANGED mounted /\ Answer(c, "STORE_ENVOY_FAIL")
      BY <1>9, <2>2 DEF Umount
    <3>2. QED
      BY <1>5, <1>6, <3>1
  <2>3. CASE there
    <3>1. Go(c) /\ mounted' = [mounted EXCEPT ![n] = NoDisk]
      BY <1>9, <2>3 DEF Umount
    <3>2. Parts(c, "goes") /\ Gate(c, "goes")
      BY <1>2, <1>3, <1>9, <2>1, <2>3, <3>1 DEF Parts, Gate, ConfSteps, TypeOK, history
    <3>3. QED
      BY <1>2, <1>4, <3>1, <3>2 DEF TypeOK
  <2>4. QED
    BY <2>2, <2>3
<1>10. QED
  BY <1>7, <1>8, <1>9

LEMMA FailSteps ==
    ASSUME TypeOK, CallsOK, PlanInv, NEW c \in Callers, Fail(c)
    PROVE  StepsTo(c)
<1> DEFINE answer == FailureOf(Doing(c))
           n == call[c].name
           s == Doing(c)
<1>1. /\ ~IsIdle(c) /\ UNCHANGED <<store, calls, alone, dirty>>
      /\ orphans' = orphans \cup
                    (IF s \in {"DeleteSection", "RemoveFile"} THEN {n} \ dirty ELSE {})
      /\ unwritten' = unwritten \cup (IF s = "SetState" THEN {n} ELSE {})
  BY DEF Fail, Doing
<1>2. s \in Failing /\ answer \in Refusals
  BY DEF Fail, FailureOf, Doing, Refusals, Answers, Failing
<1>3. n \in Names
  BY <1>1, CallIs
<1>4. OnlyOwn(c) /\ StoreOK'
  BY <1>1, <1>3 DEF OnlyOwn, StoreOK, TypeOK, store
<1>5. Parts(c, "fails")
  <2>1. s \notin {"Append", "Pop"}
    BY <1>2 DEF Failing, ConfSteps
  <2>2. QED
    BY <1>1, <2>1 DEF Parts, store
<1>6. Ended(c, answer, TRUE)
  <2>1. EndAs(c, With(c, TRUE), answer)
    BY WithIs DEF Fail, Doing
  <2> HIDE DEF answer
  <2>2. QED
    BY <1>1, <1>2, <2>1, EndFacts DEF Refusals
<1>7. Gate(c, "fails") /\ Outcome(c, "fails")
  BY <1>2, <1>6 DEF Gate, Outcome
<1>8. QED
  BY <1>1, <1>4, <1>5, <1>7 DEF StepsTo, Ways

LEMMA LoseSteps ==
    ASSUME TypeOK, CallsOK, PlanInv, NEW c \in Callers, LoseSections(c)
    PROVE  StepsTo(c)
<1> DEFINE n == call[c].name
<1>1. ~IsIdle(c) /\ Doing(c) \in ConfSteps
  BY DoingIs DEF LoseSections
<1>2. n \in Names /\ NoSection \in Sections
  BY <1>1, CallIs DEF NoSection, Sections
<1>3. /\ UNCHANGED <<list, xml, mounted, calls, alone, orphans, dirty>>
      /\ conf' = [m \in Names |-> NoSection]
      /\ unwritten' = unwritten \cup {m \in Names : m = n \/ conf[m] # NoSection}
  BY DEF LoseSections
<1>4. OnlyOwn(c) /\ StoreOK'
  BY <1>2, <1>3 DEF OnlyOwn, StoreOK, TypeOK
<1>5. Parts(c, "loses")
  BY <1>1, <1>2, <1>3 DEF Parts, ConfSteps
<1>6. Gate(c, "loses") /\ Outcome(c, "loses")
  BY <1>1, WithIs, GoAsFacts DEF LoseSections, Gate, Outcome
<1>7. QED
  BY <1>1, <1>4, <1>5, <1>6 DEF StepsTo, Ways

LEMMA EveryStep ==
    ASSUME TypeOK, CallsOK, PlanInv, NEW c \in Callers, Acts(c)
    PROVE  StepsTo(c)
  BY LookupSteps, ListDirStep, ScanStep, ReadFileStep, FileSteps, SectionSteps, MountSteps,
     FailSteps, LoseSteps
     DEF Acts

\* The calls after a step of c: it has been answered, or is at its next step.
Answered(c) ==
    /\ IsIdle(c)'
    /\ c \in alone => /\ call'[c].op = call[c].op /\ call'[c].name = call[c].name
                      /\ call'[c].src = call[c].src /\ call'[c].before = call[c].before
    /\ c \notin alone => call'[c].op = "StopBlock"
Runs(c) ==
    /\ ~IsIdle(c)' /\ call'[c].op = call[c].op /\ call'[c].name = call[c].name
    /\ call'[c].before = call[c].before /\ call'[c].todo \in Plans(call[c].op)
    /\ Doing(c) # "ReadFile" => call'[c].src = call[c].src
    /\ \/ Follows(call[c].op, Doing(c), Doing(c)')
       \/ Doing(c) = "Scan" /\ Doing(c)' = "Scan"

LEMMA AfterStep ==
    ASSUME CallsOK, PlanInv, NEW c \in Callers, StepsTo(c)
    PROVE  /\ CallsOK' /\ \A d \in Callers \ {c} : call'[d] = call[d]
           /\ Answered(c) \/ Runs(c)
<1>1. /\ call[c].name \in Names /\ Tail(call[c].todo) \in Plans(call[c].op)
      /\ Follows(call[c].op, Doing(c), NextOf(call[c].todo)) /\ call[c].todo \in Plans(call[c].op)
      /\ call[c].todo # <<>>
  BY CallIs DEF StepsTo, IsIdle
<1>2. ASSUME NEW answer, NEW failed, Ended(c, answer, failed)
      PROVE  CallsOK' /\ (\A d \in Callers \ {c} : call'[d] = call[d]) /\ Answered(c)
  BY <1>2 DEF Ended, CallsOK, Answered, IsIdle
<1>3. ASSUME NEW src, NEW scan, NEW failed, Continues(c, src, scan, failed),
             Doing(c) # "ReadFile" => src = call[c].src
      PROVE  CallsOK' /\ (\A d \in Callers \ {c} : call'[d] = call[d]) /\ Runs(c)
  <2>1. Doing(c)' = NextOf(call[c].todo)
    BY <1>3 DEF Continues, Doing, NextOf
  <2>2. QED
    BY <1>1, <1>3, <2>1 DEF Continues, CallsOK, Runs, IsIdle
<1>4. ASSUME NEW scan, Reads(c, scan), Doing(c) = "Scan"
      PROVE  CallsOK' /\ (\A d \in Callers \ {c} : call'[d] = call[d]) /\ Runs(c)
  <2>1. Doing(c)' = Doing(c)
    BY <1>4 DEF Reads, Doing
  <2>2. QED
    BY <1>1, <1>4, <2>1 DEF Reads, CallsOK, Runs, IsIdle
<1>5. CASE Looks(c)
  BY <1>4, <1>5 DEF Looks
<1>6. ASSUME NEW way \in Ways, Outcome(c, way)
      PROVE  CallsOK' /\ (\A d \in Callers \ {c} : call'[d] = call[d]) /\ (Answered(c) \/ Runs(c))
  <2>1. CASE way = "goes" /\ Doing(c) = "ListDir"
    BY <1>3, <1>6, <2>1 DEF Outcome
  <2>2. CASE way = "goes" /\ Doing(c) = "ReadFile"
    BY <1>3, <1>6, <2>2 DEF Outcome
  <2>3. CASE way = "loses" \/ (way = "goes" /\ Doing(c) \notin {"ListDir", "ReadFile"})
    BY <1>2, <1>3, <1>6, <2>3 DEF Outcome, Goes
  <2>4. CASE way \in {"refused", "fails"}
    BY <1>2, <1>6, <2>4 DEF Outcome
  <2>5. QED
    BY <2>1, <2>2, <2>3, <2>4 DEF Ways
<1>7. QED
  BY <1>5, <1>6 DEF StepsTo

\* A new request, and a restart.
Starts(c, op, n, src) ==
    /\ IsIdle(c) /\ UNCHANGED <<store, orphans, unwritten>>
    /\ CallsOK' /\ ~IsIdle(c)'
    /\ call'[c].op = op /\ call'[c].name = n /\ call'[c].src = src
    /\ call'[c].todo = Steps[op] /\ call'[c].failed = FALSE
    /\ call'[c].before = IF \A d \in Callers : IsIdle(d) THEN Of(n) ELSE Unknown
    /\ \A d \in Callers \ {c} :
          IF IsIdle(d) THEN call'[d] = Idle
          ELSE /\ call'[d].op = call[d].op /\ call'[d].name = call[d].name
               /\ call'[d].src = call[d].src /\ call'[d].todo = call[d].todo
               /\ call'[d].scan = call[d].scan /\ call'[d].failed = call[d].failed
    /\ alone' = IF \A d \in Callers : IsIdle(d) THEN {c} ELSE {}
    /\ dirty \subseteq dirty' /\ dirty' \in SUBSET Names
    /\ \A d \in Callers : ~IsIdle(d) =>
          /\ call[d].name = n => n \in dirty'
          /\ op = "CreateBlock" /\ call[d].op = op /\ call[d].src = src =>
                n \in dirty' /\ call[d].name \in dirty'

LEMMA RequestFacts ==
    ASSUME TypeOK, CallsOK, PlanInv, NEW c \in Callers, NEW op \in Ops, NEW n \in Names,
           NEW src \in SourcesOf(op), Call(c, op, n, src)
    PROVE  Starts(c, op, n, src) /\ calls' \in 0..MaxCalls
<1> DEFINE others == {d \in Callers : ~IsIdle(d)}
           b == IF others = {} THEN Of(n) ELSE Unknown
           new == [Idle EXCEPT !.op = op, !.name = n, !.src = src, !.todo = Steps[op], !.before = b]
           old(d) == [call[d] EXCEPT !.before = Unknown]
<1>1. Steps[op] \in Plans(op) /\ Steps[op] # <<>>
  BY PlanStarts
<1>2. src \in Sources \cup {NoDisk} /\ Of(n) \in Part
  BY DEF SourcesOf, Sources, Of, Part, TypeOK
<1>3. b \in Part
  BY <1>2, IdleIs
<1>4. others = {} <=> \A d \in Callers : IsIdle(d)
  OBVIOUS
<1> HIDE DEF b
<1>5. /\ new \in CallType /\ new.op = op /\ new.name = n /\ new.src = src /\ new.todo = Steps[op]
      /\ new.failed = FALSE /\ new.before = b
  <2>1. Steps[op] \in UNION {Plans(o) : o \in Ops}
    BY <1>1
  <2>2. QED
    BY <1>2, <1>3, <2>1 DEF Idle, CallType, Answers
<1>6. \A d \in Callers : /\ old(d) \in CallType /\ old(d).op = call[d].op /\ old(d).name = call[d].name
                         /\ old(d).src = call[d].src /\ old(d).todo = call[d].todo
                         /\ old(d).scan = call[d].scan /\ old(d).failed = call[d].failed
  BY IdleIs DEF CallsOK, CallType
<1>7. /\ IsIdle(c) /\ calls < MaxCalls /\ calls' = calls + 1
      /\ call' = [d \in Callers |-> CASE d = c -> new
                                     [] d # c /\ d \notin others -> Idle
                                     [] OTHER -> old(d)]
      /\ alone' = IF others = {} THEN {c} ELSE {}
      /\ dirty' = dirty \cup UNION {Collision(new, call[d]) : d \in others}
      /\ UNCHANGED <<store, orphans, unwritten>>
  BY DEF Call, b
<1> HIDE DEF new, old
<1>8. CallsOK' /\ call'[c] = new
      /\ \A d \in Callers \ {c} : call'[d] = IF d \in others THEN old(d) ELSE Idle
  BY <1>5, <1>6, <1>7, IdleIs DEF CallsOK
<1>9. \A d \in others : Collision(new, call[d]) \in SUBSET Names
  BY <1>5, CallIs DEF Collision
<1>10. dirty \subseteq dirty' /\ dirty' \in SUBSET Names
  BY <1>7, <1>9 DEF TypeOK
<1>11. ASSUME NEW d \in Callers, ~IsIdle(d)
       PROVE  /\ call[d].name = n => n \in dirty'
              /\ op = "CreateBlock" /\ call[d].op = op /\ call[d].src = src =>
                    n \in dirty' /\ call[d].name \in dirty'
  <2>1. Collision(new, call[d]) \subseteq dirty'
    BY <1>7, <1>11
  <2>2. QED
    BY <1>5, <2>1 DEF Collision
<1>12. calls' \in 0..MaxCalls
  BY <1>7, DataStoreAssumption DEF TypeOK
<1>13. ~IsIdle(c)' /\ alone' = IF \A d \in Callers : IsIdle(d) THEN {c} ELSE {}
  BY <1>1, <1>4, <1>5, <1>7, <1>8 DEF IsIdle
<1>14. call'[c].before = IF \A d \in Callers : IsIdle(d) THEN Of(n) ELSE Unknown
  BY <1>4, <1>5, <1>8 DEF b
<1>15. \A d \in Callers \ {c} :
          IF IsIdle(d) THEN call'[d] = Idle
          ELSE /\ call'[d].op = call[d].op /\ call'[d].name = call[d].name
               /\ call'[d].src = call[d].src /\ call'[d].todo = call[d].todo
               /\ call'[d].scan = call[d].scan /\ call'[d].failed = call[d].failed
  BY <1>6, <1>8
<1>16. QED
  BY <1>5, <1>7, <1>8, <1>10, <1>11, <1>12, <1>13, <1>14, <1>15 DEF Starts

LEMMA RestartFacts ==
    ASSUME TypeOK, CallsOK, Restart
    PROVE  /\ CallsOK' /\ PlanInv' /\ StoreOK' /\ calls' \in 0..MaxCalls
           /\ (\A c \in Callers : call'[c] = Idle /\ IsIdle(c)') /\ alone' = {}
           /\ \A n \in Names : conf'[n] \in {conf[n], NoSection}
<1>1. call' = [c \in Callers |-> Idle]
  BY DEF Restart
<1>2. CallsOK' /\ (\A c \in Callers : call'[c] = Idle /\ IsIdle(c)')
  BY <1>1, IdleIs DEF CallsOK, Idle, IsIdle
<1>3. PlanInv'
  <2>1. "StopBlock" \in Ops
    BY OpsAre DEF AllOps
  <2>2. QED
    BY <1>2, <2>1, PlanStarts DEF PlanInv, Idle, IsIdle
<1>4. NoSection \in Sections
  BY DEF NoSection, Sections
<1>5. conf' \in [Names -> Sections] /\ \A n \in Names : conf'[n] \in {conf[n], NoSection}
  <2>1. conf' = conf \/ conf' = [n \in Names |-> NoSection]
    BY DEF Restart
  <2>2. QED
    BY <1>4, <2>1 DEF TypeOK
<1>6. StoreOK' /\ calls' \in 0..MaxCalls /\ alone' = {}
  BY <1>5, DataStoreAssumption DEF Restart, TypeOK, StoreOK
<1>7. QED
  BY <1>2, <1>3, <1>5, <1>6

\* How a step of c ends.
GoesOn(c, way) ==
    /\ Runs(c) /\ call'[c].failed = (way = "loses" \/ call[c].failed)
    /\ Follows(call[c].op, Doing(c), Doing(c)') /\ Doing(c)' # "end"
    /\ call'[c].src = IF Doing(c) = "ReadFile" THEN xml[call[c].name] ELSE call[c].src
    /\ Doing(c) = "ListDir" => call'[c].scan = {n \in Names : xml[n] # NoFile}
Tells(c, way) ==
    /\ Answered(c)
    /\ way \in {"goes", "loses"} => /\ call'[c].ok = "STORE_OK"
                                   /\ Follows(call[c].op, Doing(c), "end")
    /\ way \in {"refused", "fails"} => call'[c].ok \in Refusals
    /\ c \in alone => call'[c].failed = (way \in {"loses", "fails"} \/ call[c].failed)

LEMMA StepCases ==
    ASSUME CallsOK, PlanInv, NEW c \in Callers, StepsTo(c)
    PROVE  \/ Looks(c) /\ Runs(c) /\ Doing(c)' = "Scan"
           \/ \E way \in {"goes", "loses"} : Parts(c, way) /\ Gate(c, way) /\ GoesOn(c, way)
           \/ \E way \in Ways : Parts(c, way) /\ Gate(c, way) /\ Tells(c, way)
<1>1. /\ call[c].name \in Names /\ Tail(call[c].todo) \in Plans(call[c].op)
      /\ Follows(call[c].op, Doing(c), NextOf(call[c].todo))
      /\ call[c].todo # <<>> /\ call[c].op \in Ops
  BY CallIs DEF StepsTo, IsIdle
<1>2. ASSUME NEW answer, NEW failed \in BOOLEAN, Ended(c, answer, failed)
      PROVE  Answered(c) /\ call'[c].ok = answer /\ (c \in alone => call'[c].failed = failed)
  BY <1>2 DEF Ended, Answered, IsIdle
<1>3. ASSUME NEW src, NEW scan, NEW failed, Continues(c, src, scan, failed),
             Doing(c) # "ReadFile" => src = call[c].src
      PROVE  /\ Runs(c) /\ call'[c].failed = failed
             /\ Follows(call[c].op, Doing(c), Doing(c)') /\ Doing(c)' # "end"
             /\ call'[c].src = src /\ call'[c].scan = scan
  <2>1. Doing(c)' = NextOf(call[c].todo)
    BY <1>3 DEF Continues, Doing, NextOf
  <2>2. Follows(call[c].op, Head(Tail(call[c].todo)), NextOf(Tail(call[c].todo)))
    BY <1>1, <1>3, PlanFacts DEF Continues
  <2>3. Doing(c)' # "end"
    BY <1>1, <1>3, <2>2, OpsAre DEF Continues, Doing, Follows, AllOps
  <2>4. QED
    BY <1>1, <1>3, <2>1, <2>3 DEF Continues, Runs, IsIdle
<1>4. CASE Looks(c)
  <2>1. Doing(c)' = "Scan" /\ Doing(c) = "Scan"
    BY <1>4 DEF Looks, Reads, Doing
  <2>2. Runs(c)
    <3>1. PICK scan : Reads(c, scan)
      BY <1>4 DEF Looks
    <3>2. call[c].todo \in Plans(call[c].op)
      BY CallIs
    <3>3. QED
      BY <1>1, <2>1, <3>1, <3>2 DEF Reads, Runs, IsIdle
  <2>3. QED
    BY <1>4, <2>1, <2>2
<1>5. ASSUME NEW way \in {"goes", "loses"}, Parts(c, way), Gate(c, way), Outcome(c, way)
      PROVE  GoesOn(c, way) \/ Tells(c, way)
  <2>a. call[c].failed \in BOOLEAN /\ (way = "loses" => Doing(c) \in ConfSteps)
    BY <1>5, CallIs DEF Gate
  <2>1. CASE Doing(c) = "ListDir"
    BY <1>3, <1>5, <2>a, <2>1 DEF Outcome, GoesOn, ConfSteps
  <2>2. CASE Doing(c) = "ReadFile"
    BY <1>3, <1>5, <2>a, <2>2 DEF Outcome, GoesOn, ConfSteps
  <2>3. CASE Doing(c) \notin {"ListDir", "ReadFile"} /\ Tail(call[c].todo) # <<>>
    BY <1>3, <1>5, <2>a, <2>3 DEF Outcome, Goes, GoesOn
  <2>4. CASE Doing(c) \notin {"ListDir", "ReadFile"} /\ Tail(call[c].todo) = <<>>
    BY <1>1, <1>2, <1>5, <2>a, <2>4 DEF Outcome, Goes, Tells, NextOf
  <2>5. QED
    BY <2>1, <2>2, <2>3, <2>4
<1>6. ASSUME NEW way \in {"refused", "fails"}, Outcome(c, way)
      PROVE  Tells(c, way)
  <2>1. CASE way = "refused"
    BY <1>2, <1>6, <2>1, CallIs DEF Outcome, Tells
  <2>2. CASE way = "fails"
    BY <1>2, <1>6, <2>2 DEF Outcome, Tells
  <2>3. QED
    BY <2>1, <2>2
<1>7. QED
  BY <1>4, <1>5, <1>6 DEF StepsTo, Ways

-----------------------------------------------------------------------------
(* Types, plans, and requests side by side.                                *)

LEMMA TypeStep ==
    ASSUME TypeOK, CallsOK', StoreOK', calls' \in 0..MaxCalls, alone' \in SUBSET Callers,
           dirty' \in SUBSET Names
    PROVE  TypeOK'
  BY DEF CallsOK, CallType, StoreOK, TypeOK

LEMMA PlanStep ==
    ASSUME CallsOK, PlanInv, NEW c \in Callers, StepsTo(c)
    PROVE  PlanInv'
<1>1. CallsOK' /\ (\A d \in Callers \ {c} : call'[d] = call[d]) /\ (Answered(c) \/ Runs(c))
  BY AfterStep
<1>2. call'[c].op \in Ops /\ call[c].op \in Ops /\ ~IsIdle(c)
  BY <1>1 DEF CallsOK, CallType, StepsTo
<1>3. /\ call'[c].todo \in Plans(call'[c].op)
      /\ ~IsIdle(c)' => call'[c].name \in Names
      /\ call'[c].op = "CreateLocal" => call'[c].src \in Disks
      /\ call'[c].op = "CreateBlock" => call'[c].src \in Targets
  <2>1. CASE Answered(c)
    BY <1>2, <2>1, PlanStarts DEF Answered, IsIdle, PlanInv
  <2>2. CASE Runs(c)
    <3>1. Doing(c) = "ReadFile" => call[c].op \notin Creations
      BY <1>2, CallIs DEF Follows, Creations
    <3>2. QED
      BY <1>2, <2>2, <3>1 DEF Runs, PlanInv, Creations
  <2>3. QED
    BY <1>1, <2>1, <2>2
<1>4. QED
  BY <1>1, <1>3 DEF PlanInv, IsIdle

LEMMA DirtyStep ==
    ASSUME CallsOK, PlanInv, DirtyInv, NEW c \in Callers, StepsTo(c)
    PROVE  DirtyInv'
<1>1. (\A d \in Callers \ {c} : call'[d] = call[d]) /\ (Answered(c) \/ Runs(c))
  BY AfterStep
<1>2. dirty' = dirty /\ ~IsIdle(c)
  BY DEF StepsTo, OnlyOwn, history
<1>3. ~IsIdle(c)' => /\ call'[c].op = call[c].op /\ call'[c].name = call[c].name
                     /\ call[c].op = "CreateBlock" => call'[c].src = call[c].src
  <2>1. Doing(c) = "ReadFile" => call[c].op # "CreateBlock"
    BY <1>2, CallIs DEF Follows
  <2>2. QED
    BY <1>1, <2>1 DEF Answered, Runs
<1>4. \A d \in Callers \ {c} : IsIdle(d)' <=> IsIdle(d)
  BY <1>1 DEF IsIdle
<1>5. QED
  BY <1>1, <1>2, <1>3, <1>4 DEF DirtyInv

LEMMA AloneStep ==
    ASSUME CallsOK, PlanInv, AloneInv, NEW c \in Callers, StepsTo(c)
    PROVE  AloneInv' /\ \A d \in alone : d = c
<1>1. \A d \in Callers \ {c} : call'[d] = call[d]
  BY AfterStep
<1>2. alone' = alone /\ ~IsIdle(c)
  BY DEF StepsTo, OnlyOwn, history
<1>3. \A d \in alone : d = c
  BY <1>2 DEF AloneInv
<1>4. QED
  BY <1>1, <1>2, <1>3 DEF AloneInv, IsIdle

LEMMA StartPlans ==
    ASSUME CallsOK, PlanInv, DirtyInv, AloneInv, NEW c \in Callers, NEW op \in Ops,
           NEW n \in Names, NEW src \in SourcesOf(op), Starts(c, op, n, src)
    PROVE  PlanInv' /\ DirtyInv' /\ AloneInv'
<1>1. \A d \in Callers \ {c} :
          /\ IsIdle(d)' <=> IsIdle(d)
          /\ IsIdle(d) => call'[d] = Idle
          /\ ~IsIdle(d) => /\ call'[d].op = call[d].op /\ call'[d].name = call[d].name
                           /\ call'[d].src = call[d].src /\ call'[d].todo = call[d].todo
                           /\ call'[d].failed = call[d].failed
  <2>1. Idle.todo = <<>>
    BY DEF Idle
  <2>2. QED
    BY <2>1 DEF Starts, IsIdle
<1>2. PlanInv'
  <2>1. "StopBlock" \in Ops /\ <<>> \in Plans("StopBlock") /\ Steps[op] \in Plans(op)
    BY OpsAre, PlanStarts DEF AllOps
  <2>2. ASSUME NEW d \in Callers \ {c}
        PROVE  /\ call'[d].todo \in Plans(call'[d].op)
               /\ ~IsIdle(d)' => call'[d].name \in Names
               /\ call'[d].op = "CreateLocal" => call'[d].src \in Disks
               /\ call'[d].op = "CreateBlock" => call'[d].src \in Targets
    <3>1. CASE IsIdle(d)
      BY <1>1, <2>1, <3>1 DEF Idle
    <3>2. CASE ~IsIdle(d)
      BY <1>1, <3>2 DEF PlanInv
    <3>3. QED
      BY <3>1, <3>2
  <2>3. /\ call'[c].op = op /\ call'[c].name = n /\ call'[c].src = src
        /\ call'[c].todo = Steps[op] /\ call'[c].failed = FALSE
    BY DEF Starts
  <2>4. QED
    BY <2>1, <2>2, <2>3 DEF PlanInv, SourcesOf, IsIdle
<1>3. DirtyInv'
  BY <1>1 DEF DirtyInv, Starts
<1>4. AloneInv'
  BY <1>1 DEF AloneInv, Starts
<1>5. QED
  BY <1>2, <1>3, <1>4

-----------------------------------------------------------------------------
(* What a step finds.                                                      *)

LEMMA SectionFacts ==
    ASSUME NEW x \in Sections
    PROVE  /\ [x EXCEPT !.state = "inactive"].state = "inactive"
           /\ [x EXCEPT !.state = "inactive"].auto = x.auto
           /\ [x EXCEPT !.state = "active"].state = "active"
           /\ [x EXCEPT !.state = "active"].auto = x.auto
           /\ [x EXCEPT !.auto = TRUE].state = x.state
           /\ [x EXCEPT !.auto = TRUE].auto = TRUE
  BY DEF Sections

\* What the step s of c finds, its source and its parts.
LEMMA Found ==
    ASSUME TypeOK, CallsOK, PlanInv, NEW c \in Callers, StepsTo(c)
    PROVE  /\ ~IsIdle(c) /\ call[c].name \in Names
           /\ Follows(call[c].op, Doing(c), NextOf(call[c].todo)) /\ call[c].op \in AllOps
           /\ xml[call[c].name] \in Sources \cup {NoFile, Torn}
           /\ call[c].op = "CreateLocal" => call[c].src \in Disks
           /\ call[c].op = "CreateBlock" => call[c].src \in Targets
           /\ conf[call[c].name] \in Sections
           /\ Disks \cap Targets = {} /\ NoFile \notin Sources /\ Torn \notin Sources
           /\ NoFile # Torn /\ NoDisk \notin Sources
<1>1. ~IsIdle(c)
  BY DEF StepsTo
<1>2. NoFile \notin Sources /\ Torn \notin Sources /\ NoDisk \notin Sources /\ NoFile # Torn
  BY NamesAssumption DEF NoFile, Torn
<1>3. call[c].name \in Names /\ call[c].op \in AllOps
      /\ Follows(call[c].op, Doing(c), NextOf(call[c].todo))
  BY <1>1, CallIs, OpsAre
<1>4. QED
  BY <1>1, <1>2, <1>3, DataStoreAssumption DEF TypeOK, PlanInv

-----------------------------------------------------------------------------
(* The files of the names that a restart has dropped.                      *)

\* The requests for such a name are refused, and change neither the list nor the file.
LEMMA OrphanKept ==
    ASSUME CallsOK, PlanInv, OrphanInv, NEW c \in Callers, StepsTo(c), call[c].name \in orphans
    PROVE  /\ xml'[call[c].name] = xml[call[c].name] /\ call[c].name \notin list'
           /\ Runs(c) => /\ call[c].op \in Creations => Doing(c)' \in Checking
                         /\ call[c].op # "DeleteLocal"
<1> DEFINE n == call[c].name
           s == Doing(c)
<1>1. /\ ~IsIdle(c) /\ xml[n] # NoFile /\ n \notin list
      /\ call[c].op \in Creations => s \in Checking
      /\ call[c].op = "DeleteLocal" => s = "Pop"
  BY DEF OrphanInv, StepsTo
<1>2. call[c].op \in AllOps /\ Follows(call[c].op, s, NextOf(call[c].todo))
  BY <1>1, CallIs, OpsAre
<1>3. s \notin {"Append", "Open", "RemoveFile", "Write"}
  BY <1>1, <1>2 DEF AllOps, Follows, Creations, Checking
<1>4. CASE Looks(c) /\ Runs(c) /\ Doing(c)' = "Scan"
  <2>1. call[c].op \in Creations
    BY <1>2, <1>4 DEF Looks, AllOps, Follows, Creations
  <2>2. QED
    BY <1>1, <1>4, <2>1 DEF Looks, Checking
<1>5. ASSUME NEW way \in {"goes", "loses"}, Parts(c, way), Gate(c, way), GoesOn(c, way)
      PROVE  /\ xml'[n] = xml[n] /\ n \notin list'
             /\ Runs(c) => /\ call[c].op \in Creations => Doing(c)' \in Checking
                           /\ call[c].op # "DeleteLocal"
  <2>1. xml'[n] = xml[n] /\ n \notin list'
    BY <1>1, <1>3, <1>5 DEF Parts
  <2>2. s # "NoFile" /\ s # "Pop"
    BY <1>1, <1>5 DEF Gate, ConfSteps
  <2>3. call[c].op \in Creations => Doing(c)' \in Checking
    BY <1>1, <1>5, <2>2 DEF GoesOn, Creations, Checking, Follows
  <2>4. QED
    BY <1>1, <2>1, <2>2, <2>3
<1>6. ASSUME NEW way \in Ways, Parts(c, way), Gate(c, way), Tells(c, way)
      PROVE  xml'[n] = xml[n] /\ n \notin list' /\ ~Runs(c)
  <2>1. xml'[n] = xml[n] /\ n \notin list'
    BY <1>1, <1>3, <1>6 DEF Parts
  <2>2. QED
    BY <1>6, <2>1 DEF Tells, Answered, Runs
<1>7. QED
  BY <1>4, <1>5, <1>6, StepCases

\* A name whose section or file could not be removed joins them.
LEMMA OrphanJoins ==
    ASSUME TypeOK, CallsOK, PlanInv, DirtyInv, StageInv, NEW c \in Callers, StepsTo(c),
           call[c].name \notin orphans, call[c].name \in orphans'
    PROVE  /\ xml'[call[c].name] # NoFile /\ call[c].name \notin list' /\ Answered(c)
           /\ \A d \in Callers \ {c} : ~IsIdle(d) => call[d].name # call[c].name
<1> DEFINE n == call[c].name
<1>1. PICK way \in Ways : Parts(c, way) /\ Gate(c, way) /\ Outcome(c, way)
  BY DEF StepsTo, Looks
<1>2. way = "fails" /\ Doing(c) \in {"DeleteSection", "RemoveFile"} /\ n \notin dirty
  BY <1>1 DEF Parts
<1>3. call[c].op = "DeleteLocal"
  BY <1>2, Found DEF AllOps, Follows
<1>4. n \notin list /\ xml[n] \in Disks
  BY <1>2, <1>3, Found DEF StageInv, StageNow, StageOf
<1>5. xml'[n] # NoFile /\ n \notin list'
  BY <1>1, <1>2, <1>4, Found DEF Parts, Sources
<1>6. Answered(c)
  <2>1. PICK answer \in Refusals : Ended(c, answer, TRUE)
    BY <1>1, <1>2 DEF Outcome
  <2>2. QED
    BY <2>1 DEF Ended, Answered, IsIdle
<1>7. ~IsIdle(c)
  BY DEF StepsTo
<1>8. QED
  BY <1>2, <1>5, <1>6, <1>7 DEF DirtyInv

LEMMA OrphanStep ==
    ASSUME TypeOK, CallsOK, PlanInv, DirtyInv, OrphanInv, StageInv, NEW c \in Callers, StepsTo(c)
    PROVE  OrphanInv' /\ \A n \in orphans : xml'[n] = xml[n]
<1>1. (\A d \in Callers \ {c} : call'[d] = call[d]) /\ (Answered(c) \/ Runs(c))
  BY AfterStep
<1>2. /\ orphans \in SUBSET Names /\ orphans' \in SUBSET Names /\ ~IsIdle(c) /\ call[c].name \in Names
      /\ \A m \in Names \ {call[c].name} :
            xml'[m] = xml[m] /\ (m \in list' <=> m \in list) /\ (m \in orphans' <=> m \in orphans)
  BY CallIs DEF StepsTo, OnlyOwn, StoreOK, TypeOK
<1>3. ASSUME NEW n \in orphans
      PROVE  /\ xml'[n] = xml[n] /\ n \notin list'
             /\ Runs(c) /\ call[c].name = n =>
                   /\ call[c].op \in Creations => Doing(c)' \in Checking
                   /\ call[c].op # "DeleteLocal"
  BY <1>2, OrphanKept DEF OrphanInv
<1>4. ASSUME NEW n \in orphans' \ orphans
      PROVE  /\ xml'[n] # NoFile /\ n \notin list' /\ n = call[c].name /\ Answered(c)
             /\ \A d \in Callers \ {c} : ~IsIdle(d) => call[d].name # n
  BY <1>2, <1>4, OrphanJoins
<1>5. ASSUME NEW n \in orphans', NEW d \in Callers, ~IsIdle(d)', call'[d].name = n
      PROVE  /\ call'[d].op \in Creations => Doing(d)' \in Checking
             /\ call'[d].op = "DeleteLocal" => Doing(d)' = "Pop"
  <2>1. CASE d = c
    BY <1>1, <1>3, <1>4, <1>5, <2>1 DEF Answered, Runs
  <2>2. CASE d # c
    <3>1. call'[d] = call[d] /\ ~IsIdle(d) /\ Doing(d)' = Doing(d)
      BY <1>1, <1>5, <2>2 DEF IsIdle, Doing
    <3>2. n \in orphans
      BY <1>4, <1>5, <2>2, <3>1
    <3>3. QED
      BY <1>5, <3>1, <3>2 DEF OrphanInv
  <2>3. QED
    BY <2>1, <2>2
<1>6. \A n \in orphans' : xml'[n] # NoFile /\ n \notin list'
  BY <1>3, <1>4 DEF OrphanInv
<1>7. QED
  BY <1>3, <1>5, <1>6 DEF OrphanInv

\* A name is dropped with its file, when there is no request.
LEMMA OrphanStart ==
    ASSUME CallsOK, PlanInv, OrphanInv, NEW c \in Callers, NEW op \in Ops,
           NEW n \in Names, NEW src \in SourcesOf(op), Starts(c, op, n, src)
    PROVE  OrphanInv'
<1>1. UNCHANGED <<list, xml, orphans>>
  BY DEF Starts, store
<1>2. Head(Steps[op]) = CASE op \in Creations -> "NotListed" [] op = "DeleteLocal" -> "Pop"
                          [] OTHER -> "HasFile"
  BY PlanStarts
<1>3. /\ op \in Creations => Doing(c)' \in Checking
      /\ op = "DeleteLocal" => Doing(c)' = "Pop"
  BY <1>2 DEF Starts, Doing, Checking, Creations
<1>4. \A d \in Callers \ {c} : ~IsIdle(d)' =>
          /\ ~IsIdle(d) /\ call'[d].op = call[d].op /\ call'[d].name = call[d].name
          /\ Doing(d)' = Doing(d)
  BY DEF Starts, IsIdle, Idle, Doing
<1>5. call'[c].op = op
  BY DEF Starts
<1>6. QED
  BY <1>1, <1>3, <1>4, <1>5 DEF OrphanInv

-----------------------------------------------------------------------------
(* The list, the files and the sections.                                   *)

LEMMA StageGoesOn ==
    ASSUME TypeOK, CallsOK, PlanInv, OrphanInv, NEW c \in Callers, StepsTo(c), StageNow(c),
           NEW way \in {"goes", "loses"}, Parts(c, way), Gate(c, way), GoesOn(c, way)
    PROVE  StageNow(c)'
<1> DEFINE n == call[c].name
           s == Doing(c)
           t == Doing(c)'
<1>1. /\ call'[c].name = n /\ call'[c].op = call[c].op /\ Follows(call[c].op, s, t)
      /\ call'[c].src = IF s = "ReadFile" THEN xml[n] ELSE call[c].src
      /\ (n \in orphans' <=> n \in orphans) /\ t # "end"
  BY DEF GoesOn, Runs, Parts
<1>2. SUFFICES StageOf(call'[c], t, n \in list', xml'[n], conf'[n], n \in orphans, n \in unwritten')
  BY <1>1, ZenonT(60) DEF StageNow, StageOf, Whole
<1>3. CASE call[c].op = "CreateLocal"
  <2>1. \/ s = "NotListed" /\ t = "NoFile"
        \/ s = "NoFile" /\ t = "DiskIsFree"
        \/ s = "DiskIsFree" /\ t = "Open"
        \/ s = "Open" /\ t = "Write"
        \/ s = "Write" /\ t = "Append"
        \/ s = "Append" /\ t = "SetState"
        \/ s = "SetState" /\ t = "SetTitle"
        \/ s = "SetTitle" /\ t = "SetAuto"
    BY <1>1, <1>3, Found DEF Follows
  <2>2. CASE s = "NotListed" /\ t = "NoFile"
    BY <1>1, <1>3, <2>2, Found, SectionFacts
       DEF Parts, Gate, StageNow, StageOf, Whole, Creations, ConfSteps, NoSection
  <2>3. CASE s = "NoFile" /\ t = "DiskIsFree"
    BY <1>1, <1>3, <2>3, Found
       DEF OrphanInv, Parts, Gate, StageNow, StageOf, Whole, Creations, ConfSteps, NoSection
  <2>4. CASE s = "DiskIsFree" /\ t = "Open"
    BY <1>1, <1>3, <2>4, Found, SectionFacts
       DEF Parts, Gate, StageNow, StageOf, Whole, Creations, ConfSteps, NoSection
  <2>5. CASE s = "Open" /\ t = "Write"
    BY <1>1, <1>3, <2>5, Found, SectionFacts
       DEF Parts, Gate, StageNow, StageOf, Whole, Creations, ConfSteps, NoSection
  <2>6. CASE s = "Write" /\ t = "Append"
    BY <1>1, <1>3, <2>6, Found, SectionFacts
       DEF Parts, Gate, StageNow, StageOf, Whole, Creations, ConfSteps, NoSection
  <2>7. CASE s = "Append" /\ t = "SetState"
    BY <1>1, <1>3, <2>7, Found, SectionFacts
       DEF Parts, Gate, StageNow, StageOf, Whole, Creations, ConfSteps, NoSection
  <2>8. CASE s = "SetState" /\ t = "SetTitle"
    BY <1>1, <1>3, <2>8, Found, SectionFacts
       DEF Parts, Gate, StageNow, StageOf, Whole, Creations, ConfSteps, NoSection
  <2>9. CASE s = "SetTitle" /\ t = "SetAuto"
    BY <1>1, <1>3, <2>9, Found, SectionFacts
       DEF Parts, Gate, StageNow, StageOf, Whole, Creations, ConfSteps, NoSection
  <2>10. QED
    BY <2>1, <2>2, <2>3, <2>4, <2>5, <2>6, <2>7, <2>8, <2>9
<1>4. CASE call[c].op = "CreateBlock"
  <2>1. \/ s = "NotListed" /\ t = "NoFile"
        \/ s = "NoFile" /\ t = "ListDir"
        \/ s = "ListDir" /\ t = "Scan"
        \/ s = "Scan" /\ t = "Open"
        \/ s = "Open" /\ t = "Write"
        \/ s = "Write" /\ t = "AppendString"
    BY <1>1, <1>4, Found DEF Follows
  <2>2. CASE s = "NotListed" /\ t = "NoFile"
    BY <1>1, <1>4, <2>2, Found, SectionFacts
       DEF Parts, Gate, StageNow, StageOf, Whole, Creations, ConfSteps, NoSection
  <2>3. CASE s = "NoFile" /\ t = "ListDir"
    BY <1>1, <1>4, <2>3, Found
       DEF OrphanInv, Parts, Gate, StageNow, StageOf, Whole, Creations, ConfSteps, NoSection
  <2>4. CASE s = "ListDir" /\ t = "Scan"
    BY <1>1, <1>4, <2>4, Found, SectionFacts
       DEF Parts, Gate, StageNow, StageOf, Whole, Creations, ConfSteps, NoSection
  <2>5. CASE s = "Scan" /\ t = "Open"
    BY <1>1, <1>4, <2>5, Found, SectionFacts
       DEF Parts, Gate, StageNow, StageOf, Whole, Creations, ConfSteps, NoSection
  <2>6. CASE s = "Open" /\ t = "Write"
    BY <1>1, <1>4, <2>6, Found, SectionFacts
       DEF Parts, Gate, StageNow, StageOf, Whole, Creations, ConfSteps, NoSection
  <2>7. CASE s = "Write" /\ t = "AppendString"
    BY <1>1, <1>4, <2>7, Found, SectionFacts
       DEF Parts, Gate, StageNow, StageOf, Whole, Creations, ConfSteps, NoSection
  <2>8. QED
    BY <2>1, <2>2, <2>3, <2>4, <2>5, <2>6, <2>7
<1>5. CASE call[c].op = "DeleteLocal"
  <2>1. \/ s = "Pop" /\ t = "HasFile"
        \/ s = "HasFile" /\ t = "DeleteSection"
        \/ s = "DeleteSection" /\ t = "RemoveFile"
    BY <1>1, <1>5, Found DEF Follows
  <2>2. CASE s = "Pop" /\ t = "HasFile"
    BY <1>1, <1>5, <2>2, Found
       DEF Parts, Gate, StageNow, StageOf, Whole, Creations, ConfSteps
  <2>3. CASE s = "HasFile" /\ t = "DeleteSection"
    BY <1>1, <1>5, <2>3, Found
       DEF Parts, Gate, StageNow, StageOf, Whole, Creations, ConfSteps
  <2>4. CASE s = "DeleteSection" /\ t = "RemoveFile"
    BY <1>1, <1>5, <2>4, Found
       DEF Parts, Gate, StageNow, StageOf, Whole, Creations, ConfSteps
  <2>5. QED
    BY <2>1, <2>2, <2>3, <2>4
<1>6. CASE call[c].op = "StartLocal"
  <2>1. \/ s = "HasFile" /\ t = "ReadFile"
        \/ s = "ReadFile" /\ t = "Mount"
        \/ s = "Mount" /\ t = "SetActive"
    BY <1>1, <1>6, Found DEF Follows
  <2>2. CASE s = "HasFile" /\ t = "ReadFile"
    BY <1>1, <1>6, <2>2, Found, SectionFacts
       DEF Parts, Gate, StageNow, StageOf, Whole, Creations, ConfSteps, NoSection, Sources
  <2>3. CASE s = "ReadFile" /\ t = "Mount"
    BY <1>1, <1>6, <2>3, Found, SectionFacts
       DEF Parts, Gate, StageNow, StageOf, Whole, Creations, ConfSteps, NoSection, Sources
  <2>4. CASE s = "Mount" /\ t = "SetActive"
    BY <1>1, <1>6, <2>4, Found, SectionFacts
       DEF Parts, Gate, StageNow, StageOf, Whole, Creations, ConfSteps, NoSection, Sources
  <2>5. QED
    BY <2>1, <2>2, <2>3, <2>4
<1>7. CASE call[c].op = "StopLocal"
  <2>1. \/ s = "HasFile" /\ t = "ReadFile"
        \/ s = "ReadFile" /\ t = "NotBusy"
        \/ s = "NotBusy" /\ t = "Umount"
        \/ s = "Umount" /\ t = "SetInactive"
    BY <1>1, <1>7, Found DEF Follows
  <2>2. CASE s = "HasFile" /\ t = "ReadFile"
    BY <1>1, <1>7, <2>2, Found, SectionFacts
       DEF Parts, Gate, StageNow, StageOf, Whole, Creations, ConfSteps, NoSection, Sources
  <2>3. CASE s = "ReadFile" /\ t = "NotBusy"
    BY <1>1, <1>7, <2>3, Found, SectionFacts
       DEF Parts, Gate, StageNow, StageOf, Whole, Creations, ConfSteps, NoSection, Sources
  <2>4. CASE s = "NotBusy" /\ t = "Umount"
    BY <1>1, <1>7, <2>4, Found, SectionFacts
       DEF Parts, Gate, StageNow, StageOf, Whole, Creations, ConfSteps, NoSection, Sources
  <2>5. CASE s = "Umount" /\ t = "SetInactive"
    BY <1>1, <1>7, <2>5, Found, SectionFacts
       DEF Parts, Gate, StageNow, StageOf, Whole, Creations, ConfSteps, NoSection, Sources
  <2>6. QED
    BY <2>1, <2>2, <2>3, <2>4, <2>5
<1>8. CASE call[c].op \in {"DeleteBlock", "StartBlock", "StopBlock"}
  BY <1>1, <1>8, Found DEF Follows, Parts, Gate, StageNow, StageOf, Whole, Creations, ConfSteps
<1>9. QED
  BY <1>3, <1>4, <1>5, <1>6, <1>7, <1>8, Found DEF AllOps

LEMMA StageTells ==
    ASSUME TypeOK, CallsOK, PlanInv, NEW c \in Callers, StepsTo(c), StageNow(c),
           NEW way \in Ways, Parts(c, way), Gate(c, way), Tells(c, way), call[c].name \notin dirty
    PROVE  Whole(call[c].name \in list', xml'[call[c].name], conf'[call[c].name],
                 call[c].name \in orphans', call[c].name \in unwritten')
<1> DEFINE n == call[c].name
           s == Doing(c)
<1>1. /\ way \in {"goes", "loses"} => Follows(call[c].op, s, "end")
      /\ n \in orphans => n \in orphans'
  BY DEF Tells, Parts
<1>2. CASE call[c].op = "CreateLocal"
  <2>1. s \in {"NotListed", "NoFile", "DiskIsFree", "Open", "Write", "Append", "SetState", "SetTitle", "SetAuto"}
    BY <1>2, Found DEF Follows
  <2>2. CASE s = "NotListed"
    BY <1>1, <1>2, <2>2, Found, SectionFacts
       DEF Ways, Follows, Parts, Gate, StageNow, StageOf, Whole, Creations, ConfSteps, NoSection
  <2>3. CASE s = "NoFile"
    BY <1>1, <1>2, <2>3, Found, SectionFacts
       DEF Ways, Follows, Parts, Gate, StageNow, StageOf, Whole, Creations, ConfSteps, NoSection
  <2>4. CASE s = "DiskIsFree"
    BY <1>1, <1>2, <2>4, Found, SectionFacts
       DEF Ways, Follows, Parts, Gate, StageNow, StageOf, Whole, Creations, ConfSteps, NoSection
  <2>5. CASE s = "Open"
    BY <1>1, <1>2, <2>5, Found, SectionFacts
       DEF Ways, Follows, Parts, Gate, StageNow, StageOf, Whole, Creations, ConfSteps, NoSection
  <2>6. CASE s = "Write"
    BY <1>1, <1>2, <2>6, Found, SectionFacts
       DEF Ways, Follows, Parts, Gate, StageNow, StageOf, Whole, Creations, ConfSteps, NoSection
  <2>7. CASE s = "Append"
    BY <1>1, <1>2, <2>7, Found, SectionFacts
       DEF Ways, Failing, Follows, Parts, Gate, StageNow, StageOf, Whole, Creations, ConfSteps, NoSection
  <2>8. CASE s = "SetState"
    BY <1>1, <1>2, <2>8, Found, SectionFacts
       DEF Ways, Follows, Parts, Gate, StageNow, StageOf, Whole, Creations, ConfSteps, NoSection
  <2>9. CASE s = "SetTitle"
    BY <1>1, <1>2, <2>9, Found, SectionFacts
       DEF Ways, Follows, Parts, Gate, StageNow, StageOf, Whole, Creations, ConfSteps, NoSection
  <2>10. CASE s = "SetAuto"
    BY <1>1, <1>2, <2>10, Found, SectionFacts
       DEF Ways, Follows, Parts, Gate, StageNow, StageOf, Whole, Creations, ConfSteps, NoSection
  <2>11. QED
    BY <2>1, <2>2, <2>3, <2>4, <2>5, <2>6, <2>7, <2>8, <2>9, <2>10
<1>3. CASE call[c].op = "CreateBlock"
  BY <1>1, <1>3, Found
     DEF Ways, Follows, Parts, Gate, StageNow, StageOf, Whole, Creations, ConfSteps
<1>4. CASE call[c].op = "DeleteLocal"
  <2>1. s \in {"Pop", "HasFile", "DeleteSection", "RemoveFile"}
    BY <1>4, Found DEF Follows
  <2>2. CASE s = "Pop"
    BY <1>1, <1>4, <2>2, Found, SectionFacts
       DEF Ways, Failing, Follows, Parts, Gate, StageNow, StageOf, Whole, Creations, ConfSteps, NoSection
  <2>3. CASE s = "HasFile"
    BY <1>1, <1>4, <2>3, Found
       DEF Ways, Failing, Follows, Parts, Gate, StageNow, StageOf, Creations, ConfSteps, Sources
  <2>4. CASE s = "DeleteSection"
    BY <1>1, <1>4, <2>4, Found, SectionFacts
       DEF Ways, Follows, Parts, Gate, StageNow, StageOf, Whole, Creations, ConfSteps, NoSection
  <2>5. CASE s = "RemoveFile"
    BY <1>1, <1>4, <2>5, Found, SectionFacts
       DEF Ways, Follows, Parts, Gate, StageNow, StageOf, Whole, Creations, ConfSteps, NoSection
  <2>6. QED
    BY <2>1, <2>2, <2>3, <2>4, <2>5
<1>5. CASE call[c].op = "StartLocal"
  <2>1. s \in {"HasFile", "ReadFile", "Mount", "SetActive"}
    BY <1>5, Found DEF Follows
  <2>2. CASE s = "HasFile"
    BY <1>1, <1>5, <2>2, Found, SectionFacts
       DEF Ways, Follows, Parts, Gate, StageNow, StageOf, Whole, Creations, ConfSteps, NoSection, Sources
  <2>3. CASE s = "ReadFile"
    BY <1>1, <1>5, <2>3, Found, SectionFacts
       DEF Ways, Follows, Parts, Gate, StageNow, StageOf, Whole, Creations, ConfSteps, NoSection, Sources
  <2>4. CASE s = "Mount"
    BY <1>1, <1>5, <2>4, Found, SectionFacts
       DEF Ways, Follows, Parts, Gate, StageNow, StageOf, Whole, Creations, ConfSteps, NoSection, Sources
  <2>5. CASE s = "SetActive"
    BY <1>1, <1>5, <2>5, Found, SectionFacts
       DEF Ways, Follows, Parts, Gate, StageNow, StageOf, Whole, Creations, ConfSteps, NoSection, Sources
  <2>6. QED
    BY <2>1, <2>2, <2>3, <2>4, <2>5
<1>6. CASE call[c].op = "StopLocal"
  <2>1. s \in {"HasFile", "ReadFile", "NotBusy", "Umount", "SetInactive"}
    BY <1>6, Found DEF Follows
  <2>2. CASE s = "HasFile"
    BY <1>1, <1>6, <2>2, Found, SectionFacts
       DEF Ways, Follows, Parts, Gate, StageNow, StageOf, Whole, Creations, ConfSteps, NoSection, Sources
  <2>3. CASE s = "ReadFile"
    BY <1>1, <1>6, <2>3, Found, SectionFacts
       DEF Ways, Follows, Parts, Gate, StageNow, StageOf, Whole, Creations, ConfSteps, NoSection, Sources
  <2>4. CASE s = "NotBusy"
    BY <1>1, <1>6, <2>4, Found, SectionFacts
       DEF Ways, Follows, Parts, Gate, StageNow, StageOf, Whole, Creations, ConfSteps, NoSection, Sources
  <2>5. CASE s = "Umount"
    BY <1>1, <1>6, <2>5, Found, SectionFacts
       DEF Ways, Follows, Parts, Gate, StageNow, StageOf, Whole, Creations, ConfSteps, NoSection, Sources
  <2>6. CASE s = "SetInactive"
    BY <1>1, <1>6, <2>6, Found, SectionFacts
       DEF Ways, Follows, Parts, Gate, StageNow, StageOf, Whole, Creations, ConfSteps, NoSection, Sources
  <2>7. QED
    BY <2>1, <2>2, <2>3, <2>4, <2>5, <2>6
<1>7. CASE call[c].op \in {"DeleteBlock", "StartBlock", "StopBlock"}
  BY <1>1, <1>7, Found
     DEF Ways, Follows, Parts, Gate, StageNow, StageOf, Whole, Creations, ConfSteps
<1>8. QED
  BY <1>2, <1>3, <1>4, <1>5, <1>6, <1>7, Found DEF AllOps

\* The parts of a name that is left alone tell the same.
LEMMA StageSame ==
    ASSUME NEW n, NEW r, NEW q, NEW s, q.op = r.op, q.src = r.src, n \in list' <=> n \in list,
           xml'[n] = xml[n], n \in orphans' <=> n \in orphans,
           \/ conf'[n] = conf[n] /\ (n \in unwritten' <=> n \in unwritten)
           \/ conf'[n] = NoSection /\ (n \in unwritten' <=> (n \in unwritten \/ conf[n] # NoSection))
    PROVE  /\ WholeNow(n) => WholeNow(n)'
           /\ StageOf(r, s, n \in list, xml[n], conf[n], n \in orphans, n \in unwritten)
                => StageOf(q, s, n \in list', xml'[n], conf'[n], n \in orphans', n \in unwritten')
<1>1. WholeNow(n) => WholeNow(n)'
  BY DEF WholeNow, Whole, NoSection
<1>2. QED
  BY <1>1 DEF WholeNow, StageOf, NoSection

LEMMA StageStep ==
    ASSUME TypeOK, CallsOK, PlanInv, DirtyInv, OrphanInv, StageInv, NEW c \in Callers, StepsTo(c)
    PROVE  StageInv'
<1> DEFINE n == call[c].name
<1>1. /\ \A d \in Callers \ {c} : call'[d] = call[d] /\ Doing(d)' = Doing(d)
      /\ ~IsIdle(c) /\ dirty' = dirty
      /\ \A m \in Names \ {n} :
            /\ m \in list' <=> m \in list
            /\ xml'[m] = xml[m] /\ (m \in orphans' <=> m \in orphans)
            /\ \/ conf'[m] = conf[m] /\ (m \in unwritten' <=> m \in unwritten)
               \/ /\ conf'[m] = NoSection
                  /\ m \in unwritten' <=> (m \in unwritten \/ conf[m] # NoSection)
  BY AfterStep DEF StepsTo, OnlyOwn, history, Doing
<1>2. ASSUME NEW d \in Callers, ~IsIdle(d)', call'[d].name \notin dirty'
      PROVE  StageNow(d)'
  <2>1. CASE d = c
    <3>1. Runs(c)
      BY <1>2, <2>1, AfterStep DEF Answered
    <3>2. StageNow(c)
      BY <1>1, <1>2, <2>1, <3>1 DEF StageInv, Runs
    <3>3. CASE Looks(c) /\ Doing(c)' = "Scan"
      <4>1. /\ Doing(c) = "Scan" /\ list' = list /\ xml' = xml /\ conf' = conf
            /\ orphans' = orphans /\ unwritten' = unwritten
            /\ call'[c].op = call[c].op /\ call'[c].src = call[c].src /\ call'[c].name = n
        BY <3>1, <3>3 DEF Looks, store, Reads
      <4>2. QED
        BY <1>1, <2>1, <3>2, <3>3, <4>1, StageSame DEF StageNow
    <3>4. ASSUME NEW way \in {"goes", "loses"}, Parts(c, way), Gate(c, way), GoesOn(c, way)
          PROVE  StageNow(c)'
      BY <3>2, <3>4, StageGoesOn
    <3>5. QED
      BY <2>1, <3>1, <3>3, <3>4, StepCases DEF Tells, Answered, Runs
  <2>2. CASE d # c
    <3>1. call'[d] = call[d] /\ ~IsIdle(d) /\ Doing(d)' = Doing(d) /\ call[d].name \in Names
      BY <1>1, <1>2, <2>2, CallIs DEF IsIdle
    <3>2. call[d].name # n
      BY <1>1, <1>2, <2>2, <3>1 DEF DirtyInv
    <3>3. StageNow(d)
      BY <1>1, <1>2, <3>1 DEF StageInv
    <3>4. QED
      BY <1>1, <3>1, <3>2, <3>3, StageSame DEF StageNow
  <2>3. QED
    BY <2>1, <2>2
<1>3. ASSUME NEW m \in Names \ dirty', Quiet(m)'
      PROVE  WholeNow(m)'
  <2>1. CASE m = n
    <3>1. ~Runs(c)
      BY <1>3, <2>1 DEF Quiet, Runs
    <3>2. StageNow(c)
      BY <1>1, <1>3, <2>1 DEF StageInv
    <3>3. PICK way \in Ways : Parts(c, way) /\ Gate(c, way) /\ Tells(c, way)
      BY <3>1, StepCases DEF GoesOn
    <3>4. QED
      BY <1>1, <1>3, <2>1, <3>2, <3>3, StageTells DEF WholeNow
  <2>2. CASE m # n
    <3>1. Quiet(m)
      BY <1>1, <1>3, <2>2 DEF Quiet, IsIdle
    <3>2. WholeNow(m)
      BY <1>1, <1>3, <3>1 DEF StageInv
    <3>3. QED
      BY <1>1, <1>3, <2>2, <3>2, StageSame
  <2>3. QED
    BY <2>1, <2>2
<1>4. QED
  BY <1>2, <1>3 DEF StageInv

LEMMA StageStart ==
    ASSUME TypeOK, CallsOK, PlanInv, StageInv, NEW c \in Callers, NEW op \in Ops,
           NEW n \in Names, NEW src \in SourcesOf(op), Starts(c, op, n, src)
    PROVE  StageInv'
<1>1. UNCHANGED <<list, xml, conf, orphans, unwritten>> /\ dirty \subseteq dirty' /\ IsIdle(c)
  BY DEF Starts, store
<1>2. \A d \in Callers \ {c} :
          /\ IsIdle(d)' <=> IsIdle(d)
          /\ ~IsIdle(d) => /\ call'[d].op = call[d].op /\ call'[d].name = call[d].name
                           /\ call'[d].src = call[d].src /\ Doing(d)' = Doing(d)
  BY DEF Starts, IsIdle, Idle, Doing
<1>3. call'[c].op = op /\ call'[c].name = n /\ Doing(c)' = Head(Steps[op]) /\ ~IsIdle(c)'
  BY DEF Starts, Doing
<1>4. ASSUME NEW d \in Callers, ~IsIdle(d)', call'[d].name \notin dirty'
      PROVE  StageNow(d)'
  <2>1. CASE d = c
    <3>1. Quiet(n) /\ n \notin dirty
      BY <1>1, <1>3, <1>4, <2>1 DEF Starts, Quiet
    <3>2. WholeNow(n)
      BY <3>1 DEF StageInv
    <3>3. StageOf(call'[c], Head(Steps[op]), n \in list, xml[n], conf[n], n \in orphans, n \in unwritten)
      BY <1>3, <3>2, PlanStarts, OpsAre DEF WholeNow, StageOf, Creations
    <3>4. QED
      BY <1>1, <1>3, <2>1, <3>3, StageSame DEF StageNow
  <2>2. CASE d # c
    <3>1. StageNow(d)
      BY <1>1, <1>2, <1>4, <2>2 DEF StageInv
    <3>2. QED
      BY <1>1, <1>2, <1>4, <2>2, <3>1, StageSame DEF StageNow
  <2>3. QED
    BY <2>1, <2>2
<1>5. ASSUME NEW m \in Names \ dirty', Quiet(m)'
      PROVE  WholeNow(m)'
  <2>1. Quiet(m)
    BY <1>1, <1>2, <1>3, <1>5 DEF Quiet
  <2>2. WholeNow(m)
    BY <1>1, <1>5, <2>1 DEF StageInv
  <2>3. QED
    BY <1>1, <2>2 DEF WholeNow
<1>6. QED
  BY <1>4, <1>5 DEF StageInv

LEMMA StageRestart ==
    ASSUME TypeOK, CallsOK, PlanInv, OrphanInv, StageInv, Restart
    PROVE  StageInv'
<1>1. /\ list' = {} /\ UNCHANGED <<xml, dirty>>
      /\ orphans' = orphans \cup {n \in Names : xml[n] # NoFile}
  BY DEF Restart
<1>2. (\A c \in Callers : IsIdle(c)') /\ \A n \in Names : conf'[n] \in {conf[n], NoSection}
  BY RestartFacts
<1>3. Torn # NoFile /\ NoFile \notin Sources
  BY NamesAssumption DEF Torn, NoFile
<1>4. ASSUME NEW n \in Names \ dirty, xml[n] = NoFile
      PROVE  conf[n] = NoSection
  <2>1. n \notin orphans
    BY <1>4 DEF OrphanInv
  <2>2. CASE Quiet(n)
    <3>1. WholeNow(n)
      BY <1>4, <2>2 DEF StageInv
    <3>2. QED
      BY <1>3, <1>4, <2>1, <3>1 DEF WholeNow, Whole, Sources
  <2>3. CASE ~Quiet(n)
    <3>1. PICK c \in Callers : ~IsIdle(c) /\ call[c].name = n
      BY <2>3 DEF Quiet
    <3>2. StageNow(c) /\ call[c].op \in AllOps /\ Follows(call[c].op, Doing(c), NextOf(call[c].todo))
      BY <1>4, <3>1, CallIs, OpsAre DEF StageInv
    <3>3. call[c].op = "CreateBlock" => call[c].src \in Sources
      BY DEF PlanInv, Sources
    <3>4. call[c].op = "CreateLocal" => call[c].src \in Sources
      BY DEF PlanInv, Sources
    <3>5. CASE call[c].op \in Creations
      BY <1>3, <1>4, <2>1, <3>1, <3>2, <3>3, <3>4, <3>5
         DEF StageNow, StageOf, Whole, Creations, Sources, Follows
    <3>6. CASE call[c].op = "DeleteLocal"
      BY <1>3, <1>4, <2>1, <3>1, <3>2, <3>6 DEF StageNow, StageOf, Whole, Sources, Follows
    <3>7. CASE call[c].op \notin Creations \cup {"DeleteLocal"}
      BY <1>3, <1>4, <2>1, <3>1, <3>2, <3>7 DEF StageNow, StageOf, Whole, Sources
    <3>8. QED
      BY <3>5, <3>6, <3>7
  <2>4. QED
    BY <2>2, <2>3
<1>5. ASSUME NEW n \in Names \ dirty'
      PROVE  WholeNow(n)'
  BY <1>1, <1>2, <1>4, <1>5 DEF WholeNow, Whole
<1>6. QED
  BY <1>2, <1>5 DEF StageInv

-----------------------------------------------------------------------------
(* Block stores and their targets.                                         *)

\* What a step does to the file of its name.
LEMMA FileStep ==
    ASSUME TypeOK, CallsOK, PlanInv, NEW c \in Callers, StepsTo(c)
    PROVE  LET n == call[c].name
           IN  \/ xml'[n] \in {xml[n], NoFile, Torn}
               \/ /\ Doing(c) = "Write" /\ xml'[n] = call[c].src /\ xml[n] # NoFile
                  /\ call[c].op \in Creations
<1>1. CASE Looks(c)
  BY <1>1 DEF Looks, store
<1>2. ASSUME NEW way \in Ways, Parts(c, way)
      PROVE  \/ xml'[call[c].name] \in {xml[call[c].name], NoFile, Torn}
             \/ /\ Doing(c) = "Write" /\ xml'[call[c].name] = call[c].src
                /\ xml[call[c].name] # NoFile
  BY <1>2 DEF Parts
<1>3. Doing(c) = "Write" => call[c].op \in Creations
  BY Found DEF AllOps, Follows, Creations
<1>4. QED
  BY <1>1, <1>2, <1>3 DEF StepsTo

LEMMA TargetStep ==
    ASSUME TypeOK, CallsOK, PlanInv, DirtyInv, TargetInv, NEW c \in Callers, StepsTo(c)
    PROVE  TargetInv'
<1> DEFINE n == call[c].name
<1>1. /\ \A d \in Callers \ {c} : call'[d] = call[d] /\ Doing(d)' = Doing(d)
      /\ ~IsIdle(c) /\ dirty' = dirty
      /\ \A m \in Names \ {n} : xml'[m] = xml[m]
  BY AfterStep DEF StepsTo, OnlyOwn, history, Doing
<1>2. /\ NoFile \notin Targets /\ Torn \notin Targets /\ Disks \cap Targets = {}
      /\ call[c].op = "CreateLocal" => call[c].src \in Disks
      /\ n \in Names
  BY Found DEF Sources
<1>3. ASSUME xml'[n] # xml[n], xml'[n] \in Targets
      PROVE  /\ Doing(c) = "Write" /\ xml'[n] = call[c].src /\ call[c].op = "CreateBlock"
  BY <1>2, <1>3, FileStep DEF Creations
<1>4. OneStorePerTarget'
  <2>1. ASSUME NEW m \in Names \ dirty, m # n, n \notin dirty, xml'[n] \in Targets
        PROVE  xml'[n] # xml[m]
    <3>1. CASE xml'[n] = xml[n]
      BY <1>2, <2>1, <3>1 DEF TargetInv, OneStorePerTarget
    <3>2. CASE xml'[n] # xml[n]
      <4>1. MeetsAll(c)
        BY <1>1, <1>3, <2>1, <3>2 DEF TargetInv
      <4>2. QED
        BY <1>3, <2>1, <3>2, <4>1 DEF MeetsAll, Checking
    <3>3. QED
      BY <3>1, <3>2
  <2>2. ASSUME NEW k \in Names \ dirty, NEW m \in Names \ dirty, k # m, xml'[k] \in Targets
        PROVE  xml'[k] # xml'[m]
    <3>1. CASE k # n /\ m # n
      BY <1>1, <2>2, <3>1 DEF TargetInv, OneStorePerTarget
    <3>2. CASE k = n
      BY <1>1, <2>1, <2>2, <3>2
    <3>3. CASE m = n
      BY <1>1, <2>1, <2>2, <3>3
    <3>4. QED
      BY <3>1, <3>2, <3>3
  <2>3. QED
    BY <1>1, <2>2 DEF OneStorePerTarget
<1>5. ASSUME NEW d \in Callers, ~IsIdle(d)', call'[d].op = "CreateBlock", call'[d].name \notin dirty'
      PROVE  MeetsAll(d)'
  <2>1. SUFFICES ASSUME NEW m \in Names \ dirty, m # call'[d].name, xml'[m] = call'[d].src
                 PROVE  \/ Doing(d)' \in Checking \cup {"ListDir"}
                        \/ Doing(d)' = "Scan" /\ m \in call'[d].scan
    BY <1>1 DEF MeetsAll
  <2>2. CASE d = c
    <3>1. Runs(c) /\ call[c].op = "CreateBlock" /\ call'[c].name = n
      BY <1>5, <2>2, AfterStep DEF Answered, Runs
    <3>2. call[c].src \in Targets /\ Follows("CreateBlock", Doing(c), NextOf(call[c].todo))
      BY <3>1, Found
    <3>3. Doing(c) # "ReadFile" /\ call'[c].src = call[c].src
      BY <3>1, <3>2 DEF Runs, Follows
    <3>4. xml[m] = call[c].src
      BY <1>1, <2>1, <2>2, <3>1, <3>3
    <3>5. Doing(c) \in Checking \cup {"ListDir"} \/ (Doing(c) = "Scan" /\ m \in call[c].scan)
      <4>1. MeetsAll(c)
        BY <1>1, <1>5, <2>2, <3>1 DEF TargetInv
      <4>2. QED
        BY <2>1, <2>2, <3>1, <3>4, <4>1 DEF MeetsAll
    <3>6. CASE Looks(c) /\ Doing(c)' = "Scan"
      <4>1. PICK k \in call[c].scan : xml[k] # call[c].src /\ Reads(c, call[c].scan \ {k})
        BY <3>6 DEF Looks
      <4>2. m \in call[c].scan /\ call'[c].scan = call[c].scan \ {k} /\ m # k
        BY <3>4, <3>5, <3>6, <4>1 DEF Looks, Reads, Checking
      <4>3. QED
        BY <2>2, <3>6, <4>2
    <3>7. ASSUME NEW way \in {"goes", "loses"}, Parts(c, way), Gate(c, way), GoesOn(c, way)
          PROVE  \/ Doing(d)' \in Checking \cup {"ListDir"}
                 \/ Doing(d)' = "Scan" /\ m \in call'[d].scan
      <4>1. Doing(c) # "Scan"
        BY <3>5, <3>7 DEF Gate, Checking, ConfSteps
      <4>2. CASE Doing(c) \in Checking
        BY <2>2, <3>1, <3>7, <4>2 DEF GoesOn, Follows, Checking
      <4>3. CASE Doing(c) = "ListDir"
        <5>1. Doing(c)' = "Scan" /\ call'[c].scan = {k \in Names : xml[k] # NoFile}
          BY <3>1, <3>7, <4>3 DEF GoesOn, Follows
        <5>2. QED
          BY <1>2, <2>2, <3>2, <3>4, <5>1
      <4>4. QED
        BY <3>5, <4>1, <4>2, <4>3
    <3>8. QED
      BY <3>1, <3>6, <3>7, StepCases DEF Tells, Answered, Runs
  <2>3. CASE d # c
    <3>1. call'[d] = call[d] /\ Doing(d)' = Doing(d) /\ ~IsIdle(d)
      BY <1>1, <1>5, <2>3 DEF IsIdle
    <3>2. MeetsAll(d) /\ call[d].src \in Targets
      BY <1>1, <1>5, <3>1 DEF TargetInv, PlanInv
    <3>3. xml[m] = xml'[m]
      <4>1. ASSUME m = n, xml'[n] # xml[n]
            PROVE  FALSE
        <5>1. call[c].op = "CreateBlock" /\ call[c].src = call[d].src
          BY <1>3, <2>1, <3>1, <3>2, <4>1
        <5>2. call[d].name \in dirty
          BY <1>1, <1>5, <2>3, <3>1, <5>1 DEF DirtyInv
        <5>3. QED
          BY <1>1, <1>5, <3>1, <5>2
      <4>2. QED
        BY <1>1, <4>1
    <3>4. QED
      BY <2>1, <3>1, <3>2, <3>3 DEF MeetsAll
  <2>4. QED
    BY <2>2, <2>3
<1>6. QED
  BY <1>4, <1>5 DEF TargetInv

LEMMA TargetStart ==
    ASSUME TypeOK, CallsOK, PlanInv, TargetInv, NEW c \in Callers, NEW op \in Ops,
           NEW n \in Names, NEW src \in SourcesOf(op), Starts(c, op, n, src)
    PROVE  TargetInv'
<1>1. UNCHANGED xml /\ dirty \subseteq dirty'
  BY DEF Starts, store
<1>2. \A d \in Callers \ {c} :
          ~IsIdle(d)' => /\ ~IsIdle(d) /\ call'[d].op = call[d].op /\ call'[d].name = call[d].name
                         /\ call'[d].src = call[d].src /\ Doing(d)' = Doing(d)
                         /\ call'[d].scan = call[d].scan
  BY DEF Starts, IsIdle, Idle, Doing
<1>3. call'[c].op = op /\ Doing(c)' = Head(Steps[op])
  BY DEF Starts, Doing
<1>4. OneStorePerTarget'
  BY <1>1 DEF TargetInv, OneStorePerTarget
<1>5. ASSUME NEW d \in Callers, ~IsIdle(d)', call'[d].op = "CreateBlock", call'[d].name \notin dirty'
      PROVE  MeetsAll(d)'
  <2>1. CASE d = c
    <3>1. Doing(c)' = "NotListed"
      BY <1>3, <1>5, <2>1, PlanStarts DEF Creations
    <3>2. QED
      BY <2>1, <3>1 DEF MeetsAll, Checking
  <2>2. CASE d # c
    <3>1. MeetsAll(d)
      BY <1>1, <1>2, <1>5, <2>2 DEF TargetInv
    <3>2. QED
      BY <1>1, <1>2, <1>5, <2>2, <3>1 DEF MeetsAll
  <2>3. QED
    BY <2>1, <2>2
<1>6. QED
  BY <1>4, <1>5 DEF TargetInv

-----------------------------------------------------------------------------
(* Answers.                                                                *)

\* Parts that differ in the mount, or in the list and the section.
LEMMA PartDiffers ==
    ASSUME NEW b \in Part, NEW p \in Part, p.xml = b.xml
    PROVE  /\ p.listed = b.listed /\ p.conf = b.conf => p = [b EXCEPT !.mounted = p.mounted]
           /\ p.listed = FALSE /\ p.conf = NoSection /\ p.mounted = b.mounted =>
                 p = [b EXCEPT !.listed = FALSE, !.conf = NoSection]
<1>1. ASSUME NEW q \in Part, p.listed = q.listed, p.xml = q.xml, p.conf = q.conf,
             p.mounted = q.mounted
      PROVE  p = q
  BY <1>1 DEF Part
<1>2. p.listed = b.listed /\ p.conf = b.conf => p = [b EXCEPT !.mounted = p.mounted]
  <2> DEFINE w == [b EXCEPT !.mounted = p.mounted]
  <2>1. /\ w \in Part /\ w.xml = b.xml /\ w.conf = b.conf /\ w.mounted = p.mounted
        /\ w.listed = b.listed
    BY DEF Part
  <2> HIDE DEF w
  <2>2. p.listed = b.listed /\ p.conf = b.conf => p = w
    BY <1>1, <2>1
  <2>3. QED
    BY <2>2 DEF w
<1>3. p.listed = FALSE /\ p.conf = NoSection /\ p.mounted = b.mounted =>
         p = [b EXCEPT !.listed = FALSE, !.conf = NoSection]
  <2> DEFINE w == [b EXCEPT !.listed = FALSE, !.conf = NoSection]
  <2>0. NoSection \in Sections
    BY DEF NoSection, Sections
  <2>1. /\ w \in Part /\ w.xml = b.xml /\ w.conf = NoSection /\ w.mounted = b.mounted
        /\ w.listed = FALSE
    BY <2>0 DEF Part
  <2> HIDE DEF w
  <2>2. p.listed = FALSE /\ p.conf = NoSection /\ p.mounted = b.mounted => p = w
    BY <1>1, <2>1
  <2>3. QED
    BY <2>2 DEF w
<1>4. QED
  BY <1>2, <1>3

\* Parts are told by their fields.
LEMMA PartIs ==
    ASSUME NEW b \in Part, NEW p \in Part, p.conf = b.conf, p.mounted = b.mounted
    PROVE  /\ p.listed = b.listed /\ p.xml = b.xml => p = b
           /\ p.listed = b.listed => p = [b EXCEPT !.xml = p.xml]
           /\ p.listed = FALSE /\ p.xml = b.xml => p = [b EXCEPT !.listed = FALSE]
<1>1. ASSUME NEW q \in Part, p.listed = q.listed, p.xml = q.xml, p.conf = q.conf,
             p.mounted = q.mounted
      PROVE  p = q
  BY <1>1 DEF Part
<1>2. p.listed = b.listed => p = [b EXCEPT !.xml = p.xml]
  <2> DEFINE w == [b EXCEPT !.xml = p.xml]
  <2>1. w \in Part /\ w.xml = p.xml /\ w.conf = b.conf /\ w.mounted = b.mounted /\ w.listed = b.listed
    BY DEF Part
  <2> HIDE DEF w
  <2>2. p.listed = b.listed => p = w
    BY <1>1, <2>1
  <2>3. QED
    BY <2>2 DEF w
<1>3. p.listed = FALSE /\ p.xml = b.xml => p = [b EXCEPT !.listed = FALSE]
  <2> DEFINE w == [b EXCEPT !.listed = FALSE]
  <2>1. w \in Part /\ w.xml = b.xml /\ w.conf = b.conf /\ w.mounted = b.mounted /\ w.listed = FALSE
    BY DEF Part
  <2> HIDE DEF w
  <2>2. p.listed = FALSE /\ p.xml = b.xml => p = w
    BY <1>1, <2>1
  <2>3. QED
    BY <2>2 DEF w
<1>4. QED
  BY <1>1, <1>2, <1>3

LEMMA SectionIs ==
    ASSUME NEW x \in Sections
    PROVE  [x EXCEPT !.auto = TRUE] = [state |-> x.state, auto |-> TRUE]
<1> DEFINE w == [x EXCEPT !.auto = TRUE]
           v == [state |-> x.state, auto |-> TRUE]
<1>1. /\ w \in Sections /\ w.state = x.state /\ w.auto = TRUE
      /\ v \in Sections /\ v.state = x.state /\ v.auto = TRUE
  BY DEF Sections
<1> HIDE DEF w, v
<1>2. w = v
  BY <1>1 DEF Sections
<1>3. QED
  BY <1>2 DEF w, v

LEMMA DoneGoesOn ==
    ASSUME TypeOK, CallsOK, PlanInv, NEW c \in Callers, StepsTo(c), DoneOf(call[c], Doing(c)),
           Parts(c, "goes"), Gate(c, "goes"), GoesOn(c, "goes")
    PROVE  DoneOf(call[c], Doing(c))'
<1> DEFINE n == call[c].name
           b == call[c].before
           s == Doing(c)
           t == Doing(c)'
<1>1. /\ call'[c].name = n /\ call'[c].op = call[c].op /\ call'[c].before = b
      /\ Follows(call[c].op, s, t) /\ t # "end"
      /\ call'[c].src = IF s = "ReadFile" THEN xml[n] ELSE call[c].src
      /\ call'[c].failed = call[c].failed
  BY CallIs DEF GoesOn, Runs
<1>2. \A m \in Names \ {n} : mounted'[m] = mounted[m]
  BY DEF StepsTo, OnlyOwn
<1>3. s \notin {"Mount", "Umount"} => \A src : Unmounted(src) => Unmounted(src)'
  <2>1. s \notin {"Mount", "Umount"} => mounted'[n] = mounted[n]
    BY DEF Parts
  <2>2. QED
    BY <1>2, <2>1 DEF Unmounted
<1>4. CASE call[c].op = "CreateLocal"
  <2>1. \/ s = "NotListed" /\ t = "NoFile"
        \/ s = "NoFile" /\ t = "DiskIsFree"
        \/ s = "DiskIsFree" /\ t = "Open"
        \/ s = "Open" /\ t = "Write"
        \/ s = "Write" /\ t = "Append"
        \/ s = "Append" /\ t = "SetState"
        \/ s = "SetState" /\ t = "SetTitle"
        \/ s = "SetTitle" /\ t = "SetAuto"
    BY <1>1, <1>4 DEF Follows
  <2>2. CASE s = "NotListed" /\ t = "NoFile"
    BY <1>1, <1>3, <1>4, <2>2, Found, SectionFacts
       DEF Parts, Gate, DoneOf, Kept, ButFile, Checking, Creations, ConfSteps
  <2>3. CASE s = "NoFile" /\ t = "DiskIsFree"
    BY <1>1, <1>3, <1>4, <2>3, Found, SectionFacts
       DEF Parts, Gate, DoneOf, Kept, ButFile, Checking, Creations, ConfSteps
  <2>4. CASE s = "DiskIsFree" /\ t = "Open"
    BY <1>1, <1>3, <1>4, <2>4, Found, SectionFacts
       DEF Parts, Gate, DoneOf, Kept, ButFile, Checking, Creations, ConfSteps
  <2>5. CASE s = "Open" /\ t = "Write"
    BY <1>1, <1>3, <1>4, <2>5, Found, SectionFacts
       DEF Parts, Gate, DoneOf, Kept, ButFile, Checking, Creations, ConfSteps
  <2>6. CASE s = "Write" /\ t = "Append"
    BY <1>1, <1>3, <1>4, <2>6, Found, SectionFacts
       DEF Parts, Gate, DoneOf, Kept, ButFile, Checking, Creations, ConfSteps
  <2>7. CASE s = "Append" /\ t = "SetState"
    BY <1>1, <1>3, <1>4, <2>7, Found, SectionFacts
       DEF Parts, Gate, DoneOf, Kept, ButFile, Checking, Creations, ConfSteps
  <2>8. CASE s = "SetState" /\ t = "SetTitle"
    <3>1. /\ n \in list' /\ xml'[n] = call[c].src /\ ~call[c].failed
          /\ conf'[n] = [b.conf EXCEPT !.state = "inactive"]
      BY <1>4, <2>8 DEF Parts, DoneOf
    <3>2. QED
      BY <1>1, <1>3, <1>4, <2>8, <3>1 DEF DoneOf, Checking, Creations
  <2>9. CASE s = "SetTitle" /\ t = "SetAuto"
    BY <1>1, <1>3, <1>4, <2>9, Found, SectionFacts
       DEF Parts, Gate, DoneOf, Kept, ButFile, Checking, Creations, ConfSteps
  <2>10. QED
    BY <2>1, <2>2, <2>3, <2>4, <2>5, <2>6, <2>7, <2>8, <2>9
<1>5. CASE call[c].op = "CreateBlock"
  BY <1>1, <1>5, Found, ZenonT(60)
     DEF Follows, Parts, Gate, DoneOf, Kept, ButFile, Checking, Creations, ConfSteps
<1>6. CASE call[c].op = "DeleteLocal"
  BY <1>1, <1>6, Found
     DEF Follows, Parts, Gate, DoneOf, Kept, ButFile, Checking, Creations, ConfSteps
<1>7. CASE call[c].op = "StartLocal"
  BY <1>1, <1>7, Found
     DEF Follows, Parts, Gate, DoneOf, Kept, ButFile, Checking, Creations, ConfSteps
<1>8. CASE call[c].op = "StopLocal"
  BY <1>1, <1>8, Found
     DEF Follows, Parts, Gate, DoneOf, Kept, ButFile, Checking, Creations, ConfSteps
<1>9. CASE call[c].op \in {"DeleteBlock", "StartBlock", "StopBlock"}
  BY <1>1, <1>9, Found, ZenonT(60)
     DEF Follows, Parts, Gate, DoneOf, Kept, ButFile, Checking, Creations, ConfSteps
<1>10. QED
  BY <1>4, <1>5, <1>6, <1>7, <1>8, <1>9, Found DEF AllOps

\* A request that has lost the sections goes on.
LEMMA DoneLoses ==
    ASSUME TypeOK, CallsOK, PlanInv, NEW c \in Callers, StepsTo(c), DoneOf(call[c], Doing(c)),
           Parts(c, "loses"), Gate(c, "loses"), GoesOn(c, "loses")
    PROVE  DoneOf(call[c], Doing(c))'
<1> DEFINE n == call[c].name
           s == Doing(c)
           t == Doing(c)'
<1>1. /\ call'[c].name = n /\ call'[c].op = call[c].op /\ call'[c].before = call[c].before
      /\ Follows(call[c].op, s, t) /\ t # "end" /\ call'[c].failed = TRUE /\ s \in ConfSteps
  BY DEF GoesOn, Runs, Gate
<1>2. call'[c].src = call[c].src
  BY <1>1 DEF GoesOn, ConfSteps
<1>3. /\ conf'[n] = NoSection /\ xml'[n] = xml[n] /\ mounted'[n] = mounted[n]
      /\ n \in list' <=> n \in list
  BY <1>1 DEF Parts, ConfSteps
<1>4. \A src : Unmounted(src) => Unmounted(src)'
  BY <1>3 DEF Unmounted, StepsTo, OnlyOwn
<1>5. \/ call[c].op = "CreateLocal" /\ s = "SetState" /\ t = "SetTitle"
      \/ call[c].op = "CreateLocal" /\ s = "SetTitle" /\ t = "SetAuto"
      \/ call[c].op = "DeleteLocal" /\ s = "DeleteSection" /\ t = "RemoveFile"
  BY <1>1, Found DEF Follows, AllOps, ConfSteps
<1>6. CASE call[c].op = "CreateLocal"
  BY <1>1, <1>2, <1>3, <1>4, <1>5, <1>6 DEF DoneOf, Checking, Creations
<1>7. CASE call[c].op = "DeleteLocal"
  BY <1>1, <1>2, <1>3, <1>5, <1>7 DEF DoneOf, Kept, Creations
<1>8. QED
  BY <1>5, <1>6, <1>7

\* What the request that c has ended with STORE_OK has done.
LEMMA AcceptedStep ==
    ASSUME TypeOK, CallsOK, PlanInv, NEW c \in Callers, StepsTo(c), c \in alone, \A d \in alone : d = c,
           DoneOf(call[c], Doing(c)), NEW way \in {"goes", "loses"}, Parts(c, way), Gate(c, way),
           Tells(c, way)
    PROVE  AnswersAreTrue'
<1> DEFINE n == call[c].name
           s == Doing(c)
<1>1. /\ call'[c].name = n /\ call'[c].op = call[c].op /\ call'[c].src = call[c].src
      /\ call'[c].ok = "STORE_OK" /\ Follows(call[c].op, s, "end") /\ alone' = alone
      /\ call'[c].failed = (way = "loses" \/ call[c].failed)
      /\ way = "loses" => s \in ConfSteps /\ conf'[n] = NoSection
  BY DEF Tells, Answered, StepsTo, OnlyOwn, Parts, Gate
<1>2. RefusedIsUndone'
  BY <1>1 DEF RefusedIsUndone
<1>3. CASE call[c].op = "CreateLocal"
  <2>1. s = "SetAuto"
    BY <1>1, <1>3 DEF Follows
  <2>2. /\ n \in list' /\ xml'[n] = call[c].src /\ mounted'[n] = mounted[n]
        /\ Unmounted(call[c].src)
    BY <1>3, <2>1 DEF Parts, DoneOf, Checking
  <2>3. ASSUME ~call'[c].failed
        PROVE  conf'[n] = [state |-> "inactive", auto |-> TRUE]
    <3>1. way = "goes" /\ ~call[c].failed
      BY <1>1, <2>3, CallIs
    <3>2. conf[n] = [call[c].before.conf EXCEPT !.state = "inactive"] /\ call[c].before.conf \in Sections
      BY <1>3, <2>1, <3>1, CallIs DEF DoneOf, Part
    <3>3. conf'[n] = [conf[n] EXCEPT !.auto = TRUE] /\ conf[n].state = "inactive"
      BY <2>1, <3>1, <3>2, SectionFacts DEF Parts
    <3>4. QED
      BY <3>3, Found, SectionIs
  <2>4. \A m \in Names : mounted'[m] # call[c].src
    BY <2>2 DEF Unmounted, StepsTo, OnlyOwn
  <2>5. QED
    BY <1>1, <1>2, <1>3, <2>2, <2>3, <2>4 DEF AnswersAreTrue, AcceptedIsDone
<1>4. CASE call[c].op = "DeleteLocal"
  <2>1. s = "RemoveFile"
    BY <1>1, <1>4 DEF Follows
  <2>2. n \notin list' /\ xml'[n] = NoFile /\ conf'[n] = NoSection
    BY <1>1, <1>4, <2>1 DEF Parts, DoneOf, ConfSteps
  <2>3. QED
    BY <1>1, <1>2, <1>4, <2>2 DEF AnswersAreTrue, AcceptedIsDone
<1>5. CASE call[c].op = "StartLocal"
  <2>1. s = "SetActive"
    BY <1>1, <1>5 DEF Follows
  <2>a. ~call[c].failed
    BY <1>5 DEF DoneOf, Creations
  <2>b. CASE way = "loses"
    BY <1>1, <1>2, <1>5, <2>b DEF AnswersAreTrue, AcceptedIsDone
  <2>c. SUFFICES ASSUME way = "goes" PROVE AnswersAreTrue'
    BY <2>b
  <2>2. /\ conf'[n] = [conf[n] EXCEPT !.state = "active"] /\ mounted'[n] = mounted[n]
        /\ conf[n].auto \/ mounted[n] = call[c].src
    BY <1>5, <2>1, <2>c DEF Parts, DoneOf, Creations
  <2>3. conf'[n].state = "active" /\ conf'[n].auto = conf[n].auto
    BY <2>2, Found, SectionFacts
  <2>4. conf'[n].auto \/ mounted'[n] = call[c].src
    BY <2>2, <2>3
  <2>5. QED
    BY <1>1, <1>2, <1>5, <2>a, <2>c, <2>3, <2>4 DEF AnswersAreTrue, AcceptedIsDone
<1>6. CASE call[c].op = "StopLocal"
  <2>1. s = "SetInactive"
    BY <1>1, <1>6 DEF Follows
  <2>a. ~call[c].failed
    BY <1>6 DEF DoneOf, Creations
  <2>b. CASE way = "loses"
    BY <1>1, <1>2, <1>6, <2>b DEF AnswersAreTrue, AcceptedIsDone
  <2>c. SUFFICES ASSUME way = "goes" PROVE AnswersAreTrue'
    BY <2>b
  <2>2. /\ conf'[n] = [conf[n] EXCEPT !.state = "inactive"] /\ mounted'[n] = mounted[n]
        /\ conf[n].auto \/ mounted[n] = NoDisk
    BY <1>6, <2>1, <2>c DEF Parts, DoneOf, Creations
  <2>3. conf'[n].state = "inactive" /\ conf'[n].auto = conf[n].auto
    BY <2>2, Found, SectionFacts
  <2>4. conf'[n].auto \/ mounted'[n] = NoDisk
    BY <2>2, <2>3
  <2>5. QED
    BY <1>1, <1>2, <1>6, <2>a, <2>c, <2>3, <2>4 DEF AnswersAreTrue, AcceptedIsDone
<1>7. CASE call[c].op \notin {"CreateLocal", "DeleteLocal", "StartLocal", "StopLocal"}
  <2>1. s \in {"AppendString", "RefuseDelete", "Raise"}
    BY <1>1, <1>7, Found DEF Follows, AllOps
  <2>2. QED
    BY <2>1 DEF Gate, ConfSteps
<1>8. QED
  BY <1>3, <1>4, <1>5, <1>6, <1>7

\* What a request that is refused leaves.
LEMMA RefusedStep ==
    ASSUME TypeOK, CallsOK, PlanInv, NEW c \in Callers, StepsTo(c), c \in alone, \A d \in alone : d = c,
           TypeOK', DoneOf(call[c], Doing(c)), NEW way \in {"refused", "fails"},
           Parts(c, way), Gate(c, way), Tells(c, way)
    PROVE  AnswersAreTrue'
<1> DEFINE n == call[c].name
           b == call[c].before
           s == Doing(c)
           r == call'[c]
<1>1. /\ r.name = n /\ r.op = call[c].op /\ r.src = call[c].src /\ r.before = b
      /\ r.ok \notin {"none", "STORE_OK"} /\ r.failed = (way = "fails" \/ call[c].failed)
      /\ alone' = alone
  BY DEF Tells, Answered, StepsTo, OnlyOwn, Refusals
<1>2. AcceptedIsDone'
  BY <1>1 DEF AcceptedIsDone
<1>3. n \in Names /\ b \in Part /\ call[c].op \in AllOps /\ Torn \in Sources \cup {NoFile, Torn}
  BY Found, CallIs
<1> DEFINE p == [listed |-> n \in list', xml |-> xml'[n], conf |-> conf'[n], mounted |-> mounted'[n]]
<1>4. /\ p \in Part /\ p.xml = xml'[n] /\ p.conf = conf'[n] /\ p.mounted = mounted'[n]
      /\ p.listed = (n \in list') /\ Of(n)' = p
  <2>1. /\ xml'[n] \in Sources \cup {NoFile, Torn} /\ conf'[n] \in Sections
        /\ mounted'[n] \in Disks \cup {NoDisk}
    BY <1>3 DEF StepsTo, StoreOK
  <2>2. p \in Part /\ p.listed = (n \in list')
    BY <2>1 DEF Part
  <2>3. p.xml = xml'[n] /\ p.conf = conf'[n] /\ p.mounted = mounted'[n]
    OBVIOUS
  <2>4. Of(n)' = p
    BY <1>1 DEF Of
  <2>5. QED
    BY <2>2, <2>3, <2>4
<1>5. b.listed \in BOOLEAN
  BY <1>3 DEF Part
<1> HIDE DEF p
<1>6. ASSUME conf'[n] = b.conf, mounted'[n] = b.mounted, n \in list' <=> b.listed
      PROVE  Of(n)' = [b EXCEPT !.xml = xml'[n]] /\ (xml'[n] = b.xml => Of(n)' = b)
  <2>1. p.listed = b.listed
    BY <1>4, <1>5, <1>6
  <2>2. p.conf = b.conf /\ p.mounted = b.mounted /\ p \in Part /\ b \in Part
    BY <1>3, <1>4, <1>6
  <2>3. p = [b EXCEPT !.xml = p.xml] /\ (p.xml = b.xml => p = b)
    BY <2>1, <2>2, PartIs
  <2>4. QED
    BY <1>4, <2>3
<1>7. ASSUME conf'[n] = b.conf, mounted'[n] = b.mounted, n \notin list', xml'[n] = b.xml
      PROVE  Of(n)' = [b EXCEPT !.listed = FALSE]
  <2>1. p.listed = FALSE
    <3>1. (n \in list') = FALSE
      BY <1>7
    <3>2. QED
      BY <1>4, <3>1, Zenon
  <2>2. p.conf = b.conf /\ p.mounted = b.mounted /\ p.xml = b.xml /\ p \in Part /\ b \in Part
    BY <1>3, <1>4, <1>7
  <2>3. p = [b EXCEPT !.listed = FALSE]
    BY <2>1, <2>2, PartIs
  <2>4. QED
    BY <1>4, <2>3
<1>a. ASSUME conf'[n] = NoSection, mounted'[n] = b.mounted, n \notin list', xml'[n] = b.xml
      PROVE  Of(n)' = [b EXCEPT !.listed = FALSE, !.conf = NoSection]
  <2>1. p.listed = FALSE
    <3>1. (n \in list') = FALSE
      BY <1>a
    <3>2. QED
      BY <1>4, <3>1, Zenon
  <2>2. p.conf = NoSection /\ p.mounted = b.mounted /\ p.xml = b.xml /\ p \in Part /\ b \in Part
    BY <1>3, <1>4, <1>a
  <2>3. p = [b EXCEPT !.listed = FALSE, !.conf = NoSection]
    BY <2>1, <2>2, PartDiffers
  <2>4. QED
    BY <1>4, <2>3
<1>b. ASSUME conf'[n] = b.conf, n \in list' <=> b.listed, xml'[n] = b.xml
      PROVE  Of(n)' = [b EXCEPT !.mounted = mounted'[n]]
  <2>1. p.listed = b.listed
    BY <1>4, <1>5, <1>b
  <2>2. p.conf = b.conf /\ p.xml = b.xml /\ p \in Part /\ b \in Part
    BY <1>3, <1>4, <1>b
  <2>3. p = [b EXCEPT !.mounted = p.mounted]
    BY <2>1, <2>2, PartDiffers
  <2>4. QED
    BY <1>4, <2>3
<1>8. SUFFICES \/ Of(n)' = b
               \/ r.op = "CreateBlock" /\ ~r.failed /\ Of(n)' = [b EXCEPT !.xml = r.src]
               \/ /\ r.op \in {"CreateLocal", "CreateBlock"} /\ r.failed
                  /\ Of(n)' = [b EXCEPT !.xml = Torn]
               \/ /\ r.op = "CreateLocal" /\ r.failed /\ Of(n)'.listed /\ xml'[n] = r.src
                  /\ conf'[n] \in {b.conf, [b.conf EXCEPT !.state = "inactive"], NoSection}
               \/ /\ r.op = "DeleteLocal" /\ (r.failed \/ b.xml = NoFile)
                  /\ Of(n)' = [b EXCEPT !.listed = FALSE]
               \/ /\ r.op = "DeleteLocal" /\ r.failed
                  /\ Of(n)' = [b EXCEPT !.listed = FALSE, !.conf = NoSection]
               \/ r.op = "StartLocal" /\ r.failed /\ Of(n)' = [b EXCEPT !.mounted = r.src]
               \/ r.op = "StopLocal" /\ r.failed /\ Of(n)' = [b EXCEPT !.mounted = NoDisk]
  <2>1. \A d \in alone' : d = c
    BY <1>1
  <2>2. RefusedIsUndone'
    <3>1. Of(n)'.xml = xml'[n] /\ Of(n)'.conf = conf'[n]
      BY <1>4
    <3>2. Undone(r, Of(n)')
      BY <1>1, <1>8, <3>1 DEF Undone
    <3>3. QED
      BY <1>1, <2>1, <3>2 DEF RefusedIsUndone
  <2>3. QED
    BY <1>2, <2>2 DEF AnswersAreTrue
<1>9. CASE call[c].op = "CreateLocal"
  <2>1. s \in {"NotListed", "NoFile", "DiskIsFree", "Open", "Write", "SetState", "SetTitle", "SetAuto"}
    <3>1. s \in {"NotListed", "NoFile", "DiskIsFree", "Open", "Write", "Append", "SetState",
                 "SetTitle", "SetAuto"}
      BY <1>9, Found DEF Follows
    <3>2. s # "Append"
      BY <1>9 DEF DoneOf, Gate, Failing, ConfSteps
    <3>3. QED
      BY <3>1, <3>2
  <2>2. CASE s \in {"NotListed", "NoFile", "DiskIsFree", "Open"}
    <3>1. s = "Open" => way = "fails"
      BY DEF Gate
    <3>2. xml'[n] = b.xml /\ conf'[n] = b.conf /\ mounted'[n] = b.mounted /\ (n \in list' <=> b.listed)
      BY <1>9, <2>2, <3>1 DEF Parts, DoneOf, ButFile, Kept, Checking
    <3>3. QED
      BY <1>6, <3>2
  <2>3. CASE s = "Write"
    <3>1. way = "fails"
      BY <2>3 DEF Gate
    <3>2. xml'[n] = Torn /\ conf'[n] = b.conf /\ mounted'[n] = b.mounted /\ (n \in list' <=> b.listed)
      BY <1>9, <2>3, <3>1 DEF Parts, DoneOf, ButFile, Kept
    <3>3. QED
      BY <1>1, <1>6, <1>9, <3>1, <3>2
  <2>4. CASE s \in {"SetState", "SetTitle", "SetAuto"}
    <3>1. way = "fails"
      BY <2>4 DEF Gate, ConfSteps
    <3>2. /\ n \in list' /\ xml'[n] = call[c].src
          /\ conf'[n] \in {b.conf, [b.conf EXCEPT !.state = "inactive"], NoSection}
      BY <1>9, <2>4, <3>1 DEF Parts, DoneOf
    <3>3. Of(n)'.listed
      BY <1>4, <3>2
    <3>4. QED
      BY <1>1, <1>9, <3>1, <3>2, <3>3
  <2>5. QED
    BY <2>1, <2>2, <2>3, <2>4
<1>10. CASE call[c].op = "CreateBlock"
  <2>1. s \in {"NotListed", "NoFile", "Scan", "Open", "Write", "AppendString"}
    <3>1. s \in {"NotListed", "NoFile", "ListDir", "Scan", "Open", "Write", "AppendString"}
      BY <1>10, Found DEF Follows
    <3>2. QED
      BY <3>1 DEF Gate, Failing, ConfSteps
  <2>2. CASE s \in {"NotListed", "NoFile", "Scan", "Open"}
    <3>1. s = "Open" => way = "fails"
      BY DEF Gate
    <3>2. xml'[n] = b.xml /\ conf'[n] = b.conf /\ mounted'[n] = b.mounted /\ (n \in list' <=> b.listed)
      BY <1>10, <2>2, <3>1 DEF Parts, DoneOf, ButFile, Kept, Checking
    <3>3. QED
      BY <1>6, <3>2
  <2>3. CASE s = "Write"
    <3>1. way = "fails"
      BY <2>3 DEF Gate
    <3>2. xml'[n] = Torn /\ conf'[n] = b.conf /\ mounted'[n] = b.mounted /\ (n \in list' <=> b.listed)
      BY <1>10, <2>3, <3>1 DEF Parts, DoneOf, ButFile, Kept
    <3>3. QED
      BY <1>1, <1>6, <1>10, <3>1, <3>2
  <2>4. CASE s = "AppendString"
    <3>1. way = "refused" /\ ~call[c].failed
      BY <1>10, <2>4 DEF Gate, Failing, ConfSteps, DoneOf
    <3>2. /\ xml'[n] = call[c].src /\ conf'[n] = b.conf /\ mounted'[n] = b.mounted
          /\ n \in list' <=> b.listed
      BY <1>10, <2>4, <3>1 DEF Parts, DoneOf, ButFile, Kept, ConfSteps
    <3>3. QED
      BY <1>1, <1>6, <1>10, <3>1, <3>2
  <2>5. QED
    BY <2>1, <2>2, <2>3, <2>4
<1>11. CASE call[c].op = "DeleteLocal"
  <2>1. s \in {"Pop", "HasFile", "DeleteSection", "RemoveFile"}
    BY <1>11, Found DEF Follows
  <2>2. CASE s = "Pop"
    <3>1. n \notin list
      BY <2>2 DEF Gate, Failing, ConfSteps
    <3>2. /\ xml'[n] = b.xml /\ conf'[n] = b.conf /\ mounted'[n] = b.mounted
          /\ n \in list' <=> b.listed
      BY <1>11, <2>2, <3>1 DEF Parts, DoneOf, ButFile, Kept
    <3>3. QED
      BY <1>6, <3>2
  <2>3. CASE s = "HasFile"
    <3>1. xml[n] = NoFile
      BY <2>3 DEF Gate, Failing, ConfSteps
    <3>2. n \notin list' /\ xml'[n] = b.xml /\ conf'[n] = b.conf /\ mounted'[n] = b.mounted
          /\ b.xml = NoFile
      BY <1>11, <2>3, <3>1 DEF Parts, DoneOf, Kept
    <3>3. QED
      BY <1>1, <1>7, <1>11, <3>2
  <2>4. CASE s = "DeleteSection"
    <3>1. way = "fails"
      BY <2>4 DEF Gate, ConfSteps
    <3>2. n \notin list' /\ xml'[n] = b.xml /\ conf'[n] = b.conf /\ mounted'[n] = b.mounted
      BY <1>11, <2>4, <3>1 DEF Parts, DoneOf, Kept
    <3>3. QED
      BY <1>1, <1>7, <1>11, <3>1, <3>2
  <2>5. CASE s = "RemoveFile"
    <3>1. way = "fails"
      BY <1>11, <2>5 DEF Gate, DoneOf
    <3>2. n \notin list' /\ xml'[n] = b.xml /\ conf'[n] = NoSection /\ mounted'[n] = b.mounted
      BY <1>11, <2>5, <3>1 DEF Parts, DoneOf
    <3>3. QED
      BY <1>1, <1>a, <1>11, <3>1, <3>2
  <2>6. QED
    BY <2>1, <2>2, <2>3, <2>4, <2>5
<1>12. CASE call[c].op \notin Creations \cup {"DeleteLocal"}
  <2>1. /\ s \in {"HasFile", "RefuseDelete", "ReadFile", "Mount", "NotBusy", "Umount", "Raise",
                  "SetActive", "SetInactive"}
        /\ s = "SetActive" => call[c].op = "StartLocal"
        /\ s = "SetInactive" => call[c].op = "StopLocal"
    BY <1>12, Found DEF Follows, Creations, AllOps
  <2>2. CASE s \notin {"SetActive", "SetInactive"}
    <3>1. /\ xml'[n] = b.xml /\ conf'[n] = b.conf /\ mounted'[n] = b.mounted
          /\ n \in list' <=> b.listed
      BY <1>12, <2>1, <2>2 DEF Parts, DoneOf, ButFile, Kept
    <3>2. QED
      BY <1>6, <3>1
  <2>3. CASE s \in {"SetActive", "SetInactive"}
    <3>1. way = "fails"
      BY <2>3 DEF Gate, ConfSteps
    <3>2. /\ xml'[n] = b.xml /\ conf'[n] = b.conf /\ mounted'[n] = mounted[n]
          /\ n \in list' <=> b.listed
      BY <1>12, <2>3, <3>1 DEF Parts, DoneOf
    <3>3. mounted[n] = b.mounted \/ mounted[n] = IF s = "SetActive" THEN call[c].src ELSE NoDisk
      BY <1>12, <2>3 DEF DoneOf
    <3>4. CASE mounted[n] = b.mounted
      BY <1>6, <3>2, <3>4
    <3>5. CASE mounted[n] = IF s = "SetActive" THEN call[c].src ELSE NoDisk
      <4>1. Of(n)' = [b EXCEPT !.mounted = mounted[n]]
        BY <1>b, <3>2
      <4>2. r.failed /\ r.op = call[c].op /\ r.src = call[c].src
        BY <1>1, <3>1
      <4>3. CASE s = "SetActive"
        <5>1. Of(n)' = [b EXCEPT !.mounted = r.src]
          BY <3>5, <4>1, <4>2, <4>3
        <5>2. QED
          BY <2>1, <4>2, <4>3, <5>1, Zenon
      <4>4. CASE s = "SetInactive"
        <5>1. Of(n)' = [b EXCEPT !.mounted = NoDisk]
          BY <3>5, <4>1, <4>4
        <5>2. QED
          BY <2>1, <4>2, <4>4, <5>1, Zenon
      <4>5. QED
        BY <2>3, <4>3, <4>4
    <3>6. QED
      BY <3>3, <3>4, <3>5
  <2>4. QED
    BY <2>2, <2>3
<1>13. QED
  BY <1>9, <1>10, <1>11, <1>12 DEF Creations

LEMMA DoneStep ==
    ASSUME TypeOK, CallsOK, PlanInv, AloneInv, DoneInv, TypeOK', NEW c \in Callers, StepsTo(c)
    PROVE  DoneInv'
<1>1. alone' = alone /\ (\A d \in alone : d = c) /\ ~IsIdle(c)
  BY AloneStep DEF StepsTo, OnlyOwn, history
<1>2. CASE c \notin alone
  BY <1>1, <1>2 DEF DoneInv, AnswersAreTrue, AcceptedIsDone, RefusedIsUndone
<1>3. CASE c \in alone
  <2>1. DoneOf(call[c], Doing(c))
    BY <1>1, <1>3 DEF DoneInv
  <2>2. ASSUME Runs(c)
        PROVE  AnswersAreTrue'
    BY <1>1, <2>2 DEF Runs, AnswersAreTrue, AcceptedIsDone, RefusedIsUndone
  <2>3. CASE Looks(c) /\ Runs(c) /\ Doing(c)' = "Scan"
    <3>1. /\ call'[c].op = call[c].op /\ call'[c].name = call[c].name /\ call'[c].src = call[c].src
          /\ call'[c].before = call[c].before /\ call'[c].failed = call[c].failed
          /\ Doing(c) = "Scan" /\ UNCHANGED store
      BY <2>3 DEF Looks, Reads
    <3>2. DoneOf(call[c], Doing(c))'
      BY <2>1, <2>3, <3>1 DEF DoneOf, Kept, ButFile, Unmounted, store
    <3>3. QED
      BY <1>1, <2>2, <2>3, <3>2 DEF DoneInv
  <2>4. ASSUME NEW way \in {"goes", "loses"}, Parts(c, way), Gate(c, way), GoesOn(c, way)
        PROVE  DoneInv'
    <3>1. DoneOf(call[c], Doing(c))'
      BY <2>1, <2>4, DoneGoesOn, DoneLoses
    <3>2. QED
      BY <1>1, <2>2, <2>4, <3>1 DEF DoneInv, GoesOn
  <2>5. ASSUME NEW way \in Ways, Parts(c, way), Gate(c, way), Tells(c, way)
        PROVE  DoneInv'
    <3>1. CASE way \in {"goes", "loses"}
      <4>1. AnswersAreTrue'
        BY <1>1, <1>3, <2>1, <2>5, <3>1, AcceptedStep
      <4>2. QED
        BY <1>1, <2>5, <4>1 DEF DoneInv, Tells, Answered
    <3>2. CASE way \in {"refused", "fails"}
      <4>1. AnswersAreTrue'
        BY <1>1, <1>3, <2>1, <2>5, <3>2, RefusedStep
      <4>2. QED
        BY <1>1, <2>5, <4>1 DEF DoneInv, Tells, Answered
    <3>3. QED
      BY <3>1, <3>2 DEF Ways
  <2>6. QED
    BY <2>3, <2>4, <2>5, StepCases
<1>4. QED
  BY <1>2, <1>3

LEMMA DoneStart ==
    ASSUME TypeOK, CallsOK, PlanInv, NEW c \in Callers, NEW op \in Ops,
           NEW n \in Names, NEW src \in SourcesOf(op), Starts(c, op, n, src)
    PROVE  DoneInv'
<1>1. /\ alone' \subseteq {c} /\ ~IsIdle(c)' /\ UNCHANGED <<list, xml, conf, mounted>>
      /\ call'[c].op = op /\ call'[c].name = n /\ call'[c].failed = FALSE
      /\ Doing(c)' = Head(Steps[op])
      /\ c \in alone' => call'[c].before = Of(n)
  BY DEF Starts, store, Doing
<1>2. AnswersAreTrue'
  BY <1>1 DEF AnswersAreTrue, AcceptedIsDone, RefusedIsUndone
<1>3. ASSUME c \in alone'
      PROVE  DoneOf(call[c], Doing(c))'
  <2> DEFINE b == call'[c].before
  <2>1. /\ (n \in list' <=> b.listed) /\ xml'[n] = b.xml /\ conf'[n] = b.conf
        /\ mounted'[n] = b.mounted
    <3>1. /\ Of(n).listed <=> n \in list
          /\ Of(n).xml = xml[n] /\ Of(n).conf = conf[n] /\ Of(n).mounted = mounted[n]
      BY DEF Of
    <3>2. b = Of(n)
      BY <1>1, <1>3
    <3> HIDE DEF b
    <3>3. b.listed <=> n \in list
      BY <3>1, <3>2, Zenon
    <3>4. QED
      BY <1>1, <3>1, <3>2, <3>3
  <2> HIDE DEF b
  <2>2. Head(Steps[op]) = CASE op \in Creations -> "NotListed" [] op = "DeleteLocal" -> "Pop"
                            [] OTHER -> "HasFile"
    BY PlanStarts
  <2>3. QED
    BY <1>1, <2>1, <2>2, OpsAre DEF b, DoneOf, Kept, ButFile, Checking, Creations
<1>4. QED
  BY <1>1, <1>2, <1>3 DEF DoneInv

-----------------------------------------------------------------------------
(* The invariant.                                                          *)

LEMMA InitInv == Init => IInv
<1> SUFFICES ASSUME Init PROVE IInv
  OBVIOUS
<1>1. \A c \in Callers : call[c] = Idle /\ IsIdle(c)
  BY DEF Init, Idle, IsIdle
<1>2. CallsOK
  BY IdleIs DEF Init, CallsOK
<1>3. StoreOK
  BY DEF Init, StoreOK, NoSection, Sections
<1>4. TypeOK
  BY <1>2, <1>3, DataStoreAssumption DEF Init, TypeOK, CallsOK, CallType, StoreOK
<1>5. PlanInv
  <2>1. "StopBlock" \in Ops
    BY OpsAre DEF AllOps
  <2>2. QED
    BY <1>1, <2>1, PlanStarts DEF PlanInv, Idle
<1>6. DirtyInv /\ OrphanInv /\ AloneInv
  BY <1>1 DEF Init, DirtyInv, OrphanInv, AloneInv
<1>7. StageInv
  BY <1>1 DEF Init, StageInv, WholeNow, Whole
<1>8. TargetInv
  <2>1. NoFile \notin Targets
    BY NamesAssumption DEF Sources
  <2>2. QED
    BY <1>1, <2>1 DEF Init, TargetInv, OneStorePerTarget
<1>9. DoneInv
  BY DEF Init, DoneInv, AnswersAreTrue, AcceptedIsDone, RefusedIsUndone
<1>10. QED
  BY <1>2, <1>4, <1>5, <1>6, <1>7, <1>8, <1>9 DEF IInv

LEMMA NextCases ==
    ASSUME IInv, [Next]_vars
    PROVE  \/ \E c \in Callers : StepsTo(c)
           \/ \E c \in Callers, op \in Ops, n \in Names : \E src \in SourcesOf(op) :
                 Call(c, op, n, src)
           \/ Restart
           \/ UNCHANGED vars
<1>1. ASSUME NEW c \in Callers, Acts(c) PROVE StepsTo(c)
  BY <1>1, EveryStep DEF IInv
<1>2. QED
  BY <1>1 DEF Next, Request, Acts

LEMMA NextInv == IInv /\ [Next]_vars => IInv'
<1> SUFFICES ASSUME IInv, [Next]_vars PROVE IInv'
  OBVIOUS
<1>1. /\ TypeOK /\ CallsOK /\ PlanInv /\ DirtyInv /\ OrphanInv /\ StageInv /\ TargetInv
      /\ AloneInv /\ DoneInv
  BY DEF IInv
<1>2. ASSUME NEW c \in Callers, StepsTo(c)
      PROVE  IInv'
  <2>1. /\ CallsOK' /\ StoreOK' /\ UNCHANGED <<calls, alone, dirty>>
    BY <1>1, <1>2, AfterStep DEF StepsTo, OnlyOwn
  <2>2. TypeOK'
    <3>1. /\ calls' \in 0..MaxCalls /\ alone' \in SUBSET Callers
          /\ dirty' \in SUBSET Names
      BY <1>1, <2>1 DEF TypeOK
    <3>2. QED
      BY <1>1, <2>1, <3>1, TypeStep
  <2>3. PlanInv' /\ DirtyInv' /\ AloneInv'
    BY <1>1, <1>2, PlanStep, DirtyStep, AloneStep
  <2>4. OrphanInv'
    BY <1>1, <1>2, OrphanStep
  <2>5. StageInv' /\ TargetInv' /\ DoneInv'
    BY <1>1, <1>2, <2>2, StageStep, TargetStep, DoneStep
  <2>6. QED
    BY <2>1, <2>2, <2>3, <2>4, <2>5 DEF IInv
<1>3. ASSUME NEW c \in Callers, NEW op \in Ops, NEW n \in Names, NEW src \in SourcesOf(op),
             Call(c, op, n, src)
      PROVE  IInv'
  <2>1. Starts(c, op, n, src) /\ calls' \in 0..MaxCalls
    BY <1>1, <1>3, RequestFacts
  <2>2. /\ CallsOK' /\ StoreOK' /\ alone' \in SUBSET Callers /\ dirty' \in SUBSET Names
    BY <1>1, <2>1 DEF Starts, TypeOK, StoreOK, store
  <2>3. TypeOK'
    BY <1>1, <2>1, <2>2, TypeStep
  <2>4. PlanInv' /\ DirtyInv' /\ AloneInv'
    BY <1>1, <2>1, StartPlans
  <2>5. OrphanInv' /\ StageInv' /\ TargetInv' /\ DoneInv'
    BY <1>1, <2>1, OrphanStart, StageStart, TargetStart, DoneStart
  <2>6. QED
    BY <2>2, <2>3, <2>4, <2>5 DEF IInv
<1>4. ASSUME Restart
      PROVE  IInv'
  <2>1. /\ CallsOK' /\ PlanInv' /\ StoreOK' /\ calls' \in 0..MaxCalls
        /\ (\A c \in Callers : call'[c] = Idle /\ IsIdle(c)') /\ alone' = {}
    BY <1>1, <1>4, RestartFacts
  <2>2. /\ list' = {} /\ UNCHANGED <<xml, mounted, dirty>>
        /\ orphans' = orphans \cup {n \in Names : xml[n] # NoFile}
    BY <1>4 DEF Restart
  <2>3. TypeOK'
    <3>1. dirty' \in SUBSET Names /\ alone' \in SUBSET Callers
      BY <1>1, <2>1, <2>2 DEF TypeOK
    <3>2. QED
      BY <1>1, <2>1, <3>1, TypeStep
  <2>4. DirtyInv' /\ AloneInv' /\ OrphanInv'
    BY <1>1, <2>1, <2>2 DEF DirtyInv, AloneInv, OrphanInv
  <2>5. StageInv'
    BY <1>1, <1>4, StageRestart
  <2>6. TargetInv'
    BY <1>1, <2>1, <2>2 DEF TargetInv, OneStorePerTarget
  <2>7. DoneInv'
    BY <2>1 DEF DoneInv, AnswersAreTrue, AcceptedIsDone, RefusedIsUndone
  <2>8. QED
    BY <2>1, <2>3, <2>4, <2>5, <2>6, <2>7 DEF IInv
<1>5. ASSUME UNCHANGED vars
      PROVE  IInv'
  <2>1. TypeOK' /\ CallsOK' /\ PlanInv' /\ DirtyInv' /\ AloneInv'
    BY <1>1, <1>5 DEF vars, TypeOK, CallsOK, PlanInv, DirtyInv, AloneInv, IsIdle
  <2>2. OrphanInv'
    BY <1>1, <1>5 DEF vars, OrphanInv, IsIdle, Doing
  <2>3. StageInv'
    BY <1>1, <1>5 DEF vars, StageInv, StageNow, WholeNow, StageOf, Whole, Quiet, IsIdle, Doing
  <2>4. TargetInv'
    BY <1>1, <1>5 DEF vars, TargetInv, OneStorePerTarget, MeetsAll, IsIdle, Doing
  <2>5. AnswersAreTrue'
    <3>1. AcceptedIsDone'
      BY <1>1, <1>5 DEF vars, DoneInv, AnswersAreTrue, AcceptedIsDone, IsIdle
    <3>2. RefusedIsUndone'
      <4>1. /\ RefusedIsUndone /\ call' = call /\ alone' = alone /\ xml' = xml /\ conf' = conf
            /\ \A n : Of(n)' = Of(n)
        BY <1>1, <1>5 DEF vars, DoneInv, AnswersAreTrue, Of
      <4>2. \A c \in alone : IsIdle(c)' = IsIdle(c)
        BY <4>1 DEF IsIdle
      <4>3. QED
        BY <4>1, <4>2 DEF RefusedIsUndone
    <3>3. QED
      BY <3>1, <3>2 DEF AnswersAreTrue
  <2>6. DoneInv'
    BY <1>1, <1>5, <2>5 DEF vars, DoneInv, DoneOf, Kept, ButFile, Unmounted, IsIdle, Doing
  <2>7. QED
    BY <2>1, <2>2, <2>3, <2>4, <2>6 DEF IInv
<1>6. QED
  BY <1>2, <1>3, <1>4, <1>5, NextCases

LEMMA InductiveInvariant == Spec => []IInv
  BY InitInv, NextInv, PTL DEF Spec

-----------------------------------------------------------------------------
(* The theorems.                                                           *)

\* A name in DATASTORE_LIST that no request is changing has its file and, unless a
\* write of datastore.cfg failed, its section; one that is not has neither, but for
\* the causes that are recorded; and two block stores have one target only if they
\* were created side by side (create_local_store, create_block_store,
\* delete_local_store, ConfigManager.Set and DeleteSection).
THEOREM PartsAgree == Spec => []Consistent
<1>1. IInv => Consistent
  <2> SUFFICES ASSUME IInv PROVE Consistent
    OBVIOUS
  <2>1. TypeOK /\ OneStorePerTarget
    BY DEF IInv, TargetInv
  <2>2. FilesFollowTheList
    BY DEF IInv, StageInv, WholeNow, Whole, FilesFollowTheList
  <2>3. QED
    BY <2>1, <2>2 DEF Consistent
<1>2. QED
  BY <1>1, InductiveInvariant, PTL

\* STORE_OK of a request that no other disturbed means that the parts of the store
\* are as was asked, but for a section that a lost write of datastore.cfg has cost;
\* a request that was refused has left the parts as they were, but for what each kind
\* of request leaves when one of its steps fails half way (store_driver.py).
THEOREM AnswersTell == Spec => []AnswersAreTrue
<1>1. IInv => AnswersAreTrue
  BY DEF IInv, DoneInv
<1>2. QED
  BY <1>1, InductiveInvariant, PTL

\* An XML file that is there is opened for writing only when requests for its name
\* ran side by side, and the file of a store that a restart or a failed deletion has
\* dropped stays.
THEOREM FilesStay == Spec => FilesAreLeft
<1> DEFINE Opens == \A n \in Names : (xml[n] # NoFile /\ xml'[n] = Torn) =>
                        (xml[n] = Torn \/ n \in dirty)
           Stays == \A n \in orphans : xml[n] # NoFile => xml'[n] = xml[n]
<1>1. ASSUME IInv, [Next]_vars
      PROVE  [Opens]_vars /\ [Stays]_vars
  <2>1. ASSUME NEW c \in Callers, StepsTo(c)
        PROVE  Opens /\ Stays
    <3>1. Stays
      BY <1>1, <2>1, OrphanStep DEF IInv
    <3>2. ASSUME NEW n \in Names \ dirty, xml[n] # NoFile, xml'[n] = Torn
          PROVE  xml[n] = Torn
      <4>1. CASE n # call[c].name
        BY <2>1, <3>2, <4>1 DEF StepsTo, OnlyOwn
      <4>2. CASE n = call[c].name /\ Doing(c) = "Open"
        <5>1. StageNow(c)
          BY <1>1, <2>1, <3>2, <4>2 DEF IInv, StageInv, StepsTo
        <5>2. call[c].op \in Creations
          BY <1>1, <2>1, <4>2, Found DEF IInv, Follows, AllOps, Creations
        <5>3. QED
          BY <3>2, <4>2, <5>1, <5>2 DEF StageNow, StageOf
      <4>3. CASE n = call[c].name /\ Doing(c) # "Open"
        <5>1. NoFile # Torn /\ (Doing(c) = "Write" => call[c].src # Torn)
          <6>1. Doing(c) = "Write" => call[c].op \in Creations
            BY <1>1, <2>1, Found DEF IInv, Follows, AllOps, Creations
          <6>2. QED
            BY <1>1, <2>1, <6>1, Found DEF IInv, Creations, Sources
        <5>2. CASE Looks(c)
          BY <3>2, <5>2 DEF Looks, store
        <5>3. ASSUME NEW way \in Ways, Parts(c, way)
              PROVE  xml[n] = Torn
          BY <3>2, <4>3, <5>1, <5>3 DEF Parts
        <5>4. QED
          BY <2>1, <5>2, <5>3 DEF StepsTo
      <4>4. QED
        BY <4>1, <4>2, <4>3
    <3>3. QED
      BY <3>1, <3>2
  <2>2. ASSUME UNCHANGED xml
        PROVE  Opens /\ Stays
    BY <2>2
  <2>3. QED
    <3>1. ASSUME NEW c \in Callers, NEW op \in Ops, NEW n \in Names, NEW src \in SourcesOf(op),
                 Call(c, op, n, src)
          PROVE  UNCHANGED xml
      BY <3>1 DEF Call, store
    <3>2. Restart => UNCHANGED xml
      BY DEF Restart
    <3>3. UNCHANGED vars => UNCHANGED xml
      BY DEF vars
    <3>4. QED
      BY <1>1, <2>1, <2>2, <3>1, <3>2, <3>3, NextCases
<1>2. QED
  BY <1>1, InductiveInvariant, PTL DEF Spec, FilesAreLeft, WriteNeverOverwrites, OrphanStays
=============================================================================
