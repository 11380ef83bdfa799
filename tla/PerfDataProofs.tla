--------------------------- MODULE PerfDataProofs ---------------------------
(* The circular queue is a bounded FIFO queue for every number of slots, and it *)
(* is one in the exporter as well, whatever the goroutines around it do.        *)
EXTENDS PerfData, SequenceTheorems, TLAPS

\* What the indexes and the array always are.
QueueTypeOK ==
  /\ front \in Slots
  /\ rear \in Slots
  /\ data \in [Slots -> Elements \union {nil}]

-----------------------------------------------------------------------------
(* The remainders that the queue uses: its operands are below 2 * Cap. *)

LEMMA ModSmall == ASSUME NEW b \in Nat \ {0}, NEW x \in 0 .. b - 1 PROVE x % b = x
  BY Z3

LEMMA ModWrap == ASSUME NEW b \in Nat \ {0}, NEW x \in b .. 2 * b - 1 PROVE x % b = x - b
  BY Z3

\* The slot after a slot, and the n-th slot from a slot.
LEMMA SlotAfter ==
  ASSUME NEW i \in Slots, NEW n \in Nat, n <= Cap
  PROVE  (i + n) % Cap = IF i + n < Cap THEN i + n ELSE i + n - Cap
<1>1. CASE i + n < Cap
  BY <1>1, ModSmall, CapAssumption DEF Slots
<1>2. CASE i + n >= Cap
  <2>1. i + n \in Cap .. 2 * Cap - 1
    BY <1>2, CapAssumption DEF Slots
  <2> QED
    BY <1>2, <2>1, ModWrap, CapAssumption DEF Slots
<1> QED
  BY <1>1, <1>2, CapAssumption DEF Slots

LEMMA NextSlot ==
  ASSUME NEW i \in Slots
  PROVE  /\ (i + 1) % Cap = IF i + 1 < Cap THEN i + 1 ELSE 0
         /\ (i + 1) % Cap \in Slots
<1>1. (i + 1) % Cap = IF i + 1 < Cap THEN i + 1 ELSE i + 1 - Cap
  BY SlotAfter, CapAssumption
<1> QED
  BY <1>1, CapAssumption DEF Slots

\* The number of slots from one index to another, going round the end.
LEMMA Distance ==
  ASSUME NEW f \in Slots, NEW r \in Slots
  PROVE  /\ (r - f + Cap) % Cap = IF f <= r THEN r - f ELSE r - f + Cap
         /\ (r - f + Cap) % Cap \in 0 .. Cap - 1
<1>1. CASE f <= r
  <2>1. r - f + Cap \in Cap .. 2 * Cap - 1
    BY <1>1, CapAssumption DEF Slots
  <2>2. (r - f + Cap) % Cap = (r - f + Cap) - Cap
    BY <2>1, ModWrap, CapAssumption
  <2> QED
    BY <1>1, <2>2, CapAssumption DEF Slots
<1>2. CASE f > r
  <2>1. r - f + Cap \in 0 .. Cap - 1
    BY <1>2, CapAssumption DEF Slots
  <2> QED
    BY <1>2, <2>1, ModSmall, CapAssumption DEF Slots
<1> QED
  BY <1>1, <1>2, CapAssumption DEF Slots

LEMMA ContentsIsSeq ==
  ASSUME QueueTypeOK
  PROVE  /\ Length \in 0 .. Cap - 1
         /\ \A i \in 1 .. Length : (front + i - 1) % Cap \in Slots
         /\ Contents \in Seq(Elements \union {nil})
         /\ Len(Contents) = Length
<1>1. Length \in 0 .. Cap - 1
  BY Distance DEF QueueTypeOK, Length
<1>2. ASSUME NEW i \in 1 .. Length PROVE (front + i - 1) % Cap \in Slots
  <2>1. /\ i - 1 \in Nat /\ i - 1 <= Cap /\ front \in Slots
        /\ front + i - 1 = front + (i - 1)
    BY <1>1, CapAssumption DEF QueueTypeOK, Slots
  <2>2. (front + (i - 1)) % Cap = IF front + (i - 1) < Cap THEN front + (i - 1)
                                                          ELSE front + (i - 1) - Cap
    BY <2>1, SlotAfter
  <2> QED
    BY <1>1, <2>1, <2>2, CapAssumption DEF Slots
<1>3. Contents \in [1 .. Length -> Elements \union {nil}]
  BY <1>2 DEF Contents, QueueTypeOK
<1> QED
  BY <1>1, <1>2, <1>3

LEMMA SeqAsFunction ==
  ASSUME NEW S, NEW s \in Seq(S), NEW n \in Nat, Len(s) = n,
         NEW t, t = [i \in 1 .. n |-> t[i]], \A i \in 1 .. n : s[i] = t[i]
  PROVE  s = t
<1>1. s \in [1 .. n -> S]
  BY LenProperties
<1>2. s = [i \in 1 .. n |-> s[i]]
  BY <1>1
<1>3. [i \in 1 .. n |-> s[i]] = [i \in 1 .. n |-> t[i]]
  OBVIOUS
<1> QED
  BY <1>2, <1>3

LEMMA FullIsLimit ==
  ASSUME QueueTypeOK
  PROVE  isFull <=> Len(Contents) = Cap - 1
<1>1. front % Cap = front
  BY ModSmall, CapAssumption DEF QueueTypeOK, Slots
<1>2. (rear + 1) % Cap = IF rear + 1 < Cap THEN rear + 1 ELSE 0
  BY NextSlot DEF QueueTypeOK
<1>3. Len(Contents) = IF front <= rear THEN rear - front ELSE rear - front + Cap
  BY Distance, ContentsIsSeq DEF QueueTypeOK, Length
<1> QED
  BY <1>1, <1>2, <1>3, CapAssumption DEF QueueTypeOK, Slots, isFull

-----------------------------------------------------------------------------
(* One step of the queue is one step of the FIFO queue. *)

LEMMA QueueTypeStep ==
  ASSUME QueueTypeOK, [QueueNext]_queueVars
  PROVE  QueueTypeOK'
<1>1. ASSUME NEW e \in Elements, EnQueue(e) PROVE QueueTypeOK'
  BY <1>1, NextSlot DEF QueueTypeOK, EnQueue, Slots
<1>2. CASE DeQueue
  BY <1>2, NextSlot DEF QueueTypeOK, DeQueue, Slots
<1>3. CASE UNCHANGED queueVars
  BY <1>3 DEF QueueTypeOK, queueVars, Slots
<1> QED
  BY <1>1, <1>2, <1>3 DEF QueueNext

LEMMA EnQueueAppends ==
  ASSUME QueueTypeOK, NEW e \in Elements, EnQueue(e), ~isFull
  PROVE  Contents' = Append(Contents, e)
<1>1. /\ data' = [data EXCEPT ![rear] = e]
      /\ rear' = (rear + 1) % Cap
      /\ front' = front
  BY DEF EnQueue
<1>2. Len(Contents) # Cap - 1 /\ Length \in 0 .. Cap - 1 /\ Length # Cap - 1
  BY FullIsLimit, ContentsIsSeq
<1>3. Length' = Length + 1
  <2>1. Length' = (rear' - front + Cap) % Cap
    BY <1>1 DEF Length
  <2>2. rear' \in Slots /\ rear' = IF rear + 1 < Cap THEN rear + 1 ELSE 0
    BY <1>1, NextSlot DEF QueueTypeOK
  <2>3. Length' = IF front <= rear' THEN rear' - front ELSE rear' - front + Cap
    BY <2>1, <2>2, Distance DEF QueueTypeOK
  <2>4. Length = IF front <= rear THEN rear - front ELSE rear - front + Cap
    BY Distance DEF QueueTypeOK, Length
  <2> QED
    BY <1>2, <2>2, <2>3, <2>4, CapAssumption DEF QueueTypeOK, Slots
<1>4. (front + (Length + 1) - 1) % Cap = rear
  <2>1. (front + Length) % Cap = IF front + Length < Cap THEN front + Length
                                                        ELSE front + Length - Cap
    BY <1>2, SlotAfter, CapAssumption DEF QueueTypeOK
  <2>2. Length = IF front <= rear THEN rear - front ELSE rear - front + Cap
    BY Distance DEF QueueTypeOK, Length
  <2>3. front + (Length + 1) - 1 = front + Length
    BY <1>2, CapAssumption DEF QueueTypeOK, Slots
  <2> QED
    BY <1>2, <2>1, <2>2, <2>3, CapAssumption DEF QueueTypeOK, Slots
<1>5. ASSUME NEW i \in 1 .. Length PROVE (front + i - 1) % Cap # rear
  <2>1. i - 1 \in Nat /\ i - 1 <= Cap /\ front + i - 1 = front + (i - 1)
    BY <1>2, CapAssumption DEF QueueTypeOK, Slots
  <2>2. (front + (i - 1)) % Cap = IF front + (i - 1) < Cap THEN front + (i - 1)
                                                          ELSE front + (i - 1) - Cap
    BY <2>1, SlotAfter DEF QueueTypeOK
  <2>3. Length = IF front <= rear THEN rear - front ELSE rear - front + Cap
    BY Distance DEF QueueTypeOK, Length
  <2> QED
    BY <1>2, <2>1, <2>2, <2>3, CapAssumption DEF QueueTypeOK, Slots
<1>6. Contents' = [i \in 1 .. Length + 1 |-> data'[(front + i - 1) % Cap]]
  BY <1>1, <1>3 DEF Contents
<1>7. ASSUME NEW i \in 1 .. Length + 1
      PROVE  data'[(front + i - 1) % Cap] = IF i <= Length THEN Contents[i] ELSE e
  <2>1. CASE i \in 1 .. Length
    BY <2>1, <1>1, <1>5, ContentsIsSeq DEF Contents, QueueTypeOK
  <2>2. CASE i = Length + 1
    BY <2>2, <1>1, <1>2, <1>4 DEF QueueTypeOK
  <2> QED
    BY <1>2, <2>1, <2>2
<1>8. /\ Append(Contents, e) \in Seq(Elements \union {nil})
      /\ Len(Append(Contents, e)) = Length + 1
      /\ \A i \in 1 .. Length : Append(Contents, e)[i] = Contents[i]
      /\ Append(Contents, e)[Length + 1] = e
  BY ContentsIsSeq, AppendProperties
<1>9. \A i \in 1 .. Length + 1 : Append(Contents, e)[i] = Contents'[i]
  BY <1>2, <1>6, <1>7, <1>8
<1>10. Contents' = [i \in 1 .. Length + 1 |-> Contents'[i]]
  BY <1>6
<1> QED
  BY <1>2, <1>8, <1>9, <1>10, SeqAsFunction

LEMMA DeQueueTakesHead ==
  ASSUME QueueTypeOK, DeQueue
  PROVE  /\ Contents # << >>
         /\ Oldest = Head(Contents)
         /\ Contents' = Tail(Contents)
<1>1. /\ data' = [data EXCEPT ![front] = nil]
      /\ front' = (front + 1) % Cap
      /\ rear' = rear
      /\ front # rear
  BY DEF DeQueue, isEmpty
<1>2. Length = IF front <= rear THEN rear - front ELSE rear - front + Cap
  BY Distance DEF QueueTypeOK, Length
<1>3. Length \in 1 .. Cap - 1
  BY <1>1, <1>2, ContentsIsSeq, CapAssumption DEF QueueTypeOK, Slots
<1>4. front' \in Slots /\ front' = IF front + 1 < Cap THEN front + 1 ELSE 0
  BY <1>1, NextSlot DEF QueueTypeOK
<1>5. Length' = Length - 1
  <2>1. Length' = (rear - front' + Cap) % Cap
    BY <1>1 DEF Length
  <2>2. Length' = IF front' <= rear THEN rear - front' ELSE rear - front' + Cap
    BY <2>1, <1>4, Distance DEF QueueTypeOK
  <2> QED
    BY <1>1, <1>2, <1>4, <2>2, CapAssumption DEF QueueTypeOK, Slots
<1>6. (front + 1 - 1) % Cap = front
  BY ModSmall, CapAssumption DEF QueueTypeOK, Slots
<1>7. ASSUME NEW i \in 1 .. Length - 1
      PROVE  /\ (front' + i - 1) % Cap = (front + (i + 1) - 1) % Cap
             /\ (front + (i + 1) - 1) % Cap # front
  <2>1. /\ i - 1 \in Nat /\ i - 1 <= Cap /\ front' + i - 1 = front' + (i - 1)
        /\ i \in Nat /\ i <= Cap /\ front + (i + 1) - 1 = front + i
    BY <1>3, <1>4, CapAssumption DEF QueueTypeOK, Slots
  <2>2. (front' + (i - 1)) % Cap = IF front' + (i - 1) < Cap THEN front' + (i - 1)
                                                            ELSE front' + (i - 1) - Cap
    BY <2>1, <1>4, SlotAfter
  <2>3. (front + i) % Cap = IF front + i < Cap THEN front + i ELSE front + i - Cap
    BY <2>1, SlotAfter DEF QueueTypeOK
  <2> QED
    BY <1>3, <1>4, <2>1, <2>2, <2>3, CapAssumption DEF QueueTypeOK, Slots
<1>8. Contents' = [i \in 1 .. Length - 1 |-> data'[(front' + i - 1) % Cap]]
  BY <1>5 DEF Contents
<1>9. ASSUME NEW i \in 1 .. Length - 1
      PROVE  data'[(front' + i - 1) % Cap] = Contents[i + 1]
  <2>1. i + 1 \in 1 .. Length
    BY <1>3
  <2>2. (front + (i + 1) - 1) % Cap \in Slots
    BY <2>1, ContentsIsSeq
  <2> QED
    BY <1>1, <1>7, <2>1, <2>2 DEF Contents, QueueTypeOK
<1>10. /\ Tail(Contents) \in Seq(Elements \union {nil})
       /\ Len(Tail(Contents)) = Length - 1
       /\ \A i \in 1 .. Length - 1 : Tail(Contents)[i] = Contents[i + 1]
  <2>1. Contents # << >>
    BY <1>3, ContentsIsSeq
  <2> QED
    BY <1>3, <2>1, ContentsIsSeq, HeadTailProperties
<1>11. Contents[1] = data[front]
  BY <1>3, <1>6 DEF Contents
<1>12. Contents' = [i \in 1 .. Length - 1 |-> Contents'[i]]
  BY <1>8
<1>13. \A i \in 1 .. Length - 1 : Tail(Contents)[i] = Contents'[i]
  BY <1>8, <1>9, <1>10
<1>14. Tail(Contents) = Contents'
  BY <1>3, <1>10, <1>12, <1>13, SeqAsFunction
<1> QED
  BY <1>3, <1>11, <1>14, ContentsIsSeq DEF Oldest

LEMMA QueueStepIsFifoStep ==
  ASSUME QueueTypeOK, [QueueNext]_queueVars
  PROVE  [Fifo!Next]_<<Contents, refused>>
<1>1. ASSUME NEW e \in Elements, EnQueue(e), isFull
      PROVE  Fifo!Refuse(e)
  BY <1>1, FullIsLimit DEF EnQueue, Fifo!Refuse, Contents, Length
<1>2. ASSUME NEW e \in Elements, EnQueue(e), ~isFull
      PROVE  Fifo!Accept(e)
  <2>1. Len(Contents) < Cap - 1
    BY <1>2, FullIsLimit, ContentsIsSeq, CapAssumption
  <2> QED
    BY <1>2, <2>1, EnQueueAppends DEF EnQueue, Fifo!Accept
<1>3. ASSUME DeQueue PROVE Fifo!Take
  BY <1>3, DeQueueTakesHead DEF DeQueue, Fifo!Take
<1>4. CASE UNCHANGED queueVars
  BY <1>4 DEF queueVars, Contents, Length
<1> QED
  BY <1>1, <1>2, <1>3, <1>4 DEF QueueNext, Fifo!Next

LEMMA QueueInit == InitQueue => QueueTypeOK /\ Fifo!Init
<1> SUFFICES ASSUME InitQueue PROVE QueueTypeOK /\ Fifo!Init
  OBVIOUS
<1>1. QueueTypeOK
  BY CapAssumption DEF InitQueue, QueueTypeOK, Slots
<1>2. Length = 0
  BY Distance, <1>1, CapAssumption DEF InitQueue, Length, QueueTypeOK
<1> QED
  BY <1>1, <1>2, ContentsIsSeq DEF Fifo!Init, InitQueue

\* The circular queue on its own implements the bounded FIFO queue of Cap - 1
\* elements, for every Cap (Queue.go 27-82).
THEOREM QueueImplementsFifo == QueueSpec => Fifo!Spec
<1>1. QueueTypeOK /\ [QueueNext]_queueVars => QueueTypeOK' /\ [Fifo!Next]_<<Contents, refused>>
  BY QueueTypeStep, QueueStepIsFifoStep
<1> QED
  BY <1>1, QueueInit, PTL DEF QueueSpec, Fifo!Spec

-----------------------------------------------------------------------------
(* In the exporter the queue is used by EnQueue and DeQueue only. *)

LEMMA StepIsQueueStep == [Next]_vars => [QueueNext]_queueVars
<1> SUFFICES ASSUME [Next]_vars PROVE [QueueNext]_queueVars
  OBVIOUS
<1>1. ASSUME NEW s \in Samples, UpdateDevicePermData(s) PROVE QueueNext
  BY <1>1 DEF UpdateDevicePermData, QueueNext, Samples
<1>2. CASE TakeFromQueue
  BY <1>2 DEF TakeFromQueue, QueueNext
<1>3. CASE SendToChan
  BY <1>3 DEF SendToChan
<1>4. ASSUME NEW h \in Handlers, Handle(h) \/ QueryDeviceCMDB(h) PROVE UNCHANGED queueVars
  BY <1>4 DEF Handle, Receive, LoadEntry, GetDeviceCMDB, UpdateAlertScore,
              UpdateDeviceMetric, LoadEntryAgain, QueryDeviceCMDB
<1>5. ASSUME NEW f \in Fetchers, BeginFetch(f) \/ Publish(f) PROVE UNCHANGED queueVars
  BY <1>5 DEF BeginFetch, Publish
<1>6. ASSUME NEW f \in Fetchers, NEW d \in Devices,
             RangeMetrics(f, d) \/ RangeScores(f, d) \/ FillDeviceMetric(f, d)
      PROVE  UNCHANGED queueVars
  BY <1>6 DEF RangeMetrics, RangeScores, FillDeviceMetric
<1>7. ASSUME NEW c \in Cleanups, NEW d \in Devices,
             clearOldPerms(c, d) \/ clearOldAlerts(c, d)
      PROVE  UNCHANGED queueVars
  BY <1>7 DEF clearOldPerms, clearOldAlerts
<1>8. CASE UNCHANGED vars
  BY <1>8 DEF vars
<1> QED
  BY <1>1, <1>2, <1>3, <1>4, <1>5, <1>6, <1>7, <1>8 DEF Next

\* The queue of the exporter is a bounded FIFO queue of Cap - 1 samples, whatever
\* the handlers, the fetches and the clean-ups do (device_allPermData.go 82-125,
\* Queue.go 27-82).
THEOREM ExporterQueueIsFifo == Spec => QueueIsFifo
<1>1. QueueTypeOK /\ [QueueNext]_queueVars => QueueTypeOK' /\ [Fifo!Next]_<<Contents, refused>>
  BY QueueTypeStep, QueueStepIsFifoStep
<1>2. Init => InitQueue
  BY DEF Init
<1> QED
  BY <1>1, <1>2, QueueInit, StepIsQueueStep, PTL DEF Spec, QueueIsFifo, Fifo!Spec

-----------------------------------------------------------------------------
(* No sample is lost, doubled or overtaken before a handler has it. *)

Hand == IF writer = nil THEN << >> ELSE <<writer>>

\* The order is inductive once the parts are known to be sequences of samples:
\* an empty slot (nil) in the queue would be lost in the writer's hand.
OrderInv ==
  /\ QueueTypeOK
  /\ Contents \in Seq(Samples)
  /\ taken \in Seq(Samples)
  /\ newDeviceChan \in Seq(Samples)
  /\ writer \in Samples \union {nil}
  /\ posted = taken \o newDeviceChan \o Hand \o Contents

LEMMA HeadAndTail ==
  ASSUME NEW S, NEW s \in Seq(S), s # << >>
  PROVE  /\ Head(s) \in S /\ Tail(s) \in Seq(S)
         /\ s = <<Head(s)>> \o Tail(s)
<1>1. Head(s) \in S /\ Tail(s) \in Seq(S) /\ Len(Tail(s)) = Len(s) - 1
      /\ \A i \in 1 .. Len(Tail(s)) : Tail(s)[i] = s[i + 1]
  BY HeadTailProperties
<1>2. <<Head(s)>> \in Seq(S) /\ Len(<<Head(s)>>) = 1 /\ <<Head(s)>>[1] = s[1]
  BY <1>1
<1>3. Len(s) \in Nat \ {0}
  BY EmptySeq
<1>4. /\ <<Head(s)>> \o Tail(s) \in Seq(S)
      /\ Len(<<Head(s)>> \o Tail(s)) = Len(s)
      /\ \A i \in 1 .. Len(s) : (<<Head(s)>> \o Tail(s))[i] =
           IF i <= 1 THEN <<Head(s)>>[i] ELSE Tail(s)[i - 1]
  BY <1>1, <1>2, <1>3, ConcatProperties
<1>5. \A i \in 1 .. Len(s) : s[i] = (<<Head(s)>> \o Tail(s))[i]
  BY <1>1, <1>2, <1>3, <1>4
<1> QED
  BY <1>1, <1>4, <1>5, SeqEqual

\* How the concatenation of the parts changes when an element moves on.
LEMMA MoveOne ==
  ASSUME NEW S, NEW x \in Seq(S), NEW y \in Seq(S), NEW e \in S
  PROVE  x \o (<<e>> \o y) = (x \o <<e>>) \o y
<1>1. <<e>> \in Seq(S)
  OBVIOUS
<1> QED
  BY <1>1, ConcatAssociative

LEMMA MoveIn ==
  ASSUME NEW S, NEW x \in Seq(S), NEW y \in Seq(S), NEW e \in S
  PROVE  x \o Append(y, e) = Append(x \o y, e)
<1>1. <<e>> \in Seq(S) /\ x \o y \in Seq(S)
  BY ConcatProperties
<1> QED
  BY <1>1, AppendIsConcat, ConcatAssociative

LEMMA MoveOut ==
  ASSUME NEW S, NEW x \in Seq(S), NEW y \in Seq(S), NEW e \in S
  PROVE  Append(x, e) \o y = x \o (<<e>> \o y)
<1>1. <<e>> \in Seq(S)
  OBVIOUS
<1> QED
  BY <1>1, AppendIsConcat, ConcatAssociative

LEMMA OrderInit == Init => OrderInv
<1> SUFFICES ASSUME Init PROVE OrderInv
  OBVIOUS
<1>1. QueueTypeOK /\ Contents = << >> /\ Hand = << >>
  BY QueueInit DEF Init, Fifo!Init, Hand
<1> QED
  BY <1>1 DEF Init, OrderInv

LEMMA OrderStep ==
  ASSUME OrderInv, [Next]_vars
  PROVE  OrderInv'
<1> USE DEF OrderInv
<1>1. QueueTypeOK'
  BY StepIsQueueStep, QueueTypeStep
<1>2. /\ Hand \in Seq(Samples) /\ Elements = Samples
      /\ taken \o newDeviceChan \in Seq(Samples)
      /\ taken \o newDeviceChan \o Hand \in Seq(Samples)
  BY ConcatProperties DEF Hand, Samples
<1>3. ASSUME NEW s \in Samples, UpdateDevicePermData(s) PROVE OrderInv'
  <2>1. EnQueue(s) /\ UNCHANGED <<taken, newDeviceChan, writer>>
    BY <1>3 DEF UpdateDevicePermData, handlerVars
  <2>2. CASE isFull
    <3>1. UNCHANGED <<data, front, rear>> /\ posted' = posted
      BY <1>3, <2>1, <2>2 DEF EnQueue, UpdateDevicePermData
    <3> QED
      BY <1>1, <2>1, <3>1 DEF Contents, Length, Hand
  <2>3. CASE ~isFull
    <3>1. Contents' = Append(Contents, s)
      BY <2>1, <2>3, <1>2, EnQueueAppends
    <3>2. posted' = Append(posted, s)
      BY <1>3, <2>3 DEF UpdateDevicePermData
    <3>3. taken \o newDeviceChan \o Hand \o Contents' = posted'
      BY <1>2, <3>1, <3>2, MoveIn
    <3> QED
      BY <1>1, <2>1, <3>1, <3>3, AppendProperties DEF Hand
  <2> QED
    BY <2>2, <2>3
<1>4. CASE TakeFromQueue
  <2>1. /\ DeQueue /\ writer = nil /\ writer' = Oldest
        /\ UNCHANGED <<posted, taken, newDeviceChan>>
    BY <1>4 DEF TakeFromQueue
  <2>2. Contents # << >> /\ Oldest = Head(Contents) /\ Contents' = Tail(Contents)
    BY <2>1, DeQueueTakesHead
  <2>3. /\ Oldest \in Samples /\ Contents' \in Seq(Samples)
        /\ Contents = <<Oldest>> \o Contents'
    BY <2>2, HeadAndTail
  <2>4. Hand = << >> /\ Hand' = <<Oldest>>
    BY <2>1, <2>3, DeviceAssumption DEF Hand
  <2>5. (taken \o newDeviceChan) \o (<<Oldest>> \o Contents')
          = ((taken \o newDeviceChan) \o <<Oldest>>) \o Contents'
    <3>1. PICK x \in Seq(Samples), e \in Samples : x = taken \o newDeviceChan /\ e = Oldest
      BY <1>2, <2>3
    <3>2. x \o (<<e>> \o Contents') = (x \o <<e>>) \o Contents'
      BY <2>3, MoveOne, SMTT(30)
    <3> QED
      BY <3>1, <3>2
  <2>6. posted = taken \o newDeviceChan \o Hand' \o Contents'
    BY <1>2, <2>3, <2>4, <2>5, ConcatEmptySeq
  <2> QED
    BY <1>1, <2>1, <2>3, <2>6
<1>5. CASE SendToChan
  <2>1. /\ writer # nil /\ writer' = nil /\ newDeviceChan' = Append(newDeviceChan, writer)
        /\ UNCHANGED <<posted, taken, queueVars>>
    BY <1>5 DEF SendToChan
  <2>2. writer \in Samples /\ Hand = <<writer>> /\ Hand' = << >>
    BY <2>1 DEF Hand
  <2>3. newDeviceChan' \in Seq(Samples) /\ taken \o newDeviceChan' \in Seq(Samples)
    BY <2>1, <2>2, AppendProperties, ConcatProperties
  <2>4. taken \o newDeviceChan' = (taken \o newDeviceChan) \o <<writer>>
    BY <1>2, <2>1, <2>2, MoveIn, AppendIsConcat
  <2>5. (taken \o newDeviceChan') \o Hand' = taken \o newDeviceChan \o Hand
    BY <2>2, <2>3, <2>4, ConcatEmptySeq
  <2> QED
    BY <1>1, <2>1, <2>3, <2>5 DEF queueVars, Contents, Length
<1>6. ASSUME NEW h \in Handlers, Receive(h) PROVE OrderInv'
  <2>1. /\ newDeviceChan # << >> /\ newDeviceChan' = Tail(newDeviceChan)
        /\ taken' = Append(taken, Head(newDeviceChan))
        /\ UNCHANGED <<posted, writer, queueVars>>
    BY <1>6 DEF Receive
  <2>2. /\ Head(newDeviceChan) \in Samples /\ newDeviceChan' \in Seq(Samples)
        /\ newDeviceChan = <<Head(newDeviceChan)>> \o newDeviceChan'
    BY <2>1, HeadAndTail
  <2>3. taken' \in Seq(Samples)
    BY <2>1, <2>2, AppendProperties
  <2>4. taken' \o newDeviceChan' = taken \o newDeviceChan
    <3>1. PICK e \in Samples : e = Head(newDeviceChan)
      BY <2>2
    <3>2. Append(taken, e) \o newDeviceChan' = taken \o (<<e>> \o newDeviceChan')
      BY <2>2, MoveOut
    <3> QED
      BY <2>1, <2>2, <3>1, <3>2
  <2> QED
    BY <1>1, <2>1, <2>2, <2>3, <2>4 DEF Hand, queueVars, Contents, Length
<1>7. ASSUME UNCHANGED <<queueVars, posted, writer, newDeviceChan, taken>> PROVE OrderInv'
  BY <1>1, <1>7 DEF Hand, queueVars, Contents, Length
<1>8. ASSUME NEW h \in Handlers, (Handle(h) /\ ~Receive(h)) \/ QueryDeviceCMDB(h)
      PROVE  UNCHANGED <<queueVars, posted, writer, newDeviceChan, taken>>
  BY <1>8 DEF Handle, LoadEntry, GetDeviceCMDB, UpdateAlertScore, UpdateDeviceMetric,
              LoadEntryAgain, QueryDeviceCMDB
<1>9. ASSUME NEW f \in Fetchers, BeginFetch(f) \/ Publish(f)
      PROVE  UNCHANGED <<queueVars, posted, writer, newDeviceChan, taken>>
  BY <1>9 DEF BeginFetch, Publish, handlerVars
<1>10. ASSUME NEW f \in Fetchers, NEW d \in Devices,
              RangeMetrics(f, d) \/ RangeScores(f, d) \/ FillDeviceMetric(f, d)
       PROVE  UNCHANGED <<queueVars, posted, writer, newDeviceChan, taken>>
  BY <1>10 DEF RangeMetrics, RangeScores, FillDeviceMetric, handlerVars
<1>11. ASSUME NEW c \in Cleanups, NEW d \in Devices,
              clearOldPerms(c, d) \/ clearOldAlerts(c, d)
       PROVE  UNCHANGED <<queueVars, posted, writer, newDeviceChan, taken>>
  BY <1>11 DEF clearOldPerms, clearOldAlerts, handlerVars
<1>12. CASE UNCHANGED vars
  BY <1>7, <1>12 DEF vars, handlerVars
<1> QED
  BY <1>3, <1>4, <1>5, <1>6, <1>7, <1>8, <1>9, <1>10, <1>11, <1>12 DEF Next

\* For every number of samples, handlers, fetchers and slots, each sample that the
\* queue accepted is in exactly one of: what the handlers took, the channel, the
\* writer's hand, the queue, and the four keep the order of acceptance
\* (device_allPermData.go 82-137).
THEOREM SamplesInOrder == Spec => []SamplesKeepOrder
<1>1. OrderInv => SamplesKeepOrder
  BY DEF OrderInv, Hand, SamplesKeepOrder
<1> QED
  BY <1>1, OrderInit, OrderStep, PTL DEF Spec

-----------------------------------------------------------------------------
(* Types, and with them the cause of a missing score. *)

Awake == {"load", "cmdb", "query", "score", "update", "reload"}
WithEntry == Awake \ {"load"}

FetchType == [left : SUBSET Devices, got : [Devices -> Objects \union {nil}],
              scores : SUBSET Devices]

\* TypeOK is inductive once it is known where a handler has a sample and an entry.
TypeInv ==
  /\ TypeOK
  /\ fetch \in [Fetchers -> FetchType]
  /\ \A h \in Handlers : /\ hpc[h] \in Awake => msg[h] \in Samples
                         /\ hpc[h] \in WithEntry => obj[h] \in Objects

LEMMA DevOfAwake ==
  ASSUME TypeInv, NEW h \in Handlers, hpc[h] \in Awake
  PROVE  Dev(h) \in Devices
  BY DeviceAssumption DEF TypeInv, Dev

\* LoadOrStore gives the device an entry and leaves the others as they are.
LEMMA StoreOnce ==
  ASSUME TypeInv, NEW d \in Devices, NEW o \in Objects, LoadOrStore(d, o)
  PROVE  /\ allMetrics' \in [Devices -> Objects \union {nil}]
         /\ allMetrics'[d] = IF allMetrics[d] = nil THEN o ELSE allMetrics[d]
         /\ allMetrics'[d] \in Objects
         /\ \A e \in Devices \ {d} : allMetrics'[e] = allMetrics[e]
  BY DeviceAssumption DEF TypeInv, TypeOK, LoadOrStore

LEMMA TypeStep ==
  ASSUME TypeInv, OrderInv, [Next]_vars
  PROVE  TypeInv'
<1> USE DEF TypeInv, TypeOK
<1>1. OrderInv'
  BY OrderStep
<1>2. /\ writer' \in Samples \union {nil}
      /\ newDeviceChan' \in Seq(Samples)
  BY <1>1 DEF OrderInv
<1>3. ASSUME NEW s \in Samples, UpdateDevicePermData(s) PROVE TypeInv'
  BY <1>3 DEF UpdateDevicePermData, handlerVars, mapVars, fetchVars, cleanVars
<1>4. CASE TakeFromQueue
  BY <1>4, <1>2 DEF TakeFromQueue, mapVars, fetchVars, cleanVars
<1>5. CASE SendToChan
  <2>1. Len(newDeviceChan') <= ChanLength
    BY <1>5, AppendProperties, LenProperties, DeviceAssumption DEF SendToChan
  <2> QED
    BY <1>5, <1>2, <2>1 DEF SendToChan, mapVars, fetchVars, cleanVars
<1>6. ASSUME NEW h \in Handlers, Receive(h) PROVE TypeInv'
  <2>1. /\ Head(newDeviceChan) \in Samples
        /\ Len(newDeviceChan') <= ChanLength
    BY <1>6, HeadTailProperties, EmptySeq, LenProperties, DeviceAssumption DEF Receive
  <2> QED
    BY <1>6, <1>2, <2>1 DEF Receive, Awake, WithEntry, mapVars, fetchVars, cleanVars
<1>7. ASSUME NEW h \in Handlers, LoadEntry(h) PROVE TypeInv'
  <2>1. /\ Dev(h) \in Devices /\ <<msg[h], 1>> \in Objects
    BY <1>7, DevOfAwake DEF LoadEntry, Awake, Objects
  <2>2. /\ allMetrics' \in [Devices -> Objects \union {nil}]
        /\ allMetrics'[Dev(h)] \in Objects
    BY <1>7, <2>1, StoreOnce DEF LoadEntry
  <2> QED
    BY <1>7, <2>2 DEF LoadEntry, Awake, WithEntry, fetchVars, cleanVars
<1>8. ASSUME NEW h \in Handlers, GetDeviceCMDB(h) PROVE TypeInv'
  BY <1>8 DEF GetDeviceCMDB, Awake, WithEntry, mapVars, fetchVars, cleanVars
<1>9. ASSUME NEW h \in Handlers, QueryDeviceCMDB(h) PROVE TypeInv'
  BY <1>9, DevOfAwake DEF QueryDeviceCMDB, Awake, WithEntry, fetchVars, cleanVars
<1>10. ASSUME NEW h \in Handlers, UpdateAlertScore(h) PROVE TypeInv'
  BY <1>10, DevOfAwake DEF UpdateAlertScore, Awake, WithEntry, fetchVars, cleanVars
<1>11. ASSUME NEW h \in Handlers, UpdateDeviceMetric(h) PROVE TypeInv'
  BY <1>11 DEF UpdateDeviceMetric, Awake, WithEntry, fetchVars, cleanVars
<1>12. ASSUME NEW h \in Handlers, LoadEntryAgain(h) PROVE TypeInv'
  <2>1. /\ Dev(h) \in Devices /\ <<msg[h], 2>> \in Objects
    BY <1>12, DevOfAwake DEF LoadEntryAgain, Awake, Objects
  <2>2. allMetrics' \in [Devices -> Objects \union {nil}]
    BY <1>12, <2>1, StoreOnce DEF LoadEntryAgain
  <2> QED
    BY <1>12, <2>2 DEF LoadEntryAgain, Awake, WithEntry, fetchVars, cleanVars
<1>13. ASSUME NEW f \in Fetchers, BeginFetch(f) PROVE TypeInv'
  <2>1. [NoFetch EXCEPT !.left = Devices] \in FetchType
    BY DEF NoFetch, Nothing, FetchType
  <2> QED
    BY <1>13, <2>1 DEF BeginFetch, handlerVars, mapVars, cleanVars
<1>14. ASSUME NEW f \in Fetchers, Publish(f) PROVE TypeInv'
  <2>1. NoFetch \in FetchType
    BY DEF NoFetch, Nothing, FetchType
  <2> QED
    BY <1>14, <2>1 DEF Publish, handlerVars, mapVars, cleanVars
<1>15. ASSUME NEW f \in Fetchers, NEW d \in Devices,
              RangeMetrics(f, d) \/ RangeScores(f, d) \/ FillDeviceMetric(f, d)
       PROVE  TypeInv'
  <2>0. /\ fetch[f].left \subseteq Devices /\ fetch[f].scores \subseteq Devices
        /\ fetch[f].got \in [Devices -> Objects \union {nil}]
        /\ fetch[f] \in FetchType
    BY DEF FetchType
  <2>1. fetch' \in [Fetchers -> FetchType]
    <3>1. CASE RangeMetrics(f, d)
      <4> DEFINE seen == [fetch[f] EXCEPT !.got[d] = allMetrics[d],
                                          !.left = IF @ = {d} THEN Devices ELSE @ \ {d}]
      <4>1. seen \in FetchType
        BY <2>0 DEF FetchType
      <4>2. fetch' = [fetch EXCEPT ![f] = seen]
        BY <3>1 DEF RangeMetrics
      <4> QED
        BY <4>1, <4>2
    <3>2. CASE RangeScores(f, d)
      <4> DEFINE seen == [fetch[f] EXCEPT !.scores = @ \union ({d} \intersect allAlertScore),
                                          !.left = IF @ = {d} THEN Collected(fetch[f].got)
                                                              ELSE @ \ {d}]
      <4>1. seen \in FetchType
        BY <2>0 DEF FetchType, Collected
      <4>2. fetch' = [fetch EXCEPT ![f] = seen]
        BY <3>2 DEF RangeScores
      <4> QED
        BY <4>1, <4>2
    <3>3. CASE FillDeviceMetric(f, d)
      <4> DEFINE seen == [fetch[f] EXCEPT !.left = @ \ {d}]
      <4>1. seen \in FetchType
        BY <2>0 DEF FetchType
      <4>2. fetch' = [fetch EXCEPT ![f] = seen]
        BY <3>3 DEF FillDeviceMetric
      <4> QED
        BY <4>1, <4>2
    <3> QED
      BY <1>15, <3>1, <3>2, <3>3
  <2>2. fpc' \in [Fetchers -> {"idle", "perms", "alerts", "fill"}]
    <3>1. fpc' \in {fpc, [fpc EXCEPT ![f] = "alerts"], [fpc EXCEPT ![f] = "fill"]}
      BY <1>15 DEF RangeMetrics, RangeScores, FillDeviceMetric, Visited
    <3> QED
      BY <3>1
  <2>3. /\ oldPerms' \in [Cleanups -> SUBSET Devices]
        /\ oldAlerts' \in [Cleanups -> SUBSET Devices]
    <3>1. fetch'[f].scores \in SUBSET Devices
      BY <2>1 DEF FetchType
    <3>2. CASE RangeMetrics(f, d)
      BY <3>1, <3>2 DEF RangeMetrics, Collected, cleanVars
    <3>3. CASE RangeScores(f, d)
      BY <3>1, <3>3 DEF RangeScores, Collected, cleanVars
    <3>4. CASE FillDeviceMetric(f, d)
      BY <3>1, <3>4 DEF FillDeviceMetric, Collected, cleanVars
    <3> QED
      BY <1>15, <3>2, <3>3, <3>4
  <2> QED
    BY <1>15, <2>1, <2>2, <2>3
       DEF RangeMetrics, RangeScores, FillDeviceMetric, handlerVars, mapVars
<1>16. ASSUME NEW c \in Cleanups, NEW d \in Devices,
              clearOldPerms(c, d) \/ clearOldAlerts(c, d)
       PROVE  TypeInv'
  BY <1>16 DEF clearOldPerms, clearOldAlerts, handlerVars, fetchVars
<1>17. CASE UNCHANGED vars
  BY <1>17 DEF vars, handlerVars, mapVars, fetchVars, cleanVars
<1> QED
  BY <1>3, <1>4, <1>5, <1>6, <1>7, <1>8, <1>9, <1>10, <1>11, <1>12, <1>13, <1>14, <1>15,
     <1>16, <1>17 DEF Next, Handle

-----------------------------------------------------------------------------
(* The cause of a missing score. *)

AtCmdb == {"cmdb", "query", "score"}

\* The steps that leave the entries, their scores and the marks of the clean-ups
\* alone, and whose handler, if any, does not leave the CMDB.
LEMMA ScoresUntouched ==
  ASSUME TypeInv, MissingScoreHasCause,
         UNCHANGED <<allMetrics, allAlertScore, scrubbed>>,
         \A h \in Handlers : hpc[h] \in AtCmdb => hpc'[h] \in AtCmdb /\ msg'[h] = msg[h]
  PROVE  MissingScoreHasCause'
  BY DEF MissingScoreHasCause, Dev, AtCmdb

LEMMA ScoreStep ==
  ASSUME TypeInv, MissingScoreHasCause, [Next]_vars
  PROVE  MissingScoreHasCause'
<1> USE DEF TypeInv, TypeOK
<1>1. CASE \/ \E s \in Samples : UpdateDevicePermData(s)
           \/ TakeFromQueue \/ SendToChan \/ UNCHANGED vars
  <2>1. UNCHANGED <<allMetrics, allAlertScore, scrubbed, hpc, msg>>
    BY <1>1 DEF UpdateDevicePermData, TakeFromQueue, SendToChan, vars, handlerVars, mapVars
  <2> QED
    BY <2>1, ScoresUntouched
<1>2. ASSUME NEW h \in Handlers,
             Receive(h) \/ GetDeviceCMDB(h) \/ QueryDeviceCMDB(h) \/ UpdateDeviceMetric(h)
      PROVE  MissingScoreHasCause'
  <2>1. /\ UNCHANGED <<allMetrics, allAlertScore, scrubbed>>
        /\ \A k \in Handlers : hpc[k] \in AtCmdb => hpc'[k] \in AtCmdb /\ msg'[k] = msg[k]
    BY <1>2 DEF Receive, GetDeviceCMDB, QueryDeviceCMDB, UpdateDeviceMetric, mapVars, AtCmdb
  <2> QED
    BY <2>1, ScoresUntouched
<1>3. ASSUME NEW h \in Handlers, LoadEntry(h) PROVE MissingScoreHasCause'
  <2>1. /\ Dev(h) \in Devices /\ <<msg[h], 1>> \in Objects
    BY <1>3, DevOfAwake DEF LoadEntry, Awake, Objects
  <2>2. \A d \in Devices :
          allMetrics'[d] = allMetrics[d] \/ (d = Dev(h) /\ allMetrics[d] = nil)
    <3>1. LoadOrStore(Dev(h), <<msg[h], 1>>)
      BY <1>3 DEF LoadEntry
    <3> QED
      BY <2>1, <3>1, StoreOnce
  <2>3. /\ \A k \in Handlers \ {h} : hpc'[k] = hpc[k]
        /\ hpc[h] = "load"
        /\ allMetrics[Dev(h)] = nil => hpc'[h] = "cmdb"
        /\ UNCHANGED <<allAlertScore, scrubbed, msg>>
    BY <1>3 DEF LoadEntry
  <2> QED
    BY <2>1, <2>2, <2>3 DEF MissingScoreHasCause, Dev
<1>4. ASSUME NEW h \in Handlers, UpdateAlertScore(h) PROVE MissingScoreHasCause'
  <2>1. /\ allAlertScore' = allAlertScore \union {Dev(h)}
        /\ scrubbed' = scrubbed \ {Dev(h)}
        /\ \A k \in Handlers \ {h} : hpc'[k] = hpc[k]
        /\ UNCHANGED <<allMetrics, msg>>
    BY <1>4 DEF UpdateAlertScore
  <2> QED
    BY <2>1 DEF MissingScoreHasCause, Dev
<1>5. ASSUME NEW h \in Handlers, LoadEntryAgain(h) PROVE MissingScoreHasCause'
  <2>1. /\ Dev(h) \in Devices /\ <<msg[h], 2>> \in Objects /\ msg[h] \in Samples
    BY <1>5, DevOfAwake DEF LoadEntryAgain, Awake, Objects
  <2>2. /\ \A d \in Devices : \/ allMetrics'[d] = allMetrics[d]
                              \/ allMetrics'[d] = <<msg[h], 2>>
        /\ \A k \in Handlers \ {h} : hpc'[k] = hpc[k] /\ msg'[k] = msg[k]
        /\ hpc[h] = "reload"
        /\ UNCHANGED <<allAlertScore, scrubbed>>
    BY <1>5, <2>1, StoreOnce DEF LoadEntryAgain
  <2> QED
    BY <2>1, <2>2 DEF MissingScoreHasCause, Dev
<1>6. CASE \/ \E f \in Fetchers : BeginFetch(f) \/ Publish(f)
           \/ \E f \in Fetchers, d \in Devices :
                RangeMetrics(f, d) \/ RangeScores(f, d) \/ FillDeviceMetric(f, d)
  <2>1. UNCHANGED <<handlerVars, mapVars>>
    <3>1. ASSUME NEW f \in Fetchers, BeginFetch(f) \/ Publish(f)
          PROVE  UNCHANGED <<handlerVars, mapVars>>
      BY <3>1 DEF BeginFetch, Publish
    <3>2. ASSUME NEW f \in Fetchers, NEW d \in Devices,
                 RangeMetrics(f, d) \/ RangeScores(f, d) \/ FillDeviceMetric(f, d)
          PROVE  UNCHANGED <<handlerVars, mapVars>>
      BY <3>2 DEF RangeMetrics, RangeScores, FillDeviceMetric
    <3> QED
      BY <1>6, <3>1, <3>2
  <2>2. UNCHANGED <<allMetrics, allAlertScore, scrubbed, hpc, msg>>
    BY <2>1 DEF handlerVars, mapVars
  <2> QED
    BY <2>2, ScoresUntouched
<1>7. ASSUME NEW c \in Cleanups, NEW d \in Devices, clearOldPerms(c, d)
      PROVE  MissingScoreHasCause'
  <2>1. /\ allMetrics' = [allMetrics EXCEPT ![d] = nil] /\ scrubbed' = scrubbed \ {d}
        /\ UNCHANGED <<allAlertScore, hpc, msg>>
    BY <1>7 DEF clearOldPerms, handlerVars
  <2> QED
    BY <2>1 DEF MissingScoreHasCause, Dev
<1>8. ASSUME NEW c \in Cleanups, NEW d \in Devices, clearOldAlerts(c, d)
      PROVE  MissingScoreHasCause'
  <2>1. /\ allAlertScore' = allAlertScore \ {d}
        /\ scrubbed' = IF allMetrics[d] # nil THEN scrubbed \union {d} ELSE scrubbed
        /\ UNCHANGED <<allMetrics, hpc, msg>>
    BY <1>8 DEF clearOldAlerts, handlerVars
  <2> QED
    BY <2>1 DEF MissingScoreHasCause, Dev
<1> QED
  BY <1>1, <1>2, <1>3, <1>4, <1>5, <1>6, <1>7, <1>8 DEF Next, Handle

LEMMA TypeInit == Init => TypeInv
<1> SUFFICES ASSUME Init PROVE TypeInv
  OBVIOUS
<1>1. NoFetch \in FetchType
  BY DEF NoFetch, Nothing, FetchType
<1> QED
  BY <1>1, DeviceAssumption DEF Init, TypeInv, TypeOK, Nothing, Awake, WithEntry

\* For any devices, handlers, fetches and clean-ups the maps are well formed, and an
\* entry without a score is waiting for the CMDB, was robbed of its score by a
\* clean-up, or is the empty entry of a second LoadOrStore
\* (device_allPermData.go 127-174, device_alert.go).
THEOREM MissingScoresExplained == Spec => []Consistent
<1>1. Init => OrderInv /\ TypeInv /\ MissingScoreHasCause
  BY OrderInit, TypeInit DEF Init, MissingScoreHasCause, Nothing
<1>2. OrderInv /\ TypeInv /\ MissingScoreHasCause /\ [Next]_vars
        => (OrderInv /\ TypeInv /\ MissingScoreHasCause)'
  BY OrderStep, TypeStep, ScoreStep
<1>3. TypeInv /\ MissingScoreHasCause => Consistent
  BY DEF TypeInv, Consistent
<1> QED
  BY <1>1, <1>2, <1>3, PTL DEF Spec

-----------------------------------------------------------------------------
(* No clean-up deletes a sample that no fetch has seen. *)

\* An entry that is still in the map, or was collected, or is about a device that
\* two fetches cleaned.
Kept(o) ==
  \/ \E d \in Devices : allMetrics[d] = o
  \/ o \in collected
  \/ DeviceOf[o[1]] \in overlapped

\* Fetch f has collected d and not yet begun to delete it.
Holds(f, d) == fpc[f] = "perms" /\ fetch[f].got[d] # nil

EntriesAreOwn ==
  \A d \in Devices : allMetrics[d] # nil => DeviceOf[allMetrics[d][1]] = d

\* A device that is not overlapped is claimed by one fetch or clean-up at most ...
ClaimIsSole ==
  \A d \in Devices \ overlapped :
    /\ \A b, c \in Cleanups : d \in oldPerms[b] /\ d \in oldPerms[c] => b = c
    /\ \A c \in Cleanups, f \in Fetchers : ~(d \in oldPerms[c] /\ Holds(f, d))
    /\ \A f, g \in Fetchers : Holds(f, d) /\ Holds(g, d) => f = g

\* ... which has seen the entry that it will delete.
ClaimIsSeen ==
  \A d \in Devices \ overlapped :
    Claimed(d) => allMetrics[d] # nil /\ allMetrics[d] \in collected

\* A handler that will still write has its entry in the map, or in a fetch.
WritersAreKept ==
  \A h \in Handlers : hpc[h] \in {"cmdb", "query", "score", "update"} => Kept(obj[h])

SeenInv ==
  /\ EntriesAreOwn /\ ClaimIsSole /\ ClaimIsSeen /\ WritersAreKept /\ StoredIsSeen

Writing == {"cmdb", "query", "score", "update"}

\* The steps that leave entries and claims alone; a fetch may drop what it holds.
LEMMA SeenUntouched ==
  ASSUME TypeInv, SeenInv,
         UNCHANGED <<allMetrics, value, collected, overlapped, oldPerms>>,
         \A f \in Fetchers, d \in Devices : Holds(f, d)' => Holds(f, d),
         \A h \in Handlers : hpc'[h] \in Writing => hpc[h] \in Writing /\ obj'[h] = obj[h]
  PROVE  SeenInv'
<1> USE DEF SeenInv
<1>1. EntriesAreOwn'
  BY DEF EntriesAreOwn
<1>2. ClaimIsSole'
  BY DEF ClaimIsSole
<1>3. ClaimIsSeen'
  <2>1. \A d \in Devices : Claimed(d)' => Claimed(d)
    BY DEF Claimed, Holds
  <2> QED
    BY <2>1 DEF ClaimIsSeen
<1>4. WritersAreKept' /\ StoredIsSeen'
  BY DEF WritersAreKept, StoredIsSeen, Kept, Writing
<1> QED
  BY <1>1, <1>2, <1>3, <1>4

\* The steps that give a device d without an entry the entry o of its own: what is
\* kept stays, and nobody has claimed d.
LEMMA SeenWithNewEntry ==
  ASSUME TypeInv, SeenInv, NEW d \in Devices, NEW o \in Objects,
         LoadOrStore(d, o), DeviceOf[o[1]] = d,
         UNCHANGED <<value, collected, overlapped, oldPerms, fpc, fetch>>,
         \A h \in Handlers : hpc'[h] \in Writing =>
            \/ hpc[h] \in Writing /\ obj'[h] = obj[h]
            \/ obj'[h] = allMetrics'[d]
  PROVE  SeenInv'
<1> USE DEF SeenInv
<1>1. /\ allMetrics'[d] = IF allMetrics[d] = nil THEN o ELSE allMetrics[d]
      /\ \A e \in Devices \ {d} : allMetrics'[e] = allMetrics[e]
      /\ o # nil
  BY StoreOnce, DeviceAssumption
<1>2. EntriesAreOwn'
  BY <1>1 DEF EntriesAreOwn
<1>3. ClaimIsSole'
  BY DEF ClaimIsSole, Holds
<1>4. ClaimIsSeen'
  <2>1. \A e \in Devices : Claimed(e)' => Claimed(e)
    BY DEF Claimed
  <2> QED
    BY <1>1, <2>1 DEF ClaimIsSeen
<1>5. \A x : x # nil /\ Kept(x) => Kept(x)'
  BY <1>1 DEF Kept
<1>6. WritersAreKept'
  <2> SUFFICES ASSUME NEW h \in Handlers, hpc'[h] \in Writing PROVE Kept(obj[h])'
    BY DEF WritersAreKept, Writing
  <2>1. CASE hpc[h] \in Writing /\ obj'[h] = obj[h]
    <3>1. obj[h] \in Objects
      BY <2>1 DEF TypeInv, Writing, WithEntry, Awake
    <3>2. Kept(obj[h])
      BY <2>1 DEF WritersAreKept, Writing
    <3> QED
      BY <2>1, <3>1, <3>2, <1>5, DeviceAssumption
  <2>2. CASE obj'[h] = allMetrics'[d]
    BY <2>2 DEF Kept
  <2> QED
    BY <2>1, <2>2
<1>7. StoredIsSeen'
  BY <1>5, DeviceAssumption DEF StoredIsSeen, Kept
<1> QED
  BY <1>2, <1>3, <1>4, <1>6, <1>7

\* A fetch that comes to a device claims it, if it has an entry; a claim that was
\* there already marks the device as overlapped.
LEMMA SeenWhenCollected ==
  ASSUME TypeInv, SeenInv, NEW f \in Fetchers, NEW d \in Devices, RangeMetrics(f, d)
  PROVE  SeenInv'
<1> USE DEF SeenInv
<1> DEFINE fresh == allMetrics[d] # nil
           mine == <<f, fetches[f]>>
<1>1. /\ UNCHANGED <<allMetrics, value, hpc, obj>>
      /\ collected' = collected \union ({allMetrics[d]} \ {nil})
      /\ overlapped \subseteq overlapped'
      /\ fresh /\ Claimed(d) => d \in overlapped'
  BY DEF RangeMetrics, handlerVars, mapVars
<1>2. /\ fpc[f] = "perms"
      /\ \A g \in Fetchers \ {f} : fpc'[g] = fpc[g] /\ fetch'[g] = fetch[g]
  BY DEF RangeMetrics, Visited, TypeInv, TypeOK
<1>3. fetch'[f].got = [fetch[f].got EXCEPT ![d] = allMetrics[d]]
  BY DEF RangeMetrics, TypeInv, FetchType
<1>4. /\ fetch[f].left = {d} => fpc'[f] = "alerts"
      /\ fetch[f].left # {d} => oldPerms' = oldPerms
  BY DEF RangeMetrics, Visited, TypeInv, TypeOK
<1>5. fetch[f].got \in [Devices -> Objects \union {nil}]
  BY DEF TypeInv, FetchType
<1>6. ASSUME NEW g \in Fetchers, NEW e \in Devices, Holds(g, e)'
      PROVE  Holds(g, e) \/ (g = f /\ e = d /\ fresh)
  BY <1>2, <1>3, <1>5, <1>6 DEF Holds
<1>7. ASSUME NEW c \in Cleanups, NEW e \in Devices, e \in oldPerms'[c]
      PROVE  \/ e \in oldPerms[c]
             \/ /\ c = mine /\ (Holds(f, e) \/ (e = d /\ fresh))
                /\ \A x \in Devices : ~Holds(f, x)'
  <2>1. CASE fetch[f].left # {d}
    BY <1>4, <1>7, <2>1
  <2>2. CASE fetch[f].left = {d}
    <3>1. oldPerms' = [oldPerms EXCEPT ![mine] = Collected(fetch'[f].got)]
      BY <2>2 DEF RangeMetrics
    <3>2. \A x \in Devices : ~Holds(f, x)'
      BY <1>4, <2>2 DEF Holds
    <3>3. e \in Collected(fetch'[f].got) => Holds(f, e) \/ (e = d /\ fresh)
      BY <1>2, <1>3, <1>5 DEF Collected, Holds
    <3>4. c # mine => e \in oldPerms[c]
      BY <1>7, <3>1 DEF TypeInv, TypeOK
    <3>5. c = mine => e \in Collected(fetch'[f].got)
      BY <1>7, <3>1 DEF TypeInv, TypeOK
    <3> QED
      BY <3>2, <3>3, <3>4, <3>5
  <2> QED
    BY <2>1, <2>2
<1>8. EntriesAreOwn'
  BY <1>1 DEF EntriesAreOwn
<1>9. ASSUME NEW e \in Devices \ overlapped', ~(e = d /\ fresh)
      PROVE  /\ \A b, c \in Cleanups : e \in oldPerms'[b] /\ e \in oldPerms'[c] => b = c
             /\ \A c \in Cleanups, g \in Fetchers : ~(e \in oldPerms'[c] /\ Holds(g, e)')
             /\ \A g, k \in Fetchers : Holds(g, e)' /\ Holds(k, e)' => g = k
             /\ Claimed(e)' => Claimed(e)
  <2>1. e \in Devices \ overlapped
    BY <1>1, <1>9
  <2>2. ASSUME NEW c \in Cleanups, e \in oldPerms'[c]
        PROVE  e \in oldPerms[c] \/ (c = mine /\ Holds(f, e) /\ \A x \in Devices : ~Holds(f, x)')
    BY <1>7, <1>9, <2>2
  <2>3. ASSUME NEW g \in Fetchers, Holds(g, e)' PROVE Holds(g, e)
    BY <1>6, <1>9, <2>3
  <2>4. \A b, c \in Cleanups : e \in oldPerms'[b] /\ e \in oldPerms'[c] => b = c
    BY <2>1, <2>2 DEF ClaimIsSole
  <2>5. \A c \in Cleanups, g \in Fetchers : ~(e \in oldPerms'[c] /\ Holds(g, e)')
    BY <2>1, <2>2, <2>3 DEF ClaimIsSole
  <2>6. \A g, k \in Fetchers : Holds(g, e)' /\ Holds(k, e)' => g = k
    BY <2>1, <2>3 DEF ClaimIsSole
  <2>7. Claimed(e)' => Claimed(e)
    BY <2>2, <2>3 DEF Claimed, Holds
  <2> QED
    BY <2>4, <2>5, <2>6, <2>7
<1>10. ASSUME d \notin overlapped', fresh
       PROVE  /\ \A c \in Cleanups : d \in oldPerms'[c] => c = mine /\ ~Holds(f, d)'
              /\ \A g \in Fetchers : Holds(g, d)' => g = f
  <2>1. ~Claimed(d)
    BY <1>1, <1>10
  <2>2. (\A c \in Cleanups : d \notin oldPerms[c]) /\ \A g \in Fetchers : ~Holds(g, d)
    BY <2>1 DEF Claimed, Holds
  <2> QED
    BY <1>6, <1>7, <2>2
<1>11. ClaimIsSole'
  <2> SUFFICES ASSUME NEW e \in Devices \ overlapped'
               PROVE  /\ \A b, c \in Cleanups : e \in oldPerms'[b] /\ e \in oldPerms'[c] => b = c
                      /\ \A c \in Cleanups, g \in Fetchers : ~(e \in oldPerms'[c] /\ Holds(g, e)')
                      /\ \A g, k \in Fetchers : Holds(g, e)' /\ Holds(k, e)' => g = k
    BY DEF ClaimIsSole
  <2>1. CASE e = d /\ fresh
    BY <1>10, <2>1
  <2>2. CASE ~(e = d /\ fresh)
    BY <1>9, <2>2
  <2> QED
    BY <2>1, <2>2
<1>12. ClaimIsSeen'
  <2> SUFFICES ASSUME NEW e \in Devices \ overlapped', Claimed(e)'
               PROVE  allMetrics[e] # nil /\ allMetrics[e] \in collected'
    BY <1>1 DEF ClaimIsSeen
  <2>1. CASE e = d /\ fresh
    BY <1>1, <2>1
  <2>2. CASE ~(e = d /\ fresh)
    BY <1>1, <1>9, <2>2 DEF ClaimIsSeen
  <2> QED
    BY <2>1, <2>2
<1>13. WritersAreKept' /\ StoredIsSeen'
  BY <1>1 DEF WritersAreKept, StoredIsSeen, Kept
<1> QED
  BY <1>8, <1>11, <1>12, <1>13

\* A clean-up takes an entry out of the map that its fetch has seen, unless the
\* device was overlapped.
LEMMA SeenWhenCleared ==
  ASSUME TypeInv, SeenInv, NEW c \in Cleanups, NEW d \in Devices, clearOldPerms(c, d)
  PROVE  SeenInv'
<1> USE DEF SeenInv
<1>1. /\ d \in oldPerms[c]
      /\ allMetrics' = [allMetrics EXCEPT ![d] = nil]
      /\ oldPerms' = [oldPerms EXCEPT ![c] = @ \ {d}]
      /\ UNCHANGED <<value, collected, overlapped, fpc, fetch, hpc, obj>>
  BY DEF clearOldPerms, handlerVars, fetchVars
<1>2. /\ \A b \in Cleanups \ {c} : oldPerms'[b] = oldPerms[b]
      /\ oldPerms'[c] = oldPerms[c] \ {d}
      /\ allMetrics'[d] = nil /\ \A e \in Devices \ {d} : allMetrics'[e] = allMetrics[e]
  BY <1>1 DEF TypeInv, TypeOK
<1>3. EntriesAreOwn'
  BY <1>2 DEF EntriesAreOwn
<1>4. ClaimIsSole'
  BY <1>1, <1>2 DEF ClaimIsSole, Holds
<1>5. ClaimIsSeen'
  <2> SUFFICES ASSUME NEW e \in Devices \ overlapped, Claimed(e)'
               PROVE  allMetrics'[e] # nil /\ allMetrics'[e] \in collected
    BY <1>1 DEF ClaimIsSeen
  <2>1. Claimed(e)
    BY <1>1, <1>2 DEF Claimed
  <2>2. e # d
    BY <1>1, <1>2 DEF Claimed, ClaimIsSole, Holds
  <2> QED
    BY <1>2, <2>1, <2>2 DEF ClaimIsSeen
<1>6. \A o : o # nil /\ Kept(o) => Kept(o)'
  <2>1. d \notin overlapped => allMetrics[d] \in collected
    BY <1>1 DEF ClaimIsSeen, Claimed
  <2>2. allMetrics[d] # nil => DeviceOf[allMetrics[d][1]] = d
    BY DEF EntriesAreOwn
  <2> QED
    BY <1>1, <1>2, <2>1, <2>2 DEF Kept
<1>7. WritersAreKept'
  BY <1>1, <1>6, DeviceAssumption DEF WritersAreKept, TypeInv, WithEntry, Awake
<1>8. StoredIsSeen'
  BY <1>1, <1>6, DeviceAssumption DEF StoredIsSeen, Kept
<1> QED
  BY <1>3, <1>4, <1>5, <1>7, <1>8

LEMMA SeenWhenWritten ==
  ASSUME TypeInv, SeenInv, NEW h \in Handlers, UpdateDeviceMetric(h)
  PROVE  SeenInv'
<1> USE DEF SeenInv
<1>1. /\ hpc[h] = "update" /\ hpc' = [hpc EXCEPT ![h] = "reload"]
      /\ value' = [value EXCEPT ![obj[h]] = msg[h]]
      /\ UNCHANGED <<allMetrics, collected, overlapped, oldPerms, fpc, fetch, obj>>
  BY DEF UpdateDeviceMetric, fetchVars, cleanVars
<1>2. EntriesAreOwn' /\ ClaimIsSole'
  BY <1>1 DEF EntriesAreOwn, ClaimIsSole, Holds
<1>3. ClaimIsSeen'
  BY <1>1 DEF ClaimIsSeen, Claimed
<1>4. WritersAreKept'
  BY <1>1 DEF WritersAreKept, Kept, TypeInv, TypeOK
<1>5. StoredIsSeen'
  BY <1>1 DEF StoredIsSeen, WritersAreKept, Kept, TypeInv, TypeOK
<1> QED
  BY <1>2, <1>3, <1>4, <1>5

LEMMA SeenStep ==
  ASSUME TypeInv, SeenInv, [Next]_vars
  PROVE  SeenInv'
<1>1. CASE \/ \E s \in Samples : UpdateDevicePermData(s)
           \/ TakeFromQueue \/ SendToChan \/ UNCHANGED vars
           \/ \E c \in Cleanups, d \in Devices : clearOldAlerts(c, d)
  <2>1. UNCHANGED <<allMetrics, value, collected, overlapped, oldPerms, fpc, fetch, hpc, obj>>
    BY <1>1 DEF UpdateDevicePermData, TakeFromQueue, SendToChan, clearOldAlerts, vars,
                handlerVars, mapVars, fetchVars, cleanVars
  <2> QED
    BY <2>1, SeenUntouched DEF Holds
<1>2. ASSUME NEW h \in Handlers,
             Receive(h) \/ GetDeviceCMDB(h) \/ QueryDeviceCMDB(h) \/ UpdateAlertScore(h)
      PROVE  SeenInv'
  <2>1. /\ UNCHANGED <<allMetrics, value, collected, overlapped, oldPerms, fpc, fetch>>
        /\ \A k \in Handlers : hpc'[k] \in Writing => hpc[k] \in Writing /\ obj'[k] = obj[k]
    BY <1>2 DEF Receive, GetDeviceCMDB, QueryDeviceCMDB, UpdateAlertScore, mapVars, fetchVars,
                cleanVars, Writing, TypeInv, TypeOK
  <2> QED
    BY <2>1, SeenUntouched DEF Holds
<1>3. ASSUME NEW h \in Handlers, LoadEntry(h) \/ LoadEntryAgain(h) PROVE SeenInv'
  <2>1. hpc[h] \in Awake /\ msg[h] \in Samples /\ Dev(h) \in Devices
    BY <1>3, DevOfAwake DEF LoadEntry, LoadEntryAgain, Awake, TypeInv
  <2>2. PICK n \in {1, 2} : LoadOrStore(Dev(h), <<msg[h], n>>)
    BY <1>3 DEF LoadEntry, LoadEntryAgain
  <2>3. <<msg[h], n>> \in Objects /\ DeviceOf[<<msg[h], n>>[1]] = Dev(h)
    BY <2>1 DEF Objects, Dev
  <2>4. /\ UNCHANGED <<value, collected, overlapped, oldPerms, fpc, fetch>>
        /\ \A k \in Handlers \ {h} : hpc'[k] = hpc[k] /\ obj'[k] = obj[k]
        /\ hpc'[h] = "idle" \/ obj'[h] = allMetrics'[Dev(h)]
    BY <1>3 DEF LoadEntry, LoadEntryAgain, fetchVars, cleanVars, TypeInv, TypeOK
  <2> QED
    BY <2>1, <2>2, <2>3, <2>4, SeenWithNewEntry DEF Writing
<1>4. ASSUME NEW f \in Fetchers, BeginFetch(f) \/ Publish(f) PROVE SeenInv'
  <2>1. UNCHANGED <<allMetrics, value, collected, overlapped, oldPerms, hpc, obj>>
    BY <1>4 DEF BeginFetch, Publish, handlerVars, mapVars, cleanVars
  <2>2. \A g \in Fetchers, d \in Devices : Holds(g, d)' => Holds(g, d)
    <3>1. /\ fetch' \in {[fetch EXCEPT ![f] = NoFetch],
                         [fetch EXCEPT ![f] = [NoFetch EXCEPT !.left = Devices]]}
          /\ fpc' \in {[fpc EXCEPT ![f] = "perms"], [fpc EXCEPT ![f] = "idle"]}
      BY <1>4 DEF BeginFetch, Publish
    <3>2. fetch'[f].got = Nothing /\ \A g \in Fetchers \ {f} :
              fetch'[g] = fetch[g] /\ fpc'[g] = fpc[g]
      BY <3>1 DEF NoFetch, TypeInv, TypeOK
    <3> QED
      BY <3>2 DEF Holds, Nothing
  <2> QED
    BY <2>1, <2>2, SeenUntouched
<1>5. ASSUME NEW f \in Fetchers, NEW d \in Devices, RangeScores(f, d) \/ FillDeviceMetric(f, d)
      PROVE  SeenInv'
  <2>1. UNCHANGED <<allMetrics, value, collected, overlapped, oldPerms, hpc, obj>>
    BY <1>5 DEF RangeScores, FillDeviceMetric, handlerVars, mapVars, cleanVars
  <2>2. /\ fpc[f] # "perms" /\ fpc'[f] # "perms"
        /\ \A g \in Fetchers \ {f} : fpc'[g] = fpc[g] /\ fetch'[g] = fetch[g]
    BY <1>5 DEF RangeScores, FillDeviceMetric, Visited, TypeInv, TypeOK
  <2>3. \A g \in Fetchers, e \in Devices : Holds(g, e)' => Holds(g, e)
    BY <2>2 DEF Holds
  <2> QED
    BY <2>1, <2>3, SeenUntouched
<1> QED
  BY <1>1, <1>2, <1>3, <1>4, <1>5, SeenWhenCollected, SeenWhenCleared, SeenWhenWritten
     DEF Next, Handle

\* For any number of devices, handlers, fetches and clean-ups, a stored sample is in
\* the map or was collected by a fetch, unless two fetches cleaned its device at a
\* time (device_allPermData.go 137-146 and 186-212, metricData.go 14-25).
THEOREM NoSampleDeletedUnseen == Spec => []StoredIsSeen
<1>1. Init => OrderInv /\ TypeInv
  BY OrderInit, TypeInit
<1>2. Init => SeenInv
  BY DEF Init, SeenInv, EntriesAreOwn, ClaimIsSole, ClaimIsSeen, Claimed, Holds,
         WritersAreKept, StoredIsSeen, Nothing
<1>3. OrderInv /\ TypeInv /\ SeenInv /\ [Next]_vars => (OrderInv /\ TypeInv /\ SeenInv)'
  BY OrderStep, TypeStep, SeenStep
<1>4. SeenInv => StoredIsSeen
  BY DEF SeenInv
<1> QED
  BY <1>1, <1>2, <1>3, <1>4, PTL DEF Spec
=============================================================================
