--------------------------- MODULE NetCopyProofs ---------------------------
(***************************************************************************)
(* A netcopy transfer, for files of any size and any sharing of the MD5    *)
(* switch: what it writes, what its check finds, who may be left waiting,  *)
(* and that it is a copy in the sense of FileCopy.                         *)
(***************************************************************************)
EXTENDS NetCopy, SequenceTheorems, TLAPS

S == Sender
R == Receiver

Sending == {"read", "pack", "send", "ok"}
Off     == {"failed", "stuck"}
Busy(p) == pc[p] \notin Ended \cup {"stuck"}
Others(p) == \A q \in Processes \ {p} : pc'[q] = pc[q]

-----------------------------------------------------------------------------
(* Where the two sides are.                                                *)

SenderPlaces   == Sending \cup Off
                    \cup IF op = "put" THEN {"open", "ask", "response"} ELSE {"request", "open"}
ReceiverPlaces == {"head", "size", "receive", "ok"} \cup Off
                    \cup IF op = "put" THEN {"request", "open"} ELSE {"open", "ask"}

\* The sender has not sent anything to the receiver yet.
Silent == pc[S] = "request" \/ (op = "put" /\ pc[S] \in {"open", "ask"})

Handshake ==
    /\ pc[S] \in SenderPlaces
    /\ pc[R] \in ReceiverPlaces
    /\ Silent => /\ chan[R] = <<>>
                 /\ pc[R] \in Off \cup IF op = "put" THEN {"request"} ELSE {"open", "ask", "head"}
    /\ pc[S] \notin Sending \cup Off => offset = 0 /\ hash[S] = <<>>
    /\ pc[R] \notin {"receive", "ok"} \cup Off => hash[R] = <<>>

\* Only the transfer of a file that exists gets beyond the handshake.
Exists ==
    /\ ~Silent /\ pc[S] \notin Off => src # Missing
    /\ op = "put" /\ pc[S] = "ask" => src # Missing
    /\ \A k \in 1..Len(chan[R]) : chan[R][k].type = "HEAD" => src # Missing
    /\ pc[R] \in {"size", "receive", "ok"} => src # Missing

\* What the sender holds of the block it is at.
AtBlock ==
    /\ pc[S] \in Sending => offset <= Len(src)
    /\ pc[S] = "ok" => offset = Len(src)
    /\ pc[S] = "send" =>
          CASE packed.kind = "end"  -> offset = Len(src)
            [] packed.kind = "data" -> offset > 0 /\ src[offset] # Hole
            [] OTHER -> offset > 0 /\ src[offset] = Hole

-----------------------------------------------------------------------------
(* The stream.                                                             *)

\* How many blocks, and then the END, the sender has dealt with.
Sent == CASE pc[S] = "ok" -> Len(src) + 1
          [] pc[S] = "send" /\ packed.kind # "end" -> offset - 1
          [] OTHER -> offset

\* Packets of the handshake that may still be before the blocks.
Lead == CASE pc[R] = "request" -> 2
          [] pc[R] \in {"open", "ask", "head"} -> 1
          [] OTHER -> 0

\* A DATA packet holds the block it names; END is the last thing the sender says.
Stream ==
    \A k \in 1..Len(chan[R]) :
        /\ chan[R][k].type = "DATA" =>
              /\ chan[R][k].at <= Len(src)
              /\ chan[R][k].block = src[chan[R][k].at]
              /\ chan[R][k].block # Hole
        /\ chan[R][k].type = "END" => k = Len(chan[R]) /\ pc[S] = "ok"

EndComes ==
    pc[S] = "ok" /\ Busy(R) =>
        chan[R] # <<>> /\ chan[R][Len(chan[R])].type = "END"

\* There is no more on its way, or in the MD5, than the sender has dealt with.
Count ==
    /\ Busy(R) => Len(hash[R]) + Len(chan[R]) <= Sent + Lead
    /\ pc[S] = "read" => Len(hash[S]) <= offset
    /\ pc[S] = "pack" => Len(hash[S]) <= IF AtEnd THEN offset ELSE offset + 1
    /\ pc[S] = "send" => Len(hash[S]) <= offset

-----------------------------------------------------------------------------
(* The destination.                                                        *)

Base == Copy!Sized(Copy!Created(old), Len(src))

OnItsWay(i) == \E k \in 1..Len(chan[R]) : chan[R][k].type = "DATA" /\ chan[R][k].at = i

\* What is in the destination.
Placed ==
    /\ pc[R] \in {"request", "open"} => dst = old
    /\ pc[R] \in {"ask", "head", "size"} => dst = Created(old)
    /\ pc[R] = "receive" =>
          /\ dst # Missing /\ Len(dst) = Len(Base)
          /\ \A i \in 1..Len(dst) :
                dst[i] = Base[i] \/ (i <= Len(src) /\ src[i] # Hole /\ dst[i] = src[i])

\* No block is lost on its way there.
NoneLost ==
    Busy(R) /\ pc[S] \in Sending =>
        \A i \in 1..Len(src) : i <= Sent /\ src[i] # Hole =>
            OnItsWay(i) \/ (pc[R] = "receive" /\ dst[i] = src[i])

Complete == pc[R] = "ok" => dst = Copy!Copied(src, old) /\ pc[S] = "ok"

-----------------------------------------------------------------------------
(* The MD5 check, as long as nothing disturbs the transfer.                *)

SwitchOn ==
    ~upset =>
        /\ switch["client"]
        /\ pc["server"] \notin {"request"} \cup Off => switch["server"]
        /\ \A k \in 1..Len(chan["server"]) :
              chan["server"][k].type = "REQUEST" => chan["server"][k].verify

Begins(h, n) == Len(h) = n /\ \A i \in 1..n : h[i] = src[i]

\* The number of the block that packet k to the receiver carries; the END comes
\* after the last block, and the packets of the handshake have no positive number.
Number(k) == Sent - (Len(chan[R]) - k)

Carries(pkt, n) ==
    \/ n <= 0 /\ pkt.type \notin {"DATA", "BLANK", "END"}
    \/ n \in 1..Len(src) /\ pkt.type = "DATA" /\ pkt.block = src[n]
    \/ n \in 1..Len(src) /\ pkt.type = "BLANK" /\ src[n] = Hole
    \/ n = Len(src) + 1 /\ pkt.type = "END" /\ pkt.md5 = src

SenderHash ==
    ~upset =>
        /\ pc[S] = "read" => Begins(hash[S], offset)
        /\ pc[S] = "pack" => Begins(hash[S], IF AtEnd THEN offset ELSE offset + 1)
        /\ pc[S] = "send" => Begins(hash[S], offset) /\ packed.md5 /\ packed.kind \notin {"none", "blank"}

Numbered ==
    ~upset /\ pc[S] \notin Off /\ Busy(R) =>
        \A k \in 1..Len(chan[R]) : Carries(chan[R][k], Number(k))

ReceiverHash ==
    ~upset /\ pc[S] \notin Off /\ pc[R] \in {"size", "receive"} =>
        Begins(hash[R], Sent - Len(chan[R]))

IInv == /\ TypeOK /\ Handshake /\ Exists /\ AtBlock /\ Stream /\ EndComes /\ Count
        /\ Placed /\ NoneLost /\ Complete /\ SwitchOn
        /\ SenderHash /\ Numbered /\ ReceiverHash /\ StuckOnlyByFailure /\ CheckIsTrue

-----------------------------------------------------------------------------
(* Files, packets and channels.                                            *)

LEMMA Ends ==
    /\ S \in Processes /\ R \in Processes /\ S # R
    /\ Peer(S) = R /\ Peer(R) = S
    /\ \A p \in Processes : p = S \/ p = R
  BY DEF S, R, Sender, Receiver, Processes, Peer

LEMMA FileIsSeq ==
    ASSUME NEW f
    PROVE  f \in Files <=> f \in Seq(Block) /\ Len(f) <= MaxBlocks
<1>1. ASSUME f \in Files PROVE f \in Seq(Block) /\ Len(f) <= MaxBlocks
  <2>1. PICK n \in 0..MaxBlocks : f \in [1..n -> Block]
    BY <1>1 DEF Files
  <2>2. n \in Nat /\ f \in Seq(Block)
    BY <2>1, SeqDef, NetCopyAssumption
  <2>3. Len(f) = n
    BY <2>1, <2>2, LenProperties
  <2>4. QED
    BY <2>1, <2>2, <2>3
<1>2. ASSUME f \in Seq(Block), Len(f) <= MaxBlocks PROVE f \in Files
  <2>1. Len(f) \in 0..MaxBlocks /\ f \in [1..Len(f) -> Block]
    BY <1>2, LenProperties, NetCopyAssumption
  <2>2. QED
    BY <2>1 DEF Files
<1>3. QED
  BY <1>1, <1>2

LEMMA FileFacts ==
    ASSUME NEW f \in Files
    PROVE  /\ f \in Seq(Block) /\ f # Missing
           /\ Len(f) \in Nat /\ Len(f) <= MaxBlocks
           /\ DOMAIN f = 1..Len(f)
           /\ \A i \in 1..Len(f) : f[i] \in Block
  BY FileIsSeq, LenProperties, ElementOfSeq, NetCopyAssumption

LEMMA NoBlocks == <<>> \in Files
<1>1. <<>> \in Seq(Block) /\ Len(<<>>) <= MaxBlocks
  BY NetCopyAssumption
<1>2. QED
  BY <1>1, FileIsSeq

\* os.ftruncate gives the file its size and keeps what it can.
LEMMA ResizeFacts ==
    ASSUME NEW f \in Files, NEW n \in 0..MaxBlocks
    PROVE  /\ Resize(f, n) \in Files /\ Len(Resize(f, n)) = n
           /\ \A i \in 1..n : Resize(f, n)[i] = IF i <= Len(f) THEN f[i] ELSE Hole
<1>1. f \in Seq(Block) /\ Len(f) \in Nat /\ \A i \in 1..Len(f) : f[i] \in Block
  BY FileFacts
<1>2. Resize(f, n) \in [1..n -> Block] /\ n \in Nat
  BY <1>1, NetCopyAssumption DEF Resize
<1>3. Resize(f, n) \in Seq(Block)
  BY <1>2, SeqDef
<1>4. Len(Resize(f, n)) = n
  BY <1>2, <1>3, LenProperties
<1>5. Resize(f, n) \in Files
  BY <1>3, <1>4, FileIsSeq
<1>6. QED
  BY <1>4, <1>5 DEF Resize

\* A packet of a type is a message of that type.
LEMMA PacketFacts ==
    ASSUME NEW m \in Packet
    PROVE  /\ m.type = "REQUEST" => m.verify \in BOOLEAN
           /\ m.type = "RESPONSE" => m.ok \in BOOLEAN
           /\ m.type = "DATA" => m.at \in 1..MaxBlocks /\ m.block \in Block
           /\ m.type = "END" => m.md5 \in Files
  BY DEF Packet, Request, HeadMsg, Reply, DataMsg, Blank, End

Channels == [Processes -> Seq(Packet)]

LEMMA SendFacts ==
    ASSUME chan \in Channels, NEW p \in Processes, NEW pkts \in Seq(Packet), Send(p, pkts)
    PROVE  /\ chan' \in Channels
           /\ chan'[p] = chan[p] /\ chan'[Peer(p)] = chan[Peer(p)] \o pkts
<1>1. Peer(p) \in Processes /\ Peer(p) # p
  BY DEF Processes, Peer
<1>2. chan[Peer(p)] \o pkts \in Seq(Packet)
  BY <1>1, ConcatProperties DEF Channels
<1>3. QED
  BY <1>1, <1>2 DEF Channels, Send

LEMMA TakeFacts ==
    ASSUME chan \in Channels, NEW p \in Processes, NEW pkts \in Seq(Packet),
           chan[p] # <<>>, Take(p, pkts)
    PROVE  /\ chan' \in Channels
           /\ chan'[p] = Tail(chan[p]) /\ chan'[Peer(p)] = chan[Peer(p)] \o pkts
<1>1. Peer(p) \in Processes /\ Peer(p) # p
  BY DEF Processes, Peer
<1>2. chan[Peer(p)] \o pkts \in Seq(Packet) /\ Tail(chan[p]) \in Seq(Packet)
  BY <1>1, ConcatProperties, HeadTailProperties DEF Channels
<1>3. QED
  BY <1>1, <1>2 DEF Channels, Take

LEMMA Packets ==
    /\ \A b \in BOOLEAN : [type |-> "REQUEST", verify |-> b] \in Packet
    /\ \A b \in BOOLEAN : [type |-> "RESPONSE", ok |-> b] \in Packet
    /\ \A n \in 0..MaxBlocks : [type |-> "HEAD", size |-> n] \in Packet
    /\ \A n \in 1..MaxBlocks, b \in Block : [type |-> "DATA", at |-> n, block |-> b] \in Packet
    /\ [type |-> "BLANK"] \in Packet
    /\ \A f \in Files : [type |-> "END", md5 |-> f] \in Packet
  BY DEF Packet, Request, HeadMsg, Reply, DataMsg, Blank, End

LEMMA Few ==
    /\ <<>> \in Seq(Packet)
    /\ \A m \in Packet : <<m>> \in Seq(Packet)
    /\ \A m, n \in Packet : <<m, n>> \in Seq(Packet)
  OBVIOUS

LEMMA Concats ==
    ASSUME NEW s \in Seq(Packet)
    PROVE  s \o <<>> = s /\ \A m \in Packet : s \o <<m>> = Append(s, m)
  BY ConcatEmptySeq, AppendIsConcat

-----------------------------------------------------------------------------
(* What a step does to the two sides and to the channel between them.      *)

Still == UNCHANGED <<dst, hash, offset, packed, verified>>
SenderAt(here, there)   == pc[S] = here /\ pc'[S] = there /\ pc'[R] = pc[R]
ReceiverAt(here, there) == pc[R] = here /\ pc'[R] = there /\ pc'[S] = pc[S]
Silence == chan'[R] = chan[R]
Taken   == chan[R] # <<>> /\ chan'[R] = Tail(chan[R])

Refusal == [type |-> "RESPONSE", ok |-> FALSE]
Heading == [type |-> "HEAD", size |-> Size(src)]

\* p fails, or is left reading for ever.
Stops(p) ==
    /\ Busy(p) /\ pc'[p] \in Off /\ Others(p)
    /\ Still
    /\ \/ Silence
       \/ p = R /\ Taken
       \/ p = S /\ Silent /\ chan'[R] = Append(chan[R], Refusal)
    /\ pc'[p] = "stuck" => chan[R] = <<>> /\ pc[Peer(p)] \in Ended

Flips == Still /\ Silence /\ pc' = pc

\* The receiver before the first block.
Opens  == /\ ReceiverAt("open", IF op = "put" THEN "head" ELSE "ask")
          /\ dst' = Created(dst) /\ Silence /\ UNCHANGED <<hash, offset, packed, verified>>
Asks   == op = "get" /\ ReceiverAt("ask", "head") /\ Still /\ Silence
Admits == ReceiverAt("request", "open") /\ Still /\ Taken /\ chan[R][1].type = "REQUEST"
Heads  == ReceiverAt("head", "size") /\ Still /\ Taken /\ chan[R][1].type = "HEAD"

\* The sender before the first block.
Finds   == SenderAt("open", "ask") /\ op = "put" /\ src # Missing /\ Still /\ Silence
Offers  == /\ SenderAt("ask", "response") /\ op = "put" /\ Still
           /\ \E b \in BOOLEAN :
                 chan'[R] = chan[R] \o <<[type |-> "REQUEST", verify |-> b], Heading>>
Grants  == /\ SenderAt("request", "open") /\ src # Missing /\ Still
           /\ chan'[R] = Append(chan[R], Heading)
Starts  == /\ (op = "get" /\ SenderAt("open", "read")) \/ SenderAt("response", "read")
           /\ Still /\ Silence

\* The blocks and the END.
Sends == /\ SenderAt("send", "read") /\ packed.kind # "end" /\ Still
         /\ CASE packed.kind = "data" ->
                     chan'[R] = Append(chan[R],
                                       [type |-> "DATA", at |-> offset, block |-> src[offset]])
              [] packed.kind = "hole" -> chan'[R] = Append(chan[R], [type |-> "BLANK"])
              [] OTHER -> Silence
Finishes == /\ SenderAt("send", "ok") /\ packed.kind = "end" /\ Still
            /\ chan'[R] = Append(chan[R], [type |-> "END",
                                           md5  |-> IF switch[S] THEN hash[S] ELSE <<>>])

Steady == op' = op /\ src' = src /\ old' = old /\ S' = S /\ R' = R /\ (upset => upset')

Move ==
    \/ Flips \/ Opens \/ Asks \/ Admits \/ Heads \/ SizeFile
    \/ Finds \/ Offers \/ Grants \/ Starts
    \/ ReadBlock \/ PackBlock \/ Sends \/ Finishes
    \/ Taken /\ (ReceiveData \/ ReceiveBlank \/ ReceiveEnd)
    \/ \E p \in Processes : Stops(p)

LEMMA StepIsSteady == [Next]_vars => Steady
<1> SUFFICES ASSUME [Next]_vars PROVE Steady
  OBVIOUS
<1>1. op' = op /\ src' = src /\ old' = old
  BY DEF Next, Step, ClientStep, ServerStep, SenderStep, ReceiverStep, OpenClientFile,
         SendRequest, ReadRequest, OpenServerFile, ReadHead, SizeFile, ReadResponse,
         ReadRefusal, ReadBlock, PackBlock, SendBlock, SendEnd, ReceiveData, ReceiveBlank,
         ReceiveEnd, FlipSwitch, Fault, Spin, ConnectionReset, vars, transferVars
<1>2. upset => upset'
  BY DEF Next, Step, ClientStep, ServerStep, SenderStep, ReceiverStep, OpenClientFile,
         SendRequest, ReadRequest, OpenServerFile, ReadHead, SizeFile, ReadResponse,
         ReadRefusal, ReadBlock, PackBlock, SendBlock, SendEnd, ReceiveData, ReceiveBlank,
         ReceiveEnd, FlipSwitch, Fault, Spin, ConnectionReset, vars, transferVars
<1>3. QED
  BY <1>1, <1>2 DEF Steady, S, R, Sender, Receiver

LEMMA StepIsMove ==
    ASSUME TypeOK, Handshake, Exists, AtBlock, [Next]_vars
    PROVE  Move
<1> USE Ends DEF Goto, Still, transferVars, Silence
<1>1. /\ chan \in Channels /\ pc \in [Processes -> Pc]
      /\ chan[S] \in Seq(Packet) /\ chan[R] \in Seq(Packet)
  BY DEF TypeOK, Channels
<1>2. IF op = "put" THEN S = "client" /\ R = "server" ELSE S = "server" /\ R = "client"
  BY DEF S, R, Sender, Receiver
<1>3. op \in {"put", "get"}
  BY DEF TypeOK
<1>4. Refusal \in Packet /\ [type |-> "RESPONSE", ok |-> TRUE] \in Packet
  BY Packets DEF Refusal
<1>5. src \in Files => Len(src) \in 0..MaxBlocks /\ src # Missing
  BY FileFacts
<1>6. Size(src) \in 0..MaxBlocks /\ Heading \in Packet
  BY <1>5, Packets, NetCopyAssumption DEF Size, TypeOK, Heading
<1>7. CASE OpenClientFile
  <2>1. CASE op = "put" /\ src # Missing
    BY <1>1, <1>2, <1>7, <2>1 DEF OpenClientFile, Move, Finds, SenderAt
  <2>2. CASE op = "put" /\ src = Missing
    <3>1. Stops(S)
      BY <1>1, <1>2, <1>7, <2>2 DEF OpenClientFile, Stops, Busy, Ended, Off, Others
    <3>2. QED
      BY <3>1 DEF Move
  <2>3. CASE op = "get"
    BY <1>1, <1>2, <1>7, <2>3 DEF OpenClientFile, Move, Opens, ReceiverAt
  <2>4. QED
    BY <1>3, <2>1, <2>2, <2>3
<1>8. CASE SendRequest
  <2> DEFINE request == [type |-> "REQUEST", verify |-> switch["client"]]
  <2>1. request \in Packet /\ switch["client"] \in BOOLEAN
    BY Packets DEF TypeOK, Processes
  <2>2. CASE op = "put"
    <3>1. Send(S, <<request, Heading>>) /\ SenderAt("ask", "response") /\ Still
      BY <1>1, <1>2, <1>8, <2>2 DEF SendRequest, Heading, SenderAt
    <3>2. <<request, Heading>> \in Seq(Packet)
      BY <1>6, <2>1, Few
    <3>3. chan'[R] = chan[R] \o <<request, Heading>>
      BY <1>1, <3>1, <3>2, SendFacts
    <3>4. QED
      BY <2>1, <2>2, <3>1, <3>3 DEF Move, Offers
  <2>3. CASE op = "get"
    <3>1. Send(R, <<request>>) /\ ReceiverAt("ask", "head") /\ Still
      BY <1>1, <1>2, <1>8, <2>3 DEF SendRequest, ReceiverAt
    <3>2. chan'[R] = chan[R]
      BY <1>1, <2>1, <3>1, SendFacts, Few
    <3>3. QED
      BY <2>3, <3>1, <3>2 DEF Move, Asks
  <2>4. QED
    BY <1>3, <2>2, <2>3
<1>9. CASE ReadRequest
  <2>1. CASE op = "put"
    <3>1. Take(R, <<>>) /\ ReceiverAt("request", "open") /\ Still /\ chan[R] # <<>>
          /\ Head(chan[R]).type = "REQUEST"
      BY <1>1, <1>2, <1>9, <2>1 DEF ReadRequest, ReceiverAt, Arrived
    <3>2. Taken
      BY <1>1, <3>1, TakeFacts, Few DEF Taken
    <3>3. QED
      BY <3>1, <3>2 DEF Move, Admits
  <2>2. CASE op = "get" /\ src = Missing
    <3>1. Take(S, <<Refusal>>) /\ SenderAt("request", "failed") /\ Still /\ chan[S] # <<>>
      BY <1>1, <1>2, <1>9, <2>2 DEF ReadRequest, SenderAt, Arrived, Refusal
    <3>2. chan'[R] = Append(chan[R], Refusal)
      BY <1>1, <1>4, <3>1, TakeFacts, Few, Concats
    <3>3. Stops(S)
      BY <3>1, <3>2 DEF Stops, SenderAt, Busy, Ended, Off, Others, Silent
    <3>4. QED
      BY <3>3 DEF Move
  <2>3. CASE op = "get" /\ src # Missing
    <3>1. Take(S, <<Heading>>) /\ SenderAt("request", "open") /\ Still /\ chan[S] # <<>>
      BY <1>1, <1>2, <1>9, <2>3 DEF ReadRequest, SenderAt, Arrived, Heading
    <3>2. chan'[R] = Append(chan[R], Heading)
      BY <1>1, <1>6, <3>1, TakeFacts, Few, Concats
    <3>3. QED
      BY <2>3, <3>1, <3>2 DEF Move, Grants
  <2>4. QED
    BY <1>3, <2>1, <2>2, <2>3
<1>10. CASE OpenServerFile
  <2>1. CASE op = "put"
    BY <1>1, <1>2, <1>10, <2>1 DEF OpenServerFile, Move, Opens, ReceiverAt
  <2>2. CASE op = "get"
    BY <1>1, <1>2, <1>10, <2>2 DEF OpenServerFile, Move, Starts, SenderAt
  <2>3. QED
    BY <1>3, <2>1, <2>2
<1>11. CASE ReadHead
  <2> DEFINE answer == IF op = "put" THEN <<[type |-> "RESPONSE", ok |-> TRUE]>> ELSE <<>>
  <2>1. answer \in Seq(Packet)
    BY <1>4, Few
  <2>2. Take(R, answer) /\ ReceiverAt("head", "size") /\ Still /\ chan[R] # <<>>
        /\ Head(chan[R]).type = "HEAD"
    BY <1>1, <1>11 DEF ReadHead, R, ReceiverAt, Arrived
  <2>3. Taken
    BY <1>1, <2>1, <2>2, TakeFacts DEF Taken
  <2>4. QED
    BY <2>2, <2>3 DEF Move, Heads
<1>12. CASE ReadResponse
  <2>1. op = "put"
    BY <1>2, <1>12 DEF ReadResponse, Handshake, ReceiverPlaces, Off
  <2>2. Take(S, <<>>) /\ chan[S] # <<>> /\ Still /\ pc[S] = "response" /\ pc'[R] = pc[R]
        /\ pc'[S] = IF Head(chan[S]).ok THEN "read" ELSE "failed"
    BY <1>1, <1>2, <1>12, <2>1 DEF ReadResponse, Arrived
  <2>3. chan'[R] = chan[R]
    BY <1>1, <2>2, TakeFacts, Few, Concats
  <2>4. CASE Head(chan[S]).ok
    BY <2>2, <2>3, <2>4 DEF Move, Starts, SenderAt
  <2>5. CASE ~Head(chan[S]).ok
    <3>1. Stops(S)
      BY <2>2, <2>3, <2>5 DEF Stops, Busy, Ended, Off, Others
    <3>2. QED
      BY <3>1 DEF Move
  <2>6. QED
    BY <2>4, <2>5
<1>13. CASE ReadRefusal
  <2>1. Take(R, <<>>) /\ chan[R] # <<>> /\ Still /\ ReceiverAt("head", "failed")
    BY <1>1, <1>2, <1>13 DEF ReadRefusal, Arrived, ReceiverAt
  <2>2. Taken
    BY <1>1, <2>1, TakeFacts, Few DEF Taken
  <2>3. Stops(R)
    BY <2>1, <2>2 DEF Stops, Busy, Ended, Off, Others, ReceiverAt
  <2>4. QED
    BY <2>3 DEF Move
<1>14. CASE SizeFile \/ ReadBlock \/ PackBlock
  BY <1>14 DEF Move
<1>15. CASE SendBlock
  <2> DEFINE data == [type |-> "DATA", at |-> offset, block |-> src[offset]]
             what == CASE packed.kind = "data" -> <<data>>
                       [] packed.kind = "hole" -> <<[type |-> "BLANK"]>>
                       [] OTHER -> <<>>
  <2>1. Send(S, what) /\ SenderAt("send", "read") /\ packed.kind # "end" /\ Still
    BY <1>1, <1>15 DEF SendBlock, S, SenderAt
  <2>2. packed.kind = "data" => data \in Packet
    <3>1. src \in Files /\ pc[S] = "send" /\ offset <= Len(src)
      BY <2>1 DEF SenderAt, Exists, Silent, Off, AtBlock, Sending, TypeOK
    <3>2. packed.kind = "data" => offset \in 1..MaxBlocks /\ src[offset] \in Block
      BY <3>1, FileFacts DEF AtBlock, TypeOK
    <3>3. QED
      BY <3>2, Packets
  <2>3. what \in Seq(Packet)
    BY <2>2, Packets, Few
  <2>4. chan'[R] = chan[R] \o what
    BY <1>1, <2>1, <2>3, SendFacts
  <2>5. CASE packed.kind = "data"
    <3>1. chan'[R] = Append(chan[R], data)
      BY <1>1, <2>2, <2>4, <2>5, Concats
    <3>2. QED
      BY <2>1, <2>5, <3>1 DEF Move, Sends
  <2>6. CASE packed.kind = "hole"
    <3>1. chan'[R] = Append(chan[R], [type |-> "BLANK"])
      BY <1>1, <2>4, <2>6, Packets, Concats
    <3>2. QED
      BY <2>1, <2>6, <3>1 DEF Move, Sends
  <2>7. CASE packed.kind \notin {"data", "hole"}
    <3>1. chan'[R] = chan[R]
      BY <1>1, <2>4, <2>7, Concats
    <3>2. QED
      BY <2>1, <2>7, <3>1 DEF Move, Sends
  <2>8. QED
    BY <2>5, <2>6, <2>7
<1>16. CASE SendEnd
  <2> DEFINE end == [type |-> "END", md5 |-> IF switch[S] THEN hash[S] ELSE <<>>]
  <2>1. pc[S] = "send" /\ packed.kind = "end" /\ pc'[R] = pc[R] /\ Still
    BY <1>1, <1>16 DEF SendEnd, S
  <2>2. CASE switch[S] /\ ~packed.md5
    <3>1. Stops(S)
      BY <1>1, <1>16, <2>2 DEF SendEnd, S, Stops, Busy, Ended, Off, Others
    <3>2. QED
      BY <3>1 DEF Move
  <2>3. CASE ~(switch[S] /\ ~packed.md5)
    <3>1. Send(S, <<end>>) /\ SenderAt("send", "ok")
      BY <1>1, <1>16, <2>3 DEF SendEnd, S, SenderAt
    <3>2. end \in Packet
      BY Packets, NoBlocks DEF TypeOK
    <3> HIDE DEF end
    <3>3. <<end>> \in Seq(Packet)
      BY <3>2, Few
    <3>4. chan'[R] = chan[R] \o <<end>>
      BY <1>1, <3>1, <3>3, SendFacts
    <3>5. chan'[R] = Append(chan[R], end)
      BY <1>1, <3>2, <3>4, Concats
    <3>6. QED
      BY <2>1, <3>1, <3>5 DEF Move, Finishes, end
  <2>4. QED
    BY <2>2, <2>3
<1>17. CASE ReceiveData \/ ReceiveBlank
  <2>1. Take(R, <<>>) /\ chan[R] # <<>>
    BY <1>17 DEF ReceiveData, ReceiveBlank, R, Arrived
  <2>2. Taken
    BY <1>1, <2>1, TakeFacts, Few DEF Taken
  <2>3. QED
    BY <1>17, <2>2 DEF Move
<1>18. CASE ReceiveEnd
  <2> DEFINE answer == IF op = "get" THEN <<[type |-> "RESPONSE", ok |-> TRUE]>> ELSE <<>>
  <2>1. answer \in Seq(Packet)
    BY <1>4, Few
  <2>2. Take(R, answer) /\ chan[R] # <<>>
    BY <1>18 DEF ReceiveEnd, R, Arrived
  <2>3. Taken
    BY <1>1, <2>1, <2>2, TakeFacts DEF Taken
  <2>4. QED
    BY <1>18, <2>3 DEF Move
<1>19. ASSUME NEW p \in Processes, Fault(p) \/ Spin(p) \/ ConnectionReset(p) PROVE Move
  <2>1. Stops(p)
    BY <1>1, <1>19 DEF Fault, Spin, ConnectionReset, Stops, Busy, Ended, Off, Others, Reading
  <2>2. QED
    BY <2>1 DEF Move
<1>20. CASE UNCHANGED vars \/ \E p \in Processes : FlipSwitch(p)
  BY <1>20 DEF vars, FlipSwitch, Move, Flips
<1>21. QED
  BY <1>7, <1>8, <1>9, <1>10, <1>11, <1>12, <1>13, <1>14, <1>15, <1>16, <1>17, <1>18,
     <1>19, <1>20
     DEF Next, Step, ClientStep, ServerStep, SenderStep, ReceiverStep

LEMMA TakenFacts ==
    ASSUME TypeOK, Taken
    PROVE  /\ Len(chan[R]) \in Nat \ {0}
           /\ Head(chan[R]) = chan[R][1] /\ chan[R][1] \in Packet
           /\ Len(chan'[R]) \in Nat /\ Len(chan'[R]) = Len(chan[R]) - 1
           /\ \A k \in 1..Len(chan'[R]) :
                 k + 1 \in 2..Len(chan[R]) /\ chan'[R][k] = chan[R][k + 1]
<1>1. chan[R] \in Seq(Packet) /\ chan[R] # <<>> /\ chan'[R] = Tail(chan[R])
  BY Ends DEF TypeOK, Taken
<1>2. Len(chan[R]) \in Nat /\ Len(chan[R]) > 0
  BY <1>1, EmptySeq
<1>3. Head(chan[R]) = chan[R][1] /\ chan[R][1] \in Packet
  BY <1>1, <1>2
<1>4. Len(chan'[R]) = Len(chan[R]) - 1
  BY <1>1, HeadTailProperties
<1>5. \A k \in 1..Len(chan'[R]) : chan'[R][k] = chan[R][k + 1]
  BY <1>1, HeadTailProperties
<1>6. QED
  BY <1>2, <1>3, <1>4, <1>5

LEMMA SaidFacts ==
    ASSUME TypeOK, NEW m, chan'[R] = Append(chan[R], m)
    PROVE  /\ Len(chan[R]) \in Nat
           /\ Len(chan'[R]) \in Nat /\ Len(chan'[R]) = Len(chan[R]) + 1
           /\ \A k \in 1..Len(chan'[R]) :
                 \/ k \in 1..Len(chan[R]) /\ chan'[R][k] = chan[R][k]
                 \/ k = Len(chan'[R]) /\ chan'[R][k] = m
           /\ chan'[R] # <<>> /\ chan'[R][Len(chan'[R])] = m
<1>1. chan[R] \in Seq(Packet)
  BY Ends DEF TypeOK
<1>2. chan[R] \in Seq(Packet \cup {m})
  BY <1>1, SeqMonotonic
<1>3. /\ Len(chan[R]) \in Nat /\ Len(chan'[R]) = Len(chan[R]) + 1
      /\ \A k \in 1..Len(chan[R]) : chan'[R][k] = chan[R][k]
      /\ chan'[R] # <<>> /\ chan'[R][Len(chan[R]) + 1] = m
  BY <1>1, <1>2, LenProperties, AppendProperties
<1>4. QED
  BY <1>3

-----------------------------------------------------------------------------
(* The handshake and the blocks are kept in step.                          *)

LEMMA HandshakeStep ==
    ASSUME TypeOK, Handshake, Exists, AtBlock, Steady, Move
    PROVE  Handshake'
<1> USE Ends DEF Steady, Handshake, SenderPlaces, ReceiverPlaces, Silent, Sending, Off,
                 Still, Silence, SenderAt, ReceiverAt, TypeOK
<1>1. CASE Flips
  BY <1>1 DEF Flips
<1>2. CASE Opens \/ Asks
  BY <1>2 DEF Opens, Asks
<1>3. CASE Admits \/ Heads
  BY <1>3 DEF Admits, Heads, Taken
<1>4. CASE SizeFile
  BY <1>4 DEF SizeFile, Goto, R, transferVars
<1>5. CASE Finds \/ Offers
  BY <1>5 DEF Finds, Offers
<1>6. CASE Grants \/ Starts
  BY <1>6 DEF Grants, Starts
<1>7. CASE ReadBlock
  BY <1>7 DEF ReadBlock, Goto, S
<1>8. CASE PackBlock
  BY <1>8 DEF PackBlock, Goto, S
<1>9. CASE Sends \/ Finishes
  BY <1>9 DEF Sends, Finishes
<1>10. CASE Taken /\ (ReceiveData \/ ReceiveBlank)
  BY <1>10 DEF ReceiveData, ReceiveBlank, Taken, R
<1>11. CASE Taken /\ ReceiveEnd
  BY <1>11 DEF ReceiveEnd, Taken, R, Goto
<1>12. ASSUME NEW p \in Processes, Stops(p) PROVE Handshake'
  BY <1>12 DEF Stops, Busy, Ended, Others, Taken
<1>13. QED
  BY <1>1, <1>2, <1>3, <1>4, <1>5, <1>6, <1>7, <1>8, <1>9, <1>10, <1>11, <1>12 DEF Move

LEMMA AtBlockStep ==
    ASSUME TypeOK, Handshake, Exists, AtBlock, Steady, Move
    PROVE  AtBlock'
<1> USE Ends DEF Steady, Handshake, AtBlock, Sending, Off, Still, SenderAt, ReceiverAt, TypeOK
<1>1. CASE Flips \/ Opens \/ Asks \/ Admits \/ Heads
  BY <1>1 DEF Flips, Opens, Asks, Admits, Heads
<1>2. CASE SizeFile
  BY <1>2 DEF SizeFile, Goto, R, transferVars
<1>3. CASE Finds \/ Offers \/ Grants
  BY <1>3 DEF Finds, Offers, Grants
<1>4. CASE Starts
  BY <1>4, FileFacts DEF Starts, Exists, Silent
<1>5. CASE ReadBlock
  BY <1>5 DEF ReadBlock, Goto, S
<1>6. CASE PackBlock
  <2>1. src \in Files /\ Len(src) \in Nat /\ pc[S] = "pack" /\ pc'[S] = "send"
    BY <1>6, FileFacts DEF PackBlock, Exists, Silent, Goto, S
  <2>2. CASE AtEnd
    BY <1>6, <2>1, <2>2 DEF PackBlock, AtEnd
  <2>3. CASE ~AtEnd
    BY <1>6, <2>1, <2>3 DEF PackBlock, AtEnd
  <2>4. QED
    BY <2>2, <2>3
<1>7. CASE Sends \/ Finishes
  BY <1>7 DEF Sends, Finishes
<1>8. CASE Taken /\ (ReceiveData \/ ReceiveBlank \/ ReceiveEnd)
  BY <1>8 DEF ReceiveData, ReceiveBlank, ReceiveEnd, R, Goto
<1>9. ASSUME NEW p \in Processes, Stops(p) PROVE AtBlock'
  BY <1>9 DEF Stops, Busy, Ended, Others
<1>10. QED
  BY <1>1, <1>2, <1>3, <1>4, <1>5, <1>6, <1>7, <1>8, <1>9 DEF Move

LEMMA ExistsStep ==
    ASSUME TypeOK, Handshake, Exists, AtBlock, Steady, Move
    PROVE  Exists'
<1> USE Ends DEF Steady, Exists, Silent, Sending, Off, Still, Silence, SenderAt, ReceiverAt,
                 TypeOK
<1>1. CASE Flips
  BY <1>1 DEF Flips
<1>2. CASE Opens \/ Asks
  BY <1>2 DEF Opens, Asks
<1>0. Taken => \A k \in 1..Len(chan'[R]) : chan'[R][k].type = "HEAD" => src # Missing
  <2> SUFFICES ASSUME Taken, NEW k \in 1..Len(chan'[R]), chan'[R][k].type = "HEAD"
               PROVE  src # Missing
    OBVIOUS
  <2>1. k + 1 \in 1..Len(chan[R]) /\ chan'[R][k] = chan[R][k + 1]
    BY TakenFacts
  <2>2. QED
    BY <2>1
<1>3. CASE Admits \/ Heads
  <2>1. CASE Admits
    BY <1>0, <2>1 DEF Admits
  <2>2. CASE Heads
    <3>1. src # Missing
      BY <2>2, TakenFacts DEF Heads
    <3>2. QED
      BY <2>2, <3>1 DEF Heads
  <2>3. QED
    BY <1>3, <2>1, <2>2
<1>4. CASE SizeFile
  BY <1>4 DEF SizeFile, Goto, R, transferVars
<1>5. CASE Finds
  BY <1>5 DEF Finds, Handshake
<1>6. CASE Offers
  BY <1>6 DEF Offers
<1>7. CASE Grants
  BY <1>7, SaidFacts DEF Grants
<1>8. CASE Starts
  BY <1>8 DEF Starts
<1>9. CASE ReadBlock \/ PackBlock
  BY <1>9 DEF ReadBlock, PackBlock, Goto, S
<1>10. CASE Sends \/ Finishes
  BY <1>10 DEF Sends, Finishes
<1>11. CASE Taken /\ (ReceiveData \/ ReceiveBlank \/ ReceiveEnd)
  BY <1>11, TakenFacts DEF ReceiveData, ReceiveBlank, ReceiveEnd, R, Goto
<1>12. ASSUME NEW p \in Processes, Stops(p) PROVE Exists'
  <2>1. \A k \in 1..Len(chan'[R]) : chan'[R][k].type = "HEAD" => src # Missing
    <3>1. CASE Silence
      BY <3>1
    <3>2. CASE Taken
      BY <1>0, <3>2
    <3>3. CASE chan'[R] = Append(chan[R], Refusal)
      BY <3>3, SaidFacts DEF Refusal
    <3>4. QED
      BY <1>12, <3>1, <3>2, <3>3 DEF Stops
  <2>2. QED
    BY <1>12, <2>1 DEF Stops, Busy, Ended, Others
<1>13. QED
  BY <1>1, <1>2, <1>3, <1>4, <1>5, <1>6, <1>7, <1>8, <1>9, <1>10, <1>11, <1>12 DEF Move

LEMMA StreamStep ==
    ASSUME TypeOK, Handshake, Exists, AtBlock, Stream, Steady, Move
    PROVE  Stream'
<1> USE Ends DEF Steady, Stream, Sending, Off, Still, Silence, SenderAt, ReceiverAt, TypeOK
<1>1. ASSUME Silence, pc[S] = "ok" => pc'[S] = "ok" PROVE Stream'
  BY <1>1
<1>2. ASSUME Taken, pc[S] = "ok" => pc'[S] = "ok" PROVE Stream'
  BY <1>2, TakenFacts
<1>3. ASSUME NEW m, m.type \notin {"DATA", "END"}, chan'[R] = Append(chan[R], m),
             pc[S] # "ok"
      PROVE  Stream'
  BY <1>3, SaidFacts
<1>4. CASE Flips \/ Opens \/ Asks \/ Admits \/ Heads
  BY <1>1, <1>2, <1>4 DEF Flips, Opens, Asks, Admits, Heads
<1>5. CASE SizeFile \/ ReadBlock \/ PackBlock
  BY <1>1, <1>5 DEF SizeFile, ReadBlock, PackBlock, Goto, S, R, transferVars
<1>6. CASE Finds \/ Starts
  BY <1>1, <1>6 DEF Finds, Starts
<1>7. CASE Offers
  <2>1. PICK b \in BOOLEAN :
          chan'[R] = chan[R] \o <<[type |-> "REQUEST", verify |-> b], Heading>>
    BY <1>7 DEF Offers
  <2>2. chan[R] = <<>>
    BY <1>7 DEF Offers, Handshake, Silent
  <2>3. chan'[R] = <<[type |-> "REQUEST", verify |-> b], Heading>>
    BY <2>1, <2>2
  <2>4. QED
    BY <2>3 DEF Heading
<1>8. CASE Grants
  BY <1>3, <1>8 DEF Grants, Heading
<1>9. CASE Sends
  <2>1. CASE packed.kind = "data"
    <3>1. offset <= Len(src) /\ src[offset] # Hole
      BY <1>9, <2>1 DEF Sends, AtBlock
    <3>2. chan'[R] = Append(chan[R], [type |-> "DATA", at |-> offset, block |-> src[offset]])
      BY <1>9, <2>1 DEF Sends
    <3>3. QED
      BY <1>9, <3>1, <3>2, SaidFacts DEF Sends
  <2>2. CASE packed.kind = "hole"
    BY <1>3, <1>9, <2>2 DEF Sends
  <2>3. CASE packed.kind \notin {"data", "hole"}
    BY <1>1, <1>9, <2>3 DEF Sends
  <2>4. QED
    BY <2>1, <2>2, <2>3
<1>10. CASE Finishes
  BY <1>10, SaidFacts DEF Finishes
<1>11. CASE Taken /\ (ReceiveData \/ ReceiveBlank \/ ReceiveEnd)
  BY <1>2, <1>11 DEF ReceiveData, ReceiveBlank, ReceiveEnd, R, Goto
<1>12. ASSUME NEW p \in Processes, Stops(p) PROVE Stream'
  <2>1. pc[S] = "ok" => pc'[S] = "ok"
    BY <1>12 DEF Stops, Busy, Ended, Others
  <2>2. CASE p = S /\ Silent /\ chan'[R] = Append(chan[R], Refusal)
    BY <1>3, <2>2 DEF Silent, Refusal
  <2>3. QED
    BY <1>1, <1>2, <1>12, <2>1, <2>2 DEF Stops
<1>13. QED
  BY <1>4, <1>5, <1>6, <1>7, <1>8, <1>9, <1>10, <1>11, <1>12 DEF Move

LEMMA EndComesStep ==
    ASSUME TypeOK, Handshake, Exists, AtBlock, Stream, EndComes, Steady, Move
    PROVE  EndComes'
<1> USE Ends DEF Steady, EndComes, Off, Still, Silence, SenderAt, ReceiverAt, TypeOK,
                 Busy, Ended
<1>1. ASSUME Silence, pc'[S] = "ok" => pc[S] = "ok", Busy(R)' => Busy(R) PROVE EndComes'
  BY <1>1
<1>2. ASSUME Taken, chan[R][1].type # "END", pc'[S] = "ok" => pc[S] = "ok",
             Busy(R)' => Busy(R)
      PROVE  EndComes'
  <2> SUFFICES ASSUME pc'[S] = "ok", Busy(R)'
               PROVE  chan'[R] # <<>> /\ chan'[R][Len(chan'[R])].type = "END"
    OBVIOUS
  <2>1. chan[R][Len(chan[R])].type = "END" /\ Len(chan[R]) # 1
    BY <1>2, TakenFacts
  <2>2. Len(chan'[R]) \in Nat /\ Len(chan'[R]) > 0
    BY <1>2, <2>1, TakenFacts
  <2>3. chan'[R][Len(chan'[R])] = chan[R][Len(chan'[R]) + 1]
    <3>1. Len(chan'[R]) \in 1..Len(chan'[R])
      BY <2>2
    <3>2. \A k \in 1..Len(chan'[R]) : chan'[R][k] = chan[R][k + 1]
      BY <1>2, TakenFacts
    <3>3. QED
      BY <3>1, <3>2, Zenon
  <2>4. Len(chan'[R]) + 1 = Len(chan[R])
    BY <1>2, TakenFacts
  <2>5. QED
    BY <2>1, <2>2, <2>3, <2>4
<1>3. CASE Flips \/ Opens \/ Asks
  BY <1>1, <1>3 DEF Flips, Opens, Asks
<1>4. CASE Admits
  BY <1>2, <1>4 DEF Admits
<1>5. CASE Heads
  BY <1>2, <1>5 DEF Heads
<1>6. CASE SizeFile \/ ReadBlock \/ PackBlock
  BY <1>1, <1>6 DEF SizeFile, ReadBlock, PackBlock, Goto, S, R, transferVars
<1>7. CASE Finds \/ Starts \/ Offers \/ Grants \/ Sends
  BY <1>7 DEF Finds, Starts, Offers, Grants, Sends
<1>8. CASE Finishes
  BY <1>8, SaidFacts DEF Finishes
<1>9. CASE Taken /\ (ReceiveData \/ ReceiveBlank)
  BY <1>2, <1>9, TakenFacts DEF ReceiveData, ReceiveBlank, R, Arrived
<1>10. CASE Taken /\ ReceiveEnd
  BY <1>10 DEF ReceiveEnd, R, Goto
<1>11. ASSUME NEW p \in Processes, Stops(p) PROVE EndComes'
  BY <1>1, <1>11 DEF Stops, Others
<1>12. QED
  BY <1>3, <1>4, <1>5, <1>6, <1>7, <1>8, <1>9, <1>10, <1>11 DEF Move

LEMMA Lengths ==
    ASSUME TypeOK
    PROVE  /\ Len(chan[R]) \in Nat /\ offset \in Nat /\ Lead \in Nat
           /\ \A p \in Processes : hash[p] \in Seq(Block) /\ Len(hash[p]) \in Nat
           /\ src # Missing => Len(src) \in Nat /\ Len(src) <= MaxBlocks
<1>1. chan[R] \in Seq(Packet)
  BY Ends DEF TypeOK
<1>2. Len(chan[R]) \in Nat
  BY <1>1, LenProperties
<1>3. \A p \in Processes : hash[p] \in Files
  BY DEF TypeOK
<1>4. src # Missing => src \in Files
  BY DEF TypeOK
<1>5. QED
  BY <1>2, <1>3, <1>4, FileFacts DEF TypeOK, Lead

LEMMA Appended ==
    ASSUME TypeOK, NEW p \in Processes, NEW b \in Block, hash' = [hash EXCEPT ![p] = Append(@, b)]
    PROVE  /\ Len(hash'[p]) \in Nat /\ Len(hash'[p]) = Len(hash[p]) + 1
           /\ \A i \in 1..Len(hash[p]) : hash'[p][i] = hash[p][i]
           /\ hash'[p][Len(hash[p]) + 1] = b
           /\ \A q \in Processes : q # p => hash'[q] = hash[q]
<1>1. hash[p] \in Seq(Block)
  BY Lengths
<1>2. hash'[p] = Append(hash[p], b)
  BY DEF TypeOK
<1>3. QED
  BY <1>1, <1>2, LenProperties, AppendProperties DEF TypeOK

LEMMA SentFacts ==
    ASSUME TypeOK, Exists, AtBlock
    PROVE  Sent \in Nat /\ (pc[S] \in {"read", "pack", "send"} => Sent <= Len(src))
<1>1. offset \in Nat /\ (src # Missing => Len(src) \in Nat)
  BY Lengths
<1>2. pc[S] \in Sending => src # Missing
  BY DEF Exists, Silent, Sending, Off
<1>3. QED
  BY <1>1, <1>2 DEF Sent, AtBlock, Sending

LEMMA CountStep ==
    ASSUME TypeOK, Handshake, Exists, AtBlock, Stream, Count, Steady, Move
    PROVE  Count'
<1> DEFINE Ahead == Busy(R) => Len(hash[R]) + Len(chan[R]) <= Sent + Lead
           Own   == /\ pc[S] = "read" => Len(hash[S]) <= offset
                    /\ pc[S] = "pack" => Len(hash[S]) <= IF AtEnd THEN offset ELSE offset + 1
                    /\ pc[S] = "send" => Len(hash[S]) <= offset
<1> USE Ends DEF Steady, Off, Still, Silence, SenderAt, ReceiverAt, Busy, Ended, AtEnd
<1>0. Own
  BY DEF Count
<1>b. Ahead
  BY DEF Count
<1>a. Len(chan[R]) \in Nat /\ Len(hash[R]) \in Nat /\ Len(hash[S]) \in Nat
      /\ offset \in Nat /\ Lead \in Nat /\ Sent \in Nat
  BY Lengths, SentFacts
<1>c. ASSUME Busy(R)' => Busy(R), Sent' \in Nat,
             \* a packet is taken, or sent, or counted though it was not sent
             \/ /\ Len(hash[R])' \in {Len(hash[R]), Len(hash[R]) + 1}
                /\ Len(chan[R])' = Len(chan[R]) - 1 /\ Sent' = Sent /\ Lead' = Lead
             \/ /\ hash' = hash
                /\ Len(chan[R])' = Len(chan[R]) - 1 /\ Sent' = Sent /\ Lead' = Lead - 1
             \/ /\ hash' = hash
                /\ Len(chan[R])' \in {Len(chan[R]), Len(chan[R]) + 1}
                /\ Sent' = Sent + 1 /\ Lead' = Lead
             \/ /\ hash' = hash
                /\ chan[R]' = chan[R] /\ Sent' >= Sent /\ Lead' = Lead
      PROVE  Ahead'
  <2> SUFFICES ASSUME Busy(R)'
               PROVE  Len(hash[R])' + Len(chan[R])' <= Sent' + Lead'
    OBVIOUS
  <2> DEFINE h == Len(hash[R])  h1 == Len(hash[R])'
             c == Len(chan[R])  c1 == Len(chan[R])'
             s == Sent  s1 == Sent'  l == Lead  l1 == Lead'
  <2>1. h \in Nat /\ c \in Nat /\ s \in Nat /\ l \in Nat /\ s1 \in Nat
    BY <1>a, <1>c
  <2>a. Busy(R)
    BY <1>c
  <2>b. h + c <= s + l
    BY <1>b, <2>a
  <2>2. \/ h1 \in {h, h + 1} /\ c1 = c - 1 /\ s1 = s /\ l1 = l
        \/ h1 = h /\ c1 = c - 1 /\ s1 = s /\ l1 = l - 1
        \/ h1 = h /\ c1 \in {c, c + 1} /\ s1 = s + 1 /\ l1 = l
        \/ h1 = h /\ c1 = c /\ s1 >= s /\ l1 = l
    BY <1>c
  <2> HIDE DEF h, h1, c, c1, s, s1, l, l1
  <2>3. h1 + c1 <= s1 + l1
    BY <2>1, <2>2, <2>b
  <2>4. QED
    BY <2>3 DEF h1, c1, s1, l1
<1>1. CASE Flips \/ Opens \/ Asks
  BY <1>0, <1>b, <1>1 DEF Flips, Opens, Asks, Lead, Sent, Count
<1>2. CASE Admits \/ Heads
  <2>1. /\ Len(chan'[R]) \in Nat /\ Len(chan'[R]) = Len(chan[R]) - 1
        /\ Sent' = Sent /\ Lead' = Lead - 1 /\ Lead' \in Nat
    BY <1>2, TakenFacts DEF Admits, Heads, Lead, Sent
  <2>2. Ahead'
    BY <1>a, <1>c, <1>2, <2>1 DEF Admits, Heads
  <2>3. Own'
    BY <1>0, <1>2 DEF Admits, Heads
  <2>4. QED
    BY <2>2, <2>3 DEF Count
<1>3. CASE SizeFile
  BY <1>0, <1>b, <1>3 DEF SizeFile, Goto, R, transferVars, TypeOK, Lead, Sent, Count
<1>4. CASE Finds \/ Starts
  <2>1. Sent' = Sent /\ Lead' = Lead
    BY <1>4 DEF Finds, Starts, Lead, Sent
  <2>2. Ahead'
    BY <1>b, <1>4, <2>1 DEF Finds, Starts
  <2>3. Own'
    <3>1. hash[S] = <<>> /\ offset = 0
      BY <1>4 DEF Finds, Starts, Handshake, Sending
    <3>2. QED
      BY <1>4, <3>1 DEF Finds, Starts
  <2>4. QED
    BY <2>2, <2>3 DEF Count
<1>5. CASE Offers
  <2>1. PICK b \in BOOLEAN :
          chan'[R] = chan[R] \o <<[type |-> "REQUEST", verify |-> b], Heading>>
    BY <1>5 DEF Offers
  <2>2. /\ chan[R] = <<>> /\ pc[R] \in {"request"} \cup Off /\ offset = 0
        /\ Busy(R) => hash[R] = <<>>
    BY <1>5 DEF Offers, Handshake, Silent, Sending
  <2>3. chan'[R] = <<[type |-> "REQUEST", verify |-> b], Heading>>
    BY <2>1, <2>2
  <2>4. Len(chan'[R]) = 2
    BY <2>3
  <2>5. QED
    BY <1>5, <2>2, <2>4 DEF Offers, Lead, Sent, Count
<1>6. CASE Grants
  <2>1. /\ chan[R] = <<>> /\ offset = 0
        /\ Busy(R) => hash[R] = <<>> /\ Lead \in {1, 2}
    BY <1>6 DEF Grants, Handshake, Silent, Sending, Lead
  <2>2. Len(chan'[R]) = 1
    BY <1>6, <2>1, SaidFacts DEF Grants
  <2>3. QED
    BY <1>6, <2>1, <2>2 DEF Grants, Lead, Sent, Count
<1>7. CASE ReadBlock
  <2>1. pc[S] = "read" /\ pc'[S] = "pack" /\ pc'[R] = pc[R] /\ chan' = chan /\ offset' = offset
    BY <1>7 DEF ReadBlock, Goto, S, TypeOK
  <2>2. src \in Files
    BY <2>1 DEF Exists, Silent, TypeOK
  <2>3. CASE ~AtEnd /\ switch[S]
    <3>1. src[offset + 1] \in Block
      BY <2>1, <2>2, <2>3, FileFacts, Lengths DEF AtBlock, Sending
    <3>2. hash' = [hash EXCEPT ![S] = Append(@, src[offset + 1])]
      BY <1>7, <2>3 DEF ReadBlock, S
    <3>3. Len(hash'[S]) = Len(hash[S]) + 1 /\ hash'[R] = hash[R]
      BY <3>1, <3>2, Appended
    <3>4. Sent' = Sent /\ Lead' = Lead
      BY <2>1 DEF Lead, Sent
    <3>5. Ahead'
      BY <1>b, <2>1, <3>3, <3>4
    <3>6. Own'
      BY <1>0, <1>a, <2>1, <2>3, <3>3
    <3>7. QED
      BY <3>5, <3>6 DEF Count
  <2>4. CASE AtEnd \/ ~switch[S]
    <3>1. hash' = hash
      BY <1>7, <2>4 DEF ReadBlock, S
    <3>2. Sent' = Sent /\ Lead' = Lead
      BY <2>1 DEF Lead, Sent
    <3>3. Ahead'
      BY <1>b, <2>1, <3>1, <3>2
    <3>4. Own'
      BY <1>0, <1>a, <2>1, <3>1
    <3>5. QED
      BY <3>3, <3>4 DEF Count
  <2>5. QED
    BY <2>3, <2>4
<1>8. CASE PackBlock
  <2>1. /\ pc[S] = "pack" /\ pc'[S] = "send" /\ pc'[R] = pc[R] /\ chan' = chan /\ hash' = hash
        /\ offset' = IF AtEnd THEN offset ELSE offset + 1
        /\ packed'.kind = "end" <=> AtEnd
    BY <1>8 DEF PackBlock, Goto, S, TypeOK
  <2>2. Sent' = Sent /\ Lead' = Lead
    BY <1>a, <2>1 DEF Lead, Sent
  <2>3. Ahead'
    BY <1>b, <2>1, <2>2
  <2>4. Own'
    BY <1>0, <1>a, <2>1
  <2>5. QED
    BY <2>3, <2>4 DEF Count
<1>9. CASE Sends
  <2>1. Len(chan'[R]) \in Nat /\ Len(chan'[R]) \in {Len(chan[R]), Len(chan[R]) + 1}
    BY <1>a, <1>9, SaidFacts DEF Sends
  <2>2. Sent' \in Nat /\ Sent' = Sent + 1 /\ Lead' = Lead
    BY <1>a, <1>9 DEF Sends, Lead, Sent
  <2>3. Ahead'
    BY <1>a, <1>c, <1>9, <2>1, <2>2 DEF Sends
  <2>4. Own'
    BY <1>0, <1>9 DEF Sends
  <2>5. QED
    BY <2>3, <2>4 DEF Count
<1>10. CASE Finishes
  <2>1. Len(chan'[R]) \in Nat /\ Len(chan'[R]) = Len(chan[R]) + 1 /\ offset = Len(src)
    BY <1>10, SaidFacts DEF Finishes, AtBlock
  <2>2. Sent' \in Nat /\ Sent' = Sent + 1 /\ Lead' = Lead
    BY <1>a, <1>10, <2>1 DEF Finishes, Lead, Sent
  <2>3. Ahead'
    BY <1>a, <1>c, <1>10, <2>1, <2>2 DEF Finishes
  <2>4. QED
    BY <1>10, <2>3 DEF Finishes, Count
<1>11. CASE Taken /\ (ReceiveData \/ ReceiveBlank)
  <2>1. /\ Len(hash'[R]) \in Nat /\ Len(hash'[R]) \in {Len(hash[R]), Len(hash[R]) + 1}
        /\ hash'[S] = hash[S]
    <3>1. Head(chan[R]).type = "DATA" => Head(chan[R]).block \in Block
      BY <1>11, TakenFacts, PacketFacts
    <3>2. Hole \in Block
      BY NetCopyAssumption
    <3>3. \/ hash' = hash
          \/ \E b \in Block : hash' = [hash EXCEPT ![R] = Append(@, b)]
      BY <1>11, <3>1, <3>2 DEF ReceiveData, ReceiveBlank, R, Arrived
    <3>4. QED
      BY <1>a, <3>3, Appended
  <2>2. pc' = pc /\ offset' = offset /\ packed' = packed
    BY <1>11 DEF ReceiveData, ReceiveBlank
  <2>3. /\ Len(chan'[R]) \in Nat /\ Len(chan'[R]) = Len(chan[R]) - 1
        /\ Sent' = Sent /\ Lead' = Lead
    BY <1>11, <2>2, TakenFacts DEF Sent, Lead
  <2>4. Ahead'
    BY <1>a, <1>c, <2>1, <2>2, <2>3
  <2>5. Own'
    BY <1>0, <2>1, <2>2
  <2>6. QED
    BY <2>4, <2>5 DEF Count
<1>12. CASE Taken /\ ReceiveEnd
  BY <1>0, <1>b, <1>12 DEF ReceiveEnd, R, Goto, Count, TypeOK
<1>13. ASSUME NEW p \in Processes, Stops(p) PROVE Count'
  <2>1. Own'
    BY <1>0, <1>13 DEF Stops, Others
  <2>2. CASE p = R
    BY <1>13, <2>1, <2>2 DEF Stops, Count
  <2>3. CASE p = S /\ Silence
    <3>1. Lead' = Lead /\ Sent' = offset /\ pc'[R] = pc[R] /\ hash' = hash
      BY <1>13, <2>3 DEF Stops, Others, Lead, Sent
    <3>2. Sent <= offset
      BY <1>a, <1>13, <2>3 DEF Stops, Sent
    <3>3. Ahead'
      BY <1>a, <1>c, <2>3, <3>1, <3>2
    <3>4. QED
      BY <2>1, <3>3 DEF Count
  <2>4. CASE p = S /\ Silent /\ chan'[R] = Append(chan[R], Refusal)
    <3>1. /\ chan[R] = <<>> /\ offset = 0
          /\ Busy(R) => hash[R] = <<>> /\ Lead \in {1, 2}
      BY <2>4 DEF Handshake, Silent, Sending, Lead
    <3>2. Len(chan'[R]) = 1
      BY <2>4, <3>1, SaidFacts
    <3>3. Lead' = Lead /\ Sent' = offset /\ pc'[R] = pc[R] /\ hash' = hash
      BY <1>13, <2>4 DEF Stops, Others, Lead, Sent
    <3>4. Ahead'
      BY <3>1, <3>2, <3>3
    <3>5. QED
      BY <2>1, <3>4 DEF Count
  <2>5. QED
    BY <1>13, <2>2, <2>3, <2>4 DEF Stops
<1>14. QED
  BY <1>1, <1>2, <1>3, <1>4, <1>5, <1>6, <1>7, <1>8, <1>9, <1>10, <1>11, <1>12, <1>13 DEF Move

-----------------------------------------------------------------------------
(* Types.  The MD5 input and the destination stay files of the sizes       *)
(* considered because no more blocks arrive than the source has.           *)

\* What a process says, with or without taking a packet first; a request says
\* what the client's switch is.
Talks(p, pkts) ==
    /\ Send(p, pkts) \/ (Take(p, pkts) /\ chan[p] # <<>>)
    /\ \A k \in 1..Len(pkts) :
          pkts[k].type = "REQUEST" => pkts[k].verify = switch["client"]

LEMMA ChannelUse ==
    ASSUME TypeOK, Handshake, Exists, AtBlock, [Next]_vars
    PROVE  chan' = chan \/ \E p \in Processes, pkts \in Seq(Packet) : Talks(p, pkts)
<1> DEFINE Goal == chan' = chan \/ \E p \in Processes, pkts \in Seq(Packet) : Talks(p, pkts)
<1>1. ASSUME NEW p \in Processes, Send(p, <<>>) \/ (Take(p, <<>>) /\ chan[p] # <<>>)
      PROVE  Goal
  <2>1. <<>> \in Seq(Packet) /\ Talks(p, <<>>)
    BY <1>1, Few, EmptySeq DEF Talks
  <2>2. QED
    BY <2>1
<1>2. ASSUME NEW p \in Processes, NEW m \in Packet,
             m.type = "REQUEST" => m.verify = switch["client"],
             Send(p, <<m>>) \/ (Take(p, <<m>>) /\ chan[p] # <<>>)
      PROVE  Goal
  <2>1. <<m>> \in Seq(Packet) /\ Talks(p, <<m>>)
    BY <1>2, Few DEF Talks
  <2>2. QED
    BY <2>1
<1>3. "client" \in Processes /\ "server" \in Processes
  BY DEF Processes
<1>4. src # Missing => Len(src) \in 0..MaxBlocks
  BY Lengths DEF TypeOK
<1>5. Size(src) \in 0..MaxBlocks
  BY <1>4, NetCopyAssumption DEF Size
<1>6. CASE SendRequest
  <2> DEFINE request == [type |-> "REQUEST", verify |-> switch["client"]]
             size    == [type |-> "HEAD", size |-> Size(src)]
  <2>1. request \in Packet /\ size \in Packet
    BY <1>3, <1>5, Packets DEF TypeOK
  <2>2. CASE Send("client", <<request>>)
    BY <1>2, <1>3, <2>1, <2>2
  <2>3. CASE Send("client", <<request, size>>)
    <3>1. <<request, size>> \in Seq(Packet) /\ Talks("client", <<request, size>>)
      BY <2>1, <2>3, Few DEF Talks
    <3>2. QED
      BY <1>3, <3>1
  <2>4. QED
    BY <1>6, <2>2, <2>3 DEF SendRequest
<1>7. CASE ReadRequest
  <2> DEFINE size == [type |-> "HEAD", size |-> Size(src)]
  <2>1. Refusal \in Packet /\ size \in Packet
    BY <1>5, Packets DEF Refusal
  <2>2. Refusal.type # "REQUEST" /\ size.type # "REQUEST"
    BY DEF Refusal
  <2>3. /\ chan["server"] # <<>>
        /\ \/ Take("server", <<>>) \/ Take("server", <<Refusal>>) \/ Take("server", <<size>>)
    BY <1>7 DEF ReadRequest, Arrived, Refusal
  <2>4. QED
    BY <1>1, <1>2, <1>3, <2>1, <2>2, <2>3
<1>8. CASE ReadHead \/ ReceiveEnd
  <2> DEFINE yes == [type |-> "RESPONSE", ok |-> TRUE]
  <2>1. yes \in Packet /\ yes.type # "REQUEST"
    BY Packets
  <2>2. chan[R] # <<>> /\ (Take(R, <<yes>>) \/ Take(R, <<>>))
    BY <1>8 DEF ReadHead, ReceiveEnd, Arrived, R
  <2>3. QED
    BY <1>1, <1>2, <2>1, <2>2, Ends
<1>9. CASE ReadResponse \/ ReadRefusal
  <2>1. chan["client"] # <<>> /\ Take("client", <<>>)
    BY <1>9 DEF ReadResponse, ReadRefusal, Arrived
  <2>2. QED
    BY <1>1, <1>3, <2>1
<1>10. CASE ReceiveData \/ ReceiveBlank
  <2>1. chan[R] # <<>> /\ Take(R, <<>>)
    BY <1>10 DEF ReceiveData, ReceiveBlank, Arrived, R
  <2>2. QED
    BY <1>1, <2>1, Ends
<1>11. CASE SendBlock
  <2> DEFINE data == [type |-> "DATA", at |-> offset, block |-> src[offset]]
             blank == [type |-> "BLANK"]
  <2>1. packed.kind = "data" => data \in Packet
    <3>1. src \in Files /\ pc[S] = "send" /\ offset <= Len(src)
      BY <1>11 DEF SendBlock, S, Exists, Silent, Off, AtBlock, Sending, TypeOK
    <3>2. packed.kind = "data" => offset \in 1..MaxBlocks /\ src[offset] \in Block
      BY <3>1, FileFacts DEF AtBlock, TypeOK
    <3>3. QED
      BY <3>2, Packets
  <2>2. blank \in Packet /\ blank.type # "REQUEST" /\ data.type # "REQUEST"
    BY Packets
  <2>3. \/ Send(S, <<data>>) /\ packed.kind = "data"
        \/ Send(S, <<blank>>)
        \/ Send(S, <<>>)
    BY <1>11 DEF SendBlock, S
  <2>4. QED
    BY <1>1, <1>2, <2>1, <2>2, <2>3, Ends
<1>12. CASE SendEnd
  <2> DEFINE end == [type |-> "END", md5 |-> IF switch[S] THEN hash[S] ELSE <<>>]
  <2>1. end \in Packet
    BY Ends, Packets, NoBlocks DEF TypeOK
  <2>2. end.type # "REQUEST"
    OBVIOUS
  <2>3. chan' = chan \/ Send(S, <<end>>)
    BY <1>12 DEF SendEnd, S
  <2>4. QED
    BY <1>2, <2>1, <2>2, <2>3, Ends
<1>13. CASE \/ OpenClientFile \/ OpenServerFile \/ SizeFile \/ ReadBlock \/ PackBlock
            \/ UNCHANGED vars
            \/ \E p \in Processes : FlipSwitch(p) \/ Fault(p) \/ Spin(p) \/ ConnectionReset(p)
  BY <1>13 DEF OpenClientFile, OpenServerFile, SizeFile, ReadBlock, PackBlock, vars,
                      FlipSwitch, Fault, Spin, ConnectionReset
<1>14. QED
  BY <1>6, <1>7, <1>8, <1>9, <1>10, <1>11, <1>12, <1>13
     DEF Next, Step, ClientStep, ServerStep, SenderStep, ReceiverStep

LEMMA ChannelType ==
    ASSUME TypeOK, Handshake, Exists, AtBlock, [Next]_vars
    PROVE  chan' \in Channels
<1>1. chan \in Channels
  BY DEF TypeOK, Channels
<1>2. QED
  BY <1>1, ChannelUse, SendFacts, TakeFacts DEF Talks

LEMMA HashType ==
    ASSUME TypeOK, Handshake, Exists, AtBlock, Stream, EndComes, Count, Steady, Move
    PROVE  hash' \in [Processes -> Files]
<1>1. hash \in [Processes -> Files]
  BY DEF TypeOK
<1>2. ASSUME NEW p \in Processes, NEW b \in Block, hash' = [hash EXCEPT ![p] = Append(@, b)],
             Len(hash[p]) + 1 <= MaxBlocks
      PROVE  hash' \in [Processes -> Files]
  <2>1. Append(hash[p], b) \in Seq(Block) /\ Len(Append(hash[p], b)) = Len(hash[p]) + 1
    BY Lengths, AppendProperties
  <2>2. Append(hash[p], b) \in Files
    BY <1>2, <2>1, FileIsSeq
  <2>3. QED
    BY <1>1, <1>2, <2>2
<1>3. CASE ReadBlock
  <2>1. pc[S] = "read" /\ src \in Files /\ offset <= Len(src)
    BY <1>3 DEF ReadBlock, S, Exists, Silent, Off, AtBlock, Sending, TypeOK
  <2>2. CASE ~AtEnd /\ switch[S]
    <3>1. src[offset + 1] \in Block /\ Len(hash[S]) + 1 <= MaxBlocks
      <4>1. offset \in Nat /\ Len(src) \in Nat /\ Len(src) <= MaxBlocks
        BY <2>1, FileFacts, Lengths
      <4>2. offset + 1 \in 1..Len(src) /\ offset + 1 <= MaxBlocks
        BY <2>1, <2>2, <4>1, NetCopyAssumption DEF AtEnd
      <4>3. Len(hash[S]) <= offset /\ Len(hash[S]) \in Nat
        BY <2>1, Lengths, Ends DEF Count
      <4>4. QED
        BY <2>1, <4>1, <4>2, <4>3, FileFacts, NetCopyAssumption
    <3>2. QED
      BY <1>2, <1>3, <2>2, <3>1, Ends DEF ReadBlock, S
  <2>3. CASE AtEnd \/ ~switch[S]
    BY <1>1, <1>3, <2>3 DEF ReadBlock, S
  <2>4. QED
    BY <2>2, <2>3
<1>4. CASE Taken /\ (ReceiveData \/ ReceiveBlank)
  <2> DEFINE msg == Head(chan[R])
  <2>1. msg = chan[R][1] /\ msg.type # "END" /\ pc[R] = "receive"
        /\ (msg.type = "DATA" => msg.block \in Block)
    BY <1>4, TakenFacts, PacketFacts DEF ReceiveData, ReceiveBlank, R, Arrived
  <2>2. Len(hash[R]) + Len(chan[R]) <= Sent
    <3>1. Lead = 0 /\ Busy(R)
      BY <2>1 DEF Lead, Busy, Ended
    <3>2. Sent \in Nat
      BY SentFacts
    <3>3. Sent + Lead = Sent
      BY <3>1, <3>2
    <3>4. Len(hash[R]) + Len(chan[R]) <= Sent + Lead
      BY <3>1 DEF Count
    <3>5. QED
      BY <3>3, <3>4
  <2>3. pc[S] = "ok" => Len(chan[R]) > 1
    BY <1>4, <2>1, TakenFacts DEF EndComes, Busy, Ended
  <2>4. Len(hash[R]) + 1 <= MaxBlocks
    <3>1. (Len(src) \in Nat /\ Len(src) <= MaxBlocks) \/ pc[S] # "ok"
      BY Lengths DEF Exists, Silent, Off
    <3>2. IF pc[S] = "ok" THEN Sent <= MaxBlocks + 1 ELSE Sent <= MaxBlocks
      BY <3>1, NetCopyAssumption DEF Sent, TypeOK
    <3> DEFINE h == Len(hash[R])  c == Len(chan[R])  n == Sent
    <3>3. h \in Nat /\ c \in Nat \ {0} /\ n \in Nat /\ h + c <= n
      BY <1>4, <2>2, Lengths, SentFacts, Ends, TakenFacts
    <3>4. \/ c > 1 /\ n <= MaxBlocks + 1
          \/ n <= MaxBlocks
      BY <2>3, <3>2
    <3> HIDE DEF h, c, n
    <3>5. h + 1 <= MaxBlocks
      BY <3>3, <3>4, NetCopyAssumption
    <3>6. QED
      BY <3>5 DEF h
  <2>5. \/ hash' = hash
        \/ \E b \in Block : hash' = [hash EXCEPT ![R] = Append(@, b)]
    BY <1>4, <2>1, NetCopyAssumption DEF ReceiveData, ReceiveBlank, R, Arrived
  <2>6. QED
    BY <1>1, <1>2, <2>4, <2>5, Ends
<1>5. ASSUME hash' = hash PROVE hash' \in [Processes -> Files]
  BY <1>1, <1>5
<1>6. QED
  BY <1>3, <1>4, <1>5 DEF Move, Flips, Opens, Asks, Admits, Heads, SizeFile, Finds, Offers,
     Grants, Starts, PackBlock, Sends, Finishes, ReceiveEnd, Stops, Still, transferVars

\* The file that a complete transfer starts from: created, and given its size.
LEMMA BaseFacts ==
    ASSUME TypeOK, src # Missing
    PROVE  /\ Created(old) \in Files /\ Base \in Files /\ Len(src) <= Len(Base)
           /\ Base = IF Size(src) > 0 THEN Resize(Created(old), Size(src)) ELSE Created(old)
<1>1. Created(old) \in Files
  BY NoBlocks DEF Created, TypeOK
<1>2. Size(src) = Len(src) /\ Len(src) \in Nat /\ Len(src) <= MaxBlocks
  BY Lengths DEF Size
<1>3. Base = IF Size(src) > 0 THEN Resize(Created(old), Size(src)) ELSE Created(old)
  BY <1>2 DEF Base, Copy!Sized, Copy!Created, Copy!Resize, Created, Resize
<1>4. Resize(Created(old), Len(src)) \in Files /\ Len(Resize(Created(old), Len(src))) = Len(src)
  BY <1>1, <1>2, ResizeFacts, NetCopyAssumption
<1>5. Len(Created(old)) \in Nat
  BY <1>1, FileFacts
<1>6. QED
  BY <1>1, <1>2, <1>3, <1>4, <1>5

\* A DATA packet puts a block of the source in its place.
LEMMA PutFacts ==
    ASSUME TypeOK, Exists, Stream, Placed, Taken, ReceiveData
    PROVE  /\ pc[R] = "receive" /\ pc' = pc /\ src # Missing
           /\ chan[R][1].type = "DATA" /\ chan[R][1].at \in 1..Len(src)
           /\ chan[R][1].block = src[chan[R][1].at] /\ src[chan[R][1].at] # Hole
           /\ dst' = [dst EXCEPT ![chan[R][1].at] = src[chan[R][1].at]]
           /\ dst \in Files /\ dst' \in Files /\ Len(dst') = Len(dst)
           /\ chan[R][1].at \in 1..Len(dst)
           /\ \A j \in 1..Len(dst) :
                 dst'[j] = IF j = chan[R][1].at THEN src[j] ELSE dst[j]
<1> DEFINE msg == chan[R][1]
<1>1. /\ msg \in Packet /\ msg.type = "DATA" /\ pc[R] = "receive" /\ pc' = pc
      /\ dst' = [dst EXCEPT ![msg.at] = msg.block]
  BY TakenFacts DEF ReceiveData, R, Arrived
<1>2. src # Missing /\ dst # Missing /\ Len(dst) = Len(Base)
  BY <1>1 DEF Exists, Placed
<1>3. msg.at \in Nat \ {0} /\ msg.block \in Block
  BY <1>1, PacketFacts
<1>4. msg.at <= Len(src) /\ msg.block = src[msg.at] /\ msg.block # Hole
  BY <1>1, TakenFacts DEF Stream
<1>5. Len(src) \in Nat /\ Len(src) <= Len(Base)
  BY <1>2, BaseFacts, Lengths
<1>6. dst \in Files
  BY <1>2 DEF TypeOK
<1>7. dst \in Seq(Block) /\ Len(dst) \in Nat /\ Len(dst) <= MaxBlocks
  BY <1>6, FileFacts
<1>8. msg.at \in 1..Len(src) /\ msg.at \in 1..Len(dst)
  BY <1>2, <1>3, <1>4, <1>5, <1>7
<1>9. /\ dst' \in Seq(Block) /\ Len(dst') = Len(dst)
      /\ \A j \in 1..Len(dst) : dst'[j] = IF j = msg.at THEN msg.block ELSE dst[j]
  BY <1>1, <1>3, <1>7, <1>8, ExceptSeq
<1>10. dst' \in Files
  BY <1>7, <1>9, FileIsSeq
<1>11. QED
  BY <1>1, <1>2, <1>4, <1>6, <1>8, <1>9, <1>10

LEMMA DstType ==
    ASSUME TypeOK, Handshake, Exists, AtBlock, Stream, Placed, Steady, Move
    PROVE  dst' \in Files \cup {Missing}
<1>1. CASE Opens
  BY <1>1, NoBlocks DEF Opens, Created, TypeOK
<1>2. CASE SizeFile
  <2>1. pc[R] = "size" /\ dst' = IF Size(src) > 0 THEN Resize(dst, Size(src)) ELSE dst
    BY <1>2 DEF SizeFile, R
  <2>2. dst = Created(old) /\ src # Missing
    BY <2>1 DEF Placed, Exists
  <2>3. QED
    BY <2>1, <2>2, BaseFacts
<1>3. CASE Taken /\ ReceiveData
  BY <1>3, PutFacts
<1>4. ASSUME dst' = dst PROVE dst' \in Files \cup {Missing}
  BY <1>4 DEF TypeOK
<1>5. QED
  BY <1>1, <1>2, <1>3, <1>4 DEF Move, Flips, Asks, Admits, Heads, Finds, Offers,
     Grants, Starts, ReadBlock, PackBlock, Sends, Finishes, ReceiveBlank, ReceiveEnd, Stops,
     Still, transferVars

LEMMA TypeStep ==
    ASSUME TypeOK, Handshake, Exists, AtBlock, Stream, EndComes, Count, Placed, [Next]_vars
    PROVE  TypeOK'
<1>1. Steady /\ Move
  BY StepIsSteady, StepIsMove
<1>2. op' \in {"put", "get"} /\ src' \in Files \cup {Missing} /\ old' \in Files \cup {Missing}
  BY <1>1 DEF Steady, TypeOK
<1>3. dst' \in Files \cup {Missing} /\ chan' \in Channels /\ hash' \in [Processes -> Files]
  BY <1>1, DstType, ChannelType, HashType
<1>4. pc' \in [Processes -> Pc]
  BY DEF TypeOK, Goto, Pc, Reading, Ended, Next, Step, ClientStep, ServerStep, SenderStep,
         ReceiverStep, OpenClientFile, SendRequest, ReadRequest, OpenServerFile, ReadHead,
         SizeFile, ReadResponse, ReadRefusal, ReadBlock, PackBlock, SendBlock, SendEnd,
         ReceiveData, ReceiveBlank, ReceiveEnd, FlipSwitch, Fault, Spin, ConnectionReset, vars
<1>5. switch' \in [Processes -> BOOLEAN]
  <2>1. ReadRequest => Head(chan["server"]).verify \in BOOLEAN
    <3> SUFFICES ASSUME ReadRequest PROVE Head(chan["server"]).verify \in BOOLEAN
      OBVIOUS
    <3>1. chan["server"] \in Seq(Packet) /\ chan["server"] # <<>>
          /\ Head(chan["server"]).type = "REQUEST"
      BY DEF ReadRequest, Arrived, TypeOK, Processes
    <3>2. Head(chan["server"]) \in Packet
      BY <3>1, HeadTailProperties
    <3>3. QED
      BY <3>1, <3>2, PacketFacts
  <2>2. QED
    BY <2>1
       DEF TypeOK, Next, Step, ClientStep, ServerStep, SenderStep,
         ReceiverStep, OpenClientFile, SendRequest, ReadRequest, OpenServerFile, ReadHead,
         SizeFile, ReadResponse, ReadRefusal, ReadBlock, PackBlock, SendBlock, SendEnd,
         ReceiveData, ReceiveBlank, ReceiveEnd, FlipSwitch, Fault, Spin, ConnectionReset, vars
<1>6. offset' \in 0..MaxBlocks /\ packed' \in Packed
  <2>1. CASE PackBlock
    <3>1. pc[S] = "pack" /\ src \in Files
      BY <2>1 DEF PackBlock, S, Exists, Silent, Off, TypeOK
    <3>2. Len(src) \in Nat /\ Len(src) <= MaxBlocks /\ offset <= Len(src)
      BY <3>1, FileFacts DEF AtBlock, Sending
    <3>3. offset' \in 0..MaxBlocks
      BY <2>1, <3>2, NetCopyAssumption DEF PackBlock, AtEnd, TypeOK
    <3>4. switch[Sender] \in BOOLEAN
      BY Ends DEF S, TypeOK
    <3>5. packed' \in Packed
      BY <2>1, <3>4 DEF PackBlock, Packed
    <3>6. QED
      BY <3>3, <3>5
  <2>2. ASSUME UNCHANGED <<offset, packed>> PROVE offset' \in 0..MaxBlocks /\ packed' \in Packed
    BY <2>2 DEF TypeOK
  <2>3. QED
    BY <1>1, <2>1, <2>2 DEF Move, Flips, Opens, Asks, Admits, Heads, SizeFile, Finds, Offers,
       Grants, Starts, ReadBlock, Sends, Finishes, ReceiveData, ReceiveBlank, ReceiveEnd,
       Stops, Still, transferVars
<1>7. verified' \in {"no", "match", "mismatch"}
  BY <1>1 DEF TypeOK, Move, Flips, Opens, Asks, Admits, Heads, SizeFile, Finds, Offers,
     Grants, Starts, ReadBlock, PackBlock, Sends, Finishes, ReceiveData, ReceiveBlank,
     ReceiveEnd, Stops, Still, transferVars
<1>8. upset' \in BOOLEAN
  BY DEF TypeOK, Next, Step, ClientStep, ServerStep, SenderStep,
         ReceiverStep, OpenClientFile, SendRequest, ReadRequest, OpenServerFile, ReadHead,
         SizeFile, ReadResponse, ReadRefusal, ReadBlock, PackBlock, SendBlock, SendEnd,
         ReceiveData, ReceiveBlank, ReceiveEnd, FlipSwitch, Fault, Spin, ConnectionReset,
         vars, transferVars
<1>9. QED
  BY <1>2, <1>3, <1>4, <1>5, <1>6, <1>7, <1>8 DEF TypeOK, Channels

-----------------------------------------------------------------------------
(* The destination gets every block that is not a hole.                    *)

LEMMA BaseIsFixed == ASSUME Steady PROVE Base' = Base
  BY DEF Steady, Base, Copy!Sized, Copy!Created, Copy!Resize

LEMMA PlacedStep ==
    ASSUME TypeOK, Handshake, Exists, AtBlock, Stream, Placed, Steady, Move
    PROVE  Placed'
<1> USE Ends DEF Steady, Off, Still, Silence, SenderAt, ReceiverAt
<1>1. Base' = Base
  BY BaseIsFixed
<1>2. ASSUME dst' = dst, \/ pc'[R] = pc[R]
                         \/ pc'[R] \in {"ok"} \cup Off
                         \/ pc[R] = "request" /\ pc'[R] = "open"
                         \/ pc[R] \in {"ask", "head"} /\ pc'[R] \in {"head", "size"}
      PROVE  Placed'
  <2>1. CASE pc'[R] = "receive"
    BY <1>1, <1>2, <2>1 DEF Placed
  <2>2. CASE pc'[R] # "receive"
    BY <1>2, <2>2 DEF Placed, Created
  <2>3. QED
    BY <2>1, <2>2
<1>3. CASE Opens
  BY <1>3 DEF Opens, Placed, Created
<1>4. CASE SizeFile
  <2>1. pc[R] = "size" /\ pc'[R] = "receive"
        /\ dst' = IF Size(src) > 0 THEN Resize(dst, Size(src)) ELSE dst
    BY <1>4 DEF SizeFile, R, Goto, TypeOK
  <2>2. src # Missing /\ dst = Created(old)
    BY <2>1 DEF Exists, Placed
  <2>3. dst' = Base /\ dst' # Missing
    BY <2>1, <2>2, BaseFacts, FileFacts
  <2>4. QED
    BY <1>1, <2>1, <2>3 DEF Placed
<1>5. CASE Taken /\ ReceiveData
  <2>1. \A j \in 1..Len(dst) :
          dst'[j] = Base[j] \/ (j <= Len(src) /\ src[j] # Hole /\ dst'[j] = src[j])
    <3>1. chan[R][1].at <= Len(src)
      BY <1>5, PutFacts, Lengths
    <3>2. QED
      BY <1>5, <3>1, PutFacts DEF Placed
  <2>2. pc[R] = "receive" /\ pc' = pc /\ dst' # Missing /\ Len(dst') = Len(Base)
        /\ Len(dst') = Len(dst)
    BY <1>5, PutFacts, FileFacts DEF Placed
  <2>3. QED
    BY <1>1, <2>1, <2>2 DEF Placed
<1>6. CASE Flips \/ Asks \/ Admits \/ Heads
  BY <1>2, <1>6 DEF Flips, Asks, Admits, Heads
<1>7. CASE Finds \/ Offers \/ Grants \/ Starts
  BY <1>2, <1>7 DEF Finds, Offers, Grants, Starts
<1>8. CASE ReadBlock \/ PackBlock
  BY <1>2, <1>8 DEF ReadBlock, PackBlock, Goto, S, TypeOK
<1>9. CASE Sends \/ Finishes
  BY <1>2, <1>9 DEF Sends, Finishes
<1>10. CASE Taken /\ (ReceiveBlank \/ ReceiveEnd)
  BY <1>2, <1>10 DEF ReceiveBlank, ReceiveEnd, Goto, R, TypeOK
<1>11. ASSUME NEW p \in Processes, Stops(p) PROVE Placed'
  BY <1>2, <1>11 DEF Stops, Others
<1>12. QED
  BY <1>3, <1>4, <1>5, <1>6, <1>7, <1>8, <1>9, <1>10, <1>11 DEF Move

LEMMA WayTaken ==
    ASSUME TypeOK, Steady, Taken, NEW i,
           ~(chan[R][1].type = "DATA" /\ chan[R][1].at = i), OnItsWay(i)
    PROVE  OnItsWay(i)'
<1>1. PICK k \in 1..Len(chan[R]) : chan[R][k].type = "DATA" /\ chan[R][k].at = i
  BY DEF OnItsWay
<1>2. k - 1 \in 1..Len(chan'[R]) /\ chan'[R][k - 1] = chan[R][(k - 1) + 1] /\ (k - 1) + 1 = k
  <2>1. k # 1
    BY <1>1
  <2>2. k - 1 \in 1..Len(chan'[R]) /\ (k - 1) + 1 = k
    BY <1>1, <2>1, TakenFacts
  <2>3. QED
    BY <2>2, TakenFacts
<1>3. QED
  BY <1>1, <1>2 DEF OnItsWay, Steady

LEMMA WaySaid ==
    ASSUME TypeOK, Steady, NEW m, chan'[R] = Append(chan[R], m), NEW i,
           OnItsWay(i) \/ (m.type = "DATA" /\ m.at = i)
    PROVE  OnItsWay(i)'
<1>1. CASE m.type = "DATA" /\ m.at = i
  <2>1. Len(chan'[R]) \in 1..Len(chan'[R]) /\ chan'[R][Len(chan'[R])] = m
    BY SaidFacts
  <2>2. QED
    BY <1>1, <2>1 DEF OnItsWay, Steady
<1>2. CASE OnItsWay(i)
  <2>1. PICK k \in 1..Len(chan[R]) : chan[R][k].type = "DATA" /\ chan[R][k].at = i
    BY <1>2 DEF OnItsWay
  <2>2. k \in 1..Len(chan'[R]) /\ chan'[R][k] = chan[R][k]
    BY <2>1, SaidFacts
  <2>3. QED
    BY <2>1, <2>2 DEF OnItsWay, Steady
<1>3. QED
  BY <1>1, <1>2

LEMMA NoneLostStep ==
    ASSUME TypeOK, Handshake, Exists, AtBlock, Stream, Placed, NoneLost, Steady, Move
    PROVE  NoneLost'
<1> USE Ends DEF Steady, Off, Still, Silence, SenderAt, ReceiverAt, Busy, Ended
<1>1. SUFFICES ASSUME Busy(R)', pc'[S] \in Sending, NEW i \in 1..Len(src), i <= Sent',
                      src[i] # Hole
               PROVE  OnItsWay(i)' \/ (pc'[R] = "receive" /\ dst'[i] = src[i])
  BY DEF NoneLost
<1> DEFINE Safe == OnItsWay(i) \/ (pc[R] = "receive" /\ dst[i] = src[i])
<1>2. Busy(R) /\ pc[S] \in Sending /\ i <= Sent => Safe
  BY <1>1 DEF NoneLost
<1>3. ASSUME Silence PROVE OnItsWay(i) => OnItsWay(i)'
  BY <1>3 DEF OnItsWay
<1>4. CASE Flips \/ Asks
  BY <1>1, <1>2, <1>3, <1>4 DEF Flips, Asks, Sent
<1>5. CASE Opens
  BY <1>1, <1>2, <1>3, <1>5 DEF Opens, Sent
<1>6. CASE Admits \/ Heads
  <2>1. OnItsWay(i)
    BY <1>1, <1>2, <1>6 DEF Admits, Heads, Sent
  <2>2. QED
    BY <1>6, <2>1, WayTaken DEF Admits, Heads
<1>7. CASE SizeFile
  <2>1. pc[R] = "size" /\ pc'[S] = pc[S] /\ chan' = chan /\ offset' = offset /\ packed' = packed
    BY <1>7 DEF SizeFile, R, Goto, TypeOK, transferVars
  <2>2. OnItsWay(i)
    BY <1>1, <1>2, <2>1 DEF Sent
  <2>3. QED
    BY <1>3, <2>1, <2>2
<1>8. CASE Finds \/ Offers \/ Grants
  BY <1>1, <1>8 DEF Finds, Offers, Grants, Sending
<1>9. CASE Starts
  <2>1. Sent' = 0
    BY <1>9 DEF Starts, Sent, Handshake, Sending
  <2>2. QED
    BY <1>1, <2>1
<1>10. CASE ReadBlock
  <2>1. pc[S] = "read" /\ pc'[S] = "pack" /\ pc'[R] = pc[R] /\ chan' = chan /\ dst' = dst
        /\ offset' = offset
    BY <1>10 DEF ReadBlock, S, Goto, TypeOK
  <2>2. QED
    BY <1>1, <1>2, <1>3, <2>1 DEF Sent, Sending
<1>11. CASE PackBlock
  <2>1. /\ pc[S] = "pack" /\ pc'[S] = "send" /\ pc'[R] = pc[R] /\ chan' = chan /\ dst' = dst
        /\ offset' = IF AtEnd THEN offset ELSE offset + 1
        /\ packed'.kind = "end" <=> AtEnd
    BY <1>11 DEF PackBlock, S, Goto, TypeOK
  <2>2. Sent' = Sent
    BY <2>1, Lengths DEF Sent
  <2>3. QED
    BY <1>1, <1>2, <1>3, <2>1, <2>2 DEF Sending
<1>12. CASE Sends
  <2>1. pc[S] = "send" /\ packed.kind # "end" /\ pc'[R] = pc[R] /\ dst' = dst
        /\ Sent = offset - 1 /\ Sent' = offset /\ offset \in Nat
    BY <1>12, Lengths DEF Sends, Sent
  <2>2. \/ Silence
        \/ \E m : chan'[R] = Append(chan[R], m)
    BY <1>12 DEF Sends
  <2>3. OnItsWay(i) => OnItsWay(i)'
    BY <1>3, <2>2, WaySaid
  <2>4. CASE i = offset
    <3>1. packed.kind = "data"
      BY <1>1, <2>1, <2>4 DEF AtBlock
    <3>2. chan'[R] = Append(chan[R], [type |-> "DATA", at |-> offset, block |-> src[offset]])
      BY <1>12, <3>1 DEF Sends
    <3>3. QED
      BY <2>4, <3>2, WaySaid
  <2>5. CASE i # offset
    <3>1. i <= Sent
      BY <1>1, <2>1, <2>5
    <3>2. Safe
      BY <1>1, <1>2, <2>1, <3>1 DEF Sending
    <3>3. QED
      BY <2>1, <2>3, <3>2
  <2>6. QED
    BY <2>4, <2>5
<1>13. CASE Finishes
  <2>1. pc[S] = "send" /\ Sent = Len(src) /\ pc'[R] = pc[R] /\ dst' = dst
    BY <1>13 DEF Finishes, Sent, AtBlock
  <2>2. Safe
    BY <1>1, <1>2, <2>1 DEF Sending
  <2>3. OnItsWay(i) => OnItsWay(i)'
    BY <1>13, WaySaid DEF Finishes
  <2>4. QED
    BY <2>1, <2>2, <2>3
<1>14. CASE Taken /\ ReceiveData
  <2>1. pc[R] = "receive" /\ pc' = pc /\ Sent' = Sent
    BY <1>14, PutFacts DEF ReceiveData, Sent
  <2>2. Safe
    BY <1>1, <1>2, <2>1
  <2>3. i \in 1..Len(dst)
    <3>1. src # Missing /\ Len(dst) = Len(Base)
      BY <1>14, PutFacts DEF Placed
    <3>2. Len(src) \in Nat /\ Len(Base) \in Nat /\ Len(src) <= Len(Base)
      BY <3>1, BaseFacts, FileFacts, Lengths
    <3>3. QED
      BY <3>1, <3>2
  <2>4. CASE i = chan[R][1].at
    BY <1>14, <2>1, <2>3, <2>4, PutFacts
  <2>5. CASE i # chan[R][1].at /\ dst[i] = src[i]
    BY <1>14, <2>1, <2>3, <2>5, PutFacts
  <2>6. CASE i # chan[R][1].at /\ OnItsWay(i)
    BY <1>14, <2>6, WayTaken
  <2>7. QED
    BY <2>2, <2>4, <2>5, <2>6
<1>15. CASE Taken /\ ReceiveBlank
  <2>1. pc' = pc /\ dst' = dst /\ Sent' = Sent /\ chan[R][1].type = "BLANK"
    BY <1>15, TakenFacts DEF ReceiveBlank, Sent, R, Arrived
  <2>2. Safe
    BY <1>1, <1>2, <2>1
  <2>3. QED
    BY <1>15, <2>1, <2>2, WayTaken
<1>16. CASE Taken /\ ReceiveEnd
  BY <1>1, <1>16 DEF ReceiveEnd, R, Goto, TypeOK
<1>17. ASSUME NEW p \in Processes, Stops(p) PROVE FALSE
  BY <1>1, <1>17 DEF Stops, Others, Sending
<1>18. QED
  BY <1>4, <1>5, <1>6, <1>7, <1>8, <1>9, <1>10, <1>11, <1>12, <1>13, <1>14, <1>15, <1>16,
     <1>17 DEF Move

LEMMA CopiedFacts ==
    ASSUME TypeOK, src # Missing, NEW f \in Files, Len(f) = Len(Base),
           \A i \in 1..Len(f) :
               f[i] = IF i <= Len(src) /\ src[i] # Hole THEN src[i] ELSE Base[i]
    PROVE  f = Copy!Copied(src, old)
<1>1. DOMAIN f = 1..Len(f) /\ f = [i \in 1..Len(f) |-> f[i]]
  BY FileFacts DEF Files
<1>2. Copy!Copied(src, old) =
        [i \in 1..Len(Base) |-> IF i <= Len(src) /\ src[i] # Hole THEN src[i] ELSE Base[i]]
  BY DEF Copy!Copied, Base
<1>3. QED
  BY <1>1, <1>2

LEMMA CompleteStep ==
    ASSUME TypeOK, Handshake, Exists, AtBlock, Stream, Placed, NoneLost, Complete, Steady, Move
    PROVE  Complete'
<1> USE Ends DEF Steady, Off, Still, SenderAt, ReceiverAt, Busy, Ended
<1>1. ASSUME dst' = dst, pc'[R] = "ok" => pc[R] = "ok", pc[S] = "ok" => pc'[S] = "ok"
      PROVE  Complete'
  BY <1>1 DEF Complete, Copy!Copied, Copy!Sized, Copy!Created, Copy!Resize
<1>2. ASSUME pc'[R] # "ok" PROVE Complete'
  BY <1>2 DEF Complete
<1>3. CASE Taken /\ ReceiveEnd
  <2>1. pc[R] = "receive" /\ chan[R][1].type = "END" /\ dst' = dst /\ pc'[S] = pc[S]
    BY <1>3, TakenFacts DEF ReceiveEnd, R, Arrived, Goto, TypeOK
  <2>2. Len(chan[R]) = 1 /\ pc[S] = "ok" /\ src # Missing /\ dst \in Files
        /\ Len(dst) = Len(Base)
    <3>1. 1 \in 1..Len(chan[R])
      BY <1>3, TakenFacts
    <3>2. Len(chan[R]) = 1 /\ pc[S] = "ok"
      BY <2>1, <3>1 DEF Stream
    <3>3. src # Missing /\ dst \in Files /\ Len(dst) = Len(Base)
      BY <2>1 DEF Exists, Placed, TypeOK
    <3>4. QED
      BY <3>2, <3>3
  <2>3. \A i \in 1..Len(src) : ~OnItsWay(i)
    BY <2>1, <2>2 DEF OnItsWay
  <2>4. Sent = Len(src) + 1 /\ Len(src) \in Nat
    BY <2>2, Lengths DEF Sent
  <2>5. \A i \in 1..Len(src) : src[i] # Hole => dst[i] = src[i]
    BY <2>1, <2>2, <2>3, <2>4 DEF NoneLost, Sending
  <2>6. \A i \in 1..Len(dst) :
            dst[i] = IF i <= Len(src) /\ src[i] # Hole THEN src[i] ELSE Base[i]
    BY <2>1, <2>4, <2>5 DEF Placed
  <2>7. dst = Copy!Copied(src, old)
    BY <2>2, <2>6, CopiedFacts
  <2>8. QED
    BY <2>1, <2>2, <2>7 DEF Complete, Copy!Copied, Copy!Sized, Copy!Created, Copy!Resize
<1>4. CASE Opens \/ Asks \/ Admits \/ Heads
  BY <1>2, <1>4 DEF Opens, Asks, Admits, Heads
<1>5. CASE SizeFile
  BY <1>2, <1>5 DEF SizeFile, R, Goto, TypeOK
<1>6. CASE Flips \/ Finds \/ Offers \/ Grants \/ Starts \/ Sends \/ Finishes
  BY <1>1, <1>6 DEF Flips, Finds, Offers, Grants, Starts, Sends, Finishes
<1>7. CASE ReadBlock \/ PackBlock
  BY <1>1, <1>7 DEF ReadBlock, PackBlock, Goto, S, TypeOK
<1>8. CASE Taken /\ (ReceiveData \/ ReceiveBlank)
  BY <1>2, <1>8 DEF ReceiveData, ReceiveBlank, R
<1>9. ASSUME NEW p \in Processes, Stops(p) PROVE Complete'
  BY <1>1, <1>9 DEF Stops, Others
<1>10. QED
  BY <1>3, <1>4, <1>5, <1>6, <1>7, <1>8, <1>9 DEF Move

-----------------------------------------------------------------------------
(* The MD5 check.                                                          *)

\* Both ends keep the switch on from the moment the request has been read.
LEMMA SwitchStep ==
    ASSUME TypeOK, Handshake, Exists, AtBlock, SwitchOn, [Next]_vars
    PROVE  SwitchOn'
<1> SUFFICES ASSUME ~upset' PROVE SwitchOn'
  BY DEF SwitchOn
<1> DEFINE Asked(q) == \A k \in 1..Len(q) : q[k].type = "REQUEST" => q[k].verify
<1>1. ~upset
  BY StepIsSteady DEF Steady
<1>2. switch["client"] /\ Asked(chan["server"])
      /\ (pc["server"] \notin {"request"} \cup Off => switch["server"])
  BY <1>1 DEF SwitchOn
<1>3. /\ chan["server"] \in Seq(Packet) /\ chan \in Channels
      /\ pc \in [Processes -> Pc] /\ switch \in [Processes -> BOOLEAN]
      /\ "client" \in Processes /\ "server" \in Processes
      /\ Peer("client") = "server" /\ Peer("server") = "client"
  BY DEF TypeOK, Channels, Processes, Peer
<1>4. Asked(chan'["server"])
  <2>1. ASSUME NEW q \in Seq(Packet), Asked(q), q # <<>> PROVE Asked(Tail(q))
    <3>1. Tail(q) \in Seq(Packet) /\ Len(Tail(q)) = Len(q) - 1 /\ Len(q) \in Nat
          /\ \A k \in 1..Len(Tail(q)) : Tail(q)[k] = q[k + 1]
      BY <2>1, HeadTailProperties, LenProperties
    <3>2. QED
      BY <2>1, <3>1
  <2>2. ASSUME NEW q \in Seq(Packet), NEW r \in Seq(Packet), Asked(q), Asked(r)
        PROVE  Asked(q \o r)
    <3>1. Len(q) \in Nat /\ Len(r) \in Nat /\ Len(q \o r) = Len(q) + Len(r)
          /\ \A k \in 1..Len(q) + Len(r) :
                (q \o r)[k] = IF k <= Len(q) THEN q[k] ELSE r[k - Len(q)]
      BY ConcatProperties, LenProperties
    <3>2. QED
      BY <2>2, <3>1
  <2>3. CASE chan' = chan
    BY <1>2, <2>3
  <2>4. ASSUME NEW p \in Processes, NEW pkts \in Seq(Packet), Talks(p, pkts)
        PROVE  Asked(chan'["server"])
    <3>1. Asked(pkts)
      BY <1>2, <2>4 DEF Talks
    <3>2. \/ chan'["server"] = chan["server"]
          \/ chan'["server"] = Tail(chan["server"]) /\ chan["server"] # <<>>
          \/ chan'["server"] = chan["server"] \o pkts
      BY <1>3, <2>4, SendFacts, TakeFacts DEF Talks, Processes, Peer
    <3>3. QED
      BY <1>2, <1>3, <2>1, <2>2, <3>1, <3>2
  <2>5. QED
    BY <2>3, <2>4, ChannelUse
<1>5. CASE ReadRequest
  <2>1. chan["server"] # <<>> /\ Head(chan["server"]).type = "REQUEST"
    BY <1>5 DEF ReadRequest, Arrived
  <2>2. Head(chan["server"]) = chan["server"][1] /\ 1 \in 1..Len(chan["server"])
    BY <1>3, <2>1, LenProperties, EmptySeq
  <2>3. Head(chan["server"]).verify
    BY <1>2, <2>1, <2>2
  <2>4. switch'["client"] /\ switch'["server"]
    BY <1>2, <1>3, <1>5, <2>3 DEF ReadRequest
  <2>5. QED
    BY <1>4, <2>4 DEF SwitchOn
<1>6. CASE ~ReadRequest
  <2>1. switch' = switch
    BY <1>1, <1>6
       DEF Next, Step, ClientStep, ServerStep, SenderStep, ReceiverStep, OpenClientFile,
         SendRequest, OpenServerFile, ReadHead, SizeFile, ReadResponse,
         ReadRefusal, ReadBlock, PackBlock, SendBlock, SendEnd, ReceiveData, ReceiveBlank,
         ReceiveEnd, FlipSwitch, Fault, Spin, ConnectionReset, vars
  <2>2. pc'["server"] \notin {"request"} \cup Off => pc["server"] \notin {"request"} \cup Off
    BY <1>1, <1>3, <1>6
       DEF Next, Step, ClientStep, ServerStep, SenderStep, ReceiverStep, OpenClientFile,
         SendRequest, OpenServerFile, ReadHead, SizeFile, ReadResponse,
         ReadRefusal, ReadBlock, PackBlock, SendBlock, SendEnd, ReceiveData, ReceiveBlank,
         ReceiveEnd, FlipSwitch, Fault, Spin, ConnectionReset, vars, Goto, Off, Ended
  <2>3. QED
    BY <1>2, <1>4, <2>1, <2>2 DEF SwitchOn
<1>7. QED
  BY <1>5, <1>6

LEMMA SwitchesOn ==
    ASSUME TypeOK, Handshake, SwitchOn, ~upset
    PROVE  /\ pc[S] \in Sending => switch[S]
           /\ pc[R] \in {"size", "receive"} => switch[R]
<1>1. (S = "client" /\ R = "server") \/ (S = "server" /\ R = "client")
  BY DEF S, R, Sender, Receiver
<1>2. QED
  BY <1>1 DEF SwitchOn, Sending, Off

LEMMA SenderHashStep ==
    ASSUME TypeOK, Handshake, Exists, AtBlock, SwitchOn, SenderHash, Steady, Move
    PROVE  SenderHash'
<1> USE Ends DEF Steady, Still, SenderAt, ReceiverAt, Off
<1> SUFFICES ASSUME ~upset' PROVE SenderHash'
  BY DEF SenderHash
<1>1. ~upset
  OBVIOUS
<1>2. ASSUME UNCHANGED <<offset, packed>>, hash'[S] = hash[S],
             pc'[S] \in {"read", "pack", "send"} => pc'[S] = pc[S]
      PROVE  SenderHash'
  BY <1>1, <1>2 DEF SenderHash, Begins, AtEnd
<1>3. CASE Flips \/ Opens \/ Asks \/ Admits \/ Heads
  BY <1>2, <1>3 DEF Flips, Opens, Asks, Admits, Heads
<1>4. CASE SizeFile
  BY <1>2, <1>4 DEF SizeFile, R, Goto, TypeOK, transferVars
<1>5. CASE Finds \/ Offers \/ Grants \/ Finishes
  BY <1>2, <1>5 DEF Finds, Offers, Grants, Finishes
<1>6. CASE Starts
  <2>1. hash[S] = <<>> /\ offset = 0 /\ pc'[S] = "read" /\ hash' = hash /\ offset' = offset
    BY <1>6 DEF Starts, Handshake, Sending
  <2>2. QED
    BY <2>1 DEF SenderHash, Begins
<1>7. CASE ReadBlock
  <2>1. pc[S] = "read" /\ pc'[S] = "pack" /\ switch[S] /\ src \in Files /\ offset' = offset
    BY <1>1, <1>7, SwitchesOn DEF ReadBlock, S, Goto, TypeOK, Sending, Exists, Silent
  <2>2. Begins(hash[S], offset) /\ offset \in Nat /\ offset <= Len(src) /\ Len(src) \in Nat
    BY <1>1, <2>1, Lengths, FileFacts DEF SenderHash, AtBlock, Sending
  <2>3. CASE AtEnd
    BY <1>7, <2>1, <2>2, <2>3 DEF ReadBlock, S, AtEnd, SenderHash, Begins
  <2>4. CASE ~AtEnd
    <3>1. src[offset + 1] \in Block /\ hash' = [hash EXCEPT ![S] = Append(@, src[offset + 1])]
      BY <1>7, <2>1, <2>2, <2>4, FileFacts DEF ReadBlock, S, AtEnd
    <3>2. /\ Len(hash'[S]) = Len(hash[S]) + 1
          /\ \A i \in 1..Len(hash[S]) : hash'[S][i] = hash[S][i]
          /\ hash'[S][Len(hash[S]) + 1] = src[offset + 1]
      BY <3>1, Appended
    <3>3. Len(hash[S]) = offset /\ \A i \in 1..offset : hash[S][i] = src[i]
      BY <2>2 DEF Begins
    <3>4. Len(hash'[S]) = offset + 1 /\ \A i \in 1..(offset + 1) : hash'[S][i] = src[i]
      BY <2>2, <3>2, <3>3
    <3>5. QED
      BY <2>1, <2>4, <3>4 DEF SenderHash, Begins, AtEnd
  <2>5. QED
    BY <2>3, <2>4
<1>8. CASE PackBlock
  <2>1. /\ pc[S] = "pack" /\ pc'[S] = "send" /\ hash' = hash
        /\ offset' = IF AtEnd THEN offset ELSE offset + 1
        /\ packed'.md5 = switch[S]
        /\ packed'.kind \in {"none", "blank"} => ~switch[S]
    BY <1>8 DEF PackBlock, S, Goto, TypeOK
  <2>2. switch[S]
    BY <1>1, <2>1, SwitchesOn DEF Sending
  <2>3. Begins(hash[S], offset')
    BY <1>1, <2>1 DEF SenderHash
  <2>4. QED
    BY <2>1, <2>2, <2>3 DEF SenderHash, Begins
<1>9. CASE Sends
  BY <1>1, <1>9 DEF Sends, SenderHash, Begins
<1>10. CASE Taken /\ (ReceiveData \/ ReceiveBlank \/ ReceiveEnd)
  BY <1>2, <1>10 DEF ReceiveData, ReceiveBlank, ReceiveEnd, R, Goto, TypeOK
<1>11. ASSUME NEW p \in Processes, Stops(p) PROVE SenderHash'
  BY <1>2, <1>11 DEF Stops, Others
<1>12. QED
  BY <1>3, <1>4, <1>5, <1>6, <1>7, <1>8, <1>9, <1>10, <1>11 DEF Move

LEMMA NumberedStep ==
    ASSUME TypeOK, Handshake, Exists, AtBlock, SwitchOn, SenderHash, Numbered, Steady, Move
    PROVE  Numbered'
<1> USE Ends DEF Steady, Still, Silence, SenderAt, ReceiverAt, Off, Busy, Ended
<1> SUFFICES ASSUME ~upset', pc'[S] \notin Off, Busy(R)', NEW k \in 1..Len(chan'[R])
             PROVE  Carries(chan'[R][k], Number(k)')
  BY DEF Numbered, Carries
<1>1. ~upset /\ Sent \in Nat /\ Len(chan[R]) \in Nat
  BY SentFacts, Lengths
<1>2. pc[S] \notin Off /\ Busy(R) =>
        \A j \in 1..Len(chan[R]) : Carries(chan[R][j], Number(j))
  BY <1>1 DEF Numbered
<1>3. ASSUME Silence, Sent' = Sent, pc[S] \notin Off, Busy(R)
      PROVE  Carries(chan'[R][k], Number(k)')
  BY <1>2, <1>3 DEF Number
<1>4. ASSUME Taken, Sent' = Sent, pc[S] \notin Off, Busy(R)
      PROVE  Carries(chan'[R][k], Number(k)')
  <2>1. k + 1 \in 1..Len(chan[R]) /\ chan'[R][k] = chan[R][k + 1]
        /\ Len(chan'[R]) = Len(chan[R]) - 1
    BY <1>4, TakenFacts
  <2>2. Number(k)' = Number(k + 1)
    <3>1. Sent - ((Len(chan[R]) - 1) - k) = Sent - (Len(chan[R]) - (k + 1))
      BY <1>1, <2>1
    <3>2. QED
      BY <1>4, <2>1, <3>1 DEF Number
  <2>3. QED
    BY <1>2, <1>4, <2>1, <2>2
<1>5. ASSUME NEW m, chan'[R] = Append(chan[R], m), Sent' = Sent + 1, Carries(m, Sent + 1),
             pc[S] \notin Off, Busy(R)
      PROVE  Carries(chan'[R][k], Number(k)')
  <2>1. Len(chan'[R]) = Len(chan[R]) + 1
    BY <1>5, SaidFacts
  <2>2. CASE k \in 1..Len(chan[R]) /\ chan'[R][k] = chan[R][k]
    <3>1. (Sent + 1) - ((Len(chan[R]) + 1) - k) = Sent - (Len(chan[R]) - k)
      BY <1>1, <2>2
    <3>2. Number(k)' = Number(k)
      BY <1>5, <2>1, <3>1 DEF Number
    <3>3. QED
      BY <1>2, <1>5, <2>2, <3>2
  <2>3. CASE k = Len(chan'[R]) /\ chan'[R][k] = m
    <3>1. (Sent + 1) - ((Len(chan[R]) + 1) - (Len(chan[R]) + 1)) = Sent + 1
      BY <1>1
    <3>2. Number(k)' = Sent + 1
      BY <1>5, <2>1, <2>3, <3>1 DEF Number
    <3>3. QED
      BY <1>5, <2>3, <3>2
  <2>4. QED
    BY <1>5, <2>2, <2>3, SaidFacts
<1>6. CASE Flips \/ Opens \/ Asks
  BY <1>3, <1>6 DEF Flips, Opens, Asks, Sent
<1>7. CASE Admits \/ Heads
  BY <1>4, <1>7 DEF Admits, Heads, Sent
<1>8. CASE SizeFile
  BY <1>3, <1>8 DEF SizeFile, R, Goto, TypeOK, transferVars, Sent
<1>9. CASE Finds \/ Starts
  BY <1>3, <1>9 DEF Finds, Starts, Sent
<1>10. CASE Offers
  <2>1. PICK b \in BOOLEAN :
          chan'[R] = chan[R] \o <<[type |-> "REQUEST", verify |-> b], Heading>>
    BY <1>10 DEF Offers
  <2>2. chan[R] = <<>> /\ offset = 0
    BY <1>10 DEF Offers, Handshake, Silent, Sending
  <2>3. chan'[R] = <<[type |-> "REQUEST", verify |-> b], Heading>>
    BY <2>1, <2>2
  <2>4. Len(chan'[R]) = 2 /\ chan'[R][k].type \notin {"DATA", "BLANK", "END"} /\ k \in {1, 2}
    BY <2>3 DEF Heading
  <2>5. Sent' = 0
    BY <1>10, <2>2 DEF Offers, Sent
  <2>6. Number(k)' <= 0
    BY <2>4, <2>5 DEF Number
  <2>7. QED
    BY <2>4, <2>6 DEF Carries
<1>11. CASE Grants
  <2>1. chan[R] = <<>> /\ offset = 0
    BY <1>11 DEF Grants, Handshake, Silent, Sending
  <2>2. Len(chan'[R]) = 1 /\ k = 1 /\ chan'[R][k] = Heading
    BY <1>11, <2>1, SaidFacts DEF Grants
  <2>3. Sent' = 0
    BY <1>11, <2>1 DEF Grants, Sent
  <2>4. Number(k)' = 0
    BY <2>2, <2>3 DEF Number
  <2>5. QED
    BY <2>2, <2>4 DEF Carries, Heading
<1>12. CASE ReadBlock
  <2>1. pc[S] = "read" /\ pc'[S] = "pack" /\ pc'[R] = pc[R] /\ chan' = chan /\ offset' = offset
    BY <1>12 DEF ReadBlock, S, Goto, TypeOK
  <2>2. QED
    BY <1>3, <2>1 DEF Sent
<1>13. CASE PackBlock
  <2>1. /\ pc[S] = "pack" /\ pc'[S] = "send" /\ pc'[R] = pc[R] /\ chan' = chan
        /\ offset' = IF AtEnd THEN offset ELSE offset + 1
        /\ packed'.kind = "end" <=> AtEnd
    BY <1>13 DEF PackBlock, S, Goto, TypeOK
  <2>2. Sent' = Sent
    BY <2>1, Lengths DEF Sent
  <2>3. QED
    BY <1>3, <2>1, <2>2
<1>14. CASE Sends
  <2>1. /\ pc[S] = "send" /\ pc'[R] = pc[R] /\ packed.kind \notin {"none", "end", "blank"}
        /\ packed.kind \in {"none", "data", "hole", "blank", "end"}
    BY <1>1, <1>14 DEF Sends, SenderHash, TypeOK, Packed
  <2>2. offset \in Nat \ {0} /\ offset \in 1..Len(src) /\ Sent + 1 = offset /\ Sent' = Sent + 1
    <3>1. src # Missing /\ Len(src) \in Nat /\ offset \in Nat
      BY <2>1, Lengths DEF Exists, Silent
    <3>2. offset > 0 /\ offset <= Len(src)
      BY <2>1 DEF AtBlock, Sending
    <3>3. Sent = offset - 1 /\ Sent' = offset
      BY <1>14, <2>1 DEF Sends, Sent
    <3>4. QED
      BY <3>1, <3>2, <3>3
  <2>3. CASE packed.kind = "data"
    <3> DEFINE m == [type |-> "DATA", at |-> offset, block |-> src[offset]]
    <3>1. Carries(m, Sent + 1) /\ chan'[R] = Append(chan[R], m)
      BY <1>14, <2>2, <2>3 DEF Sends, Carries
    <3>2. QED
      BY <1>5, <2>1, <2>2, <3>1
  <2>4. CASE packed.kind = "hole"
    <3> DEFINE m == [type |-> "BLANK"]
    <3>1. src[offset] = Hole
      BY <2>1, <2>4 DEF AtBlock
    <3>2. Carries(m, Sent + 1) /\ chan'[R] = Append(chan[R], m)
      BY <1>14, <2>2, <2>4, <3>1 DEF Sends, Carries
    <3>3. QED
      BY <1>5, <2>1, <2>2, <3>2
  <2>5. QED
    BY <2>1, <2>3, <2>4
<1>15. CASE Finishes
  <2> DEFINE m == [type |-> "END", md5 |-> IF switch[S] THEN hash[S] ELSE <<>>]
  <2>1. pc[S] = "send" /\ pc'[R] = pc[R] /\ chan'[R] = Append(chan[R], m) /\ Sent = Len(src)
        /\ Sent' = Sent + 1
    BY <1>15 DEF Finishes, Sent, AtBlock
  <2>2. switch[S] /\ Begins(hash[S], Len(src)) /\ src \in Files
    BY <1>1, <1>15, <2>1, SwitchesOn DEF Sending, SenderHash, AtBlock, Finishes, Exists,
       Silent, TypeOK
  <2>3. hash[S] = src
    BY <2>2, SeqEqual, FileFacts, Lengths DEF Begins
  <2>4. Carries(m, Sent + 1)
    BY <2>1, <2>2, <2>3 DEF Carries
  <2> HIDE DEF m
  <2>5. QED
    BY <1>5, <2>1, <2>4
<1>16. CASE Taken /\ (ReceiveData \/ ReceiveBlank)
  BY <1>4, <1>16 DEF ReceiveData, ReceiveBlank, Sent
<1>17. CASE Taken /\ ReceiveEnd
  BY <1>17 DEF ReceiveEnd, R, Goto, TypeOK
<1>18. ASSUME NEW p \in Processes, Stops(p) PROVE FALSE
  BY <1>18 DEF Stops, Others
<1>19. QED
  BY <1>6, <1>7, <1>8, <1>9, <1>10, <1>11, <1>12, <1>13, <1>14, <1>15, <1>16, <1>17, <1>18
     DEF Move

\* The receiver's MD5 is that of the blocks that have left the channel.
LEMMA ReceiverHashStep ==
    ASSUME TypeOK, Handshake, Exists, AtBlock, Count, SwitchOn, SenderHash, Numbered,
           ReceiverHash, Steady, Move
    PROVE  ReceiverHash'
<1> USE Ends DEF Steady, Still, Silence, SenderAt, ReceiverAt, Off
<1> SUFFICES ASSUME ~upset', pc'[S] \notin Off, pc'[R] \in {"size", "receive"}
             PROVE  Begins(hash[R], Sent - Len(chan[R]))'
  BY DEF ReceiverHash
<1>1. ~upset /\ Sent \in Nat /\ Len(chan[R]) \in Nat
      /\ Len(hash[R]) \in Nat
  BY SentFacts, Lengths
<1>2. ASSUME hash'[R] = hash[R], pc[S] \notin Off, pc[R] \in {"size", "receive"},
             Sent' - Len(chan[R])' = Sent - Len(chan[R])
      PROVE  Begins(hash[R], Sent - Len(chan[R]))'
  BY <1>1, <1>2 DEF ReceiverHash, Begins
<1>3. ASSUME Silence, Sent' = Sent PROVE Sent' - Len(chan[R])' = Sent - Len(chan[R])
  BY <1>3
<1>4. CASE Flips \/ Opens \/ Asks \/ Admits
  BY <1>2, <1>3, <1>4 DEF Flips, Opens, Asks, Admits, Sent
<1>5. CASE Heads
  <2>1. /\ pc[R] = "head" /\ pc[S] \notin Off /\ hash' = hash /\ hash[R] = <<>>
        /\ chan[R][1].type = "HEAD" /\ Taken /\ Sent' = Sent /\ Lead = 1
    BY <1>5 DEF Heads, Handshake, Sent, Lead
  <2>2. Len(chan[R]) > 0 /\ Len(chan'[R]) = Len(chan[R]) - 1
    BY <2>1, TakenFacts
  <2>3. Carries(chan[R][1], Number(1))
    BY <1>1, <2>1, <2>2 DEF Numbered, Busy, Ended
  <2>4. Number(1) <= 0
    BY <2>1, <2>3 DEF Carries
  <2>5. Len(chan[R]) <= Sent + 1
    BY <1>1, <2>1 DEF Count, Busy, Ended
  <2>6. Sent - (Len(chan[R]) - 1) = 0
    BY <1>1, <2>4, <2>5 DEF Number
  <2>7. QED
    BY <2>1, <2>2, <2>6 DEF Begins
<1>6. CASE SizeFile
  BY <1>2, <1>3, <1>6 DEF SizeFile, R, Goto, TypeOK, transferVars, Sent
<1>7. CASE Finds \/ Offers \/ Grants
  BY <1>7 DEF Finds, Offers, Grants, Handshake, Silent
<1>8. CASE Starts
  BY <1>2, <1>3, <1>8 DEF Starts, Sent
<1>9. CASE ReadBlock
  <2>1. pc[S] = "read" /\ pc'[S] = "pack" /\ pc'[R] = pc[R] /\ Silence /\ offset' = offset
        /\ hash'[R] = hash[R]
    BY <1>9 DEF ReadBlock, S, Goto, TypeOK
  <2>2. QED
    BY <1>2, <1>3, <2>1 DEF Sent
<1>10. CASE PackBlock
  <2>1. /\ pc[S] = "pack" /\ pc'[S] = "send" /\ pc'[R] = pc[R] /\ Silence /\ hash' = hash
        /\ offset' = IF AtEnd THEN offset ELSE offset + 1
        /\ packed'.kind = "end" <=> AtEnd
    BY <1>10 DEF PackBlock, S, Goto, TypeOK
  <2>2. Sent' = Sent
    BY <2>1, Lengths DEF Sent
  <2>3. QED
    BY <1>2, <1>3, <2>1, <2>2
<1>11. CASE Sends \/ Finishes
  <2>1. /\ pc[S] = "send" /\ pc'[R] = pc[R] /\ hash' = hash /\ offset' = offset
        /\ packed.kind \in {"data", "hole", "end"}
    BY <1>1, <1>11 DEF Sends, Finishes, SenderHash, TypeOK, Packed
  <2>2. Sent' = Sent + 1
    <3>1. src # Missing /\ Len(src) \in Nat /\ offset \in Nat
      BY <2>1, Lengths DEF Exists, Silent
    <3>2. packed.kind = "end" => offset = Len(src)
      BY <2>1 DEF AtBlock
    <3>3. QED
      BY <1>11, <2>1, <3>1, <3>2 DEF Sends, Finishes, Sent
  <2>3. Len(chan'[R]) = Len(chan[R]) + 1
    BY <1>11, <2>1, SaidFacts DEF Sends, Finishes
  <2>4. (Sent + 1) - (Len(chan[R]) + 1) = Sent - Len(chan[R])
    BY <1>1
  <2>5. QED
    BY <1>2, <2>1, <2>2, <2>3, <2>4
<1>12. CASE Taken /\ (ReceiveData \/ ReceiveBlank)
  <2> DEFINE n == Number(1)
             b == IF chan[R][1].type = "DATA" THEN chan[R][1].block ELSE Hole
  <2>1. /\ pc[R] = "receive" /\ pc' = pc /\ switch[R] /\ Sent' = Sent
        /\ (chan[R][1].type = "DATA" /\ ReceiveData) \/ (chan[R][1].type = "BLANK" /\ ReceiveBlank)
    BY <1>1, <1>12, SwitchesOn, TakenFacts DEF ReceiveData, ReceiveBlank, R, Arrived, Sent
  <2>2. hash' = [hash EXCEPT ![R] = Append(@, b)] /\ b \in Block
    BY <1>12, <2>1, TakenFacts, PacketFacts, NetCopyAssumption
       DEF ReceiveData, ReceiveBlank, R
  <2>3. Carries(chan[R][1], n)
    BY <1>1, <1>12, <2>1, TakenFacts DEF Numbered, Busy, Ended
  <2>4. n \in 1..Len(src) /\ src[n] = b
    BY <2>1, <2>3 DEF Carries
  <2>5. n = Sent - (Len(chan[R]) - 1) /\ n \in Int
    BY <1>1 DEF Number
  <2>6. Sent - Len(chan[R]) = n - 1 /\ Sent - (Len(chan[R]) - 1) = n
    <3>1. Sent - Len(chan[R]) = (Sent - (Len(chan[R]) - 1)) - 1
      BY <1>1
    <3>2. QED
      BY <2>5, <3>1
  <2>7. Begins(hash[R], n - 1)
    BY <1>1, <2>1, <2>6 DEF ReceiverHash
  <2> HIDE DEF b, n
  <2>8. /\ Len(hash'[R]) = Len(hash[R]) + 1
        /\ \A i \in 1..Len(hash[R]) : hash'[R][i] = hash[R][i]
        /\ hash'[R][Len(hash[R]) + 1] = b
    <3>1. hash'[R] = Append(hash[R], b) /\ hash[R] \in Seq(Block)
      BY <2>2, Lengths DEF TypeOK
    <3>2. QED
      BY <2>2, <3>1, LenProperties, AppendProperties
  <2>9. Len(hash'[R]) = n /\ \A i \in 1..n : hash'[R][i] = src[i]
    BY <2>4, <2>5, <2>7, <2>8 DEF Begins
  <2>10. Sent' - Len(chan'[R]) = n
    BY <1>12, <2>1, <2>6, TakenFacts
  <2>11. QED
    BY <2>9, <2>10 DEF Begins
<1>13. CASE Taken /\ ReceiveEnd
  BY <1>13 DEF ReceiveEnd, R, Goto, TypeOK
<1>14. ASSUME NEW p \in Processes, Stops(p) PROVE FALSE
  BY <1>14 DEF Stops, Others
<1>15. QED
  BY <1>4, <1>5, <1>6, <1>7, <1>8, <1>9, <1>10, <1>11, <1>12, <1>13, <1>14 DEF Move

\* Undisturbed, the receiver finds the MD5 of the source in the END, and has the same.
LEMMA CheckStep ==
    ASSUME TypeOK, Handshake, Exists, AtBlock, Stream, SwitchOn, Numbered, ReceiverHash,
           CheckIsTrue, Steady, Move
    PROVE  CheckIsTrue'
<1> USE Ends DEF Steady, Still, SenderAt, ReceiverAt, Off
<1>1. ASSUME verified' = verified, pc'[R] = "ok" => pc[R] = "ok" PROVE CheckIsTrue'
  BY <1>1 DEF CheckIsTrue, NoFalseAlarm, SuccessIsVerified, R
<1>2. CASE Flips \/ Opens \/ Asks \/ Admits \/ Heads
  BY <1>1, <1>2 DEF Flips, Opens, Asks, Admits, Heads
<1>3. CASE Finds \/ Offers \/ Grants \/ Starts \/ Sends \/ Finishes
  BY <1>1, <1>3 DEF Finds, Offers, Grants, Starts, Sends, Finishes
<1>4. CASE SizeFile \/ ReadBlock \/ PackBlock
  BY <1>1, <1>4 DEF SizeFile, ReadBlock, PackBlock, S, R, Goto, TypeOK, transferVars
<1>5. CASE Taken /\ (ReceiveData \/ ReceiveBlank)
  BY <1>1, <1>5 DEF ReceiveData, ReceiveBlank
<1>6. CASE Taken /\ ReceiveEnd
  <2>1. pc[R] = "receive" /\ chan[R][1].type = "END" /\ upset' = upset
    BY <1>6, TakenFacts DEF ReceiveEnd, R, Arrived
  <2>2. CASE upset
    BY <2>1, <2>2 DEF CheckIsTrue, NoFalseAlarm, SuccessIsVerified
  <2>3. CASE ~upset
    <3>1. Len(chan[R]) = 1 /\ pc[S] = "ok" /\ src \in Files /\ Len(src) \in Nat
      <4>1. 1 \in 1..Len(chan[R])
        BY <1>6, TakenFacts
      <4>2. Len(chan[R]) = 1 /\ pc[S] = "ok"
        BY <2>1, <4>1 DEF Stream
      <4>3. src \in Files /\ Len(src) \in Nat
        BY <2>1, Lengths DEF Exists, TypeOK
      <4>4. QED
        BY <4>2, <4>3
    <3>2. Sent = Len(src) + 1
      BY <3>1 DEF Sent
    <3>3. Carries(chan[R][1], Number(1))
      BY <2>1, <2>3, <3>1 DEF Numbered, Busy, Ended
    <3>4. chan[R][1].md5 = src
      BY <2>1, <3>3 DEF Carries
    <3>5. Begins(hash[R], Len(src))
      <4>1. Sent - Len(chan[R]) = Len(src)
        BY <3>1, <3>2
      <4>2. QED
        BY <2>1, <2>3, <3>1, <4>1 DEF ReceiverHash
    <3>6. hash[R] = src
      BY <3>1, <3>5, SeqEqual, FileFacts, Lengths DEF Begins
    <3>7. verified' = "match"
      BY <1>6, <2>1, <2>3, <3>4, <3>6, SwitchesOn, TakenFacts DEF ReceiveEnd, R
    <3>8. QED
      BY <3>7 DEF CheckIsTrue, NoFalseAlarm, SuccessIsVerified
  <2>4. QED
    BY <2>2, <2>3
<1>7. ASSUME NEW p \in Processes, Stops(p) PROVE CheckIsTrue'
  BY <1>1, <1>7 DEF Stops, Others
<1>8. QED
  BY <1>2, <1>3, <1>4, <1>5, <1>6, <1>7 DEF Move

\* A side that has failed stays so, and one that ended well leaves its peer something to read.
LEMMA StuckStep ==
    ASSUME TypeOK, EndComes, Complete, StuckOnlyByFailure, Steady, Move
    PROVE  StuckOnlyByFailure'
<1> USE Ends DEF Steady, Off
<1>1. ASSUME \A p \in Processes : pc[p] = "failed" => pc'[p] = "failed",
             \A p \in Processes : pc'[p] = "stuck" => pc[p] = "stuck"
      PROVE  StuckOnlyByFailure'
  BY <1>1 DEF StuckOnlyByFailure, Peer, Processes
<1>2. CASE Flips \/ Opens \/ Asks \/ Admits \/ Heads
  BY <1>1, <1>2 DEF Flips, Opens, Asks, Admits, Heads, ReceiverAt
<1>3. CASE Finds \/ Offers \/ Grants \/ Starts \/ Sends \/ Finishes
  BY <1>1, <1>3 DEF Finds, Offers, Grants, Starts, Sends, Finishes, SenderAt
<1>4. CASE SizeFile \/ ReadBlock \/ PackBlock
  BY <1>1, <1>4 DEF SizeFile, ReadBlock, PackBlock, S, R, Goto, TypeOK
<1>5. CASE Taken /\ (ReceiveData \/ ReceiveBlank \/ ReceiveEnd)
  BY <1>1, <1>5 DEF ReceiveData, ReceiveBlank, ReceiveEnd, R, Goto, TypeOK
<1>6. ASSUME NEW p \in Processes, Stops(p) PROVE StuckOnlyByFailure'
  <2>1. Busy(p) /\ pc'[p] \in Off /\ Others(p)
    BY <1>6 DEF Stops
  <2>2. pc'[p] = "stuck" => pc[Peer(p)] = "failed"
    <3>1. SUFFICES ASSUME pc'[p] = "stuck", pc[Peer(p)] = "ok" PROVE FALSE
      BY <1>6 DEF Stops, Ended
    <3>2. chan[R] = <<>>
      BY <1>6, <3>1 DEF Stops
    <3>3. CASE p = R
      BY <2>1, <3>1, <3>2, <3>3 DEF EndComes
    <3>4. CASE p = S
      BY <2>1, <3>1, <3>4 DEF Complete, Busy, Ended
    <3>5. QED
      BY <3>3, <3>4
  <2>3. Peer(p) \in Processes \ {p} /\ \A q \in Processes : q # p => q = Peer(p)
    BY DEF Processes, Peer
  <2>4. \A q \in Processes : pc[q] = "failed" => pc'[q] = "failed"
    BY <2>1 DEF Others, Busy, Ended
  <2>5. QED
    BY <2>1, <2>2, <2>3, <2>4 DEF StuckOnlyByFailure, Others, Processes, Peer
<1>7. QED
  BY <1>2, <1>3, <1>4, <1>5, <1>6 DEF Move

-----------------------------------------------------------------------------
(* The inductive invariant.                                                *)

LEMMA InductiveInvariant == Spec => []IInv
<1>1. Init => IInv
  <2> SUFFICES ASSUME Init PROVE IInv
    OBVIOUS
  <2>1. TypeOK
    <3>1. chan \in [Processes -> Seq(Packet)] /\ hash \in [Processes -> Files]
      BY NoBlocks, Few DEF Init
    <3>2. pc \in [Processes -> Pc]
      <4>1. pc = [p \in Processes |-> IF p = "client" THEN "open" ELSE "request"]
        BY DEF Init, Processes
      <4>2. QED
        BY <4>1 DEF Pc, Reading
    <3>3. switch \in [Processes -> BOOLEAN]
      <4>1. switch = [client |-> TRUE, server |-> FALSE]
        BY DEF Init
      <4>2. switch \in [client : BOOLEAN, server : BOOLEAN]
        BY <4>1, Zenon
      <4>3. DOMAIN switch = Processes
        BY <4>1 DEF Processes
      <4>4. switch["client"] \in BOOLEAN /\ switch["server"] \in BOOLEAN
        BY <4>2
      <4>5. switch = [p \in DOMAIN switch |-> switch[p]]
        BY <4>1, Zenon
      <4>6. QED
        BY <4>3, <4>4, <4>5 DEF Processes
    <3>4. offset \in 0..MaxBlocks /\ packed \in Packed
      BY NetCopyAssumption DEF Init, Packed
    <3>5. QED
      BY <3>1, <3>2, <3>3, <3>4 DEF Init, TypeOK
  <2>2. /\ pc[S] = (IF op = "put" THEN "open" ELSE "request")
        /\ pc[R] = (IF op = "put" THEN "request" ELSE "open")
        /\ chan[R] = <<>> /\ chan["server"] = <<>>
        /\ hash[S] = <<>> /\ hash[R] = <<>> /\ offset = 0 /\ dst = old
        /\ op \in {"put", "get"}
    BY DEF Init, S, R, Sender, Receiver, Processes
  <2>3. Handshake /\ Exists /\ AtBlock /\ Stream /\ EndComes
    BY <2>2 DEF Handshake, Exists, AtBlock, Stream, EndComes, SenderPlaces, ReceiverPlaces,
                Silent, Sending, Off, Ended
  <2>4. Count /\ Placed /\ NoneLost /\ Complete
    BY <2>2 DEF Count, Placed, NoneLost, Complete, Sent, Lead, Sending
  <2>5. SwitchOn /\ SenderHash /\ Numbered /\ ReceiverHash
    BY <2>2 DEF Init, SwitchOn, SenderHash, Numbered, ReceiverHash, Processes
  <2>6. StuckOnlyByFailure /\ CheckIsTrue
    BY <2>2 DEF Init, StuckOnlyByFailure, CheckIsTrue, NoFalseAlarm, SuccessIsVerified,
                Processes, R
  <2>7. QED
    BY <2>1, <2>3, <2>4, <2>5, <2>6 DEF IInv
<1>2. IInv /\ [Next]_vars => IInv'
  <2> SUFFICES ASSUME IInv, [Next]_vars PROVE IInv'
    OBVIOUS
  <2> USE DEF IInv
  <2>1. Steady /\ Move
    BY StepIsSteady, StepIsMove
  <2>2. TypeOK' /\ Handshake' /\ Exists' /\ AtBlock'
    BY <2>1, TypeStep, HandshakeStep, ExistsStep, AtBlockStep
  <2>3. Stream' /\ EndComes' /\ Count'
    BY <2>1, StreamStep, EndComesStep, CountStep
  <2>4. Placed' /\ NoneLost' /\ Complete'
    BY <2>1, PlacedStep, NoneLostStep, CompleteStep
  <2>5. SwitchOn' /\ SenderHash' /\ Numbered' /\ ReceiverHash'
    BY <2>1, SwitchStep, SenderHashStep, NumberedStep, ReceiverHashStep
  <2>6. StuckOnlyByFailure' /\ CheckIsTrue'
    BY <2>1, StuckStep, CheckStep
  <2>7. QED
    BY <2>2, <2>3, <2>4, <2>5, <2>6
<1>3. QED
  BY <1>1, <1>2, PTL DEF Spec

-----------------------------------------------------------------------------
(* What is shown.                                                          *)

\* For files of any length and whatever switch the other transfers of the two
\* processes set: a transfer that its receiver reports as done into a new file
\* has copied the source block for block, the holes it skipped included, and a
\* process is left reading a closed connection only if its peer has failed
\* (FileRead, FileWrite, RecvAllData).
THEOREM TransferIsExact == Spec => []Consistent
<1>1. IInv => NewFileIsExact
  <2> SUFFICES ASSUME IInv, old = Missing, pc[R] = "ok" PROVE dst = src
    BY DEF NewFileIsExact, R
  <2>1. TypeOK /\ src # Missing /\ dst = Copy!Copied(src, old)
    BY DEF IInv, Complete, Exists
  <2>2. src \in Files /\ Len(src) \in Nat /\ Len(src) <= MaxBlocks
    BY <2>1, Lengths DEF TypeOK
  <2>3. Created(old) = <<>> /\ Size(src) = Len(src)
    BY <2>1 DEF Created, Size
  <2>4. Base = IF Len(src) > 0 THEN Resize(<<>>, Len(src)) ELSE <<>>
    BY <2>1, <2>3, BaseFacts
  <2>5. Len(Base) = Len(src) /\ \A i \in 1..Len(src) : Base[i] = Hole
    BY <2>2, <2>4, NoBlocks, ResizeFacts, NetCopyAssumption
  <2>6. \A i \in 1..Len(src) :
            src[i] = IF i <= Len(src) /\ src[i] # Hole THEN src[i] ELSE Base[i]
    BY <2>5
  <2>7. src = Copy!Copied(src, old)
    BY <2>1, <2>2, <2>5, <2>6, CopiedFacts
  <2>8. QED
    BY <2>1, <2>7
<1>2. IInv => Consistent
  BY <1>1 DEF IInv, Consistent
<1>3. QED
  BY <1>2, InductiveInvariant, PTL

\* A transfer that no fault and no other transfer disturbs never finds a wrong
\* MD5, and does not end well without having compared it (MD5Verify).
THEOREM CheckTells == Spec => []CheckIsTrue
<1>1. IInv => CheckIsTrue
  BY DEF IInv
<1>2. QED
  BY <1>1, InductiveInvariant, PTL

\* Every step is one of FileCopy's, or none of its business.
LEMMA MoveIsKept ==
    ASSUME IInv, Complete', Steady, Move
    PROVE  [Copy!Next]_(Copy!vars)
<1> USE Ends DEF Steady, Off, Still, SenderAt, ReceiverAt, Ended, Copy!vars, Outcome
<1> DEFINE said == Outcome(S)  told == Outcome(R)
<1>a. TypeOK /\ pc \in [Processes -> Pc]
  BY DEF IInv, TypeOK
<1>b. /\ Sender = S /\ Receiver = R /\ Sender' = S /\ Receiver' = R
      /\ Outcome(Sender)' = (IF pc'[S] \in Ended THEN pc'[S] ELSE "busy")
      /\ Outcome(Receiver)' = (IF pc'[R] \in Ended THEN pc'[R] ELSE "busy")
  BY DEF S, R
<1>1. ASSUME dst' = dst, Outcome(Sender)' = Outcome(Sender),
             Outcome(Receiver)' = Outcome(Receiver)
      PROVE  UNCHANGED Copy!vars
  BY <1>1
<1>2. CASE Opens
  <2>1. Copy!Create
    BY <1>b, <1>2 DEF Opens, Copy!Create, Copy!Created, Created
  <2>2. QED
    BY <2>1 DEF Copy!Next
<1>3. CASE SizeFile
  <2>1. pc[R] = "size" /\ pc'[R] = "receive" /\ pc'[S] = pc[S]
        /\ dst' = IF Size(src) > 0 THEN Resize(dst, Size(src)) ELSE dst
    BY <1>3, <1>a DEF SizeFile, R, Goto
  <2>2. src # Missing /\ dst = Created(old)
    BY <2>1 DEF IInv, Exists, Placed
  <2>3. dst' = Base
    BY <1>a, <2>1, <2>2, BaseFacts
  <2>4. Copy!GiveSize
    BY <1>b, <2>1, <2>2, <2>3 DEF Copy!GiveSize, Base
  <2>5. QED
    BY <2>4 DEF Copy!Next
<1>4. CASE Taken /\ ReceiveData
  <2> DEFINE m == chan[R][1]
  <2>1. pc[R] = "receive" /\ m.type = "DATA" /\ dst' = [dst EXCEPT ![m.at] = m.block] /\ pc' = pc
    BY <1>4, <1>a, TakenFacts DEF ReceiveData, R, Arrived
  <2>2. m \in Packet /\ 1 \in 1..Len(chan[R])
    BY <1>4, <1>a, TakenFacts
  <2>3. m.at \in 1..MaxBlocks /\ m.at <= Len(src) /\ m.block = src[m.at] /\ m.block # Hole
    BY <2>1, <2>2, PacketFacts DEF IInv, Stream
  <2>4. src # Missing /\ dst # Missing /\ Len(dst) = Len(Base)
    BY <2>1 DEF IInv, Exists, Placed
  <2>5. Len(src) \in Nat /\ Len(src) <= Len(Base) /\ Len(Base) \in Nat
    BY <1>a, <2>4, Lengths, BaseFacts, FileFacts
  <2>6. m.at \in 1..Len(src) /\ m.at <= Len(dst)
    BY <2>3, <2>4, <2>5, NetCopyAssumption
  <2>7. Copy!PutBlock(m.at)
    BY <1>b, <2>1, <2>3, <2>4, <2>6 DEF Copy!PutBlock
  <2>8. QED
    BY <2>4, <2>6, <2>7 DEF Copy!Next
<1>5. CASE Finishes
  <2>1. src # Missing
    BY <1>5 DEF Finishes, IInv, Exists, Silent
  <2>2. Copy!SenderEnds
    BY <1>b, <1>5, <2>1 DEF Finishes, Copy!SenderEnds
  <2>3. QED
    BY <2>2 DEF Copy!Next
<1>6. CASE Taken /\ ReceiveEnd
  <2>1. pc[R] = "receive" /\ pc'[R] = "ok" /\ pc'[S] = pc[S] /\ dst' = dst
    BY <1>6, <1>a DEF ReceiveEnd, R, Goto
  <2>2. pc[S] = "ok" /\ dst = Copy!Copied(src, old)
    <3>1. Copy!Copied(src, old)' = Copy!Copied(src, old)
      BY DEF Copy!Copied, Copy!Sized, Copy!Created, Copy!Resize
    <3>2. dst' = Copy!Copied(src, old)' /\ pc'[S] = "ok"
      BY <2>1 DEF Complete
    <3>3. QED
      BY <2>1, <3>1, <3>2
  <2>3. Copy!ReceiverEnds
    BY <1>b, <2>1, <2>2 DEF Copy!ReceiverEnds
  <2>4. QED
    BY <2>3 DEF Copy!Next
<1>7. ASSUME NEW p \in Processes, Stops(p) PROVE [Copy!Next]_(Copy!vars)
  <2>1. Busy(p) /\ pc'[p] \in Off /\ Others(p) /\ dst' = dst
    BY <1>7 DEF Stops
  <2>2. CASE pc'[p] = "stuck"
    BY <1>b, <1>1, <2>1, <2>2 DEF Busy, Others
  <2>3. CASE pc'[p] = "failed" /\ p = S
    <3>1. Copy!SenderEnds
      BY <1>b, <2>1, <2>3 DEF Copy!SenderEnds, Busy, Others
    <3>2. QED
      BY <3>1 DEF Copy!Next
  <2>4. CASE pc'[p] = "failed" /\ p = R
    <3>1. Copy!ReceiverEnds
      BY <1>b, <2>1, <2>4 DEF Copy!ReceiverEnds, Busy, Others
    <3>2. QED
      BY <3>1 DEF Copy!Next
  <2>5. QED
    BY <2>1, <2>2, <2>3, <2>4
<1>8. CASE Flips \/ Asks \/ Admits \/ Heads \/ Finds \/ Offers \/ Grants \/ Starts \/ Sends
  BY <1>b, <1>1, <1>8
     DEF Flips, Asks, Admits, Heads, Finds, Offers, Grants, Starts, Sends
<1>9. CASE ReadBlock \/ PackBlock
  BY <1>a, <1>b, <1>1, <1>9 DEF ReadBlock, PackBlock, S, Goto
<1>10. CASE Taken /\ ReceiveBlank
  BY <1>b, <1>1, <1>10 DEF ReceiveBlank
<1>11. QED
  BY <1>2, <1>3, <1>4, <1>5, <1>6, <1>7, <1>8, <1>9, <1>10 DEF Move

\* The protocol, its MD5 check and its faults implement FileCopy: the receiver
\* of a transfer reports success only with the whole of the source in place, and
\* after the sender has.
THEOREM CopiesAsPromised == Spec => CopyIsKept
<1>1. Init => Copy!Init
  <2> SUFFICES ASSUME Init PROVE Copy!Init
    OBVIOUS
  <2>1. src \in Seq(Block) \cup {Missing} /\ old \in Seq(Block) \cup {Missing}
    BY FileIsSeq DEF Init
  <2>2. pc[Sender] \in {"open", "request"} /\ pc[Receiver] \in {"open", "request"}
    BY DEF Init, Sender, Receiver
  <2>3. QED
    BY <2>1, <2>2 DEF Init, Copy!Init, Outcome, Ended
<1>2. IInv /\ IInv' /\ [Next]_vars => [Copy!Next]_(Copy!vars)
  <2> SUFFICES ASSUME IInv, IInv', [Next]_vars PROVE [Copy!Next]_(Copy!vars)
    OBVIOUS
  <2>1. Steady /\ Move
    BY StepIsSteady, StepIsMove DEF IInv
  <2>2. Complete'
    BY DEF IInv
  <2>3. QED
    BY <2>1, <2>2, MoveIsKept
<1>3. QED
  BY <1>1, <1>2, InductiveInvariant, PTL DEF Spec, CopyIsKept, Copy!Spec
=============================================================================
