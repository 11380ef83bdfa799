------------------------------ MODULE NetCopy -------------------------------
(***************************************************************************)
(* netcopy: one put or get of a file between a client and a server process *)
(* over one TCP connection (target.py, ncpapi.py).  The sender streams the *)
(* blocks of the source and ends with the MD5 of what it read; the         *)
(* receiver writes them and compares.                                      *)
(*                                                                         *)
(* MD5_CHECK_ENABLE is one variable of a whole process, set by the         *)
(* constructor of every SocketTarget in it: another transfer in the same   *)
(* agent changes it under this one (FlipSwitch).  Every read of it by the  *)
(* code is a step of its own here.  An MD5 value is the sequence of blocks *)
(* that went into it: no two inputs collide.                               *)
(***************************************************************************)
EXTENDS Naturals, Sequences

CONSTANTS Block,      \* contents of a block
          Hole,       \* a full block of zeros (IsAllZero)
          Missing,    \* no such file
          MaxBlocks,  \* longest file considered, in blocks of 1 MiB
          Shared      \* the processes that run other transfers as well

Processes == {"client", "server"}

ASSUME NetCopyAssumption ==
    /\ Hole \in Block
    /\ Missing \notin Seq(Block)
    /\ MaxBlocks \in Nat
    /\ Shared \subseteq Processes

VARIABLES
    op,        \* "put" or "get"
    src,       \* the source file
    old,       \* the destination file before the transfer
    dst,       \* the destination file
    chan,      \* chan[p]: packets on their way to p
    pc,        \* where p is in its loop
    switch,    \* MD5_CHECK_ENABLE of p's process
    hash,      \* hash[p]: Target._md5 of the object of p that is updated
    offset,    \* FileTarget._offset of the sender, in blocks
    packed,    \* msg_data that FileRead hands to SockWrite
    verified,  \* history: what MD5Verify found
    upset      \* history: a fault, or a change of the switch, has happened

vars == <<op, src, old, dst, chan, pc, switch, hash, offset, packed, verified, upset>>

Files    == UNION {[1..n -> Block] : n \in 0..MaxBlocks}
Sender   == IF op = "put" THEN "client" ELSE "server"
Receiver == IF op = "put" THEN "server" ELSE "client"
Peer(p)  == IF p = "client" THEN "server" ELSE "client"

Size(f) == IF f = Missing THEN 0 ELSE Len(f)

Request == [type : {"REQUEST"}, verify : BOOLEAN]
HeadMsg   == [type : {"HEAD"}, size : 0..MaxBlocks]
Reply   == [type : {"RESPONSE"}, ok : BOOLEAN]
DataMsg == [type : {"DATA"}, at : 1..MaxBlocks, block : Block]
Blank   == [type : {"BLANK"}]
End     == [type : {"END"}, md5 : Files]
Packet  == Request \cup HeadMsg \cup Reply \cup DataMsg \cup Blank \cup End
Packed  == [kind : {"none", "data", "hole", "blank", "end"}, md5 : BOOLEAN]

Reading == {"request", "head", "response", "receive"}
Ended   == {"ok", "failed"}
Pc == {"open", "ask", "size", "read", "pack", "send", "stuck"} \cup Reading \cup Ended

TypeOK ==
    /\ op \in {"put", "get"}
    /\ src \in Files \cup {Missing}
    /\ old \in Files \cup {Missing}
    /\ dst \in Files \cup {Missing}
    /\ chan \in [Processes -> Seq(Packet)]
    /\ pc \in [Processes -> Pc]
    /\ switch \in [Processes -> BOOLEAN]
    /\ hash \in [Processes -> Files]
    /\ offset \in 0..MaxBlocks
    /\ packed \in Packed
    /\ verified \in {"no", "match", "mismatch"}
    /\ upset \in BOOLEAN

\* The server has called accept with its switch set FALSE by its constructor;
\* the client has connected with its switch set TRUE by its own.
Init ==
    /\ op \in {"put", "get"}
    /\ src \in Files \cup {Missing}
    /\ old \in Files \cup {Missing}
    /\ dst = old
    /\ chan = [p \in Processes |-> <<>>]
    /\ pc = [client |-> "open", server |-> "request"]
    /\ switch = [client |-> TRUE, server |-> FALSE]
    /\ hash = [p \in Processes |-> <<>>]
    /\ offset = 0
    /\ packed = [kind |-> "none", md5 |-> FALSE]
    /\ verified = "no"
    /\ upset = FALSE

-----------------------------------------------------------------------------
Goto(p, there) == pc' = [pc EXCEPT ![p] = there]
Send(p, pkts)  == chan' = [chan EXCEPT ![Peer(p)] = @ \o pkts]

\* p takes the first packet addressed to it and answers with pkts
Take(p, pkts) ==
    chan' = [chan EXCEPT ![p] = Tail(@), ![Peer(p)] = @ \o pkts]
Arrived(p, type) == chan[p] # <<>> /\ Head(chan[p]).type = type

\* os.open with O_CREAT and without O_TRUNC
Created(f) == IF f = Missing THEN <<>> ELSE f
Resize(f, n) == [i \in 1..n |-> IF i <= Len(f) THEN f[i] ELSE Hole]

\* IsAllZero is false of a short block, so only a full block is a hole.
transferVars == <<hash, offset, packed, verified, upset>>

(* Setting up                                                              *)

\* FileTarget(local_file, ...) of the client, after it has connected
OpenClientFile ==
    /\ pc["client"] = "open"
    /\ IF op = "put"
       THEN dst' = dst /\ Goto("client", IF src = Missing THEN "failed" ELSE "ask")
       ELSE dst' = Created(dst) /\ Goto("client", "ask")
    /\ UNCHANGED <<op, src, old, chan, switch, transferVars>>

\* SocketTarget.ClientWrite in INIT: REQUEST, and for a put HEAD behind it
SendRequest ==
    /\ pc["client"] = "ask"
    /\ LET request == [type |-> "REQUEST", verify |-> switch["client"]]
           size    == [type |-> "HEAD", size |-> Size(src)]
       IN  IF op = "put"
           THEN Send("client", <<request, size>>) /\ Goto("client", "response")
           ELSE Send("client", <<request>>) /\ Goto("client", "head")
    /\ UNCHANGED <<op, src, old, dst, switch, transferVars>>

\* SocketTarget.ServerRead in INIT: the switch becomes the client's; a get of
\* a file that is not there is refused
ReadRequest ==
    /\ pc["server"] = "request"
    /\ Arrived("server", "REQUEST")
    /\ switch' = [switch EXCEPT !["server"] = Head(chan["server"]).verify]
    /\ IF op = "put"
       THEN Take("server", <<>>) /\ Goto("server", "open")
       ELSE IF src = Missing
            THEN /\ Take("server", <<[type |-> "RESPONSE", ok |-> FALSE]>>)
                 /\ Goto("server", "failed")
            ELSE /\ Take("server", <<[type |-> "HEAD", size |-> Size(src)]>>)
                 /\ Goto("server", "open")
    /\ UNCHANGED <<op, src, old, dst, transferVars>>

\* FileTarget(...) of the server, in GetServerTarget
OpenServerFile ==
    /\ pc["server"] = "open"
    /\ IF op = "put"
       THEN dst' = Created(dst) /\ Goto("server", "head")
       ELSE dst' = dst /\ Goto("server", "read")
    /\ UNCHANGED <<op, src, old, chan, switch, transferVars>>

\* Mutant: the server of a put does not answer HEAD.
ReadHeadSilently ==
    /\ pc[Receiver] = "head"
    /\ Arrived(Receiver, "HEAD")
    /\ Take(Receiver, <<>>)
    /\ Goto(Receiver, "size")
    /\ UNCHANGED <<op, src, old, dst, switch, transferVars>>

\* The receiver gets HEAD; the server of a put answers it.
ReadHead ==
    /\ pc[Receiver] = "head"
    /\ Arrived(Receiver, "HEAD")
    /\ Take(Receiver, IF op = "put" THEN <<[type |-> "RESPONSE", ok |-> TRUE]>> ELSE <<>>)
    /\ Goto(Receiver, "size")
    /\ UNCHANGED <<op, src, old, dst, switch, transferVars>>

\* Mutant: the destination is not given its size.
SizeFileLater ==
    /\ pc[Receiver] = "size"
    /\ Goto(Receiver, "receive")
    /\ UNCHANGED <<op, src, old, dst, chan, switch, transferVars>>

\* FileWrite in INIT: CreateEmptyFile truncates or extends, unless size is 0
SizeFile ==
    /\ pc[Receiver] = "size"
    /\ dst' = IF Size(src) > 0 THEN Resize(dst, Size(src)) ELSE dst
    /\ Goto(Receiver, "receive")
    /\ UNCHANGED <<op, src, old, chan, switch, transferVars>>

\* SocketTarget.ClientRead in INIT, of a put
ReadResponse ==
    /\ pc["client"] = "response"
    /\ Arrived("client", "RESPONSE")
    /\ Take("client", <<>>)
    /\ Goto("client", IF Head(chan["client"]).ok THEN "read" ELSE "failed")
    /\ UNCHANGED <<op, src, old, dst, switch, transferVars>>

\* SocketTarget.ClientRead in INIT, of a get that the server refuses
ReadRefusal ==
    /\ op = "get"
    /\ pc["client"] = "head"
    /\ Arrived("client", "RESPONSE")
    /\ Take("client", <<>>)
    /\ Goto("client", "failed")
    /\ UNCHANGED <<op, src, old, dst, switch, transferVars>>

-----------------------------------------------------------------------------
(* The sender: FileRead in three steps, one for each read of the switch.   *)

AtEnd == offset = Len(src)

\* _FileRead: a block is read, and goes into the MD5 if the switch is on
ReadBlock ==
    /\ pc[Sender] = "read"
    /\ hash' = IF ~AtEnd /\ switch[Sender]
               THEN [hash EXCEPT ![Sender] = Append(@, src[offset + 1])]
               ELSE hash
    /\ Goto(Sender, "pack")
    /\ UNCHANGED <<op, src, old, dst, chan, switch, offset, packed, verified, upset>>

\* Mutant: a hole is never announced, MD5 check or not.
PackBlockSkippingHoles ==
    /\ pc[Sender] = "pack"
    /\ packed' = [kind |-> CASE AtEnd -> "end"
                             [] ~AtEnd /\ src[offset + 1] # Hole -> "data"
                             [] OTHER -> "blank",
                  md5  |-> switch[Sender]]
    /\ offset' = IF AtEnd THEN offset ELSE offset + 1
    /\ Goto(Sender, "send")
    /\ UNCHANGED <<op, src, old, dst, chan, switch, hash, verified, upset>>

\* the rest of FileRead: what is sent for the block depends on the switch
PackBlock ==
    /\ pc[Sender] = "pack"
    /\ packed' = [kind |-> CASE AtEnd -> "end"
                             [] ~AtEnd /\ src[offset + 1] # Hole -> "data"
                             [] OTHER -> IF switch[Sender] THEN "hole" ELSE "blank",
                  md5  |-> switch[Sender]]
    /\ offset' = IF AtEnd THEN offset ELSE offset + 1
    /\ Goto(Sender, "send")
    /\ UNCHANGED <<op, src, old, dst, chan, switch, hash, verified, upset>>

\* SockWrite of a block: DATA, BLANK, or nothing for a "blank" one
SendBlock ==
    /\ pc[Sender] = "send"
    /\ packed.kind # "end"
    /\ Send(Sender, CASE packed.kind = "data" ->
                             <<[type |-> "DATA", at |-> offset, block |-> src[offset]]>>
                      [] packed.kind = "hole" -> <<[type |-> "BLANK"]>>
                      [] OTHER -> <<>>)
    /\ Goto(Sender, "read")
    /\ UNCHANGED <<op, src, old, dst, switch, transferVars>>

\* SockWrite at the end of the file.  With the switch on it takes the MD5 from
\* msg_data: a KeyError if FileRead has seen it off.  With the switch off it
\* sends the digest of the socket's own, never updated, MD5 object.  Having
\* sent END the sender is done: it waits for no answer.
SendEnd ==
    /\ pc[Sender] = "send"
    /\ packed.kind = "end"
    /\ IF switch[Sender] /\ ~packed.md5
       THEN Goto(Sender, "failed") /\ chan' = chan
       ELSE /\ Send(Sender, <<[type |-> "END",
                               md5  |-> IF switch[Sender] THEN hash[Sender] ELSE <<>>]>>)
            /\ Goto(Sender, "ok")
    /\ UNCHANGED <<op, src, old, dst, switch, transferVars>>

-----------------------------------------------------------------------------
(* The receiver                                                            *)

\* Mutant: blocks are written one after the other, the offset is ignored.
ReceiveDataInOrder ==
    /\ pc[Receiver] = "receive"
    /\ Arrived(Receiver, "DATA")
    /\ LET msg == Head(chan[Receiver])
       IN  /\ hash' = IF switch[Receiver]
                      THEN [hash EXCEPT ![Receiver] = Append(@, msg.block)]
                      ELSE hash
           /\ dst' = [dst EXCEPT ![Len(hash[Receiver]) + 1] = msg.block]
    /\ Take(Receiver, <<>>)
    /\ UNCHANGED <<op, src, old, pc, switch, offset, packed, verified, upset>>

\* UnpackData and _FileWrite
ReceiveData ==
    /\ pc[Receiver] = "receive"
    /\ Arrived(Receiver, "DATA")
    /\ LET msg == Head(chan[Receiver])
       IN  /\ hash' = IF switch[Receiver]
                      THEN [hash EXCEPT ![Receiver] = Append(@, msg.block)]
                      ELSE hash
           /\ dst' = [dst EXCEPT ![msg.at] = msg.block]
    /\ Take(Receiver, <<>>)
    /\ UNCHANGED <<op, src, old, pc, switch, offset, packed, verified, upset>>

\* UnpackBlank: zeros go into the MD5 whatever the switch says, not the file
ReceiveBlank ==
    /\ pc[Receiver] = "receive"
    /\ Arrived(Receiver, "BLANK")
    /\ hash' = [hash EXCEPT ![Receiver] = Append(@, Hole)]
    /\ Take(Receiver, <<>>)
    /\ UNCHANGED <<op, src, old, dst, pc, switch, offset, packed, verified, upset>>

\* END and MD5Verify, which ends the transfer as a success in all three cases;
\* the client of a get answers first, to a server that has left
ReceiveEnd ==
    /\ pc[Receiver] = "receive"
    /\ Arrived(Receiver, "END")
    /\ verified' = CASE ~switch[Receiver] -> "no"
                     [] switch[Receiver] /\ Head(chan[Receiver]).md5 = hash[Receiver] -> "match"
                     [] OTHER -> "mismatch"
    /\ Take(Receiver, IF op = "get" THEN <<[type |-> "RESPONSE", ok |-> TRUE]>> ELSE <<>>)
    /\ Goto(Receiver, "ok")
    /\ UNCHANGED <<op, src, old, dst, switch, hash, offset, packed, upset>>

-----------------------------------------------------------------------------
(* Faults and the environment                                              *)

\* Another transfer in the process of p constructs or opens a SocketTarget.
FlipSwitch(p) ==
    /\ p \in Shared
    /\ pc[p] \notin Ended \cup {"stuck"}
    /\ switch' = [switch EXCEPT ![p] = ~@]
    /\ upset' = TRUE
    /\ UNCHANGED <<op, src, old, dst, chan, pc, hash, offset, packed, verified>>

\* An exception out of the file system, or the death of the process.
Fault(p) ==
    /\ pc[p] \notin Ended \cup {"stuck"}
    /\ Goto(p, "failed")
    /\ upset' = TRUE
    /\ UNCHANGED <<op, src, old, dst, chan, switch, hash, offset, packed, verified>>

\* The peer has closed an intact connection and everything sent is read: recv
\* returns b'' for ever, and RecvAllData loops for ever.
Spin(p) ==
    /\ pc[p] \in Reading
    /\ \A q \in Processes : chan[q] = <<>>
    /\ pc[Peer(p)] \in Ended
    /\ Goto(p, "stuck")
    /\ UNCHANGED <<op, src, old, dst, chan, switch, transferVars>>

\* The peer has failed: writing to it raises, and if it left data of p unread
\* the kernel resets the connection, what it had sent is lost and reading
\* raises too.
ConnectionReset(p) ==
    /\ pc[Peer(p)] = "failed"
    /\ \/ pc[p] \in {"ask", "send"}
       \/ pc[p] \in Reading /\ chan[Peer(p)] # <<>>
    /\ Goto(p, "failed")
    /\ UNCHANGED <<op, src, old, dst, chan, switch, transferVars>>

-----------------------------------------------------------------------------
ClientStep == OpenClientFile \/ SendRequest \/ ReadResponse \/ ReadRefusal
ServerStep == ReadRequest \/ OpenServerFile
SenderStep == ReadBlock \/ PackBlock \/ SendBlock \/ SendEnd
ReceiverStep == ReadHead \/ SizeFile \/ ReceiveData \/ ReceiveBlank \/ ReceiveEnd
Step == ClientStep \/ ServerStep \/ SenderStep \/ ReceiverStep

Next ==
    \/ Step
    \/ \E p \in Processes :
           FlipSwitch(p) \/ Fault(p) \/ Spin(p) \/ ConnectionReset(p)

Spec == Init /\ [][Next]_vars

\* Both processes keep running; faults and other transfers need not come.
FairSpec ==
    /\ Spec
    /\ WF_vars(ClientStep) /\ WF_vars(ServerStep)
    /\ WF_vars(SenderStep) /\ WF_vars(ReceiverStep)
    /\ \A p \in Processes : WF_vars(Spin(p) \/ ConnectionReset(p))

-----------------------------------------------------------------------------
(* Properties                                                              *)

\* What a transfer promises (FileCopy): whoever the receiver is, it reports
\* success only with the whole source in place and after its sender.
Outcome(p) == IF pc[p] \in Ended THEN pc[p] ELSE "busy"
Copy == INSTANCE FileCopy WITH
            file <- dst, sender <- Outcome(Sender), receiver <- Outcome(Receiver)
CopyIsKept == Copy!Spec

\* A transfer into a new file is exact, byte for byte, even where the sender
\* skipped holes and even if the MD5 check was switched off half way.
NewFileIsExact ==
    old = Missing /\ pc[Receiver] = "ok" => dst = src

\* The MD5 check raises no false alarm, unless another transfer of one of the
\* two processes changed its switch in between.
NoFalseAlarm == verified = "mismatch" => upset

\* With a switch nobody else touches, every transfer that ends is verified.
SuccessIsVerified ==
    pc[Receiver] = "ok" /\ ~upset => verified = "match"

\* A process is left reading a closed connection only if its peer failed; the
\* normal end of one side never strands the other.
StuckOnlyByFailure ==
    \A p \in Processes : pc[p] = "stuck" => pc[Peer(p)] = "failed"

\* Undisturbed, a transfer of a file that exists ends well on both sides, and
\* the get of a file that does not exist is refused on both.
TransferEnds ==
    <>(\/ upset
       \/ pc["client"] = "ok" /\ pc["server"] = "ok"
       \/ src = Missing /\ pc["client"] = "failed" /\ (op = "get" => pc["server"] = "failed"))

\* The transfer is well formed, what it wrote to a new file is exact, and nobody
\* is stranded by a peer that ended well (FileWrite, RecvAllData).
Consistent == TypeOK /\ NewFileIsExact /\ StuckOnlyByFailure

\* The MD5 check neither cries wolf nor is passed over, as long as nobody else
\* touches its switch (MD5Verify).
CheckIsTrue == NoFalseAlarm /\ SuccessIsVerified
=============================================================================
