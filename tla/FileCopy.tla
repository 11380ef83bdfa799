------------------------------ MODULE FileCopy ------------------------------
(***************************************************************************)
(* What a netcopy transfer promises, with no protocol in it: one file is   *)
(* written, block by block, into another, by a receiver that reports       *)
(* success only when every block of the source is in place and the sender  *)
(* has handed the last one over.  The sender learns nothing of the         *)
(* receiver: it may report success and the receiver fail.                  *)
(*                                                                         *)
(* A file is a sequence of blocks.  A block of zeros is a hole: it is not  *)
(* written, so what the destination held there before stays.               *)
(***************************************************************************)
EXTENDS Naturals, Sequences

CONSTANTS Block,     \* contents of a block, blocks of zeros included
          Hole,      \* a full block of zeros
          Missing    \* no such file

VARIABLES src,       \* the source file
          old,       \* the destination file before the transfer
          file,      \* the destination file now
          sender,    \* "busy", "ok" or "failed"
          receiver   \* the same for the receiver

vars == <<src, old, file, sender, receiver>>

\* os.ftruncate to n blocks: cut, or extended with zeros
Resize(f, n) == [i \in 1..n |-> IF i <= Len(f) THEN f[i] ELSE Hole]

\* os.open with O_CREAT and without O_TRUNC
Created(f) == IF f = Missing THEN <<>> ELSE f

\* The size of the source is given to the destination unless it is zero.
Sized(f, n) == IF n > 0 THEN Resize(f, n) ELSE f

\* What the destination holds after a complete transfer of s into d.
Copied(s, d) ==
    LET base == Sized(Created(d), Len(s))
    IN  [i \in 1..Len(base) |->
            IF i <= Len(s) /\ s[i] # Hole THEN s[i] ELSE base[i]]

Init ==
    /\ src \in Seq(Block) \cup {Missing}
    /\ old \in Seq(Block) \cup {Missing}
    /\ file = old
    /\ sender = "busy"
    /\ receiver = "busy"

Create ==
    /\ receiver = "busy"
    /\ file' = Created(file)
    /\ UNCHANGED <<src, old, sender, receiver>>

GiveSize ==
    /\ receiver = "busy"
    /\ src # Missing
    /\ file' = Sized(Created(old), Len(src))
    /\ UNCHANGED <<src, old, sender, receiver>>

PutBlock(i) ==
    /\ receiver = "busy"
    /\ file # Missing /\ i <= Len(file)
    /\ src[i] # Hole
    /\ file' = [file EXCEPT ![i] = src[i]]
    /\ UNCHANGED <<src, old, sender, receiver>>

SenderEnds ==
    /\ sender = "busy"
    /\ \/ sender' = "ok" /\ src # Missing
       \/ sender' = "failed"
    /\ UNCHANGED <<src, old, file, receiver>>

ReceiverEnds ==
    /\ receiver = "busy"
    /\ \/ receiver' = "ok" /\ sender = "ok" /\ file = Copied(src, old)
       \/ receiver' = "failed"
    /\ UNCHANGED <<src, old, file, sender>>

Next ==
    \/ Create
    \/ GiveSize
    \/ src # Missing /\ \E i \in 1..Len(src) : PutBlock(i)
    \/ SenderEnds
    \/ ReceiverEnds

Spec == Init /\ [][Next]_vars
=============================================================================
