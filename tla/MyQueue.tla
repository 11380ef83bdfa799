------------------------------ MODULE MyQueue ------------------------------
(* The circular queue of the exporter (exporter/models/Queue.go): an array of *)
(* Cap slots with two indexes.  One slot stays empty, which tells a full queue *)
(* from an empty one.  Each operation runs under the mutex of the queue and is *)
(* one step.                                                                   *)
EXTENDS Integers, Sequences

CONSTANTS Elements,  \* what can be enqueued
          Cap,       \* the number of slots; the code uses 100001
          nil        \* a slot without an element

ASSUME CapAssumption == Cap \in Nat \ {0}

VARIABLES data, front, rear,
          refused    \* history: the elements that EnQueue refused with an error

queueVars == <<data, front, rear, refused>>

Slots == 0 .. Cap - 1

InitQueue ==
  /\ data = [i \in Slots |-> nil]
  /\ front = 0
  /\ rear = 0
  /\ refused = {}

Length == (rear - front + Cap) % Cap

\* Mutant: the index behind the end of the array is not brought back to 0.
isFullWithoutWrap == rear + 1 = front

isFull == (rear + 1) % Cap = front % Cap

isEmpty == rear = front

EnQueue(e) ==
  \/ /\ isFull
     /\ refused' = refused \union {e}
     /\ UNCHANGED <<data, front, rear>>
  \/ /\ ~isFull
     /\ data' = [data EXCEPT ![rear] = e]
     /\ rear' = (rear + 1) % Cap
     /\ UNCHANGED <<front, refused>>

\* The element that DeQueue returns.
Oldest == data[front]

DeQueue ==
  /\ ~isEmpty
  /\ data' = [data EXCEPT ![front] = nil]
  /\ front' = (front + 1) % Cap
  /\ UNCHANGED <<rear, refused>>

QueueNext == (\E e \in Elements : EnQueue(e)) \/ DeQueue

QueueSpec == InitQueue /\ [][QueueNext]_queueVars

-----------------------------------------------------------------------------
\* The elements in the queue, the oldest first.
Contents == [i \in 1 .. Length |-> data[(front + i - 1) % Cap]]

Fifo == INSTANCE FifoQueue WITH items <- Contents, Limit <- Cap - 1

\* The array with its two indexes is a bounded FIFO queue of Cap - 1 elements:
\* going round the end of the array keeps the order, EnQueue refuses a sample
\* only when Cap - 1 are waiting, and overwrites none (Queue.go 44-82).
QueueIsFifo == Fifo!Spec
=============================================================================
