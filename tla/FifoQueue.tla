----------------------------- MODULE FifoQueue -----------------------------
(* What a bounded queue promises: elements leave in the order they came, none *)
(* is lost or doubled, and an element is refused only when the queue is full. *)
EXTENDS Naturals, Sequences

CONSTANTS Elements,  \* what can be offered
          Limit      \* the most elements the queue holds

VARIABLES items,     \* the elements held, the oldest first
          refused    \* the elements that were offered to a full queue

Init == items = << >> /\ refused = {}

Accept(e) == Len(items) < Limit /\ items' = Append(items, e) /\ UNCHANGED refused

Refuse(e) == Len(items) = Limit /\ refused' = refused \union {e} /\ UNCHANGED items

Take == items # << >> /\ items' = Tail(items) /\ UNCHANGED refused

Next == (\E e \in Elements : Accept(e) \/ Refuse(e)) \/ Take

Spec == Init /\ [][Next]_<<items, refused>>
=============================================================================
