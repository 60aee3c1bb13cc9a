---------------------------- MODULE BoundedFifo ----------------------------
(***************************************************************************)
(* What the vGIC's overflow queue promises its callers: a first-in,        *)
(* first-out queue of at most Capacity handles.  A call to a full queue is *)
(* refused with -1 and changes nothing; a call to an empty one returns     *)
(* NULL.  ret is what the last call returned.                              *)
(***************************************************************************)
EXTENDS Integers, Sequences

CONSTANTS Handles, NULL, Capacity

VARIABLES queue, ret

vars == <<queue, ret>>

Init == queue = << >> /\ ret = 0

Enqueue(irq) ==
    /\ Len(queue) < Capacity
    /\ queue' = Append(queue, irq)
    /\ ret' = 0

EnqueueFull ==
    /\ Len(queue) = Capacity
    /\ ret' = -1
    /\ UNCHANGED queue

Dequeue ==
    /\ queue # << >>
    /\ ret' = Head(queue)
    /\ queue' = Tail(queue)

DequeueEmpty ==
    /\ queue = << >>
    /\ ret' = NULL
    /\ UNCHANGED queue

Next ==
    \/ \E irq \in Handles : Enqueue(irq)
    \/ EnqueueFull
    \/ Dequeue
    \/ DequeueEmpty

Spec == Init /\ [][Next]_vars
=============================================================================
