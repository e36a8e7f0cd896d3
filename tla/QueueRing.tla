------------------------------ MODULE QueueRing ------------------------------
(***************************************************************************)
(* The circular message array of QUEUE_OBJECT (INCLUDE/synchobj.h): qSize  *)
(* slots, qFirst the index of the oldest message, qLast the index of the   *)
(* slot the next message goes to.  Every Chapter 10 queue implementation   *)
(* has the same QueueEmpty, QueueFull, QueueRemove and QueueInsert, so     *)
(* they are stated once here as operators on a pair of indices f, l.       *)
(***************************************************************************)
EXTENDS Integers, Sequences

CONSTANT qSize      \* slots allocated by QueueInitialize

\* One slot always stays unused, so a queue of one slot can never hold a
\* message; the program creates queues of 10 and of 4 slots.
ASSUME RingAssumption == qSize \in Nat \ {0, 1}

Slot == 0 .. (qSize - 1)
Capacity == qSize - 1

RingEmpty(f, l) == f = l

\* Fault: the wrapped-around case is forgotten.
RingFullUnwrapped(f, l) == f - l = 1

\* The DWORD difference is 1 exactly when the integer one is: both indices
\* are below qSize, and a negative difference wraps to a large number.
RingFull(f, l) == f - l = 1 \/ (l = qSize - 1 /\ f = 0)

\* Fault: the index runs off the end of the array.
AdvanceUnwrapped(i) == i + 1

Advance(i) == (i + 1) % qSize

\* How many messages lie between the two indices, and the messages oldest
\* first.
RingLen(f, l) == IF f <= l THEN l - f ELSE l - f + qSize

SlotOf(f, i) == IF f + i < qSize THEN f + i ELSE f + i - qSize

RingContents(arr, f, l) == [i \in 1 .. RingLen(f, l) |-> arr[SlotOf(f, i - 1)]]
=============================================================================
