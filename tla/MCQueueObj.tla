----------------------------- MODULE MCQueueObj -----------------------------
(* QueueObj on small instances for TLC. *)
EXTENDS QueueObj

=============================================================================
