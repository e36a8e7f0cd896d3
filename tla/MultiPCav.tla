------------------------------ MODULE MultiPCav -----------------------------
(***************************************************************************)
(* multiPCav and pcstats: a producer fills one message block, the boss     *)
(* creates consumers on demand, and each consumer waits for the next       *)
(* message and counts it.  A message is consumed by one of them.           *)
(*                                                                         *)
(* The mutex is held from a "lock" to the end of the step or to the next   *)
(* wait; "check" is the test of fStop without it.                          *)
(***************************************************************************)
EXTENDS Naturals, FiniteSets, FiniteSetsExt

CONSTANTS
  Workers,       \* the consumers that may be created
  MaxSequence    \* bound: messages produced

VARIABLES
  running,       \* the program has been started
  f_consumed, f_ready, fStop, sequence,
  producer,      \* "check", "lock", "wait" or "done"
  pc,            \* of the consumers, "none" before their creation
  nmsgs,         \* messages that a consumer has counted
  boss           \* "commands", "producer", "consumers" or "finished"

mpVars == <<running, f_consumed, f_ready, fStop, sequence, producer, pc, nmsgs, boss>>
mpBlock == <<f_consumed, f_ready, sequence>>

\* pthread_cond_signal (mReady): one waiting consumer locks the mutex again.
SignalReady ==
  LET waiting == {c \in Workers : pc[c] = "wait"}
  IN IF waiting = {} THEN UNCHANGED pc ELSE \E c \in waiting : pc' = [pc EXCEPT ![c] = "relock"]

\* The commands: 'c' creates a consumer, 's' sets the stop flag.
Create(c) ==
  /\ boss = "commands" /\ ~fStop /\ pc[c] = "none" /\ pc' = [pc EXCEPT ![c] = "check"]
  /\ UNCHANGED <<running, mpBlock, fStop, producer, nmsgs, boss>>
Stop ==
  /\ boss = "commands" /\ ~fStop /\ fStop' = TRUE /\ SignalReady /\ boss' = "producer"
  /\ UNCHANGED <<running, mpBlock, producer, nmsgs>>
Join ==
  /\ \/ boss = "producer" /\ producer = "done" /\ boss' = "consumers"
     \/ boss = "consumers" /\ (\A c \in Workers : pc[c] \in {"none", "done"}) /\ boss' = "finished"
  /\ UNCHANGED <<running, mpBlock, fStop, producer, pc, nmsgs>>

CheckStop ==
  /\ producer = "check" /\ producer' = IF fStop THEN "done" ELSE "lock"
  /\ UNCHANGED <<running, mpBlock, fStop, pc, nmsgs, boss>>
MayFillAlways == TRUE   \* Fault: the message need not have been consumed.
MayFill == f_consumed \/ fStop
Produce ==
  /\ producer = "lock"
  /\ IF ~MayFill THEN producer' = "wait" /\ UNCHANGED <<mpBlock, pc>>
     ELSE /\ producer' = "check" /\ SignalReady
          /\ IF fStop THEN UNCHANGED mpBlock
             ELSE /\ sequence < MaxSequence /\ sequence' = sequence + 1
                  /\ f_consumed' = FALSE /\ f_ready' = TRUE
  /\ UNCHANGED <<running, fStop, nmsgs, boss>>

CheckStopOf(c) ==
  /\ pc[c] = "check" /\ pc' = [pc EXCEPT ![c] = IF fStop THEN "done" ELSE "lock"]
  /\ UNCHANGED <<running, mpBlock, fStop, producer, nmsgs, boss>>
\* The first wait is made without a test.
Wait(c) ==
  /\ pc[c] = "lock" /\ pc' = [pc EXCEPT ![c] = "wait"]
  /\ UNCHANGED <<running, mpBlock, fStop, producer, nmsgs, boss>>
TimedOutNever(c) == FALSE /\ UNCHANGED mpVars   \* Fault: pthread_cond_wait.
TimedOut(c) ==
  /\ pc[c] = "wait" /\ pc' = [pc EXCEPT ![c] = "relock"]
  /\ UNCHANGED <<running, mpBlock, fStop, producer, nmsgs, boss>>
SignalConsumed == producer' = IF producer = "wait" THEN "lock" ELSE producer
\* accumulate_statistics, and the signal in any case.
Consume(c) ==
  /\ pc[c] = "relock"
  /\ IF ~f_ready /\ ~fStop THEN pc' = [pc EXCEPT ![c] = "wait"] /\ UNCHANGED <<mpBlock, nmsgs, producer>>
     ELSE /\ pc' = [pc EXCEPT ![c] = "check"] /\ SignalConsumed /\ UNCHANGED sequence
          /\ IF fStop THEN UNCHANGED <<f_consumed, f_ready, nmsgs>>
             ELSE /\ nmsgs' = [nmsgs EXCEPT ![c] = @ + 1]
                  /\ f_consumed' = TRUE /\ f_ready' = FALSE
  /\ UNCHANGED <<running, fStop, boss>>
Consumer(c) == CheckStopOf(c) \/ Wait(c) \/ TimedOut(c) \/ Consume(c)

InitOf(started) ==
  /\ running = started
  /\ f_consumed = TRUE /\ f_ready = FALSE /\ fStop = FALSE /\ sequence = 0
  /\ producer = IF started THEN "check" ELSE "done"
  /\ pc = [c \in Workers |-> "none"] /\ nmsgs = [c \in Workers |-> 0]
  /\ boss = IF started THEN "commands" ELSE "finished"
Init == InitOf(TRUE)
Next ==
  \/ Stop \/ Join \/ CheckStop \/ Produce
  \/ \E c \in Workers : Create(c) \/ Consumer(c)
Fairness == WF_mpVars(Join) /\ WF_mpVars(CheckStop \/ Produce) /\ \A c \in Workers : WF_mpVars(Consumer(c))
Spec == Init /\ [][Next]_mpVars /\ Fairness

-----------------------------------------------------------------------------
(* The counters keep within the messages produced.                         *)
TypeOK ==
  /\ sequence \in 0..MaxSequence /\ boss \in {"commands", "producer", "consumers", "finished"}
  /\ \A c \in Workers : nmsgs[c] \in 0..MaxSequence

(* Every message is counted by one consumer, or still in the block.         *)
EachOnce ==
  sequence = MapThenSumSet(LAMBDA c : nmsgs[c], Workers) + IF f_ready THEN 1 ELSE 0

(* The consumers end after the stop, and so does the producer if one of     *)
(* them was in its loop to signal it: the stop itself does not wake it.     *)
ConsumersStop == fStop ~> \A c \in Workers : pc[c] \in {"none", "done"}
ProducerStops ==
  \A c \in Workers : (fStop /\ pc[c] \in {"lock", "wait", "relock"}) ~> (producer = "done")
=============================================================================
