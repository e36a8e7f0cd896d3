----------------------------- MODULE ThreeStage -----------------------------
(***************************************************************************)
(* The three-stage pipeline of CHAPTR10/ThreeStage.c (ThreeStageCS.c is    *)
(* the same program on critical sections):                                 *)
(*                                                                         *)
(*   producers --p2tq--> Transmitter --t2rq--> Receiver --r2cq[c]--> c     *)
(*                                                                         *)
(* Producer and consumer number n are a pair.  The Transmitter packs       *)
(* messages into blocks of TBLOCK_SIZE, the Receiver unpacks them.  Each   *)
(* queue is the bounded FIFO queue that QueueObj is proved to implement,   *)
(* so QueuePut and QueueGet are one step, possible when there is room or   *)
(* a message.  The boss waits for the threads in turn, raises ShutDown     *)
(* and destroys the queues.                                                *)
(***************************************************************************)
EXTENDS Integers, Sequences, FiniteSets, Functions

CONSTANTS
  Pairs,        \* the thread numbers of the producer and consumer pairs
  goal,         \* messages per producer
  TBLOCK_SIZE,  \* messages per block
  P2T, T2R, R2C \* messages each kind of queue can hold (its length less one)

ThreeStageAssumption ==
  /\ IsFiniteSet(Pairs) /\ Pairs # {}
  /\ goal \in Nat
  /\ TBLOCK_SIZE \in Nat \ {0}
  /\ P2T \in Nat \ {0} /\ T2R \in Nat \ {0} /\ R2C \in Nat \ {0}

VARIABLES
  p2tq, t2rq, r2cq,  \* the queues; t2rq holds blocks
  produced, pPc,     \* each producer's workDone, and whether it has returned
  tBlock, tActive, tPc,      \* Transmitter: block being packed, nProducers
  rBlock, rActive, rPc,      \* Receiver: what is left of its block, nProducers
  consumed, cPc,     \* each consumer's workDone, and whether it has returned
  ShutDown, boss

queues == <<p2tq, t2rq, r2cq>>
pVars == <<produced, pPc>>
tVars == <<tBlock, tActive, tPc>>
rVars == <<rBlock, rActive, rPc>>
cVars == <<consumed, cPc>>
bVars == <<ShutDown, boss>>
vars == <<queues, pVars, tVars, rVars, cVars, bVars>>

DoneSeq == -1   \* a negative sequence number ends a producer's messages
Msg(p, n) == [destination |-> p, sequence |-> n]
IsDone(m) == m.sequence < 0

Init ==
  /\ p2tq = <<>> /\ t2rq = <<>> /\ r2cq = [c \in Pairs |-> <<>>]
  /\ produced = [p \in Pairs |-> 0] /\ pPc = [p \in Pairs |-> "run"]
  /\ tBlock = <<>> /\ tActive = Cardinality(Pairs) /\ tPc = "check"
  /\ rBlock = <<>> /\ rActive = Cardinality(Pairs) /\ rPc = "check"
  /\ consumed = [c \in Pairs |-> 0]
  /\ cPc = [c \in Pairs |-> IF goal = 0 THEN "exit" ELSE "run"]
  /\ ShutDown = FALSE
  /\ boss = "producers"

-----------------------------------------------------------------------------
\* Producer: goal numbered messages, then the done message.
ProducerPut(p) ==
  /\ pPc[p] = "run"
  /\ Len(p2tq) < P2T
  /\ IF produced[p] < goal
     THEN /\ p2tq' = Append(p2tq, Msg(p, produced[p]))
          /\ produced' = [produced EXCEPT ![p] = @ + 1]
          /\ UNCHANGED pPc
     ELSE /\ p2tq' = Append(p2tq, Msg(p, DoneSeq))
          /\ pPc' = [pPc EXCEPT ![p] = "exit"]
          /\ UNCHANGED produced
  /\ UNCHANGED <<t2rq, r2cq, tVars, rVars, cVars, bVars>>

\* Fault: the block is not emptied before it is packed again.
TransmitterCheckNoReset ==
  /\ tPc = "check"
  /\ tPc' = IF ShutDown THEN "exit" ELSE "get"
  /\ UNCHANGED <<tBlock, queues, pVars, tActive, rVars, cVars, bVars>>

\* Transmitter: while (!ShutDown), start an empty block.
TransmitterCheck ==
  /\ tPc = "check"
  /\ IF ShutDown
     THEN tPc' = "exit" /\ UNCHANGED tBlock
     ELSE tPc' = "get" /\ tBlock' = <<>>
  /\ UNCHANGED <<queues, pVars, tActive, rVars, cVars, bVars>>

\* Fault: the last, incomplete block is never sent.
BlockCompleteFullOnly(block, active) == Len(block) = TBLOCK_SIZE

\* Fault: one message more than the block has room for.
BlockCompleteLate(block, active) == Len(block) > TBLOCK_SIZE \/ active = 0

\* The for loop ends with a full block or the last producer's done message.
BlockComplete(block, active) == Len(block) = TBLOCK_SIZE \/ active = 0

\* Take one message into the block.
TransmitterGet ==
  /\ tPc = "get"
  /\ p2tq # <<>>
  /\ p2tq' = Tail(p2tq)
  /\ tBlock' = Append(tBlock, Head(p2tq))
  /\ tActive' = IF IsDone(Head(p2tq)) THEN tActive - 1 ELSE tActive
  /\ tPc' = IF BlockComplete(tBlock', tActive') THEN "put" ELSE "get"
  /\ UNCHANGED <<t2rq, r2cq, pVars, rVars, cVars, bVars>>

\* Fault: the first done message, not the last, ends the Transmitter.
TransmitterPutFirstDone ==
  /\ tPc = "put"
  /\ Len(t2rq) < T2R
  /\ t2rq' = Append(t2rq, tBlock)
  /\ tPc' = IF tActive < Cardinality(Pairs) THEN "exit" ELSE "check"
  /\ UNCHANGED <<p2tq, r2cq, pVars, tBlock, tActive, rVars, cVars, bVars>>

\* Send the block; return when no producer is active.
TransmitterPut ==
  /\ tPc = "put"
  /\ Len(t2rq) < T2R
  /\ t2rq' = Append(t2rq, tBlock)
  /\ tPc' = IF tActive = 0 THEN "exit" ELSE "check"
  /\ UNCHANGED <<p2tq, r2cq, pVars, tBlock, tActive, rVars, cVars, bVars>>

\* Receiver: while (!ShutDown), take the next block.
ReceiverCheck ==
  /\ rPc = "check"
  /\ rPc' = IF ShutDown THEN "exit" ELSE "get"
  /\ UNCHANGED <<queues, pVars, tVars, rBlock, rActive, cVars, bVars>>

ReceiverGet ==
  /\ rPc = "get"
  /\ t2rq # <<>>
  /\ t2rq' = Tail(t2rq)
  /\ rBlock' = Head(t2rq)
  /\ rPc' = "put"
  /\ UNCHANGED <<p2tq, r2cq, pVars, tVars, rActive, cVars, bVars>>

\* Pass one message of the block to its consumer; the last producer's done
\* message ends the thread, the end of the block the for loop.
ReceiverPut ==
  LET m == Head(rBlock) IN
  /\ rPc = "put"
  /\ Len(r2cq[m.destination]) < R2C
  /\ r2cq' = [r2cq EXCEPT ![m.destination] = Append(@, m)]
  /\ rActive' = IF IsDone(m) THEN rActive - 1 ELSE rActive
  /\ rBlock' = Tail(rBlock)
  /\ rPc' = IF rActive' = 0 THEN "exit" ELSE IF rBlock' = <<>> THEN "check" ELSE "put"
  /\ UNCHANGED <<p2tq, t2rq, pVars, tVars, cVars, bVars>>

\* Consumer: returns on a done message, or when it has its goal; the done
\* message that follows the last message stays in its queue.
ConsumerGet(c) ==
  /\ cPc[c] = "run"
  /\ r2cq[c] # <<>>
  /\ r2cq' = [r2cq EXCEPT ![c] = Tail(@)]
  /\ IF IsDone(Head(r2cq[c]))
     THEN cPc' = [cPc EXCEPT ![c] = "exit"] /\ UNCHANGED consumed
     ELSE /\ consumed' = [consumed EXCEPT ![c] = @ + 1]
          /\ cPc' = [cPc EXCEPT ![c] = IF consumed[c] + 1 < goal THEN "run" ELSE "exit"]
  /\ UNCHANGED <<p2tq, t2rq, pVars, tVars, rVars, bVars>>

\* The boss: WaitForSingleObject on each producer, then each consumer, then
\* the shutdown flag, the Transmitter, the Receiver, and the queues.
BossWaitProducers ==
  /\ boss = "producers"
  /\ \A p \in Pairs : pPc[p] = "exit"
  /\ boss' = "consumers"
  /\ UNCHANGED ShutDown

BossWaitConsumers ==
  /\ boss = "consumers"
  /\ \A c \in Pairs : cPc[c] = "exit"
  /\ ShutDown' = TRUE
  /\ boss' = "transmitter"

BossWaitTransmitter ==
  /\ boss = "transmitter"
  /\ tPc = "exit"
  /\ boss' = "receiver"
  /\ UNCHANGED ShutDown

BossWaitReceiver ==
  /\ boss = "receiver"
  /\ rPc = "exit"
  /\ boss' = "finished"
  /\ UNCHANGED ShutDown

Boss ==
  /\ \/ BossWaitProducers \/ BossWaitConsumers
     \/ BossWaitTransmitter \/ BossWaitReceiver
  /\ UNCHANGED <<queues, pVars, tVars, rVars, cVars>>

Finished == boss = "finished" /\ UNCHANGED vars

Transmitter == TransmitterCheck \/ TransmitterGet \/ TransmitterPut
Receiver == ReceiverCheck \/ ReceiverGet \/ ReceiverPut

Next ==
  \/ \E p \in Pairs : ProducerPut(p)
  \/ Transmitter
  \/ Receiver
  \/ \E c \in Pairs : ConsumerGet(c)
  \/ Boss
  \/ Finished

\* Every thread that can go on does so in the end.  A QueuePut that stays
\* possible returns: there are finitely many other calls to overtake it.
Fairness ==
  /\ \A p \in Pairs : WF_vars(ProducerPut(p))
  /\ WF_vars(Transmitter)
  /\ WF_vars(Receiver)
  /\ \A c \in Pairs : WF_vars(ConsumerGet(c))
  /\ WF_vars(Boss)

Spec == Init /\ [][Next]_vars
FairSpec == Spec /\ Fairness

-----------------------------------------------------------------------------
Message == [destination : Pairs, sequence : {DoneSeq} \cup (0 .. goal - 1)]

\* Every variable has its type; no queue and no block exceeds its length.
TypeOK ==
  /\ p2tq \in Seq(Message) /\ Len(p2tq) <= P2T
  /\ t2rq \in Seq(Seq(Message)) /\ Len(t2rq) <= T2R
  /\ \A b \in Range(t2rq) : Len(b) \in 1 .. TBLOCK_SIZE
  /\ r2cq \in [Pairs -> Seq(Message)] /\ \A c \in Pairs : Len(r2cq[c]) <= R2C
  /\ produced \in [Pairs -> 0 .. goal] /\ pPc \in [Pairs -> {"run", "exit"}]
  /\ tBlock \in Seq(Message) /\ Len(tBlock) <= TBLOCK_SIZE
  /\ tActive \in 0 .. Cardinality(Pairs) /\ tPc \in {"check", "get", "put", "exit"}
  /\ rBlock \in Seq(Message) /\ Len(rBlock) <= TBLOCK_SIZE
  /\ rActive \in 0 .. Cardinality(Pairs) /\ rPc \in {"check", "get", "put", "exit"}
  /\ consumed \in [Pairs -> 0 .. goal] /\ cPc \in [Pairs -> {"run", "exit"}]
  /\ ShutDown \in BOOLEAN
  /\ boss \in {"producers", "consumers", "transmitter", "receiver", "finished"}

\* Everything on its way to consumer c, oldest first, as a sequence of sequences: its
\* own queue and, from the Receiver's block back to p2tq, what all consumers share.
Line(c) ==
  LET n == Len(t2rq)
  IN [k \in 1 .. n + 4 |->
        CASE k = 1 -> r2cq[c]
          [] k = 2 -> rBlock
          [] k = n + 3 -> IF tPc \in {"get", "put"} THEN tBlock ELSE <<>>
          [] k = n + 4 -> p2tq
          [] OTHER -> t2rq[k - 2]]

\* The messages of a producer are numbered from 0, the done message is the last.
Number(m) == IF IsDone(m) THEN goal ELSE m.sequence
Numbered(c, n) == Msg(c, IF n = goal THEN DoneSeq ELSE n)
\* The numbers of the messages that have been put and that c has yet to get.
Underway(c) == consumed[c] .. IF pPc[c] = "exit" THEN goal ELSE produced[c] - 1

\* The messages for c in the line are those with the given numbers, in order.
Before(k, i, l, j) == k < l \/ (k = l /\ i < j)
Only(c, line, numbers) ==
  \A k \in DOMAIN line : \A i \in DOMAIN line[k] :
    line[k][i].destination = c => Number(line[k][i]) \in numbers
All(c, line, numbers) ==
  \A n \in numbers : \E k \in DOMAIN line : \E i \in DOMAIN line[k] : line[k][i] = Numbered(c, n)
InOrder(c, line) ==
  \A k, l \in DOMAIN line : \A i \in DOMAIN line[k], j \in DOMAIN line[l] :
    line[k][i].destination = c /\ line[l][j].destination = c /\ Before(k, i, l, j)
    => Number(line[k][i]) < Number(line[l][j])
Carries(c, line, numbers) == Only(c, line, numbers) /\ All(c, line, numbers) /\ InOrder(c, line)

\* No message is lost, duplicated, misdirected or overtaken between a producer
\* and its consumer: what is in transit continues exactly where the consumer
\* stands and ends where the producer stands, the done message last.
PipelineOrder ==
  \A c \in Pairs : /\ \A i \in DOMAIN r2cq[c] : r2cq[c][i].destination = c
                   /\ Carries(c, Line(c), Underway(c))

\* The Transmitter and the Receiver give up for want of producers only after
\* every producer's done message has passed through them, so nothing can be
\* stranded behind a thread that has returned.
ExitAfterDone ==
  /\ tPc = "exit" /\ ~ShutDown => p2tq = <<>> /\ \A p \in Pairs : pPc[p] = "exit"
  /\ rPc = "exit" /\ ~ShutDown => t2rq = <<>> /\ rBlock = <<>> /\ tPc = "exit"

\* Every consumer receives all the messages meant for it: the last ones are
\* sent although they do not fill a block.
AllConsumed == <>(\A c \in Pairs : consumed[c] = goal /\ cPc[c] = "exit")

\* The Transmitter always ends, and the program ends or is left with nothing
\* but the Receiver waiting for a block.
EndsOrReceiverWaits ==
  <>[](\/ boss = "finished"
       \/ boss = "receiver" /\ tPc = "exit" /\ rPc = "get" /\ t2rq = <<>>)

\* Both together: all is consumed, and then nothing but the Receiver may be
\* left, waiting in QueueGet for a block that nobody will send.
PipelineEnds == AllConsumed /\ EndsOrReceiverWaits

\* The program runs to its end: "System has finished. Shutting down".
\* Fails, and no run checks it: see section 7 of the README.
SystemFinishes == <>(boss = "finished")
=============================================================================
