------------------------------- MODULE PThree -------------------------------
(***************************************************************************)
(* ThreeStagePthreads: the three stage pipeline on queues of mutexes and   *)
(* condition variables.  A get gives up after Q_TIMEOUT and is repeated    *)
(* MAX_RETRY times; the flags AllProduced and ShutDown end the stages.     *)
(*                                                                         *)
(* pc[t] is a test of a loop ("check", "inner"), the lock of the queue in  *)
(* q_get or q_put ("get", "put"), a wait there, or "done".                 *)
(***************************************************************************)
EXTENDS Naturals, Sequences, FiniteSets, SequencesExt

CONSTANTS
  Pairs, Arguments,   \* as the boss: npc and goal
  TBLOCK_SIZE, MAX_RETRY,
  QSize               \* q_size: one less is the number of messages

VARIABLES
  npc, goal, queue, pc, retries, workDone, tBlock, rBlock, AllProduced, ShutDown, boss

ptArgs == <<npc, goal>>
ptWork == <<retries, workDone, tBlock, rBlock>>
ptFlags == <<AllProduced, ShutDown, boss>>
ptVars == <<ptArgs, queue, pc, ptWork, ptFlags>>

Producer(n) == <<"producer", n>>
Consumer(n) == <<"consumer", n>>
Transmitter == <<"transmitter", 0>>
Receiver == <<"receiver", 0>>
Producers == {Producer(n) : n \in Pairs}
Consumers == {Consumer(n) : n \in Pairs}
Threads == Producers \cup Consumers \cup {Transmitter, Receiver}
Queues == {<<"p2tq", 0>>, <<"t2rq", 0>>} \cup {<<"r2cq", n>> : n \in Pairs}
Source(t) == CASE t = Transmitter -> <<"p2tq", 0>>
               [] t = Receiver -> <<"t2rq", 0>>
               [] t \in Consumers -> <<"r2cq", t[2]>>
Target(t) == CASE t \in Producers -> <<"p2tq", 0>>
               [] t = Transmitter -> <<"t2rq", 0>>
               [] t = Receiver -> <<"r2cq", Head(rBlock)[1]>>
MessageOf(t) == CASE t \in Producers -> <<t[2], workDone[t]>>
                  [] t = Transmitter -> tBlock
                  [] t = Receiver -> Head(rBlock)
q_empty(q) == queue[q] = <<>>
q_full(q) == Len(queue[q]) = QSize - 1

-----------------------------------------------------------------------------
\* All who wait for the queue test it again.
Broadcast(q, wait, again, pcNow) ==
  pc' = [u \in Threads |->
          IF pc[u] = wait /\ (IF again = "get" THEN Source(u) ELSE Target(u)) = q
          THEN again ELSE pcNow[u]]

\* Fault: the retries are not counted.
GotUncounted(t, ok, msg) ==
  /\ workDone' = IF ok /\ t \in Consumers THEN [workDone EXCEPT ![t] = @ + 1] ELSE workDone
  /\ tBlock' = IF ok /\ t = Transmitter THEN Append(tBlock, msg) ELSE tBlock
  /\ rBlock' = IF ok /\ t = Receiver THEN msg ELSE rBlock
  /\ UNCHANGED retries
\* A thread after q_get: a message, or none.
Got(t, ok, msg) ==
  /\ retries' = [retries EXCEPT ![t] = IF ok THEN 0 ELSE @ + 1]
  /\ workDone' = IF ok /\ t \in Consumers THEN [workDone EXCEPT ![t] = @ + 1] ELSE workDone
  /\ tBlock' = IF ok /\ t = Transmitter THEN Append(tBlock, msg) ELSE tBlock
  /\ rBlock' = IF ok /\ t = Receiver THEN msg ELSE rBlock
NextAfterGet(t, msg) ==
  IF t = Transmitter THEN "inner"
  ELSE IF t = Receiver /\ msg # <<>> THEN "put" ELSE "check"
q_get(t) ==
  LET q == Source(t)
  IN /\ pc[t] = "get"
     /\ IF q_empty(q)
        THEN pc' = [pc EXCEPT ![t] = "get wait"] /\ UNCHANGED <<queue, ptWork>>
        ELSE /\ queue' = [queue EXCEPT ![q] = Tail(@)] /\ Got(t, TRUE, Head(queue[q]))
             /\ Broadcast(q, "put wait", "put",
                          [pc EXCEPT ![t] = NextAfterGet(t, Head(queue[q]))])
     /\ UNCHANGED <<ptArgs, ptFlags>>
TimeOutNever(t) == FALSE /\ UNCHANGED ptVars   \* Fault: the wait has no limit.
\* pthread_cond_timedwait returns ETIMEDOUT.
TimeOut(t) ==
  /\ pc[t] = "get wait" /\ Got(t, FALSE, <<>>)
  /\ pc' = [pc EXCEPT ![t] = NextAfterGet(t, <<>>)]
  /\ UNCHANGED <<ptArgs, queue, ptFlags>>
NextAfterPut(t) == IF t = Receiver /\ Len(rBlock) > 1 THEN "put" ELSE "check"
q_put(t) ==
  LET q == Target(t)
  IN /\ pc[t] = "put"
     /\ IF q_full(q)
        THEN pc' = [pc EXCEPT ![t] = "put wait"] /\ UNCHANGED <<queue, ptWork>>
        ELSE /\ queue' = [queue EXCEPT ![q] = Append(@, MessageOf(t))]
             /\ workDone' = IF t \in Producers THEN [workDone EXCEPT ![t] = @ + 1] ELSE workDone
             /\ rBlock' = IF t = Receiver THEN Tail(rBlock) ELSE rBlock
             /\ Broadcast(q, "get wait", "get", [pc EXCEPT ![t] = NextAfterPut(t)])
             /\ UNCHANGED <<retries, tBlock>>
     /\ UNCHANGED <<ptArgs, ptFlags>>

\* The tests of the loops.
Works(t) == workDone[t] < goal /\ ~ShutDown
CheckOf(t, goes, next) ==
  /\ pc[t] = "check" /\ pc' = [pc EXCEPT ![t] = IF goes THEN next ELSE "done"]
  /\ UNCHANGED <<ptArgs, queue, retries, workDone, rBlock, ptFlags>>
CheckProducer(t) == t \in Producers /\ CheckOf(t, Works(t), "put") /\ UNCHANGED tBlock
CheckConsumer(t) ==
  t \in Consumers /\ CheckOf(t, Works(t) /\ retries[t] < MAX_RETRY, "get") /\ UNCHANGED tBlock
CheckReceiver(t) ==
  t = Receiver /\ CheckOf(t, ~ShutDown /\ retries[t] < MAX_RETRY, "get") /\ UNCHANGED tBlock
CheckTransmitter(t) ==
  /\ t = Transmitter /\ CheckOf(t, ~ShutDown /\ ~AllProduced, "inner")
  /\ tBlock' = IF pc'[t] = "inner" THEN <<>> ELSE tBlock
InnerTestDrops(t) ==  \* Fault: a block that is not full is not sent.
  /\ pc[t] = "inner"
  /\ IF Len(tBlock) < TBLOCK_SIZE /\ (retries[t] >= MAX_RETRY \/ ShutDown \/ AllProduced)
     THEN tBlock' = <<>> /\ pc' = [pc EXCEPT ![t] = "check"] /\ UNCHANGED <<retries, workDone, rBlock>>
     ELSE /\ pc' = [pc EXCEPT ![t] = IF Len(tBlock) < TBLOCK_SIZE THEN "get" ELSE "put"]
          /\ UNCHANGED ptWork
  /\ UNCHANGED <<ptArgs, queue, ptFlags>>
\* A block is sent when it is full, and as it is when a flag is set or after the retries.
InnerTest(t) ==
  /\ pc[t] = "inner"
  /\ pc' = [pc EXCEPT ![t] = IF /\ Len(tBlock) < TBLOCK_SIZE /\ retries[t] < MAX_RETRY
                                /\ ~ShutDown /\ ~AllProduced
                             THEN "get" ELSE "put"]
  /\ UNCHANGED <<ptArgs, queue, ptWork, ptFlags>>
Check(t) == CheckProducer(t) \/ CheckConsumer(t) \/ CheckReceiver(t) \/ CheckTransmitter(t)

Over(ts) == \A t \in ts : pc[t] = "done"
BossStep ==
  /\ \/ /\ boss = "producers" /\ Over(Producers) /\ boss' = "consumers"
        /\ AllProduced' = TRUE /\ UNCHANGED ShutDown
     \/ /\ boss = "consumers" /\ Over(Consumers) /\ boss' = "join"
        /\ ShutDown' = TRUE /\ UNCHANGED AllProduced
     \/ /\ boss = "join" /\ Over(Threads) /\ boss' = "finished" /\ UNCHANGED <<AllProduced, ShutDown>>
  /\ UNCHANGED <<ptArgs, queue, pc, ptWork>>

InitOf(n, g) ==
  /\ npc = n /\ goal = g
  /\ queue = [q \in Queues |-> <<>>]
  /\ pc = [t \in Threads |-> IF n = 0 \/ t[2] > n THEN "done" ELSE "check"]
  /\ retries = [t \in Threads |-> 0]
  /\ workDone = [t \in Producers \cup Consumers |-> 0] /\ tBlock = <<>> /\ rBlock = <<>>
  /\ AllProduced = FALSE /\ ShutDown = FALSE /\ boss = IF n = 0 THEN "finished" ELSE "producers"
Init == \E a \in Arguments : InitOf(a[1], a[2])

Step(t) == q_get(t) \/ TimeOut(t) \/ q_put(t) \/ Check(t) \/ InnerTest(t)
Next == BossStep \/ \E t \in Threads : Step(t)
Fairness == WF_ptVars(BossStep) /\ \A t \in Threads : WF_ptVars(Step(t))
Spec == Init /\ [][Next]_ptVars /\ Fairness

-----------------------------------------------------------------------------
(* Queues, counters and blocks keep within their limits.                   *)
TypeOK ==
  /\ \A q \in Queues : Len(queue[q]) < QSize
  /\ \A t \in Threads : retries[t] \in 0..MAX_RETRY
  /\ \A t \in DOMAIN workDone : workDone[t] \in 0..goal
  /\ Len(tBlock) <= TBLOCK_SIZE /\ Len(rBlock) <= TBLOCK_SIZE

(* What a consumer has got and what is on its way to it is what its         *)
(* producer has put, in order: stages that give up leave messages in a      *)
(* queue but none is lost, repeated or overtaken between two of them.       *)
Packing == IF pc[Transmitter] \in {"inner", "get", "get wait", "put", "put wait"} THEN tBlock ELSE <<>>
\* The messages in s that pair n sends; SelectSeq with its definition in view.
Of(n, s) ==
  LET of[i \in 0..Len(s)] ==
        IF i = 0 THEN <<>> ELSE IF s[i][1] = n THEN Append(of[i - 1], s[i]) ELSE of[i - 1]
  IN of[Len(s)]
InTransit(n) ==
  Of(n, queue[<<"r2cq", n>>] \o rBlock \o FlattenSeq(queue[<<"t2rq", 0>>]) \o Packing
          \o queue[<<"p2tq", 0>>])
Conserved ==
  \A n \in Pairs :
    LET first == workDone[Consumer(n)]
    IN InTransit(n) = [i \in 1..(workDone[Producer(n)] - first) |-> <<n, first + i - 1>>]

(* A thread has given up when its retries are used up.                      *)
GaveUp == \E t \in Threads : retries[t] = MAX_RETRY

(* Every consumer ends, even when a stage before it has stopped early.      *)
ConsumersEnd == <>Over(Consumers)

(* If no thread gives up the program ends, and every message is consumed.   *)
EndsUnlessGaveUp ==
  <>(GaveUp \/ (boss = "finished" /\ \A n \in 1..npc : workDone[Consumer(n)] = goal))

(* ThreeStage.c:169: "Set a shutdown flag - All messages have been consumed"*)
(* Fails, and no run checks it: see section 7 of the README.                *)
AllConsumedAtShutDown == ShutDown => \A n \in 1..npc : workDone[Consumer(n)] = goal
=============================================================================
