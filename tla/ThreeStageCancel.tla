-------------------------- MODULE ThreeStageCancel --------------------------
(***************************************************************************)
(* ThreeStageCancel on the queue of QueueObjCancel: the three stage        *)
(* pipeline without final messages.  The boss ends the transmitter and the *)
(* receiver by an APC, which runs when its thread is in an alertable wait. *)
(*                                                                         *)
(* A thread is in the statement pc of its own function ("check", "done")   *)
(* or of the queue call op on q: "lock", "wait", "check APC", "act",       *)
(* "ret".                                                                  *)
(***************************************************************************)
EXTENDS Naturals, Sequences, FiniteSets, SequencesExt

CONSTANTS
  Pairs,           \* numbers of the producers, and of the consumers
  Arguments,       \* nThread and goal: how many of them, and messages of each
  TBLOCK_SIZE,     \* messages of a block
  Capacity         \* messages that a queue holds

VARIABLES
  nThread, goal,   \* the arguments of the program
  queue, guard, signaled,  \* guard[q]: its owner; signaled: pairs of a queue and event
  th,              \* th[t]: pc, op, q, msg
  workDone,        \* of producers and consumers
  tBlock, rBlock,
  apc,             \* threads with a queued APC
  shutDownGet, shutDownPut, ShutDown, boss

args == <<nThread, goal>>
queues == <<queue, guard, signaled>>
flags == <<shutDownGet, shutDownPut, ShutDown>>
work == <<workDone, tBlock, rBlock>>
tscVars == <<args, queues, th, work, apc, flags, boss>>

Producer(n) == <<"producer", n>>
Consumer(n) == <<"consumer", n>>
Transmitter == <<"transmitter", 0>>
Receiver == <<"receiver", 0>>
Producers == {Producer(n) : n \in Pairs}
Consumers == {Consumer(n) : n \in Pairs}
Threads == Producers \cup Consumers \cup {Transmitter, Receiver}
Nobody == <<"nobody", 0>>
p2tq == <<"p2tq", 0>>
t2rq == <<"t2rq", 0>>
r2cq(n) == <<"r2cq", n>>
Queues == {p2tq, t2rq} \cup {r2cq(n) : n \in Pairs}
NoMsg == <<>>
At(pc) == [pc |-> pc, op |-> "none", q |-> p2tq, msg |-> NoMsg]
Call(op, q, msg) == [pc |-> "lock", op |-> op, q |-> q, msg |-> msg]

-----------------------------------------------------------------------------
\* QueueGet and QueuePut.
Cancelled(op) == IF op = "get" THEN shutDownGet ELSE shutDownPut
Blocks(op, q) == IF op = "get" THEN queue[q] = <<>> ELSE Len(queue[q]) = Capacity
Event(op) == IF op = "get" THEN "qNe" ELSE "qNf"
Goto(t, pc) == th' = [th EXCEPT ![t].pc = pc]

\* The guard is taken and the condition of the loop tested; SignalObjectAndWait
\* releases the guard.
Enter(t) ==
  LET q == th[t].q
      e == <<q, Event(th[t].op)>>
  IN /\ th[t].pc = "lock" /\ guard[q] = Nobody
     /\ IF Cancelled(th[t].op) \/ ~Blocks(th[t].op, q)
        THEN Goto(t, "act") /\ guard' = [guard EXCEPT ![q] = t] /\ UNCHANGED signaled
        ELSE /\ signaled' = signaled \ {e} /\ UNCHANGED guard
             /\ Goto(t, IF e \in signaled THEN "lock" ELSE "wait")
     /\ UNCHANGED <<args, queue, work, apc, flags, boss>>
\* QueueShutDown, called with 1 in the transmitter and 2 in the receiver.
QueueShutDown(t) ==
  /\ th[t].pc = "wait" /\ t \in apc /\ apc' = apc \ {t} /\ Goto(t, "check APC")
  /\ shutDownGet' = (shutDownGet \/ t = Transmitter)
  /\ shutDownPut' = (shutDownPut \/ t = Receiver)
  /\ UNCHANGED <<args, queues, work, ShutDown, boss>>
CheckAPCAlways(t) ==  \* Fault: the loop continues to the queue in any case.
  /\ th[t].pc = "check APC" /\ Goto(t, "act")
  /\ UNCHANGED <<args, queues, work, apc, flags, boss>>
\* The loop continues and ends, without the guard, if the call is cancelled.
CheckAPC(t) ==
  /\ th[t].pc = "check APC" /\ Goto(t, IF Cancelled(th[t].op) THEN "act" ELSE "lock")
  /\ UNCHANGED <<args, queues, work, apc, flags, boss>>
\* SetEvent lets one waiting thread go on, or leaves the event signaled.
Waiting(q, op) == {u \in Threads : th[u].pc = "wait" /\ th[u].q = q /\ th[u].op = op}
Other(op) == IF op = "get" THEN "put" ELSE "get"
SetEventNone(q, op, thNow) == th' = thNow /\ signaled' = signaled  \* Fault: no event is set.
SetEvent(q, op, thNow) ==
  IF Waiting(q, op) = {} THEN signaled' = signaled \cup {<<q, Event(op)>>} /\ th' = thNow
  ELSE \E u \in Waiting(q, op) : th' = [thNow EXCEPT ![u].pc = "lock"] /\ UNCHANGED signaled
\* A cancelled call returns as it is, with or without the guard.
Act(t) ==
  LET q == th[t].q
      op == th[t].op
  IN /\ th[t].pc = "act"
     /\ IF Cancelled(op) THEN Goto(t, "ret") /\ UNCHANGED queues
        ELSE /\ guard' = [guard EXCEPT ![q] = Nobody]
             /\ queue' = [queue EXCEPT ![q] = IF op = "get" THEN Tail(@) ELSE Append(@, th[t].msg)]
             /\ SetEvent(q, Other(op),
                  [th EXCEPT ![t] = [@ EXCEPT !.pc = "ret",
                                              !.msg = IF op = "get" THEN Head(queue[q]) ELSE NoMsg]])
     /\ UNCHANGED <<args, work, apc, flags, boss>>
QueueCall(t) == Enter(t) \/ QueueShutDown(t) \/ CheckAPC(t) \/ Act(t)

-----------------------------------------------------------------------------
\* What the threads do when a call returns: 0, or WAIT_TIMEOUT if cancelled.
\* A guard that a thread owns when it ends is abandoned, which is not an error.
Ends(t) ==
  /\ th' = [th EXCEPT ![t] = At("done")]
  /\ guard' = [q \in Queues |-> IF guard[q] = t THEN Nobody ELSE guard[q]]
Continues(t, next) == th' = [th EXCEPT ![t] = next] /\ UNCHANGED guard
Failed(t) == Cancelled(th[t].op)

\* The calls of a producer and of a consumer that has done k of its work.
NextPut(n, k) == IF k < goal THEN Call("put", p2tq, <<n, k>>) ELSE At("done")
NextGet(n, k) == IF k < goal THEN Call("get", r2cq(n), NoMsg) ELSE At("done")
\* A producer counts the message whatever the call returns.
ProducerStep(n) ==
  LET t == Producer(n)
  IN /\ th[t].pc = "ret" /\ workDone' = [workDone EXCEPT ![t] = @ + 1]
     /\ Continues(t, NextPut(n, workDone'[t]))
     /\ UNCHANGED <<args, queue, signaled, tBlock, rBlock, apc, flags, boss>>
ConsumerStep(n) ==
  LET t == Consumer(n)
  IN /\ th[t].pc = "ret"
     /\ IF Failed(t) THEN Ends(t) /\ UNCHANGED workDone
        ELSE workDone' = [workDone EXCEPT ![t] = @ + 1] /\ Continues(t, NextGet(n, workDone'[t]))
     /\ UNCHANGED <<args, queue, signaled, tBlock, rBlock, apc, flags, boss>>
BlockReady(block, failed) == failed \/ Len(block) = TBLOCK_SIZE
\* The block is sent when it is full, or when a get has been cancelled.
TransmitterStep ==
  LET t == Transmitter
  IN /\ \/ /\ th[t].pc = "check"
           /\ IF ShutDown THEN Ends(t) /\ UNCHANGED tBlock
              ELSE tBlock' = <<>> /\ Continues(t, Call("get", p2tq, NoMsg))
        \/ /\ th[t].pc = "ret" /\ th[t].op = "get"
           /\ tBlock' = IF Failed(t) THEN tBlock ELSE Append(tBlock, th[t].msg)
           /\ Continues(t, IF BlockReady(tBlock', Failed(t))
                           THEN Call("put", t2rq, tBlock') ELSE Call("get", p2tq, NoMsg))
        \/ /\ th[t].pc = "ret" /\ th[t].op = "put" /\ tBlock' = <<>>
           /\ IF Failed(t) THEN Ends(t) ELSE Continues(t, At("check"))
     /\ UNCHANGED <<args, queue, signaled, workDone, rBlock, apc, flags, boss>>
DistributeReversed(block) ==  \* Fault: the block is unpacked from its end.
  /\ rBlock' = Reverse(block)
  /\ Continues(Receiver, IF block = <<>> THEN At("check")
                         ELSE Call("put", r2cq(Last(block)[1]), Last(block)))
Distribute(block) ==
  /\ rBlock' = block
  /\ Continues(Receiver, IF block = <<>> THEN At("check")
                         ELSE Call("put", r2cq(Head(block)[1]), Head(block)))
ReceiverStep ==
  LET t == Receiver
  IN /\ \/ /\ th[t].pc = "check" /\ UNCHANGED rBlock
           /\ IF ShutDown THEN Ends(t) ELSE Continues(t, Call("get", t2rq, NoMsg))
        \/ /\ th[t].pc = "ret" /\ Failed(t) /\ Ends(t) /\ UNCHANGED rBlock
        \/ /\ th[t].pc = "ret" /\ ~Failed(t)
           /\ Distribute(IF th[t].op = "get" THEN th[t].msg ELSE Tail(rBlock))
     /\ UNCHANGED <<args, queue, signaled, workDone, tBlock, apc, flags, boss>>

-----------------------------------------------------------------------------
\* The boss waits for the threads in turn, and cancels the last two.
Over(ts) == \A t \in ts : th[t].pc = "done"
BossStep ==
  /\ \/ /\ boss = "producers" /\ Over(Producers) /\ boss' = "consumers" /\ UNCHANGED <<ShutDown, apc>>
     \/ /\ boss = "consumers" /\ Over(Consumers) /\ boss' = "cancel T"
        /\ ShutDown' = TRUE /\ UNCHANGED apc
     \/ /\ boss = "cancel T" /\ boss' = "cancel R" /\ apc' = apc \cup {Transmitter} /\ UNCHANGED ShutDown
     \/ /\ boss = "cancel R" /\ boss' = "join" /\ apc' = apc \cup {Receiver} /\ UNCHANGED ShutDown
     \/ /\ boss = "join" /\ Over({Transmitter, Receiver}) /\ boss' = "finished"
        /\ UNCHANGED <<ShutDown, apc>>
  /\ UNCHANGED <<args, queues, th, work, shutDownGet, shutDownPut>>

InitOf(n, g) ==
  /\ nThread = n /\ goal = g
  /\ queue = [q \in Queues |-> <<>>] /\ guard = [q \in Queues |-> Nobody] /\ signaled = {}
  /\ th = [t \in Threads |->
            IF n = 0 \/ t[2] > n THEN At("done")
            ELSE IF t \in Producers THEN NextPut(t[2], 0)
            ELSE IF t \in Consumers THEN NextGet(t[2], 0) ELSE At("check")]
  /\ workDone = [t \in Producers \cup Consumers |-> 0] /\ tBlock = <<>> /\ rBlock = <<>>
  /\ apc = {} /\ shutDownGet = FALSE /\ shutDownPut = FALSE /\ ShutDown = FALSE
  /\ boss = IF n = 0 THEN "finished" ELSE "producers"
Init == \E a \in Arguments : InitOf(a[1], a[2])

Step(t) ==
  \/ QueueCall(t)
  \/ \E n \in Pairs : t = Producer(n) /\ ProducerStep(n)
  \/ \E n \in Pairs : t = Consumer(n) /\ ConsumerStep(n)
  \/ t = Transmitter /\ TransmitterStep
  \/ t = Receiver /\ ReceiverStep
Next == BossStep \/ \E t \in Threads : Step(t)
Fairness == WF_tscVars(BossStep) /\ \A t \in Threads : WF_tscVars(Step(t))
Spec == Init /\ [][Next]_tscVars /\ Fairness

-----------------------------------------------------------------------------
(* Queues, counters and blocks keep within their limits.                   *)
TypeOK ==
  /\ \A q \in Queues : Len(queue[q]) <= Capacity /\ guard[q] \in Threads \cup {Nobody}
  /\ signaled \subseteq Queues \X {"qNe", "qNf"} /\ apc \subseteq {Transmitter, Receiver}
  /\ \A t \in DOMAIN workDone : workDone[t] \in 0..goal
  /\ Len(tBlock) <= TBLOCK_SIZE /\ Len(rBlock) <= TBLOCK_SIZE

(* A queue is only changed by the owner of its guard, although a cancelled  *)
(* call leaves the loop without it: the flags are never reset.              *)
MovesGuarded ==
  \A t \in Threads : th[t].pc = "act" /\ ~Cancelled(th[t].op) => guard[th[t].q] = t

(* Each consumer gets the messages of its producer in order, none twice and *)
(* none lost, until the boss shuts down.                                    *)
Holds(t, ops) == IF th[t].pc = "ret" /\ th[t].op \in ops THEN th[t].msg ELSE NoMsg
Sending == IF th[Transmitter].op = "put" /\ th[Transmitter].pc # "ret" THEN tBlock
           ELSE IF th[Transmitter].op = "put" THEN <<>> ELSE tBlock
Held(t) == IF Holds(t, {"get"}) = NoMsg THEN <<>> ELSE <<Holds(t, {"get"})>>
InReceiver ==
  IF th[Receiver].pc = "ret" THEN IF th[Receiver].op = "get" THEN th[Receiver].msg ELSE Tail(rBlock)
  ELSE rBlock
\* The messages in s that pair n sends; SelectSeq with its definition in view.
Of(n, s) ==
  LET of[i \in 0..Len(s)] ==
        IF i = 0 THEN <<>> ELSE IF s[i][1] = n THEN Append(of[i - 1], s[i]) ELSE of[i - 1]
  IN of[Len(s)]
InTransit(n) ==
  Of(n, Held(Consumer(n)) \o queue[r2cq(n)] \o InReceiver \o FlattenSeq(queue[t2rq])
          \o Sending \o Held(Transmitter) \o queue[p2tq])
PutDone(n) == workDone[Producer(n)] + IF th[Producer(n)].pc = "ret" THEN 1 ELSE 0
DeliveryOrder ==
  ~ShutDown => \A n \in Pairs :
    LET first == workDone[Consumer(n)]
    IN InTransit(n) = [i \in 1..(PutDone(n) - first) |-> <<n, first + i - 1>>]

(* If the messages fill the blocks, every consumer gets all of its own.     *)
FullBlocks == Cardinality((1..nThread) \X (1..goal)) % TBLOCK_SIZE = 0
AllConsumed == [](FullBlocks => <>(\A n \in 1..nThread : workDone[Consumer(n)] = goal))

(* Then the program ends, provided that the APC of the transmitter has run  *)
(* when that of the receiver does: each sets only one of the flags, and the *)
(* receiver needs that of the transmitter.                                  *)
EndsInOrder == [](FullBlocks /\ (shutDownPut => shutDownGet)) => <>(boss = "finished")

(* ThreeStageCancel.c:2: "Get rid termination with negative sequence #s Use *)
(* APC": the program ends.                                                  *)
(* Fails, and no run checks it: see section 7 of the README.                *)
Finishes == <>(boss = "finished")
=============================================================================
