----------------------------- MODULE MsgQueues ------------------------------
(***************************************************************************)
(* The emulation of System V message queues between the threads of one     *)
(* process (msg_emulation.c), used either by its test program or by        *)
(* threads that make any of the calls in Calls.  Everything happens with   *)
(* q_guard locked, so a call is one step up to its return or to a wait on  *)
(* a condition variable; each awakening is a further step.                 *)
(*                                                                         *)
(* build:  "pthreads", a wait ends by a broadcast;  "win32", it also ends  *)
(*         by CV_TIMEOUT, and q_guard may be locked again by its owner.    *)
(* at[t]:  "idle"; "e_qne", "e_qnf" or "e_q_not_busy", waiting for it;     *)
(*         "awake", back from a wait with its call unfinished; "over"      *)
(***************************************************************************)
EXTENDS Integers, Sequences, FiniteSets, SequencesExt, Functions

CONSTANTS
  MSG_MAX_NUMBER_QUEUES,
  MQ_MAX_MESSAGE_SIZE, MQ_MAX_BYTES_IN_QUEUE, MQ_MAX_BYTES_IN_SYSTEM,
  LongSize,              \* sizeof(long), the part of a message for its type
  Calls,                 \* the calls made by a program other than the test
  Callers, MaxCalls,     \* threads of that program, bound on their calls
  np, goal, DataSize, TestBytes   \* the test: producers, messages, their size, queue size

Queues == 1..MSG_MAX_NUMBER_QUEUES
main == 0
Producers == 1..np
Consumers == (np + 1)..(2 * np)
Threads == 0..(2 * np)
IPC_PRIVATE == 9
MSGQ_KEY == 1
Free == -1
\* A call that returns -1 has the negative of its error number as its result.
EPERM == -1
EAGAIN == -11
EACCES == -13
EEXIST == -17
EINVAL == -22
ENOSPC == -28
ENOMSG == -35

\* What a program may pass.
GoodCall(c) ==
  /\ c.op \in {"msgget", "msgsnd", "msgrcv", "msgctl"}
  /\ c.op = "msgget" => c.key \in Nat \ {0} /\ c.mode \subseteq {"r", "w"}
  /\ c.op = "msgsnd" => c.type \in Int /\ c.len \in Nat /\ c.seq \in Nat
  /\ c.op = "msgrcv" => c.type \in Int /\ c.size \in Nat
  /\ c.op = "msgctl" => c.user \in {"super", "owner", "other"}  \* who calls, for the queue c.q
  /\ c.op = "msgctl" /\ c.cmd = "IPC_SET" => c.qbytes \in Nat /\ c.mode \subseteq {"r", "w"}
QueuesAssumption ==
  /\ {MQ_MAX_MESSAGE_SIZE, MQ_MAX_BYTES_IN_QUEUE, MQ_MAX_BYTES_IN_SYSTEM, LongSize} \subseteq Nat
  /\ {np, goal, DataSize, TestBytes} \subseteq Nat /\ MSG_MAX_NUMBER_QUEUES \in Nat \ {0}
  /\ DataSize <= MQ_MAX_MESSAGE_SIZE
  /\ \A c \in Calls : GoodCall(c)

VARIABLES program, build, mq, q_current, b_current, guard, at, call, made, result, got

vars == <<program, build, mq, q_current, b_current, guard, at, call, made, result, got>>
table == <<mq, q_current, b_current>>

NoQueue == [key |-> 0, busy |-> FALSE, msgs |-> <<>>, cbytes |-> 0, qnum |-> 0,
            qbytes |-> 0, mode |-> {}]
NoCall == [op |-> "none"]

InitOf(p, b) ==
  /\ program = p /\ build = b
  /\ mq = [q \in Queues |-> NoQueue] /\ q_current = 0 /\ b_current = 0
  /\ guard = Free /\ at = [t \in Threads |-> IF p = "none" \/ (p = "any" /\ t \notin Callers) THEN "over" ELSE "idle"]
  /\ call = [t \in Threads |-> NoCall] /\ made = [t \in Threads |-> 0]
  /\ result = [t \in Threads |-> 0] /\ got = [t \in Threads |-> <<>>]
Init == \E p \in {"test", "any"}, b \in {"pthreads", "win32"} : InitOf(p, b)

-----------------------------------------------------------------------------
msgq_valid(q) == q \in Queues /\ mq[q].key > 0
\* msgq_access for one user: the mode must grant the operation.
msgq_access(q, op) == op \in mq[q].mode

\* The condition variable predicates.
HysteresisWhole(q, h) ==  \* Fault: the broadcast waits for an empty queue.
  IF h < 0 THEN mq[q].qbytes ELSE h
Hysteresis(q, h) ==
  LET slack == IF h < 0 THEN MQ_MAX_MESSAGE_SIZE ELSE h
      most == mq[q].qbytes \div 4
  IN IF slack >= most THEN most ELSE slack
not_full_Queue(msgsz, q, h) ==  \* Fault: the limit of the system is forgotten.
  msgsz + Hysteresis(q, h) + LongSize + mq[q].cbytes < mq[q].qbytes
not_full(msgsz, q, h) ==
  /\ msgsz + Hysteresis(q, h) + LongSize + b_current < MQ_MAX_BYTES_IN_SYSTEM
  /\ msgsz + Hysteresis(q, h) + LongSize + mq[q].cbytes < mq[q].qbytes
message_exists(q) == mq[q].qnum > 0

\* update_status: n > 0 for a message sent, n < 0 for one received.  When n = 0
\* the room of a message's type is added, whatever was done.
update_statusType(n) ==  \* Fault: the type is counted twice when received.
  [bytes |-> IF n < 0 THEN n - 2 * LongSize ELSE n + LongSize,
   qnum |-> IF n > 0 THEN 1 ELSE IF n < 0 THEN -1 ELSE 0]
update_status(n) ==
  [bytes |-> IF n < 0 THEN n - LongSize ELSE n + LongSize,
   qnum |-> IF n > 0 THEN 1 ELSE IF n < 0 THEN -1 ELSE 0]

\* GetMessageFromQueue: the place of the message to take, 0 for none.  A type
\* below 0 fits no message.
SatisfactoryAny(q, msgtyp) ==  \* Fault: the type asked for is ignored.
  IF mq[q].msgs = <<>> THEN 0 ELSE 1
Satisfactory(q, msgtyp) ==
  SelectInSeq(mq[q].msgs, LAMBDA m : msgtyp = 0 \/ (msgtyp > 0 /\ m.type = msgtyp))

Broadcast(cvs) == [t \in Threads |-> IF at[t] \in cvs THEN "awake" ELSE at[t]]

LocksAlways(t) == TRUE  \* Fault: the lock does not keep others out.
Locks(t) == guard = Free \/ (guard = t /\ build = "win32")
\* The thread waits: the guard is released (one level of it, if it had been
\* locked by this thread before).
Sleeps(t, c, cv, woken) ==
  /\ at' = [Broadcast(woken) EXCEPT ![t] = cv] /\ call' = [call EXCEPT ![t] = c]
  /\ UNCHANGED <<made, result, guard>>
Returns(t, value, woken) ==
  /\ at' = [Broadcast(woken) EXCEPT ![t] = "idle"]
  /\ call' = [call EXCEPT ![t] = NoCall] /\ made' = [made EXCEPT ![t] = @ + 1]
  /\ result' = [result EXCEPT ![t] = value]
\* Busy is set when a call of msgsnd or msgrcv begins, not again in its loop; the end
\* of any such call clears it, whoever else waits for the queue.
Busy(t, queue) == [queue EXCEPT !.busy = @ \/ call[t] = NoCall]
Unbusy(q, queue) == [mq EXCEPT ![q] = [queue EXCEPT !.busy = FALSE]]

-----------------------------------------------------------------------------
\* msgget.  The test of IPC_CREAT compares the constant with 0 first, so that a
\* missing queue is created whatever the flags; and an existing one is refused
\* with IPC_CREAT, which is no bit of any mode.
msgq_lookupFirst(key) ==  \* Fault: the last slot is not looked at.
  {q \in Queues \ {MSG_MAX_NUMBER_QUEUES} : mq[q].key = key}
msgq_lookup(key) == {q \in Queues : mq[q].key = key}
msgq_add(key, mode) ==
  LET free == {q \in Queues : mq[q].key = 0}
      i == CHOOSE q \in free : \A r \in free : q <= r
  IN IF q_current > MSG_MAX_NUMBER_QUEUES \/ free = {}
     THEN [id |-> -1]
     ELSE [id |-> i,
           queue |-> [NoQueue EXCEPT !.key = key, !.mode = mode,
                                     !.qbytes = MQ_MAX_BYTES_IN_QUEUE]]
msgget(t, c) ==
  LET old == IF c.key = IPC_PRIVATE THEN {} ELSE msgq_lookup(c.key)
      new == msgq_add(c.key, c.mode)
  IN /\ UNCHANGED <<b_current, guard, got>>
     /\ \/ /\ old # {}
           /\ Returns(t, IF c.creat /\ c.excl THEN EEXIST
                         ELSE IF c.creat \/ c.excl \/ ~(c.mode \subseteq mq[CHOOSE q \in old : TRUE].mode)
                              THEN EACCES ELSE CHOOSE q \in old : \A r \in old : q <= r, {})
           /\ UNCHANGED <<mq, q_current>>
        \/ /\ old = {} /\ new.id < 0
           /\ Returns(t, ENOSPC, {}) /\ UNCHANGED <<mq, q_current>>
        \/ /\ old = {} /\ new.id > 0
           /\ Returns(t, new.id, {})
           /\ mq' = [mq EXCEPT ![new.id] = new.queue] /\ q_current' = q_current + 1

\* msgsnd, from the loop on: wait for room, place the message, tell receivers.
SendNow(t, c) ==
  /\ UNCHANGED <<q_current, got>>
  /\ \/ /\ not_full(c.len, c.q, 0)
        /\ mq' = Unbusy(c.q, [mq[c.q] EXCEPT
                   !.msgs = Append(@, [type |-> c.type, len |-> c.len, seq |-> c.seq]),
                   !.cbytes = @ + update_status(c.len).bytes, !.qnum = @ + update_status(c.len).qnum])
        /\ b_current' = b_current + update_status(c.len).bytes
        /\ Returns(t, 0, {"e_qne", "e_q_not_busy"}) /\ UNCHANGED guard
     \/ /\ ~not_full(c.len, c.q, 0)
        /\ mq' = [mq EXCEPT ![c.q] = Busy(t, @)]
        /\ UNCHANGED b_current /\ Sleeps(t, c, "e_qnf", {})
\* Errors are reported only when the call begins.
Fails(t, c, error) ==
  /\ mq' = Unbusy(c.q, mq[c.q]) /\ UNCHANGED <<b_current, q_current, guard, got>>
  /\ Returns(t, error, {"e_q_not_busy"})
msgsnd(t, c) ==
  CASE ~msgq_valid(c.q) \/ c.type < 1 \/ c.len > MQ_MAX_MESSAGE_SIZE -> Fails(t, c, EINVAL)
    [] msgq_valid(c.q) /\ ~msgq_access(c.q, "w") -> Fails(t, c, EACCES)
    [] c.nowait /\ ~not_full(c.len, c.q, 0) -> Fails(t, c, EAGAIN)
    [] OTHER -> SendNow(t, c)

\* msgrcv, from the loop on.  A message of length 0, or cut to 0, is removed but
\* counts as none.  A call that does not wait goes on to update_status and
\* returns 0.  The queue may have been removed while the call waited.
ReceiveNow(t, c) ==
  LET i == IF message_exists(c.q) /\ msgq_valid(c.q) THEN Satisfactory(c.q, c.type) ELSE 0
      m == mq[c.q].msgs[i]
      bytes == IF i = 0 THEN 0 ELSE IF m.len <= c.size THEN m.len ELSE c.size
      left == IF i = 0 THEN mq[c.q] ELSE [mq[c.q] EXCEPT !.msgs = RemoveAt(@, i)]
      counted == [left EXCEPT !.cbytes = @ + update_status(-bytes).bytes,
                              !.qnum = @ + update_status(-bytes).qnum]
      room == /\ Hysteresis(c.q, -1) + LongSize + b_current + update_status(-bytes).bytes
                   < MQ_MAX_BYTES_IN_SYSTEM
              /\ Hysteresis(c.q, -1) + LongSize + counted.cbytes < counted.qbytes
  IN /\ UNCHANGED q_current
     /\ got' = IF i = 0 \/ program = "any" THEN got ELSE [got EXCEPT ![t] = Append(@, m)]
     /\ \/ /\ bytes = 0 /\ ~c.nowait
           /\ mq' = [mq EXCEPT ![c.q] = Busy(t, left)]
           /\ UNCHANGED b_current /\ Sleeps(t, c, "e_qne", {})
        \/ /\ bytes > 0 \/ c.nowait
           /\ mq' = Unbusy(c.q, IF msgq_valid(c.q) THEN counted ELSE left)
           /\ b_current' = IF msgq_valid(c.q) THEN b_current + update_status(-bytes).bytes ELSE b_current
           /\ Returns(t, bytes, {"e_q_not_busy"} \cup IF room THEN {"e_qnf"} ELSE {})
           /\ UNCHANGED guard
msgrcv(t, c) ==
  CASE ~msgq_valid(c.q) \/ c.size > MQ_MAX_MESSAGE_SIZE -> Fails(t, c, EINVAL)
    [] msgq_valid(c.q) /\ ~msgq_access(c.q, "r") -> Fails(t, c, EACCES)
    [] c.nowait /\ ~message_exists(c.q) -> Fails(t, c, ENOMSG)
    [] OTHER -> ReceiveNow(t, c)

\* msgctl.  The guard is released only when the queue is valid.  Neither counter
\* of the system is changed when a queue is removed.
msgq_remove(q) == [mq EXCEPT ![q] = NoQueue]
RemoveWhenIdle(t, c) ==
  /\ UNCHANGED <<q_current, b_current, got, guard>>
  /\ \/ /\ mq[c.q].busy /\ UNCHANGED mq /\ Sleeps(t, c, "e_q_not_busy", {})
     \/ /\ ~mq[c.q].busy /\ mq' = msgq_remove(c.q) /\ Returns(t, 0, {})
Refused(c) ==  \* the error found in a valid queue, or 0
  CASE c.cmd = "IPC_STAT" -> IF msgq_access(c.q, "r") THEN 0 ELSE EACCES
    [] c.cmd \in {"IPC_SET", "IPC_RMID"} -> IF c.user = "other" THEN EPERM ELSE 0
    [] OTHER -> EINVAL
\* IPC_SET by an owner who may not raise qbytes sets the mode and returns 0.
msgctl(t, c) ==
  \/ /\ ~msgq_valid(c.q)
     /\ Returns(t, EINVAL, {}) /\ guard' = t /\ UNCHANGED <<table, got>>
  \/ /\ msgq_valid(c.q) /\ (c.cmd = "IPC_STAT" \/ Refused(c) # 0)
     /\ Returns(t, Refused(c), {}) /\ UNCHANGED <<table, guard, got>>
  \/ /\ msgq_valid(c.q) /\ c.cmd = "IPC_SET" /\ Refused(c) = 0
     /\ mq' = [mq EXCEPT ![c.q].mode = c.mode,
                         ![c.q].qbytes = IF c.qbytes > @ /\ c.user # "super" THEN @ ELSE c.qbytes]
     /\ Returns(t, 0, {}) /\ UNCHANGED <<q_current, b_current, guard, got>>
  \/ /\ msgq_valid(c.q) /\ c.cmd = "IPC_RMID" /\ Refused(c) = 0 /\ RemoveWhenIdle(t, c)

-----------------------------------------------------------------------------
\* The test program: main creates the queue and sets its size, then producers
\* send messages of their own type and consumers each take one type.
Get(creat, excl) ==
  [op |-> "msgget", key |-> MSGQ_KEY, creat |-> creat, excl |-> excl,
   mode |-> IF creat THEN {"r", "w"} ELSE {}]
TestCall(t) ==
  CASE t = main /\ made[t] = 0 -> {Get(TRUE, TRUE)}
    [] t = main /\ made[t] = 1 -> {[op |-> "msgctl", q |-> result[t], cmd |-> "IPC_STAT", user |-> "super"]}
    [] t = main /\ made[t] = 2 ->
         {[op |-> "msgctl", q |-> 1, cmd |-> "IPC_SET", qbytes |-> TestBytes, mode |-> {"r", "w"}, user |-> "super"]}
    [] t # main /\ made[main] = 3 /\ made[t] = 0 -> {Get(FALSE, FALSE)}
    [] t \in Producers /\ made[t] \in 1..goal ->
         {[op |-> "msgsnd", q |-> 1, type |-> t, len |-> DataSize, seq |-> made[t] - 1, nowait |-> FALSE]}
    [] t \in Consumers /\ made[t] \in 1..goal ->
         {[op |-> "msgrcv", q |-> 1, type |-> t - np, size |-> DataSize, nowait |-> FALSE]}
    [] OTHER -> {}
AllMade(t) ==
  IF program = "any"
  THEN FoldFunction(+, 0, made) + Cardinality({u \in Threads : call[u] # NoCall}) >= MaxCalls
  ELSE made[t] >= IF t = main THEN 3 ELSE goal + 1
\* The callers of the other program are alike: they begin in order.
Started(t) == made[t] > 0 \/ call[t] # NoCall
CallsOf(t) ==
  IF program = "test" THEN TestCall(t)
  ELSE {c \in Calls : ~AllMade(t) /\ \A u \in Callers : u < t => Started(u)}

Do(t, c) ==
  CASE c.op = "msgget" -> msgget(t, c)
    [] c.op = "msgsnd" -> msgsnd(t, c)
    [] c.op = "msgrcv" -> msgrcv(t, c)
    [] c.op = "msgctl" -> msgctl(t, c)
Begin(t) ==
  /\ at[t] = "idle" /\ Locks(t) /\ \E c \in CallsOf(t) : Do(t, c)
  /\ UNCHANGED <<program, build>>
Again(t) ==
  /\ at[t] = "awake" /\ Locks(t)
  /\ CASE call[t].op = "msgsnd" -> SendNow(t, call[t])
       [] call[t].op = "msgrcv" -> ReceiveNow(t, call[t])
       [] call[t].op = "msgctl" -> RemoveWhenIdle(t, call[t])
  /\ UNCHANGED <<program, build>>
TimeOut(t) ==
  /\ build = "win32" /\ at[t] \in {"e_qne", "e_qnf", "e_q_not_busy"}
  /\ at' = [at EXCEPT ![t] = "awake"]
  /\ UNCHANGED <<program, build, table, guard, call, made, result, got>>
\* A thread that ends abandons the guard.
End(t) ==
  /\ at[t] = "idle" /\ AllMade(t)
  /\ at' = [at EXCEPT ![t] = "over"]
  /\ guard' = IF guard = t THEN Free ELSE guard
  /\ UNCHANGED <<program, build, table, call, made, result, got>>

Next == \E t \in Threads : Begin(t) \/ Again(t) \/ TimeOut(t) \/ End(t)
Fairness == \A t \in Threads : /\ SF_vars(Begin(t) \/ Again(t))
                               /\ WF_vars(TimeOut(t) \/ End(t))
Spec == Init /\ [][Next]_vars /\ Fairness
Ended == program = "any" \/ \A t \in Threads : at[t] = "over"

-----------------------------------------------------------------------------
(* Every variable has its type; the unsigned counts are never negative.    *)
TypeOK ==
  /\ q_current \in Nat /\ b_current \in Nat /\ guard \in Threads \cup {Free}
  /\ \A q \in Queues : mq[q].cbytes \in Nat /\ mq[q].qnum \in Nat
  /\ \A t \in Threads :
       /\ at[t] \in {"idle", "e_qne", "e_qnf", "e_q_not_busy", "awake", "over"}
       /\ (at[t] \in {"idle", "over"} <=> call[t] = NoCall)

Bytes(q) == FoldSeq(LAMBDA m, sum : m.len + LongSize + sum, 0, mq[q].msgs)
Total == FoldFunction(+, 0, [q \in Queues |-> Bytes(q)])

(* The byte counts may be too high, by messages cut, of length 0 or not     *)
(* found, and by removed queues, but they are never below what the queues   *)
(* hold: the unsigned counts do not wrap, and no limit is passed unnoticed. *)
CountsCover ==
  /\ \A q \in Queues : mq[q].cbytes >= Bytes(q)
  /\ b_current >= FoldFunction(+, 0, [q \in Queues |-> mq[q].cbytes])

(* A message is placed only where it fits, in its queue and in the system.  *)
PlacedInLimits ==
  [][\A q \in Queues : Len(mq'[q].msgs) > Len(mq[q].msgs) =>
       Bytes(q)' < mq[q].qbytes /\ Total' < MQ_MAX_BYTES_IN_SYSTEM]_vars

(* The test: a consumer receives the messages of its type, each one once    *)
(* and in the order in which they were sent.                                *)
SequenceRight ==
  program = "test" => \A c \in Consumers : \A i \in 1..Len(got[c]) :
                        got[c][i].type = c - np /\ got[c][i].seq = i - 1

(* No two queues have the same key.                                         *)
KeysUnique ==
  \A q, r \in Queues : q # r /\ mq[q].key # 0 /\ mq[q].key # IPC_PRIVATE => mq[q].key # mq[r].key

(* The lock stays with a thread after a call only when that has returned    *)
(* EINVAL (msgctl with an invalid identifier, msg_emulation.c:880); then    *)
(* every other thread waits until this one ends.                            *)
KeptByInvalid ==
  [][/\ (guard' # guard /\ guard' # Free) => result'[guard'] = EINVAL
     /\ (guard' = guard /\ guard # Free) => \A t \in Threads \ {guard} : made'[t] = made[t]]_vars

(* The test ends: every message sent is received, in both builds.           *)
TestEnds == <>Ended

(* msg_emulation.c:862: a queue that a send or receive waits on is not      *)
(* removed, because it is marked busy.  Fails: the end of any other call    *)
(* clears the mark.  No run checks it: see section 7 of the README.         *)
WaitersProtected ==
  \A t \in Threads : call[t].op \in {"msgsnd", "msgrcv"} => msgq_valid(call[t].q)
=============================================================================
