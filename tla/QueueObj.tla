------------------------------ MODULE QueueObj ------------------------------
(***************************************************************************)
(* The queue objects whose threads release the guard and start to wait in  *)
(* one step.  The program is built with one of the files; model says which:*)
(*    broadcast  CHAPTR10/QueueObj.c: mutex, manual-reset events,          *)
(*               PulseEvent and SignalObjectAndWait                        *)
(*    signal     CHAPTR10/QueueObj_Sig.c: mutex, auto-reset events,        *)
(*               SetEvent and SignalObjectAndWait                          *)
(*    condvar    CHAPTR10/QueueObjCV.c: SRW lock, condition variables      *)
(* The files differ only in these calls.                                   *)
(*                                                                         *)
(* Threads call QueuePut or QueueGet a bounded number of times.  A call is *)
(* a sequence of steps, one per label of pc:                               *)
(*    lock    waiting for qGuard (first time, or again after an event)     *)
(*    test    owns qGuard, evaluates the loop condition                    *)
(*    wait    in the event wait, or asleep on the condition variable       *)
(*    move    owns qGuard, calls QueueRemove or QueueInsert                *)
(*    signal  owns qGuard, signals the other event and releases qGuard     *)
(*    done    has made all its calls                                       *)
(* SignalObjectAndWait is modelled as the programs rely on it, like        *)
(* SleepConditionVariableSRW: the release of the guard and the start of    *)
(* the wait are one step.                                                  *)
(***************************************************************************)
EXTENDS QueueRing, FiniteSets

CONSTANTS
  Producers,  \* threads that call QueuePut
  Consumers,  \* threads that call QueueGet
  Puts,       \* calls each producer makes
  Gets,       \* calls each consumer makes
  Models,     \* the models considered
  NoThread,   \* owner of a free mutex
  NoMsg       \* a slot as calloc leaves it

Threads == Producers \cup Consumers

ASSUME QueueObjAssumption ==
  /\ IsFiniteSet(Producers)
  /\ IsFiniteSet(Consumers)
  /\ Producers \cap Consumers = {}
  /\ NoThread \notin Threads
  /\ Puts \in Nat
  /\ Gets \in Nat
  /\ Models \subseteq {"broadcast", "signal", "condvar"}

VARIABLES
  model,      \* the file the program is built with; never changes
  msgArray,   \* the slots of the ring
  qFirst, qLast,
  destroyed,  \* QueueDestroy has run: msgArray = NULL, handles closed
  qGuard,     \* the thread that owns the mutex, or NoThread
  signaled,   \* signaled[e]: event e is in the signaled state
  pc,         \* where each thread is in its current call
  calls,      \* completed calls of each thread
  got         \* messages each consumer has received, in order

vars == <<model, msgArray, qFirst, qLast, destroyed, qGuard, signaled, pc, calls, got>>
ring == <<msgArray, qFirst, qLast, destroyed>>

Events == {"qNe", "qNf"}
Labels == {"lock", "test", "wait", "move", "signal", "done"}
Quota(t) == IF t \in Producers THEN Puts ELSE Gets

\* The event a thread waits for, and the one it signals for the other side.
Awaited(t) == IF t \in Producers THEN "qNf" ELSE "qNe"
\* Fault: the call signals its own side's event, as QueueObjX.c does.
AnnouncedOwnSide(t) == IF t \in Producers THEN "qNf" ELSE "qNe"
Announced(t) == IF t \in Producers THEN "qNe" ELSE "qNf"

QueueEmpty == RingEmpty(qFirst, qLast)
QueueFull == RingFull(qFirst, qLast)

\* The threads blocked on an event.
Waiters(e) == {t \in Threads : pc[t] = "wait" /\ Awaited(t) = e}

\* The loop condition of the call the thread is in.
Blocked(t) == IF t \in Producers THEN QueueFull ELSE QueueEmpty

FirstLabel(t) == IF Quota(t) = 0 THEN "done" ELSE "lock"

Init ==
  /\ model \in Models
  /\ msgArray = [i \in Slot |-> NoMsg]
  /\ qFirst = 0
  /\ qLast = 0
  /\ destroyed = FALSE
  /\ qGuard = NoThread
  /\ signaled = [e \in Events |-> FALSE]
  /\ pc = [t \in Threads |-> FirstLabel(t)]
  /\ calls = [t \in Threads |-> 0]
  /\ got = [c \in Consumers |-> <<>>]

-----------------------------------------------------------------------------
\* Fault: the mutex does not exclude.
LockUnguarded(t) ==
  /\ pc[t] = "lock"
  /\ qGuard' = t
  /\ pc' = [pc EXCEPT ![t] = "test"]
  /\ UNCHANGED <<model, ring, signaled, calls, got>>

\* WaitForSingleObject (qGuard), at the head of a call and after each event.
Lock(t) ==
  /\ pc[t] = "lock"
  /\ qGuard = NoThread
  /\ qGuard' = t
  /\ pc' = [pc EXCEPT ![t] = "test"]
  /\ UNCHANGED <<model, ring, signaled, calls, got>>

\* The loop condition is false: the call goes on to move a message.
LeaveLoop(t) ==
  /\ pc[t] = "test"
  /\ ~Blocked(t)
  /\ pc' = [pc EXCEPT ![t] = "move"]
  /\ UNCHANGED <<model, ring, qGuard, signaled, calls, got>>

\* The loop condition is true: SignalObjectAndWait, or
\* SleepConditionVariableSRW, releases the guard and waits.  An auto-reset
\* event that is already signaled lets the thread through and is reset.
SignalObjectAndWait(t) ==
  LET e == Awaited(t) IN
  /\ pc[t] = "test"
  /\ Blocked(t)
  /\ qGuard' = NoThread
  /\ \/ /\ signaled[e]
        /\ signaled' = [signaled EXCEPT ![e] = FALSE]
        /\ pc' = [pc EXCEPT ![t] = "lock"]
     \/ /\ ~signaled[e]
        /\ pc' = [pc EXCEPT ![t] = "wait"]
        /\ UNCHANGED signaled
  /\ UNCHANGED <<model, ring, calls, got>>

\* A condition variable may let a sleeping thread through for no reason.
SpuriousWakeup(t) ==
  /\ model = "condvar"
  /\ pc[t] = "wait"
  /\ pc' = [pc EXCEPT ![t] = "lock"]
  /\ UNCHANGED <<model, ring, qGuard, signaled, calls, got>>

\* QueueInsert re-tests and does nothing on a full queue; QueuePut ignores
\* its result.
QueueInsert(p) ==
  /\ pc[p] = "move"
  /\ IF QueueFull
     THEN UNCHANGED ring
     ELSE /\ msgArray' = [msgArray EXCEPT ![qLast] = <<p, calls[p]>>]
          /\ qLast' = Advance(qLast)
          /\ UNCHANGED <<qFirst, destroyed>>
  /\ pc' = [pc EXCEPT ![p] = "signal"]
  /\ UNCHANGED <<model, qGuard, signaled, calls, got>>

\* QueueRemove likewise; the caller's buffer is left alone when it fails.
QueueRemove(c) ==
  /\ pc[c] = "move"
  /\ IF QueueEmpty
     THEN UNCHANGED <<ring, got>>
     ELSE /\ got' = [got EXCEPT ![c] = Append(@, msgArray[qFirst])]
          /\ qFirst' = Advance(qFirst)
          /\ UNCHANGED <<msgArray, qLast, destroyed>>
  /\ pc' = [pc EXCEPT ![c] = "signal"]
  /\ UNCHANGED <<model, qGuard, signaled, calls>>

\* Fault: only the change from empty, or from full, is announced.
SetEventOnEdge(e) ==
  LET level == RingLen(qFirst, qLast)
      edge == level = IF e = "qNe" THEN 1 ELSE Capacity - 1
  IN  IF edge /\ Waiters(e) # {} THEN {{w} : w \in Waiters(e)} ELSE {{}}

\* PulseEvent on a manual-reset event lets every waiter through and leaves
\* the event reset; SetEvent on an auto-reset event lets one waiter through,
\* or stays signaled for the next wait when there is none;
\* WakeConditionVariable lets one waiter through and leaves no trace when
\* there is none.  They are given as the possible sets of threads released.
PulseEvent(e) == {Waiters(e)}
SetEvent(e) == IF Waiters(e) = {} THEN {{}} ELSE {{w} : w \in Waiters(e)}

\* Signal that the queue has changed, release the mutex and return.
SignalAndReturn(t) ==
  LET e == Announced(t) IN
  /\ pc[t] = "signal"
  /\ qGuard' = NoThread
  /\ calls' = [calls EXCEPT ![t] = @ + 1]
  /\ \E woken \in IF model = "broadcast" THEN PulseEvent(e) ELSE SetEvent(e) :
       /\ signaled' = [signaled EXCEPT ![e] = @ \/ (model = "signal" /\ woken = {})]
       /\ pc' = [u \in Threads |->
                   IF u = t THEN IF calls[t] + 1 < Quota(t) THEN "lock" ELSE "done"
                   ELSE IF u \in woken THEN "lock" ELSE pc[u]]
  /\ UNCHANGED <<model, ring, got>>

\* The main thread destroys the queue after every thread has ended, so no
\* call finds msgArray NULL.
QueueDestroy ==
  /\ \A t \in Threads : pc[t] = "done"
  /\ qGuard = NoThread
  /\ ~destroyed
  /\ destroyed' = TRUE
  /\ UNCHANGED <<model, msgArray, qFirst, qLast, qGuard, signaled, pc, calls, got>>

\* The program has exited.
Exited == destroyed /\ UNCHANGED vars

Call(t) == Lock(t) \/ LeaveLoop(t) \/ SignalObjectAndWait(t) \/ SignalAndReturn(t)

Next ==
  \/ \E t \in Threads : Call(t) \/ SpuriousWakeup(t)
  \/ \E p \in Producers : QueueInsert(p)
  \/ \E c \in Consumers : QueueRemove(c)
  \/ QueueDestroy
  \/ Exited

\* Every running thread is scheduled, and a thread that asks for the guard
\* gets it in the end, even while others keep taking it: Windows hands a
\* mutex to its waiters in turn.  Nothing makes a thread wake up for no reason.
Fairness ==
  /\ \A t \in Threads : WF_vars(Call(t)) /\ SF_vars(Lock(t))
  /\ \A p \in Producers : WF_vars(QueueInsert(p))
  /\ \A c \in Consumers : WF_vars(QueueRemove(c))
  /\ WF_vars(QueueDestroy)

Spec == Init /\ [][Next]_vars
FairSpec == Spec /\ Fairness

-----------------------------------------------------------------------------
Messages == Producers \X Nat

\* Every variable has its type; a thread is in one place at a time.
TypeOK ==
  /\ model \in Models
  /\ msgArray \in [Slot -> Messages \cup {NoMsg}]
  /\ qFirst \in Slot
  /\ qLast \in Slot
  /\ destroyed \in BOOLEAN
  /\ qGuard \in Threads \cup {NoThread}
  /\ signaled \in [Events -> BOOLEAN]
  /\ pc \in [Threads -> Labels]
  /\ calls \in [Threads -> Nat]
  /\ got \in [Consumers -> Seq(Messages \cup {NoMsg})]

\* The mutex belongs to the one thread that is between its WaitForSingleObject
\* and its SignalObjectAndWait or ReleaseMutex, and to nobody otherwise.
Inside == {"test", "move", "signal"}
GuardOwner == \A t \in Threads : pc[t] \in Inside <=> qGuard = t

\* A call never reaches QueueRemove with an empty queue nor QueueInsert with a
\* full one: the condition tested in the loop still holds.  QueueGet and
\* QueuePut ignore the error the two functions would return, so a message
\* would be lost, or an old one received again, without anyone noticing.
MoveReady == \A t \in Threads : pc[t] = "move" => ~Blocked(t)

\* Threads of a set that hold or will ask for the mutex and then test the queue.
Coming(S) == {t \in S : pc[t] \in {"lock", "test", "move"}}
\* Threads of a set that have changed the queue and not yet signaled it.
Announcing(S) == {t \in S : pc[t] = "signal"}

\* Who waits for an event, who signals it, and how many calls of the waiting
\* side the queue could serve now: messages for qNe, free slots for qNf.
Takers(e) == IF e = "qNe" THEN Consumers ELSE Producers
Givers(e) == IF e = "qNe" THEN Producers ELSE Consumers
Stock(e) ==
  IF e = "qNe" THEN RingLen(qFirst, qLast) ELSE Capacity - RingLen(qFirst, qLast)

\* No wakeup is lost.  While a consumer sleeps on qNe there is, for every
\* message in the queue, a consumer already on its way to take one or a
\* producer about to signal; and likewise for producers, qNf and free slots.
\* This is what PulseEvent needs SignalObjectAndWait for, and what lets the
\* signal model release one thread at a time.
NoLostWakeup ==
  \A e \in Events : Waiters(e) # {} =>
    Stock(e) <= Cardinality(Coming(Takers(e))) + Cardinality(Announcing(Givers(e)))

\* The queue object implements the bounded FIFO queue: a call takes effect
\* when QueueInsert or QueueRemove moves the message.
Contents == RingContents(msgArray, qFirst, qLast)
Sent == [p \in Producers |-> calls[p] + (IF pc[p] = "signal" THEN 1 ELSE 0)]

BQ == INSTANCE BoundedQueue
        WITH Limit <- Capacity, contents <- Contents, sent <- Sent
BoundedFIFO == BQ!Spec

\* When the consumers ask for as many messages as the producers send, every
\* call returns and the main thread gets to destroy the queue.
Termination == <>destroyed
=============================================================================
