----------------------------- MODULE QueueTimed -----------------------------
(***************************************************************************)
(* The queue objects that do not use SignalObjectAndWait: the guard is     *)
(* released first and the event wait starts later, so that a signal may    *)
(* come in between.  The program is built with one of the files, and       *)
(* variant says which:                                                     *)
(*    noSOAW      CHAPTR10/QueueObj_noSOAW.c and, with a critical section  *)
(*                for the mutex, QueueObjCS.c: manual-reset events,        *)
(*                PulseEvent, waits of CV_TIMEOUT each; the call gives up  *)
(*                when the waits add up to more than MaxWait               *)
(*    Sig_noSOAW  QueueObjSig_noSOAW.c: auto-reset events, SetEvent, one   *)
(*                wait of CV_TIMEOUT whatever MaxWait is                   *)
(*    CS_Sig      QueueObjCS_Sig.c: auto-reset events, SetEvent, waits of  *)
(*                MaxWait                                                  *)
(* MaxWait counts in units of CV_TIMEOUT; every call is given the same.    *)
(* The labels of pc are those of QueueObj, and "gap" for a thread that has *)
(* released the guard and not yet started to wait.                         *)
(***************************************************************************)
EXTENDS QueueRing, FiniteSets

CONSTANTS
  Producers, Consumers,
  Puts, Gets,      \* calls each producer and each consumer makes
  Builds,          \* the builds considered: pairs of a variant and a MaxWait,
                   \* which is a number or INFINITE
  INFINITE, NoThread, NoMsg

Threads == Producers \cup Consumers

ASSUME QueueTimedAssumption ==
  /\ IsFiniteSet(Threads)
  /\ Producers \cap Consumers = {}
  /\ NoThread \notin Threads
  /\ Puts \in Nat /\ Gets \in Nat
  /\ \A b \in Builds :
       /\ b[1] \in {"noSOAW", "Sig_noSOAW", "CS_Sig"}
       /\ b[2] = INFINITE \/ b[2] \in Nat

VARIABLES
  build,      \* never changes
  msgArray, qFirst, qLast,  \* the ring
  destroyed,  \* QueueDestroy has run
  qGuard,     \* the thread that owns the guard, or NoThread
  signaled,   \* the auto-reset events that are in the signaled state
  pc,
  waits,      \* waits of the current call that count as time spent
  calls,      \* completed calls of each thread
  okay,       \* how many of them returned 0
  sent,       \* messages each producer has put in the ring
  got         \* messages each consumer has received, in order

ring == <<msgArray, qFirst, qLast, destroyed>>
history == <<sent, got>>
vars == <<build, ring, qGuard, signaled, pc, waits, calls, okay, history>>

Variant == build[1]
MaxWait == build[2]

Labels == {"lock", "test", "gap", "wait", "move", "signal", "done"}
Quota(t) == IF t \in Producers THEN Puts ELSE Gets

Awaited(t) == IF t \in Producers THEN "qNf" ELSE "qNe"
\* Fault: the call signals its own side's event.
AnnouncedOwnSide(t) == IF t \in Producers THEN "qNf" ELSE "qNe"
Announced(t) == IF t \in Producers THEN "qNe" ELSE "qNf"
Waiters(e) == {t \in Threads : pc[t] = "wait" /\ Awaited(t) = e}

\* The queue cannot serve the call: the first half of the loop condition.
Blocked(t) == IF t \in Producers THEN RingFull(qFirst, qLast) ELSE RingEmpty(qFirst, qLast)

\* Fault: the wait on the event never ends by itself.
WaitEndsNever == FALSE

\* Each wait is of CV_TIMEOUT, except that CS_Sig waits for MaxWait.
WaitEnds == Variant # "CS_Sig" \/ MaxWait # INFINITE

\* TimedOut: noSOAW adds up the waits, whatever ended them, against MaxWait;
\* the others go by the last wait alone.
TimedOut(t) ==
  IF Variant = "noSOAW" THEN MaxWait # INFINITE /\ waits[t] > MaxWait ELSE waits[t] > 0

\* waits[t] after a wait of thread t that the event or the clock has ended.
WaitsAfter(t, byClock) ==
  IF Variant = "noSOAW" THEN IF MaxWait = INFINITE THEN 0 ELSE waits[t] + 1
  ELSE IF byClock THEN 1 ELSE 0

Init ==
  /\ build \in Builds
  /\ msgArray = [i \in Slot |-> NoMsg]
  /\ qFirst = 0
  /\ qLast = 0
  /\ destroyed = FALSE
  /\ qGuard = NoThread
  /\ signaled = {}
  /\ pc = [t \in Threads |-> "lock"]
  /\ waits = [t \in Threads |-> 0]
  /\ calls = [t \in Threads |-> 0]
  /\ okay = [t \in Threads |-> 0]
  /\ sent = [p \in Producers |-> 0]
  /\ got = [c \in Consumers |-> <<>>]

-----------------------------------------------------------------------------
\* Fault: the guard does not exclude.
LockUnguarded(t) ==
  /\ pc[t] = "lock"
  /\ qGuard' = t
  /\ pc' = [pc EXCEPT ![t] = "test"]
  /\ UNCHANGED <<build, ring, signaled, waits, calls, okay, history>>

\* Waiting for the mutex or entering the critical section.
Lock(t) ==
  /\ pc[t] = "lock"
  /\ qGuard = NoThread
  /\ qGuard' = t
  /\ pc' = [pc EXCEPT ![t] = "test"]
  /\ UNCHANGED <<build, ring, signaled, waits, calls, okay, history>>

LeaveLoop(t) ==
  /\ pc[t] = "test"
  /\ ~Blocked(t) \/ TimedOut(t)
  /\ pc' = [pc EXCEPT ![t] = "move"]
  /\ UNCHANGED <<build, ring, qGuard, signaled, waits, calls, okay, history>>

\* ReleaseMutex or LeaveCriticalSection inside the loop.
Release(t) ==
  /\ pc[t] = "test"
  /\ Blocked(t) /\ ~TimedOut(t)
  /\ qGuard' = NoThread
  /\ pc' = [pc EXCEPT ![t] = "gap"]
  /\ UNCHANGED <<build, ring, signaled, waits, calls, okay, history>>

\* WaitForSingleObject on the event starts; an event that is already signaled
\* lets the thread through and is reset.
StartWait(t) ==
  LET e == Awaited(t) IN
  /\ pc[t] = "gap"
  /\ \/ /\ e \in signaled
        /\ signaled' = signaled \ {e}
        /\ pc' = [pc EXCEPT ![t] = "lock"]
        /\ waits' = [waits EXCEPT ![t] = WaitsAfter(t, FALSE)]
     \/ /\ e \notin signaled
        /\ pc' = [pc EXCEPT ![t] = "wait"]
        /\ UNCHANGED <<signaled, waits>>
  /\ UNCHANGED <<build, ring, qGuard, calls, okay, history>>

\* The event wait ends with WAIT_TIMEOUT.
TimeOut(t) ==
  /\ WaitEnds
  /\ pc[t] = "wait"
  /\ pc' = [pc EXCEPT ![t] = "lock"]
  /\ waits' = [waits EXCEPT ![t] = WaitsAfter(t, TRUE)]
  /\ UNCHANGED <<build, ring, qGuard, signaled, calls, okay, history>>

\* Fault: a call that has timed out moves a message all the same.
MovesAlways(t) == ~Blocked(t)

\* A call that has timed out moves no message, except in Sig_noSOAW, which
\* tests the queue again; QueueInsert and QueueRemove do so in any case.
Moves(t) == ~Blocked(t) /\ (TimedOut(t) => Variant = "Sig_noSOAW")

QueueInsert(p) ==
  /\ pc[p] = "move"
  /\ IF Moves(p)
     THEN /\ msgArray' = [msgArray EXCEPT ![qLast] = <<p, sent[p]>>]
          /\ qLast' = Advance(qLast)
          /\ sent' = [sent EXCEPT ![p] = @ + 1]
     ELSE UNCHANGED <<msgArray, qLast, sent>>
  /\ pc' = [pc EXCEPT ![p] = "signal"]
  /\ UNCHANGED <<build, qFirst, destroyed, qGuard, signaled, waits, calls, okay, got>>

QueueRemove(c) ==
  /\ pc[c] = "move"
  /\ IF Moves(c)
     THEN /\ got' = [got EXCEPT ![c] = Append(@, msgArray[qFirst])]
          /\ qFirst' = Advance(qFirst)
     ELSE UNCHANGED <<qFirst, got>>
  /\ pc' = [pc EXCEPT ![c] = "signal"]
  /\ UNCHANGED <<build, msgArray, qLast, destroyed, qGuard, signaled, waits, calls, okay, sent>>

\* Fault: the event keeps no signal when nobody waits (the set released is
\* not empty, but nobody in it is waiting).
SetEventNoMemory(e) == IF Waiters(e) = {} THEN {Threads} ELSE {{w} : w \in Waiters(e)}

\* The sets of threads that signaling e may let through.
SetEvent(e) == IF Waiters(e) = {} THEN {{}} ELSE {{w} : w \in Waiters(e)}
PulseEvent(e) == {Waiters(e)}

\* Signal, whether or not a message was moved, release the guard and return
\* 0 or WAIT_TIMEOUT.
SignalAndReturn(t) ==
  LET e == Announced(t) IN
  /\ pc[t] = "signal"
  /\ qGuard' = NoThread
  /\ calls' = [calls EXCEPT ![t] = @ + 1]
  /\ okay' = [okay EXCEPT ![t] = IF TimedOut(t) THEN @ ELSE @ + 1]
  /\ \E woken \in IF Variant = "noSOAW" THEN PulseEvent(e) ELSE SetEvent(e) :
       /\ signaled' = IF Variant # "noSOAW" /\ woken = {} THEN signaled \cup {e} ELSE signaled
       /\ pc' = [u \in Threads |->
                   IF u = t THEN IF calls[t] + 1 < Quota(t) THEN "lock" ELSE "done"
                   ELSE IF u \in woken \cap Waiters(e) THEN "lock" ELSE pc[u]]
       /\ waits' = [u \in Threads |->
                      IF u = t THEN 0
                      ELSE IF u \in woken \cap Waiters(e) THEN WaitsAfter(u, FALSE)
                      ELSE waits[u]]
  /\ UNCHANGED <<build, ring, history>>

\* The main thread destroys the queue when every thread has ended, under the
\* guard, which it is the last to own.
QueueDestroy ==
  /\ \A t \in Threads : pc[t] = "done"
  /\ qGuard = NoThread
  /\ ~destroyed
  /\ destroyed' = TRUE
  /\ UNCHANGED <<build, msgArray, qFirst, qLast, qGuard, signaled, pc, waits, calls, okay, history>>

\* The program has exited.
Exited == destroyed /\ UNCHANGED vars

Call(t) ==
  Lock(t) \/ LeaveLoop(t) \/ Release(t) \/ StartWait(t) \/ TimeOut(t) \/ SignalAndReturn(t)

Next ==
  \/ \E t \in Threads : Call(t)
  \/ \E p \in Producers : QueueInsert(p)
  \/ \E c \in Consumers : QueueRemove(c)
  \/ QueueDestroy
  \/ Exited

Spec == Init /\ [][Next]_vars

\* Every running thread is scheduled and waits of finite length end.  A
\* thread that keeps asking for the guard gets it, even when a thread whose
\* waits end by the clock keeps coming back for it.
Fairness ==
  /\ \A t \in Threads : WF_vars(Call(t)) /\ SF_vars(Lock(t))
  /\ \A p \in Producers : WF_vars(QueueInsert(p))
  /\ \A c \in Consumers : WF_vars(QueueRemove(c))
  /\ WF_vars(QueueDestroy)

FairSpec == Spec /\ Fairness

-----------------------------------------------------------------------------
Messages == Producers \X Nat

\* Every variable has its type.
TypeOK ==
  /\ build \in Builds
  /\ msgArray \in [Slot -> Messages \cup {NoMsg}]
  /\ qFirst \in Slot /\ qLast \in Slot
  /\ destroyed \in BOOLEAN
  /\ qGuard \in Threads \cup {NoThread}
  /\ signaled \subseteq {"qNe", "qNf"}
  /\ pc \in [Threads -> Labels]
  /\ waits \in [Threads -> Nat]
  /\ calls \in [Threads -> Nat]
  /\ okay \in [Threads -> Nat]
  /\ sent \in [Producers -> Nat]
  /\ got \in [Consumers -> Seq(Messages \cup {NoMsg})]

Moved(t) == IF t \in Producers THEN sent[t] ELSE Len(got[t])

\* What a call returns is what it has done: between two calls a thread has
\* moved exactly as many messages as it has had calls that returned 0.  A
\* consumer that got WAIT_TIMEOUT has no message in its buffer, a producer's
\* message is still its own.  Sig_noSOAW may return WAIT_TIMEOUT after it has
\* moved a message, but never 0 when it has not.
StatusTruthful ==
  \A t \in Threads : pc[t] \in {"lock", "gap", "wait", "done"} =>
    /\ okay[t] <= Moved(t)
    /\ Variant # "Sig_noSOAW" => Moved(t) = okay[t]

\* A call that was given INFINITE comes back with its message moved.
\* Fails, and no run checks it: see section 7 of the README.
InfiniteMeansMoved ==
  MaxWait = INFINITE =>
    \A t \in Threads : pc[t] \in {"lock", "gap", "wait", "done"} => Moved(t) = calls[t]

\* Without timeouts the queue never leaves everybody stuck: if no thread is
\* running, no thread waits for an event that the queue would not make it
\* wait for.  That is why QueueObjCS_Sig.c waits without a limit: "the signal
\* model does not have to worry about lost signals".  It holds while one thread
\* gets, and not for several: section 7 of the README.
NoneStranded ==
  ~WaitEnds /\ (\A t \in Threads : pc[t] \in {"wait", "done"}) =>
    \A t \in Threads : pc[t] = "wait" => Blocked(t)

\* The queue object implements the bounded FIFO queue, as QueueObj does.
Contents == RingContents(msgArray, qFirst, qLast)
BQ == INSTANCE BoundedQueue WITH Limit <- Capacity, contents <- Contents
BoundedFIFO == BQ!Spec

\* Every thread gets through all its calls, and the queue is destroyed.
Termination == <>destroyed
=============================================================================
