------------------------------ MODULE ThbObject ------------------------------
(***************************************************************************)
(* The threshold barrier of CHAPTR10/ThbObject.c and the program that      *)
(* tests it, CHAPTR10/testTHB.c: the main thread starts as many workers as *)
(* its command line says, waits for all of them and closes the barrier;    *)
(* each worker waits once at the barrier.  The event is manual-reset and   *)
(* is never reset.                                                         *)
(*                                                                         *)
(* Labels of a worker: arrive (waiting for bGuard, not yet counted), test  *)
(* (owns bGuard, evaluates the loop condition), signaled and wait (in      *)
(* SignalObjectAndWait, which releases bGuard and begins to wait in two    *)
(* steps), relock (waiting for bGuard again), done.                        *)
(***************************************************************************)
EXTENDS Integers, FiniteSets

CONSTANTS
  Workers,
  bThreshold,
  MAXIMUM_WAIT_OBJECTS,  \* most handles WaitForMultipleObjects accepts
  NoThread               \* owner of a free mutex

ASSUME ThbAssumption ==
  /\ IsFiniteSet(Workers)
  /\ bThreshold \in Nat
  /\ MAXIMUM_WAIT_OBJECTS \in Nat
  /\ NoThread \notin Workers

VARIABLES
  started,  \* the workers started, nThread of them
  bGuard, bEvent, bCount, pc, main

vars == <<started, bGuard, bEvent, bCount, pc, main>>

WorkerLabels == {"arrive", "test", "signaled", "wait", "relock", "done"}
MainLabels == {"wait", "close", "free", "busy", "closed"}

Init ==
  /\ started \in SUBSET Workers
  /\ bGuard = NoThread
  /\ bEvent = FALSE
  /\ bCount = 0
  /\ pc = [w \in Workers |-> "arrive"]
  /\ main = "wait"

\* The handles and the memory of the barrier are gone; nothing that follows
\* is modelled.
Open == main # "closed"

\* Own bGuard and be counted.
Arrive(w) ==
  /\ Open
  /\ w \in started
  /\ pc[w] = "arrive"
  /\ bGuard = NoThread
  /\ bGuard' = w
  /\ bCount' = bCount + 1
  /\ pc' = [pc EXCEPT ![w] = "test"]
  /\ UNCHANGED <<started, bEvent, main>>

\* Below the threshold: SignalObjectAndWait releases bGuard, and then waits.
Signal(w) ==
  /\ Open
  /\ pc[w] = "test"
  /\ bCount < bThreshold
  /\ bGuard' = NoThread
  /\ pc' = [pc EXCEPT ![w] = "signaled"]
  /\ UNCHANGED <<started, bEvent, bCount, main>>

\* Fault: an event that was set before the wait is missed.
WaitPulsed(w) ==
  /\ Open
  /\ pc[w] = "signaled"
  /\ pc' = [pc EXCEPT ![w] = "wait"]
  /\ UNCHANGED <<started, bGuard, bEvent, bCount, main>>

Wait(w) ==
  /\ Open
  /\ pc[w] = "signaled"
  /\ pc' = [pc EXCEPT ![w] = IF bEvent THEN "relock" ELSE "wait"]
  /\ UNCHANGED <<started, bGuard, bEvent, bCount, main>>

\* Fault: the wait may end without the event, and the count is not tested
\* again.
RelockPasses(w) ==
  /\ Open
  /\ pc[w] \in {"wait", "relock"}
  /\ pc' = [pc EXCEPT ![w] = "done"]
  /\ UNCHANGED <<started, bGuard, bEvent, bCount, main>>

\* Fault: a thread is counted again each time it wakes up.
RelockCounts(w) ==
  /\ Open
  /\ pc[w] = "relock"
  /\ bGuard = NoThread
  /\ bGuard' = w
  /\ bCount' = bCount + 1
  /\ pc' = [pc EXCEPT ![w] = "test"]
  /\ UNCHANGED <<started, bEvent, main>>

\* The event was signaled: own bGuard and test again.
Relock(w) ==
  /\ Open
  /\ pc[w] = "relock"
  /\ bGuard = NoThread
  /\ bGuard' = w
  /\ pc' = [pc EXCEPT ![w] = "test"]
  /\ UNCHANGED <<started, bEvent, bCount, main>>

\* Fault: the event is not set.
PassSilent(w) ==
  /\ Open
  /\ pc[w] = "test"
  /\ bCount >= bThreshold
  /\ bGuard' = NoThread
  /\ pc' = [pc EXCEPT ![w] = "done"]
  /\ UNCHANGED <<started, bEvent, bCount, main>>

\* Threshold reached: SetEvent lets every waiter through, then bGuard is
\* released and the call returns.
Pass(w) ==
  /\ Open
  /\ pc[w] = "test"
  /\ bCount >= bThreshold
  /\ bEvent' = TRUE
  /\ bGuard' = NoThread
  /\ pc' = [u \in Workers |->
              IF u = w THEN "done" ELSE IF pc[u] = "wait" THEN "relock" ELSE pc[u]]
  /\ UNCHANGED <<started, bCount, main>>

\* WaitForMultipleObjects on all who were started; with too many handles it fails at
\* once, and the program does not look at its result.
MainWait ==
  /\ main = "wait"
  /\ Cardinality(started) <= MAXIMUM_WAIT_OBJECTS => \A w \in started : pc[w] = "done"
  /\ main' = "close"
  /\ UNCHANGED <<started, bGuard, bEvent, bCount, pc>>

\* Fault: CloseThresholdBarrier does not test the count.
MainCloseUntested ==
  /\ main = "close"
  /\ bGuard = NoThread
  /\ main' = "free"
  /\ UNCHANGED <<started, bGuard, bEvent, bCount, pc>>

\* CloseThresholdBarrier: test the count while owning bGuard and release it.
MainClose ==
  /\ main = "close"
  /\ bGuard = NoThread
  /\ main' = IF bCount < bThreshold THEN "busy" ELSE "free"
  /\ UNCHANGED <<started, bGuard, bEvent, bCount, pc>>

\* Then close the handles and free the object.
MainFree ==
  /\ main = "free"
  /\ main' = "closed"
  /\ UNCHANGED <<started, bGuard, bEvent, bCount, pc>>

\* The main thread has returned.
Finished == main \in {"busy", "closed"} /\ UNCHANGED vars

Worker(w) == Arrive(w) \/ Signal(w) \/ Wait(w) \/ Relock(w) \/ Pass(w)

Next ==
  \/ \E w \in Workers : Worker(w)
  \/ MainWait \/ MainClose \/ MainFree
  \/ Finished

\* Every thread that can go on does so in the end; each worker asks for the
\* mutex at most twice, so none is overtaken for ever.
Fairness ==
  /\ \A w \in Workers : WF_vars(Worker(w))
  /\ WF_vars(MainWait \/ MainClose \/ MainFree)

Spec == Init /\ [][Next]_vars
FairSpec == Spec /\ Fairness

-----------------------------------------------------------------------------
\* Every variable has its type; the count is at most the number of workers.
TypeOK ==
  /\ started \subseteq Workers
  /\ bGuard \in Workers \cup {NoThread}
  /\ bEvent \in BOOLEAN
  /\ bCount \in 0 .. Cardinality(Workers)
  /\ pc \in [Workers -> WorkerLabels]
  /\ main \in MainLabels

\* The threads that have reached the barrier.
Arrived == {w \in Workers : pc[w] # "arrive"}

\* No thread leaves the barrier before as many threads as the threshold says
\* have reached it.
NoEarlyPass == (\E w \in Workers : pc[w] = "done") => Cardinality(Arrived) >= bThreshold

\* A thread waits on the event only while the threshold is not reached, or
\* while a thread that will set the event owns the mutex.
NoneLeftWaiting ==
  (\E w \in Workers : pc[w] = "wait") =>
    /\ ~bEvent
    /\ bCount < bThreshold \/ \E u \in Workers : pc[u] = "test"

\* ThbObject.c:58, "Be certain that no thread is waiting on the object": once
\* the count has been tested no thread waits for the event, and none will,
\* although the main thread comes there with threads inside the barrier when
\* they were too many to wait for.
ClosedNoneWaits == main \in {"free", "closed"} => \A w \in Workers : pc[w] # "wait"

\* If there are enough threads, and not too many to wait for, every one of them
\* passes and the barrier is closed.
AllPass ==
  Cardinality(started) \in bThreshold .. MAXIMUM_WAIT_OBJECTS =>
    <>(main = "closed" /\ \A w \in started : pc[w] = "done")
=============================================================================
