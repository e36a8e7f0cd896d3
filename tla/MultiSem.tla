------------------------------ MODULE MultiSem ------------------------------
(***************************************************************************)
(* The multiple wait semaphore of CHAPTR10/MultiSem.c, driven by the       *)
(* consumer and producer threads of CHAPTR10/TestMultiSem.c and shut down  *)
(* by its console control handler.  A semaphore is a count, the mutex      *)
(* hMutex that guards it, the auto-reset event hEvent and, for a First     *)
(* Come First Served (FCFS) semaphore, the secondary mutex hMutexa.        *)
(*                                                                         *)
(* Labels of a consumer: idle (between calls), locka and lock (waiting for *)
(* the two mutexes), test (owns hMutex, evaluates the loop condition),     *)
(* wait (in SignalObjectAndWait), relock (event received, waiting for      *)
(* hMutex), exit.                                                          *)
(***************************************************************************)
EXTENDS Integers, FiniteSets

CONSTANTS
  Consumers, Producers,
  MaxCount, InitialCount,
  Kinds,     \* the ways of use considered, see kind
  NoThread   \* owner of a free mutex

ASSUME MultiSemAssumption ==
  /\ IsFiniteSet(Consumers)
  /\ MaxCount \in Nat \ {0}
  /\ InitialCount \in 0 .. MaxCount
  /\ Kinds \subseteq BOOLEAN \X BOOLEAN
  /\ NoThread \notin Consumers

VARIABLES
  kind,        \* the way the semaphore is used: never changes
  CurCount, hMutex, hEvent, hMutexa,
  leaked,      \* consumers that returned without releasing hMutexa
  pc, request, \* per consumer: label, units requested in the current call
  producing,   \* producers inside their loop, about to call ReleaseSemaphoreMW
  Exit,        \* the shutdown flag of the test program
  toRelease    \* releases the control handler has still to make

vars == <<kind, CurCount, hMutex, hEvent, hMutexa, leaked, pc, request, producing, Exit, toRelease>>
driver == <<producing, Exit, toRelease>>

FCFS == kind[1]   \* fFirstComeFirstServed
Timed == kind[2]  \* waits for a mutex may time out (dwMilliseconds # INFINITE)

Labels == {"idle", "locka", "lock", "test", "wait", "relock", "exit"}
Waiting == {c \in Consumers : pc[c] = "wait"}

Init ==
  /\ kind \in Kinds
  /\ CurCount = InitialCount
  /\ hMutex = NoThread
  /\ hEvent = (InitialCount > 0)
  /\ hMutexa = NoThread
  /\ leaked = {}
  /\ pc = [c \in Consumers |-> "idle"]
  /\ request = [c \in Consumers |-> 1]
  /\ producing = {}
  /\ Exit = FALSE
  /\ toRelease = 0

\* The effect of SetEvent on the auto-reset event while threads move to the
\* labels given by at: one waiter is released, or the event stays signaled.
SetEvent(at) ==
  IF Waiting = {}
  THEN hEvent' = TRUE /\ pc' = at
  ELSE hEvent' = FALSE /\ \E w \in Waiting : pc' = [at EXCEPT ![w] = "relock"]

\* Fault: the event is not set again for the next waiter.
SetEventIfPositiveNever(count, at) == UNCHANGED hEvent /\ pc' = at

\* if (hState->CurCount > 0) SetEvent (hSemMW->hEvent)
SetEventIfPositive(count, at) ==
  IF count > 0 THEN SetEvent(at) ELSE UNCHANGED hEvent /\ pc' = at

-----------------------------------------------------------------------------
(* WaitForSemaphoreMW, called in a loop by each consumer.                  *)

\* Fault: the secondary mutex is not taken.
FirstLockAlwaysState == "lock"

\* The mutex a call waits for first.
FirstLock == IF FCFS THEN "locka" ELSE "lock"

Request(c) ==
  /\ pc[c] = "idle"
  /\ IF Exit
     THEN pc' = [pc EXCEPT ![c] = "exit"] /\ UNCHANGED request
     ELSE /\ pc' = [pc EXCEPT ![c] = FirstLock]
          /\ \E n \in 1 .. MaxCount : request' = [request EXCEPT ![c] = n]
  /\ UNCHANGED <<kind, CurCount, hMutex, hEvent, hMutexa, leaked, driver>>

\* Windows mutexes are recursive: the owner acquires again at once.
LockA(c) ==
  /\ pc[c] = "locka"
  /\ hMutexa \in {NoThread, c}
  /\ hMutexa' = c
  /\ pc' = [pc EXCEPT ![c] = "lock"]
  /\ UNCHANGED <<kind, CurCount, hMutex, hEvent, leaked, request, driver>>

\* Fault: the guard mutex is taken although it is owned.
LockUnguarded(c) ==
  /\ pc[c] = "lock"
  /\ hMutex' = c
  /\ pc' = [pc EXCEPT ![c] = "test"]
  /\ UNCHANGED <<kind, CurCount, hEvent, hMutexa, leaked, request, driver>>

Lock(c) ==
  /\ pc[c] = "lock"
  /\ hMutex = NoThread
  /\ hMutex' = c
  /\ pc' = [pc EXCEPT ![c] = "test"]
  /\ UNCHANGED <<kind, CurCount, hEvent, hMutexa, leaked, request, driver>>

\* Too few units: SignalObjectAndWait releases hMutex and waits without limit.
Block(c) ==
  /\ pc[c] = "test"
  /\ CurCount < request[c]
  /\ hMutex' = NoThread
  /\ hEvent' = FALSE
  /\ pc' = [pc EXCEPT ![c] = IF hEvent THEN "relock" ELSE "wait"]
  /\ UNCHANGED <<kind, CurCount, hMutexa, leaked, request, driver>>

\* After the event: take hMutex, pass the event on if units are left.
Relock(c) ==
  /\ pc[c] = "relock"
  /\ hMutex = NoThread
  /\ hMutex' = c
  /\ SetEventIfPositive(CurCount, [pc EXCEPT ![c] = "test"])
  /\ UNCHANGED <<kind, CurCount, hMutexa, leaked, request, driver>>

\* Enough units: take them, pass the event on, release both mutexes.
Take(c) ==
  /\ pc[c] = "test"
  /\ CurCount >= request[c]
  /\ CurCount' = CurCount - request[c]
  /\ SetEventIfPositive(CurCount', [pc EXCEPT ![c] = "idle"])
  /\ hMutex' = NoThread
  /\ hMutexa' = IF FCFS /\ c \notin leaked THEN NoThread ELSE hMutexa
  /\ UNCHANGED <<kind, leaked, request, driver>>

\* A wait for a mutex times out and the call returns; a call that had taken
\* hMutexa does not release it.  hMutex may be owned by another consumer, or
\* by a producer or the monitor thread, which are not given steps of their own
\* for the time they own it.
TimeOut(c) ==
  /\ Timed
  /\ \/ pc[c] = "locka" /\ hMutexa \notin {NoThread, c} /\ UNCHANGED leaked
     \/ /\ pc[c] \in {"lock", "relock"}
        /\ leaked' = IF FCFS THEN leaked \cup {c} ELSE leaked
  /\ pc' = [pc EXCEPT ![c] = "idle"]
  /\ UNCHANGED <<kind, CurCount, hMutex, hEvent, hMutexa, request, driver>>

Consumer(c) ==
  \/ Request(c) \/ LockA(c) \/ Lock(c) \/ Block(c) \/ Relock(c) \/ Take(c) \/ TimeOut(c)

-----------------------------------------------------------------------------
(* ReleaseSemaphoreMW, called by the producers and by the control handler. *)

\* Fault: the maximum is not checked.
ReleaseUnchecked(n) ==
  /\ hMutex = NoThread
  /\ CurCount' = CurCount + n
  /\ SetEvent(pc)
  /\ UNCHANGED <<kind, hMutex, hMutexa, leaked, request>>

\* Its critical section.  A release beyond the maximum changes nothing.
ReleaseSemaphoreMW(n) ==
  /\ hMutex = NoThread
  /\ IF CurCount + n > MaxCount
     THEN UNCHANGED <<CurCount, hEvent, pc>>
     ELSE CurCount' = CurCount + n /\ SetEvent(pc)
  /\ UNCHANGED <<kind, hMutex, hMutexa, leaked, request>>

\* while (!Exit) ...
ProducerLoop(p) ==
  /\ p \notin producing /\ ~Exit
  /\ producing' = producing \cup {p}
  /\ UNCHANGED <<kind, CurCount, hMutex, hEvent, hMutexa, leaked, pc, request, Exit, toRelease>>

ProducerRelease(p) ==
  /\ p \in producing
  /\ producing' = producing \ {p}
  /\ \E n \in 1 .. MaxCount : ReleaseSemaphoreMW(n)
  /\ UNCHANGED <<kind, Exit, toRelease>>

\* Control-C: raise Exit, then release one unit per consumer.
CtrlcHandler ==
  /\ ~Exit
  /\ Exit' = TRUE
  /\ toRelease' = Cardinality(Consumers)
  /\ UNCHANGED <<kind, CurCount, hMutex, hEvent, hMutexa, leaked, pc, request, producing>>

HandlerRelease ==
  /\ toRelease > 0
  /\ toRelease' = toRelease - 1
  /\ ReleaseSemaphoreMW(1)
  /\ UNCHANGED <<kind, producing, Exit>>

Finished ==
  /\ Exit /\ producing = {} /\ toRelease = 0
  /\ \A c \in Consumers : pc[c] = "exit"
  /\ UNCHANGED vars

Next ==
  \/ \E c \in Consumers : Consumer(c)
  \/ \E p \in Producers : ProducerLoop(p) \/ ProducerRelease(p)
  \/ CtrlcHandler
  \/ HandlerRelease
  \/ Finished

\* Every thread runs; Windows hands a mutex to its waiters in turn, so a
\* thread that waits for a mutex gets it in the end.
Fairness ==
  /\ \A c \in Consumers :
       /\ WF_vars(Request(c) \/ Block(c) \/ Take(c))
       /\ SF_vars(LockA(c)) /\ SF_vars(Lock(c)) /\ SF_vars(Relock(c))
  /\ \A p \in Producers : WF_vars(ProducerLoop(p)) /\ SF_vars(ProducerRelease(p))
  /\ WF_vars(CtrlcHandler) /\ SF_vars(HandlerRelease)

Spec == Init /\ [][Next]_vars
FairSpec == Spec /\ Fairness

-----------------------------------------------------------------------------
\* Every variable has its type.  "The semaphore count is always >= 0 and <=
\* the maximum count" is rule 3 of CreateSemaphoreMW.
TypeOK ==
  /\ kind \in Kinds
  /\ CurCount \in 0 .. MaxCount
  /\ hMutex \in Consumers \cup {NoThread}
  /\ hEvent \in BOOLEAN
  /\ hMutexa \in Consumers \cup {NoThread}
  /\ leaked \subseteq Consumers
  /\ pc \in [Consumers -> Labels]
  /\ request \in [Consumers -> 1 .. MaxCount]
  /\ producing \subseteq Producers
  /\ Exit \in BOOLEAN
  /\ toRelease \in 0 .. Cardinality(Consumers)

\* Rule 1 of CreateSemaphoreMW: the count and the event are used only by the
\* owner of hMutex, so a consumer at its test owns it, and it alone.
Rule1 == \A c \in Consumers : pc[c] = "test" <=> hMutex = c

\* First Satisfiable: "a thread with a satisfiable request will be released".
\* While a consumer sleeps whose request could be met, another consumer has
\* received the event or owns the mutex, and will pass the event on.
SatisfiableAttended ==
  (\E w \in Waiting : request[w] <= CurCount) =>
    \E c \in Consumers : pc[c] \in {"relock", "test"}

\* That is so when the waits for the mutex do not time out.
NoStranded == ~Timed => SatisfiableAttended

\* First Come, First Served: units are never taken while an earlier consumer
\* is waiting for units, whether or not calls time out.
NoOvertaking == [][FCFS /\ CurCount' < CurCount => Waiting = {}]_vars

\* After Control-C every consumer gets "a chance to shut down".
\* Fails, and no run checks it: see section 7 of the README.
ShutsDown == Exit ~> (\A c \in Consumers : pc[c] = "exit")
=============================================================================
