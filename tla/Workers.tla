------------------------------ MODULE Workers -------------------------------
(***************************************************************************)
(* The boss and worker programs of chapter 9.  The stats programs give     *)
(* every worker its own slot to count in and compare ways to guard it; the *)
(* TimeMutualExclusion programs compare the locks under contention, with   *)
(* nested acquisition.  Some programs let only some workers be active, by  *)
(* a throttle semaphore.                                                   *)
(*                                                                         *)
(* How a program guards one unit of work: "shared" is one recursive lock   *)
(* that all workers use, "nested" a pair of them taken in order, "copied"  *)
(* a copy of the lock for each worker (which excludes nobody), "none"      *)
(* nothing or an interlocked increment.  program is rigid.                 *)
(***************************************************************************)
EXTENDS Naturals, FiniteSets, Functions

CONSTANTS
  NThread,      \* workers are 1..NThread
  Tasks,        \* units of work (or iterations) of each worker
  Depth,        \* TimeMutualExclusion: how often a lock is entered in a row
  MaxThread     \* workers that the throttle semaphore admits

WorkersAssumption ==
  NThread \in Nat \ {0} /\ Tasks \in Nat /\ Depth \in Nat /\ MaxThread \in Nat

Workers == 1..NThread
Stats == {"statsCS", "statsIN", "statsMX", "statsMX_ST", "statsNS", "statsNS_old",
          "statsSRW", "statsSRW_VTP"}
Timing == {"CrSecProc", "CrSecProcA", "MutexProc", "SRWLockProc",
           "CrSecProcSC", "CrSecProcASC", "MutexProcSC"}
Programs == Stats \cup Timing

Throttled(p) == p \in Timing \cup {"statsMX_ST"}

Guard(p) ==
  CASE p \in {"statsSRW", "statsSRW_VTP"} -> "copied"
    [] p \in {"statsIN", "statsNS", "statsNS_old"} -> "none"
    [] p \in {"CrSecProcA", "CrSecProcASC"} -> "nested"
    [] OTHER -> "shared"

Enters(p) ==
  CASE Guard(p) = "none" -> 0
    [] p \in Timing \ {"SRWLockProc"} -> Depth
    [] OTHER -> 1

VARIABLES
  program,
  wPc,            \* each worker's next statement
  tasksComplete,  \* each worker's own slot
  held, heldA,    \* how often each worker has entered the lock, the second lock
  sem,            \* the throttle semaphore's count
  bPc, next,      \* the boss, and the worker it creates or waits for
  total           \* what the boss adds up

work == <<tasksComplete, held, heldA>>
boss == <<bPc, next, total>>
vars == <<program, wPc, work, sem, boss>>

InitOf(p) ==
  /\ program = p
  /\ wPc = [w \in Workers |-> "new"]
  /\ tasksComplete = [w \in Workers |-> 0]
  /\ held = [w \in Workers |-> 0] /\ heldA = [w \in Workers |-> 0]
  /\ sem = MaxThread
  /\ bPc = "create" /\ next = 1 /\ total = 0

Init == \E p \in Programs : InitOf(p)

-----------------------------------------------------------------------------
\* A worker

Goto(w, l) == wPc' = [wPc EXCEPT ![w] = l]

GateOpen(w) ==  \* Fault: a worker does not take its turn at the semaphore.
  /\ wPc[w] = "gate"
  /\ Throttled(program) => sem > 0
  /\ sem' = sem
  /\ Goto(w, "loop")
  /\ UNCHANGED <<program, work, boss>>
Gate(w) ==
  /\ wPc[w] = "gate"
  /\ IF Throttled(program) THEN sem > 0 /\ sem' = sem - 1 ELSE sem' = sem
  /\ Goto(w, "loop")
  /\ UNCHANGED <<program, work, boss>>

Loop(w) ==
  /\ wPc[w] = "loop"
  /\ Goto(w, IF tasksComplete[w] < Tasks THEN "enter" ELSE "ungate")
  /\ UNCHANGED <<program, work, sem, boss>>

FreeAlways(h, w) == TRUE  \* Fault: a lock is not exclusive.
Free(h, w) == Guard(program) = "copied" \/ \A v \in Workers \ {w} : h[v] = 0

\* One Enter: in the nested programs each round enters both locks in order.
EnterFirst(w) ==
  /\ wPc[w] = "enter" /\ held[w] < Enters(program)
  /\ Guard(program) = "nested" => heldA[w] = held[w]
  /\ Free(held, w)
  /\ held' = [held EXCEPT ![w] = @ + 1]
  /\ UNCHANGED <<program, wPc, tasksComplete, heldA, sem, boss>>

EnterSecond(w) ==
  /\ wPc[w] = "enter"
  /\ Guard(program) = "nested" /\ heldA[w] < held[w]
  /\ Free(heldA, w)
  /\ heldA' = [heldA EXCEPT ![w] = @ + 1]
  /\ UNCHANGED <<program, wPc, tasksComplete, held, sem, boss>>

Entered(w) ==
  /\ held[w] = Enters(program)
  /\ Guard(program) = "nested" => heldA[w] = held[w]

Work(w) ==
  /\ wPc[w] = "enter" /\ Entered(w)
  /\ tasksComplete' = [tasksComplete EXCEPT ![w] = @ + 1]
  /\ Goto(w, "leave")
  /\ UNCHANGED <<program, held, heldA, sem, boss>>

LeaveOnce(w) ==  \* Fault: a lock entered several times is left once.
  /\ wPc[w] = "leave"
  /\ held' = [held EXCEPT ![w] = IF @ > 0 THEN @ - 1 ELSE 0]
  /\ heldA' = [heldA EXCEPT ![w] = IF @ > 0 THEN @ - 1 ELSE 0]
  /\ Goto(w, "loop")
  /\ UNCHANGED <<program, tasksComplete, sem, boss>>
\* The same number of Leaves; others can enter only after the last of them.
Leave(w) ==
  /\ wPc[w] = "leave"
  /\ held' = [held EXCEPT ![w] = 0] /\ heldA' = [heldA EXCEPT ![w] = 0]
  /\ Goto(w, "loop")
  /\ UNCHANGED <<program, tasksComplete, sem, boss>>

\* ReleaseSemaphore fails, and changes nothing, when it would pass the maximum.
ReleasedUnbounded(s, n) == s + n  \* Fault: the maximum is not kept.
Released(s, n) == IF s + n <= MaxThread THEN s + n ELSE s

\* MutexProc of TimeMutualExclusionSC may also try a release that is too large.
Ungate(w) ==
  /\ wPc[w] = "ungate"
  /\ sem' = IF ~Throttled(program) THEN sem
            ELSE IF program = "MutexProcSC" THEN Released(Released(sem, 1), 2 * MaxThread)
            ELSE Released(sem, 1)
  /\ Goto(w, "exit")
  /\ UNCHANGED <<program, work, boss>>

Worker(w) ==
  \/ Gate(w) \/ Loop(w) \/ EnterFirst(w) \/ EnterSecond(w) \/ Work(w)
  \/ Leave(w) \/ Ungate(w)

-----------------------------------------------------------------------------
\* The boss: create the workers, wait for them, delete the locks, add up.

BossCreate ==
  /\ bPc = "create"
  /\ Goto(next, "gate")
  /\ IF next < NThread THEN bPc' = bPc /\ next' = next + 1 ELSE bPc' = "wait" /\ next' = 1
  /\ UNCHANGED <<program, work, sem, total>>

\* The stats programs wait for one worker after the other.
BossWaitFirst ==  \* Fault: only one worker is waited for.
  /\ bPc = "wait" /\ program \in Stats
  /\ wPc[next] = "exit"
  /\ bPc' = "close" /\ next' = next
  /\ UNCHANGED <<program, wPc, work, sem, total>>
BossWait ==
  /\ bPc = "wait" /\ program \in Stats
  /\ wPc[next] = "exit"
  /\ IF next < NThread THEN bPc' = bPc /\ next' = next + 1 ELSE bPc' = "close" /\ next' = next
  /\ UNCHANGED <<program, wPc, work, sem, total>>

BossWaitAll ==
  /\ bPc = "wait" /\ program \in Timing
  /\ \A w \in Workers : wPc[w] = "exit"
  /\ bPc' = "close"
  /\ UNCHANGED <<program, wPc, work, sem, next, total>>

BossClose ==
  /\ bPc = "close"
  /\ total' = FoldFunction(LAMBDA x, y : x + y, 0, tasksComplete)
  /\ bPc' = "done"
  /\ UNCHANGED <<program, wPc, work, sem, next>>

Boss == BossCreate \/ BossWait \/ BossWaitAll \/ BossClose

Step == Boss \/ \E w \in Workers : Worker(w)

\* The programs.
statsCS == program = "statsCS" /\ Step
statsIN == program = "statsIN" /\ Step
statsMX == program = "statsMX" /\ Step
statsMX_ST == program = "statsMX_ST" /\ Step
statsNS == program = "statsNS" /\ Step
statsNS_old == program = "statsNS_old" /\ Step
statsSRW == program = "statsSRW" /\ Step
statsSRW_VTP == program = "statsSRW_VTP" /\ Step
TimeMutualExclusion ==
  program \in {"CrSecProc", "CrSecProcA", "MutexProc", "SRWLockProc"} /\ Step
TimeMutualExclusionSC == program \in {"CrSecProcSC", "CrSecProcASC", "MutexProcSC"} /\ Step

Next ==
  \/ statsCS \/ statsIN \/ statsMX \/ statsMX_ST \/ statsNS \/ statsNS_old
  \/ statsSRW \/ statsSRW_VTP \/ TimeMutualExclusion \/ TimeMutualExclusionSC

\* The threads run; the pool runs every callback that was submitted.
Fairness ==
  /\ WF_vars(program \in Programs /\ Boss)
  /\ \A w \in Workers : WF_vars(program \in Programs /\ Worker(w))
Spec == Init /\ [][Next]_vars

-----------------------------------------------------------------------------
(* Every variable has its type, within the bounds of the instance.         *)
TypeOK ==
  /\ program \in Programs \cup {"none"}
  /\ wPc \in [Workers -> {"new", "gate", "loop", "enter", "leave", "ungate", "exit"}]
  /\ tasksComplete \in [Workers -> 0..Tasks]
  /\ held \in [Workers -> 0..(1 + Depth)] /\ heldA \in [Workers -> 0..(1 + Depth)]
  /\ sem \in 0..MaxThread
  /\ bPc \in {"create", "wait", "close", "done"} /\ next \in Workers /\ total \in Nat

Active == {w \in Workers : wPc[w] \in {"loop", "enter", "leave", "ungate"}}
Inside(h) == {w \in Workers : h[w] > 0}

(* The throttle semaphore admits MaxThread workers, no release is lost or   *)
(* counted twice, and a worker holds a lock only while it is admitted.      *)
ThrottleConserved ==
  /\ Throttled(program) => sem + Cardinality(Active) = MaxThread
  /\ Inside(held) \subseteq Active

(* One worker at a time is inside a shared lock or a pair of them, and the  *)
(* second lock of a pair is only ever held with the first.                  *)
OneInside ==
  Guard(program) \in {"shared", "nested"} =>
    /\ Cardinality(Inside(held)) <= 1
    /\ Inside(heldA) \subseteq Inside(held)

(* When the boss deletes the locks no worker uses them, and its total is    *)
(* all the work: no slot was read before its worker had finished.           *)
TotalComplete ==
  /\ bPc \in {"close", "done"} => Active \cup Inside(held) \cup Inside(heldA) = {}
  /\ bPc = "done" => total = NThread * Tasks

(* The workers never wait for each other in a circle: the program ends.     *)
Ended == program \in Programs => bPc = "done"
=============================================================================
