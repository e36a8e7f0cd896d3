# A verification project for the programs of *Windows System Programming*, 4th edition

The repository holds the example programs of a book: some two hundred small C
programs, most of them one file, on the Windows API.  Many are sequential and
exist to show a call.  The ones with a design of their own are the concurrent
ones: the synchronization objects of chapter 10 with the programs that use
them, the servers of chapters 11 and 12, the job table of chapter 6, the
parallel file programs of chapters 7 and 14, the services of chapter 13 and an
emulation of System V message queues.  This directory states what those are
meant to do, model-checks it on small instances with TLC and proves the most
important parts for all instances with TLAPS.

All paths below are under `src/src/`.  `PROJECT.json` maps every definition to
the lines it models, lists the runs, the hazards and the theorems.

1. [Inventory](#1-inventory)
2. [Modules](#2-modules-and-their-correspondence-to-the-code)
3. [Runs and bounds](#3-runs-bounds-and-what-they-show)
4. [Fairness](#4-fairness)
5. [Proofs](#5-what-is-proved)
6. [Assumptions and abstractions](#6-assumptions-and-abstractions)
7. [Divergences found](#7-divergences-found)
8. [Not modelled](#8-what-is-not-modelled)
9. [Plan](#9-plan)

## 1. Inventory

### Chapter 10: synchronization objects

| Component | State | Operations | Used by |
|---|---|---|---|
| Bounded queue, seven source files (`QueueObj*.c`) | ring `msgArray`, `qFirst`, `qLast`; guard; "not empty" and "not full" events or condition variables | `QueueGet`, `QueuePut`, `QueueInitialize`, `QueueDestroy`, and the ring operations | the pipelines |
| Pipeline (`ThreeStage.c`, `ThreeStageCS.c`) | three kinds of queue, each thread's work counter and message block, `ShutDown` | producer, transmitter, receiver, consumer, boss | `Messages.c` for message contents |
| Cancellable queue and pipeline (`QueueObjCancel.c`, `ThreeStageCancel.c`) | as above, and flags set by asynchronous procedure calls | as above, cancel | - |
| Pthreads forms (`ThreeStagePthreads/`, `multiPCav.c`, `pcstats.c`) | as above over Pthreads; one message block with several consumers | as above | - |
| Threshold barrier (`ThbObject.c`) and test (`testTHB.c`) | guard mutex, event, count, threshold | create, wait, close | the test's workers and main thread |
| Multiple wait semaphore (`MultiSem.c`) and test (`TestMultiSem.c`) | count, mutex, event, secondary mutex for first come first served | create, wait, release, close | consumers, producers, monitor, Control-C handler |
| Table of named semaphores (`MultiSem.c`, `MultiSemX.c`, `SynchObj.c`) | entries in shared memory: name, reference count, state; a mutex | `AllocSynchHandle`, `CreateSemaphoreMW`, `CloseSynchHandle` | every process that uses a named semaphore |

*Interaction.* A caller's thread executes each operation itself; threads share
the object only through its guard and events, processes through the table.  The
pipeline composes 3 + n queues; the transmitter and the receiver are getters of
one queue and putters of another.

*What is hard.* The wait and the signal: an event pulsed when nobody waits is
lost, an auto-reset event remembers one signal, an awakened thread finds the
queue changed; waits that time out or are cancelled while the answer is on its
way; the end of the pipeline, where threads must stop although their input never
"ends"; an entry of the table that is cleared while another process finds it.

*What makes them correct.* The queue is a bounded FIFO queue whatever it is built
from, and no call sleeps while the queue could serve it.  The pipeline delivers
every message once, in order, to its consumer, and ends.  The barrier lets nobody pass
early and leaves nobody behind.  The semaphore's count stays in range, requests
that can be met are met, and, in its second form, in order.  Handles of one name
share one entry, and a new object starts with its own count.

### Chapter 12: the socket servers

`serverSK.c` keeps a table of `MAX_CLIENTS` slots, each with a state, a critical
section, a thread handle and a socket.  The main thread polls the slots, reaps
stopped server threads and starts an accept thread on a free slot; the accept
thread creates the server thread and marks the slot; the server thread executes
commands and finally posts its stop; the console control handler sets
`shutFlag`, after which main waits for all server threads and returns.
`serverSKST.c` and `serverSKHA.c` have the same threads but no critical section;
they receive messages through `ReceiveCSMessage`, which cuts the bytes of a
stream into messages and keeps what is left over, for each thread or for each
socket.

*What is hard.* Three kinds of thread write a slot; main decides on a slot
under its lock, or without one, and uses it afterwards; main holds the lock that a server thread
needs in order to end; the shutdown races with accepts, and errors end the process from
any thread; a piece of the stream may hold any part of several messages.
*Correct* means: a slot is never given out while its previous
thread runs, a stop is never overwritten, shutdown ends, resources are released
after their last use, and messages arrive in order.

### Other concurrent programs

| Component | State | Operations and interaction | Hard part | Correct when |
|---|---|---|---|---|
| `CHAPTR08/simplePC`, `eventPC` and defective forms | one message block, a ready flag, counters | a producer thread overwrites, a consumer thread takes on request | the event may be stale | consumed messages are valid, counters agree |
| `CHAPTR09/stats*`, `TimeMutualExclusion*` | counters under each kind of lock, a throttle | workers, one boss | lost updates, nested locks, the throttle | totals agree, as many inside as allowed |
| `CHAPTR06/JOBMGT.C` and its copies, `JobShell`, `JobObjectShell`, `CHAPTR15/JobShell_secure` | a job table in a file | several shells add, list and kill jobs under region locks | size read before the lock; a process ends meanwhile | a job has one record, kill ends the job it was told |
| `CHAPTR11/serverNP.C`, `CHAPTR15/serverNP_secure.c`, `clientNP.C` | pipe instances, mailslot, one flag | connect and server threads, a monitor that cancels I/O | cancel once, begin again after it | answers are the requester's, shutdown ends |
| `CHAPTR14/serverNPCP.C` | the same on an I/O completion port | any server thread takes the next completion | the state of an instance passes between threads, and a failure may leave it with nobody | at most one operation or thread per instance |
| `CHAPTR13/SimpleService.C`, `serviceSK.c`, `ServiceShell.c` | service status, stop flags | control handler and service thread under the control manager | both write the status without a lock, and report copies of it | a stop is not forgotten, a stopped service does not run again |
| `CHAPTR14/cciMT*.c`, `cciOV.C`, `cciEX.C` | records in stripes, one buffer per stripe | threads, pool callbacks, overlapped or extended I/O | a buffer used while pending | output equals the image of the input |
| `CHAPTR14/compMP.c` | stripes of two files, a table of mismatches | one thread per stripe | order of insertion, early stop | the first mismatches are reported |
| `CHAPTR07/sortMT` | parts of a mapped file | one thread per part, merges up a tree | who waits for whom | output is the sorted input |
| `CHAPTR07/wcMT*`, `wcST`, `grepMT`, `CHAPTR06/GREPMP`, `CHAPTR09/wcMT_VTP` | one file per worker | threads, processes, pool callbacks; results in temporary files | waiting for the first of several | totals and lists complete, under their names |
| `CHAPTR06/GREP` | a prepared pattern | search of a line | going back after a partial match | reported lines match |
| `Miscellaneous/msg_emulation` | message queues over threads, one guard | System V calls, test program | limits, hysteresis, removal while waiting | counts, order, no lost lock |

### Sequential programs

Chapters 1 to 5 and most of 15, the utilities, and the deliberately defective
exercises (`*X.c`, `*x.c`).  They have no interleavings; record updates
(`RecordAccess.c`) and the binary tree of `SORTBT.C` are algorithms that could
be checked over bounded inputs.  The exercises serve here as a source of
*mutants*: several of the faulty operators in the modules are the faults of
`QueueObjX.c`, `ThbObjectX.c` and `MultiSemX.c`; `simplePCx`, `eventPCx` and
`wcMTxx` are modelled with their programs.

## 2. Modules and their correspondence to the code

```
QueueRing  <-- QueueObj, QueueTimed          the ring as operators on indices
BoundedQueue <-- INSTANCE by both            what a queue promises
ThreeStage                                   the pipeline over such queues
ThbObject, ThreeStage <-- MCChapter10        the barrier and the pipeline
MultiSem, SynchTable <-- MCMultiSem          the semaphore, and the table of the named ones
Workers FileCrew Stripes SortMT CompMP GrepPattern MsgQueues  <-- MCPrograms
NamedPipe <-- PipeServer, PipeCP             <-- MCPipes
ServerSK JobTable Service CSMessage StreamServer  <-- MCProcesses
MsgBlock ThreeStageCancel PThree MultiPCav   <-- MCPipelines
MCX EXTENDS or INSTANCEs X                   TLC instances

QueueRing_proofs  <-- QueueTimed_proofs                        ring, sequences, sums, divisors;
                                                               queues with time limits
                  <-- Queues_proofs  (QueueObj, MCPipelines)   queue object, pipelines over queues
                  <-- Programs_proofs (MCPrograms)             workers, conversions, sort, comparison,
                                                               message queues
                  <-- Processes_proofs (MCProcesses, ServerSK) job table, stream and socket server,
                                                               service, receipt of messages
Chapter10_proofs  (MCChapter10, MCPipelines)                   barrier, pipeline, message block
MultiSem_proofs   (MultiSem, SynchTable)                       the semaphore and the table
Pipes_proofs      (MCPipes)                                    the named pipe servers
```

A module begins with a comment that explains its labels.  Operators introduced by "Fault:"
are not part of a specification; each is a plausible error in the operator that follows
it, and stands beside it so that a reader sees which property would notice.

The MC modules on the right with several modules give each variables of its
own.  A behaviour runs *one* program; the others keep the value that
their `InitOf` gives to a program that does not run ("none").  The programs do
not meet in the code either; the composition only lets one run check them all.
Modules whose programs come in several forms have a rigid variable (`program`,
`shell`, `server`, `library`, ...) that says which form runs, and a behaviour
starts with any of them.

### Chapter 10

**QueueRing** has `RingEmpty`, `RingFull`, `Advance` as the C functions
`QueueEmpty`, `QueueFull`, `QueueInsert` and `QueueRemove` compute them, and
`RingContents`, the messages in order.  One slot always stays empty.  The C
condition for a full ring subtracts unsigned numbers; both indices are below
`qSize`, so the unsigned difference is 1 exactly when the integer one is.

**BoundedQueue** is the abstract specification: a sequence of at most `Limit`
messages, `Put` at the end, `Get` from the front; messages are numbered per
producer and each consumer's history is kept, so loss, duplication, invention
and overtaking are all visible.

**QueueObj** models the three files in which releasing the guard and starting
to wait are one step; the variable `model`, which never changes, selects
between `QueueObj.c` (*broadcast*: manual-reset events and `PulseEvent`),
`QueueObj_Sig.c` (*signal*: auto-reset events and `SetEvent`) and
`QueueObjCV.c` (*condvar*).

| Step | Code |
|---|---|
| `Lock` | `WaitForSingleObject (q->qGuard, ...)`, at the head of a call and after each event |
| `LeaveLoop` | the loop condition is false |
| `SignalObjectAndWait` | the loop condition is true: release the guard and wait, or pass on a signaled auto-reset event |
| `QueueInsert`, `QueueRemove` | the call of that name, including its own test and its ignored error |
| `SignalAndReturn` | `PulseEvent`, `SetEvent` or `WakeConditionVariable`, `ReleaseMutex`, return |
| `QueueDestroy` | as called by `ThreeStage.c` when every thread has ended |
| `SpuriousWakeup` | the documented behaviour of condition variables |

**QueueTimed** models the four files without `SignalObjectAndWait`
(`QueueObj_noSOAW.c` and `QueueObjCS.c`; `QueueObjSig_noSOAW.c`;
`QueueObjCS_Sig.c`).  Releasing the guard (`Release`) and starting to wait
(`StartWait`) are two steps with a label *gap* between them, and a wait may end
by the clock (`TimeOut`).  The files differ in how they account for time, which
`TimedOut` and `WaitsAfter` follow: the first two add one time unit for every wait, whatever ended
it; the others remember the result of the last wait.  After a time-out,
`QueueObjSig_noSOAW.c` alone tests the queue again and may move a message.

**ThreeStage** has one action per queue call of each thread, with the local
computation up to the next call: `ProducerPut`, `TransmitterCheck/Get/Put`,
`ReceiverCheck/Get/Put`, `ConsumerGet`, and `Boss`, which waits for the threads
in the order in which the program does.  A queue call is one step; this is justified by
the refinement shown for `QueueObj` and `QueueTimed`.

**ThreeStageCancel** cannot treat a queue call as one step, because cancelling
interrupts it: a thread is at a statement of its own function or of the call it
makes (*lock*, *wait*, *check APC*, *act*, *ret*).  `CheckAPC` is where the two
flags are read, the asynchronous calls run in an alertable wait, and the boss
queues them in the order of the program.

**PThree** is the pipeline of `ThreeStagePthreads`: `q_get` and `q_put` on a
mutex and condition variables, where a get gives up after `Q_TIMEOUT` and is
repeated `MAX_RETRY` times, and the flags `AllProduced` and `ShutDown` end the
loops.  **MultiPCav** is the program of that name and `pcstats.c`: one producer,
consumers created by command, a stop flag.  Both hold the mutex from a lock to
the next wait, and that is one step.

**ThbObject** covers the barrier and the whole test program; **MultiSem** the
semaphore's wait and release in both forms, with and without time limits (the
variable `kind`), the consumers' and producers' loops, and the control handler
that raises `Exit` and releases one unit per consumer.  `ReleaseSemaphoreMW` is one step
because it holds `hMutex` from its first access to its last.

**SynchTable** is the table of named semaphores.  `AllocSynchHandle` finds an
entry, or takes the first free one, under the mutex; what follows differs
between the files.  `MultiSem.c` writes the name before it gives up the mutex,
`SynchObj.c` (and the defective `MultiSemX.c`) in `CreateSemaphoreMW`
afterwards.  `CloseSynchHandle` is three steps (`Decrement`, `TestRefCount`,
`Clear`), because its wait for the mutex fails (section 7).  `overlap` says
whether the calls of several threads may overlap; without it the table is that
of processes that create and close their semaphores one after the other.

### Chapters 8 and 9

**MsgBlock** has the four programs of chapter 8; `Enter` and `Leave` are the
critical section or the mutex, both recursive, and the history variables
`shown`, `overwritten` and `replaced` say which messages were displayed or
replaced.  **Workers** has a table of the stats and timing programs: each is a
way to guard a unit of work (*shared*, *nested*, *copied* or *none*), with or
without the throttle semaphore (`Gate`, `Ungate`), in threads or in a pool.

### Parallel file programs

**FileCrew** gives each file to a worker; `Boss` is the main program, which
waits for all workers, for chunks of them (`grepMP`), for the first to end
(`grepMT`, which then removes it from three parallel arrays, `Compact`), or polls a flag
(`wcMTxx`).  `GetcCount` and `MappedCount` are the loops that count characters,
words and lines, as folds over the contents.  **GrepPattern** is the preparation and
the search of `GREP.C`, translated position by position; `Documented` is the
reference definition of a match.  **SortMT** is the merge tree: a thread sorts
its part, then either ends or waits for its neighbour and merges.  **Stripes**
has the five conversions: a record is read, changed and written, by threads or
by completions that arrive in any order.  **CompMP** compares blocks of two
files and inserts mismatches into a sorted table under a critical section;
`ReadCompareTest` is the test, with the lock shared, that lets a thread stop early.

**MsgQueues** is `msg_emulation.c`.  Everything happens with one guard locked,
so a call is one step up to its return or its next wait, and each awakening is
a further step.  Two kinds of program call it: its own test program, and
threads that make any call of a small set, for users with and without the right to
change or remove the queue (`Refused`).  A call of `msgsnd` or `msgrcv` marks its queue as
busy once, when it begins (`Busy`), and clears the mark when it returns, whoever else
waits.  `build` is the library under it:
Pthreads, or the emulation of condition variables whose waits also end by
`CV_TIMEOUT` and whose guard its owner may lock again.

### Processes, services and servers

**JobTable** models the file, its region locks and the commands of several
shells in three programs; a region lock may be shared or exclusive and of
length zero, as the code computes it.  Each read or write of a record is a step.
**Service** has the thread of `ServiceMain`, the control handler and the main
thread, with `UpdateStatus` as three steps (set the state, copy the record, and tell
the manager what was copied, `Told`), under a control manager that sends controls as its documentation allows.
**CSMessage** is `ReceiveCSMessage`: `Receive` hands over any piece of the bytes
that have arrived; `Left` is what each library computes for the room that
remains.  **StreamServer** has main, the accept thread, the server threads and the
clients, on whole messages.

**NamedPipe** has what the pipe servers share: the states of an instance, the
client, the mailslot and the monitor.  **PipeServer** adds the server and
connect threads of `serverNP` and `serverNP_secure`; **PipeCP** the completion
port of `serverNPCP`, where `npState` tells the thread that takes a completion what to
do next (`StepsOf`).  Three failures are steps of their own: the thread that computes an
answer cannot be created (`NotComputed`), the temporary file cannot be opened
(`NotOpened`), and the completion of an answer cannot be posted (`Compute`); `lost` remembers the
instances of which nothing is outstanding although the thread went on.

**ServerSK** has the actions of main before shutdown (`PollFree`, `PollBusy`,
`PollStopped`, `Reap`, `PollShutdown`, `AwaitAccepted`, `AwaitShutdown`), after
it (`DrainIdle`, `DrainActive`, `WaitEnded`, `WaitTimedOut`, `WaitAgain`,
`Return`), of the accept thread (`Accept`, `AcceptFails`, `CreateServer`,
`MarkRunning`), of a server thread (`TestShutFlag`, `ReceiveRequest`,
`ExecuteCommand`, `CommandException`, `PostStopped`, `EndServer`,
`ConnectionBreaks`) and the `Handler`.  A critical section in which nobody
waits is one step; the three in which main or the accept thread waits or
creates a thread are several, and `threadCs` says who is inside.

## 3. Runs, bounds and what they show

Runs that pass:

| Run | Instance | Shows |
|---|---|---|
| `queue_object` | 2 producers, 2 consumers, 3 calls each, ring of 3 slots, all three models | no ignored error, no lost wakeup, refinement of the bounded FIFO queue, every call returns |
| `queue_timed` | 2 producers with 2 calls, 1 consumer with 4, ring of 3 slots, five builds | a call's result agrees with what it did, nobody is stranded, refinement, every call returns and the queue is destroyed |
| `chapter10` | the pipeline of 2 pairs with 3 messages each and blocks of 3; a barrier with up to 5 workers, threshold 3, and a main thread that can wait for 4 | `PipelineOrder`, `ExitAfterDone`, `PipelineEnds`: order and completeness end to end, threads end only when their input is used up, all is consumed, and nothing but the receiver can be left waiting; `NoEarlyPass`, `NoneLeftWaiting`, `ClosedNoneWaits`, `BarrierEnds`: nobody passes early or is left behind, nobody waits for the event of a barrier about to be closed, every thread passes when main could wait for all |
| `multisem` | 3 consumers, 2 producers, at most 3 units, four kinds of use; 3 processes, 2 names, 2 entries | satisfiable requests attended to, no overtaking; references counted, one entry per name, new objects start fresh |
| `programs` | 3 workers, throttle 2; 3 files, waits for at most 2; 5 records in 3 stripes; 4 records in 1, 2 or 4 parts; files of 4 blocks, the last short, a table of 2; lines of up to 3 characters and patterns of up to 3 parts; 2 message queues with 2 producers and 2 consumers of 2 messages, or 4 calls of 2 threads | `KeptApart`, `ResultsRight`, `QueuesRight`, `QueueSteps`, `ProgramEnds` |
| `pipe_servers` | 2 instances, 2 clients: a request each for `serverNPCP`; for the others one with two requests and one that only connects | `OneServes`, `AnswersOwn`, `ServersEnd` |
| `processes` | the socket server with 3 slots, and connections that may break; 2 shells, a table of 2, 3 processes, 3 commands; services with 6 commands; 3 messages of 0, 1, 2, 3 or 5 characters with room for 6; 2 stream clients, 2 slots | `SlotUnused`, `StopNotLost`, `LibraryUnused`, `ShutdownEnds`: slots used by one thread at a time, no stop overwritten, library freed when unused, Control-C ends the process; `OwnTarget`, `MessagesRight`, `NoSetback`, `ProcessesEnd` |
| `pipelines` | 3 messages in the block; 1 pair with 2 messages or 2 with 1, blocks of 2, cancelled; 1 pair with 3 messages and one retry; 3 messages for 2 consumers | `BlockRight`, `OnTheWay`, `BlockAnswers`, `PipelinesEnd` |

The properties of the last four runs, but for those of the socket server, are conjunctions,
one for each question; each conjunct is a property of the module it is about, stated and explained
there, and `PROJECT.json` has a mutant for each of them.

* `KeptApart`: the throttle is conserved and one worker is inside a shared lock
  (`ThrottleConserved`, `OneInside`), no two stripes hold the same record
  (`StripesApart`), no two sorting threads touch the same part (`PartsDisjoint`).
* `ResultsRight`: the total is all the work (`TotalComplete`), the counts of `wc` are
  those of a definition by positions (`WordCountRight`), `grep` lists every
  match, and under its own name (`EveryMatchListed`, `ListedUnderItsName`), the whole
  file is converted (`AllConverted`) or sorted (`GroupsSorted`), the mismatches are the
  first (`TableFirst`, `FirstMismatches`), and a search finds what is there
  (`FoundSound`, `FoundExact`).
* `QueuesRight`, `QueueSteps`: byte counts cover what queues hold, messages of the test
  arrive once and in order, keys are unique; a message is placed only within the
  limits, and only a call with an invalid identifier keeps the guard (this is what the code
  does, and not what it should do).
* `OneServes`, `AnswersOwn`, `ServersEnd`: an instance has at most one operation or one
  thread, and in `serverNPCP` one without either has cost a server thread, by its client's leaving or by
  a temporary file that could not be opened, or is `lost`; a
  client reads the whole answer to its own last request; a shutdown ends the servers,
  `serverNP` unless an operation began too late, `serverNPCP` unless it has lost so many
  instances that there are fewer completions than threads.
* `OwnTarget`, `MessagesRight`, `NoSetback`, `ProcessesEnd`: kill ends the process it was
  told; a slot has one thread; bytes are not lost or reordered, and short
  messages arrive whole; active jobs are not overwritten, a service that the manager
  knows as stopped never runs again, and a stale RUNNING reaches it after STOP_PENDING
  once at most; commands, services and servers end.
* `BlockRight`, `BlockAnswers`: no BAD message is displayed, each is shown, replaced or
  ready, and the lost ones are counted (in `simplePC` they are not, which is the run
  `block_counts`); a command is answered, a stop ends both
  threads, and `eventPCx` never lets go of its mutex.
* `OnTheWay`, `PipelinesEnd`: queues change under their guard and messages keep their
  order although calls are cancelled or time out; the programs end in the
  circumstances in which they do.

Runs that end in a violation, explained in section 7: `queue_signals`
(`NoneStranded`, with one producer and two consumers), `multisem_timed`
(`SatisfiableAttended`), `table_names` (`NamesUnique`) and `block_counts`
(`CountsBounded`).  Fifteen other
properties that the code does not have are stated in the modules, with the
words of the program they come from and the remark "Fails, and no run checks
it"; section 7 has them too.

*Why the bounds are enough for the interesting cases.*  A ring of three slots
holds two messages: it is empty, partly full and full, and with six messages its
indices wrap around several times.  Two threads on each side are what a single
signal can reach too few of.  The timed queue has the number of consumers its
callers have (each queue of the pipeline has one getter; `queue_signals` has two).  Two pairs with three messages and a done
message make eight messages: two full blocks and one incomplete, so done
messages occur at the start, in the middle and at the end of a block, and the
transmitter's final, incomplete block is exercised.  The barrier has up to two
threads that arrive after it has opened; `MAXIMUM_WAIT_OBJECTS` is 4 in place of 64,
so that five workers are too many for the wait of main, and fewer than three leave
everybody waiting.  Three consumers of up to three units
allow one waiter to be satisfiable while another is not and a third one holds
the event.  Three processes with two entries leave one without an entry, and
let one find an entry that another is closing while a third uses it.  Three slots let main hold one, the accept thread use another and a
server thread end in a third.

In `programs`, three files with a wait for at most two make `grepMP` wait in two
chunks and `grepMT` compact its arrays twice; five records in three stripes give
stripes of different lengths and a short last record; four parts give two levels
of merging; a table of two mismatches in four blocks of two threads is full
while blocks before its last entry are still to come, and a mismatch may lie in
the bytes after the last whole unit.  The limits of the message queues let one
message wait for room in its queue and one for room in the system.  In
`processes`, three processes for a table of two records fill it; the message
lengths lie on both sides of what the square of a length leaves of six.
In `pipe_servers`, one client reads two answers while the other only connects and
leaves, which is the case in which an instance is disconnected unused.  In
`pipelines`, messages fill their blocks or leave a rest, and a get may give up; `MAX_RETRY` is 1
there, so a get is never repeated after a time-out, which the theorem about `PThree`
(`ConservedWaiting`) covers for every number of retries.

Bounded quantities: the calls per thread (`Puts`, `Gets`, `goal`, `MaxCalls`), commands
(`JobCommands`, `ServiceCommands`), messages (`MaxMessages`, `NMessages`,
`MaxSequence`), requests (`MaxRequests`), the maximum
count of the semaphore, and the numbers of slots and entries, which are parameters of the
programs as well.  The waits that count towards `MaxWait` are bounded by
`MaxWait + 1` because the call ends.  `table_names` and the other runs of
`SynchTable` need no bound.  Nothing else grows.

Deadlock is checked where a program must not stop (the queues).  It is not checked in
`chapter10`, where the receiver may remain in `QueueGet` (section 7), in the
semaphore runs, in which consumers may be left waiting for units that no
producer will release after `Exit`, and in the four composed runs, whose
programs end.  There, and in `chapter10`, termination is a property of its own.

## 4. Fairness

* Every thread that can run does so in the end (weak fairness of its steps);
  Windows schedules ready threads of equal priority in turn, and the programs do not
  change priorities.  A completion of the file system, a callback of the thread
  pool and the monitor's broadcast come in the end.
* A thread that waits for a mutex or critical section gets it (strong fairness
  of `Lock`, `LockA`, `Relock` and of the guarded steps of `MsgQueues`), although others
  take it again and again.  Windows serves the waiters of a mutex in order of arrival.  For
  critical sections and SRW locks this is weaker in reality; the programs leave
  them for an event wait, a call or a sleep between two uses.  The same holds for a
  shell that waits for a region lock (`JobTable`).
* In the composed programs with many threads the queue operations of `PThree`,
  `MultiPCav` and `ThreeStageCancel` need weak fairness only: each run has
  finitely many other calls that could go first.
* In `ServerSK` one strong condition covers all the threads that wait for a critical section
  at the shutdown: main holds one of them at a time, again and again, and of
  the server threads that could have entered theirs often enough, some thread does.
* A finite wait ends (`TimeOut` is a step of the thread).  Spurious wakeups,
  Control-C, user commands, connections, exceptions and broken connections are
  *not* assumed to happen; the liveness properties start from the command, the flag or
  the request.
* The socket server in `processes` needs that a client sends a command or disconnects in the
  end, and that commands end: the server has no time limit of its own for them,
  and `ShutdownEnds` is false otherwise, as the comment in the program ("some
  threads may be long running") grants.

## 5. What is proved

For every value of the constants, from the assumptions in the modules (finite
sets of threads, disjoint roles, sizes that are positive), and with no use of fairness:

| Module | Theorem | Property |
|---|---|---|
| `Queues_proofs` | `TypeCorrect`, `MutualExclusion`, `MoveNeverFails` | `TypeOK`, `GuardOwner`, `MoveReady` |
| | `WakeupsSuffice` | `NoLostWakeup` |
| | `ImplementsBoundedFIFO` | `BoundedFIFO`, i.e. `Spec => BQ!Spec` |
| | `NothingLostOnTheWay` | `OnTheWay`, from the next three |
| | `DeliveredInOrder` | `TypeOK`, `MovesGuarded`, `DeliveryOrder` of `ThreeStageCancel` |
| | `ConservedWaiting` | `TypeOK`, `Conserved` of `PThree` |
| | `CountedOnce` | `TypeOK`, `EachOnce` of `MultiPCav` |
| `QueueTimed_proofs` | `TypeCorrect`, `StatusIsTruthful` | `TypeOK`, `StatusTruthful` |
| | `NoneLeftStranded` | `NoneStranded`, if one thread gets all that is put (`OneGetter`) |
| | `ImplementsBoundedFIFO` | `BoundedFIFO`, in every build |
| `Chapter10_proofs` | `BarrierTypes`, `NobodyPassesEarly`, `NobodyLeftWaiting`, `ClosedNobodyWaits` | `TypeOK`, `NoEarlyPass`, `NoneLeftWaiting`, `ClosedNoneWaits` |
| | `PipelineKeepsOrder`, `ThreadsExitAfterDone` | `PipelineOrder`, `ExitAfterDone` |
| | `BlockIsRight`, `MutexHeldForEver` | `BlockRight`; `StaysHeld` of `MsgBlock`, a part of `BlockAnswers` |
| `MultiSem_proofs` | `SemaphoreTypes`, `OwnerTestsTheCount`, `SatisfiableIsReached`, `NobodyOvertakes` | `TypeOK`, `Rule1`, `NoStranded`, `NoOvertaking` |
| | `TableTypes`, `ReferencesCounted` | `TableTypeOK`, `RefsCounted` and `OneCreator` |
| | `NamesKept`, `StartsFreshly` | `OneObjectPerName`, `StartsFresh` |
| `Programs_proofs` | `ProgramsKeptApart` | `KeptApart`: the throttle and the locks of the workers, the stripes, the parts of the array, and the types of six programs |
| | `QueuesStayRight` | `QueuesRight`: counts, keys and sequence of the emulated message queues |
| | `QueueStepsAllowed` | `QueueSteps`, an action property of the same |
| | `AllWorkCounted`, `EverythingIsConverted` | `TotalComplete` of `Workers` and `AllConverted` of `Stripes`, parts of `ResultsRight` |
| | `FilesListed` | `ListedUnderItsName` and `EveryMatchListed` of `FileCrew`, parts of `ResultsRight` |
| | `StripesStayApart` | `StripesApart` of `Stripes`, a part of `KeptApart` |
| `Processes_proofs` | `WorksOnItsOwn` | `OwnTarget`: kill hits the process it names, a slot of the stream server has one thread |
| | `NothingSetBack` | `NoSetback`: records of active jobs, the removal by `JobShell_secure`, what the manager is told of a service |
| | `MessagesArrive` | `MessagesRight`: the stream is given on byte by byte, and short messages arrive each whole |
| | `ServerTypes`, `SlotsReusedSafely`, `StopsAreSeen`, `HandlesAreKnown`, `LibraryFreedUnused` | `TypeOK`, `SlotUnused`, `StopNotLost`, `WaitsOnHandle`, `LibraryUnused` of `ServerSK` |
| `Pipes_proofs` | `InstanceServedOnce` | `OneServes`: an instance has at most one operation or one thread, and ended threads are accounted for |
| | `ClientsReadOwn` | `AnswersOwn`: answers belong to the last request of the client and end once |

The type invariants, and `GuardOwner`, `Rule1`, `OneCreator` and
`WaitsOnHandle`, hold in every instance by these theorems, and the runs do not
check them again.

`QueueRing_proofs` holds the lemmas about the ring on which the queues' proofs rest: `Advance` stays in
the array, a full ring holds `qSize - 1` messages, inserting appends to
`RingContents` and removing takes its head.  It also holds those about sequences, sums,
divisors and powers of two that the pipelines and the programs of chapters 9 and 14 need (below).

*Queue.*  `TypeOK`, `GuardOwner` and `MoveReady` are inductive together: only
the owner of the guard is at *test*, *move* or *signal*, so the ring cannot
change between the test and the move.  `NoLostWakeup` is inductive
relative to them.  It compares two counts: what the queue could serve (`Stock`)
and the threads that are already on their way (`Coming`) or about to signal
(`Announcing`).  A move changes the stock by one and turns one thread
from coming to announcing or the reverse for the other side; a signal turns one
announcer into one comer if anybody sleeps, and if nobody sleeps there is
nothing to show; a thread that goes to sleep has just found the stock to be
zero.  That last step needs release and wait to be one step, which is what
the comment on `SignalObjectAndWait` in `QueueObj.c` insists on.  The
refinement maps the ring to `RingContents` and counts a message as sent from
the moment `QueueInsert` has stored it; `MoveReady` makes every move a `Put`
or a `Get`, and all other steps stutter.

*Queues with time limits.*  Again only the owner of the guard is at *move*.
`Status` follows one call: at *move* the queue can serve it or it has timed out,
and it stays so because the ring does not change under the guard; past the move,
a call that is about to return 0 has moved one message more than the calls
that have returned 0 (`Owed`).  `QueueObjSig_noSOAW.c` tests the queue again after a
time-out, so for it only one direction holds, as `StatusTruthful` says.  The
refinement needs no more than the types, because a move is conditional on the
queue itself (`Moves`).

`NoneStranded` is about `QueueObjCS_Sig.c`, which waits without a limit although
a signal between the release of the guard and the wait may be lost.  It
holds with one getter that gets all that is put (`OneGetter`, as in the pipeline;
section 7 shows that it fails with several), and the invariant (`StrandInv`) says why.
If the getter is about to wait while a message is there, the
event is still signaled or a producer is about to signal it (`GetterSignaled`);
if producers wait and the queue is empty, the getter is about to
signal them, the event is signaled, or another producer is on its way
(`PutterSignaled`).  A full queue with the getter gone is excluded by counting:
the messages sent are those received and those in the ring (`Conserved`), so
the getter cannot have had all that it gets.

*Barrier.*  The invariant adds that the count equals the number of threads that
have arrived (so none is counted twice), that a thread at its test owns the
mutex, that the event is set only after the threshold is reached and before any
thread is woken or returns, and that from then on the event is set or the
mutex is owned by a thread that will set it.  `ClosedNobodyWaits` holds for more
workers than main can wait for: when main owns the mutex and finds the threshold
reached, the event is set, and stays set for those on their way to wait for it.

*Pipeline.*  `PipelineOrder` looks at the line of queues and blocks between a producer and
its consumer (`Line`) and says that the messages in it are numbered upwards, from
what the consumer has got to what the producer has made, each once (`Carries`).
It is stated over places in these sequences and not over their concatenation,
which would be a recursive definition.  A step appends to the line, takes its
first message, or moves a message or a block within it; `SameCarries` and the
lemmas about `Append` and `Tail` do these once for all queues.  `ExitAfterDone` needs the two
counts: `tActive` and `rActive` are the numbers of producers whose done
message the Transmitter, or the Receiver, has yet to pass on (`TransmitterAwaits`,
`ReceiverAwaits`), which rests on each done message being on its way once.

*Cancellable pipeline.*  Assumed are the sizes of blocks and queues, at least
1, and that goals, retries and numbers of pairs are natural numbers
(`PipelinesAssumption`); there may be any number of pairs.  `CancelInv` says which call
a thread is in and with which message (`Calls`), that a get that was not
cancelled has returned a message of its queue (`Answered`), that a thread at the
change of a queue owns its guard and has tested it (`Tested`, which gives
`MovesGuarded`), and that calls are cancelled only after `ShutDown`
(`CancelledLate`).  The messages of a pair lie in seven places
between its producer and its consumer (`Places`: in a call of the consumer, its queue,
the Receiver's block, and so on back to the first queue).  A step by which a
message goes on joins two neighbouring places to the same sequence as before
(`Kept`, `PlacesKept`); a put to the first queue appends to the last place, and a
returned get removes the head of the first.  `CancelDelivery` says that the places together
are `Numbers`: what has been put and not been got, upwards, each once.

*Pipeline with time limits.*  `PtInv` says which values a thread at each statement has, with its
retries, and `PtDelivery` is the same argument with five places.  Giving up
after `MAX_RETRY` leaves the message in its place.

*Consumers on condition variables.*  `MultiInv`: the sequence number is the sum of what the consumers
have counted, and one more while the block is full; the block is filled only
when it has been consumed.

The library defines concatenating a sequence of sequences (`FlattenSeq`), and summing a function
(`MapThenSumSet`), by folds.  What these compute is shown in
`QueueRing_proofs` by the least counterexample: if the statement failed for some
length (or cardinality), there would be a least one (`WFMin`), and the
function's equation at that number contradicts it.

*Message block.*  `BlockRight`, which says nothing of the counts in `simplePC`, is inductive with who owns the guard at which statement
(`Owners`), that a block is filled only while it is not ready, but for the defective
program (`Filling`), and, for `eventPCx`, which does not test the flag, that the
event it takes announces what is still there (`Announced`).  `MutexHeldForEver`
follows from `Owners`: only the producer sets the event, inside.

*Semaphore.*  `NoStranded` is not inductive: that a satisfiable waiter exists
while nobody carries the event must be excluded from the state of the event
itself.  The invariant adds `EventOrNobody` (nobody is in the wait while
the event is signaled), `Passed` (without time limits, if some units are left,
the event is signaled or a thread that received it has yet to take the mutex)
and, for the first come first served form, `Queued` (a consumer between its two
locks and its return owns `hMutexa`, so at most one consumer waits for
units).  `Queued` holds with time-outs too, because a Windows mutex is
recursive: the only thread that can pass a leaked `hMutexa` is the one that
leaked it.

*Table of named semaphores.*  Assumed are finitely many processes, entries
numbered from 1, and that "" is no name (`TableAssumption`); for the names also
that the library is one of the two (`LibraryAssumption`).  The properties of the
names are about calls that do not overlap (section 7 says why); the counts are
right in either case.  The count of an entry is compared with the set of the handles
that use it (`Holders`), and each step adds or removes one.  What makes this
inductive is the shape of a handle between the steps of a call (`Shapes`,
`Calls`) and that an entry about to be cleared is used by nobody (`Cleared`).
For the names, the entry of an open handle has the handle's name (`Kept`),
entries in use have different ones (`Distinct`), and, since `SynchObj.c` writes the name
late, an entry may for a time carry a name that nobody has written yet
(`Used`, `Unwritten`).

*Socket server.*  The invariant says who holds each slot's critical section
(`Holders`), what a slot's state says about its thread and handle
(`SlotMeaning`), that the slot of the accept thread stays free until it is
announced (`AcceptMeaning`), and what main waits on (`MainMeaning`).  A thread
that has just been created cannot post its stop because the accept thread is in the
critical section, which is `StopNotLost`.  For `LibraryUnused`, `Counted`
follows the shutdown loop: if no running thread has been counted so far, no
thread in the slots already visited is in a command, and none begins one, since
`shutFlag` is set.

*Programs.*  `ProgramsAssumption` joins the assumptions of the six programs below, and TLC
evaluates it in `programs`.  One program runs and the others
stay as they are, so the invariants are proved one program at a time and
put together in `AllKept`.

*Workers.*  `WorkersInv`: the semaphore and the workers past it add up to `MAX_THREAD`
(`Admitted`), only one worker holds a lock that all share (`Alone`), a worker's locks are
those it has entered and not left, and a worker has done its `Tasks` when it leaves its
loop (`WorkerAt`).  For the total, main has waited for all the threads before `next`, so
at the end all have exited and the sum of the counts is `NThread * Tasks`
(`SumOfSame`).

*Stripes.*  Assumed is at least one thread or buffer (`StripesAssumption`).  The records
of stripe k are those that leave k when divided by the number of stripes
(`Stripe`): no two stripes share one (`StripesDisjoint`) and every record is in one
(`StripesCover`).  The invariant says that threads have different stripes, which for the
pool means that the callbacks that have started are numbered without gaps
(`Numbered`), that each is at a record of its stripe (`Place`), and that what it has passed
is in the output but for a record it is writing (`Passed`).  For the end, `Counted` compares
the completions that overlapped and extended I/O count (`done`) with the reads and
writes that have been reported: 2 * `nRecords` of them are all.

*Sort.*  Assumed is that the numbers of threads divide that of the records and have no odd divisor
but 1, which is what `sortMT` asks of its arguments (`SortAssumption`).  The loop of
`ThSort` doubles `twoToI` while it divides the number of the thread and is
below the number of threads.  That two threads never work on overlapping parts needs some
arithmetic: `twoToI` is a power of two (`Powers`, the
least set closed under doubling) that divides both the thread's number and that of the
threads (`SortRuns`), of two powers of two the smaller divides the larger
(`PowersCompare`), so a group of threads that would reach into another begins
inside it.  Hence `GroupsApart`: the threads of a group, but for the first, have
exited.  A thread joins the next group only when it has waited for its first thread, and
that one exits only when its own group cannot grow (`Merging`).

*Crews of files.*  `CrewInv` has the types.  `GrepInv` is about the two programs that search:
an argument or a temporary file may be moved by the boss while searches run, but the
entry of a worker that has not ended is its own, and so is the file it has copied
(`OfGrep`).  What is listed are the files with a match whose workers have been
waited for (`Found \ Left`), or in `grepMP` those up to the one being listed, and a list that has each
name once stays so when a name is appended that is not in it (`ListMore`).

*Comparison.*  For `compMP` only the types are proved (`CompareInv`): offsets stay in the greatest file.

*Message queues.*  Assumed are natural numbers as limits and one queue at least, that the
calls offered are calls a program can make (`GoodCall`), and that the messages of the test fit in
a message (`QueuesAssumption`).  `QueuesInv` compares the counts with what is
held, message by message: `Holds` is the sum of the lengths with their headers and
`Counting` the number of the messages that are counted (those of length 0 are not), and every
`cbytes` and `qnum` covers them (`Covered`), as `b_current` covers the sum
over the queues.  Appending a message adds to `Holds` its room (`HoldsMore`) and
taking one at any place takes as much away (`SumLess`).  What
makes the counts stay above is a detail of `update_status`: a
message that is taken reduces `cbytes` by what was given out, which for a message that
was cut is less than what is freed.  A waiting call only marks its queue as busy
(`Pending`): it begins again from the test, and then the queue may have been removed or
made anew.  The mark protects nobody (`WaitersProtected` fails, section 7), and nothing in the
proof rests on it: it may have either value (`BusyIs`).  `PlacedInLimits` speaks of what is really held.  The code
compares the counts with the limits, and since the counts cover what is held the message fits
(`BytesRight`).

The messages of the test program are followed by their places in the queue
(`OnWay`).  For each producer, the numbers of its messages in the queue increase, and they are
exactly those from what its consumer has received (`got`) to what it has sent
(`SentIn`).  A send adds the next number at the end; a receive by type takes the first
message of its type (`Fit`), which is the least number and so the next in
sequence.  This needs that main has made the queue before any other call succeeds (`MainFirst`,
`TestQueue`), that every call in progress is one of the test's (`CallsKnown`), and that messages
are as long as the receivers' buffers.

Sums over a set are `SumOf`, any function that adds up along some order of the
elements; `SumTake` shows that any element may be added last, and hence all orders
give one result.  The library's folds are shown to be such sums.

*Job table.*  A region lock is a function of where its shell is
(`LocksRight`), hence two shells that add exclude each other, and the listing of
`JobShell_secure` excludes them when it has found a table that is not empty (`AddsAlone`).
That is what keeps the record a shell has seen free (or its process gone) as it
was until the shell writes (`SeenStays`).  `KillHitsNumber` rests on `Owned`: the process in a
record, or taken from it by kill, has had no other number than that of the record, and
a shell that is still to tell it will tell that one.  A process that is being
added is in no record and no other shell adds it.

*Stream server.*  Before a shut down the slot of a thread that lives has the handle of that thread, if
the accept thread is not just about to store it (`Owner`), and a status that says
where the thread is (`ThreadsOwn`); a slot that has stopped has the handle of a thread
that is past its loop (`StoppedOwned`), and the slot that the accept thread
works on has no living thread (`Accepting`).

*Service.*  `NeverBack` is about a record that two threads write without a lock, and of which
each tells the manager copies.  Until RUNNING has been told the manager sends no control, so
ServiceMain is alone (`Starting`, `Early`).  Afterwards (`Late`): STOPPED is written, and
copied, only when ServiceMain has nothing more to write (`StoppedAtEnd`); the record says RUNNING
after a stop only until the handler has written STOP_PENDING, and a copy of RUNNING that is told
later is the last one, in the hands of ServiceMain (`RunningBeforeStop`); nobody has a copy
of START_PENDING (`StartedOnce`).

*Messages.*  Assumed are a buffer of at least one byte, messages that end within it
and a number of messages that is a natural number (`MessageAssumption`).  `MsgInv` says that
nothing is lost in either library: the stream is what has been returned
(`Got`) followed by what is in the caller's buffer, in the static one and on the wire
(`ToCome`).  For messages of which less than `MAX_MESSAGE_LEN` is taken off
the length still to receive (`Short`; `Takes` is twice the message, or its square in
`SendReceiveSKST.c`, section 7), those returned are the first ones and what is to come is the rest
of the stream (`Intact`).  That a call ends at the nul and not for want of room needs
`Enough`: a call in progress may still receive `MAX_MESSAGE_LEN` less what its bytes so
far took, has seen no nul, and is not at the end of the stream.  The square of a
sum is at least the sum of the squares, so a message that comes in several parts takes no
more than one that comes at once (`TakesEnough`).  The cut of a sequence at its first nul is
unique (`OneCut`), so that what has been returned is the next message.

*Named pipe servers.*  Assumed are one instance or more, finitely many server
threads, at most as many as instances (`ClientServer.h` has 4 threads, `MAX_SERVER_TH`, and
128 instances, `MAX_CLIENTS_CP`), and that 0 is no client.  Both servers have the same clients, and what a client
does to an instance is one of five things (`Effect`: nothing, opening it,
asking, reading, closing), which is proved once for each server (`PortClient`,
`ServerClient`) and used in both proofs.  `Talk` says what is on the way between a
connected instance and its client: requests and answers of the client's last
request, nothing while it prompts, no answer beside an unread request, and the end
of an answer only as the last message.

For `serverNPCP`, `PortInv` says that the instances with an operation pending, those with a
completion in the port and those held by a thread are disjoint, and that each of the latter two
has one completion, or one thread (`Apart`); that the state in which an instance is left fits the
operation that is pending (`Steps`); and, before a shut down, that as many
threads have ended as instances are in none of the three sets and not lost (`Dead`), that
each of these has a client that left or an answer that was computed and not opened, and
that a request in hand is that of the client, which waits for its answer (`Works`).  After the monitor
has cancelled, the last two need not hold: a cancelled operation goes through the port
like any other, and a thread that sees the shut down ends with its instance.
`ThreadInv` is simpler, since each instance has its own two threads: it says at which
statements the connect thread may be at work (`Connects`), what is in the temporary file (`Files`),
and whose request is in hand (`Busy`).  The last does not hold for
`serverNP_secure`: it does not set the length of an answer (section 7), so an answer may
end twice, and the client may ask again while a request of its own is still unread.
`AnswersOwn` excepts it for that reason, and the proof showed that the bound of one
unread request in its type invariant holds only in small instances; it is now stated
for the other servers alone.

*Only model-checked.*  All liveness (fairness and ENABLED are outside of this
prover's reach), and with it the properties `Termination`, `BarrierEnds`,
`PipelineEnds`, `ShutdownEnds`, `BlockAnswers` but for `StaysHeld`, and those named "End".
Of the safety properties, `ResultsRight` of `programs`, of which `TotalComplete`,
`AllConverted`, `ListedUnderItsName` and `EveryMatchListed` are proved.  Its other parts say what an algorithm computes: the counts of
`wc`, the merged and sorted array, the first mismatches, the pattern
search.  They compare a loop with a definition by recursion or by
sorting over any input, which is induction over data and has to stay with TLC.
No module uses RECURSIVE operators.

## 6. Assumptions and abstractions

* `SignalObjectAndWait` is atomic, as the programs and the book rely on.
  (Microsoft's documentation does not promise it.)
* `PulseEvent` releases all threads in the wait.  (A thread taken out of its
  wait by the system for a moment would miss it; the documentation advises against the call.)
* No thread ends while it owns a mutex, so no mutex is abandoned, except in
  `ThreeStageCancel`; creation of threads and objects
  succeeds, except where a branch of the code is about it.
* Spurious wakeups of condition variables are in `QueueObj`, not in `PThree`,
  `MultiPCav` and `MsgQueues`.
* Messages are pairs of a producer and a number; the random payload, time stamp
  and checksum of `Messages.c`, message lengths and texts of the server's protocol
  and output to the console are left out.  In `MsgBlock` the checksum is whether
  it belongs to the data.
* In `MultiSem` a release is one step.  For the time-out of a mutex wait this means that
  the owner of `hMutex` need not be visible; `TimeOut` is therefore allowed whoever
  owns it.  In `SynchTable` the shared mapping stays open, a process has at most
  one handle, and the kernel objects that `CreateEvent` and `CreateMutex` find by their
  names are not represented.
* In `ServerSK` command execution is one step with two outcomes (completed,
  exception); receiving may deliver a command, a disconnection or a quit; an
  error of the connection ends the process with one of the codes of the program.
  Freeing the library and closing the socket are one step (*join*), which
  nothing can observe separately except a command in execution, about which
  `LibraryUnused` speaks.
* In `JobTable` process identifiers are used once.  Windows uses them again,
  and `kill` would then end a stranger; this is described in section 7 and
  needs no model.  Reading and writing a record are steps, and region locks are
  mandatory, as in Windows.
* In `MsgQueues` the threads of a program are one user to `msgq_access`; to `msgctl` a caller is
  the super user, the owner of the queue or another user, and the buffer it passes is not NULL.
* In `Service` the control manager sends what its documentation allows in the
  state it knows: no control before the service has reported that it runs.
* In the pipe servers the command's process is its output or the failure to
  create it; a client reads all lines of an answer; broadcasts in the mailslot
  may be lost or late.
* In `ThreeStageCancel` the boss goes on when it queues a call to a thread that has ended;
  in the program `QueueUserAPC` fails then and the process exits with an error (`:167`, `:170`).
* In `SortMT` sorting a part is one step; each access of the merge is one, so that
  `PartsDisjoint` can compare what threads touch.  In `Stripes` a record is its
  number and how often it has been shifted; in `CompMP` files are the set of places where
  they differ.  `GrepPattern` works on the characters themselves, because its
  property is about them.

## 7. Divergences found

With a run:

1. **Signals to two getters** (`queue_signals`).  "Exactly one waiting thread is released
   every time the queue becomes non-empty", and "the signal model does not
   have to worry about lost signals" (`CHAPTR10/QueueObjCS_Sig.c:4`, `:11`).  But the
   guard is left before the wait begins (`:30`): if two messages are put while two
   getters are between the two, the auto-reset event remembers one signal, and a
   getter waits with a message in the queue.  The queues of the pipeline have one
   getter each (and the first one several putters), for which `queue_timed` shows that
   this does not happen.
2. **Time limits on the semaphore** (`multisem_timed`).  A consumer that has
   consumed the event and times out on the mutex returns without passing it on;
   a satisfiable request is left asleep.
3. **Two semaphores of one name** (`table_names`).  `AllocSynchHandle` stores
   the handle of the table's mutex in a local variable that hides the static
   `hSynchDB` (`CHAPTR10/MultiSem.c:314`), so the wait of `CloseSynchHandle` for the
   static one fails at once, and it clears an entry that another process has
   just found.  The next creator of the name gets an entry of its own.
4. **The counts of `simplePC`** (`block_counts`).  "Also, at all times,
   0 <= nLost + nCons <= mSequence" (`CHAPTR08/simplePC/simplePC.c:29`).  Line 115 sets `nLost`
   to `mSequence - nCons + 1` before line 117 increments `nCons`: when the first message is
   displayed, `nLost` is 2 and `nCons` 1.

The following are described only.  Where a property is named, it states what the
program says of itself, the code does not have it, and no run checks it.

*Queues and pipelines.*

* `QueueObjSig_noSOAW.c` waits for `CV_TIMEOUT` whatever `MaxWait` is and gives
  up after the first wait that times out, so a call with `INFINITE` may return
  without a message, or with its message not sent (`InfiniteMeansMoved`).  The
  pipeline built with this file ignores the result and loses the message.
* The pipeline may not end (`SystemFinishes`).  A consumer returns when it has its goal,
  without its done message.  If the messages exactly fill a block, the boss may
  raise `ShutDown` before the transmitter starts the block that would hold the
  done messages; the receiver, already in `QueueGet`, waits for ever, and the boss for it.
* `ThreeStageCancel` sends blocks only when they are full, so a remainder is never
  consumed; the second asynchronous call sets only `ShutDownPut`, so a receiver in
  `QueueGet` may wait for ever (`ThreeStageCancel!Finishes`).  A cancelled call may return
  while it owns the guard, which is then abandoned.  `ShutDownReceiver` is not used.
* `ThreeStagePthreads/ThreeStage.c:169` says that all messages have been consumed
  when `ShutDown` is set; `AllProduced` may stop the transmitter with messages in
  its queue (`AllConsumedAtShutDown`).  A producer has a local variable
  `AllProduced` that hides the global one.  A transmitter that has timed out
  `MAX_RETRY` times in a row sends empty blocks and never gets again, because
  only a successful get resets the counter.  A put waits for ever when the next
  stage has given up.
* In `multiPCav` the stop signals `mReady` only: without a consumer in its
  loop the producer waits for ever.  A consumer waits before it tests
  `f_ready`.  `pcstats.c` verifies a checksum with `|=` that was made with
  `^=`, so good messages count as bad.  Neither builds on Windows as it is.

*Barrier, semaphores and their table.*

* `testTHB.c` ignores the result of `WaitForMultipleObjects`, which fails at
  once for more than 64 handles (the program takes 1024), and closes the barrier with
  threads in it.  `MainWait` models it.  The test of the count in
  `CloseThresholdBarrier` leaves nobody waiting for the event (`ClosedNoneWaits`), but
  a thread that waits for the mutex, or comes later, uses handles that are closed and
  memory that is freed: nothing is modelled after that.
* A first come first served call that times out on `hMutex` returns without releasing
  `hMutexa`; its thread shuts out all others until its next successful call.
  `leaked` models it.
* The Control-C handler of `TestMultiSem.c:341` releases as many units as there are
  consumers; consumers that ask for several units share them, and one may wait
  for ever (`MultiSem!ShutsDown`).
* `SynchObj.c` writes a new name after the mutex is released: two processes may
  get two objects of a name, and an entry whose count has returned to 0 keeps its old
  state while its event and mutex are new.  `hFile` is not initialised ("Fix
  this!!").  A full table makes a semaphore silently local.  A comment at
  `SynchObj.c:172` says that all waiters are released; one `SetEvent` of an
  auto-reset event may wake one whose request cannot be met.

*Parallel file programs.*

* `grepMT`: a thread that cannot open its input leaves the output open, so
  `DeleteFile` fails (`grepMT.c:229`, `:122`); with more than 64 files
  `WaitForMultipleObjects` fails (`:94`).  The loop over `fgets` drops a last line
  without newline (`:232`, `GREP.C:183`).  `wcMT.c:99` counts the end of the file
  as a character.  `wcMTxx` polls for ever when a file cannot be opened.
* `GREP.C`: after a partial match the search continues behind the characters already
  matched, so "aab" is not found in "aaab" (`:139`, `FoundWherever`); the second of two `*` is
  literal, a leading `*` reads `buf[-1]`; `$` is documented and not implemented.
* `compMP`: only whole 8-byte units are compared, a difference in the last
  bytes is not seen (`compMP.c:339`); with `nThreads` = 0 the first mismatches are
  not the ones reported (`:50`, `FirstMismatchesReported`); the exit code is the
  number of threads.

*Message queues* (`msg_emulation.c`).

* `msgctl` with an invalid identifier never releases the guard (`:879`;
  `KeptByInvalid` exempts it).  Every call that ends clears `msg_busy` (`:411`,
  `:558`), and the calls that still wait do not set it again (`:385` and `:519` are before
  their loops), so `IPC_RMID` removes a queue with calls asleep on it, against the comment at
  `:862` (`WaitersProtected`).  `IPC_SET` by an owner who may not raise `msg_qbytes` sets
  EPERM and the mode, and returns 0 (`:835-842`).
* `flag & IPC_CREAT == 0` binds as `flag & (IPC_CREAT == 0)`, so `msgget` always
  creates; `IPC_CREAT` on an existing queue may give `EACCES`; negative types are not implemented;
  no message with `IPC_NOWAIT` returns 0 and adds `sizeof(long)` to the counts;
  empty messages are not counted; a message that is too long is removed
  although the call fails with `E2BIG`; `q_current` never decreases and
  `b_current` not on removal.

*Job table.*

* `DisplayJobs` says it locks the entire file (`JOBMGT.C:119`), and its region has length
  0: it may remove the record of a process that exists (`RemovesGone`).  The file
  is never deleted, although a comment says so.  `JobShell_secure` computes the
  length of the region before it has the lock.
* `kill -b` and `-c` send to group 0.  `FindProcessId` admits the number just past the
  end, and its shared lock there makes a `WriteFile` of another shell fail
  unnoticed.  `DisplayJobs` closes a handle twice.  An identifier may be used again by
  the system, and nobody notices.
* `JobObjectShell` goes on after a failed `CreateProcess` with an
  uninitialised `procInfo`; its time limit, "in seconds", is in tenths.

*Services.*

* A `STOP_PENDING` of the handler may follow the `STOPPED` of the service thread
  (`SimpleService.C:147`, `StoppedLast`).  `SetServiceStatus` (`:175`) reads the record
  without a lock: the service thread may have copied RUNNING when the handler writes and
  reports STOP_PENDING, and its RUNNING arrives afterwards.  `NoSetback` allows both, the
  latter once.  `UpdateStatus` calls itself when it cannot
  report, without end (`:175`, `NoOverflow`).  `ServiceSpecific` of
  `serviceSK.c` is empty.  `ServiceShell` queries a NULL handle when
  `OpenService` has failed.

*Socket servers and streams.*

* A pending accept is made to fail by `closesocket`, and the accept thread ends
  the process with code 1 before main returns 0 (`ServerSK!NormalExit`).
* An exception in the server's shared library ends the thread without posting
  its stop: the slot stays RUNNING and is never used again.
  `CommandException` models it, and `StopNotLost` exempts exactly these threads.
* The server may accept a connection while it shuts down, on a slot the shutdown loop
  has already passed; main does not wait for that thread.
* The comment at `serverSK.c:126` says a slot is RUNNING when its accept thread
  has ended; the server thread may already have posted STOPPED.
* `ReceiveCSMessage` subtracts the length of a piece for each of its characters
  (`SendReceiveSKST.c:132`) or twice (`SendReceiveSKHA.c:95`, `:102`), so long messages
  are returned in pieces (`AllArrive`).
* The stream servers take the TRUE of `ReceiveCSMessage` for a disconnection and
  end after each request (`OnlyQuitStops`); the accept thread is never terminated
  (`serverSKST.c:128`); `serverSKHA` closes a global socket; `clientSKST` loops
  when the server has closed; the commands "$ShutFlagServer" and "$quit" are
  never what is compared with them.

*Pipe servers.*

* `serverNP.C:227` says the connection thread can be resumed; the monitor cancels
  once, and an operation that begins afterwards waits for ever
  (`PipeServer!ShutsDown`).  Each request has a connect thread, against the comment
  "only one".  A failure to create the temporary file ends a thread
  without disconnecting; the file is never closed, its deletion is not reached.
* `serverNPCP.C:242-255` cannot be reached, so each disconnection ends a server
  thread.  When the temporary file of an answer cannot be opened (`:186-190`) the thread ends with the
  instance, and when the thread that computes it cannot be created (`:164`) or its
  completion not posted (`:176-177`) nobody serves the instance again; in all three the
  client stays connected and waits for ever.  The file is never closed, so the first of
  them comes when the C library has no more streams, after some five hundred answers.  Once more than
  `MAX_CLIENTS_CP - MAX_SERVER_TH` instances are lost in the other two ways, a shut down may
  leave server threads waiting for a completion (`TooFewCompletions`).  A failed `GetQueuedCompletionStatus` is processed like a success.
* `serverNP_secure` never sets `rsLen`, passes NULL to `GetExitCodeThread` and
  does not cancel.  A second client's `CreateMailslot` fails, and
  the commands that a comment of `clientNP.C` lists are not implemented.

## 8. What is not modelled

* `QueueDestroy` of a queue in use (the callers never do it, and its behaviour would be undefined).
* The waits of `MultiSemX.c` (defective on purpose) and the wait and release of
  `SynchObj.c`, an older form that no project builds; spurious wakeups in the
  Pthreads programs; `Messages.c` beyond the fields that pipelines use.
* `clientSK.c`, `command.c` and `Redirect.c`, which call in a straight line; the timers of
  `TimeBEEP`; `geonames.c`, which prints; the log files of the services.
* Record updates (`RecordAccess.c`) and `SORTBT.C`: sequential, with algorithms that
  could be checked over bounded inputs.
* Console and file input and output, security
  descriptors, timing programs, sequential samples (nothing to interleave), and the
  defective exercises, whose faults are intended, apart from those named in section 1.
* `pthread.h` and the emulation of Pthreads in `Miscellaneous`, as a library: it is
  modelled by what its callers use (mutexes, condition variables, time limits).

## 9. Plan

Done: queue objects and their abstract specification, the pipelines, barrier,
semaphore and its table, the socket servers, message block, workers, job table,
pipe servers, services, asynchronous I/O, parallel file programs and message
queues; proofs for both kinds of queue, the pipelines, message block, barrier, semaphore,
table, socket servers, receipt of messages, job table, services, pipe servers, workers,
stripes, parallel sort, crews of files and message queues.

Left, in order of importance:

1. Theorems: the sorted array and the table of mismatches in `ResultsRight`.
2. The older wait and release of `SynchObj.c`, and spurious wakeups in `PThree`.
3. `RecordAccess.c` and `SORTBT.C` as algorithms over bounded inputs.
