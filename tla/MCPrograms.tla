----------------------------- MODULE MCPrograms -----------------------------
(***************************************************************************)
(* The parallel file and timing programs and the emulation of message      *)
(* queues, checked together: a behaviour runs one program of one module,   *)
(* while the variables of the other modules stay as they are.              *)
(***************************************************************************)
EXTENDS Integers, Sequences

CONSTANTS
  NThread, Tasks, Depth, MaxThread,        \* Workers
  NFiles, MaxWait,                         \* FileCrew
  MaxOvrlp, MaxRecords,                    \* Stripes
  Keys, NRec, SortThreads,                 \* SortMT
  Sizes, BlockSize, Quad, NThreads, MaxMismatch,  \* CompMP
  MSG_MAX_NUMBER_QUEUES, MQ_MAX_MESSAGE_SIZE, MQ_MAX_BYTES_IN_QUEUE, MQ_MAX_BYTES_IN_SYSTEM,
  LongSize, Callers, MaxCalls, np, goal, DataSize, TestBytes   \* MsgQueues

VARIABLES
  worker, wPc, tasksComplete, held, heldA, sem, bPc, next, total,
  crew, contents, fPc, results, Done, args, copied, temps, left, fBoss, at, totals, listed,
  cci, nRecords, pc, iTh, WorkerId, cciPos, overLapOut, buffer, out, done, bossPc,
  nTh, input, records, sPc, numbersInGroup, twoToI, pDest, sBoss,
  nThreads, fileSize, misMatches, cPc, curPos, offset, mmLocation, reported, cBoss,
  raw, line, verdict,
  program, build, mq, q_current, b_current, guard, qAt, call, made, result, got

workers == <<worker, wPc, tasksComplete, held, heldA, sem, bPc, next, total>>
files == <<crew, contents, fPc, results, Done, args, copied, temps, left, fBoss, at,
           totals, listed>>
stripes == <<cci, nRecords, pc, iTh, WorkerId, cciPos, overLapOut, buffer, out, done, bossPc>>
sort == <<nTh, input, records, sPc, numbersInGroup, twoToI, pDest, sBoss>>
compare == <<nThreads, fileSize, misMatches, cPc, curPos, offset, mmLocation, reported, cBoss>>
grep == <<raw, line, verdict>>
queues == <<program, build, mq, q_current, b_current, guard, qAt, call, made, result, got>>
vars == <<workers, files, stripes, sort, compare, grep, queues>>

Contents == {<<"missing">>, <<>>, <<"letter">>,
             <<"space", "letter", "newline", "nul", "letter", "newline">>}

W == INSTANCE Workers WITH program <- worker
F == INSTANCE FileCrew WITH program <- crew, held <- left
S == INSTANCE Stripes WITH program <- cci, curPos <- cciPos
M == INSTANCE SortMT WITH NThreads <- SortThreads
C == INSTANCE CompMP

SmallLines == UNION {[1..n -> {"a", "b"}] : n \in 0..3}
Parts == {<<"a">>, <<"b">>, <<"?">>, <<"*">>, <<"[", "b", "c", "]">>}
\* No two '*' in a row: the second would be taken for the character.
SmallPatterns ==
  {p \in {s \o x \o y \o z : s \in {<<"^">>, <<>>}, x \in Parts,
                              y \in Parts \cup {<<>>}, z \in Parts \cup {<<>>}} :
     \A i \in 1..(Len(p) - 1) : p[i] # "*" \/ p[i + 1] # "*"}
G == INSTANCE GrepPattern WITH RawPatterns <- SmallPatterns, Lines <- SmallLines

SomeCalls ==
  [op : {"msgget"}, key : {1}, creat : {TRUE}, excl : {FALSE}, mode : {{"r", "w"}}]
  \cup [op : {"msgget"}, key : {9}, creat : {FALSE}, excl : {FALSE}, mode : {{"r", "w"}}]
  \cup [op : {"msgsnd"}, q : {2}, type : {1}, len : {3}, seq : {0}, nowait : {TRUE}]
  \cup [op : {"msgsnd"}, q : {1}, type : {1}, len : {0, 3}, seq : {0}, nowait : {FALSE}]
  \cup [op : {"msgrcv"}, q : {1}, type : {0}, size : {1}, nowait : {FALSE}]
  \cup [op : {"msgrcv"}, q : {1}, type : {2}, size : {2}, nowait : {TRUE}]
  \cup [op : {"msgctl"}, q : {1}, cmd : {"IPC_RMID"}, user : {"owner"}]
  \cup [op : {"msgctl"}, q : {1}, cmd : {"IPC_SET"}, qbytes : {9}, mode : {{"w"}}, user : {"owner", "other"}]
  \cup [op : {"msgctl"}, q : {1}, cmd : {"unknown"}, user : {"owner"}]
Q == INSTANCE MsgQueues WITH Calls <- SomeCalls, at <- qAt

ASSUME ProgramsAssumption ==
  /\ W!WorkersAssumption /\ F!CrewAssumption /\ S!StripesAssumption
  /\ M!SortAssumption /\ C!CompareAssumption /\ Q!QueuesAssumption

NoWorkers == W!InitOf("none")
NoCrew == F!InitOf("none", <<>>)
NoStripes == S!InitOf("none", 0)
NoSort == M!InitOf("idle", 1, [i \in 1..NRec |-> 1])
NoCompare == C!InitOf("idle", 0, 1, {})
NoGrep == G!InitOf(<<"a">>, <<>>, "no")
NoQueues == Q!InitOf("none", "pthreads")

Init ==
  \/ W!Init /\ NoCrew /\ NoStripes /\ NoSort /\ NoCompare /\ NoGrep /\ NoQueues
  \/ F!Init /\ NoWorkers /\ NoStripes /\ NoSort /\ NoCompare /\ NoGrep /\ NoQueues
  \/ S!Init /\ NoWorkers /\ NoCrew /\ NoSort /\ NoCompare /\ NoGrep /\ NoQueues
  \/ M!Init /\ NoWorkers /\ NoCrew /\ NoStripes /\ NoCompare /\ NoGrep /\ NoQueues
  \/ C!Init /\ NoWorkers /\ NoCrew /\ NoStripes /\ NoSort /\ NoGrep /\ NoQueues
  \/ G!Init /\ NoWorkers /\ NoCrew /\ NoStripes /\ NoSort /\ NoCompare /\ NoQueues
  \/ Q!Init /\ NoWorkers /\ NoCrew /\ NoStripes /\ NoSort /\ NoCompare /\ NoGrep

Next ==
  \/ W!Next /\ UNCHANGED <<files, stripes, sort, compare, grep, queues>>
  \/ F!Next /\ UNCHANGED <<workers, stripes, sort, compare, grep, queues>>
  \/ S!Next /\ UNCHANGED <<workers, files, sort, compare, grep, queues>>
  \/ M!Next /\ UNCHANGED <<workers, files, stripes, compare, grep, queues>>
  \/ C!Next /\ UNCHANGED <<workers, files, stripes, sort, grep, queues>>
  \/ G!Next /\ UNCHANGED <<workers, files, stripes, sort, compare, queues>>
  \/ Q!Next /\ UNCHANGED <<workers, files, stripes, sort, compare, grep>>

Fairness == W!Fairness /\ F!Fairness /\ S!Fairness /\ M!Fairness /\ C!Fairness
            /\ G!Fairness /\ Q!Fairness
FairSpec == Init /\ [][Next]_vars /\ Fairness

-----------------------------------------------------------------------------
(* Threads are kept apart: as many workers as the throttle admits are past  *)
(* it, one is inside a shared lock, no two stripes work on the same record, *)
(* and no two sorting threads on the same part of the array.                *)
KeptApart ==
  /\ W!TypeOK /\ F!TypeOK /\ S!TypeOK /\ M!TypeOK /\ C!TypeOK /\ Q!TypeOK
  /\ W!ThrottleConserved /\ W!OneInside
  /\ S!StripesApart /\ M!PartsDisjoint

(* A program that ends has its result: the total is all the work, wc counts *)
(* as a definition by positions does, grep lists every match under the name *)
(* of its file, the whole file is converted, the output is the sorted       *)
(* input, the table of mismatches has the first ones, a line that is        *)
(* reported contains the pattern, and a line with an anchored pattern that  *)
(* has no '*' is reported.                                                  *)
ResultsRight ==
  /\ W!TotalComplete
  /\ F!WordCountRight /\ F!ListedUnderItsName /\ F!EveryMatchListed
  /\ S!AllConverted
  /\ M!GroupsSorted
  /\ C!TableFirst /\ C!FirstMismatches
  /\ G!FoundSound /\ G!FoundExact

(* MsgQueues: the byte counts are never below what the queues hold, the     *)
(* test receives each message once and in order, and no two queues have the *)
(* same key.                                                                *)
QueuesRight == Q!CountsCover /\ Q!SequenceRight /\ Q!KeysUnique

(* MsgQueues: a message is placed only where it fits, and only a call with  *)
(* an invalid identifier keeps the lock of all queues.                      *)
QueueSteps == Q!PlacedInLimits /\ Q!KeptByInvalid

(* Every program ends (but wcMTxx when a file cannot be opened), and so     *)
(* does the test of the message queues in both builds.                      *)
ProgramEnds ==
  <>(W!Ended /\ F!Ended /\ S!Ended /\ M!Ended /\ C!Ended /\ G!Ended /\ Q!Ended)
=============================================================================
