------------------------------- MODULE CompMP -------------------------------
(***************************************************************************)
(* compMP of chapter 14: threads compare two files of the same size, each  *)
(* its own stripe of blocks, and keep a table of the first mismatches; a   *)
(* thread stops when its next block lies beyond a full table.  Without     *)
(* threads (nThreads = 0) the files are read and compared in order.        *)
(* A file is the set of the places where the two differ; fileSize and      *)
(* misMatches are rigid.                                                   *)
(***************************************************************************)
EXTENDS Integers, Sequences, FiniteSets, FiniteSetsExt, SequencesExt

CONSTANTS
  Sizes,          \* sizes of the files
  BlockSize, Quad,\* bytes in a block and in the unit of comparison (8)
  NThreads,       \* threads
  MaxMismatch     \* MAX_MISMATCH

CompareAssumption ==
  /\ Sizes # {} /\ Sizes \subseteq Nat /\ IsFiniteSet(Sizes)
  /\ BlockSize \in Nat /\ NThreads \in Nat /\ MaxMismatch \in Nat

Threads == 0..(NThreads - 1)
MaxSize == Max(Sizes)
Unset == MaxSize + 1     \* _UI64_MAX

VARIABLES
  nThreads,        \* 0 for ConventionalFileAccess
  fileSize, misMatches,
  cPc, curPos,     \* each thread's next statement and block
  offset,          \* and the bytes of the block that it has compared
  mmLocation,      \* the table
  reported,        \* what is printed
  cBoss            \* "run", "done"; "idle" while the program does not run

thread == <<cPc, curPos, offset>>
vars == <<nThreads, fileSize, misMatches, thread, mmLocation, reported, cBoss>>

InitOf(b, n, size, m) ==
  /\ nThreads = n /\ fileSize = size /\ misMatches = m
  /\ cPc = [t \in Threads |-> IF b = "run" /\ n > 0 THEN "test" ELSE "exit"]
  /\ curPos = [t \in Threads |-> BlockSize * t]
  /\ offset = [t \in Threads |-> 0]
  /\ mmLocation = [i \in 1..MaxMismatch |-> Unset]
  /\ reported = <<>> /\ cBoss = b

Init == \E n \in {0, NThreads}, size \in Sizes :
          \E m \in SUBSET (0..(size - 1)) : InitOf("run", n, size, m)

Goto(t, l) == cPc' = [cPc EXCEPT ![t] = l]

-----------------------------------------------------------------------------
\* ReadCompare

\* With the lock shared: end the thread when the table is full of earlier places.
ReadCompareTestFirst(t) ==  \* Fault: one mismatch before the block is enough to stop.
  /\ cPc[t] = "test"
  /\ Goto(t, IF curPos[t] < fileSize /\ curPos[t] <= mmLocation[1]
             THEN "compare" ELSE "exit")
  /\ offset' = [offset EXCEPT ![t] = 0]
  /\ UNCHANGED <<nThreads, fileSize, misMatches, curPos, mmLocation, reported, cBoss>>
ReadCompareTest(t) ==
  /\ cPc[t] = "test"
  /\ Goto(t, IF curPos[t] < fileSize /\ curPos[t] <= mmLocation[MaxMismatch]
             THEN "compare" ELSE "exit")
  /\ offset' = [offset EXCEPT ![t] = 0]
  /\ UNCHANGED <<nThreads, fileSize, misMatches, curPos, mmLocation, reported, cBoss>>

nBytes(t) == Min({BlockSize, fileSize - curPos[t]})

\* The next byte of the block that differs, if any: quads are skipped whole.
Ahead(t) == {o \in offset[t]..(nBytes(t) - 1) : curPos[t] + o \in misMatches}

ReadCompareSame(t) ==
  /\ cPc[t] = "compare" /\ Ahead(t) = {}
  /\ curPos' = [curPos EXCEPT ![t] = @ + BlockSize * nThreads]
  /\ Goto(t, "test")
  /\ UNCHANGED <<nThreads, fileSize, misMatches, offset, mmLocation, reported, cBoss>>

\* LogMismatchByte, with the lock held: keep the table sorted, drop the last.
Larger(loc) == {i \in 1..MaxMismatch : loc <= mmLocation[i]}
InsertReplace(loc) ==  \* Fault: the entries are not shifted up.
  IF Larger(loc) = {} THEN mmLocation ELSE [mmLocation EXCEPT ![Min(Larger(loc))] = loc]
Insert(loc) ==
  IF Larger(loc) = {} THEN mmLocation
  ELSE SubSeq(InsertAt(mmLocation, Min(Larger(loc)), loc), 1, MaxMismatch)

LogMismatchByte(t) ==
  /\ cPc[t] = "compare" /\ Ahead(t) # {}
  /\ mmLocation' = Insert(curPos[t] + Min(Ahead(t)))
  /\ offset' = [offset EXCEPT ![t] = Min(Ahead(t)) + 1]
  /\ UNCHANGED <<nThreads, fileSize, misMatches, cPc, curPos, reported, cBoss>>

ReadCompare(t) == ReadCompareTest(t) \/ ReadCompareSame(t) \/ LogMismatchByte(t)

-----------------------------------------------------------------------------
\* main waits for all threads and prints the table.
_tmain ==
  /\ cBoss = "run" /\ nThreads > 0
  /\ \A t \in Threads : cPc[t] = "exit"
  /\ reported' = SelectSeq(mmLocation, LAMBDA l : l # Unset)
  /\ cBoss' = "done"
  /\ UNCHANGED <<nThreads, fileSize, misMatches, thread, mmLocation>>

\* Only whole quads of each block are compared.
InQuads(loc) ==
  LET start == (loc \div BlockSize) * BlockSize
      nExpected == Min({BlockSize, fileSize - start})
  IN loc - start < (nExpected \div Quad) * Quad
FirstOf(S) ==
  LET s == SetToSortSeq(S, LAMBDA x, y : x < y)
  IN SubSeq(s, 1, Min({Len(s), MaxMismatch}))

ConventionalFileAccess ==
  /\ cBoss = "run" /\ nThreads = 0
  /\ reported' = FirstOf({l \in misMatches : InQuads(l)})
  /\ cBoss' = "done"
  /\ UNCHANGED <<nThreads, fileSize, misMatches, thread, mmLocation>>

Next == _tmain \/ ConventionalFileAccess \/ \E t \in Threads : ReadCompare(t)

Fairness ==
  /\ WF_vars(_tmain \/ ConventionalFileAccess)
  /\ \A t \in Threads : WF_vars(ReadCompare(t))
Spec == Init /\ [][Next]_vars
FairSpec == Spec /\ Fairness

-----------------------------------------------------------------------------
(* Every variable has its type, within the bounds of the instance.         *)
TypeOK ==
  /\ nThreads \in {0, NThreads} /\ misMatches \subseteq 0..(fileSize - 1)
  /\ cPc \in [Threads -> {"test", "compare", "exit"}]
  /\ curPos \in [Threads -> Nat] /\ offset \in [Threads -> 0..BlockSize]
  /\ mmLocation \in [1..MaxMismatch -> 0..Unset]
  /\ cBoss \in {"idle", "run", "done"}

(* The table is always sorted and free of repetition, and holds the first   *)
(* of the mismatches that the threads have passed so far, whoever found     *)
(* them: nothing is lost when two threads log at the same time.             *)
Passed == {l \in misMatches : \E t \in Threads :
             /\ (l \div BlockSize) % nThreads = t
             /\ l < (IF cPc[t] = "compare" THEN curPos[t] + offset[t] ELSE curPos[t])}
TableFirst ==
  nThreads > 0 /\ cBoss # "idle" =>
    SelectSeq(mmLocation, LAMBDA l : l # Unset) = FirstOf(Passed)

(* A thread that stops early has nothing to add: what is printed in the end *)
(* is the first MAX_MISMATCH mismatches of the files.                       *)
FirstMismatches ==
  cBoss = "done" /\ nThreads > 0 => reported = FirstOf(misMatches)

(* compMP.c:50: "the requirement is to report the FIRST mismatches in the   *)
(* files" - also when conventional file access is chosen.                   *)
(* Fails, and no run checks it: see section 7 of the README.                *)
FirstMismatchesReported == cBoss = "done" => reported = FirstOf(misMatches)

(* The comparison ends, as no thread waits for another.                     *)
Ended == cBoss # "run"
=============================================================================
