------------------------------- MODULE SortMT -------------------------------
(***************************************************************************)
(* sortMT of chapter 7: every thread sorts its own part of the mapped file *)
(* and either ends or waits for a neighbour and merges two parts, which    *)
(* are then twice as long, until thread 0 has merged the whole file.       *)
(* The header of the program allows numbers of threads that are powers of  *)
(* two and divide the number of records.  nTh and input are rigid.         *)
(***************************************************************************)
EXTENDS Naturals, Sequences, FiniteSets

CONSTANTS
  Keys,          \* keys of the records
  NRec,          \* nRec
  NThreads       \* the numbers of threads to choose from

\* The numbers of threads divide that of the records and are powers of two, with
\* no odd divisor but 1.
SortAssumption ==
  /\ NRec \in Nat \ {0}
  /\ \A n \in NThreads : /\ n \in 1..NRec /\ NRec % n = 0
                         /\ \A d \in 2..n : n % d = 0 => d % 2 = 0

Threads == 0..(NRec - 1)
Places == 1..NRec

VARIABLES
  nTh, input,
  records,       \* the mapped file: at each place a record, named by its place in input
  sPc,           \* each thread's next statement
  numbersInGroup, twoToI,   \* each thread's; groupSize is 2 * twoToI
  pDest,         \* each thread's merge buffer
  sBoss          \* "wait" for thread 0, then "done"; "idle" while the program does not run

vars == <<nTh, input, records, sPc, numbersInGroup, twoToI, pDest, sBoss>>

nRecTh == NRec \div nTh
Used == 0..(nTh - 1)

InitOf(b, n, k) ==
  /\ nTh = n /\ input = k
  /\ records = [i \in Places |-> i]
  /\ sPc = [t \in Threads |-> IF b = "wait" /\ t < n THEN "sort" ELSE "none"]
  /\ numbersInGroup = [t \in Threads |-> NRec \div n]
  /\ twoToI = [t \in Threads |-> 1]
  /\ pDest = [t \in Threads |-> <<>>]
  /\ sBoss = b

Init == \E n \in NThreads, k \in [Places -> Keys] : InitOf("wait", n, k)

-----------------------------------------------------------------------------
\* The n records that begin where thread t's part begins, and writing them.

first(t) == t * nRecTh
Part(t, n) == {first(t) + i : i \in 1..n}
Put(t, s) ==
  records' = [i \in Places |-> IF i \in Part(t, Len(s)) THEN s[i - first(t)] ELSE records[i]]

KeyCompare(i, j) == input[i] <= input[j]
Sorted(s) == \A i \in 1..(Len(s) - 1) : KeyCompare(s[i], s[i + 1])
Perms(S) == {s \in [1..Cardinality(S) -> S] : \A i, j \in DOMAIN s : s[i] = s[j] => i = j}

\* qsort may leave records with equal keys in any order.
qsort(t) ==
  /\ sPc[t] = "sort"
  /\ \E s \in Perms({records[i] : i \in Part(t, nRecTh)}) : Sorted(s) /\ Put(t, s)
  /\ sPc' = [sPc EXCEPT ![t] = "test"]
  /\ UNCHANGED <<nTh, input, numbersInGroup, twoToI, pDest, sBoss>>

SortThreadTest(t) ==
  /\ sPc[t] = "test"
  /\ sPc' = [sPc EXCEPT ![t] =
       IF t % (2 * twoToI[t]) = 0 /\ numbersInGroup[t] < NRec THEN "wait" ELSE "exit"]
  /\ UNCHANGED <<nTh, input, records, numbersInGroup, twoToI, pDest, sBoss>>

Exited(t) == t \in Used /\ sPc[t] = "exit"

SortThreadNext(t) ==  \* Fault: the wait is for the next thread, whatever the step.
  /\ sPc[t] = "wait"
  /\ Exited(t + 1)
  /\ sPc' = [sPc EXCEPT ![t] = "merge"]
  /\ UNCHANGED <<nTh, input, records, numbersInGroup, twoToI, pDest, sBoss>>
SortThreadWait(t) ==
  /\ sPc[t] = "wait"
  /\ Exited(t + twoToI[t])
  /\ sPc' = [sPc EXCEPT ![t] = "merge"]
  /\ UNCHANGED <<nTh, input, records, numbersInGroup, twoToI, pDest, sBoss>>

\* The merge of two arrays of n records: the next is the smaller of the two
\* that come first, of equal ones that of the first array.
MergedHalf(a, b, n) ==  \* Fault: what is left of the second array is not copied.
  LET pos[k \in 0..n] ==
        IF k = 0 THEN <<1, 1, <<>>>>
        ELSE LET i == pos[k - 1][1] j == pos[k - 1][2] d == pos[k - 1][3] IN
             IF i <= n /\ (j > n \/ KeyCompare(a[i], b[j]))
             THEN <<i + 1, j, Append(d, a[i])>> ELSE <<i, j + 1, Append(d, b[j])>>
  IN pos[n][3] \o a
Merged(a, b, n) ==
  LET pos[k \in 0..(2 * n)] ==
        IF k = 0 THEN <<1, 1, <<>>>>
        ELSE LET i == pos[k - 1][1] j == pos[k - 1][2] d == pos[k - 1][3] IN
             IF i <= n /\ (j > n \/ KeyCompare(a[i], b[j]))
             THEN <<i + 1, j, Append(d, a[i])>> ELSE <<i, j + 1, Append(d, b[j])>>
  IN pos[2 * n][3]

\* MergeArrays: merge into pDest, then copy back.
MergeArrays(t) ==
  LET n == numbersInGroup[t] IN
  /\ sPc[t] = "merge"
  /\ pDest' = [pDest EXCEPT ![t] =
       Merged([i \in 1..n |-> records[first(t) + i]],
              [i \in 1..n |-> records[first(t) + n + i]], n)]
  /\ sPc' = [sPc EXCEPT ![t] = "copy"]
  /\ UNCHANGED <<nTh, input, records, numbersInGroup, twoToI, sBoss>>

MergeArraysCopy(t) ==
  /\ sPc[t] = "copy"
  /\ Put(t, pDest[t])
  /\ pDest' = [pDest EXCEPT ![t] = <<>>]
  /\ numbersInGroup' = [numbersInGroup EXCEPT ![t] = 2 * @]
  /\ twoToI' = [twoToI EXCEPT ![t] = 2 * @]
  /\ sPc' = [sPc EXCEPT ![t] = "test"]
  /\ UNCHANGED <<nTh, input, sBoss>>

SortThread(t) ==
  \/ qsort(t) \/ SortThreadTest(t) \/ SortThreadWait(t)
  \/ MergeArrays(t) \/ MergeArraysCopy(t)

\* main waits for thread 0 only, then prints and unmaps the file.
_tmain ==
  /\ sBoss = "wait" /\ sPc[0] = "exit"
  /\ sBoss' = "done"
  /\ UNCHANGED <<nTh, input, records, sPc, numbersInGroup, twoToI, pDest>>

Next == _tmain \/ \E t \in Threads : SortThread(t)

Fairness == WF_vars(_tmain) /\ \A t \in Threads : WF_vars(SortThread(t))
Spec == Init /\ [][Next]_vars

-----------------------------------------------------------------------------
(* Every variable has its type, within the bounds of the instance.         *)
TypeOK ==
  /\ records \in [Places -> Places]
  /\ sPc \in [Threads -> {"none", "sort", "test", "wait", "merge", "copy", "exit"}]
  /\ numbersInGroup \in [Threads -> Places] /\ twoToI \in [Threads -> Places]
  /\ sBoss \in {"idle", "wait", "done"}

\* The places a thread may read or write now.
Touches(t) ==
  CASE sPc[t] = "sort" -> Part(t, nRecTh)
    [] sPc[t] \in {"merge", "copy"} -> Part(t, 2 * numbersInGroup[t])
    [] OTHER -> {}

(* No two threads touch the same records at the same time, nor does main    *)
(* print records that a thread still touches.                               *)
PartsDisjoint ==
  /\ \A t, u \in Threads : t # u => Touches(t) \cap Touches(u) = {}
  /\ \A t \in Threads : Touches(t) \subseteq Places
  /\ sBoss = "done" => \A t \in Threads : Touches(t) = {}

(* A group that has been merged is sorted, and what is printed is a sorted  *)
(* arrangement of the whole file: no record is lost or doubled.             *)
GroupsSorted ==
  /\ \A t \in Used : sPc[t] = "wait" =>
       Sorted([i \in 1..numbersInGroup[t] |-> records[first(t) + i]])
  /\ sBoss = "done" => /\ Sorted(records)
                       /\ {records[i] : i \in Places} = Places

(* Every thread that waits has a thread to wait for that itself waits only  *)
(* for higher numbers: the sort ends.                                       *)
Ended == sBoss # "wait"
=============================================================================
