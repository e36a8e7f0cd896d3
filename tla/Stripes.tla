------------------------------ MODULE Stripes -------------------------------
(***************************************************************************)
(* The file conversions of chapter 14 that work on several records of the  *)
(* file at a time.  Stripe s takes records s, s + MaxOvrlp, and so on: in  *)
(* cciMT and cciMTMM stripes are threads, in cciMT_VTP callbacks of a      *)
(* thread pool that number themselves, in cciOV and cciEX buffers of one   *)
(* thread with reads and writes that are under way at the same time.       *)
(*                                                                         *)
(* A record is its number and how often it has been shifted; the last may  *)
(* be a short one.  program and nRecords are rigid.                        *)
(***************************************************************************)
EXTENDS Naturals, FiniteSets

CONSTANTS
  MaxOvrlp,      \* MAX_OVRLP
  MaxRecords     \* most records of a file

StripesAssumption == MaxOvrlp \in Nat \ {0} /\ MaxRecords \in Nat

Slots == 0..(MaxOvrlp - 1)
Threaded == {"cciMT", "cciMTMM", "cciMT_VTP"}
Async == {"cciOV", "cciEX"}
Programs == Threaded \cup Async

VARIABLES
  program, nRecords,
  pc,         \* of each thread, callback or buffer
  iTh,        \* the stripe of each thread or callback
  WorkerId,   \* cciMT_VTP: the callbacks that have numbered themselves
  curPos,     \* of each thread or buffer: the record it reads next
  overLapOut, \* of each buffer: the record it writes
  buffer,     \* what is in each buffer: a record, and its shifts
  out,        \* the output file: how often each record was shifted, by whom it was written
  done,       \* iWaits or nDone: operations seen to be complete
  bossPc

vars == <<program, nRecords, pc, iTh, WorkerId, curPos, overLapOut, buffer, out, done, bossPc>>

None == [record |-> MaxRecords, shifts |-> 0]
Records == 0..(MaxRecords - 1)

\* The asynchronous programs begin a read for each buffer that has a record.
InitOf(p, n) ==
  /\ program = p /\ nRecords = n
  /\ pc = [s \in Slots |-> IF p \in Threaded THEN "start"
                           ELSE IF s < n THEN "reading" ELSE "idle"]
  /\ iTh = [s \in Slots |-> s] /\ WorkerId = 0
  /\ curPos = [s \in Slots |-> s] /\ overLapOut = [s \in Slots |-> s]
  /\ buffer = [s \in Slots |-> None]
  /\ out = [r \in Records |-> None]
  /\ done = 0 /\ bossPc = "run"

Init == \E p \in Programs, n \in 0..MaxRecords : InitOf(p, n)

Goto(s, l) == pc' = [pc EXCEPT ![s] = l]

-----------------------------------------------------------------------------
\* The threads and callbacks

\* A callback takes the next number; which callback is first is left open.
Start(s) ==
  /\ program \in Threaded /\ pc[s] = "start"
  /\ IF program = "cciMT_VTP"
     THEN iTh' = [iTh EXCEPT ![s] = WorkerId] /\ WorkerId' = WorkerId + 1
     ELSE UNCHANGED <<iTh, WorkerId>>
  /\ curPos' = [curPos EXCEPT ![s] = iTh'[s]]
  /\ Goto(s, "loop")
  /\ UNCHANGED <<program, nRecords, overLapOut, buffer, out, done, bossPc>>

ReadWriteRead(s) ==
  /\ pc[s] = "loop"
  /\ IF curPos[s] < nRecords
     THEN /\ buffer' = [buffer EXCEPT ![s] = [record |-> curPos[s], shifts |-> 1]]
          /\ Goto(s, "write")
     ELSE Goto(s, "exit") /\ UNCHANGED buffer
  /\ UNCHANGED <<program, nRecords, iTh, WorkerId, curPos, overLapOut, out, done, bossPc>>

NextRecordOne(s) == curPos[s] + 1  \* Fault: the stripes overlap.
NextRecord(s) == curPos[s] + MaxOvrlp

ReadWriteWrite(s) ==
  /\ pc[s] = "write"
  /\ out' = [out EXCEPT ![curPos[s]] = [record |-> buffer[s].record, shifts |-> buffer[s].shifts]]
  /\ curPos' = [curPos EXCEPT ![s] = NextRecord(s)]
  /\ Goto(s, "loop")
  /\ UNCHANGED <<program, nRecords, iTh, WorkerId, overLapOut, buffer, done, bossPc>>

ReadWrite(s) == Start(s) \/ ReadWriteRead(s) \/ ReadWriteWrite(s)

-----------------------------------------------------------------------------
\* The buffers: the file system completes operations in any order.

IoRead(s) ==
  /\ pc[s] = "reading"
  /\ buffer' = [buffer EXCEPT ![s] = [record |-> curPos[s], shifts |-> 0]]
  /\ Goto(s, "read")
  /\ UNCHANGED <<program, nRecords, iTh, WorkerId, curPos, overLapOut, out, done, bossPc>>

IoWrite(s) ==
  /\ pc[s] = "writing"
  /\ out' = [out EXCEPT ![overLapOut[s]] = buffer[s]]
  /\ Goto(s, "written")
  /\ UNCHANGED <<program, nRecords, iTh, WorkerId, curPos, overLapOut, buffer, done, bossPc>>

\* cciOV waits for any event: read events come first in the array, and the first
\* that is set is reported.  cciEX calls completion routines in any order.
Complete(l) == {s \in Slots : pc[s] = l}
Reported(s) ==
  \/ program = "cciEX" /\ s \in Complete("read") \cup Complete("written")
  \/ program = "cciOV" /\ pc[s] = "read" /\ \A t \in Complete("read") : s <= t
  \/ program = "cciOV" /\ pc[s] = "written" /\ Complete("read") = {}
       /\ \A t \in Complete("written") : s <= t

\* Shift the record, begin to write it where it was read, and compute the place
\* of the read that follows the write.
ReadDone(s) ==
  /\ bossPc = "run" /\ done < 2 * nRecords
  /\ Reported(s) /\ pc[s] = "read"
  /\ buffer' = [buffer EXCEPT ![s].shifts = @ + 1]
  /\ overLapOut' = [overLapOut EXCEPT ![s] = curPos[s]]
  /\ curPos' = [curPos EXCEPT ![s] = NextRecord(s)]
  /\ done' = done + 1
  /\ Goto(s, "writing")
  /\ UNCHANGED <<program, nRecords, iTh, WorkerId, out, bossPc>>

WriteDone(s) ==
  /\ bossPc = "run" /\ done < 2 * nRecords
  /\ Reported(s) /\ pc[s] = "written"
  /\ done' = done + 1
  /\ Goto(s, IF curPos[s] < nRecords THEN "reading" ELSE "idle")
  /\ UNCHANGED <<program, nRecords, iTh, WorkerId, curPos, overLapOut, buffer, out, bossPc>>

Buffer(s) == program \in Async /\ (IoRead(s) \/ IoWrite(s))

-----------------------------------------------------------------------------
\* main closes the files when all threads have ended or every operation is done.

_tmainHalf ==  \* Fault: only the reads are counted.
  /\ program \in Programs /\ bossPc = "run"
  /\ IF program \in Async THEN done >= nRecords ELSE \A s \in Slots : pc[s] = "exit"
  /\ bossPc' = "closed"
  /\ UNCHANGED <<program, nRecords, pc, iTh, WorkerId, curPos, overLapOut, buffer, out, done>>
_tmain ==
  /\ program \in Programs /\ bossPc = "run"
  /\ IF program \in Async THEN done >= 2 * nRecords ELSE \A s \in Slots : pc[s] = "exit"
  /\ bossPc' = "closed"
  /\ UNCHANGED <<program, nRecords, pc, iTh, WorkerId, curPos, overLapOut, buffer, out, done>>

Main == _tmain \/ \E s \in Slots : ReadDone(s) \/ WriteDone(s)
Step == Main \/ \E s \in Slots : ReadWrite(s) \/ Buffer(s)

\* The programs.
cciMT == program = "cciMT" /\ Step
cciMTMM == program = "cciMTMM" /\ Step
cciMT_VTP == program = "cciMT_VTP" /\ Step
cciOV == program = "cciOV" /\ Step
cciEX == program = "cciEX" /\ Step

Next == cciMT \/ cciMTMM \/ cciMT_VTP \/ cciOV \/ cciEX

\* The threads run, and the file system completes every operation.
Fairness == WF_vars(Main) /\ \A s \in Slots : WF_vars(ReadWrite(s)) /\ WF_vars(Buffer(s))
Spec == Init /\ [][Next]_vars

-----------------------------------------------------------------------------
(* Every variable has its type, within the bounds of the instance.         *)
TypeOK ==
  /\ program \in Programs \cup {"none"} /\ nRecords \in 0..MaxRecords
  /\ pc \in [Slots -> {"start", "loop", "write", "exit", "idle", "reading", "read",
                       "writing", "written"}]
  /\ iTh \in [Slots -> Slots] /\ WorkerId \in 0..MaxOvrlp
  /\ curPos \in [Slots -> Nat] /\ overLapOut \in [Slots -> Nat]
  /\ buffer \in [Slots -> [record : Records \cup {MaxRecords}, shifts : 0..1]]
  /\ out \in [Records -> [record : Records \cup {MaxRecords}, shifts : 0..1]]
  /\ done \in 0..(2 * MaxRecords) /\ bossPc \in {"run", "closed"}

(* No two stripes work on the same record, even when pool callbacks number  *)
(* themselves, and a record in the file is at its own place, shifted once.  *)
Working(s) == pc[s] \in {"write", "reading", "read", "writing"}
At(s) == IF pc[s] = "writing" THEN overLapOut[s] ELSE curPos[s]
StripesApart ==
  /\ \A s, t \in Slots : s # t /\ Working(s) /\ Working(t) => At(s) # At(t)
  /\ \A r \in Records : out[r] \in {None, [record |-> r, shifts |-> 1]}

(* The place of the next read is computed while the write is under way, and *)
(* buffers finish in any order: still, when the files are closed, every     *)
(* record of the input has been written, and no operation is under way.     *)
AllConverted ==
  bossPc = "closed" =>
    /\ \A r \in Records : (out[r] # None) <=> (r < nRecords)
    /\ \A s \in Slots : ~Working(s)

(* The count of completed operations agrees with the number of records, so  *)
(* that main does not wait for an event that never comes.                   *)
Ended == program \in Programs => bossPc = "closed"
=============================================================================
