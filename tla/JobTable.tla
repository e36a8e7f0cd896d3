------------------------------ MODULE JobTable ------------------------------
(***************************************************************************)
(* The job table of JobShell, JobObjectShell and JobShell_secure: a file   *)
(* with one record for each job, the process identifier in it, which       *)
(* several shells read and write under region locks.  A shell is the       *)
(* owner of at most one lock.  Process identifiers are not used twice.     *)
(*                                                                         *)
(* sh[s].pc: "prompt"; jobbg: "addLock", "addRead", "addWrite", "resume",  *)
(*   "close"; jobs: "listLock", "listRead", "listClear"; kill: "findLock", *)
(*   "findRead", "terminate"; "over"                                       *)
(***************************************************************************)
EXTENDS Integers, Sequences, FiniteSets, Functions

CONSTANTS
  Shells,
  MAX_JOBS_ALLOWED,
  Pids,            \* identifiers of the processes that may be created
  MaxCommands      \* bound on the commands of all shells together

JobTableAssumption == MAX_JOBS_ALLOWED \in Nat /\ 0 \notin Pids

Programs == {"JobShell", "JobObjectShell", "JobShell_secure"}

VARIABLES
  shell,           \* the program that the shells run, one of Programs
  file,            \* the table; 0 for a record that is not used
  locks,           \* locks[s]: the region locked by s
  proc,            \* proc[p]: "free", "suspended", "running", "ended" or "gone"
  handle,          \* processes to which their shell still has a handle
  number,          \* number[p]: the job number told to the user, 0 before
  sh, commands

vars == <<shell, file, locks, proc, handle, number, sh, commands>>

Unlocked == [first |-> 0, length |-> 0, exclusive |-> FALSE, held |-> FALSE]
Prompt == [pc |-> "prompt", pid |-> 0, size |-> 0, i |-> 0]

InitOf(p, table) ==
  /\ shell = p /\ file = table
  /\ locks = [s \in Shells |-> Unlocked]
  /\ proc = [q \in Pids |-> "free"] /\ handle = {} /\ number = [q \in Pids |-> 0]
  /\ sh = [s \in Shells |-> [Prompt EXCEPT !.pc = IF p = "none" THEN "over" ELSE "prompt"]]
  /\ commands = 0
Init == \E p \in Programs : InitOf(p, <<>>)

-----------------------------------------------------------------------------
\* Region locks.  A region without a byte meets no other.
Covers(lock, r) == lock.held /\ lock.first <= r /\ r < lock.first + lock.length
Meet(a, b) == /\ a.held /\ b.held /\ a.first < b.first + b.length /\ b.first < a.first + a.length
LockFileEx(s, lock) ==
  /\ \A o \in Shells \ {s} : Meet(locks[o], lock) => ~locks[o].exclusive /\ ~lock.exclusive
  /\ locks' = [locks EXCEPT ![s] = lock]
UnlockFileExKept(s) == locks' = locks  \* Fault: the lock is not released.
UnlockFileEx(s) == locks' = [locks EXCEPT ![s] = Unlocked]
\* Access through one handle is denied where another holds a lock against it.
CanRead(s, r) == \A o \in Shells \ {s} : Covers(locks[o], r) => ~locks[o].exclusive
CanWrite(s, r) == \A o \in Shells \ {s} : ~Covers(locks[o], r)

Region(first, length, exclusive) ==
  [first |-> first, length |-> length, exclusive |-> exclusive, held |-> TRUE]

Active(p) == proc[p] \in {"suspended", "running"}
Exists(p) == Active(p) \/ proc[p] = "ended"
Goto(s, to) == sh' = [sh EXCEPT ![s].pc = to]
Begins(s) ==
  /\ sh[s].pc = "prompt" /\ commands < MaxCommands /\ commands' = commands + 1

-----------------------------------------------------------------------------
Fresh(p) == proc[p] = "free" /\ \A q \in Pids : q < p => proc[q] # "free"
\* Jobbg: the process is created suspended; GetJobNumber reads the size of the
\* file and then locks the file and one record more.
Jobbg(s) ==
  /\ Begins(s)
  /\ \E p \in Pids :
       /\ Fresh(p) /\ proc' = [proc EXCEPT ![p] = "suspended"] /\ handle' = handle \cup {p}
       /\ sh' = [sh EXCEPT ![s] = [pc |-> "addLock", pid |-> p, size |-> Len(file), i |-> 0]]
  /\ UNCHANGED <<shell, file, locks, number>>
\* The process cannot be put into the job object: it is terminated.
AssignFails(s) ==
  /\ shell = "JobObjectShell" /\ Begins(s)
  /\ \E p \in Pids : Fresh(p) /\ proc' = [proc EXCEPT ![p] = "ended"]
  /\ UNCHANGED <<shell, file, locks, handle, number, sh>>
AddRegionLast(size) == Region(size, 1, TRUE)  \* Fault: the new record only.
AddRegion(size) == Region(0, size + 1, TRUE)
AddLock(s) ==
  /\ sh[s].pc = "addLock" /\ LockFileEx(s, AddRegion(sh[s].size)) /\ Goto(s, "addRead")
  /\ UNCHANGED <<shell, file, proc, handle, number, commands>>
\* The loop ends at a record that is not used or whose process has ended, at the
\* end of the file, or at a record that cannot be read.
Usable(r) == r = 0 \/ ~Active(r)
FullAfter(i) == i > MAX_JOBS_ALLOWED  \* Fault: > for >=.
Full(i) == i >= MAX_JOBS_ALLOWED
AddRead(s) ==
  LET i == sh[s].i
  IN /\ sh[s].pc = "addRead"
     /\ \/ /\ Full(i)   \* no room: the process is terminated
           /\ proc' = [proc EXCEPT ![sh[s].pid] = "ended"]
           /\ UnlockFileEx(s) /\ Goto(s, "close")
        \/ /\ ~Full(i) /\ UNCHANGED <<proc, locks>>
           /\ IF i < Len(file) /\ CanRead(s, i) /\ ~Usable(file[i + 1])
              THEN sh' = [sh EXCEPT ![s].i = i + 1] ELSE Goto(s, "addWrite")
     /\ UNCHANGED <<shell, file, handle, number, commands>>
\* The result of WriteFile is not looked at; the lock is released in any case.
WrittenAfter(i, p) ==  \* Fault: the file pointer is not moved back.
  IF i < Len(file) THEN IF i + 1 < Len(file) THEN [file EXCEPT ![i + 2] = p] ELSE Append(file, p)
  ELSE Append(file, p)
Written(i, p) == IF i < Len(file) THEN [file EXCEPT ![i + 1] = p] ELSE Append(file, p)
AddWrite(s) ==
  /\ sh[s].pc = "addWrite"
  /\ file' = IF CanWrite(s, sh[s].i) THEN Written(sh[s].i, sh[s].pid) ELSE file
  /\ UnlockFileEx(s) /\ Goto(s, "resume")
  /\ UNCHANGED <<shell, proc, handle, number, commands>>
Resume(s) ==
  /\ sh[s].pc = "resume" /\ Goto(s, "close")
  /\ proc' = [proc EXCEPT ![sh[s].pid] = IF @ = "suspended" THEN "running" ELSE @]
  /\ UNCHANGED <<shell, file, locks, handle, number, commands>>
Close(s) ==
  /\ sh[s].pc = "close"
  /\ handle' = handle \ {sh[s].pid}
  /\ number' = [number EXCEPT ![sh[s].pid] = IF sh[s].i < MAX_JOBS_ALLOWED THEN sh[s].i + 1 ELSE 0]
  /\ sh' = [sh EXCEPT ![s] = Prompt]
  /\ UNCHANGED <<shell, file, locks, proc, commands>>

-----------------------------------------------------------------------------
\* Jobs: DisplayJobs locks no byte at all, in JobShell_secure those that the file
\* had before.
ListRegionNone(s) == Region(0, 0, TRUE)  \* Fault: no byte is locked.
ListRegion(s) == Region(0, IF shell = "JobShell_secure" THEN sh[s].size ELSE 0, TRUE)
Jobs(s) ==
  /\ Begins(s)
  /\ sh' = [sh EXCEPT ![s] = [Prompt EXCEPT !.pc = "listLock", !.size = Len(file)]]
  /\ UNCHANGED <<shell, file, locks, proc, handle, number>>
ListLock(s) ==
  /\ sh[s].pc = "listLock" /\ LockFileEx(s, ListRegion(s)) /\ Goto(s, "listRead")
  /\ UNCHANGED <<shell, file, proc, handle, number, commands>>
Gone(r) == r # 0 /\ ~Exists(r)
ListRead(s) ==
  LET i == sh[s].i
  IN /\ sh[s].pc = "listRead"
     /\ \/ /\ i < Len(file) /\ CanRead(s, i) /\ UNCHANGED locks
           /\ sh' = [sh EXCEPT ![s].i = i + 1,
                               ![s].pc = IF Gone(file[i + 1]) THEN "listClear" ELSE @]
        \/ /\ i >= Len(file) \/ ~CanRead(s, i)
           /\ UnlockFileEx(s) /\ sh' = [sh EXCEPT ![s] = Prompt]
     /\ UNCHANGED <<shell, file, proc, handle, number, commands>>
\* A record that cannot be written ends the program, which releases its locks.
ListClear(s) ==
  /\ sh[s].pc = "listClear"
  /\ \/ /\ CanWrite(s, sh[s].i - 1)
        /\ file' = [file EXCEPT ![sh[s].i] = 0] /\ Goto(s, "listRead") /\ UNCHANGED locks
     \/ /\ ~CanWrite(s, sh[s].i - 1)
        /\ UnlockFileEx(s) /\ Goto(s, "over") /\ UNCHANGED file
  /\ UNCHANGED <<shell, proc, handle, number, commands>>

-----------------------------------------------------------------------------
\* Kill: FindProcessId admits the number after the last, whose record is not
\* there: the process identifier is then whatever the buffer held.
Kill(s) ==
  /\ Begins(s)
  /\ \E n \in 1..(Len(file) + 1) :
       sh' = [sh EXCEPT ![s] = [Prompt EXCEPT !.pc = "findLock", !.i = n - 1]]
  /\ UNCHANGED <<shell, file, locks, proc, handle, number>>
FindLock(s) ==
  /\ sh[s].pc = "findLock" /\ LockFileEx(s, Region(sh[s].i, 1, FALSE)) /\ Goto(s, "findRead")
  /\ UNCHANGED <<shell, file, proc, handle, number, commands>>
FindRead(s) ==
  /\ sh[s].pc = "findRead" /\ UnlockFileEx(s)
  /\ \E p \in IF sh[s].i < Len(file) THEN {file[sh[s].i + 1]} ELSE Pids \cup {0} :
       sh' = [sh EXCEPT ![s] = IF p = 0 THEN Prompt ELSE [@ EXCEPT !.pc = "terminate", !.pid = p, !.size = Len(file)]]
  /\ UNCHANGED <<shell, file, proc, handle, number, commands>>
Terminate(s) ==
  /\ sh[s].pc = "terminate"
  /\ proc' = IF Active(sh[s].pid) THEN [proc EXCEPT ![sh[s].pid] = "ended"] ELSE proc
  /\ sh' = [sh EXCEPT ![s] = Prompt]
  /\ UNCHANGED <<shell, file, locks, handle, number, commands>>

-----------------------------------------------------------------------------
\* Processes end by themselves, and are forgotten when no handle is left.
Ends(p) ==
  /\ \/ proc[p] = "running" /\ proc' = [proc EXCEPT ![p] = "ended"]
     \/ proc[p] = "ended" /\ p \notin handle /\ proc' = [proc EXCEPT ![p] = "gone"]
  /\ UNCHANGED <<shell, file, locks, handle, number, sh, commands>>
Quit(s) ==
  /\ sh[s].pc = "prompt" /\ commands = MaxCommands /\ Goto(s, "over")
  /\ UNCHANGED <<shell, file, locks, proc, handle, number, commands>>

GetJobNumber(s) == AddLock(s) \/ AddRead(s) \/ AddWrite(s)
DisplayJobs(s) == ListLock(s) \/ ListRead(s) \/ ListClear(s)
KillJob(s) == FindLock(s) \/ FindRead(s) \/ Terminate(s)
Shell(s) == GetJobNumber(s) \/ Resume(s) \/ Close(s) \/ DisplayJobs(s) \/ KillJob(s)
Command(s) == Jobbg(s) \/ AssignFails(s) \/ Jobs(s) \/ Kill(s)
Next == (\E s \in Shells : Shell(s) \/ Command(s) \/ Quit(s)) \/ \E p \in Pids : Ends(p)
Fairness == \A s \in Shells : SF_vars(Shell(s) \/ Command(s) \/ Quit(s))
Spec == Init /\ [][Next]_vars /\ Fairness
Ended == \A s \in Shells : sh[s].pc = "over"

-----------------------------------------------------------------------------
(* Every variable has its type, within the bounds of the instance.         *)
TypeOK ==
  /\ file \in Seq(Pids \cup {0}) /\ Len(file) <= MAX_JOBS_ALLOWED
  /\ handle \subseteq Pids /\ number \in [Pids -> 0..MAX_JOBS_ALLOWED]
  /\ \A s \in Shells : sh[s].size \in Nat /\ sh[s].i \in 0..MAX_JOBS_ALLOWED
  /\ \A s \in Shells : sh[s].pc \in {"addRead", "addWrite", "listRead", "listClear", "findRead"}
                       <=> locks[s].held

(* A new job never takes the record of one that is active, although the     *)
(* region to lock is computed from a size read before the lock is held.     *)
ActiveNotOverwritten ==
  [][\A i \in 1..Len(file) : file'[i] # file[i] /\ file[i] # 0 /\ file'[i] # 0 =>
       ~Active(file[i])]_vars

(* A process that kill terminates was told to the user under that number,   *)
(* or not yet at all; except when the number was beyond the table, where    *)
(* the identifier is read from an uninitialized record.                     *)
KillHitsNumber ==
  \A s \in Shells : sh[s].pc = "terminate" /\ sh[s].i < sh[s].size =>
    number[sh[s].pid] \in {0, sh[s].i + 1}

(* JobShell_secure: jobs removes a record only if its process is gone; the  *)
(* lock that it takes keeps new jobs from records that were there before.   *)
Removes(s) == sh[s].pc = "listClear" /\ sh'[s].pc = "listRead"
SecureRemoval ==
  [][shell = "JobShell_secure" =>
       \A s \in Shells : Removes(s) /\ sh[s].size > 0 =>
         file[sh[s].i] = 0 \/ ~Exists(file[sh[s].i])]_vars

(* JOBMGT.C:119: "create an exclusive lock on the entire file as entries    *)
(* will be changed": jobs of JobShell does not remove a record whose process*)
(* exists.                                                                  *)
(* Fails, and no run checks it: see section 7 of the README.                *)
RemovesGone == [][\A s \in Shells : Removes(s) => ~Exists(file[sh[s].i])]_vars
=============================================================================
