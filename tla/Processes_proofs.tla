--------------------------- MODULE Processes_proofs --------------------------
(***************************************************************************)
(* Proofs about the programs of chapters 6, 12 and 13: the job table of    *)
(* the shells, the stream server, the service and the receiver of message  *)
(* streams, which MCProcesses composes, and the socket server.  Each has   *)
(* an inductive invariant of its own: JobsInv, StreamInv, ServiceInv,      *)
(* MsgInv and KInv.                                                        *)
(***************************************************************************)
EXTENDS MCProcesses, QueueRing_proofs

-----------------------------------------------------------------------------
(* The job table.                                                          *)

Pcs == {"prompt", "addLock", "addRead", "addWrite", "resume", "close",
        "listLock", "listRead", "listClear", "findLock", "findRead", "terminate", "over"}
Adding == {"addRead", "addWrite"}
Listing == {"listRead", "listClear"}
Creates == {"addLock", "addRead", "addWrite", "resume", "close"}
ShellRec == [pc : Pcs, pid : Pids \cup {0}, size : Nat, i : 0..MAX_JOBS_ALLOWED]

JobTypes ==
  /\ file \in Seq(Pids \cup {0}) /\ Len(file) <= MAX_JOBS_ALLOWED
  /\ proc \in [Pids -> {"free", "suspended", "running", "ended", "gone"}]
  /\ handle \subseteq Pids
  /\ number \in [Pids -> 0..MAX_JOBS_ALLOWED]
  /\ sh \in [Shells -> ShellRec]

\* Where shell s is in the table, and the lock it has there.
Place(s) ==
  /\ sh[s].pc \in Adding => sh[s].i <= Len(file)
  /\ sh[s].pc = "addWrite" => sh[s].i < MAX_JOBS_ALLOWED
  /\ sh[s].pc = "listClear" => sh[s].i \in 1..Len(file)
  /\ sh[s].pc \in Creates => sh[s].pid # 0
  /\ sh[s].pc = "addLock" => sh[s].i = 0
  /\ sh[s].pc = "terminate" => sh[s].size <= MAX_JOBS_ALLOWED /\ sh[s].pid # 0
Places == \A s \in Shells : Place(s)
LockOf(s) ==
  IF sh[s].pc \in Adding THEN Jobs!AddRegion(sh[s].size)
  ELSE IF sh[s].pc \in Listing THEN Jobs!ListRegion(s)
  ELSE IF sh[s].pc = "findRead" THEN Jobs!Region(sh[s].i, 1, FALSE)
  ELSE Jobs!Unlocked
LocksRight == locks = [s \in Shells |-> LockOf(s)]

\* One shell adds a record at a time, and none while JobShell_secure lists.
ListsLocked(s) == sh[s].pc \in Listing /\ shell = "JobShell_secure" /\ sh[s].size > 0
AddsAlone ==
  \A s, o \in Shells : s # o /\ sh[s].pc \in Adding => sh[o].pc \notin Adding /\ ~ListsLocked(o)

\* Process p is the j-th job or was; its number, if told, is j.
Located(p, j) ==
  /\ proc[p] # "free" /\ number[p] \in {0, j}
  /\ \A s \in Shells : sh[s].pc \in Creates /\ sh[s].pid = p =>
       sh[s].pc \in {"resume", "close"} /\ sh[s].i + 1 = j
FileLocated == \A j \in 1..Len(file) : file[j] # 0 => Located(file[j], j)
KillLocated ==
  \A s \in Shells : sh[s].pc = "terminate" /\ sh[s].i < sh[s].size => Located(sh[s].pid, sh[s].i + 1)
Created ==
  /\ \A p \in Pids : proc[p] = "free" => number[p] = 0
  /\ \A s \in Shells : sh[s].pc \in Creates => proc[sh[s].pid] # "free" /\ number[sh[s].pid] = 0
  /\ \A s \in Shells : sh[s].pc \in Creates => proc[sh[s].pid] # "gone" /\ sh[s].pid \in handle
  /\ \A s, o \in Shells : s # o /\ sh[s].pc \in Creates /\ sh[o].pc \in Creates => sh[s].pid # sh[o].pid
Owned == FileLocated /\ KillLocated /\ Created

\* What a shell has seen of the record it is about to write is still so.
Seen(s) ==
  /\ sh[s].pc = "addWrite" /\ sh[s].i < Len(file) =>
       file[sh[s].i + 1] = 0 \/ proc[file[sh[s].i + 1]] \in {"ended", "gone"}
  /\ sh[s].pc = "listClear" /\ ListsLocked(s) =>
       file[sh[s].i] = 0 \/ proc[file[sh[s].i]] = "gone"
SeenStays == \A s \in Shells : Seen(s)

JobsInv == JobTypes /\ Places /\ LocksRight /\ AddsAlone /\ Owned /\ SeenStays

-----------------------------------------------------------------------------
\* A step of one shell: what the others have of it.
Others(s) == \A o \in Shells \ {s} : sh'[o] = sh[o]
Becomes(s, to) ==
  /\ sh' \in [Shells -> ShellRec] /\ Others(s)
  /\ sh'[s].pc = to /\ sh'[s].pid = sh[s].pid /\ sh'[s].size = sh[s].size /\ sh'[s].i = sh[s].i

LEMMA GotoBecomes ==
  ASSUME sh \in [Shells -> ShellRec], NEW s \in Shells, NEW to \in Pcs, Jobs!Goto(s, to)
  PROVE  Becomes(s, to)
BY DEF Jobs!Goto, Becomes, Others, ShellRec

LEMMA SetBecomes ==
  ASSUME sh \in [Shells -> ShellRec], NEW s \in Shells, NEW r \in ShellRec, sh' = [sh EXCEPT ![s] = r]
  PROVE  sh' \in [Shells -> ShellRec] /\ Others(s) /\ sh'[s] = r
BY DEF Others

LEMMA PromptRec == Jobs!Prompt \in ShellRec
BY ProcessesAssumption DEF Jobs!Prompt, ShellRec, Pcs, Jobs!JobTableAssumption

\* Locks.
LEMMA LocksSet ==
  ASSUME LocksRight, NEW s \in Shells, Others(s), shell' = shell,
         locks' = [locks EXCEPT ![s] = LockOf(s)']
  PROVE  LocksRight'
<1>1. \A o \in Shells \ {s} : LockOf(o)' = LockOf(o)
  BY DEF Others, LockOf, Jobs!ListRegion
<1> QED BY <1>1 DEF LocksRight

LEMMA LocksStay ==
  ASSUME LocksRight, NEW s \in Shells, Others(s), shell' = shell, locks' = locks,
         LockOf(s)' = LockOf(s)
  PROVE  LocksRight'
<1>1. \A o \in Shells : LockOf(o)' = LockOf(o)
  BY DEF Others, LockOf, Jobs!ListRegion
<1> QED BY <1>1 DEF LocksRight

\* The places of the others do not change while the file keeps its length.
LEMMA PlacesStep ==
  ASSUME JobTypes, Places, NEW s \in Shells, Others(s), Len(file') >= Len(file), Len(file') \in Nat, Place(s)'
  PROVE  Places'
<1> SUFFICES ASSUME NEW o \in Shells, o # s
             PROVE  Place(o)'
  BY DEF Places
<1>1. sh'[o] = sh[o] /\ sh[o].i \in Nat
  BY DEF Others, JobTypes, ShellRec
<1>2. Len(file) \in Nat /\ Place(o)
  BY DEF JobTypes, Places
<1> QED BY <1>1, <1>2 DEF Place

\* A process once created stays so, one that has ended stays so.
Onwards ==
  \A p \in Pids : /\ proc[p] # "free" => proc'[p] # "free"
                  /\ proc[p] \in {"ended", "gone"} => proc'[p] \in {"ended", "gone"}
                  /\ proc[p] = "gone" => proc'[p] = "gone"
                  /\ proc[p] # "gone" /\ p \in handle => proc'[p] # "gone"

LEMMA AddsAloneStep ==
  ASSUME AddsAlone, NEW s \in Shells, Others(s), shell' = shell,
         sh'[s].pc \in Adding => sh[s].pc \in Adding
            \/ \A o \in Shells \ {s} : sh[o].pc \notin Adding /\ ~ListsLocked(o),
         ListsLocked(s)' => ListsLocked(s) \/ \A o \in Shells \ {s} : sh[o].pc \notin Adding
  PROVE  AddsAlone'
<1>1. \A o \in Shells \ {s} : (sh'[o].pc \in Adding <=> sh[o].pc \in Adding) /\ (ListsLocked(o)' <=> ListsLocked(o))
  BY DEF Others, ListsLocked
<1> QED BY <1>1 DEF AddsAlone

\* Located in the state after a step.
LocatedNext(p, j) ==
  /\ proc'[p] # "free" /\ number'[p] \in {0, j}
  /\ \A s \in Shells : sh'[s].pc \in Creates /\ sh'[s].pid = p =>
       sh'[s].pc \in {"resume", "close"} /\ sh'[s].i + 1 = j

LEMMA FileNext ==
  ASSUME \A j \in 1..Len(file') : file'[j] # 0 => LocatedNext(file'[j], j)
  PROVE  FileLocated'
BY DEF FileLocated, Located, LocatedNext

LEMMA KillNext ==
  ASSUME \A s \in Shells : sh'[s].pc = "terminate" /\ sh'[s].i < sh'[s].size =>
           LocatedNext(sh'[s].pid, sh'[s].i + 1)
  PROVE  KillLocated'
BY DEF KillLocated, Located, LocatedNext

\* A step that leaves the records and the numbers as they are.
LEMMA OwnedStep ==
  ASSUME JobTypes, Places, Owned, NEW s \in Shells, Others(s), sh' \in [Shells -> ShellRec], Onwards,
         file' = file, number' = number, handle' = handle,
         sh'[s].pc \in Creates =>
           /\ sh[s].pc \in Creates /\ sh'[s].pid = sh[s].pid
           /\ sh[s].pc \in {"resume", "close"} =>
                sh'[s].pc \in {"resume", "close"} /\ sh'[s].i = sh[s].i,
         sh'[s].pc = "terminate" /\ sh'[s].i < sh'[s].size =>
           sh'[s].pid \in Pids /\ Located(sh'[s].pid, sh'[s].i + 1)
  PROVE  Owned'
<1>1. ASSUME NEW p \in Pids, NEW j, Located(p, j)
      PROVE  LocatedNext(p, j)
  BY <1>1 DEF Located, LocatedNext, Others, Onwards
<1>2. FileLocated'
  <2>1. \A j \in 1..Len(file) : file[j] # 0 => file[j] \in Pids /\ Located(file[j], j)
    BY DEF Owned, FileLocated, JobTypes
  <2> QED BY <1>1, <2>1, FileNext
<1>3. KillLocated'
  <2>1. ASSUME NEW o \in Shells, sh'[o].pc = "terminate" /\ sh'[o].i < sh'[o].size
        PROVE  LocatedNext(sh'[o].pid, sh'[o].i + 1)
    <3>1. CASE o = s
      BY <1>1, <2>1, <3>1
    <3>2. CASE o # s
      <4>1. sh'[o] = sh[o]
        BY <3>2 DEF Others
      <4>2. sh[o].pid \in Pids /\ Located(sh[o].pid, sh[o].i + 1)
        BY <2>1, <4>1 DEF Owned, KillLocated, Places, Place, JobTypes, ShellRec
      <4> QED BY <1>1, <4>1, <4>2
    <3> QED BY <3>1, <3>2
  <2> QED BY <2>1, KillNext
<1>4. Created'
  <2>1. \A o \in Shells : sh'[o].pc \in Creates => sh[o].pc \in Creates /\ sh'[o].pid = sh[o].pid /\ sh[o].pid \in Pids
    BY DEF Others, Places, Place, JobTypes, ShellRec
  <2>2. \A p \in Pids : proc'[p] = "free" => proc[p] = "free"
    BY DEF Onwards
  <2> QED BY <2>1, <2>2 DEF Owned, Created, Onwards
<1> QED BY <1>2, <1>3, <1>4 DEF Owned

LEMMA SeenStep ==
  ASSUME JobTypes, Places, SeenStays, NEW s \in Shells, Others(s), shell' = shell, Onwards,
         file' = file, Seen(s)'
  PROVE  SeenStays'
<1> SUFFICES ASSUME NEW o \in Shells, o # s
             PROVE  Seen(o)'
  BY DEF SeenStays
<1>1. sh'[o] = sh[o] /\ Seen(o) /\ (ListsLocked(o)' <=> ListsLocked(o))
  BY DEF Others, SeenStays, ListsLocked
<1>2. ASSUME NEW j \in 1..Len(file), file[j] # 0
      PROVE  file[j] \in Pids
  BY <1>2 DEF JobTypes
<1>3. sh[o].i \in Nat /\ Len(file) \in Nat /\ Place(o)
  BY DEF JobTypes, ShellRec, Places
<1> QED BY <1>1, <1>2, <1>3 DEF Seen, Onwards, Place
-----------------------------------------------------------------------------
(* One lemma for each step of a shell.                                     *)

LEMMA JobFacts ==
  ASSUME JobsInv, NEW s \in Shells
  PROVE  /\ JobTypes /\ Places /\ Place(s) /\ LocksRight /\ AddsAlone /\ Owned /\ SeenStays /\ Seen(s)
         /\ sh \in [Shells -> ShellRec] /\ sh[s].pc \in Pcs /\ sh[s].pid \in Pids \cup {0}
         /\ sh[s].size \in Nat /\ sh[s].i \in 0..MAX_JOBS_ALLOWED /\ sh[s].i \in Nat
         /\ file \in Seq(Pids \cup {0}) /\ Len(file) \in 0..MAX_JOBS_ALLOWED /\ Len(file) \in Nat
         /\ MAX_JOBS_ALLOWED \in Nat /\ 0 \notin Pids
         /\ \A o \in Shells : locks[o] = LockOf(o)
BY ProcessesAssumption DEF JobsInv, JobTypes, Places, SeenStays, ShellRec, LocksRight, Jobs!JobTableAssumption

\* A step of a process, or of its creator, that changes no shell.
LEMMA ProcStep ==
  ASSUME JobsInv, Onwards, proc' \in [Pids -> {"free", "suspended", "running", "ended", "gone"}],
         sh' = sh, shell' = shell, file' = file, locks' = locks, number' = number, handle' = handle
  PROVE  JobsInv'
<1>1. JobTypes'
  BY DEF JobsInv, JobTypes
<1>2. Places' /\ LocksRight' /\ AddsAlone'
  BY DEF JobsInv, Places, Place, LocksRight, LockOf, Jobs!ListRegion, AddsAlone, ListsLocked
<1>3. CASE Shells = {}
  BY <1>1, <1>2, <1>3 DEF JobsInv, Owned, FileLocated, KillLocated, Created, SeenStays, Located, JobTypes, Onwards
<1>4. ASSUME NEW s \in Shells
      PROVE  Owned' /\ SeenStays'
  <2>1. Others(s) /\ sh'[s] = sh[s] /\ sh' \in [Shells -> ShellRec] /\ sh[s].i \in Nat /\ Len(file) \in Nat
    BY JobFacts DEF Others
  <2>2. Owned'
    <3>1. sh[s].pc = "terminate" => sh[s].pid \in Pids
      BY JobFacts DEF Place
    <3> QED BY <2>1, <3>1, OwnedStep DEF JobsInv, Owned, KillLocated
  <2>3. Seen(s)'
    <3>1. \A j \in 1..Len(file) : file[j] # 0 => file[j] \in Pids
      BY DEF JobsInv, JobTypes
    <3> QED BY <2>1, <3>1, JobFacts DEF Seen, ListsLocked, Onwards, Place
  <2> QED BY <2>1, <2>2, <2>3, SeenStep DEF JobsInv
<1> QED BY <1>1, <1>2, <1>3, <1>4 DEF JobsInv

\* AssignProcessToJobObject fails: the process was created and is terminated.
LEMMA AssignFailsStep ==
  ASSUME JobsInv, NEW s \in Shells, Jobs!AssignFails(s)
  PROVE  JobsInv'
<1> USE JobFacts
<1>1. PICK p \in Pids : proc[p] = "free" /\ proc' = [proc EXCEPT ![p] = "ended"]
  BY DEF Jobs!AssignFails, Jobs!Fresh
<1>2. /\ sh' = sh /\ shell' = shell /\ file' = file /\ locks' = locks /\ number' = number /\ handle' = handle
  BY DEF Jobs!AssignFails
<1>3. Others(s) /\ sh'[s] = sh[s]
  BY <1>2 DEF Others
<1>4. Onwards /\ proc' \in [Pids -> {"free", "suspended", "running", "ended", "gone"}]
  BY <1>1 DEF Onwards, JobTypes
<1> QED BY <1>2, <1>3, <1>4, ProcStep

LEMMA EndsStep ==
  ASSUME JobsInv, NEW p \in Pids, Jobs!Ends(p)
  PROVE  JobsInv'
<1>1. /\ sh' = sh /\ shell' = shell /\ file' = file /\ locks' = locks /\ number' = number /\ handle' = handle
      /\ \/ proc[p] = "running" /\ proc' = [proc EXCEPT ![p] = "ended"]
         \/ proc[p] = "ended" /\ p \notin handle /\ proc' = [proc EXCEPT ![p] = "gone"]
  BY DEF Jobs!Ends
<1>2. Onwards /\ proc' \in [Pids -> {"free", "suspended", "running", "ended", "gone"}]
  BY <1>1 DEF Onwards, JobsInv, JobTypes
<1> QED BY <1>1, <1>2, ProcStep

\* jobbg: the new process is nobody else's.
LEMMA JobbgStep ==
  ASSUME JobsInv, NEW s \in Shells, Jobs!Jobbg(s)
  PROVE  JobsInv'
<1> USE JobFacts
<1>1. PICK p \in Pids : /\ proc[p] = "free" /\ proc' = [proc EXCEPT ![p] = "suspended"]
                       /\ handle' = handle \cup {p}
                       /\ sh' = [sh EXCEPT ![s] = [pc |-> "addLock", pid |-> p, size |-> Len(file), i |-> 0]]
  BY DEF Jobs!Jobbg, Jobs!Fresh
<1>2. /\ sh[s].pc = "prompt" /\ shell' = shell /\ file' = file /\ locks' = locks /\ number' = number
  BY DEF Jobs!Jobbg, Jobs!Begins
<1> DEFINE r == [pc |-> "addLock", pid |-> p, size |-> Len(file), i |-> 0]
<1>3. r \in ShellRec
  BY DEF ShellRec, Pcs
<1>4. sh' \in [Shells -> ShellRec] /\ Others(s) /\ sh'[s] = r
  BY <1>1, <1>3, SetBecomes
<1>5. sh'[s].pc = "addLock" /\ sh'[s].pid = p /\ sh'[s].i = 0
  BY <1>4
<1> HIDE DEF r
<1>6. Onwards
  BY <1>1 DEF Onwards, JobTypes
<1>7. JobTypes'
  <2>1. proc' \in [Pids -> {"free", "suspended", "running", "ended", "gone"}]
    BY <1>1 DEF JobTypes
  <2> QED BY <1>1, <1>2, <1>4, <2>1 DEF JobTypes
<1>8. Places'
  <2>1. Place(s)'
    BY <1>2, <1>5 DEF Place, Adding
  <2> QED BY <1>2, <1>4, <2>1, PlacesStep
<1>9. LocksRight'
  <2>1. LockOf(s)' = LockOf(s)
    BY <1>2, <1>5 DEF LockOf, Adding, Listing
  <2> QED BY <1>2, <1>4, <2>1, LocksStay
<1>10. AddsAlone'
  BY <1>2, <1>4, <1>5, AddsAloneStep DEF Adding, ListsLocked, Listing
<1>11. Owned'
  <2>1. ASSUME NEW q \in Pids, NEW j, Located(q, j)
        PROVE  LocatedNext(q, j)
    <3>1. q # p
      BY <1>1, <2>1 DEF Located
    <3> QED BY <1>1, <1>2, <1>4, <1>5, <1>6, <2>1, <3>1 DEF Located, LocatedNext, Others, Onwards
  <2>2. \A j \in 1..Len(file) : file[j] # 0 => file[j] \in Pids /\ Located(file[j], j)
    BY DEF Owned, FileLocated
  <2>3. FileLocated'
    BY <1>2, <2>1, <2>2, FileNext
  <2>4. KillLocated'
    <3>1. \A o \in Shells : sh'[o].pc = "terminate" /\ sh'[o].i < sh'[o].size =>
            sh'[o].pid \in Pids /\ Located(sh'[o].pid, sh'[o].i + 1)
      <4>1. \A o \in Shells : sh'[o].pc = "terminate" => sh'[o] = sh[o] /\ sh[o].pid \in Pids
        BY <1>4, <1>5 DEF Others, Places, Place, ShellRec
      <4> QED BY <4>1 DEF Owned, KillLocated
    <3> QED BY <2>1, <3>1, KillNext
  <2>5. Created'
    <3>1. \A o \in Shells \ {s} : sh'[o] = sh[o] /\ (sh[o].pc \in Creates => sh[o].pid \in Pids /\ sh[o].pid # p)
      BY <1>1, <1>4 DEF Others, Places, Place, ShellRec, Owned, Created
    <3>2. \A q \in Pids : proc'[q] = IF q = p THEN "suspended" ELSE proc[q]
      BY <1>1 DEF JobTypes
    <3>3. number[p] = 0
      BY <1>1 DEF Owned, Created
    <3> QED BY <1>1, <1>2, <1>5, <3>1, <3>2, <3>3 DEF Owned, Created
  <2> QED BY <2>3, <2>4, <2>5 DEF Owned
<1>12. SeenStays'
  <2>1. Seen(s)'
    BY <1>5 DEF Seen
  <2> QED BY <1>2, <1>4, <1>6, <2>1, SeenStep
<1> QED BY <1>7, <1>8, <1>9, <1>10, <1>11, <1>12 DEF JobsInv
\* A step of shell s that writes no record and tells no number.
LEMMA QuietStep ==
  ASSUME JobsInv, NEW s \in Shells, Others(s), sh' \in [Shells -> ShellRec],
         shell' = shell, file' = file, number' = number, handle' = handle, Onwards,
         proc' \in [Pids -> {"free", "suspended", "running", "ended", "gone"}],
         Place(s)', LocksRight', Seen(s)',
         sh'[s].pc \in Adding => sh[s].pc \in Adding
            \/ \A o \in Shells \ {s} : sh[o].pc \notin Adding /\ ~ListsLocked(o),
         ListsLocked(s)' => ListsLocked(s) \/ \A o \in Shells \ {s} : sh[o].pc \notin Adding,
         sh'[s].pc \in Creates =>
           /\ sh[s].pc \in Creates /\ sh'[s].pid = sh[s].pid
           /\ sh[s].pc \in {"resume", "close"} =>
                sh'[s].pc \in {"resume", "close"} /\ sh'[s].i = sh[s].i,
         sh'[s].pc = "terminate" /\ sh'[s].i < sh'[s].size =>
           sh'[s].pid \in Pids /\ Located(sh'[s].pid, sh'[s].i + 1)
  PROVE  JobsInv'
<1>1. JobTypes'
  BY DEF JobsInv, JobTypes
<1>2. Places'
  BY JobFacts, PlacesStep
<1>3. AddsAlone'
  BY JobFacts, AddsAloneStep
<1>4. Owned'
  BY JobFacts, OwnedStep
<1>5. SeenStays'
  BY JobFacts, SeenStep
<1> QED BY <1>1, <1>2, <1>3, <1>4, <1>5 DEF JobsInv

LEMMA NothingOnwards ==
  ASSUME JobsInv, proc' = proc
  PROVE  Onwards /\ proc' \in [Pids -> {"free", "suspended", "running", "ended", "gone"}]
BY DEF Onwards, JobsInv, JobTypes

\* A shell that is given the exclusive lock of the beginning of the table has it
\* alone: whoever adds, or lists with a lock of its own, has the first byte.
LEMMA AloneWhenLocked ==
  ASSUME JobsInv, NEW s \in Shells, NEW n \in Nat, n > 0,
         \A o \in Shells \ {s} : Jobs!Meet(locks[o], Jobs!Region(0, n, TRUE)) =>
           ~locks[o].exclusive /\ ~Jobs!Region(0, n, TRUE).exclusive
  PROVE  \A o \in Shells \ {s} : sh[o].pc \notin Adding /\ ~ListsLocked(o)
<1> SUFFICES ASSUME NEW o \in Shells, o # s, sh[o].pc \in Adding \/ ListsLocked(o)
             PROVE  FALSE
  OBVIOUS
<1>1. sh[o].size \in Nat /\ locks[o] = LockOf(o)
  BY JobFacts
<1>2. CASE sh[o].pc \in Adding
  <2>1. locks[o] = [first |-> 0, length |-> sh[o].size + 1, exclusive |-> TRUE, held |-> TRUE]
    BY <1>1, <1>2 DEF LockOf, Jobs!AddRegion, Jobs!Region
  <2> QED BY <1>1, <2>1 DEF Jobs!Meet, Jobs!Region
<1>3. CASE ListsLocked(o)
  <2>1. locks[o] = [first |-> 0, length |-> sh[o].size, exclusive |-> TRUE, held |-> TRUE] /\ sh[o].size > 0
    BY <1>1, <1>3 DEF ListsLocked, LockOf, Jobs!ListRegion, Jobs!Region, Adding, Listing
  <2> QED BY <1>1, <2>1 DEF Jobs!Meet, Jobs!Region
<1> QED BY <1>2, <1>3

LEMMA AddLockStep ==
  ASSUME JobsInv, NEW s \in Shells, Jobs!AddLock(s)
  PROVE  JobsInv'
<1> USE JobFacts
<1>1. /\ sh[s].pc = "addLock" /\ Becomes(s, "addRead") /\ Jobs!LockFileEx(s, Jobs!AddRegion(sh[s].size))
      /\ shell' = shell /\ file' = file /\ proc' = proc /\ handle' = handle /\ number' = number
  BY GotoBecomes DEF Jobs!AddLock, Pcs
<1>2. sh'[s].pc = "addRead" /\ sh'[s].pid = sh[s].pid /\ sh'[s].size = sh[s].size /\ sh'[s].i = sh[s].i
      /\ Others(s) /\ sh' \in [Shells -> ShellRec]
  BY <1>1 DEF Becomes
<1>3. Place(s)'
  BY <1>1, <1>2 DEF Place, Adding, Creates
<1>4. LocksRight'
  <2>1. LockOf(s)' = Jobs!AddRegion(sh[s].size)
    BY <1>2 DEF LockOf, Adding
  <2> QED BY <1>1, <1>2, <2>1, LocksSet DEF Jobs!LockFileEx
<1>5. \A o \in Shells \ {s} : sh[o].pc \notin Adding /\ ~ListsLocked(o)
  <2>1. Jobs!AddRegion(sh[s].size) = Jobs!Region(0, sh[s].size + 1, TRUE)
    BY DEF Jobs!AddRegion
  <2>2. sh[s].size + 1 \in Nat /\ sh[s].size + 1 > 0
    OBVIOUS
  <2> QED BY <1>1, <2>1, <2>2, AloneWhenLocked DEF Jobs!LockFileEx
<1>6. ~ListsLocked(s)' /\ Seen(s)'
  BY <1>2 DEF ListsLocked, Listing, Seen
<1> QED BY <1>1, <1>2, <1>3, <1>4, <1>5, <1>6, NothingOnwards, QuietStep DEF Creates

\* Nobody has a lock against the reads of a shell that adds.
LEMMA AdderCanRead ==
  ASSUME JobsInv, NEW s \in Shells, sh[s].pc \in Adding, NEW r \in Nat
  PROVE  Jobs!CanRead(s, r)
<1> SUFFICES ASSUME NEW o \in Shells, o # s, Jobs!Covers(locks[o], r)
             PROVE  ~locks[o].exclusive
  BY DEF Jobs!CanRead
<1> USE JobFacts
<1>1. sh[o].pc \notin Adding /\ ~ListsLocked(o)
  BY DEF AddsAlone
<1>2. locks[o] = LockOf(o) /\ sh[o].size \in Nat
  OBVIOUS
<1>3. CASE sh[o].pc \in Listing
  <2>1. locks[o] = [first |-> 0, length |-> IF shell = "JobShell_secure" THEN sh[o].size ELSE 0,
                    exclusive |-> TRUE, held |-> TRUE]
    BY <1>1, <1>2, <1>3 DEF LockOf, Jobs!ListRegion, Jobs!Region
  <2>2. (IF shell = "JobShell_secure" THEN sh[o].size ELSE 0) = 0
    BY <1>1, <1>2, <1>3 DEF ListsLocked
  <2>3. 0 <= r /\ r < 0 + 0
    BY <2>1, <2>2 DEF Jobs!Covers
  <2> QED BY <2>3
<1>4. CASE sh[o].pc \notin Listing
  BY <1>1, <1>2, <1>4 DEF LockOf, Jobs!Region, Jobs!Unlocked
<1> QED BY <1>3, <1>4

LEMMA AddReadStep ==
  ASSUME JobsInv, NEW s \in Shells, Jobs!AddRead(s)
  PROVE  JobsInv'
<1> USE JobFacts
<1>1. /\ sh[s].pc = "addRead" /\ shell' = shell /\ file' = file /\ handle' = handle /\ number' = number
      /\ Place(s) /\ sh[s].i <= Len(file) /\ sh[s].pid \in Pids
  BY DEF Jobs!AddRead, Place, Adding, Creates
<1>2. CASE /\ Jobs!Full(sh[s].i) /\ proc' = [proc EXCEPT ![sh[s].pid] = "ended"]
           /\ Jobs!UnlockFileEx(s) /\ Jobs!Goto(s, "close")
  <2>1. Becomes(s, "close")
    BY <1>2, GotoBecomes DEF Pcs
  <2>2. sh'[s].pc = "close" /\ sh'[s].pid = sh[s].pid /\ Others(s) /\ sh' \in [Shells -> ShellRec]
    BY <2>1 DEF Becomes
  <2>3. Place(s)'
    BY <1>1, <2>2 DEF Place, Adding, Creates
  <2>4. LocksRight'
    <3>1. LockOf(s)' = Jobs!Unlocked
      BY <2>2 DEF LockOf, Adding, Listing
    <3> QED BY <1>1, <1>2, <2>2, <3>1, LocksSet DEF Jobs!UnlockFileEx
  <2>5. proc' \in [Pids -> {"free", "suspended", "running", "ended", "gone"}]
    BY <1>2 DEF JobTypes
  <2>6. Onwards
    <3>1. proc[sh[s].pid] # "free"
      BY <1>1 DEF Owned, Created, Creates
    <3>2. proc[sh[s].pid] # "gone"
      BY <1>1 DEF Owned, Created, Creates
    <3> QED BY <1>1, <1>2, <3>1, <3>2 DEF Onwards, JobTypes
  <2>7. ~ListsLocked(s)' /\ Seen(s)' /\ sh'[s].pc \notin Adding
    BY <2>2 DEF ListsLocked, Listing, Seen, Adding
  <2> QED BY <1>1, <2>2, <2>3, <2>4, <2>5, <2>6, <2>7, QuietStep DEF Creates
<1>3. CASE ~Jobs!Full(sh[s].i) /\ proc' = proc /\ locks' = locks
  <2>1. sh[s].i < MAX_JOBS_ALLOWED
    BY <1>3 DEF Jobs!Full
  <2>2. CASE sh[s].i < Len(file) /\ sh' = [sh EXCEPT ![s].i = sh[s].i + 1]
    <3> DEFINE r == [sh[s] EXCEPT !.i = sh[s].i + 1]
    <3>1. sh[s] \in ShellRec /\ sh[s].i + 1 \in 0..MAX_JOBS_ALLOWED
      BY <2>1
    <3>2. /\ r \in ShellRec /\ r.pc = "addRead" /\ r.pid = sh[s].pid /\ r.size = sh[s].size
          /\ r.i = sh[s].i + 1
      BY <1>1, <3>1 DEF ShellRec
    <3>3. sh' = [sh EXCEPT ![s] = r]
      BY <2>2
    <3> HIDE DEF r
    <3>4. Others(s) /\ sh' \in [Shells -> ShellRec] /\ sh'[s] = r
      BY <3>2, <3>3, SetBecomes
    <3>5. sh'[s].pc = "addRead" /\ sh'[s].pid = sh[s].pid /\ sh'[s].size = sh[s].size /\ sh'[s].i = sh[s].i + 1
      BY <3>2, <3>4
    <3>6. Place(s)'
      BY <1>1, <2>2, <3>5 DEF Place, Adding, Creates
    <3>7. LocksRight'
      <4>1. LockOf(s)' = LockOf(s)
        BY <1>1, <3>5 DEF LockOf, Adding
      <4> QED BY <1>1, <1>3, <3>4, <4>1, LocksStay
    <3>8. Seen(s)' /\ ~ListsLocked(s)' /\ sh[s].pc \in Adding /\ sh[s].pc \in Creates
          /\ sh[s].pc \notin {"resume", "close"} /\ sh'[s].pc # "terminate"
      BY <1>1, <3>5 DEF Seen, ListsLocked, Listing, Adding, Creates
    <3> QED BY <1>1, <1>3, <3>4, <3>5, <3>6, <3>7, <3>8, NothingOnwards, QuietStep
  <2>3. CASE /\ ~(sh[s].i < Len(file) /\ Jobs!CanRead(s, sh[s].i) /\ ~Jobs!Usable(file[sh[s].i + 1]))
             /\ Jobs!Goto(s, "addWrite")
    <3>0. Becomes(s, "addWrite")
      BY <2>3, GotoBecomes DEF Pcs
    <3>1. /\ Others(s) /\ sh' \in [Shells -> ShellRec] /\ sh'[s].pid = sh[s].pid /\ sh'[s].size = sh[s].size
          /\ sh'[s].pc = "addWrite" /\ sh'[s].i = sh[s].i
      BY <3>0 DEF Becomes
    <3>2. Place(s)'
      BY <1>1, <2>1, <3>1 DEF Place, Adding, Creates
    <3>3. LocksRight'
      <4>1. LockOf(s)' = LockOf(s)
        BY <1>1, <3>1 DEF LockOf, Adding
      <4> QED BY <1>1, <1>3, <3>1, <4>1, LocksStay
    <3>4. Jobs!CanRead(s, sh[s].i)
      BY <1>1, AdderCanRead DEF Adding
    <3>5. Seen(s)'
      <4> SUFFICES ASSUME sh[s].i < Len(file)
                   PROVE  file[sh[s].i + 1] = 0 \/ proc[file[sh[s].i + 1]] \in {"ended", "gone"}
        BY <1>1, <1>3, <3>1 DEF Seen
      <4>1. Jobs!Usable(file[sh[s].i + 1])
        BY <2>3, <3>4
      <4>2. file[sh[s].i + 1] \in Pids \cup {0} /\ sh[s].i + 1 \in 1..Len(file)
        OBVIOUS
      <4>3. file[sh[s].i + 1] # 0 => proc[file[sh[s].i + 1]] # "free"
        BY <4>2 DEF Owned, FileLocated, Located
      <4> QED BY <4>1, <4>2, <4>3 DEF Jobs!Usable, Jobs!Active, JobTypes
    <3>6. ~ListsLocked(s)' /\ sh[s].pc \in Adding /\ sh[s].pc \in Creates
          /\ sh[s].pc \notin {"resume", "close"} /\ sh'[s].pc # "terminate"
      BY <1>1, <3>1 DEF ListsLocked, Listing, Adding, Creates
    <3> QED BY <1>1, <1>3, <3>1, <3>2, <3>3, <3>5, <3>6, NothingOnwards, QuietStep
  <2> QED BY <1>1, <1>3, <2>2, <2>3 DEF Jobs!AddRead
<1> QED BY <1>2, <1>3 DEF Jobs!AddRead

\* A shell that releases its lock and prompts.
LEMMA ToPrompt ==
  ASSUME JobsInv, NEW s \in Shells, sh[s].pc \in {"listRead", "findRead"},
         Jobs!UnlockFileEx(s), sh' = [sh EXCEPT ![s] = Jobs!Prompt],
         shell' = shell, file' = file, proc' = proc, handle' = handle, number' = number
  PROVE  JobsInv'
<1> USE JobFacts
<1>1. Others(s) /\ sh' \in [Shells -> ShellRec] /\ sh'[s] = Jobs!Prompt
  BY PromptRec, SetBecomes
<1>2. sh'[s].pc = "prompt"
  BY <1>1 DEF Jobs!Prompt
<1>3. LocksRight'
  <2>1. LockOf(s)' = Jobs!Unlocked
    BY <1>2 DEF LockOf, Adding, Listing
  <2> QED BY <1>1, <2>1, LocksSet DEF Jobs!UnlockFileEx
<1>4. Place(s)' /\ Seen(s)' /\ ~ListsLocked(s)' /\ sh'[s].pc \notin Adding /\ sh'[s].pc \notin Creates
  BY <1>2 DEF Place, Seen, ListsLocked, Listing, Adding, Creates
<1> QED BY <1>1, <1>2, <1>3, <1>4, NothingOnwards, QuietStep

LEMMA ResumeStep ==
  ASSUME JobsInv, NEW s \in Shells, Jobs!Resume(s)
  PROVE  JobsInv'
<1> USE JobFacts
<1>1. /\ sh[s].pc = "resume" /\ Becomes(s, "close")
      /\ shell' = shell /\ file' = file /\ locks' = locks /\ handle' = handle /\ number' = number
      /\ proc' = [proc EXCEPT ![sh[s].pid] = IF @ = "suspended" THEN "running" ELSE @]
  BY GotoBecomes DEF Jobs!Resume, Pcs
<1>2. /\ sh'[s].pc = "close" /\ sh'[s].pid = sh[s].pid /\ sh'[s].i = sh[s].i
      /\ Others(s) /\ sh' \in [Shells -> ShellRec]
  BY <1>1 DEF Becomes
<1>3. Onwards /\ proc' \in [Pids -> {"free", "suspended", "running", "ended", "gone"}]
  BY <1>1 DEF Onwards, JobTypes
<1>4. Place(s)' /\ LockOf(s)' = LockOf(s)
  BY <1>1, <1>2 DEF Place, Adding, Creates, Listing, LockOf
<1>5. LocksRight'
  BY <1>1, <1>2, <1>4, LocksStay
<1>6. ~ListsLocked(s)' /\ Seen(s)' /\ sh'[s].pc \notin Adding
  BY <1>2 DEF ListsLocked, Listing, Seen, Adding
<1> QED BY <1>1, <1>2, <1>3, <1>4, <1>5, <1>6, QuietStep DEF Creates

\* Steps between the commands, and the beginning of each.
LEMMA CommandStep ==
  ASSUME JobsInv, NEW s \in Shells, Jobs!Jobs(s) \/ Jobs!Kill(s) \/ Jobs!Terminate(s) \/ Jobs!Quit(s)
  PROVE  JobsInv'
<1> USE JobFacts
<1>1. /\ sh[s].pc \in {"prompt", "terminate"} /\ shell' = shell /\ file' = file /\ locks' = locks
      /\ handle' = handle /\ number' = number
  BY DEF Jobs!Jobs, Jobs!Kill, Jobs!Terminate, Jobs!Quit, Jobs!Begins
<1>2. /\ Others(s) /\ sh' \in [Shells -> ShellRec]
      /\ sh'[s].pc \in {"listLock", "findLock", "prompt", "over"}
  <2>1. CASE Jobs!Jobs(s)
    <3> DEFINE r == [Jobs!Prompt EXCEPT !.pc = "listLock", !.size = Len(file)]
    <3>1. r \in ShellRec /\ r.pc = "listLock"
      <4>1. Len(file) \in Nat /\ 0 \in 0..MAX_JOBS_ALLOWED
        OBVIOUS
      <4> QED BY <4>1 DEF Jobs!Prompt, ShellRec, Pcs
    <3>2. sh' = [sh EXCEPT ![s] = r]
      BY <2>1 DEF Jobs!Jobs
    <3> HIDE DEF r
    <3> QED BY <3>1, <3>2, SetBecomes
  <2>2. CASE Jobs!Kill(s)
    <3>1. PICK n \in 1..(Len(file) + 1) : sh' = [sh EXCEPT ![s] = [Jobs!Prompt EXCEPT !.pc = "findLock", !.i = n - 1]]
      BY <2>2 DEF Jobs!Kill
    <3> DEFINE r == [Jobs!Prompt EXCEPT !.pc = "findLock", !.i = n - 1]
    <3>2. r \in ShellRec /\ r.pc = "findLock"
      <4>1. n - 1 \in 0..MAX_JOBS_ALLOWED
        OBVIOUS
      <4> QED BY <4>1 DEF Jobs!Prompt, ShellRec, Pcs
    <3>3. sh' = [sh EXCEPT ![s] = r]
      BY <3>1
    <3> HIDE DEF r
    <3> QED BY <3>2, <3>3, SetBecomes
  <2>3. CASE Jobs!Terminate(s)
    <3>1. sh' = [sh EXCEPT ![s] = Jobs!Prompt] /\ Jobs!Prompt.pc = "prompt"
      BY <2>3 DEF Jobs!Terminate, Jobs!Prompt
    <3> QED BY <3>1, PromptRec, SetBecomes
  <2>4. CASE Jobs!Quit(s)
    BY <2>4, GotoBecomes DEF Jobs!Quit, Becomes, Pcs
  <2> QED BY <2>1, <2>2, <2>3, <2>4
<1>3. Onwards /\ proc' \in [Pids -> {"free", "suspended", "running", "ended", "gone"}]
  <2>1. CASE Jobs!Terminate(s) /\ Jobs!Active(sh[s].pid)
    <3>1. /\ proc[sh[s].pid] \in {"suspended", "running"}
          /\ proc' = [proc EXCEPT ![sh[s].pid] = "ended"]
      BY <2>1 DEF Jobs!Terminate, Jobs!Active
    <3> QED BY <3>1 DEF Onwards, JobTypes
  <2>2. CASE ~(Jobs!Terminate(s) /\ Jobs!Active(sh[s].pid))
    <3>1. proc' = proc
      BY <2>2 DEF Jobs!Jobs, Jobs!Kill, Jobs!Terminate, Jobs!Quit
    <3> QED BY <3>1, NothingOnwards
  <2> QED BY <2>1, <2>2
<1>4. Place(s)' /\ LockOf(s)' = LockOf(s)
  BY <1>1, <1>2 DEF Place, Adding, Creates, Listing, LockOf
<1>5. LocksRight'
  BY <1>1, <1>2, <1>4, LocksStay
<1>6. ~ListsLocked(s)' /\ Seen(s)' /\ sh'[s].pc \notin Adding /\ sh'[s].pc \notin Creates
  BY <1>2 DEF ListsLocked, Listing, Seen, Adding, Creates
<1> QED BY <1>1, <1>2, <1>3, <1>4, <1>5, <1>6, QuietStep

LEMMA ListLockStep ==
  ASSUME JobsInv, NEW s \in Shells, Jobs!ListLock(s)
  PROVE  JobsInv'
<1> USE JobFacts
<1>1. /\ sh[s].pc = "listLock" /\ Becomes(s, "listRead") /\ Jobs!LockFileEx(s, Jobs!ListRegion(s))
      /\ shell' = shell /\ file' = file /\ proc' = proc /\ handle' = handle /\ number' = number
  BY GotoBecomes DEF Jobs!ListLock, Pcs
<1>2. sh'[s].pc = "listRead" /\ sh'[s].size = sh[s].size /\ Others(s) /\ sh' \in [Shells -> ShellRec]
  BY <1>1 DEF Becomes
<1>3. Place(s)'
  BY <1>2 DEF Place, Adding, Creates
<1>4. LocksRight'
  <2>1. LockOf(s)' = Jobs!ListRegion(s)
    BY <1>1, <1>2 DEF LockOf, Adding, Listing, Jobs!ListRegion
  <2> QED BY <1>1, <1>2, <2>1, LocksSet DEF Jobs!LockFileEx
<1>5. ListsLocked(s)' => \A o \in Shells \ {s} : sh[o].pc \notin Adding
  <2> SUFFICES ASSUME ListsLocked(s)'
               PROVE  \A o \in Shells \ {s} : sh[o].pc \notin Adding
    OBVIOUS
  <2>1. shell = "JobShell_secure" /\ sh[s].size > 0
    BY <1>1, <1>2 DEF ListsLocked
  <2>2. Jobs!ListRegion(s) = Jobs!Region(0, sh[s].size, TRUE)
    BY <2>1 DEF Jobs!ListRegion
  <2> QED BY <1>1, <2>1, <2>2, AloneWhenLocked DEF Jobs!LockFileEx
<1>6. Seen(s)' /\ sh'[s].pc \notin Adding /\ sh'[s].pc \notin Creates
  BY <1>2 DEF Seen, Adding, Creates
<1> QED BY <1>1, <1>2, <1>3, <1>4, <1>5, <1>6, NothingOnwards, QuietStep

LEMMA ListReadStep ==
  ASSUME JobsInv, NEW s \in Shells, Jobs!ListRead(s)
  PROVE  JobsInv'
<1> USE JobFacts
<1>1. /\ sh[s].pc = "listRead"
      /\ shell' = shell /\ file' = file /\ proc' = proc /\ handle' = handle /\ number' = number
  BY DEF Jobs!ListRead
<1>2. CASE /\ sh[s].i < Len(file) /\ locks' = locks
           /\ sh' = [sh EXCEPT ![s].i = sh[s].i + 1,
                               ![s].pc = IF Jobs!Gone(file[sh[s].i + 1]) THEN "listClear" ELSE @]
  <2> DEFINE to == IF Jobs!Gone(file[sh[s].i + 1]) THEN "listClear" ELSE "listRead"
             r == [sh[s] EXCEPT !.i = sh[s].i + 1, !.pc = to]
  <2>1. sh[s] \in ShellRec /\ sh[s].i + 1 \in 1..MAX_JOBS_ALLOWED /\ to \in Listing
    BY <1>2 DEF Listing
  <2>2. r \in ShellRec /\ r.pc = to /\ r.size = sh[s].size /\ r.i = sh[s].i + 1
    <3>1. to \in Pcs
      BY DEF Pcs
    <3>2. sh[s].i + 1 \in 0..MAX_JOBS_ALLOWED
      BY <2>1
    <3> DEFINE q == sh[s]
               k == sh[s].i + 1
    <3>3. q \in ShellRec /\ k \in 0..MAX_JOBS_ALLOWED
      BY <2>1, <3>2
    <3> HIDE JobFacts
    <3> HIDE DEF to, q, k
    <3>4. /\ [q EXCEPT !.i = k, !.pc = to] \in ShellRec
          /\ [q EXCEPT !.i = k, !.pc = to].pc = to
          /\ [q EXCEPT !.i = k, !.pc = to].size = q.size
          /\ [q EXCEPT !.i = k, !.pc = to].i = k
      BY <3>1, <3>3 DEF ShellRec
    <3> QED BY <3>4 DEF q, k
  <2>3. sh' = [sh EXCEPT ![s] = r]
    <3>1. sh' = [sh EXCEPT ![s] = [@ EXCEPT !.i = sh[s].i + 1, !.pc = to]]
      BY <1>1, <1>2 DEF ShellRec
    <3> QED BY <3>1
  <2> HIDE DEF r
  <2>4. Others(s) /\ sh' \in [Shells -> ShellRec] /\ sh'[s] = r
    BY <2>2, <2>3, SetBecomes
  <2>5. sh'[s].pc = to /\ sh'[s].size = sh[s].size /\ sh'[s].i = sh[s].i + 1
    BY <2>2, <2>4
  <2>6. Place(s)'
    BY <1>1, <1>2, <2>1, <2>5 DEF Place, Adding, Creates
  <2>7. LocksRight'
    <3>1. LockOf(s)' = LockOf(s)
      BY <1>1, <2>5 DEF LockOf, Adding, Listing, Jobs!ListRegion
    <3> QED BY <1>1, <1>2, <2>4, <3>1, LocksStay
  <2>8. Seen(s)'
    <3> SUFFICES ASSUME to = "listClear"
                 PROVE  file[sh[s].i + 1] = 0 \/ proc[file[sh[s].i + 1]] = "gone"
      BY <1>1, <2>5 DEF Seen
    <3>1. Jobs!Gone(file[sh[s].i + 1])
      OBVIOUS
    <3>2. file[sh[s].i + 1] \in Pids \cup {0} /\ sh[s].i + 1 \in 1..Len(file)
      BY <1>2
    <3>3. file[sh[s].i + 1] # 0 => proc[file[sh[s].i + 1]] # "free"
      BY <3>2 DEF Owned, FileLocated, Located
    <3> QED BY <3>1, <3>2, <3>3 DEF Jobs!Gone, Jobs!Exists, Jobs!Active, JobTypes
  <2>9. (ListsLocked(s)' => ListsLocked(s)) /\ sh'[s].pc \notin Adding /\ sh'[s].pc \notin Creates
        /\ sh'[s].pc # "terminate"
    BY <1>1, <2>5 DEF ListsLocked, Listing, Adding, Creates
  <2> QED BY <1>1, <2>4, <2>6, <2>7, <2>8, <2>9, NothingOnwards, QuietStep
<1>3. CASE Jobs!UnlockFileEx(s) /\ sh' = [sh EXCEPT ![s] = Jobs!Prompt]
  BY <1>1, <1>3, ToPrompt
<1> QED BY <1>2, <1>3 DEF Jobs!ListRead

LEMMA FindLockStep ==
  ASSUME JobsInv, NEW s \in Shells, Jobs!FindLock(s)
  PROVE  JobsInv'
<1> USE JobFacts
<1>1. /\ sh[s].pc = "findLock" /\ Becomes(s, "findRead")
      /\ locks' = [locks EXCEPT ![s] = Jobs!Region(sh[s].i, 1, FALSE)]
      /\ shell' = shell /\ file' = file /\ proc' = proc /\ handle' = handle /\ number' = number
  BY GotoBecomes DEF Jobs!FindLock, Pcs, Jobs!LockFileEx
<1>2. sh'[s].pc = "findRead" /\ sh'[s].i = sh[s].i /\ Others(s) /\ sh' \in [Shells -> ShellRec]
  BY <1>1 DEF Becomes
<1>3. LocksRight'
  <2>1. LockOf(s)' = Jobs!Region(sh[s].i, 1, FALSE)
    BY <1>2 DEF LockOf, Adding, Listing
  <2> QED BY <1>1, <1>2, <2>1, LocksSet
<1>4. Place(s)' /\ Seen(s)' /\ ~ListsLocked(s)' /\ sh'[s].pc \notin Adding /\ sh'[s].pc \notin Creates
  BY <1>2 DEF Place, Seen, ListsLocked, Listing, Adding, Creates
<1> QED BY <1>1, <1>2, <1>3, <1>4, NothingOnwards, QuietStep

LEMMA FindReadStep ==
  ASSUME JobsInv, NEW s \in Shells, Jobs!FindRead(s)
  PROVE  JobsInv'
<1> USE JobFacts
<1>1. /\ sh[s].pc = "findRead" /\ Jobs!UnlockFileEx(s)
      /\ shell' = shell /\ file' = file /\ proc' = proc /\ handle' = handle /\ number' = number
  BY DEF Jobs!FindRead
<1>2. PICK p \in IF sh[s].i < Len(file) THEN {file[sh[s].i + 1]} ELSE Pids \cup {0} :
        sh' = [sh EXCEPT ![s] = IF p = 0 THEN Jobs!Prompt ELSE [@ EXCEPT !.pc = "terminate", !.pid = p, !.size = Len(file)]]
  BY DEF Jobs!FindRead
<1>3. p \in Pids \cup {0}
  BY <1>2
<1>4. CASE p = 0
  BY <1>1, <1>2, <1>4, ToPrompt
<1>5. CASE p # 0
  <2> DEFINE r == [sh[s] EXCEPT !.pc = "terminate", !.pid = p, !.size = Len(file)]
  <2>1. sh[s] \in ShellRec
    OBVIOUS
  <2>2. r \in ShellRec /\ r.pc = "terminate" /\ r.pid = p /\ r.size = Len(file) /\ r.i = sh[s].i
    BY <1>3, <2>1 DEF ShellRec, Pcs
  <2>3. sh' = [sh EXCEPT ![s] = r]
    BY <1>2, <1>5
  <2> HIDE DEF r
  <2>4. Others(s) /\ sh' \in [Shells -> ShellRec] /\ sh'[s] = r
    BY <2>2, <2>3, SetBecomes
  <2>5. sh'[s].pc = "terminate" /\ sh'[s].pid = p /\ sh'[s].size = Len(file) /\ sh'[s].i = sh[s].i
    BY <2>2, <2>4
  <2>6. LocksRight'
    <3>1. LockOf(s)' = Jobs!Unlocked
      BY <2>5 DEF LockOf, Adding, Listing
    <3> QED BY <1>1, <2>4, <3>1, LocksSet DEF Jobs!UnlockFileEx
  <2>7. Place(s)' /\ Seen(s)' /\ ~ListsLocked(s)' /\ sh'[s].pc \notin Adding /\ sh'[s].pc \notin Creates
    BY <1>1, <1>5, <2>5 DEF Place, Seen, ListsLocked, Listing, Adding, Creates
  <2>8. sh[s].i < Len(file) => p \in Pids /\ Located(p, sh[s].i + 1)
    BY <1>2, <1>3, <1>5 DEF Owned, FileLocated
  <2> QED BY <1>1, <2>4, <2>5, <2>6, <2>7, <2>8, NothingOnwards, QuietStep
<1> QED BY <1>4, <1>5



\* A creator is the only one of its process, which no record names before it
\* is written.
LEMMA CreatorAlone ==
  ASSUME JobsInv, NEW s \in Shells, sh[s].pc \in Creates
  PROVE  /\ sh[s].pid \in Pids /\ number[sh[s].pid] = 0 /\ proc[sh[s].pid] # "free"
         /\ \A o \in Shells \ {s} : sh[o].pc \in Creates => sh[o].pid # sh[s].pid
BY JobFacts DEF Place, Owned, Created

LEMMA WriteFails ==
  ASSUME JobsInv, NEW s \in Shells, Jobs!AddWrite(s), file' = file
  PROVE  JobsInv'
<1> USE JobFacts
<1>1. /\ sh[s].pc = "addWrite" /\ Becomes(s, "resume") /\ Jobs!UnlockFileEx(s)
      /\ shell' = shell /\ proc' = proc /\ handle' = handle /\ number' = number
  BY GotoBecomes DEF Jobs!AddWrite, Pcs
<1>2. /\ sh'[s].pc = "resume" /\ sh'[s].pid = sh[s].pid /\ sh'[s].i = sh[s].i
      /\ Others(s) /\ sh' \in [Shells -> ShellRec]
  BY <1>1 DEF Becomes
<1>3. LocksRight'
  <2>1. LockOf(s)' = Jobs!Unlocked
    BY <1>2 DEF LockOf, Adding, Listing
  <2> QED BY <1>1, <1>2, <2>1, LocksSet DEF Jobs!UnlockFileEx
<1>4. Place(s)' /\ Seen(s)' /\ ~ListsLocked(s)' /\ sh'[s].pc \notin Adding
  BY <1>1, <1>2 DEF Place, Seen, ListsLocked, Listing, Adding, Creates
<1> QED BY <1>1, <1>2, <1>3, <1>4, NothingOnwards, QuietStep DEF Creates

LEMMA WrittenRight ==
  ASSUME NEW S, NEW q \in Seq(S), NEW p \in S, NEW i \in Nat, i <= Len(q), NEW w,
         w = IF i < Len(q) THEN [q EXCEPT ![i + 1] = p] ELSE Append(q, p)
  PROVE  /\ w \in Seq(S) /\ i + 1 \in 1..Len(w) /\ w[i + 1] = p /\ Len(w) \in Nat
         /\ Len(w) >= Len(q) /\ Len(w) <= (IF i < Len(q) THEN Len(q) ELSE i + 1)
         /\ \A j \in 1..Len(w) : j # i + 1 => j \in 1..Len(q) /\ w[j] = q[j]
<1>1. CASE i < Len(q)
  <2>1. w = [q EXCEPT ![i + 1] = p] /\ i + 1 \in 1..Len(q)
    BY <1>1
  <2> QED BY <2>1, ExceptSeq
<1>2. CASE ~(i < Len(q))
  <2>1. w = Append(q, p) /\ i = Len(q)
    BY <1>2
  <2> QED BY <2>1, AppendProperties
<1> QED BY <1>1, <1>2

LEMMA AddWriteStep ==
  ASSUME JobsInv, NEW s \in Shells, Jobs!AddWrite(s)
  PROVE  JobsInv'
<1> USE JobFacts
<1>1. CASE ~Jobs!CanWrite(s, sh[s].i)
  <2>1. file' = file
    BY <1>1 DEF Jobs!AddWrite
  <2> QED BY <2>1, WriteFails
<1>2. CASE Jobs!CanWrite(s, sh[s].i)
  <2> DEFINE p == sh[s].pid
             i == sh[s].i
  <2>1. /\ sh[s].pc = "addWrite" /\ Becomes(s, "resume") /\ Jobs!UnlockFileEx(s)
        /\ shell' = shell /\ proc' = proc /\ handle' = handle /\ number' = number
        /\ file' = Jobs!Written(i, p)
    BY <1>2, GotoBecomes DEF Jobs!AddWrite, Pcs
  <2>2. /\ sh'[s].pc = "resume" /\ sh'[s].pid = p /\ sh'[s].i = i
        /\ Others(s) /\ sh' \in [Shells -> ShellRec]
    BY <2>1 DEF Becomes
  <2>3. i \in Nat /\ i <= Len(file) /\ i < MAX_JOBS_ALLOWED
    BY <2>1 DEF Place, Adding
  <2>4. /\ p \in Pids /\ number[p] = 0 /\ proc[p] # "free"
        /\ \A o \in Shells \ {s} : sh[o].pc \in Creates => sh[o].pid # p
    BY <2>1, CreatorAlone DEF Creates
  <2>5. /\ file' \in Seq(Pids \cup {0}) /\ file'[i + 1] = p /\ Len(file') \in Nat
        /\ Len(file') >= Len(file) /\ Len(file') <= MAX_JOBS_ALLOWED
        /\ \A j \in 1..Len(file') : j # i + 1 => j \in 1..Len(file) /\ file'[j] = file[j]
    <3>1. file' = IF i < Len(file) THEN [file EXCEPT ![i + 1] = p] ELSE Append(file, p)
      BY <2>1 DEF Jobs!Written
    <3> HIDE DEF i, p
    <3>2. p \in Pids \cup {0} /\ file \in Seq(Pids \cup {0}) /\ Len(file) \in 0..MAX_JOBS_ALLOWED
      BY <2>4
    <3>3. /\ file' \in Seq(Pids \cup {0}) /\ file'[i + 1] = p /\ Len(file') \in Nat
          /\ Len(file') >= Len(file) /\ Len(file') <= (IF i < Len(file) THEN Len(file) ELSE i + 1)
          /\ \A j \in 1..Len(file') : j # i + 1 => j \in 1..Len(file) /\ file'[j] = file[j]
      <4> DEFINE S == Pids \cup {0}
                 w == file'
      <4>1. p \in S /\ file \in Seq(S) /\ i \in Nat /\ i <= Len(file)
        BY <2>3, <3>2
      <4>2. w = IF i < Len(file) THEN [file EXCEPT ![i + 1] = p] ELSE Append(file, p)
        BY <3>1
      <4> HIDE DEF S, w
      <4>3. /\ w \in Seq(S) /\ w[i + 1] = p /\ Len(w) \in Nat
            /\ Len(w) >= Len(file) /\ Len(w) <= (IF i < Len(file) THEN Len(file) ELSE i + 1)
            /\ \A j \in 1..Len(w) : j # i + 1 => j \in 1..Len(file) /\ w[j] = file[j]
        BY <4>1, <4>2, WrittenRight
      <4> QED BY <4>3 DEF S, w
    <3> QED BY <2>3, <3>2, <3>3
  <2>6. JobTypes'
    BY <2>1, <2>2, <2>5 DEF JobTypes
  <2>7. Places'
    <3>1. Place(s)'
      BY <2>2, <2>4 DEF Place, Adding, Creates
    <3> QED BY <2>2, <2>5, <3>1, PlacesStep
  <2>8. LocksRight'
    <3>1. LockOf(s)' = Jobs!Unlocked
      BY <2>2 DEF LockOf, Adding, Listing
    <3> QED BY <2>1, <2>2, <3>1, LocksSet DEF Jobs!UnlockFileEx
  <2>9. AddsAlone'
    <3>1. ~ListsLocked(s)' /\ sh'[s].pc \notin Adding
      BY <2>2 DEF ListsLocked, Listing, Adding
    <3> QED BY <2>1, <2>2, <3>1, AddsAloneStep
  <2>10. ASSUME NEW q \in Pids, NEW j, Located(q, j)
         PROVE  LocatedNext(q, j)
    <3>1. q # p
      BY <2>1, <2>10 DEF Located, Creates
    <3>2. \A o \in Shells : sh'[o].pid = q => sh'[o] = sh[o]
      BY <2>2, <3>1 DEF Others
    <3> HIDE DEF p
    <3> QED BY <2>1, <2>10, <3>2 DEF Located, LocatedNext
  <2>11. FileLocated'
    <3>1. LocatedNext(p, i + 1)
      <4>1. \A o \in Shells : sh'[o].pc \in Creates /\ sh'[o].pid = p => o = s
        BY <2>2, <2>4 DEF Others
      <4> QED BY <2>1, <2>2, <2>4, <4>1 DEF LocatedNext
    <3>2. \A j \in 1..Len(file) : file[j] # 0 => file[j] \in Pids /\ Located(file[j], j)
      BY DEF Owned, FileLocated
    <3> HIDE DEF p, i
    <3>3. \A j \in 1..Len(file') : file'[j] # 0 => LocatedNext(file'[j], j)
      BY <2>5, <2>10, <3>1, <3>2
    <3> QED BY <3>3, FileNext
  <2>12. KillLocated'
    <3>1. \A o \in Shells : sh'[o].pc = "terminate" /\ sh'[o].i < sh'[o].size =>
            sh'[o].pid \in Pids /\ Located(sh'[o].pid, sh'[o].i + 1)
      <4>1. \A o \in Shells : sh'[o].pc = "terminate" => sh'[o] = sh[o] /\ sh[o].pid \in Pids
        BY <2>2 DEF Others, Places, Place, ShellRec
      <4> QED BY <4>1 DEF Owned, KillLocated
    <3> QED BY <2>10, <3>1, KillNext
  <2>13. Created'
    <3>1. \A o \in Shells : sh'[o].pc \in Creates => sh[o].pc \in Creates /\ sh'[o].pid = sh[o].pid
      BY <2>1, <2>2 DEF Others, Creates
    <3> QED BY <2>1, <3>1 DEF Owned, Created
  <2>14. SeenStays'
    <3> SUFFICES ASSUME NEW o \in Shells
                 PROVE  Seen(o)'
      BY DEF SeenStays
    <3>1. CASE o = s
      BY <2>2, <3>1 DEF Seen
    <3>2. CASE o # s
      <4>1. sh[o].pc \notin Adding /\ ~ListsLocked(o) /\ sh'[o] = sh[o]
        BY <2>1, <2>2, <3>2 DEF AddsAlone, Adding, Others
      <4>2. ~ListsLocked(o)'
        BY <2>1, <4>1 DEF ListsLocked
      <4> QED BY <4>1, <4>2 DEF Seen, Adding
    <3> QED BY <3>1, <3>2
  <2> QED BY <2>6, <2>7, <2>8, <2>9, <2>11, <2>12, <2>13, <2>14 DEF JobsInv, Owned
<1> QED BY <1>1, <1>2

LEMMA CloseStep ==
  ASSUME JobsInv, NEW s \in Shells, Jobs!Close(s)
  PROVE  JobsInv'
<1> USE JobFacts
<1> DEFINE p == sh[s].pid
           n == IF sh[s].i < MAX_JOBS_ALLOWED THEN sh[s].i + 1 ELSE 0
<1>1. /\ sh[s].pc = "close" /\ shell' = shell /\ file' = file /\ locks' = locks /\ proc' = proc
      /\ handle' = handle \ {p} /\ number' = [number EXCEPT ![p] = n]
      /\ sh' = [sh EXCEPT ![s] = Jobs!Prompt]
  BY DEF Jobs!Close
<1>2. Others(s) /\ sh' \in [Shells -> ShellRec] /\ sh'[s].pc = "prompt"
  <2>1. sh'[s] = Jobs!Prompt /\ Others(s) /\ sh' \in [Shells -> ShellRec]
    BY <1>1, PromptRec, SetBecomes
  <2> QED BY <2>1 DEF Jobs!Prompt
<1>3. /\ p \in Pids /\ number[p] = 0 /\ proc[p] # "free"
      /\ \A o \in Shells \ {s} : sh[o].pc \in Creates => sh[o].pid # p
  BY <1>1, CreatorAlone DEF Creates
<1>4. n \in 0..MAX_JOBS_ALLOWED
  OBVIOUS
<1>5. \A q \in Pids : number'[q] = IF q = p THEN n ELSE number[q]
  BY <1>1 DEF JobTypes
<1>6. JobTypes'
  <2>1. number' \in [Pids -> 0..MAX_JOBS_ALLOWED]
    BY <1>1, <1>3, <1>4 DEF JobTypes
  <2> QED BY <1>1, <1>2, <2>1 DEF JobTypes
<1>7. Places'
  <2>1. Place(s)'
    BY <1>2 DEF Place, Adding, Creates
  <2> QED BY <1>1, <1>2, <2>1, PlacesStep
<1>8. LocksRight'
  <2>1. LockOf(s)' = LockOf(s)
    BY <1>1, <1>2 DEF LockOf, Adding, Listing
  <2> QED BY <1>1, <1>2, <2>1, LocksStay
<1>9. AddsAlone'
  <2>1. ~ListsLocked(s)' /\ sh'[s].pc \notin Adding
    BY <1>2 DEF ListsLocked, Listing, Adding
  <2> QED BY <1>1, <1>2, <2>1, AddsAloneStep
<1>10. ASSUME NEW q \in Pids, NEW j \in 1..MAX_JOBS_ALLOWED, Located(q, j)
       PROVE  LocatedNext(q, j)
  <2>1. number'[q] \in {0, j}
    <3>1. CASE q = p
      <4>1. sh[s].i + 1 = j
        BY <1>1, <1>10, <3>1 DEF Located, Creates
      <4>2. n = j
        BY <4>1
      <4> QED BY <1>5, <3>1, <4>2
    <3>2. CASE q # p
      BY <1>5, <1>10, <3>2 DEF Located
    <3> QED BY <3>1, <3>2
  <2>2. \A o \in Shells : sh'[o].pc \in Creates => sh'[o] = sh[o]
    BY <1>2 DEF Others, Creates
  <2> QED BY <1>1, <1>10, <2>1, <2>2 DEF Located, LocatedNext
<1> HIDE DEF n
<1>11. FileLocated'
  <2>1. \A j \in 1..Len(file) : file[j] # 0 => file[j] \in Pids /\ Located(file[j], j) /\ j \in 1..MAX_JOBS_ALLOWED
    BY DEF Owned, FileLocated
  <2> QED BY <1>1, <1>10, <2>1, FileNext
<1>12. KillLocated'
  <2>1. ASSUME NEW o \in Shells, sh'[o].pc = "terminate" /\ sh'[o].i < sh'[o].size
        PROVE  LocatedNext(sh'[o].pid, sh'[o].i + 1)
    <3>1. sh'[o] = sh[o]
      BY <1>2, <2>1 DEF Others
    <3>2. sh[o].pid \in Pids /\ sh[o].size <= MAX_JOBS_ALLOWED /\ sh[o].size \in Nat /\ sh[o].i \in Nat
      BY <2>1, <3>1 DEF Places, Place, ShellRec
    <3>3. sh[o].i + 1 \in 1..MAX_JOBS_ALLOWED /\ Located(sh[o].pid, sh[o].i + 1)
      BY <2>1, <3>1, <3>2 DEF Owned, KillLocated
    <3> QED BY <1>10, <3>1, <3>2, <3>3
  <2> QED BY <2>1, KillNext
<1>13. Created'
  <2>1. \A o \in Shells : sh'[o].pc \in Creates => o # s /\ sh'[o] = sh[o] /\ sh[o].pid # p /\ sh[o].pid \in Pids
    BY <1>2, <1>3 DEF Others, Creates, Places, Place, ShellRec
  <2> QED BY <1>1, <1>3, <1>5, <2>1 DEF Owned, Created
<1>14. SeenStays'
  <2>1. Seen(s)' /\ Onwards
    BY <1>1, <1>2 DEF Seen, Onwards
  <2> QED BY <1>1, <1>2, <2>1, SeenStep
<1> QED BY <1>6, <1>7, <1>8, <1>9, <1>11, <1>12, <1>13, <1>14 DEF JobsInv, Owned

LEMMA ListClearStep ==
  ASSUME JobsInv, NEW s \in Shells, Jobs!ListClear(s)
  PROVE  JobsInv'
<1> USE JobFacts
<1>1. /\ sh[s].pc = "listClear" /\ shell' = shell /\ proc' = proc /\ handle' = handle /\ number' = number
  BY DEF Jobs!ListClear
<1>2. CASE Jobs!UnlockFileEx(s) /\ Jobs!Goto(s, "over") /\ file' = file
  <2>1. Becomes(s, "over")
    BY <1>2, GotoBecomes DEF Pcs
  <2>2. sh'[s].pc = "over" /\ Others(s) /\ sh' \in [Shells -> ShellRec]
    BY <2>1 DEF Becomes
  <2>3. LocksRight'
    <3>1. LockOf(s)' = Jobs!Unlocked
      BY <2>2 DEF LockOf, Adding, Listing
    <3> QED BY <1>1, <1>2, <2>2, <3>1, LocksSet DEF Jobs!UnlockFileEx
  <2>4. Place(s)' /\ Seen(s)' /\ ~ListsLocked(s)' /\ sh'[s].pc \notin Adding /\ sh'[s].pc \notin Creates
    BY <2>2 DEF Place, Seen, ListsLocked, Listing, Adding, Creates
  <2> QED BY <1>1, <1>2, <2>2, <2>3, <2>4, NothingOnwards, QuietStep
<1>3. CASE file' = [file EXCEPT ![sh[s].i] = 0] /\ Jobs!Goto(s, "listRead") /\ locks' = locks
  <2>1. Becomes(s, "listRead")
    BY <1>3, GotoBecomes DEF Pcs
  <2>2. /\ sh'[s].pc = "listRead" /\ sh'[s].size = sh[s].size /\ Others(s) /\ sh' \in [Shells -> ShellRec]
    BY <2>1 DEF Becomes
  <2>3. sh[s].i \in 1..Len(file)
    BY <1>1 DEF Place
  <2>4. /\ file' \in Seq(Pids \cup {0}) /\ Len(file') = Len(file)
        /\ \A j \in 1..Len(file) : file'[j] = 0 \/ file'[j] = file[j]
    BY <1>3, <2>3, ExceptSeq
  <2>5. JobTypes'
    BY <1>1, <2>2, <2>4 DEF JobTypes
  <2>6. Places'
    <3>1. Place(s)'
      BY <2>2 DEF Place, Adding, Creates
    <3> QED BY <2>2, <2>4, <3>1, PlacesStep
  <2>7. LocksRight'
    <3>1. LockOf(s)' = LockOf(s)
      BY <1>1, <2>2 DEF LockOf, Adding, Listing, Jobs!ListRegion
    <3> QED BY <1>1, <1>3, <2>2, <3>1, LocksStay
  <2>8. AddsAlone'
    <3>1. (ListsLocked(s)' => ListsLocked(s)) /\ sh'[s].pc \notin Adding
      BY <1>1, <2>2 DEF ListsLocked, Listing, Adding
    <3> QED BY <1>1, <2>2, <3>1, AddsAloneStep
  <2>9. ASSUME NEW q \in Pids, NEW j, Located(q, j)
        PROVE  LocatedNext(q, j)
    <3>1. \A o \in Shells : sh'[o].pc \in Creates => sh'[o] = sh[o]
      BY <2>2 DEF Others, Creates
    <3> QED BY <1>1, <2>9, <3>1 DEF Located, LocatedNext
  <2>10. FileLocated'
    <3>1. \A j \in 1..Len(file) : file[j] # 0 => file[j] \in Pids /\ Located(file[j], j)
      BY DEF Owned, FileLocated
    <3>2. \A j \in 1..Len(file') : file'[j] # 0 => LocatedNext(file'[j], j)
      BY <2>4, <2>9, <3>1
    <3> QED BY <3>2, FileNext
  <2>11. KillLocated'
    <3>1. \A o \in Shells : sh'[o].pc = "terminate" /\ sh'[o].i < sh'[o].size =>
            sh'[o].pid \in Pids /\ Located(sh'[o].pid, sh'[o].i + 1)
      <4>1. \A o \in Shells : sh'[o].pc = "terminate" => sh'[o] = sh[o] /\ sh[o].pid \in Pids
        BY <2>2 DEF Others, Places, Place, ShellRec
      <4> QED BY <4>1 DEF Owned, KillLocated
    <3> QED BY <2>9, <3>1, KillNext
  <2>12. Created'
    <3>1. \A o \in Shells : sh'[o].pc \in Creates => sh'[o] = sh[o]
      BY <2>2 DEF Others, Creates
    <3> QED BY <1>1, <3>1 DEF Owned, Created
  <2>13. SeenStays'
    <3> SUFFICES ASSUME NEW o \in Shells
                 PROVE  Seen(o)'
      BY DEF SeenStays
    <3>1. CASE o = s
      BY <2>2, <3>1 DEF Seen
    <3>2. CASE o # s
      <4>1. sh'[o] = sh[o] /\ Seen(o) /\ (ListsLocked(o)' <=> ListsLocked(o)) /\ Place(o)
        BY <1>1, <2>2, <3>2 DEF Others, SeenStays, ListsLocked, Places
      <4>2. sh[o].i \in Nat
        BY DEF ShellRec
      <4>3. sh[o].i < Len(file) => sh[o].i + 1 \in 1..Len(file)
        BY <4>2
      <4> QED BY <1>1, <2>4, <4>1, <4>2, <4>3 DEF Seen, Place
    <3> QED BY <3>1, <3>2
  <2> QED BY <2>5, <2>6, <2>7, <2>8, <2>10, <2>11, <2>12, <2>13 DEF JobsInv, Owned
<1> QED BY <1>2, <1>3 DEF Jobs!ListClear

LEMMA JobsInvStep ==
  ASSUME JobsInv, Jobs!Next
  PROVE  JobsInv'
<1>1. CASE \E p \in Pids : Jobs!Ends(p)
  BY <1>1, EndsStep
<1>2. ASSUME NEW s \in Shells, Jobs!Shell(s) \/ Jobs!Command(s) \/ Jobs!Quit(s)
      PROVE  JobsInv'
  <2>1. CASE Jobs!GetJobNumber(s)
    BY <2>1, AddLockStep, AddReadStep, AddWriteStep DEF Jobs!GetJobNumber
  <2>2. CASE Jobs!Resume(s) \/ Jobs!Close(s)
    BY <2>2, ResumeStep, CloseStep
  <2>3. CASE Jobs!DisplayJobs(s)
    BY <2>3, ListLockStep, ListReadStep, ListClearStep DEF Jobs!DisplayJobs
  <2>4. CASE Jobs!KillJob(s)
    BY <2>4, FindLockStep, FindReadStep, CommandStep DEF Jobs!KillJob
  <2>5. CASE Jobs!Command(s) \/ Jobs!Quit(s)
    BY <2>5, JobbgStep, AssignFailsStep, CommandStep DEF Jobs!Command
  <2> QED BY <1>2, <2>1, <2>2, <2>3, <2>4, <2>5 DEF Jobs!Shell
<1> QED BY <1>1, <1>2 DEF Jobs!Next


LEMMA JobsInit ==
  ASSUME NEW p, Jobs!InitOf(p, <<>>)
  PROVE  JobsInv
<1>1. /\ file = <<>> /\ locks = [s \in Shells |-> Jobs!Unlocked] /\ proc = [q \in Pids |-> "free"]
      /\ handle = {} /\ number = [q \in Pids |-> 0]
  BY DEF Jobs!InitOf
<1>2. /\ sh \in [Shells -> ShellRec]
      /\ \A s \in Shells : sh[s].pc \in {"prompt", "over"}
  <2> DEFINE to == IF p = "none" THEN "over" ELSE "prompt"
  <2>1. sh = [s \in Shells |-> [Jobs!Prompt EXCEPT !.pc = to]] /\ to \in {"prompt", "over"}
    BY DEF Jobs!InitOf
  <2> HIDE DEF to
  <2>2. [Jobs!Prompt EXCEPT !.pc = to] \in ShellRec /\ [Jobs!Prompt EXCEPT !.pc = to].pc = to
    BY <2>1, ProcessesAssumption DEF Jobs!Prompt, ShellRec, Pcs, Jobs!JobTableAssumption
  <2> QED BY <2>1, <2>2
<1>3. JobTypes
  <2>1. file \in Seq(Pids \cup {0}) /\ Len(file) = 0
    BY <1>1
  <2>2. number \in [Pids -> 0..MAX_JOBS_ALLOWED] /\ 0 <= MAX_JOBS_ALLOWED
    BY <1>1, ProcessesAssumption DEF Jobs!JobTableAssumption
  <2> QED BY <1>1, <1>2, <2>1, <2>2 DEF JobTypes
<1>4. Places /\ AddsAlone /\ SeenStays
  BY <1>2 DEF Places, Place, AddsAlone, SeenStays, Seen, Adding, Creates
<1>5. LocksRight
  BY <1>1, <1>2 DEF LocksRight, LockOf, Adding, Listing
<1>6. Owned
  BY <1>1, <1>2 DEF Owned, FileLocated, KillLocated, Created, Creates
<1> QED BY <1>3, <1>4, <1>5, <1>6 DEF JobsInv

LEMMA JobsRight ==
  ASSUME JobsInv
  PROVE  Jobs!TypeOK /\ Jobs!KillHitsNumber
<1>1. Jobs!KillHitsNumber
  BY DEF JobsInv, Owned, KillLocated, Located, Jobs!KillHitsNumber
<1>2. ASSUME NEW s \in Shells
      PROVE  /\ sh[s].size \in Nat /\ sh[s].i \in 0..MAX_JOBS_ALLOWED
             /\ sh[s].pc \in {"addRead", "addWrite", "listRead", "listClear", "findRead"} <=> locks[s].held
  <2>1. locks[s] = LockOf(s)
    BY JobFacts
  <2>2. CASE sh[s].pc \in Adding
    <3>1. locks[s].held = TRUE
      BY <2>1, <2>2 DEF LockOf, Jobs!AddRegion, Jobs!Region
    <3> QED BY <2>2, <3>1, JobFacts DEF Adding
  <2>3. CASE sh[s].pc \in Listing
    <3>1. locks[s].held = TRUE
      BY <2>1, <2>3 DEF LockOf, Jobs!ListRegion, Jobs!Region, Adding, Listing
    <3> QED BY <2>3, <3>1, JobFacts DEF Listing
  <2>4. CASE sh[s].pc = "findRead"
    <3>1. locks[s].held = TRUE
      BY <2>1, <2>4 DEF LockOf, Jobs!Region, Adding, Listing
    <3> QED BY <2>4, <3>1, JobFacts
  <2>5. CASE sh[s].pc \notin Adding /\ sh[s].pc \notin Listing /\ sh[s].pc # "findRead"
    <3>0. LockOf(s) = Jobs!Unlocked
      BY <2>5 DEF LockOf
    <3>1. locks[s].held = FALSE
      BY <2>1, <3>0 DEF Jobs!Unlocked
    <3> QED BY <2>5, <3>1, JobFacts DEF Adding, Listing
  <2> QED BY <2>2, <2>3, <2>4, <2>5
<1> QED BY <1>1, <1>2 DEF JobsInv, JobTypes, Jobs!TypeOK

LEMMA ActiveKept ==
  ASSUME JobsInv, Jobs!Next, NEW j \in 1..Len(file), file'[j] # file[j], file[j] # 0, file'[j] # 0
  PROVE  ~Jobs!Active(file[j])
<1>1. PICK s \in Shells : Jobs!AddWrite(s) \/ Jobs!ListClear(s)
  BY DEF Jobs!Next, Jobs!Shell, Jobs!Command, Jobs!Quit, Jobs!Ends, Jobs!GetJobNumber, Jobs!DisplayJobs,
         Jobs!KillJob, Jobs!AddLock, Jobs!AddRead, Jobs!Resume, Jobs!Close, Jobs!ListLock, Jobs!ListRead,
         Jobs!FindLock, Jobs!FindRead, Jobs!Terminate, Jobs!Jobbg, Jobs!AssignFails, Jobs!Jobs, Jobs!Kill
<1> USE JobFacts
<1>2. CASE Jobs!ListClear(s)
  <2>1. file' = file \/ file' = [file EXCEPT ![sh[s].i] = 0]
    BY <1>2 DEF Jobs!ListClear
  <2> QED BY <2>1
<1>3. CASE Jobs!AddWrite(s)
  <2>1. sh[s].pc = "addWrite" /\ (file' = file \/ file' = Jobs!Written(sh[s].i, sh[s].pid))
    BY <1>3 DEF Jobs!AddWrite
  <2>2. j = sh[s].i + 1
    <3>1. file' = Jobs!Written(sh[s].i, sh[s].pid) /\ sh[s].i \in Nat /\ file \in Seq(Pids \cup {0})
      BY <2>1
    <3>2. CASE sh[s].i < Len(file)
      <4>1. file' = [file EXCEPT ![sh[s].i + 1] = sh[s].pid]
        BY <3>1, <3>2 DEF Jobs!Written
      <4> QED BY <3>1, <4>1
    <3>3. CASE ~(sh[s].i < Len(file))
      <4>1. file' = Append(file, sh[s].pid)
        BY <3>1, <3>3 DEF Jobs!Written
      <4> QED BY <3>1, <4>1, AppendProperties
    <3> QED BY <3>2, <3>3
  <2>3. sh[s].i < Len(file)
    BY <2>2
  <2> QED BY <2>1, <2>2, <2>3 DEF Seen, Jobs!Active
<1> QED BY <1>1, <1>2, <1>3

LEMMA SecureRemoves ==
  ASSUME JobsInv, shell = "JobShell_secure", NEW s \in Shells, Jobs!Removes(s), sh[s].size > 0
  PROVE  file[sh[s].i] = 0 \/ ~Jobs!Exists(file[sh[s].i])
BY JobFacts DEF Jobs!Removes, Seen, ListsLocked, Listing, Jobs!Exists, Jobs!Active

LEMMA JobsActions ==
  ASSUME JobsInv, [Jobs!Next]_(Jobs!vars)
  PROVE  /\ [\A i \in 1..Len(file) : file'[i] # file[i] /\ file[i] # 0 /\ file'[i] # 0 =>
               ~Jobs!Active(file[i])]_(Jobs!vars)
         /\ [shell = "JobShell_secure" =>
               \A s \in Shells : Jobs!Removes(s) /\ sh[s].size > 0 =>
                 file[sh[s].i] = 0 \/ ~Jobs!Exists(file[sh[s].i])]_(Jobs!vars)
         /\ JobsInv'
<1>1. CASE Jobs!Next
  BY <1>1, ActiveKept, SecureRemoves, JobsInvStep
<1>2. CASE UNCHANGED Jobs!vars
  <2>1. JobsInv'
    <3>1. /\ shell' = shell /\ file' = file /\ locks' = locks /\ proc' = proc /\ handle' = handle
          /\ number' = number /\ sh' = sh
      BY <1>2 DEF Jobs!vars
    <3>2. Onwards
      BY <3>1 DEF Onwards
    <3> QED BY <3>1, <3>2, NothingOnwards, ProcStep
  <2> QED BY <1>2, <2>1
<1> QED BY <1>1, <1>2

-----------------------------------------------------------------------------
(* The stream server.                                                      *)

\* The thread of a slot; its handle is stored after it has been created.
Owner(i) == IF acc.pc = "store" /\ acc.slot = i THEN acc.client ELSE srvSlot[i].handle
SlotRec == [status : 0..3, handle : StreamClients \cup {Srvr!NoThread}]
AcceptRec ==
  [pc : {"none", "accept", "status", "create", "store"}, slot : Srvr!Slots,
   client : StreamClients \cup {Srvr!NoThread}]
ThreadPcs == {"none", "test", "receive", "execute", "status", "shut", "flag", "ended"}

StreamTypes ==
  /\ srvSlot \in [Srvr!Slots -> SlotRec]
  /\ srvMain \in {"poll", "await", "close", "wait", "ended"} /\ iSrvThread \in Srvr!Slots
  /\ acc \in AcceptRec /\ ShutFlag \in BOOLEAN
  /\ srvTh \in [StreamClients -> ThreadPcs] /\ at \in [StreamClients -> Srvr!Slots]
  /\ srvClient \in [StreamClients -> {"start", "backlog", "connected", "gone"}]
Served(c) == srvClient[c] \in {"connected", "gone"}
StreamConnected ==
  /\ \A c \in StreamClients : srvTh[c] # "none" => Served(c)
  /\ acc.pc \in {"status", "create", "store"} => acc.client \in StreamClients /\ Served(acc.client)
  /\ srvMain = "poll" => acc.pc = "none"

\* A slot whose thread lives says what the thread is doing.
StatusOf(c) == IF srvTh[c] = "shut" THEN Srvr!Stopped ELSE IF srvTh[c] = "flag" THEN Srvr!StopAll ELSE Srvr!Running
ThreadsOwn == \A c \in StreamClients : Srvr!Lives(c) => Owner(at[c]) = c /\ srvSlot[at[c]].status = StatusOf(c)
HasStopped(c, i) == c \in StreamClients /\ at[c] = i /\ srvTh[c] \in {"shut", "flag", "ended"}
StoppedOwned ==
  \A i \in Srvr!Slots : srvSlot[i].status \in {Srvr!Stopped, Srvr!StopAll} => HasStopped(Owner(i), i)
Accepting ==
  /\ acc.pc \in {"accept", "status", "create"} => \A c \in StreamClients : Srvr!Lives(c) => at[c] # acc.slot
  /\ acc.pc \in {"status", "create"} => srvTh[acc.client] = "none"
  /\ acc.pc = "create" => srvSlot[acc.slot].status = Srvr!Running
BeforeShut ==
  ~ShutFlag => srvMain \in {"poll", "await", "ended"} /\ (srvMain # "ended" => listening)
               /\ ThreadsOwn /\ StoppedOwned /\ Accepting
StreamInv == StreamTypes /\ StreamConnected /\ BeforeShut

LEMMA StreamInit ==
  ASSUME NEW b \in BOOLEAN, Srvr!InitOf(b)
  PROVE  StreamInv
<1>1. 0 \in Srvr!Slots
  BY ProcessesAssumption DEF Srvr!Slots, Srvr!StreamAssumption
<1>2. /\ srvSlot = [i \in Srvr!Slots |-> [status |-> 0, handle |-> 0]]
      /\ srvMain = (IF b THEN "poll" ELSE "ended") /\ iSrvThread = 0
      /\ acc = [pc |-> "none", slot |-> 0, client |-> 0] /\ listening = b /\ ShutFlag = FALSE
      /\ srvTh = [c \in StreamClients |-> "none"] /\ at = [c \in StreamClients |-> 0]
      /\ srvClient = [c \in StreamClients |-> "start"]
  BY DEF Srvr!InitOf, Srvr!NoThread, Srvr!Free
<1>3. StreamTypes
  <2>1. srvSlot \in [Srvr!Slots -> SlotRec] /\ acc \in AcceptRec
    BY <1>1, <1>2 DEF SlotRec, AcceptRec, Srvr!NoThread
  <2>2. srvMain \in {"poll", "ended"} /\ iSrvThread \in Srvr!Slots /\ ShutFlag \in BOOLEAN
    BY <1>1, <1>2
  <2>3. /\ srvTh \in [StreamClients -> ThreadPcs] /\ at \in [StreamClients -> Srvr!Slots]
        /\ srvClient \in [StreamClients -> {"start", "backlog", "connected", "gone"}]
    BY <1>1, <1>2 DEF ThreadPcs
  <2> QED BY <2>1, <2>2, <2>3 DEF StreamTypes
<1>4. StreamConnected
  BY <1>2 DEF StreamConnected
<1>5. ThreadsOwn /\ StoppedOwned /\ Accepting
  BY <1>2 DEF ThreadsOwn, StoppedOwned, Accepting, Srvr!Lives, Srvr!Stopped, Srvr!StopAll
<1> QED BY <1>2, <1>3, <1>4, <1>5 DEF StreamInv, BeforeShut

LEMMA StreamNextSlot ==
  ASSUME NEW i \in Srvr!Slots
  PROVE  /\ (i + 1) % StreamSlots \in Srvr!Slots /\ 0 \in Srvr!Slots
         /\ i < StreamSlots - 1 => i + 1 \in Srvr!Slots
BY ProcessesAssumption DEF Srvr!Slots, Srvr!StreamAssumption

\* Steps that leave the slots, the threads and the accept thread alone.
LEMMA StreamQuiet ==
  ASSUME StreamInv, srvSlot' = srvSlot, acc' = acc, srvTh' = srvTh, at' = at,
         srvMain' \in {"poll", "await", "close", "wait", "ended"}, iSrvThread' \in Srvr!Slots,
         srvClient' \in [StreamClients -> {"start", "backlog", "connected", "gone"}],
         \A c \in StreamClients : Served(c) => Served(c)',
         ShutFlag' \in BOOLEAN, ShutFlag => ShutFlag',
         srvMain' = "poll" => acc.pc = "none",
         ~ShutFlag' => srvMain' \in {"poll", "await", "ended"} /\ (srvMain' # "ended" => listening')
  PROVE  StreamInv'
<1>1. StreamTypes'
  BY DEF StreamInv, StreamTypes
<1>2. StreamConnected'
  BY DEF StreamInv, StreamConnected
<1>3. ThreadsOwn /\ StoppedOwned /\ Accepting => (ThreadsOwn /\ StoppedOwned /\ Accepting)'
  BY DEF ThreadsOwn, StoppedOwned, Accepting, Srvr!Lives, Owner, StatusOf, HasStopped
<1> QED BY <1>1, <1>2, <1>3 DEF StreamInv, BeforeShut

LEMMA MainStep ==
  ASSUME StreamInv, Srvr!Await \/ Srvr!Leave \/ Srvr!Close \/ Srvr!WaitSlot \/ Srvr!Handler
  PROVE  StreamInv'
<1>1. /\ srvSlot' = srvSlot /\ acc' = acc /\ srvTh' = srvTh /\ at' = at /\ srvClient' = srvClient
      /\ ShutFlag' = ShutFlag \/ ShutFlag' = TRUE
  BY DEF Srvr!Await, Srvr!Leave, Srvr!Close, Srvr!WaitSlot, Srvr!Handler
<1>2. srvMain' \in {"poll", "await", "close", "wait", "ended"}
  BY DEF Srvr!Await, Srvr!Leave, Srvr!Close, Srvr!WaitSlot, Srvr!Handler, StreamInv, StreamTypes
<1>3. iSrvThread' \in Srvr!Slots
  <2>1. iSrvThread \in Srvr!Slots
    BY DEF StreamInv, StreamTypes
  <2> QED BY <2>1, StreamNextSlot DEF Srvr!Await, Srvr!Leave, Srvr!Close, Srvr!WaitSlot, Srvr!Handler
<1>4. srvMain' = "poll" => acc.pc = "none"
  BY DEF Srvr!Await, Srvr!Leave, Srvr!Close, Srvr!WaitSlot, Srvr!Handler, Srvr!AwaitsConnection,
         StreamInv, StreamConnected
<1>5. ~ShutFlag' => srvMain' \in {"poll", "await", "ended"} /\ (srvMain' # "ended" => listening')
  BY DEF Srvr!Await, Srvr!Leave, Srvr!Close, Srvr!WaitSlot, Srvr!Handler, StreamInv, BeforeShut
<1>6. ShutFlag \in BOOLEAN /\ srvClient \in [StreamClients -> {"start", "backlog", "connected", "gone"}]
  BY DEF StreamInv, StreamTypes
<1>7. \A c \in StreamClients : Served(c) => Served(c)'
  BY <1>1 DEF Served
<1> QED BY <1>1, <1>2, <1>3, <1>4, <1>5, <1>6, <1>7, StreamQuiet

LEMMA ClientStep ==
  ASSUME StreamInv, NEW c \in StreamClients, Srvr!Client(c)
  PROVE  StreamInv'
<1>1. /\ srvSlot' = srvSlot /\ acc' = acc /\ srvTh' = srvTh /\ at' = at /\ ShutFlag' = ShutFlag /\ srvMain' = srvMain
      /\ iSrvThread' = iSrvThread /\ listening' = listening
  BY DEF Srvr!Client, Srvr!Connect, Srvr!Killed
<1>2. \/ srvClient[c] = "start" /\ srvClient' = [srvClient EXCEPT ![c] = "backlog"]
      \/ srvClient[c] = "connected" /\ srvClient' = [srvClient EXCEPT ![c] = "gone"]
  BY DEF Srvr!Client, Srvr!Connect, Srvr!Killed
<1>3. srvClient \in [StreamClients -> {"start", "backlog", "connected", "gone"}]
  BY DEF StreamInv, StreamTypes
<1>4. /\ srvClient' \in [StreamClients -> {"start", "backlog", "connected", "gone"}]
      /\ \A d \in StreamClients : Served(d) => Served(d)'
  BY <1>2, <1>3 DEF Served
<1>5. /\ srvMain \in {"poll", "await", "close", "wait", "ended"} /\ iSrvThread \in Srvr!Slots /\ ShutFlag \in BOOLEAN
      /\ (srvMain = "poll" => acc.pc = "none")
      /\ (~ShutFlag => srvMain \in {"poll", "await", "ended"} /\ (srvMain # "ended" => listening))
  BY DEF StreamInv, StreamTypes, StreamConnected, BeforeShut
<1> QED BY <1>1, <1>4, <1>5, StreamQuiet

\* A step that sets the status of one slot.
LEMMA StatusSet ==
  ASSUME srvSlot \in [Srvr!Slots -> SlotRec], NEW i \in Srvr!Slots, NEW v \in 0..3,
         srvSlot' = [srvSlot EXCEPT ![i].status = v]
  PROVE  /\ srvSlot' \in [Srvr!Slots -> SlotRec]
         /\ \A j \in Srvr!Slots : srvSlot'[j].handle = srvSlot[j].handle
         /\ \A j \in Srvr!Slots : srvSlot'[j].status = IF j = i THEN v ELSE srvSlot[j].status
<1>1. [srvSlot[i] EXCEPT !.status = v] \in SlotRec
  BY DEF SlotRec
<1>2. srvSlot' = [srvSlot EXCEPT ![i] = [srvSlot[i] EXCEPT !.status = v]]
  OBVIOUS
<1>3. srvSlot' \in [Srvr!Slots -> SlotRec]
  BY <1>1, <1>2
<1> QED BY <1>3 DEF SlotRec

\* The slot that is polled becomes free when its thread has ended, which is why
\* a thread never has to share the slot that the accept thread is given.
LEMMA PollStep ==
  ASSUME StreamInv, Srvr!Poll
  PROVE  StreamInv'
<1> DEFINE s == srvSlot[iSrvThread]
<1>0. /\ srvSlot \in [Srvr!Slots -> SlotRec] /\ acc \in AcceptRec /\ iSrvThread \in Srvr!Slots /\ s \in SlotRec
      /\ srvTh \in [StreamClients -> ThreadPcs] /\ at \in [StreamClients -> Srvr!Slots]
      /\ srvMain = "poll" /\ acc.pc = "none" /\ ShutFlag \in BOOLEAN
  BY DEF StreamInv, StreamTypes, StreamConnected, Srvr!Poll
<1>1. /\ listening' = listening /\ srvTh' = srvTh /\ at' = at /\ srvClient' = srvClient
      /\ ShutFlag => srvSlot' = srvSlot /\ ShutFlag' = ShutFlag
      /\ ~ShutFlag => ShutFlag' = (s.status = Srvr!StopAll)
      /\ ~ShutFlag => srvSlot' = IF s.status = Srvr!Stopped THEN [srvSlot EXCEPT ![iSrvThread].status = Srvr!Free] ELSE srvSlot
      /\ ~ShutFlag /\ s.status = Srvr!Stopped => Srvr!Handled(s.handle)
  BY <1>0 DEF Srvr!Poll
<1>2. \/ /\ srvMain' = "await" /\ acc' = [acc EXCEPT !.pc = "accept", !.slot = iSrvThread] /\ iSrvThread' = iSrvThread
         /\ srvSlot'[iSrvThread].status = Srvr!Free \/ ShutFlag \/ ShutFlag'
      \/ srvMain' = srvMain /\ acc' = acc /\ iSrvThread' = (iSrvThread + 1) % StreamSlots
  BY <1>1 DEF Srvr!Poll
<1>3. srvSlot' \in [Srvr!Slots -> SlotRec]
  <2>1. [s EXCEPT !.status = Srvr!Free] \in SlotRec
    BY <1>0 DEF SlotRec, Srvr!Free
  <2>2. srvSlot' = srvSlot \/ srvSlot' = [srvSlot EXCEPT ![iSrvThread] = [s EXCEPT !.status = Srvr!Free]]
    BY <1>1, <1>0
  <2> HIDE DEF s
  <2> QED BY <1>0, <2>1, <2>2
<1>4. acc' \in AcceptRec /\ iSrvThread' \in Srvr!Slots /\ srvMain' \in {"poll", "await"} /\ ShutFlag' \in BOOLEAN
  <2>1. [acc EXCEPT !.pc = "accept", !.slot = iSrvThread] \in AcceptRec
    BY <1>0 DEF AcceptRec
  <2>2. ShutFlag' \in BOOLEAN
    BY <1>0, <1>1
  <2> QED BY <1>0, <1>2, <2>1, <2>2, StreamNextSlot
<1>5. StreamTypes'
  BY <1>1, <1>3, <1>4 DEF StreamInv, StreamTypes
<1>6. StreamConnected'
  <2>1. acc'.pc \in {"none", "accept"} /\ (srvMain' = "poll" => acc'.pc = "none")
    BY <1>0, <1>2 DEF AcceptRec
  <2> QED BY <1>1, <2>1 DEF StreamInv, StreamConnected, Served
<1>7. ASSUME ~ShutFlag'
      PROVE  srvMain' \in {"poll", "await", "ended"} /\ listening' /\ ThreadsOwn' /\ StoppedOwned' /\ Accepting'
  <2>1. ~ShutFlag /\ listening /\ ThreadsOwn /\ StoppedOwned
    BY <1>0, <1>1, <1>7 DEF StreamInv, BeforeShut
  <2>2. \A i \in Srvr!Slots : Owner(i) = srvSlot[i].handle
    BY <1>0 DEF Owner
  <2>3. s.status = Srvr!Stopped => \A c \in StreamClients : Srvr!Lives(c) => at[c] # iSrvThread
    <3> SUFFICES ASSUME s.status = Srvr!Stopped, NEW c \in StreamClients, Srvr!Lives(c), at[c] = iSrvThread
                 PROVE  FALSE
      OBVIOUS
    <3>1. s.handle = c
      BY <1>0, <2>1, <2>2 DEF ThreadsOwn
    <3>2. c # Srvr!NoThread
      BY ProcessesAssumption DEF Srvr!StreamAssumption, Srvr!NoThread
    <3> QED BY <1>1, <2>1, <3>1, <3>2 DEF Srvr!Handled
  <2>4. /\ \A i \in Srvr!Slots : srvSlot'[i].handle = srvSlot[i].handle
        /\ \A i \in Srvr!Slots : srvSlot'[i].status = IF i = iSrvThread /\ s.status = Srvr!Stopped
                                                  THEN Srvr!Free ELSE srvSlot[i].status
    <3>1. CASE s.status = Srvr!Stopped
      <4>1. srvSlot' = [srvSlot EXCEPT ![iSrvThread].status = Srvr!Free] /\ Srvr!Free \in 0..3
        BY <1>1, <2>1, <3>1 DEF Srvr!Free
      <4> HIDE DEF s
      <4> QED BY <1>0, <3>1, <4>1, StatusSet
    <3>2. CASE s.status # Srvr!Stopped
      BY <1>1, <2>1, <3>2
    <3> QED BY <3>1, <3>2
  <2>5. acc'.pc # "store" /\ acc'.pc \in {"none", "accept"} /\ (acc'.pc = "accept" => acc'.slot = iSrvThread)
    BY <1>0, <1>2 DEF AcceptRec
  <2>6. \A i \in Srvr!Slots : Owner(i)' = Owner(i)
    BY <2>2, <2>4, <2>5 DEF Owner
  <2>7. ThreadsOwn'
    <3> SUFFICES ASSUME NEW c \in StreamClients, Srvr!Lives(c)
                 PROVE  Owner(at[c])' = c /\ srvSlot'[at[c]].status = StatusOf(c)
      BY <1>1 DEF ThreadsOwn, Srvr!Lives, StatusOf
    <3> HIDE DEF s
    <3>1. at[c] \in Srvr!Slots /\ Owner(at[c]) = c /\ srvSlot[at[c]].status = StatusOf(c)
      BY <1>0, <2>1 DEF ThreadsOwn
    <3>2. srvSlot'[at[c]].status = srvSlot[at[c]].status
      BY <2>3, <2>4, <3>1
    <3>3. Owner(at[c])' = Owner(at[c])
      BY <1>1, <2>2, <2>4, <2>5, <3>1 DEF Owner
    <3> QED BY <3>1, <3>2, <3>3
  <2>8. StoppedOwned'
    <3> SUFFICES ASSUME NEW i \in Srvr!Slots, srvSlot'[i].status \in {Srvr!Stopped, Srvr!StopAll}
                 PROVE  HasStopped(Owner(i), i)'
      BY DEF StoppedOwned
    <3>1. srvSlot'[i].status = srvSlot[i].status
      BY <2>4 DEF Srvr!Free, Srvr!Stopped, Srvr!StopAll
    <3>2. HasStopped(Owner(i), i)
      BY <2>1, <3>1 DEF StoppedOwned
    <3> QED BY <1>1, <2>6, <3>2 DEF HasStopped
  <2>9. Accepting'
    <3>1. acc'.pc = "accept" => \A c \in StreamClients : Srvr!Lives(c) => at[c] # iSrvThread
      <4> SUFFICES ASSUME acc'.pc = "accept", NEW c \in StreamClients, Srvr!Lives(c), at[c] = iSrvThread
                   PROVE  FALSE
        OBVIOUS
      <4>1. srvSlot'[iSrvThread].status = Srvr!Free
        BY <1>0, <1>2, <1>7, <2>1
      <4>2. srvSlot[iSrvThread].status = StatusOf(c)
        BY <2>1 DEF ThreadsOwn
      <4>3. srvSlot[iSrvThread].status # Srvr!Free
        BY <4>2 DEF StatusOf, Srvr!Free, Srvr!Stopped, Srvr!StopAll, Srvr!Running
      <4> QED BY <1>0, <2>3, <2>4, <4>1, <4>3
    <3> QED BY <1>1, <2>5, <3>1 DEF Accepting, Srvr!Lives
  <2> QED BY <1>1, <1>4, <2>1, <2>7, <2>8, <2>9
<1> QED BY <1>5, <1>6, <1>7 DEF StreamInv, BeforeShut

\* The accept thread.
LEMMA StreamFacts ==
  ASSUME StreamInv
  PROVE  /\ srvSlot \in [Srvr!Slots -> SlotRec] /\ acc \in AcceptRec /\ acc.slot \in Srvr!Slots
         /\ \A i \in Srvr!Slots : srvSlot[i] \in SlotRec
         /\ srvTh \in [StreamClients -> ThreadPcs] /\ at \in [StreamClients -> Srvr!Slots]
         /\ srvClient \in [StreamClients -> {"start", "backlog", "connected", "gone"}]
         /\ srvMain \in {"poll", "await", "close", "wait", "ended"} /\ iSrvThread \in Srvr!Slots
         /\ ShutFlag \in BOOLEAN /\ 0 \notin StreamClients
BY ProcessesAssumption DEF StreamInv, StreamTypes, AcceptRec, Srvr!StreamAssumption

LEMMA AcceptStep ==
  ASSUME StreamInv, Srvr!Accept
  PROVE  StreamInv'
<1> USE StreamFacts
<1>1. /\ acc.pc = "accept" /\ srvMain # "ended" /\ srvSlot' = srvSlot /\ iSrvThread' = iSrvThread /\ listening' = listening
      /\ ShutFlag' = ShutFlag /\ srvTh' = srvTh /\ at' = at
  BY DEF Srvr!Accept, Srvr!Up
<1>2. CASE ~listening /\ srvMain' = "ended" /\ srvClient' = srvClient /\ acc' = acc
  <2>1. ShutFlag
    BY <1>1, <1>2 DEF StreamInv, BeforeShut
  <2>2. \A c \in StreamClients : Served(c) => Served(c)'
    BY <1>2 DEF Served
  <2> QED BY <1>1, <1>2, <2>1, <2>2, StreamQuiet
<1>3. ASSUME NEW c \in StreamClients, srvClient[c] = "backlog", srvClient' = [srvClient EXCEPT ![c] = "connected"],
             acc' = [acc EXCEPT !.pc = "status", !.client = c], srvMain' = srvMain
      PROVE  StreamInv'
  <2>1. acc' \in AcceptRec /\ acc'.pc = "status" /\ acc'.client = c /\ acc'.slot = acc.slot
    BY <1>3 DEF AcceptRec
  <2>2. /\ srvClient' \in [StreamClients -> {"start", "backlog", "connected", "gone"}]
        /\ \A d \in StreamClients : Served(d) => Served(d)'
        /\ Served(c)'
    BY <1>3 DEF Served
  <2>3. StreamTypes'
    BY <1>1, <1>3, <2>1, <2>2 DEF StreamTypes
  <2>4. StreamConnected'
    <3>1. srvMain # "poll"
      BY <1>1 DEF StreamInv, StreamConnected
    <3> QED BY <1>1, <1>3, <2>1, <2>2, <3>1 DEF StreamInv, StreamConnected
  <2>5. srvTh[c] = "none"
    BY <1>3 DEF StreamInv, StreamConnected, Served
  <2>6. ASSUME ~ShutFlag, ThreadsOwn, StoppedOwned, Accepting
        PROVE  (ThreadsOwn /\ StoppedOwned /\ Accepting)'
    <3>1. ThreadsOwn' /\ StoppedOwned'
      BY <1>1, <2>1, <2>6 DEF ThreadsOwn, StoppedOwned, Srvr!Lives, Owner, StatusOf, HasStopped
    <3>2. Accepting'
      BY <1>1, <2>1, <2>5, <2>6 DEF Accepting, Srvr!Lives
    <3> QED BY <3>1, <3>2
  <2> QED BY <1>1, <1>3, <2>3, <2>4, <2>6 DEF StreamInv, BeforeShut
<1> QED BY <1>2, <1>3 DEF Srvr!Accept

LEMMA SetStatusStep ==
  ASSUME StreamInv, Srvr!SetStatus
  PROVE  StreamInv'
<1> USE StreamFacts
<1>1. /\ acc.pc = "status" /\ acc' = [acc EXCEPT !.pc = "create"]
      /\ srvSlot' = [srvSlot EXCEPT ![acc.slot].status = Srvr!Running]
      /\ srvMain' = srvMain /\ iSrvThread' = iSrvThread /\ listening' = listening
      /\ ShutFlag' = ShutFlag /\ srvTh' = srvTh /\ at' = at /\ srvClient' = srvClient
  BY DEF Srvr!SetStatus
<1>2. acc' \in AcceptRec /\ acc'.pc = "create" /\ acc'.client = acc.client /\ acc'.slot = acc.slot
  BY <1>1 DEF AcceptRec
<1>3. /\ srvSlot' \in [Srvr!Slots -> SlotRec]
      /\ \A j \in Srvr!Slots : srvSlot'[j].handle = srvSlot[j].handle
      /\ \A j \in Srvr!Slots : srvSlot'[j].status = IF j = acc.slot THEN Srvr!Running ELSE srvSlot[j].status
  <2>1. Srvr!Running \in 0..3 /\ acc.slot \in Srvr!Slots /\ srvSlot \in [Srvr!Slots -> SlotRec]
    BY DEF Srvr!Running
  <2> HIDE StreamFacts
  <2> QED BY <1>1, <2>1, StatusSet
<1>4. StreamTypes'
  BY <1>1, <1>2, <1>3 DEF StreamTypes
<1>5. StreamConnected'
  <2>1. srvMain # "poll"
    BY <1>1 DEF StreamInv, StreamConnected
  <2> QED BY <1>1, <1>2, <2>1 DEF StreamInv, StreamConnected, Served
<1>6. ASSUME ~ShutFlag, ThreadsOwn, StoppedOwned, Accepting
      PROVE  (ThreadsOwn /\ StoppedOwned /\ Accepting)'
  <2>1. \A c \in StreamClients : Srvr!Lives(c) => at[c] \in Srvr!Slots /\ at[c] # acc.slot
    BY <1>1, <1>6 DEF Accepting
  <2>2. ThreadsOwn'
    BY <1>1, <1>2, <1>3, <1>6, <2>1 DEF ThreadsOwn, Srvr!Lives, Owner, StatusOf
  <2>3. StoppedOwned'
    BY <1>1, <1>2, <1>3, <1>6 DEF StoppedOwned, HasStopped, Owner, Srvr!Running, Srvr!Stopped, Srvr!StopAll
  <2>4. Accepting'
    BY <1>1, <1>2, <1>3, <1>6, <2>1 DEF Accepting, Srvr!Lives
  <2> QED BY <2>2, <2>3, <2>4
<1> QED BY <1>1, <1>4, <1>5, <1>6 DEF StreamInv, BeforeShut

LEMMA CreateStep ==
  ASSUME StreamInv, Srvr!Create
  PROVE  StreamInv'
<1> USE StreamFacts
<1> DEFINE c == acc.client
<1>1. /\ acc.pc = "create" /\ acc' = [acc EXCEPT !.pc = "store"] /\ srvSlot' = srvSlot
      /\ srvTh' = [srvTh EXCEPT ![c] = "test"] /\ at' = [at EXCEPT ![c] = acc.slot]
      /\ srvMain' = srvMain /\ iSrvThread' = iSrvThread /\ listening' = listening
      /\ ShutFlag' = ShutFlag /\ srvClient' = srvClient
  BY DEF Srvr!Create
<1>2. acc' \in AcceptRec /\ acc'.pc = "store" /\ acc'.client = c /\ acc'.slot = acc.slot
  BY <1>1 DEF AcceptRec
<1>3. c \in StreamClients /\ Served(c)
  BY <1>1 DEF StreamInv, StreamConnected
<1> HIDE DEF c
<1>4. /\ srvTh' \in [StreamClients -> ThreadPcs] /\ at' \in [StreamClients -> Srvr!Slots]
      /\ srvTh'[c] = "test" /\ at'[c] = acc.slot
      /\ \A d \in StreamClients : d # c => srvTh'[d] = srvTh[d] /\ at'[d] = at[d]
  BY <1>1, <1>3 DEF ThreadPcs
<1>5. StreamTypes'
  BY <1>1, <1>2, <1>4 DEF StreamTypes
<1>6. StreamConnected'
  <2>1. srvMain # "poll"
    BY <1>1 DEF StreamInv, StreamConnected
  <2> QED BY <1>1, <1>2, <1>3, <1>4, <2>1 DEF StreamInv, StreamConnected, Served
<1>7. ASSUME ~ShutFlag, ThreadsOwn, StoppedOwned, Accepting
      PROVE  (ThreadsOwn /\ StoppedOwned /\ Accepting)'
  <2>1. srvTh[c] = "none" /\ srvSlot[acc.slot].status = Srvr!Running
    BY <1>1, <1>7 DEF Accepting, c
  <2>2. \A i \in Srvr!Slots : Owner(i)' = IF i = acc.slot THEN c ELSE Owner(i)
    BY <1>1, <1>2 DEF Owner
  <2>3. ThreadsOwn'
    <3> SUFFICES ASSUME NEW d \in StreamClients, srvTh'[d] \notin {"none", "ended"}
                 PROVE  Owner(at[d])' = d /\ srvSlot'[at'[d]].status = StatusOf(d)'
      BY DEF ThreadsOwn, Srvr!Lives
    <3>1. CASE d = c
      BY <1>1, <1>2, <1>4, <2>1, <3>1 DEF Owner, StatusOf
    <3>2. CASE d # c
      <4>1. Srvr!Lives(d) /\ at'[d] = at[d] /\ srvTh'[d] = srvTh[d]
        BY <1>4, <3>2 DEF Srvr!Lives
      <4>2. at[d] # acc.slot /\ Owner(at[d]) = d /\ srvSlot[at[d]].status = StatusOf(d)
        BY <1>1, <1>7, <4>1 DEF Accepting, ThreadsOwn
      <4> QED BY <1>1, <1>2, <4>1, <4>2 DEF Owner, StatusOf
    <3> QED BY <3>1, <3>2
  <2>4. StoppedOwned'
    <3> SUFFICES ASSUME NEW i \in Srvr!Slots, srvSlot[i].status \in {Srvr!Stopped, Srvr!StopAll}
                 PROVE  HasStopped(Owner(i), i)'
      BY <1>1 DEF StoppedOwned
    <3>1. i # acc.slot
      BY <2>1 DEF Srvr!Running, Srvr!Stopped, Srvr!StopAll
    <3>2. HasStopped(Owner(i), i) /\ Owner(i)' = Owner(i)
      BY <1>7, <2>2, <3>1 DEF StoppedOwned
    <3>3. Owner(i) # c
      BY <2>1, <3>2 DEF HasStopped
    <3> QED BY <1>4, <3>2, <3>3 DEF HasStopped
  <2>5. Accepting'
    BY <1>2 DEF Accepting
  <2> QED BY <2>3, <2>4, <2>5
<1> QED BY <1>1, <1>5, <1>6, <1>7 DEF StreamInv, BeforeShut

LEMMA StoreStep ==
  ASSUME StreamInv, Srvr!Store
  PROVE  StreamInv'
<1> USE StreamFacts
<1>1. /\ acc.pc = "store" /\ acc' = [acc EXCEPT !.pc = "none", !.client = Srvr!NoThread]
      /\ srvSlot' = [srvSlot EXCEPT ![acc.slot].handle = acc.client]
      /\ srvMain' = srvMain /\ iSrvThread' = iSrvThread /\ listening' = listening
      /\ ShutFlag' = ShutFlag /\ srvTh' = srvTh /\ at' = at /\ srvClient' = srvClient
  BY DEF Srvr!Store
<1>2. acc' \in AcceptRec /\ acc'.pc = "none"
  BY <1>1 DEF AcceptRec
<1>3. acc.client \in StreamClients
  BY <1>1 DEF StreamInv, StreamConnected
<1>4. /\ srvSlot' \in [Srvr!Slots -> SlotRec]
      /\ \A j \in Srvr!Slots : srvSlot'[j].status = srvSlot[j].status
      /\ \A j \in Srvr!Slots : srvSlot'[j].handle = IF j = acc.slot THEN acc.client ELSE srvSlot[j].handle
  <2>1. [srvSlot[acc.slot] EXCEPT !.handle = acc.client] \in SlotRec
    BY <1>3 DEF SlotRec
  <2>2. srvSlot' = [srvSlot EXCEPT ![acc.slot] = [srvSlot[acc.slot] EXCEPT !.handle = acc.client]]
    BY <1>1
  <2>3. srvSlot' \in [Srvr!Slots -> SlotRec]
    BY <2>1, <2>2
  <2> QED BY <1>1, <2>3 DEF SlotRec
<1>5. StreamTypes'
  BY <1>1, <1>2, <1>4 DEF StreamTypes
<1>6. StreamConnected'
  BY <1>1, <1>2 DEF StreamInv, StreamConnected, Served
<1>7. ASSUME ThreadsOwn, StoppedOwned
      PROVE  (ThreadsOwn /\ StoppedOwned /\ Accepting)'
  <2>1. \A i \in Srvr!Slots : Owner(i)' = Owner(i)
    BY <1>1, <1>2, <1>4 DEF Owner
  <2>2. ThreadsOwn'
    BY <1>1, <1>2, <1>4, <1>7 DEF ThreadsOwn, Srvr!Lives, StatusOf, Owner
  <2>3. StoppedOwned'
    BY <1>1, <1>4, <1>7, <2>1 DEF StoppedOwned, HasStopped
  <2>4. Accepting'
    BY <1>2 DEF Accepting
  <2> QED BY <2>2, <2>3, <2>4
<1> QED BY <1>1, <1>5, <1>6, <1>7 DEF StreamInv, BeforeShut

\* The server threads.
LEMMA ThreadQuiet ==
  ASSUME StreamInv, NEW c \in StreamClients, Srvr!Test(c) \/ Srvr!Receive(c) \/ Srvr!Execute(c)
  PROVE  StreamInv'
<1> USE StreamFacts
<1>1. /\ srvSlot' = srvSlot /\ acc' = acc /\ at' = at /\ srvClient' = srvClient /\ srvMain' = srvMain /\ iSrvThread' = iSrvThread
      /\ ShutFlag' = ShutFlag /\ listening' = listening
  BY DEF Srvr!Test, Srvr!Receive, Srvr!Execute
<1>2. srvTh[c] \in {"test", "receive", "execute"}
  BY DEF Srvr!Test, Srvr!Receive, Srvr!Execute
<1>3. PICK to \in {"test", "receive", "execute", "status"} : srvTh' = [srvTh EXCEPT ![c] = to]
  BY DEF Srvr!Test, Srvr!Receive, Srvr!Execute, Srvr!Goto
<1>4. /\ srvTh' \in [StreamClients -> ThreadPcs] /\ srvTh'[c] \in {"test", "receive", "execute", "status"}
      /\ \A d \in StreamClients : d # c => srvTh'[d] = srvTh[d]
  BY <1>3 DEF ThreadPcs
<1>5. \A d \in StreamClients : /\ (Srvr!Lives(d)' <=> Srvr!Lives(d)) /\ StatusOf(d)' = StatusOf(d)
                               /\ (srvTh'[d] = "none" <=> srvTh[d] = "none")
                               /\ (srvTh[d] \in {"shut", "flag", "ended"} => srvTh'[d] = srvTh[d])
  BY <1>2, <1>4 DEF Srvr!Lives, StatusOf
<1>6. StreamTypes'
  BY <1>1, <1>4 DEF StreamTypes
<1>7. StreamConnected'
  BY <1>1, <1>5 DEF StreamInv, StreamConnected, Served
<1>8. ASSUME ThreadsOwn, StoppedOwned, Accepting
      PROVE  (ThreadsOwn /\ StoppedOwned /\ Accepting)'
  <2>1. ThreadsOwn'
    BY <1>1, <1>5, <1>8 DEF ThreadsOwn, Owner
  <2>2. StoppedOwned'
    BY <1>1, <1>5, <1>8 DEF StoppedOwned, HasStopped, Owner
  <2>3. acc.pc \in {"status", "create"} => acc.client \in StreamClients
    BY DEF StreamInv, StreamConnected
  <2>4. Accepting'
    BY <1>1, <1>5, <1>8, <2>3 DEF Accepting
  <2> QED BY <2>1, <2>2, <2>4
<1> QED BY <1>1, <1>6, <1>7, <1>8 DEF StreamInv, BeforeShut

\* A thread stops, and sets the status of its slot.
LEMMA ThreadStop ==
  ASSUME StreamInv, NEW c \in StreamClients, Srvr!Stop(c) \/ Srvr!StopSystem(c)
  PROVE  StreamInv'
<1> USE StreamFacts
<1>1. /\ acc' = acc /\ at' = at /\ srvClient' = srvClient /\ srvMain' = srvMain /\ iSrvThread' = iSrvThread
      /\ listening' = listening
  BY DEF Srvr!Stop, Srvr!StopSystem
<1>2. PICK to \in {"shut", "flag", "ended"} : srvTh' = [srvTh EXCEPT ![c] = to]
  BY DEF Srvr!Stop, Srvr!StopSystem, Srvr!Goto
<1>3. /\ srvTh' \in [StreamClients -> ThreadPcs] /\ srvTh'[c] = to
      /\ \A d \in StreamClients : d # c => srvTh'[d] = srvTh[d]
  BY <1>2 DEF ThreadPcs
<1>4. srvTh[c] \in {"status", "shut", "flag"}
  BY DEF Srvr!Stop, Srvr!StopSystem
<1>5. StreamConnected'
  <2>1. \A d \in StreamClients : srvTh'[d] # "none" => srvTh[d] # "none"
    BY <1>3, <1>4
  <2> QED BY <1>1, <2>1 DEF StreamInv, StreamConnected, Served
<1>6. CASE ShutFlag' = TRUE /\ srvSlot' = srvSlot
  <2>1. StreamTypes'
    BY <1>1, <1>3, <1>6 DEF StreamTypes
  <2> QED BY <1>5, <1>6, <2>1 DEF StreamInv, BeforeShut
<1>7. ASSUME NEW v \in {Srvr!Stopped, Srvr!StopAll}, srvSlot' = [srvSlot EXCEPT ![at[c]].status = v],
             ShutFlag' = ShutFlag, to # "ended" => StatusOf(c)' = v
      PROVE  StreamInv'
  <2>1. /\ srvSlot' \in [Srvr!Slots -> SlotRec]
        /\ \A j \in Srvr!Slots : srvSlot'[j].handle = srvSlot[j].handle
        /\ \A j \in Srvr!Slots : srvSlot'[j].status = IF j = at[c] THEN v ELSE srvSlot[j].status
    <3>1. v \in 0..3 /\ at[c] \in Srvr!Slots /\ srvSlot \in [Srvr!Slots -> SlotRec]
      BY DEF Srvr!Stopped, Srvr!StopAll
    <3> HIDE StreamFacts
    <3> QED BY <1>7, <3>1, StatusSet
  <2>2. StreamTypes'
    BY <1>1, <1>3, <1>7, <2>1 DEF StreamTypes
  <2>3. ASSUME ThreadsOwn, StoppedOwned, Accepting
        PROVE  (ThreadsOwn /\ StoppedOwned /\ Accepting)'
    <3>1. Srvr!Lives(c) /\ Owner(at[c]) = c
      BY <1>4, <2>3 DEF Srvr!Lives, ThreadsOwn
    <3>2. \A i \in Srvr!Slots : Owner(i)' = Owner(i)
      BY <1>1, <2>1 DEF Owner
    <3>3. \A d \in StreamClients : Srvr!Lives(d)' => Srvr!Lives(d)
      BY <1>3, <3>1 DEF Srvr!Lives
    <3>4. ThreadsOwn'
      <4> SUFFICES ASSUME NEW d \in StreamClients, Srvr!Lives(d)'
                   PROVE  Owner(at[d])' = d /\ srvSlot'[at[d]].status = StatusOf(d)'
        BY <1>1 DEF ThreadsOwn
      <4>1. Owner(at[d]) = d /\ srvSlot[at[d]].status = StatusOf(d)
        BY <2>3, <3>3 DEF ThreadsOwn
      <4>2. Owner(at[d])' = d
        BY <1>1, <2>1, <4>1 DEF Owner
      <4>3. CASE d = c
        <5>1. to # "ended"
          BY <1>3, <4>3 DEF Srvr!Lives
        <5> QED BY <1>7, <2>1, <4>2, <4>3, <5>1
      <4>4. CASE d # c
        <5>1. at[d] # at[c] /\ StatusOf(d)' = StatusOf(d)
          BY <1>3, <3>1, <4>1, <4>4 DEF StatusOf
        <5> QED BY <2>1, <4>1, <4>2, <5>1
      <4> QED BY <4>3, <4>4
    <3>5. StoppedOwned'
      <4> SUFFICES ASSUME NEW i \in Srvr!Slots, srvSlot'[i].status \in {Srvr!Stopped, Srvr!StopAll}
                   PROVE  HasStopped(Owner(i), i)'
        BY DEF StoppedOwned
      <4>1. CASE i = at[c]
        BY <1>1, <1>3, <3>1, <3>2, <4>1 DEF HasStopped
      <4>2. CASE i # at[c]
        <5>1. HasStopped(Owner(i), i)
          BY <2>1, <2>3, <4>2 DEF StoppedOwned
        <5> QED BY <1>1, <1>3, <3>2, <5>1, <4>2 DEF HasStopped
      <4> QED BY <4>1, <4>2
    <3>6. Accepting'
      <4>1. acc.pc \in {"status", "create"} => acc.client \in StreamClients /\ srvTh'[acc.client] = "none"
        BY <1>3, <1>4, <2>3 DEF StreamInv, StreamConnected, Accepting
      <4>2. acc.pc = "create" => srvSlot'[acc.slot].status = Srvr!Running
        BY <2>1, <2>3, <3>1 DEF Accepting
      <4> QED BY <1>1, <2>3, <3>3, <4>1, <4>2 DEF Accepting
    <3> QED BY <3>4, <3>5, <3>6
  <2> QED BY <1>1, <1>5, <1>7, <2>2, <2>3 DEF StreamInv, BeforeShut
<1>8. CASE Srvr!Stop(c)
  <2>1. to \in {"shut", "ended"}
    BY <1>3, <1>8 DEF Srvr!Stop, Srvr!Goto
  <2>2. to # "ended" => StatusOf(c)' = Srvr!Stopped
    BY <1>3, <2>1 DEF StatusOf
  <2> QED BY <1>7, <1>8, <2>2 DEF Srvr!Stop
<1>9. CASE Srvr!StopSystem(c)
  <2>1. CASE srvTh[c] = "shut"
    <3>1. to = "flag" /\ srvSlot' = [srvSlot EXCEPT ![at[c]].status = Srvr!StopAll] /\ ShutFlag' = ShutFlag
      BY <1>3, <1>9, <2>1 DEF Srvr!StopSystem, Srvr!Goto
    <3>2. StatusOf(c)' = Srvr!StopAll
      BY <1>3, <3>1 DEF StatusOf
    <3> QED BY <1>7, <3>1, <3>2
  <2>2. CASE srvTh[c] # "shut"
    BY <1>6, <1>9, <2>2 DEF Srvr!StopSystem
  <2> QED BY <2>1, <2>2
<1> QED BY <1>8, <1>9

LEMMA StreamStep ==
  ASSUME StreamInv, [Srvr!Next]_(Srvr!streamVars)
  PROVE  StreamInv'
<1>1. CASE Srvr!Main
  BY <1>1, PollStep, MainStep DEF Srvr!Main
<1>2. CASE Srvr!AcceptTh
  BY <1>2, AcceptStep, SetStatusStep, CreateStep, StoreStep DEF Srvr!AcceptTh
<1>3. CASE Srvr!Handler
  BY <1>3, MainStep
<1>4. ASSUME NEW c \in StreamClients, Srvr!Server(c) \/ Srvr!Client(c)
      PROVE  StreamInv'
  BY <1>4, ThreadQuiet, ThreadStop, ClientStep DEF Srvr!Server
<1>5. CASE UNCHANGED Srvr!streamVars
  <2>1. /\ srvSlot' = srvSlot /\ acc' = acc /\ at' = at /\ srvClient' = srvClient /\ srvMain' = srvMain /\ iSrvThread' = iSrvThread
        /\ ShutFlag' = ShutFlag /\ listening' = listening /\ srvTh' = srvTh
    BY <1>5 DEF Srvr!streamVars
  <2>2. (srvMain = "poll" => acc.pc = "none") /\ (\A c \in StreamClients : Served(c) => Served(c)')
    BY <2>1 DEF StreamInv, StreamConnected, Served
  <2>3. ~ShutFlag => srvMain \in {"poll", "await", "ended"} /\ (srvMain # "ended" => listening)
    BY DEF StreamInv, BeforeShut
  <2> QED BY <2>1, <2>2, <2>3, StreamFacts, StreamQuiet
<1> QED BY <1>1, <1>2, <1>3, <1>4, <1>5 DEF Srvr!Next

LEMMA StreamRight ==
  ASSUME StreamInv
  PROVE  Srvr!TypeOK /\ Srvr!SlotOfOne
<1>1. Srvr!TypeOK
  BY StreamFacts DEF Srvr!TypeOK, SlotRec, AcceptRec, StreamInv, StreamConnected, Served
<1>2. Srvr!SlotOfOne
  <2> SUFFICES ASSUME ~ShutFlag
               PROVE  /\ \A c, d \in StreamClients : Srvr!Lives(c) /\ Srvr!Lives(d) /\ at[c] = at[d] => c = d
                      /\ srvMain = "poll" =>
                           \A i \in Srvr!Slots : srvSlot[i].status \in {Srvr!Stopped, Srvr!StopAll} =>
                             /\ srvSlot[i].handle # Srvr!NoThread /\ at[srvSlot[i].handle] = i
                             /\ srvTh[srvSlot[i].handle] \in {"shut", "flag", "ended"}
    BY DEF Srvr!SlotOfOne
  <2>1. ThreadsOwn /\ StoppedOwned
    BY DEF StreamInv, BeforeShut
  <2>2. srvMain = "poll" => \A i \in Srvr!Slots : Owner(i) = srvSlot[i].handle
    BY DEF StreamInv, StreamConnected, Owner
  <2>3. \A c, d \in StreamClients : Srvr!Lives(c) /\ Srvr!Lives(d) /\ at[c] = at[d] => c = d
    BY <2>1 DEF ThreadsOwn
  <2>4. 0 \notin StreamClients
    BY StreamFacts
  <2> QED BY <2>1, <2>2, <2>3, <2>4 DEF StoppedOwned, HasStopped, Srvr!NoThread
<1> QED BY <1>1, <1>2

-----------------------------------------------------------------------------
(* The service.                                                            *)

UpdRec == [pc : {"idle", "state", "set", "report"}, state : Srv!ServiceStates \cup {Srv!KEEP}]
Reported == Srv!ServiceStates \cup {"none"}
ScmRec == [exists : BOOLEAN, state : Reported, deleted : BOOLEAN, sent : Srv!Controls \cup {"none"}]
ServiceTypes ==
  /\ scm \in ScmRec /\ status \in Reported
  /\ upd \in [Srv!Threads -> UpdRec]
  /\ upd["svc"].pc = "report" => upd["svc"].state # Srv!KEEP
  /\ upd["handler"].pc = "report" => upd["handler"].state # Srv!KEEP
  /\ svcMain \in {"none", "dispatch", "console", "overflow", "ended"}

\* No process, or one that runs as a program: the manager has nothing to do.
NotServing ==
  /\ svcMain \in {"none", "ended", "console"} =>
       /\ scm.state = "STOPPED" /\ scm.sent = "none" /\ handler = "idle"
       /\ upd["svc"].pc \notin {"set", "report"} /\ (svcMain # "console" => upd["svc"].pc = "idle")
  /\ svcMain \in {"none", "ended"} => upd["svc"].state # "RUNNING"
HandlerRight ==
  /\ handler \in {"idle", "stop"} => upd["handler"].pc = "idle"
  /\ handler # "idle" => scm.sent # "none"
  /\ upd["handler"].pc = "state" => upd["handler"].state \in {"STOP_PENDING", Srv!KEEP}
  /\ upd["handler"].state = "RUNNING" => upd["handler"].pc = "report"

\* Until RUNNING has been told the manager knows START_PENDING and sends
\* nothing, so that only ServiceMain writes the status.
Starting ==
  \/ svc \in {"register", "begin", "announce"}
  \/ /\ svc = "work" /\ scm.state = "START_PENDING"
     /\ upd["svc"].pc # "idle" /\ upd["svc"].state = "RUNNING"
Early ==
  /\ scm.sent = "none" /\ scm.state = "START_PENDING" /\ ~svcShutDown
  /\ svc \in {"register", "begin"} => upd["svc"].pc = "idle"
  /\ svc # "work" => upd["svc"].state # "RUNNING"
  /\ svc \in {"begin", "announce"} => status = "START_PENDING"
  /\ svc = "announce" /\ upd["svc"].pc = "state" => upd["svc"].state = Srv!KEEP
  /\ svc = "work" => status = (IF upd["svc"].pc = "state" THEN "START_PENDING" ELSE "RUNNING")
  /\ upd["svc"].pc = "report" => upd["svc"].state = status

\* Afterwards nobody writes RUNNING again.  The state that t has copied:
Copied(t, state) == upd[t].pc = "report" /\ upd[t].state = state
SvcOver == svc \in {"stopped", "done"}
\* STOPPED comes from ServiceMain, with its last call of UpdateStatus.
StoppedAtEnd ==
  /\ status = "STOPPED" => SvcOver /\ (upd["svc"].pc # "state" \/ ~registered)
  /\ scm.state = "STOPPED" \/ Copied("svc", "STOPPED") \/ Copied("handler", "STOPPED") =>
       SvcOver /\ upd["svc"].pc # "state"
  /\ SvcOver /\ upd["svc"].pc # "state" => status # "RUNNING" /\ ~Copied("svc", "RUNNING")
  /\ upd["svc"].pc = "state" => upd["svc"].state \in {Srv!KEEP, "STOPPED"}
  /\ upd["svc"].pc = "state" => (SvcOver <=> upd["svc"].state = "STOPPED")
\* ServiceMain ends after a stop, or it never ran.
OverAfterStop ==
  SvcOver => \/ svcShutDown
             \/ /\ scm.sent = "none" /\ scm.state \in {"START_PENDING", "STOPPED"}
                /\ status \in {"START_PENDING", "STOPPED"}
                /\ ~Copied("svc", "STOP_PENDING") /\ ~Copied("svc", "RUNNING")
\* Only ServiceMain may have copied RUNNING before the stop was written.
RunningBeforeStop ==
  /\ Copied("handler", "RUNNING") => status = "RUNNING" /\ ~svcShutDown
  /\ scm.state = "STOP_PENDING" \/ Copied("svc", "STOP_PENDING") \/ Copied("handler", "STOP_PENDING") =>
       status # "RUNNING"
  /\ status = "RUNNING" /\ svcShutDown =>
       handler = "stop" \/ (upd["handler"].pc = "state" /\ upd["handler"].state = "STOP_PENDING")
  /\ upd["svc"].state = "RUNNING" => upd["svc"].pc = "report"
StartedOnce ==
  /\ status = "START_PENDING" =>
       /\ scm.sent = "none" /\ scm.state = "START_PENDING" /\ ~svcShutDown
       /\ upd["svc"].pc = "state" /\ upd["svc"].state = "STOPPED"
  /\ ~Copied("svc", "START_PENDING") /\ ~Copied("handler", "START_PENDING")
  /\ svc \in {"work", "sleep"} => scm.state # "START_PENDING"
Late == StoppedAtEnd /\ OverAfterStop /\ RunningBeforeStop /\ StartedOnce
Serving ==
  svcMain = "dispatch" =>
    /\ svc \in {"announce", "work", "sleep"} => program = "SimpleService" /\ registered
    /\ svc = "begin" /\ program = "SimpleService" => registered
    /\ svc # "register" => status # "none"
    /\ svc \in {"register", "begin", "announce", "work", "sleep", "stopped", "done"}
    /\ Starting => Early
    /\ ~Starting => Late
ServiceInv == ServiceTypes /\ NotServing /\ HandlerRight /\ Serving

LEMMA ServiceInit ==
  ASSUME NEW p, Srv!InitOf(p)
  PROVE  ServiceInv
<1>1. /\ scm = [exists |-> FALSE, state |-> "STOPPED", deleted |-> FALSE, sent |-> "none"]
      /\ status = "none" /\ svcMain = "none" /\ handler = "idle"
      /\ upd = [t \in {"svc", "handler"} |-> [pc |-> "idle", state |-> "-1"]]
  BY DEF Srv!InitOf, Srv!Idle, Srv!KEEP, Srv!Threads
<1>2. ServiceTypes
  BY <1>1 DEF ServiceTypes, ScmRec, UpdRec, Reported, Srv!ServiceStates, Srv!Threads, Srv!KEEP
<1>3. /\ upd["svc"].pc = "idle" /\ upd["handler"].pc = "idle" /\ upd["svc"].state = "-1"
      /\ upd["handler"].state = "-1"
  BY <1>1
<1> QED BY <1>1, <1>2, <1>3 DEF ServiceInv, NotServing, HandlerRight, Serving

LEMMA ServiceFacts ==
  ASSUME ServiceInv
  PROVE  /\ scm \in ScmRec /\ status \in Reported /\ upd \in [Srv!Threads -> UpdRec]
         /\ upd["svc"] \in UpdRec /\ upd["handler"] \in UpdRec
BY DEF ServiceInv, ServiceTypes, Srv!Threads

LEMMA UpdateBegins ==
  ASSUME ServiceInv, NEW t \in Srv!Threads, NEW x \in Srv!ServiceStates \cup {Srv!KEEP}, Srv!UpdateStatus(t, x)
  PROVE  /\ upd' \in [Srv!Threads -> UpdRec] /\ upd'[t].pc = "state" /\ upd'[t].state = x
         /\ \A o \in Srv!Threads \ {t} : upd'[o] = upd[o]
BY ServiceFacts DEF Srv!UpdateStatus, UpdRec

\* The thread of ServiceMain.
LEMMA RegisterStep ==
  ASSUME ServiceInv, Srv!Register
  PROVE  ServiceInv'
<1> USE ServiceFacts
<1>1. /\ svc = "register" /\ svcMain = "dispatch" /\ program' = program /\ svcMain' = svcMain /\ handler' = handler
      /\ svcShutDown' = svcShutDown
  BY DEF Srv!Register
<1>2. Early /\ handler = "idle" /\ upd["handler"].pc = "idle" /\ upd["svc"].pc = "idle"
  BY <1>1 DEF ServiceInv, Serving, Starting, HandlerRight, Early
<1>3. CASE /\ registered' \/ program = "serviceSK"
           /\ status' = "START_PENDING" /\ svc' = "begin" /\ upd' = upd
           /\ scm' = [scm EXCEPT !.state = IF registered' THEN "START_PENDING" ELSE @]
  <2>1. scm' = scm
    BY <1>2, <1>3 DEF Early, ScmRec
  <2>2. "START_PENDING" \in Reported
    BY DEF Reported, Srv!ServiceStates
  <2>3. Serving'
    BY <1>1, <1>2, <1>3, <2>1 DEF Serving, Starting, Early
  <2> QED BY <1>1, <1>3, <2>1, <2>2, <2>3 DEF ServiceInv, ServiceTypes, NotServing, HandlerRight
<1>4. CASE /\ ~registered'
           /\ status' = "STOPPED" /\ svc' = "done" /\ Srv!UpdateStatus("svc", "STOPPED") /\ scm' = scm
  <2>1. /\ upd' \in [Srv!Threads -> UpdRec] /\ upd'["svc"].pc = "state" /\ upd'["svc"].state = "STOPPED"
        /\ upd'["handler"] = upd["handler"]
    <3>1. "svc" \in Srv!Threads /\ "handler" \in Srv!Threads \ {"svc"} /\ "STOPPED" \in Srv!ServiceStates \cup {Srv!KEEP}
      BY DEF Srv!Threads, Srv!ServiceStates
    <3> QED BY <1>4, <3>1, UpdateBegins
  <2>2. "STOPPED" \in Reported
    BY DEF Reported, Srv!ServiceStates
  <2>3. Late'
    BY <1>1, <1>2, <1>4, <2>1 DEF Early, Late, StoppedAtEnd, OverAfterStop, RunningBeforeStop,
                                  StartedOnce, Copied, SvcOver
  <2>4. Serving'
    BY <1>1, <1>4, <2>3 DEF Serving, Starting
  <2> QED BY <1>1, <1>4, <2>1, <2>2, <2>4 DEF ServiceInv, ServiceTypes, NotServing, HandlerRight
<1> QED BY <1>3, <1>4 DEF Srv!Register

LEMMA MainMoves ==
  ASSUME ServiceInv, Srv!ServiceSpecific \/ Srv!Announce \/ Srv!Work \/ Srv!Wake \/ Srv!Return
  PROVE  ServiceInv'
<1> USE ServiceFacts
<1>1. /\ upd["svc"].pc = "idle" /\ svcMain \in {"dispatch", "console"} /\ svcMain' = svcMain
      /\ scm' = scm /\ status' = status /\ handler' = handler /\ program' = program /\ registered' = registered
      /\ svcShutDown' = svcShutDown
  BY DEF Srv!ServiceSpecific, Srv!Announce, Srv!Work, Srv!Wake, Srv!Return, Srv!Svc, Srv!flags
<1>2. CASE upd' = upd /\ ((svc = "work" /\ svc' = "sleep") \/ (svc = "stopped" /\ svc' = "done"))
  <2>1. ASSUME svcMain = "dispatch"
        PROVE  Serving'
    <3>1. Late /\ ~Starting /\ ~Starting'
      BY <1>1, <1>2, <2>1 DEF ServiceInv, Serving, Starting
    <3>2. Late'
      BY <1>1, <1>2, <3>1 DEF Late, StoppedAtEnd, OverAfterStop, RunningBeforeStop, StartedOnce,
                              Copied, SvcOver
    <3> QED BY <1>1, <1>2, <2>1, <3>1, <3>2 DEF ServiceInv, Serving
  <2>2. Serving'
    BY <1>1, <2>1 DEF Serving
  <2> QED BY <1>1, <1>2, <2>2 DEF ServiceInv, ServiceTypes, NotServing, HandlerRight
<1>3. ASSUME NEW x \in Srv!ServiceStates \cup {Srv!KEEP}, Srv!UpdateStatus("svc", x),
             \/ svc = "begin" /\ svc' = "announce" /\ x = Srv!KEEP /\ program = "SimpleService"
             \/ svc = "begin" /\ svc' = "stopped" /\ x = "STOPPED"
             \/ svc = "announce" /\ svc' = "work" /\ x = "RUNNING"
             \/ svc = "work" /\ svc' = "stopped" /\ x = "STOPPED" /\ svcShutDown
             \/ svc = "sleep" /\ svc' = "work" /\ x = Srv!KEEP
      PROVE  ServiceInv'
  <2>1. /\ upd' \in [Srv!Threads -> UpdRec] /\ upd'["svc"].pc = "state" /\ upd'["svc"].state = x
        /\ upd'["handler"] = upd["handler"]
    <3>1. "svc" \in Srv!Threads /\ "handler" \in Srv!Threads \ {"svc"}
      BY DEF Srv!Threads
    <3> QED BY <1>3, <3>1, UpdateBegins
  <2>2. ASSUME svcMain = "dispatch"
        PROVE  Serving'
    <3>1. Srv!KEEP \notin Srv!ServiceStates
      BY DEF Srv!KEEP, Srv!ServiceStates
    <3>2. CASE svc = "begin"
      <4>1. Early /\ handler = "idle" /\ upd["handler"].pc = "idle"
        BY <2>2, <3>2 DEF ServiceInv, Serving, Starting, HandlerRight, Early
      <4>2. CASE svc' = "announce"
        BY <1>1, <1>3, <2>1, <2>2, <3>1, <3>2, <4>1, <4>2 DEF ServiceInv, Serving, Starting, Early, Srv!ServiceStates
      <4>3. CASE svc' = "stopped"
        <5>1. Late'
          BY <1>1, <1>3, <2>1, <3>2, <4>1, <4>3
             DEF Early, Late, StoppedAtEnd, OverAfterStop, RunningBeforeStop, StartedOnce, Copied, SvcOver
        <5> QED BY <1>1, <2>2, <3>2, <4>1, <4>3, <5>1 DEF ServiceInv, Serving, Starting
      <4> QED BY <1>3, <3>2, <4>2, <4>3
    <3>3. CASE svc = "announce"
      <4>1. Early
        BY <2>2, <3>3 DEF ServiceInv, Serving, Starting
      <4> QED BY <1>1, <1>3, <2>1, <2>2, <3>3, <4>1 DEF ServiceInv, Serving, Starting, Early
    <3>4. CASE svc \in {"work", "sleep"}
      <4>1. Late /\ ~Starting
        BY <1>1, <2>2, <3>4 DEF ServiceInv, Serving, Starting
      <4>2. ~Starting' /\ svc' \in {"stopped", "work"}
        BY <1>3, <2>1, <3>1, <3>4 DEF Starting, Srv!ServiceStates
      <4>3. Late'
        BY <1>1, <1>3, <2>1, <3>1, <3>4, <4>1
           DEF Late, StoppedAtEnd, OverAfterStop, RunningBeforeStop, StartedOnce, Copied, SvcOver, Srv!ServiceStates
      <4> QED BY <1>1, <2>2, <3>4, <4>2, <4>3 DEF ServiceInv, Serving
    <3> QED BY <1>3, <3>2, <3>3, <3>4
  <2>3. Serving'
    BY <1>1, <2>2 DEF Serving
  <2> QED BY <1>1, <2>1, <2>3 DEF ServiceInv, ServiceTypes, NotServing, HandlerRight
<1>4. Srv!KEEP \in Srv!ServiceStates \cup {Srv!KEEP} /\ {"STOPPED", "RUNNING"} \subseteq Srv!ServiceStates
  BY DEF Srv!ServiceStates
<1>5. CASE Srv!Return
  BY <1>2, <1>5 DEF Srv!Return, Srv!Svc
<1>6. CASE Srv!Work
  <2>1. \/ svc = "work" /\ svc' = "sleep" /\ upd' = upd
        \/ svc = "work" /\ svc' = "stopped" /\ svcShutDown /\ Srv!UpdateStatus("svc", "STOPPED")
    BY <1>6 DEF Srv!Work, Srv!Svc
  <2>2. CASE svc = "work" /\ svc' = "sleep" /\ upd' = upd
    BY <1>2, <2>2
  <2>3. CASE svc = "work" /\ svc' = "stopped" /\ svcShutDown /\ Srv!UpdateStatus("svc", "STOPPED")
    BY <1>3, <1>4, <2>3
  <2> QED BY <2>1, <2>2, <2>3
<1>7. CASE Srv!ServiceSpecific \/ Srv!Announce
  BY <1>3, <1>4, <1>7 DEF Srv!ServiceSpecific, Srv!Announce, Srv!Svc
<1>8. CASE Srv!Wake
  BY <1>3, <1>4, <1>8 DEF Srv!Wake, Srv!Periodic, Srv!Svc
<1> QED BY <1>5, <1>6, <1>7, <1>8

\* The control handler.
LEMMA HandlerStep ==
  ASSUME ServiceInv, Srv!Handler
  PROVE  ServiceInv'
<1> USE ServiceFacts
<1>1. /\ svc' = svc /\ status' = status /\ svcMain' = svcMain /\ program' = program /\ registered' = registered
  BY DEF Srv!Handler, Srv!ServerCtrlHandler, Srv!StopPending, Srv!Report, Srv!HandlerReturns, Srv!flags
<1>2. CASE Srv!ServerCtrlHandler
  <2>1. /\ svcMain = "dispatch" /\ handler = "idle" /\ scm.sent # "none" /\ handler' \in {"stop", "report"}
        /\ svcShutDown' = (svcShutDown \/ (scm.sent = "STOP")) /\ (handler' = "stop" <=> scm.sent = "STOP")
        /\ scm' = scm /\ upd' = upd
    BY <1>2 DEF Srv!ServerCtrlHandler
  <2>2. Late /\ ~Starting /\ ~Starting' /\ upd["handler"].pc = "idle"
    BY <1>1, <2>1 DEF ServiceInv, Serving, Early, Starting, HandlerRight
  <2>3. Late'
    BY <1>1, <2>1, <2>2 DEF Late, StoppedAtEnd, OverAfterStop, RunningBeforeStop, StartedOnce, Copied, SvcOver
  <2>4. Serving'
    BY <1>1, <2>1, <2>2, <2>3 DEF ServiceInv, Serving
  <2> QED BY <1>1, <2>1, <2>2, <2>4 DEF ServiceInv, ServiceTypes, NotServing, HandlerRight
<1>3. CASE Srv!StopPending \/ Srv!Report
  <2>1. PICK x \in {"STOP_PENDING", Srv!KEEP} :
          Srv!UpdateStatus("handler", x) /\ (handler = "stop" <=> x = "STOP_PENDING")
    BY <1>3 DEF Srv!StopPending, Srv!Report, Srv!KEEP
  <2>2. /\ handler # "idle" /\ handler' \in {"report", "return"} /\ scm' = scm /\ svcShutDown' = svcShutDown
        /\ upd["handler"].pc = "idle"
    BY <1>3 DEF Srv!StopPending, Srv!Report, Srv!flags, ServiceInv, HandlerRight
  <2>3. /\ upd' \in [Srv!Threads -> UpdRec] /\ upd'["handler"].pc = "state" /\ upd'["handler"].state = x
        /\ upd'["svc"] = upd["svc"]
    <3>1. "handler" \in Srv!Threads /\ "svc" \in Srv!Threads \ {"handler"} /\ x \in Srv!ServiceStates \cup {Srv!KEEP}
      BY DEF Srv!Threads, Srv!ServiceStates
    <3> QED BY <2>1, <3>1, UpdateBegins
  <2>4. ASSUME svcMain = "dispatch"
        PROVE  Serving'
    <3>1. Late /\ ~Starting /\ ~Starting'
      BY <1>1, <2>2, <2>3, <2>4 DEF ServiceInv, Serving, Early, Starting, HandlerRight
    <3>2. Late'
      BY <1>1, <2>1, <2>2, <2>3, <3>1
         DEF Late, StoppedAtEnd, OverAfterStop, RunningBeforeStop, StartedOnce, Copied, SvcOver
    <3> QED BY <1>1, <2>4, <3>1, <3>2 DEF ServiceInv, Serving
  <2>5. Serving'
    BY <1>1, <2>4 DEF Serving
  <2>6. x # "RUNNING"
    BY DEF Srv!KEEP
  <2> QED BY <1>1, <2>2, <2>3, <2>5, <2>6 DEF ServiceInv, ServiceTypes, NotServing, HandlerRight
<1>4. CASE Srv!HandlerReturns
  <2>1. /\ handler = "return" /\ upd["handler"].pc = "idle" /\ handler' = "idle"
        /\ scm' = [scm EXCEPT !.sent = "none"] /\ upd' = upd /\ svcShutDown' = svcShutDown
    BY <1>4 DEF Srv!HandlerReturns, Srv!flags
  <2>2. scm' \in ScmRec /\ scm'.state = scm.state /\ scm'.sent = "none"
    BY <2>1 DEF ScmRec
  <2>3. ASSUME svcMain = "dispatch"
        PROVE  Serving'
    <3>1. Late /\ ~Starting /\ ~Starting'
      BY <1>1, <2>1, <2>2, <2>3 DEF ServiceInv, Serving, Early, Starting, HandlerRight
    <3>2. Late'
      BY <1>1, <2>1, <2>2, <3>1
         DEF Late, StoppedAtEnd, OverAfterStop, RunningBeforeStop, StartedOnce, Copied, SvcOver
    <3> QED BY <1>1, <2>3, <3>1, <3>2 DEF ServiceInv, Serving
  <2>4. Serving'
    BY <1>1, <2>3 DEF Serving
  <2> QED BY <1>1, <2>1, <2>2, <2>4 DEF ServiceInv, ServiceTypes, NotServing, HandlerRight
<1> QED BY <1>2, <1>3, <1>4 DEF Srv!Handler

\* UpdateStatus.
LEMMA SetStateStep ==
  ASSUME ServiceInv, NEW t \in Srv!Threads, Srv!SetState(t)
  PROVE  ServiceInv'
<1> USE ServiceFacts
<1>1. /\ upd[t].pc = "state" /\ scm' = scm /\ svc' = svc /\ svcMain' = svcMain /\ handler' = handler
      /\ program' = program /\ registered' = registered /\ svcShutDown' = svcShutDown
      /\ status' = IF upd[t].state = Srv!KEEP THEN status ELSE upd[t].state
  BY DEF Srv!SetState, Srv!flags
<1>2. PICK to \in {"idle", "set"} : /\ upd' = [upd EXCEPT ![t].pc = to]
                                    /\ to = IF svcMain = "console" THEN "idle" ELSE "set"
  BY DEF Srv!SetState
<1>3. /\ upd' \in [Srv!Threads -> UpdRec] /\ upd'[t].pc = to /\ upd'[t].state = upd[t].state
      /\ \A o \in Srv!Threads \ {t} : upd'[o] = upd[o]
  <2>1. [upd[t] EXCEPT !.pc = to] \in UpdRec
    BY DEF UpdRec
  <2>2. upd' = [upd EXCEPT ![t] = [upd[t] EXCEPT !.pc = to]]
    BY <1>2
  <2> QED BY <2>1, <2>2 DEF UpdRec
<1>4. status' \in Reported
  BY <1>1 DEF UpdRec, Reported
<1>5. t \in {"svc", "handler"} /\ "svc" \in Srv!Threads /\ "handler" \in Srv!Threads
  BY DEF Srv!Threads
<1>6. NotServing' /\ HandlerRight'
  BY <1>1, <1>2, <1>3, <1>5 DEF ServiceInv, NotServing, HandlerRight
<1>7. ASSUME svcMain = "dispatch"
      PROVE  Serving'
  <2>1. CASE t = "svc"
    <3>1. /\ upd'["svc"].pc = "set" /\ upd'["svc"].state = upd["svc"].state /\ upd'["handler"] = upd["handler"]
      BY <1>2, <1>3, <1>5, <1>7, <2>1
    <3>2. Starting' <=> Starting
      BY <1>1, <2>1, <3>1 DEF Starting
    <3>3. CASE Starting
      <4>1. Early /\ svc \notin {"register", "begin"}
        BY <1>1, <1>7, <2>1, <3>3 DEF ServiceInv, Serving, Early
      <4>2. Srv!KEEP # "RUNNING"
        BY DEF Srv!KEEP
      <4>3. Early'
        BY <1>1, <2>1, <3>1, <3>3, <4>1, <4>2 DEF Early, Starting
      <4>4. svc # "register" => status' # "none"
        BY <1>1, <1>7, <4>1 DEF ServiceInv, Serving, UpdRec, Srv!ServiceStates
      <4> QED BY <1>1, <3>2, <3>3, <4>3, <4>4 DEF ServiceInv, Serving
    <3>4. CASE ~Starting
      <4>1. Late
        BY <1>7, <3>4 DEF ServiceInv, Serving
      <4>2. Late'
        <5>1. Srv!KEEP # "STOPPED"
          BY DEF Srv!KEEP
        <5> QED BY <1>1, <2>1, <3>1, <4>1, <5>1
                DEF Late, StoppedAtEnd, OverAfterStop, RunningBeforeStop, StartedOnce, Copied, SvcOver
      <4>3. svc # "register" => status' # "none"
        BY <1>1, <1>7, <2>1, <4>1 DEF ServiceInv, Serving, UpdRec, Srv!ServiceStates
      <4> QED BY <1>1, <3>2, <3>4, <4>2, <4>3 DEF ServiceInv, Serving
    <3> QED BY <3>3, <3>4
  <2>2. CASE t = "handler"
    <3>1. upd'["svc"] = upd["svc"] /\ upd'["handler"].pc = "set" /\ upd'["handler"].state = upd["handler"].state
      BY <1>2, <1>3, <1>5, <1>7, <2>2
    <3>2. handler # "idle" /\ scm.sent # "none" /\ upd["handler"].state \in {"STOP_PENDING", Srv!KEEP}
      BY <1>1, <2>2 DEF ServiceInv, HandlerRight
    <3>3. ~Starting /\ ~Starting' /\ Late
      BY <1>1, <1>7, <3>1, <3>2 DEF ServiceInv, Serving, Early, Starting
    <3>4. status' = status \/ status' = "STOP_PENDING"
      BY <1>1, <2>2, <3>2
    <3>5. upd["handler"].state = Srv!KEEP => upd["handler"].state # "STOP_PENDING"
      BY DEF Srv!KEEP
    <3>6. Late'
      BY <1>1, <2>2, <3>1, <3>2, <3>3, <3>4, <3>5
         DEF Late, StoppedAtEnd, OverAfterStop, RunningBeforeStop, StartedOnce, Copied, SvcOver
    <3> QED BY <1>1, <1>7, <3>3, <3>4, <3>6 DEF ServiceInv, Serving
  <2> QED BY <1>5, <2>1, <2>2
<1>8. Serving'
  BY <1>1, <1>7 DEF Serving
<1> QED BY <1>1, <1>2, <1>3, <1>4, <1>5, <1>6, <1>8 DEF ServiceInv, ServiceTypes

\* SetServiceStatus: the record is copied.
LEMMA SetServiceStatusStep ==
  ASSUME ServiceInv, NEW t \in Srv!Threads, Srv!SetServiceStatus(t), svcMain # "overflow"
  PROVE  ServiceInv'
<1> USE ServiceFacts
<1>1. /\ upd[t].pc = "set" /\ svc' = svc /\ handler' = handler /\ scm' = scm
      /\ program' = program /\ registered' = registered /\ status' = status /\ svcShutDown' = svcShutDown
      /\ svcMain' = svcMain \/ svcMain' = "overflow"
  BY DEF Srv!SetServiceStatus, Srv!flags
<1>2. t \in {"svc", "handler"} /\ "svc" \in Srv!Threads /\ "handler" \in Srv!Threads
  BY DEF Srv!Threads
<1>3. svcMain = "dispatch"
  BY <1>1, <1>2 DEF ServiceInv, ServiceTypes, NotServing, HandlerRight
<1>4. svc # "register"
  BY <1>1, <1>2, <1>3 DEF ServiceInv, Serving, Starting, Early, HandlerRight
<1>5. status \in Srv!ServiceStates /\ status # Srv!KEEP
  BY <1>3, <1>4 DEF ServiceInv, Serving, Reported, Srv!ServiceStates, Srv!KEEP
<1>6. /\ upd' \in [Srv!Threads -> UpdRec]
      /\ \A o \in Srv!Threads \ {t} : upd'[o] = upd[o]
      /\ \/ registered /\ upd'[t].pc = "report" /\ upd'[t].state = status /\ svcMain' = "dispatch"
         \/ ~registered /\ upd'[t].pc = "idle" /\ upd'[t].state = Srv!KEEP
  <2>1. CASE registered
    BY <1>3, <1>5, <2>1 DEF Srv!SetServiceStatus, UpdRec
  <2>2. CASE ~registered
    BY <2>2 DEF Srv!SetServiceStatus, Srv!Idle, UpdRec
  <2> QED BY <2>1, <2>2
<1>7. ASSUME svcMain' = "dispatch"
      PROVE  Serving'
  <2>1. CASE Starting
    <3>1. Early /\ handler = "idle" /\ t = "svc" /\ upd'["handler"] = upd["handler"] /\ upd["handler"].pc = "idle"
      BY <1>1, <1>2, <1>3, <1>6, <2>1 DEF ServiceInv, Serving, Early, HandlerRight
    <3>2. svc \in {"announce", "work"} /\ registered
      BY <1>1, <1>3, <1>4, <2>1, <3>1 DEF ServiceInv, Serving, Starting, Early
    <3>3. upd'["svc"].pc = "report" /\ upd'["svc"].state = status
      BY <1>6, <3>1, <3>2
    <3>4. Starting' /\ Early'
      BY <1>1, <2>1, <3>1, <3>2, <3>3 DEF Starting, Early
    <3> QED BY <1>1, <1>3, <3>4 DEF ServiceInv, Serving
  <2>2. CASE ~Starting
    <3>1. Late
      BY <1>3, <2>2 DEF ServiceInv, Serving
    <3>2. CASE t = "svc"
      <4>1. upd'["handler"] = upd["handler"]
        BY <1>2, <1>6, <3>2
      <4>2. ~Starting'
        BY <1>1, <1>6, <2>2, <3>1, <3>2 DEF Starting, Late, StartedOnce, SvcOver, Srv!KEEP
      <4>3. Late'
        BY <1>1, <1>6, <3>1, <3>2, <4>1
           DEF Late, StoppedAtEnd, OverAfterStop, RunningBeforeStop, StartedOnce, Copied, SvcOver, Srv!KEEP
      <4> QED BY <1>1, <1>3, <4>2, <4>3 DEF ServiceInv, Serving
    <3>3. CASE t = "handler"
      <4>1. upd'["svc"] = upd["svc"] /\ handler \notin {"idle", "stop"} /\ scm.sent # "none"
        BY <1>1, <1>2, <1>6, <3>3 DEF ServiceInv, HandlerRight
      <4>2. ~Starting'
        BY <1>1, <2>2, <4>1 DEF Starting
      <4>3. Late'
        BY <1>1, <1>6, <3>1, <3>3, <4>1
           DEF Late, StoppedAtEnd, OverAfterStop, RunningBeforeStop, StartedOnce, Copied, SvcOver, Srv!KEEP
      <4> QED BY <1>1, <1>3, <4>2, <4>3 DEF ServiceInv, Serving
    <3> QED BY <1>2, <3>2, <3>3
  <2> QED BY <2>1, <2>2
<1>8. Serving'
  BY <1>7 DEF Serving
<1>9. ServiceTypes'
  BY <1>1, <1>2, <1>3, <1>5, <1>6 DEF ServiceInv, ServiceTypes
<1>10. NotServing' /\ HandlerRight'
  BY <1>1, <1>2, <1>3, <1>6 DEF ServiceInv, NotServing, HandlerRight, Srv!KEEP
<1> QED BY <1>8, <1>9, <1>10 DEF ServiceInv

\* The manager is told what was copied.
LEMMA ToldStep ==
  ASSUME ServiceInv, NEW t \in Srv!Threads, Srv!Told(t), svcMain # "overflow"
  PROVE  ServiceInv'
<1> USE ServiceFacts
<1>1. /\ upd[t].pc = "report" /\ svc' = svc /\ handler' = handler
      /\ program' = program /\ registered' = registered /\ status' = status /\ svcShutDown' = svcShutDown
      /\ svcMain' = svcMain
  BY DEF Srv!Told, Srv!flags
<1>2. t \in {"svc", "handler"} /\ "svc" \in Srv!Threads /\ "handler" \in Srv!Threads
  BY DEF Srv!Threads
<1>3. /\ upd' \in [Srv!Threads -> UpdRec] /\ upd'[t].pc = "idle" /\ upd'[t].state = Srv!KEEP
      /\ \A o \in Srv!Threads \ {t} : upd'[o] = upd[o]
  BY DEF Srv!Told, Srv!Idle, UpdRec
<1>4. upd[t].state \in Srv!ServiceStates
  BY <1>1, <1>2 DEF ServiceInv, ServiceTypes, UpdRec
<1>5. scm' \in ScmRec /\ scm'.sent = scm.sent /\ scm'.state = upd[t].state
  BY <1>4 DEF Srv!Told, ScmRec, Reported
<1>6. svcMain = "dispatch"
  BY <1>1, <1>2 DEF ServiceInv, ServiceTypes, NotServing, HandlerRight
<1>7. Serving'
  <2>1. CASE Starting
    <3>1. /\ Early /\ handler = "idle" /\ t = "svc" /\ upd'["handler"] = upd["handler"]
          /\ upd["handler"].pc = "idle" /\ upd'["svc"].pc = "idle"
      BY <1>1, <1>2, <1>3, <1>6, <2>1 DEF ServiceInv, Serving, Early, HandlerRight
    <3>2. CASE svc = "work"
      <4>1. ~Starting'
        BY <1>1, <3>1, <3>2 DEF Starting
      <4>2. Late'
        <5>1. status = "RUNNING" /\ upd["svc"].state = "RUNNING" /\ ~svcShutDown
          BY <1>1, <2>1, <3>1, <3>2 DEF Early, Starting
        <5>2. upd'["svc"].state # "RUNNING"
          BY <1>3, <3>1 DEF Srv!KEEP
        <5> QED BY <1>1, <1>5, <3>1, <3>2, <5>1, <5>2
                DEF Late, StoppedAtEnd, OverAfterStop, RunningBeforeStop, StartedOnce, Copied, SvcOver
      <4> QED BY <1>1, <1>6, <4>1, <4>2 DEF ServiceInv, Serving
    <3>3. CASE svc # "work"
      <4>1. svc = "announce" /\ scm'.state = "START_PENDING"
        BY <1>1, <1>5, <2>1, <3>1, <3>3 DEF Starting, Early
      <4>2. Starting' /\ Early'
        BY <1>1, <1>3, <1>5, <3>1, <4>1 DEF Starting, Early, Srv!KEEP
      <4> QED BY <1>1, <1>6, <4>2 DEF ServiceInv, Serving
    <3> QED BY <3>2, <3>3
  <2>2. CASE ~Starting
    <3>1. Late
      BY <1>6, <2>2 DEF ServiceInv, Serving
    <3>2. ~Starting'
      <4>1. upd'["svc"].pc = "idle" \/ upd'["svc"] = upd["svc"]
        BY <1>2, <1>3
      <4>2. svc = "work" => scm'.state # "START_PENDING"
        BY <1>1, <1>2, <1>5, <3>1 DEF Late, StartedOnce, Copied
      <4> QED BY <1>1, <2>2, <4>1, <4>2 DEF Starting
    <3>3. CASE t = "svc"
      <4>1. upd'["handler"] = upd["handler"]
        BY <1>2, <1>3, <3>3
      <4>2. Late'
        <5>1. StoppedAtEnd' /\ StartedOnce'
          BY <1>1, <1>3, <1>5, <3>1, <3>3, <4>1 DEF Late, StoppedAtEnd, StartedOnce, Copied, SvcOver, Srv!KEEP
        <5>2. OverAfterStop'
          BY <1>1, <1>3, <1>4, <1>5, <3>1, <3>3, <4>1
             DEF Late, OverAfterStop, StartedOnce, Copied, SvcOver, Srv!ServiceStates
        <5>3. RunningBeforeStop'
          BY <1>1, <1>3, <1>5, <3>1, <3>3, <4>1 DEF Late, RunningBeforeStop, Copied, Srv!KEEP
        <5> QED BY <5>1, <5>2, <5>3 DEF Late
      <4> QED BY <1>1, <1>6, <3>2, <4>2 DEF ServiceInv, Serving
    <3>4. CASE t = "handler"
      <4>1. upd'["svc"] = upd["svc"] /\ handler \notin {"idle", "stop"} /\ scm.sent # "none"
        BY <1>1, <1>2, <1>3, <3>4 DEF ServiceInv, HandlerRight
      <4>2. Late'
        BY <1>1, <1>3, <1>5, <3>1, <3>4, <4>1
           DEF Late, StoppedAtEnd, OverAfterStop, RunningBeforeStop, StartedOnce, Copied, SvcOver, Srv!KEEP
      <4> QED BY <1>1, <1>6, <3>2, <4>2 DEF ServiceInv, Serving
    <3> QED BY <1>2, <3>3, <3>4
  <2> QED BY <2>1, <2>2
<1>8. ServiceTypes'
  BY <1>1, <1>2, <1>3, <1>5 DEF ServiceInv, ServiceTypes
<1>9. NotServing' /\ HandlerRight'
  BY <1>1, <1>2, <1>3, <1>5, <1>6 DEF ServiceInv, NotServing, HandlerRight, Srv!KEEP
<1> QED BY <1>7, <1>8, <1>9 DEF ServiceInv

\* The dispatcher, and the commands of the user.
LEMMA ShellStep ==
  ASSUME ServiceInv, Srv!Dispatched \/ Srv!Shell
  PROVE  ServiceInv'
<1> USE ServiceFacts
<1>1. /\ status' = status /\ handler' = handler /\ upd' = upd /\ program' = program
      /\ svcShutDown' = svcShutDown \/ Srv!Start
  BY DEF Srv!Dispatched, Srv!Shell, Srv!Create, Srv!Delete, Srv!Start, Srv!Control, Srv!Console, Srv!flags
<1>2. CASE Srv!Dispatched
  <2>1. /\ svcMain = "dispatch" /\ handler = "idle" /\ upd["svc"].pc = "idle" /\ svcMain' = "ended"
    BY <1>2 DEF Srv!Dispatched
  <2>2. scm' \in ScmRec /\ scm'.state = "STOPPED" /\ scm'.sent = "none"
    BY <1>2 DEF Srv!Dispatched, ScmRec, Reported, Srv!ServiceStates
  <2>3. upd["svc"].state # "RUNNING"
    BY <1>2, <2>1 DEF Srv!Dispatched, ServiceInv, Serving, Starting, Late, RunningBeforeStop
  <2> QED BY <1>1, <2>1, <2>2, <2>3 DEF ServiceInv, ServiceTypes, NotServing, HandlerRight, Serving
<1>3. CASE Srv!Create \/ Srv!Delete
  <2>1. /\ scm' \in ScmRec /\ scm'.state = scm.state /\ scm'.sent = scm.sent
    BY <1>3 DEF Srv!Create, Srv!Delete, ScmRec
  <2>2. svcMain' = svcMain /\ svc' = svc /\ registered' = registered
    BY <1>3 DEF Srv!Create, Srv!Delete, Srv!flags
  <2>3. svcShutDown' = svcShutDown
    BY <1>3 DEF Srv!Create, Srv!Delete, Srv!flags
  <2>4. (Starting' <=> Starting) /\ (Early => Early') /\ (Late => Late')
    BY <1>1, <2>1, <2>2, <2>3
       DEF Starting, Early, Late, StoppedAtEnd, OverAfterStop, RunningBeforeStop, StartedOnce, Copied, SvcOver
  <2>5. Serving'
    BY <1>1, <2>2, <2>4 DEF ServiceInv, Serving
  <2> QED BY <1>1, <2>1, <2>2, <2>5 DEF ServiceInv, ServiceTypes, NotServing, HandlerRight
<1>4. CASE Srv!Start
  <2>1. /\ svcMain \in {"none", "ended"} /\ svcMain' = "dispatch" /\ svc' = "register"
        /\ scm' = [scm EXCEPT !.state = "START_PENDING"] /\ svcShutDown' = FALSE
    BY <1>4 DEF Srv!Start
  <2>2. scm' \in ScmRec /\ scm'.state = "START_PENDING" /\ scm'.sent = scm.sent
    BY <2>1 DEF ScmRec, Reported, Srv!ServiceStates
  <2>3. /\ scm.sent = "none" /\ upd["svc"].pc = "idle" /\ handler = "idle" /\ upd["svc"].state # "RUNNING"
    BY <2>1 DEF ServiceInv, NotServing
  <2> QED BY <1>1, <2>1, <2>2, <2>3 DEF ServiceInv, ServiceTypes, NotServing, HandlerRight, Serving, Starting, Early
<1>5. CASE Srv!Control
  <2>1. PICK c \in Srv!Controls : scm' = [scm EXCEPT !.sent = c]
    BY <1>5 DEF Srv!Control
  <2>2. /\ svcMain = "dispatch" /\ scm.state \in {"RUNNING", "PAUSED"} /\ svcMain' = svcMain /\ svc' = svc
        /\ registered' = registered /\ svcShutDown' = svcShutDown
    BY <1>5 DEF Srv!Control, Srv!flags
  <2>3. scm' \in ScmRec /\ scm'.state = scm.state /\ scm'.sent = c /\ c # "none"
    BY <2>1 DEF ScmRec, Srv!Controls
  <2>4. Late /\ ~Starting /\ ~Starting'
    BY <1>1, <2>2, <2>3 DEF ServiceInv, Serving, Early, Starting
  <2>5. Late'
    BY <1>1, <2>2, <2>3, <2>4
       DEF Late, StoppedAtEnd, OverAfterStop, RunningBeforeStop, StartedOnce, Copied, SvcOver
  <2>6. Serving'
    BY <1>1, <2>2, <2>4, <2>5 DEF ServiceInv, Serving
  <2> QED BY <1>1, <2>2, <2>3, <2>6 DEF ServiceInv, ServiceTypes, NotServing, HandlerRight
<1>6. CASE Srv!Console
  <2>1. svcMain = "none" /\ svcMain' = "console" /\ scm' = scm
    BY <1>6 DEF Srv!Console
  <2> QED BY <1>1, <2>1 DEF ServiceInv, ServiceTypes, NotServing, HandlerRight, Serving
<1> QED BY <1>2, <1>3, <1>4, <1>5, <1>6 DEF Srv!Shell

LEMMA ServiceStep ==
  ASSUME ServiceInv, [Srv!Next]_(Srv!vars)
  PROVE  ServiceInv'
<1>1. CASE Srv!ServiceMain
  BY <1>1, RegisterStep, MainMoves DEF Srv!ServiceMain
<1>2. CASE Srv!Handler
  BY <1>2, HandlerStep
<1>3. CASE Srv!Dispatched \/ Srv!Shell
  BY <1>3, ShellStep
<1>4. CASE \E t \in Srv!Threads : Srv!Update(t)
  BY <1>4, SetStateStep, SetServiceStatusStep, ToldStep DEF Srv!Update
<1>5. CASE UNCHANGED Srv!vars
  BY <1>5 DEF Srv!vars, ServiceInv, ServiceTypes, NotServing, HandlerRight, Serving, Starting, Early,
              Late, StoppedAtEnd, OverAfterStop, RunningBeforeStop, StartedOnce, Copied, SvcOver
<1> QED BY <1>1, <1>2, <1>3, <1>4, <1>5 DEF Srv!Next

\* What the manager is never told.
LEMMA StateNotBack ==
  ASSUME ServiceInv, Srv!Next
  PROVE  /\ scm.state = "STOPPED" => scm'.state # "RUNNING"
         /\ scm'.state = "START_PENDING" /\ scm.state # "START_PENDING" => svcMain # "dispatch"
         /\ scm.state = "STOP_PENDING" /\ scm'.state = "RUNNING" =>
              status' # "RUNNING" /\ \A t \in Srv!Threads : upd'[t].state # "RUNNING"
<1> USE ServiceFacts
<1>1. CASE \/ Srv!ServiceSpecific \/ Srv!Announce \/ Srv!Work \/ Srv!Wake \/ Srv!Return
           \/ Srv!ServerCtrlHandler \/ Srv!StopPending \/ Srv!Report \/ Srv!Console
           \/ \E t \in Srv!Threads : Srv!SetState(t) \/ Srv!SetServiceStatus(t)
  <2>1. scm' = scm
    BY <1>1 DEF Srv!ServiceSpecific, Srv!Announce, Srv!Work, Srv!Wake, Srv!Return,
                Srv!ServerCtrlHandler, Srv!StopPending, Srv!Report, Srv!Console, Srv!SetState,
                Srv!SetServiceStatus
  <2> QED BY <2>1
<1>2. CASE Srv!HandlerReturns \/ Srv!Create \/ Srv!Delete \/ Srv!Control \/ Srv!Dispatched
  <2>1. scm'.state = scm.state \/ scm'.state = "STOPPED"
    BY <1>2 DEF ScmRec, Srv!HandlerReturns, Srv!Create, Srv!Delete, Srv!Control, Srv!Dispatched
  <2> QED BY <2>1
<1>3. CASE Srv!Register
  <2>1. scm.state = "START_PENDING"
    BY <1>3 DEF Srv!Register, ServiceInv, Serving, Starting, Early
  <2> QED BY <2>1, <1>3 DEF Srv!Register, ScmRec
<1>4. CASE Srv!Start
  <2>1. svcMain # "dispatch" /\ scm'.state = "START_PENDING"
    BY <1>4 DEF Srv!Start, ScmRec
  <2> QED BY <2>1
<1>5. ASSUME NEW t \in Srv!Threads, Srv!Told(t), svcMain # "overflow"
      PROVE  /\ scm.state = "STOPPED" => scm'.state # "RUNNING"
             /\ scm'.state = "START_PENDING" /\ scm.state # "START_PENDING" => svcMain # "dispatch"
             /\ scm.state = "STOP_PENDING" /\ scm'.state = "RUNNING" =>
                  status' # "RUNNING" /\ \A o \in Srv!Threads : upd'[o].state # "RUNNING"
  <2>1. scm'.state = upd[t].state /\ upd[t].pc = "report" /\ t \in {"svc", "handler"} /\ status' = status
    BY <1>5 DEF Srv!Told, ScmRec, Srv!Threads
  <2>2. svcMain = "dispatch"
    BY <1>5, <2>1 DEF ServiceInv, ServiceTypes, NotServing, HandlerRight
  <2>3. CASE Starting
    BY <2>1, <2>2, <2>3 DEF ServiceInv, Serving, Early
  <2>4. CASE ~Starting
    <3>1. Late
      BY <2>2, <2>4 DEF ServiceInv, Serving
    <3>2. scm.state = "STOPPED" => scm'.state # "RUNNING"
      BY <2>1, <3>1 DEF Late, StoppedAtEnd, RunningBeforeStop, Copied
    <3>3. scm'.state # "START_PENDING"
      BY <2>1, <3>1 DEF Late, StartedOnce, Copied
    <3>4. ASSUME scm.state = "STOP_PENDING", scm'.state = "RUNNING"
          PROVE  status' # "RUNNING" /\ \A o \in Srv!Threads : upd'[o].state # "RUNNING"
      <4>1. status # "RUNNING" /\ ~Copied("handler", "RUNNING")
        BY <3>1, <3>4 DEF Late, RunningBeforeStop
      <4>2. t = "svc" /\ upd["handler"].state # "RUNNING"
        BY <2>1, <3>4, <4>1 DEF ServiceInv, HandlerRight, Copied
      <4>3. upd' = [upd EXCEPT !["svc"] = Srv!Idle]
        BY <1>5, <4>2 DEF Srv!Told
      <4> QED BY <2>1, <4>1, <4>2, <4>3 DEF Srv!Threads, Srv!Idle, Srv!KEEP
    <3> QED BY <3>2, <3>3, <3>4
  <2> QED BY <2>3, <2>4
<1> QED BY <1>1, <1>2, <1>3, <1>4, <1>5
        DEF Srv!Next, Srv!ServiceMain, Srv!Handler, Srv!Shell, Srv!Update

-----------------------------------------------------------------------------
(* MCProcesses, all together.                                              *)

ProcessesInv == JobsInv /\ StreamInv /\ ServiceInv

LEMMA ProcessesInvInit == ProcessesInit => ProcessesInv
<1> SUFFICES ASSUME ProcessesInit
             PROVE  ProcessesInv
  OBVIOUS
<1>1. \E p \in Jobs!Programs \cup {"none"} : Jobs!InitOf(p, <<>>)
  BY DEF ProcessesInit, NoJobs, Jobs!Init
<1>2. \E b \in BOOLEAN : Srvr!InitOf(b)
  BY DEF ProcessesInit, NoStream, Srvr!Init
<1>3. \E p \in {"none", "SimpleService", "serviceSK"} : Srv!InitOf(p)
  BY DEF ProcessesInit, NoService, Srv!Init
<1> QED BY <1>1, <1>2, <1>3, JobsInit, StreamInit, ServiceInit DEF ProcessesInv

LEMMA EachOrNothing ==
  ASSUME [ProcessesNext]_processesVars
  PROVE  /\ [Jobs!Next]_(Jobs!vars) /\ [Srvr!Next]_(Srvr!streamVars) /\ [Srv!Next]_(Srv!vars)
<1>1. CASE UNCHANGED processesVars
  BY <1>1 DEF processesVars, jobVars, svcVars, srvVars, Jobs!vars, Srvr!streamVars, Srv!vars
<1>2. CASE ProcessesNext
  BY <1>2 DEF ProcessesNext, jobVars, svcVars, srvVars, Jobs!vars, Srvr!streamVars, Srv!vars
<1> QED BY <1>1, <1>2

LEMMA ProcessesInvStep == ProcessesInv /\ [ProcessesNext]_processesVars => ProcessesInv'
BY EachOrNothing, JobsActions, StreamStep, ServiceStep DEF ProcessesInv

\* OwnTarget for any number of shells, processes, records, clients and slots:
\* kill terminates the process that was told under the number, and a slot of
\* the stream server has one thread and its handle.
THEOREM WorksOnItsOwn == ProcessesSpec => []OwnTarget
<1>1. ProcessesInv => OwnTarget
  BY JobsRight, StreamRight DEF ProcessesInv, OwnTarget
<1> QED BY <1>1, ProcessesInvInit, ProcessesInvStep, PTL DEF ProcessesSpec

\* NoSetback for the same: jobbg overwrites no active job, jobs of
\* JobShell_secure removes none whose process exists, and the manager of the
\* services is told of no service that it runs again after it has stopped,
\* of none that it starts once more, and at most once, of a copy made before,
\* that it runs when it has announced that it will stop.
THEOREM NothingSetBack == ProcessesSpec => NoSetback
<1>1. ASSUME ProcessesInv, [ProcessesNext]_processesVars
      PROVE  /\ [\A i \in 1..Len(file) : file'[i] # file[i] /\ file[i] # 0 /\ file'[i] # 0 =>
                   ~Jobs!Active(file[i])]_(Jobs!vars)
             /\ [shell = "JobShell_secure" =>
                   \A s \in Shells : Jobs!Removes(s) /\ sh[s].size > 0 =>
                     file[sh[s].i] = 0 \/ ~Jobs!Exists(file[sh[s].i])]_(Jobs!vars)
             /\ [/\ scm.state = "STOPPED" => scm'.state # "RUNNING"
                 /\ scm'.state = "START_PENDING" /\ scm.state # "START_PENDING" => svcMain # "dispatch"
                 /\ scm.state = "STOP_PENDING" /\ scm'.state = "RUNNING" =>
                      status' # "RUNNING" /\ \A t \in Srv!Threads : upd'[t].state # "RUNNING"]_(Srv!vars)
  BY <1>1, EachOrNothing, JobsActions, StateNotBack DEF ProcessesInv
<1> QED BY <1>1, ProcessesInvInit, ProcessesInvStep, PTL
        DEF ProcessesSpec, NoSetback, Jobs!ActiveNotOverwritten, Jobs!SecureRemoval, Srv!NeverBack

-----------------------------------------------------------------------------
(* The socket server, for any number of slots.                             *)

InService == {"loop", "recv", "command", "stop"}
Idle == {"none", "ended"}
Draining == {"drain", "wait1", "wait2"}

\* TypeOK with the count of running threads tied to the slots looked at.
Types ==
  /\ TypeOK
  /\ main \in Draining => nRunningThreads <= iThread
  /\ main \notin Draining => nRunningThreads = 0

\* Who is inside the critical section of a slot.
Holders ==
  \A i \in Slots :
    /\ threadCs[i] = "main" <=> main \in {"reap", "wait1", "wait2"} /\ i = iThread
    /\ threadCs[i] = "accept" <=> accept = "created" /\ i = aSlot

\* What the state of a slot says about its server thread and its handle.
SlotMeaning ==
  \A i \in Slots :
    /\ thState[i] = "FREE" /\ threadCs[i] # "accept" => server[i] \in Idle
    /\ thState[i] = "INVALID" => server[i] \in Idle
    /\ thState[i] \in {"RUNNING", "STOPPED"} \/ server[i] \in InService => hSrvThread[i]

\* The slot of the accept thread stays free until it is announced; a server
\* thread just created cannot post its stop.
AcceptMeaning ==
  /\ main \in {"poll", "reap"} => accept = "none"
  /\ accept \in {"accept", "accepted", "created"} => thState[aSlot] = "FREE"
  /\ accept = "created" =>
       /\ hSrvThread[aSlot]
       /\ server[aSlot] \in InService \/ (server[aSlot] = "ended" /\ aSlot \in faulted)

\* The slot main waits on.
MainMeaning ==
  /\ main = "reap" => thState[iThread] = "STOPPED"
  /\ main \in {"wait1", "wait2"} => thState[iThread] \in {"RUNNING", "STOPPED"}

\* After Control-C no thread begins a command; those found in one are counted.
Counted ==
  /\ main \in Draining \cup {"join"} => shutFlag
  /\ main \in Draining /\ nRunningThreads = 0 =>
       \A i \in Slots : i < iThread => server[i] \notin {"recv", "command"}
  /\ LibraryUnused

KInv == Types /\ Holders /\ SlotMeaning /\ AcceptMeaning /\ MainMeaning /\ Counted /\ StopNotLost

LEMMA KInvInit == Init => KInv
<1> SUFFICES ASSUME Init
             PROVE  KInv
  OBVIOUS
<1> USE ServerSKAssumption DEF Init, InitOf, Slots
<1>1. Types
  <2>1. 0 \in Slots /\ Running \in Int
    BY DEF Running
  <2>2. /\ thState \in [Slots -> SlotStates]
        /\ threadCs \in [Slots -> Owners]
        /\ hSrvThread \in [Slots -> BOOLEAN]
        /\ server \in [Slots -> ServerLabels]
    BY DEF SlotStates, Owners, ServerLabels
  <2> QED
    BY <2>1, <2>2 DEF Types, TypeOK, MainLabels, AcceptLabels, Draining
<1>2. Holders
  BY DEF Holders
<1>3. SlotMeaning
  BY DEF SlotMeaning, InService, Idle
<1>4. AcceptMeaning /\ MainMeaning
  BY DEF AcceptMeaning, MainMeaning
<1>5. Counted
  BY DEF Counted, LibraryUnused, Draining
<1>6. StopNotLost
  BY DEF StopNotLost
<1> QED BY <1>1, <1>2, <1>3, <1>4, <1>5, <1>6 DEF KInv

\* A step of the main thread keeps the invariant.
LEMMA SlotMainStep == KInv /\ Main => KInv'
<1> SUFFICES ASSUME KInv, Main
             PROVE  KInv'
  OBVIOUS
<1> USE ServerSKAssumption
<1> USE DEF KInv, Types, TypeOK, Holders, SlotMeaning, AcceptMeaning, MainMeaning, Counted,
            StopNotLost, LibraryUnused, Slots, SlotStates, Owners, MainLabels,
            AcceptLabels, ServerLabels, InService, Idle, Draining,
            slots, servers, position, accepting
<1>1. CASE PollFree
  BY <1>1 DEF PollFree, UseSlot
<1>2. CASE PollBusy
  BY <1>2 DEF PollBusy
<1>3. CASE PollStopped
  BY <1>3 DEF PollStopped
<1>4. CASE Reap
  BY <1>4 DEF Reap, UseSlot
<1>5. CASE PollShutdown
  BY <1>5 DEF PollShutdown
<1>6. CASE AwaitAccepted
  BY <1>6 DEF AwaitAccepted
<1>7. CASE AwaitShutdown
  BY <1>7 DEF AwaitShutdown
<1>8. CASE DrainIdle
  BY <1>8 DEF DrainIdle, NextSlot
<1>9. CASE DrainActive
  BY <1>9 DEF DrainActive
<1>10. CASE WaitEnded
  BY <1>10 DEF WaitEnded, NextSlot
<1>11. CASE WaitTimedOut
  BY <1>11 DEF WaitTimedOut
<1>12. CASE WaitAgain
  BY <1>12 DEF WaitAgain, NextSlot
<1>13. CASE Return
  BY <1>13 DEF Return
<1> QED BY <1>1, <1>2, <1>3, <1>4, <1>5, <1>6, <1>7, <1>8, <1>9, <1>10, <1>11, <1>12, <1>13 DEF Main

\* A step of the accept thread keeps the invariant.
LEMMA SlotAcceptStep ==
  KInv /\ (Accept \/ AcceptFails \/ CreateServer \/ MarkRunning) => KInv'
<1> SUFFICES ASSUME KInv, Accept \/ AcceptFails \/ CreateServer \/ MarkRunning
             PROVE  KInv'
  OBVIOUS
<1> USE ServerSKAssumption
<1> USE DEF KInv, Types, TypeOK, Holders, SlotMeaning, AcceptMeaning, MainMeaning, Counted,
            StopNotLost, LibraryUnused, Slots, SlotStates, Owners, MainLabels,
            AcceptLabels, ServerLabels, InService, Idle, Draining,
            slots, servers, position, accepting
<1>1. CASE Accept
  BY <1>1 DEF Accept
<1>2. CASE AcceptFails
  BY <1>2 DEF AcceptFails, ReportError
<1>3. CASE CreateServer
  BY <1>3 DEF CreateServer
<1>4. CASE MarkRunning
  BY <1>4 DEF MarkRunning
<1> QED BY <1>1, <1>2, <1>3, <1>4

\* A step of a server thread, the handler or a broken connection keeps the invariant.
LEMMA ServerStep ==
  ASSUME KInv, NEW k \in Slots, Server(k) \/ ConnectionBreaks(k)
  PROVE  KInv'
<1> USE ServerSKAssumption
<1> USE DEF KInv, Types, TypeOK, Holders, SlotMeaning, AcceptMeaning, MainMeaning, Counted,
            StopNotLost, LibraryUnused, Slots, SlotStates, Owners, MainLabels,
            AcceptLabels, ServerLabels, InService, Idle, Draining,
            slots, servers, position, accepting
<1>1. CASE TestShutFlag(k)
  BY <1>1 DEF TestShutFlag, ServerGoes
<1>2. CASE ReceiveRequest(k)
  BY <1>2 DEF ReceiveRequest, ServerGoes
<1>3. CASE ExecuteCommand(k)
  BY <1>3 DEF ExecuteCommand, ServerGoes
<1>4. CASE CommandException(k)
  BY <1>4 DEF CommandException, ServerGoes
<1>5. CASE PostStopped(k)
  BY <1>5 DEF PostStopped, ServerGoes
<1>6. CASE EndServer(k)
  BY <1>6 DEF EndServer, ServerGoes
<1>7. CASE ConnectionBreaks(k)
  BY <1>7 DEF ConnectionBreaks, ReportError
<1> QED BY <1>1, <1>2, <1>3, <1>4, <1>5, <1>6, <1>7 DEF Server

LEMMA KInvNext == KInv /\ [Next]_vars => KInv'
<1> SUFFICES ASSUME KInv, [Next]_vars
             PROVE  KInv'
  OBVIOUS
<1>1. CASE Main
  BY <1>1, SlotMainStep
<1>2. CASE Accept \/ AcceptFails \/ CreateServer \/ MarkRunning
  BY <1>2, SlotAcceptStep
<1>3. CASE \E k \in Slots : Server(k) \/ ConnectionBreaks(k)
  BY <1>3, ServerStep
<1>4. CASE Handler
  BY <1>4 DEF Handler, KInv, Types, TypeOK, Holders, SlotMeaning, AcceptMeaning,
              MainMeaning, Counted, StopNotLost, LibraryUnused, slots, servers,
              position, accepting
<1>5. CASE Ended \/ UNCHANGED vars
  BY <1>5 DEF Ended, vars, KInv, Types, TypeOK, Holders, SlotMeaning, AcceptMeaning,
              MainMeaning, Counted, StopNotLost, LibraryUnused
<1> QED BY <1>1, <1>2, <1>3, <1>4, <1>5 DEF Next

THEOREM SlotInvariant == Spec => []KInv
BY KInvInit, KInvNext, PTL DEF Spec

-----------------------------------------------------------------------------
\* Every variable of the server has its type: the polling index stays in the
\* table, and at most all other slots are counted as running.
THEOREM ServerTypes == Spec => []TypeOK
<1>1. KInv => TypeOK
  BY DEF KInv, Types
<1> QED BY <1>1, SlotInvariant, PTL

\* A slot is given to an accept thread only when its last server thread has
\* ended.
THEOREM SlotsReusedSafely == Spec => []SlotUnused
<1>1. KInv => SlotUnused
  BY DEF KInv, Types, TypeOK, Holders, SlotMeaning, AcceptMeaning, SlotUnused, Slots, Idle
<1> QED BY <1>1, SlotInvariant, PTL

\* The stop of a server thread is not overwritten by the announcement that it
\* runs.
THEOREM StopsAreSeen == Spec => []StopNotLost
<1>1. KInv => StopNotLost
  BY DEF KInv
<1> QED BY <1>1, SlotInvariant, PTL

\* The main thread waits only on handles it knows.
THEOREM HandlesAreKnown == Spec => []WaitsOnHandle
<1>1. KInv => WaitsOnHandle
  BY DEF KInv, Types, TypeOK, SlotMeaning, MainMeaning, WaitsOnHandle
<1> QED BY <1>1, SlotInvariant, PTL

\* The shared library is freed only when no server thread is in a command.
THEOREM LibraryFreedUnused == Spec => []LibraryUnused
<1>1. KInv => LibraryUnused
  BY DEF KInv, Counted
<1> QED BY <1>1, SlotInvariant, PTL

-----------------------------------------------------------------------------
(* ReceiveCSMessage: bytes and their nuls.                                 *)

Bytes == Seq(Nat)
\* HasNul, without the library's names.
LEMMA NulIs == \A s : Msg!HasNul(s) <=> \E i \in 1 .. Len(s) : s[i] = 0
BY DEF Msg!HasNul, Msg!Contains, Msg!NUL

\* Bytes that agree everywhere are the same.
LEMMA SameBytes ==
  \A s, t \in Bytes : Len(s) = Len(t) /\ (\A i \in 1 .. Len(s) : s[i] = t[i]) => s = t
BY DEF Bytes

\* Characters, a nul, and more bytes.
Joined(u, v) == Cat(Append(u, Msg!NUL), v)
LEMMA JoinedAre ==
  ASSUME NEW u \in Bytes, NEW v \in Bytes
  PROVE  /\ Joined(u, v) \in Bytes /\ Len(Joined(u, v)) = Len(u) + 1 + Len(v)
         /\ Joined(u, v)[Len(u) + 1] = 0
         /\ \A i \in 1 .. Len(u) : Joined(u, v)[i] = u[i]
         /\ \A i \in 1 .. Len(v) : Joined(u, v)[Len(u) + 1 + i] = v[i]
<1> DEFINE s == Append(u, 0) \o v
<1>1. /\ s \in Bytes /\ Len(s) = Len(u) + 1 + Len(v) /\ s[Len(u) + 1] = 0
      /\ \A i \in 1 .. Len(u) : s[i] = u[i]
      /\ \A i \in 1 .. Len(v) : s[Len(u) + 1 + i] = v[i]
  BY DEF Bytes
<1> HIDE DEF s
<1> QED BY <1>1 DEF Joined, Cat, Msg!NUL, s

\* They have the nul.
LEMMA NulInside == ASSUME NEW u \in Bytes, NEW v \in Bytes PROVE Msg!HasNul(Joined(u, v))
<1>1. Joined(u, v)[Len(u) + 1] = 0 /\ Len(Joined(u, v)) = Len(u) + 1 + Len(v)
  BY JoinedAre
<1>2. Len(u) \in Nat /\ Len(v) \in Nat
  BY DEF Bytes
<1>3. Len(u) + 1 \in 1 .. Len(Joined(u, v))
  BY <1>1, <1>2
<1> QED BY <1>1, <1>3, NulIs

\* Bytes with a nul are the characters before the first, the nul, and what follows.
LEMMA NulSplits ==
  ASSUME NEW s \in Bytes, Msg!HasNul(s)
  PROVE  /\ Msg!BeforeNul(s) \in Bytes /\ ~Msg!HasNul(Msg!BeforeNul(s))
         /\ Msg!AfterNul(s) \in Bytes /\ Len(Msg!AfterNul(s)) < Len(s)
         /\ s = Joined(Msg!BeforeNul(s), Msg!AfterNul(s))
<1> DEFINE X == {i \in 1 .. Len(s) : s[i] = Msg!NUL}
           p == Msg!SelectInSeq(s, LAMBDA b : b = Msg!NUL)
<1>1. X # {} /\ X \subseteq Nat
  BY NulIs DEF Msg!NUL
<1>2. p = CHOOSE x \in X : \A y \in X : x <= y
  BY <1>1, Zenon DEF Msg!SelectInSeq, Msg!Min
<1>3. p \in X /\ \A y \in X : p <= y
  <2>1. \E x \in X : \A y \in X : x <= y
    BY <1>1, LeastNumber
  <2> HIDE DEF X, p
  <2> QED BY <1>2, <2>1, Zenon
<1>4. Msg!BeforeNul(s) = SubSeq(s, 1, p - 1) /\ Msg!AfterNul(s) = SubSeq(s, p + 1, Len(s))
  BY DEF Msg!BeforeNul, Msg!AfterNul
<1>5. p \in 1 .. Len(s) /\ s[p] = 0 /\ \A i \in 1 .. p - 1 : s[i] # 0
  BY <1>3 DEF Msg!NUL
<1> HIDE DEF p
<1> DEFINE b == SubSeq(s, 1, p - 1)
           a == SubSeq(s, p + 1, Len(s))
<1>6. /\ b \in Bytes /\ Len(b) = p - 1 /\ \A i \in 1 .. p - 1 : b[i] = s[i]
      /\ a \in Bytes /\ Len(a) = Len(s) - p /\ \A i \in 1 .. Len(s) - p : a[i] = s[i + p]
  BY <1>5 DEF Bytes
<1>7. ~Msg!HasNul(b)
  BY <1>5, <1>6, NulIs
<1> HIDE DEF a, b
<1>8. s = Joined(b, a)
  <2> DEFINE t == Joined(b, a)
  <2>1. /\ t \in Bytes /\ Len(t) = Len(b) + 1 + Len(a) /\ t[Len(b) + 1] = 0
        /\ \A i \in 1 .. Len(b) : t[i] = b[i]
        /\ \A i \in 1 .. Len(a) : t[Len(b) + 1 + i] = a[i]
    BY <1>6, JoinedAre
  <2> HIDE DEF t
  <2>2. Len(t) = Len(s) /\ Len(s) \in Nat
    BY <1>5, <1>6, <2>1 DEF Bytes
  <2>3. ASSUME NEW i \in 1 .. Len(s) PROVE s[i] = t[i]
    <3>1. CASE i < p
      BY <1>5, <1>6, <2>1, <3>1
    <3>2. CASE i = p
      BY <1>5, <1>6, <2>1, <3>2
    <3>3. CASE i > p
      <4>1. i - p \in 1 .. Len(a) /\ i = Len(b) + 1 + (i - p)
        BY <1>5, <1>6, <2>2, <3>3
      <4>2. t[i] = a[i - p] /\ a[i - p] = s[(i - p) + p] /\ (i - p) + p = i
        BY <1>5, <1>6, <2>1, <4>1
      <4> QED BY <4>2
    <3> QED BY <1>5, <3>1, <3>2, <3>3
  <2> QED BY <2>1, <2>2, <2>3, SameBytes DEF t
<1>9. Len(a) < Len(s)
  BY <1>5, <1>6
<1> QED BY <1>4, <1>6, <1>7, <1>8, <1>9 DEF a, b

\* There is one way to cut bytes at their first nul.
LEMMA OneCut ==
  ASSUME NEW u \in Bytes, NEW v \in Bytes, NEW m \in Bytes, NEW z \in Bytes,
         ~Msg!HasNul(u), ~Msg!HasNul(m),
         Joined(u, v) = Joined(m, z)
  PROVE  u = m /\ v = z
<1> DEFINE s == Joined(u, v)
           k == Len(u)
           l == Len(m)
<1>2. k \in Nat /\ l \in Nat
  BY DEF Bytes
<1>3. /\ \A i \in 1 .. k : s[i] = u[i] /\ u[i] # 0
      /\ s[k + 1] = 0 /\ Len(s) = k + 1 + Len(v) /\ \A i \in 1 .. Len(v) : s[k + 1 + i] = v[i]
  BY JoinedAre, NulIs
<1>4. /\ \A i \in 1 .. l : s[i] = m[i] /\ m[i] # 0
      /\ s[l + 1] = 0 /\ Len(s) = l + 1 + Len(z) /\ \A i \in 1 .. Len(z) : s[l + 1 + i] = z[i]
  <2> DEFINE t == Joined(m, z)
  <2>1. /\ t[l + 1] = 0 /\ Len(t) = l + 1 + Len(z) /\ \A i \in 1 .. l : t[i] = m[i]
        /\ \A i \in 1 .. Len(z) : t[l + 1 + i] = z[i]
    BY JoinedAre
  <2>2. s = t
    OBVIOUS
  <2> HIDE DEF s, t
  <2> QED BY <2>1, <2>2, NulIs
<1> HIDE DEF s
<1>5. k = l
  <2>1. ASSUME k < l PROVE FALSE
    <3>1. k + 1 \in 1 .. l
      BY <1>2, <2>1
    <3>2. s[k + 1] # 0
      BY <1>4, <3>1
    <3> QED BY <1>3, <3>2
  <2>2. ASSUME l < k PROVE FALSE
    <3>1. l + 1 \in 1 .. k
      BY <1>2, <2>2
    <3>2. s[l + 1] # 0
      BY <1>3, <3>1
    <3> QED BY <1>4, <3>2
  <2> QED BY <1>2, <2>1, <2>2
<1>6. u = m
  <2>1. \A i \in 1 .. k : u[i] = m[i]
    BY <1>3, <1>4, <1>5
  <2> QED BY <1>5, <2>1, SameBytes
<1>7. v = z
  <2>1. Len(v) = Len(z)
    BY <1>2, <1>3, <1>4, <1>5 DEF Bytes
  <2>2. \A i \in 1 .. Len(v) : v[i] = z[i]
    BY <1>3, <1>4, <1>5, <2>1
  <2> QED BY <2>1, <2>2, SameBytes
<1> QED BY <1>6, <1>7

\* Bytes without a nul are at most the characters up to the first.
LEMMA NoCut ==
  ASSUME NEW u \in Bytes, NEW w \in Bytes, NEW m \in Bytes, NEW z \in Bytes,
         ~Msg!HasNul(u), Cat(u, w) = Joined(m, z)
  PROVE  Len(u) <= Len(m)
<1> DEFINE s == u \o w
           l == Len(m)
<1>1. \A i \in 1 .. Len(u) : s[i] = u[i] /\ u[i] # 0
  BY NulIs DEF Bytes
<1>3. s[l + 1] = 0 /\ l \in Nat
  <2> DEFINE t == Joined(m, z)
  <2>1. t[l + 1] = 0
    BY JoinedAre, Zenon
  <2>2. s = t
    BY DEF Cat
  <2>3. l \in Nat
    BY DEF Bytes
  <2> HIDE DEF s, t, l
  <2> QED BY <2>1, <2>2, <2>3
<1> HIDE DEF s, l
<1>4. Len(u) \in Nat
  BY DEF Bytes
<1> QED BY <1>1, <1>3, <1>4 DEF l

\* Bytes before and behind each other.
LEMMA CatAre ==
  ASSUME NEW x \in Bytes, NEW y \in Bytes
  PROVE  /\ Cat(x, y) \in Bytes /\ Len(Cat(x, y)) = Len(x) + Len(y)
         /\ \A i \in 1 .. Len(x) : Cat(x, y)[i] = x[i]
         /\ \A i \in 1 .. Len(y) : Cat(x, y)[Len(x) + i] = y[i]
<1> DEFINE s == x \o y
<1>1. /\ s \in Bytes /\ Len(s) = Len(x) + Len(y)
      /\ \A i \in 1 .. Len(x) : s[i] = x[i]
      /\ \A i \in 1 .. Len(y) : s[Len(x) + i] = y[i]
  BY DEF Bytes
<1> HIDE DEF s
<1> QED BY <1>1 DEF Cat, s

\* Joining them is associative.
LEMMA BytesAssociate ==
  ASSUME NEW u \in Bytes, NEW v \in Bytes, NEW w \in Bytes
  PROVE  Cat(Cat(u, v), w) = Cat(u, Cat(v, w))
<1>1. PICK N : N = Nat
  OBVIOUS
<1>2. u \in Seq(N) /\ v \in Seq(N) /\ w \in Seq(N)
  BY <1>1 DEF Bytes
<1>3. \A a, b, c \in Seq(N) : (a \o b) \o c = a \o (b \o c)
  BY Associative
<1>4. (u \o v) \o w = u \o (v \o w)
  BY <1>2, <1>3, Zenon
<1> QED BY <1>4, Zenon DEF Cat

\* The empty bytes change nothing, and a nul goes behind what is behind.
LEMMA BytesJoin ==
  /\ \A u \in Bytes : Cat(<<>>, u) = u /\ Cat(u, <<>>) = u
  /\ \A u, v \in Bytes : Cat(u, Append(v, Msg!NUL)) = Append(Cat(u, v), Msg!NUL)
<1>2. \A u \in Seq(Nat) : Cat(<<>>, u) = u /\ Cat(u, <<>>) = u
  BY CatFacts
<1>3. \A u, v \in Seq(Nat), m \in Nat : Cat(u, Append(v, m)) = Append(Cat(u, v), m)
  BY CatFacts
<1>4. Msg!NUL \in Nat
  BY DEF Msg!NUL
<1> QED BY <1>2, <1>3, <1>4 DEF Bytes

\* Joining bytes, and when the result has a nul.
LEMMA NulJoin ==
  \A x, y \in Bytes : /\ Cat(x, y) \in Bytes /\ Len(Cat(x, y)) = Len(x) + Len(y)
                      /\ (Msg!HasNul(Cat(x, y)) <=> (Msg!HasNul(x) \/ Msg!HasNul(y)))
<1> TAKE x, y \in Bytes
<1> DEFINE s == Cat(x, y)
<1>1. /\ s \in Bytes /\ Len(s) = Len(x) + Len(y)
      /\ \A i \in 1 .. Len(x) : s[i] = x[i]
      /\ \A i \in 1 .. Len(y) : s[Len(x) + i] = y[i]
  BY CatAre
<1>8. Len(x) \in Nat /\ Len(y) \in Nat
  BY DEF Bytes
<1> HIDE DEF s
<1>2. ASSUME NEW i \in 1 .. Len(s) PROVE i \in 1 .. Len(x) \/ \E j \in 1 .. Len(y) : i = Len(x) + j
  <2>1. CASE i <= Len(x)
    BY <1>1, <1>8, <2>1
  <2>2. CASE i > Len(x)
    <3>1. i - Len(x) \in 1 .. Len(y) /\ i = Len(x) + (i - Len(x))
      BY <1>1, <1>8, <2>2
    <3> QED BY <3>1
  <2> QED BY <1>1, <1>8, <2>1, <2>2
<1>3. \A i \in 1 .. Len(x) : i \in 1 .. Len(s)
  BY <1>1, <1>8
<1>4. \A i \in 1 .. Len(y) : Len(x) + i \in 1 .. Len(s)
  BY <1>1, <1>8
<1>5. ASSUME Msg!HasNul(s) PROVE Msg!HasNul(x) \/ Msg!HasNul(y)
  <2>1. PICK i \in 1 .. Len(s) : s[i] = 0
    BY <1>5, NulIs
  <2> QED BY <1>1, <1>8, <1>2, <2>1, NulIs
<1>6. ASSUME Msg!HasNul(x) PROVE Msg!HasNul(s)
  <2>1. PICK i \in 1 .. Len(x) : x[i] = 0
    BY <1>6, NulIs
  <2> QED BY <1>1, <1>8, <1>3, <2>1, NulIs
<1>7. ASSUME Msg!HasNul(y) PROVE Msg!HasNul(s)
  <2>1. PICK i \in 1 .. Len(y) : y[i] = 0
    BY <1>7, NulIs
  <2> QED BY <1>1, <1>8, <1>4, <2>1, NulIs
<1> QED BY <1>1, <1>8, <1>5, <1>6, <1>7 DEF s

\* Cutting bytes anywhere and joining the parts.
LEMMA SubSeqsJoin ==
  \A s \in Bytes, n \in Nat : n \in 1 .. Len(s) =>
    /\ SubSeq(s, 1, n) \in Bytes /\ Len(SubSeq(s, 1, n)) = n
    /\ SubSeq(s, n + 1, Len(s)) \in Bytes
    /\ s = Cat(SubSeq(s, 1, n), SubSeq(s, n + 1, Len(s)))
<1> TAKE s \in Bytes, n \in Nat
<1> SUFFICES ASSUME n \in 1 .. Len(s)
             PROVE  /\ SubSeq(s, 1, n) \in Bytes /\ Len(SubSeq(s, 1, n)) = n
                    /\ SubSeq(s, n + 1, Len(s)) \in Bytes
                    /\ s = Cat(SubSeq(s, 1, n), SubSeq(s, n + 1, Len(s)))
  OBVIOUS
<1> DEFINE a == SubSeq(s, 1, n)
           b == SubSeq(s, n + 1, Len(s))
           t == Cat(a, b)
<1>1. /\ a \in Bytes /\ Len(a) = n /\ \A i \in 1 .. n : a[i] = s[i]
      /\ b \in Bytes /\ Len(b) = Len(s) - n /\ \A i \in 1 .. Len(s) - n : b[i] = s[n + i]
  BY DEF Bytes
<1> HIDE DEF a, b
<1>2. /\ t \in Bytes /\ Len(t) = Len(s) /\ \A i \in 1 .. n : t[i] = a[i]
      /\ \A i \in 1 .. Len(s) - n : t[n + i] = b[i]
  <2>1. Len(s) \in Nat
    BY DEF Bytes
  <2>2. /\ t \in Bytes /\ Len(t) = Len(a) + Len(b) /\ \A i \in 1 .. Len(a) : t[i] = a[i]
        /\ \A i \in 1 .. Len(b) : t[Len(a) + i] = b[i]
    BY <1>1, CatAre
  <2> QED BY <1>1, <2>1, <2>2
<1> HIDE DEF t
<1>3. ASSUME NEW i \in 1 .. Len(s) PROVE t[i] = s[i]
  <2>1. CASE i <= n
    BY <1>1, <1>2, <2>1
  <2>2. CASE i > n
    <3>1. Len(s) \in Nat
      BY DEF Bytes
    <3>2. i - n \in 1 .. Len(s) - n /\ n + (i - n) = i
      BY <2>2, <3>1
    <3>3. t[n + (i - n)] = b[i - n]
      BY <1>2, <3>2
    <3>4. b[i - n] = s[n + (i - n)]
      BY <1>1, <3>2
    <3> QED BY <3>2, <3>3, <3>4
  <2> QED BY <2>1, <2>2
<1>4. t = s
  BY <1>2, <1>3, SameBytes
<1> QED BY <1>1, <1>4 DEF a, b, t

-----------------------------------------------------------------------------
(* The messages of the stream, and what has been received of it.           *)

\* The characters of the n-th message, and what is sent after the k-th.
Chars(ls, n) == [i \in 1 .. ls[n] |-> n]
BlocksFrom(ls, k) == [n \in 1 .. Len(ls) - k |-> Append(Chars(ls, n + k), Msg!NUL)]
Rest(ls, k) == FlattenSeq(BlocksFrom(ls, k))
\* At first that is the stream.
LEMMA RestFirst == lengths \in Seq(Nat) => Rest(lengths, 0) = Msg!Stream
<1> SUFFICES ASSUME lengths \in Seq(Nat) PROVE Rest(lengths, 0) = Msg!Stream
  OBVIOUS
<1>1. \A s : Msg!FlattenSeq(s) = FlattenSeq(s)
  BY DEF Msg!FlattenSeq, FlattenSeq
<1>2. BlocksFrom(lengths, 0) = [n \in 1 .. Len(lengths) |-> Append(Msg!Message(n), Msg!NUL)]
  BY DEF BlocksFrom, Chars, Msg!Message
<1> QED BY <1>1, <1>2, Zenon DEF Rest, Msg!Stream

\* What is left of the stream is one message, and what is left after it.
LEMMA RestIs ==
  ASSUME NEW ls \in Seq(Nat)
  PROVE  /\ Rest(ls, Len(ls)) = <<>>
         /\ \A k \in 0 .. Len(ls) : Rest(ls, k) \in Bytes
         /\ \A k \in 0 .. Len(ls) - 1 :
              /\ Rest(ls, k) = Joined(Chars(ls, k + 1), Rest(ls, k + 1))
              /\ Chars(ls, k + 1) \in Bytes /\ ~Msg!HasNul(Chars(ls, k + 1))
              /\ Len(Chars(ls, k + 1)) = ls[k + 1]
<1>0. Len(ls) \in Nat /\ \A n \in 1 .. Len(ls) : ls[n] \in Nat
  OBVIOUS
<1>1. ASSUME NEW n \in 1 .. Len(ls)
      PROVE  /\ Chars(ls, n) \in Bytes /\ Len(Chars(ls, n)) = ls[n]
             /\ ~Msg!HasNul(Chars(ls, n)) /\ Append(Chars(ls, n), Msg!NUL) \in Bytes
  <2> DEFINE m == [i \in 1 .. ls[n] |-> n]
  <2>1. ls[n] \in Nat /\ n \in Nat \ {0}
    BY <1>0
  <2>2. m \in Seq(Nat) /\ Len(m) = ls[n] /\ \A i \in 1 .. Len(m) : m[i] # 0
    BY <2>1
  <2> HIDE DEF m
  <2>3. Append(m, 0) \in Seq(Nat)
    BY <2>2
  <2>4. Chars(ls, n) = m
    BY DEF Chars, m
  <2> QED BY <2>2, <2>3, <2>4, NulIs DEF Bytes, Msg!NUL
<1>2. \A k \in 0 .. Len(ls) :
        /\ BlocksFrom(ls, k) \in Seq(Bytes) /\ Len(BlocksFrom(ls, k)) = Len(ls) - k
        /\ \A n \in 1 .. Len(ls) - k : BlocksFrom(ls, k)[n] = Append(Chars(ls, n + k), Msg!NUL)
  <2> TAKE k \in 0 .. Len(ls)
  <2> DEFINE l == Len(ls) - k
             b == [n \in 1 .. l |-> Append(Chars(ls, n + k), Msg!NUL)]
  <2>1. l \in Nat /\ \A n \in 1 .. l : n + k \in 1 .. Len(ls)
    BY <1>0
  <2>2. \A n \in 1 .. l : Append(Chars(ls, n + k), Msg!NUL) \in Bytes
    BY <1>1, <2>1
  <2> HIDE DEF l
  <2>3. b \in Seq(Bytes) /\ Len(b) = l
    BY <2>1, <2>2
  <2> QED BY <2>3 DEF BlocksFrom, l
<1>4. Rest(ls, Len(ls)) = <<>>
  <2>1. Len(BlocksFrom(ls, Len(ls))) = 0 /\ BlocksFrom(ls, Len(ls)) \in Seq(Bytes)
    BY <1>0, <1>2
  <2>2. BlocksFrom(ls, Len(ls)) = <<>>
    BY <2>1
  <2> QED BY <2>2, FlatEmpty DEF Rest
<1>5. ASSUME NEW k \in 0 .. Len(ls) PROVE Rest(ls, k) \in Bytes
  BY <1>2, FlatSeq DEF Rest, Bytes
<1>6. ASSUME NEW k \in 0 .. Len(ls) - 1
      PROVE  Rest(ls, k) = Joined(Chars(ls, k + 1), Rest(ls, k + 1))
  <2> DEFINE b == BlocksFrom(ls, k)
             c == BlocksFrom(ls, k + 1)
             l == Len(ls) - k
  <2>1. k \in 0 .. Len(ls) /\ k + 1 \in 0 .. Len(ls) /\ l \in Nat \ {0}
    BY <1>0
  <2>2. /\ b \in Seq(Bytes) /\ Len(b) = l
        /\ \A n \in 1 .. l : b[n] = Append(Chars(ls, n + k), Msg!NUL)
    BY <1>2, <2>1
  <2>3. /\ c \in Seq(Bytes) /\ Len(c) = l - 1
        /\ \A n \in 1 .. l - 1 : c[n] = Append(Chars(ls, n + (k + 1)), Msg!NUL)
    <3>1. Len(ls) - (k + 1) = l - 1
      BY <1>0
    <3> QED BY <1>2, <2>1, <3>1
  <2> HIDE DEF b, c, l
  <2>4. Head(b) = Append(Chars(ls, k + 1), Msg!NUL)
    <3>1. 1 \in 1 .. l /\ 1 + k = k + 1
      BY <2>1
    <3> QED BY <2>2, <3>1
  <2>5. Tail(b) = c
    <3>1. Len(Tail(b)) = l - 1 /\ Tail(b) \in Seq(Bytes) /\ \A n \in 1 .. l - 1 : Tail(b)[n] = b[n + 1]
      BY <2>1, <2>2
    <3>2. ASSUME NEW n \in 1 .. l - 1 PROVE Tail(b)[n] = c[n]
      <4>1. n + 1 \in 1 .. l /\ (n + 1) + k = n + (k + 1)
        BY <2>1
      <4> QED BY <2>2, <2>3, <3>1, <4>1
    <3> QED BY <2>1, <2>3, <3>1, <3>2
  <2>6. b # <<>>
    BY <2>1, <2>2
  <2>7. FlattenSeq(b) = Head(b) \o FlattenSeq(Tail(b))
    BY <2>2, <2>6, FlatHead DEF Bytes
  <2> QED BY <2>4, <2>5, <2>7 DEF Rest, Joined, Cat, b, c
<1>7. ASSUME NEW k \in 0 .. Len(ls) - 1
      PROVE  /\ Chars(ls, k + 1) \in Bytes /\ ~Msg!HasNul(Chars(ls, k + 1))
             /\ Len(Chars(ls, k + 1)) = ls[k + 1]
  <2>1. k + 1 \in 1 .. Len(ls)
    BY <1>0
  <2> QED BY <1>1, <2>1
<1> QED BY <1>4, <1>5, <1>6, <1>7

\* What the messages returned were on the wire.
MessageRec == [chars : Bytes, whole : BOOLEAN]
Sent(x) == IF x.whole THEN Append(x.chars, Msg!NUL) ELSE x.chars
Got(r) == FlattenSeq([i \in 1 .. Len(r) |-> Sent(r[i])])
\* One more message is got.
LEMMA GotMore ==
  /\ Got(<<>>) = <<>>
  /\ \A r \in Seq(MessageRec) : Got(r) \in Bytes
  /\ \A r \in Seq(MessageRec), x \in MessageRec : Sent(x) \in Bytes /\ Got(Append(r, x)) = Cat(Got(r), Sent(x))
<1>1. ASSUME NEW x \in MessageRec PROVE Sent(x) \in Bytes
  <2>1. x.chars \in Seq(Nat)
    BY DEF MessageRec, Bytes
  <2>2. Append(x.chars, 0) \in Seq(Nat)
    BY <2>1
  <2> QED BY <2>1, <2>2 DEF Sent, Bytes, Msg!NUL
<1> DEFINE B(r) == [i \in 1 .. Len(r) |-> Sent(r[i])]
<1>2. ASSUME NEW r \in Seq(MessageRec)
      PROVE  B(r) \in Seq(Bytes) /\ Len(B(r)) = Len(r) /\ \A i \in 1 .. Len(r) : B(r)[i] = Sent(r[i])
  <2>1. Len(r) \in Nat /\ \A i \in 1 .. Len(r) : r[i] \in MessageRec
    OBVIOUS
  <2>2. \A i \in 1 .. Len(r) : Sent(r[i]) \in Bytes
    BY <1>1, <2>1
  <2> QED BY <2>1, <2>2
<1>3. Got(<<>>) = <<>>
  <2>1. B(<<>>) = <<>>
    OBVIOUS
  <2> QED BY <2>1, FlatEmpty DEF Got
<1>4. ASSUME NEW r \in Seq(MessageRec) PROVE Got(r) \in Bytes
  BY <1>2, FlatSeq DEF Got, Bytes
<1>5. ASSUME NEW r \in Seq(MessageRec), NEW x \in MessageRec
      PROVE  Got(Append(r, x)) = Cat(Got(r), Sent(x))
  <2> DEFINE s == Append(r, x)
             b == B(r)
             c == B(s)
  <2>1. s \in Seq(MessageRec) /\ Len(s) = Len(r) + 1 /\ s[Len(r) + 1] = x /\ \A i \in 1 .. Len(r) : s[i] = r[i]
    OBVIOUS
  <2>2. b \in Seq(Bytes) /\ Len(b) = Len(r) /\ \A i \in 1 .. Len(r) : b[i] = Sent(r[i])
    BY <1>2
  <2> HIDE DEF s, B
  <2>3. c \in Seq(Bytes) /\ Len(c) = Len(s) /\ \A i \in 1 .. Len(s) : c[i] = Sent(s[i])
    BY <1>2, <2>1
  <2>6. Got(r) = FlattenSeq(b) /\ Got(s) = FlattenSeq(c)
    BY DEF Got, B
  <2> HIDE DEF b, c
  <2>4. Sent(x) \in Bytes /\ Len(r) \in Nat
    BY <1>1
  <2>5. c = Append(b, Sent(x))
    BY <2>1, <2>2, <2>3, <2>4
  <2>7. FlattenSeq(Append(b, Sent(x))) = FlattenSeq(b) \o Sent(x)
    BY <2>2, <2>4, FlatAppend DEF Bytes
  <2> QED BY <2>5, <2>6, <2>7 DEF Cat, s
<1> QED BY <1>1, <1>3, <1>4, <1>5

-----------------------------------------------------------------------------
(* The invariant of ReceiveCSMessage.                                      *)

\* What receiving n bytes takes off, in library l.
Takes(l, n) == IF l = "SKST" THEN n * n ELSE 2 * n
\* It is at least n, and more for more bytes; two parts take no more than both together.
LEMMA TakesEnough ==
  \A l, m, n : m \in Nat /\ n \in Nat =>
    /\ Takes(l, n) \in Nat /\ n <= Takes(l, n) /\ Takes(l, m) + Takes(l, n) <= Takes(l, m + n)
    /\ m <= n => Takes(l, m) <= Takes(l, n)
<1>1. \A m, n \in Nat : /\ n * n \in Nat /\ n <= n * n
                        /\ m * m + n * n <= (m + n) * (m + n)
                        /\ (m <= n => m * m <= n * n)
  <2> TAKE m, n \in Nat
  <2>1. n * n \in Nat /\ m * n \in Nat /\ m * m \in Nat
    OBVIOUS
  <2>2. n <= n * n
    <3>1. CASE n = 0
      BY <3>1
    <3>2. CASE n >= 1
      BY <3>2
    <3> QED BY <3>1, <3>2
  <2>3. (m + n) * (m + n) = m * m + n * n + 2 * (m * n)
    OBVIOUS
  <2>4. ASSUME m <= n PROVE m * m <= n * n
    BY <2>4
  <2> QED BY <2>1, <2>2, <2>3, <2>4
<1> SUFFICES ASSUME NEW l, NEW m \in Nat, NEW n \in Nat
             PROVE  /\ Takes(l, n) \in Nat /\ n <= Takes(l, n)
                    /\ Takes(l, m) + Takes(l, n) <= Takes(l, m + n)
                    /\ (m <= n => Takes(l, m) <= Takes(l, n))
  OBVIOUS
<1>2. CASE l = "SKST"
  BY <1>1, <1>2 DEF Takes
<1>3. CASE l # "SKST"
  BY <1>3 DEF Takes
<1> QED BY <1>2, <1>3

MsgTypes ==
  /\ lengths \in Seq(Nat)
  /\ wire \in Bytes /\ staticBuf \in Bytes /\ message \in Bytes /\ nRemainRecv \in Nat
  /\ received \in Seq(MessageRec)
  /\ nRemainRecv = 0 => message = <<>>
  /\ nRemainRecv > 0 => staticBuf = <<>>
  /\ Len(staticBuf) < MAX_MESSAGE_LEN /\ Len(message) + nRemainRecv <= MAX_MESSAGE_LEN
\* The bytes that are still to be returned.
ToCome == Cat(message, Cat(staticBuf, wire))
Lossless == Msg!Stream = Cat(Got(received), ToCome)
Short == \A n \in 1 .. Len(lengths) : Takes(library, lengths[n]) < MAX_MESSAGE_LEN
\* With short messages, those returned are the first, and a call in progress
\* may receive as much as its message needs.
Intact ==
  /\ Len(received) \in 0 .. Len(lengths)
  /\ \A n \in 1 .. Len(received) : received[n] = [chars |-> Chars(lengths, n), whole |-> TRUE]
  /\ ToCome = Rest(lengths, Len(received))
Enough ==
  nRemainRecv > 0 =>
    /\ ~Msg!HasNul(message) /\ (message # <<>> \/ wire # <<>>)
    /\ MAX_MESSAGE_LEN <= nRemainRecv + Takes(library, Len(message))
MsgInv == MsgTypes /\ Lossless /\ (Short => Intact /\ Enough)

\* It holds at first.
LEMMA MsgInvInit == ProcessesInit => MsgInv
<1> SUFFICES ASSUME NEW l, NEW ls, ls \in [1 .. NMessages -> MessageLengths] \/ ls = <<>>, Msg!InitOf(l, ls)
             PROVE  MsgInv
  BY DEF ProcessesInit, NoMessage, Msg!Init
<1>1. lengths \in Seq(Nat)
  <2>1. CASE ls = <<>>
    BY <2>1 DEF Msg!InitOf
  <2>2. CASE ls \in [1 .. NMessages -> MessageLengths]
    <3>1. MessageLengths \subseteq Nat /\ NMessages \in Nat
      BY ProcessesAssumption DEF Msg!MessageAssumption
    <3>2. ls \in [1 .. NMessages -> Nat]
      BY <2>2, <3>1
    <3>3. ls \in Seq(Nat)
      <4>1. ls \in UNION {[1 .. n -> Nat] : n \in Nat}
        BY <3>1, <3>2, Zenon
      <4> QED BY <4>1, SeqDef, Zenon
    <3> QED BY <3>3 DEF Msg!InitOf
  <2> QED BY <2>1, <2>2
<1>2. Rest(lengths, 0) = Msg!Stream /\ Rest(lengths, 0) \in Bytes /\ Len(lengths) \in Nat
  BY <1>1, RestFirst, RestIs
<1>3. /\ wire = Msg!Stream /\ staticBuf = <<>> /\ message = <<>> /\ nRemainRecv = 0 /\ received = <<>>
      /\ Len(received) = 0 /\ Len(message) = 0 /\ Len(staticBuf) = 0
  BY DEF Msg!InitOf
<1>4. <<>> \in Bytes /\ received \in Seq(MessageRec)
  BY <1>3 DEF Bytes
<1>5. Cat(<<>>, wire) = wire
  BY <1>2, <1>3, CatFacts DEF Bytes
<1>6. ToCome = wire /\ Got(received) = <<>>
  BY <1>3, <1>5, GotMore DEF ToCome
<1>7. MsgTypes
  BY <1>1, <1>2, <1>3, <1>4, ProcessesAssumption DEF MsgTypes, Msg!MessageAssumption
<1>8. Lossless
  BY <1>3, <1>5, <1>6 DEF Lossless
<1>9. Intact /\ Enough
  BY <1>2, <1>3, <1>6 DEF Intact, Enough
<1> QED BY <1>7, <1>8, <1>9 DEF MsgInv

\* A step that returns x takes the bytes of x off those to come.
Returns(x) == x \in MessageRec /\ received' = Append(received, x) /\ ToCome = Cat(Sent(x), ToCome')
\* A step that returns nothing.
Returnless == received' = received /\ ToCome' = ToCome
\* Either way nothing is lost.
LEMMA LosslessKept ==
  ASSUME MsgTypes, MsgTypes', Lossless, Returnless \/ (\E x : Returns(x)), lengths' = lengths
  PROVE  Lossless'
<1>1. Msg!Stream' = Msg!Stream
  BY DEF Msg!Stream, Msg!Message
<1>2. CASE Returnless
  BY <1>1, <1>2 DEF Lossless, Returnless
<1>3. ASSUME NEW x, Returns(x) PROVE Lossless'
  <2>1. x \in MessageRec /\ received' = Append(received, x) /\ ToCome = Cat(Sent(x), ToCome')
    BY <1>3 DEF Returns
  <2>2. Sent(x) \in Bytes /\ Got(received) \in Bytes /\ Got(received') = Cat(Got(received), Sent(x))
    BY <2>1, GotMore DEF MsgTypes
  <2>3. ToCome' \in Bytes
    BY CatFacts DEF MsgTypes, ToCome, Bytes
  <2>5. Cat(Cat(Got(received), Sent(x)), ToCome') = Cat(Got(received), Cat(Sent(x), ToCome'))
    BY <2>2, <2>3, BytesAssociate
  <2>6. Msg!Stream' = Cat(Got(received'), ToCome')
    BY <1>1, <2>1, <2>2, <2>5 DEF Lossless
  <2> QED BY <2>6 DEF Lossless
<1> QED BY <1>2, <1>3

\* Of short messages, each that is returned whole is the next.
LEMMA IntactKept ==
  ASSUME MsgTypes, MsgTypes', Intact, lengths' = lengths,
         Returnless \/ (\E x : Returns(x) /\ x.whole /\ ~Msg!HasNul(x.chars))
  PROVE  Intact'
<1>1. CASE Returnless
  BY <1>1 DEF Intact, Returnless
<1>2. ASSUME NEW x, Returns(x), x.whole, ~Msg!HasNul(x.chars) PROVE Intact'
  <2> DEFINE k == Len(received)
             rest == ToCome'
  <2>1. /\ x \in MessageRec /\ received' = Append(received, x) /\ ToCome = Joined(x.chars, rest)
        /\ x.chars \in Bytes /\ x.whole = TRUE /\ x = [chars |-> x.chars, whole |-> TRUE]
    BY <1>2 DEF Returns, Sent, MessageRec, Joined
  <2>2. rest \in Bytes /\ k \in Nat /\ Len(lengths) \in Nat /\ k <= Len(lengths)
    <3>1. rest \in Bytes
      BY CatFacts DEF MsgTypes, ToCome, Bytes
    <3>2. Len(lengths) \in Nat /\ k \in 0 .. Len(lengths)
      BY DEF MsgTypes, Intact
    <3> QED BY <3>1, <3>2
  <2>3. k # Len(lengths)
    <3> SUFFICES ASSUME k = Len(lengths) PROVE FALSE
      OBVIOUS
    <3>1. Joined(x.chars, rest) = <<>>
      BY <2>1, RestIs DEF Intact, MsgTypes
    <3>2. Len(Joined(x.chars, rest)) = Len(x.chars) + 1 + Len(rest) /\ Len(x.chars) \in Nat /\ Len(rest) \in Nat
      <4>1. Len(Joined(x.chars, rest)) = Len(x.chars) + 1 + Len(rest)
        BY <2>1, <2>2, JoinedAre
      <4> QED BY <2>1, <2>2, <4>1 DEF Bytes
    <3> QED BY <3>1, <3>2
  <2>4. k \in 0 .. Len(lengths) - 1 /\ k + 1 \in 0 .. Len(lengths)
    BY <2>2, <2>3
  <2> DEFINE m == Chars(lengths, k + 1)
             z == Rest(lengths, k + 1)
  <2>5. Joined(x.chars, rest) = Joined(m, z) /\ m \in Bytes /\ ~Msg!HasNul(m) /\ z \in Bytes
    BY <2>1, <2>4, RestIs DEF Intact, MsgTypes
  <2> HIDE DEF m, z, rest
  <2>6. x.chars = m /\ rest = z
    BY <1>2, <2>1, <2>2, <2>5, OneCut
  <2>7. /\ Len(received') = k + 1 /\ received'[k + 1] = x
        /\ \A n \in 1 .. k : received'[n] = received[n]
    BY <2>1 DEF MsgTypes
  <2>8. x = [chars |-> Chars(lengths, k + 1), whole |-> TRUE]
    BY <2>1, <2>6 DEF m
  <2>9. \A n \in 1 .. k + 1 : received'[n] = [chars |-> Chars(lengths, n), whole |-> TRUE]
    <3> TAKE n \in 1 .. k + 1
    <3>1. n \in 1 .. k \/ n = k + 1
      BY <2>2
    <3>2. \A i \in 1 .. k : received[i] = [chars |-> Chars(lengths, i), whole |-> TRUE]
      BY DEF Intact
    <3> QED BY <2>7, <2>8, <3>1, <3>2, Zenon
  <2>10. ToCome' = Rest(lengths, k + 1)
    BY <2>6 DEF rest, z
  <2> QED BY <2>4, <2>7, <2>9, <2>10 DEF Intact
<1> QED BY <1>1, <1>2

\* The residual data have the next message.
LEMMA MsgFromStatic ==
  ASSUME MsgInv, Msg!FromStatic
  PROVE  /\ MsgTypes' /\ (\E x : Returns(x) /\ x.whole /\ ~Msg!HasNul(x.chars))
         /\ Enough' /\ lengths' = lengths /\ library' = library
<1> DEFINE b == Msg!BeforeNul(staticBuf)
           a == Msg!AfterNul(staticBuf)
           x == [chars |-> b, whole |-> TRUE]
<1>1. /\ nRemainRecv = 0 /\ nRemainRecv' = 0 /\ message = <<>> /\ message' = <<>>
      /\ wire' = wire /\ lengths' = lengths /\ library' = library /\ staticBuf' = a
      /\ received' = Append(received, x) /\ Msg!HasNul(staticBuf)
  BY DEF MsgInv, MsgTypes, Msg!FromStatic, Msg!Returned
<1>2. staticBuf \in Bytes /\ wire \in Bytes
  BY DEF MsgInv, MsgTypes
<1>3. /\ b \in Bytes /\ ~Msg!HasNul(b) /\ a \in Bytes /\ Len(a) < Len(staticBuf)
      /\ staticBuf = Joined(b, a)
  BY <1>1, <1>2, NulSplits
<1> HIDE DEF a, b
<1>4. x \in MessageRec
  BY <1>3 DEF MessageRec
<1>5. Len(a) \in Nat /\ Len(staticBuf) \in Nat
  BY <1>2, <1>3 DEF Bytes
<1>6. received' \in Seq(MessageRec)
  BY <1>1, <1>4 DEF MsgInv, MsgTypes
<1>7. MsgTypes'
  BY <1>1, <1>3, <1>5, <1>6, ProcessesAssumption DEF MsgInv, MsgTypes, Msg!MessageAssumption
<1>8. ToCome = Cat(staticBuf, wire) /\ ToCome' = Cat(a, wire)
  <2>1. Cat(staticBuf, wire) \in Bytes /\ Cat(a, wire) \in Bytes
    BY <1>2, <1>3, CatFacts DEF Bytes
  <2>2. \A s \in Bytes : Cat(<<>>, s) = s
    BY CatFacts DEF Bytes
  <2> QED BY <1>1, <2>1, <2>2 DEF ToCome
<1>9. ToCome = Cat(Sent(x), ToCome')
  <2>1. Append(b, Msg!NUL) \in Bytes
    BY <1>3 DEF Bytes, Msg!NUL
  <2>3. Cat(Cat(Append(b, Msg!NUL), a), wire) = Cat(Append(b, Msg!NUL), Cat(a, wire))
    BY <1>2, <1>3, <2>1, BytesAssociate
  <2>4. Sent(x) = Append(b, Msg!NUL)
    BY DEF Sent
  <2> QED BY <1>3, <1>8, <2>3, <2>4, Zenon DEF Joined
<1>10. Enough'
  BY <1>1 DEF Enough
<1>11. Returns(x) /\ x.whole /\ ~Msg!HasNul(x.chars)
  BY <1>1, <1>3, <1>4, <1>9 DEF Returns
<1> QED BY <1>1, <1>7, <1>10, <1>11

\* A call begins with the residual data.
LEMMA MsgBegin ==
  ASSUME MsgInv, Msg!Begin
  PROVE  /\ MsgTypes' /\ Returnless /\ Enough' /\ lengths' = lengths /\ library' = library
<1>1. /\ message = <<>> /\ message' = staticBuf /\ staticBuf' = <<>> /\ wire' = wire
      /\ nRemainRecv' = MAX_MESSAGE_LEN - Len(staticBuf) /\ received' = received
      /\ lengths' = lengths /\ library' = library
      /\ ~Msg!HasNul(staticBuf) /\ (wire # <<>> \/ staticBuf # <<>>)
  BY DEF MsgInv, MsgTypes, Msg!Begin
<1>2. /\ staticBuf \in Bytes /\ wire \in Bytes /\ <<>> \in Bytes /\ MAX_MESSAGE_LEN \in Nat \ {0}
      /\ Len(staticBuf) \in Nat /\ Len(staticBuf) < MAX_MESSAGE_LEN /\ Len(<<>>) = 0
  BY ProcessesAssumption DEF MsgInv, MsgTypes, Bytes, Msg!MessageAssumption
<1>3. MsgTypes'
  BY <1>1, <1>2 DEF MsgInv, MsgTypes
<1>4. ToCome' = ToCome
  <2>1. Cat(staticBuf, wire) \in Bytes /\ \A s \in Bytes : Cat(<<>>, s) = s
    BY <1>2, NulJoin, BytesJoin, Zenon
  <2> QED BY <1>1, <1>2, <2>1 DEF ToCome
<1>5. Enough'
  <2>1. Len(staticBuf) <= Takes(library, Len(staticBuf)) /\ Takes(library, Len(staticBuf)) \in Nat
    BY <1>2, TakesEnough
  <2>2. MAX_MESSAGE_LEN <= nRemainRecv' + Takes(library', Len(message'))
    BY <1>1, <1>2, <2>1
  <2> QED BY <1>1, <2>2 DEF Enough
<1> QED BY <1>1, <1>3, <1>4, <1>5 DEF Returnless

\* What has arrived has a nul: the message is complete.
LEMMA MsgComplete ==
  ASSUME MsgInv, NEW n \in 1 .. Len(wire), n <= nRemainRecv, nRemainRecv > 0,
         wire' = SubSeq(wire, n + 1, Len(wire)), lengths' = lengths, library' = library,
         Msg!HasNul(SubSeq(wire, 1, n)), Msg!Complete(SubSeq(wire, 1, n))
  PROVE  /\ MsgTypes' /\ Enough' /\ (\E x : Returns(x) /\ x.whole)
         /\ Enough => \E x : Returns(x) /\ x.whole /\ ~Msg!HasNul(x.chars)
<1> DEFINE bytes == SubSeq(wire, 1, n)
           w == SubSeq(wire, n + 1, Len(wire))
           b == Msg!BeforeNul(bytes)
           a == Msg!AfterNul(bytes)
           x == [chars |-> Cat(message, b), whole |-> TRUE]
<1>1. /\ nRemainRecv' = 0 /\ message' = <<>> /\ staticBuf' = a /\ received' = Append(received, x)
      /\ staticBuf = <<>> /\ wire' = w
  BY DEF MsgInv, MsgTypes, Msg!Complete, Msg!Returned, Cat
<1>2. /\ bytes \in Bytes /\ w \in Bytes /\ Len(bytes) = n /\ wire = Cat(bytes, w)
      /\ n \in Nat /\ nRemainRecv <= MAX_MESSAGE_LEN
  BY SubSeqsJoin, ProcessesAssumption DEF MsgInv, MsgTypes, Bytes, Msg!MessageAssumption
<1>3. /\ b \in Bytes /\ ~Msg!HasNul(b) /\ a \in Bytes /\ Len(a) < n /\ bytes = Joined(b, a)
  BY <1>2, NulSplits
<1> HIDE DEF a, b, bytes, w
<1>4. message \in Bytes /\ received \in Seq(MessageRec)
  BY DEF MsgInv, MsgTypes
<1>5. Cat(message, b) \in Bytes /\ x \in MessageRec
  BY <1>3, <1>4, NulJoin DEF MessageRec
<1>6. received' \in Seq(MessageRec)
  BY <1>1, <1>4, <1>5
<1>7. MsgTypes'
  <2>1. <<>> \in Bytes /\ Len(<<>>) = 0 /\ Len(a) \in Nat /\ MAX_MESSAGE_LEN \in Nat /\ nRemainRecv \in Nat
    BY <1>3, ProcessesAssumption DEF Bytes, Msg!MessageAssumption, MsgInv, MsgTypes
  <2>2. Len(a) < MAX_MESSAGE_LEN
    BY <1>2, <1>3, <2>1
  <2>3. lengths' \in Seq(Nat)
    BY DEF MsgInv, MsgTypes
  <2>4. wire' \in Bytes /\ staticBuf' \in Bytes /\ message' \in Bytes /\ nRemainRecv' = 0
    BY <1>1, <1>2, <1>3, <2>1
  <2>5. Len(staticBuf') < MAX_MESSAGE_LEN /\ Len(message') + nRemainRecv' <= MAX_MESSAGE_LEN
    BY <1>1, <2>1, <2>2
  <2> HIDE DEF x
  <2> QED BY <1>1, <1>6, <2>3, <2>4, <2>5 DEF MsgTypes
<1>8. ToCome = Cat(message, Cat(bytes, w)) /\ ToCome' = Cat(a, w)
  <2>1. Cat(a, w) \in Bytes /\ \A s \in Bytes : Cat(<<>>, s) = s
    BY <1>2, <1>3, NulJoin, BytesJoin, Zenon
  <2>2. wire \in Bytes
    BY DEF MsgInv, MsgTypes
  <2> QED BY <1>1, <1>2, <2>1, <2>2 DEF ToCome
<1>9. ToCome = Cat(Sent(x), ToCome')
  <2> DEFINE c == Append(b, Msg!NUL)
  <2>1. c \in Bytes /\ Append(Cat(message, b), Msg!NUL) = Cat(message, c)
    <3>1. c \in Bytes
      BY <1>3 DEF Bytes, Msg!NUL
    <3> QED BY <1>3, <1>4, <3>1, BytesJoin, Zenon
  <2>3. bytes = Cat(c, a)
    BY <1>3 DEF Joined
  <2>4. Sent(x) = Cat(message, c)
    BY <2>1 DEF Sent
  <2>5. Cat(a, w) \in Bytes
    BY <1>2, <1>3, NulJoin
  <2> HIDE DEF c
  <2>6. Cat(Cat(c, a), w) = Cat(c, Cat(a, w))
    BY <1>2, <1>3, <2>1, BytesAssociate
  <2>7. Cat(Cat(message, c), Cat(a, w)) = Cat(message, Cat(c, Cat(a, w)))
    BY <1>4, <2>1, <2>5, BytesAssociate
  <2> QED BY <1>8, <2>3, <2>4, <2>6, <2>7, Zenon
<1>10. Enough'
  BY <1>1 DEF Enough
<1>11. Returns(x) /\ x.whole
  BY <1>1, <1>5, <1>9 DEF Returns
<1>12. Enough => ~Msg!HasNul(x.chars)
  BY <1>3, <1>4, NulJoin DEF Enough
<1> QED BY <1>7, <1>10, <1>11, <1>12

\* What has arrived has no nul: the call goes on, or it returns what it has.
LEMMA MsgContinue ==
  ASSUME MsgInv, NEW n \in 1 .. Len(wire), n <= nRemainRecv, nRemainRecv > 0,
         wire' = SubSeq(wire, n + 1, Len(wire)), lengths' = lengths, library' = library,
         ~Msg!HasNul(SubSeq(wire, 1, n)), Msg!Continue(SubSeq(wire, 1, n))
  PROVE  /\ MsgTypes' /\ (Returnless \/ (\E x : Returns(x)))
         /\ Short /\ Intact /\ Enough => Returnless /\ Enough'
<1> DEFINE bytes == SubSeq(wire, 1, n)
           w == SubSeq(wire, n + 1, Len(wire))
           u == Cat(message, bytes)
           x == [chars |-> u, whole |-> FALSE]
           t == Takes(library, n)
<1>1. /\ bytes \in Bytes /\ w \in Bytes /\ Len(bytes) = n /\ wire = Cat(bytes, w)
      /\ n \in Nat \ {0} /\ MAX_MESSAGE_LEN \in Nat
  BY SubSeqsJoin, ProcessesAssumption DEF MsgInv, MsgTypes, Bytes, Msg!MessageAssumption
<1>2. /\ nRemainRecv' = (IF t < nRemainRecv THEN nRemainRecv - t ELSE 0)
      /\ staticBuf = <<>> /\ staticBuf' = <<>> /\ wire' = w
      /\ nRemainRecv' = 0 => message' = <<>> /\ received' = Append(received, x)
      /\ nRemainRecv' # 0 => message' = u /\ received' = received
  BY <1>1 DEF MsgInv, MsgTypes, Msg!Continue, Msg!Returned, Msg!Left, Msg!Taken, Takes, Cat
<1> HIDE DEF bytes, w
<1>3. /\ message \in Bytes /\ received \in Seq(MessageRec) /\ nRemainRecv \in Nat
      /\ Len(message) \in Nat /\ Len(message) + nRemainRecv <= MAX_MESSAGE_LEN
      /\ wire \in Bytes
  BY DEF MsgInv, MsgTypes, Bytes
<1>4. u \in Bytes /\ Len(u) = Len(message) + n
  BY <1>1, <1>3, NulJoin
<1>5. t \in Nat /\ n <= t
  BY <1>1, TakesEnough
<1>6. <<>> \in Bytes /\ Len(<<>>) = 0
  BY DEF Bytes
<1> HIDE DEF u, t
<1>7. x \in MessageRec
  BY <1>4 DEF MessageRec
<1> HIDE DEF x
<1>8. received' \in Seq(MessageRec)
  <2>1. Append(received, x) \in Seq(MessageRec)
    BY <1>3, <1>7
  <2> QED BY <1>2, <1>3, <2>1
<1>13. /\ Takes(library, Len(message)) + t <= Takes(library, Len(u))
       /\ Takes(library, Len(message)) \in Nat /\ Takes(library, Len(u)) \in Nat
  <2>1. PICK l : l = Len(message)
    OBVIOUS
  <2>2. /\ Takes(library, l) + Takes(library, n) <= Takes(library, l + n)
        /\ Takes(library, l) \in Nat /\ Takes(library, l + n) \in Nat
    <3>1. l \in Nat /\ n \in Nat /\ l + n \in Nat
      BY <1>1, <1>3, <2>1
    <3> QED BY <3>1, TakesEnough, Zenon
  <2> QED BY <1>4, <2>1, <2>2 DEF t
<1>9. MsgTypes'
  <2>1. nRemainRecv' \in Nat
    BY <1>2, <1>3, <1>5
  <2>2. message' \in Bytes /\ Len(message') + nRemainRecv' <= MAX_MESSAGE_LEN
    BY <1>1, <1>2, <1>3, <1>4, <1>5, <1>6
  <2>3. Len(staticBuf') < MAX_MESSAGE_LEN
    BY <1>1, <1>2, <1>3, <1>6, ProcessesAssumption DEF Msg!MessageAssumption
  <2>4. lengths' \in Seq(Nat)
    BY DEF MsgInv, MsgTypes
  <2> QED BY <1>1, <1>2, <1>6, <1>8, <2>1, <2>2, <2>3, <2>4 DEF MsgTypes
<1>10. ToCome = Cat(u, w)
  <2>1. ToCome = Cat(message, wire)
    BY <1>2, <1>3, BytesJoin, Zenon DEF ToCome
  <2>2. Cat(message, Cat(bytes, w)) = Cat(Cat(message, bytes), w)
    BY <1>1, <1>3, BytesAssociate
  <2> QED BY <1>1, <2>1, <2>2, Zenon DEF u
<1>11. CASE nRemainRecv' # 0
  <2>1. ToCome' = Cat(u, w)
    <3>1. Cat(<<>>, w) = w
      BY <1>1, BytesJoin, Zenon
    <3> QED BY <1>2, <1>11, <3>1 DEF ToCome
  <2>2. Returnless
    BY <1>2, <1>10, <1>11, <2>1 DEF Returnless
  <2>3. ASSUME Enough PROVE Enough'
    <3>1. /\ ~Msg!HasNul(message) /\ MAX_MESSAGE_LEN <= nRemainRecv + Takes(library, Len(message))
      BY <2>3 DEF Enough
    <3>2. ~Msg!HasNul(u)
      BY <1>1, <1>3, <3>1, NulJoin DEF u, bytes
    <3>3. u # <<>>
      BY <1>1, <1>3, <1>4, <1>6
    <3>4. /\ Takes(library, Len(message)) + t <= Takes(library, Len(u))
          /\ Takes(library, Len(message)) \in Nat /\ Takes(library, Len(u)) \in Nat
      BY <1>13
    <3>5. nRemainRecv' = nRemainRecv - t
      BY <1>2, <1>11
    <3>6. MAX_MESSAGE_LEN <= nRemainRecv' + Takes(library', Len(message'))
      <4>1. Takes(library', Len(message')) = Takes(library, Len(u))
        BY <1>2, <1>11
      <4>2. MAX_MESSAGE_LEN \in Nat /\ nRemainRecv \in Nat
        BY <1>1, <1>3
      <4>3. MAX_MESSAGE_LEN <= nRemainRecv - t + Takes(library, Len(u))
        BY <1>5, <3>1, <3>4, <4>2
      <4> QED BY <3>5, <4>1, <4>3
    <3> QED BY <1>2, <1>11, <3>2, <3>3, <3>6 DEF Enough
  <2> QED BY <1>9, <2>2, <2>3
<1>12. CASE nRemainRecv' = 0
  <2>1. ToCome' = w
    <3>1. Cat(<<>>, w) = w
      BY <1>1, BytesJoin, Zenon
    <3> QED BY <1>2, <1>12, <3>1 DEF ToCome
  <2>2. Returns(x)
    <3>1. Sent(x) = u
      BY DEF Sent, x
    <3> QED BY <1>2, <1>7, <1>10, <1>12, <2>1, <3>1 DEF Returns
  <2>3. ASSUME Short, Intact, Enough PROVE FALSE
    <3>1. /\ ~Msg!HasNul(message) /\ MAX_MESSAGE_LEN <= nRemainRecv + Takes(library, Len(message))
      BY <2>3 DEF Enough
    <3>2. ~Msg!HasNul(u)
      BY <1>1, <1>3, <3>1, NulJoin DEF u, bytes
    <3>3. Cat(u, w) = Rest(lengths, Len(received)) /\ Len(received) \in 0 .. Len(lengths)
      BY <1>10, <2>3 DEF Intact
    <3>4. lengths \in Seq(Nat) /\ Len(lengths) \in Nat
      BY DEF MsgInv, MsgTypes
    <3>5. Len(received) # Len(lengths)
      <4>1. Rest(lengths, Len(lengths)) = <<>>
        BY <3>4, RestIs
      <4>2. Len(Cat(u, w)) = Len(u) + Len(w)
        BY <1>1, <1>4, CatAre
      <4>4. Len(w) \in Nat
        BY <1>1 DEF Bytes
      <4>3. Len(Cat(u, w)) # 0
        BY <1>1, <1>3, <1>4, <4>2, <4>4
      <4> QED BY <1>6, <3>3, <4>1, <4>3
    <3>6. Len(received) \in 0 .. Len(lengths) - 1 /\ Len(received) + 1 \in 1 .. Len(lengths)
      BY <3>3, <3>4, <3>5
    <3>7. PICK k \in 0 .. Len(lengths) - 1 : k = Len(received)
      BY <3>6
    <3> DEFINE m == Chars(lengths, k + 1)
               z == Rest(lengths, k + 1)
    <3>8. /\ Cat(u, w) = Joined(m, z) /\ m \in Bytes /\ Len(m) = lengths[k + 1]
          /\ k + 1 \in 1 .. Len(lengths) /\ lengths[k + 1] \in Nat
      <4>1. /\ Rest(lengths, k) = Joined(m, z) /\ m \in Bytes /\ Len(m) = lengths[k + 1]
        BY <3>4, <3>7, RestIs
      <4>2. k + 1 \in 1 .. Len(lengths) /\ lengths[k + 1] \in Nat
        BY <3>4, <3>7
      <4> QED BY <3>3, <3>7, <4>1, <4>2
    <3>9. z \in Bytes
      BY <3>4, <3>8, RestIs
    <3> HIDE DEF m, z
    <3>10. Len(u) <= lengths[k + 1]
      BY <1>1, <1>4, <3>2, <3>8, <3>9, NoCut
    <3>11. Takes(library, lengths[k + 1]) < MAX_MESSAGE_LEN
      BY <2>3, <3>8 DEF Short
    <3>12. /\ Takes(library, Len(message)) + t <= Takes(library, Len(u))
           /\ Takes(library, Len(u)) <= Takes(library, lengths[k + 1])
           /\ Takes(library, Len(message)) \in Nat /\ Takes(library, Len(u)) \in Nat
           /\ Takes(library, lengths[k + 1]) \in Nat
      <4>1. Len(u) \in Nat
        BY <1>1, <1>3, <1>4
      <4>2. Takes(library, Len(message)) + t <= Takes(library, Len(u))
        BY <1>13
      <4>3. Takes(library, Len(u)) <= Takes(library, lengths[k + 1])
        BY <3>8, <3>10, <4>1, TakesEnough
      <4>4. /\ Takes(library, Len(message)) \in Nat /\ Takes(library, Len(u)) \in Nat
            /\ Takes(library, lengths[k + 1]) \in Nat
        BY <1>3, <3>8, <4>1, TakesEnough
      <4> QED BY <1>4, <4>2, <4>3, <4>4
    <3>13. t < nRemainRecv
      <4>1. MAX_MESSAGE_LEN \in Nat /\ nRemainRecv \in Nat /\ t \in Nat
        BY <1>1, <1>3, <1>5
      <4>2. Takes(library, Len(message)) + t < MAX_MESSAGE_LEN
        BY <3>11, <3>12, <4>1
      <4> QED BY <3>1, <3>12, <4>1, <4>2
    <3>14. nRemainRecv' = nRemainRecv - t
      BY <1>2, <3>13
    <3> QED BY <1>3, <1>5, <1>12, <3>13, <3>14
  <2> QED BY <1>9, <2>2, <2>3
<1> QED BY <1>11, <1>12

\* The connection ends in a call: of short messages, none is cut off.
LEMMA MsgDisconnected ==
  ASSUME MsgInv, Msg!Disconnected
  PROVE  /\ MsgTypes' /\ (\E x : Returns(x)) /\ lengths' = lengths /\ library' = library
         /\ ~(Intact /\ Enough)
<1> DEFINE x == [chars |-> message, whole |-> FALSE]
<1>1. /\ nRemainRecv > 0 /\ wire = <<>> /\ nRemainRecv' = 0 /\ message' = <<>> /\ staticBuf = <<>>
      /\ received' = Append(received, x) /\ wire' = wire /\ staticBuf' = staticBuf
      /\ lengths' = lengths /\ library' = library
  BY DEF MsgInv, MsgTypes, Msg!Disconnected, Msg!Returned
<1>2. message \in Bytes /\ received \in Seq(MessageRec) /\ <<>> \in Bytes /\ Len(<<>>) = 0
  BY DEF MsgInv, MsgTypes, Bytes
<1>3. x \in MessageRec /\ Sent(x) = message
  BY <1>2 DEF MessageRec, Sent
<1>4. received' \in Seq(MessageRec)
  BY <1>1, <1>2, <1>3
<1> HIDE DEF x
<1>5. MsgTypes'
  BY <1>1, <1>2, <1>4, ProcessesAssumption DEF MsgInv, MsgTypes, Msg!MessageAssumption
<1>6. Cat(<<>>, <<>>) = <<>> /\ Cat(message, <<>>) = message
  BY <1>2, BytesJoin, Zenon
<1>7. ToCome = message /\ ToCome' = <<>>
  BY <1>1, <1>6 DEF ToCome
<1>8. Returns(x)
  BY <1>1, <1>3, <1>6, <1>7 DEF Returns
<1>9. ASSUME Intact, Enough PROVE FALSE
  <2>1. ~Msg!HasNul(message) /\ message # <<>>
    BY <1>1, <1>9 DEF Enough
  <2>2. lengths \in Seq(Nat) /\ Len(lengths) \in Nat /\ Len(received) \in 0 .. Len(lengths)
    BY <1>9 DEF MsgInv, MsgTypes, Intact
  <2>3. message = Rest(lengths, Len(received))
    BY <1>7, <1>9 DEF Intact
  <2>4. Len(received) # Len(lengths)
    BY <2>1, <2>2, <2>3, RestIs
  <2>5. PICK k \in 0 .. Len(lengths) - 1 : k = Len(received)
    BY <2>2, <2>4
  <2>6. /\ message = Joined(Chars(lengths, k + 1), Rest(lengths, k + 1))
        /\ Chars(lengths, k + 1) \in Bytes /\ k + 1 \in 0 .. Len(lengths)
    BY <2>2, <2>3, <2>5, RestIs
  <2>7. Rest(lengths, k + 1) \in Bytes
    BY <2>2, <2>6, RestIs
  <2>8. Msg!HasNul(Joined(Chars(lengths, k + 1), Rest(lengths, k + 1)))
    BY <2>6, <2>7, NulInside
  <2> QED BY <2>1, <2>6, <2>8
<1> QED BY <1>1, <1>5, <1>8, <1>9

\* Every step keeps the invariant.
LEMMA MsgInvStep == MsgInv /\ [ProcessesNext]_processesVars => MsgInv'
<1> SUFFICES ASSUME MsgInv, [ProcessesNext]_processesVars PROVE MsgInv'
  OBVIOUS
<1>1. CASE UNCHANGED msgVars
  <2>1. MsgTypes' /\ Lossless'
    BY <1>1 DEF MsgInv, MsgTypes, Lossless, ToCome, msgVars, Msg!Stream, Msg!Message
  <2>2. (Short => Intact /\ Enough)'
    BY <1>1 DEF MsgInv, Short, Intact, Enough, ToCome, msgVars
  <2> QED BY <2>1, <2>2 DEF MsgInv
<1>2. CASE Msg!Next
  <2>1. /\ MsgTypes' /\ (Returnless \/ (\E x : Returns(x))) /\ lengths' = lengths /\ library' = library
        /\ Short /\ Intact /\ Enough =>
             Enough' /\ (Returnless \/ (\E x : Returns(x) /\ x.whole /\ ~Msg!HasNul(x.chars)))
    <3>1. CASE Msg!FromStatic
      BY <3>1, MsgFromStatic
    <3>2. CASE Msg!Begin
      BY <3>2, MsgBegin
    <3>3. CASE Msg!Receive
      <4>1. PICK n \in 1 .. Len(wire) :
              /\ n <= nRemainRecv /\ wire' = SubSeq(wire, n + 1, Len(wire))
              /\ IF Msg!HasNul(SubSeq(wire, 1, n))
                 THEN Msg!Complete(SubSeq(wire, 1, n)) ELSE Msg!Continue(SubSeq(wire, 1, n))
        BY <3>3 DEF Msg!Receive
      <4>2. nRemainRecv > 0 /\ lengths' = lengths /\ library' = library
        BY <3>3 DEF Msg!Receive
      <4>3. CASE Msg!HasNul(SubSeq(wire, 1, n))
        BY <4>1, <4>2, <4>3, MsgComplete
      <4>4. CASE ~Msg!HasNul(SubSeq(wire, 1, n))
        BY <4>1, <4>2, <4>4, MsgContinue
      <4> QED BY <4>3, <4>4
    <3>4. CASE Msg!Disconnected
      BY <3>4, MsgDisconnected
    <3> QED BY <1>2, <3>1, <3>2, <3>3, <3>4 DEF Msg!Next
  <2>2. Lossless'
    BY <2>1, LosslessKept DEF MsgInv
  <2>3. ASSUME Short' PROVE Intact' /\ Enough'
    <3>1. Short
      BY <2>1, <2>3 DEF Short
    <3>2. Intact /\ Enough
      BY <3>1 DEF MsgInv
    <3>3. Intact'
      BY <2>1, <3>1, <3>2, IntactKept DEF MsgInv
    <3> QED BY <2>1, <3>1, <3>2, <3>3
  <2> QED BY <2>1, <2>2, <2>3 DEF MsgInv
<1> QED BY <1>1, <1>2 DEF ProcessesNext, processesVars

\* MessagesRight, for any size of the buffer, any number of messages and any
\* pieces in which they arrive: no byte is lost, doubled or moved, the calls
\* stay within the buffer, and messages whose squared (SKST) or doubled (SKHA)
\* length is below its size arrive as they were sent, although the library takes
\* too much off what it may still receive.
THEOREM MessagesArrive == ProcessesSpec => []MessagesRight
<1>1. MsgInv => MessagesRight
  <2> SUFFICES ASSUME MsgInv PROVE MessagesRight
    OBVIOUS
  <2>1. /\ MAX_MESSAGE_LEN \in Nat /\ nRemainRecv \in Nat /\ Len(message) \in Nat /\ Len(staticBuf) \in Nat
        /\ Len(staticBuf) < MAX_MESSAGE_LEN /\ Len(message) + nRemainRecv <= MAX_MESSAGE_LEN
    BY ProcessesAssumption DEF MsgInv, MsgTypes, Bytes, Msg!MessageAssumption
  <2>2. Msg!TypeOK
    BY <2>1 DEF Msg!TypeOK
  <2>3. Msg!NothingLost
    <3> DEFINE g == Got(received)
    <3>1. g \in Bytes /\ message \in Bytes /\ staticBuf \in Bytes /\ wire \in Bytes
      BY GotMore DEF MsgInv, MsgTypes
    <3>2. g = Msg!FlattenSeq([i \in 1 .. Len(received) |->
                IF received[i].whole THEN Append(received[i].chars, Msg!NUL) ELSE received[i].chars])
      BY DEF Got, Sent, FlattenSeq, Msg!FlattenSeq
    <3>3. Msg!Stream = Cat(g, Cat(message, Cat(staticBuf, wire)))
      BY DEF MsgInv, Lossless, ToCome
    <3> HIDE DEF g
    <3>4. Cat(message, staticBuf) \in Bytes /\ Cat(staticBuf, wire) \in Bytes
      BY <3>1, NulJoin
    <3>5. Cat(Cat(Cat(g, message), staticBuf), wire) = Cat(Cat(g, message), Cat(staticBuf, wire))
      <4>1. Cat(g, message) \in Bytes
        BY <3>1, NulJoin
      <4> QED BY <3>1, <4>1, BytesAssociate
    <3>6. Cat(Cat(g, message), Cat(staticBuf, wire)) = Cat(g, Cat(message, Cat(staticBuf, wire)))
      BY <3>1, <3>4, BytesAssociate
    <3>7. Msg!Stream = Cat(Cat(Cat(g, message), staticBuf), wire)
      BY <3>3, <3>5, <3>6, Zenon
    <3> QED BY <3>2, <3>7, Zenon DEF Msg!NothingLost, Cat
  <2>4. Msg!ShortArrive
    <3>1. ASSUME \A n \in 1 .. Len(lengths) : Msg!Taken(lengths[n]) < MAX_MESSAGE_LEN PROVE Short
      BY <3>1 DEF Short, Takes, Msg!Taken
    <3>2. ASSUME Intact, NEW n \in 1 .. Len(received)
          PROVE  received[n] = [chars |-> Msg!Message(n), whole |-> TRUE]
      BY <3>2 DEF Intact, Chars, Msg!Message
    <3> QED BY <3>1, <3>2 DEF MsgInv, Msg!ShortArrive
  <2> QED BY <2>2, <2>3, <2>4 DEF MessagesRight
<1> QED BY <1>1, MsgInvInit, MsgInvStep, PTL DEF ProcessesSpec
=============================================================================
