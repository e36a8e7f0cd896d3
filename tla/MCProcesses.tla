----------------------------- MODULE MCProcesses -----------------------------
(***************************************************************************)
(* Five programs, checked together: the socket server, the job table of    *)
(* the shells, the service under its manager, the receiver of the message  *)
(* streams and the servers that use it.  A behaviour runs one of them; the *)
(* variables of the others stay as they are.                               *)
(***************************************************************************)
EXTENDS ServerSK

CONSTANTS Shells, MAX_JOBS_ALLOWED, Pids, JobCommands, ServiceCommands,
          MAX_MESSAGE_LEN, MessageLengths, NMessages, StreamClients, StreamSlots

VARIABLES
  runs,            \* the program that runs
  shell, file, locks, proc, handle, number, sh, jobCommands,
  program, scm, status, registered, svcShutDown, pauseFlag, svcMain, svc, handler, upd, svcCommands,
  library, lengths, wire, staticBuf, message, nRemainRecv, received,
  srvSlot, srvMain, iSrvThread, acc, listening, ShutFlag, srvTh, at, record, srvClient, sent

Jobs == INSTANCE JobTable WITH commands <- jobCommands, MaxCommands <- JobCommands
Srv == INSTANCE Service WITH
         shutDown <- svcShutDown, main <- svcMain, commands <- svcCommands, MaxCommands <- ServiceCommands
Msg == INSTANCE CSMessage
Srvr == INSTANCE StreamServer WITH
          MAX_CLIENTS <- StreamSlots, slot <- srvSlot, main <- srvMain, iThread <- iSrvThread,
          th <- srvTh, client <- srvClient

ASSUME ProcessesAssumption == Jobs!JobTableAssumption /\ Msg!MessageAssumption /\ Srvr!StreamAssumption

jobVars == <<shell, file, locks, proc, handle, number, sh, jobCommands>>
svcVars == <<program, scm, status, registered, svcShutDown, pauseFlag, svcMain, svc, handler, upd,
             svcCommands>>
msgVars == <<library, lengths, wire, staticBuf, message, nRemainRecv, received>>
srvVars == <<srvSlot, srvMain, iSrvThread, acc, listening, ShutFlag, srvTh, at, record, srvClient, sent>>
processesVars == <<runs, vars, msgVars, jobVars, svcVars, srvVars>>

\* The programs as they are when they do not run.
NoJobs == Jobs!InitOf("none", <<>>)
NoService == Srv!InitOf("none")
NoMessage == Msg!InitOf("none", <<>>)
NoStream == Srvr!InitOf(FALSE)
NoSocket == InitOf(0)

ProcessesInit ==
  \/ runs = "socket" /\ Init /\ NoJobs /\ NoService /\ NoMessage /\ NoStream
  \/ /\ NoSocket
     /\ \/ runs = "jobs" /\ Jobs!Init /\ NoService /\ NoMessage /\ NoStream
        \/ runs = "service" /\ NoJobs /\ Srv!Init /\ NoMessage /\ NoStream
        \/ runs = "message" /\ NoJobs /\ NoService /\ Msg!Init /\ NoStream
        \/ runs = "stream" /\ NoJobs /\ NoService /\ NoMessage /\ Srvr!Init
ProcessesNext ==
  /\ UNCHANGED runs
  /\ \/ runs = "socket" /\ Next /\ UNCHANGED <<jobVars, svcVars, msgVars, srvVars>>
     \/ runs = "jobs" /\ Jobs!Next /\ UNCHANGED <<vars, svcVars, msgVars, srvVars>>
     \/ runs = "service" /\ Srv!Next /\ UNCHANGED <<vars, jobVars, msgVars, srvVars>>
     \/ runs = "message" /\ Msg!Next /\ UNCHANGED <<vars, jobVars, svcVars, srvVars>>
     \/ runs = "stream" /\ Srvr!Next /\ UNCHANGED <<vars, jobVars, svcVars, msgVars>>
ProcessesSpec ==
  /\ ProcessesInit /\ [][ProcessesNext]_processesVars
  /\ Fairness /\ Msg!Fairness /\ Jobs!Fairness /\ Srv!Fairness /\ Srvr!Fairness

-----------------------------------------------------------------------------
(* Each actor works on what is its own: kill terminates the process that    *)
(* was told under the number, a slot of the stream server has one thread    *)
(* and the handle of that thread.                                           *)
OwnTarget ==
  /\ Jobs!TypeOK /\ Jobs!KillHitsNumber
  /\ Srvr!TypeOK /\ Srvr!SlotOfOne
(* CSMessage: what was received is handed over in order, and every message  *)
(* that is short enough arrives.                                            *)
MessagesRight == Msg!TypeOK /\ Msg!NothingLost /\ Msg!ShortArrive
(* JobTable: a new job does not take the record of an active one, and       *)
(* JobShell_secure removes only records of processes that have ended.       *)
(* Service: one that the manager knows as stopped never runs again, and     *)
(* one that will stop is told to be running at most once more.              *)
NoSetback ==
  /\ Jobs!ActiveNotOverwritten /\ Jobs!SecureRemoval
  /\ Srv!NeverBack
Asked ==
  \/ runs = "jobs"
  \/ runs = "service" /\ scm.sent = "STOP" /\ svcMain = "dispatch"
  \/ runs = "stream" /\ ShutFlag
Over ==
  \/ runs = "jobs" /\ Jobs!Ended
  \/ runs = "service" /\ svcMain = "ended"
  \/ runs = "stream" /\ ~Srvr!Up
(* Every command of a shell ends: nobody waits for a lock for ever.  A stop *)
(* that was sent is handled while the process lives, and ends the service.  *)
(* A shut down ends the stream server: the sockets are closed before the    *)
(* threads are waited for, so that none of them stays in a call of recv.    *)
ProcessesEnd == Asked ~> Over
=============================================================================
