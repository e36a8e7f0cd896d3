------------------------------- MODULE ServerSK -------------------------------
(***************************************************************************)
(* The socket server of CHAPTR12/serverSK: a table of slots, one server    *)
(* thread per connected client, one accept thread at a time, and the main  *)
(* thread, which polls the slots, starts the accept threads and, after     *)
(* Control-C, waits for the server threads.  The fields of a slot are      *)
(* guarded by its critical section threadCs.                               *)
(*                                                                         *)
(* Labels of main: poll (looking for a free slot), reap (owns threadCs,    *)
(* waiting for a stopped thread), await (an accept thread is running),     *)
(* drain (shutdown loop, at slot iThread), wait1 and wait2 (own threadCs,  *)
(* waiting for the thread of the slot), join (library freed, socket        *)
(* closed, waiting for the accept thread).                                 *)
(*                                                                         *)
(* Labels of the accept thread: none, accept (in accept), accepted (waiting *)
(* for threadCs), created (owns threadCs, the server thread runs), done.   *)
(*                                                                         *)
(* Labels of the server thread of a slot: none, loop (tests shutFlag),     *)
(* recv (receiving a request), command (executing it and responding), stop *)
(* (socket closed, waiting for threadCs), exiting (stop posted), ended.    *)
(***************************************************************************)
EXTENDS Integers

CONSTANTS
  MAX_CLIENTS,
  ClientsReset  \* whether a client's connection may break

ASSUME ServerSKAssumption ==
  /\ MAX_CLIENTS \in Nat \ {0}
  /\ ClientsReset \in BOOLEAN

VARIABLES
  shutFlag,
  thState, threadCs, hSrvThread, \* the slots: state, owner of threadCs, handle known
  server, faulted,               \* server threads: label; ended by an exception
  main, iThread, nRunningThreads,
  accept, aSlot,                 \* the accept thread: label and slot
  exitCode                       \* Running until the process ends

vars == <<shutFlag, thState, threadCs, hSrvThread, server, faulted, main, iThread,
          nRunningThreads, accept, aSlot, exitCode>>

slots == <<thState, threadCs, hSrvThread>>
servers == <<server, faulted>>
position == <<iThread, nRunningThreads>>
accepting == <<accept, aSlot>>

Slots == 0 .. MAX_CLIENTS - 1
Running == -1

SlotStates == {"FREE", "STOPPED", "RUNNING", "INVALID"}
Owners == {"nobody", "main", "accept"}
MainLabels == {"poll", "reap", "await", "drain", "wait1", "wait2", "join"}
AcceptLabels == {"none", "accept", "accepted", "created", "done"}
ServerLabels == {"none", "loop", "recv", "command", "stop", "exiting", "ended"}

InitOf(code) ==
  /\ shutFlag = FALSE
  /\ thState = [i \in Slots |-> "FREE"]
  /\ threadCs = [i \in Slots |-> "nobody"]
  /\ hSrvThread = [i \in Slots |-> FALSE]
  /\ server = [i \in Slots |-> "none"]
  /\ faulted = {}
  /\ main = "poll"
  /\ iThread = 0
  /\ nRunningThreads = 0
  /\ accept = "none"
  /\ aSlot = 0
  /\ exitCode = code
Init == InitOf(Running)

Alive == exitCode = Running

\* ReportError with a positive code ends the process.
ReportError(code) == exitCode' = code

-----------------------------------------------------------------------------
(* The main thread before shutdown.                                        *)

\* The rest of the outer loop once a free slot is known: start an accept
\* thread on it, or leave the loop on shutdown.
UseSlot(i) ==
  IF shutFlag
  THEN main' = "drain" /\ iThread' = 0 /\ UNCHANGED accepting
  ELSE main' = "await" /\ accept' = "accept" /\ aSlot' = i /\ UNCHANGED iThread

PollFree ==
  /\ main = "poll"
  /\ threadCs[iThread] = "nobody"
  /\ thState[iThread] = "FREE"
  /\ UseSlot(iThread)
  /\ UNCHANGED <<shutFlag, slots, servers, nRunningThreads, exitCode>>

\* Fault: the polling does not start over after the last slot.
PollBusyNoWrap ==
  /\ main = "poll"
  /\ threadCs[iThread] = "nobody"
  /\ thState[iThread] = "RUNNING"
  /\ ~shutFlag
  /\ iThread' = iThread + 1
  /\ UNCHANGED <<shutFlag, slots, servers, main, nRunningThreads, accepting, exitCode>>

PollBusy ==
  /\ main = "poll"
  /\ threadCs[iThread] = "nobody"
  /\ thState[iThread] = "RUNNING"
  /\ ~shutFlag
  /\ iThread' = (iThread + 1) % MAX_CLIENTS
  /\ UNCHANGED <<shutFlag, slots, servers, main, nRunningThreads, accepting, exitCode>>

PollStopped ==
  /\ main = "poll"
  /\ threadCs[iThread] = "nobody"
  /\ thState[iThread] = "STOPPED"
  /\ threadCs' = [threadCs EXCEPT ![iThread] = "main"]
  /\ main' = "reap"
  /\ UNCHANGED <<shutFlag, thState, hSrvThread, servers, position, accepting, exitCode>>

\* Fault: the slot is freed before its thread has ended.
ReapAtOnce ==
  /\ main = "reap"
  /\ thState' = [thState EXCEPT ![iThread] = "FREE"]
  /\ hSrvThread' = [hSrvThread EXCEPT ![iThread] = FALSE]
  /\ threadCs' = [threadCs EXCEPT ![iThread] = "nobody"]
  /\ UseSlot(iThread)
  /\ UNCHANGED <<shutFlag, servers, nRunningThreads, exitCode>>

\* The stopped thread has ended: its slot is free again.
Reap ==
  /\ main = "reap"
  /\ server[iThread] = "ended"
  /\ thState' = [thState EXCEPT ![iThread] = "FREE"]
  /\ hSrvThread' = [hSrvThread EXCEPT ![iThread] = FALSE]
  /\ threadCs' = [threadCs EXCEPT ![iThread] = "nobody"]
  /\ UseSlot(iThread)
  /\ UNCHANGED <<shutFlag, servers, nRunningThreads, exitCode>>

\* A test of shutFlag ends the polling.
PollShutdown ==
  /\ main = "poll" /\ shutFlag
  /\ main' = "drain" /\ iThread' = 0
  /\ UNCHANGED <<shutFlag, slots, servers, nRunningThreads, accepting, exitCode>>

\* The accept thread has ended: close its handle and poll from slot 0; its
\* handle is kept if shutdown has begun.
AwaitAccepted ==
  /\ main = "await"
  /\ accept = "done"
  /\ main' = IF shutFlag THEN "drain" ELSE "poll"
  /\ iThread' = 0
  /\ accept' = IF shutFlag THEN accept ELSE "none"
  /\ UNCHANGED <<shutFlag, slots, servers, nRunningThreads, aSlot, exitCode>>

\* The wait for the accept thread timed out, and shutFlag is set.
AwaitShutdown ==
  /\ main = "await" /\ shutFlag
  /\ main' = "drain" /\ iThread' = 0
  /\ UNCHANGED <<shutFlag, slots, servers, nRunningThreads, accepting, exitCode>>

-----------------------------------------------------------------------------
(* The main thread after shutdown.                                         *)

\* Fault: threads still running are not counted.
NextSlotUncounted(running) ==
  /\ main' = IF iThread < MAX_CLIENTS - 1 THEN "drain" ELSE "join"
  /\ iThread' = IF iThread < MAX_CLIENTS - 1 THEN iThread + 1 ELSE 0
  /\ nRunningThreads' = 0

\* Go on to the next slot, or around again, or out of the loop, when running
\* threads have been counted up to the current slot.
NextSlot(running) ==
  IF iThread < MAX_CLIENTS - 1
  THEN main' = "drain" /\ iThread' = iThread + 1 /\ nRunningThreads' = running
  ELSE /\ main' = IF running = 0 THEN "join" ELSE "drain"
       /\ iThread' = 0
       /\ nRunningThreads' = 0

DrainIdle ==
  /\ main = "drain"
  /\ threadCs[iThread] = "nobody"
  /\ thState[iThread] \in {"FREE", "INVALID"}
  /\ NextSlot(nRunningThreads)
  /\ UNCHANGED <<shutFlag, slots, servers, accepting, exitCode>>

DrainActive ==
  /\ main = "drain"
  /\ threadCs[iThread] = "nobody"
  /\ thState[iThread] \in {"RUNNING", "STOPPED"}
  /\ threadCs' = [threadCs EXCEPT ![iThread] = "main"]
  /\ main' = "wait1"
  /\ UNCHANGED <<shutFlag, thState, hSrvThread, servers, position, accepting, exitCode>>

\* The thread ends within the first wait.
WaitEnded ==
  /\ main = "wait1"
  /\ server[iThread] = "ended"
  /\ thState' = [thState EXCEPT ![iThread] = "INVALID"]
  /\ hSrvThread' = [hSrvThread EXCEPT ![iThread] = FALSE]
  /\ threadCs' = [threadCs EXCEPT ![iThread] = "nobody"]
  /\ NextSlot(nRunningThreads)
  /\ UNCHANGED <<shutFlag, servers, accepting, exitCode>>

\* Fault: the first wait has no time limit.
WaitTimedOutNever ==
  /\ main = "wait1"
  /\ FALSE
  /\ UNCHANGED vars

\* The first wait ends without it.
WaitTimedOut ==
  /\ main = "wait1"
  /\ server[iThread] # "ended"
  /\ main' = "wait2"
  /\ UNCHANGED <<shutFlag, slots, servers, position, accepting, exitCode>>

\* The second wait: a thread that ends now is taken for an error and is
\* neither counted nor made INVALID.
WaitAgain ==
  /\ main = "wait2"
  /\ threadCs' = [threadCs EXCEPT ![iThread] = "nobody"]
  /\ NextSlot(IF server[iThread] = "ended" THEN nRunningThreads ELSE nRunningThreads + 1)
  /\ UNCHANGED <<shutFlag, thState, hSrvThread, servers, accepting, exitCode>>

\* The accept thread, if there is one, has ended: return 0.
Return ==
  /\ main = "join"
  /\ accept \in {"none", "done"}
  /\ exitCode' = 0
  /\ UNCHANGED <<shutFlag, slots, servers, main, position, accepting>>

Main ==
  /\ Alive
  /\ \/ PollFree \/ PollBusy \/ PollStopped \/ Reap \/ PollShutdown
     \/ AwaitAccepted \/ AwaitShutdown
     \/ DrainIdle \/ DrainActive \/ WaitEnded \/ WaitTimedOut \/ WaitAgain \/ Return

-----------------------------------------------------------------------------
(* The accept thread.                                                      *)

\* A client connects.
Accept ==
  /\ Alive
  /\ accept = "accept"
  /\ main # "join"
  /\ accept' = "accepted"
  /\ UNCHANGED <<shutFlag, slots, servers, main, position, aSlot, exitCode>>

\* The listening socket has been closed under a pending accept.
AcceptFails ==
  /\ Alive
  /\ accept = "accept"
  /\ main = "join"
  /\ ReportError(1)
  /\ UNCHANGED <<shutFlag, slots, servers, main, position, accepting>>

\* Fault: the server thread is created outside of the critical section.
CreateServerUnlocked ==
  /\ Alive
  /\ accept = "accepted"
  /\ hSrvThread' = [hSrvThread EXCEPT ![aSlot] = TRUE]
  /\ server' = [server EXCEPT ![aSlot] = "loop"]
  /\ faulted' = faulted \ {aSlot}
  /\ accept' = "created"
  /\ UNCHANGED <<shutFlag, thState, threadCs, main, position, aSlot, exitCode>>

\* Fault: the handle of the server thread is not stored in the slot.
CreateServerNoHandle ==
  /\ Alive
  /\ accept = "accepted"
  /\ threadCs[aSlot] = "nobody"
  /\ threadCs' = [threadCs EXCEPT ![aSlot] = "accept"]
  /\ server' = [server EXCEPT ![aSlot] = "loop"]
  /\ faulted' = faulted \ {aSlot}
  /\ accept' = "created"
  /\ UNCHANGED <<shutFlag, thState, hSrvThread, main, position, aSlot, exitCode>>

CreateServer ==
  /\ Alive
  /\ accept = "accepted"
  /\ threadCs[aSlot] = "nobody"
  /\ threadCs' = [threadCs EXCEPT ![aSlot] = "accept"]
  /\ hSrvThread' = [hSrvThread EXCEPT ![aSlot] = TRUE]
  /\ server' = [server EXCEPT ![aSlot] = "loop"]
  /\ faulted' = faulted \ {aSlot}
  /\ accept' = "created"
  /\ UNCHANGED <<shutFlag, thState, main, position, aSlot, exitCode>>

MarkRunning ==
  /\ Alive
  /\ accept = "created"
  /\ thState' = [thState EXCEPT ![aSlot] = "RUNNING"]
  /\ threadCs' = [threadCs EXCEPT ![aSlot] = "nobody"]
  /\ accept' = "done"
  /\ UNCHANGED <<shutFlag, hSrvThread, servers, main, position, aSlot, exitCode>>

-----------------------------------------------------------------------------
(* The server threads and the console control handler.                     *)

ServerGoes(i, from, to) ==
  /\ Alive
  /\ server[i] = from
  /\ server' = [server EXCEPT ![i] = to]
  /\ UNCHANGED <<shutFlag, threadCs, hSrvThread, main, position, accepting, exitCode>>

\* while (!done && !shutFlag)
TestShutFlag(i) ==
  /\ ServerGoes(i, "loop", IF shutFlag THEN "stop" ELSE "recv")
  /\ UNCHANGED <<thState, faulted>>

\* A request arrives.  The client may also disconnect or ask to quit, and
\* shutFlag is tested again.
ReceiveRequest(i) ==
  /\ \/ ServerGoes(i, "recv", "stop")
     \/ ~shutFlag /\ ServerGoes(i, "recv", "command")
  /\ UNCHANGED <<thState, faulted>>

ExecuteCommand(i) ==
  /\ ServerGoes(i, "command", "loop")
  /\ UNCHANGED <<thState, faulted>>

\* An exception in the shared library: the thread returns at once, and the
\* slot does not learn of it.
CommandException(i) ==
  /\ ServerGoes(i, "command", "ended")
  /\ faulted' = faulted \cup {i}
  /\ UNCHANGED thState

\* Post the stop; only this step needs the critical section.
PostStopped(i) ==
  /\ threadCs[i] = "nobody"
  /\ ServerGoes(i, "stop", "exiting")
  /\ thState' = [thState EXCEPT ![i] = "STOPPED"]
  /\ UNCHANGED faulted

EndServer(i) ==
  /\ ServerGoes(i, "exiting", "ended")
  /\ UNCHANGED <<thState, faulted>>

\* A send or receive error ends the whole process.
ConnectionBreaks(i) ==
  /\ Alive
  /\ ClientsReset
  /\ server[i] \in {"recv", "command"}
  /\ \E code \in 11 .. 14 : ReportError(code)
  /\ UNCHANGED <<shutFlag, slots, servers, main, position, accepting>>

Server(i) ==
  \/ TestShutFlag(i) \/ ReceiveRequest(i) \/ ExecuteCommand(i) \/ CommandException(i)
  \/ PostStopped(i) \/ EndServer(i)

\* Control-C
Handler ==
  /\ Alive
  /\ ~shutFlag
  /\ shutFlag' = TRUE
  /\ UNCHANGED <<slots, servers, main, position, accepting, exitCode>>

\* The process has ended.
Ended == ~Alive /\ UNCHANGED vars

Next ==
  \/ Main
  \/ Accept \/ AcceptFails \/ CreateServer \/ MarkRunning
  \/ \E i \in Slots : Server(i) \/ ConnectionBreaks(i)
  \/ Handler
  \/ Ended

\* Every thread runs, commands end, and no client keeps a connection open
\* without sending anything.  The main thread holds threadCs of one slot at a
\* time, again and again: of the server threads that wait for one which it has
\* left often enough, some thread gets it.
Fairness ==
  /\ WF_vars(Main)
  /\ WF_vars(AcceptFails) /\ WF_vars(CreateServer) /\ WF_vars(MarkRunning)
  /\ \A i \in Slots :
       WF_vars(TestShutFlag(i) \/ ReceiveRequest(i) \/ ExecuteCommand(i) \/ EndServer(i))
  /\ SF_vars(\E i \in Slots : PostStopped(i))

Spec == Init /\ [][Next]_vars
FairSpec == Spec /\ Fairness

-----------------------------------------------------------------------------
\* Every variable has its type.
TypeOK ==
  /\ shutFlag \in BOOLEAN
  /\ thState \in [Slots -> SlotStates]
  /\ threadCs \in [Slots -> Owners]
  /\ hSrvThread \in [Slots -> BOOLEAN]
  /\ server \in [Slots -> ServerLabels]
  /\ faulted \subseteq Slots
  /\ main \in MainLabels
  /\ iThread \in Slots
  /\ nRunningThreads \in 0 .. MAX_CLIENTS - 1
  /\ accept \in AcceptLabels
  /\ aSlot \in Slots
  /\ exitCode \in Int

\* A slot is given to an accept thread only when its last server thread has
\* ended: the two would share the socket field and the temporary file.
SlotUnused ==
  accept \in {"accept", "accepted"} =>
    thState[aSlot] = "FREE" /\ server[aSlot] \in {"none", "ended"}

\* The stop of a server thread is not overwritten by the accept thread's
\* announcement that it runs, so the slot can be used again.
StopNotLost ==
  \A i \in Slots : server[i] \in {"exiting", "ended"} /\ i \notin faulted =>
    thState[i] # "RUNNING"

\* The main thread waits for a thread only through a handle it knows.
WaitsOnHandle == main \in {"reap", "wait1", "wait2"} => hSrvThread[iThread]

\* The shared library is freed, and the sockets are closed, only when no
\* server thread is executing a command.
LibraryUnused == main = "join" => \A i \in Slots : server[i] \notin {"recv", "command"}

\* After Control-C the process ends, although the main thread waits for server
\* threads while it holds the critical section they need to end.
ShutdownEnds == shutFlag ~> ~Alive

\* A shutdown in which nothing failed ends with return 0.
\* Fails, and no run checks it: see section 7 of the README.
NormalExit == exitCode \in {Running, 0}
=============================================================================
