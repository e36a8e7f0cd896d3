------------------------------ MODULE Service ------------------------------
(***************************************************************************)
(* SimpleService and serviceSK under the service control manager, with     *)
(* ServiceShell as the user.  The thread of ServiceMain and that of the    *)
(* control handler share hServStatus and the flags without a lock.  The    *)
(* checkpoint counter is left out.                                         *)
(*                                                                         *)
(* main: "none", "dispatch" (StartServiceCtrlDispatcher), "console",       *)
(*   "overflow" (the stack), "ended"                                       *)
(* svc: "none", "register", "begin", "announce", "work", "sleep",          *)
(*   "stopped", "done"; handler: "idle", "stop", "report"                  *)
(* upd[t]: "idle", or a call of UpdateStatus that has to set "state", to   *)
(*   copy the record ("set"), or to tell the manager ("report"), with the  *)
(*   new state, KEEP for -1, or the state copied                           *)
(***************************************************************************)
EXTENDS Naturals

CONSTANT MaxCommands     \* bound on the commands of ServiceShell

VARIABLES
  program,         \* "SimpleService", "serviceSK" or "none"
  scm,             \* what the control manager knows: exists, state, deleted, sent
  status,          \* hServStatus.dwCurrentState
  registered,      \* hSStat # 0
  shutDown, pauseFlag, main, svc, handler, upd, commands

vars == <<program, scm, status, registered, shutDown, pauseFlag, main, svc, handler, upd, commands>>
flags == <<program, registered, shutDown, pauseFlag>>

KEEP == "-1"
Threads == {"svc", "handler"}
Idle == [pc |-> "idle", state |-> KEEP]
Controls == {"STOP", "PAUSE", "CONTINUE", "INTERROGATE", "user"}

InitOf(p) ==
  /\ program = p
  /\ scm = [exists |-> FALSE, state |-> "STOPPED", deleted |-> FALSE, sent |-> "none"]
  /\ status = "none" /\ registered = FALSE /\ shutDown = FALSE /\ pauseFlag = FALSE
  /\ main = "none" /\ svc = "none" /\ handler = "idle"
  /\ upd = [t \in Threads |-> Idle] /\ commands = IF p = "none" THEN MaxCommands ELSE 0
Init == \E p \in {"SimpleService", "serviceSK"} : InitOf(p)

-----------------------------------------------------------------------------
\* UpdateStatus, called by a thread that goes on when upd[t] is idle again.
UpdateStatus(t, state) == upd' = [upd EXCEPT ![t] = [pc |-> "state", state |-> state]]
SetState(t) ==
  /\ upd[t].pc = "state"
  /\ status' = IF upd[t].state = KEEP THEN status ELSE upd[t].state
  /\ upd' = [upd EXCEPT ![t].pc = IF main = "console" THEN "idle" ELSE "set"]
  /\ UNCHANGED <<flags, scm, main, svc, handler, commands>>
\* SetServiceStatus copies the record, and the manager is told what was copied.
\* SimpleService: if the call fails, which it does for handle 0, UpdateStatus calls
\* itself, and again.
SetServiceStatus(t) ==
  /\ upd[t].pc = "set"
  /\ \/ /\ registered
        /\ upd' = [upd EXCEPT ![t] = [pc |-> "report", state |-> status]] /\ UNCHANGED main
     \/ /\ ~registered /\ upd' = [upd EXCEPT ![t] = Idle]
        /\ main' = IF program = "serviceSK" THEN main ELSE "overflow"
  /\ UNCHANGED <<flags, scm, status, svc, handler, commands>>
Told(t) ==
  /\ upd[t].pc = "report" /\ upd' = [upd EXCEPT ![t] = Idle]
  /\ scm' = [scm EXCEPT !.state = upd[t].state]
  /\ UNCHANGED <<flags, status, main, svc, handler, commands>>

-----------------------------------------------------------------------------
\* ServiceMain.
Svc(from, to) == svc = from /\ svc' = to /\ upd["svc"].pc = "idle" /\ main \in {"dispatch", "console"}
Register ==
  /\ svc = "register" /\ main = "dispatch"
  /\ \E ok \in BOOLEAN :
       /\ registered' = ok
       /\ IF ok \/ program = "serviceSK"
          THEN /\ status' = "START_PENDING" /\ svc' = "begin"
               /\ scm' = [scm EXCEPT !.state = IF ok THEN "START_PENDING" ELSE @]
               /\ UNCHANGED upd
          ELSE /\ status' = "STOPPED" /\ svc' = "done" /\ UpdateStatus("svc", "STOPPED")
               /\ UNCHANGED scm
  /\ UNCHANGED <<program, shutDown, pauseFlag, main, handler, commands>>
\* ServiceSpecific: in serviceSK there is nothing in it.
ServiceSpecific ==
  /\ \/ program = "SimpleService" /\ Svc("begin", "announce") /\ UpdateStatus("svc", KEEP)
     \/ program = "serviceSK" /\ Svc("begin", "stopped") /\ UpdateStatus("svc", "STOPPED")
  /\ UNCHANGED <<flags, scm, status, main, handler, commands>>
Announce ==
  /\ Svc("announce", "work") /\ UpdateStatus("svc", "RUNNING")
  /\ UNCHANGED <<flags, scm, status, main, handler, commands>>
WorkStale ==  \* Fault: the loop has no test.
  /\ Svc("work", "sleep") /\ UNCHANGED upd
  /\ UNCHANGED <<flags, scm, status, main, handler, commands>>
Work ==
  /\ \/ ~shutDown /\ Svc("work", "sleep") /\ UNCHANGED upd
     \/ shutDown /\ Svc("work", "stopped") /\ UpdateStatus("svc", "STOPPED")
  /\ UNCHANGED <<flags, scm, status, main, handler, commands>>
PeriodicRunning == "RUNNING"  \* Fault: the state is given again at each update.
Periodic == KEEP
Wake ==
  /\ Svc("sleep", "work") /\ UpdateStatus("svc", Periodic)
  /\ UNCHANGED <<flags, scm, status, main, handler, commands>>
Return ==
  /\ Svc("stopped", "done") /\ UNCHANGED upd
  /\ UNCHANGED <<flags, scm, status, main, handler, commands>>

-----------------------------------------------------------------------------
\* ServerCtrlHandler, called by the dispatcher for one control after another.
ServerCtrlHandler ==
  /\ main = "dispatch" /\ handler = "idle" /\ scm.sent # "none"
  /\ shutDown' = (shutDown \/ (scm.sent = "STOP"))
  /\ pauseFlag' = CASE scm.sent = "PAUSE" -> TRUE [] scm.sent = "CONTINUE" -> FALSE
                    [] OTHER -> pauseFlag
  /\ handler' = IF scm.sent = "STOP" THEN "stop" ELSE "report"
  /\ UNCHANGED <<program, registered, scm, status, main, svc, upd, commands>>
StopPending ==
  /\ handler = "stop" /\ handler' = "report" /\ UpdateStatus("handler", "STOP_PENDING")
  /\ UNCHANGED <<flags, scm, status, main, svc, commands>>
Report ==
  /\ handler = "report" /\ upd["handler"].pc = "idle"
  /\ handler' = "return" /\ UpdateStatus("handler", KEEP)
  /\ UNCHANGED <<flags, scm, status, main, svc, commands>>
HandlerReturns ==
  /\ handler = "return" /\ upd["handler"].pc = "idle" /\ handler' = "idle"
  /\ scm' = [scm EXCEPT !.sent = "none"]
  /\ UNCHANGED <<flags, status, main, svc, upd, commands>>
\* The dispatcher returns when ServiceMain has; the manager sees the process end.
Dispatched ==
  /\ main = "dispatch" /\ svc = "done" /\ handler = "idle" /\ upd["svc"].pc = "idle"
  /\ main' = "ended"
  /\ scm' = [scm EXCEPT !.state = "STOPPED", !.sent = "none",
                        !.exists = ~scm.deleted, !.deleted = FALSE]
  /\ UNCHANGED <<flags, status, svc, handler, upd, commands>>

-----------------------------------------------------------------------------
\* ServiceShell.  The manager refuses what the state of the service does not allow.
Command == commands < MaxCommands /\ commands' = commands + 1
Create ==
  /\ Command /\ ~scm.exists /\ scm' = [scm EXCEPT !.exists = TRUE]
  /\ UNCHANGED <<flags, status, main, svc, handler, upd>>
Delete ==
  /\ Command /\ scm.exists
  /\ scm' = IF scm.state = "STOPPED" /\ main \in {"none", "ended"}
            THEN [scm EXCEPT !.exists = FALSE] ELSE [scm EXCEPT !.deleted = TRUE]
  /\ UNCHANGED <<flags, status, main, svc, handler, upd>>
\* A new process, with its own flags.
Start ==
  /\ Command /\ scm.exists /\ ~scm.deleted /\ main \in {"none", "ended"}
  /\ main' = "dispatch" /\ svc' = "register"
  /\ shutDown' = FALSE /\ pauseFlag' = FALSE /\ registered' = FALSE
  /\ scm' = [scm EXCEPT !.state = "START_PENDING"]
  /\ UNCHANGED <<program, status, handler, upd>>
Control ==
  /\ Command /\ main = "dispatch" /\ scm.state \in {"RUNNING", "PAUSED"} /\ scm.sent = "none"
  /\ \E c \in Controls : scm' = [scm EXCEPT !.sent = c]
  /\ UNCHANGED <<flags, status, main, svc, handler, upd>>
\* The program with option -c: nothing ever sets the shut down flag.
Console ==
  /\ Command /\ program = "SimpleService" /\ main = "none"
  /\ main' = "console" /\ svc' = "begin"
  /\ UNCHANGED <<flags, scm, status, handler, upd>>

-----------------------------------------------------------------------------
ServiceMain == Register \/ ServiceSpecific \/ Announce \/ Work \/ Wake \/ Return
Handler == ServerCtrlHandler \/ StopPending \/ Report \/ HandlerReturns
Update(t) == main # "overflow" /\ (SetState(t) \/ SetServiceStatus(t) \/ Told(t))
Shell == Create \/ Delete \/ Start \/ Control \/ Console
Next == ServiceMain \/ Handler \/ Dispatched \/ Shell \/ \E t \in Threads : Update(t)
Fairness ==
  /\ WF_vars(ServiceMain) /\ WF_vars(Handler) /\ WF_vars(Dispatched)
  /\ \A t \in Threads : WF_vars(Update(t))
Spec == Init /\ [][Next]_vars /\ Fairness

-----------------------------------------------------------------------------
ServiceStates == {"STOPPED", "START_PENDING", "RUNNING", "STOP_PENDING"}
(* Every variable has its type, within the bounds of the instance.         *)
TypeOK ==
  /\ scm.state \in ServiceStates /\ status \in ServiceStates \cup {"none"}
  /\ scm.deleted => scm.exists
  /\ main \in {"none", "dispatch", "console", "overflow", "ended"}
  /\ upd \in [Threads -> [pc : {"idle", "state", "set", "report"}, state : ServiceStates \cup {KEEP}]]
  /\ handler # "idle" => scm.sent # "none"

(* The two threads write one record without a lock, and what is copied from *)
(* it may be told late.  Still, a service that the manager knows as STOPPED *)
(* is never RUNNING again, nor START_PENDING one that was further; and      *)
(* RUNNING is told after STOP_PENDING at most once: the record says so no   *)
(* more, and no other call has yet to tell it.                              *)
NeverBack ==
  [][/\ scm.state = "STOPPED" => scm'.state # "RUNNING"
     /\ scm'.state = "START_PENDING" /\ scm.state # "START_PENDING" => main # "dispatch"
     /\ scm.state = "STOP_PENDING" /\ scm'.state = "RUNNING" =>
          status' # "RUNNING" /\ \A t \in Threads : upd'[t].state # "RUNNING"]_vars

(* SimpleService.C:101: "We will only return here when the ServiceSpecific  *)
(* function completes, indicating system shutDown": SERVICE_STOPPED, set    *)
(* there, is the last status of the service.                                *)
(* Fails, and no run checks it: see section 7 of the README.                *)
StoppedLast == [][scm.state = "STOPPED" /\ main = "dispatch" => scm'.state # "STOP_PENDING"]_vars

(* The process does not end by an overflow of its stack.                    *)
(* Fails, and no run checks it: see section 7 of the README.                *)
NoOverflow == main # "overflow"
=============================================================================
