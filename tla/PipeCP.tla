------------------------------- MODULE PipeCP -------------------------------
(***************************************************************************)
(* serverNPCP: all instances of the pipe belong to one I/O completion      *)
(* port.  A server thread takes a completion from the port and carries out *)
(* the next step of that instance, whose npState tells which operation has *)
(* completed.                                                              *)
(*                                                                         *)
(* key[i].pending: the operation outstanding on instance i, "connect",     *)
(*   "read", "write" or "none"                                             *)
(* wk[t]: "wait" (GetQueuedCompletionStatus), "compute", "ended"           *)
(***************************************************************************)
EXTENDS NamedPipe

CONSTANT ServerThreads
ASSUME ThreadsAssumption == IsFiniteSet(ServerThreads) /\ Cardinality(ServerThreads) <= MAX_CLIENTS  \* MAX_SERVER_TH

VARIABLES
  key,             \* key[i]: npState, pending, the request and the temporary file
  port,            \* completions that no thread has taken: instances and results
  wk,              \* wk[t]: what server thread t does
  of,              \* of[t]: the instance it does it for
  lost             \* history: instances of which a thread has left nothing outstanding

portVars == <<key, port, wk, of, lost>>
cpVars == <<pipeVars, portVars>>

NoRequest == Request(0, 0, FALSE)
KeyInit ==
  [i \in Pipes |-> [npState |-> "connected", pending |-> "connect", request |-> NoRequest, tmp |-> <<>>]]
InitOf(over) ==
  /\ PipeInit(over) /\ key = KeyInit /\ port = <<>>
  /\ wk = [t \in ServerThreads |-> IF over THEN "ended" ELSE "wait"] /\ of = [t \in ServerThreads |-> 0]
  /\ lost = {}
Init == InitOf(FALSE)

Completion(i, result) == [of |-> i, result |-> result]
Alive(i) == pipe[i].state = "connected"
Keep == UNCHANGED <<client, slot>>

-----------------------------------------------------------------------------
\* An operation completes: a client connects, its request is there, or it has gone.
Arrives(i) == key[i].pending = "read" /\ pipe[i].request # <<>>
Completes(i, result) ==
  /\ key' = [key EXCEPT ![i].pending = "none",
                        ![i].request = IF Arrives(i) THEN Head(pipe[i].request) ELSE @]
  /\ pipe' = IF Arrives(i) THEN [pipe EXCEPT ![i].request = Tail(@)] ELSE pipe
  /\ port' = Append(port, Completion(i, result))
Complete(i) ==
  /\ \/ key[i].pending = "connect" /\ InUse(i) /\ Completes(i, "done")
     \/ Arrives(i) /\ Completes(i, "done")
     \/ key[i].pending = "read" /\ ~Arrives(i) /\ ~Alive(i) /\ Completes(i, "failed")
     \/ key[i].pending = "write" /\ Completes(i, "done")
  /\ Keep /\ UNCHANGED <<shutDown, cancelled, wk, of, lost>>

-----------------------------------------------------------------------------
\* What a step does: the instance after it, the thread, what it writes and posts, and
\* whether the thread goes on while nothing is outstanding.
IssuesAlways(k, operation, possible) ==  \* Fault: the result of the call is not looked at.
  [key |-> IF possible THEN [k EXCEPT !.pending = operation] ELSE k,
   thread |-> "wait", sent |-> <<>>, posts |-> <<>>, lost |-> FALSE]
Issues(k, operation, possible) ==
  [key |-> IF possible THEN [k EXCEPT !.pending = operation] ELSE k,
   thread |-> IF possible THEN "wait" ELSE "ended", sent |-> <<>>, posts |-> <<>>, lost |-> FALSE]
Writes(i, k, message) == [Issues(k, "write", Alive(i)) EXCEPT !.sent = <<message>>]
Posts(i, k) ==
  [key |-> k, thread |-> "wait", sent |-> <<>>, posts |-> <<Completion(i, "done")>>, lost |-> FALSE]

Connected(i, k) ==
  Issues([k EXCEPT !.npState = "requestRead", !.request = NoRequest], "read",
         Alive(i) \/ pipe[i].request # <<>>)
RequestRead(k) == [key |-> k, thread |-> "compute", sent |-> <<>>, posts |-> <<>>, lost |-> FALSE]
\* The compute thread cannot be created: the next completion, please.
NotComputed(k) == [RequestRead(k) EXCEPT !.thread = "wait", !.lost = TRUE]
\* computed and responding: a line of the temporary file, or the end.
Responds(i, k) ==
  IF k.tmp # <<>>
  THEN Writes(i, [k EXCEPT !.npState = "responding", !.tmp = Tail(@)], Line(Head(k.tmp)))
  ELSE Posts(i, [k EXCEPT !.npState = "respondLast"])
\* The temporary file cannot be opened: disconnect, but nothing is disconnected.
NotOpened(k) == [RequestRead(k) EXCEPT !.thread = "ended"]
RespondLastTwice(i, k) ==  \* Fault: the next state is posted as well.
  [Writes(i, [k EXCEPT !.npState = "connected"], Last(k.request)) EXCEPT !.posts = <<Completion(i, "done")>>]
RespondLast(i, k) == Writes(i, [k EXCEPT !.npState = "connected"], Last(k.request))
StepsOf(i, k) ==
  CASE k.npState = "connected" -> {Connected(i, k)}
    [] k.npState = "requestRead" -> {RequestRead(k), NotComputed(k)}
    [] k.npState = "computed" -> {Responds(i, k), NotOpened(k)}
    [] k.npState = "responding" -> {Responds(i, k)}
    [] k.npState = "respondLast" -> {RespondLast(i, k)}

\* GetQueuedCompletionStatus: a failed operation is reported and then handled like
\* one that is done.
Serve(t) ==
  LET i == Head(port).of
  IN /\ wk[t] = "wait" /\ port # <<>> /\ ~shutDown
     /\ \E s \in StepsOf(i, key[i]) :
          /\ key' = [key EXCEPT ![i] = s.key] /\ port' = Tail(port) \o s.posts
          /\ pipe' = IF s.sent = <<>> THEN pipe ELSE Sent(i, s.sent)
          /\ wk' = [wk EXCEPT ![t] = s.thread]
          /\ of' = [of EXCEPT ![t] = IF s.thread = "compute" THEN i ELSE 0]
          /\ lost' = IF s.lost THEN lost \cup {i} ELSE lost
     /\ Keep /\ UNCHANGED <<shutDown, cancelled>>
LeaveKept(t) ==  \* Fault: shutDown is not looked at after a completion.
  /\ wk[t] = "wait" /\ port # <<>> /\ shutDown
  /\ port' = Tail(port) /\ wk' = wk
  /\ Keep /\ UNCHANGED <<pipe, shutDown, cancelled, key, of, lost>>
Leave(t) ==
  /\ wk[t] = "wait" /\ port # <<>> /\ shutDown
  /\ port' = Tail(port) /\ wk' = [wk EXCEPT ![t] = "ended"]
  /\ Keep /\ UNCHANGED <<pipe, shutDown, cancelled, key, of, lost>>
\* The thread waits for its compute thread, which runs the command, if there is one,
\* or cannot make the temporary file; posting the completion may fail.
Output(r) == IF r = NoRequest THEN <<>> ELSE <<r>>
Compute(t) ==
  LET i == of[t]
  IN /\ wk[t] = "compute"
     /\ \E state \in {"computed", "respondLast"} :
          key' = [key EXCEPT ![i].npState = state,
                             ![i].tmp = IF state = "computed" THEN Output(key[i].request) ELSE @]
     /\ \/ port' = Append(port, Completion(i, "done")) /\ UNCHANGED lost
        \/ UNCHANGED port /\ lost' = lost \cup {i}
     /\ wk' = [wk EXCEPT ![t] = IF shutDown THEN "ended" ELSE "wait"]
     /\ of' = [of EXCEPT ![t] = 0]
     /\ Keep /\ UNCHANGED <<pipe, shutDown, cancelled>>

Cancels(i) == key[i].pending # "none"
Cancel ==
  LET i == cancelled + 1
  IN /\ shutDown /\ cancelled < MAX_CLIENTS /\ cancelled' = i
     /\ IF Cancels(i) THEN /\ key' = [key EXCEPT ![i].pending = "none"]
                          /\ port' = Append(port, Completion(i, "aborted"))
                     ELSE UNCHANGED <<key, port>>
     /\ Keep /\ UNCHANGED <<pipe, shutDown, wk, of, lost>>

-----------------------------------------------------------------------------
Running == ~MonitorEnded \/ \E t \in ServerThreads : wk[t] # "ended"
Ended == ~Running
Server(t) == Serve(t) \/ Leave(t) \/ Compute(t)
Environment ==
  /\ \/ \E c \in Clients : Client(c, Running)
     \/ Broadcast \/ SrvrBcst
     \/ Running /\ Handler
  /\ UNCHANGED portVars
Next ==
  \/ \E i \in Pipes : Complete(i)
  \/ \E t \in ServerThreads : Server(t)
  \/ Cancel \/ Environment
Fairness ==
  /\ WF_cpVars(Cancel) /\ WF_cpVars(\E t \in ServerThreads : Serve(t) \/ Leave(t))
  /\ \A t \in ServerThreads : WF_cpVars(Compute(t))
Spec == Init /\ [][Next]_cpVars /\ Fairness

-----------------------------------------------------------------------------
NpStates == {"connected", "requestRead", "computed", "responding", "respondLast"}
Outstanding(i) ==
  (IF key[i].pending = "none" THEN 0 ELSE 1)
  + Cardinality({n \in 1..Len(port) : port[n].of = i})
  + Cardinality({t \in ServerThreads : of[t] = i})

(* Every variable has its type, within the bounds of the instance.         *)
TypeOK ==
  /\ PipeTypeOK
  /\ \A i \in Pipes : /\ key[i].npState \in NpStates /\ Len(key[i].tmp) <= 1
                      /\ Len(pipe[i].request) <= 1
  /\ \A t \in ServerThreads : of[t] # 0 <=> wk[t] = "compute"
  /\ lost \subseteq Pipes

(* An instance has one operation outstanding, one completion in the port,   *)
(* or one thread that serves it, never two: its structure has no lock.      *)
OneOperation == \A i \in Pipes : Outstanding(i) <= 1

(* An instance that is never served again costs one server thread, unless a *)
(* thread went on without it (lost), and that only when its client has gone *)
(* or the file with the output of its request could not be opened.          *)
Unserved == {i \in Pipes : Outstanding(i) = 0}
ThreadPerInstance ==
  ~shutDown =>
    /\ lost \subseteq Unserved
    /\ Cardinality({t \in ServerThreads : wk[t] = "ended"}) = Cardinality(Unserved \ lost)
    /\ \A i \in Unserved \ lost : pipe[i].state = "closing" \/ key[i].npState = "computed"

(* After a shut down every server thread ends: there are completions enough *)
(* for all the threads that wait, while the instances outnumber those lost  *)
(* by the number of threads.                                                *)
TooFewCompletions == Cardinality(lost) + Cardinality(ServerThreads) > MAX_CLIENTS
EndsAfterShutDown == shutDown ~> Ended \/ TooFewCompletions
=============================================================================
