----------------------------- MODULE PipeServer -----------------------------
(***************************************************************************)
(* serverNP and serverNP_secure: a thread for each instance of the pipe,   *)
(* which waits with a time limit for a connect thread that calls           *)
(* ConnectNamedPipe, so that it sees the shut down flag.                   *)
(*                                                                         *)
(* th[i]: "loop", "await", "check", "read", "run", "answer", "flushed",    *)
(*   "hangUp", "disconnect", "leave", "join", "ended"                      *)
(* con[i]: "none", "begun", "waiting" (in ConnectNamedPipe), "ended"       *)
(***************************************************************************)
EXTENDS NamedPipe

VARIABLES
  server,          \* "serverNP", "serverNP_secure" or "none"
  th, con,
  req,             \* req[i]: the request that thread i carries out
  tmp              \* tmp[i]: the lines of its temporary file

serverVars == <<server, th, con, req, tmp>>
vars == <<pipeVars, serverVars>>

Secure == server = "serverNP_secure"
NoRequest == Request(NoClient, 0, FALSE)
InitOf(s) ==
  /\ PipeInit(s = "none") /\ server = s
  /\ th = [i \in Pipes |-> IF s = "none" THEN "ended" ELSE "loop"]
  /\ con = [i \in Pipes |-> "none"]
  /\ req = [i \in Pipes |-> NoRequest] /\ tmp = [i \in Pipes |-> <<>>]
Init == \E s \in {"serverNP", "serverNP_secure"} : InitOf(s)

At(i, pc) == th[i] = pc
Goto(i, pc) == th' = [th EXCEPT ![i] = pc]
Keep == UNCHANGED <<server, client, slot>>

-----------------------------------------------------------------------------
\* The connect thread.
ConnectNamedPipe(i) ==
  /\ con[i] = "begun"
  /\ IF InUse(i) THEN con' = [con EXCEPT ![i] = "ended"] /\ UNCHANGED pipe
                 ELSE con' = [con EXCEPT ![i] = "waiting"] /\ pipe' = [pipe EXCEPT ![i] = Listening]
  /\ Keep /\ UNCHANGED <<shutDown, cancelled, th, req, tmp>>
Connected(i) ==
  /\ con[i] = "waiting" /\ InUse(i) /\ con' = [con EXCEPT ![i] = "ended"]
  /\ Keep /\ UNCHANGED <<pipe, shutDown, cancelled, th, req, tmp>>

\* The server thread.
Begin(i) ==
  /\ At(i, "loop")
  /\ IF shutDown THEN Goto(i, "leave") /\ UNCHANGED con
                 ELSE Goto(i, "await") /\ con' = [con EXCEPT ![i] = "begun"]
  /\ Keep /\ UNCHANGED <<pipe, shutDown, cancelled, req, tmp>>
AwaitEither(i) ==  \* Fault: the thread goes on when the time limit is over.
  /\ At(i, "await")
  /\ IF shutDown THEN Goto(i, "leave") /\ UNCHANGED con
                 ELSE Goto(i, "check") /\ con' = [con EXCEPT ![i] = "none"]
  /\ Keep /\ UNCHANGED <<pipe, shutDown, cancelled, req, tmp>>
\* serverNP_secure ends the thread if the temporary file cannot be made.
Await(i) ==
  /\ At(i, "await")
  /\ \/ shutDown /\ Goto(i, "leave") /\ UNCHANGED con
     \/ /\ ~shutDown /\ con[i] = "ended" /\ con' = [con EXCEPT ![i] = "none"]
        /\ Goto(i, "check") \/ (Secure /\ Goto(i, "ended"))
  /\ Keep /\ UNCHANGED <<pipe, shutDown, cancelled, req, tmp>>
Check(i) ==
  /\ At(i, "check") /\ Goto(i, IF shutDown THEN "hangUp" ELSE "read")
  /\ Keep /\ UNCHANGED <<pipe, shutDown, cancelled, con, req, tmp>>
ReadFile(i) ==
  /\ At(i, "read")
  /\ \/ /\ pipe[i].request # <<>>
        /\ req' = [req EXCEPT ![i] = Head(pipe[i].request)]
        /\ pipe' = [pipe EXCEPT ![i].request = Tail(@)]
        /\ shutDown' = (shutDown \/ req'[i].shut)
        /\ Goto(i, IF shutDown' THEN "check" ELSE "run")
     \/ /\ pipe[i].request = <<>> /\ pipe[i].state # "connected"
        /\ Goto(i, "hangUp") /\ UNCHANGED <<pipe, shutDown, req>>
  /\ Keep /\ UNCHANGED <<cancelled, con, tmp>>
\* The process writes a line to the temporary file; serverNP makes the file anew,
\* and ends the thread if it cannot.
Run(i) ==
  /\ At(i, "run")
  /\ Goto(i, "answer") \/ (~Secure /\ Goto(i, "ended"))
  /\ tmp' = [tmp EXCEPT ![i] = Append(IF Secure THEN @ ELSE <<>>, req[i])]
  /\ Keep /\ UNCHANGED <<pipe, shutDown, cancelled, con, req>>
\* serverNP_secure does not set rsLen: it is what the stack held.
Responses(i, n) == [k \in 1..Len(tmp[i]) |-> [of |-> tmp[i][k], rsLen |-> n]]
                   \o <<[of |-> req[i], rsLen |-> n]>>
Messages(i) == [k \in 1..Len(tmp[i]) |-> Line(tmp[i][k])] \o <<Last(req[i])>>
KeptAfter(i) == tmp[i]  \* Fault: SetEndOfFile forgotten.
Kept(i) == IF Secure THEN <<>> ELSE tmp[i]
\* serverNP hangs up if it cannot open the file.
Answer(i) ==
  /\ At(i, "answer")
  /\ \/ Secure /\ (\E n \in {0, 2} : pipe' = Sent(i, Responses(i, n))) /\ Goto(i, "check")
     \/ ~Secure /\ pipe' = Sent(i, Messages(i)) /\ Goto(i, "flushed")
     \/ ~Secure /\ UNCHANGED pipe /\ Goto(i, "hangUp")
  /\ tmp' = [tmp EXCEPT ![i] = Kept(i)]
  /\ Keep /\ UNCHANGED <<shutDown, cancelled, con, req>>
FlushFileBuffers(i) ==
  /\ At(i, "flushed") /\ Flushed(i) /\ Goto(i, "check")
  /\ Keep /\ UNCHANGED <<pipe, shutDown, cancelled, con, req, tmp>>
HangUp(i) ==
  /\ At(i, "disconnect") \/ (At(i, "hangUp") /\ Flushed(i))
  /\ pipe' = Disconnected(i) /\ Goto(i, "loop")
  /\ tmp' = [tmp EXCEPT ![i] = IF Secure THEN <<>> ELSE @]
  /\ req' = [req EXCEPT ![i] = NoRequest]
  /\ Keep /\ UNCHANGED <<shutDown, cancelled, con>>

\* A connect thread that is active is released by a connection to any instance;
\* without such a thread, serverNP_secure tests a status that was never set.
ConnectActive(i) == con[i] \in {"begun", "waiting"}
Leave(i) ==
  /\ At(i, "leave")
  /\ \/ /\ ConnectActive(i) /\ Goto(i, "join")
        /\ \/ \E j \in Pipes : IsListening(j) /\ pipe' = Touched(j)
           \/ (\A j \in Pipes : ~IsListening(j)) /\ UNCHANGED pipe
     \/ ~ConnectActive(i) /\ Goto(i, "ended") /\ UNCHANGED pipe
     \/ /\ Secure /\ con[i] = "none" /\ Goto(i, "ended")
        /\ \E j \in Pipes : IsListening(j) /\ pipe' = Touched(j)
  /\ Keep /\ UNCHANGED <<shutDown, cancelled, con, req, tmp>>
Join(i) ==
  /\ At(i, "join") /\ con[i] = "ended" /\ Goto(i, "ended")
  /\ Keep /\ UNCHANGED <<pipe, shutDown, cancelled, con, req, tmp>>

\* The monitor, when it sees the flag, cancels what is pending on each pipe; in
\* serverNP_secure it only ends.
CancelsIn(pc) == CASE pc = "read" -> "hangUp" [] pc = "flushed" -> "check"
                   [] pc = "hangUp" -> "disconnect" [] OTHER -> pc
CancelIoEx(i) ==
  /\ con' = [con EXCEPT ![i] = IF @ = "waiting" THEN "ended" ELSE @]
  /\ th' = [th EXCEPT ![i] = CancelsIn(@)]
CancelButLast ==  \* Fault: the loop ends before the last instance.
  LET i == cancelled + 1
  IN /\ shutDown /\ i < MAX_CLIENTS /\ cancelled' = i
     /\ IF Secure THEN UNCHANGED <<th, con>> ELSE CancelIoEx(i)
     /\ Keep /\ UNCHANGED <<pipe, shutDown, req, tmp>>
Cancel ==
  LET i == cancelled + 1
  IN /\ shutDown /\ cancelled < MAX_CLIENTS /\ cancelled' = i
     /\ IF Secure THEN UNCHANGED <<th, con>> ELSE CancelIoEx(i)
     /\ Keep /\ UNCHANGED <<pipe, shutDown, req, tmp>>

-----------------------------------------------------------------------------
Running == \E i \in Pipes : th[i] # "ended" \/ ~MonitorEnded
Ended == ~Running
Connect(i) == ConnectNamedPipe(i) \/ Connected(i)
Server(i) ==
  \/ Begin(i) \/ Await(i) \/ Check(i) \/ ReadFile(i) \/ Run(i) \/ Answer(i)
  \/ FlushFileBuffers(i) \/ HangUp(i) \/ Leave(i) \/ Join(i)
Environment ==
  /\ \/ \E c \in Clients : Client(c, Running)
     \/ Broadcast \/ SrvrBcst
     \/ Running /\ Handler
  /\ UNCHANGED serverVars
Next == (\E i \in Pipes : Connect(i) \/ Server(i)) \/ Cancel \/ Environment
Fairness == WF_vars(Cancel) /\ \A i \in Pipes : WF_vars(Connect(i)) /\ WF_vars(Server(i))
Spec == Init /\ [][Next]_vars /\ Fairness

-----------------------------------------------------------------------------
(* Every variable has its type, within the bounds of the instance.         *)
TypeOK ==
  /\ PipeTypeOK
  /\ \A i \in Pipes : /\ con[i] \in {"none", "begun", "waiting", "ended"}
                      /\ con[i] # "none" => th[i] \in {"await", "leave", "join", "ended"}
                      /\ con[i] = "waiting" => pipe[i].state # "disconnected"
                      /\ Secure \/ Len(pipe[i].request) <= 1

(* A thread serves an instance only while a client has it open, or had.     *)
ServesConnected ==
  \A i \in Pipes : th[i] \in {"check", "read", "run", "answer", "flushed"} => InUse(i)

(* The temporary file holds the output of the current request and no other. *)
OutputOwn ==
  \A i \in Pipes : At(i, "answer") => \A k \in 1..Len(tmp[i]) : tmp[i][k] = req[i]

(* An operation that is pending on an instance after the monitor has        *)
(* cancelled those of the instance.                                         *)
Late ==
  \E i \in 1..cancelled :
    con[i] = "waiting" \/ th[i] = "read" \/ (th[i] \in {"flushed", "hangUp"} /\ ~Flushed(i))
(* serverNP ends after a shut down, whatever its clients do, unless an      *)
(* operation came too late to be cancelled.                                 *)
EndsUnlessLate == server = "serverNP" => []<>Late \/ (shutDown ~> Ended)

(* serverNP.C:227: "The connection thread can be resumed by having the      *)
(* server act like a client": after a shut down each thread ends when the   *)
(* clients have gone.                                                       *)
(* Fails, and no run checks it: see section 7 of the README.                *)
ShutsDown ==
  server = "serverNP" =>
    ([]<>(\A c \in Clients : client[c].pc = "ended") => (shutDown ~> \A i \in Pipes : At(i, "ended")))
=============================================================================
