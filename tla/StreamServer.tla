---------------------------- MODULE StreamServer ----------------------------
(***************************************************************************)
(* serverSKST and serverSKHA, the socket servers that use the streaming    *)
(* libraries, and clientSKST.  Unlike serverSK they share the slots and    *)
(* ShutFlag without a lock, and test the result of ReceiveCSMessage as     *)
(* "disconnect" although it is true when a message has come.               *)
(*                                                                         *)
(* Messages are whole here; their pieces are in CSMessage.  serverSKHA     *)
(* differs in that it knows no $ShutFlagServer, which no client sends, and *)
(* closes another socket than that of its client.                          *)
(*                                                                         *)
(* main: "poll", "await" (the accept thread), "close", "wait", "ended"     *)
(* acc.pc: "none", "accept", "status", "create", "store"                   *)
(* th[c]: the server thread of client c: "none", "test", "receive",        *)
(*   "execute", "status", "shut", "flag", "ended"                 *)
(***************************************************************************)
EXTENDS Naturals, Sequences, FiniteSets

CONSTANTS
  StreamClients,   \* each connects once
  MAX_CLIENTS      \* slots

StreamAssumption == MAX_CLIENTS \in Nat \ {0} /\ 0 \notin StreamClients

VARIABLES
  slot,            \* serverArg: status, and whose thread's handle, 0 for none
  main, iThread,   \* the main thread, and its slot
  acc,             \* the accept thread
  listening,       \* SrvSock is open
  ShutFlag,
  th, at,          \* at[c]: the slot of c's server thread
  record,          \* record[c]: the request of that thread
  client,          \* "start", "backlog", "connected", "gone"
  sent             \* sent[c]: requests that the server has not received

streamVars == <<slot, main, iThread, acc, listening, ShutFlag, th, at, record, client, sent>>

Slots == 0..(MAX_CLIENTS - 1)
NoThread == 0
Free == 0
Stopped == 1
Running == 2
StopAll == 3
Shut == "$ShutDownServer"
Stops == {"$Quit", "$ShutFlagServer"}

\* runs: the server runs; FALSE for a module that composes.
InitOf(runs) ==
  /\ slot = [i \in Slots |-> [status |-> Free, handle |-> NoThread]]
  /\ main = IF runs THEN "poll" ELSE "ended"
  /\ iThread = 0 /\ acc = [pc |-> "none", slot |-> 0, client |-> NoThread]
  /\ listening = runs /\ ShutFlag = FALSE
  /\ th = [c \in StreamClients |-> "none"] /\ at = [c \in StreamClients |-> 0]
  /\ record = [c \in StreamClients |-> "?"]
  /\ client = [c \in StreamClients |-> "start"] /\ sent = [c \in StreamClients |-> <<>>]
Init == InitOf(TRUE)

Lives(c) == th[c] \notin {"none", "ended"}
Up == main # "ended"

-----------------------------------------------------------------------------
\* The main thread.
Handled(c) == c # NoThread => ~Lives(c)
\* A thread that has stopped is waited for; then the slot is free, or all stops.
Poll ==
  LET s == slot[iThread]
      stopped == s.status \in {Stopped, StopAll}
      shut == ShutFlag \/ s.status = StopAll
  IN /\ main = "poll" /\ (~ShutFlag /\ stopped => Handled(s.handle))
     /\ IF ShutFlag THEN UNCHANGED <<slot, ShutFlag>>
        ELSE /\ ShutFlag' = shut
             /\ slot' = IF s.status = Stopped THEN [slot EXCEPT ![iThread].status = Free] ELSE slot
     /\ IF slot'[iThread].status = Free \/ shut
        THEN /\ main' = "await" /\ acc' = [acc EXCEPT !.pc = "accept", !.slot = iThread]
             /\ UNCHANGED iThread
        ELSE iThread' = (iThread + 1) % MAX_CLIENTS /\ UNCHANGED <<main, acc>>
     /\ UNCHANGED <<listening, th, at, record, client, sent>>
AwaitsNone == TRUE  \* Fault: the loop goes on while the connection is being made.
AwaitsConnection == acc.pc = "none"
Await ==
  /\ main = "await" /\ (ShutFlag \/ AwaitsConnection)
  /\ main' = (IF ShutFlag THEN "close" ELSE "poll") /\ iThread' = 0
  /\ UNCHANGED <<slot, acc, listening, ShutFlag, th, at, record, client, sent>>
\* The flag is also tested before the slots are looked at.
Leave ==
  /\ main = "poll" /\ iThread = 0 /\ ShutFlag /\ main' = "close"
  /\ UNCHANGED <<slot, iThread, acc, listening, ShutFlag, th, at, record, client, sent>>
\* closesocket and WSACleanup: nothing can be received any more.
CloseKept == listening  \* Fault: the sockets are left open.
Closed == FALSE
Close ==
  /\ main = "close" /\ main' = "wait" /\ iThread' = 0 /\ listening' = Closed
  /\ UNCHANGED <<slot, acc, ShutFlag, th, at, record, client, sent>>
WaitSlot ==
  /\ main = "wait" /\ (slot[iThread].status # Free => Handled(slot[iThread].handle))
  /\ IF iThread < MAX_CLIENTS - 1 THEN iThread' = iThread + 1 /\ UNCHANGED main
                                  ELSE main' = "ended" /\ UNCHANGED iThread
  /\ UNCHANGED <<slot, acc, listening, ShutFlag, th, at, record, client, sent>>

-----------------------------------------------------------------------------
\* The accept thread.  If the socket is closed it ends the process.
Accept ==
  /\ acc.pc = "accept" /\ Up
  /\ \/ \E c \in StreamClients :
          /\ listening /\ client[c] = "backlog" /\ client' = [client EXCEPT ![c] = "connected"]
          /\ acc' = [acc EXCEPT !.pc = "status", !.client = c] /\ UNCHANGED main
     \/ ~listening /\ main' = "ended" /\ UNCHANGED <<client, acc>>
  /\ UNCHANGED <<slot, iThread, listening, ShutFlag, th, at, record, sent>>
SetStatus ==
  /\ acc.pc = "status" /\ Up /\ acc' = [acc EXCEPT !.pc = "create"]
  /\ slot' = [slot EXCEPT ![acc.slot].status = Running]
  /\ UNCHANGED <<main, iThread, listening, ShutFlag, th, at, record, client, sent>>
Create ==
  /\ acc.pc = "create" /\ Up /\ acc' = [acc EXCEPT !.pc = "store"]
  /\ th' = [th EXCEPT ![acc.client] = "test"] /\ at' = [at EXCEPT ![acc.client] = acc.slot]
  /\ UNCHANGED <<slot, main, iThread, listening, ShutFlag, record, client, sent>>
Store ==
  /\ acc.pc = "store" /\ Up /\ acc' = [acc EXCEPT !.pc = "none", !.client = NoThread]
  /\ slot' = [slot EXCEPT ![acc.slot].handle = acc.client]
  /\ UNCHANGED <<main, iThread, listening, ShutFlag, th, at, record, client, sent>>

-----------------------------------------------------------------------------
\* The server thread.  ReceiveCSMessage is true for a message, false if the
\* client has gone: then the request is what it was, or not initialized.
Goto(c, to) == th' = [th EXCEPT ![c] = to]
Test(c) ==
  /\ th[c] = "test" /\ Up /\ Goto(c, IF ShutFlag THEN "status" ELSE "receive")
  /\ UNCHANGED <<slot, main, iThread, acc, listening, ShutFlag, at, record, client, sent>>
Receive(c) ==
  /\ th[c] = "receive" /\ Up
  /\ \/ /\ sent[c] # <<>> /\ Goto(c, "status")
        /\ record' = [record EXCEPT ![c] = Head(sent[c])] /\ sent' = [sent EXCEPT ![c] = Tail(@)]
     \/ /\ sent[c] = <<>> /\ (client[c] = "gone" \/ ~listening)
        /\ Goto(c, IF record[c] \in Stops THEN "status" ELSE "execute") /\ UNCHANGED <<record, sent>>
  /\ UNCHANGED <<slot, main, iThread, acc, listening, ShutFlag, at, client>>
Execute(c) ==
  /\ th[c] = "execute" /\ Up /\ Goto(c, "test")
  /\ UNCHANGED <<slot, main, iThread, acc, listening, ShutFlag, at, record, client, sent>>
\* The status is 1 before it is 3.
Stop(c) ==
  /\ th[c] = "status" /\ Up
  /\ slot' = [slot EXCEPT ![at[c]].status = Stopped]
  /\ Goto(c, IF record[c] = Shut THEN "shut" ELSE "ended")
  /\ UNCHANGED <<main, iThread, acc, listening, ShutFlag, at, record, client, sent>>
StopSystem(c) ==
  /\ Up
  /\ \/ /\ th[c] = "shut" /\ Goto(c, "flag") /\ UNCHANGED ShutFlag
        /\ slot' = [slot EXCEPT ![at[c]].status = StopAll]
     \/ th[c] = "flag" /\ Goto(c, "ended") /\ ShutFlag' = TRUE /\ UNCHANGED slot
  /\ UNCHANGED <<main, iThread, acc, listening, at, record, client, sent>>
Server(c) == Test(c) \/ Receive(c) \/ Execute(c) \/ Stop(c) \/ StopSystem(c)

-----------------------------------------------------------------------------
\* The client waits for a response that does not come, until it is ended.
\* It connects and sends a request, or nothing.
Connect(c) ==
  /\ client[c] = "start" /\ listening /\ Up
  /\ \A d \in StreamClients : d < c => client[d] # "start"  \* a symmetry of the model
  /\ client' = [client EXCEPT ![c] = "backlog"]
  /\ \E r \in {<<>>, <<"command">>, <<Shut>>} : sent' = [sent EXCEPT ![c] = r]
  /\ UNCHANGED <<slot, main, iThread, acc, listening, ShutFlag, th, at, record>>
Killed(c) ==
  /\ client[c] = "connected" /\ Up /\ client' = [client EXCEPT ![c] = "gone"]
  /\ UNCHANGED <<slot, main, iThread, acc, listening, ShutFlag, th, at, record, sent>>
Handler ==
  /\ Up /\ ~ShutFlag /\ ShutFlag' = TRUE
  /\ UNCHANGED <<slot, main, iThread, acc, listening, th, at, record, client, sent>>

Main == Poll \/ Await \/ Leave \/ Close \/ WaitSlot
AcceptTh == Accept \/ SetStatus \/ Create \/ Store
Client(c) == Connect(c) \/ Killed(c)
Next == Main \/ AcceptTh \/ Handler \/ \E c \in StreamClients : Server(c) \/ Client(c)
Fairness ==
  /\ WF_streamVars(Main) /\ WF_streamVars(AcceptTh)
  /\ \A c \in StreamClients : WF_streamVars(Server(c))
Spec == Init /\ [][Next]_streamVars /\ Fairness

-----------------------------------------------------------------------------
(* Every variable has its type, within the bounds of the instance.         *)
TypeOK ==
  /\ \A i \in Slots : slot[i].status \in 0..3 /\ slot[i].handle \in StreamClients \cup {NoThread}
  /\ main \in {"poll", "await", "close", "wait", "ended"} /\ iThread \in Slots
  /\ acc.pc \in {"none", "accept", "status", "create", "store"} /\ acc.slot \in Slots
  /\ \A c \in StreamClients : th[c] # "none" => client[c] \in {"connected", "gone"}

(* Without a lock, but because the main thread waits for the accept thread: *)
(* before a shut down no slot has two threads, and a slot that has stopped  *)
(* holds the handle of the thread that stopped.                             *)
SlotOfOne ==
  ~ShutFlag =>
    /\ \A c, d \in StreamClients : Lives(c) /\ Lives(d) /\ at[c] = at[d] => c = d
    /\ main = "poll" =>
         \A i \in Slots : slot[i].status \in {Stopped, StopAll} =>
           slot[i].handle # NoThread /\ at[slot[i].handle] = i /\ th[slot[i].handle] \in {"shut", "flag", "ended"}

(* serverSKST.c:196: "Stop this thread on "$Quit" or "$ShutDownServer"      *)
(* command": a thread does not stop after another command.                  *)
(* Fails, and no run checks it: see section 7 of the README.                *)
OnlyQuitStops ==
  \A c \in StreamClients : th[c] = "status" /\ ~ShutFlag => record[c] \in {"$Quit", "$ShutFlagServer", Shut}
=============================================================================
