----------------------------- MODULE NamedPipe -----------------------------
(***************************************************************************)
(* What the named pipe servers have in common: the instances of the pipe,  *)
(* the client clientNP, which finds the server with a mailslot, the        *)
(* monitor thread that broadcasts the name of the pipe, and the shut down  *)
(* flag.  Servers are modelled in PipeServer and PipeCP.                   *)
(*                                                                         *)
(* pipe[i].state: "listening" (a client may open it), "connected",         *)
(*   "closing" (its client has closed it), "disconnected"                  *)
(* client[c].pc: "locate", "looking" (for the message of a server), "wait",*)
(*   "prompt", "read", "ended"                                             *)
(***************************************************************************)
EXTENDS Integers, Sequences, FiniteSets

CONSTANTS
  MAX_CLIENTS,     \* instances of the pipe
  Clients,
  MaxRequests      \* bound on the requests of each client

ASSUME PipeAssumption == 0 \notin Clients /\ MAX_CLIENTS \in Nat \ {0} /\ MaxRequests \in [Clients -> Nat]

Pipes == 1..MAX_CLIENTS
NoClient == 0

VARIABLES
  pipe, client,
  slot,            \* owner of the mailslot, or NoClient
  shutDown,
  cancelled        \* number of instances whose operations the monitor has cancelled

pipeVars == <<pipe, client, slot, shutDown, cancelled>>

Listening == [state |-> "listening", client |-> NoClient, request |-> <<>>, response |-> <<>>]
Request(c, n, shut) == [client |-> c, n |-> n, shut |-> shut]
\* Responses: rsLen counts the characters and the nul after them.  The shortest
\* line, "\n", has one character.
LineLengthBare(chars) == chars  \* Fault: strlen without the nul.
LineLength(chars) == chars + 1
Line(r) == [of |-> r, rsLen |-> LineLength(1)]
Last(r) == [of |-> r, rsLen |-> 0]

Gone == [pc |-> "ended", pipe |-> 0, n |-> 0]

\* over: a server that has ended, for a module that composes servers.
PipeInit(over) ==
  /\ pipe = [i \in Pipes |-> Listening]
  /\ client = [c \in Clients |-> [Gone EXCEPT !.pc = "locate"]]
  /\ slot = NoClient /\ shutDown = over /\ cancelled = IF over THEN MAX_CLIENTS ELSE 0

-----------------------------------------------------------------------------
\* The pipe.
IsListening(i) == pipe[i].state = "listening"
InUse(i) == pipe[i].state \in {"connected", "closing"}
ConnectedTo(i, c) == pipe[i].state = "connected" /\ pipe[i].client = c
OpenedBy(i, c) == [pipe EXCEPT ![i] = [Listening EXCEPT !.state = "connected", !.client = c]]
\* CreateFile and CloseHandle at once, by a server that acts like a client.
Touched(i) == [pipe EXCEPT ![i] = [Listening EXCEPT !.state = "closing"]]
Disconnected(i) == [pipe EXCEPT ![i] = [Listening EXCEPT !.state = "disconnected"]]
\* A write succeeds while the client is there.
SentAlways(i, messages) == [pipe EXCEPT ![i].response = @ \o messages]  \* Fault: also to a client that has gone.
Sent(i, messages) ==
  IF pipe[i].state = "connected" THEN [pipe EXCEPT ![i].response = @ \o messages] ELSE pipe
\* FlushFileBuffers waits until the client has read everything.
Flushed(i) == pipe[i].state # "connected" \/ pipe[i].response = <<>>

-----------------------------------------------------------------------------
\* The client.
Goes(c, to) == client' = [client EXCEPT ![c].pc = to]
\* Clients start in the order of their numbers, a symmetry of the model.
Starts(c) == \A d \in Clients : d < c => client[d].pc # "locate"
\* A second mailslot of the same name cannot be made: the client ends.
CreateMailslot(c) ==
  /\ client[c].pc = "locate" /\ Starts(c)
  /\ \/ slot = NoClient /\ slot' = c /\ Goes(c, "looking")
     \/ slot # NoClient /\ UNCHANGED slot /\ Goes(c, "ended")
  /\ UNCHANGED <<pipe, shutDown, cancelled>>
\* WaitNamedPipe and CreateFile, again when another client was faster; it fails
\* when the server has ended and no instance is left.
Open(c, running) ==
  /\ client[c].pc = "wait"
  /\ \/ \E i \in Pipes : /\ running /\ IsListening(i) /\ pipe' = OpenedBy(i, c)
                         /\ client' = [client EXCEPT ![c].pc = "prompt", ![c].pipe = i]
     \/ ~running /\ UNCHANGED pipe /\ Goes(c, "ended")
  /\ UNCHANGED <<slot, shutDown, cancelled>>
\* A request, the last of all may be $ShutDownServer.
Ask(c) ==
  LET i == client[c].pipe
      n == client[c].n + 1
  IN /\ client[c].pc = "prompt" /\ n <= MaxRequests[c]
     /\ client' = [client EXCEPT ![c].pc = "read", ![c].n = n]
     /\ IF ConnectedTo(i, c)
        THEN \E shut \in {FALSE, n = MaxRequests[c]} : pipe' = [pipe EXCEPT ![i].request = Append(@, Request(c, n, shut))]
        ELSE UNCHANGED pipe
     /\ UNCHANGED <<slot, shutDown, cancelled>>
\* A response with nothing but a nul is the end; nothing is left to read when
\* the server has disconnected.
EndsResponseEarly(m) == m.rsLen <= 2  \* Fault: the shortest line ends the response.
EndsResponse(m) == m.rsLen <= 1
Read(c) ==
  LET i == client[c].pipe
  IN /\ client[c].pc = "read"
     /\ \/ /\ ConnectedTo(i, c) /\ pipe[i].response # <<>>
           /\ pipe' = [pipe EXCEPT ![i].response = Tail(@)]
           /\ Goes(c, IF EndsResponse(Head(pipe[i].response)) THEN "prompt" ELSE "read")
        \/ ~ConnectedTo(i, c) /\ UNCHANGED pipe /\ Goes(c, "prompt")
     /\ UNCHANGED <<slot, shutDown, cancelled>>
Quit(c) ==
  LET i == client[c].pipe
  IN /\ client[c].pc = "prompt" /\ client' = [client EXCEPT ![c] = Gone]
     /\ pipe' = IF ConnectedTo(i, c) THEN [pipe EXCEPT ![i].state = "closing", ![i].response = <<>>] ELSE pipe
     /\ UNCHANGED <<slot, shutDown, cancelled>>

-----------------------------------------------------------------------------
\* The monitor sends the name of the pipe to the client that has the mailslot,
\* which reads it and closes the mailslot.
Broadcast ==
  /\ cancelled = 0 /\ ~shutDown /\ slot # NoClient
  /\ Goes(slot, "wait") /\ slot' = NoClient
  /\ UNCHANGED <<pipe, shutDown, cancelled>>
MonitorEnded == cancelled = MAX_CLIENTS
\* SrvrBcst does the same and never ends.
SrvrBcst ==
  /\ slot # NoClient /\ Goes(slot, "wait") /\ slot' = NoClient
  /\ UNCHANGED <<pipe, shutDown, cancelled>>
Handler == ~shutDown /\ shutDown' = TRUE /\ UNCHANGED <<pipe, client, slot, cancelled>>

Client(c, running) ==
  CreateMailslot(c) \/ Open(c, running) \/ Ask(c) \/ Read(c) \/ Quit(c)

-----------------------------------------------------------------------------
PipeTypeOK ==
  /\ \A i \in Pipes : /\ pipe[i].state \in {"listening", "connected", "closing", "disconnected"}
                      /\ pipe[i].client \in Clients \cup {NoClient}
                      /\ pipe[i].state # "connected" => pipe[i].response = <<>>
  /\ slot \in Clients \cup {NoClient} /\ slot # NoClient => client[slot].pc = "looking"
  /\ shutDown \in BOOLEAN /\ cancelled \in 0..MAX_CLIENTS

(* What a client reads belongs to the request that it made last.            *)
AnswerOwn ==
  \A i \in Pipes : \A k \in 1..Len(pipe[i].response) :
    LET r == pipe[i].response[k].of
    IN r.client = pipe[i].client /\ r.n = client[r.client].n

(* A client that has its answer finds nothing more in the pipe: an answer   *)
(* ends with its last message.                                              *)
AnswerComplete ==
  \A c \in Clients : client[c].pc = "prompt" /\ ConnectedTo(client[c].pipe, c)
    => pipe[client[c].pipe].response = <<>>
=============================================================================
