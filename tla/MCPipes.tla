----------------------------- MODULE MCPipes ---------------------------------
(***************************************************************************)
(* The named pipe servers, checked together: a behaviour runs a server of  *)
(* PipeCP or of PipeServer, while the variables of the other module stay   *)
(* as they are.                                                            *)
(***************************************************************************)
EXTENDS PipeCP

VARIABLES npPipe, npClient, npSlot, npShutDown, npCancelled, server, th, con, req, tmp

threaded == <<npPipe, npClient, npSlot, npShutDown, npCancelled, server, th, con, req, tmp>>
serversVars == <<cpVars, threaded>>

Requests == [c \in Clients |-> 1]
MoreRequests == [c \in Clients |-> IF c = 1 THEN 2 ELSE 0]

NP == INSTANCE PipeServer WITH
        pipe <- npPipe, client <- npClient, slot <- npSlot, shutDown <- npShutDown,
        cancelled <- npCancelled, MaxRequests <- MoreRequests

\* A server that does not run.
NoPort == InitOf(TRUE)
NoServer == NP!InitOf("none")

ServersInit == (Init /\ NoServer) \/ (NP!Init /\ NoPort)
ServersNext ==
  \/ server = "none" /\ Next /\ UNCHANGED threaded
  \/ server # "none" /\ NP!Next /\ UNCHANGED cpVars
ServersSpec == ServersInit /\ [][ServersNext]_serversVars /\ Fairness /\ NP!Fairness

-----------------------------------------------------------------------------
(* No instance of a pipe is in the hands of two threads: the completion     *)
(* port has one operation of it or one thread at work on it, or a thread    *)
(* has ended with it or lost it; a thread of PipeServer serves an instance  *)
(* that a client has open, or had.                                          *)
OneServes ==
  /\ TypeOK /\ OneOperation /\ ThreadPerInstance
  /\ NP!TypeOK /\ NP!ServesConnected

(* What a client reads is the answer to its own last request, to the end,   *)
(* and the temporary file holds the output of that request.                 *)
AnswersOwn ==
  /\ AnswerOwn /\ AnswerComplete
  /\ NP!OutputOwn
  /\ server = "serverNP" => NP!AnswerOwn /\ NP!AnswerComplete

(* A server ends after a shut down, serverNP unless an operation began      *)
(* after those of its instance had been cancelled, serverNPCP unless it has *)
(* lost instances and so has too few completions for its threads.           *)
ServersEnd == EndsAfterShutDown /\ NP!EndsUnlessLate
=============================================================================
