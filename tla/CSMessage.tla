------------------------------ MODULE CSMessage ------------------------------
(***************************************************************************)
(* ReceiveCSMessage of the two streaming libraries of chapter 12, which    *)
(* cuts the bytes of a socket into messages that end with a nul.  What     *)
(* follows the nul is kept for the next call, in SendReceiveSKST for each  *)
(* thread, in SendReceiveSKHA for each socket.                             *)
(*                                                                         *)
(* A message is its characters without the nul; those of the n-th message  *)
(* are written as n.                                                       *)
(***************************************************************************)
EXTENDS Naturals, Sequences, SequencesExt

CONSTANTS
  MAX_MESSAGE_LEN,
  MessageLengths,  \* lengths of the messages that are sent
  NMessages

MessageAssumption ==
  /\ MAX_MESSAGE_LEN \in Nat \ {0} /\ NMessages \in Nat
  /\ MessageLengths \subseteq 0..(MAX_MESSAGE_LEN - 1)

VARIABLES
  library,         \* "SKST" or "SKHA", or "none" for a module that composes
  lengths,         \* lengths[n]: the length of the n-th message
  wire,            \* the bytes that have not been received
  staticBuf,       \* the residual data
  message,         \* what the call in progress has found
  nRemainRecv,     \* what it may still receive; 0 if no call is in progress
  received         \* the messages returned: characters, and whether up to the nul

csVars == <<library, lengths, wire, staticBuf, message, nRemainRecv, received>>

NUL == 0
Message(n) == [i \in 1..lengths[n] |-> n]
Stream == FlattenSeq([n \in 1..Len(lengths) |-> Append(Message(n), NUL)])
Returned(m, whole) == Append(received, [chars |-> m, whole |-> whole])

InitOf(l, ls) ==
  /\ library = l /\ lengths = ls /\ wire = Stream
  /\ staticBuf = <<>> /\ message = <<>> /\ nRemainRecv = 0 /\ received = <<>>
Init == \E l \in {"SKST", "SKHA"}, ls \in [1..NMessages -> MessageLengths] : InitOf(l, ls)

-----------------------------------------------------------------------------
HasNul(bytes) == Contains(bytes, NUL)
BeforeNul(bytes) == SubSeq(bytes, 1, SelectInSeq(bytes, LAMBDA b : b = NUL) - 1)
AfterNulKept(bytes) == bytes  \* Fault: the characters returned are not taken off.
AfterNul(bytes) == SubSeq(bytes, SelectInSeq(bytes, LAMBDA b : b = NUL) + 1, Len(bytes))

\* The residual data are the message, or its beginning.
FromStatic ==
  /\ nRemainRecv = 0 /\ (wire # <<>> \/ staticBuf # <<>>) /\ HasNul(staticBuf)
  /\ received' = Returned(BeforeNul(staticBuf), TRUE)
  /\ staticBuf' = AfterNul(staticBuf)
  /\ UNCHANGED <<library, lengths, wire, message, nRemainRecv>>
Begin ==
  /\ nRemainRecv = 0 /\ (wire # <<>> \/ staticBuf # <<>>) /\ ~HasNul(staticBuf)
  /\ message' = staticBuf /\ staticBuf' = <<>>
  /\ nRemainRecv' = MAX_MESSAGE_LEN - Len(staticBuf)
  /\ UNCHANGED <<library, lengths, wire, received>>

\* SKST takes the length of the data off for each character, SKHA takes it off twice.
Taken(n) == IF library = "SKST" THEN n * n ELSE 2 * n
LeftSquared(n) == IF Taken(n) * n < nRemainRecv THEN nRemainRecv - Taken(n) * n ELSE 0  \* Fault: taken off once more.
Left(n) == IF Taken(n) < nRemainRecv THEN nRemainRecv - Taken(n) ELSE 0
\* Data without a nul; the message is returned when nothing may be received any more.
Continue(bytes) ==
  /\ nRemainRecv' = Left(Len(bytes)) /\ UNCHANGED staticBuf
  /\ IF nRemainRecv' = 0
     THEN message' = <<>> /\ received' = Returned(message \o bytes, FALSE)
     ELSE message' = message \o bytes /\ UNCHANGED received
Complete(bytes) ==
  /\ nRemainRecv' = 0 /\ message' = <<>>
  /\ received' = Returned(message \o BeforeNul(bytes), TRUE)
  /\ staticBuf' = AfterNul(bytes)
\* recv gives what has arrived, in pieces of any length.
Receive ==
  /\ nRemainRecv > 0
  /\ \E n \in 1..Len(wire) :
       LET bytes == SubSeq(wire, 1, n)
       IN /\ n <= nRemainRecv
          /\ wire' = SubSeq(wire, n + 1, Len(wire))
          /\ IF HasNul(bytes) THEN Complete(bytes) ELSE Continue(bytes)
  /\ UNCHANGED <<library, lengths>>
\* The sender has closed the socket: the call fails.
Disconnected ==
  /\ nRemainRecv > 0 /\ wire = <<>> /\ nRemainRecv' = 0 /\ message' = <<>>
  /\ received' = Returned(message, FALSE)
  /\ UNCHANGED <<library, lengths, wire, staticBuf>>

Next == FromStatic \/ Begin \/ Receive \/ Disconnected
Fairness == WF_csVars(Next)
Spec == Init /\ [][Next]_csVars /\ Fairness
Ended == wire = <<>> /\ staticBuf = <<>> /\ nRemainRecv = 0

-----------------------------------------------------------------------------
(* Every variable has its type, within the bounds of the instance.         *)
TypeOK ==
  /\ nRemainRecv \in 0..MAX_MESSAGE_LEN
  /\ Len(staticBuf) <= MAX_MESSAGE_LEN /\ Len(message) + nRemainRecv <= MAX_MESSAGE_LEN

(* No byte is lost, doubled or moved: what was returned, what the call in   *)
(* progress has found, the residual data and what is on the wire are the    *)
(* stream that was sent.                                                    *)
NothingLost ==
  Stream = FlattenSeq([i \in 1..Len(received) |->
                         IF received[i].whole THEN Append(received[i].chars, NUL) ELSE received[i].chars])
           \o message \o staticBuf \o wire

(* Messages that are short against the buffer arrive as they were sent,     *)
(* whatever the pieces are in which recv gives them.                        *)
ShortArrive ==
  (\A n \in 1..Len(lengths) : Taken(lengths[n]) < MAX_MESSAGE_LEN)
    => \A n \in 1..Len(received) : received[n] = [chars |-> Message(n), whole |-> TRUE]

(* SendReceiveSKST.c:104: "Read up to the null character, leaving residual  *)
(* data in the static buffer".                                              *)
(* Fails, and no run checks it: see section 7 of the README.                *)
AllArrive == \A n \in 1..Len(received) : received[n] = [chars |-> Message(n), whole |-> TRUE]
=============================================================================
