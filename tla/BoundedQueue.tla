---------------------------- MODULE BoundedQueue ----------------------------
(***************************************************************************)
(* What a Chapter 10 queue object promises its callers, whatever mix of    *)
(* mutexes, events and condition variables it is built from: a bounded     *)
(* FIFO queue.  Each producer's messages are numbered 0, 1, 2 ...; none is *)
(* lost, duplicated or invented, and the consumers together take them out  *)
(* in the order in which they were put in.                                 *)
(***************************************************************************)
EXTENDS Integers, Sequences

CONSTANTS Producers, Consumers, Limit

VARIABLES contents,  \* the messages in the queue, oldest first
          sent,      \* sent[p]: how many messages producer p has put
          got        \* got[c]: the messages consumer c has taken, in order

bqVars == <<contents, sent, got>>

Init ==
  /\ contents = <<>>
  /\ sent = [p \in Producers |-> 0]
  /\ got = [c \in Consumers |-> <<>>]

Put(p) ==
  /\ Len(contents) < Limit
  /\ contents' = Append(contents, <<p, sent[p]>>)
  /\ sent' = [sent EXCEPT ![p] = @ + 1]
  /\ UNCHANGED got

Get(c) ==
  /\ contents # <<>>
  /\ contents' = Tail(contents)
  /\ got' = [got EXCEPT ![c] = Append(@, Head(contents))]
  /\ UNCHANGED sent

Next ==
  \/ \E p \in Producers : Put(p)
  \/ \E c \in Consumers : Get(c)

Spec == Init /\ [][Next]_bqVars
=============================================================================
