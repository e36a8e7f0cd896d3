------------------------------ MODULE MsgBlock ------------------------------
(***************************************************************************)
(* The message block of chapter 8: a producer thread fills it at random    *)
(* intervals, a consumer thread shows it when the user enters 'c' and ends *)
(* the program when the user enters 's'.  Four programs share it:          *)
(*                                                                         *)
(*   simplePC   a critical section; 'c' does not wait for a message        *)
(*   simplePCx  the same, marked DEFECTIVE: the producer enters twice and  *)
(*              leaves once, and fills the block after announcing it       *)
(*   eventPC    a mutex and an auto-reset event that 'c' waits for first   *)
(*   eventPCx   the same, but 'c' owns the mutex while it waits            *)
(*                                                                         *)
(* program is rigid; "none" does not run.  Both kinds of lock are          *)
(* recursive.  The contents are abstracted to whether mChecksum is the     *)
(* checksum of mData.                                                      *)
(***************************************************************************)
EXTENDS Integers

CONSTANTS
  MaxMessages  \* bound: messages produced before the producer only serves waiters

Programs == {"simplePC", "simplePCx", "eventPC", "eventPCx"}
EventPrograms == {"eventPC", "eventPCx"}

VARIABLES
  program,
  owner, depth,     \* mGuard: who owns it and how many times
  mReady,           \* the auto-reset event
  fReady, fStop, nCons, mSequence, nLost,
  whole,            \* mChecksum is the checksum of mData
  pPc, cPc,         \* the producer's and the consumer's next statement
  shown,            \* history: the number of the last message displayed
  overwritten,      \* history: messages replaced before they were displayed
  replaced,         \* history: overwritten when the last one was displayed
  corrupt           \* history: a message was displayed as BAD

guard == <<owner, depth>>
block == <<mReady, fReady, whole>>
made == <<mSequence, overwritten>>
used == <<nCons, nLost, shown, replaced, corrupt>>
vars == <<program, guard, block, fStop, made, used, pPc, cPc>>

InitOf(p) ==
  /\ program = p
  /\ owner = "nobody" /\ depth = 0
  /\ mReady = FALSE /\ fReady = FALSE /\ fStop = FALSE
  /\ nCons = 0 /\ mSequence = 0 /\ nLost = 0 /\ whole = TRUE
  /\ pPc = "test" /\ cPc = "test"
  /\ shown = 0 /\ overwritten = 0 /\ replaced = 0 /\ corrupt = FALSE
Init == \E p \in Programs : InitOf(p)

EnterUnguarded(t) ==  \* Fault: a thread does not wait for the guard.
  /\ owner' = t /\ depth' = 1
Enter(t) ==
  /\ owner \in {"nobody", t}
  /\ owner' = t /\ depth' = depth + 1

LeaveOnce(n) ==  \* Fault: only the owner is cleared.
  /\ depth' = depth
  /\ owner' = IF depth = n THEN "nobody" ELSE owner
Leave(n) ==
  /\ depth' = depth - n
  /\ owner' = IF depth = n THEN "nobody" ELSE owner

-----------------------------------------------------------------------------
\* Produce

ProducerTestReady ==  \* Fault: the loop tests the wrong flag.
  /\ pPc = "test"
  /\ pPc' = IF fReady THEN "exit" ELSE "sleep"
  /\ UNCHANGED <<program, guard, block, fStop, made, used, cPc>>
ProducerTest ==
  /\ pPc = "test"
  /\ pPc' = IF fStop THEN "exit" ELSE "sleep"
  /\ UNCHANGED <<program, guard, block, fStop, made, used, cPc>>

\* Sleep, then enter.  The bound lets a consumer that waits have its message.
ProducerEnter ==
  /\ pPc = "sleep"
  /\ mSequence < MaxMessages \/ fStop \/ (cPc = "ready" /\ ~mReady)
  /\ Enter("producer")
  /\ pPc' = "inside"
  /\ UNCHANGED <<program, block, fStop, made, used, cPc>>

ProducerStopped(leaves) ==
  /\ pPc = "inside" /\ fStop
  /\ Leave(leaves)
  /\ pPc' = "test"
  /\ UNCHANGED <<program, block, fStop, made, used, cPc>>

\* The block is not ready while MessageFill is under way.
FillStart ==
  /\ pPc = "inside" /\ ~fStop
  /\ fReady' = FALSE /\ whole' = FALSE
  /\ overwritten' = overwritten + (IF fReady THEN 1 ELSE 0)
  /\ pPc' = "fill"
  /\ UNCHANGED <<program, guard, mReady, fStop, mSequence, used, cPc>>

FillEndKeeps ==  \* Fault: the guard is not left when a message has been made.
  /\ pPc = "fill"
  /\ whole' = TRUE /\ fReady' = TRUE
  /\ mSequence' = mSequence + 1
  /\ mReady' = (program \in EventPrograms)
  /\ Leave(0)
  /\ pPc' = "test"
  /\ UNCHANGED <<program, fStop, overwritten, used, cPc>>
FillEnd ==
  /\ pPc = "fill"
  /\ whole' = TRUE /\ fReady' = TRUE
  /\ mSequence' = mSequence + 1
  /\ mReady' = (program \in EventPrograms)
  /\ Leave(1)
  /\ pPc' = "test"
  /\ UNCHANGED <<program, fStop, overwritten, used, cPc>>

Producer == \/ ProducerTest \/ ProducerEnter \/ ProducerStopped(1)
            \/ FillStart \/ FillEnd

\* simplePCx: one of two Enters is left, and the message is announced before
\* the block is filled.
AnnounceX ==
  /\ pPc = "inside" /\ ~fStop
  /\ fReady' = TRUE /\ whole' = FALSE
  /\ mSequence' = mSequence + 1
  /\ overwritten' = overwritten + (IF fReady THEN 1 ELSE 0)
  /\ pPc' = "fill"
  /\ UNCHANGED <<program, guard, mReady, fStop, used, cPc>>

FillEndX ==
  /\ pPc = "fill"
  /\ whole' = TRUE
  /\ pPc' = "test"
  /\ UNCHANGED <<program, guard, mReady, fReady, fStop, made, used, cPc>>

ProducerXLeaves ==  \* Fault: a producer that finds the program stopped leaves for good.
  \/ ProducerTest \/ ProducerEnter \/ ProducerStopped(depth)
  \/ AnnounceX \/ FillEndX
ProducerX == \/ ProducerTest \/ ProducerEnter \/ ProducerStopped(0)
             \/ AnnounceX \/ FillEndX

-----------------------------------------------------------------------------
\* Consume

\* while (!fStop) or while (!ShutDown): only this thread sets them.
ConsumerTest ==
  /\ cPc = "test"
  /\ cPc' = IF fStop THEN "exit" ELSE "prompt"
  /\ UNCHANGED <<program, guard, block, fStop, made, used, pPc>>

IllegalCommand ==
  /\ cPc = "prompt"
  /\ cPc' = "test"
  /\ UNCHANGED <<program, guard, block, fStop, made, used, pPc>>

\* 's': the critical section programs do not enter it, the others own the mutex.
StopCommand(guarded) ==
  /\ cPc = "prompt"
  /\ guarded => owner = "nobody"
  /\ fStop' = TRUE
  /\ cPc' = "test"
  /\ UNCHANGED <<program, guard, block, made, used, pPc>>

\* 'c', and the first thing it waits for.
ConsumeCommand(next) ==
  /\ cPc = "prompt"
  /\ nCons < MaxMessages
  /\ cPc' = next
  /\ UNCHANGED <<program, guard, block, fStop, made, used, pPc>>

ConsumerEnter(next) ==
  /\ cPc = "enter"
  /\ Enter("consumer")
  /\ cPc' = next
  /\ UNCHANGED <<program, block, fStop, made, used, pPc>>

WaitReady(next) ==
  /\ cPc = "ready"
  /\ mReady
  /\ mReady' = FALSE
  /\ cPc' = next
  /\ UNCHANGED <<program, guard, fReady, whole, fStop, made, used, pPc>>

NothingNew ==
  /\ cPc = "inside" /\ ~fReady
  /\ Leave(1)
  /\ cPc' = "test"
  /\ UNCHANGED <<program, block, fStop, made, used, pPc>>

\* MessageDisplay validates the checksum; the counts; then the guard is left.
\* extra is what the program adds to mSequence - nCons for nLost.
DisplayLate(extra, leaves) ==  \* Fault: nLost is always computed before nCons.
  /\ cPc = "inside"
  /\ corrupt' = (corrupt \/ ~whole)
  /\ shown' = mSequence /\ replaced' = overwritten
  /\ nCons' = nCons + 1
  /\ nLost' = mSequence - nCons + extra
  /\ fReady' = FALSE
  /\ Leave(leaves)
  /\ cPc' = "test"
  /\ UNCHANGED <<program, mReady, whole, fStop, made, pPc>>
Display(extra, leaves) ==
  /\ cPc = "inside"
  /\ corrupt' = (corrupt \/ ~whole)
  /\ shown' = mSequence /\ replaced' = overwritten
  /\ nCons' = nCons + 1
  /\ nLost' = mSequence - nCons' + extra
  /\ fReady' = FALSE
  /\ Leave(leaves)
  /\ cPc' = "test"
  /\ UNCHANGED <<program, mReady, whole, fStop, made, pPc>>

ConsumerX ==  \* simplePCx leaves again in the termination handler.
  IF fReady THEN Display(0, 2) ELSE NothingNew

Prompt == ConsumerTest \/ IllegalCommand

-----------------------------------------------------------------------------
\* The programs.  simplePC computes nLost before it increments nCons, and
\* adds 1; eventPCx does not test fReady.

simplePC ==
  /\ program = "simplePC"
  /\ \/ Producer \/ Prompt \/ StopCommand(FALSE) \/ ConsumeCommand("enter")
     \/ ConsumerEnter("inside") \/ NothingNew
     \/ fReady /\ Display(2, 1)

simplePCx ==
  /\ program = "simplePCx"
  /\ \/ ProducerX \/ Prompt \/ StopCommand(FALSE) \/ ConsumeCommand("enter")
     \/ ConsumerEnter("inside") \/ ConsumerX

eventPCUnchecked ==  \* Fault: 'c' processes a message twice.
  /\ program = "eventPC"
  /\ \/ Producer \/ Prompt \/ StopCommand(TRUE) \/ ConsumeCommand("ready")
     \/ WaitReady("enter") \/ ConsumerEnter("inside") \/ NothingNew
     \/ Display(0, 1)
eventPC ==
  /\ program = "eventPC"
  /\ \/ Producer \/ Prompt \/ StopCommand(TRUE) \/ ConsumeCommand("ready")
     \/ WaitReady("enter") \/ ConsumerEnter("inside") \/ NothingNew
     \/ fReady /\ Display(0, 1)

eventPCx ==
  /\ program = "eventPCx"
  /\ \/ Producer \/ Prompt \/ StopCommand(TRUE) \/ ConsumeCommand("enter")
     \/ ConsumerEnter("ready") \/ WaitReady("inside") \/ Display(0, 1)

Next == simplePC \/ simplePCx \/ eventPC \/ eventPCx

Spec == Init /\ [][Next]_vars

-----------------------------------------------------------------------------
\* The threads run.  The user need not enter a command.
ProducerStep == UNCHANGED cPc /\ Next
ConsumerStep == cPc # "prompt" /\ UNCHANGED pPc /\ Next

Fairness == WF_vars(ProducerStep) /\ WF_vars(ConsumerStep)
FairSpec == Spec /\ Fairness

(* Every variable has its type, within the bounds of the instance.         *)
TypeOK ==
  /\ program \in Programs \cup {"none"}
  /\ owner \in {"nobody", "producer", "consumer"} /\ depth \in Nat
  /\ mReady \in BOOLEAN /\ fReady \in BOOLEAN /\ fStop \in BOOLEAN /\ whole \in BOOLEAN
  /\ nCons \in Nat /\ mSequence \in Nat /\ nLost \in Nat
  /\ shown \in Nat /\ overwritten \in Nat /\ replaced \in Nat /\ corrupt \in BOOLEAN
  /\ pPc \in {"test", "sleep", "inside", "fill", "exit"}
  /\ cPc \in {"test", "prompt", "enter", "ready", "inside", "exit"}
  /\ (owner = "nobody") <=> (depth = 0)

(* What the block's comment promises (simplePC.c:24): a message that is     *)
(* ready and not stopped is valid whenever its owner leaves it; and so no   *)
(* display ever says BAD.  The defective simplePCx fills the block when it  *)
(* is ready, but its producer never lets go of it.                          *)
DisplaysValid ==
  /\ ~corrupt
  /\ (fReady /\ owner # "producer") => whole

(* Every message is displayed, replaced by a newer one before that, or      *)
(* ready to be displayed; none is displayed twice.                          *)
MessagesAccounted ==
  nCons + overwritten + (IF fReady THEN 1 ELSE 0) = mSequence

(* nLost is the number of messages replaced before the last one displayed,  *)
(* but in simplePC, where nothing is said of it here.                       *)
LostTruthful ==
  program # "simplePC" /\ nCons > 0 => nLost = replaced /\ nLost + nCons = shown

(* simplePC.c:29: "Also, at all times, 0 <= nLost + nCons <= mSequence".    *)
(* simplePC breaks it, whose line 115 computes nLost before nCons is        *)
(* incremented, and adds 1.                                                 *)
CountsBounded == nLost + nCons <= mSequence

(* simplePCx's consumer never displays a message, and so never leaves a     *)
(* critical section that it does not own: when a message is ready, its      *)
(* producer owns the section for ever.                                      *)
DefectHidesDefect ==
  program = "simplePCx" => /\ nCons = 0
                           /\ fReady => owner = "producer"

(* When eventPCx's consumer owns the mutex and waits for an event that is   *)
(* not set, nobody will ever set it.                                        *)
HeldForEver == program = "eventPCx" /\ cPc = "ready" /\ ~mReady
StaysHeld == [][HeldForEver => HeldForEver']_vars

(* When the user stops a program that takes the command, both threads end.  *)
StopEnds == fStop ~> (pPc = "exit" /\ cPc = "exit")

(* simplePC and eventPC come back to the user after every command.          *)
CommandReturns ==
  (program \in {"simplePC", "eventPC"} /\ cPc # "prompt") ~> (cPc \in {"prompt", "exit"})
=============================================================================
