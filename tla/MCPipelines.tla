------------------------------- MODULE MCPipelines --------------------------
(***************************************************************************)
(* Four programs that pass messages between threads, checked together: the *)
(* message block of chapter 8, the cancellable pipeline, the pipeline on   *)
(* condition variables and the producer with several consumers.  A         *)
(* behaviour runs one of them.                                             *)
(***************************************************************************)
EXTENDS Naturals, FiniteSets

CONSTANTS MaxMessages, PairNumbers, CancelArguments, PthreadArguments, BlockSize, MAX_RETRY, QSize,
          ConsumerNumbers, MaxSequence

\* Pairs of a number of threads and of a number of messages; a queue has a slot that stays free.
ASSUME PipelinesAssumption ==
  /\ CancelArguments \subseteq Nat \X Nat /\ PthreadArguments \subseteq Nat \X Nat
  /\ BlockSize \in Nat \ {0} /\ QSize \in Nat \ {0} /\ MAX_RETRY \in Nat
  /\ IsFiniteSet(ConsumerNumbers) /\ MaxSequence \in Nat

VARIABLES
  chosen,          \* the program that runs
  program, owner, depth, mReady, fReady, fStop, nCons, mSequence, nLost, whole, prodPc, consPc,
  shown, overwritten, replaced, corrupt,
  cThread, cGoal, cQueue, guard, cSignaled, th, cDone, cTBlock, cRBlock, apc,
  shutDownGet, shutDownPut, cShutDown, cBoss,
  npc, pGoal, pQueue, pPcs, retries, pDone, pTBlock, pRBlock, AllProduced, pShutDown, pBoss,
  running, f_consumed, f_ready, mStop, sequence, producer, mPc, nmsgs, mBoss

Block == INSTANCE MsgBlock WITH pPc <- prodPc, cPc <- consPc
Cancel == INSTANCE ThreeStageCancel WITH
  Pairs <- PairNumbers, TBLOCK_SIZE <- BlockSize,
  Arguments <- CancelArguments, Capacity <- QSize - 1,
  nThread <- cThread, goal <- cGoal, queue <- cQueue, signaled <- cSignaled, workDone <- cDone,
  tBlock <- cTBlock, rBlock <- cRBlock, ShutDown <- cShutDown, boss <- cBoss
PThread == INSTANCE PThree WITH
  Pairs <- PairNumbers, TBLOCK_SIZE <- BlockSize,
  Arguments <- PthreadArguments,
  goal <- pGoal, queue <- pQueue, pc <- pPcs, workDone <- pDone, tBlock <- pTBlock,
  rBlock <- pRBlock, ShutDown <- pShutDown, boss <- pBoss
Multi == INSTANCE MultiPCav WITH Workers <- ConsumerNumbers, fStop <- mStop, pc <- mPc, boss <- mBoss

blockVars == <<program, owner, depth, mReady, fReady, fStop, nCons, mSequence, nLost, whole,
               prodPc, consPc, shown, overwritten, replaced, corrupt>>
cancelVars == <<cThread, cGoal, cQueue, guard, cSignaled, th, cDone, cTBlock, cRBlock, apc,
                shutDownGet, shutDownPut, cShutDown, cBoss>>
pthreadVars == <<npc, pGoal, pQueue, pPcs, retries, pDone, pTBlock, pRBlock,
                 AllProduced, pShutDown, pBoss>>
multiVars == <<running, f_consumed, f_ready, mStop, sequence, producer, mPc, nmsgs, mBoss>>
pipelinesVars == <<chosen, blockVars, cancelVars, pthreadVars, multiVars>>

PipelinesInit ==
  /\ chosen \in {"block", "cancel", "pthread", "multi"}
  /\ IF chosen = "block" THEN Block!Init ELSE Block!InitOf("none")
  /\ IF chosen = "cancel" THEN Cancel!Init ELSE Cancel!InitOf(0, 0)
  /\ IF chosen = "pthread" THEN PThread!Init ELSE PThread!InitOf(0, 0)
  /\ IF chosen = "multi" THEN Multi!Init ELSE Multi!InitOf(FALSE)
PipelinesNext ==
  /\ UNCHANGED chosen
  /\ \/ chosen = "block" /\ Block!Next /\ UNCHANGED <<cancelVars, pthreadVars, multiVars>>
     \/ chosen = "cancel" /\ Cancel!Next /\ UNCHANGED <<blockVars, pthreadVars, multiVars>>
     \/ chosen = "pthread" /\ PThread!Next /\ UNCHANGED <<blockVars, cancelVars, multiVars>>
     \/ chosen = "multi" /\ Multi!Next /\ UNCHANGED <<blockVars, cancelVars, pthreadVars>>
\* The fairness of the module that runs; the actions of the others are not enabled.
PipelinesFairness ==
  /\ WF_blockVars(chosen = "block" /\ Block!ProducerStep)
  /\ WF_blockVars(chosen = "block" /\ Block!ConsumerStep)
  /\ WF_cancelVars(chosen = "cancel" /\ Cancel!BossStep)
  /\ \A t \in Cancel!Threads : WF_cancelVars(chosen = "cancel" /\ Cancel!Step(t))
  /\ WF_pthreadVars(chosen = "pthread" /\ PThread!BossStep)
  /\ \A t \in PThread!Threads : WF_pthreadVars(chosen = "pthread" /\ PThread!Step(t))
  /\ WF_multiVars(chosen = "multi" /\ Multi!Join)
  /\ WF_multiVars(chosen = "multi" /\ (Multi!CheckStop \/ Multi!Produce))
  /\ \A c \in ConsumerNumbers : WF_multiVars(chosen = "multi" /\ Multi!Consumer(c))
PipelinesSpec == PipelinesInit /\ [][PipelinesNext]_pipelinesVars /\ PipelinesFairness

-----------------------------------------------------------------------------
(* MsgBlock: no message is shown as BAD, each is shown, replaced or ready,  *)
(* the lost ones, unless simplePC counts them, are those replaced before    *)
(* the last shown, and the defective program never shows any.               *)
BlockRight ==
  /\ Block!TypeOK /\ Block!DisplaysValid /\ Block!MessagesAccounted
  /\ Block!LostTruthful /\ Block!DefectHidesDefect

(* simplePC.c:29: "at all times, 0 <= nLost + nCons <= mSequence".          *)
CountsBounded == Block!CountsBounded

(* The pipelines change a queue only under its guard, and neither lose nor  *)
(* repeat nor reorder messages on their way, although calls are cancelled   *)
(* or time out.                                                             *)
OnTheWay ==
  /\ Cancel!TypeOK /\ Cancel!MovesGuarded /\ Cancel!DeliveryOrder
  /\ PThread!TypeOK /\ PThread!Conserved
  /\ Multi!TypeOK /\ Multi!EachOnce

(* MsgBlock: a stop ends both threads and each command prompts again;       *)
(* eventPCx waits for ever with the mutex.                                  *)
BlockAnswers == Block!StaysHeld /\ Block!StopEnds /\ Block!CommandReturns

(* The cancellable pipeline ends if the transmitter is cancelled first, and *)
(* then all messages that fill their blocks are consumed; the consumers of  *)
(* the others end, and the whole program unless a thread gave up or no      *)
(* consumer is in its loop when it stops.                                   *)
PipelinesEnd ==
  /\ Cancel!AllConsumed /\ Cancel!EndsInOrder
  /\ PThread!ConsumersEnd /\ PThread!EndsUnlessGaveUp
  /\ Multi!ConsumersStop /\ Multi!ProducerStops

CancelArgs == {<<1, 2>>, <<2, 1>>}
PthreadArgs == {<<1, 3>>}
=============================================================================
