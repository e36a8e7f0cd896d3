----------------------------- MODULE MCChapter10 ----------------------------
(***************************************************************************)
(* Two programs of chapter 10 on small instances for TLC, the test of the  *)
(* threshold barrier and the three stage pipeline.  A behaviour runs one   *)
(* of them.                                                                *)
(***************************************************************************)
EXTENDS ThbObject, Sequences

CONSTANTS Pairs, goal, TBLOCK_SIZE, P2T, T2R, R2C

VARIABLES
  runs,  \* the one that runs
  p2tq, t2rq, r2cq, produced, pPc, tBlock, tActive, tPc, rBlock, rActive, rPc,
  consumed, cPc, ShutDown, boss

Pipeline == INSTANCE ThreeStage

ASSUME PipelineAssumption == Pipeline!ThreeStageAssumption

pipelineVars == <<p2tq, t2rq, r2cq, produced, pPc, tBlock, tActive, tPc, rBlock, rActive, rPc,
                  consumed, cPc, ShutDown, boss>>

\* The program that does not run stays in its initial state.
Chapter10Init ==
  /\ runs \in {"barrier", "pipeline"} /\ Init /\ Pipeline!Init
  /\ runs = "pipeline" => started = {}
Chapter10Next ==
  /\ UNCHANGED runs
  /\ \/ runs = "barrier" /\ Next /\ UNCHANGED pipelineVars
     \/ runs = "pipeline" /\ Pipeline!Next /\ UNCHANGED vars

\* The fairness of the program that runs; the actions of the other are not enabled.
Chapter10Fairness ==
  /\ \A w \in Workers : WF_vars(runs = "barrier" /\ Worker(w))
  /\ WF_vars(runs = "barrier" /\ (MainWait \/ MainClose \/ MainFree))
  /\ \A p \in Pairs : WF_pipelineVars(runs = "pipeline" /\ Pipeline!ProducerPut(p))
  /\ WF_pipelineVars(runs = "pipeline" /\ Pipeline!Transmitter)
  /\ WF_pipelineVars(runs = "pipeline" /\ Pipeline!Receiver)
  /\ \A c \in Pairs : WF_pipelineVars(runs = "pipeline" /\ Pipeline!ConsumerGet(c))
  /\ WF_pipelineVars(runs = "pipeline" /\ Pipeline!Boss)
Chapter10Spec == Chapter10Init /\ [][Chapter10Next]_<<runs, vars, pipelineVars>> /\ Chapter10Fairness

-----------------------------------------------------------------------------
(* The pipeline: no queue and no block exceeds its length, and no message   *)
(* is lost, repeated, misdirected or overtaken on its way.                  *)
PipelineOrder == Pipeline!TypeOK /\ Pipeline!PipelineOrder

(* The threads that pass messages on give up for want of producers only     *)
(* when nothing can be left behind them.                                    *)
ExitAfterDone == Pipeline!ExitAfterDone

(* Each program ends: every thread passes the barrier, which is closed; the *)
(* consumers get all their messages, and then nothing but the Receiver may  *)
(* be left, waiting for a block that nobody will send.                      *)
BarrierEnds == runs = "barrier" => AllPass
PipelineEnds == runs = "pipeline" => Pipeline!PipelineEnds
=============================================================================
