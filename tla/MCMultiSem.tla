----------------------------- MODULE MCMultiSem -----------------------------
(***************************************************************************)
(* The multiple wait semaphore and the table of the named ones on small    *)
(* instances for TLC.  A behaviour runs one of them.                       *)
(***************************************************************************)
EXTENDS MultiSem, SynchTable

VARIABLE runs  \* the one that runs

\* The program that does not run stays in one of its initial states.
MultiSemInit ==
  /\ runs \in {"semaphore", "table"}
  /\ Init /\ (runs = "semaphore" \/ kind = <<FALSE, FALSE>>)
  /\ IF runs = "table" THEN TableInit ELSE InitOf("none", FALSE)
MultiSemNext ==
  /\ UNCHANGED runs
  /\ \/ runs = "semaphore" /\ Next /\ UNCHANGED tableVars
     \/ runs = "table" /\ TableNext /\ UNCHANGED vars
MultiSemSpec == MultiSemInit /\ [][MultiSemNext]_<<runs, vars, tableVars>>

AllKinds == BOOLEAN \X BOOLEAN
FirstTimed == {<<FALSE, TRUE>>}
OneKind == {<<FALSE, FALSE>>}
LibraryUses == {<<"SynchObj", TRUE>>, <<"SynchObj", FALSE>>, <<"MultiSem", FALSE>>}
OverlapUses == {<<"MultiSem", TRUE>>}
=============================================================================
