---------------------------- MODULE MCQueueTimed ----------------------------
(* QueueTimed on small instances for TLC. *)
EXTENDS QueueTimed

CSSig == {<<"CS_Sig", INFINITE>>}
SigNoSOAW == {<<"Sig_noSOAW", INFINITE>>}
AllBuilds ==
  CSSig \cup SigNoSOAW \cup {<<"CS_Sig", 1>>, <<"noSOAW", INFINITE>>, <<"noSOAW", 1>>}
=============================================================================
