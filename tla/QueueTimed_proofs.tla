------------------------- MODULE QueueTimed_proofs -------------------------
(***************************************************************************)
(* Proofs about the queue objects that wait with a time limit, for any     *)
(* number of threads, any number of calls, any size of the ring and each   *)
(* of the builds.                                                          *)
(***************************************************************************)
EXTENDS QueueTimed, QueueRing_proofs, FiniteSetTheorems

-----------------------------------------------------------------------------
(* Types.                                                                  *)

LEMMA TypeOKInit == Init => TypeOK
<1> SUFFICES ASSUME Init
             PROVE  TypeOK
  OBVIOUS
<1>1. qFirst \in Slot /\ qLast \in Slot
  BY RingAssumption DEF Init, Slot
<1>2. pc \in [Threads -> Labels]
  BY DEF Init, Labels
<1>3. got \in [Consumers -> Seq(Messages \cup {NoMsg})]
  BY DEF Init
<1> QED BY <1>1, <1>2, <1>3 DEF Init, TypeOK

LEMMA WaitsAfterType ==
  ASSUME NEW t \in Threads, waits[t] \in Nat
  PROVE  WaitsAfter(t, TRUE) \in Nat /\ WaitsAfter(t, FALSE) \in Nat
BY DEF WaitsAfter

LEMMA TypeOKSignal ==
  ASSUME TypeOK, NEW t \in Threads, SignalAndReturn(t)
  PROVE  TypeOK'
<1> USE DEF TypeOK, ring, history
<1>1. PICK woken \in IF Variant = "noSOAW" THEN PulseEvent(Announced(t)) ELSE SetEvent(Announced(t)) :
        /\ signaled' = IF Variant # "noSOAW" /\ woken = {} THEN signaled \cup {Announced(t)} ELSE signaled
        /\ pc' = [u \in Threads |->
                    IF u = t THEN IF calls[t] + 1 < Quota(t) THEN "lock" ELSE "done"
                    ELSE IF u \in woken \cap Waiters(Announced(t)) THEN "lock" ELSE pc[u]]
        /\ waits' = [u \in Threads |->
                       IF u = t THEN 0
                       ELSE IF u \in woken \cap Waiters(Announced(t)) THEN WaitsAfter(u, FALSE)
                       ELSE waits[u]]
  BY DEF SignalAndReturn
<1>2. signaled' \subseteq {"qNe", "qNf"}
  BY <1>1 DEF Announced
<1>3. pc' \in [Threads -> Labels]
  BY <1>1 DEF Labels
<1>4. waits' \in [Threads -> Nat]
  BY <1>1, WaitsAfterType
<1>5. calls' \in [Threads -> Nat] /\ okay' \in [Threads -> Nat]
  BY DEF SignalAndReturn
<1> QED
  BY <1>2, <1>3, <1>4, <1>5 DEF SignalAndReturn

LEMMA TypeOKStep == TypeOK /\ [Next]_vars => TypeOK'
<1> SUFFICES ASSUME TypeOK, [Next]_vars
             PROVE  TypeOK'
  OBVIOUS
<1> USE QueueTimedAssumption DEF TypeOK, ring, history
<1>1. ASSUME NEW t \in Threads, Lock(t)
      PROVE  TypeOK'
  BY <1>1 DEF Lock, Labels
<1>2. ASSUME NEW t \in Threads, LeaveLoop(t)
      PROVE  TypeOK'
  BY <1>2 DEF LeaveLoop, Labels
<1>3. ASSUME NEW t \in Threads, Release(t)
      PROVE  TypeOK'
  BY <1>3 DEF Release, Labels
<1>4. ASSUME NEW t \in Threads, StartWait(t)
      PROVE  TypeOK'
  <2>1. waits' \in [Threads -> Nat]
    <3>1. waits' = [waits EXCEPT ![t] = WaitsAfter(t, FALSE)] \/ waits' = waits
      BY <1>4 DEF StartWait
    <3>2. WaitsAfter(t, FALSE) \in Nat
      BY WaitsAfterType
    <3> QED BY <3>1, <3>2
  <2>2. pc' \in [Threads -> Labels]
    BY <1>4 DEF StartWait, Labels
  <2> QED BY <1>4, <2>1, <2>2 DEF StartWait
<1>5. ASSUME NEW t \in Threads, TimeOut(t)
      PROVE  TypeOK'
  <2>1. waits' \in [Threads -> Nat]
    BY <1>5, WaitsAfterType DEF TimeOut
  <2>2. pc' \in [Threads -> Labels]
    BY <1>5 DEF TimeOut, Labels
  <2> QED BY <1>5, <2>1, <2>2 DEF TimeOut
<1>6. ASSUME NEW p \in Producers, QueueInsert(p)
      PROVE  TypeOK'
  <2>1. p \in Threads /\ <<p, sent[p]>> \in Messages
    BY DEF Threads, Messages
  <2>2. pc' \in [Threads -> Labels]
    BY <1>6, <2>1 DEF QueueInsert, Labels
  <2>3. CASE ~Moves(p)
    BY <1>6, <2>2, <2>3 DEF QueueInsert
  <2>4. CASE Moves(p)
    <3>1. qLast' \in Slot
      BY <1>6, <2>4, AdvanceWraps DEF QueueInsert
    <3>2. msgArray' \in [Slot -> Messages \cup {NoMsg}]
      BY <1>6, <2>4, <2>1 DEF QueueInsert
    <3>3. sent' \in [Producers -> Nat]
      <4> HIDE DEF TypeOK
      <4>1. sent \in [Producers -> Nat] /\ sent' = [sent EXCEPT ![p] = @ + 1]
        BY <1>6, <2>4 DEF QueueInsert, TypeOK
      <4> QED BY <4>1
    <3> QED
      BY <1>6, <2>4, <2>2, <3>1, <3>2, <3>3 DEF QueueInsert
  <2> QED BY <2>3, <2>4
<1>7. ASSUME NEW c \in Consumers, QueueRemove(c)
      PROVE  TypeOK'
  <2>1. pc' \in [Threads -> Labels]
    BY <1>7 DEF QueueRemove, Labels, Threads
  <2>2. CASE ~Moves(c)
    BY <1>7, <2>1, <2>2 DEF QueueRemove
  <2>3. CASE Moves(c)
    <3>1. qFirst' \in Slot
      BY <1>7, <2>3, AdvanceWraps DEF QueueRemove
    <3>2. got' \in [Consumers -> Seq(Messages \cup {NoMsg})]
      <4> DEFINE M == Messages \cup {NoMsg}
      <4> HIDE DEF M
      <4>1. msgArray[qFirst] \in M /\ got[c] \in Seq(M)
        BY DEF M
      <4>2. Append(got[c], msgArray[qFirst]) \in Seq(M)
        BY <4>1
      <4>3. got' \in [Consumers -> Seq(M)]
        BY <1>7, <2>3, <4>2 DEF QueueRemove, M
      <4> QED BY <4>3 DEF M
    <3> QED
      BY <1>7, <2>3, <2>1, <3>1, <3>2 DEF QueueRemove
  <2> QED BY <2>2, <2>3
<1>8. ASSUME NEW t \in Threads, SignalAndReturn(t)
      PROVE  TypeOK'
  BY <1>8, TypeOKSignal
<1>9. CASE QueueDestroy
  BY <1>9 DEF QueueDestroy
<1>10. CASE UNCHANGED vars
  BY <1>10 DEF vars
<1> QED
  BY <1>1, <1>2, <1>3, <1>4, <1>5, <1>6, <1>7, <1>8, <1>9, <1>10 DEF Next, Call, Exited

\* Every variable of QUEUE_OBJECT and of the calls in progress has its type in
\* every reachable state.
THEOREM TypeCorrect == Spec => []TypeOK
BY TypeOKInit, TypeOKStep, PTL DEF Spec

-----------------------------------------------------------------------------
(* Mutual exclusion: only the owner of the guard is between its lock and   *)
(* its release, although a wait starts after the release.                  *)
Inside == {"test", "move", "signal"}
GuardOwner == \A t \in Threads : pc[t] \in Inside <=> qGuard = t

LEMMA GuardOwnerStep == TypeOK /\ GuardOwner /\ [Next]_vars => GuardOwner'
<1> SUFFICES ASSUME TypeOK, GuardOwner, [Next]_vars
             PROVE  GuardOwner'
  OBVIOUS
<1> USE QueueTimedAssumption DEF GuardOwner, Inside, TypeOK, ring, history
<1>1. ASSUME NEW t \in Threads, Lock(t)
      PROVE  GuardOwner'
  BY <1>1 DEF Lock
<1>2. ASSUME NEW t \in Threads, LeaveLoop(t)
      PROVE  GuardOwner'
  BY <1>2 DEF LeaveLoop
<1>3. ASSUME NEW t \in Threads, Release(t)
      PROVE  GuardOwner'
  BY <1>3 DEF Release
<1>4. ASSUME NEW t \in Threads, StartWait(t)
      PROVE  GuardOwner'
  BY <1>4 DEF StartWait
<1>5. ASSUME NEW t \in Threads, TimeOut(t)
      PROVE  GuardOwner'
  BY <1>5 DEF TimeOut
<1>6. ASSUME NEW p \in Producers, QueueInsert(p)
      PROVE  GuardOwner'
  BY <1>6 DEF QueueInsert, Threads
<1>7. ASSUME NEW c \in Consumers, QueueRemove(c)
      PROVE  GuardOwner'
  BY <1>7 DEF QueueRemove, Threads
<1>8. ASSUME NEW t \in Threads, SignalAndReturn(t)
      PROVE  GuardOwner'
  <2>1. qGuard = t /\ qGuard' = NoThread
    BY <1>8 DEF SignalAndReturn
  <2>2. ASSUME NEW u \in Threads
        PROVE  pc'[u] \notin Inside
    BY <1>8, <2>1 DEF SignalAndReturn
  <2> QED BY <2>1, <2>2
<1>9. CASE QueueDestroy
  BY <1>9 DEF QueueDestroy
<1>10. CASE UNCHANGED vars
  BY <1>10 DEF vars
<1> QED
  BY <1>1, <1>2, <1>3, <1>4, <1>5, <1>6, <1>7, <1>8, <1>9, <1>10 DEF Next, Call, Exited

Safe == TypeOK /\ GuardOwner

LEMMA SafeInvariant == Spec => []Safe
<1>1. Init => GuardOwner
  BY QueueTimedAssumption DEF Init, GuardOwner, Inside
<1> QED
  BY TypeOKInit, TypeOKStep, <1>1, GuardOwnerStep, PTL DEF Spec, Safe

-----------------------------------------------------------------------------
(* What a call returns.  The invariant follows one call: a thread leaves   *)
(* the loop only when its call can be served or has timed out, and that    *)
(* stays so until it moves its message, because the guard is its own; once *)
(* past the move, it has moved one message more than it has calls that     *)
(* returned 0, if it is about to return 0 itself.                          *)
Owed(t) == okay[t] + (IF pc[t] = "signal" /\ ~TimedOut(t) THEN 1 ELSE 0)

Status(t) ==
  /\ pc[t] = "move" => ~Blocked(t) \/ TimedOut(t)
  /\ Owed(t) <= Moved(t)
  /\ Variant # "Sig_noSOAW" => Moved(t) = Owed(t)

StatusInv == \A t \in Threads : Status(t)

\* A thread whose own call takes no step past the loop keeps its status.
LEMMA StatusAway ==
  ASSUME NEW u \in Threads, Status(u), build' = build, okay'[u] = okay[u], Moved(u)' = Moved(u),
         pc[u] # "signal", pc'[u] \notin {"move", "signal"}
  PROVE  Status(u)'
BY DEF Status, Owed, Variant

LEMMA StatusSame ==
  ASSUME NEW u \in Threads, Status(u), build' = build, okay'[u] = okay[u], Moved(u)' = Moved(u),
         pc'[u] = pc[u], waits'[u] = waits[u],
         pc[u] = "move" => qFirst' = qFirst /\ qLast' = qLast
  PROVE  Status(u)'
BY DEF Status, Owed, Variant, MaxWait, TimedOut, Blocked

LEMMA StatusInsert ==
  ASSUME Safe, StatusInv, NEW p \in Producers, QueueInsert(p)
  PROVE  StatusInv'
<1> SUFFICES ASSUME NEW u \in Threads
             PROVE  Status(u)'
  BY DEF StatusInv
<1>1. p \in Threads /\ Status(u) /\ Status(p)
  BY DEF Threads, StatusInv
<1>2. /\ pc[p] = "move" /\ pc' = [pc EXCEPT ![p] = "signal"] /\ pc \in [Threads -> Labels]
      /\ build' = build /\ waits' = waits /\ okay' = okay /\ got' = got
      /\ okay \in [Threads -> Nat] /\ sent \in [Producers -> Nat]
      /\ IF Moves(p) THEN sent' = [sent EXCEPT ![p] = @ + 1] ELSE sent' = sent
  BY DEF QueueInsert, Safe, TypeOK
<1>3. CASE u = p
  <2>1. Moved(u) = sent[p] /\ Moved(u)' = sent'[p]
    BY <1>3 DEF Moved
  <2>2. TimedOut(u)' = TimedOut(p)
    BY <1>2, <1>3 DEF TimedOut, Variant, MaxWait
  <2>3. Owed(p) = okay[p] /\ Owed(u)' = okay[p] + (IF ~TimedOut(p) THEN 1 ELSE 0)
    BY <1>1, <1>2, <1>3, <2>2 DEF Owed
  <2>4. sent'[p] = sent[p] + (IF Moves(p) THEN 1 ELSE 0)
    BY <1>2
  <2>5. ~TimedOut(p) => Moves(p)
    BY <1>1, <1>2 DEF Status, Moves
  <2>6. Variant # "Sig_noSOAW" /\ TimedOut(p) => ~Moves(p)
    BY DEF Moves
  <2>7. okay[p] <= sent[p] /\ (Variant # "Sig_noSOAW" => sent[p] = okay[p])
    BY <1>1, <1>3, <2>1, <2>3 DEF Status
  <2>8. okay[p] \in Nat /\ sent[p] \in Nat /\ pc'[u] = "signal" /\ Variant' = Variant
    BY <1>1, <1>2, <1>3 DEF Variant
  <2>9. Owed(u)' <= Moved(u)'
    BY <2>1, <2>3, <2>4, <2>5, <2>7, <2>8
  <2>10. Variant # "Sig_noSOAW" => Moved(u)' = Owed(u)'
    BY <2>1, <2>3, <2>4, <2>5, <2>6, <2>7, <2>8
  <2> QED BY <2>8, <2>9, <2>10 DEF Status
<1>4. CASE u # p
  <2>1. Moved(u)' = Moved(u)
    BY <1>2, <1>4 DEF Moved
  <2>2. pc[u] # "move"
    BY <1>1, <1>2, <1>4 DEF Safe, GuardOwner, Inside
  <2> QED BY <1>1, <1>2, <1>4, <2>1, <2>2, StatusSame
<1> QED BY <1>3, <1>4

LEMMA StatusRemove ==
  ASSUME Safe, StatusInv, NEW c \in Consumers, QueueRemove(c)
  PROVE  StatusInv'
<1> SUFFICES ASSUME NEW u \in Threads
             PROVE  Status(u)'
  BY DEF StatusInv
<1> DEFINE M == Messages \cup {NoMsg}
<1>1. c \in Threads /\ Status(u) /\ Status(c) /\ c \notin Producers
  BY QueueTimedAssumption DEF Threads, StatusInv
<1>2. /\ pc[c] = "move" /\ pc' = [pc EXCEPT ![c] = "signal"] /\ pc \in [Threads -> Labels]
      /\ build' = build /\ waits' = waits /\ okay' = okay /\ sent' = sent
      /\ okay \in [Threads -> Nat] /\ got \in [Consumers -> Seq(M)]
      /\ IF Moves(c) THEN got' = [got EXCEPT ![c] = Append(@, msgArray[qFirst])] ELSE got' = got
      /\ msgArray[qFirst] \in M
  BY DEF QueueRemove, Safe, TypeOK
<1> HIDE DEF M
<1>3. CASE u = c
  <2>1. Moved(u) = Len(got[c]) /\ Moved(u)' = Len(got'[c])
    BY <1>1, <1>3 DEF Moved
  <2>2. TimedOut(u)' = TimedOut(c)
    BY <1>2, <1>3 DEF TimedOut, Variant, MaxWait
  <2>3. Owed(c) = okay[c] /\ Owed(u)' = okay[c] + (IF ~TimedOut(c) THEN 1 ELSE 0)
    BY <1>1, <1>2, <1>3, <2>2 DEF Owed
  <2>4. Len(got'[c]) = Len(got[c]) + (IF Moves(c) THEN 1 ELSE 0)
    <3>1. got[c] \in Seq(M) /\ Len(got[c]) \in Nat
      BY <1>2
    <3>2. Len(Append(got[c], msgArray[qFirst])) = Len(got[c]) + 1
      BY <1>2, <3>1
    <3>3. got'[c] = IF Moves(c) THEN Append(got[c], msgArray[qFirst]) ELSE got[c]
      BY <1>2
    <3>4. CASE Moves(c)
      <4>1. got'[c] = Append(got[c], msgArray[qFirst])
        BY <3>3, <3>4
      <4> QED BY <3>2, <3>4, <4>1
    <3>5. CASE ~Moves(c)
      <4>1. got'[c] = got[c]
        BY <3>3, <3>5
      <4> QED BY <3>1, <3>5, <4>1
    <3> QED BY <3>4, <3>5
  <2>5. ~TimedOut(c) => Moves(c)
    BY <1>1, <1>2 DEF Status, Moves
  <2>6. Variant # "Sig_noSOAW" /\ TimedOut(c) => ~Moves(c)
    BY DEF Moves
  <2>7. okay[c] <= Len(got[c]) /\ (Variant # "Sig_noSOAW" => Len(got[c]) = okay[c])
    BY <1>1, <1>3, <2>1, <2>3 DEF Status
  <2>8. okay[c] \in Nat /\ Len(got[c]) \in Nat /\ pc'[u] = "signal" /\ Variant' = Variant
    BY <1>1, <1>2, <1>3 DEF Variant
  <2>9. Owed(u)' <= Moved(u)'
    <3>1. PICK n \in Nat : n = Len(got[c])
      BY <2>8
    <3>2. Moved(u)' = n + (IF Moves(c) THEN 1 ELSE 0) /\ okay[c] <= n
      BY <3>1, <2>1, <2>4, <2>7
    <3>3. CASE Moves(c)
      BY <3>2, <3>3, <2>3, <2>8
    <3>4. CASE ~Moves(c)
      BY <3>2, <3>4, <2>3, <2>5, <2>8
    <3> QED BY <3>3, <3>4
  <2>10. Variant # "Sig_noSOAW" => Moved(u)' = Owed(u)'
    BY <2>1, <2>3, <2>4, <2>5, <2>6, <2>7, <2>8
  <2> QED BY <2>8, <2>9, <2>10 DEF Status
<1>4. CASE u # c
  <2>1. Moved(u)' = Moved(u)
    BY <1>2, <1>4, QueueTimedAssumption DEF Moved, Threads
  <2>2. pc[u] # "move"
    BY <1>1, <1>2, <1>4 DEF Safe, GuardOwner, Inside
  <2> QED BY <1>1, <1>2, <1>4, <2>1, <2>2, StatusSame
<1> QED BY <1>3, <1>4

LEMMA StatusSignal ==
  ASSUME Safe, StatusInv, NEW t \in Threads, SignalAndReturn(t)
  PROVE  StatusInv'
<1> SUFFICES ASSUME NEW u \in Threads
             PROVE  Status(u)'
  BY DEF StatusInv
<1>1. Status(u) /\ Status(t)
  BY DEF StatusInv
<1>2. PICK woken \in IF Variant = "noSOAW" THEN PulseEvent(Announced(t)) ELSE SetEvent(Announced(t)) :
        /\ pc' = [v \in Threads |->
                    IF v = t THEN IF calls[t] + 1 < Quota(t) THEN "lock" ELSE "done"
                    ELSE IF v \in woken \cap Waiters(Announced(t)) THEN "lock" ELSE pc[v]]
        /\ waits' = [v \in Threads |->
                       IF v = t THEN 0
                       ELSE IF v \in woken \cap Waiters(Announced(t)) THEN WaitsAfter(v, FALSE)
                       ELSE waits[v]]
  BY DEF SignalAndReturn
<1>3. /\ pc[t] = "signal" /\ build' = build /\ okay \in [Threads -> Nat]
      /\ okay' = [okay EXCEPT ![t] = IF TimedOut(t) THEN @ ELSE @ + 1]
      /\ Moved(u)' = Moved(u) /\ qFirst' = qFirst /\ qLast' = qLast
  BY DEF SignalAndReturn, Safe, TypeOK, ring, history, Moved
<1>4. CASE u = t
  <2>1. pc'[u] \notin {"move", "signal"}
    BY <1>2, <1>4
  <2>2. Owed(u)' = okay'[u] /\ okay'[u] = Owed(u)
    BY <1>3, <1>4, <2>1 DEF Owed
  <2> QED BY <1>1, <1>3, <2>1, <2>2 DEF Status, Variant
<1>5. CASE u # t /\ u \in woken \cap Waiters(Announced(t))
  <2>1. pc[u] = "wait" /\ pc'[u] = "lock" /\ okay'[u] = okay[u]
    BY <1>2, <1>3, <1>5 DEF Waiters
  <2> QED BY <1>1, <1>3, <2>1, StatusAway
<1>6. CASE u # t /\ u \notin woken \cap Waiters(Announced(t))
  <2>1. pc'[u] = pc[u] /\ waits'[u] = waits[u] /\ okay'[u] = okay[u]
    BY <1>2, <1>3, <1>6
  <2> QED BY <1>1, <1>3, <2>1, StatusSame
<1> QED BY <1>4, <1>5, <1>6

LEMMA StatusStep == Safe /\ StatusInv /\ [Next]_vars => StatusInv'
<1> SUFFICES ASSUME Safe, StatusInv, [Next]_vars
             PROVE  StatusInv'
  OBVIOUS
<1> USE DEF ring, history
<1>0. pc \in [Threads -> Labels] /\ waits \in [Threads -> Nat]
  BY DEF Safe, TypeOK
<1>1. ASSUME NEW t \in Threads,
             Lock(t) \/ Release(t) \/ StartWait(t) \/ TimeOut(t)
      PROVE  StatusInv'
  <2> SUFFICES ASSUME NEW u \in Threads
               PROVE  Status(u)'
    BY DEF StatusInv
  <2>1. Status(u) /\ build' = build /\ okay' = okay /\ Moved(u)' = Moved(u)
                  /\ qFirst' = qFirst /\ qLast' = qLast
    BY <1>1 DEF StatusInv, Lock, Release, StartWait, TimeOut, Moved
  <2>2. CASE u = t
    <3>1. pc[u] # "signal" /\ pc'[u] \notin {"move", "signal"}
      BY <1>0, <1>1, <2>2 DEF Lock, Release, StartWait, TimeOut
    <3> QED BY <2>1, <3>1, StatusAway
  <2>3. CASE u # t
    <3>1. pc'[u] = pc[u] /\ waits'[u] = waits[u]
      BY <1>0, <1>1, <2>3 DEF Lock, Release, StartWait, TimeOut
    <3> QED BY <2>1, <3>1, StatusSame
  <2> QED BY <2>2, <2>3
<1>2. ASSUME NEW t \in Threads, LeaveLoop(t)
      PROVE  StatusInv'
  <2> SUFFICES ASSUME NEW u \in Threads
               PROVE  Status(u)'
    BY DEF StatusInv
  <2>1. Status(u) /\ build' = build /\ okay' = okay /\ Moved(u)' = Moved(u) /\ waits' = waits
                  /\ qFirst' = qFirst /\ qLast' = qLast
    BY <1>2 DEF StatusInv, LeaveLoop, Moved
  <2>2. CASE u = t
    <3>1. pc[u] = "test" /\ pc'[u] = "move" /\ (~Blocked(u) \/ TimedOut(u))
      BY <1>0, <1>2, <2>2 DEF LeaveLoop
    <3>2. Blocked(u)' = Blocked(u) /\ TimedOut(u)' = TimedOut(u)
      BY <2>1 DEF Blocked, TimedOut, Variant, MaxWait
    <3>3. Owed(u)' = okay[u] + 0 /\ Owed(u) = okay[u] + 0
      BY <2>1, <3>1 DEF Owed
    <3> QED BY <2>1, <3>1, <3>2, <3>3 DEF Status, Variant
  <2>3. CASE u # t
    <3>1. pc'[u] = pc[u]
      BY <1>0, <1>2, <2>3 DEF LeaveLoop
    <3> QED BY <2>1, <3>1, StatusSame
  <2> QED BY <2>2, <2>3
<1>3. CASE QueueDestroy \/ UNCHANGED vars
  <2> SUFFICES ASSUME NEW u \in Threads
               PROVE  Status(u)'
    BY DEF StatusInv
  <2>1. /\ build' = build /\ okay' = okay /\ pc' = pc /\ waits' = waits
        /\ qFirst' = qFirst /\ qLast' = qLast /\ sent' = sent /\ got' = got
    BY <1>3 DEF QueueDestroy, vars
  <2> QED BY <2>1, StatusSame DEF StatusInv, Moved
<1> QED
  BY <1>1, <1>2, <1>3, StatusInsert, StatusRemove, StatusSignal DEF Next, Call, Exited

\* What QueueGet and QueuePut return tells what they have done, in each build
\* and however waits, timeouts and signals interleave.
THEOREM StatusIsTruthful == Spec => []StatusTruthful
<1>1. Init => StatusInv
  BY DEF Init, StatusInv, Status, Owed, Moved, Threads
<1>2. TypeOK /\ StatusInv => StatusTruthful
  <2> SUFFICES ASSUME TypeOK, StatusInv, NEW t \in Threads,
                      pc[t] \in {"lock", "gap", "wait", "done"}
               PROVE  /\ okay[t] <= Moved(t)
                      /\ Variant # "Sig_noSOAW" => Moved(t) = okay[t]
    BY DEF StatusTruthful
  <2>1. Owed(t) = okay[t] + 0 /\ okay[t] \in Nat
    BY DEF Owed, TypeOK
  <2> QED BY <2>1 DEF StatusInv, Status
<1> QED
  BY <1>1, <1>2, StatusStep, SafeInvariant, PTL DEF Spec, Safe

-----------------------------------------------------------------------------
(* Refinement.                                                             *)

LEMMA RefineInit == Init => BQ!Init
BY RingAssumption DEF Init, BQ!Init, Contents, RingContents, RingLen, Slot

LEMMA RefineInsert ==
  ASSUME TypeOK, NEW p \in Producers, QueueInsert(p), Moves(p)
  PROVE  BQ!Put(p)
<1>1. ~RingFull(qFirst, qLast)
  BY DEF Moves, Blocked
<1>2. /\ msgArray' = [msgArray EXCEPT ![qLast] = <<p, sent[p]>>]
      /\ qLast' = Advance(qLast) /\ qFirst' = qFirst
      /\ sent' = [sent EXCEPT ![p] = @ + 1] /\ got' = got
  BY DEF QueueInsert
<1> DEFINE M == Messages \cup {NoMsg}
           msg == <<p, sent[p]>>
<1>3. msg \in M /\ msgArray \in [Slot -> M] /\ qFirst \in Slot /\ qLast \in Slot
  BY DEF TypeOK, Messages
<1> HIDE DEF M, msg
<1>4. Contents' = Append(Contents, msg)
  <2>1. RingContents([msgArray EXCEPT ![qLast] = msg], qFirst, Advance(qLast))
          = Append(RingContents(msgArray, qFirst, qLast), msg)
    <3>1. \A arr \in [Slot -> M], f \in Slot, l \in Slot, x \in M :
             ~RingFull(f, l) => RingContents([arr EXCEPT ![l] = x], f, Advance(l))
                                  = Append(RingContents(arr, f, l), x)
      BY RingAppend
    <3> QED BY <1>1, <1>3, <3>1
  <2> QED BY <1>2, <2>1 DEF Contents, msg
<1>5. Len(Contents) < Capacity
  <2>1. Len(Contents) = RingLen(qFirst, qLast)
    BY <1>3, RingContentsLen DEF Contents
  <2>2. RingLen(qFirst, qLast) \in 0 .. Capacity /\ RingLen(qFirst, qLast) # Capacity
    BY <1>1, <1>3, RingLenFacts
  <2> QED BY <2>1, <2>2, RingAssumption DEF Capacity
<1> QED BY <1>2, <1>4, <1>5 DEF BQ!Put, msg

LEMMA RefineRemove ==
  ASSUME TypeOK, NEW c \in Consumers, QueueRemove(c), Moves(c)
  PROVE  BQ!Get(c)
<1>1. ~RingEmpty(qFirst, qLast)
  BY QueueTimedAssumption DEF Moves, Blocked
<1>2. /\ msgArray' = msgArray /\ qFirst' = Advance(qFirst) /\ qLast' = qLast
      /\ got' = [got EXCEPT ![c] = Append(@, msgArray[qFirst])] /\ sent' = sent
  BY DEF QueueRemove
<1> DEFINE M == Messages \cup {NoMsg}
<1>3. msgArray \in [Slot -> M] /\ qFirst \in Slot /\ qLast \in Slot
  BY DEF TypeOK
<1> HIDE DEF M
<1>4. /\ Contents # <<>>
      /\ Head(Contents) = msgArray[qFirst]
      /\ Contents' = Tail(Contents)
  BY <1>1, <1>2, <1>3, RingTail DEF Contents
<1> QED BY <1>2, <1>4 DEF BQ!Get

LEMMA RefineStep == TypeOK /\ [Next]_vars => [BQ!Next]_(BQ!bqVars)
<1> SUFFICES ASSUME TypeOK, [Next]_vars
             PROVE  BQ!Next \/ UNCHANGED BQ!bqVars
  OBVIOUS
<1>0. ASSUME UNCHANGED <<msgArray, qFirst, qLast, sent, got>>
      PROVE  UNCHANGED BQ!bqVars
  BY <1>0 DEF BQ!bqVars, Contents
<1>1. ASSUME NEW t \in Threads, Call(t)
      PROVE  UNCHANGED BQ!bqVars
  BY <1>0, <1>1
  DEF Call, Lock, LeaveLoop, Release, StartWait, TimeOut, SignalAndReturn, ring, history
<1>2. ASSUME NEW p \in Producers, QueueInsert(p)
      PROVE  BQ!Next \/ UNCHANGED BQ!bqVars
  <2>1. CASE Moves(p)
    BY <1>2, <2>1, RefineInsert DEF BQ!Next
  <2>2. CASE ~Moves(p)
    BY <1>0, <1>2, <2>2 DEF QueueInsert
  <2> QED BY <2>1, <2>2
<1>3. ASSUME NEW c \in Consumers, QueueRemove(c)
      PROVE  BQ!Next \/ UNCHANGED BQ!bqVars
  <2>1. CASE Moves(c)
    BY <1>3, <2>1, RefineRemove DEF BQ!Next
  <2>2. CASE ~Moves(c)
    BY <1>0, <1>3, <2>2 DEF QueueRemove
  <2> QED BY <2>1, <2>2
<1>4. CASE QueueDestroy \/ UNCHANGED vars
  BY <1>0, <1>4 DEF QueueDestroy, vars, ring, history
<1> QED
  BY <1>1, <1>2, <1>3, <1>4 DEF Next, Exited

\* The builds that wait with a time limit are bounded FIFO queues too: a
\* timeout between the release of the guard and the wait loses no message.
THEOREM ImplementsBoundedFIFO == Spec => BoundedFIFO
BY RefineInit, RefineStep, TypeCorrect, PTL DEF Spec, BoundedFIFO, BQ!Spec

-----------------------------------------------------------------------------
(* Nobody is left waiting for nothing, in the build that waits without a   *)
(* limit.  The invariant has three parts.  Without a limit no wait ever    *)
(* counts as time spent, so a thread moves only what it finds room or a    *)
(* message for.  Then what a thread away from the guard may still rely on: *)
(* the consumer, that it has been or is about to be signaled when the ring *)
(* is not empty; the producers, that one of them is on its way to the ring *)
(* or will be let there when the ring is empty.  Last, the accounts: every *)
(* message a producer has sent is in the ring or was received.             *)

\* One thread gets, and gets as many messages as all the others put.
OneGetter ==
  /\ \E c : Consumers = {c}
  /\ Puts > 0 /\ Gets > 0
  /\ Cardinality(Producers) * Puts <= Gets

Unlimited ==
  /\ \A t \in Threads : waits[t] = 0
  /\ \A t \in Threads : pc[t] = "move" => ~Blocked(t)

Heading == {"lock", "test", "move"}
Away == {"gap", "wait"}

GetterSignaled ==
  \A c \in Consumers : pc[c] \in Away /\ ~RingEmpty(qFirst, qLast) =>
    \/ pc[c] = "gap" /\ "qNe" \in signaled
    \/ \E p \in Producers : pc[p] = "signal"

PutterSignaled ==
  RingEmpty(qFirst, qLast) /\ (\E p \in Producers : pc[p] \in Away) =>
    \/ \E c \in Consumers : pc[c] = "signal"
    \/ "qNf" \in signaled
    \/ \E q \in Producers : pc[q] \in Heading

SignalUnused == "qNf" \in signaled => \A p \in Producers : pc[p] # "wait"

CallsMove ==
  \A t \in Threads :
    /\ Moved(t) = calls[t] + (IF pc[t] = "signal" THEN 1 ELSE 0)
    /\ IF pc[t] = "done" THEN calls[t] = Quota(t) ELSE calls[t] < Quota(t)

Sent == {m \in Producers \X (0 .. Puts - 1) : m[2] < sent[m[1]]}

Conserved ==
  \A c \in Consumers : Cardinality(Sent) = RingLen(qFirst, qLast) + Len(got[c])

Signals == GetterSignaled /\ PutterSignaled /\ SignalUnused
StrandInv == ~WaitEnds => Unlimited /\ Signals /\ CallsMove /\ Conserved

\* Whatever the step, the build is the one the program was built with.
LEMMA BuildStays ==
  ASSUME [Next]_vars
  PROVE  build' = build /\ (WaitEnds' <=> WaitEnds)
<1>1. build' = build
  BY DEF Next, Call, Lock, LeaveLoop, Release, StartWait, TimeOut, SignalAndReturn, QueueInsert,
         QueueRemove, QueueDestroy, Exited, vars
<1> QED BY <1>1 DEF WaitEnds, Variant, MaxWait

\* A call with no limit has never timed out, whatever ended its waits.
LEMMA NeverTimedOut ==
  ASSUME ~WaitEnds, Unlimited, NEW t \in Threads
  PROVE  /\ Variant = "CS_Sig" /\ ~TimedOut(t) /\ WaitsAfter(t, FALSE) = 0
         /\ Moves(t) <=> ~Blocked(t)
<1>1. Variant = "CS_Sig" /\ waits[t] = 0
  BY DEF WaitEnds, Unlimited
<1>2. ~TimedOut(t) /\ WaitsAfter(t, FALSE) = 0
  BY <1>1 DEF TimedOut, WaitsAfter
<1> QED BY <1>1, <1>2 DEF Moves

\* What SetEvent does to the threads that wait: it lets one of them through,
\* or leaves the event signaled when there is none.
LEMMA SignalFacts ==
  ASSUME Safe, ~WaitEnds, Unlimited, NEW t \in Threads, SignalAndReturn(t)
  PROVE  /\ pc[t] = "signal"
         /\ pc'[t] = IF calls[t] + 1 < Quota(t) THEN "lock" ELSE "done"
         /\ calls' = [calls EXCEPT ![t] = @ + 1]
         /\ \A u \in Threads : waits'[u] = 0
         /\ qFirst' = qFirst /\ qLast' = qLast /\ sent' = sent /\ got' = got
         /\ \/ /\ Waiters(Announced(t)) = {}
               /\ signaled' = signaled \cup {Announced(t)}
               /\ \A u \in Threads \ {t} : pc'[u] = pc[u]
            \/ /\ signaled' = signaled
               /\ \E w \in Waiters(Announced(t)) :
                    /\ w # t /\ pc'[w] = "lock"
                    /\ \A u \in Threads \ {t, w} : pc'[u] = pc[u]
<1>0. PICK woken \in IF Variant = "noSOAW" THEN PulseEvent(Announced(t)) ELSE SetEvent(Announced(t)) :
        /\ signaled' = IF Variant # "noSOAW" /\ woken = {} THEN signaled \cup {Announced(t)} ELSE signaled
        /\ pc' = [u \in Threads |->
                    IF u = t THEN IF calls[t] + 1 < Quota(t) THEN "lock" ELSE "done"
                    ELSE IF u \in woken \cap Waiters(Announced(t)) THEN "lock" ELSE pc[u]]
        /\ waits' = [u \in Threads |->
                       IF u = t THEN 0
                       ELSE IF u \in woken \cap Waiters(Announced(t)) THEN WaitsAfter(u, FALSE)
                       ELSE waits[u]]
  BY DEF SignalAndReturn
<1>1. Variant = "CS_Sig" /\ \A u \in Threads : waits[u] = 0 /\ WaitsAfter(u, FALSE) = 0
  BY NeverTimedOut DEF Unlimited
<1>2. woken \in SetEvent(Announced(t))
  BY <1>0, <1>1
<1>3. pc[t] = "signal" /\ t \notin Waiters(Announced(t))
  BY DEF SignalAndReturn, Waiters
<1>4. /\ pc'[t] = IF calls[t] + 1 < Quota(t) THEN "lock" ELSE "done"
      /\ \A u \in Threads : waits'[u] = 0
  BY <1>0, <1>1
<1>5. CASE Waiters(Announced(t)) = {}
  <2>1. woken = {}
    BY <1>2, <1>5 DEF SetEvent
  <2>2. signaled' = signaled \cup {Announced(t)} /\ \A u \in Threads \ {t} : pc'[u] = pc[u]
    BY <1>0, <1>1, <2>1
  <2> QED BY <1>3, <1>4, <1>5, <2>2 DEF SignalAndReturn, ring, history
<1>6. CASE Waiters(Announced(t)) # {}
  <2>1. PICK w \in Waiters(Announced(t)) : woken = {w}
    BY <1>2, <1>6 DEF SetEvent
  <2>2. w \in Threads /\ w # t
    BY <1>3 DEF Waiters
  <2>3. signaled' = signaled /\ pc'[w] = "lock" /\ \A u \in Threads \ {t, w} : pc'[u] = pc[u]
    BY <1>0, <2>1, <2>2
  <2> QED BY <1>3, <1>4, <2>1, <2>2, <2>3 DEF SignalAndReturn, ring, history
<1> QED BY <1>5, <1>6

\* The ring changes only under the guard, so a thread that has left the loop
\* to move a message can still do it.
LEMMA UnlimitedStep ==
  ASSUME Safe, ~WaitEnds, Unlimited, [Next]_vars
  PROVE  Unlimited'
<1>0. /\ pc \in [Threads -> Labels] /\ waits \in [Threads -> Nat]
      /\ \A t \in Threads : waits[t] = 0 /\ (pc[t] = "move" => ~Blocked(t))
  BY DEF Safe, TypeOK, Unlimited
<1>1. ASSUME NEW t \in Threads, Lock(t) \/ LeaveLoop(t) \/ Release(t)
      PROVE  Unlimited'
  <2>1. waits' = waits /\ qFirst' = qFirst /\ qLast' = qLast
    BY <1>1 DEF Lock, LeaveLoop, Release, ring
  <2>2. \A u \in Threads : pc'[u] = "move" => pc[u] = "move" \/ ~Blocked(u)
    BY <1>0, <1>1, NeverTimedOut DEF Lock, LeaveLoop, Release
  <2> QED BY <1>0, <2>1, <2>2 DEF Unlimited, Blocked
<1>2. ASSUME NEW t \in Threads, StartWait(t)
      PROVE  Unlimited'
  <2>1. qFirst' = qFirst /\ qLast' = qLast /\ \A u \in Threads : pc'[u] = "move" => pc[u] = "move"
    BY <1>0, <1>2 DEF StartWait, ring
  <2>2. \A u \in Threads : waits'[u] = 0
    BY <1>0, <1>2, NeverTimedOut DEF StartWait
  <2> QED BY <1>0, <2>1, <2>2 DEF Unlimited, Blocked
<1>3. ASSUME NEW t \in Threads, QueueInsert(t) \/ QueueRemove(t)
      PROVE  Unlimited'
  <2>1. waits' = waits /\ pc[t] = "move" /\ pc'[t] = "signal"
    BY <1>0, <1>3 DEF QueueInsert, QueueRemove
  <2>2. \A u \in Threads : pc'[u] # "move"
    <3>1. \A u \in Threads \ {t} : pc'[u] = pc[u]
      BY <1>0, <1>3 DEF QueueInsert, QueueRemove
    <3>2. \A u \in Threads \ {t} : pc[u] # "move"
      BY <2>1 DEF Safe, GuardOwner, Inside
    <3> QED BY <2>1, <3>1, <3>2
  <2> QED BY <1>0, <2>1, <2>2 DEF Unlimited
<1>4. ASSUME NEW t \in Threads, SignalAndReturn(t)
      PROVE  Unlimited'
  <2>1. \A u \in Threads : pc'[u] = "move" => pc[u] = "move"
    BY <1>4, SignalFacts
  <2> QED BY <1>0, <1>4, <2>1, SignalFacts DEF Unlimited, Blocked
<1>5. CASE QueueDestroy \/ UNCHANGED vars
  BY <1>0, <1>5 DEF Unlimited, Blocked, QueueDestroy, vars, ring
<1>6. ASSUME NEW t \in Threads, TimeOut(t)
      PROVE  FALSE
  BY <1>6 DEF TimeOut
<1>7. \A t : (t \in Producers \/ t \in Consumers) => t \in Threads
  BY DEF Threads
<1> QED
  BY <1>1, <1>2, <1>3, <1>4, <1>5, <1>6, <1>7 DEF Next, Call, Exited

\* Calls and messages: a call that is not limited moves its one message.
LEMMA CallsMoveStep ==
  ASSUME Safe, ~WaitEnds, Unlimited, CallsMove, [Next]_vars
  PROVE  CallsMove'
<1>0. /\ pc \in [Threads -> Labels] /\ calls \in [Threads -> Nat]
      /\ sent \in [Producers -> Nat] /\ got \in [Consumers -> Seq(Messages \cup {NoMsg})]
  BY DEF Safe, TypeOK
<1>1. ASSUME NEW t \in Threads,
             Lock(t) \/ LeaveLoop(t) \/ Release(t) \/ StartWait(t) \/ QueueDestroy \/ UNCHANGED vars
      PROVE  CallsMove'
  <2>1. calls' = calls /\ sent' = sent /\ got' = got
    BY <1>1 DEF Lock, LeaveLoop, Release, StartWait, QueueDestroy, vars, history
  <2>2. \A u \in Threads : /\ pc'[u] = "signal" <=> pc[u] = "signal"
                           /\ pc'[u] = "done" <=> pc[u] = "done"
    BY <1>0, <1>1 DEF Lock, LeaveLoop, Release, StartWait, QueueDestroy, vars
  <2> QED BY <2>1, <2>2 DEF CallsMove, Moved, Quota
<1>2. ASSUME NEW p \in Producers, QueueInsert(p)
      PROVE  CallsMove'
  <2>1. p \in Threads /\ pc[p] = "move" /\ pc' = [pc EXCEPT ![p] = "signal"]
        /\ calls' = calls /\ got' = got
    BY <1>2 DEF QueueInsert, Threads
  <2>2. sent' = [sent EXCEPT ![p] = @ + 1]
    BY <1>2, <2>1, NeverTimedOut DEF QueueInsert, Unlimited
  <2>3. ASSUME NEW u \in Threads, u # p
        PROVE  Moved(u)' = Moved(u) /\ pc'[u] = pc[u]
    BY <1>0, <2>1, <2>2, <2>3 DEF Moved
  <2>4. Moved(p)' = Moved(p) + 1 /\ pc'[p] = "signal" /\ Moved(p) = calls[p] /\ calls[p] \in Nat
    BY <1>0, <2>1, <2>2 DEF Moved, CallsMove
  <2> QED BY <2>1, <2>3, <2>4 DEF CallsMove, Quota
<1>3. ASSUME NEW c \in Consumers, QueueRemove(c)
      PROVE  CallsMove'
  <2>1. c \in Threads /\ c \notin Producers /\ pc[c] = "move" /\ pc' = [pc EXCEPT ![c] = "signal"]
        /\ calls' = calls /\ sent' = sent
    BY <1>3, QueueTimedAssumption DEF QueueRemove, Threads
  <2>2. got' = [got EXCEPT ![c] = Append(@, msgArray[qFirst])]
    BY <1>3, <2>1, NeverTimedOut DEF QueueRemove, Unlimited
  <2>3. ASSUME NEW u \in Threads, u # c
        PROVE  Moved(u)' = Moved(u) /\ pc'[u] = pc[u]
    BY <1>0, <2>1, <2>2, <2>3 DEF Moved, Threads
  <2>4. got[c] \in Seq(Messages \cup {NoMsg}) /\ msgArray[qFirst] \in Messages \cup {NoMsg}
    BY <1>0 DEF Safe, TypeOK
  <2>5. Len(got'[c]) = Len(got[c]) + 1
    BY <1>0, <2>2, <2>4
  <2>6. Moved(c)' = Moved(c) + 1 /\ pc'[c] = "signal" /\ Moved(c) = calls[c] /\ calls[c] \in Nat
    BY <1>0, <2>1, <2>5 DEF Moved, CallsMove
  <2> QED BY <2>1, <2>3, <2>6 DEF CallsMove, Quota
<1>4. ASSUME NEW t \in Threads, SignalAndReturn(t)
      PROVE  CallsMove'
  <2>1. ASSUME NEW u \in Threads
        PROVE  /\ Moved(u)' = Moved(u) /\ Quota(u)' = Quota(u)
               /\ u # t => (pc'[u] = pc[u] \/ (pc[u] = "wait" /\ pc'[u] = "lock")) /\ calls'[u] = calls[u]
    BY <1>0, <1>4, SignalFacts DEF Moved, Quota, Waiters
  <2>2. calls'[t] = calls[t] + 1 /\ calls[t] \in Nat /\ calls[t] < Quota(t) /\ Quota(t) \in Nat
        /\ Moved(t) = calls[t] + 1
    BY <1>0, <1>4, SignalFacts, QueueTimedAssumption DEF CallsMove, Quota
  <2>3. /\ Moved(t)' = calls'[t] + (IF pc'[t] = "signal" THEN 1 ELSE 0)
        /\ IF pc'[t] = "done" THEN calls'[t] = Quota(t) ELSE calls'[t] < Quota(t)
    BY <1>4, <2>1, <2>2, SignalFacts
  <2> QED BY <2>1, <2>3 DEF CallsMove
<1>5. ASSUME NEW t \in Threads, TimeOut(t)
      PROVE  FALSE
  BY <1>5 DEF TimeOut
<1>6. CASE Threads = {} /\ (QueueDestroy \/ UNCHANGED vars)
  BY <1>6 DEF CallsMove
<1> QED
  BY <1>1, <1>2, <1>3, <1>4, <1>5, <1>6 DEF Next, Call, Exited

\* The getter: whenever it finds the ring empty and lets go of the guard, the
\* producer that ends the emptiness signals it, in the wait or on its way
\* there.
LEMMA GetterSignaledStep ==
  ASSUME Safe, ~WaitEnds, Unlimited, GetterSignaled, OneGetter, [Next]_vars
  PROVE  GetterSignaled'
<1>0. PICK c : Consumers = {c}
  BY DEF OneGetter
<1>00. /\ pc \in [Threads -> Labels] /\ c \in Threads /\ c \notin Producers /\ Awaited(c) = "qNe"
       /\ \A u \in Threads : u \in Producers \/ u = c
       /\ \A p \in Producers : p \in Threads /\ Awaited(p) = "qNf" /\ Announced(p) = "qNe"
  BY <1>0, QueueTimedAssumption DEF Safe, TypeOK, Threads, Awaited, Announced
<1> DEFINE Told == (pc[c] = "gap" /\ "qNe" \in signaled) \/ \E p \in Producers : pc[p] = "signal"
           Goal == pc'[c] \in Away /\ ~RingEmpty(qFirst', qLast') => Told'
<1>g. Goal => GetterSignaled'
  BY <1>0 DEF GetterSignaled
<1>h. pc[c] \in Away /\ ~RingEmpty(qFirst, qLast) => Told
  BY <1>0 DEF GetterSignaled
<1>1. ASSUME NEW t \in Threads, Lock(t) \/ LeaveLoop(t) \/ Release(t)
      PROVE  Goal
  <2>1. signaled' = signaled /\ qFirst' = qFirst /\ qLast' = qLast
    BY <1>1 DEF Lock, LeaveLoop, Release, ring
  <2>2. \A p \in Producers : pc[p] = "signal" => pc'[p] = "signal"
    BY <1>00, <1>1 DEF Lock, LeaveLoop, Release
  <2>3. pc'[c] \in Away => pc'[c] = pc[c] \/ Blocked(c)
    BY <1>00, <1>1 DEF Lock, LeaveLoop, Release, Away
  <2>4. Blocked(c) => RingEmpty(qFirst, qLast)
    BY <1>00 DEF Blocked
  <2> QED BY <1>h, <2>1, <2>2, <2>3, <2>4
<1>2. ASSUME NEW t \in Threads, StartWait(t)
      PROVE  Goal
  <2>1. qFirst' = qFirst /\ qLast' = qLast
    BY <1>2 DEF StartWait, ring
  <2>2. \A p \in Producers : pc[p] = "signal" => pc'[p] = "signal"
    BY <1>00, <1>2 DEF StartWait
  <2>3. CASE t = c
    BY <1>h, <1>00, <1>2, <2>1, <2>2, <2>3 DEF StartWait, Away
  <2>4. CASE t # c
    <3>1. pc'[c] = pc[c] /\ ("qNe" \in signaled => "qNe" \in signaled')
      BY <1>00, <1>2, <2>4 DEF StartWait
    <3> QED BY <1>h, <2>1, <2>2, <3>1
  <2> QED BY <2>3, <2>4
<1>3. ASSUME NEW p \in Producers, QueueInsert(p)
      PROVE  Goal
  BY <1>00, <1>3 DEF QueueInsert
<1>4. ASSUME QueueRemove(c)
      PROVE  Goal
  BY <1>00, <1>4 DEF QueueRemove, Away
<1>5. ASSUME NEW p \in Producers, SignalAndReturn(p)
      PROVE  Goal
  <2>1. CASE pc[c] = "wait"
    <3>1. c \in Waiters("qNe") /\ \A u \in Waiters("qNe") : u = c
      BY <1>00, <2>1 DEF Waiters
    <3>2. pc'[c] = "lock"
      BY <1>00, <1>5, <3>1, SignalFacts
    <3> QED BY <3>2 DEF Away
  <2>2. CASE pc[c] # "wait"
    <3>1. Waiters("qNe") = {}
      BY <1>00, <2>2 DEF Waiters
    <3>2. signaled' = signaled \cup {"qNe"} /\ (c # p => pc'[c] = pc[c])
      BY <1>00, <1>5, <3>1, SignalFacts
    <3> QED BY <1>00, <2>2, <3>2 DEF Away
  <2> QED BY <2>1, <2>2
<1>6. ASSUME SignalAndReturn(c)
      PROVE  Goal
  BY <1>00, <1>6, SignalFacts DEF Away
<1>7. CASE QueueDestroy \/ UNCHANGED vars
  <2>1. pc' = pc /\ signaled' = signaled /\ qFirst' = qFirst /\ qLast' = qLast
    BY <1>7 DEF QueueDestroy, vars, ring
  <2>2. Goal
    BY <1>h, <2>1
  <2> QED BY <1>g, <2>2
<1>8. ASSUME NEW t \in Threads, TimeOut(t)
      PROVE  FALSE
  BY <1>8 DEF TimeOut
<1> HIDE DEF Goal
<1>9. ASSUME NEW t \in Threads, SignalAndReturn(t)
      PROVE  Goal
  BY <1>00, <1>5, <1>6, <1>9
<1>10. ASSUME NEW d \in Consumers, QueueRemove(d)
       PROVE  Goal
  BY <1>0, <1>4, <1>10
<1> QED
  BY <1>g, <1>1, <1>2, <1>3, <1>7, <1>8, <1>9, <1>10 DEF Next, Call, Exited

\* The producers: a producer waits only while there is no room, and the getter
\* that makes room signals one of them, which is then on its way to the ring or
\* finds the event signaled when it comes to wait.
LEMMA PutterSignaledStep ==
  ASSUME Safe, ~WaitEnds, Unlimited, PutterSignaled, SignalUnused, OneGetter, [Next]_vars
  PROVE  PutterSignaled' /\ SignalUnused'
<1>0. PICK c : Consumers = {c}
  BY DEF OneGetter
<1>00. /\ pc \in [Threads -> Labels] /\ c \in Threads /\ c \notin Producers
       /\ Awaited(c) = "qNe" /\ Announced(c) = "qNf"
       /\ \A u \in Threads : u \in Producers \/ u = c
       /\ \A p \in Producers : p \in Threads /\ Awaited(p) = "qNf" /\ Announced(p) = "qNe"
  BY <1>0, QueueTimedAssumption DEF Safe, TypeOK, Threads, Awaited, Announced
<1>000. qFirst \in Slot /\ qLast \in Slot
  BY DEF Safe, TypeOK
<1> DEFINE Told == \/ pc[c] = "signal"
                   \/ "qNf" \in signaled
                   \/ \E q \in Producers : pc[q] \in Heading
           Goal == RingEmpty(qFirst', qLast') /\ (\E p \in Producers : pc'[p] \in Away) => Told'
           Unused == "qNf" \in signaled' => \A p \in Producers : pc'[p] # "wait"
<1>g. Goal /\ Unused => PutterSignaled' /\ SignalUnused'
  BY <1>0 DEF PutterSignaled, SignalUnused
<1>h. RingEmpty(qFirst, qLast) /\ (\E p \in Producers : pc[p] \in Away) => Told
  BY <1>0 DEF PutterSignaled
<1>e. \A p \in Producers : Blocked(p) => ~RingEmpty(qFirst, qLast)
  BY <1>000, RingLenFacts, RingAssumption DEF Blocked, Capacity
<1>1. ASSUME NEW t \in Threads, Lock(t) \/ LeaveLoop(t) \/ Release(t)
      PROVE  Goal /\ Unused
  <2>1. signaled' = signaled /\ qFirst' = qFirst /\ qLast' = qLast
    BY <1>1 DEF Lock, LeaveLoop, Release, ring
  <2>2. \A u \in Threads : pc'[u] = "wait" => pc[u] = "wait"
    BY <1>00, <1>1 DEF Lock, LeaveLoop, Release
  <2>3. \A p \in Producers : pc'[p] \in Away => pc[p] \in Away \/ Blocked(p)
    BY <1>00, <1>1 DEF Lock, LeaveLoop, Release, Away
  <2>4. \A p \in Producers : pc[p] \in Heading => pc'[p] \in Heading \/ Blocked(p)
    BY <1>00, <1>1 DEF Lock, LeaveLoop, Release, Heading
  <2>5. pc[c] = "signal" => pc'[c] = "signal"
    BY <1>00, <1>1 DEF Lock, LeaveLoop, Release
  <2>6. Unused
    BY <1>00, <2>1, <2>2 DEF SignalUnused
  <2>7. Goal
    BY <1>h, <1>e, <2>1, <2>3, <2>4, <2>5
  <2> QED BY <2>6, <2>7
<1>2. ASSUME NEW t \in Threads, StartWait(t)
      PROVE  Goal /\ Unused
  <2>1. qFirst' = qFirst /\ qLast' = qLast /\ pc[t] = "gap"
    BY <1>2 DEF StartWait, ring
  <2>2. \A u \in Threads \ {t} : pc'[u] = pc[u]
    BY <1>00, <1>2 DEF StartWait
  <2>3. CASE Awaited(t) \in signaled
    <3>1. signaled' = signaled \ {Awaited(t)} /\ pc'[t] = "lock"
      BY <1>00, <1>2, <2>3 DEF StartWait
    <3>2. CASE t = c
      <4>1. "qNf" \in signaled' <=> "qNf" \in signaled
        BY <1>00, <3>1, <3>2
      <4>2. \A p \in Producers : pc'[p] = pc[p]
        BY <1>00, <2>2, <3>2
      <4> QED BY <1>h, <1>00, <2>1, <3>2, <4>1, <4>2 DEF SignalUnused
    <3>3. CASE t # c
      <4>1. t \in Producers /\ pc'[t] \in Heading /\ "qNf" \notin signaled'
        BY <1>00, <3>1, <3>3 DEF Heading
      <4> QED BY <4>1
    <3> QED BY <3>2, <3>3
  <2>4. CASE Awaited(t) \notin signaled
    <3>1. signaled' = signaled /\ pc'[t] = "wait"
      BY <1>00, <1>2, <2>4 DEF StartWait
    <3>2. \A p \in Producers : /\ pc'[p] \in Away <=> pc[p] \in Away
                               /\ pc'[p] \in Heading <=> pc[p] \in Heading
      BY <1>00, <2>1, <2>2, <3>1 DEF Away, Heading
    <3>3. pc'[c] = "signal" <=> pc[c] = "signal"
      BY <1>00, <2>1, <2>2, <3>1
    <3>4. Goal
      BY <1>h, <2>1, <3>1, <3>2, <3>3
    <3>5. Unused
      BY <1>00, <2>2, <2>4, <3>1 DEF SignalUnused
    <3> QED BY <3>4, <3>5
  <2> QED BY <2>3, <2>4
<1>3. ASSUME NEW p \in Producers, QueueInsert(p)
      PROVE  Goal /\ Unused
  <2>1. ~Blocked(p) /\ qFirst' = qFirst /\ qLast' = Advance(qLast)
    BY <1>00, <1>3, NeverTimedOut DEF QueueInsert, Unlimited
  <2>2. RingLen(qFirst, Advance(qLast)) = RingLen(qFirst, qLast) + 1 /\ Advance(qLast) \in Slot
    BY <1>000, <2>1, RingLenStep, AdvanceWraps DEF Blocked
  <2>3. ~RingEmpty(qFirst', qLast')
    BY <1>000, <2>1, <2>2, RingLenFacts
  <2>4. signaled' = signaled /\ \A q \in Producers : pc'[q] = "wait" => pc[q] = "wait"
    BY <1>00, <1>3 DEF QueueInsert
  <2> QED BY <2>3, <2>4 DEF SignalUnused
<1>4. ASSUME QueueRemove(c)
      PROVE  Goal /\ Unused
  <2>1. pc'[c] = "signal" /\ signaled' = signaled /\ \A p \in Producers : pc'[p] = pc[p]
    BY <1>00, <1>4 DEF QueueRemove
  <2> QED BY <2>1 DEF SignalUnused
<1>5. ASSUME NEW p \in Producers, SignalAndReturn(p)
      PROVE  Goal /\ Unused
  <2>1. /\ qFirst' = qFirst /\ qLast' = qLast /\ pc[p] = "signal" /\ pc'[p] \in {"lock", "done"}
        /\ "qNf" \in signaled' <=> "qNf" \in signaled
    BY <1>00, <1>5, SignalFacts
  <2>2. \A w \in Waiters("qNe") : w = c /\ pc[c] = "wait"
    BY <1>00 DEF Waiters
  <2>3. \A q \in Producers : q # p => pc'[q] = pc[q]
    BY <1>00, <1>5, <2>2, SignalFacts
  <2>4. pc[c] = "signal" => pc'[c] = "signal"
    BY <1>00, <1>5, <2>2, SignalFacts
  <2>5. Unused
    BY <2>1, <2>3 DEF SignalUnused
  <2>6. Goal
    BY <1>h, <2>1, <2>3, <2>4 DEF Away, Heading
  <2> QED BY <2>5, <2>6
<1>6. ASSUME SignalAndReturn(c)
      PROVE  Goal /\ Unused
  <2>1. CASE Waiters("qNf") = {}
    <3>1. "qNf" \in signaled' /\ \A p \in Producers : pc'[p] = pc[p] /\ pc[p] # "wait"
      BY <1>00, <1>6, <2>1, SignalFacts DEF Waiters
    <3> QED BY <3>1
  <2>2. CASE Waiters("qNf") # {}
    <3>1. PICK w \in Waiters("qNf") : pc'[w] = "lock"
      BY <1>00, <1>6, <2>2, SignalFacts
    <3>2. w \in Producers /\ pc[w] = "wait" /\ pc'[w] \in Heading
      BY <1>00, <3>1 DEF Waiters, Heading
    <3>3. signaled' = signaled
      BY <1>00, <1>6, <2>2, SignalFacts
    <3>4. "qNf" \notin signaled'
      BY <3>2, <3>3 DEF SignalUnused
    <3> QED BY <3>2, <3>4
  <2> QED BY <2>1, <2>2
<1>7. CASE QueueDestroy \/ UNCHANGED vars
  <2>1. pc' = pc /\ signaled' = signaled /\ qFirst' = qFirst /\ qLast' = qLast
    BY <1>7 DEF QueueDestroy, vars, ring
  <2>2. Goal
    BY <1>h, <2>1
  <2>3. Unused
    BY <2>1 DEF SignalUnused
  <2> QED BY <1>g, <2>2, <2>3
<1>8. ASSUME NEW t \in Threads, TimeOut(t)
      PROVE  FALSE
  BY <1>8 DEF TimeOut
<1> HIDE DEF Goal, Unused
<1>9. ASSUME NEW t \in Threads, SignalAndReturn(t)
      PROVE  Goal /\ Unused
  BY <1>00, <1>5, <1>6, <1>9
<1>10. ASSUME NEW d \in Consumers, QueueRemove(d)
       PROVE  Goal /\ Unused
  BY <1>0, <1>4, <1>10
<1> QED
  BY <1>g, <1>1, <1>2, <1>3, <1>7, <1>8, <1>9, <1>10 DEF Next, Call, Exited

\* The messages the producers can send at all, and those they have sent.
LEMMA SentFinite ==
  ASSUME Safe
  PROVE  /\ IsFiniteSet(Producers) /\ IsFiniteSet(Sent)
         /\ IsFiniteSet(Producers \X (0 .. Puts - 1))
         /\ Cardinality(Producers \X (0 .. Puts - 1)) = Cardinality(Producers) * Puts
<1>1. IsFiniteSet(Producers)
  <2>1. Producers \in SUBSET Threads
    BY DEF Threads
  <2> QED BY <2>1, FS_Subset, QueueTimedAssumption
<1>2. IsFiniteSet(0 .. Puts - 1) /\ Cardinality(0 .. Puts - 1) = Puts
  BY FS_Interval, QueueTimedAssumption
<1>3. /\ IsFiniteSet(Producers \X (0 .. Puts - 1))
      /\ Cardinality(Producers \X (0 .. Puts - 1)) = Cardinality(Producers) * Puts
  BY <1>1, <1>2, FS_Product
<1>4. Sent \in SUBSET (Producers \X (0 .. Puts - 1))
  BY DEF Sent
<1> QED BY <1>1, <1>3, <1>4, FS_Subset

\* A message leaves the accounts nowhere: QueueInsert adds it to those sent and
\* to the ring, QueueRemove takes it from the ring to those received.
LEMMA ConservedStep ==
  ASSUME Safe, ~WaitEnds, Unlimited, CallsMove, Conserved, OneGetter, [Next]_vars
  PROVE  Conserved'
<1>0. PICK c : Consumers = {c}
  BY DEF OneGetter
<1>00. /\ c \in Threads /\ c \notin Producers /\ c \in Consumers /\ \A p \in Producers : p \in Threads
       /\ sent \in [Producers -> Nat] /\ got \in [Consumers -> Seq(Messages \cup {NoMsg})]
       /\ qFirst \in Slot /\ qLast \in Slot
  BY <1>0, QueueTimedAssumption DEF Safe, TypeOK, Threads
<1>000. /\ IsFiniteSet(Sent) /\ Cardinality(Sent) \in Nat /\ Len(got[c]) \in Nat
        /\ RingLen(qFirst, qLast) \in Nat
  BY <1>00, SentFinite, FS_CardinalityType, RingLenFacts, RingAssumption DEF Capacity
<1>h. Cardinality(Sent) = RingLen(qFirst, qLast) + Len(got[c])
  BY <1>0 DEF Conserved
<1> DEFINE Goal == Cardinality(Sent') = RingLen(qFirst', qLast') + Len(got'[c])
<1>g. Goal => Conserved'
  BY <1>0 DEF Conserved
<1>1. ASSUME UNCHANGED <<qFirst, qLast, sent, got>>
      PROVE  Goal
  <2>1. Sent' = Sent
    BY <1>1 DEF Sent
  <2> QED BY <1>1, <1>h, <2>1
<1>2. ASSUME NEW p \in Producers, QueueInsert(p)
      PROVE  Goal
  <2>1. /\ pc[p] = "move" /\ ~Blocked(p) /\ sent' = [sent EXCEPT ![p] = @ + 1] /\ got' = got
        /\ qFirst' = qFirst /\ qLast' = Advance(qLast)
    BY <1>00, <1>2, NeverTimedOut DEF QueueInsert, Unlimited
  <2>2. sent[p] \in 0 .. Puts - 1
    <3>1. sent[p] = calls[p] + 0 /\ calls[p] < Puts
      BY <1>00, <2>1 DEF CallsMove, Moved, Quota
    <3>2. sent[p] \in Nat /\ calls[p] \in Nat
      BY <1>00, <2>1 DEF Safe, TypeOK
    <3> QED BY <3>1, <3>2, QueueTimedAssumption
  <2>3. <<p, sent[p]>> \notin Sent /\ Sent' = Sent \cup {<<p, sent[p]>>}
    <3>1. ASSUME NEW q \in Producers, NEW i \in 0 .. Puts - 1
          PROVE  i < sent'[q] <=> i < sent[q] \/ <<q, i>> = <<p, sent[p]>>
      BY <1>00, <2>1
    <3>2. \A m \in Producers \X (0 .. Puts - 1) : m[2] < sent'[m[1]] <=> m[2] < sent[m[1]] \/ m = <<p, sent[p]>>
      BY <3>1
    <3> QED BY <2>2, <3>2, <1>00 DEF Sent
  <2>4. Cardinality(Sent') = Cardinality(Sent) + 1
    BY <1>000, <2>3, FS_AddElement
  <2>5. RingLen(qFirst', qLast') = RingLen(qFirst, qLast) + 1
    BY <1>00, <2>1, RingLenStep DEF Blocked
  <2> QED BY <1>000, <1>h, <2>1, <2>4, <2>5
<1>3. ASSUME QueueRemove(c)
      PROVE  Goal
  <2>1. /\ ~Blocked(c) /\ got' = [got EXCEPT ![c] = Append(@, msgArray[qFirst])] /\ sent' = sent
        /\ qFirst' = Advance(qFirst) /\ qLast' = qLast
    BY <1>00, <1>3, NeverTimedOut DEF QueueRemove, Unlimited
  <2>2. got[c] \in Seq(Messages \cup {NoMsg}) /\ msgArray[qFirst] \in Messages \cup {NoMsg}
    BY <1>00 DEF Safe, TypeOK
  <2>3. Len(got'[c]) = Len(got[c]) + 1
    BY <1>00, <2>1, <2>2
  <2>4. RingLen(qFirst', qLast') = RingLen(qFirst, qLast) - 1
    BY <1>00, <2>1, RingLenStep DEF Blocked
  <2>5. Sent' = Sent
    BY <2>1 DEF Sent
  <2> QED BY <1>000, <1>h, <2>3, <2>4, <2>5
<1>4. ASSUME NEW t \in Threads,
             Lock(t) \/ LeaveLoop(t) \/ Release(t) \/ StartWait(t) \/ TimeOut(t) \/ SignalAndReturn(t)
      PROVE  UNCHANGED <<qFirst, qLast, sent, got>>
  BY <1>4 DEF Lock, LeaveLoop, Release, StartWait, TimeOut, SignalAndReturn, ring, history
<1>5. CASE QueueDestroy \/ UNCHANGED vars
  <2>1. UNCHANGED <<qFirst, qLast, sent, got>>
    BY <1>5 DEF QueueDestroy, vars, ring, history
  <2> QED BY <1>1, <1>g, <2>1
<1> HIDE DEF Goal
<1>6. ASSUME NEW d \in Consumers, QueueRemove(d)
      PROVE  Goal
  BY <1>0, <1>3, <1>6
<1> QED
  BY <1>g, <1>1, <1>2, <1>4, <1>5, <1>6 DEF Next, Call, Exited

\* At the start nobody has called, sent or received anything.
LEMMA StrandInit ==
  ASSUME Init, OneGetter
  PROVE  StrandInv
<1>1. Unlimited
  BY DEF Init, Unlimited
<1>2. Signals
  BY DEF Init, Signals, GetterSignaled, PutterSignaled, SignalUnused, Away, Threads
<1>3. CallsMove
  BY QueueTimedAssumption DEF Init, CallsMove, Moved, Quota, Threads, OneGetter
<1>4. Conserved
  <2>1. Sent = {}
    BY DEF Init, Sent
  <2>2. RingLen(qFirst, qLast) = 0
    BY DEF Init, RingLen
  <2>3. \A c \in Consumers : Len(got[c]) = 0
    BY DEF Init
  <2> QED BY <2>1, <2>2, <2>3, FS_EmptySet DEF Conserved
<1> QED BY <1>1, <1>2, <1>3, <1>4 DEF StrandInv

\* The three parts together are inductive on top of types and mutual exclusion.
LEMMA StrandStep ==
  ASSUME OneGetter
  PROVE  Safe /\ StrandInv /\ [Next]_vars => StrandInv'
<1> SUFFICES ASSUME Safe, StrandInv, [Next]_vars, ~WaitEnds
             PROVE  (Unlimited /\ Signals /\ CallsMove /\ Conserved)'
  BY BuildStays DEF StrandInv
<1>1. Unlimited /\ Signals /\ CallsMove /\ Conserved
  BY DEF StrandInv
<1>2. Unlimited' /\ CallsMove' /\ Conserved'
  BY <1>1, UnlimitedStep, CallsMoveStep, ConservedStep
<1>3. Signals'
  BY <1>1, GetterSignaledStep, PutterSignaledStep DEF Signals
<1> QED BY <1>2, <1>3

\* When every thread waits or has ended: a getter that waits finds the ring
\* empty, by GetterSignaled; a producer that waits while there is room would
\* need a getter that has ended, by PutterSignaled, which is then owed a
\* message this very producer still has to send.
LEMMA StrandInvNoneStranded ==
  ASSUME OneGetter, Safe, StrandInv
  PROVE  NoneStranded
<1> SUFFICES ASSUME ~WaitEnds, \A t \in Threads : pc[t] \in {"wait", "done"},
                    NEW t \in Threads, pc[t] = "wait"
             PROVE  Blocked(t)
  BY DEF NoneStranded
<1>0. PICK c : Consumers = {c}
  BY DEF OneGetter
<1>1. /\ c \in Threads /\ c \in Consumers /\ c \notin Producers /\ \A p \in Producers : p \in Threads
      /\ \A u \in Threads : u \in Producers \/ u = c
  BY <1>0, QueueTimedAssumption DEF Threads
<1>2. Signals /\ CallsMove /\ Conserved
  BY DEF StrandInv
<1>3. pc[c] = "wait" => RingEmpty(qFirst, qLast)
  BY <1>1, <1>2 DEF Signals, GetterSignaled, Away
<1>4. CASE t = c
  BY <1>1, <1>3, <1>4 DEF Blocked
<1>5. CASE t \in Producers
  <2>1. ~RingEmpty(qFirst, qLast)
    <3>1. \A u \in Threads : pc[u] # "signal" /\ pc[u] \notin Heading
      BY DEF Heading
    <3>2. t \in Producers /\ pc[t] \in Away
      BY <1>5 DEF Away
    <3>3. "qNf" \notin signaled
      BY <1>2, <3>2 DEF Signals, SignalUnused
    <3> QED BY <1>0, <1>1, <1>2, <3>1, <3>2, <3>3 DEF Signals, PutterSignaled
  <2>2. pc[c] = "done"
    BY <1>1, <1>3, <2>1
  <2>3. calls[c] = Gets /\ Len(got[c]) = Gets
    BY <1>1, <1>2, <2>2, QueueTimedAssumption DEF CallsMove, Quota, Moved
  <2>4. Cardinality(Sent) >= Gets
    <3>1. RingLen(qFirst, qLast) \in Nat
      BY RingLenFacts, RingAssumption DEF Safe, TypeOK, Capacity
    <3>2. Cardinality(Sent) = RingLen(qFirst, qLast) + Len(got[c])
      BY <1>1, <1>2 DEF Conserved
    <3> QED BY <2>3, <3>1, <3>2, QueueTimedAssumption
  <2>5. sent[t] \in 0 .. Puts - 1
    <3>1. sent[t] = calls[t] + 0 /\ calls[t] < Puts
      BY <1>2, <1>5, <1>1 DEF CallsMove, Moved, Quota
    <3>2. sent[t] \in Nat /\ calls[t] \in Nat
      BY <1>2, <1>5, <1>1 DEF Safe, TypeOK
    <3> QED BY <3>1, <3>2, QueueTimedAssumption
  <2> DEFINE All == Producers \X (0 .. Puts - 1)
  <2>6. /\ IsFiniteSet(All) /\ Cardinality(All) <= Gets
        /\ Sent \in SUBSET All
    BY SentFinite DEF OneGetter, Sent
  <2>7. Cardinality(Sent) <= Cardinality(All) /\ (Cardinality(All) = Cardinality(Sent) => All = Sent)
    BY <2>6, FS_Subset
  <2>8. Cardinality(Sent) \in Nat /\ Cardinality(All) \in Nat
    BY <2>6, SentFinite, FS_CardinalityType
  <2>9. All = Sent
    BY <2>4, <2>6, <2>7, <2>8, QueueTimedAssumption
  <2>10. <<t, sent[t]>> \in All /\ <<t, sent[t]>> \notin Sent
    BY <1>5, <2>5 DEF Sent
  <2> QED BY <2>9, <2>10
<1> QED BY <1>1, <1>4, <1>5

\* QueueObjCS_Sig.c may wait without a limit: with one getter that gets all that
\* is put, no lost signal leaves a thread waiting for an event the queue has
\* already brought about, for any number of producers, calls and slots.
THEOREM NoneLeftStranded ==
  ASSUME OneGetter
  PROVE  Spec => []NoneStranded
<1>1. Init => StrandInv
  BY StrandInit
<1>2. Safe /\ StrandInv /\ [Next]_vars => StrandInv'
  BY StrandStep
<1>3. Safe /\ StrandInv => NoneStranded
  BY StrandInvNoneStranded
<1> QED
  BY <1>1, <1>2, <1>3, SafeInvariant, PTL DEF Spec
=============================================================================
