--------------------------- MODULE Queues_proofs ----------------------------
(***************************************************************************)
(* Proofs about queues: the queue object of chapter 10 (QueueObj), for any *)
(* number of threads, any number of calls, any size of the ring and each   *)
(* of the three models; and the pipelines of threads with queues, or with  *)
(* one message block, between them (MCPipelines).                          *)
(***************************************************************************)
EXTENDS QueueObj, QueueRing_proofs, MCPipelines

-----------------------------------------------------------------------------
(* The queue object: types and mutual exclusion.                           *)

LEMMA TypeOKInit == Init => TypeOK
<1> SUFFICES ASSUME Init
             PROVE  TypeOK
  OBVIOUS
<1>1. qFirst \in Slot /\ qLast \in Slot
  BY RingAssumption DEF Init, Slot
<1>2. pc \in [Threads -> Labels]
  BY DEF Init, Labels, FirstLabel
<1>3. got \in [Consumers -> Seq(Messages \cup {NoMsg})]
  BY DEF Init
<1> QED BY <1>1, <1>2, <1>3 DEF Init, TypeOK

LEMMA TypeOKStep == TypeOK /\ [Next]_vars => TypeOK'
<1> SUFFICES ASSUME TypeOK, [Next]_vars
             PROVE  TypeOK'
  OBVIOUS
<1> USE QueueObjAssumption DEF TypeOK, ring
<1>1. ASSUME NEW t \in Threads, Lock(t)
      PROVE  TypeOK'
  BY <1>1 DEF Lock, Labels
<1>2. ASSUME NEW t \in Threads, LeaveLoop(t)
      PROVE  TypeOK'
  BY <1>2 DEF LeaveLoop, Labels
<1>3. ASSUME NEW t \in Threads, SignalObjectAndWait(t)
      PROVE  TypeOK'
  BY <1>3 DEF SignalObjectAndWait, Labels, Events, Awaited
<1>4. ASSUME NEW t \in Threads, SignalAndReturn(t)
      PROVE  TypeOK'
  <2>1. calls' \in [Threads -> Nat]
    BY <1>4 DEF SignalAndReturn
  <2>2. signaled' \in [Events -> BOOLEAN]
    BY <1>4 DEF SignalAndReturn, Announced, Events
  <2>3. pc' \in [Threads -> Labels]
    BY <1>4 DEF SignalAndReturn, Labels
  <2> QED
    BY <1>4, <2>1, <2>2, <2>3 DEF SignalAndReturn
<1>5. ASSUME NEW p \in Producers, QueueInsert(p)
      PROVE  TypeOK'
  <2>1. p \in Threads /\ <<p, calls[p]>> \in Messages
    BY DEF Threads, Messages
  <2>2. pc' \in [Threads -> Labels]
    BY <1>5, <2>1 DEF QueueInsert, Labels
  <2>3. CASE QueueFull
    BY <1>5, <2>2, <2>3 DEF QueueInsert
  <2>4. CASE ~QueueFull
    <3>1. qLast' \in Slot
      BY <1>5, <2>4, AdvanceWraps DEF QueueInsert
    <3>2. msgArray' \in [Slot -> Messages \cup {NoMsg}]
      BY <1>5, <2>4, <2>1 DEF QueueInsert
    <3> QED
      BY <1>5, <2>4, <2>2, <3>1, <3>2 DEF QueueInsert
  <2> QED BY <2>3, <2>4
<1>6. ASSUME NEW c \in Consumers, QueueRemove(c)
      PROVE  TypeOK'
  <2>1. pc' \in [Threads -> Labels]
    BY <1>6 DEF QueueRemove, Labels, Threads
  <2>2. CASE QueueEmpty
    BY <1>6, <2>1, <2>2 DEF QueueRemove
  <2>3. CASE ~QueueEmpty
    <3>1. qFirst' \in Slot
      BY <1>6, <2>3, AdvanceWraps DEF QueueRemove
    <3>2. got' \in [Consumers -> Seq(Messages \cup {NoMsg})]
      <4> DEFINE M == Messages \cup {NoMsg}
      <4> HIDE DEF M
      <4>1. msgArray[qFirst] \in M /\ got[c] \in Seq(M)
        BY DEF M
      <4>2. Append(got[c], msgArray[qFirst]) \in Seq(M)
        BY <4>1
      <4>3. got' \in [Consumers -> Seq(M)]
        BY <1>6, <2>3, <4>2 DEF QueueRemove, M
      <4> QED BY <4>3 DEF M
    <3> QED
      BY <1>6, <2>3, <2>1, <3>1, <3>2 DEF QueueRemove
  <2> QED BY <2>2, <2>3
<1>7. CASE QueueDestroy
  BY <1>7 DEF QueueDestroy
<1>8. CASE UNCHANGED vars
  BY <1>8 DEF vars
<1>9. ASSUME NEW t \in Threads, SpuriousWakeup(t)
      PROVE  TypeOK'
  BY <1>9 DEF SpuriousWakeup, Labels
<1> QED
  BY <1>1, <1>2, <1>3, <1>4, <1>5, <1>6, <1>7, <1>8, <1>9 DEF Next, Call, Exited

\* Every variable has its type in every reachable state.
THEOREM TypeCorrect == Spec => []TypeOK
BY TypeOKInit, TypeOKStep, PTL DEF Spec

-----------------------------------------------------------------------------
(* Mutual exclusion, and what the loop guarantees when it is left.         *)

LEMMA GuardOwnerStep == TypeOK /\ GuardOwner /\ [Next]_vars => GuardOwner'
<1> SUFFICES ASSUME TypeOK, GuardOwner, [Next]_vars
             PROVE  GuardOwner'
  OBVIOUS
<1> USE QueueObjAssumption DEF GuardOwner, Inside, TypeOK, ring
<1>1. ASSUME NEW t \in Threads, Lock(t)
      PROVE  GuardOwner'
  BY <1>1 DEF Lock
<1>2. ASSUME NEW t \in Threads, LeaveLoop(t)
      PROVE  GuardOwner'
  BY <1>2 DEF LeaveLoop
<1>3. ASSUME NEW t \in Threads, SignalObjectAndWait(t)
      PROVE  GuardOwner'
  BY <1>3 DEF SignalObjectAndWait
<1>4. ASSUME NEW t \in Threads, SignalAndReturn(t)
      PROVE  GuardOwner'
  <2>1. qGuard = t /\ qGuard' = NoThread
    BY <1>4 DEF SignalAndReturn
  <2>2. ASSUME NEW u \in Threads
        PROVE  pc'[u] \notin Inside
    BY <1>4, <2>1 DEF SignalAndReturn
  <2> QED BY <2>1, <2>2
<1>5. ASSUME NEW p \in Producers, QueueInsert(p)
      PROVE  GuardOwner'
  BY <1>5 DEF QueueInsert, Threads
<1>6. ASSUME NEW c \in Consumers, QueueRemove(c)
      PROVE  GuardOwner'
  BY <1>6 DEF QueueRemove, Threads
<1>7. CASE QueueDestroy
  BY <1>7 DEF QueueDestroy
<1>8. CASE UNCHANGED vars
  BY <1>8 DEF vars
<1>9. ASSUME NEW t \in Threads, SpuriousWakeup(t)
      PROVE  GuardOwner'
  BY <1>9 DEF SpuriousWakeup
<1> QED
  BY <1>1, <1>2, <1>3, <1>4, <1>5, <1>6, <1>7, <1>8, <1>9 DEF Next, Call, Exited

LEMMA MoveReadyStep ==
  TypeOK /\ GuardOwner /\ MoveReady /\ [Next]_vars => MoveReady'
<1> SUFFICES ASSUME TypeOK, GuardOwner, MoveReady, [Next]_vars,
                    NEW u \in Threads, pc'[u] = "move"
             PROVE  ~Blocked(u)'
  BY DEF MoveReady
<1> USE QueueObjAssumption DEF TypeOK, ring
<1>0. ASSUME pc[u] = "move", UNCHANGED ring
      PROVE  ~Blocked(u)'
  BY <1>0 DEF MoveReady, Blocked, QueueFull, QueueEmpty
<1>1. ASSUME NEW t \in Threads, Lock(t)
      PROVE  ~Blocked(u)'
  BY <1>0, <1>1 DEF Lock
<1>2. ASSUME NEW t \in Threads, LeaveLoop(t)
      PROVE  ~Blocked(u)'
  <2>1. CASE u = t
    BY <1>2, <2>1 DEF LeaveLoop, Blocked, QueueFull, QueueEmpty
  <2>2. CASE u # t
    BY <1>0, <1>2, <2>2 DEF LeaveLoop
  <2> QED BY <2>1, <2>2
<1>3. ASSUME NEW t \in Threads, SignalObjectAndWait(t)
      PROVE  ~Blocked(u)'
  BY <1>0, <1>3 DEF SignalObjectAndWait
<1>4. ASSUME NEW t \in Threads, SignalAndReturn(t)
      PROVE  ~Blocked(u)'
  BY <1>0, <1>4 DEF SignalAndReturn
<1>5. ASSUME NEW p \in Producers, QueueInsert(p)
      PROVE  ~Blocked(u)'
  <2>1. p \in Threads /\ pc[p] = "move" /\ u # p /\ pc[u] = "move"
    BY <1>5 DEF QueueInsert, Threads
  <2> QED
    BY <2>1 DEF GuardOwner, Inside
<1>6. ASSUME NEW c \in Consumers, QueueRemove(c)
      PROVE  ~Blocked(u)'
  <2>1. c \in Threads /\ pc[c] = "move" /\ u # c /\ pc[u] = "move"
    BY <1>6 DEF QueueRemove, Threads
  <2> QED
    BY <2>1 DEF GuardOwner, Inside
<1>7. CASE QueueDestroy
  BY <1>0, <1>7 DEF QueueDestroy
<1>8. CASE UNCHANGED vars
  BY <1>0, <1>8 DEF vars
<1>9. ASSUME NEW t \in Threads, SpuriousWakeup(t)
      PROVE  ~Blocked(u)'
  BY <1>0, <1>9 DEF SpuriousWakeup
<1> QED
  BY <1>1, <1>2, <1>3, <1>4, <1>5, <1>6, <1>7, <1>8, <1>9 DEF Next, Call, Exited

\* The inductive invariant behind mutual exclusion.
Safe == TypeOK /\ GuardOwner /\ MoveReady

LEMMA SafeInvariant == Spec => []Safe
<1>1. Init => Safe
  <2> SUFFICES ASSUME Init
               PROVE  Safe
    OBVIOUS
  <2>1. TypeOK
    BY TypeOKInit
  <2>2. \A t \in Threads : pc[t] \in {"lock", "done"} /\ qGuard # t
    BY QueueObjAssumption DEF Init, FirstLabel
  <2> QED BY <2>1, <2>2 DEF Safe, GuardOwner, Inside, MoveReady
<1>2. Safe /\ [Next]_vars => Safe'
  BY TypeOKStep, GuardOwnerStep, MoveReadyStep DEF Safe
<1> QED BY <1>1, <1>2, PTL DEF Spec

\* At any time the mutex is owned by exactly the thread that is inside a
\* call's critical section.
THEOREM MutualExclusion == Spec => []GuardOwner
BY SafeInvariant, PTL DEF Safe

\* QueueRemove never meets an empty queue and QueueInsert never a full one, so
\* the error results QueueGet and QueuePut ignore are never returned.
THEOREM MoveNeverFails == Spec => []MoveReady
BY SafeInvariant, PTL DEF Safe

-----------------------------------------------------------------------------
(* No lost wakeup.  The proof fixes one event e and follows, action by     *)
(* action, the three numbers the invariant relates.                        *)

\* Counting: a larger set, one more element, one element less.
LEMMA CountGrow ==
  ASSUME NEW C, NEW D, IsFiniteSet(D), C \subseteq D
  PROVE  /\ Cardinality(C) \in Nat
         /\ Cardinality(D) \in Nat
         /\ Cardinality(C) <= Cardinality(D)
BY FS_Subset, FS_CardinalityType

LEMMA CountAdd ==
  ASSUME NEW C, IsFiniteSet(C), NEW x, x \notin C
  PROVE  Cardinality(C \cup {x}) = Cardinality(C) + 1
BY FS_AddElement

LEMMA CountDrop ==
  ASSUME NEW C, IsFiniteSet(C), NEW x \in C
  PROVE  Cardinality(C \ {x}) = Cardinality(C) - 1
BY FS_RemoveElement

\* Each event divides the threads into those that wait for it and those that
\* signal it.
LEMMA Sides ==
  ASSUME NEW e \in Events
  PROVE  /\ Takers(e) \cup Givers(e) = Threads
         /\ Takers(e) \cap Givers(e) = {}
         /\ IsFiniteSet(Takers(e)) /\ IsFiniteSet(Givers(e))
         /\ \A t \in Threads : Awaited(t) = e <=> t \in Takers(e)
         /\ \A t \in Threads : Announced(t) = e <=> t \in Givers(e)
<1>1. CASE e = "qNe"
  BY <1>1, QueueObjAssumption DEF Takers, Givers, Threads, Awaited, Announced
<1>2. CASE e = "qNf"
  BY <1>2, QueueObjAssumption DEF Takers, Givers, Threads, Awaited, Announced
<1> QED BY <1>1, <1>2 DEF Events

\* A thread of the waiting side is blocked exactly when there is no stock.
LEMMA StockFacts ==
  ASSUME TypeOK, NEW e \in Events
  PROVE  /\ Stock(e) \in Nat
         /\ \A t \in Takers(e) : Blocked(t) => Stock(e) = 0
<1>1. /\ RingLen(qFirst, qLast) \in 0 .. Capacity
      /\ RingEmpty(qFirst, qLast) <=> RingLen(qFirst, qLast) = 0
      /\ RingFull(qFirst, qLast) <=> RingLen(qFirst, qLast) = Capacity
      /\ Capacity \in Nat
  BY RingLenFacts, RingAssumption DEF TypeOK, Capacity
<1>2. CASE e = "qNe"
  BY <1>1, <1>2, QueueObjAssumption DEF Stock, Takers, Blocked, QueueEmpty
<1>3. CASE e = "qNf"
  BY <1>1, <1>3, QueueObjAssumption DEF Stock, Takers, Blocked, QueueFull
<1> QED BY <1>2, <1>3 DEF Events

\* Moving a message adds one to the stock of the event the thread announces
\* and takes one from the stock of the event it would have waited for.
LEMMA StockInsert ==
  ASSUME Safe, NEW p \in Producers, QueueInsert(p)
  PROVE  Stock("qNe")' = Stock("qNe") + 1 /\ Stock("qNf")' = Stock("qNf") - 1
<1>1. ~QueueFull
  BY DEF Safe, MoveReady, QueueInsert, Blocked, Threads
<1>2. qFirst \in Slot /\ qLast \in Slot /\ qLast' = Advance(qLast) /\ qFirst' = qFirst
  BY <1>1 DEF Safe, TypeOK, QueueInsert
<1>3. RingLen(qFirst', qLast') = RingLen(qFirst, qLast) + 1
  BY <1>1, <1>2, RingLenStep DEF QueueFull
<1>4. RingLen(qFirst, qLast) \in Int /\ Capacity \in Int
  BY <1>2, RingLenFacts, RingAssumption DEF Capacity
<1> QED BY <1>3, <1>4 DEF Stock

LEMMA StockRemove ==
  ASSUME Safe, NEW c \in Consumers, QueueRemove(c)
  PROVE  Stock("qNe")' = Stock("qNe") - 1 /\ Stock("qNf")' = Stock("qNf") + 1
<1>1. ~QueueEmpty
  BY QueueObjAssumption DEF Safe, MoveReady, QueueRemove, Blocked, Threads
<1>2. qFirst \in Slot /\ qLast \in Slot /\ qFirst' = Advance(qFirst) /\ qLast' = qLast
  BY <1>1 DEF Safe, TypeOK, QueueRemove
<1>3. RingLen(qFirst', qLast') = RingLen(qFirst, qLast) - 1
  BY <1>1, <1>2, RingLenStep DEF QueueEmpty
<1>4. RingLen(qFirst, qLast) \in Int /\ Capacity \in Int
  BY <1>2, RingLenFacts, RingAssumption DEF Capacity
<1> QED BY <1>3, <1>4 DEF Stock

\* What the invariant says of one event.
Covered(e) ==
  Waiters(e) # {} =>
    Stock(e) <= Cardinality(Coming(Takers(e))) + Cardinality(Announcing(Givers(e)))

\* The threads that count are finite sets, before and after a step.
LEMMA CountsFinite ==
  ASSUME NEW e \in Events
  PROVE  /\ IsFiniteSet(Coming(Takers(e))) /\ IsFiniteSet(Coming(Takers(e))')
         /\ IsFiniteSet(Announcing(Givers(e))) /\ IsFiniteSet(Announcing(Givers(e))')
         /\ Cardinality(Coming(Takers(e))) \in Nat
         /\ Cardinality(Coming(Takers(e))') \in Nat
         /\ Cardinality(Announcing(Givers(e))) \in Nat
         /\ Cardinality(Announcing(Givers(e))') \in Nat
<1>1. Coming(Takers(e)) \subseteq Takers(e) /\ Coming(Takers(e))' \subseteq Takers(e)
  BY DEF Coming, Takers
<1>2. Announcing(Givers(e)) \subseteq Givers(e) /\ Announcing(Givers(e))' \subseteq Givers(e)
  BY DEF Announcing, Givers
<1> QED BY <1>1, <1>2, Sides, FS_Subset, FS_CardinalityType

\* A step that leaves the ring alone, releases no fewer threads than it
\* blocks and removes no thread from either count keeps the invariant.
LEMMA CoveredKept ==
  ASSUME TypeOK, NEW e \in Events, Covered(e),
         Stock(e)' = Stock(e),
         Waiters(e)' \subseteq Waiters(e),
         Coming(Takers(e)) \subseteq Coming(Takers(e))',
         Announcing(Givers(e)) \subseteq Announcing(Givers(e))'
  PROVE  Covered(e)'
<1>1. /\ Cardinality(Coming(Takers(e))) <= Cardinality(Coming(Takers(e))')
      /\ Cardinality(Announcing(Givers(e))) <= Cardinality(Announcing(Givers(e))')
  BY CountsFinite, CountGrow
<1>2. Stock(e) \in Nat
  BY StockFacts
<1> QED BY <1>1, <1>2, CountsFinite DEF Covered

LEMMA CoveredInsert ==
  ASSUME Safe, NEW e \in Events, Covered(e), NEW p \in Producers, QueueInsert(p)
  PROVE  Covered(e)'
<1> USE DEF Safe, TypeOK
<1>1. /\ p \in Threads /\ pc[p] = "move" /\ pc' = [pc EXCEPT ![p] = "signal"]
      /\ Waiters(e)' = Waiters(e)
  BY DEF QueueInsert, Threads, Waiters
<1>2. Stock(e) \in Nat
  BY StockFacts
<1>3. CASE e = "qNe"
  <2>1. /\ Coming(Takers(e))' = Coming(Takers(e))
        /\ Announcing(Givers(e))' = Announcing(Givers(e)) \cup {p}
        /\ p \notin Announcing(Givers(e))
    BY <1>1, <1>3, QueueObjAssumption DEF Coming, Announcing, Takers, Givers, Threads
  <2>2. Cardinality(Announcing(Givers(e))') = Cardinality(Announcing(Givers(e))) + 1
    BY <2>1, CountAdd, CountsFinite
  <2>3. Stock(e)' = Stock(e) + 1
    BY <1>3, StockInsert
  <2> QED BY <1>1, <1>2, <2>1, <2>2, <2>3, CountsFinite DEF Covered
<1>4. CASE e = "qNf"
  <2>1. /\ Announcing(Givers(e))' = Announcing(Givers(e))
        /\ Coming(Takers(e))' = Coming(Takers(e)) \ {p}
        /\ p \in Coming(Takers(e))
    BY <1>1, <1>4, QueueObjAssumption DEF Coming, Announcing, Takers, Givers, Threads
  <2>2. Cardinality(Coming(Takers(e))') = Cardinality(Coming(Takers(e))) - 1
    BY <2>1, CountDrop, CountsFinite
  <2>3. Stock(e)' = Stock(e) - 1
    BY <1>4, StockInsert
  <2> QED BY <1>1, <1>2, <2>1, <2>2, <2>3, CountsFinite DEF Covered
<1> QED BY <1>3, <1>4 DEF Events

LEMMA CoveredRemove ==
  ASSUME Safe, NEW e \in Events, Covered(e), NEW c \in Consumers, QueueRemove(c)
  PROVE  Covered(e)'
<1> USE DEF Safe, TypeOK
<1>1. /\ c \in Threads /\ pc[c] = "move" /\ pc' = [pc EXCEPT ![c] = "signal"]
      /\ Waiters(e)' = Waiters(e)
  BY DEF QueueRemove, Threads, Waiters
<1>2. Stock(e) \in Nat
  BY StockFacts
<1>3. CASE e = "qNf"
  <2>1. /\ Coming(Takers(e))' = Coming(Takers(e))
        /\ Announcing(Givers(e))' = Announcing(Givers(e)) \cup {c}
        /\ c \notin Announcing(Givers(e))
    BY <1>1, <1>3, QueueObjAssumption DEF Coming, Announcing, Takers, Givers, Threads
  <2>2. Cardinality(Announcing(Givers(e))') = Cardinality(Announcing(Givers(e))) + 1
    BY <2>1, CountAdd, CountsFinite
  <2>3. Stock(e)' = Stock(e) + 1
    BY <1>3, StockRemove
  <2> QED BY <1>1, <1>2, <2>1, <2>2, <2>3, CountsFinite DEF Covered
<1>4. CASE e = "qNe"
  <2>1. /\ Announcing(Givers(e))' = Announcing(Givers(e))
        /\ Coming(Takers(e))' = Coming(Takers(e)) \ {c}
        /\ c \in Coming(Takers(e))
    BY <1>1, <1>4, QueueObjAssumption DEF Coming, Announcing, Takers, Givers, Threads
  <2>2. Cardinality(Coming(Takers(e))') = Cardinality(Coming(Takers(e))) - 1
    BY <2>1, CountDrop, CountsFinite
  <2>3. Stock(e)' = Stock(e) - 1
    BY <1>4, StockRemove
  <2> QED BY <1>1, <1>2, <2>1, <2>2, <2>3, CountsFinite DEF Covered
<1> QED BY <1>3, <1>4 DEF Events

\* A thread starts to wait only when there is no stock.
LEMMA CoveredWait ==
  ASSUME TypeOK, NEW e \in Events, Covered(e),
         NEW t \in Threads, SignalObjectAndWait(t)
  PROVE  Covered(e)'
<1>0. Stock(e)' = Stock(e) /\ Stock(e) \in Nat
  BY StockFacts DEF SignalObjectAndWait, ring, Stock
<1>1. CASE pc' = [pc EXCEPT ![t] = "wait"] /\ t \in Takers(e)
  <2>1. Stock(e) = 0
    BY <1>1, StockFacts DEF SignalObjectAndWait
  <2> QED BY <1>0, <2>1, CountsFinite DEF Covered
<1>2. CASE pc' = [pc EXCEPT ![t] = "wait"] /\ t \notin Takers(e)
  <2>1. /\ Waiters(e)' \subseteq Waiters(e)
        /\ Coming(Takers(e)) \subseteq Coming(Takers(e))'
        /\ Announcing(Givers(e)) \subseteq Announcing(Givers(e))'
    BY <1>2, Sides DEF TypeOK, SignalObjectAndWait, Waiters, Coming, Announcing, Takers, Givers
  <2> QED BY <1>0, <2>1, CoveredKept
<1>3. CASE pc' = [pc EXCEPT ![t] = "lock"]
  <2>1. /\ Waiters(e)' \subseteq Waiters(e)
        /\ Coming(Takers(e)) \subseteq Coming(Takers(e))'
        /\ Announcing(Givers(e)) \subseteq Announcing(Givers(e))'
    BY <1>3 DEF TypeOK, SignalObjectAndWait, Waiters, Coming, Announcing, Takers, Givers
  <2> QED BY <1>0, <2>1, CoveredKept
<1> QED BY <1>1, <1>2, <1>3 DEF SignalObjectAndWait

\* The thread that signals is counted no more; in its place there is one
\* more thread on its way, or nobody is left waiting.
LEMMA CoveredSignal ==
  ASSUME TypeOK, NEW e \in Events, Covered(e),
         NEW t \in Threads, SignalAndReturn(t)
  PROVE  Covered(e)'
<1>0. Stock(e)' = Stock(e) /\ Stock(e) \in Nat
  BY StockFacts DEF SignalAndReturn, ring, Stock
<1>1. PICK woken \in IF model = "broadcast" THEN PulseEvent(Announced(t)) ELSE SetEvent(Announced(t)) :
        pc' = [u \in Threads |->
                 IF u = t THEN IF calls[t] + 1 < Quota(t) THEN "lock" ELSE "done"
                 ELSE IF u \in woken THEN "lock" ELSE pc[u]]
  BY DEF SignalAndReturn
<1>2. pc[t] = "signal" /\ woken \subseteq Waiters(Announced(t))
  BY <1>1 DEF SignalAndReturn, PulseEvent, SetEvent
<1>3. CASE t \notin Givers(e)
  <2>1. \A u \in woken : pc[u] = "wait" /\ u \notin Takers(e)
    BY <1>2, <1>3, Sides DEF Waiters, Announced, Awaited
  <2>2. Waiters(e)' \subseteq Waiters(e)
    BY <1>1 DEF Waiters
  <2>3. Coming(Takers(e)) \subseteq Coming(Takers(e))'
    BY <1>1, <1>2, Sides DEF Coming, Takers
  <2>4. Announcing(Givers(e)) \subseteq Announcing(Givers(e))'
    BY <1>1, <1>2, <1>3, <2>1, Sides DEF Announcing, Givers
  <2> QED BY <1>0, <2>2, <2>3, <2>4, CoveredKept
<1>4. CASE t \in Givers(e)
  <2>0. Announced(t) = e /\ t \notin Takers(e) /\ woken \subseteq Waiters(e)
    BY <1>2, <1>4, Sides
  <2>1. CASE Waiters(e)' = {}
    BY <2>1 DEF Covered
  <2>2. CASE Waiters(e)' # {}
    <3>1. woken # Waiters(e)
      BY <1>1, <2>0, <2>2 DEF Waiters
    <3>2. model # "broadcast" /\ \E w \in Waiters(e) : woken = {w}
      BY <1>1, <2>0, <3>1 DEF PulseEvent, SetEvent
    <3>3. PICK w \in Waiters(e) : woken = {w}
      BY <3>2
    <3>4. w \in Takers(e) /\ pc[w] = "wait" /\ w # t
      BY <1>2, <3>3, Sides DEF Waiters
    <3>5. /\ Coming(Takers(e))' = Coming(Takers(e)) \cup {w}
          /\ w \notin Coming(Takers(e))
      BY <1>1, <2>0, <3>3, <3>4, Sides DEF Coming, Takers
    <3>6. /\ Announcing(Givers(e))' = Announcing(Givers(e)) \ {t}
          /\ t \in Announcing(Givers(e))
      BY <1>1, <1>2, <1>4, <3>3, <3>4, Sides DEF Announcing, Givers
    <3>7. /\ Cardinality(Coming(Takers(e))') = Cardinality(Coming(Takers(e))) + 1
          /\ Cardinality(Announcing(Givers(e))') = Cardinality(Announcing(Givers(e))) - 1
      BY <3>5, <3>6, CountAdd, CountDrop, CountsFinite
    <3>8. Waiters(e) # {}
      BY <3>3
    <3> QED BY <1>0, <3>7, <3>8, CountsFinite DEF Covered
  <2> QED BY <2>1, <2>2
<1> QED BY <1>3, <1>4

LEMMA CoveredStep ==
  ASSUME Safe, NEW e \in Events, Covered(e), [Next]_vars
  PROVE  Covered(e)'
<1> USE DEF Safe
<1>0. ASSUME UNCHANGED ring,
             \A u \in Threads : \/ pc'[u] = pc[u]
                               \/ /\ pc[u] \in {"lock", "test"}
                                  /\ pc'[u] \in {"test", "move"}
      PROVE  Covered(e)'
  <2>1. Stock(e)' = Stock(e)
    BY <1>0 DEF ring, Stock
  <2>2. /\ Waiters(e)' \subseteq Waiters(e)
        /\ Coming(Takers(e)) \subseteq Coming(Takers(e))'
        /\ Announcing(Givers(e)) \subseteq Announcing(Givers(e))'
    BY <1>0, Sides DEF Waiters, Coming, Announcing, Takers, Givers
  <2> QED BY <2>1, <2>2, CoveredKept
<1>1. ASSUME NEW t \in Threads, Lock(t)
      PROVE  Covered(e)'
  BY <1>0, <1>1 DEF Lock, TypeOK
<1>2. ASSUME NEW t \in Threads, LeaveLoop(t)
      PROVE  Covered(e)'
  BY <1>0, <1>2 DEF LeaveLoop, TypeOK
<1>3. ASSUME NEW t \in Threads, SignalObjectAndWait(t)
      PROVE  Covered(e)'
  BY <1>3, CoveredWait
<1>4. ASSUME NEW t \in Threads, SignalAndReturn(t)
      PROVE  Covered(e)'
  BY <1>4, CoveredSignal
<1>5. ASSUME NEW p \in Producers, QueueInsert(p)
      PROVE  Covered(e)'
  BY <1>5, CoveredInsert
<1>6. ASSUME NEW c \in Consumers, QueueRemove(c)
      PROVE  Covered(e)'
  BY <1>6, CoveredRemove
<1>7. ASSUME UNCHANGED <<msgArray, qFirst, qLast, pc>>
      PROVE  Covered(e)'
  BY <1>7 DEF Covered, Stock, Waiters, Coming, Announcing, Takers, Givers
<1>8. CASE QueueDestroy
  BY <1>7, <1>8 DEF QueueDestroy
<1>9. CASE UNCHANGED vars
  BY <1>7, <1>9 DEF vars
<1>10. ASSUME NEW t \in Threads, SpuriousWakeup(t)
      PROVE  Covered(e)'
  <2>1. Stock(e)' = Stock(e)
    BY <1>10 DEF SpuriousWakeup, ring, Stock
  <2>2. /\ Waiters(e)' \subseteq Waiters(e)
        /\ Coming(Takers(e)) \subseteq Coming(Takers(e))'
        /\ Announcing(Givers(e)) \subseteq Announcing(Givers(e))'
    BY <1>10 DEF SpuriousWakeup, TypeOK, Waiters, Coming, Announcing, Takers, Givers
  <2> QED BY <2>1, <2>2, CoveredKept
<1> QED
  BY <1>1, <1>2, <1>3, <1>4, <1>5, <1>6, <1>8, <1>9, <1>10 DEF Next, Call, Exited

\* A thread sleeps on an event only as long as the threads already on their
\* way account for all there is to take: no wakeup is lost, with PulseEvent on
\* manual-reset events and with SetEvent on auto-reset events alike.
THEOREM WakeupsSuffice == Spec => []NoLostWakeup
<1>1. Init => NoLostWakeup
  BY DEF Init, NoLostWakeup, Waiters, FirstLabel
<1>2. Safe /\ NoLostWakeup /\ [Next]_vars => NoLostWakeup'
  <2> SUFFICES ASSUME Safe, NoLostWakeup, [Next]_vars, NEW e \in Events
               PROVE  Covered(e)'
    BY DEF NoLostWakeup, Covered
  <2>1. Covered(e)
    BY DEF NoLostWakeup, Covered
  <2> QED BY <2>1, CoveredStep
<1> QED BY <1>1, <1>2, SafeInvariant, PTL DEF Spec

-----------------------------------------------------------------------------
(* Refinement.                                                             *)

LEMMA RefineInit == Init => BQ!Init
BY RingAssumption, QueueObjAssumption
DEF Init, BQ!Init, Contents, Sent, FirstLabel, RingContents, RingLen, Slot, Threads

LEMMA RefineInsert ==
  ASSUME Safe, NEW p \in Producers, QueueInsert(p)
  PROVE  BQ!Put(p)
<1> USE DEF Safe, TypeOK
<1>1. ~QueueFull
  BY DEF MoveReady, QueueInsert, Blocked, Threads
<1>2. /\ p \in Threads /\ pc[p] = "move" /\ pc' = [pc EXCEPT ![p] = "signal"]
      /\ calls' = calls /\ got' = got
  BY DEF QueueInsert, Threads
<1>3. Sent[p] = calls[p] /\ Sent' = [Sent EXCEPT ![p] = @ + 1]
  <2>1. \A q \in Producers : q \in Threads
    BY DEF Threads
  <2>2. Sent[p] = calls[p] /\ Sent'[p] = calls[p] + 1
    BY <1>2 DEF Sent
  <2>3. \A q \in Producers : q # p => Sent'[q] = Sent[q]
    BY <1>2, <2>1 DEF Sent
  <2> QED BY <2>2, <2>3 DEF Sent
<1>4. Contents' = Append(Contents, <<p, calls[p]>>)
  <2> DEFINE M == Messages \cup {NoMsg}
             msg == <<p, calls[p]>>
  <2>1. msg \in M /\ msgArray \in [Slot -> M] /\ qFirst \in Slot /\ qLast \in Slot
    BY <1>2 DEF Messages
  <2> HIDE DEF M, msg, Safe, TypeOK
  <2>2. RingContents([msgArray EXCEPT ![qLast] = msg], qFirst, Advance(qLast))
          = Append(RingContents(msgArray, qFirst, qLast), msg)
    <3>1. \A arr \in [Slot -> M], f \in Slot, l \in Slot, x \in M :
             ~RingFull(f, l) => RingContents([arr EXCEPT ![l] = x], f, Advance(l))
                                  = Append(RingContents(arr, f, l), x)
      BY RingAppend
    <3> QED BY <1>1, <2>1, <3>1 DEF QueueFull
  <2> USE DEF msg
  <2> QED BY <1>1, <2>2 DEF QueueInsert, Contents
<1>5. Len(Contents) < Capacity
  <2> DEFINE M == Messages \cup {NoMsg}
  <2>0. msgArray \in [Slot -> M] /\ qFirst \in Slot /\ qLast \in Slot
    OBVIOUS
  <2> HIDE DEF M, Safe, TypeOK
  <2>1. Len(Contents) = RingLen(qFirst, qLast)
    BY <2>0, RingContentsLen DEF Contents
  <2>2. /\ RingLen(qFirst, qLast) \in 0 .. Capacity
        /\ RingLen(qFirst, qLast) # Capacity
    BY <1>1, <2>0, RingLenFacts DEF QueueFull
  <2> QED BY <2>1, <2>2, RingAssumption DEF Capacity
<1> QED BY <1>2, <1>3, <1>4, <1>5 DEF BQ!Put

LEMMA RefineRemove ==
  ASSUME Safe, NEW c \in Consumers, QueueRemove(c)
  PROVE  BQ!Get(c)
<1> USE DEF Safe, TypeOK
<1>1. ~QueueEmpty
  BY QueueObjAssumption DEF MoveReady, QueueRemove, Blocked, Threads
<1>2. /\ c \in Threads \ Producers /\ pc' = [pc EXCEPT ![c] = "signal"]
      /\ calls' = calls /\ got' = [got EXCEPT ![c] = Append(@, msgArray[qFirst])]
  BY <1>1, QueueObjAssumption DEF QueueRemove, Threads
<1>3. Sent' = Sent
  BY <1>2 DEF Sent, Threads
<1>4. /\ Contents # <<>>
      /\ Head(Contents) = msgArray[qFirst]
      /\ Contents' = Tail(Contents)
  BY <1>1, RingTail DEF QueueRemove, Contents, QueueEmpty
<1> QED BY <1>2, <1>3, <1>4 DEF BQ!Get

LEMMA RefineStep == Safe /\ [Next]_vars => [BQ!Next]_(BQ!bqVars)
<1> SUFFICES ASSUME Safe, [Next]_vars
             PROVE  BQ!Next \/ UNCHANGED BQ!bqVars
  OBVIOUS
<1> USE DEF Safe, TypeOK, ring
<1>0. ASSUME UNCHANGED <<msgArray, qFirst, qLast, got>>, Sent' = Sent
      PROVE  UNCHANGED BQ!bqVars
  BY <1>0 DEF BQ!bqVars, Contents
<1>2. ASSUME NEW t \in Threads, Lock(t)
      PROVE  UNCHANGED BQ!bqVars
  <2>1. Sent' = Sent
    BY <1>2 DEF Lock, Sent, Threads
  <2> QED BY <1>0, <1>2, <2>1 DEF Lock
<1>3. ASSUME NEW t \in Threads, LeaveLoop(t)
      PROVE  UNCHANGED BQ!bqVars
  <2>1. Sent' = Sent
    BY <1>3 DEF LeaveLoop, Sent, Threads
  <2> QED BY <1>0, <1>3, <2>1 DEF LeaveLoop
<1>4. ASSUME NEW t \in Threads, SignalObjectAndWait(t)
      PROVE  UNCHANGED BQ!bqVars
  <2>1. Sent' = Sent
    BY <1>4 DEF SignalObjectAndWait, Sent, Threads
  <2> QED BY <1>0, <1>4, <2>1 DEF SignalObjectAndWait
<1>5. ASSUME NEW t \in Threads, SignalAndReturn(t)
      PROVE  UNCHANGED BQ!bqVars
  <2>1. ASSUME NEW p \in Producers
        PROVE  Sent'[p] = Sent[p]
    <3>1. PICK woken \in IF model = "broadcast" THEN PulseEvent(Announced(t)) ELSE SetEvent(Announced(t)) :
            pc' = [u \in Threads |->
                     IF u = t THEN IF calls[t] + 1 < Quota(t) THEN "lock" ELSE "done"
                     ELSE IF u \in woken THEN "lock" ELSE pc[u]]
      BY <1>5 DEF SignalAndReturn
    <3>2. \A u \in woken : pc[u] = "wait"
      BY <3>1 DEF PulseEvent, SetEvent, Waiters
    <3>3. pc[t] = "signal" /\ calls' = [calls EXCEPT ![t] = @ + 1] /\ p \in Threads
      BY <1>5 DEF SignalAndReturn, Threads
    <3>4. CASE p = t
      BY <3>1, <3>3, <3>4 DEF Sent
    <3>5. CASE p # t
      BY <3>1, <3>2, <3>3, <3>5 DEF Sent
    <3> QED BY <3>4, <3>5
  <2>2. Sent' = Sent
    BY <2>1 DEF Sent
  <2> QED BY <1>0, <1>5, <2>2 DEF SignalAndReturn
<1>6. ASSUME NEW p \in Producers, QueueInsert(p)
      PROVE  BQ!Next
  BY <1>6, RefineInsert DEF BQ!Next
<1>7. ASSUME NEW c \in Consumers, QueueRemove(c)
      PROVE  BQ!Next
  BY <1>7, RefineRemove DEF BQ!Next
<1>8. CASE QueueDestroy
  BY <1>0, <1>8 DEF QueueDestroy, Sent
<1>9. CASE UNCHANGED vars
  BY <1>0, <1>9 DEF vars, Sent
<1>10. ASSUME NEW t \in Threads, SpuriousWakeup(t)
      PROVE  UNCHANGED BQ!bqVars
  <2>1. Sent' = Sent
    BY <1>10 DEF SpuriousWakeup, Sent, Threads
  <2> QED BY <1>0, <1>10, <2>1 DEF SpuriousWakeup
<1> QED
  BY <1>2, <1>3, <1>4, <1>5, <1>6, <1>7, <1>8, <1>9, <1>10 DEF Next, Call, Exited

\* The queue object is a bounded FIFO queue: no message is lost, duplicated or
\* overtaken, whatever the interleaving of the callers.
THEOREM ImplementsBoundedFIFO == Spec => BoundedFIFO
BY RefineInit, RefineStep, SafeInvariant, PTL DEF Spec, BoundedFIFO, BQ!Spec

-----------------------------------------------------------------------------
(* multiPCav: each message is counted by one consumer.                     *)

\* What the consumers have counted together, and the sums it is one of.
Total(f) == Multi!MapThenSumSet(LAMBDA c : f[c], ConsumerNumbers)

\* What the consumers have counted is such a sum.
LEMMA TotalIs ==
  ASSUME NEW f
  PROVE  \E g : Sums(g, f, ConsumerNumbers) /\ Total(f) = g[ConsumerNumbers]
<1> DEFINE sums == CHOOSE g : Sums(g, f, ConsumerNumbers)
<1>1. Sums(sums, f, ConsumerNumbers)
  BY SumsExist, PipelinesAssumption
<1>2. Total(f) = sums[ConsumerNumbers]
  BY DEF Total, Multi!MapThenSumSet, Multi!MapThenFoldSet, Sums, AddUp, Chosen
<1> QED BY <1>1, <1>2

\* The total is a number, grows with each count and bounds each count.
LEMMA TotalFacts ==
  ASSUME NEW f \in [ConsumerNumbers -> Nat]
  PROVE  /\ Total(f) \in Nat /\ \A c \in ConsumerNumbers : f[c] <= Total(f)
         /\ \A c \in ConsumerNumbers : Total([f EXCEPT ![c] = @ + 1]) = Total(f) + 1
<1>0. IsFiniteSet(ConsumerNumbers)
  BY PipelinesAssumption
<1>1. PICK g : Sums(g, f, ConsumerNumbers) /\ Total(f) = g[ConsumerNumbers]
  BY TotalIs
<1>2. Total(f) \in Nat /\ \A c \in ConsumerNumbers : f[c] <= Total(f)
  BY <1>0, <1>1, SumsBound
<1>3. ASSUME NEW c \in ConsumerNumbers
      PROVE  Total([f EXCEPT ![c] = @ + 1]) = Total(f) + 1
  <2>1. PICK e : e = [f EXCEPT ![c] = @ + 1]
    OBVIOUS
  <2>2. PICK h : Sums(h, e, ConsumerNumbers) /\ Total(e) = h[ConsumerNumbers]
    BY TotalIs
  <2>3. Grown(e, f, c) /\ Counts(f, ConsumerNumbers)
    BY <1>0, <2>1 DEF Grown, Counts
  <2>4. h[ConsumerNumbers] = g[ConsumerNumbers] + 1
    BY <1>1, <2>2, <2>3, SumsGrow
  <2> QED BY <1>1, <2>1, <2>2, <2>4
<1> QED BY <1>2, <1>3

\* Nothing is counted at first.
LEMMA TotalZero == Total([c \in ConsumerNumbers |-> 0]) = 0
BY TotalIs, SumsZero, PipelinesAssumption

\* The block is filled only when it has been consumed.
MultiInv ==
  /\ sequence \in 0 .. MaxSequence /\ mBoss \in {"commands", "producer", "consumers", "finished"}
  /\ nmsgs \in [ConsumerNumbers -> Nat]
  /\ f_ready \in BOOLEAN /\ (f_consumed => ~f_ready)
  /\ sequence = Total(nmsgs) + IF f_ready THEN 1 ELSE 0

\* The invariant of multiPCav holds at the start and in every step.
LEMMA MultiInvInit == PipelinesInit => MultiInv
<1> SUFFICES ASSUME NEW started \in BOOLEAN, Multi!InitOf(started) PROVE MultiInv
  BY DEF PipelinesInit, Multi!Init
<1>1. nmsgs = [c \in ConsumerNumbers |-> 0] /\ sequence = 0 /\ ~f_ready
  BY DEF Multi!InitOf
<1>2. Total(nmsgs) = 0 /\ nmsgs \in [ConsumerNumbers -> Nat]
  BY <1>1, TotalZero
<1>3. f_ready = FALSE /\ mBoss \in {"commands", "finished"}
  BY DEF Multi!InitOf
<1>4. sequence = Total(nmsgs) + IF f_ready THEN 1 ELSE 0
  BY <1>1, <1>2
<1>5. sequence \in 0 .. MaxSequence
  BY <1>1, PipelinesAssumption
<1> QED BY <1>1, <1>2, <1>3, <1>4, <1>5 DEF MultiInv

\* Each step of multiPCav keeps the invariant; only a consumer counts.
LEMMA MultiInvStep == MultiInv /\ [PipelinesNext]_pipelinesVars => MultiInv'
<1> SUFFICES ASSUME MultiInv, Multi!Next PROVE MultiInv'
  <2>1. CASE UNCHANGED multiVars
    BY <2>1 DEF MultiInv, multiVars
  <2> QED BY <2>1 DEF PipelinesNext, pipelinesVars
<1> USE DEF MultiInv, Multi!mpBlock
<1>1. CASE Multi!Produce
  <2>1. CASE ~Multi!MayFill \/ mStop
    BY <1>1, <2>1 DEF Multi!Produce
  <2>2. CASE Multi!MayFill /\ ~mStop
    <3>1. ~f_ready /\ f_ready' = TRUE /\ f_consumed' = FALSE /\ sequence < MaxSequence
      BY <1>1, <2>2 DEF Multi!Produce, Multi!MayFill
    <3>2. sequence' = sequence + 1 /\ nmsgs' = nmsgs /\ mBoss' = mBoss
      BY <1>1, <2>2 DEF Multi!Produce
    <3>3. MaxSequence \in Nat
      BY PipelinesAssumption
    <3>4. Total(nmsgs) \in Nat
      BY TotalFacts
    <3> QED BY <3>1, <3>2, <3>3, <3>4
  <2> QED BY <2>1, <2>2
<1>2. ASSUME NEW c \in ConsumerNumbers, Multi!Consume(c)
      PROVE  MultiInv'
  <2>1. CASE (~f_ready /\ ~mStop) \/ mStop
    BY <1>2, <2>1 DEF Multi!Consume
  <2>2. CASE f_ready /\ ~mStop
    <3>1. /\ f_ready' = FALSE /\ f_consumed' = TRUE /\ sequence' = sequence /\ mBoss' = mBoss
          /\ nmsgs' = [nmsgs EXCEPT ![c] = @ + 1]
      BY <1>2, <2>2 DEF Multi!Consume
    <3>2. nmsgs' \in [ConsumerNumbers -> Nat]
      BY <3>1
    <3>3. Total(nmsgs') = Total(nmsgs) + 1 /\ Total(nmsgs) \in Nat
      BY <3>1, TotalFacts
    <3>4. sequence' = Total(nmsgs')
      BY <2>2, <3>1, <3>3
    <3>5. sequence' = Total(nmsgs)' + IF f_ready' THEN 1 ELSE 0
      BY <3>1, <3>3, <3>4
    <3> QED BY <3>1, <3>2, <3>5
  <2> QED BY <2>1, <2>2
<1>3. CASE Multi!Stop \/ Multi!Join \/ Multi!CheckStop
  BY <1>3 DEF Multi!Stop, Multi!Join, Multi!CheckStop
<1>4. ASSUME NEW c \in ConsumerNumbers,
             Multi!Create(c) \/ Multi!CheckStopOf(c) \/ Multi!Wait(c) \/ Multi!TimedOut(c)
      PROVE  MultiInv'
  BY <1>4 DEF Multi!Create, Multi!CheckStopOf, Multi!Wait, Multi!TimedOut
<1> QED BY <1>1, <1>2, <1>3, <1>4 DEF Multi!Next, Multi!Consumer

\* EachOnce of multiPCav, for any number of consumers and of messages: each
\* message is counted by one consumer, or is still in the block, although the
\* consumers and the producer wait on condition variables that any of them is
\* woken up by.
THEOREM CountedOnce == PipelinesSpec => [](Multi!TypeOK /\ Multi!EachOnce)
<1>1. MultiInv => Multi!TypeOK /\ Multi!EachOnce
  <2> SUFFICES ASSUME MultiInv PROVE Multi!TypeOK /\ Multi!EachOnce
    OBVIOUS
  <2>1. Multi!EachOnce
    BY DEF MultiInv, Multi!EachOnce, Total
  <2>2. Total(nmsgs) \in Nat /\ \A c \in ConsumerNumbers : nmsgs[c] <= Total(nmsgs)
    BY TotalFacts DEF MultiInv
  <2>3. Multi!TypeOK
    BY <2>2, PipelinesAssumption DEF MultiInv, Multi!TypeOK
  <2> QED BY <2>1, <2>3
<1> QED BY <1>1, MultiInvInit, MultiInvStep, PTL DEF PipelinesSpec

-----------------------------------------------------------------------------
(* The cancellable pipeline: its inductive invariant.  A thread owns the   *)
(* guard of a queue that it is about to change, and has tested the queue.  *)

\* A message of pair n is <<n, k>>; a block is a sequence of them.
PairMessages == PairNumbers \X Nat
Blocks == {b \in Seq(PairMessages) : Len(b) <= BlockSize}
\* What queue q of the cancellable pipeline holds.
Kind(q) == IF q = Cancel!t2rq THEN Blocks
           ELSE IF q = Cancel!p2tq THEN PairMessages ELSE {q[2]} \X Nat
Pcs == {"check", "done", "lock", "wait", "check APC", "act", "ret"}
InCall == {"lock", "wait", "check APC", "act", "ret"}
CallsOf == [pc : Pcs, op : {"none", "get", "put"}, q : Cancel!Queues, msg : PairMessages \cup Blocks]

CancelTypes ==
  /\ cGoal \in Nat
  /\ cQueue = [q \in Cancel!Queues |-> cQueue[q]]
  /\ \A q \in Cancel!Queues : cQueue[q] \in Seq(Kind(q)) /\ Len(cQueue[q]) <= QSize - 1
  /\ guard \in [Cancel!Queues -> Cancel!Threads \cup {Cancel!Nobody}]
  /\ cSignaled \subseteq Cancel!Queues \X {"qNe", "qNf"}
  /\ th \in [Cancel!Threads -> CallsOf]
  /\ cDone \in [Cancel!Producers \cup Cancel!Consumers -> Nat]
  /\ \A t \in Cancel!Producers \cup Cancel!Consumers : cDone[t] <= cGoal
  /\ cTBlock \in Blocks /\ cRBlock \in Blocks
  /\ apc \subseteq {Cancel!Transmitter, Cancel!Receiver}
  /\ shutDownGet \in BOOLEAN /\ shutDownPut \in BOOLEAN /\ cShutDown \in BOOLEAN

\* The call that a thread is in, if any: r is its record, d its workDone.
ProducerCall(n, r, d) ==
  /\ r.pc \in InCall /\ r.op = "put" /\ r.q = Cancel!p2tq /\ d < cGoal
  /\ r.pc # "ret" => r.msg = <<n, d>>
ConsumerCall(n, r, d) ==
  /\ r.pc \in InCall /\ r.op = "get" /\ r.q = Cancel!r2cq(n) /\ d < cGoal
  /\ r.pc # "ret" => r.msg = <<>>
TransmitterCall(r, block) ==
  \/ r.pc = "check" /\ block = <<>> /\ r.op = "none"
  \/ /\ r.pc \in InCall /\ r.op = "get" /\ r.q = Cancel!p2tq /\ Len(block) < BlockSize
     /\ r.pc # "ret" => r.msg = <<>>
  \/ /\ r.pc \in InCall /\ r.op = "put" /\ r.q = Cancel!t2rq
     /\ r.pc # "ret" => r.msg = block
ReceiverCall(r, block) ==
  \/ r.pc = "check" /\ block = <<>> /\ r.op = "none"
  \/ /\ r.pc \in InCall /\ r.op = "get" /\ r.q = Cancel!t2rq /\ block = <<>>
     /\ r.pc # "ret" => r.msg = <<>>
  \/ /\ r.pc \in InCall /\ r.op = "put" /\ block # <<>> /\ r.q = Cancel!r2cq(Head(block)[1])
     /\ r.pc # "ret" => r.msg = Head(block)
Calls ==
  /\ \A n \in PairNumbers :
       /\ th[Cancel!Producer(n)].pc # "done"
            => ProducerCall(n, th[Cancel!Producer(n)], cDone[Cancel!Producer(n)])
       /\ th[Cancel!Consumer(n)].pc # "done"
            => ConsumerCall(n, th[Cancel!Consumer(n)], cDone[Cancel!Consumer(n)])
  /\ th[Cancel!Transmitter].pc # "done" => TransmitterCall(th[Cancel!Transmitter], cTBlock)
  /\ th[Cancel!Receiver].pc # "done" => ReceiverCall(th[Cancel!Receiver], cRBlock)
\* A get that is not cancelled has returned a message of its queue.
Answered ==
  \A t \in Cancel!Threads :
    th[t].pc = "ret" /\ th[t].op = "get" /\ ~shutDownGet => th[t].msg \in Kind(th[t].q)
\* A thread that is about to change a queue owns its guard and has tested it.
Tested ==
  \A t \in Cancel!Threads :
    th[t].pc = "act" /\ ~Cancel!Cancelled(th[t].op)
      => guard[th[t].q] = t /\ ~Cancel!Blocks(th[t].op, th[t].q)
\* Calls are cancelled only after the boss has set ShutDown.
CancelledLate ==
  shutDownGet \/ shutDownPut \/ apc # {} \/ cBoss \in {"cancel T", "cancel R"} => cShutDown
CancelInv == CancelTypes /\ Calls /\ Answered /\ Tested /\ CancelledLate

-----------------------------------------------------------------------------
\* Threads and queues have names of their own.
LEMMA CancelNames ==
  /\ \A n \in PairNumbers :
       /\ Cancel!Producer(n) \in Cancel!Producers /\ Cancel!Consumer(n) \in Cancel!Consumers
       /\ Cancel!Producer(n) \notin {Cancel!Transmitter, Cancel!Receiver}
       /\ Cancel!Consumer(n) \notin {Cancel!Transmitter, Cancel!Receiver}
       /\ \A m \in PairNumbers :
            /\ Cancel!Producer(n) # Cancel!Consumer(m)
            /\ Cancel!Producer(n) = Cancel!Producer(m) => n = m
            /\ Cancel!Consumer(n) = Cancel!Consumer(m) => n = m
            /\ Cancel!r2cq(n) = Cancel!r2cq(m) => n = m
  /\ \A t \in Cancel!Threads :
       \/ t = Cancel!Transmitter \/ t = Cancel!Receiver
       \/ \E n \in PairNumbers : t = Cancel!Producer(n) \/ t = Cancel!Consumer(n)
  /\ Cancel!Producers \cup Cancel!Consumers \cup {Cancel!Transmitter, Cancel!Receiver}
       \subseteq Cancel!Threads
  /\ Cancel!Transmitter # Cancel!Receiver /\ Cancel!Nobody \notin Cancel!Threads
BY DEF Cancel!Producer, Cancel!Consumer, Cancel!Producers, Cancel!Consumers, Cancel!Threads,
       Cancel!Transmitter, Cancel!Receiver, Cancel!Nobody, Cancel!r2cq

\* The queues have names of their own, and hold messages or blocks.
LEMMA QueueNames ==
  /\ Cancel!p2tq \in Cancel!Queues /\ Cancel!t2rq \in Cancel!Queues /\ Cancel!p2tq # Cancel!t2rq
  /\ \A n \in PairNumbers :
       /\ Cancel!r2cq(n) \in Cancel!Queues
       /\ Cancel!r2cq(n) # Cancel!p2tq /\ Cancel!r2cq(n) # Cancel!t2rq
  /\ Kind(Cancel!t2rq) = Blocks /\ Kind(Cancel!p2tq) = PairMessages
  /\ \A n \in PairNumbers : Kind(Cancel!r2cq(n)) = {n} \X Nat
  /\ \A q \in Cancel!Queues : Kind(q) \subseteq PairMessages \cup Blocks
  /\ <<>> \in Blocks
<1>1. /\ Cancel!p2tq \in Cancel!Queues /\ Cancel!t2rq \in Cancel!Queues /\ Cancel!p2tq # Cancel!t2rq
      /\ \A n \in PairNumbers :
           /\ Cancel!r2cq(n) \in Cancel!Queues
           /\ Cancel!r2cq(n) # Cancel!p2tq /\ Cancel!r2cq(n) # Cancel!t2rq
           /\ Cancel!r2cq(n)[2] = n
  BY DEF Cancel!Queues, Cancel!p2tq, Cancel!t2rq, Cancel!r2cq
<1>2. /\ Kind(Cancel!t2rq) = Blocks /\ Kind(Cancel!p2tq) = PairMessages
      /\ \A n \in PairNumbers : Kind(Cancel!r2cq(n)) = {n} \X Nat
  BY <1>1 DEF Kind
<1>3. ASSUME NEW q \in Cancel!Queues PROVE Kind(q) \subseteq PairMessages \cup Blocks
  <2>1. q \in {Cancel!p2tq, Cancel!t2rq} \/ \E n \in PairNumbers : q = Cancel!r2cq(n)
    BY DEF Cancel!Queues
  <2>2. \A n \in PairNumbers : {n} \X Nat \subseteq PairMessages
    BY DEF PairMessages
  <2> QED BY <1>2, <2>1, <2>2
<1>4. <<>> \in Blocks
  BY PipelinesAssumption DEF Blocks
<1> QED BY <1>1, <1>2, <1>3, <1>4

\* At the start no thread is in a call.
LEMMA CancelInvInit == PipelinesInit => CancelInv
<1> SUFFICES ASSUME NEW n \in Nat, NEW g \in Nat, Cancel!InitOf(n, g) PROVE CancelInv
  BY PipelinesAssumption DEF PipelinesInit, Cancel!Init
<1>1. /\ cGoal = g /\ cQueue = [q \in Cancel!Queues |-> <<>>]
      /\ guard = [q \in Cancel!Queues |-> Cancel!Nobody] /\ cSignaled = {}
      /\ cDone = [t \in Cancel!Producers \cup Cancel!Consumers |-> 0] /\ cTBlock = <<>> /\ cRBlock = <<>>
      /\ apc = {} /\ shutDownGet = FALSE /\ shutDownPut = FALSE /\ cShutDown = FALSE
      /\ cBoss \in {"finished", "producers"}
  BY DEF Cancel!InitOf
<1>2. th = [t \in Cancel!Threads |->
            IF n = 0 \/ t[2] > n THEN Cancel!At("done")
            ELSE IF t \in Cancel!Producers THEN Cancel!NextPut(t[2], 0)
            ELSE IF t \in Cancel!Consumers THEN Cancel!NextGet(t[2], 0) ELSE Cancel!At("check")]
  BY DEF Cancel!InitOf
<1>3. /\ \A p \in PairNumbers :
           /\ Cancel!Producer(p) \notin Cancel!Consumers /\ Cancel!Producer(p)[2] = p
           /\ Cancel!Consumer(p) \notin Cancel!Producers /\ Cancel!Consumer(p)[2] = p
      /\ Cancel!Transmitter \notin Cancel!Producers \cup Cancel!Consumers
      /\ Cancel!Receiver \notin Cancel!Producers \cup Cancel!Consumers
  BY DEF Cancel!Producer, Cancel!Consumer, Cancel!Producers, Cancel!Consumers,
         Cancel!Transmitter, Cancel!Receiver
<1>4. \A p \in PairNumbers :
        /\ th[Cancel!Producer(p)] \in {Cancel!At("done"), Cancel!NextPut(p, 0)}
        /\ th[Cancel!Consumer(p)] \in {Cancel!At("done"), Cancel!NextGet(p, 0)}
  BY <1>2, <1>3, CancelNames
<1>5. th[Cancel!Transmitter] \in {Cancel!At("done"), Cancel!At("check")}
  BY <1>2, <1>3, CancelNames
<1>6. th[Cancel!Receiver] \in {Cancel!At("done"), Cancel!At("check")}
  BY <1>2, <1>3, CancelNames
<1>7. \A p \in PairNumbers :
        /\ Cancel!NextPut(p, 0) \in {Cancel!At("done")} \cup CallsOf
        /\ Cancel!NextPut(p, 0).pc \in {"done", "lock"}
        /\ Cancel!NextPut(p, 0).pc = "lock" => ProducerCall(p, Cancel!NextPut(p, 0), 0)
  <2> TAKE p \in PairNumbers
  <2>1. <<p, 0>> \in PairMessages
    BY DEF PairMessages
  <2> QED BY <1>1, <2>1, QueueNames DEF Cancel!NextPut, Cancel!At, Cancel!Call, CallsOf, Pcs, ProducerCall, InCall
<1>8. \A p \in PairNumbers :
        /\ Cancel!NextGet(p, 0) \in {Cancel!At("done")} \cup CallsOf
        /\ Cancel!NextGet(p, 0).pc \in {"done", "lock"}
        /\ Cancel!NextGet(p, 0).pc = "lock" => ConsumerCall(p, Cancel!NextGet(p, 0), 0)
  BY <1>1, QueueNames DEF Cancel!NextGet, Cancel!At, Cancel!Call, Cancel!NoMsg, CallsOf, Pcs, ConsumerCall, InCall
<1>9. /\ Cancel!At("done") \in CallsOf /\ Cancel!At("check") \in CallsOf
      /\ Cancel!At("done").pc = "done" /\ Cancel!At("check").pc = "check" /\ Cancel!At("check").op = "none"
  BY QueueNames DEF Cancel!At, Cancel!NoMsg, CallsOf, Pcs
<1>10. th \in [Cancel!Threads -> CallsOf] /\ \A t \in Cancel!Threads : th[t].pc \in {"done", "lock", "check"}
  <2>1. \A t \in Cancel!Threads : th[t] \in CallsOf /\ th[t].pc \in {"done", "lock", "check"}
    BY <1>4, <1>5, <1>6, <1>7, <1>8, <1>9, CancelNames
  <2>2. th = [t \in Cancel!Threads |-> th[t]]
    BY <1>2
  <2> QED BY <2>1, <2>2
<1>11. CancelTypes
  <2>1. \A q \in Cancel!Queues : cQueue[q] \in Seq(Kind(q)) /\ Len(cQueue[q]) <= QSize - 1
    BY <1>1, PipelinesAssumption
  <2>2. guard \in [Cancel!Queues -> Cancel!Threads \cup {Cancel!Nobody}]
    BY <1>1
  <2>3. /\ cDone \in [Cancel!Producers \cup Cancel!Consumers -> Nat]
        /\ \A t \in Cancel!Producers \cup Cancel!Consumers : cDone[t] <= cGoal
    BY <1>1
  <2>4. cQueue = [q \in Cancel!Queues |-> cQueue[q]]
    BY <1>1
  <2>5. /\ cGoal \in Nat /\ cSignaled \subseteq Cancel!Queues \X {"qNe", "qNf"}
        /\ cTBlock \in Blocks /\ cRBlock \in Blocks
        /\ apc \subseteq {Cancel!Transmitter, Cancel!Receiver}
        /\ shutDownGet \in BOOLEAN /\ shutDownPut \in BOOLEAN /\ cShutDown \in BOOLEAN
    BY <1>1, QueueNames
  <2> QED BY <1>10, <2>1, <2>2, <2>3, <2>4, <2>5 DEF CancelTypes
<1>12. Calls
  <2>1. \A p \in PairNumbers : cDone[Cancel!Producer(p)] = 0 /\ cDone[Cancel!Consumer(p)] = 0
    BY <1>1, CancelNames
  <2> QED BY <1>1, <1>4, <1>5, <1>6, <1>7, <1>8, <1>9, <2>1 DEF Calls, TransmitterCall, ReceiverCall
<1>13. Answered /\ Tested /\ CancelledLate
  BY <1>1, <1>10 DEF Answered, Tested, CancelledLate
<1> QED BY <1>11, <1>12, <1>13 DEF CancelInv

\* A step of a queue call: the thread stays in the call, and a message that it
\* does not change until the call returns.
Moved(r, s) ==
  /\ r.pc \in InCall /\ r.pc # "ret" /\ s.pc \in InCall /\ s.op = r.op /\ s.q = r.q
  /\ s.pc # "ret" => s.msg = r.msg
\* A call that moves on stays the call of its thread.
LEMMA MovedCalls ==
  ASSUME NEW r, NEW s, Moved(r, s)
  PROVE  /\ \A n, d : ProducerCall(n, r, d) => ProducerCall(n, s, d)
         /\ \A n, d : ConsumerCall(n, r, d) => ConsumerCall(n, s, d)
         /\ \A b : TransmitterCall(r, b) => TransmitterCall(s, b)
         /\ \A b : ReceiverCall(r, b) => ReceiverCall(s, b)
BY DEF Moved, ProducerCall, ConsumerCall, TransmitterCall, ReceiverCall, InCall

\* The calls of all threads are kept when each moves on in its call.
LEMMA CallsMoved ==
  ASSUME CancelInv, \A t \in Cancel!Threads : th'[t] = th[t] \/ Moved(th[t], th'[t]),
         cDone' = cDone, cTBlock' = cTBlock, cRBlock' = cRBlock, cGoal' = cGoal
  PROVE  Calls'
<1> DEFINE P(n) == Cancel!Producer(n)
           C(n) == Cancel!Consumer(n)
           T == Cancel!Transmitter
           R == Cancel!Receiver
<1>1. \A n \in PairNumbers : P(n) \in Cancel!Threads /\ C(n) \in Cancel!Threads
  BY CancelNames
<1>2. T \in Cancel!Threads /\ R \in Cancel!Threads
  BY CancelNames
<1> HIDE DEF P, C, T, R
<1>3. \A t \in Cancel!Threads : Moved(th[t], th'[t]) => th[t].pc # "done"
  BY DEF Moved, InCall
<1>4. /\ \A n \in PairNumbers :
           /\ th[P(n)].pc # "done" => ProducerCall(n, th[P(n)], cDone[P(n)])
           /\ th[C(n)].pc # "done" => ConsumerCall(n, th[C(n)], cDone[C(n)])
      /\ th[T].pc # "done" => TransmitterCall(th[T], cTBlock)
      /\ th[R].pc # "done" => ReceiverCall(th[R], cRBlock)
  BY DEF CancelInv, Calls, P, C, T, R
<1>5. \A n, r, d : /\ ProducerCall(n, r, d)' <=> ProducerCall(n, r, d)
                   /\ ConsumerCall(n, r, d)' <=> ConsumerCall(n, r, d)
  BY DEF ProducerCall, ConsumerCall
<1>6. ASSUME NEW n \in PairNumbers
      PROVE  /\ th'[P(n)].pc # "done" => ProducerCall(n, th'[P(n)], cDone[P(n)])
             /\ th'[C(n)].pc # "done" => ConsumerCall(n, th'[C(n)], cDone[C(n)])
  BY <1>1, <1>3, <1>4, MovedCalls
<1>7. /\ th'[T].pc # "done" => TransmitterCall(th'[T], cTBlock)
      /\ th'[R].pc # "done" => ReceiverCall(th'[R], cRBlock)
  BY <1>2, <1>3, <1>4, MovedCalls
<1> QED BY <1>6, <1>7 DEF Calls, P, C, T, R, ProducerCall, ConsumerCall, TransmitterCall, ReceiverCall

\* A step that changes no more than the statement of a call.
LEMMA PcOnly ==
  ASSUME CancelInv, NEW t \in Cancel!Threads, NEW x \in InCall,
         th[t].pc \in InCall, th[t].pc # "ret", th' = [th EXCEPT ![t].pc = x],
         cDone' = cDone, cTBlock' = cTBlock, cRBlock' = cRBlock, cGoal' = cGoal,
         shutDownGet => shutDownGet', x = "ret" => Cancel!Cancelled(th[t].op)
  PROVE  /\ th' \in [Cancel!Threads -> CallsOf] /\ Calls' /\ Answered'
         /\ \A u \in Cancel!Threads \ {t} : th'[u] = th[u]
         /\ th'[t].pc = x /\ th'[t].op = th[t].op /\ th'[t].q = th[t].q
<1>1. th \in [Cancel!Threads -> CallsOf]
  BY DEF CancelInv, CancelTypes
<1>2. th[t] \in CallsOf
  BY <1>1
<1> DEFINE s == [th[t] EXCEPT !.pc = x]
<1>3. s.pc = x /\ s.op = th[t].op /\ s.q = th[t].q /\ s.msg = th[t].msg /\ s \in CallsOf
  BY <1>2 DEF CallsOf, InCall, Pcs
<1>4. th' = [th EXCEPT ![t] = s]
  OBVIOUS
<1> HIDE DEF s
<1>5. th'[t] = s /\ \A u \in Cancel!Threads \ {t} : th'[u] = th[u]
  BY <1>1, <1>4
<1>6. th' \in [Cancel!Threads -> CallsOf]
  BY <1>1, <1>3, <1>4
<1>7. Moved(th[t], th'[t])
  BY <1>3, <1>5 DEF Moved
<1>8. Calls'
  BY <1>5, <1>7, CallsMoved
<1>9. Answered'
  BY <1>3, <1>5 DEF Answered, CancelInv, Cancel!Cancelled
<1> QED BY <1>3, <1>5, <1>6, <1>8, <1>9

\* QueueGet or QueuePut gets the guard, or goes on waiting for it.
LEMMA EnterKeeps == \A t \in Cancel!Threads : CancelInv /\ Cancel!Enter(t) => CancelInv'
<1> SUFFICES ASSUME CancelInv, NEW t \in Cancel!Threads, Cancel!Enter(t) PROVE CancelInv'
  OBVIOUS
<1> DEFINE q == th[t].q
           busy == Cancel!Cancelled(th[t].op) \/ ~Cancel!Blocks(th[t].op, q)
<1>1. /\ th[t].pc = "lock" /\ guard[q] = Cancel!Nobody
      /\ UNCHANGED <<cGoal, cQueue, cDone, cTBlock, cRBlock, apc, shutDownGet, shutDownPut, cShutDown, cBoss>>
  BY DEF Cancel!Enter, Cancel!args, Cancel!work, Cancel!flags
<1>2. /\ busy => guard' = [guard EXCEPT ![q] = t] /\ cSignaled' = cSignaled
      /\ ~busy => guard' = guard /\ cSignaled' \subseteq cSignaled
  BY DEF Cancel!Enter
<1>3. PICK x \in {"act", "lock", "wait"} : th' = [th EXCEPT ![t].pc = x] /\ (x = "act" <=> busy)
  BY DEF Cancel!Enter, Cancel!Goto
<1> HIDE DEF busy, q
<1>4. /\ th' \in [Cancel!Threads -> CallsOf] /\ Calls' /\ Answered'
      /\ \A u \in Cancel!Threads \ {t} : th'[u] = th[u]
      /\ th'[t].pc = x /\ th'[t].op = th[t].op /\ th'[t].q = th[t].q
  BY <1>1, <1>3, PcOnly DEF InCall
<1>5. q \in Cancel!Queues
  BY DEF CancelInv, CancelTypes, CallsOf, q
<1>6. CancelTypes'
  BY <1>1, <1>2, <1>4, <1>5 DEF CancelInv, CancelTypes
<1>7. Tested'
  <2>1. \A op, p : /\ Cancel!Cancelled(op)' <=> Cancel!Cancelled(op)
                   /\ Cancel!Blocks(op, p)' <=> Cancel!Blocks(op, p)
    BY <1>1 DEF Cancel!Cancelled, Cancel!Blocks
  <2>2. ASSUME NEW u \in Cancel!Threads \ {t}, th[u].pc = "act", ~Cancel!Cancelled(th[u].op)
        PROVE  guard'[th[u].q] = u /\ ~Cancel!Blocks(th[u].op, th[u].q)
    <3>1. guard[th[u].q] = u /\ ~Cancel!Blocks(th[u].op, th[u].q) /\ th[u].q # q
      BY <1>1, <2>2, CancelNames DEF CancelInv, Tested
    <3>2. guard \in [Cancel!Queues -> Cancel!Threads \cup {Cancel!Nobody}] /\ th[u].q \in Cancel!Queues
      BY DEF CancelInv, CancelTypes, CallsOf
    <3>3. guard'[th[u].q] = guard[th[u].q]
      BY <1>2, <3>1, <3>2
    <3> QED BY <3>1, <3>3
  <2>3. x = "act" /\ ~Cancel!Cancelled(th[t].op) => guard'[q] = t /\ ~Cancel!Blocks(th[t].op, q)
    BY <1>2, <1>3, <1>5 DEF busy, CancelInv, CancelTypes
  <2>4. \A u \in Cancel!Threads :
          th'[u].pc = "act" /\ ~Cancel!Cancelled(th'[u].op)
            => guard'[th'[u].q] = u /\ ~Cancel!Blocks(th'[u].op, th'[u].q)
    BY <1>4, <2>2, <2>3 DEF q
  <2> QED BY <1>1, <2>4 DEF Tested, Cancel!Cancelled, Cancel!Blocks
<1>8. CancelledLate'
  BY <1>1 DEF CancelInv, CancelledLate
<1> QED BY <1>4, <1>6, <1>7, <1>8 DEF CancelInv

\* An APC that has been queued sets its flag when the thread waits.
LEMMA ApcKeeps ==
  \A t \in Cancel!Threads :
    CancelInv /\ (Cancel!QueueShutDown(t) \/ Cancel!CheckAPC(t)) => CancelInv'
<1> SUFFICES ASSUME CancelInv, NEW t \in Cancel!Threads, Cancel!QueueShutDown(t) \/ Cancel!CheckAPC(t)
             PROVE  CancelInv'
  OBVIOUS
<1>1. /\ th[t].pc \in {"wait", "check APC"}
      /\ UNCHANGED <<cGoal, cQueue, guard, cSignaled, cDone, cTBlock, cRBlock, cShutDown, cBoss>>
      /\ apc' \subseteq apc
  BY DEF Cancel!QueueShutDown, Cancel!CheckAPC, Cancel!args, Cancel!queues, Cancel!work, Cancel!flags
<1>2. /\ shutDownGet => shutDownGet'
      /\ shutDownPut => shutDownPut'
      /\ shutDownGet' \in BOOLEAN /\ shutDownPut' \in BOOLEAN
  BY Zenon DEF Cancel!QueueShutDown, Cancel!CheckAPC, Cancel!flags, CancelInv, CancelTypes
<1>3. PICK x \in {"check APC", "act", "lock"} :
        th' = [th EXCEPT ![t].pc = x] /\ (x = "act" => Cancel!Cancelled(th[t].op))
  <2>1. CASE Cancel!QueueShutDown(t)
    BY <2>1 DEF Cancel!QueueShutDown, Cancel!Goto
  <2>2. CASE Cancel!CheckAPC(t)
    BY <2>2 DEF Cancel!CheckAPC, Cancel!Goto
  <2> QED BY <2>1, <2>2
<1>4. /\ th' \in [Cancel!Threads -> CallsOf] /\ Calls' /\ Answered'
      /\ \A u \in Cancel!Threads \ {t} : th'[u] = th[u]
      /\ th'[t].pc = x /\ th'[t].op = th[t].op /\ th'[t].q = th[t].q
  BY <1>1, <1>2, <1>3, PcOnly DEF InCall
<1>5. CancelTypes'
  BY <1>1, <1>2, <1>4 DEF CancelInv, CancelTypes
<1>6. CancelledLate'
  <2>1. (shutDownGet' \/ shutDownPut') => shutDownGet \/ shutDownPut \/ apc # {}
    BY DEF Cancel!QueueShutDown, Cancel!CheckAPC, Cancel!flags
  <2> QED BY <1>1, <2>1 DEF CancelInv, CancelledLate
<1>7. Tested'
  BY <1>1, <1>2, <1>3, <1>4 DEF CancelInv, Tested, Cancel!Cancelled, Cancel!Blocks
<1> QED BY <1>4, <1>5, <1>6, <1>7 DEF CancelInv

\* What a block starts with.
LEMMA BlockHead ==
  \A b \in Blocks : b # <<>> =>
    Head(b) \in PairMessages /\ Head(b)[1] \in PairNumbers /\ Head(b) \in {Head(b)[1]} \X Nat
      /\ Tail(b) \in Blocks
<1> SUFFICES ASSUME NEW b \in Blocks, b # <<>>
             PROVE  Head(b) \in PairMessages /\ Head(b)[1] \in PairNumbers
                      /\ Head(b) \in {Head(b)[1]} \X Nat /\ Tail(b) \in Blocks
  OBVIOUS
<1>1. b \in Seq(PairMessages) /\ Len(b) <= BlockSize /\ BlockSize \in Nat
  BY PipelinesAssumption DEF Blocks
<1>2. Head(b) \in PairMessages /\ Tail(b) \in Seq(PairMessages) /\ Len(Tail(b)) = Len(b) - 1 /\ Len(b) \in Nat
  BY <1>1
<1>3. \A m \in PairMessages : m[1] \in PairNumbers /\ m \in {m[1]} \X Nat
  BY DEF PairMessages
<1> QED BY <1>1, <1>2, <1>3 DEF Blocks

\* The call that a thread is in: what it puts is of the kind of the queue.
LEMMA CallFacts ==
  ASSUME CancelInv, NEW t \in Cancel!Threads, th[t].pc \in InCall
  PROVE  /\ th[t].op \in {"get", "put"} /\ th[t].q \in Cancel!Queues
         /\ th[t].op = "put" /\ th[t].pc # "ret" => th[t].msg \in Kind(th[t].q)
<1>1. th[t].q \in Cancel!Queues
  BY DEF CancelInv, CancelTypes, CallsOf
<1>2. CASE t = Cancel!Transmitter
  <2>1. TransmitterCall(th[t], cTBlock) /\ th[t].pc # "check" /\ cTBlock \in Blocks
    BY <1>2 DEF CancelInv, Calls, CancelTypes, InCall
  <2> QED BY <1>1, <2>1, QueueNames DEF TransmitterCall
<1>3. CASE t = Cancel!Receiver
  <2>1. ReceiverCall(th[t], cRBlock) /\ th[t].pc # "check" /\ cRBlock \in Blocks
    BY <1>3 DEF CancelInv, Calls, CancelTypes, InCall
  <2> QED BY <1>1, <2>1, QueueNames, BlockHead DEF ReceiverCall
<1>4. ASSUME NEW n \in PairNumbers, t = Cancel!Producer(n)
      PROVE  th[t].op = "put" /\ th[t].pc # "ret" => th[t].msg \in Kind(th[t].q)
  <2>1. ProducerCall(n, th[t], cDone[t]) /\ cDone[t] \in Nat
    BY <1>4, CancelNames DEF CancelInv, Calls, CancelTypes, InCall
  <2> QED BY <2>1, QueueNames DEF ProducerCall, PairMessages
<1>5. ASSUME NEW n \in PairNumbers, t = Cancel!Producer(n) \/ t = Cancel!Consumer(n)
      PROVE  /\ th[t].op \in {"get", "put"}
             /\ t = Cancel!Consumer(n) => th[t].op = "get"
  <2>1. ProducerCall(n, th[t], cDone[t]) \/ ConsumerCall(n, th[t], cDone[t])
    BY <1>5 DEF CancelInv, Calls, InCall
  <2>2. t = Cancel!Consumer(n) => ConsumerCall(n, th[t], cDone[t])
    BY DEF CancelInv, Calls, InCall
  <2> QED BY <2>1, <2>2 DEF ProducerCall, ConsumerCall
<1> QED BY <1>1, <1>2, <1>3, <1>4, <1>5, CancelNames

\* A call that is not cancelled acts on its queue.
Acts(t) == Cancel!Act(t) /\ ~Cancel!Cancelled(th[t].op)
Answer(t) == IF th[t].op = "get" THEN Head(cQueue[th[t].q]) ELSE <<>>
Returned(t) == [th[t] EXCEPT !.pc = "ret", !.msg = Answer(t)]
\* What a call that acts finds, and what it leaves.
LEMMA ActFacts ==
  ASSUME CancelInv, NEW t \in Cancel!Threads, Acts(t)
  PROVE  /\ th[t].pc = "act" /\ guard[th[t].q] = t /\ guard' = [guard EXCEPT ![th[t].q] = Cancel!Nobody]
         /\ th[t].op \in {"get", "put"} /\ th[t].q \in Cancel!Queues
         /\ th[t].op = "get" => cQueue[th[t].q] # <<>> /\ Answer(t) \in Kind(th[t].q)
         /\ th[t].op = "put" => Len(cQueue[th[t].q]) < QSize - 1 /\ th[t].msg \in Kind(th[t].q)
         /\ cQueue' = [cQueue EXCEPT ![th[t].q] = IF th[t].op = "get" THEN Tail(@) ELSE Append(@, th[t].msg)]
         /\ cSignaled' \subseteq Cancel!Queues \X {"qNe", "qNf"}
         /\ th' \in [Cancel!Threads -> CallsOf] /\ th'[t] = Returned(t)
         /\ \A u \in Cancel!Threads \ {t} :
              th'[u] = th[u] \/ (th[u].pc = "wait" /\ th'[u] = [th[u] EXCEPT !.pc = "lock"])
         /\ UNCHANGED <<cGoal, cDone, cTBlock, cRBlock, apc, shutDownGet, shutDownPut, cShutDown, cBoss>>
<1> DEFINE q == th[t].q
           op == th[t].op
           thNow == [th EXCEPT ![t] = Returned(t)]
<1>1. /\ th[t].pc = "act" /\ th \in [Cancel!Threads -> CallsOf] /\ th[t] \in CallsOf
      /\ UNCHANGED <<cGoal, cDone, cTBlock, cRBlock, apc, shutDownGet, shutDownPut, cShutDown, cBoss>>
  BY DEF Acts, Cancel!Act, CancelInv, CancelTypes, Cancel!args, Cancel!work, Cancel!flags
<1>2. /\ guard' = [guard EXCEPT ![q] = Cancel!Nobody]
      /\ cQueue' = [cQueue EXCEPT ![q] = IF op = "get" THEN Tail(@) ELSE Append(@, th[t].msg)]
      /\ Cancel!SetEvent(q, Cancel!Other(op), thNow)
  BY DEF Acts, Cancel!Act, Returned, Answer, Cancel!NoMsg
<1>3. guard[q] = t /\ ~Cancel!Blocks(op, q)
  BY <1>1 DEF Acts, CancelInv, Tested
<1>4. op \in {"get", "put"} /\ q \in Cancel!Queues /\ (op = "put" => th[t].msg \in Kind(q))
  BY <1>1, CallFacts DEF InCall
<1>5. cQueue[q] \in Seq(Kind(q)) /\ Len(cQueue[q]) <= QSize - 1 /\ QSize \in Nat
  BY <1>4, PipelinesAssumption DEF CancelInv, CancelTypes
<1>6. op = "get" => cQueue[q] # <<>> /\ Answer(t) \in Kind(q)
  <2> SUFFICES ASSUME op = "get" PROVE cQueue[q] # <<>> /\ Head(cQueue[q]) \in Kind(q)
    BY DEF Answer
  <2>1. cQueue[q] # <<>>
    BY <1>3 DEF Cancel!Blocks
  <2> HIDE DEF q, op
  <2> QED BY <1>5, <2>1
<1>7. op = "put" => Len(cQueue[q]) < QSize - 1
  <2> SUFFICES ASSUME op = "put" PROVE Len(cQueue[q]) < QSize - 1
    OBVIOUS
  <2>1. Len(cQueue[q]) # QSize - 1 /\ Len(cQueue[q]) \in Nat
    BY <1>3, <1>5 DEF Cancel!Blocks
  <2> QED BY <1>5, <2>1
<1>8. Returned(t) \in CallsOf
  <2>1. Answer(t) \in PairMessages \cup Blocks
    BY <1>4, <1>6, QueueNames DEF Answer
  <2> QED BY <1>1, <2>1 DEF Returned, CallsOf, Pcs
<1>9. thNow \in [Cancel!Threads -> CallsOf] /\ thNow[t] = Returned(t)
      /\ \A u \in Cancel!Threads \ {t} : thNow[u] = th[u]
  BY <1>1, <1>8
<1>10. Cancel!Event(Cancel!Other(op)) \in {"qNe", "qNf"} /\ cSignaled \subseteq Cancel!Queues \X {"qNe", "qNf"}
  BY DEF Cancel!Event, CancelInv, CancelTypes
<1> HIDE DEF q, op, thNow
<1>11. \/ th' = thNow /\ cSignaled' = cSignaled \cup {<<q, Cancel!Event(Cancel!Other(op))>>}
       \/ \E u \in Cancel!Threads : th[u].pc = "wait" /\ th' = [thNow EXCEPT ![u].pc = "lock"] /\ cSignaled' = cSignaled
  BY <1>2 DEF Cancel!SetEvent, Cancel!Waiting
<1>12. cSignaled' \subseteq Cancel!Queues \X {"qNe", "qNf"}
  BY <1>4, <1>10, <1>11
<1>13. /\ th' \in [Cancel!Threads -> CallsOf] /\ th'[t] = Returned(t)
       /\ \A u \in Cancel!Threads \ {t} :
            th'[u] = th[u] \/ (th[u].pc = "wait" /\ th'[u] = [th[u] EXCEPT !.pc = "lock"])
  <2>1. CASE th' = thNow
    BY <1>9, <2>1
  <2>2. ASSUME NEW u \in Cancel!Threads, th[u].pc = "wait", th' = [thNow EXCEPT ![u].pc = "lock"]
        PROVE  /\ th' \in [Cancel!Threads -> CallsOf] /\ th'[t] = Returned(t)
               /\ \A v \in Cancel!Threads \ {t} :
                    th'[v] = th[v] \/ (th[v].pc = "wait" /\ th'[v] = [th[v] EXCEPT !.pc = "lock"])
    <3>1. u # t /\ thNow[u] = th[u] /\ th[u] \in CallsOf
      BY <1>1, <1>9, <2>2
    <3> DEFINE s == [th[u] EXCEPT !.pc = "lock"]
    <3>2. s \in CallsOf
      BY <3>1 DEF CallsOf, Pcs
    <3>3. th' = [thNow EXCEPT ![u] = s]
      BY <2>2, <3>1
    <3> HIDE DEF s
    <3>4. th'[u] = s /\ th' \in [Cancel!Threads -> CallsOf] /\ \A v \in Cancel!Threads \ {u} : th'[v] = thNow[v]
      BY <1>9, <3>2, <3>3
    <3> QED BY <1>9, <2>2, <3>1, <3>4 DEF s
  <2> QED BY <1>11, <2>1, <2>2
<1> QED BY <1>1, <1>2, <1>3, <1>4, <1>6, <1>7, <1>12, <1>13 DEF q, op

\* The call that gets or puts keeps the invariant, cancelled or not.
LEMMA ActKeeps == \A t \in Cancel!Threads : CancelInv /\ Cancel!Act(t) => CancelInv'
<1> SUFFICES ASSUME CancelInv, NEW t \in Cancel!Threads, Cancel!Act(t) PROVE CancelInv'
  OBVIOUS
<1>1. CASE Cancel!Cancelled(th[t].op)
  <2>1. /\ th[t].pc = "act" /\ th' = [th EXCEPT ![t].pc = "ret"]
        /\ UNCHANGED <<cGoal, cQueue, guard, cSignaled, cDone, cTBlock, cRBlock, apc,
                       shutDownGet, shutDownPut, cShutDown, cBoss>>
    BY <1>1 DEF Cancel!Act, Cancel!Goto, Cancel!args, Cancel!queues, Cancel!work, Cancel!flags
  <2>2. /\ th' \in [Cancel!Threads -> CallsOf] /\ Calls' /\ Answered'
        /\ \A u \in Cancel!Threads \ {t} : th'[u] = th[u]
        /\ th'[t].pc = "ret"
    BY <1>1, <2>1, PcOnly DEF InCall
  <2>3. CancelTypes' /\ CancelledLate'
    BY <2>1, <2>2 DEF CancelInv, CancelTypes, CancelledLate
  <2>4. Tested'
    BY <2>1, <2>2 DEF CancelInv, Tested, Cancel!Cancelled, Cancel!Blocks
  <2> QED BY <2>2, <2>3, <2>4 DEF CancelInv
<1>2. CASE ~Cancel!Cancelled(th[t].op)
  <2> DEFINE q == th[t].q
             op == th[t].op
             new == IF op = "get" THEN Tail(cQueue[q]) ELSE Append(cQueue[q], th[t].msg)
  <2>1. /\ th[t].pc = "act" /\ guard[q] = t /\ guard' = [guard EXCEPT ![q] = Cancel!Nobody]
        /\ op \in {"get", "put"} /\ q \in Cancel!Queues
        /\ op = "get" => cQueue[q] # <<>> /\ Answer(t) \in Kind(q)
        /\ op = "put" => Len(cQueue[q]) < QSize - 1 /\ th[t].msg \in Kind(q)
        /\ cQueue' = [cQueue EXCEPT ![q] = new]
        /\ cSignaled' \subseteq Cancel!Queues \X {"qNe", "qNf"}
        /\ th' \in [Cancel!Threads -> CallsOf] /\ th'[t] = Returned(t)
        /\ \A u \in Cancel!Threads \ {t} :
             th'[u] = th[u] \/ (th[u].pc = "wait" /\ th'[u] = [th[u] EXCEPT !.pc = "lock"])
        /\ UNCHANGED <<cGoal, cDone, cTBlock, cRBlock, apc, shutDownGet, shutDownPut, cShutDown, cBoss>>
    BY <1>2, ActFacts DEF Acts
  <2>2. th \in [Cancel!Threads -> CallsOf] /\ QSize \in Nat
    BY PipelinesAssumption DEF CancelInv, CancelTypes
  <2>3. /\ Returned(t).pc = "ret" /\ Returned(t).op = op /\ Returned(t).q = q
        /\ Returned(t).msg = Answer(t)
    BY <2>2 DEF Returned, CallsOf
  <2>4. \A u \in Cancel!Threads \ {t} :
          /\ th'[u].op = th[u].op /\ th'[u].q = th[u].q /\ th'[u].msg = th[u].msg
          /\ th'[u].pc = th[u].pc \/ (th[u].pc = "wait" /\ th'[u].pc = "lock")
    BY <2>1, <2>2 DEF CallsOf
  <2>5. new \in Seq(Kind(q)) /\ Len(new) <= QSize - 1
    <3>1. cQueue[q] \in Seq(Kind(q)) /\ Len(cQueue[q]) <= QSize - 1
      BY <2>1 DEF CancelInv, CancelTypes
    <3>2. ASSUME op = "get" PROVE Tail(cQueue[q]) \in Seq(Kind(q)) /\ Len(Tail(cQueue[q])) <= QSize - 1
      <4>1. cQueue[q] # <<>>
        BY <2>1, <3>2
      <4> HIDE DEF q, op
      <4> QED BY <2>2, <3>1, <4>1
    <3>3. ASSUME op # "get"
          PROVE  Append(cQueue[q], th[t].msg) \in Seq(Kind(q)) /\ Len(Append(cQueue[q], th[t].msg)) <= QSize - 1
      <4>1. th[t].msg \in Kind(q) /\ Len(cQueue[q]) < QSize - 1
        BY <2>1, <3>3
      <4> HIDE DEF q, op
      <4> QED BY <2>2, <3>1, <4>1
    <3> QED BY <3>2, <3>3
  <2> HIDE DEF new, q, op
  <2>6. CancelTypes'
    <3>1. \A p \in Cancel!Queues : cQueue'[p] \in Seq(Kind(p)) /\ Len(cQueue'[p]) <= QSize - 1
      BY <2>1, <2>5 DEF CancelInv, CancelTypes
    <3>2. cQueue' = [p \in Cancel!Queues |-> cQueue'[p]]
      BY <2>1 DEF CancelInv, CancelTypes
    <3>3. guard' \in [Cancel!Queues -> Cancel!Threads \cup {Cancel!Nobody}]
      BY <2>1 DEF CancelInv, CancelTypes
    <3> QED BY <2>1, <3>1, <3>2, <3>3 DEF CancelInv, CancelTypes
  <2>7. Calls'
    <3>1. \A u \in Cancel!Threads : th'[u] = th[u] \/ Moved(th[u], th'[u])
      <4>1. Moved(th[t], th'[t])
        BY <2>1, <2>3 DEF Moved, InCall, q, op
      <4>2. ASSUME NEW u \in Cancel!Threads \ {t}, th[u].pc = "wait", th'[u] = [th[u] EXCEPT !.pc = "lock"]
            PROVE  Moved(th[u], th'[u])
        <5>1. th'[u].pc = "lock"
          BY <2>2, <4>2 DEF CallsOf
        <5> QED BY <2>4, <4>2, <5>1 DEF Moved, InCall
      <4> QED BY <2>1, <4>1, <4>2
    <3> QED BY <2>1, <3>1, CallsMoved
  <2>8. Answered'
    <3>1. th'[t].op = "get" => th'[t].msg \in Kind(th'[t].q)
      BY <2>1, <2>3 DEF op, q
    <3> QED BY <2>1, <2>4, <3>1 DEF CancelInv, Answered
  <2>9. Tested'
    <3>1. \A o : Cancel!Cancelled(o)' <=> Cancel!Cancelled(o)
      BY <2>1 DEF Cancel!Cancelled
    <3>2. ASSUME NEW u \in Cancel!Threads, th'[u].pc = "act", ~Cancel!Cancelled(th'[u].op)
          PROVE  /\ guard'[th'[u].q] = u /\ ~(IF th'[u].op = "get" THEN cQueue'[th'[u].q] = <<>>
                                             ELSE Len(cQueue'[th'[u].q]) = QSize - 1)
      <4>1. u # t /\ th[u].pc = "act" /\ th'[u].op = th[u].op /\ th'[u].q = th[u].q
        BY <2>1, <2>3, <2>4, <3>2
      <4>2. guard[th[u].q] = u /\ ~Cancel!Blocks(th[u].op, th[u].q)
        BY <3>2, <4>1 DEF CancelInv, Tested
      <4>3. th[u].q # q /\ th[u].q \in Cancel!Queues
        BY <2>1, <2>2, <4>1, <4>2 DEF CallsOf
      <4>4. guard'[th[u].q] = guard[th[u].q] /\ cQueue'[th[u].q] = cQueue[th[u].q]
        BY <2>1, <4>3 DEF CancelInv, CancelTypes
      <4> QED BY <4>1, <4>2, <4>4 DEF Cancel!Blocks
    <3> QED BY <2>1, <3>2 DEF Tested, Cancel!Cancelled, Cancel!Blocks
  <2>10. CancelledLate'
    BY <2>1 DEF CancelInv, CancelledLate
  <2> QED BY <2>6, <2>7, <2>8, <2>9, <2>10 DEF CancelInv
<1> QED BY <1>1, <1>2

\* The boss sets ShutDown and queues the APCs.
LEMMA BossKeeps == CancelInv /\ Cancel!BossStep => CancelInv'
<1> SUFFICES ASSUME CancelInv, Cancel!BossStep PROVE CancelInv'
  OBVIOUS
<1>1. /\ UNCHANGED <<cGoal, cQueue, guard, cSignaled, th, cDone, cTBlock, cRBlock, shutDownGet, shutDownPut>>
  BY DEF Cancel!BossStep, Cancel!args, Cancel!queues, Cancel!work
<1>2. apc' \subseteq {Cancel!Transmitter, Cancel!Receiver} /\ cShutDown' \in BOOLEAN /\ (cShutDown => cShutDown')
  BY DEF Cancel!BossStep, CancelInv, CancelTypes
<1>3. CancelTypes'
  BY <1>1, <1>2 DEF CancelInv, CancelTypes
<1>4. Calls' /\ Answered' /\ Tested'
  BY <1>1 DEF CancelInv, Calls, Answered, Tested, ProducerCall, ConsumerCall, Cancel!Cancelled, Cancel!Blocks
<1>5. CancelledLate'
  <2>1. apc' # {} \/ cBoss' \in {"cancel T", "cancel R"} => cShutDown'
    BY DEF Cancel!BossStep, CancelInv, CancelledLate
  <2> QED BY <1>1, <1>2, <2>1 DEF CancelInv, CancelledLate
<1> QED BY <1>3, <1>4, <1>5 DEF CancelInv

\* A step of a thread between two calls: next is its next call, or its end.
LEMMA BetweenCalls ==
  ASSUME CancelInv, NEW t \in Cancel!Threads, NEW next \in CallsOf,
         next.pc \in {"lock", "check", "done"},
         \/ Cancel!Ends(t) /\ next = Cancel!At("done")
         \/ Cancel!Continues(t, next),
         UNCHANGED <<cGoal, cQueue, cSignaled, apc, shutDownGet, shutDownPut, cShutDown, cBoss>>
  PROVE  /\ th' \in [Cancel!Threads -> CallsOf] /\ th'[t] = next
         /\ \A u \in Cancel!Threads \ {t} : th'[u] = th[u]
         /\ guard' \in [Cancel!Queues -> Cancel!Threads \cup {Cancel!Nobody}]
         /\ Answered' /\ Tested' /\ CancelledLate'
<1>1. th \in [Cancel!Threads -> CallsOf] /\ guard \in [Cancel!Queues -> Cancel!Threads \cup {Cancel!Nobody}]
  BY DEF CancelInv, CancelTypes
<1>2. th' = [th EXCEPT ![t] = next]
  BY DEF Cancel!Ends, Cancel!Continues
<1>3. guard' = guard \/ guard' = [q \in Cancel!Queues |-> IF guard[q] = t THEN Cancel!Nobody ELSE guard[q]]
  BY DEF Cancel!Ends, Cancel!Continues
<1>4. /\ th' \in [Cancel!Threads -> CallsOf] /\ th'[t] = next
      /\ \A u \in Cancel!Threads \ {t} : th'[u] = th[u]
  BY <1>1, <1>2
<1>5. /\ guard' \in [Cancel!Queues -> Cancel!Threads \cup {Cancel!Nobody}]
      /\ \A q \in Cancel!Queues : guard[q] # t => guard'[q] = guard[q]
  BY <1>1, <1>3
<1>6. Answered' /\ CancelledLate'
  BY <1>4 DEF CancelInv, Answered, CancelledLate
<1>7. Tested'
  <2>1. ASSUME NEW u \in Cancel!Threads, th'[u].pc = "act", ~Cancel!Cancelled(th'[u].op)
        PROVE  guard'[th'[u].q] = u /\ ~Cancel!Blocks(th'[u].op, th'[u].q)
    <3>1. u # t /\ th'[u] = th[u]
      BY <1>4, <2>1
    <3>2. guard[th[u].q] = u /\ ~Cancel!Blocks(th[u].op, th[u].q)
      BY <2>1, <3>1 DEF CancelInv, Tested
    <3>3. th[u].q \in Cancel!Queues
      BY <1>1 DEF CallsOf
    <3> QED BY <1>5, <3>1, <3>2, <3>3
  <2> QED BY <2>1 DEF Tested, Cancel!Cancelled, Cancel!Blocks
<1> QED BY <1>4, <1>5, <1>6, <1>7

\* What it leaves of the calls of the other threads.
LEMMA CallsAt ==
  ASSUME CancelInv, NEW t \in Cancel!Threads, cGoal' = cGoal,
         \A u \in Cancel!Threads \ {t} : th'[u] = th[u],
         \A u \in Cancel!Producers \cup Cancel!Consumers : u # t => cDone'[u] = cDone[u],
         t # Cancel!Transmitter => cTBlock' = cTBlock, t # Cancel!Receiver => cRBlock' = cRBlock,
         \A n \in PairNumbers :
           /\ t = Cancel!Producer(n) /\ th'[t].pc # "done" => ProducerCall(n, th'[t], cDone'[t])
           /\ t = Cancel!Consumer(n) /\ th'[t].pc # "done" => ConsumerCall(n, th'[t], cDone'[t]),
         t = Cancel!Transmitter /\ th'[t].pc # "done" => TransmitterCall(th'[t], cTBlock'),
         t = Cancel!Receiver /\ th'[t].pc # "done" => ReceiverCall(th'[t], cRBlock')
  PROVE  Calls'
<1>1. ASSUME NEW n \in PairNumbers
      PROVE  /\ th'[Cancel!Producer(n)].pc # "done"
                   => ProducerCall(n, th'[Cancel!Producer(n)], cDone'[Cancel!Producer(n)])
             /\ th'[Cancel!Consumer(n)].pc # "done"
                   => ConsumerCall(n, th'[Cancel!Consumer(n)], cDone'[Cancel!Consumer(n)])
  <2>1. /\ Cancel!Producer(n) \in Cancel!Threads /\ Cancel!Consumer(n) \in Cancel!Threads
        /\ Cancel!Producer(n) \in Cancel!Producers /\ Cancel!Consumer(n) \in Cancel!Consumers
    BY CancelNames
  <2>2. CASE t = Cancel!Producer(n)
    BY <2>1, <2>2, CancelNames DEF CancelInv, Calls
  <2>3. CASE t = Cancel!Consumer(n)
    BY <2>1, <2>3, CancelNames DEF CancelInv, Calls
  <2>4. CASE t # Cancel!Producer(n) /\ t # Cancel!Consumer(n)
    BY <2>1, <2>4 DEF CancelInv, Calls
  <2> QED BY <2>2, <2>3, <2>4
<1>2. th'[Cancel!Transmitter].pc # "done" => TransmitterCall(th'[Cancel!Transmitter], cTBlock')
  BY CancelNames DEF CancelInv, Calls
<1>3. th'[Cancel!Receiver].pc # "done" => ReceiverCall(th'[Cancel!Receiver], cRBlock')
  BY CancelNames DEF CancelInv, Calls
<1> QED BY <1>1, <1>2, <1>3 DEF Calls, ProducerCall, ConsumerCall, TransmitterCall, ReceiverCall

\* The calls of the threads, when one of them enters its next call.
LEMMA NextCalls ==
  /\ Cancel!At("done") \in CallsOf /\ Cancel!At("done").pc = "done"
  /\ Cancel!At("check") \in CallsOf /\ Cancel!At("check").pc = "check" /\ Cancel!At("check").op = "none"
  /\ \A op \in {"get", "put"}, q \in Cancel!Queues, m \in PairMessages \cup Blocks :
       LET r == Cancel!Call(op, q, m)
       IN r \in CallsOf /\ r.pc = "lock" /\ r.op = op /\ r.q = q /\ r.msg = m
BY QueueNames DEF Cancel!At, Cancel!Call, Cancel!NoMsg, CallsOf, Pcs

\* A producer enters its next put, or ends.
LEMMA ProducerKeeps == \A n \in PairNumbers : CancelInv /\ Cancel!ProducerStep(n) => CancelInv'
<1> SUFFICES ASSUME CancelInv, NEW n \in PairNumbers, Cancel!ProducerStep(n) PROVE CancelInv'
  OBVIOUS
<1> DEFINE t == Cancel!Producer(n)
           k == cDone[t] + 1
           next == Cancel!NextPut(n, k)
<1>1. t \in Cancel!Threads /\ t \in Cancel!Producers
  BY CancelNames
<1>2. /\ th[t].pc = "ret" /\ cDone' = [cDone EXCEPT ![t] = k]
      /\ Cancel!Continues(t, Cancel!NextPut(n, cDone'[t]))
      /\ UNCHANGED <<cGoal, cQueue, cSignaled, cTBlock, cRBlock, apc, shutDownGet, shutDownPut, cShutDown, cBoss>>
  BY DEF Cancel!ProducerStep, Cancel!args, Cancel!flags
<1>3. ProducerCall(n, th[t], cDone[t])
  BY <1>2 DEF CancelInv, Calls
<1>4. k \in Nat /\ k <= cGoal /\ cGoal \in Nat
  BY <1>1, <1>3 DEF ProducerCall, CancelInv, CancelTypes
<1>5. /\ cDone' \in [Cancel!Producers \cup Cancel!Consumers -> Nat] /\ cDone'[t] = k
      /\ \A u \in Cancel!Producers \cup Cancel!Consumers : u # t => cDone'[u] = cDone[u]
  BY <1>1, <1>2, <1>4 DEF CancelInv, CancelTypes
<1>6. /\ next \in CallsOf /\ next.pc \in {"lock", "done"}
      /\ next.pc = "lock" => ProducerCall(n, next, k)
  <2>1. <<n, k>> \in PairMessages
    BY <1>4 DEF PairMessages
  <2>2. CASE k < cGoal
    <3>1. next = Cancel!Call("put", Cancel!p2tq, <<n, k>>)
      BY <2>2 DEF Cancel!NextPut
    <3>2. next \in CallsOf /\ next.pc = "lock" /\ next.op = "put" /\ next.q = Cancel!p2tq /\ next.msg = <<n, k>>
      <4> DEFINE m == <<n, k>>
      <4>1. m \in PairMessages \cup Blocks /\ Cancel!p2tq \in Cancel!Queues
        BY <2>1, QueueNames
      <4> HIDE DEF m, k, next
      <4>2. next = Cancel!Call("put", Cancel!p2tq, m)
        BY <3>1 DEF m
      <4>3. next \in CallsOf /\ next.pc = "lock" /\ next.op = "put" /\ next.q = Cancel!p2tq /\ next.msg = m
        BY <4>1, <4>2, NextCalls
      <4> QED BY <4>3 DEF m
    <3> HIDE DEF next, k
    <3> QED BY <2>2, <3>2 DEF ProducerCall, InCall
  <2>3. CASE ~(k < cGoal)
    BY <2>3, NextCalls DEF Cancel!NextPut
  <2> QED BY <2>2, <2>3
<1> HIDE DEF k, next
<1>7. /\ th' \in [Cancel!Threads -> CallsOf] /\ th'[t] = next
      /\ \A u \in Cancel!Threads \ {t} : th'[u] = th[u]
      /\ guard' \in [Cancel!Queues -> Cancel!Threads \cup {Cancel!Nobody}]
      /\ Answered' /\ Tested' /\ CancelledLate'
  <2>1. Cancel!Continues(t, next)
    BY <1>2, <1>5 DEF next
  <2> QED BY <1>1, <1>2, <1>6, <2>1, BetweenCalls
<1>8. CancelTypes'
  BY <1>2, <1>4, <1>5, <1>7 DEF CancelInv, CancelTypes
<1>9. Calls'
  <2>1. \A m \in PairNumbers : t = Cancel!Producer(m) <=> m = n
    BY CancelNames
  <2>2. t # Cancel!Transmitter /\ t # Cancel!Receiver /\ \A m \in PairNumbers : t # Cancel!Consumer(m)
    BY CancelNames
  <2> QED BY <1>1, <1>2, <1>5, <1>6, <1>7, <2>1, <2>2, CallsAt
<1> QED BY <1>7, <1>8, <1>9 DEF CancelInv

\* A consumer enters its next get, or ends.
LEMMA ConsumerKeeps == \A n \in PairNumbers : CancelInv /\ Cancel!ConsumerStep(n) => CancelInv'
<1> SUFFICES ASSUME CancelInv, NEW n \in PairNumbers, Cancel!ConsumerStep(n) PROVE CancelInv'
  OBVIOUS
<1> DEFINE t == Cancel!Consumer(n)
           failed == Cancel!Failed(t)
           k == IF failed THEN cDone[t] ELSE cDone[t] + 1
           next == IF failed THEN Cancel!At("done") ELSE Cancel!NextGet(n, k)
<1>1. t \in Cancel!Threads /\ t \in Cancel!Consumers
  BY CancelNames
<1>2. /\ th[t].pc = "ret"
      /\ UNCHANGED <<cGoal, cQueue, cSignaled, cTBlock, cRBlock, apc, shutDownGet, shutDownPut, cShutDown, cBoss>>
  BY DEF Cancel!ConsumerStep, Cancel!args, Cancel!flags
<1>3. ConsumerCall(n, th[t], cDone[t])
  BY <1>2 DEF CancelInv, Calls
<1>4. k \in Nat /\ k <= cGoal /\ cGoal \in Nat
  BY <1>1, <1>3 DEF ConsumerCall, CancelInv, CancelTypes
<1>5. /\ cDone' \in [Cancel!Producers \cup Cancel!Consumers -> Nat] /\ cDone'[t] = k
      /\ \A u \in Cancel!Producers \cup Cancel!Consumers : u # t => cDone'[u] = cDone[u]
  <2>1. cDone \in [Cancel!Producers \cup Cancel!Consumers -> Nat]
    BY DEF CancelInv, CancelTypes
  <2>2. CASE failed
    BY <1>1, <2>1, <2>2 DEF Cancel!ConsumerStep
  <2>3. CASE ~failed
    <3>1. cDone' = [cDone EXCEPT ![t] = k]
      BY <2>3 DEF Cancel!ConsumerStep
    <3> QED BY <1>1, <1>4, <2>1, <3>1
  <2> QED BY <2>2, <2>3
<1>6. \/ Cancel!Ends(t) /\ next = Cancel!At("done")
      \/ Cancel!Continues(t, next)
  <2>1. CASE failed
    BY <2>1 DEF Cancel!ConsumerStep
  <2>2. CASE ~failed
    <3>1. Cancel!Continues(t, Cancel!NextGet(n, cDone'[t]))
      BY <2>2 DEF Cancel!ConsumerStep
    <3> QED BY <1>5, <2>2, <3>1
  <2> QED BY <2>1, <2>2
<1>7. /\ next \in CallsOf /\ next.pc \in {"lock", "done"}
      /\ next.pc = "lock" => ConsumerCall(n, next, k)
  <2>1. CASE failed \/ ~(k < cGoal)
    BY <2>1, NextCalls DEF Cancel!NextGet
  <2>2. CASE ~failed /\ k < cGoal
    <3>1. next = Cancel!Call("get", Cancel!r2cq(n), <<>>)
      BY <2>2 DEF Cancel!NextGet, Cancel!NoMsg
    <3> HIDE DEF next, k
    <3>2. next \in CallsOf /\ next.pc = "lock" /\ next.op = "get" /\ next.q = Cancel!r2cq(n) /\ next.msg = <<>>
      BY <3>1, NextCalls, QueueNames
    <3> QED BY <2>2, <3>2 DEF ConsumerCall, InCall
  <2> QED BY <2>1, <2>2
<1> HIDE DEF k, next, failed
<1>8. /\ th' \in [Cancel!Threads -> CallsOf] /\ th'[t] = next
      /\ \A u \in Cancel!Threads \ {t} : th'[u] = th[u]
      /\ guard' \in [Cancel!Queues -> Cancel!Threads \cup {Cancel!Nobody}]
      /\ Answered' /\ Tested' /\ CancelledLate'
  BY <1>1, <1>2, <1>6, <1>7, BetweenCalls
<1>9. CancelTypes'
  BY <1>2, <1>4, <1>5, <1>8 DEF CancelInv, CancelTypes
<1>10. Calls'
  <2>1. \A m \in PairNumbers : t = Cancel!Consumer(m) <=> m = n
    BY CancelNames
  <2>2. t # Cancel!Transmitter /\ t # Cancel!Receiver /\ \A m \in PairNumbers : t # Cancel!Producer(m)
    BY CancelNames
  <2> QED BY <1>1, <1>2, <1>5, <1>7, <1>8, <2>1, <2>2, CallsAt
<1> QED BY <1>8, <1>9, <1>10 DEF CancelInv

\* The transmitter fills its block, and puts it.
LEMMA TransmitterKeeps == CancelInv /\ Cancel!TransmitterStep => CancelInv'
<1> SUFFICES ASSUME CancelInv, Cancel!TransmitterStep PROVE CancelInv'
  OBVIOUS
<1> DEFINE t == Cancel!Transmitter
<1>1. /\ t \in Cancel!Threads /\ t # Cancel!Receiver
      /\ \A n \in PairNumbers : t # Cancel!Producer(n) /\ t # Cancel!Consumer(n)
  BY CancelNames
<1>2. UNCHANGED <<cGoal, cQueue, cSignaled, cDone, cRBlock, apc, shutDownGet, shutDownPut, cShutDown, cBoss>>
  BY DEF Cancel!TransmitterStep, Cancel!args, Cancel!flags
<1>3. th[t].pc \in {"check", "ret"} /\ cTBlock \in Blocks /\ TransmitterCall(th[t], cTBlock)
  BY DEF Cancel!TransmitterStep, CancelInv, CancelTypes, Calls
<1>4. \E next \in CallsOf :
        /\ next.pc \in {"lock", "check", "done"}
        /\ (Cancel!Ends(t) /\ next = Cancel!At("done")) \/ Cancel!Continues(t, next)
        /\ next.pc # "done" => TransmitterCall(next, cTBlock')
        /\ cTBlock' \in Blocks
  <2> DEFINE Get == Cancel!Call("get", Cancel!p2tq, <<>>)
             Put(b) == Cancel!Call("put", Cancel!t2rq, b)
  <2>1. /\ Get \in CallsOf /\ Get.pc = "lock"
        /\ \A b \in Blocks : Len(b) < BlockSize => TransmitterCall(Get, b)
        /\ \A b \in Blocks : Put(b) \in CallsOf /\ Put(b).pc = "lock" /\ TransmitterCall(Put(b), b)
    <3>1. Get \in CallsOf /\ Get.pc = "lock" /\ Get.op = "get" /\ Get.q = Cancel!p2tq /\ Get.msg = <<>>
      BY NextCalls, QueueNames
    <3>2. \A b \in Blocks : /\ Put(b) \in CallsOf /\ Put(b).pc = "lock" /\ Put(b).op = "put"
                            /\ Put(b).q = Cancel!t2rq /\ Put(b).msg = b
      BY NextCalls, QueueNames
    <3> HIDE DEF Get, Put
    <3> QED BY <3>1, <3>2 DEF TransmitterCall, InCall
  <2>2. <<>> \in Blocks /\ Len(<<>>) < BlockSize /\ BlockSize \in Nat
    BY QueueNames, PipelinesAssumption
  <2> HIDE DEF Get, Put
  <2>3. CASE th[t].pc = "check"
    <3>1. CASE cShutDown
      BY <1>3, <2>3, <3>1, NextCalls DEF Cancel!TransmitterStep
    <3>2. CASE ~cShutDown
      <4>1. cTBlock' = <<>> /\ Cancel!Continues(t, Get)
        BY <2>3, <3>2 DEF Cancel!TransmitterStep, Get, Cancel!NoMsg
      <4> QED BY <2>1, <2>2, <4>1
    <3> QED BY <3>1, <3>2
  <2>4. CASE th[t].pc = "ret" /\ th[t].op = "get"
    <3> DEFINE failed == Cancel!Failed(t)
    <3>1. /\ cTBlock' = IF failed THEN cTBlock ELSE Append(cTBlock, th[t].msg)
          /\ Cancel!Continues(t, IF Cancel!BlockReady(cTBlock', failed) THEN Put(cTBlock') ELSE Get)
      BY <2>4 DEF Cancel!TransmitterStep, Get, Put, Cancel!NoMsg
    <3>2. th[t].q = Cancel!p2tq /\ Len(cTBlock) < BlockSize
      BY <1>3, <2>4 DEF TransmitterCall
    <3>3. ~failed => th[t].msg \in PairMessages
      BY <1>1, <2>4, <3>2, QueueNames DEF CancelInv, Answered, Cancel!Failed, Cancel!Cancelled
    <3> HIDE DEF failed
    <3>4. cTBlock' \in Blocks
      <4>1. CASE failed
        BY <1>3, <3>1, <4>1
      <4>2. CASE ~failed
        <5>1. cTBlock \in Seq(PairMessages) /\ th[t].msg \in PairMessages /\ cTBlock' = Append(cTBlock, th[t].msg)
          BY <1>3, <3>1, <3>3, <4>2 DEF Blocks
        <5>2. cTBlock' \in Seq(PairMessages) /\ Len(cTBlock') = Len(cTBlock) + 1 /\ Len(cTBlock) \in Nat
          BY <5>1
        <5> QED BY <2>2, <3>2, <5>2 DEF Blocks
      <4> QED BY <4>1, <4>2
    <3>5. CASE Cancel!BlockReady(cTBlock', failed)
      BY <2>1, <3>1, <3>4, <3>5
    <3>6. CASE ~Cancel!BlockReady(cTBlock', failed)
      <4>1. Len(cTBlock') # BlockSize
        BY <3>6 DEF Cancel!BlockReady
      <4>2. Len(cTBlock') <= BlockSize /\ Len(cTBlock') \in Nat
        BY <3>4 DEF Blocks
      <4>3. Len(cTBlock') < BlockSize
        BY <2>2, <4>1, <4>2
      <4> QED BY <2>1, <3>1, <3>4, <3>6, <4>3
    <3> QED BY <3>5, <3>6
  <2>5. CASE th[t].pc = "ret" /\ th[t].op = "put"
    <3>1. cTBlock' = <<>> /\ (Cancel!Ends(t) \/ Cancel!Continues(t, Cancel!At("check")))
      BY <2>5 DEF Cancel!TransmitterStep
    <3>2. TransmitterCall(Cancel!At("check"), <<>>)
      BY NextCalls DEF TransmitterCall
    <3> QED BY <2>2, <3>1, <3>2, NextCalls
  <2> QED BY <2>3, <2>4, <2>5 DEF Cancel!TransmitterStep
<1>5. PICK next \in CallsOf :
        /\ next.pc \in {"lock", "check", "done"}
        /\ (Cancel!Ends(t) /\ next = Cancel!At("done")) \/ Cancel!Continues(t, next)
        /\ next.pc # "done" => TransmitterCall(next, cTBlock')
        /\ cTBlock' \in Blocks
  BY <1>4
<1>6. /\ th' \in [Cancel!Threads -> CallsOf] /\ th'[t] = next
      /\ \A u \in Cancel!Threads \ {t} : th'[u] = th[u]
      /\ guard' \in [Cancel!Queues -> Cancel!Threads \cup {Cancel!Nobody}]
      /\ Answered' /\ Tested' /\ CancelledLate'
  BY <1>1, <1>2, <1>5, BetweenCalls
<1>7. CancelTypes'
  BY <1>2, <1>5, <1>6 DEF CancelInv, CancelTypes
<1>8. Calls'
  BY <1>1, <1>2, <1>5, <1>6, CallsAt
<1> QED BY <1>6, <1>7, <1>8 DEF CancelInv

\* The receiver gets a block, and distributes its messages.
LEMMA ReceiverKeeps == CancelInv /\ Cancel!ReceiverStep => CancelInv'
<1> SUFFICES ASSUME CancelInv, Cancel!ReceiverStep PROVE CancelInv'
  OBVIOUS
<1> DEFINE t == Cancel!Receiver
<1>1. /\ t \in Cancel!Threads /\ t # Cancel!Transmitter
      /\ \A n \in PairNumbers : t # Cancel!Producer(n) /\ t # Cancel!Consumer(n)
  BY CancelNames
<1>2. UNCHANGED <<cGoal, cQueue, cSignaled, cDone, cTBlock, apc, shutDownGet, shutDownPut, cShutDown, cBoss>>
  BY DEF Cancel!ReceiverStep, Cancel!args, Cancel!flags
<1>3. th[t].pc \in {"check", "ret"} /\ cRBlock \in Blocks /\ ReceiverCall(th[t], cRBlock)
  BY DEF Cancel!ReceiverStep, CancelInv, CancelTypes, Calls
<1>4. \E next \in CallsOf :
        /\ next.pc \in {"lock", "check", "done"}
        /\ (Cancel!Ends(t) /\ next = Cancel!At("done")) \/ Cancel!Continues(t, next)
        /\ next.pc # "done" => ReceiverCall(next, cRBlock')
        /\ cRBlock' \in Blocks
  <2> DEFINE Get == Cancel!Call("get", Cancel!t2rq, <<>>)
  <2>1. /\ Get \in CallsOf /\ Get.pc = "lock" /\ ReceiverCall(Get, <<>>)
    <3>1. Get \in CallsOf /\ Get.pc = "lock" /\ Get.op = "get" /\ Get.q = Cancel!t2rq /\ Get.msg = <<>>
      BY NextCalls, QueueNames
    <3> HIDE DEF Get
    <3> QED BY <3>1 DEF ReceiverCall, InCall
  <2> HIDE DEF Get
  <2>2. CASE th[t].pc = "check"
    <3>1. CASE cShutDown
      BY <1>3, <2>2, <3>1, NextCalls DEF Cancel!ReceiverStep
    <3>2. CASE ~cShutDown
      <4>1. cRBlock' = cRBlock /\ Cancel!Continues(t, Get)
        BY <2>2, <3>2 DEF Cancel!ReceiverStep, Get, Cancel!NoMsg
      <4>2. cRBlock = <<>>
        BY <1>3, <2>2 DEF ReceiverCall, InCall
      <4> QED BY <1>3, <2>1, <4>1, <4>2
    <3> QED BY <3>1, <3>2
  <2>3. CASE th[t].pc = "ret" /\ Cancel!Failed(t)
    BY <1>3, <2>3, NextCalls DEF Cancel!ReceiverStep
  <2>4. CASE th[t].pc = "ret" /\ ~Cancel!Failed(t)
    <3> DEFINE b == IF th[t].op = "get" THEN th[t].msg ELSE Tail(cRBlock)
    <3>1. Cancel!Distribute(b)
      BY <2>4 DEF Cancel!ReceiverStep
    <3>2. b \in Blocks
      <4>1. CASE th[t].op = "get"
        <5>1. th[t].q = Cancel!t2rq
          BY <1>3, <2>4, <4>1 DEF ReceiverCall
        <5> QED BY <1>1, <2>4, <4>1, <5>1, QueueNames DEF CancelInv, Answered, Cancel!Failed, Cancel!Cancelled
      <4>2. CASE th[t].op # "get"
        <5>1. cRBlock # <<>>
          BY <1>3, <2>4, <4>2 DEF ReceiverCall
        <5> QED BY <1>3, <4>2, <5>1, BlockHead
      <4> QED BY <4>1, <4>2
    <3> HIDE DEF b
    <3>3. CASE b = <<>>
      <4>1. cRBlock' = b /\ Cancel!Continues(t, Cancel!At("check"))
        BY <3>1, <3>3 DEF Cancel!Distribute
      <4>2. ReceiverCall(Cancel!At("check"), <<>>)
        BY NextCalls DEF ReceiverCall
      <4> QED BY <3>2, <3>3, <4>1, <4>2, NextCalls
    <3>4. CASE b # <<>>
      <4> DEFINE m == Head(b)
                 Put == Cancel!Call("put", Cancel!r2cq(m[1]), m)
      <4>1. cRBlock' = b /\ Cancel!Continues(t, Put)
        BY <3>1, <3>4 DEF Cancel!Distribute
      <4>2. m \in PairMessages /\ m[1] \in PairNumbers
        BY <3>2, <3>4, BlockHead
      <4>3. /\ Put \in CallsOf /\ Put.pc = "lock" /\ Put.op = "put" /\ Put.q = Cancel!r2cq(m[1]) /\ Put.msg = m
        <5> HIDE DEF m
        <5>1. Cancel!r2cq(m[1]) \in Cancel!Queues
          BY <4>2, QueueNames
        <5> QED BY <4>2, <5>1, NextCalls
      <4> HIDE DEF Put
      <4>4. ReceiverCall(Put, b)
        BY <3>4, <4>3 DEF ReceiverCall, InCall
      <4> QED BY <3>2, <4>1, <4>3, <4>4
    <3> QED BY <3>3, <3>4
  <2> QED BY <2>2, <2>3, <2>4 DEF Cancel!ReceiverStep
<1>5. PICK next \in CallsOf :
        /\ next.pc \in {"lock", "check", "done"}
        /\ (Cancel!Ends(t) /\ next = Cancel!At("done")) \/ Cancel!Continues(t, next)
        /\ next.pc # "done" => ReceiverCall(next, cRBlock')
        /\ cRBlock' \in Blocks
  BY <1>4
<1>6. /\ th' \in [Cancel!Threads -> CallsOf] /\ th'[t] = next
      /\ \A u \in Cancel!Threads \ {t} : th'[u] = th[u]
      /\ guard' \in [Cancel!Queues -> Cancel!Threads \cup {Cancel!Nobody}]
      /\ Answered' /\ Tested' /\ CancelledLate'
  BY <1>1, <1>2, <1>5, BetweenCalls
<1>7. CancelTypes'
  BY <1>2, <1>5, <1>6 DEF CancelInv, CancelTypes
<1>8. Calls'
  BY <1>1, <1>2, <1>5, <1>6, CallsAt
<1> QED BY <1>6, <1>7, <1>8 DEF CancelInv

\* Each step of the program keeps the invariant.
LEMMA CancelInvNext == CancelInv /\ Cancel!Next => CancelInv'
BY EnterKeeps, ApcKeeps, ActKeeps, BossKeeps, ProducerKeeps, ConsumerKeeps, TransmitterKeeps, ReceiverKeeps
DEF Cancel!Next, Cancel!Step, Cancel!QueueCall

\* So does each step of the programs together.
LEMMA CancelInvStep == CancelInv /\ [PipelinesNext]_pipelinesVars => CancelInv'
<1>1. CancelInv /\ UNCHANGED cancelVars => CancelInv'
  <2> SUFFICES ASSUME CancelInv, UNCHANGED cancelVars PROVE CancelInv'
    OBVIOUS
  <2> USE DEF cancelVars
  <2>1. CancelTypes'
    BY DEF CancelInv, CancelTypes
  <2>2. Calls'
    BY DEF CancelInv, Calls, ProducerCall, ConsumerCall
  <2>3. Answered' /\ Tested' /\ CancelledLate'
    BY DEF CancelInv, Answered, Tested, CancelledLate, Cancel!Cancelled, Cancel!Blocks
  <2> QED BY <2>1, <2>2, <2>3 DEF CancelInv
<1> QED BY <1>1, CancelInvNext DEF PipelinesNext, pipelinesVars

\* The lowest number comes first, and without it the rest is left.
LEMMA NumbersHead ==
  \A n \in PairNumbers : \A a \in Nat, b \in Nat : a <= b =>
    \A h \in PairMessages, r \in Seq(PairMessages) :
      Numbers(n, a, b) = Cat(<<h>>, r) => a + 1 <= b /\ r = Numbers(n, a + 1, b)
<1> SUFFICES ASSUME NEW n \in PairNumbers, NEW a \in Nat, NEW b \in Nat, a <= b,
                    NEW h \in PairMessages, NEW r \in Seq(PairMessages),
                    Numbers(n, a, b) = Cat(<<h>>, r)
             PROVE  a + 1 <= b /\ r = Numbers(n, a + 1, b)
  OBVIOUS
<1> DEFINE S == PairMessages
           u == <<h>>
<1>1. \A k \in Nat, c \in Nat : [i \in 1 .. k |-> <<n, c + i - 1>>] \in Seq(S) /\ Len([i \in 1 .. k |-> <<n, c + i - 1>>]) = k
  BY DEF PairMessages
<1>2. Numbers(n, a, b) \in Seq(S) /\ Len(Numbers(n, a, b)) = b - a
  <2>1. b - a \in Nat
    OBVIOUS
  <2> QED BY <1>1, <2>1 DEF Numbers
<1>3. u \in Seq(S) /\ Len(u) = 1 /\ r \in Seq(S) /\ Len(r) \in Nat
  OBVIOUS
<1> HIDE DEF S, u
<1> DEFINE w == u \o r
<1>4. Numbers(n, a, b) = w
  BY DEF Cat, u
<1>5. Len(w) = 1 + Len(r) /\ \A i \in 1 .. Len(r) : w[1 + i] = r[i]
  <2>1. \A x, y \in Seq(S) : /\ Len(x \o y) = Len(x) + Len(y)
                              /\ \A i \in 1 .. Len(y) : (x \o y)[Len(x) + i] = y[i]
    OBVIOUS
  <2>2. Len(w) = Len(u) + Len(r) /\ \A i \in 1 .. Len(r) : w[Len(u) + i] = r[i]
    BY <1>3, <2>1, Zenon
  <2> HIDE DEF w
  <2> QED BY <1>3, <2>2
<1> HIDE DEF w
<1>6. Len(r) = b - (a + 1) /\ a + 1 <= b
  <2>1. Len(w) = b - a
    BY <1>2, <1>4, Zenon
  <2>2. Len(w) = 1 + Len(r) /\ Len(r) \in Nat
    BY <1>3, <1>5
  <2> DEFINE k == Len(r)
  <2>3. b - a = 1 + k /\ k \in Nat
    BY <2>1, <2>2
  <2> HIDE DEF k
  <2>4. k = b - (a + 1) /\ a + 1 <= b
    BY <2>3
  <2> QED BY <2>4 DEF k
<1>7. /\ Numbers(n, a + 1, b) \in Seq(S) /\ Len(Numbers(n, a + 1, b)) = b - (a + 1)
  <2>1. b - (a + 1) \in Nat /\ a + 1 \in Nat
    BY <1>6
  <2> QED BY <1>1, <2>1 DEF Numbers
<1>8. \A i \in 1 .. Len(r) : Numbers(n, a + 1, b)[i] = r[i]
  <2> TAKE i \in 1 .. Len(r)
  <2>1. i + 1 \in 1 .. (b - a) /\ i \in 1 .. (b - (a + 1)) /\ a + (i + 1) - 1 = a + 1 + i - 1
    BY <1>3, <1>6
  <2>2. Numbers(n, a, b)[i + 1] = <<n, a + (i + 1) - 1>> /\ Numbers(n, a + 1, b)[i] = <<n, a + 1 + i - 1>>
    BY <2>1 DEF Numbers
  <2>3. w[i + 1] = r[i]
    <3>1. w[1 + i] = r[i] /\ 1 + i = i + 1
      BY <1>3, <1>5
    <3> QED BY <3>1
  <2> QED BY <1>4, <2>1, <2>2, <2>3
<1> QED BY <1>3, <1>6, <1>7, <1>8, SeqEqual

-----------------------------------------------------------------------------
(* The cancellable pipeline: the places that the messages of pair n pass,  *)
(* from the consumer back to the producer.                                 *)

\* Of of two sequences, before others.
LEMMA OfMore ==
  ASSUME NEW S, NEW n
  PROVE  \A s, t, r \in Seq(S) : Cat(Of(n, Cat(s, t)), r) = Cat(Of(n, s), Cat(Of(n, t), r))
<1>1. \A x, y, z \in Seq(S) : Cat(Cat(x, y), z) = Cat(x, Cat(y, z))
  BY Associative DEF Cat
<1>2. \A s \in Seq(S) : Of(n, s) \in Seq(S)
  BY OfSeq
<1>3. \A s, t \in Seq(S) : Of(n, Cat(s, t)) = Cat(Of(n, s), Of(n, t))
  BY OfCat DEF Cat
<1> QED BY <1>1, <1>2, <1>3

Seven(a, b, c, d, e, f, g) == a \o b \o c \o d \o e \o f \o g
Seventh(a, b, c, d, e, f, g) == Cat(a, Cat(b, Cat(c, Cat(d, Cat(e, Cat(f, g))))))
\* Of of the seven places is what the places hold of pair n.
LEMMA OfCats ==
  ASSUME NEW S, NEW n
  PROVE  \A s, t \in Seq(S) : Of(n, Cat(s, t)) = Cat(Of(n, s), Of(n, t))
BY OfCat DEF Cat

\* The helpers of ThreeStageCancel are those of this module.
LEMMA CancelOf == \A n, s : Cancel!Of(n, s) = Of(n, s)
BY DEF Cancel!Of, Of
\* Its FlattenSeq is that of this module.
LEMMA CancelFlat == \A s : Cancel!FlattenSeq(s) = FlattenSeq(s)
BY DEF Cancel!FlattenSeq, FlattenSeq

-----------------------------------------------------------------------------
\* The messages of pair n at the places between its producer and its consumer.
InConsumer(n) == Of(n, Cancel!Held(Cancel!Consumer(n)))
InR2cq(n) == Of(n, cQueue[Cancel!r2cq(n)])
Unpacked(n) == Of(n, Cancel!InReceiver)
InT2rq(n) == Of(n, FlattenSeq(cQueue[Cancel!t2rq]))
Packed(n) == Of(n, Cancel!Sending)
InTransmitter(n) == Of(n, Cancel!Held(Cancel!Transmitter))
InP2tq(n) == Of(n, cQueue[Cancel!p2tq])
Places(n) == Seventh(InConsumer(n), InR2cq(n), Unpacked(n), InT2rq(n),
                     Packed(n), InTransmitter(n), InP2tq(n))

\* What the queues and the blocks hold are messages.
LEMMA KindsOfMessages ==
  /\ \A n \in PairNumbers : Seq({n} \X Nat) \subseteq Seq(PairMessages)
  /\ Blocks \subseteq Seq(PairMessages) /\ Seq(Blocks) \subseteq Seq(Seq(PairMessages))
<1>1. \A n \in PairNumbers : {n} \X Nat \subseteq PairMessages
  BY DEF PairMessages
<1>2. Blocks \subseteq Seq(PairMessages)
  BY DEF Blocks
<1> DEFINE B == Blocks
           M == PairMessages
           D == Seq(PairMessages)
<1>3. ASSUME NEW n \in PairNumbers PROVE Seq({n} \X Nat) \subseteq Seq(M)
  <2> DEFINE N == {n} \X Nat
  <2>1. N \subseteq M
    BY <1>1
  <2> HIDE DEF N, M
  <2>2. \A s \in Seq(N) : s \in Seq(M)
    BY <2>1, SeqMonotonic
  <2> QED BY <2>2 DEF N
<1>4. Seq(B) \subseteq Seq(D)
  <2>1. B \subseteq D
    BY <1>2
  <2> HIDE DEF B, D
  <2> QED BY <2>1, SeqMonotonic
<1> QED BY <1>2, <1>3, <1>4

\* What is on its way in the cancellable pipeline is what the places hold.
LEMMA PlacesFacts ==
  ASSUME CancelInv, ~shutDownGet, NEW n \in PairNumbers
  PROVE  /\ Cancel!Held(Cancel!Consumer(n)) \in Seq({n} \X Nat) /\ Cancel!Held(Cancel!Consumer(n)) \in Seq(PairMessages)
         /\ cQueue[Cancel!r2cq(n)] \in Seq({n} \X Nat) /\ cQueue[Cancel!r2cq(n)] \in Seq(PairMessages)
         /\ Cancel!InReceiver \in Seq(PairMessages)
         /\ cQueue[Cancel!t2rq] \in Seq(Seq(PairMessages)) /\ FlattenSeq(cQueue[Cancel!t2rq]) \in Seq(PairMessages)
         /\ Cancel!Sending \in Seq(PairMessages)
         /\ Cancel!Held(Cancel!Transmitter) \in Seq(PairMessages)
         /\ cQueue[Cancel!p2tq] \in Seq(PairMessages)
         /\ Cancel!InTransit(n) = Places(n)
<1>1. /\ cQueue[Cancel!r2cq(n)] \in Seq({n} \X Nat) /\ cQueue[Cancel!p2tq] \in Seq(PairMessages)
      /\ cQueue[Cancel!t2rq] \in Seq(Blocks)
  BY QueueNames DEF CancelInv, CancelTypes
<1>2. /\ cQueue[Cancel!r2cq(n)] \in Seq(PairMessages) /\ cQueue[Cancel!t2rq] \in Seq(Seq(PairMessages))
      /\ cTBlock \in Seq(PairMessages) /\ cRBlock \in Seq(PairMessages)
  BY <1>1, KindsOfMessages DEF CancelInv, CancelTypes
<1>3. FlattenSeq(cQueue[Cancel!t2rq]) \in Seq(PairMessages)
  BY <1>2, FlatSeq
<1>4. Cancel!Sending \in Seq(PairMessages)
  BY <1>2 DEF Cancel!Sending
<1>5. \A t \in Cancel!Threads : \A K : 
        (th[t].pc = "ret" /\ th[t].op = "get" => th[t].msg \in K) => Cancel!Held(t) \in Seq(K)
  <2> TAKE t \in Cancel!Threads
  <2> TAKE K
  <2> SUFFICES ASSUME th[t].pc = "ret" /\ th[t].op = "get" => th[t].msg \in K PROVE Cancel!Held(t) \in Seq(K)
    OBVIOUS
  <2>1. CASE th[t].pc = "ret" /\ th[t].op = "get"
    BY <2>1 DEF Cancel!Held, Cancel!Holds, Cancel!NoMsg
  <2>2. CASE ~(th[t].pc = "ret" /\ th[t].op = "get")
    BY <2>2 DEF Cancel!Held, Cancel!Holds, Cancel!NoMsg
  <2> QED BY <2>1, <2>2
<1>6. Cancel!Held(Cancel!Consumer(n)) \in Seq({n} \X Nat)
  <2>1. th[Cancel!Consumer(n)].pc = "ret" => th[Cancel!Consumer(n)].q = Cancel!r2cq(n)
    BY DEF CancelInv, Calls, ConsumerCall
  <2>2. Cancel!Consumer(n) \in Cancel!Threads
    BY CancelNames
  <2>3. th[Cancel!Consumer(n)].pc = "ret" /\ th[Cancel!Consumer(n)].op = "get"
          => th[Cancel!Consumer(n)].msg \in {n} \X Nat
    BY <2>1, <2>2, QueueNames DEF CancelInv, Answered
  <2> QED BY <1>5, <2>2, <2>3
<1>7. Cancel!Held(Cancel!Transmitter) \in Seq(PairMessages)
  <2>1. th[Cancel!Transmitter].pc = "ret" /\ th[Cancel!Transmitter].op = "get"
          => th[Cancel!Transmitter].q = Cancel!p2tq
    BY DEF CancelInv, Calls, TransmitterCall
  <2>2. Cancel!Transmitter \in Cancel!Threads
    BY CancelNames
  <2>3. th[Cancel!Transmitter].pc = "ret" /\ th[Cancel!Transmitter].op = "get"
          => th[Cancel!Transmitter].msg \in PairMessages
    BY <2>1, <2>2, QueueNames DEF CancelInv, Answered
  <2> QED BY <1>5, <2>2, <2>3
<1>8. Cancel!InReceiver \in Seq(PairMessages)
  <2> DEFINE r == th[Cancel!Receiver]
  <2>1. CASE r.pc = "ret" /\ r.op = "get"
    <3>1. r.q = Cancel!t2rq
      BY <2>1 DEF CancelInv, Calls, ReceiverCall
    <3>2. r.msg \in Blocks
      BY <2>1, <3>1, QueueNames, CancelNames DEF CancelInv, Answered
    <3> QED BY <2>1, <3>2, KindsOfMessages DEF Cancel!InReceiver
  <2>2. CASE r.pc = "ret" /\ r.op # "get"
    <3>1. cRBlock # <<>>
      BY <2>2 DEF CancelInv, Calls, ReceiverCall
    <3> QED BY <1>2, <2>2, <3>1 DEF Cancel!InReceiver
  <2>3. CASE r.pc # "ret"
    BY <1>2, <2>3 DEF Cancel!InReceiver
  <2> QED BY <2>1, <2>2, <2>3
<1>9. Cancel!Held(Cancel!Consumer(n)) \in Seq(PairMessages)
  BY <1>6, KindsOfMessages
<1>10. Cancel!InTransit(n) = Places(n)
  <2> DEFINE a == Cancel!Held(Cancel!Consumer(n))
             b == cQueue[Cancel!r2cq(n)]
             c == Cancel!InReceiver
             d == FlattenSeq(cQueue[Cancel!t2rq])
             e == Cancel!Sending
             f == Cancel!Held(Cancel!Transmitter)
             g == cQueue[Cancel!p2tq]
             M == PairMessages
  <2>1. /\ a \in Seq(M) /\ b \in Seq(M) /\ c \in Seq(M) /\ d \in Seq(M)
        /\ e \in Seq(M) /\ f \in Seq(M) /\ g \in Seq(M)
    BY <1>1, <1>2, <1>3, <1>4, <1>7, <1>8, <1>9
  <2>2. Cancel!InTransit(n) = Cancel!Of(n, Seven(a, b, c, d, e, f, g))
    BY CancelFlat DEF Cancel!InTransit, Seven
  <2>3. Places(n) = Seventh(Of(n, a), Of(n, b), Of(n, c), Of(n, d), Of(n, e), Of(n, f), Of(n, g))
    BY DEF Places, InConsumer, InR2cq, Unpacked, InT2rq, Packed, InTransmitter, InP2tq
  <2> HIDE DEF a, b, c, d, e, f, g, M
  <2>4. Of(n, Seven(a, b, c, d, e, f, g))
          = Seventh(Of(n, a), Of(n, b), Of(n, c), Of(n, d), Of(n, e), Of(n, f), Of(n, g))
    <3> DEFINE L2 == Cat(a, b)
               L3 == Cat(L2, c)
               L4 == Cat(L3, d)
               L5 == Cat(L4, e)
               L6 == Cat(L5, f)
               R6 == Cat(Of(n, f), Of(n, g))
               R5 == Cat(Of(n, e), R6)
               R4 == Cat(Of(n, d), R5)
               R3 == Cat(Of(n, c), R4)
               R2 == Cat(Of(n, b), R3)
    <3>1. /\ L2 = Cat(a, b) /\ L3 = Cat(L2, c) /\ L4 = Cat(L3, d) /\ L5 = Cat(L4, e) /\ L6 = Cat(L5, f)
          /\ R6 = Cat(Of(n, f), Of(n, g)) /\ R5 = Cat(Of(n, e), R6) /\ R4 = Cat(Of(n, d), R5)
          /\ R3 = Cat(Of(n, c), R4) /\ R2 = Cat(Of(n, b), R3)
      OBVIOUS
    <3>2. Seven(a, b, c, d, e, f, g) = Cat(L6, g)
      BY DEF Cat, Seven
    <3>3. Seventh(Of(n, a), Of(n, b), Of(n, c), Of(n, d), Of(n, e), Of(n, f), Of(n, g)) = Cat(Of(n, a), R2)
      BY DEF Seventh
    <3> HIDE DEF L2, L3, L4, L5, L6, R2, R3, R4, R5, R6
    <3>4. \A x, y \in Seq(M) : Cat(x, y) \in Seq(M)
      BY CatFacts
    <3>5. \A s \in Seq(M) : Of(n, s) \in Seq(M)
      BY OfSeq
    <3>6. a \in Seq(M) /\ b \in Seq(M) /\ c \in Seq(M) /\ d \in Seq(M) /\ e \in Seq(M) /\ f \in Seq(M) /\ g \in Seq(M)
      BY <2>1
    <3>7. L2 \in Seq(M) /\ L3 \in Seq(M) /\ L4 \in Seq(M) /\ L5 \in Seq(M) /\ L6 \in Seq(M)
      BY <3>6, <3>1, <3>4
    <3>8. R6 \in Seq(M) /\ R5 \in Seq(M) /\ R4 \in Seq(M) /\ R3 \in Seq(M) /\ R2 \in Seq(M)
      BY <3>6, <3>1, <3>4, <3>5
    <3>9. \A s, t, r \in Seq(M) : Cat(Of(n, Cat(s, t)), r) = Cat(Of(n, s), Cat(Of(n, t), r))
      BY OfMore
    <3>10. \A s, t \in Seq(M) : Of(n, Cat(s, t)) = Cat(Of(n, s), Of(n, t))
      BY OfCats
    <3>11. Of(n, Cat(L6, g)) = Cat(Of(n, L6), Of(n, g))
      BY <3>6, <3>7, <3>10
    <3>12. Cat(Of(n, L6), Of(n, g)) = Cat(Of(n, L5), R6)
      <4>1. L5 \in Seq(M) /\ f \in Seq(M) /\ Of(n, g) \in Seq(M)
        BY <3>5, <3>6, <3>7, <3>8
      <4> QED BY <3>9, <4>1, Zenon DEF L6, R6
    <3>13. Cat(Of(n, L5), R6) = Cat(Of(n, L4), R5)
      <4>1. L4 \in Seq(M) /\ e \in Seq(M) /\ R6 \in Seq(M)
        BY <3>5, <3>6, <3>7, <3>8
      <4> QED BY <3>9, <4>1, Zenon DEF L5, R5
    <3>14. Cat(Of(n, L4), R5) = Cat(Of(n, L3), R4)
      <4>1. L3 \in Seq(M) /\ d \in Seq(M) /\ R5 \in Seq(M)
        BY <3>5, <3>6, <3>7, <3>8
      <4> QED BY <3>9, <4>1, Zenon DEF L4, R4
    <3>15. Cat(Of(n, L3), R4) = Cat(Of(n, L2), R3)
      <4>1. L2 \in Seq(M) /\ c \in Seq(M) /\ R4 \in Seq(M)
        BY <3>5, <3>6, <3>7, <3>8
      <4> QED BY <3>9, <4>1, Zenon DEF L3, R3
    <3>16. Cat(Of(n, L2), R3) = Cat(Of(n, a), R2)
      <4>1. a \in Seq(M) /\ b \in Seq(M) /\ R3 \in Seq(M)
        BY <3>5, <3>6, <3>7, <3>8
      <4> QED BY <3>9, <4>1, Zenon DEF L2, R2
    <3> QED BY <3>2, <3>11, <3>12, <3>13, <3>14, <3>15, <3>16, <3>3
  <2>5. Cancel!InTransit(n) = Of(n, Seven(a, b, c, d, e, f, g))
    BY <2>2, CancelOf
  <2> QED BY <2>3, <2>4, <2>5
<1> QED BY <1>1, <1>2, <1>3, <1>4, <1>6, <1>7, <1>8, <1>9, <1>10

\* What a thread holds that is in the call r, and has the block b.
HeldOf(r) == IF r.pc = "ret" /\ r.op = "get" /\ r.msg # <<>> THEN <<r.msg>> ELSE <<>>
RestOf(r, b) == IF r.pc = "ret" THEN IF r.op = "get" THEN r.msg ELSE Tail(b) ELSE b
SentOf(r, b) == IF r.pc = "ret" /\ r.op = "put" THEN <<>> ELSE b
CountOf(r, k) == k + IF r.pc = "ret" THEN 1 ELSE 0
\* r and s hold the same.
Alike(r, s) == s = r \/ (r.pc # "ret" /\ s.pc # "ret" /\ s.op = r.op)

\* Threads that hold the same.
LEMMA AlikeHold ==
  ASSUME NEW r, NEW s, Alike(r, s)
  PROVE  HeldOf(s) = HeldOf(r) /\ \A b : RestOf(s, b) = RestOf(r, b) /\ SentOf(s, b) = SentOf(r, b)
                                         /\ CountOf(s, b) = CountOf(r, b)
BY DEF Alike, HeldOf, RestOf, SentOf, CountOf

PlacesNow ==
  \A n \in PairNumbers :
    /\ InConsumer(n) = Of(n, HeldOf(th[Cancel!Consumer(n)]))
    /\ InR2cq(n) = Of(n, cQueue[Cancel!r2cq(n)])
    /\ Unpacked(n) = Of(n, RestOf(th[Cancel!Receiver], cRBlock))
    /\ InT2rq(n) = Of(n, FlattenSeq(cQueue[Cancel!t2rq]))
    /\ Packed(n) = Of(n, SentOf(th[Cancel!Transmitter], cTBlock))
    /\ InTransmitter(n) = Of(n, HeldOf(th[Cancel!Transmitter]))
    /\ InP2tq(n) = Of(n, cQueue[Cancel!p2tq])
    /\ Places(n) = Seventh(InConsumer(n), InR2cq(n), Unpacked(n), InT2rq(n),
                           Packed(n), InTransmitter(n), InP2tq(n))
\* Each place in terms of the calls and of the blocks.
LEMMA PlacesAre == PlacesNow
<1> SUFFICES ASSUME NEW n \in PairNumbers
             PROVE  /\ InConsumer(n) = Of(n, HeldOf(th[Cancel!Consumer(n)]))
                    /\ Unpacked(n) = Of(n, RestOf(th[Cancel!Receiver], cRBlock))
                    /\ Packed(n) = Of(n, SentOf(th[Cancel!Transmitter], cTBlock))
                    /\ InTransmitter(n) = Of(n, HeldOf(th[Cancel!Transmitter]))
  BY DEF PlacesNow, InR2cq, InT2rq, InP2tq, Places
<1>1. \A t : Cancel!Held(t) = HeldOf(th[t])
  BY DEF Cancel!Held, Cancel!Holds, Cancel!NoMsg, HeldOf
<1>2. Cancel!InReceiver = RestOf(th[Cancel!Receiver], cRBlock)
  BY DEF Cancel!InReceiver, RestOf
<1>3. Cancel!Sending = SentOf(th[Cancel!Transmitter], cTBlock)
  BY DEF Cancel!Sending, SentOf
<1> QED BY <1>1, <1>2, <1>3 DEF InConsumer, Unpacked, Packed, InTransmitter

\* What does not change when a thread, or a queue, does not.
LEMMA Unmoved ==
  ASSUME NEW n \in PairNumbers, PlacesNow, PlacesNow'
  PROVE  /\ Alike(th[Cancel!Consumer(n)], th'[Cancel!Consumer(n)]) => InConsumer(n)' = InConsumer(n)
         /\ Alike(th[Cancel!Receiver], th'[Cancel!Receiver]) /\ cRBlock' = cRBlock
              => Unpacked(n)' = Unpacked(n)
         /\ Alike(th[Cancel!Transmitter], th'[Cancel!Transmitter])
              => InTransmitter(n)' = InTransmitter(n)
         /\ Alike(th[Cancel!Transmitter], th'[Cancel!Transmitter]) /\ cTBlock' = cTBlock
              => Packed(n)' = Packed(n)
         /\ cQueue'[Cancel!r2cq(n)] = cQueue[Cancel!r2cq(n)] => InR2cq(n)' = InR2cq(n)
         /\ cQueue'[Cancel!t2rq] = cQueue[Cancel!t2rq] => InT2rq(n)' = InT2rq(n)
         /\ cQueue'[Cancel!p2tq] = cQueue[Cancel!p2tq] => InP2tq(n)' = InP2tq(n)
BY AlikeHold DEF PlacesNow

\* The places hold messages, now and after a step.
LEMMA PlacesSeq ==
  ASSUME NEW n \in PairNumbers, CancelInv, ~shutDownGet
  PROVE  /\ InConsumer(n) \in Seq(PairMessages) /\ InR2cq(n) \in Seq(PairMessages)
         /\ Unpacked(n) \in Seq(PairMessages) /\ InT2rq(n) \in Seq(PairMessages)
         /\ Packed(n) \in Seq(PairMessages) /\ InTransmitter(n) \in Seq(PairMessages)
         /\ InP2tq(n) \in Seq(PairMessages)
<1> DEFINE M == PairMessages
<1>1. \A s \in Seq(M) : Of(n, s) \in Seq(M)
  BY OfSeq
<1>2. /\ Cancel!Held(Cancel!Consumer(n)) \in Seq(M) /\ cQueue[Cancel!r2cq(n)] \in Seq(M)
      /\ Cancel!InReceiver \in Seq(M) /\ FlattenSeq(cQueue[Cancel!t2rq]) \in Seq(M)
      /\ Cancel!Sending \in Seq(M) /\ Cancel!Held(Cancel!Transmitter) \in Seq(M)
      /\ cQueue[Cancel!p2tq] \in Seq(M)
  BY PlacesFacts
<1> HIDE DEF M
<1>3. /\ InConsumer(n) \in Seq(M) /\ InR2cq(n) \in Seq(M)
      /\ Unpacked(n) \in Seq(M) /\ InT2rq(n) \in Seq(M)
      /\ Packed(n) \in Seq(M) /\ InTransmitter(n) \in Seq(M)
      /\ InP2tq(n) \in Seq(M)
  BY <1>1, <1>2 DEF InConsumer, InR2cq, Unpacked, InT2rq, Packed, InTransmitter, InP2tq
<1> QED BY <1>3 DEF M

PlacesHold ==
  CancelInv /\ ~shutDownGet =>
    \A n \in PairNumbers :
      /\ InConsumer(n) \in Seq(PairMessages) /\ InR2cq(n) \in Seq(PairMessages)
      /\ Unpacked(n) \in Seq(PairMessages) /\ InT2rq(n) \in Seq(PairMessages)
      /\ Packed(n) \in Seq(PairMessages) /\ InTransmitter(n) \in Seq(PairMessages)
      /\ InP2tq(n) \in Seq(PairMessages)
\* The places hold messages.
LEMMA PlacesHolding == PlacesHold
BY PlacesSeq DEF PlacesHold

\* The same after a step.
LEMMA PlacesThen == PlacesNow' /\ PlacesHold'
<1>1. PlacesNow'
  BY PlacesAre, PTL
<1>2. PlacesHold'
  BY PlacesHolding, PTL
<1> QED BY <1>1, <1>2

\* A message that moves between two neighbouring places leaves the whole.
Kept(n) ==
  \/ /\ Cat(InConsumer(n)', InR2cq(n)') = Cat(InConsumer(n), InR2cq(n))
     /\ UNCHANGED <<Unpacked(n), InT2rq(n), Packed(n), InTransmitter(n), InP2tq(n)>>
  \/ /\ Cat(InR2cq(n)', Unpacked(n)') = Cat(InR2cq(n), Unpacked(n))
     /\ UNCHANGED <<InConsumer(n), InT2rq(n), Packed(n), InTransmitter(n), InP2tq(n)>>
  \/ /\ Cat(Unpacked(n)', InT2rq(n)') = Cat(Unpacked(n), InT2rq(n))
     /\ UNCHANGED <<InConsumer(n), InR2cq(n), Packed(n), InTransmitter(n), InP2tq(n)>>
  \/ /\ Cat(InT2rq(n)', Packed(n)') = Cat(InT2rq(n), Packed(n))
     /\ UNCHANGED <<InConsumer(n), InR2cq(n), Unpacked(n), InTransmitter(n), InP2tq(n)>>
  \/ /\ Cat(Packed(n)', InTransmitter(n)') = Cat(Packed(n), InTransmitter(n))
     /\ UNCHANGED <<InConsumer(n), InR2cq(n), Unpacked(n), InT2rq(n), InP2tq(n)>>
  \/ /\ Cat(InTransmitter(n)', InP2tq(n)') = Cat(InTransmitter(n), InP2tq(n))
     /\ UNCHANGED <<InConsumer(n), InR2cq(n), Unpacked(n), InT2rq(n), Packed(n)>>
\* So it stays the same in each of the ways a message moves.
LEMMA PlacesKept ==
  ASSUME NEW n \in PairNumbers, CancelInv, ~shutDownGet, CancelInv', ~shutDownGet', Kept(n)
  PROVE  Places(n)' = Places(n)
<1> DEFINE K == Seq(PairMessages)
           a == InConsumer(n)
           b == InR2cq(n)
           c == Unpacked(n)
           d == InT2rq(n)
           e == Packed(n)
           f == InTransmitter(n)
           g == InP2tq(n)
           a1 == InConsumer(n)'
           b1 == InR2cq(n)'
           c1 == Unpacked(n)'
           d1 == InT2rq(n)'
           e1 == Packed(n)'
           f1 == InTransmitter(n)'
           g1 == InP2tq(n)'
           g2 == Cat(f, g)
           f2 == Cat(e, g2)
           e2 == Cat(d, f2)
           d2 == Cat(c, e2)
           c2 == Cat(b, d2)
<1>1. a \in K /\ b \in K /\ c \in K /\ d \in K /\ e \in K /\ f \in K /\ g \in K
  BY PlacesSeq
<1>2. a1 \in K /\ b1 \in K /\ c1 \in K /\ d1 \in K /\ e1 \in K /\ f1 \in K /\ g1 \in K
  BY PlacesThen DEF PlacesHold
<1>3. /\ g2 = Cat(f, g) /\ f2 = Cat(e, g2) /\ e2 = Cat(d, f2) /\ d2 = Cat(c, e2) /\ c2 = Cat(b, d2)
  OBVIOUS
<1>4. Places(n) = Cat(a, c2)
  BY DEF Places, Seventh
<1>5. Places(n)' = Cat(a1, Cat(b1, Cat(c1, Cat(d1, Cat(e1, Cat(f1, g1))))))
  BY DEF Places, Seventh
<1>6. \/ Cat(a1, b1) = Cat(a, b) /\ c1 = c /\ d1 = d /\ e1 = e /\ f1 = f /\ g1 = g
      \/ Cat(b1, c1) = Cat(b, c) /\ a1 = a /\ d1 = d /\ e1 = e /\ f1 = f /\ g1 = g
      \/ Cat(c1, d1) = Cat(c, d) /\ a1 = a /\ b1 = b /\ e1 = e /\ f1 = f /\ g1 = g
      \/ Cat(d1, e1) = Cat(d, e) /\ a1 = a /\ b1 = b /\ c1 = c /\ f1 = f /\ g1 = g
      \/ Cat(e1, f1) = Cat(e, f) /\ a1 = a /\ b1 = b /\ c1 = c /\ d1 = d /\ g1 = g
      \/ Cat(f1, g1) = Cat(f, g) /\ a1 = a /\ b1 = b /\ c1 = c /\ d1 = d /\ e1 = e
  BY DEF Kept
<1>7. \A x, y, v, w, r \in K : Cat(x, y) = Cat(v, w) => Cat(x, Cat(y, r)) = Cat(v, Cat(w, r))
  BY CatMoved
<1>8. \A x, y \in K : Cat(x, y) \in K
  BY CatFacts
<1> HIDE DEF K, a, b, c, d, e, f, g, a1, b1, c1, d1, e1, f1, g1, c2, d2, e2, f2, g2
<1>9. g2 \in K /\ f2 \in K /\ e2 \in K /\ d2 \in K
  BY <1>1, <1>3, <1>8
<1>10. CASE Cat(a1, b1) = Cat(a, b) /\ c1 = c /\ d1 = d /\ e1 = e /\ f1 = f /\ g1 = g
  <2>1. a1 \in K /\ b1 \in K /\ a \in K /\ b \in K /\ d2 \in K
    BY <1>1, <1>2, <1>9
  <2>2. Cat(a1, Cat(b1, d2)) = Cat(a, Cat(b, d2))
    BY <1>7, <1>10, <2>1
  <2> QED BY <1>3, <1>4, <1>5, <1>10, <2>2
<1>11. CASE Cat(b1, c1) = Cat(b, c) /\ a1 = a /\ d1 = d /\ e1 = e /\ f1 = f /\ g1 = g
  <2>1. b1 \in K /\ c1 \in K /\ b \in K /\ c \in K /\ e2 \in K
    BY <1>1, <1>2, <1>9
  <2>2. Cat(b1, Cat(c1, e2)) = Cat(b, Cat(c, e2))
    BY <1>7, <1>11, <2>1
  <2> QED BY <1>3, <1>4, <1>5, <1>11, <2>2
<1>12. CASE Cat(c1, d1) = Cat(c, d) /\ a1 = a /\ b1 = b /\ e1 = e /\ f1 = f /\ g1 = g
  <2>1. c1 \in K /\ d1 \in K /\ c \in K /\ d \in K /\ f2 \in K
    BY <1>1, <1>2, <1>9
  <2>2. Cat(c1, Cat(d1, f2)) = Cat(c, Cat(d, f2))
    BY <1>7, <1>12, <2>1
  <2> QED BY <1>3, <1>4, <1>5, <1>12, <2>2
<1>13. CASE Cat(d1, e1) = Cat(d, e) /\ a1 = a /\ b1 = b /\ c1 = c /\ f1 = f /\ g1 = g
  <2>1. d1 \in K /\ e1 \in K /\ d \in K /\ e \in K /\ g2 \in K
    BY <1>1, <1>2, <1>9
  <2>2. Cat(d1, Cat(e1, g2)) = Cat(d, Cat(e, g2))
    BY <1>7, <1>13, <2>1
  <2> QED BY <1>3, <1>4, <1>5, <1>13, <2>2
<1>14. CASE Cat(e1, f1) = Cat(e, f) /\ a1 = a /\ b1 = b /\ c1 = c /\ d1 = d /\ g1 = g
  <2>1. e1 \in K /\ f1 \in K /\ e \in K /\ f \in K /\ g \in K
    BY <1>1, <1>2, <1>9
  <2>2. Cat(e1, Cat(f1, g)) = Cat(e, Cat(f, g))
    BY <1>7, <1>14, <2>1
  <2> QED BY <1>3, <1>4, <1>5, <1>14, <2>2
<1>15. CASE Cat(f1, g1) = Cat(f, g) /\ a1 = a /\ b1 = b /\ c1 = c /\ d1 = d /\ e1 = e
  BY <1>3, <1>4, <1>5, <1>15
<1> QED BY <1>6, <1>10, <1>11, <1>12, <1>13, <1>14, <1>15

CancelDelivery ==
  ~cShutDown =>
    \A n \in PairNumbers :
      /\ cDone[Cancel!Consumer(n)] <= Cancel!PutDone(n)
      /\ Places(n) = Numbers(n, cDone[Cancel!Consumer(n)], Cancel!PutDone(n))

PutDoneNow ==
  \A n \in PairNumbers :
    Cancel!PutDone(n) = CountOf(th[Cancel!Producer(n)], cDone[Cancel!Producer(n)])
\* PutDone counts the put that has returned.
LEMMA PutDoneIs == PutDoneNow
BY DEF PutDoneNow, Cancel!PutDone, CountOf

\* Steps that move no message: of the calls before they act, and of the boss.
LEMMA NothingMoves ==
  ASSUME CancelInv, CancelInv', ~shutDownGet, ~shutDownGet', cShutDown => cShutDown',
         CancelDelivery,
         \A t \in Cancel!Threads : Alike(th[t], th'[t]),
         cQueue' = cQueue, cDone' = cDone, cTBlock' = cTBlock, cRBlock' = cRBlock
  PROVE  CancelDelivery'
<1> SUFFICES ASSUME ~cShutDown', NEW n \in PairNumbers
             PROVE  /\ cDone'[Cancel!Consumer(n)] <= Cancel!PutDone(n)'
                    /\ Places(n)' = Numbers(n, cDone'[Cancel!Consumer(n)], Cancel!PutDone(n)')
  BY DEF CancelDelivery, Numbers
<1>1. /\ Cancel!Consumer(n) \in Cancel!Threads /\ Cancel!Producer(n) \in Cancel!Threads
      /\ Cancel!Transmitter \in Cancel!Threads /\ Cancel!Receiver \in Cancel!Threads
  BY CancelNames
<1>2. PlacesNow /\ PlacesNow'
  BY PlacesAre, PlacesThen
<1>3. UNCHANGED <<InConsumer(n), InR2cq(n), Unpacked(n), InT2rq(n), Packed(n), InTransmitter(n), InP2tq(n)>>
  BY <1>1, <1>2, Unmoved
<1>4. Places(n)' = Places(n)
  BY <1>3, PlacesKept DEF Kept
<1>5. PutDoneNow /\ PutDoneNow'
  <2>1. PutDoneNow'
    BY PutDoneIs, PTL
  <2> QED BY <2>1, PutDoneIs
<1>6. Cancel!PutDone(n)' = Cancel!PutDone(n)
  BY <1>1, <1>5, AlikeHold DEF PutDoneNow
<1> QED BY <1>4, <1>6 DEF CancelDelivery

\* The same after a step.
LEMMA PutDoneThen == PutDoneNow /\ PutDoneNow'
<1>1. PutDoneNow'
  BY PutDoneIs, PTL
<1> QED BY <1>1, PutDoneIs

\* A call that acts, of each of the threads.
ActBefore(t) ==
  /\ CancelInv /\ CancelInv' /\ ~shutDownGet /\ ~shutDownGet' /\ ~cShutDown /\ Acts(t)
ActNow(t) ==
  /\ th[t].pc = "act" /\ th[t].op \in {"get", "put"} /\ th[t].q \in Cancel!Queues
  /\ th[t].op = "get" => cQueue[th[t].q] # <<>>
  /\ th'[t].pc = "ret" /\ th'[t].op = th[t].op /\ th'[t].msg = Answer(t)
  /\ cQueue'[th[t].q] = IF th[t].op = "get" THEN Tail(cQueue[th[t].q]) ELSE Append(cQueue[th[t].q], th[t].msg)
  /\ \A q \in Cancel!Queues : q # th[t].q => cQueue'[q] = cQueue[q]
  /\ \A u \in Cancel!Threads \ {t} : Alike(th[u], th'[u])
  /\ UNCHANGED <<cDone, cTBlock, cRBlock, cShutDown>>
\* What a call that acts does to the queues, the blocks and the threads.
LEMMA ActAll == ASSUME NEW t \in Cancel!Threads, ActBefore(t) PROVE ActNow(t)
<1>1. th \in [Cancel!Threads -> CallsOf] /\ cQueue = [q \in Cancel!Queues |-> cQueue[q]]
  BY DEF ActBefore, CancelInv, CancelTypes
<1>2. /\ th[t].pc = "act" /\ guard[th[t].q] = t /\ guard' = [guard EXCEPT ![th[t].q] = Cancel!Nobody]
      /\ th[t].op \in {"get", "put"} /\ th[t].q \in Cancel!Queues
      /\ th[t].op = "get" => cQueue[th[t].q] # <<>> /\ Answer(t) \in Kind(th[t].q)
      /\ cQueue' = [cQueue EXCEPT ![th[t].q] = IF th[t].op = "get" THEN Tail(@) ELSE Append(@, th[t].msg)]
      /\ th'[t] = Returned(t)
      /\ \A u \in Cancel!Threads \ {t} :
           th'[u] = th[u] \/ (th[u].pc = "wait" /\ th'[u] = [th[u] EXCEPT !.pc = "lock"])
      /\ UNCHANGED <<cGoal, cDone, cTBlock, cRBlock, apc, shutDownGet, shutDownPut, cShutDown, cBoss>>
  BY ActFacts DEF ActBefore
<1>3. th'[t].pc = "ret" /\ th'[t].op = th[t].op /\ th'[t].msg = Answer(t)
  BY <1>1, <1>2 DEF Returned, CallsOf
<1>4. \A u \in Cancel!Threads \ {t} : Alike(th[u], th'[u])
  BY <1>1, <1>2 DEF Alike, CallsOf
<1>5. /\ cQueue'[th[t].q] = IF th[t].op = "get" THEN Tail(cQueue[th[t].q]) ELSE Append(cQueue[th[t].q], th[t].msg)
      /\ \A q \in Cancel!Queues : q # th[t].q => cQueue'[q] = cQueue[q]
  BY <1>1, <1>2
<1> QED BY <1>2, <1>3, <1>4, <1>5 DEF ActNow

\* A get takes the first message of a queue, which was before the others.
LEMMA TakenFirst ==
  ASSUME NEW S, NEW n
  PROVE  \A s \in Seq(S) : s # <<>> => Cat(Of(n, <<Head(s)>>), Of(n, Tail(s))) = Cat(Of(n, <<>>), Of(n, s))
<1> TAKE s \in Seq(S)
<1> SUFFICES ASSUME s # <<>> PROVE Cat(Of(n, <<Head(s)>>), Of(n, Tail(s))) = Cat(Of(n, <<>>), Of(n, s))
  OBVIOUS
<1>1. Of(n, s) = Cat(Of(n, <<Head(s)>>), Of(n, Tail(s)))
  BY OfSplit
<1>2. Of(n, s) \in Seq(S) /\ Of(n, <<>>) = <<>>
  BY OfSeq, OfEmpty
<1>3. Cat(<<>>, Of(n, s)) = Of(n, s)
  BY <1>2, CatFacts
<1> QED BY <1>1, <1>2, <1>3

\* A message is not the empty answer of a put.
LEMMA NotEmpty == \A m \in PairMessages : m # <<>>
<1> TAKE m \in PairMessages
<1>1. m \in PairNumbers \X Nat
  BY DEF PairMessages
<1>2. PICK a \in PairNumbers, b \in Nat : m = <<a, b>>
  BY <1>1
<1>3. Len(<<a, b>>) = 2 /\ Len(<<>>) = 0
  OBVIOUS
<1> QED BY <1>2, <1>3

\* A get of a consumer takes the message with the lowest number out of its queue.
LEMMA ConsumerActs ==
  ASSUME NEW m \in PairNumbers, ActBefore(Cancel!Consumer(m)), NEW n \in PairNumbers
  PROVE  Places(n)' = Places(n) /\ Cancel!PutDone(n)' = Cancel!PutDone(n)
<1> DEFINE t == Cancel!Consumer(m)
<1>1. /\ t \in Cancel!Threads /\ t # Cancel!Transmitter /\ t # Cancel!Receiver /\ t # Cancel!Producer(n)
      /\ Cancel!Consumer(n) \in Cancel!Threads /\ (n # m => Cancel!Consumer(n) # t /\ Cancel!r2cq(n) # Cancel!r2cq(m))
      /\ Cancel!Transmitter \in Cancel!Threads /\ Cancel!Receiver \in Cancel!Threads
      /\ Cancel!Producer(n) \in Cancel!Threads
  BY CancelNames
<1>2. ActNow(t)
  BY <1>1, ActAll
<1>3. th[t].op = "get" /\ th[t].q = Cancel!r2cq(m)
  BY <1>2 DEF ActBefore, CancelInv, Calls, ConsumerCall, ActNow
<1>4. PlacesNow /\ PlacesNow' /\ PutDoneNow /\ PutDoneNow' /\ ~shutDownGet /\ ~shutDownGet' /\ CancelInv /\ CancelInv'
  BY PlacesAre, PlacesThen, PutDoneThen DEF ActBefore
<1>5. UNCHANGED <<Unpacked(n), InT2rq(n), Packed(n), InTransmitter(n), InP2tq(n)>>
  BY <1>1, <1>2, <1>3, <1>4, Unmoved, QueueNames DEF ActNow
<1>6. Cat(InConsumer(n)', InR2cq(n)') = Cat(InConsumer(n), InR2cq(n))
  <2>1. CASE n # m
    <3>1. UNCHANGED <<InConsumer(n), InR2cq(n)>>
      BY <1>1, <1>2, <1>3, <1>4, <2>1, Unmoved, QueueNames DEF ActNow
    <3> QED BY <3>1
  <2>2. CASE n = m
    <3> DEFINE s == cQueue[Cancel!r2cq(n)]
    <3>1. s # <<>> /\ s \in Seq(PairMessages)
      BY <1>2, <1>3, <1>4, <2>2, PlacesFacts DEF ActNow
    <3>2. InConsumer(n) = Of(n, <<>>) /\ InR2cq(n) = Of(n, s)
      <4>1. HeldOf(th[t]) = <<>>
        BY <1>2 DEF ActNow, HeldOf
      <4> QED BY <1>4, <2>2, <4>1 DEF PlacesNow
    <3>3. InR2cq(n)' = Of(n, Tail(s))
      BY <1>2, <1>3, <1>4, <2>2 DEF ActNow, PlacesNow
    <3>4. InConsumer(n)' = Of(n, <<Head(s)>>)
      <4>1. th'[t].pc = "ret" /\ th'[t].op = "get" /\ th'[t].msg = Head(s)
        BY <1>2, <1>3, <2>2 DEF ActNow, Answer
      <4>2. Head(s) # <<>>
        <5> HIDE DEF s
        <5>1. Head(s) \in PairMessages
          BY <3>1
        <5> QED BY <5>1, NotEmpty
      <4>3. HeldOf(th'[t]) = <<Head(s)>>
        BY <4>1, <4>2 DEF HeldOf
      <4> QED BY <1>4, <2>2, <4>3 DEF PlacesNow
    <3> HIDE DEF s
    <3> QED BY <3>1, <3>2, <3>3, <3>4, TakenFirst
  <2> QED BY <2>1, <2>2
<1>7. Places(n)' = Places(n)
  BY <1>4, <1>5, <1>6, PlacesKept DEF Kept
<1>8. Cancel!PutDone(n)' = Cancel!PutDone(n)
  BY <1>1, <1>2, <1>4, AlikeHold DEF PutDoneNow, ActNow
<1> QED BY <1>7, <1>8

\* The transmitter moves a message out of p2tq, or a block into t2rq.
LEMMA TransmitterActs ==
  ASSUME ActBefore(Cancel!Transmitter), NEW n \in PairNumbers
  PROVE  Places(n)' = Places(n) /\ Cancel!PutDone(n)' = Cancel!PutDone(n)
<1> DEFINE t == Cancel!Transmitter
<1>1. /\ t \in Cancel!Threads /\ t # Cancel!Receiver /\ t # Cancel!Producer(n)
      /\ t # Cancel!Consumer(n) /\ Cancel!Consumer(n) \in Cancel!Threads
      /\ Cancel!Receiver \in Cancel!Threads /\ Cancel!Producer(n) \in Cancel!Threads
  BY CancelNames
<1>2. ActNow(t)
  BY <1>1, ActAll
<1>3. TransmitterCall(th[t], cTBlock)
  BY <1>2 DEF ActBefore, CancelInv, Calls, ActNow
<1>4. PlacesNow /\ PlacesNow' /\ PutDoneNow /\ PutDoneNow' /\ ~shutDownGet /\ ~shutDownGet' /\ CancelInv /\ CancelInv'
  BY PlacesAre, PlacesThen, PutDoneThen DEF ActBefore
<1>5. UNCHANGED <<InConsumer(n), Unpacked(n)>>
  BY <1>1, <1>2, <1>4, Unmoved DEF ActNow
<1>6. Cancel!PutDone(n)' = Cancel!PutDone(n)
  BY <1>1, <1>2, <1>4, AlikeHold DEF PutDoneNow, ActNow
<1>7. CASE th[t].op = "get"
  <2>1. th[t].q = Cancel!p2tq
    BY <1>2, <1>3, <1>7 DEF TransmitterCall, ActNow
  <2>2. UNCHANGED <<InR2cq(n), InT2rq(n)>>
    BY <1>2, <1>4, <2>1, Unmoved, QueueNames DEF ActNow
  <2>3. Packed(n)' = Packed(n)
    <3>1. SentOf(th'[t], cTBlock') = cTBlock /\ SentOf(th[t], cTBlock) = cTBlock
      BY <1>2, <1>7 DEF ActNow, SentOf
    <3> QED BY <1>4, <3>1 DEF PlacesNow
  <2>4. Cat(InTransmitter(n)', InP2tq(n)') = Cat(InTransmitter(n), InP2tq(n))
    <3> DEFINE s == cQueue[Cancel!p2tq]
    <3>1. s # <<>> /\ s \in Seq(PairMessages)
      BY <1>2, <1>4, <1>7, <2>1, PlacesFacts DEF ActNow
    <3>2. InTransmitter(n) = Of(n, <<>>) /\ InP2tq(n) = Of(n, s)
      <4>1. HeldOf(th[t]) = <<>>
        BY <1>2 DEF ActNow, HeldOf
      <4> QED BY <1>4, <4>1 DEF PlacesNow
    <3>3. InP2tq(n)' = Of(n, Tail(s))
      BY <1>2, <1>4, <1>7, <2>1 DEF ActNow, PlacesNow
    <3>4. InTransmitter(n)' = Of(n, <<Head(s)>>)
      <4>1. th'[t].pc = "ret" /\ th'[t].op = "get" /\ th'[t].msg = Head(s)
        BY <1>2, <1>7, <2>1 DEF ActNow, Answer
      <4>2. Head(s) # <<>>
        <5> HIDE DEF s
        <5>1. Head(s) \in PairMessages
          BY <3>1
        <5> QED BY <5>1, NotEmpty
      <4>3. HeldOf(th'[t]) = <<Head(s)>>
        BY <4>1, <4>2 DEF HeldOf
      <4> QED BY <1>4, <4>3 DEF PlacesNow
    <3> HIDE DEF s
    <3> QED BY <3>1, <3>2, <3>3, <3>4, TakenFirst
  <2>5. Places(n)' = Places(n)
    BY <1>4, <1>5, <2>2, <2>3, <2>4, PlacesKept DEF Kept
  <2> QED BY <1>6, <2>5
<1>8. CASE th[t].op = "put"
  <2>1. th[t].q = Cancel!t2rq /\ th[t].msg = cTBlock
    BY <1>2, <1>3, <1>8 DEF TransmitterCall, ActNow
  <2>2. UNCHANGED <<InR2cq(n), InP2tq(n)>>
    BY <1>2, <1>4, <2>1, Unmoved, QueueNames DEF ActNow
  <2>3. InTransmitter(n)' = InTransmitter(n)
    <3>1. HeldOf(th'[t]) = <<>> /\ HeldOf(th[t]) = <<>>
      BY <1>2, <1>8 DEF ActNow, HeldOf
    <3> QED BY <1>4, <3>1 DEF PlacesNow
  <2>4. Cat(InT2rq(n)', Packed(n)') = Cat(InT2rq(n), Packed(n))
    <3> DEFINE s == cQueue[Cancel!t2rq]
               f == FlattenSeq(s)
               K == Seq(PairMessages)
    <3>1. s \in Seq(Seq(PairMessages)) /\ f \in K /\ cTBlock \in K
      BY <1>4, PlacesFacts DEF CancelInv, CancelTypes, Blocks
    <3>2. InT2rq(n) = Of(n, f) /\ Packed(n) = Of(n, cTBlock)
      <4>1. SentOf(th[t], cTBlock) = cTBlock
        BY <1>2 DEF ActNow, SentOf
      <4> QED BY <1>4, <4>1 DEF PlacesNow
    <3>3. Packed(n)' = <<>>
      <4>1. SentOf(th'[t], cTBlock') = <<>>
        BY <1>2, <1>8 DEF ActNow, SentOf
      <4> QED BY <1>4, <4>1, OfEmpty DEF PlacesNow
    <3>4. InT2rq(n)' = Of(n, FlattenSeq(Append(s, cTBlock)))
      BY <1>2, <1>4, <1>8, <2>1 DEF ActNow, PlacesNow
    <3>5. FlattenSeq(Append(s, cTBlock)) = Cat(f, cTBlock)
      <4> HIDE DEF s
      <4> QED BY <3>1, FlatAppend DEF Cat
    <3> HIDE DEF s, f
    <3>6. Of(n, Cat(f, cTBlock)) = Cat(Of(n, f), Of(n, cTBlock))
      BY <3>1, OfCats
    <3>7. Of(n, Cat(f, cTBlock)) \in K
      <4>1. Cat(f, cTBlock) \in K
        BY <3>1, CatFacts
      <4> QED BY <4>1, OfSeq
    <3>8. Cat(Of(n, Cat(f, cTBlock)), <<>>) = Of(n, Cat(f, cTBlock))
      BY <3>7, CatFacts
    <3> QED BY <3>2, <3>3, <3>4, <3>5, <3>6, <3>8
  <2>5. Places(n)' = Places(n)
    BY <1>4, <1>5, <2>2, <2>3, <2>4, PlacesKept DEF Kept
  <2> QED BY <1>6, <2>5
<1> QED BY <1>2, <1>7, <1>8 DEF ActNow

\* The receiver moves a block out of t2rq, or a message to its consumer.
LEMMA ReceiverActs ==
  ASSUME ActBefore(Cancel!Receiver), NEW n \in PairNumbers
  PROVE  Places(n)' = Places(n) /\ Cancel!PutDone(n)' = Cancel!PutDone(n)
<1> DEFINE t == Cancel!Receiver
           K == Seq(PairMessages)
<1>1. /\ t \in Cancel!Threads /\ t # Cancel!Transmitter /\ t # Cancel!Producer(n)
      /\ t # Cancel!Consumer(n) /\ Cancel!Consumer(n) \in Cancel!Threads
      /\ Cancel!Transmitter \in Cancel!Threads /\ Cancel!Producer(n) \in Cancel!Threads
  BY CancelNames
<1>2. ActNow(t)
  BY <1>1, ActAll
<1>3. ReceiverCall(th[t], cRBlock) /\ cRBlock \in Blocks
  BY <1>2 DEF ActBefore, CancelInv, Calls, ActNow, CancelTypes
<1>4. PlacesNow /\ PlacesNow' /\ PutDoneNow /\ PutDoneNow' /\ ~shutDownGet /\ ~shutDownGet' /\ CancelInv /\ CancelInv'
  BY PlacesAre, PlacesThen, PutDoneThen DEF ActBefore
<1>5. UNCHANGED <<InConsumer(n), InTransmitter(n), Packed(n)>>
  BY <1>1, <1>2, <1>4, Unmoved DEF ActNow
<1>6. Cancel!PutDone(n)' = Cancel!PutDone(n)
  BY <1>1, <1>2, <1>4, AlikeHold DEF PutDoneNow, ActNow
<1>7. CASE th[t].op = "get"
  <2>1. th[t].q = Cancel!t2rq /\ cRBlock = <<>>
    BY <1>2, <1>3, <1>7 DEF ReceiverCall, ActNow
  <2>2. UNCHANGED <<InR2cq(n), InP2tq(n)>>
    BY <1>2, <1>4, <2>1, Unmoved, QueueNames DEF ActNow
  <2>3. Cat(Unpacked(n)', InT2rq(n)') = Cat(Unpacked(n), InT2rq(n))
    <3> DEFINE s == cQueue[Cancel!t2rq]
    <3>1. s # <<>> /\ s \in Seq(Seq(PairMessages))
      BY <1>2, <1>4, <1>7, <2>1, PlacesFacts DEF ActNow
    <3>2. InT2rq(n) = Of(n, FlattenSeq(s)) /\ Unpacked(n) = <<>>
      <4>1. RestOf(th[t], cRBlock) = <<>>
        BY <1>2, <2>1 DEF ActNow, RestOf
      <4> QED BY <1>4, <4>1, OfEmpty DEF PlacesNow
    <3>3. InT2rq(n)' = Of(n, FlattenSeq(Tail(s)))
      BY <1>2, <1>4, <1>7, <2>1 DEF ActNow, PlacesNow
    <3>4. Unpacked(n)' = Of(n, Head(s))
      <4>1. RestOf(th'[t], cRBlock') = Head(s)
        BY <1>2, <1>7, <2>1 DEF ActNow, RestOf, Answer
      <4> QED BY <1>4, <4>1 DEF PlacesNow
    <3> HIDE DEF s
    <3>5. FlattenSeq(s) = Cat(Head(s), FlattenSeq(Tail(s)))
      BY <3>1, FlatHead DEF Cat
    <3>6. Head(s) \in K /\ Tail(s) \in Seq(K)
      <4> HIDE DEF K
      <4>1. s \in Seq(K)
        BY <3>1 DEF K
      <4> QED BY <3>1, <4>1
    <3>7. FlattenSeq(Tail(s)) \in K
      BY <3>6, FlatSeq
    <3> DEFINE h == Head(s)
               r == FlattenSeq(Tail(s))
    <3> HIDE DEF h, r
    <3>8. Of(n, Cat(h, r)) = Cat(Of(n, h), Of(n, r))
      BY <3>6, <3>7, OfCats DEF h, r
    <3>9. Cat(<<>>, Of(n, Cat(h, r))) = Of(n, Cat(h, r))
      <4>1. Cat(h, r) \in K
        BY <3>6, <3>7, CatFacts DEF h, r
      <4>2. Of(n, Cat(h, r)) \in K
        BY <4>1, OfSeq
      <4> QED BY <4>2, CatFacts
    <3> QED BY <3>2, <3>3, <3>4, <3>5, <3>8, <3>9 DEF h, r
  <2>4. Places(n)' = Places(n)
    BY <1>4, <1>5, <2>2, <2>3, PlacesKept DEF Kept
  <2> QED BY <1>6, <2>4
<1>8. CASE th[t].op = "put"
  <2> DEFINE b == cRBlock
             h == Head(b)
             s == cQueue[Cancel!r2cq(n)]
  <2>1. b # <<>> /\ th[t].q = Cancel!r2cq(h[1]) /\ th[t].msg = h /\ h[1] \in PairNumbers /\ h \in PairMessages
    BY <1>2, <1>3, <1>8, BlockHead DEF ReceiverCall, ActNow
  <2>2. UNCHANGED <<InT2rq(n), InP2tq(n)>>
    BY <1>2, <1>4, <2>1, Unmoved, QueueNames DEF ActNow
  <2>3. Unpacked(n) = Of(n, b) /\ Unpacked(n)' = Of(n, Tail(b))
    <3>1. RestOf(th[t], cRBlock) = b /\ RestOf(th'[t], cRBlock') = Tail(b)
      BY <1>2, <1>8 DEF ActNow, RestOf
    <3> QED BY <1>4, <3>1 DEF PlacesNow
  <2>4. b \in K /\ Tail(b) \in K /\ s \in K
    <3>1. b \in Blocks /\ Tail(b) \in Blocks
      BY <1>3, <2>1, BlockHead
    <3>2. s \in K
      BY <1>4, PlacesFacts
    <3> QED BY <3>1, <3>2 DEF Blocks
  <2>5. Of(n, b) = Cat(Of(n, <<h>>), Of(n, Tail(b)))
    <3> HIDE DEF b
    <3> QED BY <2>1, <2>4, OfSplit DEF h
  <2>6. Of(n, <<h>>) = IF h[1] = n THEN <<h>> ELSE <<>>
    BY OfOne
  <2>7. /\ InR2cq(n) = Of(n, s)
        /\ InR2cq(n)' = IF h[1] = n THEN Append(Of(n, s), h) ELSE Of(n, s)
    <3>1. CASE h[1] = n
      <4>1. cQueue'[Cancel!r2cq(n)] = Append(s, h)
        BY <1>2, <1>8, <2>1, <3>1 DEF ActNow
      <4> HIDE DEF s, h
      <4>2. Of(n, Append(s, h)) = Append(Of(n, s), h)
        BY <2>1, <2>4, <3>1, OfAppend
      <4> QED BY <1>4, <3>1, <4>1, <4>2 DEF PlacesNow, s
    <3>2. CASE h[1] # n
      <4>1. cQueue'[Cancel!r2cq(n)] = s
        BY <1>2, <2>1, <3>2, CancelNames, QueueNames DEF ActNow
      <4> HIDE DEF h
      <4> QED BY <1>4, <3>2, <4>1 DEF PlacesNow
    <3> QED BY <3>1, <3>2
  <2> HIDE DEF h, s, b
  <2>8. Of(n, s) \in K /\ Of(n, Tail(b)) \in K
    BY <2>4, OfSeq
  <2>9. Cat(InR2cq(n)', Unpacked(n)') = Cat(InR2cq(n), Unpacked(n))
    <3>1. CASE h[1] = n
      <4>1. Cat(Of(n, s), Cat(<<h>>, Of(n, Tail(b)))) = Cat(Append(Of(n, s), h), Of(n, Tail(b)))
        BY <2>1, <2>8, CatFacts
      <4> QED BY <2>3, <2>5, <2>6, <2>7, <3>1, <4>1
    <3>2. CASE h[1] # n
      <4>1. Cat(<<>>, Of(n, Tail(b))) = Of(n, Tail(b))
        BY <2>8, CatFacts
      <4> QED BY <2>3, <2>5, <2>6, <2>7, <3>2, <4>1
    <3> QED BY <3>1, <3>2
  <2>10. Places(n)' = Places(n)
    BY <1>4, <1>5, <2>2, <2>9, PlacesKept DEF Kept
  <2> QED BY <1>6, <2>10
<1> QED BY <1>2, <1>7, <1>8 DEF ActNow

\* A put of a producer adds the message with the next number.
LEMMA ProducerActs ==
  ASSUME NEW m \in PairNumbers, ActBefore(Cancel!Producer(m)), CancelDelivery, NEW n \in PairNumbers
  PROVE  /\ cDone'[Cancel!Consumer(n)] <= Cancel!PutDone(n)'
         /\ Places(n)' = Numbers(n, cDone'[Cancel!Consumer(n)], Cancel!PutDone(n)')
<1> DEFINE t == Cancel!Producer(m)
           K == Seq(PairMessages)
           k == cDone[t]
           h == <<m, k>>
<1>1. /\ t \in Cancel!Threads /\ t # Cancel!Transmitter /\ t # Cancel!Receiver
      /\ t # Cancel!Consumer(n) /\ Cancel!Consumer(n) \in Cancel!Threads
      /\ Cancel!Transmitter \in Cancel!Threads /\ Cancel!Receiver \in Cancel!Threads
      /\ Cancel!Producer(n) \in Cancel!Threads /\ (n # m => Cancel!Producer(n) # t)
      /\ t \in Cancel!Producers /\ Cancel!Consumer(n) \in Cancel!Consumers
  BY CancelNames
<1>2. ActNow(t)
  BY <1>1, ActAll
<1>3. th[t].op = "put" /\ th[t].q = Cancel!p2tq /\ th[t].msg = h
  BY <1>2 DEF ActBefore, CancelInv, Calls, ProducerCall, ActNow
<1>4. PlacesNow /\ PlacesNow' /\ PutDoneNow /\ PutDoneNow' /\ ~shutDownGet /\ ~shutDownGet' /\ CancelInv /\ CancelInv'
  BY PlacesAre, PlacesThen, PutDoneThen DEF ActBefore
<1>5. UNCHANGED <<InConsumer(n), InR2cq(n), Unpacked(n), InT2rq(n), Packed(n), InTransmitter(n)>>
  BY <1>1, <1>2, <1>3, <1>4, Unmoved, QueueNames DEF ActNow
<1>6. /\ cDone[Cancel!Consumer(n)] <= Cancel!PutDone(n)
      /\ Places(n) = Numbers(n, cDone[Cancel!Consumer(n)], Cancel!PutDone(n))
  BY DEF ActBefore, CancelDelivery
<1>7. k \in Nat /\ cDone[Cancel!Consumer(n)] \in Nat /\ h \in PairMessages
  BY <1>1, <1>4 DEF CancelInv, CancelTypes, PairMessages
<1>8. cDone'[Cancel!Consumer(n)] = cDone[Cancel!Consumer(n)]
  BY <1>2 DEF ActNow
<1>9. InP2tq(n)' = IF n = m THEN Append(InP2tq(n), h) ELSE InP2tq(n)
  <2> DEFINE s == cQueue[Cancel!p2tq]
  <2>1. s \in K
    BY <1>4, PlacesFacts
  <2>2. InP2tq(n) = Of(n, s) /\ InP2tq(n)' = Of(n, Append(s, h))
    BY <1>2, <1>3, <1>4 DEF ActNow, PlacesNow
  <2>3. h[1] = m
    OBVIOUS
  <2> HIDE DEF s, h
  <2>4. Of(n, Append(s, h)) = IF h[1] = n THEN Append(Of(n, s), h) ELSE Of(n, s)
    BY <1>7, <2>1, OfAppend
  <2> QED BY <2>2, <2>3, <2>4
<1>10. CASE n # m
  <2>1. Cancel!PutDone(n)' = Cancel!PutDone(n)
    BY <1>1, <1>2, <1>4, <1>10, AlikeHold DEF PutDoneNow, ActNow
  <2>2. Places(n)' = Places(n)
    BY <1>4, <1>5, <1>9, <1>10, PlacesKept DEF Kept
  <2> QED BY <1>6, <1>8, <2>1, <2>2
<1>11. CASE n = m
  <2>1. Cancel!PutDone(n) = k /\ Cancel!PutDone(n)' = k + 1
    BY <1>2, <1>4, <1>7, <1>11 DEF PutDoneNow, ActNow, CountOf
  <2> DEFINE g2 == Cat(InTransmitter(n), InP2tq(n))
             f2 == Cat(Packed(n), g2)
             e2 == Cat(InT2rq(n), f2)
             d2 == Cat(Unpacked(n), e2)
             c2 == Cat(InR2cq(n), d2)
             b2 == Cat(InConsumer(n), c2)
  <2>2. g2 \in K /\ f2 \in K /\ e2 \in K /\ d2 \in K /\ c2 \in K
    <3>1. \A x, y \in K : Cat(x, y) \in K
      BY CatFacts
    <3>2. /\ InConsumer(n) \in K /\ InR2cq(n) \in K /\ Unpacked(n) \in K /\ InT2rq(n) \in K
          /\ Packed(n) \in K /\ InTransmitter(n) \in K /\ InP2tq(n) \in K
      BY <1>4, PlacesSeq
    <3> HIDE DEF K
    <3> QED BY <3>1, <3>2
  <2>3. Places(n) = b2
    BY DEF Places, Seventh
  <2>4. Places(n)' = Cat(InConsumer(n), Cat(InR2cq(n), Cat(Unpacked(n), Cat(InT2rq(n), Cat(Packed(n),
                       Cat(InTransmitter(n), Append(InP2tq(n), h)))))))
    BY <1>5, <1>9, <1>11 DEF Places, Seventh
  <2>5. \A x, y \in K : Cat(x, Append(y, h)) = Append(Cat(x, y), h)
    <3>1. \A x, y \in K, z \in PairMessages : Cat(x, Append(y, z)) = Append(Cat(x, y), z)
      BY CatFacts
    <3>2. h \in PairMessages
      BY <1>7
    <3> HIDE DEF h, K
    <3> QED BY <3>1, <3>2
  <2>6. /\ InConsumer(n) \in K /\ InR2cq(n) \in K /\ Unpacked(n) \in K /\ InT2rq(n) \in K
        /\ Packed(n) \in K /\ InTransmitter(n) \in K /\ InP2tq(n) \in K
    BY <1>4, PlacesSeq
  <2>7. /\ g2 = Cat(InTransmitter(n), InP2tq(n)) /\ f2 = Cat(Packed(n), g2) /\ e2 = Cat(InT2rq(n), f2)
        /\ d2 = Cat(Unpacked(n), e2) /\ c2 = Cat(InR2cq(n), d2) /\ b2 = Cat(InConsumer(n), c2)
    OBVIOUS
  <2> HIDE DEF K, b2, c2, d2, e2, f2, g2, h
  <2>8. Places(n)' = Append(b2, h)
    <3>1. Cat(InTransmitter(n), Append(InP2tq(n), h)) = Append(g2, h)
      BY <2>5, <2>6, <2>7
    <3>2. Cat(Packed(n), Append(g2, h)) = Append(f2, h)
      BY <2>2, <2>5, <2>6, <2>7
    <3>3. Cat(InT2rq(n), Append(f2, h)) = Append(e2, h)
      BY <2>2, <2>5, <2>6, <2>7
    <3>4. Cat(Unpacked(n), Append(e2, h)) = Append(d2, h)
      BY <2>2, <2>5, <2>6, <2>7
    <3>5. Cat(InR2cq(n), Append(d2, h)) = Append(c2, h)
      BY <2>2, <2>5, <2>6, <2>7
    <3>6. Cat(InConsumer(n), Append(c2, h)) = Append(b2, h)
      BY <2>2, <2>5, <2>6, <2>7
    <3> QED BY <2>4, <3>1, <3>2, <3>3, <3>4, <3>5, <3>6
  <2>9. \A a \in Nat : a <= k => Numbers(n, a, k + 1) = Append(Numbers(n, a, k), h)
    BY <1>7, <1>11, NumbersAppend DEF h
  <2> HIDE DEF k
  <2>10. cDone[Cancel!Consumer(n)] <= k + 1
    BY <1>6, <1>7, <2>1
  <2> QED BY <1>6, <1>7, <1>8, <2>1, <2>3, <2>8, <2>9, <2>10
<1> QED BY <1>10, <1>11

\* Whichever thread acts, what is on its way stays right.
LEMMA ActDelivers ==
  ASSUME CancelInv, CancelInv', ~shutDownGet, ~shutDownGet', ~cShutDown, CancelDelivery,
         NEW t \in Cancel!Threads, Acts(t)
  PROVE  CancelDelivery'
<1>1. ActBefore(t)
  BY DEF ActBefore
<1>2. cDone' = cDone
  BY ActFacts
<1> SUFFICES ASSUME NEW n \in PairNumbers
             PROVE  /\ cDone'[Cancel!Consumer(n)] <= Cancel!PutDone(n)'
                    /\ Places(n)' = Numbers(n, cDone'[Cancel!Consumer(n)], Cancel!PutDone(n)')
  BY DEF CancelDelivery, Numbers
<1>3. CASE \E m \in PairNumbers : t = Cancel!Producer(m)
  BY <1>1, <1>3, ProducerActs
<1>4. CASE ~\E m \in PairNumbers : t = Cancel!Producer(m)
  <2>1. Places(n)' = Places(n) /\ Cancel!PutDone(n)' = Cancel!PutDone(n)
    BY <1>1, <1>4, ConsumerActs, TransmitterActs, ReceiverActs, CancelNames
  <2> QED BY <1>2, <2>1 DEF CancelDelivery
<1> QED BY <1>3, <1>4

Undisturbed == CancelInv /\ CancelInv' /\ ~shutDownGet /\ ~shutDownGet' /\ ~shutDownPut /\ ~cShutDown /\ CancelDelivery

\* Before ShutDown no call is cancelled.
LEMMA NoFailures == \A t : Undisturbed => ~Cancel!Failed(t) /\ ~Cancel!Cancelled(th[t].op)
BY DEF Undisturbed, Cancel!Failed, Cancel!Cancelled

\* A step between two calls changes the thread only.
LEMMA OnlyThread ==
  ASSUME Undisturbed, NEW t \in Cancel!Threads, NEW next, Cancel!Continues(t, next)
  PROVE  th'[t] = next /\ \A u \in Cancel!Threads \ {t} : Alike(th[u], th'[u])
<1>1. th' = [th EXCEPT ![t] = next] /\ th \in [Cancel!Threads -> CallsOf]
  BY DEF Cancel!Continues, Undisturbed, CancelInv, CancelTypes
<1> QED BY <1>1 DEF Alike

\* A producer between two calls: the put that returned is counted.
LEMMA ProducerDelivers == \A m \in PairNumbers : Undisturbed /\ Cancel!ProducerStep(m) => CancelDelivery'
<1> SUFFICES ASSUME Undisturbed, NEW m \in PairNumbers, Cancel!ProducerStep(m), NEW n \in PairNumbers
             PROVE  /\ cDone'[Cancel!Consumer(n)] <= Cancel!PutDone(n)'
                    /\ Places(n)' = Numbers(n, cDone'[Cancel!Consumer(n)], Cancel!PutDone(n)')
  BY DEF CancelDelivery, Numbers
<1> DEFINE t == Cancel!Producer(m)
           next == Cancel!NextPut(m, cDone'[t])
<1>1. /\ t \in Cancel!Threads /\ t # Cancel!Transmitter /\ t # Cancel!Receiver
      /\ t # Cancel!Consumer(n) /\ Cancel!Consumer(n) \in Cancel!Threads
      /\ Cancel!Transmitter \in Cancel!Threads /\ Cancel!Receiver \in Cancel!Threads
      /\ Cancel!Producer(n) \in Cancel!Threads /\ (n # m => Cancel!Producer(n) # t)
      /\ t \in Cancel!Producers /\ Cancel!Consumer(n) \in Cancel!Consumers
      /\ Cancel!Producer(n) \in Cancel!Producers
  BY CancelNames
<1>2. /\ th[t].pc = "ret" /\ cDone' = [cDone EXCEPT ![t] = @ + 1] /\ Cancel!Continues(t, next)
      /\ UNCHANGED <<cQueue, cTBlock, cRBlock>>
  BY DEF Cancel!ProducerStep
<1>3. cDone \in [Cancel!Producers \cup Cancel!Consumers -> Nat]
  BY DEF Undisturbed, CancelInv, CancelTypes
<1>4. cDone'[t] = cDone[t] + 1 /\ cDone'[Cancel!Consumer(n)] = cDone[Cancel!Consumer(n)]
      /\ (n # m => cDone'[Cancel!Producer(n)] = cDone[Cancel!Producer(n)])
  BY <1>1, <1>2, <1>3
<1>5. next.pc \in {"lock", "done"}
  BY DEF Cancel!NextPut, Cancel!Call, Cancel!At
<1> HIDE DEF next
<1>6. th'[t] = next /\ \A u \in Cancel!Threads \ {t} : Alike(th[u], th'[u])
  BY <1>1, <1>2, OnlyThread
<1>7. PlacesNow /\ PlacesNow' /\ PutDoneNow /\ PutDoneNow' /\ ~shutDownGet /\ ~shutDownGet' /\ CancelInv /\ CancelInv'
  BY PlacesAre, PlacesThen, PutDoneThen DEF Undisturbed
<1>8. UNCHANGED <<InConsumer(n), InR2cq(n), Unpacked(n), InT2rq(n), Packed(n), InTransmitter(n), InP2tq(n)>>
  BY <1>1, <1>2, <1>6, <1>7, Unmoved
<1>9. Places(n)' = Places(n)
  BY <1>7, <1>8, PlacesKept DEF Kept
<1>10. Cancel!PutDone(n)' = Cancel!PutDone(n)
  <2>1. CASE n # m
    BY <1>1, <1>4, <1>6, <1>7, <2>1, AlikeHold DEF PutDoneNow
  <2>2. CASE n = m
    <3>1. Cancel!PutDone(n) = cDone[t] + 1
      BY <1>2, <1>7, <2>2 DEF PutDoneNow, CountOf
    <3>2. Cancel!PutDone(n)' = cDone[t] + 1 + 0
      BY <1>4, <1>5, <1>6, <1>7, <2>2 DEF PutDoneNow, CountOf
    <3>3. cDone[t] \in Nat
      BY <1>1, <1>3
    <3> QED BY <3>1, <3>2, <3>3
  <2> QED BY <2>1, <2>2
<1> QED BY <1>4, <1>9, <1>10 DEF CancelDelivery, Undisturbed

\* A consumer between two calls: the message that it got is counted.
LEMMA ConsumerDelivers == \A m \in PairNumbers : Undisturbed /\ Cancel!ConsumerStep(m) => CancelDelivery'
<1> SUFFICES ASSUME Undisturbed, NEW m \in PairNumbers, Cancel!ConsumerStep(m), NEW n \in PairNumbers
             PROVE  /\ cDone'[Cancel!Consumer(n)] <= Cancel!PutDone(n)'
                    /\ Places(n)' = Numbers(n, cDone'[Cancel!Consumer(n)], Cancel!PutDone(n)')
  BY DEF CancelDelivery, Numbers
<1> DEFINE t == Cancel!Consumer(m)
           next == Cancel!NextGet(m, cDone'[t])
           a == cDone[t]
           h == th[t].msg
           K == Seq({m} \X Nat)
<1>1. /\ t \in Cancel!Threads /\ t # Cancel!Transmitter /\ t # Cancel!Receiver
      /\ t # Cancel!Producer(n) /\ Cancel!Consumer(n) \in Cancel!Threads
      /\ Cancel!Transmitter \in Cancel!Threads /\ Cancel!Receiver \in Cancel!Threads
      /\ Cancel!Producer(n) \in Cancel!Threads /\ (n # m => Cancel!Consumer(n) # t)
      /\ t \in Cancel!Consumers /\ Cancel!Consumer(n) \in Cancel!Consumers
      /\ Cancel!Producer(n) \in Cancel!Producers
  BY CancelNames
<1>2. /\ th[t].pc = "ret" /\ cDone' = [cDone EXCEPT ![t] = @ + 1] /\ Cancel!Continues(t, next)
      /\ UNCHANGED <<cQueue, cTBlock, cRBlock>>
  BY NoFailures DEF Cancel!ConsumerStep
<1>3. cDone \in [Cancel!Producers \cup Cancel!Consumers -> Nat]
  BY DEF Undisturbed, CancelInv, CancelTypes
<1>4. /\ a \in Nat /\ cDone'[t] = a + 1
      /\ n # m => cDone'[Cancel!Consumer(n)] = cDone[Cancel!Consumer(n)]
      /\ cDone'[Cancel!Producer(n)] = cDone[Cancel!Producer(n)]
  BY <1>1, <1>2, <1>3
<1>5. next.pc \in {"lock", "done"}
  BY DEF Cancel!NextGet, Cancel!Call, Cancel!At
<1> HIDE DEF next
<1>6. th'[t] = next /\ \A u \in Cancel!Threads \ {t} : Alike(th[u], th'[u])
  BY <1>1, <1>2, OnlyThread
<1>7. PlacesNow /\ PlacesNow' /\ PutDoneNow /\ PutDoneNow' /\ ~shutDownGet /\ ~shutDownGet' /\ CancelInv /\ CancelInv'
  BY PlacesAre, PlacesThen, PutDoneThen DEF Undisturbed
<1>8. UNCHANGED <<InR2cq(n), Unpacked(n), InT2rq(n), Packed(n), InTransmitter(n), InP2tq(n)>>
  BY <1>1, <1>2, <1>6, <1>7, Unmoved
<1>9. Cancel!PutDone(n)' = Cancel!PutDone(n)
  BY <1>1, <1>4, <1>6, <1>7, AlikeHold DEF PutDoneNow
<1>10. CASE n # m
  <2>1. UNCHANGED InConsumer(n)
    BY <1>1, <1>6, <1>7, <1>10, Unmoved
  <2>2. Places(n)' = Places(n)
    BY <1>7, <1>8, <2>1, PlacesKept DEF Kept
  <2> QED BY <1>4, <1>9, <1>10, <2>2 DEF CancelDelivery, Undisturbed
<1>11. CASE n = m
  <2>1. th[t].op = "get" /\ th[t].q = Cancel!r2cq(m)
    BY <1>2 DEF Undisturbed, CancelInv, Calls, ConsumerCall
  <2>2. h \in {m} \X Nat
    BY <1>1, <1>2, <2>1, QueueNames DEF Undisturbed, CancelInv, Answered
  <2>3. h \in PairMessages /\ h[1] = m /\ h # <<>>
    <3>1. h \in PairMessages /\ h[1] = m
      BY <2>2 DEF PairMessages
    <3> QED BY <3>1, NotEmpty
  <2>4. InConsumer(n) = <<h>>
    <3>1. HeldOf(th[t]) = <<h>>
      BY <1>2, <2>1, <2>3 DEF HeldOf
    <3> QED BY <1>7, <1>11, <2>3, <3>1, OfOne DEF PlacesNow
  <2>5. InConsumer(n)' = <<>>
    <3>1. HeldOf(th'[t]) = <<>>
      BY <1>5, <1>6 DEF HeldOf
    <3> QED BY <1>7, <1>11, <3>1, OfEmpty DEF PlacesNow
  <2> DEFINE r == Cat(InR2cq(n), Cat(Unpacked(n), Cat(InT2rq(n), Cat(Packed(n), Cat(InTransmitter(n), InP2tq(n))))))
  <2>6. Places(n) = Cat(<<h>>, r)
    BY <2>4 DEF Places, Seventh
  <2>7. Places(n)' = Cat(<<>>, r)
    BY <1>8, <2>5 DEF Places, Seventh
  <2>8. r \in Seq(PairMessages)
    <3> DEFINE M == Seq(PairMessages)
    <3>1. \A x, y \in M : Cat(x, y) \in M
      BY CatFacts
    <3>2. /\ InConsumer(n) \in M /\ InR2cq(n) \in M /\ Unpacked(n) \in M /\ InT2rq(n) \in M
          /\ Packed(n) \in M /\ InTransmitter(n) \in M /\ InP2tq(n) \in M
      BY <1>7, PlacesSeq
    <3> HIDE DEF M
    <3>3. r \in M
      BY <3>1, <3>2
    <3> QED BY <3>3 DEF M
  <2> HIDE DEF r
  <2>9. Places(n)' = r
    BY <2>7, <2>8, CatFacts
  <2>10. a <= Cancel!PutDone(n) /\ Numbers(n, a, Cancel!PutDone(n)) = Cat(<<h>>, r)
    BY <1>11, <2>6 DEF CancelDelivery, Undisturbed
  <2>11. Cancel!PutDone(n) \in Nat
    BY <1>1, <1>3, <1>7 DEF PutDoneNow, CountOf
  <2> DEFINE b == Cancel!PutDone(n)
  <2> HIDE DEF a, b, h
  <2>12. a + 1 <= b /\ r = Numbers(n, a + 1, b)
    BY <1>4, <2>8, <2>10, <2>11, <2>3, NumbersHead DEF b
  <2> QED BY <1>4, <1>9, <1>11, <2>9, <2>12 DEF b
<1> QED BY <1>10, <1>11

\* The transmitter between two calls: the message that it got is in its block.
LEMMA TransmitterDelivers == Undisturbed /\ Cancel!TransmitterStep => CancelDelivery'
<1> SUFFICES ASSUME Undisturbed, Cancel!TransmitterStep, NEW n \in PairNumbers
             PROVE  /\ cDone'[Cancel!Consumer(n)] <= Cancel!PutDone(n)'
                    /\ Places(n)' = Numbers(n, cDone'[Cancel!Consumer(n)], Cancel!PutDone(n)')
  BY DEF CancelDelivery, Numbers
<1> DEFINE t == Cancel!Transmitter
<1>1. /\ t \in Cancel!Threads /\ t # Cancel!Receiver /\ t # Cancel!Producer(n)
      /\ t # Cancel!Consumer(n) /\ Cancel!Consumer(n) \in Cancel!Threads
      /\ Cancel!Receiver \in Cancel!Threads /\ Cancel!Producer(n) \in Cancel!Threads
  BY CancelNames
<1>2. PlacesNow /\ PlacesNow' /\ PutDoneNow /\ PutDoneNow' /\ ~shutDownGet /\ ~shutDownGet' /\ CancelInv /\ CancelInv'
  BY PlacesAre, PlacesThen, PutDoneThen DEF Undisturbed
<1>3. UNCHANGED <<cQueue, cDone, cRBlock>>
  BY DEF Cancel!TransmitterStep
<1>4. TransmitterCall(th[t], cTBlock) /\ cTBlock \in Blocks /\ ~Cancel!Failed(t) /\ ~cShutDown
  BY NoFailures DEF Undisturbed, Cancel!TransmitterStep, CancelInv, CancelTypes, Calls
<1>5. PICK next : /\ Cancel!Continues(t, next) /\ next.pc \in {"lock", "check"}
                  /\ \/ th[t].pc = "check" /\ cTBlock' = <<>>
                     \/ th[t].pc = "ret" /\ th[t].op = "get" /\ cTBlock' = Append(cTBlock, th[t].msg)
                     \/ th[t].pc = "ret" /\ th[t].op = "put" /\ cTBlock' = <<>>
  BY <1>4 DEF Cancel!TransmitterStep, Cancel!Call, Cancel!At
<1>6. th'[t] = next /\ \A u \in Cancel!Threads \ {t} : Alike(th[u], th'[u])
  BY <1>1, <1>5, OnlyThread
<1>7. UNCHANGED <<InConsumer(n), InR2cq(n), Unpacked(n), InT2rq(n), InP2tq(n)>>
  BY <1>1, <1>2, <1>3, <1>6, Unmoved
<1>8. Cancel!PutDone(n)' = Cancel!PutDone(n)
  BY <1>1, <1>2, <1>3, <1>6, AlikeHold DEF PutDoneNow
<1>9. InTransmitter(n)' = <<>> /\ Packed(n)' = Of(n, cTBlock')
  <2>1. HeldOf(th'[t]) = <<>> /\ SentOf(th'[t], cTBlock') = cTBlock'
    BY <1>5, <1>6 DEF HeldOf, SentOf
  <2> QED BY <1>2, <2>1, OfEmpty DEF PlacesNow
<1>10. Cat(Packed(n)', InTransmitter(n)') = Cat(Packed(n), InTransmitter(n))
  <2>1. CASE th[t].pc = "check" \/ (th[t].pc = "ret" /\ th[t].op = "put")
    <3>1. HeldOf(th[t]) = <<>> /\ SentOf(th[t], cTBlock) = <<>> /\ cTBlock' = <<>>
      BY <1>4, <1>5, <2>1 DEF HeldOf, SentOf, TransmitterCall, InCall
    <3>2. InTransmitter(n) = <<>> /\ Packed(n) = <<>>
      BY <1>2, <3>1, OfEmpty DEF PlacesNow
    <3> QED BY <1>9, <3>1, <3>2, OfEmpty
  <2>2. CASE th[t].pc = "ret" /\ th[t].op = "get"
    <3> DEFINE h == th[t].msg
               M == PairMessages
    <3>1. h \in M
      <4>1. th[t].q = Cancel!p2tq
        BY <1>4, <2>2 DEF TransmitterCall
      <4> QED BY <1>1, <1>2, <2>2, <4>1, QueueNames DEF CancelInv, Answered
    <3>2. SentOf(th[t], cTBlock) = cTBlock /\ HeldOf(th[t]) = <<h>>
      BY <2>2, <3>1, NotEmpty DEF SentOf, HeldOf
    <3>3. InTransmitter(n) = Of(n, <<h>>) /\ Packed(n) = Of(n, cTBlock)
      BY <1>2, <3>2 DEF PlacesNow
    <3>4. cTBlock' = Append(cTBlock, h) /\ cTBlock \in Seq(M)
      BY <1>4, <1>5, <2>2 DEF Blocks
    <3> HIDE DEF h, M
    <3>5. Of(n, Append(cTBlock, h)) = Cat(Of(n, cTBlock), Of(n, <<h>>))
      <4> DEFINE s == cTBlock
                 u == <<h>>
      <4>1. s \in Seq(M) /\ u \in Seq(M) /\ Append(s, h) = Cat(s, u)
        BY <3>1, <3>4 DEF Cat
      <4> HIDE DEF s, u
      <4>2. Of(n, Cat(s, u)) = Cat(Of(n, s), Of(n, u))
        BY <4>1, OfCats
      <4> QED BY <4>1, <4>2 DEF s, u
    <3>6. Of(n, Append(cTBlock, h)) \in Seq(M)
      <4>1. Append(cTBlock, h) \in Seq(M)
        BY <3>1, <3>4
      <4> QED BY <4>1, OfSeq
    <3>7. Cat(Of(n, Append(cTBlock, h)), <<>>) = Of(n, Append(cTBlock, h))
      BY <3>6, CatFacts
    <3> QED BY <1>9, <3>3, <3>4, <3>5, <3>7
  <2> QED BY <1>5, <2>1, <2>2
<1>11. Places(n)' = Places(n)
  BY <1>2, <1>7, <1>10, PlacesKept DEF Kept
<1> QED BY <1>3, <1>8, <1>11 DEF CancelDelivery, Undisturbed

\* The receiver between two calls: the message that it put is out of its block.
LEMMA ReceiverDelivers == Undisturbed /\ Cancel!ReceiverStep => CancelDelivery'
<1> SUFFICES ASSUME Undisturbed, Cancel!ReceiverStep, NEW n \in PairNumbers
             PROVE  /\ cDone'[Cancel!Consumer(n)] <= Cancel!PutDone(n)'
                    /\ Places(n)' = Numbers(n, cDone'[Cancel!Consumer(n)], Cancel!PutDone(n)')
  BY DEF CancelDelivery, Numbers
<1> DEFINE t == Cancel!Receiver
<1>1. /\ t \in Cancel!Threads /\ t # Cancel!Transmitter /\ t # Cancel!Producer(n)
      /\ t # Cancel!Consumer(n) /\ Cancel!Consumer(n) \in Cancel!Threads
      /\ Cancel!Transmitter \in Cancel!Threads /\ Cancel!Producer(n) \in Cancel!Threads
  BY CancelNames
<1>2. PlacesNow /\ PlacesNow' /\ PutDoneNow /\ PutDoneNow' /\ ~shutDownGet /\ ~shutDownGet' /\ CancelInv /\ CancelInv'
  BY PlacesAre, PlacesThen, PutDoneThen DEF Undisturbed
<1>3. UNCHANGED <<cQueue, cDone, cTBlock>>
  BY DEF Cancel!ReceiverStep
<1>4. ReceiverCall(th[t], cRBlock) /\ ~Cancel!Failed(t) /\ ~cShutDown
  BY NoFailures DEF Undisturbed, Cancel!ReceiverStep, CancelInv, Calls
<1>5. PICK next : /\ Cancel!Continues(t, next) /\ next.pc \in {"lock", "check"}
                  /\ cRBlock' = RestOf(th[t], cRBlock)
  <2>1. CASE th[t].pc = "check"
    BY <1>4, <2>1 DEF Cancel!ReceiverStep, Cancel!Call, RestOf
  <2>2. CASE th[t].pc = "ret"
    <3>1. Cancel!Distribute(RestOf(th[t], cRBlock))
      BY <1>4, <2>2 DEF Cancel!ReceiverStep, RestOf
    <3> HIDE DEF RestOf
    <3> QED BY <3>1 DEF Cancel!Distribute, Cancel!Call, Cancel!At
  <2> QED BY <2>1, <2>2 DEF Cancel!ReceiverStep
<1>6. th'[t] = next /\ \A u \in Cancel!Threads \ {t} : Alike(th[u], th'[u])
  BY <1>1, <1>5, OnlyThread
<1>7. UNCHANGED <<InConsumer(n), InR2cq(n), InT2rq(n), Packed(n), InTransmitter(n), InP2tq(n)>>
  BY <1>1, <1>2, <1>3, <1>6, Unmoved
<1>8. Cancel!PutDone(n)' = Cancel!PutDone(n)
  BY <1>1, <1>2, <1>3, <1>6, AlikeHold DEF PutDoneNow
<1>9. Unpacked(n)' = Unpacked(n)
  <2>1. RestOf(th'[t], cRBlock') = cRBlock'
    BY <1>5, <1>6 DEF RestOf
  <2>2. RestOf(th'[t], cRBlock') = RestOf(th[t], cRBlock)
    BY <1>5, <2>1
  <2> QED BY <1>2, <2>2 DEF PlacesNow
<1>10. Places(n)' = Places(n)
  BY <1>2, <1>7, <1>9, PlacesKept DEF Kept
<1> QED BY <1>3, <1>8, <1>10 DEF CancelDelivery, Undisturbed

\* Nothing is on its way at the start.
LEMMA CancelDeliveryInit == PipelinesInit => CancelDelivery
<1> SUFFICES ASSUME NEW k \in Nat, NEW g \in Nat, Cancel!InitOf(k, g), CancelInv, NEW n \in PairNumbers
             PROVE  /\ cDone[Cancel!Consumer(n)] <= Cancel!PutDone(n)
                    /\ Places(n) = Numbers(n, cDone[Cancel!Consumer(n)], Cancel!PutDone(n))
  BY CancelInvInit, PipelinesAssumption DEF PipelinesInit, Cancel!Init, CancelDelivery
<1>1. /\ Cancel!Consumer(n) \in Cancel!Threads /\ Cancel!Producer(n) \in Cancel!Threads
      /\ Cancel!Transmitter \in Cancel!Threads /\ Cancel!Receiver \in Cancel!Threads
      /\ Cancel!Producer(n) \in Cancel!Producers /\ Cancel!Consumer(n) \in Cancel!Consumers
  BY CancelNames
<1>2. /\ cQueue = [q \in Cancel!Queues |-> <<>>] /\ cTBlock = <<>> /\ cRBlock = <<>>
      /\ cDone = [t \in Cancel!Producers \cup Cancel!Consumers |-> 0]
      /\ \A t \in Cancel!Threads : th[t].pc \in {"done", "check", "lock"}
  BY DEF Cancel!InitOf, Cancel!At, Cancel!NextPut, Cancel!NextGet, Cancel!Call
<1>3. \A t \in Cancel!Threads : /\ HeldOf(th[t]) = <<>> /\ RestOf(th[t], <<>>) = <<>>
                                /\ SentOf(th[t], <<>>) = <<>> /\ CountOf(th[t], 0) = 0
  BY <1>2 DEF HeldOf, RestOf, SentOf, CountOf
<1>4. /\ InConsumer(n) = <<>> /\ InR2cq(n) = <<>> /\ Unpacked(n) = <<>> /\ InT2rq(n) = <<>>
      /\ Packed(n) = <<>> /\ InTransmitter(n) = <<>> /\ InP2tq(n) = <<>>
  <2>1. PlacesNow
    BY PlacesAre
  <2>2. cQueue[Cancel!r2cq(n)] = <<>> /\ cQueue[Cancel!p2tq] = <<>> /\ cQueue[Cancel!t2rq] = <<>>
    BY <1>2, QueueNames
  <2> QED BY <1>1, <1>2, <1>3, <2>1, <2>2, OfEmpty, FlatEmpty DEF PlacesNow
<1>5. Places(n) = <<>>
  <2> DEFINE e == <<>>
  <2>1. e \in Seq(PairMessages)
    OBVIOUS
  <2> HIDE DEF e
  <2>2. Cat(e, e) = e
    BY <2>1, CatFacts DEF e
  <2>3. Places(n) = Seventh(e, e, e, e, e, e, e)
    BY <1>4 DEF Places, e
  <2> QED BY <2>2, <2>3 DEF Seventh, e
<1>6. cDone[Cancel!Consumer(n)] = 0 /\ Cancel!PutDone(n) = 0
  BY <1>1, <1>2, <1>3, PutDoneIs DEF PutDoneNow
<1>7. Numbers(n, 0, 0) = <<>>
  BY DEF Numbers
<1> QED BY <1>5, <1>6, <1>7

\* Each step keeps the order of delivery.
LEMMA CancelDeliveryNext == CancelInv /\ CancelDelivery /\ Cancel!Next => CancelDelivery'
<1> SUFFICES ASSUME CancelInv, CancelDelivery, Cancel!Next, ~cShutDown' PROVE CancelDelivery'
  BY DEF CancelDelivery
<1>1. CancelInv'
  BY CancelInvNext
<1>2. ~shutDownGet' /\ ~shutDownPut'
  BY <1>1 DEF CancelInv, CancelledLate
<1>3. ~cShutDown
  BY DEF Cancel!Next, Cancel!BossStep, Cancel!Step, Cancel!QueueCall, Cancel!Enter, Cancel!QueueShutDown,
         Cancel!CheckAPC, Cancel!Act, Cancel!ProducerStep, Cancel!ConsumerStep, Cancel!TransmitterStep,
         Cancel!ReceiverStep, Cancel!flags
<1>4. ~shutDownGet /\ ~shutDownPut /\ apc = {}
  BY <1>3 DEF CancelInv, CancelledLate
<1>5. Undisturbed
  BY <1>1, <1>2, <1>3, <1>4 DEF Undisturbed
<1>6. th \in [Cancel!Threads -> CallsOf]
  BY DEF CancelInv, CancelTypes
<1>7. CASE Cancel!BossStep
  <2>1. UNCHANGED <<cQueue, cDone, cTBlock, cRBlock, th>>
    BY <1>7 DEF Cancel!BossStep, Cancel!queues, Cancel!work
  <2> QED BY <1>1, <1>2, <1>3, <1>4, <2>1, NothingMoves DEF Alike
<1>8. ASSUME NEW t \in Cancel!Threads, Cancel!Enter(t) \/ Cancel!CheckAPC(t) PROVE CancelDelivery'
  <2>1. UNCHANGED <<cQueue, cDone, cTBlock, cRBlock>>
    BY <1>8 DEF Cancel!Enter, Cancel!CheckAPC, Cancel!queues, Cancel!work
  <2>2. PICK x \in {"act", "lock", "wait"} : th[t].pc # "ret" /\ th' = [th EXCEPT ![t].pc = x]
    BY <1>8 DEF Cancel!Enter, Cancel!CheckAPC, Cancel!Goto
  <2>3. \A u \in Cancel!Threads : Alike(th[u], th'[u])
    BY <1>6, <2>2 DEF Alike, CallsOf
  <2> QED BY <1>1, <1>2, <1>3, <1>4, <2>1, <2>3, NothingMoves
<1>9. ASSUME NEW t \in Cancel!Threads, Cancel!Act(t) PROVE CancelDelivery'
  BY <1>1, <1>2, <1>3, <1>4, <1>5, <1>9, NoFailures, ActDelivers DEF Acts
<1>10. ASSUME NEW t \in Cancel!Threads, Cancel!QueueShutDown(t) PROVE FALSE
  BY <1>4, <1>10 DEF Cancel!QueueShutDown
<1> QED BY <1>5, <1>7, <1>8, <1>9, <1>10, ProducerDelivers, ConsumerDelivers, TransmitterDelivers,
           ReceiverDelivers DEF Cancel!Next, Cancel!Step, Cancel!QueueCall

\* The invariant says what the run checks.
LEMMA CancelRight == CancelInv /\ CancelDelivery => Cancel!TypeOK /\ Cancel!MovesGuarded /\ Cancel!DeliveryOrder
<1> SUFFICES ASSUME CancelInv, CancelDelivery
             PROVE  Cancel!TypeOK /\ Cancel!MovesGuarded /\ Cancel!DeliveryOrder
  OBVIOUS
<1>1. Cancel!TypeOK
  <2>1. \A q \in Cancel!Queues : Len(cQueue[q]) <= QSize - 1 /\ guard[q] \in Cancel!Threads \cup {Cancel!Nobody}
    BY DEF CancelInv, CancelTypes
  <2>2. \A t \in DOMAIN cDone : cDone[t] \in 0 .. cGoal
    BY DEF CancelInv, CancelTypes
  <2> QED BY <2>1, <2>2 DEF Cancel!TypeOK, CancelInv, CancelTypes, Blocks
<1>2. Cancel!MovesGuarded
  BY DEF Cancel!MovesGuarded, CancelInv, Tested
<1>3. Cancel!DeliveryOrder
  <2> SUFFICES ASSUME ~cShutDown, NEW n \in PairNumbers
               PROVE  Cancel!InTransit(n) = Numbers(n, cDone[Cancel!Consumer(n)], Cancel!PutDone(n))
    BY DEF Cancel!DeliveryOrder, Numbers
  <2>1. ~shutDownGet
    BY DEF CancelInv, CancelledLate
  <2>2. Cancel!InTransit(n) = Places(n)
    BY <2>1, PlacesFacts
  <2> QED BY <2>2 DEF CancelDelivery
<1> QED BY <1>1, <1>2, <1>3

\* DeliveryOrder and MovesGuarded of ThreeStageCancel, for any number of pairs,
\* any goals and any sizes of the blocks and the queues: a queue is changed only
\* by the thread that owns its guard and has tested it, and until the boss sets
\* ShutDown the messages of each pair between its producer and its consumer are
\* exactly those put and not yet got, each once and in the order of the puts.
THEOREM DeliveredInOrder ==
  PipelinesSpec => [](Cancel!TypeOK /\ Cancel!MovesGuarded /\ Cancel!DeliveryOrder)
<1>1. PipelinesInit => CancelInv /\ CancelDelivery
  BY CancelInvInit, CancelDeliveryInit
<1>2. CancelInv /\ CancelDelivery /\ [PipelinesNext]_pipelinesVars => (CancelInv /\ CancelDelivery)'
  <2> SUFFICES ASSUME CancelInv, CancelDelivery, [PipelinesNext]_pipelinesVars
               PROVE  CancelInv' /\ CancelDelivery'
    OBVIOUS
  <2>1. CancelInv'
    BY CancelInvStep
  <2>2. CASE UNCHANGED cancelVars
    <3>1. \A n : Places(n)' = Places(n)
      BY <2>2 DEF cancelVars, Places, Seventh, Cat, InConsumer, InR2cq, Unpacked, InT2rq, Packed, InTransmitter, InP2tq,
                  Cancel!Held, Cancel!Holds, Cancel!InReceiver, Cancel!Sending
    <3>2. \A n : Cancel!PutDone(n)' = Cancel!PutDone(n)
      BY <2>2 DEF cancelVars, Cancel!PutDone
    <3>3. cDone' = cDone /\ cShutDown' = cShutDown
      BY <2>2 DEF cancelVars
    <3>4. ASSUME ~cShutDown', NEW n \in PairNumbers
          PROVE  /\ cDone'[Cancel!Consumer(n)] <= Cancel!PutDone(n)'
                 /\ Places(n)' = Numbers(n, cDone'[Cancel!Consumer(n)], Cancel!PutDone(n)')
      BY <3>1, <3>2, <3>3, <3>4 DEF CancelDelivery
    <3>5. CancelDelivery'
      BY <3>4 DEF CancelDelivery, Numbers
    <3> QED BY <2>1, <3>5
  <2>3. CASE Cancel!Next
    BY <2>1, <2>3, CancelDeliveryNext
  <2> QED BY <2>1, <2>2, <2>3 DEF PipelinesNext, pipelinesVars
<1> QED BY <1>1, <1>2, CancelRight, PTL DEF PipelinesSpec

-----------------------------------------------------------------------------
(* The pipeline on condition variables: its inductive invariant.           *)

P2tq == <<"p2tq", 0>>
T2rq == <<"t2rq", 0>>
R2cq(n) == <<"r2cq", n>>

Getting == {"get", "get wait"}
Putting == {"put", "put wait"}
PtTypes ==
  /\ pGoal \in Nat
  /\ pQueue = [q \in PThread!Queues |-> pQueue[q]]
  /\ \A q \in PThread!Queues : pQueue[q] \in Seq(Kind(q)) /\ Len(pQueue[q]) <= QSize - 1
  /\ pPcs \in [PThread!Threads -> {"check", "inner", "done"} \cup Getting \cup Putting]
  /\ retries \in [PThread!Threads -> 0 .. MAX_RETRY]
  /\ pDone \in [PThread!Producers \cup PThread!Consumers -> Nat]
  /\ \A t \in PThread!Producers \cup PThread!Consumers : pDone[t] <= pGoal
  /\ pTBlock \in Blocks /\ pRBlock \in Blocks
\* What statement a thread may be at; k: its retries, d: its workDone, b: its block.
ProducerAt(at, d) == at \in {"check", "done"} \/ (at \in Putting /\ d < pGoal)
ConsumerAt(at, k, d) == at \in {"check", "done"} \/ (at \in Getting /\ d < pGoal /\ k < MAX_RETRY)
TransmitterAt(at, k, b) ==
  at \in {"check", "done", "inner"} \cup Putting \/ (at \in Getting /\ k < MAX_RETRY /\ Len(b) < BlockSize)
ReceiverAt(at, k, b) ==
  \/ at \in {"check", "done"} /\ b = <<>>
  \/ at \in Getting /\ k < MAX_RETRY /\ b = <<>>
  \/ at \in Putting /\ b # <<>>
PtAt ==
  /\ \A n \in PairNumbers :
       /\ ProducerAt(pPcs[PThread!Producer(n)], pDone[PThread!Producer(n)])
       /\ ConsumerAt(pPcs[PThread!Consumer(n)], retries[PThread!Consumer(n)], pDone[PThread!Consumer(n)])
  /\ TransmitterAt(pPcs[PThread!Transmitter], retries[PThread!Transmitter], pTBlock)
  /\ ReceiverAt(pPcs[PThread!Receiver], retries[PThread!Receiver], pRBlock)
PtInv == PtTypes /\ PtAt

\* The threads have names of their own.
LEMMA PtNames ==
  /\ \A n \in PairNumbers :
       /\ PThread!Producer(n) \in PThread!Producers /\ PThread!Consumer(n) \in PThread!Consumers
       /\ PThread!Producer(n) \notin {PThread!Transmitter, PThread!Receiver}
       /\ PThread!Consumer(n) \notin {PThread!Transmitter, PThread!Receiver}
       /\ PThread!Producer(n) \notin PThread!Consumers /\ PThread!Consumer(n) \notin PThread!Producers
       /\ PThread!Producer(n)[2] = n /\ PThread!Consumer(n)[2] = n
       /\ \A m \in PairNumbers :
            /\ PThread!Producer(n) # PThread!Consumer(m)
            /\ PThread!Producer(n) = PThread!Producer(m) => n = m
            /\ PThread!Consumer(n) = PThread!Consumer(m) => n = m
            /\ R2cq(n) = R2cq(m) => n = m
  /\ \A t \in PThread!Threads :
       \/ t = PThread!Transmitter \/ t = PThread!Receiver
       \/ \E n \in PairNumbers : t = PThread!Producer(n) \/ t = PThread!Consumer(n)
  /\ PThread!Producers \cup PThread!Consumers \cup {PThread!Transmitter, PThread!Receiver}
       \subseteq PThread!Threads
  /\ PThread!Transmitter # PThread!Receiver
  /\ {PThread!Transmitter, PThread!Receiver} \cap (PThread!Producers \cup PThread!Consumers) = {}
BY DEF PThread!Producer, PThread!Consumer, PThread!Producers, PThread!Consumers, PThread!Threads,
       PThread!Transmitter, PThread!Receiver, R2cq

\* So have the queues.
LEMMA PtQueueNames ==
  /\ P2tq \in PThread!Queues /\ T2rq \in PThread!Queues /\ P2tq # T2rq
  /\ \A n \in PairNumbers : R2cq(n) \in PThread!Queues /\ R2cq(n) # P2tq /\ R2cq(n) # T2rq
  /\ Kind(T2rq) = Blocks /\ Kind(P2tq) = PairMessages
  /\ \A n \in PairNumbers : Kind(R2cq(n)) = {n} \X Nat
  /\ \A q \in PThread!Queues : q = P2tq \/ q = T2rq \/ \E n \in PairNumbers : q = R2cq(n)
<1>1. /\ P2tq \in PThread!Queues /\ T2rq \in PThread!Queues /\ P2tq # T2rq
      /\ \A n \in PairNumbers : R2cq(n) \in PThread!Queues /\ R2cq(n) # P2tq /\ R2cq(n) # T2rq
      /\ \A q \in PThread!Queues : q = P2tq \/ q = T2rq \/ \E n \in PairNumbers : q = R2cq(n)
  BY DEF PThread!Queues, P2tq, T2rq, R2cq
<1>2. P2tq = Cancel!p2tq /\ T2rq = Cancel!t2rq /\ \A n : R2cq(n) = Cancel!r2cq(n)
  BY DEF P2tq, T2rq, R2cq, Cancel!p2tq, Cancel!t2rq, Cancel!r2cq
<1> QED BY <1>1, <1>2, QueueNames

\* The queue that a thread gets from, the one that it puts into, and what it puts.
LEMMA Ends ==
  /\ PThread!Source(PThread!Transmitter) = P2tq /\ PThread!Source(PThread!Receiver) = T2rq
  /\ \A n \in PairNumbers : PThread!Source(PThread!Consumer(n)) = R2cq(n)
  /\ PThread!Target(PThread!Transmitter) = T2rq /\ PThread!Target(PThread!Receiver) = R2cq(Head(pRBlock)[1])
  /\ \A n \in PairNumbers : PThread!Target(PThread!Producer(n)) = P2tq
  /\ PThread!MessageOf(PThread!Transmitter) = pTBlock /\ PThread!MessageOf(PThread!Receiver) = Head(pRBlock)
  /\ \A n \in PairNumbers : PThread!MessageOf(PThread!Producer(n)) = <<n, pDone[PThread!Producer(n)]>>
<1>1. /\ PThread!Source(PThread!Transmitter) = P2tq /\ PThread!Source(PThread!Receiver) = T2rq
      /\ \A n \in PairNumbers : PThread!Source(PThread!Consumer(n)) = R2cq(n)
  BY PtNames DEF PThread!Source, P2tq, T2rq, R2cq
<1>2. /\ PThread!Target(PThread!Transmitter) = T2rq /\ PThread!Target(PThread!Receiver) = R2cq(Head(pRBlock)[1])
      /\ \A n \in PairNumbers : PThread!Target(PThread!Producer(n)) = P2tq
  BY PtNames DEF PThread!Target, P2tq, T2rq, R2cq
<1>3. /\ PThread!MessageOf(PThread!Transmitter) = pTBlock /\ PThread!MessageOf(PThread!Receiver) = Head(pRBlock)
      /\ \A n \in PairNumbers : PThread!MessageOf(PThread!Producer(n)) = <<n, pDone[PThread!Producer(n)]>>
  BY PtNames DEF PThread!MessageOf
<1> QED BY <1>1, <1>2, <1>3

\* The threads are at their first test at the start.
LEMMA PtInvInit == PipelinesInit => PtInv
<1> SUFFICES ASSUME NEW k \in Nat, NEW g \in Nat, PThread!InitOf(k, g) PROVE PtInv
  BY PipelinesAssumption DEF PipelinesInit, PThread!Init
<1>1. /\ pGoal = g /\ pQueue = [q \in PThread!Queues |-> <<>>]
      /\ pPcs = [t \in PThread!Threads |-> IF k = 0 \/ t[2] > k THEN "done" ELSE "check"]
      /\ retries = [t \in PThread!Threads |-> 0]
      /\ pDone = [t \in PThread!Producers \cup PThread!Consumers |-> 0] /\ pTBlock = <<>> /\ pRBlock = <<>>
  BY DEF PThread!InitOf
<1>2. \A q \in PThread!Queues : pQueue[q] \in Seq(Kind(q)) /\ Len(pQueue[q]) <= QSize - 1
  BY <1>1, PipelinesAssumption
<1>3. pPcs \in [PThread!Threads -> {"check", "done"}]
  BY <1>1
<1>4. PtTypes
  BY <1>1, <1>2, <1>3, QueueNames, PipelinesAssumption DEF PtTypes
<1>5. PtAt
  BY <1>1, <1>3, PtNames DEF PtAt, ProducerAt, ConsumerAt, TransmitterAt, ReceiverAt
<1> QED BY <1>4, <1>5 DEF PtInv

\* Others are woken up at most: pc y follows pc x.
Woken(x, y) == y = x \/ (x = "get wait" /\ y = "get") \/ (x = "put wait" /\ y = "put")
\* A thread that is woken up is where it was, in the same call.
LEMMA WokenAt ==
  ASSUME NEW x, NEW y, Woken(x, y)
  PROVE  /\ \A d : ProducerAt(x, d) => ProducerAt(y, d)
         /\ \A k, d : ConsumerAt(x, k, d) => ConsumerAt(y, k, d)
         /\ \A k, b : TransmitterAt(x, k, b) => TransmitterAt(y, k, b)
         /\ \A k, b : ReceiverAt(x, k, b) => ReceiverAt(y, k, b)
         /\ x \in {"check", "inner", "done"} \cup Getting \cup Putting => y \in {"check", "inner", "done"} \cup Getting \cup Putting
BY DEF Woken, ProducerAt, ConsumerAt, TransmitterAt, ReceiverAt, Getting, Putting

\* Of a step of t, what it leaves of the others.
LEMMA PtOthers ==
  ASSUME PtInv, NEW t \in PThread!Threads, pGoal' = pGoal,
         \A u \in PThread!Threads \ {t} : Woken(pPcs[u], pPcs'[u]) /\ retries'[u] = retries[u],
         \A u \in PThread!Producers \cup PThread!Consumers : u # t => pDone'[u] = pDone[u],
         t # PThread!Transmitter => pTBlock' = pTBlock, t # PThread!Receiver => pRBlock' = pRBlock,
         \A n \in PairNumbers :
           /\ t = PThread!Producer(n) => ProducerAt(pPcs'[t], pDone'[t])
           /\ t = PThread!Consumer(n) => ConsumerAt(pPcs'[t], retries'[t], pDone'[t]),
         t = PThread!Transmitter => TransmitterAt(pPcs'[t], retries'[t], pTBlock'),
         t = PThread!Receiver => ReceiverAt(pPcs'[t], retries'[t], pRBlock')
  PROVE  PtAt'
<1>1. ASSUME NEW n \in PairNumbers
      PROVE  /\ ProducerAt(pPcs'[PThread!Producer(n)], pDone'[PThread!Producer(n)])
             /\ ConsumerAt(pPcs'[PThread!Consumer(n)], retries'[PThread!Consumer(n)], pDone'[PThread!Consumer(n)])
  <2>1. /\ PThread!Producer(n) \in PThread!Threads /\ PThread!Consumer(n) \in PThread!Threads
        /\ PThread!Producer(n) \in PThread!Producers /\ PThread!Consumer(n) \in PThread!Consumers
    BY PtNames
  <2>2. ProducerAt(pPcs'[PThread!Producer(n)], pDone'[PThread!Producer(n)])
    BY <2>1, WokenAt DEF PtInv, PtAt
  <2>3. ConsumerAt(pPcs'[PThread!Consumer(n)], retries'[PThread!Consumer(n)], pDone'[PThread!Consumer(n)])
    BY <2>1, WokenAt DEF PtInv, PtAt
  <2> QED BY <2>2, <2>3
<1>2. TransmitterAt(pPcs'[PThread!Transmitter], retries'[PThread!Transmitter], pTBlock')
  BY PtNames, WokenAt DEF PtInv, PtAt
<1>3. ReceiverAt(pPcs'[PThread!Receiver], retries'[PThread!Receiver], pRBlock')
  BY PtNames, WokenAt DEF PtInv, PtAt
<1> QED BY <1>1, <1>2, <1>3 DEF PtAt, ProducerAt, ConsumerAt, TransmitterAt, ReceiverAt

PtPcs == {"check", "inner", "done"} \cup Getting \cup Putting

Moves(t, next) ==
  /\ pPcs' \in [PThread!Threads -> PtPcs] /\ pPcs'[t] = next
  /\ \A u \in PThread!Threads \ {t} : Woken(pPcs[u], pPcs'[u])
\* A broadcast moves the thread on, and at most wakes up the others.
LEMMA Wakes ==
  ASSUME PtInv, NEW t \in PThread!Threads, pPcs[t] \in {"get", "put"}
  PROVE  \A next \in PtPcs : \A q :
           /\ PThread!Broadcast(q, "put wait", "put", [pPcs EXCEPT ![t] = next]) => Moves(t, next)
           /\ PThread!Broadcast(q, "get wait", "get", [pPcs EXCEPT ![t] = next]) => Moves(t, next)
<1> TAKE next \in PtPcs
<1> TAKE q
<1> DEFINE now == [pPcs EXCEPT ![t] = next]
<1>1. pPcs \in [PThread!Threads -> PtPcs]
  BY DEF PtInv, PtTypes, PtPcs
<1>2. now \in [PThread!Threads -> PtPcs] /\ now[t] = next /\ \A u \in PThread!Threads \ {t} : now[u] = pPcs[u]
  BY <1>1
<1> HIDE DEF now
<1>3. ASSUME NEW wait, NEW again, Woken(wait, again), again \in PtPcs, pPcs[t] # wait,
             pPcs' = [u \in PThread!Threads |-> pPcs'[u]],
             \A u \in PThread!Threads : pPcs'[u] = now[u] \/ (pPcs[u] = wait /\ pPcs'[u] = again)
      PROVE  Moves(t, next)
  <2>1. pPcs'[t] = next
    BY <1>2, <1>3
  <2>2. \A u \in PThread!Threads : pPcs'[u] \in PtPcs
    BY <1>2, <1>3
  <2>3. pPcs' \in [PThread!Threads -> PtPcs]
    BY <1>3, <2>2
  <2>4. \A u \in PThread!Threads \ {t} : Woken(pPcs[u], pPcs'[u])
    BY <1>2, <1>3 DEF Woken
  <2> QED BY <2>1, <2>3, <2>4 DEF Moves
<1>4. ASSUME PThread!Broadcast(q, "put wait", "put", now) PROVE Moves(t, next)
  <2> DEFINE told(u) == pPcs[u] = "put wait" /\ PThread!Target(u) = q
  <2>1. pPcs' = [u \in PThread!Threads |-> IF told(u) THEN "put" ELSE now[u]]
    BY <1>4 DEF PThread!Broadcast
  <2>2. \A u : told(u) => pPcs[u] = "put wait"
    OBVIOUS
  <2> HIDE DEF told
  <2>3. Woken("put wait", "put") /\ "put" \in PtPcs /\ pPcs[t] # "put wait"
    BY DEF Woken, PtPcs, Putting
  <2> QED BY <1>3, <2>1, <2>2, <2>3
<1>5. ASSUME PThread!Broadcast(q, "get wait", "get", now) PROVE Moves(t, next)
  <2> DEFINE told(u) == pPcs[u] = "get wait" /\ PThread!Source(u) = q
  <2>1. pPcs' = [u \in PThread!Threads |-> IF told(u) THEN "get" ELSE now[u]]
    BY <1>5 DEF PThread!Broadcast
  <2>2. \A u : told(u) => pPcs[u] = "get wait"
    OBVIOUS
  <2> HIDE DEF told
  <2>3. Woken("get wait", "get") /\ "get" \in PtPcs /\ pPcs[t] # "get wait"
    BY DEF Woken, PtPcs, Getting
  <2> QED BY <1>3, <2>1, <2>2, <2>3
<1> QED BY <1>4, <1>5 DEF now

\* A step that changes the statement of its thread only.
LEMMA PcMoves ==
  ASSUME PtInv, NEW t \in PThread!Threads, NEW next \in PtPcs, pPcs' = [pPcs EXCEPT ![t] = next]
  PROVE  /\ pPcs' \in [PThread!Threads -> PtPcs] /\ pPcs'[t] = next
         /\ \A u \in PThread!Threads \ {t} : pPcs'[u] = pPcs[u]
BY DEF PtInv, PtTypes, PtPcs

\* A get of a message, and a put of one.
GetsOne(t) == PThread!q_get(t) /\ pQueue[PThread!Source(t)] # <<>>
PutsOne(t) == PThread!q_put(t) /\ Len(pQueue[PThread!Target(t)]) # QSize - 1
Getters(t) == t = PThread!Transmitter \/ t = PThread!Receiver \/ \E n \in PairNumbers : t = PThread!Consumer(n)
Putters(t) == t = PThread!Transmitter \/ t = PThread!Receiver \/ \E n \in PairNumbers : t = PThread!Producer(n)
GetsNow(t) ==
  LET q == PThread!Source(t)
      h == Head(pQueue[q])
  IN /\ pPcs[t] = "get" /\ q \in PThread!Queues /\ pQueue[q] # <<>> /\ h \in Kind(q) /\ Getters(t)
     /\ pQueue[q] \in Seq(Kind(q)) /\ pQueue' = [pQueue EXCEPT ![q] = Tail(@)]
     /\ pPcs' \in [PThread!Threads -> PtPcs] /\ pPcs'[t] = PThread!NextAfterGet(t, h)
     /\ \A u \in PThread!Threads \ {t} : Woken(pPcs[u], pPcs'[u])
     /\ retries' = [retries EXCEPT ![t] = 0]
     /\ pDone' = IF t \in PThread!Consumers THEN [pDone EXCEPT ![t] = @ + 1] ELSE pDone
     /\ pTBlock' = IF t = PThread!Transmitter THEN Append(pTBlock, h) ELSE pTBlock
     /\ pRBlock' = IF t = PThread!Receiver THEN h ELSE pRBlock
     /\ pGoal' = pGoal
PutsNow(t) ==
  LET q == PThread!Target(t)
      m == PThread!MessageOf(t)
  IN /\ pPcs[t] = "put" /\ q \in PThread!Queues /\ m \in Kind(q) /\ Putters(t)
     /\ pQueue[q] \in Seq(Kind(q)) /\ Len(pQueue[q]) < QSize - 1
     /\ pQueue' = [pQueue EXCEPT ![q] = Append(@, m)]
     /\ pPcs' \in [PThread!Threads -> PtPcs] /\ pPcs'[t] = PThread!NextAfterPut(t)
     /\ \A u \in PThread!Threads \ {t} : Woken(pPcs[u], pPcs'[u])
     /\ pDone' = IF t \in PThread!Producers THEN [pDone EXCEPT ![t] = @ + 1] ELSE pDone
     /\ pRBlock' = IF t = PThread!Receiver THEN Tail(pRBlock) ELSE pRBlock
     /\ UNCHANGED <<retries, pTBlock, pGoal>>

\* What a get that finds a message finds and leaves.
LEMMA GetFacts == ASSUME PtInv, NEW t \in PThread!Threads, GetsOne(t) PROVE GetsNow(t)
<1> DEFINE q == PThread!Source(t)
           h == Head(pQueue[q])
           next == PThread!NextAfterGet(t, h)
<1>1. /\ pPcs[t] = "get" /\ pQueue[q] # <<>> /\ pQueue' = [pQueue EXCEPT ![q] = Tail(@)]
      /\ PThread!Got(t, TRUE, h)
      /\ PThread!Broadcast(q, "put wait", "put", [pPcs EXCEPT ![t] = next])
      /\ pGoal' = pGoal
  BY DEF GetsOne, PThread!q_get, PThread!q_empty, PThread!ptArgs
<1>2. Getters(t)
  <2>1. \A n \in PairNumbers : pPcs[PThread!Producer(n)] # "get"
    BY DEF PtInv, PtAt, ProducerAt, Putting
  <2> QED BY <1>1, <2>1, PtNames DEF Getters
<1>3. q \in PThread!Queues
  BY <1>2, Ends, PtQueueNames DEF Getters
<1>4. pQueue[q] \in Seq(Kind(q))
  BY <1>3 DEF PtInv, PtTypes
<1>5. h \in Kind(q)
  <2> DEFINE s == pQueue[q]
  <2>1. s # <<>> /\ s \in Seq(Kind(q))
    BY <1>1, <1>4
  <2> HIDE DEF q, s
  <2>2. Head(s) \in Kind(q)
    BY <2>1
  <2> QED BY <2>2 DEF s
<1>6. next \in PtPcs
  BY DEF PThread!NextAfterGet, PtPcs, Putting
<1>7. /\ retries' = [retries EXCEPT ![t] = 0]
      /\ pDone' = IF t \in PThread!Consumers THEN [pDone EXCEPT ![t] = @ + 1] ELSE pDone
      /\ pTBlock' = IF t = PThread!Transmitter THEN Append(pTBlock, h) ELSE pTBlock
      /\ pRBlock' = IF t = PThread!Receiver THEN h ELSE pRBlock
  BY <1>1 DEF PThread!Got
<1> HIDE DEF q, h, next
<1>8. /\ pPcs' \in [PThread!Threads -> PtPcs] /\ pPcs'[t] = next
      /\ \A u \in PThread!Threads \ {t} : Woken(pPcs[u], pPcs'[u])
  BY <1>1, <1>6, Wakes DEF Moves
<1> QED BY <1>1, <1>2, <1>3, <1>4, <1>5, <1>7, <1>8 DEF GetsNow, q, h, next

\* What a put that finds room finds and leaves.
LEMMA PutFacts == ASSUME PtInv, NEW t \in PThread!Threads, PutsOne(t) PROVE PutsNow(t)
<1> DEFINE q == PThread!Target(t)
           m == PThread!MessageOf(t)
           next == PThread!NextAfterPut(t)
<1>1. /\ pPcs[t] = "put" /\ Len(pQueue[q]) # QSize - 1 /\ pQueue' = [pQueue EXCEPT ![q] = Append(@, m)]
      /\ pDone' = IF t \in PThread!Producers THEN [pDone EXCEPT ![t] = @ + 1] ELSE pDone
      /\ pRBlock' = IF t = PThread!Receiver THEN Tail(pRBlock) ELSE pRBlock
      /\ PThread!Broadcast(q, "get wait", "get", [pPcs EXCEPT ![t] = next])
      /\ UNCHANGED <<retries, pTBlock, pGoal>>
  BY DEF PutsOne, PThread!q_put, PThread!q_full, PThread!ptArgs
<1>2. Putters(t)
  <2>1. \A n \in PairNumbers : pPcs[PThread!Consumer(n)] # "put"
    BY DEF PtInv, PtAt, ConsumerAt, Getting
  <2>2. CASE t = PThread!Transmitter \/ t = PThread!Receiver
    BY <2>2 DEF Putters
  <2>3. ASSUME NEW n \in PairNumbers, t = PThread!Producer(n) \/ t = PThread!Consumer(n)
        PROVE  Putters(t)
    <3>1. t = PThread!Producer(n)
      BY <1>1, <2>1, <2>3
    <3> QED BY <3>1 DEF Putters
  <2>4. t = PThread!Transmitter \/ t = PThread!Receiver
        \/ \E n \in PairNumbers : t = PThread!Producer(n) \/ t = PThread!Consumer(n)
    BY PtNames
  <2> QED BY <2>2, <2>3, <2>4
<1>3. q \in PThread!Queues /\ m \in Kind(q)
  <2>1. CASE t = PThread!Transmitter
    BY <2>1, Ends, PtQueueNames DEF PtInv, PtTypes
  <2>2. CASE t = PThread!Receiver
    <3>1. pRBlock \in Blocks /\ pRBlock # <<>>
      BY <1>1, <2>2 DEF PtInv, PtTypes, PtAt, ReceiverAt, Getting
    <3>2. Head(pRBlock)[1] \in PairNumbers /\ Head(pRBlock) \in {Head(pRBlock)[1]} \X Nat
      BY <3>1, BlockHead
    <3> DEFINE h == Head(pRBlock)
    <3>3. q = R2cq(h[1]) /\ m = h
      BY <2>2, Ends
    <3> HIDE DEF q, m, h
    <3> QED BY <3>2, <3>3, PtQueueNames DEF h
  <2>3. ASSUME NEW n \in PairNumbers, t = PThread!Producer(n) PROVE q \in PThread!Queues /\ m \in Kind(q)
    <3>1. pDone[t] \in Nat
      BY <2>3, PtNames DEF PtInv, PtTypes
    <3>2. q = P2tq /\ m = <<n, pDone[t]>>
      BY <2>3, Ends
    <3> HIDE DEF q, m
    <3> QED BY <3>1, <3>2, PtQueueNames DEF PairMessages
  <2> QED BY <1>2, <2>1, <2>2, <2>3 DEF Putters
<1>4. pQueue[q] \in Seq(Kind(q)) /\ Len(pQueue[q]) <= QSize - 1 /\ QSize \in Nat
  BY <1>3, PipelinesAssumption DEF PtInv, PtTypes
<1>5. Len(pQueue[q]) < QSize - 1
  <2>1. Len(pQueue[q]) \in Nat
    BY <1>4
  <2>2. Len(pQueue[q]) # QSize - 1
    BY <1>1
  <2> HIDE DEF q
  <2> QED BY <1>4, <2>1, <2>2
<1>6. next \in PtPcs
  BY DEF PThread!NextAfterPut, PtPcs, Putting
<1> HIDE DEF q, m, next
<1>7. /\ pPcs' \in [PThread!Threads -> PtPcs] /\ pPcs'[t] = next
      /\ \A u \in PThread!Threads \ {t} : Woken(pPcs[u], pPcs'[u])
  BY <1>1, <1>6, Wakes DEF Moves
<1> QED BY <1>1, <1>2, <1>3, <1>4, <1>5, <1>7 DEF PutsNow, q, m, next

\* A get of a message keeps the invariant.
LEMMA PtGets == ASSUME PtInv, NEW t \in PThread!Threads, GetsNow(t) PROVE PtInv'
<1> DEFINE q == PThread!Source(t)
           h == Head(pQueue[q])
<1>1. /\ pPcs[t] = "get" /\ q \in PThread!Queues /\ pQueue[q] # <<>> /\ h \in Kind(q) /\ Getters(t)
      /\ pQueue[q] \in Seq(Kind(q)) /\ pQueue' = [pQueue EXCEPT ![q] = Tail(@)]
      /\ pPcs' \in [PThread!Threads -> PtPcs] /\ pPcs'[t] = PThread!NextAfterGet(t, h)
      /\ \A u \in PThread!Threads \ {t} : Woken(pPcs[u], pPcs'[u])
      /\ retries' = [retries EXCEPT ![t] = 0] /\ pGoal' = pGoal
  BY DEF GetsNow
<1>2. /\ pDone' = IF t \in PThread!Consumers THEN [pDone EXCEPT ![t] = @ + 1] ELSE pDone
      /\ pTBlock' = IF t = PThread!Transmitter THEN Append(pTBlock, h) ELSE pTBlock
      /\ pRBlock' = IF t = PThread!Receiver THEN h ELSE pRBlock
  BY DEF GetsNow
<1>3. /\ t = PThread!Transmitter => q = P2tq /\ Kind(q) = PairMessages
      /\ t = PThread!Receiver => q = T2rq /\ Kind(q) = Blocks
  BY Ends, PtQueueNames
<1> DEFINE next == PThread!NextAfterGet(t, h)
<1> HIDE DEF q, h
<1>4. \A r \in PThread!Queues : pQueue'[r] \in Seq(Kind(r)) /\ Len(pQueue'[r]) <= QSize - 1
  <2> TAKE r \in PThread!Queues
  <2>1. pQueue = [x \in PThread!Queues |-> pQueue[x]] /\ pQueue[r] \in Seq(Kind(r)) /\ Len(pQueue[r]) <= QSize - 1
    BY DEF PtInv, PtTypes
  <2>2. CASE r = q
    <3> DEFINE s == pQueue[q]
    <3>1. pQueue'[r] = Tail(s) /\ s # <<>> /\ s \in Seq(Kind(q)) /\ Len(s) <= QSize - 1
      BY <1>1, <2>1, <2>2
    <3> HIDE DEF s
    <3>2. Tail(s) \in Seq(Kind(q)) /\ Len(Tail(s)) <= QSize - 1
      BY <3>1, PipelinesAssumption
    <3> QED BY <2>2, <3>1, <3>2
  <2>3. CASE r # q
    BY <1>1, <2>1, <2>3
  <2> QED BY <2>2, <2>3
<1>5. pQueue' = [r \in PThread!Queues |-> pQueue'[r]]
  <2>1. pQueue = [x \in PThread!Queues |-> pQueue[x]]
    BY DEF PtInv, PtTypes
  <2> QED BY <1>1, <2>1
<1>6. retries' \in [PThread!Threads -> 0 .. MAX_RETRY]
  BY <1>1, PipelinesAssumption DEF PtInv, PtTypes
<1>7. /\ pDone' \in [PThread!Producers \cup PThread!Consumers -> Nat]
      /\ \A u \in PThread!Producers \cup PThread!Consumers : pDone'[u] <= pGoal
  <2>1. /\ pDone \in [PThread!Producers \cup PThread!Consumers -> Nat] /\ pGoal \in Nat
        /\ \A u \in PThread!Producers \cup PThread!Consumers : pDone[u] <= pGoal
    BY DEF PtInv, PtTypes
  <2>2. CASE t \in PThread!Consumers
    <3>1. PICK n \in PairNumbers : t = PThread!Consumer(n)
      BY <2>2 DEF PThread!Consumers
    <3>2. pDone[t] < pGoal
      BY <1>1, <3>1 DEF PtInv, PtAt, ConsumerAt, Getting
    <3>3. pDone' = [pDone EXCEPT ![t] = @ + 1]
      BY <1>2, <2>2
    <3> QED BY <2>1, <2>2, <3>2, <3>3
  <2>3. CASE t \notin PThread!Consumers
    BY <1>2, <2>1, <2>3
  <2> QED BY <2>2, <2>3
<1>8. pTBlock' \in Blocks
  <2>1. pTBlock \in Blocks
    BY DEF PtInv, PtTypes
  <2>2. CASE t = PThread!Transmitter
    <3>1. Len(pTBlock) < BlockSize
      BY <1>1, <2>2 DEF PtInv, PtAt, TransmitterAt, Putting, Getting
    <3>2. h \in PairMessages /\ pTBlock' = Append(pTBlock, h)
      BY <1>1, <1>2, <1>3, <2>2
    <3>3. BlockSize \in Nat
      BY PipelinesAssumption
    <3> QED BY <2>1, <3>1, <3>2, <3>3 DEF Blocks
  <2> QED BY <1>2, <2>1, <2>2
<1>9. pRBlock' \in Blocks
  BY <1>1, <1>2, <1>3 DEF PtInv, PtTypes
<1>10. PtTypes'
  <2>1. pGoal' \in Nat
    BY <1>1 DEF PtInv, PtTypes
  <2>2. \A u \in PThread!Producers \cup PThread!Consumers : pDone'[u] <= pGoal'
    BY <1>1, <1>7
  <2>3. pPcs' \in [PThread!Threads -> {"check", "inner", "done"} \cup Getting \cup Putting]
    BY <1>1 DEF PtPcs
  <2> QED BY <1>4, <1>5, <1>6, <1>7, <1>8, <1>9, <2>1, <2>2, <2>3 DEF PtTypes
<1>11. \A n \in PairNumbers :
         /\ t = PThread!Producer(n) => ProducerAt(pPcs'[t], pDone'[t])
         /\ t = PThread!Consumer(n) => ConsumerAt(pPcs'[t], retries'[t], pDone'[t])
  <2> TAKE n \in PairNumbers
  <2>1. t # PThread!Producer(n)
    BY <1>1, PtNames DEF Getters
  <2>2. ASSUME t = PThread!Consumer(n) PROVE ConsumerAt(pPcs'[t], retries'[t], pDone'[t])
    <3>1. pPcs'[t] = "check"
      BY <1>1, <2>2, PtNames DEF PThread!NextAfterGet
    <3> QED BY <3>1 DEF ConsumerAt
  <2> QED BY <2>1, <2>2
<1>12. t = PThread!Transmitter => TransmitterAt(pPcs'[t], retries'[t], pTBlock')
  BY <1>1 DEF TransmitterAt, PThread!NextAfterGet
<1>13. t = PThread!Receiver => ReceiverAt(pPcs'[t], retries'[t], pRBlock')
  BY <1>1, <1>2, PtNames DEF ReceiverAt, Putting, PThread!NextAfterGet
<1>14. \A u \in PThread!Threads \ {t} : Woken(pPcs[u], pPcs'[u]) /\ retries'[u] = retries[u]
  <2>1. retries \in [PThread!Threads -> 0 .. MAX_RETRY]
    BY DEF PtInv, PtTypes
  <2> QED BY <1>1, <2>1
<1>15. \A u \in PThread!Producers \cup PThread!Consumers : u # t => pDone'[u] = pDone[u]
  BY <1>2 DEF PtInv, PtTypes
<1>16. /\ t # PThread!Transmitter => pTBlock' = pTBlock
       /\ t # PThread!Receiver => pRBlock' = pRBlock
  BY <1>2
<1>17. PtAt'
  BY <1>1, <1>11, <1>12, <1>13, <1>14, <1>15, <1>16, PtOthers
<1> QED BY <1>10, <1>17 DEF PtInv

\* So does a put.
LEMMA PtPuts == ASSUME PtInv, NEW t \in PThread!Threads, PutsNow(t) PROVE PtInv'
<1> DEFINE q == PThread!Target(t)
           m == PThread!MessageOf(t)
<1>1. /\ pPcs[t] = "put" /\ q \in PThread!Queues /\ m \in Kind(q) /\ Putters(t)
      /\ pQueue[q] \in Seq(Kind(q)) /\ Len(pQueue[q]) < QSize - 1
      /\ pQueue' = [pQueue EXCEPT ![q] = Append(@, m)]
      /\ pPcs' \in [PThread!Threads -> PtPcs] /\ pPcs'[t] = PThread!NextAfterPut(t)
      /\ \A u \in PThread!Threads \ {t} : Woken(pPcs[u], pPcs'[u])
      /\ UNCHANGED <<retries, pTBlock, pGoal>>
  BY DEF PutsNow
<1>2. /\ pDone' = IF t \in PThread!Producers THEN [pDone EXCEPT ![t] = @ + 1] ELSE pDone
      /\ pRBlock' = IF t = PThread!Receiver THEN Tail(pRBlock) ELSE pRBlock
  BY DEF PutsNow
<1> HIDE DEF q, m
<1>4. \A r \in PThread!Queues : pQueue'[r] \in Seq(Kind(r)) /\ Len(pQueue'[r]) <= QSize - 1
  <2> TAKE r \in PThread!Queues
  <2>1. pQueue = [x \in PThread!Queues |-> pQueue[x]] /\ pQueue[r] \in Seq(Kind(r)) /\ Len(pQueue[r]) <= QSize - 1
    BY DEF PtInv, PtTypes
  <2>2. CASE r = q
    <3> DEFINE s == pQueue[q]
    <3>1. pQueue'[r] = Append(s, m) /\ s \in Seq(Kind(q)) /\ Len(s) < QSize - 1 /\ m \in Kind(q)
      BY <1>1, <2>1, <2>2
    <3> HIDE DEF s
    <3>2. Append(s, m) \in Seq(Kind(q)) /\ Len(Append(s, m)) <= QSize - 1
      BY <3>1, PipelinesAssumption
    <3> QED BY <2>2, <3>1, <3>2
  <2>3. CASE r # q
    BY <1>1, <2>1, <2>3
  <2> QED BY <2>2, <2>3
<1>5. pQueue' = [r \in PThread!Queues |-> pQueue'[r]]
  <2>1. pQueue = [x \in PThread!Queues |-> pQueue[x]]
    BY DEF PtInv, PtTypes
  <2> QED BY <1>1, <2>1
<1>6. retries' \in [PThread!Threads -> 0 .. MAX_RETRY]
  BY <1>1 DEF PtInv, PtTypes
<1>7. /\ pDone' \in [PThread!Producers \cup PThread!Consumers -> Nat]
      /\ \A u \in PThread!Producers \cup PThread!Consumers : pDone'[u] <= pGoal
  <2>1. /\ pDone \in [PThread!Producers \cup PThread!Consumers -> Nat] /\ pGoal \in Nat
        /\ \A u \in PThread!Producers \cup PThread!Consumers : pDone[u] <= pGoal
    BY DEF PtInv, PtTypes
  <2>2. CASE t \in PThread!Producers
    <3>1. PICK n \in PairNumbers : t = PThread!Producer(n)
      BY <2>2 DEF PThread!Producers
    <3>2. pDone[t] < pGoal
      BY <1>1, <3>1 DEF PtInv, PtAt, ProducerAt, Putting
    <3>3. pDone' = [pDone EXCEPT ![t] = @ + 1]
      BY <1>2, <2>2
    <3> QED BY <2>1, <2>2, <3>2, <3>3
  <2>3. CASE t \notin PThread!Producers
    BY <1>2, <2>1, <2>3
  <2> QED BY <2>2, <2>3
<1>8. t = PThread!Receiver => pRBlock \in Seq(PairMessages) /\ pRBlock # <<>>
  BY <1>1 DEF PtInv, PtTypes, PtAt, ReceiverAt, Getting, Blocks
<1>9. pTBlock' \in Blocks /\ pRBlock' \in Blocks
  BY <1>1, <1>2, <1>8, BlockHead DEF PtInv, PtTypes
<1>10. PtTypes'
  <2>1. pGoal' \in Nat
    BY <1>1 DEF PtInv, PtTypes
  <2>2. \A u \in PThread!Producers \cup PThread!Consumers : pDone'[u] <= pGoal'
    BY <1>1, <1>7
  <2>3. pPcs' \in [PThread!Threads -> {"check", "inner", "done"} \cup Getting \cup Putting]
    BY <1>1 DEF PtPcs
  <2> QED BY <1>4, <1>5, <1>6, <1>7, <1>9, <2>1, <2>2, <2>3 DEF PtTypes
<1>11. \A n \in PairNumbers :
         /\ t = PThread!Producer(n) => ProducerAt(pPcs'[t], pDone'[t])
         /\ t = PThread!Consumer(n) => ConsumerAt(pPcs'[t], retries'[t], pDone'[t])
  <2> TAKE n \in PairNumbers
  <2>1. t # PThread!Consumer(n)
    BY <1>1, PtNames DEF Putters
  <2>2. ASSUME t = PThread!Producer(n) PROVE ProducerAt(pPcs'[t], pDone'[t])
    <3>1. pPcs'[t] = "check"
      BY <1>1, <2>2, PtNames DEF PThread!NextAfterPut
    <3> QED BY <3>1 DEF ProducerAt
  <2> QED BY <2>1, <2>2
<1>12. t = PThread!Transmitter => TransmitterAt(pPcs'[t], retries'[t], pTBlock')
  BY <1>1, PtNames DEF TransmitterAt, PThread!NextAfterPut
<1>13. ASSUME t = PThread!Receiver PROVE ReceiverAt(pPcs'[t], retries'[t], pRBlock')
  <2> DEFINE b == pRBlock
  <2>1. b \in Seq(PairMessages) /\ b # <<>> /\ pRBlock' = Tail(b)
    BY <1>2, <1>8, <1>13
  <2>2. pPcs'[t] = IF Len(b) > 1 THEN "put" ELSE "check"
    BY <1>1, <1>13 DEF PThread!NextAfterPut
  <2> HIDE DEF b
  <2>3. Len(b) > 1 <=> Tail(b) # <<>>
    <3>1. Tail(b) \in Seq(PairMessages) /\ Len(Tail(b)) = Len(b) - 1 /\ Len(b) \in Nat
      BY <2>1
    <3>2. \A c \in Seq(PairMessages) : c = <<>> <=> Len(c) = 0
      BY EmptySeq
    <3>3. Tail(b) = <<>> <=> Len(Tail(b)) = 0
      BY <3>1, <3>2, Zenon
    <3> QED BY <3>1, <3>3
  <2> QED BY <2>1, <2>2, <2>3 DEF ReceiverAt, Putting
<1>14. \A u \in PThread!Threads \ {t} : Woken(pPcs[u], pPcs'[u]) /\ retries'[u] = retries[u]
  BY <1>1
<1>15. \A u \in PThread!Producers \cup PThread!Consumers : u # t => pDone'[u] = pDone[u]
  BY <1>2 DEF PtInv, PtTypes
<1>16. /\ t # PThread!Transmitter => pTBlock' = pTBlock
       /\ t # PThread!Receiver => pRBlock' = pRBlock
  BY <1>1, <1>2
<1>17. PtAt'
  BY <1>1, <1>11, <1>12, <1>13, <1>14, <1>15, <1>16, PtOthers
<1> QED BY <1>10, <1>17 DEF PtInv

\* The steps of a thread that move no message.
Quiet(t) ==
  /\ UNCHANGED <<pGoal, pQueue, pDone, pRBlock>>
  /\ \E next \in PtPcs : pPcs' = [pPcs EXCEPT ![t] = next]
  /\ retries' \in [PThread!Threads -> 0 .. MAX_RETRY]
  /\ \A u \in PThread!Threads \ {t} : retries'[u] = retries[u]
  /\ pTBlock' = pTBlock \/ (t = PThread!Transmitter /\ pPcs[t] = "check" /\ pPcs'[t] = "inner" /\ pTBlock' = <<>>)
  /\ \A n \in PairNumbers :
       /\ t = PThread!Producer(n) => ProducerAt(pPcs'[t], pDone[t])
       /\ t = PThread!Consumer(n) => ConsumerAt(pPcs'[t], retries'[t], pDone[t])
  /\ t = PThread!Transmitter => TransmitterAt(pPcs'[t], retries'[t], pTBlock')
  /\ t = PThread!Transmitter => (pPcs'[t] \in {"check", "done"} <=> pPcs[t] \in {"check", "done"}) \/ pTBlock' = <<>>
  /\ t = PThread!Receiver => ReceiverAt(pPcs'[t], retries'[t], pRBlock)

\* Steps that move no message keep the invariant.
LEMMA PtQuiet == ASSUME PtInv, NEW t \in PThread!Threads, Quiet(t) PROVE PtInv'
<1>1. /\ UNCHANGED <<pGoal, pQueue, pDone, pRBlock>>
      /\ retries' \in [PThread!Threads -> 0 .. MAX_RETRY]
      /\ \A u \in PThread!Threads \ {t} : retries'[u] = retries[u]
      /\ pTBlock' = pTBlock \/ (t = PThread!Transmitter /\ pTBlock' = <<>>)
  BY DEF Quiet
<1>2. PICK next \in PtPcs : pPcs' = [pPcs EXCEPT ![t] = next]
  BY DEF Quiet
<1>3. /\ pPcs' \in [PThread!Threads -> PtPcs]
      /\ \A u \in PThread!Threads \ {t} : Woken(pPcs[u], pPcs'[u])
  BY <1>2, PcMoves DEF Woken
<1>4. pTBlock' \in Blocks
  <2>1. <<>> \in Blocks
    BY PipelinesAssumption DEF Blocks
  <2> QED BY <1>1, <2>1 DEF PtInv, PtTypes
<1>5. PtTypes'
  BY <1>1, <1>3, <1>4 DEF PtInv, PtTypes, PtPcs
<1>6. /\ \A n \in PairNumbers :
           /\ t = PThread!Producer(n) => ProducerAt(pPcs'[t], pDone'[t])
           /\ t = PThread!Consumer(n) => ConsumerAt(pPcs'[t], retries'[t], pDone'[t])
      /\ t = PThread!Transmitter => TransmitterAt(pPcs'[t], retries'[t], pTBlock')
      /\ t = PThread!Receiver => ReceiverAt(pPcs'[t], retries'[t], pRBlock')
  BY <1>1 DEF Quiet
<1>7. PtAt'
  BY <1>1, <1>3, <1>6, PtOthers
<1> QED BY <1>5, <1>7 DEF PtInv

\* A call that has to wait moves no message.
LEMMA WaitsQuietly ==
  ASSUME PtInv, NEW t \in PThread!Threads,
         \/ PThread!q_get(t) /\ ~GetsOne(t)
         \/ PThread!q_put(t) /\ ~PutsOne(t)
  PROVE  Quiet(t)
<1>1. /\ UNCHANGED <<pGoal, pQueue, pDone, pRBlock, pTBlock, retries>>
      /\ \/ pPcs[t] = "get" /\ pPcs' = [pPcs EXCEPT ![t] = "get wait"]
         \/ pPcs[t] = "put" /\ pPcs' = [pPcs EXCEPT ![t] = "put wait"]
  BY DEF GetsOne, PutsOne, PThread!q_get, PThread!q_put, PThread!q_empty, PThread!q_full, PThread!ptArgs, PThread!ptWork
<1>2. PICK next : next \in PtPcs /\ pPcs' = [pPcs EXCEPT ![t] = next]
                  /\ \/ pPcs[t] = "get" /\ next = "get wait"
                     \/ pPcs[t] = "put" /\ next = "put wait"
  BY <1>1 DEF PtPcs, Getting, Putting
<1>3. pPcs'[t] = next /\ retries \in [PThread!Threads -> 0 .. MAX_RETRY]
  BY <1>2, PcMoves DEF PtInv, PtTypes
<1>4. /\ \A n \in PairNumbers :
           /\ t = PThread!Producer(n) => ProducerAt(pPcs'[t], pDone[t])
           /\ t = PThread!Consumer(n) => ConsumerAt(pPcs'[t], retries[t], pDone[t])
      /\ t = PThread!Transmitter => TransmitterAt(pPcs'[t], retries[t], pTBlock)
      /\ t = PThread!Receiver => ReceiverAt(pPcs'[t], retries[t], pRBlock)
  BY <1>2, <1>3 DEF PtInv, PtAt, ProducerAt, ConsumerAt, TransmitterAt, ReceiverAt, Getting, Putting
<1>5. t = PThread!Transmitter => (pPcs'[t] \in {"check", "done"} <=> pPcs[t] \in {"check", "done"})
  BY <1>2, <1>3
<1> QED BY <1>1, <1>2, <1>3, <1>4, <1>5 DEF Quiet

\* A get or put that times out moves no message.
LEMMA TimeOutQuiet == ASSUME PtInv, NEW t \in PThread!Threads, PThread!TimeOut(t) PROVE Quiet(t)
<1>1. /\ UNCHANGED <<pGoal, pQueue, pDone, pRBlock, pTBlock>> /\ pPcs[t] = "get wait"
      /\ retries' = [retries EXCEPT ![t] = @ + 1]
      /\ pPcs' = [pPcs EXCEPT ![t] = IF t = PThread!Transmitter THEN "inner" ELSE "check"]
  BY DEF PThread!TimeOut, PThread!Got, PThread!NextAfterGet, PThread!ptArgs
<1>2. PICK next : next \in PtPcs /\ pPcs' = [pPcs EXCEPT ![t] = next]
                  /\ next = IF t = PThread!Transmitter THEN "inner" ELSE "check"
  BY <1>1 DEF PtPcs
<1>3. pPcs'[t] = next /\ retries \in [PThread!Threads -> 0 .. MAX_RETRY]
  BY <1>2, PcMoves DEF PtInv, PtTypes
<1>4. retries[t] < MAX_RETRY
  <2>1. \A n \in PairNumbers : t # PThread!Producer(n)
    BY <1>1 DEF PtInv, PtAt, ProducerAt, Putting
  <2> QED BY <1>1, <2>1, PtNames DEF PtInv, PtAt, ConsumerAt, TransmitterAt, ReceiverAt, Putting, Getting
<1>5. /\ retries' \in [PThread!Threads -> 0 .. MAX_RETRY]
      /\ \A u \in PThread!Threads \ {t} : retries'[u] = retries[u]
  <2> DEFINE k == retries[t]
  <2>1. k \in 0 .. MAX_RETRY /\ k < MAX_RETRY /\ MAX_RETRY \in Nat
    BY <1>3, <1>4, PipelinesAssumption
  <2>2. retries' = [retries EXCEPT ![t] = k + 1]
    BY <1>1
  <2> HIDE DEF k
  <2>3. k + 1 \in 0 .. MAX_RETRY
    BY <2>1
  <2> QED BY <1>3, <2>2, <2>3
<1>6. /\ \A n \in PairNumbers :
           /\ t = PThread!Producer(n) => ProducerAt(pPcs'[t], pDone[t])
           /\ t = PThread!Consumer(n) => ConsumerAt(pPcs'[t], retries'[t], pDone[t])
      /\ t = PThread!Transmitter => TransmitterAt(pPcs'[t], retries'[t], pTBlock)
      /\ t = PThread!Receiver => ReceiverAt(pPcs'[t], retries'[t], pRBlock)
  BY <1>1, <1>2, <1>3, PtNames DEF PtInv, PtAt, ProducerAt, ConsumerAt, TransmitterAt, ReceiverAt, Getting, Putting
<1>7. t = PThread!Transmitter => (pPcs'[t] \in {"check", "done"} <=> pPcs[t] \in {"check", "done"})
  BY <1>1, <1>2, <1>3
<1> QED BY <1>1, <1>2, <1>3, <1>5, <1>6, <1>7 DEF Quiet

\* The test of the inner loop of the transmitter moves no message.
LEMMA InnerQuiet == ASSUME PtInv, NEW t \in PThread!Threads, PThread!InnerTest(t) PROVE Quiet(t)
<1>1. /\ UNCHANGED <<pGoal, pQueue, pDone, pRBlock, pTBlock, retries>> /\ pPcs[t] = "inner"
      /\ \/ pPcs' = [pPcs EXCEPT ![t] = "put"]
         \/ pPcs' = [pPcs EXCEPT ![t] = "get"] /\ retries[t] < MAX_RETRY /\ Len(pTBlock) < BlockSize
  BY DEF PThread!InnerTest, PThread!ptArgs, PThread!ptWork
<1>2. PICK next : next \in PtPcs /\ pPcs' = [pPcs EXCEPT ![t] = next]
                  /\ (next = "put" \/ (next = "get" /\ retries[t] < MAX_RETRY /\ Len(pTBlock) < BlockSize))
  BY <1>1 DEF PtPcs, Getting, Putting
<1>3. pPcs'[t] = next /\ retries \in [PThread!Threads -> 0 .. MAX_RETRY]
  BY <1>2, PcMoves DEF PtInv, PtTypes
<1>4. t = PThread!Transmitter
  <2>1. \A n \in PairNumbers : t # PThread!Producer(n) /\ t # PThread!Consumer(n)
    BY <1>1 DEF PtInv, PtAt, ProducerAt, ConsumerAt, Putting, Getting
  <2>2. t # PThread!Receiver
    BY <1>1 DEF PtInv, PtAt, ReceiverAt, Putting, Getting
  <2> QED BY <2>1, <2>2, PtNames
<1>5. TransmitterAt(pPcs'[t], retries[t], pTBlock) /\ (pPcs'[t] \in {"check", "done"} <=> pPcs[t] \in {"check", "done"})
  BY <1>1, <1>2, <1>3 DEF TransmitterAt, Getting, Putting
<1> QED BY <1>1, <1>2, <1>3, <1>4, <1>5, PtNames DEF Quiet

\* The test of the outer loop moves none.
LEMMA CheckQuiet == ASSUME PtInv, NEW t \in PThread!Threads, PThread!Check(t) PROVE Quiet(t)
<1>1. /\ UNCHANGED <<pGoal, pQueue, pDone, pRBlock, retries>> /\ pPcs[t] = "check"
  BY DEF PThread!Check, PThread!CheckProducer, PThread!CheckConsumer, PThread!CheckReceiver, PThread!CheckTransmitter,
         PThread!CheckOf, PThread!ptArgs
<1>2. retries \in [PThread!Threads -> 0 .. MAX_RETRY]
  BY DEF PtInv, PtTypes
<1>3. PICK next : /\ next \in PtPcs /\ pPcs' = [pPcs EXCEPT ![t] = next]
                  /\ \/ t \in PThread!Producers /\ (next = "done" \/ (next = "put" /\ pDone[t] < pGoal)) /\ pTBlock' = pTBlock
                     \/ t \in PThread!Consumers /\ pTBlock' = pTBlock
                        /\ (next = "done" \/ (next = "get" /\ pDone[t] < pGoal /\ retries[t] < MAX_RETRY))
                     \/ t = PThread!Receiver /\ (next = "done" \/ (next = "get" /\ retries[t] < MAX_RETRY)) /\ pTBlock' = pTBlock
                     \/ t = PThread!Transmitter /\ (next = "done" \/ next = "inner")
                        /\ pTBlock' = IF pPcs'[t] = "inner" THEN <<>> ELSE pTBlock
  <2>1. "done" \in PtPcs /\ "put" \in PtPcs /\ "get" \in PtPcs /\ "inner" \in PtPcs
    BY DEF PtPcs, Getting, Putting
  <2>2. CASE PThread!CheckProducer(t)
    BY <2>1, <2>2 DEF PThread!CheckProducer, PThread!CheckOf, PThread!Works
  <2>3. CASE PThread!CheckConsumer(t)
    BY <2>1, <2>3 DEF PThread!CheckConsumer, PThread!CheckOf, PThread!Works
  <2>4. CASE PThread!CheckReceiver(t)
    BY <2>1, <2>4 DEF PThread!CheckReceiver, PThread!CheckOf
  <2>5. CASE PThread!CheckTransmitter(t)
    BY <2>1, <2>5 DEF PThread!CheckTransmitter, PThread!CheckOf
  <2> QED BY <2>2, <2>3, <2>4, <2>5 DEF PThread!Check
<1>4. pPcs'[t] = next
  BY <1>3, PcMoves
<1>5. ASSUME NEW n \in PairNumbers
      PROVE  /\ t = PThread!Producer(n) => ProducerAt(pPcs'[t], pDone[t])
             /\ t = PThread!Consumer(n) => ConsumerAt(pPcs'[t], retries[t], pDone[t])
  <2>1. ASSUME t = PThread!Producer(n) PROVE ProducerAt(pPcs'[t], pDone[t])
    <3>1. next = "done" \/ (next = "put" /\ pDone[t] < pGoal)
      BY <1>3, <2>1, PtNames
    <3> QED BY <1>4, <3>1 DEF ProducerAt, Putting
  <2>2. ASSUME t = PThread!Consumer(n) PROVE ConsumerAt(pPcs'[t], retries[t], pDone[t])
    <3>1. next = "done" \/ (next = "get" /\ pDone[t] < pGoal /\ retries[t] < MAX_RETRY)
      BY <1>3, <2>2, PtNames
    <3> QED BY <1>4, <3>1 DEF ConsumerAt, Getting
  <2> QED BY <2>1, <2>2
<1>6. t = PThread!Transmitter =>
        /\ next \in {"done", "inner"} /\ TransmitterAt(pPcs'[t], retries[t], pTBlock')
        /\ (pPcs'[t] \in {"check", "done"} <=> pPcs[t] \in {"check", "done"}) \/ pTBlock' = <<>>
  BY <1>1, <1>3, <1>4, PtNames DEF TransmitterAt
<1>7. pTBlock' = pTBlock \/ (t = PThread!Transmitter /\ pPcs[t] = "check" /\ pPcs'[t] = "inner" /\ pTBlock' = <<>>)
  BY <1>1, <1>3, <1>4
<1>8. t = PThread!Receiver => ReceiverAt(pPcs'[t], retries[t], pRBlock)
  <2> SUFFICES ASSUME t = PThread!Receiver PROVE ReceiverAt(pPcs'[t], retries[t], pRBlock)
    OBVIOUS
  <2>1. pRBlock = <<>>
    BY <1>1 DEF PtInv, PtAt, ReceiverAt, Getting, Putting
  <2>2. next = "done" \/ (next = "get" /\ retries[t] < MAX_RETRY)
    BY <1>3, PtNames
  <2> QED BY <1>4, <2>1, <2>2 DEF ReceiverAt, Getting
<1> QED BY <1>1, <1>2, <1>3, <1>5, <1>6, <1>7, <1>8 DEF Quiet

\* A step of a thread is one of these.
LEMMA PtStep ==
  ASSUME PtInv, NEW t \in PThread!Threads, PThread!Step(t)
  PROVE  Quiet(t) \/ GetsNow(t) \/ PutsNow(t)
<1>1. CASE PThread!q_get(t)
  BY <1>1, WaitsQuietly, GetFacts
<1>2. CASE PThread!q_put(t)
  BY <1>2, WaitsQuietly, PutFacts
<1>3. CASE PThread!TimeOut(t)
  BY <1>3, TimeOutQuiet
<1>4. CASE PThread!InnerTest(t)
  BY <1>4, InnerQuiet
<1>5. CASE PThread!Check(t)
  BY <1>5, CheckQuiet
<1> QED BY <1>1, <1>2, <1>3, <1>4, <1>5 DEF PThread!Step

\* Each step of the program keeps the invariant.
LEMMA PtInvNext == PtInv /\ PThread!Next => PtInv'
<1> SUFFICES ASSUME PtInv, PThread!Next PROVE PtInv'
  OBVIOUS
<1>1. CASE PThread!BossStep
  <2>1. UNCHANGED <<pGoal, pQueue, pPcs, retries, pDone, pTBlock, pRBlock>>
    BY <1>1 DEF PThread!BossStep, PThread!ptArgs, PThread!ptWork
  <2> QED BY <2>1 DEF PtInv, PtTypes, PtAt, ProducerAt, ConsumerAt, TransmitterAt, ReceiverAt
<1>2. ASSUME NEW t \in PThread!Threads, PThread!Step(t) PROVE PtInv'
  BY <1>2, PtStep, PtQuiet, PtGets, PtPuts
<1> QED BY <1>1, <1>2 DEF PThread!Next

-----------------------------------------------------------------------------
(* The pipeline on condition variables: the messages of pair n on their way.*)

\* The helpers of PThree are those of this module.
LEMMA PtOf == \A n, s : PThread!Of(n, s) = Of(n, s)
BY DEF PThread!Of, Of
\* Its FlattenSeq is that of this module.
LEMMA PtFlat == \A s : PThread!FlattenSeq(s) = FlattenSeq(s)
BY DEF PThread!FlattenSeq, FlattenSeq

\* What is packed of the block b when the transmitter is at this statement.
PackOf(at, b) == IF at \in {"inner"} \cup Getting \cup Putting THEN b ELSE <<>>
\* The messages of pair n in the places of the pipeline on condition variables.
PtQ(n) == Of(n, pQueue[R2cq(n)])
PtB(n) == Of(n, pRBlock)
PtT(n) == Of(n, FlattenSeq(pQueue[T2rq]))
PtP(n) == Of(n, PThread!Packing)
PtM(n) == Of(n, pQueue[P2tq])
PtPlaces(n) == Cat(PtQ(n), Cat(PtB(n), Cat(PtT(n), Cat(PtP(n), PtM(n)))))
PtNow ==
  \A n \in PairNumbers :
    /\ PtQ(n) = Of(n, pQueue[R2cq(n)]) /\ PtB(n) = Of(n, pRBlock)
    /\ PtT(n) = Of(n, FlattenSeq(pQueue[T2rq]))
    /\ PtP(n) = Of(n, PackOf(pPcs[PThread!Transmitter], pTBlock))
    /\ PtM(n) = Of(n, pQueue[P2tq])
\* Each place in terms of the variables.
LEMMA PtAre == PtNow
<1>1. PThread!Packing = PackOf(pPcs[PThread!Transmitter], pTBlock)
  BY DEF PThread!Packing, PackOf, Getting, Putting
<1> QED BY <1>1 DEF PtNow, PtQ, PtB, PtT, PtP, PtM

PtHold ==
  PtInv =>
    /\ pRBlock \in Seq(PairMessages) /\ PackOf(pPcs[PThread!Transmitter], pTBlock) \in Seq(PairMessages)
    /\ pQueue[T2rq] \in Seq(Seq(PairMessages)) /\ FlattenSeq(pQueue[T2rq]) \in Seq(PairMessages)
    /\ pQueue[P2tq] \in Seq(PairMessages)
    /\ \A n \in PairNumbers : pQueue[R2cq(n)] \in Seq(PairMessages)
    /\ \A n \in PairNumbers :
         /\ PtQ(n) \in Seq(PairMessages) /\ PtB(n) \in Seq(PairMessages) /\ PtT(n) \in Seq(PairMessages)
         /\ PtP(n) \in Seq(PairMessages) /\ PtM(n) \in Seq(PairMessages)
\* The places hold messages.
LEMMA PtHolds == PtHold
<1> SUFFICES ASSUME PtInv
             PROVE  /\ pRBlock \in Seq(PairMessages) /\ PackOf(pPcs[PThread!Transmitter], pTBlock) \in Seq(PairMessages)
                    /\ pQueue[T2rq] \in Seq(Seq(PairMessages)) /\ FlattenSeq(pQueue[T2rq]) \in Seq(PairMessages)
                    /\ pQueue[P2tq] \in Seq(PairMessages)
                    /\ \A n \in PairNumbers : pQueue[R2cq(n)] \in Seq(PairMessages)
                    /\ \A n \in PairNumbers :
                         /\ PtQ(n) \in Seq(PairMessages) /\ PtB(n) \in Seq(PairMessages) /\ PtT(n) \in Seq(PairMessages)
                         /\ PtP(n) \in Seq(PairMessages) /\ PtM(n) \in Seq(PairMessages)
  BY DEF PtHold
<1> DEFINE M == PairMessages
<1>1. /\ pQueue[T2rq] \in Seq(Blocks) /\ pQueue[P2tq] \in Seq(M)
      /\ \A n \in PairNumbers : pQueue[R2cq(n)] \in Seq({n} \X Nat)
  BY PtQueueNames DEF PtInv, PtTypes
<1>2. pRBlock \in Seq(M) /\ pTBlock \in Seq(M) /\ pQueue[T2rq] \in Seq(Seq(M))
      /\ \A n \in PairNumbers : pQueue[R2cq(n)] \in Seq(M)
  BY <1>1, KindsOfMessages DEF PtInv, PtTypes, Blocks
<1>3. PackOf(pPcs[PThread!Transmitter], pTBlock) \in Seq(M)
  BY <1>2 DEF PackOf
<1>4. FlattenSeq(pQueue[T2rq]) \in Seq(M)
  BY <1>2, FlatSeq
<1>5. \A n : \A s \in Seq(M) : Of(n, s) \in Seq(M)
  BY OfSeq
<1> HIDE DEF M
<1>6. \A n \in PairNumbers :
        /\ PtQ(n) \in Seq(M) /\ PtB(n) \in Seq(M) /\ PtT(n) \in Seq(M)
        /\ PtP(n) \in Seq(M) /\ PtM(n) \in Seq(M)
  BY <1>1, <1>2, <1>3, <1>4, <1>5, PtAre DEF PtNow
<1> QED BY <1>1, <1>2, <1>3, <1>4, <1>6 DEF M

\* The same after a step.
LEMMA PtThen == PtNow /\ PtNow' /\ PtHold /\ PtHold'
<1>1. PtNow'
  BY PtAre, PTL
<1>2. PtHold'
  BY PtHolds, PTL
<1> QED BY <1>1, <1>2, PtAre, PtHolds

\* What is on its way is what the places hold.
LEMMA PtTransit == ASSUME PtInv, NEW n \in PairNumbers PROVE PThread!InTransit(n) = PtPlaces(n)
<1> DEFINE a == pQueue[R2cq(n)]
           b == pRBlock
           c == FlattenSeq(pQueue[T2rq])
           d == PThread!Packing
           e == pQueue[P2tq]
           M == PairMessages
<1>1. d = PackOf(pPcs[PThread!Transmitter], pTBlock)
  BY DEF PThread!Packing, PackOf, Getting, Putting
<1>2. a \in Seq(M) /\ b \in Seq(M) /\ c \in Seq(M) /\ d \in Seq(M) /\ e \in Seq(M)
  BY <1>1, PtHolds DEF PtHold
<1>3. PThread!InTransit(n) = Of(n, a \o b \o c \o d \o e)
  BY PtFlat, PtOf DEF PThread!InTransit, R2cq, T2rq, P2tq
<1>4. PtPlaces(n) = Cat(Of(n, a), Cat(Of(n, b), Cat(Of(n, c), Cat(Of(n, d), Of(n, e)))))
  BY DEF PtPlaces, PtQ, PtB, PtT, PtP, PtM
<1> HIDE DEF a, b, c, d, e, M
<1> DEFINE L2 == Cat(a, b)
           L3 == Cat(L2, c)
           L4 == Cat(L3, d)
           R4 == Cat(Of(n, d), Of(n, e))
           R3 == Cat(Of(n, c), R4)
           R2 == Cat(Of(n, b), R3)
<1>5. /\ L2 = Cat(a, b) /\ L3 = Cat(L2, c) /\ L4 = Cat(L3, d)
      /\ R4 = Cat(Of(n, d), Of(n, e)) /\ R3 = Cat(Of(n, c), R4) /\ R2 = Cat(Of(n, b), R3)
  OBVIOUS
<1>6. a \o b \o c \o d \o e = Cat(L4, e)
  BY DEF Cat
<1>7. PtPlaces(n) = Cat(Of(n, a), R2)
  BY <1>4
<1> HIDE DEF L2, L3, L4, R2, R3, R4
<1>8. \A x, y \in Seq(M) : Cat(x, y) \in Seq(M)
  BY CatFacts
<1>9. \A s \in Seq(M) : Of(n, s) \in Seq(M)
  BY OfSeq
<1>10. L2 \in Seq(M) /\ L3 \in Seq(M) /\ L4 \in Seq(M)
  BY <1>2, <1>5, <1>8
<1>11. R4 \in Seq(M) /\ R3 \in Seq(M) /\ R2 \in Seq(M)
  BY <1>2, <1>5, <1>8, <1>9
<1>12. \A s, t, r \in Seq(M) : Cat(Of(n, Cat(s, t)), r) = Cat(Of(n, s), Cat(Of(n, t), r))
  BY OfMore
<1>13. Of(n, Cat(L4, e)) = Cat(Of(n, L4), Of(n, e))
  BY <1>2, <1>10, OfCats
<1>14. Cat(Of(n, L4), Of(n, e)) = Cat(Of(n, L3), R4)
  BY <1>2, <1>5, <1>9, <1>10, <1>12
<1>15. Cat(Of(n, L3), R4) = Cat(Of(n, L2), R3)
  BY <1>2, <1>5, <1>10, <1>11, <1>12
<1>16. Cat(Of(n, L2), R3) = Cat(Of(n, a), R2)
  BY <1>2, <1>5, <1>10, <1>11, <1>12
<1> QED BY <1>3, <1>6, <1>7, <1>13, <1>14, <1>15, <1>16

\* A message that moves between two neighbouring places leaves the whole.
PtKept(n) ==
  \/ Cat(PtQ(n)', PtB(n)') = Cat(PtQ(n), PtB(n)) /\ UNCHANGED <<PtT(n), PtP(n), PtM(n)>>
  \/ Cat(PtB(n)', PtT(n)') = Cat(PtB(n), PtT(n)) /\ UNCHANGED <<PtQ(n), PtP(n), PtM(n)>>
  \/ Cat(PtT(n)', PtP(n)') = Cat(PtT(n), PtP(n)) /\ UNCHANGED <<PtQ(n), PtB(n), PtM(n)>>
  \/ Cat(PtP(n)', PtM(n)') = Cat(PtP(n), PtM(n)) /\ UNCHANGED <<PtQ(n), PtB(n), PtT(n)>>
\* So it stays the same in each of the ways a message moves.
LEMMA PtPlacesKept ==
  ASSUME NEW n \in PairNumbers, PtInv, PtInv', PtKept(n)
  PROVE  PtPlaces(n)' = PtPlaces(n)
<1> DEFINE K == Seq(PairMessages)
           a == PtQ(n)
           b == PtB(n)
           c == PtT(n)
           d == PtP(n)
           e == PtM(n)
           a1 == PtQ(n)'
           b1 == PtB(n)'
           c1 == PtT(n)'
           d1 == PtP(n)'
           e1 == PtM(n)'
           e2 == Cat(d, e)
           d2 == Cat(c, e2)
           c2 == Cat(b, d2)
<1>1. a \in K /\ b \in K /\ c \in K /\ d \in K /\ e \in K
  BY PtHolds DEF PtHold
<1>2. a1 \in K /\ b1 \in K /\ c1 \in K /\ d1 \in K /\ e1 \in K
  BY PtThen DEF PtHold
<1>3. e2 = Cat(d, e) /\ d2 = Cat(c, e2) /\ c2 = Cat(b, d2)
  OBVIOUS
<1>4. PtPlaces(n) = Cat(a, c2)
  BY DEF PtPlaces
<1>5. PtPlaces(n)' = Cat(a1, Cat(b1, Cat(c1, Cat(d1, e1))))
  BY DEF PtPlaces
<1>6. \/ Cat(a1, b1) = Cat(a, b) /\ c1 = c /\ d1 = d /\ e1 = e
      \/ Cat(b1, c1) = Cat(b, c) /\ a1 = a /\ d1 = d /\ e1 = e
      \/ Cat(c1, d1) = Cat(c, d) /\ a1 = a /\ b1 = b /\ e1 = e
      \/ Cat(d1, e1) = Cat(d, e) /\ a1 = a /\ b1 = b /\ c1 = c
  BY DEF PtKept
<1>7. \A x, y, v, w, r \in K : Cat(x, y) = Cat(v, w) => Cat(x, Cat(y, r)) = Cat(v, Cat(w, r))
  BY CatMoved
<1>8. \A x, y \in K : Cat(x, y) \in K
  BY CatFacts
<1> HIDE DEF K, a, b, c, d, e, a1, b1, c1, d1, e1, c2, d2, e2
<1>9. e2 \in K /\ d2 \in K
  BY <1>1, <1>3, <1>8
<1>10. CASE Cat(a1, b1) = Cat(a, b) /\ c1 = c /\ d1 = d /\ e1 = e
  BY <1>1, <1>2, <1>3, <1>4, <1>5, <1>7, <1>9, <1>10
<1>11. CASE Cat(b1, c1) = Cat(b, c) /\ a1 = a /\ d1 = d /\ e1 = e
  BY <1>1, <1>2, <1>3, <1>4, <1>5, <1>7, <1>9, <1>11
<1>12. CASE Cat(c1, d1) = Cat(c, d) /\ a1 = a /\ b1 = b /\ e1 = e
  BY <1>1, <1>2, <1>3, <1>4, <1>5, <1>7, <1>9, <1>12
<1>13. CASE Cat(d1, e1) = Cat(d, e) /\ a1 = a /\ b1 = b /\ c1 = c
  BY <1>3, <1>4, <1>5, <1>13
<1> QED BY <1>6, <1>10, <1>11, <1>12, <1>13

\* What is on its way of pair n is what its producer has put and its consumer has not got.
PtOnWay(n) ==
  /\ pDone[PThread!Consumer(n)] <= pDone[PThread!Producer(n)]
  /\ PtPlaces(n) = Numbers(n, pDone[PThread!Consumer(n)], pDone[PThread!Producer(n)])
PtDelivery == \A n \in PairNumbers : PtOnWay(n)

\* A transmitter that is woken up has packed the same.
LEMMA PackWoken ==
  \A x, y : Woken(x, y) => \A b : PackOf(y, b) = PackOf(x, b)
BY DEF Woken, PackOf, Getting, Putting
\* What the transmitter has packed, by its statement.
LEMMA PackAt ==
  \A x \in PtPcs : \A b : PackOf(x, b) = IF x \in {"check", "done"} THEN <<>> ELSE b
BY DEF PtPcs, PackOf, Getting, Putting

\* Places that hold the same, for the same counts.
LEMMA PtSame ==
  ASSUME NEW n \in PairNumbers, PtInv, PtInv', PtOnWay(n), PtKept(n),
         pDone'[PThread!Consumer(n)] = pDone[PThread!Consumer(n)],
         pDone'[PThread!Producer(n)] = pDone[PThread!Producer(n)]
  PROVE  PtOnWay(n)'
<1>1. PtPlaces(n)' = PtPlaces(n)
  BY PtPlacesKept
<1> QED BY <1>1 DEF PtOnWay, Numbers

\* Steps that move no message leave what is on its way.
LEMMA QuietDelivers ==
  ASSUME PtInv, PtInv', PtDelivery, NEW t \in PThread!Threads, Quiet(t)
  PROVE  PtDelivery'
<1> SUFFICES ASSUME NEW n \in PairNumbers PROVE PtOnWay(n)'
  BY DEF PtDelivery
<1>1. PtNow /\ PtNow'
  BY PtThen
<1>2. UNCHANGED <<pQueue, pRBlock, pDone>> /\ PtOnWay(n)
  BY DEF Quiet, PtDelivery
<1> DEFINE r == PThread!Transmitter
<1>3. PICK next \in PtPcs : pPcs' = [pPcs EXCEPT ![t] = next]
  BY DEF Quiet
<1>4. /\ pPcs'[t] = next /\ \A u \in PThread!Threads \ {t} : pPcs'[u] = pPcs[u]
      /\ r \in PThread!Threads /\ pPcs[r] \in PtPcs /\ pPcs'[r] \in PtPcs
  BY <1>3, PcMoves, PtNames DEF PtInv, PtTypes, PtPcs
<1>5. PackOf(pPcs'[r], pTBlock') = PackOf(pPcs[r], pTBlock)
  <2>1. CASE t # r
    BY <1>4, <2>1 DEF Quiet
  <2>2. CASE t = r
    <3>1. /\ pTBlock' = pTBlock \/ (pPcs[r] = "check" /\ pTBlock' = <<>>)
          /\ (pPcs'[r] \in {"check", "done"} <=> pPcs[r] \in {"check", "done"}) \/ pTBlock' = <<>>
      BY <2>2 DEF Quiet
    <3>2. /\ PackOf(pPcs'[r], pTBlock') = IF pPcs'[r] \in {"check", "done"} THEN <<>> ELSE pTBlock'
          /\ PackOf(pPcs[r], pTBlock) = IF pPcs[r] \in {"check", "done"} THEN <<>> ELSE pTBlock
      BY <1>4, PackAt
    <3> QED BY <3>1, <3>2
  <2> QED BY <2>1, <2>2
<1>6. UNCHANGED <<PtQ(n), PtB(n), PtT(n), PtP(n), PtM(n)>>
  BY <1>1, <1>2, <1>5 DEF PtNow
<1>7. PtKept(n)
  BY <1>6 DEF PtKept
<1> QED BY <1>2, <1>7, PtSame

\* Of a step, what it leaves of the places.
LEMMA PtUnmoved ==
  ASSUME NEW n \in PairNumbers, PtNow, PtNow'
  PROVE  /\ pQueue'[R2cq(n)] = pQueue[R2cq(n)] => PtQ(n)' = PtQ(n)
         /\ pRBlock' = pRBlock => PtB(n)' = PtB(n)
         /\ pQueue'[T2rq] = pQueue[T2rq] => PtT(n)' = PtT(n)
         /\ Woken(pPcs[PThread!Transmitter], pPcs'[PThread!Transmitter]) /\ pTBlock' = pTBlock => PtP(n)' = PtP(n)
         /\ pQueue'[P2tq] = pQueue[P2tq] => PtM(n)' = PtM(n)
BY PackWoken DEF PtNow

GetFrom(t, q) ==
  /\ pPcs[t] = "get" /\ pQueue[q] # <<>> /\ pQueue'[q] = Tail(pQueue[q])
  /\ \A r \in PThread!Queues : r # q => pQueue'[r] = pQueue[r]
  /\ pPcs'[t] = PThread!NextAfterGet(t, Head(pQueue[q]))
  /\ \A u \in PThread!Threads \ {t} : Woken(pPcs[u], pPcs'[u])
  /\ pDone' = IF t \in PThread!Consumers THEN [pDone EXCEPT ![t] = @ + 1] ELSE pDone
  /\ pTBlock' = IF t = PThread!Transmitter THEN Append(pTBlock, Head(pQueue[q])) ELSE pTBlock
  /\ pRBlock' = IF t = PThread!Receiver THEN Head(pQueue[q]) ELSE pRBlock
\* A get in terms of its queue.
LEMMA GetsFrom == ASSUME PtInv, NEW t \in PThread!Threads, GetsNow(t) PROVE GetFrom(t, PThread!Source(t))
<1>1. pQueue = [x \in PThread!Queues |-> pQueue[x]]
  BY DEF PtInv, PtTypes
<1> QED BY <1>1 DEF GetsNow, GetFrom

PutInto(t, q, m) ==
  /\ pPcs[t] = "put" /\ pQueue'[q] = Append(pQueue[q], m)
  /\ \A r \in PThread!Queues : r # q => pQueue'[r] = pQueue[r]
  /\ pPcs'[t] = PThread!NextAfterPut(t)
  /\ \A u \in PThread!Threads \ {t} : Woken(pPcs[u], pPcs'[u])
  /\ pDone' = IF t \in PThread!Producers THEN [pDone EXCEPT ![t] = @ + 1] ELSE pDone
  /\ pTBlock' = pTBlock
  /\ pRBlock' = IF t = PThread!Receiver THEN Tail(pRBlock) ELSE pRBlock
\* A put in terms of its queue.
LEMMA PutsInto ==
  ASSUME PtInv, NEW t \in PThread!Threads, PutsNow(t) PROVE PutInto(t, PThread!Target(t), PThread!MessageOf(t))
<1>1. pQueue = [x \in PThread!Queues |-> pQueue[x]]
  BY DEF PtInv, PtTypes
<1> QED BY <1>1 DEF PutsNow, PutInto

\* A consumer gets the message with the lowest number.
LEMMA ConsumerGets ==
  ASSUME PtInv, PtInv', PtDelivery, NEW m \in PairNumbers, GetFrom(PThread!Consumer(m), R2cq(m))
  PROVE  PtDelivery'
<1> SUFFICES ASSUME NEW n \in PairNumbers PROVE PtOnWay(n)'
  BY DEF PtDelivery
<1> DEFINE t == PThread!Consumer(m)
           q == R2cq(m)
           s == pQueue[q]
           a == pDone[t]
           b == pDone[PThread!Producer(n)]
<1>1. PtNow /\ PtNow' /\ PtHold /\ PtHold' /\ PtOnWay(n)
  BY PtThen DEF PtDelivery
<1>2. /\ s # <<>> /\ pQueue'[q] = Tail(s) /\ \A r \in PThread!Queues : r # q => pQueue'[r] = pQueue[r]
      /\ \A u \in PThread!Threads \ {t} : Woken(pPcs[u], pPcs'[u])
      /\ pDone' = [pDone EXCEPT ![t] = @ + 1] /\ pTBlock' = pTBlock /\ pRBlock' = pRBlock
  BY PtNames DEF GetFrom
<1>3. UNCHANGED <<PtB(n), PtT(n), PtP(n), PtM(n)>>
  BY <1>1, <1>2, PtUnmoved, PtNames, PtQueueNames
<1>4. /\ pDone \in [PThread!Producers \cup PThread!Consumers -> Nat] /\ a \in Nat /\ b \in Nat
      /\ pDone'[t] = a + 1 /\ pDone'[PThread!Producer(n)] = b
      /\ n # m => pDone'[PThread!Consumer(n)] = pDone[PThread!Consumer(n)]
  <2>1. pDone \in [PThread!Producers \cup PThread!Consumers -> Nat]
    BY DEF PtInv, PtTypes
  <2> QED BY <1>2, <2>1, PtNames
<1>5. CASE n # m
  <2>1. pQueue'[R2cq(n)] = pQueue[R2cq(n)]
    BY <1>2, <1>5, PtNames, PtQueueNames
  <2>2. PtQ(n)' = PtQ(n)
    BY <1>1, <2>1, PtUnmoved
  <2>3. PtKept(n)
    BY <1>3, <2>2 DEF PtKept
  <2> QED BY <1>1, <1>4, <1>5, <2>3, PtSame
<1>6. CASE n = m
  <2> DEFINE h == Head(s)
             u == Of(n, Tail(s))
             r == Cat(PtB(n), Cat(PtT(n), Cat(PtP(n), PtM(n))))
             M == Seq(PairMessages)
  <2>1. s \in M /\ s \in Seq({n} \X Nat)
    BY <1>1, <1>6, PtQueueNames DEF PtHold, PtInv, PtTypes
  <2>2. h \in PairMessages /\ h[1] = n
    <3>1. \A x \in {n} \X Nat : x \in PairMessages /\ x[1] = n
      BY DEF PairMessages
    <3> HIDE DEF s
    <3>2. Head(s) \in {n} \X Nat
      BY <1>2, <2>1
    <3> QED BY <3>1, <3>2
  <2>3. PtQ(n) = Cat(<<h>>, u)
    <3>1. PtQ(n) = Of(n, s)
      BY <1>1, <1>6 DEF PtNow
    <3>2. Of(n, <<h>>) = <<h>>
      BY <2>2, OfOne
    <3> HIDE DEF s
    <3>3. Of(n, s) = Cat(Of(n, <<Head(s)>>), Of(n, Tail(s)))
      BY <1>2, <2>1, OfSplit
    <3> QED BY <3>1, <3>2, <3>3
  <2>4. PtQ(n)' = u
    BY <1>1, <1>2, <1>6 DEF PtNow
  <2>5. u \in M /\ r \in M
    <3>1. \A x, y \in M : Cat(x, y) \in M
      BY CatFacts
    <3>2. PtQ(n)' \in M /\ PtB(n) \in M /\ PtT(n) \in M /\ PtP(n) \in M /\ PtM(n) \in M
      BY <1>1 DEF PtHold
    <3> HIDE DEF M, u
    <3> QED BY <2>4, <3>1, <3>2
  <2>6. PtPlaces(n) = Cat(Cat(<<h>>, u), r) /\ PtPlaces(n)' = Cat(u, r)
    BY <1>3, <2>3, <2>4 DEF PtPlaces
  <2> HIDE DEF r, u, h
  <2>7. Cat(Cat(<<h>>, u), r) = Cat(<<h>>, Cat(u, r))
    <3> DEFINE e == <<h>>
    <3>1. e \in M
      BY <2>2
    <3> HIDE DEF e
    <3>2. \A x, y, z \in M : Cat(Cat(x, y), z) = Cat(x, Cat(y, z))
      BY Associative DEF Cat
    <3>3. Cat(Cat(e, u), r) = Cat(e, Cat(u, r))
      BY <2>5, <3>1, <3>2
    <3> QED BY <3>3 DEF e
  <2> DEFINE v == Cat(u, r)
  <2>8. v \in M
    BY <2>5, CatFacts
  <2>9. a <= b /\ Numbers(n, a, b) = Cat(<<h>>, v)
    BY <1>1, <1>6, <2>6, <2>7 DEF PtOnWay
  <2>12. PtPlaces(n)' = v
    BY <2>6
  <2> HIDE DEF v, a, b
  <2>10. a + 1 <= b /\ v = Numbers(n, a + 1, b)
    BY <1>4, <2>2, <2>8, <2>9, NumbersHead
  <2>11. pDone'[PThread!Consumer(n)] = a + 1 /\ pDone'[PThread!Producer(n)] = b
    BY <1>4, <1>6
  <2> QED BY <2>10, <2>11, <2>12 DEF PtOnWay, Numbers
<1> QED BY <1>5, <1>6

\* The transmitter moves a message from p2tq into its block.
LEMMA TransmitterGets ==
  ASSUME PtInv, PtInv', PtDelivery, GetFrom(PThread!Transmitter, P2tq)
  PROVE  PtDelivery'
<1> SUFFICES ASSUME NEW n \in PairNumbers PROVE PtOnWay(n)'
  BY DEF PtDelivery
<1> DEFINE t == PThread!Transmitter
           s == pQueue[P2tq]
           h == Head(s)
           c == pTBlock
           M == Seq(PairMessages)
<1>1. PtNow /\ PtNow' /\ PtHold /\ PtHold' /\ PtOnWay(n)
  BY PtThen DEF PtDelivery
<1>2. /\ pPcs[t] = "get" /\ pPcs'[t] = "inner"
      /\ s # <<>> /\ pQueue'[P2tq] = Tail(s) /\ \A r \in PThread!Queues : r # P2tq => pQueue'[r] = pQueue[r]
      /\ pDone' = pDone /\ pTBlock' = Append(c, h) /\ pRBlock' = pRBlock
  BY PtNames DEF GetFrom, PThread!NextAfterGet
<1>3. UNCHANGED <<PtQ(n), PtB(n), PtT(n)>>
  BY <1>1, <1>2, PtUnmoved, PtQueueNames
<1>4. PtP(n) = Of(n, c) /\ PtP(n)' = Of(n, Append(c, h)) /\ PtM(n) = Of(n, s) /\ PtM(n)' = Of(n, Tail(s))
  BY <1>1, <1>2 DEF PtNow, PackOf, Getting
<1>5. c \in M /\ s \in M /\ s # <<>>
  BY <1>1, <1>2 DEF PtHold, PackOf, Getting
<1> HIDE DEF c, s, h
<1>6. h \in PairMessages /\ Tail(s) \in M
  BY <1>5 DEF h
<1>7. Cat(Of(n, Append(c, h)), Of(n, Tail(s))) = Cat(Of(n, c), Of(n, s))
  <2> DEFINE u == <<h>>
             k == Tail(s)
  <2>1. u \in M /\ Append(c, h) = Cat(c, u)
    BY <1>5, <1>6 DEF Cat
  <2>2. Of(n, s) = Cat(Of(n, u), Of(n, k))
    BY <1>5, OfSplit DEF h
  <2>3. k \in M
    BY <1>6
  <2> HIDE DEF u, k, M
  <2>4. \A x, y, z \in M : Cat(Of(n, Cat(x, y)), z) = Cat(Of(n, x), Cat(Of(n, y), z))
    BY OfMore DEF M
  <2>5. Of(n, k) \in M
    BY <2>3, OfSeq DEF M
  <2>6. Cat(Of(n, Cat(c, u)), Of(n, k)) = Cat(Of(n, c), Cat(Of(n, u), Of(n, k)))
    BY <1>5, <2>1, <2>4, <2>5
  <2> QED BY <2>1, <2>2, <2>6 DEF k
<1>8. PtKept(n)
  BY <1>3, <1>4, <1>7 DEF PtKept
<1> QED BY <1>1, <1>2, <1>8, PtSame

\* The receiver moves a block from t2rq into its own.
LEMMA ReceiverGets ==
  ASSUME PtInv, PtInv', PtDelivery, GetFrom(PThread!Receiver, T2rq)
  PROVE  PtDelivery'
<1> SUFFICES ASSUME NEW n \in PairNumbers PROVE PtOnWay(n)'
  BY DEF PtDelivery
<1> DEFINE t == PThread!Receiver
           s == pQueue[T2rq]
           K == Seq(PairMessages)
<1>1. PtNow /\ PtNow' /\ PtHold /\ PtHold' /\ PtOnWay(n)
  BY PtThen DEF PtDelivery
<1>2. /\ pPcs[t] = "get" /\ s # <<>> /\ pQueue'[T2rq] = Tail(s)
      /\ \A r \in PThread!Queues : r # T2rq => pQueue'[r] = pQueue[r]
      /\ Woken(pPcs[PThread!Transmitter], pPcs'[PThread!Transmitter])
      /\ pDone' = pDone /\ pTBlock' = pTBlock /\ pRBlock' = Head(s)
  BY PtNames DEF GetFrom
<1>3. UNCHANGED <<PtQ(n), PtP(n), PtM(n)>>
  BY <1>1, <1>2, PtUnmoved, PtQueueNames
<1>4. pRBlock = <<>>
  BY <1>2 DEF PtInv, PtAt, ReceiverAt, Putting
<1>5. PtB(n) = <<>> /\ PtB(n)' = Of(n, Head(s)) /\ PtT(n) = Of(n, FlattenSeq(s)) /\ PtT(n)' = Of(n, FlattenSeq(Tail(s)))
  BY <1>1, <1>2, <1>4, OfEmpty DEF PtNow
<1>6. s \in Seq(Seq(PairMessages)) /\ s # <<>>
  BY <1>1, <1>2 DEF PtHold
<1> HIDE DEF s
<1>7. FlattenSeq(s) = Cat(Head(s), FlattenSeq(Tail(s)))
  BY <1>6, FlatHead DEF Cat
<1>8. Head(s) \in K /\ Tail(s) \in Seq(K)
  <2> HIDE DEF K
  <2>1. s \in Seq(K)
    BY <1>6 DEF K
  <2> QED BY <1>6, <2>1
<1>9. FlattenSeq(Tail(s)) \in K
  BY <1>8, FlatSeq
<1> DEFINE h == Head(s)
           r == FlattenSeq(Tail(s))
<1> HIDE DEF h, r
<1>10. Of(n, Cat(h, r)) = Cat(Of(n, h), Of(n, r))
  BY <1>8, <1>9, OfCats DEF h, r
<1>11. Cat(<<>>, Of(n, Cat(h, r))) = Of(n, Cat(h, r))
  <2>1. Cat(h, r) \in K
    BY <1>8, <1>9, CatFacts DEF h, r
  <2>2. Of(n, Cat(h, r)) \in K
    BY <2>1, OfSeq
  <2> QED BY <2>2, CatFacts
<1>12. Cat(PtB(n)', PtT(n)') = Cat(PtB(n), PtT(n))
  BY <1>5, <1>7, <1>10, <1>11 DEF h, r
<1>13. PtKept(n)
  BY <1>3, <1>12 DEF PtKept
<1> QED BY <1>1, <1>2, <1>13, PtSame

\* A producer puts the message with the next number.
LEMMA ProducerPuts ==
  ASSUME PtInv, PtInv', PtDelivery, NEW m \in PairNumbers,
         PutInto(PThread!Producer(m), P2tq, <<m, pDone[PThread!Producer(m)]>>)
  PROVE  PtDelivery'
<1> SUFFICES ASSUME NEW n \in PairNumbers PROVE PtOnWay(n)'
  BY DEF PtDelivery
<1> DEFINE t == PThread!Producer(m)
           s == pQueue[P2tq]
           a == pDone[PThread!Consumer(n)]
           b == pDone[t]
           x == <<m, b>>
           M == Seq(PairMessages)
<1>1. PtNow /\ PtNow' /\ PtHold /\ PtHold' /\ PtOnWay(n)
  BY PtThen DEF PtDelivery
<1>2. /\ pQueue'[P2tq] = Append(s, x) /\ \A r \in PThread!Queues : r # P2tq => pQueue'[r] = pQueue[r]
      /\ \A u \in PThread!Threads \ {t} : Woken(pPcs[u], pPcs'[u])
      /\ pDone' = [pDone EXCEPT ![t] = @ + 1] /\ pTBlock' = pTBlock /\ pRBlock' = pRBlock
  BY PtNames DEF PutInto
<1>3. UNCHANGED <<PtQ(n), PtB(n), PtT(n), PtP(n)>>
  BY <1>1, <1>2, PtUnmoved, PtNames, PtQueueNames
<1>4. /\ a \in Nat /\ b \in Nat /\ pDone'[t] = b + 1 /\ pDone'[PThread!Consumer(n)] = a
      /\ n # m => pDone'[PThread!Producer(n)] = pDone[PThread!Producer(n)]
  <2>1. pDone \in [PThread!Producers \cup PThread!Consumers -> Nat]
    BY DEF PtInv, PtTypes
  <2> QED BY <1>2, <2>1, PtNames
<1>5. s \in M /\ x \in PairMessages /\ x[1] = m /\ x = <<m, b>>
  BY <1>1, <1>4 DEF PtHold, PairMessages
<1>6. PtM(n) = Of(n, s) /\ PtM(n)' = Of(n, Append(s, x))
  BY <1>1, <1>2 DEF PtNow
<1> HIDE DEF s, x
<1>7. Of(n, Append(s, x)) = IF m = n THEN Append(Of(n, s), x) ELSE Of(n, s)
  BY <1>5, OfAppend
<1>8. CASE n # m
  <2>1. UNCHANGED PtM(n)
    BY <1>6, <1>7, <1>8
  <2>2. PtKept(n)
    BY <1>3, <2>1 DEF PtKept
  <2> QED BY <1>1, <1>4, <1>8, <2>2, PtSame
<1>9. CASE n = m
  <2> DEFINE k == Of(n, s)
             r1 == Cat(PtP(n), k)
             r2 == Cat(PtT(n), r1)
             r3 == Cat(PtB(n), r2)
  <2>1. PtPlaces(n) = Cat(PtQ(n), r3)
    BY <1>6 DEF PtPlaces
  <2>2. PtPlaces(n)' = Cat(PtQ(n), Cat(PtB(n), Cat(PtT(n), Cat(PtP(n), Append(k, x)))))
    BY <1>3, <1>6, <1>7, <1>9 DEF PtPlaces
  <2>3. k \in M /\ PtQ(n) \in M /\ PtB(n) \in M /\ PtT(n) \in M /\ PtP(n) \in M
    BY <1>1, <1>6 DEF PtHold
  <2>4. r1 = Cat(PtP(n), k) /\ r2 = Cat(PtT(n), r1) /\ r3 = Cat(PtB(n), r2)
    OBVIOUS
  <2>5. \A y, z \in M : Cat(y, z) \in M /\ \A v \in PairMessages : Cat(y, Append(z, v)) = Append(Cat(y, z), v)
    <3>1. \A y, z \in Seq(PairMessages) : Cat(y, z) \in Seq(PairMessages)
      BY CatFacts
    <3>2. \A y, z \in Seq(PairMessages), v \in PairMessages : Cat(y, Append(z, v)) = Append(Cat(y, z), v)
      BY CatFacts
    <3> QED BY <3>1, <3>2
  <2> HIDE DEF M, k, r1, r2, r3
  <2>6. r1 \in M /\ r2 \in M /\ r3 \in M
    BY <2>3, <2>4, <2>5
  <2>7. PtPlaces(n)' = Append(Cat(PtQ(n), r3), x)
    <3> HIDE DEF x
    <3>1. Cat(PtP(n), Append(k, x)) = Append(r1, x)
      BY <1>5, <2>3, <2>4, <2>5
    <3>2. Cat(PtT(n), Append(r1, x)) = Append(r2, x)
      <4>1. PtT(n) \in M /\ r1 \in M /\ x \in PairMessages
        BY <1>5, <2>3, <2>6
      <4>2. Cat(PtT(n), Append(r1, x)) = Append(Cat(PtT(n), r1), x)
        BY <2>5, <4>1, Zenon
      <4> QED BY <2>4, <4>2, Zenon
    <3>3. Cat(PtB(n), Append(r2, x)) = Append(r3, x)
      <4>1. PtB(n) \in M /\ r2 \in M /\ x \in PairMessages
        BY <1>5, <2>3, <2>6
      <4>2. Cat(PtB(n), Append(r2, x)) = Append(Cat(PtB(n), r2), x)
        BY <2>5, <4>1, Zenon
      <4> QED BY <2>4, <4>2, Zenon
    <3>4. Cat(PtQ(n), Append(r3, x)) = Append(Cat(PtQ(n), r3), x)
      <4>1. PtQ(n) \in M /\ r3 \in M /\ x \in PairMessages
        BY <1>5, <2>3, <2>6
      <4> QED BY <2>5, <4>1, Zenon
    <3> QED BY <2>2, <3>1, <3>2, <3>3, <3>4
  <2>8. PtPlaces(n) = Numbers(n, a, b) /\ a <= b
    BY <1>1, <1>9 DEF PtOnWay
  <2>9. Numbers(n, a, b + 1) = Append(Numbers(n, a, b), <<n, b>>)
    <3>1. \A i \in Nat, j \in Nat : i <= j => Numbers(n, i, j + 1) = Append(Numbers(n, i, j), <<n, j>>)
      BY NumbersAppend
    <3> HIDE DEF a, b
    <3> QED BY <1>4, <2>8, <3>1
  <2>10. PtPlaces(n)' = Numbers(n, a, b + 1)
    BY <1>5, <1>9, <2>1, <2>7, <2>8, <2>9
  <2>11. pDone'[PThread!Consumer(n)] = a /\ pDone'[PThread!Producer(n)] = b + 1 /\ a <= b + 1
    BY <1>4, <1>9, <2>8
  <2> QED BY <2>10, <2>11 DEF PtOnWay, Numbers
<1> QED BY <1>8, <1>9

\* The transmitter moves its block into t2rq.
LEMMA TransmitterPuts ==
  ASSUME PtInv, PtInv', PtDelivery, PutInto(PThread!Transmitter, T2rq, pTBlock)
  PROVE  PtDelivery'
<1> SUFFICES ASSUME NEW n \in PairNumbers PROVE PtOnWay(n)'
  BY DEF PtDelivery
<1> DEFINE t == PThread!Transmitter
           s == pQueue[T2rq]
           f == FlattenSeq(s)
           c == pTBlock
           K == Seq(PairMessages)
<1>1. PtNow /\ PtNow' /\ PtHold /\ PtHold' /\ PtOnWay(n)
  BY PtThen DEF PtDelivery
<1>2. /\ pPcs[t] = "put" /\ pPcs'[t] = "check" /\ pQueue'[T2rq] = Append(s, c)
      /\ \A r \in PThread!Queues : r # T2rq => pQueue'[r] = pQueue[r]
      /\ pDone' = pDone /\ pTBlock' = pTBlock /\ pRBlock' = pRBlock
  BY PtNames DEF PutInto, PThread!NextAfterPut
<1>3. UNCHANGED <<PtQ(n), PtB(n), PtM(n)>>
  BY <1>1, <1>2, PtUnmoved, PtQueueNames
<1>4. s \in Seq(Seq(PairMessages)) /\ f \in K /\ c \in K
  BY <1>1, <1>2 DEF PtHold, PackOf, Putting
<1>5. /\ PtT(n) = Of(n, f) /\ PtP(n) = Of(n, c) /\ PtP(n)' = <<>>
      /\ PtT(n)' = Of(n, FlattenSeq(Append(s, c)))
  BY <1>1, <1>2, OfEmpty DEF PtNow, PackOf, Getting, Putting
<1>6. FlattenSeq(Append(s, c)) = Cat(f, c)
  <2> HIDE DEF s, c
  <2> QED BY <1>4, FlatAppend DEF Cat
<1> HIDE DEF s, f, c
<1>7. Of(n, Cat(f, c)) = Cat(Of(n, f), Of(n, c))
  BY <1>4, OfCats
<1>8. Of(n, Cat(f, c)) \in K
  <2>1. Cat(f, c) \in K
    BY <1>4, CatFacts
  <2> QED BY <2>1, OfSeq
<1>9. Cat(Of(n, Cat(f, c)), <<>>) = Of(n, Cat(f, c))
  BY <1>8, CatFacts
<1>10. Cat(PtT(n)', PtP(n)') = Cat(PtT(n), PtP(n))
  BY <1>5, <1>6, <1>7, <1>9
<1>11. PtKept(n)
  BY <1>3, <1>10 DEF PtKept
<1> QED BY <1>1, <1>2, <1>11, PtSame

\* The receiver moves the first message of its block to its consumer.
LEMMA ReceiverPuts ==
  ASSUME PtInv, PtInv', PtDelivery, PutInto(PThread!Receiver, R2cq(Head(pRBlock)[1]), Head(pRBlock))
  PROVE  PtDelivery'
<1> SUFFICES ASSUME NEW n \in PairNumbers PROVE PtOnWay(n)'
  BY DEF PtDelivery
<1> DEFINE t == PThread!Receiver
           b == pRBlock
           h == Head(b)
           s == pQueue[R2cq(n)]
           K == Seq(PairMessages)
<1>1. PtNow /\ PtNow' /\ PtHold /\ PtHold' /\ PtOnWay(n)
  BY PtThen DEF PtDelivery
<1>2. /\ pPcs[t] = "put" /\ pQueue'[R2cq(h[1])] = Append(pQueue[R2cq(h[1])], h)
      /\ \A r \in PThread!Queues : r # R2cq(h[1]) => pQueue'[r] = pQueue[r]
      /\ Woken(pPcs[PThread!Transmitter], pPcs'[PThread!Transmitter])
      /\ pDone' = pDone /\ pTBlock' = pTBlock /\ pRBlock' = Tail(b)
  BY PtNames DEF PutInto
<1>3. b # <<>> /\ b \in Blocks /\ h[1] \in PairNumbers /\ h \in PairMessages /\ Tail(b) \in Blocks
  <2>1. b # <<>> /\ b \in Blocks
    BY <1>2 DEF PtInv, PtTypes, PtAt, ReceiverAt, Getting
  <2> QED BY <2>1, BlockHead
<1>4. UNCHANGED <<PtT(n), PtP(n), PtM(n)>>
  BY <1>1, <1>2, <1>3, PtUnmoved, PtQueueNames
<1>5. PtB(n) = Of(n, b) /\ PtB(n)' = Of(n, Tail(b)) /\ PtQ(n) = Of(n, s)
  BY <1>1, <1>2 DEF PtNow
<1>6. b \in K /\ Tail(b) \in K /\ s \in K
  BY <1>1, <1>3 DEF PtHold, Blocks
<1>7. Of(n, b) = Cat(Of(n, <<h>>), Of(n, Tail(b)))
  <2> HIDE DEF b
  <2> QED BY <1>3, <1>6, OfSplit DEF h
<1>8. Of(n, <<h>>) = IF h[1] = n THEN <<h>> ELSE <<>>
  BY OfOne
<1>9. PtQ(n)' = IF h[1] = n THEN Append(Of(n, s), h) ELSE Of(n, s)
  <2>1. CASE h[1] = n
    <3>1. pQueue'[R2cq(n)] = Append(s, h)
      BY <1>2, <2>1
    <3> HIDE DEF s, h
    <3>2. Of(n, Append(s, h)) = Append(Of(n, s), h)
      BY <1>3, <1>6, <2>1, OfAppend
    <3> QED BY <1>1, <2>1, <3>1, <3>2 DEF PtNow
  <2>2. CASE h[1] # n
    <3>1. pQueue'[R2cq(n)] = s
      BY <1>2, <1>3, <2>2, PtNames, PtQueueNames
    <3> HIDE DEF h
    <3> QED BY <1>1, <2>2, <3>1 DEF PtNow
  <2> QED BY <2>1, <2>2
<1> HIDE DEF h, s, b
<1>10. Of(n, s) \in K /\ Of(n, Tail(b)) \in K
  BY <1>6, OfSeq
<1>11. Cat(PtQ(n)', PtB(n)') = Cat(PtQ(n), PtB(n))
  <2>1. CASE h[1] = n
    <3>1. Cat(Of(n, s), Cat(<<h>>, Of(n, Tail(b)))) = Cat(Append(Of(n, s), h), Of(n, Tail(b)))
      BY <1>3, <1>10, CatFacts
    <3> QED BY <1>5, <1>7, <1>8, <1>9, <2>1, <3>1
  <2>2. CASE h[1] # n
    <3>1. Cat(<<>>, Of(n, Tail(b))) = Of(n, Tail(b))
      BY <1>10, CatFacts
    <3> QED BY <1>5, <1>7, <1>8, <1>9, <2>2, <3>1
  <2> QED BY <2>1, <2>2
<1>12. PtKept(n)
  BY <1>4, <1>11 DEF PtKept
<1> QED BY <1>1, <1>2, <1>12, PtSame

\* Nothing is on its way at the start.
LEMMA PtDeliveryInit == PipelinesInit => PtDelivery
<1> SUFFICES ASSUME PtInv, NEW k \in Nat, NEW g \in Nat, PThread!InitOf(k, g), NEW n \in PairNumbers
             PROVE  PtOnWay(n)
  BY PtInvInit, PipelinesAssumption DEF PipelinesInit, PThread!Init, PtDelivery
<1>1. /\ pQueue = [q \in PThread!Queues |-> <<>>] /\ pTBlock = <<>> /\ pRBlock = <<>>
      /\ pDone = [t \in PThread!Producers \cup PThread!Consumers |-> 0]
  BY DEF PThread!InitOf
<1>2. PackOf(pPcs[PThread!Transmitter], pTBlock) = <<>>
  BY <1>1 DEF PackOf
<1>3. pQueue[R2cq(n)] = <<>> /\ pQueue[T2rq] = <<>> /\ pQueue[P2tq] = <<>>
  BY <1>1, PtQueueNames
<1>4. PtQ(n) = <<>> /\ PtB(n) = <<>> /\ PtT(n) = <<>> /\ PtP(n) = <<>> /\ PtM(n) = <<>>
  BY <1>1, <1>2, <1>3, PtAre, OfEmpty, FlatEmpty DEF PtNow
<1>5. PtPlaces(n) = <<>>
  <2> DEFINE e == <<>>
  <2>1. e \in Seq(PairMessages)
    OBVIOUS
  <2> HIDE DEF e
  <2>2. Cat(e, e) = e
    BY <2>1, CatFacts DEF e
  <2>3. PtPlaces(n) = Cat(e, Cat(e, Cat(e, Cat(e, e))))
    BY <1>4 DEF PtPlaces, e
  <2> QED BY <2>2, <2>3 DEF e
<1>6. pDone[PThread!Consumer(n)] = 0 /\ pDone[PThread!Producer(n)] = 0
  BY <1>1, PtNames
<1>7. Numbers(n, 0, 0) = <<>>
  BY DEF Numbers
<1> QED BY <1>5, <1>6, <1>7 DEF PtOnWay

\* Each step keeps what is on its way.
LEMMA PtDeliveryNext == PtInv /\ PtDelivery /\ PThread!Next => PtDelivery'
<1> SUFFICES ASSUME PtInv, PtDelivery, PThread!Next PROVE PtDelivery'
  OBVIOUS
<1>1. PtInv'
  BY PtInvNext
<1>2. CASE PThread!BossStep
  <2>1. UNCHANGED <<pQueue, pPcs, pDone, pTBlock, pRBlock>>
    BY <1>2 DEF PThread!BossStep, PThread!ptWork
  <2>2. \A n \in PairNumbers : PtOnWay(n)'
    <3> TAKE n \in PairNumbers
    <3>1. UNCHANGED <<PtQ(n), PtB(n), PtT(n), PtP(n), PtM(n)>>
      BY <2>1, PtThen DEF PtNow
    <3>2. PtKept(n)
      BY <3>1 DEF PtKept
    <3> QED BY <1>1, <2>1, <3>2, PtSame DEF PtDelivery
  <2> QED BY <2>2 DEF PtDelivery
<1>3. ASSUME NEW t \in PThread!Threads, GetsNow(t) PROVE PtDelivery'
  <2>1. GetFrom(t, PThread!Source(t)) /\ Getters(t)
    BY <1>3, GetsFrom DEF GetsNow
  <2>2. CASE t = PThread!Transmitter
    BY <1>1, <2>1, <2>2, Ends, TransmitterGets
  <2>3. CASE t = PThread!Receiver
    BY <1>1, <2>1, <2>3, Ends, ReceiverGets
  <2>4. ASSUME NEW n \in PairNumbers, t = PThread!Consumer(n) PROVE PtDelivery'
    BY <1>1, <2>1, <2>4, Ends, ConsumerGets
  <2> QED BY <2>1, <2>2, <2>3, <2>4 DEF Getters
<1>4. ASSUME NEW t \in PThread!Threads, PutsNow(t) PROVE PtDelivery'
  <2>1. PutInto(t, PThread!Target(t), PThread!MessageOf(t)) /\ Putters(t)
    BY <1>4, PutsInto DEF PutsNow
  <2>2. CASE t = PThread!Transmitter
    BY <1>1, <2>1, <2>2, Ends, TransmitterPuts
  <2>3. CASE t = PThread!Receiver
    BY <1>1, <2>1, <2>3, Ends, ReceiverPuts
  <2>4. ASSUME NEW n \in PairNumbers, t = PThread!Producer(n) PROVE PtDelivery'
    BY <1>1, <2>1, <2>4, Ends, ProducerPuts
  <2> QED BY <2>1, <2>2, <2>3, <2>4 DEF Putters
<1>5. ASSUME NEW t \in PThread!Threads, PThread!Step(t) PROVE PtDelivery'
  BY <1>1, <1>3, <1>4, <1>5, PtStep, QuietDelivers
<1> QED BY <1>2, <1>5 DEF PThread!Next

\* The invariant says what the run checks.
LEMMA PtRight == PtInv /\ PtDelivery => PThread!TypeOK /\ PThread!Conserved
<1> SUFFICES ASSUME PtInv, PtDelivery PROVE PThread!TypeOK /\ PThread!Conserved
  OBVIOUS
<1>1. PThread!TypeOK
  <2>1. \A q \in PThread!Queues : Len(pQueue[q]) < QSize
    <3> TAKE q \in PThread!Queues
    <3>1. Len(pQueue[q]) <= QSize - 1 /\ pQueue[q] \in Seq(Kind(q)) /\ QSize \in Nat
      BY PipelinesAssumption DEF PtInv, PtTypes
    <3>2. Len(pQueue[q]) \in Nat
      BY <3>1
    <3> QED BY <3>1, <3>2
  <2>2. \A t \in DOMAIN pDone : pDone[t] \in 0 .. pGoal
    <3>1. DOMAIN pDone = PThread!Producers \cup PThread!Consumers
      BY DEF PtInv, PtTypes
    <3> QED BY <3>1 DEF PtInv, PtTypes
  <2>3. \A t \in PThread!Threads : retries[t] \in 0 .. MAX_RETRY
    BY DEF PtInv, PtTypes
  <2>4. Len(pTBlock) <= BlockSize /\ Len(pRBlock) <= BlockSize
    BY DEF PtInv, PtTypes, Blocks
  <2> QED BY <2>1, <2>2, <2>3, <2>4 DEF PThread!TypeOK
<1>2. PThread!Conserved
  <2> SUFFICES ASSUME NEW n \in PairNumbers
               PROVE  PThread!InTransit(n) = Numbers(n, pDone[PThread!Consumer(n)], pDone[PThread!Producer(n)])
    BY DEF PThread!Conserved, Numbers
  <2> QED BY PtTransit DEF PtDelivery, PtOnWay
<1> QED BY <1>1, <1>2

\* Conserved of PThree, for the same: although a get or a put may time out and
\* its thread give up, no message of a pair is lost, repeated or overtaken.
THEOREM ConservedWaiting == PipelinesSpec => [](PThread!TypeOK /\ PThread!Conserved)
<1>1. PipelinesInit => PtInv /\ PtDelivery
  BY PtInvInit, PtDeliveryInit
<1>2. PtInv /\ PtDelivery /\ [PipelinesNext]_pipelinesVars => (PtInv /\ PtDelivery)'
  <2> SUFFICES ASSUME PtInv, PtDelivery, [PipelinesNext]_pipelinesVars
               PROVE  PtInv' /\ PtDelivery'
    OBVIOUS
  <2>1. CASE UNCHANGED pthreadVars
    <3>1. UNCHANGED <<pGoal, pQueue, pPcs, retries, pDone, pTBlock, pRBlock>>
      BY <2>1 DEF pthreadVars
    <3>2. PtInv'
      BY <3>1 DEF PtInv, PtTypes, PtAt, ProducerAt, ConsumerAt, TransmitterAt, ReceiverAt
    <3>3. \A n \in PairNumbers : PtOnWay(n)'
      <4> TAKE n \in PairNumbers
      <4>1. UNCHANGED <<PtQ(n), PtB(n), PtT(n), PtP(n), PtM(n)>>
        BY <3>1, PtThen DEF PtNow
      <4>2. PtKept(n)
        BY <4>1 DEF PtKept
      <4> QED BY <3>1, <3>2, <4>2, PtSame DEF PtDelivery
    <3> QED BY <3>2, <3>3 DEF PtDelivery
  <2>2. CASE PThread!Next
    BY <2>2, PtInvNext, PtDeliveryNext
  <2> QED BY <2>1, <2>2 DEF PipelinesNext, pipelinesVars
<1> QED BY <1>1, <1>2, PtRight, PTL DEF PipelinesSpec

-----------------------------------------------------------------------------
(* The pipelines together.                                                 *)

\* OnTheWay: the pipelines change a queue only under its guard, and neither
\* lose nor repeat nor reorder messages on their way, although calls are
\* cancelled or time out, and the consumers of multiPCav count each message
\* once; for every number of threads and messages and every size of the queues.
THEOREM NothingLostOnTheWay == PipelinesSpec => []OnTheWay
<1>1. /\ (Multi!TypeOK /\ Multi!EachOnce)
      /\ (Cancel!TypeOK /\ Cancel!MovesGuarded /\ Cancel!DeliveryOrder)
      /\ (PThread!TypeOK /\ PThread!Conserved)
      => OnTheWay
  BY DEF OnTheWay
<1> QED BY <1>1, CountedOnce, DeliveredInOrder, ConservedWaiting, PTL
=============================================================================
