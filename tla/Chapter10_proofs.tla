--------------------------- MODULE Chapter10_proofs -------------------------
(***************************************************************************)
(* Proofs about programs of threads that signal each other.  The threshold *)
(* barrier, for any number of workers and any threshold.  The three-stage  *)
(* pipeline, for any number of pairs, any goal, any block size and any     *)
(* lengths of the queues.  The message block of chapter 8, for any number  *)
(* of messages.                                                            *)
(***************************************************************************)
EXTENDS MCChapter10, MCPipelines, FiniteSetTheorems, TLAPS

-----------------------------------------------------------------------------
(* The barrier.                                                             *)

\* The inductive invariant: the count is the number of threads that have
\* arrived, the mutex has one owner, and the event is signaled exactly when a
\* thread has passed or the owner of the mutex is about to.
Types ==
  /\ started \subseteq Workers
  /\ bGuard \in Workers \cup {NoThread}
  /\ bEvent \in BOOLEAN
  /\ pc \in [Workers -> WorkerLabels]
  /\ main \in MainLabels
Counted == bCount = Cardinality(Arrived)
Owner == \A w \in Workers : pc[w] = "test" <=> bGuard = w
EventMeaning ==
  /\ bEvent => bCount >= bThreshold
  /\ \A w \in Workers : pc[w] \in {"relock", "done"} => bEvent
  /\ \A w \in Workers : pc[w] = "wait" => ~bEvent
  /\ bCount < bThreshold \/ bEvent \/ bGuard # NoThread \/ bCount = 0
BInv == Types /\ Counted /\ Owner /\ EventMeaning

LEMMA ArrivedFacts ==
  /\ IsFiniteSet(Arrived)
  /\ Cardinality(Arrived) \in Nat
  /\ Cardinality(Workers) \in Nat
  /\ Cardinality(Arrived) <= Cardinality(Workers)
<1>1. Arrived \subseteq Workers
  BY DEF Arrived
<1> QED BY <1>1, ThbAssumption, FS_Subset, FS_CardinalityType

LEMMA BInvInit == Init => BInv
<1> SUFFICES ASSUME Init
             PROVE  BInv
  OBVIOUS
<1>1. Types
  BY DEF Init, Types, WorkerLabels, MainLabels
<1>2. Arrived = {}
  BY DEF Init, Arrived
<1>3. Counted
  BY <1>2, FS_EmptySet DEF Init, Counted
<1>4. Owner
  BY ThbAssumption DEF Init, Owner
<1>5. EventMeaning
  BY DEF Init, EventMeaning
<1> QED BY <1>1, <1>3, <1>4, <1>5 DEF BInv

\* Arriving counts one thread more; no other step changes who has arrived.
LEMMA ArriveCounts ==
  ASSUME BInv, NEW w \in Workers, Arrive(w)
  PROVE  /\ Arrived' = Arrived \cup {w}
         /\ Cardinality(Arrived') = Cardinality(Arrived) + 1
         /\ bCount' = Cardinality(Arrived')
<1>1. Arrived' = Arrived \cup {w} /\ w \notin Arrived
  BY DEF BInv, Types, Arrive, Arrived, WorkerLabels
<1>2. Cardinality(Arrived') = Cardinality(Arrived) + 1
  BY <1>1, ArrivedFacts, FS_AddElement
<1> QED BY <1>1, <1>2 DEF BInv, Counted, Arrive

LEMMA BInvStep == BInv /\ [Next]_vars => BInv'
<1> SUFFICES ASSUME BInv, [Next]_vars
             PROVE  BInv'
  OBVIOUS
<1> USE ThbAssumption, ArrivedFacts DEF BInv
<1>1. ASSUME NEW w \in Workers, Arrive(w)
      PROVE  BInv'
  <2>1. Types'
    BY <1>1 DEF Arrive, Types, WorkerLabels
  <2>2. Counted'
    BY <1>1, ArriveCounts DEF Counted
  <2>3. Owner'
    BY <1>1 DEF Arrive, Owner, Types
  <2>4. EventMeaning'
    BY <1>1 DEF Arrive, EventMeaning, Types, Counted
  <2> QED BY <2>1, <2>2, <2>3, <2>4
<1>2. ASSUME NEW w \in Workers, Signal(w)
      PROVE  BInv'
  <2>1. Types'
    BY <1>2 DEF Signal, Types, WorkerLabels
  <2>2. Counted'
    BY <1>2 DEF Signal, Counted, Arrived, Types
  <2>3. Owner'
    BY <1>2 DEF Signal, Owner, Types
  <2>4. EventMeaning'
    BY <1>2 DEF Signal, EventMeaning, Types, Counted
  <2> QED BY <2>1, <2>2, <2>3, <2>4
<1>8. ASSUME NEW w \in Workers, Wait(w)
      PROVE  BInv'
  <2>1. Types'
    BY <1>8 DEF Wait, Types, WorkerLabels
  <2>2. Counted'
    BY <1>8 DEF Wait, Counted, Arrived, Types
  <2>3. Owner'
    BY <1>8 DEF Wait, Owner, Types
  <2>4. EventMeaning'
    BY <1>8 DEF Wait, EventMeaning, Types, Counted
  <2> QED BY <2>1, <2>2, <2>3, <2>4
<1>3. ASSUME NEW w \in Workers, Relock(w)
      PROVE  BInv'
  <2>1. Types'
    BY <1>3 DEF Relock, Types, WorkerLabels
  <2>2. Counted'
    BY <1>3 DEF Relock, Counted, Arrived, Types
  <2>3. Owner'
    BY <1>3 DEF Relock, Owner, Types
  <2>4. EventMeaning'
    BY <1>3 DEF Relock, EventMeaning, Types, Counted
  <2> QED BY <2>1, <2>2, <2>3, <2>4
<1>4. ASSUME NEW w \in Workers, Pass(w)
      PROVE  BInv'
  <2>1. Types'
    BY <1>4 DEF Pass, Types, WorkerLabels
  <2>2. Counted'
    BY <1>4 DEF Pass, Counted, Arrived, Types
  <2>3. Owner'
    BY <1>4 DEF Pass, Owner, Types
  <2>4. EventMeaning'
    BY <1>4 DEF Pass, EventMeaning, Types, Counted
  <2> QED BY <2>1, <2>2, <2>3, <2>4
<1>5. ASSUME UNCHANGED <<started, bGuard, bEvent, bCount, pc>>, main' \in MainLabels
      PROVE  BInv'
  BY <1>5 DEF Types, Counted, Arrived, Owner, EventMeaning
<1>6. CASE MainWait \/ MainClose \/ MainFree
  BY <1>5, <1>6 DEF MainWait, MainClose, MainFree, MainLabels
<1>7. CASE UNCHANGED vars
  BY <1>5, <1>7 DEF vars, Types
<1> QED
  BY <1>1, <1>2, <1>3, <1>4, <1>6, <1>7, <1>8 DEF Next, Worker, Finished

LEMMA BInvariant == Spec => []BInv
BY BInvInit, BInvStep, PTL DEF Spec

\* Every variable has its type, and no thread is counted twice: the count never
\* exceeds the number of workers.
THEOREM BarrierTypes == Spec => []TypeOK
<1>1. BInv => TypeOK
  BY ArrivedFacts DEF BInv, Types, Counted, TypeOK
<1> QED BY <1>1, BInvariant, PTL

\* No thread leaves the barrier before the threshold is reached.
THEOREM NobodyPassesEarly == Spec => []NoEarlyPass
<1>1. BInv => NoEarlyPass
  BY DEF BInv, Counted, EventMeaning, NoEarlyPass
<1> QED BY <1>1, BInvariant, PTL

\* The one SetEvent leaves nobody behind.
THEOREM NobodyLeftWaiting == Spec => []NoneLeftWaiting
<1>1. ASSUME BInv, NEW w \in Workers, pc[w] = "wait"
      PROVE  ~bEvent /\ (bCount < bThreshold \/ \E u \in Workers : pc[u] = "test")
  <2>1. w \in Arrived
    BY <1>1 DEF Arrived
  <2>2. bCount # 0
    BY <1>1, <2>1, ArrivedFacts, FS_EmptySet DEF BInv, Counted
  <2> QED BY <1>1, <2>2 DEF BInv, Types, Owner, EventMeaning
<1>2. BInv => NoneLeftWaiting
  BY <1>1 DEF NoneLeftWaiting
<1> QED BY <1>2, BInvariant, PTL

\* The test of the count is enough for a barrier that is closed while threads
\* are in it, however many they are: no thread waits for the event then, and one
\* that is about to will find it signaled.
CountTested ==
  main \in {"free", "closed"} =>
    /\ bCount >= bThreshold /\ ClosedNoneWaits
    /\ \A w \in Workers : pc[w] = "signaled" => bEvent

THEOREM ClosedNobodyWaits == Spec => []ClosedNoneWaits
<1>1. Init => CountTested
  BY DEF Init, CountTested
<1>2. BInv /\ CountTested /\ [Next]_vars => CountTested'
  <2> SUFFICES ASSUME BInv, CountTested, [Next]_vars
               PROVE  CountTested'
    OBVIOUS
  <2> USE ThbAssumption, ArrivedFacts DEF BInv, CountTested, ClosedNoneWaits
  <2>1. CASE MainWait
    BY <2>1 DEF MainWait
  <2>2. CASE MainClose
    <3>1. bCount < bThreshold => main' = "busy"
      BY <2>2 DEF MainClose
    <3>2. ASSUME bCount >= bThreshold, NEW w \in Workers, pc[w] \in {"wait", "signaled"}
          PROVE  bEvent /\ pc[w] # "wait"
      <4>1. w \in Arrived
        BY <3>2 DEF Arrived
      <4>2. bCount # 0
        BY <4>1, FS_EmptySet DEF Counted
      <4> QED BY <2>2, <3>2, <4>2 DEF MainClose, EventMeaning, Counted
    <3> QED BY <2>2, <3>1, <3>2 DEF MainClose, Counted
  <2>3. CASE MainFree
    BY <2>3 DEF MainFree
  <2>4. ASSUME NEW w \in Workers, Worker(w)
        PROVE  CountTested'
    <3>1. main' = main /\ bCount' >= bCount
      BY <2>4 DEF Worker, Arrive, Signal, Wait, Relock, Pass, Counted
    <3>2. CASE main \notin {"free", "closed"}
      BY <3>1, <3>2
    <3>3. CASE main \in {"free", "closed"}
      <4>1. ~Signal(w)
        BY <3>3 DEF Signal, Counted
      <4> QED BY <2>4, <3>1, <3>3, <4>1 DEF Worker, Arrive, Wait, Relock, Pass, Types, Counted
    <3> QED BY <3>2, <3>3
  <2>5. CASE UNCHANGED vars
    BY <2>5 DEF vars
  <2> QED BY <2>1, <2>2, <2>3, <2>4, <2>5 DEF Next, Finished
<1>3. CountTested => ClosedNoneWaits
  BY DEF CountTested, ClosedNoneWaits
<1> QED BY <1>1, <1>2, <1>3, BInvariant, PTL DEF Spec

-----------------------------------------------------------------------------
(* The line of messages to a consumer.  A step of the pipeline changes it   *)
(* in one of a few ways, and each of them keeps what the line carries.      *)

\* The line next has the parts of line, but for empty parts that come or go:
\* part k of next was part o[k].
Shifted(line, next, M, N, o) ==
  /\ M \in Nat /\ N \in Nat /\ DOMAIN line = 1 .. M /\ DOMAIN next = 1 .. N
  /\ \A k \in 1 .. N : DOMAIN next[k] # {} => o[k] \in 1 .. M /\ next[k] = line[o[k]]
  /\ \A k, l \in 1 .. N :
       k < l /\ DOMAIN next[k] # {} /\ DOMAIN next[l] # {} => o[k] < o[l]
  /\ \A k \in 1 .. M : DOMAIN line[k] # {} => \E l \in 1 .. N : next[l] = line[k]

LEMMA CarriesShift ==
  ASSUME NEW line, NEW next, NEW M, NEW N, NEW o, Shifted(line, next, M, N, o),
         NEW c, NEW U, Pipeline!Carries(c, line, U)
  PROVE  Pipeline!Carries(c, next, U)
<1> USE DEF Shifted
<1>1. Pipeline!Only(c, next, U)
  BY DEF Pipeline!Carries, Pipeline!Only
<1>2. Pipeline!All(c, next, U)
  BY DEF Pipeline!Carries, Pipeline!All
<1>3. Pipeline!InOrder(c, next)
  <2> SUFFICES ASSUME NEW k \in DOMAIN next, NEW l \in DOMAIN next,
                      NEW i \in DOMAIN next[k], NEW j \in DOMAIN next[l],
                      next[k][i].destination = c, next[l][j].destination = c,
                      Pipeline!Before(k, i, l, j)
               PROVE  Pipeline!Number(next[k][i]) < Pipeline!Number(next[l][j])
    BY DEF Pipeline!InOrder
  <2>1. next[k] = line[o[k]] /\ next[l] = line[o[l]] /\ o[k] \in DOMAIN line /\ o[l] \in DOMAIN line
    OBVIOUS
  <2>2. Pipeline!Before(o[k], i, o[l], j)
    BY DEF Pipeline!Before
  <2>3. Pipeline!InOrder(c, line)
    BY DEF Pipeline!Carries
  <2>4. Pipeline!Number(line[o[k]][i]) < Pipeline!Number(line[o[l]][j])
    BY <2>1, <2>2, <2>3 DEF Pipeline!InOrder
  <2> QED BY <2>1, <2>4
<1> QED BY <1>1, <1>2, <1>3 DEF Pipeline!Carries

\* The first message of part k + 1 becomes the last of part k.
Moved(line, next, N, k, a, b) ==
  /\ N \in Nat /\ DOMAIN line = 1 .. N /\ DOMAIN next = 1 .. N
  /\ k \in 1 .. N /\ k + 1 \in 1 .. N /\ a \in Nat /\ b \in Nat
  /\ DOMAIN line[k] = 1 .. a /\ DOMAIN next[k] = 1 .. a + 1
  /\ \A i \in 1 .. a : next[k][i] = line[k][i]
  /\ next[k][a + 1] = line[k + 1][1]
  /\ DOMAIN line[k + 1] = 1 .. b + 1 /\ DOMAIN next[k + 1] = 1 .. b
  /\ \A i \in 1 .. b : next[k + 1][i] = line[k + 1][i + 1]
  /\ \A l \in 1 .. N : l # k /\ l # k + 1 => next[l] = line[l]

LEMMA CarriesMove ==
  ASSUME NEW line, NEW next, NEW N, NEW k, NEW a, NEW b, Moved(line, next, N, k, a, b),
         NEW c, NEW U, Pipeline!Carries(c, line, U)
  PROVE  Pipeline!Carries(c, next, U)
<1> USE DEF Moved
<1> DEFINE new(l, i) == l = k /\ i = a + 1
           part(l, i) == IF new(l, i) THEN k + 1 ELSE l
           place(l, i) == IF new(l, i) THEN 1 ELSE IF l = k + 1 THEN i + 1 ELSE i
<1>1. ASSUME NEW l \in 1 .. N, NEW i \in DOMAIN next[l]
      PROVE  /\ part(l, i) \in 1 .. N /\ place(l, i) \in DOMAIN line[part(l, i)]
             /\ next[l][i] = line[part(l, i)][place(l, i)]
  <2>1. CASE l = k
    BY <2>1
  <2>2. CASE l = k + 1
    BY <2>2
  <2>3. CASE l # k /\ l # k + 1
    BY <2>3
  <2> QED BY <2>1, <2>2, <2>3
<1>2. ASSUME NEW l \in 1 .. N, NEW i \in DOMAIN line[l]
      PROVE  \E m \in 1 .. N : \E j \in DOMAIN next[m] : next[m][j] = line[l][i]
  <2>1. CASE l = k
    BY <2>1
  <2>2. CASE l = k + 1 /\ i = 1
    <3>1. k \in 1 .. N /\ a + 1 \in DOMAIN next[k] /\ next[k][a + 1] = line[l][i]
      BY <2>2
    <3> HIDE DEF Moved
    <3> QED BY <3>1
  <2>3. CASE l = k + 1 /\ i # 1
    <3>1. i - 1 \in DOMAIN next[l] /\ next[l][i - 1] = line[l][i]
      BY <2>3
    <3> QED BY <3>1
  <2>4. CASE l # k /\ l # k + 1
    BY <2>4
  <2> QED BY <2>1, <2>2, <2>3, <2>4
<1>3. ASSUME NEW l \in 1 .. N, NEW m \in 1 .. N, NEW i \in DOMAIN next[l], NEW j \in DOMAIN next[m],
             Pipeline!Before(l, i, m, j)
      PROVE  Pipeline!Before(part(l, i), place(l, i), part(m, j), place(m, j))
  <2>1. CASE new(l, i)
    BY <2>1, <1>3 DEF Pipeline!Before
  <2>2. CASE ~new(l, i)
    BY <2>2, <1>3 DEF Pipeline!Before
  <2> QED BY <2>1, <2>2
<1> HIDE DEF part, place
<1>4. Pipeline!Only(c, next, U)
  BY <1>1 DEF Pipeline!Carries, Pipeline!Only
<1>5. Pipeline!All(c, next, U)
  BY <1>2 DEF Pipeline!Carries, Pipeline!All
<1>6. Pipeline!InOrder(c, next)
  <2> SUFFICES ASSUME NEW l \in DOMAIN next, NEW m \in DOMAIN next,
                      NEW i \in DOMAIN next[l], NEW j \in DOMAIN next[m],
                      next[l][i].destination = c, next[m][j].destination = c,
                      Pipeline!Before(l, i, m, j)
               PROVE  Pipeline!Number(next[l][i]) < Pipeline!Number(next[m][j])
    BY DEF Pipeline!InOrder
  <2>1. /\ part(l, i) \in DOMAIN line /\ place(l, i) \in DOMAIN line[part(l, i)]
        /\ next[l][i] = line[part(l, i)][place(l, i)]
        /\ part(m, j) \in DOMAIN line /\ place(m, j) \in DOMAIN line[part(m, j)]
        /\ next[m][j] = line[part(m, j)][place(m, j)]
    BY <1>1
  <2>2. Pipeline!Before(part(l, i), place(l, i), part(m, j), place(m, j))
    BY <1>3
  <2>3. Pipeline!InOrder(c, line)
    BY DEF Pipeline!Carries
  <2>4. Pipeline!Number(line[part(l, i)][place(l, i)]) < Pipeline!Number(line[part(m, j)][place(m, j)])
    BY <2>1, <2>2, <2>3 DEF Pipeline!InOrder
  <2> QED BY <2>1, <2>4
<1> QED BY <1>4, <1>5, <1>6 DEF Pipeline!Carries

\* The first message of part k goes.
Dropped(line, next, N, k, a) ==
  /\ N \in Nat /\ DOMAIN line = 1 .. N /\ DOMAIN next = 1 .. N /\ k \in 1 .. N
  /\ a \in Nat /\ DOMAIN line[k] = 1 .. a + 1 /\ DOMAIN next[k] = 1 .. a
  /\ \A i \in 1 .. a : next[k][i] = line[k][i + 1]
  /\ \A l \in 1 .. N : l # k => next[l] = line[l]

LEMMA CarriesDrop ==
  ASSUME NEW line, NEW next, NEW N, NEW k, NEW a, Dropped(line, next, N, k, a),
         NEW c, NEW U, Pipeline!Carries(c, line, U), line[k][1].destination # c
  PROVE  Pipeline!Carries(c, next, U)
<1> USE DEF Dropped
<1> DEFINE place(l, i) == IF l = k THEN i + 1 ELSE i
<1>1. ASSUME NEW l \in 1 .. N, NEW i \in DOMAIN next[l]
      PROVE  place(l, i) \in DOMAIN line[l] /\ next[l][i] = line[l][place(l, i)]
  BY DOMAIN line[k] = 1 .. a + 1
<1>2. ASSUME NEW l \in 1 .. N, NEW i \in DOMAIN line[l], l # k \/ i # 1
      PROVE  \E j \in DOMAIN next[l] : next[l][j] = line[l][i]
  <2>1. CASE l = k
    <3>1. i - 1 \in DOMAIN next[l] /\ next[l][i - 1] = line[l][i]
      BY <2>1, <1>2
    <3> QED BY <3>1
  <2>2. CASE l # k
    BY <2>2
  <2> QED BY <2>1, <2>2
<1>3. ASSUME NEW l \in 1 .. N, NEW m \in 1 .. N, NEW i \in DOMAIN next[l], NEW j \in DOMAIN next[m],
             Pipeline!Before(l, i, m, j)
      PROVE  Pipeline!Before(l, place(l, i), m, place(m, j))
  BY <1>3 DEF Pipeline!Before
<1> HIDE DEF place
<1>4. Pipeline!Only(c, next, U)
  BY <1>1 DEF Pipeline!Carries, Pipeline!Only
<1>5. Pipeline!All(c, next, U)
  <2> SUFFICES ASSUME NEW n \in U
               PROVE  \E l \in DOMAIN next : \E j \in DOMAIN next[l] : next[l][j] = Pipeline!Numbered(c, n)
    BY DEF Pipeline!All
  <2>1. PICK l \in 1 .. N : \E i \in DOMAIN line[l] : line[l][i] = Pipeline!Numbered(c, n)
    BY DEF Pipeline!Carries, Pipeline!All
  <2>2. PICK i \in DOMAIN line[l] : line[l][i] = Pipeline!Numbered(c, n)
    BY <2>1
  <2>3. Pipeline!Numbered(c, n).destination = c
    BY DEF Pipeline!Numbered, Pipeline!Msg
  <2>4. \E j \in DOMAIN next[l] : next[l][j] = line[l][i]
    BY <2>2, <2>3, <1>2
  <2> QED BY <2>2, <2>4
<1>6. Pipeline!InOrder(c, next)
  <2> SUFFICES ASSUME NEW l \in DOMAIN next, NEW m \in DOMAIN next,
                      NEW i \in DOMAIN next[l], NEW j \in DOMAIN next[m],
                      next[l][i].destination = c, next[m][j].destination = c,
                      Pipeline!Before(l, i, m, j)
               PROVE  Pipeline!Number(next[l][i]) < Pipeline!Number(next[m][j])
    BY DEF Pipeline!InOrder
  <2>1. /\ place(l, i) \in DOMAIN line[l] /\ next[l][i] = line[l][place(l, i)]
        /\ place(m, j) \in DOMAIN line[m] /\ next[m][j] = line[m][place(m, j)]
    BY <1>1
  <2>2. Pipeline!Before(l, place(l, i), m, place(m, j))
    BY <1>3
  <2>3. Pipeline!InOrder(c, line)
    BY DEF Pipeline!Carries
  <2>4. Pipeline!Number(line[l][place(l, i)]) < Pipeline!Number(line[m][place(m, j)])
    BY <2>1, <2>2, <2>3 DEF Pipeline!InOrder
  <2> QED BY <2>1, <2>4
<1> QED BY <1>4, <1>5, <1>6 DEF Pipeline!Carries

\* A message for another consumer comes to the end of part k.
LEMMA CarriesAddOther ==
  ASSUME NEW N \in Nat, NEW line, NEW next, DOMAIN line = 1 .. N, DOMAIN next = 1 .. N,
         NEW k \in 1 .. N, NEW a \in Nat, DOMAIN line[k] = 1 .. a, DOMAIN next[k] = 1 .. a + 1,
         \A i \in 1 .. a : next[k][i] = line[k][i],
         \A l \in 1 .. N : l # k => next[l] = line[l],
         NEW c, NEW U, Pipeline!Carries(c, line, U), next[k][a + 1].destination # c
  PROVE  Pipeline!Carries(c, next, U)
<1>1. ASSUME NEW l \in 1 .. N, NEW i \in DOMAIN next[l], next[l][i].destination = c
      PROVE  i \in DOMAIN line[l] /\ next[l][i] = line[l][i]
  BY <1>1
<1>2. ASSUME NEW l \in 1 .. N, NEW i \in DOMAIN line[l]
      PROVE  i \in DOMAIN next[l] /\ next[l][i] = line[l][i]
  BY DOMAIN next[k] = 1 .. a + 1
<1>3. Pipeline!Only(c, next, U)
  BY <1>1 DEF Pipeline!Carries, Pipeline!Only
<1>4. Pipeline!All(c, next, U)
  BY <1>2 DEF Pipeline!Carries, Pipeline!All
<1>5. Pipeline!InOrder(c, next)
  BY <1>1 DEF Pipeline!Carries, Pipeline!InOrder
<1> QED BY <1>3, <1>4, <1>5 DEF Pipeline!Carries

\* The message with number n for c has number n and is for c.
LEMMA NumberOfNumbered ==
  ASSUME NEW c, NEW n \in Nat
  PROVE  Pipeline!Number(Pipeline!Numbered(c, n)) = n /\ Pipeline!Numbered(c, n).destination = c
BY DEF Pipeline!Number, Pipeline!Numbered, Pipeline!Msg, Pipeline!IsDone, Pipeline!DoneSeq

\* The next message for c comes to the end of the line.
LEMMA CarriesAdd ==
  ASSUME NEW N \in Nat, NEW line, NEW next, DOMAIN line = 1 .. N, DOMAIN next = 1 .. N, N # 0,
         NEW a \in Nat, DOMAIN line[N] = 1 .. a, DOMAIN next[N] = 1 .. a + 1,
         \A i \in 1 .. a : next[N][i] = line[N][i],
         \A l \in 1 .. N : l # N => next[l] = line[l],
         NEW c, NEW u \in Nat, NEW v \in Nat, u <= v,
         Pipeline!Carries(c, line, u .. v - 1), next[N][a + 1] = Pipeline!Numbered(c, v)
  PROVE  Pipeline!Carries(c, next, u .. v)
<1> DEFINE new(l, i) == l = N /\ i = a + 1
<1>1. ASSUME NEW l \in 1 .. N, NEW i \in DOMAIN next[l], ~new(l, i)
      PROVE  i \in DOMAIN line[l] /\ next[l][i] = line[l][i]
  <2>1. CASE l = N
    <3>1. i \in 1 .. a
      BY <2>1, <1>1
    <3> QED BY <2>1, <3>1
  <2>2. CASE l # N
    BY <2>2
  <2> QED BY <2>1, <2>2
<1>2. ASSUME NEW l \in 1 .. N, NEW i \in DOMAIN line[l]
      PROVE  i \in DOMAIN next[l] /\ next[l][i] = line[l][i]
  BY DOMAIN next[N] = 1 .. a + 1
<1>3. N \in 1 .. N /\ a + 1 \in DOMAIN next[N]
  OBVIOUS
<1>4. Pipeline!Number(next[N][a + 1]) = v
  BY NumberOfNumbered
<1>5. Pipeline!Only(c, next, u .. v)
  <2> SUFFICES ASSUME NEW l \in 1 .. N, NEW i \in DOMAIN next[l], next[l][i].destination = c
               PROVE  Pipeline!Number(next[l][i]) \in u .. v
    BY DEF Pipeline!Only
  <2>1. CASE new(l, i)
    BY <2>1, <1>4
  <2>2. CASE ~new(l, i)
    <3>1. i \in DOMAIN line[l] /\ next[l][i] = line[l][i] /\ l \in DOMAIN line
      BY <1>1, <2>2
    <3>2. Pipeline!Number(line[l][i]) \in u .. v - 1
      BY <3>1 DEF Pipeline!Carries, Pipeline!Only
    <3> QED BY <3>1, <3>2
  <2> QED BY <2>1, <2>2
<1>6. Pipeline!All(c, next, u .. v)
  <2> SUFFICES ASSUME NEW n \in u .. v
               PROVE  \E l \in DOMAIN next : \E j \in DOMAIN next[l] : next[l][j] = Pipeline!Numbered(c, n)
    BY DEF Pipeline!All
  <2>1. CASE n = v
    BY <2>1, <1>3
  <2>2. CASE n \in u .. v - 1
    BY <2>2, <1>2 DEF Pipeline!Carries, Pipeline!All
  <2> QED BY <2>1, <2>2
<1>7. Pipeline!InOrder(c, next)
  <2> SUFFICES ASSUME NEW l \in DOMAIN next, NEW m \in DOMAIN next,
                      NEW i \in DOMAIN next[l], NEW j \in DOMAIN next[m],
                      next[l][i].destination = c, next[m][j].destination = c,
                      Pipeline!Before(l, i, m, j)
               PROVE  Pipeline!Number(next[l][i]) < Pipeline!Number(next[m][j])
    BY DEF Pipeline!InOrder
  <2>1. ~new(l, i)
    BY DEF Pipeline!Before
  <2>2. i \in DOMAIN line[l] /\ next[l][i] = line[l][i] /\ l \in DOMAIN line
    BY <1>1, <2>1
  <2>3. CASE new(m, j)
    <3>1. Pipeline!Number(line[l][i]) \in u .. v - 1
      BY <2>2 DEF Pipeline!Carries, Pipeline!Only
    <3> QED BY <2>2, <2>3, <3>1, <1>4
  <2>4. CASE ~new(m, j)
    <3>1. j \in DOMAIN line[m] /\ next[m][j] = line[m][j] /\ m \in DOMAIN line
      BY <1>1, <2>4
    <3> QED BY <2>2, <3>1 DEF Pipeline!Carries, Pipeline!InOrder
  <2> QED BY <2>3, <2>4
<1> QED BY <1>5, <1>6, <1>7 DEF Pipeline!Carries

\* The first message of the line, which is for c, is the next, and goes.
LEMMA CarriesTake ==
  ASSUME NEW line, NEW next, NEW N, NEW a, Dropped(line, next, N, 1, a),
         \A l \in 1 .. N : DOMAIN line[l] \subseteq Nat \ {0},
         NEW c, NEW u \in Nat, NEW v \in Int,
         Pipeline!Carries(c, line, u .. v), line[1][1].destination = c
  PROVE  /\ line[1][1] = Pipeline!Numbered(c, u) /\ u <= v
         /\ Pipeline!Carries(c, next, u + 1 .. v)
<1> USE DEF Dropped
<1> DEFINE place(l, i) == IF l = 1 THEN i + 1 ELSE i
<1>0. 1 \in DOMAIN line /\ 1 \in DOMAIN line[1]
  OBVIOUS
<1>1. Pipeline!Number(line[1][1]) \in u .. v
  BY <1>0 DEF Pipeline!Carries, Pipeline!Only
<1>2. ASSUME NEW l \in 1 .. N, NEW i \in DOMAIN line[l], l # 1 \/ i # 1, line[l][i].destination = c
      PROVE  Pipeline!Number(line[1][1]) < Pipeline!Number(line[l][i])
  <2>1. Pipeline!Before(1, 1, l, i)
    BY <1>2 DEF Pipeline!Before
  <2> QED BY <1>0, <1>2, <2>1 DEF Pipeline!Carries, Pipeline!InOrder
<1>3. line[1][1] = Pipeline!Numbered(c, u) /\ u <= v
  <2>1. u \in u .. v
    BY <1>1
  <2>2. PICK l \in 1 .. N : \E i \in DOMAIN line[l] : line[l][i] = Pipeline!Numbered(c, u)
    BY <2>1 DEF Pipeline!Carries, Pipeline!All
  <2>3. PICK i \in DOMAIN line[l] : line[l][i] = Pipeline!Numbered(c, u)
    BY <2>2
  <2>4. Pipeline!Number(line[l][i]) = u /\ line[l][i].destination = c
    BY <2>3, NumberOfNumbered
  <2>5. l = 1 /\ i = 1
    BY <1>1, <1>2, <2>4
  <2> QED BY <2>1, <2>3, <2>5
<1>4. Pipeline!Number(line[1][1]) = u
  BY <1>3, NumberOfNumbered
<1>5. ASSUME NEW l \in 1 .. N, NEW i \in DOMAIN next[l]
      PROVE  /\ place(l, i) \in DOMAIN line[l] /\ next[l][i] = line[l][place(l, i)]
             /\ l # 1 \/ place(l, i) # 1
  BY DOMAIN line[1] = 1 .. a + 1
<1>6. ASSUME NEW l \in 1 .. N, NEW i \in DOMAIN line[l], l # 1 \/ i # 1
      PROVE  \E j \in DOMAIN next[l] : next[l][j] = line[l][i]
  <2>1. CASE l = 1
    <3>1. i - 1 \in DOMAIN next[l] /\ next[l][i - 1] = line[l][i]
      BY <2>1, <1>6
    <3> QED BY <3>1
  <2>2. CASE l # 1
    BY <2>2
  <2> QED BY <2>1, <2>2
<1>7. ASSUME NEW l \in 1 .. N, NEW m \in 1 .. N, NEW i \in DOMAIN next[l], NEW j \in DOMAIN next[m],
             Pipeline!Before(l, i, m, j)
      PROVE  Pipeline!Before(l, place(l, i), m, place(m, j))
  BY <1>7 DEF Pipeline!Before
<1> HIDE DEF place
<1>8. Pipeline!Only(c, next, u + 1 .. v)
  <2> SUFFICES ASSUME NEW l \in 1 .. N, NEW i \in DOMAIN next[l], next[l][i].destination = c
               PROVE  Pipeline!Number(next[l][i]) \in u + 1 .. v
    BY DEF Pipeline!Only
  <2>0. /\ place(l, i) \in DOMAIN line[l] /\ next[l][i] = line[l][place(l, i)]
        /\ l # 1 \/ place(l, i) # 1
    BY <1>5
  <2>1. Pipeline!Number(line[l][place(l, i)]) \in u .. v
    BY <2>0 DEF Pipeline!Carries, Pipeline!Only
  <2>2. u < Pipeline!Number(line[l][place(l, i)])
    BY <1>2, <1>4, <2>0
  <2> QED BY <2>0, <2>1, <2>2
<1>9. Pipeline!All(c, next, u + 1 .. v)
  <2> SUFFICES ASSUME NEW n \in u + 1 .. v
               PROVE  \E l \in DOMAIN next : \E j \in DOMAIN next[l] : next[l][j] = Pipeline!Numbered(c, n)
    BY DEF Pipeline!All
  <2>1. PICK l \in 1 .. N : \E i \in DOMAIN line[l] : line[l][i] = Pipeline!Numbered(c, n)
    BY n \in u .. v DEF Pipeline!Carries, Pipeline!All
  <2>2. PICK i \in DOMAIN line[l] : line[l][i] = Pipeline!Numbered(c, n)
    BY <2>1
  <2>3. Pipeline!Number(line[l][i]) = n
    BY <2>2, NumberOfNumbered
  <2>4. l # 1 \/ i # 1
    BY <2>3, <1>4
  <2>5. \E j \in DOMAIN next[l] : next[l][j] = line[l][i]
    BY <2>4, <1>6
  <2> QED BY <2>2, <2>5
<1>10. Pipeline!InOrder(c, next)
  <2> SUFFICES ASSUME NEW l \in DOMAIN next, NEW m \in DOMAIN next,
                      NEW i \in DOMAIN next[l], NEW j \in DOMAIN next[m],
                      next[l][i].destination = c, next[m][j].destination = c,
                      Pipeline!Before(l, i, m, j)
               PROVE  Pipeline!Number(next[l][i]) < Pipeline!Number(next[m][j])
    BY DEF Pipeline!InOrder
  <2>1. /\ place(l, i) \in DOMAIN line[l] /\ next[l][i] = line[l][place(l, i)]
        /\ place(m, j) \in DOMAIN line[m] /\ next[m][j] = line[m][place(m, j)]
    BY <1>5
  <2>2. Pipeline!Before(l, place(l, i), m, place(m, j))
    BY <1>7
  <2>3. Pipeline!InOrder(c, line)
    BY DEF Pipeline!Carries
  <2>4. Pipeline!Number(line[l][place(l, i)]) < Pipeline!Number(line[m][place(m, j)])
    BY <2>1, <2>2, <2>3 DEF Pipeline!InOrder
  <2> QED BY <2>1, <2>4
<1> QED BY <1>3, <1>8, <1>9, <1>10 DEF Pipeline!Carries

-----------------------------------------------------------------------------
(* The pipeline.                                                            *)

\* The producers whose done message the Transmitter has yet to take, and those
\* whose done message the Receiver has yet to pass on: what nProducers counts.
TransmitterAwaits ==
  {p \in Pairs : \/ pPc[p] = "run"
                 \/ \E i \in DOMAIN p2tq : p2tq[i].destination = p /\ Pipeline!IsDone(p2tq[i])}
ReceiverAwaits == {p \in Pairs : \A i \in DOMAIN r2cq[p] : ~Pipeline!IsDone(r2cq[p][i])}

\* The Transmitter counts right, returns for want of producers only if there is
\* none left, and sends no empty block.
TransmitterCounts ==
  /\ tActive = Cardinality(TransmitterAwaits)
  /\ tPc = "exit" /\ ~ShutDown => TransmitterAwaits = {}
  /\ tPc \in {"check", "get"} => TransmitterAwaits # {}
  /\ tPc = "get" => Len(tBlock) < TBLOCK_SIZE
  /\ tPc = "put" => tBlock # <<>>

\* The same of the Receiver, which has a block exactly while it passes it on.
ReceiverCounts ==
  /\ rActive = Cardinality(ReceiverAwaits)
  /\ rPc = "exit" /\ ~ShutDown => ReceiverAwaits = {}
  /\ rPc = "put" => rBlock # <<>>
  /\ rPc \in {"check", "get"} => rBlock = <<>>

\* A consumer is never ahead of its producer, and runs only for what it lacks.
PairsCount ==
  \A p \in Pairs : /\ pPc[p] = "exit" => produced[p] = goal
                   /\ consumed[p] <= produced[p]
                   /\ cPc[p] = "run" => consumed[p] < goal

\* The inductive invariant of the pipeline.
PipelineInv ==
  Pipeline!TypeOK /\ Pipeline!PipelineOrder /\ PairsCount /\ TransmitterCounts /\ ReceiverCounts

\* A sequence with one element more, or without its first, element by element.
LEMMA AppendIs ==
  ASSUME NEW S, NEW s \in Seq(S), NEW e \in S
  PROVE  /\ Append(s, e) \in Seq(S) /\ Len(s) \in Nat /\ Len(Append(s, e)) = Len(s) + 1
         /\ DOMAIN s = 1 .. Len(s) /\ DOMAIN Append(s, e) = 1 .. Len(s) + 1
         /\ \A i \in 1 .. Len(s) : Append(s, e)[i] = s[i]
         /\ Append(s, e)[Len(s) + 1] = e
OBVIOUS

LEMMA TailIs ==
  ASSUME NEW S, NEW s \in Seq(S), s # <<>>
  PROVE  /\ Tail(s) \in Seq(S) /\ Len(s) - 1 \in Nat /\ Len(Tail(s)) = Len(s) - 1
         /\ DOMAIN s = 1 .. Len(s) /\ DOMAIN Tail(s) = 1 .. Len(s) - 1
         /\ \A i \in 1 .. Len(s) - 1 : Tail(s)[i] = s[i + 1]
         /\ Head(s) = s[1] /\ s[1] \in S /\ 1 \in DOMAIN s
OBVIOUS

\* What the type invariant says of the blocks between Transmitter and Receiver.
BlocksAre ==
  \A k \in 1 .. Len(t2rq) : t2rq[k] \in Seq(Pipeline!Message) /\ Len(t2rq[k]) \in 1 .. TBLOCK_SIZE

LEMMA BlocksAreRight ==
  ASSUME Pipeline!TypeOK
  PROVE  BlocksAre
<1>1. t2rq \in Seq(Seq(Pipeline!Message))
  BY DEF Pipeline!TypeOK
<1>2. \A b \in Pipeline!Range(t2rq) : Len(b) \in 1 .. TBLOCK_SIZE
  BY DEF Pipeline!TypeOK
<1> QED BY <1>1, <1>2 DEF BlocksAre, Pipeline!Range

\* The parts of the line to consumer c, before and after a step.
LEMMA PartsOfLine ==
  ASSUME Pipeline!TypeOK, NEW c \in Pairs
  PROVE  LET n == Len(t2rq) IN
         /\ n \in Nat /\ DOMAIN Pipeline!Line(c) = 1 .. n + 4
         /\ Pipeline!Line(c)[1] = r2cq[c] /\ Pipeline!Line(c)[2] = rBlock
         /\ \A k \in 1 .. n : Pipeline!Line(c)[k + 2] = t2rq[k]
         /\ Pipeline!Line(c)[n + 3] = IF tPc \in {"get", "put"} THEN tBlock ELSE <<>>
         /\ Pipeline!Line(c)[n + 4] = p2tq
<1>1. Len(t2rq) \in Nat
  BY DEF Pipeline!TypeOK
<1> QED BY <1>1 DEF Pipeline!Line

LEMMA PartsOfLineAfter ==
  ASSUME Len(t2rq') \in Nat, NEW c \in Pairs
  PROVE  LET n == Len(t2rq') IN
         /\ DOMAIN Pipeline!Line(c)' = 1 .. n + 4
         /\ Pipeline!Line(c)'[1] = r2cq'[c] /\ Pipeline!Line(c)'[2] = rBlock'
         /\ \A k \in 1 .. n : Pipeline!Line(c)'[k + 2] = t2rq'[k]
         /\ Pipeline!Line(c)'[n + 3] = IF tPc' \in {"get", "put"} THEN tBlock' ELSE <<>>
         /\ Pipeline!Line(c)'[n + 4] = p2tq'
BY DEF Pipeline!Line

\* The parts of the line are sequences of messages.
LEMMA LineIsSeq ==
  ASSUME Pipeline!TypeOK, NEW c \in Pairs, NEW k \in DOMAIN Pipeline!Line(c)
  PROVE  Pipeline!Line(c)[k] \in Seq(Pipeline!Message)
<1> DEFINE n == Len(t2rq)
<1>1. /\ n \in Nat /\ k \in 1 .. n + 4
      /\ Pipeline!Line(c)[1] = r2cq[c] /\ Pipeline!Line(c)[2] = rBlock
      /\ \A i \in 1 .. n : Pipeline!Line(c)[i + 2] = t2rq[i]
      /\ Pipeline!Line(c)[n + 3] = IF tPc \in {"get", "put"} THEN tBlock ELSE <<>>
      /\ Pipeline!Line(c)[n + 4] = p2tq
  BY PartsOfLine
<1> HIDE DEF n
<1>2. CASE k = 1
  BY <1>1, <1>2 DEF Pipeline!TypeOK
<1>3. CASE k = 2
  BY <1>1, <1>3 DEF Pipeline!TypeOK
<1>4. CASE k = n + 3
  <2>1. tBlock \in Seq(Pipeline!Message) /\ <<>> \in Seq(Pipeline!Message)
    BY DEF Pipeline!TypeOK
  <2>2. CASE tPc \in {"get", "put"}
    BY <1>1, <1>4, <2>1, <2>2
  <2>3. CASE tPc \notin {"get", "put"}
    BY <1>1, <1>4, <2>1, <2>3
  <2> QED BY <2>2, <2>3
<1>5. CASE k = n + 4
  BY <1>1, <1>5 DEF Pipeline!TypeOK
<1>6. CASE k \in 3 .. n + 2
  <2>1. k - 2 \in 1 .. n /\ Pipeline!Line(c)[k] = t2rq[k - 2]
    <3>1. k - 2 \in 1 .. n
      BY <1>1, <1>6
    <3>2. Pipeline!Line(c)[k - 2 + 2] = t2rq[k - 2]
      BY <1>1, <3>1
    <3>3. k - 2 + 2 = k
      BY <1>1
    <3> QED BY <3>1, <3>2, <3>3
  <2> QED BY <2>1, BlocksAreRight DEF BlocksAre, n
<1> QED BY <1>1, <1>2, <1>3, <1>4, <1>5, <1>6
\* The order survives each action.  A producer adds its next message to the end of
\* its own line, and to the end of the others a message that is not theirs.
LEMMA ProducerOrder ==
  ASSUME Pipeline!ThreeStageAssumption, PipelineInv, NEW p \in Pairs, Pipeline!ProducerPut(p)
  PROVE  Pipeline!PipelineOrder'
<1> DEFINE n == Len(t2rq)  N == n + 4
           m == IF produced[p] < goal THEN Pipeline!Msg(p, produced[p])
                                      ELSE Pipeline!Msg(p, Pipeline!DoneSeq)
           v == IF produced[p] < goal THEN produced[p] ELSE goal
<1>1. /\ p2tq \in Seq(Pipeline!Message) /\ n \in Nat /\ goal \in Nat
      /\ produced \in [Pairs -> 0 .. goal] /\ consumed \in [Pairs -> 0 .. goal]
      /\ pPc \in [Pairs -> {"run", "exit"}]
  <2>1. Pipeline!TypeOK
    BY DEF PipelineInv
  <2>2. /\ p2tq \in Seq(Pipeline!Message) /\ t2rq \in Seq(Seq(Pipeline!Message))
        /\ produced \in [Pairs -> 0 .. goal] /\ consumed \in [Pairs -> 0 .. goal]
        /\ pPc \in [Pairs -> {"run", "exit"}]
    BY ONLY <2>1 DEF Pipeline!TypeOK
  <2>3. goal \in Nat
    BY DEF Pipeline!ThreeStageAssumption
  <2> QED BY <2>2, <2>3
<1>2. /\ p2tq' = Append(p2tq, m) /\ pPc[p] = "run"
      /\ t2rq' = t2rq /\ r2cq' = r2cq /\ rBlock' = rBlock /\ tBlock' = tBlock /\ tPc' = tPc
      /\ consumed' = consumed
  BY DEF Pipeline!ProducerPut, Pipeline!tVars, Pipeline!rVars, Pipeline!cVars
<1>3. m \in Pipeline!Message /\ m.destination = p /\ m = Pipeline!Numbered(p, v) /\ v \in Nat
  BY <1>1 DEF Pipeline!Message, Pipeline!Msg, Pipeline!Numbered, Pipeline!DoneSeq
<1>4. Pipeline!Underway(p) = consumed[p] .. v - 1 /\ Pipeline!Underway(p)' = consumed[p] .. v
  <2>1. CASE produced[p] < goal
    <3>1. pPc' = pPc /\ produced'[p] = produced[p] + 1
      BY <2>1, <1>1 DEF Pipeline!ProducerPut
    <3> QED BY <2>1, <3>1, <1>1, <1>2 DEF Pipeline!Underway
  <2>2. CASE ~(produced[p] < goal)
    <3>1. pPc'[p] = "exit" /\ produced[p] = goal
      BY <2>2, <1>1 DEF Pipeline!ProducerPut
    <3> QED BY <2>2, <3>1, <1>1, <1>2 DEF Pipeline!Underway
  <2> QED BY <2>1, <2>2
<1>5. ASSUME NEW d \in Pairs, d # p
      PROVE  Pipeline!Underway(d)' = Pipeline!Underway(d)
  BY <1>1, <1>2, <1>5 DEF Pipeline!Underway, Pipeline!ProducerPut
<1>6. consumed[p] <= v
  BY <1>1 DEF PipelineInv, PairsCount
<1>7. ASSUME NEW c \in Pairs
      PROVE  /\ N \in Nat /\ N # 0 /\ DOMAIN Pipeline!Line(c) = 1 .. N /\ DOMAIN Pipeline!Line(c)' = 1 .. N
             /\ Pipeline!Line(c)[N] = p2tq /\ Pipeline!Line(c)'[N] = p2tq'
             /\ \A l \in 1 .. N : l # N => Pipeline!Line(c)'[l] = Pipeline!Line(c)[l]
  BY <1>1, <1>2 DEF Pipeline!Line
<1>8. /\ Len(p2tq) \in Nat /\ DOMAIN p2tq = 1 .. Len(p2tq) /\ DOMAIN p2tq' = 1 .. Len(p2tq) + 1
      /\ \A i \in 1 .. Len(p2tq) : p2tq'[i] = p2tq[i]
      /\ p2tq'[Len(p2tq) + 1] = m
  BY <1>1, <1>2, <1>3, AppendIs
<1>9. ASSUME NEW c \in Pairs
      PROVE  Pipeline!Carries(c, Pipeline!Line(c), Pipeline!Underway(c))
  BY DEF PipelineInv, Pipeline!PipelineOrder
<1> HIDE DEF n, N, m, v
<1>10. ASSUME NEW c \in Pairs
       PROVE  Pipeline!Carries(c, Pipeline!Line(c)', Pipeline!Underway(c)')
  <2> DEFINE line == Pipeline!Line(c)  next == Pipeline!Line(c)'
  <2> HIDE DEF line, next
  <2>1. /\ N \in Nat /\ N # 0 /\ N \in 1 .. N /\ DOMAIN line = 1 .. N /\ DOMAIN next = 1 .. N
        /\ line[N] = p2tq /\ next[N] = p2tq'
        /\ \A l \in 1 .. N : l # N => next[l] = line[l]
    BY <1>7 DEF line, next
  <2>2. CASE c = p
    <3>1. Pipeline!Carries(c, line, consumed[p] .. v - 1)
      BY <2>2, <1>4, <1>9 DEF line
    <3>2. consumed[p] \in Nat
      BY <1>1
    <3>3. next[N][Len(p2tq) + 1] = Pipeline!Numbered(c, v) /\ v \in Nat
      BY <1>3, <1>8, <2>1, <2>2
    <3>4. /\ DOMAIN line[N] = 1 .. Len(p2tq) /\ DOMAIN next[N] = 1 .. Len(p2tq) + 1
          /\ \A i \in 1 .. Len(p2tq) : next[N][i] = line[N][i]
      BY <1>8, <2>1
    <3>5. Pipeline!Carries(c, next, consumed[p] .. v)
      BY <1>6, <1>8, <2>1, <3>1, <3>2, <3>3, <3>4, CarriesAdd
    <3> QED BY <2>2, <3>5, <1>4 DEF next
  <2>3. CASE c # p
    <3>1. Pipeline!Carries(c, line, Pipeline!Underway(c))
      BY <1>9 DEF line
    <3>2. p2tq'[Len(p2tq) + 1].destination # c
      BY <1>3, <1>8, <2>3
    <3>3. Pipeline!Carries(c, next, Pipeline!Underway(c))
      BY <1>8, <2>1, <3>1, <3>2, CarriesAddOther
    <3> QED BY <2>3, <3>3, <1>5 DEF next
  <2> QED BY <2>2, <2>3
<1>11. \A c \in Pairs : \A i \in DOMAIN r2cq'[c] : r2cq'[c][i].destination = c
  BY <1>2 DEF PipelineInv, Pipeline!PipelineOrder
<1> QED BY <1>10, <1>11 DEF Pipeline!PipelineOrder, Pipeline!Carries

\* A message moves from p2tq to the block that is being packed.
LEMMA TransmitterGetOrder ==
  ASSUME Pipeline!ThreeStageAssumption, PipelineInv, Pipeline!TransmitterGet
  PROVE  Pipeline!PipelineOrder'
<1> DEFINE n == Len(t2rq)  N == n + 4  a == Len(tBlock)  b == Len(p2tq) - 1
<1>1. /\ p2tq \in Seq(Pipeline!Message) /\ tBlock \in Seq(Pipeline!Message) /\ n \in Nat /\ p2tq # <<>>
  BY DEF PipelineInv, Pipeline!TypeOK, Pipeline!TransmitterGet
<1>2. /\ p2tq' = Tail(p2tq) /\ tBlock' = Append(tBlock, Head(p2tq))
      /\ tPc = "get" /\ tPc' \in {"get", "put"}
      /\ t2rq' = t2rq /\ r2cq' = r2cq /\ rBlock' = rBlock
      /\ produced' = produced /\ pPc' = pPc /\ consumed' = consumed
  BY DEF Pipeline!TransmitterGet, Pipeline!pVars, Pipeline!rVars, Pipeline!cVars
<1>3. /\ DOMAIN p2tq = 1 .. b + 1 /\ b \in Nat /\ DOMAIN p2tq' = 1 .. b
      /\ \A i \in 1 .. b : p2tq'[i] = p2tq[i + 1]
      /\ Head(p2tq) = p2tq[1] /\ p2tq[1] \in Pipeline!Message
  BY <1>1, <1>2, TailIs
<1>4. /\ a \in Nat /\ DOMAIN tBlock = 1 .. a /\ DOMAIN tBlock' = 1 .. a + 1
      /\ \A i \in 1 .. a : tBlock'[i] = tBlock[i]
      /\ tBlock'[a + 1] = p2tq[1]
  BY <1>1, <1>2, <1>3, AppendIs
<1>5. ASSUME NEW c \in Pairs
      PROVE  Pipeline!Carries(c, Pipeline!Line(c), Pipeline!Underway(c))
  BY DEF PipelineInv, Pipeline!PipelineOrder
<1>6. ASSUME NEW c \in Pairs
      PROVE  /\ N \in Nat /\ N - 1 \in 1 .. N /\ N - 1 + 1 = N /\ N - 1 + 1 \in 1 .. N
             /\ DOMAIN Pipeline!Line(c) = 1 .. N /\ DOMAIN Pipeline!Line(c)' = 1 .. N
             /\ Pipeline!Line(c)[N] = p2tq /\ Pipeline!Line(c)'[N] = p2tq'
             /\ Pipeline!Line(c)[N - 1] = tBlock /\ Pipeline!Line(c)'[N - 1] = tBlock'
             /\ \A l \in 1 .. N : l # N - 1 /\ l # N - 1 + 1 => Pipeline!Line(c)'[l] = Pipeline!Line(c)[l]
  BY <1>1, <1>2 DEF Pipeline!Line
<1>7. ASSUME NEW c \in Pairs
      PROVE  Pipeline!Underway(c)' = Pipeline!Underway(c)
  BY <1>2 DEF Pipeline!Underway
<1> HIDE DEF n, N, a, b
<1>8. ASSUME NEW c \in Pairs
      PROVE  Pipeline!Carries(c, Pipeline!Line(c)', Pipeline!Underway(c)')
  <2> DEFINE line == Pipeline!Line(c)  next == Pipeline!Line(c)'  k == N - 1
  <2>1. /\ N \in Nat /\ k \in 1 .. N /\ k + 1 \in 1 .. N
        /\ DOMAIN line = 1 .. N /\ DOMAIN next = 1 .. N
        /\ line[k] = tBlock /\ next[k] = tBlock' /\ line[k + 1] = p2tq /\ next[k + 1] = p2tq'
        /\ \A l \in 1 .. N : l # k /\ l # k + 1 => next[l] = line[l]
    BY <1>6
  <2>2. Pipeline!Carries(c, line, Pipeline!Underway(c))
    BY <1>5
  <2> HIDE DEF line, next, k
  <2>3. /\ DOMAIN line[k] = 1 .. a /\ DOMAIN next[k] = 1 .. a + 1
        /\ \A i \in 1 .. a : next[k][i] = line[k][i]
        /\ next[k][a + 1] = line[k + 1][1]
        /\ DOMAIN line[k + 1] = 1 .. b + 1 /\ DOMAIN next[k + 1] = 1 .. b
        /\ \A i \in 1 .. b : next[k + 1][i] = line[k + 1][i + 1]
    BY <1>3, <1>4, <2>1
  <2>4. Moved(line, next, N, k, a, b)
    BY <1>3, <1>4, <2>1, <2>3 DEF Moved
  <2>5. Pipeline!Carries(c, next, Pipeline!Underway(c))
    BY <2>2, <2>4, CarriesMove
  <2> QED BY <2>5, <1>7 DEF next
<1>9. \A c \in Pairs : \A i \in DOMAIN r2cq'[c] : r2cq'[c][i].destination = c
  BY <1>2 DEF PipelineInv, Pipeline!PipelineOrder
<1> QED BY <1>8, <1>9 DEF Pipeline!PipelineOrder, Pipeline!Carries

\* The packed block becomes the last of t2rq, an empty one takes its place.
LEMMA TransmitterPutOrder ==
  ASSUME Pipeline!ThreeStageAssumption, PipelineInv, Pipeline!TransmitterPut
  PROVE  Pipeline!PipelineOrder'
<1> DEFINE n == Len(t2rq)  M == n + 4  N == n + 5
           o == [k \in 1 .. N |-> IF k < N - 1 THEN k ELSE k - 1]
<1>1. t2rq \in Seq(Seq(Pipeline!Message)) /\ tBlock \in Seq(Pipeline!Message) /\ n \in Nat
  BY DEF PipelineInv, Pipeline!TypeOK
<1>2. /\ t2rq' = Append(t2rq, tBlock) /\ tPc = "put" /\ tPc' \in {"exit", "check"}
      /\ p2tq' = p2tq /\ tBlock' = tBlock /\ r2cq' = r2cq /\ rBlock' = rBlock
      /\ produced' = produced /\ pPc' = pPc /\ consumed' = consumed
  BY DEF Pipeline!TransmitterPut, Pipeline!pVars, Pipeline!rVars, Pipeline!cVars
<1>3. /\ Len(t2rq') = n + 1 /\ \A k \in 1 .. n : t2rq'[k] = t2rq[k]
      /\ t2rq'[n + 1] = tBlock
  BY <1>1, <1>2, AppendIs
<1>4. ASSUME NEW c \in Pairs
      PROVE  Pipeline!Carries(c, Pipeline!Line(c), Pipeline!Underway(c))
  BY DEF PipelineInv, Pipeline!PipelineOrder
<1>5. ASSUME NEW c \in Pairs
      PROVE  /\ DOMAIN Pipeline!Line(c) = 1 .. M /\ DOMAIN Pipeline!Line(c)' = 1 .. N
             /\ \A k \in 1 .. N - 2 : Pipeline!Line(c)'[k] = Pipeline!Line(c)[k]
             /\ Pipeline!Line(c)'[N - 1] = <<>> /\ Pipeline!Line(c)'[N] = Pipeline!Line(c)[M]
  BY <1>1, <1>2, <1>3 DEF Pipeline!Line
<1>6. ASSUME NEW c \in Pairs
      PROVE  Pipeline!Underway(c)' = Pipeline!Underway(c)
  BY <1>2 DEF Pipeline!Underway
<1>7. ASSUME NEW c \in Pairs
      PROVE  Pipeline!Carries(c, Pipeline!Line(c)', Pipeline!Underway(c)')
  <2> DEFINE line == Pipeline!Line(c)  next == Pipeline!Line(c)'
  <2>1. /\ M \in Nat /\ N \in Nat /\ N = M + 1 /\ M > 3 /\ DOMAIN line = 1 .. M /\ DOMAIN next = 1 .. N
        /\ \A k \in 1 .. N - 2 : next[k] = line[k]
        /\ DOMAIN next[N - 1] = {} /\ next[N] = line[M]
    BY <1>1, <1>5
  <2>2. Pipeline!Carries(c, line, Pipeline!Underway(c))
    BY <1>4
  <2> HIDE DEF line, next, n, M, N
  <2>3. \A k \in 1 .. N : DOMAIN next[k] # {} => o[k] \in 1 .. M /\ next[k] = line[o[k]]
    BY <2>1
  <2>4. \A k, l \in 1 .. N : k < l /\ DOMAIN next[k] # {} /\ DOMAIN next[l] # {} => o[k] < o[l]
    BY <2>1
  <2>5. \A k \in 1 .. M : DOMAIN line[k] # {} => \E l \in 1 .. N : next[l] = line[k]
    <3>1. N \in 1 .. N /\ \A k \in 1 .. M : k = M \/ (k \in 1 .. N - 2 /\ k \in 1 .. N)
      BY <2>1
    <3> QED BY <2>1, <3>1
  <2> HIDE DEF o
  <2>6. Shifted(line, next, M, N, o)
    BY <2>1, <2>3, <2>4, <2>5 DEF Shifted
  <2>7. Pipeline!Carries(c, next, Pipeline!Underway(c))
    BY <2>2, <2>6, CarriesShift
  <2> QED BY <2>7, <1>6 DEF next
<1>8. \A c \in Pairs : \A i \in DOMAIN r2cq'[c] : r2cq'[c][i].destination = c
  BY <1>2 DEF PipelineInv, Pipeline!PipelineOrder
<1> QED BY <1>7, <1>8 DEF Pipeline!PipelineOrder, Pipeline!Carries

\* The first block of t2rq takes the place of the Receiver's empty one.
LEMMA ReceiverGetOrder ==
  ASSUME Pipeline!ThreeStageAssumption, PipelineInv, Pipeline!ReceiverGet
  PROVE  Pipeline!PipelineOrder'
<1> DEFINE n == Len(t2rq)  M == n + 4  N == n + 3
           o == [k \in 1 .. N |-> IF k = 1 THEN 1 ELSE k + 1]
<1>1. /\ t2rq \in Seq(Seq(Pipeline!Message)) /\ t2rq # <<>> /\ n \in Nat
      /\ rPc = "get" /\ rBlock = <<>>
  BY DEF PipelineInv, Pipeline!TypeOK, Pipeline!ReceiverGet, ReceiverCounts
<1>2. /\ t2rq' = Tail(t2rq) /\ rBlock' = Head(t2rq)
      /\ p2tq' = p2tq /\ tBlock' = tBlock /\ tPc' = tPc /\ r2cq' = r2cq
      /\ produced' = produced /\ pPc' = pPc /\ consumed' = consumed
  BY DEF Pipeline!ReceiverGet, Pipeline!pVars, Pipeline!tVars, Pipeline!cVars
<1>3. /\ Len(t2rq') = n - 1 /\ \A k \in 1 .. n - 1 : t2rq'[k] = t2rq[k + 1]
      /\ rBlock' = t2rq[1] /\ n - 1 \in Nat
  BY <1>1, <1>2, TailIs
<1>4. ASSUME NEW c \in Pairs
      PROVE  Pipeline!Carries(c, Pipeline!Line(c), Pipeline!Underway(c))
  BY DEF PipelineInv, Pipeline!PipelineOrder
<1>5. ASSUME NEW c \in Pairs
      PROVE  /\ DOMAIN Pipeline!Line(c) = 1 .. M /\ DOMAIN Pipeline!Line(c)' = 1 .. N
             /\ Pipeline!Line(c)'[1] = Pipeline!Line(c)[1] /\ Pipeline!Line(c)[2] = <<>>
             /\ \A k \in 2 .. N : Pipeline!Line(c)'[k] = Pipeline!Line(c)[k + 1]
  <2>1. /\ DOMAIN Pipeline!Line(c) = 1 .. M /\ DOMAIN Pipeline!Line(c)' = 1 .. N
        /\ Pipeline!Line(c)'[1] = Pipeline!Line(c)[1] /\ Pipeline!Line(c)[2] = <<>>
        /\ Pipeline!Line(c)'[2] = Pipeline!Line(c)[3]
        /\ Pipeline!Line(c)'[N] = Pipeline!Line(c)[M]
        /\ Pipeline!Line(c)'[N - 1] = Pipeline!Line(c)[M - 1]
    BY <1>1, <1>2, <1>3 DEF Pipeline!Line
  <2>2. ASSUME NEW k \in 3 .. N - 2
        PROVE  Pipeline!Line(c)'[k] = Pipeline!Line(c)[k + 1]
    <3>1. k - 2 \in 1 .. n - 1
      BY <1>1
    <3>2. t2rq'[k - 2] = t2rq[k - 2 + 1] /\ k - 2 + 1 = k + 1 - 2
      BY <1>1, <1>3, <3>1
    <3>3. Pipeline!Line(c)'[k] = t2rq'[k - 2]
      BY <1>1, <1>3 DEF Pipeline!Line
    <3>4. Pipeline!Line(c)[k + 1] = t2rq[k + 1 - 2]
      BY <1>1 DEF Pipeline!Line
    <3> QED BY <3>2, <3>3, <3>4
  <2>3. \A k \in 2 .. N : k = 2 \/ k = N \/ k = N - 1 \/ k \in 3 .. N - 2
    BY <1>1
  <2>4. M = N + 1 /\ M - 1 = N - 1 + 1 /\ 3 = 2 + 1
    BY <1>1
  <2> QED BY <2>1, <2>2, <2>3, <2>4
<1>6. ASSUME NEW c \in Pairs
      PROVE  Pipeline!Underway(c)' = Pipeline!Underway(c)
  BY <1>2 DEF Pipeline!Underway
<1>7. ASSUME NEW c \in Pairs
      PROVE  Pipeline!Carries(c, Pipeline!Line(c)', Pipeline!Underway(c)')
  <2> DEFINE line == Pipeline!Line(c)  next == Pipeline!Line(c)'
  <2>1. /\ M \in Nat /\ N \in Nat /\ M = N + 1 /\ N > 3 /\ DOMAIN line = 1 .. M /\ DOMAIN next = 1 .. N
        /\ next[1] = line[1] /\ DOMAIN line[2] = {}
        /\ \A k \in 2 .. N : next[k] = line[k + 1]
    BY <1>1, <1>3, <1>5
  <2>2. Pipeline!Carries(c, line, Pipeline!Underway(c))
    BY <1>4
  <2> HIDE DEF line, next, n, M, N
  <2>3. \A k \in 1 .. N : DOMAIN next[k] # {} => o[k] \in 1 .. M /\ next[k] = line[o[k]]
    BY <2>1
  <2>4. \A k, l \in 1 .. N : k < l /\ DOMAIN next[k] # {} /\ DOMAIN next[l] # {} => o[k] < o[l]
    BY <2>1
  <2>5. \A k \in 1 .. M : DOMAIN line[k] # {} => \E l \in 1 .. N : next[l] = line[k]
    <3> SUFFICES ASSUME NEW k \in 1 .. M, DOMAIN line[k] # {}
                 PROVE  \E l \in 1 .. N : next[l] = line[k]
      OBVIOUS
    <3>1. CASE k = 1
      BY <2>1, <3>1, 1 \in 1 .. N
    <3>2. CASE k # 1
      <4>1. k # 2
        BY <2>1
      <4>2. k - 1 \in 2 .. N /\ k - 1 \in 1 .. N /\ k - 1 + 1 = k
        BY <2>1, <3>2, <4>1
      <4>3. next[k - 1] = line[k]
        BY <2>1, <4>2
      <4> QED BY <4>2, <4>3
    <3> QED BY <3>1, <3>2
  <2> HIDE DEF o
  <2>6. Shifted(line, next, M, N, o)
    BY <2>1, <2>3, <2>4, <2>5 DEF Shifted
  <2>7. Pipeline!Carries(c, next, Pipeline!Underway(c))
    BY <2>2, <2>6, CarriesShift
  <2> QED BY <2>7, <1>6 DEF next
<1>8. \A c \in Pairs : \A i \in DOMAIN r2cq'[c] : r2cq'[c][i].destination = c
  BY <1>2 DEF PipelineInv, Pipeline!PipelineOrder
<1> QED BY <1>7, <1>8 DEF Pipeline!PipelineOrder, Pipeline!Carries

\* A message moves from the Receiver's block to the queue of its consumer, and
\* leaves the lines of the others.
LEMMA ReceiverPutOrder ==
  ASSUME Pipeline!ThreeStageAssumption, PipelineInv, Pipeline!ReceiverPut
  PROVE  Pipeline!PipelineOrder'
<1> DEFINE N == Len(t2rq) + 4  b == Len(rBlock) - 1  m == Head(rBlock)
           e == m.destination  a == Len(r2cq[e])
<1>1. /\ rBlock \in Seq(Pipeline!Message) /\ rBlock # <<>> /\ Len(t2rq) \in Nat
      /\ r2cq \in [Pairs -> Seq(Pipeline!Message)]
  BY DEF PipelineInv, Pipeline!TypeOK, Pipeline!ReceiverPut, ReceiverCounts
<1>2. /\ rBlock' = Tail(rBlock) /\ r2cq' = [r2cq EXCEPT ![e] = Append(@, m)]
      /\ p2tq' = p2tq /\ t2rq' = t2rq /\ tBlock' = tBlock /\ tPc' = tPc
      /\ produced' = produced /\ pPc' = pPc /\ consumed' = consumed
  BY DEF Pipeline!ReceiverPut, Pipeline!pVars, Pipeline!tVars, Pipeline!cVars
<1>3. /\ DOMAIN rBlock = 1 .. b + 1 /\ b \in Nat /\ DOMAIN rBlock' = 1 .. b
      /\ \A i \in 1 .. b : rBlock'[i] = rBlock[i + 1]
      /\ m = rBlock[1] /\ m \in Pipeline!Message
  BY <1>1, <1>2, TailIs
<1>4. e \in Pairs /\ r2cq[e] \in Seq(Pipeline!Message) /\ r2cq'[e] = Append(r2cq[e], m)
      /\ \A c \in Pairs : c # e => r2cq'[c] = r2cq[c]
  <2>1. e \in Pairs
    BY <1>3 DEF Pipeline!Message
  <2> HIDE DEF e, m
  <2> QED BY <1>1, <1>2, <2>1
<1>5. /\ a \in Nat /\ DOMAIN r2cq[e] = 1 .. a /\ DOMAIN r2cq'[e] = 1 .. a + 1
      /\ \A i \in 1 .. a : r2cq'[e][i] = r2cq[e][i]
      /\ r2cq'[e][a + 1] = m
  BY <1>3, <1>4, AppendIs
<1>6. ASSUME NEW c \in Pairs
      PROVE  Pipeline!Carries(c, Pipeline!Line(c), Pipeline!Underway(c))
  BY DEF PipelineInv, Pipeline!PipelineOrder
<1>7. ASSUME NEW c \in Pairs
      PROVE  /\ N \in Nat /\ 1 \in 1 .. N /\ 1 + 1 \in 1 .. N /\ 1 + 1 = 2
             /\ DOMAIN Pipeline!Line(c) = 1 .. N /\ DOMAIN Pipeline!Line(c)' = 1 .. N
             /\ Pipeline!Line(c)[1] = r2cq[c] /\ Pipeline!Line(c)'[1] = r2cq'[c]
             /\ Pipeline!Line(c)[2] = rBlock /\ Pipeline!Line(c)'[2] = rBlock'
             /\ \A l \in 1 .. N : l # 1 /\ l # 2 => Pipeline!Line(c)'[l] = Pipeline!Line(c)[l]
  BY <1>1, <1>2 DEF Pipeline!Line
<1>8. ASSUME NEW c \in Pairs
      PROVE  Pipeline!Underway(c)' = Pipeline!Underway(c)
  BY <1>2 DEF Pipeline!Underway
<1> HIDE DEF N, a, b, m, e
<1>9. ASSUME NEW c \in Pairs
      PROVE  Pipeline!Carries(c, Pipeline!Line(c)', Pipeline!Underway(c)')
  <2> DEFINE line == Pipeline!Line(c)  next == Pipeline!Line(c)'
  <2>1. /\ N \in Nat /\ 1 \in 1 .. N /\ 1 + 1 \in 1 .. N /\ 2 \in 1 .. N
        /\ DOMAIN line = 1 .. N /\ DOMAIN next = 1 .. N
        /\ line[1] = r2cq[c] /\ next[1] = r2cq'[c] /\ line[2] = rBlock /\ next[2] = rBlock'
        /\ line[1 + 1] = rBlock /\ next[1 + 1] = rBlock'
        /\ \A l \in 1 .. N : l # 1 /\ l # 2 => next[l] = line[l]
    BY <1>7
  <2>2. Pipeline!Carries(c, line, Pipeline!Underway(c))
    BY <1>6
  <2> HIDE DEF line, next
  <2>3. CASE c = e
    <3>1. /\ DOMAIN line[1] = 1 .. a /\ DOMAIN next[1] = 1 .. a + 1
          /\ \A i \in 1 .. a : next[1][i] = line[1][i]
          /\ next[1][a + 1] = line[1 + 1][1]
          /\ DOMAIN line[1 + 1] = 1 .. b + 1 /\ DOMAIN next[1 + 1] = 1 .. b
          /\ \A i \in 1 .. b : next[1 + 1][i] = line[1 + 1][i + 1]
      BY <1>3, <1>5, <2>1, <2>3
    <3>2. Moved(line, next, N, 1, a, b)
      BY <1>3, <1>5, <2>1, <3>1 DEF Moved
    <3>3. Pipeline!Carries(c, next, Pipeline!Underway(c))
      BY <2>2, <3>2, CarriesMove
    <3> QED BY <3>3, <1>8 DEF next
  <2>4. CASE c # e
    <3>1. next[1] = line[1] /\ line[2][1].destination # c
      BY <1>3, <1>4, <2>1, <2>4 DEF e
    <3>2. Dropped(line, next, N, 2, b)
      BY <1>3, <2>1, <3>1 DEF Dropped
    <3>3. Pipeline!Carries(c, next, Pipeline!Underway(c))
      BY <2>2, <3>1, <3>2, CarriesDrop
    <3> QED BY <3>3, <1>8 DEF next
  <2> QED BY <2>3, <2>4
<1>10. ASSUME NEW c \in Pairs, NEW i \in DOMAIN r2cq'[c]
       PROVE  r2cq'[c][i].destination = c
  <2>1. CASE c # e
    BY <1>4, <2>1 DEF PipelineInv, Pipeline!PipelineOrder
  <2>2. CASE c = e /\ i \in 1 .. a
    <3>1. i \in DOMAIN r2cq[c] /\ r2cq'[c][i] = r2cq[c][i]
      BY <1>5, <2>2
    <3> QED BY <3>1 DEF PipelineInv, Pipeline!PipelineOrder
  <2>3. CASE c = e /\ i = a + 1
    BY <1>5, <2>3 DEF e
  <2>4. c = e => i \in 1 .. a \/ i = a + 1
    BY <1>5
  <2> QED BY <2>1, <2>2, <2>3, <2>4
<1> QED BY <1>9, <1>10 DEF Pipeline!PipelineOrder, Pipeline!Carries

\* A message taken by its consumer is the one it expects.  It is never the done
\* message: a consumer that runs has not had its last message yet.
LEMMA ConsumerTakes ==
  ASSUME Pipeline!ThreeStageAssumption, PipelineInv, NEW c \in Pairs, Pipeline!ConsumerGet(c)
  PROVE  /\ ~Pipeline!IsDone(Head(r2cq[c]))
         /\ consumed' = [consumed EXCEPT ![c] = @ + 1] /\ consumed[c] + 1 <= produced[c]
         /\ Pipeline!PipelineOrder'
<1> DEFINE N == Len(t2rq) + 4  a == Len(r2cq[c]) - 1
           u == consumed[c]  v == IF pPc[c] = "exit" THEN goal ELSE produced[c] - 1
           line == Pipeline!Line(c)  next == Pipeline!Line(c)'
<1>1. /\ r2cq \in [Pairs -> Seq(Pipeline!Message)] /\ r2cq[c] \in Seq(Pipeline!Message)
      /\ r2cq[c] # <<>> /\ Len(t2rq) \in Nat /\ goal \in Nat
      /\ produced \in [Pairs -> 0 .. goal] /\ consumed \in [Pairs -> 0 .. goal]
  <2>1. r2cq \in [Pairs -> Seq(Pipeline!Message)] /\ t2rq \in Seq(Seq(Pipeline!Message))
    BY DEF PipelineInv, Pipeline!TypeOK
  <2>2. produced \in [Pairs -> 0 .. goal] /\ consumed \in [Pairs -> 0 .. goal]
    BY DEF PipelineInv, Pipeline!TypeOK
  <2>3. r2cq[c] # <<>> /\ goal \in Nat
    BY DEF Pipeline!ConsumerGet, Pipeline!ThreeStageAssumption
  <2> QED BY <2>1, <2>2, <2>3
<1>2. /\ r2cq' = [r2cq EXCEPT ![c] = Tail(@)] /\ cPc[c] = "run"
      /\ p2tq' = p2tq /\ t2rq' = t2rq /\ rBlock' = rBlock /\ tBlock' = tBlock /\ tPc' = tPc
      /\ produced' = produced /\ pPc' = pPc
  BY DEF Pipeline!ConsumerGet, Pipeline!pVars, Pipeline!tVars, Pipeline!rVars
<1>3. /\ DOMAIN r2cq[c] = 1 .. a + 1 /\ a \in Nat /\ DOMAIN r2cq'[c] = 1 .. a
      /\ \A i \in 1 .. a : r2cq'[c][i] = r2cq[c][i + 1]
      /\ Head(r2cq[c]) = r2cq[c][1] /\ 1 \in DOMAIN r2cq[c]
  BY <1>1, <1>2, TailIs
<1>4. /\ Pipeline!Carries(c, line, u .. v) /\ r2cq[c][1].destination = c
      /\ u \in Nat /\ v \in Int /\ u < goal /\ (pPc[c] = "exit" => produced[c] = goal)
  BY <1>1, <1>2, <1>3 DEF PipelineInv, Pipeline!PipelineOrder, Pipeline!Underway, PairsCount
<1>5. ASSUME NEW d \in Pairs
      PROVE  /\ N \in Nat /\ 1 \in 1 .. N
             /\ DOMAIN Pipeline!Line(d) = 1 .. N /\ DOMAIN Pipeline!Line(d)' = 1 .. N
             /\ Pipeline!Line(d)[1] = r2cq[d] /\ Pipeline!Line(d)'[1] = r2cq'[d]
             /\ \A l \in 1 .. N : l # 1 => Pipeline!Line(d)'[l] = Pipeline!Line(d)[l]
  BY <1>1, <1>2 DEF Pipeline!Line
<1>6. \A l \in 1 .. N : DOMAIN line[l] \subseteq Nat \ {0}
  <2> SUFFICES ASSUME NEW l \in 1 .. N
               PROVE  DOMAIN line[l] \subseteq Nat \ {0}
    OBVIOUS
  <2>1. line[l] \in Seq(Pipeline!Message)
    BY <1>5, LineIsSeq DEF PipelineInv
  <2> HIDE DEF line
  <2> QED BY <2>1
<1>7. Dropped(line, next, N, 1, a)
  BY <1>3, <1>5 DEF Dropped
<1>8. line[1][1].destination = c /\ Head(r2cq[c]) = line[1][1]
  BY <1>3, <1>4, <1>5
<1> HIDE DEF N, a, u, v, line, next
<1>9. /\ line[1][1] = Pipeline!Numbered(c, u) /\ u <= v
      /\ Pipeline!Carries(c, next, u + 1 .. v)
  BY <1>4, <1>6, <1>7, <1>8, CarriesTake
<1>10. ~Pipeline!IsDone(Head(r2cq[c]))
  BY <1>4, <1>8, <1>9 DEF Pipeline!IsDone, Pipeline!Numbered, Pipeline!Msg
<1>11. consumed' = [consumed EXCEPT ![c] = @ + 1]
  BY <1>10 DEF Pipeline!ConsumerGet
<1>12. consumed[c] + 1 <= produced[c]
  BY <1>1, <1>4, <1>9 DEF u, v
<1>13. Pipeline!Carries(c, Pipeline!Line(c)', Pipeline!Underway(c)')
  <2>1. Pipeline!Underway(c)' = u + 1 .. v
    BY <1>1, <1>2, <1>11 DEF Pipeline!Underway, u, v
  <2> QED BY <1>9, <2>1 DEF next
<1>14. ASSUME NEW d \in Pairs, d # c
       PROVE  Pipeline!Carries(d, Pipeline!Line(d)', Pipeline!Underway(d)')
  <2>1. Pipeline!Underway(d)' = Pipeline!Underway(d)
    BY <1>1, <1>2, <1>11, <1>14 DEF Pipeline!Underway
  <2>2. Pipeline!Line(d)' = Pipeline!Line(d)
    BY <1>1, <1>2, <1>14 DEF Pipeline!Line
  <2> QED BY <2>1, <2>2 DEF PipelineInv, Pipeline!PipelineOrder
<1>15. ASSUME NEW d \in Pairs, NEW i \in DOMAIN r2cq'[d]
       PROVE  r2cq'[d][i].destination = d
  <2>1. CASE d # c
    BY <1>1, <1>2, <2>1 DEF PipelineInv, Pipeline!PipelineOrder
  <2>2. CASE d = c
    <3>1. i \in 1 .. a
      BY <1>3, <2>2
    <3>2. i + 1 \in DOMAIN r2cq[d] /\ r2cq'[d][i] = r2cq[d][i + 1]
      BY <1>3, <2>2, <3>1
    <3> QED BY <3>2 DEF PipelineInv, Pipeline!PipelineOrder
  <2> QED BY <2>1, <2>2
<1>16. Pipeline!PipelineOrder'
  BY <1>13, <1>14, <1>15 DEF Pipeline!PipelineOrder, Pipeline!Carries
<1> QED BY <1>10, <1>11, <1>12, <1>16

\* The line and the numbers of every consumer stay as they are.
LEMMA SameOrder ==
  ASSUME PipelineInv, r2cq' = r2cq, \A c \in Pairs : Pipeline!Line(c)' = Pipeline!Line(c),
         produced' = produced, pPc' = pPc, consumed' = consumed
  PROVE  Pipeline!PipelineOrder'
<1>1. ASSUME NEW c \in Pairs
      PROVE  Pipeline!Underway(c)' = Pipeline!Underway(c)
  BY DEF Pipeline!Underway
<1> QED BY <1>1 DEF PipelineInv, Pipeline!PipelineOrder, Pipeline!Carries

\* Every action keeps the order.
LEMMA PipelineOrderStep ==
  ASSUME Pipeline!ThreeStageAssumption, PipelineInv, Pipeline!Next
  PROVE  Pipeline!PipelineOrder'
<1>1. ASSUME NEW p \in Pairs, Pipeline!ProducerPut(p)
      PROVE  Pipeline!PipelineOrder'
  BY <1>1, ProducerOrder
<1>2. CASE Pipeline!TransmitterCheck
  <2>1. /\ p2tq' = p2tq /\ t2rq' = t2rq /\ r2cq' = r2cq /\ rBlock' = rBlock
        /\ produced' = produced /\ pPc' = pPc /\ consumed' = consumed
        /\ tPc = "check" /\ (tPc' = "exit" \/ (tPc' = "get" /\ tBlock' = <<>>))
    <3>1. /\ p2tq' = p2tq /\ t2rq' = t2rq /\ r2cq' = r2cq /\ rBlock' = rBlock
          /\ produced' = produced /\ pPc' = pPc /\ consumed' = consumed
      BY <1>2 DEF Pipeline!TransmitterCheck, Pipeline!queues, Pipeline!pVars, Pipeline!rVars, Pipeline!cVars
    <3>2. tPc = "check" /\ (tPc' = "exit" \/ (tPc' = "get" /\ tBlock' = <<>>))
      BY <1>2 DEF Pipeline!TransmitterCheck
    <3> QED BY <3>1, <3>2
  <2>2. \A c \in Pairs : Pipeline!Line(c)' = Pipeline!Line(c)
    BY <2>1 DEF Pipeline!Line
  <2> QED BY <2>1, <2>2, SameOrder
<1>3. CASE Pipeline!TransmitterGet
  BY <1>3, TransmitterGetOrder
<1>4. CASE Pipeline!TransmitterPut
  BY <1>4, TransmitterPutOrder
<1>5. CASE Pipeline!ReceiverCheck
  <2>1. /\ p2tq' = p2tq /\ t2rq' = t2rq /\ r2cq' = r2cq /\ rBlock' = rBlock
        /\ produced' = produced /\ pPc' = pPc /\ consumed' = consumed
        /\ tPc' = tPc /\ tBlock' = tBlock
    BY <1>5 DEF Pipeline!ReceiverCheck, Pipeline!queues, Pipeline!pVars, Pipeline!tVars, Pipeline!cVars
  <2>2. \A c \in Pairs : Pipeline!Line(c)' = Pipeline!Line(c)
    BY <2>1 DEF Pipeline!Line
  <2> QED BY <2>1, <2>2, SameOrder
<1>6. CASE Pipeline!ReceiverGet
  BY <1>6, ReceiverGetOrder
<1>7. CASE Pipeline!ReceiverPut
  BY <1>7, ReceiverPutOrder
<1>8. ASSUME NEW c \in Pairs, Pipeline!ConsumerGet(c)
      PROVE  Pipeline!PipelineOrder'
  BY <1>8, ConsumerTakes
<1>9. CASE Pipeline!Boss \/ Pipeline!Finished
  <2>1. /\ p2tq' = p2tq /\ t2rq' = t2rq /\ r2cq' = r2cq /\ rBlock' = rBlock
        /\ produced' = produced /\ pPc' = pPc /\ consumed' = consumed
        /\ tPc' = tPc /\ tBlock' = tBlock
    BY <1>9 DEF Pipeline!Boss, Pipeline!Finished, Pipeline!queues, Pipeline!pVars, Pipeline!tVars,
                Pipeline!cVars, Pipeline!rVars, Pipeline!vars
  <2>2. \A c \in Pairs : Pipeline!Line(c)' = Pipeline!Line(c)
    BY <2>1 DEF Pipeline!Line
  <2> QED BY <2>1, <2>2, SameOrder
<1> QED BY <1>1, <1>2, <1>3, <1>4, <1>5, <1>6, <1>7, <1>8, <1>9
        DEF Pipeline!Next, Pipeline!Transmitter, Pipeline!Receiver

\* Every action keeps the counts of the pairs.
LEMMA PairsCountStep ==
  ASSUME Pipeline!ThreeStageAssumption, PipelineInv, Pipeline!Next
  PROVE  PairsCount'
<1> SUFFICES ASSUME NEW p \in Pairs
             PROVE  /\ pPc'[p] = "exit" => produced'[p] = goal
                    /\ consumed'[p] <= produced'[p]
                    /\ cPc'[p] = "run" => consumed'[p] < goal
  BY DEF PairsCount
<1>1. /\ goal \in Nat /\ produced \in [Pairs -> 0 .. goal] /\ consumed \in [Pairs -> 0 .. goal]
      /\ pPc \in [Pairs -> {"run", "exit"}] /\ cPc \in [Pairs -> {"run", "exit"}]
  BY DEF PipelineInv, Pipeline!TypeOK, Pipeline!ThreeStageAssumption
<1>2. /\ pPc[p] = "exit" => produced[p] = goal
      /\ consumed[p] <= produced[p]
      /\ cPc[p] = "run" => consumed[p] < goal
  BY DEF PipelineInv, PairsCount
<1>3. ASSUME NEW q \in Pairs, Pipeline!ProducerPut(q)
      PROVE  /\ pPc'[p] = "exit" => produced'[p] = goal
             /\ consumed'[p] <= produced'[p]
             /\ cPc'[p] = "run" => consumed'[p] < goal
  <2>1. consumed' = consumed /\ cPc' = cPc /\ pPc[q] = "run"
    BY <1>3 DEF Pipeline!ProducerPut, Pipeline!cVars
  <2>2. CASE produced[q] < goal
    <3>1. produced' = [produced EXCEPT ![q] = @ + 1] /\ pPc' = pPc
      BY <1>3, <2>2 DEF Pipeline!ProducerPut
    <3>2. CASE p = q
      BY <1>1, <1>2, <2>1, <3>1, <3>2
    <3>3. CASE p # q
      BY <1>1, <1>2, <2>1, <3>1, <3>3
    <3> QED BY <3>2, <3>3
  <2>3. CASE ~(produced[q] < goal)
    <3>1. produced' = produced /\ pPc' = [pPc EXCEPT ![q] = "exit"]
      BY <1>3, <2>3 DEF Pipeline!ProducerPut
    <3> QED BY <1>1, <1>2, <2>1, <2>3, <3>1
  <2> QED BY <2>2, <2>3
<1>4. ASSUME NEW c \in Pairs, Pipeline!ConsumerGet(c)
      PROVE  /\ pPc'[p] = "exit" => produced'[p] = goal
             /\ consumed'[p] <= produced'[p]
             /\ cPc'[p] = "run" => consumed'[p] < goal
  <2>1. /\ ~Pipeline!IsDone(Head(r2cq[c]))
        /\ consumed' = [consumed EXCEPT ![c] = @ + 1] /\ consumed[c] + 1 <= produced[c]
    BY <1>4, ConsumerTakes
  <2>2. /\ produced' = produced /\ pPc' = pPc
        /\ cPc' = [cPc EXCEPT ![c] = IF consumed[c] + 1 < goal THEN "run" ELSE "exit"]
    BY <1>4, <2>1 DEF Pipeline!ConsumerGet, Pipeline!pVars
  <2> QED BY <1>1, <1>2, <2>1, <2>2
<1>5. CASE Pipeline!Transmitter \/ Pipeline!Receiver \/ Pipeline!Boss \/ Pipeline!Finished
  <2>1. produced' = produced /\ pPc' = pPc /\ consumed' = consumed /\ cPc' = cPc
    BY <1>5 DEF Pipeline!Transmitter, Pipeline!TransmitterCheck, Pipeline!TransmitterGet,
                Pipeline!TransmitterPut, Pipeline!Receiver, Pipeline!ReceiverCheck,
                Pipeline!ReceiverGet, Pipeline!ReceiverPut, Pipeline!Boss, Pipeline!Finished,
                Pipeline!pVars, Pipeline!cVars, Pipeline!vars
  <2> QED BY <1>2, <2>1
<1> QED BY <1>3, <1>4, <1>5 DEF Pipeline!Next

\* There is one done message for c in the line.
LEMMA OnePlaceEach ==
  ASSUME PipelineInv, NEW c \in Pairs, NEW k \in DOMAIN Pipeline!Line(c), NEW l \in DOMAIN Pipeline!Line(c),
         NEW i \in DOMAIN Pipeline!Line(c)[k], NEW j \in DOMAIN Pipeline!Line(c)[l],
         Pipeline!Line(c)[k][i].destination = c, Pipeline!Line(c)[l][j].destination = c,
         Pipeline!IsDone(Pipeline!Line(c)[k][i]), Pipeline!IsDone(Pipeline!Line(c)[l][j]),
         goal \in Nat
  PROVE  ~Pipeline!Before(k, i, l, j)
<1>1. Pipeline!InOrder(c, Pipeline!Line(c))
  BY DEF PipelineInv, Pipeline!PipelineOrder, Pipeline!Carries
<1>2. Pipeline!Number(Pipeline!Line(c)[k][i]) = goal /\ Pipeline!Number(Pipeline!Line(c)[l][j]) = goal
  BY DEF Pipeline!Number
<1> QED BY <1>1, <1>2 DEF Pipeline!InOrder

\* A producer whose done message is in the line has returned.
LEMMA DoneMeansExit ==
  ASSUME PipelineInv, NEW c \in Pairs, NEW k \in DOMAIN Pipeline!Line(c),
         NEW i \in DOMAIN Pipeline!Line(c)[k],
         Pipeline!Line(c)[k][i].destination = c, Pipeline!IsDone(Pipeline!Line(c)[k][i]),
         goal \in Nat
  PROVE  pPc[c] = "exit"
<1>1. Pipeline!Only(c, Pipeline!Line(c), Pipeline!Underway(c))
  BY DEF PipelineInv, Pipeline!PipelineOrder, Pipeline!Carries
<1>2. goal \in Pipeline!Underway(c)
  BY <1>1 DEF Pipeline!Only, Pipeline!Number
<1>3. produced[c] \in 0 .. goal /\ consumed[c] \in 0 .. goal
  BY DEF PipelineInv, Pipeline!TypeOK
<1> QED BY <1>2, <1>3 DEF Pipeline!Underway

\* The sets that nProducers counts are parts of a finite set.
LEMMA AwaitsFinite ==
  ASSUME Pipeline!ThreeStageAssumption
  PROVE  /\ IsFiniteSet(TransmitterAwaits) /\ IsFiniteSet(ReceiverAwaits)
         /\ Cardinality(TransmitterAwaits) \in 0 .. Cardinality(Pairs)
         /\ Cardinality(ReceiverAwaits) \in 0 .. Cardinality(Pairs)
<1>1. TransmitterAwaits \subseteq Pairs /\ ReceiverAwaits \subseteq Pairs /\ IsFiniteSet(Pairs)
  <2>1. TransmitterAwaits \subseteq Pairs
    BY DEF TransmitterAwaits
  <2>2. ReceiverAwaits \subseteq Pairs
    BY DEF ReceiverAwaits
  <2>3. IsFiniteSet(Pairs)
    BY DEF Pipeline!ThreeStageAssumption, Pipeline!IsFiniteSet, IsFiniteSet
  <2> QED BY <2>1, <2>2, <2>3
<1>2. Cardinality(TransmitterAwaits) <= Cardinality(Pairs) /\ IsFiniteSet(TransmitterAwaits)
  BY <1>1, FS_Subset
<1>3. Cardinality(ReceiverAwaits) <= Cardinality(Pairs) /\ IsFiniteSet(ReceiverAwaits)
  BY <1>1, FS_Subset
<1> QED BY <1>1, <1>2, <1>3, FS_CardinalityType

\* A done message that is taken was the only one of a producer that has returned.
LEMMA TransmitterGetCounts ==
  ASSUME Pipeline!ThreeStageAssumption, PipelineInv, Pipeline!TransmitterGet
  PROVE  tActive' = Cardinality(TransmitterAwaits')
<1> DEFINE m == Head(p2tq)  b == Len(p2tq) - 1
<1>1. p2tq \in Seq(Pipeline!Message) /\ p2tq # <<>> /\ tActive = Cardinality(TransmitterAwaits)
  BY DEF PipelineInv, Pipeline!TypeOK, Pipeline!TransmitterGet, TransmitterCounts
<1>2. /\ p2tq' = Tail(p2tq) /\ pPc' = pPc
      /\ tActive' = IF Pipeline!IsDone(m) THEN tActive - 1 ELSE tActive
  BY DEF Pipeline!TransmitterGet, Pipeline!pVars
<1>3. /\ DOMAIN p2tq = 1 .. b + 1 /\ b \in Nat /\ DOMAIN p2tq' = 1 .. b
      /\ \A i \in 1 .. b : p2tq'[i] = p2tq[i + 1]
      /\ m = p2tq[1] /\ m \in Pipeline!Message /\ 1 \in DOMAIN p2tq
  BY <1>1, <1>2, TailIs
<1> HIDE DEF m, b
<1>4. ASSUME NEW p \in Pairs, NEW i \in DOMAIN p2tq, i # 1
      PROVE  i - 1 \in DOMAIN p2tq' /\ p2tq'[i - 1] = p2tq[i]
  BY <1>3, <1>4
<1>5. ASSUME NEW p \in Pairs, p # m.destination \/ ~Pipeline!IsDone(m)
      PROVE  p \in TransmitterAwaits' <=> p \in TransmitterAwaits
  <2>1. ASSUME NEW i \in DOMAIN p2tq, p2tq[i].destination = p, Pipeline!IsDone(p2tq[i])
        PROVE  \E j \in DOMAIN p2tq' : p2tq'[j].destination = p /\ Pipeline!IsDone(p2tq'[j])
    <3>1. i # 1
      BY <1>3, <1>5, <2>1
    <3>2. i - 1 \in DOMAIN p2tq' /\ p2tq'[i - 1] = p2tq[i]
      BY <1>4, <3>1
    <3> QED BY <2>1, <3>2
  <2>2. ASSUME NEW i \in DOMAIN p2tq', p2tq'[i].destination = p, Pipeline!IsDone(p2tq'[i])
        PROVE  \E j \in DOMAIN p2tq : p2tq[j].destination = p /\ Pipeline!IsDone(p2tq[j])
    <3>1. i + 1 \in DOMAIN p2tq /\ p2tq[i + 1] = p2tq'[i]
      BY <1>3
    <3> QED BY <2>2, <3>1
  <2> QED BY <1>2, <2>1, <2>2 DEF TransmitterAwaits
<1>6. CASE ~Pipeline!IsDone(m)
  <2>1. TransmitterAwaits' = TransmitterAwaits
    BY <1>5, <1>6 DEF TransmitterAwaits
  <2> QED BY <1>1, <1>2, <1>6, <2>1
<1>7. CASE Pipeline!IsDone(m)
  <2> DEFINE p == m.destination  N == Len(t2rq) + 4
  <2>1. p \in Pairs
    BY <1>3 DEF Pipeline!Message
  <2> HIDE DEF p
  <2>2. N \in DOMAIN Pipeline!Line(p) /\ Pipeline!Line(p)[N] = p2tq
    BY <2>1, PartsOfLine DEF PipelineInv
  <2> HIDE DEF N
  <2>3. p \in TransmitterAwaits
    BY <1>3, <1>7, <2>1 DEF TransmitterAwaits, p
  <2>4. pPc[p] = "exit"
    BY <1>3, <1>7, <2>1, <2>2, DoneMeansExit DEF p, Pipeline!ThreeStageAssumption
  <2>5. p \notin TransmitterAwaits'
    <3> SUFFICES ASSUME NEW i \in DOMAIN p2tq', p2tq'[i].destination = p, Pipeline!IsDone(p2tq'[i])
                 PROVE  FALSE
      BY <1>2, <2>4 DEF TransmitterAwaits
    <3>1. i + 1 \in DOMAIN p2tq /\ p2tq[i + 1] = p2tq'[i]
      BY <1>3
    <3>2. ~Pipeline!Before(N, 1, N, i + 1)
      BY <1>3, <1>7, <2>1, <2>2, <3>1, OnePlaceEach DEF p, Pipeline!ThreeStageAssumption
    <3> QED BY <1>3, <3>2 DEF Pipeline!Before
  <2>6. TransmitterAwaits' = TransmitterAwaits \ {p}
    BY <1>5, <2>5 DEF TransmitterAwaits, p
  <2>7. Cardinality(TransmitterAwaits \ {p}) = Cardinality(TransmitterAwaits) - 1
    BY <2>3, AwaitsFinite, FS_RemoveElement
  <2> QED BY <1>1, <1>2, <1>7, <2>6, <2>7
<1> QED BY <1>6, <1>7

\* A done message that is passed on is the first one for its consumer.
LEMMA ReceiverPutCounts ==
  ASSUME Pipeline!ThreeStageAssumption, PipelineInv, Pipeline!ReceiverPut
  PROVE  rActive' = Cardinality(ReceiverAwaits')
<1> DEFINE m == Head(rBlock)  e == m.destination  a == Len(r2cq[e])
<1>1. /\ rBlock \in Seq(Pipeline!Message) /\ rBlock # <<>>
      /\ r2cq \in [Pairs -> Seq(Pipeline!Message)] /\ rActive = Cardinality(ReceiverAwaits)
  BY DEF PipelineInv, Pipeline!TypeOK, Pipeline!ReceiverPut, ReceiverCounts
<1>2. /\ r2cq' = [r2cq EXCEPT ![e] = Append(@, m)]
      /\ rActive' = IF Pipeline!IsDone(m) THEN rActive - 1 ELSE rActive
  BY DEF Pipeline!ReceiverPut
<1>3. m = rBlock[1] /\ m \in Pipeline!Message /\ 1 \in DOMAIN rBlock
  BY <1>1, TailIs
<1> HIDE DEF m
<1>4. e \in Pairs
  BY <1>3 DEF Pipeline!Message
<1> HIDE DEF e
<1>5. r2cq[e] \in Seq(Pipeline!Message) /\ r2cq'[e] = Append(r2cq[e], m)
      /\ \A c \in Pairs : c # e => r2cq'[c] = r2cq[c]
  BY <1>1, <1>2, <1>4
<1>6. /\ a \in Nat /\ DOMAIN r2cq[e] = 1 .. a /\ DOMAIN r2cq'[e] = 1 .. a + 1
      /\ \A i \in 1 .. a : r2cq'[e][i] = r2cq[e][i]
      /\ r2cq'[e][a + 1] = m
  BY <1>3, <1>5, AppendIs
<1> HIDE DEF a
<1>7. ASSUME NEW c \in Pairs, c # e
      PROVE  c \in ReceiverAwaits' <=> c \in ReceiverAwaits
  BY <1>5, <1>7 DEF ReceiverAwaits
<1>8. CASE ~Pipeline!IsDone(m)
  <2>1. e \in ReceiverAwaits' <=> e \in ReceiverAwaits
    <3>1. (\A i \in DOMAIN r2cq'[e] : ~Pipeline!IsDone(r2cq'[e][i]))
          <=> (\A i \in DOMAIN r2cq[e] : ~Pipeline!IsDone(r2cq[e][i]))
      <4>1. ASSUME NEW i \in DOMAIN r2cq[e]
            PROVE  i \in DOMAIN r2cq'[e] /\ r2cq'[e][i] = r2cq[e][i]
        BY <1>6
      <4>2. ASSUME NEW i \in DOMAIN r2cq'[e]
            PROVE  i = a + 1 \/ (i \in DOMAIN r2cq[e] /\ r2cq'[e][i] = r2cq[e][i])
        BY <1>6
      <4> QED BY <1>6, <1>8, <4>1, <4>2
    <3> QED BY <1>4, <3>1 DEF ReceiverAwaits
  <2>2. ReceiverAwaits' = ReceiverAwaits
    BY <1>7, <2>1 DEF ReceiverAwaits
  <2> QED BY <1>1, <1>2, <1>8, <2>2
<1>9. CASE Pipeline!IsDone(m)
  <2>1. /\ 1 \in DOMAIN Pipeline!Line(e) /\ Pipeline!Line(e)[1] = r2cq[e]
        /\ 2 \in DOMAIN Pipeline!Line(e) /\ Pipeline!Line(e)[2] = rBlock
    BY <1>4, PartsOfLine DEF PipelineInv
  <2>2. e \in ReceiverAwaits
    <3> SUFFICES ASSUME NEW i \in DOMAIN r2cq[e], Pipeline!IsDone(r2cq[e][i])
                 PROVE  FALSE
      BY <1>4 DEF ReceiverAwaits
    <3>1. r2cq[e][i].destination = e
      BY <1>4 DEF PipelineInv, Pipeline!PipelineOrder
    <3>2. ~Pipeline!Before(1, i, 2, 1)
      BY <1>3, <1>4, <1>9, <2>1, <3>1, OnePlaceEach DEF e, Pipeline!ThreeStageAssumption
    <3> QED BY <3>2 DEF Pipeline!Before
  <2>3. e \notin ReceiverAwaits'
    <3>1. a + 1 \in DOMAIN r2cq'[e]
      BY <1>6
    <3> QED BY <1>6, <1>9, <3>1 DEF ReceiverAwaits
  <2>4. ReceiverAwaits' = ReceiverAwaits \ {e}
    BY <1>7, <2>3 DEF ReceiverAwaits
  <2>5. Cardinality(ReceiverAwaits \ {e}) = Cardinality(ReceiverAwaits) - 1
    BY <2>2, AwaitsFinite, FS_RemoveElement
  <2> QED BY <1>1, <1>2, <1>9, <2>4, <2>5
<1> QED BY <1>8, <1>9

\* The pipeline's Cardinality is that of this module.
LEMMA SameCardinality ==
  ASSUME NEW S
  PROVE  Pipeline!Cardinality(S) = Cardinality(S)
BY DEF Pipeline!Cardinality, Cardinality, Pipeline!IsFiniteSet, IsFiniteSet

\* Every action keeps the Transmitter's count.
LEMMA TransmitterCountsStep ==
  ASSUME Pipeline!ThreeStageAssumption, PipelineInv, Pipeline!Next
  PROVE  TransmitterCounts'
<1>1. /\ p2tq \in Seq(Pipeline!Message) /\ tBlock \in Seq(Pipeline!Message) /\ TBLOCK_SIZE \in Nat \ {0}
      /\ pPc \in [Pairs -> {"run", "exit"}] /\ ShutDown \in BOOLEAN
      /\ tPc \in {"check", "get", "put", "exit"}
  BY DEF PipelineInv, Pipeline!TypeOK, Pipeline!ThreeStageAssumption
<1>2. /\ tActive = Cardinality(TransmitterAwaits)
      /\ tPc = "exit" /\ ~ShutDown => TransmitterAwaits = {}
      /\ tPc \in {"check", "get"} => TransmitterAwaits # {}
      /\ tPc = "get" => Len(tBlock) < TBLOCK_SIZE
      /\ tPc = "put" => tBlock # <<>>
  BY DEF PipelineInv, TransmitterCounts
<1>3. ASSUME NEW p \in Pairs, Pipeline!ProducerPut(p)
      PROVE  TransmitterCounts'
  <2> DEFINE a == Len(p2tq)
  <2>1. /\ tBlock' = tBlock /\ tActive' = tActive /\ tPc' = tPc /\ ShutDown' = ShutDown /\ pPc[p] = "run"
    BY <1>3 DEF Pipeline!ProducerPut, Pipeline!tVars, Pipeline!bVars
  <2>2. PICK m \in Pipeline!Message :
          /\ p2tq' = Append(p2tq, m) /\ m.destination = p
          /\ \/ ~Pipeline!IsDone(m) /\ pPc' = pPc
             \/ Pipeline!IsDone(m) /\ pPc' = [pPc EXCEPT ![p] = "exit"]
    <3>1. produced \in [Pairs -> 0 .. goal] /\ goal \in Nat
      BY DEF PipelineInv, Pipeline!TypeOK, Pipeline!ThreeStageAssumption
    <3>2. CASE produced[p] < goal
      <4>1. /\ Pipeline!Msg(p, produced[p]) \in Pipeline!Message
            /\ Pipeline!Msg(p, produced[p]).destination = p
            /\ ~Pipeline!IsDone(Pipeline!Msg(p, produced[p]))
        BY <3>1, <3>2 DEF Pipeline!Message, Pipeline!Msg, Pipeline!IsDone
      <4>2. p2tq' = Append(p2tq, Pipeline!Msg(p, produced[p])) /\ pPc' = pPc
        BY <1>3, <3>2 DEF Pipeline!ProducerPut
      <4> QED BY <4>1, <4>2
    <3>3. CASE ~(produced[p] < goal)
      <4>1. /\ Pipeline!Msg(p, Pipeline!DoneSeq) \in Pipeline!Message
            /\ Pipeline!Msg(p, Pipeline!DoneSeq).destination = p
            /\ Pipeline!IsDone(Pipeline!Msg(p, Pipeline!DoneSeq))
        BY DEF Pipeline!Message, Pipeline!Msg, Pipeline!IsDone, Pipeline!DoneSeq
      <4>2. /\ p2tq' = Append(p2tq, Pipeline!Msg(p, Pipeline!DoneSeq))
            /\ pPc' = [pPc EXCEPT ![p] = "exit"]
        BY <1>3, <3>3 DEF Pipeline!ProducerPut
      <4> QED BY <4>1, <4>2
    <3> QED BY <3>2, <3>3
  <2>3. /\ a \in Nat /\ DOMAIN p2tq = 1 .. a /\ DOMAIN p2tq' = 1 .. a + 1
        /\ \A i \in 1 .. a : p2tq'[i] = p2tq[i]
        /\ p2tq'[a + 1] = m
    BY <1>1, <2>2, AppendIs
  <2> HIDE DEF a
  <2>4. ASSUME NEW q \in Pairs
        PROVE  q \in TransmitterAwaits' <=> q \in TransmitterAwaits
    <3>1. ASSUME NEW i \in DOMAIN p2tq
          PROVE  i \in DOMAIN p2tq' /\ p2tq'[i] = p2tq[i]
      BY <2>3
    <3>2. ASSUME NEW i \in DOMAIN p2tq', i # a + 1
          PROVE  i \in DOMAIN p2tq /\ p2tq[i] = p2tq'[i]
      BY <2>3, <3>2
    <3>3. CASE q # p
      <4>1. pPc'[q] = pPc[q]
        BY <1>1, <2>2, <3>3
      <4>2. (\E i \in DOMAIN p2tq' : p2tq'[i].destination = q /\ Pipeline!IsDone(p2tq'[i]))
            <=> (\E i \in DOMAIN p2tq : p2tq[i].destination = q /\ Pipeline!IsDone(p2tq[i]))
        BY <2>2, <2>3, <3>1, <3>2, <3>3
      <4> QED BY <4>1, <4>2 DEF TransmitterAwaits
    <3>4. CASE q = p
      <4>1. q \in TransmitterAwaits
        BY <2>1, <3>4 DEF TransmitterAwaits
      <4>2. pPc'[p] = "run" \/ Pipeline!IsDone(p2tq'[a + 1])
        BY <2>1, <2>2, <2>3
      <4>3. a + 1 \in DOMAIN p2tq' /\ p2tq'[a + 1].destination = p
        BY <2>2, <2>3
      <4> QED BY <3>4, <4>1, <4>2, <4>3 DEF TransmitterAwaits
    <3> QED BY <3>3, <3>4
  <2>5. TransmitterAwaits' = TransmitterAwaits
    BY <2>4 DEF TransmitterAwaits
  <2> QED BY <1>2, <2>1, <2>5 DEF TransmitterCounts
<1>4. CASE Pipeline!TransmitterCheck
  <2>1. /\ p2tq' = p2tq /\ pPc' = pPc /\ tActive' = tActive /\ ShutDown' = ShutDown
        /\ tPc = "check"
        /\ \/ tPc' = "exit" /\ ShutDown
           \/ tPc' = "get" /\ tBlock' = <<>>
    BY <1>4 DEF Pipeline!TransmitterCheck, Pipeline!queues, Pipeline!pVars, Pipeline!bVars
  <2>2. TransmitterAwaits' = TransmitterAwaits
    BY <2>1 DEF TransmitterAwaits
  <2> QED BY <1>1, <1>2, <2>1, <2>2 DEF TransmitterCounts
<1>5. CASE Pipeline!TransmitterGet
  <2>1. tActive' = Cardinality(TransmitterAwaits')
    BY <1>5, TransmitterGetCounts
  <2>2. /\ p2tq # <<>> /\ tBlock' = Append(tBlock, Head(p2tq)) /\ Len(tBlock) < TBLOCK_SIZE
        /\ tPc' = IF Pipeline!BlockComplete(tBlock', tActive') THEN "put" ELSE "get"
    BY <1>2, <1>5 DEF Pipeline!TransmitterGet
  <2>3. Len(tBlock) \in Nat /\ Len(tBlock') = Len(tBlock) + 1 /\ tBlock' # <<>>
    BY <1>1, <2>2
  <2>4. tPc' = "get" => Len(tBlock') # TBLOCK_SIZE
    BY <2>2 DEF Pipeline!BlockComplete
  <2>5. tPc' = "get" => Len(tBlock') < TBLOCK_SIZE
    BY <1>1, <2>2, <2>3, <2>4
  <2>6. tPc' \in {"get", "put"} /\ (tPc' = "get" => TransmitterAwaits' # {})
    BY <2>1, <2>2, FS_EmptySet DEF Pipeline!BlockComplete
  <2> QED BY <2>1, <2>3, <2>5, <2>6 DEF TransmitterCounts
<1>6. CASE Pipeline!TransmitterPut
  <2>1. /\ p2tq' = p2tq /\ pPc' = pPc /\ tActive' = tActive
        /\ \/ tPc' = "exit" /\ tActive = 0
           \/ tPc' = "check" /\ tActive # 0
    BY <1>6 DEF Pipeline!TransmitterPut, Pipeline!pVars
  <2>2. TransmitterAwaits' = TransmitterAwaits
    BY <2>1 DEF TransmitterAwaits
  <2>3. tActive = 0 <=> TransmitterAwaits = {}
    BY <1>2, AwaitsFinite, FS_EmptySet
  <2> QED BY <1>2, <2>1, <2>2, <2>3 DEF TransmitterCounts
<1>7. CASE Pipeline!Receiver \/ (\E c \in Pairs : Pipeline!ConsumerGet(c)) \/ Pipeline!Boss \/ Pipeline!Finished
  <2>1. /\ p2tq' = p2tq /\ pPc' = pPc /\ tActive' = tActive /\ tBlock' = tBlock /\ tPc' = tPc
    BY <1>7 DEF Pipeline!Receiver, Pipeline!ReceiverCheck, Pipeline!ReceiverGet, Pipeline!ReceiverPut,
       Pipeline!ConsumerGet, Pipeline!Boss, Pipeline!Finished, Pipeline!vars,
       Pipeline!queues, Pipeline!pVars, Pipeline!tVars
  <2>2. ShutDown => ShutDown'
    BY <1>7 DEF Pipeline!Receiver, Pipeline!ReceiverCheck, Pipeline!ReceiverGet, Pipeline!ReceiverPut,
       Pipeline!ConsumerGet, Pipeline!Boss, Pipeline!Finished, Pipeline!vars, Pipeline!bVars,
       Pipeline!BossWaitProducers, Pipeline!BossWaitConsumers, Pipeline!BossWaitTransmitter,
       Pipeline!BossWaitReceiver
  <2>3. TransmitterAwaits' = TransmitterAwaits
    BY <2>1 DEF TransmitterAwaits
  <2> QED BY <1>2, <2>1, <2>2, <2>3 DEF TransmitterCounts
<1> QED BY <1>3, <1>4, <1>5, <1>6, <1>7 DEF Pipeline!Next, Pipeline!Transmitter

\* Every action keeps the Receiver's count.
LEMMA ReceiverCountsStep ==
  ASSUME Pipeline!ThreeStageAssumption, PipelineInv, Pipeline!Next
  PROVE  ReceiverCounts'
<1>1. /\ rActive = Cardinality(ReceiverAwaits)
      /\ rPc = "exit" /\ ~ShutDown => ReceiverAwaits = {}
      /\ rPc = "put" => rBlock # <<>>
      /\ rPc \in {"check", "get"} => rBlock = <<>>
  BY DEF PipelineInv, ReceiverCounts
<1>2. CASE Pipeline!ReceiverCheck
  <2>1. /\ r2cq' = r2cq /\ rActive' = rActive /\ rBlock' = rBlock /\ ShutDown' = ShutDown
        /\ rPc = "check"
    BY <1>2 DEF Pipeline!ReceiverCheck, Pipeline!queues, Pipeline!bVars
  <2>2. rPc' = IF ShutDown THEN "exit" ELSE "get"
    BY <1>2 DEF Pipeline!ReceiverCheck
  <2>3. ReceiverAwaits' = ReceiverAwaits
    BY <2>1 DEF ReceiverAwaits
  <2> QED BY <1>1, <2>1, <2>2, <2>3 DEF ReceiverCounts
<1>3. CASE Pipeline!ReceiverGet
  <2>1. /\ r2cq' = r2cq /\ rActive' = rActive /\ rBlock' = Head(t2rq) /\ t2rq # <<>> /\ rPc' = "put"
    BY <1>3 DEF Pipeline!ReceiverGet
  <2>2. rBlock' # <<>>
    <3>1. Len(t2rq) \in Nat /\ Len(t2rq) # 0 /\ Head(t2rq) = t2rq[1]
      <4>1. t2rq \in Seq(Seq(Pipeline!Message))
        BY DEF PipelineInv, Pipeline!TypeOK
      <4> QED BY <2>1, <4>1
    <3>2. Len(t2rq[1]) \in 1 .. TBLOCK_SIZE /\ t2rq[1] \in Seq(Pipeline!Message)
      BY <3>1, BlocksAreRight DEF BlocksAre, PipelineInv
    <3> QED BY <2>1, <3>1, <3>2
  <2>3. ReceiverAwaits' = ReceiverAwaits
    BY <2>1 DEF ReceiverAwaits
  <2> QED BY <1>1, <2>1, <2>2, <2>3 DEF ReceiverCounts
<1>4. CASE Pipeline!ReceiverPut
  <2>1. rActive' = Cardinality(ReceiverAwaits')
    BY <1>4, ReceiverPutCounts
  <2>2. rPc' = IF rActive' = 0 THEN "exit" ELSE IF rBlock' = <<>> THEN "check" ELSE "put"
    BY <1>4 DEF Pipeline!ReceiverPut
  <2>3. rActive' = 0 => ReceiverAwaits' = {}
    <3>1. ReceiverAwaits' \subseteq Pairs /\ IsFiniteSet(Pairs)
      <4>1. ReceiverAwaits' \subseteq Pairs
        BY DEF ReceiverAwaits
      <4>2. IsFiniteSet(Pairs)
        BY DEF Pipeline!ThreeStageAssumption, Pipeline!IsFiniteSet, IsFiniteSet
      <4> QED BY <4>1, <4>2
    <3>2. IsFiniteSet(ReceiverAwaits')
      BY <3>1, FS_Subset
    <3> QED BY <2>1, <3>2, FS_EmptySet
  <2> QED BY <2>1, <2>2, <2>3 DEF ReceiverCounts
<1>5. ASSUME NEW c \in Pairs, Pipeline!ConsumerGet(c)
      PROVE  ReceiverCounts'
  <2> DEFINE a == Len(r2cq[c]) - 1
  <2>1. /\ ~Pipeline!IsDone(Head(r2cq[c])) /\ r2cq[c] # <<>>
        /\ r2cq' = [r2cq EXCEPT ![c] = Tail(@)]
        /\ rActive' = rActive /\ rBlock' = rBlock /\ rPc' = rPc /\ ShutDown' = ShutDown
    BY <1>5, ConsumerTakes DEF Pipeline!ConsumerGet, Pipeline!rVars, Pipeline!bVars
  <2>2. r2cq \in [Pairs -> Seq(Pipeline!Message)]
    BY DEF PipelineInv, Pipeline!TypeOK
  <2>3. /\ DOMAIN r2cq[c] = 1 .. a + 1 /\ a \in Nat /\ DOMAIN r2cq'[c] = 1 .. a
        /\ \A i \in 1 .. a : r2cq'[c][i] = r2cq[c][i + 1]
        /\ Head(r2cq[c]) = r2cq[c][1]
    BY <2>1, <2>2, TailIs
  <2> HIDE DEF a
  <2>4. ASSUME NEW d \in Pairs
        PROVE  d \in ReceiverAwaits' <=> d \in ReceiverAwaits
    <3>1. CASE d # c
      BY <2>1, <2>2, <3>1 DEF ReceiverAwaits
    <3>2. CASE d = c
      <4>1. ASSUME NEW i \in DOMAIN r2cq'[c]
            PROVE  i + 1 \in DOMAIN r2cq[c] /\ r2cq'[c][i] = r2cq[c][i + 1]
        BY <2>3
      <4>2. ASSUME NEW i \in DOMAIN r2cq[c], i # 1
            PROVE  i - 1 \in DOMAIN r2cq'[c] /\ r2cq'[c][i - 1] = r2cq[c][i]
        BY <2>3, <4>2
      <4>3. ~Pipeline!IsDone(r2cq[c][1])
        BY <2>1, <2>3
      <4>4. (\A i \in DOMAIN r2cq'[c] : ~Pipeline!IsDone(r2cq'[c][i]))
            <=> (\A i \in DOMAIN r2cq[c] : ~Pipeline!IsDone(r2cq[c][i]))
        BY <4>1, <4>2, <4>3
      <4> QED BY <3>2, <4>4 DEF ReceiverAwaits
    <3> QED BY <3>1, <3>2
  <2>5. ReceiverAwaits' = ReceiverAwaits
    BY <2>4 DEF ReceiverAwaits
  <2> QED BY <1>1, <2>1, <2>5 DEF ReceiverCounts
<1>6. CASE (\E p \in Pairs : Pipeline!ProducerPut(p)) \/ Pipeline!Transmitter \/ Pipeline!Boss \/ Pipeline!Finished
  <2>1. r2cq' = r2cq /\ rActive' = rActive /\ rBlock' = rBlock /\ rPc' = rPc
    BY <1>6 DEF Pipeline!ProducerPut, Pipeline!Transmitter, Pipeline!TransmitterCheck,
       Pipeline!TransmitterGet, Pipeline!TransmitterPut, Pipeline!Boss, Pipeline!Finished, Pipeline!vars,
       Pipeline!queues, Pipeline!rVars
  <2>2. ShutDown => ShutDown'
    BY <1>6 DEF Pipeline!ProducerPut, Pipeline!Transmitter, Pipeline!TransmitterCheck,
       Pipeline!TransmitterGet, Pipeline!TransmitterPut, Pipeline!Boss, Pipeline!Finished, Pipeline!vars,
       Pipeline!bVars, Pipeline!BossWaitProducers, Pipeline!BossWaitConsumers,
       Pipeline!BossWaitTransmitter, Pipeline!BossWaitReceiver
  <2>3. ReceiverAwaits' = ReceiverAwaits
    BY <2>1 DEF ReceiverAwaits
  <2> QED BY <1>1, <2>1, <2>2, <2>3 DEF ReceiverCounts
<1> QED BY <1>2, <1>3, <1>4, <1>5, <1>6 DEF Pipeline!Next, Pipeline!Receiver

\* The queues and the blocks keep their types and their lengths.
QueuesOK ==
  /\ p2tq \in Seq(Pipeline!Message) /\ Len(p2tq) <= P2T
  /\ t2rq \in Seq(Seq(Pipeline!Message)) /\ Len(t2rq) <= T2R
  /\ \A k \in 1 .. Len(t2rq) : Len(t2rq[k]) \in 1 .. TBLOCK_SIZE
  /\ r2cq \in [Pairs -> Seq(Pipeline!Message)] /\ \A c \in Pairs : Len(r2cq[c]) <= R2C
  /\ tBlock \in Seq(Pipeline!Message) /\ Len(tBlock) <= TBLOCK_SIZE
  /\ rBlock \in Seq(Pipeline!Message) /\ Len(rBlock) <= TBLOCK_SIZE

\* This is part of the type invariant, with the blocks of t2rq one by one.
LEMMA QueuesAreOK ==
  ASSUME Pipeline!TypeOK
  PROVE  QueuesOK
<1>1. /\ p2tq \in Seq(Pipeline!Message) /\ Len(p2tq) <= P2T
      /\ t2rq \in Seq(Seq(Pipeline!Message)) /\ Len(t2rq) <= T2R
  BY DEF Pipeline!TypeOK
<1>2. r2cq \in [Pairs -> Seq(Pipeline!Message)] /\ \A c \in Pairs : Len(r2cq[c]) <= R2C
  BY DEF Pipeline!TypeOK
<1>3. /\ tBlock \in Seq(Pipeline!Message) /\ Len(tBlock) <= TBLOCK_SIZE
      /\ rBlock \in Seq(Pipeline!Message) /\ Len(rBlock) <= TBLOCK_SIZE
  BY DEF Pipeline!TypeOK
<1>4. \A k \in 1 .. Len(t2rq) : Len(t2rq[k]) \in 1 .. TBLOCK_SIZE
  BY BlocksAreRight DEF BlocksAre
<1> QED BY <1>1, <1>2, <1>3, <1>4 DEF QueuesOK

\* Every action keeps the types and lengths of queues and blocks.
LEMMA QueuesStep ==
  ASSUME Pipeline!ThreeStageAssumption, PipelineInv, Pipeline!Next
  PROVE  QueuesOK'
<1>1. /\ P2T \in Nat /\ T2R \in Nat /\ R2C \in Nat /\ TBLOCK_SIZE \in Nat \ {0} /\ goal \in Nat
  BY DEF Pipeline!ThreeStageAssumption
<1>2. QueuesOK
  BY QueuesAreOK DEF PipelineInv
<1>3. ASSUME NEW p \in Pairs, Pipeline!ProducerPut(p)
      PROVE  QueuesOK'
  <2>1. /\ Len(p2tq) < P2T /\ t2rq' = t2rq /\ r2cq' = r2cq /\ tBlock' = tBlock /\ rBlock' = rBlock
    BY <1>3 DEF Pipeline!ProducerPut, Pipeline!tVars, Pipeline!rVars
  <2>2. PICK m \in Pipeline!Message : p2tq' = Append(p2tq, m)
    <3>1. produced \in [Pairs -> 0 .. goal]
      BY DEF PipelineInv, Pipeline!TypeOK
    <3>2. CASE produced[p] < goal
      <4>1. Pipeline!Msg(p, produced[p]) \in Pipeline!Message
        BY <1>1, <3>1, <3>2 DEF Pipeline!Message, Pipeline!Msg
      <4> QED BY <1>3, <3>2, <4>1 DEF Pipeline!ProducerPut
    <3>3. CASE ~(produced[p] < goal)
      <4>1. Pipeline!Msg(p, Pipeline!DoneSeq) \in Pipeline!Message
        BY DEF Pipeline!Message, Pipeline!Msg
      <4> QED BY <1>3, <3>3, <4>1 DEF Pipeline!ProducerPut
    <3> QED BY <3>2, <3>3
  <2>3. p2tq' \in Seq(Pipeline!Message) /\ Len(p2tq') = Len(p2tq) + 1 /\ Len(p2tq) \in Nat
    BY <1>2, <2>2, AppendIs DEF QueuesOK
  <2>4. Len(p2tq') <= P2T
    BY <1>1, <2>1, <2>3
  <2> QED BY <1>2, <2>1, <2>3, <2>4 DEF QueuesOK
<1>4. CASE Pipeline!TransmitterCheck
  <2>1. /\ p2tq' = p2tq /\ t2rq' = t2rq /\ r2cq' = r2cq /\ rBlock' = rBlock
        /\ tBlock' = tBlock \/ tBlock' = <<>>
    BY <1>4 DEF Pipeline!TransmitterCheck, Pipeline!queues, Pipeline!rVars
  <2>2. <<>> \in Seq(Pipeline!Message) /\ Len(<<>>) <= TBLOCK_SIZE
    BY <1>1
  <2> QED BY <1>2, <2>1, <2>2 DEF QueuesOK
<1>5. CASE Pipeline!TransmitterGet
  <2>1. /\ p2tq # <<>> /\ p2tq' = Tail(p2tq) /\ tBlock' = Append(tBlock, Head(p2tq))
        /\ t2rq' = t2rq /\ r2cq' = r2cq /\ rBlock' = rBlock /\ Len(tBlock) < TBLOCK_SIZE
    BY <1>5 DEF Pipeline!TransmitterGet, Pipeline!rVars, PipelineInv, TransmitterCounts
  <2>2. p2tq \in Seq(Pipeline!Message) /\ Len(p2tq) <= P2T /\ tBlock \in Seq(Pipeline!Message)
    BY <1>2 DEF QueuesOK
  <2>3. p2tq' \in Seq(Pipeline!Message) /\ Len(p2tq') <= P2T /\ Head(p2tq) \in Pipeline!Message
    BY <1>1, <2>1, <2>2, TailIs
  <2>4. tBlock' \in Seq(Pipeline!Message) /\ Len(tBlock') = Len(tBlock) + 1 /\ Len(tBlock) \in Nat
    BY <2>1, <2>2, <2>3, AppendIs
  <2>5. Len(tBlock') <= TBLOCK_SIZE
    BY <1>1, <2>1, <2>4
  <2> QED BY <1>2, <2>1, <2>3, <2>4, <2>5 DEF QueuesOK
<1>6. CASE Pipeline!TransmitterPut
  <2>1. /\ Len(t2rq) < T2R /\ t2rq' = Append(t2rq, tBlock) /\ tBlock # <<>>
        /\ p2tq' = p2tq /\ tBlock' = tBlock /\ r2cq' = r2cq /\ rBlock' = rBlock
    BY <1>6 DEF Pipeline!TransmitterPut, Pipeline!rVars, PipelineInv, TransmitterCounts
  <2>2. /\ t2rq \in Seq(Seq(Pipeline!Message)) /\ tBlock \in Seq(Pipeline!Message) /\ Len(tBlock) <= TBLOCK_SIZE
        /\ \A k \in 1 .. Len(t2rq) : Len(t2rq[k]) \in 1 .. TBLOCK_SIZE
    BY <1>2 DEF QueuesOK
  <2>3. /\ t2rq' \in Seq(Seq(Pipeline!Message)) /\ Len(t2rq') = Len(t2rq) + 1 /\ Len(t2rq) \in Nat
        /\ \A k \in 1 .. Len(t2rq) : t2rq'[k] = t2rq[k]
        /\ t2rq'[Len(t2rq) + 1] = tBlock
    BY <2>1, <2>2, AppendIs
  <2>4. Len(t2rq') <= T2R
    BY <1>1, <2>1, <2>3
  <2>5. Len(tBlock) \in 1 .. TBLOCK_SIZE
    BY <1>1, <2>1, <2>2
  <2>6. ASSUME NEW k \in 1 .. Len(t2rq')
        PROVE  Len(t2rq'[k]) \in 1 .. TBLOCK_SIZE
    <3>1. k \in 1 .. Len(t2rq) \/ k = Len(t2rq) + 1
      BY <2>3
    <3> QED BY <2>2, <2>3, <2>5, <3>1
  <2> QED BY <1>2, <2>1, <2>3, <2>4, <2>6 DEF QueuesOK
<1>7. CASE Pipeline!ReceiverGet
  <2>1. /\ t2rq # <<>> /\ t2rq' = Tail(t2rq) /\ rBlock' = Head(t2rq)
        /\ p2tq' = p2tq /\ tBlock' = tBlock /\ r2cq' = r2cq
    BY <1>7 DEF Pipeline!ReceiverGet, Pipeline!tVars
  <2>2. /\ t2rq \in Seq(Seq(Pipeline!Message)) /\ Len(t2rq) <= T2R
        /\ \A k \in 1 .. Len(t2rq) : Len(t2rq[k]) \in 1 .. TBLOCK_SIZE
    BY <1>2 DEF QueuesOK
  <2>3. /\ t2rq' \in Seq(Seq(Pipeline!Message)) /\ Len(t2rq') = Len(t2rq) - 1 /\ Len(t2rq) - 1 \in Nat
        /\ \A k \in 1 .. Len(t2rq) - 1 : t2rq'[k] = t2rq[k + 1]
        /\ rBlock' = t2rq[1] /\ t2rq[1] \in Seq(Pipeline!Message)
    BY <2>1, <2>2, TailIs
  <2>4. Len(t2rq') <= T2R /\ 1 \in 1 .. Len(t2rq) /\ \A k \in 1 .. Len(t2rq') : k + 1 \in 1 .. Len(t2rq)
    BY <1>1, <2>2, <2>3
  <2>5. \A k \in 1 .. Len(t2rq') : Len(t2rq'[k]) \in 1 .. TBLOCK_SIZE
    BY <2>2, <2>3, <2>4
  <2>6. Len(rBlock') <= TBLOCK_SIZE
    BY <1>1, <2>2, <2>3, <2>4
  <2> QED BY <1>2, <2>1, <2>3, <2>4, <2>5, <2>6 DEF QueuesOK
<1>8. CASE Pipeline!ReceiverPut
  <2> DEFINE m == Head(rBlock)  e == m.destination
  <2>1. /\ rBlock # <<>> /\ Len(r2cq[e]) < R2C /\ r2cq' = [r2cq EXCEPT ![e] = Append(@, m)]
        /\ rBlock' = Tail(rBlock) /\ p2tq' = p2tq /\ t2rq' = t2rq /\ tBlock' = tBlock
    BY <1>8 DEF Pipeline!ReceiverPut, Pipeline!tVars, PipelineInv, ReceiverCounts
  <2>2. /\ r2cq \in [Pairs -> Seq(Pipeline!Message)] /\ \A c \in Pairs : Len(r2cq[c]) <= R2C
        /\ rBlock \in Seq(Pipeline!Message) /\ Len(rBlock) <= TBLOCK_SIZE
    BY <1>2 DEF QueuesOK
  <2>3. /\ rBlock' \in Seq(Pipeline!Message) /\ Len(rBlock') = Len(rBlock) - 1 /\ Len(rBlock) - 1 \in Nat
        /\ m \in Pipeline!Message
    BY <2>1, <2>2, TailIs
  <2> HIDE DEF m
  <2>4. e \in Pairs
    BY <2>3 DEF Pipeline!Message
  <2> HIDE DEF e
  <2>5. /\ Append(r2cq[e], m) \in Seq(Pipeline!Message)
        /\ Len(Append(r2cq[e], m)) = Len(r2cq[e]) + 1 /\ Len(r2cq[e]) \in Nat
    BY <2>2, <2>3, <2>4, AppendIs
  <2>6. Len(Append(r2cq[e], m)) <= R2C /\ Len(rBlock') <= TBLOCK_SIZE
    BY <1>1, <2>1, <2>2, <2>3, <2>5
  <2>7. r2cq' \in [Pairs -> Seq(Pipeline!Message)] /\ \A c \in Pairs : Len(r2cq'[c]) <= R2C
    BY <2>1, <2>2, <2>4, <2>5, <2>6
  <2> QED BY <1>2, <2>1, <2>3, <2>6, <2>7 DEF QueuesOK
<1>9. ASSUME NEW c \in Pairs, Pipeline!ConsumerGet(c)
      PROVE  QueuesOK'
  <2>1. /\ r2cq[c] # <<>> /\ r2cq' = [r2cq EXCEPT ![c] = Tail(@)]
        /\ p2tq' = p2tq /\ t2rq' = t2rq /\ tBlock' = tBlock /\ rBlock' = rBlock
    BY <1>9 DEF Pipeline!ConsumerGet, Pipeline!tVars, Pipeline!rVars
  <2>2. /\ r2cq \in [Pairs -> Seq(Pipeline!Message)] /\ \A d \in Pairs : Len(r2cq[d]) <= R2C
    BY <1>2 DEF QueuesOK
  <2>3. /\ Tail(r2cq[c]) \in Seq(Pipeline!Message)
        /\ Len(Tail(r2cq[c])) = Len(r2cq[c]) - 1 /\ Len(r2cq[c]) - 1 \in Nat
    BY <2>1, <2>2, TailIs
  <2>4. Len(Tail(r2cq[c])) <= R2C
    BY <1>1, <2>2, <2>3
  <2>5. r2cq' \in [Pairs -> Seq(Pipeline!Message)] /\ \A d \in Pairs : Len(r2cq'[d]) <= R2C
    BY <2>1, <2>2, <2>3, <2>4
  <2> QED BY <1>2, <2>1, <2>5 DEF QueuesOK
<1>10. CASE Pipeline!ReceiverCheck \/ Pipeline!Boss \/ Pipeline!Finished
  <2>1. /\ p2tq' = p2tq /\ t2rq' = t2rq /\ r2cq' = r2cq /\ tBlock' = tBlock /\ rBlock' = rBlock
    BY <1>10 DEF Pipeline!ReceiverCheck, Pipeline!Boss, Pipeline!Finished, Pipeline!vars,
                Pipeline!queues, Pipeline!tVars, Pipeline!rVars
  <2> QED BY <1>2, <2>1 DEF QueuesOK
<1> QED BY <1>3, <1>4, <1>5, <1>6, <1>7, <1>8, <1>9, <1>10
        DEF Pipeline!Next, Pipeline!Transmitter, Pipeline!Receiver

\* Every action keeps the type invariant.
LEMMA PipelineTypeStep ==
  ASSUME Pipeline!ThreeStageAssumption, PipelineInv, Pipeline!Next
  PROVE  Pipeline!TypeOK'
<1>1. QueuesOK'
  BY QueuesStep
<1>2. /\ p2tq' \in Seq(Pipeline!Message) /\ Len(p2tq') <= P2T
      /\ t2rq' \in Seq(Seq(Pipeline!Message)) /\ Len(t2rq') <= T2R
      /\ \A b \in Pipeline!Range(t2rq') : Len(b) \in 1 .. TBLOCK_SIZE
  BY <1>1 DEF QueuesOK, Pipeline!Range
<1>3. /\ r2cq' \in [Pairs -> Seq(Pipeline!Message)] /\ \A c \in Pairs : Len(r2cq'[c]) <= R2C
      /\ tBlock' \in Seq(Pipeline!Message) /\ Len(tBlock') <= TBLOCK_SIZE
      /\ rBlock' \in Seq(Pipeline!Message) /\ Len(rBlock') <= TBLOCK_SIZE
  BY <1>1 DEF QueuesOK
<1>4. /\ tActive' = Cardinality(TransmitterAwaits') /\ rActive' = Cardinality(ReceiverAwaits')
  BY TransmitterCountsStep, ReceiverCountsStep DEF TransmitterCounts, ReceiverCounts
<1>5. tActive' \in 0 .. Pipeline!Cardinality(Pairs) /\ rActive' \in 0 .. Pipeline!Cardinality(Pairs)
  <2>1. TransmitterAwaits' \subseteq Pairs /\ ReceiverAwaits' \subseteq Pairs
    <3>1. TransmitterAwaits' \subseteq Pairs
      BY DEF TransmitterAwaits
    <3>2. ReceiverAwaits' \subseteq Pairs
      BY DEF ReceiverAwaits
    <3> QED BY <3>1, <3>2
  <2>2. IsFiniteSet(Pairs)
    BY DEF Pipeline!ThreeStageAssumption, Pipeline!IsFiniteSet, IsFiniteSet
  <2>3. /\ Cardinality(TransmitterAwaits') \in Nat /\ Cardinality(TransmitterAwaits') <= Cardinality(Pairs)
        /\ Cardinality(ReceiverAwaits') \in Nat /\ Cardinality(ReceiverAwaits') <= Cardinality(Pairs)
    BY <2>1, <2>2, FS_Subset, FS_CardinalityType
  <2>4. Cardinality(Pairs) \in Nat
    BY <2>2, FS_CardinalityType
  <2> QED BY <1>4, <2>3, <2>4, SameCardinality
<1>6. /\ produced \in [Pairs -> 0 .. goal] /\ pPc \in [Pairs -> {"run", "exit"}]
      /\ consumed \in [Pairs -> 0 .. goal] /\ cPc \in [Pairs -> {"run", "exit"}]
      /\ goal \in Nat
  BY DEF PipelineInv, Pipeline!TypeOK, Pipeline!ThreeStageAssumption
<1>7. produced' \in [Pairs -> 0 .. goal] /\ pPc' \in [Pairs -> {"run", "exit"}]
  <2>1. CASE \E p \in Pairs : Pipeline!ProducerPut(p)
    <3>1. PICK p \in Pairs : Pipeline!ProducerPut(p)
      BY <2>1
    <3>2. CASE produced[p] < goal
      <4>1. pPc' = pPc /\ produced' = [produced EXCEPT ![p] = @ + 1] /\ produced[p] + 1 \in 0 .. goal
        BY <1>6, <3>1, <3>2 DEF Pipeline!ProducerPut
      <4> QED BY <1>6, <4>1
    <3>3. CASE ~(produced[p] < goal)
      <4>1. pPc' = [pPc EXCEPT ![p] = "exit"] /\ produced' = produced
        BY <3>1, <3>3 DEF Pipeline!ProducerPut
      <4> QED BY <1>6, <4>1
    <3> QED BY <3>2, <3>3
  <2>2. CASE Pipeline!Transmitter \/ Pipeline!Receiver \/ (\E c \in Pairs : Pipeline!ConsumerGet(c))
             \/ Pipeline!Boss \/ Pipeline!Finished
    <3>1. produced' = produced /\ pPc' = pPc
      BY <2>2 DEF Pipeline!Transmitter, Pipeline!TransmitterCheck, Pipeline!TransmitterGet,
                Pipeline!TransmitterPut, Pipeline!Receiver, Pipeline!ReceiverCheck,
                Pipeline!ReceiverGet, Pipeline!ReceiverPut, Pipeline!ConsumerGet,
                Pipeline!Boss, Pipeline!Finished, Pipeline!pVars, Pipeline!vars
    <3> QED BY <1>6, <3>1
  <2> QED BY <2>1, <2>2 DEF Pipeline!Next
<1>8. consumed' \in [Pairs -> 0 .. goal] /\ cPc' \in [Pairs -> {"run", "exit"}]
  <2>1. CASE \E c \in Pairs : Pipeline!ConsumerGet(c)
    <3>1. PICK c \in Pairs : Pipeline!ConsumerGet(c)
      BY <2>1
    <3>2. /\ ~Pipeline!IsDone(Head(r2cq[c]))
          /\ consumed' = [consumed EXCEPT ![c] = @ + 1] /\ consumed[c] + 1 <= produced[c]
      BY <3>1, ConsumerTakes
    <3>3. cPc' = [cPc EXCEPT ![c] = IF consumed[c] + 1 < goal THEN "run" ELSE "exit"]
      BY <3>1, <3>2 DEF Pipeline!ConsumerGet
    <3>4. consumed[c] + 1 \in 0 .. goal
      BY <1>6, <3>2
    <3> QED BY <1>6, <3>2, <3>3, <3>4
  <2>2. CASE Pipeline!Transmitter \/ Pipeline!Receiver \/ (\E p \in Pairs : Pipeline!ProducerPut(p))
             \/ Pipeline!Boss \/ Pipeline!Finished
    <3>1. consumed' = consumed /\ cPc' = cPc
      BY <2>2 DEF Pipeline!Transmitter, Pipeline!TransmitterCheck, Pipeline!TransmitterGet,
                Pipeline!TransmitterPut, Pipeline!Receiver, Pipeline!ReceiverCheck,
                Pipeline!ReceiverGet, Pipeline!ReceiverPut, Pipeline!ProducerPut,
                Pipeline!Boss, Pipeline!Finished, Pipeline!cVars, Pipeline!vars
    <3> QED BY <1>6, <3>1
  <2> QED BY <2>1, <2>2 DEF Pipeline!Next
<1>9. tPc \in {"check", "get", "put", "exit"} /\ rPc \in {"check", "get", "put", "exit"}
  BY DEF PipelineInv, Pipeline!TypeOK
<1>10. tPc' \in {"check", "get", "put", "exit"} /\ rPc' \in {"check", "get", "put", "exit"}
  <2>1. ASSUME NEW p \in Pairs, Pipeline!ProducerPut(p)
        PROVE  tPc' = tPc /\ rPc' = rPc
    BY <2>1 DEF Pipeline!ProducerPut, Pipeline!tVars, Pipeline!rVars
  <2>2. CASE Pipeline!Transmitter
    BY <1>9, <2>2 DEF Pipeline!Transmitter, Pipeline!TransmitterCheck, Pipeline!TransmitterGet,
                Pipeline!TransmitterPut, Pipeline!rVars
  <2>3. CASE Pipeline!Receiver
    BY <1>9, <2>3 DEF Pipeline!Receiver, Pipeline!ReceiverCheck,
                Pipeline!ReceiverGet, Pipeline!ReceiverPut, Pipeline!tVars
  <2>4. ASSUME NEW c \in Pairs, Pipeline!ConsumerGet(c)
        PROVE  tPc' = tPc /\ rPc' = rPc
    BY <2>4 DEF Pipeline!ConsumerGet, Pipeline!tVars, Pipeline!rVars
  <2>5. CASE Pipeline!Boss \/ Pipeline!Finished
    BY <1>9, <2>5 DEF Pipeline!Boss, Pipeline!Finished, Pipeline!tVars, Pipeline!rVars, Pipeline!vars
  <2> QED BY <1>9, <2>1, <2>2, <2>3, <2>4, <2>5 DEF Pipeline!Next
<1>11. ShutDown \in BOOLEAN /\ boss \in {"producers", "consumers", "transmitter", "receiver", "finished"}
  BY DEF PipelineInv, Pipeline!TypeOK
<1>12. ShutDown' \in BOOLEAN /\ boss' \in {"producers", "consumers", "transmitter", "receiver", "finished"}
  <2>1. CASE Pipeline!Boss
    BY <1>11, <2>1 DEF Pipeline!Boss, Pipeline!BossWaitProducers, Pipeline!BossWaitConsumers,
       Pipeline!BossWaitTransmitter, Pipeline!BossWaitReceiver
  <2>2. CASE Pipeline!Transmitter \/ Pipeline!Receiver \/ (\E p \in Pairs : Pipeline!ProducerPut(p))
             \/ (\E c \in Pairs : Pipeline!ConsumerGet(c)) \/ Pipeline!Finished
    <3>1. ShutDown' = ShutDown /\ boss' = boss
      BY <2>2 DEF Pipeline!Transmitter, Pipeline!TransmitterCheck, Pipeline!TransmitterGet,
                Pipeline!TransmitterPut, Pipeline!Receiver, Pipeline!ReceiverCheck,
                Pipeline!ReceiverGet, Pipeline!ReceiverPut, Pipeline!ProducerPut,
                Pipeline!ConsumerGet, Pipeline!Finished, Pipeline!bVars, Pipeline!vars
    <3> QED BY <1>11, <3>1
  <2> QED BY <2>1, <2>2 DEF Pipeline!Next
<1> QED BY <1>2, <1>3, <1>5, <1>7, <1>8, <1>10, <1>12 DEF Pipeline!TypeOK

\* The inductive invariant holds initially, after every step of the pipeline, and
\* while the other program runs.
LEMMA PipelineInvInit ==
  ASSUME Pipeline!ThreeStageAssumption, Pipeline!Init
  PROVE  PipelineInv
<1>1. /\ p2tq = <<>> /\ t2rq = <<>> /\ r2cq = [c \in Pairs |-> <<>>]
      /\ produced = [p \in Pairs |-> 0] /\ pPc = [p \in Pairs |-> "run"]
      /\ tBlock = <<>> /\ tActive = Cardinality(Pairs) /\ tPc = "check"
      /\ rBlock = <<>> /\ rActive = Cardinality(Pairs) /\ rPc = "check"
      /\ consumed = [c \in Pairs |-> 0]
      /\ cPc = [c \in Pairs |-> IF goal = 0 THEN "exit" ELSE "run"]
      /\ ShutDown = FALSE /\ boss = "producers"
  BY SameCardinality DEF Pipeline!Init
<1>2. /\ Pairs # {} /\ IsFiniteSet(Pairs) /\ goal \in Nat /\ TBLOCK_SIZE \in Nat \ {0}
      /\ P2T \in Nat /\ T2R \in Nat /\ R2C \in Nat
  BY DEF Pipeline!ThreeStageAssumption, Pipeline!IsFiniteSet, IsFiniteSet
<1>3. Pipeline!TypeOK
  <2>1. /\ p2tq \in Seq(Pipeline!Message) /\ Len(p2tq) <= P2T
        /\ t2rq \in Seq(Seq(Pipeline!Message)) /\ Len(t2rq) <= T2R
        /\ \A b \in Pipeline!Range(t2rq) : Len(b) \in 1 .. TBLOCK_SIZE
    BY <1>1, <1>2 DEF Pipeline!Range
  <2>2. r2cq \in [Pairs -> Seq(Pipeline!Message)] /\ \A c \in Pairs : Len(r2cq[c]) <= R2C
    BY <1>1, <1>2
  <2>3. /\ tBlock \in Seq(Pipeline!Message) /\ Len(tBlock) <= TBLOCK_SIZE
        /\ rBlock \in Seq(Pipeline!Message) /\ Len(rBlock) <= TBLOCK_SIZE
    BY <1>1, <1>2
  <2>4. /\ tActive \in 0 .. Pipeline!Cardinality(Pairs) /\ rActive \in 0 .. Pipeline!Cardinality(Pairs)
    BY <1>1, <1>2, SameCardinality, FS_CardinalityType
  <2>5. /\ produced \in [Pairs -> 0 .. goal] /\ consumed \in [Pairs -> 0 .. goal]
    BY <1>1, <1>2
  <2>6. /\ pPc \in [Pairs -> {"run", "exit"}] /\ cPc \in [Pairs -> {"run", "exit"}]
        /\ tPc \in {"check", "get", "put", "exit"} /\ rPc \in {"check", "get", "put", "exit"}
        /\ ShutDown \in BOOLEAN
        /\ boss \in {"producers", "consumers", "transmitter", "receiver", "finished"}
    BY <1>1
  <2> QED BY <2>1, <2>2, <2>3, <2>4, <2>5, <2>6 DEF Pipeline!TypeOK
<1>4. Pipeline!PipelineOrder
  <2> SUFFICES ASSUME NEW c \in Pairs
               PROVE  /\ \A i \in DOMAIN r2cq[c] : r2cq[c][i].destination = c
                      /\ Pipeline!Carries(c, Pipeline!Line(c), Pipeline!Underway(c))
    BY DEF Pipeline!PipelineOrder
  <2>1. \A k \in DOMAIN Pipeline!Line(c) : DOMAIN Pipeline!Line(c)[k] = {}
    <3>1. DOMAIN Pipeline!Line(c) = 1 .. 4
      BY <1>1 DEF Pipeline!Line
    <3>2. \A k \in 1 .. 4 : Pipeline!Line(c)[k] = <<>>
      BY <1>1 DEF Pipeline!Line
    <3> QED BY <3>1, <3>2
  <2>2. Pipeline!Underway(c) = {}
    BY <1>1 DEF Pipeline!Underway
  <2>3. r2cq[c] = <<>>
    BY <1>1
  <2>4. Pipeline!Carries(c, Pipeline!Line(c), Pipeline!Underway(c))
    BY <2>1, <2>2 DEF Pipeline!Carries, Pipeline!Only, Pipeline!All, Pipeline!InOrder
  <2> QED BY <2>3, <2>4
<1>5. PairsCount
  BY <1>1, <1>2 DEF PairsCount
<1>6. TransmitterAwaits = Pairs
  BY <1>1 DEF TransmitterAwaits
<1>7. ReceiverAwaits = Pairs
  BY <1>1 DEF ReceiverAwaits
<1> QED BY <1>1, <1>2, <1>3, <1>4, <1>5, <1>6, <1>7 DEF PipelineInv, TransmitterCounts, ReceiverCounts

LEMMA PipelineInvStep ==
  ASSUME Pipeline!ThreeStageAssumption, PipelineInv, Pipeline!Next
  PROVE  PipelineInv'
BY PipelineTypeStep, PipelineOrderStep, PairsCountStep, TransmitterCountsStep, ReceiverCountsStep
   DEF PipelineInv

LEMMA PipelineInvStutter ==
  ASSUME PipelineInv, UNCHANGED pipelineVars
  PROVE  PipelineInv'
BY DEF pipelineVars, PipelineInv, Pipeline!TypeOK, Pipeline!PipelineOrder, PairsCount,
       TransmitterCounts, ReceiverCounts, TransmitterAwaits, ReceiverAwaits,
       Pipeline!Carries, Pipeline!Only, Pipeline!All, Pipeline!InOrder, Pipeline!Line, Pipeline!Underway

\* Nothing for c follows its done message in the line.
LEMMA NothingBehind ==
  ASSUME Pipeline!ThreeStageAssumption, PipelineInv, NEW c \in Pairs,
         NEW k \in DOMAIN Pipeline!Line(c), NEW i \in DOMAIN Pipeline!Line(c)[k],
         Pipeline!Line(c)[k][i].destination = c, Pipeline!IsDone(Pipeline!Line(c)[k][i]),
         NEW l \in DOMAIN Pipeline!Line(c), NEW j \in DOMAIN Pipeline!Line(c)[l],
         Pipeline!Line(c)[l][j].destination = c
  PROVE  ~Pipeline!Before(k, i, l, j)
<1>1. goal \in Nat /\ consumed[c] \in Nat /\ produced[c] \in 0 .. goal
  BY DEF PipelineInv, Pipeline!TypeOK, Pipeline!ThreeStageAssumption
<1>2. /\ Pipeline!Only(c, Pipeline!Line(c), Pipeline!Underway(c))
      /\ Pipeline!InOrder(c, Pipeline!Line(c))
  BY DEF PipelineInv, Pipeline!PipelineOrder, Pipeline!Carries
<1>3. Pipeline!Number(Pipeline!Line(c)[k][i]) = goal
  BY DEF Pipeline!Number
<1>4. Pipeline!Number(Pipeline!Line(c)[l][j]) \in Pipeline!Underway(c)
  BY <1>2 DEF Pipeline!Only
<1>5. Pipeline!Number(Pipeline!Line(c)[l][j]) \in Int /\ Pipeline!Number(Pipeline!Line(c)[l][j]) <= goal
  BY <1>1, <1>4 DEF Pipeline!Underway
<1>6. Pipeline!Before(k, i, l, j)
      => Pipeline!Number(Pipeline!Line(c)[k][i]) < Pipeline!Number(Pipeline!Line(c)[l][j])
  BY <1>2 DEF Pipeline!InOrder
<1> QED BY <1>1, <1>3, <1>5, <1>6

\* A thread that has no producer to wait for has nothing before it: a message there
\* would follow the done message of its pair.
LEMMA ExitIsAfterDone ==
  ASSUME Pipeline!ThreeStageAssumption, PipelineInv
  PROVE  Pipeline!ExitAfterDone
<1> DEFINE n == Len(t2rq)
<1>1. ASSUME NEW c \in Pairs
      PROVE  /\ n \in Nat /\ DOMAIN Pipeline!Line(c) = 1 .. n + 4
             /\ Pipeline!Line(c)[1] = r2cq[c] /\ Pipeline!Line(c)[2] = rBlock
             /\ \A k \in 1 .. n : Pipeline!Line(c)[k + 2] = t2rq[k]
             /\ Pipeline!Line(c)[n + 3] = IF tPc \in {"get", "put"} THEN tBlock ELSE <<>>
             /\ Pipeline!Line(c)[n + 4] = p2tq
  BY PartsOfLine DEF PipelineInv
<1>2. /\ p2tq \in Seq(Pipeline!Message) /\ rBlock \in Seq(Pipeline!Message) /\ tBlock \in Seq(Pipeline!Message)
      /\ t2rq \in Seq(Seq(Pipeline!Message)) /\ pPc \in [Pairs -> {"run", "exit"}]
      /\ tPc \in {"check", "get", "put", "exit"} /\ goal \in Nat
  BY DEF PipelineInv, Pipeline!TypeOK, Pipeline!ThreeStageAssumption
<1>3. ASSUME NEW s \in Seq(Pipeline!Message), s # <<>>
      PROVE  1 \in DOMAIN s /\ s[1].destination \in Pairs
  <2>1. 1 \in DOMAIN s /\ s[1] \in Pipeline!Message
    BY <1>3
  <2> QED BY <2>1 DEF Pipeline!Message
<1>4. ASSUME TransmitterAwaits = {}
      PROVE  p2tq = <<>> /\ \A p \in Pairs : pPc[p] = "exit"
  <2>1. \A p \in Pairs : pPc[p] = "exit"
    BY <1>2, <1>4 DEF TransmitterAwaits
  <2>2. p2tq = <<>>
    <3> SUFFICES ASSUME p2tq # <<>>
                 PROVE  FALSE
      OBVIOUS
    <3> DEFINE c == p2tq[1].destination  line == Pipeline!Line(c)
    <3>1. 1 \in DOMAIN p2tq /\ c \in Pairs
      BY <1>2, <1>3
    <3>2. goal \in Pipeline!Underway(c)
      <4>1. consumed[c] \in 0 .. goal
        BY <3>1 DEF PipelineInv, Pipeline!TypeOK
      <4> QED BY <1>2, <2>1, <3>1, <4>1 DEF Pipeline!Underway
    <3>3. PICK k \in DOMAIN line : \E i \in DOMAIN line[k] : line[k][i] = Pipeline!Numbered(c, goal)
      BY <3>1, <3>2 DEF PipelineInv, Pipeline!PipelineOrder, Pipeline!Carries, Pipeline!All
    <3>4. PICK i \in DOMAIN line[k] : line[k][i] = Pipeline!Numbered(c, goal)
      BY <3>3
    <3>5. line[k][i].destination = c /\ Pipeline!IsDone(line[k][i])
      BY <3>4 DEF Pipeline!Numbered, Pipeline!Msg, Pipeline!IsDone, Pipeline!DoneSeq
    <3>6. k # n + 4
      BY <1>1, <1>4, <3>1, <3>5 DEF TransmitterAwaits
    <3>7. Pipeline!Before(k, i, n + 4, 1)
      BY <1>1, <3>1, <3>6 DEF Pipeline!Before
    <3>8. n + 4 \in DOMAIN line /\ line[n + 4] = p2tq
      BY <1>1, <3>1
    <3> QED BY <3>1, <3>5, <3>7, <3>8, NothingBehind
  <2> QED BY <2>1, <2>2
<1>5. ASSUME ReceiverAwaits = {}
      PROVE  t2rq = <<>> /\ rBlock = <<>> /\ tPc = "exit"
  <2>1. ASSUME NEW c \in Pairs, NEW l \in 2 .. n + 4, NEW j \in DOMAIN Pipeline!Line(c)[l],
               Pipeline!Line(c)[l][j].destination = c
        PROVE  FALSE
    <3>1. PICK i \in DOMAIN r2cq[c] : Pipeline!IsDone(r2cq[c][i])
      BY <1>5 DEF ReceiverAwaits
    <3>2. r2cq[c][i].destination = c
      BY DEF PipelineInv, Pipeline!PipelineOrder
    <3>3. /\ 1 \in DOMAIN Pipeline!Line(c) /\ Pipeline!Line(c)[1] = r2cq[c] /\ l \in DOMAIN Pipeline!Line(c)
      BY <1>1
    <3>4. Pipeline!Before(1, i, l, j)
      BY <1>1 DEF Pipeline!Before
    <3> QED BY <2>1, <3>1, <3>2, <3>3, <3>4, NothingBehind
  <2>2. ASSUME NEW s \in Seq(Pipeline!Message), s # <<>>, NEW l \in 2 .. n + 4,
               \A c \in Pairs : Pipeline!Line(c)[l] = s
        PROVE  FALSE
    BY <1>3, <2>1, <2>2
  <2>3. Pairs # {} /\ n \in Nat
    BY <1>2 DEF Pipeline!ThreeStageAssumption
  <2>4. rBlock = <<>>
    BY <1>1, <1>2, <2>2, <2>3, 2 \in 2 .. n + 4
  <2>5. t2rq = <<>>
    <3> SUFFICES ASSUME n # 0
                 PROVE  FALSE
      BY <1>2
    <3>1. 1 \in 1 .. n /\ 3 \in 2 .. n + 4 /\ 1 + 2 = 3
      BY <2>3
    <3>2. t2rq[1] \in Seq(Pipeline!Message) /\ Len(t2rq[1]) \in 1 .. TBLOCK_SIZE
      BY <3>1, BlocksAreRight DEF BlocksAre, PipelineInv
    <3>3. \A c \in Pairs : Pipeline!Line(c)[3] = t2rq[1]
      BY <1>1, <3>1
    <3>4. t2rq[1] # <<>>
      BY <3>2
    <3> QED BY <2>2, <3>1, <3>2, <3>3, <3>4
  <2>6. p2tq = <<>>
    <3>1. n + 4 \in 2 .. n + 4 /\ \A c \in Pairs : Pipeline!Line(c)[n + 4] = p2tq
      BY <1>1, <2>3
    <3> QED BY <1>2, <2>2, <3>1
  <2>7. tPc # "put"
    <3>1. tPc = "put" => tBlock # <<>>
      BY DEF PipelineInv, TransmitterCounts
    <3>2. n + 3 \in 2 .. n + 4
      BY <2>3
    <3>3. tPc = "put" => \A c \in Pairs : Pipeline!Line(c)[n + 3] = tBlock
      BY <1>1
    <3> QED BY <1>2, <2>2, <3>1, <3>2, <3>3
  <2>8. TransmitterAwaits = {}
    <3> SUFFICES ASSUME NEW p \in Pairs
                 PROVE  pPc[p] = "exit" /\ DOMAIN p2tq = {}
      BY DEF TransmitterAwaits
    <3>1. PICK i \in DOMAIN r2cq[p] : Pipeline!IsDone(r2cq[p][i])
      BY <1>5 DEF ReceiverAwaits
    <3>2. r2cq[p][i].destination = p
      BY DEF PipelineInv, Pipeline!PipelineOrder
    <3>3. 1 \in DOMAIN Pipeline!Line(p) /\ Pipeline!Line(p)[1] = r2cq[p]
      BY <1>1
    <3> QED BY <1>2, <2>6, <3>1, <3>2, <3>3, DoneMeansExit
  <2>9. tPc \in {"check", "get"} => TransmitterAwaits # {}
    BY DEF PipelineInv, TransmitterCounts
  <2> QED BY <1>2, <2>4, <2>5, <2>7, <2>8, <2>9
<1>6. /\ tPc = "exit" /\ ~ShutDown => TransmitterAwaits = {}
      /\ rPc = "exit" /\ ~ShutDown => ReceiverAwaits = {}
  BY DEF PipelineInv, TransmitterCounts, ReceiverCounts
<1> QED BY <1>4, <1>5, <1>6 DEF Pipeline!ExitAfterDone
\* The inductive invariant holds in every reachable state.
LEMMA PipelineInvHolds == Chapter10Spec => []PipelineInv
<1>1. Chapter10Init => PipelineInv
  BY PipelineInvInit, PipelineAssumption DEF Chapter10Init
<1>2. PipelineInv /\ [Chapter10Next]_<<runs, vars, pipelineVars>> => PipelineInv'
  <2> SUFFICES ASSUME PipelineInv, [Chapter10Next]_<<runs, vars, pipelineVars>>
               PROVE  PipelineInv'
    OBVIOUS
  <2>1. Pipeline!Next \/ UNCHANGED pipelineVars
    BY DEF Chapter10Next
  <2> QED BY <2>1, PipelineInvStep, PipelineInvStutter, PipelineAssumption
<1> QED BY <1>1, <1>2, PTL DEF Chapter10Spec

\* Between a producer and its consumer no message is lost, repeated, misdirected or
\* overtaken, and no queue or block exceeds its length.
THEOREM PipelineKeepsOrder == Chapter10Spec => []PipelineOrder
<1>1. PipelineInv => PipelineOrder
  BY DEF PipelineInv, PipelineOrder
<1> QED BY <1>1, PipelineInvHolds, PTL

\* The Transmitter and the Receiver return for want of producers only when nothing
\* can be left behind them.
THEOREM ThreadsExitAfterDone == Chapter10Spec => []ExitAfterDone
<1>1. PipelineInv => ExitAfterDone
  BY ExitIsAfterDone, PipelineAssumption DEF ExitAfterDone
<1> QED BY <1>1, PipelineInvHolds, PTL

-----------------------------------------------------------------------------
(* The message block.                                                       *)

\* Who owns the guard, at which statement, and how often.
ConsumerInside == consPc = "inside" \/ (program = "eventPCx" /\ consPc = "ready")
Owners ==
  /\ ConsumerInside <=> owner = "consumer"
  /\ owner = "consumer" => depth = 1
  /\ owner = "nobody" <=> depth = 0
  /\ prodPc \in {"inside", "fill"} => owner = "producer"
  /\ program # "simplePCx" /\ owner = "producer" => depth = 1 /\ prodPc \in {"inside", "fill"}
\* The producer fills a block that is not ready, but for the defective program.
Filling ==
  /\ program # "simplePCx" => ~(prodPc = "fill" /\ fReady)
  /\ ~whole => prodPc = "fill"
\* eventPCx waits with the mutex, so the event it takes announces what is still there.
Announced ==
  program = "eventPCx" => /\ mReady => fReady \/ prodPc = "fill"
                          /\ consPc = "inside" => fReady /\ ~mReady
BlockInv == BlockRight /\ Owners /\ Filling /\ Announced

\* It holds at the start of each program, and while another pipeline runs.
LEMMA BlockInvInit == PipelinesInit => BlockInv
<1> SUFFICES ASSUME NEW p \in Block!Programs \cup {"none"}, Block!InitOf(p) PROVE BlockInv
  BY DEF PipelinesInit, Block!Init
<1> USE DEF Block!InitOf, Block!Programs
<1>1. Block!TypeOK
  BY DEF Block!TypeOK
<1>2. Block!MessagesAccounted
  BY DEF Block!MessagesAccounted
<1>3. Block!DisplaysValid /\ Block!LostTruthful /\ Block!DefectHidesDefect
  BY DEF Block!DisplaysValid, Block!LostTruthful, Block!DefectHidesDefect
<1>4. Owners /\ Filling /\ Announced
  BY DEF Owners, Filling, Announced, ConsumerInside
<1> QED BY <1>1, <1>2, <1>3, <1>4 DEF BlockInv, BlockRight

\* A step keeps the invariant.  The steps are grouped by what they touch: the
\* program counters, the guard, or the message itself.
LEMMA BlockInvStep == BlockInv /\ [PipelinesNext]_pipelinesVars => BlockInv'
<1> SUFFICES ASSUME BlockInv, Block!Next PROVE BlockInv'
  <2>1. CASE UNCHANGED blockVars
    BY <2>1 DEF blockVars, BlockInv, BlockRight, Owners, Filling, Announced, ConsumerInside,
      Block!Programs, Block!TypeOK, Block!DisplaysValid, Block!MessagesAccounted,
      Block!LostTruthful, Block!DefectHidesDefect
  <2> QED BY <2>1 DEF PipelinesNext, pipelinesVars
<1> USE DEF BlockInv, BlockRight, Block!Programs, Block!EventPrograms, Block!Enter, Block!Leave,
            Block!guard, Block!block, Block!made, Block!used
<1>1. CASE \/ Block!ProducerTest \/ Block!ConsumerTest \/ Block!IllegalCommand
           \/ \E g \in BOOLEAN : Block!StopCommand(g)
           \/ Block!ConsumeCommand("enter")
           \/ program = "eventPC" /\ Block!ConsumeCommand("ready")
           \/ program = "eventPC" /\ Block!WaitReady("enter")
           \/ program = "eventPCx" /\ Block!WaitReady("inside")
  <2> USE <1>1 DEF Block!ProducerTest, Block!ConsumerTest, Block!IllegalCommand,
        Block!StopCommand, Block!ConsumeCommand, Block!WaitReady
  <2>1. owner' = owner /\ depth' = depth /\ prodPc' \in {prodPc, "sleep", "exit"}
    OBVIOUS
  <2>2. Owners'
    BY <2>1 DEF Block!TypeOK, Owners, ConsumerInside
  <2>3. /\ prodPc' \in {"test", "sleep", "inside", "fill", "exit"}
        /\ consPc' \in {"test", "prompt", "enter", "ready", "inside", "exit"}
    BY DEF Block!TypeOK
  <2>4. Block!TypeOK' /\ Owners'
    BY <2>1, <2>2, <2>3 DEF Block!TypeOK
  <2>5. Block!MessagesAccounted' /\ Block!LostTruthful'
    BY DEF Block!MessagesAccounted, Block!LostTruthful, Block!TypeOK, Filling, Announced
  <2>6. Block!DisplaysValid' /\ Block!DefectHidesDefect' /\ Filling' /\ Announced'
    BY DEF Block!DisplaysValid, Block!DefectHidesDefect, Filling, Announced, Owners,
           ConsumerInside, Block!TypeOK
  <2> QED BY <2>4, <2>5, <2>6
<1>2. CASE \/ Block!ProducerEnter
           \/ program # "simplePCx" /\ Block!ProducerStopped(1)
           \/ program = "simplePCx" /\ Block!ProducerStopped(0)
           \/ program # "eventPCx" /\ Block!ConsumerEnter("inside")
           \/ program = "eventPCx" /\ Block!ConsumerEnter("ready")
           \/ program # "eventPCx" /\ Block!NothingNew
  <2> USE <1>2 DEF Block!ProducerEnter, Block!ProducerStopped, Block!ConsumerEnter,
        Block!NothingNew
  <2>1. Owners'
    BY DEF Block!TypeOK, Owners, ConsumerInside
  <2>2. /\ prodPc' \in {"test", "sleep", "inside", "fill", "exit"}
        /\ consPc' \in {"test", "prompt", "enter", "ready", "inside", "exit"}
    BY DEF Block!TypeOK
  <2>3. owner' \in {"nobody", "producer", "consumer"} /\ depth' \in Nat
    BY DEF Block!TypeOK, Owners, ConsumerInside
  <2>4. Block!TypeOK'
    BY <2>1, <2>2, <2>3 DEF Block!TypeOK, Owners
  <2>5. Block!MessagesAccounted' /\ Block!LostTruthful'
    BY DEF Block!MessagesAccounted, Block!LostTruthful, Block!TypeOK, Filling, Announced
  <2>6. Block!DisplaysValid' /\ Block!DefectHidesDefect' /\ Filling' /\ Announced'
    BY DEF Block!DisplaysValid, Block!DefectHidesDefect, Filling, Announced, Owners,
           ConsumerInside, Block!TypeOK
  <2> QED BY <2>5, <2>6, <2>1, <2>4
<1>3. CASE program # "simplePCx" /\ Block!FillStart
  <2> USE <1>3 DEF Block!FillStart
  <2>1. overwritten' \in Nat
    BY DEF Block!TypeOK
  <2>2. Block!TypeOK' /\ Owners'
    BY <2>1 DEF Block!TypeOK, Owners, ConsumerInside
  <2>3. Block!MessagesAccounted' /\ Block!LostTruthful'
    BY DEF Block!MessagesAccounted, Block!LostTruthful, Block!TypeOK, Filling, Announced
  <2>4. Block!DisplaysValid' /\ Block!DefectHidesDefect' /\ Filling' /\ Announced'
    BY DEF Block!DisplaysValid, Block!DefectHidesDefect, Filling, Announced, Owners,
           ConsumerInside, Block!TypeOK
  <2> QED BY <2>2, <2>3, <2>4
<1>4. CASE program # "simplePCx" /\ Block!FillEnd
  <2> USE <1>4 DEF Block!FillEnd
  <2>1. Block!TypeOK' /\ Owners'
    BY DEF Block!TypeOK, Owners, ConsumerInside
  <2>2. Block!MessagesAccounted' /\ Block!LostTruthful'
    BY DEF Block!MessagesAccounted, Block!LostTruthful, Block!TypeOK, Filling, Announced
  <2>3. Block!DisplaysValid' /\ Block!DefectHidesDefect' /\ Filling' /\ Announced'
    BY DEF Block!DisplaysValid, Block!DefectHidesDefect, Filling, Announced, Owners,
           ConsumerInside, Block!TypeOK
  <2> QED BY <2>1, <2>2, <2>3
<1>5. CASE program = "simplePCx" /\ Block!AnnounceX
  <2> USE <1>5 DEF Block!AnnounceX
  <2>1. overwritten' \in Nat
    BY DEF Block!TypeOK
  <2>2. Owners'
    BY <2>1 DEF Block!TypeOK, Owners, ConsumerInside
  <2>3. Block!TypeOK'
    <3>1. /\ nCons' \in Nat /\ mSequence' \in Nat /\ nLost' \in Nat
          /\ shown' \in Nat /\ overwritten' \in Nat /\ replaced' \in Nat
      BY <2>1 DEF Block!TypeOK
    <3>2. corrupt' \in BOOLEAN
      BY <2>1 DEF Block!TypeOK
    <3>3. /\ program' \in Block!Programs \cup {"none"}
          /\ mReady' \in BOOLEAN /\ fReady' \in BOOLEAN /\ fStop' \in BOOLEAN /\ whole' \in BOOLEAN
      BY DEF Block!TypeOK
    <3>4. owner' \in {"nobody", "producer", "consumer"} /\ depth' \in Nat
      BY DEF Block!TypeOK, Owners, ConsumerInside
    <3>5. /\ prodPc' \in {"test", "sleep", "inside", "fill", "exit"}
          /\ consPc' \in {"test", "prompt", "enter", "ready", "inside", "exit"}
      BY DEF Block!TypeOK
    <3> QED BY <2>2, <3>1, <3>2, <3>3, <3>4, <3>5 DEF Block!TypeOK, Owners
  <2>4. Block!MessagesAccounted' /\ Block!LostTruthful'
    BY DEF Block!MessagesAccounted, Block!LostTruthful, Block!TypeOK, Filling, Announced
  <2>5. Block!DisplaysValid' /\ Block!DefectHidesDefect' /\ Filling' /\ Announced'
    BY DEF Block!DisplaysValid, Block!DefectHidesDefect, Filling, Announced, Owners,
           ConsumerInside, Block!TypeOK
  <2> QED BY <2>2, <2>4, <2>5, <2>3
<1>6. CASE program = "simplePCx" /\ Block!FillEndX
  <2> USE <1>6 DEF Block!FillEndX
  <2>1. Block!TypeOK' /\ Owners'
    BY DEF Block!TypeOK, Owners, ConsumerInside
  <2>2. Block!MessagesAccounted' /\ Block!LostTruthful'
    BY DEF Block!MessagesAccounted, Block!LostTruthful, Block!TypeOK, Filling, Announced
  <2>3. Block!DisplaysValid' /\ Block!DefectHidesDefect' /\ Filling' /\ Announced'
    BY DEF Block!DisplaysValid, Block!DefectHidesDefect, Filling, Announced, Owners,
           ConsumerInside, Block!TypeOK
  <2> QED BY <2>1, <2>2, <2>3
<1>7. CASE \/ program = "simplePC" /\ fReady /\ Block!Display(2, 1)
           \/ program = "eventPC" /\ fReady /\ Block!Display(0, 1)
           \/ program = "eventPCx" /\ Block!Display(0, 1)
  <2> USE <1>7 DEF Block!Display
  <2>1. nLost' \in Nat /\ nCons' \in Nat
    BY DEF Block!TypeOK, Block!MessagesAccounted, Announced
  <2>2. corrupt' \in BOOLEAN
    BY Zenon
  <2>3. Owners'
    <3>1. owner' = "nobody" /\ depth' = 0 /\ consPc' = "test" /\ prodPc' = prodPc
      BY DEF Owners, ConsumerInside
    <3> QED BY <3>1 DEF Owners, ConsumerInside, Block!TypeOK
  <2>4. Block!TypeOK'
    <3>1. /\ nCons' \in Nat /\ mSequence' \in Nat /\ nLost' \in Nat
          /\ shown' \in Nat /\ overwritten' \in Nat /\ replaced' \in Nat
      BY <2>2, <2>1 DEF Block!TypeOK
    <3>2. corrupt' \in BOOLEAN
      BY <2>2 DEF Block!TypeOK
    <3>3. /\ program' \in Block!Programs \cup {"none"}
          /\ mReady' \in BOOLEAN /\ fReady' \in BOOLEAN /\ fStop' \in BOOLEAN /\ whole' \in BOOLEAN
      BY DEF Block!TypeOK
    <3>4. owner' \in {"nobody", "producer", "consumer"} /\ depth' \in Nat
      BY DEF Block!TypeOK, Owners, ConsumerInside
    <3>5. /\ prodPc' \in {"test", "sleep", "inside", "fill", "exit"}
          /\ consPc' \in {"test", "prompt", "enter", "ready", "inside", "exit"}
      BY DEF Block!TypeOK
    <3> QED BY <2>3, <3>1, <3>2, <3>3, <3>4, <3>5 DEF Block!TypeOK, Owners
  <2>5. Block!MessagesAccounted' /\ Block!LostTruthful'
    BY DEF Block!MessagesAccounted, Block!LostTruthful, Block!TypeOK, Filling, Announced
  <2>6. Block!DisplaysValid' /\ Block!DefectHidesDefect' /\ Filling' /\ Announced'
    BY DEF Block!DisplaysValid, Block!DefectHidesDefect, Filling, Announced, Owners,
           ConsumerInside, Block!TypeOK
  <2> QED BY <2>3, <2>5, <2>6, <2>4
<1>8. ~(program = "simplePCx" /\ fReady /\ Block!Display(0, 2))
  BY DEF Block!Display, Block!DefectHidesDefect, Owners, ConsumerInside
<1> QED
  BY <1>1, <1>2, <1>3, <1>4, <1>5, <1>6, <1>7, <1>8
  DEF Block!Next, Block!simplePC, Block!simplePCx, Block!eventPC, Block!eventPCx,
      Block!Producer, Block!ProducerX, Block!ConsumerX, Block!Prompt

(* The message block: no display says BAD, a message that is ready and not  *)
(* stopped is whole, each message is shown, replaced or ready, nLost counts *)
(* those replaced before the last shown one in all programs but simplePC,   *)
(* and simplePCx never leaves its guard (BlockRight), for any number of     *)
(* messages.                                                                *)
THEOREM BlockIsRight == PipelinesSpec => []BlockRight
<1>1. BlockInv => BlockRight
  BY DEF BlockInv
<1> QED BY <1>1, BlockInvInit, BlockInvStep, PTL DEF PipelinesSpec

\* Only the producer sets the event, and it cannot enter while the consumer owns the mutex.
LEMMA HeldStays ==
  BlockInv /\ [PipelinesNext]_pipelinesVars => (Block!HeldForEver => Block!HeldForEver')
<1> SUFFICES ASSUME BlockInv, [PipelinesNext]_pipelinesVars, Block!HeldForEver
             PROVE  Block!HeldForEver'
  OBVIOUS
<1>1. CASE UNCHANGED blockVars
  BY <1>1 DEF blockVars, Block!HeldForEver
<1>2. CASE Block!Next
  <2>1. owner = "consumer" /\ prodPc \notin {"inside", "fill"}
    BY DEF BlockInv, Owners, ConsumerInside, Block!HeldForEver
  <2> QED
    BY <1>2, <2>1 DEF Block!HeldForEver, Block!Next, Block!simplePC, Block!simplePCx, Block!eventPC,
      Block!eventPCx, Block!Producer, Block!Prompt, Block!ProducerTest, Block!ProducerEnter,
      Block!ProducerStopped, Block!FillStart, Block!FillEnd, Block!ConsumerTest,
      Block!IllegalCommand, Block!StopCommand, Block!ConsumeCommand, Block!ConsumerEnter,
      Block!WaitReady, Block!Display, Block!Enter, Block!block
<1> QED BY <1>1, <1>2 DEF PipelinesNext, pipelinesVars

(* When the consumer of eventPCx waits for the event with the mutex, it     *)
(* waits for ever, and the producer with it (StaysHeld of MsgBlock).        *)
THEOREM MutexHeldForEver == PipelinesSpec => Block!StaysHeld
<1>1. BlockInv /\ [PipelinesNext]_pipelinesVars
        => [Block!HeldForEver => Block!HeldForEver']_(Block!vars)
  BY HeldStays
<1> QED BY <1>1, BlockInvInit, BlockInvStep, PTL DEF PipelinesSpec, Block!StaysHeld
=============================================================================
