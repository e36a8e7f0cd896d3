--------------------------- MODULE Programs_proofs --------------------------
(***************************************************************************)
(* Proofs about the programs of MCPrograms: the parallel conversions of    *)
(* chapter 14, sortMT, compMP, the crews of files, the statistics workers  *)
(* and the emulated message queues with their test program.  Each part has *)
(* the inductive invariant of one program, and every step of another       *)
(* program leaves its variables alone; the last parts put them together.   *)
(***************************************************************************)
EXTENDS MCPrograms, QueueRing_proofs

-----------------------------------------------------------------------------
(* Arithmetic of the stripes.                                              *)

\* The records of stripe k, whether or not the file has them.
Stripe(k) == {r \in Nat : \E n \in Nat : r = k + n * MaxOvrlp}

\* No record is in two stripes.
LEMMA StripesDisjoint ==
  ASSUME S!StripesAssumption, NEW j \in S!Slots, NEW k \in S!Slots, NEW r,
         r \in Stripe(j), r \in Stripe(k)
  PROVE  j = k
<1> USE DEF S!StripesAssumption, S!Slots
<1>1. PICK m \in Nat : r = j + m * MaxOvrlp
  BY DEF Stripe
<1>2. PICK n \in Nat : r = k + n * MaxOvrlp
  BY DEF Stripe
<1>3. ASSUME NEW x \in Nat, NEW y \in Nat, x < y
      PROVE  x * MaxOvrlp + MaxOvrlp <= y * MaxOvrlp
  <2>1. PICK d \in Nat : y = x + 1 + d
    <3>1. y - x - 1 \in Nat /\ y = x + 1 + (y - x - 1)
      BY <1>3
    <3> QED BY <3>1
  <2>2. y * MaxOvrlp = x * MaxOvrlp + MaxOvrlp + d * MaxOvrlp
    BY <2>1
  <2> QED BY <2>2
<1>4. m * MaxOvrlp \in Nat /\ n * MaxOvrlp \in Nat
  OBVIOUS
<1>5. ~(m < n) /\ ~(n < m)
  BY <1>1, <1>2, <1>3, <1>4
<1>6. m = n
  BY <1>5
<1> QED BY <1>1, <1>2, <1>4, <1>6

\* Every record is in one.
LEMMA StripesCover ==
  ASSUME S!StripesAssumption, NEW r \in Nat
  PROVE  \E k \in S!Slots : r \in Stripe(k)
<1>1. /\ r % MaxOvrlp \in 0 .. (MaxOvrlp - 1) /\ r \div MaxOvrlp \in Nat
      /\ r = (r % MaxOvrlp) + (r \div MaxOvrlp) * MaxOvrlp
  BY DEF S!StripesAssumption
<1> QED BY <1>1 DEF Stripe, S!Slots

\* A stripe starts at its own number.
LEMMA StripeFirst ==
  ASSUME S!StripesAssumption, NEW k \in S!Slots
  PROVE  k \in Stripe(k) /\ \A q \in Stripe(k) : ~(q < k)
<1> USE DEF S!StripesAssumption, S!Slots
<1>1. k = k + 0 * MaxOvrlp
  OBVIOUS
<1>2. ASSUME NEW q \in Stripe(k)
      PROVE  ~(q < k)
  <2>1. PICK n \in Nat : q = k + n * MaxOvrlp
    BY DEF Stripe
  <2>2. n * MaxOvrlp \in Nat
    OBVIOUS
  <2> QED BY <2>1, <2>2
<1> QED BY <1>1, <1>2 DEF Stripe

\* The record after r in its stripe is MaxOvrlp further on.
LEMMA StripeNext ==
  ASSUME S!StripesAssumption, NEW k \in S!Slots, NEW r \in Stripe(k)
  PROVE  /\ r + MaxOvrlp \in Stripe(k)
         /\ \A q \in Stripe(k) : q < r + MaxOvrlp => q <= r
<1> USE DEF S!StripesAssumption, S!Slots
<1>1. PICK n \in Nat : r = k + n * MaxOvrlp
  BY DEF Stripe
<1>2. r + MaxOvrlp \in Nat /\ r + MaxOvrlp = k + (n + 1) * MaxOvrlp /\ n + 1 \in Nat
  BY <1>1 DEF Stripe
<1>3. ASSUME NEW q \in Stripe(k), q < r + MaxOvrlp
      PROVE  q <= r
  <2>1. PICK m \in Nat : q = k + m * MaxOvrlp
    BY DEF Stripe
  <2>2. CASE m <= n
    <3>1. PICK d \in Nat : n = m + d
      <4>1. n - m \in Nat /\ n = m + (n - m)
        BY <2>2
      <4> QED BY <4>1
    <3>2. n * MaxOvrlp = m * MaxOvrlp + d * MaxOvrlp /\ d * MaxOvrlp \in Nat /\ m * MaxOvrlp \in Nat
      BY <3>1
    <3> QED BY <1>1, <2>1, <3>2
  <2>3. CASE m > n
    <3>1. PICK d \in Nat : m = n + 1 + d
      <4>1. m - n - 1 \in Nat /\ m = n + 1 + (m - n - 1)
        BY <2>3
      <4> QED BY <4>1
    <3>2. m * MaxOvrlp = n * MaxOvrlp + MaxOvrlp + d * MaxOvrlp /\ d * MaxOvrlp \in Nat /\ n * MaxOvrlp \in Nat
      BY <3>1
    <3>3. q >= r + MaxOvrlp
      BY <1>1, <2>1, <3>2
    <3> QED BY <1>2, <1>3, <2>1, <3>3, <3>2
  <2> QED BY <2>2, <2>3
<1>4. r + MaxOvrlp \in Stripe(k)
  BY <1>2 DEF Stripe
<1> QED BY <1>3, <1>4

-----------------------------------------------------------------------------
(* The inductive invariant.                                                *)

ThreadLabels == {"start", "loop", "write", "exit"}
BufferLabels == {"idle", "reading", "read", "writing", "written"}
CciContents == [record : S!Records \cup {MaxRecords}, shifts : 0..1]
Shifted(r, n) == [record |-> r, shifts |-> n]
Started == {s \in S!Slots : pc[s] # "start"}

StripesTyped ==
  /\ S!StripesAssumption
  /\ cci \in S!Programs \cup {"none"} /\ nRecords \in 0..MaxRecords
  /\ pc \in [S!Slots -> ThreadLabels \cup BufferLabels]
  /\ \A s \in S!Slots : pc[s] \in ThreadLabels <=> cci \in S!Threaded
  /\ iTh \in [S!Slots -> S!Slots] /\ WorkerId \in 0..MaxOvrlp
  /\ cciPos \in [S!Slots -> Nat] /\ overLapOut \in [S!Slots -> Nat]
  /\ buffer \in [S!Slots -> CciContents] /\ out \in [S!Records -> CciContents]
  /\ done \in 0..(2 * nRecords) /\ bossPc \in {"run", "closed"}

\* Every stripe has at most one thread, and the callbacks that have numbered
\* themselves have taken the first stripes.
Numbered ==
  /\ \A s, t \in Started : s # t => iTh[s] # iTh[t]
  /\ cci # "cciMT_VTP" => \A s \in S!Slots : iTh[s] = s
  /\ cci = "cciMT_VTP" =>
       /\ WorkerId = Cardinality(Started)
       /\ \A s \in Started : iTh[s] < WorkerId
       /\ \A k \in 0..(WorkerId - 1) : \E s \in Started : iTh[s] = k

\* A thread or buffer is at a record of its stripe, and what it holds belongs there.
Place(s) ==
  pc[s] # "start" =>
    /\ cciPos[s] \in Stripe(iTh[s])
    /\ \A q \in Stripe(iTh[s]) : q < cciPos[s] => q < nRecords
    /\ pc[s] \in {"writing", "written"} =>
         overLapOut[s] \in Stripe(iTh[s]) /\ overLapOut[s] < nRecords /\ overLapOut[s] < cciPos[s]
    /\ pc[s] \in {"write", "reading", "read"} => cciPos[s] < nRecords
    /\ pc[s] \in {"exit", "idle"} => ~(cciPos[s] < nRecords)
    /\ pc[s] = "write" => buffer[s] = Shifted(cciPos[s], 1)
    /\ pc[s] = "read" => buffer[s] = Shifted(cciPos[s], 0)
    /\ pc[s] = "writing" => buffer[s] = Shifted(overLapOut[s], 1)

\* What a thread or buffer has passed is in the output, but for the record it writes.
Passed(s) ==
  pc[s] # "start" =>
    \A r \in S!Records : r \in Stripe(iTh[s]) /\ r < cciPos[s] =>
      out[r] # S!None \/ (pc[s] = "writing" /\ overLapOut[s] = r)

Output == \A r \in S!Records : out[r] = S!None \/ (r < nRecords /\ out[r] = Shifted(r, 1))

StripesInv ==
  /\ StripesTyped /\ Numbered /\ Output
  /\ \A s \in S!Slots : Place(s) /\ Passed(s)

LEMMA StripesInvInit == S!StripesAssumption /\ (S!Init \/ NoStripes) => StripesInv
<1> SUFFICES ASSUME S!StripesAssumption, NEW p \in S!Programs \cup {"none"}, NEW n \in 0..MaxRecords, S!InitOf(p, n)
             PROVE  StripesInv
  BY DEF S!Init, NoStripes, S!StripesAssumption
<1>1. StripesTyped
  <2>1. S!None \in CciContents
    BY DEF S!None, CciContents, S!StripesAssumption
  <2>2. 0 \in 0..MaxOvrlp /\ 0 \in 0..(2 * n)
    BY DEF S!StripesAssumption
  <2>3. \A s \in S!Slots : s \in Nat
    BY DEF S!Slots
  <2> QED BY <2>1, <2>2, <2>3
    DEF StripesTyped, S!InitOf, ThreadLabels, BufferLabels, S!Programs, S!Threaded, S!Async
<1>2. Numbered
  <2>1. Started = {} \/ p # "cciMT_VTP"
    BY DEF Started, S!InitOf, S!Threaded
  <2>2. Cardinality({}) = 0
    BY FS_EmptySet
  <2>3. cci = p /\ WorkerId = 0 /\ \A s \in S!Slots : iTh[s] = s
    BY DEF S!InitOf
  <2>4. \A s, t \in Started : s # t => iTh[s] # iTh[t]
    BY <2>3 DEF Started
  <2>5. ASSUME p = "cciMT_VTP"
        PROVE  /\ WorkerId = Cardinality(Started)
               /\ \A s \in Started : iTh[s] < WorkerId
               /\ \A k \in 0..(WorkerId - 1) : \E s \in Started : iTh[s] = k
    <3>1. Started = {}
      BY <2>1, <2>5
    <3>2. 0..(WorkerId - 1) = {}
      BY <2>3
    <3> QED BY <2>2, <2>3, <3>1, <3>2
  <2> QED BY <2>3, <2>4, <2>5 DEF Numbered
<1>3. Output
  BY DEF Output, S!InitOf
<1>4. ASSUME NEW s \in S!Slots
      PROVE  Place(s) /\ Passed(s)
  <2>1. s \in Stripe(s) /\ \A q \in Stripe(s) : ~(q < s)
    BY StripeFirst
  <2>2. pc[s] # "start" => pc[s] = IF s < n THEN "reading" ELSE "idle"
    BY DEF S!InitOf
  <2>3. cciPos[s] = s /\ iTh[s] = s /\ nRecords = n
    BY DEF S!InitOf
  <2>4. Place(s)
    BY <2>1, <2>2, <2>3 DEF Place
  <2>5. Passed(s)
    BY <2>1, <2>3 DEF Passed
  <2> QED BY <2>4, <2>5
<1> QED BY <1>1, <1>2, <1>3, <1>4 DEF StripesInv

\* A slot keeps its part of the invariant when another one moves.
LEMMA OthersKeep ==
  ASSUME NEW t \in S!Slots, Place(t), Passed(t), nRecords' = nRecords,
         pc'[t] = pc[t], iTh'[t] = iTh[t], cciPos'[t] = cciPos[t],
         overLapOut'[t] = overLapOut[t], buffer'[t] = buffer[t],
         \A r \in S!Records : out[r] # S!None => out'[r] # S!None
  PROVE  Place(t)' /\ Passed(t)'
<1>1. Place(t)'
  BY DEF Place, Stripe
<1>2. Passed(t)'
  BY DEF Passed, Stripe, S!None
<1> QED BY <1>1, <1>2

-----------------------------------------------------------------------------
(* The steps.                                                              *)

LEMMA StartedSize ==
  ASSUME StripesTyped
  PROVE  /\ IsFiniteSet(S!Slots) /\ Cardinality(S!Slots) = MaxOvrlp
         /\ IsFiniteSet(Started) /\ Cardinality(Started) \in 0..MaxOvrlp
         /\ Started # S!Slots => Cardinality(Started) < MaxOvrlp
         /\ Cardinality(Started) = MaxOvrlp => Started = S!Slots
<1>1. IsFiniteSet(S!Slots) /\ Cardinality(S!Slots) = MaxOvrlp
  BY FS_Interval DEF S!Slots, StripesTyped, S!StripesAssumption
<1>2. Started \subseteq S!Slots
  BY DEF Started
<1>3. /\ IsFiniteSet(Started) /\ Cardinality(Started) <= Cardinality(S!Slots)
      /\ Cardinality(Started) = Cardinality(S!Slots) => Started = S!Slots
  BY <1>1, <1>2, FS_Subset
<1>4. Cardinality(Started) \in Nat
  BY <1>3, FS_CardinalityType
<1> QED BY <1>1, <1>3, <1>4 DEF StripesTyped, S!StripesAssumption

LEMMA StepStart ==
  ASSUME StripesInv, NEW s \in S!Slots, S!Start(s)
  PROVE  StripesInv'
<1>1. /\ StripesTyped /\ Numbered /\ Output /\ s \notin Started
      /\ pc[s] = "start" /\ pc' = [pc EXCEPT ![s] = "loop"] /\ cci \in S!Threaded
      /\ cciPos' = [cciPos EXCEPT ![s] = iTh'[s]]
      /\ IF cci = "cciMT_VTP"
         THEN iTh' = [iTh EXCEPT ![s] = WorkerId] /\ WorkerId' = WorkerId + 1
         ELSE iTh' = iTh /\ WorkerId' = WorkerId
      /\ UNCHANGED <<cci, nRecords, overLapOut, buffer, out, done, bossPc>>
  BY DEF StripesInv, S!Start, S!Goto, Started
<1>2. Started' = Started \cup {s}
  BY <1>1 DEF Started, StripesTyped
<1>3. IsFiniteSet(Started) /\ Cardinality(Started) \in Nat /\ Cardinality(Started) < MaxOvrlp
  BY <1>1, StartedSize DEF StripesTyped, S!StripesAssumption
<1>4. Cardinality(Started') = Cardinality(Started) + 1
  BY <1>1, <1>2, <1>3, FS_AddElement
<1>5. cci = "cciMT_VTP" => WorkerId \in S!Slots /\ WorkerId + 1 \in 0..MaxOvrlp
  <2>1. cci = "cciMT_VTP" => WorkerId = Cardinality(Started)
    BY <1>1 DEF Numbered
  <2>2. cci = "cciMT_VTP" => WorkerId \in Nat /\ WorkerId < MaxOvrlp
    BY <1>3, <2>1
  <2>3. MaxOvrlp \in Nat
    BY <1>1 DEF StripesTyped, S!StripesAssumption
  <2> QED BY <2>2, <2>3 DEF S!Slots
<1>6. iTh' \in [S!Slots -> S!Slots] /\ WorkerId' \in 0..MaxOvrlp
  BY <1>1, <1>5 DEF StripesTyped
<1>7. cciPos' \in [S!Slots -> Nat]
  <2>1. iTh'[s] \in Nat
    BY <1>6 DEF S!Slots
  <2> QED BY <1>1, <2>1 DEF StripesTyped
<1>8. StripesTyped'
  <2>1. pc' \in [S!Slots -> ThreadLabels \cup BufferLabels]
    BY <1>1 DEF StripesTyped, ThreadLabels
  <2>2. \A t \in S!Slots : pc'[t] \in ThreadLabels <=> cci \in S!Threaded
    BY <1>1 DEF StripesTyped, ThreadLabels
  <2> QED BY <1>1, <1>6, <1>7, <2>1, <2>2 DEF StripesTyped
<1>9. Numbered'
  <2>1. CASE cci # "cciMT_VTP"
    BY <1>1, <1>2, <2>1 DEF Numbered, Started
  <2>2. CASE cci = "cciMT_VTP"
    <3>0. /\ iTh \in [S!Slots -> S!Slots] /\ iTh' = [iTh EXCEPT ![s] = WorkerId]
          /\ Started \subseteq S!Slots /\ \A k \in S!Slots : k \in Nat
      BY <1>1, <2>2 DEF StripesTyped, Started, S!Slots
    <3>1. /\ iTh'[s] = WorkerId /\ \A t \in Started : iTh'[t] = iTh[t] /\ iTh[t] < WorkerId
          /\ WorkerId' = WorkerId + 1 /\ WorkerId \in Nat
      BY <1>1, <1>5, <2>2, <3>0 DEF Numbered
    <3>2. \A t \in Started : iTh[t] \in Nat
      BY <3>0
    <3>3. \A t, u \in Started' : t # u => iTh'[t] # iTh'[u]
      BY <1>1, <1>2, <3>1, <3>2 DEF Numbered
    <3>4. \A t \in Started' : iTh'[t] < WorkerId'
      BY <1>2, <3>1, <3>2
    <3>5. ASSUME NEW k \in 0..(WorkerId' - 1)
          PROVE  \E t \in Started' : iTh'[t] = k
      <4>1. CASE k = WorkerId
        BY <1>2, <3>1, <4>1
      <4>2. CASE k # WorkerId
        <5>1. k \in 0..(WorkerId - 1)
          BY <3>1, <3>5, <4>2
        <5>2. PICK t \in Started : iTh[t] = k
          BY <1>1, <2>2, <5>1 DEF Numbered
        <5> QED BY <1>2, <3>1, <5>2
      <4> QED BY <4>1, <4>2
    <3>6. WorkerId' = Cardinality(Started')
      BY <1>1, <1>4, <2>2, <3>1 DEF Numbered
    <3> QED BY <1>1, <2>2, <3>3, <3>4, <3>5, <3>6 DEF Numbered
  <2> QED BY <2>1, <2>2
<1>10. Output'
  BY <1>1 DEF Output, S!None, Shifted
<1>11. ASSUME NEW t \in S!Slots
       PROVE  Place(t)' /\ Passed(t)'
  <2>1. CASE t = s
    <3>1. iTh'[s] \in S!Slots /\ cciPos'[s] = iTh'[s] /\ pc'[s] = "loop" /\ S!StripesAssumption
      BY <1>1, <1>6 DEF StripesTyped
    <3> DEFINE k == iTh'[s]
    <3> HIDE DEF k
    <3>2. k \in S!Slots
      BY <3>1 DEF k
    <3>3. k \in Stripe(k) /\ \A q \in Stripe(k) : ~(q < k)
      BY <3>1, <3>2, StripeFirst
    <3>4. cciPos'[s] \in Stripe(iTh'[s]) /\ \A q \in Stripe(iTh'[s]) : ~(q < cciPos'[s])
      BY <3>1, <3>3 DEF k
    <3>5. Place(t)'
      BY <2>1, <3>1, <3>4 DEF Place, Stripe
    <3>6. Passed(t)'
      BY <2>1, <3>1, <3>4 DEF Passed, Stripe
    <3> QED BY <3>5, <3>6
  <2>2. CASE t # s
    <3>1. /\ Place(t) /\ Passed(t)
          /\ pc'[t] = pc[t] /\ iTh'[t] = iTh[t] /\ cciPos'[t] = cciPos[t]
          /\ overLapOut' = overLapOut /\ buffer' = buffer /\ out' = out /\ nRecords' = nRecords
      BY <1>1, <2>2 DEF StripesInv, StripesTyped
    <3> QED BY <3>1, OthersKeep
  <2> QED BY <2>1, <2>2
<1> QED BY <1>8, <1>9, <1>10, <1>11 DEF StripesInv

\* A step that lets nobody start keeps the numbers.
LEMMA NumbersKeep ==
  ASSUME Numbered, UNCHANGED <<cci, iTh, WorkerId>>, Started' = Started
  PROVE  Numbered'
BY DEF Numbered

LEMMA StepReadWriteRead ==
  ASSUME StripesInv, NEW s \in S!Slots, S!ReadWriteRead(s)
  PROVE  StripesInv'
<1>1. /\ StripesTyped /\ Numbered /\ Output /\ Place(s) /\ Passed(s) /\ pc[s] = "loop"
      /\ IF cciPos[s] < nRecords
         THEN buffer' = [buffer EXCEPT ![s] = Shifted(cciPos[s], 1)] /\ pc' = [pc EXCEPT ![s] = "write"]
         ELSE pc' = [pc EXCEPT ![s] = "exit"] /\ buffer' = buffer
      /\ UNCHANGED <<cci, nRecords, iTh, WorkerId, cciPos, overLapOut, out, done, bossPc>>
  BY DEF StripesInv, S!ReadWriteRead, S!Goto, Shifted
<1>2. Started' = Started
  BY <1>1 DEF Started, StripesTyped
<1>3. buffer' \in [S!Slots -> CciContents]
  <2>1. CASE cciPos[s] < nRecords
    <3>1. Shifted(cciPos[s], 1) \in CciContents
      BY <1>1, <2>1 DEF StripesTyped, Shifted, CciContents, S!Records, S!StripesAssumption
    <3> QED BY <1>1, <2>1, <3>1 DEF StripesTyped
  <2> QED BY <1>1, <2>1 DEF StripesTyped
<1>4. StripesTyped'
  <2>1. pc' \in [S!Slots -> ThreadLabels \cup BufferLabels]
    BY <1>1 DEF StripesTyped, ThreadLabels
  <2>2. \A t \in S!Slots : pc'[t] \in ThreadLabels <=> cci \in S!Threaded
    BY <1>1 DEF StripesTyped, ThreadLabels
  <2> QED BY <1>1, <1>3, <2>1, <2>2 DEF StripesTyped
<1>5. Numbered'
  BY <1>1, <1>2, NumbersKeep
<1>6. Output'
  BY <1>1 DEF Output, S!None, Shifted
<1>7. ASSUME NEW t \in S!Slots
      PROVE  Place(t)' /\ Passed(t)'
  <2>1. CASE t = s
    <3>1. Passed(t)'
      BY <1>1, <2>1 DEF Passed, Stripe, S!None, StripesTyped
    <3>2. CASE cciPos[s] < nRecords
      <4>1. pc'[s] = "write" /\ buffer'[s] = Shifted(cciPos[s], 1)
        BY <1>1, <3>2 DEF StripesTyped
      <4> QED BY <1>1, <2>1, <3>1, <3>2, <4>1 DEF Place, Stripe, Shifted
    <3>3. CASE ~(cciPos[s] < nRecords)
      <4>1. pc'[s] = "exit"
        BY <1>1, <3>3 DEF StripesTyped
      <4> QED BY <1>1, <2>1, <3>1, <3>3, <4>1 DEF Place, Stripe, Shifted
    <3> QED BY <3>2, <3>3
  <2>2. CASE t # s
    <3>1. /\ Place(t) /\ Passed(t)
          /\ pc'[t] = pc[t] /\ buffer'[t] = buffer[t]
      BY <1>1, <2>2 DEF StripesInv, StripesTyped
    <3> QED BY <1>1, <3>1, OthersKeep
  <2> QED BY <2>1, <2>2
<1> QED BY <1>4, <1>5, <1>6, <1>7 DEF StripesInv

\* Writing record r where it belongs.
LEMMA OutputGrows ==
  ASSUME StripesTyped, Output, NEW r \in Nat, r < nRecords,
         out' = [out EXCEPT ![r] = Shifted(r, 1)], nRecords' = nRecords
  PROVE  /\ out' \in [S!Records -> CciContents] /\ Output' /\ r \in S!Records /\ out'[r] # S!None
         /\ \A q \in S!Records : out[q] # S!None => out'[q] # S!None
<1>1. r \in S!Records
  BY DEF StripesTyped, S!Records, S!StripesAssumption
<1>2. Shifted(r, 1) \in CciContents /\ Shifted(r, 1) # S!None
  BY <1>1 DEF Shifted, CciContents, S!None
<1>3. out \in [S!Records -> CciContents]
  BY DEF StripesTyped
<1>4. out'[r] = Shifted(r, 1) /\ \A q \in S!Records : q # r => out'[q] = out[q]
  BY <1>1, <1>3
<1>5. out' \in [S!Records -> CciContents]
  BY <1>1, <1>2, <1>3
<1>6. S!None' = S!None /\ \A q : Shifted(q, 1)' = Shifted(q, 1)
  BY DEF S!None, Shifted
<1>7. Output'
  BY <1>4, <1>6 DEF Output
<1> QED BY <1>1, <1>2, <1>4, <1>5, <1>7

LEMMA StepReadWriteWrite ==
  ASSUME StripesInv, NEW s \in S!Slots, S!ReadWriteWrite(s)
  PROVE  StripesInv'
<1>1. /\ StripesTyped /\ Numbered /\ Output /\ Place(s) /\ Passed(s) /\ pc[s] = "write"
      /\ out' = [out EXCEPT ![cciPos[s]] = Shifted(buffer[s].record, buffer[s].shifts)]
      /\ cciPos' = [cciPos EXCEPT ![s] = cciPos[s] + MaxOvrlp] /\ pc' = [pc EXCEPT ![s] = "loop"]
      /\ UNCHANGED <<cci, nRecords, iTh, WorkerId, overLapOut, buffer, done, bossPc>>
  BY DEF StripesInv, S!ReadWriteWrite, S!Goto, Shifted, S!NextRecord
<1>2. Started' = Started
  BY <1>1 DEF Started, StripesTyped
<1>3. cciPos[s] \in Nat /\ cciPos[s] < nRecords /\ out' = [out EXCEPT ![cciPos[s]] = Shifted(cciPos[s], 1)]
  BY <1>1 DEF Place, StripesTyped, Shifted
<1>4. /\ out' \in [S!Records -> CciContents] /\ Output' /\ out'[cciPos[s]] # S!None
      /\ \A q \in S!Records : out[q] # S!None => out'[q] # S!None
  BY <1>1, <1>3, OutputGrows
<1>5. StripesTyped'
  <2>1. pc' \in [S!Slots -> ThreadLabels \cup BufferLabels]
    BY <1>1 DEF StripesTyped, ThreadLabels
  <2>2. \A t \in S!Slots : pc'[t] \in ThreadLabels <=> cci \in S!Threaded
    BY <1>1 DEF StripesTyped, ThreadLabels
  <2>3. cciPos' \in [S!Slots -> Nat]
    BY <1>1 DEF StripesTyped, S!StripesAssumption
  <2> QED BY <1>1, <1>4, <2>1, <2>2, <2>3 DEF StripesTyped
<1>6. Numbered'
  BY <1>1, <1>2, NumbersKeep
<1>7. ASSUME NEW t \in S!Slots
      PROVE  Place(t)' /\ Passed(t)'
  <2>1. CASE t = s
    <3> DEFINE k == iTh[s]  c == cciPos[s]
    <3>1. k \in S!Slots /\ c \in Stripe(k) /\ S!StripesAssumption
      BY <1>1 DEF StripesTyped, Place
    <3>2. c + MaxOvrlp \in Stripe(k) /\ \A q \in Stripe(k) : q < c + MaxOvrlp => q <= c
      BY <3>1, StripeNext
    <3>3. pc'[s] = "loop" /\ cciPos'[s] = c + MaxOvrlp /\ iTh'[s] = k /\ nRecords' = nRecords
      BY <1>1 DEF StripesTyped
    <3>4. ASSUME NEW q \in Stripe(k), q < c + MaxOvrlp
          PROVE  q < nRecords /\ (q \in S!Records => out'[q] # S!None)
      <4>1. q = c \/ q < c
        BY <3>1, <3>2, <3>4 DEF Stripe
      <4>2. q < c => q < nRecords /\ (q \in S!Records => out[q] # S!None)
        BY <1>1, <3>4 DEF Place, Passed
      <4> QED BY <1>3, <1>4, <4>1, <4>2
    <3> HIDE DEF k, c
    <3>5. Place(t)'
      BY <2>1, <3>2, <3>3, <3>4 DEF Place, Stripe
    <3>6. Passed(t)'
      BY <2>1, <3>3, <3>4 DEF Passed, Stripe, S!None
    <3> QED BY <3>5, <3>6
  <2>2. CASE t # s
    <3>1. /\ Place(t) /\ Passed(t)
          /\ pc'[t] = pc[t] /\ cciPos'[t] = cciPos[t]
      BY <1>1, <2>2 DEF StripesInv, StripesTyped
    <3> QED BY <1>1, <1>4, <3>1, OthersKeep
  <2> QED BY <2>1, <2>2
<1> QED BY <1>4, <1>5, <1>6, <1>7 DEF StripesInv

\* Steps of the buffers.  A buffer's read or write may end at any time.
LEMMA StepIoRead ==
  ASSUME StripesInv, cci \in S!Async, NEW s \in S!Slots, S!IoRead(s)
  PROVE  StripesInv'
<1>1. /\ StripesTyped /\ Numbered /\ Output /\ Place(s) /\ Passed(s) /\ pc[s] = "reading"
      /\ buffer' = [buffer EXCEPT ![s] = Shifted(cciPos[s], 0)] /\ pc' = [pc EXCEPT ![s] = "read"]
      /\ UNCHANGED <<cci, nRecords, iTh, WorkerId, cciPos, overLapOut, out, done, bossPc>>
  BY DEF StripesInv, S!IoRead, S!Goto, Shifted
<1>2. Started' = Started
  BY <1>1 DEF Started, StripesTyped
<1>3. cciPos[s] \in Nat /\ cciPos[s] < nRecords
  BY <1>1 DEF Place, StripesTyped
<1>4. StripesTyped'
  <2>1. pc' \in [S!Slots -> ThreadLabels \cup BufferLabels]
    BY <1>1 DEF StripesTyped, BufferLabels
  <2>2. \A t \in S!Slots : pc'[t] \in ThreadLabels <=> cci \in S!Threaded
    BY <1>1 DEF StripesTyped, ThreadLabels
  <2>3. Shifted(cciPos[s], 0) \in CciContents
    BY <1>1, <1>3 DEF StripesTyped, Shifted, CciContents, S!Records, S!StripesAssumption
  <2>4. buffer' \in [S!Slots -> CciContents]
    BY <1>1, <2>3 DEF StripesTyped
  <2> QED BY <1>1, <2>1, <2>2, <2>4 DEF StripesTyped
<1>5. Numbered'
  BY <1>1, <1>2, NumbersKeep
<1>6. Output'
  BY <1>1 DEF Output, S!None, Shifted
<1>7. ASSUME NEW t \in S!Slots
      PROVE  Place(t)' /\ Passed(t)'
  <2>1. CASE t = s
    <3>1. pc'[s] = "read" /\ buffer'[s] = Shifted(cciPos[s], 0)
      BY <1>1 DEF StripesTyped
    <3>2. Passed(t)'
      BY <1>1, <2>1 DEF Passed, Stripe, S!None, StripesTyped
    <3>3. Place(t)'
      BY <1>1, <2>1, <3>1 DEF Place, Stripe, Shifted
    <3> QED BY <3>2, <3>3
  <2>2. CASE t # s
    <3>1. /\ Place(t) /\ Passed(t)
          /\ pc'[t] = pc[t] /\ buffer'[t] = buffer[t]
      BY <1>1, <2>2 DEF StripesInv, StripesTyped
    <3> QED BY <1>1, <3>1, OthersKeep
  <2> QED BY <2>1, <2>2
<1> QED BY <1>4, <1>5, <1>6, <1>7 DEF StripesInv

LEMMA StepIoWrite ==
  ASSUME StripesInv, cci \in S!Async, NEW s \in S!Slots, S!IoWrite(s)
  PROVE  StripesInv'
<1>1. /\ StripesTyped /\ Numbered /\ Output /\ Place(s) /\ Passed(s) /\ pc[s] = "writing"
      /\ out' = [out EXCEPT ![overLapOut[s]] = buffer[s]] /\ pc' = [pc EXCEPT ![s] = "written"]
      /\ UNCHANGED <<cci, nRecords, iTh, WorkerId, cciPos, overLapOut, buffer, done, bossPc>>
  BY DEF StripesInv, S!IoWrite, S!Goto
<1>2. Started' = Started
  BY <1>1 DEF Started, StripesTyped
<1>3. overLapOut[s] \in Nat /\ overLapOut[s] < nRecords /\ buffer[s] = Shifted(overLapOut[s], 1)
  BY <1>1 DEF Place, StripesTyped
<1>4. /\ out' \in [S!Records -> CciContents] /\ Output' /\ out'[overLapOut[s]] # S!None
      /\ \A q \in S!Records : out[q] # S!None => out'[q] # S!None
  BY <1>1, <1>3, OutputGrows
<1>5. StripesTyped'
  <2>1. pc' \in [S!Slots -> ThreadLabels \cup BufferLabels]
    BY <1>1 DEF StripesTyped, BufferLabels
  <2>2. \A t \in S!Slots : pc'[t] \in ThreadLabels <=> cci \in S!Threaded
    BY <1>1 DEF StripesTyped, ThreadLabels
  <2> QED BY <1>1, <1>4, <2>1, <2>2 DEF StripesTyped
<1>6. Numbered'
  BY <1>1, <1>2, NumbersKeep
<1>7. ASSUME NEW t \in S!Slots
      PROVE  Place(t)' /\ Passed(t)'
  <2>1. CASE t = s
    <3>1. pc'[s] = "written"
      BY <1>1 DEF StripesTyped
    <3>2. Place(t)'
      BY <1>1, <2>1, <3>1 DEF Place, Stripe
    <3>3. Passed(t)'
      BY <1>1, <1>4, <2>1, <3>1 DEF Passed, Stripe, S!None
    <3> QED BY <3>2, <3>3
  <2>2. CASE t # s
    <3>1. /\ Place(t) /\ Passed(t) /\ pc'[t] = pc[t]
      BY <1>1, <2>2 DEF StripesInv, StripesTyped
    <3> QED BY <1>1, <1>4, <3>1, OthersKeep
  <2> QED BY <2>1, <2>2
<1> QED BY <1>4, <1>5, <1>6, <1>7 DEF StripesInv

\* The place of the next read is computed before the write has ended.
LEMMA StepReadDone ==
  ASSUME StripesInv, NEW s \in S!Slots, S!ReadDone(s)
  PROVE  StripesInv'
<1>1. /\ StripesTyped /\ Numbered /\ Output /\ Place(s) /\ Passed(s) /\ pc[s] = "read"
      /\ buffer' = [buffer EXCEPT ![s].shifts = @ + 1]
      /\ overLapOut' = [overLapOut EXCEPT ![s] = cciPos[s]]
      /\ cciPos' = [cciPos EXCEPT ![s] = cciPos[s] + MaxOvrlp] /\ pc' = [pc EXCEPT ![s] = "writing"]
      /\ done' = done + 1 /\ done < 2 * nRecords
      /\ UNCHANGED <<cci, nRecords, iTh, WorkerId, out, bossPc>>
  BY DEF StripesInv, S!ReadDone, S!Goto, S!NextRecord
<1>2. Started' = Started
  BY <1>1 DEF Started, StripesTyped
<1>3. cciPos[s] \in Nat /\ cciPos[s] < nRecords /\ buffer[s] = Shifted(cciPos[s], 0)
  BY <1>1 DEF Place, StripesTyped
<1>4. buffer'[s] = Shifted(cciPos[s], 1) /\ buffer' \in [S!Slots -> CciContents]
  <2>1. Shifted(cciPos[s], 1) \in CciContents
    BY <1>1, <1>3 DEF StripesTyped, Shifted, CciContents, S!Records, S!StripesAssumption
  <2>2. [buffer[s] EXCEPT !.shifts = @ + 1] = Shifted(cciPos[s], 1)
    BY <1>3 DEF Shifted
  <2>3. buffer' = [buffer EXCEPT ![s] = Shifted(cciPos[s], 1)]
    BY <1>1, <2>2
  <2> QED BY <1>1, <2>1, <2>3 DEF StripesTyped
<1>5. StripesTyped'
  <2>1. pc' \in [S!Slots -> ThreadLabels \cup BufferLabels]
    BY <1>1 DEF StripesTyped, BufferLabels
  <2>2. \A t \in S!Slots : pc'[t] \in ThreadLabels <=> cci \in S!Threaded
    BY <1>1 DEF StripesTyped, ThreadLabels
  <2>3. cciPos' \in [S!Slots -> Nat] /\ overLapOut' \in [S!Slots -> Nat]
    BY <1>1 DEF StripesTyped, S!StripesAssumption
  <2>4. done' \in 0..(2 * nRecords)
    BY <1>1 DEF StripesTyped, S!StripesAssumption
  <2> QED BY <1>1, <1>4, <2>1, <2>2, <2>3, <2>4 DEF StripesTyped
<1>6. Numbered'
  BY <1>1, <1>2, NumbersKeep
<1>7. Output'
  BY <1>1 DEF Output, S!None, Shifted
<1>8. ASSUME NEW t \in S!Slots
      PROVE  Place(t)' /\ Passed(t)'
  <2>1. CASE t = s
    <3> DEFINE k == iTh[s]  c == cciPos[s]
    <3>1. k \in S!Slots /\ c \in Stripe(k) /\ S!StripesAssumption /\ c \in Nat /\ MaxOvrlp \in Nat \ {0}
      BY <1>1 DEF StripesTyped, Place, S!StripesAssumption
    <3>2. c + MaxOvrlp \in Stripe(k) /\ \A q \in Stripe(k) : q < c + MaxOvrlp => q <= c
      BY <3>1, StripeNext
    <3>3. /\ pc'[s] = "writing" /\ cciPos'[s] = c + MaxOvrlp /\ overLapOut'[s] = c
          /\ iTh'[s] = k /\ nRecords' = nRecords /\ out' = out /\ buffer'[s] = Shifted(c, 1)
      BY <1>1, <1>4 DEF StripesTyped
    <3>4. ASSUME NEW q \in Stripe(k), q < c + MaxOvrlp
          PROVE  q < nRecords /\ (q \in S!Records => out[q] # S!None \/ q = c)
      <4>1. q = c \/ q < c
        BY <3>1, <3>2, <3>4 DEF Stripe
      <4>2. q < c => q < nRecords /\ (q \in S!Records => out[q] # S!None)
        BY <1>1, <3>4 DEF Place, Passed
      <4> QED BY <1>3, <4>1, <4>2
    <3>5. c < c + MaxOvrlp /\ c < nRecords
      BY <1>3, <3>1
    <3> HIDE DEF k, c
    <3>6. Place(t)'
      BY <2>1, <3>1, <3>2, <3>3, <3>4, <3>5 DEF Place, Stripe, Shifted
    <3>7. Passed(t)'
      BY <2>1, <3>3, <3>4 DEF Passed, Stripe, S!None
    <3> QED BY <3>6, <3>7
  <2>2. CASE t # s
    <3>1. /\ Place(t) /\ Passed(t) /\ pc'[t] = pc[t] /\ cciPos'[t] = cciPos[t]
          /\ overLapOut'[t] = overLapOut[t] /\ buffer'[t] = buffer[t]
      BY <1>1, <2>2 DEF StripesInv, StripesTyped
    <3> QED BY <1>1, <3>1, OthersKeep
  <2> QED BY <2>1, <2>2
<1> QED BY <1>5, <1>6, <1>7, <1>8 DEF StripesInv

LEMMA StepWriteDone ==
  ASSUME StripesInv, NEW s \in S!Slots, S!WriteDone(s)
  PROVE  StripesInv'
<1>1. /\ StripesTyped /\ Numbered /\ Output /\ Place(s) /\ Passed(s) /\ pc[s] = "written"
      /\ pc' = [pc EXCEPT ![s] = IF cciPos[s] < nRecords THEN "reading" ELSE "idle"]
      /\ done' = done + 1 /\ done < 2 * nRecords
      /\ UNCHANGED <<cci, nRecords, iTh, WorkerId, cciPos, overLapOut, buffer, out, bossPc>>
  BY DEF StripesInv, S!WriteDone, S!Goto
<1>2. Started' = Started
  BY <1>1 DEF Started, StripesTyped
<1>3. StripesTyped'
  <2>1. pc' \in [S!Slots -> ThreadLabels \cup BufferLabels]
    BY <1>1 DEF StripesTyped, BufferLabels
  <2>2. \A t \in S!Slots : pc'[t] \in ThreadLabels <=> cci \in S!Threaded
    BY <1>1 DEF StripesTyped, ThreadLabels
  <2>3. done' \in 0..(2 * nRecords)
    BY <1>1 DEF StripesTyped, S!StripesAssumption
  <2> QED BY <1>1, <2>1, <2>2, <2>3 DEF StripesTyped
<1>4. Numbered'
  BY <1>1, <1>2, NumbersKeep
<1>5. Output'
  BY <1>1 DEF Output, S!None, Shifted
<1>6. ASSUME NEW t \in S!Slots
      PROVE  Place(t)' /\ Passed(t)'
  <2>1. CASE t = s
    <3>1. pc'[s] = IF cciPos[s] < nRecords THEN "reading" ELSE "idle"
      BY <1>1 DEF StripesTyped
    <3>2. Passed(t)'
      BY <1>1, <2>1 DEF Passed, Stripe, S!None, StripesTyped
    <3>3. Place(t)'
      BY <1>1, <2>1, <3>1 DEF Place, Stripe
    <3> QED BY <3>2, <3>3
  <2>2. CASE t # s
    <3>1. Place(t) /\ Passed(t) /\ pc'[t] = pc[t]
      BY <1>1, <2>2 DEF StripesInv, StripesTyped
    <3> QED BY <1>1, <3>1, OthersKeep
  <2> QED BY <2>1, <2>2
<1> QED BY <1>3, <1>4, <1>5, <1>6 DEF StripesInv

\* Nothing but main's own state changes, or nothing.
LEMMA StepOther ==
  ASSUME StripesInv, S!_tmain \/ UNCHANGED S!vars
  PROVE  StripesInv'
<1>1. /\ UNCHANGED <<cci, nRecords, pc, iTh, WorkerId, cciPos, overLapOut, buffer, out, done>>
      /\ bossPc' \in {"closed", bossPc}
  BY DEF S!_tmain, S!vars
<1>2. StripesTyped' /\ Started' = Started
  BY <1>1 DEF StripesInv, StripesTyped, Started
<1>3. Numbered' /\ Output'
  BY <1>1, <1>2, NumbersKeep DEF StripesInv, Output, S!None, Shifted
<1>4. ASSUME NEW t \in S!Slots
      PROVE  Place(t)' /\ Passed(t)'
  BY <1>1, OthersKeep DEF StripesInv
<1> QED BY <1>2, <1>3, <1>4 DEF StripesInv

LEMMA StripesInvStep == StripesInv /\ (S!Next \/ UNCHANGED S!vars) => StripesInv'
<1> SUFFICES ASSUME StripesInv, (S!Next \/ UNCHANGED S!vars)
             PROVE  StripesInv'
  OBVIOUS
<1>1. ASSUME NEW s \in S!Slots, S!ReadWrite(s)
      PROVE  StripesInv'
  BY <1>1, StepStart, StepReadWriteRead, StepReadWriteWrite DEF S!ReadWrite
<1>2. ASSUME NEW s \in S!Slots, S!Buffer(s)
      PROVE  StripesInv'
  BY <1>2, StepIoRead, StepIoWrite DEF S!Buffer
<1>3. ASSUME S!Main
      PROVE  StripesInv'
  BY <1>3, StepReadDone, StepWriteDone, StepOther DEF S!Main
<1> QED
  BY <1>1, <1>2, <1>3, StepOther DEF S!Next, S!Step, S!cciMT, S!cciMTMM, S!cciMT_VTP, S!cciOV, S!cciEX

\* A step of the programs is one of the conversions, or leaves them alone.
LEMMA StripesSteps == [Next]_vars => S!Next \/ UNCHANGED S!vars
BY DEF Next, vars, stripes, S!vars

LEMMA StripesInvSpec == FairSpec => []StripesInv
<1>1. Init => StripesInv
  BY ProgramsAssumption, StripesInvInit DEF Init
<1>2. StripesInv /\ [Next]_vars => StripesInv'
  BY StripesSteps, StripesInvStep
<1> QED BY <1>1, <1>2, PTL DEF FairSpec

-----------------------------------------------------------------------------
LEMMA StripesAreTyped == StripesInv => S!TypeOK
<1> SUFFICES ASSUME StripesInv PROVE S!TypeOK
  OBVIOUS
<1>1. StripesTyped /\ MaxRecords \in Nat /\ nRecords \in 0..MaxRecords
  BY DEF StripesInv, StripesTyped, S!StripesAssumption
<1>2. done \in 0..(2 * MaxRecords)
  BY <1>1 DEF StripesTyped
<1>3. pc \in [S!Slots -> {"start", "loop", "write", "exit", "idle", "reading", "read",
                         "writing", "written"}]
  BY <1>1 DEF StripesTyped, ThreadLabels, BufferLabels
<1> QED BY <1>1, <1>2, <1>3, Zenon DEF StripesTyped, CciContents, S!TypeOK

LEMMA StripesAreApart == StripesInv => S!StripesApart
<1> SUFFICES ASSUME StripesInv
             PROVE  S!StripesApart
  OBVIOUS
<1>1. ASSUME NEW s \in S!Slots, S!Working(s)
      PROVE  s \in Started /\ iTh[s] \in S!Slots /\ S!At(s) \in Stripe(iTh[s])
  BY <1>1 DEF StripesInv, StripesTyped, Place, S!Working, S!At, Started
<1>2. ASSUME NEW s \in S!Slots, NEW t \in S!Slots, s # t, S!Working(s), S!Working(t)
      PROVE  S!At(s) # S!At(t)
  <2>1. iTh[s] # iTh[t]
    BY <1>1, <1>2 DEF StripesInv, Numbered
  <2> QED BY <1>1, <1>2, <2>1, StripesDisjoint DEF StripesInv, StripesTyped
<1>3. \A r \in S!Records : out[r] \in {S!None, [record |-> r, shifts |-> 1]}
  BY DEF StripesInv, Output, Shifted
<1> QED BY <1>2, <1>3 DEF S!StripesApart

\* No two threads, callbacks or buffers work on the same record, even when the
\* callbacks number themselves in any order, and what is in the output is at
\* its own place and shifted once.
THEOREM StripesStayApart == FairSpec => []S!StripesApart
BY StripesAreApart, StripesInvSpec, PTL

-----------------------------------------------------------------------------
(* The asynchronous programs end when they have counted two completed      *)
(* operations for each record.  The count is the number of records whose   *)
(* read has been reported and the number of those whose write has.         *)
Reads == {r \in S!Records : \E s \in S!Slots : r \in Stripe(s) /\ r < cciPos[s]}
Underway == {r \in S!Records : \E s \in S!Slots : pc[s] \in {"writing", "written"} /\ overLapOut[s] = r}
Counted == cci \in S!Async => done = Cardinality(Reads) + Cardinality(Reads \ Underway)

Closed ==
  bossPc = "closed" =>
    IF cci \in S!Async THEN done = 2 * nRecords ELSE \A s \in S!Slots : pc[s] = "exit"

LEMMA CountInit == S!StripesAssumption /\ (S!Init \/ NoStripes) => Counted
<1> SUFFICES ASSUME S!StripesAssumption, NEW p \in S!Programs \cup {"none"}, NEW n \in 0..MaxRecords, S!InitOf(p, n)
             PROVE  Counted
  BY DEF S!Init, NoStripes, S!StripesAssumption
<1>1. done = 0 /\ \A s \in S!Slots : cciPos[s] = s
  BY DEF S!InitOf
<1>2. Reads = {}
  BY <1>1, StripeFirst DEF Reads
<1>3. Cardinality({}) = 0
  BY FS_EmptySet
<1> QED BY <1>1, <1>2, <1>3 DEF Counted

\* What is counted are records of the file.
LEMMA ReadsInFile ==
  ASSUME StripesInv, cci \in S!Async
  PROVE  /\ Reads \subseteq 0..(nRecords - 1)
         /\ IsFiniteSet(0..(nRecords - 1)) /\ Cardinality(0..(nRecords - 1)) = nRecords
         /\ IsFiniteSet(Reads) /\ Cardinality(Reads) \in Nat
         /\ IsFiniteSet(Reads \ Underway) /\ Cardinality(Reads \ Underway) \in Nat
<1>1. \A s \in S!Slots : iTh[s] = s /\ pc[s] # "start"
  BY DEF StripesInv, Numbered, StripesTyped, S!Async, S!Threaded, ThreadLabels
<1>2. Reads \subseteq 0..(nRecords - 1)
  <2>1. ASSUME NEW r \in Reads
        PROVE  r \in Nat /\ r < nRecords
    <3>1. PICK s \in S!Slots : r \in Stripe(s) /\ r < cciPos[s]
      BY DEF Reads
    <3>2. Place(s)
      BY DEF StripesInv
    <3> QED BY <1>1, <3>1, <3>2 DEF Place, Stripe
  <2> QED BY <2>1 DEF StripesInv, StripesTyped
<1>3. nRecords \in Nat
  BY DEF StripesInv, StripesTyped
<1>4. IsFiniteSet(0..(nRecords - 1)) /\ Cardinality(0..(nRecords - 1)) = nRecords
  BY <1>3, FS_Interval
<1>5. IsFiniteSet(Reads) /\ IsFiniteSet(Reads \ Underway)
  BY <1>2, <1>4, FS_Subset
<1>6. Cardinality(Reads) \in Nat /\ Cardinality(Reads \ Underway) \in Nat
  BY <1>5, FS_CardinalityType
<1> QED BY <1>2, <1>4, <1>5, <1>6

LEMMA CountKeeps ==
  ASSUME Counted, UNCHANGED <<cci, cciPos, overLapOut, done>>,
         \A s \in S!Slots : pc'[s] \in {"writing", "written"} <=> pc[s] \in {"writing", "written"}
  PROVE  Counted'
<1>1. Reads' = Reads /\ Underway' = Underway
  BY DEF Reads, Underway, Stripe
<1> QED BY <1>1 DEF Counted

\* A read that is reported adds its record, whose write begins.
LEMMA CountReadDone ==
  ASSUME StripesInv, Counted, cci \in S!Async, NEW s \in S!Slots, S!ReadDone(s)
  PROVE  Counted'
<1> DEFINE c == cciPos[s]
<1>1. /\ pc[s] = "read" /\ pc' = [pc EXCEPT ![s] = "writing"]
      /\ overLapOut' = [overLapOut EXCEPT ![s] = c]
      /\ cciPos' = [cciPos EXCEPT ![s] = c + MaxOvrlp]
      /\ done' = done + 1 /\ cci' = cci /\ nRecords' = nRecords
  BY DEF S!ReadDone, S!Goto, S!NextRecord
<1>2. /\ S!StripesAssumption /\ pc \in [S!Slots -> ThreadLabels \cup BufferLabels]
      /\ cciPos \in [S!Slots -> Nat] /\ overLapOut \in [S!Slots -> Nat]
      /\ nRecords \in 0..MaxRecords
      /\ \A t \in S!Slots : iTh[t] = t /\ pc[t] # "start" /\ Place(t)
  BY DEF StripesInv, Numbered, StripesTyped, S!Async, S!Threaded, ThreadLabels
<1>3. c \in Stripe(s) /\ c \in Nat /\ c < nRecords /\ c \in S!Records /\ MaxOvrlp \in Nat \ {0}
  BY <1>1, <1>2 DEF Place, S!Records, S!StripesAssumption
<1>4. c + MaxOvrlp \in Nat /\ c < c + MaxOvrlp /\ \A q \in Stripe(s) : q < c + MaxOvrlp => q <= c
  BY <1>2, <1>3, StripeNext
<1>5. /\ cciPos'[s] = c + MaxOvrlp /\ \A t \in S!Slots : t # s => cciPos'[t] = cciPos[t]
      /\ overLapOut'[s] = c /\ \A t \in S!Slots : t # s => overLapOut'[t] = overLapOut[t]
      /\ pc'[s] = "writing" /\ \A t \in S!Slots : t # s => pc'[t] = pc[t]
  BY <1>1, <1>2
<1> HIDE DEF c
<1>6. c \notin Reads
  <2>1. ASSUME NEW t \in S!Slots, c \in Stripe(t), c < cciPos[t]
        PROVE  FALSE
    <3>1. t = s
      BY <1>2, <1>3, <2>1, StripesDisjoint
    <3> QED BY <1>3, <2>1, <3>1 DEF c
  <2> QED BY <2>1 DEF Reads
<1>7. Reads' = Reads \cup {c}
  <2>1. ASSUME NEW r \in S!Records, NEW t \in S!Slots, r \in Stripe(t), r < cciPos'[t]
        PROVE  r \in Reads \/ r = c
    <3>1. CASE t = s
      <4>1. r <= c /\ r \in Nat
        BY <1>4, <1>5, <2>1, <3>1 DEF Stripe
      <4>2. r = c \/ r < cciPos[s]
        BY <1>3, <4>1 DEF c
      <4> QED BY <2>1, <3>1, <4>2 DEF Reads
    <3>2. CASE t # s
      BY <1>5, <2>1, <3>2 DEF Reads
    <3> QED BY <3>1, <3>2
  <2>2. ASSUME NEW r \in Reads
        PROVE  \E t \in S!Slots : r \in Stripe(t) /\ r < cciPos'[t]
    <3>1. PICK t \in S!Slots : r \in Stripe(t) /\ r < cciPos[t]
      BY DEF Reads
    <3>2. r \in Nat /\ (t = s => r < c + MaxOvrlp)
      BY <1>3, <3>1 DEF Stripe, c
    <3> QED BY <1>5, <3>1, <3>2
  <2>3. Reads' = {r \in S!Records : \E t \in S!Slots : r \in Stripe(t) /\ r < cciPos'[t]}
    BY DEF Reads, Stripe
  <2>4. Reads \subseteq S!Records
    BY DEF Reads
  <2>5. \E t \in S!Slots : c \in Stripe(t) /\ c < cciPos'[t]
    BY <1>3, <1>4, <1>5
  <2>6. Reads' \subseteq Reads \cup {c}
    BY <2>1, <2>3
  <2>7. Reads \cup {c} \subseteq Reads'
    BY <1>3, <2>2, <2>3, <2>4, <2>5
  <2> QED BY <2>6, <2>7
<1>8. Underway' = Underway \cup {c}
  <2>1. Underway' = {r \in S!Records : \E t \in S!Slots :
                       pc'[t] \in {"writing", "written"} /\ overLapOut'[t] = r}
    BY DEF Underway
  <2>2. \A t \in S!Slots : t # s =>
          (pc'[t] \in {"writing", "written"} <=> pc[t] \in {"writing", "written"})
    BY <1>5
  <2> QED BY <1>1, <1>3, <1>5, <2>1, <2>2 DEF Underway
<1>9. Reads' \ Underway' = Reads \ Underway
  BY <1>6, <1>7, <1>8
<1>10. Cardinality(Reads') = Cardinality(Reads) + 1
  BY <1>6, <1>7, ReadsInFile, FS_AddElement
<1>11. Cardinality(Reads) \in Nat /\ Cardinality(Reads \ Underway) \in Nat
  BY ReadsInFile
<1>12. Cardinality((Reads \ Underway)') = Cardinality(Reads \ Underway)
  BY <1>9
<1>13. done = Cardinality(Reads) + Cardinality(Reads \ Underway)
  BY DEF Counted
<1>14. done' = Cardinality(Reads') + Cardinality((Reads \ Underway)')
  BY <1>1, <1>10, <1>11, <1>12, <1>13
<1> QED BY <1>14 DEF Counted

\* A write that is reported is no longer under way.
LEMMA CountWriteDone ==
  ASSUME StripesInv, Counted, cci \in S!Async, NEW s \in S!Slots, S!WriteDone(s)
  PROVE  Counted'
<1> DEFINE c == overLapOut[s]
<1>1. /\ pc[s] = "written" /\ pc' = [pc EXCEPT ![s] = IF cciPos[s] < nRecords THEN "reading" ELSE "idle"]
      /\ done' = done + 1 /\ UNCHANGED <<cci, nRecords, cciPos, overLapOut>>
  BY DEF S!WriteDone, S!Goto
<1>2. /\ S!StripesAssumption /\ pc \in [S!Slots -> ThreadLabels \cup BufferLabels]
      /\ cciPos \in [S!Slots -> Nat] /\ overLapOut \in [S!Slots -> Nat]
      /\ nRecords \in 0..MaxRecords
      /\ \A t \in S!Slots : iTh[t] = t /\ pc[t] # "start" /\ Place(t)
  BY DEF StripesInv, Numbered, StripesTyped, S!Async, S!Threaded, ThreadLabels
<1>3. c \in Stripe(s) /\ c \in Nat /\ c < nRecords /\ c < cciPos[s] /\ c \in S!Records
  BY <1>1, <1>2 DEF Place, S!Records, S!StripesAssumption
<1>4. pc'[s] \in {"reading", "idle"} /\ \A t \in S!Slots : t # s => pc'[t] = pc[t]
  BY <1>1, <1>2
<1>5. Reads' = Reads /\ c \in Reads
  BY <1>1, <1>3 DEF Reads, Stripe
<1>6. \A t \in S!Slots : pc[t] \in {"writing", "written"} /\ overLapOut[t] = c => t = s
  <2> SUFFICES ASSUME NEW t \in S!Slots, pc[t] \in {"writing", "written"}, overLapOut[t] = c
               PROVE  t = s
    OBVIOUS
  <2>1. c \in Stripe(t)
    BY <1>2 DEF Place
  <2> QED BY <1>2, <1>3, <2>1, StripesDisjoint
<1>7. Underway = Underway' \cup {c} /\ c \notin Underway'
  <2>1. Underway' = {r \in S!Records : \E t \in S!Slots :
                       pc'[t] \in {"writing", "written"} /\ overLapOut[t] = r}
    BY <1>1 DEF Underway
  <2>2. \A t \in S!Slots : pc'[t] \in {"writing", "written"} <=>
                           t # s /\ pc[t] \in {"writing", "written"}
    BY <1>4
  <2>3. c \in Underway
    BY <1>1, <1>3 DEF Underway
  <2>4. c \notin Underway'
    BY <1>6, <2>1, <2>2
  <2>5. Underway' \subseteq Underway
    BY <2>1, <2>2 DEF Underway
  <2>6. ASSUME NEW r \in Underway, r # c
        PROVE  r \in Underway'
    <3>1. r \in S!Records /\ \E t \in S!Slots : pc[t] \in {"writing", "written"} /\ overLapOut[t] = r
      BY DEF Underway
    <3> QED BY <2>1, <2>2, <2>6, <3>1
  <2> QED BY <2>3, <2>4, <2>5, <2>6
<1>8. (Reads \ Underway)' = (Reads \ Underway) \cup {c} /\ c \notin Reads \ Underway
  BY <1>5, <1>7
<1>9. Cardinality((Reads \ Underway)') = Cardinality(Reads \ Underway) + 1
  BY <1>8, ReadsInFile, FS_AddElement
<1>10. Cardinality(Reads) \in Nat /\ Cardinality(Reads \ Underway) \in Nat
  BY ReadsInFile
<1>11. done = Cardinality(Reads) + Cardinality(Reads \ Underway)
  BY DEF Counted
<1>12. done' = Cardinality(Reads') + Cardinality((Reads \ Underway)')
  BY <1>1, <1>5, <1>9, <1>10, <1>11
<1> QED BY <1>12 DEF Counted

LEMMA CountStep == StripesInv /\ Counted /\ (S!Next \/ UNCHANGED S!vars) => Counted'
<1> SUFFICES ASSUME StripesInv, Counted, cci \in S!Async, (S!Next \/ UNCHANGED S!vars)
             PROVE  Counted'
  <2>1. (S!Next \/ UNCHANGED S!vars) => cci' = cci
    BY DEF S!Next, S!Step, S!cciMT, S!cciMTMM, S!cciMT_VTP, S!cciOV, S!cciEX, S!Main, S!_tmain, S!ReadDone, S!WriteDone,
           S!ReadWrite, S!Start, S!ReadWriteRead, S!ReadWriteWrite, S!Buffer, S!IoRead, S!IoWrite, S!vars
  <2> QED BY <2>1 DEF Counted
<1>1. \A s \in S!Slots : pc \in [S!Slots -> ThreadLabels \cup BufferLabels] /\ pc[s] \notin ThreadLabels
  BY DEF StripesInv, StripesTyped, S!Async, S!Threaded
<1>2. ASSUME NEW s \in S!Slots, S!ReadWrite(s)
      PROVE  Counted'
  BY <1>1, <1>2 DEF S!ReadWrite, S!Start, S!ReadWriteRead, S!ReadWriteWrite, ThreadLabels
<1>3. ASSUME NEW s \in S!Slots, S!Buffer(s)
      PROVE  Counted'
  <2>1. /\ UNCHANGED <<cci, cciPos, overLapOut, done>>
        /\ \/ pc[s] = "reading" /\ pc' = [pc EXCEPT ![s] = "read"]
           \/ pc[s] = "writing" /\ pc' = [pc EXCEPT ![s] = "written"]
    BY <1>3 DEF S!Buffer, S!IoRead, S!IoWrite, S!Goto
  <2>2. \A t \in S!Slots : pc'[t] \in {"writing", "written"} <=> pc[t] \in {"writing", "written"}
    BY <1>1, <2>1
  <2> QED BY <2>1, <2>2, CountKeeps
<1>4. ASSUME S!_tmain \/ UNCHANGED S!vars
      PROVE  Counted'
  BY <1>4, CountKeeps DEF S!_tmain, S!vars
<1> QED
  BY <1>2, <1>3, <1>4, CountReadDone, CountWriteDone
  DEF S!Next, S!Step, S!cciMT, S!cciMTMM, S!cciMT_VTP, S!cciOV, S!cciEX, S!Main

LEMMA ClosedStep == StripesInv /\ Closed /\ (S!Next \/ UNCHANGED S!vars) => Closed'
<1> SUFFICES ASSUME StripesInv, Closed, (S!Next \/ UNCHANGED S!vars)
             PROVE  Closed'
  OBVIOUS
<1>0. /\ pc \in [S!Slots -> ThreadLabels \cup BufferLabels]
      /\ done \in 0..(2 * nRecords) /\ nRecords \in Nat
      /\ ~(cci \in S!Async /\ cci \in S!Threaded)
      /\ \A s \in S!Slots : pc[s] \in ThreadLabels <=> cci \in S!Threaded
  BY DEF StripesInv, StripesTyped, S!Programs, S!Async, S!Threaded
<1>1. ASSUME NEW s \in S!Slots, S!ReadWrite(s)
      PROVE  Closed'
  <2>1. cci \in S!Threaded /\ pc[s] # "exit" /\ bossPc' = bossPc /\ cci' = cci
    BY <1>0, <1>1 DEF S!ReadWrite, S!Start, S!ReadWriteRead, S!ReadWriteWrite, ThreadLabels
  <2> QED BY <1>0, <2>1 DEF Closed
<1>2. ASSUME NEW s \in S!Slots, S!Buffer(s)
      PROVE  Closed'
  BY <1>0, <1>2 DEF S!Buffer, S!IoRead, S!IoWrite, Closed
<1>3. ASSUME NEW s \in S!Slots, S!ReadDone(s) \/ S!WriteDone(s)
      PROVE  Closed'
  <2>1. bossPc = "run" /\ bossPc' = bossPc
    BY <1>3 DEF S!ReadDone, S!WriteDone
  <2> QED BY <2>1 DEF Closed
<1>4. CASE S!_tmain
  <2>1. cci \in S!Async => done = 2 * nRecords
    BY <1>0, <1>4 DEF S!_tmain
  <2> QED BY <1>4, <2>1 DEF S!_tmain, Closed
<1>5. CASE UNCHANGED S!vars
  BY <1>5 DEF S!vars, Closed
<1> QED
  BY <1>1, <1>2, <1>3, <1>4, <1>5 DEF S!Next, S!Step, S!cciMT, S!cciMTMM, S!cciMT_VTP, S!cciOV, S!cciEX, S!Main

\* If the counts agree when main has gone on, all is done.
LEMMA ClosedIsConverted ==
  ASSUME StripesInv, Counted, Closed
  PROVE  S!AllConverted
<1> SUFFICES ASSUME bossPc = "closed"
             PROVE  /\ \A r \in S!Records : (out[r] # S!None) <=> (r < nRecords)
                    /\ \A s \in S!Slots : ~S!Working(s)
  BY DEF S!AllConverted
<1>1. /\ S!StripesAssumption /\ nRecords \in 0..MaxRecords
      /\ ~(cci \in S!Async /\ cci \in S!Threaded)
      /\ \A s \in S!Slots : pc[s] \in ThreadLabels <=> cci \in S!Threaded
      /\ \A s \in S!Slots : Place(s) /\ Passed(s)
      /\ cciPos \in [S!Slots -> Nat] /\ overLapOut \in [S!Slots -> Nat] /\ iTh \in [S!Slots -> S!Slots]
      /\ \A r \in S!Records : r \in Nat
  BY DEF StripesInv, StripesTyped, S!Programs, S!Async, S!Threaded, S!Records
<1>2. \A r \in S!Records : out[r] # S!None => r < nRecords
  BY DEF StripesInv, Output
<1>3. CASE cci \in S!Async
  <2>1. Reads = 0..(nRecords - 1) /\ Reads \cap Underway = {}
    <3> DEFINE file == 0..(nRecords - 1)
               written == Reads \ Underway
    <3>1. /\ Reads \subseteq file /\ IsFiniteSet(file) /\ Cardinality(file) = nRecords
          /\ Cardinality(Reads) \in Nat /\ Cardinality(written) \in Nat
      BY <1>3, ReadsInFile
    <3>2. Cardinality(Reads) + Cardinality(written) = 2 * nRecords
      BY <1>3 DEF Counted, Closed
    <3> HIDE DEF file, written
    <3>3. written \subseteq file
      BY <3>1 DEF written
    <3>4. /\ Cardinality(Reads) <= nRecords /\ Cardinality(written) <= nRecords
          /\ Cardinality(Reads) = nRecords => Reads = file
          /\ Cardinality(written) = nRecords => written = file
      BY <3>1, <3>3, FS_Subset
    <3>5. Cardinality(Reads) = nRecords /\ Cardinality(written) = nRecords
      BY <1>1, <3>1, <3>2, <3>4
    <3>6. Reads = file /\ written = file
      BY <3>4, <3>5
    <3> QED BY <3>6 DEF file, written
  <2>2. \A s \in S!Slots : iTh[s] = s /\ pc[s] # "start"
    BY <1>1, <1>3 DEF StripesInv, Numbered, S!Async, ThreadLabels
  <2>3. ASSUME NEW s \in S!Slots
        PROVE  ~S!Working(s)
    <3>1. pc[s] # "write"
      BY <1>1, <1>3 DEF ThreadLabels
    <3>2. pc[s] # "writing"
      <4> SUFFICES ASSUME pc[s] = "writing"
                   PROVE  FALSE
        OBVIOUS
      <4>1. overLapOut[s] \in Nat /\ overLapOut[s] < nRecords
        BY <1>1, <2>2 DEF Place
      <4>2. overLapOut[s] \in S!Records /\ overLapOut[s] \in 0..(nRecords - 1)
        BY <1>1, <4>1 DEF S!Records, S!StripesAssumption
      <4>3. overLapOut[s] \in Underway
        BY <4>2 DEF Underway
      <4> QED BY <2>1, <4>2, <4>3
    <3>3. pc[s] \notin {"reading", "read"}
      <4> SUFFICES ASSUME pc[s] \in {"reading", "read"}
                   PROVE  FALSE
        OBVIOUS
      <4>1. cciPos[s] \in Stripe(s) /\ cciPos[s] \in Nat /\ cciPos[s] < nRecords
        BY <1>1, <2>2 DEF Place
      <4>2. cciPos[s] \in Reads
        BY <1>1, <2>1, <4>1
      <4>3. PICK t \in S!Slots : cciPos[s] \in Stripe(t) /\ cciPos[s] < cciPos[t]
        BY <4>2 DEF Reads
      <4>4. t = s
        BY <1>1, <4>1, <4>3, StripesDisjoint
      <4> QED BY <4>1, <4>3, <4>4
    <3> QED BY <3>1, <3>2, <3>3 DEF S!Working
  <2>4. ASSUME NEW r \in S!Records, r < nRecords
        PROVE  out[r] # S!None
    <3>1. r \in Reads
      BY <1>1, <2>1, <2>4
    <3>2. PICK s \in S!Slots : r \in Stripe(s) /\ r < cciPos[s]
      BY <3>1 DEF Reads
    <3>3. ~(pc[s] = "writing" /\ overLapOut[s] = r)
      BY <2>3 DEF S!Working
    <3> QED BY <1>1, <2>2, <3>2, <3>3 DEF Passed
  <2> QED BY <1>2, <2>3, <2>4
<1>4. CASE cci \notin S!Async
  <2>1. \A s \in S!Slots : pc[s] = "exit"
    BY <1>4 DEF Closed
  <2>2. \A s \in S!Slots : ~S!Working(s)
    BY <2>1 DEF S!Working
  <2>3. ASSUME NEW k \in S!Slots
        PROVE  \E s \in S!Slots : iTh[s] = k
    <3>1. CASE cci # "cciMT_VTP"
      BY <3>1 DEF StripesInv, Numbered
    <3>2. CASE cci = "cciMT_VTP"
      <4>1. Started = S!Slots
        BY <2>1 DEF Started
      <4>2. WorkerId = MaxOvrlp
        BY <3>2, <4>1, StartedSize DEF StripesInv, Numbered
      <4> QED BY <3>2, <4>1, <4>2 DEF StripesInv, Numbered, S!Slots
    <3> QED BY <3>1, <3>2
  <2>4. ASSUME NEW r \in S!Records, r < nRecords
        PROVE  out[r] # S!None
    <3>1. PICK k \in S!Slots : r \in Stripe(k)
      BY <1>1, StripesCover
    <3>2. PICK s \in S!Slots : iTh[s] = k
      BY <2>3
    <3>3. ~(cciPos[s] < nRecords) /\ cciPos[s] \in Nat
      BY <1>1, <2>1 DEF Place
    <3>4. r < cciPos[s]
      BY <1>1, <2>4, <3>3
    <3> QED BY <1>1, <2>1, <3>1, <3>2, <3>4 DEF Passed
  <2> QED BY <1>2, <2>2, <2>4
<1> QED BY <1>3, <1>4

\* When the files are closed every record of the input is in the output and
\* no operation is under way, whatever the order in which they completed.
THEOREM EverythingIsConverted == FairSpec => []S!AllConverted
<1>1. Init => Counted /\ Closed
  <2>1. S!Init \/ NoStripes => Closed
    BY DEF S!Init, NoStripes, S!InitOf, Closed
  <2> QED BY <2>1, CountInit, ProgramsAssumption DEF Init
<1>2. StripesInv /\ Counted /\ Closed /\ [Next]_vars => Counted' /\ Closed'
  BY CountStep, ClosedStep, StripesSteps
<1> QED BY <1>1, <1>2, ClosedIsConverted, StripesInvSpec, PTL DEF FairSpec

\* n is a number of threads that the program allows.
Allowed(n) == n \in 1 .. NRec /\ NRec % n = 0 /\ \A d \in 2 .. n : n % d = 0 => d % 2 = 0

-----------------------------------------------------------------------------
(* The merge of two parts has as many records as both.                     *)

MergeStep(a, b, n, x) ==
  IF x[1] <= n /\ (x[2] > n \/ M!KeyCompare(a[x[1]], b[x[2]]))
  THEN <<x[1] + 1, x[2], Append(x[3], a[x[1]])>>
  ELSE <<x[1], x[2] + 1, Append(x[3], b[x[2]])>>
MergeIs(a, b, n, g) ==
  g = [k \in 0 .. (2 * n) |-> IF k = 0 THEN <<1, 1, <<>>>> ELSE MergeStep(a, b, n, g[k - 1])]
MergeState(n, T) == (1 .. n + 1) \X (1 .. n + 1) \X Seq(T)
\* After k records the places add up.
MergedSoFar(n, k, x) == x[1] + x[2] = k + 2 /\ Len(x[3]) = k

\* A record is taken from a part that has one left.
LEMMA MergeGoesOn ==
  ASSUME NEW T, NEW n \in Nat, NEW a \in [1 .. n -> T], NEW b \in [1 .. n -> T],
         NEW k \in Nat, k < 2 * n, NEW x \in MergeState(n, T), MergedSoFar(n, k, x)
  PROVE  /\ MergeStep(a, b, n, x) \in MergeState(n, T)
         /\ MergedSoFar(n, k + 1, MergeStep(a, b, n, x))
<1>1. PICK i \in 1 .. n + 1, j \in 1 .. n + 1, d \in Seq(T) : x = <<i, j, d>>
  BY DEF MergeState
<1>2. i + j = k + 2 /\ Len(d) = k
  BY <1>1 DEF MergedSoFar
<1>3. CASE i <= n /\ (j > n \/ M!KeyCompare(a[i], b[j]))
  <2>1. MergeStep(a, b, n, x) = <<i + 1, j, Append(d, a[i])>>
    BY <1>1, <1>3 DEF MergeStep
  <2>2. i + 1 \in 1 .. n + 1 /\ a[i] \in T
    BY <1>3
  <2>3. Append(d, a[i]) \in Seq(T) /\ Len(Append(d, a[i])) = k + 1
    BY <1>2, <2>2
  <2> DEFINE e == Append(d, a[i])
  <2> HIDE DEF e
  <2>4. e \in Seq(T) /\ Len(e) = k + 1 /\ MergeStep(a, b, n, x) = <<i + 1, j, e>>
    BY <2>1, <2>3 DEF e
  <2> QED BY <1>2, <2>2, <2>4 DEF MergeState, MergedSoFar
<1>4. CASE ~(i <= n /\ (j > n \/ M!KeyCompare(a[i], b[j])))
  <2>1. MergeStep(a, b, n, x) = <<i, j + 1, Append(d, b[j])>>
    BY <1>1, <1>4 DEF MergeStep
  <2>2. j <= n
    BY <1>2, <1>4
  <2>3. j + 1 \in 1 .. n + 1 /\ b[j] \in T
    BY <2>2
  <2>4. Append(d, b[j]) \in Seq(T) /\ Len(Append(d, b[j])) = k + 1
    BY <1>2, <2>3
  <2> DEFINE e == Append(d, b[j])
  <2> HIDE DEF e
  <2>5. e \in Seq(T) /\ Len(e) = k + 1 /\ MergeStep(a, b, n, x) = <<i, j + 1, e>>
    BY <2>1, <2>4 DEF e
  <2> QED BY <1>2, <2>3, <2>5 DEF MergeState, MergedSoFar
<1> QED BY <1>3, <1>4

LEMMA MergedRecords ==
  ASSUME NEW T, NEW n \in Nat, NEW a \in [1 .. n -> T], NEW b \in [1 .. n -> T]
  PROVE  M!Merged(a, b, n) \in [1 .. 2 * n -> T]
<1> DEFINE St == MergeState(n, T)  start == <<1, 1, <<>>>>
           step == [k \in Nat |-> [x \in St |-> IF k \in 1 .. 2 * n /\ MergedSoFar(n, k - 1, x)
                                                THEN MergeStep(a, b, n, x) ELSE start]]
<1>1. start \in St /\ MergedSoFar(n, 0, start)
  <2> HIDE DEF step
  <2>1. 1 \in 1 .. n + 1 /\ <<>> \in Seq(T) /\ Len(<<>>) = 0
    OBVIOUS
  <2>2. start \in MergeState(n, T)
    BY <2>1 DEF MergeState
  <2>3. start[1] = 1 /\ start[2] = 1 /\ start[3] = <<>>
    OBVIOUS
  <2> QED BY <2>1, <2>2, <2>3 DEF MergedSoFar
<1>2. step \in [Nat -> [St -> St]]
  <2> SUFFICES ASSUME NEW k \in 1 .. 2 * n, NEW x \in St, MergedSoFar(n, k - 1, x)
               PROVE  MergeStep(a, b, n, x) \in St
    BY <1>1
  <2>1. k - 1 \in Nat /\ k - 1 < 2 * n
    OBVIOUS
  <2> QED BY <2>1, MergeGoesOn
<1>3. \A k \in 1 .. 2 * n, x \in St : MergedSoFar(n, k - 1, x) =>
        step[k][x] = MergeStep(a, b, n, x) /\ MergedSoFar(n, k, MergeStep(a, b, n, x))
  <2> TAKE k \in 1 .. 2 * n, x \in St
  <2> HAVE MergedSoFar(n, k - 1, x)
  <2>1. k - 1 \in Nat /\ k - 1 < 2 * n /\ k - 1 + 1 = k
    OBVIOUS
  <2>2. MergedSoFar(n, k, MergeStep(a, b, n, x))
    BY <2>1, MergeGoesOn
  <2> QED BY <2>2
<1> HIDE DEF step
<1> DEFINE len == 2 * n
<1>4. len \in Nat
  OBVIOUS
<1>5. PICK g \in [0 .. len -> St] : Follows(g, start, step, len)
  <2> HIDE DEF St, start, len
  <2> QED BY <1>1, <1>2, <1>4, Recursion
<1> DEFINE X == {k \in Nat : k \in 0 .. len => MergedSoFar(n, k, g[k])}
<1>6. Nat \subseteq X
  <2>1. 0 \in X
    BY <1>1, <1>5 DEF Follows
  <2>2. ASSUME NEW k \in Nat, k \in X PROVE k + 1 \in X
    <3> SUFFICES ASSUME k + 1 \in 0 .. len PROVE MergedSoFar(n, k + 1, g[k + 1])
      OBVIOUS
    <3>1. k + 1 \in 1 .. 2 * n /\ k + 1 - 1 = k /\ k \in 0 .. len /\ g[k] \in St /\ MergedSoFar(n, k, g[k])
      BY <1>5, <2>2
    <3>2. g[k + 1] = step[k + 1][g[k]]
      BY <1>5, <3>1 DEF Follows
    <3> DEFINE j == k + 1  y == g[k]
    <3>3. j \in 1 .. 2 * n /\ y \in St /\ MergedSoFar(n, j - 1, y)
      BY <3>1
    <3>4. step[j][y] = MergeStep(a, b, n, y) /\ MergedSoFar(n, j, MergeStep(a, b, n, y))
      <4> HIDE DEF j, y, St
      <4> QED BY Zenon, <1>3, <3>3
    <3> QED BY <3>2, <3>4
  <2> QED BY <2>1, <2>2, AllNumbers
<1>7. \A k \in 0 .. len : MergedSoFar(n, k, g[k])
  BY <1>6
<1>8. MergeIs(a, b, n, g)
  <2>1. ASSUME NEW k \in 0 .. len, k # 0
        PROVE  g[k] = MergeStep(a, b, n, g[k - 1])
    <3>1. k \in 1 .. 2 * n /\ k - 1 \in 0 .. len
      BY <2>1
    <3>2. g[k] = step[k][g[k - 1]]
      BY <1>5, <3>1 DEF Follows
    <3>3. g[k - 1] \in St /\ MergedSoFar(n, k - 1, g[k - 1])
      BY <1>5, <1>7, <3>1
    <3> QED BY <1>3, <3>1, <3>2, <3>3
  <2>2. g[0] = start
    BY <1>5 DEF Follows
  <2> QED BY <2>1, <2>2 DEF MergeIs
<1>9. ASSUME NEW h, MergeIs(a, b, n, h) PROVE h = g
  <2> DEFINE goes_on(f) == \A i \in 0 .. len : i # 0 => f[i] = MergeStep(a, b, n, f[i - 1])
  <2>0. goes_on(h) /\ goes_on(g)
    BY <1>8, <1>9 DEF MergeIs
  <2> DEFINE Y == {k \in Nat : k \in 0 .. len => h[k] = g[k]}
  <2>1. 0 \in Y
    BY <1>8, <1>9 DEF MergeIs
  <2>2. ASSUME NEW k \in Nat, k \in Y PROVE k + 1 \in Y
    <3> SUFFICES ASSUME k + 1 \in 0 .. len PROVE h[k + 1] = g[k + 1]
      OBVIOUS
    <3>1. h[k] = g[k]
      BY <2>2
    <3>2. k + 1 # 0 /\ k + 1 - 1 = k
      OBVIOUS
    <3>3. h[k + 1] = MergeStep(a, b, n, h[k]) /\ g[k + 1] = MergeStep(a, b, n, g[k])
      BY <2>0, <3>2
    <3> QED BY <3>1, <3>3
  <2>3. Nat \subseteq Y
    BY <2>1, <2>2, AllNumbers
  <2>4. \A k \in 0 .. len : h[k] = g[k]
    BY <2>3
  <2> QED BY <1>8, <1>9, <2>4 DEF MergeIs
<1>10. M!Merged(a, b, n) = g[len][3]
  <2> DEFINE c == CHOOSE h : MergeIs(a, b, n, h)
  <2>1. c = g
    BY <1>8, <1>9
  <2>2. M!Merged(a, b, n) = c[2 * n][3]
    BY DEF M!Merged, MergeIs, MergeStep
  <2> QED BY <2>1, <2>2
<1>11. g[len] \in St /\ MergedSoFar(n, len, g[len])
  BY <1>4, <1>5, <1>7
<1>12. g[len][3] \in Seq(T) /\ Len(g[len][3]) = 2 * n
  BY <1>11 DEF MergeState, MergedSoFar
<1> QED BY <1>4, <1>10, <1>12

-----------------------------------------------------------------------------
(* sortMT: the inductive invariant.                                        *)

SortLabels == {"none", "sort", "test", "wait", "merge", "copy", "exit"}
\* The threads whose parts thread t's group has, or will have when it is merged.
Group(t) == IF sPc[t] \in {"merge", "copy"} THEN 2 * twoToI[t] ELSE twoToI[t]
Merging(t) == Divides(2 * twoToI[t], t) /\ twoToI[t] < nTh

SortTyped ==
  /\ M!SortAssumption /\ nTh \in Nat \ {0} /\ Allowed(nTh)
  /\ records \in [M!Places -> M!Places]
  /\ sPc \in [M!Threads -> SortLabels] /\ twoToI \in [M!Threads -> M!Places]
  /\ numbersInGroup = [t \in M!Threads |-> twoToI[t] * M!nRecTh]
  /\ pDest = [t \in M!Threads |-> pDest[t]]
  /\ sBoss \in {"idle", "wait", "done"}

SortRuns(t) ==
  /\ twoToI[t] \in Powers /\ Divides(twoToI[t], t) /\ Divides(twoToI[t], nTh)
  /\ sPc[t] # "none"
  /\ sPc[t] = "sort" => twoToI[t] = 1
  /\ sPc[t] \in {"wait", "merge", "copy"} => Merging(t)
  /\ sPc[t] = "exit" => ~Merging(t)
  /\ sPc[t] = "copy" => pDest[t] \in [1 .. 2 * numbersInGroup[t] -> M!Places]
SortAt(t) ==
  IF t \in M!Used /\ sBoss # "idle" THEN SortRuns(t) ELSE sPc[t] = "none" /\ twoToI[t] = 1

\* The threads whose parts belong to another's group have ended.
GroupsApart == \A t, u \in M!Used : t < u /\ u < t + Group(t) => sPc[u] = "exit"

SortInv ==
  /\ SortTyped /\ GroupsApart
  /\ \A t \in M!Threads : SortAt(t)
  /\ sBoss = "done" => sPc[0] = "exit"

LEMMA RecordsOfThreads ==
  ASSUME M!SortAssumption, NEW n \in Nat \ {0}, Allowed(n)
  PROVE  /\ NRec \div n \in 1 .. NRec /\ NRec = n * (NRec \div n) /\ n <= NRec
<1>1. NRec \in Nat \ {0} /\ NRec % n = 0 /\ n \in 1 .. NRec
  BY DEF M!SortAssumption, Allowed
<1>2. Divides(n, NRec) /\ NRec \div n \in Nat
  BY <1>1, NoRemainder
<1>3. NRec = (NRec % n) + (NRec \div n) * n
  BY <1>1
<1> DEFINE k == NRec \div n
<1> HIDE DEF k
<1>5. k \in Nat /\ NRec = 0 + k * n
  BY <1>1, <1>2, <1>3 DEF k
<1>6. k \in Nat /\ NRec = k * n
  BY <1>1, <1>5
<1>7. NRec = n * k /\ k # 0
  BY <1>1, <1>6
<1>8. 1 * k <= n * k
  BY <1>6, TimesGrow
<1> QED BY <1>1, <1>6, <1>7, <1>8 DEF k

LEMMA SortFacts ==
  ASSUME SortTyped
  PROVE  /\ M!nRecTh \in 1 .. NRec /\ NRec = nTh * M!nRecTh /\ NRec \in Nat \ {0}
         /\ M!Used \subseteq M!Threads /\ 0 \in M!Used
         /\ \A t \in M!Used : t \in Nat /\ t < nTh
<1>1. M!nRecTh \in 1 .. NRec /\ NRec = nTh * M!nRecTh /\ nTh <= NRec
  BY RecordsOfThreads DEF SortTyped, M!nRecTh
<1> QED BY <1>1 DEF SortTyped, M!SortAssumption, M!Used, M!Threads

\* The test for another merge.
LEMMA SortTest ==
  ASSUME SortInv, NEW t \in M!Used
  PROVE  (t % (2 * twoToI[t]) = 0 /\ numbersInGroup[t] < NRec) <=> Merging(t)
<1>1. twoToI[t] \in Nat \ {0} /\ t \in Nat /\ t \in M!Threads /\ numbersInGroup[t] = twoToI[t] * M!nRecTh
      /\ nTh \in Nat
  BY SortFacts DEF SortInv, SortTyped, M!Places, M!SortAssumption
<1>2. t % (2 * twoToI[t]) = 0 <=> Divides(2 * twoToI[t], t)
  BY <1>1, NoRemainder
<1> DEFINE k == M!nRecTh  g == twoToI[t]
<1>3. k \in Nat \ {0} /\ NRec = nTh * k
  BY SortFacts DEF SortInv
<1> HIDE DEF k, g
<1>4. g * k < nTh * k <=> g < nTh
  <2>1. g \in Nat
    BY <1>1 DEF g
  <2>2. ASSUME g < nTh PROVE g * k < nTh * k
    <3>1. (g + 1) * k <= nTh * k
      BY <1>1, <1>3, <2>1, <2>2, TimesGrow
    <3>2. (g + 1) * k = g * k + k /\ g * k \in Nat /\ nTh * k \in Nat
      BY <1>1, <1>3, <2>1
    <3> QED BY <1>3, <3>1, <3>2
  <2>3. ASSUME nTh <= g PROVE nTh * k <= g * k
    BY <1>1, <1>3, <2>1, <2>3, TimesGrow
  <2>4. g * k \in Nat /\ nTh * k \in Nat
    BY <1>1, <1>3, <2>1
  <2> QED BY <1>1, <2>1, <2>2, <2>3, <2>4
<1>5. numbersInGroup[t] < NRec <=> twoToI[t] < nTh
  BY <1>1, <1>3, <1>4 DEF k, g
<1> QED BY <1>2, <1>5 DEF Merging

\* A group ends where the threads do, at the latest.
LEMMA GroupFits ==
  ASSUME SortInv, sBoss # "idle", NEW t \in M!Used
  PROVE  /\ Group(t) \in Nat \ {0} /\ t + Group(t) <= nTh
         /\ Group(t) = 2 * twoToI[t] => Divides(2 * twoToI[t], nTh)
<1>1. twoToI[t] \in Nat \ {0} /\ t \in Nat /\ t < nTh /\ nTh \in Nat \ {0} /\ SortRuns(t)
  BY SortFacts DEF SortInv, SortTyped, M!Places, M!SortAssumption, SortAt
<1>2. CASE sPc[t] \in {"merge", "copy"}
  <2>1. Divides(2 * twoToI[t], t) /\ twoToI[t] < nTh /\ Group(t) = 2 * twoToI[t]
    BY <1>1, <1>2 DEF SortRuns, Merging, Group
  <2>2. Divides(2 * twoToI[t], nTh)
    BY <1>1, <2>1, DoubleDivides DEF SortRuns, SortInv, SortTyped, Allowed
  <2> QED BY <1>1, <2>1, <2>2, NextMultiple
<1>3. CASE sPc[t] \notin {"merge", "copy"}
  BY <1>1, <1>3, NextMultiple DEF SortRuns, Group
<1> QED BY <1>2, <1>3

LEMMA SortInvInit == M!SortAssumption /\ (M!Init \/ NoSort) => SortInv
<1> SUFFICES ASSUME M!SortAssumption, NEW n \in Nat \ {0}, Allowed(n), NEW b \in {"idle", "wait"},
                    NEW k, M!InitOf(b, n, k)
             PROVE  SortInv
  <2> SUFFICES ASSUME M!SortAssumption
               PROVE  M!Init \/ NoSort => SortInv
    OBVIOUS
  <2>1. \A n \in SortThreads : n \in Nat \ {0} /\ Allowed(n)
    BY DEF M!SortAssumption, Allowed
  <2>2. Allowed(1) /\ 1 \in Nat \ {0}
    BY DEF M!SortAssumption, Allowed
  <2> QED BY <2>1, <2>2 DEF M!Init, NoSort
<1> USE DEF M!InitOf
<1>1. NRec \div n \in 1 .. NRec /\ NRec \in Nat \ {0}
  BY RecordsOfThreads DEF M!SortAssumption
<1>2. SortTyped
  <2>1. \A t \in M!Threads : twoToI[t] * M!nRecTh = NRec \div n
    BY <1>1 DEF M!nRecTh
  <2>2. numbersInGroup = [t \in M!Threads |-> twoToI[t] * M!nRecTh]
    BY <2>1
  <2>3. twoToI \in [M!Threads -> M!Places]
    BY <1>1 DEF M!Places
  <2> QED BY <2>2, <2>3 DEF SortTyped, SortLabels
<1>3. ASSUME NEW t \in M!Threads PROVE SortAt(t)
  <2>1. t \in Nat /\ (t \in M!Used <=> t < n)
    BY <1>1 DEF M!Threads, M!Used
  <2>2. 1 \in Powers /\ Divides(1, t) /\ Divides(1, nTh)
    <3>1. t = 1 * t /\ nTh = 1 * nTh /\ nTh \in Nat
      BY <2>1
    <3> QED BY <2>1, <3>1, PowersDouble DEF Divides
  <2>3. CASE t \in M!Used /\ sBoss # "idle"
    BY <2>1, <2>2, <2>3 DEF SortAt, SortRuns
  <2>4. CASE ~(t \in M!Used /\ sBoss # "idle")
    BY <2>1, <2>4 DEF SortAt
  <2> QED BY <2>3, <2>4
<1>4. GroupsApart
  BY <1>2, SortFacts DEF GroupsApart, Group
<1> QED BY <1>2, <1>3, <1>4 DEF SortInv

-----------------------------------------------------------------------------
(* Every step keeps it.                                                    *)

\* A step of one thread changes what is that thread's only.
SortOnly(t) ==
  /\ UNCHANGED <<nTh, sBoss>>
  /\ \A u \in M!Threads \ {t} : /\ sPc'[u] = sPc[u] /\ twoToI'[u] = twoToI[u]
                                /\ numbersInGroup'[u] = numbersInGroup[u] /\ pDest'[u] = pDest[u]
LEMMA SortOthers ==
  ASSUME SortInv, NEW t, SortOnly(t)
  PROVE  \A u \in M!Threads \ {t} : SortAt(u)'
<1> TAKE u \in M!Threads \ {t}
<1>1. SortAt(u)
  BY DEF SortInv
<1> QED BY <1>1 DEF SortOnly, SortAt, SortRuns, Merging, M!Used

\* The invariant after a step of one thread.
LEMMA SortStepOf ==
  ASSUME SortInv, NEW t \in M!Used, sBoss # "idle", SortOnly(t), SortTyped', SortRuns(t)',
         \A u \in M!Used : t < u /\ u < t + Group(t)' => sPc[u] = "exit",
         sPc[t] # "exit"
  PROVE  SortInv'
<1>1. t \in M!Threads /\ t \in Nat /\ M!Used' = M!Used /\ M!Used \subseteq M!Threads
  BY SortFacts DEF SortInv, SortOnly, M!Used
<1>2. SortAt(t)'
  BY <1>1 DEF SortAt, SortOnly
<1>3. \A u \in M!Threads : SortAt(u)'
  BY <1>2, SortOthers
<1>4. GroupsApart'
  <2> SUFFICES ASSUME NEW u \in M!Used, NEW v \in M!Used, u < v, v < u + Group(u)'
               PROVE  sPc'[v] = "exit"
    BY <1>1 DEF GroupsApart
  <2>1. sPc[v] = "exit"
    <3>1. CASE u = t
      BY <3>1
    <3>2. CASE u # t
      <4>1. Group(u)' = Group(u)
        BY <1>1, <3>2 DEF Group, SortOnly
      <4> QED BY <4>1 DEF SortInv, GroupsApart
    <3> QED BY <3>1, <3>2
  <2>2. v # t
    BY <2>1
  <2> QED BY <1>1, <2>1, <2>2 DEF SortOnly
<1>5. sBoss' = "done" => sPc'[0] = "exit"
  <2>1. 0 \in M!Threads
    BY SortFacts DEF SortInv
  <2> QED BY <2>1 DEF SortInv, SortOnly
<1> QED BY <1>3, <1>4, <1>5 DEF SortInv

\* Writing a sequence of records leaves the file one.
LEMMA PutRecords ==
  ASSUME SortTyped, NEW t \in M!Used, NEW s, NEW n \in Nat, s \in [1 .. n -> M!Places], M!Put(t, s)
  PROVE  records' \in [M!Places -> M!Places]
<1>1. s \in Seq(M!Places) /\ Len(s) = n
  OBVIOUS
<1>2. M!first(t) \in Nat
  <2>1. t \in Nat /\ M!nRecTh \in Nat
    BY SortFacts DEF SortTyped, M!SortAssumption
  <2> QED BY <2>1 DEF M!first
<1>3. ASSUME NEW i \in M!Places, i \in M!Part(t, Len(s)) PROVE s[i - M!first(t)] \in M!Places
  <2> DEFINE f == M!first(t)
  <2> HIDE DEF f
  <2>1. PICK k \in 1 .. n : i = f + k
    BY <1>1, <1>3 DEF M!Part, f
  <2>2. f \in Nat
    BY <1>2 DEF f
  <2>3. i - f = k
    BY <2>1, <2>2
  <2>4. s[i - f] \in M!Places
    BY <2>1, <2>3
  <2> QED BY <2>4 DEF f
<1> QED BY <1>3 DEF M!Put, SortTyped

\* A thread that does something is used, and main waits.
LEMMA SortBusy ==
  ASSUME SortInv, NEW t \in M!Threads, sPc[t] # "none"
  PROVE  t \in M!Used /\ sBoss # "idle" /\ SortRuns(t)
BY DEF SortInv, SortAt

LEMMA SortSize == \A T : M!Cardinality(T) = Cardinality(T)
BY DEF M!Cardinality, Cardinality

LEMMA StepQsort ==
  ASSUME SortInv, NEW t \in M!Threads, M!qsort(t)
  PROVE  SortInv'
<1> USE DEF M!qsort
<1>1. t \in M!Used /\ sBoss # "idle" /\ SortRuns(t)
  BY SortBusy
<1>2. SortOnly(t)
  BY DEF SortOnly, SortInv, SortTyped
<1>3. records' \in [M!Places -> M!Places]
  <2> DEFINE R == {records[i] : i \in M!Part(t, M!nRecTh)}
  <2>1. PICK s \in M!Perms(R) : M!Put(t, s)
    OBVIOUS
  <2>2. M!nRecTh \in Nat /\ SortTyped /\ t \in Nat /\ NRec = nTh * M!nRecTh /\ t < nTh /\ nTh \in Nat
    BY <1>1, SortFacts DEF SortInv, SortTyped, M!SortAssumption
  <2>4. R \subseteq M!Places
    <3> SUFFICES ASSUME NEW i \in 1 .. M!nRecTh PROVE M!first(t) + i \in M!Places
      BY <2>2 DEF SortTyped, M!Part
    <3> DEFINE k == M!nRecTh
    <3>1. k \in Nat /\ i \in 1 .. k /\ NRec = nTh * k
      BY <2>2
    <3> HIDE DEF k
    <3>2. (t + 1) * k <= nTh * k
      BY <2>2, <3>1, TimesGrow
    <3>3. (t + 1) * k = t * k + k /\ t * k \in Nat
      BY <2>2, <3>1
    <3>4. t * k + i \in 1 .. NRec
      <4> DEFINE x == t * k  y == nTh * k
      <4>1. x \in Nat /\ x + k <= y /\ NRec = y /\ k \in Nat /\ i \in 1 .. k /\ NRec \in Nat
        BY <1>1, <3>1, <3>2, <3>3, SortFacts DEF SortInv
      <4> HIDE DEF x, y
      <4>2. x + i \in 1 .. NRec
        BY <4>1
      <4> QED BY <4>2 DEF x
    <3> QED BY <3>4 DEF k, M!first, M!Places
  <2>5. Cardinality(R) \in Nat
    <3>1. IsFiniteSet(M!Places)
      BY <2>2, SortFacts, FS_Interval DEF M!Places
    <3> QED BY <2>4, <3>1, FS_Subset, FS_CardinalityType
  <2> HIDE DEF R
  <2>6. s \in [1 .. Cardinality(R) -> M!Places]
    BY <2>1, <2>4, SortSize DEF M!Perms
  <2> QED BY <1>1, <2>1, <2>2, <2>5, <2>6, PutRecords
<1>4. SortTyped'
  BY <1>3 DEF SortInv, SortTyped, M!nRecTh, SortLabels
<1>5. SortRuns(t)' /\ Group(t)' = Group(t)
  BY <1>1 DEF SortInv, SortTyped, SortRuns, Group
<1> QED BY <1>1, <1>2, <1>4, <1>5, SortStepOf DEF SortInv, GroupsApart

LEMMA StepSortTest ==
  ASSUME SortInv, NEW t \in M!Threads, M!SortThreadTest(t)
  PROVE  SortInv'
<1> USE DEF M!SortThreadTest
<1>1. t \in M!Used /\ sBoss # "idle" /\ SortRuns(t)
  BY SortBusy
<1>2. SortOnly(t)
  BY DEF SortOnly, SortInv, SortTyped
<1>3. SortTyped'
  BY DEF SortInv, SortTyped, M!nRecTh, SortLabels
<1>4. sPc'[t] = IF Merging(t) THEN "wait" ELSE "exit"
  BY <1>1, SortTest DEF SortInv, SortTyped
<1>5. SortRuns(t)' /\ Group(t)' = Group(t)
  BY <1>1, <1>4 DEF SortInv, SortTyped, SortRuns, Group, Merging
<1> QED BY <1>1, <1>2, <1>3, <1>5, SortStepOf DEF SortInv, GroupsApart

LEMMA StepSortWait ==
  ASSUME SortInv, NEW t \in M!Threads, M!SortThreadWait(t)
  PROVE  SortInv'
<1> USE DEF M!SortThreadWait
<1>1. t \in M!Used /\ sBoss # "idle" /\ SortRuns(t)
  BY SortBusy
<1>2. SortOnly(t)
  BY DEF SortOnly, SortInv, SortTyped
<1>3. SortTyped'
  BY DEF SortInv, SortTyped, M!nRecTh, SortLabels
<1>4. SortRuns(t)'
  BY <1>1 DEF SortInv, SortTyped, SortRuns, Merging
<1>5. Group(t)' = 2 * twoToI[t] /\ Group(t) = twoToI[t]
  BY DEF SortInv, SortTyped, Group
<1> DEFINE g == twoToI[t]  v == t + g  w == twoToI[v]
<1>6. v \in M!Used /\ sPc[v] = "exit" /\ SortRuns(v) /\ v \in Nat \ {0} /\ v < nTh /\ nTh \in Nat
  <2>1. v \in M!Used /\ sPc[v] = "exit"
    BY DEF M!Exited
  <2>2. SortRuns(v)
    BY <2>1, SortFacts, SortBusy DEF SortInv
  <2>3. g \in Nat \ {0} /\ t \in Nat /\ v < nTh /\ nTh \in Nat
    BY <1>1, <2>1, SortFacts, PowersIn DEF SortRuns, SortInv, SortTyped
  <2> QED BY <2>1, <2>2, <2>3
<1>7. w = g
  <2>1. ~Divides(2 * w, v)
    <3>1. w < nTh
      <4>1. w \in 1 .. v
        BY <1>6, DivisorAtMost, PowersIn DEF SortRuns
      <4> QED BY <1>6, <4>1
    <3> QED BY <1>6, <3>1 DEF SortRuns, Merging
  <2>2. Divides(2 * g, t) /\ g \in Powers /\ w \in Powers /\ Divides(w, v) /\ t \in Nat
    BY <1>1, <1>6, SortFacts DEF SortRuns, Merging, SortInv
  <2> HIDE DEF g, w
  <2> QED BY <2>1, <2>2, NeighbourSize
<1>8. ASSUME NEW u \in M!Used, t < u, u < t + Group(t)' PROVE sPc[u] = "exit"
  <2>1. t \in Nat /\ u \in Nat /\ g \in Nat
    BY <1>1, SortFacts, PowersIn DEF SortRuns, SortInv
  <2>2. CASE u < v
    BY <1>1, <1>5, <1>8, <2>2 DEF SortInv, GroupsApart
  <2>3. CASE u = v
    BY <1>6, <2>3
  <2>4. CASE v < u
    <3>1. Group(v) = g
      BY <1>6, <1>7 DEF Group
    <3>2. u < v + g
      BY <1>5, <1>8, <2>1
    <3> QED BY <1>6, <2>4, <3>1, <3>2 DEF SortInv, GroupsApart
  <2> QED BY <2>1, <2>2, <2>3, <2>4
<1> QED BY <1>1, <1>2, <1>3, <1>4, <1>8, SortStepOf

LEMMA StepMergeArrays ==
  ASSUME SortInv, NEW t \in M!Threads, M!MergeArrays(t)
  PROVE  SortInv'
<1> USE DEF M!MergeArrays
<1>1. t \in M!Used /\ sBoss # "idle" /\ SortRuns(t)
  BY SortBusy
<1>2. SortOnly(t)
  BY DEF SortOnly, SortInv, SortTyped
<1>3. SortTyped'
  BY DEF SortInv, SortTyped, M!nRecTh, SortLabels
<1> DEFINE n == numbersInGroup[t]
           a == [i \in 1 .. n |-> records[M!first(t) + i]]
           b == [i \in 1 .. n |-> records[M!first(t) + n + i]]
<1>4. pDest'[t] = M!Merged(a, b, n)
  BY DEF SortInv, SortTyped
<1>5. n \in Nat /\ M!first(t) \in Nat /\ M!first(t) + n + n <= NRec
  <2> DEFINE k == M!nRecTh  g == twoToI[t]
  <2>1. k \in Nat /\ NRec = nTh * k /\ t \in Nat /\ nTh \in Nat /\ g \in Nat
    BY <1>1, SortFacts, PowersIn DEF SortInv, SortTyped, SortRuns
  <2>2. n = g * k /\ M!first(t) = t * k
    BY DEF SortInv, SortTyped, M!first
  <2>3. t + 2 * g <= nTh
    BY <1>1, GroupFits DEF Group
  <2> HIDE DEF k, g, n
  <2>4. (t + 2 * g) * k <= nTh * k
    BY <2>1, <2>3, TimesGrow
  <2>5. (t + 2 * g) * k = t * k + g * k + g * k /\ t * k \in Nat /\ g * k \in Nat
    BY <2>1
  <2> QED BY <2>1, <2>2, <2>4, <2>5
<1>6. a \in [1 .. n -> M!Places] /\ b \in [1 .. n -> M!Places]
  <2> DEFINE f == M!first(t)
  <2>1. f \in Nat /\ n \in Nat /\ f + n + n <= NRec /\ NRec \in Nat
    BY <1>5, SortFacts DEF SortInv
  <2>2. records \in [1 .. NRec -> 1 .. NRec]
    BY DEF SortInv, SortTyped, M!Places
  <2> HIDE DEF f, n
  <2>3. \A i \in 1 .. n : f + i \in 1 .. NRec /\ f + n + i \in 1 .. NRec
    BY <2>1
  <2>4. \A i \in 1 .. n : records[f + i] \in 1 .. NRec /\ records[f + n + i] \in 1 .. NRec
    BY <2>2, <2>3
  <2> QED BY <2>4 DEF f, M!Places
<1>7. pDest'[t] \in [1 .. 2 * n -> M!Places]
  <2> HIDE DEF n, a, b
  <2>1. M!Merged(a, b, n) \in [1 .. 2 * n -> M!Places]
    BY Zenon, <1>5, <1>6, MergedRecords
  <2> QED BY <1>4, <2>1
<1>8. sPc'[t] = "copy" /\ twoToI'[t] = twoToI[t] /\ numbersInGroup'[t] = n /\ sPc[t] = "merge" /\ nTh' = nTh
  BY DEF SortInv, SortTyped
<1> HIDE DEF n
<1>9. SortRuns(t)' /\ Group(t)' = Group(t)
  BY <1>1, <1>7, <1>8 DEF SortRuns, Merging, Group
<1> QED BY <1>1, <1>2, <1>3, <1>9, SortStepOf DEF SortInv, GroupsApart

LEMMA StepMergeCopy ==
  ASSUME SortInv, NEW t \in M!Threads, M!MergeArraysCopy(t)
  PROVE  SortInv'
<1> USE DEF M!MergeArraysCopy
<1>1. t \in M!Used /\ sBoss # "idle" /\ SortRuns(t)
  BY SortBusy
<1>2. SortOnly(t)
  BY DEF SortOnly, SortInv, SortTyped
<1> DEFINE g == twoToI[t]
<1>3. sPc'[t] = "test" /\ twoToI'[t] = 2 * g /\ nTh' = nTh
  BY DEF SortInv, SortTyped
<1>4. Divides(2 * g, t) /\ g < nTh /\ Divides(2 * g, nTh) /\ g \in Powers /\ g \in Nat \ {0} /\ nTh \in Nat \ {0}
      /\ t + 2 * g <= nTh /\ Group(t) = 2 * g
  BY <1>1, GroupFits, PowersIn DEF SortRuns, Merging, Group, SortInv, SortTyped
<1>5. 2 * g \in Powers /\ 2 * g \in M!Places
  <2>1. 2 * g \in 1 .. nTh
    BY <1>4, DivisorAtMost
  <2>2. nTh <= NRec /\ NRec \in Nat
    BY DEF SortInv, SortTyped, Allowed, M!SortAssumption
  <2> QED BY <1>4, <2>1, <2>2, PowersDouble DEF M!Places
<1>6. SortTyped'
  <2>1. twoToI' \in [M!Threads -> M!Places] /\ sPc' \in [M!Threads -> SortLabels]
    BY <1>5 DEF SortInv, SortTyped, SortLabels
  <2>2. numbersInGroup' = [u \in M!Threads |-> twoToI'[u] * M!nRecTh]
    <3>1. M!nRecTh \in Nat /\ g \in Nat
      BY <1>4, SortFacts DEF SortInv
    <3>2. 2 * (g * M!nRecTh) = (2 * g) * M!nRecTh
      BY <3>1
    <3>3. numbersInGroup'[t] = twoToI'[t] * M!nRecTh
      BY <1>3, <3>2 DEF SortInv, SortTyped
    <3>4. \A u \in M!Threads \ {t} : numbersInGroup'[u] = twoToI'[u] * M!nRecTh
      BY <1>2 DEF SortInv, SortTyped, SortOnly
    <3>5. numbersInGroup' = [u \in M!Threads |-> numbersInGroup'[u]]
      BY DEF SortInv, SortTyped
    <3> QED BY <3>3, <3>4, <3>5
  <2>3. records' \in [M!Places -> M!Places]
    <3>1. pDest[t] \in [1 .. 2 * numbersInGroup[t] -> M!Places]
      BY <1>1 DEF SortRuns
    <3>2. 2 * numbersInGroup[t] \in Nat
      <4>1. M!nRecTh \in Nat /\ g \in Nat /\ numbersInGroup[t] = g * M!nRecTh
        BY <1>4, SortFacts DEF SortInv, SortTyped
      <4> QED BY <4>1
    <3> QED BY <1>1, <3>1, <3>2, PutRecords DEF SortInv
  <2> QED BY <2>1, <2>2, <2>3 DEF SortInv, SortTyped, M!nRecTh
<1>7. SortRuns(t)' /\ Group(t)' = Group(t)
  <2>1. Group(t)' = 2 * g
    BY <1>3 DEF Group
  <2> HIDE DEF g
  <2> QED BY <1>3, <1>4, <1>5, <2>1 DEF SortRuns
<1> QED BY <1>1, <1>2, <1>6, <1>7, SortStepOf DEF SortInv, GroupsApart

LEMMA SortInvStep == SortInv /\ (M!Next \/ UNCHANGED M!vars) => SortInv'
<1> SUFFICES ASSUME SortInv, M!Next \/ UNCHANGED M!vars PROVE SortInv'
  OBVIOUS
<1>1. CASE UNCHANGED M!vars
  BY <1>1 DEF M!vars, SortInv, SortTyped, SortAt, SortRuns, Merging, GroupsApart, Group, M!Used, M!nRecTh
<1>2. CASE M!_tmain
  <2>1. \A t \in M!Threads : SortAt(t)'
    BY <1>2 DEF M!_tmain, SortInv, SortAt, SortRuns, Merging, M!Used
  <2> QED BY <1>2, <2>1 DEF M!_tmain, SortInv, SortTyped, GroupsApart, Group, M!Used, M!nRecTh
<1>3. ASSUME NEW t \in M!Threads, M!SortThread(t) PROVE SortInv'
  BY <1>3, StepQsort, StepSortTest, StepSortWait, StepMergeArrays, StepMergeCopy DEF M!SortThread
<1> QED BY <1>1, <1>2, <1>3 DEF M!Next

LEMMA SortSteps == [Next]_vars => M!Next \/ UNCHANGED M!vars
BY DEF Next, vars, sort, M!vars

LEMMA SortIsTyped == SortInv => M!TypeOK
<1> SUFFICES ASSUME SortInv PROVE M!TypeOK
  OBVIOUS
<1>1. ASSUME NEW t \in M!Threads PROVE numbersInGroup[t] \in M!Places
  <2> DEFINE k == M!nRecTh  g == twoToI[t]
  <2>1. k \in 1 .. NRec /\ NRec = nTh * k /\ nTh \in Nat \ {0} /\ g \in Nat \ {0} /\ numbersInGroup[t] = g * k
        /\ NRec \in Nat
    BY SortFacts DEF SortInv, SortTyped, M!Places, M!SortAssumption
  <2>2. g <= nTh
    <3>1. CASE t \in M!Used /\ sBoss # "idle"
      <4>1. SortRuns(t)
        BY <3>1 DEF SortInv, SortAt
      <4> QED BY <2>1, <4>1, DivisorAtMost DEF SortRuns
    <3>2. CASE ~(t \in M!Used /\ sBoss # "idle")
      BY <2>1, <3>2 DEF SortInv, SortAt
    <3> QED BY <3>1, <3>2
  <2> HIDE DEF k, g
  <2>3. g * k <= nTh * k /\ 1 * k <= g * k /\ g * k \in Nat
    BY <2>1, <2>2, TimesGrow
  <2> QED BY <2>1, <2>3 DEF M!Places
<1>2. numbersInGroup \in [M!Threads -> M!Places]
  <2>1. numbersInGroup = [t \in M!Threads |-> numbersInGroup[t]]
    BY DEF SortInv, SortTyped
  <2> QED BY <1>1, <2>1
<1> QED BY <1>2 DEF SortInv, SortTyped, SortLabels, M!TypeOK

LEMMA SortIsApart == SortInv => M!PartsDisjoint
<1> SUFFICES ASSUME SortInv PROVE M!PartsDisjoint
  OBVIOUS
<1> DEFINE k == M!nRecTh
<1>1. k \in Nat \ {0} /\ NRec = nTh * k /\ NRec \in Nat /\ nTh \in Nat \ {0}
  BY SortFacts DEF SortInv, SortTyped
\* What a thread touches is at most its group.
<1>2. ASSUME NEW t \in M!Threads, NEW p \in M!Touches(t)
      PROVE  /\ t \in M!Used /\ sBoss # "idle" /\ sPc[t] # "exit" /\ t \in Nat /\ Group(t) \in Nat
             /\ t + Group(t) <= nTh
             /\ p \in Nat /\ t * k < p /\ p <= (t + Group(t)) * k
  <2>1. sPc[t] \in {"sort", "merge", "copy"}
    BY <1>2 DEF M!Touches
  <2>2. t \in M!Used /\ sBoss # "idle" /\ SortRuns(t)
    BY <2>1, SortBusy
  <2>3. t \in Nat /\ Group(t) \in Nat /\ t + Group(t) <= nTh /\ twoToI[t] \in Nat
    BY <2>2, SortFacts, GroupFits, PowersIn DEF SortInv, SortRuns
  <2> DEFINE g == Group(t)  h == twoToI[t]
  <2>4. p \in M!Part(t, g * k)
    <3>1. CASE sPc[t] = "sort"
      <4>1. g = 1 /\ 1 * k = k
        BY <1>1, <2>2, <3>1 DEF SortRuns, Group
      <4> QED BY <1>2, <3>1, <4>1 DEF M!Touches
    <3>2. CASE sPc[t] \in {"merge", "copy"}
      <4>1. g = 2 * h /\ numbersInGroup[t] = h * k
        BY <3>2 DEF Group, SortInv, SortTyped
      <4> HIDE DEF h, k, g
      <4>2. 2 * (h * k) = g * k
        BY <1>1, <2>3, <4>1 DEF h
      <4> QED BY <1>2, <3>2, <4>1, <4>2 DEF M!Touches
    <3> QED BY <2>1, <3>1, <3>2
  <2>5. PICK i \in 1 .. (g * k) : p = t * k + i
    BY <2>4 DEF M!Part, M!first
  <2> HIDE DEF g, k
  <2>6. g \in Nat
    BY <2>3 DEF g
  <2>7. t * k \in Nat /\ g * k \in Nat /\ (t + g) * k = t * k + g * k
    BY <1>1, <2>3, <2>6
  <2>8. p \in Nat /\ t * k < p /\ p <= (t + g) * k
    BY <2>5, <2>7
  <2> QED BY <2>1, <2>2, <2>3, <2>8 DEF g
<1> HIDE DEF k
<1>3. ASSUME NEW t \in M!Threads, NEW u \in M!Threads, t < u, NEW p \in M!Touches(t), p \in M!Touches(u)
      PROVE  FALSE
  <2>1. /\ t \in M!Used /\ t \in Nat /\ Group(t) \in Nat /\ p \in Nat /\ p <= (t + Group(t)) * k
        /\ u \in M!Used /\ sPc[u] # "exit" /\ u \in Nat /\ u * k < p
    BY <1>2, <1>3
  <2> DEFINE g == Group(t)
  <2>2. ~(u < t + g)
    BY <1>3, <2>1 DEF SortInv, GroupsApart
  <2>3. (t + g) * k <= u * k
    BY <1>1, <2>1, <2>2, TimesGrow
  <2>4. g \in Nat /\ p <= (t + g) * k
    BY <2>1
  <2> HIDE DEF g
  <2>5. (t + g) * k \in Nat /\ u * k \in Nat
    BY <1>1, <2>1, <2>4
  <2> QED BY <2>1, <2>3, <2>4, <2>5
<1>4. \A t, u \in M!Threads : t # u => M!Touches(t) \cap M!Touches(u) = {}
  <2> SUFFICES ASSUME NEW t \in M!Threads, NEW u \in M!Threads, t # u,
                      NEW p \in M!Touches(t), p \in M!Touches(u)
               PROVE  FALSE
    OBVIOUS
  <2>1. t < u \/ u < t
    BY <1>1 DEF M!Threads
  <2> QED BY <1>3, <2>1
<1>5. ASSUME NEW t \in M!Threads, NEW p \in M!Touches(t) PROVE p \in M!Places
  <2>1. t \in Nat /\ Group(t) \in Nat /\ t + Group(t) <= nTh /\ p \in Nat /\ t * k < p /\ p <= (t + Group(t)) * k
    BY <1>2, <1>5
  <2> DEFINE g == Group(t)
  <2>2. g \in Nat /\ t + g <= nTh /\ p <= (t + g) * k
    BY <2>1
  <2> HIDE DEF g
  <2>3. (t + g) * k <= nTh * k /\ (t + g) * k \in Nat /\ t * k \in Nat
    BY <1>1, <2>1, <2>2, TimesGrow
  <2> QED BY <1>1, <2>1, <2>2, <2>3 DEF M!Places
<1>6. ASSUME sBoss = "done", NEW t \in M!Threads PROVE M!Touches(t) = {}
  <2> SUFFICES ASSUME NEW p \in M!Touches(t) PROVE FALSE
    OBVIOUS
  <2>1. t \in M!Used /\ sPc[t] # "exit" /\ t \in Nat
    BY <1>2
  <2>2. 0 \in M!Used /\ 0 \in M!Threads /\ t < nTh
    BY <2>1, SortFacts DEF SortInv
  <2>3. sPc[0] = "exit" /\ SortRuns(0)
    BY <1>6, <2>2 DEF SortInv, SortAt
  <2>4. twoToI[0] \in Nat /\ ~(twoToI[0] < nTh)
    <3>1. twoToI[0] \in Nat
      BY <2>3, PowersIn DEF SortRuns
    <3>2. 0 = (2 * twoToI[0]) * 0
      BY <3>1
    <3>3. Divides(2 * twoToI[0], 0)
      BY <3>2 DEF Divides
    <3> QED BY <2>3, <3>1, <3>3 DEF SortRuns, Merging
  <2>5. 0 < t
    BY <2>1, <2>3
  <2>6. t < 0 + Group(0)
    BY <1>1, <2>1, <2>2, <2>3, <2>4 DEF Group
  <2> QED BY <2>1, <2>2, <2>5, <2>6 DEF SortInv, GroupsApart
<1> QED BY <1>4, <1>5, <1>6 DEF M!PartsDisjoint

-----------------------------------------------------------------------------
\* The folds of the community modules that add up are these sums.
LEMMA FoldIsSum ==
  ASSUME NEW f, IsFiniteSet(DOMAIN f)
  PROVE  Q!FoldFunction(+, 0, f) = SumOf(DOMAIN f, f)
BY DEF Q!FoldFunction, Q!FoldFunctionOnSet, Q!MapThenFoldSet, SumOf, Sums, AddUp, Chosen

-----------------------------------------------------------------------------
(* Workers: the inductive invariant.                                       *)

WorkerLabels == {"new", "gate", "loop", "enter", "leave", "ungate", "exit"}

WorkersTyped ==
  /\ W!WorkersAssumption
  /\ worker \in W!Programs \cup {"none"}
  /\ wPc \in [W!Workers -> WorkerLabels] /\ tasksComplete \in [W!Workers -> 0..Tasks]
  /\ held \in [W!Workers -> Nat] /\ heldA \in [W!Workers -> Nat]
  /\ sem \in 0..MaxThread
  /\ bPc \in {"create", "wait", "close", "done"} /\ next \in W!Workers /\ total \in Nat

WorkerAt(w) ==
  /\ wPc[w] = "enter" => tasksComplete[w] < Tasks
  /\ wPc[w] \in {"ungate", "exit"} => tasksComplete[w] = Tasks
  /\ heldA[w] <= held[w] /\ held[w] <= W!Enters(worker)
  /\ held[w] > 0 => wPc[w] \in {"enter", "leave"}
  /\ bPc = "create" /\ next <= w => wPc[w] = "new"
  /\ bPc = "wait" /\ worker \in W!Stats /\ w < next => wPc[w] = "exit"
  /\ bPc \in {"close", "done"} => wPc[w] = "exit"

Exclusive == W!Guard(worker) \in {"shared", "nested"}
Alone == Exclusive => \A v, w \in W!Workers : held[v] > 0 /\ held[w] > 0 => v = w
Admitted == W!Throttled(worker) => sem + Cardinality(W!Active) = MaxThread
AddedUp == bPc = "done" => total = NThread * Tasks

WorkersInv ==
  /\ WorkersTyped /\ Alone /\ Admitted /\ AddedUp
  /\ \A w \in W!Workers : WorkerAt(w)

LEMMA EntersBound ==
  ASSUME W!WorkersAssumption
  PROVE  W!Enters(worker) \in 0 .. (1 + Depth)
BY DEF W!WorkersAssumption, W!Enters

LEMMA WorkersSize == \A T : W!Cardinality(T) = Cardinality(T)
BY DEF W!Cardinality, Cardinality

LEMMA ActiveFinite ==
  ASSUME W!WorkersAssumption
  PROVE  IsFiniteSet(W!Workers) /\ IsFiniteSet(W!Active) /\ Cardinality(W!Active) \in Nat
<1>1. IsFiniteSet(W!Workers)
  BY FS_Interval DEF W!WorkersAssumption, W!Workers
<1>2. W!Active \subseteq W!Workers
  BY DEF W!Active
<1> QED BY <1>1, <1>2, FS_Subset, FS_CardinalityType

LEMMA WorkersInvInit == W!WorkersAssumption /\ (W!Init \/ NoWorkers) => WorkersInv
<1> SUFFICES ASSUME W!WorkersAssumption, NEW p \in W!Programs \cup {"none"}, W!InitOf(p)
             PROVE  WorkersInv
  BY DEF W!Init, NoWorkers
<1> USE DEF W!InitOf
<1>1. WorkersTyped
  BY DEF WorkersTyped, W!WorkersAssumption, W!Workers, WorkerLabels
<1>2. ASSUME NEW w \in W!Workers PROVE WorkerAt(w)
  <2>1. wPc[w] = "new" /\ held[w] = 0 /\ heldA[w] = 0 /\ bPc = "create" /\ 0 <= W!Enters(worker)
    BY EntersBound DEF W!WorkersAssumption
  <2> QED BY <2>1 DEF WorkerAt
<1>3. W!Active = {}
  BY DEF W!Active
<1>4. Alone /\ Admitted /\ AddedUp
  BY <1>3, FS_EmptySet DEF Alone, Admitted, AddedUp, W!WorkersAssumption
<1> QED BY <1>1, <1>2, <1>4 DEF WorkersInv

-----------------------------------------------------------------------------
(* Every step of a worker keeps it.                                        *)

\* A step of one worker changes what is that worker's only.
WorkerOnly(w) ==
  /\ UNCHANGED <<worker, bPc, next, total>>
  /\ \A v \in W!Workers \ {w} : /\ wPc'[v] = wPc[v] /\ tasksComplete'[v] = tasksComplete[v]
                                /\ held'[v] = held[v] /\ heldA'[v] = heldA[v]

\* The invariant after a step of a worker that uses no lock.
LEMMA StepOfWorker ==
  ASSUME WorkersInv, NEW w \in W!Workers, WorkerOnly(w), WorkersTyped', WorkerAt(w)', Admitted', Alone'
  PROVE  WorkersInv'
<1>1. ASSUME NEW v \in W!Workers \ {w} PROVE WorkerAt(v)'
  <2>1. WorkerAt(v)
    BY DEF WorkersInv
  <2> QED BY <2>1 DEF WorkerAt, WorkerOnly
<1>2. AddedUp'
  BY DEF WorkersInv, AddedUp, WorkerOnly
<1> QED BY <1>1, <1>2 DEF WorkersInv

\* The admitted workers after a step of one.
LEMMA SameActive ==
  ASSUME WorkersInv, NEW w \in W!Workers, WorkerOnly(w), sem' = sem,
         w \in W!Active <=> wPc'[w] \in {"loop", "enter", "leave", "ungate"}
  PROVE  Admitted'
<1>1. W!Active' = W!Active
  BY DEF W!Active, WorkerOnly
<1> QED BY <1>1 DEF Admitted, WorkersInv, WorkerOnly

\* Nobody else comes in unless the lock is free.
LEMMA SameAlone ==
  ASSUME WorkersInv, WorkersTyped', NEW w \in W!Workers, WorkerOnly(w),
         Exclusive => held'[w] = 0 \/ held[w] > 0 \/ \A v \in W!Workers \ {w} : held[v] = 0
  PROVE  Alone'
<1>1. Exclusive' = Exclusive
  BY DEF Exclusive, WorkerOnly
<1> SUFFICES ASSUME Exclusive, NEW u \in W!Workers, NEW v \in W!Workers, held'[u] > 0, held'[v] > 0
             PROVE  u = v
  BY <1>1 DEF Alone
<1>2. \A x \in W!Workers : held[x] \in Nat
  BY DEF WorkersInv, WorkersTyped
<1>3. CASE u = w \/ v = w
  BY <1>2, <1>3 DEF WorkersInv, Alone, WorkerOnly
<1>4. CASE u # w /\ v # w
  BY <1>4 DEF WorkersInv, Alone, WorkerOnly
<1> QED BY <1>3, <1>4

LEMMA StepGate ==
  ASSUME WorkersInv, NEW w \in W!Workers, W!Gate(w)
  PROVE  WorkersInv'
<1> USE DEF W!Gate, W!Goto, W!work, W!boss
<1>1. WorkerOnly(w) /\ wPc'[w] = "loop"
  BY DEF WorkersInv, WorkersTyped, WorkerOnly
<1>2. WorkersTyped'
  BY DEF WorkersInv, WorkersTyped, WorkerLabels, W!WorkersAssumption
<1>3. WorkerAt(w)'
  <2>1. WorkerAt(w)
    BY DEF WorkersInv
  <2> QED BY <1>1, <2>1 DEF WorkerAt, WorkersInv, WorkersTyped
<1>4. Admitted'
  <2>1. W!Active' = W!Active \cup {w} /\ w \notin W!Active
    BY <1>1 DEF W!Active, WorkerOnly
  <2>2. Cardinality(W!Active') = Cardinality(W!Active) + 1 /\ Cardinality(W!Active) \in Nat
    BY <2>1, ActiveFinite, FS_AddElement DEF WorkersInv, WorkersTyped
  <2>3. W!Throttled(worker) => sem' = sem - 1 /\ sem \in Nat /\ MaxThread \in Nat
    BY DEF WorkersInv, WorkersTyped, W!WorkersAssumption
  <2> DEFINE a == Cardinality(W!Active)
  <2>4. W!Throttled(worker) => sem + a = MaxThread
    BY DEF WorkersInv, Admitted
  <2>5. Cardinality(W!Active)' = a + 1 /\ a \in Nat
    BY <2>2
  <2> HIDE DEF a
  <2> QED BY <2>3, <2>4, <2>5 DEF Admitted
<1>5. Alone'
  <2>1. held'[w] = held[w] /\ held[w] \in Nat
    BY DEF WorkersInv, WorkersTyped
  <2> QED BY <1>1, <1>2, <2>1, SameAlone
<1> QED BY <1>1, <1>2, <1>3, <1>4, <1>5, StepOfWorker

LEMMA StepLoop ==
  ASSUME WorkersInv, NEW w \in W!Workers, W!Loop(w)
  PROVE  WorkersInv'
<1> USE DEF W!Loop, W!Goto, W!work, W!boss
<1>0. WorkerAt(w) /\ tasksComplete[w] \in 0..Tasks /\ Tasks \in Nat
  BY DEF WorkersInv, WorkersTyped, W!WorkersAssumption
<1>1. WorkerOnly(w) /\ wPc'[w] = (IF tasksComplete[w] < Tasks THEN "enter" ELSE "ungate")
  BY DEF WorkersInv, WorkersTyped, WorkerOnly
<1>2. WorkersTyped'
  BY DEF WorkersInv, WorkersTyped, WorkerLabels
<1>3. WorkerAt(w)'
  BY <1>0, <1>1 DEF WorkerAt
<1>4. Admitted'
  BY <1>1, SameActive DEF W!Active
<1>5. Alone'
  <2>1. held'[w] = held[w] /\ held[w] \in Nat
    BY DEF WorkersInv, WorkersTyped
  <2> QED BY <1>1, <1>2, <2>1, SameAlone
<1> QED BY <1>1, <1>2, <1>3, <1>4, <1>5, StepOfWorker

LEMMA StepEnterFirst ==
  ASSUME WorkersInv, NEW w \in W!Workers, W!EnterFirst(w)
  PROVE  WorkersInv'
<1> USE DEF W!EnterFirst, W!boss
<1>0. WorkerAt(w) /\ held[w] \in Nat /\ heldA[w] \in Nat /\ W!Enters(worker) \in Nat
  BY EntersBound DEF WorkersInv, WorkersTyped, W!WorkersAssumption
<1>1. WorkerOnly(w) /\ wPc'[w] = "enter" /\ held'[w] = held[w] + 1
  BY DEF WorkersInv, WorkersTyped, WorkerOnly
<1>2. WorkersTyped'
  BY DEF WorkersInv, WorkersTyped, WorkerLabels
<1>3. WorkerAt(w)'
  BY <1>0, <1>1 DEF WorkerAt
<1>4. Admitted'
  BY <1>1, SameActive DEF W!Active
<1>5. Alone'
  BY <1>1, <1>2, SameAlone DEF W!Free, Exclusive
<1> QED BY <1>1, <1>2, <1>3, <1>4, <1>5, StepOfWorker

LEMMA StepEnterSecond ==
  ASSUME WorkersInv, NEW w \in W!Workers, W!EnterSecond(w)
  PROVE  WorkersInv'
<1> USE DEF W!EnterSecond, W!boss
<1>0. WorkerAt(w) /\ held[w] \in Nat /\ heldA[w] \in Nat
  BY DEF WorkersInv, WorkersTyped
<1>1. WorkerOnly(w) /\ wPc'[w] = "enter" /\ heldA'[w] = heldA[w] + 1 /\ held' = held
  BY DEF WorkersInv, WorkersTyped, WorkerOnly
<1>2. WorkersTyped'
  BY DEF WorkersInv, WorkersTyped, WorkerLabels
<1>3. WorkerAt(w)'
  BY <1>0, <1>1 DEF WorkerAt
<1>4. Admitted'
  BY <1>1, SameActive DEF W!Active
<1>5. Alone'
  <2>1. held'[w] = held[w]
    BY <1>1
  <2> QED BY <1>0, <1>1, <1>2, <2>1, SameAlone
<1> QED BY <1>1, <1>2, <1>3, <1>4, <1>5, StepOfWorker

LEMMA StepWork ==
  ASSUME WorkersInv, NEW w \in W!Workers, W!Work(w)
  PROVE  WorkersInv'
<1> USE DEF W!Work, W!Goto, W!boss
<1>0. WorkerAt(w) /\ tasksComplete[w] \in 0..Tasks /\ tasksComplete[w] < Tasks /\ Tasks \in Nat /\ held[w] \in Nat
  BY DEF WorkersInv, WorkersTyped, WorkerAt, W!WorkersAssumption
<1>1. WorkerOnly(w) /\ wPc'[w] = "leave" /\ held' = held /\ heldA' = heldA
  BY DEF WorkersInv, WorkersTyped, WorkerOnly
<1>2. WorkersTyped'
  BY <1>0 DEF WorkersInv, WorkersTyped, WorkerLabels
<1>3. WorkerAt(w)'
  BY <1>0, <1>1 DEF WorkerAt
<1>4. Admitted'
  BY <1>1, SameActive DEF W!Active
<1>5. Alone'
  <2>1. held'[w] = held[w]
    BY <1>1
  <2> QED BY <1>0, <1>1, <1>2, <2>1, SameAlone
<1> QED BY <1>1, <1>2, <1>3, <1>4, <1>5, StepOfWorker

LEMMA StepLeave ==
  ASSUME WorkersInv, NEW w \in W!Workers, W!Leave(w)
  PROVE  WorkersInv'
<1> USE DEF W!Leave, W!Goto, W!boss
<1>0. WorkerAt(w) /\ 0 <= W!Enters(worker)
  BY EntersBound DEF WorkersInv, WorkersTyped, W!WorkersAssumption
<1>1. WorkerOnly(w) /\ wPc'[w] = "loop" /\ held'[w] = 0 /\ heldA'[w] = 0
  BY DEF WorkersInv, WorkersTyped, WorkerOnly
<1>2. WorkersTyped'
  BY DEF WorkersInv, WorkersTyped, WorkerLabels
<1>3. WorkerAt(w)'
  BY <1>0, <1>1 DEF WorkerAt
<1>4. Admitted'
  BY <1>1, SameActive DEF W!Active
<1>5. Alone'
  BY <1>1, <1>2, SameAlone
<1> QED BY <1>1, <1>2, <1>3, <1>4, <1>5, StepOfWorker

LEMMA StepUngate ==
  ASSUME WorkersInv, NEW w \in W!Workers, W!Ungate(w)
  PROVE  WorkersInv'
<1> USE DEF W!Ungate, W!Goto, W!work, W!boss
<1>0. WorkerAt(w) /\ held[w] \in Nat /\ sem \in Nat /\ MaxThread \in Nat /\ sem \in 0..MaxThread
  BY DEF WorkersInv, WorkersTyped, W!WorkersAssumption
<1>1. WorkerOnly(w) /\ wPc'[w] = "exit" /\ held' = held /\ heldA' = heldA
  BY DEF WorkersInv, WorkersTyped, WorkerOnly
<1> DEFINE a == Cardinality(W!Active)
<1>2. a \in Nat \ {0} /\ Cardinality(W!Active)' = a - 1
  <2>1. W!Active' = W!Active \ {w} /\ w \in W!Active
    BY <1>1 DEF W!Active, WorkerOnly
  <2>2. Cardinality(W!Active') = a - 1 /\ a - 1 \in Nat /\ a \in Nat
    BY <2>1, ActiveFinite, SmallerSet DEF WorkersInv, WorkersTyped
  <2> QED BY <2>2
<1>3. W!Throttled(worker) => sem' = sem + 1
  <2> SUFFICES ASSUME W!Throttled(worker) PROVE sem' = sem + 1
    OBVIOUS
  <2>1. sem + a = MaxThread
    BY DEF WorkersInv, Admitted
  <2> HIDE DEF a
  <2>2. sem + 1 <= MaxThread
    BY <1>0, <1>2, <2>1
  <2>3. W!Released(sem, 1) = sem + 1
    BY <2>2 DEF W!Released
  <2>4. W!Released(sem + 1, 2 * MaxThread) = sem + 1
    BY <1>0, <2>2 DEF W!Released
  <2> QED BY <2>3, <2>4
<1>4. Admitted'
  <2>1. W!Throttled(worker) => sem + a = MaxThread
    BY DEF WorkersInv, Admitted
  <2>2. worker' = worker
    OBVIOUS
  <2> HIDE DEF a
  <2> QED BY <1>0, <1>2, <1>3, <2>1, <2>2 DEF Admitted
<1>5. WorkersTyped'
  <2>1. sem' \in 0..MaxThread
    <3>1. CASE W!Throttled(worker)
      <4>1. sem' = sem + 1 /\ sem + a = MaxThread
        BY <1>3, <3>1 DEF WorkersInv, Admitted
      <4> HIDE DEF a
      <4> QED BY <1>0, <1>2, <4>1
    <3>2. CASE ~W!Throttled(worker)
      BY <1>0, <3>2
    <3> QED BY <3>1, <3>2
  <2> QED BY <2>1 DEF WorkersInv, WorkersTyped, WorkerLabels
<1>6. WorkerAt(w)'
  BY <1>0, <1>1 DEF WorkerAt
<1>7. Alone'
  <2>1. held'[w] = held[w]
    BY <1>1
  <2> QED BY <1>0, <1>1, <1>5, <2>1, SameAlone
<1> QED BY <1>1, <1>4, <1>5, <1>6, <1>7, StepOfWorker

-----------------------------------------------------------------------------
(* And so does every step of the boss.                                     *)

LEMMA TimesNumber == \A i, j \in Nat : i * j \in Nat
<1> TAKE i, j \in Nat
<1> QED OBVIOUS

LEMMA StepBoss ==
  ASSUME WorkersInv, worker \in W!Programs, W!Boss
  PROVE  WorkersInv'
<1> USE DEF W!work, W!boss, W!Goto
<1>0. /\ NThread \in Nat \ {0} /\ next \in 1 .. NThread /\ W!Workers = 1 .. NThread
      /\ \A w \in W!Workers : w \in Nat /\ WorkerAt(w)
  BY DEF WorkersInv, WorkersTyped, W!WorkersAssumption, W!Workers
<1>1. CASE W!BossCreate
  <2> USE <1>1 DEF W!BossCreate
  <2>1. wPc[next] = "new"
    BY <1>0 DEF WorkerAt
  <2>2. WorkersTyped'
    <3>1. next' \in W!Workers /\ bPc' \in {"create", "wait"}
      BY <1>0
    <3>2. wPc' \in [W!Workers -> WorkerLabels]
      BY DEF WorkersInv, WorkersTyped, WorkerLabels
    <3> QED BY <3>1, <3>2 DEF WorkersInv, WorkersTyped
  <2>3. ASSUME NEW w \in W!Workers PROVE WorkerAt(w)'
    <3>1. WorkerAt(w) /\ held[w] \in Nat
      BY <1>0 DEF WorkersInv, WorkersTyped
    <3>2. wPc'[w] = IF w = next THEN "gate" ELSE wPc[w]
      BY DEF WorkersInv, WorkersTyped
    <3>3. bPc' = "create" => next' = next + 1 /\ bPc = "create"
      OBVIOUS
    <3>4. bPc' = "wait" => next' = 1
      OBVIOUS
    <3>5. bPc' \in {"create", "wait"} /\ tasksComplete' = tasksComplete /\ held' = held /\ heldA' = heldA
          /\ worker' = worker /\ w \in Nat /\ next \in Nat
      BY <1>0
    <3> DEFINE p == wPc'[w]  n == next'
    <3>6. p = (IF w = next THEN "gate" ELSE wPc[w]) /\ n \in Nat
      BY <1>0, <3>2
    <3>7. bPc' = "create" => n = next + 1 /\ bPc = "create"
      BY <3>3
    <3>8. bPc' = "create" /\ n <= w => p = "new"
      BY <3>1, <3>5, <3>6, <3>7 DEF WorkerAt
    <3>9. bPc' = "wait" => ~(w < n)
      BY <1>0, <3>4
    <3>10. held[w] > 0 => w # next
      BY <2>1, <3>1 DEF WorkerAt
    <3> QED BY <3>1, <3>5, <3>6, <3>8, <3>9, <3>10 DEF WorkerAt
  <2>4. W!Active' = W!Active
    BY <2>1 DEF W!Active, WorkersInv, WorkersTyped
  <2> QED BY <2>2, <2>3, <2>4 DEF WorkersInv, Admitted, Alone, Exclusive, AddedUp
<1>2. CASE W!BossWait
  <2> USE <1>2 DEF W!BossWait
  <2>1. WorkersTyped'
    <3>1. next' \in W!Workers /\ bPc' \in {"wait", "close"}
      BY <1>0
    <3> QED BY <3>1 DEF WorkersInv, WorkersTyped
  <2>2. ASSUME NEW w \in W!Workers PROVE WorkerAt(w)'
    <3>1. WorkerAt(w) /\ w \in 1 .. NThread
      BY <1>0
    <3>2. wPc[next] = "exit" /\ (w < next => wPc[w] = "exit")
      BY <3>1 DEF WorkerAt
    <3>3. bPc' = "wait" => next' = next + 1
      OBVIOUS
    <3>4. bPc' \in {"wait", "close"} /\ (bPc' = "close" => next = NThread)
      BY <1>0
    <3> QED BY <1>0, <3>1, <3>2, <3>3, <3>4 DEF WorkerAt
  <2>3. W!Active' = W!Active
    BY DEF W!Active
  <2> QED BY <2>1, <2>2, <2>3 DEF WorkersInv, Admitted, Alone, Exclusive, AddedUp
<1>3. CASE W!BossWaitAll
  <2> USE <1>3 DEF W!BossWaitAll
  <2>1. WorkersTyped'
    BY DEF WorkersInv, WorkersTyped
  <2>2. \A w \in W!Workers : WorkerAt(w)'
    BY <1>0 DEF WorkerAt
  <2>3. W!Active' = W!Active
    BY DEF W!Active
  <2> QED BY <2>1, <2>2, <2>3 DEF WorkersInv, Admitted, Alone, Exclusive, AddedUp
<1>4. CASE W!BossClose
  <2> USE <1>4 DEF W!BossClose
  <2>1. total' = NThread * Tasks
    <3>1. DOMAIN tasksComplete = 1 .. NThread /\ \A w \in 1 .. NThread : tasksComplete[w] = Tasks
      BY <1>0 DEF WorkersInv, WorkersTyped, WorkerAt
    <3>2. IsFiniteSet(DOMAIN tasksComplete)
      BY <3>1, ActiveFinite DEF WorkersInv, WorkersTyped, W!Workers
    <3>3. W!FoldFunction(LAMBDA x, y : x + y, 0, tasksComplete) = SumOf(DOMAIN tasksComplete, tasksComplete)
      BY DEF W!FoldFunction, W!FoldFunctionOnSet, W!MapThenFoldSet, SumOf, Sums, AddUp, Chosen
    <3>4. Tasks \in Nat
      BY DEF WorkersInv, WorkersTyped, W!WorkersAssumption
    <3> QED BY <1>0, <3>1, <3>3, <3>4, SumOfSame
  <2>2. WorkersTyped'
    <3>1. NThread \in Nat /\ Tasks \in Nat
      BY DEF WorkersInv, WorkersTyped, W!WorkersAssumption
    <3>3. NThread * Tasks \in Nat
      BY <3>1, TimesNumber
    <3> QED BY <2>1, <3>3 DEF WorkersInv, WorkersTyped
  <2>3. \A w \in W!Workers : WorkerAt(w)'
    BY <1>0 DEF WorkerAt
  <2>4. W!Active' = W!Active
    BY DEF W!Active
  <2> QED BY <2>1, <2>2, <2>3, <2>4 DEF WorkersInv, Admitted, Alone, Exclusive, AddedUp
<1> QED BY <1>1, <1>2, <1>3, <1>4 DEF W!Boss

LEMMA WorkersInvStep == WorkersInv /\ (W!Next \/ UNCHANGED W!vars) => WorkersInv'
<1> SUFFICES ASSUME WorkersInv, W!Next \/ UNCHANGED W!vars PROVE WorkersInv'
  OBVIOUS
<1>1. CASE UNCHANGED W!vars
  <2>1. W!Active' = W!Active /\ \A w \in W!Workers : WorkerAt(w)'
    BY <1>1 DEF W!vars, W!work, W!boss, W!Active, WorkersInv, WorkerAt
  <2> QED BY <1>1, <2>1 DEF W!vars, W!work, W!boss, WorkersInv, WorkersTyped, Admitted, Alone, Exclusive, AddedUp
<1>2. CASE W!Next
  <2>1. W!Step /\ worker \in W!Programs
    BY <1>2 DEF W!Next, W!Programs, W!Stats, W!Timing, W!statsCS, W!statsIN, W!statsMX, W!statsMX_ST,
                W!statsNS, W!statsNS_old, W!statsSRW, W!statsSRW_VTP, W!TimeMutualExclusion,
                W!TimeMutualExclusionSC
  <2> QED BY <2>1, StepBoss, StepGate, StepLoop, StepEnterFirst, StepEnterSecond, StepWork, StepLeave,
             StepUngate DEF W!Step, W!Worker
<1> QED BY <1>1, <1>2

LEMMA WorkersSteps == [Next]_vars => W!Next \/ UNCHANGED W!vars
BY DEF Next, vars, workers, W!vars, W!work, W!boss

LEMMA WorkersAreRight ==
  WorkersInv => W!TypeOK /\ W!ThrottleConserved /\ W!OneInside /\ W!TotalComplete
<1> SUFFICES ASSUME WorkersInv
             PROVE  W!TypeOK /\ W!ThrottleConserved /\ W!OneInside /\ W!TotalComplete
  OBVIOUS
<1>1. ASSUME NEW w \in W!Workers PROVE WorkerAt(w) /\ held[w] \in Nat /\ heldA[w] \in Nat
  BY DEF WorkersInv, WorkersTyped
<1>2. W!Inside(held) \subseteq W!Active /\ W!Inside(heldA) \subseteq W!Inside(held)
  <2>1. ASSUME NEW w \in W!Workers PROVE /\ held[w] > 0 => w \in W!Active
                                         /\ heldA[w] > 0 => held[w] > 0
    BY <1>1 DEF WorkerAt, W!Active
  <2> QED BY <2>1 DEF W!Inside
<1>3. W!TypeOK
  <2>1. W!Enters(worker) \in 0 .. (1 + Depth) /\ Depth \in Nat
    BY EntersBound DEF WorkersInv, WorkersTyped, W!WorkersAssumption
  <2>2. \A w \in W!Workers : held[w] \in 0..(1 + Depth) /\ heldA[w] \in 0..(1 + Depth)
    BY <1>1, <2>1 DEF WorkerAt
  <2>3. held \in [W!Workers -> 0..(1 + Depth)] /\ heldA \in [W!Workers -> 0..(1 + Depth)]
    BY <2>2 DEF WorkersInv, WorkersTyped
  <2> QED BY <2>3 DEF WorkersInv, WorkersTyped, WorkerLabels, W!TypeOK
<1>4. W!ThrottleConserved
  <2>1. W!Throttled(worker) => sem + Cardinality(W!Active) = MaxThread
    BY DEF WorkersInv, Admitted
  <2> QED BY Zenon, <1>2, <2>1, WorkersSize DEF W!ThrottleConserved
<1>5. W!OneInside
  <2> SUFFICES ASSUME Exclusive PROVE Cardinality(W!Inside(held)) <= 1
    BY Zenon, <1>2, WorkersSize DEF W!OneInside, Exclusive
  <2>1. CASE W!Inside(held) = {}
    BY <2>1, FS_EmptySet
  <2>2. CASE W!Inside(held) # {}
    <3>1. PICK v \in W!Inside(held) : TRUE
      BY <2>2
    <3>2. W!Inside(held) = {v}
      BY <3>1 DEF WorkersInv, Alone, W!Inside
    <3> QED BY <3>2, FS_Singleton
  <2> QED BY <2>1, <2>2
<1>6. W!TotalComplete
  <2> SUFFICES ASSUME bPc \in {"close", "done"} PROVE W!Active \cup W!Inside(held) \cup W!Inside(heldA) = {}
    BY DEF WorkersInv, AddedUp, W!TotalComplete
  <2>1. W!Active = {}
    BY <1>1 DEF WorkerAt, W!Active
  <2> QED BY <1>2, <2>1
<1> QED BY <1>3, <1>4, <1>5, <1>6

-----------------------------------------------------------------------------
(* compMP and the crews of files: types.                                   *)

CompareInv ==
  /\ C!CompareAssumption /\ C!TypeOK /\ fileSize \in Nat
  /\ fileSize <= C!MaxSize \/ \A t \in C!Threads : cPc[t] = "exit"

LEMMA MaxSizeIs ==
  ASSUME C!CompareAssumption
  PROVE  C!MaxSize \in Sizes /\ C!MaxSize \in Nat /\ \A n \in Sizes : n <= C!MaxSize
<1>1. IsFiniteSet(Sizes) /\ Sizes # {} /\ Sizes \subseteq Nat
  BY DEF C!CompareAssumption, C!IsFiniteSet, IsFiniteSet
<1>2. C!MaxSize \in Sizes /\ \A n \in Sizes : C!MaxSize >= n
  BY <1>1, GreatestNumber DEF C!MaxSize, C!Max
<1> QED BY <1>1, <1>2

LEMMA CompareInvInit == C!CompareAssumption /\ (C!Init \/ NoCompare) => CompareInv
<1> SUFFICES ASSUME C!CompareAssumption, NEW b \in {"run", "idle"}, NEW n \in {0, NThreads},
                    NEW size \in Nat, size <= C!MaxSize \/ b = "idle",
                    NEW m, m \subseteq 0..(size - 1), C!InitOf(b, n, size, m)
             PROVE  CompareInv
  <2> SUFFICES ASSUME C!CompareAssumption
               PROVE  C!Init \/ NoCompare => CompareInv
    OBVIOUS
  <2>1. Sizes \subseteq Nat /\ \A n \in Sizes : n <= C!MaxSize
    BY MaxSizeIs DEF C!CompareAssumption
  <2>2. ASSUME C!Init PROVE CompareInv
    BY <2>1, <2>2 DEF C!Init
  <2>3. ASSUME NoCompare PROVE CompareInv
    <3>1. {} \subseteq 0..(1 - 1) /\ 1 \in Nat /\ 0 \in {0, NThreads}
      OBVIOUS
    <3> QED BY <2>3, <3>1 DEF NoCompare
  <2> QED BY <2>2, <2>3
<1> USE DEF C!InitOf
<1>1. curPos \in [C!Threads -> Nat]
  <2> SUFFICES ASSUME NEW t \in C!Threads PROVE BlockSize * t \in Nat
    OBVIOUS
  <2>1. t \in Nat /\ BlockSize \in Nat
    BY DEF C!Threads, C!CompareAssumption
  <2> QED BY <2>1
<1>2. C!Unset \in Nat
  BY MaxSizeIs DEF C!Unset
<1>3. C!TypeOK
  BY <1>1, <1>2 DEF C!TypeOK, C!CompareAssumption
<1> QED BY <1>3 DEF CompareInv

LEMMA InsertKeeps ==
  ASSUME NEW loc \in 0 .. C!Unset, mmLocation \in [1..MaxMismatch -> 0 .. C!Unset], MaxMismatch \in Nat
  PROVE  C!Insert(loc) \in [1..MaxMismatch -> 0 .. C!Unset]
<1> DEFINE V == 0 .. C!Unset
<1> HIDE DEF V
<1>0. mmLocation \in [1..MaxMismatch -> V] /\ loc \in V
  BY DEF V
<1>1. mmLocation \in Seq(V) /\ Len(mmLocation) = MaxMismatch /\ loc \in V
  BY <1>0
<1> DEFINE i == C!Min(C!Larger(loc))
<1>2. CASE C!Larger(loc) = {}
  BY <1>2 DEF C!Insert
<1>3. CASE C!Larger(loc) # {}
  <2>1. i \in 1 .. MaxMismatch
    <3>1. C!Larger(loc) \subseteq Nat /\ C!Larger(loc) \subseteq 1 .. MaxMismatch
      BY DEF C!Larger
    <3>2. \E m \in C!Larger(loc) : \A n \in C!Larger(loc) : m <= n
      BY <1>3, <3>1, LeastNumber
    <3>3. i \in C!Larger(loc)
      BY <3>2 DEF C!Min
    <3> QED BY <3>1, <3>3
  <2> HIDE DEF i
  <2> DEFINE a == SubSeq(mmLocation, 1, i - 1)  b == SubSeq(mmLocation, i, Len(mmLocation))
             s == a \o <<loc>> \o b
  <2>2. a \in Seq(V) /\ Len(a) = i - 1
    BY <1>1, <2>1
  <2>3. b \in Seq(V) /\ Len(b) = MaxMismatch - i + 1
    BY <1>1, <2>1
  <2>4. s \in Seq(V) /\ Len(s) = MaxMismatch + 1
    <3> HIDE DEF a, b
    <3>1. a \o <<loc>> \in Seq(V) /\ Len(a \o <<loc>>) = i
      BY <1>1, <2>1, <2>2
    <3> QED BY <2>1, <2>3, <3>1
  <2>5. C!Insert(loc) = SubSeq(s, 1, MaxMismatch)
    BY <1>3 DEF C!Insert, C!InsertAt, i
  <2> HIDE DEF s
  <2>6. SubSeq(s, 1, MaxMismatch) \in [1 .. MaxMismatch -> V]
    <3>1. \A j \in 1 .. MaxMismatch : s[j] \in V
      BY <2>4
    <3>2. SubSeq(s, 1, MaxMismatch) = [j \in 1 .. MaxMismatch |-> s[j]]
      BY <2>4
    <3> QED BY <3>1, <3>2
  <2> QED BY <2>5, <2>6 DEF V
<1> QED BY <1>2, <1>3

\* The next mismatch of a block is one of its bytes and of the file.
LEMMA AheadIs ==
  ASSUME CompareInv, NEW t \in C!Threads, C!Ahead(t) # {}
  PROVE  /\ C!Min(C!Ahead(t)) \in Nat /\ C!Min(C!Ahead(t)) < BlockSize
         /\ curPos[t] + C!Min(C!Ahead(t)) \in 0 .. (fileSize - 1)
<1> DEFINE o == C!Min(C!Ahead(t))
<1>1. curPos[t] \in Nat /\ offset[t] \in Nat /\ BlockSize \in Nat /\ fileSize \in Nat
  BY DEF CompareInv, C!TypeOK, C!CompareAssumption
<1>2. C!nBytes(t) \in Int /\ C!nBytes(t) <= BlockSize
  <2> DEFINE d == fileSize - curPos[t]
  <2>1. d \in Int
    BY <1>1
  <2>2. C!nBytes(t) = C!Min({BlockSize, d})
    BY DEF C!nBytes
  <2> HIDE DEF d
  <2>3. \E x \in {BlockSize, d} : \A y \in {BlockSize, d} : x <= y
    BY <1>1, <2>1
  <2>4. C!Min({BlockSize, d}) \in {BlockSize, d} /\ C!Min({BlockSize, d}) <= BlockSize
    BY <2>3 DEF C!Min
  <2> QED BY <1>1, <2>1, <2>2, <2>4
<1>3. C!Ahead(t) \subseteq Nat
  BY <1>1, <1>2 DEF C!Ahead
<1>4. \E m \in C!Ahead(t) : \A n \in C!Ahead(t) : m <= n
  BY <1>3, LeastNumber
<1>5. o \in C!Ahead(t)
  BY <1>4 DEF C!Min
<1> HIDE DEF o
<1>6. o \in offset[t] .. (C!nBytes(t) - 1) /\ curPos[t] + o \in misMatches
  BY <1>5 DEF C!Ahead
<1>7. o \in Nat /\ o < BlockSize
  BY <1>1, <1>2, <1>3, <1>5, <1>6
<1> QED BY <1>6, <1>7 DEF CompareInv, C!TypeOK, o

LEMMA CompareInvStep == CompareInv /\ (C!Next \/ UNCHANGED C!vars) => CompareInv'
<1> SUFFICES ASSUME CompareInv, C!Next \/ UNCHANGED C!vars PROVE CompareInv'
  OBVIOUS
<1> USE DEF CompareInv, C!TypeOK
<1>1. CASE UNCHANGED C!vars
  BY <1>1 DEF C!vars, C!thread
<1>2. CASE C!_tmain
  BY <1>2 DEF C!_tmain, C!thread
<1>3. CASE C!ConventionalFileAccess
  BY <1>3 DEF C!ConventionalFileAccess, C!thread
<1>4. ASSUME NEW t \in C!Threads, C!ReadCompareTest(t) PROVE CompareInv'
  <2>1. 0 \in 0..BlockSize
    BY DEF C!CompareAssumption
  <2>2. cPc[t] # "exit"
    BY <1>4 DEF C!ReadCompareTest
  <2> QED BY <1>4, <2>1, <2>2 DEF C!ReadCompareTest, C!Goto
<1>5. ASSUME NEW t \in C!Threads, C!ReadCompareSame(t) PROVE CompareInv'
  <2> DEFINE p == curPos[t] + BlockSize * nThreads
  <2>1. BlockSize * nThreads \in Nat
    <3>1. BlockSize \in Nat /\ nThreads \in Nat
      BY DEF C!CompareAssumption
    <3> QED BY <3>1
  <2>2. p \in Nat
    BY <2>1
  <2>3. curPos' = [curPos EXCEPT ![t] = p] /\ cPc[t] # "exit"
    BY <1>5 DEF C!ReadCompareSame
  <2> HIDE DEF p
  <2> QED BY <1>5, <2>2, <2>3 DEF C!ReadCompareSame, C!Goto
<1>6. ASSUME NEW t \in C!Threads, C!LogMismatchByte(t) PROVE CompareInv'
  <2> DEFINE o == C!Min(C!Ahead(t))  l == curPos[t] + o
  <2>1. o \in Nat /\ o < BlockSize /\ l \in 0 .. (fileSize - 1) /\ cPc[t] # "exit" /\ BlockSize \in Nat
    BY <1>6, AheadIs DEF C!LogMismatchByte, C!CompareAssumption
  <2>2. /\ mmLocation' = C!Insert(l) /\ offset' = [offset EXCEPT ![t] = o + 1]
        /\ UNCHANGED <<nThreads, fileSize, misMatches, cPc, curPos, reported, cBoss>>
    BY <1>6 DEF C!LogMismatchByte
  <2> HIDE DEF o, l
  <2>3. l \in 0 .. C!Unset
    <3>1. fileSize <= C!MaxSize /\ C!MaxSize \in Nat
      BY <2>1, MaxSizeIs
    <3> QED BY <2>1, <3>1 DEF C!Unset
  <2>4. C!Insert(l) \in [1..MaxMismatch -> 0 .. C!Unset]
    BY <2>3, InsertKeeps DEF C!CompareAssumption
  <2>5. o + 1 \in 0..BlockSize
    BY <2>1
  <2> QED BY <2>2, <2>4, <2>5
<1> QED BY <1>1, <1>2, <1>3, <1>4, <1>5, <1>6 DEF C!Next, C!ReadCompare

LEMMA CompareSteps == [Next]_vars => C!Next \/ UNCHANGED C!vars
BY DEF Next, vars, compare, C!vars, C!thread

-----------------------------------------------------------------------------

CrewInv ==
  /\ F!CrewAssumption /\ F!TypeOK /\ at \in Nat
  /\ crew \in F!Programs => Len(contents) \in 1 .. NFiles

LEMMA CrewInvInit == F!CrewAssumption /\ (F!Init \/ NoCrew) => CrewInv
<1> SUFFICES ASSUME F!CrewAssumption, NEW p \in F!Programs \cup {"none"}, NEW c, F!InitOf(p, c),
                    p \in F!Programs => Len(c) \in 1 .. NFiles
             PROVE  CrewInv
  <2> SUFFICES ASSUME F!CrewAssumption
               PROVE  F!Init \/ NoCrew => CrewInv
    OBVIOUS
  <2>1. ASSUME F!Init PROVE CrewInv
    <3>0. PICK n \in F!Files : \E p \in F!Programs, c \in [1..n -> Contents] : F!InitOf(p, c)
      BY <2>1 DEF F!Init
    <3>1. PICK p \in F!Programs, c \in [1..n -> Contents] : F!InitOf(p, c)
      BY <3>0
    <3>2. n \in 1 .. NFiles /\ n \in Nat
      BY DEF F!Files, F!CrewAssumption
    <3>3. Len(c) = n
      BY <3>2
    <3> QED BY <3>1, <3>2, <3>3
  <2>2. ASSUME NoCrew PROVE CrewInv
    BY <2>2 DEF NoCrew, F!Programs, F!WordCounts
  <2> QED BY <2>1, <2>2
<1>1. 1 \in 0..NFiles
  BY DEF F!CrewAssumption
<1> QED BY <1>1 DEF F!InitOf, CrewInv, F!TypeOK

\* The boss's index stays in range.
LEMMA IndexStays ==
  \A n \in 1 .. NFiles, a \in Nat : \A b :
    /\ NFiles \in Nat /\ a <= NFiles
    /\ (a < n /\ b = a + 1) \/ b = a \/ b = 1 \/ b = n \/ (a + MaxWait <= n /\ b = a + MaxWait /\ MaxWait \in Nat)
    => b \in 0 .. NFiles /\ b \in Nat
OBVIOUS

LEMMA CrewInvStep == CrewInv /\ (F!Next \/ UNCHANGED F!vars) => CrewInv'
<1> SUFFICES ASSUME CrewInv, F!Next \/ UNCHANGED F!vars PROVE CrewInv'
  OBVIOUS
<1> USE DEF CrewInv, F!TypeOK, F!Goto
<1>0. /\ NFiles \in Nat \ {0} /\ MaxWait \in Nat /\ F!Files = 1 .. NFiles /\ F!nFiles = Len(contents)
  BY DEF F!CrewAssumption, F!Files, F!nFiles
<1>1. CASE UNCHANGED F!vars
  BY <1>1 DEF F!vars, F!crew
<1>2. ASSUME NEW f \in F!Files, F!wcfunc(f) PROVE CrewInv'
  BY <1>2 DEF F!wcfunc
<1>3. ASSUME NEW f \in F!Files, F!wcfuncStore(f) PROVE CrewInv'
  BY <1>3 DEF F!wcfuncStore
<1>4. ASSUME NEW f \in F!Files, F!GrepStart(f) PROVE CrewInv'
  BY <1>4 DEF F!GrepStart
<1>5. ASSUME NEW f \in F!Files, F!GrepSearch(f) PROVE CrewInv'
  BY <1>5 DEF F!GrepSearch
<1>6. ASSUME crew \in F!Programs, F!BossCreate PROVE CrewInv'
  <2> DEFINE n == Len(contents)
  <2>1. n \in 1 .. NFiles /\ at \in Nat /\ at <= NFiles /\ NFiles \in Nat
    BY <1>0, <1>6
  <2>2. at' \in 0 .. NFiles /\ at' \in Nat /\ contents' = contents
    <3> HIDE DEF n
    <3>1. F!nFiles = n
      BY <1>0 DEF n
    <3>2. ((at < n /\ at' = at + 1) \/ at' = n \/ at' = 1) /\ contents' = contents
      BY <1>6, <3>1 DEF F!BossCreate
    <3> QED BY Zenon, <2>1, <3>2, IndexStays
  <2> QED BY <2>2, <1>6 DEF F!BossCreate
<1>7. ASSUME crew \in F!Programs, F!BossCalls PROVE CrewInv'
  <2> DEFINE n == Len(contents)
  <2>1. n \in 1 .. NFiles /\ at \in Nat /\ at <= NFiles /\ NFiles \in Nat
    BY <1>0, <1>7
  <2>2. at' \in 0 .. NFiles /\ at' \in Nat /\ contents' = contents
    <3> HIDE DEF n
    <3>1. F!nFiles = n
      BY <1>0 DEF n
    <3>2. ((at < n /\ at' = at + 1) \/ at' = at) /\ contents' = contents
      BY <1>7, <3>1 DEF F!BossCalls
    <3> QED BY Zenon, <2>1, <3>2, IndexStays
  <2> QED BY <2>2, <1>7 DEF F!BossCalls
<1>8. ASSUME crew \in F!Programs, F!BossAdds PROVE CrewInv'
  <2> DEFINE n == Len(contents)
  <2>1. n \in 1 .. NFiles /\ at \in Nat /\ at <= NFiles /\ NFiles \in Nat
    BY <1>0, <1>8
  <2>2. at' \in 0 .. NFiles /\ at' \in Nat /\ contents' = contents
    <3> HIDE DEF n
    <3>1. F!nFiles = n
      BY <1>0 DEF n
    <3>2. ((at < n /\ at' = at + 1) \/ at' = at) /\ contents' = contents
      BY <1>8, <3>1 DEF F!BossAdds
    <3> QED BY Zenon, <2>1, <3>2, IndexStays
  <2> QED BY <2>2, <1>8 DEF F!BossAdds, F!crew
<1>9. ASSUME crew \in F!Programs, F!GrepTooMany PROVE CrewInv'
  BY <1>0, <1>9 DEF F!GrepTooMany, F!crew
<1>10. ASSUME crew \in F!Programs, F!GrepListAny PROVE CrewInv'
  <2>1. at \in F!Files
    <3>1. F!Signalled # {}
      BY <1>10 DEF F!GrepListAny
    <3> QED BY <1>0, <3>1 DEF F!Signalled
  <2>2. at - 1 \in 0 .. NFiles /\ at - 1 \in Nat
    BY <1>0, <2>1
  <2>3. args' \in [F!Files -> [handle : F!Files, name : F!Files, temp : F!Files]]
    BY <1>10, <2>1 DEF F!GrepListAny, F!Compact
  <2>4. at' \in 0 .. NFiles /\ at' \in Nat
    BY <1>10, <2>2 DEF F!GrepListAny
  <2> QED BY <1>10, <2>3, <2>4 DEF F!GrepListAny, F!crew
<1>11. ASSUME crew \in F!Programs, F!GrepWaitChunk PROVE CrewInv'
  <2> DEFINE n == Len(contents)
  <2>1. n \in 1 .. NFiles /\ at \in Nat /\ at <= NFiles /\ NFiles \in Nat
    BY <1>0, <1>11
  <2>2. at' \in 0 .. NFiles /\ at' \in Nat /\ contents' = contents
    <3> HIDE DEF n
    <3>1. F!nFiles = n
      BY <1>0 DEF n
    <3>2. ((at + MaxWait <= n /\ at' = at + MaxWait /\ MaxWait \in Nat) \/ at' = 1) /\ contents' = contents
      BY <1>0, <1>11, <3>1 DEF F!GrepWaitChunk
    <3> QED BY Zenon, <2>1, <3>2, IndexStays
  <2> QED BY <2>2, <1>11 DEF F!GrepWaitChunk, F!crew
<1>12. ASSUME crew \in F!Programs, F!GrepList PROVE CrewInv'
  <2> DEFINE n == Len(contents)
  <2>1. n \in 1 .. NFiles /\ at \in Nat /\ at <= NFiles /\ NFiles \in Nat
    BY <1>0, <1>12
  <2>2. at' \in 0 .. NFiles /\ at' \in Nat /\ contents' = contents
    <3> HIDE DEF n
    <3>1. F!nFiles = n
      BY <1>0 DEF n
    <3>2. ((at < n /\ at' = at + 1) \/ at' = at) /\ contents' = contents
      BY <1>12, <3>1 DEF F!GrepList
    <3> QED BY Zenon, <2>1, <3>2, IndexStays
  <2> QED BY <2>2, <1>12 DEF F!GrepList, F!crew
<1>13. CASE F!Next
  <2>1. crew \in F!Programs /\ F!Step
    BY <1>13 DEF F!Next, F!Programs, F!WordCounts, F!wcST, F!wcMT, F!wcMTxx, F!wcMTMM, F!wcMT_VTP,
                 F!grepMT, F!grepMP
  <2> QED BY <1>2, <1>3, <1>4, <1>5, <1>6, <1>7, <1>8, <1>9, <1>10, <1>11, <1>12, <2>1
          DEF F!Step, F!Boss, F!Worker
<1> QED BY <1>1, <1>13

LEMMA CrewSteps == [Next]_vars => F!Next \/ UNCHANGED F!vars
BY DEF Next, vars, files, F!vars, F!crew

-----------------------------------------------------------------------------
(* What a queue of messages holds.                                         *)

Message == [type : Int, len : Nat, seq : Nat]
\* Of every message the room it takes, and whether it counts.
Room(s) == [i \in 1 .. Len(s) |-> s[i].len + LongSize]
Counts1(s) == [i \in 1 .. Len(s) |-> IF s[i].len > 0 THEN 1 ELSE 0]
Holds(s) == SumOf(1 .. Len(s), Room(s))
Counting(s) == SumOf(1 .. Len(s), Counts1(s))

\* The sum that the model adds up.
LEMMA BytesIs ==
  ASSUME NEW s \in Seq(Message), LongSize \in Nat
  PROVE  Q!FoldSeq(LAMBDA m, sum : m.len + LongSize + sum, 0, s) = Holds(s)
<1> DEFINE D == 1 .. Len(s)
           Adds(g) == g = [T \in SUBSET D |-> IF T = {} THEN 0
                                               ELSE s[Chosen(T)].len + LongSize + g[T \ {Chosen(T)}]]
           c == CHOOSE g : Adds(g)
<1>0. DOMAIN s = D /\ IsFiniteSet(D)
  BY FS_Interval
<1>1. Q!FoldSeq(LAMBDA m, sum : m.len + LongSize + sum, 0, s) = c[D]
  BY <1>0 DEF Q!FoldSeq, Q!FoldFunction, Q!FoldFunctionOnSet, Q!MapThenFoldSet, Chosen
<1>2. ASSUME NEW g PROVE Adds(g) <=> Sums(g, Room(s), D)
  <2>1. ASSUME NEW T \in SUBSET D, T # {} PROVE Room(s)[Chosen(T)] = s[Chosen(T)].len + LongSize
    <3>1. Chosen(T) \in D
      BY <2>1, ChosenIn
    <3> QED BY <3>1 DEF Room
  <2> DEFINE a(T) == IF T = {} THEN 0 ELSE s[Chosen(T)].len + LongSize + g[T \ {Chosen(T)}]
             b(T) == IF T = {} THEN 0 ELSE Room(s)[Chosen(T)] + g[T \ {Chosen(T)}]
  <2>2. \A T \in SUBSET D : a(T) = b(T)
    BY <2>1
  <2>3. [T \in SUBSET D |-> a(T)] = [T \in SUBSET D |-> b(T)]
    BY <2>2
  <2>4. Adds(g) <=> g = [T \in SUBSET D |-> a(T)]
    OBVIOUS
  <2>5. Sums(g, Room(s), D) <=> g = [T \in SUBSET D |-> b(T)]
    BY DEF Sums, AddUp
  <2> HIDE DEF Adds
  <2> QED BY <2>3, <2>4, <2>5
<1>3. \E g : Adds(g)
  BY <1>0, <1>2, SumIs
<1>4. Adds(c)
  BY <1>3
<1> HIDE DEF c, Adds
<1>5. Sums(c, Room(s), D)
  BY <1>2, <1>4
<1>6. SumOf(D, Room(s)) = c[D]
  BY <1>0, <1>5, SumIs
<1> QED BY <1>1, <1>6 DEF Holds

LEMMA HoldsNumber ==
  ASSUME NEW s \in Seq(Message), LongSize \in Nat
  PROVE  Holds(s) \in Nat /\ Counting(s) \in Nat
<1>1. IsFiniteSet(1 .. Len(s))
  BY FS_Interval
<1>2. \A i \in 1 .. Len(s) : Room(s)[i] \in Nat /\ Counts1(s)[i] \in Nat
  <2> TAKE i \in 1 .. Len(s)
  <2>0. s[i] \in Message
    OBVIOUS
  <2>1. s[i].len \in Nat
    BY <2>0 DEF Message
  <2> QED BY <2>1 DEF Room, Counts1
<1> QED BY <1>1, <1>2, SumNumber DEF Holds, Counting

\* No message takes no room.
LEMMA HoldsNothing == Holds(<<>>) = 0 /\ Counting(<<>>) = 0
<1>1. 1 .. Len(<<>>) = {}
  OBVIOUS
<1> QED BY <1>1, FS_EmptySet, SumFirst DEF Holds, Counting

\* A message more takes its room and that of its type.
LEMMA HoldsMore ==
  ASSUME NEW s \in Seq(Message), NEW m \in Message, LongSize \in Nat
  PROVE  /\ Append(s, m) \in Seq(Message)
         /\ Holds(Append(s, m)) = (m.len + LongSize) + Holds(s)
         /\ Counting(Append(s, m)) = (IF m.len > 0 THEN 1 ELSE 0) + Counting(s)
<1> DEFINE r == Append(s, m)  n == Len(s)
<1>1. r \in Seq(Message) /\ Len(r) = n + 1 /\ n \in Nat
  OBVIOUS
<1>2. r[n + 1] = m /\ \A i \in 1 .. n : r[i] = s[i]
  OBVIOUS
<1> HIDE DEF r
<1>3. \A i \in 1 .. n + 1 : Room(r)[i] \in Nat /\ Counts1(r)[i] \in Nat
  <2> TAKE i \in 1 .. n + 1
  <2>0. r[i] \in Message
    BY <1>1
  <2>1. r[i].len \in Nat
    BY <2>0 DEF Message
  <2> QED BY <1>1, <2>1 DEF Room, Counts1
<1>4. \A i \in 1 .. n : Room(s)[i] = Room(r)[i] /\ Counts1(s)[i] = Counts1(r)[i]
  BY <1>1, <1>2 DEF Room, Counts1
<1>5. Room(r)[n + 1] = m.len + LongSize /\ Counts1(r)[n + 1] = IF m.len > 0 THEN 1 ELSE 0
  BY <1>1, <1>2 DEF Room, Counts1
<1>6. SumOf(1 .. n + 1, Room(r)) = Room(r)[n + 1] + SumOf(1 .. n, Room(s))
  BY Zenon, <1>1, <1>3, <1>4, SumMore
<1>7. SumOf(1 .. n + 1, Counts1(r)) = Counts1(r)[n + 1] + SumOf(1 .. n, Counts1(s))
  BY Zenon, <1>1, <1>3, <1>4, SumMore
<1> QED BY <1>1, <1>5, <1>6, <1>7 DEF Holds, Counting, r

\* The messages that are left when one is taken.
LEMMA RemoveAtIs ==
  ASSUME NEW T, NEW s \in Seq(T), NEW i \in 1 .. Len(s)
  PROVE  /\ Q!RemoveAt(s, i) \in Seq(T) /\ Len(Q!RemoveAt(s, i)) = Len(s) - 1
         /\ \A j \in 1 .. Len(s) - 1 : Q!RemoveAt(s, i)[j] = IF j < i THEN s[j] ELSE s[j + 1]
<1> DEFINE n == Len(s)  a == SubSeq(s, 1, i - 1)  b == SubSeq(s, i + 1, n)  r == a \o b
<1>1. n \in Nat /\ i \in 1 .. n
  OBVIOUS
<1>2. a \in Seq(T) /\ Len(a) = i - 1 /\ \A j \in 1 .. i - 1 : a[j] = s[j]
  BY <1>1
<1>3. b \in Seq(T) /\ Len(b) = n - i /\ \A j \in 1 .. n - i : b[j] = s[i + j]
  BY <1>1
<1>4. Q!RemoveAt(s, i) = r
  BY DEF Q!RemoveAt
<1> HIDE DEF a, b, n
<1>5. r \in Seq(T) /\ Len(r) = n - 1
  <2>1. a \in Seq(T) /\ b \in Seq(T)
    BY <1>2, <1>3
  <2>2. r \in Seq(T) /\ Len(r) = Len(a) + Len(b)
    BY <2>1, ConcatProperties
  <2>3. Len(a) + Len(b) = n - 1
    BY <1>1, <1>2, <1>3
  <2> QED BY <2>2, <2>3
<1>6. ASSUME NEW j \in 1 .. n - 1 PROVE r[j] = IF j < i THEN s[j] ELSE s[j + 1]
  <2>1. CASE j < i
    <3>1. j \in 1 .. Len(a)
      BY <1>1, <1>2, <2>1
    <3>2. r[j] = a[j]
      BY <1>2, <1>3, <3>1
    <3> QED BY <1>1, <1>2, <2>1, <3>2
  <2>2. CASE ~(j < i)
    <3>1. j \in 1 .. Len(a) + Len(b) /\ ~(j <= Len(a)) /\ j - Len(a) = j - i + 1
      BY <1>1, <1>2, <1>3, <2>2
    <3>2. r[j] = b[j - Len(a)]
      BY <1>2, <1>3, <3>1
    <3>3. j - i + 1 \in 1 .. n - i /\ i + (j - i + 1) = j + 1
      BY <1>1, <2>2
    <3> QED BY <1>3, <2>2, <3>1, <3>2, <3>3
  <2> QED BY <2>1, <2>2
<1> QED BY <1>4, <1>5, <1>6 DEF n

LEMMA HoldsLess ==
  ASSUME NEW s \in Seq(Message), NEW i \in 1 .. Len(s), LongSize \in Nat
  PROVE  /\ Q!RemoveAt(s, i) \in Seq(Message) /\ s[i] \in Message
         /\ Holds(s) = (s[i].len + LongSize) + Holds(Q!RemoveAt(s, i))
         /\ Counting(s) = (IF s[i].len > 0 THEN 1 ELSE 0) + Counting(Q!RemoveAt(s, i))
<1> DEFINE r == Q!RemoveAt(s, i)  n == Len(s)
<1>1. r \in Seq(Message) /\ Len(r) = n - 1 /\ n \in Nat /\ i \in 1 .. n
  BY RemoveAtIs
<1>2. \A j \in 1 .. n - 1 : r[j] = IF j < i THEN s[j] ELSE s[j + 1]
  BY RemoveAtIs
<1> HIDE DEF r
<1>3. \A j \in 1 .. n : Room(s)[j] \in Nat /\ Counts1(s)[j] \in Nat
  <2> TAKE j \in 1 .. n
  <2>0. s[j] \in Message
    OBVIOUS
  <2>1. s[j].len \in Nat
    BY <2>0 DEF Message
  <2> QED BY <2>1 DEF Room, Counts1
<1>4. ASSUME NEW j \in 1 .. n - 1
      PROVE  /\ Room(r)[j] = IF j < i THEN Room(s)[j] ELSE Room(s)[j + 1]
             /\ Counts1(r)[j] = IF j < i THEN Counts1(s)[j] ELSE Counts1(s)[j + 1]
  <2>1. j \in 1 .. n /\ j + 1 \in 1 .. n /\ j \in 1 .. Len(r)
    BY <1>1
  <2>2. r[j] = IF j < i THEN s[j] ELSE s[j + 1]
    BY <1>2
  <2> QED BY <2>1, <2>2 DEF Room, Counts1
<1>5. Without(i, n, Room(s), Room(r)) /\ Without(i, n, Counts1(s), Counts1(r))
  BY <1>4 DEF Without
<1>6. SumOf(1 .. n, Room(s)) = Room(s)[i] + SumOf(1 .. n - 1, Room(r))
  BY <1>1, <1>3, <1>5, SumLess
<1>7. SumOf(1 .. n, Counts1(s)) = Counts1(s)[i] + SumOf(1 .. n - 1, Counts1(r))
  BY <1>1, <1>3, <1>5, SumLess
<1>8. Room(s)[i] = s[i].len + LongSize /\ Counts1(s)[i] = IF s[i].len > 0 THEN 1 ELSE 0
  BY DEF Room, Counts1
<1>9. s[i] \in Message
  OBVIOUS
<1> QED BY <1>1, <1>6, <1>7, <1>8, <1>9 DEF Holds, Counting, r

-----------------------------------------------------------------------------
(* Every queue is as typed, and the counts cover what the queues hold.     *)

QueueSet ==
  [key : Nat, busy : BOOLEAN, msgs : Seq(Message), cbytes : Nat, qnum : Nat,
   qbytes : Nat, mode : SUBSET {"r", "w"}]
Covered(r) == Holds(r.msgs) <= r.cbytes /\ Counting(r.msgs) <= r.qnum
CountsOf(table) == [q \in Q!Queues |-> table[q].cbytes]
TableRight(table, current, bytes) ==
  /\ table \in [Q!Queues -> QueueSet] /\ current \in Nat /\ bytes \in Int
  /\ \A q \in Q!Queues : Covered(table[q])
  /\ SumOf(Q!Queues, CountsOf(table)) <= bytes
TableInv == TableRight(mq, q_current, b_current)
\* The keys of the queues that calls look for.
KeysApart(table) ==
  \A q, r \in Q!Queues : q # r /\ table[q].key # 0 /\ table[q].key # Q!IPC_PRIVATE
                           => table[q].key # table[r].key

LEMMA QueuesFinite == Q!QueuesAssumption => IsFiniteSet(Q!Queues) /\ 1 \in Q!Queues /\ Q!Queues \subseteq Nat
<1> SUFFICES ASSUME MSG_MAX_NUMBER_QUEUES \in Nat \ {0}
             PROVE  IsFiniteSet(Q!Queues) /\ 1 \in Q!Queues /\ Q!Queues \subseteq Nat
  BY DEF Q!QueuesAssumption
<1>1. IsFiniteSet(1 .. MSG_MAX_NUMBER_QUEUES)
  BY FS_Interval
<1> QED BY <1>1 DEF Q!Queues

\* The table after the change of one queue.
LEMMA TableChange ==
  ASSUME Q!QueuesAssumption, NEW table, NEW current, NEW bytes, TableRight(table, current, bytes),
         NEW q \in Q!Queues, NEW r \in QueueSet, Covered(r),
         NEW newCurrent \in Nat, NEW newBytes \in Int,
         newBytes >= bytes + r.cbytes - table[q].cbytes
  PROVE  TableRight([table EXCEPT ![q] = r], newCurrent, newBytes)
<1> DEFINE new == [table EXCEPT ![q] = r]
           T == Q!Queues
<1>1. table \in [T -> QueueSet] /\ bytes \in Int /\ SumOf(T, CountsOf(table)) <= bytes
      /\ \A x \in T : Covered(table[x])
  BY DEF TableRight
<1>2. new \in [T -> QueueSet] /\ new[q] = r /\ \A x \in T \ {q} : new[x] = table[x]
  BY <1>1
<1> HIDE DEF new
<1>3. \A x \in T : Covered(new[x])
  BY <1>1, <1>2
<1>4. \A x \in T : CountsOf(table)[x] = table[x].cbytes /\ CountsOf(new)[x] = new[x].cbytes
  BY DEF CountsOf
<1>5. \A x \in T : table[x] \in QueueSet /\ new[x] \in QueueSet
  BY <1>1, <1>2
<1>6. \A x \in T : table[x].cbytes \in Nat /\ new[x].cbytes \in Nat
  BY <1>5 DEF QueueSet
<1>7. IsFiniteSet(T)
  BY QueuesFinite
<1>8. /\ SumOf(T, CountsOf(table)) \in Nat /\ SumOf(T, CountsOf(new)) \in Nat
      /\ SumOf(T, CountsOf(new)) + CountsOf(table)[q] = SumOf(T, CountsOf(table)) + CountsOf(new)[q]
  <2>1. \A x \in T : CountsOf(table)[x] \in Nat /\ CountsOf(new)[x] \in Nat
    BY <1>4, <1>6
  <2>2. \A x \in T \ {q} : CountsOf(new)[x] = CountsOf(table)[x]
    BY <1>2, <1>4
  <2> HIDE DEF T
  <2> QED BY <1>7, <2>1, <2>2, SumChange DEF T
<1>9. SumOf(T, CountsOf(new)) <= newBytes
  <2> DEFINE a == SumOf(T, CountsOf(table))  b == SumOf(T, CountsOf(new))
             x == table[q].cbytes  y == r.cbytes
  <2>1. a \in Nat /\ b \in Nat /\ b + x = a + y /\ x \in Nat /\ y \in Nat
    BY <1>2, <1>4, <1>6, <1>8
  <2>2. a <= bytes /\ newBytes >= bytes + y - x /\ bytes \in Int
    BY <1>1
  <2> HIDE DEF a, b, x, y
  <2>3. b <= newBytes
    BY <2>1, <2>2
  <2> QED BY <2>3 DEF b
<1> QED BY <1>2, <1>3, <1>9 DEF TableRight, new

\* The counts of a right table, one of each queue and one of the system.
LEMMA TableNumbers ==
  ASSUME Q!QueuesAssumption, NEW table, NEW current, NEW bytes, TableRight(table, current, bytes)
  PROVE  /\ bytes \in Nat
         /\ \A q \in Q!Queues : table[q] \in QueueSet /\ table[q].cbytes \in Nat
                                /\ table[q].qnum \in Nat /\ table[q].msgs \in Seq(Message)
<1>1. \A q \in Q!Queues : table[q] \in QueueSet
  BY DEF TableRight
<1>2. \A q \in Q!Queues : table[q].cbytes \in Nat /\ table[q].qnum \in Nat /\ table[q].msgs \in Seq(Message)
  BY <1>1 DEF QueueSet
<1>3. SumOf(Q!Queues, CountsOf(table)) \in Nat
  <2>1. \A q \in Q!Queues : CountsOf(table)[q] \in Nat
    BY <1>2 DEF CountsOf
  <2> QED BY <2>1, QueuesFinite, SumNumber
<1>4. bytes \in Nat
  BY <1>3 DEF TableRight
<1> QED BY <1>1, <1>2, <1>4

\* No queue.
LEMMA NoQueueIs == Q!NoQueue \in QueueSet /\ Covered(Q!NoQueue)
<1>1. <<>> \in Seq(Message) /\ {} \in SUBSET {"r", "w"} /\ 0 \in Nat
  OBVIOUS
<1>2. Q!NoQueue \in QueueSet
  BY <1>1 DEF Q!NoQueue, QueueSet
<1>3. Holds(Q!NoQueue.msgs) = 0 /\ Counting(Q!NoQueue.msgs) = 0 /\ Q!NoQueue.cbytes = 0 /\ Q!NoQueue.qnum = 0
  BY HoldsNothing DEF Q!NoQueue
<1>4. Covered(Q!NoQueue)
  BY <1>3 DEF Covered
<1> QED BY <1>2, <1>4

LEMMA KeepKeys ==
  ASSUME NEW table, NEW new, KeysApart(table), \A q \in Q!Queues : new[q].key = table[q].key
  PROVE  KeysApart(new)
BY DEF KeysApart

-----------------------------------------------------------------------------
(* The threads that make calls, and the call that each one is in.          *)

Waits == {"e_qne", "e_qnf", "e_q_not_busy"}
Pending(c) ==
  /\ c.op \in {"msgsnd", "msgrcv", "msgctl"} /\ Q!GoodCall(c) /\ c.q \in Q!Queues
ThreadsTyped ==
  /\ guard \in Q!Threads \cup {Q!Free}
  /\ qAt \in [Q!Threads -> Waits \cup {"idle", "awake", "over"}]
  /\ made \in [Q!Threads -> Nat] /\ got \in [Q!Threads -> Seq(Message)]
  /\ DOMAIN call = Q!Threads /\ DOMAIN result = Q!Threads
InCalls ==
  \A t \in Q!Threads : /\ qAt[t] \in {"idle", "over"} <=> call[t] = Q!NoCall
                       /\ call[t] # Q!NoCall => Pending(call[t])
ThreadsInv == ThreadsTyped /\ InCalls
QueuesInv == Q!QueuesAssumption /\ TableInv /\ KeysApart(mq) /\ ThreadsInv

\* Who waits is awake after a broadcast, and others stay.
LEMMA BroadcastIs ==
  ASSUME ThreadsTyped, NEW cvs \in SUBSET Waits
  PROVE  /\ Q!Broadcast(cvs) \in [Q!Threads -> Waits \cup {"idle", "awake", "over"}]
         /\ \A u \in Q!Threads : Q!Broadcast(cvs)[u] \in {"idle", "over"} <=> qAt[u] \in {"idle", "over"}
BY DEF Q!Broadcast, ThreadsTyped, Waits

\* The return of a call.
LEMMA ReturnsKeep ==
  ASSUME ThreadsInv, NEW t \in Q!Threads, NEW v, NEW cvs \in SUBSET Waits, Q!Returns(t, v, cvs),
         guard' \in Q!Threads \cup {Q!Free}, got' \in [Q!Threads -> Seq(Message)]
  PROVE  ThreadsInv'
<1> USE DEF ThreadsInv
<1> DEFINE b == Q!Broadcast(cvs)
<1>1. /\ b \in [Q!Threads -> Waits \cup {"idle", "awake", "over"}]
      /\ \A u \in Q!Threads : b[u] \in {"idle", "over"} <=> qAt[u] \in {"idle", "over"}
  BY BroadcastIs
<1>2. /\ qAt' = [b EXCEPT ![t] = "idle"] /\ call' = [call EXCEPT ![t] = Q!NoCall]
      /\ made' = [made EXCEPT ![t] = @ + 1] /\ result' = [result EXCEPT ![t] = v]
  BY DEF Q!Returns
<1> HIDE DEF b
<1>3. qAt' \in [Q!Threads -> Waits \cup {"idle", "awake", "over"}]
  BY <1>1, <1>2
<1>4. made' \in [Q!Threads -> Nat] /\ DOMAIN call' = Q!Threads /\ DOMAIN result' = Q!Threads
  BY <1>2 DEF ThreadsTyped
<1>5. ThreadsTyped'
  BY <1>3, <1>4 DEF ThreadsTyped
<1>6. InCalls'
  <2> SUFFICES ASSUME NEW u \in Q!Threads
               PROVE  /\ qAt'[u] \in {"idle", "over"} <=> call'[u] = Q!NoCall
                      /\ call'[u] # Q!NoCall => Pending(call'[u])
    BY DEF InCalls
  <2>1. CASE u = t
    <3>1. qAt'[u] = "idle" /\ call'[u] = Q!NoCall
      BY <1>1, <1>2, <2>1 DEF ThreadsTyped
    <3> QED BY <3>1
  <2>2. CASE u # t
    <3>1. qAt'[u] = b[u] /\ call'[u] = call[u]
      BY <1>1, <1>2, <2>2 DEF ThreadsTyped
    <3> QED BY <1>1, <3>1 DEF InCalls
  <2> QED BY <2>1, <2>2
<1> QED BY <1>5, <1>6

\* A wait within a call.
LEMMA SleepsKeep ==
  ASSUME ThreadsInv, NEW t \in Q!Threads, NEW c, Pending(c), NEW cv \in Waits,
         Q!Sleeps(t, c, cv, {}), got' \in [Q!Threads -> Seq(Message)]
  PROVE  ThreadsInv'
<1> USE DEF ThreadsInv
<1> DEFINE b == Q!Broadcast({})
<1>1. /\ b \in [Q!Threads -> Waits \cup {"idle", "awake", "over"}]
      /\ \A u \in Q!Threads : b[u] \in {"idle", "over"} <=> qAt[u] \in {"idle", "over"}
  BY BroadcastIs
<1>2. /\ qAt' = [b EXCEPT ![t] = cv] /\ call' = [call EXCEPT ![t] = c]
      /\ UNCHANGED <<made, result, guard>>
  BY DEF Q!Sleeps
<1> HIDE DEF b
<1>3. qAt' \in [Q!Threads -> Waits \cup {"idle", "awake", "over"}]
  BY <1>1, <1>2
<1>4. ThreadsTyped'
  BY <1>2, <1>3 DEF ThreadsTyped
<1>5. InCalls'
  <2> SUFFICES ASSUME NEW u \in Q!Threads
               PROVE  /\ qAt'[u] \in {"idle", "over"} <=> call'[u] = Q!NoCall
                      /\ call'[u] # Q!NoCall => Pending(call'[u])
    BY DEF InCalls
  <2>1. CASE u = t
    <3>1. qAt'[u] = cv /\ call'[u] = c
      BY <1>1, <1>2, <2>1 DEF ThreadsTyped
    <3>2. c # Q!NoCall
      BY DEF Pending, Q!NoCall
    <3>3. cv \notin {"idle", "over"}
      BY DEF Waits
    <3> QED BY <3>1, <3>2, <3>3
  <2>2. CASE u # t
    <3>1. qAt'[u] = b[u] /\ call'[u] = call[u]
      BY <1>1, <1>2, <2>2 DEF ThreadsTyped
    <3> QED BY <1>1, <3>1 DEF InCalls
  <2> QED BY <2>1, <2>2
<1> QED BY <1>4, <1>5

LEMMA InvFrom ==
  ASSUME QueuesInv, TableInv', KeysApart(mq'), ThreadsInv' PROVE QueuesInv'
BY DEF QueuesInv, Q!QueuesAssumption, Q!GoodCall

-----------------------------------------------------------------------------
(* The calls, one by one.                                                  *)

\* A queue after its messages, counts and mark have changed.
With(x, s, a, b) == [[x EXCEPT !.msgs = s, !.cbytes = a, !.qnum = b] EXCEPT !.busy = FALSE]
LEMMA QueueWith ==
  ASSUME NEW x \in QueueSet, NEW s \in Seq(Message), NEW a \in Nat, NEW b \in Nat
  PROVE  /\ With(x, s, a, b) \in QueueSet /\ With(x, s, a, b).msgs = s
         /\ With(x, s, a, b).cbytes = a /\ With(x, s, a, b).qnum = b
         /\ With(x, s, a, b).key = x.key /\ With(x, s, a, b).mode = x.mode
BY DEF QueueSet, With

LEMMA OneMore ==
  ASSUME NEW n \in Nat, NEW h \in Nat, NEW k \in Nat, h <= k
  PROVE  n + h <= k + n
OBVIOUS

LEMMA QueueBusy ==
  ASSUME NEW x \in QueueSet, NEW y \in BOOLEAN
  PROVE  LET r == [x EXCEPT !.busy = y]
         IN /\ r \in QueueSet /\ r.msgs = x.msgs /\ r.cbytes = x.cbytes /\ r.qnum = x.qnum
            /\ r.key = x.key /\ r.mode = x.mode
BY DEF QueueSet

\* The mark that a call which waits leaves is a mark.
LEMMA BusyIs ==
  ASSUME NEW t, NEW x \in QueueSet
  PROVE  \E y \in BOOLEAN : Q!Busy(t, x) = [x EXCEPT !.busy = y]
<1>1. x.busy \in BOOLEAN
  BY DEF QueueSet
<1>2. CASE x.busy \/ call[t] = Q!NoCall
  <2>1. Q!Busy(t, x) = [x EXCEPT !.busy = TRUE]
    BY <1>1, <1>2 DEF Q!Busy
  <2> QED BY <2>1
<1>3. CASE ~(x.busy \/ call[t] = Q!NoCall)
  <2>1. Q!Busy(t, x) = [x EXCEPT !.busy = FALSE]
    BY <1>1, <1>3 DEF Q!Busy
  <2> QED BY <2>1
<1> QED BY <1>2, <1>3

\* One queue of the table changes, with its key.
LEMMA OneQueue ==
  ASSUME QueuesInv, NEW q \in Q!Queues, NEW r \in QueueSet, r.key = mq[q].key, Covered(r),
         mq' = [mq EXCEPT ![q] = r], q_current' = q_current, b_current' \in Int,
         b_current' >= b_current + r.cbytes - mq[q].cbytes
  PROVE  TableInv' /\ KeysApart(mq')
<1>1. TableRight(mq, q_current, b_current) /\ Q!QueuesAssumption /\ KeysApart(mq)
  BY DEF QueuesInv, TableInv
<1>2. q_current \in Nat
  BY <1>1 DEF TableRight
<1>3. TableRight([mq EXCEPT ![q] = r], q_current, b_current')
  BY <1>1, <1>2, TableChange
<1>4. \A x \in Q!Queues : mq'[x].key = mq[x].key
  BY <1>1 DEF TableRight
<1>5. KeysApart(mq')
  BY <1>1, <1>4, KeepKeys
<1> QED BY <1>3, <1>5 DEF TableInv

LEMMA SameTable ==
  ASSUME QueuesInv, UNCHANGED <<mq, q_current, b_current>>
  PROVE  TableInv' /\ KeysApart(mq')
BY DEF QueuesInv, TableInv

\* The mark of a queue changes.
LEMMA MarkQueue ==
  ASSUME QueuesInv, NEW q, NEW y \in BOOLEAN, mq' = [mq EXCEPT ![q] = [mq[q] EXCEPT !.busy = y]],
         UNCHANGED <<q_current, b_current>>
  PROVE  TableInv' /\ KeysApart(mq')
<1>1. TableRight(mq, q_current, b_current) /\ Q!QueuesAssumption
  BY DEF QueuesInv, TableInv
<1>2. CASE q \in Q!Queues
  <2> DEFINE r == [mq[q] EXCEPT !.busy = y]
  <2>1. mq[q] \in QueueSet /\ mq[q].cbytes \in Nat /\ b_current \in Nat
    BY <1>1, <1>2, TableNumbers
  <2>2. r \in QueueSet /\ r.msgs = mq[q].msgs /\ r.cbytes = mq[q].cbytes /\ r.qnum = mq[q].qnum
        /\ r.key = mq[q].key
    BY <2>1, QueueBusy
  <2>3. mq' = [mq EXCEPT ![q] = r]
    OBVIOUS
  <2> HIDE DEF r
  <2>4. Covered(r)
    BY <1>1, <1>2, <2>2 DEF Covered, TableRight
  <2>5. b_current' \in Int /\ b_current' >= b_current + r.cbytes - mq[q].cbytes
    BY <2>1, <2>2
  <2> QED BY <1>2, <2>2, <2>3, <2>4, <2>5, OneQueue
<1>3. CASE q \notin Q!Queues
  <2>1. mq' = mq
    BY <1>1, <1>3 DEF TableRight
  <2> QED BY <2>1, SameTable
<1> QED BY <1>2, <1>3

\* The room of a message is what it takes.
LEMMA StatusIs ==
  ASSUME NEW n \in Nat, LongSize \in Nat
  PROVE  /\ Q!update_status(n).bytes = n + LongSize
         /\ Q!update_status(n).qnum = IF n > 0 THEN 1 ELSE 0
         /\ n > 0 => Q!update_status(-n).bytes = -n - LongSize /\ Q!update_status(-n).qnum = -1
         /\ n = 0 => Q!update_status(-n).bytes = LongSize /\ Q!update_status(-n).qnum = 0
BY DEF Q!update_status

LEMMA StepSend ==
  ASSUME QueuesInv, NEW t \in Q!Threads, NEW c, Pending(c), c.op = "msgsnd", Q!SendNow(t, c)
  PROVE  QueuesInv'
<1>1. TableRight(mq, q_current, b_current) /\ Q!QueuesAssumption /\ ThreadsInv
  BY DEF QueuesInv, TableInv
<1>2. c.q \in Q!Queues /\ c.type \in Int /\ c.len \in Nat /\ c.seq \in Nat /\ LongSize \in Nat
  BY <1>1 DEF Pending, Q!GoodCall, Q!QueuesAssumption
<1>3. mq[c.q] \in QueueSet /\ mq[c.q].cbytes \in Nat /\ mq[c.q].qnum \in Nat
      /\ mq[c.q].msgs \in Seq(Message) /\ b_current \in Nat
  BY <1>1, <1>2, TableNumbers
<1>4. got' = got /\ q_current' = q_current /\ got \in [Q!Threads -> Seq(Message)]
      /\ guard \in Q!Threads \cup {Q!Free}
  BY <1>1 DEF Q!SendNow, ThreadsInv, ThreadsTyped
<1>5. CASE Q!not_full(c.len, c.q, 0)
  <2> DEFINE m == [type |-> c.type, len |-> c.len, seq |-> c.seq]
             s == Append(mq[c.q].msgs, m)
             a == mq[c.q].cbytes + Q!update_status(c.len).bytes
             b == mq[c.q].qnum + Q!update_status(c.len).qnum
             r == With(mq[c.q], s, a, b)
  <2>1. /\ mq' = [mq EXCEPT ![c.q] = r] /\ b_current' = b_current + Q!update_status(c.len).bytes
        /\ Q!Returns(t, 0, {"e_qne", "e_q_not_busy"}) /\ guard' = guard
    BY <1>5 DEF Q!SendNow, Q!Unbusy, With
  <2>2. m \in Message /\ m.len = c.len
    BY <1>2 DEF Message
  <2> HIDE DEF m
  <2>3. /\ s \in Seq(Message) /\ Holds(s) = (c.len + LongSize) + Holds(mq[c.q].msgs)
        /\ Counting(s) = (IF c.len > 0 THEN 1 ELSE 0) + Counting(mq[c.q].msgs)
    BY <1>2, <1>3, <2>2, HoldsMore
  <2>4. Q!update_status(c.len).bytes = c.len + LongSize
        /\ Q!update_status(c.len).qnum = IF c.len > 0 THEN 1 ELSE 0
    BY <1>2, StatusIs
  <2>5. a \in Nat /\ b \in Nat /\ a = mq[c.q].cbytes + (c.len + LongSize)
        /\ b = mq[c.q].qnum + (IF c.len > 0 THEN 1 ELSE 0)
    BY <1>2, <1>3, <2>4
  <2>6. Holds(mq[c.q].msgs) <= mq[c.q].cbytes /\ Counting(mq[c.q].msgs) <= mq[c.q].qnum
    BY <1>1, <1>2 DEF TableRight, Covered
  <2>7. Holds(mq[c.q].msgs) \in Nat /\ Counting(mq[c.q].msgs) \in Nat
    BY <1>2, <1>3, HoldsNumber
  <2> HIDE DEF s, a, b
  <2>8. Holds(s) <= a /\ Counting(s) <= b
    <3> DEFINE one == IF c.len > 0 THEN 1 ELSE 0
    <3>1. one \in Nat /\ c.len + LongSize \in Nat
      BY <1>2
    <3>2. a = mq[c.q].cbytes + (c.len + LongSize) /\ b = mq[c.q].qnum + one
          /\ Holds(s) = (c.len + LongSize) + Holds(mq[c.q].msgs)
          /\ Counting(s) = one + Counting(mq[c.q].msgs)
      BY <2>3, <2>5
    <3> HIDE DEF one
    <3>3. (c.len + LongSize) + Holds(mq[c.q].msgs) <= mq[c.q].cbytes + (c.len + LongSize)
      BY <1>3, <2>6, <2>7, <3>1, OneMore
    <3>4. one + Counting(mq[c.q].msgs) <= mq[c.q].qnum + one
      BY <1>3, <2>6, <2>7, <3>1, OneMore
    <3> QED BY <3>2, <3>3, <3>4
  <2>9. r \in QueueSet /\ r.msgs = s /\ r.cbytes = a /\ r.qnum = b /\ r.key = mq[c.q].key
    <3>1. mq[c.q] \in QueueSet /\ s \in Seq(Message) /\ a \in Nat /\ b \in Nat
      BY <1>3, <2>3, <2>5
    <3>2. With(mq[c.q], s, a, b) \in QueueSet
      BY <3>1, QueueWith
    <3>3. With(mq[c.q], s, a, b).msgs = s
      BY <3>1, QueueWith
    <3>4. With(mq[c.q], s, a, b).cbytes = a
      BY <3>1, QueueWith
    <3>5. With(mq[c.q], s, a, b).qnum = b
      BY <3>1, QueueWith
    <3>6. With(mq[c.q], s, a, b).key = mq[c.q].key
      BY <3>1 DEF With, QueueSet
    <3> QED BY <3>2, <3>3, <3>4, <3>5, <3>6
  <2> HIDE DEF r
  <2>10. Covered(r)
    BY <2>8, <2>9 DEF Covered
  <2>11. b_current' \in Int /\ b_current' >= b_current + r.cbytes - mq[c.q].cbytes
    BY <1>2, <1>3, <2>1, <2>4, <2>5, <2>9
  <2>12. TableInv' /\ KeysApart(mq')
    BY <1>2, <1>4, <2>1, <2>9, <2>10, <2>11, OneQueue
  <2>13. ThreadsInv'
    <3>1. {"e_qne", "e_q_not_busy"} \in SUBSET Waits
      BY DEF Waits
    <3> QED BY <1>1, <1>4, <2>1, <3>1, ReturnsKeep
  <2> QED BY <2>12, <2>13, InvFrom
<1>6. CASE ~Q!not_full(c.len, c.q, 0)
  <2>1. /\ mq' = [mq EXCEPT ![c.q] = Q!Busy(t, mq[c.q])] /\ b_current' = b_current
        /\ Q!Sleeps(t, c, "e_qnf", {})
    BY <1>6 DEF Q!SendNow
  <2>2. PICK y \in BOOLEAN : mq' = [mq EXCEPT ![c.q] = [mq[c.q] EXCEPT !.busy = y]]
    BY <1>3, <2>1, BusyIs
  <2>3. TableInv' /\ KeysApart(mq')
    BY <1>4, <2>1, <2>2, MarkQueue
  <2>4. ThreadsInv'
    <3>1. "e_qnf" \in Waits
      BY DEF Waits
    <3> QED BY <1>1, <1>4, <2>1, <3>1, SleepsKeep
  <2> QED BY <2>3, <2>4, InvFrom
<1> QED BY <1>5, <1>6

LEMMA StepFails ==
  ASSUME QueuesInv, NEW t \in Q!Threads, NEW c, NEW error, Q!Fails(t, c, error)
  PROVE  QueuesInv'
<1>1. /\ mq' = [mq EXCEPT ![c.q] = [mq[c.q] EXCEPT !.busy = FALSE]]
      /\ UNCHANGED <<b_current, q_current, guard, got>> /\ Q!Returns(t, error, {"e_q_not_busy"})
  BY DEF Q!Fails, Q!Unbusy
<1>2. TableInv' /\ KeysApart(mq')
  BY <1>1, MarkQueue
<1>3. ThreadsInv'
  <2>1. {"e_q_not_busy"} \in SUBSET Waits
    BY DEF Waits
  <2>2. ThreadsInv /\ got' \in [Q!Threads -> Seq(Message)] /\ guard' \in Q!Threads \cup {Q!Free}
    BY <1>1 DEF QueuesInv, ThreadsInv, ThreadsTyped
  <2> QED BY <1>1, <2>1, <2>2, ReturnsKeep
<1> QED BY <1>2, <1>3, InvFrom

-----------------------------------------------------------------------------
(* The first message of the type asked for, or none.                       *)
Fit(s, type) == {i \in 1 .. Len(s) : type = 0 \/ (type > 0 /\ s[i].type = type)}
LEMMA SatisfactoryIs ==
  ASSUME NEW q, NEW type, mq[q].msgs \in Seq(Message)
  PROVE  LET i == Q!Satisfactory(q, type)
         IN \/ i = 0 /\ Fit(mq[q].msgs, type) = {}
            \/ /\ i \in Fit(mq[q].msgs, type)
               /\ \A j \in Fit(mq[q].msgs, type) : i <= j
<1> DEFINE s == mq[q].msgs
           I == Fit(s, type)
           least == CHOOSE x \in I : \A y \in I : x <= y
<1>1. Q!Satisfactory(q, type) = IF I # {} THEN least ELSE 0
  BY DEF Q!Satisfactory, Q!SelectInSeq, Q!Min, Fit
<1>2. I \subseteq Nat
  BY DEF Fit
<1>3. I # {} => \E x \in I : \A y \in I : x <= y
  <2> HIDE DEF I
  <2> QED BY <1>2, LeastNumber
<1>4. I # {} => least \in I /\ \A y \in I : least <= y
  <2> HIDE DEF I
  <2> QED BY <1>3
<1> HIDE DEF I, least
<1>5. CASE I = {}
  BY <1>1, <1>5 DEF I
<1>6. CASE I # {}
  BY <1>1, <1>4, <1>6 DEF I
<1> QED BY <1>5, <1>6

\* The queue after its message i was taken.
Taken(x, i) == [x EXCEPT !.msgs = Q!RemoveAt(@, i)]
LEMMA TakenIs ==
  ASSUME NEW x \in QueueSet, Covered(x), NEW i \in 1 .. Len(x.msgs), LongSize \in Nat
  PROVE  /\ x.msgs[i] \in Message /\ Taken(x, i) \in QueueSet /\ Covered(Taken(x, i))
         /\ Taken(x, i).cbytes = x.cbytes /\ Taken(x, i).qnum = x.qnum /\ Taken(x, i).key = x.key
         /\ Taken(x, i).msgs = Q!RemoveAt(x.msgs, i) /\ Taken(x, i).mode = x.mode
         /\ Holds(Taken(x, i).msgs) + x.msgs[i].len + LongSize <= x.cbytes
         /\ x.msgs[i].len > 0 => Counting(Taken(x, i).msgs) + 1 <= x.qnum
<1> DEFINE s == x.msgs  r == Q!RemoveAt(s, i)
<1>1. s \in Seq(Message) /\ x.cbytes \in Nat /\ x.qnum \in Nat
  BY DEF QueueSet
<1>2. /\ r \in Seq(Message) /\ s[i] \in Message
      /\ Holds(s) = (s[i].len + LongSize) + Holds(r)
      /\ Counting(s) = (IF s[i].len > 0 THEN 1 ELSE 0) + Counting(r)
  <2>1. i \in 1 .. Len(s)
    OBVIOUS
  <2> HIDE DEF s
  <2> QED BY <1>1, <2>1, HoldsLess
<1>3. Taken(x, i) = [x EXCEPT !.msgs = r]
  BY DEF Taken
<1> HIDE DEF r
<1>4. /\ Taken(x, i) \in QueueSet /\ Taken(x, i).msgs = r /\ Taken(x, i).cbytes = x.cbytes
      /\ Taken(x, i).qnum = x.qnum /\ Taken(x, i).key = x.key /\ Taken(x, i).mode = x.mode
  BY <1>2, <1>3 DEF QueueSet
<1>5. Holds(r) \in Nat /\ Counting(r) \in Nat
  BY <1>2, HoldsNumber
<1>6. s[i].len \in Nat
  BY <1>2 DEF Message
<1>7. Holds(s) <= x.cbytes /\ Counting(s) <= x.qnum
  BY DEF Covered
<1>8. Holds(r) + s[i].len + LongSize <= x.cbytes /\ Holds(r) <= x.cbytes
  <2> DEFINE h == Holds(r)  n == s[i].len  g == Holds(s)  a == x.cbytes
  <2>1. h \in Nat /\ n \in Nat /\ g = (n + LongSize) + h /\ g <= a /\ a \in Nat
    BY <1>1, <1>2, <1>5, <1>6, <1>7
  <2> HIDE DEF h, n, g, a
  <2>2. h + n + LongSize <= a /\ h <= a
    BY <2>1
  <2> QED BY <2>2 DEF h, n, a
<1>9. Counting(r) <= x.qnum /\ (s[i].len > 0 => Counting(r) + 1 <= x.qnum)
  <2> DEFINE h == Counting(r)  n == s[i].len  g == Counting(s)  a == x.qnum
  <2>1. h \in Nat /\ n \in Nat /\ g = (IF n > 0 THEN 1 ELSE 0) + h /\ g <= a /\ a \in Nat
    BY <1>1, <1>2, <1>5, <1>6, <1>7
  <2> HIDE DEF h, n, g, a
  <2>2. h <= a /\ (n > 0 => h + 1 <= a)
    BY <2>1
  <2> QED BY <2>2 DEF h, n, a
<1> QED BY <1>2, <1>4, <1>8, <1>9 DEF Covered, r

\* What msgrcv finds: the place of the message, the bytes given out, the queue
\* that is left, and its counts when it is valid.
PlaceOf(c) ==
  IF Q!message_exists(c.q) /\ Q!msgq_valid(c.q) THEN Q!Satisfactory(c.q, c.type) ELSE 0
GivenBy(c) ==
  IF PlaceOf(c) = 0 THEN 0
  ELSE IF mq[c.q].msgs[PlaceOf(c)].len <= c.size THEN mq[c.q].msgs[PlaceOf(c)].len ELSE c.size
LeftBy(c) == IF PlaceOf(c) = 0 THEN mq[c.q] ELSE Taken(mq[c.q], PlaceOf(c))
StatusBy(c) == Q!update_status(-GivenBy(c))
CountedBy(c) ==
  [LeftBy(c) EXCEPT !.cbytes = @ + StatusBy(c).bytes, !.qnum = @ + StatusBy(c).qnum]
Gotten(t, c) ==
  got' = IF PlaceOf(c) = 0 \/ program = "any" THEN got
         ELSE [got EXCEPT ![t] = Append(@, mq[c.q].msgs[PlaceOf(c)])]
Waiting(t, c) ==
  /\ GivenBy(c) = 0 /\ ~c.nowait
  /\ mq' = [mq EXCEPT ![c.q] = Q!Busy(t, LeftBy(c))]
  /\ UNCHANGED b_current /\ Q!Sleeps(t, c, "e_qne", {})
Returned(t, c) ==
  /\ mq' = [mq EXCEPT ![c.q] = [(IF Q!msgq_valid(c.q) THEN CountedBy(c) ELSE LeftBy(c))
                                 EXCEPT !.busy = FALSE]]
  /\ b_current' = IF Q!msgq_valid(c.q) THEN b_current + StatusBy(c).bytes ELSE b_current
  /\ UNCHANGED guard
  /\ \E cvs \in {{"e_q_not_busy"}, {"e_q_not_busy", "e_qnf"}} : Q!Returns(t, GivenBy(c), cvs)
LEMMA ReceiveNowIs ==
  ASSUME NEW t, NEW c, Q!ReceiveNow(t, c)
  PROVE  q_current' = q_current /\ Gotten(t, c) /\ (Waiting(t, c) \/ Returned(t, c))
<1> USE DEF Q!ReceiveNow, PlaceOf, GivenBy, LeftBy, StatusBy, CountedBy, Taken
<1>1. q_current' = q_current
  BY Zenon
<1>2. Gotten(t, c)
  BY Zenon DEF Gotten
<1>3. Waiting(t, c) \/ Returned(t, c)
  BY Zenon DEF Waiting, Returned, Q!Unbusy
<1> QED BY <1>1, <1>2, <1>3

LEMMA ReceivedFacts ==
  ASSUME QueuesInv, NEW c, Pending(c), c.op = "msgrcv"
  PROVE  /\ PlaceOf(c) = 0 \/ (PlaceOf(c) \in Fit(mq[c.q].msgs, c.type) /\ Q!msgq_valid(c.q))
         /\ PlaceOf(c) = 0 \/ mq[c.q].msgs[PlaceOf(c)] \in Message
         /\ LeftBy(c) \in QueueSet /\ Covered(LeftBy(c)) /\ LeftBy(c).key = mq[c.q].key
         /\ LeftBy(c).mode = mq[c.q].mode
         /\ LeftBy(c).cbytes = mq[c.q].cbytes /\ LeftBy(c).msgs \in Seq(Message)
         /\ LeftBy(c).cbytes + StatusBy(c).bytes \in Nat /\ LeftBy(c).qnum + StatusBy(c).qnum \in Nat
         /\ Holds(LeftBy(c).msgs) <= LeftBy(c).cbytes + StatusBy(c).bytes
         /\ Counting(LeftBy(c).msgs) <= LeftBy(c).qnum + StatusBy(c).qnum
         /\ StatusBy(c).bytes \in Int
<1> DEFINE x == mq[c.q]  i == PlaceOf(c)  l == LeftBy(c)  n == x.msgs[i].len  y == GivenBy(c)
<1>1. TableRight(mq, q_current, b_current) /\ Q!QueuesAssumption
  BY DEF QueuesInv, TableInv
<1>2. c.q \in Q!Queues /\ c.size \in Nat /\ LongSize \in Nat
  BY <1>1 DEF Pending, Q!GoodCall, Q!QueuesAssumption
<1>3. x \in QueueSet /\ x.cbytes \in Nat /\ x.qnum \in Nat /\ x.msgs \in Seq(Message)
  BY <1>1, <1>2, TableNumbers
<1>4. Covered(x)
  BY <1>1, <1>2 DEF TableRight
<1>5. i = 0 \/ (i \in Fit(x.msgs, c.type) /\ Q!msgq_valid(c.q))
  BY <1>3, SatisfactoryIs DEF PlaceOf
<1>6. Holds(x.msgs) \in Nat /\ Counting(x.msgs) \in Nat
  BY <1>2, <1>3, HoldsNumber
<1>7. Holds(x.msgs) <= x.cbytes /\ Counting(x.msgs) <= x.qnum
  BY <1>4 DEF Covered
<1>8. CASE i = 0
  <2>1. l = x /\ y = 0
    BY <1>8 DEF LeftBy, GivenBy
  <2>2. StatusBy(c).bytes = LongSize /\ StatusBy(c).qnum = 0
    <3>1. Q!update_status(-0).bytes = LongSize /\ Q!update_status(-0).qnum = 0
      BY <1>2 DEF Q!update_status
    <3> QED BY <2>1, <3>1 DEF StatusBy
  <2> HIDE DEF x, i, l, y
  <2>3. x.cbytes + LongSize \in Nat /\ x.qnum + 0 \in Nat /\ Holds(x.msgs) <= x.cbytes + LongSize
        /\ Counting(x.msgs) <= x.qnum + 0 /\ LongSize \in Int
    BY <1>2, <1>3, <1>6, <1>7
  <2> QED BY <1>3, <1>4, <1>8, <2>1, <2>2, <2>3 DEF x, i, l
<1>9. CASE i # 0
  <2>1. i \in 1 .. Len(x.msgs)
    BY <1>5, <1>9 DEF Fit
  <2>2. l = Taken(x, i) /\ y = IF n <= c.size THEN n ELSE c.size
    BY <1>9 DEF LeftBy, GivenBy
  <2> HIDE DEF x, i, l, y
  <2>3. /\ x.msgs[i] \in Message /\ l \in QueueSet /\ Covered(l) /\ l.cbytes = x.cbytes
        /\ l.qnum = x.qnum /\ l.key = x.key /\ l.mode = x.mode
        /\ Holds(l.msgs) + n + LongSize <= x.cbytes
        /\ n > 0 => Counting(l.msgs) + 1 <= x.qnum
    BY <1>2, <1>3, <1>4, <2>1, <2>2, TakenIs
  <2>4. l.msgs \in Seq(Message) /\ n \in Nat
    BY <2>3 DEF QueueSet, Message
  <2>5. Holds(l.msgs) \in Nat /\ Counting(l.msgs) \in Nat
    BY <1>2, <2>4, HoldsNumber
  <2>6. y \in Nat /\ y <= n
    BY <1>2, <2>2, <2>4
  <2>7. Counting(l.msgs) <= l.qnum /\ Holds(l.msgs) <= l.cbytes
    BY <2>3 DEF Covered
  <2>8. StatusBy(c) = Q!update_status(-y)
    BY DEF StatusBy, y
  <2>9. /\ l.cbytes + StatusBy(c).bytes \in Nat /\ Holds(l.msgs) <= l.cbytes + StatusBy(c).bytes
        /\ StatusBy(c).bytes \in Int
        /\ l.qnum + StatusBy(c).qnum \in Nat /\ Counting(l.msgs) <= l.qnum + StatusBy(c).qnum
    <3> DEFINE h == Holds(l.msgs)  k == Counting(l.msgs)  a == l.cbytes  b == l.qnum
    <3>1. h \in Nat /\ k \in Nat /\ a \in Nat /\ b \in Nat /\ h <= a /\ k <= b
          /\ h + n + LongSize <= a /\ (n > 0 => k + 1 <= b)
      BY <1>3, <2>3, <2>5, <2>7
    <3>2. y > 0 => Q!update_status(-y).bytes = -y - LongSize /\ Q!update_status(-y).qnum = -1
      BY <1>2, <2>6, StatusIs
    <3>3. y = 0 => Q!update_status(-y).bytes = LongSize /\ Q!update_status(-y).qnum = 0
      BY <1>2, <2>6, StatusIs
    <3> DEFINE d == StatusBy(c).bytes  e == StatusBy(c).qnum
    <3>4. (y > 0 => d = -y - LongSize /\ e = -1) /\ (y = 0 => d = LongSize /\ e = 0)
      BY <2>8, <3>2, <3>3
    <3> HIDE DEF h, k, a, b, d, e, n
    <3>5. CASE y > 0
      <4>1. h <= a + d /\ a + d \in Nat /\ d \in Int
        BY <1>2, <2>4, <2>6, <3>1, <3>4, <3>5
      <4>2. b + e \in Nat /\ k <= b + e
        BY <2>4, <2>6, <3>1, <3>4, <3>5
      <4> QED BY <4>1, <4>2 DEF h, k, a, b, d, e
    <3>6. CASE y = 0
      <4>1. h <= a + d /\ a + d \in Nat /\ d \in Int
        BY <1>2, <3>1, <3>4, <3>6
      <4>2. b + e \in Nat /\ k <= b + e
        BY <3>1, <3>4, <3>6
      <4> QED BY <4>1, <4>2 DEF h, k, a, b, d, e
    <3> QED BY <2>6, <3>5, <3>6
  <2> QED BY <1>5, <2>3, <2>4, <2>9 DEF x, i, l
<1> QED BY <1>8, <1>9

\* A queue with other counts, no longer busy.
Tallied(x, d, e) == [[x EXCEPT !.cbytes = @ + d, !.qnum = @ + e] EXCEPT !.busy = FALSE]
LEMMA QueueCounts ==
  ASSUME NEW x \in QueueSet, NEW d, NEW e, x.cbytes + d \in Nat, x.qnum + e \in Nat
  PROVE  /\ Tallied(x, d, e) \in QueueSet /\ Tallied(x, d, e).msgs = x.msgs
         /\ Tallied(x, d, e).cbytes = x.cbytes + d /\ Tallied(x, d, e).qnum = x.qnum + e
         /\ Tallied(x, d, e).key = x.key /\ Tallied(x, d, e).mode = x.mode
BY DEF QueueSet, Tallied

LEMMA StepReceive ==
  ASSUME QueuesInv, NEW t \in Q!Threads, NEW c, Pending(c), c.op = "msgrcv", Q!ReceiveNow(t, c)
  PROVE  QueuesInv'
<1> DEFINE l == LeftBy(c)  d == StatusBy(c).bytes  e == StatusBy(c).qnum
<1>1. TableRight(mq, q_current, b_current) /\ Q!QueuesAssumption /\ ThreadsInv
  BY DEF QueuesInv, TableInv
<1>2. c.q \in Q!Queues
  BY DEF Pending
<1>3. mq[c.q].cbytes \in Nat /\ b_current \in Nat
  BY <1>1, <1>2, TableNumbers
<1>4. q_current' = q_current /\ Gotten(t, c) /\ (Waiting(t, c) \/ Returned(t, c))
  BY ReceiveNowIs
<1>5. /\ PlaceOf(c) = 0 \/ mq[c.q].msgs[PlaceOf(c)] \in Message
      /\ l \in QueueSet /\ Covered(l) /\ l.key = mq[c.q].key /\ l.cbytes = mq[c.q].cbytes
      /\ l.cbytes + d \in Nat /\ l.qnum + e \in Nat
      /\ Holds(l.msgs) <= l.cbytes + d /\ Counting(l.msgs) <= l.qnum + e
      /\ d \in Int
  BY ReceivedFacts
<1>6. got' \in [Q!Threads -> Seq(Message)]
  <2>1. got \in [Q!Threads -> Seq(Message)]
    BY <1>1 DEF ThreadsInv, ThreadsTyped
  <2>2. CASE PlaceOf(c) = 0 \/ program = "any"
    BY <1>4, <2>1, <2>2 DEF Gotten
  <2>3. CASE ~(PlaceOf(c) = 0 \/ program = "any")
    <3> DEFINE m == mq[c.q].msgs[PlaceOf(c)]
    <3>1. m \in Message
      BY <1>5, <2>3
    <3>2. got' = [got EXCEPT ![t] = Append(@, m)]
      BY <1>4, <2>3 DEF Gotten
    <3> HIDE DEF m
    <3>3. Append(got[t], m) \in Seq(Message)
      BY <2>1, <3>1
    <3> QED BY <2>1, <3>2, <3>3
  <2> QED BY <2>2, <2>3
<1> HIDE DEF l, d, e
<1>7. CASE Waiting(t, c)
  <2>0. PICK y \in BOOLEAN : Q!Busy(t, l) = [l EXCEPT !.busy = y]
    BY <1>5, BusyIs
  <2> DEFINE r == [l EXCEPT !.busy = y]
  <2>1. mq' = [mq EXCEPT ![c.q] = r] /\ b_current' = b_current /\ Q!Sleeps(t, c, "e_qne", {})
    BY <1>7, <2>0 DEF Waiting, l
  <2>2. r \in QueueSet /\ r.msgs = l.msgs /\ r.cbytes = l.cbytes /\ r.qnum = l.qnum /\ r.key = l.key
    BY <1>5, QueueBusy
  <2> HIDE DEF r
  <2>3. Covered(r) /\ r.key = mq[c.q].key
    BY <1>5, <2>2 DEF Covered
  <2>4. b_current' \in Int /\ b_current' >= b_current + r.cbytes - mq[c.q].cbytes
    BY <1>3, <1>5, <2>1, <2>2
  <2>5. TableInv' /\ KeysApart(mq')
    BY <1>2, <1>4, <2>1, <2>2, <2>3, <2>4, OneQueue
  <2>6. ThreadsInv'
    <3>1. "e_qne" \in Waits
      BY DEF Waits
    <3> QED BY <1>1, <1>6, <2>1, <3>1, SleepsKeep
  <2> QED BY <2>5, <2>6, InvFrom
<1>8. CASE Returned(t, c)
  <2>1. ThreadsInv'
    <3>1. PICK cvs \in {{"e_q_not_busy"}, {"e_q_not_busy", "e_qnf"}} : Q!Returns(t, GivenBy(c), cvs)
      BY <1>8 DEF Returned
    <3>2. cvs \in SUBSET Waits
      BY <3>1 DEF Waits
    <3>3. guard' \in Q!Threads \cup {Q!Free}
      BY <1>1, <1>8 DEF Returned, ThreadsInv, ThreadsTyped
    <3> QED BY <1>1, <1>6, <3>1, <3>2, <3>3, ReturnsKeep
  <2>2. CASE Q!msgq_valid(c.q)
    <3> DEFINE r == Tallied(l, d, e)
    <3>1. mq' = [mq EXCEPT ![c.q] = r] /\ b_current' = b_current + d
      BY <1>8, <2>2 DEF Returned, CountedBy, Tallied, l, d, e
    <3>2. r \in QueueSet /\ r.msgs = l.msgs /\ r.cbytes = l.cbytes + d /\ r.qnum = l.qnum + e
          /\ r.key = l.key
      BY <1>5, QueueCounts
    <3> HIDE DEF r
    <3>3. Covered(r) /\ r.key = mq[c.q].key
      BY <1>5, <3>2 DEF Covered
    <3>4. b_current' \in Int /\ b_current' >= b_current + r.cbytes - mq[c.q].cbytes
      BY <1>3, <1>5, <3>1, <3>2
    <3>5. TableInv' /\ KeysApart(mq')
      BY <1>2, <1>4, <3>1, <3>2, <3>3, <3>4, OneQueue
    <3> QED BY <2>1, <3>5, InvFrom
  <2>3. CASE ~Q!msgq_valid(c.q)
    <3> DEFINE r == [l EXCEPT !.busy = FALSE]
    <3>1. mq' = [mq EXCEPT ![c.q] = r] /\ b_current' = b_current
      BY <1>8, <2>3 DEF Returned, l
    <3>2. r \in QueueSet /\ r.msgs = l.msgs /\ r.cbytes = l.cbytes /\ r.qnum = l.qnum /\ r.key = l.key
      BY <1>5, QueueBusy
    <3> HIDE DEF r
    <3>3. Covered(r) /\ r.key = mq[c.q].key
      BY <1>5, <3>2 DEF Covered
    <3>4. b_current' \in Int /\ b_current' >= b_current + r.cbytes - mq[c.q].cbytes
      BY <1>3, <1>5, <3>1, <3>2
    <3>5. TableInv' /\ KeysApart(mq')
      BY <1>2, <1>4, <3>1, <3>2, <3>3, <3>4, OneQueue
    <3> QED BY <2>1, <3>5, InvFrom
  <2> QED BY <2>2, <2>3
<1> QED BY <1>4, <1>7, <1>8

-----------------------------------------------------------------------------
\* A thread returns and the table stays.
LEMMA OnlyReturns ==
  ASSUME QueuesInv, NEW t \in Q!Threads, NEW v, Q!Returns(t, v, {}),
         UNCHANGED <<mq, q_current, b_current, got>>, guard' \in Q!Threads \cup {Q!Free}
  PROVE  QueuesInv'
<1>1. TableInv' /\ KeysApart(mq')
  BY SameTable
<1>2. ThreadsInv /\ got' \in [Q!Threads -> Seq(Message)] /\ {} \in SUBSET Waits
  BY DEF QueuesInv, ThreadsInv, ThreadsTyped
<1>3. ThreadsInv'
  BY <1>2, ReturnsKeep
<1> QED BY <1>1, <1>3, InvFrom

\* msgget makes a queue only for a key that no queue has, or for its own use.
LEMMA StepGet ==
  ASSUME QueuesInv, NEW t \in Q!Threads, NEW c, c.op = "msgget", Q!GoodCall(c), Q!msgget(t, c)
  PROVE  QueuesInv'
<1> DEFINE old == IF c.key = Q!IPC_PRIVATE THEN {} ELSE Q!msgq_lookup(c.key)
           new == Q!msgq_add(c.key, c.mode)
<1>1. TableRight(mq, q_current, b_current) /\ Q!QueuesAssumption /\ ThreadsInv /\ KeysApart(mq)
  BY DEF QueuesInv, TableInv
<1>2. got' \in [Q!Threads -> Seq(Message)] /\ guard' \in Q!Threads \cup {Q!Free}
      /\ UNCHANGED <<b_current, guard, got>>
  BY <1>1 DEF Q!msgget, ThreadsInv, ThreadsTyped
<1>3. \/ UNCHANGED <<mq, q_current>> /\ \E v : Q!Returns(t, v, {})
      \/ /\ old = {} /\ new.id > 0 /\ \E v : Q!Returns(t, v, {})
         /\ mq' = [mq EXCEPT ![new.id] = new.queue] /\ q_current' = q_current + 1
  BY DEF Q!msgget
<1>4. CASE UNCHANGED <<mq, q_current>> /\ \E v : Q!Returns(t, v, {})
  BY <1>2, <1>4, OnlyReturns
<1>5. ASSUME old = {}, new.id > 0, \E v : Q!Returns(t, v, {}),
             mq' = [mq EXCEPT ![new.id] = new.queue], q_current' = q_current + 1
      PROVE  QueuesInv'
  <2> DEFINE free == {q \in Q!Queues : mq[q].key = 0}
             i == CHOOSE q \in free : \A r \in free : q <= r
             queue == [Q!NoQueue EXCEPT !.key = c.key, !.mode = c.mode, !.qbytes = MQ_MAX_BYTES_IN_QUEUE]
  <2>1. new = IF q_current > MSG_MAX_NUMBER_QUEUES \/ free = {} THEN [id |-> -1]
              ELSE [id |-> i, queue |-> queue]
    BY DEF Q!msgq_add
  <2>2. ~(q_current > MSG_MAX_NUMBER_QUEUES \/ free = {})
    <3>1. CASE q_current > MSG_MAX_NUMBER_QUEUES \/ free = {}
      <4>1. new.id = -1
        BY <2>1, <3>1
      <4> QED BY <1>5, <4>1
    <3> QED BY <3>1
  <2>3. new.id = i /\ new.queue = queue
    BY <2>1, <2>2
  <2>4. free # {} /\ free \subseteq Nat /\ free \subseteq Q!Queues
    BY <1>1, <2>2, QueuesFinite
  <2>5. i \in free
    <3>1. \E q \in free : \A r \in free : q <= r
      <4> HIDE DEF free
      <4> QED BY <2>4, LeastNumber
    <3> QED BY <3>1
  <2> HIDE DEF free, i, new
  <2>6. i \in Q!Queues /\ mq[i].key = 0
    BY <2>4, <2>5 DEF free
  <2>7. c.key \in Nat \ {0} /\ c.mode \in SUBSET {"r", "w"} /\ MQ_MAX_BYTES_IN_QUEUE \in Nat
    BY <1>1 DEF Q!GoodCall, Q!QueuesAssumption
  <2>8. /\ queue \in QueueSet /\ queue.msgs = Q!NoQueue.msgs /\ queue.cbytes = 0 /\ queue.qnum = 0
        /\ queue.key = c.key
    BY <2>7, NoQueueIs DEF QueueSet, Q!NoQueue
  <2>9. Covered(queue)
    <3>1. Covered(Q!NoQueue) /\ Q!NoQueue.cbytes = 0 /\ Q!NoQueue.qnum = 0
      BY NoQueueIs DEF Q!NoQueue
    <3> QED BY <2>8, <3>1 DEF Covered
  <2> HIDE DEF queue
  <2>10. mq' = [mq EXCEPT ![i] = queue]
    BY <1>5, <2>3
  <2>11. TableInv'
    <3>1. mq[i].cbytes \in Nat /\ b_current \in Nat /\ q_current + 1 \in Nat
      <4>1. q_current \in Nat
        BY <1>1 DEF TableRight
      <4>2. mq[i].cbytes \in Nat /\ b_current \in Nat
        BY <1>1, <2>6, TableNumbers
      <4> QED BY <4>1, <4>2
    <3>2. b_current' \in Int /\ b_current' >= b_current + queue.cbytes - mq[i].cbytes
      BY <1>2, <2>8, <3>1
    <3>3. TableRight([mq EXCEPT ![i] = queue], q_current + 1, b_current')
      BY <1>1, <2>6, <2>8, <2>9, <3>1, <3>2, TableChange
    <3> QED BY <1>5, <2>10, <3>3 DEF TableInv
  <2>12. KeysApart(mq')
    <3>1. c.key # Q!IPC_PRIVATE => \A q \in Q!Queues : mq[q].key # c.key
      BY <1>5 DEF Q!msgq_lookup
    <3>2. \A q \in Q!Queues : mq'[q] = IF q = i THEN queue ELSE mq[q]
      BY <1>1, <2>6, <2>10 DEF TableRight
    <3> QED BY <1>1, <2>8, <3>1, <3>2 DEF KeysApart
  <2>13. ThreadsInv'
    <3>1. PICK v : Q!Returns(t, v, {})
      BY <1>5
    <3>2. {} \in SUBSET Waits
      OBVIOUS
    <3> QED BY <1>1, <1>2, <3>1, <3>2, ReturnsKeep
  <2> QED BY <2>11, <2>12, <2>13, InvFrom
<1> HIDE DEF old, new
<1> QED BY <1>3, <1>4, <1>5

\* A queue that is removed keeps no count, while the system's stays.
LEMMA StepRemove ==
  ASSUME QueuesInv, NEW t \in Q!Threads, NEW c, Pending(c), Q!RemoveWhenIdle(t, c)
  PROVE  QueuesInv'
<1>1. TableRight(mq, q_current, b_current) /\ Q!QueuesAssumption /\ ThreadsInv /\ KeysApart(mq)
  BY DEF QueuesInv, TableInv
<1>2. /\ UNCHANGED <<q_current, b_current, got, guard>> /\ c.q \in Q!Queues
      /\ got' \in [Q!Threads -> Seq(Message)] /\ guard' \in Q!Threads \cup {Q!Free}
  BY <1>1 DEF Q!RemoveWhenIdle, ThreadsInv, ThreadsTyped, Pending
<1>3. \/ UNCHANGED mq /\ Q!Sleeps(t, c, "e_q_not_busy", {})
      \/ mq' = [mq EXCEPT ![c.q] = Q!NoQueue] /\ Q!Returns(t, 0, {})
  BY DEF Q!RemoveWhenIdle, Q!msgq_remove
<1>4. CASE UNCHANGED mq /\ Q!Sleeps(t, c, "e_q_not_busy", {})
  <2>1. TableInv' /\ KeysApart(mq')
    BY <1>2, <1>4, SameTable
  <2>2. "e_q_not_busy" \in Waits
    BY DEF Waits
  <2>3. ThreadsInv'
    BY <1>1, <1>2, <1>4, <2>2, SleepsKeep
  <2> QED BY <2>1, <2>3, InvFrom
<1>5. CASE mq' = [mq EXCEPT ![c.q] = Q!NoQueue] /\ Q!Returns(t, 0, {})
  <2> DEFINE r == Q!NoQueue
  <2>1. r \in QueueSet /\ Covered(r) /\ r.cbytes = 0 /\ r.key = 0
    BY NoQueueIs DEF Q!NoQueue
  <2> HIDE DEF r
  <2>2. mq' = [mq EXCEPT ![c.q] = r]
    BY <1>5 DEF r
  <2>3. mq[c.q].cbytes \in Nat /\ b_current \in Nat
    BY <1>1, <1>2, TableNumbers
  <2>4. q_current \in Nat
    BY <1>1 DEF TableRight
  <2>5. b_current' \in Int /\ b_current' >= b_current + r.cbytes - mq[c.q].cbytes
    BY <1>2, <2>1, <2>3
  <2>6. TableRight([mq EXCEPT ![c.q] = r], q_current, b_current')
    BY <1>1, <1>2, <2>1, <2>4, <2>5, TableChange
  <2>7. TableInv'
    BY <1>2, <2>2, <2>6 DEF TableInv
  <2>8. KeysApart(mq')
    <3>1. \A q \in Q!Queues : mq'[q] = IF q = c.q THEN r ELSE mq[q]
      BY <1>1, <1>2, <2>2 DEF TableRight
    <3> QED BY <1>1, <2>1, <3>1 DEF KeysApart
  <2>9. ThreadsInv'
    <3>1. {} \in SUBSET Waits
      OBVIOUS
    <3> QED BY <1>1, <1>2, <1>5, <3>1, ReturnsKeep
  <2> QED BY <2>7, <2>8, <2>9, InvFrom
<1> QED BY <1>3, <1>4, <1>5

\* What IPC_SET does to the table: the mode is set, and the size set or left.
Sets(c, n) == mq' = [mq EXCEPT ![c.q] = [mq[c.q] EXCEPT !.mode = c.mode, !.qbytes = n]]
LEMMA SetIs ==
  ASSUME QueuesInv, NEW c, c.q \in Q!Queues,
         mq' = [mq EXCEPT ![c.q].mode = c.mode,
                          ![c.q].qbytes = IF c.qbytes > @ /\ c.user # "super" THEN @ ELSE c.qbytes]
  PROVE  \E n \in {mq[c.q].qbytes, c.qbytes} : Sets(c, n)
<1>1. mq \in [Q!Queues -> QueueSet] /\ mq[c.q] \in QueueSet
  BY DEF QueuesInv, TableInv, TableRight
<1>2. CASE c.qbytes > mq[c.q].qbytes /\ c.user # "super"
  <2>1. Sets(c, mq[c.q].qbytes)
    BY <1>1, <1>2 DEF Sets, QueueSet
  <2> QED BY <2>1
<1>3. CASE ~(c.qbytes > mq[c.q].qbytes /\ c.user # "super")
  <2>1. Sets(c, c.qbytes)
    BY <1>1, <1>3 DEF Sets, QueueSet
  <2> QED BY <2>1
<1> QED BY <1>2, <1>3

LEMMA StepSet ==
  ASSUME QueuesInv, NEW t \in Q!Threads, NEW c, c.q \in Q!Queues, c.mode \in SUBSET {"r", "w"},
         NEW n \in Nat, Sets(c, n), Q!Returns(t, 0, {}), UNCHANGED <<q_current, b_current, guard, got>>
  PROVE  QueuesInv'
<1> DEFINE q == c.q
           r == [mq[q] EXCEPT !.mode = c.mode, !.qbytes = n]
<1>1. TableRight(mq, q_current, b_current) /\ Q!QueuesAssumption /\ ThreadsInv
  BY DEF QueuesInv, TableInv
<1>2. mq[q] \in QueueSet /\ mq[q].cbytes \in Nat /\ b_current \in Nat
  BY <1>1, TableNumbers
<1>3. r \in QueueSet /\ r.msgs = mq[q].msgs /\ r.cbytes = mq[q].cbytes /\ r.qnum = mq[q].qnum
      /\ r.key = mq[q].key
  BY <1>2 DEF QueueSet
<1>4. mq' = [mq EXCEPT ![q] = r] /\ q \in Q!Queues
  BY DEF Sets
<1> HIDE DEF q, r
<1>5. Covered(r)
  BY <1>1, <1>3, <1>4 DEF Covered, TableRight
<1>6. b_current' \in Int /\ b_current' >= b_current + r.cbytes - mq[q].cbytes
  BY <1>2, <1>3
<1>7. TableInv' /\ KeysApart(mq')
  BY <1>3, <1>4, <1>5, <1>6, OneQueue
<1>8. ThreadsInv'
  <2>1. {} \in SUBSET Waits /\ got' \in [Q!Threads -> Seq(Message)] /\ guard' \in Q!Threads \cup {Q!Free}
    BY <1>1 DEF ThreadsInv, ThreadsTyped
  <2> QED BY <1>1, <2>1, ReturnsKeep
<1> QED BY <1>7, <1>8, InvFrom

LEMMA StepCtl ==
  ASSUME QueuesInv, NEW t \in Q!Threads, NEW c, c.op = "msgctl", Q!GoodCall(c), Q!msgctl(t, c)
  PROVE  QueuesInv'
<1>1. guard \in Q!Threads \cup {Q!Free}
  BY DEF QueuesInv, ThreadsInv, ThreadsTyped
<1>2. CASE ~Q!msgq_valid(c.q) /\ Q!Returns(t, Q!EINVAL, {}) /\ guard' = t /\ UNCHANGED <<Q!table, got>>
  <2>1. UNCHANGED <<mq, q_current, b_current, got>>
    BY <1>2 DEF Q!table
  <2> QED BY <1>2, <2>1, OnlyReturns
<1>3. CASE Q!Returns(t, Q!Refused(c), {}) /\ UNCHANGED <<Q!table, guard, got>>
  <2>1. UNCHANGED <<mq, q_current, b_current, got>> /\ guard' \in Q!Threads \cup {Q!Free}
    BY <1>1, <1>3 DEF Q!table
  <2> QED BY <1>3, <2>1, OnlyReturns
<1>4. CASE /\ Q!msgq_valid(c.q) /\ c.cmd = "IPC_SET"
           /\ mq' = [mq EXCEPT ![c.q].mode = c.mode,
                               ![c.q].qbytes = IF c.qbytes > @ /\ c.user # "super" THEN @ ELSE c.qbytes]
           /\ Q!Returns(t, 0, {}) /\ UNCHANGED <<q_current, b_current, guard, got>>
  <2>1. c.q \in Q!Queues /\ c.qbytes \in Nat /\ c.mode \in SUBSET {"r", "w"}
    BY <1>4 DEF Q!msgq_valid, Q!GoodCall
  <2>2. mq[c.q].qbytes \in Nat
    BY <2>1 DEF QueuesInv, TableInv, TableRight, QueueSet
  <2>3. PICK n \in {mq[c.q].qbytes, c.qbytes} : Sets(c, n)
    BY <1>4, <2>1, SetIs
  <2>4. n \in Nat
    BY <2>1, <2>2, <2>3
  <2>5. Q!Returns(t, 0, {}) /\ UNCHANGED <<q_current, b_current, guard, got>>
    BY <1>4
  <2> QED BY <2>1, <2>3, <2>4, <2>5, StepSet
<1>5. CASE Q!msgq_valid(c.q) /\ Q!RemoveWhenIdle(t, c)
  <2>1. Pending(c)
    BY <1>5 DEF Pending, Q!msgq_valid
  <2> QED BY <1>5, <2>1, StepRemove
<1> QED BY <1>2, <1>3, <1>4, <1>5 DEF Q!msgctl

LEMMA StepDo ==
  ASSUME QueuesInv, NEW t \in Q!Threads, NEW c, Q!GoodCall(c), Q!Do(t, c)
  PROVE  QueuesInv'
<1>1. CASE c.op = "msgget"
  <2>1. Q!msgget(t, c)
    BY <1>1 DEF Q!Do
  <2> QED BY <1>1, <2>1, StepGet
<1>2. CASE c.op = "msgsnd"
  <2>1. Q!msgsnd(t, c)
    BY <1>2 DEF Q!Do
  <2>2. (\E e : Q!Fails(t, c, e)) \/ (Q!msgq_valid(c.q) /\ Q!SendNow(t, c))
    BY <2>1 DEF Q!msgsnd
  <2>3. CASE Q!msgq_valid(c.q) /\ Q!SendNow(t, c)
    <3>1. Pending(c)
      BY <1>2, <2>3 DEF Pending, Q!msgq_valid
    <3> QED BY <1>2, <2>3, <3>1, StepSend
  <2> QED BY <2>2, <2>3, StepFails
<1>3. CASE c.op = "msgrcv"
  <2>1. Q!msgrcv(t, c)
    BY <1>3 DEF Q!Do
  <2>2. (\E e : Q!Fails(t, c, e)) \/ (Q!msgq_valid(c.q) /\ Q!ReceiveNow(t, c))
    BY <2>1 DEF Q!msgrcv
  <2>3. CASE Q!msgq_valid(c.q) /\ Q!ReceiveNow(t, c)
    <3>1. Pending(c)
      BY <1>3, <2>3 DEF Pending, Q!msgq_valid
    <3> QED BY <1>3, <2>3, <3>1, StepReceive
  <2> QED BY <2>2, <2>3, StepFails
<1>4. CASE c.op = "msgctl"
  <2>1. Q!msgctl(t, c)
    BY <1>4 DEF Q!Do
  <2> QED BY <1>4, <2>1, StepCtl
<1>5. c.op \in {"msgget", "msgsnd", "msgrcv", "msgctl"}
  BY DEF Q!GoodCall
<1> QED BY <1>1, <1>2, <1>3, <1>4, <1>5

\* The calls of the test program are such as a program may make.
SetCall ==
  [op |-> "msgctl", q |-> 1, cmd |-> "IPC_SET", qbytes |-> TestBytes, mode |-> {"r", "w"}, user |-> "super"]
LEMMA TestCallGood ==
  ASSUME Q!QueuesAssumption, made \in [Q!Threads -> Nat], NEW t \in Q!Threads, NEW c \in Q!TestCall(t)
  PROVE  Q!GoodCall(c)
<1>1. {np, goal, DataSize, TestBytes} \subseteq Nat /\ t \in Int
  BY DEF Q!QueuesAssumption, Q!Threads
<1>2. \/ c = Q!Get(TRUE, TRUE) \/ c = Q!Get(FALSE, FALSE)
      \/ c = [op |-> "msgctl", q |-> result[t], cmd |-> "IPC_STAT", user |-> "super"]
      \/ c = SetCall
      \/ made[t] \in 1 .. goal /\ c = [op |-> "msgsnd", q |-> 1, type |-> t, len |-> DataSize, seq |-> made[t] - 1, nowait |-> FALSE]
      \/ c = [op |-> "msgrcv", q |-> 1, type |-> t - np, size |-> DataSize, nowait |-> FALSE]
  BY DEF Q!TestCall, SetCall
<1>3. CASE c = Q!Get(TRUE, TRUE) \/ c = Q!Get(FALSE, FALSE)
  BY <1>3 DEF Q!Get, Q!GoodCall, Q!MSGQ_KEY
<1>4. CASE c = [op |-> "msgctl", q |-> result[t], cmd |-> "IPC_STAT", user |-> "super"]
  BY <1>4 DEF Q!GoodCall
<1>5. CASE c = SetCall
  BY <1>1, <1>5 DEF Q!GoodCall, SetCall
<1>6. CASE made[t] \in 1 .. goal /\ c = [op |-> "msgsnd", q |-> 1, type |-> t, len |-> DataSize, seq |-> made[t] - 1, nowait |-> FALSE]
  <2>1. made[t] - 1 \in Nat
    BY <1>1, <1>6
  <2> QED BY <1>1, <1>6, <2>1 DEF Q!GoodCall
<1>7. CASE c = [op |-> "msgrcv", q |-> 1, type |-> t - np, size |-> DataSize, nowait |-> FALSE]
  BY <1>1, <1>7 DEF Q!GoodCall
<1> QED BY <1>2, <1>3, <1>4, <1>5, <1>6, <1>7

LEMMA CallsGood ==
  ASSUME QueuesInv, NEW t \in Q!Threads, NEW c \in Q!CallsOf(t)
  PROVE  Q!GoodCall(c)
<1>1. Q!QueuesAssumption /\ made \in [Q!Threads -> Nat]
  BY DEF QueuesInv, ThreadsInv, ThreadsTyped
<1>2. CASE program = "test"
  BY <1>1, <1>2, TestCallGood DEF Q!CallsOf
<1>3. CASE program # "test"
  BY <1>1, <1>3 DEF Q!CallsOf, Q!QueuesAssumption
<1> QED BY <1>2, <1>3

LEMMA StepAgain ==
  ASSUME QueuesInv, NEW t \in Q!Threads, Q!Again(t)
  PROVE  QueuesInv'
<1>1. qAt[t] = "awake"
  BY DEF Q!Again
<1>2. call[t] # Q!NoCall /\ Pending(call[t])
  BY <1>1 DEF QueuesInv, ThreadsInv, InCalls
<1>3. \/ call[t].op = "msgsnd" /\ Q!SendNow(t, call[t])
      \/ call[t].op = "msgrcv" /\ Q!ReceiveNow(t, call[t])
      \/ call[t].op = "msgctl" /\ Q!RemoveWhenIdle(t, call[t])
  BY <1>2 DEF Q!Again, Pending
<1> QED BY <1>2, <1>3, StepSend, StepReceive, StepRemove

\* Only where threads are changes.
LEMMA StepPlaces ==
  ASSUME QueuesInv, NEW t \in Q!Threads, Q!TimeOut(t) \/ Q!End(t)
  PROVE  QueuesInv'
<1>1. /\ UNCHANGED <<mq, q_current, b_current, call, made, result, got>>
      /\ \/ qAt' = [qAt EXCEPT ![t] = "awake"] /\ qAt[t] \in Waits /\ guard' = guard
         \/ qAt' = [qAt EXCEPT ![t] = "over"] /\ qAt[t] = "idle" /\ guard' \in {guard, Q!Free}
  BY DEF Q!TimeOut, Q!End, Q!table, Waits
<1>2. TableInv' /\ KeysApart(mq')
  BY <1>1, SameTable
<1>3. ThreadsInv
  BY DEF QueuesInv
<1>4. ThreadsTyped'
  BY <1>1, <1>3 DEF ThreadsInv, ThreadsTyped
<1>5. InCalls'
  BY <1>1, <1>3 DEF ThreadsInv, ThreadsTyped, InCalls, Waits, Pending, Q!GoodCall
<1>6. ThreadsInv'
  BY <1>4, <1>5 DEF ThreadsInv
<1> QED BY <1>2, <1>6, InvFrom

LEMMA QueuesInvStep == QueuesInv /\ (Q!Next \/ UNCHANGED Q!vars) => QueuesInv'
<1> SUFFICES ASSUME QueuesInv, Q!Next \/ UNCHANGED Q!vars PROVE QueuesInv'
  OBVIOUS
<1>1. ASSUME NEW t \in Q!Threads, Q!Begin(t) PROVE QueuesInv'
  <2>1. PICK c \in Q!CallsOf(t) : Q!Do(t, c)
    BY <1>1 DEF Q!Begin
  <2> QED BY <2>1, CallsGood, StepDo
<1>2. CASE UNCHANGED Q!vars
  BY <1>2 DEF Q!vars, QueuesInv, TableInv, ThreadsInv, ThreadsTyped, InCalls
<1> QED BY <1>1, <1>2, StepAgain, StepPlaces DEF Q!Next

LEMMA QueuesInvInit == Q!QueuesAssumption /\ (Q!Init \/ NoQueues) => QueuesInv
<1> SUFFICES ASSUME Q!QueuesAssumption, Q!Init \/ NoQueues PROVE QueuesInv
  OBVIOUS
<1>1. PICK p, b : Q!InitOf(p, b)
  BY DEF Q!Init, NoQueues
<1>2. mq = [q \in Q!Queues |-> Q!NoQueue] /\ q_current = 0 /\ b_current = 0
  BY <1>1 DEF Q!InitOf
<1>3. TableInv
  <2>1. mq \in [Q!Queues -> QueueSet] /\ \A q \in Q!Queues : Covered(mq[q])
    BY <1>2, NoQueueIs
  <2>2. \A q \in Q!Queues : CountsOf(mq)[q] = 0
    BY <1>2 DEF CountsOf, Q!NoQueue
  <2>3. SumOf(Q!Queues, CountsOf(mq)) = 0
    <3>1. MSG_MAX_NUMBER_QUEUES \in Nat /\ 0 \in Nat /\ MSG_MAX_NUMBER_QUEUES * 0 = 0
      BY DEF Q!QueuesAssumption
    <3>2. \A q \in 1 .. MSG_MAX_NUMBER_QUEUES : CountsOf(mq)[q] = 0
      BY <2>2 DEF Q!Queues
    <3>3. SumOf(1 .. MSG_MAX_NUMBER_QUEUES, CountsOf(mq)) = MSG_MAX_NUMBER_QUEUES * 0
      BY <3>1, <3>2, SumOfSame
    <3> QED BY <3>1, <3>3 DEF Q!Queues
  <2> QED BY <1>2, <2>1, <2>3 DEF TableInv, TableRight
<1>4. KeysApart(mq)
  BY <1>2 DEF KeysApart, Q!NoQueue
<1>5. ThreadsInv
  BY <1>1 DEF Q!InitOf, ThreadsInv, ThreadsTyped, InCalls, Q!Free
<1> QED BY <1>3, <1>4, <1>5 DEF QueuesInv

LEMMA QueuesSteps == [Next]_vars => Q!Next \/ UNCHANGED Q!vars
BY DEF Next, vars, queues, Q!vars

LEMMA QueuesTyped == QueuesInv => Q!TypeOK
<1> SUFFICES ASSUME QueuesInv PROVE Q!TypeOK
  OBVIOUS
<1>1. TableRight(mq, q_current, b_current) /\ Q!QueuesAssumption /\ ThreadsInv
  BY DEF QueuesInv, TableInv
<1>2. b_current \in Nat /\ \A q \in Q!Queues : mq[q].cbytes \in Nat /\ mq[q].qnum \in Nat
  BY <1>1, TableNumbers
<1>3. q_current \in Nat
  BY <1>1 DEF TableRight
<1>4. guard \in Q!Threads \cup {Q!Free}
  BY <1>1 DEF ThreadsInv, ThreadsTyped
<1>5. \A t \in Q!Threads :
        /\ qAt[t] \in {"idle", "e_qne", "e_qnf", "e_q_not_busy", "awake", "over"}
        /\ (qAt[t] \in {"idle", "over"} <=> call[t] = Q!NoCall)
  BY <1>1 DEF ThreadsInv, ThreadsTyped, InCalls, Waits
<1> QED BY <1>2, <1>3, <1>4, <1>5 DEF Q!TypeOK

LEMMA CountsAreRight == QueuesInv => Q!CountsCover /\ Q!KeysUnique
<1> SUFFICES ASSUME QueuesInv PROVE Q!CountsCover /\ Q!KeysUnique
  OBVIOUS
<1>1. TableRight(mq, q_current, b_current) /\ Q!QueuesAssumption /\ KeysApart(mq)
  BY DEF QueuesInv, TableInv
<1>2. ASSUME NEW q \in Q!Queues PROVE mq[q].cbytes >= Q!Bytes(q)
  <2>1. mq[q].msgs \in Seq(Message) /\ mq[q].cbytes \in Nat /\ LongSize \in Nat
    BY <1>1, TableNumbers DEF Q!QueuesAssumption
  <2> DEFINE s == mq[q].msgs
  <2>2. Q!Bytes(q) = Q!FoldSeq(LAMBDA m, sum : m.len + LongSize + sum, 0, s)
    BY DEF Q!Bytes
  <2> HIDE DEF s
  <2>3. Q!Bytes(q) = Holds(s) /\ Holds(s) \in Nat
    BY <2>1, <2>2, BytesIs, HoldsNumber DEF s
  <2>4. Holds(s) <= mq[q].cbytes
    BY <1>1 DEF TableRight, Covered, s
  <2> QED BY <2>1, <2>3, <2>4
<1>3. b_current >= Q!FoldFunction(+, 0, [q \in Q!Queues |-> mq[q].cbytes])
  <2> DEFINE f == [q \in Q!Queues |-> mq[q].cbytes]
  <2>1. f = CountsOf(mq) /\ DOMAIN f = Q!Queues /\ IsFiniteSet(Q!Queues)
    BY <1>1, QueuesFinite DEF CountsOf
  <2> HIDE DEF f
  <2>2. Q!FoldFunction(+, 0, f) = SumOf(DOMAIN f, f)
    BY <2>1, FoldIsSum
  <2>3. SumOf(Q!Queues, CountsOf(mq)) <= b_current
    BY <1>1 DEF TableRight
  <2>4. b_current \in Int /\ SumOf(Q!Queues, CountsOf(mq)) \in Nat
    <3>1. \A q \in Q!Queues : CountsOf(mq)[q] \in Nat
      BY <1>1, TableNumbers DEF CountsOf
    <3> QED BY <1>1, <2>1, <3>1, SumNumber DEF TableRight
  <2>5. Q!FoldFunction(+, 0, f) = SumOf(Q!Queues, CountsOf(mq))
    BY <2>1, <2>2
  <2>6. b_current >= Q!FoldFunction(+, 0, f)
    BY <2>3, <2>4, <2>5
  <2> QED BY <2>6 DEF f
<1>4. Q!KeysUnique
  BY <1>1 DEF KeysApart, Q!KeysUnique
<1> QED BY <1>2, <1>3, <1>4 DEF Q!CountsCover

-----------------------------------------------------------------------------
(* The messages of the test program: of each producer, those in the queue  *)
(* are the ones that its consumer has not received, in order.              *)

\* The messages sent by a producer that has returned from n calls.
SentIn(n) == IF n = 0 THEN 0 ELSE n - 1
OnWay(s, g, m) ==
  /\ \A p \in Q!Producers : Len(g[p + np]) <= SentIn(m[p])
  /\ \A i \in 1 .. Len(s) :
       /\ s[i].type \in Q!Producers
       /\ Len(g[s[i].type + np]) <= s[i].seq /\ s[i].seq < SentIn(m[s[i].type])
  /\ \A i, j \in 1 .. Len(s) : i < j /\ s[i].type = s[j].type => s[i].seq < s[j].seq
  /\ \A p \in Q!Producers : \A n \in Nat :
       Len(g[p + np]) <= n /\ n < SentIn(m[p]) => \E i \in 1 .. Len(s) : s[i].type = p /\ s[i].seq = n

LEMMA OnWaySame ==
  ASSUME NEW s, NEW g, NEW m, NEW g2, NEW m2, OnWay(s, g, m),
         \A p \in Q!Producers : Len(g2[p + np]) = Len(g[p + np]) /\ SentIn(m2[p]) = SentIn(m[p])
  PROVE  OnWay(s, g2, m2)
BY DEF OnWay

\* A message more is the next one of its producer.
LEMMA OnWayMore ==
  ASSUME NEW s \in Seq(Message), NEW g, NEW m, NEW m2, OnWay(s, g, m), NEW t \in Q!Producers,
         NEW e \in Message, e.type = t, e.seq = SentIn(m[t]), SentIn(m[t]) \in Nat,
         \A p \in Q!Producers : Len(g[p + np]) \in Nat,
         SentIn(m2[t]) = SentIn(m[t]) + 1, \A p \in Q!Producers \ {t} : SentIn(m2[p]) = SentIn(m[p])
  PROVE  OnWay(Append(s, e), g, m2)
<1> DEFINE r == Append(s, e)  k == Len(s)
<1>1. k \in Nat /\ Len(r) = k + 1 /\ r[k + 1] = e /\ \A i \in 1 .. k : r[i] = s[i] /\ s[i] \in Message
  OBVIOUS
<1> HIDE DEF r, k
<1>2. /\ \A p \in Q!Producers : Len(g[p + np]) <= SentIn(m[p])
      /\ \A i \in 1 .. k :
           /\ s[i].type \in Q!Producers
           /\ Len(g[s[i].type + np]) <= s[i].seq /\ s[i].seq < SentIn(m[s[i].type])
      /\ \A i, j \in 1 .. k : i < j /\ s[i].type = s[j].type => s[i].seq < s[j].seq
      /\ \A p \in Q!Producers : \A n \in Nat :
           Len(g[p + np]) <= n /\ n < SentIn(m[p]) => \E i \in 1 .. k : s[i].type = p /\ s[i].seq = n
  BY DEF OnWay, k
<1>3. \A i \in 1 .. k : s[i].seq \in Nat
  BY <1>1 DEF Message
<1>4. \A i \in 1 .. Len(r) : i \in 1 .. k \/ i = k + 1
  BY <1>1
<1>5. \A p \in Q!Producers : Len(g[p + np]) <= SentIn(m2[p])
  <2> TAKE p \in Q!Producers
  <2>1. CASE p = t
    BY <1>2, <2>1
  <2>2. CASE p # t
    BY <1>2, <2>2
  <2> QED BY <2>1, <2>2
<1>6. ASSUME NEW i \in 1 .. Len(r)
      PROVE  /\ r[i].type \in Q!Producers
             /\ Len(g[r[i].type + np]) <= r[i].seq /\ r[i].seq < SentIn(m2[r[i].type])
  <2>1. CASE i = k + 1
    BY <1>1, <1>2, <2>1
  <2>2. CASE i \in 1 .. k
    <3>1. r[i] = s[i] /\ s[i].type \in Q!Producers /\ Len(g[s[i].type + np]) <= s[i].seq
          /\ s[i].seq < SentIn(m[s[i].type]) /\ s[i].seq \in Nat
      BY <1>1, <1>2, <1>3, <2>2
    <3>2. CASE s[i].type = t
      BY <3>1, <3>2
    <3>3. CASE s[i].type # t
      BY <3>1, <3>3
    <3> QED BY <3>2, <3>3
  <2> QED BY <1>4, <2>1, <2>2
<1>7. ASSUME NEW i \in 1 .. Len(r), NEW j \in 1 .. Len(r), i < j, r[i].type = r[j].type
      PROVE  r[i].seq < r[j].seq
  <2>1. i \in 1 .. k /\ r[i] = s[i]
    BY <1>1, <1>7
  <2>2. CASE j = k + 1
    <3>1. r[j] = e
      BY <1>1, <2>2
    <3>2. s[i].type = t
      BY <1>7, <2>1, <3>1
    <3>3. s[i].seq < SentIn(m[t])
      BY <1>2, <2>1, <3>2
    <3> QED BY <2>1, <3>1, <3>3
  <2>3. CASE j \in 1 .. k
    <3>1. r[j] = s[j]
      BY <1>1, <2>3
    <3> QED BY <1>2, <1>7, <2>1, <2>3, <3>1
  <2> QED BY <1>4, <2>2, <2>3
<1>8. ASSUME NEW p \in Q!Producers, NEW n \in Nat, Len(g[p + np]) <= n, n < SentIn(m2[p])
      PROVE  \E i \in 1 .. Len(r) : r[i].type = p /\ r[i].seq = n
  <2>1. CASE n < SentIn(m[p])
    <3>1. PICK i \in 1 .. k : s[i].type = p /\ s[i].seq = n
      BY <1>2, <1>8, <2>1
    <3>2. i \in 1 .. Len(r) /\ r[i] = s[i]
      BY <1>1, <3>1
    <3> QED BY <3>1, <3>2
  <2>2. CASE ~(n < SentIn(m[p]))
    <3>1. p = t
      BY <1>8, <2>2
    <3>2. n = SentIn(m[t])
      BY <1>8, <2>2, <3>1
    <3>3. k + 1 \in 1 .. Len(r) /\ r[k + 1] = e
      BY <1>1
    <3> QED BY <3>1, <3>2, <3>3
  <2> QED BY <2>1, <2>2
<1>9. OnWay(r, g, m2)
  BY <1>5, <1>6, <1>7, <1>8 DEF OnWay
<1> QED BY <1>9 DEF r

\* What a consumer takes is the next message of its producer.
LEMMA OnWayLess ==
  ASSUME NEW s \in Seq(Message), NEW g, NEW m, OnWay(s, g, m), NEW t \in Q!Producers,
         NEW i \in Fit(s, t), \A j \in Fit(s, t) : i <= j, t \in Nat \ {0},
         \A p \in Q!Producers : Len(g[p + np]) \in Nat /\ SentIn(m[p]) \in Nat,
         NEW g2, Len(g2[t + np]) = Len(g[t + np]) + 1,
         \A p \in Q!Producers \ {t} : Len(g2[p + np]) = Len(g[p + np])
  PROVE  OnWay(Q!RemoveAt(s, i), g2, m) /\ s[i].type = t /\ s[i].seq = Len(g[t + np])
<1> DEFINE r == Q!RemoveAt(s, i)  k == Len(s)  l == Len(g[t + np])
<1>1. k \in Nat /\ i \in 1 .. k /\ s[i].type = t /\ \A j \in 1 .. k : s[j].type = t => i <= j
  BY DEF Fit
<1>2. Len(r) = k - 1 /\ \A j \in 1 .. k - 1 : r[j] = IF j < i THEN s[j] ELSE s[j + 1]
  BY <1>1, RemoveAtIs
<1>3. \A j \in 1 .. k : s[j].seq \in Nat
  <2> TAKE j \in 1 .. k
  <2>1. s[j] \in Message
    OBVIOUS
  <2> QED BY <2>1 DEF Message
<1> HIDE DEF r, k
<1>4. /\ \A p \in Q!Producers : Len(g[p + np]) <= SentIn(m[p])
      /\ \A j \in 1 .. k :
           /\ s[j].type \in Q!Producers
           /\ Len(g[s[j].type + np]) <= s[j].seq /\ s[j].seq < SentIn(m[s[j].type])
      /\ \A h, j \in 1 .. k : h < j /\ s[h].type = s[j].type => s[h].seq < s[j].seq
      /\ \A p \in Q!Producers : \A n \in Nat :
           Len(g[p + np]) <= n /\ n < SentIn(m[p]) => \E j \in 1 .. k : s[j].type = p /\ s[j].seq = n
  BY DEF OnWay, k
<1>5. l \in Nat /\ l <= s[i].seq /\ s[i].seq < SentIn(m[t]) /\ SentIn(m[t]) \in Nat /\ s[i].seq \in Nat
  BY <1>1, <1>3, <1>4
<1>6. s[i].seq = l
  <2>1. l < SentIn(m[t])
    BY <1>5
  <2>2. PICK j \in 1 .. k : s[j].type = t /\ s[j].seq = l
    BY <1>4, <1>5, <2>1
  <2>3. i <= j
    BY <1>1, <2>2
  <2>4. CASE i < j
    BY <1>1, <1>4, <1>5, <2>2, <2>4
  <2>5. CASE i = j
    BY <2>2, <2>5
  <2> QED BY <1>1, <2>3, <2>4, <2>5
\* Where the messages that are left were.
<1> DEFINE w(j) == IF j < i THEN j ELSE j + 1
<1>7. \A j \in 1 .. k - 1 : w(j) \in 1 .. k \ {i} /\ r[j] = s[w(j)]
  BY <1>1, <1>2
<1>8. \A h, j \in 1 .. k - 1 : h < j => w(h) < w(j)
  BY <1>1
<1>9. \A x \in 1 .. k \ {i} : \E j \in 1 .. k - 1 : w(j) = x
  <2> TAKE x \in 1 .. k \ {i}
  <2>1. CASE x < i
    <3>1. x \in 1 .. k - 1 /\ w(x) = x
      BY <1>1, <2>1
    <3> QED BY <3>1
  <2>2. CASE ~(x < i)
    <3>1. x - 1 \in 1 .. k - 1 /\ w(x - 1) = x
      BY <1>1, <2>2
    <3> QED BY <3>1
  <2> QED BY <2>1, <2>2
<1> HIDE DEF w, l
<1>10. \A p \in Q!Producers : Len(g2[p + np]) <= SentIn(m[p])
  <2> TAKE p \in Q!Producers
  <2>1. CASE p = t
    <3>1. Len(g2[p + np]) = l + 1
      BY <2>1 DEF l
    <3> QED BY <1>5, <1>6, <2>1, <3>1
  <2>2. CASE p # t
    BY <1>4, <2>2
  <2> QED BY <2>1, <2>2
<1>11. ASSUME NEW x \in 1 .. k \ {i}
       PROVE  /\ s[x].type \in Q!Producers
              /\ Len(g2[s[x].type + np]) <= s[x].seq /\ s[x].seq < SentIn(m[s[x].type])
  <2>1. x \in 1 .. k /\ x # i /\ s[x].type \in Q!Producers /\ s[x].seq < SentIn(m[s[x].type])
        /\ Len(g[s[x].type + np]) <= s[x].seq
    BY <1>4
  <2>2. CASE s[x].type = t
    <3>1. i < x
      BY <1>1, <2>1, <2>2
    <3>2. s[i].seq < s[x].seq /\ s[x].seq \in Nat
      BY <1>1, <1>3, <1>4, <2>1, <2>2, <3>1
    <3>3. l + 1 <= s[x].seq
      BY <1>5, <1>6, <3>2
    <3>4. Len(g2[s[x].type + np]) = l + 1
      BY <2>2 DEF l
    <3> QED BY <2>1, <3>3, <3>4
  <2>3. CASE s[x].type # t
    BY <2>1, <2>3
  <2> QED BY <2>2, <2>3
<1>12. ASSUME NEW p \in Q!Producers, NEW n \in Nat, Len(g2[p + np]) <= n, n < SentIn(m[p])
       PROVE  \E j \in 1 .. Len(r) : r[j].type = p /\ r[j].seq = n
  <2>1. Len(g[p + np]) <= n /\ (p = t => n # l)
    <3>1. CASE p = t
      <4>1. l + 1 <= n
        BY <1>12, <3>1 DEF l
      <4>2. l = Len(g[p + np])
        BY <3>1 DEF l
      <4> QED BY <1>5, <4>1, <4>2
    <3>2. CASE p # t
      BY <1>12, <3>2
    <3> QED BY <3>1, <3>2
  <2>2. PICK x \in 1 .. k : s[x].type = p /\ s[x].seq = n
    BY <1>4, <1>12, <2>1
  <2>3. x # i
    BY <1>1, <1>6, <2>1, <2>2
  <2>4. PICK j \in 1 .. k - 1 : w(j) = x
    BY <1>9, <2>2, <2>3
  <2>5. j \in 1 .. Len(r) /\ r[j] = s[x]
    BY <1>2, <1>7, <2>4
  <2> QED BY <2>2, <2>5
<1>13. ASSUME NEW h \in 1 .. Len(r), NEW j \in 1 .. Len(r), h < j, r[h].type = r[j].type
       PROVE  r[h].seq < r[j].seq
  <2>1. h \in 1 .. k - 1 /\ j \in 1 .. k - 1
    BY <1>2
  <2>2. w(h) \in 1 .. k /\ w(j) \in 1 .. k /\ r[h] = s[w(h)] /\ r[j] = s[w(j)]
    BY <1>7, <2>1
  <2>3. w(h) < w(j)
    BY <1>8, <1>13, <2>1
  <2> QED BY <1>4, <1>13, <2>2, <2>3
<1>14. \A j \in 1 .. Len(r) :
         /\ r[j].type \in Q!Producers
         /\ Len(g2[r[j].type + np]) <= r[j].seq /\ r[j].seq < SentIn(m[r[j].type])
  BY <1>2, <1>7, <1>11
<1>15. OnWay(r, g2, m)
  <2>1. \A h, j \in 1 .. Len(r) : h < j /\ r[h].type = r[j].type => r[h].seq < r[j].seq
    BY <1>13
  <2>2. \A p \in Q!Producers : \A n \in Nat :
          Len(g2[p + np]) <= n /\ n < SentIn(m[p]) => \E j \in 1 .. Len(r) : r[j].type = p /\ r[j].seq = n
    BY <1>12
  <2> QED BY <1>10, <1>14, <2>1, <2>2, Zenon DEF OnWay
<1> QED BY <1>1, <1>6, <1>15 DEF r, l

-----------------------------------------------------------------------------
(* The test program.                                                       *)

SendCall(t) ==
  [op |-> "msgsnd", q |-> 1, type |-> t, len |-> DataSize, seq |-> made[t] - 1, nowait |-> FALSE]
ReceiveCall(t) ==
  [op |-> "msgrcv", q |-> 1, type |-> t - np, size |-> DataSize, nowait |-> FALSE]
Sends(t, c) == t \in Q!Producers /\ made[t] > 0 /\ c = SendCall(t)
Receives(t, c) == t \in Q!Consumers /\ made[t] > 0 /\ c = ReceiveCall(t)
\* main makes its calls first.
MainFirst == \A t \in Q!Threads : made[t] > 0 => made[Q!main] > 0
CallsKnown == \A t \in Q!Threads : call[t] # Q!NoCall => Sends(t, call[t]) \/ Receives(t, call[t])
NoneMade == q_current = 0 /\ mq = [q \in Q!Queues |-> Q!NoQueue]
TestQueue == mq[1].key = Q!MSGQ_KEY /\ mq[1].mode = {"r", "w"}
InSequence ==
  \A c \in Q!Consumers : \A i \in 1 .. Len(got[c]) :
    got[c][i].type = c - np /\ got[c][i].seq = i - 1
TestInv ==
  /\ MainFirst /\ CallsKnown
  /\ IF made[Q!main] = 0 THEN NoneMade ELSE TestQueue
  /\ OnWay(mq[1].msgs, got, made) /\ InSequence

LEMMA TestNumbers ==
  ASSUME QueuesInv
  PROVE  /\ np \in Nat /\ Q!main \in Q!Threads /\ Q!main \notin Q!Producers
         /\ \A p \in Q!Producers : /\ p \in Nat \ {0} /\ p \in Q!Threads /\ p + np \in Q!Consumers
                                   /\ p \notin Q!Consumers
                                   /\ p + np \in Q!Threads /\ Len(got[p + np]) \in Nat
                                   /\ made[p] \in Nat /\ SentIn(made[p]) \in Nat
         /\ \A c \in Q!Consumers : c - np \in Q!Producers /\ c - np + np = c /\ c \notin Q!Producers
                                   /\ c \in Q!Threads
         /\ made \in [Q!Threads -> Nat] /\ got \in [Q!Threads -> Seq(Message)]
         /\ DOMAIN call = Q!Threads
         /\ 1 \in Q!Queues /\ mq[1] \in QueueSet /\ mq[1].msgs \in Seq(Message)
         /\ mq \in [Q!Queues -> QueueSet]
<1>1. Q!QueuesAssumption /\ ThreadsTyped /\ TableRight(mq, q_current, b_current)
  BY DEF QueuesInv, ThreadsInv, TableInv
<1>2. np \in Nat
  BY <1>1 DEF Q!QueuesAssumption
<1>3. \A p \in Q!Producers : /\ p \in Nat \ {0} /\ p \in Q!Threads /\ p + np \in Q!Consumers
                             /\ p \notin Q!Consumers /\ p + np \in Q!Threads
  BY <1>2 DEF Q!Producers, Q!Consumers, Q!Threads
<1>4. \A c \in Q!Consumers : c - np \in Q!Producers /\ c - np + np = c /\ c \notin Q!Producers
                             /\ c \in Q!Threads
  BY <1>2 DEF Q!Producers, Q!Consumers, Q!Threads
<1>5. Q!main \in Q!Threads /\ Q!main \notin Q!Producers
  BY <1>2 DEF Q!Producers, Q!main, Q!Threads
<1>6. made \in [Q!Threads -> Nat] /\ got \in [Q!Threads -> Seq(Message)] /\ DOMAIN call = Q!Threads
  BY <1>1 DEF ThreadsTyped
<1>7. \A p \in Q!Producers : made[p] \in Nat /\ SentIn(made[p]) \in Nat /\ Len(got[p + np]) \in Nat
  <2> TAKE p \in Q!Producers
  <2>1. made[p] \in Nat /\ got[p + np] \in Seq(Message)
    BY <1>3, <1>6
  <2>2. SentIn(made[p]) \in Nat
    BY <2>1 DEF SentIn
  <2> QED BY <2>1, <2>2
<1>8. 1 \in Q!Queues
  BY <1>1, QueuesFinite
<1>9. mq[1] \in QueueSet /\ mq[1].msgs \in Seq(Message)
  BY <1>1, <1>8, TableNumbers
<1>10. mq \in [Q!Queues -> QueueSet]
  BY <1>1 DEF TableRight
<1> QED BY <1>2, <1>3, <1>4, <1>5, <1>6, <1>7, <1>8, <1>9, <1>10

\* The calls after one of them returned.
LEMMA TestReturns ==
  ASSUME QueuesInv, TestInv, NEW t \in Q!Threads, NEW v, NEW cvs, Q!Returns(t, v, cvs),
         t = Q!main \/ made[Q!main] > 0
  PROVE  /\ MainFirst' /\ CallsKnown' /\ made'[Q!main] # 0
         /\ made'[t] = made[t] + 1 /\ \A u \in Q!Threads \ {t} : made'[u] = made[u]
<1>1. made \in [Q!Threads -> Nat] /\ DOMAIN call = Q!Threads /\ Q!main \in Q!Threads
  BY TestNumbers
<1>2. made' = [made EXCEPT ![t] = @ + 1] /\ call' = [call EXCEPT ![t] = Q!NoCall]
  BY DEF Q!Returns
<1>3. made'[t] = made[t] + 1 /\ \A u \in Q!Threads \ {t} : made'[u] = made[u]
  BY <1>1, <1>2
<1>4. made'[Q!main] > 0
  BY <1>1, <1>3
<1>5. CallsKnown'
  <2> SUFFICES ASSUME NEW u \in Q!Threads, call'[u] # Q!NoCall
               PROVE  (Sends(u, call[u]) \/ Receives(u, call[u]))'
    BY DEF CallsKnown
  <2>1. u # t /\ call'[u] = call[u] /\ made'[u] = made[u]
    BY <1>1, <1>2, <1>3
  <2>2. Sends(u, call[u]) \/ Receives(u, call[u])
    BY <2>1 DEF TestInv, CallsKnown
  <2> QED BY <2>1, <2>2 DEF Sends, Receives, SendCall, ReceiveCall
<1>6. MainFirst' /\ made'[Q!main] # 0
  <2>1. made'[Q!main] # 0
    BY <1>1, <1>3
  <2> QED BY <1>4, <2>1 DEF MainFirst
<1> QED BY <1>3, <1>5, <1>6

\* And while one of them waits.
LEMMA TestSleeps ==
  ASSUME QueuesInv, TestInv, NEW t \in Q!Threads, NEW c, NEW cv, Q!Sleeps(t, c, cv, {}),
         Sends(t, c) \/ Receives(t, c)
  PROVE  /\ MainFirst' /\ CallsKnown' /\ made' = made /\ made'[Q!main] # 0
<1>1. made \in [Q!Threads -> Nat] /\ DOMAIN call = Q!Threads /\ Q!main \in Q!Threads
  BY TestNumbers
<1>2. made' = made /\ call' = [call EXCEPT ![t] = c]
  BY DEF Q!Sleeps
<1>3. MainFirst' /\ MainFirst
  BY <1>2 DEF MainFirst, TestInv
<1>4. CallsKnown'
  <2> SUFFICES ASSUME NEW u \in Q!Threads, call'[u] # Q!NoCall
               PROVE  (Sends(u, call[u]) \/ Receives(u, call[u]))'
    BY DEF CallsKnown
  <2>1. CASE u = t
    <3>1. call'[u] = c
      BY <1>1, <1>2, <2>1
    <3> QED BY <1>2, <2>1, <3>1 DEF Sends, Receives, SendCall, ReceiveCall
  <2>2. CASE u # t
    <3>1. call'[u] = call[u]
      BY <1>1, <1>2, <2>2
    <3>2. Sends(u, call[u]) \/ Receives(u, call[u])
      BY <3>1 DEF TestInv, CallsKnown
    <3> QED BY <1>2, <3>1, <3>2 DEF Sends, Receives, SendCall, ReceiveCall
  <2> QED BY <2>1, <2>2
<1>5. made[t] > 0
  BY DEF Sends, Receives
<1>6. made[Q!main] > 0
  BY <1>3, <1>5 DEF MainFirst
<1>7. made'[Q!main] # 0
  BY <1>1, <1>2, <1>6
<1> QED BY <1>2, <1>3, <1>4, <1>7

\* A step that leaves the messages, and what was received, as they are.
LEMMA TestQuiet ==
  ASSUME QueuesInv, TestInv, MainFirst', CallsKnown', made'[Q!main] # 0, TestQueue',
         mq'[1].msgs = mq[1].msgs, got' = got,
         \A p \in Q!Producers : SentIn(made'[p]) = SentIn(made[p])
  PROVE  TestInv'
<1>1. OnWay(mq[1].msgs, got, made) /\ InSequence
  BY DEF TestInv
<1>2. OnWay(mq'[1].msgs, got', made')
  BY <1>1, OnWaySame
<1>3. InSequence'
  BY <1>1 DEF InSequence
<1> QED BY <1>2, <1>3 DEF TestInv

\* A call that returns and is none of a producer's messages.
LEMMA TestAnswer ==
  ASSUME QueuesInv, TestInv, NEW t \in Q!Threads, NEW v, NEW cvs, Q!Returns(t, v, cvs),
         t = Q!main \/ made[Q!main] > 0, TestQueue', mq'[1].msgs = mq[1].msgs, got' = got,
         t \in Q!Producers => made[t] = 0
  PROVE  TestInv'
<1>1. /\ MainFirst' /\ CallsKnown' /\ made'[Q!main] # 0
      /\ made'[t] = made[t] + 1 /\ \A u \in Q!Threads \ {t} : made'[u] = made[u]
  BY TestReturns
<1>2. \A p \in Q!Producers : SentIn(made'[p]) = SentIn(made[p])
  <2> TAKE p \in Q!Producers
  <2>1. p \in Q!Threads
    BY TestNumbers
  <2>2. CASE p = t
    BY <1>1, <2>2 DEF SentIn
  <2>3. CASE p # t
    BY <1>1, <2>1, <2>3 DEF SentIn
  <2> QED BY <2>2, <2>3
<1> QED BY <1>1, <1>2, TestQuiet

LEMMA TestBusy ==
  ASSUME QueuesInv, NEW y, mq' = [mq EXCEPT ![1] = [mq[1] EXCEPT !.busy = y]], TestQueue
  PROVE  TestQueue' /\ mq'[1].msgs = mq[1].msgs
<1>1. mq'[1] = [mq[1] EXCEPT !.busy = y] /\ mq[1] \in QueueSet
  BY TestNumbers
<1> QED BY <1>1 DEF QueueSet, TestQueue

LEMMA StepTestSend ==
  ASSUME QueuesInv, TestInv, NEW t \in Q!Threads, NEW c, Sends(t, c), Q!SendNow(t, c)
  PROVE  TestInv'
<1>1. t \in Q!Producers /\ made[t] > 0 /\ c = SendCall(t)
  BY DEF Sends
<1>2. c.q = 1 /\ c.type = t /\ c.len = DataSize /\ c.seq = made[t] - 1
  BY <1>1 DEF SendCall
<1>3. made[Q!main] > 0
  BY <1>1 DEF TestInv, MainFirst
<1>4. TestQueue /\ OnWay(mq[1].msgs, got, made) /\ InSequence
  BY <1>3 DEF TestInv
<1>5. mq \in [Q!Queues -> QueueSet] /\ 1 \in Q!Queues /\ mq[1] \in QueueSet /\ mq[1].msgs \in Seq(Message)
      /\ made[t] \in Nat
  BY <1>1, TestNumbers
<1>6. got' = got
  BY DEF Q!SendNow
<1>7. CASE Q!not_full(c.len, c.q, 0)
  <2> DEFINE e == [type |-> t, len |-> DataSize, seq |-> made[t] - 1]
  <2>1. /\ mq' = [mq EXCEPT ![1] = [[mq[1] EXCEPT
                   !.msgs = Append(@, e),
                   !.cbytes = @ + Q!update_status(c.len).bytes, !.qnum = @ + Q!update_status(c.len).qnum]
                   EXCEPT !.busy = FALSE]]
        /\ Q!Returns(t, 0, {"e_qne", "e_q_not_busy"})
    BY <1>2, <1>7 DEF Q!SendNow, Q!Unbusy
  <2>2. e \in Message /\ e.type = t /\ e.seq = SentIn(made[t]) /\ SentIn(made[t]) \in Nat
    <3>1. DataSize \in Nat /\ t \in Nat
      BY <1>1, TestNumbers DEF QueuesInv, Q!QueuesAssumption
    <3>2. made[t] - 1 \in Nat /\ SentIn(made[t]) = made[t] - 1
      BY <1>1, <1>5 DEF SentIn
    <3> QED BY <3>1, <3>2 DEF Message
  <2> HIDE DEF e
  <2>3. mq'[1].msgs = Append(mq[1].msgs, e) /\ mq'[1].key = mq[1].key /\ mq'[1].mode = mq[1].mode
    BY <1>5, <2>1 DEF QueueSet
  <2>4. /\ MainFirst' /\ CallsKnown' /\ made'[Q!main] # 0
        /\ made'[t] = made[t] + 1 /\ \A u \in Q!Threads \ {t} : made'[u] = made[u]
    BY <1>3, <2>1, TestReturns
  <2>5. SentIn(made'[t]) = SentIn(made[t]) + 1
    BY <1>1, <1>5, <2>4 DEF SentIn
  <2>6. \A p \in Q!Producers \ {t} : SentIn(made'[p]) = SentIn(made[p])
    <3>1. Q!Producers \subseteq Q!Threads
      BY TestNumbers
    <3> QED BY <2>4, <3>1 DEF SentIn
  <2>7. \A p \in Q!Producers : Len(got[p + np]) \in Nat
    BY TestNumbers
  <2>8. OnWay(Append(mq[1].msgs, e), got, made')
    BY <1>1, <1>4, <1>5, <2>2, <2>5, <2>6, <2>7, OnWayMore
  <2>9. OnWay(mq'[1].msgs, got', made')
    BY <1>6, <2>3, <2>8
  <2>10. InSequence' /\ TestQueue'
    BY <1>4, <1>6, <2>3 DEF InSequence, TestQueue
  <2> QED BY <2>4, <2>9, <2>10 DEF TestInv
<1>8. CASE ~Q!not_full(c.len, c.q, 0)
  <2>1. mq' = [mq EXCEPT ![1] = Q!Busy(t, mq[1])] /\ Q!Sleeps(t, c, "e_qnf", {})
    BY <1>2, <1>8 DEF Q!SendNow
  <2>2. MainFirst' /\ CallsKnown' /\ made' = made /\ made'[Q!main] # 0
    BY <2>1, TestSleeps
  <2>3. TestQueue' /\ mq'[1].msgs = mq[1].msgs
    <3>1. PICK y \in BOOLEAN : mq' = [mq EXCEPT ![1] = [mq[1] EXCEPT !.busy = y]]
      BY <1>5, <2>1, BusyIs
    <3> QED BY <1>4, <3>1, TestBusy
  <2> QED BY <1>6, <2>2, <2>3, TestQuiet
<1> QED BY <1>7, <1>8

LEMMA StepTestReceive ==
  ASSUME QueuesInv, TestInv, program = "test", NEW t \in Q!Threads, NEW c, Receives(t, c), Q!ReceiveNow(t, c)
  PROVE  TestInv'
<1>1. t \in Q!Consumers /\ made[t] > 0 /\ c = ReceiveCall(t)
  BY DEF Receives
<1>2. c.op = "msgrcv" /\ c.q = 1 /\ c.type = t - np /\ c.size = DataSize
  BY <1>1 DEF ReceiveCall
<1>3. made[Q!main] > 0
  BY <1>1 DEF TestInv, MainFirst
<1>4. TestQueue /\ OnWay(mq[1].msgs, got, made) /\ InSequence
  BY <1>3 DEF TestInv
<1>5. mq \in [Q!Queues -> QueueSet] /\ 1 \in Q!Queues /\ mq[1] \in QueueSet /\ mq[1].msgs \in Seq(Message)
      /\ t - np \in Q!Producers /\ t - np + np = t /\ t \notin Q!Producers
      /\ got \in [Q!Threads -> Seq(Message)]
  BY <1>1, TestNumbers
<1>6. t - np \in Nat \ {0} /\ np \in Nat /\ t \in Int /\ DataSize \in Nat
  <2>1. t - np \in Nat \ {0} /\ np \in Nat
    BY <1>5, TestNumbers
  <2>2. Q!Consumers \subseteq Int
    BY <2>1 DEF Q!Consumers
  <2> QED BY <1>1, <2>1, <2>2 DEF QueuesInv, Q!QueuesAssumption
<1>7. Pending(c)
  BY <1>1, <1>2, <1>5, <1>6 DEF Pending, Q!GoodCall
<1>8. Gotten(t, c) /\ (Waiting(t, c) \/ Returned(t, c))
  BY ReceiveNowIs
<1> DEFINE l == LeftBy(c)  i == PlaceOf(c)
<1>9. /\ i = 0 \/ (i \in Fit(mq[1].msgs, t - np) /\ mq[1].msgs[i] \in Message)
      /\ l \in QueueSet /\ l.key = mq[1].key /\ l.mode = mq[1].mode
      /\ l.cbytes + StatusBy(c).bytes \in Nat /\ l.qnum + StatusBy(c).qnum \in Nat
  BY <1>2, <1>7, ReceivedFacts
<1>10. \A j \in Fit(mq[1].msgs, t - np) : i = 0 \/ i <= j
  <2>1. CASE Q!message_exists(c.q) /\ Q!msgq_valid(c.q)
    <3>1. i = Q!Satisfactory(1, t - np)
      BY <1>2, <2>1 DEF PlaceOf
    <3> QED BY <1>5, <3>1, SatisfactoryIs
  <2>2. CASE ~(Q!message_exists(c.q) /\ Q!msgq_valid(c.q))
    BY <2>2 DEF PlaceOf
  <2> QED BY <2>1, <2>2
<1>11. l.msgs = IF i = 0 THEN mq[1].msgs ELSE Q!RemoveAt(mq[1].msgs, i)
  BY <1>2, <1>5 DEF LeftBy, Taken, QueueSet
<1>12. got' = IF i = 0 THEN got ELSE [got EXCEPT ![t] = Append(@, mq[1].msgs[i])]
  <2>1. program # "any"
    OBVIOUS
  <2> QED BY <1>2, <1>8, <2>1 DEF Gotten
<1> HIDE DEF l, i
<1>13. /\ MainFirst' /\ CallsKnown' /\ made'[Q!main] # 0
       /\ \A p \in Q!Producers : made'[p] = made[p]
  <2>1. CASE Waiting(t, c)
    <3>1. Q!Sleeps(t, c, "e_qne", {})
      BY <2>1 DEF Waiting
    <3> QED BY <3>1, TestSleeps
  <2>2. CASE Returned(t, c)
    <3>1. PICK cvs : Q!Returns(t, GivenBy(c), cvs)
      BY <2>2 DEF Returned
    <3>2. /\ MainFirst' /\ CallsKnown' /\ made'[Q!main] # 0
          /\ \A u \in Q!Threads \ {t} : made'[u] = made[u]
      BY <1>3, <3>1, TestReturns
    <3>3. \A p \in Q!Producers : p \in Q!Threads /\ p # t
      BY <1>5, TestNumbers
    <3> QED BY <3>2, <3>3
  <2> QED BY <1>8, <2>1, <2>2
<1>14. mq'[1].msgs = l.msgs /\ mq'[1].key = mq[1].key /\ mq'[1].mode = mq[1].mode
  <2>1. CASE Waiting(t, c)
    <3>0. PICK y \in BOOLEAN : Q!Busy(t, l) = [l EXCEPT !.busy = y]
      BY <1>9, BusyIs
    <3>1. mq' = [mq EXCEPT ![1] = [l EXCEPT !.busy = y]]
      BY <1>2, <2>1, <3>0 DEF Waiting, l
    <3>2. mq'[1] = [l EXCEPT !.busy = y]
      BY <1>5, <3>1
    <3> QED BY <1>9, <3>2 DEF QueueSet
  <2>2. CASE Returned(t, c) /\ Q!msgq_valid(c.q)
    <3>1. mq' = [mq EXCEPT ![1] = Tallied(l, StatusBy(c).bytes, StatusBy(c).qnum)]
      BY <1>2, <2>2 DEF Returned, CountedBy, Tallied, l
    <3>2. mq'[1] = Tallied(l, StatusBy(c).bytes, StatusBy(c).qnum)
      BY <1>5, <3>1
    <3> QED BY <1>9, <3>2, QueueCounts
  <2>3. CASE Returned(t, c) /\ ~Q!msgq_valid(c.q)
    <3>1. mq' = [mq EXCEPT ![1] = [l EXCEPT !.busy = FALSE]]
      BY <1>2, <2>3 DEF Returned, l
    <3>2. mq'[1] = [l EXCEPT !.busy = FALSE]
      BY <1>5, <3>1
    <3> QED BY <1>9, <3>2 DEF QueueSet
  <2> QED BY <1>8, <2>1, <2>2, <2>3
<1>15. TestQueue'
  BY <1>4, <1>14 DEF TestQueue
<1>16. \A p \in Q!Producers : SentIn(made'[p]) = SentIn(made[p])
  BY <1>13 DEF SentIn
<1>17. CASE i = 0
  <2>1. mq'[1].msgs = mq[1].msgs /\ got' = got
    BY <1>11, <1>12, <1>14, <1>17
  <2> QED BY <1>13, <1>15, <1>16, <2>1, TestQuiet
<1>18. CASE i # 0
  <2> DEFINE p == t - np  s == mq[1].msgs  e == s[i]
  <2>1. /\ i \in Fit(s, p) /\ e \in Message /\ \A j \in Fit(s, p) : i <= j
        /\ p \in Q!Producers /\ p \in Nat \ {0} /\ p + np = t /\ s \in Seq(Message)
    BY <1>5, <1>6, <1>9, <1>10, <1>18
  <2>2. got' = [got EXCEPT ![t] = Append(@, e)] /\ mq'[1].msgs = Q!RemoveAt(s, i)
    BY <1>11, <1>12, <1>14, <1>18
  <2> HIDE DEF p, s, e
  <2>3. got'[t] = Append(got[t], e) /\ \A u \in Q!Threads \ {t} : got'[u] = got[u]
    BY <1>5, <2>2
  <2>4. got[t] \in Seq(Message) /\ Len(got'[t]) = Len(got[t]) + 1
    BY <1>5, <2>1, <2>3
  <2>5. Len(got'[p + np]) = Len(got[p + np]) + 1
    BY <2>1, <2>4
  <2>6. \A x \in Q!Producers \ {p} : Len(got'[x + np]) = Len(got[x + np])
    <3> TAKE x \in Q!Producers \ {p}
    <3>1. x + np \in Q!Threads /\ x \in Nat
      BY TestNumbers
    <3>2. x + np # t
      BY <1>6, <2>1, <3>1
    <3> QED BY <2>3, <3>1, <3>2
  <2>7. \A x \in Q!Producers : Len(got[x + np]) \in Nat /\ SentIn(made[x]) \in Nat
    BY TestNumbers
  <2>8. OnWay(s, got, made)
    BY <1>4 DEF s
  <2>9. OnWay(Q!RemoveAt(s, i), got', made) /\ s[i].type = p /\ s[i].seq = Len(got[p + np])
    BY <2>1, <2>5, <2>6, <2>7, <2>8, OnWayLess
  <2>10. OnWay(mq'[1].msgs, got', made')
    <3>1. \A x \in Q!Producers : Len(got'[x + np]) = Len(got'[x + np]) /\ SentIn(made'[x]) = SentIn(made[x])
      BY <1>16
    <3> QED BY <2>2, <2>9, <3>1, OnWaySame
  <2>11. InSequence'
    <3> SUFFICES ASSUME NEW x \in Q!Consumers, NEW n \in 1 .. Len(got'[x])
                 PROVE  got'[x][n].type = x - np /\ got'[x][n].seq = n - 1
      BY DEF InSequence
    <3>1. x \in Q!Threads
      BY TestNumbers
    <3>2. CASE x # t
      <4>1. got'[x] = got[x]
        BY <2>3, <3>1, <3>2
      <4> QED BY <1>4, <4>1 DEF InSequence
    <3>3. CASE x = t /\ n <= Len(got[t])
      <4>1. n \in 1 .. Len(got[t]) /\ got'[x][n] = got[t][n]
        BY <2>1, <2>3, <2>4, <3>3
      <4> QED BY <1>1, <1>4, <3>3, <4>1 DEF InSequence
    <3>4. CASE x = t /\ ~(n <= Len(got[t]))
      <4>1. n = Len(got[t]) + 1 /\ got'[x][n] = e
        BY <2>1, <2>3, <2>4, <3>4
      <4>2. e.type = t - np /\ e.seq = Len(got[t]) /\ Len(got[t]) \in Nat
        BY <2>1, <2>4, <2>9 DEF e, p
      <4> QED BY <3>4, <4>1, <4>2
    <3> QED BY <3>2, <3>3, <3>4
  <2> QED BY <1>13, <1>15, <2>10, <2>11 DEF TestInv
<1> QED BY <1>17, <1>18

\* main's first call makes queue 1.
LEMMA StepTestCreate ==
  ASSUME QueuesInv, TestInv, made[Q!main] = 0, NEW c, c = Q!Get(TRUE, TRUE), Q!msgget(Q!main, c)
  PROVE  TestInv'
<1> DEFINE new == Q!msgq_add(c.key, c.mode)
           queue == [Q!NoQueue EXCEPT !.key = c.key, !.mode = c.mode, !.qbytes = MQ_MAX_BYTES_IN_QUEUE]
<1>1. NoneMade
  BY DEF TestInv
<1>2. c.key = 1 /\ c.mode = {"r", "w"}
  BY DEF Q!Get, Q!MSGQ_KEY
<1>3. 1 \in Q!Queues /\ Q!main \in Q!Threads /\ Q!main \notin Q!Producers
  BY TestNumbers
<1>4. Q!msgq_lookup(1) = {}
  BY <1>1 DEF Q!msgq_lookup, NoneMade, Q!NoQueue
<1>5. new.id = 1 /\ new.queue = queue
  <2> DEFINE free == {q \in Q!Queues : mq[q].key = 0}
             i == CHOOSE q \in free : \A r \in free : q <= r
  <2>1. MSG_MAX_NUMBER_QUEUES \in Nat \ {0}
    BY DEF QueuesInv, Q!QueuesAssumption
  <2>2. free = 1 .. MSG_MAX_NUMBER_QUEUES
    BY <1>1 DEF NoneMade, Q!NoQueue, Q!Queues
  <2>3. q_current = 0
    BY <1>1 DEF NoneMade
  <2>4. ~(q_current > MSG_MAX_NUMBER_QUEUES \/ free = {})
    BY <2>1, <2>2, <2>3
  <2>5. new = [id |-> i, queue |-> queue]
    BY <2>4 DEF Q!msgq_add
  <2>6. i = 1
    <3> HIDE DEF free
    <3>1. 1 \in free /\ \A r \in free : 1 <= r /\ r \in Int
      BY <2>1, <2>2
    <3>2. i \in free /\ \A r \in free : i <= r
      BY <3>1
    <3> HIDE DEF i
    <3> QED BY <3>1, <3>2
  <2> HIDE DEF i, new, queue
  <2>7. new.id = i /\ new.queue = queue
    BY <2>5
  <2> QED BY <2>6, <2>7
<1> HIDE DEF new
<1>6. /\ mq' = [mq EXCEPT ![1] = queue] /\ got' = got /\ \E v : Q!Returns(Q!main, v, {})
  <2>0. Q!IPC_PRIVATE = 9
    BY DEF Q!IPC_PRIVATE
  <2>1. c.key # Q!IPC_PRIVATE
    <3>1. 1 # 9
      OBVIOUS
    <3> QED BY <1>2, <2>0, <3>1, Zenon
  <2>2. got' = got /\ \/ Q!msgq_lookup(c.key) # {}
                      \/ new.id < 0
                      \/ Q!Returns(Q!main, new.id, {}) /\ mq' = [mq EXCEPT ![new.id] = new.queue]
    BY <2>1 DEF Q!msgget, new
  <2>3. ~(new.id < 0)
    BY <1>5
  <2> HIDE DEF queue
  <2>4. Q!Returns(Q!main, new.id, {}) /\ mq' = [mq EXCEPT ![new.id] = new.queue]
    BY <1>2, <1>4, <2>2, <2>3
  <2> QED BY <1>5, <2>2, <2>4
<1>7. mq'[1] = queue
  <2> HIDE DEF queue
  <2>1. mq \in [Q!Queues -> QueueSet]
    BY TestNumbers
  <2> QED BY <1>3, <1>6, <2>1
<1>8. queue.key = 1 /\ queue.mode = {"r", "w"} /\ queue.msgs = Q!NoQueue.msgs
  BY <1>2 DEF Q!NoQueue
<1> HIDE DEF queue
<1>9. TestQueue'
  BY <1>7, <1>8 DEF TestQueue, Q!MSGQ_KEY
<1>10. mq'[1].msgs = mq[1].msgs
  BY <1>1, <1>3, <1>7, <1>8 DEF NoneMade
<1>11. PICK v : Q!Returns(Q!main, v, {})
  BY <1>6
<1> QED BY <1>3, <1>6, <1>9, <1>10, <1>11, TestAnswer

\* The other calls of main, and the first one of the other threads.
Resized(n) == mq' = [mq EXCEPT ![1] = [mq[1] EXCEPT !.mode = {"r", "w"}, !.qbytes = n]]
SomeReturn(t) == \E v : Q!Returns(t, v, {})
SameOrSized == mq' = mq \/ \E n : Resized(n)
LEMMA StepTestOther ==
  ASSUME QueuesInv, TestInv, made[Q!main] > 0, NEW t \in Q!Threads, t \in Q!Producers => made[t] = 0, NEW c,
         \/ /\ Q!msgctl(t, c) /\ c.cmd # "IPC_RMID"
            /\ c.cmd = "IPC_SET" => c.q = 1 /\ c.mode = {"r", "w"}
         \/ Q!msgget(t, c) /\ c.key = Q!MSGQ_KEY
  PROVE  TestInv'
<1>1. made[Q!main] # 0
  BY TestNumbers
<1>2. TestQueue
  BY <1>1 DEF TestInv
<1>3. mq \in [Q!Queues -> QueueSet] /\ 1 \in Q!Queues /\ mq[1] \in QueueSet
  BY TestNumbers
<1>4. SomeReturn(t) /\ got' = got /\ SameOrSized
  <2>1. CASE Q!msgctl(t, c) /\ c.cmd # "IPC_RMID" /\ (c.cmd = "IPC_SET" => c.q = 1 /\ c.mode = {"r", "w"})
    <3>1. CASE \E v : Q!Returns(t, v, {}) /\ got' = got /\ mq' = mq
      BY <3>1 DEF SomeReturn, SameOrSized
    <3>2. CASE /\ c.cmd = "IPC_SET" /\ Q!Returns(t, 0, {}) /\ got' = got
               /\ mq' = [mq EXCEPT ![c.q].mode = c.mode,
                                   ![c.q].qbytes = IF c.qbytes > @ /\ c.user # "super" THEN @ ELSE c.qbytes]
      <4>1. PICK n \in {mq[c.q].qbytes, c.qbytes} : Sets(c, n)
        BY <1>3, <2>1, <3>2, SetIs
      <4>2. Resized(n)
        BY <2>1, <3>2, <4>1 DEF Sets, Resized
      <4>3. SameOrSized
        BY <4>2 DEF SameOrSized
      <4>4. SomeReturn(t) /\ got' = got
        BY <3>2 DEF SomeReturn
      <4> QED BY <4>3, <4>4
    <3> QED BY <2>1, <3>1, <3>2 DEF Q!msgctl, Q!table
  <2>2. CASE Q!msgget(t, c) /\ c.key = Q!MSGQ_KEY
    <3>1. c.key # Q!IPC_PRIVATE
      BY <2>2 DEF Q!MSGQ_KEY, Q!IPC_PRIVATE
    <3>2. 1 \in Q!msgq_lookup(c.key)
      BY <1>2, <1>3, <2>2 DEF Q!msgq_lookup, TestQueue
    <3>3. Q!msgq_lookup(c.key) # {}
      BY <3>2
    <3>4. \E v : Q!Returns(t, v, {}) /\ got' = got /\ mq' = mq
      BY <2>2, <3>1, <3>3 DEF Q!msgget
    <3> QED BY <3>4 DEF SomeReturn, SameOrSized
  <2> QED BY <2>1, <2>2
<1>5. PICK v : Q!Returns(t, v, {})
  BY <1>4 DEF SomeReturn
<1>6. TestQueue' /\ mq'[1].msgs = mq[1].msgs
  <2>1. CASE mq' = mq
    BY <1>2, <2>1 DEF TestQueue
  <2>2. ASSUME NEW n, Resized(n) PROVE TestQueue' /\ mq'[1].msgs = mq[1].msgs
    <3>1. mq'[1] = [mq[1] EXCEPT !.mode = {"r", "w"}, !.qbytes = n]
      BY <1>3, <2>2 DEF Resized
    <3> QED BY <1>2, <1>3, <3>1 DEF TestQueue, QueueSet
  <2> QED BY <1>4, <2>1, <2>2 DEF SameOrSized
<1> QED BY <1>4, <1>5, <1>6, TestAnswer

LEMMA StepTestBegin ==
  ASSUME QueuesInv, TestInv, program = "test", NEW t \in Q!Threads, Q!Begin(t)
  PROVE  TestInv'
<1>1. PICK c \in Q!TestCall(t) : Q!Do(t, c)
  BY DEF Q!Begin, Q!CallsOf
<1>2. /\ made \in [Q!Threads -> Nat] /\ Q!main \in Q!Threads /\ Q!main \notin Q!Producers
      /\ np \in Nat /\ goal \in Nat /\ \A p \in Q!Producers : p \notin Q!Consumers /\ p \in Nat \ {0}
      /\ \A x \in Q!Consumers : x \notin Q!Producers
  BY TestNumbers DEF QueuesInv, Q!QueuesAssumption
<1>3. \/ t = Q!main /\ made[t] = 0 /\ c = Q!Get(TRUE, TRUE)
      \/ t = Q!main /\ made[t] = 1 /\ c = [op |-> "msgctl", q |-> result[t], cmd |-> "IPC_STAT", user |-> "super"]
      \/ t = Q!main /\ made[t] = 2 /\ c = SetCall
      \/ t # Q!main /\ made[Q!main] = 3 /\ made[t] = 0 /\ c = Q!Get(FALSE, FALSE)
      \/ t \in Q!Producers /\ made[t] \in 1 .. goal /\ c = SendCall(t)
      \/ t \in Q!Consumers /\ made[t] \in 1 .. goal /\ c = ReceiveCall(t)
  BY DEF Q!TestCall, SendCall, ReceiveCall, SetCall
<1>4. CASE t = Q!main /\ made[t] = 0 /\ c = Q!Get(TRUE, TRUE)
  <2>1. Q!msgget(t, c)
    BY <1>1, <1>4 DEF Q!Do, Q!Get
  <2> QED BY <1>4, <2>1, StepTestCreate
<1>5. CASE t = Q!main /\ made[t] = 1 /\ c = [op |-> "msgctl", q |-> result[t], cmd |-> "IPC_STAT", user |-> "super"]
  <2>1. Q!msgctl(t, c) /\ c.cmd = "IPC_STAT"
    BY <1>1, <1>5 DEF Q!Do
  <2>2. made[Q!main] > 0
    BY <1>5
  <2> QED BY <1>2, <1>5, <2>1, <2>2, StepTestOther
<1>6. CASE t = Q!main /\ made[t] = 2 /\ c = SetCall
  <2>1. Q!msgctl(t, c) /\ c.cmd = "IPC_SET" /\ c.q = 1 /\ c.mode = {"r", "w"}
    BY <1>1, <1>6 DEF Q!Do, SetCall
  <2>2. made[Q!main] > 0
    BY <1>6
  <2> QED BY <1>2, <1>6, <2>1, <2>2, StepTestOther
<1>7. CASE t # Q!main /\ made[Q!main] = 3 /\ made[t] = 0 /\ c = Q!Get(FALSE, FALSE)
  <2>1. Q!msgget(t, c) /\ c.key = Q!MSGQ_KEY
    BY <1>1, <1>7 DEF Q!Do, Q!Get
  <2>2. made[Q!main] > 0
    BY <1>7
  <2> QED BY <1>7, <2>1, <2>2, StepTestOther
<1>8. CASE t \in Q!Producers /\ made[t] \in 1 .. goal /\ c = SendCall(t)
  <2>1. Sends(t, c)
    BY <1>2, <1>8 DEF Sends
  <2>2. /\ c.op = "msgsnd" /\ c.q = 1 /\ c.type = t /\ c.len = DataSize /\ c.nowait = FALSE
    BY <1>8 DEF SendCall
  <2>3. Q!msgsnd(t, c)
    BY <1>1, <2>2 DEF Q!Do
  <2>4. made[Q!main] # 0
    BY <1>2, <1>8 DEF TestInv, MainFirst
  <2>5. TestQueue /\ 1 \in Q!Queues
    BY <2>4, TestNumbers DEF TestInv
  <2>6. Q!msgq_valid(c.q) /\ Q!msgq_access(c.q, "w")
    BY <2>2, <2>5 DEF Q!msgq_valid, Q!msgq_access, TestQueue, Q!MSGQ_KEY
  <2>7. ~(c.type < 1) /\ ~(c.len > MQ_MAX_MESSAGE_SIZE)
    <3>1. t \in Nat \ {0} /\ DataSize \in Nat /\ MQ_MAX_MESSAGE_SIZE \in Nat /\ DataSize <= MQ_MAX_MESSAGE_SIZE
      BY <1>2, <1>8 DEF QueuesInv, Q!QueuesAssumption
    <3> QED BY <2>2, <3>1
  <2>8. Q!SendNow(t, c)
    BY <2>2, <2>3, <2>6, <2>7 DEF Q!msgsnd
  <2> QED BY <2>1, <2>8, StepTestSend
<1>9. CASE t \in Q!Consumers /\ made[t] \in 1 .. goal /\ c = ReceiveCall(t)
  <2>1. Receives(t, c)
    BY <1>2, <1>9 DEF Receives
  <2>2. c.op = "msgrcv" /\ c.q = 1
    BY <1>9 DEF ReceiveCall
  <2>3. Q!msgrcv(t, c)
    BY <1>1, <2>2 DEF Q!Do
  <2>4. (\E e : Q!Fails(t, c, e)) \/ Q!ReceiveNow(t, c)
    BY <2>3 DEF Q!msgrcv
  <2>5. ASSUME NEW e, Q!Fails(t, c, e) PROVE TestInv'
    <3>1. /\ mq' = [mq EXCEPT ![1] = [mq[1] EXCEPT !.busy = FALSE]] /\ got' = got
          /\ Q!Returns(t, e, {"e_q_not_busy"})
      BY <2>2, <2>5 DEF Q!Fails, Q!Unbusy
    <3>2. made[Q!main] > 0 /\ made[Q!main] # 0
      BY <1>2, <1>9 DEF TestInv, MainFirst
    <3>3. TestQueue
      BY <3>2 DEF TestInv
    <3>4. TestQueue' /\ mq'[1].msgs = mq[1].msgs
      BY <3>1, <3>3, TestBusy
    <3>5. t \notin Q!Producers
      BY <1>2, <1>9
    <3> QED BY <3>1, <3>2, <3>4, <3>5, TestAnswer
  <2> QED BY <2>1, <2>4, <2>5, StepTestReceive
<1> QED BY <1>3, <1>4, <1>5, <1>6, <1>7, <1>8, <1>9

LEMMA StepTestAgain ==
  ASSUME QueuesInv, TestInv, program = "test", NEW t \in Q!Threads, Q!Again(t)
  PROVE  TestInv'
<1>1. qAt[t] = "awake"
  BY DEF Q!Again
<1>2. call[t] # Q!NoCall
  BY <1>1 DEF QueuesInv, ThreadsInv, InCalls
<1>3. Sends(t, call[t]) \/ Receives(t, call[t])
  BY <1>2 DEF TestInv, CallsKnown
<1>4. CASE Sends(t, call[t])
  <2>1. call[t].op = "msgsnd"
    BY <1>4 DEF Sends, SendCall
  <2>2. Q!SendNow(t, call[t])
    BY <2>1 DEF Q!Again
  <2> QED BY <1>4, <2>2, StepTestSend
<1>5. CASE Receives(t, call[t])
  <2>1. call[t].op = "msgrcv"
    BY <1>5 DEF Receives, ReceiveCall
  <2>2. Q!ReceiveNow(t, call[t])
    BY <2>1 DEF Q!Again
  <2> QED BY <1>5, <2>2, StepTestReceive
<1> QED BY <1>3, <1>4, <1>5

TestRight == program = "test" => TestInv

LEMMA TestInvStep == QueuesInv /\ TestRight /\ (Q!Next \/ UNCHANGED Q!vars) => TestRight'
<1> SUFFICES ASSUME QueuesInv, TestRight, Q!Next \/ UNCHANGED Q!vars, program' = "test" PROVE TestInv'
  BY DEF TestRight
<1>1. program' = program
  BY DEF Q!Next, Q!Begin, Q!Again, Q!TimeOut, Q!End, Q!vars
<1>2. program = "test" /\ TestInv
  BY <1>1 DEF TestRight
<1>3. CASE UNCHANGED <<mq, q_current, b_current, call, made, result, got>>
  BY <1>2, <1>3 DEF TestInv, MainFirst, CallsKnown, NoneMade, TestQueue, InSequence,
                    Sends, Receives, SendCall, ReceiveCall
<1>4. ASSUME NEW t \in Q!Threads, Q!TimeOut(t) \/ Q!End(t) PROVE TestInv'
  <2>1. UNCHANGED <<mq, q_current, b_current, call, made, result, got>>
    BY <1>4 DEF Q!TimeOut, Q!End, Q!table
  <2> QED BY <1>3, <2>1
<1>5. CASE UNCHANGED Q!vars
  BY <1>3, <1>5 DEF Q!vars
<1> QED BY <1>2, <1>4, <1>5, StepTestBegin, StepTestAgain DEF Q!Next

LEMMA TestInvInit == Q!QueuesAssumption /\ (Q!Init \/ NoQueues) => TestRight
<1> SUFFICES ASSUME Q!QueuesAssumption, Q!Init \/ NoQueues PROVE TestInv
  BY DEF TestRight
<1>1. PICK p, b : Q!InitOf(p, b)
  BY DEF Q!Init, NoQueues
<1>2. /\ mq = [q \in Q!Queues |-> Q!NoQueue] /\ q_current = 0
      /\ call = [t \in Q!Threads |-> Q!NoCall] /\ made = [t \in Q!Threads |-> 0]
      /\ got = [t \in Q!Threads |-> <<>>]
  BY <1>1 DEF Q!InitOf
<1>3. QueuesInv
  BY QueuesInvInit
<1>4. /\ 1 \in Q!Queues /\ Q!main \in Q!Threads
      /\ \A p1 \in Q!Producers : p1 \in Q!Threads /\ p1 + np \in Q!Threads
      /\ \A c \in Q!Consumers : c \in Q!Threads
  BY <1>3, TestNumbers
<1>5. mq[1].msgs = <<>>
  BY <1>2, <1>4 DEF Q!NoQueue
<1>6. \A p1 \in Q!Producers : SentIn(made[p1]) = 0 /\ Len(got[p1 + np]) = 0
  BY <1>2, <1>4 DEF SentIn
<1>7. OnWay(mq[1].msgs, got, made)
  BY <1>5, <1>6 DEF OnWay
<1>8. InSequence
  BY <1>2, <1>4 DEF InSequence
<1>9. MainFirst /\ CallsKnown /\ NoneMade /\ made[Q!main] = 0
  BY <1>2, <1>4 DEF MainFirst, CallsKnown, NoneMade
<1> QED BY <1>7, <1>8, <1>9 DEF TestInv

\* The messages are received in order.
LEMMA TestIsRight == TestRight => Q!SequenceRight
BY DEF TestRight, TestInv, InSequence, Q!SequenceRight

-----------------------------------------------------------------------------
(* The programs together.                                                  *)

\* What every one of them keeps, whichever of them runs.
AllKept == WorkersInv /\ CrewInv /\ StripesInv /\ SortInv /\ CompareInv /\ QueuesInv

LEMMA AllKeptInit == Init => AllKept /\ TestRight
<1>1. W!WorkersAssumption /\ F!CrewAssumption /\ S!StripesAssumption
      /\ M!SortAssumption /\ C!CompareAssumption /\ Q!QueuesAssumption
  BY ProgramsAssumption
<1>2. Init => /\ W!Init \/ NoWorkers
              /\ F!Init \/ NoCrew
              /\ S!Init \/ NoStripes
              /\ M!Init \/ NoSort
              /\ C!Init \/ NoCompare
              /\ Q!Init \/ NoQueues
  BY DEF Init
<1>3. Init => WorkersInv /\ CrewInv /\ StripesInv
  BY <1>1, <1>2, WorkersInvInit, CrewInvInit, StripesInvInit
<1>4. Init => SortInv /\ CompareInv
  BY <1>1, <1>2, SortInvInit, CompareInvInit
<1>5. Init => QueuesInv /\ TestRight
  BY <1>1, <1>2, QueuesInvInit, TestInvInit
<1> QED BY <1>3, <1>4, <1>5 DEF AllKept

LEMMA AllKeptStep == AllKept /\ [Next]_vars => AllKept'
<1> SUFFICES ASSUME AllKept, [Next]_vars PROVE AllKept'
  OBVIOUS
<1>1. WorkersInv' /\ CrewInv'
  BY WorkersInvStep, WorkersSteps, CrewInvStep, CrewSteps DEF AllKept
<1>2. StripesInv' /\ SortInv'
  BY StripesInvStep, StripesSteps, SortInvStep, SortSteps DEF AllKept
<1>3. CompareInv' /\ QueuesInv'
  BY CompareInvStep, CompareSteps, QueuesInvStep, QueuesSteps DEF AllKept
<1> QED BY <1>1, <1>2, <1>3 DEF AllKept

LEMMA AllKeptSpec == FairSpec => []AllKept
BY AllKeptInit, AllKeptStep, PTL DEF FairSpec

\* KeptApart: as many workers as the throttle admits are past it, one is
\* inside a shared lock, no two stripes work on the same record, and no two
\* sorting threads on the same part of the array; every program is typed.
THEOREM ProgramsKeptApart == FairSpec => []KeptApart
<1>1. AllKept => W!TypeOK /\ W!ThrottleConserved /\ W!OneInside
  BY WorkersAreRight DEF AllKept
<1>2. AllKept => S!TypeOK /\ S!StripesApart
  BY StripesAreTyped, StripesAreApart DEF AllKept
<1>3. AllKept => M!TypeOK /\ M!PartsDisjoint
  BY SortIsTyped, SortIsApart DEF AllKept
<1>4. AllKept => F!TypeOK /\ C!TypeOK
  BY DEF AllKept, CrewInv, CompareInv
<1>5. AllKept => Q!TypeOK
  BY QueuesTyped DEF AllKept
<1>6. AllKept => KeptApart
  BY <1>1, <1>2, <1>3, <1>4, <1>5 DEF KeptApart
<1> QED BY <1>6, AllKeptSpec, PTL

\* QueuesRight: the byte counts of the message queues are never below what
\* the queues hold, the test receives every message once and in order, and no
\* two queues have the same key.
THEOREM QueuesStayRight == FairSpec => []QueuesRight
<1>1. AllKept => Q!CountsCover /\ Q!KeysUnique
  BY CountsAreRight DEF AllKept
<1>2. AllKept /\ TestRight /\ [Next]_vars => TestRight'
  BY TestInvStep, QueuesSteps DEF AllKept
<1>3. FairSpec => []TestRight
  BY <1>2, AllKeptInit, AllKeptSpec, PTL DEF FairSpec
<1>4. AllKept /\ TestRight => QueuesRight
  BY <1>1, TestIsRight DEF QueuesRight
<1> QED BY <1>3, <1>4, AllKeptSpec, PTL

\* Workers: a program that ends has added up all the work.
THEOREM AllWorkCounted == FairSpec => []W!TotalComplete
<1>1. AllKept => W!TotalComplete
  BY WorkersAreRight DEF AllKept
<1> QED BY <1>1, AllKeptSpec, PTL

-----------------------------------------------------------------------------
(* What no step of the message queues may do.                              *)

NoneLonger == \A q \in Q!Queues : Len(mq'[q].msgs) <= Len(mq[q].msgs)
PlacedBy(c) ==
  /\ c.q \in Q!Queues /\ c.len \in Nat /\ Q!not_full(c.len, c.q, 0)
  /\ b_current' = b_current + (c.len + LongSize)
  /\ \A q \in Q!Queues \ {c.q} : mq'[q].msgs = mq[q].msgs
  /\ \E m \in Message : m.len = c.len /\ mq'[c.q].msgs = Append(mq[c.q].msgs, m)

LEMMA TableSizes ==
  ASSUME QueuesInv
  PROVE  /\ mq \in [Q!Queues -> QueueSet] /\ LongSize \in Nat
         /\ \A q \in Q!Queues : mq[q] \in QueueSet /\ mq[q].msgs \in Seq(Message) /\ Len(mq[q].msgs) \in Nat
<1>1. TableRight(mq, q_current, b_current) /\ Q!QueuesAssumption
  BY DEF QueuesInv, TableInv
<1>2. \A q \in Q!Queues : mq[q] \in QueueSet /\ mq[q].msgs \in Seq(Message)
  BY <1>1, TableNumbers
<1>3. \A q \in Q!Queues : Len(mq[q].msgs) \in Nat
  BY <1>2
<1> QED BY <1>1, <1>2, <1>3 DEF TableRight, Q!QueuesAssumption

\* One queue changes and is not longer.
LEMMA NotLonger ==
  ASSUME QueuesInv, NEW q, NEW r, mq' = [mq EXCEPT ![q] = r],
         q \in Q!Queues => Len(r.msgs) <= Len(mq[q].msgs)
  PROVE  NoneLonger
<1>1. mq \in [Q!Queues -> QueueSet] /\ \A x \in Q!Queues : Len(mq[x].msgs) \in Nat
  BY TableSizes
<1> SUFFICES ASSUME NEW x \in Q!Queues PROVE Len(mq'[x].msgs) <= Len(mq[x].msgs)
  BY DEF NoneLonger
<1>2. CASE x = q
  <2>1. mq'[x] = r
    BY <1>1, <1>2
  <2> QED BY <1>2, <2>1
<1>3. CASE x # q
  <2>1. mq'[x] = mq[x]
    BY <1>1, <1>3
  <2> QED BY <1>1, <2>1
<1> QED BY <1>2, <1>3

LEMMA SameNotLonger == QueuesInv /\ mq' = mq => NoneLonger
<1> SUFFICES ASSUME QueuesInv, mq' = mq PROVE NoneLonger
  OBVIOUS
<1>1. \A q \in Q!Queues : Len(mq[q].msgs) \in Nat
  BY TableSizes
<1> QED BY <1>1 DEF NoneLonger

\* The same messages.
LEMMA MarkNotLonger ==
  ASSUME QueuesInv, NEW q, NEW r, mq' = [mq EXCEPT ![q] = r],
         q \in Q!Queues => r.msgs = mq[q].msgs
  PROVE  NoneLonger
<1>1. q \in Q!Queues => Len(r.msgs) <= Len(mq[q].msgs)
  <2>1. q \in Q!Queues => Len(mq[q].msgs) \in Nat
    BY TableSizes
  <2> QED BY <2>1
<1> QED BY <1>1, NotLonger

LEMMA SendPlaces ==
  ASSUME QueuesInv, NEW t \in Q!Threads, NEW c, Pending(c), c.op = "msgsnd", Q!SendNow(t, c)
  PROVE  NoneLonger \/ PlacedBy(c)
<1>1. c.q \in Q!Queues /\ c.type \in Int /\ c.len \in Nat /\ c.seq \in Nat
  BY DEF Pending, Q!GoodCall
<1>2. mq \in [Q!Queues -> QueueSet] /\ mq[c.q] \in QueueSet /\ LongSize \in Nat
  BY <1>1, TableSizes
<1>3. CASE Q!not_full(c.len, c.q, 0)
  <2> DEFINE m == [type |-> c.type, len |-> c.len, seq |-> c.seq]
             r == [[mq[c.q] EXCEPT
                   !.msgs = Append(@, m),
                   !.cbytes = @ + Q!update_status(c.len).bytes, !.qnum = @ + Q!update_status(c.len).qnum]
                   EXCEPT !.busy = FALSE]
  <2>1. mq' = [mq EXCEPT ![c.q] = r] /\ b_current' = b_current + Q!update_status(c.len).bytes
    BY <1>3 DEF Q!SendNow, Q!Unbusy
  <2>2. m \in Message /\ m.len = c.len
    BY <1>1 DEF Message
  <2> HIDE DEF m
  <2>3. r.msgs = Append(mq[c.q].msgs, m)
    BY <1>2 DEF QueueSet
  <2> HIDE DEF r
  <2>4. mq'[c.q] = r /\ \A q \in Q!Queues \ {c.q} : mq'[q] = mq[q]
    BY <1>1, <1>2, <2>1
  <2>5. Q!update_status(c.len).bytes = c.len + LongSize
    BY <1>1, <1>2, StatusIs
  <2> QED BY <1>1, <1>3, <2>1, <2>2, <2>3, <2>4, <2>5 DEF PlacedBy
<1>4. CASE ~Q!not_full(c.len, c.q, 0)
  <2>0. PICK y \in BOOLEAN : Q!Busy(t, mq[c.q]) = [mq[c.q] EXCEPT !.busy = y]
    BY <1>2, BusyIs
  <2> DEFINE r == [mq[c.q] EXCEPT !.busy = y]
  <2>1. mq' = [mq EXCEPT ![c.q] = r]
    BY <1>4, <2>0 DEF Q!SendNow
  <2>2. r.msgs = mq[c.q].msgs
    BY <1>2 DEF QueueSet
  <2> HIDE DEF r
  <2> QED BY <2>1, <2>2, MarkNotLonger
<1> QED BY <1>3, <1>4

LEMMA FailsPlaces ==
  ASSUME QueuesInv, NEW t \in Q!Threads, NEW c, NEW error, Q!Fails(t, c, error)
  PROVE  NoneLonger
<1> DEFINE r == [mq[c.q] EXCEPT !.busy = FALSE]
<1>1. mq' = [mq EXCEPT ![c.q] = r]
  BY DEF Q!Fails, Q!Unbusy
<1>2. c.q \in Q!Queues => r.msgs = mq[c.q].msgs
  <2>1. c.q \in Q!Queues => mq[c.q] \in QueueSet
    BY TableSizes
  <2> QED BY <2>1 DEF QueueSet
<1> HIDE DEF r
<1> QED BY <1>1, <1>2, MarkNotLonger

LEMMA ReceivePlaces ==
  ASSUME QueuesInv, NEW t \in Q!Threads, NEW c, Pending(c), c.op = "msgrcv", Q!ReceiveNow(t, c)
  PROVE  NoneLonger
<1> DEFINE l == LeftBy(c)  d == StatusBy(c).bytes  e == StatusBy(c).qnum
<1>1. c.q \in Q!Queues
  BY DEF Pending
<1>2. mq[c.q] \in QueueSet /\ mq[c.q].msgs \in Seq(Message) /\ Len(mq[c.q].msgs) \in Nat
  BY <1>1, TableSizes
<1>3. /\ PlaceOf(c) = 0 \/ PlaceOf(c) \in Fit(mq[c.q].msgs, c.type)
      /\ l \in QueueSet /\ l.cbytes + d \in Nat /\ l.qnum + e \in Nat
  BY ReceivedFacts
<1>4. Len(l.msgs) <= Len(mq[c.q].msgs)
  <2>1. CASE PlaceOf(c) = 0
    <3>1. l = mq[c.q]
      BY <2>1 DEF LeftBy
    <3> QED BY <1>2, <3>1
  <2>2. CASE PlaceOf(c) # 0
    <3> DEFINE i == PlaceOf(c)  s == mq[c.q].msgs
    <3>1. l = Taken(mq[c.q], i) /\ i \in 1 .. Len(s)
      BY <1>3, <2>2 DEF LeftBy, Fit
    <3>2. l.msgs = Q!RemoveAt(s, i)
      BY <1>2, <3>1 DEF Taken, QueueSet
    <3> HIDE DEF i, s, l
    <3>3. s \in Seq(Message) /\ Len(s) \in Nat
      BY <1>2 DEF s
    <3>4. Len(l.msgs) = Len(s) - 1
      BY <3>1, <3>2, <3>3, RemoveAtIs
    <3>5. Len(l.msgs) <= Len(s)
      BY <3>3, <3>4
    <3> QED BY <3>5 DEF s
  <2> QED BY <2>1, <2>2
<1>5. Waiting(t, c) \/ Returned(t, c)
  BY ReceiveNowIs
<1> HIDE DEF l, d, e
<1>6. CASE Waiting(t, c)
  <2>0. PICK y \in BOOLEAN : Q!Busy(t, l) = [l EXCEPT !.busy = y]
    BY <1>3, BusyIs
  <2> DEFINE r == [l EXCEPT !.busy = y]
  <2>1. mq' = [mq EXCEPT ![c.q] = r]
    BY <1>6, <2>0 DEF Waiting, l
  <2>2. r.msgs = l.msgs
    BY <1>3, QueueBusy
  <2> HIDE DEF r
  <2> QED BY <1>4, <2>1, <2>2, NotLonger
<1>7. CASE Returned(t, c) /\ Q!msgq_valid(c.q)
  <2> DEFINE r == Tallied(l, d, e)
  <2>1. mq' = [mq EXCEPT ![c.q] = r]
    BY <1>7 DEF Returned, CountedBy, Tallied, l, d, e
  <2>2. r.msgs = l.msgs
    BY <1>3, QueueCounts
  <2> HIDE DEF r
  <2> QED BY <1>4, <2>1, <2>2, NotLonger
<1>8. CASE Returned(t, c) /\ ~Q!msgq_valid(c.q)
  <2> DEFINE r == [l EXCEPT !.busy = FALSE]
  <2>1. mq' = [mq EXCEPT ![c.q] = r]
    BY <1>8 DEF Returned, l
  <2>2. r.msgs = l.msgs
    BY <1>3, QueueBusy
  <2> HIDE DEF r
  <2> QED BY <1>4, <2>1, <2>2, NotLonger
<1> QED BY <1>5, <1>6, <1>7, <1>8

LEMMA RemovePlaces ==
  ASSUME QueuesInv, NEW t \in Q!Threads, NEW c, Q!RemoveWhenIdle(t, c)
  PROVE  NoneLonger
<1>1. CASE mq' = mq
  BY <1>1, SameNotLonger
<1>2. CASE mq' = [mq EXCEPT ![c.q] = Q!NoQueue]
  <2>1. Len(Q!NoQueue.msgs) = 0
    BY DEF Q!NoQueue
  <2>2. c.q \in Q!Queues => Len(mq[c.q].msgs) \in Nat
    BY TableSizes
  <2>3. c.q \in Q!Queues => Len(Q!NoQueue.msgs) <= Len(mq[c.q].msgs)
    BY <2>1, <2>2
  <2> QED BY <1>2, <2>3, NotLonger
<1> QED BY <1>1, <1>2 DEF Q!RemoveWhenIdle, Q!msgq_remove

LEMMA CtlPlaces ==
  ASSUME QueuesInv, NEW t \in Q!Threads, NEW c, Q!msgctl(t, c)
  PROVE  NoneLonger
<1>1. CASE mq' = mq
  BY <1>1, SameNotLonger
<1>2. CASE /\ c.q \in Q!Queues
           /\ mq' = [mq EXCEPT ![c.q].mode = c.mode,
                               ![c.q].qbytes = IF c.qbytes > @ /\ c.user # "super" THEN @ ELSE c.qbytes]
  <2>0. PICK n \in {mq[c.q].qbytes, c.qbytes} : Sets(c, n)
    BY <1>2, SetIs
  <2> DEFINE r == [mq[c.q] EXCEPT !.mode = c.mode, !.qbytes = n]
  <2>1. mq' = [mq EXCEPT ![c.q] = r]
    BY <2>0 DEF Sets
  <2>2. c.q \in Q!Queues => r.msgs = mq[c.q].msgs
    <3>1. c.q \in Q!Queues => mq[c.q] \in QueueSet
      BY TableSizes
    <3> QED BY <3>1 DEF QueueSet
  <2> HIDE DEF r
  <2> QED BY <2>1, <2>2, MarkNotLonger
<1> QED BY <1>1, <1>2, RemovePlaces DEF Q!msgctl, Q!table, Q!msgq_valid

LEMMA GetPlaces ==
  ASSUME QueuesInv, NEW t \in Q!Threads, NEW c, Q!msgget(t, c)
  PROVE  NoneLonger
<1> DEFINE new == Q!msgq_add(c.key, c.mode)
<1>1. mq' = mq \/ (new.id > 0 /\ mq' = [mq EXCEPT ![new.id] = new.queue])
  BY DEF Q!msgget
<1>2. CASE mq' = mq
  BY <1>2, SameNotLonger
<1>3. CASE new.id > 0 /\ mq' = [mq EXCEPT ![new.id] = new.queue]
  <2>1. new.queue.msgs = <<>>
    <3> DEFINE free == {q \in Q!Queues : mq[q].key = 0}
               i == CHOOSE q \in free : \A r \in free : q <= r
               queue == [Q!NoQueue EXCEPT !.key = c.key, !.mode = c.mode, !.qbytes = MQ_MAX_BYTES_IN_QUEUE]
    <3>1. new = IF q_current > MSG_MAX_NUMBER_QUEUES \/ free = {} THEN [id |-> -1]
                ELSE [id |-> i, queue |-> queue]
      BY DEF Q!msgq_add
    <3>2. queue.msgs = <<>>
      BY DEF Q!NoQueue
    <3> HIDE DEF free, i, queue, new
    <3>3. CASE q_current > MSG_MAX_NUMBER_QUEUES \/ free = {}
      <4>1. new.id = -1
        BY <3>1, <3>3
      <4> QED BY <1>3, <4>1
    <3>4. CASE ~(q_current > MSG_MAX_NUMBER_QUEUES \/ free = {})
      <4>1. new.queue = queue
        BY <3>1, <3>4
      <4> QED BY <3>2, <4>1
    <3> QED BY <3>3, <3>4
  <2> HIDE DEF new
  <2>2. new.id \in Q!Queues => Len(mq[new.id].msgs) \in Nat
    BY TableSizes
  <2>3. new.id \in Q!Queues => Len(new.queue.msgs) <= Len(mq[new.id].msgs)
    BY <2>1, <2>2
  <2> QED BY <1>3, <2>3, NotLonger
<1> HIDE DEF new
<1> QED BY <1>1, <1>2, <1>3

LEMMA StepPlacesOne ==
  ASSUME QueuesInv, Q!Next \/ UNCHANGED Q!vars
  PROVE  NoneLonger \/ \E c : PlacedBy(c)
<1>1. ASSUME NEW t \in Q!Threads, NEW c, Q!GoodCall(c), Q!Do(t, c) PROVE NoneLonger \/ PlacedBy(c)
  <2>1. CASE c.op = "msgget"
    <3>1. Q!msgget(t, c)
      BY <1>1, <2>1 DEF Q!Do
    <3> QED BY <3>1, GetPlaces
  <2>2. CASE c.op = "msgsnd"
    <3>1. Q!msgsnd(t, c)
      BY <1>1, <2>2 DEF Q!Do
    <3>2. (\E e : Q!Fails(t, c, e)) \/ (Q!msgq_valid(c.q) /\ Q!SendNow(t, c))
      BY <3>1 DEF Q!msgsnd
    <3>3. CASE Q!msgq_valid(c.q) /\ Q!SendNow(t, c)
      <4>1. Pending(c)
        BY <1>1, <2>2, <3>3 DEF Pending, Q!msgq_valid
      <4> QED BY <2>2, <3>3, <4>1, SendPlaces
    <3> QED BY <3>2, <3>3, FailsPlaces
  <2>3. CASE c.op = "msgrcv"
    <3>1. Q!msgrcv(t, c)
      BY <1>1, <2>3 DEF Q!Do
    <3>2. (\E e : Q!Fails(t, c, e)) \/ (Q!msgq_valid(c.q) /\ Q!ReceiveNow(t, c))
      BY <3>1 DEF Q!msgrcv
    <3>3. CASE Q!msgq_valid(c.q) /\ Q!ReceiveNow(t, c)
      <4>1. Pending(c)
        BY <1>1, <2>3, <3>3 DEF Pending, Q!msgq_valid
      <4> QED BY <2>3, <3>3, <4>1, ReceivePlaces
    <3> QED BY <3>2, <3>3, FailsPlaces
  <2>4. CASE c.op = "msgctl"
    <3>1. Q!msgctl(t, c)
      BY <1>1, <2>4 DEF Q!Do
    <3> QED BY <3>1, CtlPlaces
  <2>5. c.op \in {"msgget", "msgsnd", "msgrcv", "msgctl"}
    BY <1>1 DEF Q!GoodCall
  <2> QED BY <2>1, <2>2, <2>3, <2>4, <2>5
<1>2. ASSUME NEW t \in Q!Threads, Q!Begin(t) PROVE NoneLonger \/ \E c : PlacedBy(c)
  <2>1. PICK c \in Q!CallsOf(t) : Q!Do(t, c)
    BY <1>2 DEF Q!Begin
  <2>2. Q!GoodCall(c)
    BY <2>1, CallsGood
  <2> QED BY <1>1, <2>1, <2>2
<1>3. ASSUME NEW t \in Q!Threads, Q!Again(t) PROVE NoneLonger \/ \E c : PlacedBy(c)
  <2>1. qAt[t] = "awake"
    BY <1>3 DEF Q!Again
  <2>2. call[t] # Q!NoCall /\ Pending(call[t])
    BY <2>1 DEF QueuesInv, ThreadsInv, InCalls
  <2>3. \/ call[t].op = "msgsnd" /\ Q!SendNow(t, call[t])
        \/ call[t].op = "msgrcv" /\ Q!ReceiveNow(t, call[t])
        \/ call[t].op = "msgctl" /\ Q!RemoveWhenIdle(t, call[t])
    BY <1>3, <2>2 DEF Q!Again, Pending
  <2> QED BY <2>2, <2>3, SendPlaces, ReceivePlaces, RemovePlaces
<1>4. ASSUME NEW t \in Q!Threads, Q!TimeOut(t) \/ Q!End(t) PROVE NoneLonger
  <2>1. mq' = mq
    BY <1>4 DEF Q!TimeOut, Q!End, Q!table
  <2> QED BY <2>1, SameNotLonger
<1>5. CASE UNCHANGED Q!vars
  BY <1>5, SameNotLonger DEF Q!vars
<1> QED BY <1>2, <1>3, <1>4, <1>5 DEF Q!Next

\* Smaller numbers have a smaller sum.
LEMMA SumAtMost ==
  ASSUME NEW U, IsFiniteSet(U), NEW f, NEW e, \A x \in U : f[x] \in Nat /\ e[x] \in Nat /\ e[x] <= f[x]
  PROVE  SumOf(U, e) <= SumOf(U, f)
<1> DEFINE X == {R \in SUBSET U : SumOf(R, e) <= SumOf(R, f)}
<1>1. \A R \in SUBSET U : IsFiniteSet(R) /\ Smaller(X, R) => R \in X
  <2> TAKE R \in SUBSET U
  <2> HAVE IsFiniteSet(R) /\ Smaller(X, R)
  <2> DEFINE c == Chosen(R)  T == R \ {c}
  <2>1. SumOf(R, f) = IF R = {} THEN 0 ELSE f[c] + SumOf(T, f)
    BY SumFirst
  <2>2. SumOf(R, e) = IF R = {} THEN 0 ELSE e[c] + SumOf(T, e)
    BY SumFirst
  <2>3. CASE R = {}
    <3>1. SumOf(R, e) = 0 /\ SumOf(R, f) = 0
      BY <2>1, <2>2, <2>3
    <3> QED BY <3>1
  <2>4. CASE R # {}
    <3>1. c \in R
      BY <2>4, ChosenIn
    <3>2. SumOf(T, e) <= SumOf(T, f)
      BY <3>1 DEF Smaller
    <3>3. IsFiniteSet(T) /\ T \subseteq U
      BY FS_Subset
    <3> HIDE DEF c, T
    <3>4. SumOf(T, e) \in Nat /\ SumOf(T, f) \in Nat
      BY <3>3, SumNumber
    <3>5. f[c] \in Nat /\ e[c] \in Nat /\ e[c] <= f[c]
      BY <3>1
    <3>6. SumOf(R, e) = e[c] + SumOf(T, e) /\ SumOf(R, f) = f[c] + SumOf(T, f)
      BY <2>1, <2>2, <2>4
    <3>7. SumOf(R, e) <= SumOf(R, f)
      BY <3>2, <3>4, <3>5, <3>6
    <3> QED BY <3>7
  <2> QED BY <2>3, <2>4
<1> HIDE DEF X
<1>2. U \in X
  BY <1>1, FiniteSets
<1> QED BY <1>2 DEF X

\* What the queues hold is what the counts cover, one by one and in all.
BytesRight ==
  /\ \A q \in Q!Queues : Q!Bytes(q) = Holds(mq[q].msgs) /\ Q!Bytes(q) \in Nat /\ Q!Bytes(q) <= mq[q].cbytes
  /\ Q!Total \in Nat /\ Q!Total <= b_current /\ b_current \in Nat
LEMMA BytesAreRight == QueuesInv => BytesRight
<1> SUFFICES ASSUME QueuesInv PROVE BytesRight
  OBVIOUS
<1>1. TableRight(mq, q_current, b_current) /\ Q!QueuesAssumption
  BY DEF QueuesInv, TableInv
<1>2. ASSUME NEW q \in Q!Queues
      PROVE  /\ Q!Bytes(q) = Holds(mq[q].msgs) /\ Q!Bytes(q) \in Nat /\ Q!Bytes(q) <= mq[q].cbytes
             /\ mq[q].cbytes \in Nat
  <2>1. mq[q].msgs \in Seq(Message) /\ mq[q].cbytes \in Nat /\ LongSize \in Nat
    BY <1>1, TableNumbers DEF Q!QueuesAssumption
  <2> DEFINE s == mq[q].msgs
  <2>2. Q!Bytes(q) = Q!FoldSeq(LAMBDA m, sum : m.len + LongSize + sum, 0, s)
    BY DEF Q!Bytes
  <2> HIDE DEF s
  <2>3. Q!Bytes(q) = Holds(s) /\ Holds(s) \in Nat
    BY <2>1, <2>2, BytesIs, HoldsNumber DEF s
  <2>4. Holds(s) <= mq[q].cbytes
    BY <1>1 DEF TableRight, Covered, s
  <2> QED BY <2>1, <2>3, <2>4 DEF s
<1> DEFINE g == [q \in Q!Queues |-> Q!Bytes(q)]  T == Q!Queues
<1>3. DOMAIN g = T /\ IsFiniteSet(T) /\ \A q \in T : g[q] = Q!Bytes(q) /\ CountsOf(mq)[q] = mq[q].cbytes
  BY <1>1, QueuesFinite DEF CountsOf
<1>4. Q!Total = Q!FoldFunction(+, 0, g)
  BY DEF Q!Total
<1> HIDE DEF g
<1>5. Q!Total = SumOf(T, g)
  BY <1>3, <1>4, FoldIsSum
<1>6. \A q \in T : CountsOf(mq)[q] \in Nat /\ g[q] \in Nat /\ g[q] <= CountsOf(mq)[q]
  BY <1>2, <1>3
<1> HIDE DEF T
<1>7. SumOf(T, g) \in Nat /\ SumOf(T, CountsOf(mq)) \in Nat /\ SumOf(T, g) <= SumOf(T, CountsOf(mq))
  BY <1>3, <1>6, SumNumber, SumAtMost
<1>8. SumOf(T, CountsOf(mq)) <= b_current /\ b_current \in Nat
  BY <1>1, TableNumbers DEF TableRight, T
<1>9. Q!Total \in Nat /\ Q!Total <= b_current
  BY <1>5, <1>7, <1>8
<1> QED BY <1>2, <1>8, <1>9 DEF BytesRight

LEMMA PlacedFits ==
  ASSUME QueuesInv, QueuesInv', NEW c, PlacedBy(c)
  PROVE  /\ Q!Bytes(c.q)' < mq[c.q].qbytes /\ Q!Total' < MQ_MAX_BYTES_IN_SYSTEM
<1>1. BytesRight
  BY BytesAreRight
<1>2. BytesRight'
  <2>1. QueuesInv' => BytesRight'
    BY BytesAreRight, PTL
  <2> QED BY <2>1
<1>3. c.q \in Q!Queues /\ c.len \in Nat /\ Q!not_full(c.len, c.q, 0)
      /\ b_current' = b_current + (c.len + LongSize)
  BY DEF PlacedBy
<1>4. mq[c.q] \in QueueSet /\ mq[c.q].msgs \in Seq(Message) /\ LongSize \in Nat
      /\ MQ_MAX_BYTES_IN_SYSTEM \in Nat
  BY <1>3, TableSizes DEF QueuesInv, Q!QueuesAssumption
<1>5. mq[c.q].cbytes \in Nat /\ mq[c.q].qbytes \in Nat
  BY <1>4 DEF QueueSet
<1>6. Q!Hysteresis(c.q, 0) = 0
  <2>1. mq[c.q].qbytes \div 4 \in Nat
    BY <1>5
  <2> QED BY <2>1 DEF Q!Hysteresis
<1>7. c.len + LongSize + b_current < MQ_MAX_BYTES_IN_SYSTEM /\ c.len + LongSize + mq[c.q].cbytes < mq[c.q].qbytes
  <2> DEFINE h == Q!Hysteresis(c.q, 0)
  <2>1. /\ c.len + h + LongSize + b_current < MQ_MAX_BYTES_IN_SYSTEM
        /\ c.len + h + LongSize + mq[c.q].cbytes < mq[c.q].qbytes
    BY <1>3 DEF Q!not_full
  <2>2. h = 0 /\ c.len + 0 = c.len
    BY <1>3, <1>6
  <2> HIDE DEF h
  <2> QED BY <2>1, <2>2
<1>8. PICK m \in Message : m.len = c.len /\ mq'[c.q].msgs = Append(mq[c.q].msgs, m)
  BY DEF PlacedBy
<1>9. Holds(mq'[c.q].msgs) = (c.len + LongSize) + Holds(mq[c.q].msgs)
  BY <1>4, <1>8, HoldsMore
<1>10. Q!Bytes(c.q)' = Holds(mq'[c.q].msgs)
  BY <1>2, <1>3 DEF BytesRight
<1>11. Q!Bytes(c.q)' < mq[c.q].qbytes
  <2> DEFINE h == Holds(mq[c.q].msgs)  k == mq[c.q].cbytes  n == mq[c.q].qbytes
  <2>1. h \in Nat /\ h <= k
    BY <1>1, <1>3 DEF BytesRight
  <2>2. k \in Nat /\ n \in Nat /\ c.len + LongSize + k < n /\ c.len \in Nat /\ LongSize \in Nat
    BY <1>3, <1>4, <1>5, <1>7
  <2>3. Q!Bytes(c.q)' = (c.len + LongSize) + h
    BY <1>9, <1>10
  <2> HIDE DEF h, k, n
  <2>4. (c.len + LongSize) + h < n
    BY <2>1, <2>2
  <2> QED BY <2>3, <2>4 DEF n
<1>12. Q!Total' < MQ_MAX_BYTES_IN_SYSTEM
  <2>1. Q!Total' \in Nat /\ Q!Total' <= b_current' /\ b_current \in Nat
    BY <1>1, <1>2 DEF BytesRight
  <2> QED BY <1>3, <1>4, <1>7, <2>1
<1> QED BY <1>11, <1>12

\* A message is placed only where it fits.
PlacesOnlyFitting ==
  \A q \in Q!Queues : Len(mq'[q].msgs) > Len(mq[q].msgs) =>
    Q!Bytes(q)' < mq[q].qbytes /\ Q!Total' < MQ_MAX_BYTES_IN_SYSTEM
LEMMA LimitsStep == QueuesInv /\ QueuesInv' /\ (Q!Next \/ UNCHANGED Q!vars) => PlacesOnlyFitting
<1> SUFFICES ASSUME QueuesInv, QueuesInv', Q!Next \/ UNCHANGED Q!vars,
                    NEW q \in Q!Queues, Len(mq'[q].msgs) > Len(mq[q].msgs)
             PROVE  Q!Bytes(q)' < mq[q].qbytes /\ Q!Total' < MQ_MAX_BYTES_IN_SYSTEM
  BY DEF PlacesOnlyFitting
<1>1. Len(mq[q].msgs) \in Nat
  BY TableSizes
<1>2. Len(mq'[q].msgs) \in Nat
  <2>1. TableRight(mq', q_current', b_current')
    BY DEF QueuesInv, TableInv
  <2>2. mq'[q].msgs \in Seq(Message)
    BY <2>1, TableNumbers DEF QueuesInv, Q!QueuesAssumption
  <2> QED BY <2>2
<1>3. ~NoneLonger
  BY <1>1, <1>2 DEF NoneLonger
<1>4. PICK c : PlacedBy(c)
  BY <1>3, StepPlacesOne
<1>5. q = c.q
  <2>1. CASE q # c.q
    <3>1. mq'[q].msgs = mq[q].msgs
      BY <1>4, <2>1 DEF PlacedBy
    <3> DEFINE n == Len(mq[q].msgs)
    <3>2. Len(mq'[q].msgs) = n
      BY <3>1
    <3>3. n > n /\ n \in Nat
      BY <1>1, <3>2
    <3> HIDE DEF n
    <3> QED BY <3>3
  <2> QED BY <2>1
<1> QED BY <1>4, <1>5, PlacedFits

-----------------------------------------------------------------------------
\* The lock is kept only by a call with an invalid identifier, and then no
\* other thread makes a call.
OnlyInvalidKeeps ==
  /\ (guard' # guard /\ guard' # Q!Free) => result'[guard'] = Q!EINVAL
  /\ (guard' = guard /\ guard # Q!Free) => \A t \in Q!Threads \ {guard} : made'[t] = made[t]
LEMMA GuardStep == QueuesInv /\ (Q!Next \/ UNCHANGED Q!vars) => OnlyInvalidKeeps
<1> SUFFICES ASSUME QueuesInv, Q!Next \/ UNCHANGED Q!vars PROVE OnlyInvalidKeeps
  OBVIOUS
<1>1. made \in [Q!Threads -> Nat] /\ DOMAIN result = Q!Threads
  BY DEF QueuesInv, ThreadsInv, ThreadsTyped
<1>2. CASE guard' = guard /\ made' = made
  BY <1>2 DEF OnlyInvalidKeeps
<1>3. ASSUME NEW t \in Q!Threads, NEW v, NEW cvs, Q!Returns(t, v, cvs), guard' = guard, Q!Locks(t)
      PROVE  OnlyInvalidKeeps
  <2>1. made' = [made EXCEPT ![t] = @ + 1]
    BY <1>3 DEF Q!Returns
  <2>2. guard # Q!Free => guard = t
    BY <1>3 DEF Q!Locks
  <2> QED BY <1>1, <1>3, <2>1, <2>2 DEF OnlyInvalidKeeps
<1>4. ASSUME NEW t \in Q!Threads, Q!Returns(t, Q!EINVAL, {}), guard' = t, Q!Locks(t)
      PROVE  OnlyInvalidKeeps
  <2>1. made' = [made EXCEPT ![t] = @ + 1] /\ result' = [result EXCEPT ![t] = Q!EINVAL]
    BY <1>4 DEF Q!Returns
  <2>2. result'[guard'] = Q!EINVAL
    BY <1>1, <1>4, <2>1
  <2>3. \A u \in Q!Threads \ {t} : made'[u] = made[u]
    BY <1>1, <2>1
  <2> QED BY <1>4, <2>2, <2>3 DEF OnlyInvalidKeeps
<1>5. ASSUME NEW t \in Q!Threads, NEW c, NEW cv, NEW cvs, Q!Sleeps(t, c, cv, cvs) PROVE OnlyInvalidKeeps
  BY <1>2, <1>5 DEF Q!Sleeps
<1>6. ASSUME NEW t \in Q!Threads, Q!Locks(t), NEW c,
             \/ Q!SendNow(t, c) \/ Q!ReceiveNow(t, c) \/ Q!RemoveWhenIdle(t, c)
             \/ \E e : Q!Fails(t, c, e)
      PROVE  OnlyInvalidKeeps
  <2>1. CASE Q!SendNow(t, c)
    BY <1>3, <1>5, <1>6, <2>1 DEF Q!SendNow
  <2>2. CASE Q!ReceiveNow(t, c)
    <3>1. Waiting(t, c) \/ Returned(t, c)
      BY <2>2, ReceiveNowIs
    <3> QED BY <1>3, <1>5, <1>6, <3>1 DEF Waiting, Returned
  <2>3. CASE Q!RemoveWhenIdle(t, c)
    BY <1>3, <1>5, <1>6, <2>3 DEF Q!RemoveWhenIdle
  <2>4. CASE \E e : Q!Fails(t, c, e)
    BY <1>3, <1>6, <2>4 DEF Q!Fails
  <2> QED BY <1>6, <2>1, <2>2, <2>3, <2>4
<1>7. ASSUME NEW t \in Q!Threads, Q!Locks(t), NEW c, Q!GoodCall(c), Q!Do(t, c) PROVE OnlyInvalidKeeps
  <2>1. CASE c.op = "msgget"
    <3>1. Q!msgget(t, c)
      BY <1>7, <2>1 DEF Q!Do
    <3>2. guard' = guard /\ \E v : Q!Returns(t, v, {})
      BY <3>1 DEF Q!msgget
    <3> QED BY <1>3, <1>7, <3>2
  <2>2. CASE c.op = "msgsnd"
    <3>1. Q!msgsnd(t, c)
      BY <1>7, <2>2 DEF Q!Do
    <3>2. (\E e : Q!Fails(t, c, e)) \/ Q!SendNow(t, c)
      BY <3>1 DEF Q!msgsnd
    <3> QED BY <1>6, <1>7, <3>2
  <2>3. CASE c.op = "msgrcv"
    <3>1. Q!msgrcv(t, c)
      BY <1>7, <2>3 DEF Q!Do
    <3>2. (\E e : Q!Fails(t, c, e)) \/ Q!ReceiveNow(t, c)
      BY <3>1 DEF Q!msgrcv
    <3> QED BY <1>6, <1>7, <3>2
  <2>4. CASE c.op = "msgctl"
    <3>1. Q!msgctl(t, c)
      BY <1>7, <2>4 DEF Q!Do
    <3>2. \/ Q!Returns(t, Q!EINVAL, {}) /\ guard' = t
          \/ guard' = guard /\ \E v : Q!Returns(t, v, {})
          \/ Q!RemoveWhenIdle(t, c)
      BY <3>1 DEF Q!msgctl
    <3> QED BY <1>3, <1>4, <1>6, <1>7, <3>2
  <2>5. c.op \in {"msgget", "msgsnd", "msgrcv", "msgctl"}
    BY <1>7 DEF Q!GoodCall
  <2> QED BY <2>1, <2>2, <2>3, <2>4, <2>5
<1>8. ASSUME NEW t \in Q!Threads, Q!Begin(t) PROVE OnlyInvalidKeeps
  <2>1. PICK c \in Q!CallsOf(t) : Q!Do(t, c)
    BY <1>8 DEF Q!Begin
  <2>2. Q!GoodCall(c) /\ Q!Locks(t)
    BY <1>8, <2>1, CallsGood DEF Q!Begin
  <2> QED BY <1>7, <2>1, <2>2
<1>9. ASSUME NEW t \in Q!Threads, Q!Again(t) PROVE OnlyInvalidKeeps
  <2>1. qAt[t] = "awake" /\ Q!Locks(t)
    BY <1>9 DEF Q!Again
  <2>2. call[t] # Q!NoCall /\ Pending(call[t])
    BY <2>1 DEF QueuesInv, ThreadsInv, InCalls
  <2>3. \/ Q!SendNow(t, call[t]) \/ Q!ReceiveNow(t, call[t]) \/ Q!RemoveWhenIdle(t, call[t])
    BY <1>9, <2>2 DEF Q!Again, Pending
  <2> QED BY <1>6, <2>1, <2>3
<1>10. ASSUME NEW t \in Q!Threads, Q!TimeOut(t) \/ Q!End(t) PROVE OnlyInvalidKeeps
  <2>1. made' = made /\ (guard' = guard \/ guard' = Q!Free)
    BY <1>10 DEF Q!TimeOut, Q!End
  <2> QED BY <2>1 DEF OnlyInvalidKeeps
<1>11. CASE UNCHANGED Q!vars
  BY <1>2, <1>11 DEF Q!vars
<1> QED BY <1>8, <1>9, <1>10, <1>11 DEF Q!Next

\* QueueSteps: a message is placed only where it fits, in its queue and in the
\* system, and only a call with an invalid identifier keeps the lock of all
\* the queues; while it does, no other thread makes a call.
THEOREM QueueStepsAllowed == FairSpec => QueueSteps
<1>1. AllKept /\ AllKept' /\ [Next]_vars => [PlacesOnlyFitting]_Q!vars
  BY LimitsStep, QueuesSteps DEF AllKept
<1>2. AllKept /\ [Next]_vars => [OnlyInvalidKeeps]_Q!vars
  BY GuardStep, QueuesSteps DEF AllKept
<1>3. FairSpec => [][PlacesOnlyFitting]_Q!vars
  BY <1>1, AllKeptSpec, PTL DEF FairSpec
<1>4. FairSpec => [][OnlyInvalidKeeps]_Q!vars
  BY <1>2, AllKeptSpec, PTL DEF FairSpec
<1>5. FairSpec => Q!PlacedInLimits
  BY <1>3 DEF Q!PlacedInLimits, PlacesOnlyFitting
<1>6. FairSpec => Q!KeptByInvalid
  BY <1>4 DEF Q!KeptByInvalid, OnlyInvalidKeeps
<1> QED BY <1>5, <1>6 DEF QueueSteps

-----------------------------------------------------------------------------
(* The crews that search: what is listed.                                  *)

Greps == {"grepMT", "grepMP"}
Names(s) == {s[i][1] : i \in 1 .. Len(s)}
\* A list has a name once, and under it what was found in that file.
ListRight(s) ==
  /\ s \in Seq(Nat \X SUBSET Nat)
  /\ \A i \in 1 .. Len(s) : s[i][2] = {s[i][1]}
  /\ \A i, j \in 1 .. Len(s) : s[i][1] = s[j][1] => i = j

LEMMA ListNothing == ListRight(<<>>) /\ Names(<<>>) = {}
BY DEF ListRight, Names

LEMMA ListMore ==
  ASSUME NEW s, ListRight(s), NEW n \in Nat, n \notin Names(s)
  PROVE  /\ ListRight(Append(s, <<n, {n}>>))
         /\ Names(Append(s, <<n, {n}>>)) = Names(s) \cup {n}
<1> DEFINE x == <<n, {n}>>  r == Append(s, x)  l == Len(s)
<1>1. s \in Seq(Nat \X SUBSET Nat) /\ x \in Nat \X SUBSET Nat /\ x[1] = n /\ x[2] = {n} /\ l \in Nat
  BY DEF ListRight
<1> HIDE DEF x
<1>2. r \in Seq(Nat \X SUBSET Nat) /\ Len(r) = l + 1 /\ r[l + 1] = x /\ \A i \in 1 .. l : r[i] = s[i]
  BY <1>1
<1> HIDE DEF r, l
<1>3. \A i \in 1 .. l + 1 : i \in 1 .. l \/ i = l + 1
  BY <1>1
<1>4. \A i \in 1 .. l : i \in 1 .. l + 1 /\ i # l + 1 /\ s[i][1] # n
  BY <1>1 DEF Names, l
<1>5. l + 1 \in 1 .. l + 1
  BY <1>1
<1>6. \A i \in 1 .. l + 1 : r[i][2] = {r[i][1]}
  BY <1>1, <1>2, <1>3 DEF ListRight, l
<1>7. \A i, j \in 1 .. l + 1 : r[i][1] = r[j][1] => i = j
  BY <1>1, <1>2, <1>3, <1>4 DEF ListRight, l
<1>8. Names(r) = Names(s) \cup {n}
  <2>1. Names(r) = {r[i][1] : i \in 1 .. l + 1} /\ Names(s) = {s[i][1] : i \in 1 .. l}
    BY <1>2 DEF Names, l
  <2>2. n \in Names(r) /\ r[l + 1][1] = n
    BY <1>1, <1>2, <1>5, <2>1
  <2>3. \A i \in 1 .. l : r[i][1] = s[i][1] /\ s[i][1] \in Names(r)
    BY <1>2, <1>4, <2>1
  <2>4. ASSUME NEW y \in Names(r) PROVE y \in Names(s) \cup {n}
    BY <1>3, <2>1, <2>2, <2>3
  <2>5. ASSUME NEW y \in Names(s) PROVE y \in Names(r)
    BY <2>1, <2>3
  <2> QED BY Zenon, <2>2, <2>4, <2>5
<1> QED BY <1>2, <1>6, <1>7, <1>8 DEF ListRight, r, x

LEMMA CrewSize == \A T : F!Cardinality(T) = Cardinality(T)
BY DEF F!Cardinality, Cardinality

\* As many names as entries.
LEMMA ListCounts ==
  ASSUME NEW s, ListRight(s)
  PROVE  Cardinality(Names(s)) = Len(s)
<1> DEFINE l == Len(s)  g == [i \in 1 .. l |-> s[i][1]]
<1>1. l \in Nat
  BY DEF ListRight
<1>2. g \in Bijection(1 .. l, Names(s))
  BY DEF ListRight, Names, Bijection, Injection, Surjection, IsInjective
<1>3. IsFiniteSet(1 .. l) /\ Cardinality(1 .. l) = l
  BY <1>1, FS_Interval
<1> HIDE DEF l, g
<1>4. Cardinality(Names(s)) = Cardinality(1 .. l)
  BY <1>2, <1>3, FS_Bijection DEF ExistsBijection
<1> QED BY <1>3, <1>4 DEF l

-----------------------------------------------------------------------------
\* The files with a match, and those whose workers are not yet waited for.
Found == {f \in 1 .. Len(contents) : F!Matches(contents[f])}
Left == {args[i].handle : i \in 1 .. at}
Distinct == \A i, j \in 1 .. at : args[i].handle = args[j].handle => i = j

\* The entry of a worker that has not ended is its own; it searches its file,
\* and its temporary file has what is found there.
OfGrep(f) ==
  /\ args[f].name = args[f].handle /\ args[f].temp = args[f].handle
  /\ IF f \in 1 .. Len(contents) THEN args[f].handle \in 1 .. Len(contents) ELSE fPc[f] = "new"
  /\ fPc[f] # "store" /\ (fPc[f] # "exit" => args[f].handle = f)
  /\ copied[f] \in {0, f}
  /\ fPc[f] = "search" => copied[f] = f
  /\ fPc[f] = "exit" => temps[f] = IF f \in Found THEN {f} ELSE {}
  /\ f \in left => contents[f] = F!Missing /\ fPc[f] # "new"

BossOfGrep ==
  /\ fBoss = "create" =>
       /\ at \in 1 .. Len(contents) /\ Names(listed) = {}
       /\ \A f \in F!Files : args[f].handle = f
  /\ fBoss = "wait" /\ crew = "grepMT" =>
       at \in 1 .. Len(contents) /\ Distinct /\ Names(listed) = Found \ Left
  /\ fBoss = "wait" /\ crew = "grepMP" =>
       /\ at \in Nat /\ Names(listed) = {}
       /\ \A f \in 1 .. Len(contents) : f < at => fPc[f] = "exit"
  /\ fBoss = "list" =>
       /\ crew = "grepMP" /\ at \in 1 .. Len(contents) /\ \A f \in 1 .. Len(contents) : fPc[f] = "exit"
       /\ Names(listed) = {f \in Found : f < at}
  /\ fBoss = "done" => Names(listed) = Found
  /\ fBoss = "failed" => /\ crew = "grepMT"
                         /\ Len(contents) > MaxWait \/ \E f \in 1 .. Len(contents) : contents[f] = F!Missing

GrepInv ==
  /\ ListRight(listed) /\ DOMAIN temps = F!Files
  /\ crew \in Greps => BossOfGrep /\ \A f \in F!Files : OfGrep(f)
  /\ crew \notin Greps => /\ listed = <<>> /\ fBoss \notin {"list", "failed"}
                          /\ \A f \in F!Files : copied[f] \in {0, f}

LEMMA GrepFacts ==
  ASSUME CrewInv, crew \in Greps
  PROVE  /\ Len(contents) \in 1 .. NFiles /\ F!nFiles = Len(contents) /\ F!Files = 1 .. NFiles
         /\ NFiles \in Nat /\ \A f \in 1 .. Len(contents) : f \in F!Files
         /\ args \in [F!Files -> [handle : F!Files, name : F!Files, temp : F!Files]]
         /\ fPc \in [F!Files -> {"new", "run", "store", "search", "exit"}]
         /\ copied \in [F!Files -> F!Files \cup {0}] /\ left \subseteq F!Files /\ at \in Nat
         /\ crew \notin F!WordCounts /\ crew # "wcST"
<1>1. crew \in F!Programs /\ crew \notin F!WordCounts /\ crew # "wcST"
  BY DEF Greps, F!Programs, F!WordCounts
<1>2. Len(contents) \in 1 .. NFiles /\ NFiles \in Nat /\ F!Files = 1 .. NFiles
  BY <1>1 DEF CrewInv, F!CrewAssumption, F!Files
<1>3. F!nFiles = Len(contents) /\ \A f \in 1 .. Len(contents) : f \in F!Files
  BY <1>2 DEF F!nFiles
<1>4. /\ args \in [F!Files -> [handle : F!Files, name : F!Files, temp : F!Files]]
      /\ fPc \in [F!Files -> {"new", "run", "store", "search", "exit"}]
      /\ copied \in [F!Files -> F!Files \cup {0}] /\ left \subseteq F!Files /\ at \in Nat
  BY DEF CrewInv, F!TypeOK
<1> QED BY Zenon, <1>1, <1>2, <1>3, <1>4

\* A step of a worker.
LEMMA StepSearches ==
  ASSUME CrewInv, GrepInv, crew \in Greps, NEW f \in F!Files, F!GrepStart(f) \/ F!GrepSearch(f)
  PROVE  GrepInv'
<1> USE DEF F!Goto
<1>0. /\ F!Files = 1 .. NFiles /\ NFiles \in Nat /\ f \in Nat
      /\ fPc \in [F!Files -> {"new", "run", "store", "search", "exit"}]
      /\ copied \in [F!Files -> F!Files \cup {0}] /\ BossOfGrep /\ OfGrep(f)
  BY GrepFacts DEF GrepInv
<1>1. f \in 1 .. Len(contents) /\ fPc[f] \in {"run", "search"} /\ args[f].name = f
  BY <1>0 DEF F!GrepStart, F!GrepSearch, OfGrep
<1>2. UNCHANGED <<crew, contents, args, fBoss, at, listed>>
  BY DEF F!GrepStart, F!GrepSearch
<1>3. Found' = Found /\ Left' = Left
  BY <1>2 DEF Found, Left, F!Matches, F!Hidden
<1>4. OfGrep(f)'
  <2>1. CASE F!GrepStart(f)
    <3>1. copied'[f] = f /\ fPc'[f] = "search" /\ left' = left
      BY <1>0, <1>1, <2>1 DEF F!GrepStart
    <3> QED BY <1>0, <1>1, <1>2, <3>1 DEF OfGrep
  <2>2. CASE F!GrepSearch(f)
    <3>1. copied[f] = f /\ copied' = copied /\ fPc'[f] = "exit"
      BY <1>0, <2>2 DEF F!GrepSearch, OfGrep
    <3>2. temps'[f] = IF f \in Found THEN {f} ELSE {}
      BY <1>1, <2>2, <3>1 DEF F!GrepSearch, Found, GrepInv
    <3>3. f \in left' => contents[f] = F!Missing
      BY <1>0, <2>2, <3>1 DEF F!GrepSearch, OfGrep
    <3> QED BY <1>0, <1>1, <1>2, <1>3, <3>1, <3>2, <3>3 DEF OfGrep
  <2> QED BY <2>1, <2>2
<1>5. ASSUME NEW g \in F!Files \ {f} PROVE OfGrep(g)'
  <2>1. OfGrep(g)
    BY DEF GrepInv
  <2>2. fPc'[g] = fPc[g] /\ copied'[g] = copied[g] /\ temps'[g] = temps[g] /\ (g \in left' <=> g \in left)
    BY <1>0 DEF F!GrepStart, F!GrepSearch, GrepInv
  <2> QED BY <1>2, <1>3, <2>1, <2>2 DEF OfGrep
<1>6. \A g \in 1 .. Len(contents) : g \in F!Files /\ (fPc[g] = "exit" => fPc'[g] = "exit")
  BY <1>0, <1>1, GrepFacts DEF F!GrepStart, F!GrepSearch
<1>7. BossOfGrep'
  BY <1>0, <1>2, <1>3, <1>6 DEF BossOfGrep, Distinct
<1>8. DOMAIN temps' = F!Files
  BY DEF F!GrepStart, F!GrepSearch, GrepInv
<1>9. ListRight(listed)' /\ \A g \in F!Files : OfGrep(g)'
  BY <1>2, <1>4, <1>5 DEF GrepInv
<1> QED BY <1>2, <1>7, <1>8, <1>9 DEF GrepInv

\* What only depends on values that stay.
LEMMA OfGrepSame ==
  ASSUME NEW f, OfGrep(f), UNCHANGED <<contents, args, fPc, copied, temps, left>>
  PROVE  OfGrep(f)'
BY DEF OfGrep, Found, F!Matches, F!Hidden

\* The boss starts its workers.
LEMMA StepCreates ==
  ASSUME CrewInv, GrepInv, crew \in Greps, F!BossCreate
  PROVE  GrepInv'
<1> USE DEF F!Goto, F!BossCreate
<1>0. /\ F!Files = 1 .. NFiles /\ NFiles \in Nat /\ Len(contents) \in 1 .. NFiles /\ F!nFiles = Len(contents)
      /\ fPc \in [F!Files -> {"new", "run", "store", "search", "exit"}]
      /\ at \in 1 .. Len(contents) /\ Names(listed) = {} /\ \A f \in F!Files : args[f].handle = f
  BY GrepFacts DEF GrepInv, BossOfGrep
<1>1. UNCHANGED <<crew, contents, args, copied, temps, left, listed>>
  OBVIOUS
<1>2. Found' = Found
  BY <1>1 DEF Found, F!Matches, F!Hidden
<1>3. ASSUME NEW f \in F!Files PROVE OfGrep(f)'
  <2>1. OfGrep(f)
    BY DEF GrepInv
  <2>2. fPc'[f] = IF f = at THEN "run" ELSE fPc[f]
    BY <1>0
  <2> QED BY <1>0, <1>1, <1>2, <2>1, <2>2 DEF OfGrep
<1>4. at' \in 1 .. Len(contents) /\ fBoss' \in {"create", "wait"}
      /\ (fBoss' = "wait" => at' = IF crew = "grepMT" THEN Len(contents) ELSE 1)
  BY <1>0
<1>5. fBoss' = "wait" /\ crew = "grepMT" => (Distinct /\ Names(listed) = Found \ Left)'
  <2> SUFFICES ASSUME fBoss' = "wait", crew = "grepMT" PROVE (Distinct /\ Names(listed) = Found \ Left)'
    OBVIOUS
  <2>1. at' = Len(contents) /\ \A i \in 1 .. at' : args'[i].handle = i
    BY <1>0, <1>1, <1>4
  <2>2. Left' = 1 .. Len(contents)
    BY <2>1 DEF Left
  <2> QED BY <1>0, <1>1, <1>2, <2>1, <2>2 DEF Distinct, Found
<1>6. BossOfGrep'
  BY <1>0, <1>1, <1>4, <1>5 DEF BossOfGrep
<1> QED BY <1>1, <1>3, <1>6 DEF GrepInv

\* One file more is listed if it has a match.
LEMMA ListOne ==
  ASSUME NEW n \in Nat, NEW b \in BOOLEAN, ListRight(listed), n \notin Names(listed), temps[n] = IF b THEN {n} ELSE {},
         F!ListIfFound(n, n, temps[n] # {})
  PROVE  /\ ListRight(listed)'
         /\ Names(listed)' = IF b THEN Names(listed) \cup {n} ELSE Names(listed)
BY ListMore DEF F!ListIfFound

LEMMA StepTooMany ==
  ASSUME CrewInv, GrepInv, crew \in Greps, F!GrepTooMany
  PROVE  GrepInv'
<1> USE DEF F!GrepTooMany, F!crew
<1>1. UNCHANGED <<contents, args, fPc, copied, temps, left, listed, crew>> /\ fBoss' = "failed"
  OBVIOUS
<1>2. at \in 1 .. Len(contents) /\ at > MaxWait /\ MaxWait \in Nat /\ Len(contents) \in Nat
  BY GrepFacts DEF GrepInv, BossOfGrep, CrewInv, F!CrewAssumption
<1>3. Len(contents) > MaxWait
  BY <1>2
<1>4. BossOfGrep'
  BY <1>1, <1>3 DEF BossOfGrep
<1> QED BY <1>1, <1>4, OfGrepSame DEF GrepInv

LEMMA StepChunk ==
  ASSUME CrewInv, GrepInv, crew \in Greps, F!GrepWaitChunk
  PROVE  GrepInv'
<1> USE DEF F!GrepWaitChunk, F!crew
<1>1. UNCHANGED <<contents, args, fPc, copied, temps, left, listed, crew>>
  OBVIOUS
<1>2. /\ at \in Nat /\ Names(listed) = {} /\ MaxWait \in Nat /\ Len(contents) \in Nat \ {0} /\ crew = "grepMP"
      /\ \A f \in 1 .. Len(contents) : f < at => fPc[f] = "exit"
      /\ F!nFiles = Len(contents)
  BY GrepFacts DEF GrepInv, BossOfGrep, CrewInv, F!CrewAssumption
<1>3. \A f \in 1 .. Len(contents) : f < at + MaxWait => fPc[f] = "exit"
  BY <1>2
<1>4. Found' = Found
  BY <1>1 DEF Found, F!Matches, F!Hidden
<1>5. CASE at + MaxWait <= Len(contents)
  <2>1. at' = at + MaxWait /\ fBoss' = "wait" /\ at' \in Nat
    BY <1>2, <1>5
  <2>2. BossOfGrep'
    BY <1>1, <1>2, <1>3, <2>1 DEF BossOfGrep
  <2> QED BY <1>1, <2>2, OfGrepSame DEF GrepInv
<1>6. CASE ~(at + MaxWait <= Len(contents))
  <2>1. at' = 1 /\ fBoss' = "list" /\ at' \in 1 .. Len(contents)
    BY <1>2, <1>6
  <2>2. \A f \in 1 .. Len(contents) : fPc[f] = "exit" /\ ~(f < 1)
    BY <1>2, <1>3, <1>6
  <2>3. {f \in Found : f < 1} = {}
    BY <2>2 DEF Found
  <2>4. BossOfGrep'
    BY <1>1, <1>2, <1>4, <2>1, <2>2, <2>3 DEF BossOfGrep
  <2> QED BY <1>1, <2>4, OfGrepSame DEF GrepInv
<1> QED BY <1>5, <1>6

LEMMA StepList ==
  ASSUME CrewInv, GrepInv, crew \in Greps, F!GrepList
  PROVE  GrepInv'
<1> USE DEF F!GrepList, F!crew
<1>1. UNCHANGED <<contents, args, fPc, copied, temps, left, crew>>
  OBVIOUS
<1>2. /\ at \in 1 .. Len(contents) /\ Len(contents) \in Nat /\ F!nFiles = Len(contents)
      /\ \A f \in 1 .. Len(contents) : fPc[f] = "exit"
      /\ crew = "grepMP" /\ Names(listed) = {f \in Found : f < at} /\ ListRight(listed) /\ OfGrep(at)
  BY GrepFacts DEF GrepInv, BossOfGrep
<1>3. /\ ListRight(listed)'
      /\ Names(listed)' = IF at \in Found THEN Names(listed) \cup {at} ELSE Names(listed)
  <2>1. temps[at] = IF at \in Found THEN {at} ELSE {}
    BY <1>2 DEF OfGrep
  <2>2. at \in Nat /\ at \notin Names(listed)
    BY <1>2
  <2> QED BY <1>2, <2>1, <2>2, ListOne
<1>4. Found' = Found /\ \A f \in Found : f \in 1 .. Len(contents)
  BY <1>1 DEF Found, F!Matches, F!Hidden
<1>5. Names(listed)' = {f \in Found : f < at + 1}
  <2>1. \A f \in 1 .. Len(contents) : f < at + 1 <=> f < at \/ f = at
    BY <1>2
  <2> QED BY <1>2, <1>3, <1>4, <2>1
<1>6. CASE at < Len(contents)
  <2>1. at' = at + 1 /\ fBoss' = "list" /\ at' \in 1 .. Len(contents)
    BY <1>2, <1>6
  <2>2. BossOfGrep'
    BY <1>1, <1>2, <1>4, <1>5, <2>1 DEF BossOfGrep
  <2> QED BY <1>1, <1>3, <2>2, OfGrepSame DEF GrepInv
<1>7. CASE ~(at < Len(contents))
  <2>1. fBoss' = "done" /\ \A f \in 1 .. Len(contents) : f < at + 1
    BY <1>2, <1>7
  <2>2. Names(listed)' = Found
    BY <1>4, <1>5, <2>1
  <2>3. BossOfGrep'
    BY <1>4, <2>1, <2>2 DEF BossOfGrep
  <2> QED BY <1>1, <1>3, <2>3, OfGrepSame DEF GrepInv
<1> QED BY <1>6, <1>7

\* The boss lists a worker that has ended and moves the last entry to its place.
LEMMA StepListAny ==
  ASSUME CrewInv, GrepInv, crew \in Greps, F!GrepListAny
  PROVE  GrepInv'
<1> USE DEF F!GrepListAny, F!crew
<1> DEFINE p == F!First  h == args[p].handle
<1>0. /\ F!Files = 1 .. NFiles /\ NFiles \in Nat /\ Len(contents) \in 1 .. NFiles
      /\ args \in [F!Files -> [handle : F!Files, name : F!Files, temp : F!Files]]
      /\ crew = "grepMT" /\ at \in 1 .. Len(contents) /\ Distinct /\ Names(listed) = Found \ Left
      /\ ListRight(listed) /\ DOMAIN temps = F!Files
  BY GrepFacts DEF GrepInv, BossOfGrep
<1>00. /\ at \in Nat \ {0} /\ at \in 1 .. at
       /\ \A i \in 1 .. at : i \in Nat /\ i \in 1 .. Len(contents) /\ i \in F!Files
       /\ \A i \in 1 .. Len(contents) : i \in Nat /\ i \in F!Files
  <2> SUFFICES ASSUME NEW l \in 1 .. NFiles, NEW a \in 1 .. l
               PROVE  /\ a \in Nat \ {0} /\ a \in 1 .. a
                      /\ \A i \in 1 .. a : i \in Nat /\ i \in 1 .. l /\ i \in 1 .. NFiles
                      /\ \A i \in 1 .. l : i \in Nat /\ i \in 1 .. NFiles
    BY <1>0
  <2>1. NFiles \in Nat
    BY <1>0
  <2> QED BY <2>1
<1>1. UNCHANGED <<contents, fPc, copied, temps, left, crew>>
  OBVIOUS
<1>2. p \in 1 .. at /\ fPc[h] = "exit"
  <2>1. \E i \in F!Signalled : \A j \in F!Signalled : i <= j
    <3>1. F!Signalled # {}
      OBVIOUS
    <3>2. F!Signalled \subseteq Nat
      BY <1>00 DEF F!Signalled
    <3> QED BY <3>1, <3>2, LeastNumber
  <2>2. p \in F!Signalled
    BY <2>1 DEF F!First
  <2> QED BY <2>2 DEF F!Signalled
<1> HIDE DEF p
<1>3. /\ p \in F!Files /\ OfGrep(p) /\ h \in 1 .. Len(contents) /\ h \in F!Files /\ OfGrep(h)
      /\ h \in Nat /\ h \in Left
  <2>1. p \in F!Files /\ p \in 1 .. Len(contents)
    BY <1>00, <1>2
  <2>2. OfGrep(p)
    BY <2>1 DEF GrepInv
  <2>3. h \in 1 .. Len(contents) /\ h \in F!Files /\ h \in Nat
    BY <1>00, <2>1, <2>2 DEF OfGrep
  <2> QED BY <1>2, <2>1, <2>2, <2>3 DEF GrepInv, Left
<1>4. args[p].name = h /\ args[p].temp = h /\ temps[h] = IF h \in Found THEN {h} ELSE {}
  BY <1>2, <1>3 DEF OfGrep
<1>5. /\ ListRight(listed)'
      /\ Names(listed)' = IF h \in Found THEN Names(listed) \cup {h} ELSE Names(listed)
  <2>1. h \notin Names(listed)
    BY <1>0, <1>3
  <2>2. F!ListIfFound(h, h, temps[h] # {})
    BY <1>4 DEF p
  <2> HIDE DEF h
  <2> QED BY <1>0, <1>3, <1>4, <2>1, <2>2, ListOne
<1>6. Found' = Found
  BY <1>1 DEF Found, F!Matches, F!Hidden
<1>7. CASE h \in left
  <2>1. UNCHANGED <<args, at>> /\ fBoss' = "failed"
    BY <1>4, <1>7 DEF p
  <2>2. contents[h] = F!Missing
    BY <1>3, <1>7 DEF OfGrep
  <2>3. BossOfGrep'
    BY <1>0, <1>1, <1>3, <2>1, <2>2 DEF BossOfGrep
  <2> QED BY <1>0, <1>1, <1>5, <2>1, <2>3, OfGrepSame DEF GrepInv
<1>8. CASE h \notin left
  <2>1. args' = [args EXCEPT ![p] = args[at]] /\ at' = at - 1 /\ fBoss' = IF at = 1 THEN "done" ELSE fBoss
    BY <1>4, <1>8 DEF p, F!Compact
  <2> HIDE DEF h
  <2>2. \A i \in F!Files : args'[i] = IF i = p THEN args[at] ELSE args[i]
    BY <1>0, <1>3, <2>1
  <2>3. ASSUME NEW f \in F!Files PROVE OfGrep(f)'
    <3>1. OfGrep(f) /\ OfGrep(at)
      BY <1>00 DEF GrepInv
    <3>2. CASE f = p
      <4>1. fPc[p] = "exit"
        BY <1>2, <1>3 DEF OfGrep, h
      <4>2. p \in 1 .. Len(contents) /\ args'[f] = args[at]
        BY <1>00, <1>2, <2>2, <3>2
      <4> QED BY <1>0, <1>1, <1>6, <3>1, <3>2, <4>1, <4>2 DEF OfGrep
    <3>3. CASE f # p
      BY <1>1, <1>6, <2>2, <3>1, <3>3 DEF OfGrep
    <3> QED BY <3>2, <3>3
  <2>4. \A i \in 1 .. at : i \in F!Files /\ (i \in 1 .. at' \/ i = at)
    BY <1>00, <2>1
  <2>5. \A i \in 1 .. at' : i \in 1 .. at /\ i # at /\ i \in F!Files
    BY <1>00, <2>1
  <2>6. Distinct'
    <3>1. \A i, j \in 1 .. at : args[i].handle = args[j].handle => i = j
      BY <1>0 DEF Distinct
    <3> SUFFICES ASSUME NEW i \in 1 .. at', NEW j \in 1 .. at', args'[i].handle = args'[j].handle PROVE i = j
      BY DEF Distinct
    <3>2. /\ args'[i] = IF i = p THEN args[at] ELSE args[i]
          /\ args'[j] = IF j = p THEN args[at] ELSE args[j]
      BY <2>2, <2>5
    <3> QED BY <1>00, <2>5, <3>1, <3>2
  <2>7. Left' = Left \ {h}
    <3>1. ASSUME NEW i \in 1 .. at' PROVE args'[i].handle \in Left \ {h}
      <4>1. CASE i = p
        <5>1. args'[i].handle = args[at].handle /\ at # p /\ at \in 1 .. at
          BY <1>00, <2>2, <2>5, <4>1
        <5> QED BY <1>0, <1>2, <5>1 DEF Left, Distinct, h
      <4>2. CASE i # p
        BY <1>0, <1>2, <2>2, <2>4, <2>5, <4>2 DEF Left, Distinct, h
      <4> QED BY <4>1, <4>2
    <3>2. ASSUME NEW i \in 1 .. at, args[i].handle # h PROVE args[i].handle \in Left'
      <4>1. i # p
        BY <3>2 DEF h
      <4>2. CASE i = at
        <5>1. p \in 1 .. at' /\ args'[p] = args[at]
          BY <1>2, <1>3, <2>2, <2>4, <4>1, <4>2
        <5> QED BY <4>2, <5>1 DEF Left
      <4>3. CASE i # at
        <5>1. i \in 1 .. at' /\ args'[i] = args[i]
          BY <2>2, <2>4, <4>1, <4>3
        <5> QED BY <5>1 DEF Left
      <4> QED BY <4>2, <4>3
    <3> QED BY <3>1, <3>2 DEF Left
  <2>8. Names(listed)' = (Found \ Left)'
    BY <1>0, <1>3, <1>5, <1>6, <2>7
  <2>9. CASE at = 1
    <3>1. Left' = {} /\ fBoss' = "done"
      BY <2>1, <2>9 DEF Left
    <3> QED BY <1>0, <1>1, <1>5, <1>6, <2>3, <2>8, <3>1 DEF GrepInv, BossOfGrep
  <2>10. CASE at # 1
    <3>1. fBoss' = "wait" /\ at' \in 1 .. Len(contents)
      BY <1>0, <2>1, <2>10
    <3>2. BossOfGrep'
      BY <1>0, <1>1, <2>6, <2>8, <3>1 DEF BossOfGrep
    <3> QED BY <1>0, <1>1, <1>5, <2>3, <3>2 DEF GrepInv
  <2> QED BY <2>9, <2>10
<1> QED BY <1>7, <1>8

LEMMA GrepInvInit == F!CrewAssumption /\ (F!Init \/ NoCrew) => GrepInv
<1> SUFFICES ASSUME F!CrewAssumption, NEW q \in F!Programs \cup {"none"}, NEW c, F!InitOf(q, c),
                    q \in F!Programs => Len(c) \in 1 .. NFiles
             PROVE  GrepInv
  <2> SUFFICES ASSUME F!CrewAssumption
               PROVE  F!Init \/ NoCrew => GrepInv
    OBVIOUS
  <2>1. ASSUME F!Init PROVE GrepInv
    <3>0. PICK n \in F!Files : \E q \in F!Programs, c \in [1..n -> Contents] : F!InitOf(q, c)
      BY <2>1 DEF F!Init
    <3>1. PICK q \in F!Programs, c \in [1..n -> Contents] : F!InitOf(q, c)
      BY <3>0
    <3>2. n \in 1 .. NFiles /\ n \in Nat
      BY DEF F!Files, F!CrewAssumption
    <3>3. Len(c) = n
      BY <3>2
    <3> QED BY <3>1, <3>2, <3>3
  <2>2. ASSUME NoCrew PROVE GrepInv
    BY <2>2 DEF NoCrew, F!Programs, F!WordCounts
  <2> QED BY <2>1, <2>2
<1> USE DEF F!InitOf
<1>1. ListRight(listed) /\ Names(listed) = {} /\ listed = <<>> /\ fBoss = "create" /\ DOMAIN temps = F!Files
  BY ListNothing
<1>2. ASSUME crew \in Greps PROVE BossOfGrep
  <2>1. Len(contents) \in 1 .. NFiles /\ NFiles \in Nat /\ at = 1
    BY <1>2 DEF Greps, F!Programs, F!CrewAssumption
  <2>2. at \in 1 .. Len(contents)
    BY <2>1
  <2> QED BY <1>1, <2>2 DEF BossOfGrep
<1>3. ASSUME crew \in Greps, NEW f \in F!Files PROVE OfGrep(f)
  BY DEF OfGrep
<1> QED BY <1>1, <1>2, <1>3 DEF GrepInv

LEMMA GrepInvStep == CrewInv /\ GrepInv /\ (F!Next \/ UNCHANGED F!vars) => GrepInv'
<1> SUFFICES ASSUME CrewInv, GrepInv, F!Next \/ UNCHANGED F!vars PROVE GrepInv'
  OBVIOUS
<1>1. CASE UNCHANGED F!vars
  <2>1. UNCHANGED <<crew, contents, args, fPc, copied, temps, left, fBoss, at, listed>>
    BY <1>1 DEF F!vars, F!crew
  <2>2. BossOfGrep => BossOfGrep'
    BY <2>1 DEF BossOfGrep, Found, Left, Distinct, F!Matches, F!Hidden
  <2> QED BY <2>1, <2>2, OfGrepSame DEF GrepInv
<1>2. CASE F!Next
  <2>1. crew \in F!Programs /\ F!Step
    BY <1>2 DEF F!Next, F!Programs, F!WordCounts, F!wcST, F!wcMT, F!wcMTxx, F!wcMTMM, F!wcMT_VTP,
                F!grepMT, F!grepMP
  <2>2. CASE crew \in Greps
    <3>1. crew \notin F!WordCounts /\ crew # "wcST"
      BY <2>2, GrepFacts
    <3>2. ASSUME NEW f \in F!Files, F!wcfuncStore(f) PROVE FALSE
      BY <2>2, <3>2 DEF F!wcfuncStore, GrepInv, OfGrep
    <3> QED BY <2>1, <2>2, <3>1, <3>2, StepSearches, StepCreates, StepTooMany, StepChunk, StepList, StepListAny
            DEF F!Step, F!Boss, F!Worker, F!wcfunc, F!BossCalls, F!BossAdds
  <2>3. CASE crew \notin Greps
    <3>1. /\ listed = <<>> /\ fBoss \notin {"list", "failed"} /\ ListRight(listed) /\ DOMAIN temps = F!Files
          /\ \A f \in F!Files : copied[f] \in {0, f}
      BY <2>3 DEF GrepInv
    <3>2. UNCHANGED <<crew, listed, copied>> /\ fBoss' \notin {"list", "failed"} /\ DOMAIN temps' = DOMAIN temps
      <4>1. crew \notin {"grepMT", "grepMP"}
        BY <2>3 DEF Greps
      <4>2. ASSUME NEW f \in F!Files, F!Worker(f)
            PROVE  UNCHANGED <<crew, listed, copied, fBoss>> /\ DOMAIN temps' = DOMAIN temps
        BY <4>1, <4>2 DEF F!Worker, F!wcfunc, F!wcfuncStore, F!GrepStart, F!GrepSearch
      <4>3. ASSUME F!Boss
            PROVE  UNCHANGED <<crew, listed, copied, temps>> /\ fBoss' \notin {"list", "failed"}
        BY <3>1, <4>1, <4>3 DEF F!Boss, F!BossCreate, F!BossCalls, F!BossAdds, F!GrepTooMany, F!GrepListAny,
                                F!GrepWaitChunk, F!GrepList, F!crew
      <4> QED BY <2>1, <3>1, <4>2, <4>3 DEF F!Step
    <3> QED BY <2>3, <3>1, <3>2 DEF GrepInv
  <2> QED BY <2>2, <2>3
<1> QED BY <1>1, <1>2

LEMMA GrepIsRight == CrewInv /\ GrepInv => F!ListedUnderItsName /\ F!EveryMatchListed
<1> SUFFICES ASSUME CrewInv, GrepInv PROVE F!ListedUnderItsName /\ F!EveryMatchListed
  OBVIOUS
<1>1. \A f \in F!Files : copied[f] \in {0, f}
  BY DEF GrepInv, OfGrep
<1>2. ListRight(listed)
  BY DEF GrepInv
<1>3. F!Cardinality(Names(listed)) = Len(listed)
  BY Zenon, <1>2, ListCounts, CrewSize
<1>4. F!ListedUnderItsName
  BY <1>1, <1>2, <1>3 DEF F!ListedUnderItsName, ListRight, Names
<1>5. F!nFiles = Len(contents)
  BY DEF F!nFiles
<1>6. F!EveryMatchListed
  BY <1>5 DEF F!EveryMatchListed, GrepInv, BossOfGrep, Greps, Names, Found
<1> QED BY <1>4, <1>6

\* FileCrew: grepMT and grepMP list every file with a match, once and under
\* its own name, whatever the order in which the searches end.
THEOREM FilesListed == FairSpec => [](F!ListedUnderItsName /\ F!EveryMatchListed)
<1>1. Init => CrewInv /\ GrepInv
  <2>1. Init => F!Init \/ NoCrew
    BY DEF Init
  <2>2. F!CrewAssumption
    BY ProgramsAssumption
  <2> QED BY <2>1, <2>2, CrewInvInit, GrepInvInit
<1>2. (CrewInv /\ GrepInv) /\ [Next]_vars => (CrewInv /\ GrepInv)'
  BY CrewInvStep, GrepInvStep, CrewSteps
<1> QED BY <1>1, <1>2, GrepIsRight, PTL DEF FairSpec
=============================================================================
