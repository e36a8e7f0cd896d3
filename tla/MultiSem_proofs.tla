--------------------------- MODULE MultiSem_proofs ---------------------------
(***************************************************************************)
(* Proofs about the multiple wait semaphore, for any number of consumers   *)
(* and producers and any maximum count, and about the table of named       *)
(* semaphores, for any number of processes, names and places.              *)
(***************************************************************************)
EXTENDS MultiSem, SynchTable, FiniteSetTheorems, WellFoundedInduction, TLAPS

\* The inductive invariant.  EventOrNobody: the auto-reset event is signaled
\* only while no thread waits for it.  Passed: while units are left the event
\* is signaled, or a thread that received it has not tested the count yet; a
\* time-out may break that.  Queued: with FCFS a consumer between its two
\* mutexes and its return owns hMutexa.
EventOrNobody == hEvent => Waiting = {}
Passed == ~Timed /\ CurCount > 0 => hEvent \/ \E c \in Consumers : pc[c] = "relock"
Queued ==
  FCFS => \A c \in Consumers : pc[c] \in {"lock", "test", "wait", "relock"} => hMutexa = c
SInv == TypeOK /\ Rule1 /\ EventOrNobody /\ Passed /\ Queued

\* What setting the event does to the threads, when those that wait keep
\* waiting in at.
Reached(at) ==
  /\ hEvent' \in BOOLEAN
  /\ pc' \in [Consumers -> Labels]
  /\ \A c \in Consumers : pc'[c] = at[c] \/ (at[c] = "wait" /\ pc'[c] = "relock")
  /\ hEvent' => \A c \in Consumers : pc'[c] # "wait"

LEMMA SetEventReaches ==
  ASSUME SInv, NEW at \in [Consumers -> Labels],
         \A c \in Consumers : at[c] = "wait" <=> pc[c] = "wait",
         SetEvent(at)
  PROVE  Reached(at) /\ (hEvent' \/ \E c \in Consumers : pc'[c] = "relock")
<1>1. CASE Waiting = {}
  BY <1>1 DEF SetEvent, Reached, Waiting
<1>2. CASE Waiting # {}
  <2>1. PICK w \in Waiting : pc' = [at EXCEPT ![w] = "relock"]
    BY <1>2 DEF SetEvent
  <2> QED BY <1>2, <2>1 DEF SetEvent, Reached, Waiting, Labels
<1> QED BY <1>1, <1>2

LEMMA PassedOn ==
  ASSUME SInv, NEW count \in Int, NEW at \in [Consumers -> Labels],
         \A c \in Consumers : at[c] = "wait" <=> pc[c] = "wait",
         SetEventIfPositive(count, at)
  PROVE  /\ Reached(at)
         /\ count > 0 => hEvent' \/ \E c \in Consumers : pc'[c] = "relock"
<1>1. CASE count > 0
  BY <1>1, SetEventReaches DEF SetEventIfPositive
<1>2. CASE ~(count > 0)
  BY <1>2 DEF SetEventIfPositive, Reached, SInv, TypeOK, EventOrNobody, Waiting
<1> QED BY <1>1, <1>2

\* A release keeps the invariant, whoever makes it.
LEMMA ReleaseStep ==
  ASSUME SInv, NEW n \in 1 .. MaxCount, ReleaseSemaphoreMW(n), UNCHANGED kind,
         producing' \subseteq Producers, Exit' \in BOOLEAN,
         toRelease' \in 0 .. Cardinality(Consumers)
  PROVE  SInv'
<1> USE MultiSemAssumption
<1>1. CASE CurCount + n > MaxCount
  BY <1>1 DEF ReleaseSemaphoreMW, SInv, TypeOK, Rule1, EventOrNobody, Passed, Queued,
              Waiting, FCFS, Timed
<1>2. CASE ~(CurCount + n > MaxCount)
  <2>1. /\ CurCount' = CurCount + n
        /\ SetEvent(pc)
        /\ UNCHANGED <<hMutex, hMutexa, leaked, request>>
    BY <1>2 DEF ReleaseSemaphoreMW
  <2>2. Reached(pc) /\ (hEvent' \/ \E c \in Consumers : pc'[c] = "relock")
    BY <2>1, SetEventReaches DEF SInv, TypeOK
  <2>3. TypeOK'
    BY <1>2, <2>1, <2>2 DEF SInv, TypeOK, Reached
  <2>4. Rule1'
    BY <2>1, <2>2 DEF SInv, Rule1, Reached
  <2>5. EventOrNobody'
    BY <2>2 DEF EventOrNobody, Waiting, Reached
  <2>6. Passed'
    BY <2>2 DEF Passed
  <2>7. Queued'
    BY <2>1, <2>2 DEF SInv, Queued, Reached, FCFS
  <2> QED BY <2>3, <2>4, <2>5, <2>6, <2>7 DEF SInv
<1> QED BY <1>1, <1>2

LEMMA SInvInit == Init => SInv
<1> SUFFICES ASSUME Init
             PROVE  SInv
  OBVIOUS
<1> USE MultiSemAssumption
<1>1. Cardinality(Consumers) \in Nat
  BY FS_CardinalityType
<1>2. hEvent \in BOOLEAN
  <2>1. CASE InitialCount > 0
    BY <2>1 DEF Init
  <2>2. CASE ~(InitialCount > 0)
    BY <2>2 DEF Init
  <2> QED BY <2>1, <2>2
<1>3. kind \in Kinds /\ CurCount \in 0 .. MaxCount /\ toRelease \in 0 .. Cardinality(Consumers)
  BY <1>1 DEF Init
<1>4. /\ hMutex \in Consumers \cup {NoThread} /\ hMutexa \in Consumers \cup {NoThread}
      /\ leaked \subseteq Consumers /\ producing \subseteq Producers /\ Exit \in BOOLEAN
  BY DEF Init
<1>5. pc \in [Consumers -> Labels] /\ request \in [Consumers -> 1 .. MaxCount]
  BY DEF Init, Labels
<1>6. TypeOK
  BY <1>2, <1>3, <1>4, <1>5 DEF TypeOK
<1>7. Rule1 /\ EventOrNobody /\ Passed /\ Queued
  BY DEF Init, Rule1, EventOrNobody, Passed, Queued, Waiting
<1> QED BY <1>6, <1>7 DEF SInv

LEMMA ConsumerStep ==
  ASSUME SInv, NEW c \in Consumers, Consumer(c)
  PROVE  SInv'
<1> USE MultiSemAssumption DEF SInv, FCFS, Timed
<1>1. CASE Request(c)
  <2>1. TypeOK'
    BY <1>1 DEF Request, FirstLock, TypeOK, Labels, driver
  <2>2. Rule1' /\ EventOrNobody' /\ Passed'
    BY <1>1 DEF Request, FirstLock, TypeOK, Rule1, EventOrNobody, Passed, Waiting
  <2>3. Queued'
    BY <1>1 DEF Request, FirstLock, TypeOK, Queued
  <2> QED BY <2>1, <2>2, <2>3
<1>2. CASE LockA(c)
  <2>1. TypeOK'
    BY <1>2 DEF LockA, TypeOK, Labels, driver
  <2>2. Rule1' /\ EventOrNobody' /\ Passed'
    BY <1>2 DEF LockA, TypeOK, Rule1, EventOrNobody, Passed, Waiting
  <2>3. Queued'
    BY <1>2 DEF LockA, TypeOK, Queued
  <2> QED BY <2>1, <2>2, <2>3
<1>3. CASE Lock(c)
  <2>1. TypeOK'
    BY <1>3 DEF Lock, TypeOK, Labels, driver
  <2>2. Rule1'
    BY <1>3 DEF Lock, TypeOK, Rule1
  <2>3. EventOrNobody' /\ Passed' /\ Queued'
    BY <1>3 DEF Lock, TypeOK, EventOrNobody, Passed, Queued, Waiting
  <2> QED BY <2>1, <2>2, <2>3
<1>4. CASE Block(c)
  <2>1. TypeOK'
    BY <1>4 DEF Block, TypeOK, Labels, driver
  <2>2. Rule1'
    BY <1>4 DEF Block, TypeOK, Rule1
  <2>3. EventOrNobody' /\ Queued'
    BY <1>4 DEF Block, TypeOK, EventOrNobody, Queued
  <2>4. Passed'
    BY <1>4 DEF Block, TypeOK, Passed
  <2> QED BY <2>1, <2>2, <2>3, <2>4
<1>5. CASE Relock(c)
  <2> DEFINE at == [pc EXCEPT ![c] = "test"]
  <2>1. /\ at \in [Consumers -> Labels]
        /\ \A d \in Consumers : at[d] = "wait" <=> pc[d] = "wait"
        /\ SetEventIfPositive(CurCount, at)
        /\ CurCount \in Int
    BY <1>5 DEF Relock, TypeOK, Labels
  <2>2. /\ Reached(at)
        /\ CurCount > 0 => hEvent' \/ \E d \in Consumers : pc'[d] = "relock"
    BY <2>1, PassedOn
  <2>3. TypeOK'
    BY <1>5, <2>2 DEF Relock, TypeOK, Reached, driver
  <2>4. Rule1'
    BY <1>5, <2>2 DEF Relock, TypeOK, Rule1, Reached
  <2>5. EventOrNobody' /\ Passed'
    BY <1>5, <2>2 DEF Relock, EventOrNobody, Passed, Waiting, Reached
  <2>6. Queued'
    BY <1>5, <2>2 DEF Relock, TypeOK, Queued, Reached
  <2> QED BY <2>3, <2>4, <2>5, <2>6
<1>6. CASE Take(c)
  <2> DEFINE at == [pc EXCEPT ![c] = "idle"]
  <2>1. CurCount' = CurCount - request[c] /\ CurCount' \in 0 .. MaxCount
    BY <1>6 DEF Take, TypeOK
  <2>2. /\ at \in [Consumers -> Labels]
        /\ \A d \in Consumers : at[d] = "wait" <=> pc[d] = "wait"
        /\ SetEventIfPositive(CurCount', at)
    BY <1>6 DEF Take, TypeOK, Labels
  <2>3. /\ Reached(at)
        /\ CurCount' > 0 => hEvent' \/ \E d \in Consumers : pc'[d] = "relock"
    <3>1. PICK count \in Int : count = CurCount'
      BY <2>1, MultiSemAssumption
    <3> HIDE DEF at
    <3>2. SetEventIfPositive(count, at)
      BY <2>2, <3>1
    <3>3. /\ Reached(at)
          /\ count > 0 => hEvent' \/ \E d \in Consumers : pc'[d] = "relock"
      BY <2>2, <3>2, PassedOn
    <3> QED BY <3>1, <3>3
  <2>4. TypeOK'
    BY <1>6, <2>1, <2>3 DEF Take, TypeOK, Reached, driver
  <2>5. Rule1'
    BY <1>6, <2>3 DEF Take, TypeOK, Rule1, Reached
  <2>6. EventOrNobody' /\ Passed'
    BY <1>6, <2>3 DEF Take, EventOrNobody, Passed, Waiting, Reached
  <2>7. Queued'
    BY <1>6, <2>3 DEF Take, TypeOK, Queued, Reached
  <2> QED BY <2>4, <2>5, <2>6, <2>7
<1>7. CASE TimeOut(c)
  <2>1. TypeOK'
    BY <1>7 DEF TimeOut, TypeOK, Labels, driver
  <2>2. Rule1' /\ EventOrNobody' /\ Passed'
    BY <1>7 DEF TimeOut, TypeOK, Rule1, EventOrNobody, Passed, Waiting
  <2>3. Queued'
    BY <1>7 DEF TimeOut, TypeOK, Queued
  <2> QED BY <2>1, <2>2, <2>3
<1> QED BY <1>1, <1>2, <1>3, <1>4, <1>5, <1>6, <1>7 DEF Consumer

LEMMA SInvStep == SInv /\ [Next]_vars => SInv'
<1> SUFFICES ASSUME SInv, [Next]_vars
             PROVE  SInv'
  OBVIOUS
<1> USE MultiSemAssumption
<1>1. Cardinality(Consumers) \in Nat
  BY FS_CardinalityType
<1>2. ASSUME NEW c \in Consumers, Consumer(c)
      PROVE  SInv'
  BY <1>2, ConsumerStep
<1>3. ASSUME UNCHANGED <<kind, CurCount, hMutex, hEvent, hMutexa, leaked, pc, request>>,
             producing' \subseteq Producers, Exit' \in BOOLEAN,
             toRelease' \in 0 .. Cardinality(Consumers)
      PROVE  SInv'
  BY <1>3 DEF SInv, TypeOK, Rule1, EventOrNobody, Passed, Queued, Waiting, FCFS, Timed
<1>4. ASSUME NEW p \in Producers, ProducerLoop(p)
      PROVE  SInv'
  BY <1>3, <1>4 DEF ProducerLoop, SInv, TypeOK
<1>5. ASSUME NEW p \in Producers, ProducerRelease(p)
      PROVE  SInv'
  <2>1. PICK n \in 1 .. MaxCount : ReleaseSemaphoreMW(n)
    BY <1>5 DEF ProducerRelease
  <2>2. /\ UNCHANGED kind
        /\ producing' \subseteq Producers
        /\ Exit' \in BOOLEAN
        /\ toRelease' \in 0 .. Cardinality(Consumers)
    BY <1>5 DEF ProducerRelease, SInv, TypeOK
  <2> QED BY <2>1, <2>2, ReleaseStep
<1>6. CASE CtrlcHandler
  BY <1>1, <1>3, <1>6 DEF CtrlcHandler, SInv, TypeOK
<1>7. CASE HandlerRelease
  <2>1. 1 \in 1 .. MaxCount
    OBVIOUS
  <2>2. /\ UNCHANGED kind
        /\ producing' \subseteq Producers
        /\ Exit' \in BOOLEAN
        /\ toRelease' \in 0 .. Cardinality(Consumers)
    BY <1>1, <1>7 DEF HandlerRelease, SInv, TypeOK
  <2>3. ReleaseSemaphoreMW(1)
    BY <1>7 DEF HandlerRelease
  <2> QED BY <2>1, <2>2, <2>3, ReleaseStep
<1>8. CASE UNCHANGED vars
  BY <1>3, <1>8 DEF vars, SInv, TypeOK
<1> QED BY <1>2, <1>4, <1>5, <1>6, <1>7, <1>8 DEF Next, Finished

LEMMA SInvariant == Spec => []SInv
BY SInvInit, SInvStep, PTL DEF Spec

\* The count stays between zero and the maximum: rule 3 of CreateSemaphoreMW.
THEOREM SemaphoreTypes == Spec => []TypeOK
<1>1. SInv => TypeOK
  BY DEF SInv
<1> QED BY <1>1, SInvariant, PTL

\* Rule 1: only the owner of hMutex is at the test of the count.
THEOREM OwnerTestsTheCount == Spec => []Rule1
<1>1. SInv => Rule1
  BY DEF SInv
<1> QED BY <1>1, SInvariant, PTL

\* First Satisfiable: without time-outs, a waiting consumer whose request could
\* be met is always about to be reached by the event.
THEOREM SatisfiableIsReached == Spec => []NoStranded
<1>1. ASSUME SInv, ~Timed, NEW w \in Waiting, request[w] <= CurCount
      PROVE  \E c \in Consumers : pc[c] \in {"relock", "test"}
  <2>1. CurCount > 0
    BY <1>1, MultiSemAssumption DEF SInv, TypeOK, Waiting
  <2> QED BY <1>1, <2>1 DEF SInv, Passed, EventOrNobody
<1>2. SInv => NoStranded
  BY <1>1 DEF NoStranded, SatisfiableAttended
<1> QED BY <1>2, SInvariant, PTL

\* First Come, First Served: units are taken by the owner of hMutexa, and it is
\* the only consumer past that mutex, so nobody is waiting for units.
THEOREM NobodyOvertakes == Spec => NoOvertaking
<1>1. ASSUME SInv, [Next]_vars, FCFS, CurCount' < CurCount
      PROVE  Waiting = {}
  <2>1. CurCount \in Int
    BY <1>1, MultiSemAssumption DEF SInv, TypeOK
  <2>2. CurCount' # CurCount
    BY <1>1, <2>1
  <2>3. ASSUME NEW n \in 1 .. MaxCount, ReleaseSemaphoreMW(n)
        PROVE  FALSE
    BY <1>1, <2>1, <2>2, <2>3, MultiSemAssumption DEF ReleaseSemaphoreMW
  <2>4. 1 \in 1 .. MaxCount
    BY MultiSemAssumption
  <2>5. PICK c \in Consumers : Take(c)
    BY <1>1, <2>2, <2>3, <2>4
       DEF Next, Consumer, Request, LockA, Lock, Block, Relock, TimeOut, ProducerLoop,
           ProducerRelease, CtrlcHandler, HandlerRelease, Finished, vars
  <2>6. hMutexa = c
    BY <1>1, <2>5 DEF SInv, Queued, Take
  <2> QED BY <1>1, <2>5, <2>6 DEF SInv, Queued, Waiting, Take
<1>2. SInv /\ [Next]_vars => [FCFS /\ CurCount' < CurCount => Waiting = {}]_vars
  BY <1>1
<1> QED BY <1>2, SInvariant, PTL DEF Spec, NoOvertaking

-----------------------------------------------------------------------------
(* The table of named semaphores.                                           *)

\* What the program grants: its table is an array, and a name is not empty.
TableAssumption ==
  /\ IsFiniteSet(Processes) /\ Slots \subseteq Nat \ {0}
  /\ "" \notin Names

States == {"zero", "initial", "used"}
Entries == [lpName : Names \cup {""}, RefCount : Int, state : States]
Handles == [pc : {"none", "allocated", "open", "decremented", "clearing"},
            lpName : Names \cup {""}, SharedHandle : Slots \cup {0}, fNewObject : BOOLEAN]

\* The inductive invariant.  Shapes: the variables are functions of records.
\* Calls: only one call at a time if they do not overlap; those that close a handle
\* without the mutex are of MultiSem.c.  Cleared: an entry about to be cleared
\* has no references.
Shapes == table \in [Slots -> Entries] /\ handle \in [Processes -> Handles]
Closing(p) == handle[p].pc \in {"decremented", "clearing"}
Calls ==
  /\ ~overlap => \A p, q \in Processes : InCall(p) /\ InCall(q) => p = q
  /\ \A p \in Processes : Closing(p) => library = "MultiSem" /\ handle[p].SharedHandle \in Slots
Cleared ==
  Sound => \A p \in Processes :
    handle[p].pc = "clearing" => table[handle[p].SharedHandle].RefCount = 0
TInv == Shapes /\ Calls /\ Cleared /\ RefsCounted /\ OneCreator

-----------------------------------------------------------------------------
(* The search of the table.                                                *)

\* A set of places that is not empty has a first one.
LEMMA FirstExists ==
  ASSUME TableAssumption, NEW S \in SUBSET Slots, S # {}
  PROVE  First(S) \in S
<1>1. S \subseteq Nat
  BY DEF TableAssumption
<1>2. PICK s \in S : \A r \in S : <<r, s>> \notin OpToRel(<, Nat)
  <2>1. IsWellFoundedOn(OpToRel(<, Nat), Nat)
    BY NatLessThanWellFounded
  <2> QED BY <1>1, <2>1, WFMin
<1>3. \A r \in S : s <= r
  <2> SUFFICES ASSUME NEW r \in S, ~(s <= r) PROVE FALSE
    OBVIOUS
  <2>1. <<r, s>> \in Nat \X Nat /\ r < s
    BY <1>1
  <2> QED BY <1>2, <2>1 DEF OpToRel
<1> QED BY <1>3 DEF First

\* What is found is NULL, the entry of the name, or a free entry.
LEMMA FoundWhere ==
  ASSUME TableAssumption, NEW name
  PROVE  /\ Named(name) # {} => Found(name) \in Named(name)
         /\ Named(name) = {} => Found(name) \in Free \cup {0}
         /\ Found(name) \in Slots \cup {0}
<1>1. Named(name) \in SUBSET Slots /\ Free \in SUBSET Slots
  BY DEF Named, Free
<1>2. CASE Named(name) # {}
  BY <1>1, <1>2, FirstExists DEF Found
<1>3. CASE Named(name) = {}
  BY <1>1, <1>3, FirstExists DEF Found
<1> QED BY <1>2, <1>3

-----------------------------------------------------------------------------
(* Fields of the records.                                                  *)

LEMMA ConstantFields ==
  /\ NoHandle \in Handles /\ NoHandle.pc = "none" /\ NoHandle.SharedHandle = 0
  /\ Empty \in Entries /\ Empty.lpName = "" /\ Empty.RefCount = 0 /\ Empty.state = "zero"
<1>1. NoHandle \in Handles
  BY DEF NoHandle, Handles
<1>2. Empty \in Entries
  BY DEF Empty, Entries, States
<1> QED BY <1>1, <1>2 DEF NoHandle, Empty

LEMMA EntryFields ==
  ASSUME NEW e \in Entries
  PROVE  e.lpName \in Names \cup {""} /\ e.RefCount \in Int /\ e.state \in States
BY DEF Entries

LEMMA EntryUsed ==
  ASSUME NEW e \in Entries
  PROVE  /\ [e EXCEPT !.state = "used"] \in Entries
         /\ [e EXCEPT !.state = "used"].RefCount = e.RefCount
         /\ [e EXCEPT !.state = "used"].lpName = e.lpName
<1>1. [e EXCEPT !.state = "used"] \in Entries
  BY DEF Entries, States
<1> QED BY <1>1 DEF Entries

LEMMA HandleFields ==
  ASSUME NEW h \in Handles
  PROVE  /\ h.pc \in {"none", "allocated", "open", "decremented", "clearing"}
         /\ h.SharedHandle \in Slots \cup {0} /\ h.lpName \in Names \cup {""}
         /\ h.fNewObject \in BOOLEAN
BY DEF Handles

LEMMA HandleMoved ==
  ASSUME NEW h \in Handles
  PROVE  \A l \in {"none", "allocated", "open", "decremented", "clearing"} :
           LET g == [h EXCEPT !.pc = l]
           IN  /\ g \in Handles /\ g.pc = l /\ g.SharedHandle = h.SharedHandle
               /\ g.lpName = h.lpName /\ g.fNewObject = h.fNewObject
<1> TAKE l \in {"none", "allocated", "open", "decremented", "clearing"}
<1>1. [h EXCEPT !.pc = l] \in Handles
  BY DEF Handles
<1> QED BY <1>1 DEF Handles

\* What a counted entry and a named one keep of the old one.
LEMMA NewFields ==
  ASSUME NEW s \in Slots, table[s] \in Entries, NEW name \in Names \cup {""}
  PROVE  /\ New(name, s) \in Entries /\ New(name, s).lpName = name
         /\ New(name, s).RefCount = table[s].RefCount /\ New(name, s).state = "initial"
<1>1. New(name, s) \in Entries
  BY DEF New, Entries, States
<1>2. New(name, s).lpName = name /\ New(name, s).RefCount = table[s].RefCount
      /\ New(name, s).state = "initial"
  BY DEF New, Entries
<1> QED BY <1>1, <1>2

LEMMA CountedFields ==
  ASSUME NEW e \in Entries, NEW v \in Int
  PROVE  /\ [e EXCEPT !.RefCount = v] \in Entries /\ [e EXCEPT !.RefCount = v].RefCount = v
         /\ [e EXCEPT !.RefCount = v].lpName = e.lpName
         /\ [e EXCEPT !.RefCount = v].state = e.state
<1>1. [e EXCEPT !.RefCount = v] \in Entries
  BY DEF Entries
<1>2. [e EXCEPT !.RefCount = v].RefCount = v
  BY DEF Entries
<1>3. [e EXCEPT !.RefCount = v].lpName = e.lpName /\ [e EXCEPT !.RefCount = v].state = e.state
  BY DEF Entries
<1> QED BY <1>1, <1>2, <1>3

-----------------------------------------------------------------------------
(* What each step does to the fields.                                      *)

Same(p, f) == \A q \in Processes : q # p => f[q] = handle[q]
Rigid == library' = library /\ overlap' = overlap

LEMMA AllocEffect ==
  ASSUME TableAssumption, Shapes, NEW p \in Processes, NEW name \in Names,
         AllocSynchHandle(p, name)
  PROVE  /\ Shapes' /\ Rigid /\ Same(p, handle') /\ MayCall(p)
         /\ handle[p].pc = "none" /\ handle'[p].pc = "allocated"
         /\ handle'[p].lpName = name /\ handle'[p].SharedHandle = Found(name)
         /\ handle'[p].fNewObject <=> Named(name) = {} /\ (Found(name) # 0 \/ library = "SynchObj")
         /\ \A s \in Slots :
              /\ table'[s].RefCount = table[s].RefCount + (IF s = Found(name) THEN 1 ELSE 0)
              /\ table'[s].lpName = IF /\ s = Found(name) /\ Named(name) = {}
                                       /\ library = "MultiSem"
                                    THEN name ELSE table[s].lpName
              /\ s = Found(name) /\ Named(name) = {} /\ library = "MultiSem" =>
                   table'[s].state = "initial"
<1> DEFINE f == Found(name)
           new == Named(name) = {} /\ (f # 0 \/ library = "SynchObj")
           e == IF new /\ library = "MultiSem" THEN New(name, f) ELSE table[f]
           h == [pc |-> "allocated", lpName |-> name, SharedHandle |-> f, fNewObject |-> new]
<1>1. f \in Slots \cup {0} /\ 0 \notin Slots
  BY FoundWhere DEF TableAssumption
<1>2. h \in Handles
  BY <1>1 DEF Handles
<1>3. /\ handle[p].pc = "none" /\ MayCall(p) /\ Rigid
      /\ handle' = [handle EXCEPT ![p] = h]
      /\ table' = IF f = 0 THEN table ELSE [table EXCEPT ![f] = [e EXCEPT !.RefCount = e.RefCount + 1]]
  BY DEF AllocSynchHandle, Rigid
<1>4. handle' \in [Processes -> Handles] /\ handle'[p] = h /\ Same(p, handle')
  BY <1>2, <1>3 DEF Shapes, Same
<1>5. /\ handle'[p].pc = "allocated" /\ handle'[p].lpName = name
      /\ handle'[p].SharedHandle = f /\ (handle'[p].fNewObject <=> new)
  <2>1. h.pc = "allocated" /\ h.lpName = name /\ h.SharedHandle = f
    OBVIOUS
  <2>2. h.fNewObject = new
    OBVIOUS
  <2>3. h.fNewObject <=> new
    BY <2>2
  <2> HIDE DEF h, new
  <2> QED BY <1>4, <2>1, <2>3
<1>6. \A s \in Slots : table[s].RefCount \in Int
  BY EntryFields DEF Shapes
<1> HIDE DEF h
<1>7. CASE f = 0
  <2>1. table' = table
    BY <1>3, <1>7
  <2>2. Shapes'
    BY <1>4, <2>1 DEF Shapes
  <2>3. \A s \in Slots : s # f
    BY <1>1, <1>7
  <2> QED BY <1>3, <1>4, <1>5, <1>6, <2>1, <2>2, <2>3
<1>8. CASE f # 0
  <2>1. f \in Slots /\ table[f] \in Entries
    BY <1>1, <1>8 DEF Shapes
  <2>2. /\ e \in Entries /\ e.RefCount = table[f].RefCount
        /\ e.lpName = IF new /\ library = "MultiSem" THEN name ELSE table[f].lpName
        /\ new /\ library = "MultiSem" => e.state = "initial"
    BY <2>1, NewFields
  <2>3. e.RefCount + 1 \in Int
    BY <1>6, <2>1, <2>2
  <2> DEFINE g == [e EXCEPT !.RefCount = e.RefCount + 1]
  <2>4. /\ g \in Entries /\ g.RefCount = e.RefCount + 1 /\ g.lpName = e.lpName
        /\ g.state = e.state
    BY <2>2, <2>3, CountedFields
  <2>5. table' = [table EXCEPT ![f] = g]
    BY <1>3, <1>8
  <2> HIDE DEF g, e
  <2>6. table' \in [Slots -> Entries] /\ table'[f] = g /\ \A s \in Slots : s # f => table'[s] = table[s]
    BY <2>1, <2>4, <2>5 DEF Shapes
  <2>7. Shapes'
    BY <1>4, <2>6 DEF Shapes
  <2>8. \A s \in Slots :
          table'[s].RefCount = table[s].RefCount + (IF s = f THEN 1 ELSE 0)
    BY <1>6, <2>2, <2>4, <2>6
  <2>9. \A s \in Slots :
          /\ table'[s].lpName = IF s = f /\ Named(name) = {} /\ library = "MultiSem"
                                THEN name ELSE table[s].lpName
          /\ s = f /\ Named(name) = {} /\ library = "MultiSem" => table'[s].state = "initial"
    BY <1>8, <2>2, <2>4, <2>6
  <2> QED BY <1>3, <1>4, <1>5, <2>7, <2>8, <2>9
<1> QED BY <1>7, <1>8

LEMMA CreateEffect ==
  ASSUME TableAssumption, Shapes, NEW p \in Processes, CreateSemaphoreMW(p)
  PROVE  /\ Shapes' /\ Rigid /\ Same(p, handle')
         /\ handle[p].pc = "allocated" /\ handle'[p].pc = "open"
         /\ handle'[p].lpName = handle[p].lpName
         /\ handle'[p].SharedHandle = handle[p].SharedHandle
         /\ handle'[p].fNewObject = handle[p].fNewObject
         /\ \A s \in Slots :
              /\ table'[s].RefCount = table[s].RefCount
              /\ table'[s].lpName = IF /\ s = handle[p].SharedHandle /\ library = "SynchObj"
                                       /\ handle[p].fNewObject
                                    THEN handle[p].lpName ELSE table[s].lpName
<1> DEFINE h == handle[p]
           s0 == h.SharedHandle
           c == library = "SynchObj" /\ h.fNewObject /\ s0 # 0
           g == [h EXCEPT !.pc = "open"]
<1>1. h \in Handles /\ 0 \notin Slots /\ \A s \in Slots : table[s] \in Entries
  BY DEF Shapes, TableAssumption
<1>2. /\ h.pc = "allocated" /\ Rigid /\ handle' = [handle EXCEPT ![p].pc = "open"]
      /\ table' = IF c THEN [table EXCEPT ![s0] = New(h.lpName, s0)] ELSE table
  BY DEF CreateSemaphoreMW, Rigid
<1>3. /\ g \in Handles /\ g.pc = "open" /\ g.lpName = h.lpName
      /\ g.SharedHandle = h.SharedHandle /\ g.fNewObject = h.fNewObject
  BY <1>1, HandleMoved
<1>4. handle' = [handle EXCEPT ![p] = g]
  BY <1>2 DEF Shapes
<1> HIDE DEF g
<1>5. handle' \in [Processes -> Handles] /\ handle'[p] = g /\ Same(p, handle')
  BY <1>3, <1>4 DEF Shapes, Same
<1>6. CASE ~c
  <2>1. table' = table
    BY <1>2, <1>6
  <2>2. Shapes'
    BY <1>5, <2>1 DEF Shapes
  <2>3. \A s \in Slots : ~(s = s0 /\ library = "SynchObj" /\ h.fNewObject)
    BY <1>1, <1>6
  <2> QED BY <1>2, <1>3, <1>5, <2>1, <2>2, <2>3
<1>7. CASE c
  <2>1. s0 \in Slots /\ h.lpName \in Names \cup {""}
    BY <1>1, <1>7, HandleFields
  <2> DEFINE e == New(h.lpName, s0)
  <2>2. e \in Entries /\ e.lpName = h.lpName /\ e.RefCount = table[s0].RefCount
    BY <1>1, <2>1, NewFields
  <2>3. table' = [table EXCEPT ![s0] = e]
    BY <1>2, <1>7
  <2> HIDE DEF e
  <2>4. table' \in [Slots -> Entries] /\ table'[s0] = e /\ \A s \in Slots : s # s0 => table'[s] = table[s]
    BY <2>1, <2>2, <2>3 DEF Shapes
  <2>5. Shapes'
    BY <1>5, <2>4 DEF Shapes
  <2>6. \A s \in Slots : /\ table'[s].RefCount = table[s].RefCount
                         /\ table'[s].lpName = IF s = s0 THEN h.lpName ELSE table[s].lpName
    BY <2>2, <2>4
  <2> QED BY <1>2, <1>3, <1>5, <1>7, <2>5, <2>6
<1> QED BY <1>6, <1>7

LEMMA UseEffect ==
  ASSUME TableAssumption, Shapes, NEW p \in Processes, Use(p)
  PROVE  /\ Shapes' /\ Rigid /\ handle' = handle
         /\ \A s \in Slots : /\ table'[s].RefCount = table[s].RefCount
                             /\ table'[s].lpName = table[s].lpName
<1> DEFINE s0 == handle[p].SharedHandle
           e == [table[s0] EXCEPT !.state = "used"]
<1>1. handle[p] \in Handles
  BY DEF Shapes
<1>2. s0 \in Slots
  BY <1>1, HandleFields DEF Use
<1>3. e \in Entries /\ e.RefCount = table[s0].RefCount /\ e.lpName = table[s0].lpName
  BY <1>2, EntryUsed DEF Shapes
<1>4. table' = [table EXCEPT ![s0] = e] /\ Rigid /\ handle' = handle
  BY <1>2 DEF Use, Rigid, Shapes
<1> HIDE DEF e
<1>5. table' \in [Slots -> Entries] /\ table'[s0] = e /\ \A s \in Slots : s # s0 => table'[s] = table[s]
  BY <1>2, <1>3, <1>4 DEF Shapes
<1>6. Shapes'
  BY <1>4, <1>5 DEF Shapes
<1> QED BY <1>3, <1>4, <1>5, <1>6

LEMMA DecrementEffect ==
  ASSUME TableAssumption, Shapes, NEW p \in Processes, Decrement(p)
  PROVE  /\ Shapes' /\ Rigid /\ Same(p, handle') /\ MayCall(p)
         /\ handle[p].pc = "open" /\ handle'[p].pc \in {"none", "decremented"}
         /\ handle'[p].pc = "decremented" =>
              /\ library = "MultiSem" /\ handle[p].SharedHandle \in Slots
              /\ handle'[p].SharedHandle = handle[p].SharedHandle
         /\ library = "MultiSem" /\ handle[p].SharedHandle \in Slots => handle'[p].pc = "decremented"
         /\ \A s \in Slots :
              /\ table'[s].RefCount =
                   table[s].RefCount - (IF s = handle[p].SharedHandle THEN 1 ELSE 0)
              /\ table'[s].lpName = table[s].lpName
<1> DEFINE h == handle[p]
           s0 == h.SharedHandle
           d == [h EXCEPT !.pc = "decremented"]
           c == s0 # 0 /\ library = "MultiSem"
           g == IF c THEN d ELSE NoHandle
<1>1. h \in Handles /\ 0 \notin Slots /\ \A s \in Slots : table[s] \in Entries
  BY DEF Shapes, TableAssumption
<1>2. s0 \in Slots \cup {0}
  BY <1>1, HandleFields
<1>3. d \in Handles /\ d.pc = "decremented" /\ d.SharedHandle = s0
  BY <1>1, HandleMoved
<1>4. /\ h.pc = "open" /\ MayCall(p) /\ Rigid
      /\ handle' = [handle EXCEPT ![p] = g]
      /\ table' = IF s0 = 0 THEN table
                  ELSE [table EXCEPT ![s0].RefCount = table[s0].RefCount - 1]
  BY DEF Decrement, Rigid, Shapes
<1>5. /\ g \in Handles /\ g.pc \in {"none", "decremented"}
      /\ g.pc = "decremented" => c /\ g.SharedHandle = s0
      /\ c => g.pc = "decremented"
  <2>1. CASE c
    BY <1>3, <2>1
  <2>2. CASE ~c
    <3>1. g = NoHandle
      BY <2>2
    <3>2. "none" # "decremented"
      OBVIOUS
    <3> QED BY <2>2, <3>1, <3>2, ConstantFields
  <2> QED BY <2>1, <2>2
<1> HIDE DEF g, d
<1>6. handle' \in [Processes -> Handles] /\ handle'[p] = g /\ Same(p, handle')
  BY <1>4, <1>5 DEF Shapes, Same
<1>7. \A s \in Slots : table[s].RefCount \in Int
  BY EntryFields DEF Shapes
<1>8. CASE s0 = 0
  <2>1. table' = table
    BY <1>4, <1>8
  <2>2. Shapes'
    BY <1>6, <2>1 DEF Shapes
  <2>3. \A s \in Slots : s # s0
    BY <1>1, <1>8
  <2> QED BY <1>1, <1>4, <1>5, <1>6, <1>7, <1>8, <2>1, <2>2, <2>3
<1>9. CASE s0 # 0
  <2> DEFINE e == [table[s0] EXCEPT !.RefCount = table[s0].RefCount - 1]
  <2>1. s0 \in Slots /\ table[s0] \in Entries
    BY <1>1, <1>2, <1>9
  <2>2. table[s0].RefCount - 1 \in Int
    BY <1>7, <2>1
  <2>3. e \in Entries /\ e.RefCount = table[s0].RefCount - 1 /\ e.lpName = table[s0].lpName
    BY <2>1, <2>2, CountedFields
  <2>4. table' = [table EXCEPT ![s0] = e]
    BY <1>4, <1>9, <2>1 DEF Shapes
  <2> HIDE DEF e
  <2>5. table' \in [Slots -> Entries] /\ table'[s0] = e /\ \A s \in Slots : s # s0 => table'[s] = table[s]
    BY <2>1, <2>3, <2>4 DEF Shapes
  <2>6. Shapes'
    BY <1>6, <2>5 DEF Shapes
  <2>7. \A s \in Slots : /\ table'[s].RefCount = table[s].RefCount - (IF s = s0 THEN 1 ELSE 0)
                         /\ table'[s].lpName = table[s].lpName
    BY <1>7, <2>3, <2>5
  <2> QED BY <1>4, <1>5, <1>6, <1>9, <2>1, <2>6, <2>7
<1> QED BY <1>8, <1>9

LEMMA TestEffect ==
  ASSUME TableAssumption, Shapes, NEW p \in Processes, TestRefCount(p)
  PROVE  /\ Shapes' /\ Rigid /\ Same(p, handle') /\ table' = table
         /\ handle[p].pc = "decremented" /\ handle'[p].pc \in {"none", "clearing"}
         /\ handle'[p].pc = "clearing" =>
              /\ handle'[p].SharedHandle = handle[p].SharedHandle
              /\ table[handle[p].SharedHandle].RefCount = 0
         /\ handle'[p].pc = "none" => table[handle[p].SharedHandle].RefCount # 0
<1> DEFINE h == handle[p]
           d == [h EXCEPT !.pc = "clearing"]
           c == table[h.SharedHandle].RefCount = 0
           g == IF c THEN d ELSE NoHandle
<1>1. d \in Handles /\ d.pc = "clearing" /\ d.SharedHandle = h.SharedHandle
  BY HandleMoved DEF Shapes
<1>2. /\ h.pc = "decremented" /\ Rigid /\ table' = table
      /\ handle' = [handle EXCEPT ![p] = g]
  BY DEF TestRefCount, Unreferenced, Rigid, Shapes
<1>3. /\ g \in Handles /\ (c => g = d) /\ (~c => g = NoHandle)
  BY <1>1, ConstantFields
<1>4. "none" # "clearing"
  OBVIOUS
<1> HIDE DEF g, d
<1>5. handle' \in [Processes -> Handles] /\ handle'[p] = g /\ Same(p, handle')
  BY <1>2, <1>3 DEF Shapes, Same
<1>6. Shapes'
  BY <1>2, <1>5 DEF Shapes
<1> QED BY <1>1, <1>2, <1>3, <1>4, <1>5, <1>6, ConstantFields

LEMMA ClearEffect ==
  ASSUME TableAssumption, Shapes, NEW p \in Processes, Clear(p), handle[p].SharedHandle \in Slots
  PROVE  /\ Shapes' /\ Rigid /\ Same(p, handle')
         /\ handle[p].pc = "clearing" /\ handle'[p].pc = "none"
         /\ \A s \in Slots :
              IF s = handle[p].SharedHandle THEN table'[s].RefCount = 0 /\ table'[s].lpName = ""
              ELSE table'[s] = table[s]
<1>1. /\ handle[p].pc = "clearing" /\ Rigid /\ handle' = [handle EXCEPT ![p] = NoHandle]
      /\ table' = [table EXCEPT ![handle[p].SharedHandle] = Empty]
  BY DEF Clear, Rigid
<1>2. handle' \in [Processes -> Handles] /\ handle'[p] = NoHandle /\ Same(p, handle')
  BY <1>1, ConstantFields DEF Shapes, Same
<1>3. table' \in [Slots -> Entries]
  BY <1>1, ConstantFields DEF Shapes
<1>4. \A s \in Slots : table'[s] = IF s = handle[p].SharedHandle THEN Empty ELSE table[s]
  BY <1>1 DEF Shapes
<1>5. Shapes'
  BY <1>2, <1>3 DEF Shapes
<1> QED BY <1>1, <1>2, <1>4, <1>5, ConstantFields

-----------------------------------------------------------------------------
(* The users of an entry.                                                  *)

Uses1(p, s) == handle[p].SharedHandle = s /\ handle[p].pc \in {"allocated", "open"}

\* A step changes the use of one process only.
LEMMA HoldersChange ==
  ASSUME TableAssumption, NEW p \in Processes, Same(p, handle'), NEW s
  PROVE  /\ IsFiniteSet(Holders(s)) /\ Cardinality(Holders(s)) \in Nat
         /\ Uses1(p, s)' /\ ~Uses1(p, s) =>
              /\ Holders(s)' = Holders(s) \cup {p}
              /\ Cardinality(Holders(s)') = Cardinality(Holders(s)) + 1
         /\ ~Uses1(p, s)' /\ Uses1(p, s) =>
              /\ Holders(s)' = Holders(s) \ {p}
              /\ Cardinality(Holders(s)') = Cardinality(Holders(s)) - 1
         /\ (Uses1(p, s)' <=> Uses1(p, s)) => Holders(s)' = Holders(s)
<1>1. IsFiniteSet(Holders(s)) /\ Cardinality(Holders(s)) \in Nat
  BY FS_Subset, FS_CardinalityType DEF TableAssumption, Holders
<1>2. \A q \in Processes : /\ q \in Holders(s) <=> Uses1(q, s)
                           /\ q \in Holders(s)' <=> Uses1(q, s)'
                           /\ q # p => (Uses1(q, s)' <=> Uses1(q, s))
  BY DEF Holders, Uses1, Same
<1>3. Holders(s) \subseteq Processes /\ Holders(s)' \subseteq Processes
  BY DEF Holders
<1>4. ASSUME Uses1(p, s)', ~Uses1(p, s)
      PROVE  /\ Holders(s)' = Holders(s) \cup {p}
             /\ Cardinality(Holders(s)') = Cardinality(Holders(s)) + 1
  <2>1. Holders(s)' = Holders(s) \cup {p} /\ p \notin Holders(s)
    BY <1>2, <1>3, <1>4
  <2> QED BY <1>1, <2>1, FS_AddElement
<1>5. ASSUME ~Uses1(p, s)', Uses1(p, s)
      PROVE  /\ Holders(s)' = Holders(s) \ {p}
             /\ Cardinality(Holders(s)') = Cardinality(Holders(s)) - 1
  <2>1. Holders(s)' = Holders(s) \ {p} /\ p \in Holders(s)
    BY <1>2, <1>3, <1>5
  <2> QED BY <1>1, <2>1, FS_RemoveElement
<1>6. ASSUME Uses1(p, s)' <=> Uses1(p, s) PROVE Holders(s)' = Holders(s)
  BY <1>2, <1>3, <1>6
<1> QED BY <1>1, <1>4, <1>5, <1>6

\* A free entry has no users.
LEMMA FreeUnused ==
  ASSUME TableAssumption, Shapes, RefsCounted, Sound, NEW s \in Free
  PROVE  Holders(s) = {}
<1>1. s \in Slots /\ table[s].RefCount <= 0
  BY DEF Free
<1>2. IsFiniteSet(Holders(s)) /\ Cardinality(Holders(s)) \in Nat
  BY FS_Subset, FS_CardinalityType DEF TableAssumption, Holders
<1>3. Cardinality(Holders(s)) = 0
  BY <1>1, <1>2 DEF RefsCounted
<1> QED BY <1>2, <1>3, FS_EmptySet

-----------------------------------------------------------------------------
(* The inductive invariant.                                                *)

LEMMA TInvInit == TableAssumption /\ TableInit => TInv
<1> SUFFICES ASSUME TableAssumption, TableInit PROVE TInv
  OBVIOUS
<1>1. /\ table = [s \in Slots |-> Empty] /\ handle = [p \in Processes |-> NoHandle]
  BY DEF TableInit, InitOf
<1>2. Shapes
  BY <1>1, ConstantFields DEF Shapes
<1>3. \A p \in Processes : handle[p].pc = "none"
  BY <1>1, ConstantFields
<1>4. \A s : Holders(s) = {}
  BY <1>3 DEF Holders
<1>5. RefsCounted
  BY <1>1, <1>4, ConstantFields, FS_EmptySet DEF RefsCounted
<1>6. OneCreator
  BY <1>4 DEF OneCreator
<1>7. Calls /\ Cleared
  BY <1>3 DEF Calls, Cleared, Closing, InCall
<1> QED BY <1>2, <1>5, <1>6, <1>7 DEF TInv

\* If calls do not overlap, or in SynchObj.c, nobody is closing a handle when a call begins.
LEMMA NobodyClosing ==
  ASSUME TInv, Sound, NEW p \in Processes, MayCall(p), NEW q \in Processes, Closing(q)
  PROVE  FALSE
<1>1. InCall(q) /\ library = "MultiSem"
  BY DEF Closing, InCall, TInv, Calls
<1>2. "MultiSem" # "SynchObj"
  OBVIOUS
<1> QED BY <1>1, <1>2 DEF Sound, MayCall

LEMMA AllocKeeps ==
  ASSUME TableAssumption, TInv, NEW p \in Processes, NEW name \in Names, AllocSynchHandle(p, name)
  PROVE  TInv'
<1> DEFINE f == Found(name)
<1>1. Shapes /\ Calls /\ Cleared /\ RefsCounted /\ OneCreator
  BY DEF TInv
<1>2. /\ Shapes' /\ Rigid /\ Same(p, handle') /\ MayCall(p)
      /\ handle[p].pc = "none" /\ handle'[p].pc = "allocated" /\ handle'[p].SharedHandle = f
      /\ handle'[p].fNewObject => Named(name) = {}
  BY <1>1, AllocEffect
<1>3. \A s \in Slots : table'[s].RefCount = table[s].RefCount + (IF s = f THEN 1 ELSE 0)
  BY <1>1, AllocEffect
<1>4. f \in Slots \cup {0} /\ (Named(name) = {} => f \in Free \cup {0})
  BY FoundWhere
<1> HIDE DEF f
<1>5. Sound' <=> Sound
  BY <1>2 DEF Sound, Rigid
<1>6. \A q \in Processes : q # p => handle'[q] = handle[q]
  BY <1>2 DEF Same
<1>7. Calls'
  <2>1. ~Closing(p)' /\ \A q \in Processes : q # p => (Closing(q)' <=> Closing(q)) /\ (InCall(q)' <=> InCall(q))
    BY <1>2, <1>6 DEF Closing, InCall
  <2>2. ~overlap => \A q \in Processes : ~InCall(q)
    BY <1>2 DEF MayCall
  <2> QED BY <1>1, <1>2, <1>6, <2>1, <2>2 DEF Calls, Rigid
<1>8. Cleared'
  <2> SUFFICES ASSUME Sound, NEW q \in Processes, handle'[q].pc = "clearing" PROVE FALSE
    BY <1>5 DEF Cleared
  <2>1. q # p /\ Closing(q)
    BY <1>2, <1>6 DEF Closing
  <2> QED BY <1>2, <2>1, NobodyClosing
<1>9. \A s : ~Uses1(p, s) /\ (Uses1(p, s)' <=> s = f)
  BY <1>2 DEF Uses1
<1>10. RefsCounted'
  <2> SUFFICES ASSUME Sound, NEW s \in Slots
               PROVE  table'[s].RefCount = Cardinality(Holders(s)')
    BY <1>5 DEF RefsCounted
  <2>1. table[s].RefCount = Cardinality(Holders(s)) /\ Cardinality(Holders(s)) \in Nat
    BY <1>1, <1>2, HoldersChange DEF RefsCounted
  <2>2. CASE s = f
    BY <1>2, <1>3, <1>9, <2>1, <2>2, HoldersChange
  <2>3. CASE s # f
    <3>1. Holders(s)' = Holders(s)
      BY <1>2, <1>9, <2>3, HoldersChange
    <3> QED BY <1>3, <2>1, <2>3, <3>1
  <2> QED BY <2>2, <2>3
<1>11. OneCreator'
  <2> SUFFICES ASSUME Sound, NEW s \in Slots, NEW q \in Holders(s)', NEW r \in Holders(s)',
                      handle'[q].fNewObject, handle'[r].fNewObject, q # r
               PROVE  FALSE
    BY <1>5 DEF OneCreator
  <2>1. q \in Processes /\ r \in Processes
    BY DEF Holders
  <2>2. CASE s # f
    <3>1. Holders(s)' = Holders(s) /\ p \notin Holders(s)
      BY <1>2, <1>9, <2>2, HoldersChange DEF Holders, Uses1
    <3> QED BY <1>1, <1>6, <2>1, <3>1 DEF OneCreator
  <2>3. CASE s = f /\ ~handle'[p].fNewObject
    <3>1. Holders(s)' = Holders(s) \cup {p} /\ q # p /\ r # p
      BY <1>2, <1>9, <2>3, HoldersChange
    <3> QED BY <1>1, <1>6, <2>1, <3>1 DEF OneCreator
  <2>4. CASE s = f /\ handle'[p].fNewObject
    <3>1. s \in Free
      BY <1>2, <1>4, <2>4 DEF TableAssumption
    <3>2. Holders(s) = {}
      BY <1>1, <3>1, FreeUnused
    <3>3. Holders(s)' = {p}
      BY <1>2, <1>9, <2>4, <3>2, HoldersChange
    <3> QED BY <3>3
  <2> QED BY <2>2, <2>3, <2>4
<1> QED BY <1>2, <1>7, <1>8, <1>10, <1>11 DEF TInv

\* Steps that change no count, no use and no mark of a creator.
LEMMA UsesSame ==
  ASSUME TableAssumption, TInv, NEW p \in Processes, Same(p, handle'), Rigid,
         \A s \in Slots : table'[s].RefCount = table[s].RefCount,
         \A s \in Slots : Uses1(p, s)' <=> Uses1(p, s),
         \A s \in Slots : Uses1(p, s) => handle'[p].fNewObject = handle[p].fNewObject
  PROVE  RefsCounted' /\ OneCreator'
<1>1. Sound' <=> Sound
  BY DEF Sound, Rigid
<1>2. \A s \in Slots : Holders(s)' = Holders(s)
  BY HoldersChange
<1>3. RefsCounted'
  BY <1>1, <1>2 DEF TInv, RefsCounted
<1>4. \A s \in Slots : \A q \in Holders(s) : handle'[q].fNewObject = handle[q].fNewObject
  BY DEF Holders, Same, Uses1
<1> QED BY <1>1, <1>2, <1>3, <1>4 DEF TInv, OneCreator

LEMMA CreateKeeps ==
  ASSUME TableAssumption, TInv, NEW p \in Processes, CreateSemaphoreMW(p)
  PROVE  TInv'
<1>1. Shapes /\ Calls /\ Cleared
  BY DEF TInv
<1>2. /\ Shapes' /\ Rigid /\ Same(p, handle')
      /\ handle[p].pc = "allocated" /\ handle'[p].pc = "open"
      /\ handle'[p].SharedHandle = handle[p].SharedHandle
      /\ handle'[p].fNewObject = handle[p].fNewObject
      /\ \A s \in Slots : table'[s].RefCount = table[s].RefCount
  BY <1>1, CreateEffect
<1>3. RefsCounted' /\ OneCreator'
  BY <1>2, UsesSame DEF Uses1
<1>4. \A q \in Processes : q # p => handle'[q] = handle[q]
  BY <1>2 DEF Same
<1>5. /\ ~Closing(p)' /\ ~InCall(p)' /\ handle'[p].pc # "clearing"
      /\ \A q \in Processes : q # p => (Closing(q)' <=> Closing(q)) /\ (InCall(q)' <=> InCall(q))
  BY <1>2, <1>4 DEF Closing, InCall
<1>6. Calls'
  BY <1>1, <1>2, <1>4, <1>5 DEF Calls, Rigid
<1>7. Cleared'
  <2> SUFFICES ASSUME Sound, NEW q \in Processes, handle'[q].pc = "clearing"
               PROVE  table'[handle'[q].SharedHandle].RefCount = 0
    BY <1>2 DEF Cleared, Sound, Rigid
  <2>1. handle'[q] = handle[q] /\ handle[q].SharedHandle \in Slots
    BY <1>1, <1>4, <1>5 DEF Calls, Closing
  <2> QED BY <1>1, <1>2, <2>1 DEF Cleared
<1> QED BY <1>2, <1>3, <1>6, <1>7 DEF TInv

LEMMA UseKeeps ==
  ASSUME TableAssumption, TInv, NEW p \in Processes, Use(p)
  PROVE  TInv'
<1>1. Shapes /\ Calls /\ Cleared
  BY DEF TInv
<1>2. /\ Shapes' /\ Rigid /\ handle' = handle
      /\ \A s \in Slots : table'[s].RefCount = table[s].RefCount
  BY <1>1, UseEffect
<1>3. RefsCounted' /\ OneCreator'
  BY <1>2, UsesSame DEF Uses1, Same
<1>4. Calls'
  BY <1>1, <1>2 DEF Calls, Rigid, Closing, InCall
<1>5. Cleared'
  <2> SUFFICES ASSUME Sound, NEW q \in Processes, handle[q].pc = "clearing"
               PROVE  table'[handle[q].SharedHandle].RefCount = 0
    BY <1>2 DEF Cleared, Sound, Rigid
  <2>1. handle[q].SharedHandle \in Slots
    BY <1>1 DEF Calls, Closing
  <2> QED BY <1>1, <1>2, <2>1 DEF Cleared
<1> QED BY <1>2, <1>3, <1>4, <1>5 DEF TInv

LEMMA DecrementKeeps ==
  ASSUME TableAssumption, TInv, NEW p \in Processes, Decrement(p)
  PROVE  TInv'
<1> DEFINE s0 == handle[p].SharedHandle
<1>1. Shapes /\ Calls /\ RefsCounted /\ OneCreator
  BY DEF TInv
<1>2. /\ Shapes' /\ Rigid /\ Same(p, handle') /\ MayCall(p)
      /\ handle[p].pc = "open" /\ handle'[p].pc \in {"none", "decremented"}
      /\ handle'[p].pc = "decremented" =>
           library = "MultiSem" /\ s0 \in Slots /\ handle'[p].SharedHandle = s0
      /\ \A s \in Slots : table'[s].RefCount = table[s].RefCount - (IF s = s0 THEN 1 ELSE 0)
  BY <1>1, DecrementEffect
<1>3. Sound' <=> Sound
  BY <1>2 DEF Sound, Rigid
<1>4. \A q \in Processes : q # p => handle'[q] = handle[q]
  BY <1>2 DEF Same
<1>5. \A s : ~Uses1(p, s)' /\ (Uses1(p, s) <=> s = s0)
  BY <1>2 DEF Uses1
<1>6. \A q \in Processes : q # p => (Closing(q)' <=> Closing(q)) /\ (InCall(q)' <=> InCall(q))
  BY <1>4 DEF Closing, InCall
<1>7. Calls'
  <2>1. ~overlap => \A q \in Processes : ~InCall(q)
    BY <1>2 DEF MayCall
  <2>2. Closing(p)' => handle'[p].pc = "decremented"
    BY <1>2 DEF Closing
  <2> QED BY <1>1, <1>2, <1>4, <1>6, <2>1, <2>2 DEF Calls, Rigid
<1>8. Cleared'
  <2> SUFFICES ASSUME Sound, NEW q \in Processes, handle'[q].pc = "clearing" PROVE FALSE
    BY <1>3 DEF Cleared
  <2>1. q # p /\ Closing(q)
    BY <1>2, <1>4 DEF Closing
  <2> QED BY <1>2, <2>1, NobodyClosing
<1>9. RefsCounted'
  <2> SUFFICES ASSUME Sound, NEW s \in Slots
               PROVE  table'[s].RefCount = Cardinality(Holders(s)')
    BY <1>3 DEF RefsCounted
  <2>1. table[s].RefCount = Cardinality(Holders(s)) /\ Cardinality(Holders(s)) \in Nat
    BY <1>1, <1>2, HoldersChange DEF RefsCounted
  <2>2. CASE s = s0
    BY <1>2, <1>5, <2>1, <2>2, HoldersChange
  <2>3. CASE s # s0
    <3>1. Holders(s)' = Holders(s)
      BY <1>2, <1>5, <2>3, HoldersChange
    <3> QED BY <1>2, <2>1, <2>3, <3>1
  <2> QED BY <2>2, <2>3
<1>10. OneCreator'
  <2>1. \A s \in Slots : Holders(s)' \subseteq Holders(s) /\ p \notin Holders(s)'
    BY <1>4, <1>5 DEF Holders, Uses1
  <2>2. \A s \in Slots : \A q \in Holders(s)' : handle'[q] = handle[q]
    BY <1>4, <2>1 DEF Holders
  <2> QED BY <1>1, <1>3, <2>1, <2>2 DEF OneCreator
<1> QED BY <1>2, <1>7, <1>8, <1>9, <1>10 DEF TInv

LEMMA TestKeeps ==
  ASSUME TableAssumption, TInv, NEW p \in Processes, TestRefCount(p)
  PROVE  TInv'
<1>1. Shapes /\ Calls /\ Cleared
  BY DEF TInv
<1>2. /\ Shapes' /\ Rigid /\ Same(p, handle') /\ table' = table
      /\ handle[p].pc = "decremented" /\ handle'[p].pc \in {"none", "clearing"}
      /\ handle'[p].pc = "clearing" =>
           /\ handle'[p].SharedHandle = handle[p].SharedHandle
           /\ table[handle[p].SharedHandle].RefCount = 0
  BY <1>1, TestEffect
<1>3. RefsCounted' /\ OneCreator'
  BY <1>2, UsesSame DEF Uses1
<1>4. \A q \in Processes : q # p => handle'[q] = handle[q]
  BY <1>2 DEF Same
<1>5. \A q \in Processes : /\ Closing(q)' => Closing(q) /\ handle'[q].SharedHandle = handle[q].SharedHandle
                           /\ InCall(q)' => InCall(q)
  BY <1>2, <1>4 DEF Closing, InCall
<1>6. Calls'
  BY <1>1, <1>2, <1>5 DEF Calls, Rigid
<1>7. Cleared'
  BY <1>1, <1>2, <1>4 DEF Cleared, Sound, Rigid
<1> QED BY <1>2, <1>3, <1>6, <1>7 DEF TInv

LEMMA ClearKeeps ==
  ASSUME TableAssumption, TInv, NEW p \in Processes, Clear(p)
  PROVE  TInv'
<1>1. Shapes /\ Calls /\ Cleared /\ RefsCounted
  BY DEF TInv
<1>2. handle[p].SharedHandle \in Slots
  BY <1>1 DEF Clear, Calls, Closing
<1>3. /\ Shapes' /\ Rigid /\ Same(p, handle')
      /\ handle[p].pc = "clearing" /\ handle'[p].pc = "none"
      /\ \A s \in Slots : IF s = handle[p].SharedHandle THEN table'[s].RefCount = 0
                          ELSE table'[s] = table[s]
  BY <1>1, <1>2, ClearEffect
<1>4. \A q \in Processes : q # p => handle'[q] = handle[q]
  BY <1>3 DEF Same
<1>5. \A q \in Processes : /\ Closing(q)' => Closing(q) /\ q # p
                           /\ InCall(q)' => InCall(q)
  BY <1>3, <1>4 DEF Closing, InCall
<1>6. Calls'
  BY <1>1, <1>3, <1>4, <1>5 DEF Calls, Rigid
<1>7. ASSUME Sound PROVE \A s \in Slots : table'[s].RefCount = table[s].RefCount
  BY <1>1, <1>3, <1>7 DEF Cleared
<1>8. RefsCounted' /\ OneCreator'
  <2>1. CASE Sound
    BY <1>3, <1>7, <2>1, UsesSame DEF Uses1
  <2>2. CASE ~Sound
    BY <1>3, <2>2 DEF RefsCounted, OneCreator, Sound, Rigid
  <2> QED BY <2>1, <2>2
<1>9. Cleared'
  <2> SUFFICES ASSUME Sound, NEW q \in Processes, handle'[q].pc = "clearing"
               PROVE  table'[handle'[q].SharedHandle].RefCount = 0
    BY <1>3 DEF Cleared, Sound, Rigid
  <2>1. q # p /\ handle'[q] = handle[q]
    BY <1>3, <1>4
  <2>2. handle[q].SharedHandle \in Slots
    BY <1>1, <2>1 DEF Calls, Closing
  <2> QED BY <1>1, <1>7, <2>1, <2>2 DEF Cleared
<1> QED BY <1>3, <1>6, <1>8, <1>9 DEF TInv

LEMMA TInvStep == TableAssumption /\ TInv /\ [TableNext]_tableVars => TInv'
<1> SUFFICES ASSUME TableAssumption, TInv, [TableNext]_tableVars PROVE TInv'
  OBVIOUS
<1>1. CASE UNCHANGED tableVars
  BY <1>1 DEF tableVars, TInv, Shapes, Calls, Cleared, RefsCounted, OneCreator, Closing, InCall,
              Sound, Holders
<1>2. CASE TableNext
  BY <1>2, AllocKeeps, CreateKeeps, UseKeeps, DecrementKeeps, TestKeeps, ClearKeeps DEF TableNext
<1> QED BY <1>1, <1>2

-----------------------------------------------------------------------------
(* The count of an entry is the number of its users, and at most one of    *)
(* them created it: AllocSynchHandle and CloseSynchHandle, if calls do not *)
(* overlap or the entry is never cleared.                                  *)
THEOREM ReferencesCounted ==
  ASSUME TableAssumption
  PROVE  TableSpec => [](RefsCounted /\ OneCreator)
<1>1. TableInit => TInv
  BY TInvInit
<1>2. TInv /\ [TableNext]_tableVars => TInv'
  BY TInvStep
<1>3. TInv => RefsCounted /\ OneCreator
  BY DEF TInv
<1> QED BY <1>1, <1>2, <1>3, PTL DEF TableSpec

(* No entry is given back too often; and the types.                        *)
THEOREM TableTypes ==
  ASSUME TableAssumption
  PROVE  TableSpec => []TableTypeOK
<1>1. ASSUME TInv PROVE TableTypeOK
  <2>1. \A s \in Slots : Cardinality(Holders(s)) \in Nat
    BY FS_Subset, FS_CardinalityType DEF TableAssumption, Holders
  <2>2. ASSUME Sound, NEW s \in Slots PROVE table[s].RefCount >= 0
    BY <1>1, <2>1, <2>2 DEF TInv, RefsCounted
  <2>3. \A s \in Slots : table[s].lpName \in Names \cup {""} /\ table[s].RefCount \in Int
                         /\ table[s].state \in {"zero", "initial", "used"}
    BY <1>1, EntryFields DEF TInv, Shapes, States
  <2>4. \A p \in Processes : handle[p].SharedHandle \in Slots \cup {0}
                          /\ handle[p].lpName \in Names \cup {""} /\ handle[p].fNewObject \in BOOLEAN
    BY <1>1, HandleFields DEF TInv, Shapes
  <2> QED BY <2>2, <2>3, <2>4 DEF TableTypeOK
<1>2. TableInit => TInv
  BY TInvInit
<1>3. TInv /\ [TableNext]_tableVars => TInv'
  BY TInvStep
<1> QED BY <1>1, <1>2, <1>3, PTL DEF TableSpec

-----------------------------------------------------------------------------
(* Names, if calls do not overlap.                                         *)

LibraryAssumption == \A u \in Uses : u[1] \in {"SynchObj", "MultiSem"}

\* Distinct: a name is in one entry.  Kept: an entry in use has the name of its
\* users, or it is that of a new object of SynchObj.c, whose name is still to be
\* written and is in no entry.  Used: in MultiSem.c an entry has a name only while
\* it is used or about to be cleared.
Distinct ==
  \A s, r \in Slots : table[s].lpName = table[r].lpName /\ table[s].lpName # "" => s = r
Unwritten(p) ==
  /\ handle[p].pc = "allocated" /\ library = "SynchObj" /\ handle[p].fNewObject
  /\ Named(handle[p].lpName) = {} /\ Holders(handle[p].SharedHandle) = {p}
Kept ==
  \A p \in Processes, s \in Slots : Uses1(p, s) =>
    /\ handle[p].lpName # ""
    /\ table[s].lpName = handle[p].lpName \/ Unwritten(p)
Held(s) == Holders(s) # {} \/ \E p \in Processes : Closing(p) /\ handle[p].SharedHandle = s
Used == library = "MultiSem" => \A s \in Slots : table[s].lpName # "" => Held(s)
NInv ==
  /\ TInv /\ library \in {"SynchObj", "MultiSem"}
  /\ ~overlap => Distinct /\ Kept /\ Used

LEMMA NInvInit == TableAssumption /\ LibraryAssumption /\ TableInit => NInv
<1> SUFFICES ASSUME TableAssumption, LibraryAssumption, TableInit PROVE NInv
  OBVIOUS
<1>1. library \in {"SynchObj", "MultiSem"}
  BY DEF TableInit, InitOf, LibraryAssumption
<1>2. table = [s \in Slots |-> Empty] /\ handle = [p \in Processes |-> NoHandle]
  BY DEF TableInit, InitOf
<1>3. \A s \in Slots : table[s].lpName = ""
  BY <1>2, ConstantFields
<1>4. \A p \in Processes : handle[p].pc = "none"
  BY <1>2, ConstantFields
<1> QED BY <1>1, <1>3, <1>4, TInvInit DEF NInv, Distinct, Kept, Used, Uses1

LEMMA AllocNames ==
  ASSUME TableAssumption, NInv, ~overlap, NEW p \in Processes, NEW name \in Names,
         AllocSynchHandle(p, name)
  PROVE  Distinct' /\ Kept' /\ Used'
<1> DEFINE f == Found(name)
           w == Named(name) = {} /\ library = "MultiSem"
<1>1. Shapes /\ Calls /\ RefsCounted /\ Distinct /\ Kept /\ Used /\ Sound
  BY DEF NInv, TInv, Sound
<1>2. /\ Shapes' /\ Rigid /\ Same(p, handle') /\ MayCall(p)
      /\ handle[p].pc = "none" /\ handle'[p].pc = "allocated" /\ handle'[p].SharedHandle = f
      /\ handle'[p].lpName = name
      /\ handle'[p].fNewObject <=> Named(name) = {} /\ (f # 0 \/ library = "SynchObj")
  BY <1>1, AllocEffect
<1>3. \A s \in Slots : table'[s].lpName = IF s = f /\ w THEN name ELSE table[s].lpName
  BY <1>1, AllocEffect
<1>4. /\ Named(name) # {} => f \in Named(name)
      /\ Named(name) = {} => f \in Free \cup {0}
  BY FoundWhere
<1>5. name # "" /\ 0 \notin Slots
  BY DEF TableAssumption
<1>6. \A s \in Slots : s \in Named(name) <=> table[s].lpName = name
  BY DEF Named
<1> HIDE DEF f
<1>7. \A q \in Processes : ~InCall(q) /\ (q # p => handle'[q] = handle[q])
  BY <1>2 DEF MayCall, Same
<1>8. \A s : ~Uses1(p, s) /\ (Uses1(p, s)' <=> s = f)
  BY <1>2 DEF Uses1
<1>9. \A q \in Processes, s \in Slots :
        Uses1(q, s) => handle[q].lpName # "" /\ table[s].lpName = handle[q].lpName
  BY <1>1, <1>7 DEF Kept, Unwritten, InCall
<1>10. \A q \in Processes, s \in Slots : q # p /\ Uses1(q, s)' => Uses1(q, s)
  BY <1>7 DEF Uses1
<1>11. Named(name) = {} /\ f \in Slots => Holders(f) = {}
  BY <1>1, <1>4, <1>5, FreeUnused
<1>12. Distinct'
  BY <1>1, <1>3, <1>6 DEF Distinct
<1>13. Kept'
  <2>1. ASSUME NEW q \in Processes, q # p, NEW s \in Slots, Uses1(q, s)'
        PROVE  handle'[q].lpName # "" /\ table'[s].lpName = handle'[q].lpName
    <3>1. Uses1(q, s) /\ handle'[q] = handle[q]
      BY <1>7, <1>10, <2>1
    <3>2. ~(s = f /\ w)
      BY <1>11, <3>1 DEF Holders, Uses1
    <3> QED BY <1>3, <1>9, <3>1, <3>2
  <2>2. ASSUME NEW s \in Slots, Uses1(p, s)'
        PROVE  handle'[p].lpName # "" /\ (table'[s].lpName = handle'[p].lpName \/ Unwritten(p)')
    <3>1. s = f
      BY <1>8, <2>2
    <3>2. CASE Named(name) # {}
      BY <1>2, <1>3, <1>4, <1>5, <1>6, <3>1, <3>2
    <3>3. CASE w
      BY <1>2, <1>3, <1>5, <3>1, <3>3
    <3>4. CASE Named(name) = {} /\ library = "SynchObj"
      <4>1. "SynchObj" # "MultiSem"
        OBVIOUS
      <4>2. \A r \in Slots : table'[r].lpName # name
        BY <1>3, <1>6, <3>4, <4>1
      <4>3. Holders(s) = {}
        BY <1>11, <3>1, <3>4
      <4>4. Holders(s)' = {p}
        BY <1>2, <1>8, <3>1, <4>3, HoldersChange
      <4>5. Named(name)' = {}
        BY <4>2 DEF Named
      <4>6. handle'[p].SharedHandle = s /\ handle'[p].lpName = name /\ handle'[p].fNewObject
        BY <1>2, <3>1, <3>4
      <4> QED BY <1>2, <1>5, <3>4, <4>4, <4>5, <4>6 DEF Unwritten, Rigid, Named, Holders
    <3> QED BY <3>2, <3>3, <3>4 DEF NInv
  <2> QED BY <2>1, <2>2 DEF Kept
<1>14. Used'
  <2> SUFFICES ASSUME library = "MultiSem", NEW s \in Slots, table'[s].lpName # ""
               PROVE  Holders(s)' # {}
    BY <1>2 DEF Used, Rigid, Held
  <2>1. CASE s = f
    BY <1>8, <2>1 DEF Holders, Uses1
  <2>2. CASE s # f
    <3>1. Holders(s) # {}
      BY <1>1, <1>3, <1>7, <2>2 DEF Used, Held, Closing, InCall
    <3>2. Holders(s)' = Holders(s)
      BY <1>2, <1>8, <2>2, HoldersChange
    <3> QED BY <3>1, <3>2
  <2> QED BY <2>1, <2>2
<1> QED BY <1>12, <1>13, <1>14

LEMMA CreateNames ==
  ASSUME TableAssumption, NInv, ~overlap, NEW p \in Processes, CreateSemaphoreMW(p)
  PROVE  Distinct' /\ Kept' /\ Used'
<1> DEFINE s0 == handle[p].SharedHandle
           w == library = "SynchObj" /\ handle[p].fNewObject
<1>1. Shapes /\ Calls /\ Distinct /\ Kept /\ Used
  BY DEF NInv, TInv
<1>2. /\ Rigid /\ Same(p, handle')
      /\ handle[p].pc = "allocated" /\ handle'[p].pc = "open"
      /\ handle'[p].lpName = handle[p].lpName /\ handle'[p].SharedHandle = s0
  BY <1>1, CreateEffect
<1>3. \A s \in Slots : table'[s].lpName = IF s = s0 /\ w THEN handle[p].lpName ELSE table[s].lpName
  BY <1>1, CreateEffect
<1>4. \A q \in Processes : q # p => handle'[q] = handle[q] /\ ~InCall(q)
  BY <1>1, <1>2 DEF Same, Calls, InCall
<1>5. \A s : Holders(s)' = Holders(s) /\ (Uses1(p, s) <=> s = s0) /\ (Uses1(p, s)' <=> s = s0)
  BY <1>2, HoldersChange DEF Uses1
<1>6. \A q \in Processes, s \in Slots :
        q # p /\ Uses1(q, s) => handle[q].lpName # "" /\ table[s].lpName = handle[q].lpName
  BY <1>1, <1>4 DEF Kept, Unwritten, InCall
<1>7. ASSUME s0 \in Slots
      PROVE  /\ handle[p].lpName # ""
             /\ table[s0].lpName = handle[p].lpName \/ Unwritten(p)
  BY <1>1, <1>5, <1>7 DEF Kept
<1>8. ASSUME Unwritten(p), s0 \in Slots
      PROVE  /\ w /\ \A s \in Slots : table[s].lpName # handle[p].lpName
             /\ \A q \in Processes : q # p => ~Uses1(q, s0)
  BY <1>8 DEF Unwritten, Named, Holders, Uses1
<1>9. Distinct'
  <2> SUFFICES ASSUME NEW s \in Slots, NEW r \in Slots, s # r,
                      table'[s].lpName = table'[r].lpName, table'[s].lpName # ""
               PROVE  FALSE
    BY DEF Distinct
  <2>1. CASE ~w \/ (s # s0 /\ r # s0)
    BY <1>1, <1>3, <2>1 DEF Distinct
  <2>2. CASE w /\ (s = s0 \/ r = s0)
    <3>1. table[s0].lpName = handle[p].lpName \/ Unwritten(p)
      BY <1>7, <2>2
    <3>2. CASE table[s0].lpName = handle[p].lpName
      <4>1. \A t \in Slots : table'[t].lpName = table[t].lpName
        BY <1>3, <3>2
      <4> QED BY <1>1, <4>1 DEF Distinct
    <3>3. CASE Unwritten(p)
      BY <1>3, <1>8, <2>2, <3>3
    <3> QED BY <3>1, <3>2, <3>3
  <2> QED BY <2>1, <2>2
<1>10. Kept'
  <2>1. ASSUME NEW q \in Processes, q # p, NEW s \in Slots, Uses1(q, s)'
        PROVE  handle'[q].lpName # "" /\ table'[s].lpName = handle'[q].lpName
    <3>1. Uses1(q, s) /\ handle'[q] = handle[q]
      BY <1>4, <2>1 DEF Uses1
    <3>2. s = s0 => table[s0].lpName = handle[p].lpName
      <4> SUFFICES ASSUME s = s0 PROVE table[s0].lpName = handle[p].lpName
        OBVIOUS
      <4>1. s0 \in Slots /\ Uses1(q, s0)
        BY <3>1
      <4>2. ~Unwritten(p)
        BY <1>8, <2>1, <4>1
      <4> QED BY <1>7, <4>1, <4>2
    <3>3. table'[s].lpName = table[s].lpName
      BY <1>3, <3>2
    <3> QED BY <1>6, <2>1, <3>1, <3>3
  <2>2. ASSUME NEW s \in Slots, Uses1(p, s)'
        PROVE  handle'[p].lpName # "" /\ table'[s].lpName = handle'[p].lpName
    BY <1>2, <1>3, <1>5, <1>7, <1>8, <2>2
  <2> QED BY <2>1, <2>2 DEF Kept
<1>11. Used'
  <2> SUFFICES ASSUME library = "MultiSem", NEW s \in Slots, table'[s].lpName # ""
               PROVE  Held(s)'
    BY <1>2 DEF Used, Rigid
  <2>1. Held(s)
    BY <1>1, <1>3 DEF Used
  <2>2. \A q \in Processes : Closing(q) => Closing(q)' /\ handle'[q].SharedHandle = handle[q].SharedHandle
    BY <1>2, <1>4 DEF Closing
  <2> QED BY <1>5, <2>1, <2>2 DEF Held
<1> QED BY <1>9, <1>10, <1>11

\* The steps that write no name.
LEMMA DecrementNames ==
  ASSUME TableAssumption, NInv, ~overlap, NEW p \in Processes, Decrement(p)
  PROVE  Distinct' /\ Kept' /\ Used'
<1> DEFINE s0 == handle[p].SharedHandle
<1>1. Shapes /\ Calls /\ Distinct /\ Kept /\ Used
  BY DEF NInv, TInv
<1>2. /\ Rigid /\ Same(p, handle') /\ MayCall(p)
      /\ handle[p].pc = "open" /\ handle'[p].pc \in {"none", "decremented"}
      /\ handle'[p].pc = "decremented" => handle'[p].SharedHandle = s0
      /\ library = "MultiSem" /\ s0 \in Slots => handle'[p].pc = "decremented"
      /\ \A s \in Slots : table'[s].lpName = table[s].lpName
  BY <1>1, DecrementEffect
<1>3. \A q \in Processes : ~InCall(q) /\ (q # p => handle'[q] = handle[q])
  BY <1>2 DEF Same, MayCall
<1>4. \A s : ~Uses1(p, s)' /\ (Uses1(p, s) <=> s = s0)
  BY <1>2 DEF Uses1
<1>5. Distinct'
  BY <1>1, <1>2 DEF Distinct
<1>6. Kept'
  <2> SUFFICES ASSUME NEW q \in Processes, NEW s \in Slots, Uses1(q, s)'
               PROVE  handle'[q].lpName # "" /\ table'[s].lpName = handle'[q].lpName
    BY DEF Kept
  <2>1. q # p /\ handle'[q] = handle[q] /\ Uses1(q, s)
    BY <1>3, <1>4 DEF Uses1
  <2>2. ~Unwritten(q)
    BY <1>3 DEF Unwritten, InCall
  <2> QED BY <1>1, <1>2, <2>1, <2>2 DEF Kept
<1>7. Used'
  <2> SUFFICES ASSUME library = "MultiSem", NEW s \in Slots, table'[s].lpName # ""
               PROVE  Held(s)'
    BY <1>2 DEF Used, Rigid
  <2>1. CASE s = s0
    <3>1. handle'[p].pc = "decremented" /\ handle'[p].SharedHandle = s
      BY <1>2, <2>1
    <3> QED BY <3>1 DEF Held, Closing
  <2>2. CASE s # s0
    <3>1. Holders(s)' = Holders(s)
      BY <1>2, <1>4, <2>2, HoldersChange
    <3>2. Held(s) /\ \A q \in Processes : ~Closing(q)
      BY <1>1, <1>2, <1>3 DEF Used, Closing, InCall
    <3> QED BY <3>1, <3>2 DEF Held
  <2> QED BY <2>1, <2>2
<1> QED BY <1>5, <1>6, <1>7

LEMMA TestNames ==
  ASSUME TableAssumption, NInv, ~overlap, NEW p \in Processes, TestRefCount(p)
  PROVE  Distinct' /\ Kept' /\ Used'
<1> DEFINE s0 == handle[p].SharedHandle
<1>1. Shapes /\ Calls /\ RefsCounted /\ Distinct /\ Kept /\ Used /\ Sound
  BY DEF NInv, TInv, Sound
<1>2. /\ Rigid /\ Same(p, handle') /\ table' = table
      /\ handle[p].pc = "decremented" /\ handle'[p].pc \in {"none", "clearing"}
      /\ handle'[p].pc = "clearing" => handle'[p].SharedHandle = s0
      /\ handle'[p].pc = "none" => table[s0].RefCount # 0
  BY <1>1, TestEffect
<1>3. library = "MultiSem" /\ s0 \in Slots /\ "MultiSem" # "SynchObj"
  BY <1>1, <1>2 DEF Calls, Closing
<1>4. \A q \in Processes : q # p => handle'[q] = handle[q]
  BY <1>2 DEF Same
<1>5. \A s : Holders(s)' = Holders(s) /\ ~Uses1(p, s)'
  BY <1>2, HoldersChange DEF Uses1
<1>6. Distinct'
  BY <1>1, <1>2 DEF Distinct
<1>7. Kept'
  <2> SUFFICES ASSUME NEW q \in Processes, NEW s \in Slots, Uses1(q, s)'
               PROVE  handle'[q].lpName # "" /\ table'[s].lpName = handle'[q].lpName
    BY DEF Kept
  <2>1. q # p /\ handle'[q] = handle[q] /\ Uses1(q, s)
    BY <1>4, <1>5 DEF Uses1
  <2> QED BY <1>1, <1>2, <1>3, <2>1 DEF Kept, Unwritten
<1>8. Used'
  <2> SUFFICES ASSUME NEW s \in Slots, table[s].lpName # "" PROVE Held(s)'
    BY <1>2 DEF Used
  <2>1. Held(s)
    BY <1>1, <1>3 DEF Used
  <2>2. CASE handle'[p].pc = "clearing"
    <3>1. \A q \in Processes : Closing(q) => Closing(q)' /\ handle'[q].SharedHandle = handle[q].SharedHandle
      BY <1>2, <1>4, <2>2 DEF Closing
    <3> QED BY <1>5, <2>1, <3>1 DEF Held
  <2>3. CASE handle'[p].pc = "none" /\ s = s0
    <3>1. Holders(s0) # {}
      BY <1>1, <1>2, <1>3, <2>3, FS_EmptySet DEF RefsCounted
    <3> QED BY <1>5, <2>3, <3>1 DEF Held
  <2>4. CASE s # s0
    <3>1. \A q \in Processes : q # p /\ Closing(q) => Closing(q)' /\ handle'[q].SharedHandle = handle[q].SharedHandle
      BY <1>4 DEF Closing
    <3> QED BY <1>5, <2>1, <2>4, <3>1 DEF Held
  <2> QED BY <1>2, <2>2, <2>3, <2>4
<1> QED BY <1>6, <1>7, <1>8

LEMMA ClearNames ==
  ASSUME TableAssumption, NInv, ~overlap, NEW p \in Processes, Clear(p)
  PROVE  Distinct' /\ Kept' /\ Used'
<1> DEFINE s0 == handle[p].SharedHandle
<1>1. Shapes /\ Calls /\ RefsCounted /\ Cleared /\ Distinct /\ Kept /\ Used /\ Sound
  BY DEF NInv, TInv, Sound
<1>2. library = "MultiSem" /\ s0 \in Slots /\ "MultiSem" # "SynchObj"
  BY <1>1 DEF Clear, Calls, Closing
<1>3. /\ Rigid /\ Same(p, handle')
      /\ handle[p].pc = "clearing" /\ handle'[p].pc = "none"
      /\ \A s \in Slots : table'[s].lpName = IF s = s0 THEN "" ELSE table[s].lpName
  BY <1>1, <1>2, ClearEffect
<1>4. \A q \in Processes : q # p => handle'[q] = handle[q]
  BY <1>3 DEF Same
<1>5. \A s : Holders(s)' = Holders(s) /\ ~Uses1(p, s)'
  BY <1>3, HoldersChange DEF Uses1
<1>6. Holders(s0) = {}
  <2>1. table[s0].RefCount = 0
    BY <1>1, <1>3 DEF Cleared
  <2>2. s0 \in Free
    BY <1>2, <2>1 DEF Free
  <2> QED BY <1>1, <2>2, FreeUnused
<1>7. Distinct'
  <2>1. \A s \in Slots : table'[s].lpName # "" => table'[s].lpName = table[s].lpName
    BY <1>3
  <2> QED BY <1>1, <2>1 DEF Distinct
<1>8. Kept'
  <2> SUFFICES ASSUME NEW q \in Processes, NEW s \in Slots, Uses1(q, s)'
               PROVE  handle'[q].lpName # "" /\ table'[s].lpName = handle'[q].lpName
    BY DEF Kept
  <2>1. q # p /\ handle'[q] = handle[q] /\ Uses1(q, s)
    BY <1>4, <1>5 DEF Uses1
  <2>2. s # s0
    BY <1>6, <2>1 DEF Holders, Uses1
  <2> QED BY <1>1, <1>2, <1>3, <2>1, <2>2 DEF Kept, Unwritten
<1>9. Used'
  <2> SUFFICES ASSUME NEW s \in Slots, table'[s].lpName # "" PROVE Held(s)'
    BY DEF Used
  <2>1. s # s0 /\ Held(s)
    BY <1>1, <1>2, <1>3 DEF Used
  <2>2. \A q \in Processes : q # p /\ Closing(q) => Closing(q)' /\ handle'[q].SharedHandle = handle[q].SharedHandle
    BY <1>4 DEF Closing
  <2> QED BY <1>5, <2>1, <2>2 DEF Held
<1> QED BY <1>7, <1>8, <1>9

LEMMA NInvStep == TableAssumption /\ NInv /\ [TableNext]_tableVars => NInv'
<1> SUFFICES ASSUME TableAssumption, NInv, [TableNext]_tableVars PROVE NInv'
  OBVIOUS
<1>1. TInv' /\ library' = library /\ overlap' = overlap
  BY TInvStep DEF NInv, TableNext, tableVars, AllocSynchHandle, CreateSemaphoreMW, Use, Decrement,
                  TestRefCount, Clear
<1>2. ASSUME ~overlap PROVE Distinct' /\ Kept' /\ Used'
  <2>1. CASE UNCHANGED tableVars
    <3>1. table' = table /\ handle' = handle /\ library' = library
      BY <2>1 DEF tableVars
    <3>2. Distinct /\ Kept /\ Used
      BY <1>2 DEF NInv
    <3>3. Distinct'
      BY <3>1, <3>2 DEF Distinct
    <3>4. \A q \in Processes : Unwritten(q) => Unwritten(q)'
      BY <3>1 DEF Unwritten, Named, Holders
    <3>5. Kept'
      BY <3>1, <3>2, <3>4 DEF Kept, Uses1
    <3>6. Used'
      BY <3>1, <3>2 DEF Used, Held, Closing, Holders
    <3> QED BY <3>3, <3>5, <3>6
  <2>2. ASSUME NEW p \in Processes, Use(p) PROVE Distinct' /\ Kept' /\ Used'
    <3>1. /\ handle' = handle /\ Rigid
          /\ \A s \in Slots : table'[s].lpName = table[s].lpName
      BY <2>2, UseEffect DEF NInv, TInv
    <3>2. Distinct /\ Kept /\ Used
      BY <1>2 DEF NInv
    <3>3. \A s : Holders(s)' = Holders(s)
      BY <3>1 DEF Holders
    <3>4. \A name : Named(name)' = Named(name)
      BY <3>1 DEF Named
    <3>5. Distinct'
      BY <3>1, <3>2 DEF Distinct
    <3>6. \A q \in Processes : Unwritten(q) => Unwritten(q)'
      BY <3>1, <3>3, <3>4 DEF Unwritten, Rigid
    <3>7. Kept'
      BY <3>1, <3>2, <3>6 DEF Kept, Uses1
    <3>8. Used'
      BY <3>1, <3>2, <3>3 DEF Used, Held, Closing, Rigid
    <3> QED BY <3>5, <3>7, <3>8
  <2> QED BY <1>2, <2>1, <2>2, AllocNames, CreateNames, DecrementNames, TestNames, ClearNames DEF TableNext
<1> QED BY <1>1, <1>2 DEF NInv

(* The entry of an open handle has its name and no other entry has, if     *)
(* calls do not overlap: AllocSynchHandle finds the entry or makes one.    *)
THEOREM NamesKept ==
  ASSUME TableAssumption, LibraryAssumption
  PROVE  TableSpec => []OneObjectPerName
<1>1. TableInit => NInv
  BY NInvInit
<1>2. NInv /\ [TableNext]_tableVars => NInv'
  BY NInvStep
<1>3. ASSUME NInv PROVE OneObjectPerName
  <2> SUFFICES ASSUME ~overlap, NEW p \in Processes, handle[p].pc = "open",
                      handle[p].SharedHandle # 0
               PROVE  Named(handle[p].lpName) = {handle[p].SharedHandle}
    BY DEF OneObjectPerName
  <2>1. Distinct /\ Kept /\ Shapes
    BY <1>3 DEF NInv, TInv
  <2>2. handle[p].SharedHandle \in Slots
    BY <2>1, HandleFields DEF Shapes
  <2>3. /\ handle[p].lpName # ""
        /\ table[handle[p].SharedHandle].lpName = handle[p].lpName
    BY <2>1, <2>2 DEF Kept, Uses1, Unwritten
  <2> QED BY <2>1, <2>2, <2>3 DEF Distinct, Named
<1> QED BY <1>1, <1>2, <1>3, PTL DEF TableSpec

(* A handle of MultiSem.c that nobody shared when it was allocated finds   *)
(* the initial count: CloseSynchHandle clears the entry of its last user.  *)
THEOREM StartsFreshly ==
  ASSUME TableAssumption, LibraryAssumption
  PROVE  TableSpec => StartsFresh
<1> DEFINE Fresh(p) ==
      /\ library = "MultiSem" /\ ~overlap /\ handle[p].pc = "none"
      /\ handle'[p].pc = "allocated" /\ handle'[p].SharedHandle # 0
      /\ Holders(handle'[p].SharedHandle) = {}
      => table'[handle'[p].SharedHandle].state = "initial"
<1>1. TableInit => NInv
  BY NInvInit
<1>2. NInv /\ [TableNext]_tableVars => NInv'
  BY NInvStep
<1>3. NInv /\ [TableNext]_tableVars => [\A p \in Processes : Fresh(p)]_tableVars
  <2> SUFFICES ASSUME NInv, TableNext, NEW p \in Processes,
                      library = "MultiSem", ~overlap, handle[p].pc = "none",
                      handle'[p].pc = "allocated", handle'[p].SharedHandle # 0,
                      Holders(handle'[p].SharedHandle) = {}
               PROVE  table'[handle'[p].SharedHandle].state = "initial"
    OBVIOUS
  <2> DEFINE f == handle'[p].SharedHandle
  <2>1. Shapes /\ Calls /\ Used
    BY DEF NInv, TInv
  <2>2. PICK name \in Names : AllocSynchHandle(p, name)
    <3>1. PICK q \in Processes :
            \/ \E name \in Names : AllocSynchHandle(q, name)
            \/ CreateSemaphoreMW(q) \/ Use(q) \/ Decrement(q) \/ TestRefCount(q) \/ Clear(q)
      BY DEF TableNext
    <3>2. handle'[p] # handle[p]
      OBVIOUS
    <3>3. CASE \E name \in Names : AllocSynchHandle(q, name)
      BY <2>1, <3>2, <3>3, AllocEffect DEF Same
    <3>4. CASE CreateSemaphoreMW(q)
      BY <2>1, <3>2, <3>4, CreateEffect DEF Same
    <3>5. CASE Use(q)
      BY <3>2, <3>5 DEF Use
    <3>6. CASE Decrement(q)
      BY <2>1, <3>2, <3>6, DecrementEffect DEF Same
    <3>7. CASE TestRefCount(q)
      BY <2>1, <3>2, <3>7, TestEffect DEF Same
    <3>8. CASE Clear(q)
      <4>1. q # p /\ handle'[p] = handle[p]
        BY <3>2, <3>8, <2>1 DEF Clear, Shapes
      <4> QED BY <3>2, <4>1
    <3> QED BY <3>1, <3>3, <3>4, <3>5, <3>6, <3>7, <3>8
  <2>3. /\ MayCall(p) /\ f = Found(name)
        /\ Named(name) = {} /\ f \in Slots => table'[f].state = "initial"
    BY <2>1, <2>2, AllocEffect
  <2>4. f \in Slots
    BY <2>3, FoundWhere DEF Named, Free
  <2>5. Named(name) = {}
    <3> SUFFICES ASSUME Named(name) # {} PROVE FALSE
      OBVIOUS
    <3>1. f \in Named(name)
      BY <2>3, FoundWhere
    <3>2. table[f].lpName # ""
      BY <3>1 DEF Named, TableAssumption
    <3>3. Held(f)
      BY <2>1, <2>4, <3>2 DEF Used
    <3> QED BY <2>3, <3>3 DEF Held, Closing, MayCall, InCall
  <2> QED BY <2>3, <2>4, <2>5
<1> QED BY <1>1, <1>2, <1>3, PTL DEF TableSpec, StartsFresh
=============================================================================
