----------------------------- MODULE SynchTable -----------------------------
(***************************************************************************)
(* The table of named semaphores that AllocSynchHandle keeps in shared     *)
(* memory: CreateSemaphoreMW and CloseSynchHandle of SynchObj.c (and of    *)
(* MultiSemX.c), and of MultiSem.c, which writes a new entry before it     *)
(* gives up the mutex of the table and clears one that nobody uses.        *)
(*                                                                         *)
(* A process has at most one handle; "allocated", "decremented" and        *)
(* "clearing" are the statements of a call that is under way.              *)
(***************************************************************************)
EXTENDS Integers, FiniteSets

CONSTANTS
  Processes, Names,
  Slots,           \* the places of the table, from 1
  Uses             \* pairs of values of library and overlap

VARIABLES
  library,         \* the file of the functions
  overlap,         \* calls of several threads may overlap
  table,           \* table[s]: lpName, RefCount, state (of the count)
  handle           \* handle[p]: pc, lpName, SharedHandle (0 is NULL), fNewObject

tableVars == <<library, overlap, table, handle>>

Empty == [lpName |-> "", RefCount |-> 0, state |-> "zero"]
NoHandle == [pc |-> "none", lpName |-> "", SharedHandle |-> 0, fNewObject |-> FALSE]
New(name, s) == [table[s] EXCEPT !.lpName = name, !.state = "initial"]
InCall(p) == handle[p].pc \notin {"none", "open"}
MayCall(p) == overlap \/ \A q \in Processes : ~InCall(q)
Named(name) == {s \in Slots : table[s].lpName = name}
Free == {s \in Slots : table[s].RefCount <= 0}
First(S) == CHOOSE s \in S : \A r \in S : s <= r

\* Fault: names are not compared.
FoundUnnamed(name) == IF Free # {} THEN First(Free) ELSE 0
\* What AllocSynchHandle finds: the entry with the name, or the first free one, or none.
Found(name) == IF Named(name) # {} THEN First(Named(name))
               ELSE IF Free # {} THEN First(Free) ELSE 0

\* AllocSynchHandle, under the mutex of the table.
AllocSynchHandle(p, name) ==
  LET s == Found(name)
      new == Named(name) = {} /\ (s # 0 \/ library = "SynchObj")
      entry == IF new /\ library = "MultiSem" THEN New(name, s) ELSE table[s]
  IN /\ handle[p].pc = "none" /\ MayCall(p)
     /\ table' = IF s = 0 THEN table
                 ELSE [table EXCEPT ![s] = [entry EXCEPT !.RefCount = @ + 1]]
     /\ handle' = [handle EXCEPT ![p] = [pc |-> "allocated", lpName |-> name,
                                         SharedHandle |-> s, fNewObject |-> new]]
     /\ UNCHANGED <<library, overlap>>
\* The rest of CreateSemaphoreMW.
CreateSemaphoreMW(p) ==
  LET h == handle[p]
  IN /\ h.pc = "allocated" /\ handle' = [handle EXCEPT ![p].pc = "open"]
     /\ table' = IF library = "SynchObj" /\ h.fNewObject /\ h.SharedHandle # 0
                 THEN [table EXCEPT ![h.SharedHandle] = New(h.lpName, h.SharedHandle)]
                 ELSE table
     /\ UNCHANGED <<library, overlap>>
\* A wait or a release changes the count.
Use(p) ==
  /\ handle[p].pc = "open" /\ handle[p].SharedHandle # 0
  /\ table' = [table EXCEPT ![handle[p].SharedHandle].state = "used"]
  /\ UNCHANGED <<library, overlap, handle>>

\* CloseSynchHandle.  The wait for the mutex of the table is for another variable
\* of that name, which nothing has set, so it fails and the call goes on without it.
DecrementNever(p) ==  \* Fault: the reference is not given back.
  /\ handle[p].pc = "open" /\ MayCall(p)
  /\ handle' = [handle EXCEPT ![p] = NoHandle] /\ UNCHANGED <<library, overlap, table>>
DecrementTwice(p) ==  \* Fault: a closed handle stays open.
  LET s == handle[p].SharedHandle
  IN /\ handle[p].pc = "open" /\ MayCall(p) /\ UNCHANGED <<library, overlap, handle>>
     /\ table' = IF s = 0 THEN table ELSE [table EXCEPT ![s].RefCount = @ - 1]
Decrement(p) ==
  LET s == handle[p].SharedHandle
  IN /\ handle[p].pc = "open" /\ MayCall(p)
     /\ table' = IF s = 0 THEN table ELSE [table EXCEPT ![s].RefCount = @ - 1]
     /\ handle' = [handle EXCEPT ![p] = IF s # 0 /\ library = "MultiSem"
                                        THEN [@ EXCEPT !.pc = "decremented"] ELSE NoHandle]
     /\ UNCHANGED <<library, overlap>>
UnreferencedNever(s) == FALSE   \* Fault: an entry is never cleared.
Unreferenced(s) == table[s].RefCount = 0
TestRefCount(p) ==
  /\ handle[p].pc = "decremented"
  /\ handle' = [handle EXCEPT ![p] = IF Unreferenced(handle[p].SharedHandle)
                                     THEN [@ EXCEPT !.pc = "clearing"] ELSE NoHandle]
  /\ UNCHANGED <<library, overlap, table>>
Clear(p) ==
  /\ handle[p].pc = "clearing" /\ handle' = [handle EXCEPT ![p] = NoHandle]
  /\ table' = [table EXCEPT ![handle[p].SharedHandle] = Empty]
  /\ UNCHANGED <<library, overlap>>

InitOf(l, o) ==
  /\ library = l /\ overlap = o
  /\ table = [s \in Slots |-> Empty] /\ handle = [p \in Processes |-> NoHandle]
TableInit == \E u \in Uses : InitOf(u[1], u[2])
TableNext == \E p \in Processes :
  \/ \E name \in Names : AllocSynchHandle(p, name)
  \/ CreateSemaphoreMW(p) \/ Use(p) \/ Decrement(p) \/ TestRefCount(p) \/ Clear(p)
TableSpec == TableInit /\ [][TableNext]_tableVars

-----------------------------------------------------------------------------
(* The functions of MultiSem.c may clear an entry that has just been found  *)
(* by another thread, so the following holds for them if calls do not       *)
(* overlap.                                                                 *)
Sound == library = "SynchObj" \/ ~overlap

(* Every variable has its type, and no entry is given back too often.       *)
TableTypeOK ==
  /\ \A s \in Slots : table[s].lpName \in Names \cup {""} /\ table[s].RefCount \in Int
                      /\ (Sound => table[s].RefCount >= 0)
                      /\ table[s].state \in {"zero", "initial", "used"}
  /\ \A p \in Processes : handle[p].SharedHandle \in Slots \cup {0}
                          /\ handle[p].lpName \in Names \cup {""} /\ handle[p].fNewObject \in BOOLEAN

Holders(s) == {p \in Processes : handle[p].SharedHandle = s /\ handle[p].pc \in {"allocated", "open"}}

(* The count of an entry is the number of the handles that use it, although *)
(* it is incremented under the mutex of the table and decremented without.  *)
RefsCounted == Sound => \A s \in Slots : table[s].RefCount = Cardinality(Holders(s))

(* An entry is given to a new object only when no handle uses it: at most   *)
(* one of those who use an entry created it.                                *)
OneCreator ==
  Sound => \A s \in Slots : \A p, q \in Holders(s) :
             handle[p].fNewObject /\ handle[q].fNewObject => p = q

(* If calls do not overlap, the entry of an open handle has its name and no *)
(* other entry has, even when names of closed objects are left in it.       *)
OneObjectPerName ==
  ~overlap => \A p \in Processes :
    handle[p].pc = "open" /\ handle[p].SharedHandle # 0 =>
      Named(handle[p].lpName) = {handle[p].SharedHandle}

(* MultiSem.c:334: "Lock access to the synchronization object data base to  *)
(* prevent other threads from concurrently creating another object of the   *)
(* same name."                                                              *)
NamesUnique ==
  \A p, q \in Processes :
    /\ handle[p].pc = "open" /\ handle[p].SharedHandle # 0
    /\ handle[q].pc = "open" /\ handle[q].SharedHandle # 0
    /\ handle[p].lpName = handle[q].lpName
    => handle[p].SharedHandle = handle[q].SharedHandle

(* A handle of MultiSem.c that nobody shared when it was allocated finds    *)
(* the initial count, not that of an object of the name that was closed.    *)
StartsFresh ==
  [][\A p \in Processes :
       /\ library = "MultiSem" /\ ~overlap /\ handle[p].pc = "none"
       /\ handle'[p].pc = "allocated" /\ handle'[p].SharedHandle # 0
       /\ Holders(handle'[p].SharedHandle) = {}
       => table'[handle'[p].SharedHandle].state = "initial"]_tableVars
=============================================================================
