---------------------------- MODULE Pipes_proofs ----------------------------
(***************************************************************************)
(* Proofs about the named pipe servers, for any number of instances,       *)
(* clients, server threads and requests.  The server on a completion port  *)
(* has the inductive invariant PortInv, the servers with a thread for each *)
(* instance ThreadInv.                                                     *)
(***************************************************************************)
EXTENDS MCPipes, FiniteSetTheorems, SequenceTheorems, TLAPS

-----------------------------------------------------------------------------
(* The named pipes, whichever server they belong to.                       *)

\* The instances p and the clients q, whichever server they belong to.
ClientPcs == {"locate", "looking", "wait", "prompt", "read", "ended"}
ClientRec == [pc : ClientPcs, pipe : Pipes \cup {0}, n : Nat]
RequestRec == [client : Clients \cup {NoClient}, n : Nat, shut : BOOLEAN]
MessageRec == [of : RequestRec, rsLen : Nat]
PipeRec ==
  [state : {"listening", "connected", "closing", "disconnected"}, client : Clients \cup {NoClient},
   request : Seq(RequestRec), response : Seq(MessageRec)]
PipesTyped(p, q, s) ==
  /\ p \in [Pipes -> PipeRec] /\ q \in [Clients -> ClientRec]
  /\ s \in Clients \cup {NoClient} /\ (s # NoClient => q[s].pc = "looking")
  /\ \A i \in Pipes : p[i].state # "connected" => p[i].response = <<>>
  /\ \A d \in Clients : q[d].pc \in {"prompt", "read"} => q[d].pipe \in Pipes

\* An instance is connected to a client that has it open.
Linked(p, q) ==
  \A i \in Pipes : p[i].state = "connected" =>
    /\ p[i].client \in Clients /\ q[p[i].client].pc \in {"prompt", "read"}
    /\ q[p[i].client].pipe = i
\* What is on its way between them: requests and answers of the client's last request.
Own(r, c, q) == r.client = c /\ r.n = q[c].n
Ends(m) == m.rsLen <= 1
Talk(p, q, i) ==
  LET c == p[i].client
  IN p[i].state = "connected" =>
       /\ q[c].pc = "prompt" => p[i].request = <<>> /\ p[i].response = <<>>
       /\ p[i].request # <<>> => p[i].response = <<>>
       /\ Len(p[i].request) <= 1
       /\ \A k \in 1..Len(p[i].request) : Own(p[i].request[k], c, q)
       /\ \A k \in 1..Len(p[i].response) :
            Own(p[i].response[k].of, c, q) /\ (Ends(p[i].response[k]) => k = Len(p[i].response))

\* What a client does to an instance.
NothingTo(p, q, p2, q2, i) ==
  p2[i] = p[i] /\ (p[i].state = "connected" => q2[p[i].client] = q[p[i].client])
OpensIt(p, q, p2, q2, i) ==
  /\ p[i].state = "listening" /\ p2[i].state = "connected"
  /\ p2[i].request = <<>> /\ p2[i].response = <<>> /\ q2[p2[i].client].pc = "prompt"
Asks(p, q, p2, q2, i) ==
  LET c == p[i].client
  IN /\ p[i].state = "connected" /\ q[c].pc = "prompt" /\ q2[c].pc = "read"
     /\ \E r \in RequestRec : Own(r, c, q2) /\ p2[i] = [p[i] EXCEPT !.request = Append(@, r)]
Reads(p, q, p2, q2, i) ==
  LET c == p[i].client
  IN /\ p[i].state = "connected" /\ q[c].pc = "read" /\ p[i].response # <<>>
     /\ p2[i] = [p[i] EXCEPT !.response = Tail(@)]
     /\ q2[c].n = q[c].n /\ q2[c].pc = (IF Ends(Head(p[i].response)) THEN "prompt" ELSE "read")
Closes(p, p2, i) ==
  /\ p[i].state = "connected" /\ p2[i].state = "closing"
  /\ p2[i].request = p[i].request /\ p2[i].response = <<>>
Effect(p, q, p2, q2, i) ==
  \/ NothingTo(p, q, p2, q2, i) \/ OpensIt(p, q, p2, q2, i) \/ Asks(p, q, p2, q2, i)
  \/ Reads(p, q, p2, q2, i) \/ Closes(p, p2, i)

\* A client step keeps the types and the links, and has one of these effects.
Fine(p, q, s, p2, q2, s2) ==
  /\ PipesTyped(p2, q2, s2) /\ Linked(p2, q2)
  /\ \A i \in Pipes : Effect(p, q, p2, q2, i)

LEMMA PipeBasics ==
  0 \notin Clients /\ NoClient = 0 /\ MAX_CLIENTS \in Nat \ {0} /\ Pipes = 1..MAX_CLIENTS /\ 0 \notin Pipes
BY PipeAssumption DEF NoClient, Pipes

\* The client changes, the instances do not.
LEMMA ClientAlone ==
  ASSUME NEW p, NEW q, NEW s, PipesTyped(p, q, s), Linked(p, q),
         NEW c \in Clients, NEW r \in ClientRec, NEW s2 \in Clients \cup {NoClient},
         r.pc \in {"prompt", "read"} => \A i \in Pipes : ~(p[i].state = "connected" /\ p[i].client = c),
         q[c].pc \in {"prompt", "read"} => \A i \in Pipes : ~(p[i].state = "connected" /\ p[i].client = c),
         r.pc \in {"prompt", "read"} => r.pipe \in Pipes,
         s2 = s \/ s2 = c \/ s2 = NoClient,
         s2 = c => r.pc = "looking"
  PROVE  Fine(p, q, s, p, [q EXCEPT ![c] = r], s2)
<1> DEFINE q2 == [q EXCEPT ![c] = r]
<1>1. q2 \in [Clients -> ClientRec] /\ q2[c] = r /\ \A d \in Clients \ {c} : q2[d] = q[d]
  BY DEF PipesTyped
<1> HIDE DEF q2
<1>2. \A i \in Pipes : p[i].state = "connected" => p[i].client # c
  BY DEF Linked
<1>3. PipesTyped(p, q2, s2)
  BY <1>1, PipeBasics DEF PipesTyped
<1>4. \A i \in Pipes : p[i].state = "connected" => p[i].client \in Clients /\ q2[p[i].client] = q[p[i].client]
  BY <1>1, <1>2 DEF Linked
<1>5. Linked(p, q2)
  BY <1>4 DEF Linked
<1>6. \A i \in Pipes : NothingTo(p, q, p, q2, i)
  BY <1>4 DEF NothingTo
<1> QED BY <1>3, <1>5, <1>6 DEF Fine, Effect, q2

\* A client opens an instance that listens.
LEMMA ClientOpens ==
  ASSUME NEW p, NEW q, NEW s, PipesTyped(p, q, s), Linked(p, q),
         NEW c \in Clients, NEW i \in Pipes, q[c].pc = "wait", p[i].state = "listening",
         NEW a \in PipeRec, a.state = "connected", a.client = c, a.request = <<>>, a.response = <<>>,
         NEW r \in ClientRec, r.pc = "prompt", r.pipe = i
  PROVE  Fine(p, q, s, [p EXCEPT ![i] = a], [q EXCEPT ![c] = r], s)
<1> DEFINE q2 == [q EXCEPT ![c] = r]
           p2 == [p EXCEPT ![i] = a]
<1>1. /\ q2 \in [Clients -> ClientRec] /\ q2[c] = r /\ \A d \in Clients \ {c} : q2[d] = q[d]
      /\ p2 \in [Pipes -> PipeRec] /\ p2[i] = a /\ \A j \in Pipes \ {i} : p2[j] = p[j]
  BY DEF PipesTyped
<1> HIDE DEF q2, p2
<1>2. PipesTyped(p2, q2, s)
  <2>1. s \in Clients \cup {NoClient} /\ (s # NoClient => q2[s].pc = "looking")
    BY <1>1, PipeBasics DEF PipesTyped
  <2>2. \A j \in Pipes : p2[j].state # "connected" => p2[j].response = <<>>
    BY <1>1 DEF PipesTyped
  <2>3. \A d \in Clients : q2[d].pc \in {"prompt", "read"} => q2[d].pipe \in Pipes
    BY <1>1 DEF PipesTyped
  <2> QED BY <1>1, <2>1, <2>2, <2>3 DEF PipesTyped
<1>3. \A j \in Pipes : p[j].state = "connected" => p[j].client \in Clients \ {c}
  BY DEF Linked
<1>4. Linked(p2, q2)
  <2> SUFFICES ASSUME NEW j \in Pipes, p2[j].state = "connected"
               PROVE  /\ p2[j].client \in Clients /\ q2[p2[j].client].pc \in {"prompt", "read"}
                      /\ q2[p2[j].client].pipe = j
    BY DEF Linked
  <2>1. CASE j = i
    BY <2>1, <1>1
  <2>2. CASE j # i
    BY <2>2, <1>1, <1>3 DEF Linked
  <2> QED BY <2>1, <2>2
<1>5. OpensIt(p, q, p2, q2, i)
  BY <1>1 DEF OpensIt
<1>6. \A j \in Pipes \ {i} : NothingTo(p, q, p2, q2, j)
  BY <1>1, <1>3 DEF NothingTo
<1> QED BY <1>2, <1>4, <1>5, <1>6 DEF Fine, Effect, q2, p2

\* The client of an instance and the instance change, and stay connected.
LEMMA ClientTalks ==
  ASSUME NEW p, NEW q, NEW s, PipesTyped(p, q, s), Linked(p, q),
         NEW c \in Clients, NEW i \in Pipes, p[i].state = "connected", p[i].client = c,
         NEW a \in PipeRec, a.state = "connected", a.client = c,
         NEW r \in ClientRec, r.pc \in {"prompt", "read"}, r.pipe = i,
         Asks(p, q, [p EXCEPT ![i] = a], [q EXCEPT ![c] = r], i)
         \/ Reads(p, q, [p EXCEPT ![i] = a], [q EXCEPT ![c] = r], i)
  PROVE  Fine(p, q, s, [p EXCEPT ![i] = a], [q EXCEPT ![c] = r], s)
<1> DEFINE q2 == [q EXCEPT ![c] = r]
           p2 == [p EXCEPT ![i] = a]
<1>1. /\ q2 \in [Clients -> ClientRec] /\ q2[c] = r /\ \A d \in Clients \ {c} : q2[d] = q[d]
      /\ p2 \in [Pipes -> PipeRec] /\ p2[i] = a /\ \A j \in Pipes \ {i} : p2[j] = p[j]
  BY DEF PipesTyped
<1>2. Asks(p, q, p2, q2, i) \/ Reads(p, q, p2, q2, i)
  OBVIOUS
<1> HIDE DEF q2, p2
<1>3. q[c].pc \in {"prompt", "read"}
  BY DEF Linked
<1>4. PipesTyped(p2, q2, s)
  <2>1. s \in Clients \cup {NoClient} /\ (s # NoClient => q2[s].pc = "looking")
    BY <1>1, <1>3, PipeBasics DEF PipesTyped
  <2>2. \A j \in Pipes : p2[j].state # "connected" => p2[j].response = <<>>
    BY <1>1 DEF PipesTyped
  <2>3. \A d \in Clients : q2[d].pc \in {"prompt", "read"} => q2[d].pipe \in Pipes
    BY <1>1 DEF PipesTyped
  <2> QED BY <1>1, <2>1, <2>2, <2>3 DEF PipesTyped
<1>5. \A j \in Pipes \ {i} : p[j].state = "connected" => p[j].client \in Clients \ {c}
  BY DEF Linked
<1>6. Linked(p2, q2)
  <2> SUFFICES ASSUME NEW j \in Pipes, p2[j].state = "connected"
               PROVE  /\ p2[j].client \in Clients /\ q2[p2[j].client].pc \in {"prompt", "read"}
                      /\ q2[p2[j].client].pipe = j
    BY DEF Linked
  <2>1. CASE j = i
    BY <2>1, <1>1
  <2>2. CASE j # i
    BY <2>2, <1>1, <1>5 DEF Linked
  <2> QED BY <2>1, <2>2
<1>7. \A j \in Pipes \ {i} : NothingTo(p, q, p2, q2, j)
  BY <1>1, <1>5 DEF NothingTo
<1> QED BY <1>2, <1>4, <1>6, <1>7 DEF Fine, Effect, q2, p2

\* The client of an instance leaves it.
LEMMA ClientCloses ==
  ASSUME NEW p, NEW q, NEW s, PipesTyped(p, q, s), Linked(p, q),
         NEW c \in Clients, NEW i \in Pipes, p[i].state = "connected", p[i].client = c,
         NEW a \in PipeRec, a.state = "closing", a.request = p[i].request, a.response = <<>>,
         NEW r \in ClientRec, r.pc = "ended"
  PROVE  Fine(p, q, s, [p EXCEPT ![i] = a], [q EXCEPT ![c] = r], s)
<1> DEFINE q2 == [q EXCEPT ![c] = r]
           p2 == [p EXCEPT ![i] = a]
<1>1. /\ q2 \in [Clients -> ClientRec] /\ q2[c] = r /\ \A d \in Clients \ {c} : q2[d] = q[d]
      /\ p2 \in [Pipes -> PipeRec] /\ p2[i] = a /\ \A j \in Pipes \ {i} : p2[j] = p[j]
  BY DEF PipesTyped
<1> HIDE DEF q2, p2
<1>2. q[c].pc \in {"prompt", "read"}
  BY DEF Linked
<1>3. PipesTyped(p2, q2, s)
  <2>1. s \in Clients \cup {NoClient} /\ (s # NoClient => q2[s].pc = "looking")
    BY <1>1, <1>2, PipeBasics DEF PipesTyped
  <2>2. \A j \in Pipes : p2[j].state # "connected" => p2[j].response = <<>>
    BY <1>1 DEF PipesTyped
  <2>3. \A d \in Clients : q2[d].pc \in {"prompt", "read"} => q2[d].pipe \in Pipes
    BY <1>1 DEF PipesTyped
  <2> QED BY <1>1, <2>1, <2>2, <2>3 DEF PipesTyped
<1>4. \A j \in Pipes \ {i} : p[j].state = "connected" => p[j].client \in Clients \ {c}
  BY DEF Linked
<1>5. Linked(p2, q2)
  BY <1>1, <1>4 DEF Linked
<1>6. Closes(p, p2, i)
  BY <1>1 DEF Closes
<1>7. \A j \in Pipes \ {i} : NothingTo(p, q, p2, q2, j)
  BY <1>1, <1>4 DEF NothingTo
<1> QED BY <1>3, <1>5, <1>6, <1>7 DEF Fine, Effect, q2, p2

\* A sequence without its first element, element by element.
LEMMA TailElements ==
  ASSUME NEW S, NEW u \in Seq(S), u # <<>>
  PROVE  /\ Len(u) \in Nat \ {0} /\ Tail(u) \in Seq(S) /\ Len(Tail(u)) = Len(u) - 1
         /\ Head(u) = u[1] /\ u[1] \in S /\ (Len(u) = 1 => Tail(u) = <<>>)
         /\ \A k \in 1..Len(Tail(u)) : k + 1 \in 1..Len(u) /\ Tail(u)[k] = u[k + 1]
<1>1. Len(u) \in Nat \ {0} /\ Tail(u) \in Seq(S) /\ Len(Tail(u)) = Len(u) - 1
  OBVIOUS
<1>2. Head(u) = u[1] /\ u[1] \in S
  OBVIOUS
<1>3. Len(u) = 1 => Tail(u) = <<>>
  <2> DEFINE v == Tail(u)
  <2> SUFFICES ASSUME Len(u) = 1 PROVE v = <<>>
    OBVIOUS
  <2>1. v \in Seq(S) /\ Len(v) = 0
    BY <1>1
  <2> HIDE DEF v
  <2> QED BY <2>1, EmptySeq
<1>4. \A k \in 1..Len(Tail(u)) : k + 1 \in 1..Len(u) /\ Tail(u)[k] = u[k + 1]
  BY <1>1
<1> QED BY <1>1, <1>2, <1>3, <1>4

\* The effects of a client keep what is on the way right.
LEMMA EffectKeepsTalk ==
  ASSUME NEW p, NEW q, NEW p2, NEW q2, NEW i \in Pipes, p \in [Pipes -> PipeRec],
         Talk(p, q, i), Effect(p, q, p2, q2, i)
  PROVE  Talk(p2, q2, i)
<1>0. p[i].request \in Seq(RequestRec) /\ p[i].response \in Seq(MessageRec) /\ p[i] \in PipeRec
  BY DEF PipeRec
<1>1. CASE NothingTo(p, q, p2, q2, i)
  BY <1>1 DEF NothingTo, Talk, Own
<1>2. CASE OpensIt(p, q, p2, q2, i)
  BY <1>2 DEF OpensIt, Talk
<1>3. CASE Asks(p, q, p2, q2, i)
  <2> DEFINE c == p[i].client
  <2>1. PICK r \in RequestRec : Own(r, c, q2) /\ p2[i] = [p[i] EXCEPT !.request = Append(@, r)]
    BY <1>3 DEF Asks
  <2>2. p[i].request = <<>> /\ p[i].response = <<>>
    BY <1>3 DEF Asks, Talk
  <2>3. p2[i].request = <<r>> /\ p2[i].response = <<>> /\ p2[i].client = c
    BY <1>0, <2>1, <2>2 DEF PipeRec
  <2>4. q2[c].pc = "read"
    BY <1>3 DEF Asks
  <2> QED BY <2>1, <2>3, <2>4 DEF Talk
<1>4. CASE Reads(p, q, p2, q2, i)
  <2> DEFINE c == p[i].client
             old == p[i].response
             new == p2[i].response
  <2>1. /\ p[i].state = "connected" /\ q[c].pc = "read" /\ old # <<>>
        /\ new = Tail(old) /\ p2[i].request = p[i].request /\ p2[i].client = c
        /\ q2[c].n = q[c].n /\ q2[c].pc = (IF Ends(old[1]) THEN "prompt" ELSE "read")
    BY <1>0, <1>4 DEF Reads, PipeRec
  <2>2. /\ p[i].request = <<>>
        /\ \A k \in 1..Len(old) : Own(old[k].of, c, q) /\ (Ends(old[k]) => k = Len(old))
    BY <2>1 DEF Talk
  <2>3. /\ Len(old) \in Nat \ {0} /\ Len(new) = Len(old) - 1 /\ (Len(old) = 1 => new = <<>>)
        /\ \A k \in 1..Len(new) : k + 1 \in 1..Len(old) /\ new[k] = old[k + 1]
    BY <1>0, <2>1, TailElements
  <2> HIDE DEF c, old, new
  <2>4. ASSUME NEW k \in 1..Len(new)
        PROVE  Own(new[k].of, c, q2) /\ (Ends(new[k]) => k = Len(new))
    <3>1. k + 1 \in 1..Len(old) /\ new[k] = old[k + 1] /\ Len(new) = Len(old) - 1 /\ Len(old) \in Nat
      BY <2>3
    <3>2. Own(new[k].of, c, q) /\ (Ends(new[k]) => k + 1 = Len(old))
      BY <2>2, <3>1
    <3> QED BY <2>1, <3>1, <3>2 DEF Own
  <2>5. Ends(old[1]) => new = <<>>
    BY <2>2, <2>3
  <2> QED BY <2>1, <2>2, <2>4, <2>5 DEF Talk, c, old, new
<1>5. CASE Closes(p, p2, i)
  BY <1>5 DEF Closes, Talk
<1> QED BY <1>1, <1>2, <1>3, <1>4, <1>5 DEF Effect

\* The steps of a client of serverNPCP.
LEMMA PortClient ==
  ASSUME PipesTyped(pipe, client, slot), Linked(pipe, client), NEW c \in Clients, NEW on,
         Client(c, on)
  PROVE  /\ Fine(pipe, client, slot, pipe', client', slot')
         /\ shutDown' = shutDown /\ cancelled' = cancelled
<1>0. client \in [Clients -> ClientRec] /\ client[c] \in ClientRec /\ pipe \in [Pipes -> PipeRec]
  BY DEF PipesTyped
<1>s. /\ slot \in Clients \cup {NoClient} /\ (slot # NoClient => client[slot].pc = "looking")
      /\ (slot = c => client[c].pc = "looking")
  BY PipeBasics DEF PipesTyped
<1>p. client[c].pc \in {"prompt", "read"} => client[c].pipe \in Pipes
  BY DEF PipesTyped
<1>1. CASE CreateMailslot(c)
  <2>1. PICK to \in {"looking", "ended"} :
          /\ client' = [client EXCEPT ![c].pc = to] /\ client[c].pc = "locate"
          /\ pipe' = pipe /\ slot' = (IF to = "looking" THEN c ELSE slot)
    BY <1>1 DEF CreateMailslot, Goes
  <2> DEFINE r == [client[c] EXCEPT !.pc = to]
  <2>2. r \in ClientRec /\ r.pc = to /\ client' = [client EXCEPT ![c] = r]
    BY <1>0, <2>1 DEF ClientRec, ClientPcs
  <2> HIDE DEF r
  <2>3. slot' \in Clients \cup {NoClient} /\ (slot' = c => r.pc = "looking") /\ (slot' = slot \/ slot' = c)
    BY <1>s, <2>1, <2>2
  <2>4. \A j \in Pipes : ~(pipe[j].state = "connected" /\ pipe[j].client = c)
    BY <2>1 DEF Linked
  <2>5. Fine(pipe, client, slot, pipe, [client EXCEPT ![c] = r], slot')
    BY <2>1, <2>2, <2>3, <2>4, ClientAlone
  <2> QED BY <1>1, <2>1, <2>2, <2>5 DEF CreateMailslot
<1>2. CASE Open(c, on)
  <2>1. CASE /\ UNCHANGED pipe /\ Goes(c, "ended")
    <3> DEFINE r == [client[c] EXCEPT !.pc = "ended"]
    <3>1. r \in ClientRec /\ r.pc = "ended" /\ client' = [client EXCEPT ![c] = r] /\ client[c].pc = "wait"
      BY <1>0, <1>2, <2>1 DEF ClientRec, ClientPcs, Goes, Open
    <3> HIDE DEF r
    <3>2. slot' = slot /\ slot \in Clients \cup {NoClient} /\ slot # c
      BY <1>2, <1>s, <3>1 DEF Open
    <3>3. \A j \in Pipes : ~(pipe[j].state = "connected" /\ pipe[j].client = c)
      BY <3>1 DEF Linked
    <3>4. Fine(pipe, client, slot, pipe, [client EXCEPT ![c] = r], slot)
      BY <3>1, <3>2, <3>3, ClientAlone
    <3> QED BY <1>2, <2>1, <3>1, <3>2, <3>4 DEF Open
  <2>2. CASE \E i \in Pipes : /\ IsListening(i) /\ pipe' = OpenedBy(i, c)
                             /\ client' = [client EXCEPT ![c].pc = "prompt", ![c].pipe = i]
    <3>1. PICK i \in Pipes : /\ IsListening(i) /\ pipe' = OpenedBy(i, c)
                            /\ client' = [client EXCEPT ![c].pc = "prompt", ![c].pipe = i]
      BY <2>2
    <3> DEFINE r == [client[c] EXCEPT !.pc = "prompt", !.pipe = i]
               a == [Listening EXCEPT !.state = "connected", !.client = c]
    <3>2. r \in ClientRec /\ r.pc = "prompt" /\ r.pipe = i /\ client' = [client EXCEPT ![c] = r]
      BY <1>0, <3>1 DEF ClientRec, ClientPcs
    <3>3. /\ a \in PipeRec /\ a.state = "connected" /\ a.client = c
          /\ a.request = <<>> /\ a.response = <<>> /\ pipe' = [pipe EXCEPT ![i] = a]
      <4>1. Listening \in PipeRec /\ Listening.request = <<>> /\ Listening.response = <<>>
        BY EmptySeq DEF PipeRec, Listening, NoClient
      <4>2. /\ a \in PipeRec /\ a.state = "connected" /\ a.client = c
            /\ a.request = <<>> /\ a.response = <<>>
        BY <4>1 DEF PipeRec
      <4>3. pipe' = [pipe EXCEPT ![i] = a]
        BY <3>1 DEF OpenedBy
      <4> QED BY <4>2, <4>3
    <3> HIDE DEF r, a
    <3>4. client[c].pc = "wait" /\ pipe[i].state = "listening" /\ slot' = slot
      BY <1>2, <3>1 DEF Open, IsListening
    <3>5. Fine(pipe, client, slot, [pipe EXCEPT ![i] = a], [client EXCEPT ![c] = r], slot)
      BY <3>2, <3>3, <3>4, ClientOpens
    <3> QED BY <1>2, <3>2, <3>3, <3>4, <3>5 DEF Open
  <2> QED BY <1>2, <2>1, <2>2 DEF Open, Pipes, Pipes
<1>3. CASE Ask(c)
  <2> DEFINE i == client[c].pipe
             n == client[c].n + 1
             r == [client[c] EXCEPT !.pc = "read", !.n = n]
  <2>1. /\ r \in ClientRec /\ r.pc = "read" /\ r.pipe = i /\ r.n = n /\ client' = [client EXCEPT ![c] = r]
        /\ client[c].pc = "prompt" /\ slot' = slot /\ n \in Nat
    BY <1>0, <1>3 DEF ClientRec, ClientPcs, Ask
  <2>2. slot \in Clients \cup {NoClient} /\ slot # c
    BY <1>s, <2>1
  <2>3. CASE ConnectedTo(i, c)
    <3>1. i \in Pipes /\ pipe[i].state = "connected" /\ pipe[i].client = c
      <4>1. pipe[i].state = "connected" /\ pipe[i].client = c
        BY <2>3 DEF ConnectedTo
      <4>2. i \in Pipes
        BY <1>3, <1>p DEF Ask
      <4> QED BY <4>1, <4>2
    <3>2. PICK shut \in BOOLEAN : pipe' = [pipe EXCEPT ![i].request = Append(@, Request(c, n, shut))]
      BY <1>3, <2>3, <3>1 DEF Ask
    <3> DEFINE q == Request(c, n, shut)
               a == [pipe[i] EXCEPT !.request = Append(@, q)]
    <3>3. q \in RequestRec /\ q.client = c /\ q.n = n
      BY <2>1 DEF Request, RequestRec
    <3> HIDE DEF q
    <3>4. /\ a \in PipeRec /\ a.state = "connected" /\ a.client = c
          /\ pipe' = [pipe EXCEPT ![i] = a] /\ a = [pipe[i] EXCEPT !.request = Append(@, q)]
      <4>1. pipe[i] \in PipeRec /\ pipe[i].request \in Seq(RequestRec)
        BY <1>0, <3>1 DEF PipeRec
      <4>2. Append(pipe[i].request, q) \in Seq(RequestRec)
        BY <4>1, <3>3
      <4> DEFINE u == Append(pipe[i].request, q)
      <4>3. a = [pipe[i] EXCEPT !.request = u]
        OBVIOUS
      <4> HIDE DEF u
      <4>4. a \in PipeRec /\ a.state = pipe[i].state /\ a.client = pipe[i].client
        BY <4>1, <4>2, <4>3 DEF PipeRec, u
      <4>5. pipe' = [pipe EXCEPT ![i] = a]
        BY <3>2, <4>3 DEF q, u
      <4> QED BY <3>1, <4>4, <4>5
    <3> HIDE DEF r, a
    <3>5. Asks(pipe, client, [pipe EXCEPT ![i] = a], [client EXCEPT ![c] = r], i)
      BY <1>0, <2>1, <3>1, <3>3, <3>4 DEF Asks, Own
    <3>6. r \in ClientRec /\ r.pc \in {"prompt", "read"} /\ r.pipe = i
      BY <2>1
    <3> HIDE DEF i
    <3>7. Fine(pipe, client, slot, [pipe EXCEPT ![i] = a], [client EXCEPT ![c] = r], slot)
      BY <3>1, <3>4, <3>5, <3>6, ClientTalks
    <3> QED BY <1>3, <2>1, <3>4, <3>7 DEF Ask
  <2>4. CASE ~ConnectedTo(i, c)
    <3>1. pipe' = pipe
      BY <1>3, <2>4 DEF Ask
    <3>2. \A j \in Pipes : ~(pipe[j].state = "connected" /\ pipe[j].client = c)
      BY <2>4 DEF ConnectedTo, Linked
    <3>3. i \in Pipes
      BY <1>p, <2>1
    <3>4. r \in ClientRec /\ r.pc = "read" /\ r.pipe \in Pipes
      BY <2>1, <3>3
    <3> HIDE DEF r, i
    <3>5. Fine(pipe, client, slot, pipe, [client EXCEPT ![c] = r], slot)
      BY <2>2, <3>2, <3>4, ClientAlone
    <3> QED BY <1>3, <2>1, <3>1, <3>5 DEF Ask
  <2> QED BY <2>3, <2>4
<1>4. CASE Read(c)
  <2> DEFINE i == client[c].pipe
  <2>1. CASE ~ConnectedTo(i, c)
    <3> DEFINE r == [client[c] EXCEPT !.pc = "prompt"]
    <3>1. /\ r \in ClientRec /\ r.pc = "prompt" /\ client' = [client EXCEPT ![c] = r]
          /\ client[c].pc = "read" /\ slot' = slot /\ pipe' = pipe
      BY <1>0, <1>4, <2>1 DEF ClientRec, ClientPcs, Read, Goes
    <3> HIDE DEF r
    <3>2. \A j \in Pipes : ~(pipe[j].state = "connected" /\ pipe[j].client = c)
      BY <2>1 DEF ConnectedTo, Linked
    <3>3. slot \in Clients \cup {NoClient} /\ slot # c
      BY <1>s, <3>1
    <3>4. r.pipe = i /\ i \in Pipes
      BY <1>0, <1>p, <3>1 DEF ClientRec, r
    <3>5. Fine(pipe, client, slot, pipe, [client EXCEPT ![c] = r], slot)
      BY <3>1, <3>2, <3>3, <3>4, ClientAlone
    <3> QED BY <1>4, <3>1, <3>5 DEF Read
  <2>2. CASE ConnectedTo(i, c)
    <3>1. i \in Pipes /\ pipe[i].state = "connected" /\ pipe[i].client = c
      <4>1. pipe[i].state = "connected" /\ pipe[i].client = c
        BY <2>2 DEF ConnectedTo
      <4>2. i \in Pipes
        BY <1>4, <1>p DEF Read
      <4> QED BY <4>1, <4>2
    <3> DEFINE to == IF EndsResponse(Head(pipe[i].response)) THEN "prompt" ELSE "read"
               r == [client[c] EXCEPT !.pc = to]
               a == [pipe[i] EXCEPT !.response = Tail(@)]
    <3>2. to \in {"prompt", "read"} /\ to = (IF Ends(Head(pipe[i].response)) THEN "prompt" ELSE "read")
      BY DEF EndsResponse, Ends
    <3>3. /\ pipe[i].response # <<>> /\ client[c].pc = "read" /\ slot' = slot
          /\ pipe' = [pipe EXCEPT ![i].response = Tail(@)] /\ client' = [client EXCEPT ![c].pc = to]
      BY <1>4, <2>2 DEF Read, Goes
    <3> HIDE DEF to
    <3>4. r \in ClientRec /\ r.pc = to /\ r.pipe = i /\ r.n = client[c].n /\ client' = [client EXCEPT ![c] = r]
      BY <1>0, <3>2, <3>3 DEF ClientRec, ClientPcs
    <3>5. Tail(pipe[i].response) \in Seq(MessageRec)
      BY <1>0, <3>1, <3>3, TailElements DEF PipeRec
    <3>6. /\ a \in PipeRec /\ a.state = "connected" /\ a.client = c
          /\ pipe' = [pipe EXCEPT ![i] = a] /\ a = [pipe[i] EXCEPT !.response = Tail(@)]
      BY <1>0, <3>1, <3>3, <3>5 DEF PipeRec
    <3> HIDE DEF r, a
    <3>7. Reads(pipe, client, [pipe EXCEPT ![i] = a], [client EXCEPT ![c] = r], i)
      BY <1>0, <3>1, <3>2, <3>3, <3>4, <3>6 DEF Reads
    <3>8. r \in ClientRec /\ r.pc \in {"prompt", "read"} /\ r.pipe = i
      BY <3>2, <3>4
    <3> HIDE DEF i
    <3>9. Fine(pipe, client, slot, [pipe EXCEPT ![i] = a], [client EXCEPT ![c] = r], slot)
      BY <3>1, <3>6, <3>7, <3>8, ClientTalks
    <3> QED BY <1>4, <3>3, <3>4, <3>6, <3>9 DEF Read
  <2> QED BY <2>1, <2>2
<1>5. CASE Quit(c)
  <2> DEFINE i == client[c].pipe
             r == Gone
  <2>1. /\ r \in ClientRec /\ r.pc = "ended" /\ client' = [client EXCEPT ![c] = r]
        /\ client[c].pc = "prompt" /\ slot' = slot
    BY <1>0, <1>5 DEF ClientRec, ClientPcs, Quit, Gone
  <2> HIDE DEF r
  <2>2. slot \in Clients \cup {NoClient} /\ slot # c
    BY <1>s, <2>1
  <2>3. CASE ConnectedTo(i, c)
    <3>1. i \in Pipes /\ pipe[i].state = "connected" /\ pipe[i].client = c
      <4>1. pipe[i].state = "connected" /\ pipe[i].client = c
        BY <2>3 DEF ConnectedTo
      <4>2. i \in Pipes
        BY <1>5, <1>p DEF Quit
      <4> QED BY <4>1, <4>2
    <3> DEFINE a == [pipe[i] EXCEPT !.state = "closing", !.response = <<>>]
    <3>2. pipe' = [pipe EXCEPT ![i].state = "closing", ![i].response = <<>>]
      BY <1>5, <2>3 DEF Quit
    <3>3. /\ a \in PipeRec /\ a.state = "closing" /\ a.request = pipe[i].request /\ a.response = <<>>
          /\ pipe' = [pipe EXCEPT ![i] = a]
      <4>1. pipe[i] \in PipeRec
        BY <1>0, <3>1
      <4>2. a \in PipeRec /\ a.state = "closing" /\ a.request = pipe[i].request /\ a.response = <<>>
        BY <4>1, EmptySeq DEF PipeRec
      <4>3. pipe' = [pipe EXCEPT ![i] = a]
        BY <3>2
      <4> QED BY <4>2, <4>3
    <3> HIDE DEF a, i
    <3>4. Fine(pipe, client, slot, [pipe EXCEPT ![i] = a], [client EXCEPT ![c] = r], slot)
      BY <2>1, <3>1, <3>3, ClientCloses
    <3> QED BY <1>5, <2>1, <3>3, <3>4 DEF Quit
  <2>4. CASE ~ConnectedTo(i, c)
    <3>1. pipe' = pipe
      BY <1>5, <2>4 DEF Quit
    <3>2. \A j \in Pipes : ~(pipe[j].state = "connected" /\ pipe[j].client = c)
      BY <2>4 DEF ConnectedTo, Linked
    <3>3. Fine(pipe, client, slot, pipe, [client EXCEPT ![c] = r], slot)
      BY <2>1, <2>2, <3>2, ClientAlone
    <3> QED BY <1>5, <2>1, <3>1, <3>3 DEF Quit
  <2> QED BY <2>3, <2>4
<1> QED BY <1>1, <1>2, <1>3, <1>4, <1>5 DEF Client

\* The steps of a client of the servers of PipeServer.
LEMMA ServerClient ==
  ASSUME PipesTyped(npPipe, npClient, npSlot), Linked(npPipe, npClient), NEW c \in Clients, NEW on,
         NP!Client(c, on)
  PROVE  /\ Fine(npPipe, npClient, npSlot, npPipe', npClient', npSlot')
         /\ npShutDown' = npShutDown /\ npCancelled' = npCancelled
<1>0. npClient \in [Clients -> ClientRec] /\ npClient[c] \in ClientRec /\ npPipe \in [Pipes -> PipeRec]
  BY DEF PipesTyped
<1>s. /\ npSlot \in Clients \cup {NoClient} /\ (npSlot # NoClient => npClient[npSlot].pc = "looking")
      /\ (npSlot = c => npClient[c].pc = "looking")
  BY PipeBasics DEF PipesTyped
<1>p. npClient[c].pc \in {"prompt", "read"} => npClient[c].pipe \in Pipes
  BY DEF PipesTyped
<1>1. CASE NP!CreateMailslot(c)
  <2>1. PICK to \in {"looking", "ended"} :
          /\ npClient' = [npClient EXCEPT ![c].pc = to] /\ npClient[c].pc = "locate"
          /\ npPipe' = npPipe /\ npSlot' = (IF to = "looking" THEN c ELSE npSlot)
    BY <1>1 DEF NP!CreateMailslot, NP!Goes
  <2> DEFINE r == [npClient[c] EXCEPT !.pc = to]
  <2>2. r \in ClientRec /\ r.pc = to /\ npClient' = [npClient EXCEPT ![c] = r]
    BY <1>0, <2>1 DEF ClientRec, ClientPcs
  <2> HIDE DEF r
  <2>3. npSlot' \in Clients \cup {NoClient} /\ (npSlot' = c => r.pc = "looking") /\ (npSlot' = npSlot \/ npSlot' = c)
    BY <1>s, <2>1, <2>2
  <2>4. \A j \in Pipes : ~(npPipe[j].state = "connected" /\ npPipe[j].client = c)
    BY <2>1 DEF Linked
  <2>5. Fine(npPipe, npClient, npSlot, npPipe, [npClient EXCEPT ![c] = r], npSlot')
    BY <2>1, <2>2, <2>3, <2>4, ClientAlone
  <2> QED BY <1>1, <2>1, <2>2, <2>5 DEF NP!CreateMailslot
<1>2. CASE NP!Open(c, on)
  <2>1. CASE /\ UNCHANGED npPipe /\ NP!Goes(c, "ended")
    <3> DEFINE r == [npClient[c] EXCEPT !.pc = "ended"]
    <3>1. r \in ClientRec /\ r.pc = "ended" /\ npClient' = [npClient EXCEPT ![c] = r] /\ npClient[c].pc = "wait"
      BY <1>0, <1>2, <2>1 DEF ClientRec, ClientPcs, NP!Goes, NP!Open
    <3> HIDE DEF r
    <3>2. npSlot' = npSlot /\ npSlot \in Clients \cup {NoClient} /\ npSlot # c
      BY <1>2, <1>s, <3>1 DEF NP!Open
    <3>3. \A j \in Pipes : ~(npPipe[j].state = "connected" /\ npPipe[j].client = c)
      BY <3>1 DEF Linked
    <3>4. Fine(npPipe, npClient, npSlot, npPipe, [npClient EXCEPT ![c] = r], npSlot)
      BY <3>1, <3>2, <3>3, ClientAlone
    <3> QED BY <1>2, <2>1, <3>1, <3>2, <3>4 DEF NP!Open
  <2>2. CASE \E i \in Pipes : /\ NP!IsListening(i) /\ npPipe' = NP!OpenedBy(i, c)
                             /\ npClient' = [npClient EXCEPT ![c].pc = "prompt", ![c].pipe = i]
    <3>1. PICK i \in Pipes : /\ NP!IsListening(i) /\ npPipe' = NP!OpenedBy(i, c)
                            /\ npClient' = [npClient EXCEPT ![c].pc = "prompt", ![c].pipe = i]
      BY <2>2
    <3> DEFINE r == [npClient[c] EXCEPT !.pc = "prompt", !.pipe = i]
               a == [NP!Listening EXCEPT !.state = "connected", !.client = c]
    <3>2. r \in ClientRec /\ r.pc = "prompt" /\ r.pipe = i /\ npClient' = [npClient EXCEPT ![c] = r]
      BY <1>0, <3>1 DEF ClientRec, ClientPcs
    <3>3. /\ a \in PipeRec /\ a.state = "connected" /\ a.client = c
          /\ a.request = <<>> /\ a.response = <<>> /\ npPipe' = [npPipe EXCEPT ![i] = a]
      <4>1. NP!Listening \in PipeRec /\ NP!Listening.request = <<>> /\ NP!Listening.response = <<>>
        BY EmptySeq DEF PipeRec, NP!Listening, NoClient, NP!NoClient
      <4>2. /\ a \in PipeRec /\ a.state = "connected" /\ a.client = c
            /\ a.request = <<>> /\ a.response = <<>>
        BY <4>1 DEF PipeRec
      <4>3. npPipe' = [npPipe EXCEPT ![i] = a]
        BY <3>1 DEF NP!OpenedBy
      <4> QED BY <4>2, <4>3
    <3> HIDE DEF r, a
    <3>4. npClient[c].pc = "wait" /\ npPipe[i].state = "listening" /\ npSlot' = npSlot
      BY <1>2, <3>1 DEF NP!Open, NP!IsListening
    <3>5. Fine(npPipe, npClient, npSlot, [npPipe EXCEPT ![i] = a], [npClient EXCEPT ![c] = r], npSlot)
      BY <3>2, <3>3, <3>4, ClientOpens
    <3> QED BY <1>2, <3>2, <3>3, <3>4, <3>5 DEF NP!Open
  <2> QED BY <1>2, <2>1, <2>2 DEF NP!Open, NP!Pipes, Pipes
<1>3. CASE NP!Ask(c)
  <2> DEFINE i == npClient[c].pipe
             n == npClient[c].n + 1
             r == [npClient[c] EXCEPT !.pc = "read", !.n = n]
  <2>1. /\ r \in ClientRec /\ r.pc = "read" /\ r.pipe = i /\ r.n = n /\ npClient' = [npClient EXCEPT ![c] = r]
        /\ npClient[c].pc = "prompt" /\ npSlot' = npSlot /\ n \in Nat
    BY <1>0, <1>3 DEF ClientRec, ClientPcs, NP!Ask
  <2>2. npSlot \in Clients \cup {NoClient} /\ npSlot # c
    BY <1>s, <2>1
  <2>3. CASE NP!ConnectedTo(i, c)
    <3>1. i \in Pipes /\ npPipe[i].state = "connected" /\ npPipe[i].client = c
      <4>1. npPipe[i].state = "connected" /\ npPipe[i].client = c
        BY <2>3 DEF NP!ConnectedTo
      <4>2. i \in Pipes
        BY <1>3, <1>p DEF NP!Ask
      <4> QED BY <4>1, <4>2
    <3>2. PICK shut \in BOOLEAN : npPipe' = [npPipe EXCEPT ![i].request = Append(@, NP!Request(c, n, shut))]
      BY <1>3, <2>3, <3>1 DEF NP!Ask
    <3> DEFINE q == NP!Request(c, n, shut)
               a == [npPipe[i] EXCEPT !.request = Append(@, q)]
    <3>3. q \in RequestRec /\ q.client = c /\ q.n = n
      BY <2>1 DEF NP!Request, RequestRec
    <3> HIDE DEF q
    <3>4. /\ a \in PipeRec /\ a.state = "connected" /\ a.client = c
          /\ npPipe' = [npPipe EXCEPT ![i] = a] /\ a = [npPipe[i] EXCEPT !.request = Append(@, q)]
      <4>1. npPipe[i] \in PipeRec /\ npPipe[i].request \in Seq(RequestRec)
        BY <1>0, <3>1 DEF PipeRec
      <4>2. Append(npPipe[i].request, q) \in Seq(RequestRec)
        BY <4>1, <3>3
      <4> DEFINE u == Append(npPipe[i].request, q)
      <4>3. a = [npPipe[i] EXCEPT !.request = u]
        OBVIOUS
      <4> HIDE DEF u
      <4>4. a \in PipeRec /\ a.state = npPipe[i].state /\ a.client = npPipe[i].client
        BY <4>1, <4>2, <4>3 DEF PipeRec, u
      <4>5. npPipe' = [npPipe EXCEPT ![i] = a]
        BY <3>2, <4>3 DEF q, u
      <4> QED BY <3>1, <4>4, <4>5
    <3> HIDE DEF r, a
    <3>5. Asks(npPipe, npClient, [npPipe EXCEPT ![i] = a], [npClient EXCEPT ![c] = r], i)
      BY <1>0, <2>1, <3>1, <3>3, <3>4 DEF Asks, Own
    <3>6. r \in ClientRec /\ r.pc \in {"prompt", "read"} /\ r.pipe = i
      BY <2>1
    <3> HIDE DEF i
    <3>7. Fine(npPipe, npClient, npSlot, [npPipe EXCEPT ![i] = a], [npClient EXCEPT ![c] = r], npSlot)
      BY <3>1, <3>4, <3>5, <3>6, ClientTalks
    <3> QED BY <1>3, <2>1, <3>4, <3>7 DEF NP!Ask
  <2>4. CASE ~NP!ConnectedTo(i, c)
    <3>1. npPipe' = npPipe
      BY <1>3, <2>4 DEF NP!Ask
    <3>2. \A j \in Pipes : ~(npPipe[j].state = "connected" /\ npPipe[j].client = c)
      BY <2>4 DEF NP!ConnectedTo, Linked
    <3>3. i \in Pipes
      BY <1>p, <2>1
    <3>4. r \in ClientRec /\ r.pc = "read" /\ r.pipe \in Pipes
      BY <2>1, <3>3
    <3> HIDE DEF r, i
    <3>5. Fine(npPipe, npClient, npSlot, npPipe, [npClient EXCEPT ![c] = r], npSlot)
      BY <2>2, <3>2, <3>4, ClientAlone
    <3> QED BY <1>3, <2>1, <3>1, <3>5 DEF NP!Ask
  <2> QED BY <2>3, <2>4
<1>4. CASE NP!Read(c)
  <2> DEFINE i == npClient[c].pipe
  <2>1. CASE ~NP!ConnectedTo(i, c)
    <3> DEFINE r == [npClient[c] EXCEPT !.pc = "prompt"]
    <3>1. /\ r \in ClientRec /\ r.pc = "prompt" /\ npClient' = [npClient EXCEPT ![c] = r]
          /\ npClient[c].pc = "read" /\ npSlot' = npSlot /\ npPipe' = npPipe
      BY <1>0, <1>4, <2>1 DEF ClientRec, ClientPcs, NP!Read, NP!Goes
    <3> HIDE DEF r
    <3>2. \A j \in Pipes : ~(npPipe[j].state = "connected" /\ npPipe[j].client = c)
      BY <2>1 DEF NP!ConnectedTo, Linked
    <3>3. npSlot \in Clients \cup {NoClient} /\ npSlot # c
      BY <1>s, <3>1
    <3>4. r.pipe = i /\ i \in Pipes
      BY <1>0, <1>p, <3>1 DEF ClientRec, r
    <3>5. Fine(npPipe, npClient, npSlot, npPipe, [npClient EXCEPT ![c] = r], npSlot)
      BY <3>1, <3>2, <3>3, <3>4, ClientAlone
    <3> QED BY <1>4, <3>1, <3>5 DEF NP!Read
  <2>2. CASE NP!ConnectedTo(i, c)
    <3>1. i \in Pipes /\ npPipe[i].state = "connected" /\ npPipe[i].client = c
      <4>1. npPipe[i].state = "connected" /\ npPipe[i].client = c
        BY <2>2 DEF NP!ConnectedTo
      <4>2. i \in Pipes
        BY <1>4, <1>p DEF NP!Read
      <4> QED BY <4>1, <4>2
    <3> DEFINE to == IF NP!EndsResponse(Head(npPipe[i].response)) THEN "prompt" ELSE "read"
               r == [npClient[c] EXCEPT !.pc = to]
               a == [npPipe[i] EXCEPT !.response = Tail(@)]
    <3>2. to \in {"prompt", "read"} /\ to = (IF Ends(Head(npPipe[i].response)) THEN "prompt" ELSE "read")
      BY DEF NP!EndsResponse, Ends
    <3>3. /\ npPipe[i].response # <<>> /\ npClient[c].pc = "read" /\ npSlot' = npSlot
          /\ npPipe' = [npPipe EXCEPT ![i].response = Tail(@)] /\ npClient' = [npClient EXCEPT ![c].pc = to]
      BY <1>4, <2>2 DEF NP!Read, NP!Goes
    <3> HIDE DEF to
    <3>4. r \in ClientRec /\ r.pc = to /\ r.pipe = i /\ r.n = npClient[c].n /\ npClient' = [npClient EXCEPT ![c] = r]
      BY <1>0, <3>2, <3>3 DEF ClientRec, ClientPcs
    <3>5. Tail(npPipe[i].response) \in Seq(MessageRec)
      BY <1>0, <3>1, <3>3, TailElements DEF PipeRec
    <3>6. /\ a \in PipeRec /\ a.state = "connected" /\ a.client = c
          /\ npPipe' = [npPipe EXCEPT ![i] = a] /\ a = [npPipe[i] EXCEPT !.response = Tail(@)]
      BY <1>0, <3>1, <3>3, <3>5 DEF PipeRec
    <3> HIDE DEF r, a
    <3>7. Reads(npPipe, npClient, [npPipe EXCEPT ![i] = a], [npClient EXCEPT ![c] = r], i)
      BY <1>0, <3>1, <3>2, <3>3, <3>4, <3>6 DEF Reads
    <3>8. r \in ClientRec /\ r.pc \in {"prompt", "read"} /\ r.pipe = i
      BY <3>2, <3>4
    <3> HIDE DEF i
    <3>9. Fine(npPipe, npClient, npSlot, [npPipe EXCEPT ![i] = a], [npClient EXCEPT ![c] = r], npSlot)
      BY <3>1, <3>6, <3>7, <3>8, ClientTalks
    <3> QED BY <1>4, <3>3, <3>4, <3>6, <3>9 DEF NP!Read
  <2> QED BY <2>1, <2>2
<1>5. CASE NP!Quit(c)
  <2> DEFINE i == npClient[c].pipe
             r == NP!Gone
  <2>1. /\ r \in ClientRec /\ r.pc = "ended" /\ npClient' = [npClient EXCEPT ![c] = r]
        /\ npClient[c].pc = "prompt" /\ npSlot' = npSlot
    BY <1>0, <1>5 DEF ClientRec, ClientPcs, NP!Quit, NP!Gone
  <2> HIDE DEF r
  <2>2. npSlot \in Clients \cup {NoClient} /\ npSlot # c
    BY <1>s, <2>1
  <2>3. CASE NP!ConnectedTo(i, c)
    <3>1. i \in Pipes /\ npPipe[i].state = "connected" /\ npPipe[i].client = c
      <4>1. npPipe[i].state = "connected" /\ npPipe[i].client = c
        BY <2>3 DEF NP!ConnectedTo
      <4>2. i \in Pipes
        BY <1>5, <1>p DEF NP!Quit
      <4> QED BY <4>1, <4>2
    <3> DEFINE a == [npPipe[i] EXCEPT !.state = "closing", !.response = <<>>]
    <3>2. npPipe' = [npPipe EXCEPT ![i].state = "closing", ![i].response = <<>>]
      BY <1>5, <2>3 DEF NP!Quit
    <3>3. /\ a \in PipeRec /\ a.state = "closing" /\ a.request = npPipe[i].request /\ a.response = <<>>
          /\ npPipe' = [npPipe EXCEPT ![i] = a]
      <4>1. npPipe[i] \in PipeRec
        BY <1>0, <3>1
      <4>2. a \in PipeRec /\ a.state = "closing" /\ a.request = npPipe[i].request /\ a.response = <<>>
        BY <4>1, EmptySeq DEF PipeRec
      <4>3. npPipe' = [npPipe EXCEPT ![i] = a]
        BY <3>2
      <4> QED BY <4>2, <4>3
    <3> HIDE DEF a, i
    <3>4. Fine(npPipe, npClient, npSlot, [npPipe EXCEPT ![i] = a], [npClient EXCEPT ![c] = r], npSlot)
      BY <2>1, <3>1, <3>3, ClientCloses
    <3> QED BY <1>5, <2>1, <3>3, <3>4 DEF NP!Quit
  <2>4. CASE ~NP!ConnectedTo(i, c)
    <3>1. npPipe' = npPipe
      BY <1>5, <2>4 DEF NP!Quit
    <3>2. \A j \in Pipes : ~(npPipe[j].state = "connected" /\ npPipe[j].client = c)
      BY <2>4 DEF NP!ConnectedTo, Linked
    <3>3. Fine(npPipe, npClient, npSlot, npPipe, [npClient EXCEPT ![c] = r], npSlot)
      BY <2>1, <2>2, <3>2, ClientAlone
    <3> QED BY <1>5, <2>1, <3>1, <3>3 DEF NP!Quit
  <2> QED BY <2>3, <2>4
<1> QED BY <1>1, <1>2, <1>3, <1>4, <1>5 DEF NP!Client

-----------------------------------------------------------------------------
(* The invariants of the completion port and of the threads.               *)

KeyRec ==
  [npState : NpStates, pending : {"connect", "read", "write", "none"},
   request : RequestRec, tmp : Seq(RequestRec)]
CompletionRec == [of : Pipes, result : {"done", "failed", "aborted"}]
PortTypes ==
  /\ key \in [Pipes -> KeyRec] /\ port \in Seq(CompletionRec)
  /\ wk \in [ServerThreads -> {"wait", "compute", "ended"}] /\ of \in [ServerThreads -> Pipes \cup {0}]
  /\ \A t \in ServerThreads : of[t] # 0 <=> wk[t] = "compute"
  /\ shutDown \in BOOLEAN /\ cancelled \in 0..MAX_CLIENTS /\ lost \subseteq Pipes

\* An instance has an operation outstanding, a completion in the port, or a thread.
PendingIn(k) == {i \in Pipes : k[i].pending # "none"}
PostedIn(u) == {u[n].of : n \in 1..Len(u)}
HeldBy(o) == {i \in Pipes : \E t \in ServerThreads : o[t] = i}
Distinct(u) == \A m, n \in 1..Len(u) : u[m].of = u[n].of => m = n
OwnHold(o) == \A t, u \in ServerThreads : o[t] = o[u] /\ o[t] # 0 => t = u
Apart(k, u, o) ==
  /\ Distinct(u) /\ OwnHold(o)
  /\ PendingIn(k) \cap PostedIn(u) = {} /\ PendingIn(k) \cap HeldBy(o) = {}
  /\ PostedIn(u) \cap HeldBy(o) = {}
UnservedIn(k, u, o) == Pipes \ (PendingIn(k) \cup PostedIn(u) \cup HeldBy(o))
EndedIn(w) == {t \in ServerThreads : w[t] = "ended"}
\* An instance is not served any more: a thread has gone on without it (l), or has
\* ended because its client had gone or its file could not be opened.
Forsaken(pi, ki) == pi.state = "closing" \/ ki.npState = "computed"
LeftIn(k, u, o, l) == UnservedIn(k, u, o) \ l
Dead(p, k, u, o, w, l) ==
  /\ l \subseteq UnservedIn(k, u, o)
  /\ Cardinality(EndedIn(w)) = Cardinality(LeftIn(k, u, o, l))
  /\ \A i \in LeftIn(k, u, o, l) : Forsaken(p[i], k[i])

\* The structure of an instance, while it is held (h) or not.
Steps(pi, ki, h) ==
  /\ h => ki.npState = "requestRead"
  /\ ki.pending = "connect" => ki.npState = "connected"
  /\ ki.pending = "read" => ki.npState = "requestRead"
  /\ ki.pending = "write" => ki.npState \in {"connected", "responding"}
  /\ Len(ki.tmp) <= 1
  /\ ki.npState \in {"computed", "responding"} => \A n \in 1..Len(ki.tmp) : ki.tmp[n] = ki.request
  /\ pi.state # "disconnected" /\ Len(pi.request) <= 1
  /\ pi.state = "listening" => pi.request = <<>> /\ ki.npState = "connected"
Waits(pi, ki) == pi.state = "listening" => ki.pending = "connect"
\* The instance has no request in hand.
Idle(ki) == ki.npState = "connected" \/ (ki.npState = "requestRead" /\ ki.pending = "read")
Works(pi, ki, q) ==
  pi.state = "connected" =>
    IF Idle(ki)
    THEN pi.response # <<>> => Ends(pi.response[Len(pi.response)])
    ELSE /\ q[pi.client].pc = "read" /\ pi.request = <<>> /\ Own(ki.request, pi.client, q)
         /\ \A n \in 1..Len(pi.response) : ~Ends(pi.response[n])
Instance(i) ==
  /\ Steps(pipe[i], key[i], i \in HeldBy(of)) /\ Talk(pipe, client, i)
  /\ ~shutDown => Waits(pipe[i], key[i]) /\ Works(pipe[i], key[i], client)
PortInv ==
  /\ PipesTyped(pipe, client, slot) /\ Linked(pipe, client) /\ PortTypes
  /\ Apart(key, port, of) /\ (~shutDown => Dead(pipe, key, port, of, wk, lost))
  /\ \A i \in Pipes : Instance(i)

PipeThreadPcs ==
  {"loop", "await", "check", "read", "run", "answer", "flushed", "hangUp", "disconnect",
   "leave", "join", "ended"}
ThreadTypes ==
  /\ server \in {"serverNP", "serverNP_secure", "none"}
  /\ th \in [Pipes -> PipeThreadPcs] /\ con \in [Pipes -> {"none", "begun", "waiting", "ended"}]
  /\ req \in [Pipes -> RequestRec] /\ tmp \in [Pipes -> Seq(RequestRec)]
  /\ npShutDown \in BOOLEAN /\ npCancelled \in 0..MAX_CLIENTS
UsedState(pi) == pi.state \in {"connected", "closing"}
Connects(pi, h, k, shut) ==
  /\ k # "none" => h \in {"await", "leave", "join", "ended"}
  /\ k = "waiting" => pi.state # "disconnected"
  /\ k = "ended" /\ h = "await" /\ ~shut => UsedState(pi)
  /\ h \in {"check", "read", "run", "answer", "flushed"} => UsedState(pi)
Files(h, r, f) ==
  /\ h = "answer" => f = <<r>>
  /\ server = "serverNP_secure" /\ h # "answer" => f = <<>>
Busy(pi, h, r, q) ==
  pi.state = "connected" /\ h \in {"run", "answer"} =>
    /\ q[pi.client].pc = "read" /\ pi.request = <<>> /\ pi.response = <<>> /\ Own(r, pi.client, q)
Handled(i) ==
  /\ Connects(npPipe[i], th[i], con[i], npShutDown) /\ Files(th[i], req[i], tmp[i])
  /\ server # "serverNP_secure" =>
       Talk(npPipe, npClient, i) /\ Len(npPipe[i].request) <= 1 /\ Busy(npPipe[i], th[i], req[i], npClient)
ThreadInv ==
  /\ PipesTyped(npPipe, npClient, npSlot) /\ Linked(npPipe, npClient) /\ ThreadTypes
  /\ \A i \in Pipes : Handled(i)

-----------------------------------------------------------------------------
(* serverNPCP keeps its invariant.                                         *)

\* A completion is put in the port, or taken from it.
LEMMA PostedAppend ==
  ASSUME NEW u \in Seq(CompletionRec), NEW x \in CompletionRec, Distinct(u)
  PROVE  /\ Append(u, x) \in Seq(CompletionRec) /\ PostedIn(Append(u, x)) = PostedIn(u) \cup {x.of}
         /\ (x.of \notin PostedIn(u) => Distinct(Append(u, x)))
<1> DEFINE v == Append(u, x)
<1>1. /\ v \in Seq(CompletionRec) /\ Len(u) \in Nat /\ Len(v) = Len(u) + 1 /\ v[Len(v)] = x
      /\ \A n \in 1..Len(u) : v[n] = u[n]
  OBVIOUS
<1> HIDE DEF v
<1>2. \A n \in 1..Len(v) : n \in 1..Len(u) \/ n = Len(v)
  BY <1>1
<1>3. 1..Len(u) \subseteq 1..Len(v) /\ Len(v) \in 1..Len(v) /\ Len(v) \notin 1..Len(u)
  BY <1>1
<1>4. PostedIn(v) = PostedIn(u) \cup {x.of}
  <2>1. PostedIn(v) \subseteq PostedIn(u) \cup {x.of}
    BY <1>1, <1>2 DEF PostedIn
  <2>2. PostedIn(u) \cup {x.of} \subseteq PostedIn(v)
    <3>1. ASSUME NEW y \in PostedIn(u) PROVE y \in PostedIn(v)
      <4>1. PICK n \in 1..Len(u) : y = u[n].of
        BY <3>1 DEF PostedIn
      <4>2. n \in 1..Len(v) /\ v[n] = u[n]
        BY <1>1, <1>3
      <4> QED BY <4>1, <4>2 DEF PostedIn
    <3>2. x.of \in PostedIn(v)
      <4> DEFINE l == Len(v)
      <4>1. l \in 1..Len(v) /\ x.of = v[l].of
        BY <1>1, <1>3
      <4> HIDE DEF l
      <4> QED BY <4>1 DEF PostedIn
    <3> QED BY <3>1, <3>2
  <2> QED BY <2>1, <2>2
<1>5. ASSUME x.of \notin PostedIn(u) PROVE Distinct(v)
  <2>1. \A n \in 1..Len(u) : u[n].of # x.of
    BY <1>5 DEF PostedIn
  <2>2. ASSUME NEW m \in 1..Len(v), NEW n \in 1..Len(v), v[m].of = v[n].of PROVE m = n
    <3>1. CASE m \in 1..Len(u) /\ n \in 1..Len(u)
      BY <1>1, <2>2, <3>1 DEF Distinct
    <3>2. CASE m = Len(v) /\ n \in 1..Len(u)
      BY <1>1, <2>1, <2>2, <3>2
    <3>3. CASE n = Len(v) /\ m \in 1..Len(u)
      BY <1>1, <2>1, <2>2, <3>3
    <3> QED BY <1>2, <3>1, <3>2, <3>3
  <2> QED BY <2>2 DEF Distinct
<1> QED BY <1>1, <1>4, <1>5 DEF v

LEMMA PostedTail ==
  ASSUME NEW u \in Seq(CompletionRec), u # <<>>, Distinct(u)
  PROVE  /\ Tail(u) \in Seq(CompletionRec) /\ Distinct(Tail(u)) /\ Head(u) \in CompletionRec
         /\ Head(u).of \in PostedIn(u) /\ PostedIn(Tail(u)) = PostedIn(u) \ {Head(u).of}
<1> DEFINE v == Tail(u)
<1>1. /\ v \in Seq(CompletionRec) /\ Len(u) \in Nat \ {0} /\ Len(v) = Len(u) - 1
      /\ Head(u) = u[1] /\ u[1] \in CompletionRec
      /\ \A n \in 1..Len(v) : n + 1 \in 1..Len(u) /\ v[n] = u[n + 1]
  BY TailElements
<1> HIDE DEF v
<1>2. Distinct(v)
  BY <1>1 DEF Distinct
<1>3. 1 \in 1..Len(u) /\ u[1].of \in PostedIn(u)
  BY <1>1 DEF PostedIn
<1>4. ASSUME NEW i \in PostedIn(v) PROVE i \in PostedIn(u) /\ i # u[1].of
  <2>1. PICK n \in 1..Len(v) : i = v[n].of
    BY <1>4 DEF PostedIn
  <2>2. n + 1 \in 1..Len(u) /\ i = u[n + 1].of /\ n + 1 # 1
    BY <1>1, <2>1
  <2> QED BY <1>3, <2>2 DEF PostedIn, Distinct
<1>5. ASSUME NEW i \in PostedIn(u), i # u[1].of PROVE i \in PostedIn(v)
  <2>1. PICK n \in 1..Len(u) : i = u[n].of
    BY <1>5 DEF PostedIn
  <2>2. n - 1 \in 1..Len(v) /\ n = (n - 1) + 1
    BY <1>1, <1>5, <2>1
  <2>3. v[n - 1] = u[n]
    BY <1>1, <2>2
  <2> QED BY <2>1, <2>2, <2>3 DEF PostedIn
<1> QED BY <1>1, <1>2, <1>3, <1>4, <1>5 DEF v

\* A thread takes an instance, or gives it up.
LEMMA HoldTaken ==
  ASSUME NEW o \in [ServerThreads -> Pipes \cup {0}], OwnHold(o), NEW t \in ServerThreads, o[t] = 0,
         NEW i \in Pipes, i \notin HeldBy(o)
  PROVE  OwnHold([o EXCEPT ![t] = i]) /\ HeldBy([o EXCEPT ![t] = i]) = HeldBy(o) \cup {i}
<1> DEFINE o2 == [o EXCEPT ![t] = i]
<1>1. o2[t] = i /\ \A v \in ServerThreads \ {t} : o2[v] = o[v]
  OBVIOUS
<1> HIDE DEF o2
<1>2. \A v \in ServerThreads : o[v] # i
  BY DEF HeldBy
<1>3. OwnHold(o2)
  BY <1>1, <1>2 DEF OwnHold
<1>4. HeldBy(o2) = HeldBy(o) \cup {i}
  BY <1>1, PipeBasics DEF HeldBy
<1> QED BY <1>3, <1>4 DEF o2

LEMMA HoldLeft ==
  ASSUME NEW o \in [ServerThreads -> Pipes \cup {0}], OwnHold(o), NEW t \in ServerThreads, o[t] \in Pipes
  PROVE  OwnHold([o EXCEPT ![t] = 0]) /\ HeldBy([o EXCEPT ![t] = 0]) = HeldBy(o) \ {o[t]}
<1> DEFINE o2 == [o EXCEPT ![t] = 0]
<1>1. o2[t] = 0 /\ \A v \in ServerThreads \ {t} : o2[v] = o[v]
  OBVIOUS
<1> HIDE DEF o2
<1>2. \A v \in ServerThreads \ {t} : o[v] # o[t]
  BY PipeBasics DEF OwnHold
<1>3. OwnHold(o2)
  BY <1>1 DEF OwnHold
<1>4. HeldBy(o2) = HeldBy(o) \ {o[t]}
  BY <1>1, <1>2, PipeBasics DEF HeldBy
<1> QED BY <1>3, <1>4 DEF o2

\* What of an instance is pending.
LEMMA PendingSet ==
  ASSUME NEW k, NEW i \in Pipes, NEW k2, \A j \in Pipes \ {i} : k2[j].pending = k[j].pending
  PROVE  PendingIn(k2) = IF k2[i].pending = "none" THEN PendingIn(k) \ {i} ELSE PendingIn(k) \cup {i}
BY DEF PendingIn

\* A step of the server changes one instance, and no client.
LEMMA OthersKept ==
  ASSUME PortInv, NEW i \in Pipes, UNCHANGED client, UNCHANGED shutDown,
         \A j \in Pipes \ {i} : pipe'[j] = pipe[j] /\ key'[j] = key[j],
         \A j \in Pipes \ {i} : j \in HeldBy(of') <=> j \in HeldBy(of)
  PROVE  \A j \in Pipes \ {i} : Instance(j)'
<1> SUFFICES ASSUME NEW j \in Pipes \ {i} PROVE Instance(j)'
  OBVIOUS
<1>1. Instance(j)
  BY DEF PortInv
<1>2. pipe'[j] = pipe[j] /\ key'[j] = key[j] /\ (j \in HeldBy(of') <=> j \in HeldBy(of))
  OBVIOUS
<1>3. Talk(pipe', client', j)
  BY <1>1, <1>2 DEF Instance, Talk
<1>4. Steps(pipe'[j], key'[j], j \in HeldBy(of'))
  BY <1>1, <1>2 DEF Instance, Steps
<1> QED BY <1>1, <1>2, <1>3, <1>4 DEF Instance

LEMMA PipesKept ==
  ASSUME NEW p, NEW q, NEW s, PipesTyped(p, q, s), Linked(p, q), NEW i \in Pipes,
         NEW a \in PipeRec, a.state = p[i].state, a.client = p[i].client,
         a.state # "connected" => a.response = <<>>
  PROVE  PipesTyped([p EXCEPT ![i] = a], q, s) /\ Linked([p EXCEPT ![i] = a], q)
<1> DEFINE p2 == [p EXCEPT ![i] = a]
<1>1. p2 \in [Pipes -> PipeRec] /\ p2[i] = a /\ \A j \in Pipes \ {i} : p2[j] = p[j]
  BY DEF PipesTyped
<1> HIDE DEF p2
<1>2. PipesTyped(p2, q, s)
  BY <1>1 DEF PipesTyped
<1>3. Linked(p2, q)
  BY <1>1 DEF Linked
<1> QED BY <1>2, <1>3 DEF p2

\* The unserved instances stay the same.
LEMMA DeadSame ==
  ASSUME Dead(pipe, key, port, of, wk, lost),
         UnservedIn(key', port', of') = UnservedIn(key, port, of), EndedIn(wk') = EndedIn(wk), lost' = lost,
         \A j \in UnservedIn(key, port, of) : pipe'[j].state = pipe[j].state /\ key'[j].npState = key[j].npState
  PROVE  Dead(pipe', key', port', of', wk', lost')
<1>1. LeftIn(key', port', of', lost') = LeftIn(key, port, of, lost)
  BY DEF LeftIn
<1>2. \A j \in LeftIn(key, port, of, lost) : j \in UnservedIn(key, port, of) /\ Forsaken(pipe[j], key[j])
  BY DEF Dead, LeftIn
<1>3. \A j \in LeftIn(key, port, of, lost) : Forsaken(pipe'[j], key'[j])
  BY <1>2 DEF Forsaken
<1> QED BY <1>1, <1>3 DEF Dead

\* A pending operation becomes a completion in the port.
LEMMA OperationPosted ==
  ASSUME PortInv, NEW i \in Pipes, key[i].pending # "none",
         NEW k2, k2[i].pending = "none", \A j \in Pipes \ {i} : k2[j].pending = key[j].pending,
         NEW x \in CompletionRec, x.of = i
  PROVE  /\ Append(port, x) \in Seq(CompletionRec) /\ Apart(k2, Append(port, x), of)
         /\ UnservedIn(k2, Append(port, x), of) = UnservedIn(key, port, of)
<1>1. port \in Seq(CompletionRec) /\ Apart(key, port, of)
  BY DEF PortInv, PortTypes
<1>2. i \in PendingIn(key) /\ i \notin PostedIn(port) /\ i \notin HeldBy(of)
  BY <1>1 DEF Apart, PendingIn
<1>3. PendingIn(k2) = PendingIn(key) \ {i}
  BY PendingSet
<1>4. /\ Append(port, x) \in Seq(CompletionRec) /\ Distinct(Append(port, x))
      /\ PostedIn(Append(port, x)) = PostedIn(port) \cup {i}
  BY <1>1, <1>2, PostedAppend DEF Apart
<1>5. Apart(k2, Append(port, x), of)
  BY <1>1, <1>2, <1>3, <1>4 DEF Apart
<1>6. UnservedIn(k2, Append(port, x), of) = UnservedIn(key, port, of)
  BY <1>2, <1>3, <1>4 DEF UnservedIn
<1> QED BY <1>4, <1>5, <1>6

\* A thread posts a completion of the instance that it held.
LEMMA ThreadPosted ==
  ASSUME PortInv, NEW t \in ServerThreads, NEW i \in Pipes, of[t] = i,
         NEW k2, \A j \in Pipes : k2[j].pending = key[j].pending,
         NEW x \in CompletionRec, x.of = i
  PROVE  /\ Append(port, x) \in Seq(CompletionRec) /\ Apart(k2, Append(port, x), [of EXCEPT ![t] = 0])
         /\ UnservedIn(k2, Append(port, x), [of EXCEPT ![t] = 0]) = UnservedIn(key, port, of)
         /\ HeldBy([of EXCEPT ![t] = 0]) = HeldBy(of) \ {i}
<1>1. /\ port \in Seq(CompletionRec) /\ Apart(key, port, of)
      /\ of \in [ServerThreads -> Pipes \cup {0}]
  BY DEF PortInv, PortTypes
<1>2. i \in HeldBy(of) /\ i \notin PostedIn(port) /\ i \notin PendingIn(key)
  BY <1>1 DEF Apart, HeldBy
<1>3. PendingIn(k2) = PendingIn(key)
  BY DEF PendingIn
<1>4. /\ Append(port, x) \in Seq(CompletionRec) /\ Distinct(Append(port, x))
      /\ PostedIn(Append(port, x)) = PostedIn(port) \cup {i}
  BY <1>1, <1>2, PostedAppend DEF Apart
<1> DEFINE o2 == [of EXCEPT ![t] = 0]
           u2 == Append(port, x)
<1>5. OwnHold(o2) /\ HeldBy(o2) = HeldBy(of) \ {i}
  <2>1. of[t] \in Pipes /\ OwnHold(of)
    BY <1>1 DEF Apart
  <2> QED BY <1>1, <2>1, HoldLeft
<1>6. u2 \in Seq(CompletionRec) /\ Distinct(u2) /\ PostedIn(u2) = PostedIn(port) \cup {i}
  BY <1>4
<1> HIDE DEF o2, u2
<1>7. Apart(k2, u2, o2)
  BY <1>1, <1>2, <1>3, <1>5, <1>6 DEF Apart
<1>8. UnservedIn(k2, u2, o2) = UnservedIn(key, port, of)
  BY <1>2, <1>3, <1>5, <1>6 DEF UnservedIn
<1> QED BY <1>5, <1>6, <1>7, <1>8 DEF o2, u2

\* An operation of an instance completes.
LEMMA CompleteKeeps ==
  ASSUME PortInv, NEW i \in Pipes, Complete(i)
  PROVE  PortInv'
<1>1. /\ UNCHANGED <<client, slot, shutDown, cancelled, wk, of, lost>> /\ key[i].pending # "none"
      /\ \E result \in {"done", "failed"} : Completes(i, result)
      /\ key[i].pending = "connect" => InUse(i)
  BY DEF Complete, Arrives, Keep
<1>2. PICK result \in {"done", "failed"} : Completes(i, result)
  BY <1>1
<1> DEFINE x == Completion(i, result)
<1>3. x \in CompletionRec /\ x.of = i /\ port' = Append(port, x)
  BY <1>2 DEF Completes, Completion, CompletionRec
<1> HIDE DEF x
<1>4. /\ key \in [Pipes -> KeyRec] /\ key[i] \in KeyRec /\ pipe \in [Pipes -> PipeRec] /\ pipe[i] \in PipeRec
      /\ PipesTyped(pipe, client, slot) /\ Linked(pipe, client) /\ Instance(i) /\ PortTypes
  BY DEF PortInv, PortTypes, PipesTyped
<1>5. CASE Arrives(i)
  <2> DEFINE r == Head(pipe[i].request)
             k == [key[i] EXCEPT !.pending = "none", !.request = r]
             a == [pipe[i] EXCEPT !.request = Tail(@)]
  <2>1. /\ pipe[i].request \in Seq(RequestRec) /\ pipe[i].request # <<>> /\ key[i].pending = "read"
        /\ key[i].npState = "requestRead" /\ Len(pipe[i].request) <= 1
    BY <1>4, <1>5 DEF Arrives, PipeRec, Instance, Steps
  <2>2. r \in RequestRec /\ Tail(pipe[i].request) = <<>> /\ r = pipe[i].request[1] /\ 1 \in 1..Len(pipe[i].request)
    BY <2>1, TailElements
  <2>3. key' = [key EXCEPT ![i] = k] /\ pipe' = [pipe EXCEPT ![i] = a]
    BY <1>2, <1>4, <1>5 DEF Completes
  <2>4. /\ k \in KeyRec /\ k.pending = "none" /\ k.npState = "requestRead" /\ k.request = r /\ k.tmp = key[i].tmp
    BY <1>4, <2>1, <2>2 DEF KeyRec
  <2>5. /\ a \in PipeRec /\ a.state = pipe[i].state /\ a.client = pipe[i].client /\ a.request = <<>>
        /\ a.response = pipe[i].response
    <3>1. a = [pipe[i] EXCEPT !.request = <<>>]
      BY <2>2
    <3>2. <<>> \in Seq(RequestRec)
      BY EmptySeq
    <3> HIDE DEF a
    <3> QED BY <1>4, <3>1, <3>2 DEF PipeRec
  <2> HIDE DEF r, k, a
  <2>6. /\ key' \in [Pipes -> KeyRec] /\ key'[i] = k /\ \A j \in Pipes \ {i} : key'[j] = key[j]
        /\ pipe'[i] = a /\ \A j \in Pipes \ {i} : pipe'[j] = pipe[j]
    BY <1>4, <2>3, <2>4
  <2>7. port' \in Seq(CompletionRec) /\ Apart(key', port', of) /\ UnservedIn(key', port', of) = UnservedIn(key, port, of)
    BY <1>1, <1>3, <2>4, <2>6, OperationPosted
  <2>8. PipesTyped(pipe', client, slot) /\ Linked(pipe', client)
    <3>1. a.state # "connected" => a.response = <<>>
      BY <1>4, <2>5 DEF PipesTyped
    <3> QED BY <1>4, <2>3, <2>5, <3>1, PipesKept
  <2>9. PortTypes'
    BY <1>1, <1>4, <2>6, <2>7 DEF PortTypes
  <2>10. ~shutDown => Dead(pipe', key', port', of', wk', lost')
    <3>1. i \notin UnservedIn(key, port, of)
      BY <1>1 DEF UnservedIn, PendingIn
    <3>2. \A j \in UnservedIn(key, port, of) : pipe'[j].state = pipe[j].state /\ key'[j].npState = key[j].npState
      BY <2>6, <3>1 DEF UnservedIn
    <3> QED BY <1>1, <2>7, <3>2, DeadSame DEF PortInv
  <2>11. \A j \in Pipes \ {i} : Instance(j)'
    BY <1>1, <2>6, OthersKept
  <2>12. Instance(i)'
    <3>1. i \notin HeldBy(of)
      BY <1>1 DEF PortInv, Apart, PendingIn
    <3>2. Steps(a, k, i \in HeldBy(of'))
      BY <1>1, <1>4, <2>1, <2>4, <2>5, <3>1 DEF Instance, Steps
    <3>3. Talk(pipe', client, i)
      BY <1>4, <2>5, <2>6 DEF Instance, Talk
    <3>4. ~shutDown => Waits(a, k)
      BY <1>4, <2>1, <2>5 DEF Instance, Steps, Waits
    <3>5. Works(a, k, client)
      <4> SUFFICES ASSUME a.state = "connected" PROVE Works(a, k, client)
        BY DEF Works
      <4>1. pipe[i].state = "connected" /\ client[pipe[i].client].pc \in {"prompt", "read"}
        BY <1>4, <2>5 DEF Linked
      <4>2. /\ client[pipe[i].client].pc = "read" /\ pipe[i].response = <<>>
            /\ Own(r, pipe[i].client, client)
        BY <1>4, <2>1, <2>2, <4>1 DEF Instance, Talk
      <4>3. ~Idle(k)
        BY <2>4 DEF Idle
      <4> QED BY <2>4, <2>5, <4>2, <4>3 DEF Works
    <3> QED BY <1>1, <2>6, <3>2, <3>3, <3>4, <3>5 DEF Instance
  <2> QED BY <1>1, <2>7, <2>8, <2>9, <2>10, <2>11, <2>12 DEF PortInv
<1>6. CASE ~Arrives(i)
  <2> DEFINE k == [key[i] EXCEPT !.pending = "none"]
  <2>1. /\ k \in KeyRec /\ k.pending = "none" /\ k.npState = key[i].npState /\ k.request = key[i].request
        /\ k.tmp = key[i].tmp
    BY <1>4 DEF KeyRec
  <2>2. key' = [key EXCEPT ![i] = k] /\ pipe' = pipe
    <3>1. key' = [key EXCEPT ![i].pending = "none", ![i].request = key[i].request] /\ pipe' = pipe
      BY <1>2, <1>6 DEF Completes
    <3>2. k = [key[i] EXCEPT !.pending = "none", !.request = key[i].request]
      BY <1>4 DEF KeyRec
    <3> QED BY <3>1, <3>2, <1>4
  <2> HIDE DEF k
  <2>3. key' \in [Pipes -> KeyRec] /\ key'[i] = k /\ \A j \in Pipes \ {i} : key'[j] = key[j]
    BY <1>4, <2>1, <2>2
  <2>4. port' \in Seq(CompletionRec) /\ Apart(key', port', of) /\ UnservedIn(key', port', of) = UnservedIn(key, port, of)
    BY <1>1, <1>3, <2>1, <2>3, OperationPosted
  <2>5. PortTypes'
    BY <1>1, <1>4, <2>3, <2>4 DEF PortTypes
  <2>6. ~shutDown => Dead(pipe', key', port', of', wk', lost')
    <3>1. \A j \in UnservedIn(key, port, of) : pipe'[j].state = pipe[j].state /\ key'[j].npState = key[j].npState
      BY <2>1, <2>2, <2>3 DEF UnservedIn
    <3> QED BY <1>1, <2>4, <3>1, DeadSame DEF PortInv
  <2>7. \A j \in Pipes \ {i} : Instance(j)'
    BY <1>1, <2>2, <2>3, OthersKept
  <2>8. Instance(i)'
    <3>1. i \notin HeldBy(of)
      BY <1>1 DEF PortInv, Apart, PendingIn
    <3>2. Steps(pipe[i], k, i \in HeldBy(of'))
      BY <1>1, <1>4, <2>1, <3>1 DEF Instance, Steps
    <3>3. Waits(pipe[i], key[i]) => Waits(pipe[i], k)
      BY <1>1 DEF Waits, InUse
    <3>4. Works(pipe[i], key[i], client) => Works(pipe[i], k, client)
      <4>1. CASE key[i].pending = "read"
        <5>1. pipe[i].state # "connected"
          BY <1>6, <4>1 DEF Complete, Arrives, Alive
        <5> QED BY <5>1 DEF Works
      <4>2. CASE key[i].pending # "read"
        <5>1. Idle(k) <=> Idle(key[i])
          BY <1>4, <2>1, <4>2 DEF Idle
        <5> QED BY <2>1, <5>1 DEF Works
      <4> QED BY <4>1, <4>2
    <3> QED BY <1>1, <1>4, <2>2, <2>3, <3>2, <3>3, <3>4 DEF Instance
  <2> QED BY <1>1, <1>4, <2>2, <2>4, <2>5, <2>6, <2>7, <2>8 DEF PortInv
<1> QED BY <1>5, <1>6

\* What a step of an instance that has a completion in the port comes to: an
\* operation, a thread at work, a completion, or no more service.
ServedAs(i, s, a) ==
  /\ s.key \in KeyRec /\ a \in PipeRec /\ a.state = pipe[i].state /\ a.client = pipe[i].client
  /\ a.state # "listening" /\ (a.state # "connected" => a.response = <<>>)
  /\ (IF s.sent = <<>> THEN pipe ELSE Sent(i, s.sent)) = [pipe EXCEPT ![i] = a]
  /\ s.lost \in BOOLEAN /\ (s.lost => s.key.pending = "none" /\ s.thread = "wait" /\ s.posts = <<>>)
  /\ \/ s.key.pending # "none" /\ s.thread = "wait" /\ s.posts = <<>>
     \/ s.key.pending = "none" /\ s.thread = "compute" /\ s.posts = <<>>
     \/ s.key.pending = "none" /\ s.thread = "wait" /\ s.posts = <<Completion(i, "done")>>
     \/ s.key.pending = "none" /\ s.thread = "ended" /\ s.posts = <<>> /\ Forsaken(a, s.key)
     \/ s.key.pending = "none" /\ s.thread = "wait" /\ s.posts = <<>> /\ s.lost
  /\ Steps(a, s.key, s.thread = "compute") /\ Talk([pipe EXCEPT ![i] = a], client, i) /\ Works(a, s.key, client)

\* An instance with a completion in the port, before a shut down.
LEMMA PostedInstance ==
  ASSUME PortInv, ~shutDown, NEW i \in Pipes, i \in PostedIn(port)
  PROVE  /\ pipe \in [Pipes -> PipeRec] /\ pipe[i] \in PipeRec /\ key[i] \in KeyRec
         /\ key[i].pending = "none" /\ i \notin HeldBy(of)
         /\ pipe[i].state \in {"connected", "closing"}
         /\ pipe[i].state # "connected" => pipe[i].response = <<>>
         /\ Steps(pipe[i], key[i], FALSE) /\ Talk(pipe, client, i) /\ Works(pipe[i], key[i], client)
<1>1. pipe \in [Pipes -> PipeRec] /\ pipe[i] \in PipeRec /\ key[i] \in KeyRec /\ Instance(i)
  BY DEF PortInv, PipesTyped, PortTypes
<1>2. key[i].pending = "none" /\ i \notin HeldBy(of)
  BY DEF PortInv, Apart, PendingIn
<1>3. Steps(pipe[i], key[i], FALSE) /\ Talk(pipe, client, i) /\ Works(pipe[i], key[i], client)
  BY <1>1, <1>2 DEF Instance, Steps
<1>4. pipe[i].state \in {"connected", "closing"}
  BY <1>1, <1>2, <1>3 DEF Instance, Waits, Steps, PipeRec
<1>5. pipe[i].state # "connected" => pipe[i].response = <<>>
  BY DEF PortInv, PipesTyped
<1> QED BY <1>1, <1>2, <1>3, <1>4, <1>5

\* A step that writes nothing leaves the instance of the pipe as it is.
LEMMA NothingSent ==
  ASSUME PortInv, NEW i \in Pipes
  PROVE  [pipe EXCEPT ![i] = pipe[i]] = pipe
BY DEF PortInv, PipesTyped

\* A step of the server in npState "connected": it reads the next request.
LEMMA ServeConnected ==
  ASSUME PortInv, ~shutDown, NEW i \in Pipes, i \in PostedIn(port), key[i].npState = "connected",
         NEW s, s = Connected(i, key[i])
  PROVE  \E a : ServedAs(i, s, a)
<1> DEFINE k == key[i]
           can == Alive(i) \/ pipe[i].request # <<>>
           k1 == [k EXCEPT !.npState = "requestRead", !.request = NoRequest]
           k2 == [k1 EXCEPT !.pending = "read"]
<1>1. s = Issues(k1, "read", can)
  BY DEF Connected
<1>2. NoRequest \in RequestRec
  BY DEF NoRequest, Request, RequestRec, NoClient
<1>3. /\ k1 \in KeyRec /\ k1.npState = "requestRead" /\ k1.pending = "none" /\ Len(k1.tmp) <= 1
      /\ k2 \in KeyRec /\ k2.npState = "requestRead" /\ k2.pending = "read" /\ Len(k2.tmp) <= 1
  BY <1>2, PostedInstance DEF KeyRec, NpStates, Steps
<1> HIDE DEF k1, k2
<1>4. s.sent = <<>> /\ s.posts = <<>> /\ s.key = (IF can THEN k2 ELSE k1) /\ s.thread = (IF can THEN "wait" ELSE "ended")
      /\ s.lost = FALSE
  BY <1>1 DEF Issues, k2
<1> HIDE DEF can
<1>5. Steps(pipe[i], s.key, s.thread = "compute")
  BY <1>3, <1>4, PostedInstance DEF Steps
<1>6. Works(pipe[i], s.key, client)
  <2>1. CASE can
    BY <1>3, <1>4, <2>1, PostedInstance DEF Works, Idle
  <2>2. CASE ~can
    BY <2>2 DEF Works, can, Alive
  <2> QED BY <2>1, <2>2
<1>7. ~can => pipe[i].state = "closing"
  BY PostedInstance DEF can, Alive
<1>8. ServedAs(i, s, pipe[i])
  BY <1>3, <1>4, <1>5, <1>6, <1>7, PostedInstance, NothingSent DEF ServedAs, Forsaken
<1> QED BY <1>8

\* A request has been read: a thread computes its output, or cannot be made.
LEMMA ServeRequestRead ==
  ASSUME PortInv, ~shutDown, NEW i \in Pipes, i \in PostedIn(port), key[i].npState = "requestRead",
         NEW s, s = RequestRead(key[i]) \/ s = NotComputed(key[i])
  PROVE  \E a : ServedAs(i, s, a)
<1>1. /\ s.key = key[i] /\ s.sent = <<>> /\ s.posts = <<>> /\ s.lost \in BOOLEAN
      /\ (s.thread = "compute" /\ s.lost = FALSE) \/ (s.thread = "wait" /\ s.lost = TRUE)
  <2>1. CASE s = RequestRead(key[i])
    BY <2>1 DEF RequestRead
  <2>2. CASE s = NotComputed(key[i])
    BY <2>2 DEF RequestRead, NotComputed
  <2> QED BY <2>1, <2>2
<1>2. Steps(pipe[i], s.key, s.thread = "compute")
  BY <1>1, PostedInstance DEF Steps
<1>3. ServedAs(i, s, pipe[i])
  BY <1>1, <1>2, PostedInstance, NothingSent DEF ServedAs
<1> QED BY <1>3

\* The temporary file cannot be opened.
LEMMA ServeNotOpened ==
  ASSUME PortInv, ~shutDown, NEW i \in Pipes, i \in PostedIn(port), key[i].npState = "computed",
         NEW s, s = NotOpened(key[i])
  PROVE  \E a : ServedAs(i, s, a)
<1>1. s.key = key[i] /\ s.sent = <<>> /\ s.posts = <<>> /\ s.lost = FALSE /\ s.thread = "ended"
  BY DEF RequestRead, NotOpened
<1>2. Steps(pipe[i], s.key, s.thread = "compute")
  BY <1>1, PostedInstance DEF Steps
<1>3. ServedAs(i, s, pipe[i])
  BY <1>1, <1>2, PostedInstance, NothingSent DEF ServedAs, Forsaken
<1> QED BY <1>3

\* The temporary file is at its end, or the client has gone.
LEMMA ServeNoLine ==
  ASSUME PortInv, ~shutDown, NEW i \in Pipes, i \in PostedIn(port),
         key[i].npState \in {"computed", "responding"}, key[i].tmp = <<>>,
         NEW s, s = Responds(i, key[i])
  PROVE  \E a : ServedAs(i, s, a)
<1> DEFINE k == [key[i] EXCEPT !.npState = "respondLast"]
<1>1. s = Posts(i, k)
  BY DEF Responds
<1>2. /\ k \in KeyRec /\ k.npState = "respondLast" /\ k.pending = "none" /\ k.tmp = key[i].tmp
      /\ k.request = key[i].request
  BY PostedInstance DEF KeyRec, NpStates
<1> HIDE DEF k
<1>3. s.key = k /\ s.thread = "wait" /\ s.sent = <<>> /\ s.posts = <<Completion(i, "done")>>
      /\ s.lost = FALSE
  BY <1>1 DEF Posts
<1>4. Steps(pipe[i], s.key, s.thread = "compute")
  BY <1>2, <1>3, PostedInstance DEF Steps
<1>5. Works(pipe[i], s.key, client)
  BY <1>2, <1>3, PostedInstance DEF Works, Idle
<1>6. ServedAs(i, s, pipe[i])
  BY <1>2, <1>3, <1>4, <1>5, PostedInstance, NothingSent DEF ServedAs
<1> QED BY <1>6

\* A message of the request in hand is added to what the client has not read.
WithMessage(i, m) == [pipe[i] EXCEPT !.response = @ \o <<m>>]
LEMMA MessageSent ==
  ASSUME PortInv, ~shutDown, NEW i \in Pipes, i \in PostedIn(port),
         key[i].npState \in {"computed", "responding", "respondLast"},
         NEW m \in MessageRec, m.of = key[i].request, NEW k \in KeyRec,
         Alive(i),
         Idle(k) => Ends(m), Ends(m) => Idle(k), ~Idle(k) => k.request = key[i].request,
         NEW a, a = WithMessage(i, m)
  PROVE  /\ a \in PipeRec /\ a.state = "connected" /\ a.client = pipe[i].client /\ a.request = <<>>
         /\ Sent(i, <<m>>) = [pipe EXCEPT ![i] = a]
         /\ Talk([pipe EXCEPT ![i] = a], client, i) /\ Works(a, k, client)
<1>1. /\ pipe \in [Pipes -> PipeRec] /\ pipe[i] \in PipeRec /\ pipe[i].state = "connected"
      /\ pipe[i].response \in Seq(MessageRec)
  BY PostedInstance DEF Alive, PipeRec
<1> DEFINE old == pipe[i].response
           new == old \o <<m>>
           c == pipe[i].client
<1>2. ~Idle(key[i])
  BY PostedInstance DEF Idle
<1>3. client[c].pc = "read" /\ pipe[i].request = <<>> /\ Own(m.of, c, client) /\ \A n \in 1..Len(old) : ~Ends(old[n])
  BY <1>1, <1>2, PostedInstance DEF Works
<1>4. \A n \in 1..Len(old) : Own(old[n].of, c, client)
  BY <1>1, PostedInstance DEF Talk
<1>5. /\ new \in Seq(MessageRec) /\ Len(old) \in Nat /\ Len(new) = Len(old) + 1 /\ new[Len(new)] = m
      /\ \A n \in 1..Len(old) : new[n] = old[n]
  BY <1>1
<1>6. /\ a \in PipeRec /\ a.state = "connected" /\ a.client = c /\ a.request = <<>> /\ a.response = new
  BY <1>1, <1>3, <1>5 DEF PipeRec, WithMessage
<1>7. Sent(i, <<m>>) = [pipe EXCEPT ![i] = a]
  BY <1>1 DEF Sent, WithMessage
<1> HIDE DEF new, old, c
<1>8. \A n \in 1..Len(new) : n \in 1..Len(old) \/ n = Len(new)
  BY <1>5
<1>9. \A n \in 1..Len(new) : Own(new[n].of, c, client) /\ (Ends(new[n]) => n = Len(new))
  BY <1>3, <1>4, <1>5, <1>8
<1> DEFINE p2 == [pipe EXCEPT ![i] = a]
<1>10. p2[i] = a
  BY <1>1
<1> HIDE DEF p2
<1>11. Talk(p2, client, i)
  BY <1>3, <1>6, <1>9, <1>10 DEF Talk, c
<1>12. Works(a, k, client)
  <2>1. CASE Idle(k)
    BY <1>5, <1>6, <2>1 DEF Works
  <2>2. CASE ~Idle(k)
    <3>1. \A n \in 1..Len(new) : ~Ends(new[n])
      BY <1>3, <1>5, <1>8, <2>2
    <3>2. Own(k.request, c, client)
      BY <1>3, <2>2
    <3> QED BY <1>3, <1>6, <2>2, <3>1, <3>2 DEF Works
  <2> QED BY <2>1, <2>2
<1> QED BY <1>6, <1>7, <1>11, <1>12 DEF p2, c

\* A line of the output is written.
LEMMA ServeLine ==
  ASSUME PortInv, ~shutDown, NEW i \in Pipes, i \in PostedIn(port),
         key[i].npState \in {"computed", "responding"}, key[i].tmp # <<>>,
         NEW s, s = Responds(i, key[i])
  PROVE  \E a : ServedAs(i, s, a)
<1> DEFINE m == Line(Head(key[i].tmp))
           k1 == [key[i] EXCEPT !.npState = "responding", !.tmp = Tail(@)]
           k2 == [k1 EXCEPT !.pending = "write"]
<1>1. s = Writes(i, k1, m)
  BY DEF Responds
<1>2. /\ key[i] \in KeyRec /\ key[i].tmp \in Seq(RequestRec) /\ Len(key[i].tmp) <= 1 /\ key[i].request \in RequestRec
      /\ \A n \in 1..Len(key[i].tmp) : key[i].tmp[n] = key[i].request
  BY PostedInstance DEF KeyRec, Steps
<1>3. Head(key[i].tmp) = key[i].request /\ Tail(key[i].tmp) = <<>>
  BY <1>2, TailElements
<1>4. m \in MessageRec /\ m.of = key[i].request /\ ~Ends(m)
  BY <1>2, <1>3 DEF Line, LineLength, MessageRec, Ends
<1>5. /\ k1 \in KeyRec /\ k1.npState = "responding" /\ k1.pending = "none" /\ k1.tmp = <<>> /\ k1.request = key[i].request
      /\ k2 \in KeyRec /\ k2.npState = "responding" /\ k2.pending = "write" /\ k2.tmp = <<>> /\ k2.request = key[i].request
  <2> DEFINE v == Tail(key[i].tmp)
  <2>1. v \in Seq(RequestRec) /\ v = <<>>
    BY <1>3, EmptySeq
  <2> HIDE DEF v
  <2>2. /\ k1 \in KeyRec /\ k1.npState = "responding" /\ k1.pending = "none" /\ k1.tmp = v
        /\ k1.request = key[i].request
    BY <1>2, <2>1, PostedInstance DEF KeyRec, NpStates, v
  <2> HIDE DEF k1
  <2>3. /\ k2 \in KeyRec /\ k2.npState = "responding" /\ k2.pending = "write" /\ k2.tmp = v
        /\ k2.request = key[i].request
    BY <2>2 DEF KeyRec, NpStates
  <2> QED BY <2>1, <2>2, <2>3
<1> HIDE DEF m, k1, k2
<1>6. /\ s.sent = <<m>> /\ s.posts = <<>>
      /\ s.key = (IF Alive(i) THEN k2 ELSE k1) /\ s.thread = (IF Alive(i) THEN "wait" ELSE "ended")
      /\ s.lost = FALSE
  BY <1>1 DEF Writes, Issues, k2
<1>7. CASE Alive(i)
  <2> DEFINE a == WithMessage(i, m)
  <2>1. s.key = k2 /\ s.thread = "wait" /\ ~Idle(k2)
    BY <1>5, <1>6, <1>7 DEF Idle
  <2>h. /\ a = WithMessage(i, m) /\ m \in MessageRec /\ m.of = key[i].request
        /\ k2 \in KeyRec /\ Alive(i) /\ (Idle(k2) => Ends(m)) /\ (Ends(m) => Idle(k2)) /\ (~Idle(k2) => k2.request = key[i].request)
        /\ key[i].npState \in {"computed", "responding", "respondLast"}
    BY <1>4, <1>5, <1>7, <2>1
  <2> HIDE DEF a
  <2>2. /\ a \in PipeRec /\ a.state = "connected" /\ a.client = pipe[i].client /\ a.request = <<>>
        /\ Sent(i, <<m>>) = [pipe EXCEPT ![i] = a]
        /\ Talk([pipe EXCEPT ![i] = a], client, i) /\ Works(a, k2, client)
    BY <2>h, MessageSent
  <2>3. Steps(a, k2, FALSE)
    BY <1>5, <2>2 DEF Steps
  <2>4. s.sent # <<>> /\ pipe[i].state = "connected"
    BY <1>6, <1>7 DEF Alive
  <2>5. ServedAs(i, s, a)
    BY <1>5, <1>6, <2>1, <2>2, <2>3, <2>4 DEF ServedAs, Steps
  <2> QED BY <2>5
<1>8. CASE ~Alive(i)
  <2>1. s.key = k1 /\ s.thread = "ended" /\ s.sent # <<>>
    BY <1>6, <1>8
  <2>2. pipe[i].state = "closing" /\ Sent(i, s.sent) = pipe
    BY <1>8, PostedInstance DEF Alive, Sent
  <2>3. Steps(pipe[i], k1, FALSE) /\ Works(pipe[i], k1, client)
    BY <1>5, <2>2, PostedInstance DEF Steps, Works
  <2>4. ServedAs(i, s, pipe[i])
    <3>1. /\ pipe[i] \in PipeRec /\ pipe[i].state # "listening" /\ (pipe[i].state # "connected" => pipe[i].response = <<>>)
          /\ Talk([pipe EXCEPT ![i] = pipe[i]], client, i) /\ [pipe EXCEPT ![i] = pipe[i]] = pipe
      BY PostedInstance, NothingSent
    <3>2. Steps(pipe[i], s.key, s.thread = "compute") /\ Works(pipe[i], s.key, client) /\ Forsaken(pipe[i], s.key)
      BY <2>1, <2>2, <2>3 DEF Steps, Forsaken
    <3> QED BY <1>5, <1>6, <2>1, <2>2, <3>1, <3>2 DEF ServedAs
  <2> QED BY <2>4
<1> QED BY <1>7, <1>8

\* The end of the answer is written.
LEMMA ServeRespondLast ==
  ASSUME PortInv, ~shutDown, NEW i \in Pipes, i \in PostedIn(port), key[i].npState = "respondLast",
         NEW s, s = RespondLast(i, key[i])
  PROVE  \E a : ServedAs(i, s, a)
<1> DEFINE m == Last(key[i].request)
           k1 == [key[i] EXCEPT !.npState = "connected"]
           k2 == [k1 EXCEPT !.pending = "write"]
<1>1. s = Writes(i, k1, m)
  BY DEF RespondLast
<1>2. key[i] \in KeyRec /\ Len(key[i].tmp) <= 1 /\ key[i].request \in RequestRec
  BY PostedInstance DEF KeyRec, Steps
<1>3. m \in MessageRec /\ m.of = key[i].request /\ Ends(m)
  BY <1>2 DEF Last, MessageRec, Ends
<1>4. /\ k1 \in KeyRec /\ k1.npState = "connected" /\ k1.pending = "none" /\ k1.tmp = key[i].tmp
      /\ k2 \in KeyRec /\ k2.npState = "connected" /\ k2.pending = "write" /\ k2.tmp = key[i].tmp
  BY <1>2, PostedInstance DEF KeyRec, NpStates
<1> HIDE DEF m, k1, k2
<1>5. /\ s.sent = <<m>> /\ s.posts = <<>>
      /\ s.key = (IF Alive(i) THEN k2 ELSE k1) /\ s.thread = (IF Alive(i) THEN "wait" ELSE "ended")
      /\ s.lost = FALSE
  BY <1>1 DEF Writes, Issues, k2
<1>6. CASE Alive(i)
  <2> DEFINE a == WithMessage(i, m)
  <2>1. s.key = k2 /\ s.thread = "wait" /\ Idle(k2)
    BY <1>4, <1>5, <1>6 DEF Idle
  <2>h. /\ a = WithMessage(i, m) /\ m \in MessageRec /\ m.of = key[i].request
        /\ k2 \in KeyRec /\ Alive(i) /\ (Idle(k2) => Ends(m)) /\ (Ends(m) => Idle(k2)) /\ (~Idle(k2) => k2.request = key[i].request)
        /\ key[i].npState \in {"computed", "responding", "respondLast"}
    BY <1>3, <1>4, <1>6, <2>1
  <2> HIDE DEF a
  <2>2. /\ a \in PipeRec /\ a.state = "connected" /\ a.client = pipe[i].client /\ a.request = <<>>
        /\ Sent(i, <<m>>) = [pipe EXCEPT ![i] = a]
        /\ Talk([pipe EXCEPT ![i] = a], client, i) /\ Works(a, k2, client)
    BY <2>h, MessageSent
  <2>3. Steps(a, k2, FALSE)
    BY <1>2, <1>4, <2>2 DEF Steps
  <2>4. s.sent # <<>> /\ pipe[i].state = "connected"
    BY <1>5, <1>6 DEF Alive
  <2>5. ServedAs(i, s, a)
    BY <1>4, <1>5, <2>1, <2>2, <2>3, <2>4 DEF ServedAs, Steps
  <2> QED BY <2>5
<1>7. CASE ~Alive(i)
  <2>1. s.key = k1 /\ s.thread = "ended" /\ s.sent # <<>>
    BY <1>5, <1>7
  <2>2. pipe[i].state = "closing" /\ Sent(i, s.sent) = pipe
    BY <1>7, PostedInstance DEF Alive, Sent
  <2>3. Steps(pipe[i], k1, FALSE) /\ Works(pipe[i], k1, client)
    BY <1>2, <1>4, <2>2, PostedInstance DEF Steps, Works
  <2>4. ServedAs(i, s, pipe[i])
    BY <1>4, <1>5, <2>1, <2>2, <2>3, PostedInstance, NothingSent DEF ServedAs, Steps, Forsaken
  <2> QED BY <2>4
<1> QED BY <1>6, <1>7

\* Whatever the npState, the instance stays right.
LEMMA ServeOne ==
  ASSUME PortInv, ~shutDown, NEW i \in Pipes, i \in PostedIn(port), NEW s \in StepsOf(i, key[i])
  PROVE  \E a : ServedAs(i, s, a)
<1>1. key[i].npState \in NpStates
  BY PostedInstance DEF KeyRec
<1>2. CASE key[i].npState = "connected"
  BY <1>2, ServeConnected DEF StepsOf
<1>3. CASE key[i].npState = "requestRead"
  BY <1>3, ServeRequestRead DEF StepsOf
<1>4. CASE key[i].npState \in {"computed", "responding"}
  <2>1. s = Responds(i, key[i]) \/ (key[i].npState = "computed" /\ s = NotOpened(key[i]))
    BY <1>4 DEF StepsOf
  <2> QED BY <1>4, <2>1, ServeNoLine, ServeLine, ServeNotOpened
<1>5. CASE key[i].npState = "respondLast"
  BY <1>5, ServeRespondLast DEF StepsOf
<1> QED BY <1>1, <1>2, <1>3, <1>4, <1>5 DEF NpStates

\* The completion that a thread takes from the port.
LEMMA HeadTaken ==
  ASSUME PortInv, port # <<>>
  PROVE  /\ Head(port).of \in Pipes /\ Head(port).of \in PostedIn(port)
         /\ Head(port).of \notin PendingIn(key) /\ Head(port).of \notin HeldBy(of)
         /\ Tail(port) \in Seq(CompletionRec) /\ Distinct(Tail(port))
         /\ PostedIn(Tail(port)) = PostedIn(port) \ {Head(port).of}
<1>1. port \in Seq(CompletionRec) /\ Apart(key, port, of)
  BY DEF PortInv, PortTypes
<1>2. /\ Tail(port) \in Seq(CompletionRec) /\ Distinct(Tail(port)) /\ Head(port) \in CompletionRec
      /\ Head(port).of \in PostedIn(port) /\ PostedIn(Tail(port)) = PostedIn(port) \ {Head(port).of}
  BY <1>1, PostedTail DEF Apart
<1>3. Head(port).of \in Pipes
  BY <1>2 DEF CompletionRec
<1> QED BY <1>1, <1>2, <1>3 DEF Apart

\* The sets that are counted are finite.
LEMMA FiniteParts ==
  ASSUME NEW k, NEW u, NEW o, NEW w
  PROVE  IsFiniteSet(EndedIn(w)) /\ \A l : IsFiniteSet(LeftIn(k, u, o, l))
<1>1. IsFiniteSet(EndedIn(w))
  BY ThreadsAssumption, FS_Subset DEF EndedIn
<1>2. IsFiniteSet(Pipes)
  BY PipeBasics, FS_Interval
<1> QED BY <1>1, <1>2, FS_Subset DEF UnservedIn, LeftIn

\* A thread that takes a completion carries out the next step of the instance.
LEMMA ServeKeeps ==
  ASSUME PortInv, NEW t \in ServerThreads, Serve(t)
  PROVE  PortInv'
<1>0. port # <<>>
  BY DEF Serve
<1>i. PICK i \in Pipes : i = Head(port).of
  BY <1>0, HeadTaken
<1>s. PICK s \in StepsOf(i, key[i]) :
        /\ key' = [key EXCEPT ![i] = s.key] /\ port' = Tail(port) \o s.posts
        /\ pipe' = (IF s.sent = <<>> THEN pipe ELSE Sent(i, s.sent))
        /\ wk' = [wk EXCEPT ![t] = s.thread]
        /\ of' = [of EXCEPT ![t] = IF s.thread = "compute" THEN i ELSE 0]
        /\ lost' = IF s.lost THEN lost \cup {i} ELSE lost
  BY <1>i DEF Serve
<1> DEFINE rest == Tail(port)
<1>1. /\ wk[t] = "wait" /\ port # <<>> /\ ~shutDown
      /\ key' = [key EXCEPT ![i] = s.key] /\ port' = rest \o s.posts
      /\ pipe' = (IF s.sent = <<>> THEN pipe ELSE Sent(i, s.sent))
      /\ wk' = [wk EXCEPT ![t] = s.thread]
      /\ of' = [of EXCEPT ![t] = IF s.thread = "compute" THEN i ELSE 0]
      /\ lost' = (IF s.lost THEN lost \cup {i} ELSE lost)
      /\ UNCHANGED <<client, slot, shutDown, cancelled>>
  BY <1>s DEF Serve, Keep
<1>2. /\ i \in Pipes /\ i \in PostedIn(port) /\ i \notin PendingIn(key) /\ i \notin HeldBy(of)
      /\ rest \in Seq(CompletionRec) /\ Distinct(rest) /\ PostedIn(rest) = PostedIn(port) \ {i}
  BY <1>1, <1>i, HeadTaken
<1> HIDE DEF rest
<1>3. PICK a : ServedAs(i, s, a)
  BY <1>1, <1>2, ServeOne
<1>4. /\ key \in [Pipes -> KeyRec] /\ pipe \in [Pipes -> PipeRec] /\ PortTypes
      /\ PipesTyped(pipe, client, slot) /\ Linked(pipe, client) /\ Dead(pipe, key, port, of, wk, lost)
      /\ Apart(key, port, of)
      /\ wk \in [ServerThreads -> {"wait", "compute", "ended"}] /\ of \in [ServerThreads -> Pipes \cup {0}]
      /\ of[t] = 0
  BY <1>1 DEF PortInv, PortTypes, PipesTyped
<1>5. /\ key' \in [Pipes -> KeyRec] /\ key'[i] = s.key /\ \A j \in Pipes \ {i} : key'[j] = key[j]
      /\ pipe' = [pipe EXCEPT ![i] = a] /\ pipe'[i] = a /\ \A j \in Pipes \ {i} : pipe'[j] = pipe[j]
      /\ \A j \in UnservedIn(key, port, of) : pipe'[j].state = pipe[j].state /\ key'[j].npState = key[j].npState
  BY <1>1, <1>2, <1>3, <1>4 DEF ServedAs, UnservedIn
<1>l. ~s.lost => lost' = lost
  BY <1>1
<1>6. PipesTyped(pipe', client', slot') /\ Linked(pipe', client')
  BY <1>1, <1>2, <1>3, <1>4, <1>5, PipesKept DEF ServedAs
<1>7. PendingIn(key') = IF s.key.pending = "none" THEN PendingIn(key) ELSE PendingIn(key) \cup {i}
  BY <1>2, <1>4, <1>5 DEF PendingIn
<1>8. [of EXCEPT ![t] = 0] = of
  BY <1>4
<1> DEFINE Good ==
      /\ port' \in Seq(CompletionRec) /\ Apart(key', port', of') /\ Dead(pipe', key', port', of', wk', lost')
      /\ of' \in [ServerThreads -> Pipes \cup {0}] /\ wk' \in [ServerThreads -> {"wait", "compute", "ended"}]
      /\ (of'[t] # 0 <=> wk'[t] = "compute")
      /\ HeldBy(of') = IF s.thread = "compute" THEN HeldBy(of) \cup {i} ELSE HeldBy(of)
<1>9. ASSUME s.key.pending # "none" /\ s.thread = "wait" /\ s.posts = <<>>, ~s.lost PROVE Good
  <2>1. port' = rest /\ of' = of /\ EndedIn(wk') = EndedIn(wk)
    BY <1>1, <1>2, <1>4, <1>8, <1>9 DEF EndedIn
  <2>2. Apart(key', port', of')
    BY <1>2, <1>4, <1>7, <1>9, <2>1 DEF Apart
  <2>3. UnservedIn(key', port', of') = UnservedIn(key, port, of)
    BY <1>2, <1>7, <1>9, <2>1 DEF UnservedIn
  <2>4. Dead(pipe', key', port', of', wk', lost')
    BY <1>4, <1>5, <1>9, <1>l, <2>1, <2>3, DeadSame
  <2> QED BY <1>1, <1>2, <1>4, <1>9, <2>1, <2>2, <2>4
<1>10. ASSUME s.key.pending = "none" /\ s.thread = "compute" /\ s.posts = <<>>, ~s.lost PROVE Good
  <2>1. port' = rest /\ of' = [of EXCEPT ![t] = i] /\ EndedIn(wk') = EndedIn(wk)
    BY <1>1, <1>2, <1>4, <1>10 DEF EndedIn
  <2>2. OwnHold(of') /\ HeldBy(of') = HeldBy(of) \cup {i}
    BY <1>2, <1>4, <2>1, HoldTaken DEF Apart
  <2>3. Apart(key', port', of')
    <3>1. PendingIn(key') = PendingIn(key)
      BY <1>7, <1>10
    <3>2. Distinct(port') /\ PostedIn(port') = PostedIn(port) \ {i}
      BY <1>2, <2>1
    <3>3. /\ PendingIn(key) \cap PostedIn(port) = {} /\ PendingIn(key) \cap HeldBy(of) = {}
          /\ PostedIn(port) \cap HeldBy(of) = {}
      BY <1>4 DEF Apart
    <3>4. i \notin PendingIn(key) /\ i \in PostedIn(port) /\ HeldBy(of') = HeldBy(of) \cup {i}
      BY <1>2, <2>2
    <3>5. /\ PendingIn(key') \cap PostedIn(port') = {} /\ PendingIn(key') \cap HeldBy(of') = {}
          /\ PostedIn(port') \cap HeldBy(of') = {}
      BY <3>1, <3>2, <3>3, <3>4
    <3> QED BY <2>2, <3>2, <3>5 DEF Apart
  <2>4. UnservedIn(key', port', of') = UnservedIn(key, port, of)
    BY <1>2, <1>7, <1>10, <2>1, <2>2 DEF UnservedIn
  <2>5. Dead(pipe', key', port', of', wk', lost')
    BY <1>4, <1>5, <1>10, <1>l, <2>1, <2>4, DeadSame
  <2>6. /\ of' \in [ServerThreads -> Pipes \cup {0}] /\ wk' \in [ServerThreads -> {"wait", "compute", "ended"}]
        /\ of'[t] # 0 /\ wk'[t] = "compute"
    BY <1>1, <1>2, <1>4, <1>10, <2>1, PipeBasics
  <2> QED BY <1>2, <1>10, <2>1, <2>2, <2>3, <2>5, <2>6
<1>11. ASSUME s.key.pending = "none" /\ s.thread = "wait" /\ s.posts = <<Completion(i, "done")>>, ~s.lost PROVE Good
  <2> DEFINE x == Completion(i, "done")
  <2>1. x \in CompletionRec /\ x.of = i
    BY <1>2 DEF Completion, CompletionRec
  <2> HIDE DEF x
  <2>2. port' = Append(rest, x) /\ of' = of /\ EndedIn(wk') = EndedIn(wk)
    BY <1>1, <1>2, <1>4, <1>8, <1>11, <2>1 DEF EndedIn, x
  <2>3. port' \in Seq(CompletionRec) /\ Distinct(port') /\ PostedIn(port') = PostedIn(port)
    <3>1. i \notin PostedIn(rest) /\ PostedIn(port) = PostedIn(rest) \cup {i}
      BY <1>2
    <3> QED BY <1>2, <2>1, <2>2, <3>1, PostedAppend
  <2>4. Apart(key', port', of')
    BY <1>2, <1>4, <1>7, <1>11, <2>2, <2>3 DEF Apart
  <2>5. UnservedIn(key', port', of') = UnservedIn(key, port, of)
    BY <1>2, <1>7, <1>11, <2>2, <2>3 DEF UnservedIn
  <2>6. Dead(pipe', key', port', of', wk', lost')
    BY <1>4, <1>5, <1>11, <1>l, <2>2, <2>5, DeadSame
  <2> QED BY <1>1, <1>2, <1>4, <1>11, <2>2, <2>3, <2>4, <2>6
<1>12. ASSUME s.key.pending = "none" /\ s.posts = <<>>, s.thread = "ended" \/ (s.thread = "wait" /\ s.lost)
       PROVE  /\ port' = rest /\ of' = of /\ Apart(key', port', of')
              /\ UnservedIn(key', port', of') = UnservedIn(key, port, of) \cup {i}
              /\ i \notin UnservedIn(key, port, of) /\ i \notin lost
  <2>1. port' = rest /\ of' = of
    BY <1>1, <1>2, <1>4, <1>8, <1>12
  <2>2. Apart(key', port', of')
    BY <1>2, <1>4, <1>7, <1>12, <2>1 DEF Apart
  <2>3. UnservedIn(key', port', of') = UnservedIn(key, port, of) \cup {i} /\ i \notin UnservedIn(key, port, of)
    BY <1>2, <1>7, <1>12, <2>1 DEF UnservedIn
  <2> QED BY <1>4, <2>1, <2>2, <2>3 DEF Dead
<1>13. ASSUME s.key.pending = "none" /\ s.thread = "ended" /\ s.posts = <<>> /\ Forsaken(a, s.key), ~s.lost
       PROVE  Good
  <2> DEFINE old == LeftIn(key, port, of, lost)
             new == LeftIn(key', port', of', lost')
  <2>1. EndedIn(wk') = EndedIn(wk) \cup {t} /\ t \notin EndedIn(wk) /\ lost' = lost
    BY <1>1, <1>4, <1>13, <1>l DEF EndedIn
  <2>2. new = old \cup {i} /\ i \notin old
    BY <1>12, <1>13, <2>1 DEF LeftIn
  <2>3. Cardinality(EndedIn(wk')) = Cardinality(EndedIn(wk)) + 1
    BY <2>1, FiniteParts, FS_AddElement
  <2>4. Cardinality(new) = Cardinality(old) + 1
    <3>1. IsFiniteSet(old)
      BY FiniteParts
    <3> HIDE DEF old, new
    <3> QED BY <2>2, <3>1, FS_AddElement
  <2>5. \A j \in new : Forsaken(pipe'[j], key'[j])
    <3>1. \A j \in old : Forsaken(pipe[j], key[j]) /\ j \in UnservedIn(key, port, of)
      BY <1>4 DEF Dead, LeftIn
    <3>2. \A j \in old : Forsaken(pipe'[j], key'[j])
      BY <1>5, <3>1 DEF Forsaken
    <3>3. Forsaken(pipe'[i], key'[i])
      BY <1>5, <1>13
    <3> QED BY <2>2, <3>2, <3>3
  <2>6. lost' \subseteq UnservedIn(key', port', of')
    BY <1>4, <1>12, <1>13, <2>1 DEF Dead
  <2>7. Dead(pipe', key', port', of', wk', lost')
    BY <1>4, <2>3, <2>4, <2>5, <2>6 DEF Dead
  <2> QED BY <1>1, <1>2, <1>4, <1>12, <1>13, <2>7
<1>14. ASSUME s.key.pending = "none" /\ s.thread = "wait" /\ s.posts = <<>>, s.lost PROVE Good
  <2>1. EndedIn(wk') = EndedIn(wk) /\ lost' = lost \cup {i}
    BY <1>1, <1>4, <1>14 DEF EndedIn
  <2>2. LeftIn(key', port', of', lost') = LeftIn(key, port, of, lost)
    BY <1>12, <1>14, <2>1 DEF LeftIn
  <2>3. \A j \in LeftIn(key, port, of, lost) : Forsaken(pipe'[j], key'[j])
    <3>1. \A j \in LeftIn(key, port, of, lost) : Forsaken(pipe[j], key[j]) /\ j \in UnservedIn(key, port, of)
      BY <1>4 DEF Dead, LeftIn
    <3> QED BY <1>5, <3>1 DEF Forsaken
  <2>4. lost' \subseteq UnservedIn(key', port', of')
    BY <1>4, <1>12, <1>14, <2>1 DEF Dead
  <2>5. Dead(pipe', key', port', of', wk', lost')
    BY <1>4, <2>1, <2>2, <2>3, <2>4 DEF Dead
  <2> QED BY <1>1, <1>2, <1>4, <1>12, <1>14, <2>5
<1> HIDE DEF Good
<1>15. Good
  BY <1>3, <1>9, <1>10, <1>11, <1>13, <1>14 DEF ServedAs
<1> USE DEF Good
<1>16. PortTypes'
  <2>1. \A v \in ServerThreads \ {t} : of'[v] = of[v] /\ wk'[v] = wk[v]
    BY <1>1, <1>4
  <2> QED BY <1>1, <1>4, <1>5, <1>15, <2>1 DEF PortTypes
<1>17. \A j \in Pipes \ {i} : Instance(j)'
  BY <1>1, <1>2, <1>5, <1>15, OthersKept
<1>18. Instance(i)'
  <2>1. i \in HeldBy(of') <=> s.thread = "compute"
    BY <1>2, <1>15
  <2>2. Steps(a, s.key, i \in HeldBy(of'))
    BY <1>3, <2>1 DEF ServedAs, Steps
  <2>3. Waits(a, s.key)
    BY <1>3 DEF ServedAs, Waits
  <2>4. Talk(pipe', client', i) /\ Works(a, s.key, client)
    BY <1>1, <1>3, <1>5 DEF ServedAs
  <2>5. pipe'[i] = a /\ key'[i] = s.key /\ client' = client
    BY <1>1, <1>5
  <2> HIDE DEF Good
  <2> QED BY <2>2, <2>3, <2>4, <2>5 DEF Instance
<1>19. \A j \in Pipes : Instance(j)'
  BY <1>17, <1>18
<1> QED BY <1>1, <1>2, <1>6, <1>15, <1>16, <1>19 DEF PortInv

\* A thread that sees the shut down ends.
LEMMA LeaveKeeps ==
  ASSUME PortInv, NEW t \in ServerThreads, Leave(t)
  PROVE  PortInv'
<1>1. /\ wk[t] = "wait" /\ port # <<>> /\ shutDown /\ port' = Tail(port) /\ wk' = [wk EXCEPT ![t] = "ended"]
      /\ UNCHANGED <<client, slot, pipe, shutDown, cancelled, key, of, lost>>
  BY DEF Leave, Keep
<1>2. PortTypes /\ Apart(key, port, of)
  BY DEF PortInv
<1>3. Tail(port) \in Seq(CompletionRec) /\ Distinct(Tail(port)) /\ PostedIn(Tail(port)) \subseteq PostedIn(port)
  BY <1>1, HeadTaken
<1>4. PortTypes'
  BY <1>1, <1>2, <1>3 DEF PortTypes
<1>5. Apart(key', port', of')
  BY <1>1, <1>2, <1>3 DEF Apart
<1>6. \A j \in Pipes : Instance(j)'
  <2> SUFFICES ASSUME NEW j \in Pipes PROVE Instance(j)'
    OBVIOUS
  <2>1. Instance(j)
    BY DEF PortInv
  <2> QED BY <1>1, <2>1 DEF Instance, Steps, HeldBy, Talk
<1> QED BY <1>1, <1>4, <1>5, <1>6 DEF PortInv

\* The output of the request is in the temporary file.
LEMMA ComputeKeeps ==
  ASSUME PortInv, NEW t \in ServerThreads, Compute(t)
  PROVE  PortInv'
<1>0. /\ wk[t] = "compute" /\ of[t] # 0 /\ of \in [ServerThreads -> Pipes \cup {0}] /\ key \in [Pipes -> KeyRec]
      /\ pipe \in [Pipes -> PipeRec] /\ wk \in [ServerThreads -> {"wait", "compute", "ended"}] /\ PortTypes
  BY DEF Compute, PortInv, PortTypes, PipesTyped
<1>i. PICK i \in Pipes : i = of[t]
  BY <1>0
<1>1. PICK state \in {"computed", "respondLast"} :
        key' = [key EXCEPT ![i].npState = state,
                           ![i].tmp = IF state = "computed" THEN Output(key[i].request) ELSE @]
  BY <1>i DEF Compute
<1>2. /\ (port' = Append(port, Completion(i, "done")) /\ lost' = lost) \/ (port' = port /\ lost' = lost \cup {i})
      /\ wk' = [wk EXCEPT ![t] = IF shutDown THEN "ended" ELSE "wait"]
      /\ of' = [of EXCEPT ![t] = 0] /\ UNCHANGED <<client, slot, pipe, shutDown, cancelled>>
  BY <1>i DEF Compute, Keep
<1> DEFINE f == IF state = "computed" THEN Output(key[i].request) ELSE key[i].tmp
           k == [key[i] EXCEPT !.npState = state, !.tmp = f]
<1>3. Instance(i) /\ key[i] \in KeyRec /\ i \in HeldBy(of) /\ key[i].pending = "none"
  BY <1>0, <1>i DEF PortInv, Apart, HeldBy, PendingIn
<1>4. /\ f \in Seq(RequestRec) /\ Len(f) <= 1
      /\ state = "computed" => \A n \in 1..Len(f) : f[n] = key[i].request
  <2>1. key[i].request \in RequestRec /\ key[i].tmp \in Seq(RequestRec) /\ Len(key[i].tmp) <= 1
    BY <1>3 DEF KeyRec, Instance, Steps
  <2>2. CASE state = "computed" /\ key[i].request = NoRequest
    BY <2>2, EmptySeq DEF Output
  <2>3. CASE state = "computed" /\ key[i].request # NoRequest
    BY <2>1, <2>3 DEF Output
  <2>4. CASE state # "computed"
    BY <2>1, <2>4
  <2> QED BY <2>2, <2>3, <2>4
<1>5. key' = [key EXCEPT ![i] = k]
  BY <1>1, <1>0
<1> HIDE DEF f
<1>6. k \in KeyRec /\ k.npState = state /\ k.tmp = f /\ k.pending = "none" /\ k.request = key[i].request
  BY <1>3, <1>4 DEF KeyRec, NpStates
<1> HIDE DEF k
<1>7. key' \in [Pipes -> KeyRec] /\ key'[i] = k /\ \A j \in Pipes \ {i} : key'[j] = key[j]
  BY <1>0, <1>5, <1>6
<1>8. \A j \in Pipes : key'[j].pending = key[j].pending
  BY <1>3, <1>6, <1>7
<1>9. EndedIn(wk') = EndedIn(wk) \/ shutDown
  BY <1>0, <1>2 DEF EndedIn
<1>10. i \notin UnservedIn(key, port, of) /\ \A j \in UnservedIn(key, port, of) : key'[j].npState = key[j].npState
  BY <1>3, <1>7 DEF UnservedIn
<1> DEFINE Good == /\ port' \in Seq(CompletionRec) /\ Apart(key', port', of') /\ lost' \subseteq Pipes
                   /\ HeldBy(of') = HeldBy(of) \ {i}
                   /\ ~shutDown => Dead(pipe', key', port', of', wk', lost')
<1>11. Good
  <2>1. CASE port' = Append(port, Completion(i, "done")) /\ lost' = lost
    <3> DEFINE x == Completion(i, "done")
    <3>1. x \in CompletionRec /\ x.of = i /\ port' = Append(port, x)
      BY <2>1 DEF Completion, CompletionRec
    <3> HIDE DEF x
    <3>2. /\ port' \in Seq(CompletionRec) /\ Apart(key', port', of') /\ HeldBy(of') = HeldBy(of) \ {i}
          /\ UnservedIn(key', port', of') = UnservedIn(key, port, of)
      <4>1. /\ Append(port, x) \in Seq(CompletionRec) /\ Apart(key', Append(port, x), [of EXCEPT ![t] = 0])
            /\ UnservedIn(key', Append(port, x), [of EXCEPT ![t] = 0]) = UnservedIn(key, port, of)
            /\ HeldBy([of EXCEPT ![t] = 0]) = HeldBy(of) \ {i}
        BY <1>i, <1>8, <3>1, ThreadPosted
      <4> QED BY <1>2, <3>1, <4>1
    <3>3. ASSUME ~shutDown PROVE Dead(pipe', key', port', of', wk', lost')
      BY <1>2, <1>9, <1>10, <2>1, <3>2, <3>3, DeadSame DEF PortInv
    <3> QED BY <1>0, <2>1, <3>2, <3>3 DEF PortTypes
  <2>2. CASE port' = port /\ lost' = lost \cup {i}
    <3>1. /\ port \in Seq(CompletionRec) /\ Apart(key, port, of) /\ PendingIn(key') = PendingIn(key)
          /\ i \in HeldBy(of) /\ i \notin PostedIn(port) /\ i \notin PendingIn(key)
      BY <1>0, <1>3, <1>8 DEF PortInv, PortTypes, PendingIn, Apart
    <3>2. OwnHold(of') /\ HeldBy(of') = HeldBy(of) \ {i}
      BY <1>0, <1>2, <1>i, <3>1, HoldLeft DEF Apart
    <3>3. Apart(key', port', of')
      BY <2>2, <3>1, <3>2 DEF Apart
    <3>4. UnservedIn(key', port', of') = UnservedIn(key, port, of) \cup {i}
      BY <2>2, <3>1, <3>2 DEF UnservedIn
    <3>5. ASSUME ~shutDown PROVE Dead(pipe', key', port', of', wk', lost')
      <4>1. Dead(pipe, key, port, of, wk, lost) /\ EndedIn(wk') = EndedIn(wk)
        BY <1>9, <3>5 DEF PortInv
      <4>2. LeftIn(key', port', of', lost') = LeftIn(key, port, of, lost)
        BY <1>10, <2>2, <3>4 DEF LeftIn
      <4>3. lost' \subseteq UnservedIn(key', port', of')
        BY <2>2, <3>4, <4>1 DEF Dead
      <4>4. \A j \in LeftIn(key, port, of, lost) : Forsaken(pipe'[j], key'[j])
        BY <1>2, <1>10, <4>1 DEF Dead, LeftIn, Forsaken
      <4> QED BY <4>1, <4>2, <4>3, <4>4 DEF Dead
    <3> QED BY <1>0, <2>2, <3>1, <3>2, <3>3, <3>5 DEF PortTypes
  <2> QED BY <1>2, <2>1, <2>2
<1>12. PortTypes'
  <2>1. \A v \in ServerThreads \ {t} : of'[v] = of[v] /\ wk'[v] = wk[v]
    BY <1>0, <1>2
  <2> QED BY <1>0, <1>2, <1>7, <1>11, <2>1 DEF PortTypes
<1>13. \A j \in Pipes \ {i} : Instance(j)'
  BY <1>2, <1>7, <1>11, OthersKept
<1>14. Instance(i)'
  <2>1. i \notin HeldBy(of') /\ key[i].npState = "requestRead" /\ pipe[i].state # "listening"
    BY <1>3, <1>11 DEF Instance, Steps
  <2>2. Steps(pipe[i], k, i \in HeldBy(of'))
    BY <1>3, <1>4, <1>6, <2>1 DEF Instance, Steps
  <2>3. Waits(pipe[i], k)
    BY <2>1 DEF Waits
  <2>4. Works(pipe[i], key[i], client) => Works(pipe[i], k, client)
    BY <1>3, <1>6, <2>1 DEF Works, Idle
  <2> QED BY <1>2, <1>3, <1>7, <2>2, <2>3, <2>4 DEF Instance
<1>15. \A j \in Pipes : Instance(j)'
  BY <1>13, <1>14
<1> QED BY <1>2, <1>11, <1>12, <1>15 DEF PortInv

\* The monitor cancels what is pending.
LEMMA CancelKeeps == ASSUME PortInv, Cancel PROVE PortInv'
<1>1. /\ shutDown /\ cancelled + 1 \in Pipes /\ cancelled' = cancelled + 1
      /\ UNCHANGED <<client, slot, pipe, shutDown, wk, of, lost>>
  BY PipeBasics DEF Cancel, Keep, PortInv, PortTypes
<1>i. PICK i \in Pipes : i = cancelled + 1
  BY <1>1
<1>2. PortTypes /\ key \in [Pipes -> KeyRec] /\ Instance(i) /\ key[i] \in KeyRec
  BY DEF PortInv, PortTypes
<1>3. CASE key[i].pending = "none"
  <2>1. UNCHANGED <<key, port>>
    BY <1>i, <1>3 DEF Cancel, Cancels
  <2>2. PortTypes'
    BY <1>1, <1>2, <2>1, PipeBasics DEF PortTypes
  <2>3. \A j \in Pipes : Instance(j)'
    <3> SUFFICES ASSUME NEW j \in Pipes PROVE Instance(j)'
      OBVIOUS
    <3> QED BY <1>1, <2>1 DEF PortInv, Instance, Steps, HeldBy, Talk
  <2> QED BY <1>1, <2>1, <2>2, <2>3 DEF PortInv
<1>4. CASE key[i].pending # "none"
  <2> DEFINE k == [key[i] EXCEPT !.pending = "none"]
             x == Completion(i, "aborted")
  <2>1. key' = [key EXCEPT ![i] = k] /\ port' = Append(port, x)
    BY <1>i, <1>4 DEF Cancel, Cancels
  <2>2. /\ k \in KeyRec /\ k.pending = "none" /\ k.npState = key[i].npState /\ k.tmp = key[i].tmp
        /\ k.request = key[i].request
    BY <1>2 DEF KeyRec
  <2>3. x \in CompletionRec /\ x.of = i
    BY DEF Completion, CompletionRec
  <2> HIDE DEF k, x
  <2>4. key' \in [Pipes -> KeyRec] /\ key'[i] = k /\ \A j \in Pipes \ {i} : key'[j] = key[j]
    BY <1>2, <2>1, <2>2
  <2>5. port' \in Seq(CompletionRec) /\ Apart(key', port', of)
    BY <1>4, <2>1, <2>2, <2>3, <2>4, OperationPosted
  <2>6. PortTypes'
    BY <1>1, <1>2, <2>4, <2>5, PipeBasics DEF PortTypes
  <2>7. \A j \in Pipes \ {i} : Instance(j)'
    BY <1>1, <2>4, OthersKept
  <2>8. Instance(i)'
    <3>1. Steps(pipe[i], k, i \in HeldBy(of'))
      BY <1>1, <1>2, <2>2 DEF Instance, Steps
    <3> QED BY <1>1, <1>2, <2>4, <3>1 DEF Instance, Talk
  <2>9. \A j \in Pipes : Instance(j)'
    BY <2>7, <2>8
  <2> QED BY <1>1, <2>5, <2>6, <2>9 DEF PortInv
<1> QED BY <1>3, <1>4

\* What a client does leaves each instance right.
LEMMA EffectKeepsInstance ==
  ASSUME PortInv, NEW i \in Pipes, Effect(pipe, client, pipe', client', i), PipesTyped(pipe', client', slot'),
         Linked(pipe', client'), UNCHANGED <<shutDown, portVars>>
  PROVE  Instance(i)' /\ (pipe[i].state = "closing" => pipe'[i].state = "closing")
<1>1. /\ Instance(i) /\ pipe \in [Pipes -> PipeRec] /\ pipe' \in [Pipes -> PipeRec] /\ pipe[i] \in PipeRec
      /\ Linked(pipe, client)
  BY DEF PortInv, PipesTyped
<1>2. Talk(pipe', client', i)
  BY <1>1, EffectKeepsTalk DEF Instance
<1>3. key' = key /\ of' = of /\ shutDown' = shutDown
  BY DEF portVars
<1> DEFINE Right == /\ Steps(pipe'[i], key[i], i \in HeldBy(of))
                    /\ ~shutDown => Waits(pipe'[i], key[i]) /\ Works(pipe'[i], key[i], client')
                    /\ pipe[i].state = "closing" => pipe'[i].state = "closing"
<1>4. ASSUME NothingTo(pipe, client, pipe', client', i) PROVE Right
  BY <1>1, <1>4 DEF NothingTo, Instance, Works, Own
<1>5. ASSUME OpensIt(pipe, client, pipe', client', i) PROVE Right
  BY <1>1, <1>5 DEF OpensIt, Instance, Steps, Waits, Works, Idle
<1>6. ASSUME Asks(pipe, client, pipe', client', i) PROVE Right
  <2>1. /\ pipe[i].state = "connected" /\ client[pipe[i].client].pc = "prompt"
        /\ \E r : pipe'[i] = [pipe[i] EXCEPT !.request = Append(@, r)]
    BY <1>6 DEF Asks
  <2>2. pipe'[i].state = "connected" /\ pipe'[i].response = pipe[i].response
    BY <1>1, <2>1 DEF PipeRec
  <2>3. pipe[i].response = <<>> /\ Len(pipe'[i].request) <= 1
    BY <1>1, <1>2, <2>1, <2>2 DEF Instance, Talk
  <2>4. ~shutDown => Idle(key[i])
    BY <1>1, <2>1 DEF Instance, Works
  <2>5. Steps(pipe'[i], key[i], i \in HeldBy(of))
    BY <1>1, <2>1, <2>2, <2>3 DEF Instance, Steps
  <2>6. Waits(pipe'[i], key[i]) /\ (Idle(key[i]) => Works(pipe'[i], key[i], client'))
    BY <2>2, <2>3 DEF Waits, Works
  <2> QED BY <2>1, <2>4, <2>5, <2>6
<1>7. ASSUME Reads(pipe, client, pipe', client', i) PROVE Right
  <2> DEFINE old == pipe[i].response
             new == pipe'[i].response
             c == pipe[i].client
  <2>1. /\ pipe[i].state = "connected" /\ old # <<>> /\ old \in Seq(MessageRec)
        /\ client'[c].n = client[c].n /\ client'[c].pc = (IF Ends(Head(old)) THEN "prompt" ELSE "read")
    BY <1>1, <1>7 DEF Reads, PipeRec
  <2>2. /\ pipe'[i].state = "connected" /\ new = Tail(old) /\ pipe'[i].request = pipe[i].request
        /\ pipe'[i].client = c
    BY <1>1, <1>7 DEF Reads, PipeRec
  <2>3. /\ Len(old) \in Nat \ {0} /\ Len(new) = Len(old) - 1 /\ Head(old) = old[1] /\ (Len(old) = 1 => new = <<>>)
        /\ \A n \in 1..Len(new) : n + 1 \in 1..Len(old) /\ new[n] = old[n + 1]
    BY <2>1, <2>2, TailElements
  <2> HIDE DEF old, new
  <2>4. new # <<>> => Len(new) \in 1..Len(new) /\ new[Len(new)] = old[Len(old)]
    BY <2>3
  <2>5. ASSUME Works(pipe[i], key[i], client) PROVE Works(pipe'[i], key[i], client')
    <3>1. CASE Idle(key[i])
      <4>1. Ends(old[Len(old)])
        BY <2>1, <2>5, <3>1 DEF Works, old
      <4> QED BY <2>2, <2>4, <3>1, <4>1 DEF Works, new
    <3>2. CASE ~Idle(key[i])
      <4>1. /\ client[c].pc = "read" /\ pipe[i].request = <<>> /\ Own(key[i].request, c, client)
            /\ \A n \in 1..Len(old) : ~Ends(old[n])
        BY <2>1, <2>5, <3>2 DEF Works, old
      <4>2. client'[c].pc = "read" /\ \A n \in 1..Len(new) : ~Ends(new[n])
        BY <2>1, <2>3, <4>1
      <4>3. Own(key[i].request, c, client')
        BY <2>1, <4>1 DEF Own
      <4> QED BY <2>2, <3>2, <4>1, <4>2, <4>3 DEF Works, new
    <3> QED BY <3>1, <3>2
  <2> QED BY <1>1, <2>1, <2>2, <2>5 DEF Instance, Steps, Waits
<1>8. ASSUME Closes(pipe, pipe', i) PROVE Right
  BY <1>1, <1>8 DEF Closes, Instance, Steps, Waits, Works
<1> HIDE DEF Right
<1>9. Right
  BY <1>4, <1>5, <1>6, <1>7, <1>8 DEF Effect
<1> QED BY <1>2, <1>3, <1>9 DEF Instance, Right

\* A step that changes only clients and what they have open.
LEMMA ClientsKeep ==
  ASSUME PortInv, Fine(pipe, client, slot, pipe', client', slot'), UNCHANGED <<shutDown, cancelled, portVars>>
  PROVE  PortInv'
<1>1. PipesTyped(pipe', client', slot') /\ Linked(pipe', client') /\ \A i \in Pipes : Effect(pipe, client, pipe', client', i)
  BY DEF Fine
<1>2. \A i \in Pipes : Instance(i)' /\ (pipe[i].state = "closing" => pipe'[i].state = "closing")
  BY <1>1, EffectKeepsInstance
<1>3. key' = key /\ port' = port /\ wk' = wk /\ of' = of /\ lost' = lost /\ shutDown' = shutDown /\ cancelled' = cancelled
  BY DEF portVars
<1>4. PortTypes'
  BY <1>3 DEF PortInv, PortTypes
<1>5. ~shutDown => Dead(pipe', key, port, of, wk, lost)
  <2> SUFFICES ASSUME ~shutDown PROVE Dead(pipe', key, port, of, wk, lost)
    OBVIOUS
  <2>1. Dead(pipe, key, port, of, wk, lost) /\ LeftIn(key, port, of, lost) \subseteq Pipes
    BY DEF PortInv, LeftIn, UnservedIn
  <2>2. \A j \in LeftIn(key, port, of, lost) : Forsaken(pipe'[j], key[j])
    BY <1>2, <2>1 DEF Dead, Forsaken
  <2> QED BY <2>1, <2>2 DEF Dead
<1> QED BY <1>1, <1>2, <1>3, <1>4, <1>5 DEF PortInv

\* The client that has the mailslot is told the name of the pipe.
LEMMA ClientTold ==
  ASSUME NEW p, NEW q, NEW s, PipesTyped(p, q, s), Linked(p, q), s # NoClient
  PROVE  Fine(p, q, s, p, [q EXCEPT ![s].pc = "wait"], NoClient)
<1> DEFINE r == [q[s] EXCEPT !.pc = "wait"]
<1>1. s \in Clients /\ q[s].pc = "looking" /\ q[s] \in ClientRec
  BY DEF PipesTyped
<1>2. r \in ClientRec /\ r.pc = "wait"
  BY <1>1 DEF ClientRec, ClientPcs
<1>3. [q EXCEPT ![s].pc = "wait"] = [q EXCEPT ![s] = r]
  BY DEF PipesTyped
<1> HIDE DEF r
<1>4. NoClient # s /\ NoClient \in Clients \cup {NoClient}
  OBVIOUS
<1>5. Fine(p, q, s, p, [q EXCEPT ![s] = r], NoClient)
  BY <1>1, <1>2, <1>4, ClientAlone
<1> QED BY <1>3, <1>5

\* The invariant of the port holds at the start and in every step.
LEMMA PortInit == ASSUME NEW over \in BOOLEAN, InitOf(over) PROVE PortInv
<1> DEFINE k == [npState |-> "connected", pending |-> "connect", request |-> NoRequest, tmp |-> <<>>]
           d == [Gone EXCEPT !.pc = "locate"]
<1>1. /\ pipe = [i \in Pipes |-> Listening] /\ client = [c \in Clients |-> d]
      /\ slot = NoClient /\ shutDown = over /\ cancelled = (IF over THEN MAX_CLIENTS ELSE 0)
      /\ key = [i \in Pipes |-> k] /\ port = <<>>
      /\ wk = [t \in ServerThreads |-> IF over THEN "ended" ELSE "wait"] /\ of = [t \in ServerThreads |-> 0]
      /\ lost = {}
  BY DEF InitOf, PipeInit, KeyInit
<1>2. Listening \in PipeRec /\ Listening.state = "listening" /\ Listening.request = <<>> /\ Listening.response = <<>>
  BY EmptySeq DEF Listening, PipeRec, NoClient
<1>3. d \in ClientRec /\ d.pc = "locate"
  BY DEF Gone, ClientRec, ClientPcs
<1>4. NoRequest \in RequestRec
  BY DEF NoRequest, Request, RequestRec, NoClient
<1>5. k \in KeyRec /\ k.npState = "connected" /\ k.pending = "connect" /\ k.tmp = <<>>
  BY <1>4, EmptySeq DEF KeyRec, NpStates
<1> HIDE DEF k, d
<1>6. PipesTyped(pipe, client, slot) /\ Linked(pipe, client)
  BY <1>1, <1>2, <1>3 DEF PipesTyped, Linked
<1>7. PortTypes
  BY <1>1, <1>5, EmptySeq, PipeBasics DEF PortTypes
<1>8. PendingIn(key) = Pipes /\ PostedIn(port) = {} /\ HeldBy(of) = {}
  <2>1. PendingIn(key) = Pipes
    BY <1>1, <1>5 DEF PendingIn
  <2>2. PostedIn(port) = {}
    BY <1>1 DEF PostedIn
  <2>3. HeldBy(of) = {}
    BY <1>1, PipeBasics DEF HeldBy
  <2> QED BY <2>1, <2>2, <2>3
<1>9. Apart(key, port, of)
  BY <1>1, <1>8 DEF Apart, Distinct, OwnHold
<1>10. ~shutDown => Dead(pipe, key, port, of, wk, lost)
  <2>1. UnservedIn(key, port, of) = {} /\ LeftIn(key, port, of, lost) = {}
    BY <1>1, <1>8 DEF UnservedIn, LeftIn
  <2>2. ~over => EndedIn(wk) = {}
    BY <1>1 DEF EndedIn
  <2> QED BY <1>1, <2>1, <2>2 DEF Dead
<1>11. ASSUME NEW i \in Pipes PROVE Instance(i)
  <2>1. pipe[i] = Listening /\ key[i] = k /\ i \notin HeldBy(of)
    BY <1>1, <1>8
  <2>2. Steps(Listening, k, i \in HeldBy(of))
    BY <1>2, <1>5, <2>1 DEF Steps
  <2>3. Talk(pipe, client, i) /\ Waits(Listening, k) /\ Works(Listening, k, client)
    BY <1>2, <1>5, <2>1 DEF Talk, Waits, Works
  <2> QED BY <2>1, <2>2, <2>3 DEF Instance
<1> QED BY <1>6, <1>7, <1>9, <1>10, <1>11 DEF PortInv

LEMMA HandlerKeeps == ASSUME PortInv, Handler, UNCHANGED portVars PROVE PortInv'
<1>1. shutDown' = TRUE /\ UNCHANGED <<pipe, client, slot, cancelled, key, port, wk, of, lost>>
  BY DEF Handler, portVars
<1>2. PortTypes'
  BY <1>1 DEF PortInv, PortTypes
<1>3. ASSUME NEW i \in Pipes PROVE Instance(i)'
  BY <1>1 DEF PortInv, Instance, Steps, Talk
<1> QED BY <1>1, <1>2, <1>3 DEF PortInv

LEMMA PortNext == ASSUME PortInv, Next PROVE PortInv'
<1>1. CASE \E i \in Pipes : Complete(i)
  BY <1>1, CompleteKeeps
<1>2. CASE \E t \in ServerThreads : Server(t)
  BY <1>2, ServeKeeps, LeaveKeeps, ComputeKeeps DEF Server
<1>3. CASE Cancel
  BY <1>3, CancelKeeps
<1>4. CASE Environment
  <2>1. CASE \E c \in Clients : Client(c, Running)
    <3>1. PICK c \in Clients : Client(c, Running)
      BY <2>1
    <3>2. Fine(pipe, client, slot, pipe', client', slot') /\ UNCHANGED <<shutDown, cancelled>>
      BY <3>1, PortClient DEF PortInv
    <3> QED BY <1>4, <3>2, ClientsKeep DEF Environment
  <2>2. CASE Broadcast \/ SrvrBcst
    <3>1. /\ slot # NoClient /\ client' = [client EXCEPT ![slot].pc = "wait"] /\ slot' = NoClient
          /\ UNCHANGED <<pipe, shutDown, cancelled>>
      BY <2>2 DEF Broadcast, SrvrBcst, Goes
    <3>2. Fine(pipe, client, slot, pipe', client', slot')
      BY <3>1, ClientTold DEF PortInv
    <3> QED BY <1>4, <3>1, <3>2, ClientsKeep DEF Environment
  <2>3. CASE Handler
    BY <1>4, <2>3, HandlerKeeps DEF Environment
  <2> QED BY <1>4, <2>1, <2>2, <2>3 DEF Environment
<1> QED BY <1>1, <1>2, <1>3, <1>4 DEF Next

LEMMA PortStutters == ASSUME PortInv, UNCHANGED cpVars PROVE PortInv'
<1>1. UNCHANGED <<pipe, client, slot, shutDown, cancelled, key, port, wk, of, lost>>
  BY DEF cpVars, pipeVars, portVars
<1>2. PortTypes'
  BY <1>1 DEF PortInv, PortTypes
<1>3. ASSUME NEW i \in Pipes PROVE Instance(i)'
  BY <1>1 DEF PortInv, Instance, Steps, Talk
<1> QED BY <1>1, <1>2, <1>3 DEF PortInv

\* What the invariant says of the completion port.
LEMMA PortAnswers == PortInv => AnswerOwn /\ AnswerComplete
<1> SUFFICES ASSUME PortInv PROVE AnswerOwn /\ AnswerComplete
  OBVIOUS
<1>1. /\ pipe \in [Pipes -> PipeRec] /\ \A i \in Pipes : Talk(pipe, client, i)
      /\ \A i \in Pipes : pipe[i].state # "connected" => pipe[i].response = <<>>
      /\ \A d \in Clients : client[d].pc \in {"prompt", "read"} => client[d].pipe \in Pipes
  BY DEF PortInv, PipesTyped, Instance
<1>2. ASSUME NEW i \in Pipes, NEW n \in 1..Len(pipe[i].response)
      PROVE  Own(pipe[i].response[n].of, pipe[i].client, client)
  <2>1. pipe[i].response # <<>>
    OBVIOUS
  <2> QED BY <1>1, <2>1 DEF Talk
<1>3. AnswerOwn
  BY <1>2 DEF AnswerOwn, Own
<1>4. AnswerComplete
  BY <1>1 DEF AnswerComplete, ConnectedTo, Talk
<1> QED BY <1>3, <1>4

LEMMA PortTypeOK == PortInv => TypeOK
<1> SUFFICES ASSUME PortInv PROVE TypeOK
  OBVIOUS
<1>1. /\ pipe \in [Pipes -> PipeRec] /\ key \in [Pipes -> KeyRec]
      /\ \A i \in Pipes : Steps(pipe[i], key[i], i \in HeldBy(of))
  BY DEF PortInv, PipesTyped, PortTypes, Instance
<1>2. PipeTypeOK
  BY <1>1 DEF PipeTypeOK, PortInv, PipesTyped, PortTypes, PipeRec
<1>3. \A i \in Pipes : /\ key[i].npState \in NpStates /\ Len(key[i].tmp) <= 1
                       /\ Len(pipe[i].request) <= 1
  BY <1>1 DEF KeyRec, Steps
<1>4. \A t \in ServerThreads : of[t] # 0 <=> wk[t] = "compute"
  BY DEF PortInv, PortTypes
<1>5. lost \subseteq Pipes
  BY DEF PortInv, PortTypes
<1> QED BY <1>2, <1>3, <1>4, <1>5 DEF TypeOK

\* The parts of what is outstanding on an instance.
LEMMA PartsCounted ==
  ASSUME PortInv, NEW i \in Pipes
  PROVE  /\ Outstanding(i) \in 0..1
         /\ Outstanding(i) = 0 <=> i \in UnservedIn(key, port, of)
<1> DEFINE P == {n \in 1..Len(port) : port[n].of = i}
           H == {t \in ServerThreads : of[t] = i}
<1>1. Apart(key, port, of) /\ Len(port) \in Nat
  BY DEF PortInv, PortTypes
<1>2. Cardinality(P) = IF i \in PostedIn(port) THEN 1 ELSE 0
  <2>1. CASE i \in PostedIn(port)
    <3>1. PICK n \in 1..Len(port) : port[n].of = i
      BY <2>1 DEF PostedIn
    <3>2. P = {n}
      BY <1>1, <3>1 DEF Apart, Distinct
    <3> QED BY <2>1, <3>2, FS_Singleton
  <2>2. CASE i \notin PostedIn(port)
    <3>1. P = {}
      BY <2>2 DEF PostedIn
    <3> QED BY <2>2, <3>1, FS_EmptySet
  <2> QED BY <2>1, <2>2
<1>3. Cardinality(H) = IF i \in HeldBy(of) THEN 1 ELSE 0
  <2>1. CASE i \in HeldBy(of)
    <3>1. PICK t \in ServerThreads : of[t] = i
      BY <2>1 DEF HeldBy
    <3>2. H = {t}
      BY <1>1, <3>1, PipeBasics DEF Apart, OwnHold
    <3> QED BY <2>1, <3>2, FS_Singleton
  <2>2. CASE i \notin HeldBy(of)
    <3>1. H = {}
      BY <2>2 DEF HeldBy
    <3> QED BY <2>2, <3>1, FS_EmptySet
  <2> QED BY <2>1, <2>2
<1>4. Outstanding(i) = (IF key[i].pending = "none" THEN 0 ELSE 1) + Cardinality(P) + Cardinality(H)
  BY DEF Outstanding
<1> HIDE DEF P, H
<1>5. i \in PendingIn(key) <=> key[i].pending # "none"
  BY DEF PendingIn
<1>6. ~(i \in PendingIn(key) /\ i \in PostedIn(port)) /\ ~(i \in PendingIn(key) /\ i \in HeldBy(of))
      /\ ~(i \in PostedIn(port) /\ i \in HeldBy(of))
  BY <1>1 DEF Apart
<1>7. Outstanding(i) \in 0..1
  BY <1>2, <1>3, <1>4, <1>5, <1>6
<1>8. Outstanding(i) = 0 <=> i \notin PendingIn(key) /\ i \notin PostedIn(port) /\ i \notin HeldBy(of)
  BY <1>2, <1>3, <1>4, <1>5, <1>6
<1> QED BY <1>7, <1>8 DEF UnservedIn

LEMMA PortOneServes == PortInv => OneOperation /\ ThreadPerInstance
<1> SUFFICES ASSUME PortInv PROVE OneOperation /\ ThreadPerInstance
  OBVIOUS
<1>1. Unserved = UnservedIn(key, port, of) /\ Unserved \ lost = LeftIn(key, port, of, lost)
  BY PartsCounted DEF UnservedIn, Unserved, LeftIn
<1>2. ThreadPerInstance
  BY <1>1 DEF ThreadPerInstance, PortInv, Dead, EndedIn, Forsaken
<1>3. OneOperation
  BY PartsCounted DEF OneOperation
<1> QED BY <1>2, <1>3

-----------------------------------------------------------------------------
(* serverNP and serverNP_secure keep theirs.                               *)

\* A step of an instance leaves the others as they are.
OtherInstances(i) ==
  /\ UNCHANGED <<server, npClient>> /\ (npShutDown => npShutDown')
  /\ \A j \in Pipes \ {i} : /\ npPipe'[j] = npPipe[j] /\ th'[j] = th[j] /\ con'[j] = con[j]
                            /\ req'[j] = req[j] /\ tmp'[j] = tmp[j]
LEMMA InstanceStep ==
  ASSUME ThreadInv, NEW i \in Pipes, OtherInstances(i), ThreadTypes',
         PipesTyped(npPipe', npClient', npSlot'), Linked(npPipe', npClient'), Handled(i)'
  PROVE  ThreadInv'
<1>1. ASSUME NEW j \in Pipes \ {i} PROVE Handled(j)'
  <2>1. Handled(j)
    BY DEF ThreadInv
  <2>2. /\ npPipe'[j] = npPipe[j] /\ th'[j] = th[j] /\ con'[j] = con[j] /\ req'[j] = req[j] /\ tmp'[j] = tmp[j]
        /\ server' = server /\ npClient' = npClient /\ (npShutDown => npShutDown')
    BY DEF OtherInstances
  <2>3. Connects(npPipe'[j], th'[j], con'[j], npShutDown') /\ Files(th'[j], req'[j], tmp'[j])
    BY <2>1, <2>2 DEF Handled, Connects, Files
  <2>4. server # "serverNP_secure" =>
          Talk(npPipe', npClient', j) /\ Len(npPipe'[j].request) <= 1 /\ Busy(npPipe'[j], th'[j], req'[j], npClient')
    BY <2>1, <2>2 DEF Handled, Talk
  <2> QED BY <2>2, <2>3, <2>4 DEF Handled, Files
<1>2. \A j \in Pipes : Handled(j)'
  BY <1>1
<1> QED BY <1>2 DEF ThreadInv

ConPcs == {"none", "begun", "waiting", "ended"}
\* Each instance and its two threads have their types.
LEMMA ThreadFacts ==
  ASSUME ThreadInv, NEW i \in Pipes
  PROVE  /\ npPipe \in [Pipes -> PipeRec] /\ npPipe[i] \in PipeRec /\ Handled(i) /\ ThreadTypes
         /\ th \in [Pipes -> PipeThreadPcs] /\ con \in [Pipes -> ConPcs]
         /\ req \in [Pipes -> RequestRec] /\ tmp \in [Pipes -> Seq(RequestRec)]
         /\ npShutDown \in BOOLEAN /\ npCancelled \in 0..MAX_CLIENTS
         /\ PipesTyped(npPipe, npClient, npSlot) /\ Linked(npPipe, npClient)
         /\ (npPipe[i].state # "connected" => npPipe[i].response = <<>>)
         /\ NP!Pipes = Pipes /\ NP!NoClient = NoClient
BY DEF ThreadInv, PipesTyped, ThreadTypes, ConPcs, NP!Pipes, Pipes, NP!NoClient, NoClient

\* A step that changes only what the two threads of an instance do.
LEMMA ControlKeeps ==
  ASSUME ThreadInv, NEW i \in Pipes, NEW h \in PipeThreadPcs, NEW k \in ConPcs,
         th' = [th EXCEPT ![i] = h], con' = [con EXCEPT ![i] = k],
         UNCHANGED <<server, npPipe, npClient, npSlot, npShutDown, req, tmp>>, npCancelled' \in 0..MAX_CLIENTS,
         Connects(npPipe[i], h, k, npShutDown), h = "answer" <=> th[i] = "answer", h = "run" => th[i] = "run"
  PROVE  ThreadInv'
<1>1. /\ th' \in [Pipes -> PipeThreadPcs] /\ con' \in [Pipes -> ConPcs] /\ th'[i] = h /\ con'[i] = k
      /\ \A j \in Pipes \ {i} : th'[j] = th[j] /\ con'[j] = con[j]
  BY ThreadFacts
<1>2. ThreadTypes'
  BY <1>1, ThreadFacts DEF ThreadTypes, ConPcs
<1>3. OtherInstances(i)
  BY <1>1 DEF OtherInstances
<1>4. Handled(i)'
  <2>1. Handled(i)
    BY ThreadFacts
  <2>2. Files(h, req[i], tmp[i])
    BY <2>1 DEF Handled, Files
  <2>3. Busy(npPipe[i], th[i], req[i], npClient) => Busy(npPipe[i], h, req[i], npClient)
    BY DEF Busy
  <2> QED BY <1>1, <2>1, <2>2, <2>3 DEF Handled, Files, Talk
<1> QED BY <1>2, <1>3, <1>4, ThreadFacts, InstanceStep

\* An instance that is not connected after a step.
LEMMA PipesReset ==
  ASSUME NEW p, NEW q, NEW s, PipesTyped(p, q, s), Linked(p, q), NEW i \in Pipes,
         NEW a \in PipeRec, a.state # "connected", a.response = <<>>
  PROVE  PipesTyped([p EXCEPT ![i] = a], q, s) /\ Linked([p EXCEPT ![i] = a], q)
<1> DEFINE p2 == [p EXCEPT ![i] = a]
<1>1. p2 \in [Pipes -> PipeRec] /\ p2[i] = a /\ \A j \in Pipes \ {i} : p2[j] = p[j]
  BY DEF PipesTyped
<1> HIDE DEF p2
<1>2. PipesTyped(p2, q, s)
  BY <1>1 DEF PipesTyped
<1>3. Linked(p2, q)
  BY <1>1 DEF Linked
<1> QED BY <1>2, <1>3 DEF p2

\* The steps of the threads of an instance.
LEMMA ConnectNamedPipeKeeps == ASSUME ThreadInv, NEW i \in Pipes, NP!ConnectNamedPipe(i) PROVE ThreadInv'
<1>1. /\ con[i] = "begun" /\ UNCHANGED <<server, npClient, npSlot, npShutDown, npCancelled, th, req, tmp>>
  BY DEF NP!ConnectNamedPipe, NP!Keep
<1>2. Handled(i) /\ th[i] \in {"await", "leave", "join", "ended"}
  BY <1>1, ThreadFacts DEF Handled, Connects
<1>3. CASE NP!InUse(i)
  <2>1. con' = [con EXCEPT ![i] = "ended"] /\ npPipe' = npPipe /\ th' = [th EXCEPT ![i] = th[i]]
    BY <1>1, <1>3, ThreadFacts DEF NP!ConnectNamedPipe
  <2>2. Connects(npPipe[i], th[i], "ended", npShutDown)
    BY <1>2, <1>3 DEF Connects, NP!InUse, UsedState
  <2>3. th[i] \in PipeThreadPcs /\ "ended" \in ConPcs /\ npCancelled' \in 0..MAX_CLIENTS
    BY <1>1, ThreadFacts DEF ConPcs
  <2> QED BY <1>1, <2>1, <2>2, <2>3, ControlKeeps
<1>4. CASE ~NP!InUse(i)
  <2> DEFINE a == NP!Listening
  <2>1. con' = [con EXCEPT ![i] = "waiting"] /\ npPipe' = [npPipe EXCEPT ![i] = a]
    BY <1>4 DEF NP!ConnectNamedPipe
  <2>2. a \in PipeRec /\ a.state = "listening" /\ a.request = <<>> /\ a.response = <<>>
    BY EmptySeq DEF NP!Listening, PipeRec, NoClient, NP!NoClient
  <2> HIDE DEF a
  <2>3. PipesTyped(npPipe', npClient', npSlot') /\ Linked(npPipe', npClient')
    BY <1>1, <2>1, <2>2, ThreadFacts, PipesReset
  <2>4. /\ npPipe'[i] = a /\ con'[i] = "waiting" /\ con' \in [Pipes -> ConPcs]
        /\ \A j \in Pipes \ {i} : npPipe'[j] = npPipe[j] /\ con'[j] = con[j]
    BY <2>1, <2>2, ThreadFacts DEF ConPcs
  <2>5. ThreadTypes' /\ OtherInstances(i)
    BY <1>1, <2>4, ThreadFacts DEF ThreadTypes, ConPcs, OtherInstances
  <2>6. Connects(a, th[i], "waiting", npShutDown)
    BY <1>2, <2>2 DEF Connects
  <2>7. Talk(npPipe', npClient', i) /\ Busy(a, th[i], req[i], npClient) /\ Len(a.request) <= 1
    BY <2>2, <2>4 DEF Talk, Busy
  <2>8. Handled(i)'
    BY <1>1, <1>2, <2>4, <2>6, <2>7 DEF Handled, Files
  <2> QED BY <2>3, <2>5, <2>8, InstanceStep
<1> QED BY <1>3, <1>4

LEMMA ControlSteps ==
  ASSUME ThreadInv, NEW i \in Pipes,
         \/ NP!Connected(i) \/ NP!Begin(i) \/ NP!Await(i) \/ NP!Check(i) \/ NP!FlushFileBuffers(i) \/ NP!Join(i)
  PROVE  ThreadInv'
<1>0. Handled(i) /\ th[i] \in PipeThreadPcs /\ con[i] \in ConPcs
  BY ThreadFacts
<1>1. UNCHANGED <<server, npPipe, npClient, npSlot, npShutDown, req, tmp, npCancelled>>
  BY DEF NP!Connected, NP!Begin, NP!Await, NP!Check, NP!FlushFileBuffers, NP!Join, NP!Keep
<1>2. th = [th EXCEPT ![i] = th[i]] /\ con = [con EXCEPT ![i] = con[i]]
  BY ThreadFacts
<1> DEFINE To(h, k) ==
      /\ th' = [th EXCEPT ![i] = h] /\ con' = [con EXCEPT ![i] = k] /\ h \in PipeThreadPcs /\ k \in ConPcs
      /\ Connects(npPipe[i], h, k, npShutDown) /\ (h = "answer" <=> th[i] = "answer") /\ (h = "run" => th[i] = "run")
<1>3. ASSUME NEW h, NEW k, To(h, k) PROVE ThreadInv'
  <2>1. npCancelled' \in 0..MAX_CLIENTS
    BY <1>1, ThreadFacts
  <2> QED BY <1>1, <1>3, <2>1, ControlKeeps
<1>4. ASSUME NP!Connected(i) PROVE To(th[i], "ended")
  BY <1>0, <1>2, <1>4 DEF NP!Connected, NP!InUse, Handled, Connects, UsedState, ConPcs
<1>5. ASSUME NP!Begin(i) PROVE To("leave", con[i]) \/ To("await", "begun")
  BY <1>0, <1>2, <1>5 DEF NP!Begin, NP!At, NP!Goto, Handled, Connects, UsedState, ConPcs, PipeThreadPcs
<1>6. ASSUME NP!Await(i) PROVE To("leave", con[i]) \/ To("check", "none") \/ To("ended", "none")
  BY <1>0, <1>2, <1>6 DEF NP!Await, NP!At, NP!Goto, Handled, Connects, UsedState, ConPcs, PipeThreadPcs
<1>7. ASSUME NP!Check(i) PROVE To("hangUp", con[i]) \/ To("read", con[i])
  BY <1>0, <1>1, <1>2, <1>7 DEF NP!Check, NP!At, NP!Goto, Handled, Connects, UsedState, ConPcs, PipeThreadPcs
<1>8. ASSUME NP!FlushFileBuffers(i) PROVE To("check", con[i])
  BY <1>0, <1>2, <1>8 DEF NP!FlushFileBuffers, NP!At, NP!Goto, Handled, Connects, UsedState, ConPcs, PipeThreadPcs
<1>9. ASSUME NP!Join(i) PROVE To("ended", con[i])
  BY <1>0, <1>2, <1>9 DEF NP!Join, NP!At, NP!Goto, Handled, Connects, UsedState, ConPcs, PipeThreadPcs
<1> HIDE DEF To
<1> QED BY <1>3, <1>4, <1>5, <1>6, <1>7, <1>8, <1>9

LEMMA CancelThreads == ASSUME ThreadInv, NP!Cancel PROVE ThreadInv'
<1> DEFINE i == npCancelled + 1
<1>1. /\ npShutDown /\ i \in Pipes /\ npCancelled' = i
      /\ UNCHANGED <<server, npPipe, npClient, npSlot, npShutDown, req, tmp>>
      /\ \/ UNCHANGED <<th, con>>
         \/ NP!CancelIoEx(i)
  BY PipeBasics DEF NP!Cancel, NP!Keep, ThreadInv, ThreadTypes
<1> HIDE DEF i
<1>j. PICK j \in Pipes : j = i
  BY <1>1
<1>0. Handled(j) /\ th[j] \in PipeThreadPcs /\ con[j] \in ConPcs
  BY <1>j, ThreadFacts
<1>2. th = [th EXCEPT ![j] = th[j]] /\ con = [con EXCEPT ![j] = con[j]]
  BY <1>j, ThreadFacts
<1>3. npCancelled' \in 0..MAX_CLIENTS
  BY <1>1, PipeBasics
<1>4. CASE UNCHANGED <<th, con>>
  <2>1. Connects(npPipe[j], th[j], con[j], npShutDown)
    BY <1>0 DEF Handled
  <2> QED BY <1>0, <1>1, <1>2, <1>3, <1>4, <2>1, ControlKeeps
<1>5. CASE NP!CancelIoEx(i)
  <2> DEFINE h == NP!CancelsIn(th[j])
             k == IF con[j] = "waiting" THEN "ended" ELSE con[j]
  <2>1. th' = [th EXCEPT ![j] = h] /\ con' = [con EXCEPT ![j] = k]
    BY <1>j, <1>5, ThreadFacts DEF NP!CancelIoEx
  <2>2. \/ th[j] = "read" /\ h = "hangUp"
        \/ th[j] = "flushed" /\ h = "check"
        \/ th[j] = "hangUp" /\ h = "disconnect"
        \/ th[j] \notin {"read", "flushed", "hangUp"} /\ h = th[j]
    BY DEF NP!CancelsIn
  <2>3. k \in ConPcs /\ (k = "none" <=> con[j] = "none") /\ k # "waiting"
    BY <1>0 DEF ConPcs
  <2> HIDE DEF h, k
  <2>4. h \in PipeThreadPcs /\ (h = "answer" <=> th[j] = "answer") /\ (h = "run" => th[j] = "run")
    BY <1>0, <2>2 DEF PipeThreadPcs
  <2>5. Connects(npPipe[j], h, k, npShutDown)
    BY <1>0, <1>1, <2>2, <2>3 DEF Handled, Connects
  <2> QED BY <1>1, <1>3, <2>1, <2>3, <2>4, <2>5, ControlKeeps
<1> QED BY <1>1, <1>4, <1>5

LEMMA ReadFileKeeps == ASSUME ThreadInv, NEW i \in Pipes, NP!ReadFile(i) PROVE ThreadInv'
<1>1. th[i] = "read" /\ UNCHANGED <<server, npClient, npSlot, npCancelled, con, tmp>>
  BY DEF NP!ReadFile, NP!At, NP!Keep
<1>0. /\ Handled(i) /\ UsedState(npPipe[i]) /\ con[i] = "none" /\ npPipe[i] \in PipeRec
      /\ npPipe[i].request \in Seq(RequestRec)
  BY <1>1, ThreadFacts DEF Handled, Connects, PipeRec, ConPcs
<1>2. CASE npPipe[i].request # <<>> /\ req' = [req EXCEPT ![i] = Head(npPipe[i].request)]
  <2> DEFINE r == Head(npPipe[i].request)
             rest == Tail(npPipe[i].request)
             a == [npPipe[i] EXCEPT !.request = rest]
  <2>1. /\ npPipe[i].request # <<>> /\ req' = [req EXCEPT ![i] = r]
        /\ npPipe' = [npPipe EXCEPT ![i].request = Tail(@)]
        /\ npShutDown' = (npShutDown \/ req'[i].shut)
        /\ th' = [th EXCEPT ![i] = IF npShutDown' THEN "check" ELSE "run"]
    BY <1>1, <1>2 DEF NP!ReadFile, NP!Goto
  <2>2. /\ r \in RequestRec /\ rest \in Seq(RequestRec) /\ Len(npPipe[i].request) \in Nat \ {0}
        /\ Len(rest) = Len(npPipe[i].request) - 1 /\ (Len(npPipe[i].request) = 1 => rest = <<>>)
        /\ r = npPipe[i].request[1]
    BY <1>0, <2>1, TailElements
  <2>3. npPipe' = [npPipe EXCEPT ![i] = a]
    BY <2>1
  <2> HIDE DEF r, rest
  <2>4. /\ a \in PipeRec /\ a.state = npPipe[i].state /\ a.client = npPipe[i].client
        /\ a.request = rest /\ a.response = npPipe[i].response
    BY <1>0, <2>2 DEF PipeRec
  <2> HIDE DEF a
  <2>5. PipesTyped(npPipe', npClient', npSlot') /\ Linked(npPipe', npClient')
    BY <1>1, <2>3, <2>4, ThreadFacts, PipesKept
  <2> DEFINE h == IF npShutDown' THEN "check" ELSE "run"
  <2>6. /\ npPipe'[i] = a /\ th'[i] = h /\ req'[i] = r
        /\ req' \in [Pipes -> RequestRec] /\ th' \in [Pipes -> PipeThreadPcs]
        /\ \A j \in Pipes \ {i} : npPipe'[j] = npPipe[j] /\ th'[j] = th[j] /\ req'[j] = req[j]
    BY <2>1, <2>2, <2>3, <2>4, ThreadFacts DEF PipeThreadPcs
  <2>7. npShutDown' \in BOOLEAN /\ (npShutDown => npShutDown')
    BY <2>1, <2>2, <2>6, ThreadFacts DEF RequestRec
  <2>8. ThreadTypes' /\ OtherInstances(i)
    BY <1>1, <2>6, <2>7, ThreadFacts DEF ThreadTypes, ConPcs, OtherInstances
  <2>9. Connects(a, h, con[i], npShutDown') /\ Files(h, r, tmp[i])
    BY <1>0, <1>1, <2>4 DEF Handled, Connects, Files, UsedState
  <2>10. ASSUME server # "serverNP_secure"
         PROVE  Talk(npPipe', npClient, i) /\ Len(a.request) <= 1 /\ Busy(a, h, r, npClient)
    <3>1. Len(npPipe[i].request) <= 1 /\ Talk(npPipe, npClient, i)
      BY <1>0, <2>10 DEF Handled
    <3>2. rest = <<>>
      BY <2>2, <3>1
    <3>3. npPipe[i].state = "connected" =>
            /\ npPipe[i].response = <<>> /\ npClient[npPipe[i].client].pc = "read" /\ Own(r, npPipe[i].client, npClient)
      BY <2>1, <2>2, <3>1, ThreadFacts DEF Talk, Linked
    <3>4. Talk(npPipe', npClient, i)
      BY <2>4, <2>6, <3>2, <3>3 DEF Talk
    <3>5. Busy(a, h, r, npClient)
      BY <2>4, <3>2, <3>3 DEF Busy
    <3> QED BY <2>4, <3>2, <3>4, <3>5
  <2> HIDE DEF h
  <2>11. Handled(i)'
    BY <1>1, <2>6, <2>9, <2>10 DEF Handled, Files
  <2> QED BY <2>5, <2>8, <2>11, InstanceStep
<1>3. CASE /\ npPipe[i].request = <<>> /\ npPipe[i].state # "connected"
           /\ th' = [th EXCEPT ![i] = "hangUp"] /\ UNCHANGED <<npPipe, npShutDown, req>>
  <2>1. con' = [con EXCEPT ![i] = con[i]] /\ con[i] \in ConPcs /\ "hangUp" \in PipeThreadPcs /\ npCancelled' \in 0..MAX_CLIENTS
    BY <1>1, ThreadFacts DEF PipeThreadPcs
  <2>2. Connects(npPipe[i], "hangUp", con[i], npShutDown)
    BY <1>0 DEF Connects
  <2> QED BY <1>1, <1>3, <2>1, <2>2, ControlKeeps
<1> QED BY <1>2, <1>3 DEF NP!ReadFile, NP!Goto

LEMMA RunKeeps == ASSUME ThreadInv, NEW i \in Pipes, NP!Run(i) PROVE ThreadInv'
<1>1. /\ th[i] = "run" /\ UNCHANGED <<server, npPipe, npClient, npSlot, npShutDown, npCancelled, con, req>>
      /\ \/ th' = [th EXCEPT ![i] = "answer"]
         \/ server # "serverNP_secure" /\ th' = [th EXCEPT ![i] = "ended"]
  <2>1. th[i] = "run" /\ UNCHANGED <<server, npPipe, npClient, npSlot, npShutDown, npCancelled, con, req>>
    BY DEF NP!Run, NP!At, NP!Keep
  <2>2. NP!Goto(i, "answer") \/ (~NP!Secure /\ NP!Goto(i, "ended"))
    BY DEF NP!Run
  <2> QED BY <2>1, <2>2 DEF NP!Goto, NP!Secure
<1>0. Handled(i) /\ UsedState(npPipe[i]) /\ con[i] = "none" /\ req[i] \in RequestRec
  BY <1>1, ThreadFacts DEF Handled, Connects, ConPcs
<1>2. tmp' = [tmp EXCEPT ![i] = <<req[i]>>]
  <2>1. server = "serverNP_secure" => tmp[i] = <<>>
    BY <1>0, <1>1 DEF Handled, Files
  <2>2. Append(<<>>, req[i]) = <<req[i]>>
    OBVIOUS
  <2>3. tmp' = [tmp EXCEPT ![i] = Append(IF NP!Secure THEN tmp[i] ELSE <<>>, req[i])]
    BY DEF NP!Run
  <2>4. (IF NP!Secure THEN tmp[i] ELSE <<>>) = <<>>
    BY <2>1 DEF NP!Secure
  <2> QED BY <2>2, <2>3, <2>4
<1>3. PICK h \in {"answer", "ended"} : th' = [th EXCEPT ![i] = h] /\ (h = "ended" => server # "serverNP_secure")
  BY <1>1
<1>4. /\ th'[i] = h /\ tmp'[i] = <<req[i]>> /\ th' \in [Pipes -> PipeThreadPcs] /\ tmp' \in [Pipes -> Seq(RequestRec)]
      /\ \A j \in Pipes \ {i} : th'[j] = th[j] /\ tmp'[j] = tmp[j]
  <2>1. <<req[i]>> \in Seq(RequestRec)
    BY <1>0
  <2> QED BY <1>2, <1>3, <2>1, ThreadFacts DEF PipeThreadPcs
<1>5. ThreadTypes' /\ OtherInstances(i)
  BY <1>1, <1>4, ThreadFacts DEF ThreadTypes, ConPcs, OtherInstances
<1>6. Connects(npPipe[i], h, con[i], npShutDown)
  BY <1>0 DEF Connects, UsedState
<1>7. Files(h, req[i], <<req[i]>>) /\ (Busy(npPipe[i], th[i], req[i], npClient) => Busy(npPipe[i], h, req[i], npClient))
  BY <1>1, <1>3 DEF Files, Busy
<1>8. Handled(i)'
  BY <1>0, <1>1, <1>4, <1>6, <1>7 DEF Handled, Files, Talk
<1> QED BY <1>1, <1>5, <1>8, ThreadFacts, InstanceStep

LEMMA HangUpKeeps == ASSUME ThreadInv, NEW i \in Pipes, NP!HangUp(i) PROVE ThreadInv'
<1> DEFINE a == [NP!Listening EXCEPT !.state = "disconnected"]
           f == IF server = "serverNP_secure" THEN <<>> ELSE tmp[i]
           r == NP!NoRequest
<1>1. /\ th[i] \in {"disconnect", "hangUp"} /\ UNCHANGED <<server, npClient, npSlot, npShutDown, npCancelled, con>>
      /\ npPipe' = [npPipe EXCEPT ![i] = a] /\ th' = [th EXCEPT ![i] = "loop"]
      /\ tmp' = [tmp EXCEPT ![i] = f] /\ req' = [req EXCEPT ![i] = r]
  BY DEF NP!HangUp, NP!At, NP!Keep, NP!Goto, NP!Secure, NP!Disconnected
<1>2. con[i] = "none" /\ tmp[i] \in Seq(RequestRec)
  BY <1>1, ThreadFacts DEF Handled, Connects, ConPcs
<1>3. a \in PipeRec /\ a.state = "disconnected" /\ a.request = <<>> /\ a.response = <<>>
  <2>1. NP!Listening \in PipeRec /\ NP!Listening.request = <<>> /\ NP!Listening.response = <<>>
    BY EmptySeq DEF NP!Listening, PipeRec, NoClient, NP!NoClient
  <2> QED BY <2>1 DEF PipeRec
<1>4. r \in RequestRec /\ f \in Seq(RequestRec)
  BY <1>2, EmptySeq DEF NP!NoRequest, NP!Request, NP!NoClient, NoClient, RequestRec
<1> HIDE DEF a, r
<1>5. PipesTyped(npPipe', npClient', npSlot') /\ Linked(npPipe', npClient')
  BY <1>1, <1>3, ThreadFacts, PipesReset
<1>6. /\ npPipe'[i] = a /\ th'[i] = "loop" /\ tmp'[i] = f /\ req'[i] = r /\ th' \in [Pipes -> PipeThreadPcs]
      /\ tmp' \in [Pipes -> Seq(RequestRec)] /\ req' \in [Pipes -> RequestRec]
      /\ \A j \in Pipes \ {i} : npPipe'[j] = npPipe[j] /\ th'[j] = th[j] /\ tmp'[j] = tmp[j] /\ req'[j] = req[j]
  BY <1>1, <1>3, <1>4, ThreadFacts DEF PipeThreadPcs
<1>7. ThreadTypes' /\ OtherInstances(i)
  BY <1>1, <1>6, ThreadFacts DEF ThreadTypes, ConPcs, OtherInstances
<1>8. Connects(a, "loop", con[i], npShutDown) /\ Files("loop", r, f)
  BY <1>2, <1>3 DEF Connects, Files
<1>9. Talk(npPipe', npClient, i) /\ Len(a.request) <= 1 /\ Busy(a, "loop", r, npClient)
  BY <1>3, <1>6 DEF Talk, Busy
<1>10. Handled(i)'
  BY <1>1, <1>6, <1>8, <1>9 DEF Handled, Files
<1> QED BY <1>5, <1>7, <1>10, InstanceStep

LEMMA LeaveThread == ASSUME ThreadInv, NEW i \in Pipes, NP!Leave(i) PROVE ThreadInv'
<1>1. /\ th[i] = "leave" /\ UNCHANGED <<server, npClient, npSlot, npShutDown, npCancelled, con, req, tmp>>
      /\ \/ th' = [th EXCEPT ![i] = "join"] /\ con[i] # "none"
         \/ th' = [th EXCEPT ![i] = "ended"]
      /\ \/ npPipe' = npPipe
         \/ \E j \in Pipes : NP!IsListening(j) /\ npPipe' = NP!Touched(j)
  BY ThreadFacts DEF NP!Leave, NP!At, NP!Keep, NP!Goto, NP!ConnectActive
<1>2. PICK h \in {"join", "ended"} : th' = [th EXCEPT ![i] = h]
  BY <1>1
<1>3. Handled(i) /\ con[i] \in ConPcs /\ th \in [Pipes -> PipeThreadPcs]
  BY ThreadFacts
<1>4. Connects(npPipe[i], h, con[i], npShutDown) /\ h \in PipeThreadPcs
  BY <1>1, <1>3 DEF Handled, Connects, PipeThreadPcs
<1>5. CASE npPipe' = npPipe
  <2>1. con' = [con EXCEPT ![i] = con[i]] /\ npCancelled' \in 0..MAX_CLIENTS
    BY <1>1, ThreadFacts
  <2> QED BY <1>1, <1>2, <1>3, <1>4, <1>5, <2>1, ControlKeeps
<1>6. CASE \E j \in Pipes : NP!IsListening(j) /\ npPipe' = NP!Touched(j)
  <2>1. PICK j \in Pipes : NP!IsListening(j) /\ npPipe' = NP!Touched(j)
    BY <1>6
  <2> DEFINE a == [NP!Listening EXCEPT !.state = "closing"]
  <2>2. a \in PipeRec /\ a.state = "closing" /\ a.request = <<>> /\ a.response = <<>>
    <3>1. NP!Listening \in PipeRec /\ NP!Listening.request = <<>> /\ NP!Listening.response = <<>>
      BY EmptySeq DEF NP!Listening, PipeRec, NoClient, NP!NoClient
    <3> QED BY <3>1 DEF PipeRec
  <2>3. npPipe' = [npPipe EXCEPT ![j] = a]
    BY <2>1 DEF NP!Touched
  <2> HIDE DEF a
  <2>4. PipesTyped(npPipe', npClient', npSlot') /\ Linked(npPipe', npClient')
    BY <1>1, <1>3, <2>2, <2>3, PipesReset DEF ThreadInv
  <2>5. /\ npPipe'[j] = a /\ \A m \in Pipes \ {j} : npPipe'[m] = npPipe[m]
        /\ th'[i] = h /\ th' \in [Pipes -> PipeThreadPcs] /\ \A m \in Pipes \ {i} : th'[m] = th[m]
    BY <1>2, <1>3, <1>4, <2>1, <2>3, ThreadFacts
  <2>6. ThreadTypes'
    BY <1>1, <2>5 DEF ThreadTypes, ThreadInv
  <2>7. ASSUME NEW m \in Pipes PROVE Handled(m)'
    <3>1. Handled(m)
      BY DEF ThreadInv
    <3>2. Connects(npPipe[m], th'[m], con[m], npShutDown) /\ Files(th'[m], req[m], tmp[m])
      <4>1. CASE m = i
        BY <1>1, <1>3, <1>4, <2>5, <4>1 DEF Handled, Files
      <4>2. CASE m # i
        BY <2>5, <3>1, <4>2 DEF Handled
      <4> QED BY <4>1, <4>2
    <3>3. th'[m] \in {"run", "answer"} => th'[m] = th[m]
      BY <2>5
    <3>4. CASE m = j
      <4>1. Connects(a, th'[m], con[m], npShutDown)
        BY <2>2, <3>2 DEF Connects, UsedState
      <4>2. Talk(npPipe', npClient, m) /\ Len(a.request) <= 1 /\ Busy(a, th'[m], req[m], npClient)
        BY <2>2, <2>5, <3>4 DEF Talk, Busy
      <4> QED BY <1>1, <2>5, <3>2, <3>4, <4>1, <4>2 DEF Handled, Files
    <3>5. CASE m # j
      <4>1. npPipe'[m] = npPipe[m]
        BY <2>5, <3>5
      <4>2. server # "serverNP_secure" =>
              Talk(npPipe', npClient, m) /\ Len(npPipe[m].request) <= 1 /\ Busy(npPipe[m], th'[m], req[m], npClient)
        BY <3>1, <3>3, <4>1 DEF Handled, Talk, Busy
      <4> QED BY <1>1, <3>2, <4>1, <4>2 DEF Handled, Files
    <3> QED BY <3>4, <3>5
  <2> QED BY <2>4, <2>6, <2>7 DEF ThreadInv
<1> QED BY <1>1, <1>5, <1>6

\* What a thread sends: the line of its temporary file and the end.
LEMMA TwoMessages ==
  ASSUME NEW m \in MessageRec, NEW e \in MessageRec
  PROVE  [k \in 1..1 |-> m] \o <<e>> = <<m, e>>
<1> DEFINE v == [k \in 1..1 |-> m]
<1>1. v = <<m>>
  OBVIOUS
<1> HIDE DEF v
<1>2. <<m>> \o <<e>> = <<m, e>>
  <2> DEFINE s == <<m>>
             t == <<e>>
             w == <<m, e>>
  <2>1. /\ s \in Seq(MessageRec) /\ t \in Seq(MessageRec) /\ w \in Seq(MessageRec)
        /\ Len(s) = 1 /\ Len(t) = 1 /\ Len(w) = 2 /\ s[1] = m /\ t[1] = e /\ w[1] = m /\ w[2] = e
    OBVIOUS
  <2> HIDE DEF s, t, w
  <2> DEFINE c == s \o t
  <2>2. c \in Seq(MessageRec) /\ Len(c) = 2 /\ c[1] = m /\ c[2] = e
    <3>1. /\ c \in Seq(MessageRec) /\ Len(c) = Len(s) + Len(t)
          /\ \A i \in 1..Len(s) + Len(t) : c[i] = IF i <= Len(s) THEN s[i] ELSE t[i - Len(s)]
      BY <2>1, ConcatProperties
    <3> HIDE DEF c
    <3>2. c[1] = s[1] /\ c[2] = t[1]
      BY <2>1, <3>1
    <3> QED BY <2>1, <3>1, <3>2
  <2> HIDE DEF c
  <2>3. \A i \in 1..Len(c) : c[i] = w[i]
    BY <2>1, <2>2
  <2>4. c = w
    BY <2>1, <2>2, <2>3, SeqEqual
  <2> QED BY <2>4 DEF c, s, t, w
<1> QED BY <1>1, <1>2 DEF v

\* The answer is sent: its line and its end.
LEMMA AnswerKeeps == ASSUME ThreadInv, NEW i \in Pipes, NP!Answer(i) PROVE ThreadInv'
<1>1. /\ th[i] = "answer" /\ UNCHANGED <<server, npClient, npSlot, npShutDown, npCancelled, con, req>>
      /\ tmp' = [tmp EXCEPT ![i] = NP!Kept(i)]
  BY DEF NP!Answer, NP!At, NP!Keep
<1>0. /\ Handled(i) /\ UsedState(npPipe[i]) /\ con[i] = "none" /\ req[i] \in RequestRec /\ tmp[i] = <<req[i]>>
      /\ npPipe[i] \in PipeRec /\ npPipe[i].response \in Seq(MessageRec) /\ npPipe \in [Pipes -> PipeRec]
  BY <1>1, ThreadFacts DEF Handled, Connects, ConPcs, Files, PipeRec
<1> DEFINE line(n) == [of |-> req[i], rsLen |-> n]
           u == npPipe[i].response
<1>2. \A n \in {0, 2} : line(n) \in MessageRec /\ line(n).of = req[i] /\ line(n).rsLen = n
  BY <1>0 DEF MessageRec
<1>3. /\ \A n \in {0, 2} : NP!Responses(i, n) = <<line(n), line(n)>>
      /\ NP!Messages(i) = <<line(2), line(0)>>
  <2>1. Len(tmp[i]) = 1 /\ tmp[i][1] = req[i]
    BY <1>0
  <2>2. \A n \in {0, 2} : [k \in 1..Len(tmp[i]) |-> [of |-> tmp[i][k], rsLen |-> n]] = [k \in 1..1 |-> line(n)]
    BY <2>1
  <2>3. [k \in 1..Len(tmp[i]) |-> NP!Line(tmp[i][k])] = [k \in 1..1 |-> line(2)]
    BY <2>1 DEF NP!Line, NP!LineLength
  <2>4. NP!Last(req[i]) = line(0)
    BY DEF NP!Last
  <2>5. \A n \in {0, 2} : NP!Responses(i, n) = [k \in 1..1 |-> line(n)] \o <<line(n)>>
    BY <2>2 DEF NP!Responses
  <2>6. NP!Messages(i) = [k \in 1..1 |-> line(2)] \o <<line(0)>>
    BY <2>3, <2>4 DEF NP!Messages
  <2> HIDE DEF line
  <2> QED BY <1>2, <2>5, <2>6, TwoMessages
<1> HIDE DEF line
\* The outcome: what is written, and where the thread goes.
<1>4. PICK w, h :
        /\ npPipe' = w /\ th' = [th EXCEPT ![i] = h] /\ h \in {"check", "flushed", "hangUp"}
        /\ \/ w = npPipe
           \/ \E m, e \in MessageRec : w = NP!Sent(i, <<m, e>>) /\ m.of = req[i] /\ e.of = req[i]
                                       /\ (server # "serverNP_secure" => ~Ends(m))
  <2>1. CASE NP!Secure /\ (\E n \in {0, 2} : npPipe' = NP!Sent(i, NP!Responses(i, n))) /\ NP!Goto(i, "check")
    <3>1. PICK n \in {0, 2} : npPipe' = NP!Sent(i, NP!Responses(i, n))
      BY <2>1
    <3>2. npPipe' = NP!Sent(i, <<line(n), line(n)>>) /\ line(n) \in MessageRec /\ line(n).of = req[i]
      BY <1>2, <1>3, <3>1
    <3> QED BY <2>1, <3>2 DEF NP!Secure, NP!Goto
  <2>2. CASE npPipe' = NP!Sent(i, NP!Messages(i)) /\ NP!Goto(i, "flushed")
    <3>1. /\ npPipe' = NP!Sent(i, <<line(2), line(0)>>) /\ line(2) \in MessageRec /\ line(0) \in MessageRec
          /\ line(2).of = req[i] /\ line(0).of = req[i] /\ ~Ends(line(2))
      BY <1>2, <1>3, <2>2 DEF Ends
    <3> QED BY <2>2, <3>1 DEF NP!Goto
  <2>3. CASE npPipe' = npPipe /\ NP!Goto(i, "hangUp")
    BY <2>3 DEF NP!Goto
  <2> QED BY <2>1, <2>2, <2>3 DEF NP!Answer
<1>5. NP!Kept(i) \in Seq(RequestRec) /\ (server = "serverNP_secure" => NP!Kept(i) = <<>>)
  <2>1. tmp[i] \in Seq(RequestRec)
    BY <1>0
  <2> QED BY <2>1, EmptySeq DEF NP!Kept, NP!Secure
<1>6. /\ th'[i] = h /\ tmp'[i] = NP!Kept(i) /\ th' \in [Pipes -> PipeThreadPcs] /\ tmp' \in [Pipes -> Seq(RequestRec)]
      /\ \A j \in Pipes \ {i} : th'[j] = th[j] /\ tmp'[j] = tmp[j]
  BY <1>1, <1>4, <1>5, ThreadFacts DEF PipeThreadPcs
<1>7. ThreadTypes'
  BY <1>1, <1>6 DEF ThreadTypes, ThreadInv
<1>8. ASSUME NEW a \in PipeRec, npPipe' = [npPipe EXCEPT ![i] = a], a.state = npPipe[i].state, a.client = npPipe[i].client,
             a.request = npPipe[i].request, a.state # "connected" => a.response = <<>>,
             server # "serverNP_secure" => Talk(npPipe', npClient, i)
      PROVE  ThreadInv'
  <2>1. npPipe'[i] = a /\ \A j \in Pipes \ {i} : npPipe'[j] = npPipe[j]
    BY <1>0, <1>8
  <2>2. PipesTyped(npPipe', npClient', npSlot') /\ Linked(npPipe', npClient')
    BY <1>1, <1>8, ThreadFacts, PipesKept
  <2>3. OtherInstances(i)
    BY <1>1, <1>6, <2>1 DEF OtherInstances
  <2>4. Connects(a, h, con[i], npShutDown) /\ Files(h, req[i], NP!Kept(i)) /\ Busy(a, h, req[i], npClient)
    BY <1>0, <1>4, <1>5, <1>8 DEF Connects, Files, UsedState, Busy
  <2>5. server # "serverNP_secure" => Len(a.request) <= 1
    BY <1>0, <1>8 DEF Handled
  <2>6. Handled(i)'
    BY <1>1, <1>6, <1>8, <2>1, <2>4, <2>5 DEF Handled, Files
  <2> QED BY <1>7, <2>2, <2>3, <2>6, InstanceStep
<1>9. CASE npPipe' = npPipe
  <2>1. npPipe' = [npPipe EXCEPT ![i] = npPipe[i]]
    BY <1>0, <1>9
  <2>2. server # "serverNP_secure" => Talk(npPipe', npClient, i)
    BY <1>0, <1>9 DEF Handled
  <2> QED BY <1>0, <1>8, <2>1, <2>2, ThreadFacts
<1>10. CASE \E m, e \in MessageRec : npPipe' = NP!Sent(i, <<m, e>>) /\ m.of = req[i] /\ e.of = req[i]
                                    /\ (server # "serverNP_secure" => ~Ends(m)) /\ npPipe[i].state = "connected"
  <2>1. PICK m, e \in MessageRec : npPipe' = NP!Sent(i, <<m, e>>) /\ m.of = req[i] /\ e.of = req[i]
                                    /\ (server # "serverNP_secure" => ~Ends(m)) /\ npPipe[i].state = "connected"
    BY <1>10
  <2> DEFINE new == u \o <<m, e>>
             a == [npPipe[i] EXCEPT !.response = new]
  <2>2. new \in Seq(MessageRec) /\ (u = <<>> => new = <<m, e>>)
    <3> DEFINE t == <<m, e>>
    <3>1. t \in Seq(MessageRec) /\ u \in Seq(MessageRec)
      BY <1>0
    <3> HIDE DEF t, u
    <3>2. u \o t \in Seq(MessageRec) /\ (u = <<>> => u \o t = t)
      BY <3>1, ConcatProperties, ConcatEmptySeq
    <3> QED BY <3>2 DEF t
  <2> HIDE DEF new
  <2>3. /\ a \in PipeRec /\ a.state = "connected" /\ a.client = npPipe[i].client /\ a.request = npPipe[i].request
        /\ a.response = new
    BY <1>0, <2>1, <2>2 DEF PipeRec
  <2>4. npPipe' = [npPipe EXCEPT ![i] = a]
    BY <1>0, <2>1 DEF NP!Sent, new
  <2> HIDE DEF a
  <2>5. ASSUME server # "serverNP_secure" PROVE Talk(npPipe', npClient, i)
    <3>1. /\ npClient[a.client].pc = "read" /\ a.request = <<>> /\ u = <<>> /\ Own(req[i], a.client, npClient)
      BY <1>0, <1>1, <2>1, <2>3, <2>5 DEF Handled, Busy
    <3>2. npPipe'[i] = a
      BY <1>0, <2>4
    <3>3. a.response = <<m, e>>
      BY <2>2, <2>3, <3>1
    <3>4. Len(<<m, e>>) = 2 /\ <<m, e>>[1] = m /\ <<m, e>>[2] = e
      OBVIOUS
    <3>5. \A k \in 1..Len(a.response) :
            Own(a.response[k].of, a.client, npClient) /\ (Ends(a.response[k]) => k = Len(a.response))
      <4>1. ASSUME NEW k \in 1..2
            PROVE  Own(<<m, e>>[k].of, a.client, npClient) /\ (Ends(<<m, e>>[k]) => k = 2)
        <5>1. k = 1 \/ k = 2
          OBVIOUS
        <5> QED BY <2>1, <2>5, <3>1, <3>4, <5>1
      <4> QED BY <3>3, <3>4, <4>1
    <3> QED BY <3>1, <3>2, <3>5 DEF Talk
  <2> QED BY <1>0, <1>8, <2>1, <2>3, <2>4, <2>5
<1>11. npPipe' = npPipe \/ npPipe[i].state = "connected"
  BY <1>4 DEF NP!Sent
<1> QED BY <1>4, <1>9, <1>10, <1>11

\* A client has an effect on an instance that a thread is busy with.
LEMMA EffectKeepsHandled ==
  ASSUME ThreadInv, NEW i \in Pipes, Effect(npPipe, npClient, npPipe', npClient', i),
         PipesTyped(npPipe', npClient', npSlot'), UNCHANGED <<npShutDown, server, th, con, req, tmp>>
  PROVE  Handled(i)'
<1>1. /\ Handled(i) /\ npPipe \in [Pipes -> PipeRec] /\ npPipe[i] \in PipeRec
  BY ThreadFacts
<1>2. server # "serverNP_secure" => Talk(npPipe', npClient', i)
  BY <1>1, EffectKeepsTalk DEF Handled
<1> DEFINE Right == /\ Connects(npPipe'[i], th[i], con[i], npShutDown)
                    /\ server # "serverNP_secure" =>
                         Len(npPipe'[i].request) <= 1 /\ Busy(npPipe'[i], th[i], req[i], npClient')
<1>3. ASSUME NothingTo(npPipe, npClient, npPipe', npClient', i) PROVE Right
  BY <1>1, <1>3 DEF NothingTo, Handled, Busy, Own
<1>4. ASSUME OpensIt(npPipe, npClient, npPipe', npClient', i) PROVE Right
  BY <1>1, <1>4 DEF OpensIt, Handled, Connects, UsedState, Busy
<1>5. ASSUME Asks(npPipe, npClient, npPipe', npClient', i) PROVE Right
  <2>1. /\ npPipe[i].state = "connected" /\ npClient[npPipe[i].client].pc = "prompt"
        /\ \E r : npPipe'[i] = [npPipe[i] EXCEPT !.request = Append(@, r)]
    BY <1>5 DEF Asks
  <2>2. npPipe'[i].state = "connected" /\ npPipe'[i].client = npPipe[i].client
    BY <1>1, <2>1 DEF PipeRec
  <2>3. server # "serverNP_secure" => Len(npPipe'[i].request) <= 1
    BY <1>2, <2>2 DEF Talk
  <2>4. server # "serverNP_secure" => th[i] \notin {"run", "answer"}
    BY <1>1, <2>1 DEF Handled, Busy
  <2>5. Connects(npPipe'[i], th[i], con[i], npShutDown)
    BY <1>1, <2>1, <2>2 DEF Handled, Connects, UsedState
  <2> QED BY <2>3, <2>4, <2>5 DEF Busy
<1>6. ASSUME Reads(npPipe, npClient, npPipe', npClient', i) PROVE Right
  <2>1. /\ npPipe[i].state = "connected" /\ npPipe[i].response # <<>>
        /\ npPipe'[i] = [npPipe[i] EXCEPT !.response = Tail(@)]
    BY <1>6 DEF Reads
  <2>2. npPipe'[i].state = "connected" /\ npPipe'[i].request = npPipe[i].request
    BY <1>1, <2>1 DEF PipeRec
  <2>3. server # "serverNP_secure" => th[i] \notin {"run", "answer"}
    BY <1>1, <2>1 DEF Handled, Busy
  <2>4. Connects(npPipe'[i], th[i], con[i], npShutDown)
    BY <1>1, <2>1, <2>2 DEF Handled, Connects, UsedState
  <2> QED BY <1>1, <2>2, <2>3, <2>4 DEF Handled, Busy
<1>7. ASSUME Closes(npPipe, npPipe', i) PROVE Right
  BY <1>1, <1>7 DEF Closes, Handled, Connects, UsedState, Busy
<1> HIDE DEF Right
<1>8. Right
  BY <1>3, <1>4, <1>5, <1>6, <1>7 DEF Effect
<1> QED BY <1>1, <1>2, <1>8 DEF Handled, Files, Right

\* The steps of the clients and of the handler.
LEMMA ClientsKeepThreads ==
  ASSUME ThreadInv, Fine(npPipe, npClient, npSlot, npPipe', npClient', npSlot'),
         UNCHANGED <<npShutDown, npCancelled, server, th, con, req, tmp>>
  PROVE  ThreadInv'
<1>1. /\ PipesTyped(npPipe', npClient', npSlot') /\ Linked(npPipe', npClient')
      /\ \A i \in Pipes : Effect(npPipe, npClient, npPipe', npClient', i)
  BY DEF Fine
<1>2. \A i \in Pipes : Handled(i)'
  BY <1>1, EffectKeepsHandled
<1>3. ThreadTypes'
  BY DEF ThreadInv, ThreadTypes
<1> QED BY <1>1, <1>2, <1>3 DEF ThreadInv

LEMMA HandlerKeepsThreads ==
  ASSUME ThreadInv, NP!Handler, UNCHANGED <<server, th, con, req, tmp>>
  PROVE  ThreadInv'
<1>1. npShutDown' = TRUE /\ UNCHANGED <<npPipe, npClient, npSlot, npCancelled>>
  BY DEF NP!Handler
<1>2. ThreadTypes'
  BY <1>1 DEF ThreadInv, ThreadTypes
<1>3. ASSUME NEW i \in Pipes PROVE Handled(i)'
  BY <1>1 DEF ThreadInv, Handled, Connects, Files, Talk
<1> QED BY <1>1, <1>2, <1>3 DEF ThreadInv

\* The invariant of the threads holds at the start and in every step.
LEMMA ThreadsInit ==
  ASSUME NEW w \in {"serverNP", "serverNP_secure", "none"}, NP!InitOf(w)
  PROVE  ThreadInv
<1> DEFINE d == [NP!Gone EXCEPT !.pc = "locate"]
<1>1. /\ npPipe = [i \in Pipes |-> NP!Listening] /\ npClient = [c \in Clients |-> d]
      /\ npSlot = NoClient /\ npShutDown = (w = "none") /\ npCancelled = (IF w = "none" THEN MAX_CLIENTS ELSE 0)
      /\ server = w /\ th = [i \in Pipes |-> IF w = "none" THEN "ended" ELSE "loop"]
      /\ con = [i \in Pipes |-> "none"] /\ req = [i \in Pipes |-> NP!NoRequest] /\ tmp = [i \in Pipes |-> <<>>]
  BY DEF NP!InitOf, NP!PipeInit, NP!Pipes, Pipes, NP!NoClient, NoClient
<1>2. /\ NP!Listening \in PipeRec /\ NP!Listening.state = "listening"
      /\ NP!Listening.request = <<>> /\ NP!Listening.response = <<>>
  BY EmptySeq DEF NP!Listening, PipeRec, NP!NoClient, NoClient
<1>3. d \in ClientRec /\ d.pc = "locate"
  BY DEF NP!Gone, ClientRec, ClientPcs
<1>4. NP!NoRequest \in RequestRec
  BY DEF NP!NoRequest, NP!Request, RequestRec, NP!NoClient, NoClient
<1> HIDE DEF d
<1>5. PipesTyped(npPipe, npClient, npSlot) /\ Linked(npPipe, npClient)
  BY <1>1, <1>2, <1>3 DEF PipesTyped, Linked
<1>6. ThreadTypes
  BY <1>1, <1>4, EmptySeq, PipeBasics DEF ThreadTypes, PipeThreadPcs
<1>7. ASSUME NEW i \in Pipes PROVE Handled(i)
  <2>1. npPipe[i] = NP!Listening /\ th[i] \in {"ended", "loop"} /\ con[i] = "none" /\ tmp[i] = <<>>
    BY <1>1
  <2> QED BY <1>2, <2>1 DEF Handled, Connects, Files, Talk, Busy
<1> QED BY <1>5, <1>6, <1>7 DEF ThreadInv

LEMMA ThreadsNext == ASSUME ThreadInv, NP!Next PROVE ThreadInv'
<1>1. CASE \E i \in NP!Pipes : NP!Connect(i) \/ NP!Server(i)
  <2>1. PICK i \in Pipes : NP!Connect(i) \/ NP!Server(i)
    BY <1>1 DEF NP!Pipes, Pipes
  <2> QED BY <2>1, ConnectNamedPipeKeeps, ControlSteps, ReadFileKeeps, RunKeeps, AnswerKeeps, HangUpKeeps,
             LeaveThread DEF NP!Connect, NP!Server
<1>2. CASE NP!Cancel
  BY <1>2, CancelThreads
<1>3. CASE NP!Environment
  <2>0. UNCHANGED <<server, th, con, req, tmp>>
    BY <1>3 DEF NP!Environment, NP!serverVars
  <2>1. CASE \E c \in Clients : NP!Client(c, NP!Running)
    <3>1. PICK c \in Clients : NP!Client(c, NP!Running)
      BY <2>1
    <3>2. Fine(npPipe, npClient, npSlot, npPipe', npClient', npSlot') /\ UNCHANGED <<npShutDown, npCancelled>>
      BY <3>1, ServerClient DEF ThreadInv
    <3> QED BY <2>0, <3>2, ClientsKeepThreads
  <2>2. CASE NP!Broadcast \/ NP!SrvrBcst
    <3>1. /\ npSlot # NoClient /\ npClient' = [npClient EXCEPT ![npSlot].pc = "wait"] /\ npSlot' = NoClient
          /\ UNCHANGED <<npPipe, npShutDown, npCancelled>>
      BY <2>2 DEF NP!Broadcast, NP!SrvrBcst, NP!Goes, NP!NoClient, NoClient
    <3>2. Fine(npPipe, npClient, npSlot, npPipe', npClient', npSlot')
      BY <3>1, ClientTold DEF ThreadInv
    <3> QED BY <2>0, <3>1, <3>2, ClientsKeepThreads
  <2>3. CASE NP!Handler
    BY <2>0, <2>3, HandlerKeepsThreads
  <2> QED BY <1>3, <2>1, <2>2, <2>3 DEF NP!Environment
<1> QED BY <1>1, <1>2, <1>3 DEF NP!Next

LEMMA ThreadsStutter == ASSUME ThreadInv, UNCHANGED threaded PROVE ThreadInv'
<1>1. UNCHANGED <<npPipe, npClient, npSlot, npShutDown, npCancelled, server, th, con, req, tmp>>
  BY DEF threaded
<1>2. ThreadTypes'
  BY <1>1 DEF ThreadInv, ThreadTypes
<1>3. ASSUME NEW i \in Pipes PROVE Handled(i)'
  BY <1>1 DEF ThreadInv, Handled, Files, Talk
<1> QED BY <1>1, <1>2, <1>3 DEF ThreadInv

\* What the invariant says of the threads.
LEMMA ThreadsServe == ThreadInv => NP!TypeOK /\ NP!ServesConnected /\ NP!OutputOwn
<1> SUFFICES ASSUME ThreadInv PROVE NP!TypeOK /\ NP!ServesConnected /\ NP!OutputOwn
  OBVIOUS
<1>0. NP!Pipes = Pipes /\ NP!NoClient = NoClient
  BY DEF NP!Pipes, Pipes, NP!NoClient, NoClient
<1>1. /\ npPipe \in [Pipes -> PipeRec] /\ \A i \in Pipes : Handled(i)
      /\ th \in [Pipes -> PipeThreadPcs] /\ con \in [Pipes -> ConPcs]
  BY ThreadFacts DEF ThreadInv, PipesTyped, ThreadTypes, ConPcs
<1>2. NP!PipeTypeOK
  BY <1>0, <1>1 DEF NP!PipeTypeOK, ThreadInv, PipesTyped, ThreadTypes, PipeRec
<1>3. ASSUME NEW i \in Pipes
      PROVE  /\ con[i] \in {"none", "begun", "waiting", "ended"}
             /\ con[i] # "none" => th[i] \in {"await", "leave", "join", "ended"}
             /\ con[i] = "waiting" => npPipe[i].state # "disconnected"
             /\ NP!Secure \/ Len(npPipe[i].request) <= 1
  BY <1>1 DEF Handled, Connects, ConPcs, NP!Secure
<1>4. ASSUME NEW i \in Pipes, th[i] \in {"check", "read", "run", "answer", "flushed"} PROVE NP!InUse(i)
  BY <1>1, <1>4 DEF Handled, Connects, UsedState, NP!InUse
<1>5. ASSUME NEW i \in Pipes, th[i] = "answer", NEW k \in 1..Len(tmp[i]) PROVE tmp[i][k] = req[i]
  BY <1>1, <1>5 DEF Handled, Files
<1>6. NP!ServesConnected /\ NP!OutputOwn
  BY <1>0, <1>4, <1>5 DEF NP!ServesConnected, NP!OutputOwn, NP!At
<1> QED BY <1>0, <1>2, <1>3, <1>6 DEF NP!TypeOK

LEMMA ThreadsAnswer == ThreadInv /\ server # "serverNP_secure" => NP!AnswerOwn /\ NP!AnswerComplete
<1> SUFFICES ASSUME ThreadInv, server # "serverNP_secure" PROVE NP!AnswerOwn /\ NP!AnswerComplete
  OBVIOUS
<1>0. NP!Pipes = Pipes
  BY DEF NP!Pipes, Pipes
<1>1. /\ npPipe \in [Pipes -> PipeRec] /\ \A i \in Pipes : Talk(npPipe, npClient, i)
      /\ \A i \in Pipes : npPipe[i].state # "connected" => npPipe[i].response = <<>>
      /\ \A d \in Clients : npClient[d].pc \in {"prompt", "read"} => npClient[d].pipe \in Pipes
  BY DEF ThreadInv, PipesTyped, Handled
<1>2. ASSUME NEW i \in Pipes, NEW n \in 1..Len(npPipe[i].response)
      PROVE  Own(npPipe[i].response[n].of, npPipe[i].client, npClient)
  <2>1. npPipe[i].response # <<>>
    OBVIOUS
  <2> QED BY <1>1, <2>1 DEF Talk
<1>3. NP!AnswerOwn
  BY <1>0, <1>2 DEF NP!AnswerOwn, Own
<1>4. NP!AnswerComplete
  BY <1>0, <1>1 DEF NP!AnswerComplete, NP!ConnectedTo, Talk
<1> QED BY <1>3, <1>4

LEMMA ServersInvariant == ServersSpec => [](PortInv /\ ThreadInv)
<1>1. ServersInit => PortInv /\ ThreadInv
  BY PortInit, ThreadsInit DEF ServersInit, Init, NoServer, NP!Init, NoPort
<1>2. PortInv /\ ThreadInv /\ [ServersNext]_serversVars => (PortInv /\ ThreadInv)'
  <2> SUFFICES ASSUME PortInv, ThreadInv, [ServersNext]_serversVars PROVE PortInv' /\ ThreadInv'
    OBVIOUS
  <2>1. CASE Next /\ UNCHANGED threaded
    BY <2>1, PortNext, ThreadsStutter
  <2>2. CASE NP!Next /\ UNCHANGED cpVars
    BY <2>2, ThreadsNext, PortStutters
  <2>3. CASE UNCHANGED serversVars
    BY <2>3, ThreadsStutter, PortStutters DEF serversVars
  <2> QED BY <2>1, <2>2, <2>3 DEF ServersNext
<1> QED BY <1>1, <1>2, PTL DEF ServersSpec

\* OneServes for any number of instances, clients, server threads and requests:
\* the completion port has one operation of an instance or one thread at work
\* on it; before a shut down as many of its threads have ended as instances have
\* been left without service, those apart that a thread lost; and a thread of
\* serverNP or serverNP_secure works only for an instance that a client has open,
\* or had.
THEOREM InstanceServedOnce == ServersSpec => []OneServes
<1>1. PortInv /\ ThreadInv => OneServes
  BY PortTypeOK, PortOneServes, ThreadsServe DEF OneServes
<1> QED BY <1>1, ServersInvariant, PTL

\* AnswersOwn for the same: what is on its way to a client of serverNPCP or of
\* serverNP answers its own last request, and ends once; the temporary file of
\* an instance holds the output of the request in hand.
THEOREM ClientsReadOwn == ServersSpec => []AnswersOwn
<1>1. PortInv /\ ThreadInv => AnswersOwn
  BY PortAnswers, ThreadsServe, ThreadsAnswer DEF AnswersOwn
<1> QED BY <1>1, ServersInvariant, PTL
=============================================================================
