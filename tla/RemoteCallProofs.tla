--------------------------- MODULE RemoteCallProofs ---------------------------
(***************************************************************************)
(* Proofs about RemoteCall, for any calls under way, tools and peers.       *)
(***************************************************************************)
EXTENDS RemoteCall, FiniteSets, FiniteSetTheorems, TLAPS

USE CallAssumption

-----------------------------------------------------------------------------
(* The inductive invariant                                                   *)

\* A client is cached under one key, and its number is not used again.
ClientInv ==
  /\ \A k \in Keys : clients[k] # NoClient => clients[k].id \in 1 .. made
  /\ \A k, l \in Keys : clients[k] # NoClient /\ clients[k].id = clients[l].id => k = l
  /\ faulted \subseteq 1 .. made
  /\ \A k \in Keys : clients[k].id \notin faulted

\* A call that is at its peer evicts the client it is on, wherever that is cached.
Knows(r) ==
  r.stage \in {"intent", "exec"} =>
    /\ r.client.id \in 1 .. made
    /\ \A k \in Keys : clients[k].id = r.client.id => k \in {r.key, r.tool}

EvictInv == ClientInv /\ \A c \in Calls : Knows(call[c])

\* A manifest is asked of a peer, and a peer with a manifest is located.
AskInv == \A c \in Slots : call[c].stage \in {"query", "locate"} => call[c].peer \in Peers

CallInv == TypeOK /\ EvictInv /\ AskInv

-----------------------------------------------------------------------------
(* Types                                                                     *)

\* Records of calls, and what the steps make of them.
LEMMA Records ==
  /\ NoCall \in CallRecord /\ NoClient \in [id : Nat, peer : Peers \cup {Local}, port : Ports]
  /\ \A r \in CallRecord : r.tool \in Tools
  /\ \A r \in CallRecord, k \in Keys, cl \in Client \cup {NoClient} :
       [NoCall EXCEPT !.stage = "intent", !.tool = r.tool, !.key = k, !.client = cl] \in CallRecord
<1>1. 1 \in Ports /\ 1 \in 1 .. MaxAttempts /\ (CHOOSE t \in Tools : TRUE) \in Tools /\ Static \in Keys
  BY DEF Ports, Keys
<1>2. NoClient \in [id : Nat, peer : Peers \cup {Local}, port : Ports]
  BY <1>1 DEF NoClient
<1>3. NoCall \in CallRecord
  BY <1>1, <1>2 DEF CallRecord, NoCall
<1>4. \A cl \in Client \cup {NoClient} : cl \in [id : Nat, peer : Peers \cup {Local}, port : Ports]
  BY <1>2 DEF Client, Ids
<1>5. \A r \in CallRecord : r.tool \in Tools
  BY DEF CallRecord
<1>6. ASSUME NEW t \in Tools, NEW k \in Keys, NEW cl \in Client \cup {NoClient}
      PROVE  [NoCall EXCEPT !.stage = "intent", !.tool = t, !.key = k, !.client = cl] \in CallRecord
  BY <1>3, <1>4 DEF CallRecord
<1>7. QED
  BY <1>2, <1>3, <1>5, <1>6

\* The values of a call's record that its steps set one by one.
Stages == {"locate", "find", "query", "where", "intent", "exec", "closed", "audit", "stuck"}
Outcomes == {"no", "answer", "error", "nobody"}
DataStates == {"none", "checking", "checked"}

\* What the steps of a call make of its record is the record of a call.
LEMMA Updates ==
  ASSUME NEW r \in CallRecord
  PROVE  /\ \A st \in Stages : [r EXCEPT !.stage = st] \in CallRecord
         /\ \A d \in DataStates : [r EXCEPT !.data = d] \in CallRecord
         /\ \A s \in Outcomes : [r EXCEPT !.settled = s] \in CallRecord
         /\ \A a \in 1 .. MaxAttempts : [r EXCEPT !.attempt = a] \in CallRecord
         /\ \A d \in DataStates, s \in Outcomes : [r EXCEPT !.data = d, !.settled = s] \in CallRecord
         /\ \A st \in Stages, s \in Outcomes : [r EXCEPT !.stage = st, !.settled = s] \in CallRecord
         /\ \A st \in Stages, n \in Ports : [r EXCEPT !.stage = st, !.port = n] \in CallRecord
         /\ \A p \in Peers, a \in 1 .. MaxAttempts, st \in Stages :
              [r EXCEPT !.peer = p, !.attempt = a, !.stage = st] \in CallRecord
<1>. USE DEF Stages, Outcomes, DataStates
<1>1. ASSUME NEW st \in Stages PROVE [r EXCEPT !.stage = st] \in CallRecord
  BY DEF CallRecord
<1>2. ASSUME NEW d \in DataStates PROVE [r EXCEPT !.data = d] \in CallRecord
  BY DEF CallRecord
<1>3. ASSUME NEW s \in Outcomes PROVE [r EXCEPT !.settled = s] \in CallRecord
  BY DEF CallRecord
<1>4. ASSUME NEW a \in 1 .. MaxAttempts PROVE [r EXCEPT !.attempt = a] \in CallRecord
  BY DEF CallRecord
<1>5. ASSUME NEW d \in DataStates, NEW s \in Outcomes PROVE [r EXCEPT !.data = d, !.settled = s] \in CallRecord
  BY DEF CallRecord
<1>6. ASSUME NEW st \in Stages, NEW s \in Outcomes PROVE [r EXCEPT !.stage = st, !.settled = s] \in CallRecord
  BY DEF CallRecord
<1>7. ASSUME NEW st \in Stages, NEW n \in Ports PROVE [r EXCEPT !.stage = st, !.port = n] \in CallRecord
  BY DEF CallRecord
<1>8. ASSUME NEW p \in Peers, NEW a \in 1 .. MaxAttempts, NEW st \in Stages PROVE [r EXCEPT !.peer = p, !.attempt = a, !.stage = st] \in CallRecord
  BY DEF CallRecord
<1>9. QED
  BY <1>1, <1>2, <1>3, <1>4, <1>5, <1>6, <1>7, <1>8

\* The record of a call that has its client: what Use makes of it.
LEMMA Using ==
  ASSUME NEW t, NEW k, NEW cl
  PROVE  LET u == [NoCall EXCEPT !.stage = "intent", !.tool = t, !.key = k, !.client = cl]
         IN u.stage = "intent" /\ u.tool = t /\ u.key = k /\ u.client = cl
BY DEF NoCall

LEMMA InitInv == Init => CallInv
<1>. SUFFICES ASSUME Init PROVE CallInv
  OBVIOUS
<1>. USE DEF Init
<1>1. /\ port \in [Peers -> Ports] /\ manifests \in [Peers -> Ports \cup {None}]
      /\ made \in Nat /\ 1 \in Ports
  BY DEF Ports
<1>2. clients \in [Keys -> Client \cup {NoClient}]
  BY <1>1 DEF Client, Ids
<1>3. meshToken \in BOOLEAN /\ faulted \subseteq Ids
  BY Zenon
<1>4. call \in [Slots -> CallRecord]
  BY Records
<1>5. TypeOK
  BY <1>1, <1>2, <1>3, <1>4 DEF TypeOK
<1>6. ClientInv
  BY DEF ClientInv, NoClient
<1>7. \A c \in Calls : Knows(call[c])
  BY DEF Knows, NoCall, Slots
<1>8. AskInv
  BY DEF AskInv, NoCall
<1>9. QED
  BY <1>5, <1>6, <1>7, <1>8 DEF CallInv, EvictInv

LEMMA GoType ==
  ASSUME TypeOK, NEW c \in Slots, NEW r \in CallRecord, Go(c, r)
  PROVE  call' \in [Slots -> CallRecord]
BY DEF TypeOK, Go

LEMMA UseType ==
  ASSUME TypeOK, NEW c \in Slots, NEW r \in CallRecord, NEW k \in Keys,
         NEW cl \in Client \cup {NoClient}, Use(c, r, k, cl)
  PROVE  call' \in [Slots -> CallRecord]
BY Records, GoType DEF Use

LEMMA GetOrCreateType ==
  ASSUME TypeOK, NEW c \in Slots, NEW r \in CallRecord, NEW k \in Keys,
         NEW p \in Peers \cup {Local}, NEW n \in Ports, GetOrCreate(c, r, k, p, n)
  PROVE  /\ call' \in [Slots -> CallRecord] /\ made' \in Nat
         /\ clients' \in [Keys -> Client \cup {NoClient}]
<1>1. clients \in [Keys -> Client \cup {NoClient}] /\ made \in Nat
  BY DEF TypeOK
<1>2. [id |-> made + 1, peer |-> p, port |-> n] \in Client
  BY <1>1 DEF Client, Ids
<1>3. CASE clients[k] # NoClient
  BY <1>1, <1>3, UseType DEF GetOrCreate
<1>4. CASE clients[k] = NoClient
  BY <1>1, <1>2, <1>4, UseType DEF GetOrCreate
<1>5. QED
  BY <1>3, <1>4

LEMMA FastPathType ==
  ASSUME TypeOK, NEW c \in Slots, NEW r \in CallRecord, FastPath(c, r)
  PROVE  call' \in [Slots -> CallRecord] /\ UNCHANGED <<clients, made>>
<1>1. clients \in [Keys -> Client \cup {NoClient}] /\ manifests \in [Peers -> Ports \cup {None}]
  BY DEF TypeOK
<1>2. [NoCall EXCEPT !.stage = "find", !.tool = r.tool] \in CallRecord
  BY Records DEF CallRecord
<1>3. ASSUME NEW p \in Peers, manifests[p] # None
      PROVE  [r EXCEPT !.stage = "locate", !.peer = p, !.port = manifests[p],
                       !.seen = @ \cup {p}] \in CallRecord
  BY <1>1, <1>3 DEF CallRecord
<1>4. CASE Go(c, [NoCall EXCEPT !.stage = "find", !.tool = r.tool])
  BY <1>2, <1>4, GoType DEF FastPath
<1>5. ASSUME NEW p \in Peers, manifests[p] # None,
             IF clients[p] # NoClient THEN Use(c, r, p, clients[p])
             ELSE Go(c, [r EXCEPT !.stage = "locate", !.peer = p, !.port = manifests[p],
                                  !.seen = @ \cup {p}])
      PROVE  call' \in [Slots -> CallRecord]
  <2>1. p \in Keys
    BY DEF Keys
  <2>2. QED
    BY <1>1, <1>3, <1>5, <2>1, GoType, UseType
<1>6. QED
  BY <1>4, <1>5 DEF FastPath

\* Every step of a call and of a router keeps the types, and asks only peers.
LEMMA TypeKept ==
  ASSUME CallInv, Next
  PROVE  TypeOK'
<1>. USE DEF env
<1>1. TypeOK /\ \A c \in Slots : call[c] \in CallRecord
  BY DEF CallInv, TypeOK
<1>2. \A c \in Calls : c \in Slots
  BY DEF Slots
<1>3. \A c \in Routes : c \in Slots
  BY DEF Slots
<1>4. ASSUME NEW c \in Slots, NEW r \in CallRecord, Go(c, r), UNCHANGED <<env, manifests, clients, made, faulted>>
      PROVE  TypeOK'
  <2>1. call' \in [Slots -> CallRecord]
    BY <1>1, <1>4, GoType
  <2>2. QED
    BY <1>1, <1>4, <2>1 DEF TypeOK
<1>5. ASSUME NEW c \in Slots, NEW how \in {"answer", "error", "nobody"}
      PROVE  [NoCall EXCEPT !.settled = IF how = "nobody" THEN how ELSE "no"] \in CallRecord
  <2>1. (IF how = "nobody" THEN how ELSE "no") \in Outcomes
    BY DEF Outcomes
  <2>2. QED
    BY <2>1, Records, Updates
<1>6. CASE \E c \in Calls, t \in Tools : Begin(c, t)
  <2>1. PICK c \in Calls, t \in Tools : Begin(c, t)
    BY <1>6
  <2>. DEFINE r == [NoCall EXCEPT !.tool = t]
  <2>2. r \in CallRecord /\ Static \in Keys /\ r.tool = t /\ t \in Keys
    BY Records DEF CallRecord, Keys
  <2>3. /\ UNCHANGED <<role, port, manifests, cooling, meshToken, faulted>>
        /\ begins' \in 0 .. MaxBegins
    BY <1>1, <2>1 DEF Begin, TypeOK
  <2>4. \/ Use(c, r, Static, clients[Static]) /\ UNCHANGED <<clients, made>>
        \/ Use(c, r, Static, clients[t]) /\ UNCHANGED <<clients, made>>
        \/ FastPath(c, r)
    BY <2>1 DEF Begin
  <2>5. clients[Static] \in Client \cup {NoClient} /\ clients[t] \in Client \cup {NoClient}
    BY <1>1, <2>2 DEF TypeOK
  <2>6. call' \in [Slots -> CallRecord] /\ UNCHANGED <<clients, made>>
    BY <1>1, <1>2, <2>2, <2>4, <2>5, UseType, FastPathType
  <2>7. QED
    BY <1>1, <2>3, <2>6 DEF TypeOK
<1>7. ASSUME NEW c \in Calls, Locate(c) \/ Where(c)
      PROVE  TypeOK'
  <2>1. /\ call[c].peer \in Peers \cup {Local} /\ call[c].port \in Ports
        /\ call[c].tool \in Keys /\ \A p \in {call[c].peer, Local} : p \in Peers \cup {Local}
        /\ call[c].peer \in Peers => call[c].peer \in Keys
    BY <1>1, <1>2 DEF CallRecord, Keys
  <2>2. call[c].stage = "locate" => call[c].peer \in Peers
    BY <1>2 DEF CallInv, AskInv
  <2>3. /\ call' \in [Slots -> CallRecord] /\ made' \in Nat
        /\ clients' \in [Keys -> Client \cup {NoClient}]
    <3>1. CASE GetOrCreate(c, call[c], call[c].peer, call[c].peer, call[c].port) /\ call[c].peer \in Peers
      BY <1>1, <1>2, <2>1, <3>1, GetOrCreateType
    <3>2. CASE FastPath(c, call[c])
      BY <1>1, <1>2, <3>2, FastPathType DEF TypeOK
    <3>3. CASE \E p \in {call[c].peer, Local} : GetOrCreate(c, call[c], call[c].tool, p, call[c].port)
      BY <1>1, <1>2, <2>1, <3>3, GetOrCreateType
    <3>4. QED
      BY <1>7, <2>2, <3>1, <3>2, <3>3 DEF Locate, Where
  <2>4. UNCHANGED <<env, manifests, faulted>>
    BY <1>7 DEF Locate, Where
  <2>5. QED
    BY <1>1, <2>3, <2>4 DEF TypeOK
<1>8. ASSUME NEW c \in Calls, Find(c)
      PROVE  TypeOK'
  <2>1. CASE Settle(c, "nobody")
    BY <1>2, <1>4, <1>5, <1>8, <2>1 DEF Find, Settle
  <2>2. ASSUME NEW p \in Peers
        PROVE  [call[c] EXCEPT !.peer = p, !.attempt = 1,
                  !.stage = IF p \in cooling THEN "where" ELSE "query"] \in CallRecord
    <3>1. 1 \in 1 .. MaxAttempts /\ (IF p \in cooling THEN "where" ELSE "query") \in Stages
      BY DEF Stages
    <3>2. QED
      BY <1>1, <1>2, <3>1, Updates
  <2>3. QED
    BY <1>2, <1>4, <1>8, <2>1, <2>2 DEF Find
<1>9. ASSUME NEW c \in Calls, QueryAnswered(c) \/ QueryFails(c)
      PROVE  TypeOK'
  <2>1. call[c].peer \in Peers
    BY <1>2, <1>9 DEF CallInv, AskInv, QueryAnswered, QueryFails
  <2>2. port[call[c].peer] \in Ports /\ 1 \in Ports
    BY <1>1, <2>1 DEF TypeOK, Ports
  <2>3. /\ [call[c] EXCEPT !.stage = "where", !.port = port[call[c].peer]] \in CallRecord
        /\ [call[c] EXCEPT !.stage = "where", !.port = 1] \in CallRecord
        /\ call[c].attempt < MaxAttempts => [call[c] EXCEPT !.attempt = @ + 1] \in CallRecord
    <3>1. call[c].attempt < MaxAttempts => call[c].attempt + 1 \in 1 .. MaxAttempts
      BY <1>1, <1>2 DEF CallRecord
    <3>2. "where" \in Stages
      BY DEF Stages
    <3>3. QED
      BY <1>1, <1>2, <2>2, <3>1, <3>2, Updates
  <2>4. call' \in [Slots -> CallRecord]
    BY <1>1, <1>2, <1>9, <2>3, GoType DEF QueryAnswered, QueryFails
  <2>5. /\ manifests' \in [Peers -> Ports \cup {None}] /\ cooling' \subseteq Peers
        /\ UNCHANGED <<role, port, clients, begins, meshToken, made, faulted>>
    BY <1>1, <1>9, <2>1, <2>2 DEF TypeOK, QueryAnswered, QueryFails
  <2>6. QED
    BY <1>1, <2>4, <2>5 DEF TypeOK
<1>10. ASSUME NEW c \in Slots, Negotiate(c)
       PROVE  TypeOK'
  <2>1. [call[c] EXCEPT !.stage = "exec"] \in CallRecord
    BY <1>1, Updates DEF Stages
  <2>2. QED
    BY <1>4, <1>5, <1>10, <2>1 DEF Negotiate, Settle
<1>11. ASSUME NEW c \in Calls, Data(c)
       PROVE  TypeOK'
  <2>1. /\ [call[c] EXCEPT !.data = "checking"] \in CallRecord
        /\ [call[c] EXCEPT !.data = "checked", !.settled = "answer"] \in CallRecord
    BY <1>1, <1>2, Updates DEF DataStates, Outcomes
  <2>2. QED
    BY <1>2, <1>4, <1>11, <2>1 DEF Data
<1>12. ASSUME NEW c \in Calls, Verified(c)
       PROVE  TypeOK'
  <2>1. PICK how \in {"answer", "error"} :
          LET s == IF call[c].settled = "no" THEN how ELSE call[c].settled
          IN IF call[c].stage = "exec" THEN Go(c, [call[c] EXCEPT !.data = "checked", !.settled = s])
             ELSE Settle(c, s)
    BY <1>12 DEF Verified
  <2>. DEFINE s == IF call[c].settled = "no" THEN how ELSE call[c].settled
  <2>2. s \in {"answer", "error", "nobody"}
    BY <1>1, <1>2 DEF CallRecord
  <2>3. [call[c] EXCEPT !.data = "checked", !.settled = s] \in CallRecord
    <3>. HIDE DEF s
    <3>1. s \in Outcomes /\ "checked" \in DataStates
      BY <2>2 DEF Outcomes, DataStates
    <3>2. QED
      BY <1>1, <1>2, <3>1, Updates
  <2>4. QED
    BY <1>2, <1>4, <1>5, <1>12, <2>1, <2>2, <2>3 DEF Verified, Settle
<1>13. ASSUME NEW c \in Calls, End(c) \/ Error(c)
       PROVE  TypeOK'
  <2>1. PICK how \in {"end", "error"} : Closed(c, how)
    BY <1>13 DEF End, Error
  <2>2. [call[c] EXCEPT !.stage = "closed", !.settled = IF how = "error" THEN how ELSE @] \in CallRecord
    <3>1. call[c].settled \in Outcomes
      BY <1>1, <1>2 DEF CallRecord, Outcomes
    <3>2. (IF how = "error" THEN how ELSE call[c].settled) \in Outcomes /\ "closed" \in Stages
      BY <3>1 DEF Outcomes, Stages
    <3>3. QED
      BY <1>1, <1>2, <3>2, Updates
  <2>. DEFINE s == IF call[c].settled = "no" THEN "error" ELSE call[c].settled
  <2>3. s \in {"answer", "error", "nobody"}
    BY <1>1, <1>2 DEF CallRecord
  <2>4. call' \in [Slots -> CallRecord]
    BY <1>1, <1>2, <1>5, <2>1, <2>2, <2>3, GoType DEF Closed, Settle
  <2>5. /\ clients' \in [Keys -> Client \cup {NoClient}] /\ faulted' \subseteq Ids
        /\ UNCHANGED <<env, manifests, made>>
    <3>1. CASE End(c)
      BY <1>1, <3>1 DEF TypeOK, End
    <3>2. CASE Error(c)
      <4>1. call[c].client.id \in 1 .. made
        BY <3>2 DEF CallInv, EvictInv, Knows, Error
      <4>2. clients' \in [Keys -> Client \cup {NoClient}]
        BY <1>1, <3>2 DEF TypeOK, Error
      <4>3. faulted' \subseteq Ids
        <5>1. made \in Nat /\ faulted \subseteq Ids
          BY <1>1 DEF TypeOK
        <5>2. call[c].client.id \in Ids
          BY <4>1, <5>1 DEF Ids
        <5>3. QED
          BY <3>2, <5>1, <5>2 DEF Error
      <4>4. QED
        BY <3>2, <4>2, <4>3 DEF Error
    <3>3. QED
      BY <1>13, <3>1, <3>2
  <2>6. QED
    BY <1>1, <2>4, <2>5 DEF TypeOK
<1>14. ASSUME NEW r \in Routes, NEW t \in Tools, RouteBegin(r, t)
       PROVE  TypeOK'
  <2>1. PICK p \in Peers, host \in Peers \cup {Local}, n \in Ports :
          Go(r, [NoCall EXCEPT !.stage = "token", !.tool = t, !.peer = p,
                               !.client = [id |-> 0, peer |-> host, port |-> n]])
    BY <1>14 DEF RouteBegin
  <2>2. [NoCall EXCEPT !.stage = "token", !.tool = t, !.peer = p,
                       !.client = [id |-> 0, peer |-> host, port |-> n]] \in CallRecord
    BY Records DEF CallRecord
  <2>3. call' \in [Slots -> CallRecord]
    BY <1>1, <1>3, <2>1, <2>2, GoType
  <2>4. QED
    BY <1>1, <1>14, <2>3 DEF TypeOK, RouteBegin
<1>15. ASSUME NEW r \in Routes, RouteToken(r)
       PROVE  TypeOK'
  <2>1. [call[r] EXCEPT !.stage = "intent"] \in CallRecord
    BY <1>1, <1>3, Updates DEF Stages
  <2>2. call' \in [Slots -> CallRecord]
    BY <1>1, <1>3, <1>5, <1>15, <2>1, GoType DEF RouteToken, Settle
  <2>3. meshToken \in BOOLEAN
    BY <1>1 DEF TypeOK
  <2>4. meshToken' \in BOOLEAN
    BY <1>15, <2>3 DEF RouteToken
  <2>5. QED
    BY <1>1, <1>15, <2>2, <2>4 DEF TypeOK, RouteToken
<1>16. ASSUME NEW r \in Routes, RouteStuck(r) \/ RouteData(r) \/ RouteEnd(r) \/ RouteSettles(r)
       PROVE  TypeOK'
  <2>1. /\ \A d \in {"checking", "checked"} : [call[r] EXCEPT !.data = d] \in CallRecord
        /\ [call[r] EXCEPT !.stage = "audit"] \in CallRecord
        /\ [call[r] EXCEPT !.stage = "stuck"] \in CallRecord
    BY <1>1, <1>3, Updates DEF Stages, DataStates
  <2>2. call' \in [Slots -> CallRecord]
    BY <1>1, <1>3, <1>5, <1>16, <2>1, GoType DEF RouteStuck, RouteData, RouteEnd, RouteSettles, Settle
  <2>3. UNCHANGED <<env, manifests, clients, made, faulted>>
    BY <1>16 DEF RouteStuck, RouteData, RouteEnd, RouteSettles
  <2>4. QED
    BY <1>1, <2>2, <2>3 DEF TypeOK
<1>17. CASE \/ \E p \in Peers, force \in BOOLEAN : Discover(p, force)
            \/ \E p \in Peers : Moves(p) \/ CoolEnds(p)
  BY <1>1, <1>17 DEF Discover, Moves, CoolEnds, TypeOK, Ports
<1>18. QED
  BY <1>2, <1>3, <1>6, <1>7, <1>8, <1>9, <1>10, <1>11, <1>12, <1>13, <1>14, <1>15, <1>16, <1>17
  DEF Next, Step, RouteStep

-----------------------------------------------------------------------------
(* What a step does to the cache                                             *)

\* A step of a call that is not to its peer, or stays on the client it is on.
LEMMA GoKeeps ==
  ASSUME CallInv, NEW c \in Slots, NEW r, Go(c, r), UNCHANGED <<clients, made, faulted>>,
         \/ r.stage \notin {"intent", "exec"}
         \/ c \notin Calls
         \/ /\ call[c].stage \in {"intent", "exec"}
            /\ r.client = call[c].client /\ r.key = call[c].key /\ r.tool = call[c].tool
  PROVE  EvictInv'
<1>1. \A d \in Calls : d \in Slots
  BY DEF Slots
<1>2. ClientInv /\ (\A d \in Calls : Knows(call[d])) /\ call \in [Slots -> CallRecord]
  BY DEF CallInv, EvictInv, TypeOK
<1>3. ClientInv'
  BY <1>2 DEF ClientInv
<1>4. ASSUME NEW d \in Calls PROVE Knows(call[d])'
  BY <1>1, <1>2 DEF Go, Knows
<1>5. QED
  BY <1>3, <1>4 DEF EvictInv

\* A call that takes a client from the cache knows where it is.
LEMMA UseKeeps ==
  ASSUME CallInv, NEW c \in Calls, NEW r \in CallRecord, NEW k \in Keys, NEW q \in {k, r.tool},
         q \in Keys, clients[q] # NoClient, Use(c, r, k, clients[q]),
         UNCHANGED <<clients, made, faulted>>
  PROVE  EvictInv'
<1>1. ClientInv /\ (\A d \in Calls : Knows(call[d])) /\ call \in [Slots -> CallRecord]
      /\ \A d \in Calls : d \in Slots
  BY DEF CallInv, EvictInv, TypeOK, Slots
<1>2. clients[q] \in Client
  BY DEF CallInv, TypeOK
<1>3. /\ call'[c].client = clients[q] /\ call'[c].key = k /\ call'[c].tool = r.tool
      /\ \A d \in Calls \ {c} : call'[d] = call[d]
  BY <1>1, Using DEF Use, Go
<1>4. Knows(call[c])'
  BY <1>1, <1>3 DEF Knows, ClientInv
<1>5. \A d \in Calls \ {c} : Knows(call[d])'
  BY <1>1, <1>3 DEF Knows
<1>6. ClientInv'
  BY <1>1 DEF ClientInv
<1>7. QED
  BY <1>4, <1>5, <1>6 DEF EvictInv

\* A new client has a number of its own.
LEMMA GetOrCreateKeeps ==
  ASSUME CallInv, NEW c \in Calls, NEW r \in CallRecord, NEW k \in Keys,
         NEW p, NEW n, GetOrCreate(c, r, k, p, n), UNCHANGED faulted
  PROVE  EvictInv'
<1>1. CASE clients[k] # NoClient
  BY <1>1, UseKeeps DEF GetOrCreate
<1>2. CASE clients[k] = NoClient
  <2>. DEFINE cl == [id |-> made + 1, peer |-> p, port |-> n]
  <2>1. /\ Use(c, r, k, cl) /\ clients' = [clients EXCEPT ![k] = cl] /\ made' = made + 1
    BY <1>2 DEF GetOrCreate
  <2>2. /\ ClientInv /\ (\A d \in Calls : Knows(call[d])) /\ call \in [Slots -> CallRecord]
        /\ \A d \in Calls : d \in Slots
        /\ made \in Nat /\ clients \in [Keys -> Client \cup {NoClient}]
    BY DEF CallInv, EvictInv, TypeOK, Slots
  <2>3. cl # NoClient /\ cl.id = made + 1
    BY <2>2 DEF NoClient
  <2>4. clients'[k] = cl /\ \A l \in Keys \ {k} : clients'[l] = clients[l]
    BY <2>1, <2>2
  <2>5. \A l \in Keys \ {k} : clients[l].id \in 0 .. made
    BY <2>2 DEF ClientInv, NoClient
  <2>6. ClientInv'
    <3>1. \A l \in Keys : clients'[l] # NoClient => clients'[l].id \in 1 .. made'
      BY <2>1, <2>2, <2>3, <2>4 DEF ClientInv
    <3>2. \A l, m \in Keys : clients'[l] # NoClient /\ clients'[l].id = clients'[m].id => l = m
      BY <2>2, <2>3, <2>4, <2>5 DEF ClientInv
    <3>3. faulted' \subseteq 1 .. made'
      BY <2>1, <2>2 DEF ClientInv
    <3>4. made + 1 \notin faulted
      BY <2>2 DEF ClientInv
    <3>5. \A l \in Keys : clients'[l].id \notin faulted'
      BY <2>2, <2>3, <2>4, <3>4 DEF ClientInv
    <3>6. QED
      BY <3>1, <3>2, <3>3, <3>5 DEF ClientInv
  <2>7. /\ call'[c].client = cl /\ call'[c].key = k
        /\ \A d \in Calls \ {c} : call'[d] = call[d]
    <3>. HIDE DEF cl
    <3>1. QED
      BY <2>1, <2>2, Using DEF Use, Go
  <2>8. Knows(call[c])'
    BY <2>1, <2>2, <2>3, <2>4, <2>5, <2>7 DEF Knows
  <2>9. ASSUME NEW d \in Calls \ {c} PROVE Knows(call[d])'
    BY <2>1, <2>2, <2>3, <2>4, <2>7 DEF Knows
  <2>10. QED
    BY <2>6, <2>8, <2>9 DEF EvictInv
<1>3. QED
  BY <1>1, <1>2

LEMMA FastPathKeeps ==
  ASSUME CallInv, NEW c \in Calls, NEW r \in CallRecord, FastPath(c, r), UNCHANGED faulted
  PROVE  EvictInv'
<1>1. c \in Slots /\ NoCall \in CallRecord
  BY Records DEF Slots
<1>2. [NoCall EXCEPT !.stage = "find", !.tool = r.tool].stage = "find"
  BY <1>1 DEF CallRecord
<1>3. UNCHANGED <<clients, made>>
  BY DEF FastPath
<1>4. CASE Go(c, [NoCall EXCEPT !.stage = "find", !.tool = r.tool])
  BY <1>1, <1>2, <1>3, <1>4, GoKeeps
<1>5. ASSUME NEW p \in Peers,
             IF clients[p] # NoClient THEN Use(c, r, p, clients[p])
             ELSE Go(c, [r EXCEPT !.stage = "locate", !.peer = p, !.port = manifests[p],
                                  !.seen = @ \cup {p}])
      PROVE  EvictInv'
  <2>1. p \in Keys
    BY DEF Keys
  <2>2. [r EXCEPT !.stage = "locate", !.peer = p, !.port = manifests[p],
                  !.seen = @ \cup {p}].stage = "locate"
    BY DEF CallRecord
  <2>3. CASE clients[p] # NoClient
    BY <1>3, <1>5, <2>1, <2>3, UseKeeps
  <2>4. CASE clients[p] = NoClient
    BY <1>1, <1>3, <1>5, <2>2, <2>4, GoKeeps
  <2>5. QED
    BY <2>3, <2>4
<1>6. QED
  BY <1>4, <1>5 DEF FastPath

\* The end of a stream leaves the call away from its peer.
LEMMA ClosedStage ==
  ASSUME CallInv, NEW c \in Slots, NEW how, Closed(c, how)
  PROVE  call'[c].stage \notin {"intent", "exec"} /\ \A d \in Slots \ {c} : call'[d] = call[d]
<1>1. call \in [Slots -> CallRecord] /\ NoCall \in CallRecord /\ NoCall.stage = "idle"
  BY Records DEF CallInv, TypeOK, NoCall
<1>2. /\ \A s : [call[c] EXCEPT !.stage = "closed", !.settled = s].stage = "closed"
      /\ \A s : [NoCall EXCEPT !.settled = s].stage = "idle"
  BY <1>1 DEF CallRecord
<1>3. \E r : Go(c, r) /\ r.stage \in {"closed", "idle"}
  BY <1>2 DEF Closed, Settle
<1>4. QED
  BY <1>1, <1>3 DEF Go

\* A stream that raises an error takes its client out of the cache.
LEMMA ErrorKeeps ==
  ASSUME CallInv, NEW c \in Calls, Error(c)
  PROVE  EvictInv'
<1>1. /\ ClientInv /\ (\A d \in Calls : Knows(call[d])) /\ c \in Slots
      /\ \A d \in Calls : d \in Slots
      /\ made \in Nat
  BY DEF CallInv, EvictInv, TypeOK, Slots
<1>2. /\ call[c].stage = "exec" /\ UNCHANGED made
      /\ clients' = [k \in Keys |-> IF k \in {call[c].key, call[c].tool} THEN NoClient
                                                                        ELSE clients[k]]
      /\ faulted' = faulted \cup {call[c].client.id}
  BY DEF Error
<1>3. call'[c].stage \notin {"intent", "exec"} /\ \A d \in Slots \ {c} : call'[d] = call[d]
  BY <1>1, ClosedStage DEF Error
<1>4. /\ call[c].client.id \in 1 .. made
      /\ \A k \in Keys : clients[k].id = call[c].client.id => k \in {call[c].key, call[c].tool}
  BY <1>1, <1>2 DEF Knows
<1>5. \A k \in Keys : \/ clients'[k] = NoClient /\ k \in {call[c].key, call[c].tool}
                      \/ clients'[k] = clients[k] /\ k \notin {call[c].key, call[c].tool}
  BY <1>2
<1>6. NoClient.id = 0 /\ 0 \notin faulted'
  BY <1>1, <1>2, <1>4 DEF NoClient, ClientInv
<1>7. ClientInv'
  <2>1. \A k \in Keys : clients'[k] # NoClient => clients'[k].id \in 1 .. made'
    BY <1>1, <1>2, <1>5 DEF ClientInv
  <2>2. \A k, l \in Keys : clients'[k] # NoClient /\ clients'[k].id = clients'[l].id => k = l
    BY <1>1, <1>5, <1>6, <2>1, <1>2 DEF ClientInv
  <2>3. faulted' \subseteq 1 .. made'
    BY <1>1, <1>2, <1>4 DEF ClientInv
  <2>4. \A k \in Keys : clients'[k].id \notin faulted'
    BY <1>1, <1>2, <1>4, <1>5, <1>6 DEF ClientInv
  <2>5. QED
    BY <2>1, <2>2, <2>3, <2>4 DEF ClientInv
<1>8. ASSUME NEW d \in Calls \ {c} PROVE Knows(call[d])'
  BY <1>1, <1>2, <1>3, <1>5, <1>6 DEF Knows
<1>9. Knows(call[c])'
  BY <1>3 DEF Knows
<1>10. QED
  BY <1>7, <1>8, <1>9 DEF EvictInv

-----------------------------------------------------------------------------
LEMMA EvictKept ==
  ASSUME CallInv, Next
  PROVE  EvictInv'
<1>. USE DEF env
<1>1. /\ call \in [Slots -> CallRecord] /\ NoCall \in CallRecord /\ NoCall.stage = "idle"
      /\ \A c \in Calls : c \in Slots /\ call[c] \in CallRecord
      /\ \A r \in Routes : r \in Slots /\ call[r] \in CallRecord /\ r \notin Calls
  BY Records DEF CallInv, TypeOK, Slots, NoCall
<1>2. ASSUME NEW c \in Slots, NEW how, Settle(c, how), UNCHANGED <<clients, made, faulted>>
      PROVE  EvictInv'
  <2>1. [NoCall EXCEPT !.settled = IF how = "nobody" THEN how ELSE "no"].stage = "idle"
    BY <1>1 DEF CallRecord
  <2>2. QED
    BY <1>2, <2>1, GoKeeps DEF Settle
<1>3. CASE \E c \in Calls, t \in Tools : Begin(c, t)
  <2>1. PICK c \in Calls, t \in Tools : Begin(c, t)
    BY <1>3
  <2>. DEFINE r == [NoCall EXCEPT !.tool = t]
  <2>2. r \in CallRecord /\ Static \in Keys /\ r.tool = t /\ t \in Keys
    BY <1>1 DEF CallRecord, Keys
  <2>3. /\ UNCHANGED faulted
        /\ \/ Use(c, r, Static, clients[Static]) /\ clients[Static] # NoClient /\ UNCHANGED <<clients, made>>
           \/ Use(c, r, Static, clients[t]) /\ clients[t] # NoClient /\ UNCHANGED <<clients, made>>
           \/ FastPath(c, r)
    BY <2>1 DEF Begin
  <2>. HIDE DEF r
  <2>4. QED
    BY <2>2, <2>3, UseKeeps, FastPathKeeps
<1>4. ASSUME NEW c \in Calls, Locate(c) \/ Where(c)
      PROVE  EvictInv'
  <2>1. call[c].tool \in Keys /\ (call[c].stage = "locate" => call[c].peer \in Keys)
    BY <1>1 DEF CallRecord, Keys, CallInv, AskInv
  <2>2. UNCHANGED faulted
    BY <1>4 DEF Locate, Where
  <2>3. QED
    BY <1>1, <1>4, <2>1, <2>2, GetOrCreateKeeps, FastPathKeeps DEF Locate, Where
<1>5. ASSUME NEW c \in Calls, Find(c) \/ QueryAnswered(c) \/ QueryFails(c) \/ Data(c)
      PROVE  EvictInv'
  <2>1. CASE Find(c)
    <3>1. \A p : [call[c] EXCEPT !.peer = p, !.attempt = 1,
                    !.stage = IF p \in cooling THEN "where" ELSE "query"].stage \in {"where", "query"}
      BY <1>1 DEF CallRecord
    <3>2. QED
      BY <1>1, <1>2, <2>1, <3>1, GoKeeps DEF Find
  <2>2. CASE QueryAnswered(c)
    <3>1. \A n : [call[c] EXCEPT !.stage = "where", !.port = n].stage = "where"
      BY <1>1 DEF CallRecord
    <3>2. QED
      BY <1>1, <2>2, <3>1, GoKeeps DEF QueryAnswered
  <2>3. CASE QueryFails(c)
    <3>1. /\ [call[c] EXCEPT !.stage = "where", !.port = 1].stage = "where"
          /\ [call[c] EXCEPT !.attempt = @ + 1].stage = call[c].stage
          /\ call[c].stage = "query"
      BY <1>1, <2>3 DEF CallRecord, QueryFails
    <3>2. QED
      BY <1>1, <2>3, <3>1, GoKeeps DEF QueryFails
  <2>4. CASE Data(c)
    <3>. DEFINE a == [call[c] EXCEPT !.data = "checking"]
                b == [call[c] EXCEPT !.data = "checked", !.settled = "answer"]
    <3>1. /\ a.client = call[c].client /\ a.key = call[c].key /\ a.tool = call[c].tool
          /\ b.client = call[c].client /\ b.key = call[c].key /\ b.tool = call[c].tool
          /\ call[c].stage = "exec" /\ (Go(c, a) \/ Go(c, b)) /\ UNCHANGED <<clients, made, faulted>>
      BY <1>1, <2>4 DEF CallRecord, Data
    <3>. HIDE DEF a, b
    <3>2. QED
      BY <1>1, <3>1, GoKeeps
  <2>5. QED
    BY <1>5, <2>1, <2>2, <2>3, <2>4
<1>6. ASSUME NEW c \in Slots, Negotiate(c)
      PROVE  EvictInv'
  <2>. DEFINE a == [call[c] EXCEPT !.stage = "exec"]
  <2>1. /\ a.client = call[c].client /\ a.key = call[c].key /\ a.tool = call[c].tool
        /\ call[c].stage = "intent" /\ (Go(c, a) \/ Settle(c, "error"))
        /\ UNCHANGED <<clients, made, faulted>>
    BY <1>1, <1>6 DEF CallRecord, Negotiate
  <2>. HIDE DEF a
  <2>2. QED
    BY <1>2, <2>1, GoKeeps
<1>7. ASSUME NEW c \in Calls, Verified(c)
      PROVE  EvictInv'
  <2>1. PICK how \in {"answer", "error"} :
          LET s == IF call[c].settled = "no" THEN how ELSE call[c].settled
          IN IF call[c].stage = "exec" THEN Go(c, [call[c] EXCEPT !.data = "checked", !.settled = s])
             ELSE Settle(c, s)
    BY <1>7 DEF Verified
  <2>. DEFINE s == IF call[c].settled = "no" THEN how ELSE call[c].settled
              a == [call[c] EXCEPT !.data = "checked", !.settled = s]
  <2>2. a.client = call[c].client /\ a.key = call[c].key /\ a.tool = call[c].tool
    BY <1>1 DEF CallRecord
  <2>3. UNCHANGED <<clients, made, faulted>> /\ IF call[c].stage = "exec" THEN Go(c, a) ELSE Settle(c, s)
    BY <1>7, <2>1 DEF Verified
  <2>. HIDE DEF a, s
  <2>4. QED
    BY <1>1, <1>2, <2>2, <2>3, GoKeeps
<1>8. ASSUME NEW c \in Calls, End(c)
      PROVE  EvictInv'
  <2>1. UNCHANGED <<clients, made, faulted>> /\ c \in Slots
    BY <1>1, <1>8 DEF End
  <2>2. call'[c].stage \notin {"intent", "exec"} /\ \A d \in Slots \ {c} : call'[d] = call[d]
    BY <1>8, <2>1, ClosedStage DEF End
  <2>3. QED
    BY <1>1, <2>1, <2>2 DEF CallInv, EvictInv, ClientInv, Knows
<1>9. ASSUME NEW r \in Routes, \/ \E t \in Tools : RouteBegin(r, t)
                               \/ RouteToken(r) \/ RouteStuck(r) \/ RouteData(r) \/ RouteEnd(r) \/ RouteSettles(r)
      PROVE  EvictInv'
  <2>1. UNCHANGED <<clients, made, faulted>> /\ \E a : Go(r, a)
    BY <1>9 DEF RouteBegin, RouteToken, RouteStuck, RouteData, RouteEnd, RouteSettles, Settle
  <2>2. QED
    BY <1>1, <2>1, GoKeeps
<1>10. CASE \/ \E p \in Peers, force \in BOOLEAN : Discover(p, force)
            \/ \E p \in Peers : Moves(p) \/ CoolEnds(p)
  BY <1>10 DEF Discover, Moves, CoolEnds, CallInv, EvictInv, ClientInv, Knows
<1>11. QED
  BY <1>1, <1>3, <1>4, <1>5, <1>6, <1>7, <1>8, <1>9, <1>10, ErrorKeeps DEF Next, Step, RouteStep

\* A call asks, and locates, the peer it has found.
LEMMA AskKept ==
  ASSUME CallInv, Next
  PROVE  AskInv'
<1>. USE DEF env
<1>1. /\ call \in [Slots -> CallRecord] /\ NoCall \in CallRecord /\ NoCall.stage = "idle"
      /\ \A c \in Calls : c \in Slots /\ call[c] \in CallRecord
      /\ \A r \in Routes : r \in Slots /\ call[r] \in CallRecord
      /\ \A c \in Slots : call[c].stage \in {"query", "locate"} => call[c].peer \in Peers
  BY Records DEF CallInv, TypeOK, Slots, NoCall, AskInv
<1>2. ASSUME NEW c \in Slots, NEW r, Go(c, r),
             r.stage \in {"query", "locate"} => r.peer \in Peers
      PROVE  AskInv'
  BY <1>1, <1>2 DEF Go, AskInv
<1>3. ASSUME NEW c \in Slots, NEW how, Settle(c, how)
      PROVE  AskInv'
  <2>1. [NoCall EXCEPT !.settled = IF how = "nobody" THEN how ELSE "no"].stage = "idle"
    BY <1>1 DEF CallRecord
  <2>2. QED
    BY <1>2, <1>3, <2>1 DEF Settle
<1>4. ASSUME NEW c \in Slots, NEW r \in CallRecord, NEW k, NEW cl, Use(c, r, k, cl)
      PROVE  AskInv'
  <2>1. [NoCall EXCEPT !.stage = "intent", !.tool = r.tool, !.key = k, !.client = cl].stage = "intent"
    BY <1>1 DEF CallRecord
  <2>2. QED
    BY <1>2, <1>4, <2>1 DEF Use
<1>5. ASSUME NEW c \in Slots, NEW r \in CallRecord, FastPath(c, r)
      PROVE  AskInv'
  <2>1. [NoCall EXCEPT !.stage = "find", !.tool = r.tool].stage = "find"
    BY <1>1 DEF CallRecord
  <2>2. \A p \in Peers : [r EXCEPT !.stage = "locate", !.peer = p, !.port = manifests[p],
                                   !.seen = @ \cup {p}].peer \in Peers
    BY DEF CallRecord
  <2>3. QED
    BY <1>2, <1>4, <1>5, <2>1, <2>2 DEF FastPath
<1>6. CASE \E c \in Calls, t \in Tools : Begin(c, t)
  <2>1. \A t \in Tools : [NoCall EXCEPT !.tool = t] \in CallRecord
    BY <1>1 DEF CallRecord
  <2>2. QED
    BY <1>1, <1>4, <1>5, <1>6, <2>1 DEF Begin
<1>7. ASSUME NEW c \in Calls, Locate(c) \/ Where(c)
      PROVE  AskInv'
  <2>1. ASSUME NEW k, NEW p, NEW n, GetOrCreate(c, call[c], k, p, n) PROVE AskInv'
    BY <1>1, <1>4, <2>1 DEF GetOrCreate
  <2>2. QED
    BY <1>1, <1>5, <1>7, <2>1 DEF Locate, Where
<1>8. ASSUME NEW c \in Slots, Find(c) \/ QueryAnswered(c) \/ QueryFails(c) \/ Data(c) \/ Negotiate(c)
      PROVE  AskInv'
  <2>1. /\ \A p \in Peers : [call[c] EXCEPT !.peer = p, !.attempt = 1,
                               !.stage = IF p \in cooling THEN "where" ELSE "query"].peer \in Peers
        /\ \A n : [call[c] EXCEPT !.stage = "where", !.port = n].stage = "where"
        /\ [call[c] EXCEPT !.attempt = @ + 1].peer = call[c].peer
        /\ [call[c] EXCEPT !.attempt = @ + 1].stage = call[c].stage
        /\ [call[c] EXCEPT !.data = "checking"].stage = call[c].stage
        /\ [call[c] EXCEPT !.data = "checked", !.settled = "answer"].stage = call[c].stage
        /\ [call[c] EXCEPT !.stage = "exec"].stage = "exec"
    BY <1>1 DEF CallRecord
  <2>2. CASE Find(c)
    BY <1>2, <1>3, <2>1, <2>2 DEF Find
  <2>3. CASE QueryAnswered(c) \/ QueryFails(c)
    BY <1>1, <1>2, <2>1, <2>3 DEF QueryAnswered, QueryFails
  <2>4. CASE Data(c) \/ Negotiate(c)
    BY <1>2, <1>3, <2>1, <2>4 DEF Data, Negotiate
  <2>5. QED
    BY <1>8, <2>2, <2>3, <2>4
<1>9. ASSUME NEW c \in Calls, Verified(c) \/ End(c) \/ Error(c)
      PROVE  AskInv'
  <2>1. \A s : [call[c] EXCEPT !.data = "checked", !.settled = s].stage = call[c].stage
    BY <1>1 DEF CallRecord
  <2>2. CASE Verified(c)
    BY <1>1, <1>2, <1>3, <2>1, <2>2 DEF Verified
  <2>3. ASSUME NEW how, Closed(c, how) PROVE AskInv'
    <3>1. \A s : [call[c] EXCEPT !.stage = "closed", !.settled = s].stage = "closed"
      BY <1>1 DEF CallRecord
    <3>2. QED
      BY <1>1, <1>2, <1>3, <2>3, <3>1 DEF Closed
  <2>4. QED
    BY <1>9, <2>2, <2>3 DEF End, Error
<1>10. ASSUME NEW r \in Routes, \/ \E t \in Tools : RouteBegin(r, t)
                                \/ RouteToken(r) \/ RouteStuck(r) \/ RouteData(r) \/ RouteEnd(r) \/ RouteSettles(r)
       PROVE  AskInv'
  <2>1. /\ \A t, p, cl : [NoCall EXCEPT !.stage = "token", !.tool = t, !.peer = p,
                                        !.client = cl].stage = "token"
        /\ [call[r] EXCEPT !.stage = "intent"].stage = "intent"
        /\ \A d : [call[r] EXCEPT !.data = d].stage = call[r].stage
        /\ [call[r] EXCEPT !.stage = "audit"].stage = "audit"
        /\ [call[r] EXCEPT !.stage = "stuck"].stage = "stuck"
    BY <1>1 DEF CallRecord
  <2>2. QED
    BY <1>1, <1>2, <1>3, <1>10, <2>1 DEF RouteBegin, RouteToken, RouteStuck, RouteData, RouteEnd, RouteSettles
<1>11. CASE \/ \E p \in Peers, force \in BOOLEAN : Discover(p, force)
            \/ \E p \in Peers : Moves(p) \/ CoolEnds(p)
  BY <1>11 DEF Discover, Moves, CoolEnds, CallInv, AskInv
<1>12. QED
  BY <1>1, <1>6, <1>7, <1>8, <1>9, <1>10, <1>11 DEF Next, Step, RouteStep

-----------------------------------------------------------------------------
(* Theorems                                                                  *)

LEMMA CallInvInductive == Spec => []CallInv
<1>1. Init => CallInv
  BY InitInv
<1>2. CallInv /\ Next => CallInv'
  BY TypeKept, EvictKept, AskKept DEF CallInv
<1>3. CallInv /\ UNCHANGED vars => CallInv'
  BY DEF vars, CallInv, TypeOK, EvictInv, ClientInv, Knows, AskInv
<1>4. CallInv /\ [Next]_vars => CallInv'
  BY <1>2, <1>3
<1>5. QED
  BY <1>1, <1>4, PTL DEF Spec

\* For any calls, tools and peers: the state of the caller keeps its type.
THEOREM TypeCorrect == Spec => []TypeOK
<1>1. CallInv => TypeOK
  BY DEF CallInv
<1>2. QED
  BY <1>1, CallInvInductive, PTL

\* However many calls share a client, under whatever keys, and in whatever order their
\* streams fail: one that raised an error is in no cache.
THEOREM FaultedClientsAreOut == Spec => []FaultedIsEvicted
<1>1. CallInv => FaultedIsEvicted
  BY DEF CallInv, EvictInv, ClientInv, FaultedIsEvicted
<1>2. QED
  BY <1>1, CallInvInductive, PTL

-----------------------------------------------------------------------------
(* No call goes on for ever                                                  *)

\* An upper bound on the steps that are left of a call: what is left of the fast path, of
\* the attempts for a manifest, of the stream and the verification.
Rank(r) ==
  CASE r.stage = "locate" -> 7 + MaxAttempts + Cardinality(Peers \ r.seen)
    [] r.stage = "find" -> 6 + MaxAttempts
    [] r.stage = "query" -> 6 + (MaxAttempts - r.attempt)
    [] r.stage \in {"where", "token"} -> 5
    [] r.stage = "intent" -> 4
    [] r.stage = "exec" /\ r.data = "none" -> 3
    [] r.stage = "exec" /\ r.data = "checking" -> 2
    [] r.stage = "exec" /\ r.data = "checked" -> 1
    [] r.stage \in {"closed", "audit", "stuck"} -> 1
    [] r.stage = "idle" -> 0

Longest == 6 + MaxAttempts + Cardinality(Peers)

Others(c) == \A d \in Slots \ {c} : call'[d] = call[d]

\* What is verified belongs to a call that is not over.
VerifyInv == \A c \in Slots : call[c].data = "checking" => call[c].stage # "idle"

RankInv == CallInv /\ VerifyInv

LEMMA RankType ==
  ASSUME IsFiniteSet(Peers), NEW r \in CallRecord
  PROVE  Rank(r) \in Nat /\ (Rank(r) = 0 <=> r.stage = "idle")
<1>1. Cardinality(Peers \ r.seen) \in Nat
  BY FS_CardinalityType, FS_Subset
<1>2. r.attempt \in 1 .. MaxAttempts /\ r.data \in {"none", "checking", "checked"}
      /\ r.stage \in {"idle", "locate", "find", "query", "where", "intent", "exec", "closed",
                      "token", "audit", "stuck"}
  BY DEF CallRecord
<1>3. MaxAttempts \in Nat \ {0}
  OBVIOUS
<1>4. QED
  BY <1>1, <1>2, <1>3 DEF Rank

LEMMA GoRank ==
  ASSUME TypeOK, NEW c \in Slots, NEW r, Go(c, r)
  PROVE  call'[c] = r /\ Others(c)
BY DEF TypeOK, Go, Others

LEMMA SettleRank ==
  ASSUME TypeOK, NEW c \in Slots, NEW how, Settle(c, how)
  PROVE  call'[c].stage = "idle" /\ call'[c].data = "none" /\ Rank(call'[c]) = 0 /\ Others(c)
<1>. DEFINE r == [NoCall EXCEPT !.settled = IF how = "nobody" THEN how ELSE "no"]
<1>1. r.stage = "idle" /\ r.data = "none"
  BY DEF NoCall
<1>2. call'[c] = r /\ Others(c)
  BY GoRank DEF Settle
<1>. HIDE DEF r
<1>3. QED
  BY <1>1, <1>2 DEF Rank

LEMMA UseRank ==
  ASSUME TypeOK, NEW c \in Slots, NEW r, NEW k, NEW cl, Use(c, r, k, cl)
  PROVE  call'[c].stage = "intent" /\ call'[c].client = cl /\ call'[c].data = "none"
         /\ Rank(call'[c]) = 4 /\ Others(c)
<1>. DEFINE u == [NoCall EXCEPT !.stage = "intent", !.tool = r.tool, !.key = k, !.client = cl]
<1>1. u.stage = "intent" /\ u.client = cl /\ u.data = "none"
  BY DEF NoCall
<1>2. call'[c] = u /\ Others(c)
  BY GoRank DEF Use
<1>. HIDE DEF u
<1>3. QED
  BY <1>1, <1>2 DEF Rank

LEMMA GetOrCreateRank ==
  ASSUME TypeOK, NEW c \in Slots, NEW r, NEW k, NEW p, NEW n, GetOrCreate(c, r, k, p, n)
  PROVE  call'[c].stage = "intent" /\ call'[c].data = "none" /\ Rank(call'[c]) = 4 /\ Others(c)
<1>1. \E cl : Use(c, r, k, cl)
  BY DEF GetOrCreate
<1>2. QED
  BY <1>1, UseRank

\* The fast path never goes back to a peer it has seen.
LEMMA FastPathRank ==
  ASSUME TypeOK, IsFiniteSet(Peers), NEW c \in Slots, NEW r \in CallRecord, FastPath(c, r)
  PROVE  /\ call'[c].stage # "idle" /\ Others(c)
         /\ call'[c].data = "checking" => r.data = "checking"
         /\ Rank(call'[c]) \in Int /\ Rank(call'[c]) <= 6 + MaxAttempts + Cardinality(Peers \ r.seen)
<1>. DEFINE m == Cardinality(Peers \ r.seen)
<1>1. /\ IsFiniteSet(Peers \ r.seen) /\ m \in Nat /\ MaxAttempts \in Nat \ {0}
      /\ r.seen \in SUBSET Peers
  BY FS_CardinalityType, FS_Subset DEF CallRecord
<1>2. CASE Go(c, [NoCall EXCEPT !.stage = "find", !.tool = r.tool])
  <2>. DEFINE f == [NoCall EXCEPT !.stage = "find", !.tool = r.tool]
  <2>1. f.stage = "find" /\ f.data = "none"
    BY DEF NoCall
  <2>2. call'[c] = f /\ Others(c)
    BY <1>2, GoRank
  <2>. HIDE DEF f
  <2>3. Rank(f) = 6 + MaxAttempts
    BY <2>1 DEF Rank
  <2>4. QED
    BY <1>1, <2>1, <2>2, <2>3
<1>3. CASE \E k, cl : Use(c, r, k, cl)
  BY <1>1, <1>3, UseRank
<1>4. ASSUME NEW p \in Peers \ r.seen,
             Go(c, [r EXCEPT !.stage = "locate", !.peer = p, !.port = manifests[p],
                             !.seen = @ \cup {p}])
      PROVE  /\ call'[c].stage # "idle" /\ Others(c)
             /\ call'[c].data = "checking" => r.data = "checking"
             /\ Rank(call'[c]) = 6 + MaxAttempts + m
  <2>. DEFINE l == [r EXCEPT !.stage = "locate", !.peer = p, !.port = manifests[p],
                             !.seen = @ \cup {p}]
  <2>1. l.stage = "locate" /\ l.data = r.data /\ l.seen = r.seen \cup {p}
    BY DEF CallRecord
  <2>2. call'[c] = l /\ Others(c)
    BY <1>4, GoRank
  <2>. HIDE DEF l
  <2>3. Peers \ l.seen = (Peers \ r.seen) \ {p}
    BY <2>1
  <2>4. Cardinality(Peers \ l.seen) = m - 1
    <3>1. Cardinality((Peers \ r.seen) \ {p}) = Cardinality(Peers \ r.seen) - 1
      BY <1>1, FS_RemoveElement, Zenon
    <3>2. QED
      BY <2>3, <3>1
  <2>5. Rank(l) = 7 + MaxAttempts + Cardinality(Peers \ l.seen)
    BY <2>1 DEF Rank
  <2>. HIDE DEF m
  <2>6. Rank(l) = 6 + MaxAttempts + m
    BY <1>1, <2>4, <2>5
  <2>7. QED
    BY <2>1, <2>2, <2>6
<1>5. \/ Go(c, [NoCall EXCEPT !.stage = "find", !.tool = r.tool])
      \/ \E k, cl : Use(c, r, k, cl)
      \/ \E p \in Peers \ r.seen :
           Go(c, [r EXCEPT !.stage = "locate", !.peer = p, !.port = manifests[p],
                           !.seen = @ \cup {p}])
  BY DEF FastPath
<1>6. CASE \E p \in Peers \ r.seen :
              Go(c, [r EXCEPT !.stage = "locate", !.peer = p, !.port = manifests[p],
                              !.seen = @ \cup {p}])
  <2>. HIDE DEF m
  <2>1. /\ call'[c].stage # "idle" /\ Others(c)
        /\ call'[c].data = "checking" => r.data = "checking"
        /\ Rank(call'[c]) = 6 + MaxAttempts + m
    BY <1>4, <1>6
  <2>2. QED
    BY <1>1, <2>1 DEF m
<1>7. QED
  BY <1>2, <1>3, <1>5, <1>6

Advances(c) ==
  /\ Others(c) /\ Rank(call'[c]) < Rank(call[c])
  /\ call'[c].data = "checking" => call'[c].stage # "idle"

LEMMA GoAdvances ==
  ASSUME TypeOK, NEW c \in Slots, NEW r, Go(c, r), Rank(r) < Rank(call[c]),
         r.data = "checking" => r.stage # "idle"
  PROVE  Advances(c)
BY GoRank DEF Advances

\* What a call or a forwarded call does takes it nearer its end, and touches no other.
LEMMA OwnStep ==
  ASSUME RankInv, IsFiniteSet(Peers), NEW c \in Slots, Step(c) \/ RouteStep(c)
  PROVE  Advances(c)
<1>. DEFINE r == call[c]
<1>1. TypeOK /\ r \in CallRecord /\ MaxAttempts \in Nat \ {0}
  BY DEF RankInv, CallInv, TypeOK
<1>2. /\ Rank(r) \in Nat /\ (Rank(r) = 0 <=> r.stage = "idle")
      /\ r.attempt \in 1 .. MaxAttempts /\ r.data \in {"none", "checking", "checked"}
  BY <1>1, RankType DEF CallRecord
<1>3. r.data = "checking" => r.stage # "idle"
  BY DEF RankInv, VerifyInv
<1>. HIDE DEF r
<1>4. ASSUME NEW how, Settle(c, how), r.stage # "idle"
      PROVE  Advances(c)
  BY <1>1, <1>2, <1>4, SettleRank DEF Advances, r
<1>5. CASE Locate(c)
  <2>. DEFINE m == Cardinality(Peers \ r.seen)
  <2>1. m \in Nat
    BY FS_CardinalityType, FS_Subset
  <2>2. r.stage = "locate" /\ Rank(r) = 7 + MaxAttempts + m
    BY <1>5 DEF Locate, Rank, r
  <2>3. CASE FastPath(c, call[c])
    <3>1. /\ call'[c].stage # "idle" /\ Others(c) /\ Rank(call'[c]) \in Int
          /\ Rank(call'[c]) <= 6 + MaxAttempts + m
      BY <1>1, <2>3, FastPathRank DEF r
    <3>. HIDE DEF m
    <3>2. QED
      BY <1>1, <2>1, <2>2, <3>1 DEF Advances, r
  <2>4. CASE GetOrCreate(c, call[c], call[c].peer, call[c].peer, call[c].port)
    <3>1. call'[c].stage = "intent" /\ Rank(call'[c]) = 4 /\ Others(c)
      BY <1>1, <2>4, GetOrCreateRank
    <3>. HIDE DEF m
    <3>2. QED
      BY <1>1, <2>1, <2>2, <3>1 DEF Advances, r
  <2>5. QED
    BY <1>5, <2>3, <2>4 DEF Locate
<1>6. CASE Find(c)
  <2>1. r.stage = "find" /\ Rank(r) = 6 + MaxAttempts
    BY <1>6 DEF Find, Rank, r
  <2>2. ASSUME NEW p,
               Go(c, [call[c] EXCEPT !.peer = p, !.attempt = 1,
                                     !.stage = IF p \in cooling THEN "where" ELSE "query"])
        PROVE  Advances(c)
    <3>. DEFINE a == [r EXCEPT !.peer = p, !.attempt = 1,
                               !.stage = IF p \in cooling THEN "where" ELSE "query"]
    <3>1. a.attempt = 1 /\ a.stage \in {"where", "query"}
      BY <1>1 DEF CallRecord
    <3>2. Go(c, a)
      BY <2>2 DEF r
    <3>. HIDE DEF a
    <3>3. Rank(a) < 6 + MaxAttempts
      BY <1>1, <3>1 DEF Rank
    <3>4. QED
      BY <1>1, <2>1, <3>1, <3>2, <3>3, GoAdvances DEF r
  <2>3. QED
    BY <1>4, <1>6, <2>1, <2>2 DEF Find
<1>7. CASE QueryAnswered(c) \/ QueryFails(c)
  <2>1. r.stage = "query" /\ Rank(r) = 6 + (MaxAttempts - r.attempt)
    BY <1>7 DEF QueryAnswered, QueryFails, Rank, r
  <2>2. ASSUME NEW n, Go(c, [call[c] EXCEPT !.stage = "where", !.port = n])
        PROVE  Advances(c)
    <3>. DEFINE a == [r EXCEPT !.stage = "where", !.port = n]
    <3>1. a.stage = "where" /\ Go(c, a)
      BY <1>1, <2>2 DEF CallRecord, r
    <3>. HIDE DEF a
    <3>2. Rank(a) = 5
      BY <3>1 DEF Rank
    <3>3. Rank(a) < Rank(r)
      BY <1>1, <1>2, <2>1, <3>2
    <3>4. QED
      BY <1>1, <3>1, <3>3, GoAdvances DEF r
  <2>3. CASE r.attempt < MaxAttempts /\ Go(c, [call[c] EXCEPT !.attempt = @ + 1])
    <3>. DEFINE a == [r EXCEPT !.attempt = @ + 1]
    <3>1. a.stage = "query" /\ a.attempt = r.attempt + 1 /\ Go(c, a)
      BY <1>1, <2>1, <2>3 DEF CallRecord, r
    <3>. HIDE DEF a
    <3>2. Rank(a) = 6 + (MaxAttempts - a.attempt)
      BY <3>1 DEF Rank
    <3>3. Rank(a) < Rank(r)
      BY <1>1, <1>2, <2>1, <3>1, <3>2
    <3>4. QED
      BY <1>1, <3>1, <3>3, GoAdvances DEF r
  <2>4. QED
    BY <1>7, <2>2, <2>3 DEF QueryAnswered, QueryFails, r
<1>8. CASE Where(c)
  <2>1. Rank(r) = 5
    BY <1>8 DEF Where, Rank, r
  <2>2. call'[c].stage = "intent" /\ Rank(call'[c]) = 4 /\ Others(c)
    BY <1>1, <1>8, GetOrCreateRank DEF Where
  <2>3. QED
    BY <2>1, <2>2 DEF Advances, r
\* The stages that are set by themselves.
<1>9. ASSUME NEW st \in {"intent", "exec", "audit", "stuck"}, Go(c, [call[c] EXCEPT !.stage = st]),
             \/ r.stage = "token" /\ st = "intent"
             \/ r.stage = "intent" /\ st \in {"exec", "stuck"}
             \/ r.stage = "exec" /\ r.data = "checking" /\ st = "audit"
      PROVE  Advances(c)
  <2>. DEFINE a == [r EXCEPT !.stage = st]
  <2>1. a.stage = st /\ a.data = r.data /\ Go(c, a)
    BY <1>1, <1>9 DEF CallRecord, r
  <2>. HIDE DEF a
  <2>2. Rank(a) < Rank(r)
    BY <1>2, <1>9, <2>1 DEF Rank
  <2>3. QED
    BY <1>1, <2>1, <2>2, GoAdvances DEF r
\* What is known of the data.
<1>10. ASSUME NEW d \in {"checking", "checked"}, NEW s, r.stage = "exec",
              \/ Go(c, [call[c] EXCEPT !.data = d])
              \/ Go(c, [call[c] EXCEPT !.data = d, !.settled = s]),
              r.data = "none" \/ (r.data = "checking" /\ d = "checked")
       PROVE  Advances(c)
  <2>1. PICK a : a.stage = "exec" /\ a.data = d /\ Go(c, a)
    <3>. DEFINE u == [r EXCEPT !.data = d]
                v == [r EXCEPT !.data = d, !.settled = s]
    <3>1. /\ u.stage = "exec" /\ u.data = d /\ v.stage = "exec" /\ v.data = d
          /\ Go(c, u) \/ Go(c, v)
      BY <1>1, <1>10 DEF CallRecord, r
    <3>. HIDE DEF u, v
    <3>2. QED
      BY <3>1
  <2>2. Rank(a) < Rank(r)
    BY <1>10, <2>1 DEF Rank
  <2>3. QED
    BY <1>1, <2>1, <2>2, GoAdvances DEF r
<1>11. CASE Negotiate(c)
  BY <1>4, <1>9, <1>11 DEF Negotiate, r
<1>12. CASE Data(c) \/ RouteData(c)
  BY <1>10, <1>12 DEF Data, RouteData, r
<1>13. CASE Verified(c)
  BY <1>3, <1>4, <1>10, <1>13 DEF Verified, r
<1>14. ASSUME NEW how, Closed(c, how), r.stage = "exec"
       PROVE  Advances(c)
  <2>1. CASE r.data = "checking"
    <3>. DEFINE a == [r EXCEPT !.stage = "closed", !.settled = IF how = "error" THEN how ELSE @]
    <3>1. a.stage = "closed" /\ Go(c, a)
      BY <1>1, <1>14, <2>1 DEF CallRecord, Closed, r
    <3>. HIDE DEF a
    <3>2. Rank(a) < Rank(r)
      BY <1>14, <2>1, <3>1 DEF Rank
    <3>3. QED
      BY <1>1, <3>1, <3>2, GoAdvances DEF r
  <2>2. CASE r.data # "checking"
    BY <1>4, <1>14, <2>2 DEF Closed, r
  <2>3. QED
    BY <2>1, <2>2
<1>15. CASE End(c) \/ Error(c)
  BY <1>14, <1>15 DEF End, Error, r
<1>16. CASE RouteToken(c) \/ RouteStuck(c) \/ RouteEnd(c) \/ RouteSettles(c)
  BY <1>4, <1>9, <1>16 DEF RouteToken, RouteStuck, RouteEnd, RouteSettles, r
<1>17. QED
  BY <1>5, <1>6, <1>7, <1>8, <1>11, <1>12, <1>13, <1>15, <1>16 DEF Step, RouteStep

\* A call begins within the bound.
LEMMA BeginRank ==
  ASSUME RankInv, IsFiniteSet(Peers), NEW c \in Slots, NEW t \in Tools,
         Begin(c, t) \/ RouteBegin(c, t)
  PROVE  /\ call[c].stage = "idle" /\ Others(c) /\ call'[c].data # "checking"
         /\ Rank(call'[c]) <= Longest
<1>1. TypeOK /\ MaxAttempts \in Nat \ {0} /\ Cardinality(Peers) \in Nat
  BY FS_CardinalityType DEF RankInv, CallInv
<1>2. call[c].stage = "idle"
  BY DEF Begin, RouteBegin
<1>3. CASE Begin(c, t)
  <2>. DEFINE r == [NoCall EXCEPT !.tool = t]
  <2>1. r \in CallRecord /\ r.data = "none" /\ Peers \ r.seen = Peers
    <3>1. r \in CallRecord
      BY Records DEF CallRecord
    <3>2. r.data = "none" /\ r.seen = {}
      BY DEF NoCall
    <3>3. QED
      BY <3>1, <3>2
  <2>2. (\E k, cl : Use(c, r, k, cl)) \/ FastPath(c, r)
    BY <1>3 DEF Begin
  <2>. HIDE DEF r
  <2>3. CASE \E k, cl : Use(c, r, k, cl)
    BY <1>1, <1>2, <2>3, UseRank DEF Longest
  <2>4. CASE FastPath(c, r)
    BY <1>1, <1>2, <2>1, <2>4, FastPathRank DEF Longest
  <2>5. QED
    BY <2>2, <2>3, <2>4
<1>4. CASE RouteBegin(c, t)
  <2>1. PICK p, cl : Go(c, [NoCall EXCEPT !.stage = "token", !.tool = t, !.peer = p, !.client = cl])
    BY <1>4 DEF RouteBegin
  <2>. DEFINE a == [NoCall EXCEPT !.stage = "token", !.tool = t, !.peer = p, !.client = cl]
  <2>2. a.stage = "token" /\ a.data = "none" /\ Go(c, a)
    BY <2>1 DEF NoCall
  <2>. HIDE DEF a
  <2>3. Rank(a) = 5
    BY <2>2 DEF Rank
  <2>4. call'[c] = a /\ Others(c)
    BY <1>1, <2>2, GoRank
  <2>5. QED
    BY <1>1, <1>2, <2>2, <2>3, <2>4 DEF Longest
<1>5. QED
  BY <1>3, <1>4

\* Whatever a step does to a call that is not over brings it nearer its end, and a call
\* begins within the bound.
CallsAdvance ==
  /\ \A c \in Slots : call'[c] # call[c] =>
       IF call[c].stage = "idle" THEN Rank(call'[c]) <= Longest
                                 ELSE Rank(call'[c]) < Rank(call[c])
  /\ \A c \in Calls : Step(c) => Rank(call'[c]) < Rank(call[c])
  /\ \A r \in Routes : RouteStep(r) => Rank(call'[r]) < Rank(call[r])

LEMMA CallsStep ==
  ASSUME RankInv, IsFiniteSet(Peers), Next
  PROVE  VerifyInv' /\ CallsAdvance
<1>1. /\ \A c \in Calls : c \in Slots
      /\ \A r \in Routes : r \in Slots
  BY DEF Slots
<1>2. ASSUME NEW c \in Slots, Step(c) \/ RouteStep(c) PROVE Rank(call'[c]) < Rank(call[c])
  BY <1>2, OwnStep DEF Advances
<1>3. \A c \in Slots : call[c] \in CallRecord /\ (Rank(call[c]) = 0 <=> call[c].stage = "idle")
                       /\ Rank(call[c]) \in Nat
  BY RankType DEF RankInv, CallInv, TypeOK
<1>4. \A c \in Slots : call[c].data = "checking" => call[c].stage # "idle"
  BY DEF RankInv, VerifyInv
<1>5. SUFFICES /\ \A c \in Slots : call'[c].data = "checking" => call'[c].stage # "idle"
               /\ \A c \in Slots : call'[c] # call[c] =>
                    IF call[c].stage = "idle" THEN Rank(call'[c]) <= Longest
                                              ELSE Rank(call'[c]) < Rank(call[c])
  BY <1>1, <1>2 DEF VerifyInv, CallsAdvance
<1>6. ASSUME NEW c \in Slots, Step(c) \/ RouteStep(c)
      PROVE  /\ \A d \in Slots : call'[d].data = "checking" => call'[d].stage # "idle"
             /\ \A d \in Slots : call'[d] # call[d] =>
                  IF call[d].stage = "idle" THEN Rank(call'[d]) <= Longest
                                            ELSE Rank(call'[d]) < Rank(call[d])
  <2>1. Advances(c)
    BY <1>6, OwnStep
  <2>2. call[c].stage # "idle"
    BY <1>1, <1>6 DEF Step, RouteStep, Locate, Find, QueryAnswered, QueryFails, Where, Negotiate, Data,
                 Verified, End, Error, RouteToken, RouteStuck, RouteData, RouteEnd, RouteSettles, RankInv, VerifyInv
  <2>3. QED
    BY <1>4, <2>1, <2>2 DEF Advances, Others
<1>7. ASSUME NEW c \in Slots, NEW t \in Tools, Begin(c, t) \/ RouteBegin(c, t)
      PROVE  /\ \A d \in Slots : call'[d].data = "checking" => call'[d].stage # "idle"
             /\ \A d \in Slots : call'[d] # call[d] =>
                  IF call[d].stage = "idle" THEN Rank(call'[d]) <= Longest
                                            ELSE Rank(call'[d]) < Rank(call[d])
  <2>1. /\ call[c].stage = "idle" /\ Others(c) /\ call'[c].data # "checking"
        /\ Rank(call'[c]) <= Longest
    BY <1>7, BeginRank
  <2>2. QED
    BY <1>4, <2>1 DEF Others
<1>8. CASE \/ \E p \in Peers, force \in BOOLEAN : Discover(p, force)
           \/ \E p \in Peers : Moves(p) \/ CoolEnds(p)
  BY <1>4, <1>8 DEF Discover, Moves, CoolEnds
<1>9. QED
  BY <1>1, <1>6, <1>7, <1>8 DEF Next

\* However peers fail, caches go stale and the stream's events cross, a call and a forwarded
\* call are over, or stuck, after Longest steps of their own: each one takes the call strictly nearer
\* its end, and no step of another call, of a peer or of a breaker takes it farther away.
THEOREM CallsAreBounded ==
  ASSUME IsFiniteSet(Peers)
  PROVE  Spec => [][CallsAdvance]_vars
<1>1. Init => VerifyInv
  BY DEF Init, VerifyInv, NoCall
<1>2. CallInv /\ VerifyInv /\ [Next]_vars => VerifyInv' /\ [CallsAdvance]_vars
  <2>1. CASE Next
    BY <2>1, CallsStep DEF RankInv
  <2>2. CASE UNCHANGED vars
    BY <2>2 DEF vars, VerifyInv
  <2>3. QED
    BY <2>1, <2>2
<1>3. QED
  BY <1>1, <1>2, CallInvInductive, PTL DEF Spec

-----------------------------------------------------------------------------
(* No call starts on a client that failed                                    *)

\* A call that takes up a client takes one whose stream has raised no error, although calls
\* that are on it already go on.
StartsSound ==
  \A c \in Calls : call[c].stage # "intent" /\ call'[c].stage = "intent" =>
                    call'[c].client.id \notin faulted'

LEMMA UseSound ==
  ASSUME CallInv, NEW c \in Slots, NEW r, NEW k, NEW q \in Keys, UNCHANGED faulted,
         Use(c, r, k, clients[q])
  PROVE  call'[c].client.id \notin faulted'
BY UseRank DEF CallInv, EvictInv, ClientInv

LEMMA TakenSound ==
  ASSUME CallInv, NEW c \in Slots, NEW r, NEW k \in Keys, NEW p, NEW n, UNCHANGED faulted,
         GetOrCreate(c, r, k, p, n)
  PROVE  call'[c].client.id \notin faulted'
<1>1. CASE clients[k] # NoClient
  BY <1>1, UseSound DEF GetOrCreate
<1>2. CASE clients[k] = NoClient
  <2>. DEFINE cl == [id |-> made + 1, peer |-> p, port |-> n]
  <2>1. Use(c, r, k, cl) /\ cl.id = made + 1
    BY <1>2 DEF GetOrCreate
  <2>2. made \in Nat /\ faulted \subseteq 1 .. made
    BY DEF CallInv, TypeOK, EvictInv, ClientInv
  <2>. HIDE DEF cl
  <2>3. call'[c].client = cl
    BY <2>1, UseRank DEF CallInv
  <2>4. QED
    BY <2>1, <2>2, <2>3
<1>3. QED
  BY <1>1, <1>2

LEMMA FastPathSound ==
  ASSUME CallInv, NEW c \in Slots, NEW r \in CallRecord, UNCHANGED faulted,
         FastPath(c, r), call'[c].stage = "intent"
  PROVE  call'[c].client.id \notin faulted'
<1>1. TypeOK /\ Peers \subseteq Keys
  BY DEF CallInv, Keys
<1>2. ASSUME Go(c, [NoCall EXCEPT !.stage = "find", !.tool = r.tool]) PROVE FALSE
  <2>1. [NoCall EXCEPT !.stage = "find", !.tool = r.tool].stage = "find"
    BY DEF NoCall
  <2>2. QED
    BY <1>1, <1>2, <2>1, GoRank
<1>3. ASSUME NEW p, Go(c, [r EXCEPT !.stage = "locate", !.peer = p, !.port = manifests[p],
                                    !.seen = @ \cup {p}])
      PROVE  FALSE
  <2>1. [r EXCEPT !.stage = "locate", !.peer = p, !.port = manifests[p],
                  !.seen = @ \cup {p}].stage = "locate"
    BY DEF CallRecord
  <2>2. QED
    BY <1>1, <1>3, <2>1, GoRank
<1>4. \E p \in Peers : Use(c, r, p, clients[p])
  BY <1>2, <1>3 DEF FastPath
<1>5. QED
  BY <1>1, <1>4, UseSound

\* The other steps of a call leave it elsewhere.
LEMMA NotToIntent ==
  ASSUME CallInv, NEW c \in Slots, call'[c].stage = "intent",
         \/ Find(c) \/ QueryAnswered(c) \/ QueryFails(c) \/ Negotiate(c)
         \/ Data(c) \/ Verified(c) \/ End(c) \/ Error(c)
  PROVE  FALSE
<1>1. TypeOK /\ call[c] \in CallRecord
  BY DEF CallInv, TypeOK
<1>2. ASSUME NEW r, Go(c, r), r.stage # "intent" PROVE FALSE
  BY <1>1, <1>2, GoRank
<1>3. ASSUME NEW how, Settle(c, how) PROVE FALSE
  BY <1>1, <1>3, SettleRank
<1>4. /\ \A p : [call[c] EXCEPT !.peer = p, !.attempt = 1,
                    !.stage = IF p \in cooling THEN "where" ELSE "query"].stage # "intent"
      /\ \A n : [call[c] EXCEPT !.stage = "where", !.port = n].stage = "where"
      /\ [call[c] EXCEPT !.attempt = @ + 1].stage = call[c].stage
      /\ [call[c] EXCEPT !.stage = "exec"].stage = "exec"
  BY <1>1 DEF CallRecord
<1>5. /\ [call[c] EXCEPT !.data = "checking"].stage = call[c].stage
      /\ \A s : [call[c] EXCEPT !.data = "checked", !.settled = s].stage = call[c].stage
      /\ \A s : [call[c] EXCEPT !.stage = "closed", !.settled = s].stage = "closed"
  BY <1>1 DEF CallRecord
<1>6. CASE Find(c) \/ Negotiate(c)
  BY <1>2, <1>3, <1>4, <1>6 DEF Find, Negotiate
<1>7. CASE QueryAnswered(c) \/ QueryFails(c)
  BY <1>2, <1>4, <1>7 DEF QueryAnswered, QueryFails
<1>8. CASE Data(c) \/ Verified(c)
  BY <1>2, <1>3, <1>5, <1>8 DEF Data, Verified
<1>9. ASSUME NEW how, Closed(c, how) PROVE FALSE
  BY <1>2, <1>3, <1>5, <1>9 DEF Closed
<1>10. QED
  BY <1>6, <1>7, <1>8, <1>9 DEF End, Error

\* A step of a call, or of a forwarded call, is a step of that one alone.
LEMMA OneMoves ==
  ASSUME TypeOK, NEW c \in Slots,
         Step(c) \/ RouteStep(c) \/ \E t \in Tools : Begin(c, t) \/ RouteBegin(c, t)
  PROVE  Others(c)
<1>1. \/ \E k, p, n : GetOrCreate(c, call[c], k, p, n)
      \/ \E r : FastPath(c, r)
      \/ \E r, k, cl : Use(c, r, k, cl)
      \/ \E r : Go(c, r)
  <2>1. CASE \E t \in Tools : Begin(c, t) \/ RouteBegin(c, t)
    BY <2>1 DEF Begin, RouteBegin
  <2>2. CASE Locate(c) \/ Where(c)
    BY <2>2 DEF Locate, Where
  <2>3. CASE Find(c) \/ QueryAnswered(c) \/ QueryFails(c) \/ Negotiate(c) \/ Data(c)
    BY <2>3 DEF Find, QueryAnswered, QueryFails, Negotiate, Data, Settle
  <2>4. CASE Verified(c) \/ End(c) \/ Error(c)
    BY <2>4 DEF Verified, End, Error, Closed, Settle
  <2>5. CASE RouteToken(c) \/ RouteStuck(c) \/ RouteData(c) \/ RouteEnd(c) \/ RouteSettles(c)
    BY <2>5 DEF RouteToken, RouteStuck, RouteData, RouteEnd, RouteSettles, Settle
  <2>6. QED
    BY <2>1, <2>2, <2>3, <2>4, <2>5 DEF Step, RouteStep
<1>2. (\E r, k, cl : Use(c, r, k, cl)) \/ \E r : Go(c, r)
  BY <1>1 DEF GetOrCreate, FastPath
<1>3. \E r : Go(c, r)
  BY <1>2 DEF Use
<1>4. QED
  BY <1>3, GoRank

\* However many calls share clients, and however late one of them fails: no call begins on a
\* client whose stream has raised an error, whether it takes it under the static address, its
\* tool or its peer, or makes it.
THEOREM CallsStartSound == Spec => [][StartsSound]_vars
<1>. USE DEF env
<1>1. ASSUME CallInv, Next, NEW c \in Calls, call[c].stage # "intent", call'[c].stage = "intent"
      PROVE  call'[c].client.id \notin faulted'
  <2>1. c \in Slots /\ TypeOK /\ call[c] \in CallRecord /\ \A d \in Calls \cup Routes : d \in Slots
    BY <1>1 DEF CallInv, TypeOK, Slots
  <2>2. call'[c] # call[c]
    BY <1>1
  <2>3. ~ \/ \E p \in Peers, force \in BOOLEAN : Discover(p, force)
          \/ \E p \in Peers : Moves(p) \/ CoolEnds(p)
    BY <2>2 DEF Discover, Moves, CoolEnds
  <2>4. ASSUME NEW r \in Routes, (\E t \in Tools : RouteBegin(r, t)) \/ RouteStep(r)
        PROVE  FALSE
    <3>1. r # c /\ Others(r)
      BY <2>1, <2>4, OneMoves
    <3>2. QED
      BY <2>1, <2>2, <3>1 DEF Others
  <2>5. ASSUME NEW d \in Calls, Step(d) \/ \E t \in Tools : Begin(d, t)
        PROVE  d = c
    BY <2>1, <2>2, <2>5, OneMoves DEF Others
  <2>6. Step(c) \/ \E t \in Tools : Begin(c, t)
    BY <1>1, <2>3, <2>4, <2>5 DEF Next
  <2>7. CASE Locate(c) \/ Where(c)
    <3>1. UNCHANGED faulted /\ call[c].tool \in Keys
          /\ (call[c].stage = "locate" => call[c].peer \in Keys)
      BY <1>1, <2>1, <2>7 DEF Locate, Where, CallRecord, Keys, CallInv, AskInv
    <3>2. QED
      BY <1>1, <2>1, <2>7, <3>1, TakenSound, FastPathSound DEF Locate, Where
  <2>8. CASE \E t \in Tools : Begin(c, t)
    <3>1. PICK t \in Tools : Begin(c, t)
      BY <2>8
    <3>. DEFINE r == [NoCall EXCEPT !.tool = t]
    <3>2. r \in CallRecord /\ Static \in Keys /\ t \in Keys
      BY Records DEF CallRecord, Keys
    <3>3. /\ UNCHANGED faulted
          /\ \/ \E q \in {Static, t} : Use(c, r, Static, clients[q])
             \/ FastPath(c, r)
      BY <3>1 DEF Begin
    <3>. HIDE DEF r
    <3>4. QED
      BY <1>1, <2>1, <3>2, <3>3, UseSound, FastPathSound
  <2>9. QED
    BY <1>1, <2>1, <2>6, <2>7, <2>8, NotToIntent DEF Step
<1>2. CallInv /\ [Next]_vars => [StartsSound]_vars
  BY <1>1 DEF StartsSound
<1>3. QED
  BY <1>2, CallInvInductive, PTL DEF Spec
=============================================================================
