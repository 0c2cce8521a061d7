----------------------------- MODULE RemoteCall -----------------------------
(***************************************************************************)
(* LiopClient (client/index.ts): tool calls over gRPC clients that are     *)
(* cached by tool, by peer or for a static address, resolved through the   *)
(* mesh (mesh/node.ts) and manifests that are cached too.  Calls run       *)
(* concurrently; peers go down and come back at other ports.  A call is    *)
(* split where the code awaits or an event of the response stream comes.   *)
(* The router of a gateway (gateway/router.ts) calls the same peers, with a *)
(* new gRPC client each time and a token it may have to acquire.           *)
(***************************************************************************)
EXTENDS Integers

CONSTANTS
  Calls,        \* slots for calls of callTool under way
  Routes,       \* slots for calls the router forwards
  Tools, Peers,
  Offers,       \* [Peers -> SUBSET Tools]: what a peer's manifest lists
  Local,        \* stands for 127.0.0.1, where no peer is reached
  MaxPort,      \* bound: ports a peer listens at over time; 1 is the default
  MaxAttempts,  \* manifest attempts: 3 in the code
  MaxBegins,    \* bound: calls and discoveries in a behaviour
  StaticPeer,   \* the peer at the address that connect may be given
  AuthPeers,    \* peers whose manifest says authRequired
  Silent        \* peers that may never answer an intent, or never end a stream

Static == "static"
Keys == {Static} \cup Tools \cup Peers
None == 0
Ports == 1 .. MaxPort
Ids == Nat \ {0}             \* clients are numbered as they are made

\* A call belongs to a client or to a router, and no peer is the local address.
ASSUME CallAssumption ==
  /\ Calls \cap Routes = {} /\ Tools # {} /\ Local \notin Peers /\ StaticPeer \in Peers
  /\ {MaxPort, MaxAttempts} \subseteq Nat \ {0} /\ MaxBegins \in Nat

NoClient == [id |-> 0, peer |-> Local, port |-> 1]
Client == [id : Ids, peer : Peers \cup {Local}, port : Ports]

VARIABLES
  role,        \* the process is a "client" or a gateway's "router"
  port,        \* port[p]: where peer p listens now
  manifests,   \* manifests[p]: the port in p's cached manifest, or None
  clients,     \* rpcClients: [Keys -> Client or NoClient]
  cooling,     \* peers the mesh node's breaker skips
  call,        \* call[c]: where a callTool, or a forwarded call, is
  meshToken,   \* the router's meshAgentToken is set
  begins, made,\* bounded counters: calls begun, clients made
  faulted      \* history: ids of clients whose stream raised an error

vars == <<role, port, manifests, clients, cooling, call, meshToken, begins, made, faulted>>
env == <<role, port, cooling, begins, meshToken>>
Slots == Calls \cup Routes

NoCall == [stage |-> "idle", tool |-> CHOOSE t \in Tools : TRUE, key |-> Static,
           client |-> NoClient, peer |-> Local, port |-> 1, attempt |-> 1, seen |-> {},
           data |-> "none", settled |-> "no"]

\* connect(address?): with an address, a client under "static".
Init ==
  /\ role \in {"client", "router"} /\ port = [p \in Peers |-> 1]
  /\ manifests = [p \in Peers |-> None]
  /\ \E connected \in BOOLEAN :
       /\ connected => role = "client"
       /\ made = (IF connected THEN 1 ELSE 0)
       /\ clients = [k \in Keys |-> IF k = Static /\ connected
                       THEN [id |-> 1, peer |-> StaticPeer, port |-> 1] ELSE NoClient]
  /\ cooling = {} /\ call = [c \in Slots |-> NoCall] /\ meshToken = FALSE
  /\ begins = 0 /\ faulted = {}
-----------------------------------------------------------------------------
(* Choosing a client *)

Go(c, r) == call' = [call EXCEPT ![c] = r]

Use(c, r, k, cl) ==
  Go(c, [NoCall EXCEPT !.stage = "intent", !.tool = r.tool, !.key = k, !.client = cl])

\* getOrCreateRpcClient: an existing client is returned whatever its address.
GetOrCreate(c, r, k, p, n) ==
  IF clients[k] # NoClient
    THEN Use(c, r, k, clients[k]) /\ UNCHANGED <<clients, made>>
    ELSE LET cl == [id |-> made + 1, peer |-> p, port |-> n]
         IN Use(c, r, k, cl) /\ clients' = [clients EXCEPT ![k] = cl] /\ made' = made + 1

\* The fast path: the next cached manifest that lists the tool, whose peer has
\* a client or must be located; none left: the DHT.
FastPath(c, r) ==
  LET cached == {p \in Peers \ r.seen : manifests[p] # None /\ r.tool \in Offers[p]}
  IN /\ \/ cached = {} /\ Go(c, [NoCall EXCEPT !.stage = "find", !.tool = r.tool])
        \/ \E p \in cached :
             IF clients[p] # NoClient THEN Use(c, r, p, clients[p])
             ELSE Go(c, [r EXCEPT !.stage = "locate", !.peer = p, !.port = manifests[p],
                                  !.seen = @ \cup {p}])
     /\ UNCHANGED <<clients, made>>

\* A client found for the tool is used under the key "static", as in the code.
Begin(c, t) ==
  /\ role = "client" /\ call[c].stage = "idle" /\ begins < MaxBegins
  /\ begins' = begins + 1
  /\ LET r == [NoCall EXCEPT !.tool = t]
     IN IF clients[Static] # NoClient THEN Use(c, r, Static, clients[Static]) /\ UNCHANGED <<clients, made>>
        ELSE IF clients[t] # NoClient THEN Use(c, r, Static, clients[t]) /\ UNCHANGED <<clients, made>>
        ELSE FastPath(c, r)
  /\ UNCHANGED <<role, port, manifests, cooling, meshToken, faulted>>

\* resolvePeer of the fast path: an address, or the loop goes on.
Locate(c) ==
  /\ call[c].stage = "locate"
  /\ \/ GetOrCreate(c, call[c], call[c].peer, call[c].peer, call[c].port)
     \/ FastPath(c, call[c])
  /\ UNCHANGED <<env, manifests, faulted>>

\* The call is over; only a failure for want of a provider is remembered.
Settle(c, how) == Go(c, [NoCall EXCEPT !.settled = IF how = "nobody" THEN how ELSE "no"])

\* findProviders: the first provider the DHT yields before its idle timeout,
\* whose record may be stale, or none, and callTool throws.
Find(c) ==
  /\ call[c].stage = "find"
  /\ \/ Settle(c, "nobody")
     \/ \E p \in Peers :
          /\ call[c].tool \in Offers[p]
          /\ Go(c, [call[c] EXCEPT !.peer = p, !.attempt = 1,
                                   !.stage = IF p \in cooling THEN "where" ELSE "query"])
  /\ UNCHANGED <<env, manifests, clients, made, faulted>>

\* queryManifest: answered; or a failed attempt, retried after a pause.  The
\* last attempt returns null, and only a failed read is counted by the
\* breaker: a failed dial is not.
QueryAnswered(c) ==
  /\ call[c].stage = "query"
  /\ LET p == call[c].peer
     IN /\ manifests' = [manifests EXCEPT ![p] = port[p]]
        /\ cooling' = cooling \ {p}
        /\ Go(c, [call[c] EXCEPT !.stage = "where", !.port = port[p]])
  /\ UNCHANGED <<role, port, clients, begins, meshToken, made, faulted>>
QueryFails(c) ==
  /\ call[c].stage = "query"
  /\ IF call[c].attempt < MaxAttempts
       THEN Go(c, [call[c] EXCEPT !.attempt = @ + 1]) /\ UNCHANGED cooling
       ELSE /\ Go(c, [call[c] EXCEPT !.stage = "where", !.port = 1])
            /\ cooling' \in {cooling, cooling \cup {call[c].peer}}
  /\ UNCHANGED <<role, port, manifests, clients, begins, meshToken, made, faulted>>
CoolEnds(p) ==
  /\ p \in cooling /\ cooling' = cooling \ {p}
  /\ UNCHANGED <<role, port, manifests, clients, call, begins, meshToken, made, faulted>>

\* resolveCapability ends with the peer's address, or 127.0.0.1; the client is
\* cached under the tool's name.
Where(c) ==
  /\ call[c].stage = "where"
  /\ \E p \in {call[c].peer, Local} : GetOrCreate(c, call[c], call[c].tool, p, call[c].port)
  /\ UNCHANGED <<env, manifests, faulted>>
-----------------------------------------------------------------------------
(* The remote call *)

Reached(cl) == cl.peer # Local /\ port[cl.peer] = cl.port

\* negotiateIntent: accepted, or it throws: an error, or the intent is denied.
\* The client stays in the cache.
Negotiate(c) ==
  /\ call[c].stage = "intent"
  /\ \/ Reached(call[c].client) /\ Go(c, [call[c] EXCEPT !.stage = "exec"])
     \/ Settle(c, "error")
  /\ UNCHANGED <<env, manifests, clients, made, faulted>>

\* The stream's data: an error answer settles the call, a result is verified
\* first.  The server writes one response.
Data(c) ==
  /\ call[c].stage = "exec" /\ call[c].data = "none" /\ Reached(call[c].client)
  /\ Go(c, [call[c] EXCEPT !.data = "checking"]) \/
     Go(c, [call[c] EXCEPT !.data = "checked", !.settled = "answer"])
  /\ UNCHANGED <<env, manifests, clients, made, faulted>>

\* verifyZkReceipt returns or throws; the promise keeps its first outcome.
Verified(c) ==
  /\ call[c].data = "checking"
  /\ \E how \in {"answer", "error"} :
       LET s == IF call[c].settled = "no" THEN how ELSE call[c].settled
       IN IF call[c].stage = "exec" THEN Go(c, [call[c] EXCEPT !.data = "checked", !.settled = s])
          ELSE Settle(c, s)
  /\ UNCHANGED <<env, manifests, clients, made, faulted>>

\* MUTANT of Closed: a stream that ends without data says nothing.
ClosedQuietly(c, how) ==
  IF call[c].data = "checking" \/ (how = "end" /\ call[c].data = "none")
    THEN Go(c, [call[c] EXCEPT !.stage = "closed",
                  !.settled = IF how = "error" THEN how ELSE @])
    ELSE Settle(c, IF call[c].settled = "no" THEN "error" ELSE call[c].settled)

\* The stream closes; while a result is being verified the call stays open.
Closed(c, how) ==
  IF call[c].data = "checking"
    THEN Go(c, [call[c] EXCEPT !.stage = "closed",
                  !.settled = IF how = "error" THEN how ELSE @])
    ELSE Settle(c, IF call[c].settled = "no" THEN "error" ELSE call[c].settled)

End(c) ==
  /\ call[c].stage = "exec"
  /\ Closed(c, "end")
  /\ UNCHANGED <<env, manifests, clients, made, faulted>>

\* MUTANT of Error: evicts under the call's key only.
ErrorByKey(c) ==
  /\ call[c].stage = "exec"
  /\ clients' = [clients EXCEPT ![call[c].key] = NoClient]
  /\ faulted' = faulted \cup {call[c].client.id}
  /\ Closed(c, "error")
  /\ UNCHANGED <<env, manifests, made>>

\* An error evicts what is cached under the call's key and under its tool.
Error(c) ==
  /\ call[c].stage = "exec"
  /\ clients' = [k \in Keys |-> IF k \in {call[c].key, call[c].tool} THEN NoClient ELSE clients[k]]
  /\ faulted' = faulted \cup {call[c].client.id}
  /\ Closed(c, "error")
  /\ UNCHANGED <<env, manifests, made>>
-----------------------------------------------------------------------------
(* The router's calls: performTranscoding *)

\* The address comes from a cached manifest and resolvePeer: the port may be
\* one the peer no longer listens at, the host 127.0.0.1.
RouteBegin(r, t) ==
  /\ role = "router" /\ call[r].stage = "idle" /\ begins < MaxBegins
  /\ begins' = begins + 1
  /\ \E p \in Peers, host \in Peers \cup {Local}, n \in Ports :
       /\ t \in Offers[p] /\ host \in {p, Local} /\ n <= port[p]
       /\ Go(r, [NoCall EXCEPT !.stage = "token", !.tool = t, !.peer = p,
                               !.client = [id |-> 0, peer |-> host, port |-> n]])
  /\ UNCHANGED <<role, port, manifests, clients, cooling, meshToken, made, faulted>>

\* getOrAcquireMeshAgentToken: one of the caller's, the peer's, the cached or
\* the environment's; else one from the authorization server, kept from then
\* on; or none, which a peer that requires one is not sent.
RouteToken(r) ==
  /\ call[r].stage = "token"
  /\ \/ Go(r, [call[r] EXCEPT !.stage = "intent"]) /\ meshToken' \in {meshToken, TRUE}
     \/ /\ ~meshToken /\ UNCHANGED meshToken
        /\ IF call[r].peer \in AuthPeers THEN Settle(r, "error")
           ELSE Go(r, [call[r] EXCEPT !.stage = "intent"])
  /\ UNCHANGED <<role, port, manifests, clients, cooling, begins, made, faulted>>

\* The body is gathered; at the end a result is audited, and an error answer,
\* or a stream without data, is passed on as it is.
RouteData(r) ==
  /\ call[r].stage = "exec" /\ call[r].data = "none" /\ Reached(call[r].client)
  /\ \E d \in {"checking", "checked"} : Go(r, [call[r] EXCEPT !.data = d])
  /\ UNCHANGED <<env, manifests, clients, made, faulted>>
RouteEnd(r) ==
  /\ call[r].stage = "exec"
  /\ IF call[r].data = "checking" THEN Go(r, [call[r] EXCEPT !.stage = "audit"])
     ELSE Settle(r, "answer")
  /\ UNCHANGED <<env, manifests, clients, made, faulted>>

\* Encapsulation against the peer's key throws in the callback of negotiateIntent:
\* the promise is left pending.  (Where an unhandled rejection ends the process,
\* as it does unless Node is told otherwise, the call is lost with it.)
RouteStuck(r) ==
  /\ call[r].stage = "intent" /\ Reached(call[r].client)
  /\ Go(r, [call[r] EXCEPT !.stage = "stuck"])
  /\ UNCHANGED <<env, manifests, clients, made, faulted>>

RouteSettles(r) ==
  /\ \/ call[r].stage = "audit" /\ \E how \in {"answer", "error"} : Settle(r, how)
     \/ call[r].stage = "exec" /\ Settle(r, "error")
  /\ UNCHANGED <<env, manifests, clients, made, faulted>>
-----------------------------------------------------------------------------
(* Discovery, and the peers *)

\* One peer of discoverTools: its manifest is fetched unless it is cached or
\* none is to be had.
Discover(p, force) ==
  /\ role = "client" /\ p \notin cooling
  /\ force \/ manifests[p] = None
  /\ manifests' = [manifests EXCEPT ![p] = port[p]]
  /\ UNCHANGED <<env, clients, call, made, faulted>>

\* A peer restarts at a port it has not had.  (One that is down is one that
\* every call to fails, which each step allows.)
Moves(p) ==
  /\ port[p] < MaxPort
  /\ port' = [port EXCEPT ![p] = @ + 1]
  /\ UNCHANGED <<role, manifests, clients, cooling, call, begins, meshToken, made, faulted>>
-----------------------------------------------------------------------------
Step(c) ==
  \/ Locate(c) \/ Find(c) \/ QueryAnswered(c) \/ QueryFails(c) \/ Where(c)
  \/ Negotiate(c) \/ Data(c) \/ Verified(c) \/ End(c) \/ Error(c)

RouteStep(r) ==
  \/ RouteToken(r) \/ Negotiate(r) \/ RouteStuck(r)
  \/ RouteData(r) \/ RouteEnd(r) \/ RouteSettles(r)

Next ==
  \/ \E c \in Calls, t \in Tools : Begin(c, t)
  \/ \E c \in Calls : Step(c)
  \/ \E r \in Routes : (\E t \in Tools : RouteBegin(r, t)) \/ RouteStep(r)
  \/ \E p \in Peers, force \in BOOLEAN : Discover(p, force)
  \/ \E p \in Peers : Moves(p) \/ CoolEnds(p)

\* A call for which its peer has to act, and may never do so: neither client sets
\* a deadline.  The router verifies only when the stream has ended.
Waits(c) ==
  /\ call[c].stage \in {"intent", "exec"} /\ call[c].client.peer \in Silent
  /\ c \in Routes \/ call[c].data # "checking"

\* The mesh node's awaits have timeouts and bounded attempts.  The verification pool
\* and the authorization server are assumed to answer, and so are the peers that are
\* not silent, unless the connection breaks.
Fairness ==
  /\ \A c \in Calls : WF_vars(~Waits(c) /\ Step(c))
  /\ \A r \in Routes : WF_vars(~Waits(r) /\ RouteStep(r))
Spec == Init /\ [][Next]_vars /\ Fairness
-----------------------------------------------------------------------------
CallRecord ==
  [stage : {"idle", "locate", "find", "query", "where", "intent", "exec", "closed", "token",
            "audit", "stuck"},
   tool : Tools, key : Keys,
   client : [id : Nat, peer : Peers \cup {Local}, port : Ports],
   peer : Peers \cup {Local}, port : Ports, attempt : 1 .. MaxAttempts, seen : SUBSET Peers,
   data : {"none", "checking", "checked"}, settled : {"no", "answer", "error", "nobody"}]

TypeOK ==
  /\ role \in {"client", "router"}
  /\ port \in [Peers -> Ports] /\ manifests \in [Peers -> Ports \cup {None}]
  /\ clients \in [Keys -> Client \cup {NoClient}] /\ cooling \subseteq Peers
  /\ begins \in 0 .. MaxBegins /\ made \in Nat /\ faulted \subseteq Ids
  /\ meshToken \in BOOLEAN
  /\ call \in [Slots -> CallRecord]

\* A client whose stream raised an error is out of the cache, under whatever
\* key it was made: no later call starts on it (client/index.ts:585).
FaultedIsEvicted == \A k \in Keys : clients[k].id \notin faulted

\* A call settles, whatever fails, in whatever order the stream's events and the
\* verification come, unless it is sent to a peer that does not answer, or it is a
\* forwarded one whose encapsulation threw.
CallsSettle ==
  \A c \in Slots : call[c].stage # "idle" ~>
    \/ call[c].stage = "idle" \/ call[c].settled # "no"
    \/ Waits(c) \/ (c \in Routes /\ call[c].stage = "stuck")
=============================================================================
