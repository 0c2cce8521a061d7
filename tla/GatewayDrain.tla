---------------------------- MODULE GatewayDrain ----------------------------
(***************************************************************************)
(* Requests and shutdown of LiopHybridGateway (gateway/hybrid.ts). HTTP/1   *)
(* requests are counted from the request event to the first of finish and    *)
(* close; MCP requests over HTTP/2 streams are not. drain raises a flag,     *)
(* polls the count until it is zero or time is up, then stops.              *)
(*                                                                         *)
(* Between two awaits (the token, the body, the router, the mesh) nothing    *)
(* interleaves. A client may go away at any time: its handler goes on.      *)
(***************************************************************************)
EXTENDS Integers

CONSTANTS
  Http1,      \* requests over HTTP/1
  Http2,      \* MCP requests over HTTP/2
  Auth,       \* whether a JWT validator is configured
  DrainTimeout

DrainAssumption ==
  /\ Http1 \cap Http2 = {} /\ Auth \in BOOLEAN /\ DrainTimeout \in Nat

VARIABLES
  status,          \* "up", "draining", "stopping" (awaits the mesh) or "stopped"
  isDraining,
  activeRequests,
  elapsed,         \* time since drain began, up to the timeout
  pc,              \* where the handler of a request is
  open             \* the HTTP/1 requests that neither finished nor closed

vars == <<status, isDraining, activeRequests, elapsed, pc, open>>

Requests == Http1 \cup Http2
PCs == {"new", "validating", "body", "routing", "serving",
        "answered"}

TypeOK ==
  /\ status \in {"up", "draining", "stopping", "stopped"}
  /\ isDraining \in BOOLEAN
  /\ activeRequests \in Nat
  /\ elapsed \in 0..DrainTimeout
  /\ pc \in [Requests -> PCs]
  /\ open \subseteq Http1

Init ==
  /\ status = "up"
  /\ isDraining = FALSE
  /\ activeRequests = 0
  /\ elapsed = 0
  /\ pc = [r \in Requests |-> "new"]
  /\ open = {}

-----------------------------------------------------------------------------
Goto(r, l) == pc' = [pc EXCEPT ![r] = l]
gateway == <<status, isDraining, elapsed>>

\* The netServer accepts until stop closes it; the streams and keep-alive
\* connections it accepted live on, so a request may even come after that.
Begin(r) ==
  /\ pc[r] = "new"
  /\ activeRequests' = activeRequests + 1
  /\ open' = open \cup {r}
  /\ UNCHANGED gateway

\* Probes, metrics, the status page: answered at once, also while draining. So
\* is an MCP request that comes while draining, with 503.
Probe(r) ==
  /\ r \in Http1
  /\ Begin(r)
  /\ Goto(r, "answered")

\* gRPC-Web and the OAuth routes read a body or await a provider, and do not ask
\* about draining.
OtherArrives(r) ==
  /\ r \in Http1
  /\ Begin(r)
  /\ Goto(r, "serving")

McpArrives(r) ==
  /\ r \in Http1
  /\ ~isDraining
  /\ Begin(r)
  /\ Goto(r, IF Auth THEN "validating" ELSE "body")

\* A stream: its body is read first, and draining is not asked about.
StreamArrives(r) ==
  /\ r \in Http2
  /\ pc[r] = "new"
  /\ Goto(r, IF Auth THEN "validating" ELSE "routing")
  /\ UNCHANGED <<gateway, activeRequests, open>>

\* The token is good, or the answer is 401.
Validated(r) ==
  /\ pc[r] = "validating"
  /\ Goto(r, IF r \in Http1 THEN "body" ELSE "routing") \/ Goto(r, "answered")
  /\ UNCHANGED <<gateway, activeRequests, open>>

\* The body ends: refused by the rate limit or the headers, or dispatched.
\* A client that went away never ends its body.
BodyEnds(r) ==
  /\ pc[r] = "body"
  /\ r \in open
  /\ Goto(r, "routing") \/ Goto(r, "answered")
  /\ UNCHANGED <<gateway, activeRequests, open>>

\* The router, the provider or the gRPC-Web bridge has answered.
Dispatched(r) ==
  /\ pc[r] \in {"routing", "serving"}
  /\ Goto(r, "answered")
  /\ UNCHANGED <<gateway, activeRequests, open>>

\* finish after the answer, or close when the client leaves: once.
Done(r) ==
  /\ r \in open
  /\ open' = open \ {r}
  /\ activeRequests' = IF activeRequests > 0 THEN activeRequests - 1 ELSE 0
  /\ UNCHANGED <<gateway, pc>>

-----------------------------------------------------------------------------
Drain ==
  /\ status = "up"
  /\ status' = "draining"
  /\ isDraining' = TRUE
  /\ UNCHANGED <<activeRequests, elapsed, pc, open>>

\* MUTANT of Poll: a drain waits as long as there are requests.
PollForever ==
  /\ status = "draining"
  /\ activeRequests = 0
  /\ status' = "stopping"
  /\ UNCHANGED <<isDraining, activeRequests, elapsed, pc, open>>

\* MUTANT of Poll: the drain stops at once.
PollNever ==
  /\ status = "draining"
  /\ status' = "stopping"
  /\ UNCHANGED <<isDraining, activeRequests, elapsed, pc, open>>

\* The loop of drain ends.
Poll ==
  /\ status = "draining"
  /\ activeRequests = 0 \/ elapsed >= DrainTimeout
  /\ status' = "stopping"
  /\ UNCHANGED <<isDraining, activeRequests, elapsed, pc, open>>

Wait ==
  /\ status = "draining"
  /\ elapsed < DrainTimeout
  /\ elapsed' = elapsed + 1
  /\ UNCHANGED <<status, isDraining, activeRequests, pc, open>>

\* stop called without drain: the flag stays down.
Stop ==
  /\ status = "up"
  /\ status' = "stopping"
  /\ UNCHANGED <<isDraining, activeRequests, elapsed, pc, open>>

\* The mesh has stopped; the servers are closed.
Stopped ==
  /\ status = "stopping"
  /\ status' = "stopped"
  /\ UNCHANGED <<isDraining, activeRequests, elapsed, pc, open>>

Handles(r) == Validated(r) \/ BodyEnds(r) \/ Dispatched(r)

Next ==
  \/ \E r \in Http1 : Probe(r) \/ OtherArrives(r) \/ McpArrives(r) \/ Done(r)
  \/ \E r \in Http2 : StreamArrives(r)
  \/ \E r \in Requests : Handles(r)
  \/ Drain \/ Poll \/ Wait \/ Stop \/ Stopped

Spec == Init /\ [][Next]_vars

\* Timers fire and the mesh stops. Handlers and clients need not get on.
FairSpec == Spec /\ WF_vars(Poll) /\ WF_vars(Wait) /\ WF_vars(Stopped)

-----------------------------------------------------------------------------
(* Properties *)

\* An MCP request over HTTP/1 that was let in and whose client still waits is not cut off
\* by a drain before its timeout.
DrainWaits ==
  isDraining /\ status \in {"stopping", "stopped"} /\ elapsed < DrainTimeout =>
    \A r \in open : pc[r] \notin {"validating", "body", "routing"}

\* A drain comes to an end, whatever the requests do.
DrainEnds == isDraining ~> (status = "stopped")

=============================================================================
