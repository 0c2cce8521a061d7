# TLA+ models of the Logic-Injection-on-Origin Protocol (LIOP)

LIOP moves code to data: an agent negotiates a session with a node, sends logic
encrypted under a post-quantum key, and gets back an output that has passed the
node's policies. The repository holds a TypeScript SDK (server, gateway, router,
mesh, client, bridges), a Rust node and SDK, a command line tool and
documentation. These modules model the parts of the **TypeScript SDK** that keep
state between calls, where interleavings, failures and time make them hard to
test. Paths below are relative to `sdks/typescript/src/`.

Each module was written from the code, not from the documentation. Where a
document says something else than the code does, the model follows the code.

## 1. Inventory

| Component (file) | State | Operations | Interacts with | Hard behaviour |
|---|---|---|---|---|
| Query budget (`server/index.ts` 320-425, 2550-2769) | JSON budget files, `.lock` and `.tmp` files, in-memory counters per process | `runPreflightPolicy` (charge), `resetFieldBudget`, `executeWithBudgetLock`, `savePersistentBudget`, `applyInMemoryBudget` | called by `callTool` and `executeLogic`; several server processes share a file | interleaved processes, death under the lock, failing file operations, fallback to memory |
| Token revocation (`server/index.ts` 2455-2551) | JSON file, its modification time, the cached set | `loadRevocationList`, `revokeToken`, `revokeTokenHash` | `negotiateIntent` and `executeLogic` ask it | operators and servers write one file without a lock, a cache that is trusted by time |
| RPC handlers (`server/index.ts` 1712-2283, `workers/logic-execution.ts`) | sessions (key, token hash, creation time), worker pool | `negotiateIntent`, `executeLogic` | revocation list, JWT validator, worker pool, audit log, proxied tools | checks made before an await and used after it, a queue, an append or a write that throws |
| Audit log (`security/audit-logger.ts`) | hash chain in memory, JSON-lines file | `recordExecution`, `loadFromFile`, `verifyIntegrity` | called by the RPC handlers and the server | death inside an append, an append that throws, restart |
| Tool calls (`server/index.ts` 1040-1185, 1392-1541) | sliding windows per tool and over all tools, count of violations | `callTool`, `checkGlobalRateLimit`, `checkToolCallRateLimit`, the handler wrapped around logic tools | bridges, router, worker pool | boundaries of time windows, two handlers for one payload |
| Gateway rate limiter (`gateway/rate-limiter.ts`) | a counter and reset time per client, a timer | `check`, `reset`, `cleanup`, `close` | asked by the gateway before it dispatches | adjacent windows, the timer against requests |
| Gateway (`gateway/hybrid.ts`) | drain flag, count of requests in progress | `setupH1Routes`, `handleMcpH2Stream`, `drain`, `stop`, `listen` | router, mesh node, rate limiter, JWT validator | shutdown against requests in progress, clients that vanish |
| Stream bridge (`bridge/stream.ts`) | map of sessions, eviction timer | the `/mcp` handler, `evictIdleSessions`, `stop` | MCP transport, `LiopMcpBridge` | awaits between counting and entering, shutdown against openings |
| Router (`gateway/router.ts`) | manifest cache, failures per peer, tokens, single-flight refresh | discovery, `tools/list`, `tools/call`, routing to a provider | mesh node, RPC client, local server | stale cache, concurrent refresh, suffixes of colliding names |
| Mesh node (`mesh/node.ts`, `server/index.ts` 1628-1716) | identity file, announced capabilities, re-announcement flag, dial breaker | `connectToMesh`, `start`, `stop`, `announceCapability`, `reannounceAll`, `queryManifest` | libp2p (DHT, streams), the server's tools | peers that connect during a pass, tools registered while joining, a crash between truncating and writing the identity |
| RPC client (`client/index.ts`, `rpc/client.ts`) | cache of connections, of manifests | `callTool`, `discoverTools`, `resolveCapability` | mesh node, RPC server | a connection shared by calls that hold it under different keys, the order of a stream's data, error and end |
| Certificates (`security/cert-manager.ts`, `rpc/tls.ts`, `rpc/server.ts`) | buffers of the files, watchers, debounce timer | load, watch, reload, `dispose`, `createServerCredentials` | RPC server and client | files read one after the other while they are renewed |
| Running logic (`workers/logic-execution.ts`, `sandbox/wasi.ts`, `security/dp-engine.ts`, `workers/zk-verifier.ts`) | a directory and two handles per sandbox; the receipt | `init`, `execute`, `teardown`, noise, sanitizer, commitment, verification | RPC handlers, the agent | failures between opening and teardown, what is committed to against what is sent, rounding |
| Access control, tokens, OAuth (`security/rbac.ts`, `auth-config.ts`, `jwt-validator.ts`, `oauth-server.ts`) | configuration, key sets kept by `jose` and `oidc-provider` | validate, authorize | gateway, RPC handlers | little state of their own |
| Policies and scanners (`server/pii.ts`, `server/ner-scanner.ts`, `security/taint-analyzer.ts`, `security/guardian.ts`) | none between calls | analyse code, scan output | RPC handlers, `callTool` | data analysis rather than protocol |
| Observability, economy (`observability/`, `economy/`) | counters, a list of operations | record, export | everything calls them, nothing depends on them | unbounded growth only |
| Rust node and SDK, CLI, examples, docs | a second implementation of parts of the protocol | | | |

What makes each modelled component correct is stated, property by property, in
section 4. `PROJECT.json` lists every component with its status, every hazard with
its line, and for each definition the lines it translates.

## 2. Modules

| Module | Models | Code steps as actions |
|---|---|---|
| `BudgetLedger` | what the persistent budget promises | an atomic, all-or-nothing charge; a reset |
| `QueryBudget` | the lock-file protocol | one action per file operation: `AcquireLock` (flag `wx`), `ReadStore`, `WriteTmp`, `Rename`, `Unlock`; the retry loop (`LockBusy`, `LockTimeout`); the failures (`LockError`, `SaveError`, `Fallback`); `Crash`, `Restart` |
| `QueryBudgetProofs`, `QueryBudgetLedgerProofs` | theorems about `QueryBudget` | |
| `AuditChain` | the audit log | `Record`, `RecordThrows` (the append throws after the push), `Crash` (also inside an append), `Restart`, `RestartFails` (a line does not parse) |
| `RevocationList` | the revocation list | one action per file operation of a load (`Skip`, `StatNewer`, `Reload`, `ReadCut`, `Missing`, `CreateCuts`, `Create`, `CreateError`, `Created`) and of a revocation (`AddToMemory`, `CutFile`, `WriteList`, `StatOwnWrite` and the failures); operators; `Restart`, `Die` |
| `LogicSession` | the two RPC handlers | what runs between two awaits is one action: `Arrive`, `Validated`, `OpenSession`, `Preflight`, `Submit`, `TaskStarts`, `TaskEnds`, `ProxyDone`, `Scanned`; `Revoke` and `Tick` come in between |
| `SlidingWindow` | what a sliding-window limit promises | a call is admitted only if few enough were within the window |
| `ToolCalls` | `callTool` up to the execution | it awaits nothing, so a call is one action per outcome |
| `RateLimiter` | the gateway's limiter | one action per method; `check` is `Open` and `Admit` |
| `StreamSessions` | sessions of the stream bridge | `Open` (count) and `Created` (entry) are two steps of one request; `Use`, `Message`, `Delete`, `Answered`; `Evict`; `Stop`, `StopOne`, `Stopped` |
| `ManifestDiscovery` | the router's manifest cache | `Kick`, `PassFound`, `PassEmpty`, `PeerAnswers`, `PeerFails`, `PassEnds` (a discovery pass); `ListBegin`, `ListAgain`, `ListAnswer` (tools/list); `CallBegin`, `CallSearches`, `CallAsks`, `CallEnds` (tools/call) |
| `RemoteCall` | a tool call from a `LiopClient`, or forwarded by a gateway's router, to a peer | what runs between two awaits or events of the response stream: `Begin`, `Locate`, `Find`, `QueryAnswered`, `QueryFails`, `Where`, `Negotiate`, `Data`, `Verified`, `End`, `Error`, `Discover`; `RouteBegin`, `RouteToken`, `RouteStuck`, `RouteData`, `RouteEnd`, `RouteSettles`; peers that move |
| `MeshNode` | a server that joins the mesh | `Start`, `LoadIdentity`, `Create`, `NodeStarts`, `Seed`, `SaveTruncates`, `SaveWrites`, `DialBoot`, `Register`, `AnnounceNext`, `Joined`, `AddTool`; provides that end (`ProvideEnds`); the pass (`Settled`, `PassNext`, `PassSent`); `Connect`, `Disconnect`, `Stop`, `NodeStops`, `Crash` |
| `LogicReceipt` | one piece of logic from the worker to the agent | `Admit`, `MakeDir`, `OpenFile`, `Runs` (with noise, sanitizer and commitment), `Close`, `RemoveDir` and their failures, `Kill`; `Answer`, `Deliver` (with the verification) |
| `CertReload` | `CertManager` and the server's credentials | one action per file operation of a load, `Watch`, `Event`, `Fire`, `Dispose`, `Listen`; renewals that truncate and fill, or replace, a file |
| `GatewayDrain` | requests and shutdown of the gateway | arrival by route, `Validated`, `BodyEnds`, `Dispatched`, `Done` (finish or close); `Drain`, `Poll`, `Wait`, `Stop`, `Stopped` |

Components that share no state are put together, so that one run checks them and one
specification is proved about: `ServerFiles` (`AuditChain`, `RevocationList`,
`CertReload`), `LogicExecution` (`LogicSession`, `LogicReceipt`) and `FrontEnds`
(`ToolCalls`, `RateLimiter`, `StreamSessions`, `GatewayDrain`). Each instantiates its
components, and a variable `part`, chosen in `Init`, says which one a behaviour is about;
the others stay as they begin. A property of a component holds trivially in the
behaviours of the others, so the run shows about each what a run of its own would. The
interleaving of two components that share nothing shows nothing, and is not explored.

`MC*` modules hold the model values, the small instances and their symmetries. `*Proofs`
modules hold the theorems of section 5, one for each specification, two for `QueryBudget`.

Components that meet are kept apart where the meeting is a plain call: `LogicSession`
takes the revocation list as the set that `RevocationList` maintains, a record as the
outcome that `AuditChain` details, a preflight rejection as one possible outcome of
`QueryBudget`, an execution as the outcome that `LogicReceipt` details; `RemoteCall`
takes from `MeshNode` that a provider is found or not.

Definitions marked `MUTANT of X` are plausible mistakes in the code that `X`
translates. No specification uses them: put in the place of `X`, each makes the
property it is listed with fail, which shows that the property speaks of the code.

## 3. Abstractions

* One Node.js process is one thread: the code between two awaits (or, for code
  that never awaits, between two file operations other processes can see) is one
  step.
* A hash is the identity of what it hashes; a decryption, a signature check, a
  policy and a scanner are choices between their outcomes. In `LogicReceipt` the
  output of logic is given with its payload, a seal is the key it was made with, and
  the seeded generator is a fixed function of seed, image and index (`Draw`).
* A number in an output is an integer count of units, two of which are the last
  decimal place the code keeps.
* A provide of the DHT reaches the peers connected when it is sent: there are fewer
  peers than the DHT replicates to.
* Time is a counter. Timers fire at any moment after they are due, or, where a
  property depends on it, when due.
* File modification times are counted in writes: two writes never share one.
  On a file system with coarse times they may; the model does not have that.
* A sliding window is the end of the array that the code filters: times are in the order
  of the calls, so what is too old is at the beginning (`Active` of `ToolCalls`). The
  promise, `SlidingWindow`, says it of the whole history: all but fewer than `Max` of
  the calls are `Width` old.
* The manifest cache is a function from peers to the tools they offer, and the order in
  which peers were entered is kept beside it: `With` is `Map.set` for each answer of a
  pass.
* A budget file that cannot be parsed counts as empty (`readIO`); the runs leave
  this failure out, because every promise about counts ends with the file.

## 4. Runs

Every passing run covers all steps of its specification. Deadlock is checked where the
system never stops for good (`query_budget`, `manifest_discovery`); the others end when
every request is handled, every bound used up or no process can load its file.

### query_budget: charging a shared budget
Two processes on one store, two fields with limit 1, one retry, one crash per process,
every failure but a failing read. Processes and fields are symmetric.
* `MutualExclusion`: the lock excludes although the file names no owner and whoever
  finishes removes whatever file is there.
* `NoFreeQuery`: the file has counted every admitted query, on every field, also when
  saving threw or the process died between the rename and the answer.
* `BoundedOverrun`: the fallback to memory costs at most one limit per incarnation of a
  process.
* `ImplementsLedger`: the protocol refines `BudgetLedger`. `OnlyResetForgives`: no step
  but a reset takes a charge back.

**query_budget_restart** (violated): `PersistentBudgetHolds`, the promise of the
envelope specification (`server/index.ts` 923-925). One process alone charges its whole
limit to the file, dies after creating the lock file for its next query and restarts: the
lock file stays, the query after that times out on it and is admitted from a memory that
starts at zero. (With two processes no crash is needed: a query that waits too long for
the other's lock is admitted from memory in the same way; `BoundedOverrun` bounds both.)

For the passing run two processes and two fields are the least in which updates can interleave and a charge
can be partial; the limits make the second query the refused one. Tools without a file
and stores of several tools are not in this instance; the theorems of section 5 hold
with them.

### server_files: what is kept on disk and in memory
* Audit log: one process, five entries, every fault. `BreaksAreThrown`: an entry links
  to its predecessor or to an entry whose append threw, nothing else breaks the chain.
  `AckedSurvives`: what was acknowledged is in the chain of every later process.
* Revocation list: six deployments: one server with the file there and writes that fail,
  are cut, or die; three of one server that must make the file; a revoker and a reader of
  one file with failing writes; two readers of a file an operator edits. `RevokedIsRefused`, `OwnRevocationKept`,
  `NothingUnrevoked`. Three writes are enough for a write between any two steps of a
  load or of a revocation.
* Certificates: root, chain and key, each renewed once, in place or by another file; a
  manager whose errors are listened for and one whose are not. `InStep`: however
  renewals cross with a load, a manager with nothing left to do has in memory what is on
  disk, but for changes nobody watches for. One renewal of each file is enough: a load
  may read one file before and another after it, with the event still to come.

**audit_reload** (violated): `ReloadVerifies`. The entry is pushed and linked *before* it
is appended, so after one append that threw, the file holds a link to an entry it does not
have, and a reloaded log does not verify although nobody tampered with it.

**cert_reload_served** (violated): `ServedIsCurrent`. The manager's header promises
hot-reloading "without node restarts"; the credentials of the RPC server are made once, in
`listen`, and nobody subscribes to the manager's `reload`.

What revocations promise holds only in some deployments, and the properties say in which:
`RevokedIsRefused` where the file is there from the start and operators alone write it,
`OwnRevocationKept` and `NothingUnrevoked` with one server that writes it and no operator
(`OneWriter`; `revokeTokenHash` takes no lock), the second also only if a write is whole
or fails at once. The first leaves out a server that makes the file and then cannot write
it: the time it takes for that of its load is in whole milliseconds (2493), that of the
file is not (2468), so the empty list it made may count as newer, and the next check loads
it over a revocation that is in memory only. Every write has a modification time of its
own (`Store`): two writes within the granularity of the file system are not modelled.
A server that finds no file makes one, so a second server beside it writes too: what an
operator adds between making the file and noting the time may be taken as loaded, and is
then not refused.

Limits of the code that are in the model but excluded by the properties' premises: two
revokers on one file overwrite each other's entries (2521), as two processes on one audit
file would link to the same predecessor; while a server rewrites the list, another may
read it cut and go on with its cache; an edit between the write and the stat of a
revocation is taken as loaded (2535); a server that dies in the middle of the write leaves
a file that the next one cannot read (2532); a certificate that changes between the first
load and the watchers, or a file replaced by another, is noticed by no watcher
(`unseen`).

### logic_execution: logic on a node
* Handlers (`LogicSession`): three calls (a negotiation and two executions are needed to
  contend for a thread), two tokens, every way of authenticating, one thread and no queue,
  a session that expires at the next tick, failing key generation, appends and writes.
  `RevokedNeverRuns`: the revocation list is read before validation is awaited, and the
  session's token again after it. `NoLogicOnExpiredKey`: the age of a session is checked
  before two waits, and again by the worker. `RecordTellsAnswer`: of an
  execution that ran or failed the audit file and the answer agree, whatever throws. `ExecutionsConclude`: with a JWT validator no execution is
  left hanging.
* Worker and verifier (`LogicReceipt`): two jobs, eight payloads (scripts bare, in one and
  in two envelopes, too heavy for the fuel, proxied, bare and in an envelope; modules allowed and banned), a small and a large data set, with and
  without noise; sandboxes that fail to open or close, a thread that is killed, answers
  whose parts are exchanged on the way. `AcceptedWasComputed`: what the agent accepts is
  what its own logic put out under its own session. `HonestAnswersPass`: an answer that
  arrives as it was sent is accepted, although the server sanitizes again what the worker
  committed to; but that of a proxied call whose numbers the worker changes, or which is
  in an envelope: the extractor takes the header for the call, fails to parse it and
  expects the answer instead (`Extracts`; `zk-verifier.ts` 47-106). `Reproducible`: noise and fuel depend on logic and data only.
  `CountsStayCounts`: noise, clamping and rounding leave a count a count.
  `NothingLeftBehind`: directory and handles are gone when the worker is done, unless the
  file system failed. Two jobs are the least whose parts can be exchanged.

Calls and jobs are symmetric (no order among them is used, no liveness is checked).

**receipts_proxied** (violated): `ProxiedAnswersPass`. The SDK's README (436) says that the
extractor of proxied calls prevents false validation failures; the receipt of a call with a
number that noise or the sanitizer changes is rejected though nothing was tampered with.
It is asked of the calls that the extractor finds.

Seen in the model, claimed by no property: without a validator (or with a local test
token) a failure whose record throws leaves the call unanswered (`pc = "hung"`); so does a
key generation that rejects (1817). A session is removed only when an expired one is used
(1823). A proxied call charges budget and limits a second time (2014). A refusal (an invalid
or revoked token, an expired session) and a rejection by the preflight or the output policy
leave no audit record, although `docs/typescript-sdk/security.mdx:455` says that every
security rejection is committed; `RecordTellsAnswer` says nothing of these answers. With a
`sensitivity` of 1.0 every field counts as a count (`dp-engine.ts` 269-277).

### front_ends: limits, sessions, shutdown
* Tool calls: two tools, limits 2 and 3 in a window of 2, four units of time.
  `WindowsSlide`: each limit implements `SlidingWindow` although its array keeps only what
  it last thought active. `RetryAfterIsExact`: the wait told to a refused caller is enough
  and not a unit too long.
* Gateway limiter: two clients, limit 2 in a window of 2, cleanup every 3.
  `TwiceTheLimit`: fixed windows admit at most twice the limit in any window length (the
  file's header says "sliding-window", which holds for no smaller bound), whenever the
  timer cleans up.
* Stream bridge: two exchanges, two addresses, three ids, a limit of one.
  `OverrunIsConcurrent`: since counting and entering are two steps, an address may exceed
  its limit, but by no more than the requests in progress at once. `IdleGoes` (liveness): a
  session nobody touches is removed while the bridge is up.
* Gateway: three HTTP/1 requests, one HTTP/2 stream, clients that leave at any time, a
  timeout of two polls. `DrainWaits`: no MCP request over HTTP/1 whose client waits is cut
  off before the timeout. `DrainEnds` (liveness).

While a connection cools down after malformed payloads, logic in an envelope still runs:
`callTool` intercepts it (1502) before the handler that throttles. The part of that handler
for well-formed logic, its cache included, is never reached. `docs/.../server.mdx:56` gives
a default of 30 calls per window; the code has 15. A session whose transport was being made
when `stop` emptied the map is entered afterwards and stays; a request that takes longer than
the idle timeout is evicted while in use (`stream.ts` 160). MCP requests over HTTP/2 are
neither counted nor refused (`handleMcpH2Stream`): a drain stops the mesh under them.

### remote_call: calling a peer
Two concurrent calls of a client, or one the router forwards; two peers with the same tool,
one of which asks for a token and the other may never answer, each moving to another port once; two attempts per manifest.
A call that found its connection under the tool's name goes on under the key "static"
(`client/index.ts` 439), next to one that made it under the tool's name: eviction has to cope
with both. The second port makes the cached connection fail.
* `FaultedIsEvicted`: a connection whose stream raised an error is in the cache under no
  key.
* `CallsSettle` (liveness): a call settles in whatever order the stream's data, error and
  end and the verification of the data come. Two are excepted: a call that waits for a
  peer that never answers (`Waits`: neither client sets a deadline), and a forwarded call
  whose encapsulation throws in the callback of `negotiateIntent` (`RouteStuck`;
  `router.ts` 1762-1782), which nobody settles.

Seen in the model or met while writing it, claimed by no property: a connection whose
negotiation fails stays in the cache, and is tried again by every later call on its key;
a stream that ends without data settles the router's call with an empty answer; if the
verifier throws there, the raw body is returned as a normal answer (1871); its token is
never acquired anew (1620) and its client never closed (1546).

### manifest_discovery: what the router knows
Two peers that have a tool of one name, one of which may get or lose a tool the local server
has too, once; connections that open and close. `NameKeepsMeaning`: a listed name still
resolves to the peer it was made for, though suffixes depend on the order of the cache at the
time of the list, unless a peer listed before has the same tool and the same last four
characters of its id, which nothing in the code rules out. `Told`: the client hears of every change in the number of tools that a pass
makes. `ManifestArrives` (liveness): the cache comes to hold the last manifest of a peer that
stays connected. One change is enough for an old answer to be cached after it; two peers, for
one to name the other's tool.

Seen in the model, claimed by no property: a pass that leaves as many tools as before tells
nobody, even if they are other tools (871-882); a call that asks a provider on its own caches
the manifest without checking its signature and without telling anybody (1441); entries are
never removed, and calls are resolved to stale ones (1129-1162). The two peers of the run
have different suffixes; the theorem is for any, equal ones included. A tool whose own name
ends like a suffix is not modelled.

### mesh_node: joining the mesh
One tool, two peers, one bootstrap address, three connections, two starts, and provides,
reads and writes that fail; a crash at any step. Two peers are the least in which one
connects while the other's pass is running; two starts, for an identity to be found again.
* `PeersAreTold`: with nothing under way a connected peer knows every announced capability,
  but those whose provide failed and those a running pass had gone by when it connected.
* `JoinedAnnouncesAll`: a server that has joined has announced all its tools, also those
  registered meanwhile, in `connectToMesh` or in `tool()`.
* `AdvertisedIsServed`: a peer gets a record of the manifest only from a node that serves it.
  It is about new records: peers keep those of an earlier start (`told` survives a stop and a
  crash), so a node started again under its identity is advertised before it serves.
* `IdentityKept`: the peer id of one start comes back at the next, unless a read or a write
  of the file failed or the process ended before `saveIdentity` was through, and a whole file
  is overwritten only after reading it failed. A crash between truncating and writing the
  file does lose the id, under which peers may have records by then: the code has no
  protection against it, and the property says when it happens, not that it does not.

Records do not expire in the model (the DHT renews them), and a peer that comes back has
those it had, or none.

**mesh_newcomer** (violated, without failures): `ReachesTheNewPeer`. A peer that connects
while a re-announcement runs triggers none of its own (288-293) and is never told of what the
running one had gone by, although the comment at 448 says so.

### Fairness
* `StreamSessions`: weak fairness of the eviction timer and of time: `setInterval` while the
  bridge is up. Requests need not progress.
* `GatewayDrain`: weak fairness of the polling loop, its timer and `meshNode.stop()`.
  Handlers and clients need not progress.
* `RemoteCall`: weak fairness of each call's own step. Dials and manifest queries have
  timeouts and a bounded number of attempts; the stream of one call does not wait for
  another's. The code sets no deadline on `negotiateIntent` and `executeLogic`, so nothing
  is assumed while a call waits for a peer in `Silent`: one that stays connected and does
  not answer (see the executions that hang, above) keeps its caller waiting. The other
  peers are assumed to end what they are asked, or to lose the connection; so are the
  verification pool and the authorization server, whose `fetch` has no timeout either.
* `ManifestDiscovery`: weak fairness of passes (the agent polls for ever, `bin/agent.ts`
  375-410, and every query has a timeout and a bounded number of attempts), of the call's own
  steps, and of lifetimes and cooldowns; strong fairness of the answer of a peer while it is
  connected, since passes ask it again and again. Connections, lists and calls need not
  happen.

The other modules state safety only. Each module has a type invariant; those of
`RemoteCall`, `ManifestDiscovery` and `MeshNode` document the state and are not among the
properties of a run.

## 5. Theorems

A run shows a property for a few processes, calls or peers; a theorem shows it for every
value of the constants that the module's assumption admits: any number of processes,
clients, tools, peers, stores, calls and jobs, any limits, retries, payloads, noise,
crashes and any set of faults. Each safety property and each action property of a passing
run is stated by a theorem. Where an invariant is not inductive, the module states the
strengthening it follows from; TLC checked each of these on the instance of the run
before it was proved.

Ten theorems go beyond the properties of the runs; what they state is defined in the proof
modules, and TLC checked it too on the run's instance before it was proved. Most are the
half of a liveness property that needs no fairness: a measure that every step of a call, a
pass, a session or a drain takes down, and that nothing others do puts up again. What is
left to fairness is only that the next step is enabled and taken:

| Theorem | Measure | What alone raises it |
|---|---|---|
| `QueryBudgetProofs!CallsAreBounded` | `Rank`: at most `MaxRetries` + 6 steps of a query or a reset | the begin of a call |
| `RemoteCallProofs!CallsAreBounded` | `Rank`: at most 6 + `MaxAttempts` + the number of peers, for finitely many peers | the begin of a call |
| `LogicExecutionProofs!CallsAreAnsweredOnce` | `Stage`: at most 7 steps of a handler, which the stage it is at counts | nothing |
| `ManifestDiscoveryProofs!PassesAreBounded` | `Left`: at most the number of peers + 2 steps of a pass | the begin of a pass |
| `FrontEndsProofs!SessionsGrowOld` | `StaleIn`: ticks and sweeps until the session goes | a request that names the session |
| `FrontEndsProofs!DrainsAreBounded` | `DrainLeft`: at most `DrainTimeout` + 2 | nothing, once `drain` was called |

**`QueryBudgetProofs`, `QueryBudgetLedgerProofs`** assume `BudgetAssumption`;
`OnlyResetsForgive`, `LedgerImplemented` and `NoQueryIsFree` also that reads of a store do not fail (`"readIO" \notin Faults`), since a
file that cannot be read counts as empty and is then overwritten.
* `TypeCorrect`. `TypeOK` alone is not inductive: a reset takes back what the process
  still remembers having admitted, so `lent` stays a natural number only because it is
  never less than `mem` (`MemInv`), and a call in progress must have a job (`JobInv`).
* `LockExcludes`. The lock file names no owner, so the invariant (`LockInv`) is about
  the file: it exists while any process is critical on its store. That makes the next
  exclusive creation fail; and as no two processes are critical on one store, the
  removal in the finally can remove nobody else's lock.
* `OverrunBounded`, under every failure. What a process admitted and no longer
  remembers grows only when it dies, by what it remembered then, at most one limit
  (`OverrunInv`, with `MemInv`).
* `OnlyResetsForgive` and `LedgerImplemented`. What a process read, and the temporary
  file it wrote, are still what they were when it renames (`ViewInv`, by the mutual
  exclusion); a query touches its own store and a reset that of the configuration
  (`StoreJobInv`). Hence a rename is a charge or a reset of the ledger and every other
  step a stutter.
* `NoQueryIsFree`. A query renamed but not yet answered is counted once more than the
  answers say, and by the lock there is at most one per cell (`ChargeInv`).
* `CallsAreBounded`: a retry of the lock uses up one of `MaxRetries`, and the way back
  through the finally is counted before it is taken.
* `AbandonedIsFrozen`. A lock file without a critical process, left by a crash or by a
  removal that failed, stays for ever, and what it locks is never written again: there is
  no test for the age or the owner of a lock (2658-2711). Every later query of that store
  is counted in the memory of its process, which is the price of `LockExcludes`.

**`ServerFilesProofs`**
* `ChainBreaksAreThrown`, `AcknowledgedSurvives`, for one logger on the file
  (`OneLogger`, a hypothesis: the code appends without a lock, and two loggers do link to
  one predecessor). The invariant is about the file and about memory at once: both are
  chains but for what was thrown (`FileInv`, `MemoryInv`), and the hash the logger goes on
  from is that of the last readable line or of an entry whose append threw (`LinkInv`).
  Without `LinkInv` the next append could break the chain anywhere.
* `RevokedRefused`. In a deployment of readers, a cache whose modification time is the
  file's is the file's contents, and a check that is due carries a hash that is in the
  file and, once the load is over, in the cache (`ReaderInv`).
* `OwnRevocationsKept`, `NoRevocationUndone`. With one writer, what it revoked is in its
  cache or pending, and in the file wherever it is about to read it again (`OwnInv`,
  `LoadInv`, `MakingInv`); a file it had to make it made before its first revocation, if
  opening it cannot fail (`FirstLoadInv`); if writes are whole, its cache holds all of the file when it
  writes (`MergeInv`).
* `ManagerInStep`. Every watched file whose buffer is behind has an event queued, a timer
  running or a read of it still to come in the load under way (`BehindInv`).

**`LogicExecutionProofs`**
* Handlers (`SessionInv`): a call past a check is on no token that was revoked when it
  arrived (`UnbarredInv`), the age is checked with no wait after it (`YoungInv`), what is
  answered is what is recorded (`RecordInv`), a handler hangs only where nothing catches
  (`ConcludeInv`). They give `RevokedTokensRunNothing`, `ExpiredKeysRunNothing`,
  `AnswersAreRecorded` and `ValidatedExecutionsConclude`.
* `CallsAreAnsweredOnce`: nothing is answered or recorded before the last step
  (`RecordInv`), whose every outcome, also that of a catch block that throws in turn,
  appends at most one answer and two records; after it there is no step.
* Worker and agent (`ReceiptInv`): what a sandbox holds at each stage (`FilesInv`), that a
  receipt is the commitment of its job to what is released of it (`ComputedInv`), that an
  answer is made of the receipt (`SentInv`), and that the agent's verdict is on a receipt
  of some job (`VerdictInv`), which is all that can be said once parts are exchanged.
* `HonestAnswersAccepted` rests on lemmas about rounding: sanitizing is idempotent on
  what the worker released, for any noise; `CountsAreCounts` on others about clamping and
  rounding. `SameLogicSameOutput` and these hold for any function `Draw` and any payloads.

**`FrontEndsProofs`**
* `LimitsAreWindows`, `WaitIsExact`. The array of a window is the history without some of
  its beginning, all of it too old (`Kept` in `ToolInv`), which survives every filter
  since times are in order; so the room the code finds is the room `SlidingWindow` asks
  for, of the global limit and of each tool's. In an array of at most the limit the oldest
  call decides when there is room again.
* `AtMostTwice`. Of each client, what was let in splits in two places: after the later, at
  most as many as its record counts; between them, at most a limit of the windows before;
  what is before the earlier is too old (`ClientInv` in `RateInv`). One window is not
  enough: the last full one may end when the new one begins.
* `OverrunIsBounded`. Sessions of an address and requests that wait to enter one are
  together bounded (`StreamInv`): a request is counted only below the limit, and then
  every slot may be waiting, itself included. The property alone is not inductive, because
  an entry adds a session with no check of its own.
* `DrainsWait`. The count is the number of open requests (`DrainInv`), so at zero there is
  none; later ones find the flag up. `DrainsAreBounded` needs of `DrainInv` that the flag
  is up only when the gateway is not.
* `SessionsGrowOld`. A sweep that finds a session young starts the timer anew, so the time
  to the next sweep alone is no measure; a unit of age still to come weighs two, one for
  the tick and one for a sweep in between.

**`MeshNodeProofs`** assumes at least one dial at a time (`MaxDials`, a bound of the
model).
* `ConnectedPeersAreTold` follows from `ToldInv` (of what was announced a connected peer
  knows, or is excused, or a provide to it is under way, or the pass has it still before
  it), `JoinedServerIsAnnounced` from `JoinInv` (while `connectToMesh` announces, every tool
  it is past or that is not in its snapshot has been announced),
  `ManifestIsServed` from `ServedInv` (the handler comes before the manifest is buffered or
  sent), `IdentitySurvives` from `IdentityInv` (a new key is on its way to a whole file only
  after a read of it failed, and the identity last taken is whole, still to be saved, or
  lost).

**`RemoteCallProofs`**: `FaultedClientsAreOut`. A client is cached under one key, its
number never used again (`ClientInv`); a call on it knows that key, by its own key or by
its tool (`Knows`). Hence the two deletions of an error reach it wherever it is, and no
other call puts it back. `CallsStartSound`: a call begins on a client it has just taken
from a cache, or made under a new number, and neither has raised an error. For
`CallsAreBounded` a forwarded call that is verified must not be over before (`VerifyInv`);
another peer is asked only if it is not among the `seen`.

**`ManifestDiscoveryProofs`**: `NamesKeepMeaning`, whatever the suffixes: the order in which
the client was shown the peers is a beginning of the order of the cache (`ListedInv`), so
whoever comes before a peer is who came before it in the list, and does not match its name. `ChangesAreTold`:
unless a call cached a manifest on its own, what a pass counted at its start is what there
is until its end, and what the client was shown or was told of (`ToldInv`).
`PassesAreBounded`: a pass waits for nobody before it asks (`PassInv`) and drops a peer with
its answer or failure. `WaitingIsHeld` and `NamesAreDecided` together say that a waiting
call cannot be stranded: there is a pass to wake it, and when it does, the name has just one
way to go. The order of the cache has a first peer that matches (`FirstPlace`, by the
well-foundedness of the natural numbers), and only one, since no peer stands in it twice.

`TypeCorrect` of each module states its type invariant.

Model-checked only: liveness (`IdleGoes`, `DrainEnds`, `CallsSettle`,
`ManifestArrives`), since a proof under fairness needs `ENABLED`, which the prover does
not handle. The theorems of the table are as far as a proof goes: they leave to TLC that
the step which takes the measure down is enabled as long as it is not zero. The runs that
expect a violation have nothing to prove.

## 6. Plan

Order: what the server itself promises about data first (budget, revocation,
sessions, audit), then what stands in front of it (limits, bridge, gateway), then the
network (router, mesh, client), then the rest.

1. Done: the modules of section 2 and the theorems of section 5.
2. Done: theorems beyond the properties of the runs (the table of section 5,
   `AbandonedIsFrozen`, `CallsStartSound`, `WaitingIsHeld`, `NamesAreDecided`).
3. Left: which conditions on the deployment are necessary, and not only sufficient, for the
   chain and for the revocation list. That is a statement that some behaviour exists, and
   a run that finds it is the natural form of it.

## 7. Not modelled

* Textual analysis (taint analysis, PII and NER scanners, guardian, aggregation and
  egress policies): functions of a syntax tree or a text that keep nothing between calls.
  A model of them would be a copy of their patterns. They appear as choices of outcome.
* Access control and tokens (`rbac.ts`, `auth-config.ts`, `jwt-validator.ts`,
  `oauth-server.ts`): functions of a token and a configuration, and the configuration of
  `jose` and `oidc-provider`, whose state is theirs. A token validates or does not.
* Cryptography (`kyber.ts`, `dilithium.ts`, `zk.ts`): libraries, taken as ideal.
* Parts of modelled components, named in `PROJECT.json`: the credentials of a channel (made
  for each connection, no state), the routing table file of the mesh node (addresses to dial;
  reading and writing it changes nothing the properties are about), listening and socket
  multiplexing of the gateway, how the router acquires a token.
* `bridge/index.ts`, `gateway/mcp-compat.ts`, `gateway/grpc-web.ts`: translate one message
  at a time.
* Observability and economy: nothing depends on them.
* `bin/agent.ts`: wires the parts together; its polling is the fairness of
  `ManifestDiscovery`, its shutdown the start of `GatewayDrain`.
* The Rust implementation: a second program, with a part of the protocol.
