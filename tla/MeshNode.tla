------------------------------ MODULE MeshNode ------------------------------
(***************************************************************************)
(* The life of a mesh node (mesh/node.ts) under the server that joins it   *)
(* to the mesh (server/index.ts, connectToMesh): the identity and routing  *)
(* table files, the start sequence, the manifest handler, and who is told  *)
(* of which capability.  A peer is told by a provide of the DHT, which     *)
(* reaches the peers connected when it is sent; a peer that connects later *)
(* depends on the re-announcement its connection triggers.  The process    *)
(* may crash at any step; the files stay, and so do the provider records   *)
(* peers have, which name the identity they were announced under.          *)
(***************************************************************************)
EXTENDS Integers, FiniteSets

CONSTANTS
  Tools,        \* capabilities: the names of the server's tools
  Manifest,     \* the capability "liop:manifest"
  Peers,        \* the other nodes; few enough for a provide to reach them all
  Boots,        \* how many bootstrap addresses are configured
  MaxDials,     \* attempts per bootstrap address (5 in the code)
  MaxConnects,  \* bound: connections opened in a behaviour
  MaxStarts,    \* bound: starts of the process, hence keys it may generate
  Faults        \* which calls may fail: subset of {"provide", "read", "write"}

ASSUME MeshAssumption ==
  /\ Manifest \notin Tools
  /\ {Boots, MaxConnects, MaxStarts} \subseteq Nat /\ MaxDials \in Nat \ {0}

Caps == Tools \cup {Manifest}
NoKey == 0
Torn == -1                      \* a file that cannot be parsed
Keys == 1 .. MaxStarts

VARIABLES
  idFile,     \* the identity file: NoKey (missing), Torn, or the key it holds
  starts, connects,   \* bounded counters
  misread,    \* history: the start under way failed to read a file that was whole
  lost,       \* history: no start took an identity yet, or the last that did ended,
              \* or failed to write, before the file held it
  pc,         \* where connectToMesh / start / stop is
  key, isNew, \* what loadOrCreateIdentity returned; isNew is a local of start
  node,       \* "none", "created" (this.node is set), "started"
  provider,   \* manifestProvider is set
  handler,    \* the protocol handler is installed
  tools,      \* tools registered with the server
  queue,      \* tools of the snapshot connectToMesh has still to announce
  dial,       \* [boot, attempt] of the bootstrap loop
  announced,  \* announcedCapabilities
  flights,    \* provides of announceCapability under way
  pass,       \* the re-announcement
  connected,  \* peers connected
  told,       \* told[p]: the provider records p has, <<key, capability>>
  excused     \* history: capabilities p may have missed, by a failure or by
              \* connecting while a re-announcement had already passed them

disk == <<idFile, starts, misread, lost>>
life == <<pc, key, isNew, node, queue, dial>>
mesh == <<connects, connected>>
told_ == <<told, excused>>
vars == <<disk, life, mesh, told_, provider, handler, tools, announced, flights, pass>>

Idle == [stage |-> "idle", seen |-> {}, cap |-> Manifest, to |-> {}]

Fresh ==     \* the memory of a process that has not started
  /\ key' = NoKey /\ isNew' = FALSE /\ node' = "none" /\ handler' = FALSE
  /\ tools' = {} /\ queue' = {} /\ dial' = [boot |-> 0, attempt |-> 1]
  /\ announced' = {} /\ flights' = {} /\ pass' = Idle
  /\ connected' = {} /\ provider' = FALSE
  /\ excused' = [p \in Peers |-> {}]

Init ==
  /\ idFile = NoKey /\ starts = 0 /\ connects = 0 /\ misread = FALSE /\ lost = TRUE
  /\ pc = "down" /\ key = NoKey /\ isNew = FALSE /\ node = "none" /\ handler = FALSE
  /\ tools = {} /\ queue = {} /\ dial = [boot |-> 0, attempt |-> 1]
  /\ announced = {} /\ flights = {} /\ pass = Idle
  /\ connected = {} /\ provider = FALSE
  /\ told = [p \in Peers |-> {}] /\ excused = [p \in Peers |-> {}]
-----------------------------------------------------------------------------
(* Start: the identity *)

\* A gateway's router registers its manifest provider before the node starts,
\* a server after: early says which.
Start(early) ==
  /\ pc = "down" /\ starts < MaxStarts
  /\ starts' = starts + 1
  /\ provider' = early
  /\ pc' = "loading"
  /\ UNCHANGED <<idFile, misread, lost, key, isNew, node, queue, dial, mesh, told_,
                 handler, tools, announced, flights, pass>>

\* The first await of start: a file that is missing, fails to be read or does
\* not hold a key is replaced by a new key.
LoadIdentity ==
  /\ pc = "loading"
  /\ \/ /\ idFile \in Keys
        /\ key' = idFile /\ isNew' = FALSE /\ misread' = FALSE
     \/ /\ idFile \notin Keys \/ "read" \in Faults
        /\ key' = starts /\ isNew' = TRUE /\ misread' = (idFile \in Keys)
  /\ lost' = FALSE
  /\ pc' = "creating"
  /\ UNCHANGED <<idFile, starts, node, queue, dial, mesh, told_, provider,
                 handler, tools, announced, flights, pass>>

Create ==
  /\ pc = "creating"
  /\ node' = "created" /\ pc' = "starting"
  /\ UNCHANGED <<disk, key, isNew, queue, dial, mesh, told_, provider, handler,
                 tools, announced, flights, pass>>

NodeStarts ==
  /\ pc = "starting"
  /\ node' = "started" /\ pc' = "seeding"
  /\ UNCHANGED <<disk, key, isNew, queue, dial, mesh, told_, provider, handler,
                 tools, announced, flights, pass>>
-----------------------------------------------------------------------------
(* Capabilities *)

\* announceCapability up to its first await: it is buffered, and a provide is
\* on its way to the peers connected now.
Announce(c, by) ==
  /\ announced' = announced \cup {c}
  /\ flights' = flights \cup {[cap |-> c, by |-> by, to |-> connected]}

\* applyHandlers: the announcement is not awaited, so the handler is there
\* before the provide goes out.
ApplyHandlers(registers) ==
  IF handler \/ ~registers
    THEN UNCHANGED <<handler, announced, flights>>
    ELSE handler' = TRUE /\ Announce(Manifest, "handlers")

\* MUTANT of Seed: the manifest is announced before it is served.
SeedAwaits ==
  /\ pc = "seeding"
  /\ IF provider THEN Announce(Manifest, "handlers") ELSE UNCHANGED <<announced, flights>>
  /\ pc' = IF isNew THEN "truncating" ELSE "dialing"
  /\ UNCHANGED <<disk, key, isNew, node, queue, dial, mesh, told_,
                 provider, handler, tools, pass>>

\* MUTANT of Seed: the identity is saved on every start.
SeedSaves ==
  /\ pc = "seeding"
  /\ ApplyHandlers(provider)
  /\ pc' = "truncating"
  /\ UNCHANGED <<disk, key, isNew, node, queue, dial, mesh, told_,
                 provider, tools, pass>>

\* loadRoutingTable adds peers to the peer store, or logs that it cannot: no
\* error leaves it.  Then applyHandlers.
Seed ==
  /\ pc = "seeding"
  /\ ApplyHandlers(provider)
  /\ pc' = IF isNew THEN "truncating" ELSE "dialing"
  /\ UNCHANGED <<disk, key, isNew, node, queue, dial, mesh, told_,
                 provider, tools, pass>>

\* saveIdentity: writeFile truncates, then writes; an error is logged.
SaveTruncates ==
  /\ pc = "truncating"
  /\ \/ idFile' = Torn /\ pc' = "writing" /\ UNCHANGED lost
     \/ "write" \in Faults /\ pc' = "dialing" /\ lost' = TRUE /\ UNCHANGED idFile
  /\ UNCHANGED <<starts, misread, key, isNew, node, queue, dial, mesh, told_,
                 provider, handler, tools, announced, flights, pass>>
SaveWrites ==
  /\ pc = "writing"
  /\ \/ idFile' = key /\ UNCHANGED lost
     \/ "write" \in Faults /\ lost' = TRUE /\ UNCHANGED idFile
  /\ pc' = "dialing"
  /\ UNCHANGED <<starts, misread, key, isNew, node, queue, dial, mesh, told_,
                 provider, handler, tools, announced, flights, pass>>

\* The bootstrap loop: every address is tried MaxDials times, then given up.
DialBoot ==
  /\ pc = "dialing" /\ dial.boot < Boots
  /\ \/ dial' = [boot |-> dial.boot + 1, attempt |-> 1]
     \/ dial' = IF dial.attempt < MaxDials THEN [dial EXCEPT !.attempt = @ + 1]
                ELSE [boot |-> dial.boot + 1, attempt |-> 1]
  /\ UNCHANGED <<disk, pc, key, isNew, node, queue, mesh, told_, provider, handler,
                 tools, announced, flights, pass>>

\* start returns, and its locals are gone; connectToMesh registers the provider
\* and takes its snapshot of the tools in the same turn.
Register ==
  /\ pc = "dialing" /\ dial.boot = Boots
  /\ provider' = TRUE
  /\ ApplyHandlers(TRUE)
  /\ queue' = tools
  /\ pc' = "announcing" /\ isNew' = FALSE /\ misread' = FALSE
  /\ UNCHANGED <<idFile, starts, lost, key, node, dial, mesh, told_, tools, pass>>

\* Tools of the snapshot one after the other, each awaited; then the manifest.
InFlight(by) == \E f \in flights : f.by = by
AnnounceNext ==
  /\ pc = "announcing" /\ ~InFlight("join")
  /\ IF queue # {}
       THEN \E t \in queue : Announce(t, "join") /\ queue' = queue \ {t} /\ UNCHANGED pc
       ELSE Announce(Manifest, "join") /\ pc' = "joining" /\ UNCHANGED queue
  /\ UNCHANGED <<disk, key, isNew, node, dial, mesh, told_, provider, handler, tools, pass>>
Joined ==
  /\ pc = "joining" /\ ~InFlight("join")
  /\ pc' = "up"
  /\ UNCHANGED <<disk, key, isNew, node, queue, dial, mesh, told_, provider, handler,
                 tools, announced, flights, pass>>

\* MUTANT of AddTool: announced only once the server has joined.
AddToolWhenUp(t) ==
  /\ t \notin tools /\ pc \notin {"down", "stopping", "stopped"}
  /\ tools' = tools \cup {t}
  /\ IF pc # "up" THEN UNCHANGED <<announced, flights>> ELSE Announce(t, "tool")
  /\ UNCHANGED <<disk, life, mesh, told_, provider, handler, pass>>

\* tool(): announced at once when the node exists; announceCapability throws,
\* and the error is logged, when it does not yet.
AddTool(t) ==
  /\ t \notin tools /\ pc \notin {"down", "stopping", "stopped"}
  /\ tools' = tools \cup {t}
  /\ IF node = "none" THEN UNCHANGED <<announced, flights>> ELSE Announce(t, "tool")
  /\ UNCHANGED <<disk, life, mesh, told_, provider, handler, pass>>
-----------------------------------------------------------------------------
(* Provides and the re-announcement *)

\* A provide ends: the peers it was for, if still connected, are told; or it
\* fails, as it does on a node that is not started, and the error is logged.
ProvideEnds(c, to) ==
  \/ /\ node = "started"
     /\ told' = [p \in Peers |-> IF p \in to THEN told[p] \cup {<<key, c>>} ELSE told[p]]
     /\ UNCHANGED excused
  \/ /\ node # "started" \/ "provide" \in Faults
     /\ excused' = [p \in Peers |-> IF p \in connected THEN excused[p] \cup {c} ELSE excused[p]]
     /\ UNCHANGED told

Announced(f) ==
  /\ f \in flights
  /\ ProvideEnds(f.cap, f.to)
  /\ flights' = flights \ {f}
  /\ UNCHANGED <<disk, life, mesh, provider, handler, tools, announced, pass>>

\* reannounceAll after its 500 ms: the next capability of the set, which the
\* iterator also finds when it was added meanwhile; none left ends the pass.
Settled ==
  /\ pass.stage = "settling"
  /\ pass' = [pass EXCEPT !.stage = "iterating"]
  /\ UNCHANGED <<disk, life, mesh, told_, provider, handler, tools, announced, flights>>
PassNext ==
  /\ pass.stage = "iterating"
  /\ IF announced \subseteq pass.seen THEN pass' = Idle
     ELSE \E c \in announced \ pass.seen :
            pass' = [stage |-> "sending", seen |-> pass.seen \cup {c}, cap |-> c, to |-> connected]
  /\ UNCHANGED <<disk, life, mesh, told_, provider, handler, tools, announced, flights>>
PassSent ==
  /\ pass.stage = "sending"
  /\ ProvideEnds(pass.cap, pass.to)
  /\ pass' = [pass EXCEPT !.stage = "iterating", !.to = {}]
  /\ UNCHANGED <<disk, life, mesh, provider, handler, tools, announced, flights>>

\* The pass has begun to go over the capabilities.
Passing == pass.stage \in {"iterating", "sending"}

\* MUTANT of Connect: the pass only when the first peer connects.
ConnectNoRetrigger(p) ==
  /\ node = "started"
  /\ p \notin connected /\ connects < MaxConnects
  /\ connects' = connects + 1
  /\ connected' = connected \cup {p}
  /\ pass' = IF pass.stage = "idle" /\ announced # {} /\ connected = {}
               THEN [Idle EXCEPT !.stage = "settling"] ELSE pass
  /\ excused' = [excused EXCEPT ![p] = IF Passing THEN pass.seen ELSE {}]
  /\ UNCHANGED <<disk, life, told, provider, handler, tools, announced, flights>>

\* peer:connect: the peer joins the routing table, and a pass is triggered
\* unless one is under way or nothing has been announced.
Connect(p) ==
  /\ node = "started"
  /\ p \notin connected /\ connects < MaxConnects
  /\ connects' = connects + 1
  /\ connected' = connected \cup {p}
  /\ pass' = IF pass.stage = "idle" /\ announced # {}
               THEN [Idle EXCEPT !.stage = "settling"] ELSE pass
  /\ excused' = [excused EXCEPT ![p] = IF Passing THEN pass.seen ELSE {}]
  /\ UNCHANGED <<disk, life, told, provider, handler, tools, announced, flights>>

\* libp2p: a connection closes; the peer that comes back has the records it
\* had, or is a new process and has none.
Disconnect(p) ==
  /\ p \in connected
  /\ connected' = connected \ {p}
  /\ UNCHANGED told \/ told' = [told EXCEPT ![p] = {}]
  /\ excused' = [excused EXCEPT ![p] = {}]
  /\ flights' = {[f EXCEPT !.to = @ \ {p}] : f \in flights}
  /\ pass' = [pass EXCEPT !.to = @ \ {p}]
  /\ UNCHANGED <<disk, life, connects, provider, handler, tools, announced>>
-----------------------------------------------------------------------------
(* Stop, and the end of the process *)

\* stop saves the routing table, or logs that it cannot, and peers may connect
\* meanwhile; then it stops the node. this.node stays set.
Stop ==
  /\ pc = "up"
  /\ pc' = "stopping"
  /\ UNCHANGED <<disk, key, isNew, node, queue, dial, mesh, told_, provider, handler,
                 tools, announced, flights, pass>>
NodeStops ==
  /\ pc = "stopping"
  /\ pc' = "stopped" /\ node' = "created"
  /\ connected' = {} /\ excused' = [p \in Peers |-> {}]
  /\ UNCHANGED <<disk, key, isNew, queue, dial, connects, told, provider, handler,
                 tools, announced, flights, pass>>

\* The process ends, at whatever step, and may be started again: the files stay,
\* and the records its peers have.
Unsaved == isNew /\ pc \in {"creating", "starting", "seeding", "truncating", "writing"}
Crash ==
  /\ pc # "down"
  /\ pc' = "down" /\ Fresh
  /\ lost' = (lost \/ Unsaved)
  /\ UNCHANGED <<idFile, starts, misread, connects, told>>
-----------------------------------------------------------------------------
Provides == (\E f \in flights : Announced(f)) \/ PassSent
Starting ==
  \/ LoadIdentity \/ Create \/ NodeStarts \/ Seed \/ SaveTruncates \/ SaveWrites
  \/ DialBoot \/ Register \/ AnnounceNext \/ Joined

Next ==
  \/ \E early \in BOOLEAN : Start(early)
  \/ Starting
  \/ Stop \/ NodeStops \/ Crash
  \/ Settled \/ PassNext \/ Provides
  \/ \E t \in Tools : AddTool(t)
  \/ \E p \in Peers : Connect(p) \/ Disconnect(p)

Spec == Init /\ [][Next]_vars
-----------------------------------------------------------------------------
TypeOK ==
  /\ idFile \in Keys \cup {NoKey, Torn}
  /\ starts \in 0 .. MaxStarts /\ connects \in 0 .. MaxConnects
  /\ misread \in BOOLEAN /\ lost \in BOOLEAN
  /\ pc \in {"down", "loading", "creating", "starting", "seeding", "truncating", "writing",
             "dialing", "announcing", "joining", "up", "stopping", "stopped"}
  /\ key \in Keys \cup {NoKey} /\ isNew \in BOOLEAN /\ node \in {"none", "created", "started"}
  /\ {provider, handler} \subseteq BOOLEAN /\ tools \subseteq Tools /\ queue \subseteq Tools
  /\ dial \in [boot : 0 .. Boots, attempt : 1 .. MaxDials]
  /\ announced \subseteq Caps
  /\ flights \subseteq [cap : Caps, by : {"handlers", "join", "tool"}, to : SUBSET Peers]
  /\ pass \in [stage : {"idle", "settling", "iterating", "sending"}, seen : SUBSET Caps,
               cap : Caps, to : SUBSET Peers]
  /\ connected \subseteq Peers
  /\ told \in [Peers -> SUBSET (Keys \X Caps)] /\ excused \in [Peers -> SUBSET Caps]

\* When no provide is under way and no pass is running, a connected peer has a
\* record of every announced capability under this node's identity, but for those
\* whose provide failed and those a running pass had gone by when the peer
\* connected (reannounceAll's flag).
Quiet == pass.stage = "idle" /\ flights = {}
PeersAreTold ==
  Quiet => \A p \in connected, c \in announced :
             <<key, c>> \in told[p] \/ c \in excused[p]

\* A server that has joined the mesh has announced every tool it has, also
\* those registered while it was joining (tool() and connectToMesh between them).
JoinedAnnouncesAll == pc = "up" => tools \cup {Manifest} \subseteq announced

\* A peer gets a record of this node's manifest only from a node that serves it
\* (registerManifestHandler before announceCapability). A node started again under
\* its identity is advertised before it serves, by the records its peers still have.
Serves == node = "started" /\ handler
AdvertisedIsServed ==
  [][\A p \in Peers : <<key, Manifest>> \in told'[p] \ told[p] => Serves]_vars

\* The peer id a start has taken comes back at the next one, unless that fails to
\* read a whole file, or the first ended or failed to write before saveIdentity was
\* through, which leaves the file torn or missing; and a whole file is written over
\* only when it could not be read. Nothing protects the id while it is being saved:
\* a crash there loses it, though peers may have records of it (mesh/node.ts:247).
IdentityKept ==
  [][/\ isNew' /\ ~isNew => lost \/ misread'
     /\ idFile \in Keys /\ idFile' # idFile => misread]_vars

\* mesh/node.ts:448: "Trigger reactive re-announcement of all capabilities so
\* that ADD_PROVIDER messages reach the new peer".
ReachesTheNewPeer ==
  Quiet => \A p \in connected, c \in announced : <<key, c>> \in told[p]
=============================================================================
