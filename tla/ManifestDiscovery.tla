------------------------- MODULE ManifestDiscovery -------------------------
(***************************************************************************)
(* The manifest cache of LiopMcpRouter (gateway/router.ts). One discovery    *)
(* pass at a time asks the peers it finds for their manifests and caches     *)
(* them all at its end; tools/list names the cached tools, and tools/call    *)
(* resolves a name against the cache as it is by then. An entry gets stale   *)
(* and is replaced in place; it is never removed.                           *)
(*                                                                         *)
(* A manifest is the set of its tools. A lifetime or a cooldown runs out at  *)
(* some moment. The code between two awaits is one step.                    *)
(***************************************************************************)
EXTENDS Integers, FiniteSets, SequencesExt

CONSTANTS
  Peers,
  Neighbours,  \* the peers a connection may open to; the DHT may know the others
  Tools,
  LocalTools,  \* the tools the local server has
  Suffix,      \* the last four characters of a peer's id, which several may share
  Offerings,   \* the manifests a peer may have
  Expected,    \* LIOP_EXPECTED_PROVIDERS
  MaxChanges   \* bound: how often a peer changes its manifest

ASSUME DiscoveryAssumption ==
  /\ IsFiniteSet(Peers) /\ Neighbours \subseteq Peers
  /\ IsFiniteSet(Tools) /\ LocalTools \subseteq Tools
  /\ Offerings \in [Peers -> SUBSET SUBSET Tools]
  /\ Expected \in Nat /\ MaxChanges \in Nat

VARIABLES
  connected, \* the peers a connection is open to
  offers,    \* the manifest each peer has now
  changes,
  order,     \* the peers in the cache, in the order they were entered
  tools,     \* their cached manifests
  fresh,     \* the cached peers whose lifetime has not run out
  cooling,   \* the peers not to be asked after a failure
  pass,      \* the discovery in progress
  lister,    \* a tools/list: "idle" or "warming"
  listed,    \* the cache as the last tools/list showed it
  notified,  \* whether tools/list_changed was sent since
  direct,    \* whether a call cached a manifest since, or in the pass before
  call       \* a tools/call

world == <<connected, offers, changes>>
cache == <<order, tools, fresh>>
client == <<listed, notified, direct>>
vars == <<world, cache, cooling, pass, lister, client, call>>

Stages == {"none", "find", "ask"}
NoPass == [stage |-> "none", prev |-> 0, waiting |-> {}, failed |-> {},
           got |-> <<>>]

Names == {<<t>> : t \in Tools} \cup
         {<<t, Suffix[p]>> : t \in Tools, p \in Peers}
Caches == UNION {[P -> SUBSET Tools] : P \in SUBSET Peers}

Passes == [stage : Stages, prev : Nat, waiting : SUBSET Peers, failed : SUBSET Peers,
           got : Caches]
Calls == [at : {"idle", "searching"}] \cup [at : {"waiting"}, name : Names]
           \cup [at : {"asking", "sending"}, to : Peers]

\* Each cached peer stands in the order once; only cached peers are fresh; a
\* pass waits for peers that neither failed nor answered.
TypeOK ==
  /\ connected \subseteq Neighbours
  /\ offers \in [Peers -> SUBSET Tools]
  /\ changes \in 0..MaxChanges
  /\ order \in Seq(Peers) /\ IsInjective(order) /\ Range(order) = DOMAIN tools
  /\ tools \in Caches
  /\ fresh \subseteq DOMAIN tools
  /\ cooling \subseteq Peers
  /\ pass \in Passes /\ pass.waiting \cap (pass.failed \cup DOMAIN pass.got) = {}
  /\ lister \in {"idle", "warming"}
  /\ listed \in [order : Seq(Peers), tools : Caches]
  /\ Range(listed.order) = DOMAIN listed.tools
  /\ notified \in BOOLEAN /\ direct \in BOOLEAN
  /\ call \in Calls

Init ==
  /\ connected = {}
  /\ offers \in [Peers -> SUBSET Tools]
  /\ \A p \in Peers : offers[p] \in Offerings[p]
  /\ changes = 0
  /\ order = <<>> /\ tools = <<>> /\ fresh = {}
  /\ cooling = {}
  /\ pass = NoPass
  /\ lister = "idle"
  /\ listed = [order |-> <<>>, tools |-> <<>>]
  /\ notified = FALSE /\ direct = FALSE
  /\ call = [at |-> "idle"]

-----------------------------------------------------------------------------
(* The cache, the names of tools/list, and what tools/call makes of them     *)

\* Map.set, for each manifest of d.
With(c, d) == [p \in DOMAIN c \cup DOMAIN d |-> IF p \in DOMAIN d THEN d[p] ELSE c[p]]
Only(p, m) == [q \in {p} |-> m]

\* How many tools a cache holds: all that a pass compares.
Count(c) == Cardinality({pt \in (DOMAIN c) \X Tools : pt[2] \in c[pt[1]]})

\* The peers entered before p.
Before(o, p) == {q \in Range(o) : \E i, j \in DOMAIN o :
                                    i < j /\ o[i] = q /\ o[j] = p}

\* A tool some peer before p has, or the local server, gets p's suffix.
Name(o, c, p, t) ==
  IF t \in LocalTools \/ \E q \in Before(o, p) : t \in c[q]
    THEN <<t, Suffix[p]>> ELSE <<t>>

\* The first peer that has the tool and, if the name ends in one, the suffix.
Matches(c, n) ==
  {p \in DOMAIN c : n[1] \in c[p] /\ (Len(n) = 2 => Suffix[p] = n[2])}
Resolves(o, c, n, p) ==
  p \in Matches(c, n) /\ Before(o, p) \cap Matches(c, n) = {}

-----------------------------------------------------------------------------
(* The peers, and time                                                      *)

Change(p) ==
  /\ changes < MaxChanges
  /\ changes' = changes + 1
  /\ \E m \in Offerings[p] \ {offers[p]} : offers' = [offers EXCEPT ![p] = m]
  /\ UNCHANGED <<connected, cache, cooling, pass, lister, client, call>>

\* A connection opens or closes.
Toggle(p) ==
  /\ p \in Neighbours
  /\ connected' = IF p \in connected THEN connected \ {p}
                                     ELSE connected \cup {p}
  /\ UNCHANGED <<offers, changes, cache, cooling, pass, lister, client, call>>

Expire(p) ==
  /\ p \in fresh
  /\ fresh' = fresh \ {p}
  /\ UNCHANGED <<world, order, tools, cooling, pass, lister, client,
                 call>>

CoolEnds(p) ==
  /\ p \in cooling
  /\ cooling' = cooling \ {p}
  /\ UNCHANGED <<world, cache, pass, lister, client, call>>

-----------------------------------------------------------------------------
(* A discovery pass                                                         *)

\* Starts a pass unless one is running, which is joined.
Refresh == pass' = IF pass.stage # "none" THEN pass
                   ELSE [NoPass EXCEPT !.stage = "find", !.prev = Count(tools)]

\* The agent's timers, resources/list, the status tool, initialized: a silent
\* refresh, which looks for new peers however fresh the cache is.
Kick ==
  /\ pass.stage = "none"
  /\ Refresh
  /\ UNCHANGED <<world, cache, cooling, lister, client, call>>

Idle == [at |-> "idle"]
Sending(p) == [at |-> "sending", to |-> p]

\* What a call does with the cache o, c before it waits again: it is sent, or it
\* looks for a provider in the DHT.
Goes(o, c, n) ==
  IF Matches(c, n) = {}
    THEN {[at |-> "searching"]}
    ELSE {Sending(p) : p \in {q \in Peers : Resolves(o, c, n, q)}}

\* The finally: the pass is over, and a call that waits for it tries again.
Release ==
  /\ pass' = NoPass
  /\ IF call.at = "waiting" THEN call' \in Goes(order', tools', call.name)
                            ELSE call' = call

\* After all retries neither the DHT nor a connection gave a peer.
PassEmpty ==
  /\ pass.stage = "find"
  /\ connected = {}
  /\ UNCHANGED <<world, cache, cooling, lister, client>>
  /\ Release

\* MUTANT of Eligible: whoever is cached is not asked again.
EligibleUncached(found) == found \ (cooling \cup DOMAIN tools)

Eligible(found) == found \ (cooling \cup fresh)

\* The providers the DHT knows, which may lack some and hold some long gone, and
\* whoever is connected. Those that are due are asked, all at once.
PassFound(found) ==
  /\ pass.stage = "find"
  /\ found # {} /\ connected \subseteq found
  /\ pass' = [pass EXCEPT !.stage = "ask", !.waiting = Eligible(found)]
  /\ UNCHANGED <<world, cache, cooling, lister, client, call>>

PeerAnswers(p) ==
  /\ p \in pass.waiting
  /\ pass' = [pass EXCEPT !.waiting = @ \ {p}, !.got = With(@, Only(p, offers[p]))]
  /\ UNCHANGED <<world, cache, cooling, lister, client, call>>

\* No manifest after three attempts, or one whose signature does not verify.
PeerFails(p) ==
  /\ p \in pass.waiting
  /\ pass' = [pass EXCEPT !.waiting = @ \ {p}, !.failed = @ \cup {p}]
  /\ UNCHANGED <<world, cache, cooling, lister, client, call>>

\* MUTANT of PassEnds: an entry is deleted and entered anew.
PassEndsReorders ==
  /\ pass.stage = "ask" /\ pass.waiting = {}
  /\ LET Kept(p) == p \notin DOMAIN pass.got
     IN  \E s \in SetToSeqs(DOMAIN pass.got) :
           order' = SelectSeq(order, Kept) \o s
  /\ tools' = With(tools, pass.got)
  /\ fresh' = fresh \cup DOMAIN pass.got
  /\ cooling' = (cooling \cup pass.failed) \ DOMAIN pass.got
  /\ notified' = (notified \/ (pass.got # <<>> /\ Count(tools') # pass.prev))
  /\ Release
  /\ UNCHANGED <<world, lister, listed, direct>>

\* MUTANT of PassEnds: the numbers of peers are compared, not of tools.
PassEndsBySize ==
  /\ pass.stage = "ask" /\ pass.waiting = {}
  /\ \E s \in SetToSeqs(DOMAIN pass.got \ DOMAIN tools) : order' = order \o s
  /\ tools' = With(tools, pass.got)
  /\ fresh' = fresh \cup DOMAIN pass.got
  /\ cooling' = (cooling \cup pass.failed) \ DOMAIN pass.got
  /\ notified' = (notified \/ Len(order') # Len(order))
  /\ Release
  /\ UNCHANGED <<world, lister, listed, direct>>

\* All have answered or failed. A cached peer keeps its place in the order. The
\* client is told only if the number of tools is another than at the start.
PassEnds ==
  /\ pass.stage = "ask" /\ pass.waiting = {}
  /\ \E s \in SetToSeqs(DOMAIN pass.got \ DOMAIN tools) : order' = order \o s
  /\ tools' = With(tools, pass.got)
  /\ fresh' = fresh \cup DOMAIN pass.got
  /\ cooling' = (cooling \cup pass.failed) \ DOMAIN pass.got
  /\ notified' = (notified \/ (pass.got # <<>> /\ Count(tools') # pass.prev))
  /\ Release
  /\ UNCHANGED <<world, lister, listed, direct>>
-----------------------------------------------------------------------------
(* tools/list                                                               *)

\* Too few providers: a pass is started or joined, in a loop.
ListBegin ==
  /\ lister = "idle"
  /\ Len(order) < Expected
  /\ lister' = "warming"
  /\ Refresh
  /\ UNCHANGED <<world, cache, cooling, client, call>>

ListAgain ==
  /\ lister = "warming"
  /\ Len(order) < Expected
  /\ pass.stage = "none"
  /\ Refresh
  /\ UNCHANGED <<world, cache, cooling, lister, client, call>>

\* Enough providers, or time is up: then one more pass is left running.
ListAnswer ==
  /\ lister = "warming" \/ Len(order) >= Expected
  /\ IF Len(order) < Expected THEN Refresh ELSE UNCHANGED pass
  /\ lister' = "idle"
  /\ listed' = [order |-> order, tools |-> tools]
  /\ notified' = FALSE
  /\ direct' = (direct /\ pass.stage # "none")
  /\ UNCHANGED <<world, cache, cooling, call>>

-----------------------------------------------------------------------------
(* tools/call of a tool the local server does not have                      *)

\* The call is sent if the cache knows the name. Else it refreshes the cache, which
\* it skips if all of the cache is fresh and no pass can be joined.
CallBegin(n) ==
  /\ call.at = "idle"
  /\ n \notin {<<t>> : t \in LocalTools}
  /\ IF Matches(tools, n) # {}
          \/ (pass.stage = "none" /\ order # <<>> /\ fresh = DOMAIN tools)
       THEN call' \in Goes(order, tools, n) /\ UNCHANGED pass
       ELSE call' = [at |-> "waiting", name |-> n] /\ Refresh
  /\ UNCHANGED <<world, cache, cooling, lister, client>>

\* The first provider the DHT gives for the name, if any; asked for its manifest
\* if that is not cached.
CallSearches ==
  /\ call.at = "searching"
  /\ \/ \E p \in DOMAIN tools : call' = Sending(p)
     \/ \E p \in Peers \ DOMAIN tools : call' = [at |-> "asking", to |-> p]
     \/ call' = Idle
  /\ UNCHANGED <<world, cache, cooling, pass, lister, client>>

\* The manifest is cached without a check of its signature and without telling
\* the client; without one the call goes to the default port.
CallAsks ==
  /\ call.at = "asking"
  /\ \/ /\ tools' = With(tools, Only(call.to, offers[call.to]))
        /\ order' = IF call.to \in DOMAIN tools THEN order
                                               ELSE Append(order, call.to)
        /\ fresh' = fresh \cup {call.to}
        /\ direct' = TRUE
     \/ UNCHANGED <<cache, direct>>
  /\ call' = Sending(call.to)
  /\ UNCHANGED <<world, cooling, pass, lister, listed, notified>>

\* The provider answers, or the RPC fails.
CallEnds ==
  /\ call.at = "sending"
  /\ call' = Idle
  /\ UNCHANGED <<world, cache, cooling, pass, lister, client>>

-----------------------------------------------------------------------------
PeerStep(p) == Toggle(p) \/ Change(p) \/ Expire(p) \/ CoolEnds(p)
PeerReplies(p) == PeerAnswers(p) \/ PeerFails(p)
Found == \E found \in SUBSET Peers : PassFound(found)
PassGoesOn == Kick \/ PassEmpty \/ Found \/ PassEnds
CallGoesOn == CallSearches \/ CallAsks \/ CallEnds

Next ==
  \/ \E p \in Peers : PeerStep(p) \/ PeerReplies(p)
  \/ PassGoesOn
  \/ ListBegin \/ ListAgain \/ ListAnswer
  \/ \E n \in Names : CallBegin(n)
  \/ CallGoesOn

Spec == Init /\ [][Next]_vars

\* The agent polls for ever, every wait of a pass and of a call is bounded, and
\* lifetimes and cooldowns run out. A peer that is asked again and again while
\* connected does answer some day.
FairSpec ==
  /\ Spec
  /\ WF_vars(PassGoesOn)
  /\ WF_vars(CallGoesOn)
  /\ \A p \in Peers :
       /\ WF_vars(Expire(p) \/ CoolEnds(p))
       /\ WF_vars(PeerReplies(p))
       /\ SF_vars(p \in connected /\ PeerAnswers(p))

-----------------------------------------------------------------------------
(* Properties                                                               *)

\* A name keeps its meaning as long as the provider it was listed for keeps the
\* tool and the providers listed before do not change: whatever passes refreshed,
\* and whoever else joined since tools/list, resolveManifestTarget finds the peer
\* for which getRemoteTools made up the name; unless one of those listed before has the
\* same tool and the same suffix, which nothing in the code rules out.
NameKeepsMeaning ==
  \A p \in Range(listed.order) :
    LET earlier == Before(listed.order, p)
    IN  (\A q \in earlier : tools[q] = listed.tools[q]) =>
          \A t \in listed.tools[p] \cap tools[p] :
            (\A q \in earlier : t \in tools[q] => Suffix[q] # Suffix[p]) =>
              Resolves(order, tools, Name(listed.order, listed.tools, p, t), p)

\* No pass leaves the client with a list whose number of tools is wrong without
\* having told it, however passes, lists and calls interleave; manifests that calls
\* cached on their own are the exception (routeToRemoteProvider tells nobody).
Told ==
  pass.stage = "none" /\ ~direct /\ Count(tools) # Count(listed.tools)
    => notified

\* The manifest of a peer that stays connected gets into the cache, and so does its
\* last change, though a fresh entry is not asked for, a failed peer cools down, an
\* answer may be old by the end of its pass, and calls cache on their own.
ManifestArrives ==
  \A p \in Neighbours : <>[](p \in connected) =>
                      <>[](p \in DOMAIN tools /\ tools[p] = offers[p])
=============================================================================
