--------------------------- MODULE StreamSessions ---------------------------
(***************************************************************************)
(* The sessions of LiopStreamBridge (bridge/stream.ts): opened by a request *)
(* without a session id, up to a number per address; touched by every        *)
(* request that names them; closed by a DELETE, by the eviction timer or by *)
(* stop. Authentication precedes all of this and is left out: only requests  *)
(* let in are modelled. A request occupies a slot (an HTTP exchange). Ids    *)
(* are random in the code; here one that nothing refers to may come again.  *)
(***************************************************************************)
EXTENDS Integers, FiniteSets

CONSTANTS
  Slots,     \* concurrent HTTP exchanges
  Ids,       \* session ids
  NoId,
  Addresses, \* client addresses
  NoAddress,
  MaxPerIp,  \* maxSessionsPerIp
  Timeout,   \* sessionTimeoutMs
  Interval   \* EVICTION_INTERVAL_MS

StreamAssumption ==
  /\ IsFiniteSet(Slots) /\ NoId \notin Ids /\ NoAddress \notin Addresses
  /\ {MaxPerIp, Timeout, Interval} \subseteq Nat \ {0}

VARIABLES
  status,  \* of the bridge: "up", "stopping" or "stopped"
  active,  \* activeSessions: the ids in the map
  owner,   \* owner[i]: the address that opened i
  idle,    \* idle[i]: time since the last activity of i, up to Timeout + 1
  timer,   \* time until the eviction timer is due
  pc,      \* where the request in a slot is
  from,    \* the address of the request
  target   \* the session it names

vars == <<status, active, owner, idle, timer, pc, from, target>>

TypeOK ==
  /\ status \in {"up", "stopping", "stopped"}
  /\ active \subseteq Ids
  /\ owner \in [Ids -> Addresses \cup {NoAddress}]
  /\ idle \in [Ids -> 0..(Timeout + 1)]
  /\ timer \in 0..Interval
  /\ pc \in [Slots -> {"free", "creating", "using", "deleting", "sent"}]
  /\ from \in [Slots -> Addresses \cup {NoAddress}]
  /\ target \in [Slots -> Ids \cup {NoId}]

Init ==
  /\ status = "up"
  /\ active = {}
  /\ owner = [i \in Ids |-> NoAddress]
  /\ idle = [i \in Ids |-> 0]
  /\ timer = Interval
  /\ pc = [s \in Slots |-> "free"]
  /\ from = [s \in Slots |-> NoAddress]
  /\ target = [s \in Slots |-> NoId]

-----------------------------------------------------------------------------
Of(a) == {i \in active : owner[i] = a}

Finish(s) ==
  /\ pc' = [pc EXCEPT ![s] = "free"]
  /\ from' = [from EXCEPT ![s] = NoAddress]
  /\ target' = [target EXCEPT ![s] = NoId]

\* Closed: onclose takes the session out of the map.
Drop(gone) ==
  /\ active' = active \ gone
  /\ owner' = [i \in Ids |-> IF i \in gone THEN NoAddress ELSE owner[i]]
  /\ idle' = [i \in Ids |-> IF i \in gone THEN 0 ELSE idle[i]]

\* MUTANT of Open: only sessions used at this very moment count.
OpenUnlimited(s, a) ==
  /\ status # "stopped"
  /\ pc[s] = "free"
  /\ Cardinality({i \in Of(a) : idle[i] = 0}) < MaxPerIp
  /\ pc' = [pc EXCEPT ![s] = "creating"]
  /\ from' = [from EXCEPT ![s] = a]
  /\ UNCHANGED <<status, active, owner, idle, timer, target>>

\* A request without a session id and with room for its address (without room it
\* is answered 429): the transport is made, which is awaited.
Open(s, a) ==
  /\ status # "stopped"
  /\ pc[s] = "free"
  /\ Cardinality(Of(a)) < MaxPerIp
  /\ pc' = [pc EXCEPT ![s] = "creating"]
  /\ from' = [from EXCEPT ![s] = a]
  /\ UNCHANGED <<status, active, owner, idle, timer, target>>

\* onsessioninitialized, unless the body is no initialize request.
Created(s) ==
  /\ pc[s] = "creating"
  /\ \/ \E i \in Ids :
          /\ i \notin active /\ \A q \in Slots : target[q] # i
          /\ active' = active \cup {i}
          /\ owner' = [owner EXCEPT ![i] = from[s]]
          /\ idle' = [idle EXCEPT ![i] = 0]
     \/ UNCHANGED <<active, owner, idle>>
  /\ Finish(s)
  /\ UNCHANGED <<status, timer>>

\* A request that names a session touches it, then awaits the transport.
Use(s, i) ==
  /\ status # "stopped"
  /\ pc[s] = "free"
  /\ i \in active
  /\ idle' = [idle EXCEPT ![i] = 0]
  /\ pc' = [pc EXCEPT ![s] = "using"]
  /\ target' = [target EXCEPT ![s] = i]
  /\ UNCHANGED <<status, active, owner, timer, from>>

\* onmessage: a session still in the map is touched again.
Message(s) ==
  /\ pc[s] = "using"
  /\ pc' = [pc EXCEPT ![s] = "sent"]
  /\ idle' = [i \in Ids |-> IF i = target[s] /\ i \in active THEN 0 ELSE idle[i]]
  /\ UNCHANGED <<status, active, owner, timer, from, target>>

Delete(s, i) ==
  /\ status # "stopped"
  /\ pc[s] = "free"
  /\ i \in active
  /\ idle' = [idle EXCEPT ![i] = 0]
  /\ pc' = [pc EXCEPT ![s] = "deleting"]
  /\ target' = [target EXCEPT ![s] = i]
  /\ UNCHANGED <<status, active, owner, timer, from>>

\* The transport answers. After a DELETE the session goes, whether or not the
\* transport reported that it closed.
Answered(s) ==
  /\ pc[s] \in {"using", "sent", "deleting"}
  /\ IF pc[s] = "deleting" THEN Drop({target[s]}) ELSE UNCHANGED <<active, owner, idle>>
  /\ Finish(s)
  /\ UNCHANGED <<status, timer>>

\* MUTANT of Evict: the sweep spares every session.
EvictSpares ==
  /\ status = "up"
  /\ timer = 0
  /\ timer' = Interval
  /\ UNCHANGED <<status, active, owner, idle, pc, from, target>>

\* evictIdleSessions: every session idle too long, in one sweep.
Evict ==
  /\ status = "up"
  /\ timer = 0
  /\ timer' = Interval
  /\ Drop({i \in active : idle[i] > Timeout})
  /\ UNCHANGED <<status, pc, from, target>>

Tick ==
  /\ timer' = IF timer > 0 THEN timer - 1 ELSE 0
  /\ idle' = [i \in Ids |-> IF i \in active /\ idle[i] <= Timeout THEN idle[i] + 1
                                                                  ELSE idle[i]]
  /\ UNCHANGED <<status, active, owner, pc, from, target>>

\* stop: no more eviction; requests are served until the loop is through.
Stop ==
  /\ status = "up"
  /\ status' = "stopping"
  /\ UNCHANGED <<active, owner, idle, timer, pc, from, target>>

\* One turn of the loop, which awaits the transport's close. Sessions that came
\* meanwhile are found too: the loop iterates over the live map.
StopOne(i) ==
  /\ status = "stopping"
  /\ i \in active
  /\ Drop({i})
  /\ UNCHANGED <<status, timer, pc, from, target>>

\* The map is empty: the port is released; requests in progress go on.
Stopped ==
  /\ status = "stopping"
  /\ active = {}
  /\ status' = "stopped"
  /\ UNCHANGED <<active, owner, idle, timer, pc, from, target>>

Exchange(s) == Created(s) \/ Message(s) \/ Answered(s)

Next ==
  \/ \E s \in Slots : Exchange(s)
  \/ \E s \in Slots, a \in Addresses : Open(s, a)
  \/ \E s \in Slots, i \in Ids : Use(s, i) \/ Delete(s, i)
  \/ \E i \in Ids : StopOne(i)
  \/ Evict \/ Tick \/ Stop \/ Stopped

Spec == Init /\ [][Next]_vars

\* Time passes and the timer fires: setInterval while the bridge is up.
FairSpec == Spec /\ WF_vars(Evict) /\ WF_vars(Tick)

-----------------------------------------------------------------------------
(* Properties *)

\* The count and the insertion are two steps of one request: an address exceeds
\* its limit by at most the requests that were between the two at once.
OverrunIsConcurrent ==
  \A a \in Addresses : Cardinality(Of(a)) <= MaxPerIp + Cardinality(Slots) - 1

\* Every session that stays untouched is gone some time, while the bridge is up.
IdleGoes ==
  \A i \in Ids : (status = "up" /\ i \in active) ~>
                   (i \notin active \/ idle[i] = 0 \/ status # "up")

=============================================================================
