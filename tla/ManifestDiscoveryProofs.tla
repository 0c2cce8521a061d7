----------------------- MODULE ManifestDiscoveryProofs -----------------------
(***************************************************************************)
(* Proofs about ManifestDiscovery, for any finite sets of peers and tools,  *)
(* any offerings, and however often a peer changes its manifest.           *)
(***************************************************************************)
EXTENDS ManifestDiscovery, FiniteSetTheorems, WellFoundedInduction, TLAPS

USE DiscoveryAssumption

-----------------------------------------------------------------------------
(* The inductive invariants                                                  *)

\* A pass that has asked nobody has got nothing.
PassInv == pass.stage # "ask" => pass.waiting = {} /\ pass.failed = {} /\ pass.got = <<>>

\* The list the client was shown is a beginning of the order.
ListedInv ==
  /\ Len(listed.order) <= Len(order)
  /\ \A i \in 1 .. Len(listed.order) : listed.order[i] = order[i]

\* Nothing but a call on its own changes the number of tools behind the back of a
\* pass, and what a pass has counted is what the client was shown or was told of.
ToldInv ==
  ~direct =>
    /\ pass.stage # "none" => pass.prev = Count(tools)
    /\ notified \/ Count(tools) = Count(listed.tools)

DiscoveryInv == TypeOK /\ PassInv /\ ListedInv /\ ToldInv

-----------------------------------------------------------------------------
(* Caches and orders                                                         *)

LEMMA EmptyCache == <<>> \in Caches /\ DOMAIN <<>> = {}
<1>1. <<>> \in [{} -> SUBSET Tools] /\ DOMAIN <<>> = {}
  OBVIOUS
<1>. QED BY <1>1 DEF Caches

LEMMA CacheShape ==
  ASSUME NEW c
  PROVE  c \in Caches <=> c \in [DOMAIN c -> SUBSET Tools] /\ DOMAIN c \subseteq Peers
BY DEF Caches

\* What a pass or a call has got overwrites the cache.
LEMMA Merged ==
  ASSUME NEW c \in Caches, NEW d \in Caches
  PROVE  With(c, d) \in Caches /\ DOMAIN With(c, d) = DOMAIN c \cup DOMAIN d
<1>1. /\ c \in [DOMAIN c -> SUBSET Tools] /\ DOMAIN c \subseteq Peers
      /\ d \in [DOMAIN d -> SUBSET Tools] /\ DOMAIN d \subseteq Peers
  BY CacheShape
<1>2. With(c, d) \in [DOMAIN c \cup DOMAIN d -> SUBSET Tools]
  BY <1>1 DEF With
<1>. QED BY <1>1, <1>2 DEF Caches

LEMMA NothingGot ==
  ASSUME NEW c \in Caches
  PROVE  With(c, <<>>) = c
<1>1. c \in [DOMAIN c -> SUBSET Tools]
  BY CacheShape
<1>2. With(c, <<>>) = [x \in DOMAIN c |-> c[x]]
  BY EmptyCache DEF With
<1>. QED BY <1>1, <1>2

LEMMA OneGot ==
  ASSUME NEW p \in Peers, NEW m \in SUBSET Tools
  PROVE  Only(p, m) \in Caches /\ DOMAIN Only(p, m) = {p}
<1>1. Only(p, m) \in [{p} -> SUBSET Tools]
  BY DEF Only
<1>. QED BY <1>1 DEF Caches

LEMMA CountIsNat ==
  ASSUME NEW c \in Caches
  PROVE  Count(c) \in Nat
<1>1. IsFiniteSet(Peers \X Tools)
  BY FS_Product
<1>2. {pt \in (DOMAIN c) \X Tools : pt[2] \in c[pt[1]]} \subseteq Peers \X Tools
  BY CacheShape
<1>3. IsFiniteSet({pt \in (DOMAIN c) \X Tools : pt[2] \in c[pt[1]]})
  BY <1>1, <1>2, FS_Subset
<1>. QED BY <1>3, FS_CardinalityType DEF Count

\* Entering the peers of a finite set in some order.
LEMMA Sequences ==
  ASSUME NEW S \in SUBSET Peers, NEW s \in SetToSeqs(S)
  PROVE  s \in Seq(Peers) /\ IsInjective(s) /\ Range(s) = S
<1>1. IsFiniteSet(S) /\ Cardinality(S) \in Nat
  BY FS_Subset, FS_CardinalityType
<1>. DEFINE n == Cardinality(S)
<1>2. s \in [1 .. n -> S] /\ \A i, j \in 1 .. n : i # j => s[i] # s[j]
  BY DEF SetToSeqs
<1>3. s \in Injection(1 .. n, S)
  BY <1>2 DEF Injection, IsInjective
<1>4. Cardinality(1 .. n) = n
  BY <1>1, FS_Interval
<1>5. s \in Surjection(1 .. n, S)
  BY <1>1, <1>3, <1>4, FS_Injection
<1>6. s \in Seq(Peers)
  BY <1>1, <1>2
<1>. QED BY <1>2, <1>5, <1>6 DEF Surjection, Range, IsInjective

\* Peers that are not in the order yet follow those that are.
LEMMA Entered ==
  ASSUME NEW o \in Seq(Peers), IsInjective(o), NEW s \in Seq(Peers), IsInjective(s),
         Range(o) \cap Range(s) = {}
  PROVE  /\ o \o s \in Seq(Peers) /\ IsInjective(o \o s)
         /\ Range(o \o s) = Range(o) \cup Range(s)
         /\ Len(o) <= Len(o \o s) /\ \A i \in 1 .. Len(o) : (o \o s)[i] = o[i]
<1>. DEFINE z == o \o s
<1>1. /\ z \in Seq(Peers) /\ Len(z) = Len(o) + Len(s)
      /\ \A i \in 1 .. Len(o) : z[i] = o[i]
      /\ \A i \in 1 .. Len(s) : z[Len(o) + i] = s[i]
      /\ Len(o) \in Nat /\ Len(s) \in Nat
      /\ DOMAIN o = 1 .. Len(o) /\ DOMAIN s = 1 .. Len(s) /\ DOMAIN z = 1 .. Len(z)
  OBVIOUS
<1>2. \A i \in DOMAIN z : \/ i \in DOMAIN o /\ z[i] = o[i]
                          \/ i - Len(o) \in DOMAIN s /\ z[i] = s[i - Len(o)]
  BY <1>1
<1>3. IsInjective(z)
  <2>1. SUFFICES ASSUME NEW i \in DOMAIN z, NEW j \in DOMAIN z, z[i] = z[j] PROVE i = j
    BY DEF IsInjective
  <2>2. CASE i \in DOMAIN o /\ j \in DOMAIN o
    BY <1>1, <2>1, <2>2 DEF IsInjective
  <2>3. CASE i \notin DOMAIN o /\ j \notin DOMAIN o
    <3>1. i - Len(o) = j - Len(o)
      BY <1>2, <2>1, <2>3 DEF IsInjective
    <3>. QED BY <1>1, <3>1
  <2>4. CASE i \in DOMAIN o /\ j \notin DOMAIN o
    <3>1. z[i] \in Range(o) /\ z[j] \in Range(s)
      BY <1>1, <1>2, <2>4 DEF Range
    <3>. QED BY <2>1, <3>1
  <2>5. CASE i \notin DOMAIN o /\ j \in DOMAIN o
    <3>1. z[i] \in Range(s) /\ z[j] \in Range(o)
      BY <1>1, <1>2, <2>5 DEF Range
    <3>. QED BY <2>1, <3>1
  <2>. QED BY <2>2, <2>3, <2>4, <2>5
<1>4. Range(z) \subseteq Range(o) \cup Range(s)
  BY <1>2 DEF Range
<1>5. Range(o) \subseteq Range(z)
  BY <1>1 DEF Range
<1>6. Range(s) \subseteq Range(z)
  <2>1. SUFFICES ASSUME NEW i \in DOMAIN s PROVE s[i] \in Range(z)
    BY DEF Range
  <2>2. Len(o) + i \in DOMAIN z /\ z[Len(o) + i] = s[i]
    BY <1>1
  <2>. QED BY <2>2 DEF Range
<1>. QED BY <1>1, <1>3, <1>4, <1>5, <1>6

LEMMA Appended ==
  ASSUME NEW o \in Seq(Peers), IsInjective(o), NEW p \in Peers \ Range(o)
  PROVE  /\ Append(o, p) \in Seq(Peers) /\ IsInjective(Append(o, p))
         /\ Range(Append(o, p)) = Range(o) \cup {p}
         /\ Len(o) <= Len(Append(o, p))
         /\ \A i \in 1 .. Len(o) : Append(o, p)[i] = o[i]
<1>1. Append(o, p) = o \o <<p>>
  OBVIOUS
<1>2. <<p>> \in Seq(Peers) /\ IsInjective(<<p>>) /\ Range(<<p>>) = {p}
  BY DEF IsInjective, Range
<1>3. Range(o) \cap Range(<<p>>) = {}
  BY <1>2
<1>. DEFINE s == <<p>>
<1>4. /\ o \o s \in Seq(Peers) /\ IsInjective(o \o s)
      /\ Range(o \o s) = Range(o) \cup Range(s)
      /\ Len(o) <= Len(o \o s) /\ \A i \in 1 .. Len(o) : (o \o s)[i] = o[i]
  <2>. HIDE DEF s
  <2>. QED BY <1>2, <1>3, Entered DEF s
<1>. QED BY <1>1, <1>2, <1>4

-----------------------------------------------------------------------------
(* Every step keeps them                                                     *)

LEMMA InitInv == Init => DiscoveryInv
<1>. SUFFICES ASSUME Init PROVE DiscoveryInv
  OBVIOUS
<1>1. <<>> \in Seq(Peers) /\ Len(<<>>) = 0 /\ IsInjective(<<>>) /\ Range(<<>>) = {}
  BY DEF IsInjective, Range
<1>2. TypeOK
  <2>1. pass \in Passes /\ pass.waiting \cap (pass.failed \cup DOMAIN pass.got) = {}
    BY EmptyCache DEF Init, NoPass, Passes, Stages
  <2>2. /\ listed \in [order : Seq(Peers), tools : Caches]
        /\ Range(listed.order) = DOMAIN listed.tools
    BY <1>1, EmptyCache DEF Init
  <2>3. call \in Calls
    BY DEF Init, Calls
  <2>4. order \in Seq(Peers) /\ IsInjective(order) /\ Range(order) = DOMAIN tools
    BY <1>1, EmptyCache DEF Init
  <2>5. notified \in BOOLEAN /\ direct \in BOOLEAN
    BY DEF Init
  <2>6. connected = {} /\ fresh = {} /\ cooling = {} /\ changes = 0 /\ lister = "idle"
    BY DEF Init
  <2>7. offers \in [Peers -> SUBSET Tools] /\ tools \in Caches
    BY EmptyCache DEF Init
  <2>. QED BY <2>1, <2>2, <2>3, <2>4, <2>5, <2>6, <2>7 DEF TypeOK
<1>3. ListedInv
  BY <1>1 DEF Init, ListedInv
<1>4. ToldInv
  BY DEF Init, ToldInv, NoPass
<1>5. PassInv
  BY DEF Init, PassInv, NoPass
<1>. QED BY <1>2, <1>3, <1>4, <1>5 DEF DiscoveryInv

\* A refresh starts a pass that has counted the cache.
LEMMA Refreshed ==
  ASSUME TypeOK, Refresh
  PROVE  /\ pass' \in Passes /\ pass'.waiting \cap (pass'.failed \cup DOMAIN pass'.got) = {}
         /\ pass'.stage # "none"
         /\ \/ pass' = pass
            \/ /\ pass.stage = "none" /\ pass'.stage = "find" /\ pass'.prev = Count(tools)
               /\ pass'.waiting = {} /\ pass'.failed = {} /\ pass'.got = <<>>
<1>1. CASE pass.stage # "none"
  BY <1>1 DEF Refresh, TypeOK
<1>2. CASE pass.stage = "none"
  <2>1. Count(tools) \in Nat
    BY CountIsNat DEF TypeOK
  <2>2. pass' = [NoPass EXCEPT !.stage = "find", !.prev = Count(tools)]
    BY <1>2 DEF Refresh
  <2>. QED BY <1>2, <2>1, <2>2, EmptyCache DEF NoPass, Passes, Stages
<1>. QED BY <1>1, <1>2

\* A call that goes on is in a state of a call.
LEMMA Going ==
  ASSUME NEW o, NEW c, NEW n
  PROVE  Goes(o, c, n) \subseteq Calls
BY DEF Goes, Sending, Calls

LEMMA Released ==
  ASSUME TypeOK, Release
  PROVE  /\ pass' \in Passes /\ pass'.waiting \cap (pass'.failed \cup DOMAIN pass'.got) = {}
         /\ pass'.stage = "none" /\ call' \in Calls
         /\ pass'.waiting = {} /\ pass'.failed = {} /\ pass'.got = <<>>
<1>1. pass' = NoPass
  BY DEF Release
<1>2. call' \in Calls
  BY Going DEF Release, TypeOK
<1>. QED BY <1>1, <1>2, EmptyCache DEF NoPass, Passes, Stages

\* What a pass enters at its end.
LEMMA PassEntered ==
  ASSUME TypeOK, NEW s \in SetToSeqs(DOMAIN pass.got \ DOMAIN tools)
  PROVE  /\ order \o s \in Seq(Peers) /\ IsInjective(order \o s)
         /\ Range(order \o s) = DOMAIN With(tools, pass.got)
         /\ Len(order) <= Len(order \o s)
         /\ \A i \in 1 .. Len(order) : (order \o s)[i] = order[i]
         /\ With(tools, pass.got) \in Caches
<1>1. /\ tools \in Caches /\ pass.got \in Caches
      /\ order \in Seq(Peers) /\ IsInjective(order) /\ Range(order) = DOMAIN tools
  BY DEF TypeOK, Passes
<1>. DEFINE new == DOMAIN pass.got \ DOMAIN tools
<1>2. new \in SUBSET Peers
  BY <1>1, CacheShape
<1>3. s \in Seq(Peers) /\ IsInjective(s) /\ Range(s) = new
  <2>. HIDE DEF new
  <2>. QED BY <1>2, Sequences DEF new
<1>4. Range(order) \cap Range(s) = {}
  BY <1>1, <1>3
<1>5. Range(order \o s) = DOMAIN tools \cup new
  BY <1>1, <1>3, <1>4, Entered
<1>6. /\ With(tools, pass.got) \in Caches
      /\ DOMAIN With(tools, pass.got) = DOMAIN tools \cup DOMAIN pass.got
  BY <1>1, Merged
<1>7. /\ order \o s \in Seq(Peers) /\ IsInjective(order \o s)
      /\ Len(order) <= Len(order \o s)
      /\ \A i \in 1 .. Len(order) : (order \o s)[i] = order[i]
  BY <1>1, <1>3, <1>4, Entered
<1>. QED BY <1>5, <1>6, <1>7

LEMMA TypeStep ==
  ASSUME DiscoveryInv, [Next]_vars
  PROVE  TypeOK'
<1>. USE DEF TypeOK, world, cache, client
<1>. TypeOK
  BY DEF DiscoveryInv
<1>1. ASSUME NEW p \in Peers, PeerStep(p) PROVE TypeOK'
  <2>1. CASE Toggle(p)
    BY <2>1 DEF Toggle
  <2>2. CASE Change(p)
    <3>1. Offerings[p] \in SUBSET SUBSET Tools
      OBVIOUS
    <3>2. PICK m \in Offerings[p] : offers' = [offers EXCEPT ![p] = m]
      BY <2>2 DEF Change
    <3>3. offers' \in [Peers -> SUBSET Tools]
      BY <3>1, <3>2
    <3>. QED BY <2>2, <3>3 DEF Change
  <2>3. CASE Expire(p)
    BY <2>3 DEF Expire
  <2>4. CASE CoolEnds(p)
    BY <2>4 DEF CoolEnds
  <2>. QED BY <1>1, <2>1, <2>2, <2>3, <2>4 DEF PeerStep
<1>2. ASSUME NEW p \in Peers, PeerAnswers(p) PROVE TypeOK'
  <2>. DEFINE got == With(pass.got, Only(p, offers[p]))
  <2>1. got \in Caches /\ DOMAIN got = DOMAIN pass.got \cup {p}
    <3>1. pass.got \in Caches /\ offers[p] \in SUBSET Tools
      BY DEF Passes
    <3>2. Only(p, offers[p]) \in Caches /\ DOMAIN Only(p, offers[p]) = {p}
      BY <3>1, OneGot
    <3>3. got \in Caches /\ DOMAIN got = DOMAIN pass.got \cup DOMAIN Only(p, offers[p])
      BY <3>1, <3>2, Merged
    <3>. QED BY <3>2, <3>3
  <2>2. pass' = [pass EXCEPT !.waiting = @ \ {p}, !.got = got]
    BY <1>2 DEF PeerAnswers
  <2>. HIDE DEF got
  <2>3. pass' \in Passes
    BY <2>1, <2>2 DEF Passes
  <2>4. pass'.waiting = pass.waiting \ {p} /\ pass'.failed = pass.failed /\ pass'.got = got
    BY <2>2 DEF Passes
  <2>. QED BY <1>2, <2>1, <2>3, <2>4 DEF PeerAnswers
<1>3. ASSUME NEW p \in Peers, PeerFails(p) PROVE TypeOK'
  <2>1. pass' = [pass EXCEPT !.waiting = @ \ {p}, !.failed = @ \cup {p}]
    BY <1>3 DEF PeerFails
  <2>2. pass' \in Passes
    BY <2>1 DEF Passes
  <2>3. /\ pass'.waiting = pass.waiting \ {p} /\ pass'.failed = pass.failed \cup {p}
        /\ pass'.got = pass.got
    BY <2>1 DEF Passes
  <2>. QED BY <1>3, <2>2, <2>3 DEF PeerFails
<1>4. CASE Kick
  BY <1>4, Refreshed DEF Kick
<1>5. CASE PassEmpty
  BY <1>5, Released DEF PassEmpty
<1>6. ASSUME NEW found \in SUBSET Peers, PassFound(found) PROVE TypeOK'
  <2>1. pass' \in Passes
    BY <1>6 DEF PassFound, Passes, Stages, Eligible
  <2>2. pass.failed = {} /\ DOMAIN pass.got = {}
    BY <1>6, EmptyCache DEF PassFound, DiscoveryInv, PassInv
  <2>3. pass'.failed = pass.failed /\ pass'.got = pass.got
    BY <1>6 DEF PassFound, Passes
  <2>. QED BY <1>6, <2>1, <2>2, <2>3 DEF PassFound
<1>7. CASE PassEnds
  <2>1. PICK s \in SetToSeqs(DOMAIN pass.got \ DOMAIN tools) : order' = order \o s
    BY <1>7 DEF PassEnds
  <2>2. tools' = With(tools, pass.got) /\ fresh' = fresh \cup DOMAIN pass.got
    BY <1>7 DEF PassEnds
  <2>3. /\ order' \in Seq(Peers) /\ IsInjective(order') /\ Range(order') = DOMAIN tools'
        /\ tools' \in Caches
    BY <2>1, <2>2, PassEntered
  <2>4. DOMAIN tools' = DOMAIN tools \cup DOMAIN pass.got
    BY <2>2, Merged DEF Passes
  <2>5. cooling' \in SUBSET Peers
    BY <1>7 DEF PassEnds, Passes
  <2>. QED BY <1>7, <2>2, <2>3, <2>4, <2>5, Released DEF PassEnds
<1>8. CASE ListBegin
  BY <1>8, Refreshed DEF ListBegin
<1>9. CASE ListAgain
  BY <1>9, Refreshed DEF ListAgain
<1>10. CASE ListAnswer
  BY <1>10, Refreshed DEF ListAnswer
<1>11. ASSUME NEW n \in Names, CallBegin(n) PROVE TypeOK'
  BY <1>11, Refreshed, Going DEF CallBegin, Calls
<1>12. CASE CallSearches
  <2>1. call' \in Calls
    BY <1>12, CacheShape DEF CallSearches, Calls, Sending, Idle
  <2>. QED BY <1>12, <2>1 DEF CallSearches
<1>13. CASE CallAsks
  <2>1. call.to \in Peers
    BY <1>13 DEF CallAsks, Calls
  <2>. DEFINE p == call.to
  <2>2. call' \in Calls
    BY <1>13, <2>1 DEF CallAsks, Calls, Sending
  <2>3. CASE UNCHANGED <<cache, direct>>
    BY <1>13, <2>2, <2>3 DEF CallAsks
  <2>4. CASE /\ tools' = With(tools, Only(p, offers[p]))
             /\ order' = IF p \in DOMAIN tools THEN order ELSE Append(order, p)
             /\ fresh' = fresh \cup {p}
             /\ direct' = TRUE
    <3>1. tools' \in Caches /\ DOMAIN tools' = DOMAIN tools \cup {p}
      <4>1. offers[p] \in SUBSET Tools
        BY <2>1
      <4>2. Only(p, offers[p]) \in Caches /\ DOMAIN Only(p, offers[p]) = {p}
        BY <2>1, <4>1, OneGot
      <4>3. /\ With(tools, Only(p, offers[p])) \in Caches
            /\ DOMAIN With(tools, Only(p, offers[p])) = DOMAIN tools \cup DOMAIN Only(p, offers[p])
        BY <4>2, Merged
      <4>. QED BY <2>4, <4>2, <4>3
    <3>2. order' \in Seq(Peers) /\ IsInjective(order') /\ Range(order') = DOMAIN tools'
      <4>1. CASE p \in DOMAIN tools
        BY <2>4, <3>1, <4>1
      <4>2. CASE p \notin DOMAIN tools
        <5>1. p \in Peers \ Range(order)
          BY <2>1, <4>2
        <5>2. order' = Append(order, p)
          BY <2>4, <4>2
        <5>. QED BY <3>1, <5>1, <5>2, Appended
      <4>. QED BY <4>1, <4>2
    <3>. QED BY <1>13, <2>2, <2>4, <3>1, <3>2 DEF CallAsks
  <2>. QED BY <1>13, <2>3, <2>4 DEF CallAsks
<1>14. CASE CallEnds
  BY <1>14 DEF CallEnds, Idle, Calls
<1>15. CASE UNCHANGED vars
  BY <1>15 DEF vars
<1>. QED BY <1>1, <1>2, <1>3, <1>4, <1>5, <1>6, <1>7, <1>8, <1>9, <1>10, <1>11, <1>12, <1>13,
            <1>14, <1>15 DEF Next, PeerReplies, PassGoesOn, Found, CallGoesOn

LEMMA PassStep ==
  ASSUME DiscoveryInv, [Next]_vars
  PROVE  PassInv'
<1>. USE DEF world, cache, client, PassInv
<1>. TypeOK /\ PassInv
  BY DEF DiscoveryInv
<1>0. pass \in Passes
  BY DEF TypeOK
<1>1. ASSUME NEW p \in Peers, PeerStep(p) PROVE PassInv'
  BY <1>1 DEF PeerStep, Toggle, Change, Expire, CoolEnds
<1>2. ASSUME NEW p \in Peers, PeerReplies(p) PROVE PassInv'
  BY <1>0, <1>2 DEF PeerReplies, PeerAnswers, PeerFails, Passes
<1>3. CASE PassGoesOn
  <2>1. CASE Kick
    BY <2>1, Refreshed DEF Kick
  <2>2. CASE PassEmpty
    BY <2>2, Released DEF PassEmpty
  <2>3. CASE Found
    BY <1>0, <2>3 DEF Found, PassFound, Passes
  <2>4. CASE PassEnds
    BY <2>4, Released DEF PassEnds
  <2>. QED BY <1>3, <2>1, <2>2, <2>3, <2>4 DEF PassGoesOn
<1>4. CASE ListBegin \/ ListAgain \/ ListAnswer
  BY <1>4, Refreshed DEF ListBegin, ListAgain, ListAnswer
<1>5. ASSUME NEW n \in Names, CallBegin(n) PROVE PassInv'
  BY <1>5, Refreshed DEF CallBegin
<1>6. CASE CallGoesOn
  BY <1>6 DEF CallGoesOn, CallSearches, CallAsks, CallEnds
<1>7. CASE UNCHANGED vars
  BY <1>7 DEF vars
<1>. QED BY <1>1, <1>2, <1>3, <1>4, <1>5, <1>6, <1>7 DEF Next

\* The order only grows at its end, and a list is shown whole.
LEMMA OrderGrows ==
  ASSUME DiscoveryInv, [Next]_vars
  PROVE  /\ Len(order) <= Len(order') /\ \A i \in 1 .. Len(order) : order'[i] = order[i]
         /\ \/ listed' = listed
            \/ listed' = [order |-> order, tools |-> tools] /\ order' = order
<1>. USE DEF world, cache, client
<1>. TypeOK
  BY DEF DiscoveryInv
<1>0. Len(order) \in Nat
  BY DEF TypeOK
<1>1. ASSUME NEW p \in Peers, PeerStep(p) \/ PeerReplies(p)
      PROVE  UNCHANGED <<order, listed>>
  BY <1>1 DEF PeerStep, PeerReplies, Toggle, Change, Expire, CoolEnds, PeerAnswers, PeerFails
<1>2. CASE Kick \/ PassEmpty \/ Found
  <2>1. UNCHANGED <<order, listed>>
    BY <1>2 DEF Kick, PassEmpty, Found, PassFound
  <2>. QED BY <1>0, <2>1
<1>3. CASE PassEnds
  <2>1. PICK s \in SetToSeqs(DOMAIN pass.got \ DOMAIN tools) : order' = order \o s
    BY <1>3 DEF PassEnds
  <2>. QED BY <1>3, <2>1, PassEntered DEF PassEnds
<1>4. CASE ListBegin \/ ListAgain \/ ListAnswer
  BY <1>0, <1>4 DEF ListBegin, ListAgain, ListAnswer
<1>5. ASSUME NEW n \in Names, CallBegin(n) PROVE UNCHANGED <<order, listed>>
  BY <1>5 DEF CallBegin
<1>6. CASE CallSearches \/ CallEnds
  BY <1>0, <1>6 DEF CallSearches, CallEnds
<1>7. CASE CallAsks
  <2>1. \/ order' = order
        \/ call.to \notin Range(order) /\ order' = Append(order, call.to)
    BY <1>7 DEF CallAsks, TypeOK
  <2>2. call.to \in Peers /\ listed' = listed
    BY <1>7 DEF CallAsks, TypeOK, Calls
  <2>. QED BY <1>0, <2>1, <2>2, Appended DEF TypeOK
<1>8. CASE UNCHANGED vars
  BY <1>0, <1>8 DEF vars
<1>. QED BY <1>0, <1>1, <1>2, <1>3, <1>4, <1>5, <1>6, <1>7, <1>8 DEF Next, PassGoesOn, CallGoesOn

LEMMA ListedStep ==
  ASSUME DiscoveryInv, [Next]_vars
  PROVE  ListedInv'
<1>1. TypeOK /\ ListedInv
  BY DEF DiscoveryInv
<1>2. order' \in Seq(Peers) /\ Len(order') \in Nat
  BY TypeStep DEF TypeOK
<1>3. Len(order) \in Nat /\ Len(listed.order) \in Nat
  BY <1>1 DEF TypeOK
<1>4. CASE listed' = listed
  BY <1>1, <1>2, <1>3, <1>4, OrderGrows DEF ListedInv
<1>5. CASE listed' = [order |-> order, tools |-> tools] /\ order' = order
  BY <1>3, <1>5 DEF ListedInv
<1>. QED BY <1>4, <1>5, OrderGrows

LEMMA ToldStep ==
  ASSUME DiscoveryInv, [Next]_vars
  PROVE  ToldInv'
<1>. USE DEF world, cache, client, ToldInv
<1>. TypeOK /\ ToldInv
  BY DEF DiscoveryInv
<1>0. pass \in Passes /\ tools \in Caches /\ notified \in BOOLEAN /\ direct \in BOOLEAN
  BY DEF TypeOK
<1>1. ASSUME NEW p \in Peers, PeerStep(p) PROVE ToldInv'
  BY <1>1 DEF PeerStep, Toggle, Change, Expire, CoolEnds, Count
<1>2. ASSUME NEW p \in Peers, PeerReplies(p) PROVE ToldInv'
  <2>1. pass'.stage = pass.stage /\ pass'.prev = pass.prev
    BY <1>0, <1>2 DEF PeerReplies, PeerAnswers, PeerFails, Passes
  <2>2. UNCHANGED <<tools, listed, notified, direct>>
    BY <1>2 DEF PeerReplies, PeerAnswers, PeerFails
  <2>3. pass.stage # "none"
    BY <1>2 DEF PeerReplies, PeerAnswers, PeerFails, DiscoveryInv, PassInv
  <2>. QED BY <2>1, <2>2, <2>3 DEF Count
<1>3. CASE Kick
  BY <1>3, Refreshed DEF Kick, Count
<1>4. CASE PassEmpty
  BY <1>4, Released DEF PassEmpty, Count
<1>5. CASE Found
  <2>1. pass'.prev = pass.prev /\ pass.stage = "find"
    BY <1>0, <1>5 DEF Found, PassFound, Passes
  <2>. QED BY <1>5, <2>1 DEF Found, PassFound, Count
<1>6. CASE PassEnds
  <2>1. pass'.stage = "none" /\ UNCHANGED <<listed, direct>> /\ pass.stage = "ask"
    BY <1>6, Released DEF PassEnds
  <2>2. tools' = With(tools, pass.got)
    BY <1>6 DEF PassEnds
  <2>3. notified' = (notified \/ (pass.got # <<>> /\ Count(tools') # pass.prev))
    BY <1>6 DEF PassEnds
  <2>4. CASE pass.got = <<>>
    <3>1. tools' = tools
      BY <1>0, <2>2, <2>4, NothingGot
    <3>. QED BY <2>1, <2>3, <2>4, <3>1
  <2>5. CASE pass.got # <<>> /\ Count(tools') # pass.prev
    BY <2>1, <2>3, <2>5
  <2>6. CASE Count(tools') = pass.prev
    BY <2>1, <2>3, <2>6
  <2>. QED BY <2>4, <2>5, <2>6
<1>7. CASE ListBegin \/ ListAgain
  BY <1>7, Refreshed DEF ListBegin, ListAgain, Count
<1>8. CASE ListAnswer
  <2>1. tools' = tools /\ listed'.tools = tools
    BY <1>8 DEF ListAnswer
  <2>2. CASE pass.stage = "none"
    <3>1. pass' = pass \/ pass'.prev = Count(tools)
      BY <1>8, Refreshed DEF ListAnswer
    <3>. QED BY <2>1, <2>2, <3>1
  <2>3. CASE pass.stage # "none"
    <3>1. pass' = pass /\ direct' = direct
      BY <1>0, <1>8, <2>3 DEF ListAnswer, Refresh
    <3>. QED BY <2>1, <2>3, <3>1
  <2>. QED BY <2>2, <2>3
<1>9. ASSUME NEW n \in Names, CallBegin(n) PROVE ToldInv'
  <2>1. \/ pass' = pass
        \/ pass.stage = "none" /\ pass'.prev = Count(tools)
    BY <1>9, Refreshed DEF CallBegin
  <2>2. UNCHANGED <<tools, listed, notified, direct>>
    BY <1>9 DEF CallBegin
  <2>. QED BY <2>1, <2>2 DEF Count
<1>10. CASE CallGoesOn
  BY <1>10 DEF CallGoesOn, CallSearches, CallAsks, CallEnds, Count
<1>11. CASE UNCHANGED vars
  BY <1>11 DEF vars, Count
<1>. QED BY <1>1, <1>2, <1>3, <1>4, <1>5, <1>6, <1>7, <1>8, <1>9, <1>10, <1>11
       DEF Next, PassGoesOn

LEMMA Invariance == Spec => []DiscoveryInv
<1>1. DiscoveryInv /\ [Next]_vars => DiscoveryInv'
  BY TypeStep, PassStep, ListedStep, ToldStep DEF DiscoveryInv
<1>. QED BY InitInv, <1>1, PTL DEF Spec

-----------------------------------------------------------------------------
(* What follows                                                              *)

\* Every step of a pass, a list or a call (refreshManifestCache, getRemoteTools,
\* resolveManifestTarget) keeps the state well typed: a cached peer stands in the
\* order just once, and a pass waits for no peer that answered or failed.
THEOREM TypeCorrect == Spec => []TypeOK
<1>1. DiscoveryInv => TypeOK
  BY DEF DiscoveryInv
<1>. QED BY Invariance, <1>1, PTL

LEMMA BeforeSame ==
  ASSUME DiscoveryInv, NEW p \in Range(listed.order)
  PROVE  /\ p \in Range(order)
         /\ Before(order, p) = Before(listed.order, p)
<1>. DEFINE l == listed.order
<1>1. /\ l \in Seq(Peers) /\ order \in Seq(Peers) /\ IsInjective(order)
      /\ DOMAIN l = 1 .. Len(l) /\ DOMAIN order = 1 .. Len(order)
      /\ Len(l) \in Nat /\ Len(order) \in Nat /\ Len(l) <= Len(order)
      /\ \A i \in 1 .. Len(l) : l[i] = order[i]
  BY DEF DiscoveryInv, TypeOK, ListedInv
<1>2. PICK k \in 1 .. Len(l) : l[k] = p
  BY <1>1 DEF Range
<1>3. k \in DOMAIN order /\ order[k] = p
  BY <1>1, <1>2
<1>4. Before(order, p) \subseteq Before(l, p)
  <2>1. SUFFICES ASSUME NEW i \in DOMAIN order, NEW j \in DOMAIN order, i < j, order[j] = p
                 PROVE  order[i] \in Before(l, p)
    BY DEF Before
  <2>2. j = k
    BY <1>1, <1>3, <2>1 DEF IsInjective
  <2>3. i \in DOMAIN l /\ k \in DOMAIN l /\ l[i] = order[i] /\ i < k
    BY <1>1, <1>2, <2>1, <2>2
  <2>. QED BY <1>2, <2>3 DEF Before, Range
<1>5. Before(l, p) \subseteq Before(order, p)
  <2>1. SUFFICES ASSUME NEW i \in DOMAIN l, NEW j \in DOMAIN l, i < j, l[j] = p
                 PROVE  l[i] \in Before(order, p)
    BY DEF Before
  <2>2. i \in DOMAIN order /\ j \in DOMAIN order /\ order[i] = l[i] /\ order[j] = p
    BY <1>1, <2>1
  <2>. QED BY <2>1, <2>2 DEF Before, Range
<1>. QED BY <1>3, <1>4, <1>5 DEF Range

\* A name that tools/list made up for a provider is resolved to it as long as it
\* keeps the tool and those listed before it do not change (getRemoteTools against
\* resolveManifestTarget): the order in which providers were entered only grows at
\* its end, and of the providers listed before none has the same tool and suffix.
THEOREM NamesKeepMeaning == Spec => []NameKeepsMeaning
<1>1. DiscoveryInv => NameKeepsMeaning
  <2>1. SUFFICES ASSUME DiscoveryInv, NEW p \in Range(listed.order),
                        \A q \in Before(listed.order, p) : tools[q] = listed.tools[q],
                        NEW t \in listed.tools[p] \cap tools[p],
                        \A q \in Before(listed.order, p) : t \in tools[q] => Suffix[q] # Suffix[p]
                 PROVE  Resolves(order, tools, Name(listed.order, listed.tools, p, t), p)
    BY DEF NameKeepsMeaning
  <2>. DEFINE n == Name(listed.order, listed.tools, p, t)
              earlier == Before(listed.order, p)
  <2>2. p \in DOMAIN tools /\ Before(order, p) = earlier
    BY <2>1, BeforeSame DEF DiscoveryInv, TypeOK
  <2>3. CASE n = <<t, Suffix[p]>>
    <3>1. p \in Matches(tools, n)
      BY <2>1, <2>2, <2>3 DEF Matches
    <3>2. \A q \in earlier : q \notin Matches(tools, n)
      BY <2>1, <2>3 DEF Matches
    <3>. QED BY <2>2, <3>1, <3>2 DEF Resolves
  <2>4. CASE n = <<t>> /\ ~ \E q \in earlier : t \in listed.tools[q]
    <3>1. p \in Matches(tools, n)
      BY <2>1, <2>2, <2>4 DEF Matches
    <3>2. \A q \in earlier : q \notin Matches(tools, n)
      BY <2>1, <2>4 DEF Matches
    <3>. QED BY <2>2, <3>1, <3>2 DEF Resolves
  <2>. QED BY <2>3, <2>4 DEF Name
<1>. QED BY Invariance, <1>1, PTL

\* When no pass is running, the client has been told of every change in the number
\* of tools that a pass made (refreshManifestCache), however passes, lists and calls
\* interleave; what a call cached on its own is the exception.
THEOREM ChangesAreTold == Spec => []Told
<1>1. DiscoveryInv => Told
  BY DEF DiscoveryInv, ToldInv, Told
<1>. QED BY Invariance, <1>1, PTL
-----------------------------------------------------------------------------
(* Passes are bounded                                                        *)

\* How much of a pass is ahead at most: to find the peers, an answer or a failure
\* of each one it asks, and its end.
Left == IF pass.stage = "none" THEN 0
        ELSE IF pass.stage = "find" THEN Cardinality(Peers) + 2
        ELSE Cardinality(pass.waiting) + 1

\* Whatever changes a pass is its begin or brings it nearer to its end.
PassesAdvance ==
  pass' # pass =>
    IF pass.stage = "none" THEN Left' <= Cardinality(Peers) + 2 ELSE Left' < Left

LEMMA LeftBounds ==
  ASSUME TypeOK
  PROVE  /\ IsFiniteSet(pass.waiting) /\ Cardinality(pass.waiting) \in Nat
         /\ Cardinality(Peers) \in Nat
         /\ pass.stage = "none" => Left = 0
         /\ pass.stage = "find" => Left = Cardinality(Peers) + 2
         /\ pass.stage = "ask" => Left = Cardinality(pass.waiting) + 1
         /\ pass.stage \in Stages
<1>1. pass.waiting \in SUBSET Peers /\ pass.stage \in Stages
  BY DEF TypeOK, Passes
<1>2. IsFiniteSet(pass.waiting)
  BY <1>1, FS_Subset
<1>. QED BY <1>1, <1>2, FS_CardinalityType DEF Left

\* A refresh that changes the pass begins one.
LEMMA RefreshBegins ==
  ASSUME TypeOK, Refresh
  PROVE  pass' = pass \/ (pass.stage = "none" /\ Left' = Cardinality(Peers) + 2)
BY Refreshed DEF Left

LEMMA PassAdvances ==
  ASSUME DiscoveryInv, [Next]_vars
  PROVE  PassesAdvance
<1>. TypeOK /\ Cardinality(Peers) \in Nat
  BY LeftBounds DEF DiscoveryInv
<1>1. pass \in Passes
  BY DEF TypeOK
<1>2. ASSUME NEW p \in Peers, PeerStep(p) PROVE pass' = pass
  BY <1>2 DEF PeerStep, Toggle, Change, Expire, CoolEnds
<1>3. ASSUME NEW p \in Peers, PeerReplies(p) PROVE Left' < Left /\ pass.stage # "none"
  <2>1. /\ p \in pass.waiting /\ pass'.waiting = pass.waiting \ {p}
        /\ pass'.stage = pass.stage
    BY <1>1, <1>3 DEF PeerReplies, PeerAnswers, PeerFails, Passes
  <2>2. pass.stage = "ask"
    BY <2>1 DEF DiscoveryInv, PassInv
  <2>3. Cardinality(pass.waiting \ {p}) = Cardinality(pass.waiting) - 1
    BY <2>1, LeftBounds, FS_RemoveElement
  <2>4. Left' = Cardinality(pass.waiting \ {p}) + 1
    BY <2>1, <2>2 DEF Left
  <2>5. Left = Cardinality(pass.waiting) + 1 /\ Cardinality(pass.waiting) \in Nat
    BY <2>2, LeftBounds
  <2>. QED BY <2>2, <2>3, <2>4, <2>5
<1>4. CASE Kick \/ ListBegin \/ ListAgain
  BY <1>4, RefreshBegins DEF Kick, ListBegin, ListAgain, PassesAdvance
<1>5. CASE PassEmpty \/ PassEnds
  <2>1. pass.stage \in {"find", "ask"}
    BY <1>5 DEF PassEmpty, PassEnds
  <2>2. Left' = 0
    BY <1>5, Released DEF PassEmpty, PassEnds, Left
  <2>3. Left > 0
    BY <2>1, LeftBounds
  <2>. QED BY <2>1, <2>2, <2>3 DEF PassesAdvance
<1>6. ASSUME NEW found \in SUBSET Peers, PassFound(found) PROVE PassesAdvance
  <2>1. pass.stage = "find" /\ pass'.stage = "ask" /\ pass'.waiting = Eligible(found)
    BY <1>1, <1>6 DEF PassFound, Passes
  <2>2. Eligible(found) \in SUBSET Peers
    BY DEF Eligible
  <2>3. /\ Cardinality(Eligible(found)) <= Cardinality(Peers)
        /\ Cardinality(Eligible(found)) \in Nat
    BY <2>2, FS_Subset, FS_CardinalityType
  <2>4. Left' = Cardinality(Eligible(found)) + 1 /\ Left = Cardinality(Peers) + 2
    BY <2>1, LeftBounds DEF Left
  <2>. QED BY <2>1, <2>3, <2>4 DEF PassesAdvance
<1>7. CASE ListAnswer
  BY <1>7, RefreshBegins DEF ListAnswer, PassesAdvance
<1>8. ASSUME NEW n \in Names, CallBegin(n) PROVE PassesAdvance
  BY <1>8, RefreshBegins DEF CallBegin, PassesAdvance
<1>9. CASE CallGoesOn
  BY <1>9 DEF CallGoesOn, CallSearches, CallAsks, CallEnds, PassesAdvance
<1>10. CASE UNCHANGED vars
  BY <1>10 DEF vars, PassesAdvance
<1>. QED BY <1>2, <1>3, <1>4, <1>5, <1>6, <1>7, <1>8, <1>9, <1>10
       DEF Next, PassGoesOn, Found, PassesAdvance

\* A discovery pass (refreshManifestCache) goes through at most as many steps as there
\* are peers, and two more, however lists and calls join it and peers change: nothing
\* sends it back, and none is asked twice in it.
THEOREM PassesAreBounded == Spec => [][PassesAdvance]_vars
<1>1. DiscoveryInv /\ [Next]_vars => [PassesAdvance]_vars
  BY PassAdvances
<1>. QED BY Invariance, <1>1, PTL DEF Spec

-----------------------------------------------------------------------------
(* No call is stranded                                                       *)

\* A call that waits is held by a pass that is running.
CallsAreHeld == call.at = "waiting" => pass.stage # "none" /\ call.name \in Names

LEMMA HeldStep ==
  ASSUME DiscoveryInv, CallsAreHeld, [Next]_vars
  PROVE  CallsAreHeld'
<1>. USE DEF CallsAreHeld
<1>. TypeOK
  BY DEF DiscoveryInv
<1>1. pass \in Passes /\ call \in Calls
  BY DEF TypeOK
<1>2. ASSUME NEW p \in Peers, PeerStep(p) PROVE CallsAreHeld'
  BY <1>2 DEF PeerStep, Toggle, Change, Expire, CoolEnds
<1>3. ASSUME NEW p \in Peers, PeerReplies(p) PROVE CallsAreHeld'
  BY <1>1, <1>3 DEF PeerReplies, PeerAnswers, PeerFails, Passes
<1>4. ASSUME NEW o, NEW c, NEW n PROVE \A g \in Goes(o, c, n) : g.at # "waiting"
  BY DEF Goes, Sending
<1>5. CASE Kick \/ ListBegin \/ ListAgain
  BY <1>5, Refreshed DEF Kick, ListBegin, ListAgain
<1>6. CASE PassEmpty \/ PassEnds
  BY <1>4, <1>6 DEF PassEmpty, PassEnds, Release
<1>7. CASE Found
  BY <1>1, <1>7 DEF Found, PassFound, Passes
<1>8. CASE ListAnswer
  BY <1>8, Refreshed DEF ListAnswer
<1>9. ASSUME NEW n \in Names, CallBegin(n) PROVE CallsAreHeld'
  BY <1>4, <1>9, Refreshed DEF CallBegin
<1>10. CASE CallGoesOn
  BY <1>10 DEF CallGoesOn, CallSearches, CallAsks, CallEnds, Sending, Idle
<1>11. CASE UNCHANGED vars
  BY <1>11 DEF vars
<1>. QED BY <1>2, <1>3, <1>5, <1>6, <1>7, <1>8, <1>9, <1>10, <1>11
       DEF Next, PassGoesOn

\* A call that waits for the cache (getRemoteTools and tools/call await the pass in
\* progress) is never left without a pass that will wake it, however passes end and
\* are started by others.
THEOREM WaitingIsHeld == Spec => []CallsAreHeld
<1>1. Init => CallsAreHeld
  BY DEF Init, CallsAreHeld
<1>2. CallsAreHeld /\ DiscoveryInv /\ [Next]_vars => CallsAreHeld'
  BY HeldStep
<1>. QED BY Invariance, <1>1, <1>2, PTL DEF Spec

\* In a cache every name goes to one peer, or to the search for one.
NamesDecide == \A n \in Names : \E g \in Calls : Goes(order, tools, n) = {g}

\* Among the positions of an order that meet a condition there is a first one.
LEMMA FirstPlace ==
  ASSUME NEW I \in SUBSET Nat, I # {}
  PROVE  \E i \in I : \A j \in I : i <= j
<1>. DEFINE less == OpToRel(<, Nat)
<1>1. IsWellFoundedOn(less, Nat)
  BY NatLessThanWellFounded
<1>2. \A i, j \in Nat : j < i => <<j, i>> \in less
  BY SMT DEF OpToRel
<1>. HIDE DEF less
<1>3. PICK i \in I : \A j \in I : ~(<<j, i>> \in less)
  BY <1>1, WFMin
<1>4. ASSUME NEW j \in I PROVE i <= j
  <2>1. i \in Nat /\ j \in Nat /\ ~(j < i)
    BY <1>2, <1>3
  <2>. QED BY <2>1
<1>. QED BY <1>4

LEMMA OneResolves ==
  ASSUME TypeOK, NEW n, Matches(tools, n) # {}
  PROVE  \E p \in Peers : {q \in Peers : Resolves(order, tools, n, q)} = {p}
<1>. DEFINE M == Matches(tools, n)
            I == {i \in DOMAIN order : order[i] \in M}
<1>1. /\ order \in Seq(Peers) /\ IsInjective(order) /\ Range(order) = DOMAIN tools
      /\ DOMAIN order = 1 .. Len(order) /\ Len(order) \in Nat
  BY DEF TypeOK
<1>2. M \subseteq Range(order) /\ M # {}
  BY <1>1 DEF Matches
<1>. HIDE DEF M
<1>3. I \in SUBSET Nat /\ I # {}
  BY <1>1, <1>2 DEF Range
<1>4. PICK i \in I : \A j \in I : i <= j
  BY <1>3, FirstPlace
<1>5. order[i] \in M /\ order[i] \in Peers /\ i \in DOMAIN order
  BY <1>1
<1>6. Before(order, order[i]) \cap M = {}
  <2>1. SUFFICES ASSUME NEW j \in DOMAIN order, NEW k \in DOMAIN order, j < k,
                        order[k] = order[i], order[j] \in M
                 PROVE  FALSE
    BY DEF Before
  <2>2. k = i
    BY <1>1, <1>5, <2>1 DEF IsInjective
  <2>3. i <= j
    BY <1>4, <2>1
  <2>. QED BY <1>1, <2>1, <2>2, <2>3
<1>7. ASSUME NEW q \in Peers, q \in M, Before(order, q) \cap M = {} PROVE q = order[i]
  <2>1. PICK j \in DOMAIN order : order[j] = q
    BY <1>2, <1>7 DEF Range
  <2>2. j \in I /\ i <= j
    BY <1>4, <1>7, <2>1
  <2>3. ~(i < j)
    <3>1. SUFFICES ASSUME i < j PROVE FALSE
      OBVIOUS
    <3>2. order[i] \in Before(order, q)
      BY <1>5, <2>1, <3>1 DEF Before, Range
    <3>. QED BY <1>5, <1>7, <3>2
  <2>. QED BY <1>1, <1>5, <2>1, <2>2, <2>3
<1>8. \A q \in Peers : Resolves(order, tools, n, q) <=> q = order[i]
  BY <1>5, <1>6, <1>7 DEF Resolves, M
<1>. QED BY <1>5, <1>8

\* A name is resolved to one peer at most, and a name that some cached manifest matches
\* is resolved (resolveManifestTarget): a call that a pass wakes always goes on, and to
\* the same peer whoever asks.
THEOREM NamesAreDecided == Spec => []NamesDecide
<1>1. DiscoveryInv => NamesDecide
  <2>1. SUFFICES ASSUME TypeOK, NEW n \in Names
                 PROVE  \E g \in Calls : Goes(order, tools, n) = {g}
    BY DEF NamesDecide, DiscoveryInv
  <2>2. CASE Matches(tools, n) = {}
    BY <2>2 DEF Goes, Calls
  <2>3. CASE Matches(tools, n) # {}
    <3>1. PICK p \in Peers : {q \in Peers : Resolves(order, tools, n, q)} = {p}
      BY <2>1, <2>3, OneResolves
    <3>2. Goes(order, tools, n) = {Sending(p)}
      BY <2>3, <3>1 DEF Goes
    <3>3. Sending(p) \in Calls
      BY DEF Sending, Calls
    <3>. QED BY <3>2, <3>3
  <2>. QED BY <2>2, <2>3
<1>. QED BY Invariance, <1>1, PTL
=============================================================================
