---------------------------- MODULE MeshNodeProofs ----------------------------
(***************************************************************************)
(* Proofs about MeshNode, for any tools, peers and bootstrap addresses, and *)
(* however often the process crashes.                                      *)
(***************************************************************************)
EXTENDS MeshNode, TLAPS

USE MeshAssumption

-----------------------------------------------------------------------------
(* The inductive invariants                                                  *)

\* Where libp2p has a node; only a started one has connections; a start that is
\* under way has been counted, and has a key once it is past loading it; and a pass
\* that has not begun has gone by nothing.
NodeInv ==
  /\ pc \in {"down", "loading", "creating"} <=> node = "none"
  /\ node # "started" => connected = {}
  /\ pc # "down" => starts >= 1
  /\ pc \notin {"down", "loading"} => key \in Keys
  /\ pass.stage = "settling" => pass.seen = {}

TypeInv == TypeOK /\ NodeInv

\* A new key is on its way to the file only where none was read, and the file is
\* torn only while it is written; the identity last taken is in a whole file, or is
\* still to be saved, or is lost.
IdentityInv ==
  /\ Unsaved \/ lost \/ idFile \in Keys
  /\ pc \in {"truncating", "writing"} => isNew
  /\ pc \in {"creating", "starting", "seeding", "truncating"} /\ isNew /\ idFile \in Keys => misread
  /\ pc = "writing" => idFile = Torn

\* The handler is there before the manifest is buffered or sent.
ServedInv ==
  /\ \/ Manifest \in announced
     \/ \E f \in flights : f.cap = Manifest
     \/ pass.stage = "sending" /\ pass.cap = Manifest
     => handler
  /\ pc \in {"announcing", "joining", "up"} => handler

\* What connectToMesh has still to announce is in its snapshot.
JoinInv ==
  /\ pc = "announcing" => tools \ queue \subseteq announced
  /\ pc \in {"joining", "up"} => tools \cup {Manifest} \subseteq announced

\* p has a record of c under this node's identity, or is excused from it.
Knows(p, c) == <<key, c>> \in told[p] \/ c \in excused[p]

\* A provide of c is under way to p, or the re-announcement has c before it.
Flying(c, p) == \E f \in flights : f.cap = c /\ p \in f.to
Ahead(c, p) ==
  \/ pass.stage = "settling"
  \/ Passing /\ c \notin pass.seen
  \/ pass.stage = "sending" /\ pass.cap = c /\ p \in pass.to

ToldInv ==
  \A p \in connected : \A c \in announced :
    Knows(p, c) \/ Flying(c, p) \/ Ahead(c, p)

MeshInv == TypeInv /\ IdentityInv /\ ServedInv /\ JoinInv /\ ToldInv
-----------------------------------------------------------------------------
(* Every step keeps them                                                     *)

LEMMA InitInv == Init => MeshInv
<1>. SUFFICES ASSUME Init PROVE MeshInv
  OBVIOUS
<1>. USE DEF Init
<1>1. TypeInv
  <2>1. misread \in BOOLEAN /\ lost \in BOOLEAN /\ isNew \in BOOLEAN /\ {provider, handler} \subseteq BOOLEAN
    OBVIOUS
  <2>2. dial \in [boot : 0 .. Boots, attempt : 1 .. MaxDials]
    OBVIOUS
  <2>3. pass \in [stage : {"idle", "settling", "iterating", "sending"}, seen : SUBSET Caps,
                  cap : Caps, to : SUBSET Peers]
    BY DEF Idle, Caps
  <2>4. told \in [Peers -> SUBSET (Keys \X Caps)] /\ excused \in [Peers -> SUBSET Caps]
    OBVIOUS
  <2>5. QED
    BY <2>1, <2>2, <2>3, <2>4 DEF TypeInv, TypeOK, NodeInv, Idle
<1>2. IdentityInv /\ ServedInv /\ JoinInv /\ ToldInv
  BY DEF IdentityInv, ServedInv, JoinInv, ToldInv, Idle, Keys, NoKey
<1>3. QED
  BY <1>1, <1>2 DEF MeshInv

\* What applyHandlers makes of the handler and of what is under way has its type.
LEMMA ApplyType ==
  ASSUME handler \in BOOLEAN, announced \subseteq Caps, connected \subseteq Peers,
         flights \subseteq [cap : Caps, by : {"handlers", "join", "tool"}, to : SUBSET Peers],
         NEW registers, ApplyHandlers(registers)
  PROVE  /\ handler' \in BOOLEAN /\ announced' \subseteq Caps
         /\ flights' \subseteq [cap : Caps, by : {"handlers", "join", "tool"}, to : SUBSET Peers]
<1>1. CASE UNCHANGED <<handler, announced, flights>>
  BY <1>1
<1>2. CASE handler' = TRUE /\ Announce(Manifest, "handlers")
  <2>1. Manifest \in Caps
    BY DEF Caps
  <2>2. [cap |-> Manifest, by |-> "handlers", to |-> connected]
          \in [cap : Caps, by : {"handlers", "join", "tool"}, to : SUBSET Peers]
    BY <2>1
  <2>3. QED
    BY <1>2, <2>1, <2>2 DEF Announce
<1>3. QED
  BY <1>1, <1>2 DEF ApplyHandlers

\* What else a seeding step does.
LEMMA SeedStep ==
  ASSUME Seed
  PROVE  /\ ApplyHandlers(provider)
         /\ pc' \in {"truncating", "dialing"}
         /\ UNCHANGED disk /\ UNCHANGED mesh /\ UNCHANGED told_
         /\ UNCHANGED <<key, isNew, node, queue, dial, provider, tools, pass>>
BY DEF Seed

\* The state keeps its type.
LEMMA TypeKept ==
  ASSUME TypeInv, Next
  PROVE  TypeInv'
<1>. USE DEF TypeInv, TypeOK, NodeInv, disk, life, mesh, told_, Caps, Keys, NoKey
<1>1. CASE \E early \in BOOLEAN : Start(early)
  BY <1>1 DEF Start
<1>2. CASE LoadIdentity
  <2>1. isNew' \in BOOLEAN
    BY <1>2 DEF LoadIdentity
  <2>2. misread' \in BOOLEAN
    <3>1. misread' = FALSE \/ misread' = (idFile \in Keys)
      BY <1>2, Zenon DEF LoadIdentity
    <3>2. (idFile \in Keys) \in BOOLEAN
      OBVIOUS
    <3>3. QED
      BY <3>1, <3>2
  <2>3. key' \in Keys
    BY <1>2 DEF LoadIdentity
  <2>4. QED
    BY <1>2, <2>1, <2>2, <2>3 DEF LoadIdentity
<1>3. CASE Create
  BY <1>3 DEF Create
<1>4. CASE NodeStarts
  BY <1>4 DEF NodeStarts
<1>5. CASE Seed
  <2>1. /\ handler' \in BOOLEAN /\ announced' \subseteq Caps
        /\ flights' \subseteq [cap : Caps, by : {"handlers", "join", "tool"}, to : SUBSET Peers]
    BY <1>5, SeedStep, ApplyType
  <2>2. /\ misread' \in BOOLEAN /\ lost' \in BOOLEAN /\ isNew' \in BOOLEAN
        /\ {provider', handler'} \subseteq BOOLEAN
    BY <1>5, <2>1, SeedStep
  <2>3. NodeInv'
    BY <1>5, SeedStep DEF Seed
  <2>4. QED
    BY <1>5, <2>1, <2>2, <2>3, SeedStep
<1>6. CASE SaveTruncates
  <2>1. /\ idFile' \in Keys \cup {NoKey, Torn} /\ lost' \in BOOLEAN
        /\ pc' \in {"writing", "dialing"}
    BY <1>6 DEF SaveTruncates
  <2>2. QED
    BY <1>6, <2>1 DEF SaveTruncates
<1>7. CASE SaveWrites
  <2>1. idFile' \in Keys \cup {NoKey, Torn} /\ lost' \in BOOLEAN
    BY <1>7 DEF SaveWrites
  <2>2. QED
    BY <1>7, <2>1 DEF SaveWrites
<1>8. CASE DialBoot
  BY <1>8 DEF DialBoot
<1>9. CASE Register
  <2>1. PICK registers : ApplyHandlers(registers)
    BY <1>9 DEF Register
  <2>2. /\ handler' \in BOOLEAN /\ announced' \subseteq Caps
        /\ flights' \subseteq [cap : Caps, by : {"handlers", "join", "tool"}, to : SUBSET Peers]
    BY <2>1, ApplyType
  <2>3. provider' \in BOOLEAN
    BY <1>9 DEF Register
  <2>4. QED
    BY <1>9, <2>2, <2>3 DEF Register
<1>10. CASE AnnounceNext
  BY <1>10 DEF AnnounceNext, Announce
<1>11. CASE Joined
  BY <1>11 DEF Joined
<1>12. CASE Stop
  BY <1>12 DEF Stop
<1>13. CASE NodeStops
  BY <1>13 DEF NodeStops
<1>14. CASE Crash
  <2>1. isNew' \in BOOLEAN /\ {provider', handler'} \subseteq BOOLEAN
    BY <1>14 DEF Crash, Fresh
  <2>2. dial' \in [boot : 0 .. Boots, attempt : 1 .. MaxDials]
    BY <1>14 DEF Crash, Fresh
  <2>3. pass' \in [stage : {"idle", "settling", "iterating", "sending"}, seen : SUBSET Caps,
                   cap : Caps, to : SUBSET Peers]
    BY <1>14 DEF Crash, Fresh, Idle
  <2>4. told' \in [Peers -> SUBSET (Keys \X Caps)] /\ excused' \in [Peers -> SUBSET Caps]
    BY <1>14 DEF Crash, Fresh
  <2>5. QED
    BY <1>14, <2>1, <2>2, <2>3, <2>4 DEF Crash, Fresh, Idle
<1>15. CASE Settled
  BY <1>15 DEF Settled
<1>16. CASE PassNext
  BY <1>16 DEF PassNext, Idle
<1>17. CASE \E f \in flights : Announced(f)
  BY <1>17 DEF Announced, ProvideEnds
<1>18. CASE PassSent
  <2>1. pass.cap \in Caps /\ pass.to \subseteq Peers
    OBVIOUS
  <2>2. told' \in [Peers -> SUBSET (Keys \X Caps)] /\ excused' \in [Peers -> SUBSET Caps]
    BY <1>18, <2>1 DEF PassSent, ProvideEnds
  <2>3. pass' \in [stage : {"idle", "settling", "iterating", "sending"}, seen : SUBSET Caps,
                   cap : Caps, to : SUBSET Peers]
    BY <1>18 DEF PassSent
  <2>4. QED
    BY <1>18, <2>2, <2>3 DEF PassSent
<1>19. CASE \E t \in Tools : AddTool(t)
  BY <1>19 DEF AddTool, Announce
<1>20. CASE \E p \in Peers : Connect(p)
  BY <1>20 DEF Connect, Idle, Passing
<1>21. CASE \E p \in Peers : Disconnect(p)
  BY <1>21 DEF Disconnect
<1>22. QED
  BY <1>1, <1>2, <1>3, <1>4, <1>5, <1>6, <1>7, <1>8, <1>9, <1>10, <1>11, <1>12, <1>13, <1>14, <1>15, <1>16, <1>17, <1>18, <1>19, <1>20, <1>21
  DEF Next, Starting, Provides

\* Who generates a key has found none, or failed to read it.
LEMMA IdentityStep ==
  ASSUME TypeInv, IdentityInv, Next
  PROVE  IdentityInv'
<1>. USE DEF TypeInv, NodeInv, TypeOK, IdentityInv, Unsaved, disk, life, mesh, told_, Keys, NoKey, Torn
<1>1. CASE \E early \in BOOLEAN : Start(early)
  BY <1>1 DEF Start
<1>2. CASE LoadIdentity
  BY <1>2 DEF LoadIdentity
<1>3. CASE Create
  BY <1>3 DEF Create
<1>4. CASE NodeStarts
  BY <1>4 DEF NodeStarts
<1>5. CASE Seed
  BY <1>5 DEF Seed, ApplyHandlers, Announce
<1>6. CASE SaveTruncates
  BY <1>6 DEF SaveTruncates
<1>7. CASE SaveWrites
  BY <1>7 DEF SaveWrites
<1>8. CASE DialBoot
  BY <1>8 DEF DialBoot
<1>9. CASE Register
  BY <1>9 DEF Register, ApplyHandlers, Announce
<1>10. CASE AnnounceNext
  BY <1>10 DEF AnnounceNext, Announce
<1>11. CASE Joined
  BY <1>11 DEF Joined
<1>12. CASE Stop
  BY <1>12 DEF Stop
<1>13. CASE NodeStops
  BY <1>13 DEF NodeStops
<1>14. CASE Crash
  BY <1>14 DEF Crash, Fresh, Idle
<1>15. CASE Settled
  BY <1>15 DEF Settled
<1>16. CASE PassNext
  BY <1>16 DEF PassNext, Idle
<1>17. CASE \E f \in flights : Announced(f)
  BY <1>17 DEF Announced, ProvideEnds
<1>18. CASE PassSent
  BY <1>18 DEF PassSent, ProvideEnds
<1>19. CASE \E t \in Tools : AddTool(t)
  BY <1>19 DEF AddTool, Announce
<1>20. CASE \E p \in Peers : Connect(p)
  BY <1>20 DEF Connect, Idle, Passing
<1>21. CASE \E p \in Peers : Disconnect(p)
  BY <1>21 DEF Disconnect
<1>22. QED
  BY <1>1, <1>2, <1>3, <1>4, <1>5, <1>6, <1>7, <1>8, <1>9, <1>10, <1>11, <1>12, <1>13, <1>14, <1>15, <1>16, <1>17, <1>18, <1>19, <1>20, <1>21
  DEF Next, Starting, Provides

\* Every way to the manifest goes through applyHandlers.
LEMMA ServedStep ==
  ASSUME TypeInv, ServedInv, Next
  PROVE  ServedInv'
<1>. USE DEF TypeInv, NodeInv, TypeOK, ServedInv, disk, life, mesh, told_
<1>1. CASE \E early \in BOOLEAN : Start(early)
  BY <1>1 DEF Start
<1>2. CASE LoadIdentity
  BY <1>2 DEF LoadIdentity
<1>3. CASE Create
  BY <1>3 DEF Create
<1>4. CASE NodeStarts
  BY <1>4 DEF NodeStarts
<1>5. CASE Seed
  BY <1>5 DEF Seed, ApplyHandlers, Announce
<1>6. CASE SaveTruncates
  BY <1>6 DEF SaveTruncates
<1>7. CASE SaveWrites
  BY <1>7 DEF SaveWrites
<1>8. CASE DialBoot
  BY <1>8 DEF DialBoot
<1>9. CASE Register
  BY <1>9 DEF Register, ApplyHandlers, Announce
<1>10. CASE AnnounceNext
  BY <1>10 DEF AnnounceNext, Announce
<1>11. CASE Joined
  BY <1>11 DEF Joined
<1>12. CASE Stop
  BY <1>12 DEF Stop
<1>13. CASE NodeStops
  BY <1>13 DEF NodeStops
<1>14. CASE Crash
  BY <1>14 DEF Crash, Fresh, Idle
<1>15. CASE Settled
  BY <1>15 DEF Settled
<1>16. CASE PassNext
  BY <1>16 DEF PassNext, Idle
<1>17. CASE \E f \in flights : Announced(f)
  BY <1>17 DEF Announced, ProvideEnds
<1>18. CASE PassSent
  BY <1>18 DEF PassSent, ProvideEnds
<1>19. CASE \E t \in Tools : AddTool(t)
  BY <1>19 DEF AddTool, Announce
<1>20. CASE \E p \in Peers : Connect(p)
  BY <1>20 DEF Connect, Idle, Passing
<1>21. CASE \E p \in Peers : Disconnect(p)
  BY <1>21 DEF Disconnect
<1>22. QED
  BY <1>1, <1>2, <1>3, <1>4, <1>5, <1>6, <1>7, <1>8, <1>9, <1>10, <1>11, <1>12, <1>13, <1>14, <1>15, <1>16, <1>17, <1>18, <1>19, <1>20, <1>21
  DEF Next, Starting, Provides

\* What is registered while the snapshot is announced is announced by tool().
LEMMA JoinStep ==
  ASSUME TypeInv, JoinInv, Next
  PROVE  JoinInv'
<1>. USE DEF TypeInv, NodeInv, JoinInv, disk, life, mesh, told_
<1>1. CASE \E early \in BOOLEAN : Start(early)
  BY <1>1 DEF Start
<1>2. CASE LoadIdentity
  BY <1>2 DEF LoadIdentity
<1>3. CASE Create
  BY <1>3 DEF Create
<1>4. CASE NodeStarts
  BY <1>4 DEF NodeStarts
<1>5. CASE Seed
  BY <1>5 DEF Seed, ApplyHandlers, Announce
<1>6. CASE SaveTruncates
  BY <1>6 DEF SaveTruncates
<1>7. CASE SaveWrites
  BY <1>7 DEF SaveWrites
<1>8. CASE DialBoot
  BY <1>8 DEF DialBoot
<1>9. CASE Register
  BY <1>9 DEF Register, ApplyHandlers, Announce
<1>10. CASE AnnounceNext
  BY <1>10 DEF AnnounceNext, Announce
<1>11. CASE Joined
  BY <1>11 DEF Joined
<1>12. CASE Stop
  BY <1>12 DEF Stop
<1>13. CASE NodeStops
  BY <1>13 DEF NodeStops
<1>14. CASE Crash
  BY <1>14 DEF Crash, Fresh, Idle
<1>15. CASE Settled
  BY <1>15 DEF Settled
<1>16. CASE PassNext
  BY <1>16 DEF PassNext, Idle
<1>17. CASE \E f \in flights : Announced(f)
  BY <1>17 DEF Announced, ProvideEnds
<1>18. CASE PassSent
  BY <1>18 DEF PassSent, ProvideEnds
<1>19. CASE \E t \in Tools : AddTool(t)
  BY <1>19 DEF AddTool, Announce
<1>20. CASE \E p \in Peers : Connect(p)
  BY <1>20 DEF Connect, Idle, Passing
<1>21. CASE \E p \in Peers : Disconnect(p)
  BY <1>21 DEF Disconnect
<1>22. QED
  BY <1>1, <1>2, <1>3, <1>4, <1>5, <1>6, <1>7, <1>8, <1>9, <1>10, <1>11, <1>12, <1>13, <1>14, <1>15, <1>16, <1>17, <1>18, <1>19, <1>20, <1>21
  DEF Next, Starting, Provides

\* A provide for the peers connected now leaves none of them out.
LEMMA AnnounceKeeps ==
  ASSUME TypeInv, ToldInv, NEW c, NEW by, Announce(c, by), UNCHANGED <<pass, connected, key, told_>>
  PROVE  ToldInv'
<1>. SUFFICES ASSUME NEW p \in connected, NEW d \in announced',
                     ~Knows(p, d), ~Ahead(d, p)
              PROVE  Flying(d, p)'
  BY DEF ToldInv, Knows, told_, Ahead, Passing
<1>1. CASE d = c
  <2>1. [cap |-> c, by |-> by, to |-> connected] \in flights'
    BY DEF Announce
  <2>2. QED
    BY <1>1, <2>1 DEF Flying
<1>2. CASE d # c
  <2>1. d \in announced
    BY <1>2 DEF Announce
  <2>2. PICK f \in flights : f.cap = d /\ p \in f.to
    BY <2>1 DEF ToldInv, Flying
  <2>3. f \in flights'
    BY DEF Announce
  <2>4. QED
    BY <2>2, <2>3 DEF Flying
<1>3. QED
  BY <1>1, <1>2

LEMMA SameTold ==
  ASSUME ToldInv, UNCHANGED <<announced, flights, pass, connected, key, told_>>
  PROVE  ToldInv'
BY DEF ToldInv, Knows, Flying, Ahead, Passing, told_

\* The end of a provide: every connected peer it was for is told, or excused.
LEMMA EndTells ==
  ASSUME TypeInv, NEW c, NEW to, ProvideEnds(c, to), UNCHANGED key, NEW p \in connected
  PROVE  /\ \A d : Knows(p, d) => Knows(p, d)'
         /\ p \in to => Knows(p, c)'
<1>1. p \in Peers /\ told \in [Peers -> SUBSET (Keys \X Caps)] /\ excused \in [Peers -> SUBSET Caps]
  BY DEF TypeInv, TypeOK
<1>2. QED
  BY <1>1 DEF ProvideEnds, Knows

\* Whoever is connected is told, is about to be, or has been missed for a reason.
LEMMA ToldStep ==
  ASSUME TypeInv, ToldInv, Next
  PROVE  ToldInv'
<1>. USE DEF disk, life, mesh
<1>1. CASE \/ (\E early \in BOOLEAN : Start(early)) \/ Create \/ NodeStarts
           \/ SaveTruncates \/ SaveWrites \/ DialBoot \/ Joined \/ Stop
  BY <1>1, SameTold
  DEF Start, Create, NodeStarts, SaveTruncates, SaveWrites, DialBoot, Joined, Stop
<1>2. CASE Seed \/ Register
  <2>1. CASE UNCHANGED <<announced, flights>>
    BY <1>2, <2>1, SameTold DEF Seed, Register
  <2>2. CASE Announce(Manifest, "handlers")
    BY <1>2, <2>2, AnnounceKeeps DEF Seed, Register
  <2>3. QED
    BY <1>2, <2>1, <2>2 DEF Seed, Register, ApplyHandlers
<1>3. CASE AnnounceNext
  BY <1>3, AnnounceKeeps DEF AnnounceNext
<1>4. CASE \E t \in Tools : AddTool(t)
  BY <1>4, AnnounceKeeps, SameTold DEF AddTool
<1>5. CASE LoadIdentity \/ NodeStops \/ Crash
  BY <1>5 DEF LoadIdentity, NodeStops, Crash, Fresh, ToldInv, TypeInv, NodeInv
<1>6. CASE Settled
  BY <1>6 DEF Settled, ToldInv, Knows, Flying, Ahead, Passing, TypeInv, TypeOK, NodeInv, told_
<1>7. CASE PassNext
  <2>1. pass.stage = "iterating" /\ UNCHANGED <<announced, flights, connected, key, told, excused>>
    BY <1>7 DEF PassNext, told_
  <2>2. CASE announced \subseteq pass.seen
    BY <2>1, <2>2 DEF ToldInv, Knows, Flying, Ahead, Passing
  <2>3. CASE ~(announced \subseteq pass.seen)
    <3>1. PICK c \in announced \ pass.seen :
            pass' = [stage |-> "sending", seen |-> pass.seen \cup {c}, cap |-> c, to |-> connected]
      BY <1>7, <2>3 DEF PassNext
    <3>2. QED
      BY <2>1, <3>1 DEF ToldInv, Knows, Flying, Ahead, Passing
  <2>4. QED
    BY <2>2, <2>3
<1>8. CASE \E f \in flights : Announced(f)
  <2>1. PICK f \in flights : Announced(f)
    BY <1>8
  <2>2. /\ ProvideEnds(f.cap, f.to) /\ flights' = flights \ {f}
        /\ UNCHANGED <<announced, pass, connected, key>>
    BY <2>1 DEF Announced
  <2>3. SUFFICES ASSUME NEW p \in connected, NEW d \in announced,
                        ~Knows(p, d)', ~Ahead(d, p)
                 PROVE  Flying(d, p)'
    BY <2>2 DEF ToldInv, Ahead, Passing
  <2>4. PICK g \in flights : g.cap = d /\ p \in g.to
    BY <2>2, <2>3, EndTells DEF ToldInv, Flying
  <2>5. g # f
    BY <2>2, <2>3, <2>4, EndTells
  <2>6. QED
    BY <2>2, <2>4, <2>5 DEF Flying
<1>9. CASE PassSent
  <2>1. /\ ProvideEnds(pass.cap, pass.to) /\ pass.stage = "sending"
        /\ pass' = [pass EXCEPT !.stage = "iterating", !.to = {}]
        /\ UNCHANGED <<announced, flights, connected, key>>
    BY <1>9 DEF PassSent
  <2>2. pass'.stage = "iterating" /\ pass'.seen = pass.seen
    BY <2>1 DEF TypeInv, TypeOK
  <2>3. QED
    BY <2>1, <2>2, EndTells DEF ToldInv, Flying, Ahead, Passing
<1>10. CASE \E p \in Peers : Connect(p)
  <2>1. PICK p \in Peers : Connect(p)
    BY <1>10
  <2>2. /\ UNCHANGED <<announced, flights, key, told>> /\ connected' = connected \cup {p}
        /\ pass' = IF pass.stage = "idle" /\ announced # {}
                     THEN [Idle EXCEPT !.stage = "settling"] ELSE pass
        /\ excused' = [excused EXCEPT ![p] = IF Passing THEN pass.seen ELSE {}]
        /\ p \notin connected
    BY <2>1 DEF Connect
  <2>3. pass.stage \in {"idle", "settling", "iterating", "sending"}
        /\ excused \in [Peers -> SUBSET Caps]
    BY DEF TypeInv, TypeOK
  <2>4. CASE pass.stage = "idle" /\ announced # {}
    BY <2>2, <2>4 DEF ToldInv, Ahead, Idle
  <2>5. CASE announced = {}
    BY <2>2, <2>5 DEF ToldInv
  <2>6. CASE pass.stage # "idle"
    <3>1. /\ UNCHANGED pass /\ excused'[p] = (IF Passing THEN pass.seen ELSE {})
          /\ \A q \in connected : excused'[q] = excused[q]
      BY <2>2, <2>3, <2>6
    <3>2. \A d \in announced : Knows(p, d)' \/ Ahead(d, p)'
      BY <2>2, <2>3, <2>6, <3>1 DEF Ahead, Passing, Knows
    <3>3. QED
      BY <2>2, <3>1, <3>2 DEF ToldInv, Knows, Flying, Ahead, Passing
  <2>7. QED
    BY <2>4, <2>5, <2>6
<1>11. CASE \E p \in Peers : Disconnect(p)
  <2>1. PICK q \in Peers : Disconnect(q)
    BY <1>11
  <2>2. /\ UNCHANGED <<announced, key>> /\ connected' = connected \ {q}
        /\ UNCHANGED told \/ told' = [told EXCEPT ![q] = {}]
        /\ excused' = [excused EXCEPT ![q] = {}]
        /\ flights' = {[f EXCEPT !.to = @ \ {q}] : f \in flights}
        /\ pass' = [pass EXCEPT !.to = @ \ {q}]
    BY <2>1 DEF Disconnect
  <2>3. SUFFICES ASSUME NEW p \in connected \ {q}, NEW d \in announced,
                        ~Knows(p, d)', ~Ahead(d, p)'
                 PROVE  Flying(d, p)'
    BY <2>2 DEF ToldInv
  <2>4. told'[p] = told[p] /\ excused'[p] = excused[p]
    BY <2>2 DEF TypeInv, TypeOK
  <2>5. ~Ahead(d, p)
    BY <2>2, <2>3 DEF Ahead, Passing, TypeInv, TypeOK
  <2>6. PICK f \in flights : f.cap = d /\ p \in f.to
    BY <2>2, <2>3, <2>4, <2>5 DEF ToldInv, Knows, Flying
  <2>7. [f EXCEPT !.to = @ \ {q}] \in flights'
    BY <2>2
  <2>8. [f EXCEPT !.to = @ \ {q}].cap = d /\ p \in [f EXCEPT !.to = @ \ {q}].to
    BY <2>6 DEF TypeInv, TypeOK
  <2>9. QED
    BY <2>7, <2>8 DEF Flying
<1>12. QED
  BY <1>1, <1>2, <1>3, <1>4, <1>5, <1>6, <1>7, <1>8, <1>9, <1>10, <1>11
  DEF Next, Starting, Provides

LEMMA Stutter ==
  ASSUME MeshInv, UNCHANGED vars
  PROVE  MeshInv'
<1>. USE DEF vars, disk, life, mesh, told_
<1>1. TypeInv'
  BY DEF MeshInv, TypeInv, TypeOK, NodeInv
<1>2. IdentityInv' /\ ServedInv' /\ JoinInv' /\ ToldInv'
  BY SameTold DEF MeshInv, IdentityInv, Unsaved, ServedInv, JoinInv
<1>3. QED
  BY <1>1, <1>2 DEF MeshInv

-----------------------------------------------------------------------------
(* Theorems                                                                  *)

LEMMA MeshInvInductive == Spec => []MeshInv
<1>1. Init => MeshInv
  BY InitInv
<1>2. MeshInv /\ [Next]_vars => MeshInv'
  BY TypeKept, IdentityStep, ServedStep, JoinStep, ToldStep, Stutter DEF MeshInv
<1>3. QED
  BY <1>1, <1>2, PTL DEF Spec

\* For any tools and peers: the state of a node keeps its type.
THEOREM TypeCorrect == Spec => []TypeOK
<1>1. MeshInv => TypeOK
  BY DEF MeshInv, TypeInv
<1>2. QED
  BY <1>1, MeshInvInductive, PTL

\* For any number of peers that come and go: when nothing is under way, who is
\* connected knows what was announced, but for what failed or had gone by.
THEOREM ConnectedPeersAreTold == Spec => []PeersAreTold
<1>1. MeshInv => PeersAreTold
  <2>. SUFFICES ASSUME MeshInv, Quiet, NEW p \in connected, NEW c \in announced
                PROVE  <<key, c>> \in told[p] \/ c \in excused[p]
    BY DEF PeersAreTold
  <2>1. ~Flying(c, p) /\ ~Ahead(c, p)
    BY DEF Quiet, Flying, Ahead, Passing
  <2>2. QED
    BY <2>1 DEF MeshInv, ToldInv, Knows
<1>2. QED
  BY <1>1, MeshInvInductive, PTL

\* However registrations interleave with the join: a server that has joined has
\* announced every tool it has, and its manifest.
THEOREM JoinedServerIsAnnounced == Spec => []JoinedAnnouncesAll
<1>1. MeshInv => JoinedAnnouncesAll
  BY DEF MeshInv, JoinInv, JoinedAnnouncesAll
<1>2. QED
  BY <1>1, MeshInvInductive, PTL

\* In whatever order provides go out, peers connect and the process is started again:
\* a peer gets a record of this node's manifest only while the node serves it.
THEOREM ManifestIsServed == Spec => AdvertisedIsServed
<1>. DEFINE Served == \A p \in Peers : <<key, Manifest>> \in told'[p] \ told[p] => Serves
<1>1. MeshInv /\ [Next]_vars => [Served]_vars
  <2>. SUFFICES ASSUME MeshInv, Next, NEW p \in Peers, <<key, Manifest>> \in told'[p] \ told[p]
                PROVE  Serves
    OBVIOUS
  <2>. USE DEF MeshInv, TypeInv, TypeOK, ServedInv, Serves
  <2>1. CASE \E f \in flights : Announced(f)
    BY <2>1 DEF Announced, ProvideEnds
  <2>2. CASE PassSent
    BY <2>2 DEF PassSent, ProvideEnds
  <2>3. CASE \E q \in Peers : Disconnect(q)
    BY <2>3 DEF Disconnect
  <2>4. CASE ~((\E f \in flights : Announced(f)) \/ PassSent \/ \E q \in Peers : Disconnect(q))
    <3>1. UNCHANGED told
      BY <2>4 DEF Next, Starting, Provides, Start, LoadIdentity, Create, NodeStarts, Seed,
         SaveTruncates, SaveWrites, DialBoot, Register, AnnounceNext, Joined, Stop, NodeStops,
         Crash, Settled, PassNext, AddTool, Connect, told_
    <3>2. QED
      BY <3>1
  <2>5. QED
    BY <2>1, <2>2, <2>3, <2>4
<1>2. Spec => [][Served]_vars
  BY <1>1, MeshInvInductive, PTL DEF Spec
<1>3. QED
  BY <1>2 DEF AdvertisedIsServed

\* Over any number of starts and crashes: the peer id a start has taken comes back at
\* the next one, but after a failing read or an end before it was saved; and a whole
\* identity file is overwritten only after a read of it failed.
THEOREM IdentitySurvives == Spec => IdentityKept
<1>. DEFINE Kept == /\ isNew' /\ ~isNew => lost \/ misread'
                    /\ idFile \in Keys /\ idFile' # idFile => misread
<1>1. MeshInv /\ [Next]_vars => [Kept]_vars
  <2>. SUFFICES ASSUME MeshInv, Next PROVE Kept
    OBVIOUS
  <2>1. CASE LoadIdentity
    BY <2>1 DEF LoadIdentity, MeshInv, IdentityInv, Unsaved
  <2>2. CASE SaveTruncates \/ SaveWrites
    BY <2>2 DEF SaveTruncates, SaveWrites, MeshInv, IdentityInv, Keys, Torn
  <2>3. CASE ~(LoadIdentity \/ SaveTruncates \/ SaveWrites)
    <3>1. UNCHANGED idFile
      BY <2>3 DEF Next, Starting, Provides, Start, Create, NodeStarts, Seed,
         DialBoot, Register, AnnounceNext, Joined, Stop, NodeStops, Crash, Fresh, Settled,
         PassNext, Announced, PassSent, AddTool, Connect, Disconnect, disk, life
    <3>2. UNCHANGED isNew \/ isNew' = FALSE
      BY <2>3 DEF Next, Starting, Provides, Start, Create, NodeStarts, Seed,
         DialBoot, Register, AnnounceNext, Joined, Stop, NodeStops, Crash, Fresh, Settled,
         PassNext, Announced, PassSent, AddTool, Connect, Disconnect, disk, life
    <3>3. CASE UNCHANGED isNew
      BY <3>1, <3>3
    <3>4. CASE isNew' = FALSE
      BY <3>1, <3>4
    <3>5. QED
      BY <3>2, <3>3, <3>4
  <2>4. QED
    BY <2>1, <2>2, <2>3
<1>2. Spec => [][Kept]_vars
  BY <1>1, MeshInvInductive, PTL DEF Spec
<1>3. QED
  BY <1>2 DEF IdentityKept
=============================================================================
