--------------------------- MODULE FrontEndsProofs ---------------------------
(***************************************************************************)
(* Proofs about FrontEnds, for any limits, windows, tools, clients, slots   *)
(* and requests.                                                           *)
(***************************************************************************)
EXTENDS FrontEnds, FiniteSetTheorems, SequenceTheorems, TLAPS

USE FrontEndsAssumption

-----------------------------------------------------------------------------
(* Constants, and counting in an instance                                    *)

LEMMA ToolBounds ==
  /\ MaxPerWindow \in Nat \ {0} /\ GlobalMax \in Nat \ {0} /\ Window \in Nat \ {0}
  /\ MaxClock \in Nat /\ MaxFailures \in Nat
BY DEF Tool!ToolCallsAssumption

LEMMA RateBounds ==
  /\ maxRequests \in Nat \ {0} /\ windowMs \in Nat \ {0} /\ CleanupMs \in Nat \ {0}
  /\ MaxClock \in Nat
BY DEF Rate!RateLimiterAssumption

LEMMA StreamBounds ==
  /\ IsFiniteSet(Slots)
  /\ MaxPerIp \in Nat \ {0} /\ Timeout \in Nat \ {0} /\ Interval \in Nat \ {0}
BY DEF Stream!StreamAssumption, Stream!IsFiniteSet, IsFiniteSet

\* The modules that count count alike.
LEMMA SameCount ==
  ASSUME NEW S
  PROVE  Tool!Cardinality(S) = Cardinality(S) /\ Stream!Cardinality(S) = Cardinality(S)
<1>1. Tool!Cardinality(S) = Cardinality(S)
  BY DEF Tool!Cardinality, Cardinality
<1>2. Stream!Cardinality(S) = Cardinality(S)
  BY DEF Stream!Cardinality, Cardinality
<1>. QED BY <1>1, <1>2

-----------------------------------------------------------------------------
(* Sliding windows                                                           *)

Ordered(h) == \A i, j \in 1 .. Len(h) : i <= j => h[i] <= h[j]
UpTo(h, now) == \A i \in 1 .. Len(h) : h[i] <= now

\* w is what is left of h when its first k elements are dropped.
Rest(w, h, k) ==
  /\ k \in 0 .. Len(h) /\ Len(w) = Len(h) - k
  /\ \A i \in 1 .. Len(w) : w[i] = h[k + i]

\* What w lacks of the history h is too old to count.
Kept(w, h, now) ==
  \E k \in 0 .. Len(h) : Rest(w, h, k) /\ \A i \in 1 .. k : now - h[i] >= Window

\* In a set of the numbers up to n that holds whatever is below a member, the members
\* are those up to its cardinality.
LEMMA Beginning ==
  ASSUME NEW n \in Nat, NEW S \in SUBSET (1 .. n),
         \A i, j \in 1 .. n : i <= j /\ j \in S => i \in S
  PROVE  Cardinality(S) \in 0 .. n /\ S = 1 .. Cardinality(S)
<1>. DEFINE c == Cardinality(S)
<1>0. ASSUME NEW i \in 0 .. n PROVE IsFiniteSet(1 .. i) /\ Cardinality(1 .. i) = i
  <2>1. 1 \in Int /\ i \in Int
    OBVIOUS
  <2>. QED BY <2>1, FS_Interval
<1>1. IsFiniteSet(1 .. n) /\ Cardinality(1 .. n) = n
  BY <1>0
<1>2. IsFiniteSet(S) /\ c \in Nat /\ c <= n
  BY <1>1, FS_Subset, FS_CardinalityType
<1>3. ASSUME NEW i \in S PROVE i <= c
  <2>1. 1 .. i \subseteq S
    OBVIOUS
  <2>2. Cardinality(1 .. i) <= c
    BY <1>2, <2>1, FS_Subset
  <2>. QED BY <1>0, <2>2
<1>4. ASSUME NEW i \in 1 .. n, i \notin S PROVE i > c
  <2>. DEFINE m == i - 1
  <2>1. m \in 0 .. n /\ i = m + 1
    OBVIOUS
  <2>2. S \subseteq 1 .. m
    BY <1>4
  <2>. HIDE DEF m
  <2>3. IsFiniteSet(1 .. m) /\ Cardinality(1 .. m) = m
    BY <1>0, <2>1
  <2>4. c <= Cardinality(1 .. m)
    BY <2>2, <2>3, FS_Subset
  <2>. QED BY <1>2, <2>1, <2>3, <2>4
<1>. HIDE DEF c
<1>5. S \subseteq 1 .. c
  BY <1>2, <1>3
<1>6. 1 .. c \subseteq S
  <2>1. ASSUME NEW i \in 1 .. c PROVE i \in S
    <3>1. i \in 1 .. n /\ ~ (i > c)
      BY <1>2
    <3>. QED BY <1>4, <3>1
  <2>. QED BY <2>1
<1>7. c \in 0 .. n
  BY <1>2
<1>8. S = 1 .. c
  BY <1>5, <1>6
<1>. QED BY <1>7, <1>8 DEF c

\* The filter drops a beginning: what is too old, and no more.
LEMMA ActiveIsRest ==
  ASSUME NEW T \in SUBSET Int, NEW w \in Seq(T), Ordered(w), NEW now \in Int
  PROVE  /\ Tool!Active(w, now) \in Seq(T)
         /\ \E k \in 0 .. Len(w) :
              /\ Rest(Tool!Active(w, now), w, k)
              /\ \A i \in 1 .. k : now - w[i] >= Window
              /\ \A i \in (k + 1) .. Len(w) : now - w[i] < Window
<1>. DEFINE stale == {i \in DOMAIN w : now - w[i] >= Window}
            c == Cardinality(stale)
<1>1. /\ Len(w) \in Nat /\ DOMAIN w = 1 .. Len(w) /\ \A i \in 1 .. Len(w) : w[i] \in Int
      /\ Window \in Nat
  <2>1. Len(w) \in Nat /\ DOMAIN w = 1 .. Len(w)
    BY LenProperties
  <2>2. \A i \in 1 .. Len(w) : w[i] \in T
    BY ElementOfSeq
  <2>. QED BY <2>1, <2>2, ToolBounds
<1>2. stale \in SUBSET (1 .. Len(w))
  BY <1>1
<1>3. \A i, j \in 1 .. Len(w) : i <= j /\ j \in stale => i \in stale
  BY <1>1 DEF Ordered
<1>4. Tool!Active(w, now) = SubSeq(w, c + 1, Len(w))
  BY SameCount DEF Tool!Active
<1>5. c \in 0 .. Len(w) /\ stale = 1 .. c
  <2>. HIDE DEF stale
  <2>. QED BY <1>1, <1>2, <1>3, Beginning
<1>6. \A i \in 1 .. Len(w) : i <= c <=> now - w[i] >= Window
  <2>1. \A i \in 1 .. Len(w) : i \in stale <=> now - w[i] >= Window
    BY <1>1
  <2>. HIDE DEF stale
  <2>. QED BY <1>1, <1>5, <2>1
<1>. HIDE DEF c, stale
<1>. DEFINE v == SubSeq(w, c + 1, Len(w))
<1>7. v \in Seq(T)
  BY <1>1, <1>5
<1>8. Rest(v, w, c)
  <2>1. v = [i \in 1 .. (Len(w) - c) |-> w[c + i]]
    BY <1>1, <1>5, SubSeqProperties
  <2>2. Len(v) = Len(w) - c
    <3>1. \A i \in (c + 1) .. Len(w) : w[i] \in Int
      BY <1>1, <1>5
    <3>2. Len(v) = IF c + 1 <= Len(w) THEN Len(w) - (c + 1) + 1 ELSE 0
      BY <1>1, <1>5, <3>1, SubSeqProperties
    <3>3. c \in Nat /\ Len(w) \in Nat /\ c <= Len(w)
      BY <1>1, <1>5
    <3>. HIDE DEF v
    <3>4. CASE c + 1 <= Len(w)
      BY <3>2, <3>3, <3>4
    <3>5. CASE ~ (c + 1 <= Len(w))
      BY <3>2, <3>3, <3>5
    <3>. QED BY <3>4, <3>5
  <2>. QED BY <1>5, <2>1, <2>2 DEF Rest
<1>9. /\ \A i \in 1 .. c : now - w[i] >= Window
      /\ \A i \in (c + 1) .. Len(w) : now - w[i] < Window
  BY <1>1, <1>5, <1>6
<1>. QED BY <1>4, <1>5, <1>7, <1>8, <1>9

\* What is left of what is left is what is left.
LEMMA RestOfRest ==
  ASSUME NEW u, NEW w, NEW h, NEW T, u \in Seq(T), w \in Seq(T), h \in Seq(T),
         NEW j \in Nat, NEW k \in Nat, Rest(u, w, j), Rest(w, h, k)
  PROVE  Rest(u, h, k + j)
<1>1. Len(u) \in Nat /\ Len(w) \in Nat /\ Len(h) \in Nat
  BY LenProperties
<1>2. k + j \in 0 .. Len(h) /\ Len(u) = Len(h) - (k + j)
  BY <1>1 DEF Rest
<1>3. ASSUME NEW i \in 1 .. Len(u) PROVE u[i] = h[k + j + i]
  <2>1. u[i] = w[j + i] /\ j + i \in 1 .. Len(w)
    BY <1>1 DEF Rest
  <2>2. w[j + i] = h[k + (j + i)]
    BY <2>1 DEF Rest
  <2>3. k + (j + i) = k + j + i
    BY <1>1
  <2>. QED BY <2>1, <2>2, <2>3
<1>. QED BY <1>2, <1>3 DEF Rest

\* A window kept of a history, pruned again: it still is kept of the history, and if it has
\* room for a call, so has the history.
LEMMA PrunedIsKept ==
  ASSUME NEW T \in SUBSET Int, NEW w \in Seq(T), NEW h \in Seq(T), NEW now \in Int,
         Ordered(h), Kept(w, h, now)
  PROVE  LET v == Tool!Active(w, now) IN
         \E k \in 0 .. Len(h) :
           /\ v \in Seq(T) /\ Rest(v, h, k)
           /\ \A i \in 1 .. k : now - h[i] >= Window
<1>. DEFINE v == Tool!Active(w, now)
<1>1. PICK k \in 0 .. Len(h) : Rest(w, h, k) /\ \A i \in 1 .. k : now - h[i] >= Window
  BY DEF Kept
<1>2. Len(w) \in Nat /\ Len(h) \in Nat
  BY LenProperties
<1>3. Ordered(w)
  BY <1>1, <1>2 DEF Ordered, Rest
<1>4. PICK j \in 0 .. Len(w) : Rest(v, w, j) /\ \A i \in 1 .. j : now - w[i] >= Window
  BY <1>3, ActiveIsRest
<1>5. v \in Seq(T)
  BY <1>3, ActiveIsRest
<1>. HIDE DEF v
<1>6. Rest(v, h, k + j)
  BY <1>1, <1>2, <1>4, <1>5, RestOfRest
<1>7. k + j \in 0 .. Len(h)
  BY <1>1, <1>2, <1>4 DEF Rest
<1>8. ASSUME NEW i \in 1 .. (k + j) PROVE now - h[i] >= Window
  <2>1. CASE i <= k
    BY <1>1, <2>1
  <2>2. CASE i > k
    <3>1. i - k \in 1 .. j /\ i - k \in 1 .. Len(w) /\ k + (i - k) = i
      BY <1>2, <2>2
    <3>2. w[i - k] = h[i]
      BY <1>1, <3>1 DEF Rest
    <3>. QED BY <1>4, <3>1, <3>2
  <2>. QED BY <2>1, <2>2
<1>. QED BY <1>5, <1>6, <1>7, <1>8 DEF v

\* A call that is counted is added to what is kept and to the history alike.
LEMMA CountedIsKept ==
  ASSUME NEW T \in SUBSET Int, NEW v \in Seq(T), NEW h \in Seq(T), NEW now \in T,
         NEW k \in 0 .. Len(h), Rest(v, h, k), \A i \in 1 .. k : now - h[i] >= Window
  PROVE  Kept(Append(v, now), Append(h, now), now)
<1>1. Len(v) \in Nat /\ Len(h) \in Nat
  BY LenProperties
<1>2. /\ Len(Append(v, now)) = Len(v) + 1 /\ Len(Append(h, now)) = Len(h) + 1
      /\ \A i \in 1 .. Len(v) : Append(v, now)[i] = v[i]
      /\ \A i \in 1 .. Len(h) : Append(h, now)[i] = h[i]
      /\ Append(v, now)[Len(v) + 1] = now /\ Append(h, now)[Len(h) + 1] = now
  BY AppendProperties
<1>. DEFINE y == Append(v, now)
            z == Append(h, now)
<1>. HIDE DEF y, z
<1>3. Rest(y, z, k)
  <2>1. k \in 0 .. Len(z) /\ Len(y) = Len(z) - k
    BY <1>1, <1>2 DEF Rest, y, z
  <2>2. ASSUME NEW i \in 1 .. Len(y) PROVE y[i] = z[k + i]
    <3>1. CASE i \in 1 .. Len(v)
      <4>1. k + i \in 1 .. Len(h) /\ v[i] = h[k + i]
        BY <1>1, <3>1 DEF Rest
      <4>. QED BY <1>2, <3>1, <4>1 DEF y, z
    <3>2. CASE i = Len(v) + 1
      <4>1. k + i = Len(h) + 1
        BY <1>1, <3>2 DEF Rest
      <4>. QED BY <1>2, <3>2, <4>1 DEF y, z
    <3>3. i \in 1 .. (Len(v) + 1)
      BY <1>2 DEF y
    <3>. QED BY <1>1, <3>1, <3>2, <3>3
  <2>. QED BY <2>1, <2>2 DEF Rest
<1>4. \A i \in 1 .. k : now - z[i] >= Window
  BY <1>1, <1>2 DEF z
<1>. QED BY <1>3, <1>4 DEF Kept, Rest, y, z

LEMMA OrderedAppend ==
  ASSUME NEW T \in SUBSET Int, NEW h \in Seq(T), NEW now \in T, Ordered(h), UpTo(h, now)
  PROVE  Append(h, now) \in Seq(T) /\ Ordered(Append(h, now)) /\ UpTo(Append(h, now), now)
<1>1. Len(h) \in Nat /\ \A i \in 1 .. Len(h) : h[i] \in T
  BY LenProperties, ElementOfSeq
<1>2. /\ Append(h, now) \in Seq(T) /\ Len(Append(h, now)) = Len(h) + 1
      /\ \A i \in 1 .. Len(h) : Append(h, now)[i] = h[i]
      /\ Append(h, now)[Len(h) + 1] = now
  BY AppendProperties
<1>. DEFINE z == Append(h, now)
<1>. HIDE DEF z
<1>3. UpTo(z, now)
  BY <1>1, <1>2 DEF UpTo, z
<1>4. Ordered(z)
  <2>1. SUFFICES ASSUME NEW i \in 1 .. Len(z), NEW j \in 1 .. Len(z), i <= j PROVE z[i] <= z[j]
    BY DEF Ordered
  <2>2. CASE j = Len(h) + 1
    BY <1>2, <1>3, <2>2 DEF UpTo, z
  <2>3. CASE j \in 1 .. Len(h)
    <3>1. i \in 1 .. Len(h)
      BY <1>1, <2>1, <2>3
    <3>. QED BY <1>2, <2>1, <2>3, <3>1 DEF Ordered, z
  <2>. QED BY <1>1, <1>2, <2>2, <2>3 DEF z
<1>. QED BY <1>2, <1>3, <1>4 DEF z

\* Room in the history for one more call under a limit of n.
Room(h, n, now) ==
  \E k \in 0 .. Len(h) : Len(h) - k < n /\ \A i \in 1 .. k : now - h[i] >= Window

InWindow(w, h, now) == Ordered(h) /\ UpTo(h, now) /\ Kept(w, h, now)

\* What checkToolCallRateLimit and checkGlobalRateLimit do with a window.
LEMMA Pruned ==
  ASSUME NEW T \in SUBSET Int, NEW w \in Seq(T), NEW h \in Seq(T), NEW now \in T,
         InWindow(w, h, now)
  PROVE  LET v == Tool!Active(w, now) IN
         /\ v \in Seq(T) /\ InWindow(v, h, now)
         /\ \A n \in Nat : Len(v) < n => Room(h, n, now)
<1>. DEFINE v == Tool!Active(w, now)
<1>1. PICK k \in 0 .. Len(h) : /\ v \in Seq(T) /\ Rest(v, h, k)
                               /\ \A i \in 1 .. k : now - h[i] >= Window
  BY PrunedIsKept DEF InWindow
<1>. HIDE DEF v
<1>2. InWindow(v, h, now)
  BY <1>1 DEF InWindow, Kept
<1>3. \A n \in Nat : Len(v) < n => Room(h, n, now)
  BY <1>1 DEF Room, Rest
<1>. QED BY <1>1, <1>2, <1>3 DEF v

LEMMA Counted ==
  ASSUME NEW T \in SUBSET Int, NEW w \in Seq(T), NEW h \in Seq(T), NEW now \in T,
         InWindow(w, h, now)
  PROVE  LET v == Tool!Active(w, now) IN
         /\ Append(v, now) \in Seq(T) /\ Append(h, now) \in Seq(T)
         /\ InWindow(Append(v, now), Append(h, now), now)
         /\ Len(Append(v, now)) = Len(v) + 1 /\ Len(v) \in Nat
<1>. DEFINE v == Tool!Active(w, now)
<1>1. PICK k \in 0 .. Len(h) : /\ v \in Seq(T) /\ Rest(v, h, k)
                               /\ \A i \in 1 .. k : now - h[i] >= Window
  BY PrunedIsKept DEF InWindow
<1>. HIDE DEF v
<1>2. Kept(Append(v, now), Append(h, now), now)
  BY <1>1, CountedIsKept
<1>3. Append(h, now) \in Seq(T) /\ Ordered(Append(h, now)) /\ UpTo(Append(h, now), now)
  BY OrderedAppend DEF InWindow
<1>4. Append(v, now) \in Seq(T) /\ Len(Append(v, now)) = Len(v) + 1 /\ Len(v) \in Nat
  BY <1>1, AppendProperties, LenProperties
<1>. QED BY <1>2, <1>3, <1>4 DEF v, InWindow

\* Time only makes more of a history too old.
LEMMA KeptLater ==
  ASSUME NEW T \in SUBSET Int, NEW w, NEW h \in Seq(T), NEW now \in Int, InWindow(w, h, now)
  PROVE  InWindow(w, h, now + 1)
<1>1. /\ Len(h) \in Nat /\ \A i \in 1 .. Len(h) : h[i] \in Int
      /\ Window \in Nat
  BY LenProperties, ElementOfSeq, ToolBounds
<1>2. UpTo(h, now + 1)
  BY <1>1 DEF UpTo, InWindow
<1>3. Kept(w, h, now + 1)
  <2>1. PICK k \in 0 .. Len(h) : /\ Rest(w, h, k)
                                 /\ \A i \in 1 .. k : now - h[i] >= Window
    BY DEF Kept, InWindow
  <2>2. ASSUME NEW i \in 1 .. k PROVE (now + 1) - h[i] >= Window
    <3>1. h[i] \in Int /\ now - h[i] >= Window
      BY <1>1, <2>1
    <3>2. QED
      BY <1>1, <3>1
  <2>3. QED
    BY <2>1, <2>2 DEF Kept
<1>. QED BY <1>2, <1>3 DEF InWindow

-----------------------------------------------------------------------------
(* Tool calls                                                                *)

\* Each window is what is left of the history it stands for, and no tool's window
\* outgrows its limit.
ToolInv ==
  /\ Tool!TypeOK
  /\ InWindow(globalCallWindow, passed, clock)
  /\ \A t \in Tools : /\ InWindow(toolCallWindows[t], admitted[t], clock)
                      /\ Len(toolCallWindows[t]) <= MaxPerWindow

LEMMA ToolTypes ==
  ASSUME Tool!TypeOK
  PROVE  /\ clock \in Tool!Times /\ Tool!Times \subseteq Int
         /\ globalCallWindow \in Seq(Tool!Times) /\ passed \in Seq(Tool!Times)
         /\ \A t \in Tools : /\ toolCallWindows[t] \in Seq(Tool!Times)
                             /\ admitted[t] \in Seq(Tool!Times)
BY ToolBounds DEF Tool!TypeOK, Tool!Times

LEMMA ToolInit == Tool!Init => ToolInv
<1>. SUFFICES ASSUME Tool!Init PROVE ToolInv
  OBVIOUS
<1>1. \A T : <<>> \in Seq(T) /\ Len(<<>>) = 0
  BY EmptySeq
<1>2. InWindow(<<>>, <<>>, 0)
  BY <1>1 DEF InWindow, Ordered, UpTo, Kept, Rest
<1>3. Tool!TypeOK
  BY <1>1, ToolBounds DEF Tool!Init, Tool!TypeOK, Tool!Times, Tool!Verdicts
<1>. QED BY <1>1, <1>2, <1>3, ToolBounds DEF ToolInv, Tool!Init

\* checkGlobalRateLimit counts a call.
LEMMA GlobalCounted ==
  ASSUME ToolInv, Tool!PassGlobal
  PROVE  /\ globalCallWindow' \in Seq(Tool!Times) /\ passed' \in Seq(Tool!Times)
         /\ InWindow(globalCallWindow', passed', clock)
         /\ Room(passed, GlobalMax, clock) /\ passed' = Append(passed, clock)
<1>1. /\ clock \in Tool!Times /\ Tool!Times \subseteq Int /\ GlobalMax \in Nat
      /\ globalCallWindow \in Seq(Tool!Times) /\ passed \in Seq(Tool!Times)
      /\ InWindow(globalCallWindow, passed, clock)
  BY ToolTypes, ToolBounds DEF ToolInv
<1>2. /\ Len(Tool!Active(globalCallWindow, clock)) < GlobalMax
      /\ globalCallWindow' = Append(Tool!Active(globalCallWindow, clock), clock)
      /\ passed' = Append(passed, clock)
  BY DEF Tool!PassGlobal
<1>3. Room(passed, GlobalMax, clock)
  BY <1>1, <1>2, Pruned
<1>. QED BY <1>1, <1>2, <1>3, Counted

\* checkToolCallRateLimit counts a call.
LEMMA ToolCounted ==
  ASSUME ToolInv, NEW t \in Tools, Tool!PassTool(t)
  PROVE  /\ toolCallWindows' \in [Tools -> Seq(Tool!Times)]
         /\ admitted' \in [Tools -> Seq(Tool!Times)]
         /\ \A u \in Tools : /\ InWindow(toolCallWindows'[u], admitted'[u], clock)
                             /\ Len(toolCallWindows'[u]) <= MaxPerWindow
         /\ Room(admitted[t], MaxPerWindow, clock)
         /\ admitted'[t] = Append(admitted[t], clock)
         /\ \A u \in Tools \ {t} : admitted'[u] = admitted[u]
<1>. DEFINE w == toolCallWindows[t]
            h == admitted[t]
            v == Tool!Active(w, clock)
<1>1. /\ clock \in Tool!Times /\ Tool!Times \subseteq Int /\ MaxPerWindow \in Nat
      /\ w \in Seq(Tool!Times) /\ h \in Seq(Tool!Times) /\ InWindow(w, h, clock)
  BY ToolTypes, ToolBounds DEF ToolInv
<1>2. /\ toolCallWindows \in [Tools -> Seq(Tool!Times)]
      /\ admitted \in [Tools -> Seq(Tool!Times)]
  BY DEF ToolInv, Tool!TypeOK
<1>3. /\ Len(v) < MaxPerWindow
      /\ toolCallWindows' = [toolCallWindows EXCEPT ![t] = Append(v, clock)]
      /\ admitted' = [admitted EXCEPT ![t] = Append(h, clock)]
  BY DEF Tool!PassTool
<1>4. /\ Append(v, clock) \in Seq(Tool!Times) /\ Append(h, clock) \in Seq(Tool!Times)
      /\ InWindow(Append(v, clock), Append(h, clock), clock)
      /\ Len(Append(v, clock)) = Len(v) + 1 /\ Len(v) \in Nat
  <2>. HIDE DEF w, h
  <2>. QED BY <1>1, Counted
<1>5. Room(h, MaxPerWindow, clock)
  <2>. HIDE DEF w, h
  <2>. QED BY <1>1, <1>3, Pruned
<1>. HIDE DEF v
<1>6. \A u \in Tools : /\ InWindow(toolCallWindows'[u], admitted'[u], clock)
                       /\ Len(toolCallWindows'[u]) <= MaxPerWindow
  <2>1. SUFFICES ASSUME NEW u \in Tools
                 PROVE  /\ InWindow(toolCallWindows'[u], admitted'[u], clock)
                        /\ Len(toolCallWindows'[u]) <= MaxPerWindow
    OBVIOUS
  <2>2. CASE u = t
    <3>1. toolCallWindows'[u] = Append(v, clock) /\ admitted'[u] = Append(h, clock)
      BY <1>2, <1>3, <2>2
    <3>2. Len(Append(v, clock)) <= MaxPerWindow
      BY <1>1, <1>3, <1>4
    <3>. QED BY <1>4, <3>1, <3>2
  <2>3. CASE u # t
    <3>1. toolCallWindows'[u] = toolCallWindows[u] /\ admitted'[u] = admitted[u]
      BY <1>2, <1>3, <2>3
    <3>. QED BY <3>1 DEF ToolInv
  <2>. QED BY <2>2, <2>3
<1>. QED BY <1>2, <1>3, <1>4, <1>5, <1>6

LEMMA ToolKeeps ==
  ASSUME ToolInv, Tool!Next
  PROVE  ToolInv'
<1>. USE ToolBounds
<1>1. /\ clock \in 0 .. MaxClock /\ Tool!Times = 0 .. MaxClock
      /\ connectionStats \in [failures : 0 .. MaxFailures, lastAttempt : 0 .. MaxClock]
      /\ verdict \in Tool!Verdicts
      /\ globalCallWindow \in Seq(Tool!Times) /\ passed \in Seq(Tool!Times)
      /\ toolCallWindows \in [Tools -> Seq(Tool!Times)]
      /\ admitted \in [Tools -> Seq(Tool!Times)]
  BY DEF ToolInv, Tool!TypeOK, Tool!Times
<1>2. CASE Tool!GlobalLimited
  <2>1. /\ globalCallWindow' = Tool!Active(globalCallWindow, clock) /\ verdict' = "globalLimit"
        /\ UNCHANGED <<clock, toolCallWindows, connectionStats, passed, admitted>>
    BY <1>2 DEF Tool!GlobalLimited
  <2>2. /\ globalCallWindow' \in Seq(Tool!Times)
        /\ InWindow(globalCallWindow', passed, clock)
    BY <2>1, Pruned, ToolTypes DEF ToolInv
  <2>3. Tool!TypeOK'
    BY <1>1, <2>1, <2>2 DEF Tool!TypeOK, Tool!Times, Tool!Verdicts
  <2>. QED BY <2>1, <2>2, <2>3 DEF ToolInv
<1>3. ASSUME NEW t \in Tools, Tool!ToolLimited(t) PROVE ToolInv'
  <2>1. /\ Tool!PassGlobal /\ verdict' = "toolLimit"
        /\ UNCHANGED <<clock, toolCallWindows, connectionStats, admitted>>
    BY <1>3 DEF Tool!ToolLimited
  <2>2. Tool!TypeOK'
    BY <1>1, <2>1, GlobalCounted DEF Tool!TypeOK, Tool!Times, Tool!Verdicts
  <2>. QED BY <2>1, <2>2, GlobalCounted DEF ToolInv
<1>4. ASSUME NEW t \in Tools, Tool!Invalid(t) \/ Tool!Malformed(t) \/ Tool!Logic(t) PROVE ToolInv'
  <2>1. Tool!PassTool(t)
    BY <1>4 DEF Tool!Invalid, Tool!Malformed, Tool!Logic
  <2>2. clock' = clock /\ Tool!PassGlobal
    BY <2>1 DEF Tool!PassTool
  <2>3. connectionStats' \in [failures : 0 .. MaxFailures, lastAttempt : 0 .. MaxClock]
    BY <1>1, <1>4 DEF Tool!Invalid, Tool!Malformed, Tool!Logic
  <2>4. verdict' \in Tool!Verdicts
    BY <1>4 DEF Tool!Invalid, Tool!Malformed, Tool!Logic, Tool!Verdicts
  <2>5. /\ toolCallWindows' \in [Tools -> Seq(Tool!Times)]
        /\ admitted' \in [Tools -> Seq(Tool!Times)]
        /\ \A u \in Tools : /\ InWindow(toolCallWindows'[u], admitted'[u], clock)
                            /\ Len(toolCallWindows'[u]) <= MaxPerWindow
    BY <2>1, ToolCounted
  <2>6. Tool!TypeOK'
    BY <1>1, <2>2, <2>3, <2>4, <2>5, GlobalCounted DEF Tool!TypeOK, Tool!Times
  <2>. QED BY <2>2, <2>5, <2>6, GlobalCounted DEF ToolInv
<1>5. CASE Tool!Tick
  <2>1. /\ clock' = clock + 1 /\ clock' \in 0 .. MaxClock
        /\ UNCHANGED <<globalCallWindow, toolCallWindows, connectionStats, verdict, passed,
                       admitted>>
    BY <1>1, <1>5 DEF Tool!Tick
  <2>2. Tool!TypeOK'
    BY <1>1, <2>1 DEF Tool!TypeOK, Tool!Times
  <2>3. InWindow(globalCallWindow', passed', clock')
    BY <1>1, <2>1, KeptLater DEF ToolInv
  <2>4. ASSUME NEW t \in Tools PROVE InWindow(toolCallWindows'[t], admitted'[t], clock')
    BY <1>1, <2>1, KeptLater DEF ToolInv
  <2>. QED BY <2>1, <2>2, <2>3, <2>4 DEF ToolInv
<1>. QED BY <1>2, <1>3, <1>4, <1>5 DEF Tool!Next

\* Every step of callTool is a step of the sliding window over all tools.
LEMMA GlobalSlides ==
  ASSUME ToolInv, Tool!Next
  PROVE  Tool!Global!Next \/ UNCHANGED <<clock, passed>>
<1>1. CASE Tool!PassGlobal /\ UNCHANGED clock
  BY <1>1, GlobalCounted DEF Tool!Global!Next, Tool!Global!Admit, Tool!Global!HasRoom, Room
<1>2. CASE Tool!Tick
  BY <1>2 DEF Tool!Tick, Tool!Global!Next, Tool!Global!Tick
<1>3. CASE Tool!GlobalLimited
  BY <1>3 DEF Tool!GlobalLimited
<1>4. ASSUME NEW t \in Tools,
             Tool!ToolLimited(t) \/ Tool!Invalid(t) \/ Tool!Malformed(t) \/ Tool!Logic(t)
      PROVE  Tool!PassGlobal /\ UNCHANGED clock
  BY <1>4 DEF Tool!ToolLimited, Tool!Invalid, Tool!Malformed, Tool!Logic, Tool!PassTool
<1>. QED BY <1>1, <1>2, <1>3, <1>4 DEF Tool!Next

\* And of the sliding window of any one tool.
LEMMA ToolSlides ==
  ASSUME ToolInv, Tool!Next, NEW t \in Tools
  PROVE  Tool!Tool(t)!Next \/ UNCHANGED <<clock, admitted[t]>>
<1>1. CASE Tool!PassTool(t)
  <2>1. clock' = clock
    BY <1>1 DEF Tool!PassTool
  <2>. QED BY <1>1, <2>1, ToolCounted
          DEF Tool!Tool!Next, Tool!Tool!Admit, Tool!Tool!HasRoom, Room
<1>2. ASSUME NEW u \in Tools \ {t}, Tool!PassTool(u) PROVE UNCHANGED <<clock, admitted[t]>>
  BY <1>2, ToolCounted DEF Tool!PassTool
<1>3. CASE Tool!Tick
  BY <1>3 DEF Tool!Tick, Tool!Tool!Next, Tool!Tool!Tick
<1>4. CASE Tool!GlobalLimited
  BY <1>4 DEF Tool!GlobalLimited
<1>5. ASSUME NEW u \in Tools, Tool!ToolLimited(u) PROVE UNCHANGED <<clock, admitted[t]>>
  BY <1>5 DEF Tool!ToolLimited
<1>6. ASSUME NEW u \in Tools, Tool!Invalid(u) \/ Tool!Malformed(u) \/ Tool!Logic(u)
      PROVE  Tool!PassTool(u)
  BY <1>6 DEF Tool!Invalid, Tool!Malformed, Tool!Logic
<1>. QED BY <1>1, <1>2, <1>3, <1>4, <1>5, <1>6 DEF Tool!Next

\* A full window has room again when its oldest call is too old, and not before.
LEMMA OldestFrees ==
  ASSUME ToolInv, NEW t \in Tools, Tool!Full(toolCallWindows[t], MaxPerWindow, clock)
  PROVE  LET free == Tool!Active(toolCallWindows[t], clock)[1] + Window IN
           /\ ~Tool!Full(toolCallWindows[t], MaxPerWindow, free)
           /\ Tool!Full(toolCallWindows[t], MaxPerWindow, free - 1)
<1>. DEFINE w == toolCallWindows[t]
            n == MaxPerWindow
<1>1. /\ w \in Seq(Tool!Times) /\ Len(w) \in Nat /\ \A i \in 1 .. Len(w) : w[i] \in Int
      /\ Tool!Times \subseteq Int /\ clock \in Int /\ n \in Nat \ {0} /\ Window \in Nat \ {0}
      /\ Len(w) <= n
  <2>1. w \in Seq(Tool!Times) /\ Tool!Times \subseteq Int /\ clock \in Int /\ Len(w) <= n
    BY ToolTypes DEF ToolInv
  <2>. HIDE DEF w
  <2>. QED BY <2>1, LenProperties, ElementOfSeq, ToolBounds
<1>2. Ordered(w)
  <2>1. InWindow(w, admitted[t], clock) /\ admitted[t] \in Seq(Tool!Times)
    BY ToolTypes DEF ToolInv
  <2>2. Len(admitted[t]) \in Nat
    BY <2>1, LenProperties
  <2>. HIDE DEF w
  <2>. QED BY <1>1, <2>1, <2>2 DEF InWindow, Kept, Rest, Ordered
<1>. HIDE DEF w
<1>3. ASSUME NEW now \in Int
      PROVE  \E k \in 0 .. Len(w) :
               /\ Len(Tool!Active(w, now)) = Len(w) - k
               /\ k = 0 => \A i \in 1 .. Len(w) : Tool!Active(w, now)[i] = w[i]
               /\ \A i \in 1 .. k : now - w[i] >= Window
               /\ \A i \in (k + 1) .. Len(w) : now - w[i] < Window
  <2>1. PICK k \in 0 .. Len(w) :
              /\ Rest(Tool!Active(w, now), w, k)
              /\ \A i \in 1 .. k : now - w[i] >= Window
              /\ \A i \in (k + 1) .. Len(w) : now - w[i] < Window
    BY <1>1, <1>2, ActiveIsRest
  <2>2. Len(Tool!Active(w, now)) = Len(w) - k
    BY <2>1 DEF Rest
  <2>3. k = 0 => \A i \in 1 .. Len(w) : Tool!Active(w, now)[i] = w[i]
    BY <1>1, <2>1 DEF Rest
  <2>. QED BY <2>1, <2>2, <2>3
<1>4. Len(Tool!Active(w, clock)) >= n
  BY DEF Tool!Full, w
<1>5. Len(w) = n /\ Tool!Active(w, clock)[1] = w[1]
  <2>1. PICK k \in 0 .. Len(w) :
               /\ Len(Tool!Active(w, clock)) = Len(w) - k
               /\ k = 0 => \A i \in 1 .. Len(w) : Tool!Active(w, clock)[i] = w[i]
    BY <1>1, <1>3
  <2>2. k = 0 /\ Len(w) = n
    BY <1>1, <1>4, <2>1
  <2>. QED BY <1>1, <2>1, <2>2
<1>. DEFINE free == w[1] + Window
<1>6. free \in Int /\ w[1] \in Int /\ 1 \in 1 .. Len(w)
  BY <1>1, <1>5
<1>7. Len(Tool!Active(w, free)) < n
  <2>1. PICK k \in 0 .. Len(w) :
               /\ Len(Tool!Active(w, free)) = Len(w) - k
               /\ \A i \in (k + 1) .. Len(w) : free - w[i] < Window
    BY <1>3, <1>6
  <2>2. k # 0
    BY <1>1, <1>6, <2>1
  <2>. QED BY <1>1, <1>5, <2>1, <2>2
<1>8. Len(Tool!Active(w, free - 1)) >= n
  <2>1. free - 1 \in Int
    BY <1>6
  <2>2. PICK k \in 0 .. Len(w) :
               /\ Len(Tool!Active(w, free - 1)) = Len(w) - k
               /\ \A i \in 1 .. k : free - 1 - w[i] >= Window
    BY <1>3, <2>1
  <2>3. k = 0
    BY <1>1, <1>6, <2>2
  <2>. QED BY <1>1, <1>5, <2>2, <2>3
<1>9. Len(Tool!Active(w, free)) \in Nat
  BY <1>1, <1>2, <1>6, ActiveIsRest, LenProperties
<1>. QED BY <1>1, <1>5, <1>7, <1>8, <1>9 DEF Tool!Full, w

-----------------------------------------------------------------------------
(* The gateway's fixed windows                                               *)

\* The last calls of h, at most n of them, reach back to a time after `since`.
Few(h, n, since) == \E k \in 0 .. Len(h) : Len(h) - k <= n /\ \A i \in 1 .. k : h[i] <= since

\* With no record open: the calls that could still count are no more than one limit, and
\* all are over. With one: it has counted the calls since it was opened, and no more
\* than a limit went before them in the window that ended there.
ClientInv(h, r, now) ==
  /\ UpTo(h, now)
  /\ r = Rate!NoRecord =>
       /\ Few(h, maxRequests, now - windowMs)
       /\ \A i \in 1 .. Len(h) : h[i] < now
  /\ r # Rate!NoRecord =>
       /\ r.count >= 1 /\ r.resetTime - windowMs \in 0 .. now
       /\ \A i \in 1 .. Len(h) : h[i] < r.resetTime
       /\ \E j \in 0 .. Len(h), k \in 0 .. Len(h) :
            /\ k <= j
            /\ Len(h) - j <= r.count
            /\ \A i \in 1 .. j : h[i] < r.resetTime - windowMs
            /\ j - k <= maxRequests
            /\ \A i \in 1 .. k : h[i] <= r.resetTime - 2 * windowMs

RateInv == Rate!TypeOK /\ \A k \in Keys : ClientInv(allowed[k], records[k], rateClock)

LEMMA RateTypes ==
  ASSUME Rate!TypeOK
  PROVE  /\ rateClock \in 0 .. MaxClock /\ rateTimer \in 0 .. (MaxClock + CleanupMs)
         /\ records \in [Keys -> [count : 0 .. maxRequests,
                                  resetTime : -1 .. (MaxClock + windowMs)]]
         /\ allowed \in [Keys -> Seq(0 .. MaxClock)]
         /\ Rate!NoRecord \in [count : 0 .. maxRequests,
                               resetTime : -1 .. (MaxClock + windowMs)]
         /\ \A k \in Keys : /\ Len(allowed[k]) \in Nat
                            /\ \A i \in 1 .. Len(allowed[k]) : allowed[k][i] \in 0 .. MaxClock
<1>1. Rate!NoRecord \in [count : 0 .. maxRequests, resetTime : -1 .. (MaxClock + windowMs)]
  BY RateBounds DEF Rate!NoRecord
<1>2. allowed \in [Keys -> Seq(0 .. MaxClock)]
  BY DEF Rate!TypeOK
<1>3. ASSUME NEW k \in Keys
      PROVE  /\ Len(allowed[k]) \in Nat
             /\ \A i \in 1 .. Len(allowed[k]) : allowed[k][i] \in 0 .. MaxClock
  <2>1. allowed[k] \in Seq(0 .. MaxClock)
    BY <1>2
  <2>. QED BY <2>1, LenProperties, ElementOfSeq
<1>. QED BY <1>1, <1>2, <1>3 DEF Rate!TypeOK

LEMMA FreshClient ==
  ASSUME rateClock \in Nat
  PROVE  ClientInv(<<>>, Rate!NoRecord, rateClock)
<1>1. Len(<<>>) = 0 /\ <<>> \in Seq(Nat)
  BY EmptySeq
<1>2. Few(<<>>, maxRequests, rateClock - windowMs)
  BY <1>1, RateBounds DEF Few
<1>3. UpTo(<<>>, rateClock) /\ \A i \in 1 .. Len(<<>>) : <<>>[i] < rateClock
  BY <1>1 DEF UpTo
<1>. QED BY <1>2, <1>3 DEF ClientInv

LEMMA RateInit == Rate!Init => RateInv
<1>. SUFFICES ASSUME Rate!Init PROVE RateInv
  OBVIOUS
<1>1. Rate!TypeOK
  <2>1. Rate!NoRecord \in [count : 0 .. maxRequests, resetTime : -1 .. (MaxClock + windowMs)]
    BY RateBounds DEF Rate!NoRecord
  <2>2. <<>> \in Seq(0 .. MaxClock)
    BY EmptySeq
  <2>. QED BY <2>1, <2>2, RateBounds DEF Rate!Init, Rate!TypeOK
<1>2. ASSUME NEW k \in Keys PROVE allowed[k] = <<>> /\ records[k] = Rate!NoRecord
  BY DEF Rate!Init
<1>3. rateClock \in Nat
  BY DEF Rate!Init
<1>. QED BY <1>1, <1>2, <1>3, FreshClient DEF RateInv

\* A window may be opened: at most a limit of calls counts against twice the limit.
LEMMA OpenFacts ==
  ASSUME RateInv, NEW k \in Keys, Rate!Stale(records[k])
  PROVE  /\ Few(allowed[k], maxRequests, rateClock - windowMs)
         /\ \A i \in 1 .. Len(allowed[k]) : allowed[k][i] < rateClock
<1>. DEFINE h == allowed[k]
            r == records[k]
<1>1. /\ ClientInv(h, r, rateClock) /\ Len(h) \in Nat /\ \A i \in 1 .. Len(h) : h[i] \in 0 .. MaxClock
      /\ r \in [count : 0 .. maxRequests, resetTime : -1 .. (MaxClock + windowMs)]
      /\ rateClock \in 0 .. MaxClock
      /\ maxRequests \in Nat \ {0} /\ windowMs \in Nat \ {0} /\ MaxClock \in Nat
  BY RateTypes, RateBounds DEF RateInv
<1>2. r = Rate!NoRecord \/ rateClock >= r.resetTime
  BY DEF Rate!Stale
<1>. HIDE DEF h, r
<1>3. CASE r = Rate!NoRecord
  BY <1>1, <1>3 DEF ClientInv, h
<1>4. CASE r # Rate!NoRecord
  <2>1. PICK j \in 0 .. Len(h) : /\ Len(h) - j <= r.count
                                 /\ \A i \in 1 .. j : h[i] < r.resetTime - windowMs
    BY <1>1, <1>4 DEF ClientInv
  <2>2. r.count \in 0 .. maxRequests /\ r.resetTime \in Int /\ rateClock >= r.resetTime
    BY <1>1, <1>2, <1>4
  <2>3. Len(h) - j <= maxRequests
    BY <1>1, <2>1, <2>2
  <2>4. ASSUME NEW i \in 1 .. j PROVE h[i] <= rateClock - windowMs
    <3>1. h[i] \in Int /\ h[i] < r.resetTime - windowMs
      BY <1>1, <2>1
    <3>2. windowMs \in Int /\ rateClock \in Int
      BY <1>1
    <3>. QED BY <2>2, <3>1, <3>2
  <2>5. \A i \in 1 .. Len(h) : h[i] < rateClock
    <3>1. \A i \in 1 .. Len(h) : h[i] < r.resetTime
      BY <1>1, <1>4 DEF ClientInv
    <3>2. \A i \in 1 .. Len(h) : h[i] \in Int
      BY <1>1
    <3>. QED BY <1>1, <2>2, <3>1, <3>2
  <2>6. Few(h, maxRequests, rateClock - windowMs)
    BY <2>3, <2>4 DEF Few
  <2>. QED BY <2>5, <2>6 DEF h
<1>. QED BY <1>3, <1>4

\* A call appended to a history.
LEMMA Appending ==
  ASSUME NEW k \in Keys, Rate!TypeOK, NEW n, n = Len(allowed[k])
  PROVE  LET z == Append(allowed[k], rateClock) IN
         /\ z \in Seq(0 .. MaxClock) /\ Len(z) = n + 1 /\ n \in Nat
         /\ \A i \in 1 .. n : z[i] = allowed[k][i] /\ z[i] \in 0 .. MaxClock
         /\ z[n + 1] = rateClock
<1>1. allowed[k] \in Seq(0 .. MaxClock) /\ rateClock \in 0 .. MaxClock
  BY RateTypes
<1>. DEFINE h == allowed[k]
            z == Append(h, rateClock)
<1>2. /\ z \in Seq(0 .. MaxClock) /\ Len(z) = Len(h) + 1
      /\ \A i \in 1 .. Len(h) : z[i] = h[i]
      /\ z[Len(h) + 1] = rateClock
  BY <1>1, AppendProperties
<1>3. Len(h) \in Nat /\ \A i \in 1 .. Len(h) : h[i] \in 0 .. MaxClock
  BY <1>1, LenProperties, ElementOfSeq
<1>. QED BY <1>2, <1>3

LEMMA OpenKeeps ==
  ASSUME RateInv, NEW k \in Keys, Rate!Open(k)
  PROVE  RateInv'
<1>. DEFINE h == allowed[k]
            z == Append(h, rateClock)
            r == [count |-> 1, resetTime |-> rateClock + windowMs]
<1>1. /\ rateClock \in 0 .. MaxClock /\ maxRequests \in Nat \ {0} /\ windowMs \in Nat \ {0}
      /\ MaxClock \in Nat
  BY RateTypes, RateBounds DEF RateInv
<1>2. /\ records' = [records EXCEPT ![k] = r] /\ allowed' = [allowed EXCEPT ![k] = z]
      /\ UNCHANGED <<rateClock, rateTimer>> /\ Rate!Stale(records[k])
  BY DEF Rate!Open, Rate!Let
<1>3. /\ z \in Seq(0 .. MaxClock) /\ Len(z) = Len(h) + 1 /\ Len(h) \in Nat
      /\ \A i \in 1 .. Len(h) : z[i] = h[i] /\ z[i] \in 0 .. MaxClock
      /\ z[Len(h) + 1] = rateClock
  BY Appending DEF RateInv
<1>4. r \in [count : 0 .. maxRequests, resetTime : -1 .. (MaxClock + windowMs)]
  BY <1>1
<1>5. Rate!TypeOK'
  BY <1>2, <1>3, <1>4, RateTypes DEF RateInv, Rate!TypeOK
<1>6. r # Rate!NoRecord /\ r.count = 1 /\ r.resetTime = rateClock + windowMs
  BY <1>1 DEF Rate!NoRecord
<1>7. /\ Few(h, maxRequests, rateClock - windowMs)
      /\ \A i \in 1 .. Len(h) : h[i] < rateClock
  BY <1>2, OpenFacts
<1>. HIDE DEF h, z, r
<1>8. ClientInv(z, r, rateClock)
  <2>1. PICK m \in 0 .. Len(h) : /\ Len(h) - m <= maxRequests
                                 /\ \A i \in 1 .. m : h[i] <= rateClock - windowMs
    BY <1>7 DEF Few
  <2>2. UpTo(z, rateClock)
    BY <1>1, <1>3, <1>7 DEF UpTo
  <2>3. \A i \in 1 .. Len(z) : z[i] < r.resetTime
    BY <1>1, <1>3, <1>6, <2>2 DEF UpTo
  <2>4. m <= Len(h) /\ Len(z) - Len(h) <= r.count /\ Len(h) - m <= maxRequests
    BY <1>1, <1>3, <1>6, <2>1
  <2>5. r.resetTime - windowMs = rateClock /\ r.resetTime - 2 * windowMs = rateClock - windowMs
    BY <1>1, <1>6
  <2>6. \A i \in 1 .. Len(h) : z[i] < r.resetTime - windowMs
    BY <1>3, <1>7, <2>5
  <2>7. \A i \in 1 .. m : z[i] <= r.resetTime - 2 * windowMs
    BY <1>3, <2>1, <2>5
  <2>8. Len(h) \in 0 .. Len(z) /\ m \in 0 .. Len(z)
    BY <1>3
  <2>9. r.count >= 1 /\ r.resetTime - windowMs \in 0 .. rateClock
    BY <1>1, <1>6
  <2>. QED BY <1>6, <2>2, <2>3, <2>4, <2>6, <2>7, <2>8, <2>9 DEF ClientInv
<1>9. ASSUME NEW q \in Keys PROVE ClientInv(allowed'[q], records'[q], rateClock)
  <2>1. CASE q = k
    BY <1>2, <1>8, <2>1, RateTypes DEF RateInv
  <2>2. CASE q # k
    <3>1. allowed'[q] = allowed[q] /\ records'[q] = records[q]
      BY <1>2, <2>2, RateTypes DEF RateInv
    <3>. QED BY <3>1 DEF RateInv
  <2>. QED BY <2>1, <2>2
<1>10. rateClock' = rateClock
  BY <1>2
<1>. QED BY <1>5, <1>9, <1>10 DEF RateInv

LEMMA AdmitKeeps ==
  ASSUME RateInv, NEW k \in Keys, Rate!Admit(k)
  PROVE  RateInv'
<1>. DEFINE h == allowed[k]
            z == Append(h, rateClock)
            r == records[k]
            s == [r EXCEPT !.count = @ + 1]
<1>1. /\ rateClock \in 0 .. MaxClock /\ maxRequests \in Nat \ {0} /\ windowMs \in Nat \ {0}
      /\ MaxClock \in Nat
  BY RateTypes, RateBounds DEF RateInv
<1>2. /\ records' = [records EXCEPT ![k] = s] /\ allowed' = [allowed EXCEPT ![k] = z]
      /\ UNCHANGED <<rateClock, rateTimer>> /\ r.count < maxRequests
      /\ r # Rate!NoRecord /\ ~ (rateClock >= r.resetTime)
  BY RateTypes DEF RateInv, Rate!Admit, Rate!Let, Rate!Stale
<1>3. /\ z \in Seq(0 .. MaxClock) /\ Len(z) = Len(h) + 1 /\ Len(h) \in Nat
      /\ \A i \in 1 .. Len(h) : z[i] = h[i] /\ z[i] \in 0 .. MaxClock
      /\ z[Len(h) + 1] = rateClock
  BY Appending DEF RateInv
<1>4. /\ r \in [count : 0 .. maxRequests, resetTime : -1 .. (MaxClock + windowMs)]
      /\ ClientInv(h, r, rateClock)
  BY RateTypes DEF RateInv
<1>5. /\ s \in [count : 0 .. maxRequests, resetTime : -1 .. (MaxClock + windowMs)]
      /\ s.count = r.count + 1 /\ s.resetTime = r.resetTime
  BY <1>1, <1>2, <1>4
<1>6. Rate!TypeOK'
  BY <1>2, <1>3, <1>5, RateTypes DEF RateInv, Rate!TypeOK
<1>. HIDE DEF h, z, r, s
<1>7. r.count \in 0 .. maxRequests /\ r.count >= 1 /\ r.resetTime \in Int
  BY <1>2, <1>4 DEF ClientInv
<1>8. s # Rate!NoRecord
  BY <1>5, <1>7 DEF Rate!NoRecord
<1>9. ClientInv(z, s, rateClock)
  <2>1. PICK j \in 0 .. Len(h), m \in 0 .. Len(h) :
               /\ m <= j /\ Len(h) - j <= r.count
               /\ \A i \in 1 .. j : h[i] < r.resetTime - windowMs
               /\ j - m <= maxRequests
               /\ \A i \in 1 .. m : h[i] <= r.resetTime - 2 * windowMs
    BY <1>2, <1>4 DEF ClientInv
  <2>2. UpTo(z, rateClock)
    <3>1. UpTo(h, rateClock)
      BY <1>4 DEF ClientInv
    <3>2. ASSUME NEW i \in 1 .. Len(z) PROVE z[i] <= rateClock
      <4>1. CASE i \in 1 .. Len(h)
        BY <1>3, <3>1, <4>1 DEF UpTo
      <4>2. CASE i = Len(h) + 1
        BY <1>1, <1>3, <4>2
      <4>. QED BY <1>3, <4>1, <4>2
    <3>. QED BY <3>2 DEF UpTo
  <2>3. \A i \in 1 .. Len(z) : z[i] < s.resetTime
    BY <1>1, <1>2, <1>3, <1>5, <1>7, <2>2 DEF UpTo
  <2>4. Len(z) - j <= s.count /\ j \in 0 .. Len(z) /\ m \in 0 .. Len(z)
    BY <1>3, <1>5, <1>7, <2>1
  <2>5. /\ \A i \in 1 .. j : z[i] < s.resetTime - windowMs
        /\ \A i \in 1 .. m : z[i] <= s.resetTime - 2 * windowMs
    <3>1. \A i \in 1 .. Len(h) : z[i] = h[i]
      BY <1>3
    <3>2. 1 .. j \subseteq 1 .. Len(h) /\ 1 .. m \subseteq 1 .. Len(h)
      BY <1>3
    <3>. QED BY <1>5, <2>1, <3>1, <3>2
  <2>6. s.count >= 1 /\ s.resetTime - windowMs \in 0 .. rateClock
    BY <1>2, <1>4, <1>5, <1>7 DEF ClientInv
  <2>. QED BY <1>8, <2>1, <2>2, <2>3, <2>4, <2>5, <2>6 DEF ClientInv
<1>10. ASSUME NEW q \in Keys PROVE ClientInv(allowed'[q], records'[q], rateClock)
  <2>1. CASE q = k
    BY <1>2, <1>9, <2>1, RateTypes DEF RateInv
  <2>2. CASE q # k
    <3>1. allowed'[q] = allowed[q] /\ records'[q] = records[q]
      BY <1>2, <2>2, RateTypes DEF RateInv
    <3>. QED BY <3>1 DEF RateInv
  <2>. QED BY <2>1, <2>2
<1>11. rateClock' = rateClock
  BY <1>2
<1>. QED BY <1>6, <1>10, <1>11 DEF RateInv

\* Dropping a record whose window is over changes nothing for its client.
LEMMA DroppedClient ==
  ASSUME RateInv, NEW k \in Keys, Rate!Stale(records[k])
  PROVE  ClientInv(allowed[k], Rate!NoRecord, rateClock)
<1>1. UpTo(allowed[k], rateClock)
  BY DEF RateInv, ClientInv
<1>. QED BY <1>1, OpenFacts DEF ClientInv

LEMMA RateKeeps ==
  ASSUME RateInv, Rate!Next
  PROVE  RateInv'
<1>0. /\ rateClock \in 0 .. MaxClock /\ windowMs \in Nat \ {0} /\ maxRequests \in Nat \ {0}
      /\ MaxClock \in Nat /\ CleanupMs \in Nat /\ rateClock \in Nat
  BY RateTypes, RateBounds DEF RateInv
<1>1. ASSUME NEW k \in Keys, Rate!Reset(k) PROVE RateInv'
  <2>1. /\ records' = [records EXCEPT ![k] = Rate!NoRecord]
        /\ allowed' = [allowed EXCEPT ![k] = <<>>]
        /\ UNCHANGED <<rateClock, rateTimer>>
    BY <1>1 DEF Rate!Reset
  <2>2. Rate!TypeOK'
    <3>1. <<>> \in Seq(0 .. MaxClock)
      BY EmptySeq
    <3>. QED BY <2>1, <3>1, RateTypes DEF RateInv, Rate!TypeOK
  <2>3. ASSUME NEW q \in Keys PROVE ClientInv(allowed'[q], records'[q], rateClock)
    <3>1. CASE q = k
      BY <1>0, <2>1, <3>1, FreshClient, RateTypes DEF RateInv
    <3>2. CASE q # k
      <4>1. allowed'[q] = allowed[q] /\ records'[q] = records[q]
        BY <2>1, <3>2, RateTypes DEF RateInv
      <4>. QED BY <4>1 DEF RateInv
    <3>. QED BY <3>1, <3>2
  <2>. QED BY <2>1, <2>2, <2>3 DEF RateInv
<1>2. CASE Rate!Cleanup
  <2>1. /\ records' = [k \in Keys |-> IF Rate!Stale(records[k]) THEN Rate!NoRecord
                                                                ELSE records[k]]
        /\ rateTimer' = rateClock + CleanupMs /\ UNCHANGED <<rateClock, allowed>>
    BY <1>2 DEF Rate!Cleanup
  <2>2. Rate!TypeOK'
    BY <1>0, <2>1, RateTypes DEF RateInv, Rate!TypeOK
  <2>3. ASSUME NEW q \in Keys PROVE ClientInv(allowed'[q], records'[q], rateClock)
    BY <2>1, DroppedClient DEF RateInv
  <2>. QED BY <2>1, <2>2, <2>3 DEF RateInv
<1>3. CASE Rate!Close
  <2>1. /\ records' = [k \in Keys |-> Rate!NoRecord] /\ allowed' = [k \in Keys |-> <<>>]
        /\ rateTimer' = 0 /\ UNCHANGED rateClock
    BY <1>3 DEF Rate!Close
  <2>2. Rate!TypeOK'
    <3>1. <<>> \in Seq(0 .. MaxClock)
      BY EmptySeq
    <3>. QED BY <1>0, <2>1, <3>1, RateTypes DEF RateInv, Rate!TypeOK
  <2>3. ASSUME NEW q \in Keys PROVE ClientInv(allowed'[q], records'[q], rateClock)
    BY <1>0, <2>1, FreshClient
  <2>. QED BY <2>1, <2>2, <2>3 DEF RateInv
<1>4. CASE Rate!Tick
  <2>1. /\ rateClock' = rateClock + 1 /\ rateClock < MaxClock
        /\ UNCHANGED <<records, rateTimer, allowed>>
    BY <1>4 DEF Rate!Tick
  <2>2. Rate!TypeOK'
    BY <1>0, <2>1, RateTypes DEF RateInv, Rate!TypeOK
  <2>3. ASSUME NEW q \in Keys PROVE ClientInv(allowed[q], records[q], rateClock + 1)
    <3>. DEFINE h == allowed[q]
                r == records[q]
    <3>1. /\ ClientInv(h, r, rateClock) /\ Len(h) \in Nat /\ \A i \in 1 .. Len(h) : h[i] \in 0 .. MaxClock
          /\ r.resetTime \in Int
      BY RateTypes DEF RateInv
    <3>. HIDE DEF h, r
    <3>2. \A i \in 1 .. Len(h) : h[i] <= rateClock + 1
      BY <1>0, <3>1 DEF ClientInv, UpTo
    <3>3. r = Rate!NoRecord =>
            /\ Few(h, maxRequests, (rateClock + 1) - windowMs)
            /\ \A i \in 1 .. Len(h) : h[i] < rateClock + 1
      <4>1. SUFFICES ASSUME r = Rate!NoRecord
                     PROVE  /\ Few(h, maxRequests, (rateClock + 1) - windowMs)
                            /\ \A i \in 1 .. Len(h) : h[i] < rateClock + 1
        OBVIOUS
      <4>2. PICK m \in 0 .. Len(h) : /\ Len(h) - m <= maxRequests
                                     /\ \A i \in 1 .. m : h[i] <= rateClock - windowMs
        BY <3>1, <4>1 DEF ClientInv, Few
      <4>3. ASSUME NEW i \in 1 .. m PROVE h[i] <= (rateClock + 1) - windowMs
        <5>1. h[i] \in Int /\ h[i] <= rateClock - windowMs
          BY <3>1, <4>2
        <5>. QED BY <1>0, <5>1
      <4>4. \A i \in 1 .. Len(h) : h[i] < rateClock + 1
        BY <1>0, <3>1, <4>1 DEF ClientInv
      <4>. QED BY <4>2, <4>3, <4>4 DEF Few
    <3>4. r # Rate!NoRecord => r.resetTime - windowMs \in 0 .. (rateClock + 1)
      BY <1>0, <3>1 DEF ClientInv
    <3>5. r # Rate!NoRecord =>
            /\ r.count >= 1
            /\ \A i \in 1 .. Len(h) : h[i] < r.resetTime
            /\ \E j \in 0 .. Len(h), m \in 0 .. Len(h) :
                 /\ m <= j
                 /\ Len(h) - j <= r.count
                 /\ \A i \in 1 .. j : h[i] < r.resetTime - windowMs
                 /\ j - m <= maxRequests
                 /\ \A i \in 1 .. m : h[i] <= r.resetTime - 2 * windowMs
      BY <3>1 DEF ClientInv
    <3>. DEFINE later == rateClock + 1
    <3>6. UpTo(h, later)
      BY <3>2 DEF UpTo
    <3>7. r = Rate!NoRecord => /\ Few(h, maxRequests, later - windowMs)
                              /\ \A i \in 1 .. Len(h) : h[i] < later
      BY <3>3
    <3>8. r # Rate!NoRecord => r.resetTime - windowMs \in 0 .. later
      BY <3>4
    <3>. HIDE DEF later
    <3>9. ClientInv(h, r, later)
      BY <3>5, <3>6, <3>7, <3>8 DEF ClientInv
    <3>. QED BY <3>9 DEF h, r, later
  <2>. QED BY <2>1, <2>2, <2>3 DEF RateInv
<1>. QED BY <1>1, <1>2, <1>3, <1>4, OpenKeeps, AdmitKeeps DEF Rate!Next

\* Every step of the limiter is a step of a sliding window with twice its limit.
LEMMA RateSlides ==
  ASSUME RateInv, Rate!Next, NEW k \in Keys
  PROVE  Rate!Any(k, 2 * maxRequests)!Next \/ UNCHANGED <<rateClock, allowed[k]>>
<1>. DEFINE h == allowed[k]
            r == records[k]
            Allowing == /\ \E m \in 0 .. Len(h) :
                             /\ Len(h) - m < 2 * maxRequests
                             /\ \A i \in 1 .. m : rateClock - h[i] >= windowMs
                        /\ allowed'[k] = Append(h, rateClock) /\ UNCHANGED rateClock
<1>0. /\ rateClock \in 0 .. MaxClock /\ windowMs \in Nat \ {0} /\ maxRequests \in Nat \ {0}
      /\ MaxClock \in Nat /\ Len(h) \in Nat /\ \A i \in 1 .. Len(h) : h[i] \in 0 .. MaxClock
      /\ r \in [count : 0 .. maxRequests, resetTime : -1 .. (MaxClock + windowMs)]
      /\ allowed \in [Keys -> Seq(0 .. MaxClock)]
  BY RateTypes, RateBounds DEF RateInv
<1>1. CASE Allowing
  BY <1>1 DEF Rate!Any!Next, Rate!Any!Admit, Rate!Any!HasRoom
<1>2. CASE allowed'[k] = <<>> /\ UNCHANGED rateClock
  BY <1>2 DEF Rate!Any!Next, Rate!Any!Lift
<1>3. CASE Rate!Tick
  BY <1>3 DEF Rate!Tick, Rate!Any!Next, Rate!Any!Tick
<1>4. CASE Rate!Cleanup
  BY <1>4 DEF Rate!Cleanup
<1>5. CASE Rate!Close
  BY <1>2, <1>5 DEF Rate!Close
<1>6. ASSUME NEW q \in Keys \ {k}, Rate!Open(q) \/ Rate!Admit(q) \/ Rate!Reset(q)
      PROVE  UNCHANGED <<rateClock, allowed[k]>>
  BY <1>0, <1>6 DEF Rate!Open, Rate!Admit, Rate!Reset, Rate!Let
<1>7. CASE Rate!Reset(k)
  BY <1>0, <1>2, <1>7 DEF Rate!Reset
<1>8. CASE Rate!Open(k)
  <2>1. allowed'[k] = Append(h, rateClock) /\ UNCHANGED rateClock /\ Rate!Stale(r)
    BY <1>0, <1>8 DEF Rate!Open, Rate!Let
  <2>2. PICK m \in 0 .. Len(h) : /\ Len(h) - m <= maxRequests
                                 /\ \A i \in 1 .. m : h[i] <= rateClock - windowMs
    BY <2>1, OpenFacts DEF Few
  <2>. HIDE DEF h, r
  <2>3. Len(h) - m < 2 * maxRequests
    BY <1>0, <2>2
  <2>4. ASSUME NEW i \in 1 .. m PROVE rateClock - h[i] >= windowMs
    <3>1. h[i] \in Int /\ h[i] <= rateClock - windowMs
      BY <1>0, <2>2
    <3>2. windowMs \in Nat /\ rateClock \in Int
      BY <1>0
    <3>. QED BY <3>1, <3>2
  <2>5. Allowing
    BY <2>1, <2>3, <2>4
  <2>. QED BY <1>1, <2>5
<1>9. CASE Rate!Admit(k)
  <2>1. /\ allowed'[k] = Append(h, rateClock) /\ UNCHANGED rateClock
        /\ r # Rate!NoRecord /\ r.count < maxRequests /\ ClientInv(h, r, rateClock)
    BY <1>0, <1>9 DEF Rate!Admit, Rate!Let, Rate!Stale, RateInv
  <2>. HIDE DEF h, r
  <2>2. PICK j \in 0 .. Len(h), m \in 0 .. Len(h) :
               /\ m <= j /\ Len(h) - j <= r.count /\ j - m <= maxRequests
               /\ \A i \in 1 .. m : h[i] <= r.resetTime - 2 * windowMs
    BY <2>1 DEF ClientInv
  <2>3. r.count \in Int /\ r.resetTime \in Int /\ r.resetTime - windowMs <= rateClock
    BY <1>0, <2>1 DEF ClientInv
  <2>4. Len(h) - m < 2 * maxRequests
    BY <1>0, <2>1, <2>2, <2>3
  <2>5. ASSUME NEW i \in 1 .. m PROVE rateClock - h[i] >= windowMs
    <3>1. h[i] \in Int /\ h[i] <= r.resetTime - 2 * windowMs
      BY <1>0, <2>2
    <3>2. windowMs \in Nat /\ rateClock \in Int
      BY <1>0
    <3>. QED BY <2>3, <3>1, <3>2
  <2>6. Allowing
    BY <2>1, <2>4, <2>5
  <2>. QED BY <1>1, <2>6
<1>. QED BY <1>3, <1>4, <1>5, <1>6, <1>7, <1>8, <1>9 DEF Rate!Next

-----------------------------------------------------------------------------
(* Sessions                                                                  *)

\* The requests of address a between the count and the insertion.
Creating(a) == {s \in Slots : pc[s] = "creating" /\ from[s] = a}

\* Sessions and those requests together are bounded: the last to be counted found fewer
\* sessions than the limit.
StreamInv ==
  /\ Stream!TypeOK
  /\ IsFiniteSet(active)
  /\ \A a \in Addresses :
       Cardinality(Stream!Of(a)) + Cardinality(Creating(a)) <= MaxPerIp + Cardinality(Slots) - 1

LEMMA StreamInit == Stream!Init => StreamInv
<1>. SUFFICES ASSUME Stream!Init PROVE StreamInv
  OBVIOUS
<1>1. Stream!TypeOK
  BY StreamBounds DEF Stream!Init, Stream!TypeOK
<1>2. active = {} /\ \A a \in Addresses : Stream!Of(a) = {} /\ Creating(a) = {}
  BY DEF Stream!Init, Stream!Of, Creating
<1>3. IsFiniteSet({}) /\ Cardinality({}) = 0 /\ Cardinality(Slots) \in Nat
  BY FS_EmptySet, FS_CardinalityType, StreamBounds
<1>. QED BY <1>1, <1>2, <1>3, StreamBounds DEF StreamInv

LEMMA StreamCounts ==
  ASSUME StreamInv, NEW a \in Addresses
  PROVE  /\ IsFiniteSet(Stream!Of(a)) /\ Cardinality(Stream!Of(a)) \in Nat
         /\ IsFiniteSet(Creating(a)) /\ Cardinality(Creating(a)) \in Nat
         /\ Cardinality(Creating(a)) <= Cardinality(Slots) /\ Cardinality(Slots) \in Nat
<1>1. Stream!Of(a) \subseteq active /\ IsFiniteSet(active)
  BY DEF Stream!Of, StreamInv
<1>2. Creating(a) \subseteq Slots
  BY DEF Creating
<1>. QED BY <1>1, <1>2, StreamBounds, FS_Subset, FS_CardinalityType

\* A step that neither enters a session nor counts a request keeps the bound.
LEMMA FewerSessions ==
  ASSUME StreamInv, Stream!TypeOK', active' \subseteq active,
         \A i \in active' : owner'[i] = owner[i],
         \A s \in Slots : pc'[s] = "creating" => pc[s] = "creating" /\ from'[s] = from[s]
  PROVE  StreamInv'
<1>1. IsFiniteSet(active')
  BY FS_Subset DEF StreamInv
<1>2. ASSUME NEW a \in Addresses
      PROVE  Cardinality(Stream!Of(a))' + Cardinality(Creating(a))'
               <= MaxPerIp + Cardinality(Slots) - 1
  <2>1. Stream!Of(a)' \subseteq Stream!Of(a) /\ Creating(a)' \subseteq Creating(a)
    BY DEF Stream!Of, Creating
  <2>2. /\ Cardinality(Stream!Of(a)') \in Nat /\ Cardinality(Creating(a)') \in Nat
        /\ Cardinality(Stream!Of(a)') <= Cardinality(Stream!Of(a))
        /\ Cardinality(Creating(a)') <= Cardinality(Creating(a))
    BY <2>1, StreamCounts, FS_Subset, FS_CardinalityType
  <2>3. Cardinality(Stream!Of(a)) + Cardinality(Creating(a)) <= MaxPerIp + Cardinality(Slots) - 1
    BY DEF StreamInv
  <2>. QED BY <2>2, <2>3, StreamCounts, StreamBounds
<1>. QED BY <1>1, <1>2 DEF StreamInv

LEMMA OpenSession ==
  ASSUME StreamInv, NEW s \in Slots, NEW a \in Addresses, Stream!Open(s, a)
  PROVE  StreamInv'
<1>1. /\ pc[s] = "free" /\ Cardinality(Stream!Of(a)) < MaxPerIp
      /\ pc' = [pc EXCEPT ![s] = "creating"] /\ from' = [from EXCEPT ![s] = a]
      /\ UNCHANGED <<bridge, active, owner, idle, timer, target>>
  BY SameCount DEF Stream!Open
<1>2. Stream!TypeOK /\ Stream!TypeOK'
  BY <1>1 DEF StreamInv, Stream!TypeOK
<1>3. ASSUME NEW b \in Addresses
      PROVE  Cardinality(Stream!Of(b))' + Cardinality(Creating(b))'
               <= MaxPerIp + Cardinality(Slots) - 1
  <2>1. Stream!Of(b)' = Stream!Of(b)
    BY <1>1 DEF Stream!Of
  <2>2. CASE b = a
    <3>1. Creating(b)' \subseteq Slots
      BY DEF Creating
    <3>2. Cardinality(Creating(b)') \in Nat /\ Cardinality(Creating(b)') <= Cardinality(Slots)
      BY <3>1, StreamBounds, FS_Subset, FS_CardinalityType
    <3>. QED BY <1>1, <2>1, <2>2, <3>2, StreamCounts, StreamBounds
  <2>3. CASE b # a
    <3>1. Creating(b)' = Creating(b)
      BY <1>1, <1>2, <2>3 DEF Creating, Stream!TypeOK
    <3>. QED BY <2>1, <3>1 DEF StreamInv
  <2>. QED BY <2>2, <2>3
<1>. QED BY <1>1, <1>2, <1>3 DEF StreamInv

\* The insertion moves a request from one set to the other.
LEMMA EnterSession ==
  ASSUME StreamInv, NEW s \in Slots, NEW i \in Ids,
         pc[s] = "creating", i \notin active,
         active' = active \cup {i}, owner' = [owner EXCEPT ![i] = from[s]],
         idle' = [idle EXCEPT ![i] = 0], Stream!Finish(s), UNCHANGED <<bridge, timer>>
  PROVE  StreamInv'
<1>1. Stream!TypeOK /\ IsFiniteSet(active)
  BY DEF StreamInv
<1>2. /\ pc' = [pc EXCEPT ![s] = "free"] /\ from' = [from EXCEPT ![s] = NoAddress]
      /\ target' = [target EXCEPT ![s] = NoId]
  BY DEF Stream!Finish
<1>3. Stream!TypeOK'
  BY <1>1, <1>2, StreamBounds DEF Stream!TypeOK
<1>4. IsFiniteSet(active')
  BY <1>1, FS_AddElement
<1>5. ASSUME NEW a \in Addresses
      PROVE  Cardinality(Stream!Of(a))' + Cardinality(Creating(a))'
               <= MaxPerIp + Cardinality(Slots) - 1
  <2>1. Cardinality(Stream!Of(a)) + Cardinality(Creating(a)) <= MaxPerIp + Cardinality(Slots) - 1
    BY DEF StreamInv
  <2>2. CASE from[s] = a
    <3>1. Stream!Of(a)' = Stream!Of(a) \cup {i} /\ i \notin Stream!Of(a)
      BY <1>1, <2>2 DEF Stream!Of, Stream!TypeOK
    <3>2. Creating(a)' = Creating(a) \ {s} /\ s \in Creating(a)
      BY <1>1, <1>2, <2>2 DEF Creating, Stream!TypeOK
    <3>3. Cardinality(Stream!Of(a)') = Cardinality(Stream!Of(a)) + 1
      BY <3>1, StreamCounts, FS_AddElement
    <3>4. Cardinality(Creating(a)') = Cardinality(Creating(a)) - 1
      BY <3>2, StreamCounts, FS_RemoveElement
    <3>. QED BY <2>1, <3>3, <3>4, StreamCounts, StreamBounds
  <2>3. CASE from[s] # a
    <3>1. Stream!Of(a)' = Stream!Of(a)
      BY <1>1, <2>3 DEF Stream!Of, Stream!TypeOK
    <3>2. Creating(a)' = Creating(a)
      BY <1>1, <1>2, <2>3 DEF Creating, Stream!TypeOK
    <3>. QED BY <2>1, <3>1, <3>2
  <2>. QED BY <2>2, <2>3
<1>. QED BY <1>3, <1>4, <1>5 DEF StreamInv

LEMMA StreamKeeps ==
  ASSUME StreamInv, Stream!Next
  PROVE  StreamInv'
<1>. USE StreamBounds
<1>0. Stream!TypeOK
  BY DEF StreamInv
<1>1. ASSUME NEW s \in Slots, Stream!Created(s) PROVE StreamInv'
  <2>1. CASE \E i \in Ids : /\ i \notin active
                            /\ active' = active \cup {i}
                            /\ owner' = [owner EXCEPT ![i] = from[s]]
                            /\ idle' = [idle EXCEPT ![i] = 0]
    BY <1>1, <2>1, EnterSession DEF Stream!Created
  <2>2. CASE UNCHANGED <<active, owner, idle>>
    <3>1. Stream!TypeOK'
      BY <1>0, <1>1, <2>2 DEF Stream!Created, Stream!Finish, Stream!TypeOK
    <3>2. \A q \in Slots : pc'[q] = "creating" => pc[q] = "creating" /\ from'[q] = from[q]
      BY <1>0, <1>1 DEF Stream!Created, Stream!Finish, Stream!TypeOK
    <3>. QED BY <2>2, <3>1, <3>2, FewerSessions
  <2>. QED BY <1>1, <2>1, <2>2 DEF Stream!Created
<1>2. ASSUME NEW s \in Slots, Stream!Message(s) PROVE StreamInv'
  <2>1. Stream!TypeOK'
    BY <1>0, <1>2 DEF Stream!Message, Stream!TypeOK
  <2>2. \A q \in Slots : pc'[q] = "creating" => pc[q] = "creating" /\ from'[q] = from[q]
    BY <1>0, <1>2 DEF Stream!Message, Stream!TypeOK
  <2>. QED BY <1>2, <2>1, <2>2, FewerSessions DEF Stream!Message
<1>3. ASSUME NEW s \in Slots, Stream!Answered(s) PROVE StreamInv'
  <2>1. \/ Stream!Drop({target[s]})
        \/ UNCHANGED <<active, owner, idle>>
    BY <1>3 DEF Stream!Answered
  <2>2. Stream!TypeOK'
    BY <1>0, <1>3, <2>1 DEF Stream!Answered, Stream!Finish, Stream!Drop, Stream!TypeOK
  <2>3. \A q \in Slots : pc'[q] = "creating" => pc[q] = "creating" /\ from'[q] = from[q]
    BY <1>0, <1>3 DEF Stream!Answered, Stream!Finish, Stream!TypeOK
  <2>4. active' \subseteq active /\ \A i \in active' : owner'[i] = owner[i]
    BY <1>0, <2>1 DEF Stream!Drop, Stream!TypeOK
  <2>. QED BY <2>2, <2>3, <2>4, FewerSessions
<1>4. ASSUME NEW s \in Slots, NEW i \in Ids, Stream!Use(s, i) \/ Stream!Delete(s, i)
      PROVE  StreamInv'
  <2>1. Stream!TypeOK'
    BY <1>0, <1>4 DEF Stream!Use, Stream!Delete, Stream!TypeOK
  <2>2. \A q \in Slots : pc'[q] = "creating" => pc[q] = "creating" /\ from'[q] = from[q]
    BY <1>0, <1>4 DEF Stream!Use, Stream!Delete, Stream!TypeOK
  <2>. QED BY <1>4, <2>1, <2>2, FewerSessions DEF Stream!Use, Stream!Delete
<1>5. ASSUME NEW gone, Stream!Drop(gone), UNCHANGED <<pc, from, target>>,
             bridge' = bridge, timer' \in 0 .. Interval
      PROVE  StreamInv'
  <2>1. Stream!TypeOK'
    BY <1>0, <1>5 DEF Stream!Drop, Stream!TypeOK
  <2>2. active' \subseteq active /\ \A i \in active' : owner'[i] = owner[i]
    BY <1>0, <1>5 DEF Stream!Drop, Stream!TypeOK
  <2>. QED BY <1>5, <2>1, <2>2, FewerSessions
<1>6. ASSUME NEW i \in Ids, Stream!StopOne(i) PROVE StreamInv'
  BY <1>0, <1>5, <1>6 DEF Stream!StopOne, Stream!TypeOK
<1>7. CASE Stream!Evict
  BY <1>5, <1>7 DEF Stream!Evict
<1>8. CASE Stream!Tick \/ Stream!Stop \/ Stream!Stopped
  <2>1. UNCHANGED <<active, owner, pc, from>>
    BY <1>8 DEF Stream!Tick, Stream!Stop, Stream!Stopped
  <2>2. Stream!TypeOK'
    BY <1>0, <1>8 DEF Stream!Tick, Stream!Stop, Stream!Stopped, Stream!TypeOK
  <2>. QED BY <2>1, <2>2, FewerSessions
<1>. QED BY <1>1, <1>2, <1>3, <1>4, <1>6, <1>7, <1>8, OpenSession DEF Stream!Next, Stream!Exchange

-----------------------------------------------------------------------------
(* Drain                                                                     *)

LEMMA DrainBounds ==
  Http1 \cap Http2 = {} /\ Auth \in BOOLEAN /\ DrainTimeout \in Nat
BY DEF Drain!DrainAssumption

\* The count is the number of open requests, which makes its zero mean that there are
\* none; the flag is up whenever drain, and not stop alone, has been called.
DrainInv ==
  /\ Drain!TypeOK
  /\ IsFiniteSet(open) /\ activeRequests = Cardinality(open)
  /\ \A r \in open : handler[r] # "new"
  /\ isDraining => gateway # "up"
  /\ Drain!DrainWaits

LEMMA DrainInit == Drain!Init => DrainInv
<1>. SUFFICES ASSUME Drain!Init PROVE DrainInv
  OBVIOUS
<1>1. Drain!TypeOK
  <2>1. handler \in [Drain!Requests -> Drain!PCs] /\ elapsed \in 0 .. DrainTimeout
    BY DrainBounds DEF Drain!Init, Drain!PCs
  <2>2. isDraining \in BOOLEAN
    BY DEF Drain!Init
  <2>. QED BY <2>1, <2>2 DEF Drain!Init, Drain!TypeOK
<1>2. open = {} /\ activeRequests = 0 /\ isDraining = FALSE
  BY DEF Drain!Init
<1>. QED BY <1>1, <1>2, FS_EmptySet DEF DrainInv, Drain!DrainWaits

\* A request that begins is counted with the open ones. Nothing is said of where its
\* handler stands, but that an MCP request is let in only when the flag is down.
LEMMA Begun ==
  ASSUME DrainInv, NEW r \in Http1, Drain!Begin(r),
         NEW l \in Drain!PCs \ {"new"}, Drain!Goto(r, l),
         l \in {"validating", "body", "routing"} => ~isDraining
  PROVE  DrainInv'
<1>1. /\ handler[r] = "new" /\ activeRequests' = activeRequests + 1
      /\ open' = open \cup {r} /\ handler' = [handler EXCEPT ![r] = l]
      /\ UNCHANGED <<gateway, isDraining, elapsed>>
  BY DEF Drain!Begin, Drain!Goto, Drain!gateway
<1>2. r \in Drain!Requests
  BY DEF Drain!Requests
<1>3. Drain!TypeOK /\ Drain!TypeOK'
  BY <1>1, <1>2 DEF DrainInv, Drain!TypeOK
<1>4. r \notin open
  BY <1>1 DEF DrainInv
<1>5. IsFiniteSet(open') /\ activeRequests' = Cardinality(open)'
  BY <1>1, <1>4, FS_AddElement DEF DrainInv
<1>6. \A q \in Drain!Requests : handler'[q] = IF q = r THEN l ELSE handler[q]
  BY <1>1, <1>3 DEF Drain!TypeOK
<1>7. open \subseteq Drain!Requests
  BY <1>3 DEF Drain!TypeOK, Drain!Requests
<1>8. \A q \in open' : handler'[q] # "new"
  BY <1>1, <1>2, <1>6, <1>7 DEF DrainInv
<1>9. isDraining' => gateway' # "up"
  BY <1>1 DEF DrainInv
<1>10. Drain!DrainWaits'
  BY <1>1, <1>6, <1>7 DEF DrainInv, Drain!DrainWaits
<1>. QED BY <1>3, <1>5, <1>8, <1>9, <1>10 DEF DrainInv

\* A handler that goes on turns no request into one that is being let in.
LEMMA Handled ==
  ASSUME DrainInv, NEW r \in Drain!Requests, NEW l \in Drain!PCs \ {"new"}, Drain!Goto(r, l),
         l \in {"validating", "body", "routing"} =>
           r \notin open \/ handler[r] \in {"validating", "body", "routing"},
         UNCHANGED <<gateway, isDraining, elapsed, activeRequests, open>>
  PROVE  DrainInv'
<1>1. Drain!TypeOK /\ Drain!TypeOK' /\ handler' = [handler EXCEPT ![r] = l]
  BY DEF DrainInv, Drain!TypeOK, Drain!Goto
<1>2. \A q \in Drain!Requests : handler'[q] = IF q = r THEN l ELSE handler[q]
  BY <1>1 DEF Drain!TypeOK
<1>3. open \subseteq Drain!Requests
  BY <1>1 DEF Drain!TypeOK, Drain!Requests
<1>4. \A q \in open' : handler'[q] # "new"
  BY <1>2, <1>3 DEF DrainInv
<1>5. Drain!DrainWaits'
  BY <1>2, <1>3 DEF DrainInv, Drain!DrainWaits
<1>. QED BY <1>1, <1>4, <1>5 DEF DrainInv

LEMMA RequestDone ==
  ASSUME DrainInv, NEW r \in Http1, Drain!Done(r)
  PROVE  DrainInv'
<1>1. /\ r \in open /\ open' = open \ {r}
      /\ activeRequests' = IF activeRequests > 0 THEN activeRequests - 1 ELSE 0
      /\ UNCHANGED <<gateway, isDraining, elapsed, handler>>
  BY DEF Drain!Done, Drain!gateway
<1>2. Drain!TypeOK /\ Drain!TypeOK'
  BY <1>1 DEF DrainInv, Drain!TypeOK
<1>3. IsFiniteSet(open') /\ Cardinality(open') = Cardinality(open) - 1
  BY <1>1, FS_RemoveElement DEF DrainInv
<1>4. Cardinality(open') \in Nat
  BY <1>3, FS_CardinalityType
<1>5. activeRequests' = Cardinality(open')
  BY <1>1, <1>2, <1>3, <1>4 DEF DrainInv, Drain!TypeOK
<1>6. Drain!DrainWaits'
  BY <1>1 DEF DrainInv, Drain!DrainWaits
<1>. QED BY <1>1, <1>2, <1>3, <1>5, <1>6 DEF DrainInv

\* With the flag down there is nothing to say; with it up, the loop of drain ends only
\* with no open request or with its time over.
LEMMA DrainKeeps ==
  ASSUME DrainInv, Drain!Next
  PROVE  DrainInv'
<1>0. /\ Drain!TypeOK /\ IsFiniteSet(open) /\ activeRequests = Cardinality(open)
      /\ Drain!DrainWaits /\ DrainTimeout \in Nat
      /\ Http1 \subseteq Drain!Requests /\ Http2 \subseteq Drain!Requests
  BY DrainBounds DEF DrainInv, Drain!Requests
<1>1. ASSUME NEW r \in Http1, Drain!Probe(r) \/ Drain!OtherArrives(r) PROVE DrainInv'
  <2>1. \E l \in {"answered", "serving"} : Drain!Begin(r) /\ Drain!Goto(r, l)
    BY <1>1 DEF Drain!Probe, Drain!OtherArrives
  <2>. QED BY <2>1, Begun DEF Drain!PCs
<1>2. ASSUME NEW r \in Http1, Drain!McpArrives(r) PROVE DrainInv'
  <2>1. \E l \in {"validating", "body"} : Drain!Begin(r) /\ Drain!Goto(r, l) /\ ~isDraining
    BY <1>2 DEF Drain!McpArrives
  <2>. QED BY <2>1, Begun DEF Drain!PCs
<1>3. ASSUME NEW r \in Http2, Drain!StreamArrives(r) PROVE DrainInv'
  <2>1. /\ \E l \in {"validating", "routing"} : Drain!Goto(r, l)
        /\ UNCHANGED <<gateway, isDraining, elapsed, activeRequests, open>>
    BY <1>3 DEF Drain!StreamArrives, Drain!gateway
  <2>2. r \notin open
    BY <1>0, DrainBounds DEF Drain!TypeOK
  <2>. QED BY <1>0, <2>1, <2>2, Handled DEF Drain!PCs
<1>4. ASSUME NEW r \in Drain!Requests, Drain!Handles(r) PROVE DrainInv'
  <2>1. UNCHANGED <<gateway, isDraining, elapsed, activeRequests, open>>
    BY <1>4 DEF Drain!Handles, Drain!Validated, Drain!BodyEnds, Drain!Dispatched, Drain!gateway
  <2>2. \E l \in {"body", "routing", "answered"} :
          /\ Drain!Goto(r, l)
          /\ l = "answered" \/ handler[r] \in {"validating", "body"}
    BY <1>4 DEF Drain!Handles, Drain!Validated, Drain!BodyEnds, Drain!Dispatched
  <2>. QED BY <2>1, <2>2, Handled DEF Drain!PCs
<1>5. CASE Drain!Drain
  <2>1. Drain!TypeOK'
    BY <1>0, <1>5 DEF Drain!Drain, Drain!TypeOK
  <2>2. Drain!DrainWaits'
    BY <1>5 DEF Drain!Drain, Drain!DrainWaits
  <2>. QED BY <1>5, <2>1, <2>2 DEF Drain!Drain, DrainInv
<1>6. CASE Drain!Poll
  <2>1. Drain!TypeOK'
    BY <1>0, <1>6 DEF Drain!Poll, Drain!TypeOK
  <2>2. open = {} \/ elapsed >= DrainTimeout
    BY <1>0, <1>6, FS_EmptySet DEF Drain!Poll
  <2>3. Drain!DrainWaits'
    BY <1>0, <1>6, <2>2 DEF Drain!Poll, Drain!DrainWaits, Drain!TypeOK
  <2>. QED BY <1>6, <2>1, <2>3 DEF Drain!Poll, DrainInv
<1>7. CASE Drain!Wait
  <2>1. Drain!TypeOK'
    BY <1>0, <1>7 DEF Drain!Wait, Drain!TypeOK
  <2>2. Drain!DrainWaits'
    BY <1>7 DEF Drain!Wait, Drain!DrainWaits
  <2>. QED BY <1>7, <2>1, <2>2 DEF Drain!Wait, DrainInv
<1>8. CASE Drain!Stop
  <2>1. Drain!TypeOK' /\ ~isDraining'
    BY <1>0, <1>8 DEF Drain!Stop, Drain!TypeOK, DrainInv
  <2>2. Drain!DrainWaits'
    BY <2>1 DEF Drain!DrainWaits
  <2>. QED BY <1>8, <2>1, <2>2 DEF Drain!Stop, DrainInv
<1>9. CASE Drain!Stopped
  <2>1. Drain!TypeOK'
    BY <1>0, <1>9 DEF Drain!Stopped, Drain!TypeOK
  <2>2. Drain!DrainWaits'
    BY <1>0, <1>9 DEF Drain!Stopped, Drain!DrainWaits
  <2>. QED BY <1>9, <2>1, <2>2 DEF Drain!Stopped, DrainInv
<1>. QED BY <1>1, <1>2, <1>3, <1>4, <1>5, <1>6, <1>7, <1>8, <1>9, RequestDone DEF Drain!Next

-----------------------------------------------------------------------------
(* The whole                                                                 *)

FrontInv == ToolInv /\ RateInv /\ StreamInv /\ DrainInv

LEMMA FrontInit == Init => FrontInv
BY ToolInit, RateInit, StreamInit, DrainInit DEF Init, FrontInv

\* Each invariant is about the variables of its own part.
LEMMA ToolStays == ToolInv /\ UNCHANGED toolVars => ToolInv'
<1>. SUFFICES ASSUME ToolInv, UNCHANGED toolVars PROVE ToolInv'
  OBVIOUS
<1>1. UNCHANGED <<clock, globalCallWindow, toolCallWindows, connectionStats, verdict, passed,
                  admitted>>
  BY DEF toolVars
<1>2. Tool!TypeOK'
  BY <1>1 DEF ToolInv, Tool!TypeOK
<1>. QED BY <1>1, <1>2 DEF ToolInv

LEMMA RateStays == RateInv /\ UNCHANGED rateVars => RateInv'
<1>. SUFFICES ASSUME RateInv, UNCHANGED rateVars PROVE RateInv'
  OBVIOUS
<1>1. UNCHANGED <<rateClock, records, rateTimer, allowed>>
  BY DEF rateVars
<1>2. Rate!TypeOK'
  BY <1>1 DEF RateInv, Rate!TypeOK
<1>. QED BY <1>1, <1>2 DEF RateInv

LEMMA StreamStays == StreamInv /\ UNCHANGED streamVars => StreamInv'
<1>. SUFFICES ASSUME StreamInv, UNCHANGED streamVars PROVE StreamInv'
  OBVIOUS
<1>1. UNCHANGED <<bridge, active, owner, idle, timer, pc, from, target>>
  BY DEF streamVars
<1>2. Stream!TypeOK'
  BY <1>1 DEF StreamInv, Stream!TypeOK
<1>. QED BY <1>1, <1>2, FewerSessions

LEMMA DrainStays == DrainInv /\ UNCHANGED drainVars => DrainInv'
<1>. SUFFICES ASSUME DrainInv, UNCHANGED drainVars PROVE DrainInv'
  OBVIOUS
<1>1. UNCHANGED <<gateway, isDraining, activeRequests, elapsed, handler, open>>
  BY DEF drainVars
<1>2. Drain!TypeOK'
  BY <1>1 DEF DrainInv, Drain!TypeOK
<1>3. Drain!DrainWaits'
  BY <1>1 DEF DrainInv, Drain!DrainWaits
<1>. QED BY <1>1, <1>2, <1>3 DEF DrainInv

LEMMA FrontKeeps == FrontInv /\ [Next]_vars => FrontInv'
<1>. SUFFICES ASSUME FrontInv, [Next]_vars PROVE FrontInv'
  OBVIOUS
<1>0. ToolInv /\ RateInv /\ StreamInv /\ DrainInv
  BY DEF FrontInv
<1>1. CASE ToolStep
  BY <1>0, <1>1, ToolKeeps, RateStays, StreamStays, DrainStays DEF ToolStep, FrontInv
<1>2. CASE RateStep
  BY <1>0, <1>2, ToolStays, RateKeeps, StreamStays, DrainStays DEF RateStep, FrontInv
<1>3. CASE StreamStep
  BY <1>0, <1>3, ToolStays, RateStays, StreamKeeps, DrainStays DEF StreamStep, FrontInv
<1>4. CASE DrainStep
  BY <1>0, <1>4, ToolStays, RateStays, StreamStays, DrainKeeps DEF DrainStep, FrontInv
<1>5. CASE UNCHANGED vars
  <2>1. UNCHANGED toolVars /\ UNCHANGED rateVars /\ UNCHANGED streamVars /\ UNCHANGED drainVars
    BY <1>5 DEF vars
  <2>. QED BY <1>0, <2>1, ToolStays, RateStays, StreamStays, DrainStays DEF FrontInv
<1>. QED BY <1>1, <1>2, <1>3, <1>4, <1>5 DEF Next

LEMMA FrontInductive == Spec => []FrontInv
BY FrontInit, FrontKeeps, PTL DEF Spec

-----------------------------------------------------------------------------
(* Theorems                                                                  *)

\* For any limits, windows, tools, clients, requests and sessions: what the windows, the
\* records of the gateway's limiter, the bridge and the drain keep has its type.
THEOREM TypeCorrect == Spec => []TypeOK
<1>1. FrontInv => TypeOK
  BY DEF FrontInv, ToolInv, RateInv, StreamInv, DrainInv, TypeOK
<1>. QED BY <1>1, FrontInductive, PTL

\* callTool refuses with the wait until the oldest of the tool's active calls is too old.
\* After it, whichever calls come in between from other tools, the window has room; one
\* unit before it has not.
THEOREM WaitIsExact == Spec => []RetryAfterIsExact
<1>1. FrontInv => RetryAfterIsExact
  <2>. SUFFICES ASSUME FrontInv PROVE RetryAfterIsExact
    OBVIOUS
  <2>. QED BY OldestFrees DEF FrontInv, RetryAfterIsExact, Tool!RetryAfterIsExact
<1>. QED BY <1>1, FrontInductive, PTL

\* callTool implements the sliding window over all tools' calls and that of each tool,
\* although it keeps of either only what it last found active.
THEOREM LimitsAreWindows == Spec => WindowsSlide
<1>1. Init => Tool!Global!Init
  BY DEF Init, Tool!Init, Tool!Global!Init
<1>2. FrontInv /\ [Next]_vars => [Tool!Global!Next]_(Tool!Global!vars)
  <2>. SUFFICES ASSUME FrontInv, [Next]_vars
                PROVE  Tool!Global!Next \/ UNCHANGED <<clock, passed>>
    BY DEF Tool!Global!vars
  <2>1. CASE ToolStep
    BY <2>1, GlobalSlides DEF ToolStep, FrontInv
  <2>2. CASE UNCHANGED toolVars
    BY <2>2 DEF toolVars
  <2>. QED BY <2>1, <2>2 DEF Next, RateStep, StreamStep, DrainStep, vars
<1>3. FrontInv /\ [Next]_vars =>
        [\A t \in Tools : Tool!Tool(t)!Next \/ UNCHANGED <<clock, admitted[t]>>]_(Tool!vars)
  <2>. SUFFICES ASSUME FrontInv, [Next]_vars
                PROVE  \/ \A t \in Tools : Tool!Tool(t)!Next \/ UNCHANGED <<clock, admitted[t]>>
                       \/ UNCHANGED Tool!vars
    OBVIOUS
  <2>1. CASE ToolStep
    BY <2>1, ToolSlides DEF ToolStep, FrontInv
  <2>2. CASE UNCHANGED toolVars
    BY <2>2 DEF toolVars, Tool!vars
  <2>. QED BY <2>1, <2>2 DEF Next, RateStep, StreamStep, DrainStep, vars
<1>. QED BY <1>1, <1>2, <1>3, FrontInductive, PTL
         DEF Spec, WindowsSlide, Tool!WindowsSlide, Tool!Global!Spec

\* The gateway's limiter counts in fixed windows and forgets the record of a client whose
\* window is over, on its next request or by the timer: of any client, no windowMs sees
\* more than twice the limit let in.
THEOREM AtMostTwice == Spec => TwiceTheLimit
<1>1. FrontInv /\ [Next]_vars =>
        [\A k \in Keys : Rate!Any(k, 2 * maxRequests)!Next \/ UNCHANGED <<rateClock, allowed[k]>>
        ]_(Rate!vars)
  <2>. SUFFICES ASSUME FrontInv, [Next]_vars
                PROVE  \/ \A k \in Keys : \/ Rate!Any(k, 2 * maxRequests)!Next
                                          \/ UNCHANGED <<rateClock, allowed[k]>>
                       \/ UNCHANGED Rate!vars
    OBVIOUS
  <2>1. CASE RateStep
    BY <2>1, RateSlides DEF RateStep, FrontInv
  <2>2. CASE UNCHANGED rateVars
    BY <2>2 DEF rateVars, Rate!vars
  <2>. QED BY <2>1, <2>2 DEF Next, ToolStep, StreamStep, DrainStep, vars
<1>. QED BY <1>1, FrontInductive, PTL DEF Spec, TwiceTheLimit, Rate!TwiceTheLimit

\* The bridge counts an address's sessions before it awaits the new one's id: the sessions
\* beyond the limit are at most the requests that were in between, less the first of them.
THEOREM OverrunIsBounded == Spec => []OverrunIsConcurrent
<1>1. FrontInv => OverrunIsConcurrent
  <2>. SUFFICES ASSUME StreamInv, NEW a \in Addresses
                PROVE  Stream!Cardinality(Stream!Of(a))
                         <= MaxPerIp + Stream!Cardinality(Slots) - 1
    BY DEF FrontInv, OverrunIsConcurrent, Stream!OverrunIsConcurrent
  <2>1. Cardinality(Stream!Of(a)) + Cardinality(Creating(a)) <= MaxPerIp + Cardinality(Slots) - 1
    BY DEF StreamInv
  <2>2. Cardinality(Stream!Of(a)) <= MaxPerIp + Cardinality(Slots) - 1
    BY <2>1, StreamCounts, StreamBounds
  <2>. QED BY <2>2, SameCount
<1>. QED BY <1>1, FrontInductive, PTL

\* The loop of drain ends before its timeout only at a count of zero, and then no MCP
\* request over HTTP/1 that was let in still waits: the count loses none of them, and none
\* is let in once the flag is up, whenever clients leave.
THEOREM DrainsWait == Spec => []DrainWaits
<1>1. FrontInv => DrainWaits
  BY DEF FrontInv, DrainInv, DrainWaits
<1>. QED BY <1>1, FrontInductive, PTL
-----------------------------------------------------------------------------
(* How long sessions and drains last                                         *)

\* How many ticks and sweeps of the timer a session has left at most when nobody uses
\* it: a sweep that finds it young makes it wait another interval.
StaleIn(i) ==
  IF idle[i] <= Timeout
    THEN (Interval + 1) + 2 * ((Timeout + 1) - idle[i]) + (IF timer = 0 THEN 1 ELSE 0)
    ELSE timer + 1

\* Nothing but a request that names a session prolongs it.
SessionsAge ==
  \A i \in Ids :
    i \in active /\ i \in active' /\ bridge' = "up" =>
      \/ UNCHANGED <<idle[i], timer>>
      \/ StaleIn(i)' < StaleIn(i)
      \/ idle'[i] = 0 /\ \E s \in Slots : target'[s] = i

LEMMA EvictAges ==
  ASSUME StreamInv, Stream!Evict, NEW i \in active'
  PROVE  StaleIn(i)' < StaleIn(i)
<1>1. /\ i \in active /\ idle[i] <= Timeout /\ idle'[i] = idle[i]
      /\ timer = 0 /\ timer' = Interval /\ idle[i] \in 0 .. (Timeout + 1)
  <2>. DEFINE gone == {j \in active : idle[j] > Timeout}
  <2>1. timer = 0 /\ timer' = Interval /\ Stream!Drop(gone)
    BY DEF Stream!Evict
  <2>2. i \in active /\ i \notin gone
    BY <2>1 DEF Stream!Drop
  <2>3. i \in Ids /\ idle[i] \in 0 .. (Timeout + 1)
    BY <2>2 DEF StreamInv, Stream!TypeOK
  <2>4. idle[i] <= Timeout
    BY <2>2, <2>3, StreamBounds
  <2>5. idle'[i] = idle[i]
    <3>. HIDE DEF gone
    <3>. QED BY <2>1, <2>2, <2>3 DEF Stream!Drop
  <2>. QED BY <2>1, <2>2, <2>3, <2>4, <2>5
<1>2. StaleIn(i) = (Interval + 1) + 2 * ((Timeout + 1) - idle[i]) + 1
  BY <1>1 DEF StaleIn
<1>3. StaleIn(i)' = (Interval + 1) + 2 * ((Timeout + 1) - idle[i]) + 0
  BY <1>1, StreamBounds DEF StaleIn
<1>. QED BY <1>1, <1>2, <1>3, StreamBounds

LEMMA TickAges ==
  ASSUME StreamInv, Stream!Tick, NEW i \in active
  PROVE  UNCHANGED <<idle[i], timer>> \/ StaleIn(i)' < StaleIn(i)
<1>1. /\ i \in Ids /\ idle[i] \in 0 .. (Timeout + 1) /\ timer \in 0 .. Interval
      /\ idle'[i] = (IF idle[i] <= Timeout THEN idle[i] + 1 ELSE idle[i])
      /\ timer' = (IF timer > 0 THEN timer - 1 ELSE 0)
  BY DEF StreamInv, Stream!TypeOK, Stream!Tick
<1>. DEFINE due == IF timer = 0 THEN 1 ELSE 0
<1>2. due \in {0, 1} /\ due' \in {0, 1} /\ Timeout \in Nat /\ Interval \in Nat
  BY StreamBounds
<1>3. CASE idle[i] <= Timeout
  <2>1. StaleIn(i) = (Interval + 1) + 2 * ((Timeout + 1) - idle[i]) + due
    BY <1>3 DEF StaleIn
  <2>2. CASE idle'[i] <= Timeout
    <3>1. StaleIn(i)' = (Interval + 1) + 2 * ((Timeout + 1) - (idle[i] + 1)) + due'
      BY <1>1, <1>3, <2>2 DEF StaleIn
    <3>. HIDE DEF due
    <3>. QED BY <1>1, <1>2, <2>1, <3>1
  <2>3. CASE ~(idle'[i] <= Timeout)
    <3>1. StaleIn(i)' = timer' + 1
      BY <2>3 DEF StaleIn
    <3>2. timer' <= Interval /\ timer' \in Nat
      BY <1>1, <1>2
    <3>. HIDE DEF due
    <3>. QED BY <1>1, <1>2, <1>3, <2>1, <3>1, <3>2
  <2>. QED BY <2>2, <2>3
<1>4. CASE ~(idle[i] <= Timeout)
  <2>1. StaleIn(i) = timer + 1 /\ StaleIn(i)' = timer' + 1 /\ idle'[i] = idle[i]
    BY <1>1, <1>4 DEF StaleIn
  <2>. QED BY <1>1, <2>1
<1>. QED BY <1>3, <1>4

LEMMA StreamAges ==
  ASSUME StreamInv, Stream!Next, NEW i \in Ids, i \in active, i \in active', bridge' = "up"
  PROVE  \/ UNCHANGED <<idle[i], timer>>
         \/ StaleIn(i)' < StaleIn(i)
         \/ idle'[i] = 0 /\ \E s \in Slots : target'[s] = i
<1>0. /\ idle \in [Ids -> 0 .. (Timeout + 1)] /\ target \in [Slots -> Ids \cup {NoId}]
  BY DEF StreamInv, Stream!TypeOK
<1>1. ASSUME NEW s \in Slots, Stream!Created(s) PROVE UNCHANGED <<idle[i], timer>>
  BY <1>0, <1>1 DEF Stream!Created
<1>2. ASSUME NEW s \in Slots, Stream!Message(s)
      PROVE  \/ UNCHANGED <<idle[i], timer>>
             \/ idle'[i] = 0 /\ \E q \in Slots : target'[q] = i
  BY <1>2 DEF Stream!Message
<1>3. ASSUME NEW s \in Slots, Stream!Answered(s) PROVE UNCHANGED <<idle[i], timer>>
  BY <1>3 DEF Stream!Answered, Stream!Drop
<1>4. ASSUME NEW s \in Slots, NEW j \in Ids, Stream!Use(s, j) \/ Stream!Delete(s, j)
      PROVE  \/ UNCHANGED <<idle[i], timer>>
             \/ idle'[i] = 0 /\ \E q \in Slots : target'[q] = i
  BY <1>0, <1>4 DEF Stream!Use, Stream!Delete
<1>5. ASSUME NEW s \in Slots, NEW a \in Addresses, Stream!Open(s, a)
      PROVE  UNCHANGED <<idle[i], timer>>
  BY <1>5 DEF Stream!Open
<1>6. CASE Stream!Stop \/ Stream!Stopped
  BY <1>6 DEF Stream!Stop, Stream!Stopped
<1>7. ~ \E j \in Ids : Stream!StopOne(j)
  BY DEF Stream!StopOne
<1>. QED BY <1>1, <1>2, <1>3, <1>4, <1>5, <1>6, <1>7, EvictAges, TickAges
         DEF Stream!Next, Stream!Exchange

\* The sweep of the bridge (evictIdleSessions) reaches every session: what a session has
\* left grows only by a request that names it, while any tick or sweep that is not yet its
\* last takes from it, whatever other sessions and addresses do.
THEOREM SessionsGrowOld == Spec => [][SessionsAge]_vars
<1>1. FrontInv /\ [Next]_vars => [SessionsAge]_vars
  <2>. SUFFICES ASSUME FrontInv, Next PROVE SessionsAge
    OBVIOUS
  <2>1. CASE StreamStep
    BY <2>1, StreamAges DEF StreamStep, FrontInv, SessionsAge
  <2>2. CASE UNCHANGED streamVars
    BY <2>2 DEF streamVars, SessionsAge
  <2>. QED BY <2>1, <2>2 DEF Next, ToolStep, RateStep, DrainStep
<1>. QED BY <1>1, FrontInductive, PTL DEF Spec

\* How many turns of its loop and awaits a drain has left at most.
DrainLeft ==
  IF gateway = "draining" THEN (DrainTimeout - elapsed) + 2
  ELSE IF gateway = "stopping" THEN 1 ELSE 0

DrainsAdvance ==
  isDraining => isDraining' /\ (UNCHANGED <<gateway, elapsed>> \/ DrainLeft' < DrainLeft)

LEMMA DrainAdvances ==
  ASSUME DrainInv, Drain!Next
  PROVE  DrainsAdvance
<1>. SUFFICES ASSUME isDraining
              PROVE  isDraining' /\ (UNCHANGED <<gateway, elapsed>> \/ DrainLeft' < DrainLeft)
  BY DEF DrainsAdvance
<1>0. elapsed \in 0 .. DrainTimeout /\ DrainTimeout \in Nat /\ gateway # "up"
  BY DrainBounds DEF DrainInv, Drain!TypeOK
<1>1. ASSUME NEW r \in Http1, Drain!Probe(r) \/ Drain!OtherArrives(r) \/ Drain!McpArrives(r)
                                \/ Drain!Done(r)
      PROVE  UNCHANGED <<gateway, isDraining, elapsed>>
  BY <1>1 DEF Drain!Probe, Drain!OtherArrives, Drain!McpArrives, Drain!Done, Drain!Begin,
              Drain!gateway
<1>2. ASSUME NEW r \in Http2, Drain!StreamArrives(r)
      PROVE  UNCHANGED <<gateway, isDraining, elapsed>>
  BY <1>2 DEF Drain!StreamArrives, Drain!gateway
<1>3. ASSUME NEW r \in Drain!Requests, Drain!Handles(r)
      PROVE  UNCHANGED <<gateway, isDraining, elapsed>>
  BY <1>3 DEF Drain!Handles, Drain!Validated, Drain!BodyEnds, Drain!Dispatched, Drain!gateway
<1>4. CASE Drain!Drain \/ Drain!Stop
  BY <1>0, <1>4 DEF Drain!Drain, Drain!Stop
<1>5. CASE Drain!Poll
  BY <1>0, <1>5 DEF Drain!Poll, DrainLeft
<1>6. CASE Drain!Wait
  BY <1>0, <1>6 DEF Drain!Wait, DrainLeft
<1>7. CASE Drain!Stopped
  BY <1>0, <1>7 DEF Drain!Stopped, DrainLeft
<1>. QED BY <1>1, <1>2, <1>3, <1>4, <1>5, <1>6, <1>7 DEF Drain!Next

\* A drain is not taken back, and no request that comes, goes or hangs while it lasts gives
\* it more time: its loop turns and the stop after it are at most DrainTimeout + 2.
THEOREM DrainsAreBounded == Spec => [][DrainsAdvance]_vars
<1>1. FrontInv /\ [Next]_vars => [DrainsAdvance]_vars
  <2>. SUFFICES ASSUME FrontInv, Next PROVE DrainsAdvance
    OBVIOUS
  <2>1. CASE DrainStep
    BY <2>1, DrainAdvances DEF DrainStep, FrontInv
  <2>2. CASE UNCHANGED drainVars
    BY <2>2 DEF drainVars, DrainsAdvance
  <2>. QED BY <2>1, <2>2 DEF Next, ToolStep, RateStep, StreamStep
<1>. QED BY <1>1, FrontInductive, PTL DEF Spec
=============================================================================
