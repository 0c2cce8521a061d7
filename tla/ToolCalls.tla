----------------------------- MODULE ToolCalls -----------------------------
(***************************************************************************)
(* LiopServer.callTool (server/index.ts) up to the start of an execution:   *)
(* the limit over all tools, the limit per tool, the arguments, and for a    *)
(* tool that takes logic the envelope, the preflight policy and the counter *)
(* of violations that throttles a connection. It awaits nothing before the  *)
(* worker pool, so a call is one step.                                      *)
(*                                                                         *)
(* The handler that tool() wraps around a logic tool is called for payloads *)
(* without an envelope only: callTool itself intercepts the others. What    *)
(* the wrapper does with well-formed logic is therefore never reached.      *)
(***************************************************************************)
EXTENDS Integers, Sequences, FiniteSets

CONSTANTS
  Tools,        \* registered tools that take logic
  MaxPerWindow, \* toolCallMaxPerWindow
  GlobalMax,    \* globalCallMaxPerWindow
  Window,       \* toolCallWindowMs
  Threshold,    \* THROTTLE_THRESHOLD
  Cooldown,     \* THROTTLE_COOLDOWN_MS
  MaxClock,     \* bound on the clock, for model checking
  MaxFailures   \* bound on the count of violations, for model checking

ToolCallsAssumption ==
  /\ {MaxPerWindow, GlobalMax, Window, Threshold, Cooldown} \subseteq Nat \ {0}
  /\ MaxClock \in Nat /\ MaxFailures \in Nat

VARIABLES
  clock,
  globalCallWindow,  \* times of the calls that passed the global limit
  toolCallWindows,   \* toolCallWindows[t]: times of those that passed t's limit
  connectionStats,   \* failures and lastAttempt of the one connection counted
  verdict,           \* what the last call was told
  passed,            \* history: the times of all calls past the global limit
  admitted           \* history: the times of all calls past t's limit

vars == <<clock, globalCallWindow, toolCallWindows, connectionStats, verdict,
          passed, admitted>>

Times == 0..MaxClock

Verdicts == {"none", "globalLimit", "toolLimit", "invalid", "throttled",
             "malformed", "preflight", "run"}

TypeOK ==
  /\ clock \in Times
  /\ globalCallWindow \in Seq(Times)
  /\ toolCallWindows \in [Tools -> Seq(Times)]
  /\ connectionStats \in [failures : 0..MaxFailures, lastAttempt : Times]
  /\ verdict \in Verdicts
  /\ passed \in Seq(Times)
  /\ admitted \in [Tools -> Seq(Times)]

Init ==
  /\ clock = 0
  /\ globalCallWindow = <<>>
  /\ toolCallWindows = [t \in Tools |-> <<>>]
  /\ connectionStats = [failures |-> 0, lastAttempt |-> 0]
  /\ verdict = "none"
  /\ passed = <<>>
  /\ admitted = [t \in Tools |-> <<>>]

-----------------------------------------------------------------------------
\* MUTANT of Active: a call exactly one window old still counts.
ActiveInclusive(w, now) ==
  SubSeq(w, Cardinality({i \in DOMAIN w : now - w[i] > Window}) + 1, Len(w))

\* The part of a window that still counts: times stand in order, so what the filter
\* drops is its beginning.
Active(w, now) ==
  SubSeq(w, Cardinality({i \in DOMAIN w : now - w[i] >= Window}) + 1, Len(w))

\* checkGlobalRateLimit refuses; what is too old is dropped all the same.
GlobalLimited ==
  /\ globalCallWindow' = Active(globalCallWindow, clock)
  /\ Len(Active(globalCallWindow, clock)) >= GlobalMax
  /\ verdict' = "globalLimit"
  /\ UNCHANGED <<clock, toolCallWindows, connectionStats, passed, admitted>>

\* checkGlobalRateLimit counts the call, whatever becomes of it.
PassGlobal ==
  /\ Len(Active(globalCallWindow, clock)) < GlobalMax
  /\ globalCallWindow' = Append(Active(globalCallWindow, clock), clock)
  /\ passed' = Append(passed, clock)

\* checkToolCallRateLimit refuses: the call has used up global quota.
ToolLimited(t) ==
  /\ PassGlobal
  /\ Len(Active(toolCallWindows[t], clock)) >= MaxPerWindow
  /\ verdict' = "toolLimit"
  /\ UNCHANGED <<clock, toolCallWindows, connectionStats, admitted>>

\* MUTANT of PassTool: a call counts when it is answered, not when it passes.
PassToolUncounted(t) ==
  /\ PassGlobal
  /\ Len(Active(toolCallWindows[t], clock)) < MaxPerWindow
  /\ UNCHANGED <<clock, toolCallWindows>>
  /\ admitted' = [admitted EXCEPT ![t] = Append(@, clock)]

PassTool(t) ==
  /\ PassGlobal
  /\ Len(Active(toolCallWindows[t], clock)) < MaxPerWindow
  /\ toolCallWindows' = [toolCallWindows EXCEPT ![t] = Append(Active(@, clock), clock)]
  /\ admitted' = [admitted EXCEPT ![t] = Append(@, clock)]
  /\ UNCHANGED clock

\* The arguments do not parse.
Invalid(t) ==
  /\ PassTool(t)
  /\ verdict' = "invalid"
  /\ UNCHANGED connectionStats

Throttled ==
  /\ connectionStats.failures >= Threshold
  /\ clock - connectionStats.lastAttempt < Cooldown

\* MUTANT of Malformed: violations count while the connection cools down, too.
MalformedUnthrottled(t) ==
  /\ PassTool(t)
  /\ verdict' = "malformed"
  /\ connectionStats' = [failures |-> connectionStats.failures + 1, lastAttempt |-> clock]

\* The payload has no envelope: counted, unless the connection is cooling down.
Malformed(t) ==
  /\ PassTool(t)
  /\ \/ /\ Throttled
        /\ verdict' = "throttled"
        /\ UNCHANGED connectionStats
     \/ /\ ~Throttled
        /\ connectionStats.failures < MaxFailures
        /\ verdict' = "malformed"
        /\ connectionStats' = [failures |-> connectionStats.failures + 1,
                               lastAttempt |-> clock]

\* The payload holds logic: the preflight policy refuses it, or it goes to a
\* worker. Neither looks at the violations, nor counts as one.
Logic(t) ==
  /\ PassTool(t)
  /\ verdict' \in {"preflight", "run"}
  /\ UNCHANGED connectionStats

Tick ==
  /\ clock < MaxClock
  /\ clock' = clock + 1
  /\ UNCHANGED <<globalCallWindow, toolCallWindows, connectionStats, verdict, passed,
                 admitted>>

Next ==
  \/ GlobalLimited
  \/ \E t \in Tools : ToolLimited(t) \/ Invalid(t) \/ Malformed(t) \/ Logic(t)
  \/ Tick

Spec == Init /\ [][Next]_vars

-----------------------------------------------------------------------------
(* Properties *)

Global == INSTANCE SlidingWindow WITH
            Max <- GlobalMax, Width <- Window, now <- clock, admitted <- passed
Tool(t) == INSTANCE SlidingWindow WITH
            Max <- MaxPerWindow, Width <- Window, now <- clock, admitted <- admitted[t]

\* The two limits are sliding windows over everything that passed them, although
\* each keeps only what it last thought active, at different moments.
WindowsSlide ==
  /\ Global!Spec
  /\ [][\A t \in Tools : Tool(t)!Next \/ UNCHANGED <<clock, admitted[t]>>]_vars

\* The wait a limited caller is told to observe is enough and not too long: when
\* it is over the window has room again, one unit earlier it has not.
Full(w, n, now) == Len(Active(w, now)) >= n

RetryAfterIsExact ==
  \A t \in Tools : LET w == toolCallWindows[t] IN
    Full(w, MaxPerWindow, clock) =>
      LET free == Active(w, clock)[1] + Window IN
        ~Full(w, MaxPerWindow, free) /\ Full(w, MaxPerWindow, free - 1)

=============================================================================
