----------------------------- MODULE FrontEnds -----------------------------
(***************************************************************************)
(* What stands between a caller and a server: the limits of tool calls and  *)
(* of the gateway, the stream bridge's sessions and the gateway's drain.    *)
(* They share nothing, so a behaviour chooses the one it is about, and the  *)
(* others stay as they begin.                                              *)
(***************************************************************************)
EXTENDS Integers, Sequences

CONSTANTS
  Tools, MaxPerWindow, GlobalMax, Window, Threshold, Cooldown,
  MaxClock, MaxFailures,                                     \* see ToolCalls
  Keys, maxRequests, windowMs, CleanupMs,                    \* see RateLimiter
  Slots, Ids, NoId, Addresses, NoAddress, MaxPerIp, Timeout,
  Interval,                                                  \* see StreamSessions
  Http1, Http2, Auth, DrainTimeout                           \* see GatewayDrain

VARIABLES
  part,     \* what this behaviour is about
  clock, globalCallWindow, toolCallWindows, connectionStats, verdict, passed, admitted,
  rateClock, records, rateTimer, allowed,
  bridge, active, owner, idle, timer, pc, from, target,
  gateway, isDraining, activeRequests, elapsed, handler, open

toolVars == <<clock, globalCallWindow, toolCallWindows, connectionStats, verdict, passed,
              admitted>>
rateVars == <<rateClock, records, rateTimer, allowed>>
streamVars == <<bridge, active, owner, idle, timer, pc, from, target>>
drainVars == <<gateway, isDraining, activeRequests, elapsed, handler, open>>
vars == <<part, toolVars, rateVars, streamVars, drainVars>>

-----------------------------------------------------------------------------
Tool == INSTANCE ToolCalls
Rate == INSTANCE RateLimiter WITH clock <- rateClock, timer <- rateTimer
Stream == INSTANCE StreamSessions WITH status <- bridge
Drain == INSTANCE GatewayDrain WITH status <- gateway, pc <- handler

ASSUME FrontEndsAssumption ==
  /\ Tool!ToolCallsAssumption /\ Rate!RateLimiterAssumption
  /\ Stream!StreamAssumption /\ Drain!DrainAssumption

-----------------------------------------------------------------------------
Init ==
  /\ part \in {"tool", "rate", "stream", "drain"}
  /\ Tool!Init /\ Rate!Init /\ Stream!Init /\ Drain!Init

ToolStep ==
  part = "tool" /\ Tool!Next /\ UNCHANGED <<part, rateVars, streamVars, drainVars>>
RateStep ==
  part = "rate" /\ Rate!Next /\ UNCHANGED <<part, toolVars, streamVars, drainVars>>
StreamStep ==
  part = "stream" /\ Stream!Next /\ UNCHANGED <<part, toolVars, rateVars, drainVars>>
DrainStep ==
  part = "drain" /\ Drain!Next /\ UNCHANGED <<part, toolVars, rateVars, streamVars>>
Next == ToolStep \/ RateStep \/ StreamStep \/ DrainStep

\* The fairness of each, asked for only in its own behaviours.
Fairness ==
  /\ WF_streamVars(part = "stream" /\ Stream!Evict)
  /\ WF_streamVars(part = "stream" /\ Stream!Tick)
  /\ WF_drainVars(part = "drain" /\ Drain!Poll)
  /\ WF_drainVars(part = "drain" /\ Drain!Wait)
  /\ WF_drainVars(part = "drain" /\ Drain!Stopped)

Spec == Init /\ [][Next]_vars /\ Fairness

-----------------------------------------------------------------------------
TypeOK == Tool!TypeOK /\ Rate!TypeOK /\ Stream!TypeOK /\ Drain!TypeOK

\* The wait a limited caller of a tool is told to observe is enough, and no longer.
RetryAfterIsExact == Tool!RetryAfterIsExact

\* Both limits of callTool are sliding windows over all the calls that passed them.
WindowsSlide == Tool!WindowsSlide

\* No client of the gateway is let in more than twice its limit in any window.
TwiceTheLimit == Rate!TwiceTheLimit

\* An address has more sessions than its limit only by requests made at once.
OverrunIsConcurrent == Stream!OverrunIsConcurrent

\* A session that stays untouched is evicted some time.
IdleGoes == Stream!IdleGoes

\* A drain does not cut off an MCP request over HTTP/1 before its timeout.
DrainWaits == Drain!DrainWaits

\* A drain comes to an end, whatever the requests do.
DrainEnds == Drain!DrainEnds
=============================================================================
