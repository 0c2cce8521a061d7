---------------------------- MODULE RateLimiter ----------------------------
(***************************************************************************)
(* InMemoryRateLimiter (gateway/rate-limiter.ts), which the gateway asks    *)
(* before it dispatches a request: per client a count and the time it is    *)
(* reset, opened by the first request and cleaned up by a timer.            *)
(***************************************************************************)
EXTENDS Integers, Sequences

CONSTANTS
  Keys,         \* client ids or addresses
  maxRequests,
  windowMs,
  CleanupMs,    \* period of the cleanup timer
  MaxClock      \* bound on the clock, for model checking

RateLimiterAssumption ==
  /\ {maxRequests, windowMs, CleanupMs} \subseteq Nat \ {0} /\ MaxClock \in Nat

VARIABLES
  clock,
  records,   \* records[k]: count and resetTime, or NoRecord
  timer,     \* when the cleanup runs next; 0 after close
  allowed    \* history: allowed[k], the times k was let in, since k was reset

vars == <<clock, records, timer, allowed>>

NoRecord == [count |-> 0, resetTime |-> -1]

TypeOK ==
  /\ clock \in 0..MaxClock
  /\ records \in [Keys -> [count : 0..maxRequests,
                           resetTime : -1..(MaxClock + windowMs)]]
  /\ timer \in 0..(MaxClock + CleanupMs)
  /\ allowed \in [Keys -> Seq(0..MaxClock)]

Init ==
  /\ clock = 0
  /\ records = [k \in Keys |-> NoRecord]
  /\ timer = CleanupMs
  /\ allowed = [k \in Keys |-> <<>>]

Stale(r) == r = NoRecord \/ clock >= r.resetTime

Let(k) == allowed' = [allowed EXCEPT ![k] = Append(@, clock)]

\* check, no window open: open one.
Open(k) ==
  /\ Stale(records[k])
  /\ records' = [records EXCEPT ![k] = [count |-> 1, resetTime |-> clock + windowMs]]
  /\ Let(k)
  /\ UNCHANGED <<clock, timer>>

Admit(k) ==
  /\ ~Stale(records[k])
  /\ records[k].count < maxRequests
  /\ records' = [records EXCEPT ![k].count = @ + 1]
  /\ Let(k)
  /\ UNCHANGED <<clock, timer>>

Reset(k) ==
  /\ records' = [records EXCEPT ![k] = NoRecord]
  /\ allowed' = [allowed EXCEPT ![k] = <<>>]
  /\ UNCHANGED <<clock, timer>>

\* MUTANT of Cleanup: every record goes.
CleanupAll ==
  /\ timer > 0 /\ clock >= timer
  /\ records' = [k \in Keys |-> NoRecord]
  /\ timer' = clock + CleanupMs
  /\ UNCHANGED <<clock, allowed>>

\* The timer drops the records whose window is over.
Cleanup ==
  /\ timer > 0 /\ clock >= timer
  /\ records' = [k \in Keys |-> IF Stale(records[k]) THEN NoRecord ELSE records[k]]
  /\ timer' = clock + CleanupMs
  /\ UNCHANGED <<clock, allowed>>

\* close: no timer, no records; check goes on answering.
Close ==
  /\ timer > 0
  /\ timer' = 0
  /\ records' = [k \in Keys |-> NoRecord]
  /\ allowed' = [k \in Keys |-> <<>>]
  /\ UNCHANGED clock

Tick ==
  /\ clock < MaxClock
  /\ clock' = clock + 1
  /\ UNCHANGED <<records, timer, allowed>>

Next ==
  \/ \E k \in Keys : Open(k) \/ Admit(k) \/ Reset(k)
  \/ Cleanup \/ Close \/ Tick

Spec == Init /\ [][Next]_vars

-----------------------------------------------------------------------------
(* Properties *)

Any(k, n) == INSTANCE SlidingWindow WITH
               Max <- n, Width <- windowMs, now <- clock, admitted <- allowed[k]

\* Two windows that touch are the worst case: no client is let in more than twice
\* the limit in any windowMs, whenever the cleanup timer fires.
TwiceTheLimit ==
  [][\A k \in Keys : Any(k, 2 * maxRequests)!Next \/ UNCHANGED <<clock, allowed[k]>>]_vars

=============================================================================
