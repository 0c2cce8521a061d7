-------------------------- MODULE MCLogicExecution --------------------------
(* Small instances of logic on a node. *)
EXTENDS LogicExecution, TLC

CONSTANTS c1, c2, c3, t1, t2, j1, j2

\* Three calls, for a negotiation and two executions that contend for the one
\* thread of a pool without a queue.
MCCalls == {c1, c2, c3}
MCTokens == {t1, t2}
MCAuthModes == {"jwt", "local", "none"}
CallFaults == {"keygen", "append", "write"}

\* Two jobs, of logic that differs in what the worker does to it.
MCJobs == {j1, j2}
Leaf(k, v) == [key |-> k, val |-> v]
Js(env, out) == [form |-> "js", envelopes |-> env, proxied |-> FALSE, banned |-> FALSE,
                 weight |-> 40, output |-> out]

\* One is 4 units: 9 is two and a quarter, -3 less than nothing.
MCPayloads == {
  Js(0, <<Leaf("count", 8), Leaf("average", 9)>>),
  Js(1, <<Leaf("sum", -3)>>),
  Js(2, <<Leaf("count", 4)>>),
  [Js(1, <<Leaf("sum", 8)>>) EXCEPT !.proxied = TRUE],
  [Js(0, <<Leaf("sum", 8)>>) EXCEPT !.proxied = TRUE],
  [Js(0, <<Leaf("count", 4)>>) EXCEPT !.weight = 400],
  [Js(0, <<Leaf("sum", 9)>>) EXCEPT !.form = "wasm"],
  [Js(0, <<>>) EXCEPT !.form = "wasm", !.banned = TRUE]}

MCDatasets == {"few", "many"}
MCSize == [few |-> 2, many |-> 60]
MCPolicies == {[epsilon |-> 5, sensitivity |-> 8, threshold |-> 50]}

\* Any function does: this one goes both ways.
MCDraw(seed, image, i) ==
  IF seed = j1 THEN 10 ELSE IF seed = j2 THEN -10 ELSE IF i % 2 = 1 THEN -15 ELSE 10

JobFaults == {"init", "close", "kill", "mix"}

\* The calls are alike, and so are the jobs.
Perms == Permutations(MCCalls) \cup Permutations(MCJobs)
=============================================================================
