---------------------------- MODULE LogicReceipt ----------------------------
(***************************************************************************)
(* One piece of logic from the worker thread that runs it to the agent that *)
(* verifies the answer: workers/logic-execution.ts runs it in a WasiSandbox *)
(* (sandbox/wasi.ts), adds noise (security/dp-engine.ts), sanitizes the     *)
(* output (server/output-sanitizer.ts) and commits to it in a receipt that  *)
(* workers/zk-verifier.ts checks on the side of the agent.                  *)
(*                                                                         *)
(* Hashes are injective: an image is the normalized source, the hash of an  *)
(* output the output. The seal is the key it was made with, the secret of   *)
(* the job. A number is an integer count of units: 2 units are the last     *)
(* decimal place the code keeps, One of them the number 1.                  *)
(***************************************************************************)
EXTENDS Integers, Sequences, FiniteSets

CONSTANTS
  Jobs,          \* executions, each under a session secret of its own
  Payloads,      \* what agents send: see Payload
  Datasets,      \* what the records of the node may be
  Size,          \* Size[d]: how many records there are in d
  Policies,      \* [epsilon (in tenths), sensitivity, threshold] of a tool
  NoPolicy,      \* a tool without a policy: no noise
  Draw(_, _, _), \* the i-th sample, in tenths, from the data and the image
  One,           \* the number 1, in units
  FuelLimit,     \* a million in the code
  Faults         \* what may fail: "init", "close", "kill", "mix"

Keys == {"count", "average", "sum"}  \* what the name of a field says it is
Leaves == [key : Keys, val : Int]

\* envelopes: @LIOP{...} ... @END around the source; proxied: the source asks for a
\* tool to be called; banned: wasm with an import that is not allowed; weight: of
\* the nodes of its syntax tree; output: the numbers it yields, each time it runs.
Payload == [form : {"js", "wasm"}, envelopes : Nat, proxied : BOOLEAN, banned : BOOLEAN,
            weight : Nat, output : Seq(Leaves)]
Policy == [epsilon : Nat \ {0}, sensitivity : Nat, threshold : Nat]

\* normalizeLogicSource strips one envelope, and only around the whole source.
Normalize(p) ==
  IF p.form = "js" /\ p.envelopes > 0 THEN [p EXCEPT !.envelopes = @ - 1] ELSE p

\* deriveLogicImageDigest normalizes what it is given, normalized or not.
ImageOf(p) == Normalize(p)

ReceiptAssumption ==
  /\ Payloads \subseteq Payload
  /\ Size \in [Datasets -> Nat]
  /\ Policies \subseteq Policy /\ NoPolicy \notin Policies \cup Jobs
  /\ \A d \in Datasets, p \in Payloads : \A i \in DOMAIN p.output : Draw(d, ImageOf(p), i) \in Int
  /\ One \in Nat \ {0} /\ One % 2 = 0 /\ FuelLimit \in Nat
  /\ Faults \subseteq {"init", "close", "kill", "mix"}

VARIABLES
  job,      \* job[j]: its payload, dataset and policy
  pc,       \* where the worker thread is with j
  dirs,     \* the jobs whose sandbox directory is on disk
  open,     \* open[j]: its open file handles
  faults,   \* history: faults[j], what failed while j was run
  receipt,  \* receipt[j]: what the worker returned, NoReceipt before
  sent,     \* sent[j]: the answer the node sent, NoAnswer before
  got,      \* got[j]: the answer that reached the agent
  verdict   \* verdict[j]: what the agent made of it

vars == <<job, pc, dirs, open, faults, receipt, sent, got, verdict>>

NoJob == [payload |-> NoPolicy, data |-> NoPolicy, policy |-> NoPolicy]
NoReceipt == [image |-> NoPolicy, data |-> NoPolicy, out |-> <<>>, fuel |-> 0, key |-> NoPolicy]
NoAnswer == [evidence |-> <<>>, image |-> NoPolicy, receipt |-> NoReceipt]

Receipts == [image : Payload, data : Datasets, out : Seq(Leaves), fuel : Nat, key : Jobs]
Reply == {NoAnswer} \cup [evidence : Seq(Leaves), image : Payload, receipt : Receipts]

PCs == {"new", "admitted", "made", "half", "running", "closing", "closed", "removing",
        "returned", "failed"}

TypeOK ==
  /\ job \in [Jobs -> {NoJob} \cup
       [payload : Payloads, data : Datasets, policy : Policies \cup {NoPolicy}]]
  /\ pc \in [Jobs -> PCs]
  /\ dirs \subseteq Jobs
  /\ open \in [Jobs -> SUBSET {"stdout", "stderr"}]
  /\ faults \in [Jobs -> SUBSET Faults]
  /\ receipt \in [Jobs -> {NoReceipt} \cup Receipts]
  /\ sent \in [Jobs -> Reply] /\ got \in [Jobs -> Reply]
  /\ verdict \in [Jobs -> {"none", "accepted", "rejected"}]

Init ==
  /\ job = [j \in Jobs |-> NoJob]
  /\ pc = [j \in Jobs |-> "new"]
  /\ dirs = {}
  /\ open = [j \in Jobs |-> {}]
  /\ faults = [j \in Jobs |-> {}]
  /\ receipt = [j \in Jobs |-> NoReceipt]
  /\ sent = [j \in Jobs |-> NoAnswer]
  /\ got = [j \in Jobs |-> NoAnswer]
  /\ verdict = [j \in Jobs |-> "none"]

-----------------------------------------------------------------------------
(* What is computed *)

\* calculateAstInstructionFuel: what does not parse costs 500, the rest its
\* weight over a base of 100, in buckets of 100.
Parses(p) == p.envelopes = 0
Fuel(p) == IF Parses(p) THEN 100 * ((100 + p.weight + 99) \div 100) ELSE 500

\* The fuel of wasm is the time it took, which has no limit.
Fuels(p) == IF p.form = "wasm" THEN {1, 2} ELSE {Fuel(p)}

RoundTo(u, v) == u * ((v + (u \div 2)) \div u)   \* Math.round, to a multiple of u
Kept(v) == RoundTo(2, v)                         \* to the last place that is kept
Floored(v) == IF v < 0 THEN 0 ELSE v

FieldSensitivity(key, sensitivity, n) ==
  CASE key = "count" -> One
    [] key = "average" /\ n > 0 -> sensitivity \div n
    [] OTHER -> sensitivity

\* applyDpToOutput raises the epsilon of a dataset of less than ten records to 1.
Epsilon(policy, n) == IF n < 10 /\ policy.epsilon < 10 THEN 10 ELSE policy.epsilon

\* MUTANT of Noisy: only a number that is not whole is rounded to its last place.
NoisyUnrounded(leaf, draw, policy, n) ==
  LET s == FieldSensitivity(leaf.key, policy.sensitivity, n)
      raw == Kept(leaf.val + (s * draw) \div Epsilon(policy, n))
  IN [leaf EXCEPT !.val = IF leaf.val >= 0 THEN Floored(raw) ELSE raw]

\* walkAndNoise, at a number: noise, a whole number again where the number was
\* whole or its field has the sensitivity of a count, and never below zero if the
\* number was not.
Noisy(leaf, draw, policy, n) ==
  LET s == FieldSensitivity(leaf.key, policy.sensitivity, n)
      raw == Kept(leaf.val + (s * draw) \div Epsilon(policy, n))
      whole == IF leaf.val % One = 0 \/ s = One THEN RoundTo(One, raw) ELSE raw
  IN [leaf EXCEPT !.val = IF leaf.val >= 0 THEN Floored(whole) ELSE whole]

\* MUTANT of WithNoise: samples from the system's generator, not from the seed.
WithNoiseUnseeded(j, leaves) ==
  LET n == Size[job[j].data]
  IN IF job[j].policy = NoPolicy \/ n >= job[j].policy.threshold
       THEN leaves
       ELSE [i \in DOMAIN leaves |->
              Noisy(leaves[i], Draw(j, ImageOf(job[j].payload), i), job[j].policy, n)]

\* applyDpToOutput: only the numbers of a small dataset under a policy, one
\* sample each, in the order in which the output is walked.
WithNoise(j, leaves) ==
  LET n == Size[job[j].data]
  IN IF job[j].policy = NoPolicy \/ n >= job[j].policy.threshold
       THEN leaves
       ELSE [i \in DOMAIN leaves |->
              Noisy(leaves[i], Draw(job[j].data, ImageOf(job[j].payload), i), job[j].policy, n)]

\* sanitizeOutput
Sanitize(leaves) == [i \in DOMAIN leaves |-> [leaves[i] EXCEPT !.val = Kept(Floored(@))]]

\* The output of wasm is the text it wrote, which holds no numbers for the walks.
Released(j) ==
  LET p == job[j].payload
  IN IF p.form = "wasm" THEN p.output ELSE Sanitize(WithNoise(j, p.output))

Commitment(j, out, fuel) ==
  [image |-> ImageOf(Normalize(job[j].payload)), data |-> job[j].data, out |-> out,
   fuel |-> fuel, key |-> j]

-----------------------------------------------------------------------------
(* The worker thread *)

Goto(j, l) == pc' = [pc EXCEPT ![j] = l]
Fault(j, f) == f \in Faults /\ faults' = [faults EXCEPT ![j] = @ \cup {f}]
away == <<sent, got, verdict>>

\* The message opens under the session key, and wasm imports nothing banned; or
\* the job is refused before there is a sandbox.
Admit(j, p, d, q) ==
  /\ pc[j] = "new"
  /\ job' = [job EXCEPT ![j] = [payload |-> p, data |-> d, policy |-> q]]
  /\ \/ ~(p.form = "wasm" /\ p.banned) /\ Goto(j, "admitted")
     \/ Goto(j, "failed")
  /\ UNCHANGED <<dirs, open, faults, receipt, away>>

\* WasiSandbox.init: the directory, then the two files in it. A failure throws out
\* of the worker before its try block: there is no teardown.
InitFails(j) ==
  /\ pc[j] \in {"admitted", "made", "half"}
  /\ Fault(j, "init")
  /\ Goto(j, "failed")
  /\ UNCHANGED <<job, dirs, open, receipt, away>>

MakeDir(j) ==
  /\ pc[j] = "admitted"
  /\ dirs' = dirs \cup {j}
  /\ Goto(j, "made")
  /\ UNCHANGED <<job, open, faults, receipt, away>>

OpenFile(j) ==
  /\ \/ pc[j] = "made" /\ open' = [open EXCEPT ![j] = {"stdout"}] /\ Goto(j, "half")
     \/ pc[j] = "half" /\ open' = [open EXCEPT ![j] = {"stdout", "stderr"}] /\ Goto(j, "running")
  /\ UNCHANGED <<job, dirs, faults, receipt, away>>

\* MUTANT of Runs: the output is committed to before it is sanitized.
RunsEarly(j) ==
  /\ pc[j] = "running"
  /\ \/ UNCHANGED receipt
     \/ LET source == Normalize(job[j].payload)
        IN /\ Parses(source)
           /\ source.form = "js" => Fuel(source) <= FuelLimit
           /\ \E fuel \in Fuels(source) :
                receipt' = [receipt EXCEPT ![j] = Commitment(j, WithNoise(j, source.output), fuel)]
  /\ Goto(j, "closing")
  /\ UNCHANGED <<job, dirs, open, faults, away>>

\* The logic runs: out of time, a fault of the isolate, too much fuel; or it has
\* output, of which what is released is committed to. Either way on to teardown.
Runs(j) ==
  /\ pc[j] = "running"
  /\ \/ UNCHANGED receipt
     \/ LET source == Normalize(job[j].payload)
        IN /\ Parses(source)
           /\ source.form = "js" => Fuel(source) <= FuelLimit
           /\ \E fuel \in Fuels(source) :
                receipt' = [receipt EXCEPT ![j] = Commitment(j, Released(j), fuel)]
  /\ Goto(j, "closing")
  /\ UNCHANGED <<job, dirs, open, faults, away>>

Ended(j) == Goto(j, IF receipt[j] = NoReceipt THEN "failed" ELSE "returned")

\* WasiSandbox.teardown: the files are closed, then the directory goes. What fails
\* is caught, and the rest is left undone.
CloseFails(j) ==
  /\ pc[j] \in {"closing", "closed", "removing"}
  /\ Fault(j, "close")
  /\ Ended(j)
  /\ UNCHANGED <<job, dirs, open, receipt, away>>

Close(j) ==
  /\ \/ pc[j] = "closing" /\ open' = [open EXCEPT ![j] = @ \ {"stdout"}] /\ Goto(j, "closed")
     \/ pc[j] = "closed" /\ open' = [open EXCEPT ![j] = @ \ {"stderr"}] /\ Goto(j, "removing")
  /\ UNCHANGED <<job, dirs, faults, receipt, away>>

\* MUTANT of RemoveDir: only after an execution that succeeded.
RemoveDirOfSuccess(j) ==
  /\ pc[j] = "removing"
  /\ dirs' = IF receipt[j] = NoReceipt THEN dirs ELSE dirs \ {j}
  /\ Ended(j)
  /\ UNCHANGED <<job, open, faults, receipt, away>>

RemoveDir(j) ==
  /\ pc[j] = "removing"
  /\ dirs' = dirs \ {j}
  /\ Ended(j)
  /\ UNCHANGED <<job, open, faults, receipt, away>>

\* The thread is terminated, out of heap or with its pool: its handles go with it.
Kill(j) ==
  /\ pc[j] \notin {"new", "returned", "failed"}
  /\ Fault(j, "kill")
  /\ open' = [open EXCEPT ![j] = {}]
  /\ receipt' = [receipt EXCEPT ![j] = NoReceipt]
  /\ Goto(j, "failed")
  /\ UNCHANGED <<job, dirs, away>>

-----------------------------------------------------------------------------
(* The answer and the agent *)

\* What a proxied tool call yields has nothing to do with what was committed to.
ToolResult == <<[key |-> "sum", val |-> One]>>

\* executeLogic sanitizes what the worker returned once more and sends it, or the
\* result of the tool the output asks for.
Answer(j) ==
  /\ pc[j] = "returned" /\ sent[j] = NoAnswer
  /\ sent' = [sent EXCEPT ![j] =
       [evidence |-> IF job[j].payload.proxied THEN ToolResult
                     ELSE IF job[j].payload.form = "wasm" THEN receipt[j].out
                     ELSE Sanitize(receipt[j].out),
        image |-> receipt[j].image, receipt |-> receipt[j]]]
  /\ UNCHANGED <<job, pc, dirs, open, faults, receipt, got, verdict>>

\* tryExtractProxyOutput takes what the first brace of the payload opens for the
\* call it spells out; in an envelope that is the header, which does not parse.
Extracts(p) == p.proxied /\ Parses(p)

\* MUTANT of Verified: a receipt stands for whatever output comes with it.
VerifiedLoosely(j, a) ==
  /\ a.image = ImageOf(job[j].payload)
  /\ a.receipt.image = ImageOf(job[j].payload)
  /\ a.receipt.key = j

\* verifyZkReceipt, with the payload and the secret the agent holds: the image it
\* derives is the one reported and the one in the journal, the seal is of its
\* secret, and the output committed to is the one received, or the call that could
\* be extracted from the payload.
Verified(j, a) ==
  LET image == ImageOf(job[j].payload)
  IN /\ a.image = image
     /\ a.receipt.image = image
     /\ a.receipt.key = j
     /\ a.receipt.out = IF Extracts(job[j].payload) THEN job[j].payload.output ELSE a.evidence

Sent == {j \in Jobs : sent[j] # NoAnswer}

\* The answer arrives as it was sent, or made of pieces of what was sent.
Arrivals(j) ==
  {sent[j]} \cup IF "mix" \in Faults
    THEN {[evidence |-> sent[a].evidence, image |-> sent[b].image, receipt |-> sent[c].receipt] :
          a, b, c \in Sent}
    ELSE {}

Deliver(j) ==
  /\ j \in Sent /\ verdict[j] = "none"
  /\ \E a \in Arrivals(j) :
       /\ got' = [got EXCEPT ![j] = a]
       /\ verdict' = [verdict EXCEPT ![j] = IF Verified(j, a) THEN "accepted" ELSE "rejected"]
  /\ UNCHANGED <<job, pc, dirs, open, faults, receipt, sent>>

-----------------------------------------------------------------------------
Worker(j) ==
  \/ InitFails(j) \/ MakeDir(j) \/ OpenFile(j) \/ Runs(j)
  \/ CloseFails(j) \/ Close(j) \/ RemoveDir(j) \/ Kill(j)

Next ==
  \E j \in Jobs :
    \/ \E p \in Payloads, d \in Datasets, q \in Policies \cup {NoPolicy} : Admit(j, p, d, q)
    \/ Worker(j)
    \/ Answer(j)
    \/ Deliver(j)

Spec == Init /\ [][Next]_vars

-----------------------------------------------------------------------------
(* Properties *)

\* An answer the agent accepts is the output its own logic had on the node, under
\* its own session, however the parts of several answers were exchanged on the
\* way (verifyZkReceipt). Of a proxied call that is extracted from the payload only
\* the request is committed to.
AcceptedWasComputed ==
  \A j \in Jobs : verdict[j] = "accepted" =>
    /\ got[j].receipt = receipt[j]
    /\ ~Extracts(job[j].payload) => got[j].evidence = receipt[j].out

\* The request of a proxied call comes out of the worker as it went in.
Intact(j) == Released(j) = job[j].payload.output

\* An answer that arrives as it was sent is accepted, noise or not, although the
\* output is sanitized again after it was committed to; unless it is that of a
\* proxied call whose numbers the worker changed, or which is in an envelope.
HonestAnswersPass ==
  \A j \in Jobs : verdict[j] = "rejected" =>
    \/ got[j] # sent[j]
    \/ job[j].payload.proxied /\ ~(Extracts(job[j].payload) /\ Intact(j))

\* The README: the extractor prevents false validation failures of proxied calls,
\* of those it can extract.
ProxiedAnswersPass ==
  \A j \in Jobs : verdict[j] = "rejected" /\ Extracts(job[j].payload) => got[j] # sent[j]

\* The same logic on the same data under the same policy is committed to alike, in
\* whatever job it runs, down to the fuel of a script: the noise depends on nothing
\* but the seed (applyDpToOutput, calculateAstInstructionFuel).
Reproducible ==
  \A i, j \in Jobs : job[i] = job[j] /\ NoReceipt \notin {receipt[i], receipt[j]} =>
    /\ receipt[i].out = receipt[j].out
    /\ job[i].payload.form = "js" => receipt[i].fuel = receipt[j].fuel

\* Noise and rounding leave a count a count: a whole number that is not negative
\* does not become anything else, in whatever order the steps adjust it.
CountsStayCounts ==
  \A j \in Jobs : receipt[j] # NoReceipt => \A i \in DOMAIN receipt[j].out :
    LET was == job[j].payload.output[i] now == receipt[j].out[i]
    IN was.key = "count" /\ was.val >= 0 /\ was.val % One = 0 => now.val >= 0 /\ now.val % One = 0

\* Whatever became of the logic, its directory and its handles are gone when the
\* worker is done with it, unless the file system failed or the thread was killed.
NothingLeftBehind ==
  \A j \in Jobs : pc[j] \in {"returned", "failed"} /\ faults[j] = {} => j \notin dirs /\ open[j] = {}
=============================================================================
