--------------------------- MODULE LogicExecution ---------------------------
(***************************************************************************)
(* Logic on a node, from the two sides that share nothing but the payload: *)
(* the handlers with their sessions and their pool of workers, and one     *)
(* worker with what it does to the logic it is given, up to the agent that  *)
(* verifies the answer. A behaviour is about one side; the other stays as   *)
(* it begins.                                                              *)
(***************************************************************************)
EXTENDS Integers, Sequences

CONSTANTS
  Calls, Tokens, NoToken, NoSession, AuthModes, LocalToken, Threads, MaxQueue, TTL, MaxClock,
  SessionFaults,                                  \* see LogicSession
  Jobs, Payloads, Datasets, Size, Policies, NoPolicy, Draw(_, _, _), One, FuelLimit,
  WorkerFaults                                    \* see LogicReceipt

VARIABLES
  part,    \* what this behaviour is about
  Auth, clock, revoked, sessions, call, pc, held, began, answer, audit, barred, broken,
  job, worker, dirs, open, faults, receipt, sent, got, verdict

sessionVars == <<Auth, clock, revoked, sessions, call, pc, held, began, answer, audit, barred,
                 broken>>
receiptVars == <<job, worker, dirs, open, faults, receipt, sent, got, verdict>>

Session == INSTANCE LogicSession WITH Faults <- SessionFaults
Receipt == INSTANCE LogicReceipt WITH Faults <- WorkerFaults, pc <- worker

ASSUME ExecutionAssumption == Session!SessionAssumption /\ Receipt!ReceiptAssumption

-----------------------------------------------------------------------------
Init ==
  /\ part \in {"session", "receipt"}
  /\ Session!Init /\ Receipt!Init
  /\ part # "session" => Auth = CHOOSE a \in AuthModes : TRUE

SessionStep == part = "session" /\ Session!Next /\ UNCHANGED <<part, receiptVars>>
ReceiptStep == part = "receipt" /\ Receipt!Next /\ UNCHANGED <<part, sessionVars>>

Next == SessionStep \/ ReceiptStep
Spec == Init /\ [][Next]_<<part, sessionVars, receiptVars>>

-----------------------------------------------------------------------------
TypeOK == Session!TypeOK /\ Receipt!TypeOK

\* No logic begins for a call on a token that was revoked when the call arrived.
RevokedNeverRuns == Session!RevokedNeverRuns

\* No logic begins on a session older than its lifetime.
NoLogicOnExpiredKey == Session!NoLogicOnExpiredKey

\* The audit file tells what was answered.
RecordTellsAnswer == Session!RecordTellsAnswer

\* With a JWT validator no execution is left hanging.
ExecutionsConclude == Session!ExecutionsConclude

\* An answer the agent accepts is one the worker computed from the agent's logic.
AcceptedWasComputed == Receipt!AcceptedWasComputed

\* An answer of a worker nothing happened to is accepted, when nothing is proxied.
HonestAnswersPass == Receipt!HonestAnswersPass

\* The same logic on the same data gives the same output.
Reproducible == Receipt!Reproducible

\* Noise leaves a count a count.
CountsStayCounts == Receipt!CountsStayCounts

\* A worker that is done with a job leaves no directory and no open file behind.
NothingLeftBehind == Receipt!NothingLeftBehind

\* README of the SDK: an answer with proxied arguments is not falsely rejected.
ProxiedAnswersPass == Receipt!ProxiedAnswersPass
=============================================================================
