---------------------------- MODULE ServerFiles ----------------------------
(***************************************************************************)
(* The three files a server keeps with a copy of in memory: the audit log, *)
(* the revocation list and the certificates. They share nothing, so a      *)
(* behaviour chooses the one it is about, and the others stay as they       *)
(* begin.                                                                  *)
(***************************************************************************)
EXTENDS Integers, SequencesExt

CONSTANTS
  Writers, AuditFaults, MaxEntries,                 \* see AuditChain
  Servers, Hashes, NoHash, Deployments, MaxWrites,  \* see RevocationList
  Files, MaxRenewals, Setups                        \* see CertReload

VARIABLES
  part,     \* what this behaviour is about
  auditFile, auditMem, last, status, created, auditAcked, thrown,
  deployed, exists, list, whole, mtime, known, loaded, pc, op, arg, seen, acked, due, own,
  setup, disk, torn, queued, watched, buffers, manager, timer, at, unseen, server

auditVars == <<auditFile, auditMem, last, status, created, auditAcked, thrown>>
listVars == <<deployed, exists, list, whole, mtime, known, loaded, pc, op, arg, seen, acked,
              due, own>>
certVars == <<setup, disk, torn, queued, watched, buffers, manager, timer, at, unseen, server>>

Audit == INSTANCE AuditChain WITH
  Faults <- AuditFaults, file <- auditFile, mem <- auditMem, acked <- auditAcked
Revocation == INSTANCE RevocationList WITH file <- list
Certs == INSTANCE CertReload WITH mem <- buffers

ASSUME FilesAssumption ==
  Audit!AuditAssumption /\ Revocation!RevocationAssumption /\ Certs!CertAssumption

-----------------------------------------------------------------------------
Init ==
  /\ part \in {"audit", "revocation", "certs"}
  /\ Audit!Init /\ Revocation!Init /\ Certs!Init
  /\ part # "revocation" => deployed = CHOOSE d \in Deployments : TRUE
  /\ part # "certs" => setup = CHOOSE s \in Setups : TRUE

AuditStep == part = "audit" /\ Audit!Next /\ UNCHANGED <<part, listVars, certVars>>
RevocationStep ==
  part = "revocation" /\ Revocation!Next /\ UNCHANGED <<part, auditVars, certVars>>
CertStep == part = "certs" /\ Certs!Next /\ UNCHANGED <<part, auditVars, listVars>>

Next == AuditStep \/ RevocationStep \/ CertStep
Spec == Init /\ [][Next]_<<part, auditVars, listVars, certVars>>

-----------------------------------------------------------------------------
TypeOK == Audit!TypeOK /\ Revocation!TypeOK /\ Certs!TypeOK

\* The chain of a running audit logger breaks only where an append threw.
BreaksAreThrown == Audit!BreaksAreThrown

\* What recordExecution returned is in the chain of every later process.
AckedSurvives == Audit!AckedSurvives

\* A hash in the revocation file before a check began is refused by the check.
RevokedIsRefused == Revocation!RevokedIsRefused

\* A server never forgets what revokeToken was called with on it.
OwnRevocationKept == Revocation!OwnRevocationKept

\* No server takes a persisted revocation out of the file.
NothingUnrevoked == Revocation!NothingUnrevoked

\* A certificate manager with nothing left to do has in memory what is on disk.
InStep == Certs!InStep

\* audit-logger.test.ts: a log only its logger wrote verifies when it is loaded.
ReloadVerifies == Audit!ReloadVerifies

\* cert-manager.ts: certificates are reloaded "without node restarts".
ServedIsCurrent == Certs!ServedIsCurrent
=============================================================================
