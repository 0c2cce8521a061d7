---------------------------- MODULE LogicSession ----------------------------
(***************************************************************************)
(* The two RPC handlers of LiopServer.connectToMesh (server/index.ts):      *)
(* negotiateIntent opens a session holding a post-quantum key, executeLogic *)
(* runs encrypted logic under one. The server is one thread: what lies      *)
(* between two awaits is one step, and other calls, the revocation of a     *)
(* token and the passing of time come in between. Logic runs in a pool of   *)
(* worker threads that looks at the age of the session again.               *)
(*                                                                         *)
(* A session is named by the call that opened it, a token by itself; the    *)
(* revocation list is the set the server reads (RevocationList has its      *)
(* file). An agent may name any session, its own or not, or none at all.    *)
(***************************************************************************)
EXTENDS Integers, Sequences, FiniteSets

CONSTANTS
  Calls,       \* RPC calls, each handled once
  Tokens,      \* bearer tokens
  NoToken,     \* no authorization header, or a session opened without one
  NoSession,   \* a session token nobody was given
  AuthModes,   \* the ways config.auth may set the node up: "jwt", "local", "none"
  LocalToken,  \* config.auth.localTestToken
  Threads,     \* maxThreads of the worker pool
  MaxQueue,    \* maxQueue of the worker pool
  TTL,         \* lifetime of a session (an hour)
  MaxClock,    \* bound on the clock, for model checking
  Faults       \* which failures the environment may inject

SessionAssumption ==
  /\ NoToken \notin Tokens /\ NoSession \notin Calls
  /\ AuthModes \subseteq {"jwt", "local", "none"} /\ LocalToken \in Tokens
  /\ {Threads, MaxQueue, TTL, MaxClock} \subseteq Nat /\ TTL < MaxClock
  /\ Faults \subseteq {"keygen", "append", "write"}

VARIABLES
  Auth,      \* how config.auth has set the node up
  clock,
  revoked,   \* the revocation list
  sessions,  \* sessions[c]: the session call c opened, NoRecord without one
  call,      \* call[c]: its kind, bearer token and session
  pc,        \* where the handler of c is
  held,      \* held[c]: the session c looked up, as it was then
  began,     \* began[c]: when the worker began the logic of c, -1 before
  answer,    \* the answers given to c, in order
  audit,     \* audit[c]: the statuses of c in the audit file, in order
  barred,    \* history: tokens revoked when c arrived
  broken     \* history: the calls whose stream threw on a write

vars == <<Auth, clock, revoked, sessions, call, pc, held, began, answer, audit, barred,
          broken>>

NoRecord == [token |-> NoToken, born |-> -1]
NoCall == [kind |-> "none", token |-> NoToken, session |-> NoSession]

PCs == {"new", "validating", "keygen", "decap", "queued", "running", "proxy",
        "scanning", "done", "hung"}
Answers == {"refused", "accepted", "blocked", "result", "withheld", "error"}
Statuses == {"SUCCESS", "BLOCKED_EGRESS", "ERROR"}

Records == [token : Tokens \cup {NoToken}, born : -1..MaxClock]

TypeOK ==
  /\ Auth \in AuthModes
  /\ clock \in 0..MaxClock
  /\ revoked \subseteq Tokens
  /\ sessions \in [Calls -> Records] /\ held \in [Calls -> Records]
  /\ call \in [Calls -> [kind : {"none", "negotiate", "execute"},
                         token : Tokens \cup {NoToken},
                         session : Calls \cup {NoSession}]]
  /\ pc \in [Calls -> PCs]
  /\ began \in [Calls -> -1..MaxClock]
  /\ answer \in [Calls -> Seq(Answers)] /\ audit \in [Calls -> Seq(Statuses)]
  /\ barred \in [Calls -> SUBSET Tokens]
  /\ broken \subseteq Calls

Init ==
  /\ Auth \in AuthModes
  /\ clock = 0
  /\ revoked = {}
  /\ sessions = [c \in Calls |-> NoRecord]
  /\ call = [c \in Calls |-> NoCall]
  /\ pc = [c \in Calls |-> "new"]
  /\ held = [c \in Calls |-> NoRecord]
  /\ began = [c \in Calls |-> -1]
  /\ answer = [c \in Calls |-> <<>>]
  /\ audit = [c \in Calls |-> <<>>]
  /\ barred = [c \in Calls |-> {}]
  /\ broken = {}

-----------------------------------------------------------------------------
Goto(c, l) == pc' = [pc EXCEPT ![c] = l]

Answer(c, a) ==
  /\ answer' = [answer EXCEPT ![c] = Append(@, a)]
  /\ Goto(c, "done")

Expired(s) == clock - sessions[s].born > TTL
Tool == <<began, audit, broken>>
others == <<Auth, clock, revoked, sessions, call, held, barred>>

\* proceed, up to its first await: the session exists, is young and its token
\* still stands. A session found too old is dropped.
Proceed(c, s) ==
  IF s = NoSession \/ sessions[s] = NoRecord
    THEN Answer(c, "refused") /\ UNCHANGED <<sessions, held>>
    ELSE IF Expired(s)
      THEN Answer(c, "refused") /\ sessions' = [sessions EXCEPT ![s] = NoRecord] /\ UNCHANGED held
      ELSE IF sessions[s].token \in revoked
        THEN Answer(c, "refused") /\ UNCHANGED <<sessions, held>>
        ELSE /\ Goto(c, "decap")
             /\ held' = [held EXCEPT ![c] = sessions[s]]
             /\ UNCHANGED <<sessions, answer>>

\* Both handlers go on here when the caller is let in.
LetIn(c, kind, s) ==
  IF kind = "negotiate" THEN Goto(c, "keygen") /\ UNCHANGED <<sessions, held, answer>>
                        ELSE Proceed(c, s)

\* MUTANT of Admit: revocation is left to the check of the session.
AdmitListed(c, kind, t, s) ==
  CASE Auth = "none" -> LetIn(c, kind, s)
    [] Auth # "none" /\ t = NoToken -> Answer(c, "refused") /\ UNCHANGED <<sessions, held>>
    [] Auth = "local" /\ t # NoToken ->
         IF t = LocalToken THEN LetIn(c, kind, s)
                           ELSE Answer(c, "refused") /\ UNCHANGED <<sessions, held>>
    [] OTHER -> Goto(c, "validating") /\ UNCHANGED <<sessions, held, answer>>

\* The synchronous head of both handlers: the header, the revocation list,
\* the pre-shared token of a restricted node.
Admit(c, kind, t, s) ==
  CASE Auth = "none" -> LetIn(c, kind, s)
    [] Auth # "none" /\ (t = NoToken \/ t \in revoked) ->
         Answer(c, "refused") /\ UNCHANGED <<sessions, held>>
    [] Auth = "local" /\ t \notin {NoToken} \cup revoked ->
         IF t = LocalToken THEN LetIn(c, kind, s)
                           ELSE Answer(c, "refused") /\ UNCHANGED <<sessions, held>>
    [] OTHER -> Goto(c, "validating") /\ UNCHANGED <<sessions, held, answer>>

Arrive(c, kind, t, s) ==
  /\ pc[c] = "new"
  /\ kind = "negotiate" => s = NoSession
  /\ call' = [call EXCEPT ![c] = [kind |-> kind, token |-> t, session |-> s]]
  /\ barred' = [barred EXCEPT ![c] = revoked]
  /\ Admit(c, kind, t, s)
  /\ UNCHANGED <<Auth, clock, revoked, Tool>>

\* jwtValidator.validate and authorizeRequest: the token stands or it does not.
Validated(c) ==
  /\ pc[c] = "validating"
  /\ \/ LetIn(c, call[c].kind, call[c].session)
     \/ Answer(c, "refused") /\ UNCHANGED <<sessions, held>>
  /\ UNCHANGED <<Auth, clock, revoked, call, barred, Tool>>

\* MUTANT of OpenSession: the first moment after the session is stored.
OpenSessionUnstamped(c) ==
  /\ pc[c] = "keygen"
  /\ sessions' = [sessions EXCEPT ![c] =
       [token |-> IF Auth = "none" THEN NoToken ELSE call[c].token, born |-> clock + TTL + 1]]
  /\ Answer(c, "accepted")
  /\ UNCHANGED <<Auth, clock, revoked, call, held, barred, Tool>>

\* generateKeyPair resolves: the session is stored, then the agent is told.
OpenSession(c) ==
  /\ pc[c] = "keygen"
  /\ sessions' = [sessions EXCEPT ![c] =
       [token |-> IF Auth = "none" THEN NoToken ELSE call[c].token, born |-> clock]]
  /\ Answer(c, "accepted")
  /\ UNCHANGED <<Auth, clock, revoked, call, held, barred, Tool>>

\* generateKeyPair rejects: its promise is nobody's, the callback never called.
KeygenFails(c) ==
  /\ "keygen" \in Faults
  /\ pc[c] = "keygen"
  /\ Goto(c, "hung")
  /\ UNCHANGED <<Auth, clock, revoked, sessions, call, held, answer, barred, Tool>>

-----------------------------------------------------------------------------
(* executeLogic, from the decryption to the answer *)

Waiting == {c \in Calls : pc[c] = "queued"}
Running == {c \in Calls : pc[c] = "running"}

\* The key does not open the message, or the preflight policy objects.
Preflight(c) ==
  /\ pc[c] = "decap"
  /\ \E a \in {"refused", "blocked"} : Answer(c, a)
  /\ UNCHANGED <<Auth, clock, revoked, sessions, call, held, barred, Tool>>

Recorded(c, statuses) == audit' = [audit EXCEPT ![c] = @ \o statuses]

\* MUTANT of Rejects: the JWT branch has no handler either.
RejectsSilently(c) == Goto(c, "hung") /\ UNCHANGED answer

\* The answers of the catch block when the pool, the worker or an append threw:
\* the failure is recorded first, and if that throws too the handler rejects.
\* Only the JWT branch has a handler for it, which calls it an invalid token.
Rejects(c) ==
  IF Auth = "jwt" THEN Answer(c, "refused")
                   ELSE Goto(c, "hung") /\ UNCHANGED answer

\* MUTANT of Caught: a failure is answered before it is recorded.
CaughtAnswered(c) ==
  /\ Answer(c, "error")
  /\ \/ Recorded(c, <<"ERROR">>)
     \/ "append" \in Faults /\ UNCHANGED audit
  /\ UNCHANGED broken

\* The answer does not go out: the stream is closed without it.
Breaks(c) ==
  /\ "write" \in Faults
  /\ broken' = broken \cup {c}

Caught(c) ==
  \/ /\ Recorded(c, <<"ERROR">>)
     /\ \/ Answer(c, "error") /\ UNCHANGED broken
        \/ Breaks(c) /\ Goto(c, "done") /\ UNCHANGED answer
  \/ /\ "append" \in Faults
     /\ UNCHANGED <<audit, broken>>
     /\ Rejects(c)

\* workerPool.run: queued, or refused because the queue is full.
Submit(c) ==
  /\ pc[c] = "decap"
  /\ \/ /\ Cardinality(Waiting) < MaxQueue \/ Cardinality(Running) < Threads
        /\ Goto(c, "queued")
        /\ UNCHANGED <<answer, audit, broken>>
     \/ /\ Cardinality(Waiting) >= MaxQueue /\ Cardinality(Running) >= Threads
        /\ Caught(c)
  /\ UNCHANGED <<others, began>>

\* MUTANT of TaskStarts: the worker trusts the check made before the queue.
TaskStartsOld(c) ==
  /\ pc[c] = "queued"
  /\ Cardinality(Running) < Threads
  /\ Goto(c, "running") /\ began' = [began EXCEPT ![c] = clock]
  /\ UNCHANGED <<others, answer, audit, broken>>

\* A thread takes the task: a session that grew too old in the queue is an error.
TaskStarts(c) ==
  /\ pc[c] = "queued"
  /\ Cardinality(Running) < Threads
  /\ IF clock - held[c].born > TTL
       THEN Caught(c) /\ UNCHANGED began
       ELSE /\ Goto(c, "running") /\ began' = [began EXCEPT ![c] = clock]
            /\ UNCHANGED <<answer, audit, broken>>
  /\ UNCHANGED others

\* validateOutputPolicy: blocked at once, or on to the scanner.
CheckPolicy(c) ==
  \/ Answer(c, "blocked")
  \/ Goto(c, "scanning") /\ UNCHANGED answer

\* The worker throws, asks for a tool to be called on its behalf, or has output.
TaskEnds(c) ==
  /\ pc[c] = "running"
  /\ \/ Caught(c)
     \/ Goto(c, "proxy") /\ UNCHANGED <<answer, audit, broken>>
     \/ CheckPolicy(c) /\ UNCHANGED <<audit, broken>>
  /\ UNCHANGED <<others, began>>

\* callTool answers with an error, or there is an output (when it throws, the
\* text of the request itself).
ProxyDone(c) ==
  /\ pc[c] = "proxy"
  /\ Answer(c, "blocked") \/ CheckPolicy(c)
  /\ UNCHANGED <<others, Tool>>

\* Recorded, then answered. A write that throws is recorded as a failure too.
Release(c, status, a) ==
  \/ Recorded(c, <<status>>) /\ Answer(c, a) /\ UNCHANGED broken
  \/ /\ Breaks(c)
     /\ \/ /\ Recorded(c, <<status, "ERROR">>)
           /\ Answer(c, "error") \/ (Goto(c, "done") /\ UNCHANGED answer)
        \/ /\ "append" \in Faults
           /\ Recorded(c, <<status>>)
           /\ Rejects(c)

\* The scanner throws, or an append does; or the output passes, or is withheld.
Scanned(c) ==
  /\ pc[c] = "scanning"
  /\ \/ Caught(c)
     \/ Release(c, "SUCCESS", "result")
     \/ Release(c, "BLOCKED_EGRESS", "withheld")
  /\ UNCHANGED <<others, began>>

-----------------------------------------------------------------------------
Revoke(t) ==
  /\ t \notin revoked
  /\ revoked' = revoked \cup {t}
  /\ UNCHANGED <<Auth, clock, sessions, call, pc, held, began, answer, audit, barred, broken>>

Tick ==
  /\ clock < MaxClock
  /\ clock' = clock + 1
  /\ UNCHANGED <<Auth, revoked, sessions, call, pc, held, began, answer, audit, barred, broken>>

Handler(c) ==
  \/ Validated(c) \/ OpenSession(c) \/ KeygenFails(c) \/ Preflight(c) \/ Submit(c)
  \/ TaskStarts(c) \/ TaskEnds(c) \/ ProxyDone(c) \/ Scanned(c)

Next ==
  \/ \E c \in Calls : Handler(c)
  \/ \E c \in Calls, kind \in {"negotiate", "execute"}, t \in Tokens \cup {NoToken},
        s \in Calls \cup {NoSession} : Arrive(c, kind, t, s)
  \/ \E t \in Tokens : Revoke(t)
  \/ Tick

Spec == Init /\ [][Next]_vars

-----------------------------------------------------------------------------
(* Properties *)

\* On a node with a validator logic never begins for a call whose own token, or
\* whose session's token, had been revoked when the call arrived, however long
\* validation took.
RevokedNeverRuns ==
  Auth # "none" => \A c \in Calls : began[c] >= 0 => {call[c].token, held[c].token} \cap barred[c] = {}

\* Logic never begins on a session older than its lifetime, although the key is
\* looked up, and its age checked, before two waits of any length.
NoLogicOnExpiredKey == \A c \in Calls : began[c] >= 0 => began[c] - held[c].born <= TTL

\* The audit file tells what became of an execution. An output is released, withheld
\* or replaced by an error only after exactly that was appended for the call,
\* whatever throws; while nothing was answered nothing is recorded, unless a write to
\* the stream threw. What a refusal or a rejection by a policy leaves is not asked.
Tells(record, a, threw) ==
  /\ a = <<"result">> => record = <<"SUCCESS">>
  /\ a = <<"withheld">> => record = <<"BLOCKED_EGRESS">>
  /\ a = <<"error">> => /\ record # <<>> /\ record[Len(record)] = "ERROR"
                        /\ Len(record) = 1 \/ threw
  /\ a = <<>> => record = <<>> \/ threw

RecordTellsAnswer == \A c \in Calls : Tells(audit[c], answer[c], c \in broken)

\* On a node with a JWT validator no execution is left hanging, although recording
\* a failure may itself throw: its handler answers, unless a write threw.
ExecutionsConclude ==
  Auth = "jwt" => \A c \in Calls : call[c].kind = "execute" =>
    /\ pc[c] # "hung"
    /\ pc[c] = "done" => answer[c] # <<>> \/ c \in broken
=============================================================================
