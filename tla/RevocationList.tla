--------------------------- MODULE RevocationList ---------------------------
(***************************************************************************)
(* The token revocation list of LiopServer (server/index.ts): a JSON file   *)
(* shared by server processes and edited by operators, cached in each       *)
(* process and reloaded when its modification time is newer than the last   *)
(* one loaded. No lock protects it. revokeTokenHash writes the whole cached  *)
(* list, not atomically: the file is cut to nothing, then filled. It then    *)
(* takes the modification time of the file as loaded.                        *)
(*                                                                         *)
(* A server answers one call at a time (nothing here awaits); the steps of  *)
(* a call are its file operations, and those of several processes           *)
(* interleave. Modification times are counted in writes.                    *)
(***************************************************************************)
EXTENDS Integers

CONSTANTS
  Servers,
  Hashes,       \* token hashes
  NoHash,       \* "no call in progress"
  Deployments,  \* who uses the file, and what may fail, see Deployment
  MaxWrites     \* no revocation or edit begins after so many writes

\* running: the servers on the file; revokers: those on which revokeToken is
\* called; operator: whether the file is edited by hand; present: whether it exists
\* before the first server; faults: the file does not open ("save") or does not
\* take the list ("full"), or a server dies writing it ("die").
Deployment ==
  [running : SUBSET Servers, revokers : SUBSET Servers, operator : BOOLEAN,
   present : BOOLEAN, faults : SUBSET {"save", "full", "die"}]

RevocationAssumption ==
  /\ Deployments \subseteq Deployment
  /\ NoHash \notin Hashes
  /\ MaxWrites \in Nat

VARIABLES
  deployed, \* the deployment; never changes
  exists,   \* the file exists
  file,     \* the hashes in the file, or last in it while it is cut
  whole,    \* the file is not cut
  mtime,    \* its modification time
  known,    \* known[s]: revokedTokenHashes
  loaded,   \* loaded[s]: lastRevocationLoadTime
  pc,       \* where s is in its call
  op,       \* op[s]: "start", "check" or "revoke"
  arg,      \* arg[s]: the hash the call is about
  seen,     \* seen[s]: the modification time s got from stat
  acked,    \* history: hashes whose revocation was persisted
  due,      \* history: the hash s checks had been revoked when the check began
  own       \* history: hashes s was asked to revoke since it started

vars == <<deployed, exists, file, whole, mtime, known, loaded, pc, op, arg, seen, acked, due,
          own>>
call == <<pc, op, arg, seen>>
disk == <<deployed, exists, file, whole, mtime>>
history == <<acked, due, own>>

TypeOK ==
  /\ deployed \in Deployments
  /\ exists \in BOOLEAN
  /\ file \subseteq Hashes
  /\ whole \in BOOLEAN
  /\ mtime \in Nat
  /\ known \in [Servers -> SUBSET Hashes]
  /\ loaded \in [Servers -> -1..mtime]
  /\ pc \in [Servers -> {"idle", "load", "create", "make", "created", "read",
                         "loaded", "write", "fill", "stat"}]
  /\ op \in [Servers -> {"start", "check", "revoke"}]
  /\ arg \in [Servers -> Hashes \cup {NoHash}]
  /\ seen \in [Servers -> -1..mtime]
  /\ acked \subseteq Hashes
  /\ due \in [Servers -> BOOLEAN]
  /\ own \in [Servers -> SUBSET Hashes]

\* Every server begins with the load of its constructor.
Init ==
  /\ deployed \in Deployments
  /\ exists = deployed.present
  /\ file = {}
  /\ whole = TRUE
  /\ mtime = 0
  /\ known = [s \in Servers |-> {}]
  /\ loaded = [s \in Servers |-> -1]
  /\ pc = [s \in Servers |-> IF s \in deployed.running THEN "load" ELSE "idle"]
  /\ op = [s \in Servers |-> "start"]
  /\ arg = [s \in Servers |-> NoHash]
  /\ seen = [s \in Servers |-> -1]
  /\ acked = {}
  /\ due = [s \in Servers |-> FALSE]
  /\ own = [s \in Servers |-> {}]

Goto(s, l) == pc' = [pc EXCEPT ![s] = l]

\* A write gives the file a modification time of its own.
Store(content) ==
  /\ mtime' = mtime + 1
  /\ file' = content
  /\ whole' = TRUE
  /\ exists' = TRUE
  /\ UNCHANGED deployed

-----------------------------------------------------------------------------
(* Calls *)

Begin(s, o, h) ==
  /\ pc[s] = "idle"
  /\ Goto(s, "load")
  /\ op' = [op EXCEPT ![s] = o]
  /\ arg' = [arg EXCEPT ![s] = h]

\* A request: the bearer token or the session's token is looked up.
Check(s, h) ==
  /\ Begin(s, "check", h)
  /\ due' = [due EXCEPT ![s] = h \in acked]
  /\ UNCHANGED <<disk, known, loaded, seen, acked, own>>

Revoke(s, h) ==
  /\ s \in deployed.revokers
  /\ mtime < MaxWrites
  /\ Begin(s, "revoke", h)
  /\ own' = [own EXCEPT ![s] = @ \cup {h}]
  /\ UNCHANGED <<disk, known, loaded, seen, acked, due>>

-----------------------------------------------------------------------------
(* loadRevocationList *)

Unchanged(s) == mtime <= loaded[s]

\* The file is there and no newer: the cache stands.
Skip(s) ==
  /\ pc[s] = "load"
  /\ exists
  /\ Unchanged(s)
  /\ Goto(s, "loaded")
  /\ UNCHANGED <<disk, known, loaded, op, arg, seen, history>>

StatNewer(s) ==
  /\ pc[s] = "load"
  /\ exists
  /\ ~Unchanged(s)
  /\ seen' = [seen EXCEPT ![s] = mtime]
  /\ Goto(s, "read")
  /\ UNCHANGED <<disk, known, loaded, op, arg, history>>

\* MUTANT of Reload: the time of the load, later than that of the stat.
ReloadNow(s) ==
  /\ pc[s] = "read"
  /\ whole
  /\ loaded' = [loaded EXCEPT ![s] = seen[s] + 1]
  /\ known' = [known EXCEPT ![s] = file]
  /\ Goto(s, "loaded")
  /\ UNCHANGED <<disk, op, arg, seen, history>>

\* The list in memory is replaced by the one in the file.
Reload(s) ==
  /\ pc[s] = "read"
  /\ whole
  /\ known' = [known EXCEPT ![s] = file]
  /\ loaded' = [loaded EXCEPT ![s] = seen[s]]
  /\ Goto(s, "loaded")
  /\ UNCHANGED <<disk, op, arg, seen, history>>

\* What is read does not parse: the error is logged, the cache stands.
ReadCut(s) ==
  /\ pc[s] = "read"
  /\ ~whole
  /\ Goto(s, "loaded")
  /\ UNCHANGED <<disk, known, loaded, op, arg, seen, history>>

Missing(s) ==
  /\ pc[s] = "load"
  /\ ~exists
  /\ Goto(s, "create")
  /\ UNCHANGED <<disk, known, loaded, op, arg, seen, history>>

\* writeFileSync of the empty list, over whatever another process put there
\* meanwhile: first the file is opened and cut.
CreateCuts(s) ==
  /\ pc[s] = "create"
  /\ mtime' = mtime + 1
  /\ whole' = FALSE
  /\ exists' = TRUE
  /\ Goto(s, "make")
  /\ UNCHANGED <<deployed, file, known, loaded, op, arg, seen, history>>

\* Then the list is written.
Create(s) ==
  /\ pc[s] = "make"
  /\ Store({})
  /\ Goto(s, "created")
  /\ UNCHANGED <<known, loaded, op, arg, seen, history>>

\* Either throws: the error is logged, nothing counts as loaded.
CreateError(s) ==
  /\ \/ "save" \in deployed.faults /\ pc[s] = "create" /\ UNCHANGED file
     \/ "full" \in deployed.faults /\ pc[s] = "make" /\ file' = {}
  /\ Goto(s, "loaded")
  /\ UNCHANGED <<deployed, exists, whole, mtime, known, loaded, op, arg, seen, history>>

\* lastRevocationLoadTime = Date.now(), in whole milliseconds: the file just
\* made, which has the finer time of its write, may still count as newer.
Created(s) ==
  /\ pc[s] = "created"
  /\ \E t \in {mtime - 1, mtime} : loaded' = [loaded EXCEPT ![s] = t]
  /\ Goto(s, "loaded")
  /\ UNCHANGED <<disk, known, op, arg, seen, history>>

-----------------------------------------------------------------------------
(* After the load *)

Return(s) ==
  /\ pc' = [pc EXCEPT ![s] = "idle"]
  /\ op' = [op EXCEPT ![s] = "check"]
  /\ arg' = [arg EXCEPT ![s] = NoHash]
  /\ seen' = [seen EXCEPT ![s] = -1]

Refuses(s) == arg[s] \in known[s]

\* The check is answered, or the constructor goes on.
Answer(s) ==
  /\ pc[s] = "loaded"
  /\ op[s] \in {"check", "start"}
  /\ Return(s)
  /\ due' = [due EXCEPT ![s] = FALSE]
  /\ UNCHANGED <<disk, known, loaded, acked, own>>

AddToMemory(s) ==
  /\ pc[s] = "loaded"
  /\ op[s] = "revoke"
  /\ known' = [known EXCEPT ![s] = @ \cup {arg[s]}]
  /\ Goto(s, "write")
  /\ UNCHANGED <<disk, loaded, op, arg, seen, history>>

\* writeFileSync, first half: the file is opened and cut.
CutFile(s) ==
  /\ pc[s] = "write"
  /\ mtime' = mtime + 1
  /\ whole' = FALSE
  /\ exists' = TRUE
  /\ Goto(s, "fill")
  /\ UNCHANGED <<deployed, file, known, loaded, op, arg, seen, history>>

\* MUTANT of WriteList: only the new hash is written.
WriteOneHash(s) ==
  /\ pc[s] = "fill"
  /\ Store({arg[s]})
  /\ Goto(s, "stat")
  /\ UNCHANGED <<known, loaded, op, arg, seen, history>>

\* Second half: the list is written.
WriteList(s) ==
  /\ pc[s] = "fill"
  /\ Store(known[s])
  /\ Goto(s, "stat")
  /\ UNCHANGED <<known, loaded, op, arg, seen, history>>

\* MUTANT of WriteError: the next load is forced to read the file.
WriteErrorReloads(s) ==
  /\ "save" \in deployed.faults
  /\ pc[s] = "write"
  /\ loaded' = [loaded EXCEPT ![s] = -1]
  /\ Return(s)
  /\ UNCHANGED <<disk, known, history>>

\* The error is logged; the hash stays in this process's memory.
WriteError(s) ==
  /\ "save" \in deployed.faults
  /\ pc[s] = "write"
  /\ Return(s)
  /\ UNCHANGED <<disk, known, loaded, history>>

\* The file is cut and the list does not fit: logged as well.
WriteFull(s) ==
  /\ "full" \in deployed.faults
  /\ pc[s] = "fill"
  /\ file' = {}
  /\ Return(s)
  /\ UNCHANGED <<deployed, exists, whole, mtime, known, loaded, history>>

\* The file is taken as loaded at the time it now has.
StatOwnWrite(s) ==
  /\ pc[s] = "stat"
  /\ loaded' = [loaded EXCEPT ![s] = mtime]
  /\ acked' = acked \cup {arg[s]}
  /\ Return(s)
  /\ UNCHANGED <<disk, known, due, own>>

\* A new process begins with the load of its constructor.
Reborn(s) ==
  /\ known' = [known EXCEPT ![s] = {}]
  /\ loaded' = [loaded EXCEPT ![s] = -1]
  /\ own' = [own EXCEPT ![s] = {}]
  /\ pc' = [pc EXCEPT ![s] = "load"]
  /\ op' = [op EXCEPT ![s] = "start"]
  /\ arg' = [arg EXCEPT ![s] = NoHash]
  /\ seen' = [seen EXCEPT ![s] = -1]
  /\ UNCHANGED <<acked, due>>

\* The process is restarted between two calls: its memory goes.
Restart(s) ==
  /\ pc[s] = "idle"
  /\ Reborn(s)
  /\ UNCHANGED disk

\* The process dies between cutting the file and filling it.
Die(s) ==
  /\ "die" \in deployed.faults
  /\ pc[s] \in {"make", "fill"}
  /\ Reborn(s)
  /\ file' = {}
  /\ UNCHANGED <<deployed, exists, whole, mtime>>

\* An operator adds a hash to the file (hot revocation).
OperatorAdds(h) ==
  /\ deployed.operator
  /\ exists /\ whole /\ mtime < MaxWrites
  /\ Store(file \cup {h})
  /\ acked' = acked \cup {h}
  /\ UNCHANGED <<known, loaded, call, due, own>>

\* An operator takes a hash out again.
OperatorRestores(h) ==
  /\ deployed.operator
  /\ exists /\ whole /\ mtime < MaxWrites /\ h \in file
  /\ Store(file \ {h})
  /\ acked' = acked \ {h}
  /\ due' = [s \in Servers |-> due[s] /\ arg[s] # h]
  /\ UNCHANGED <<known, loaded, call, own>>

Steps(s) ==
  \/ Skip(s) \/ StatNewer(s) \/ Reload(s) \/ ReadCut(s)
  \/ Missing(s) \/ CreateCuts(s) \/ Create(s) \/ CreateError(s) \/ Created(s)
  \/ Answer(s) \/ AddToMemory(s) \/ CutFile(s) \/ WriteList(s) \/ WriteError(s) \/ WriteFull(s) \/ StatOwnWrite(s)

Next ==
  \/ \E s \in deployed.running : Steps(s) \/ Restart(s) \/ Die(s)
  \/ \E s \in deployed.running, h \in Hashes : Check(s, h) \/ Revoke(s, h)
  \/ \E h \in Hashes : OperatorAdds(h) \/ OperatorRestores(h)

Spec == Init /\ [][Next]_vars

-----------------------------------------------------------------------------
(* Properties *)

\* A hash that was in the file before a check began is refused by that check, on
\* every server (negotiateIntent and executeLogic rely on it), as long as no server
\* rewrites the file, during which it reads as nothing, or makes it: the hash that
\* an operator adds between the two steps of that counts as loaded.
RevokedIsRefused ==
  \A s \in Servers :
    /\ deployed.revokers = {} /\ deployed.present
    /\ pc[s] = "loaded" /\ op[s] = "check" /\ due[s]
    => Refuses(s)

\* At most one server writes the file: nothing locks it between a load and the
\* write after it, and of two servers that do both, the last takes out what the
\* first put in. One that finds no file writes it too.
OneWriter ==
  \A s, t \in deployed.running :
    (s \in deployed.revokers /\ t \in deployed.revokers) \/ ~deployed.present => s = t

\* A running server never forgets what it was itself told to revoke, persisted or
\* not, whatever write fails, unless the file is edited by hand or written by
\* another server, or the server had to make the file: when a revocation then
\* cannot be written, the empty list just made may still count as newer.
OwnRevocationKept ==
  \A s \in Servers :
    OneWriter /\ ~deployed.operator /\ (deployed.present \/ "save" \notin deployed.faults) =>
      own[s] \subseteq known[s] \cup (IF op[s] = "revoke" THEN {arg[s]} ELSE {})

\* No server takes a persisted revocation out of the list, when its writes are
\* whole or fail at once: what it writes has all that it read.
NothingUnrevoked ==
  [][OneWriter /\ deployed.faults \subseteq {"save"} /\ ~deployed.operator
       => file \subseteq file']_file
=============================================================================
