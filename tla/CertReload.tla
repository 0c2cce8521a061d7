----------------------------- MODULE CertReload -----------------------------
(***************************************************************************)
(* CertManager (security/cert-manager.ts) keeps the TLS files of a node in   *)
(* memory and loads them again when they change; rpc/tls.ts makes the       *)
(* credentials of the RPC server from what is in memory.                     *)
(*                                                                         *)
(* The files are written by another process, so a write comes between any    *)
(* two reads. What a file holds is the number of the renewal it is of.       *)
(***************************************************************************)
EXTENDS Integers, FiniteSets

CONSTANTS
  Files,       \* the files of the node: "chain", "key" and perhaps "root"
  MaxRenewals, \* bound on the writes to each file, for model checking
  Setups       \* [tls, enforced, mutual, heard]: where the node has its TLS from,
               \* whether it must, whether clients need certificates, and whether
               \* somebody listens for "error"

CertAssumption ==
  /\ Files \subseteq {"root", "chain", "key"}
  /\ MaxRenewals \in Nat
  /\ Setups \subseteq [tls : {"manager", "files", "none"}, enforced : BOOLEAN,
                      mutual : BOOLEAN, heard : BOOLEAN]

VARIABLES
  setup,   \* the one of this node
  disk,    \* disk[f]: the renewal f is of, or Absent
  torn,    \* the files that are being written
  queued,  \* the files with a change event that is not yet handled
  watched, \* the files a watcher reports on
  mem,     \* mem[f]: the buffer in memory, Absent before
  manager, \* "loading", "watching", "ready", "reloading", "disposed" or "dead"
  timer,   \* the debounce timer is set
  at,      \* the next step of loadCertificates
  unseen,  \* history: files changed while nobody watched, and not read since
  server   \* what the credentials of the RPC server were made of

vars == <<setup, disk, torn, queued, watched, mem, manager, timer, at, unseen, server>>

Absent == -1
Torn == -2
Kinds == {"root", "chain", "key"}
Contents == {Absent, Torn} \cup 0..MaxRenewals

Nothing == [f \in Kinds |-> Absent]
NotMade == [kind |-> "none", of |-> Nothing]
Refused == [kind |-> "refused", of |-> Nothing]
Insecure == [kind |-> "insecure", of |-> Nothing]
Creds == [kind : {"none", "refused", "insecure", "ssl"}, of : [Kinds -> Contents]]

TypeOK ==
  /\ setup \in Setups
  /\ disk \in [Kinds -> Contents \ {Torn}] /\ torn \subseteq Files
  /\ mem \in [Kinds -> Contents]
  /\ queued \subseteq Files /\ watched \subseteq Files /\ unseen \subseteq Kinds
  /\ manager \in {"loading", "watching", "ready", "reloading", "disposed", "dead"}
  /\ timer \in BOOLEAN
  /\ at \in {"root", "exist", "chain", "key", "inspect", "none"}
  /\ server \in Creds

\* The constructor loads before it watches.
Init ==
  /\ setup \in Setups
  /\ disk = [f \in Kinds |-> IF f \in Files THEN 0 ELSE Absent]
  /\ torn = {} /\ queued = {} /\ watched = {} /\ unseen = {}
  /\ mem = Nothing
  /\ manager = "loading" /\ at = "root"
  /\ timer = FALSE
  /\ server = NotMade

files == <<setup, disk, torn, queued, watched>>

-----------------------------------------------------------------------------
(* The process that renews the files *)

Changed(f) ==
  IF f \in watched THEN queued' = queued \cup {f} /\ UNCHANGED unseen
                   ELSE unseen' = unseen \cup {f} /\ UNCHANGED queued

\* The file is overwritten: truncated, then filled. Each is an event.
Truncate(f) ==
  /\ disk[f] \in 0..(MaxRenewals - 1) /\ f \notin torn
  /\ disk' = [disk EXCEPT ![f] = @ + 1]
  /\ torn' = torn \cup {f}
  /\ Changed(f)
  /\ UNCHANGED <<setup, watched, mem, manager, timer, at, server>>

Fill(f) ==
  /\ f \in torn
  /\ torn' = torn \ {f}
  /\ Changed(f)
  /\ UNCHANGED <<setup, disk, watched, mem, manager, timer, at, server>>

\* A new file is moved over it. The event of that is the last: the watcher stays
\* with the file that is gone.
Replace(f) ==
  /\ disk[f] \in 0..(MaxRenewals - 1) /\ f \notin torn
  /\ disk' = [disk EXCEPT ![f] = @ + 1]
  /\ Changed(f)
  /\ watched' = watched \ {f}
  /\ UNCHANGED <<setup, torn, mem, manager, timer, at, server>>

Renewal == \E f \in Files : Truncate(f) \/ Fill(f) \/ Replace(f)

-----------------------------------------------------------------------------
(* loadCertificates *)

Loading == manager \in {"loading", "reloading"}

\* The load throws. The constructor throws too; of a reload the error is emitted,
\* which is fatal when nobody hears it.
Throws ==
  /\ at' = "none"
  /\ manager' = IF manager = "loading" \/ ~setup.heard THEN "dead" ELSE "ready"

Loaded ==
  /\ at' = "none"
  /\ manager' = IF manager = "loading" THEN "watching" ELSE "ready"

OnDisk(f) == IF f \in torn THEN Torn ELSE disk[f]
Read(f) == mem' = [mem EXCEPT ![f] = OnDisk(f)] /\ unseen' = unseen \ {f}

\* A root that is not there leaves the one in memory.
ReadRoot ==
  /\ Loading /\ at = "root"
  /\ IF disk["root"] # Absent THEN Read("root") ELSE UNCHANGED <<mem, unseen>>
  /\ at' = "exist"
  /\ UNCHANGED <<files, manager, timer, server>>

FindPair ==
  /\ Loading /\ at = "exist"
  /\ IF Absent \in {disk["chain"], disk["key"]}
       THEN Throws
       ELSE at' = "chain" /\ UNCHANGED manager
  /\ UNCHANGED <<files, mem, timer, unseen, server>>

ReadChain ==
  /\ Loading /\ at = "chain"
  /\ Read("chain")
  /\ at' = "key"
  /\ UNCHANGED <<files, manager, timer, server>>

\* MUTANT of ReadKey: a key that is in memory is taken to be the one of the chain.
ReadKeyOnce ==
  /\ Loading /\ at = "key"
  /\ IF mem["key"] = Absent THEN Read("key") ELSE UNCHANGED <<mem, unseen>>
  /\ at' = "inspect"
  /\ UNCHANGED <<files, manager, timer, server>>

ReadKey ==
  /\ Loading /\ at = "key"
  /\ Read("key")
  /\ at' = "inspect"
  /\ UNCHANGED <<files, manager, timer, server>>

\* A reload inspects the chain, which throws if it was read half written; the
\* constructor does not look.
Inspect ==
  /\ Loading /\ at = "inspect"
  /\ IF manager = "reloading" /\ mem["chain"] = Torn THEN Throws ELSE Loaded
  /\ UNCHANGED <<files, mem, timer, unseen, server>>

-----------------------------------------------------------------------------
(* Watching, the debounce timer, dispose *)

\* setupWatchers: only files that are there when the manager is made are watched.
Watch ==
  /\ manager = "watching"
  /\ watched' = {f \in Files : disk[f] # Absent}
  /\ manager' = "ready"
  /\ UNCHANGED <<setup, disk, torn, queued, mem, timer, at, unseen, server>>

\* scheduleReload: the timer is set, again if it was.
Event ==
  /\ manager = "ready"
  /\ \E f \in queued : queued' = queued \ {f}
  /\ timer' = TRUE
  /\ UNCHANGED <<setup, disk, torn, watched, mem, manager, at, unseen, server>>

\* The timer fires. (reload() does the same, and throws to its caller.)
Fire ==
  /\ manager = "ready" /\ timer
  /\ timer' = FALSE
  /\ manager' = "reloading" /\ at' = "root"
  /\ UNCHANGED <<files, mem, unseen, server>>

Dispose ==
  /\ manager = "ready"
  /\ manager' = "disposed"
  /\ timer' = FALSE /\ watched' = {} /\ queued' = {}
  /\ UNCHANGED <<setup, disk, torn, mem, at, unseen, server>>

-----------------------------------------------------------------------------
(* rpc/tls.ts *)

\* The buffers of the manager, or the files themselves.
Held == IF setup.tls = "manager" THEN mem ELSE [f \in Kinds |-> OnDisk(f)]
Made == [kind |-> "ssl", of |-> Held]

\* What comes of it when making credentials throws.
Fallback == IF setup.enforced THEN Refused ELSE Insecure

\* Half a file may pass for a certificate until it is used, or throw at once.
MadeOf(fs) == IF \E f \in fs : Held[f] = Torn THEN {Made, Fallback} ELSE {Made}

\* createServerCredentials: mutual TLS without a root is refused in any mode.
ServerCredentials ==
  IF setup.mutual /\ (setup.tls = "none" \/ Held["root"] = Absent) THEN {Refused}
  ELSE IF setup.tls = "none" THEN {Fallback} ELSE MadeOf(Kinds)

\* LiopRpcServer.listen, once: the credentials are those of the moment.
Listen ==
  /\ manager \in {"ready", "disposed"} /\ server = NotMade
  /\ server' \in ServerCredentials
  /\ UNCHANGED <<files, mem, manager, timer, at, unseen>>

-----------------------------------------------------------------------------
Load == ReadRoot \/ FindPair \/ ReadChain \/ ReadKey \/ Inspect
Next == Renewal \/ Load \/ Watch \/ Event \/ Fire \/ Dispose \/ Listen

Spec == Init /\ [][Next]_vars

-----------------------------------------------------------------------------
(* Properties *)

Idle == manager = "ready" /\ queued = {} /\ ~timer

\* With nothing left to do the manager has in memory what is on disk, file by file,
\* however renewals of its files crossed with a load (CertManager.scheduleReload);
\* but for a change nobody watched for (before setupWatchers, or after a file was
\* replaced).
InStep == Idle => \A f \in Files \ unseen : mem[f] = OnDisk(f)

\* cert-manager.ts: hot-reloading for mutual TLS without node restarts.
ServedIsCurrent == Idle /\ unseen = {} /\ server.kind = "ssl" => server.of = mem
=============================================================================
