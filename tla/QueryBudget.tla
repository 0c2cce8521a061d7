---------------------------- MODULE QueryBudget ----------------------------
(***************************************************************************)
(* The query budget of LiopServer (server/index.ts): every query charges    *)
(* the fields it reads, per client and tool, in a JSON file that several    *)
(* server processes share. Each update is a read-modify-write under a lock  *)
(* FILE (created with flag wx, removed in a finally), retried a bounded      *)
(* number of times. When the lock cannot be taken, or a file operation       *)
(* throws, the process falls back to counters in its own memory.            *)
(*                                                                         *)
(* The code between two awaits is one thread, and runPreflightPolicy and    *)
(* resetFieldBudget never await: a process handles one call at a time, and  *)
(* the interleavings are those of processes on the file system. A budget    *)
(* cell that a JSON object does not have is the cell holding 0.             *)
(***************************************************************************)
EXTENDS Integers, FiniteSets

CONSTANTS
  Procs,        \* server processes sharing the stores
  Clients,      \* agent DIDs or session tokens
  Tools, Fields,
  Stores,       \* budget files
  NoStore,      \* "no path configured"
  StoreOf,      \* StoreOf[t]: policy.budgetStorePath || config.budgetStorePath
  ConfigStore,  \* config.budgetStorePath
  Limit,        \* Limit[k]: 3, 8, 25 or the override, by tool and field
  MaxRetries,   \* attempts to create the lock file (100 in the code)
  Faults,       \* which failures the environment may inject
  MaxCrashes    \* bound on the crashes of one process, for model checking

FaultKinds == {"crash", "lockIO", "readIO", "saveIO", "unlinkIO"}

Cells == Clients \X Tools \X Fields
Budget == [Cells -> Nat]
Empty == [k \in Cells |-> 0]

QueryCells(c, t, F) == {c} \X {t} \X F
ResetCells(c, T) == {c} \X T \X Fields

Queries == {QueryCells(c, t, F) :
              c \in Clients, t \in Tools, F \in (SUBSET Fields) \ {{}}}

\* resetFieldBudget takes a client and, optionally, one tool.
ResetScopes == {{t} : t \in Tools} \cup {Tools}
Resets == {ResetCells(c, T) : c \in Clients, T \in ResetScopes}

Jobs == [op : {"query"}, store : Stores, cells : Queries]
          \cup [op : {"reset"}, store : Stores, cells : Resets]
NoJob == [op |-> "none", store |-> NoStore, cells |-> {}]

ASSUME BudgetAssumption ==
  /\ NoStore \notin Stores
  /\ StoreOf \in [Tools -> Stores \cup {NoStore}]
  /\ ConfigStore \in Stores \cup {NoStore}
  /\ Limit \in [Cells -> Nat]
  /\ MaxRetries \in Nat
  /\ Faults \subseteq FaultKinds
  /\ MaxCrashes \in Nat

VARIABLES
  lock,       \* lock[s]: the file s.lock exists
  disk,       \* disk[s]: the budgets in file s
  tmp,        \* tmp[s]: the budgets in file s.tmp; Empty when there is none
  mem,        \* mem[p]: fieldQueryBudget of process p
  pc,         \* where process p is in its call
  job,        \* the call process p is handling
  attempts,   \* failed attempts to create the lock file in this call
  view,       \* the budgets process p has read
  outcome,    \* what the action under the lock returned, or that it threw
  crashes,    \* crashes of process p so far
  charged,    \* history: queries admitted through the store, since a reset
  lent        \* history: queries process p admitted from memory, less those
              \* its resets took back

locals == <<pc, job, attempts, view, outcome>>
files == <<lock, disk, tmp>>
history == <<charged, lent>>
vars == <<lock, disk, tmp, mem, pc, job, attempts, view, outcome, crashes,
          charged, lent>>

PCs == {"idle", "lock", "read", "decide", "rename", "unlock", "fallback", "down"}
Outcomes == {"none", "ok", "rejected", "threw"}

TypeOK ==
  /\ lock \in [Stores -> BOOLEAN]
  /\ disk \in [Stores -> Budget]
  /\ tmp \in [Stores -> Budget]
  /\ mem \in [Procs -> Budget]
  /\ pc \in [Procs -> PCs]
  /\ job \in [Procs -> Jobs \cup {NoJob}]
  /\ attempts \in [Procs -> 0..MaxRetries]
  /\ view \in [Procs -> Budget]
  /\ outcome \in [Procs -> Outcomes]
  /\ crashes \in [Procs -> 0..MaxCrashes]
  /\ charged \in Budget
  /\ lent \in [Procs -> Budget]

Init ==
  /\ lock = [s \in Stores |-> FALSE]
  /\ disk = [s \in Stores |-> Empty]
  /\ tmp = [s \in Stores |-> Empty]
  /\ mem = [p \in Procs |-> Empty]
  /\ pc = [p \in Procs |-> "idle"]
  /\ job = [p \in Procs |-> NoJob]
  /\ attempts = [p \in Procs |-> 0]
  /\ view = [p \in Procs |-> Empty]
  /\ outcome = [p \in Procs |-> "none"]
  /\ crashes = [p \in Procs |-> 0]
  /\ charged = Empty
  /\ lent = [p \in Procs |-> Empty]

-----------------------------------------------------------------------------
(* Budgets *)

\* MUTANT of Within: one field under its limit is enough.
WithinSome(b, K) == \E k \in K : b[k] < Limit[k]

\* Every field is looked at before any is counted.
Within(b, K) == \A k \in K : b[k] < Limit[k]
Count(b, K) == [k \in Cells |-> IF k \in K THEN b[k] + 1 ELSE b[k]]
Clear(b, K) == [k \in Cells |-> IF k \in K THEN 0 ELSE b[k]]

\* The cells of a reset that live in the file it opens.
InStore(K, s) == {k \in K : StoreOf[k[2]] = s}

Updated(b, j) == IF j.op = "query" THEN Count(b, j.cells) ELSE Clear(b, j.cells)

-----------------------------------------------------------------------------
(* Steps of one call *)

\* The call returns: its locals are gone.
Return(p) ==
  /\ pc' = [pc EXCEPT ![p] = "idle"]
  /\ job' = [job EXCEPT ![p] = NoJob]
  /\ attempts' = [attempts EXCEPT ![p] = 0]
  /\ view' = [view EXCEPT ![p] = Empty]
  /\ outcome' = [outcome EXCEPT ![p] = "none"]

Goto(p, l) == pc' = [pc EXCEPT ![p] = l]

\* MUTANT of ApplyInMemory: the fallback counts but no longer refuses.
ApplyUnchecked(p, K) ==
  /\ mem' = [mem EXCEPT ![p] = Count(mem[p], K)]
  /\ lent' = [lent EXCEPT ![p] = Count(lent[p], K)]

\* applyInMemoryBudget: counted, or refused and nothing counted.
ApplyInMemory(p, K) ==
  IF Within(mem[p], K)
    THEN /\ mem' = [mem EXCEPT ![p] = Count(mem[p], K)]
         /\ lent' = [lent EXCEPT ![p] = Count(lent[p], K)]
    ELSE UNCHANGED <<mem, lent>>

\* runPreflightPolicy, phase 3, for a tool with a store and for one without.
StartQuery(p, c, t, F) ==
  /\ pc[p] = "idle"
  /\ IF StoreOf[t] \in Stores
       THEN /\ Goto(p, "lock")
            /\ job' = [job EXCEPT ![p] = [op |-> "query", store |-> StoreOf[t],
                                          cells |-> QueryCells(c, t, F)]]
            /\ UNCHANGED <<mem, lent, attempts, view, outcome>>
       ELSE /\ ApplyInMemory(p, QueryCells(c, t, F))
            /\ UNCHANGED locals
  /\ UNCHANGED <<files, crashes, charged>>

\* resetFieldBudget: this process's memory first, then the CONFIG store only.
StartReset(p, c, T) ==
  /\ pc[p] = "idle"
  /\ mem' = [mem EXCEPT ![p] = Clear(mem[p], ResetCells(c, T))]
  /\ lent' = [lent EXCEPT ![p] = [k \in Cells |->
                IF k \in ResetCells(c, T) THEN lent[p][k] - mem[p][k] ELSE lent[p][k]]]
  /\ IF ConfigStore \in Stores
       THEN /\ Goto(p, "lock")
            /\ job' = [job EXCEPT ![p] = [op |-> "reset", store |-> ConfigStore,
                                          cells |-> ResetCells(c, T)]]
            /\ UNCHANGED <<attempts, view, outcome>>
       ELSE UNCHANGED locals
  /\ UNCHANGED <<files, crashes, charged>>

AcquireLock(p) ==
  /\ pc[p] = "lock"
  /\ attempts[p] < MaxRetries
  /\ ~lock[job[p].store]
  /\ lock' = [lock EXCEPT ![job[p].store] = TRUE]
  /\ Goto(p, "read")
  /\ UNCHANGED <<disk, tmp, mem, job, attempts, view, outcome, crashes, history>>

\* MUTANT of LockBusy: the loop has no bound.
LockBusyUnbounded(p) ==
  /\ pc[p] = "lock"
  /\ lock[job[p].store]
  /\ attempts' = [attempts EXCEPT ![p] = @ + 1]
  /\ UNCHANGED <<files, mem, pc, job, view, outcome, crashes, history>>

\* EEXIST: spin, then try again.
LockBusy(p) ==
  /\ pc[p] = "lock"
  /\ attempts[p] < MaxRetries
  /\ lock[job[p].store]
  /\ attempts' = [attempts EXCEPT ![p] = @ + 1]
  /\ UNCHANGED <<files, mem, pc, job, view, outcome, crashes, history>>

\* MUTANT of LockTimeout: the retry loop ends and the code goes on unlocked.
LockTimeoutGoesOn(p) ==
  /\ pc[p] = "lock"
  /\ attempts[p] >= MaxRetries
  /\ Goto(p, "read")
  /\ UNCHANGED <<files, mem, job, attempts, view, outcome, crashes, history>>

LockTimeout(p) ==
  /\ pc[p] = "lock"
  /\ attempts[p] >= MaxRetries
  /\ Goto(p, "fallback")
  /\ UNCHANGED <<files, mem, job, attempts, view, outcome, crashes, history>>

\* Any other error of writeFileSync leaves the call before the try/finally:
\* when the file was created and only the write failed, nothing removes it.
LockError(p) ==
  /\ "lockIO" \in Faults
  /\ pc[p] = "lock"
  /\ attempts[p] < MaxRetries
  /\ ~lock[job[p].store]
  /\ \/ lock' = [lock EXCEPT ![job[p].store] = TRUE]
     \/ UNCHANGED lock
  /\ Goto(p, "fallback")
  /\ UNCHANGED <<disk, tmp, mem, job, attempts, view, outcome, crashes, history>>

\* MUTANT of ReadStore: the file is opened before the lock protects it, and
\* a file that is being replaced reads as empty.
ReadStoreTorn(p) ==
  /\ pc[p] = "read"
  /\ view' = [view EXCEPT ![p] = IF tmp[job[p].store] = Empty /\ attempts[p] = 0
                                   THEN disk[job[p].store] ELSE Empty]
  /\ Goto(p, "decide")
  /\ UNCHANGED <<files, mem, job, attempts, outcome, crashes, history>>

\* getPersistentBudget: a file that cannot be read or parsed counts as empty.
ReadStore(p) ==
  /\ pc[p] = "read"
  /\ \/ view' = [view EXCEPT ![p] = disk[job[p].store]]
     \/ "readIO" \in Faults /\ view' = [view EXCEPT ![p] = Empty]
  /\ Goto(p, "decide")
  /\ UNCHANGED <<files, mem, job, attempts, outcome, crashes, history>>

\* The action under the lock refuses the query and writes nothing.
Refuse(p) ==
  /\ pc[p] = "decide"
  /\ job[p].op = "query"
  /\ ~Within(view[p], job[p].cells)
  /\ outcome' = [outcome EXCEPT ![p] = "rejected"]
  /\ Goto(p, "unlock")
  /\ UNCHANGED <<files, mem, job, attempts, view, crashes, history>>

\* savePersistentBudget, first half: write the one temporary file of the store.
WriteTmp(p) ==
  /\ pc[p] = "decide"
  /\ job[p].op = "query" => Within(view[p], job[p].cells)
  /\ tmp' = [tmp EXCEPT ![job[p].store] = Updated(view[p], job[p])]
  /\ Goto(p, "rename")
  /\ UNCHANGED <<lock, disk, mem, job, attempts, view, outcome, crashes, history>>

\* savePersistentBudget, second half: rename over the store.
Rename(p) ==
  /\ pc[p] = "rename"
  /\ LET s == job[p].store IN
     /\ disk' = [disk EXCEPT ![s] = tmp[s]]
     /\ tmp' = [tmp EXCEPT ![s] = Empty]
     /\ charged' = IF job[p].op = "reset"
                     THEN Clear(charged, InStore(job[p].cells, s))
                     ELSE charged
  /\ outcome' = [outcome EXCEPT ![p] = "ok"]
  /\ Goto(p, "unlock")
  /\ UNCHANGED <<lock, mem, job, attempts, view, crashes, lent>>

\* Writing the temporary file or renaming it throws (no space, no permission).
SaveError(p) ==
  /\ "saveIO" \in Faults
  /\ \/ pc[p] = "decide" /\ (job[p].op = "query" => Within(view[p], job[p].cells))
     \/ pc[p] = "rename"
  /\ outcome' = [outcome EXCEPT ![p] = "threw"]
  /\ Goto(p, "unlock")
  /\ UNCHANGED <<files, mem, job, attempts, view, crashes, history>>

\* MUTANT of Unlock: the caller believes a query counted whose save threw.
UnlockForgetsError(p) ==
  /\ pc[p] = "unlock"
  /\ lock' = [lock EXCEPT ![job[p].store] = FALSE]
  /\ Return(p)
  /\ charged' = IF outcome[p] \in {"ok", "threw"} /\ job[p].op = "query"
                  THEN Count(charged, job[p].cells) ELSE charged
  /\ UNCHANGED <<disk, tmp, mem, crashes, lent>>

\* The finally block, then the return to the caller. Errors of unlinkSync are
\* swallowed: the lock file stays.
Unlock(p) ==
  /\ pc[p] = "unlock"
  /\ \/ lock' = [lock EXCEPT ![job[p].store] = FALSE]
     \/ "unlinkIO" \in Faults /\ UNCHANGED lock
  /\ IF outcome[p] = "threw"
       THEN Goto(p, "fallback") /\ UNCHANGED <<job, attempts, view, outcome>>
       ELSE Return(p)
  /\ charged' = IF outcome[p] = "ok" /\ job[p].op = "query"
                  THEN Count(charged, job[p].cells) ELSE charged
  /\ UNCHANGED <<disk, tmp, mem, crashes, lent>>

\* The catch of the caller: a query is counted in memory, a reset is given up.
Fallback(p) ==
  /\ pc[p] = "fallback"
  /\ IF job[p].op = "query" THEN ApplyInMemory(p, job[p].cells)
                            ELSE UNCHANGED <<mem, lent>>
  /\ Return(p)
  /\ UNCHANGED <<files, crashes, charged>>

\* The process dies: its memory goes, the files stay, a lock it held included.
Crash(p) ==
  /\ "crash" \in Faults
  /\ pc[p] # "down"
  /\ crashes[p] < MaxCrashes
  /\ crashes' = [crashes EXCEPT ![p] = @ + 1]
  /\ mem' = [mem EXCEPT ![p] = Empty]
  /\ pc' = [pc EXCEPT ![p] = "down"]
  /\ job' = [job EXCEPT ![p] = NoJob]
  /\ attempts' = [attempts EXCEPT ![p] = 0]
  /\ view' = [view EXCEPT ![p] = Empty]
  /\ outcome' = [outcome EXCEPT ![p] = "none"]
  /\ UNCHANGED <<files, history>>

Restart(p) ==
  /\ pc[p] = "down"
  /\ Goto(p, "idle")
  /\ UNCHANGED <<files, mem, job, attempts, view, outcome, crashes, history>>

-----------------------------------------------------------------------------
Working(p) ==
  \/ AcquireLock(p) \/ LockBusy(p) \/ LockTimeout(p) \/ LockError(p)
  \/ ReadStore(p) \/ Refuse(p) \/ WriteTmp(p) \/ Rename(p) \/ SaveError(p)
  \/ Unlock(p) \/ Fallback(p)

Calls(p) ==
  \/ \E c \in Clients, t \in Tools, F \in (SUBSET Fields) \ {{}} : StartQuery(p, c, t, F)
  \/ \E c \in Clients, T \in ResetScopes : StartReset(p, c, T)

Next == \E p \in Procs : Calls(p) \/ Working(p) \/ Crash(p) \/ Restart(p)

Spec == Init /\ [][Next]_vars

-----------------------------------------------------------------------------
(* Properties *)

Critical(p) == pc[p] \in {"read", "decide", "rename", "unlock"}

\* Creating the lock file with flag wx excludes: two processes are never
\* between the creation and the removal of the lock of one store, although the
\* file names no owner and whoever finishes removes whatever file is there.
MutualExclusion ==
  \A p, q \in Procs :
    p # q /\ Critical(p) /\ Critical(q) => job[p].store # job[q].store

\* No query is free: the store has counted every query it admitted since the
\* last reset, on every field, whatever crashed or threw in between, and those
\* renamed but not yet answered on top; and it never counts beyond the limit.
Pending(k) == {p \in Procs : /\ pc[p] = "unlock" /\ outcome[p] = "ok"
                             /\ job[p].op = "query" /\ k \in job[p].cells}

StoredCells == {k \in Cells : StoreOf[k[2]] \in Stores}

NoFreeQuery ==
  \A k \in StoredCells : LET n == disk[StoreOf[k[2]]][k] IN
    charged[k] + Cardinality(Pending(k)) <= n /\ n <= Limit[k]

\* What the fallback can cost: the queries a process admits from memory, and has
\* not taken back by a reset, never exceed one full limit per incarnation.
BoundedOverrun ==
  \A p \in Procs, k \in Cells : lent[p][k] <= Limit[k] * (crashes[p] + 1)

\* The promise of the envelope specification (server/index.ts:923-925): the
\* budget is persisted and only a reset or the deletion of the file resets it.
PersistentBudgetHolds ==
  \A p \in Procs, k \in StoredCells : charged[k] + lent[p][k] <= Limit[k]

\* The store is a ledger charged atomically (BudgetLedger): the whole
\* read-modify-write under the lock file takes effect at its rename.
Ledger == INSTANCE BudgetLedger WITH
            Cells <- StoredCells,
            Queries <- {K \in Queries : K \subseteq StoredCells},
            Resets <- {K \cap StoredCells : K \in {InStore(R, ConfigStore) : R \in Resets}},
            Limit <- [k \in StoredCells |-> Limit[k]],
            ledger <- [k \in StoredCells |-> disk[StoreOf[k[2]]][k]]
ImplementsLedger == Ledger!Spec

\* Without a failing read, only a reset ever takes a count back from a store.
OnlyResetForgives ==
  [][\A s \in Stores, k \in Cells :
       disk'[s][k] < disk[s][k] =>
         \E p \in Procs : job[p].op = "reset" /\ job[p].store = s /\ k \in job[p].cells]_vars

=============================================================================
