-------------------------- MODULE QueryBudgetProofs --------------------------
(***************************************************************************)
(* Proofs about QueryBudget, for any processes, stores, limits and faults.  *)
(***************************************************************************)
EXTENDS QueryBudget, FiniteSetTheorems, TLAPS

USE BudgetAssumption

-----------------------------------------------------------------------------
(* Facts about budgets *)

\* Counting, clearing and the empty budget stay within Budget.
LEMMA BudgetOps ==
  /\ Empty \in Budget
  /\ \A b \in Budget : \A K : Count(b, K) \in Budget /\ Clear(b, K) \in Budget
  /\ \A b \in Budget : \A j : Updated(b, j) \in Budget
BY DEF Empty, Budget, Count, Clear, Updated

\* A job touches cells of the budget, and a query cells of its own store.
LEMMA QueryJob ==
  ASSUME NEW c \in Clients, NEW t \in Tools, NEW F \in (SUBSET Fields) \ {{}},
         StoreOf[t] \in Stores
  PROVE  /\ [op |-> "query", store |-> StoreOf[t], cells |-> QueryCells(c, t, F)] \in Jobs
         /\ \A k \in QueryCells(c, t, F) : k \in Cells /\ StoreOf[k[2]] = StoreOf[t]
<1>1. QueryCells(c, t, F) \in Queries
  BY DEF Queries
<1>2. \A k \in QueryCells(c, t, F) : k \in Cells /\ k[2] = t
  BY DEF QueryCells, Cells
<1>3. QED
  BY <1>1, <1>2 DEF Jobs

LEMMA ResetJob ==
  ASSUME NEW c \in Clients, NEW T \in ResetScopes, ConfigStore \in Stores
  PROVE  [op |-> "reset", store |-> ConfigStore, cells |-> ResetCells(c, T)] \in Jobs
BY DEF Jobs, Resets

-----------------------------------------------------------------------------
(* Type correctness. TypeOK alone is not inductive: a reset takes back what  *)
(* the process still remembers having admitted, so that what it admitted     *)
(* must never be less.                                                       *)

MemInv ==
  \A p \in Procs, k \in Cells : /\ mem[p][k] <= lent[p][k]
                                /\ mem[p][k] <= Limit[k]

\* A call in progress has a job.
JobInv ==
  \A p \in Procs : pc[p] \notin {"idle", "down"} => job[p] \in Jobs

TypeInv == TypeOK /\ MemInv /\ JobInv

LEMMA InitTypeInv == Init => TypeInv
<1>1. Empty \in Budget /\ \A k \in Cells : Empty[k] = 0
  BY DEF Empty, Budget
<1>2. QED
  BY <1>1 DEF Init, TypeInv, TypeOK, MemInv, JobInv, PCs, Outcomes, Budget

\* What applyInMemoryBudget preserves.
LEMMA ApplyKeepsType ==
  ASSUME TypeInv, NEW p \in Procs, NEW K, ApplyInMemory(p, K)
  PROVE  /\ mem' \in [Procs -> Budget] /\ lent' \in [Procs -> Budget]
         /\ MemInv'
<1>1. CASE Within(mem[p], K)
  <2>1. mem' = [mem EXCEPT ![p] = Count(mem[p], K)] /\ lent' = [lent EXCEPT ![p] = Count(lent[p], K)]
    BY <1>1 DEF ApplyInMemory
  <2>2. mem[p] \in Budget /\ lent[p] \in Budget
    BY DEF TypeInv, TypeOK
  <2>3. mem' \in [Procs -> Budget] /\ lent' \in [Procs -> Budget]
    BY <2>1, <2>2, BudgetOps DEF TypeInv, TypeOK
  <2>4. \A k \in Cells : /\ Count(mem[p], K)[k] <= Count(lent[p], K)[k]
                         /\ Count(mem[p], K)[k] <= Limit[k]
    BY <1>1, <2>2 DEF TypeInv, MemInv, Count, Within, Budget
  <2>5. MemInv'
    BY <2>1, <2>4 DEF TypeInv, TypeOK, MemInv
  <2>6. QED
    BY <2>3, <2>5
<1>2. CASE ~Within(mem[p], K)
  BY <1>2 DEF ApplyInMemory, TypeInv, TypeOK, MemInv
<1>3. QED
  BY <1>1, <1>2

\* What returning from a call preserves.
LEMMA ReturnKeepsType ==
  ASSUME TypeInv, NEW p \in Procs, Return(p)
  PROVE  /\ pc' \in [Procs -> PCs]
         /\ job' \in [Procs -> Jobs \cup {NoJob}]
         /\ attempts' \in [Procs -> 0..MaxRetries]
         /\ view' \in [Procs -> Budget]
         /\ outcome' \in [Procs -> Outcomes]
         /\ JobInv'
<1>1. pc' \in [Procs -> PCs] /\ outcome' \in [Procs -> Outcomes]
  BY DEF Return, TypeInv, TypeOK, PCs, Outcomes
<1>2. job' \in [Procs -> Jobs \cup {NoJob}]
  BY DEF Return, TypeInv, TypeOK
<1>3. attempts' \in [Procs -> 0..MaxRetries]
  BY DEF Return, TypeInv, TypeOK
<1>4. view' \in [Procs -> Budget]
  BY BudgetOps DEF Return, TypeInv, TypeOK
<1>5. JobInv'
  BY DEF Return, TypeInv, TypeOK, JobInv
<1>6. QED
  BY <1>1, <1>2, <1>3, <1>4, <1>5

\* Inductiveness, one step per action (or group that touches the same state).
LEMMA NextTypeInv == TypeInv /\ [Next]_vars => TypeInv'
<1> SUFFICES ASSUME TypeInv, [Next]_vars
             PROVE  TypeInv'
  OBVIOUS
<1> USE BudgetOps
<1>1. ASSUME NEW p \in Procs, NEW c \in Clients, NEW t \in Tools,
             NEW F \in (SUBSET Fields) \ {{}}, StartQuery(p, c, t, F)
      PROVE  TypeInv'
  <2>1. CASE StoreOf[t] \in Stores
    <3>1. [op |-> "query", store |-> StoreOf[t], cells |-> QueryCells(c, t, F)] \in Jobs
      BY <2>1, QueryJob
    <3>2. /\ pc' = [pc EXCEPT ![p] = "lock"]
          /\ job' = [job EXCEPT ![p] = [op |-> "query", store |-> StoreOf[t],
                                        cells |-> QueryCells(c, t, F)]]
          /\ UNCHANGED <<mem, lent, attempts, view, outcome, lock, disk, tmp, crashes, charged>>
      BY <1>1, <2>1 DEF StartQuery, Goto, files
    <3>3. pc' \in [Procs -> PCs] /\ job' \in [Procs -> Jobs \cup {NoJob}] /\ JobInv'
      BY <3>1, <3>2 DEF TypeInv, TypeOK, JobInv, PCs
    <3>4. QED
      BY <3>2, <3>3 DEF TypeInv, TypeOK, MemInv
  <2>2. CASE StoreOf[t] \notin Stores
    <3>1. ApplyInMemory(p, QueryCells(c, t, F)) /\ UNCHANGED <<locals, files, crashes, charged>>
      BY <1>1, <2>2 DEF StartQuery
    <3>2. /\ mem' \in [Procs -> Budget] /\ lent' \in [Procs -> Budget]
          /\ MemInv'
      BY <3>1, ApplyKeepsType
    <3>3. QED
      BY <3>1, <3>2 DEF TypeInv, TypeOK, JobInv, locals, files
  <2>3. QED
    BY <2>1, <2>2
<1>2. ASSUME NEW p \in Procs, NEW c \in Clients, NEW T \in ResetScopes, StartReset(p, c, T)
      PROVE  TypeInv'
  <2> DEFINE K == ResetCells(c, T)
             m == Clear(mem[p], K)
             l == [k \in Cells |-> IF k \in K THEN lent[p][k] - mem[p][k] ELSE lent[p][k]]
  <2>1. mem' = [mem EXCEPT ![p] = m] /\ lent' = [lent EXCEPT ![p] = l]
    BY <1>2 DEF StartReset
  <2>2. mem[p] \in Budget /\ lent[p] \in Budget
    BY DEF TypeInv, TypeOK
  <2>3. m \in Budget /\ l \in Budget /\ \A k \in Cells : m[k] <= l[k] /\ m[k] <= Limit[k]
    BY <2>2 DEF TypeInv, MemInv, Clear, Budget
  <2> HIDE DEF m, l, K
  <2>4. mem' \in [Procs -> Budget] /\ lent' \in [Procs -> Budget] /\ MemInv'
    BY <2>1, <2>3 DEF TypeInv, TypeOK, MemInv
  <2>5. CASE ConfigStore \in Stores
    <3>1. [op |-> "reset", store |-> ConfigStore, cells |-> ResetCells(c, T)] \in Jobs
      BY <2>5, ResetJob
    <3>2. QED
      BY <1>2, <2>4, <2>5, <3>1 DEF StartReset, Goto, TypeInv, TypeOK, JobInv, PCs, files
  <2>6. CASE ConfigStore \notin Stores
    BY <1>2, <2>4, <2>6 DEF StartReset, TypeInv, TypeOK, JobInv, files, locals
  <2>7. QED
    BY <2>5, <2>6
<1>3. ASSUME NEW p \in Procs, \/ AcquireLock(p) \/ LockError(p) \/ LockBusy(p) \/ LockTimeout(p)
      PROVE  TypeInv'
  <2>1. pc[p] = "lock" /\ job[p] \in Jobs /\ attempts[p] \in 0..MaxRetries
    BY <1>3 DEF AcquireLock, LockError, LockBusy, LockTimeout, TypeInv, TypeOK, JobInv
  <2>2. CASE AcquireLock(p) \/ LockError(p)
    BY <2>1, <2>2 DEF AcquireLock, LockError, Goto, TypeInv, TypeOK, MemInv, JobInv, PCs, history
  <2>3. CASE LockBusy(p)
    BY <2>1, <2>3 DEF LockBusy, TypeInv, TypeOK, MemInv, JobInv, files, history
  <2>4. CASE LockTimeout(p)
    BY <2>1, <2>4 DEF LockTimeout, Goto, TypeInv, TypeOK, MemInv, JobInv, PCs, files, history
  <2>5. QED
    BY <1>3, <2>2, <2>3, <2>4
<1>4. ASSUME NEW p \in Procs, ReadStore(p)
      PROVE  TypeInv'
  <2>1. job[p].store \in Stores
    BY <1>4 DEF ReadStore, TypeInv, JobInv, Jobs
  <2>2. view' \in [Procs -> Budget]
    BY <1>4, <2>1 DEF ReadStore, TypeInv, TypeOK
  <2>3. QED
    BY <1>4, <2>2 DEF ReadStore, Goto, TypeInv, TypeOK, MemInv, JobInv, PCs, files, history
<1>5. ASSUME NEW p \in Procs, Refuse(p) \/ SaveError(p)
      PROVE  TypeInv'
  BY <1>5 DEF Refuse, SaveError, Goto, TypeInv, TypeOK, MemInv, JobInv, PCs, Outcomes, files, history
<1>6. ASSUME NEW p \in Procs, WriteTmp(p)
      PROVE  TypeInv'
  <2>1. job[p].store \in Stores /\ Updated(view[p], job[p]) \in Budget
    BY <1>6 DEF WriteTmp, TypeInv, TypeOK, JobInv, Jobs
  <2>2. tmp' \in [Stores -> Budget]
    BY <1>6, <2>1 DEF WriteTmp, TypeInv, TypeOK
  <2>3. QED
    BY <1>6, <2>2 DEF WriteTmp, Goto, TypeInv, TypeOK, MemInv, JobInv, PCs, history
<1>7. ASSUME NEW p \in Procs, Rename(p)
      PROVE  TypeInv'
  <2>1. job[p].store \in Stores
    BY <1>7 DEF Rename, TypeInv, JobInv, Jobs
  <2>2. disk' \in [Stores -> Budget] /\ tmp' \in [Stores -> Budget] /\ charged' \in Budget
    BY <1>7, <2>1 DEF Rename, TypeInv, TypeOK
  <2>3. QED
    BY <1>7, <2>2 DEF Rename, Goto, TypeInv, TypeOK, MemInv, JobInv, PCs, Outcomes
<1>8. ASSUME NEW p \in Procs, Unlock(p)
      PROVE  TypeInv'
  <2>1. charged' \in Budget /\ lock' \in [Stores -> BOOLEAN]
    BY <1>8 DEF Unlock, TypeInv, TypeOK
  <2>2. QED
    <3>1. CASE outcome[p] = "threw"
      BY <1>8, <2>1, <3>1 DEF Unlock, Goto, TypeInv, TypeOK, MemInv, JobInv, PCs
    <3>2. CASE outcome[p] # "threw"
      <4>1. Return(p) /\ UNCHANGED <<disk, tmp, mem, crashes, lent>>
        BY <1>8, <3>2 DEF Unlock
      <4>2. QED
        BY <2>1, <4>1, ReturnKeepsType DEF TypeInv, TypeOK, MemInv
    <3>3. QED
      BY <3>1, <3>2
<1>9. ASSUME NEW p \in Procs, Fallback(p)
      PROVE  TypeInv'
  <2>1. mem' \in [Procs -> Budget] /\ lent' \in [Procs -> Budget] /\ MemInv'
    <3>1. CASE job[p].op = "query"
      BY <1>9, <3>1, ApplyKeepsType DEF Fallback
    <3>2. CASE job[p].op # "query"
      BY <1>9, <3>2 DEF Fallback, TypeInv, TypeOK, MemInv
    <3>3. QED
      BY <3>1, <3>2
  <2>2. QED
    BY <1>9, <2>1, ReturnKeepsType DEF Fallback, TypeInv, TypeOK, files
<1>10. ASSUME NEW p \in Procs, Crash(p)
       PROVE  TypeInv'
  <2>1. mem' \in [Procs -> Budget] /\ MemInv'
    BY <1>10 DEF Crash, history, TypeInv, TypeOK, MemInv, Empty, Budget
  <2>2. crashes' \in [Procs -> 0..MaxCrashes]
    BY <1>10 DEF Crash, TypeInv, TypeOK
  <2>3. QED
    BY <1>10, <2>1, <2>2 DEF Crash, TypeInv, TypeOK, JobInv, PCs, Outcomes, files, history
<1>11. ASSUME NEW p \in Procs, Restart(p)
       PROVE  TypeInv'
  BY <1>11 DEF Restart, Goto, TypeInv, TypeOK, MemInv, JobInv, PCs, files, history
<1>12. CASE UNCHANGED vars
  BY <1>12 DEF vars, TypeInv, TypeOK, MemInv, JobInv
<1>13. QED
  BY <1>1, <1>2, <1>3, <1>4, <1>5, <1>6, <1>7, <1>8, <1>9, <1>10, <1>11, <1>12
     DEF Next, Calls, Working

\* Every reachable state of the budget protocol is well typed; in particular
\* resetFieldBudget never takes back more than its process admitted.
THEOREM TypeCorrect == Spec => []TypeOK
<1>1. Init => TypeInv  BY InitTypeInv
<1>2. TypeInv /\ [Next]_vars => TypeInv'  BY NextTypeInv
<1>3. TypeInv => TypeOK  BY DEF TypeInv
<1>4. QED  BY <1>1, <1>2, <1>3, PTL DEF Spec

\* The strengthened type invariant, for the proofs that follow.
LEMMA TypeInvCorrect == Spec => []TypeInv
<1>1. Init => TypeInv  BY InitTypeInv
<1>2. TypeInv /\ [Next]_vars => TypeInv'  BY NextTypeInv
<1>3. QED  BY <1>1, <1>2, PTL DEF Spec

-----------------------------------------------------------------------------
(* Mutual exclusion. The lock file names no owner, so the invariant is about  *)
(* the file: it exists while any process is critical on its store. That is    *)
(* what makes the next exclusive creation fail, and, as no two processes are  *)
(* critical on one store, what makes the removal in the finally harmless.     *)

LockInv == (\A p \in Procs : Critical(p) => lock[job[p].store]) /\ MutualExclusion

\* A step that leaves alone the lock files and the calls of all but p, and
\* does not bring p into the critical section, keeps the invariant.
LEMMA OutsideKeepsLock ==
  ASSUME LockInv, NEW p \in Procs, UNCHANGED lock,
         \A q \in Procs \ {p} : pc'[q] = pc[q] /\ job'[q] = job[q],
         Critical(p)' => Critical(p) /\ job'[p] = job[p]
  PROVE  LockInv'
BY DEF LockInv, MutualExclusion, Critical

LEMMA NextLockInv == TypeInv /\ LockInv /\ [Next]_vars => LockInv'
<1> SUFFICES ASSUME TypeInv, LockInv, [Next]_vars
             PROVE  LockInv'
  OBVIOUS
<1>0. pc \in [Procs -> PCs] /\ job \in [Procs -> Jobs \cup {NoJob}] /\ lock \in [Stores -> BOOLEAN]
  BY DEF TypeInv, TypeOK
<1>1. ASSUME NEW p \in Procs, NEW c \in Clients, NEW t \in Tools,
             NEW F \in (SUBSET Fields) \ {{}}, StartQuery(p, c, t, F)
      PROVE  LockInv'
  <2>1. /\ UNCHANGED lock
        /\ \A q \in Procs \ {p} : pc'[q] = pc[q] /\ job'[q] = job[q]
        /\ pc'[p] \in {"idle", "lock"}
    BY <1>0, <1>1 DEF StartQuery, Goto, locals, files
  <2>2. QED
    BY <2>1, OutsideKeepsLock DEF Critical
<1>2. ASSUME NEW p \in Procs, NEW c \in Clients, NEW T \in ResetScopes, StartReset(p, c, T)
      PROVE  LockInv'
  <2>1. /\ UNCHANGED lock
        /\ \A q \in Procs \ {p} : pc'[q] = pc[q] /\ job'[q] = job[q]
        /\ pc'[p] \in {"idle", "lock"}
    BY <1>0, <1>2 DEF StartReset, Goto, locals, files
  <2>2. QED
    BY <2>1, OutsideKeepsLock DEF Critical
<1>3. ASSUME NEW p \in Procs, AcquireLock(p)
      PROVE  LockInv'
  <2>1. /\ job[p].store \in Stores /\ ~lock[job[p].store] /\ job' = job
        /\ lock' = [lock EXCEPT ![job[p].store] = TRUE]
        /\ pc' = [pc EXCEPT ![p] = "read"]
    BY <1>3 DEF AcquireLock, Goto, TypeInv, JobInv, Jobs
  <2>2. \A q \in Procs : Critical(q) => job[q].store # job[p].store
    BY <2>1 DEF LockInv
  <2>3. \A q \in Procs \ {p} : Critical(q)' <=> Critical(q)
    BY <1>0, <2>1 DEF Critical
  <2>4. \A q \in Procs : Critical(q)' => lock'[job'[q].store]
    BY <1>0, <2>1, <2>3 DEF LockInv
  <2>5. MutualExclusion'
    BY <2>1, <2>2, <2>3 DEF LockInv, MutualExclusion
  <2>6. QED
    BY <2>4, <2>5 DEF LockInv
<1>4. ASSUME NEW p \in Procs, LockError(p)
      PROVE  LockInv'
  <2>1. /\ \A s \in Stores : lock[s] => lock'[s]
        /\ job' = job /\ pc' = [pc EXCEPT ![p] = "fallback"]
    BY <1>0, <1>4 DEF LockError, Goto
  <2>2. \A q \in Procs : Critical(q)' => Critical(q) /\ job[q].store \in Stores
    BY <1>0, <2>1 DEF Critical, TypeInv, JobInv, Jobs
  <2>3. QED
    BY <2>1, <2>2 DEF LockInv, MutualExclusion
<1>5. ASSUME NEW p \in Procs, Unlock(p)
      PROVE  LockInv'
  <2>1. /\ \A s \in Stores \ {job[p].store} : lock'[s] = lock[s]
        /\ \A q \in Procs \ {p} : pc'[q] = pc[q] /\ job'[q] = job[q]
        /\ pc'[p] \in {"idle", "fallback"} /\ Critical(p)
    BY <1>0, <1>5 DEF Unlock, Goto, Return, Critical
  <2>2. \A q \in Procs : Critical(q)' => /\ q # p /\ Critical(q)
                                        /\ job[q].store \in Stores \ {job[p].store}
    BY <1>0, <2>1 DEF Critical, LockInv, MutualExclusion, TypeInv, JobInv, Jobs
  <2>3. QED
    BY <2>1, <2>2 DEF LockInv, MutualExclusion
<1>6. ASSUME NEW p \in Procs,
             \/ ReadStore(p) \/ Refuse(p) \/ WriteTmp(p) \/ Rename(p) \/ SaveError(p)
      PROVE  LockInv'
  <2>1. /\ UNCHANGED lock /\ job' = job /\ Critical(p)
        /\ \A q \in Procs \ {p} : pc'[q] = pc[q]
    BY <1>0, <1>6 DEF ReadStore, Refuse, WriteTmp, Rename, SaveError, Goto, Critical, files
  <2>2. QED
    BY <2>1, OutsideKeepsLock
<1>7. ASSUME NEW p \in Procs,
             \/ LockBusy(p) \/ LockTimeout(p) \/ Fallback(p) \/ Crash(p) \/ Restart(p)
      PROVE  LockInv'
  <2>1. /\ UNCHANGED lock
        /\ \A q \in Procs \ {p} : pc'[q] = pc[q] /\ job'[q] = job[q]
        /\ pc'[p] \in {"lock", "fallback", "idle", "down"}
    BY <1>0, <1>7 DEF LockBusy, LockTimeout, Fallback, Crash, Restart, Return, Goto, files
  <2>2. QED
    BY <2>1, OutsideKeepsLock DEF Critical
<1>8. CASE UNCHANGED vars
  BY <1>8 DEF vars, LockInv, MutualExclusion, Critical
<1>9. QED
  BY <1>1, <1>2, <1>3, <1>4, <1>5, <1>6, <1>7, <1>8 DEF Next, Calls, Working

LEMMA LockInvCorrect == Spec => []LockInv
<1>1. Init => LockInv
  BY DEF Init, LockInv, MutualExclusion, Critical
<1>2. TypeInv /\ LockInv /\ [Next]_vars => LockInv'  BY NextLockInv
<1>3. QED  BY <1>1, <1>2, TypeInvCorrect, PTL DEF Spec

\* The exclusive creation of the lock file keeps two processes from being
\* inside executeWithBudgetLock on one store, whatever crashes or fails.
THEOREM LockExcludes == Spec => []MutualExclusion
<1>1. LockInv => MutualExclusion  BY DEF LockInv
<1>2. QED  BY <1>1, LockInvCorrect, PTL

-----------------------------------------------------------------------------
(* Calls come to an end, and a lock file left behind does not                *)

\* An upper bound on the steps that are left of the call process p is in.
Rank(p) ==
  CASE pc[p] = "lock" -> 6 + (MaxRetries - attempts[p])
    [] pc[p] = "read" -> 5
    [] pc[p] = "decide" -> 4
    [] pc[p] = "rename" -> 3
    [] pc[p] = "unlock" -> 2
    [] pc[p] = "fallback" -> 1
    [] pc[p] \in {"idle", "down"} -> 0

Longest == 6 + MaxRetries

\* A step of a call takes it nearer its end, whoever holds the lock, and no step but the start
\* of a call takes a process farther from the end of the one it is in.
CallsAdvance ==
  \A p \in Procs : /\ Working(p) => Rank(p)' < Rank(p)
                   /\ Rank(p)' > Rank(p) => pc[p] = "idle" /\ Rank(p)' <= Longest

LEMMA WorkAdvances ==
  ASSUME TypeInv, NEW p \in Procs, Working(p)
  PROVE  Rank(p)' < Rank(p) /\ Rank(p) \in Nat
<1>1. pc \in [Procs -> PCs] /\ attempts \in [Procs -> 0..MaxRetries] /\ MaxRetries \in Nat
  BY DEF TypeInv, TypeOK
<1>2. attempts[p] \in 0..MaxRetries
  BY <1>1
<1>3. CASE LockBusy(p)
  <2>1. /\ pc[p] = "lock" /\ pc'[p] = "lock" /\ attempts[p] < MaxRetries
        /\ attempts'[p] = attempts[p] + 1
    BY <1>1, <1>3 DEF LockBusy
  <2>2. QED
    BY <1>1, <1>2, <2>1 DEF Rank
<1>4. CASE AcquireLock(p) \/ LockTimeout(p) \/ LockError(p)
  <2>1. pc[p] = "lock" /\ pc'[p] \in {"read", "fallback"}
    BY <1>1, <1>4 DEF AcquireLock, LockTimeout, LockError, Goto
  <2>2. QED
    BY <1>1, <1>2, <2>1 DEF Rank
<1>5. CASE ReadStore(p) \/ Refuse(p) \/ WriteTmp(p)
  <2>1. \/ pc[p] = "read" /\ pc'[p] = "decide"
        \/ pc[p] = "decide" /\ pc'[p] \in {"unlock", "rename"}
    BY <1>1, <1>5 DEF ReadStore, Refuse, WriteTmp, Goto
  <2>2. QED
    BY <2>1 DEF Rank
<1>6. CASE Rename(p) \/ SaveError(p)
  <2>1. pc[p] \in {"decide", "rename"} /\ pc'[p] = "unlock"
    BY <1>1, <1>6 DEF Rename, SaveError, Goto
  <2>2. QED
    BY <2>1 DEF Rank
<1>7. CASE Unlock(p) \/ Fallback(p)
  <2>1. \/ pc[p] = "unlock" /\ pc'[p] \in {"fallback", "idle"}
        \/ pc[p] = "fallback" /\ pc'[p] = "idle"
    BY <1>1, <1>7 DEF Unlock, Fallback, Return, Goto
  <2>2. QED
    BY <2>1 DEF Rank
<1>8. QED
  BY <1>3, <1>4, <1>5, <1>6, <1>7 DEF Working

\* Who does not work is where it was, starts a call, dies or starts.
LEMMA RestAdvances ==
  ASSUME TypeInv, [Next]_vars, NEW p \in Procs, ~Working(p)
  PROVE  /\ Rank(p) \in Nat /\ Rank(p)' \in Nat
         /\ Rank(p)' > Rank(p) => pc[p] = "idle" /\ Rank(p)' <= Longest
<1>1. /\ pc \in [Procs -> PCs] /\ attempts \in [Procs -> 0..MaxRetries] /\ MaxRetries \in Nat
      /\ pc[p] \in PCs /\ attempts[p] \in 0..MaxRetries
  BY DEF TypeInv, TypeOK
<1>2. Rank(p) \in Nat
  BY <1>1 DEF Rank, PCs
<1>3. \/ pc'[p] = pc[p] /\ attempts'[p] = attempts[p]
      \/ pc[p] = "idle" /\ pc'[p] \in {"idle", "lock"} /\ attempts'[p] = attempts[p]
      \/ pc'[p] \in {"idle", "down"} /\ pc[p] \in PCs
  <2>1. CASE UNCHANGED vars
    BY <2>1 DEF vars
  <2>2. ASSUME NEW q \in Procs, Working(q) PROVE q # p /\ pc'[p] = pc[p] /\ attempts'[p] = attempts[p]
    <3>1. q # p
      BY <2>2
    <3>2. CASE AcquireLock(q) \/ LockBusy(q) \/ LockTimeout(q) \/ LockError(q) \/ ReadStore(q)
      BY <1>1, <3>1, <3>2 DEF AcquireLock, LockBusy, LockTimeout, LockError, ReadStore, Goto
    <3>3. CASE Refuse(q) \/ WriteTmp(q) \/ Rename(q) \/ SaveError(q)
      BY <1>1, <3>1, <3>3 DEF Refuse, WriteTmp, Rename, SaveError, Goto
    <3>4. CASE Unlock(q) \/ Fallback(q)
      BY <1>1, <3>1, <3>4 DEF Unlock, Fallback, Return, Goto
    <3>5. QED
      BY <2>2, <3>1, <3>2, <3>3, <3>4 DEF Working
  <2>3. ASSUME NEW q \in Procs, Calls(q)
        PROVE  /\ pc[q] = "idle" /\ pc'[q] \in {"idle", "lock"} /\ attempts' = attempts
               /\ \A r \in Procs \ {q} : pc'[r] = pc[r]
    BY <1>1, <2>3 DEF Calls, StartQuery, StartReset, Goto, locals
  <2>4. ASSUME NEW q \in Procs, Crash(q) \/ Restart(q)
        PROVE  /\ pc'[q] \in {"idle", "down"}
               /\ \A r \in Procs \ {q} : pc'[r] = pc[r] /\ attempts'[r] = attempts[r]
    BY <1>1, <2>4 DEF Crash, Restart, Goto
  <2>5. QED
    BY <1>1, <2>1, <2>2, <2>3, <2>4 DEF Next
<1>4. QED
  BY <1>1, <1>2, <1>3 DEF Rank, Longest, PCs

\* Whatever files fail, and however many processes contend for the lock or leave it behind:
\* runPreflightPolicy and resetFieldBudget end within MaxRetries + 6 steps of their own.
THEOREM CallsAreBounded == Spec => [][CallsAdvance]_vars
<1>1. TypeInv /\ [Next]_vars => [CallsAdvance]_vars
  <2>1. ASSUME TypeInv, [Next]_vars, NEW p \in Procs
        PROVE  /\ Working(p) => Rank(p)' < Rank(p)
               /\ Rank(p)' > Rank(p) => pc[p] = "idle" /\ Rank(p)' <= Longest
    <3>1. CASE Working(p)
      <4>1. pc'[p] \in PCs /\ attempts'[p] \in 0..MaxRetries
        BY <2>1, NextTypeInv DEF TypeInv, TypeOK
      <4>2. Rank(p)' \in Nat
        BY <4>1 DEF Rank, PCs
      <4>3. QED
        BY <2>1, <3>1, <4>2, WorkAdvances
    <3>2. CASE ~Working(p)
      BY <2>1, <3>2, RestAdvances
    <3>3. QED
      BY <3>1, <3>2
  <2>2. QED
    BY <2>1 DEF CallsAdvance
<1>2. QED
  BY <1>1, TypeInvCorrect, PTL DEF Spec

\* The lock file is there and no process is between its creation and its removal.
Abandoned(s) == lock[s] /\ \A p \in Procs : Critical(p) => job[p].store # s

FrozenOnceAbandoned == \A s \in Stores : Abandoned(s) => Abandoned(s)' /\ disk'[s] = disk[s]

\* A lock file that outlives the call that made it, because its process died or the removal
\* failed, is there for ever: nothing in the code removes it, and its store is never written
\* again, by any process, over any restarts. From then on every query is counted in memory.
THEOREM AbandonedIsFrozen == Spec => [][FrozenOnceAbandoned]_vars
<1>1. ASSUME TypeInv, [Next]_vars, NEW s \in Stores, Abandoned(s)
      PROVE  Abandoned(s)' /\ disk'[s] = disk[s]
  <2>1. /\ pc \in [Procs -> PCs] /\ job \in [Procs -> Jobs \cup {NoJob}] /\ lock \in [Stores -> BOOLEAN]
        /\ disk \in [Stores -> Budget]
        /\ \A p \in Procs : pc[p] \notin {"idle", "down"} => job[p].store \in Stores
    BY <1>1 DEF TypeInv, TypeOK, JobInv, Jobs
  <2>2. lock[s] /\ \A p \in Procs : Critical(p) => job[p].store # s
    BY <1>1 DEF Abandoned
  \* Enough about a step of p: the lock stays, and p is not let in.
  <2>3. ASSUME NEW p \in Procs, lock'[s], disk'[s] = disk[s],
               \A q \in Procs \ {p} : pc'[q] = pc[q] /\ job'[q] = job[q],
               Critical(p)' => job'[p].store # s
        PROVE  Abandoned(s)' /\ disk'[s] = disk[s]
    BY <2>2, <2>3 DEF Abandoned, Critical
  <2>4. ASSUME NEW p \in Procs, Calls(p) \/ Crash(p) \/ Restart(p) \/ Fallback(p) \/ LockBusy(p)
                               \/ LockTimeout(p)
        PROVE  Abandoned(s)' /\ disk'[s] = disk[s]
    <3>1. /\ UNCHANGED <<lock, disk>> /\ pc'[p] \in {"idle", "lock", "fallback", "down"}
          /\ \A q \in Procs \ {p} : pc'[q] = pc[q] /\ job'[q] = job[q]
      BY <2>1, <2>4 DEF Calls, StartQuery, StartReset, Crash, Restart, Fallback, LockBusy, LockTimeout,
                        Return, Goto, locals, files
    <3>2. QED
      BY <2>2, <2>3, <3>1 DEF Critical
  <2>5. ASSUME NEW p \in Procs, AcquireLock(p) \/ LockError(p)
        PROVE  Abandoned(s)' /\ disk'[s] = disk[s]
    <3>1. /\ job[p].store \in Stores /\ job[p].store # s /\ job' = job /\ UNCHANGED disk
          /\ lock'[s] = lock[s] /\ \A q \in Procs \ {p} : pc'[q] = pc[q]
      BY <2>1, <2>2, <2>5 DEF AcquireLock, LockError, Goto
    <3>2. QED
      BY <2>2, <2>3, <3>1
  <2>6. ASSUME NEW p \in Procs, \/ ReadStore(p) \/ Refuse(p) \/ WriteTmp(p) \/ Rename(p)
                                \/ SaveError(p) \/ Unlock(p)
        PROVE  Abandoned(s)' /\ disk'[s] = disk[s]
    <3>1. Critical(p) /\ job[p].store # s
      BY <2>2, <2>6 DEF Critical, ReadStore, Refuse, WriteTmp, Rename, SaveError, Unlock
    <3>2. lock'[s] = lock[s] /\ disk'[s] = disk[s]
      BY <2>1, <2>6, <3>1 DEF ReadStore, Refuse, WriteTmp, Rename, SaveError, Unlock, files
    <3>3. \A q \in Procs \ {p} : pc'[q] = pc[q] /\ job'[q] = job[q]
      BY <2>1, <2>6 DEF ReadStore, Refuse, WriteTmp, Rename, SaveError, Unlock, Return, Goto
    <3>4. Critical(p)' => job'[p] = job[p]
      BY <2>1, <2>6 DEF Critical, ReadStore, Refuse, WriteTmp, Rename, SaveError, Unlock, Return, Goto
    <3>5. QED
      BY <2>2, <2>3, <3>1, <3>2, <3>3, <3>4
  <2>7. CASE UNCHANGED vars
    BY <2>2, <2>7 DEF vars, Abandoned, Critical
  <2>8. QED
    BY <1>1, <2>4, <2>5, <2>6, <2>7 DEF Next, Working
<1>2. TypeInv /\ [Next]_vars => [FrozenOnceAbandoned]_vars
  BY <1>1 DEF FrozenOnceAbandoned
<1>3. QED
  BY <1>2, TypeInvCorrect, PTL DEF Spec

=============================================================================
