----------------------- MODULE QueryBudgetLedgerProofs -----------------------
(***************************************************************************)
(* Proofs about what QueryBudget keeps: what the fallback to memory can     *)
(* cost, and, when no read of a store fails, that the lock-file protocol is  *)
(* the ledger of BudgetLedger.                                              *)
(***************************************************************************)
EXTENDS QueryBudgetProofs

USE BudgetAssumption

-----------------------------------------------------------------------------
(* What the fallback costs. A crash forgets the counters in memory and        *)
(* nothing else separates what a process admitted from what it remembers.    *)

OverrunInv ==
  \A p \in Procs, k \in Cells : lent[p][k] - mem[p][k] <= Limit[k] * crashes[p]

\* A step that changes what p admitted and what p remembers alike.
LEMMA TogetherKeepsOverrun ==
  ASSUME TypeInv, OverrunInv, NEW p \in Procs, UNCHANGED crashes,
         \A q \in Procs \ {p} : mem'[q] = mem[q] /\ lent'[q] = lent[q],
         \A k \in Cells : lent'[p][k] - mem'[p][k] = lent[p][k] - mem[p][k]
  PROVE  OverrunInv'
BY DEF OverrunInv

LEMMA ApplyKeepsOverrun ==
  ASSUME TypeInv, OverrunInv, NEW p \in Procs, NEW K, ApplyInMemory(p, K), UNCHANGED crashes
  PROVE  OverrunInv'
<1>1. CASE Within(mem[p], K)
  <2>1. mem' = [mem EXCEPT ![p] = Count(mem[p], K)] /\ lent' = [lent EXCEPT ![p] = Count(lent[p], K)]
    BY <1>1 DEF ApplyInMemory
  <2>2. mem \in [Procs -> Budget] /\ lent \in [Procs -> Budget]
    BY DEF TypeInv, TypeOK
  <2>3. \A k \in Cells : Count(lent[p], K)[k] - Count(mem[p], K)[k] = lent[p][k] - mem[p][k]
    BY <2>2 DEF Count, Budget
  <2>4. QED
    BY <2>1, <2>2, <2>3, TogetherKeepsOverrun
<1>2. CASE ~Within(mem[p], K)
  BY <1>2 DEF ApplyInMemory, OverrunInv
<1>3. QED
  BY <1>1, <1>2

LEMMA NextOverrunInv == TypeInv /\ OverrunInv /\ [Next]_vars => OverrunInv'
<1> SUFFICES ASSUME TypeInv, OverrunInv, [Next]_vars
             PROVE  OverrunInv'
  OBVIOUS
<1>0. mem \in [Procs -> Budget] /\ lent \in [Procs -> Budget] /\ crashes \in [Procs -> Nat]
  BY DEF TypeInv, TypeOK
<1>1. ASSUME NEW p \in Procs, NEW c \in Clients, NEW t \in Tools,
             NEW F \in (SUBSET Fields) \ {{}}, StartQuery(p, c, t, F)
      PROVE  OverrunInv'
  <2>1. CASE StoreOf[t] \in Stores
    BY <1>1, <2>1 DEF StartQuery, OverrunInv
  <2>2. CASE StoreOf[t] \notin Stores
    BY <1>1, <2>2, ApplyKeepsOverrun DEF StartQuery
  <2>3. QED
    BY <2>1, <2>2
<1>2. ASSUME NEW p \in Procs, NEW c \in Clients, NEW T \in ResetScopes, StartReset(p, c, T)
      PROVE  OverrunInv'
  <2> DEFINE K == ResetCells(c, T)
             m == Clear(mem[p], K)
             l == [k \in Cells |-> IF k \in K THEN lent[p][k] - mem[p][k] ELSE lent[p][k]]
  <2>1. mem' = [mem EXCEPT ![p] = m] /\ lent' = [lent EXCEPT ![p] = l] /\ crashes' = crashes
    BY <1>2 DEF StartReset
  <2>2. \A k \in Cells : l[k] - m[k] = lent[p][k] - mem[p][k]
    BY <1>0 DEF Clear, Budget
  <2> HIDE DEF m, l, K
  <2>3. QED
    BY <1>0, <2>1, <2>2, TogetherKeepsOverrun
<1>3. ASSUME NEW p \in Procs, Fallback(p)
      PROVE  OverrunInv'
  BY <1>3, ApplyKeepsOverrun DEF Fallback, OverrunInv
<1>4. ASSUME NEW p \in Procs, Crash(p)
      PROVE  OverrunInv'
  <2>1. /\ crashes' = [crashes EXCEPT ![p] = @ + 1]
        /\ mem' = [mem EXCEPT ![p] = Empty] /\ lent' = lent
    BY <1>4 DEF Crash, history
  <2>2. ASSUME NEW k \in Cells
        PROVE  lent'[p][k] - mem'[p][k] <= Limit[k] * crashes'[p]
    <3> DEFINE L == Limit[k]
               n == crashes[p]
    <3>1. L \in Nat /\ n \in Nat /\ crashes'[p] = n + 1
      BY <1>0, <2>1
    <3>2. L * (n + 1) = L * n + L
      BY <3>1
    <3>3. lent[p][k] \in Nat /\ mem[p][k] \in Nat /\ mem[p][k] <= L /\ L * n \in Int
      BY <1>0, <3>1 DEF Budget, TypeInv, MemInv
    <3>4. lent[p][k] - mem[p][k] <= L * n
      BY DEF OverrunInv
    <3>5. lent'[p][k] = lent[p][k] /\ mem'[p][k] = 0
      BY <1>0, <2>1 DEF Empty
    <3> HIDE DEF L, n
    <3>6. lent[p][k] - 0 <= L * n + L
      BY <3>1, <3>3, <3>4
    <3>7. QED
      BY <3>1, <3>2, <3>5, <3>6 DEF L
  <2>3. \A q \in Procs \ {p} : /\ mem'[q] = mem[q] /\ lent'[q] = lent[q]
                               /\ crashes'[q] = crashes[q]
    BY <1>0, <2>1
  <2>4. QED
    BY <2>2, <2>3 DEF OverrunInv
<1>5. ASSUME NEW p \in Procs,
             \/ AcquireLock(p) \/ LockBusy(p) \/ LockTimeout(p) \/ LockError(p)
             \/ ReadStore(p) \/ Refuse(p) \/ WriteTmp(p) \/ Rename(p) \/ SaveError(p)
             \/ Unlock(p) \/ Restart(p)
      PROVE  OverrunInv'
  BY <1>5 DEF AcquireLock, LockBusy, LockTimeout, LockError, ReadStore, Refuse, WriteTmp,
              Rename, SaveError, Unlock, Restart, history, OverrunInv
<1>6. CASE UNCHANGED vars
  BY <1>6 DEF vars, OverrunInv
<1>7. QED
  BY <1>1, <1>2, <1>3, <1>4, <1>5, <1>6 DEF Next, Calls, Working

\* Falling back to memory costs at most one full limit per incarnation of a
\* process, since only its death makes it forget what applyInMemoryBudget counted.
THEOREM OverrunBounded == Spec => []BoundedOverrun
<1>1. Init => OverrunInv
  <2>1. ASSUME Init, NEW p \in Procs, NEW k \in Cells
        PROVE  lent[p][k] - mem[p][k] <= Limit[k] * crashes[p]
    <3>1. lent[p][k] = 0 /\ mem[p][k] = 0 /\ crashes[p] = 0 /\ Limit[k] \in Nat
      BY <2>1 DEF Init, Empty
    <3>2. Limit[k] * 0 = 0
      BY <3>1
    <3>3. QED
      BY <3>1, <3>2
  <2>2. QED
    BY <2>1 DEF OverrunInv
<1>2. TypeInv /\ OverrunInv /\ [Next]_vars => OverrunInv'
  BY NextOverrunInv
<1>3. TypeInv /\ OverrunInv => BoundedOverrun
  <2>1. ASSUME TypeInv, OverrunInv, NEW p \in Procs, NEW k \in Cells
        PROVE  lent[p][k] <= Limit[k] * (crashes[p] + 1)
    <3> DEFINE L == Limit[k]
               n == crashes[p]
    <3>1. L \in Nat /\ n \in Nat /\ lent[p][k] \in Nat /\ mem[p][k] \in Nat /\ mem[p][k] <= L
      BY <2>1 DEF TypeInv, TypeOK, MemInv, Budget
    <3>2. L * (n + 1) = L * n + L /\ L * n \in Int
      BY <3>1
    <3>3. lent[p][k] - mem[p][k] <= L * n
      BY <2>1 DEF OverrunInv
    <3> HIDE DEF L, n
    <3>4. lent[p][k] <= L * n + L
      BY <3>1, <3>2, <3>3
    <3>5. QED
      BY <3>2, <3>4 DEF L, n
  <2>2. QED
    BY <2>1 DEF BoundedOverrun
<1>4. QED
  BY <1>1, <1>2, <1>3, TypeInvCorrect, PTL DEF Spec

-----------------------------------------------------------------------------
(* The store. A call under the lock knows what the store holds, because no    *)
(* other call is critical on it: the read it made, and the temporary file it  *)
(* wrote, are still what they were.                                           *)

\* A query touches cells of its own store; only the store of the
\* configuration is ever reset.
StoreJobInv ==
  \A p \in Procs : pc[p] \notin {"idle", "down"} =>
    IF job[p].op = "query"
      THEN \A k \in job[p].cells : StoreOf[k[2]] = job[p].store
      ELSE job[p].store = ConfigStore

ViewInv ==
  \A p \in Procs : LET s == job[p].store IN
    /\ pc[p] = "decide" => view[p] = disk[s]
    /\ pc[p] = "rename" => /\ tmp[s] = Updated(disk[s], job[p])
                           /\ job[p].op = "query" => Within(disk[s], job[p].cells)

StoreInv == StoreJobInv /\ ViewInv

\* A step of p that starts nothing, moves p nowhere it would need to know the
\* store, and leaves the files alone.
LEMMA QuietKeepsStore ==
  ASSUME TypeInv, StoreInv, NEW p \in Procs, UNCHANGED <<disk, tmp>>,
         \A q \in Procs \ {p} : pc'[q] = pc[q] /\ job'[q] = job[q] /\ view'[q] = view[q],
         pc'[p] \notin {"decide", "rename"},
         pc'[p] \notin {"idle", "down"} => pc[p] \notin {"idle", "down"} /\ job'[p] = job[p]
  PROVE  StoreInv'
<1>1. StoreJobInv'
  BY DEF StoreInv, StoreJobInv
<1>2. ViewInv'
  BY DEF StoreInv, ViewInv
<1>3. QED
  BY <1>1, <1>2 DEF StoreInv

\* A step that only takes p into its call.
LEMMA CallKeepsStore ==
  ASSUME TypeInv, StoreInv, NEW p \in Procs, NEW j, UNCHANGED <<disk, tmp, view>>,
         pc' = [pc EXCEPT ![p] = "lock"], job' = [job EXCEPT ![p] = j],
         IF j.op = "query" THEN \A k \in j.cells : StoreOf[k[2]] = j.store
                           ELSE j.store = ConfigStore
  PROVE  StoreInv'
<1>0. pc \in [Procs -> PCs] /\ job \in [Procs -> Jobs \cup {NoJob}]
  BY DEF TypeInv, TypeOK
<1>1. StoreJobInv'
  BY <1>0 DEF StoreInv, StoreJobInv
<1>2. ViewInv'
  BY <1>0 DEF StoreInv, ViewInv
<1>3. QED
  BY <1>1, <1>2 DEF StoreInv

LEMMA NextStoreInv ==
  ASSUME "readIO" \notin Faults, TypeInv, LockInv, StoreInv, [Next]_vars
  PROVE  StoreInv'
<1>0. /\ pc \in [Procs -> PCs] /\ job \in [Procs -> Jobs \cup {NoJob}]
      /\ view \in [Procs -> Budget] /\ disk \in [Stores -> Budget] /\ tmp \in [Stores -> Budget]
  BY DEF TypeInv, TypeOK
<1>1. ASSUME NEW p \in Procs, NEW c \in Clients, NEW t \in Tools,
             NEW F \in (SUBSET Fields) \ {{}}, StartQuery(p, c, t, F)
      PROVE  StoreInv'
  <2>1. CASE StoreOf[t] \in Stores
    <3> DEFINE j == [op |-> "query", store |-> StoreOf[t], cells |-> QueryCells(c, t, F)]
    <3>1. pc' = [pc EXCEPT ![p] = "lock"] /\ job' = [job EXCEPT ![p] = j] /\ UNCHANGED <<disk, tmp, view>>
      BY <1>1, <2>1 DEF StartQuery, Goto, files
    <3>2. j.op = "query" /\ j.store = StoreOf[t] /\ j.cells = QueryCells(c, t, F)
      OBVIOUS
    <3>3. \A k \in QueryCells(c, t, F) : StoreOf[k[2]] = StoreOf[t]
      BY DEF QueryCells
    <3> HIDE DEF j
    <3>4. QED
      BY <3>1, <3>2, <3>3, CallKeepsStore
  <2>2. CASE StoreOf[t] \notin Stores
    BY <1>1, <2>2 DEF StartQuery, locals, files, StoreInv, StoreJobInv, ViewInv
  <2>3. QED
    BY <2>1, <2>2
<1>2. ASSUME NEW p \in Procs, NEW c \in Clients, NEW T \in ResetScopes, StartReset(p, c, T)
      PROVE  StoreInv'
  <2>1. CASE ConfigStore \in Stores
    <3> DEFINE j == [op |-> "reset", store |-> ConfigStore, cells |-> ResetCells(c, T)]
    <3>1. pc' = [pc EXCEPT ![p] = "lock"] /\ job' = [job EXCEPT ![p] = j] /\ UNCHANGED <<disk, tmp, view>>
      BY <1>2, <2>1 DEF StartReset, Goto, files
    <3>2. j.op = "reset" /\ j.store = ConfigStore
      OBVIOUS
    <3> HIDE DEF j
    <3>3. QED
      BY <3>1, <3>2, CallKeepsStore
  <2>2. CASE ConfigStore \notin Stores
    BY <1>2, <2>2 DEF StartReset, locals, files, StoreInv, StoreJobInv, ViewInv
  <2>3. QED
    BY <2>1, <2>2
<1>3. ASSUME NEW p \in Procs,
             \/ AcquireLock(p) \/ LockBusy(p) \/ LockTimeout(p) \/ LockError(p)
             \/ Refuse(p) \/ SaveError(p) \/ Unlock(p) \/ Fallback(p) \/ Crash(p) \/ Restart(p)
      PROVE  StoreInv'
  <2>1. /\ UNCHANGED <<disk, tmp>>
        /\ \A q \in Procs \ {p} : pc'[q] = pc[q] /\ job'[q] = job[q] /\ view'[q] = view[q]
        /\ pc'[p] \notin {"decide", "rename"}
        /\ pc'[p] \notin {"idle", "down"} => pc[p] \notin {"idle", "down"} /\ job'[p] = job[p]
    BY <1>0, <1>3 DEF AcquireLock, LockBusy, LockTimeout, LockError, Refuse, SaveError, Unlock,
                      Fallback, Crash, Restart, Return, Goto, files
  <2>2. QED
    BY <2>1, QuietKeepsStore
<1>4. ASSUME NEW p \in Procs, ReadStore(p)
      PROVE  StoreInv'
  <2>1. /\ pc[p] = "read" /\ UNCHANGED <<disk, tmp, job>>
        /\ view' = [view EXCEPT ![p] = disk[job[p].store]]
        /\ pc' = [pc EXCEPT ![p] = "decide"]
    BY <1>4 DEF ReadStore, Goto, files
  <2>2. StoreJobInv'
    BY <1>0, <2>1 DEF StoreInv, StoreJobInv
  <2>3. ViewInv'
    BY <1>0, <2>1 DEF StoreInv, ViewInv
  <2>4. QED
    BY <2>2, <2>3 DEF StoreInv
<1>5. ASSUME NEW p \in Procs, WriteTmp(p)
      PROVE  StoreInv'
  <2> DEFINE s == job[p].store
  <2>1. /\ pc[p] = "decide" /\ UNCHANGED <<disk, job, view>>
        /\ job[p].op = "query" => Within(view[p], job[p].cells)
        /\ tmp' = [tmp EXCEPT ![s] = Updated(view[p], job[p])]
        /\ pc' = [pc EXCEPT ![p] = "rename"]
    BY <1>5 DEF WriteTmp, Goto
  <2>2. s \in Stores /\ view[p] = disk[s]
    BY <2>1 DEF StoreInv, ViewInv, TypeInv, JobInv, Jobs
  <2>3. \A q \in Procs \ {p} : pc[q] = "rename" => job[q].store # s
    BY <2>1 DEF LockInv, MutualExclusion, Critical
  <2>4. StoreJobInv'
    BY <1>0, <2>1 DEF StoreInv, StoreJobInv
  <2>5. ViewInv'
    BY <1>0, <2>1, <2>2, <2>3 DEF StoreInv, ViewInv
  <2>6. QED
    BY <2>4, <2>5 DEF StoreInv
<1>6. ASSUME NEW p \in Procs, Rename(p)
      PROVE  StoreInv'
  <2> DEFINE s == job[p].store
  <2>1. /\ pc[p] = "rename" /\ UNCHANGED <<job, view>>
        /\ \A r \in Stores \ {s} : disk'[r] = disk[r] /\ tmp'[r] = tmp[r]
        /\ pc' = [pc EXCEPT ![p] = "unlock"]
    BY <1>0, <1>6 DEF Rename, Goto
  <2>2. \A q \in Procs \ {p} : pc[q] \in {"decide", "rename"} => job[q].store \in Stores \ {s}
    BY <2>1 DEF LockInv, MutualExclusion, Critical, TypeInv, JobInv, Jobs
  <2>3. StoreJobInv'
    BY <1>0, <2>1 DEF StoreInv, StoreJobInv
  <2>4. ViewInv'
    BY <1>0, <2>1, <2>2 DEF StoreInv, ViewInv
  <2>5. QED
    BY <2>3, <2>4 DEF StoreInv
<1>7. CASE UNCHANGED vars
  BY <1>7 DEF vars, StoreInv, StoreJobInv, ViewInv
<1>8. QED
  BY <1>1, <1>2, <1>3, <1>4, <1>5, <1>6, <1>7 DEF Next, Calls, Working

LEMMA StoreInvCorrect ==
  ASSUME "readIO" \notin Faults
  PROVE  Spec => []StoreInv
<1>1. Init => StoreInv
  BY DEF Init, StoreInv, StoreJobInv, ViewInv
<1>2. TypeInv /\ LockInv /\ StoreInv /\ [Next]_vars => StoreInv'
  BY NextStoreInv
<1>3. QED
  BY <1>1, <1>2, TypeInvCorrect, LockInvCorrect, PTL DEF Spec

-----------------------------------------------------------------------------
(* Only a rename changes a store, and the next two lemmas say how.            *)

LEMMA RenameStores ==
  ASSUME TypeInv, StoreInv, NEW p \in Procs, Rename(p)
  PROVE  /\ job[p].store \in Stores
         /\ disk' = [disk EXCEPT ![job[p].store] = Updated(disk[job[p].store], job[p])]
         /\ job[p].op = "query" => /\ Within(disk[job[p].store], job[p].cells)
                                   /\ job[p].cells \in Queries
                                   /\ \A k \in job[p].cells : StoreOf[k[2]] = job[p].store
         /\ job[p].op # "query" => /\ job[p].op = "reset" /\ job[p].cells \in Resets
                                   /\ job[p].store = ConfigStore
<1>1. pc[p] = "rename" /\ job[p] \in Jobs
  BY DEF Rename, TypeInv, JobInv
<1>2. job[p].store \in Stores /\ job[p].op \in {"query", "reset"}
      /\ (job[p].op = "query" => job[p].cells \in Queries)
      /\ (job[p].op # "query" => job[p].op = "reset" /\ job[p].cells \in Resets)
  BY <1>1 DEF Jobs
<1>3. tmp[job[p].store] = Updated(disk[job[p].store], job[p])
      /\ (job[p].op = "query" => Within(disk[job[p].store], job[p].cells))
  BY <1>1 DEF StoreInv, ViewInv
<1>4. disk' = [disk EXCEPT ![job[p].store] = tmp[job[p].store]]
  BY DEF Rename
<1>5. IF job[p].op = "query" THEN \A k \in job[p].cells : StoreOf[k[2]] = job[p].store
                             ELSE job[p].store = ConfigStore
  BY <1>1 DEF StoreInv, StoreJobInv
<1>6. QED
  BY <1>2, <1>3, <1>4, <1>5

LEMMA OthersKeepDisk ==
  ASSUME [Next]_vars, \A p \in Procs : ~Rename(p)
  PROVE  UNCHANGED disk
<1>1. CASE UNCHANGED vars
  BY <1>1 DEF vars, files
<1>2. ASSUME NEW p \in Procs, Calls(p) \/ Crash(p) \/ Restart(p)
      PROVE  UNCHANGED disk
  BY <1>2 DEF files, Calls, StartQuery, StartReset, Crash, Restart
<1>3. ASSUME NEW p \in Procs, Working(p), ~Rename(p)
      PROVE  UNCHANGED disk
  BY <1>3 DEF files, Working, AcquireLock, LockBusy, LockTimeout, LockError, ReadStore, Refuse,
              WriteTmp, SaveError, Unlock, Fallback
<1>4. QED
  BY <1>1, <1>2, <1>3 DEF Next

-----------------------------------------------------------------------------
\* Without a failing read a count goes down only where resetFieldBudget, with the
\* lock of that store, clears it: no interleaving of two updates loses one.
THEOREM OnlyResetsForgive ==
  ASSUME "readIO" \notin Faults
  PROVE  Spec => OnlyResetForgives
<1> DEFINE A == \A s \in Stores, k \in Cells :
                  disk'[s][k] < disk[s][k] =>
                    \E p \in Procs : job[p].op = "reset" /\ job[p].store = s /\ k \in job[p].cells
<1>1. TypeInv /\ StoreInv /\ [Next]_vars => [A]_vars
  <2> SUFFICES ASSUME TypeInv, StoreInv, [Next]_vars, NEW s \in Stores, NEW k \in Cells,
                      disk'[s][k] < disk[s][k]
               PROVE  \E p \in Procs : job[p].op = "reset" /\ job[p].store = s /\ k \in job[p].cells
    OBVIOUS
  <2>0. disk \in [Stores -> Budget] /\ disk[s][k] \in Nat
    BY DEF TypeInv, TypeOK, Budget
  <2>1. PICK p \in Procs : Rename(p)
    BY <2>0, OthersKeepDisk
  <2>2. /\ disk' = [disk EXCEPT ![job[p].store] = Updated(disk[job[p].store], job[p])]
        /\ job[p].op # "query" => job[p].op = "reset"
    BY <2>1, RenameStores
  <2>3. job[p].store = s
    BY <2>0, <2>2
  <2>4. disk'[s][k] = Updated(disk[s], job[p])[k]
    BY <2>0, <2>2, <2>3
  <2>5. job[p].op # "query" /\ k \in job[p].cells
    BY <2>0, <2>4 DEF Updated, Count, Clear
  <2>6. QED
    BY <2>2, <2>3, <2>5
<1>2. QED
  BY <1>1, TypeInvCorrect, StoreInvCorrect, PTL DEF Spec, OnlyResetForgives

-----------------------------------------------------------------------------
\* Without a failing read, the read-modify-write under the lock file implements
\* the atomic ledger: a rename is a charge or a reset, every other step stutters.
THEOREM LedgerImplemented ==
  ASSUME "readIO" \notin Faults
  PROVE  Spec => ImplementsLedger
<1> DEFINE L == [k \in StoredCells |-> disk[StoreOf[k[2]]][k]]
<1>0. \A k \in StoredCells : k \in Cells /\ StoreOf[k[2]] \in Stores
  BY DEF StoredCells
<1>1. Init => Ledger!Init
  BY <1>0 DEF Init, Ledger!Init, Empty
<1>2. TypeInv /\ StoreInv /\ [Next]_vars => [Ledger!Next]_L
  <2> SUFFICES ASSUME TypeInv, StoreInv, [Next]_vars
               PROVE  [Ledger!Next]_L
    OBVIOUS
  <2>0. disk \in [Stores -> Budget]
    BY DEF TypeInv, TypeOK
  <2>1. CASE \A p \in Procs : ~Rename(p)
    BY <2>1, OthersKeepDisk
  <2>2. ASSUME NEW p \in Procs, Rename(p)
        PROVE  [Ledger!Next]_L
    <3> DEFINE s == job[p].store
               K == job[p].cells
    <3>1. disk' = [disk EXCEPT ![s] = Updated(disk[s], job[p])] /\ s \in Stores
      BY <2>2, RenameStores
    <3>2. \A k \in StoredCells :
            disk'[StoreOf[k[2]]][k] = IF StoreOf[k[2]] = s THEN Updated(disk[s], job[p])[k]
                                                           ELSE disk[StoreOf[k[2]]][k]
      BY <1>0, <2>0, <3>1
    <3>3. CASE job[p].op = "query"
      <4>1. Within(disk[s], K) /\ K \in Queries /\ \A k \in K : StoreOf[k[2]] = s
        BY <2>2, <3>3, RenameStores
      <4>2. K \subseteq StoredCells
        BY <3>1, <4>1 DEF StoredCells, Queries, QueryCells, Cells
      <4>3. \A k \in K : L[k] < [c \in StoredCells |-> Limit[c]][k]
        BY <4>1, <4>2 DEF Within
      <4>4. \A k \in StoredCells :
              disk'[StoreOf[k[2]]][k] = IF k \in K THEN L[k] + 1 ELSE L[k]
        BY <1>0, <3>2, <3>3, <4>1 DEF Updated, Count
      <4>5. PICK Q \in {X \in Queries : X \subseteq StoredCells} : Q = K
        BY <4>1, <4>2
      <4>6. Ledger!Charge(Q)
        BY <4>3, <4>4, <4>5 DEF Ledger!Charge
      <4>7. QED
        BY <4>6 DEF Ledger!Next
    <3>4. CASE job[p].op # "query"
      <4>1. K \in Resets /\ s = ConfigStore
        BY <2>2, <3>4, RenameStores
      <4>2. PICK R \in {X \cap StoredCells : X \in {InStore(Y, ConfigStore) : Y \in Resets}} :
              R = InStore(K, s) \cap StoredCells
        BY <4>1
      <4>3. \A k \in StoredCells : k \in R <=> k \in K /\ StoreOf[k[2]] = s
        BY <4>2 DEF InStore
      <4>4. \A k \in StoredCells :
              disk'[StoreOf[k[2]]][k] = IF k \in R THEN 0 ELSE L[k]
        BY <1>0, <3>2, <3>4, <4>3 DEF Updated, Clear
      <4>5. Ledger!Forgive(R)
        BY <4>4 DEF Ledger!Forgive
      <4>6. QED
        BY <4>5 DEF Ledger!Next
    <3>5. QED
      BY <3>3, <3>4
  <2>3. QED
    BY <2>1, <2>2
<1>3. QED
  BY <1>1, <1>2, TypeInvCorrect, StoreInvCorrect, PTL DEF Spec, ImplementsLedger, Ledger!Spec

-----------------------------------------------------------------------------
(* No query is free. A query renamed into the store but not yet answered is   *)
(* counted once more than charged says; there is at most one, under the lock. *)

ChargeInv ==
  \A k \in StoredCells : LET n == disk[StoreOf[k[2]]][k] IN
    /\ n <= Limit[k]
    /\ charged[k] <= n
    /\ \A p \in Pending(k) : charged[k] + 1 <= n

\* The pending query of a cell holds the lock of the cell's store.
LEMMA PendingIsCritical ==
  ASSUME StoreInv, NEW k, NEW p \in Pending(k)
  PROVE  p \in Procs /\ Critical(p) /\ job[p].store = StoreOf[k[2]]
BY DEF Pending, Critical, StoreInv, StoreJobInv

LEMMA QuietKeepsCharge ==
  ASSUME ChargeInv, NEW p \in Procs, UNCHANGED <<disk, charged>>,
         \A q \in Procs \ {p} : pc'[q] = pc[q] /\ job'[q] = job[q] /\ outcome'[q] = outcome[q],
         pc'[p] = "unlock" => outcome'[p] # "ok"
  PROVE  ChargeInv'
<1>1. \A k \in StoredCells : \A q \in Procs : q \in Pending(k)' => q \in Pending(k)
  BY DEF Pending
<1>2. QED
  BY <1>1 DEF ChargeInv, Pending

LEMMA RenameKeepsCharge ==
  ASSUME TypeInv, LockInv, StoreInv, ChargeInv, NEW p \in Procs, Rename(p)
  PROVE  ChargeInv'
<1> DEFINE s == job[p].store
           K == job[p].cells
<1>0. /\ disk \in [Stores -> Budget] /\ charged \in Budget
      /\ pc \in [Procs -> PCs] /\ outcome \in [Procs -> Outcomes]
      /\ \A k \in StoredCells : k \in Cells /\ StoreOf[k[2]] \in Stores
  BY DEF TypeInv, TypeOK, StoredCells
<1>1. /\ pc[p] = "rename" /\ job' = job
      /\ pc' = [pc EXCEPT ![p] = "unlock"] /\ outcome' = [outcome EXCEPT ![p] = "ok"]
      /\ charged' = IF job[p].op = "reset" THEN Clear(charged, InStore(K, s)) ELSE charged
  BY DEF Rename, Goto
<1>2. disk' = [disk EXCEPT ![s] = Updated(disk[s], job[p])] /\ s \in Stores
  BY RenameStores
<1>3. \A k \in StoredCells :
        disk'[StoreOf[k[2]]][k] = IF StoreOf[k[2]] = s THEN Updated(disk[s], job[p])[k]
                                                       ELSE disk[StoreOf[k[2]]][k]
  BY <1>0, <1>2
<1>4. \A k \in StoredCells : StoreOf[k[2]] = s => Pending(k) = {}
  <2>1. SUFFICES ASSUME NEW k \in StoredCells, StoreOf[k[2]] = s, NEW q \in Pending(k)
                 PROVE  FALSE
    OBVIOUS
  <2>2. q \in Procs /\ Critical(q) /\ job[q].store = s /\ pc[q] = "unlock"
    BY <2>1, PendingIsCritical DEF Pending
  <2>3. Critical(p) /\ p # q
    BY <1>1, <2>2 DEF Critical
  <2>4. QED
    BY <2>2, <2>3 DEF LockInv, MutualExclusion
<1>5. \A k \in StoredCells : \A q \in Pending(k)' :
        q \in Pending(k) \/ (q = p /\ job[p].op = "query" /\ k \in K)
  BY <1>0, <1>1 DEF Pending
<1>6. CASE job[p].op = "query"
  <2>1. Within(disk[s], K) /\ \A k \in K : StoreOf[k[2]] = s
    BY <1>6, RenameStores
  <2>2. charged' = charged
    BY <1>1, <1>6
  <2>3. ASSUME NEW k \in StoredCells, k \in K
        PROVE  LET n == disk'[StoreOf[k[2]]][k] IN
                 n <= Limit[k] /\ charged'[k] <= n /\ \A q \in Pending(k)' : charged'[k] + 1 <= n
    <3>1. disk'[StoreOf[k[2]]][k] = disk[s][k] + 1 /\ disk[s][k] < Limit[k] /\ StoreOf[k[2]] = s
      BY <1>0, <1>2, <1>3, <1>6, <2>1, <2>3 DEF Updated, Count, Within
    <3>2. charged[k] \in Nat /\ disk[s][k] \in Nat /\ Limit[k] \in Nat
      BY <1>0, <1>2 DEF Budget
    <3>3. charged[k] <= disk[s][k]
      BY <3>1 DEF ChargeInv
    <3>4. QED
      BY <2>2, <3>1, <3>2, <3>3
  <2>4. ASSUME NEW k \in StoredCells, k \notin K
        PROVE  LET n == disk'[StoreOf[k[2]]][k] IN
                 n <= Limit[k] /\ charged'[k] <= n /\ \A q \in Pending(k)' : charged'[k] + 1 <= n
    <3>1. disk'[StoreOf[k[2]]][k] = disk[StoreOf[k[2]]][k]
      BY <1>0, <1>2, <1>3, <1>6, <2>4 DEF Updated, Count
    <3>2. \A q \in Pending(k)' : q \in Pending(k)
      BY <1>5, <2>4
    <3>3. QED
      BY <2>2, <3>1, <3>2 DEF ChargeInv
  <2>5. QED
    BY <2>3, <2>4 DEF ChargeInv
<1>7. CASE job[p].op # "query"
  <2>1. job[p].op = "reset"
    BY <1>7, RenameStores
  <2>2. ASSUME NEW k \in StoredCells, k \in InStore(K, s)
        PROVE  LET n == disk'[StoreOf[k[2]]][k] IN
                 n <= Limit[k] /\ charged'[k] <= n /\ \A q \in Pending(k)' : charged'[k] + 1 <= n
    <3>1. k \in K /\ StoreOf[k[2]] = s
      BY <2>2 DEF InStore
    <3>2. disk'[StoreOf[k[2]]][k] = 0 /\ charged'[k] = 0 /\ Limit[k] \in Nat
      BY <1>0, <1>1, <1>2, <1>3, <1>7, <2>1, <2>2, <3>1 DEF Updated, Clear
    <3>3. Pending(k)' = {}
      BY <1>4, <1>5, <1>7, <3>1
    <3>4. QED
      BY <3>2, <3>3
  <2>3. ASSUME NEW k \in StoredCells, k \notin InStore(K, s)
        PROVE  LET n == disk'[StoreOf[k[2]]][k] IN
                 n <= Limit[k] /\ charged'[k] <= n /\ \A q \in Pending(k)' : charged'[k] + 1 <= n
    <3>1. disk'[StoreOf[k[2]]][k] = disk[StoreOf[k[2]]][k] /\ charged'[k] = charged[k]
      BY <1>0, <1>1, <1>2, <1>3, <1>7, <2>1, <2>3 DEF Updated, Clear, InStore, Budget
    <3>2. \A q \in Pending(k)' : q \in Pending(k)
      BY <1>5, <1>7
    <3>3. QED
      BY <3>1, <3>2 DEF ChargeInv
  <2>4. QED
    BY <2>2, <2>3 DEF ChargeInv
<1>8. QED
  BY <1>6, <1>7

LEMMA UnlockKeepsCharge ==
  ASSUME TypeInv, LockInv, StoreInv, ChargeInv, NEW p \in Procs, Unlock(p)
  PROVE  ChargeInv'
<1>0. /\ charged \in Budget /\ pc \in [Procs -> PCs] /\ outcome \in [Procs -> Outcomes]
      /\ \A k \in StoredCells : k \in Cells
  BY DEF TypeInv, TypeOK, StoredCells
<1>1. /\ pc[p] = "unlock" /\ disk' = disk /\ pc'[p] # "unlock"
      /\ \A q \in Procs \ {p} : pc'[q] = pc[q] /\ job'[q] = job[q] /\ outcome'[q] = outcome[q]
      /\ charged' = IF outcome[p] = "ok" /\ job[p].op = "query"
                      THEN Count(charged, job[p].cells) ELSE charged
  BY <1>0 DEF Unlock, Return, Goto, TypeInv, TypeOK
<1>2. CASE ~(outcome[p] = "ok" /\ job[p].op = "query")
  BY <1>1, <1>2, QuietKeepsCharge
<1>3. CASE outcome[p] = "ok" /\ job[p].op = "query"
  <2>1. ASSUME NEW k \in StoredCells, k \in job[p].cells
        PROVE  LET n == disk'[StoreOf[k[2]]][k] IN
                 n <= Limit[k] /\ charged'[k] <= n /\ \A q \in Pending(k)' : charged'[k] + 1 <= n
    <3>1. p \in Pending(k)
      BY <1>1, <1>3, <2>1 DEF Pending
    <3>2. charged'[k] = charged[k] + 1
      BY <1>0, <1>1, <1>3, <2>1 DEF Count
    <3>3. Pending(k)' = {}
      <4>1. SUFFICES ASSUME NEW q \in Pending(k)'
                     PROVE  FALSE
        OBVIOUS
      <4>2. q # p /\ q \in Pending(k)
        BY <1>1 DEF Pending
      <4>3. QED
        BY <3>1, <4>2, PendingIsCritical DEF LockInv, MutualExclusion
    <3>4. QED
      BY <1>1, <3>1, <3>2, <3>3 DEF ChargeInv
  <2>2. ASSUME NEW k \in StoredCells, k \notin job[p].cells
        PROVE  LET n == disk'[StoreOf[k[2]]][k] IN
                 n <= Limit[k] /\ charged'[k] <= n /\ \A q \in Pending(k)' : charged'[k] + 1 <= n
    <3>1. charged'[k] = charged[k]
      BY <1>0, <1>1, <1>3, <2>2 DEF Count
    <3>2. \A q \in Pending(k)' : q \in Pending(k)
      BY <1>1 DEF Pending
    <3>3. QED
      BY <1>1, <3>1, <3>2 DEF ChargeInv
  <2>3. QED
    BY <2>1, <2>2 DEF ChargeInv
<1>4. QED
  BY <1>2, <1>3

LEMMA NextChargeInv ==
  ASSUME TypeInv, LockInv, StoreInv, ChargeInv, [Next]_vars
  PROVE  ChargeInv'
<1>0. pc \in [Procs -> PCs] /\ job \in [Procs -> Jobs \cup {NoJob}] /\ outcome \in [Procs -> Outcomes]
  BY DEF TypeInv, TypeOK
<1>1. ASSUME NEW p \in Procs, Calls(p)
      PROVE  ChargeInv'
  <2>1. /\ UNCHANGED <<disk, charged>> /\ pc'[p] # "unlock"
        /\ \A q \in Procs \ {p} : pc'[q] = pc[q] /\ job'[q] = job[q] /\ outcome'[q] = outcome[q]
    BY <1>0, <1>1 DEF Calls, StartQuery, StartReset, Goto, locals, files
  <2>2. QED
    BY <2>1, QuietKeepsCharge
<1>2. ASSUME NEW p \in Procs,
             \/ AcquireLock(p) \/ LockBusy(p) \/ LockTimeout(p) \/ LockError(p) \/ ReadStore(p)
             \/ Refuse(p) \/ WriteTmp(p) \/ SaveError(p) \/ Fallback(p) \/ Crash(p) \/ Restart(p)
      PROVE  ChargeInv'
  <2>1. /\ UNCHANGED <<disk, charged>> /\ (pc'[p] = "unlock" => outcome'[p] # "ok")
        /\ \A q \in Procs \ {p} : pc'[q] = pc[q] /\ job'[q] = job[q] /\ outcome'[q] = outcome[q]
    BY <1>0, <1>2 DEF AcquireLock, LockBusy, LockTimeout, LockError, ReadStore, Refuse, WriteTmp,
                      SaveError, Fallback, Crash, Restart, Return, Goto, files, history
  <2>2. QED
    BY <2>1, QuietKeepsCharge
<1>3. CASE UNCHANGED vars
  BY <1>3 DEF vars, ChargeInv, Pending
<1>4. QED
  BY <1>1, <1>2, <1>3, RenameKeepsCharge, UnlockKeepsCharge DEF Next, Working

\* Without a failing read, the file has counted every query it admitted since the
\* last reset, whatever threw or died between the rename and the answer, and it
\* never counts beyond the limit.
THEOREM NoQueryIsFree ==
  ASSUME "readIO" \notin Faults
  PROVE  Spec => []NoFreeQuery
<1>1. Init => ChargeInv
  BY DEF Init, ChargeInv, Pending, StoredCells, Empty
<1>2. TypeInv /\ LockInv /\ StoreInv /\ ChargeInv /\ [Next]_vars => ChargeInv'
  BY NextChargeInv
<1>3. TypeInv /\ LockInv /\ StoreInv /\ ChargeInv => NoFreeQuery
  <2>1. ASSUME TypeInv, LockInv, StoreInv, ChargeInv, NEW k \in StoredCells
        PROVE  LET n == disk[StoreOf[k[2]]][k] IN
                 charged[k] + Cardinality(Pending(k)) <= n /\ n <= Limit[k]
    <3>0. charged[k] \in Nat
      BY <2>1 DEF TypeInv, TypeOK, Budget, StoredCells
    <3>1. CASE Pending(k) = {}
      <4>1. Cardinality(Pending(k)) = 0
        BY <3>1, FS_EmptySet
      <4>2. QED
        BY <2>1, <3>0, <4>1 DEF ChargeInv
    <3>2. ASSUME NEW p \in Pending(k)
          PROVE  Cardinality(Pending(k)) = 1 /\ charged[k] + 1 <= disk[StoreOf[k[2]]][k]
      <4>1. \A q \in Pending(k) : q = p
        BY <2>1, <3>2, PendingIsCritical DEF LockInv, MutualExclusion
      <4>2. Pending(k) = {p}
        BY <3>2, <4>1
      <4>3. QED
        BY <2>1, <3>2, <4>2, FS_Singleton DEF ChargeInv
    <3>3. QED
      BY <2>1, <3>1, <3>2 DEF ChargeInv
  <2>2. QED
    BY <2>1 DEF NoFreeQuery
<1>4. QED
  BY <1>1, <1>2, <1>3, TypeInvCorrect, LockInvCorrect, StoreInvCorrect, PTL DEF Spec

=============================================================================
