----------------------------- MODULE AuditChain -----------------------------
(***************************************************************************)
(* AuditLogger (security/audit-logger.ts): a hash chain of executions kept  *)
(* in memory and appended, one JSON line per entry, to a file that the next *)
(* process loads. recordExecution links and pushes the entry BEFORE it      *)
(* appends the line, and appendFileSync may throw, or the process may die,  *)
(* with nothing, a part or all of the line written.                         *)
(*                                                                         *)
(* The hash of an entry is abstracted to its identity: two entries have the *)
(* same hash only if they are the same entry. Genesis is the hash that no   *)
(* entry has. A line is read back as an entry when it parses; a line cut    *)
(* short does not, and what is appended after a missing newline joins it.   *)
(***************************************************************************)
EXTENDS Integers, SequencesExt

CONSTANTS
  Writers,      \* processes whose logger is on the file
  Faults,       \* what may fail: appends, processes, and lines cut short
  MaxEntries    \* bound on the entries ever created

AuditAssumption == Faults \subseteq {"append", "crash", "tear"} /\ MaxEntries \in Nat

VARIABLES
  file,     \* the lines of the audit file
  mem,      \* mem[w]: entries of the logger of w
  last,     \* last[w]: lastEntryHash of w
  status,   \* a process is up, down, or unable to start
  created,  \* entries created so far; their hashes are 1..created
  acked,    \* history: entries whose recordExecution has returned
  thrown    \* history: entries whose append threw

vars == <<file, mem, last, status, created, acked, thrown>>

Genesis == 0
Hash == 0..MaxEntries
Entry == [hash : Hash, prev : Hash]
NoEntry == [hash |-> 0, prev |-> 0]
\* parses: the line is JSON; ended: it has its newline.
Line == [entry : Entry, parses : BOOLEAN, ended : BOOLEAN]

TypeOK ==
  /\ file \in Seq(Line)
  /\ mem \in [Writers -> Seq(Entry)]
  /\ last \in [Writers -> Hash]
  /\ status \in [Writers -> {"up", "down", "broken"}]
  /\ created \in 0..MaxEntries
  /\ acked \subseteq 1..MaxEntries /\ thrown \subseteq 1..MaxEntries

Init ==
  /\ file = <<>>
  /\ mem = [w \in Writers |-> <<>>]
  /\ last = [w \in Writers |-> Genesis]
  /\ status = [w \in Writers |-> "up"]
  /\ created = 0
  /\ acked = {} /\ thrown = {}

-----------------------------------------------------------------------------
(* The file *)

Open(f) == f # <<>> /\ ~Last(f).ended

\* appendFileSync of one line, all of it, all but its newline, or a fragment.
Put(f, line) ==
  IF Open(f) THEN Append(Front(f), [entry |-> NoEntry, parses |-> FALSE, ended |-> line.ended])
             ELSE Append(f, line)
Whole(e) == [entry |-> e, parses |-> TRUE, ended |-> TRUE]
NoNewline(e) == [entry |-> e, parses |-> TRUE, ended |-> FALSE]
Fragment == [entry |-> NoEntry, parses |-> FALSE, ended |-> FALSE]

\* What an append that does not succeed may leave behind.
Cut(f, e) ==
  {f} \cup IF "tear" \in Faults THEN {Put(f, Fragment), Put(f, NoNewline(e))} ELSE {}

Entries(f) == [i \in 1..Len(f) |-> f[i].entry]
Readable(f) == \A i \in 1..Len(f) : f[i].parses

-----------------------------------------------------------------------------
(* Operations *)

NewEntry(w) == [hash |-> created + 1, prev |-> last[w]]

\* Both halves of recordExecution up to the append: link, push, advance.
Push(w) ==
  /\ status[w] = "up"
  /\ created < MaxEntries
  /\ created' = created + 1
  /\ mem' = [mem EXCEPT ![w] = Append(@, NewEntry(w))]

\* MUTANT of Record: the line waits in a buffer.
RecordBuffered(w) ==
  /\ Push(w)
  /\ last' = [last EXCEPT ![w] = created + 1]
  /\ file' = IF created % 2 = 0 THEN file ELSE Put(file, Whole(NewEntry(w)))
  /\ acked' = acked \cup {created + 1}
  /\ UNCHANGED <<status, thrown>>

\* recordExecution, the line appended.
Record(w) ==
  /\ Push(w)
  /\ last' = [last EXCEPT ![w] = created + 1]
  /\ file' = Put(file, Whole(NewEntry(w)))
  /\ acked' = acked \cup {created + 1}
  /\ UNCHANGED <<status, thrown>>

\* recordExecution, appendFileSync throws: memory keeps the entry.
RecordThrows(w) ==
  /\ "append" \in Faults
  /\ Push(w)
  /\ last' = [last EXCEPT ![w] = created + 1]
  /\ file' \in Cut(file, NewEntry(w))
  /\ thrown' = thrown \cup {created + 1}
  /\ UNCHANGED <<status, acked>>

\* The process dies, between calls or while a line is being appended.
Crash(w) ==
  /\ "crash" \in Faults
  /\ status[w] = "up"
  /\ \/ UNCHANGED <<file, created>>
     \/ /\ created < MaxEntries
        /\ file' \in Cut(file, NewEntry(w)) \cup {Put(file, Whole(NewEntry(w)))}
        /\ created' = created + 1
  /\ status' = [status EXCEPT ![w] = "down"]
  /\ mem' = [mem EXCEPT ![w] = <<>>]
  /\ last' = [last EXCEPT ![w] = Genesis]
  /\ UNCHANGED <<acked, thrown>>

\* MUTANT of Restart: the entries are loaded, the hash to link to is not.
RestartUnlinked(w) ==
  /\ status[w] = "down"
  /\ Readable(file)
  /\ mem' = [mem EXCEPT ![w] = Entries(file)]
  /\ status' = [status EXCEPT ![w] = "up"]
  /\ UNCHANGED <<file, last, created, acked, thrown>>

\* MUTANT of Restart: no default for an empty file.
RestartUndefined(w) ==
  /\ status[w] = "down"
  /\ Readable(file)
  /\ mem' = [mem EXCEPT ![w] = Entries(file)]
  /\ last' = [last EXCEPT ![w] = IF file = <<>> THEN -1 ELSE Last(file).entry.hash]
  /\ status' = [status EXCEPT ![w] = "up"]
  /\ UNCHANGED <<file, created, acked, thrown>>

\* The constructor with an existing file: loadFromFile, which verifies nothing.
Restart(w) ==
  /\ status[w] = "down"
  /\ Readable(file)
  /\ mem' = [mem EXCEPT ![w] = Entries(file)]
  /\ last' = [last EXCEPT ![w] = IF file = <<>> THEN Genesis ELSE Last(file).entry.hash]
  /\ status' = [status EXCEPT ![w] = "up"]
  /\ UNCHANGED <<file, created, acked, thrown>>

\* JSON.parse throws out of the constructor: no server starts on this file.
RestartFails(w) ==
  /\ status[w] = "down"
  /\ ~Readable(file)
  /\ status' = [status EXCEPT ![w] = "broken"]
  /\ UNCHANGED <<file, mem, last, created, acked, thrown>>

Next ==
  \E w \in Writers : \/ Record(w) \/ RecordThrows(w) \/ Crash(w)
                    \/ Restart(w) \/ RestartFails(w)

Spec == Init /\ [][Next]_vars

-----------------------------------------------------------------------------
(* Properties *)

Ups == {w \in Writers : status[w] = "up"}

\* verifyIntegrity: every entry links to the one before, the first to Genesis.
Verifies(s) ==
  \A i \in 1..Len(s) : s[i].prev = IF i = 1 THEN Genesis ELSE s[i - 1].hash

\* The chain a running logger holds breaks nowhere but at an append that threw:
\* whatever crash, cut line and reload came before, an entry links to the one in
\* front of it or to an entry that never reached the file.
BreaksAreThrown ==
  \A w \in Ups : \A i \in 1..Len(mem[w]) :
    mem[w][i].prev \in thrown \cup {IF i = 1 THEN Genesis ELSE mem[w][i - 1].hash}

\* Whatever recordExecution has returned is in the chain of every later process.
AckedSurvives ==
  \A w \in Ups : acked \subseteq {mem[w][i].hash : i \in 1..Len(mem[w])}

\* A log that was only ever written by its logger verifies when it is loaded
\* (audit-logger.test.ts:125 and 136): a broken chain means tampering. Broken by
\* an append that threw, and by two processes on one file.
ReloadVerifies == \A w \in Ups : Verifies(mem[w])
=============================================================================
