------------------------- MODULE ServerFilesProofs -------------------------
(***************************************************************************)
(* Proofs about ServerFiles, for any writers, servers, files and faults.   *)
(***************************************************************************)
EXTENDS ServerFiles, SequenceTheorems, TLAPS

USE FilesAssumption

-----------------------------------------------------------------------------
(* The audit log: lines and chains *)

\* The hash an entry at the end of s is linked to.
EndHash(s) == IF s = <<>> THEN Audit!Genesis ELSE s[Len(s)].hash

HashesOf(s) == {s[i].hash : i \in 1..Len(s)}

\* Entries link to the one before, or to an entry of T.
Chained(s, T) ==
  \A i \in 1..Len(s) : s[i].prev \in T \cup {IF i = 1 THEN Audit!Genesis ELSE s[i - 1].hash}

LEMMA LineTypes ==
  ASSUME NEW e \in Audit!Entry
  PROVE  /\ Audit!Whole(e) \in Audit!Line /\ Audit!NoNewline(e) \in Audit!Line
         /\ Audit!Fragment \in Audit!Line /\ Audit!NoEntry \in Audit!Entry
         /\ Audit!Whole(e).entry = e /\ Audit!NoNewline(e).entry = e /\ ~Audit!Fragment.parses
BY DEF Audit!AuditAssumption, Audit!Whole, Audit!NoNewline, Audit!Fragment, Audit!NoEntry,
       Audit!Entry, Audit!Line, Audit!Hash

LEMMA EntriesType ==
  ASSUME NEW f \in Seq(Audit!Line)
  PROVE  /\ Audit!Entries(f) \in Seq(Audit!Entry)
         /\ Len(Audit!Entries(f)) = Len(f)
         /\ \A i \in 1..Len(f) : Audit!Entries(f)[i] = f[i].entry
<1>1. \A i \in 1..Len(f) : f[i] \in Audit!Line
  OBVIOUS
<1>2. \A i \in 1..Len(f) : f[i].entry \in Audit!Entry
  BY <1>1 DEF Audit!Line
<1>3. Len(f) \in Nat /\ Audit!Entries(f) \in [1..Len(f) -> Audit!Entry]
  BY <1>2 DEF Audit!Entries
<1>4. Audit!Entries(f) \in Seq(Audit!Entry)
  BY <1>3, IsASeq
<1>5. QED
  BY <1>3, <1>4, LenProperties DEF Audit!Entries

\* A line that joins an open one is not readable, and neither is the file then.
LEMMA PutFacts ==
  ASSUME NEW f \in Seq(Audit!Line), NEW l \in Audit!Line
  PROVE  /\ Audit!Put(f, l) \in Seq(Audit!Line)
         /\ Audit!Readable(Audit!Put(f, l)) =>
              /\ Audit!Readable(f)
              /\ l.parses
              /\ Audit!Entries(Audit!Put(f, l)) = Append(Audit!Entries(f), l.entry)
<1>1. CASE Audit!Open(f)
  <2>. DEFINE j == [entry |-> Audit!NoEntry, parses |-> FALSE, ended |-> l.ended]
  <2>1. j \in Audit!Line
    BY LineTypes DEF Audit!Line
  <2>2. Audit!Front(f) \in Seq(Audit!Line) /\ f # <<>>
    BY <1>1 DEF Audit!Open, Audit!Front
  <2>3. Audit!Put(f, l) = Append(Audit!Front(f), j)
    BY <1>1 DEF Audit!Put
  <2>4. Audit!Put(f, l)[Len(Audit!Front(f)) + 1] = j /\ Len(Audit!Put(f, l)) = Len(Audit!Front(f)) + 1
    BY <2>1, <2>2, <2>3
  <2>5. ~Audit!Readable(Audit!Put(f, l))
    BY <2>2, <2>4 DEF Audit!Readable
  <2>6. QED
    BY <2>1, <2>2, <2>3, <2>5
<1>2. CASE ~Audit!Open(f)
  <2>1. Audit!Put(f, l) = Append(f, l)
    BY <1>2 DEF Audit!Put
  <2>2. Audit!Entries(f) \in Seq(Audit!Entry) /\ Len(Audit!Entries(f)) = Len(f)
    BY EntriesType
  <2>3. Audit!Entries(Append(f, l)) = Append(Audit!Entries(f), l.entry)
    BY <2>2 DEF Audit!Entries, Audit!Line
  <2>4. Audit!Readable(Append(f, l)) => Audit!Readable(f) /\ l.parses
    BY DEF Audit!Readable
  <2>5. QED
    BY <2>1, <2>3, <2>4
<1>3. QED
  BY <1>1, <1>2

LEMMA ChainGrows ==
  ASSUME NEW s \in Seq(Audit!Entry), NEW e \in Audit!Entry, NEW T,
         Chained(s, T), e.prev \in T \cup {EndHash(s)}
  PROVE  /\ Chained(Append(s, e), T)
         /\ EndHash(Append(s, e)) = e.hash
         /\ HashesOf(Append(s, e)) = HashesOf(s) \cup {e.hash}
<1>. DEFINE a == Append(s, e)
<1>1. /\ a \in Seq(Audit!Entry) /\ Len(a) = Len(s) + 1 /\ Len(s) \in Nat
      /\ a[Len(s) + 1] = e /\ \A i \in 1..Len(s) : a[i] = s[i]
      /\ a # << >>
  BY AppendProperties
<1>2. Chained(a, T)
  <2>1. SUFFICES ASSUME NEW i \in 1..Len(a)
                 PROVE  a[i].prev \in T \cup {IF i = 1 THEN Audit!Genesis ELSE a[i - 1].hash}
    BY DEF Chained
  <2>2. CASE i \in 1..Len(s)
    BY <1>1, <2>2 DEF Chained
  <2>3. CASE i = Len(s) + 1
    BY <1>1, <2>3 DEF EndHash
  <2>4. QED
    BY <1>1, <2>2, <2>3
<1>3. EndHash(a) = e.hash
  BY <1>1 DEF EndHash
<1>4. HashesOf(a) = HashesOf(s) \cup {e.hash}
  BY <1>1 DEF HashesOf
<1>5. QED
  BY <1>2, <1>3, <1>4

LEMMA ChainedMonotonic ==
  ASSUME NEW s, NEW T, NEW U, T \subseteq U, Chained(s, T)
  PROVE  Chained(s, U)
BY DEF Chained

-----------------------------------------------------------------------------
(* The audit log: type correctness, for any number of loggers on the file *)

LEMMA NewEntryType ==
  ASSUME Audit!TypeOK, NEW w \in Writers, created < MaxEntries
  PROVE  /\ Audit!NewEntry(w) \in Audit!Entry /\ created + 1 \in Audit!Hash
         /\ created + 1 \in 1..MaxEntries
BY DEF Audit!TypeOK, Audit!NewEntry, Audit!Entry, Audit!Hash, Audit!AuditAssumption

LEMMA CutType ==
  ASSUME Audit!TypeOK, NEW e \in Audit!Entry,
         NEW g \in Audit!Cut(auditFile, e) \cup {Audit!Put(auditFile, Audit!Whole(e))}
  PROVE  g \in Seq(Audit!Line)
<1>1. auditFile \in Seq(Audit!Line)
  BY DEF Audit!TypeOK
<1>2. \A l \in {Audit!Whole(e), Audit!NoNewline(e), Audit!Fragment} :
        Audit!Put(auditFile, l) \in Seq(Audit!Line)
  BY <1>1, LineTypes, PutFacts
<1>3. QED
  BY <1>1, <1>2 DEF Audit!Cut

LEMMA RestartHash ==
  ASSUME NEW f \in Seq(Audit!Line)
  PROVE  /\ EndHash(Audit!Entries(f)) =
              IF f = << >> THEN Audit!Genesis ELSE Audit!Last(f).entry.hash
         /\ EndHash(Audit!Entries(f)) \in Audit!Hash
<1>1. /\ Audit!Entries(f) \in Seq(Audit!Entry) /\ Len(Audit!Entries(f)) = Len(f)
      /\ \A i \in 1..Len(f) : Audit!Entries(f)[i] = f[i].entry
  BY EntriesType
<1>2. CASE f = << >>
  BY <1>1, <1>2, EmptySeq DEF EndHash, Audit!Hash, Audit!Genesis, Audit!AuditAssumption
<1>3. CASE f # << >>
  <2>1. Len(f) \in 1..Len(f) /\ Audit!Entries(f) # << >>
    BY <1>1, <1>3
  <2>2. Audit!Entries(f)[Len(f)] \in Audit!Entry
    BY <1>1, <2>1
  <2>3. QED
    BY <1>1, <1>3, <2>1, <2>2 DEF Audit!Last, Audit!Entry, EndHash
<1>4. QED
  BY <1>2, <1>3

LEMMA AuditTypeKept ==
  ASSUME Audit!TypeOK, Audit!Next
  PROVE  Audit!TypeOK'
<1>. USE DEF Audit!TypeOK
<1>1. PICK w \in Writers : \/ Audit!Record(w) \/ Audit!RecordThrows(w) \/ Audit!Crash(w)
                           \/ Audit!Restart(w) \/ Audit!RestartFails(w)
  BY DEF Audit!Next
<1>2. CASE Audit!Record(w)
  <2>1. Audit!NewEntry(w) \in Audit!Entry /\ created + 1 \in 1..MaxEntries /\ created + 1 \in Audit!Hash
    BY <1>2, NewEntryType DEF Audit!Record, Audit!Push
  <2>2. auditFile' \in Seq(Audit!Line)
    BY <1>2, <2>1, CutType DEF Audit!Record
  <2>3. auditMem' \in [Writers -> Seq(Audit!Entry)]
    BY <1>2, <2>1 DEF Audit!Record, Audit!Push
  <2>4. QED
    BY <1>2, <2>1, <2>2, <2>3 DEF Audit!Record, Audit!Push
<1>3. CASE Audit!RecordThrows(w)
  <2>1. Audit!NewEntry(w) \in Audit!Entry /\ created + 1 \in 1..MaxEntries /\ created + 1 \in Audit!Hash
    BY <1>3, NewEntryType DEF Audit!RecordThrows, Audit!Push
  <2>2. auditFile' \in Seq(Audit!Line)
    BY <1>3, <2>1, CutType DEF Audit!RecordThrows
  <2>3. auditMem' \in [Writers -> Seq(Audit!Entry)]
    BY <1>3, <2>1 DEF Audit!RecordThrows, Audit!Push
  <2>4. QED
    BY <1>3, <2>1, <2>2, <2>3 DEF Audit!RecordThrows, Audit!Push
<1>4. CASE Audit!Crash(w)
  <2>1. auditFile' \in Seq(Audit!Line) /\ created' \in 0..MaxEntries
    <3>1. CASE UNCHANGED <<auditFile, created>>
      BY <3>1
    <3>2. CASE /\ created < MaxEntries /\ created' = created + 1
               /\ auditFile' \in Audit!Cut(auditFile, Audit!NewEntry(w))
                                 \cup {Audit!Put(auditFile, Audit!Whole(Audit!NewEntry(w)))}
      BY <3>2, NewEntryType, CutType
    <3>3. QED
      BY <1>4, <3>1, <3>2 DEF Audit!Crash
  <2>2. QED
    BY <1>4, <2>1 DEF Audit!Crash, Audit!Genesis, Audit!Hash, Audit!AuditAssumption
<1>5. CASE Audit!Restart(w)
  <2>1. auditFile \in Seq(Audit!Line)
    OBVIOUS
  <2>2. Audit!Entries(auditFile) \in Seq(Audit!Entry)
    BY <2>1, EntriesType
  <2>3. last' = [last EXCEPT ![w] = EndHash(Audit!Entries(auditFile))]
        /\ EndHash(Audit!Entries(auditFile)) \in Audit!Hash
    BY <1>5, <2>1, RestartHash DEF Audit!Restart
  <2>4. QED
    BY <1>5, <2>2, <2>3 DEF Audit!Restart
<1>6. CASE Audit!RestartFails(w)
  BY <1>6 DEF Audit!RestartFails
<1>7. QED
  BY <1>1, <1>2, <1>3, <1>4, <1>5, <1>6

-----------------------------------------------------------------------------
(* The audit log: the inductive invariant. While its file can be read, the  *)
(* entries in it are chained and have all that was acknowledged; and a       *)
(* running logger is about to link to the last of them, unless its last      *)
(* append threw.                                                            *)

ReadableFile == Audit!Readable(auditFile)
FileEntries == Audit!Entries(auditFile)

FileInv ==
  ReadableFile => Chained(FileEntries, thrown) /\ auditAcked \subseteq HashesOf(FileEntries)

MemoryInv ==
  \A w \in Audit!Ups : /\ Chained(auditMem[w], thrown)
                       /\ auditAcked \subseteq HashesOf(auditMem[w])
                       /\ last[w] = EndHash(auditMem[w])

LinkInv ==
  \A w \in Audit!Ups : ReadableFile => last[w] \in thrown \cup {EndHash(FileEntries)}

AuditInv == Audit!TypeOK /\ FileInv /\ MemoryInv /\ LinkInv

\* There is one logger on a file.
OneLogger == \A v, w \in Writers : v = w

LEMMA AuditInit == Audit!Init => AuditInv
<1>. SUFFICES ASSUME Audit!Init PROVE AuditInv
  OBVIOUS
<1>1. Audit!TypeOK
  BY DEF Audit!Init, Audit!TypeOK, Audit!AuditAssumption, Audit!Genesis, Audit!Hash
<1>2. FileEntries = << >> /\ Len(FileEntries) = 0
  <2>1. auditFile = << >> /\ auditFile \in Seq(Audit!Line)
    BY DEF Audit!Init
  <2>2. Len(FileEntries) = 0 /\ FileEntries \in Seq(Audit!Entry)
    BY <2>1, EntriesType DEF FileEntries
  <2>3. QED
    BY <2>2, EmptySeq
<1>3. \A T : Chained(<< >>, T)
  BY DEF Chained
<1>4. EndHash(<< >>) = Audit!Genesis
  BY DEF EndHash
<1>5. auditAcked = {} /\ \A w \in Audit!Ups : auditMem[w] = << >> /\ last[w] = Audit!Genesis
  BY DEF Audit!Init, Audit!Ups
<1>6. QED
  BY <1>1, <1>2, <1>3, <1>4, <1>5
  DEF AuditInv, FileInv, MemoryInv, LinkInv

\* What a line of the entry that a running logger makes does to the file.
LEMMA PutKeeps ==
  ASSUME AuditInv, NEW w \in Audit!Ups, created < MaxEntries,
         NEW l \in Audit!Line, l.parses => l.entry = Audit!NewEntry(w)
  PROVE  /\ Audit!Put(auditFile, l) \in Seq(Audit!Line)
         /\ Audit!Readable(Audit!Put(auditFile, l)) =>
              /\ ReadableFile
              /\ Chained(Audit!Entries(Audit!Put(auditFile, l)), thrown)
              /\ auditAcked \cup {created + 1} \subseteq HashesOf(Audit!Entries(Audit!Put(auditFile, l)))
              /\ EndHash(Audit!Entries(Audit!Put(auditFile, l))) = created + 1
<1>. DEFINE e == Audit!NewEntry(w)
            g == Audit!Put(auditFile, l)
<1>1. /\ e \in Audit!Entry /\ e.hash = created + 1 /\ e.prev = last[w]
      /\ auditFile \in Seq(Audit!Line)
  BY NewEntryType DEF AuditInv, Audit!TypeOK, Audit!NewEntry, Audit!Ups
<1>2. /\ g \in Seq(Audit!Line)
      /\ Audit!Readable(g) => /\ ReadableFile /\ l.parses
                             /\ Audit!Entries(g) = Append(FileEntries, l.entry)
  BY <1>1, PutFacts DEF ReadableFile, FileEntries
<1>3. ASSUME Audit!Readable(g)
      PROVE  /\ ReadableFile
             /\ Chained(Audit!Entries(g), thrown)
             /\ auditAcked \cup {created + 1} \subseteq HashesOf(Audit!Entries(g))
             /\ EndHash(Audit!Entries(g)) = created + 1
  <2>1. ReadableFile /\ Audit!Entries(g) = Append(FileEntries, e)
    BY <1>2, <1>3
  <2>2. FileEntries \in Seq(Audit!Entry)
    BY <1>1, EntriesType DEF FileEntries
  <2>3. Chained(FileEntries, thrown) /\ auditAcked \subseteq HashesOf(FileEntries)
    BY <2>1 DEF AuditInv, FileInv
  <2>4. e.prev \in thrown \cup {EndHash(FileEntries)}
    BY <1>1, <2>1 DEF AuditInv, LinkInv
  <2>5. /\ Chained(Append(FileEntries, e), thrown)
        /\ EndHash(Append(FileEntries, e)) = e.hash
        /\ HashesOf(Append(FileEntries, e)) = HashesOf(FileEntries) \cup {e.hash}
    BY <1>1, <2>2, <2>3, <2>4, ChainGrows
  <2>6. QED
    BY <1>1, <2>1, <2>3, <2>5
<1>4. QED
  BY <1>2, <1>3

\* What an append that fails, or the one a process dies in, does to the file.
LEMMA CutKeeps ==
  ASSUME AuditInv, NEW w \in Audit!Ups, created < MaxEntries,
         NEW g \in Audit!Cut(auditFile, Audit!NewEntry(w))
                    \cup {Audit!Put(auditFile, Audit!Whole(Audit!NewEntry(w)))}
  PROVE  /\ g \in Seq(Audit!Line)
         /\ Audit!Readable(g) =>
              Chained(Audit!Entries(g), thrown) /\ auditAcked \subseteq HashesOf(Audit!Entries(g))
<1>. DEFINE e == Audit!NewEntry(w)
<1>1. e \in Audit!Entry
  BY NewEntryType DEF AuditInv, Audit!Ups
<1>2. CASE g = auditFile
  BY <1>2 DEF AuditInv, FileInv, ReadableFile, FileEntries, Audit!TypeOK
<1>3. \A l \in {Audit!Whole(e), Audit!NoNewline(e), Audit!Fragment} :
        l \in Audit!Line /\ (l.parses => l.entry = e)
  BY <1>1, LineTypes
<1>4. CASE \E l \in {Audit!Whole(e), Audit!NoNewline(e), Audit!Fragment} :
             g = Audit!Put(auditFile, l)
  BY <1>3, <1>4, PutKeeps
<1>5. QED
  BY <1>2, <1>4 DEF Audit!Cut

\* Both records: what the logger has in memory.
LEMMA PushKeeps ==
  ASSUME AuditInv, NEW w \in Writers, Audit!Push(w), last' = [last EXCEPT ![w] = created + 1],
         UNCHANGED status, NEW T, thrown \subseteq T
  PROVE  /\ w \in Audit!Ups /\ created < MaxEntries /\ Audit!Ups' = Audit!Ups
         /\ created' \in 0..MaxEntries /\ created' = created + 1
         /\ auditMem' \in [Writers -> Seq(Audit!Entry)]
         /\ last' \in [Writers -> Audit!Hash]
         /\ last'[w] = created + 1
         /\ Chained(auditMem'[w], T)
         /\ auditAcked \cup {created + 1} \subseteq HashesOf(auditMem'[w])
         /\ last'[w] = EndHash(auditMem'[w])
<1>. DEFINE e == Audit!NewEntry(w)
<1>1. w \in Audit!Ups /\ created < MaxEntries /\ Audit!Ups' = Audit!Ups
  BY DEF Audit!Push, Audit!Ups
<1>2. e \in Audit!Entry /\ e.hash = created + 1 /\ e.prev = last[w] /\ created + 1 \in Audit!Hash
  BY <1>1, NewEntryType DEF AuditInv, Audit!NewEntry
<1>3. auditMem \in [Writers -> Seq(Audit!Entry)] /\ auditMem[w] \in Seq(Audit!Entry)
  BY DEF AuditInv, Audit!TypeOK
<1>4. auditMem' = [auditMem EXCEPT ![w] = Append(auditMem[w], e)] /\ created' = created + 1
  BY DEF Audit!Push
<1>5. auditMem'[w] = Append(auditMem[w], e)
  BY <1>3, <1>4
<1>6. auditMem' \in [Writers -> Seq(Audit!Entry)]
  BY <1>2, <1>3, <1>4
<1>7. last \in [Writers -> Audit!Hash] /\ created' \in 0..MaxEntries
  BY <1>1, <1>4 DEF AuditInv, Audit!TypeOK, Audit!AuditAssumption
<1>8. last' \in [Writers -> Audit!Hash] /\ last'[w] = created + 1
  BY <1>2, <1>7
<1>9. /\ Chained(auditMem[w], T) /\ e.prev = EndHash(auditMem[w])
      /\ auditAcked \subseteq HashesOf(auditMem[w])
  BY <1>1, <1>2, ChainedMonotonic DEF AuditInv, MemoryInv
<1>10. /\ Chained(Append(auditMem[w], e), T)
       /\ EndHash(Append(auditMem[w], e)) = e.hash
       /\ HashesOf(Append(auditMem[w], e)) = HashesOf(auditMem[w]) \cup {e.hash}
  BY <1>2, <1>3, <1>9, ChainGrows
<1>11. QED
  BY <1>1, <1>2, <1>4, <1>5, <1>6, <1>7, <1>8, <1>9, <1>10

LEMMA AuditStepKeeps ==
  ASSUME OneLogger, AuditInv, Audit!Next
  PROVE  AuditInv'
<1>. USE DEF OneLogger
<1>1. PICK w \in Writers : \/ Audit!Record(w) \/ Audit!RecordThrows(w) \/ Audit!Crash(w)
                           \/ Audit!Restart(w) \/ Audit!RestartFails(w)
  BY DEF Audit!Next
<1>2. \A v \in Audit!Ups' : v = w
  BY DEF Audit!Ups
<1>3. Audit!TypeOK'
  BY AuditTypeKept DEF AuditInv
<1>4. CASE Audit!Record(w)
  <2>1. Audit!Whole(Audit!NewEntry(w)) \in Audit!Line
        /\ Audit!Whole(Audit!NewEntry(w)).entry = Audit!NewEntry(w)
    BY <1>4, NewEntryType, LineTypes DEF AuditInv, Audit!Record, Audit!Push
  <2>2. Audit!Push(w) /\ last' = [last EXCEPT ![w] = created + 1] /\ UNCHANGED <<status, thrown>>
        /\ auditFile' = Audit!Put(auditFile, Audit!Whole(Audit!NewEntry(w)))
        /\ auditAcked' = auditAcked \cup {created + 1}
    BY <1>4 DEF Audit!Record
  <2>3. /\ w \in Audit!Ups /\ created < MaxEntries /\ Audit!Ups' = Audit!Ups
        /\ created' \in 0..MaxEntries /\ created' = created + 1
        /\ auditMem' \in [Writers -> Seq(Audit!Entry)]
        /\ last' \in [Writers -> Audit!Hash]
        /\ last'[w] = created + 1
        /\ Chained(auditMem'[w], thrown)
        /\ auditAcked \cup {created + 1} \subseteq HashesOf(auditMem'[w])
        /\ last'[w] = EndHash(auditMem'[w])
    BY <2>2, PushKeeps
  <2>4. /\ auditFile' \in Seq(Audit!Line)
        /\ ReadableFile' => /\ ReadableFile
                            /\ Chained(FileEntries', thrown)
                            /\ auditAcked \cup {created + 1} \subseteq HashesOf(FileEntries')
                            /\ EndHash(FileEntries') = created + 1
    BY <2>1, <2>2, <2>3, PutKeeps DEF ReadableFile, FileEntries
  <2>5. FileInv' /\ LinkInv'
    BY <1>2, <2>2, <2>3, <2>4 DEF FileInv, LinkInv
  <2>6. MemoryInv'
    BY <1>2, <2>2, <2>3 DEF MemoryInv
  <2>7. QED
    BY <1>3, <2>5, <2>6 DEF AuditInv
<1>5. CASE Audit!RecordThrows(w)
  <2>1. Audit!Push(w) /\ last' = [last EXCEPT ![w] = created + 1] /\ UNCHANGED <<status, auditAcked>>
        /\ auditFile' \in Audit!Cut(auditFile, Audit!NewEntry(w))
        /\ thrown' = thrown \cup {created + 1}
    BY <1>5 DEF Audit!RecordThrows
  <2>2. /\ w \in Audit!Ups /\ created < MaxEntries /\ Audit!Ups' = Audit!Ups
        /\ created' \in 0..MaxEntries /\ created' = created + 1
        /\ auditMem' \in [Writers -> Seq(Audit!Entry)]
        /\ last' \in [Writers -> Audit!Hash]
        /\ last'[w] = created + 1
        /\ Chained(auditMem'[w], thrown')
        /\ auditAcked \cup {created + 1} \subseteq HashesOf(auditMem'[w])
        /\ last'[w] = EndHash(auditMem'[w])
    BY <2>1, PushKeeps
  <2>3. /\ auditFile' \in Seq(Audit!Line)
        /\ ReadableFile' => Chained(FileEntries', thrown) /\ auditAcked \subseteq HashesOf(FileEntries')
    BY <2>1, <2>2, CutKeeps DEF ReadableFile, FileEntries
  <2>4. FileInv'
    BY <2>1, <2>3, ChainedMonotonic DEF FileInv
  <2>5. LinkInv'
    BY <1>2, <2>1, <2>2 DEF LinkInv
  <2>6. MemoryInv'
    BY <1>2, <2>1, <2>2 DEF MemoryInv
  <2>7. QED
    BY <1>3, <2>4, <2>5, <2>6 DEF AuditInv
<1>6. CASE Audit!Crash(w)
  <2>1. w \in Audit!Ups /\ Audit!Ups' = {}
    BY <1>2, <1>6 DEF Audit!Crash, Audit!Ups, AuditInv, Audit!TypeOK
  <2>2. ReadableFile' => Chained(FileEntries', thrown) /\ auditAcked \subseteq HashesOf(FileEntries')
    <3>1. CASE UNCHANGED <<auditFile, created>>
      BY <3>1 DEF AuditInv, FileInv, ReadableFile, FileEntries, Audit!TypeOK
    <3>2. CASE /\ created < MaxEntries /\ created' = created + 1
               /\ auditFile' \in Audit!Cut(auditFile, Audit!NewEntry(w))
                                 \cup {Audit!Put(auditFile, Audit!Whole(Audit!NewEntry(w)))}
      BY <2>1, <3>2, CutKeeps DEF ReadableFile, FileEntries
    <3>3. QED
      BY <1>6, <3>1, <3>2 DEF Audit!Crash
  <2>3. UNCHANGED <<auditAcked, thrown>>
    BY <1>6 DEF Audit!Crash
  <2>4. QED
    BY <1>3, <2>1, <2>2, <2>3 DEF AuditInv, FileInv, MemoryInv, LinkInv
<1>7. CASE Audit!Restart(w)
  <2>1. /\ ReadableFile /\ UNCHANGED <<auditFile, created, auditAcked, thrown>>
        /\ auditMem' = [auditMem EXCEPT ![w] = FileEntries]
        /\ status' = [status EXCEPT ![w] = "up"]
        /\ auditFile \in Seq(Audit!Line) /\ auditMem \in [Writers -> Seq(Audit!Entry)]
        /\ last \in [Writers -> Audit!Hash]
    BY <1>7 DEF Audit!Restart, ReadableFile, FileEntries, AuditInv, Audit!TypeOK
  <2>2. last' = [last EXCEPT ![w] = EndHash(FileEntries)]
    BY <1>7, <2>1, RestartHash DEF Audit!Restart, FileEntries
  <2>3. FileInv' /\ ReadableFile' /\ FileEntries' = FileEntries
    BY <2>1 DEF AuditInv, FileInv, ReadableFile, FileEntries
  <2>4. auditMem'[w] = FileEntries /\ last'[w] = EndHash(FileEntries)
    BY <2>1, <2>2
  <2>5. MemoryInv' /\ LinkInv'
    BY <1>2, <2>1, <2>3, <2>4 DEF AuditInv, FileInv, MemoryInv, LinkInv
  <2>6. QED
    BY <1>3, <2>3, <2>5 DEF AuditInv
<1>8. CASE Audit!RestartFails(w)
  <2>1. UNCHANGED <<auditFile, auditMem, last, created, auditAcked, thrown>> /\ Audit!Ups' = {}
    BY <1>2, <1>8 DEF Audit!RestartFails, Audit!Ups, AuditInv, Audit!TypeOK
  <2>2. QED
    BY <1>3, <2>1 DEF AuditInv, FileInv, MemoryInv, LinkInv, ReadableFile, FileEntries
<1>9. QED
  BY <1>1, <1>4, <1>5, <1>6, <1>7, <1>8

LEMMA AuditStutter ==
  ASSUME AuditInv, UNCHANGED auditVars
  PROVE  AuditInv'
BY DEF AuditInv, FileInv, MemoryInv, LinkInv, ReadableFile, FileEntries, auditVars,
       Audit!TypeOK, Audit!Ups

-----------------------------------------------------------------------------
(* The revocation list: type correctness. A server that writes the list is    *)
(* revoking a hash.                                                          *)

CallInv ==
  \A s \in Servers :
    /\ op[s] = "revoke" => arg[s] \in Hashes
    /\ pc[s] \in {"write", "fill", "stat"} => op[s] = "revoke"

RevocationTypeInv == Revocation!TypeOK /\ CallInv

LEMMA RunningServers ==
  ASSUME Revocation!TypeOK
  PROVE  deployed.running \subseteq Servers
BY DEF Revocation!TypeOK, Revocation!RevocationAssumption, Revocation!Deployment

LEMMA RevocationInit == Revocation!Init => RevocationTypeInv
BY DEF Revocation!Init, RevocationTypeInv, CallInv, Revocation!TypeOK,
       Revocation!RevocationAssumption, Revocation!Deployment

LEMMA RevocationTypeKept ==
  ASSUME RevocationTypeInv, Revocation!Next
  PROVE  RevocationTypeInv'
<1>. USE DEF RevocationTypeInv, CallInv, Revocation!TypeOK, Revocation!disk, Revocation!history,
             Revocation!call, Revocation!Goto
<1>. deployed.running \subseteq Servers /\ NoHash \notin Hashes
  BY RunningServers DEF Revocation!RevocationAssumption
<1>1. ASSUME NEW s \in deployed.running, Revocation!Skip(s) PROVE RevocationTypeInv'
  BY <1>1 DEF Revocation!Skip, Revocation!Unchanged
<1>2. ASSUME NEW s \in deployed.running, Revocation!StatNewer(s) PROVE RevocationTypeInv'
  BY <1>2 DEF Revocation!StatNewer, Revocation!Unchanged
<1>3. ASSUME NEW s \in deployed.running, Revocation!Reload(s) PROVE RevocationTypeInv'
  BY <1>3 DEF Revocation!Reload
<1>4. ASSUME NEW s \in deployed.running, Revocation!ReadCut(s) PROVE RevocationTypeInv'
  BY <1>4 DEF Revocation!ReadCut
<1>5. ASSUME NEW s \in deployed.running, Revocation!Missing(s) PROVE RevocationTypeInv'
  BY <1>5 DEF Revocation!Missing
<1>6. ASSUME NEW s \in deployed.running, Revocation!Create(s) PROVE RevocationTypeInv'
  BY <1>6 DEF Revocation!Create, Revocation!Store
<1>7. ASSUME NEW s \in deployed.running, Revocation!Created(s) PROVE RevocationTypeInv'
  BY <1>7 DEF Revocation!Created
<1>7a. ASSUME NEW s \in deployed.running, Revocation!CreateCuts(s) PROVE RevocationTypeInv'
  <2>1. exists' \in BOOLEAN /\ whole' \in BOOLEAN
    BY <1>7a, Zenon DEF Revocation!CreateCuts
  <2>2. /\ loaded' \in [Servers -> -1..mtime'] /\ seen' \in [Servers -> -1..mtime']
        /\ mtime' \in Nat
    BY <1>7a DEF Revocation!CreateCuts
  <2>3. QED
    BY <1>7a, <2>1, <2>2 DEF Revocation!CreateCuts
<1>7b. ASSUME NEW s \in deployed.running, Revocation!CreateError(s) PROVE RevocationTypeInv'
  BY <1>7b DEF Revocation!CreateError
<1>8. ASSUME NEW s \in deployed.running, Revocation!Answer(s) PROVE RevocationTypeInv'
  BY <1>8 DEF Revocation!Answer, Revocation!Return
<1>9. ASSUME NEW s \in deployed.running, Revocation!AddToMemory(s) PROVE RevocationTypeInv'
  BY <1>9 DEF Revocation!AddToMemory
<1>10. ASSUME NEW s \in deployed.running, Revocation!CutFile(s) PROVE RevocationTypeInv'
  <2>1. exists' \in BOOLEAN /\ whole' \in BOOLEAN
    BY <1>10, Zenon DEF Revocation!CutFile
  <2>2. /\ loaded' \in [Servers -> -1..mtime'] /\ seen' \in [Servers -> -1..mtime']
        /\ mtime' \in Nat
    BY <1>10 DEF Revocation!CutFile
  <2>3. QED
    BY <1>10, <2>1, <2>2 DEF Revocation!CutFile
<1>11. ASSUME NEW s \in deployed.running, Revocation!WriteList(s) PROVE RevocationTypeInv'
  BY <1>11 DEF Revocation!WriteList, Revocation!Store
<1>12. ASSUME NEW s \in deployed.running, Revocation!WriteError(s) PROVE RevocationTypeInv'
  BY <1>12 DEF Revocation!WriteError, Revocation!Return
<1>13. ASSUME NEW s \in deployed.running, Revocation!WriteFull(s) PROVE RevocationTypeInv'
  BY <1>13 DEF Revocation!WriteFull, Revocation!Return
<1>14. ASSUME NEW s \in deployed.running, Revocation!StatOwnWrite(s) PROVE RevocationTypeInv'
  BY <1>14 DEF Revocation!StatOwnWrite, Revocation!Return
<1>15. ASSUME NEW s \in deployed.running, Revocation!Restart(s) PROVE RevocationTypeInv'
  BY <1>15 DEF Revocation!Restart, Revocation!Reborn
<1>16. ASSUME NEW s \in deployed.running, Revocation!Die(s) PROVE RevocationTypeInv'
  BY <1>16 DEF Revocation!Die, Revocation!Reborn
<1>17. ASSUME NEW s \in deployed.running, NEW h \in Hashes, Revocation!Check(s, h) PROVE RevocationTypeInv'
  BY <1>17 DEF Revocation!Check, Revocation!Begin
<1>18. ASSUME NEW s \in deployed.running, NEW h \in Hashes, Revocation!Revoke(s, h) PROVE RevocationTypeInv'
  BY <1>18 DEF Revocation!Revoke, Revocation!Begin
<1>19. ASSUME NEW h \in Hashes, Revocation!OperatorAdds(h) PROVE RevocationTypeInv'
  BY <1>19 DEF Revocation!OperatorAdds, Revocation!Store
<1>20. ASSUME NEW h \in Hashes, Revocation!OperatorRestores(h) PROVE RevocationTypeInv'
  BY <1>20 DEF Revocation!OperatorRestores, Revocation!Store
<1>21. QED
  BY <1>1, <1>2, <1>3, <1>4, <1>5, <1>6, <1>7, <1>7a, <1>7b, <1>8, <1>9, <1>10, <1>11, <1>12,
     <1>13, <1>14, <1>15, <1>16, <1>17, <1>18, <1>19, <1>20
  DEF Revocation!Next, Revocation!Steps

-----------------------------------------------------------------------------
(* The revocation list that no server writes: its hashes are those acknowledged,  *)
(* and a server that has loaded its last version has them.                   *)

Reading == deployed.revokers = {} /\ deployed.present

ReaderInv ==
  Reading =>
    /\ exists /\ whole /\ acked = list
    /\ \A s \in Servers :
         /\ pc[s] \in {"idle", "load", "read", "loaded"} /\ op[s] # "revoke"
         /\ loaded[s] = mtime => known[s] = list
         /\ due[s] => pc[s] # "idle" /\ arg[s] \in list
         /\ due[s] /\ pc[s] = "loaded" => arg[s] \in known[s]

LEMMA ReaderInit == Revocation!Init => ReaderInv
BY DEF Revocation!Init, ReaderInv, Reading, Revocation!RevocationAssumption, Revocation!Deployment

LEMMA ReaderKept ==
  ASSUME RevocationTypeInv, ReaderInv, Revocation!Next
  PROVE  ReaderInv'
<1>. USE DEF RevocationTypeInv, CallInv, Revocation!TypeOK, ReaderInv, Reading,
             Revocation!disk, Revocation!history, Revocation!call, Revocation!Goto
<1>. deployed.running \subseteq Servers
  BY RunningServers
<1>1. ASSUME NEW s \in deployed.running, Revocation!Skip(s) PROVE ReaderInv'
  BY <1>1 DEF Revocation!Skip, Revocation!Unchanged
<1>2. ASSUME NEW s \in deployed.running, Revocation!StatNewer(s) PROVE ReaderInv'
  BY <1>2 DEF Revocation!StatNewer, Revocation!Unchanged
<1>3. ASSUME NEW s \in deployed.running, Revocation!Reload(s) PROVE ReaderInv'
  BY <1>3 DEF Revocation!Reload
<1>4. ASSUME NEW s \in deployed.running, Revocation!ReadCut(s) PROVE ReaderInv'
  BY <1>4 DEF Revocation!ReadCut
<1>5. ASSUME NEW s \in deployed.running, Revocation!Missing(s) PROVE ReaderInv'
  BY <1>5 DEF Revocation!Missing
<1>6. ASSUME NEW s \in deployed.running, Revocation!Create(s) PROVE ReaderInv'
  BY <1>6 DEF Revocation!Create, Revocation!Store
<1>7. ASSUME NEW s \in deployed.running, Revocation!Created(s) PROVE ReaderInv'
  BY <1>7 DEF Revocation!Created
<1>7a. ASSUME NEW s \in deployed.running, Revocation!CreateCuts(s) PROVE ReaderInv'
  BY <1>7a DEF Revocation!CreateCuts
<1>7b. ASSUME NEW s \in deployed.running, Revocation!CreateError(s) PROVE ReaderInv'
  BY <1>7b DEF Revocation!CreateError
<1>8. ASSUME NEW s \in deployed.running, Revocation!Answer(s) PROVE ReaderInv'
  BY <1>8 DEF Revocation!Answer, Revocation!Return
<1>9. ASSUME NEW s \in deployed.running, Revocation!AddToMemory(s) PROVE ReaderInv'
  BY <1>9 DEF Revocation!AddToMemory
<1>10. ASSUME NEW s \in deployed.running, Revocation!CutFile(s) PROVE ReaderInv'
  BY <1>10 DEF Revocation!CutFile
<1>11. ASSUME NEW s \in deployed.running, Revocation!WriteList(s) PROVE ReaderInv'
  BY <1>11 DEF Revocation!WriteList, Revocation!Store
<1>12. ASSUME NEW s \in deployed.running, Revocation!WriteError(s) PROVE ReaderInv'
  BY <1>12 DEF Revocation!WriteError, Revocation!Return
<1>13. ASSUME NEW s \in deployed.running, Revocation!WriteFull(s) PROVE ReaderInv'
  BY <1>13 DEF Revocation!WriteFull, Revocation!Return
<1>14. ASSUME NEW s \in deployed.running, Revocation!StatOwnWrite(s) PROVE ReaderInv'
  BY <1>14 DEF Revocation!StatOwnWrite, Revocation!Return
<1>15. ASSUME NEW s \in deployed.running, Revocation!Restart(s) PROVE ReaderInv'
  BY <1>15 DEF Revocation!Restart, Revocation!Reborn
<1>16. ASSUME NEW s \in deployed.running, Revocation!Die(s) PROVE ReaderInv'
  BY <1>16 DEF Revocation!Die, Revocation!Reborn
<1>17. ASSUME NEW s \in deployed.running, NEW h \in Hashes, Revocation!Check(s, h) PROVE ReaderInv'
  BY <1>17 DEF Revocation!Check, Revocation!Begin
<1>18. ASSUME NEW s \in deployed.running, NEW h \in Hashes, Revocation!Revoke(s, h) PROVE ReaderInv'
  BY <1>18 DEF Revocation!Revoke, Revocation!Begin
<1>19. ASSUME NEW h \in Hashes, Revocation!OperatorAdds(h) PROVE ReaderInv'
  BY <1>19 DEF Revocation!OperatorAdds, Revocation!Store
<1>20. ASSUME NEW h \in Hashes, Revocation!OperatorRestores(h) PROVE ReaderInv'
  <2>1. /\ list' = list \ {h} /\ acked' = acked \ {h} /\ mtime' = mtime + 1
        /\ exists' = TRUE /\ whole' = TRUE
        /\ UNCHANGED <<deployed, known, loaded, pc, op, arg>>
        /\ \A s \in Servers : due'[s] = (due[s] /\ arg[s] # h)
    BY <1>20 DEF Revocation!OperatorRestores, Revocation!Store
  <2>2. \A s \in Servers : loaded'[s] # mtime'
    BY <2>1
  <2>3. QED
    BY <2>1, <2>2
<1>21. QED
  BY <1>1, <1>2, <1>3, <1>4, <1>5, <1>6, <1>7, <1>7a, <1>7b, <1>8, <1>9, <1>10, <1>11, <1>12,
     <1>13, <1>14, <1>15, <1>16, <1>17, <1>18, <1>19, <1>20
  DEF Revocation!Next, Revocation!Steps

-----------------------------------------------------------------------------
(* The revocation list that one server writes, and no operator. Unless its    *)
(* file is cut, or what was loaded of it last is its last version, the writer  *)
(* finds in it every hash that it was told to revoke, but for the one it is    *)
(* about to add.                                                             *)

Writes(s) == s \in deployed.running /\ (s \in deployed.revokers \/ ~deployed.present)
Pending(s) == IF op[s] = "revoke" THEN {arg[s]} ELSE {}

\* Until its file is made and filled there is nothing in the list.
MakingInv ==
  /\ deployed.present => exists
  /\ ~exists => list = {}
  /\ \A s \in Servers : pc[s] = "create" => ~exists
  /\ \A s \in Servers : pc[s] \in {"make", "created"} => list = {}

\* When making it does not fail at once, the file is made in the first load.
MakesFirst == deployed.present \/ "save" \notin deployed.faults
FirstLoadInv ==
  MakesFirst =>
    /\ ~exists => /\ \A s \in Servers : own[s] = {}
                  /\ \A s \in deployed.running : pc[s] \in {"load", "create"}
    /\ \A s \in Servers : pc[s] \in {"make", "created"} => own[s] = {}

\* Who is where in a call.
WriterPcInv ==
  \A s \in Servers :
    /\ s \notin deployed.running => pc[s] = "idle"
    /\ pc[s] = "idle" => op[s] # "revoke"
    /\ own[s] # {} \/ op[s] = "revoke" => s \in deployed.revokers \cap deployed.running
    /\ pc[s] \in {"create", "make", "created"} => ~deployed.present
    /\ pc[s] \in {"make", "fill"} => ~whole /\ exists

OwnInv ==
  \A s \in Servers :
    /\ pc[s] \in {"write", "fill", "stat"} => arg[s] \in known[s]
    /\ MakesFirst => /\ own[s] \subseteq known[s] \cup Pending(s)
                     /\ whole /\ loaded[s] # mtime => own[s] \ Pending(s) \subseteq list

\* What a load leaves: nobody else writes between its steps.
LoadInv ==
  \A s \in Servers :
    Writes(s) => /\ pc[s] = "read" => seen[s] = mtime /\ loaded[s] # mtime
                 /\ pc[s] \in {"loaded", "write"} =>
                      loaded[s] = mtime \/ ~whole \/ (~deployed.present /\ list = {})

\* The writer has all of the file, when no write of it fails half way.
MergeInv ==
  deployed.faults \subseteq {"save"} =>
    \A s \in Servers :
      Writes(s) => /\ ~whole => pc[s] \in {"make", "fill"}
                   /\ loaded[s] = mtime \/ pc[s] \in {"created", "fill", "stat"}
                        => list \subseteq known[s]

WriterInv ==
  Revocation!OneWriter /\ ~deployed.operator =>
    MakingInv /\ FirstLoadInv /\ WriterPcInv /\ OwnInv /\ LoadInv /\ MergeInv

LEMMA WriterInit == Revocation!Init => WriterInv
BY DEF Revocation!Init, WriterInv, MakingInv, FirstLoadInv, WriterPcInv, OwnInv, LoadInv, MergeInv, MakesFirst,
       Revocation!RevocationAssumption, Revocation!Deployment, Writes, Pending

\* Every step of the system keeps it.
LEMMA WriterKept ==
  ASSUME RevocationTypeInv, WriterInv, Revocation!Next
  PROVE  WriterInv'
<1>. USE DEF RevocationTypeInv, CallInv, Revocation!TypeOK, Revocation!disk, Revocation!history,
             Revocation!call, Revocation!Goto, Writes, Pending
<1>. deployed.running \subseteq Servers
  BY RunningServers
<1>1. UNCHANGED deployed
  BY DEF Revocation!Next, Revocation!Steps, Revocation!Skip, Revocation!StatNewer, Revocation!Reload, Revocation!ReadCut,
     Revocation!Missing, Revocation!CreateCuts, Revocation!Create, Revocation!Store,
     Revocation!CreateError, Revocation!Created, Revocation!Answer,
     Revocation!AddToMemory, Revocation!CutFile, Revocation!WriteList, Revocation!WriteError,
     Revocation!WriteFull, Revocation!StatOwnWrite, Revocation!Restart, Revocation!Reborn,
     Revocation!Die, Revocation!Check, Revocation!Revoke, Revocation!OperatorAdds, Revocation!OperatorRestores
<1>2. SUFFICES ASSUME Revocation!OneWriter, ~deployed.operator
               PROVE  MakingInv' /\ FirstLoadInv' /\ WriterPcInv' /\ OwnInv' /\ LoadInv' /\ MergeInv'
  BY <1>1 DEF WriterInv, Revocation!OneWriter
<1>. MakingInv /\ FirstLoadInv /\ WriterPcInv /\ OwnInv /\ LoadInv /\ MergeInv
  BY <1>2 DEF WriterInv
<1>3. \A s, t \in deployed.running : Writes(s) /\ Writes(t) => s = t
  BY <1>2 DEF Revocation!OneWriter
<1>. DEFINE Kept == MakingInv' /\ FirstLoadInv' /\ WriterPcInv' /\ OwnInv' /\ LoadInv' /\ MergeInv'
<1>. USE DEF MakingInv, FirstLoadInv, WriterPcInv, OwnInv, LoadInv, MergeInv, MakesFirst
<1>4. ASSUME NEW s \in deployed.running, Revocation!Skip(s) PROVE Kept
  BY <1>1, <1>3, <1>4 DEF Revocation!Skip, Revocation!Unchanged
<1>5. ASSUME NEW s \in deployed.running, Revocation!StatNewer(s) PROVE Kept
  BY <1>1, <1>3, <1>5 DEF Revocation!StatNewer, Revocation!Unchanged
<1>6. ASSUME NEW s \in deployed.running, Revocation!Reload(s) PROVE Kept
  BY <1>1, <1>3, <1>6 DEF Revocation!Reload
<1>7. ASSUME NEW s \in deployed.running, Revocation!ReadCut(s) PROVE Kept
  BY <1>1, <1>3, <1>7 DEF Revocation!ReadCut
<1>8. ASSUME NEW s \in deployed.running, Revocation!Missing(s) PROVE Kept
  BY <1>1, <1>3, <1>8 DEF Revocation!Missing
<1>9. ASSUME NEW s \in deployed.running, Revocation!Create(s) PROVE Kept
  BY <1>1, <1>3, <1>9 DEF Revocation!Create, Revocation!Store
<1>10. ASSUME NEW s \in deployed.running, Revocation!Created(s) PROVE Kept
  BY <1>1, <1>3, <1>10 DEF Revocation!Created
<1>10a. ASSUME NEW s \in deployed.running, Revocation!CreateCuts(s) PROVE Kept
  BY <1>1, <1>3, <1>10a DEF Revocation!CreateCuts
<1>10b. ASSUME NEW s \in deployed.running, Revocation!CreateError(s) PROVE Kept
  BY <1>1, <1>3, <1>10b DEF Revocation!CreateError
<1>11. ASSUME NEW s \in deployed.running, Revocation!Answer(s) PROVE Kept
  BY <1>1, <1>3, <1>11 DEF Revocation!Answer, Revocation!Return
<1>12. ASSUME NEW s \in deployed.running, Revocation!AddToMemory(s) PROVE Kept
  BY <1>1, <1>3, <1>12 DEF Revocation!AddToMemory
<1>13. ASSUME NEW s \in deployed.running, Revocation!CutFile(s) PROVE Kept
  BY <1>1, <1>3, <1>13 DEF Revocation!CutFile
<1>14. ASSUME NEW s \in deployed.running, Revocation!WriteList(s) PROVE Kept
  BY <1>1, <1>3, <1>14 DEF Revocation!WriteList, Revocation!Store
<1>15. ASSUME NEW s \in deployed.running, Revocation!WriteError(s) PROVE Kept
  BY <1>1, <1>3, <1>15 DEF Revocation!WriteError, Revocation!Return
<1>16. ASSUME NEW s \in deployed.running, Revocation!WriteFull(s) PROVE Kept
  BY <1>1, <1>3, <1>16 DEF Revocation!WriteFull, Revocation!Return
<1>17. ASSUME NEW s \in deployed.running, Revocation!StatOwnWrite(s) PROVE Kept
  BY <1>1, <1>3, <1>17 DEF Revocation!StatOwnWrite, Revocation!Return
<1>18. ASSUME NEW s \in deployed.running, Revocation!Restart(s) PROVE Kept
  BY <1>1, <1>3, <1>18 DEF Revocation!Restart, Revocation!Reborn
<1>19. ASSUME NEW s \in deployed.running, Revocation!Die(s) PROVE Kept
  BY <1>1, <1>3, <1>19 DEF Revocation!Die, Revocation!Reborn
<1>20. ASSUME NEW s \in deployed.running, NEW h \in Hashes, Revocation!Check(s, h) PROVE Kept
  BY <1>1, <1>3, <1>20 DEF Revocation!Check, Revocation!Begin
<1>21. ASSUME NEW s \in deployed.running, NEW h \in Hashes, Revocation!Revoke(s, h) PROVE Kept
  BY <1>1, <1>3, <1>21 DEF Revocation!Revoke, Revocation!Begin
<1>22. QED
  BY <1>2, <1>4, <1>5, <1>6, <1>7, <1>8, <1>9, <1>10, <1>10a, <1>10b, <1>11, <1>12, <1>13,
     <1>14, <1>15, <1>16, <1>17, <1>18, <1>19, <1>20, <1>21
  DEF Revocation!Next, Revocation!Steps, Revocation!OperatorAdds, Revocation!OperatorRestores

\* The file is written by the one who makes it, when there is nothing in it, and by
\* the writer, who has all of it.
LEMMA WriterUnrevokesNothing ==
  ASSUME RevocationTypeInv, WriterInv, Revocation!Next,
         Revocation!OneWriter, deployed.faults \subseteq {"save"}, ~deployed.operator
  PROVE  list \subseteq list'
<1>1. MakingInv /\ WriterPcInv /\ MergeInv /\ deployed.running \subseteq Servers
  BY RunningServers DEF WriterInv, RevocationTypeInv
<1>2. ASSUME NEW s \in deployed.running, Revocation!Create(s) PROVE list \subseteq list'
  BY <1>1, <1>2 DEF Revocation!Create, MakingInv
<1>3. ASSUME NEW s \in deployed.running, Revocation!WriteList(s) PROVE list \subseteq list'
  <2>1. op[s] = "revoke" /\ pc[s] = "fill" /\ list' = known[s]
    BY <1>1, <1>3 DEF Revocation!WriteList, Revocation!Store, RevocationTypeInv, CallInv
  <2>2. Writes(s)
    BY <1>1, <2>1 DEF WriterPcInv, Writes
  <2>3. QED
    BY <1>1, <2>1, <2>2 DEF MergeInv
<1>3a. ASSUME NEW s \in deployed.running, Revocation!CreateError(s) PROVE list \subseteq list'
  BY <1>1, <1>3a DEF Revocation!CreateError, MakingInv
<1>4. QED
  BY <1>2, <1>3, <1>3a
  DEF Revocation!Next, Revocation!Steps, Revocation!disk, Revocation!Skip,
      Revocation!StatNewer, Revocation!Reload, Revocation!ReadCut, Revocation!Missing,
      Revocation!CreateCuts, Revocation!Created, Revocation!Answer, Revocation!AddToMemory, Revocation!CutFile,
      Revocation!WriteError, Revocation!WriteFull, Revocation!StatOwnWrite,
      Revocation!Restart, Revocation!Die, Revocation!Check, Revocation!Revoke,
      Revocation!OperatorAdds, Revocation!OperatorRestores

LEMMA RevocationStutter ==
  ASSUME RevocationTypeInv, ReaderInv, WriterInv, UNCHANGED listVars
  PROVE  RevocationTypeInv' /\ ReaderInv' /\ WriterInv'
BY DEF listVars, RevocationTypeInv, CallInv, Revocation!TypeOK, ReaderInv, Reading, WriterInv,
       Revocation!OneWriter, MakingInv, FirstLoadInv, WriterPcInv, OwnInv, LoadInv, MergeInv, MakesFirst, Writes, Pending

-----------------------------------------------------------------------------
(* The certificates: the inductive invariant. A file that is not in memory as  *)
(* it is on disk has an event or the timer set, or the load that goes on has    *)
(* still to read it.                                                         *)

\* The files that a load reads from its step a on.
StillRead(a) ==
  CASE a = "root" -> Certs!Kinds
    [] a \in {"exist", "chain"} -> {"chain", "key"}
    [] a = "key" -> {"key"}
    [] OTHER -> {}

\* Once a load got past the search for the pair, it is there for good.
PresentInv ==
  /\ \A f \in Certs!Kinds : f \in Files <=> disk[f] # Certs!Absent
  /\ manager \in {"watching", "ready", "reloading"} \/ at \in {"chain", "key", "inspect"}
       => {"chain", "key"} \subseteq Files

BehindInv ==
  \A f \in Files \ unseen :
    /\ manager \in {"loading", "watching", "ready", "reloading"}
    /\ buffers[f] # Certs!OnDisk(f)
    => \/ f \in queued
       \/ timer
       \/ Certs!Loading /\ f \in StillRead(at)

CertInv == Certs!TypeOK /\ PresentInv /\ BehindInv

LEMMA CertInit == Certs!Init => CertInv
<1>. SUFFICES ASSUME Certs!Init PROVE CertInv
  OBVIOUS
<1>. USE DEF Certs!Init, Certs!Kinds, Certs!Contents, Certs!Absent, Certs!Torn, Certs!Nothing,
             Certs!CertAssumption
<1>1. Certs!Nothing \in [Certs!Kinds -> Certs!Contents]
  OBVIOUS
<1>2. server \in Certs!Creds
  BY <1>1 DEF Certs!NotMade, Certs!Creds
<1>3. Certs!TypeOK
  <2>1. timer \in BOOLEAN
    BY Zenon
  <2>2. QED
    BY <1>1, <1>2, <2>1 DEF Certs!TypeOK
<1>4. PresentInv
  BY DEF PresentInv
<1>5. BehindInv
  BY DEF BehindInv, Certs!Loading, StillRead
<1>6. QED
  BY <1>3, <1>4, <1>5 DEF CertInv

\* What credentials can be made of.
LEMMA CredsType ==
  ASSUME Certs!TypeOK
  PROVE  Certs!ServerCredentials \subseteq Certs!Creds
<1>1. Certs!Held \in [Certs!Kinds -> Certs!Contents]
  BY DEF Certs!Held, Certs!OnDisk, Certs!TypeOK, Certs!Contents
<1>2. Certs!Nothing \in [Certs!Kinds -> Certs!Contents]
  BY DEF Certs!Nothing, Certs!Contents
<1>3. {Certs!Made, Certs!Refused, Certs!Insecure} \subseteq Certs!Creds
  BY <1>1, <1>2 DEF Certs!Made, Certs!Refused, Certs!Insecure, Certs!Creds
<1>4. QED
  BY <1>3 DEF Certs!ServerCredentials, Certs!MadeOf, Certs!Fallback

LEMMA CertKept ==
  ASSUME CertInv, Certs!Next
  PROVE  CertInv'
<1>. USE DEF CertInv, Certs!TypeOK, PresentInv, BehindInv, StillRead, Certs!OnDisk, Certs!Loading,
             Certs!Kinds, Certs!Contents, Certs!Absent, Certs!Torn, Certs!files,
             Certs!CertAssumption
<1>1. ASSUME NEW f \in Files, Certs!Truncate(f) PROVE CertInv'
  BY <1>1 DEF Certs!Truncate, Certs!Changed
<1>2. ASSUME NEW f \in Files, Certs!Fill(f) PROVE CertInv'
  BY <1>2 DEF Certs!Fill, Certs!Changed
<1>3. ASSUME NEW f \in Files, Certs!Replace(f) PROVE CertInv'
  BY <1>3 DEF Certs!Replace, Certs!Changed
<1>4. CASE Certs!ReadRoot
  BY <1>4 DEF Certs!ReadRoot, Certs!Read
<1>5. CASE Certs!FindPair
  BY <1>5 DEF Certs!FindPair, Certs!Throws
<1>6. CASE Certs!ReadChain
  BY <1>6 DEF Certs!ReadChain, Certs!Read
<1>7. CASE Certs!ReadKey
  BY <1>7 DEF Certs!ReadKey, Certs!Read
<1>8. CASE Certs!Inspect
  BY <1>8 DEF Certs!Inspect, Certs!Throws, Certs!Loaded
<1>9. CASE Certs!Watch
  BY <1>9 DEF Certs!Watch
<1>10. CASE Certs!Event
  BY <1>10 DEF Certs!Event
<1>11. CASE Certs!Fire
  BY <1>11 DEF Certs!Fire
<1>12. CASE Certs!Dispose
  BY <1>12 DEF Certs!Dispose
<1>13. CASE Certs!Listen
  BY <1>13, CredsType DEF Certs!Listen
<1>14. QED
  BY <1>1, <1>2, <1>3, <1>4, <1>5, <1>6, <1>7, <1>8, <1>9, <1>10, <1>11, <1>12, <1>13
  DEF Certs!Next, Certs!Renewal, Certs!Load

-----------------------------------------------------------------------------
(* The theorems. A step of one component leaves the others as they are.      *)

sysVars == <<part, auditVars, listVars, certVars>>

TypeInv == Audit!TypeOK /\ RevocationTypeInv /\ CertInv

LEMMA TypeInvInductive == Spec => []TypeInv
<1>1. Init => TypeInv
  BY AuditInit, RevocationInit, CertInit DEF Init, TypeInv, AuditInv
<1>2. TypeInv /\ [Next]_sysVars => TypeInv'
  <2>1. TypeInv /\ AuditStep => TypeInv'
    BY AuditTypeKept DEF AuditStep, TypeInv, listVars, certVars, RevocationTypeInv, CallInv,
       Revocation!TypeOK, CertInv, Certs!TypeOK, PresentInv, BehindInv, Certs!OnDisk, Certs!Loading
  <2>2. TypeInv /\ RevocationStep => TypeInv'
    BY RevocationTypeKept DEF RevocationStep, TypeInv, auditVars, certVars, Audit!TypeOK,
       CertInv, Certs!TypeOK, PresentInv, BehindInv, Certs!OnDisk, Certs!Loading
  <2>3. TypeInv /\ CertStep => TypeInv'
    BY CertKept DEF CertStep, TypeInv, auditVars, listVars, Audit!TypeOK, RevocationTypeInv,
       CallInv, Revocation!TypeOK
  <2>4. TypeInv /\ UNCHANGED sysVars => TypeInv'
    BY DEF sysVars, TypeInv, auditVars, listVars, certVars, Audit!TypeOK, RevocationTypeInv,
       CallInv, Revocation!TypeOK, CertInv, Certs!TypeOK, PresentInv, BehindInv, Certs!OnDisk,
       Certs!Loading
  <2>5. QED
    BY <2>1, <2>2, <2>3, <2>4 DEF Next
<1>3. QED
  BY <1>1, <1>2, PTL DEF Spec, sysVars

\* Every variable keeps its type: what a restart reads back from a file cut short,
\* and modification times that calls in progress and an operator advance.
THEOREM TypeCorrect == Spec => []TypeOK
<1>1. TypeInv => TypeOK
  BY DEF TypeInv, TypeOK, RevocationTypeInv, CertInv
<1>2. QED
  BY <1>1, TypeInvInductive, PTL

LEMMA AuditInvInductive ==
  ASSUME OneLogger
  PROVE  Spec => []AuditInv
<1>1. Init => AuditInv
  BY AuditInit DEF Init
<1>2. AuditInv /\ [Next]_sysVars => AuditInv'
  BY AuditStepKeeps, AuditStutter
  DEF Next, AuditStep, RevocationStep, CertStep, sysVars
<1>3. QED
  BY <1>1, <1>2, PTL DEF Spec, sysVars

\* With one logger on the file, whatever crashes, lines cut short and reloads came
\* before, its chain breaks only where appendFileSync threw.
THEOREM ChainBreaksAreThrown ==
  ASSUME OneLogger
  PROVE  Spec => []BreaksAreThrown
<1>1. AuditInv => BreaksAreThrown
  BY DEF AuditInv, MemoryInv, Chained, BreaksAreThrown, Audit!BreaksAreThrown
<1>2. QED
  BY <1>1, AuditInvInductive, PTL

\* With one logger on the file, an entry whose recordExecution returned is in the
\* chain of every process that starts on the file after.
THEOREM AcknowledgedSurvives ==
  ASSUME OneLogger
  PROVE  Spec => []AckedSurvives
<1>1. AuditInv => AckedSurvives
  BY DEF AuditInv, MemoryInv, HashesOf, AckedSurvives, Audit!AckedSurvives
<1>2. QED
  BY <1>1, AuditInvInductive, PTL

RevocationInv == RevocationTypeInv /\ ReaderInv /\ WriterInv

LEMMA RevocationInvInductive == Spec => []RevocationInv
<1>1. Init => RevocationInv
  BY RevocationInit, ReaderInit, WriterInit DEF Init, RevocationInv
<1>2. RevocationInv /\ [Next]_sysVars => RevocationInv'
  BY RevocationTypeKept, ReaderKept, WriterKept, RevocationStutter
  DEF RevocationInv, Next, AuditStep, RevocationStep, CertStep, sysVars
<1>3. QED
  BY <1>1, <1>2, PTL DEF Spec, sysVars

\* In every deployment whose file is there and written by operators alone, where each
\* write has a modification time of its own: a hash revoked before a check began is
\* refused by it (loadRevocationList).
THEOREM RevokedRefused == Spec => []RevokedIsRefused
<1>1. RevocationInv => RevokedIsRefused
  BY DEF RevocationInv, ReaderInv, Reading, RevokedIsRefused, Revocation!RevokedIsRefused,
     Revocation!Refuses
<1>2. QED
  BY <1>1, RevocationInvInductive, PTL

\* In every deployment with one server that writes the file, and no operator, where
\* the file is there or can be made: no reload and no failed write makes the writer
\* forget what it was told to revoke since it started.
THEOREM OwnRevocationsKept == Spec => []OwnRevocationKept
<1>1. RevocationInv => OwnRevocationKept
  BY DEF RevocationInv, WriterInv, OwnInv, MakesFirst, Pending, OwnRevocationKept,
     Revocation!OwnRevocationKept
<1>2. QED
  BY <1>1, RevocationInvInductive, PTL

\* With one writer whose writes are whole or fail at once, no step takes a hash out
\* of the file.
THEOREM NoRevocationUndone == Spec => NothingUnrevoked
<1>. DEFINE Grows == Revocation!OneWriter /\ deployed.faults \subseteq {"save"} /\ ~deployed.operator
                       => list \subseteq list'
<1>1. RevocationInv /\ [Next]_sysVars => [Grows]_list
  BY WriterUnrevokesNothing
  DEF RevocationInv, Next, AuditStep, RevocationStep, CertStep, sysVars, listVars
<1>2. Spec => [][Grows]_list
  BY <1>1, RevocationInvInductive, PTL DEF Spec, sysVars
<1>3. QED
  BY <1>2 DEF NothingUnrevoked, Revocation!NothingUnrevoked

\* However renewals of the certificate files cross with loads, events and the timer,
\* a manager with nothing left to do has in memory what is on disk.
THEOREM ManagerInStep == Spec => []InStep
<1>1. TypeInv => InStep
  BY DEF TypeInv, CertInv, BehindInv, InStep, Certs!InStep, Certs!Idle, Certs!Loading
<1>2. QED
  BY <1>1, TypeInvInductive, PTL
=============================================================================
