--------------------------- MODULE MCServerFiles ---------------------------
(* Small instances of the files of a server. *)
EXTENDS ServerFiles

CONSTANTS w1, s1, s2, h1, h2

MCWriters == {w1}
AnyFault == {"append", "crash", "tear"}

MCServers == {s1, s2}
MCHashes == {h1, h2}

\* One server, with a file and without, where everything may fail, or only opening
\* the file, or all but that.
Alone == [running |-> {s1}, revokers |-> {s1}, operator |-> FALSE,
          present |-> TRUE, faults |-> {"save", "full", "die"}]
Makes == [Alone EXCEPT !.present = FALSE]
MakesLate == [Makes EXCEPT !.faults = {"save"}]
MakesFirst == [Makes EXCEPT !.faults = {"full", "die"}]

\* One server revokes, another reads the same file.
Shared == [running |-> {s1, s2}, revokers |-> {s1}, operator |-> FALSE,
           present |-> TRUE, faults |-> {"save"}]

\* Two servers read what an operator edits.
Edited == [running |-> {s1, s2}, revokers |-> {}, operator |-> TRUE,
           present |-> TRUE, faults |-> {}]

MCDeployments == {Alone, Makes, MakesLate, MakesFirst, Shared, Edited}

MCFiles == {"root", "chain", "key"}
Heard == [tls |-> "manager", enforced |-> FALSE, mutual |-> TRUE, heard |-> TRUE]
Unheard == [tls |-> "manager", enforced |-> TRUE, mutual |-> FALSE, heard |-> FALSE]
MCSetups == {Heard, Unheard}
=============================================================================
