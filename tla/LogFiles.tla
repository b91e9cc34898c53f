------------------------------- MODULE LogFiles -------------------------------
(***************************************************************************)
(* The log on disk: a file that is opened when it is needed, and two older *)
(* ones that it becomes when it is full.  A line and the header each take  *)
(* one unit of a file.                                                     *)
(***************************************************************************)
EXTENDS Integers, Sequences

CONSTANT FileSize   \* kFileBytes, in lines

ASSUME LogFilesAssumption == FileSize \in Nat /\ FileSize >= 2

Header == <<"Header">>
Part == <<"Part">>     \* what a write that failed left behind
Absent == <<<<"Absent">>>>   \* no such file

(* "open" is a file handle, the others are contents. *)
LogFile(current) == [open |-> FALSE, current |-> current, first |-> Absent, second |-> Absent]

Closed(f) == [f EXCEPT !.open = FALSE]

Existing(contents) == IF contents = Absent THEN <<>> ELSE contents

(* bytes(): all of a line is written, or some of it, or nothing. *)
Appended(f, line) ==
    {[files |-> [f EXCEPT !.current = Append(@, line)], ok |-> TRUE],
     [files |-> Closed([f EXCEPT !.current = Append(@, Part)]), ok |-> FALSE],
     [files |-> Closed(f), ok |-> FALSE]}

AppendedAll(f, lines) ==
    UNION {IF o.ok /\ Len(lines) > 1 THEN Appended(o.files, lines[2]) ELSE {o} :
             o \in Appended(f, Head(lines))}

(* The files move up one after the other, and either move may fail. *)
Moved(f) ==
    LET older == IF f.first = Absent THEN f ELSE [f EXCEPT !.second = f.first, !.first = Absent]
        newer == IF older.current = Absent THEN older
                 ELSE [older EXCEPT !.first = older.current, !.current = Absent]
    IN  {[files |-> f, ok |-> FALSE], [files |-> older, ok |-> FALSE], [files |-> newer, ok |-> TRUE]}

(* LogWriter::write().  A file that was closed gets a header again, a file *)
(* without room for all that is to be written becomes a backup.            *)
Written(f, line) ==
    LET opened == [f EXCEPT !.open = TRUE, !.current = Existing(@)]
        prefix == IF f.open THEN <<>> ELSE <<Header>>
        full == Len(opened.current) > FileSize - 1 - Len(prefix)
        fresh(m) == [m EXCEPT !.open = TRUE, !.current = <<>>]
        unopened == IF f.open THEN {} ELSE {f, Closed(opened)}
    IN  {[files |-> g, ok |-> FALSE] : g \in unopened}
        \cup IF ~full THEN AppendedAll(opened, Append(prefix, line))
             ELSE UNION {IF o.ok
                         THEN {[files |-> o.files, ok |-> FALSE]}
                              \cup AppendedAll(fresh(o.files), <<Header, line>>)
                         ELSE {o} : o \in Moved(Closed(opened))}

(* All of the log there is, oldest line first. *)
Lines(f) == Existing(f.second) \o Existing(f.first) \o Existing(f.current)
=============================================================================
