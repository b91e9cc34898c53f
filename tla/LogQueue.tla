------------------------------- MODULE LogQueue -------------------------------
(***************************************************************************)
(* The reporting session: threads that put records into a queue without    *)
(* waiting, one worker that formats them, folds repetitions together and   *)
(* writes them to the log, reports what was lost, writes the newest status *)
(* report, and ends when the session is shut down and its queue is empty.  *)
(***************************************************************************)
EXTENDS LogFiles, SequencesExt, FiniteSets

CONSTANTS
    Producers,
    Slots,       \* kQueueSlots
    Batch,       \* records of one pass
    Records,     \* that are submitted
    Levels,      \* severity filters the session may be configured with
    MaxRecords,  \* calls of producers
    MaxReports,  \* status reports that are published
    MaxFaults,   \* failures of formatters and files
    Reports,     \* contents of status reports
    Leftovers    \* of an earlier process, in the log

ASSUME LogQueueAssumption ==
    /\ {Slots, Batch, MaxRecords, MaxReports, MaxFaults} \subseteq Nat /\ Slots > 0 /\ Batch > 0

None == "None"

(* FC_LogLevel *)
Error == 1
Warning == 2
Info == 3

VARIABLES
    phase,      \* of the session: "New", "Started", "Broken"
    level,      \* the severity filter
    closed,     \* admission_closed_
    active,     \* threads between active_writes_.fetch_add and fetch_sub
    producer,   \* [Producers -> where a thread is, with what]
    free,       \* number of free slots
    pending,    \* records on the pending list, the newest first
    accepted,   \* counters of the session,
    refused,    \* and the losses at admission, which it does not tell apart
    submitted,  \* number of calls of producers
    worker,     \* where the worker is
    batch,      \* its detached list, the oldest first
    log,        \* the output side of the session
    report      \* the status report

queue == <<free, pending, accepted>>
calls == <<active, producer, submitted>>
vars == <<phase, level, closed, queue, refused, calls, worker, batch, log, report>>

-----------------------------------------------------------------------------

(* A record: "key" stands for owner and text, "n" is for the place in the  *)
(* queue.                                                                  *)
NoProblem == [kind |-> "Text", key |-> None, level |-> Error, n |-> 0]

(* "slot" is the notice the next pass reports; "problem" is the last       *)
(* warning that was written and "repeats" how often it came again.         *)
NoSlot == [pending |-> FALSE, reason |-> None, level |-> Error]

NewLog(leftover) ==
    [files |-> LogFile(leftover), failed |-> FALSE, written |-> 0, dropped |-> 0, reported |-> 0,
     slot |-> NoSlot, problem |-> NoProblem, repeats |-> 0, faults |-> 0]

(* "content" is what the file holds, and "successful" what the publisher   *)
(* believes it holds.                                                      *)
NewReport == [pending |-> None, retry |-> None, successful |-> None, content |-> None,
              failed |-> FALSE, published |-> 0]

Resting == [at |-> "Idle"]

Init ==
    /\ phase = "New" /\ level = Warning /\ closed = FALSE
    /\ active = {} /\ producer = [p \in Producers |-> Resting] /\ submitted = 0
    /\ free = 0 /\ pending = <<>> /\ accepted = 0 /\ refused = 0
    /\ worker = [at |-> "None"] /\ batch = <<>>
    /\ log \in {NewLog(leftover) : leftover \in Leftovers}
    /\ report = NewReport

(* ReportingSession::start(); what it needs may not be there. *)
Start ==
    /\ phase = "New" /\ ~closed
    /\ \/ /\ phase' = "Started"
          /\ free' = Slots
          /\ worker' = [at |-> "Waiting"]
          /\ UNCHANGED log
       \/ /\ phase' = "Broken"
          /\ log' = [log EXCEPT !.failed = TRUE,
                                !.slot = [pending |-> TRUE, reason |-> "Start", level |-> Error]]
          /\ UNCHANGED <<free, worker>>
    /\ UNCHANGED <<level, closed, pending, accepted, refused, calls, batch, report>>

(* Once the settings are known, before any patch runs. *)
Configure(value) ==
    /\ phase # "New" /\ submitted = 0 /\ report.published = 0 /\ level # value
    /\ level' = value
    /\ UNCHANGED <<phase, closed, queue, refused, calls, worker, batch, log, report>>

(* Admission closes under the lock that publish() and the last check of    *)
(* the worker take.                                                        *)
Shutdown ==
    /\ ~closed /\ worker.at # "Stopping"
    /\ closed' = TRUE
    /\ UNCHANGED <<phase, level, queue, refused, calls, worker, batch, log, report>>

-----------------------------------------------------------------------------
(* Producers.                                                              *)

Enabled(value) == value \in Error .. level

Step(p, at) == producer' = [producer EXCEPT ![p].at = at]

(* write(), submit() or diagnostic() of any thread.  *)
Submit(p, record) ==
    /\ phase # "New" /\ ~closed /\ submitted < MaxRecords
    /\ producer[p].at = "Idle"
    /\ producer' = [producer EXCEPT ![p] = [at |-> "Entering", record |-> record]]
    /\ submitted' = submitted + 1
    /\ UNCHANGED <<phase, level, closed, queue, refused, active, worker, batch, log, report>>

Enter(p) ==
    /\ producer[p].at = "Entering"
    /\ active' = active \cup {p}
    /\ Step(p, "Inside")
    /\ UNCHANGED <<phase, level, closed, queue, refused, submitted, worker, batch, log, report>>

Lost(l, count) == [l EXCEPT !.dropped = @ + count]

(* diagnostic(): the slot holds the latest notice; the same one again is   *)
(* no news unless the log failed anew.                                     *)
Noticed(l, reason, severity, anew) ==
    IF ~anew /\ l.slot.reason = reason /\ l.slot.level = severity THEN l
    ELSE [l EXCEPT !.slot = [pending |-> TRUE, reason |-> reason, level |-> severity]]

(* Admission is looked at again once shutdown can see the thread. *)
Admitted == ~closed

(* copy_record() up to the slot it takes, without waiting for one. *)
Admit(p) ==
    LET record == producer[p].record
        takes == phase = "Started" /\ ~log.failed /\ free > 0
    IN  /\ producer[p].at = "Inside"
        /\ \/ /\ Admitted /\ record.kind # "Notice" /\ Enabled(record.level) /\ takes
              /\ free' = free - 1
              /\ Step(p, "Copying")
              /\ UNCHANGED <<refused, log>>
           \/ /\ Admitted /\ record.kind # "Notice" /\ Enabled(record.level) /\ ~takes
              /\ log' = Lost(log, 1)
              /\ refused' = refused + 1
              /\ Step(p, "Leaving")
              /\ UNCHANGED free
           \/ /\ Admitted /\ record.kind = "Notice"
              /\ log' = Noticed(log, record.key, record.level, FALSE)
              /\ Step(p, "Leaving")
              /\ UNCHANGED <<refused, free>>
           \/ /\ ~Admitted \/ (record.kind # "Notice" /\ ~Enabled(record.level))
              /\ Step(p, "Leaving")
              /\ UNCHANGED <<refused, free, log>>
        /\ UNCHANGED <<phase, level, closed, pending, accepted, active, submitted, worker, batch, report>>

(* The record has the number it has in the order of publication. *)
Push(p) ==
    /\ producer[p].at = "Copying"
    /\ accepted' = accepted + 1
    /\ pending' = <<[producer[p].record EXCEPT !.n = accepted + 1]>> \o pending
    /\ Step(p, "Pushed")
    /\ UNCHANGED <<phase, level, closed, free, refused, active, submitted, worker, batch, log, report>>

Remaining(p) == active \ {p}

(* Who leaves may be the one that shutdown waits for. *)
Leave(p) ==
    /\ producer[p].at \in {"Pushed", "Leaving"}
    /\ active' = Remaining(p)
    /\ producer' = [producer EXCEPT ![p] = Resting]
    /\ UNCHANGED <<phase, level, closed, queue, refused, submitted, worker, batch, log, report>>

(* publish_status() of the control thread; a newer report replaces one     *)
(* that was not taken.                                                     *)
Publish(content) ==
    /\ phase # "New" /\ ~closed /\ worker.at # "Stopping"
    /\ report.published < MaxReports
    /\ report' = [report EXCEPT !.pending = content, !.published = @ + 1]
    /\ UNCHANGED <<phase, level, closed, queue, refused, calls, worker, batch, log>>

-----------------------------------------------------------------------------
(* Output.  A write has several outcomes, so what is written next is       *)
(* written to each of them.                                                *)

Then(outcomes, next(_)) == UNION {next(l) : l \in outcomes}

(* What a write may do to the log, and whether it succeeded. *)
Attempts(l, line) ==
    {[log |-> [l EXCEPT !.files = w.files, !.faults = IF w.ok THEN @ ELSE @ + 1], ok |-> w.ok] :
        w \in {w \in Written(l.files, line) : w.ok \/ l.faults < MaxFaults}}

(* A write failed; only the first of an outage is news. *)
Outage(l, reason) == Noticed([l EXCEPT !.failed = TRUE], reason, Error, ~l.failed)

(* write_line() for a line that stands for a number of records. *)
WriteLine(l, line, count) ==
    {IF a.ok THEN [a.log EXCEPT !.written = @ + count, !.failed = FALSE]
     ELSE Outage(Lost(a.log, count), "Record") : a \in Attempts(l, line)}

(* summarize_problem() *)
Summarized(l) ==
    IF l.repeats = 0 THEN {l}
    ELSE WriteLine([l EXCEPT !.repeats = 0], <<"Summary", l.problem.n, l.repeats>>, l.repeats)

SameProblem(l, record) ==
    /\ record.level \in {Error, Warning}
    /\ l.problem.key = record.key /\ l.problem.level = record.level

(* A problem that was written is remembered. *)
Remembered(l, before, record) ==
    IF l.written > before /\ record.level \in {Error, Warning} THEN [l EXCEPT !.problem = record] ELSE l

Folded(l) == [l EXCEPT !.repeats = @ + 1]

(* output() *)
Output(l, record) ==
    (IF record.kind = "Formatted" /\ l.faults < MaxFaults
     THEN {[Noticed(Lost(l, 1), "Format", Error, FALSE) EXCEPT !.faults = @ + 1]} ELSE {})
    \cup IF SameProblem(l, record) THEN {Folded(l)}
         ELSE Then(Summarized(l), LAMBDA s :
                {Remembered(w, s.written, record) :
                    w \in WriteLine([s EXCEPT !.problem = NoProblem], <<"Record", record.n>>, 1)})

(* A notice of the session itself; the first one after an outage adds that *)
(* output recovered.                                                       *)
Recovered(l) ==
    {IF a.ok THEN a.log ELSE Outage(a.log, "Recovery") : a \in Attempts(l, <<"Recovered">>)}

WriteNotice(l, line, severity) ==
    IF ~Enabled(severity) THEN {[log |-> l, ok |-> TRUE]}
    ELSE UNION {IF ~a.ok THEN {[log |-> Outage(a.log, "Notices"), ok |-> FALSE]}
                ELSE {[log |-> r, ok |-> TRUE] :
                        r \in IF a.log.failed /\ Enabled(Info)
                              THEN Recovered([a.log EXCEPT !.failed = FALSE])
                              ELSE {[a.log EXCEPT !.failed = FALSE]}} :
                  a \in Attempts(l, line)}

(* report_diagnostics(): the latest notice, and losses that are new.  Both *)
(* are read before anything is written.                                    *)
Reported(l) ==
    LET slot == l.slot
        taken == [l EXCEPT !.slot.pending = FALSE]
        noticed ==
            IF (slot.pending \/ l.failed) /\ slot.reason # None /\ Enabled(slot.level)
            THEN {w.log : w \in WriteNotice(taken, <<"Notice", slot.reason>>, slot.level)}
            ELSE IF l.failed THEN {w.log : w \in WriteNotice(taken, <<"Failed">>, Error)}
            ELSE {taken}
    IN  IF l.dropped = l.reported THEN noticed
        ELSE Then(noticed, LAMBDA n :
                {IF w.ok THEN [w.log EXCEPT !.reported = l.dropped] ELSE w.log :
                    w \in WriteNotice(n, <<"Dropped", l.dropped>>, Warning)})

-----------------------------------------------------------------------------
(* The worker. *)

WorkerAt(at) == worker.at = at

(* An event or a second without one, whichever comes first: who sets the   *)
(* event matters to how soon the worker goes on, not to what it does.      *)
Wake ==
    /\ WorkerAt("Waiting")
    /\ worker' = [at |-> "Taking", left |-> Batch]
    /\ UNCHANGED <<phase, level, closed, queue, refused, calls, batch, log, report>>

Detached(records) == Reverse(records)

(* One record, from the detached list or from the pending one, all of      *)
(* which is detached; its slot is free before it is formatted.             *)
Take ==
    LET records == IF batch = <<>> THEN Detached(pending) ELSE batch
    IN  /\ WorkerAt("Taking")
        /\ pending' = IF batch = <<>> THEN <<>> ELSE pending
        /\ IF worker.left > 0 /\ records # <<>>
           THEN /\ batch' = Tail(records)
                /\ free' = free + 1
                /\ worker' = [at |-> "Writing", left |-> worker.left - 1, record |-> Head(records)]
           ELSE /\ batch' = records
                /\ worker' = [at |-> "Summary"]
                /\ UNCHANGED free
        /\ UNCHANGED <<phase, level, closed, accepted, refused, calls, log, report>>

Write ==
    /\ WorkerAt("Writing")
    /\ log' \in Output(log, worker.record)
    /\ worker' = [at |-> "Taking", left |-> worker.left]
    /\ UNCHANGED <<phase, level, closed, queue, refused, calls, batch, report>>

(* Repetitions are written about once a second. *)
Summarize ==
    /\ WorkerAt("Summary")
    /\ log' \in {log} \cup Summarized(log)
    /\ worker' = [at |-> "Status"]
    /\ UNCHANGED <<phase, level, closed, queue, refused, calls, batch, report>>

(* StatusPublisher::publish(): what the file holds afterwards and how it   *)
(* ended.  A failure may come before the file changes or leave it torn.    *)
PublishOutcomes(r) ==
    IF r.retry = r.successful THEN {[outcome |-> "Unchanged", content |-> r.content]}
    ELSE {[outcome |-> "Written", content |-> r.retry]}
         \cup (IF log.faults < MaxFaults
               THEN {[outcome |-> "Failed", content |-> c] : c \in {r.content, "Torn"}} ELSE {})

(* The newest report is adopted and written; a failed one is tried again.  *)
Status ==
    LET r == IF report.pending = None THEN report
             ELSE [report EXCEPT !.retry = report.pending, !.pending = None]
    IN  /\ WorkerAt("Status")
        /\ IF r.retry = None
           THEN report' = r /\ UNCHANGED log
           ELSE \E p \in PublishOutcomes(r) :
                  IF p.outcome = "Failed"
                  THEN /\ report' = [r EXCEPT !.failed = TRUE, !.content = p.content]
                       /\ log' = [(IF r.failed THEN log ELSE Noticed(log, "Status", Error, FALSE))
                                     EXCEPT !.faults = @ + 1]
                  ELSE /\ report' = [r EXCEPT !.retry = None, !.failed = FALSE, !.content = p.content,
                                              !.successful = r.retry]
                       /\ log' = IF r.failed THEN Noticed(log, "StatusRecovered", Info, FALSE) ELSE log
        /\ worker' = [at |-> "Reporting"]
        /\ UNCHANGED <<phase, level, closed, queue, refused, calls, batch>>

ReportDiagnostics ==
    /\ WorkerAt("Reporting")
    /\ log' \in Reported(log)
    /\ worker' = [at |-> "Checking"]
    /\ UNCHANGED <<phase, level, closed, queue, refused, calls, batch, report>>

(* Mutant: threads that were admitted are not waited for. *)
ClosedAlready == closed

StoppedAlready == closed /\ active = {}

(* With the lock: first whether anybody can still publish, *)
CheckStopped ==
    /\ WorkerAt("Checking")
    /\ worker' = [at |-> "Stopping", stopped |-> StoppedAlready]
    /\ UNCHANGED <<phase, level, closed, queue, refused, calls, batch, log, report>>

(* then whether something is left. *)
CheckQueues ==
    LET left == batch # <<>> \/ pending # <<>> \/ report.pending # None
    IN  /\ WorkerAt("Stopping")
        /\ worker' = [at |-> IF worker.stopped /\ ~left THEN "Finishing" ELSE "Waiting"]
        /\ UNCHANGED <<phase, level, closed, queue, refused, calls, batch, log, report>>

Finish ==
    /\ WorkerAt("Finishing")
    /\ log' \in Then(Summarized(log), LAMBDA l : Reported(l))
    /\ worker' = [at |-> "Ended"]
    /\ UNCHANGED <<phase, level, closed, queue, refused, calls, batch, report>>

-----------------------------------------------------------------------------

Calling(p) == Enter(p) \/ Admit(p) \/ Push(p) \/ Leave(p)

Working ==
    \/ Wake \/ Take \/ Write \/ Summarize \/ Status \/ ReportDiagnostics
    \/ CheckStopped \/ CheckQueues \/ Finish

Next ==
    \/ Start \/ Shutdown
    \/ \E value \in Levels : Configure(value)
    \/ \E p \in Producers : Calling(p) \/ \E record \in Records : Submit(p, record)
    \/ \E content \in Reports : Publish(content)
    \/ Working

(* Producers never wait, and the worker goes on. *)
Fairness == WF_vars(Working) /\ \A p \in Producers : WF_vars(Calling(p))

Spec == Init /\ [][Next]_vars
FairSpec == Spec /\ Fairness

-----------------------------------------------------------------------------
(* Properties. *)

Statistics == {accepted, refused, submitted, free, log.written, log.dropped, log.reported, log.repeats}

(* Counters are numbers and slots are either free or somebody's.           *)
TypeOK ==
    /\ Statistics \subseteq Nat
    /\ active \subseteq Producers
    /\ worker.at # "None" =>
         free + Len(pending) + Len(batch) + Cardinality({p \in Producers : producer[p].at = "Copying"})
           = Slots

InHand == IF WorkerAt("Writing") THEN 1 ELSE 0

(* Every record the session took or refused is written, counted as lost or *)
(* still on its way; when the worker has ended none is on its way and none *)
(* can follow.                                                             *)
RecordsAccounted ==
    /\ TypeOK
    /\ log.written + log.dropped + Len(pending) + Len(batch) + InHand + log.repeats = accepted + refused
    /\ worker.at = "Ended" =>
         /\ pending = <<>> /\ batch = <<>> /\ log.repeats = 0
         /\ \A p \in Producers : producer[p].at \notin {"Copying", "Pushed"}

Numbers == LET records == SelectSeq(Lines(log.files), LAMBDA line : line[1] = "Record")
           IN  [i \in DOMAIN records |-> records[i][2]]

(* Through batches, rotations and failures, the files hold the records in  *)
(* the order in which they were published, a summary after the record it   *)
(* counts, and no file outgrows its limit.                                 *)
LogInOrder ==
    /\ \A i, j \in DOMAIN Numbers : i < j => Numbers[i] < Numbers[j]
    /\ \A i, j \in DOMAIN Lines(log.files) :
         LET line == Lines(log.files)[i]
             other == Lines(log.files)[j]
         IN  line[1] = "Summary" /\ other[1] = "Record" => (other[2] <= line[2] <=> j < i)
    /\ \A f \in {log.files.current, log.files.first, log.files.second} : Len(Existing(f)) <= FileSize

(* Once the session is shut down its worker ends, whatever threads were in *)
(* the middle of a call.                                                   *)
ShutdownEnds == closed /\ worker.at # "None" ~> worker.at = "Ended"
=============================================================================
