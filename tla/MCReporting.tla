----------------------------- MODULE MCReporting -----------------------------
(* The log, the trace and the crash reports share no state, so a behaviour *)
(* is of one of them.                                                      *)
EXTENDS LogQueue, TraceQueue, CrashReports

CONSTANTS p1, p2

VARIABLE focus

all == <<focus, vars, traceVars, crashVars>>

MCInit == focus \in {"Log", "Trace", "Crash"} /\ Init /\ TraceInit /\ CrashInit

(* What the log is asked for in one behaviour: three records, or two of a  *)
(* second record, a failure and a status report, and one record as long as *)
(* the log is not configured.                                              *)
Affordable ==
    /\ level' # Info => submitted' <= 1 /\ report'.published = 0
    /\ Cardinality({x \in 1 .. 4 : \/ x = 1 /\ submitted' >= 2
                                   \/ x = 2 /\ submitted' >= 3
                                   \/ x = 3 /\ log'.faults > 0
                                   \/ x = 4 /\ report'.published > 0}) <= 2

(* Two faults, or one and a crash file that fails; without a frame, kinds  *)
(* of access are alike.                                                    *)
Tolerable ==
    /\ spent'.raised + spent'.torn <= 2
    /\ thread'[p2].at = "Raised" => thread'[p2].access \in Others

MCNext ==
    \/ focus = "Log" /\ Next /\ Affordable /\ UNCHANGED <<focus, traceVars, crashVars>>
    \/ focus = "Trace" /\ TraceNext /\ UNCHANGED <<focus, vars, crashVars>>
    \/ focus = "Crash" /\ CrashNext /\ Tolerable /\ UNCHANGED <<focus, vars, traceVars>>

MCSpec == MCInit /\ [][MCNext]_all /\ Fairness /\ TraceFairness /\ CrashFairness

Record(kind, key, severity) == [kind |-> kind, key |-> key, level |-> severity, n |-> 0]

SomeRecords ==
    {Record("Formatted", "text", Error), Record("Text", "news", Info), Record("Notice", "notice", Error)}

Operation(kind, owner, address, size) == [kind |-> kind, owner |-> owner, address |-> address, size |-> size]

SomeIdentities ==
    <<Operation("Patch", "A", 0, 0), Operation("Patch", "B", 0, 0), Operation("Plugin", "None", 1, 2)>>

(* One as large as its plugin, and one at an exact address inside it. *)
SomeOperations == {Operation("Mutation", "A", 1, 2), Operation("NativeResource", "B", 2, 0)}

(* One thread calls patches, the other is the game's. *)
SomeDepth == [t \in {p1, p2} |-> IF t = p1 THEN 2 ELSE 0]

FullLog == {<<Header, <<"Old">>, <<"Old">>>>}

-----------------------------------------------------------------------------

(* Every record the session took or refused is written, counted as lost or  *)
(* on its way, and the files keep the order and the limit (reporting.cpp).  *)
LogSound == focus = "Log" => RecordsAccounted /\ LogInOrder

(* A ring is never read as what it does not hold; every accepted record is  *)
(* written, counted or in a ring, and a ring that is given back, or a       *)
(* worker that ended, leaves none (byte_ring.hpp, tracing.cpp).             *)
TracesSound == focus = "Trace" => TracesAccounted /\ NothingLeft

(* What was shut down ends: the log's worker, the trace's worker, and the   *)
(* process of a fatal error, whatever other threads are in the middle of.   *)
ReportingEnds ==
    /\ focus = "Log" => ShutdownEnds
    /\ focus = "Trace" => TracesEnd
    /\ focus = "Crash" => FatalEnds
=============================================================================
