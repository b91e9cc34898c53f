----------------------------- MODULE CrashReports -----------------------------
(***************************************************************************)
(* Crash reporting: a first look at every fault of every thread, before    *)
(* any handler runs, one workspace that nobody waits for, a file that is   *)
(* replaced once, facts that attribute addresses to patches, faults that   *)
(* are expected, and the boundary that turns a fault of a patch into the   *)
(* end of the process.                                                     *)
(***************************************************************************)
EXTENDS FiniteSets, Integers, Sequences, SequencesExt

CONSTANTS
    Threads,
    PatchOwners,  \* patches
    Operations,   \* native operations of patches: facts with an address
    Accesses,     \* kinds of access that expectations are declared for
    Identities,   \* facts known before any patch runs, the newest first
    MaxAttempts,     \* kMaximumCrashAttempts
    Depth,        \* [Threads -> frames]
    MaxRaised,    \* faults
    MaxTorn       \* failures of the file

CrashAnnotationKind == {"Plugin", "Patch", "Mutation", "Hook", "NativeResource", "Module"}

(* A fact or an operation has a kind, an owner and an extent; an empty      *)
(* extent is an exact address.                                             *)
Annotations ==
    [kind : CrashAnnotationKind \cup {"None"}, owner : PatchOwners \cup {"None"}, address : Nat, size : Nat]

ASSUME CrashAssumption ==
    /\ Operations \subseteq Annotations /\ IsFiniteSet(Operations)
    /\ \A op \in Operations : op.address # 0
    /\ Identities \in Seq(Annotations)
    /\ {MaxAttempts, MaxRaised, MaxTorn} \subseteq Nat /\ Depth \in [Threads -> Nat]
    /\ Accesses \subseteq {"Read", "Write", "Execute"}
    /\ "None" \notin Threads

VARIABLES
    facts,      \* annotations_, the newest batch first
    installed,  \* operations that are
    thread,     \* [Threads -> where it is, its frames and its fault]
    handling,   \* who has the workspace
    attempts,   \* reports begun
    file,       \* the crash log
    started,    \* file_started_
    fatalStarted,
    process,
    spent,      \* faults raised, and failures of the file, so far
    kept        \* history: the reports that were written and flushed

crashVars == <<facts, installed, thread, handling, attempts, file, started, fatalStarted, process, spent, kept>>

-----------------------------------------------------------------------------
(* Attribution. *)

NoFact == [kind |-> "None", owner |-> "None", address |-> 0, size |-> 0]

Covers(fact, address) ==
    /\ fact.address # 0
    /\ IF fact.size = 0 THEN address = fact.address
       ELSE address \in fact.address .. fact.address + fact.size - 1

(* An exact address before a range, a small range before a large one, and  *)
(* anything before the plugin of the same extent; otherwise the newest.    *)
Better(fact, best) ==
    \/ best = NoFact
    \/ fact.size = 0 /\ best.size # 0
    \/ fact.size # 0 /\ best.size # 0 /\ fact.size < best.size
    \/ fact.size = best.size /\ best.kind = "Plugin" /\ fact.kind # "Plugin"

(* find_annotation() *)
Attribution(address) ==
    FoldLeft(LAMBDA best, fact : IF Covers(fact, address) /\ Better(fact, best) THEN fact ELSE best,
             NoFact, facts)

(* find_owner() *)
Identified(owner) == \E i \in DOMAIN facts : facts[i].kind = "Patch" /\ facts[i].owner = owner

-----------------------------------------------------------------------------

CrashInit ==
    /\ facts = Identities /\ installed = {}
    /\ thread = [t \in Threads |-> [at |-> "Running", frames |-> <<>>]]
    /\ handling = "None" /\ attempts = 0 /\ file = <<[kind |-> "Old"]>> /\ started = FALSE
    /\ fatalStarted = FALSE /\ process = "Running" /\ spent = [raised |-> 0, torn |-> 0] /\ kept = {}

Operated(owner) == {op \in Operations : op.owner = owner}

(* publish_prepared() of the control thread, *)
PublishFacts(owner) ==
    /\ process = "Running" /\ Operated(owner) \cap ToSet(facts) = {}
    /\ \E batch \in SetToSeqs(Operated(owner)) : facts' = batch \o facts
    /\ UNCHANGED <<installed, thread, handling, attempts, file, started, fatalStarted, process, spent, kept>>

Installable(owner) == Operated(owner) \subseteq ToSet(facts)

(* and the installation that follows it. *)
Install(owner) ==
    /\ process = "Running" /\ Operated(owner) \cap installed = {}
    /\ Installable(owner)
    /\ installed' = installed \cup Operated(owner)
    /\ UNCHANGED <<facts, thread, handling, attempts, file, started, fatalStarted, process, spent, kept>>

ThreadAt(t, at) == process = "Running" /\ thread[t].at = at

Becomes(t, record) == thread' = [thread EXCEPT ![t] = record]

Goes(t, at) == thread' = [thread EXCEPT ![t].at = at]

Boundary(owner) == [handler |-> "Boundary", owner |-> owner]

(* What else can be raised: a fault that is no access violation, and an     *)
(* exception that is not reported, as C++ throws it.                        *)
Others == {"Fault", "Exception"}

(* Declared for one kind of access of one instruction. *)
Expectation(op, access) == [handler |-> "Expectation", instruction |-> op.address, access |-> access]

(* invoke_patch_callback() and invoke_expected_fault() *)
CallIn(t) ==
    /\ ThreadAt(t, "Running") /\ Len(thread[t].frames) < Depth[t]
    /\ \E op \in installed :
         \E frame \in {Boundary(op.owner)} \cup (IF op.kind = "NativeResource" THEN {Expectation(op, access) : access \in Accesses} ELSE {}) :
            thread' = [thread EXCEPT ![t].frames = Append(@, frame)]
    /\ UNCHANGED <<facts, installed, handling, attempts, file, started, fatalStarted, process, spent, kept>>

ReturnFrom(t) ==
    /\ ThreadAt(t, "Running") /\ thread[t].frames # <<>>
    /\ thread' = [thread EXCEPT ![t].frames = Front(@)]
    /\ UNCHANGED <<facts, installed, handling, attempts, file, started, fatalStarted, process, spent, kept>>

(* A fault or an exception in the code of an operation. *)
Raise(t) ==
    /\ ThreadAt(t, "Running") /\ spent.raised < MaxRaised
    /\ \E op \in installed, access \in Accesses \cup Others :
         Becomes(t, [at |-> "Raised", frames |-> thread[t].frames, op |-> op, access |-> access,
                     reported |-> FALSE])
    /\ spent' = [spent EXCEPT !.raised = @ + 1]
    /\ UNCHANGED <<facts, installed, handling, attempts, file, started, fatalStarted, process, kept>>

Matches(frame, t) ==
    /\ frame.handler = "Expectation"
    /\ frame.instruction = thread[t].op.address /\ frame.access = thread[t].access

(* expected_fault(): any expectation of the thread. *)
Expected(t) == \E i \in DOMAIN thread[t].frames : Matches(thread[t].frames[i], t)

(* begin_report(): the flag is tried once. *)
Claimable == handling = "None" /\ attempts < MaxAttempts

Claimed(t) == handling' = t /\ attempts' = attempts + 1

(* qualifying_exception(); faults of the reporter's own guarded reads are   *)
(* left out, as they are neither reported nor seen outside of them.         *)
Qualifying(t) == thread[t].access # "Exception" /\ ~Expected(t)

(* vectored_handler(), before the handlers of any frame. *)
Observe(t) ==
    /\ ThreadAt(t, "Raised")
    /\ IF Qualifying(t) /\ Claimable
       THEN /\ Claimed(t)
            /\ Becomes(t, [at |-> "Writing", frames |-> thread[t].frames, op |-> thread[t].op,
                           access |-> thread[t].access, reported |-> TRUE,
                           report |-> [kind |-> "Fault", attempt |-> attempts + 1, op |-> thread[t].op,
                                       fact |-> Attribution(thread[t].op.address)]])
       ELSE Goes(t, "Searching") /\ UNCHANGED <<handling, attempts>>
    /\ UNCHANGED <<facts, installed, file, started, fatalStarted, process, spent, kept>>

(* Mutant: every report replaces the file. *)
WritingBaseEmpty == <<>>

WritingBase == IF started THEN file ELSE <<>>

(* What a write leaves that does not come to its end: the old file, what    *)
(* CREATE_ALWAYS leaves of it, or a report that is cut short or not flushed.*)
Unfinished == {file, WritingBase, Append(WritingBase, [kind |-> "Torn"])}

AfterReport(t) == IF thread[t].at = "Writing" THEN "Searching" ELSE "Terminating"

(* write_report(); the workspace is released whatever came of it. *)
WriteReport(t) ==
    LET report == thread[t].report
    IN  /\ ThreadAt(t, "Writing") \/ ThreadAt(t, "WritingFatal")
        /\ \/ /\ file' = Append(WritingBase, report)
              /\ started' = TRUE
              /\ kept' = kept \cup {report.attempt}
              /\ UNCHANGED spent
           \/ /\ spent.torn < MaxTorn
              /\ file' \in Unfinished
              /\ spent' = [spent EXCEPT !.torn = @ + 1]
              /\ UNCHANGED <<started, kept>>
        /\ handling' = "None"
        /\ Goes(t, AfterReport(t))
        /\ UNCHANGED <<facts, installed, attempts, fatalStarted, process>>

(* The process ends in the middle of the report of another thread. *)
EndProcess ==
    /\ process' = "Ended"
    /\ file' \in IF handling = "None" THEN {file} ELSE Unfinished

(* The innermost frame whose handler takes the fault. *)
Handler(t) ==
    LET takes == {i \in DOMAIN thread[t].frames :
                    thread[t].frames[i].handler = "Boundary" \/ Matches(thread[t].frames[i], t)}
    IN  IF takes = {} THEN 0 ELSE CHOOSE i \in takes : \A j \in takes : j <= i

Outer(t, i) == SubSeq(thread[t].frames, 1, i)

(* Windows looks for a handler from the inside: the game's own may be       *)
(* inside the frame that would take the fault, or outside of all frames.    *)
CaughtByGame(t) ==
    \E i \in Handler(t) .. Len(thread[t].frames) :
       Becomes(t, [at |-> "Running", frames |-> Outer(t, i)])

(* An expectation ends its own call, a boundary the process.  The owner of  *)
(* a boundary stays entered while it reports.                               *)
CaughtByFrame(t) ==
    LET i == Handler(t)
    IN  /\ i # 0
        /\ Becomes(t, IF thread[t].frames[i].handler = "Expectation"
                      THEN [at |-> "Running", frames |-> Outer(t, i - 1)]
                      ELSE [at |-> "Fatal", frames |-> Outer(t, i)])

Search(t) ==
    /\ ThreadAt(t, "Searching")
    /\ \/ (CaughtByGame(t) \/ CaughtByFrame(t)) /\ UNCHANGED <<process, file>>
       \/ Handler(t) = 0 /\ EndProcess /\ UNCHANGED thread
    /\ UNCHANGED <<facts, installed, handling, attempts, started, fatalStarted, spent, kept>>

(* current_consumer(), the outermost *)
Consumer(t) ==
    LET owners == SelectSeq(thread[t].frames, LAMBDA frame : frame.handler = "Boundary")
    IN  IF owners = <<>> THEN "None" ELSE owners[1].owner

(* fatal_invariant() for the runtime's own reasons or those of a patch,     *)
(* which enters itself if no other patch has begun the calls.               *)
Fail(t) ==
    /\ ThreadAt(t, "Running") /\ spent.raised < MaxRaised
    /\ spent' = [spent EXCEPT !.raised = @ + 1]
    /\ \/ Goes(t, "Fatal")
       \/ /\ Consumer(t) = "None"
          /\ \E owner \in PatchOwners :
                Becomes(t, [at |-> "Fatal", frames |-> Append(thread[t].frames, Boundary(owner))])
    /\ UNCHANGED <<facts, installed, handling, attempts, file, started, fatalStarted, process, kept>>

(* Only the first thread that gets here reports; the others terminate. *)
FirstFatal(t) ==
    /\ ThreadAt(t, "Fatal")
    /\ fatalStarted' = TRUE
    /\ Goes(t, IF fatalStarted THEN "Terminating" ELSE "Reporting")
    /\ UNCHANGED <<facts, installed, handling, attempts, file, started, process, spent, kept>>

(* capture_fatal(); a thread that cannot have the workspace writes to the   *)
(* debugger instead.                                                        *)
FatalReport(t) ==
    /\ ThreadAt(t, "Reporting")
    /\ IF Claimable
       THEN /\ Claimed(t)
            /\ Becomes(t, [at |-> "WritingFatal", frames |-> thread[t].frames,
                           report |-> [kind |-> "Fatal", attempt |-> attempts + 1,
                                       owner |-> IF Identified(Consumer(t)) THEN Consumer(t) ELSE "None"]])
       ELSE Goes(t, "Terminating") /\ UNCHANGED <<handling, attempts>>
    /\ UNCHANGED <<facts, installed, file, started, fatalStarted, process, spent, kept>>

(* terminate_process() *)
Terminate(t) ==
    /\ ThreadAt(t, "Terminating")
    /\ EndProcess
    /\ UNCHANGED <<facts, installed, thread, handling, attempts, started, fatalStarted, spent, kept>>

-----------------------------------------------------------------------------

Handle(t) == Observe(t) \/ WriteReport(t) \/ Search(t) \/ FirstFatal(t) \/ FatalReport(t) \/ Terminate(t)

CrashNext ==
    \/ \E owner \in PatchOwners : PublishFacts(owner) \/ Install(owner)
    \/ \E t \in Threads : CallIn(t) \/ ReturnFrom(t) \/ Raise(t) \/ Fail(t) \/ Handle(t)

(* A fault is handled at once by the thread it happens on. *)
CrashFairness == \A t \in Threads : WF_crashVars(Handle(t))

CrashSpec == CrashInit /\ [][CrashNext]_crashVars

-----------------------------------------------------------------------------
(* Properties. *)

Whole == {i \in DOMAIN file : file[i].kind \in {"Fault", "Fatal"}}

(* In the order of the file, nothing but whole reports and later torn ones *)
(* once one succeeded; none that was written is lost to a later one.       *)
FileSound ==
    /\ {file[i].attempt : i \in Whole} = kept
    /\ \A i, j \in Whole : i < j => file[i].attempt < file[j].attempt
    /\ started => 1 \in Whole

Extent(fact) == IF fact.kind = "Plugin" THEN 2 * fact.size + 1 ELSE 2 * fact.size

(* A report about the code of an operation names that operation or one     *)
(* that is as specific at that address.                                    *)
Attributed ==
    \A i \in DOMAIN file :
        file[i].kind = "Fault" =>
            /\ Covers(file[i].fact, file[i].op.address)
            /\ Extent(file[i].fact) <= Extent(file[i].op)

(* One thread at a time has the workspace, until it wrote its report.      *)
WorkspaceOwned ==
    /\ attempts <= MaxAttempts
    /\ \A t \in Threads : (handling = t) <=> thread[t].at \in {"Writing", "WritingFatal"}

(* The crash log is sound and its reports name who failed, however threads *)
(* overlap and the file fails.                                             *)
ReportsSound == FileSound /\ Attributed /\ WorkspaceOwned

(* A fault that its thread expects, in whichever of its calls, costs no    *)
(* report.                                                                 *)
ExpectedQuiet ==
    \A t \in Threads : thread[t].at = "Searching" /\ Handler(t) # 0 =>
        (thread[t].frames[Handler(t)].handler = "Expectation" => ~thread[t].reported)

(* Crash reports name who failed, are whole or absent, and are not written *)
(* for what a thread expects (exception_capture.cpp).                      *)
CrashesSound == ReportsSound /\ ExpectedQuiet

(* A process with a fatal error ends, whoever has the workspace. *)
FatalEnds == (\E t \in Threads : thread[t].at = "Fatal") ~> process = "Ended"
=============================================================================
