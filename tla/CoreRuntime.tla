---------------------------- MODULE CoreRuntime ----------------------------
(***************************************************************************)
(* Starting the core runtime (runtime/src/core_runtime.cpp and             *)
(* core_api.cpp) and the first life of its control thread.                 *)
(*                                                                         *)
(* A process may hold several copies of the runtime, each with its own     *)
(* statics: the adjacent FusionCutter.dll and the one embedded in          *)
(* RconServer.dll.  Threads call FC_Start; the first accepted call of a    *)
(* copy takes the named process guard and creates the control thread, and  *)
(* every call then waits for the one result that thread publishes.  The    *)
(* control thread initializes in order, and an exception that escapes it   *)
(* is a startup error only while nothing native has been installed or      *)
(* exposed and no result has been published: otherwise it is fatal.        *)
(*                                                                         *)
(* Patches are abstracted to `native', the most that any of them has done  *)
(* to the process.  The Galaxy observer, whose DLLs the game may load      *)
(* before, during or long after startup, is modelled with its own state.   *)
(***************************************************************************)
EXTENDS FiniteSets, Naturals

CONSTANTS Threads,       \* the threads that may call FC_Start
          Copies,        \* the copies of the runtime in the process
          GalaxyImages   \* the two Galaxy DLLs the observer waits for

NoCopy == "NoCopy"

ASSUME StartupAssumption ==
    /\ NoCopy \notin Copies
    /\ Cardinality(GalaxyImages) = 2

Roles == {"Client", "Server"}

\* The steps of CoreRuntime::initialize, then the scan loop.
Initializing == {"Created", "Reporting", "Resolved", "Observed", "Selected", "Installed"}
Phases == {"None"} \cup Initializing \cup {"Serving", "Stopped"}

Probes == {"Absent", "Good", "Bad"}

VARIABLES
    ended,        \* why the process is ending: "No", "Fatal" or "Startup"
    guard,        \* the copy holding the named process mutex
    runtime,      \* each copy's started_, role_ and startup_result_
    progress,     \* what each copy's control thread has completed
    native,       \* the most any of a copy's patches has done: nothing, exposed, installed
    call,         \* each thread's call of FC_Start
    dlls,         \* the Galaxy DLLs the game has loaded so far, and whether supported
    observations, \* each copy's observations of them (images_)
    galaxy,       \* each copy's Galaxy observer
    limits        \* how often each copy has set the lobby limits

coreVars == <<ended, guard, runtime, progress, native, call, dlls, observations, galaxy, limits>>

NoCall == [at |-> "None", copy |-> NoCopy, role |-> "Client"]

CoreTypeOK ==
    /\ ended \in {"No", "Fatal", "Startup"}
    /\ guard \in Copies \cup {NoCopy}
    /\ runtime \in [Copies -> [started : BOOLEAN, role : Roles, result : {"Pending", "Started", "Error"}]]
    /\ progress \in [Copies -> Phases]
    /\ native \in [Copies -> {"Nothing", "Exposed", "Installed"}]
    /\ call \in [Threads -> [at : {"None", "Waiting", "Accepted", "Refused"},
                             copy : Copies \cup {NoCopy}, role : Roles]]
    /\ dlls \in [GalaxyImages -> Probes]
    /\ observations \in [Copies -> [GalaxyImages -> Probes \cup {"Unlisted"}]]
    /\ galaxy \in [Copies -> {"Unselected", "Unsupported", "Waiting", "Planning", "Installed", "Failed"}]
    /\ limits \in [Copies -> 0 .. 2]

CoreInit ==
    /\ ended = "No"
    /\ guard = NoCopy
    /\ runtime = [c \in Copies |-> [started |-> FALSE, role |-> "Client", result |-> "Pending"]]
    /\ progress = [c \in Copies |-> "None"]
    /\ native = [c \in Copies |-> "Nothing"]
    /\ call = [t \in Threads |-> NoCall]
    /\ dlls = [f \in GalaxyImages |-> "Absent"]
    /\ observations = [c \in Copies |-> [f \in GalaxyImages |-> "Unlisted"]]
    /\ galaxy = [c \in Copies |-> "Unselected"]
    /\ limits = [c \in Copies |-> 0]

-----------------------------------------------------------------------------
(* Calls of FC_Start.                                                      *)

\* Another copy's guard is found, or Windows cannot create it: the copy fails at once.
FirstStart(c, role) ==
    \/ /\ guard = NoCopy
       /\ guard' = c
       /\ runtime' = [runtime EXCEPT ![c] = [started |-> TRUE, role |-> role, result |-> "Pending"]]
       /\ progress' = [progress EXCEPT ![c] = "Created"]
    \/ /\ runtime' = [runtime EXCEPT ![c] = [started |-> TRUE, role |-> role, result |-> "Error"]]
       /\ UNCHANGED <<guard, progress>>

\* CoreRuntime::start in one critical section, up to the wait for the result.
StartRuntime(t, c, role) ==
    /\ call[t].at = "None"
    /\ IF runtime[c].started /\ runtime[c].role # role
         THEN /\ call' = [call EXCEPT ![t] = [at |-> "Refused", copy |-> c, role |-> role]]
              /\ UNCHANGED <<guard, runtime, progress>>
         ELSE /\ call' = [call EXCEPT ![t] = [at |-> "Waiting", copy |-> c, role |-> role]]
              /\ IF runtime[c].started THEN UNCHANGED <<guard, runtime, progress>>
                                       ELSE FirstStart(c, role)
    /\ UNCHANGED <<ended, native, dlls, observations, galaxy, limits>>

\* FC_Start refuses another ABI version or malformed options before it reaches the runtime.
RefuseStart(t, c, role) ==
    /\ call[t].at = "None"
    /\ call' = [call EXCEPT ![t] = [at |-> "Refused", copy |-> c, role |-> role]]
    /\ UNCHANGED <<ended, guard, runtime, progress, native, dlls, observations, galaxy, limits>>

\* Waiters woken by success only.
AnswerSuccess(t) ==
    /\ call[t].at = "Waiting"
    /\ runtime[call[t].copy].result = "Started"
    /\ call' = [call EXCEPT ![t].at = "Accepted"]
    /\ UNCHANGED <<ended, guard, runtime, progress, native, dlls, observations, galaxy, limits>>

\* A waiter sees the published result and returns it.
Answer(t) ==
    /\ call[t].at = "Waiting"
    /\ runtime[call[t].copy].result # "Pending"
    /\ call' = [call EXCEPT ![t].at = IF runtime[call[t].copy].result = "Started" THEN "Accepted"
                                                                                  ELSE "Refused"]
    /\ UNCHANGED <<ended, guard, runtime, progress, native, dlls, observations, galaxy, limits>>

-----------------------------------------------------------------------------
(* The Galaxy observer.                                                    *)

\* Listing a DLL probes it; a listed one keeps its observation until a scan sees it arrive.
Listed(s) == [f \in GalaxyImages |-> IF s[f] = "Unlisted" THEN dlls[f] ELSE s[f]]

\* select_galaxy_observer: the observer's next state from its observations and the executable.
SelectedGalaxy(state, s, supported) ==
    LET found == {s[f] : f \in GalaxyImages}
    IN IF state \in {"Installed", "Failed", "Unsupported"} THEN state
       ELSE IF ~supported \/ "Bad" \in found THEN "Unsupported"
       ELSE IF "Absent" \in found THEN "Waiting" ELSE "Planning"

\* The lobby limits are set when a supported executable is first selected.
SetsLimits(state, supported) == state = "Unselected" /\ supported

\* process_awaited_images: an absent DLL the observer waits for is observed once it has loaded.
AwaitedObserved(c) ==
    [f \in GalaxyImages |-> IF galaxy[c] = "Waiting" /\ observations[c][f] = "Absent" THEN dlls[f]
                            ELSE observations[c][f]]

\* What installing the ready owners may leave: patches install, fail cleanly or fail exposed.
InstallOutcomes(state, done) ==
    LET reached == IF done = "Installed" THEN {done} ELSE {done, "Exposed", "Installed"}
    IN IF state = "Planning"
         THEN {<<"Installed", "Installed">>} \cup {<<"Failed", n>> : n \in reached}
         ELSE {<<state, n>> : n \in reached}

-----------------------------------------------------------------------------
(* CoreRuntime::control_main.                                              *)

Advance(c, from, to) == progress[c] = from /\ progress' = [progress EXCEPT ![c] = to]

\* The image catalog is checked, paths resolved, crash reporting and the log brought up.
StartReporting(c) ==
    /\ Advance(c, "Created", "Reporting")
    /\ UNCHANGED <<ended, guard, runtime, native, call, dlls, observations, galaxy, limits>>

\* Settings are read, plugins admitted and their patches resolved.
ResolvePatches(c) ==
    /\ Advance(c, "Reporting", "Resolved")
    /\ UNCHANGED <<ended, guard, runtime, native, call, dlls, observations, galaxy, limits>>

\* The executable and the DLLs patches name are observed and the patches configured.
ObserveImages(c) ==
    /\ Advance(c, "Resolved", "Observed")
    /\ UNCHANGED <<ended, guard, runtime, native, call, dlls, observations, galaxy, limits>>

\* The game and Galaxy observers are chosen for the executable and the policy first enforced.
SelectObservers(c) ==
    /\ Advance(c, "Observed", "Selected")
    /\ \E supported \in BOOLEAN :
         LET after == IF supported THEN Listed(observations[c]) ELSE observations[c]
         IN /\ galaxy' = [galaxy EXCEPT ![c] = SelectedGalaxy(@, after, supported)]
            /\ observations' = [observations EXCEPT ![c] = after]
            /\ limits' = [limits EXCEPT ![c] = IF SetsLimits(galaxy[c], supported) THEN @ + 1 ELSE @]
    /\ UNCHANGED <<ended, guard, runtime, native, call, dlls>>

\* install_ready_patches over the session and the two observers.
InstallBatch(c) ==
    /\ Advance(c, "Selected", "Installed")
    /\ \E out \in InstallOutcomes(galaxy[c], native[c]) :
         /\ galaxy' = [galaxy EXCEPT ![c] = out[1]]
         /\ native' = [native EXCEPT ![c] = out[2]]
    /\ UNCHANGED <<ended, guard, runtime, call, dlls, observations, limits>>

\* The policy is enforced again, notifications delivered, and the result published.
FinishStart(c) ==
    /\ Advance(c, "Installed", "Serving")
    /\ runtime' = [runtime EXCEPT ![c].result = "Started"]
    /\ UNCHANGED <<ended, guard, native, call, dlls, observations, galaxy, limits>>

\* control_scan: images that arrived are observed, the observer selected again, and what
\* became ready is installed.
ControlScan(c) ==
    /\ progress[c] = "Serving"
    /\ LET after == IF galaxy[c] = "Waiting" THEN Listed(AwaitedObserved(c)) ELSE observations[c]
       IN /\ observations' = [observations EXCEPT ![c] = after]
          /\ limits' = [limits EXCEPT ![c] = IF SetsLimits(galaxy[c], TRUE) THEN @ + 1 ELSE @]
          /\ \E out \in InstallOutcomes(SelectedGalaxy(galaxy[c], after, TRUE), native[c]) :
               /\ galaxy' = [galaxy EXCEPT ![c] = out[1]]
               /\ native' = [native EXCEPT ![c] = out[2]]
    /\ UNCHANGED <<ended, guard, runtime, progress, call, dlls>>

\* requires_fatal: a result was published, or something native is installed or exposed.
RequiresFatal(result, done) == result # "Pending" \/ done # "Nothing"

\* An exception leaves the control thread, also in the middle of an installation.  One that is
\* neither a Diagnostic nor a std::exception is always fatal.
ControlThrows(c, known) ==
    /\ progress[c] \in Initializing \cup {"Serving"}
    /\ \E done \in {native[c], "Exposed"} :
         /\ done # native[c] => progress[c] = "Selected" /\ native[c] = "Nothing"
         /\ native' = [native EXCEPT ![c] = done]
         /\ IF known /\ ~RequiresFatal(runtime[c].result, done)
              THEN runtime' = [runtime EXCEPT ![c].result = "Error"] /\ UNCHANGED ended
              ELSE ended' = "Fatal" /\ UNCHANGED runtime
    /\ progress' = [progress EXCEPT ![c] = "Stopped"]
    /\ UNCHANGED <<guard, call, dlls, observations, galaxy, limits>>

\* The game loads a Galaxy DLL, of a supported build or not.
GameLoads(f, build) ==
    /\ dlls[f] = "Absent"
    /\ build \in {"Good", "Bad"}
    /\ dlls' = [dlls EXCEPT ![f] = build]
    /\ UNCHANGED <<ended, guard, runtime, progress, native, call, observations, galaxy, limits>>
=============================================================================
