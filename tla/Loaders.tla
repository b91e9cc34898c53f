------------------------------ MODULE Loaders ------------------------------
(***************************************************************************)
(* The loaders that start the runtime inside a game process: the proxy of  *)
(* dinput8.dll (loaders/dinput8/dinput8.cpp), the proxy of a classic game  *)
(* DLL (loaders/classic/entry.cpp) and RconServer.dll                      *)
(* (loaders/dedicated/rconserver.cpp), over loaders/startup.cpp.           *)
(*                                                                         *)
(* A thread's `stack' holds the exported calls it is in, innermost last:   *)
(* a frame of the loader, and above it the frame of the DLL it forwarded   *)
(* to.  An optional proxy DLL may call DirectInput8Create again from       *)
(* inside a forwarded call; in_primary is the thread's mark that tells     *)
(* such a call from a first one, and rejected_chain retires the proxy for  *)
(* every thread.  The windows between reading the forwarding table,        *)
(* waiting for the runtime and calling the chosen export are steps of      *)
(* their own.                                                              *)
(***************************************************************************)
EXTENDS CoreRuntime, Sequences

CONSTANTS Adjacent,      \* the copy of the runtime in FusionCutter.dll
          EmbeddedCopy,  \* the copy in RconServer.dll
          Worker         \* the thread DllMain of RconServer.dll creates

ASSUME LoaderAssumption ==
    /\ {Adjacent, EmbeddedCopy} \subseteq Copies
    /\ Worker \in Threads

\* What FindFirstFile, the file comparison, LoadLibrary and GetProcAddress find beside dinput8.dll:
\* how many candidates, whether the one is this loader's own file, and where its exports lead.
Leads == {"Missing", "Own", "Back"}
ProxyCandidates == [files : {"None", "One", "Several"}, same : BOOLEAN, loads : BOOLEAN,
                    create : Leads, other : Leads]

VARIABLES
    loaders,      \* the loaders in this process
    candidate,    \* the optional DirectInput proxy beside dinput8.dll
    game,         \* whether the game's own DLL has been loaded
    once,         \* StartupController's once_flag
    forwarding,   \* the destinations of the DirectInput exports, set once
    rejected,     \* rejected_chain
    inPrimary,    \* in_primary of each thread
    stack         \* the exported calls each thread is in

loaderVars == <<loaders, candidate, game, once, forwarding, rejected, inPrimary, stack>>
loaderVarsBut == <<loaders, candidate>>

startupVars == <<coreVars, loaderVars>>

NoTable == [create |-> "Unset", other |-> "Unset"]
SystemTable == [create |-> "System", other |-> "System"]

\* A frame: the exported entry, how far it has come, the destination its table named and the
\* one it calls, and whether the proxy had been retired when the call left startup.
Frame(entry, at) == [entry |-> entry, at |-> at, target |-> "System", late |-> FALSE, primary |-> FALSE]

Destinations == {"System", "Proxy", "Loader", "Failed"}
LoaderEntries == {"Create", "GameWinMain"}
ExternalEntries == {"System", "Proxy", "Loader", "Game"}

LoadersTypeOK ==
    /\ CoreTypeOK
    /\ candidate \in ProxyCandidates
    /\ game \in BOOLEAN
    /\ once \in {"Unset", "Running", "Done"}
    /\ forwarding \in [create : Destinations \cup {"Unset"}, other : Destinations \cup {"Unset"}]
    /\ rejected \in BOOLEAN
    /\ inPrimary \in [Threads -> BOOLEAN]
    /\ \A t \in Threads : \A i \in DOMAIN stack[t] :
         stack[t][i].entry \in LoaderEntries \cup ExternalEntries \cup {"Worker", "Host"}

Top(t) == stack[t][Len(stack[t])]
Base(t) == SubSeq(stack[t], 1, Len(stack[t]) - 1)
OutsideLoaders(t) == stack[t] = <<>>
At(t, entries, at) == ~OutsideLoaders(t) /\ Top(t).entry \in entries /\ Top(t).at = at
Retop(t, frame) == stack' = [stack EXCEPT ![t] = Append(Base(t), frame)]
Push(t, frame) == stack' = [stack EXCEPT ![t] = Append(@, frame)]

-----------------------------------------------------------------------------
(* Forwarding tables.                                                      *)

\* load_optional_chain accepts one loadable DLL that is not this loader, that exports
\* DirectInput8Create and none of whose exports lead back here.
Accepts(found) ==
    /\ found.files = "One"
    /\ ~found.same
    /\ found.loads
    /\ found.create = "Own"
    /\ found.other # "Back"

\* overlay_chain_exports: exports the accepted proxy lacks keep their system destination.
ChainTable(found) ==
    LET lead(x) == CASE x = "Own" -> "Proxy" [] x = "Back" -> "Loader" [] OTHER -> "System"
    IN IF Accepts(found) THEN [create |-> lead(found.create), other |-> lead(found.other)]
                         ELSE SystemTable

\* initialize_forwarding: without the complete system table nothing can be forwarded.
Initialized(table) ==
    IF forwarding # NoTable THEN table = forwarding
    ELSE table \in {ChainTable(candidate), [create |-> "Failed", other |-> "Failed"]}

\* active_exports: the retired proxy's destinations give way to the system's.
Active(table, export) == IF rejected /\ table[export] # "Failed" THEN "System" ELSE table[export]

-----------------------------------------------------------------------------
(* The shared startup of a loader.                                         *)

\* fail_startup writes the fallback status and ends the process.
FailStartup == ended' = "Startup"

\* std::call_once runs load_runtime in one thread, which finds the runtime or fails ...
LoadRuntime(t) ==
    /\ At(t, LoaderEntries, "Starting")
    /\ once = "Unset"
    /\ once' = "Running"
    /\ \/ Retop(t, [Top(t) EXCEPT !.at = "Loaded"]) /\ UNCHANGED ended
       \/ FailStartup /\ UNCHANGED stack
    /\ UNCHANGED <<guard, runtime, progress, native, call, dlls, observations, galaxy, limits,
                   loaderVarsBut, game, forwarding, rejected, inPrimary>>

\* ... and calls FC_Start, which may be of another version.
StartAdjacent(t) ==
    /\ At(t, LoaderEntries, "Loaded")
    /\ \/ StartRuntime(t, Adjacent, "Client")
       \/ RefuseStart(t, Adjacent, "Client")
    /\ Retop(t, [Top(t) EXCEPT !.at = "Called"])
    /\ UNCHANGED <<loaderVarsBut, game, once, forwarding, rejected, inPrimary>>

\* The thread that started the runtime has its answer: anything but 1 ends the process.
FinishLoad(t) ==
    /\ At(t, LoaderEntries, "Called")
    /\ call[t].at \in {"Accepted", "Refused"}
    /\ call' = [call EXCEPT ![t] = NoCall]
    /\ IF call[t].at = "Accepted"
         THEN /\ once' = "Done"
              /\ Retop(t, [Top(t) EXCEPT !.at = "Started", !.late = rejected])
              /\ UNCHANGED ended
         ELSE FailStartup /\ UNCHANGED <<once, stack>>
    /\ UNCHANGED <<guard, runtime, progress, native, dlls, observations, galaxy, limits,
                   loaderVarsBut, game, forwarding, rejected, inPrimary>>

\* A flag set before the work it guards: other callers resume while the runtime still starts.
JoinWhileRunning(t) ==
    /\ At(t, LoaderEntries, "Starting")
    /\ once # "Unset"
    /\ Retop(t, [Top(t) EXCEPT !.at = "Started", !.late = rejected])
    /\ UNCHANGED <<coreVars, loaderVarsBut, game, once, forwarding, rejected, inPrimary>>

\* Every other caller waits for that to end before it resumes its entry.
JoinStarted(t) ==
    /\ At(t, LoaderEntries, "Starting")
    /\ once = "Done"
    /\ Retop(t, [Top(t) EXCEPT !.at = "Started", !.late = rejected])
    /\ UNCHANGED <<coreVars, loaderVarsBut, game, once, forwarding, rejected, inPrimary>>

-----------------------------------------------------------------------------
(* dinput8.dll.                                                            *)

\* DirectInput8Create, called by the game or by the proxy it forwards to: active_exports first.
CallCreate(t) ==
    /\ "DInput8" \in loaders
    /\ t # Worker
    /\ ~OutsideLoaders(t) => Top(t).entry \in {"Proxy", "Loader"}
    /\ \E table \in {forwarding, ChainTable(candidate), [create |-> "Failed", other |-> "Failed"]} :
         /\ Initialized(table)
         /\ forwarding' = table
         /\ Push(t, [Frame("Create", "Starting") EXCEPT !.target = Active(table, "create")])
    /\ UNCHANGED <<coreVars, loaderVarsBut, game, once, rejected, inPrimary>>

\* A failed forwarding table returns an error to the caller, after startup.
ReturnFailure(t) ==
    /\ At(t, {"Create"}, "Started")
    /\ Top(t).target = "Failed"
    /\ stack' = [stack EXCEPT ![t] = Base(t)]
    /\ UNCHANGED <<coreVars, loaderVarsBut, game, once, forwarding, rejected, inPrimary>>

\* A call from inside the thread's primary call retires the proxy and goes to the system.
RejectChain(t) ==
    /\ At(t, {"Create"}, "Started")
    /\ Top(t).target # "Failed"
    /\ inPrimary[t]
    /\ rejected' = TRUE
    /\ Retop(t, [Top(t) EXCEPT !.at = "Chosen", !.target = "System"])
    /\ UNCHANGED <<coreVars, loaderVarsBut, game, once, forwarding, inPrimary>>

\* A primary call that keeps the destination it read before the wait.
EnterPrimaryStale(t) ==
    /\ At(t, {"Create"}, "Started")
    /\ Top(t).target # "Failed"
    /\ ~inPrimary[t]
    /\ inPrimary' = [inPrimary EXCEPT ![t] = TRUE]
    /\ Retop(t, [Top(t) EXCEPT !.at = "Chosen", !.primary = TRUE])
    /\ UNCHANGED <<coreVars, loaderVarsBut, game, once, forwarding, rejected>>

\* A primary call re-reads rejected_chain: startup may have waited while it was set.
EnterPrimary(t) ==
    /\ At(t, {"Create"}, "Started")
    /\ Top(t).target # "Failed"
    /\ ~inPrimary[t]
    /\ inPrimary' = [inPrimary EXCEPT ![t] = TRUE]
    /\ Retop(t, [Top(t) EXCEPT !.at = "Chosen", !.primary = TRUE,
                               !.target = IF rejected THEN "System" ELSE @])
    /\ UNCHANGED <<coreVars, loaderVarsBut, game, once, forwarding, rejected>>

\* The chosen DirectInput8Create runs.
Forward(t) ==
    /\ At(t, {"Create"}, "Chosen")
    /\ Push(t, Frame(Top(t).target, "Running"))
    /\ UNCHANGED <<coreVars, loaderVarsBut, game, once, forwarding, rejected, inPrimary>>

\* It returns, and the loader's call with it; leaving the primary call clears the mark.
ForwardReturns(t) ==
    /\ At(t, {"System", "Proxy"}, "Running")
    /\ inPrimary' = [inPrimary EXCEPT ![t] = @ /\ ~stack[t][Len(stack[t]) - 1].primary]
    /\ stack' = [stack EXCEPT ![t] = SubSeq(@, 1, Len(@) - 2)]
    /\ UNCHANGED <<coreVars, loaderVarsBut, game, once, forwarding, rejected>>

\* A secondary export initializes forwarding without starting the runtime, and is forwarded.
CallSecondary(t) ==
    /\ "DInput8" \in loaders
    /\ t # Worker
    /\ ~OutsideLoaders(t) => Top(t).entry \in ExternalEntries
    /\ forwarding = NoTable
    /\ \E table \in {ChainTable(candidate), [create |-> "Failed", other |-> "Failed"]} :
         forwarding' = table
    /\ UNCHANGED <<coreVars, loaderVarsBut, game, once, rejected, inPrimary, stack>>

-----------------------------------------------------------------------------
(* The classic game's proxy, RconServer.dll and other hosts of the runtime. *)

\* GameWinMain loads the original game DLL once, before the runtime identifies its images.
CallGame(t) ==
    /\ "Classic" \in loaders
    /\ t # Worker
    /\ OutsideLoaders(t)
    /\ \/ /\ game' = TRUE
          /\ Push(t, Frame("GameWinMain", "Starting"))
          /\ UNCHANGED ended
       \/ /\ ~game
          /\ FailStartup
          /\ UNCHANGED <<game, stack>>
    /\ UNCHANGED <<guard, runtime, progress, native, call, dlls, observations, galaxy, limits,
                   loaderVarsBut, once, forwarding, rejected, inPrimary>>

\* The original entry point runs with the launcher's arguments, and its result is returned.
EnterGame(t) ==
    /\ At(t, {"GameWinMain"}, "Started")
    /\ Push(t, Frame("Game", "Running"))
    /\ UNCHANGED <<coreVars, loaderVarsBut, game, once, forwarding, rejected, inPrimary>>

GameReturns(t) ==
    /\ At(t, {"Game"}, "Running")
    /\ stack' = [stack EXCEPT ![t] = SubSeq(@, 1, Len(@) - 2)]
    /\ UNCHANGED <<coreVars, loaderVarsBut, game, once, forwarding, rejected, inPrimary>>

\* RconServer.dll may be injected before the game's DLL: its worker polls for that DLL.
Bootstrap ==
    /\ "Dedicated" \in loaders
    /\ At(Worker, {"Worker"}, "Polling")
    /\ game
    /\ StartRuntime(Worker, EmbeddedCopy, "Server")
    /\ Retop(Worker, [Top(Worker) EXCEPT !.at = "Called"])
    /\ UNCHANGED <<loaderVarsBut, game, once, forwarding, rejected, inPrimary>>

FinishBootstrap ==
    /\ At(Worker, {"Worker"}, "Called")
    /\ call[Worker].at \in {"Accepted", "Refused"}
    /\ call' = [call EXCEPT ![Worker] = NoCall]
    /\ IF call[Worker].at = "Accepted" THEN Retop(Worker, [Top(Worker) EXCEPT !.at = "Done"]) /\ UNCHANGED ended
                                       ELSE FailStartup /\ UNCHANGED stack
    /\ UNCHANGED <<guard, runtime, progress, native, dlls, observations, galaxy, limits,
                   loaderVarsBut, game, once, forwarding, rejected, inPrimary>>

\* The game process loads its own DLL without a classic proxy.
LoadGame ==
    /\ ~game
    /\ "Classic" \notin loaders
    /\ game' = TRUE
    /\ UNCHANGED <<coreVars, loaderVarsBut, once, forwarding, rejected, inPrimary, stack>>

\* Any other module may call the exported FC_Start, in either mode, once the game is loaded.
HostStart(t, role) ==
    /\ "Host" \in loaders
    /\ t # Worker
    /\ game
    /\ OutsideLoaders(t)
    /\ StartRuntime(t, Adjacent, role)
    /\ Push(t, Frame("Host", "Called"))
    /\ UNCHANGED <<loaderVarsBut, game, once, forwarding, rejected, inPrimary>>

HostReturns(t) ==
    /\ At(t, {"Host"}, "Called")
    /\ call[t].at \in {"Accepted", "Refused"}
    /\ call' = [call EXCEPT ![t] = NoCall]
    /\ stack' = [stack EXCEPT ![t] = Base(t)]
    /\ UNCHANGED <<ended, guard, runtime, progress, native, dlls, observations, galaxy, limits,
                   loaderVarsBut, game, once, forwarding, rejected, inPrimary>>

-----------------------------------------------------------------------------
(* The process.                                                            *)

StartupInit ==
    /\ CoreInit
    /\ loaders \in SUBSET {"DInput8", "Classic", "Dedicated", "Host"}
    /\ candidate \in ProxyCandidates
    /\ game \in BOOLEAN
    /\ "DInput8" \in loaders => game    \* its executable is the game
    /\ "Classic" \in loaders => ~game
    /\ once = "Unset"
    /\ forwarding = NoTable
    /\ rejected = FALSE
    /\ inPrimary = [t \in Threads |-> FALSE]
    /\ stack = [t \in Threads |-> IF t = Worker /\ "Dedicated" \in loaders
                                  THEN <<Frame("Worker", "Polling")>> ELSE <<>>]

\* One step of a copy's control thread.
ControlStep(c) ==
    \/ StartReporting(c)
    \/ ResolvePatches(c)
    \/ ObserveImages(c)
    \/ SelectObservers(c)
    \/ InstallBatch(c)
    \/ FinishStart(c)
    \/ ControlScan(c)

\* What a thread inside a loader's or a host's call does on its own.
LoaderStep(t) ==
    \/ LoadRuntime(t)
    \/ StartAdjacent(t)
    \/ FinishLoad(t)
    \/ JoinStarted(t)
    \/ ReturnFailure(t)
    \/ RejectChain(t)
    \/ EnterPrimary(t)
    \/ Forward(t)
    \/ EnterGame(t)
    \/ HostReturns(t)

Runs(A) == ended = "No" /\ A

StartupNext ==
    \/ \E c \in Copies : Runs(ControlStep(c) /\ UNCHANGED loaderVars)
    \/ \E c \in Copies, known \in BOOLEAN : Runs(ControlThrows(c, known) /\ UNCHANGED loaderVars)
    \/ \E t \in Threads : Runs(Answer(t) /\ UNCHANGED loaderVars)
    \/ \E t \in Threads : Runs(LoaderStep(t))
    \/ \E t \in Threads : Runs(CallCreate(t) \/ CallSecondary(t) \/ CallGame(t))
    \/ \E t \in Threads : Runs(ForwardReturns(t) \/ GameReturns(t))
    \/ \E t \in Threads, role \in Roles : Runs(HostStart(t, role))
    \/ Runs(Bootstrap \/ FinishBootstrap)
    \/ Runs(LoadGame)
    \/ \E f \in GalaxyImages, build \in Probes : Runs(GameLoads(f, build) /\ UNCHANGED loaderVars)
    \/ ended # "No" /\ UNCHANGED startupVars

\* Threads of a running process are scheduled; nothing makes the game call, return
\* or load, or the control thread throw.
StartupFairness ==
    /\ \A c \in Copies : WF_startupVars(Runs(ControlStep(c) /\ UNCHANGED loaderVars))
    /\ \A t \in Threads : WF_startupVars(Runs(Answer(t) /\ UNCHANGED loaderVars))
    /\ \A t \in Threads : WF_startupVars(Runs(LoaderStep(t)))
    /\ WF_startupVars(Runs(Bootstrap \/ FinishBootstrap))

StartupSpec == StartupInit /\ [][StartupNext]_startupVars /\ StartupFairness

-----------------------------------------------------------------------------
(* What startup promises.                                                  *)

Frames == UNION {{t} \X DOMAIN stack[t] : t \in Threads}
FrameAt(f) == stack[f[1]][f[2]]

\* No game or DirectInput entry resumes before the runtime beside its loader has published a
\* successful start as a client, and no runtime looks at images before the game's own DLL is
\* loaded, whichever loader started it.
EntryAfterStartup ==
    /\ LoadersTypeOK
    /\ \A f \in Frames :
         FrameAt(f).entry \in LoaderEntries /\ FrameAt(f).at \in {"Started", "Chosen"}
           => runtime[Adjacent].result = "Started" /\ runtime[Adjacent].role = "Client"
    /\ \A c \in Copies : progress[c] # "None" => game

\* However many loaders and hosts start a runtime, from however many threads, only one copy in
\* the process ever runs a control thread, and no caller is told of a successful start but of
\* that copy and in the mode it was started in.
OneRuntime ==
    /\ \A c, d \in Copies : progress[c] # "None" /\ progress[d] # "None" => c = d
    /\ \A t \in Threads : call[t].at = "Accepted" =>
         /\ runtime[call[t].copy].result = "Started"
         /\ runtime[call[t].copy].role = call[t].role

\* A start that failed and let the process continue left nothing native behind: no caller is
\* given an error by a copy that has installed or exposed anything.
ErrorMeansClean ==
    \A c \in Copies : runtime[c].result = "Error" => native[c] = "Nothing" /\ galaxy[c] # "Installed"

\* The result every waiter reads is published once and never replaced, also when the control
\* thread fails long after startup.
ResultFinal ==
    [][\A c \in Copies : runtime[c].result # "Pending" => runtime'[c].result = runtime[c].result]_startupVars

\* Once a recursive proxy has been retired, no call that leaves startup afterwards is forwarded
\* to it, although its destination was read before the wait; and a proxy never runs twice
\* on one thread, nor does an export ever lead back into this loader.  The thread's mark is set
\* exactly while it is in a primary call.
ProxyRetired ==
    /\ \A f \in Frames : FrameAt(f).late /\ FrameAt(f).at = "Chosen" => FrameAt(f).target = "System"
    /\ \A t \in Threads : Cardinality({i \in DOMAIN stack[t] : stack[t][i].entry = "Proxy"}) <= 1
    /\ \A t \in Threads : \A i \in DOMAIN stack[t] : stack[t][i].entry # "Loader"
    /\ forwarding.other # "Loader"
    /\ \A t \in Threads : inPrimary[t] <=> \E i \in DOMAIN stack[t] : stack[t][i].primary

\* The lobby limits are set exactly once, before any patch prepares its items, by a runtime that
\* supports Galaxy, and Galaxy is installed only on two supported DLLs it has observed.
GalaxySound ==
    \A c \in Copies :
      /\ limits[c] <= 1
      /\ galaxy[c] \in {"Waiting", "Planning", "Installed", "Failed"} => limits[c] = 1
      /\ galaxy[c] = "Installed" => \A f \in GalaxyImages : observations[c][f] = "Good"
      /\ progress[c] \in {"Installed", "Serving"} => galaxy[c] \notin {"Unselected", "Planning"}

\* No game code resumes before startup is published, only one copy of the runtime ever runs, its
\* errors leave nothing native behind, and Galaxy follows the DLLs that were seen.
StartupSound == EntryAfterStartup /\ OneRuntime /\ ErrorMeansClean /\ GalaxySound

\* No thread waits for startup for ever while the process runs, whatever else the loaders, hosts
\* and other copies do.
StartAnswered ==
    \A t \in Threads : []<>(ended # "No" \/ (call[t].at # "Waiting" /\ ~At(t, LoaderEntries, "Starting")))

\* Galaxy DLLs that load after startup, in either order and however late, are still recognized:
\* they stay loaded, and the observer does not wait for ever.
GalaxyResolves ==
    \A c \in Copies :
      []<>(\/ ended # "No"
           \/ progress[c] # "Serving"
           \/ \E f \in GalaxyImages : dlls[f] = "Absent"
           \/ galaxy[c] # "Waiting")
=============================================================================
