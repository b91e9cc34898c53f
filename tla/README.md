# FusionCutter: a verification of its runtime

FusionCutter loads patches into the Windows executables of a game: loaders start its
runtime inside the process, the runtime reads plugins and their settings, recognises the
loaded images, installs native hooks, connects patches to one another, and gives them
services (multiplayer messages, lobby metadata, Lua bindings, reporting). This directory
holds TLA+ modules translated from that code, TLC configurations that check them on small
instances, and proofs that TLAPS checks for every instance. `PROJECT.json` says which lines
of the source each definition stands for, which hazards of the code the properties are
about, and what is left out of each component.

    tlc -workers 2 -config Servicing.cfg MCServicing.tla
    tlapm NegotiationProofs.tla

## Inventory

| Component | State | Operations | Interacts with | Hard behaviour | What makes it correct |
|---|---|---|---|---|---|
| Multiplayer negotiation (`multiplayer.cpp`, `multiplayer_messages.cpp`) | session, frozen feature lists, connections with phase, tokens, deadline, failure flags; retained Hellos | begin, end, connect, disconnect, reset, receive, pump, fail, carrier_failed | Galaxy adapter calls it, game context starts sessions, patches call fail | native connection and Hello in either order, frames of earlier attempts, lock released during a submission, deadlines | both ends agree on common features of the lists of *this* exchange; no stale frame or answer completes it; every attempt resolves; failures reach the peer |
| Multiplayer message queues (same files) | outgoing queue per connection, one incoming queue, two byte budgets | send, pump, receive, deliver, fail, discard | patches' callbacks on the control thread | callbacks and submissions without the lock, budgets shared with retained Hellos | budgets equal the queued bytes and stay below the limit; each accepted message is submitted at most once, in order; nothing of a replaced connection is delivered |
| Galaxy adapter (`targets/galaxy.cpp`) | servicing flag, native records | hooks for connect, disconnect, create, receive | game, Galaxy, multiplayer, lobby | hooks on several threads, single-flight servicing | one servicing pass at a time; a slot's connection follows its record |
| Lobby (`lobby.cpp`) | items with desired and written values, requests, native groups, cache, one storage budget | item, publish, clear, refresh, cached, cancel, pump, deliver, complete, invalidate, discard | Galaxy's threads complete, patches call from callbacks | late completions that name only the lobby, copies decided on outside the lock, ownership lost under a write | every request is resolved with data of this association, the budget is exact, the owned lobby ends up with what patches want |
| Game context (`game.cpp`, `targets/game_context.cpp`) | mode, session, map | observe events | multiplayer, patches' callbacks | events on the game thread, callbacks elsewhere | sessions begin and end in pairs |
| Patch lifecycle (`patches/installation.cpp`, `patch_record.cpp`, `dependency.cpp`, `late_images.cpp`) | state of each patch, awaited images, update times | select, prepare, install, reject, activate, update | APIs, hooks, settings, reporting | a failure half-way through installation, images that load late, dependency cycles | providers install first; a failure reaches every consumer and releases what it held; nothing waits for ever; fatal failures end the process |
| Patch APIs (`patch_api.cpp`) | published interfaces, connections, availability callbacks | publish, connect, get, on_available, call | lifecycle | calls while the provider goes away | a call only reaches an installed provider; availability is told once |
| Hook registry and dispatch (`native/hook_registry.cpp`, `hook_dispatch.cpp`) | sites with their originals and detours, the lists of participants of each, the current one | prepare, install, publish, enter, dispatch, return | native plans, lifecycle, every game thread | invocations that run while a list is replaced, nested invocations, participants prepared batches apart | an invocation uses one list and runs it in pairs; a list never loses a participant; participants of a site fit one another |
| Native plans and memory (`native/plan.cpp`, `operations.cpp`, `validation.cpp`, `installation.cpp`, `memory.cpp`) | operations with the originals they saw, claims | submit, validate, prepare, revalidate, write | hooks, lifecycle | another mod's writes between submission and installation, partial writes, protection that is not restored | a rejected plan has changed nothing; a failure that has changed something ends the process |
| Native edits and allocations (`native/operations.cpp`, `native_allocation.cpp`, `native_address.cpp`) | fields of a plan, reserved memory | submit, prepare, encode, allocate near | native plans | displacements at the ends of their range, memory other threads take during the search | a prepared plan writes what its author meant, and is refused only if that cannot be |
| Patch selection, image recognition (`patches/selection.cpp`, `late_images.cpp`, `images/`) | observed images with outcome and pin, evaluation of every variant, the chosen one | probe, evaluate, resolve, scan | lifecycle, configuration | DLLs that load, unload and load again between probes | one variant at most, bound to modules that stay mapped and had no other meaning |
| Plugin loading and validation (`plugins/`) | candidates, owners, references to DLLs, admitted plugins | load, validate, admit | configuration, selection | one bad plugin among good ones, names that collide in the INI file | what is admitted is mapped and distinct; one plugin does not keep another out |
| Core runtime (`core_runtime.cpp`, `core_api.cpp`) | start state, control thread, Galaxy observer | start, initialize, control scan, shutdown | all services | several callers and copies, exceptions before and after anything native | one start and one published result; errors after native changes are fatal |
| Loaders (`loaders/`) | forwarding destinations, the mark of a thread in a primary call, retired proxies | proxy exports, bootstrap, join | core runtime, game, optional proxy DLLs | threads of the game inside exports while startup runs, proxies that call back | no game entry before the runtime; no recursion into a retired proxy |
| Configuration (`configuration/`) | lines of an INI file, captured settings | load, parse, add missing keys, replace | plugins, selection | two processes and a user at one file, a crash between steps | the user's lines are kept; defaults are those of the variant |
| Reporting (`reporting/`) | record slots, the pending list, log files, byte rings of trace channels, sessions and their workers | submit, configure, publish, write, drain, shutdown | everything | producers on any thread that never wait, full queues, failed files, shutdown under producers | records are written in order or counted as lost; shutting down ends |
| Crash reporter (`crash_reporting.cpp`) | facts, one workspace, the report file | observe, attribute, write, terminate | native plans, patches' callbacks | faults inside faults and on two threads | one report that names the owner, whole or absent, and then the end |
| Lua bindings patch (`patches/lua_bindings/`) | declarations, VM records, jobs, retained functions, protected frames | prepare, apply, call, defer, update, destroy | other patches, the game's Lua | callbacks of both threads while a VM or a consumer goes away | what the Lua thread uses stays; a job runs at most once, in its VM |
| Lua multiplayer patch (`patches/lua_multiplayer/`) | listeners, announcement, peers, retained deliveries | listen, announce, send, receive, deliver | Lua bindings, multiplayer | listeners, VMs and connections that are replaced while messages are under way | a message reaches the listener it was addressed to, once and in order, or nobody |
| RCON server patch (`patches/rcon_server/gog/`) | clients with input and output, chat queue, end of a match | accept, receive, execute, broadcast, capture | game thread, sockets | partial reads and writes, slow and rejected peers, chat captured under a lock | output in order and without gaps; no chat lost without a count |
| SDK headers, offline verifier, small byte patches, vendored Lua | | | | | not modelled |

## The modules

A module is one component, or the half of one that shares nothing with the other half. The
MC modules give instances. Where one of them holds several components, a variable `focus`
says which of them a behaviour is about: it is chosen initially, the others
rest in one of their initial states, and each property of theirs is stated for that focus.
Nothing is composed that way; it only lets one run answer one question about components
that answer it together.

### Connection

One connection record and the steps the handlers of `multiplayer_messages.cpp` take on it.
Tokens are positive numbers and 0 is none. A deadline is a flag, "due": it has passed for
every later clock sample. Frames keep the fields their kind has; the byte layout is left
out, but not the rule that a frame without its tokens cannot be encoded.

### Negotiation

A host and one of its clients. `session`, `manifest` and `conn` are the service's
`selected_`, its frozen feature list (one of `client_manifest_`, `host_manifest_`) and its
connection to the other process; `hello` is the entry of `pending_hellos_` for that sender;
`native` is the game's record that the adapter samples; `pass` is the servicing pass of the
game thread and `wire` Galaxy's reliable ordered channel, which outlives game connections.
`offer` is a history variable: the list that was frozen when a token was drawn.

Each handler is one step because it holds the service's lock. The pump does not: it
releases the lock while a frame is submitted, so `PumpBegin` and `PumpResume` end at a
submission, and everything else may happen before the next `PumpResume`. The answer of the
transport is chosen when the frame is submitted and seen when the lock is held again.

| Action | Code |
|---|---|
| Begin, End | `begin`, `end`, called by the game context's session hooks |
| NativeConnect, NativeDisconnect, NativeReset | the game's connect, disconnect and create hooks and `connect`, `disconnect`, `reset_connections` |
| ServiceBegin | `service_native` up to its packet loop, with `seed` |
| Receive | one turn of the packet loop and `receive` |
| PumpBegin, PumpResume | `pump` up to a submission, and from it to the next or to the end |
| CarrierFailed | `carrier_failed`, both calls of the adapter |
| Fail | `fail` of one feature, from any thread |
| DeadlinePasses, HelloDeadlinePasses, LoseFrames | time and network |

A peer that is not FusionCutter, or that sends frames the code would not, is not modelled.

What the model fixes: a host and one client of it (associations that label a peer with a
Galaxy user ID or a slot are not followed); random 64-bit tokens never repeat; the byte
limit of a feature list is `MaxManifest` features; `Batch` stands for the 16 submissions
and 16 packets of a pass.

### Delivery, MessageQueues

`Delivery` says what a queue of messages promises: on each line every message is taken at
most once and in the order it was put, and one is dropped only if its topic (a feature on a
connection) ends. `MessageQueues` is one process with its connections to several peers, the
outgoing queue of each, the one incoming queue, the two byte budgets, the pump and the
control thread's `deliver()`. It implements `Delivery` twice, with `Outbox` (lines are
connections) and `Inbox` (the incoming queue) as refinement mappings.

| Action | Code |
|---|---|
| Begin, End, Reset, Connect, Disconnect, ObserveLocal | the session and connection hooks, with `discard_messages` for everything they replace |
| Negotiate, ConnectionFails, CarrierFailed, PeerFails | what `receive` and `expire` do to one connection, without the frames of Negotiation |
| ReceiveData, RetainHello, ExpireHellos | data frames and retained Hellos, which share the incoming budget |
| Send, Fail | `send`, `fail`, called by patches on any thread |
| PumpBegin, PumpNext, PumpDrop, PumpLocal, PumpSubmit, PumpResume | one pass of `pump`, cut where it releases the lock |
| DeliverBegin, DeliverNext, DeliverCall, DeliverDone | one call of `deliver`, cut before and after each callback |

Two histories are recorded: `sent` has the numbers of the messages that left each
connection, `delivered` those given to a first callback; of later callbacks `CallInTime` says
that they get no message whose connection or feature has ended. `Without` is `std::erase_if`, as a
recursive function on a queue. The order in which a pass visits connections is arbitrary, and
handshake frames and notices of whole connections take no submission of the batch. Agreement is a function of phases,
failed features and roles, as in `agreement_locked()`.

### LobbyReads, LobbyItems

The lobby service has two halves that share only the storage budget, so each has a module
with its own `Capacity`. `LobbyReads`: `request`, `group` and `cache` with its order of use
are the service's own vectors; `control` says where the control thread is in a pass or a
callback; `native` and `last` are what the game says and what the adapter saw last;
`outstanding` counts native requests by age, a history variable for stale completions.

| Action | Code |
|---|---|
| Refresh, Cancel, CachedBegin, CachedEnd | the calls of patches; memory may run out after any step of `refresh` |
| Prepare, Install, Reject | a patch's preparation, in which it may refresh, and `discard` |
| AdapterRefresh, Invalidate | `refresh_control` and `invalidate` |
| PumpBegin, PumpCopy, PumpSubmit, PumpFail, PumpRead, PumpWait, PumpEnd | `pump` over the groups, which copies each and then decides without the lock |
| DeliverBegin, DeliverNext, DeliverReturn | `deliver` |
| Complete, NativeChanges | Galaxy's threads and the game |

`LobbyItems`: `item` is the record of each registered value with what it is charged, what
was written last and where; `store` is what Galaxy holds. Register, Publish, Clear and
Reject are the calls of patches; PumpBegin, PumpSkips, PumpWithdrawn, PumpWrites, PumpFails
and PumpEnd are the second half of `pump`, one item at a time, with ownership lost at any
moment and a failed native write that may have stored its value. The text encoding of a
value is abstracted to its length.

What these modules fix: one association stands for the hosted and the joined lobby, which
the adapter treats alike; the cache is searched in any order; one `cached()` callback at a
time; a lobby that was left is not owned again and only its owner writes to it. A patch is
prepared synchronously on the control thread, so `deliver` never meets one half way.

### DependencyRules, Dependencies

`DependencyRules` says what the dependencies of patches decide, as a smallest fixed point:
a pending patch is ready if all its providers are installed or ready, waits if they are
ready or waiting, and fails otherwise, which covers cycles. `Dependencies` is the
depth-first traversal of `resolve_dependencies()`: `active` and `visited` are its vectors, a
frame of `active` with what is left of the loop over its providers is the call stack, and
Begin, Enter, CloseCycle, Look and Leave are the turns of its loops. Providers and patches
are taken in any order. `DecidesAsResolved` connects the two.

### PatchLifecycle

The control thread from its start over batches of patches to rest, and again for each late
image. `state` is `PatchRecord::state`; `handler`, `planned`, `exposed`, `published`,
`bound`, `pending` and `told` are what a patch owns or was given; `settings` is what the
configuration says, `loaded` and `seen` the images as they are and as they were observed.

| Action | Code |
|---|---|
| Start | `initialize` up to its first batch: `configure_patches`, `refresh_selection`, the startup policy |
| Load, Scan | a DLL appears; `control_scan` with `process_awaited_images` |
| PlanPatch, Validate, PreparePatch, InstallPatch, ActivatePatch | the loops of `install_ready_patches`, each owner with each outcome, `reject_patch` and its policy included |
| Propagate | the refresh after a batch and the policy |
| Notify, Rest | `deliver_api_notifications` |

Dependencies are decided by `Resolved` of `DependencyRules`, which is what the code's
traversal computes. A patch has one variant whose images are all required; what an image
turned out to be is final, as in the code. Callbacks of patches return with any outcome.
Update timers, calls on other threads and faults in a patch's code (which end the process)
are left out, and the check of `get()` that a provider is installed can never fail, because
the installation loop has checked the same before.

### Selection

`mapped` is what the process has loaded, `images` what the control thread observed of it, in
order: `images_` with each image's outcome and base; `pinned` are the modules that
`inspect_module` holds. `recordState` is the state of each patch (a record) and `choice` the variant
with the images its labels were bound to; `controller` is what the control thread is at. A build fits
the catalog profiles of a set, which abstracts parsing of PE headers and hashing.

| Action | Code |
|---|---|
| Observe, Configure | the first evaluation at startup and `capture` of the settings of what may apply |
| ProcessAwaited, Probe, EndScan | `process_awaited_images`: names that were absent are probed again, the modules that came are pinned, and `refresh_selection` evaluates every variant of a waiting patch again |
| Install | the outcome of installing a selected patch |
| MapModule, UnmapModule | the process, at any time between two probes |

`Requirement`, `EvaluatePatch` and `ResolvedRecords` are `evaluate_requirement`,
`evaluate_patch` and `resolve_patch`.
A probe of one filename is one step. Galaxy's private filenames, and patches disabled or
broken by their settings, are left out here; PatchLifecycle has the latter.

### Plugins

`supplied` is what each DLL of the directory holds, `references` what `load_plugins` holds to
each DLL, `candidates` the definitions in order, `admitted` and `diagnosed` the result.

| Action | Code |
|---|---|
| CannotLoad, EntryFails, Supply | one turn of the loop of `load_plugins` |
| Admit | `admit_definitions`, which releases the DLLs of what it rejects |

The operators ending in `Valid` are the rules of `validate_plugin_definition` that relate
several fields; rules about one field (text, flags, ranges) are the flag `wellFormed`.
`GeneratedEntries` is what `load_configuration` writes for the admitted plugins. Identifiers
are equal when they are equal after case folding, a section is split at its first dot, and
one plugin is embedded.

### Configuration

Processes that load one INI file: `file` and `temp` are the file and its `.tmp`, `load` is
where each process is in `load_file` and what it read, `user` the lines the user wrote and
where the last of them are: in the file, in a staged copy only, or gone.

| Action | Code |
|---|---|
| Read, ReadFails, NothingMissing | `load_file` up to the decision that something is missing: `parse_ini`, `find` and `updated_contents` |
| CreateNew, CreateFails | the output is created: a missing file at its own path, an update of an existing one as its staged copy |
| Write, WriteFails, Replace, ReplaceFails, ReplaceLoses, CleanUp | the output is written, whole or cut short; a staged copy takes the file's place, or the call fails, with the old file in place or already removed; what a failed load created is removed |
| Edit, Crash, EndSession | the user, and the end of a process at any point |

`SectionAt`, `Named`, `Parses` and `Found` are `parse_ini` and `find`; `Missing`, `Additions`,
`EndsFirst` and `Updated` are `updated_contents`; `Inputs` and `Captured` are
`load_configuration`. A line is a header, an assignment, an unset key or a note; text formats
of scalars, toggles and `runtime_settings.cpp` are left out. `DefaultsKept` is about keys that
nobody has assigned. A default that a session generated while only one variant could apply is
an assignment for a session in which another applies: that is what the code does, and
`docs/configuration.md:118` promises defaults of their own to the possible variants of one
session only.

### CoreRuntime, Loaders

`CoreRuntime` is one or more copies of the runtime in a process, with the threads that call
`FC_Start`, the control thread of each copy (`progress`) from `initialize()` to its scans, and the observer
of Galaxy. `Loaders` adds the three loaders and the threads of the game inside their exports:
`stack` holds the exported calls each thread is in, with a step of its own between reading
the forwarding table, waiting for the runtime and calling the chosen export.

| Action | Code |
|---|---|
| FirstStart, StartRuntime, RefuseStart, Answer | `start`, its guard against a second copy, and its waiters |
| StartReporting, ResolvePatches, ObserveImages, SelectObservers, InstallBatch, FinishStart | `initialize`, and the publication of the result |
| ControlScan, ControlThrows | `control_main`, with what makes an exception fatal (`RequiresFatal`) |
| CallCreate, RejectChain, EnterPrimary, Forward, ForwardReturns, CallSecondary | `DirectInput8Create` and the other exports of the dinput8 loader, with `load_optional_chain` |
| LoadRuntime, StartAdjacent, FinishLoad, JoinStarted | `StartupController`, the adjacent runtime |
| CallGame, EnterGame, GameReturns, LoadGame | the classic loader's exports |
| Bootstrap, FinishBootstrap, HostStart | the dedicated loader: its worker, and a host that starts the embedded copy |
| GameLoads | the game loads a Galaxy DLL |

The forwarding of a secondary export is one step, and so is `call_once`; the load of GameExt
(`dinput8.cpp` 109-160), settings of the runtime and the interface tables are left out.

### NativeRules, NativeHooks

`NativeRules` holds what has no state: the claims of a plan and which exclude each other
(`claims_conflict`), what `validate_plans` accepts of a batch, how the participants of a site
are ordered and how their states are packed into one block. `NativeHooks` is the control
thread that takes batches of plans from submission to installation, game threads that enter
detours meanwhile, and another mod that writes to the same memory.

`memory` is the image in cells, each with who wrote it; `site`, `retained` and `current` are
`HookRegistry::sites_`, the lists a `HookSite` keeps for ever and the one entries find;
`lists` are the lists that exist, by the plan they were made for; `saved` are the originals
an operation saw when it was submitted; `exposed` says that a failure of a plan can no
longer be undone, as `NativeWriteFailure::unsafe` does; `stack` and `address` are the
invocations of a thread and its `gReturnAddress`.

| Action | Code |
|---|---|
| Collect, Submit, Validate | `install_ready_patches` up to `validate_plans`: evidence and originals are read per plan, then claims compared |
| Prepare | `SubmittedPlan::prepare`, `HookRegistry::prepare` and the author's `prepare` |
| Revalidate | `revalidate` before the first write of a plan |
| Write, Enable, Register, Publish, Install | `SubmittedPlan::install` and `HookRegistry::install`, one operation at a time; a new detour is reachable between Enable and Register |
| Enter, Before, Modify, After, Return | `typed_dispatch` and the bridge's entry and exit on a game thread, one callback at a time |
| Overwrite | another mod, at any time |

What the modules fix: a cell is as large as the smallest thing two operations can disagree
about, and a plan's evidence is that cells are the game's; the submission of one plan is one
step; a plan's own failures (of `prepare`, of a backend) are nondeterministic; the end of the
process is a state in which nothing happens any more. Arguments, registers, results and the
assembly of bridges are left out, and so are allocations and writes a plan makes after it was
installed.

### NativeEdits

`asked` is a plan's request, `place` and `reservations` the memory it was given, `fields` what
its edits become, `search` the walk of the near search over regions.

| Action | Code |
|---|---|
| Submit | `encode` of what needs no address, at submission |
| SearchNear with Probe, AllocateNear, AllocateAnywhere | `native_allocation.cpp`, one region at a time |
| EncodeData, EncodeBranch, Finish, Discard | `prepare`: data fixups, branches with their relays, and release |
| Occupy | another thread takes memory during the search |

Words are scaled (an address has 4 or 6 bits, a rel32 field 4), so every boundary of the
code's conditions is inside the instance. Decoding of instructions and checks of page
permissions are left out; VirtualAlloc is external. On x86 an absolute displacement that
instruction decoding calls signed is refused in the upper half of the address space, and
fields of another width than a rel32 are not taken to wrap.

### LogFiles, LogQueue

The reporting session: `producer` is where each thread is inside `submit`, `free` and
`pending` are the slots and the lock-free list of records, `worker` is the writer thread, `log`
the files (`LogFiles`: the current one and two older ones), `report` the status report.

| Action | Code |
|---|---|
| Start, Configure, Shutdown | the calls of the same names |
| Submit, Admit, Push, Leave, Publish | `submit` and `enqueue` on any thread, one atomic access at a time; a new status report |
| Wake, Take, Write, Summarize, Status | one pass of the worker: it takes the list, orders it, folds repetitions, writes, rotates files, writes the status |
| ReportDiagnostics, CheckStopped, CheckQueues, Finish | what it does after a pass, and its end |

### ByteRing, TraceQueue

`ByteRing` has the operators of `byte_ring.hpp` on a ring of cells; `TraceQueue` the channels,
the threads that copy records into them and the worker.

| Action | Code |
|---|---|
| Begin, then Writing (reserve, copy, publish, leave) | `TraceChannel::write` on any thread |
| CreateChannel, Discard, TraceShutdown | creation, `discard`, `shutdown` |
| Pass, DrainChannel, DrainRecord, DrainEmpty, Reclaim, TellHealth, EndPass, Ask, Check | the drain loop of the worker |

### CrashReports

`thread` is where each thread is, with its frames and its fault; `handling` who has the one
workspace; `facts` the annotations, newest first; `installed` the operations whose code can be
called, which are always among the facts; `file` the crash log.

| Action | Code |
|---|---|
| PublishFacts, Install, CallIn, ReturnFrom | facts a patch adds, its operations, and the boundary around its callbacks |
| Raise, Handle (Observe, WriteReport, Search, FirstFatal, FatalReport, Terminate) | a fault from the first look of the vectored handler to the handler that takes it, or to the report that ends the process |
| Fail | a fatal error reported by the runtime or, through the boundary, by a patch |

`Accesses` are the kinds of access that expectations are declared for. The guarded reads the
reporter makes of its own memory and the wording of the reports are left out.

### LuaFrame, LuaValues

`LuaFrame` is one invocation of C++ from Lua: `stack` is the Lua stack from the function's
base, `held` the views the callback may use. `PushValue`, `AccessTable`, `CallFunction`, ... are
what the functions of `protected.c` can leave above the saved depth; the actions are the
methods of `Frame` and the steps of `for_each`. `LuaValues` encodes a value or a listener
list into the cells of a packet, lets the wire damage it, and reads it back; it is recursive
and only TLC evaluates it.

### LuaBindings

`lua` is the stack of what the Lua thread is in, `control` the control thread, `declarations`,
`vms`, `jobs`, `references` and `listeners` the records of the service.

| Action | Code |
|---|---|
| Prepare, Register, Settle | a consumer prepares, registers and is installed or fails |
| Create, Setup, Pump, StateEnding | the hooks of the game's Lua thread |
| ApplyInitializer, ApplyBinding, ApplyDone | a pass over the declarations in `service_bindings.cpp` |
| InvokeBinding, Run, RunJob, PumpDone | callbacks into consumers |
| Defer, Retain, Reset | calls of consumers on any thread |
| Update, Listen, Collect, Retire, Detach, Destroy | the control thread's `update` |

One VM is current at a time, VMs end outside callbacks, each binding has one key, and
releases of registry references succeed. Reuse of the address of a destroyed record is
left out.

### LuaMessages

A far process sends to the listener a near process announces. `links` are the connections
between them, `messages` everything accepted, `transit` the wire, `known` what the far process
was told (and `Knows` which registrations `Ready` answers for), `listener` and `announcement` what the near one has and has told.

| Action | Code |
|---|---|
| Listen, Close, StateChanged, StartVm, EndVm | scripts and VMs of the near process |
| Announce, Update, SendAnnouncement | `announce` and `update`, which may be refused |
| LookUp, Submit | `send` of the far script: the lookup under the lock, the submission without it |
| FarReceive, FarSample, NearSample, Route, Deliver | the callbacks of the multiplayer service and the deferred calls into Lua |
| Connect, Establish, Disconnect, Carry | the connection and the wire |

One channel and one pair of peers; `script.cpp`, the views `broadcast` and `send_host` take of
peers and the cache of peers are left out, passes that find nothing to do too.

### RconServer

`clients` are the service's client records, `link` and `wire` the sockets as the peers see
them, `chat` the capture queue with its lock, `endgame` the end of a match.

| Action | Code |
|---|---|
| Activate, Poll, PollFails | the loop of the worker |
| AcceptClient, HandleClient | `accept` and one client's turn: receive, login or command, send |
| SampleWinner, Broadcast, Tell, LockChat, DrainChat | what it passes on |
| CaptureChat, StoreChat | the game thread's hook |
| Connect, SendFrame, Leave, Mission | peers and the game |

The contents of commands and their busy results, hashing of passwords, the order of `prepare`
and `destroy` and the Aspyr handler are left out. Chat is bounded by `MaxChat`: the worker
samples the winner before it drains the chat, and whether the end of a match is announced in
time while chat never stops is not examined.

## Runs

Bounds end in the guards and are the constants named Max... or the operators `Within`,
`Allowed`, `Affordable`, `UsefulRead`, `UpdateMatters`, `SomeFeature`, `Sparse`, `GalaxyAlone` and
`LossWithin` of the MC modules. The runs are:

| Run | Instance | What it shows |
|---|---|---|
| multiplayer (`Multiplayer.cfg`) | Exchanges: 1 feature, 2 attempts, tokens and sessions a process (3 together), 2 frames each way, 1 fault, frames received during a submission. Queues: a playing host whose roles are split, its own player and a remote, 3 peers, 2 arrivals, a retained Hello, budget 3. Reads: 2 names of 1 lobby, budget 9, 1 change | agreement is sound and outcomes are final; the incoming queue implements `Delivery`; all budgets are exact at their limit |
| servicing (`Servicing.cfg`) | Attempts: lists of 0, 1 and 3 features of which a frame holds 2, 1 fault, 1 attempt. Failures: 2 features and 2 failures, at one end or one at each. Queues: a client with 2 features, 2 messages out, 1 in, 1 failure or retry, a reconnection | every attempt ends and connected processes complete it; failures reach the other end; the outgoing queue implements `Delivery`; all budgets are exact; queues empty; patches learn the agreement |
| lobby (`Lobby.cfg`) | 2 patches' items of 1 and 3 units with a budget of 9, 2 lobbies, 2 changes, 1 failure, 3 calls; reads with a budget of 5, 2 requests, 2 lobbies, 2 changes | no answer is stale and each is given; charges are exact and fit; what is known of the lobby is true and becomes what is wanted |
| patches (`Patches.cfg`) | Startup: 2 game threads, the dedicated worker, 2 copies, 5 combinations of loaders, 7 proxies (2 beside another host), 2 Galaxy DLLs that load beside one loader. Then a tree of 4 patches, one with a missing reference, an observer, 2 images, broken and disabled settings, both policies; 4 patches of up to 3 variants, 2 modules at once out of 6, on a Steam executable, or 1 at a time on an unknown one; 20 180 plugin directories | one runtime, no entry before it, retired proxies stay retired, everybody is answered; providers first, failures propagate and release, claims exclude each other, subscriptions are answered, nothing waits for ever; a choice is unambiguous and stays mapped; admission and INI sections are right |
| foundations (`Foundations.cfg`) | 2 processes, 2 variants, files of up to 6 lines, 1 edit, 1 loss of the old file before it; 3 hook plans on 5 cells, 2 threads, 1 foreign write; 1 or 2 edits on x86 and x64; every graph of 3 patches in every state; Lua frames of 4 values and 2 iterators; every packet of 1 value or list | files are kept, invocations run whole lists, edits mean what was asked, the traversal decides what the rules say, values survive |
| reporting (`Reporting.cfg`) | 2 producers, 2 slots, files of 3 lines, 3 records; a ring of 4 cells, 2 traces; 2 faults, 2 threads | nothing is lost uncounted, rings are never misread, reports name who failed, shutdown ends |
| rcon (`RconServer.cfg`) | 3 peers at a service for 2, or 1 that follows chat and the end of a match | output in order, chat accounted for, frames are served |
| lua (`LuaBindings.cfg`) | 2 consumers with a listener, 2 bindings and an initializer, 2 VMs, 1 job, 1 retained function, 3 nested frames; or 3 jobs, of which 2 fit the queue and each pump runs 1, that post one another | what is used is pinned, budgets are exact, jobs run once and are handled |
| lua_messages (`LuaMessages.cfg`) | 2 messages; or a replaced listener and VM; or a replaced connection | messages reach the listener they name, once and in order, and arrive if it stays |
| selection_settings (`Patches_settings.cfg`) | the instance of `patches` | a disagreement: see below |
| replace_loses (`Foundations_replace.cfg`) | the instance of `foundations` | a disagreement: see below |
| lua_lists (`LuaMessages_lists.cfg`) | the instance of `lua_messages` | a disagreement: see below |

Why the bounds are enough: the hazards need two of each thing. A stale frame needs a second
attempt and a second token, a list of an earlier session a second session, an eviction a
second entry, a budget error one unit more than fits, a cycle in a cycle three patches, a
nested fault a second fault, a rotated file one line more than fits. The wire holds two
frames because a process sends at most that many before it must have an answer; longer
queues repeat the same steps. `Exchanges` has one feature because nothing in the exchange of
lists relates two of them; a failure notice does, so `servicing` has more, and a list of three
is too long for its frame. One failure or retry is enough for queues, since every failure
discards what the next one could. Two hook invocations are one that holds an old list and one
that finds the new, on two threads or nested on one; the state block is too small for one of
the pairs of participants, and five cells have room for claims that touch, overlap and read
one another's originals. Two processes of an installation are interchangeable, which the
foundations run takes as a symmetry.

Deadlock checking is off where the system really stops: when the process ends or no image is
left to load (patches), when plans, edits and packets are finished (foundations), after
shutdown or a crash (reporting), when the peers have left (rcon) and when nothing is left to
call or send (lua, lua_messages).

## Fairness

Each formula below is conjoined for the focus its module has in a run. Where a property says
that something which, once true, only ends in one way does end, it is written as `[]<>` of that end
(`StartAnswered`, `AttemptResolves`, `QueuesDrain`, `JobsSettle`, `WaitingEnds`): TLC checks it as it
checks `~>`, without a tableau.

- Negotiation: `WF(Servicing)`, the game's own receive function is called on and on and the
  adapter's pass returns. `AttemptResolves` has a premise of its own, `TimePasses`: the
  deadline is a point in time, which passes whatever the pass does; it is strong fairness
  because in the model a deadline can only pass between passes. `HandshakeCompletes` does
  not need it and says what it needs: connections that last and deadlines that do not pass
  first.
- MessageQueues: `WF(Pump)`; `SF(Deliver)`, because the control thread takes a lock that the
  game thread releases in each pass; `SF(ReadyResolves)`, which Negotiation's
  `AttemptResolves` provides.
- Lobby: `WF(Pass)` or `WF(Pump)` for the control thread, Galaxy completes each request it
  accepted, a second passes, and a preparation ends.
- PatchLifecycle, Selection: `WF(Control)`, `WF(SelectionControl)`: the control thread scans every 50 ms and
  callbacks return.
- Reporting: `WF(Working)`, `WF(Drain)` for the two workers, `WF(Calling(p))`, `WF(Writing(t))`
  for a thread inside a call, `WF(Handle(t))` for a thread in the exception dispatcher.
- Startup: weak fairness of each control thread, of each waiter and of the steps a thread
  takes inside a loader; no call into a loader is ever fair.
- RCON: `WF(Serve)` for the worker, `WF(StoreChat)` for the game thread inside its hook.
- LuaBindings: `WF(LuaStep)` and `WF(ControlStep)` for threads inside a callback or a pass,
  `SF(Pump)`, since the game calls its Lua hook every frame but not while it has no VM.
- LuaMessages: weak fairness of both control threads, of Establish, Carry, Submit and Deliver;
  `SF(SendAnnouncement)`, because a full queue refuses an announcement for a while only.

Patches' calls, failures, reconnects, faults, edits, crashes and loading of images are never
fair.

## Proofs

TLAPS checks these for every value of the constants under the named assumptions of the
modules (`NegotiationAssumption`, `LobbyItemsAssumption`, `LifecycleAssumption`,
`LoaderAssumption`, ...), which say no more than that bounds are natural numbers and that the
parts exist; TLC evaluates each of them in a run.

| Theorem | Says | Argument |
|---|---|---|
| `TypeCorrect` (NegotiationProofs) | `[]TypeOK` | lemmas on connections, slots and frames give the type of each operator on a connection |
| `AgreementIsSound`, `AgreementIsShared`, `HostIsConfirmed` | `[]AgreementSound`, `[]SameAgreement`, `[]ConfirmedByClient` | `IInv` below; the second follows from the first, and no run checks it of its own |
| `OutcomeHolds` | `OutcomeIsFinal` | each handler only moves phases forward unless it replaces the record, and records are told apart by peer IDs, which grow |
| `DeliveredInOrder` (Delivery) | each line hands over messages once and in order | what waits on a line has greater numbers than what was taken |
| `OutboxImplements`, `InboxImplements` (MessageQueuesProofs) | `OutboxDelivers`, `InboxDelivers`: both queues implement `Delivery`; the second if every feature has a callback (`Listens`) | the invariant and the refinement below |
| `SentOnce`, `GivenOnce` (MessageQueuesProofs) | the histories only ever grow: nothing is sent or given twice or overtaken | the refinements and `DeliveredInOrder` |
| `BudgetsHold` (MessageQueuesProofs) | `[]BudgetsExact` | each step changes a budget by the sum of what it adds and removes; lemmas of `Folding` |
| `WritesFit`, `WritesKnown`, `ItemsHold` (LobbyItemsProofs) | `[]RecordingFits`, `[]WrittenIsStored`, `[]ItemsFit` | `Shapes` (types without the budget) with the first two is inductive; the third adds `BInv`, that the budget is the sum of the charges |
| `TraversalHolds`, `TraversalIsSound` (FoundationsProofs) | `[]IInv` and `[]TraversalSound` | the smallest closed set and the invariant below |
| `StagedIsOwned` (FoundationsProofs) | `[]StagedOwned`: any number of processes may load a file, and each replaces it only with the copy it staged itself | who is at the name of the staged copy, below |
| `MessagesReachTheirScript` (FoundationsProofs) | `[]MessagesRouted` | the line of places below |
| `LifecycleHolds`, `SubscriptionsHold` (PatchesProofs) | `[]LifecycleSound`, `SubscriptionsAnswered` | the invariant below |
| `PluginsHold` (PatchesProofs) | `[]PluginsAccounted` | what the load loop knows of the DLLs it has looked at, and the validation rules, below |
| `CrashesHold` (PatchesProofs) | `[]CrashesSound` for any number of threads, patches, operations and frames | where each thread is and what it holds there, below |
| `ChoiceHolds` (StartupProofs) | `[]ChoiceSound` | what was recognised stays held, below |
| `StartupInvariant`, `StartupHolds`, `RetirementHolds`, `ResultHolds` (StartupProofs) | `[]StartupSound`, `[]ProxyRetired`, and that a published result is final | the invariant below |

**Negotiation.** None of its properties is inductive: nothing in them stops a frame with a
token of this exchange and another list. `IInv` adds `ConnectionsSound` (what a connection's
tokens say of the list it holds and of the other end), `WireSound` (each frame in flight
carries the list that was frozen when its token was drawn, and a Ready is one its sender
stands by) and `HelloSound` (the same for the retained Hello). A step only adds tokens and
never forgets what a client has confirmed; with these two facts (`Grows`, `KeepsConfirmed`)
an action that leaves a frame or connection alone keeps what was known of it.

**MessageQueues.** `Delivery` is a state machine of its own, and nothing in it is about
connections, so the invariant has to say what keeps a queue honest. `Endpoints`: identities
of connections are given out once, a client has one connection, its host, and a host's own
player is at one slot. `Outbound`: numbers in a queue increase and occur on one connection
only, and what waits on a connection is still served by it (otherwise a change of roles or a
late failure would leave a message that its line has dropped). `Submitted` is about the
message the transport has while the lock is released: it is still the first of its
connection (`Front`), or gone together with all of its feature, which does not come back
(`Gone`); with less, the pump could take a successor for it when it resumes. `Inbound` says
the same of what arrived and of the message a callback holds. Each action is then one of
three things for each queue, `Put`, `Take`, or `Drop` of what lost its topic, or leaves it
alone: lemmas named after the three (`OutPutsPuts`, `InTakesTakes`, ...) say what of a step
is enough for each, and one lemma per action cites them. `IInv` was checked with TLC first,
for a client exhaustively. `Listens` is needed because `deliver()` gives a message up without
calling anybody when its feature has no callback; the runs' features have one or two.

**Budgets.** `Folding` proves what the sums need: every element of a finite set can be counted
off, a sum does not depend on the order it is counted in, it splits over disjoint sets, and
changing one summand changes it by the difference. The argument is induction over finite
sets, which the provers cannot instantiate for an operator, so it is made by the least
counterexample. With it, an outgoing budget is the sum over slots of the sum over queues,
an incoming one that over the queue, the retained Hellos and the message in a callback.
The invariant above is needed again: a slot without a connection has nothing in its queue,
and no message is counted twice. The same lemmas give `ItemsHold` of the lobby.

**Dependencies.** Lemmas on `Grounded` come first: it is closed, it has no part that only
rests on itself (`Circular`, which is what a cycle is), and what is in it has its providers
in it or given. The invariant says of the traversal that each patch of the chain waits for
the next, that what a patch of the chain has looked at is decided or further down in
the chain, and has made it fail or wait where it had to, that a failed
patch is in no smallest closed set and a ready or waiting one is in its own, that patches
nobody has come to are as they were, and that the visits are an order of installation.

**Configuration.** `StagedOwned` speaks of the process that is about to replace the file.
`FileInv` adds what leads there: a process that writes or has written has created its
output, one that only reads has not, and while one is at work at a staged copy the copy is
there and its own. The step that matters is another process's `CreateNew`: it would have to
find the name free. The number of processes, the variants and the contents are arbitrary.

**LuaMessages.** A message is at one of five places after another: in transit, with the
near process's callback, held by it, in a deferred call, or over. `Line` says that numbers at a later
place are all smaller than those at an earlier one, and each place is in order in itself;
order and once-only delivery then follow for every step, since each moves the first of one
place to the end of the next or takes some away. `Owners` ties what a call captured (the
registration and its VM) to the message it carries and to the listener as it is now: a call
that is still to be made is of the current VM, as calls of earlier ones are cancelled with
it. Which calls a pass destroys is a recursive function on the queue (`Unfinished`); that it
keeps order and exactly the calls that are not done is an induction along the prefixes of
the queue. The first call that waits, which `Deliver` makes, is found by a least-number
argument. `RouteInv` was checked with TLC first.

**PatchLifecycle.** The properties speak of states between two batches, so the invariant says
what each step of a batch has established: what the patches it has not reached yet own, that
those it has reached came after their providers in the order of the batch, that claims of
what is planned exclude claims of what is installed, and what was told of each subscription.
The decision of the dependencies is used only through the properties of the smallest fixed
point (`DependencyRules`): a ready patch has its providers ready or installed, and a set
closed under failing contains what failed.

**Selection.** `ChoiceSound` speaks of the patches that are planned or installed;
`SelectionInv` says of everything observed that a recognised module is held until the
process exits and is of its profile alone, that what a patch was bound to was recognised
as something its label accepts, and of a planned patch that no other module or variant
was possible among what had been seen. What is observed later is appended or replaces an
observation of an absent file, so no binding loses its meaning; that a planned patch had no
other is said only until its scan ends, because a module seen later may fit another variant. The
assumption asks a catalog for finitely many profiles and variants for finitely many labels,
which is what makes the code's choice of the only binding one.

**Plugins.** `LoadingSound` is the invariant of the load loop: for the DLLs it has
looked at, which are candidates, which are held, and which were reported; `Admit` then drops
the DLLs of what it rejects. Entries of one plugin are kept apart by the validation rules
alone: a toggle stands in the section of its category or of its owner and a setting in its
patch's, no category is named as a patch or its subsection is, and identifiers differ.

**CrashReports.** A thread's record has other fields at each place (with a fault, with a report
in preparation, on its way to end the process), and `ThreadOk` says of each place what is
true there: who writes has the workspace and its report has the number of the last attempt,
and a fault that was reported matched no expectation of its thread. `FileOk` says that the
numbers of the reports in the file grow and are none above the last attempt, so that the
report being written comes after all of them. What the report of a fault names is a fold over
the facts: by induction over sets of facts the result covers the address and is at least as
specific as any fact that covers it; the facts have the operation itself, since
it was published before it was installed, and facts are only ever added.

**Loaders.** A thread is in at most one chain of nested exported calls. The invariant names
the parts of that chain (the call that entered the loader, the DLL it forwarded to, the call
that DLL made, and its own forwarding) and says for each frame what its thread has read and
what was true then: a destination read before `rejected_chain` was set may still be in a
frame that has not left startup. To it belong the phases of a control thread with what each
has done, and what a caller that waits knows of its copy.

Proving changed the model in places where TLC had seen nothing wrong: overlapping arms of a
`CASE` are a `CHOOSE` between them in TLA+, while the code tries them in order, so
`SelectedGalaxy` and `AgreementAt` are chains of `IF`; and the bound on nested calls of
`Loaders` is none of the module any more, since the argument did not need it.

Only model-checked: everything temporal under fairness, and `ENABLED`, which TLAPS cannot
prove; what a recursive operator computes (`LuaValues`); and, so far, the invariants that no
theorem states: those of negotiation failures, lobby reads, the contents of INI files, hooks and native edits, Lua frames, the logs and the trace rings, RCON
and Lua bindings. The invariant of the three modules that one run holds together (`BudgetsAccounted`
of `MCMultiplayer`) is checked there; its part about `MessageQueues` is the theorem.

## What the work showed

Three disagreements are runs of their own, in which TLC finds the property violated:

- `selection_settings`: `configuration.cpp:125` captures settings for the variants that are not
  unavailable at startup, and `patch_record.cpp:133` says that these are all applicable ones,
  but a waiting patch has all its variants evaluated again when a DLL loads, and contents seen
  later can make a variant ready that was unavailable. Its settings were never captured,
  which `patch_record.cpp:207` asserts.
- `replace_loses`: `storage.cpp:184` says that update failures preserve usable existing input
  and remove only output the load created. ReplaceFile has failures that have already removed
  the old file; the user's lines are then in the staged copy alone, and line 187 deletes it
  (`UpdatesPreserveInput`). `FileKept` says what is left: that happens in no other way.
- `lua_lists`: `docs/sdk/lua_multiplayer.md:134` says when `Ready` is true. `multiplayer.cpp:664` takes
  messages with a fresh look at the agreement, after the changes of agreement were collected,
  so a patch may get a message before it is told that the peer is compatible. Lua multiplayer
  drops a listener list that comes so early (`messages.cpp:185`), and no other is sent until
  something changes: `Ready` stays false for a listener that was advertised
  (`ReadyOfAdvertised`). `MessagesArrive` says that a list is lost in this way only: `missed` of
  the MC module records it.

Other places where the code and what is written about it differ, found while modelling:

- `bindings.hpp:81` says that an initializer runs before its patch's bindings install;
  `service_bindings.cpp:44` asks for each declaration anew whether its patch is installed, so
  a patch that is installed meanwhile gets a binding without its initializer.
- `docs/sdk/lua.md:214` says that a pending frame error prevents protected calls;
  `frame.cpp:266` and the lines after 281 do not look at it before `execute` and `original`.

Facts a maintainer may want to know:

- A failure notice that reaches a client while it submits its Ready would be rejected. Only
  the adapter's single servicing pass keeps that from happening (`FailuresShared` is checked
  without receiving during a submission).
- A host whose connection is established ignores the Hello of a later client attempt; that
  attempt ends at its deadline. The same happens when a Hello was retained and the host's
  record is created anew, or its session begins after the Hello arrived.
- After a late Ready submission a client may be established with a host that has expired.
- A connection with a full batch of messages in each pass keeps later connections waiting.
- `AcceptsReady`'s comparison of the client token is implied by the host token on an ordered
  channel with tokens that never repeat.
- In a late scan a fatal failure found by the refresh is enforced after the batch it belongs
  to has been installed; at startup, before it.
- Memory claims of an accepted plan that fails later in the same batch still reject the
  plans after it, as the comment of `validate_plans` says.
- Marking all patches of a cycle, rather than the one that closes it, changes the reasons
  that are reported, not the states: the others would fail when they are looked at.
- A status report that returns to the content that was written last is taken as unchanged
  (`status.cpp:94`), also when a different one failed in between and left the file cut short.

## Not modelled, and the plan

`PROJECT.json` lists every component with what is left out of it. Small game patches have no
state; SDK headers are declarations; the offline verifier maps a file to a report; bridges
are generated machine code; Lua is vendored. Next in the
plan: theorems for lobby reads, for
invocations of hooks and for the Lua bindings; several clients of one host; several keys of
one binding.
