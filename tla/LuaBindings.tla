---------------------------- MODULE LuaBindings ----------------------------
(* The Lua bindings patch: one service shared by the game's Lua thread and   *)
(* the control thread.  Consumers declare initializers, bindings and state   *)
(* listeners while they prepare on the control thread; the Lua thread applies *)
(* the declarations to each VM it observes, runs queued callbacks and calls   *)
(* consumers from the installed closures; the control thread tells listeners  *)
(* of VMs and destroys the captures nobody will use again.  mutex_ makes the  *)
(* step of each action atomic; consumers and Lua run outside it, so a call    *)
(* into them is a frame on the Lua thread's stack that a later step removes.  *)
EXTENDS Integers, Sequences, FiniteSets, SequencesExt, FiniteSetsExt, Functions, TLC

CONSTANTS
    Consumers,      \* patches that require lua_bindings
    Declares,       \* [Consumers -> Seq]: what a consumer registers while it prepares, in order
    Initializers,   \* the registered captures that are initializers
    Bindings,       \* those that bind a path (each its own path)
    Listeners,      \* those that listen to VM creation and teardown
    Mode,           \* [Bindings -> {"Add", "Wrap", "Replace"}]
    MaxVms,         \* VM lifetimes observed
    MaxJobs,        \* callbacks deferred in a behaviour
    JobLimit,       \* kDeferredBytes in records
    PumpLimit,      \* callbacks run by one pump
    MaxRefs,        \* functions retained in a behaviour
    MaxDepth        \* nested frames on the Lua thread

Declarations == Initializers \cup Bindings
Captures == Declarations \cup Listeners

OwnerOf(d) == CHOOSE c \in Consumers : d \in ToSet(Declares[c])

ASSUME LuaAssumption ==
    /\ MaxVms \in Nat /\ MaxJobs \in Nat /\ JobLimit \in Nat \ {0}
    /\ PumpLimit \in Nat \ {0} /\ MaxRefs \in Nat /\ MaxDepth \in Nat \ {0}
    /\ \A c \in Consumers : ToSet(Declares[c]) \subseteq Captures /\ IsInjective(Declares[c])
    /\ \A d \in Captures : \E c \in Consumers : d \in ToSet(Declares[c])

VARIABLES
    consumer,       \* patch state of each consumer, as try_call reads it
    running,        \* the game has a Lua VM
    vms,            \* states_: [id -> record]
    nextState,      \* next_state_
    globals,        \* what each bound path of the running VM holds
    registry,       \* entries this service holds in the running VM's registry
    declarations,   \* [registered declaration -> [retired, invoking, held]]
    order,          \* the same declarations in registration order
    listeners,      \* listeners_: [registered listener -> [initial, told]]
    events,         \* state_events_
    jobs,           \* deferred_, in order
    accepted,       \* jobs accepted so far; a job is known by its number
    charge,         \* deferred_bytes_ in records
    references,     \* references_: [issued and not reclaimed -> [vm, held, reset]]
    issued,         \* functions retained so far
    lua,            \* frames of the Lua thread, innermost first
    control,        \* what the control thread is doing
    ran,            \* history: <<VM, capture>> of every initializer and job invoked
    destroyed       \* history: how often each capture was destroyed

game == <<running, globals>>
records == <<vms, nextState, events>>
declared == <<declarations, order, listeners>>
work == <<jobs, accepted, charge>>
retained == <<references, issued>>
vars == <<consumer, game, records, registry, declared, work, retained, lua, control, ran,
          destroyed>>

Nobody == 0
Active(c) == consumer[c] = "Installed"
Alive == {v \in DOMAIN vms : vms[v].alive}
Current == IF Alive = {} THEN Nobody ELSE CHOOSE v \in Alive : TRUE
LuaIdle == lua = << >>
Top(at) == ~LuaIdle /\ Head(lua).at = at
InCall == Top("Call")
Replace(frame) == lua' = <<frame>> \o Tail(lua)

Init ==
    /\ consumer = [c \in Consumers |-> "Planning"]
    /\ running \in BOOLEAN                      \* a VM may predate hook installation
    /\ globals = [b \in Bindings |-> "nil"]
    /\ vms = << >> /\ nextState = 0 /\ events = << >>
    /\ registry = 0
    /\ declarations = << >> /\ order = << >> /\ listeners = << >>
    /\ jobs = << >> /\ accepted = 0 /\ charge = 0
    /\ references = << >> /\ issued = 0
    /\ lua = << >> /\ control = [at |-> "Idle"]
    /\ ran = {}
    /\ destroyed = [k \in Captures \cup 1..MaxJobs |-> 0]
-----------------------------------------------------------------------------
(* The game: VMs come and go, natives and scripts assign the bound globals.   *)

Create ==
    /\ LuaIdle /\ ~running /\ nextState < MaxVms
    /\ running' = TRUE /\ registry' = 0
    /\ globals' = [b \in Bindings |-> "nil"]
    /\ UNCHANGED <<consumer, records, declared, work, retained, lua, control, ran, destroyed>>

\* A script puts a value of its own at a bound path.
Assign(b, value) ==
    /\ LuaIdle /\ running /\ globals[b] # value
    /\ globals' = [globals EXCEPT ![b] = value]
    /\ UNCHANGED <<consumer, running, registry, records, declared, work, retained, lua, control,
                   ran, destroyed>>

\* consumers_ as apply() reads it: groups in first-registration order, the
\* initializers of a group before its bindings.
Grouped ==
    LET first(c) == {i \in DOMAIN order : OwnerOf(order[i]) = c}
        owners == {c \in Consumers : first(c) # {}}
        Earlier(c, e) == \E i \in first(c) : \A j \in first(e) : i < j
        of(c) == SelectSeq(order, LAMBDA d : OwnerOf(d) = c /\ d \in Initializers)
                 \o SelectSeq(order, LAMBDA d : OwnerOf(d) = c /\ d \in Bindings)
    IN  FlattenSeq([i \in 1..Cardinality(owners) |->
            of(CHOOSE c \in owners : Cardinality({e \in owners : Earlier(e, c)}) = i - 1)])

\* The snapshot of apply(): every declaration not retired is pinned.
Snapshot(vm, purpose, path) ==
    LET pinned == SelectSeq(Grouped, LAMBDA d : ~declarations[d].retired)
    IN  /\ declarations' = [d \in DOMAIN declarations |->
              [declarations[d] EXCEPT !.invoking = @ + IF d \in ToSet(pinned) THEN 1 ELSE 0]]
        /\ lua' = <<[at |-> "Apply", vm |-> vm, purpose |-> purpose, path |-> path,
                      pinned |-> ToSet(pinned), todo |-> pinned]>> \o lua

\* observe(), the pin of the VM and the snapshot: no other thread creates or
\* ends a VM, and a live record is never erased, so nothing comes in between.
Enter(purpose, path) ==
    /\ running
    /\ \/ /\ Current # Nobody
          /\ Snapshot(Current, purpose, path)
          /\ vms' = [vms EXCEPT ![Current].invoking = @ + 1]
          /\ UNCHANGED <<nextState, events>>
       \/ /\ Current = Nobody /\ nextState < MaxVms
          /\ Snapshot(nextState + 1, purpose, path)
          /\ nextState' = nextState + 1
          /\ vms' = vms @@ ((nextState + 1) :> [alive |-> TRUE, invoking |-> 1,
                                                initialized |-> {}, bindings |-> << >>])
          /\ events' = Append(events, [state |-> nextState + 1, alive |-> TRUE])
    /\ UNCHANGED <<consumer, running, registry, order, listeners, work, retained, control, ran,
                   destroyed>>

\* The shared return of the game's Lua initialization.
Setup == LuaIdle /\ Enter("Setup", "any") /\ UNCHANGED globals

\* The game installs a native closure at a bound path, and setup() retries the
\* binding under that name.  An initializer may make the game do so.
Registered(b) ==
    /\ Len(lua) < MaxDepth
    /\ ~LuaIdle => InCall /\ Head(lua).pin = "Apply"
    /\ Enter("Setup", b)
    /\ globals' = [globals EXCEPT ![b] = "native"]

\* The end of one game update.
Pump == LuaIdle /\ Enter("Pump", "any") /\ UNCHANGED globals

\* Mutant: waiting jobs keep the VM that ends.
StateEnding_M1 ==
    /\ LuaIdle /\ running
    /\ running' = FALSE
    /\ \/ /\ Current = Nobody
          /\ UNCHANGED <<vms, events, references>>
       \/ /\ Current # Nobody
          /\ vms' = [vms EXCEPT ![Current].alive = FALSE]
          /\ events' = Append(events, [state |-> Current, alive |-> FALSE])
          /\ references' = [r \in DOMAIN references |->
                 IF references[r].vm = Current
                 THEN [references[r] EXCEPT !.vm = Nobody, !.held = FALSE] ELSE references[r]]
    /\ UNCHANGED <<consumer, globals, registry, nextState, declared, work, issued,
                   lua, control, ran, destroyed>>

\* Before the game frees the VM: tokens and waiting jobs lose it at once.
StateEnding ==
    /\ LuaIdle /\ running
    /\ running' = FALSE
    /\ \/ /\ Current = Nobody
          /\ UNCHANGED <<vms, events, references, jobs>>
       \/ /\ Current # Nobody
          /\ vms' = [vms EXCEPT ![Current].alive = FALSE]
          /\ events' = Append(events, [state |-> Current, alive |-> FALSE])
          /\ references' = [r \in DOMAIN references |->
                 IF references[r].vm = Current
                 THEN [references[r] EXCEPT !.vm = Nobody, !.held = FALSE] ELSE references[r]]
          /\ jobs' = [i \in DOMAIN jobs |->
                 IF jobs[i].vm = Current /\ ~jobs[i].invoking
                 THEN [jobs[i] EXCEPT !.vm = Nobody, !.complete = TRUE] ELSE jobs[i]]
    /\ UNCHANGED <<consumer, globals, registry, nextState, declared, accepted, charge, issued,
                   lua, control, ran, destroyed>>
-----------------------------------------------------------------------------
(* apply(), one declaration of its snapshot at a time.                        *)

Applying(kind) == Top("Apply") /\ Head(lua).todo # << >> /\ Head(Head(lua).todo) \in kind
Later == [Head(lua) EXCEPT !.todo = Tail(@)]
Call(vm, capture, pin) == [at |-> "Call", vm |-> vm, capture |-> capture, pin |-> pin]

\* The attempt is recorded before the call, so nested passes do not repeat it.
ApplyInitializer ==
    /\ Applying(Initializers)
    /\ LET d == Head(Head(lua).todo)
           v == Head(lua).vm
       IN  \/ /\ d \in vms[v].initialized \/ ~Active(OwnerOf(d))
              /\ Replace(Later)
              /\ UNCHANGED <<vms, ran>>
           \/ /\ d \notin vms[v].initialized /\ Active(OwnerOf(d))
              /\ vms' = [vms EXCEPT ![v].initialized = @ \cup {d}]
              /\ ran' = ran \cup {<<v, d>>}
              /\ lua' = <<Call(v, d, "Apply"), Later>> \o Tail(lua)
    /\ UNCHANGED <<consumer, game, nextState, events, registry, declared, work, retained, control,
                   destroyed>>

Absent == [installed |-> FALSE, conflicted |-> FALSE, original |-> FALSE, wrapper |-> FALSE]
Held(record) == Cardinality({k \in {"original", "wrapper"} : record[k]})

Conflict(b, record) ==
    [record |-> [record EXCEPT !.conflicted = TRUE], value |-> globals[b], entries |-> registry]

Kept(b, record) == [record |-> record, value |-> globals[b], entries |-> registry]

\* install(): what the target allows, then a wrapper and its registry entries,
\* or none of them when Lua fails on the way.
Installed(b, record) ==
    IF globals[b] = "ours" THEN {Kept(b, record)}
    ELSE IF Mode[b] # "Add" /\ globals[b] = "nil" THEN {Kept(b, record)}
    ELSE IF Mode[b] = "Add" /\ globals[b] # "nil" THEN {Conflict(b, record)}
    ELSE IF Mode[b] # "Add" /\ globals[b] = "value" THEN {Conflict(b, record)}
    ELSE LET new == [installed |-> TRUE, conflicted |-> record.conflicted,
                     original |-> Mode[b] = "Wrap", wrapper |-> TRUE]
         IN  {Conflict(b, record),
              [record |-> new, value |-> "ours", entries |-> registry + Held(new) - Held(record)]}

ApplyBinding ==
    /\ Applying(Bindings)
    /\ Replace(Later)
    /\ LET b == Head(Head(lua).todo)
           v == Head(lua).vm
           path == Head(lua).path
           found == b \in DOMAIN vms[v].bindings
           record == IF found THEN vms[v].bindings[b] ELSE Absent
           settled == path = "any" /\ (record.installed \/ record.conflicted)
           again == IF path = "any" THEN record ELSE [record EXCEPT !.conflicted = FALSE]
       IN  \/ /\ path \notin {"any", b} \/ settled \/ ~Active(OwnerOf(b))
              /\ UNCHANGED <<vms, globals, registry>>
           \/ /\ path \in {"any", b} /\ ~settled /\ Active(OwnerOf(b))
              /\ \E outcome \in Installed(b, again) :
                    /\ vms' = [vms EXCEPT ![v].bindings = (b :> outcome.record) @@ @]
                    /\ globals' = [globals EXCEPT ![b] = outcome.value]
                    /\ registry' = outcome.entries
    /\ UNCHANGED <<consumer, running, nextState, events, declared, work, retained, control, ran,
                   destroyed>>

Unpinned(S) == [d \in DOMAIN declarations |->
                  [declarations[d] EXCEPT !.invoking = @ - IF d \in S THEN 1 ELSE 0]]

\* apply() returns: setup() leaves, pump() goes on.
ApplyDone ==
    /\ Top("Apply") /\ Head(lua).todo = << >>
    /\ declarations' = Unpinned(Head(lua).pinned)
    /\ \/ /\ Head(lua).purpose = "Setup"
          /\ lua' = Tail(lua)
          /\ vms' = [vms EXCEPT ![Head(lua).vm].invoking = @ - 1]
       \/ /\ Head(lua).purpose = "Pump"
          /\ Replace([at |-> "Release", vm |-> Head(lua).vm])
          /\ UNCHANGED vms
    /\ UNCHANGED <<consumer, game, nextState, events, registry, order, listeners, work, retained,
                   control, ran, destroyed>>
-----------------------------------------------------------------------------
(* The rest of pump(), and calls into consumers.                              *)

\* Reset references leave Lua's registry on this thread.
Release ==
    /\ Top("Release")
    /\ LET v == Head(lua).vm
           released == {r \in DOMAIN references : references[r].vm = v /\ references[r].reset
                                                   /\ references[r].held}
       IN  /\ references' = [r \in DOMAIN references |->
                  IF r \in released THEN [references[r] EXCEPT !.held = FALSE] ELSE references[r]]
           /\ registry' = registry - Cardinality(released)
           /\ Replace([at |-> "Jobs", vm |-> v, left |-> PumpLimit])
    /\ UNCHANGED <<consumer, game, records, declared, work, issued, control, ran, destroyed>>

Waiting(v) == {i \in DOMAIN jobs : jobs[i].vm = v /\ ~jobs[i].complete /\ ~jobs[i].invoking}

RunJob ==
    /\ Top("Jobs") /\ Head(lua).left > 0
    /\ LET v == Head(lua).vm
           i == CHOOSE k \in Waiting(v) : \A m \in Waiting(v) : k <= m
       IN  /\ Waiting(v) # {}
           /\ jobs' = [jobs EXCEPT ![i].invoking = TRUE]
           /\ ran' = ran \cup {<<v, jobs[i].id>>}
           /\ lua' = <<Call(v, jobs[i].id, "Job"), [Head(lua) EXCEPT !.left = @ - 1]>>
                        \o Tail(lua)
    /\ UNCHANGED <<consumer, game, records, registry, declared, accepted, charge, retained,
                   control, destroyed>>

PumpDone ==
    /\ Top("Jobs")
    /\ Head(lua).left = 0 \/ Waiting(Head(lua).vm) = {}
    /\ lua' = Tail(lua)
    /\ vms' = [vms EXCEPT ![Head(lua).vm].invoking = @ - 1]
    /\ UNCHANGED <<consumer, game, nextState, events, registry, declared, work, retained, control,
                   ran, destroyed>>

\* invoke_binding(): a script calls an installed closure.
InvokeBinding(b) ==
    /\ LuaIdle \/ InCall
    /\ Len(lua) < MaxDepth /\ running /\ globals[b] = "ours"
    /\ vms[Current].alive /\ ~declarations[b].retired /\ Active(OwnerOf(b))
    /\ vms' = [vms EXCEPT ![Current].invoking = @ + 1]
    /\ declarations' = [declarations EXCEPT ![b].invoking = @ + 1]
    /\ lua' = <<Call(Current, b, "Binding")>> \o lua
    /\ UNCHANGED <<consumer, game, nextState, events, registry, order, listeners, work, retained,
                   control, ran, destroyed>>

\* run(): a consumer enters a live VM on its Lua thread.
Run ==
    /\ LuaIdle /\ Current # Nobody /\ \E c \in Consumers : Active(c)
    /\ vms' = [vms EXCEPT ![Current].invoking = @ + 1]
    /\ lua' = <<Call(Current, Nobody, "Run")>>
    /\ UNCHANGED <<consumer, game, nextState, events, registry, declared, work, retained, control,
                   ran, destroyed>>

\* The consumer returns and the pins its call took are given back.
Return ==
    /\ InCall
    /\ lua' = Tail(lua)
    /\ LET call == Head(lua)
       IN  /\ vms' = IF call.pin \in {"Binding", "Run"}
                     THEN [vms EXCEPT ![call.vm].invoking = @ - 1] ELSE vms
           /\ declarations' = IF call.pin = "Binding" THEN Unpinned({call.capture})
                                                      ELSE declarations
           /\ jobs' = [i \in DOMAIN jobs |->
                 IF call.pin = "Job" /\ jobs[i].id = call.capture
                 THEN [jobs[i] EXCEPT !.invoking = FALSE, !.complete = TRUE, !.vm = Nobody]
                 ELSE jobs[i]]
    /\ UNCHANGED <<consumer, game, nextState, events, registry, order, listeners, accepted,
                   charge, retained, control, ran, destroyed>>
-----------------------------------------------------------------------------
(* Operations a consumer calls: defer() and reference_reset() on any thread,  *)
(* retain() within a frame.                                                   *)

Defer(v) ==
    /\ \E c \in Consumers : Active(c)
    /\ v \in Alive /\ charge < JobLimit /\ accepted < MaxJobs
    /\ accepted' = accepted + 1
    /\ jobs' = Append(jobs, [id |-> accepted + 1, vm |-> v, invoking |-> FALSE,
                             complete |-> FALSE])
    /\ charge' = charge + 1
    /\ UNCHANGED <<consumer, game, records, registry, declared, retained, lua, control, ran,
                   destroyed>>

Retain ==
    /\ InCall /\ vms[Head(lua).vm].alive /\ issued < MaxRefs
    /\ issued' = issued + 1
    /\ references' = references @@ ((issued + 1) :>
                        [vm |-> Head(lua).vm, held |-> TRUE, reset |-> FALSE])
    /\ registry' = registry + 1
    /\ UNCHANGED <<consumer, game, records, declared, work, lua, control, ran, destroyed>>

Reset(r) ==
    /\ r \in DOMAIN references /\ ~references[r].reset
    /\ references' = [references EXCEPT ![r].reset = TRUE]
    /\ UNCHANGED <<consumer, game, records, registry, declared, work, issued, lua, control, ran,
                   destroyed>>
-----------------------------------------------------------------------------
(* The control thread: consumers prepare and install, control_update() runs.  *)

ControlIdle == control.at = "Idle"

Prepare(c) ==
    /\ ControlIdle /\ consumer[c] = "Planning"
    /\ consumer' = [consumer EXCEPT ![c] = "Preparing"]
    /\ control' = [at |-> "Prepare", who |-> c, todo |-> Declares[c]]
    /\ UNCHANGED <<game, records, registry, declared, work, retained, lua, ran, destroyed>>

\* initialize(), bind() or on_state(), each under its own lock.
Register ==
    /\ control.at = "Prepare" /\ control.todo # << >>
    /\ control' = [control EXCEPT !.todo = Tail(@)]
    /\ LET k == Head(control.todo)
       IN  IF k \in Listeners
           THEN /\ listeners' = listeners @@ (k :> [initial |-> TRUE, told |-> {}])
                /\ UNCHANGED <<declarations, order>>
           ELSE /\ declarations' = declarations @@
                      (k :> [retired |-> FALSE, invoking |-> 0, held |-> TRUE])
                /\ order' = Append(order, k)
                /\ UNCHANGED listeners
    /\ UNCHANGED <<consumer, game, records, registry, work, retained, lua, ran, destroyed>>

\* The patch installs, or fails in prepare or later.
Settle(state) ==
    /\ control.at = "Prepare"
    /\ state = "Installed" => control.todo = << >>
    /\ consumer' = [consumer EXCEPT ![control.who] = state]
    /\ control' = [at |-> "Idle"]
    /\ UNCHANGED <<game, records, registry, declared, work, retained, lua, ran, destroyed>>

\* The queued events and the live VMs are taken under one lock.
Update ==
    /\ ControlIdle
    /\ events' = << >>
    /\ control' = [at |-> "Listen", events |-> events, live |-> Alive, todo |-> DOMAIN listeners]
    /\ UNCHANGED <<consumer, game, vms, nextState, registry, declared, work, retained, lua, ran,
                   destroyed>>

Heard(told, queued) == FoldLeft(LAMBDA S, e : IF e.alive THEN S \cup {e.state} ELSE S \ {e.state},
                                told, queued)

Listen(k) ==
    /\ control.at = "Listen" /\ k \in control.todo
    /\ control' = [control EXCEPT !.todo = @ \ {k}]
    /\ \/ /\ ~Active(OwnerOf(k))
          /\ destroyed' = [destroyed EXCEPT ![k] = @ + 1]
          /\ listeners' = [m \in DOMAIN listeners \ {k} |-> listeners[m]]
       \/ /\ Active(OwnerOf(k))
          /\ listeners' = [listeners EXCEPT ![k] =
                [initial |-> FALSE,
                 told |-> IF @.initial THEN control.live ELSE Heard(@.told, control.events)]]
          /\ UNCHANGED destroyed
    /\ UNCHANGED <<consumer, game, records, registry, declarations, order, work, retained, lua,
                   ran>>

\* Jobs are probed too, but only an Installed consumer can have queued one and
\* it stays Installed.
Collect ==
    /\ control.at = "Listen" /\ control.todo = {}
    /\ control' = [at |-> "Retire", todo |-> {d \in DOMAIN declarations : ~declarations[d].retired}]
    /\ UNCHANGED <<consumer, game, records, registry, declared, work, retained, lua, ran,
                   destroyed>>

Retire(d) ==
    /\ control.at = "Retire" /\ d \in control.todo
    /\ control' = [control EXCEPT !.todo = @ \ {d}]
    /\ declarations' = [declarations EXCEPT ![d].retired = ~Active(OwnerOf(d))]
    /\ UNCHANGED <<consumer, game, records, registry, order, listeners, work, retained, lua, ran,
                   destroyed>>

\* Mutant: captures of retired declarations are detached although a pass uses them.
Detached_M1 == {d \in DOMAIN declarations : declarations[d].retired /\ declarations[d].held}

\* Under the lock: captures no call uses are detached, completed jobs move out,
\* and records nothing points to any more are erased.
Detached == {d \in DOMAIN declarations : declarations[d].retired /\ declarations[d].invoking = 0
                                          /\ declarations[d].held}

Completed == SelectSeq(jobs, LAMBDA j : j.complete /\ ~j.invoking)

Erasable(d, remaining) ==
    /\ declarations[d].retired /\ declarations[d].invoking = 0
    /\ d \in Detached \/ ~declarations[d].held
    /\ \A v \in remaining : d \notin DOMAIN vms[v].bindings

Detach ==
    /\ control.at = "Retire" /\ control.todo = {}
    /\ LET remaining == {v \in DOMAIN vms : vms[v].alive \/ vms[v].invoking > 0}
           kept == {d \in DOMAIN declarations : ~Erasable(d, remaining)}
           idle == {d \in DOMAIN declarations : declarations[d].retired
                                                 /\ declarations[d].invoking = 0}
       IN  /\ control' = [at |-> "Destroy", captures |-> Detached, completed |-> Completed]
           /\ jobs' = SelectSeq(jobs, LAMBDA j : ~(j.complete /\ ~j.invoking))
           /\ references' = Restrict(references,
                  {r \in DOMAIN references : references[r].held \/ ~references[r].reset})
           /\ vms' = [v \in remaining |-> [vms[v] EXCEPT !.initialized = @ \ idle]]
           /\ declarations' = [d \in kept |-> [declarations[d] EXCEPT !.held = @ /\ d \notin Detached]]
           /\ order' = SelectSeq(order, LAMBDA d : d \in kept)
    /\ UNCHANGED <<consumer, game, nextState, events, registry, listeners, accepted, charge,
                   issued, lua, ran, destroyed>>

\* Outside the lock the captures are destroyed, and each completed job gives
\* its charge back once its own is.
Destroy ==
    /\ control.at = "Destroy"
    /\ \/ \E d \in control.captures :
             /\ control' = [control EXCEPT !.captures = @ \ {d}]
             /\ destroyed' = [destroyed EXCEPT ![d] = @ + 1]
             /\ UNCHANGED charge
       \/ /\ control.captures = {} /\ control.completed # << >>
          /\ control' = [control EXCEPT !.completed = Tail(@)]
          /\ destroyed' = [destroyed EXCEPT ![Head(control.completed).id] = @ + 1]
          /\ charge' = charge - 1
       \/ /\ control.captures = {} /\ control.completed = << >>
          /\ control' = [at |-> "Idle"]
          /\ UNCHANGED <<destroyed, charge>>
    /\ UNCHANGED <<consumer, game, records, registry, declared, jobs, accepted, retained, lua,
                   ran>>
-----------------------------------------------------------------------------
LuaStep == \/ ApplyInitializer \/ ApplyBinding \/ ApplyDone \/ Release \/ RunJob \/ PumpDone
           \/ Return

ControlStep == \/ Register \/ Collect \/ Detach \/ Destroy \/ Update
               \/ Settle("Installed")
               \/ \E k \in Listeners : Listen(k)
               \/ \E d \in Declarations : Retire(d)

Next ==
    \/ Create \/ Setup \/ Pump \/ StateEnding \/ Run \/ Retain
    \/ \E b \in Bindings : Registered(b) \/ InvokeBinding(b)
    \/ \E b \in Bindings, value \in {"nil", "script", "value"} : Assign(b, value)
    \/ \E v \in Alive : Defer(v)
    \/ \E r \in DOMAIN references : Reset(r)
    \/ \E c \in Consumers : Prepare(c)
    \/ Settle("Failed")
    \/ LuaStep \/ ControlStep

\* Consumers return, the control thread keeps updating, and the game keeps
\* updating while it has a VM.  Nothing makes a game create or end one.
Fairness == WF_vars(LuaStep) /\ WF_vars(ControlStep) /\ SF_vars(Pump)

Spec == Init /\ [][Next]_vars /\ Fairness
-----------------------------------------------------------------------------
\* The records have the shapes the service gives them.
LuaTypeOK ==
    /\ consumer \in [Consumers -> {"Planning", "Preparing", "Installed", "Failed"}]
    /\ running \in BOOLEAN /\ registry \in Nat /\ charge \in 0..JobLimit
    /\ globals \in [Bindings -> {"nil", "native", "script", "value", "ours"}]
    /\ DOMAIN vms \subseteq 1..nextState /\ nextState \in 0..MaxVms
    /\ DOMAIN declarations \subseteq Declarations /\ ToSet(order) = DOMAIN declarations
    /\ \A d \in DOMAIN declarations : declarations[d].invoking \in Nat
    /\ \A v \in DOMAIN vms : vms[v].invoking \in Nat
    /\ Len(lua) <= MaxDepth + 1

\* Whatever the Lua thread is in the middle of exists: the VM record and the
\* declarations a pass pinned, the capture a call runs, the declaration behind
\* every closure a script can call; the control thread destroys none of them
\* meanwhile, and no capture twice.
RecordsPinned ==
    /\ LuaTypeOK
    /\ \A i \in DOMAIN lua :
          /\ lua[i].vm \in DOMAIN vms
          /\ lua[i].at = "Apply" => \A d \in lua[i].pinned :
                d \in DOMAIN declarations /\ declarations[d].held /\ destroyed[d] = 0
          /\ lua[i].at = "Call" /\ lua[i].capture # Nobody => destroyed[lua[i].capture] = 0
          /\ lua[i].at = "Call" /\ lua[i].pin = "Job" =>
                \E k \in DOMAIN jobs : jobs[k].id = lua[i].capture /\ jobs[k].invoking
    /\ \A v \in DOMAIN vms : DOMAIN vms[v].bindings \subseteq DOMAIN declarations
    /\ \A k \in DOMAIN destroyed : destroyed[k] <= 1

\* Once in each VM: no initializer and no job is invoked a second time in the
\* VM, a job in no VM but the one it was accepted for, and none after teardown.
RunOnce == [][\A run \in ran' \ ran : vms[run[1]].alive]_vars
    /\ [][Len(lua') > Len(lua) /\ lua'[1].at = "Call" /\ lua'[1].pin \in {"Apply", "Job"}
            => <<lua'[1].vm, lua'[1].capture>> \notin ran]_vars

\* Lua's registry holds exactly what the live records name: nothing a wrapper
\* replaced, a failed installation began or a reset token held is left behind,
\* and nothing a record still uses was released.  An accepted job is charged
\* until its capture is destroyed, and no longer.
AccountsExact ==
    /\ running => registry =
          (IF Current = Nobody THEN 0
           ELSE MapThenSumSet(LAMBDA b : Held(vms[Current].bindings[b]),
                              DOMAIN vms[Current].bindings))
          + Cardinality({r \in DOMAIN references : references[r].held})
    /\ charge = Len(jobs) + IF control.at = "Destroy" THEN Len(control.completed) ELSE 0

\* What a listener was told of, followed by the events still queued for it, is
\* the set of live VMs: a first snapshot neither misses nor repeats a change.
ListenersFollow ==
    \A k \in DOMAIN listeners :
        ~listeners[k].initial =>
            LET pending == (IF control.at = "Listen" /\ k \in control.todo THEN control.events
                                                                        ELSE << >>) \o events
            IN  /\ Heard(listeners[k].told, pending) = Alive
                /\ \A i \in DOMAIN pending : pending[i].alive =
                      (pending[i].state \notin Heard(listeners[k].told, SubSeq(pending, 1, i - 1)))

\* An accepted job runs in its VM or is cancelled with it, and then its capture
\* is destroyed.
JobsSettle == \A j \in 1..MaxJobs : []<>(accepted < j \/ destroyed[j] = 1)
=============================================================================
