---------------------------- MODULE PatchLifecycle ----------------------------
(***************************************************************************)
(* The life of patches: the control thread selects those whose images are  *)
(* loaded, plans, prepares and installs them in batches, providers first,  *)
(* tells consumers of optional interfaces, and selects again when an image *)
(* arrives that something waits for.  The runtime's own observers of the   *)
(* game are installed before the patches.                                  *)
(*                                                                         *)
(* The control thread runs everything but the loading of images.           *)
(***************************************************************************)
EXTENDS DependencyRules, Integers, Sequences, SequencesExt, FiniteSets

CONSTANTS
    Patches, Observers,
    Images,
    Rank,          \* [Patches \cup Observers -> Nat]: order of names
    Needs,         \* images of an owner
    DependsOn,     \* [Patches -> SUBSET Patches]: of the patch
    ReadyDependsOn,  \* the same of its variant, known when its images are loaded
    Unresolved,    \* patches with a reference to a patch that does not exist
    Overlaps,      \* pairs of owners whose memory claims conflict
    FatalPatches, FatalVariants,  \* failure policy of the patch and of its variant
    Interests,     \* [Patches -> SUBSET Patches]: optional interfaces
    Controls       \* [Patches -> SUBSET {"Enabled", "Disabled", "Broken", "BrokenMandatory"}]

Owners == Patches \cup Observers

ASSUME LifecycleAssumption ==
    /\ Patches \cap Observers = {}
    /\ IsFiniteSet(Owners)
    /\ Rank \in [Owners -> Nat]
    /\ \A p, q \in Owners : Rank[p] = Rank[q] => p = q
    /\ Needs \in [Owners -> SUBSET Images]
    /\ DependsOn \in [Patches -> SUBSET Patches]
    /\ ReadyDependsOn \in [Patches -> SUBSET Patches]
    /\ Unresolved \subseteq Patches
    /\ Overlaps \subseteq Owners \X Owners
    /\ \A pair \in Overlaps : <<pair[2], pair[1]>> \in Overlaps
    /\ Interests \in [Patches -> SUBSET Patches]
    /\ FatalPatches \subseteq Patches /\ FatalVariants \subseteq Patches
    /\ Controls \in [Patches -> SUBSET {"Enabled", "Disabled", "Broken", "BrokenMandatory"}]

VARIABLES
    loaded,     \* images as they are
    seen,       \* images as the control thread last saw them
    settings,   \* what the configuration says of each patch
    state,      \* [Owners -> PatchStates]
    chosen,     \* patches with a selected variant
    selected,   \* selected_for_startup
    providers,  \* [Patches -> SUBSET Patches]
    fatal,      \* SelectionSession::fatal
    handler,    \* [Owners -> {"None", "Live", "Destroyed"}]
    planned,    \* owners with a plan
    exposed,    \* owners whose plan changed the game
    published,  \* patches with a published interface
    bound,      \* <<consumer, provider>>: a copied table
    pending,    \* <<consumer, provider>>: a subscription not answered yet
    told,       \* <<consumer, provider>>: one whose callback ran
    control     \* the control thread

selection == <<chosen, selected, providers>>
apis == <<published, bound, pending, told>>
vars == <<loaded, seen, settings, state, selection, fatal, handler, planned, exposed, apis, control>>

-----------------------------------------------------------------------------

Outcomes == {"Absent", "Recognised", "Rejected"}

Starting == [at |-> "Starting"]
Planning(batch) == [at |-> "Planning", batch |-> batch]
Installing(batch) == [at |-> "Installing", batch |-> batch]
Prepared(p, batch) == [at |-> "Prepared", patch |-> p, batch |-> batch]
Activating(p, batch) == [at |-> "Activating", patch |-> p, batch |-> batch]
Notifying(todo) == [at |-> "Notifying", todo |-> todo]
Idle == [at |-> "Idle"]
Ended(cause) == [at |-> "Ended", cause |-> cause]

Init ==
    /\ loaded \in [Images -> Outcomes]
    /\ seen = loaded
    /\ settings \in {s \in [Patches -> UNION {Controls[p] : p \in Patches}] :
                        \A p \in Patches : s[p] \in Controls[p]}
    /\ state = [o \in Owners |-> "Disabled"]
    /\ chosen = {} /\ selected = {} /\ fatal = FALSE
    /\ providers = [p \in Patches |-> {}]
    /\ handler = [o \in Owners |-> "None"]
    /\ planned = {} /\ exposed = {}
    /\ published = {} /\ bound = {} /\ pending = {} /\ told = {}
    /\ control = Starting

-----------------------------------------------------------------------------
(* Selection.                                                              *)

(* evaluate_patch() *)
Selection(o, images) ==
    IF \E i \in Needs[o] : images[i] = "Rejected" THEN "Unavailable"
    ELSE IF \E i \in Needs[o] : images[i] = "Absent" THEN "Waiting" ELSE "Ready"

(* failure_policy() *)
Fatal(p, variants) == IF p \in variants THEN p \in FatalVariants ELSE p \in FatalPatches

Kept(p) == state[p] \in {"Installed", "Failed"}

(* refresh_selection(): what each patch is before its dependencies count. *)
Evaluated(images) ==
    [p \in Patches |->
        IF Kept(p) THEN state[p]
        ELSE CASE settings[p] = "Disabled" -> "Disabled"
               [] settings[p] \in {"Broken", "BrokenMandatory"} -> "Failed"
               [] settings[p] = "Enabled" ->
                    CASE Selection(p, images) = "Unavailable" -> "Failed"
                      [] Selection(p, images) = "Waiting" -> "Waiting"
                      [] Selection(p, images) = "Ready" -> "Planning"]

(* The dependencies of what is pending are looked up again; a reference to *)
(* nothing fails its patch.                                                *)
Pending(evaluated, p) == evaluated[p] \in {"Waiting", "Planning"}

Providers(evaluated) ==
    [p \in Patches |->
        IF ~Pending(evaluated, p) THEN providers[p]
        ELSE DependsOn[p] \cup (IF evaluated[p] = "Planning" THEN ReadyDependsOn[p] ELSE {})]

Referenced(evaluated) ==
    [p \in Patches |-> IF Pending(evaluated, p) /\ p \in Unresolved THEN "Failed" ELSE evaluated[p]]

(* select_galaxy_observer(): an observer of an unknown image stays away.   *)
Observed(o, images) ==
    IF Kept(o) \/ (state[o] = "Disabled" /\ control # Starting) THEN state[o]
    ELSE CASE Selection(o, images) = "Unavailable" -> "Disabled"
           [] Selection(o, images) = "Waiting" -> "Waiting"
           [] Selection(o, images) = "Ready" -> "Planning"

Refreshed(images) == Resolved(Referenced(Evaluated(images)), Providers(Evaluated(images)))

(* Patches whose selection is evaluated anew.                              *)
Candidates == {p \in Patches : ~Kept(p) /\ settings[p] = "Enabled"}

(* configure_patches() evaluates all, and selects for startup what only a  *)
(* broken configuration stops.                                             *)
Configured(images) ==
    {p \in Patches : /\ control = Starting /\ settings[p] = "BrokenMandatory"
                     /\ Selection(p, images) # "Unavailable"}

FatalFailures(states, startup, variants) ==
    {p \in Patches : states[p] = "Failed" /\ p \in startup /\ Fatal(p, variants)}

(* "observers" says whether they are looked at too. *)
RefreshSelection(images, observers) ==
    LET looked == IF control = Starting THEN Patches ELSE Candidates
    IN  /\ chosen' = (chosen \ looked) \cup {p \in looked : Selection(p, images) = "Ready"}
        /\ selected' = selected \cup Configured(images)
                        \cup {p \in Candidates : Selection(p, images) # "Unavailable"}
        /\ providers' = Providers(Evaluated(images))
        /\ LET refreshed == Refreshed(images)
           IN  state' = [o \in Owners |->
                            IF o \in Patches THEN refreshed[o]
                            ELSE IF observers THEN Observed(o, images) ELSE state[o]]
        /\ fatal' = (fatal \/ FatalFailures(state', selected', chosen') # {})

(* ready_patch_order(): by name, providers first; empty if there is none. *)
ByName(S) == CHOOSE p \in S : \A q \in S : Rank[p] <= Rank[q]

Order(ready, needed) ==
    LET order[S \in SUBSET ready] ==
            LET free == {p \in S : needed[p] \cap S = {}}
            IN  IF free = {} THEN <<>> ELSE <<ByName(free)>> \o order[S \ {ByName(free)}]
    IN  order[ready]

(* The observers come first. *)
Batch(states, needed) ==
    SetToSortSeq({o \in Observers : states[o] = "Planning"}, LAMBDA o, q : Rank[o] < Rank[q])
    \o Order({p \in Patches : states[p] = "Planning"}, needed)

(* The next batch, if an order exists. *)
Collect ==
    LET ready == {o \in Owners : state'[o] = "Planning"}
        batch == Batch(state', providers')
    IN  control' = IF batch \in SetToSeqs(ready) THEN Planning(batch) ELSE Ended("Cycle")

(* initialize(), up to its first batch. *)
Start ==
    /\ control = Starting
    /\ RefreshSelection(seen, TRUE)
    /\ IF fatal' THEN control' = Ended("Policy") ELSE Collect
    /\ UNCHANGED <<loaded, seen, settings, handler, planned, exposed, apis>>

-----------------------------------------------------------------------------
(* Installation of a batch.                                                *)

(* reject_patch(): what a patch has is given back. *)
Release(rejected) ==
    /\ state' = [o \in Owners |-> IF o \in rejected THEN "Failed" ELSE state[o]]
    /\ planned' = planned \ rejected
    /\ published' = published \ rejected
    /\ pending' = {s \in pending : s[1] \notin rejected}

DestroyHandlers(rejected) ==
    handler' = [o \in Owners |->
                  IF o \in rejected /\ handler[o] = "Live" THEN "Destroyed" ELSE handler[o]]

(* Its policy may end the process; what failed in a refresh is not asked   *)
(* about here.                                                             *)
Onward(rejected, next) ==
    LET last == {p \in rejected \cap selected : Fatal(p, chosen)} # {}
    IN  /\ fatal' = (fatal \/ last)
        /\ control' = IF last THEN Ended("Policy") ELSE next

Reject(p, next) ==
    /\ Release({p}) /\ DestroyHandlers({p}) /\ Onward({p}, next)
    /\ UNCHANGED <<loaded, seen, settings, selection, exposed, told>>

(* p is the first of the batch that is still to be handled. *)
Turn(p, todo) ==
    \E i \in DOMAIN control.batch :
        /\ control.batch[i] = p /\ p \in todo
        /\ \A j \in 1..(i - 1) : control.batch[j] \notin todo

ToPlan == {o \in Owners : state[o] = "Planning" /\ o \notin planned}
ToInstall == {o \in Owners : state[o] = "Planning"}

ProvidersOf(o) == IF o \in Patches THEN providers[o] ELSE {}

Unavailable(o) == \E q \in ProvidersOf(o) : state[q] \in {"Failed", "Disabled"}

(* collect_patch_plan(); a factory may fail and leave nothing to destroy.  *)
PlanPatch ==
    \E p \in Owners :
        /\ control.at = "Planning" /\ Turn(p, ToPlan)
        /\ \/ /\ Unavailable(p)
              /\ Reject(p, control) /\ UNCHANGED bound
           \/ /\ ~Unavailable(p)
              /\ Release({p}) /\ Onward({p}, control)
              /\ \E left \in {"None", "Destroyed"} : handler' = [handler EXCEPT ![p] = left]
              /\ UNCHANGED <<loaded, seen, settings, selection, exposed, told, bound>>
           \/ /\ ~Unavailable(p)
              /\ handler' = [handler EXCEPT ![p] = "Live"]
              /\ planned' = planned \cup {p}
              /\ UNCHANGED <<loaded, seen, settings, state, selection, fatal, exposed, apis, control>>

Conflicts(p, owners) == \E q \in owners : <<p, q>> \in Overlaps

(* What is accepted claims nothing of an owner installed already or of an  *)
(* earlier plan that was accepted.                                         *)
Accepted(accepted, batch) ==
    \A i \in DOMAIN batch : batch[i] \in accepted =>
        ~Conflicts(batch[i], {o \in planned : state[o] = "Installed"}
                             \cup {batch[j] : j \in {k \in 1..(i - 1) : batch[k] \in accepted}})

(* validate_plans(); a plan may also be refused for faults of its own. *)
Validate ==
    /\ control.at = "Planning" /\ ToPlan = {}
    /\ \E accepted \in SUBSET ToInstall :
         /\ Accepted(accepted, control.batch)
         /\ Release(ToInstall \ accepted) /\ DestroyHandlers(ToInstall \ accepted)
         /\ Onward(ToInstall \ accepted, Installing(control.batch))
         /\ UNCHANGED <<loaded, seen, settings, selection, exposed, told, bound>>

(* Mutant: a provider that failed in this batch is not noticed. *)
ProvidersEnabled(o) == \A q \in ProvidersOf(o) : state[q] # "Disabled"

ProvidersInstalled(o) == \A q \in ProvidersOf(o) : state[q] = "Installed"

(* PatchApiReservations::get() *)
Available(p) == {q \in ProvidersOf(p) : state[q] = "Installed" /\ q \in published}

(* prepare(), in which a patch may ask for tables, publish one, and        *)
(* subscribe to others.                                                    *)
PreparePatch ==
    \E p \in Owners :
        /\ control.at = "Installing" /\ Turn(p, ToInstall)
        /\ \/ /\ ~ProvidersInstalled(p)
              /\ Reject(p, control) /\ UNCHANGED bound
           \/ /\ ProvidersInstalled(p)
              /\ \E tables \in SUBSET Available(p) : bound' = bound \cup ({p} \X tables)
              /\ \/ Reject(p, control)
                 \/ /\ state' = [state EXCEPT ![p] = "Preparing"]
                    /\ published' \in {published, published \cup ({p} \cap Patches)}
                    /\ \E wanted \in SUBSET (IF p \in Patches THEN Interests[p] ELSE {}) :
                         pending' = pending \cup ({p} \X wanted)
                    /\ control' = Prepared(p, control.batch)
                    /\ UNCHANGED <<loaded, seen, settings, selection, fatal, handler, planned, exposed, told>>

(* SubmittedPlan::install(); after the first change to the game a failure  *)
(* ends the process.                                                       *)
InstallPatch ==
    LET p == control.patch
    IN  /\ control.at = "Prepared"
        /\ \/ Reject(p, Installing(control.batch)) /\ UNCHANGED bound
           \/ /\ exposed' = exposed \cup {p}
              /\ control' \in {Activating(p, control.batch), Ended("Unsafe")}
              /\ UNCHANGED <<loaded, seen, settings, state, selection, fatal, handler, planned, apis>>

ActivatePatch ==
    /\ control.at = "Activating"
    /\ \/ /\ state' = [state EXCEPT ![control.patch] = "Installed"]
          /\ control' = Installing(control.batch)
       \/ control' = Ended("Unsafe") /\ UNCHANGED state
    /\ UNCHANGED <<loaded, seen, settings, selection, fatal, handler, planned, exposed, apis>>

(* The rest of a round: consumers of what failed fail too. *)
Propagate ==
    /\ control.at = "Installing" /\ ToInstall = {}
    /\ RefreshSelection(seen, FALSE)
    /\ control' = IF fatal' THEN Ended("Policy") ELSE Notifying(Patches)
    /\ UNCHANGED <<loaded, seen, settings, handler, planned, exposed, apis>>

(* Mutant: what has not failed is taken for available. *)
AnsweredEarly(c) == {s \in pending : s[1] = c /\ state[s[2]] \notin {"Failed", "Disabled"}}

Answered(c) == {s \in pending : s[1] = c /\ state[s[2]] = "Installed"}

(* deliver_available(); what its provider did not publish is dropped. *)
Notify(c) ==
    LET answered == Answered(c)
    IN  /\ control.at = "Notifying" /\ c \in control.todo
        /\ control' = Notifying(control.todo \ {c})
        /\ IF state[c] = "Installed"
           THEN /\ pending' = pending \ answered
                /\ told' = told \cup {s \in answered : s[2] \in published}
           ELSE UNCHANGED <<pending, told>>
        /\ UNCHANGED <<loaded, seen, settings, state, selection, fatal, handler, planned, exposed,
                       published, bound>>

Rest ==
    /\ control.at = "Notifying" /\ control.todo = {}
    /\ control' = Idle
    /\ UNCHANGED <<loaded, seen, settings, state, selection, fatal, handler, planned, exposed, apis>>

-----------------------------------------------------------------------------
(* Images that load later.                                                 *)

Load(i) ==
    /\ loaded[i] = "Absent"
    /\ loaded' \in {[loaded EXCEPT ![i] = "Recognised"], [loaded EXCEPT ![i] = "Rejected"]}
    /\ UNCHANGED <<seen, settings, state, selection, fatal, handler, planned, exposed, apis, control>>

Awaited ==
    {i \in Images : seen[i] = "Absent" /\ \E o \in Owners : state[o] = "Waiting" /\ i \in Needs[o]}

(* control_scan() with process_awaited_images() *)
Scan ==
    LET arrived == {i \in Awaited : loaded[i] # "Absent"}
    IN  /\ control = Idle
        /\ arrived # {}
        /\ seen' = [i \in Images |-> IF i \in arrived THEN loaded[i] ELSE seen[i]]
        /\ RefreshSelection(seen', TRUE)
        /\ Collect
        /\ UNCHANGED <<loaded, settings, handler, planned, exposed, apis>>

-----------------------------------------------------------------------------

Control ==
    \/ Start \/ Scan
    \/ PlanPatch \/ Validate \/ PreparePatch \/ InstallPatch \/ ActivatePatch
    \/ Propagate \/ (\E c \in Patches : Notify(c)) \/ Rest

Next == Control \/ \E i \in Images : Load(i)

Spec == Init /\ [][Next]_vars

(* Fairness.  The control thread scans every 50 ms and patches return from *)
(* their callbacks.                                                        *)
FairSpec == Spec /\ WF_vars(Control)

-----------------------------------------------------------------------------
(* Properties. *)

Controlling ==
    {Starting, Idle} \cup {Ended(cause) : cause \in {"Policy", "Cycle", "Unsafe"}}
    \cup {Notifying(todo) : todo \in SUBSET Patches}

(* Every variable keeps its shape; the control thread works on owners with *)
(* a plan, and prepares one at a time.                                     *)
TypeOK ==
    /\ loaded \in [Images -> Outcomes] /\ seen \in [Images -> Outcomes]
    /\ state \in [Owners -> PatchStates]
    /\ chosen \subseteq Patches /\ selected \subseteq Patches
    /\ providers \in [Patches -> SUBSET Patches]
    /\ fatal \in BOOLEAN
    /\ handler \in [Owners -> {"None", "Live", "Destroyed"}]
    /\ planned \subseteq Owners /\ exposed \subseteq Owners
    /\ published \subseteq Patches
    /\ bound \cup pending \cup told \subseteq Patches \X Patches
    /\ \/ control \in Controlling
       \/ LET batch == control.batch
          IN  /\ control \in {Planning(batch), Installing(batch)}
                             \cup UNION {{Prepared(p, batch), Activating(p, batch)} : p \in planned}
              /\ batch \in Seq(Owners)
    /\ \A o \in Owners :
         state[o] = "Preparing" => control.at \in {"Prepared", "Activating", "Ended"}

(* A patch is installed only with all its providers, whatever failed and   *)
(* whenever it became ready, and a table that was copied stays valid: its  *)
(* provider is installed and published it, though the consumer may have    *)
(* failed since.                                                           *)
ProvidersFirst ==
    /\ \A p \in Patches : state[p] = "Installed" => \A q \in providers[p] : state[q] = "Installed"
    /\ \A s \in bound : state[s[2]] = "Installed" /\ s[2] \in published

(* Installed owners never claim the same memory, in one batch or in two.   *)
ClaimsExclusive ==
    \A p, q \in {o \in Owners : state[o] = "Installed"} : p # q => <<p, q>> \notin Overlaps

(* A patch that does not run keeps nothing: no handler, plan, interface or *)
(* subscription; and it has changed nothing in the game.                   *)
FailedReleased ==
    \A o \in Owners : state[o] \in {"Failed", "Disabled", "Waiting"} =>
        /\ handler[o] # "Live"
        /\ o \notin planned \cup exposed \cup published
        /\ \A s \in pending : s[1] # o

(* When the control thread rests nothing is left half way, and what waits  *)
(* waits for an image or for a patch that waits, never for one that failed *)
(* or is disabled: nothing would look at it again.                         *)
NothingForgotten ==
    control = Idle =>
        \A o \in Owners :
            /\ state[o] \notin {"Planning", "Preparing"}
            /\ state[o] = "Waiting" =>
                 /\ \/ \E i \in Needs[o] : seen[i] = "Absent"
                    \/ \E q \in ProvidersOf(o) : state[q] = "Waiting"
                 /\ \A q \in ProvidersOf(o) : state[q] \in {"Waiting", "Installed"}

(* Callbacks of interfaces run, and updates begin, only while no patch     *)
(* that must not fail has failed.                                          *)
FatalNotIgnored ==
    control.at \in {"Notifying", "Idle"} => FatalFailures(state, selected, chosen) = {}

(* A patch is installed only with all its providers; installed patches     *)
(* never claim the same memory; a patch that does not run keeps nothing;   *)
(* nothing is left half way or waits for what failed; and no callback runs *)
(* after a failure that must end the process.                              *)
LifecycleSound ==
    TypeOK /\ ProvidersFirst /\ ClaimsExclusive /\ FailedReleased /\ NothingForgotten /\ FatalNotIgnored

(* A subscription ends with its consumer's failure, or when both ends are  *)
(* installed, with the callback exactly if the provider has published; and *)
(* it does end then, whichever end came first.                             *)
AnsweredOrFailed(s) ==
    \/ state'[s[1]] = "Failed"
    \/ /\ state[s[1]] = "Installed" /\ state[s[2]] = "Installed"
       /\ s \in told' <=> s[2] \in published

AllAnswered == \A s \in pending : state[s[1]] = "Installed" => state[s[2]] # "Installed"

SubscriptionsAnswered ==
    [][/\ \A s \in pending \ pending' : AnsweredOrFailed(s)
       /\ control' = Idle => AllAnswered']_vars

(* When every image has come, nothing waits for ever: images that have come *)
(* stay.                                                                    *)
WaitingEnds ==
    []<>(\/ \E i \in Images : loaded[i] = "Absent"
         \/ control.at = "Ended"
         \/ \A o \in Owners : state[o] \in Settled)
=============================================================================
