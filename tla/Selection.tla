------------------------------ MODULE Selection ------------------------------
(***************************************************************************)
(* Which variant of a patch fits the modules of the process, and which     *)
(* loaded module each of its labels means (images/image.cpp,               *)
(* patches/selection.cpp, patches/late_images.cpp).                        *)
(*                                                                         *)
(* The process maps and unmaps modules while the control thread probes one *)
(* filename after the other.  Recognition compares section tables; here a  *)
(* module has a build, and a build fits a set of catalog profiles.  What a *)
(* patch depends on is the subject of DependencyRules, and installation    *)
(* that of PatchLifecycle: here it succeeds or fails.                      *)
(***************************************************************************)
EXTENDS FiniteSets, Integers, SequencesExt

CONSTANTS
    Profiles,
    Filenames,     \* [Profiles -> SUBSET names]: the catalog's filename hints
    Executables,   \* the names that end in .exe
    Builds,
    Fits,          \* [Builds -> SUBSET Profiles]: profiles whose sections a build has
    Records,       \* the patches
    Variants,      \* [Records -> Seq([roles, images])], images being a sequence of sets of profiles
    Role,
    Main,          \* builds the executable may be of
    Loads,         \* modules the process may load: [file, build]
    MaxModules     \* how many of them are mapped at once

SelectionAssumption ==
    /\ IsFiniteSet(Profiles) /\ {"Absent", "Failed"} \cap Profiles = {}
    /\ Filenames \in [Profiles -> (SUBSET UNION {Filenames[f] : f \in Profiles}) \ {{}}]
    /\ Fits \in [Builds -> SUBSET Profiles]
    /\ \A p \in Records : IsFiniteSet(DOMAIN Variants[p])
    /\ \A p \in Records : \A v \in DOMAIN Variants[p] : \A l \in DOMAIN Variants[p][v].images :
            Variants[p][v].images[l] \subseteq Profiles
    /\ Main \subseteq Builds /\ \A m \in Loads : m.build \in Builds
    /\ MaxModules \in Nat

VARIABLES
    mapped,        \* the modules of the process: [base, file, build]
    pinned,        \* bases held until the process exits
    images,        \* what was observed: a sequence of [file, outcome, base, executable]
    controller,    \* the control thread: [at, next, changed]
    captured,      \* [Records -> SUBSET Nat]: variants whose settings were captured at startup
    recordState,   \* [Records -> PatchState]
    choice         \* [Records -> [variant, images]]: the selected variant and each label's place in images

selectionVars == <<mapped, pinned, images, controller, captured, recordState, choice>>

Absent == "Absent"
Failed == "Failed"
None == [variant |-> 0, images |-> <<>>]

-----------------------------------------------------------------------------
(* Declarations.                                                           *)

(* has_compatible_assignment(): each requirement takes a profile and one of *)
(* its names, and a name is taken for one profile only.                     *)
Hinted == UNION {{<<p, f>> : f \in Filenames[p]} : p \in Profiles}

Compatible(requirements) ==
    \E taken \in [DOMAIN requirements -> Hinted] :
        /\ \A l \in DOMAIN requirements : taken[l][1] \in requirements[l]
        /\ \A l, m \in DOMAIN requirements : taken[l][2] = taken[m][2] => taken[l][1] = taken[m][1]

CanMatch == [p \in Records |-> {v \in DOMAIN Variants[p] : Compatible(Variants[p][v].images)}]

VariantCanMatch(p, v) == v \in CanMatch[p]

VariantsOverlap(v, w) ==
    /\ v.roles \cap w.roles # {}
    /\ Compatible(v.images \o w.images)

(* resolve_patch() refuses variants that hints show to overlap. *)
ResolvedRecords ==
    {p \in Records : \A v, w \in DOMAIN Variants[p] :
                        v < w => ~VariantsOverlap(Variants[p][v], Variants[p][w])}

AcceptedProfiles(p) == UNION {UNION Range(v.images) : v \in Range(Variants[p])}

(* observe_loaded_images() probes the hints of every resolved patch. *)
Hints ==
    SetToSeq(UNION {Filenames[f] : f \in UNION {AcceptedProfiles(p) : p \in ResolvedRecords}} \ Executables)

-----------------------------------------------------------------------------
(* Observation.                                                            *)

(* recognize_image() and the pin of inspect_module(). *)
Recognised(m) ==
    IF Cardinality(Fits[m.build]) = 1 THEN CHOOSE p \in Fits[m.build] : TRUE ELSE Failed

Observation(file, outcome, base, executable) ==
    [file |-> file, outcome |-> outcome, base |-> base, executable |-> executable]

Inspected(file, m, executable) ==
    Observation(file, Recognised(m), IF Recognised(m) = Failed THEN 0 ELSE m.base, executable)

(* probe_loaded_image(): two modules of one basename cannot be told apart. *)
Named(file) == {m \in mapped : m.file = file}

Probed(file) ==
    CASE Named(file) = {} -> Observation(file, Absent, 0, FALSE)
      [] Cardinality(Named(file)) > 1 -> Observation(file, Failed, 0, FALSE)
      [] OTHER -> Inspected(file, CHOOSE m \in Named(file) : TRUE, FALSE)

\* Mutant: the module is recognised and not held.
Pin_M1(observation) == pinned' = pinned

Pin(observation) ==
    pinned' = pinned \cup (IF observation.base = 0 THEN {} ELSE {observation.base})

-----------------------------------------------------------------------------
(* Evaluation.                                                             *)

(* evaluate_requirement(): several names of one module are one match. *)
Matches(accepted, observed) == {i \in DOMAIN observed : observed[i].outcome \in accepted}

MatchedBases(accepted, observed) == {observed[i].base : i \in Matches(accepted, observed)}

(* A candidate without a match is pending while all its names are absent; *)
(* the executable cannot arrive later.                                    *)
CanArrive(profile, observed) ==
    /\ Filenames[profile] \cap Executables = {}
    /\ \A i \in DOMAIN observed :
           observed[i].file \in Filenames[profile] /\ ~observed[i].executable => observed[i].outcome = Absent

Requirement(accepted, observed) ==
    CASE Cardinality(MatchedBases(accepted, observed)) = 1 -> "Ready"
      [] Cardinality(MatchedBases(accepted, observed)) > 1 -> "Unavailable"
      [] OTHER -> IF \E profile \in accepted : CanArrive(profile, observed) THEN "Waiting" ELSE "Unavailable"

Bound(accepted, observed) == Min(Matches(accepted, observed))

(* One variant for this role. *)
Variant(p, v, observed) ==
    LET labels == {Requirement(accepted, observed) : accepted \in Range(Variants[p][v].images)}
    IN  CASE "Unavailable" \in labels \/ ~VariantCanMatch(p, v) -> "Unavailable"
          [] OTHER -> IF "Waiting" \in labels THEN "Waiting" ELSE "Ready"

(* evaluate_patch(), on some of the patch's variants. *)
Applicable(p) == {v \in DOMAIN Variants[p] : Role \in Variants[p][v].roles}

InState(p, s, observed) == {v \in Applicable(p) : Variant(p, v, observed) = s}

EvaluatePatch(p, observed) ==
    CASE Cardinality(InState(p, "Ready", observed)) = 1 -> "Ready"
      [] Cardinality(InState(p, "Ready", observed)) > 1 -> "Unavailable"
      [] OTHER -> IF InState(p, "Waiting", observed) # {} THEN "Waiting" ELSE "Unavailable"

Selected(p, observed) ==
    IF EvaluatePatch(p, observed) # "Ready" THEN None
    ELSE LET v == CHOOSE w \in InState(p, "Ready", observed) : TRUE
         IN  [variant |-> v, images |-> [l \in DOMAIN Variants[p][v].images |->
                                            Bound(Variants[p][v].images[l], observed)]]

(* refresh_selection(), for enabled patches of a configured plugin. *)
Refreshable(p) == recordState[p] \notin {"Installed", "Failed"}

StateOf(p, observed) ==
    CASE EvaluatePatch(p, observed) = "Ready" -> "Planning"
      [] EvaluatePatch(p, observed) = "Waiting" -> "Waiting"
      [] OTHER -> "Failed"

RefreshChoices(observed) ==
    /\ recordState' = [p \in Records |-> IF Refreshable(p) THEN StateOf(p, observed) ELSE recordState[p]]
    /\ choice' = [p \in Records |-> IF Refreshable(p) THEN Selected(p, observed) ELSE choice[p]]

-----------------------------------------------------------------------------
Executable == [base |-> MaxModules + 1, file |-> "executable"]

SelectionInit ==
    /\ mapped \in {{[base |-> Executable.base, file |-> Executable.file, build |-> b]} : b \in Main}
    /\ pinned = {} /\ images = <<>>
    /\ controller = [at |-> "Observing", hints |-> Hints]
    /\ captured = [p \in Records |-> {}]
    /\ recordState = [p \in Records |-> IF p \in ResolvedRecords THEN "Discovered" ELSE "Failed"]
    /\ choice = [p \in Records |-> None]

(* The game and its mods map modules and unmap what nobody holds. *)
MapModule ==
    \E m \in Loads, base \in 1..MaxModules :
        /\ \A other \in mapped : other.base # base
        /\ base = Min((1..MaxModules) \ {other.base : other \in mapped})
        /\ mapped' = mapped \cup {[base |-> base, file |-> m.file, build |-> m.build]}
        /\ UNCHANGED <<pinned, images, controller, captured, recordState, choice>>

UnmapModule ==
    \E m \in mapped :
        /\ m.base \notin pinned \cup {Executable.base}
        /\ mapped' = mapped \ {m}
        /\ UNCHANGED <<pinned, images, controller, captured, recordState, choice>>

(* observe_loaded_images(): the hints, one after the other. *)
Observe ==
    /\ controller.at = "Observing" /\ controller.hints # <<>>
    /\ LET found == Probed(Head(controller.hints))
       IN  images' = Append(images, found) /\ Pin(found)
    /\ controller' = [controller EXCEPT !.hints = Tail(@)]
    /\ UNCHANGED <<mapped, captured, recordState, choice>>

(* probe_main_image(), then configure_patches(): settings are captured for *)
(* the variants that are not unavailable now, each looked at alone.        *)
CapturedNow(p, observed) ==
    IF recordState[p] = "Discovered" THEN {v \in Applicable(p) : Variant(p, v, observed) # "Unavailable"} ELSE {}

Configure ==
    /\ controller.at = "Observing" /\ controller.hints = <<>>
    /\ \E main \in mapped :
         main.base = Executable.base /\ images' = Append(images, Inspected(main.file, main, TRUE))
    /\ Pin(Last(images'))
    /\ captured' = [p \in Records |-> CapturedNow(p, images')]
    /\ RefreshChoices(images')
    /\ controller' = [at |-> "Installing", next |-> 1, changed |-> FALSE]
    /\ UNCHANGED mapped

(* install_ready_patches(): every planned patch is installed or fails. *)
Install ==
    /\ controller.at = "Installing"
    /\ \E installed \in SUBSET {p \in Records : recordState[p] = "Planning"} :
           recordState' = [p \in Records |->
               IF recordState[p] # "Planning" THEN recordState[p] ELSE IF p \in installed THEN "Installed" ELSE "Failed"]
    /\ controller' = [at |-> "Idle", next |-> 1, changed |-> FALSE]
    /\ UNCHANGED <<mapped, pinned, images, captured, choice>>

(* required_filename(): names that a variant of a waiting patch accepts. *)
Waiting == {p \in Records : recordState[p] = "Waiting"}

RequiredFilename(file) ==
    \E p \in Waiting : \E v \in Applicable(p) : \E l \in DOMAIN Variants[p][v].images :
        \E profile \in Variants[p][v].images[l] : file \in Filenames[profile]

(* process_awaited_images(): only what was absent is probed again. *)
Retried(i) == images[i].outcome = Absent /\ RequiredFilename(images[i].file)

ProcessAwaited ==
    /\ controller.at = "Idle" /\ Waiting # {}
    /\ controller' = [at |-> "Scanning", next |-> 1, changed |-> FALSE]
    /\ UNCHANGED <<mapped, pinned, images, captured, recordState, choice>>

NextRetry == {i \in DOMAIN images : i >= controller.next /\ Retried(i)}

\* Mutant: a name that is still absent forgets that an earlier one was found.
ProbeForgetsChange ==
    /\ controller.at = "Scanning" /\ NextRetry # {}
    /\ LET i == Min(NextRetry)
            found == Probed(images[i].file)
        IN  /\ images' = [images EXCEPT ![i] = found]
            /\ Pin(found)
            /\ controller' = [controller EXCEPT !.next = i + 1, !.changed = found.outcome # Absent]
    /\ UNCHANGED <<mapped, captured, recordState, choice>>

Probe ==
    /\ controller.at = "Scanning" /\ NextRetry # {}
    /\ LET i == Min(NextRetry)
            found == Probed(images[i].file)
        IN  /\ images' = [images EXCEPT ![i] = found]
            /\ Pin(found)
            /\ controller' = [controller EXCEPT !.next = i + 1, !.changed = @ \/ found.outcome # Absent]
    /\ UNCHANGED <<mapped, captured, recordState, choice>>

EndScan ==
    /\ controller.at = "Scanning" /\ NextRetry = {}
    /\ IF controller.changed
       THEN /\ RefreshChoices(images)
            /\ controller' = [at |-> "Installing", next |-> 1, changed |-> FALSE]
       ELSE /\ controller' = [at |-> "Idle", next |-> 1, changed |-> FALSE]
            /\ UNCHANGED <<recordState, choice>>
    /\ UNCHANGED <<mapped, pinned, images, captured>>

SelectionControl == Observe \/ Configure \/ Install \/ ProcessAwaited \/ Probe \/ EndScan
SelectionNext == SelectionControl \/ MapModule \/ UnmapModule

SelectionSpec == SelectionInit /\ [][SelectionNext]_selectionVars

(* The control thread keeps running; nothing makes a module appear. *)
FairSelectionSpec == SelectionSpec /\ WF_selectionVars(SelectionControl)

-----------------------------------------------------------------------------
(* What a patch that is about to be installed, or is, was bound to stays    *)
(* mapped, and is of a build that fits exactly the accepted profile it was  *)
(* taken for: inspect_module() pins what it recognises.                     *)
ActivePatches == {p \in Records : recordState[p] \in {"Planning", "Installed"}}

BoundStaysMapped ==
    \A p \in ActivePatches : \A l \in DOMAIN choice[p].images :
        LET bound == images[choice[p].images[l]]
        IN  \E m \in mapped : /\ m.base = bound.base
                              /\ Fits[m.build] = {bound.outcome}
                              /\ bound.outcome \in Variants[p][choice[p].variant].images[l]

(* A planned patch has one meaning: no other variant for this role has all *)
(* its labels among the modules seen, and no label of its own two modules. *)
Complete(p, v) ==
    \A l \in DOMAIN Variants[p][v].images :
        \E i \in DOMAIN images : images[i].outcome \in Variants[p][v].images[l]

ChoiceUnambiguous ==
    \A p \in Records : recordState[p] = "Planning" =>
        /\ \A l \in DOMAIN choice[p].images : \A i \in DOMAIN images :
               images[i].outcome \in Variants[p][choice[p].variant].images[l]
                    => images[i].base = images[choice[p].images[l]].base
        /\ \A v \in Applicable(p) \ {choice[p].variant} :
               Complete(p, v) => Variant(p, v, images) = "Unavailable"

(* What was chosen stays what it was chosen for, and was the only choice.   *)
ChoiceSound == BoundStaysMapped /\ ChoiceUnambiguous

(* Once no module comes or goes, no patch waits for what a look at the      *)
(* absent names would decide.                                               *)
LookedAgain ==
    [i \in DOMAIN images |-> IF images[i].outcome = Absent THEN Probed(images[i].file) ELSE images[i]]

Undecided(p) == recordState[p] = "Waiting" => EvaluatePatch(p, LookedAgain) = "Waiting"

WaitingIsAnswered == <>[][mapped' = mapped]_mapped => \A p \in Records : <>[]Undecided(p)

(* The selected variant is one whose settings were captured at startup:     *)
(* construct_handler() asserts it (patches/patch_record.cpp:207).           *)
SettingsCaptured ==
    \A p \in Records : recordState[p] = "Planning" => choice[p].variant \in captured[p]
=============================================================================
