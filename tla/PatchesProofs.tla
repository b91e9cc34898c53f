---------------------------- MODULE PatchesProofs ----------------------------
(***************************************************************************)
(* Proofs about PatchLifecycle, for any patches, observers, dependencies,  *)
(* claims, failure policies and images; about Plugins, for any DLLs and    *)
(* declarations; and, at the end, about CrashReports, for any threads,     *)
(* operations and known facts.                                             *)
(*                                                                         *)
(* The inductive invariant of PatchLifecycle says of every owner what goes *)
(* with its state, what the point the control thread has come to allows,   *)
(* and why each patch that waits does: another look at the same images     *)
(* would let none of them go on.                                           *)
(***************************************************************************)
EXTENDS PatchLifecycle, Plugins, CrashReports, Folding, TLAPS

-----------------------------------------------------------------------------
(* The inductive invariant. *)

Pairs == Patches \X Patches

Shapes ==
    /\ loaded \in [Images -> Outcomes] /\ seen \in [Images -> Outcomes]
    /\ settings \in [Patches -> {"Enabled", "Disabled", "Broken", "BrokenMandatory"}]
    /\ state \in [Owners -> PatchStates]
    /\ chosen \subseteq Patches /\ selected \subseteq Patches
    /\ providers \in [Patches -> SUBSET Patches]
    /\ fatal \in BOOLEAN
    /\ handler \in [Owners -> {"None", "Live", "Destroyed"}]
    /\ planned \subseteq Owners /\ exposed \subseteq Owners
    /\ published \subseteq Patches
    /\ bound \subseteq Pairs /\ pending \subseteq Pairs /\ told \subseteq Pairs

Running == {"Preparing", "Installed"}
Going == {"Planning", "Preparing", "Installed"}

(* What an owner may have in each state. *)
OwnerSound(o) ==
    /\ o \notin planned => handler[o] # "Live"
    /\ o \in planned => state[o] \in Going
    /\ o \in exposed => state[o] \in Running
    /\ o \in published => state[o] \in Running
    /\ state[o] \in Running => o \in planned

PairsSound ==
    /\ \A s \in pending : state[s[1]] \in Running
    /\ \A s \in bound \cup told : state[s[2]] = "Installed" /\ s[2] \in published

ProvidersSound ==
    \A p \in Patches : state[p] \in Running => \A q \in providers[p] : state[q] = "Installed"

(* Why a patch or an observer waits. *)
Needed(p) == DependsOn[p] \cup ReadyDependsOn[p]

WaitsSound ==
    /\ \A o \in Observers : state[o] = "Waiting" => \E i \in Needs[o] : seen[i] = "Absent"
    /\ \A p \in Patches : state[p] = "Waiting" /\ Selection(p, seen) = "Ready" =>
          \E q \in Needed(p) : state[q] \notin Going

(* Accepted plans keep their claims from the validation of the batch on.   *)
Accepting == {"Installing", "Prepared", "Activating"}

Claimants ==
    {o \in Owners : state[o] \in Running \/ (state[o] = "Planning" /\ control.at \in Accepting)}

Compatible(S) == \A p, q \in S : p # q => <<p, q>> \notin Overlaps

(* The control thread. *)
BatchSound(batch) == batch \in Seq(Owners) /\ ToInstall \subseteq ToSet(batch)

StartingSound ==
    control = Starting => \A o \in Owners : state[o] = "Disabled"

ConfiguredSound ==
    control # Starting =>
        \A p \in Patches : state[p] = "Disabled" => settings[p] # "Enabled"

PlanningSound ==
    control.at = "Planning" =>
        /\ control = Planning(control.batch) /\ BatchSound(control.batch)
        /\ \A o \in Owners : state[o] # "Preparing"

InstallingSound ==
    control.at = "Installing" =>
        /\ control = Installing(control.batch) /\ BatchSound(control.batch)
        /\ \A o \in Owners : state[o] # "Preparing"
        /\ ToInstall \subseteq planned

PatchSound ==
    control.at \in {"Prepared", "Activating"} =>
        /\ control \in {Prepared(control.patch, control.batch), Activating(control.patch, control.batch)}
        /\ BatchSound(control.batch)
        /\ control.patch \in Owners
        /\ \A o \in Owners : state[o] = "Preparing" <=> o = control.patch
        /\ ToInstall \subseteq planned
        /\ control.at = "Prepared" => control.patch \notin exposed

(* Between two batches nothing is under way, and what waits waits for      *)
(* something that can still come.                                          *)
PatchWaits(p) ==
    /\ \/ \E i \in Needs[p] : seen[i] = "Absent"
       \/ \E q \in providers[p] : state[q] = "Waiting"
    /\ \A q \in providers[p] : state[q] \in {"Waiting", "Installed"}

RestingSound ==
    control.at \in {"Notifying", "Idle"} =>
        /\ \A o \in Owners : state[o] \notin {"Planning", "Preparing"}
        /\ \A p \in Patches : state[p] = "Waiting" => PatchWaits(p)
        /\ FatalFailures(state, selected, chosen) = {}

AnswersSound ==
    control.at \in {"Notifying", "Idle"} =>
        \A s \in pending :
            /\ control.at = "Notifying" => s[1] \notin control.todo
            /\ state[s[1]] = "Installed"
            => state[s[2]] # "Installed"

ControlSound ==
    \/ control \in {Starting, Idle}
    \/ \E cause \in {"Policy", "Cycle", "Unsafe"} : control = Ended(cause)
    \/ control.at = "Notifying" /\ \E todo \in SUBSET Patches : control = Notifying(todo)
    \/ control.at \in {"Planning", "Installing", "Prepared", "Activating"}

OwnersSound == \A o \in Owners : OwnerSound(o)

ControlInv ==
    /\ ControlSound /\ StartingSound /\ ConfiguredSound
    /\ PlanningSound /\ InstallingSound /\ PatchSound /\ RestingSound /\ AnswersSound

OwnersInv ==
    Shapes /\ OwnersSound /\ PairsSound /\ ProvidersSound /\ WaitsSound

IInv == OwnersInv /\ Compatible(Claimants) /\ ControlInv

-----------------------------------------------------------------------------
(* What the dependencies decide.  Grounded is a least set: closed, and     *)
(* nothing is in it that is not there for a reason.                        *)

LEMMA GroundedClosed ==
    ASSUME NEW from, NEW given, NEW needed, NEW p \in from,
           needed[p] \subseteq Grounded(from, given, needed) \cup given
    PROVE  p \in Grounded(from, given, needed)
  <1> SUFFICES ASSUME NEW T \in SUBSET from, Closed(T, from, given, needed)
               PROVE  p \in T
    BY DEF Grounded
  <1>1. Grounded(from, given, needed) \subseteq T BY DEF Grounded
  <1>2. needed[p] \subseteq T \cup given BY <1>1
  <1> QED BY <1>2 DEF Closed

LEMMA GroundedStep ==
    ASSUME NEW from, NEW given, NEW needed, NEW p \in Grounded(from, given, needed)
    PROVE  p \in from /\ needed[p] \subseteq Grounded(from, given, needed) \cup given
  <1> DEFINE G == Grounded(from, given, needed)
  <1>1. p \in from /\ G \subseteq from BY DEF Grounded
  <1>2. ASSUME ~(needed[p] \subseteq G \cup given) PROVE FALSE
    <2>1. ASSUME NEW r \in from, needed[r] \subseteq (G \ {p}) \cup given
          PROVE  r \in G \ {p}
      <3>1. r \in G BY <2>1, GroundedClosed
      <3>2. r # p BY <1>2, <2>1
      <3> QED BY <3>1, <3>2
    <2> HIDE DEF G
    <2>2. Closed(G \ {p}, from, given, needed) BY <2>1 DEF Closed
    <2>3. p \in G \ {p}
      <3>1. p \in Grounded(from, given, needed) OBVIOUS
      <3>2. \A T \in SUBSET from : Closed(T, from, given, needed) => p \in T
        BY <3>1 DEF Grounded
      <3>3. G \ {p} \in SUBSET from BY <1>1
      <3> QED BY <2>2, <3>2, <3>3
    <2> QED BY <2>3
  <1> QED BY <1>1, <1>2

LEMMA GroundedEmpty ==
    ASSUME NEW from, NEW given, NEW needed,
           \A p \in from : ~(needed[p] \subseteq given)
    PROVE  Grounded(from, given, needed) = {}
  <1>1. Closed({}, from, given, needed) BY DEF Closed
  <1> QED BY <1>1 DEF Grounded

(* What the states become: settled ones stay, a patch goes on exactly with *)
(* all it needs, and waits only for what waits, goes on or is installed.   *)
LEMMA ResolvedStep ==
    ASSUME NEW before \in [Patches -> PatchStates \ {"Preparing"}], NEW needed,
           NEW after, after = Resolved(before, needed), NEW p \in Patches
    PROVE  /\ before[p] \in Settled => after[p] = before[p]
           /\ before[p] \notin Settled => after[p] \in {"Planning", "Waiting", "Failed"}
           /\ after[p] = "Planning" => before[p] = "Planning"
           /\ after[p] = "Waiting" =>
                /\ before[p] \in {"Planning", "Waiting"}
                /\ \A q \in needed[p] : q \in Patches /\ after[q] \in {"Waiting", "Planning", "Installed"}
                /\ before[p] = "Planning" =>
                     \E q \in needed[p] : after[q] \notin {"Planning", "Installed"}
  <1> DEFINE given == With(before, {"Installed"})
             ready == Grounded(With(before, {"Planning"}), given, needed)
             sound == Grounded(With(before, {"Planning", "Waiting"}), given, needed)
  <1>1. /\ DOMAIN before = Patches
        /\ given = {q \in Patches : before[q] = "Installed"}
        /\ With(before, {"Planning"}) = {q \in Patches : before[q] = "Planning"}
        /\ With(before, {"Planning", "Waiting"}) = {q \in Patches : before[q] \in {"Planning", "Waiting"}}
    BY DEF With
  <1>2. after = [q \in Patches |->
            IF before[q] \in Settled THEN before[q]
            ELSE IF q \in ready THEN "Planning"
            ELSE IF q \in sound THEN "Waiting"
            ELSE "Failed"]
    BY <1>1 DEF Resolved
  <1>3. /\ ready \subseteq {q \in Patches : before[q] = "Planning"}
        /\ sound \subseteq {q \in Patches : before[q] \in {"Planning", "Waiting"}}
    BY <1>1 DEF Grounded
  <1>4. p \in sound => needed[p] \subseteq sound \cup given BY GroundedStep
  <1>5. before[p] = "Planning" /\ p \notin ready => ~(needed[p] \subseteq ready \cup given)
    BY <1>1, GroundedClosed
  <1> HIDE DEF given, ready, sound
  <1>6. \A q \in sound \cup given : q \in Patches /\ after[q] \in {"Waiting", "Planning", "Installed"}
    BY <1>1, <1>2, <1>3 DEF Settled
  <1>7. \A q \in Patches : after[q] \in {"Planning", "Installed"} => q \in ready \cup given
    BY <1>1, <1>2, <1>3 DEF Settled
  <1>8. after[p] = "Waiting" => p \in sound /\ p \notin ready /\ before[p] \in {"Planning", "Waiting"}
    BY <1>2, <1>3 DEF Settled
  <1>9. after[p] = "Planning" => before[p] = "Planning"
    BY <1>2, <1>3 DEF Settled
  <1>10. ASSUME after[p] = "Waiting"
         PROVE  /\ \A q \in needed[p] : q \in Patches /\ after[q] \in {"Waiting", "Planning", "Installed"}
                /\ before[p] = "Planning" =>
                     \E q \in needed[p] : after[q] \notin {"Planning", "Installed"}
    <2>1. \A q \in needed[p] : q \in Patches /\ after[q] \in {"Waiting", "Planning", "Installed"}
      BY <1>4, <1>6, <1>8, <1>10
    <2>2. ASSUME before[p] = "Planning"
          PROVE  \E q \in needed[p] : after[q] \notin {"Planning", "Installed"}
      <3>1. PICK q \in needed[p] : q \notin ready \cup given BY <1>5, <1>8, <1>10, <2>2
      <3> QED BY <1>7, <2>1, <3>1
    <2> QED BY <2>1, <2>2
  <1>11. before[p] \in Settled => after[p] = before[p] BY <1>2
  <1>12. before[p] \notin Settled => after[p] \in {"Planning", "Waiting", "Failed"} BY <1>2
  <1> QED BY <1>8, <1>9, <1>10, <1>11, <1>12

(* Nothing goes on when all that is ready needs something not installed.   *)
LEMMA ResolvedRests ==
    ASSUME NEW before \in [Patches -> PatchStates \ {"Preparing"}], NEW needed,
           \A p \in Patches : before[p] = "Planning" =>
              \E q \in needed[p] : q \in Patches => before[q] # "Installed",
           NEW p \in Patches
    PROVE  Resolved(before, needed)[p] # "Planning"
  <1> DEFINE given == With(before, {"Installed"})
             from == With(before, {"Planning"})
  <1>1. \A q \in from : ~(needed[q] \subseteq given)
    BY DEF With
  <1>2. Grounded(from, given, needed) = {} BY <1>1, GroundedEmpty
  <1>3. DOMAIN before = Patches OBVIOUS
  <1> HIDE DEF given, from
  <1>4. \/ Resolved(before, needed)[p] = before[p] /\ before[p] \in Settled
        \/ Resolved(before, needed)[p] \in {"Waiting", "Failed"}
    BY <1>2, <1>3 DEF Resolved, given, from
  <1> QED BY <1>4 DEF Settled

-----------------------------------------------------------------------------
(* Refreshing the selection, when nothing is under way.                    *)

LEMMA EvaluatedStep ==
    ASSUME Shapes, NEW images, NEW p \in Patches, state[p] \notin {"Planning", "Preparing"}
    PROVE  LET e == Evaluated(images)[p]
           IN  /\ Kept(p) => e = state[p]
               /\ ~Kept(p) => e \in {"Disabled", "Failed", "Waiting", "Planning"}
               /\ e \in PatchStates \ {"Preparing"}
               /\ ~Kept(p) /\ e = "Disabled" => settings[p] # "Enabled"
               /\ e = "Waiting" => Selection(p, images) = "Waiting"
               /\ e = "Planning" => Selection(p, images) = "Ready"
               /\ e \in {"Waiting", "Planning"} => ~Kept(p) /\ settings[p] = "Enabled"
  <1>1. Selection(p, images) \in {"Unavailable", "Waiting", "Ready"} BY DEF Selection
  <1>2. settings[p] \in {"Enabled", "Disabled", "Broken", "BrokenMandatory"} BY DEF Shapes
  <1>3. p \in Owners BY DEF Owners
  <1>4. CASE Kept(p)
    BY <1>4, <1>3 DEF Evaluated, Kept, Shapes, PatchStates
  <1>5. CASE ~Kept(p) /\ settings[p] = "Enabled"
    <2>1. Evaluated(images)[p] = CASE Selection(p, images) = "Unavailable" -> "Failed"
                                   [] Selection(p, images) = "Waiting" -> "Waiting"
                                   [] Selection(p, images) = "Ready" -> "Planning"
      BY <1>5 DEF Evaluated
    <2> QED BY <1>1, <1>5, <2>1 DEF PatchStates
  <1>6. CASE ~Kept(p) /\ settings[p] # "Enabled"
    <2>1. Evaluated(images)[p] = IF settings[p] = "Disabled" THEN "Disabled" ELSE "Failed"
      BY <1>2, <1>6 DEF Evaluated
    <2> QED BY <1>6, <2>1 DEF PatchStates
  <1> QED BY <1>4, <1>5, <1>6

LEMMA SelectionWaits ==
    ASSUME NEW o \in Owners, NEW images, Selection(o, images) = "Waiting"
    PROVE  \E i \in Needs[o] : images[i] = "Absent"
  BY DEF Selection

(* What the refresh makes of a patch. *)
RefreshedSound(p, images) ==
    /\ state'[p] \in PatchStates \ {"Preparing"}
    /\ Kept(p) => state'[p] = state[p] /\ providers'[p] = providers[p]
    /\ ~Kept(p) => state'[p] \in {"Disabled", "Failed", "Waiting", "Planning"}
    /\ state'[p] = "Disabled" /\ ~Kept(p) => settings[p] # "Enabled"
    /\ state'[p] = "Planning" => Selection(p, images) = "Ready" /\ ~Kept(p) /\ settings[p] = "Enabled"
    /\ state'[p] = "Waiting" =>
         /\ Selection(p, images) \in {"Waiting", "Ready"}
         /\ \A q \in providers'[p] : state'[q] \in {"Waiting", "Planning", "Installed"}
         /\ Selection(p, images) = "Ready" =>
              /\ providers'[p] = Needed(p)
              /\ \E q \in providers'[p] : state'[q] \notin {"Planning", "Installed"}

LEMMA RefreshStep ==
    ASSUME Shapes, NEW images, NEW observers, RefreshSelection(images, observers),
           \A o \in Owners : state[o] \notin {"Planning", "Preparing"}
    PROVE  /\ providers' \in [Patches -> SUBSET Patches]
           /\ chosen' \subseteq Patches /\ selected' \subseteq Patches /\ fatal' \in BOOLEAN
           /\ \A p \in Patches : RefreshedSound(p, images)
           /\ (\A p \in Patches : ~Kept(p) /\ settings[p] = "Enabled" /\ Selection(p, images) = "Ready" =>
                  \E q \in Needed(p) : state[q] # "Installed")
              => \A p \in Patches : state'[p] # "Planning"
           /\ (fatal' = FALSE => FatalFailures(state', selected', chosen') = {})
  <1> DEFINE E == Evaluated(images)
             R == Referenced(E)
             N == Providers(E)
  <1>1. /\ providers' = N
        /\ chosen' \subseteq Patches /\ selected' \subseteq Patches
        /\ fatal' = (fatal \/ FatalFailures(state', selected', chosen') # {})
        /\ \A p \in Patches : state'[p] = Resolved(R, N)[p]
    BY DEF RefreshSelection, Refreshed, Owners, Shapes, Configured, Candidates
  <1>2. \A p \in Patches :
           /\ Kept(p) => E[p] = state[p]
           /\ ~Kept(p) => E[p] \in {"Disabled", "Failed", "Waiting", "Planning"}
           /\ E[p] \in PatchStates \ {"Preparing"}
           /\ ~Kept(p) /\ E[p] = "Disabled" => settings[p] # "Enabled"
           /\ E[p] = "Waiting" => Selection(p, images) = "Waiting"
           /\ E[p] = "Planning" => Selection(p, images) = "Ready"
           /\ E[p] \in {"Waiting", "Planning"} => ~Kept(p) /\ settings[p] = "Enabled"
    BY EvaluatedStep DEF Owners
  <1>3. \A p \in Patches : R[p] = IF E[p] \in {"Waiting", "Planning"} /\ p \in Unresolved THEN "Failed" ELSE E[p]
    BY DEF Referenced, Pending
  <1>4. N \in [Patches -> SUBSET Patches]
        /\ \A p \in Patches :
             /\ E[p] \notin {"Waiting", "Planning"} => N[p] = providers[p]
             /\ E[p] = "Planning" => N[p] = Needed(p)
    BY LifecycleAssumption DEF Providers, Pending, Needed, Shapes
  <1>5. R \in [Patches -> PatchStates \ {"Preparing"}]
    BY <1>2, <1>3 DEF Referenced, PatchStates
  <1> HIDE DEF E, R, N
  <1>6. ASSUME NEW p \in Patches PROVE RefreshedSound(p, images)
    <2>1. /\ R[p] \in Settled => state'[p] = R[p]
          /\ R[p] \notin Settled => state'[p] \in {"Planning", "Waiting", "Failed"}
          /\ state'[p] = "Planning" => R[p] = "Planning"
          /\ state'[p] = "Waiting" =>
                /\ R[p] \in {"Planning", "Waiting"}
                /\ \A q \in N[p] : q \in Patches /\ Resolved(R, N)[q] \in {"Waiting", "Planning", "Installed"}
                /\ R[p] = "Planning" =>
                     \E q \in N[p] : Resolved(R, N)[q] \notin {"Planning", "Installed"}
      BY <1>1, <1>5, ResolvedStep
    <2>2. /\ state'[p] = "Waiting" =>
                /\ \A q \in N[p] : state'[q] \in {"Waiting", "Planning", "Installed"}
                /\ R[p] = "Planning" => \E q \in N[p] : state'[q] \notin {"Planning", "Installed"}
      BY <1>1, <1>4, <2>1
    <2>3. /\ R[p] \in {"Planning", "Waiting"} => R[p] = E[p]
          /\ E[p] \in Settled => R[p] = E[p]
          /\ R[p] # E[p] => R[p] = "Failed" /\ ~Kept(p)
      BY <1>2, <1>3 DEF Settled
    <2>4. /\ Kept(p) => state'[p] = state[p] /\ providers'[p] = providers[p]
          /\ ~Kept(p) => state'[p] \in {"Disabled", "Failed", "Waiting", "Planning"}
          /\ state'[p] = "Disabled" /\ ~Kept(p) => settings[p] # "Enabled"
      <3>1. CASE Kept(p)
        <4>1. E[p] = state[p] /\ E[p] \in {"Installed", "Failed"} BY <1>2, <3>1 DEF Kept
        <4>2. R[p] = E[p] /\ R[p] \in Settled BY <2>3, <4>1 DEF Settled
        <4> QED BY <1>1, <1>4, <2>1, <3>1, <4>1, <4>2
      <3>2. CASE ~Kept(p) BY <1>2, <2>1, <2>3, <3>2 DEF Settled
      <3> QED BY <3>1, <3>2
    <2>5. state'[p] \in PatchStates \ {"Preparing"}
      BY <1>5, <2>1 DEF PatchStates, Settled
    <2>6. state'[p] = "Planning" => Selection(p, images) = "Ready" /\ ~Kept(p) /\ settings[p] = "Enabled"
      BY <1>2, <2>1, <2>3
    <2>7. state'[p] = "Waiting" =>
            /\ Selection(p, images) \in {"Waiting", "Ready"}
            /\ \A q \in providers'[p] : state'[q] \in {"Waiting", "Planning", "Installed"}
            /\ Selection(p, images) = "Ready" =>
                 /\ providers'[p] = Needed(p)
                 /\ \E q \in providers'[p] : state'[q] \notin {"Planning", "Installed"}
      BY <1>1, <1>2, <1>4, <2>1, <2>2, <2>3
    <2> QED BY <2>4, <2>5, <2>6, <2>7 DEF RefreshedSound
  <1>7. ASSUME \A p \in Patches : ~Kept(p) /\ settings[p] = "Enabled" /\ Selection(p, images) = "Ready" =>
                  \E q \in Needed(p) : state[q] # "Installed"
        PROVE  \A p \in Patches : state'[p] # "Planning"
    <2>1. ASSUME NEW p \in Patches, R[p] = "Planning"
          PROVE  \E q \in N[p] : q \in Patches => R[q] # "Installed"
      <3>1. E[p] = "Planning" BY <1>2, <1>3, <2>1
      <3>2. PICK q \in N[p] : state[q] # "Installed" BY <1>2, <1>4, <1>7, <3>1
      <3>3. q \in Patches => R[q] # "Installed" BY <1>2, <1>3, <3>2
      <3> QED BY <3>2, <3>3
    <2> QED BY <1>1, <1>5, <2>1, ResolvedRests
  <1>8. fatal' \in BOOLEAN /\ (fatal' = FALSE => FatalFailures(state', selected', chosen') = {})
    BY <1>1
  <1> QED BY <1>1, <1>4, <1>6, <1>7, <1>8

-----------------------------------------------------------------------------
(* Steps within a batch. *)

(* Owners go on, or fail while they are under way. *)
Moved ==
    \A o \in Owners :
        \/ state'[o] = state[o]
        \/ state[o] \in {"Planning", "Preparing"} /\ state'[o] \in {"Preparing", "Installed", "Failed"}

LEMMA NeededPatches ==
    ASSUME NEW p \in Patches
    PROVE  p \in Owners /\ Needed(p) \subseteq Owners
  BY LifecycleAssumption DEF Needed, Owners

LEMMA WaitsKept ==
    ASSUME WaitsSound, Moved, UNCHANGED seen
    PROVE  WaitsSound'
  <1>1. ASSUME NEW o \in Observers, state'[o] = "Waiting"
        PROVE  \E i \in Needs[o] : seen'[i] = "Absent"
    <2>1. state[o] = "Waiting" BY <1>1 DEF Moved, Owners
    <2> QED BY <2>1 DEF WaitsSound
  <1>2. ASSUME NEW p \in Patches, state'[p] = "Waiting", Selection(p, seen') = "Ready"
        PROVE  \E q \in Needed(p) : state'[q] \notin Going
    <2>1. state[p] = "Waiting" BY <1>2 DEF Moved, Owners
    <2>2. PICK q \in Needed(p) : state[q] \notin Going BY <1>2, <2>1 DEF WaitsSound
    <2>3. state'[q] = state[q] BY <2>2, NeededPatches DEF Moved, Going
    <2> QED BY <2>2, <2>3
  <1> QED BY <1>1, <1>2 DEF WaitsSound

LEMMA EndedStep ==
    ASSUME ConfiguredSound, control # Starting, Moved, UNCHANGED settings,
           NEW cause \in {"Policy", "Cycle", "Unsafe"}, control' = Ended(cause)
    PROVE  ControlInv'
  <1>1. control'.at = "Ended" BY DEF Ended
  <1>2. ControlSound' BY DEF ControlSound
  <1>3. ConfiguredSound'
    <2> SUFFICES ASSUME NEW p \in Patches, state'[p] = "Disabled" PROVE settings'[p] # "Enabled"
      BY DEF ConfiguredSound
    <2>1. state[p] = "Disabled" BY DEF Moved, Owners
    <2> QED BY <2>1 DEF ConfiguredSound
  <1> QED BY <1>1, <1>2, <1>3
        DEF ControlInv, StartingSound, PlanningSound, InstallingSound, PatchSound, RestingSound,
            AnswersSound, Starting

LEMMA ConfiguredKept ==
    ASSUME ConfiguredSound, control # Starting, Moved, UNCHANGED settings
    PROVE  ConfiguredSound'
  <1> SUFFICES ASSUME NEW p \in Patches, state'[p] = "Disabled" PROVE settings'[p] # "Enabled"
    BY DEF ConfiguredSound
  <1>1. state[p] = "Disabled" BY DEF Moved, Owners
  <1> QED BY <1>1 DEF ConfiguredSound

LEMMA CompatibleLess ==
    ASSUME NEW S, NEW T, T \subseteq S, Compatible(S)
    PROVE  Compatible(T)
  BY DEF Compatible

(* What is rejected gives back what it has. *)
LEMMA ReleaseStep ==
    ASSUME OwnersInv, NEW rejected \in SUBSET Owners, Release(rejected),
           \A o \in rejected : state[o] \in {"Planning", "Preparing"} /\ o \notin exposed,
           handler' \in [Owners -> {"None", "Live", "Destroyed"}],
           \A o \in rejected : handler'[o] # "Live",
           \A o \in Owners \ rejected : handler'[o] = handler[o],
           bound' \subseteq bound \cup {s \in Pairs : state[s[2]] = "Installed" /\ s[2] \in published},
           UNCHANGED <<loaded, seen, settings, selection, exposed, told>>,
           fatal' \in BOOLEAN
    PROVE  /\ OwnersInv' /\ Moved
           /\ ToInstall' = ToInstall \ rejected
           /\ \A o \in Owners : state'[o] = IF o \in rejected THEN "Failed" ELSE state[o]
           /\ planned' = planned \ rejected
  <1>1. /\ state' \in [Owners -> PatchStates]
        /\ \A o \in Owners : state'[o] = IF o \in rejected THEN "Failed" ELSE state[o]
        /\ planned' = planned \ rejected /\ published' = published \ rejected
        /\ pending' = {s \in pending : s[1] \notin rejected}
    BY DEF Release, OwnersInv, Shapes, PatchStates
  <1>2. Shapes' BY <1>1 DEF OwnersInv, Shapes, selection
  <1>3. Moved BY <1>1 DEF Moved
  <1>4. OwnersSound'
    <2> SUFFICES ASSUME NEW o \in Owners PROVE OwnerSound(o)' BY DEF OwnersSound
    <2>1. OwnerSound(o) BY DEF OwnersInv, OwnersSound
    <2>2. CASE o \in rejected
      <3>1. /\ state'[o] = "Failed" /\ o \notin planned' /\ o \notin exposed' /\ o \notin published'
            /\ handler'[o] # "Live"
        BY <1>1, <2>2
      <3> QED BY <3>1 DEF OwnerSound, Running
    <2>3. CASE o \notin rejected
      <3>1. /\ state'[o] = state[o] /\ handler'[o] = handler[o] /\ exposed' = exposed
            /\ (o \in planned' <=> o \in planned) /\ (o \in published' <=> o \in published)
        BY <1>1, <2>3
      <3> QED BY <2>1, <3>1 DEF OwnerSound
    <2> QED BY <2>2, <2>3
  <1>5. PairsSound'
    <2>1. ASSUME NEW s \in pending' PROVE state'[s[1]] \in Running
      <3>1. s \in pending /\ s[1] \notin rejected /\ s[1] \in Owners
        BY <1>1, <2>1 DEF OwnersInv, Shapes, Pairs, Owners
      <3> QED BY <1>1, <3>1 DEF OwnersInv, PairsSound
    <2>2. ASSUME NEW s \in bound' \cup told' PROVE state'[s[2]] = "Installed" /\ s[2] \in published'
      <3>1. state[s[2]] = "Installed" /\ s[2] \in published /\ s[2] \in Owners
        BY <2>2 DEF OwnersInv, PairsSound, Shapes, Pairs, Owners
      <3>2. s[2] \notin rejected BY <3>1
      <3> QED BY <1>1, <3>1, <3>2
    <2> QED BY <2>1, <2>2 DEF PairsSound
  <1>6. ProvidersSound'
    <2> SUFFICES ASSUME NEW p \in Patches, state'[p] \in Running, NEW q \in providers'[p]
                 PROVE  state'[q] = "Installed"
      BY DEF ProvidersSound
    <2>1. p \in Owners /\ q \in providers[p] /\ q \in Owners
      BY DEF OwnersInv, Shapes, Owners, selection
    <2>2. state[p] \in Running BY <1>1, <2>1 DEF Running
    <2>3. state[q] = "Installed" BY <2>1, <2>2 DEF OwnersInv, ProvidersSound
    <2> QED BY <1>1, <2>1, <2>3
  <1>7. WaitsSound' BY <1>3, WaitsKept DEF OwnersInv
  <1>8. ToInstall' = ToInstall \ rejected BY <1>1 DEF ToInstall
  <1> QED BY <1>1, <1>2, <1>3, <1>4, <1>5, <1>6, <1>7, <1>8 DEF OwnersInv

LEMMA DestroyedStep ==
    ASSUME Shapes, NEW rejected \in SUBSET Owners, DestroyHandlers(rejected)
    PROVE  /\ handler' \in [Owners -> {"None", "Live", "Destroyed"}]
           /\ \A o \in rejected : handler'[o] # "Live"
           /\ \A o \in Owners \ rejected : handler'[o] = handler[o]
  BY DEF Shapes, DestroyHandlers

LEMMA TurnStep ==
    ASSUME NEW p, NEW todo, Turn(p, todo)
    PROVE  p \in todo
  BY DEF Turn

(* What rejects an owner within a round, the thread staying at "next" or   *)
(* ending.                                                                 *)
LEMMA OnwardStep ==
    ASSUME IInv, control # Starting, Moved, UNCHANGED settings, NEW rejected, NEW next,
           Onward(rejected, next)
    PROVE  /\ fatal' \in BOOLEAN
           /\ control' = Ended("Policy") \/ control' = next
           /\ control' = Ended("Policy") => ControlInv'
  <1>1. fatal' \in BOOLEAN BY DEF Onward, IInv, OwnersInv, Shapes
  <1>2. control' = Ended("Policy") \/ control' = next BY DEF Onward
  <1>3. control' = Ended("Policy") => ControlInv'
    BY EndedStep DEF IInv, ControlInv
  <1> QED BY <1>1, <1>2, <1>3

LEMMA ClaimantsFewer ==
    ASSUME Compatible(Claimants),
           \A o \in Owners : state'[o] \in Running => state[o] \in Running \/ o \in Claimants,
           \A o \in Owners : state'[o] = "Planning" /\ control'.at \in Accepting => o \in Claimants
    PROVE  Compatible(Claimants)'
  <1>1. Claimants' \subseteq Claimants
    BY DEF Claimants
  <1> QED BY <1>1, CompatibleLess

LEMMA PlanPatchStep ==
    ASSUME IInv, PlanPatch
    PROVE  IInv'
  <1>1. PICK p \in Owners :
          /\ control.at = "Planning" /\ Turn(p, ToPlan)
          /\ \/ /\ Unavailable(p)
                /\ Reject(p, control) /\ UNCHANGED bound
             \/ /\ ~Unavailable(p)
                /\ Release({p}) /\ Onward({p}, control)
                /\ \E left \in {"None", "Destroyed"} : handler' = [handler EXCEPT ![p] = left]
                /\ UNCHANGED <<loaded, seen, settings, selection, exposed, told, bound>>
             \/ /\ ~Unavailable(p)
                /\ handler' = [handler EXCEPT ![p] = "Live"]
                /\ planned' = planned \cup {p}
                /\ UNCHANGED <<loaded, seen, settings, state, selection, fatal, exposed, apis, control>>
    BY DEF PlanPatch
  <1>2. state[p] = "Planning" /\ p \notin planned /\ p \notin exposed
    BY <1>1, TurnStep DEF ToPlan, IInv, OwnersInv, OwnersSound, OwnerSound, Running
  <1>3. /\ control # Starting
        /\ control = Planning(control.batch) /\ BatchSound(control.batch)
        /\ \A o \in Owners : state[o] # "Preparing"
    BY <1>1 DEF Starting, IInv, ControlInv, PlanningSound
  <1>4. CASE Release({p}) /\ Onward({p}, control)
             /\ handler' \in [Owners -> {"None", "Live", "Destroyed"}]
             /\ handler'[p] # "Live" /\ (\A o \in Owners \ {p} : handler'[o] = handler[o])
             /\ UNCHANGED <<loaded, seen, settings, selection, exposed, told, bound>>
    <2>0. fatal' \in BOOLEAN BY <1>4 DEF Onward, IInv, OwnersInv, Shapes
    <2>1. /\ OwnersInv' /\ Moved
          /\ ToInstall' = ToInstall \ {p}
          /\ \A o \in Owners : state'[o] = IF o = p THEN "Failed" ELSE state[o]
      BY <1>2, <1>4, <2>0, ReleaseStep DEF IInv
    <2>2. Compatible(Claimants)'
      <3>1. control'.at \in {"Planning", "Ended"} BY <1>1, <1>4 DEF Onward, Ended
      <3>2. \A o \in Owners : state'[o] \in Running => state[o] \in Running
        BY <2>1 DEF Running
      <3> QED BY <3>1, <3>2, ClaimantsFewer DEF IInv, Accepting
    <2>3. ASSUME control' = control
          PROVE  ControlInv'
      <3>1. ControlSound' BY <1>1, <2>3 DEF ControlSound
      <3>2. ConfiguredSound' BY <1>3, <1>4, <2>1, ConfiguredKept DEF IInv, ControlInv
      <3>3. PlanningSound'
        <4>1. BatchSound(control.batch)' BY <1>3, <2>1, <2>3 DEF BatchSound
        <4> QED BY <1>3, <2>1, <2>3, <4>1 DEF PlanningSound
      <3>4. control'.at = "Planning" BY <1>1, <2>3
      <3> QED BY <2>3, <1>3, <3>1, <3>2, <3>3, <3>4
            DEF ControlInv, StartingSound, InstallingSound, PatchSound, RestingSound, AnswersSound, Starting
    <2>4. control' = control \/ control' = Ended("Policy") BY <1>4 DEF Onward
    <2>5. control' = Ended("Policy") => ControlInv' BY <1>3, <1>4, <2>1, OnwardStep
    <2>6. ControlInv' BY <2>3, <2>4, <2>5
    <2> QED BY <2>1, <2>2, <2>6 DEF IInv
  <1>5. CASE /\ handler' = [handler EXCEPT ![p] = "Live"]
             /\ planned' = planned \cup {p}
             /\ UNCHANGED <<loaded, seen, settings, state, selection, fatal, exposed, apis, control>>
    <2>1. Shapes' BY <1>5 DEF IInv, OwnersInv, Shapes, selection, apis
    <2>2. OwnersSound'
      <3> SUFFICES ASSUME NEW o \in Owners PROVE OwnerSound(o)' BY DEF OwnersSound
      <3>1. OwnerSound(o) BY DEF IInv, OwnersInv, OwnersSound
      <3>2. handler'[o] = IF o = p THEN "Live" ELSE handler[o]
        BY <1>5 DEF IInv, OwnersInv, Shapes
      <3> QED BY <1>2, <1>5, <3>1, <3>2 DEF OwnerSound, Going, Running, apis
    <2>3. PairsSound' /\ ProvidersSound' /\ WaitsSound'
      BY <1>5 DEF IInv, OwnersInv, PairsSound, ProvidersSound, WaitsSound, apis, selection, Selection
    <2>4. Compatible(Claimants)'
      <3>1. Claimants' = Claimants BY <1>5 DEF Claimants
      <3> QED BY <3>1 DEF IInv
    <2>5. ControlInv'
      <3>1. control'.at = "Planning" BY <1>1, <1>5
      <3>2. ControlSound' BY <3>1 DEF ControlSound
      <3>3. ConfiguredSound' BY <1>5 DEF IInv, ControlInv, ConfiguredSound
      <3>4. PlanningSound' BY <1>3, <1>5 DEF PlanningSound, BatchSound, ToInstall
      <3> QED BY <3>1, <3>2, <3>3, <3>4
            DEF ControlInv, StartingSound, InstallingSound, PatchSound, RestingSound, AnswersSound, Starting
    <2> QED BY <2>1, <2>2, <2>3, <2>4, <2>5 DEF IInv, OwnersInv
  <1>6. CASE Reject(p, control) /\ UNCHANGED bound
    BY <1>4, <1>6, DestroyedStep DEF Reject, IInv, OwnersInv
  <1>7. CASE /\ Release({p}) /\ Onward({p}, control)
             /\ \E left \in {"None", "Destroyed"} : handler' = [handler EXCEPT ![p] = left]
             /\ UNCHANGED <<loaded, seen, settings, selection, exposed, told, bound>>
    <2>1. /\ handler' \in [Owners -> {"None", "Live", "Destroyed"}]
          /\ handler'[p] # "Live" /\ (\A o \in Owners \ {p} : handler'[o] = handler[o])
      BY <1>7 DEF IInv, OwnersInv, Shapes
    <2> QED BY <1>4, <1>7, <2>1
  <1> QED BY <1>1, <1>5, <1>6, <1>7

LEMMA ValidateStep ==
    ASSUME IInv, Validate
    PROVE  IInv'
  <1>1. PICK accepted \in SUBSET ToInstall :
          /\ control.at = "Planning" /\ ToPlan = {}
          /\ Accepted(accepted, control.batch)
          /\ Release(ToInstall \ accepted) /\ DestroyHandlers(ToInstall \ accepted)
          /\ Onward(ToInstall \ accepted, Installing(control.batch))
          /\ UNCHANGED <<loaded, seen, settings, selection, exposed, told, bound>>
    BY DEF Validate
  <1> DEFINE rejected == ToInstall \ accepted
  <1>2. /\ rejected \in SUBSET Owners
        /\ \A o \in rejected : state[o] = "Planning" /\ o \notin exposed
    BY DEF ToInstall, IInv, OwnersInv, OwnersSound, OwnerSound, Running
  <1>3. /\ control # Starting
        /\ control = Planning(control.batch) /\ BatchSound(control.batch)
        /\ \A o \in Owners : state[o] # "Preparing"
    BY <1>1 DEF Starting, IInv, ControlInv, PlanningSound
  <1>4. fatal' \in BOOLEAN BY <1>1 DEF Onward, IInv, OwnersInv, Shapes
  <1>5. /\ OwnersInv' /\ Moved
        /\ ToInstall' = accepted
        /\ \A o \in Owners : state'[o] = IF o \in rejected THEN "Failed" ELSE state[o]
        /\ planned' = planned \ rejected
    <2>1. /\ handler' \in [Owners -> {"None", "Live", "Destroyed"}]
          /\ \A o \in rejected : handler'[o] # "Live"
          /\ \A o \in Owners \ rejected : handler'[o] = handler[o]
      BY <1>1, <1>2, DestroyedStep DEF IInv, OwnersInv
    <2>2. ToInstall \ rejected = accepted OBVIOUS
    <2> HIDE DEF rejected
    <2>3. Release(rejected) BY <1>1 DEF rejected
    <2> QED BY <1>1, <1>2, <1>4, <2>1, <2>2, <2>3, ReleaseStep DEF IInv
  <1>6. accepted \subseteq planned'
    BY <1>1, <1>5 DEF ToPlan, ToInstall
  (* The accepted plans: the later of two was compared with the earlier. *)
  <1>7. Compatible(Claimants)'
    <2> DEFINE here == {o \in planned : state[o] = "Installed"}
    <2>1. Claimants' \subseteq here \cup accepted
      <3> SUFFICES ASSUME NEW o \in Claimants' PROVE o \in here \cup accepted
        OBVIOUS
      <3>1. o \in Owners /\ (state'[o] \in Running \/ state'[o] = "Planning") BY DEF Claimants
      <3>2. CASE state'[o] = "Planning" BY <1>5, <3>1, <3>2 DEF ToInstall
      <3>3. CASE state'[o] \in Running
        <4>1. state[o] = "Installed" BY <1>3, <1>5, <3>1, <3>3 DEF Running
        <4>2. o \in planned
          BY <3>1, <4>1 DEF IInv, OwnersInv, OwnersSound, OwnerSound, Running
        <4> QED BY <4>1, <4>2
      <3> QED BY <3>1, <3>2, <3>3
    <2>2. Compatible(here)
      <3>1. here \subseteq Claimants BY DEF Claimants, Running, IInv, OwnersInv, Shapes
      <3> QED BY <3>1, CompatibleLess DEF IInv
    <2>3. \A i \in DOMAIN control.batch : control.batch[i] \in accepted =>
            /\ \A q \in here : <<control.batch[i], q>> \notin Overlaps
            /\ \A j \in 1..(i - 1) : control.batch[j] \in accepted =>
                  <<control.batch[i], control.batch[j]>> \notin Overlaps
      BY <1>1 DEF Accepted, Conflicts
    <2>4. \A p \in accepted : \E i \in DOMAIN control.batch : control.batch[i] = p
      BY <1>3 DEF BatchSound, ToSet
    <2>5. \A p, q : <<p, q>> \in Overlaps => <<q, p>> \in Overlaps
      BY LifecycleAssumption
    <2>6. DOMAIN control.batch = 1..Len(control.batch) /\ Len(control.batch) \in Nat
      BY <1>3 DEF BatchSound
    <2> HIDE DEF here
    <2>7. ASSUME NEW p \in accepted, NEW q \in here
          PROVE  <<p, q>> \notin Overlaps /\ <<q, p>> \notin Overlaps
      BY <2>3, <2>4, <2>5
    <2>8. ASSUME NEW p \in accepted, NEW q \in accepted, p # q
          PROVE  <<p, q>> \notin Overlaps
      <3>1. PICK i \in DOMAIN control.batch : control.batch[i] = p BY <2>4
      <3>2. PICK j \in DOMAIN control.batch : control.batch[j] = q BY <2>4
      <3>3. i # j BY <2>8, <3>1, <3>2
      <3>4. CASE j < i
        <4>1. j \in 1..(i - 1) BY <2>6, <3>4
        <4> QED BY <2>3, <3>1, <3>2, <4>1
      <3>5. CASE i < j
        <4>1. i \in 1..(j - 1) BY <2>6, <3>5
        <4>2. <<q, p>> \notin Overlaps BY <2>3, <3>1, <3>2, <4>1
        <4> QED BY <2>5, <4>2
      <3> QED BY <2>6, <3>3, <3>4, <3>5
    <2>9. Compatible(here \cup accepted) BY <2>2, <2>7, <2>8 DEF Compatible
    <2>10. Compatible(Claimants') BY <2>1, <2>9, CompatibleLess
    <2> QED BY <2>10 DEF Compatible
  <1>8. ASSUME control' = Installing(control.batch)
        PROVE  ControlInv'
    <2>1. control'.at = "Installing" /\ control'.batch = control.batch BY <1>8 DEF Installing
    <2>2. ControlSound' BY <2>1 DEF ControlSound
    <2>3. ConfiguredSound' BY <1>1, <1>3, <1>5, ConfiguredKept DEF IInv, ControlInv
    <2>4. BatchSound(control.batch)' BY <1>3, <1>5, <2>1 DEF BatchSound
    <2>5. \A o \in Owners : state'[o] # "Preparing" BY <1>3, <1>5
    <2>6. InstallingSound'
      BY <1>5, <1>6, <1>8, <2>1, <2>4, <2>5 DEF InstallingSound, BatchSound
    <2> QED BY <2>1, <2>2, <2>3, <2>6
          DEF ControlInv, StartingSound, PlanningSound, PatchSound, RestingSound, AnswersSound, Starting
  <1>9. ControlInv'
    <2>1. control' = Installing(control.batch) \/ control' = Ended("Policy") BY <1>1 DEF Onward
    <2>2. control' = Ended("Policy") => ControlInv' BY <1>1, <1>3, <1>5, OnwardStep
    <2> QED BY <1>8, <2>1, <2>2
  <1> QED BY <1>5, <1>7, <1>9 DEF IInv

(* What rejects an owner while the batch is being installed. *)
LEMMA RejectStep ==
    ASSUME IInv, NEW p \in Owners, control.at \in {"Installing", "Prepared"},
           state[p] \in {"Planning", "Preparing"}, p \notin exposed,
           \A o \in Owners : state[o] = "Preparing" => o = p,
           Reject(p, Installing(control.batch)),
           bound' \subseteq bound \cup {s \in Pairs : state[s[2]] = "Installed" /\ s[2] \in published}
    PROVE  IInv'
  <1>1. /\ control # Starting /\ BatchSound(control.batch) /\ ToInstall \subseteq planned
    BY DEF Starting, IInv, ControlInv, InstallingSound, PatchSound
  <1>2. /\ Release({p}) /\ DestroyHandlers({p}) /\ Onward({p}, Installing(control.batch))
        /\ UNCHANGED <<loaded, seen, settings, selection, exposed, told>>
    BY DEF Reject
  <1>3. fatal' \in BOOLEAN BY <1>2 DEF Onward, IInv, OwnersInv, Shapes
  <1>4. /\ OwnersInv' /\ Moved
        /\ ToInstall' = ToInstall \ {p}
        /\ \A o \in Owners : state'[o] = IF o = p THEN "Failed" ELSE state[o]
        /\ planned' = planned \ {p}
    BY <1>2, <1>3, DestroyedStep, ReleaseStep DEF IInv, OwnersInv
  <1>5. Compatible(Claimants)'
    <2>1. \A o \in Owners : state'[o] = "Planning" => o \in Claimants
      BY <1>4 DEF Claimants, Accepting
    <2>2. \A o \in Owners : state'[o] \in Running => state[o] \in Running
      BY <1>4 DEF Running
    <2> QED BY <2>1, <2>2, ClaimantsFewer DEF IInv
  <1>6. ASSUME control' = Installing(control.batch)
        PROVE  ControlInv'
    <2>1. control'.at = "Installing" /\ control'.batch = control.batch BY <1>6 DEF Installing
    <2>2. ControlSound' BY <2>1 DEF ControlSound
    <2>3. ConfiguredSound' BY <1>1, <1>2, <1>4, ConfiguredKept DEF IInv, ControlInv
    <2>4. BatchSound(control.batch)' BY <1>1, <1>4, <2>1 DEF BatchSound
    <2>5. InstallingSound'
      BY <1>1, <1>4, <1>6, <2>1, <2>4 DEF InstallingSound
    <2> QED BY <2>1, <2>2, <2>3, <2>5
          DEF ControlInv, StartingSound, PlanningSound, PatchSound, RestingSound, AnswersSound, Starting
  <1>7. ControlInv'
    <2>1. control' = Installing(control.batch) \/ control' = Ended("Policy") BY <1>2 DEF Onward
    <2>2. control' = Ended("Policy") => ControlInv' BY <1>1, <1>2, <1>4, OnwardStep
    <2> QED BY <1>6, <2>1, <2>2
  <1> QED BY <1>4, <1>5, <1>7 DEF IInv

LEMMA PreparePatchStep ==
    ASSUME IInv, PreparePatch
    PROVE  IInv'
  <1>1. PICK p \in Owners :
          /\ control.at = "Installing" /\ Turn(p, ToInstall)
          /\ \/ /\ ~ProvidersInstalled(p)
                /\ Reject(p, control) /\ UNCHANGED bound
             \/ /\ ProvidersInstalled(p)
                /\ \E tables \in SUBSET Available(p) : bound' = bound \cup ({p} \X tables)
                /\ \/ Reject(p, control)
                   \/ /\ state' = [state EXCEPT ![p] = "Preparing"]
                      /\ published' \in {published, published \cup ({p} \cap Patches)}
                      /\ \E wanted \in SUBSET (IF p \in Patches THEN Interests[p] ELSE {}) :
                           pending' = pending \cup ({p} \X wanted)
                      /\ control' = Prepared(p, control.batch)
                      /\ UNCHANGED <<loaded, seen, settings, selection, fatal, handler, planned, exposed, told>>
    BY DEF PreparePatch
  <1>2. /\ control # Starting /\ control = Installing(control.batch) /\ BatchSound(control.batch)
        /\ ToInstall \subseteq planned
        /\ \A o \in Owners : state[o] # "Preparing"
    BY <1>1 DEF Starting, IInv, ControlInv, InstallingSound
  <1>3. state[p] = "Planning" /\ p \in planned /\ p \notin exposed /\ p \notin published
    BY <1>1, <1>2, TurnStep DEF ToInstall, IInv, OwnersInv, OwnersSound, OwnerSound, Running
  <1>4. ASSUME NEW tables \in SUBSET Available(p)
        PROVE  {p} \X tables \subseteq {s \in Pairs : state[s[2]] = "Installed" /\ s[2] \in published}
    <2>1. Available(p) \subseteq Patches
      BY DEF Available, ProvidersOf, IInv, OwnersInv, Shapes
    <2>2. Available(p) # {} => p \in Patches BY DEF Available, ProvidersOf
    <2> QED BY <2>1, <2>2 DEF Available, Pairs
  <1>5. bound' \subseteq bound \cup {s \in Pairs : state[s[2]] = "Installed" /\ s[2] \in published}
    BY <1>1, <1>4
  <1>6. CASE Reject(p, control)
    BY <1>1, <1>2, <1>3, <1>5, <1>6, RejectStep
  <1>7. CASE /\ ProvidersInstalled(p)
             /\ state' = [state EXCEPT ![p] = "Preparing"]
             /\ published' \in {published, published \cup ({p} \cap Patches)}
             /\ \E wanted \in SUBSET (IF p \in Patches THEN Interests[p] ELSE {}) :
                  pending' = pending \cup ({p} \X wanted)
             /\ control' = Prepared(p, control.batch)
             /\ UNCHANGED <<loaded, seen, settings, selection, fatal, handler, planned, exposed, told>>
    <2>1. /\ state' \in [Owners -> PatchStates]
          /\ \A o \in Owners : state'[o] = IF o = p THEN "Preparing" ELSE state[o]
      BY <1>7 DEF IInv, OwnersInv, Shapes, PatchStates
    <2>2. /\ pending' \subseteq Pairs
          /\ \A s \in pending' : s \in pending \/ s[1] = p
      <3>1. PICK wanted \in SUBSET (IF p \in Patches THEN Interests[p] ELSE {}) :
                  pending' = pending \cup ({p} \X wanted)
        BY <1>7
      <3>2. {p} \X wanted \subseteq Pairs
        <4>1. CASE p \in Patches
          <5>1. wanted \subseteq Patches BY <3>1, <4>1, LifecycleAssumption
          <5> QED BY <4>1, <5>1 DEF Pairs
        <4>2. CASE p \notin Patches
          <5>1. wanted = {} BY <4>2
          <5> QED BY <5>1
        <4> QED BY <4>1, <4>2
      <3> QED BY <3>1, <3>2 DEF IInv, OwnersInv, Shapes
    <2>3. Shapes' BY <1>5, <1>7, <2>1, <2>2 DEF IInv, OwnersInv, Shapes, selection
    <2>4. Moved BY <1>3, <2>1 DEF Moved
    <2>5. OwnersSound'
      <3> SUFFICES ASSUME NEW o \in Owners PROVE OwnerSound(o)' BY DEF OwnersSound
      <3>1. OwnerSound(o) BY DEF IInv, OwnersInv, OwnersSound
      <3>2. CASE o = p BY <1>3, <1>7, <2>1, <3>2 DEF OwnerSound, Going, Running
      <3>3. CASE o # p
        <4>1. o \in published' => o \in published BY <1>7, <3>3
        <4> QED BY <1>7, <2>1, <3>1, <3>3, <4>1 DEF OwnerSound
      <3> QED BY <3>2, <3>3
    <2>6. PairsSound'
      <3>1. ASSUME NEW s \in pending' PROVE state'[s[1]] \in Running
        <4>1. s[1] \in Owners BY <2>2, <3>1 DEF Pairs, Owners
        <4>2. s[1] = p \/ state[s[1]] \in Running BY <2>2, <3>1 DEF IInv, OwnersInv, PairsSound
        <4> QED BY <2>1, <4>1, <4>2 DEF Running
      <3>2. ASSUME NEW s \in bound' \cup told' PROVE state'[s[2]] = "Installed" /\ s[2] \in published'
        <4>1. state[s[2]] = "Installed" /\ s[2] \in published /\ s[2] \in Owners
          BY <1>5, <1>7, <3>2 DEF IInv, OwnersInv, PairsSound, Shapes, Pairs, Owners
        <4> QED BY <1>3, <1>7, <2>1, <4>1
      <3> QED BY <3>1, <3>2 DEF PairsSound
    <2>7. ProvidersSound'
      <3> SUFFICES ASSUME NEW r \in Patches, state'[r] \in Running, NEW q \in providers'[r]
                   PROVE  state'[q] = "Installed"
        BY DEF ProvidersSound
      <3>1. q \in providers[r] /\ q \in Owners /\ r \in Owners
        BY <1>7 DEF selection, IInv, OwnersInv, Shapes, Owners
      <3>2. state[q] = "Installed"
        BY <1>7, <2>1, <3>1 DEF ProvidersInstalled, ProvidersOf, IInv, OwnersInv, ProvidersSound
      <3> QED BY <1>3, <2>1, <3>1, <3>2
    <2>8. WaitsSound' BY <1>7, <2>4, WaitsKept DEF IInv, OwnersInv
    <2>9. Compatible(Claimants)'
      <3>1. p \in Claimants /\ \A o \in Owners : state[o] = "Planning" => o \in Claimants
        BY <1>1, <1>3 DEF Claimants, Accepting
      <3>2. \A o \in Owners : state'[o] \in Running => state[o] \in Running \/ o \in Claimants
        BY <2>1, <3>1
      <3>3. \A o \in Owners : state'[o] = "Planning" => o \in Claimants
        BY <2>1, <3>1
      <3> QED BY <3>2, <3>3, ClaimantsFewer DEF IInv
    <2>10. ControlInv'
      <3>1. /\ control'.at = "Prepared" /\ control'.patch = p /\ control'.batch = control.batch
        BY <1>7 DEF Prepared
      <3>2. ControlSound' BY <3>1 DEF ControlSound
      <3>3. ConfiguredSound' BY <1>2, <1>7, <2>4, ConfiguredKept DEF IInv, ControlInv
      <3>4. ToInstall' \subseteq ToInstall BY <2>1 DEF ToInstall
      <3>5. BatchSound(control.batch)' BY <1>2, <3>1, <3>4 DEF BatchSound
      <3>6. \A o \in Owners : state'[o] = "Preparing" <=> o = p BY <1>2, <2>1
      <3>7. PatchSound'
        BY <1>2, <1>3, <1>7, <3>1, <3>4, <3>5, <3>6 DEF PatchSound
      <3> QED BY <3>1, <3>2, <3>3, <3>7
            DEF ControlInv, StartingSound, PlanningSound, InstallingSound, RestingSound, AnswersSound, Starting
    <2> QED BY <2>3, <2>5, <2>6, <2>7, <2>8, <2>9, <2>10 DEF IInv, OwnersInv
  <1> QED BY <1>1, <1>6, <1>7

LEMMA InstallPatchStep ==
    ASSUME IInv, InstallPatch
    PROVE  IInv'
  <1> DEFINE p == control.patch
  <1>1. /\ control.at = "Prepared"
        /\ \/ Reject(p, Installing(control.batch)) /\ UNCHANGED bound
           \/ /\ exposed' = exposed \cup {p}
              /\ control' \in {Activating(p, control.batch), Ended("Unsafe")}
              /\ UNCHANGED <<loaded, seen, settings, state, selection, fatal, handler, planned, apis>>
    BY DEF InstallPatch
  <1>2. /\ control # Starting /\ BatchSound(control.batch)
        /\ p \in Owners /\ ToInstall \subseteq planned /\ p \notin exposed
        /\ \A o \in Owners : state[o] = "Preparing" <=> o = p
    BY <1>1 DEF Starting, IInv, ControlInv, PatchSound
  <1> HIDE DEF p
  <1>3. CASE Reject(p, Installing(control.batch)) /\ UNCHANGED bound
    BY <1>1, <1>2, <1>3, RejectStep
  <1>4. CASE /\ exposed' = exposed \cup {p}
             /\ control' \in {Activating(p, control.batch), Ended("Unsafe")}
             /\ UNCHANGED <<loaded, seen, settings, state, selection, fatal, handler, planned, apis>>
    <2>1. Shapes' BY <1>2, <1>4 DEF IInv, OwnersInv, Shapes, selection, apis
    <2>2. OwnersSound'
      <3> SUFFICES ASSUME NEW o \in Owners PROVE OwnerSound(o)' BY DEF OwnersSound
      <3>1. OwnerSound(o) BY DEF IInv, OwnersInv, OwnersSound
      <3> QED BY <1>2, <1>4, <3>1 DEF OwnerSound, Running, apis
    <2>3. PairsSound' /\ ProvidersSound' /\ WaitsSound'
      BY <1>4 DEF IInv, OwnersInv, PairsSound, ProvidersSound, WaitsSound, apis, selection, Selection
    <2>4. Moved BY <1>4 DEF Moved
    <2>5. Compatible(Claimants)'
      <3>1. \A o \in Owners : state'[o] \in Running => state[o] \in Running BY <1>4
      <3>2. \A o \in Owners : state'[o] = "Planning" => o \in Claimants
        BY <1>1, <1>4 DEF Claimants, Accepting
      <3> QED BY <3>1, <3>2, ClaimantsFewer DEF IInv
    <2>6. ASSUME control' = Activating(p, control.batch)
          PROVE  ControlInv'
      <3>1. /\ control'.at = "Activating" /\ control'.patch = p /\ control'.batch = control.batch
        BY <2>6 DEF Activating
      <3>2. ControlSound' BY <3>1 DEF ControlSound
      <3>3. ConfiguredSound' BY <1>2, <1>4, <2>4, ConfiguredKept DEF IInv, ControlInv
      <3>4. ToInstall' = ToInstall BY <1>4 DEF ToInstall
      <3>5. BatchSound(control.batch)' BY <1>2, <3>1, <3>4 DEF BatchSound
      <3>6. PatchSound' BY <1>2, <1>4, <2>6, <3>1, <3>4, <3>5 DEF PatchSound
      <3> QED BY <3>1, <3>2, <3>3, <3>6
            DEF ControlInv, StartingSound, PlanningSound, InstallingSound, RestingSound, AnswersSound, Starting
    <2>7. control' = Ended("Unsafe") => ControlInv'
      BY <1>2, <1>4, <2>4, EndedStep DEF IInv, ControlInv
    <2>8. ControlInv' BY <1>4, <2>6, <2>7
    <2> QED BY <2>1, <2>2, <2>3, <2>5, <2>8 DEF IInv, OwnersInv
  <1> QED BY <1>1, <1>3, <1>4

LEMMA ActivatePatchStep ==
    ASSUME IInv, ActivatePatch
    PROVE  IInv'
  <1> DEFINE p == control.patch
  <1>1. /\ control.at = "Activating"
        /\ \/ /\ state' = [state EXCEPT ![p] = "Installed"]
              /\ control' = Installing(control.batch)
           \/ control' = Ended("Unsafe") /\ UNCHANGED state
        /\ UNCHANGED <<loaded, seen, settings, selection, fatal, handler, planned, exposed, apis>>
    BY DEF ActivatePatch
  <1>2. /\ control # Starting /\ BatchSound(control.batch)
        /\ p \in Owners /\ ToInstall \subseteq planned
        /\ \A o \in Owners : state[o] = "Preparing" <=> o = p
    BY <1>1 DEF Starting, IInv, ControlInv, PatchSound
  <1> HIDE DEF p
  <1>3. /\ state' \in [Owners -> PatchStates]
        /\ \A o \in Owners : state'[o] = state[o] \/ (o = p /\ state'[o] = "Installed")
    BY <1>1, <1>2 DEF IInv, OwnersInv, Shapes, PatchStates
  <1>4. Moved BY <1>2, <1>3 DEF Moved
  <1>5. \A o \in Owners : /\ state'[o] \in Running <=> state[o] \in Running
                          /\ state[o] = "Installed" => state'[o] = "Installed"
                          /\ state'[o] = "Planning" <=> state[o] = "Planning"
    BY <1>2, <1>3 DEF Running
  <1>6. Shapes' BY <1>1, <1>3 DEF IInv, OwnersInv, Shapes, selection, apis
  <1>7. OwnersSound'
    <2> SUFFICES ASSUME NEW o \in Owners PROVE OwnerSound(o)' BY DEF OwnersSound
    <2>1. OwnerSound(o) BY DEF IInv, OwnersInv, OwnersSound
    <2> QED BY <1>1, <1>2, <1>3, <1>5, <2>1 DEF OwnerSound, Going, Running, apis
  <1>8. PairsSound'
    <2>1. ASSUME NEW s \in pending PROVE state'[s[1]] \in Running
      <3>1. s[1] \in Owners BY DEF IInv, OwnersInv, Shapes, Pairs, Owners
      <3> QED BY <1>5, <3>1 DEF IInv, OwnersInv, PairsSound
    <2>2. ASSUME NEW s \in bound \cup told PROVE state'[s[2]] = "Installed" /\ s[2] \in published
      <3>1. s[2] \in Owners BY DEF IInv, OwnersInv, Shapes, Pairs, Owners
      <3> QED BY <1>5, <3>1 DEF IInv, OwnersInv, PairsSound
    <2> QED BY <1>1, <2>1, <2>2 DEF PairsSound, apis
  <1>9. ProvidersSound'
    <2> SUFFICES ASSUME NEW r \in Patches, state'[r] \in Running, NEW q \in providers'[r]
                 PROVE  state'[q] = "Installed"
      BY DEF ProvidersSound
    <2>1. q \in providers[r] /\ q \in Owners /\ r \in Owners
      BY <1>1 DEF selection, IInv, OwnersInv, Shapes, Owners
    <2>2. state[q] = "Installed"
      BY <1>5, <2>1 DEF IInv, OwnersInv, ProvidersSound
    <2> QED BY <1>5, <2>1, <2>2
  <1>10. WaitsSound' BY <1>1, <1>4, WaitsKept DEF IInv, OwnersInv
  <1>11. Compatible(Claimants)'
    <2>1. \A o \in Owners : state'[o] = "Planning" => o \in Claimants
      BY <1>1, <1>5 DEF Claimants, Accepting
    <2> QED BY <1>5, <2>1, ClaimantsFewer DEF IInv
  <1>12. ASSUME control' = Installing(control.batch), state' = [state EXCEPT ![p] = "Installed"]
         PROVE  ControlInv'
    <2>1. control'.at = "Installing" /\ control'.batch = control.batch BY <1>12 DEF Installing
    <2>2. ControlSound' BY <2>1 DEF ControlSound
    <2>3. ConfiguredSound' BY <1>1, <1>2, <1>4, ConfiguredKept DEF IInv, ControlInv
    <2>4. ToInstall' = ToInstall BY <1>5 DEF ToInstall
    <2>5. BatchSound(control.batch)' BY <1>2, <2>1, <2>4 DEF BatchSound
    <2>6. \A o \in Owners : state'[o] # "Preparing"
      BY <1>2, <1>12 DEF IInv, OwnersInv, Shapes
    <2>7. InstallingSound' BY <1>1, <1>2, <1>12, <2>1, <2>4, <2>5, <2>6 DEF InstallingSound
    <2> QED BY <2>1, <2>2, <2>3, <2>7
          DEF ControlInv, StartingSound, PlanningSound, PatchSound, RestingSound, AnswersSound, Starting
  <1>13. control' = Ended("Unsafe") => ControlInv'
    BY <1>1, <1>2, <1>4, EndedStep DEF IInv, ControlInv
  <1>14. ControlInv' BY <1>1, <1>12, <1>13
  <1> QED BY <1>6, <1>7, <1>8, <1>9, <1>10, <1>11, <1>14 DEF IInv, OwnersInv

-----------------------------------------------------------------------------
(* Steps between batches. *)

(* What a refresh leaves of the owners: who ran still does, and who has to *)
(* wait knows why.                                                         *)
LEMMA RefreshKeeps ==
    ASSUME IInv, control.at \notin {"Planning", "Prepared", "Activating", "Ended"},
           \A o \in Owners : state[o] \notin {"Planning", "Preparing"},
           NEW images, NEW observers, RefreshSelection(images, observers),
           images = seen', seen' \in [Images -> Outcomes],
           ~observers => images = seen,
           UNCHANGED <<loaded, settings, handler, planned, exposed, apis>>
    PROVE  /\ OwnersInv'
           /\ \A o \in Owners : /\ state[o] \in {"Installed", "Failed"} => state'[o] = state[o]
                                /\ state'[o] # "Preparing"
                                /\ state'[o] = "Installed" => state[o] = "Installed"
           /\ \A p \in Patches : state'[p] = "Disabled" => settings'[p] # "Enabled" \/ state[p] = "Disabled"
           /\ \A p \in Patches : RefreshedSound(p, images)
           /\ ~observers => \A o \in Observers : state'[o] = state[o]
  <1>1. /\ providers' \in [Patches -> SUBSET Patches]
        /\ chosen' \subseteq Patches /\ selected' \subseteq Patches /\ fatal' \in BOOLEAN
        /\ \A p \in Patches : RefreshedSound(p, images)
    BY RefreshStep DEF IInv, OwnersInv
  <1>2. /\ \A o \in Observers : state'[o] = IF observers THEN Observed(o, images) ELSE state[o]
        /\ DOMAIN state' = Owners /\ state' = [o \in Owners |-> state'[o]]
    BY LifecycleAssumption DEF RefreshSelection, Owners
  <1>3. \A o \in Observers :
           /\ Kept(o) => state'[o] = state[o]
           /\ ~Kept(o) => state'[o] \in {"Disabled", "Waiting", "Planning"}
           /\ state'[o] = "Waiting" /\ observers => \E i \in Needs[o] : images[i] = "Absent"
    <2> SUFFICES ASSUME NEW o \in Observers
                 PROVE  /\ Kept(o) => state'[o] = state[o]
                        /\ ~Kept(o) => state'[o] \in {"Disabled", "Waiting", "Planning"}
                        /\ state'[o] = "Waiting" /\ observers => \E i \in Needs[o] : images[i] = "Absent"
      OBVIOUS
    <2>1. o \in Owners BY DEF Owners
    <2>2. state[o] \in PatchStates /\ state[o] \notin {"Planning", "Preparing"}
      BY <2>1 DEF IInv, OwnersInv, Shapes
    <2>3. Selection(o, images) \in {"Unavailable", "Waiting", "Ready"} BY DEF Selection
    <2>4. Selection(o, images) = "Waiting" => \E i \in Needs[o] : images[i] = "Absent"
      BY <2>1, SelectionWaits
    <2>5. CASE observers
      BY <1>2, <2>2, <2>3, <2>4, <2>5 DEF Observed, Kept, PatchStates
    <2>6. CASE ~observers
      BY <1>2, <2>2, <2>6 DEF Kept, PatchStates
    <2> QED BY <2>5, <2>6
  <1>4. \A o \in Owners :
           /\ state'[o] \in PatchStates \ {"Preparing"}
           /\ state[o] \in {"Installed", "Failed"} => state'[o] = state[o]
           /\ state[o] \notin {"Installed", "Failed"} => state'[o] \in {"Disabled", "Failed", "Waiting", "Planning"}
    <2>1. \A p \in Patches :
             /\ state'[p] \in PatchStates \ {"Preparing"}
             /\ state[p] \in {"Installed", "Failed"} => state'[p] = state[p]
             /\ state[p] \notin {"Installed", "Failed"} => state'[p] \in {"Disabled", "Failed", "Waiting", "Planning"}
      BY <1>1 DEF RefreshedSound, Kept
    <2>2. \A o \in Observers : state[o] \in PatchStates /\ state[o] # "Preparing"
      BY DEF IInv, OwnersInv, Shapes, Owners
    <2> QED BY <1>3, <2>1, <2>2 DEF Owners, Kept, PatchStates
  <1>5. Shapes'
    <2>1. state' \in [Owners -> PatchStates] BY <1>2, <1>4
    <2> QED BY <1>1, <2>1 DEF IInv, OwnersInv, Shapes, apis
  <1>6. OwnersSound'
    <2> SUFFICES ASSUME NEW o \in Owners PROVE OwnerSound(o)' BY DEF OwnersSound
    <2>1. OwnerSound(o) /\ state[o] \notin {"Planning", "Preparing"} BY DEF IInv, OwnersInv, OwnersSound
    <2> QED BY <1>4, <2>1 DEF OwnerSound, Going, Running, apis
  <1>7. PairsSound'
    <2>1. ASSUME NEW s \in pending PROVE state'[s[1]] \in Running
      <3>1. s[1] \in Owners /\ state[s[1]] = "Installed"
        BY DEF IInv, OwnersInv, Shapes, PairsSound, Pairs, Owners, Running
      <3> QED BY <1>4, <3>1 DEF Running
    <2>2. ASSUME NEW s \in bound \cup told PROVE state'[s[2]] = "Installed" /\ s[2] \in published
      <3>1. s[2] \in Owners /\ state[s[2]] = "Installed" /\ s[2] \in published
        BY DEF IInv, OwnersInv, Shapes, PairsSound, Pairs, Owners
      <3> QED BY <1>4, <3>1
    <2> QED BY <2>1, <2>2 DEF PairsSound, apis
  <1>8. ProvidersSound'
    <2> SUFFICES ASSUME NEW p \in Patches, state'[p] \in Running, NEW q \in providers'[p]
                 PROVE  state'[q] = "Installed"
      BY DEF ProvidersSound
    <2>1. p \in Owners BY DEF Owners
    <2>2. state[p] = "Installed" BY <1>4, <2>1 DEF Running
    <2>3. providers'[p] = providers[p] BY <1>1, <2>2 DEF RefreshedSound, Kept
    <2>4. q \in Owners /\ state[q] = "Installed"
      BY <2>2, <2>3 DEF IInv, OwnersInv, Shapes, ProvidersSound, Running, Owners
    <2> QED BY <1>4, <2>4
  <1>9. WaitsSound'
    <2>1. ASSUME NEW o \in Observers, state'[o] = "Waiting"
          PROVE  \E i \in Needs[o] : seen'[i] = "Absent"
      <3>1. CASE observers BY <1>3, <2>1, <3>1
      <3>2. CASE ~observers
        <4>1. state[o] = "Waiting" BY <1>2, <2>1, <3>2
        <4> QED BY <3>2, <4>1 DEF IInv, OwnersInv, WaitsSound
      <3> QED BY <3>1, <3>2
    <2>2. ASSUME NEW p \in Patches, state'[p] = "Waiting", Selection(p, seen') = "Ready"
          PROVE  \E q \in Needed(p) : state'[q] \notin Going
      <3>1. PICK q \in Needed(p) : state'[q] \notin {"Planning", "Installed"}
        BY <1>1, <2>2 DEF RefreshedSound
      <3>2. q \in Owners BY NeededPatches
      <3> QED BY <1>4, <3>1, <3>2 DEF Going
    <2>3. (\A o \in Observers : state[o] = "Waiting" => \E i \in Needs[o] : seen[i] = "Absent")'
      BY <2>1
    <2>4. (\A p \in Patches : state[p] = "Waiting" /\ Selection(p, seen) = "Ready" =>
             \E q \in Needed(p) : state[q] \notin Going)'
      BY <2>2
    <2> QED BY <2>3, <2>4 DEF WaitsSound
  <1>10. \A p \in Patches : state'[p] = "Disabled" => settings'[p] # "Enabled" \/ state[p] = "Disabled"
    BY <1>1 DEF RefreshedSound, Kept
  <1> QED BY <1>1, <1>2, <1>4, <1>5, <1>6, <1>7, <1>8, <1>9, <1>10 DEF OwnersInv

LEMMA ClaimantsInstalled ==
    ASSUME IInv, \A o \in Owners : state'[o] = "Installed" => state[o] = "Installed",
           \A o \in Owners : state'[o] # "Preparing",
           control'.at \in Accepting => \A o \in Owners : state'[o] # "Planning"
    PROVE  Compatible(Claimants)'
  <1>1. Claimants' \subseteq Claimants
    BY DEF Claimants, Running
  <1> QED BY <1>1, CompatibleLess DEF IInv

(* A batch is all that is ready. *)
LEMMA CollectStep ==
    ASSUME Collect, \A o \in Owners : state'[o] # "Preparing",
           \A p \in Patches : state'[p] = "Disabled" => settings'[p] # "Enabled"
    PROVE  ControlInv' /\ control'.at \in {"Planning", "Ended"}
  <1> DEFINE ready == {o \in Owners : state'[o] = "Planning"}
             batch == Batch(state', providers')
  <1>1. CASE batch \in SetToSeqs(ready)
    <2>1. control' = Planning(batch) BY <1>1 DEF Collect
    <2>2. IsFiniteSet(ready)
      <3>1. ready \in SUBSET Owners /\ IsFiniteSet(Owners) BY LifecycleAssumption
      <3> QED BY <3>1, FS_Subset
    <2> DEFINE n == Cardinality(ready)
    <2>3. n \in Nat BY <2>2, FS_CardinalityType
    <2>4. batch \in [1..n -> ready] /\ \A i, j \in 1..n : i # j => batch[i] # batch[j]
      BY <1>1 DEF SetToSeqs
    <2> HIDE DEF batch
    <2>5. \A o \in ready : \E i \in 1..n : batch[i] = o
      <3> HIDE DEF ready, n
      <3>1. batch \in Injection(1..n, ready)
        BY <2>4 DEF Injection, IsInjective
      <3>2. Cardinality(1..n) = n
        <4>1. Cardinality(1..n) = IF 1 > n THEN 0 ELSE n - 1 + 1
          BY <2>3, FS_Interval
        <4> QED BY <2>3, <4>1
      <3>3. Cardinality(1..n) = Cardinality(ready) BY <3>2 DEF n
      <3>4. batch \in Surjection(1..n, ready) BY <2>2, <3>1, <3>3, FS_Injection
      <3> QED BY <3>4 DEF Surjection
    <2>6. batch \in Seq(Owners) /\ ready \subseteq ToSet(batch)
      <3>1. ready \subseteq Owners OBVIOUS
      <3> HIDE DEF ready, n
      <3>2. DOMAIN batch = 1..n BY <2>4
      <3>3. batch \in [1..n -> Owners] BY <2>4, <3>1
      <3>4. batch \in Seq(Owners) BY <2>3, <3>3
      <3> QED BY <2>5, <3>2, <3>4 DEF ToSet
    <2>7. control'.at = "Planning" /\ control'.batch = batch BY <2>1 DEF Planning
    <2>8. ToInstall' = ready BY DEF ToInstall
    <2>9. PlanningSound'
      <3>1. (control = Planning(control.batch))' BY <2>1, <2>7
      <3>2. BatchSound(control.batch)' BY <2>6, <2>7, <2>8 DEF BatchSound
      <3> QED BY <3>1, <3>2 DEF PlanningSound
    <2>10. ConfiguredSound' BY DEF ConfiguredSound
    <2>11. ControlSound' BY <2>7 DEF ControlSound
    <2> QED BY <2>7, <2>9, <2>10, <2>11
          DEF ControlInv, StartingSound, InstallingSound, PatchSound, RestingSound, AnswersSound, Starting
  <1>2. CASE batch \notin SetToSeqs(ready)
    <2>1. control' = Ended("Cycle") BY <1>2 DEF Collect
    <2>2. control'.at = "Ended" BY <2>1 DEF Ended
    <2>3. ControlSound' BY <2>1 DEF ControlSound
    <2> QED BY <2>2, <2>3
          DEF ControlInv, StartingSound, ConfiguredSound, PlanningSound, InstallingSound, PatchSound,
              RestingSound, AnswersSound, Starting
  <1> QED BY <1>1, <1>2

LEMMA StartStep ==
    ASSUME IInv, Start
    PROVE  IInv'
  <1>1. /\ control = Starting /\ RefreshSelection(seen, TRUE)
        /\ IF fatal' THEN control' = Ended("Policy") ELSE Collect
        /\ UNCHANGED <<loaded, seen, settings, handler, planned, exposed, apis>>
    BY DEF Start
  <1>2. \A o \in Owners : state[o] = "Disabled" BY <1>1 DEF IInv, ControlInv, StartingSound
  <1>3. control.at = "Starting" BY <1>1 DEF Starting
  <1>4. seen' = seen /\ seen \in [Images -> Outcomes] BY <1>1 DEF IInv, OwnersInv, Shapes
  <1>5. /\ OwnersInv'
        /\ \A o \in Owners : /\ state'[o] # "Preparing"
                             /\ state'[o] = "Installed" => state[o] = "Installed"
        /\ \A p \in Patches : RefreshedSound(p, seen)
    BY <1>1, <1>2, <1>3, <1>4, RefreshKeeps
  <1>6. \A p \in Patches : state'[p] = "Disabled" => settings'[p] # "Enabled"
    BY <1>1, <1>2, <1>5 DEF RefreshedSound, Kept, Owners
  <1>7. ControlInv' /\ control'.at \in {"Planning", "Ended"}
    <2>1. CASE fatal'
      <3>1. control' = Ended("Policy") BY <1>1, <2>1
      <3>2. control'.at = "Ended" BY <3>1 DEF Ended
      <3>3. ControlSound' BY <3>1 DEF ControlSound
      <3>4. ConfiguredSound' BY <1>6 DEF ConfiguredSound
      <3> QED BY <3>2, <3>3, <3>4
            DEF ControlInv, StartingSound, PlanningSound, InstallingSound, PatchSound, RestingSound,
                AnswersSound, Starting
    <2>2. CASE ~fatal'
      <3>1. Collect BY <1>1, <2>2
      <3> QED BY <1>5, <1>6, <3>1, CollectStep
    <2> QED BY <2>1, <2>2
  <1>8. Compatible(Claimants)' BY <1>5, <1>7, ClaimantsInstalled DEF Accepting
  <1> QED BY <1>5, <1>7, <1>8 DEF IInv

LEMMA ScanStep ==
    ASSUME IInv, Scan
    PROVE  IInv'
  <1>1. /\ control = Idle
        /\ \E arrived \in SUBSET Images :
              seen' = [i \in Images |-> IF i \in arrived THEN loaded[i] ELSE seen[i]]
        /\ RefreshSelection(seen', TRUE) /\ Collect
        /\ UNCHANGED <<loaded, settings, handler, planned, exposed, apis>>
    <2>1. {i \in Awaited : loaded[i] # "Absent"} \subseteq Images BY DEF Awaited
    <2> QED BY <2>1 DEF Scan
  <1>2. control.at = "Idle" BY <1>1 DEF Idle
  <1>3. \A o \in Owners : state[o] \notin {"Planning", "Preparing"}
    BY <1>2 DEF IInv, ControlInv, RestingSound
  <1>4. seen' \in [Images -> Outcomes] BY <1>1 DEF IInv, OwnersInv, Shapes
  <1>5. /\ OwnersInv'
        /\ \A o \in Owners : /\ state'[o] # "Preparing"
                             /\ state'[o] = "Installed" => state[o] = "Installed"
        /\ \A p \in Patches : state'[p] = "Disabled" => settings'[p] # "Enabled" \/ state[p] = "Disabled"
    <2> DEFINE images == seen'
    <2> HIDE DEF images
    <2>1. RefreshSelection(images, TRUE) BY <1>1 DEF images
    <2>2. images = seen' BY DEF images
    <2> QED BY <1>1, <1>2, <1>3, <1>4, <2>1, <2>2, RefreshKeeps
  <1>6. \A p \in Patches : state'[p] = "Disabled" => settings'[p] # "Enabled"
    <2>1. control # Starting BY <1>2 DEF Starting
    <2> QED BY <1>1, <1>5, <2>1 DEF IInv, ControlInv, ConfiguredSound
  <1>7. ControlInv' /\ control'.at \in {"Planning", "Ended"}
    BY <1>1, <1>5, <1>6, CollectStep
  <1>8. Compatible(Claimants)' BY <1>5, <1>7, ClaimantsInstalled DEF Accepting
  <1> QED BY <1>5, <1>7, <1>8 DEF IInv

(* Looking at the same images again lets nothing go on. *)
LEMMA PropagateStep ==
    ASSUME IInv, Propagate
    PROVE  IInv'
  <1>1. /\ control.at = "Installing" /\ ToInstall = {}
        /\ RefreshSelection(seen, FALSE)
        /\ control' = IF fatal' THEN Ended("Policy") ELSE Notifying(Patches)
        /\ UNCHANGED <<loaded, seen, settings, handler, planned, exposed, apis>>
    BY DEF Propagate
  <1>2. control # Starting /\ \A o \in Owners : state[o] \notin {"Planning", "Preparing"}
    BY <1>1 DEF ToInstall, Starting, IInv, ControlInv, InstallingSound
  <1>3. seen' = seen /\ seen \in [Images -> Outcomes] BY <1>1 DEF IInv, OwnersInv, Shapes
  <1>4. /\ OwnersInv'
        /\ \A o \in Owners : /\ state'[o] # "Preparing"
                             /\ state'[o] = "Installed" => state[o] = "Installed"
        /\ \A p \in Patches : state'[p] = "Disabled" => settings'[p] # "Enabled" \/ state[p] = "Disabled"
        /\ \A p \in Patches : RefreshedSound(p, seen)
        /\ \A o \in Observers : state'[o] = state[o]
    BY <1>1, <1>2, <1>3, RefreshKeeps
  <1>5. \A p \in Patches : state'[p] = "Disabled" => settings'[p] # "Enabled"
    BY <1>1, <1>2, <1>4 DEF IInv, ControlInv, ConfiguredSound
  <1>6. \A p \in Patches : ~Kept(p) /\ settings[p] = "Enabled" /\ Selection(p, seen) = "Ready" =>
           \E q \in Needed(p) : state[q] # "Installed"
    <2> SUFFICES ASSUME NEW p \in Patches, ~Kept(p), settings[p] = "Enabled", Selection(p, seen) = "Ready"
                 PROVE  \E q \in Needed(p) : state[q] # "Installed"
      OBVIOUS
    <2>1. state[p] # "Disabled" BY <1>2 DEF IInv, ControlInv, ConfiguredSound
    <2>2. state[p] = "Waiting"
      BY <1>2, <2>1 DEF Kept, Owners, IInv, OwnersInv, Shapes, PatchStates
    <2> QED BY <2>2 DEF IInv, OwnersInv, WaitsSound, Going
  <1>7. /\ \A p \in Patches : state'[p] # "Planning"
        /\ fatal' \in BOOLEAN
        /\ fatal' = FALSE => FatalFailures(state', selected', chosen') = {}
    BY <1>1, <1>2, <1>6, RefreshStep DEF IInv, OwnersInv
  <1>8. \A o \in Owners : state'[o] \notin {"Planning", "Preparing"}
    BY <1>2, <1>4, <1>7 DEF Owners
  <1>9. Compatible(Claimants)' BY <1>4, <1>8, ClaimantsInstalled
  <1>10. ASSUME NEW p \in Patches, state'[p] = "Waiting"
         PROVE  PatchWaits(p)'
    <2>1. /\ Selection(p, seen) \in {"Waiting", "Ready"}
          /\ \A q \in providers'[p] : state'[q] \in {"Waiting", "Planning", "Installed"}
          /\ Selection(p, seen) = "Ready" =>
                \E q \in providers'[p] : state'[q] \notin {"Planning", "Installed"}
      BY <1>4, <1>10 DEF RefreshedSound
    <2>2. providers'[p] \subseteq Owners
      BY <1>4 DEF OwnersInv, Shapes, Owners
    <2>3. \A q \in providers'[p] : state'[q] \in {"Waiting", "Installed"} BY <1>8, <2>1, <2>2
    <2>4. Selection(p, seen) = "Waiting" => \E i \in Needs[p] : seen'[i] = "Absent"
      <3>1. p \in Owners BY DEF Owners
      <3> QED BY <1>3, <3>1, SelectionWaits
    <2>5. Selection(p, seen) = "Ready" => \E q \in providers'[p] : state'[q] = "Waiting"
      BY <2>1, <2>3
    <2> QED BY <2>1, <2>3, <2>4, <2>5 DEF PatchWaits
  <1>11. ControlInv'
    <2>1. ConfiguredSound' BY <1>5 DEF ConfiguredSound
    <2>2. CASE fatal'
      <3>1. control' = Ended("Policy") BY <1>1, <2>2
      <3>2. control'.at = "Ended" BY <3>1 DEF Ended
      <3>3. ControlSound' BY <3>1 DEF ControlSound
      <3> QED BY <2>1, <3>2, <3>3
            DEF ControlInv, StartingSound, PlanningSound, InstallingSound, PatchSound, RestingSound,
                AnswersSound, Starting
    <2>3. CASE ~fatal'
      <3>1. control' = Notifying(Patches) BY <1>1, <2>3
      <3>2. control'.at = "Notifying" /\ control'.todo = Patches BY <3>1 DEF Notifying
      <3>3. ControlSound' BY <3>1, <3>2 DEF ControlSound
      <3>4. RestingSound' BY <1>7, <1>8, <1>10, <2>3 DEF RestingSound
      <3>5. AnswersSound'
        <4>1. \A s \in pending' : s[1] \in Patches BY <1>4 DEF OwnersInv, Shapes, Pairs
        <4> QED BY <3>2, <4>1 DEF AnswersSound
      <3> QED BY <2>1, <3>2, <3>3, <3>4, <3>5
            DEF ControlInv, StartingSound, PlanningSound, InstallingSound, PatchSound, Starting
    <2> QED BY <1>7, <2>2, <2>3
  <1> QED BY <1>4, <1>9, <1>11 DEF IInv

(* Between two batches: subscriptions are answered one consumer at a time. *)
LEMMA RestingStep ==
    ASSUME IInv, control.at = "Notifying", control'.at \in {"Notifying", "Idle"}, ControlSound',
           pending' \subseteq pending,
           told' \subseteq told \cup {s \in pending : state[s[2]] = "Installed" /\ s[2] \in published},
           \A s \in pending' : control'.at = "Notifying" /\ s[1] \notin control'.todo =>
              s[1] \notin control.todo \/ (state[s[1]] = "Installed" => state[s[2]] # "Installed"),
           control'.at = "Idle" => control.todo = {},
           UNCHANGED <<loaded, seen, settings, state, selection, fatal, handler, planned, exposed,
                       published, bound>>
    PROVE  IInv'
  <1>1. Shapes' BY DEF IInv, OwnersInv, Shapes, selection
  <1>2. OwnersSound' /\ ProvidersSound' /\ WaitsSound'
    BY DEF IInv, OwnersInv, OwnersSound, OwnerSound, ProvidersSound, WaitsSound, selection, Selection
  <1>3. PairsSound' BY DEF IInv, OwnersInv, PairsSound
  <1>4. Compatible(Claimants)'
    <2>1. Claimants' \subseteq Claimants BY DEF Claimants, Accepting
    <2> QED BY <2>1, CompatibleLess DEF IInv
  <1>5. control # Starting BY DEF Starting
  <1>6. ConfiguredSound' BY <1>5 DEF IInv, ControlInv, ConfiguredSound
  <1>7. RestingSound' BY DEF IInv, ControlInv, RestingSound, selection, PatchWaits
  <1>8. AnswersSound' BY DEF IInv, ControlInv, AnswersSound
  <1>9. ControlInv'
    BY <1>6, <1>7, <1>8
       DEF ControlInv, StartingSound, PlanningSound, InstallingSound, PatchSound, Starting
  <1> QED BY <1>1, <1>2, <1>3, <1>4, <1>9 DEF IInv, OwnersInv

LEMMA NotifyStep ==
    ASSUME IInv, NEW c \in Patches, Notify(c)
    PROVE  IInv'
  <1>1. /\ control.at = "Notifying" /\ c \in control.todo
        /\ control' = Notifying(control.todo \ {c})
        /\ IF state[c] = "Installed"
           THEN /\ pending' = pending \ Answered(c)
                /\ told' = told \cup {s \in Answered(c) : s[2] \in published}
           ELSE UNCHANGED <<pending, told>>
        /\ UNCHANGED <<loaded, seen, settings, state, selection, fatal, handler, planned, exposed,
                       published, bound>>
    BY DEF Notify
  <1>2. PICK todo \in SUBSET Patches : control = Notifying(todo)
    BY <1>1 DEF IInv, ControlInv, ControlSound, Starting, Idle, Ended
  <1>3. control.todo = todo BY <1>2 DEF Notifying
  <1>4. control'.at = "Notifying" /\ control'.todo = todo \ {c} BY <1>1, <1>3 DEF Notifying
  <1>5. ControlSound' BY <1>1, <1>3, <1>4 DEF ControlSound
  <1>6. /\ pending' \subseteq pending
        /\ told' \subseteq told \cup {s \in pending : state[s[2]] = "Installed" /\ s[2] \in published}
    BY <1>1 DEF Answered
  <1>7. \A s \in pending' : s[1] \notin control'.todo
           => s[1] \notin control.todo \/ (state[s[1]] = "Installed" => state[s[2]] # "Installed")
    BY <1>1, <1>3, <1>4 DEF Answered
  <1> QED BY <1>1, <1>4, <1>5, <1>6, <1>7, RestingStep

LEMMA RestStep ==
    ASSUME IInv, Rest
    PROVE  IInv'
  <1>1. /\ control.at = "Notifying" /\ control.todo = {} /\ control' = Idle
        /\ UNCHANGED <<loaded, seen, settings, state, selection, fatal, handler, planned, exposed, apis>>
    BY DEF Rest
  <1>2. control'.at = "Idle" /\ ControlSound' BY <1>1 DEF Idle, ControlSound
  <1> QED BY <1>1, <1>2, RestingStep DEF apis

(* What an image does before the control thread looks concerns nobody.     *)
LEMMA LoadedStep ==
    ASSUME IInv, loaded' \in [Images -> Outcomes],
           UNCHANGED <<seen, settings, state, selection, fatal, handler, planned, exposed, apis, control>>
    PROVE  IInv'
  <1>1. OwnersInv'
    BY DEF IInv, OwnersInv, Shapes, OwnersSound, OwnerSound, PairsSound, ProvidersSound, WaitsSound,
           selection, apis, Selection
  <1>2. Claimants' = Claimants BY DEF Claimants
  <1>3. ControlInv'
    BY DEF IInv, ControlInv, ControlSound, StartingSound, ConfiguredSound, PlanningSound, InstallingSound,
           PatchSound, RestingSound, AnswersSound, BatchSound, ToInstall, PatchWaits, FatalFailures, Fatal,
           selection, apis
  <1> QED BY <1>1, <1>2, <1>3 DEF IInv

LEMMA LoadStep ==
    ASSUME IInv, NEW i \in Images, Load(i)
    PROVE  IInv'
  <1>1. loaded' \in [Images -> Outcomes]
    BY DEF Load, Outcomes, IInv, OwnersInv, Shapes
  <1> QED BY <1>1, LoadedStep DEF Load

-----------------------------------------------------------------------------
(* The theorems. *)

LEMMA InitHolds == Init => IInv
  <1> SUFFICES ASSUME Init PROVE IInv
    OBVIOUS
  <1>1. Shapes
    <2>1. settings \in [Patches -> {"Enabled", "Disabled", "Broken", "BrokenMandatory"}]
      BY LifecycleAssumption DEF Init
    <2> QED BY <2>1 DEF Init, Shapes, PatchStates
  <1>2. \A o \in Owners : state[o] = "Disabled" BY DEF Init
  <1>3. OwnersSound /\ PairsSound
    BY <1>2 DEF Init, OwnersSound, OwnerSound, PairsSound, Running, Going
  <1>4. ProvidersSound /\ WaitsSound
    BY <1>2 DEF ProvidersSound, WaitsSound, Running, Owners
  <1>5. control.at = "Starting" /\ control = Starting BY DEF Init, Starting
  <1>6. Compatible(Claimants)
    <2>1. Claimants = {} BY <1>2 DEF Claimants, Running
    <2> QED BY <2>1 DEF Compatible
  <1>7. ControlInv
    BY <1>2, <1>5 DEF ControlInv, ControlSound, StartingSound, ConfiguredSound, PlanningSound,
       InstallingSound, PatchSound, RestingSound, AnswersSound
  <1> QED BY <1>1, <1>3, <1>4, <1>6, <1>7 DEF IInv, OwnersInv

LEMMA NextKeeps == IInv /\ [Next]_vars => IInv'
  <1> SUFFICES ASSUME IInv, [Next]_vars PROVE IInv'
    OBVIOUS
  <1>1. CASE Start BY <1>1, StartStep
  <1>2. CASE Scan BY <1>2, ScanStep
  <1>3. CASE PlanPatch BY <1>3, PlanPatchStep
  <1>4. CASE Validate BY <1>4, ValidateStep
  <1>5. CASE PreparePatch BY <1>5, PreparePatchStep
  <1>6. CASE InstallPatch BY <1>6, InstallPatchStep
  <1>7. CASE ActivatePatch BY <1>7, ActivatePatchStep
  <1>8. CASE Propagate BY <1>8, PropagateStep
  <1>9. CASE \E c \in Patches : Notify(c) BY <1>9, NotifyStep
  <1>10. CASE Rest BY <1>10, RestStep
  <1>11. CASE \E i \in Images : Load(i) BY <1>11, LoadStep
  <1>12. CASE UNCHANGED vars
    <2>1. loaded' \in [Images -> Outcomes] BY <1>12 DEF vars, IInv, OwnersInv, Shapes
    <2> QED BY <1>12, <2>1, LoadedStep DEF vars
  <1> QED BY <1>1, <1>2, <1>3, <1>4, <1>5, <1>6, <1>7, <1>8, <1>9, <1>10, <1>11, <1>12
          DEF Next, Control

(* Whatever the control thread does, and whenever images load, every owner *)
(* keeps what goes with its state and nothing else.                        *)
THEOREM InvariantHolds == Spec => []IInv
  BY InitHolds, NextKeeps, PTL DEF Spec

LEMMA InvariantTypes == IInv => TypeOK
  <1> SUFFICES ASSUME IInv PROVE TypeOK
    OBVIOUS
  <1>1. bound \cup pending \cup told \subseteq Patches \X Patches
    BY DEF IInv, OwnersInv, Shapes, Pairs
  <1>2. \/ control \in Controlling
        \/ LET batch == control.batch
           IN  /\ control \in {Planning(batch), Installing(batch)}
                              \cup UNION {{Prepared(p, batch), Activating(p, batch)} : p \in planned}
               /\ batch \in Seq(Owners)
    <2>1. CASE control \in {Starting, Idle} BY <2>1 DEF Controlling
    <2>2. CASE \E cause \in {"Policy", "Cycle", "Unsafe"} : control = Ended(cause)
      BY <2>2 DEF Controlling
    <2>3. CASE \E todo \in SUBSET Patches : control = Notifying(todo) BY <2>3 DEF Controlling
    <2>4. CASE control.at \in {"Planning", "Installing"}
      BY <2>4 DEF IInv, ControlInv, PlanningSound, InstallingSound, BatchSound
    <2>5. CASE control.at \in {"Prepared", "Activating"}
      <3>1. /\ control \in {Prepared(control.patch, control.batch), Activating(control.patch, control.batch)}
            /\ control.batch \in Seq(Owners)
            /\ control.patch \in Owners /\ state[control.patch] = "Preparing"
        BY <2>5 DEF IInv, ControlInv, PatchSound, BatchSound
      <3>2. control.patch \in planned
        BY <3>1 DEF IInv, OwnersInv, OwnersSound, OwnerSound, Running
      <3> DEFINE p == control.patch
                 batch == control.batch
      <3> HIDE DEF p, batch
      <3>3. control \in {Prepared(p, batch), Activating(p, batch)} /\ p \in planned
        BY <3>1, <3>2 DEF p, batch
      <3>4. control \in UNION {{Prepared(q, batch), Activating(q, batch)} : q \in planned}
        BY <3>3
      <3> QED BY <3>1, <3>4 DEF batch
    <2> QED BY <2>1, <2>2, <2>3, <2>4, <2>5 DEF IInv, ControlInv, ControlSound
  <1>3. ASSUME NEW o \in Owners, state[o] = "Preparing"
        PROVE  control.at \in {"Prepared", "Activating", "Ended"}
    <2>1. control # Starting BY <1>3 DEF IInv, ControlInv, StartingSound
    <2>2. control # Idle BY <1>3 DEF IInv, ControlInv, RestingSound, Idle
    <2>3. control.at \notin {"Notifying", "Planning", "Installing"}
      BY <1>3 DEF IInv, ControlInv, RestingSound, PlanningSound, InstallingSound
    <2>4. \A cause : Ended(cause).at = "Ended" BY DEF Ended
    <2> QED BY <2>1, <2>2, <2>3, <2>4 DEF IInv, ControlInv, ControlSound
  <1> QED BY <1>1, <1>2, <1>3 DEF TypeOK, IInv, OwnersInv, Shapes

LEMMA InvariantSound == IInv => LifecycleSound
  <1> SUFFICES ASSUME IInv PROVE LifecycleSound
    OBVIOUS
  <1>1. TypeOK BY InvariantTypes
  <1>2. ProvidersFirst
    BY DEF ProvidersFirst, IInv, OwnersInv, ProvidersSound, PairsSound, Running
  <1>3. ClaimsExclusive
    <2>1. {o \in Owners : state[o] = "Installed"} \subseteq Claimants BY DEF Claimants, Running
    <2> QED BY <2>1 DEF ClaimsExclusive, IInv, Compatible
  <1>4. FailedReleased
    <2> SUFFICES ASSUME NEW o \in Owners, state[o] \in {"Failed", "Disabled", "Waiting"}
                 PROVE  /\ handler[o] # "Live"
                        /\ o \notin planned \cup exposed \cup published
                        /\ \A s \in pending : s[1] # o
      BY DEF FailedReleased
    <2>1. OwnerSound(o) BY DEF IInv, OwnersInv, OwnersSound
    <2>2. \A s \in pending : state[s[1]] \in Running BY DEF IInv, OwnersInv, PairsSound
    <2> QED BY <2>1, <2>2 DEF OwnerSound, Going, Running
  <1>5. NothingForgotten
    <2> SUFFICES ASSUME control = Idle, NEW o \in Owners
                 PROVE  /\ state[o] \notin {"Planning", "Preparing"}
                        /\ state[o] = "Waiting" =>
                             /\ \/ \E i \in Needs[o] : seen[i] = "Absent"
                                \/ \E q \in ProvidersOf(o) : state[q] = "Waiting"
                             /\ \A q \in ProvidersOf(o) : state[q] \in {"Waiting", "Installed"}
      BY DEF NothingForgotten
    <2>1. /\ \A r \in Owners : state[r] \notin {"Planning", "Preparing"}
          /\ \A p \in Patches : state[p] = "Waiting" => PatchWaits(p)
      BY DEF Idle, IInv, ControlInv, RestingSound
    <2>2. CASE o \in Patches BY <2>1, <2>2 DEF PatchWaits, ProvidersOf
    <2>3. CASE o \in Observers
      <3>1. o \notin Patches BY <2>3, LifecycleAssumption
      <3>2. ProvidersOf(o) = {} BY <3>1 DEF ProvidersOf
      <3>3. state[o] = "Waiting" => \E i \in Needs[o] : seen[i] = "Absent"
        BY <2>3 DEF IInv, OwnersInv, WaitsSound
      <3> QED BY <2>1, <3>2, <3>3
    <2> QED BY <2>2, <2>3 DEF Owners
  <1>6. FatalNotIgnored BY DEF FatalNotIgnored, IInv, ControlInv, RestingSound
  <1> QED BY <1>1, <1>2, <1>3, <1>4, <1>5, <1>6 DEF LifecycleSound

(* A patch is installed only with all its providers and its tables stay    *)
(* valid; installed owners never claim the same memory; what does not run  *)
(* keeps nothing; at rest nothing is half way or waits for what failed;    *)
(* and nothing is called after a failure that must end the process.        *)
THEOREM LifecycleHolds == Spec => []LifecycleSound
  BY InvariantHolds, InvariantSound, PTL

(* Only a failure or an answer ends a subscription. *)
LEMMA AnswerStep ==
    ASSUME IInv, Next, NEW s \in pending \ pending'
    PROVE  AnsweredOrFailed(s)
  <1>1. s[1] \in Owners /\ s[1] \in Patches BY DEF IInv, OwnersInv, Shapes, Pairs, Owners
  <1>2. ASSUME NEW rejected, Release(rejected) PROVE AnsweredOrFailed(s)
    <2>1. s[1] \in rejected BY <1>2 DEF Release
    <2>2. state'[s[1]] = "Failed" BY <1>1, <1>2, <2>1 DEF Release
    <2> QED BY <2>2 DEF AnsweredOrFailed
  <1>3. ASSUME NEW c \in Patches, Notify(c) PROVE AnsweredOrFailed(s)
    <2>1. /\ state[c] = "Installed"
          /\ s \in Answered(c)
          /\ told' = told \cup {t \in Answered(c) : t[2] \in published}
      BY <1>3 DEF Notify
    <2>2. s[1] = c /\ state[s[2]] = "Installed" BY <2>1 DEF Answered
    <2>3. s \in told => s[2] \in published BY DEF IInv, OwnersInv, PairsSound
    <2>4. s \in told' <=> s[2] \in published BY <2>1, <2>3
    <2> QED BY <2>1, <2>2, <2>4 DEF AnsweredOrFailed
  <1>4. CASE PlanPatch \/ Validate
    <2>1. pending' = pending \/ \E rejected : Release(rejected)
      BY <1>4 DEF PlanPatch, Validate, Reject, apis
    <2> QED BY <1>2, <2>1
  <1>5. CASE PreparePatch
    <2>1. pending \subseteq pending' \/ \E rejected : Release(rejected)
      BY <1>5 DEF PreparePatch, Reject
    <2> QED BY <1>2, <2>1
  <1>6. CASE InstallPatch
    <2>1. pending' = pending \/ \E rejected : Release(rejected)
      BY <1>6 DEF InstallPatch, Reject, apis
    <2> QED BY <1>2, <2>1
  <1>7. CASE Start \/ Scan \/ ActivatePatch \/ Propagate \/ Rest \/ \E i \in Images : Load(i)
    BY <1>7 DEF Start, Scan, ActivatePatch, Propagate, Rest, Load, apis
  <1> QED BY <1>3, <1>4, <1>5, <1>6, <1>7 DEF Next, Control

(* A subscription ends with the failure of its consumer, or when both ends *)
(* are installed, its callback run exactly if the provider published; and  *)
(* no rest finds one unanswered that could be.                             *)
THEOREM SubscriptionsHold == Spec => SubscriptionsAnswered
  <1>1. ASSUME IInv, IInv', [Next]_vars
        PROVE  [/\ \A s \in pending \ pending' : AnsweredOrFailed(s)
                /\ control' = Idle => AllAnswered']_vars
    <2>1. control' = Idle => AllAnswered'
      BY <1>1 DEF IInv, ControlInv, AnswersSound, AllAnswered, Idle
    <2>2. Next => \A s \in pending \ pending' : AnsweredOrFailed(s)
      BY <1>1, AnswerStep
    <2> QED BY <1>1, <2>1, <2>2
  <1> QED BY <1>1, InvariantHolds, PTL DEF Spec, SubscriptionsAnswered

-----------------------------------------------------------------------------
(* Plugins: lists without repetitions. *)

LEMMA DistinctApart ==
    ASSUME NEW S, NEW seq \in Seq(S), Distinct(seq), NEW i \in DOMAIN seq, NEW j \in DOMAIN seq, seq[i] = seq[j]
    PROVE  i = j
<1> DEFINE places == 1 .. Len(seq)
<1>1. DOMAIN seq = places /\ Len(seq) \in Nat
    OBVIOUS
<1>2. seq \in Surjection(places, Each(seq))
    BY <1>1 DEF Surjection, Each
<1>3. IsFiniteSet(places) /\ Cardinality(places) = Len(seq)
    <2>1. IsFiniteSet(places) /\ Cardinality(places) = IF 1 > Len(seq) THEN 0 ELSE Len(seq) - 1 + 1
        BY <1>1, FS_Interval
    <2> QED
        BY <1>1, <2>1
<1>4. Cardinality(places) = Cardinality(Each(seq))
    BY <1>3 DEF Distinct
<1>5. seq \in Injection(places, Each(seq))
    BY <1>2, <1>3, <1>4, FS_SurjSameCardinalityImpliesInj
<1> QED
    BY <1>1, <1>5 DEF Injection, IsInjective

LEMMA SameIdentifier ==
    ASSUME NEW S, NEW list \in Seq(S), Distinct([i \in DOMAIN list |-> list[i].id]),
           NEW x \in Each(list), NEW y \in Each(list), x.id = y.id
    PROVE  x = y
<1> DEFINE ids == [i \in DOMAIN list |-> list[i].id]
<1>1. PICK i \in DOMAIN list, j \in DOMAIN list : x = list[i] /\ y = list[j]
    BY DEF Each
<1>2. ids \in Seq({z.id : z \in S}) /\ DOMAIN ids = DOMAIN list
    OBVIOUS
<1>3. ids[i] = ids[j]
    BY <1>1
<1>4. i = j
    <2> HIDE DEF ids
    <2> QED BY <1>1, <1>2, <1>3, DistinctApart DEF ids
<1> QED
    BY <1>1, <1>4

-----------------------------------------------------------------------------
(* The generated INI entries.  Toggles stand in a category's section or in *)
(* that of their owner, settings in their patch's.                         *)

Categories(d) == Each(d.categories)

\* Where a toggle stands.
TogglePlaced(d, e, id) ==
    \/ e.section = <<id>> /\ e.section \notin Categories(d) /\ e.key = "Enabled"
    \/ e.section \in Categories(d) /\ e.key = id

LEMMA ToggleSections ==
    ASSUME NEW d, NEW kind, NEW owner, owner.configurable, CategoryKnown(d, owner.category),
           Uncategorised(owner) => <<owner.id>> \notin Categories(d)
    PROVE  LET e == ToggleEntry(kind, owner) IN TogglePlaced(d, e, owner.id) /\ e.owner = Owner(kind, owner.id)
BY DEF ToggleEntry, TogglePlaced, CategoryKnown, Uncategorised, Categories

SettingEntry(patch, setting) ==
    [owner |-> Owner("Setting", patch.id), section |-> SettingSection(patch, setting), key |-> setting.key]

LEMMA EntryKinds ==
    ASSUME NEW d, NEW e \in GeneratedEntries(d)
    PROVE  \/ \E patch \in Each(d.patches) : patch.configurable /\ e = ToggleEntry("Patch", patch)
           \/ \E group \in Each(d.groups) : group.configurable /\ e = ToggleEntry("Group", group)
           \/ \E patch \in Each(d.patches) : \E variant \in VariantsOf(patch) : \E setting \in Each(variant.settings) :
                  e = SettingEntry(patch, setting)
BY DEF GeneratedEntries, Eligible, SettingEntry

LEMMA PatchToggles ==
    ASSUME NEW d, DefinitionValid(d), NEW patch \in Each(d.patches), patch.configurable
    PROVE  LET e == ToggleEntry("Patch", patch) IN TogglePlaced(d, e, patch.id) /\ e.owner = Owner("Patch", patch.id)
<1>1. CategoryKnown(d, patch.category) /\ <<patch.id>> \notin Categories(d)
    BY DEF DefinitionValid, PatchesValid, Categories
<1> QED BY <1>1, ToggleSections

LEMMA GroupToggles ==
    ASSUME NEW d, DefinitionValid(d), NEW group \in Each(d.groups), group.configurable
    PROVE  LET e == ToggleEntry("Group", group)
           IN TogglePlaced(d, e, group.id) /\ e.owner = Owner("Group", group.id) /\ group.id \notin PatchIds(d)
<1>1. /\ CategoryKnown(d, group.category) /\ group.id \notin PatchIds(d)
      /\ Uncategorised(group) => <<group.id>> \notin Categories(d)
    BY DEF DefinitionValid, GroupsValid, Categories
<1> QED BY <1>1, ToggleSections

LEMMA SettingPlaced ==
    ASSUME NEW d, DefinitionValid(d), NEW patch \in Each(d.patches), NEW variant \in VariantsOf(patch),
           NEW setting \in Each(variant.settings)
    PROVE  LET e == SettingEntry(patch, setting)
           IN /\ e.section \notin Categories(d) /\ e.owner = Owner("Setting", patch.id)
              /\ e.section = <<patch.id>> \/ \E s : e.section = <<patch.id, s>>
<1>1. SettingsValid(d, patch, variant) /\ <<patch.id>> \notin Categories(d)
    BY DEF DefinitionValid, PatchesValid, Categories
<1> QED BY <1>1 DEF SettingsValid, SettingEntry, SettingSection, Categories

\* What tells the entries of patches and groups apart.
LEMMA ToggleOwners ==
    ASSUME NEW d, NEW a, NEW b, NEW x, NEW y, TogglePlaced(d, a, x), TogglePlaced(d, b, y), a.section = b.section, a.key = b.key
    PROVE  x = y
BY DEF TogglePlaced

LEMMA PatchesApart ==
    ASSUME NEW d \in Declarations, DefinitionValid(d), NEW p \in Each(d.patches), NEW q \in Each(d.patches), p.id = q.id
    PROVE  p = q
<1>1. \E S : d.patches \in Seq(S)
    BY DEF Declarations
<1>2. Distinct([i \in DOMAIN d.patches |-> d.patches[i].id])
    BY DEF DefinitionValid, PatchesValid
<1> QED BY <1>1, <1>2, SameIdentifier

LEMMA SettingShape ==
    ASSUME NEW d \in Declarations, NEW patch \in Each(d.patches), NEW variant \in VariantsOf(patch), NEW setting \in Each(variant.settings)
    PROVE  setting \in [section : STRING, key : STRING]
<1> DEFINE parts == Seq(STRING)
           S == [section : STRING, key : STRING]
           V == [settings : Seq(S), images : Seq([label : STRING, selectors : Seq(parts)]), dependsOn : Seq(parts)]
           P == [id : STRING, category : parts, configurable : BOOLEAN, dependsOn : Seq(parts), variants : Seq(V)]
<1>1. d.patches \in Seq(P)
    BY DEF Declarations
<1>2. \A T : \A seq \in Seq(T) : Each(seq) \subseteq T
    BY DEF Each
<1>3. patch \in P
    <2> HIDE DEF P
    <2> QED BY <1>1, <1>2
<1>4. patch.variants \in Seq(V)
    <2> HIDE DEF V
    <2> QED BY <1>3
<1>5. variant \in V
    <2> HIDE DEF V
    <2> QED BY <1>2, <1>4 DEF VariantsOf
<1>6. variant.settings \in Seq(S)
    <2> HIDE DEF S
    <2> QED BY <1>5
<1> QED
    <2> HIDE DEF S
    <2>1. setting \in S BY <1>2, <1>6
    <2> QED BY <2>1 DEF S

\* A patch's setting and a toggle.
LEMMA SettingAndToggle ==
    ASSUME NEW d \in Declarations, DefinitionValid(d), NEW patch \in Each(d.patches), NEW variant \in VariantsOf(patch),
           NEW setting \in Each(variant.settings), NEW e, NEW f,
           e = SettingEntry(patch, setting), e.section = f.section, e.key = f.key,
           \/ \E p \in Each(d.patches) : p.configurable /\ f = ToggleEntry("Patch", p)
           \/ \E g \in Each(d.groups) : g.configurable /\ f = ToggleEntry("Group", g)
    PROVE  FALSE
<1>1. /\ e.section \notin Categories(d)
      /\ e.section = <<patch.id>> \/ \E s : e.section = <<patch.id, s>>
    BY SettingPlaced
<1>2. CASE \E p \in Each(d.patches) : p.configurable /\ f = ToggleEntry("Patch", p)
    <2>1. PICK p \in Each(d.patches) : p.configurable /\ f = ToggleEntry("Patch", p)
        BY <1>2
    <2>2. f.section = <<p.id>> /\ f.key = "Enabled"
        BY <1>1, <2>1, PatchToggles DEF TogglePlaced
    <2>3. e.section = <<patch.id>> /\ patch.id = p.id
        BY <1>1, <2>2
    <2>4. patch = p
        BY <2>3, PatchesApart
    <2>5. p.category = << >>
        BY <1>1, <2>1 DEF ToggleEntry, DefinitionValid, PatchesValid, CategoryKnown, Categories
    <2>6. Uncategorised(patch)
        BY <2>1, <2>4, <2>5 DEF Uncategorised
    <2>7. SettingsValid(d, patch, variant)
        BY DEF DefinitionValid, PatchesValid
    <2>8. setting \in [section : STRING, key : STRING]
        BY SettingShape
    <2>9. setting.section = ""
        BY <2>3 DEF SettingEntry, SettingSection
    <2>10. setting = [section |-> "", key |-> "Enabled"]
        BY <2>2, <2>8, <2>9 DEF SettingEntry
    <2> QED
        BY <2>6, <2>7, <2>10 DEF SettingsValid
<1>3. CASE \E g \in Each(d.groups) : g.configurable /\ f = ToggleEntry("Group", g)
    <2>1. PICK g \in Each(d.groups) : g.configurable /\ f = ToggleEntry("Group", g)
        BY <1>3
    <2>2. f.section = <<g.id>> /\ g.id \notin PatchIds(d)
        BY <1>1, <2>1, GroupToggles DEF TogglePlaced
    <2>3. patch.id = g.id
        BY <1>1, <2>2
    <2> QED
        BY <2>2, <2>3 DEF PatchIds
<1> QED BY <1>2, <1>3

LEMMA EntriesApart ==
    ASSUME NEW d \in Declarations, DefinitionValid(d), NEW e \in GeneratedEntries(d), NEW f \in GeneratedEntries(d),
           e.section = f.section, e.key = f.key
    PROVE  e.owner = f.owner
<1> DEFINE OfPatch(h) == \E p \in Each(d.patches) : p.configurable /\ h = ToggleEntry("Patch", p)
           OfGroup(h) == \E g \in Each(d.groups) : g.configurable /\ h = ToggleEntry("Group", g)
           OfSetting(h) == \E patch \in Each(d.patches) : \E variant \in VariantsOf(patch) : \E setting \in Each(variant.settings) :
                               h = SettingEntry(patch, setting)
<1>1. (OfPatch(e) \/ OfGroup(e) \/ OfSetting(e)) /\ (OfPatch(f) \/ OfGroup(f) \/ OfSetting(f))
    BY EntryKinds
<1>2. ASSUME NEW a, NEW b, OfSetting(a), OfPatch(b) \/ OfGroup(b), a.section = b.section, a.key = b.key
      PROVE  FALSE
    BY <1>2, SettingAndToggle
<1>3. CASE OfSetting(e) /\ OfSetting(f)
    <2>1. PICK p \in Each(d.patches) : \E v \in VariantsOf(p) : \E s \in Each(v.settings) : e = SettingEntry(p, s)
        BY <1>3
    <2>2. PICK q \in Each(d.patches) : \E w \in VariantsOf(q) : \E t \in Each(w.settings) : f = SettingEntry(q, t)
        BY <1>3
    <2>3. p.id = q.id
        <3>1. e.section = <<p.id>> \/ \E x : e.section = <<p.id, x>>
            BY <2>1, SettingPlaced
        <3>2. f.section = <<q.id>> \/ \E x : f.section = <<q.id, x>>
            BY <2>2, SettingPlaced
        <3> QED BY <3>1, <3>2
    <2> QED
        BY <2>1, <2>2, <2>3 DEF SettingEntry
<1>4. ASSUME NEW h, OfPatch(h)
      PROVE  \E p \in Each(d.patches) : TogglePlaced(d, h, p.id) /\ h.owner = Owner("Patch", p.id)
    BY <1>4, PatchToggles
<1>5. ASSUME NEW h, OfGroup(h)
      PROVE  \E g \in Each(d.groups) : TogglePlaced(d, h, g.id) /\ h.owner = Owner("Group", g.id) /\ g.id \notin PatchIds(d)
    BY <1>5, GroupToggles
<1>6. CASE OfPatch(e) /\ OfPatch(f)
    BY <1>4, <1>6, ToggleOwners
<1>7. CASE OfGroup(e) /\ OfGroup(f)
    BY <1>5, <1>7, ToggleOwners
<1>8. ASSUME NEW a, NEW b, OfPatch(a), OfGroup(b), a.section = b.section, a.key = b.key
      PROVE  FALSE
    BY <1>4, <1>5, <1>8, ToggleOwners DEF PatchIds
<1> QED
    BY <1>1, <1>2, <1>3, <1>6, <1>7, <1>8

-----------------------------------------------------------------------------
(* The inductive invariant: what the loop has come to, and then the result. *)

Supplies(p) == supplied.files[p] \notin {NoLibrary, NoEntry, Refuses}
Looked == IF nextPath = 0 THEN Paths ELSE {p \in Paths : p < nextPath}

OfPath(p) == [owner |-> p, definition |-> supplied.files[p]]
OfRuntime(i) == [owner |-> EmbeddedOwner(i), definition |-> supplied.embedded[i]]

LoadingSound ==
    /\ candidates = {OfPath(p) : p \in {q \in Looked : Supplies(q)}} \cup {OfRuntime(i) : i \in DOMAIN supplied.embedded}
    /\ diagnosed = {p \in Looked : ~Supplies(p)}
    /\ references = [p \in Paths |-> IF p \in Looked /\ Supplies(p) THEN 1 ELSE 0]
    /\ admitted = {}

AdmittedSound == nextPath = 0 /\ candidates = {} /\ PluginsAccounted

PluginsInv ==
    /\ supplied.files \in [Paths -> Declarations \cup {NoLibrary, NoEntry, Refuses}]
    /\ supplied.embedded \in Seq(Declarations)
    /\ nextPath \in Paths \cup {0}
    /\ LoadingSound \/ AdmittedSound

LEMMA ValidSupplied ==
    ASSUME NEW p, DefinitionValid(supplied.files[p])
    PROVE  Supplies(p)
BY DEF DefinitionValid, Supplies, NoLibrary, NoEntry, Refuses

LEMMA NothingAdmitted == LoadingSound => PluginsAccounted
<1>1. SUFFICES ASSUME LoadingSound PROVE PluginsAccounted
    OBVIOUS
<1>2. SectionsDistinct
    BY <1>1 DEF LoadingSound, SectionsDistinct
<1>3. PluginsAdmitted => \A p \in Paths : ~Supplies(p) /\ p \in Looked
    BY <1>1 DEF PluginsAdmitted, LoadingSound, Looked
<1>4. PluginsSound
    BY <1>1, <1>3, ValidSupplied DEF PluginsSound, LoadingSound
<1> QED BY <1>2, <1>4 DEF PluginsAccounted

LEMMA InitPlugins == PluginsInit => PluginsInv
<1>1. SUFFICES ASSUME PluginsInit PROVE PluginsInv
    OBVIOUS
<1> USE DEF PluginsInit
<1>2. PICK files \in Directories, embedded \in Embedded :
          /\ supplied = [files |-> files, embedded |-> embedded]
          /\ candidates = {[owner |-> EmbeddedOwner(i), definition |-> embedded[i]] : i \in DOMAIN embedded}
    BY <1>1
<1>3. nextPath \in Paths \cup {0} /\ Looked = {}
    <2>1. CASE Paths = {}
        BY <1>1, <2>1 DEF Looked
    <2>2. CASE Paths # {}
        <3>1. nextPath = CHOOSE p \in Paths : \A q \in Paths : p <= q
            BY <1>1, <2>2
        <3>2. Paths \subseteq Nat /\ 0 \notin Paths
            BY PluginsAssumption
        <3>3. \E p \in Paths : \A q \in Paths : p <= q
            BY <2>2, <3>2, LeastNumber
        <3>4. nextPath \in Paths /\ \A q \in Paths : nextPath <= q
            BY <3>1, <3>3, Zenon
        <3>5. \A p \in Paths : ~(p < nextPath)
            BY <3>2, <3>4
        <3>6. nextPath # 0
            BY <3>2, <3>4
        <3> QED BY <3>4, <3>5, <3>6 DEF Looked
    <2> QED BY <2>1, <2>2
<1>4. LoadingSound
    BY <1>1, <1>2, <1>3 DEF LoadingSound, OfRuntime
<1> QED
    BY <1>2, <1>3, <1>4, PluginsAssumption DEF PluginsInv

LEMMA LookedStep ==
    ASSUME PluginsInv, NEW p \in Paths, nextPath = p, nextPath' = FollowingPath(p)
    PROVE  nextPath' \in Paths \cup {0} /\ p \notin Looked /\ Looked' = Looked \cup {p}
<1> DEFINE rest == {q \in Paths : q > p}
<1>0. Paths \subseteq Nat /\ 0 \notin Paths /\ rest \subseteq Nat
    BY PluginsAssumption
<1>1. Looked = {q \in Paths : q < p}
    BY <1>0 DEF Looked
<1>2. p \notin Looked
    BY <1>0, <1>1
<1>3. CASE rest = {}
    <2>1. nextPath' = 0
        BY <1>3 DEF FollowingPath
    <2>2. \A q \in Paths : q < p \/ q = p
        BY <1>0, <1>3
    <2>3. Looked' = Paths
        BY <2>1 DEF Looked
    <2>4. Looked \cup {p} = Paths
        BY <1>1, <2>2
    <2> QED BY <1>2, <2>1, <2>3, <2>4
<1>4. CASE rest # {}
    <2>1. nextPath' = CHOOSE q \in rest : \A r \in rest : q <= r
        BY <1>4 DEF FollowingPath
    <2>2. \E q \in rest : \A r \in rest : q <= r
        BY <1>0, <1>4, LeastNumber
    <2>3. nextPath' \in rest /\ \A r \in rest : nextPath' <= r
        BY <2>1, <2>2, Zenon
    <2>4. Looked' = {q \in Paths : q < nextPath'}
        BY <1>0, <2>3 DEF Looked
    <2>5. \A q \in Paths : q < nextPath' <=> q < p \/ q = p
        <3> SUFFICES ASSUME NEW q \in Paths PROVE q < nextPath' <=> q < p \/ q = p
            OBVIOUS
        <3>1. q \in Nat /\ p \in Nat /\ nextPath' \in Nat /\ p < nextPath'
            BY <1>0, <2>3
        <3>2. q > p => nextPath' <= q
            BY <2>3
        <3> QED BY <3>1, <3>2
    <2>6. Looked' = Looked \cup {p}
        BY <1>1, <2>4, <2>5
    <2> QED BY <1>2, <2>3, <2>6
<1> QED BY <1>3, <1>4

LEMMA LoopStep ==
    ASSUME PluginsInv, NEW p \in Paths, CannotLoad(p) \/ EntryFails(p) \/ Supply(p)
    PROVE  PluginsInv'
<1>1. nextPath = p /\ p # 0 /\ nextPath' = FollowingPath(p) /\ UNCHANGED <<supplied, admitted>>
    BY DEF CannotLoad, EntryFails, Supply
<1>2. nextPath' \in Paths \cup {0} /\ p \notin Looked /\ Looked' = Looked \cup {p}
    BY <1>1, LookedStep
<1>3. LoadingSound
    BY <1>1 DEF PluginsInv, AdmittedSound
<1>4. \A q : Supplies(q)' = Supplies(q) /\ OfPath(q)' = OfPath(q) /\ OfRuntime(q)' = OfRuntime(q)
    BY <1>1 DEF Supplies, OfPath, OfRuntime
<1>5. CASE CannotLoad(p) \/ EntryFails(p)
    <2>1. ~Supplies(p) /\ diagnosed' = diagnosed \cup {p} /\ UNCHANGED <<references, candidates>>
        BY <1>5 DEF CannotLoad, EntryFails, Supplies
    <2>2. LoadingSound'
        BY <1>1, <1>2, <1>3, <1>4, <2>1 DEF LoadingSound
    <2> QED BY <1>1, <1>2, <2>2 DEF PluginsInv
<1>6. CASE Supply(p)
    <2>1. /\ Supplies(p) /\ references' = [references EXCEPT ![p] = @ + 1]
          /\ candidates' = candidates \cup {OfPath(p)} /\ UNCHANGED diagnosed
        BY <1>6 DEF Supply, Supplies, OfPath
    <2>2. LoadingSound'
        BY <1>1, <1>2, <1>3, <1>4, <2>1 DEF LoadingSound
    <2> QED BY <1>1, <1>2, <2>2 DEF PluginsInv
<1> QED BY <1>5, <1>6

\* What admit_definitions finds: the candidates are those of the paths and the embedded ones, each with an owner of its own.
LEMMA CandidateKinds ==
    ASSUME PluginsInv, LoopOver, NEW c \in candidates
    PROVE  /\ c.definition \in Declarations
           /\ \/ \E p \in Paths : Supplies(p) /\ c = OfPath(p)
              \/ c.owner \notin Paths /\ c.definition \in Each(supplied.embedded)
<1>1. LoadingSound /\ Looked = Paths
    BY DEF PluginsInv, AdmittedSound, LoopOver, Looked
<1>2. CASE \E p \in Paths : Supplies(p) /\ c = OfPath(p)
    BY <1>2 DEF Supplies, OfPath, PluginsInv
<1>3. CASE \E i \in DOMAIN supplied.embedded : c = OfRuntime(i)
    <2>1. PICK i \in DOMAIN supplied.embedded : c = OfRuntime(i)
        BY <1>3
    <2>2. i \in Nat \ {0} /\ c.owner = -i /\ c.definition = supplied.embedded[i] /\ supplied.embedded[i] \in Declarations
        BY <2>1 DEF OfRuntime, EmbeddedOwner, PluginsInv
    <2>3. c.owner \notin Paths
        BY <2>2, PluginsAssumption
    <2> QED BY <2>1, <2>2, <2>3 DEF Each
<1> QED BY <1>1, <1>2, <1>3 DEF LoadingSound

LEMMA AdmitStep ==
    ASSUME PluginsInv, Admit
    PROVE  PluginsInv'
<1>1. LoopOver /\ nextPath' = nextPath /\ nextPath = 0 /\ supplied' = supplied /\ candidates' = {}
    BY DEF Admit, LoopOver
<1>2. LoadingSound /\ Looked = Paths
    BY <1>1 DEF PluginsInv, AdmittedSound, LoopOver, Looked
<1>3. \A p \in Paths : Supplies(p) => OfPath(p) \in candidates
    BY <1>2 DEF LoadingSound
<1>4. admitted' = {c \in candidates : AdmittedOf(c)}
    BY DEF Admit
<1>5. \A c \in candidates : \A p \in Paths : c.owner = p => Supplies(p) /\ c = OfPath(p)
    BY <1>1, CandidateKinds DEF OfPath
<1>6. SectionsDistinct'
    <2>1. \A c \in admitted' : c.definition \in Declarations /\ DefinitionValid(c.definition)
        BY <1>1, <1>4, CandidateKinds DEF AdmittedOf, Validated
    <2> QED BY <2>1, EntriesApart DEF SectionsDistinct
<1>7. \A p \in Paths :
          /\ (\E c \in admitted' : c.owner = p) <=> Supplies(p) /\ AdmittedOf(OfPath(p))
          /\ (\E c \in candidates : c.owner = p /\ ~AdmittedOf(c)) <=> Supplies(p) /\ ~AdmittedOf(OfPath(p))
    <2>1. \A p : OfPath(p).owner = p
        BY DEF OfPath
    <2> QED BY <1>3, <1>4, <1>5, <2>1
<1>8. \A p \in Paths : references'[p] = IF \E c \in admitted' : c.owner = p THEN 1 ELSE 0
    <2> SUFFICES ASSUME NEW p \in Paths PROVE references'[p] = IF \E c \in admitted' : c.owner = p THEN 1 ELSE 0
        OBVIOUS
    <2>1. references[p] = IF Supplies(p) THEN 1 ELSE 0
        BY <1>2 DEF LoadingSound
    <2>2. references'[p] = IF \E c \in candidates : c.owner = p /\ ~AdmittedOf(c) THEN references[p] - 1 ELSE references[p]
        BY DEF Admit
    <2> QED BY <1>7, <2>1, <2>2
<1>9. \A p \in Paths : p \in diagnosed' <=> ~Supplies(p) \/ ~AdmittedOf(OfPath(p))
    <2> SUFFICES ASSUME NEW p \in Paths PROVE p \in diagnosed' <=> ~Supplies(p) \/ ~AdmittedOf(OfPath(p))
        OBVIOUS
    <2>1. diagnosed' = diagnosed \cup {c.owner : c \in {d \in candidates : ~AdmittedOf(d)}}
        BY DEF Admit
    <2>2. p \in diagnosed <=> ~Supplies(p)
        BY <1>2 DEF LoadingSound
    <2> QED BY <1>7, <2>1, <2>2
<1>10. \A p \in Paths : (p \in diagnosed') # (\E c \in admitted' : c.owner = p)
    BY <1>7, <1>9
<1>11. \A c, d \in admitted' : c.definition.id = d.definition.id => c = d
    BY <1>4 DEF AdmittedOf, SharingId
<1>12. ASSUME NEW p \in Paths, DefinitionValid(supplied.files[p]),
              \A d \in {supplied.files[q] : q \in Paths \ {p}} \cup Each(supplied.embedded) :
                  DefinitionValid(d) => d.id # supplied.files[p].id
       PROVE  p \notin diagnosed'
    <2>1. Supplies(p) /\ OfPath(p) \in Validated
        BY <1>3, <1>12, ValidSupplied DEF Validated, OfPath
    <2>2. ASSUME NEW d \in SharingId(OfPath(p)) PROVE d = OfPath(p)
        <3>1. d \in candidates /\ DefinitionValid(d.definition) /\ d.definition.id = supplied.files[p].id
            BY <2>2 DEF SharingId, Validated, OfPath
        <3>2. CASE \E q \in Paths : Supplies(q) /\ d = OfPath(q)
            BY <1>12, <3>1, <3>2 DEF OfPath
        <3>3. CASE d.definition \in Each(supplied.embedded)
            BY <1>12, <3>1, <3>3
        <3> QED BY <1>1, <3>1, <3>2, <3>3, CandidateKinds
    <2>3. OfPath(p) \in SharingId(OfPath(p))
        BY <2>1 DEF SharingId
    <2>4. AdmittedOf(OfPath(p))
        BY <2>1, <2>2, <2>3 DEF AdmittedOf
    <2> QED BY <1>9, <2>1, <2>4
<1>13. PluginsSound'
    BY <1>1, <1>8, <1>10, <1>11, <1>12 DEF PluginsSound
<1> QED
    BY <1>1, <1>6, <1>13 DEF PluginsInv, AdmittedSound, PluginsAccounted

(* What admission keeps, for any plugins: every DLL is mapped exactly as long  *)
(* as its plugin is admitted, a plugin is admitted or reported, identifiers    *)
(* are not shared, one plugin's faults do not keep another out, and what the   *)
(* rules of validate_plugin_definition let through has INI entries that are    *)
(* told apart by section and key.                                              *)
THEOREM PluginsHold == PluginsSpec => []PluginsAccounted
<1>1. PluginsInit => PluginsInv
    BY InitPlugins
<1>2. PluginsInv /\ [PluginsNext]_pluginVars => PluginsInv'
    <2> SUFFICES ASSUME PluginsInv, [PluginsNext]_pluginVars PROVE PluginsInv'
        OBVIOUS
    <2>1. CASE Admit
        BY <2>1, AdmitStep
    <2>2. CASE \E p \in Paths : CannotLoad(p) \/ EntryFails(p) \/ Supply(p)
        BY <2>2, LoopStep
    <2>3. CASE UNCHANGED pluginVars
        <3>1. PluginsAccounted => PluginsAccounted'
            BY ZenonT(60), <2>3 DEF pluginVars, PluginsAccounted, PluginsSound, SectionsDistinct, PluginsAdmitted
        <3>2. LoadingSound => LoadingSound'
            BY <2>3 DEF pluginVars, LoadingSound, Looked, Supplies, OfPath, OfRuntime
        <3> QED BY <2>3, <3>1, <3>2 DEF pluginVars, PluginsInv, AdmittedSound
    <2> QED BY <2>1, <2>2, <2>3 DEF PluginsNext
<1>3. PluginsInv => PluginsAccounted
    BY NothingAdmitted DEF PluginsInv, AdmittedSound
<1> QED
    BY <1>1, <1>2, <1>3, PTL DEF PluginsSpec

-----------------------------------------------------------------------------
(* CrashReports.  The inductive invariant says what the record of a thread  *)
(* holds where the thread is, that only who has the workspace writes, with *)
(* the number of the last attempt, and what the file holds.                *)
(*                                                                         *)
(* First the fold of Attribution, step by step.                            *)

Greatest(s) == CHOOSE x \in s : \A y \in s : x >= y

LEMMA GreatestIn ==
    ASSUME NEW n \in Nat, NEW s \in SUBSET (1 .. n), s # {}
    PROVE  Greatest(s) \in s /\ \A y \in s : y <= Greatest(s)
<1> DEFINE T == {k \in Nat : \E x \in s : k = n - x}
<1>1. T # {}
    <2>1. PICK x \in s : TRUE
        OBVIOUS
    <2>2. n - x \in T
        BY <2>1
    <2> QED BY <2>2
<1>2. PICK k \in T : \A j \in T : k <= j
    <2>1. T \in SUBSET Nat
        OBVIOUS
    <2> HIDE DEF T
    <2> QED BY <1>1, <2>1, LeastNumber
<1>3. PICK x \in s : k = n - x
    BY <1>2
<1>4. ASSUME NEW y \in s PROVE x >= y
    <2>1. n - y \in T
        OBVIOUS
    <2>2. k <= n - y
        BY <1>2, <2>1
    <2> QED BY <1>3, <2>2
<1> QED BY <1>4 DEF Greatest

Next1(fs, address, i, best) == IF Covers(fs[i], address) /\ Better(fs[i], best) THEN fs[i] ELSE best

Searched(fs, address, t) ==
    t = [s \in SUBSET DOMAIN fs |->
            IF s = {} THEN NoFact ELSE Next1(fs, address, Greatest(s), t[s \ {Greatest(s)}])]

LEMMA AttributionSearched ==
    ASSUME NEW address
    PROVE  Attribution(address) = (CHOOSE t : Searched(facts, address, t))[DOMAIN facts]
BY DEF Attribution, FoldLeft, MapThenFoldSet, Searched, Next1, Greatest, Max

LEMMA NoFactTyped == NoFact \in Annotations
BY DEF NoFact, Annotations

LEMMA SearchExists ==
    ASSUME NEW fs \in Seq(Annotations), NEW address
    PROVE  \E t \in [SUBSET DOMAIN fs -> Annotations] : Searched(fs, address, t)
<1> DEFINE D == DOMAIN fs
           step == [p \in D \X Annotations |-> Next1(fs, address, p[1], p[2])]
           pick == [s \in SUBSET D |-> Greatest(s)]
<1>1. D = 1 .. Len(fs) /\ Len(fs) \in Nat /\ IsFiniteSet(D)
    BY FS_Interval
<1>2. \A i \in D : fs[i] \in Annotations
    BY <1>1
<1>3. step \in [D \X Annotations -> Annotations]
    BY <1>2 DEF Next1
<1>4. Picks(pick, D)
    BY <1>1, GreatestIn DEF Picks
<1>5. NoFact \in Annotations
    BY NoFactTyped
<1>6. PICK t \in [SUBSET D -> Annotations] : Iterates(step, NoFact, pick, D, t)
    <2> HIDE DEF D, step, pick
    <2> QED BY <1>1, <1>3, <1>4, <1>5, IterationExists
<1>7. ASSUME NEW s \in SUBSET D
      PROVE  t[s] = IF s = {} THEN NoFact ELSE Next1(fs, address, Greatest(s), t[s \ {Greatest(s)}])
    <2>1. t[s] = IF s = {} THEN NoFact ELSE step[<<pick[s], t[s \ {pick[s]}]>>]
        BY <1>6 DEF Iterates
    <2>2. CASE s # {}
        <3>1. pick[s] \in D /\ pick[s] = Greatest(s)
            BY <1>4, <2>2 DEF Picks
        <3>2. t[s \ {pick[s]}] \in Annotations
            BY <1>6
        <3>3. step[<<pick[s], t[s \ {pick[s]}]>>] = Next1(fs, address, pick[s], t[s \ {pick[s]}])
            <4> HIDE DEF pick
            <4> QED BY <3>1, <3>2
        <3> HIDE DEF step, pick
        <3> QED BY <2>1, <2>2, <3>1, <3>3
    <2> QED BY <2>1, <2>2
<1>8. t = [s \in SUBSET D |->
              IF s = {} THEN NoFact ELSE Next1(fs, address, Greatest(s), t[s \ {Greatest(s)}])]
    BY <1>6, <1>7
<1> QED BY <1>8 DEF Searched

(* What is better is as specific, and so is what is not bettered.          *)
LEMMA BetterIsSpecific ==
    ASSUME NEW f \in Annotations, NEW b \in Annotations, b # NoFact
    PROVE  /\ Better(f, b) => Extent(f) <= Extent(b)
           /\ ~Better(f, b) => Extent(b) <= Extent(f)
<1>1. f.size \in Nat /\ b.size \in Nat
    BY DEF Annotations
<1> QED BY <1>1 DEF Better, Extent

LEMMA AttributionSpecific ==
    ASSUME facts \in Seq(Annotations), NEW address, NEW k \in DOMAIN facts, Covers(facts[k], address)
    PROVE  /\ Attribution(address) \in Annotations
           /\ Covers(Attribution(address), address)
           /\ Extent(Attribution(address)) <= Extent(facts[k])
<1> DEFINE D == DOMAIN facts
           t == CHOOSE t : Searched(facts, address, t)
           Specific(s) ==
               /\ t[s] = NoFact \/ Covers(t[s], address)
               /\ \A i \in s : Covers(facts[i], address) => t[s] # NoFact /\ Extent(t[s]) <= Extent(facts[i])
           G == {s \in SUBSET D : Specific(s)}
<1>1. PICK r \in [SUBSET D -> Annotations] : Searched(facts, address, r)
    BY SearchExists
<1>2. Searched(facts, address, t)
    BY <1>1
<1> HIDE DEF t
<1>3. \A i \in D : facts[i] \in Annotations
    OBVIOUS
<1>4. D = 1 .. Len(facts) /\ Len(facts) \in Nat /\ IsFiniteSet(D)
    BY FS_Interval
<1>5. \A s \in SUBSET D : t[s] = r[s]
    <2> DEFINE H == {s \in SUBSET D : t[s] = r[s]}
    <2>1. ASSUME NEW s \in SUBSET D, \A u \in SUBSET s : u # s => u \in H
          PROVE  t[s] = r[s]
        <3>1. CASE s = {}
            <4>1. t[s] = NoFact
                BY <1>2, <3>1 DEF Searched
            <4>2. r[s] = NoFact
                BY <1>1, <3>1 DEF Searched
            <4> QED BY <4>1, <4>2
        <3>2. CASE s # {}
            <4>1. Greatest(s) \in s
                BY <1>4, <3>2, GreatestIn
            <4>2. t[s \ {Greatest(s)}] = r[s \ {Greatest(s)}]
                BY <2>1, <4>1
            <4>3. t[s] = Next1(facts, address, Greatest(s), t[s \ {Greatest(s)}])
                BY <1>2, <3>2 DEF Searched
            <4>4. r[s] = Next1(facts, address, Greatest(s), r[s \ {Greatest(s)}])
                BY <1>1, <3>2 DEF Searched
            <4> QED BY <4>2, <4>3, <4>4
        <3> QED BY <3>1, <3>2
    <2>2. Inductive(D, H)
        BY <2>1 DEF Inductive
    <2> HIDE DEF H
    <2>3. \A s \in SUBSET D : s \in H
        BY <1>4, <2>2, SubsetInduction
    <2> QED BY <2>3 DEF H
<1>6. \A s \in SUBSET D : t[s] \in Annotations
    BY <1>1, <1>5
<1>7. ASSUME NEW s \in SUBSET D, \A u \in SUBSET s : u # s => u \in G
      PROVE  Specific(s)
    <2>1. CASE s = {}
        BY <1>2, <2>1 DEF Searched
    <2>2. CASE s # {}
        <3> DEFINE x == Greatest(s)
                   rest == s \ {x}
                   b == t[rest]
                   f == facts[x]
        <3>1. x \in s
            BY <1>4, <2>2, GreatestIn
        <3>2. /\ b = NoFact \/ Covers(b, address)
              /\ \A i \in rest : Covers(facts[i], address) => b # NoFact /\ Extent(b) <= Extent(facts[i])
            BY <1>7, <3>1
        <3>3. t[s] = IF Covers(f, address) /\ Better(f, b) THEN f ELSE b
            BY <1>2, <2>2 DEF Searched, Next1
        <3>4. f \in Annotations /\ b \in Annotations /\ \A i \in s : facts[i] \in Annotations
            BY <1>3, <1>6, <3>1
        <3>5. \A a \in Annotations : Extent(a) \in Nat
            BY DEF Extent, Annotations
        <3>6. s = rest \cup {x}
            BY <3>1
        <3> HIDE DEF x, rest, b, G
        <3>7. CASE Covers(f, address) /\ Better(f, b)
            <4>1. t[s] = f /\ f # NoFact
                BY <3>3, <3>7 DEF Covers, NoFact
            <4>2. ASSUME NEW i \in rest, Covers(facts[i], address)
                  PROVE  Extent(f) <= Extent(facts[i])
                BY <3>2, <3>4, <3>5, <3>6, <3>7, <4>2, BetterIsSpecific
            <4> QED BY <3>4, <3>5, <3>6, <3>7, <4>1, <4>2
        <3>8. CASE Covers(f, address) /\ ~Better(f, b)
            <4>1. t[s] = b /\ b # NoFact
                BY <3>3, <3>8 DEF Better
            <4>2. Extent(b) <= Extent(f)
                BY <3>4, <3>8, <4>1, BetterIsSpecific
            <4> QED BY <3>2, <3>6, <4>1, <4>2
        <3>9. CASE ~Covers(f, address)
            BY <3>2, <3>3, <3>6, <3>9
        <3> QED BY <3>7, <3>8, <3>9
    <2> QED BY <2>1, <2>2
<1>8. Inductive(D, G)
    BY <1>7 DEF Inductive
<1>9. D \in G
    <2> HIDE DEF G
    <2> QED BY <1>4, <1>8, SubsetInduction
<1>10. Attribution(address) = t[D]
    BY AttributionSearched DEF t
<1>11. t[D] \in Annotations
    BY <1>6
<1> QED BY <1>9, <1>10, <1>11

-----------------------------------------------------------------------------
(* The invariant: what a thread's record holds where it is, what the one   *)
(* that has the workspace is about to write, and what the file holds.      *)
Frames ==
    [handler : {"Boundary"}, owner : PatchOwners \cup {"None"}]
    \cup [handler : {"Expectation"}, instruction : Nat, access : Accesses]

FaultReports == [kind : {"Fault"}, attempt : Nat, op : Operations, fact : Annotations]
FatalReports == [kind : {"Fatal"}, attempt : Nat, owner : PatchOwners \cup {"None"}]
Entries == FaultReports \cup FatalReports \cup [kind : {"Old", "Torn"}]

CalmThreads == [at : {"Running", "Fatal", "Reporting", "Terminating"}, frames : Seq(Frames)]
FaultyThreads ==
    [at : {"Raised", "Searching"}, frames : Seq(Frames), op : Operations, access : Accesses \cup Others,
     reported : BOOLEAN]
ReportingThreads ==
    [at : {"Writing", "Searching"}, frames : Seq(Frames), op : Operations, access : Accesses \cup Others,
     reported : BOOLEAN, report : FaultReports]
FatalThreads == [at : {"WritingFatal", "Terminating"}, frames : Seq(Frames), report : FatalReports]
ThreadRecords == CalmThreads \cup FaultyThreads \cup ReportingThreads \cup FatalThreads

WritingPlaces == {"Writing", "WritingFatal"}

(* A report names an operation that is as specific as the faulting one.    *)
Names(report) == Covers(report.fact, report.op.address) /\ Extent(report.fact) <= Extent(report.op)

CrashTypes ==
    /\ facts \in Seq(Annotations)
    /\ installed \subseteq Operations /\ \A op \in installed : \E k \in DOMAIN facts : facts[k] = op
    /\ thread \in [Threads -> ThreadRecords]
    /\ handling \in Threads \cup {"None"}
    /\ attempts \in 0 .. MaxAttempts /\ kept \subseteq 1 .. attempts

ThreadOk(t) ==
    /\ handling = t <=> thread[t].at \in WritingPlaces
    /\ thread[t].at = "Raised" => thread[t].op \in installed /\ ~thread[t].reported
    /\ thread[t].at \in {"Writing", "Searching"} /\ thread[t].reported => ~Expected(t)
    /\ thread[t].at \in WritingPlaces => thread[t].report.attempt = attempts /\ attempts \in (1 .. attempts) \ kept
    /\ thread[t].at = "Writing" => Names(thread[t].report)

FileOk ==
    /\ file \in Seq(Entries)
    /\ FileSound
    /\ ~started => Whole = {}
    /\ Attributed

CrashInv == CrashTypes /\ (\A t \in Threads : ThreadOk(t)) /\ FileOk

-----------------------------------------------------------------------------
(* The file. *)

LEMMA EndedBadly ==
    ASSUME FileOk, file' \in Unfinished, UNCHANGED <<started, kept>>
    PROVE  FileOk'
<1>1. /\ file \in Seq(Entries) /\ DOMAIN file = 1 .. Len(file) /\ Len(file) \in Nat
      /\ started \/ Whole = {}
    BY DEF FileOk
<1>2. CASE file' = file
    BY <1>2 DEF FileOk, FileSound, Whole, Attributed
<1>3. CASE file' = <<>> /\ ~started
    <2>1. file' \in Seq(Entries) /\ DOMAIN file' = {}
        BY <1>3
    <2>2. kept = {}
        BY <1>3 DEF FileOk, FileSound
    <2> QED BY <1>3, <2>1, <2>2 DEF FileOk, FileSound, Whole, Attributed
<1>4. CASE \E base \in {file, <<>>} : /\ file' = Append(base, [kind |-> "Torn"])
                                      /\ base = file \/ ~started
    <2>1. PICK base \in {file, <<>>} : /\ file' = Append(base, [kind |-> "Torn"])
                                       /\ base = file \/ ~started
        BY <1>4
    <2>2. base \in Seq(Entries) /\ [kind |-> "Torn"] \in Entries
        <3>1. [kind |-> "Torn"] \in [kind : {"Old", "Torn"}]
            OBVIOUS
        <3>2. [kind |-> "Torn"] \in Entries
            BY <3>1 DEF Entries
        <3>3. << >> \in Seq(Entries)
            OBVIOUS
        <3>4. base = file \/ base = << >>
            OBVIOUS
        <3> QED BY <1>1, <3>2, <3>3, <3>4
    <2>3. /\ file' \in Seq(Entries) /\ DOMAIN file' = 1 .. Len(base) + 1
          /\ file'[Len(base) + 1] = [kind |-> "Torn"]
          /\ DOMAIN base = 1 .. Len(base) /\ Len(base) \in Nat
          /\ \A i \in DOMAIN base : file'[i] = base[i]
        BY <2>1, <2>2
    <2>4. /\ Whole' = IF base = file THEN Whole ELSE {}
          /\ \A i \in Whole' : file'[i] = file[i]
          /\ \A i \in DOMAIN file' : file'[i].kind = "Fault" => i \in DOMAIN file /\ base = file /\ file'[i] = file[i]
        <3>1. \A i \in DOMAIN file' : i = Len(base) + 1 \/ i \in DOMAIN base
            BY <2>3
        <3>2. \A i \in DOMAIN file' : file'[i].kind \in {"Fault", "Fatal"} => i \in DOMAIN base /\ file'[i] = base[i]
            BY <2>3, <3>1
        <3> QED BY <2>1, <2>3, <3>2 DEF Whole
    <2>5. CASE base = file
        BY <2>3, <2>4, <2>5 DEF FileOk, FileSound, Attributed
    <2>6. CASE base # file
        <3>1. kept = {} /\ ~started
            BY <2>1, <2>6 DEF FileOk, FileSound
        <3> QED BY <2>3, <2>4, <2>6, <3>1 DEF FileOk, FileSound, Attributed
    <2> QED BY <2>5, <2>6
<1> QED BY <1>2, <1>3, <1>4 DEF Unfinished, WritingBase

LEMMA EndedWell ==
    ASSUME FileOk, NEW report \in FaultReports \cup FatalReports,
           report.kind = "Fault" => Names(report),
           kept \subseteq Nat, \A n \in kept : n < report.attempt,
           file' = Append(WritingBase, report), started' = TRUE, kept' = kept \cup {report.attempt}
    PROVE  FileOk'
<1> DEFINE base == WritingBase
<1>1. /\ file \in Seq(Entries) /\ base \in Seq(Entries) /\ report \in Entries
      /\ report.kind \in {"Fault", "Fatal"} /\ report.attempt \in Nat
    BY DEF FileOk, WritingBase, Entries, FaultReports, FatalReports
<1>2. /\ file' = Append(base, report)
      /\ (base = file /\ started) \/ (base = <<>> /\ ~started)
    BY DEF WritingBase
<1> HIDE DEF base
<1>3. /\ file' \in Seq(Entries) /\ DOMAIN file' = 1 .. Len(base) + 1
      /\ file'[Len(base) + 1] = report
      /\ DOMAIN base = 1 .. Len(base) /\ Len(base) \in Nat
      /\ \A i \in DOMAIN base : file'[i] = base[i]
    BY <1>1, <1>2
<1> DEFINE old == IF started THEN Whole ELSE {}
<1>4. old = Whole /\ old \subseteq DOMAIN base /\ \A i \in old : file'[i] = file[i] /\ base[i] = file[i]
    BY <1>2, <1>3 DEF Whole, FileOk
<1>5. Whole' = old \cup {Len(base) + 1}
    <2>1. \A i \in DOMAIN file' : i = Len(base) + 1 \/ i \in DOMAIN base
        BY <1>3
    <2>2. \A i \in DOMAIN base : i \in old <=> base[i].kind \in {"Fault", "Fatal"}
        BY <1>2, <1>3 DEF Whole
    <2>3. Len(base) + 1 \in DOMAIN file' /\ DOMAIN base \subseteq DOMAIN file'
        BY <1>3
    <2>4. \A i \in DOMAIN file' :
            file'[i].kind \in {"Fault", "Fatal"} <=> i = Len(base) + 1 \/ i \in old
        BY <1>1, <1>3, <1>4, <2>1, <2>2
    <2>5. old \subseteq DOMAIN file'
        BY <1>4, <2>3
    <2> HIDE DEF old
    <2>6. Whole' = {i \in DOMAIN file' : file'[i].kind \in {"Fault", "Fatal"}}
        BY DEF Whole
    <2> QED BY <2>3, <2>4, <2>5, <2>6
<1>6. {file'[i].attempt : i \in Whole'} = kept'
    <2>1. {file'[i].attempt : i \in old} = {file[i].attempt : i \in Whole}
        BY <1>4
    <2>2. {file[i].attempt : i \in Whole} = kept
        BY DEF FileOk, FileSound
    <2> HIDE DEF old
    <2>3. {file'[i].attempt : i \in Whole'} = {file'[i].attempt : i \in old} \cup {file'[Len(base) + 1].attempt}
        BY <1>5
    <2> QED BY <1>3, <2>1, <2>2, <2>3
<1>7. \A i, j \in Whole' : i < j => file'[i].attempt < file'[j].attempt
    <2>1. \A i \in old : file'[i].attempt \in kept
        BY <1>4 DEF FileOk, FileSound
    <2>2. \A i \in old : i < Len(base) + 1 /\ i \in Nat
        BY <1>3, <1>4
    <2>3. \A i, j \in old : i < j => file'[i].attempt < file'[j].attempt
        BY <1>4 DEF FileOk, FileSound
    <2> HIDE DEF old
    <2>4. ~(Len(base) + 1 < Len(base) + 1) /\ \A i \in old : ~(Len(base) + 1 < i)
        BY <1>3, <2>2
    <2>5. file'[Len(base) + 1].attempt = report.attempt
        BY <1>3
    <2> DEFINE last == Len(base) + 1
               number(i) == file'[i].attempt
    <2>6. \A i \in old : number(i) < number(last)
        BY <2>1, <2>5
    <2>7. \A i, j \in old : i < j => number(i) < number(j)
        BY <2>3
    <2>8. ~(last < last) /\ \A i \in old : ~(last < i)
        BY <2>4
    <2>9. Whole' = old \cup {last}
        BY <1>5
    <2> HIDE DEF last, number
    <2>10. \A i, j \in old \cup {last} : i < j => number(i) < number(j)
        BY <2>6, <2>7, <2>8, Zenon
    <2>11. \A i, j \in Whole' : i < j => number(i) < number(j)
        BY <2>9, <2>10, Zenon
    <2> QED BY <2>11 DEF number
<1>8. 1 \in Whole'
    <2>1. CASE started
        BY <1>4, <1>5, <2>1 DEF FileOk, FileSound
    <2>2. CASE ~started
        BY <1>2, <1>5, <2>2
    <2> QED BY <2>1, <2>2
<1>9. Attributed'
    <2>1. ASSUME NEW i \in DOMAIN file', file'[i].kind = "Fault"
          PROVE  Names(file'[i])
        <3>1. CASE i = Len(base) + 1
            BY <1>3, <2>1, <3>1
        <3>2. CASE i \in DOMAIN base
            BY <1>2, <1>3, <2>1, <3>2 DEF FileOk, Attributed, Names
        <3> QED BY <1>3, <3>1, <3>2
    <2> QED BY <2>1 DEF Attributed, Names
<1> QED BY <1>3, <1>6, <1>7, <1>8, <1>9 DEF FileOk, FileSound

-----------------------------------------------------------------------------
(* The steps of a thread. *)

\* The variables a thread's record speaks of.
OthersKeep(t) ==
    /\ installed' = installed
    /\ \/ UNCHANGED <<handling, attempts, kept>>
       \/ handling = "None" /\ handling' = t
       \/ handling = t /\ handling' = "None"

LEMMA OthersOk ==
    ASSUME CrashAssumption, CrashInv, NEW t \in Threads, NEW record,
           thread' = [thread EXCEPT ![t] = record], OthersKeep(t),
           NEW u \in Threads, u # t
    PROVE  ThreadOk(u)'
<1>1. thread'[u] = thread[u]
    BY DEF CrashInv, CrashTypes
<1>2. ThreadOk(u)
    BY DEF CrashInv
<1>3. Expected(u)' <=> Expected(u)
    BY <1>1 DEF Expected, Matches
<1>4. "None" # u /\ "None" # t
    BY DEF CrashAssumption
<1>5. CASE UNCHANGED <<handling, attempts, kept>>
    BY <1>1, <1>2, <1>3, <1>5 DEF ThreadOk, OthersKeep
<1>6. CASE handling # u /\ handling' # u
    BY <1>1, <1>2, <1>3, <1>6 DEF ThreadOk, OthersKeep
<1> QED BY <1>4, <1>5, <1>6 DEF OthersKeep

\* A step of one thread, with what is left to show of it.
LEMMA ThreadStep ==
    ASSUME CrashAssumption, CrashInv, NEW t \in Threads, NEW record \in ThreadRecords,
           thread' = [thread EXCEPT ![t] = record], OthersKeep(t), UNCHANGED facts,
           handling' \in {handling, t, "None"},
           attempts' \in 0 .. MaxAttempts, kept' \subseteq 1 .. attempts',
           ThreadOk(t)', FileOk'
    PROVE  CrashInv'
<1>1. \A u \in Threads : ThreadOk(u)'
    <2>1. ASSUME NEW u \in Threads PROVE ThreadOk(u)'
        BY OthersOk
    <2> QED BY <2>1
<1>2. CrashTypes'
    BY DEF CrashInv, CrashTypes, OthersKeep
<1> QED BY <1>1, <1>2 DEF CrashInv

\* A step that leaves the workspace and the file alone.
LEMMA QuietThreadStep ==
    ASSUME CrashAssumption, CrashInv, NEW t \in Threads, NEW record \in ThreadRecords,
           thread' = [thread EXCEPT ![t] = record],
           UNCHANGED <<facts, installed, handling, attempts, file, started, kept>>,
           thread[t].at \notin WritingPlaces, record.at \notin WritingPlaces,
           record.at = "Raised" => record.op \in installed /\ ~record.reported,
           record.at = "Searching" => ~record.reported
    PROVE  CrashInv'
<1>1. thread'[t] = record
    BY DEF CrashInv, CrashTypes
<1>2. ThreadOk(t)'
    BY <1>1 DEF ThreadOk, CrashInv, WritingPlaces
<1>3. FileOk'
    BY DEF CrashInv, FileOk, FileSound, Whole, Attributed
<1>4. OthersKeep(t) /\ handling' \in {handling, t, "None"} /\ attempts' \in 0 .. MaxAttempts
      /\ kept' \subseteq 1 .. attempts'
    BY DEF OthersKeep, CrashInv, CrashTypes
<1> QED BY <1>2, <1>3, <1>4, ThreadStep

LEMMA ThreadShapes ==
    ASSUME CrashInv, NEW t \in Threads
    PROVE  /\ thread[t].at \in {"Running", "Fatal", "Reporting"} => thread[t] \in CalmThreads
           /\ thread[t].at = "Raised" => thread[t] \in FaultyThreads
           /\ thread[t].at = "Writing" => thread[t] \in ReportingThreads
           /\ thread[t].at = "Searching" => thread[t] \in FaultyThreads \cup ReportingThreads
           /\ thread[t].at = "WritingFatal" => thread[t] \in FatalThreads
           /\ thread[t].at = "Terminating" => thread[t] \in CalmThreads \cup FatalThreads
           /\ thread[t].frames \in Seq(Frames)
<1>1. thread[t] \in ThreadRecords
    BY DEF CrashInv, CrashTypes
<1> QED BY <1>1 DEF ThreadRecords, CalmThreads, FaultyThreads, ReportingThreads, FatalThreads

\* The innermost frame that takes the fault is one of the thread's.
LEMMA HandlerFrame ==
    ASSUME CrashInv, NEW t \in Threads, Handler(t) # 0
    PROVE  /\ Handler(t) \in DOMAIN thread[t].frames
           /\ thread[t].frames[Handler(t)].handler = "Boundary" \/ Matches(thread[t].frames[Handler(t)], t)
<1> DEFINE takes == {i \in DOMAIN thread[t].frames :
                       thread[t].frames[i].handler = "Boundary" \/ Matches(thread[t].frames[i], t)}
<1>1. takes # {} /\ Handler(t) = CHOOSE i \in takes : \A j \in takes : j <= i
    BY DEF Handler
<1>2. DOMAIN thread[t].frames = 1 .. Len(thread[t].frames) /\ Len(thread[t].frames) \in Nat
    BY ThreadShapes
<1>3. takes \in SUBSET (1 .. Len(thread[t].frames))
    BY <1>2
<1>4. Greatest(takes) \in takes /\ \A j \in takes : j <= Greatest(takes)
    <2> HIDE DEF takes
    <2>1. Greatest(takes) \in takes
        BY <1>1, <1>2, <1>3, GreatestIn
    <2> QED BY <2>1, <1>1, <1>2, <1>3, GreatestIn
<1>5. Handler(t) \in takes
    <2> HIDE DEF takes
    <2> QED BY <1>1, <1>4
<1> QED BY <1>5

LEMMA OuterFrames ==
    ASSUME CrashInv, NEW t \in Threads, NEW i \in 0 .. Len(thread[t].frames)
    PROVE  Outer(t, i) \in Seq(Frames)
<1>1. thread[t].frames \in Seq(Frames)
    BY ThreadShapes
<1>2. Len(thread[t].frames) \in Nat
    BY <1>1
<1>3. \A j \in 1 .. i : thread[t].frames[j] \in Frames
    BY <1>1, <1>2
<1> QED BY <1>1, <1>2, <1>3 DEF Outer

LEMMA CallStep ==
    ASSUME CrashAssumption, CrashInv, NEW t \in Threads, CallIn(t) \/ ReturnFrom(t)
    PROVE  CrashInv'
<1> DEFINE x == thread[t]
<1>1. x \in CalmThreads /\ x.at = "Running" /\ x.frames \in Seq(Frames) /\ DOMAIN x = {"at", "frames"}
    BY ThreadShapes DEF CallIn, ReturnFrom, ThreadAt, CalmThreads
<1>2. PICK frames \in Seq(Frames) : thread' = [thread EXCEPT ![t].frames = frames]
    <2>1. CASE CallIn(t)
        <3>a. PICK op \in installed :
                 \E frame \in {Boundary(op.owner)} \cup {Expectation(op, access) : access \in Accesses} :
                    thread' = [thread EXCEPT ![t].frames = Append(@, frame)]
            BY <2>1 DEF CallIn
        <3>1. PICK frame \in {Boundary(op.owner)} \cup {Expectation(op, access) : access \in Accesses} :
                 thread' = [thread EXCEPT ![t].frames = Append(@, frame)]
            BY <3>a
        <3>2. op.owner \in PatchOwners \cup {"None"} /\ op.address \in Nat
            BY DEF CrashInv, CrashTypes, CrashAssumption, Annotations
        <3>3. frame \in Frames
            BY <3>2 DEF Boundary, Expectation, Frames
        <3>4. Append(x.frames, frame) \in Seq(Frames)
            BY <1>1, <3>3
        <3> QED BY <3>1, <3>4
    <2>2. CASE ReturnFrom(t)
        <3>1. thread' = [thread EXCEPT ![t].frames = Front(@)] /\ x.frames # << >>
            BY <2>2 DEF ReturnFrom
        <3>2. Len(x.frames) - 1 \in 0 .. Len(x.frames)
            BY <1>1, <3>1
        <3>3. Front(x.frames) \in Seq(Frames)
            BY <3>2, OuterFrames DEF Front, Outer
        <3> QED BY <3>1, <3>3
    <2> QED BY <2>1, <2>2
<1> DEFINE record == [at |-> "Running", frames |-> frames]
<1>3. thread' = [thread EXCEPT ![t] = record]
    <2>1. [x EXCEPT !.frames = frames] = record
        BY <1>1 DEF CalmThreads
    <2> QED BY <1>2, <2>1
<1>4. record \in ThreadRecords
    BY DEF ThreadRecords, CalmThreads
<1>5. UNCHANGED <<facts, installed, handling, attempts, file, started, kept>>
    BY DEF CallIn, ReturnFrom
<1> QED BY <1>1, <1>3, <1>4, <1>5, QuietThreadStep DEF WritingPlaces

LEMMA RaiseStep ==
    ASSUME CrashAssumption, CrashInv, NEW t \in Threads, Raise(t)
    PROVE  CrashInv'
<1>1. thread[t].at = "Running" /\ thread[t].frames \in Seq(Frames)
    BY ThreadShapes DEF Raise, ThreadAt
<1>2. PICK op \in installed, access \in Accesses \cup Others :
         thread' = [thread EXCEPT ![t] = [at |-> "Raised", frames |-> thread[t].frames, op |-> op, access |-> access,
                                          reported |-> FALSE]]
    BY DEF Raise, Becomes
<1> DEFINE record == [at |-> "Raised", frames |-> thread[t].frames, op |-> op, access |-> access, reported |-> FALSE]
<1>3. record \in ThreadRecords
    <2>1. op \in Operations
        BY DEF CrashInv, CrashTypes
    <2>2. record \in FaultyThreads
        BY <1>1, <2>1 DEF FaultyThreads
    <2> QED BY <2>2 DEF ThreadRecords
<1>4. UNCHANGED <<facts, installed, handling, attempts, file, started, kept>>
    BY DEF Raise
<1> QED BY <1>1, <1>2, <1>3, <1>4, QuietThreadStep DEF WritingPlaces

\* A thread that only goes elsewhere keeps its record.
LEMMA GoesElsewhere ==
    ASSUME CrashInv, NEW t \in Threads, NEW at, Goes(t, at)
    PROVE  /\ thread' = [thread EXCEPT ![t] = [thread[t] EXCEPT !.at = at]]
           /\ thread[t] \in CalmThreads /\ at \in {"Running", "Fatal", "Reporting", "Terminating"}
                => [thread[t] EXCEPT !.at = at] \in CalmThreads
           /\ thread[t] \in FaultyThreads /\ at \in {"Raised", "Searching"}
                => [thread[t] EXCEPT !.at = at] \in FaultyThreads
           /\ thread[t] \in ReportingThreads /\ at \in {"Writing", "Searching"}
                => [thread[t] EXCEPT !.at = at] \in ReportingThreads
           /\ thread[t] \in FatalThreads /\ at \in {"WritingFatal", "Terminating"}
                => [thread[t] EXCEPT !.at = at] \in FatalThreads
BY DEF Goes, CalmThreads, FaultyThreads, ReportingThreads, FatalThreads

LEMMA FailStep ==
    ASSUME CrashAssumption, CrashInv, NEW t \in Threads, Fail(t)
    PROVE  CrashInv'
<1>1. thread[t].at = "Running" /\ thread[t] \in CalmThreads /\ thread[t].frames \in Seq(Frames)
    BY ThreadShapes DEF Fail, ThreadAt
<1>2. PICK record \in CalmThreads : thread' = [thread EXCEPT ![t] = record] /\ record.at = "Fatal"
    <2>1. CASE Goes(t, "Fatal")
        <3>1. /\ thread' = [thread EXCEPT ![t] = [thread[t] EXCEPT !.at = "Fatal"]]
              /\ [thread[t] EXCEPT !.at = "Fatal"] \in CalmThreads
            BY <1>1, <2>1, GoesElsewhere
        <3>2. [thread[t] EXCEPT !.at = "Fatal"].at = "Fatal"
            BY <1>1 DEF CalmThreads
        <3> QED BY <3>1, <3>2
    <2>2. ASSUME NEW owner \in PatchOwners,
                 Becomes(t, [at |-> "Fatal", frames |-> Append(thread[t].frames, Boundary(owner))])
          PROVE  \E record \in CalmThreads : thread' = [thread EXCEPT ![t] = record] /\ record.at = "Fatal"
        <3>1. Boundary(owner) \in Frames
            BY DEF Boundary, Frames
        <3>2. Append(thread[t].frames, Boundary(owner)) \in Seq(Frames)
            BY <1>1, <3>1
        <3>3. [at |-> "Fatal", frames |-> Append(thread[t].frames, Boundary(owner))] \in CalmThreads
            BY <3>2 DEF CalmThreads
        <3> QED BY <2>2, <3>3 DEF Becomes
    <2> QED BY <2>1, <2>2 DEF Fail
<1>3. UNCHANGED <<facts, installed, handling, attempts, file, started, kept>>
    BY DEF Fail
<1> QED BY <1>1, <1>2, <1>3, QuietThreadStep DEF WritingPlaces, ThreadRecords

LEMMA FirstFatalStep ==
    ASSUME CrashAssumption, CrashInv, NEW t \in Threads, FirstFatal(t)
    PROVE  CrashInv'
<1>1. thread[t].at = "Fatal" /\ thread[t] \in CalmThreads
    BY ThreadShapes DEF FirstFatal, ThreadAt
<1>2. PICK at \in {"Terminating", "Reporting"} : Goes(t, at)
    BY DEF FirstFatal
<1> DEFINE record == [thread[t] EXCEPT !.at = at]
<1>3. thread' = [thread EXCEPT ![t] = record] /\ record \in CalmThreads /\ record.at = at
    BY <1>1, <1>2, GoesElsewhere DEF CalmThreads
<1>4. UNCHANGED <<facts, installed, handling, attempts, file, started, kept>>
    BY DEF FirstFatal
<1> HIDE DEF record
<1> QED BY <1>1, <1>3, <1>4, QuietThreadStep DEF WritingPlaces, ThreadRecords

LEMMA ObserveStep ==
    ASSUME CrashAssumption, CrashInv, NEW t \in Threads, Observe(t)
    PROVE  CrashInv'
<1> DEFINE x == thread[t]
           fact == Attribution(x.op.address)
           report == [kind |-> "Fault", attempt |-> attempts + 1, op |-> x.op, fact |-> fact]
           record == [at |-> "Writing", frames |-> x.frames, op |-> x.op, access |-> x.access, reported |-> TRUE,
                      report |-> report]
<1>1. x.at = "Raised" /\ x \in FaultyThreads /\ x.op \in installed /\ ~x.reported
    BY ThreadShapes DEF Observe, ThreadAt, CrashInv, ThreadOk
<1>2. CASE ~(Qualifying(t) /\ Claimable)
    <2>1. Goes(t, "Searching") /\ UNCHANGED <<facts, installed, handling, attempts, file, started, kept>>
        BY <1>2 DEF Observe
    <2>2. /\ thread' = [thread EXCEPT ![t] = [x EXCEPT !.at = "Searching"]]
          /\ [x EXCEPT !.at = "Searching"] \in FaultyThreads
        BY <1>1, <2>1, GoesElsewhere
    <2>3. [x EXCEPT !.at = "Searching"].at = "Searching" /\ ~[x EXCEPT !.at = "Searching"].reported
        BY <1>1 DEF FaultyThreads
    <2>4. [x EXCEPT !.at = "Searching"] \in ThreadRecords
        BY <2>2 DEF ThreadRecords
    <2> HIDE DEF x
    <2> QED BY <1>1, <2>1, <2>2, <2>3, <2>4, QuietThreadStep DEF WritingPlaces, x
<1>3. CASE Qualifying(t) /\ Claimable
    <2>1. /\ handling = "None" /\ attempts < MaxAttempts /\ handling' = t /\ attempts' = attempts + 1
          /\ thread' = [thread EXCEPT ![t] = record]
          /\ UNCHANGED <<facts, installed, file, started, kept>>
        BY <1>3 DEF Observe, Claimable, Claimed, Becomes
    <2>2. /\ attempts \in Nat /\ MaxAttempts \in Nat /\ kept \subseteq 1 .. attempts
          /\ facts \in Seq(Annotations) /\ \E k \in DOMAIN facts : facts[k] = x.op
          /\ x.op \in Operations
        BY <1>1 DEF CrashInv, CrashTypes, CrashAssumption
    <2>3. Covers(x.op, x.op.address)
        <3>1. x.op \in Annotations /\ x.op.address # 0
            BY <2>2 DEF CrashAssumption
        <3> QED BY <3>1 DEF Covers, Annotations
    <2>4. fact \in Annotations /\ Covers(fact, x.op.address) /\ Extent(fact) <= Extent(x.op)
        BY <2>2, <2>3, AttributionSpecific
    <2> HIDE DEF fact
    <2>5. report \in FaultReports /\ report.attempt = attempts + 1 /\ Names(report)
        BY <2>2, <2>4 DEF FaultReports, Names
    <2> HIDE DEF report
    <2>6. record \in ReportingThreads
        BY <1>1, <2>5 DEF ReportingThreads, FaultyThreads
    <2>7. thread'[t] = record
        BY <2>1 DEF CrashInv, CrashTypes
    <2>8. ~Expected(t)'
        <3>1. ~Expected(t)
            BY <1>3 DEF Qualifying
        <3> QED BY <2>7, <3>1 DEF Expected, Matches
    <2>9. attempts' \in 0 .. MaxAttempts /\ kept' \subseteq 1 .. attempts' /\ attempts' \in (1 .. attempts') \ kept'
        BY <2>1, <2>2
    <2>10. ThreadOk(t)'
        BY <2>1, <2>5, <2>7, <2>8, <2>9 DEF ThreadOk, WritingPlaces
    <2>11. FileOk'
        BY <2>1 DEF CrashInv, FileOk, FileSound, Whole, Attributed
    <2>12. OthersKeep(t)
        BY <2>1 DEF OthersKeep
    <2> QED BY <2>1, <2>6, <2>9, <2>10, <2>11, <2>12, ThreadStep DEF ThreadRecords
<1> QED BY <1>2, <1>3

LEMMA FatalReportStep ==
    ASSUME CrashAssumption, CrashInv, NEW t \in Threads, FatalReport(t)
    PROVE  CrashInv'
<1> DEFINE x == thread[t]
           owner == IF Identified(Consumer(t)) THEN Consumer(t) ELSE "None"
           report == [kind |-> "Fatal", attempt |-> attempts + 1, owner |-> owner]
           record == [at |-> "WritingFatal", frames |-> x.frames, report |-> report]
<1>1. x.at = "Reporting" /\ x \in CalmThreads /\ x.frames \in Seq(Frames)
    BY ThreadShapes DEF FatalReport, ThreadAt
<1>2. CASE ~Claimable
    <2>1. Goes(t, "Terminating") /\ UNCHANGED <<facts, installed, handling, attempts, file, started, kept>>
        BY <1>2 DEF FatalReport
    <2>2. /\ thread' = [thread EXCEPT ![t] = [x EXCEPT !.at = "Terminating"]]
          /\ [x EXCEPT !.at = "Terminating"] \in CalmThreads
        BY <1>1, <2>1, GoesElsewhere
    <2>3. [x EXCEPT !.at = "Terminating"].at = "Terminating"
        BY <1>1 DEF CalmThreads
    <2>4. [x EXCEPT !.at = "Terminating"] \in ThreadRecords
        BY <2>2 DEF ThreadRecords
    <2> HIDE DEF x
    <2> QED BY <1>1, <2>1, <2>2, <2>3, <2>4, QuietThreadStep DEF WritingPlaces, x
<1>3. CASE Claimable
    <2>1. /\ handling = "None" /\ attempts < MaxAttempts /\ handling' = t /\ attempts' = attempts + 1
          /\ thread' = [thread EXCEPT ![t] = record]
          /\ UNCHANGED <<facts, installed, file, started, kept>>
        BY <1>3 DEF FatalReport, Claimable, Claimed, Becomes
    <2>2. attempts \in Nat /\ MaxAttempts \in Nat /\ kept \subseteq 1 .. attempts
        BY DEF CrashInv, CrashTypes, CrashAssumption
    <2>3. owner \in PatchOwners \cup {"None"}
        <3>1. \A i \in DOMAIN facts : facts[i].owner \in PatchOwners \cup {"None"}
            <4>1. \A i \in DOMAIN facts : facts[i] \in Annotations
                BY DEF CrashInv, CrashTypes
            <4> QED BY <4>1 DEF Annotations
        <3>2. Identified(Consumer(t)) => Consumer(t) \in PatchOwners \cup {"None"}
            BY <3>1 DEF Identified
        <3> QED BY <3>2
    <2> HIDE DEF owner
    <2>4. report \in FatalReports /\ report.attempt = attempts + 1
        BY <2>2, <2>3 DEF FatalReports
    <2> HIDE DEF report
    <2>5. record \in FatalThreads
        BY <1>1, <2>4 DEF FatalThreads
    <2>6. thread'[t] = record
        BY <2>1 DEF CrashInv, CrashTypes
    <2>7. attempts' \in 0 .. MaxAttempts /\ kept' \subseteq 1 .. attempts' /\ attempts' \in (1 .. attempts') \ kept'
        BY <2>1, <2>2
    <2>8. ThreadOk(t)'
        BY <2>1, <2>4, <2>6, <2>7 DEF ThreadOk, WritingPlaces
    <2>9. FileOk'
        BY <2>1 DEF CrashInv, FileOk, FileSound, Whole, Attributed
    <2>10. OthersKeep(t)
        BY <2>1 DEF OthersKeep
    <2> QED BY <2>1, <2>5, <2>7, <2>8, <2>9, <2>10, ThreadStep DEF ThreadRecords
<1> QED BY <1>2, <1>3

\* The report is written or not, and the workspace is free again.
LEMMA WriteReportStep ==
    ASSUME CrashAssumption, CrashInv, NEW t \in Threads, WriteReport(t)
    PROVE  CrashInv'
<1> DEFINE x == thread[t]
           at == AfterReport(t)
           record == [x EXCEPT !.at = at]
<1>1. /\ x.at \in WritingPlaces /\ handling = t /\ handling' = "None"
      /\ x.report.attempt = attempts /\ attempts \in (1 .. attempts) \ kept
      /\ x.at = "Writing" => Names(x.report)
    BY DEF WriteReport, ThreadAt, WritingPlaces, CrashInv, ThreadOk
<1>2. /\ x.at = "Writing" => x \in ReportingThreads /\ at = "Searching"
      /\ x.at = "WritingFatal" => x \in FatalThreads /\ at = "Terminating"
    BY ThreadShapes DEF AfterReport
<1>3. /\ UNCHANGED <<facts, installed, attempts>> /\ Goes(t, at)
      /\ \/ file' = Append(WritingBase, x.report) /\ started' = TRUE /\ kept' = kept \cup {x.report.attempt}
         \/ file' \in Unfinished /\ UNCHANGED <<started, kept>>
    BY DEF WriteReport
<1> HIDE DEF at
<1>4. thread' = [thread EXCEPT ![t] = record] /\ record \in ThreadRecords
    BY <1>1, <1>2, <1>3, GoesElsewhere DEF WritingPlaces, ThreadRecords
<1>5. thread'[t] = record
    BY <1>4 DEF CrashInv, CrashTypes
<1>6. ThreadOk(t)'
    <2>1. CASE x.at = "Writing"
        <3>1. record.at = "Searching" /\ record.frames = x.frames /\ record.op = x.op /\ record.access = x.access
              /\ record.reported = x.reported
            BY <1>2, <2>1 DEF ReportingThreads
        <3>2. x.reported => ~Expected(t)
            BY <2>1 DEF CrashInv, ThreadOk
        <3>3. Expected(t)' <=> Expected(t)
            BY <1>5, <3>1 DEF Expected, Matches
        <3>4. handling' # t
            BY <1>1 DEF CrashAssumption
        <3> HIDE DEF record
        <3> QED BY <1>5, <3>1, <3>2, <3>3, <3>4 DEF ThreadOk, WritingPlaces
    <2>2. CASE x.at = "WritingFatal"
        <3>1. record.at = "Terminating"
            BY <1>2, <2>2 DEF FatalThreads
        <3>2. handling' # t
            BY <1>1 DEF CrashAssumption
        <3> HIDE DEF record
        <3> QED BY <1>5, <3>1, <3>2 DEF ThreadOk, WritingPlaces
    <2> QED BY <1>1, <2>1, <2>2 DEF WritingPlaces
<1>7. attempts \in 0 .. MaxAttempts /\ kept \subseteq 1 .. attempts /\ attempts \in Nat
    BY DEF CrashInv, CrashTypes, CrashAssumption
<1>8. kept' \subseteq 1 .. attempts'
    BY <1>1, <1>3, <1>7
<1>9. FileOk'
    <2>1. CASE file' \in Unfinished /\ UNCHANGED <<started, kept>>
        BY <2>1, EndedBadly DEF CrashInv
    <2>2. CASE file' = Append(WritingBase, x.report) /\ started' = TRUE /\ kept' = kept \cup {x.report.attempt}
        <3>1. x.report \in FaultReports \cup FatalReports
            BY <1>1, <1>2 DEF ReportingThreads, FatalThreads, WritingPlaces
        <3>2. x.report.kind = "Fault" => Names(x.report)
            BY <1>1, <1>2 DEF FatalThreads, FatalReports, WritingPlaces
        <3>3. kept \subseteq Nat /\ \A n \in kept : n < x.report.attempt
            BY <1>1, <1>7
        <3> QED BY <2>2, <3>1, <3>2, <3>3, EndedWell DEF CrashInv
    <2> QED BY <1>3, <2>1, <2>2
<1>10. OthersKeep(t)
    BY <1>1, <1>3 DEF OthersKeep
<1> HIDE DEF record
<1> QED BY <1>1, <1>3, <1>4, <1>6, <1>7, <1>8, <1>9, <1>10, ThreadStep

\* The process ends as it is, and perhaps in the middle of a report.
LEMMA EndStep ==
    ASSUME CrashInv, EndProcess, UNCHANGED <<facts, installed, thread, handling, attempts, started, kept>>
    PROVE  CrashInv'
<1>1. file' \in Unfinished
    BY DEF EndProcess, Unfinished
<1>2. FileOk'
    BY <1>1, EndedBadly DEF CrashInv
<1>3. \A t \in Threads : ThreadOk(t)'
    BY DEF CrashInv, ThreadOk, Expected, Matches
<1> QED BY <1>2, <1>3 DEF CrashInv, CrashTypes

LEMMA SearchStep ==
    ASSUME CrashAssumption, CrashInv, NEW t \in Threads, Search(t)
    PROVE  CrashInv'
<1>1. thread[t].at = "Searching" /\ thread[t].frames \in Seq(Frames)
    BY ThreadShapes DEF Search, ThreadAt
<1>2. CASE EndProcess /\ UNCHANGED thread
    BY <1>2, EndStep DEF Search
<1>3. CASE (CaughtByGame(t) \/ CaughtByFrame(t)) /\ UNCHANGED file
    <2>1. \A i \in 0 .. Len(thread[t].frames), at \in {"Running", "Fatal"} :
             [at |-> at, frames |-> Outer(t, i)] \in CalmThreads
        BY OuterFrames DEF CalmThreads
    <2>2. Len(thread[t].frames) \in Nat
        BY <1>1
    <2>3. Handler(t) \in 0 .. Len(thread[t].frames)
        BY <1>1, <2>2, HandlerFrame
    <2>4. PICK record \in CalmThreads : Becomes(t, record) /\ record.at \in {"Running", "Fatal"}
        <3>1. CASE CaughtByGame(t)
            <4>1. PICK i \in Handler(t) .. Len(thread[t].frames) :
                     Becomes(t, [at |-> "Running", frames |-> Outer(t, i)])
                BY <3>1 DEF CaughtByGame
            <4>2. i \in 0 .. Len(thread[t].frames)
                BY <2>2, <2>3
            <4> QED BY <2>1, <4>1, <4>2
        <3>2. CASE CaughtByFrame(t)
            <4>1. Handler(t) # 0 /\ Handler(t) - 1 \in 0 .. Len(thread[t].frames)
                BY <2>2, <2>3, <3>2 DEF CaughtByFrame
            <4> QED BY <2>1, <2>3, <3>2, <4>1 DEF CaughtByFrame
        <3> QED BY <1>3, <3>1, <3>2
    <2>5. UNCHANGED <<facts, installed, handling, attempts, file, started, kept>>
        BY <1>3 DEF Search
    <2> QED BY <1>1, <2>4, <2>5, QuietThreadStep DEF Becomes, WritingPlaces, ThreadRecords
<1> QED BY <1>2, <1>3 DEF Search

\* What a patch declares comes before what it installs.
LEMMA FactsStep ==
    ASSUME CrashAssumption, CrashInv, NEW owner \in PatchOwners, PublishFacts(owner) \/ Install(owner)
    PROVE  CrashInv'
<1>1. UNCHANGED <<thread, handling, attempts, file, started, kept>>
    BY DEF PublishFacts, Install
<1>2. facts' \in Seq(Annotations) /\ \A op : (\E k \in DOMAIN facts : facts[k] = op) => \E k \in DOMAIN facts' : facts'[k] = op
    <2>1. facts \in Seq(Annotations)
        BY DEF CrashInv, CrashTypes
    <2>2. CASE PublishFacts(owner)
        <3>1. PICK batch \in SetToSeqs(Operated(owner)) : facts' = batch \o facts
            BY <2>2 DEF PublishFacts
        <3>2. Cardinality(Operated(owner)) \in Nat /\ Operated(owner) \subseteq Annotations
            <4>1. Operated(owner) \subseteq Operations
                BY DEF Operated
            <4> QED BY <4>1, FS_Subset, FS_CardinalityType DEF CrashAssumption
        <3>3. batch \in [1 .. Cardinality(Operated(owner)) -> Operated(owner)]
            BY DEF SetToSeqs
        <3>4. batch \in Seq(Annotations)
            BY <3>2, <3>3
        <3>5. /\ facts' \in Seq(Annotations) /\ Len(facts') = Len(batch) + Len(facts)
              /\ \A k \in 1 .. Len(facts) : facts'[Len(batch) + k] = facts[k]
              /\ Len(batch) \in Nat /\ Len(facts) \in Nat /\ DOMAIN facts = 1 .. Len(facts)
              /\ DOMAIN facts' = 1 .. Len(facts')
            BY <2>1, <3>1, <3>4
        <3>6. \A k \in DOMAIN facts : Len(batch) + k \in DOMAIN facts' /\ facts'[Len(batch) + k] = facts[k]
            BY <3>5
        <3> QED BY <3>5, <3>6
    <2>3. CASE Install(owner)
        BY <2>1, <2>3 DEF Install
    <2> QED BY <2>2, <2>3
<1>3. installed \subseteq installed' /\ installed' \subseteq Operations
    BY DEF PublishFacts, Install, Operated, CrashInv, CrashTypes
<1>4. \A op \in installed' : \E k \in DOMAIN facts' : facts'[k] = op
    <2>1. CASE PublishFacts(owner)
        BY <1>2, <2>1 DEF PublishFacts, CrashInv, CrashTypes
    <2>2. CASE Install(owner)
        <3>1. \A op \in Operated(owner) : \E k \in DOMAIN facts : facts[k] = op
            BY <2>2 DEF Install, Installable, ToSet
        <3> QED BY <2>2, <3>1 DEF Install, CrashInv, CrashTypes
    <2> QED BY <2>1, <2>2
<1>5. CrashTypes'
    BY <1>1, <1>2, <1>3, <1>4 DEF CrashInv, CrashTypes
<1>6. \A t \in Threads : ThreadOk(t)'
    BY <1>1, <1>3 DEF CrashInv, ThreadOk, Expected, Matches
<1>7. FileOk'
    BY <1>1 DEF CrashInv, FileOk, FileSound, Whole, Attributed
<1> QED BY <1>5, <1>6, <1>7 DEF CrashInv

LEMMA CrashInitInv == ASSUME CrashAssumption, CrashInit PROVE CrashInv
<1>1. CrashTypes
    <2>1. [at |-> "Running", frames |-> << >>] \in ThreadRecords
        <3>1. << >> \in Seq(Frames)
            OBVIOUS
        <3> QED BY <3>1 DEF ThreadRecords, CalmThreads
    <2> QED BY <2>1 DEF CrashInit, CrashTypes, CrashAssumption
<1>2. \A t \in Threads : ThreadOk(t)
    BY DEF CrashInit, CrashAssumption, ThreadOk, WritingPlaces
<1>3. FileOk
    <2>1. [kind |-> "Old"] \in Entries
        <3>1. [kind |-> "Old"] \in [kind : {"Old", "Torn"}]
            OBVIOUS
        <3> QED BY <3>1 DEF Entries
    <2>2. file \in Seq(Entries) /\ DOMAIN file = {1} /\ file[1].kind = "Old"
        BY <2>1 DEF CrashInit
    <2>3. Whole = {}
        BY <2>2 DEF Whole
    <2> QED BY <2>2, <2>3 DEF CrashInit, FileOk, FileSound, Attributed
<1> QED BY <1>1, <1>2, <1>3 DEF CrashInv

LEMMA CrashNextInv == ASSUME CrashAssumption, CrashInv, [CrashNext]_crashVars PROVE CrashInv'
<1>1. ASSUME NEW t \in Threads, Handle(t) PROVE CrashInv'
    <2>1. CASE Terminate(t)
        BY <2>1, EndStep DEF Terminate
    <2> QED BY <1>1, <2>1, ObserveStep, WriteReportStep, SearchStep, FirstFatalStep, FatalReportStep DEF Handle
<1>2. CASE UNCHANGED crashVars
    BY <1>2 DEF crashVars, CrashInv, CrashTypes, ThreadOk, Expected, Matches, FileOk, FileSound, Whole, Attributed
<1> QED BY <1>1, <1>2, FactsStep, CallStep, RaiseStep, FailStep DEF CrashNext

LEMMA CrashInvSound == ASSUME CrashInv PROVE CrashesSound
<1>1. FileSound /\ Attributed
    BY DEF CrashInv, FileOk
<1>2. WorkspaceOwned
    BY DEF CrashInv, CrashTypes, ThreadOk, WorkspaceOwned, WritingPlaces
<1>3. ExpectedQuiet
    <2>1. ASSUME NEW t \in Threads, thread[t].at = "Searching", Handler(t) # 0,
                 thread[t].frames[Handler(t)].handler = "Expectation"
          PROVE  ~thread[t].reported
        <3>1. Expected(t)
            BY <2>1, HandlerFrame DEF Expected
        <3> QED BY <2>1, <3>1 DEF CrashInv, ThreadOk
    <2> QED BY <2>1 DEF ExpectedQuiet
<1> QED BY <1>1, <1>2, <1>3 DEF CrashesSound, ReportsSound

(* The crash log keeps every whole report in its order, each names code as *)
(* specific as what failed, one thread at a time writes it, and what a     *)
(* thread expects is not reported (exception_capture.cpp), whatever the    *)
(* number of threads, patches and operations.                              *)
THEOREM CrashesHold == CrashSpec => []CrashesSound
<1> USE CrashAssumption
<1>1. CrashInit => CrashInv
    BY CrashInitInv
<1>2. CrashInv /\ [CrashNext]_crashVars => CrashInv'
    BY CrashNextInv
<1>3. CrashInv => CrashesSound
    BY CrashInvSound
<1> QED BY <1>1, <1>2, <1>3, PTL DEF CrashSpec
=============================================================================
