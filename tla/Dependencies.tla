----------------------------- MODULE Dependencies -----------------------------
(***************************************************************************)
(* The traversal of resolve_dependencies().  It goes depth first through   *)
(* the providers of every pending patch, fails the patches of a cycle when *)
(* it comes back to one of them, and gives each patch its state when all   *)
(* its providers have theirs.                                              *)
(*                                                                         *)
(* A step is one turn of the loop over the providers of the patch on top   *)
(* of "active".  A provider that was entered stays in the loop's "todo":   *)
(* the turn is taken again when the visit has returned, which is then all  *)
(* that visit() does, and its result is looked at.                         *)
(***************************************************************************)
EXTENDS DependencyRules, Integers, Sequences

CONSTANTS Patches,
          Selections   \* states a patch may have before the traversal

ASSUME DependenciesAssumption == Selections \subseteq PatchStates \ {"Preparing"}

VARIABLES
    selected,    \* [Patches -> Selections]: the states before
    providers,   \* [Patches -> SUBSET Patches]
    state,       \* [Patches -> PatchStates]
    active,      \* the chain of patches being visited, the first one below
    visited,     \* those whose visit ended, in that order
    rest         \* patches the outer loop still has to come to

traversalVars == <<selected, providers, state, active, visited, rest>>

asChosen == <<selected, providers>>

Visits == [patch : Patches, todo : SUBSET Patches, waiting : BOOLEAN]

TraversalInit ==
    /\ selected \in [Patches -> Selections]
    /\ providers \in [Patches -> SUBSET Patches]
    /\ state = selected
    /\ active = <<>> /\ visited = <<>>
    /\ rest = Patches

-----------------------------------------------------------------------------

Visited == {visited[i] : i \in 1..Len(visited)}
Active == {active[i].patch : i \in 1..Len(active)}

Top == active[Len(active)]
Below == SubSeq(active, 1, Len(active) - 1)

(* visit() returns at once. *)
Returns(p) == state[p] \in Settled \/ p \in Visited

Frame(p) == [patch |-> p, todo |-> providers[p], waiting |-> FALSE]

(* The outer loop; any order of the patches. *)
Begin(p) ==
    /\ active = <<>>
    /\ p \in rest
    /\ rest' = rest \ {p}
    /\ active' = IF Returns(p) THEN <<>> ELSE <<Frame(p)>>
    /\ UNCHANGED <<asChosen, state, visited>>

(* Its loop over the providers; any order of them. *)
Turn(q) == active # <<>> /\ q \in Top.todo

Enter(q) ==
    /\ Turn(q)
    /\ ~Returns(q) /\ q \notin Active
    /\ active' = Append(active, Frame(q))
    /\ UNCHANGED <<asChosen, state, visited, rest>>

(* The chain from the patch that was come back to. *)
Cycle(q) ==
    {active[i].patch : i \in {j \in 1..Len(active) : \E k \in 1..j : active[k].patch = q}}

CloseCycle(q) ==
    /\ Turn(q)
    /\ ~Returns(q) /\ q \in Active
    /\ state' = [p \in Patches |-> IF p \in Cycle(q) THEN "Failed" ELSE state[p]]
    /\ UNCHANGED <<asChosen, active, visited, rest>>

Delays(q) == state[q] = "Waiting" /\ state[Top.patch] # "Failed"

(* What the patch makes of a provider. *)
Look(q) ==
    /\ Turn(q)
    /\ Returns(q)
    /\ state' = IF state[q] \in {"Disabled", "Failed"}
                THEN [state EXCEPT ![Top.patch] = "Failed"] ELSE state
    /\ active' = Append(Below, [Top EXCEPT !.todo = @ \ {q}, !.waiting = @ \/ Delays(q)])
    /\ UNCHANGED <<asChosen, visited, rest>>

(* Mutant: a waiting provider is thought of before a failed one. *)
LeaveWaiting ==
    /\ active # <<>> /\ Top.todo = {}
    /\ state' = IF Top.waiting THEN [state EXCEPT ![Top.patch] = "Waiting"] ELSE state
    /\ active' = Below
    /\ visited' = Append(visited, Top.patch)
    /\ UNCHANGED <<asChosen, rest>>

Leave ==
    /\ active # <<>> /\ Top.todo = {}
    /\ state' = IF Top.waiting /\ state[Top.patch] # "Failed"
                THEN [state EXCEPT ![Top.patch] = "Waiting"] ELSE state
    /\ active' = Below
    /\ visited' = Append(visited, Top.patch)
    /\ UNCHANGED <<asChosen, rest>>

Step == \/ \E p \in Patches : Begin(p) \/ Enter(p) \/ CloseCycle(p) \/ Look(p)
        \/ Leave

Done == active = <<>> /\ rest = {}

(* Nothing but the end may stop it. *)
Finished == Done /\ UNCHANGED traversalVars

TraversalNext == Step \/ Finished

Traversal == TraversalInit /\ [][TraversalNext]_traversalVars

-----------------------------------------------------------------------------
(* Properties. *)

(* Every variable keeps its shape; no patch is in the chain twice, and     *)
(* none in it has been left.                                               *)
TraversalOK ==
    /\ selected \in [Patches -> PatchStates]
    /\ providers \in [Patches -> SUBSET Patches]
    /\ state \in [Patches -> PatchStates]
    /\ active \in Seq(Visits)
    /\ visited \in Seq(Patches)
    /\ rest \subseteq Patches
    /\ \A i, j \in 1..Len(active) : active[i].patch = active[j].patch => i = j
    /\ Active \cap Visited = {}

(* The traversal decides what the dependencies say, whatever the order of  *)
(* the patches and of their providers, and however cycles lie in one       *)
(* another.                                                                *)
DecidesAsResolved == Done => state = Resolved(selected, providers)

(* What is ready can be installed: each provider is installed already or   *)
(* ready too, and then its visit ended earlier, so an order exists.        *)
ReadyIsOrdered ==
    Done => \A p \in Patches : state[p] = "Planning" =>
        \A q \in providers[p] :
            \/ state[q] = "Installed"
            \/ /\ state[q] = "Planning"
               /\ \E i, j \in 1..Len(visited) : i < j /\ visited[i] = q /\ visited[j] = p

(* Both; between its turns the traversal promises nothing. *)
TraversalSound == DecidesAsResolved /\ ReadyIsOrdered
=============================================================================
