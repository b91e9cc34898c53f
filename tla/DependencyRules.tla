---------------------------- MODULE DependencyRules ----------------------------
(***************************************************************************)
(* What the dependencies of patches decide, said without the traversal     *)
(* that decides it.                                                        *)
(***************************************************************************)

PatchStates == {"Disabled", "Waiting", "Planning", "Preparing", "Installed", "Failed"}

(* A traversal never changes these. *)
Settled == {"Disabled", "Installed", "Failed"}

Closed(T, from, given, providers) ==
    \A p \in from : providers[p] \subseteq T \cup given => p \in T

(* The smallest set with every patch of "from" whose providers are all in  *)
(* it or given: no cycle and nothing beyond one is in it.                  *)
Grounded(from, given, providers) ==
    {p \in from : \A T \in SUBSET from : Closed(T, from, given, providers) => p \in T}

With(state, kinds) == {p \in DOMAIN state : state[p] \in kinds}

(* A patch that is ready waits if one of its providers, or of theirs, has  *)
(* to; one on a cycle, or with a provider that is disabled or failed, or   *)
(* that depends on such a patch, fails.                                    *)
Resolved(state, providers) ==
    LET given == With(state, {"Installed"})
        ready == Grounded(With(state, {"Planning"}), given, providers)
        sound == Grounded(With(state, {"Planning", "Waiting"}), given, providers)
    IN  [p \in DOMAIN state |->
            IF state[p] \in Settled THEN state[p]
            ELSE IF p \in ready THEN "Planning"
            ELSE IF p \in sound THEN "Waiting"
            ELSE "Failed"]
=============================================================================
