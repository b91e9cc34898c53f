------------------------------ MODULE LobbyItems ------------------------------
(***************************************************************************)
(* Publication of lobby values.  A patch registers items while it is       *)
(* prepared and then publishes and clears values; the control thread's     *)
(* pump writes them to the lobby this process owns, at most once a second  *)
(* per item, again after a failure, and again in every newly owned lobby.  *)
(*                                                                         *)
(* Everything runs on the control thread but what Galaxy and the game say  *)
(* of the lobby, which may change under a pass.                            *)
(***************************************************************************)
EXTENDS Integers, FiniteSets, Functions

CONSTANTS
    Items, Patches,
    Owner,         \* [Items -> Patches]
    Values,        \* encoded values
    Size,          \* [Values -> Nat]
    ItemCost,      \* an item without its values
    Capacity,      \* kStorageBytes that reads leave to items
    None,
    \* Bounds of the model, not of the code.
    MaxLobbies, MaxChanges, MaxFailures, MaxCalls

ASSUME LobbyItemsAssumption ==
    /\ Owner \in [Items -> Patches]
    /\ Size \in [Values -> Nat]
    /\ None \notin Values
    /\ IsFiniteSet(Items)
    /\ {ItemCost, Capacity, MaxLobbies, MaxChanges, MaxFailures, MaxCalls} \subseteq Nat

VARIABLES
    native,     \* what Galaxy says: access, and the lobby owned
    hosted,     \* number of the last lobby this process created
    store,      \* [1..MaxLobbies -> [Items -> Values or None]]
    item,       \* [Items -> ItemRecords]
    used,       \* the storage budget
    patch,      \* [Patches -> PatchStates]
    control,    \* the control thread
    changes, failures, calls   \* bounded events

vars == <<native, hosted, store, item, used, patch, control, changes, failures, calls>>

environment == <<native, hosted, changes>>

-----------------------------------------------------------------------------

Lobbies == 1..MaxLobbies
Stored == Values \cup {None}
Bytes(v) == IF v = None THEN 0 ELSE Size[v]

NativeStates == [available : BOOLEAN, owned : 0..MaxLobbies]
PatchStates == {"Planning", "Preparing", "Installed", "Failed"}

(* "recent" says that the last attempt is less than a second old. *)
ItemRecords ==
    [registered : BOOLEAN, desired : Stored, written : Stored, charge : Nat,
     lobby : 0..MaxLobbies, withdraw : BOOLEAN, recent : BOOLEAN, failure : BOOLEAN]

NoItem ==
    [registered |-> FALSE, desired |-> None, written |-> None, charge |-> 0,
     lobby |-> 0, withdraw |-> FALSE, recent |-> FALSE, failure |-> FALSE]

Idle == [at |-> "Idle"]
Preparing(p) == [at |-> "Preparing", patch |-> p]
Writing(owned, todo) == [at |-> "Writing", owned |-> owned, todo |-> todo]

Controls ==
    {Idle} \cup {Preparing(p) : p \in Patches}
    \cup {Writing(owned, todo) : owned \in Lobbies, todo \in SUBSET Items}

Init ==
    /\ native \in [available : BOOLEAN, owned : {0}]
    /\ hosted = 0
    /\ store = [l \in Lobbies |-> [i \in Items |-> None]]
    /\ item = [i \in Items |-> NoItem]
    /\ used = 0
    /\ patch = [p \in Patches |-> "Planning"]
    /\ control = Idle
    /\ changes = 0 /\ failures = 0 /\ calls = 0

-----------------------------------------------------------------------------
(* The patches.                                                            *)

Prepare(p) ==
    /\ control = Idle
    /\ patch[p] = "Planning"
    /\ patch' = [patch EXCEPT ![p] = "Preparing"]
    /\ control' = Preparing(p)
    /\ UNCHANGED <<environment, store, item, used, failures, calls>>

Install(p) ==
    /\ control = Preparing(p)
    /\ patch' = [patch EXCEPT ![p] = "Installed"]
    /\ control' = Idle
    /\ UNCHANGED <<environment, store, item, used, failures, calls>>

(* What an item is charged. *)
Charge(it) == IF it.registered THEN ItemCost + Bytes(it.desired) + it.charge ELSE 0
Charges == [i \in Items |-> Charge(item[i])]

(* discard(): the items of a rejected patch go. *)
Reject(p) ==
    LET own == {i \in Items : Owner[i] = p /\ item[i].registered}
    IN  /\ control = Preparing(p)
        /\ patch' = [patch EXCEPT ![p] = "Failed"]
        /\ item' = [i \in Items |-> IF i \in own THEN NoItem ELSE item[i]]
        /\ used' = used - SumFunctionOnSet(Charges, own)
        /\ control' = Idle
        /\ UNCHANGED <<environment, store, failures, calls>>

(* item(); refusals leave everything as it was. *)
Register(i) ==
    /\ control = Preparing(Owner[i])
    /\ ~item[i].registered
    /\ used + ItemCost <= Capacity
    /\ item' = [item EXCEPT ![i].registered = TRUE]
    /\ used' = used + ItemCost
    /\ UNCHANGED <<environment, store, patch, control, failures, calls>>

Callable(i) ==
    /\ item[i].registered
    /\ control = Idle \/ control = Preparing(Owner[i])
    /\ calls < MaxCalls
    /\ calls' = calls + 1

Larger(m, n) == IF m > n THEN m ELSE n

(* Room to record the next successful write is taken along. *)
RecordingCharge(i, v) == Larger(Bytes(item[i].written), Bytes(v))

(* publish(); a value that does not fit is refused. *)
Publish(i, v) ==
    LET charge == RecordingCharge(i, v)
        more == Bytes(v) + charge - (Bytes(item[i].desired) + item[i].charge)
    IN  /\ Callable(i)
        /\ more <= 0 \/ used + more <= Capacity
        /\ item' = [item EXCEPT ![i].desired = v, ![i].charge = charge, ![i].withdraw = FALSE]
        /\ used' = used + more
        /\ UNCHANGED <<environment, store, patch, control, failures>>

Clear(i) ==
    /\ Callable(i)
    /\ item' = [item EXCEPT ![i].desired = None, ![i].withdraw = TRUE,
                            ![i].charge = Bytes(item[i].written)]
    /\ used' = used - Bytes(item[i].desired) - (item[i].charge - item'[i].charge)
    /\ UNCHANGED <<environment, store, patch, control, failures>>

-----------------------------------------------------------------------------
(* The native side and the clock.                                          *)

(* Access comes and goes, the ownership of the last lobby too, and the     *)
(* game creates lobbies; one it left is never owned again.                 *)
NativeChanges ==
    /\ changes < MaxChanges
    /\ changes' = changes + 1
    /\ hosted' \in hosted..(IF hosted < MaxLobbies THEN hosted + 1 ELSE hosted)
    /\ native' \in [available : BOOLEAN, owned : {0, hosted'}]
    /\ UNCHANGED <<store, item, used, patch, control, failures, calls>>

SecondPasses(i) ==
    /\ item[i].recent
    /\ item' = [item EXCEPT ![i].recent = FALSE]
    /\ UNCHANGED <<environment, store, used, patch, control, failures, calls>>

-----------------------------------------------------------------------------
(* The pump.                                                               *)

(* The last write does not count any more. *)
Forgotten(it) ==
    [it EXCEPT !.written = None, !.charge = Bytes(it.desired), !.lobby = 0]

(* Without an owned lobby every last write is forgotten. *)
PumpBegin ==
    /\ control = Idle
    /\ \/ /\ native.available /\ native.owned # 0
          /\ control' = Writing(native.owned, {i \in Items : item[i].registered})
          /\ UNCHANGED <<item, used>>
       \/ /\ ~native.available \/ native.owned = 0
          /\ item' = [i \in Items |-> Forgotten(item[i])]
          /\ used' = used - SumFunctionOnSet([i \in Items |-> item[i].charge - item'[i].charge], Items)
          /\ UNCHANGED control
    /\ UNCHANGED <<environment, store, patch, failures, calls>>

(* An item as the pass finds it in the lobby it writes to. *)
Here(i) == IF item[i].lobby = control.owned THEN item[i] ELSE Forgotten(item[i])

UpToDate(it) ==
    \/ it.desired = None /\ ~it.withdraw
    \/ it.desired # None /\ ~it.failure /\ it.lobby = control.owned /\ it.written = it.desired

AlreadyWithdrawn(it) ==
    it.desired = None /\ ~it.failure /\ it.lobby = control.owned /\ it.written = None

Visit(i) ==
    /\ control.at = "Writing"
    /\ i \in control.todo
    /\ control' = Writing(control.owned, control.todo \ {i})

(* Mutant: the budget keeps what a forgotten write was charged. *)
BecomesWithoutRefund(i, it) ==
    /\ item' = [item EXCEPT ![i] = it]
    /\ used' = used

(* Whatever the visit makes of the item, its budget follows. *)
Becomes(i, it) ==
    /\ item' = [item EXCEPT ![i] = it]
    /\ used' = used - (item[i].charge - it.charge)

Active(i) == patch[Owner[i]] = "Installed"

(* Nothing to write, or not yet. *)
PumpSkips(i) ==
    /\ Visit(i)
    /\ ~Active(i) \/ UpToDate(Here(i)) \/ Here(i).recent
    /\ Becomes(i, IF Active(i) THEN Here(i) ELSE item[i])
    /\ UNCHANGED <<environment, store, patch, failures, calls>>

PumpWithdrawn(i) ==
    /\ Visit(i)
    /\ Active(i) /\ ~UpToDate(Here(i)) /\ ~Here(i).recent
    /\ AlreadyWithdrawn(Here(i))
    /\ Becomes(i, [Here(i) EXCEPT !.withdraw = FALSE])
    /\ UNCHANGED <<environment, store, patch, failures, calls>>

Due(i) ==
    /\ Active(i) /\ ~UpToDate(Here(i)) /\ ~Here(i).recent
    /\ ~AlreadyWithdrawn(Here(i))

StillOwned == native.available /\ native.owned = control.owned
Put(i) == [store EXCEPT ![control.owned][i] = item[i].desired]

Written(it) ==
    [it EXCEPT !.written = it.desired, !.charge = Bytes(it.desired), !.lobby = control.owned,
               !.withdraw = FALSE, !.failure = FALSE, !.recent = TRUE]

PumpWrites(i) ==
    /\ Visit(i)
    /\ Due(i)
    /\ StillOwned
    /\ store' = Put(i)
    /\ Becomes(i, Written(Here(i)))
    /\ UNCHANGED <<environment, patch, failures, calls>>

(* Mutant: a write that failed is not remembered. *)
UnwrittenSilently(it) == [it EXCEPT !.recent = TRUE]

Unwritten(it) == [it EXCEPT !.failure = TRUE, !.recent = TRUE]

(* The adapter refuses without ownership; Galaxy may fail, having stored   *)
(* the value or not.                                                       *)
PumpFails(i) ==
    /\ Visit(i)
    /\ Due(i)
    /\ \/ ~StillOwned /\ UNCHANGED <<store, failures>>
       \/ /\ StillOwned /\ failures < MaxFailures
          /\ failures' = failures + 1
          /\ store' \in {store, Put(i)}
    /\ Becomes(i, Unwritten(Here(i)))
    /\ UNCHANGED <<environment, patch, calls>>

PumpEnd ==
    /\ control.at = "Writing" /\ control.todo = {}
    /\ control' = Idle
    /\ UNCHANGED <<environment, store, item, used, patch, failures, calls>>

-----------------------------------------------------------------------------

Pump ==
    \/ PumpBegin \/ PumpEnd
    \/ \E i \in Items :
         PumpSkips(i) \/ PumpWithdrawn(i) \/ PumpWrites(i) \/ PumpFails(i)

Ends(p) == Install(p) \/ Reject(p)

Next ==
    \/ \E p \in Patches : Prepare(p) \/ Ends(p)
    \/ \E i \in Items : Register(i) \/ Clear(i) \/ SecondPasses(i) \/ \E v \in Values : Publish(i, v)
    \/ NativeChanges
    \/ Pump

Spec == Init /\ [][Next]_vars

(* Fairness.  The control thread makes pass after pass and time passes.    *)
FairSpec ==
    /\ Spec
    /\ WF_vars(Pump)
    /\ \A p \in Patches : WF_vars(Ends(p))
    /\ \A i \in Items : WF_vars(SecondPasses(i))

-----------------------------------------------------------------------------
(* Properties. *)

(* Every variable keeps its shape; the budget, an unsigned number in the   *)
(* code, never wraps below zero.                                           *)
TypeOK ==
    /\ native \in NativeStates
    /\ hosted \in 0..MaxLobbies /\ native.owned \in {0, hosted}
    /\ store \in [Lobbies -> [Items -> Stored]]
    /\ item \in [Items -> ItemRecords]
    /\ used \in Nat
    /\ patch \in [Patches -> PatchStates]
    /\ control \in Controls
    /\ {changes, failures, calls} \subseteq Nat

(* The budget is the sum of what the registered items are charged, within  *)
(* the limit, through publications, withdrawals, failed writes and lost    *)
(* lobbies.                                                                *)
ItemsCharged ==
    /\ used = SumFunctionOnSet(Charges, Items)
    /\ used <= Capacity

(* Recording a write never needs room that was not taken when the value    *)
(* was accepted, so the pump never raises the budget.                      *)
RecordingFits ==
    \A i \in Items :
        /\ Bytes(item[i].desired) <= item[i].charge
        /\ Bytes(item[i].written) <= item[i].charge

(* The budget is what the registered items are charged, and a recorded     *)
(* write never needs room that was not taken when its value was accepted.  *)
ItemsFit == TypeOK /\ ItemsCharged /\ RecordingFits

(* What the service takes for written is what the lobby holds, unless the  *)
(* last write failed: then it writes again.                                *)
WrittenIsStored ==
    \A i \in Items :
        item[i].lobby # 0 /\ ~item[i].failure => store[item[i].lobby][i] = item[i].written

(* Once nobody publishes, clears or changes lobbies and Galaxy answers, an *)
(* owned lobby holds exactly what the installed patches want there.        *)
PublicationSettles ==
    <>[](native.available /\ native.owned # 0 =>
            \A i \in Items : item[i].registered =>
                store[native.owned][i] = item[i].desired)
=============================================================================
