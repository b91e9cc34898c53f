------------------------------ MODULE LobbyReads ------------------------------
(***************************************************************************)
(* Refresh requests of the lobby service.  A patch asks for an item of a   *)
(* lobby; the requests for one lobby share a native request, whose         *)
(* completion arrives on a Galaxy thread; the control thread then reads    *)
(* the items and calls the patches back.  Observations stay cached, and    *)
(* cache entries, requests and native groups share one storage budget.     *)
(*                                                                         *)
(* Everything but complete() runs on the control thread: a pass lets the   *)
(* Galaxy adapter look at the lobby, pumps, and delivers.  Patches call    *)
(* the service from their callbacks, between those steps, and while they   *)
(* are prepared.                                                           *)
(***************************************************************************)
EXTENDS Naturals, FiniteSets, SequencesExt

CONSTANTS
    Lobbies, Names,
    Patches,
    Capacity,      \* kStorageBytes left for reads
    EntryCost,     \* a cache entry without its payload
    MaxPayload,    \* what a pending read reserves for its payload
    GroupCost, RequestCost,
    Sizes,         \* payload sizes a native read may return
    \* Bounds of the model, not of the code.
    MaxRequests, MaxChanges, MaxReads

LobbyReadsAssumption ==
    /\ {Capacity, EntryCost, MaxPayload, GroupCost, RequestCost} \subseteq Nat
    /\ Sizes \subseteq 0..MaxPayload
    /\ IsFiniteSet(Lobbies) /\ IsFiniteSet(Names)
    /\ {MaxRequests, MaxChanges, MaxReads} \subseteq Nat

Keys == Lobbies \X Names
NoKey == <<>>
Requests == 1..MaxRequests

VARIABLES
    native,      \* what Galaxy and the game say of the lobby
    last,        \* the adapter's previous look at it
    request,     \* [Requests -> RequestRecords]
    next,        \* number of the next request
    cache,       \* [Keys -> Entries]
    order,       \* keys with an entry, least recently used first
    group,       \* [Lobbies -> Groups]
    used,        \* the storage budget
    control,     \* the control thread
    reading,     \* the key whose bytes a synchronous cached() callback has
    patch,       \* [Patches -> PatchStates]
    outstanding, \* [Lobbies -> [Ages -> Nat]]: native requests to complete
    changes, reads   \* bounded events

vars == <<native, last, request, next, cache, order, group, used, control,
          reading, patch, outstanding, changes, reads>>

environment == <<native, last, changes>>
calls == <<reading, reads>>
storage == <<cache, order, used>>
requests == <<request, next>>

-----------------------------------------------------------------------------

(* One lobby stands for both that the game may have, the hosted and the    *)
(* joined one: the adapter treats a change of either alike.                *)
NativeStates == [available : BOOLEAN, lobby : Lobbies \cup {0}]
Seen(state) == IF state.available THEN state ELSE [available |-> FALSE, lobby |-> 0]

PatchStates == {"Planning", "Preparing", "Installed", "Failed"}

(* History: a native request belongs to the past once the control thread   *)
(* noticed, after its submission, a loss of access or of the lobby.        *)
Ages == {"Current", "Past"}

Phases == {"None", "Pending", "Ready", "Delivering", "Delivered", "Cancelled"}

(* "held" is the request's own reader of its cache entry, "source" the age *)
(* of the native request it was answered from, when it was.                *)
RequestRecords ==
    [phase : Phases, owner : Patches, key : Keys, held : BOOLEAN,
     failure : {"Unavailable", "Failed"}, source : Ages]

BlankRequest ==
    [phase |-> "None", owner |-> CHOOSE p \in Patches : TRUE,
     key |-> CHOOSE k \in Keys : TRUE, held |-> FALSE,
     failure |-> "Unavailable", source |-> "Current"]

(* What is left of a request that gets no callback any more. *)
Spent(phase) == [BlankRequest EXCEPT !.phase = phase]

(* An entry's charge covers its observation, or a whole payload while a    *)
(* request needs it.                                                       *)
Entries == [present : BOOLEAN, seen : BOOLEAN, size : Nat, readers : Nat, charge : Nat]
NoEntry == [present |-> FALSE, seen |-> FALSE, size |-> 0, readers |-> 0, charge |-> 0]

Groups ==
    [present : BOOLEAN, submitted : BOOLEAN, invalidated : BOOLEAN,
     completion : {"None", "Success", "Failure"}, source : Ages]

NoGroup ==
    [present |-> FALSE, submitted |-> FALSE, invalidated |-> FALSE,
     completion |-> "None", source |-> "Current"]
EmptyGroup == [NoGroup EXCEPT !.present = TRUE]

Idle == [at |-> "Idle"]
Preparing(p) == [at |-> "Preparing", patch |-> p]
Refreshed == [at |-> "Refreshed"]
Pumping(usable, todo) == [at |-> "Pumping", usable |-> usable, todo |-> todo]
Deciding(usable, todo, lobby, copy) ==
    [at |-> "Deciding", usable |-> usable, todo |-> todo, lobby |-> lobby, copy |-> copy]
Pumped == [at |-> "Pumped"]
Delivering == [at |-> "Delivering"]
Callback(key) == [at |-> "Callback", key |-> key]

Controls ==
    {Idle, Refreshed, Pumped, Delivering}
    \cup {Preparing(p) : p \in Patches}
    \cup [at : {"Pumping"}, usable : BOOLEAN, todo : SUBSET Lobbies]
    \cup [at : {"Deciding"}, usable : BOOLEAN, todo : SUBSET Lobbies,
          lobby : Lobbies, copy : Groups]
    \cup {Callback(k) : k \in Keys \cup {NoKey}}

PatchRuns == control.at \in {"Idle", "Preparing", "Pumped", "Callback"}

(* A pass goes on when the callback inside cached() has returned. *)
At(place) == control.at = place /\ reading = NoKey

Init ==
    /\ native \in NativeStates
    /\ last = Seen(native)
    /\ request = [r \in Requests |-> BlankRequest]
    /\ next = 1
    /\ cache = [k \in Keys |-> NoEntry]
    /\ order = <<>>
    /\ group = [l \in Lobbies |-> NoGroup]
    /\ used = 0
    /\ control = Idle
    /\ reading = NoKey
    /\ patch = [p \in Patches |-> "Planning"]
    /\ outstanding = [l \in Lobbies |-> [age \in Ages |-> 0]]
    /\ changes = 0 /\ reads = 0

-----------------------------------------------------------------------------
(* The cache.                                                              *)

EntryCharge(k) == EntryCost + cache[k].charge
Freed(keys) == MapThenSumSet(EntryCharge, keys)

(* release_selection() of n readers: the last one returns the spare room.  *)
Released(e, n) ==
    IF n > 0 /\ e.readers = n THEN [e EXCEPT !.readers = 0, !.charge = e.size]
    ELSE [e EXCEPT !.readers = @ - n]

Holding(S, k) == Cardinality({r \in S : request[r].held /\ request[r].key = k})
Releasing(S) == [k \in Keys |-> Released(cache[k], Holding(S, k))]

(* The budget after the entries became what they are, and "other" bytes    *)
(* were given back.                                                        *)
Charge(entries) == MapThenSumSet(LAMBDA k : entries[k].charge, Keys)
UsedAfter(entries, other) == used + Charge(entries) - (Charge(cache) + other)

ReleaseOne(k) ==
    /\ cache' = [cache EXCEPT ![k] = Released(@, 1)]
    /\ used' = UsedAfter(cache', 0)

(* retain(): evict what nobody reads, least recently used first, and no    *)
(* more than needed.                                                       *)
Evictable(protected) ==
    SelectSeq(order, LAMBDA k : cache[k].readers = 0 /\ k \notin protected)

FirstOf(seq, n) == {seq[i] : i \in 1..n}
Fits(bytes, evicted) == bytes + used - Freed(evicted) <= Capacity

Evictions(bytes, protected) ==
    LET candidates == Evictable(protected)
        enough == {n \in 0..Len(candidates) : Fits(bytes, FirstOf(candidates, n))}
    IN  FirstOf(candidates, IF enough = {} THEN Len(candidates)
                            ELSE CHOOSE n \in enough : \A m \in enough : n <= m)

Without(seq, keys) == SelectSeq(seq, LAMBDA k : k \notin keys)

-----------------------------------------------------------------------------
(* The patches.                                                            *)

NewRequest(p, k) ==
    [BlankRequest EXCEPT
        !.phase = IF native.available THEN "Pending" ELSE "Ready",
        !.owner = p, !.key = k, !.held = native.available]

EntryRoom(k) ==
    IF cache[k].present THEN MaxPayload - cache[k].charge ELSE EntryCost + MaxPayload

GroupRoom(l) == IF group[l].present THEN 0 ELSE GroupCost

(* refresh() makes room for everything or is refused, having evicted what  *)
(* it could.  It then takes an entry, a group and a request; memory may    *)
(* run out before any of them, and only the entry's reader is undone.      *)
Steps == {"Nothing", "Entry", "Group", "Request"}
Refresh(p, k, done) ==
    LET l == k[1]
        bytes == RequestCost + (IF native.available THEN EntryRoom(k) + GroupRoom(l) ELSE 0)
        evicted == Evictions(bytes, IF native.available THEN {k} ELSE {})
        accepted == Fits(bytes, evicted)
        entry == accepted /\ native.available /\ done # "Nothing"
        grouped == entry /\ done # "Entry"
        requested == accepted /\ done = "Request"
        reserved == [cache[k] EXCEPT !.present = TRUE, !.readers = @ + 1, !.charge = MaxPayload]
    IN  /\ PatchRuns
        /\ next <= MaxRequests
        /\ patch[p] \in {"Preparing", "Installed"}
        /\ next' = next + 1
        /\ cache' = [x \in Keys |->
             IF x = k /\ entry THEN IF requested THEN reserved ELSE Released(reserved, 1)
             ELSE IF x \in evicted THEN NoEntry ELSE cache[x]]
        /\ order' = Without(order, evicted) \o
                    (IF entry /\ ~cache[k].present THEN <<k>> ELSE <<>>)
        /\ group' = IF grouped /\ ~group[l].present THEN [group EXCEPT ![l] = EmptyGroup] ELSE group
        /\ request' = IF requested THEN [request EXCEPT ![next] = NewRequest(p, k)] ELSE request
        /\ used' = used + Charge(cache') - Charge(cache)
                   - EntryCost * Cardinality(evicted)
                   + (IF entry /\ ~cache[k].present THEN EntryCost ELSE 0)
                   + (IF grouped THEN GroupRoom(l) ELSE 0)
                   + (IF requested THEN RequestCost ELSE 0)
        /\ UNCHANGED <<environment, calls, control, patch, outstanding>>

(* cancel(), at any time, the request's own callback included. *)
Cancel(r) ==
    /\ PatchRuns
    /\ request[r].phase \notin {"None", "Cancelled"}
    /\ cache' = Releasing({r})
    /\ used' = UsedAfter(cache', RequestCost)
    /\ request' = [request EXCEPT ![r] = Spent("Cancelled")]
    /\ UNCHANGED <<environment, calls, next, order, group, control, patch, outstanding>>

(* cached(): the bytes stay while the synchronous callback runs. *)
CachedBegin(k) ==
    /\ PatchRuns /\ reading = NoKey
    /\ reads < MaxReads
    /\ cache[k].present /\ cache[k].seen
    /\ reads' = reads + 1
    /\ reading' = k
    /\ order' = Append(Without(order, {k}), k)
    /\ cache' = [cache EXCEPT ![k].readers = @ + 1]
    /\ UNCHANGED <<environment, requests, group, used, control, patch, outstanding>>

CachedEnd ==
    /\ reading # NoKey
    /\ ReleaseOne(reading)
    /\ reading' = NoKey
    /\ UNCHANGED <<environment, requests, order, group, control, patch, outstanding, reads>>

(* A patch is prepared, then installed or rejected, in one go. *)
Prepare(p) ==
    /\ At("Idle")
    /\ patch[p] = "Planning"
    /\ patch' = [patch EXCEPT ![p] = "Preparing"]
    /\ control' = Preparing(p)
    /\ UNCHANGED <<environment, calls, storage, requests, group, outstanding>>

Install ==
    /\ At("Preparing")
    /\ patch' = [patch EXCEPT ![control.patch] = "Installed"]
    /\ control' = Idle
    /\ UNCHANGED <<environment, calls, storage, requests, group, outstanding>>

(* discard(): a rejected patch gets no callbacks. *)
Reject ==
    /\ At("Preparing")
    /\ LET own == {r \in Requests : request[r].owner = control.patch /\
                     request[r].phase \in {"Pending", "Ready", "Delivering"}}
       IN  /\ cache' = Releasing(own)
           /\ request' = [r \in Requests |-> IF r \in own THEN Spent("Delivered") ELSE request[r]]
    /\ used' = UsedAfter(cache', 0)
    /\ patch' = [patch EXCEPT ![control.patch] = "Failed"]
    /\ control' = Idle
    /\ UNCHANGED <<environment, calls, next, order, group, outstanding>>

-----------------------------------------------------------------------------
(* The native side.                                                        *)

(* Mutant: the answer to an invalidated request is ignored. *)
AnsweredUnlessInvalidated(g, completion, age) ==
    IF g.submitted /\ g.completion = "None" /\ ~g.invalidated
    THEN [g EXCEPT !.completion = completion, !.source = age] ELSE g

(* complete(), on a Galaxy thread: only the first answer to a submitted    *)
(* request counts.                                                         *)
Answered(g, completion, age) ==
    IF g.submitted /\ g.completion = "None"
    THEN [g EXCEPT !.completion = completion, !.source = age] ELSE g

Complete(l) ==
    /\ \E age \in Ages, completion \in {"Success", "Failure"} :
         /\ outstanding[l][age] > 0
         /\ outstanding' = [outstanding EXCEPT ![l][age] = @ - 1]
         /\ group' = [group EXCEPT ![l] = Answered(@, completion, age)]
    /\ UNCHANGED <<environment, calls, storage, requests, control, patch>>

NativeChanges ==
    /\ changes < MaxChanges
    /\ changes' = changes + 1
    /\ native' \in NativeStates \ {native}
    /\ UNCHANGED <<calls, storage, requests, last, group, control, patch, outstanding>>

-----------------------------------------------------------------------------
(* A pass: the adapter's refresh, then the pump.                           *)

Pending(r) == request[r].phase = "Pending"
Waiting(l) == {r \in Requests : Pending(r) /\ request[r].key[1] = l}

Finished(r, failure) ==
    [request[r] EXCEPT !.phase = "Ready", !.held = FALSE, !.failure = failure]

(* Mutant: the answer under way is still welcome. *)
GroupAfterInvalidateKeeps(g) ==
    [g EXCEPT !.source = IF g.completion # "None" THEN "Past" ELSE @]

GroupAfterInvalidate(g) ==
    [g EXCEPT !.invalidated = @ \/ g.submitted,
              !.source = IF g.completion # "None" THEN "Past" ELSE @]

(* invalidate(): readers are told, native requests are left to complete.   *)
Invalidate ==
    LET open == {r \in Requests : Pending(r)}
    IN  /\ cache' = Releasing(open)
        /\ used' = UsedAfter(cache', 0)
        /\ request' = [r \in Requests |->
             IF r \in open THEN Finished(r, "Unavailable") ELSE request[r]]
        /\ group' = [l \in Lobbies |-> GroupAfterInvalidate(group[l])]
        /\ outstanding' = [l \in Lobbies |->
             [Current |-> 0, Past |-> outstanding[l]["Past"] + outstanding[l]["Current"]]]

InvalidateIf(lost) ==
    \/ lost /\ Invalidate
    \/ ~lost /\ UNCHANGED <<cache, used, request, group, outstanding>>

(* refresh_control(): a new join keeps the requests made before it.        *)
Lost(before, now) ==
    \/ before.available /\ ~now.available
    \/ before.lobby # 0 /\ before.lobby # now.lobby

AdapterRefresh ==
    /\ At("Idle")
    /\ control' = Refreshed
    /\ last' = Seen(native)
    /\ InvalidateIf(Lost(last, Seen(native)))
    /\ UNCHANGED <<calls, native, next, order, patch, changes>>

(* The pump looks again. *)
PumpBegin ==
    /\ At("Refreshed")
    /\ control' = Pumping(native.available, {l \in Lobbies : group[l].present})
    /\ InvalidateIf(~native.available)
    /\ UNCHANGED <<environment, calls, next, order, patch>>

(* Copy the group's state under the listener's lock... *)
PumpCopy ==
    /\ At("Pumping")
    /\ \E l \in control.todo :
         control' = Deciding(control.usable, control.todo \ {l}, l, group[l])
    /\ UNCHANGED <<environment, calls, storage, requests, group, patch, outstanding>>

PumpEnd ==
    /\ At("Pumping") /\ control.todo = {}
    /\ control' = Pumped
    /\ UNCHANGED <<environment, calls, storage, requests, group, patch, outstanding>>

(* ...and act on the copy. *)
Stale(copy) == copy.completion # "None" /\ copy.invalidated
NextGroup == control' = Pumping(control.usable, control.todo)

(* A group nobody waits for goes once nothing native is outstanding.       *)
Settles(l) == Waiting(l) = {}

(* An invalidated completion is consumed first: the listener names only    *)
(* the lobby, so new work waits for it.                                    *)
PumpSubmit ==
    /\ At("Deciding")
    /\ LET l == control.lobby
           g == IF Stale(control.copy) THEN EmptyGroup ELSE group[l]
           sent == [g EXCEPT !.submitted = TRUE]
       IN  /\ Stale(control.copy) \/ ~control.copy.submitted
           /\ IF control.usable /\ ~Settles(l)
              THEN /\ UNCHANGED used
                   /\ \/ /\ group' = [group EXCEPT ![l] = sent]
                         /\ outstanding' = [outstanding EXCEPT ![l]["Current"] = @ + 1]
                      \/ /\ group' = [group EXCEPT ![l] = Answered(sent, "Failure", "Current")]
                         /\ UNCHANGED outstanding
              ELSE /\ group' = [group EXCEPT ![l] = IF Settles(l) THEN NoGroup ELSE g]
                   /\ used' = used - (IF Settles(l) THEN GroupCost ELSE 0)
                   /\ UNCHANGED outstanding
    /\ NextGroup
    /\ UNCHANGED <<environment, calls, requests, cache, order, patch>>

PumpWait ==
    /\ At("Deciding")
    /\ control.copy.submitted /\ control.copy.completion = "None"
    /\ NextGroup
    /\ UNCHANGED <<environment, calls, storage, requests, group, patch, outstanding>>

PumpFail ==
    LET l == control.lobby
    IN  /\ At("Deciding")
        /\ control.copy.completion = "Failure" /\ ~control.copy.invalidated
        /\ cache' = Releasing(Waiting(l))
        /\ request' = [r \in Requests |->
             IF r \in Waiting(l) THEN Finished(r, "Failed") ELSE request[r]]
        /\ group' = [group EXCEPT ![l] = NoGroup]
        /\ used' = UsedAfter(cache', GroupCost)
        /\ NextGroup
        /\ UNCHANGED <<environment, calls, next, order, patch, outstanding>>

(* A callback still to come refers to the observation. *)
Undelivered(k) ==
    \E r \in Requests : request[r].held /\ request[r].key = k /\
                        request[r].phase \in {"Ready", "Delivering"}

Readable(l) ==
    {k \in Keys : k[1] = l /\ cache[k].readers > 0 /\ ~Undelivered(k)}

(* Read every item of the lobby that somebody holds.  A read that fails    *)
(* leaves the last observation; the completion stays while a request does. *)
PumpRead ==
    LET l == control.lobby
        served == {r \in Waiting(l) : request[r].key \in Readable(l)}
    IN  /\ At("Deciding")
        /\ control.copy.completion = "Success" /\ ~control.copy.invalidated
        /\ \E good \in SUBSET Readable(l) :
             LET lost == {r \in served : request[r].key \notin good}
                 settled == Waiting(l) = served
             IN  /\ \E size \in [good -> Sizes] :
                      cache' = [k \in Keys |->
                        IF k \in good THEN [cache[k] EXCEPT !.seen = TRUE, !.size = size[k]]
                        ELSE Releasing(lost)[k]]
                 /\ request' = [r \in Requests |->
                      IF r \in lost THEN Finished(r, "Failed")
                      ELSE IF r \in served
                      THEN [request[r] EXCEPT !.phase = "Ready", !.source = group[l].source]
                      ELSE request[r]]
                 /\ \E touched \in SetToSeqs(good) : order' = Without(order, good) \o touched
                 /\ group' = [group EXCEPT ![l] = IF settled THEN NoGroup ELSE @]
                 /\ used' = UsedAfter(cache', IF settled THEN GroupCost ELSE 0)
        /\ NextGroup
        /\ UNCHANGED <<environment, calls, next, patch, outstanding>>

-----------------------------------------------------------------------------
(* deliver(): the requests that are ready when it starts, one by one.      *)

DeliverBegin ==
    /\ At("Pumped")
    /\ control' = Delivering
    /\ request' = [r \in Requests |->
         IF request[r].phase = "Ready" /\ patch[request[r].owner] = "Installed"
         THEN [request[r] EXCEPT !.phase = "Delivering"] ELSE request[r]]
    /\ UNCHANGED <<environment, calls, storage, next, group, patch, outstanding>>

(* The callback's own reader takes over from the request's.                *)
DeliverNext ==
    /\ At("Delivering")
    /\ LET ready == {r \in Requests : request[r].phase = "Delivering"}
       IN  \/ /\ ready = {}
              /\ control' = Idle
              /\ UNCHANGED request
           \/ \E r \in ready :
                /\ \A x \in ready : r <= x
                /\ control' = Callback(IF request[r].held THEN request[r].key ELSE NoKey)
                /\ request' = [request EXCEPT ![r] = Spent("Delivered")]
    /\ UNCHANGED <<environment, calls, storage, next, group, patch, outstanding>>

DeliverReturn ==
    /\ At("Callback")
    /\ IF control.key # NoKey THEN ReleaseOne(control.key) ELSE UNCHANGED <<cache, used>>
    /\ control' = Delivering
    /\ UNCHANGED <<environment, calls, requests, order, group, patch, outstanding>>

-----------------------------------------------------------------------------

Pass ==
    \/ Install \/ Reject
    \/ AdapterRefresh
    \/ PumpBegin \/ PumpCopy \/ PumpSubmit \/ PumpWait \/ PumpFail \/ PumpRead \/ PumpEnd
    \/ DeliverBegin \/ DeliverNext \/ DeliverReturn
    \/ CachedEnd

Next ==
    \/ \E p \in Patches : Prepare(p) \/ \E k \in Keys, done \in Steps : Refresh(p, k, done)
    \/ \E r \in Requests : Cancel(r)
    \/ \E k \in Keys : CachedBegin(k)
    \/ \E l \in Lobbies : Complete(l)
    \/ NativeChanges
    \/ Pass

Spec == Init /\ [][Next]_vars

(* Fairness.  The control thread makes pass after pass and its callbacks   *)
(* return, and Galaxy answers every request it accepted.                   *)
FairSpec ==
    /\ Spec
    /\ WF_vars(Pass)
    /\ \A l \in Lobbies : WF_vars(Complete(l))

-----------------------------------------------------------------------------
(* Properties. *)

(* Every variable keeps its shape. *)
TypeOK ==
    /\ native \in NativeStates /\ last \in NativeStates
    /\ request \in [Requests -> RequestRecords]
    /\ {next, used, changes, reads} \subseteq Nat
    /\ cache \in [Keys -> Entries]
    /\ order \in Seq(Keys)
    /\ group \in [Lobbies -> Groups]
    /\ control \in Controls
    /\ reading \in Keys \cup {NoKey}
    /\ patch \in [Patches -> PatchStates]
    /\ outstanding \in [Lobbies -> [Ages -> Nat]]

(* The budget is the sum of what is kept, never above its limit: a shared  *)
(* payload reservation is counted once and given back by the last reader,  *)
(* whatever happens in between (evictions, memory running out, a cancel in *)
(* the request's own callback).                                            *)
BudgetExact ==
    /\ used = Freed({k \in Keys : cache[k].present})
              + GroupCost * Cardinality({l \in Lobbies : group[l].present})
              + RequestCost * Cardinality({r \in Requests : request[r].phase \notin {"None", "Cancelled"}})
    /\ used <= Capacity

(* An entry's readers are the requests and the callbacks that use it, so   *)
(* that none of them loses it to an eviction and none keeps it for ever;   *)
(* a request that waits has a whole payload reserved.                      *)
ReadersExact ==
    \A k \in Keys :
        /\ cache[k].readers =
             Holding(Requests, k)
             + Cardinality({x \in {<<"cached", reading>>} : x[2] = k})
             + Cardinality({x \in {control} : x = Callback(k)})
        /\ cache[k].readers > 0 => cache[k].present
        /\ Holding(Requests, k) > 0 => cache[k].charge = MaxPayload

(* No request is answered from a native request that was submitted before  *)
(* the control thread last noticed that access or the lobby association    *)
(* was lost.                                                               *)
NeverStale == \A r \in Requests : request[r].source = "Current"

(* Galaxy's listener names only the lobby, so at most one native request   *)
(* of a lobby is outstanding, and the group that submitted it is kept.     *)
OneOutstanding ==
    \A l \in Lobbies :
        LET n == outstanding[l]["Current"] + outstanding[l]["Past"]
        IN  n > 0 => n = 1 /\ group[l].submitted /\ group[l].completion = "None"

(* Every accepted request is delivered, cancelled, or dropped with its     *)
(* rejected patch.                                                         *)
RefreshAnswered ==
    \A r \in Requests :
        (request[r].phase \in {"Pending", "Ready", "Delivering"}) ~>
            (request[r].phase \in {"Delivered", "Cancelled"})
=============================================================================
