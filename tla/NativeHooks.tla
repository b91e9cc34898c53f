------------------------------ MODULE NativeHooks ------------------------------
(***************************************************************************)
(* Native plans and the hooks they share.  The control thread collects the *)
(* plans of a batch, compares their claims, then prepares and installs one *)
(* after the other: its writes first, then its hooks, each a new detour or *)
(* a new list of participants at a detour that is there.  Meanwhile game   *)
(* threads enter detours, nested too, and another mod may write to memory. *)
(***************************************************************************)
EXTENDS NativeRules

CONSTANTS
    Threads,
    MaxActive,   \* invocations at a time
    MaxForeign   \* writes of another mod

HooksAssumption == MaxActive \in Nat /\ MaxForeign \in Nat

None == "None"

VARIABLES
    memory,     \* [Cells -> Contents]
    opened,     \* cells whose protection was not restored
    foreign,    \* number of writes of the other mod
    state,      \* [Plans -> PlanStates]
    saved,      \* [Plans -> [operations -> contents]]: originals seen at submission
    exposed,    \* plans the game may have met
    site,       \* [Sites -> records], what HookRegistry::sites_ holds
    lists,      \* [Sites -> [Plans -> Seq]]: the list made for a plan, if it exists
    retained,   \* [Sites -> SUBSET Plans]: HookSite::lists
    current,    \* [Sites -> Plans \cup {None}]: HookSite::current
    control,    \* the control thread
    stack,      \* [Threads -> Seq(invocations)], the innermost first
    address     \* [Threads -> callers]: gReturnAddress

hooks == <<site, lists, retained, current>>
threads == <<stack, address>>
vars == <<memory, opened, foreign, state, saved, exposed, hooks, control, threads>>

-----------------------------------------------------------------------------

PlanStates == {"Unknown", "Submitted", "Accepted", "Prepared", "Installing", "Installed", "Rejected"}

Game == <<"Game">>
Foreign == <<"Foreign">>
Written(p) == <<"Written", p>>
Detour(s) == <<"Detour", s>>
Contents == {Game, Foreign} \cup {Written(p) : p \in Plans} \cup {Detour(s) : s \in Sites}

Idle == [at |-> "Idle"]
Collecting(todo) == [at |-> "Collecting", todo |-> todo, batch |-> <<>>]
Working(todo) == [at |-> "Working", todo |-> todo]
Installing(p, work, todo) == [at |-> "Installing", plan |-> p, work |-> work, todo |-> todo]
Terminated == [at |-> "Terminated"]

NoSite == [end |-> 0]

(* No return address: none is active, or an instruction was hooked. *)
NoCaller == 0

Init ==
    /\ memory = [c \in Cells |-> Game]
    /\ opened = {} /\ foreign = 0 /\ exposed = {}
    /\ state = [p \in Plans |-> "Unknown"]
    /\ saved = [p \in Plans |-> <<>>]
    /\ site = [s \in Sites |-> NoSite]
    /\ lists = [s \in Sites |-> [p \in Plans |-> <<>>]]
    /\ retained = [s \in Sites |-> {}]
    /\ current = [s \in Sites |-> None]
    /\ control = Idle
    /\ stack = [t \in Threads |-> <<>>]
    /\ address = [t \in Threads |-> NoCaller]

Running == control # Terminated

-----------------------------------------------------------------------------
(* What plans see of memory. *)

Span(begin, end) == begin .. end - 1

Registered == {s \in Sites : site[s] # NoSite}

Covering(c) == {s \in Registered : c \in Span(s, site[s].end)}

(* original_view(): detours read as what they replaced, *)
View(begin, end) ==
    [c \in Span(begin, end) |->
        IF Covering(c) = {} THEN memory[c]
        ELSE site[CHOOSE s \in Covering(c) : TRUE].original[c]]

(* unless somebody changed them since. *)
Viewable(begin, end) ==
    \A s \in UNION {Covering(c) : c \in Span(begin, end)} :
        \A c \in Span(s, site[s].end) : memory[c] = site[s].installed[c]

(* evidence(), and the originals of whole instructions. *)
Evident(op) ==
    /\ Viewable(op.begin, op.evidence)
    /\ \A c \in Span(op.begin, op.evidence) : View(op.begin, op.evidence)[c] = Game

Readable(op) == op.code => Viewable(op.begin, op.end)

Originals(p) ==
    [i \in DOMAIN Operations[p] |-> View(Operations[p][i].begin, Operations[p][i].end)]

-----------------------------------------------------------------------------
(* Planning. *)

(* install_ready_patches() with any of the patches, in any order. *)
Collect ==
    /\ control = Idle
    /\ \E batch \in SUBSET {p \in Plans : state[p] = "Unknown"} :
         /\ batch # {}
         /\ \E todo \in SetToSeqs(batch) : control' = Collecting(todo)
    /\ UNCHANGED <<memory, opened, foreign, state, saved, exposed, hooks, threads>>

(* submit() for each request of a plan; a failed one fails the plan. *)
Submit ==
    LET p == Head(control.todo)
        good == \A i \in DOMAIN Operations[p] :
                    Evident(Operations[p][i]) /\ Readable(Operations[p][i])
    IN  /\ control.at = "Collecting" /\ control.todo # <<>>
        /\ state' = [state EXCEPT ![p] = IF good THEN "Submitted" ELSE "Rejected"]
        /\ saved' = [saved EXCEPT ![p] = IF good THEN Originals(p) ELSE <<>>]
        /\ control' = [control EXCEPT !.todo = Tail(@), !.batch = IF good THEN Append(@, p) ELSE @]
        /\ UNCHANGED <<memory, opened, foreign, exposed, hooks, threads>>

Validate ==
    LET accepted == Accepted(control.batch, {p \in Plans : state[p] = "Installed"})
    IN  /\ control.at = "Collecting" /\ control.todo = <<>>
        /\ state' = [p \in Plans |-> IF state[p] # "Submitted" THEN state[p]
                                     ELSE IF p \in accepted THEN "Accepted" ELSE "Rejected"]
        /\ saved' = [p \in Plans |-> IF state'[p] = "Rejected" THEN <<>> ELSE saved[p]]
        /\ control' = Working(SelectSeq(control.batch, LAMBDA p : p \in accepted))
        /\ UNCHANGED <<memory, opened, foreign, exposed, hooks, threads>>

-----------------------------------------------------------------------------
(* Preparation. *)

SitesOf(p) == {Operations[p][i].begin : i \in HooksOf(p)}

NewSites(p) == SitesOf(p) \ Registered

(* Mutant: the list of the site is not taken over. *)
Alone(p, s) == Sorted(HooksAt(p, s))

(* The participants there are, and those of the plan. *)
Extended(p, s) ==
    Sorted((IF current[s] = None THEN <<>> ELSE lists[s][current[s]]) \o HooksAt(p, s))

(* The lists and sites of a plan that are not the registry's go with it.   *)
Discard(p) ==
    /\ lists' = [s \in Sites |-> [lists[s] EXCEPT ![p] = IF p \in retained[s] THEN @ ELSE <<>>]]
    /\ current' = [s \in Sites |-> IF s \notin Registered THEN None ELSE current[s]]

(* reject_patch() *)
Reject(p, todo) ==
    /\ state' = [state EXCEPT ![p] = "Rejected"]
    /\ saved' = [saved EXCEPT ![p] = <<>>]
    /\ Discard(p)
    /\ control' = Working(todo)

(* SubmittedPlan::prepare() with HookRegistry::prepare(), and the author's *)
(* prepare(); either may fail.                                             *)
Prepare ==
    LET p == Head(control.todo)
        extended == [s \in SitesOf(p) |-> Extended(p, s)]
    IN  /\ control.at = "Working" /\ control.todo # <<>>
        /\ state[p] = "Accepted"
        /\ \/ /\ \A s \in SitesOf(p) : ~Block(extended[s]).overflow
              /\ state' = [state EXCEPT ![p] = "Prepared"]
              /\ lists' = [s \in Sites |-> IF s \in SitesOf(p)
                                           THEN [lists[s] EXCEPT ![p] = extended[s]] ELSE lists[s]]
              /\ current' = [s \in Sites |-> IF s \in NewSites(p) THEN p ELSE current[s]]
              /\ UNCHANGED <<saved, control>>
           \/ Reject(p, Tail(control.todo))
        /\ UNCHANGED <<memory, opened, foreign, exposed, site, retained, threads>>

-----------------------------------------------------------------------------
(* Installation. *)

(* revalidate() *)
Unchanged(p) ==
    \A i \in DOMAIN Operations[p] :
        LET op == Operations[p][i]
        IN  /\ Evident(op) /\ Readable(op)
            /\ op.code => View(op.begin, op.end) = saved[p][i]

(* Its writes in the order of submission, then each site where it was     *)
(* first declared.                                                         *)
Work(p) ==
    LET operations == [i \in DOMAIN Operations[p] |-> i]
        first(i) == \A j \in HooksOf(p) : j < i => Operations[p][j].begin # Operations[p][i].begin
    IN  SelectSeq(operations, LAMBDA i : Operations[p][i].kind = "Write")
        \o SelectSeq(operations, LAMBDA i : i \in HooksOf(p) /\ first(i))

Revalidate ==
    LET p == Head(control.todo)
    IN  /\ control.at = "Working" /\ control.todo # <<>>
        /\ state[p] = "Prepared"
        /\ \/ /\ Unchanged(p)
              /\ state' = [state EXCEPT ![p] = "Installing"]
              /\ control' = Installing(p, Work(p), Tail(control.todo))
              /\ UNCHANGED <<saved, lists, current>>
           \/ ~Unchanged(p) /\ Reject(p, Tail(control.todo))
        /\ UNCHANGED <<memory, opened, foreign, exposed, site, retained, threads>>

(* The outcomes of write_native_memory(): how many cells were written,     *)
(* whether all pages got their protection back, whether it succeeded.      *)
WriteOutcomes(begin, end) ==
    {o \in [written : 0 .. end - begin, restored : BOOLEAN, succeeded : BOOLEAN] :
        o.succeeded => o.written = end - begin /\ o.restored}

Changed(o, begin, contents) ==
    /\ memory' = [c \in Cells |-> IF c \in Span(begin, begin + o.written) THEN contents ELSE memory[c]]
    /\ opened' = IF o.restored THEN opened ELSE opened \cup {begin}

(* NativeWriteFailure::unsafe, in the end *)
Unsafe(o, p) == o.written # 0 \/ ~o.restored \/ p \in exposed

(* A safe failure rejects the plan, an unsafe one ends the process. *)
WriteFails(o, p) ==
    IF Unsafe(o, p)
    THEN /\ control' = Terminated
         /\ exposed' = exposed \cup {p}
         /\ UNCHANGED <<state, saved, lists, current>>
    ELSE Reject(p, control.todo) /\ UNCHANGED exposed

Operating(kind) ==
    /\ control.at = "Installing" /\ control.work # <<>>
    /\ Operations[control.plan][Head(control.work)].kind = kind

Write ==
    LET p == control.plan
        op == Operations[p][Head(control.work)]
    IN  /\ Operating("Write")
        /\ \E o \in WriteOutcomes(op.begin, op.end) :
             /\ Changed(o, op.begin, Written(p))
             /\ IF o.succeeded
                THEN /\ exposed' = exposed \cup {p}
                     /\ control' = [control EXCEPT !.work = Tail(@)]
                     /\ UNCHANGED <<state, saved, lists, current>>
                ELSE WriteFails(o, p)
        /\ UNCHANGED <<foreign, site, retained, threads>>

(* A new detour: of a CALL by a write, of others by the backend, whose     *)
(* failure ends the process.                                               *)
Enable ==
    LET p == control.plan
        op == Operations[p][Head(control.work)]
    IN  /\ Operating("Hook") /\ op.begin \notin Registered
        /\ \E o \in WriteOutcomes(op.begin, op.end) :
             /\ op.scope # "Call" => o.succeeded \/ (o.written = 0 /\ o.restored)
             /\ Changed(o, op.begin, Detour(op.begin))
             /\ IF o.succeeded
                THEN control' = [control EXCEPT !.at = "Enabled"] /\ UNCHANGED <<state, saved, exposed, lists, current>>
                ELSE IF op.scope = "Call" THEN WriteFails(o, p)
                ELSE /\ control' = Terminated /\ exposed' = exposed \cup {p}
                     /\ UNCHANGED <<state, saved, lists, current>>
        /\ UNCHANGED <<foreign, site, retained, threads>>

(* Mutant: the list before is not kept. *)
RetainLast(p, s) == retained' = [retained EXCEPT ![s] = {p}]

Retain(p, s) == retained' = [retained EXCEPT ![s] = @ \cup {p}]

(* The new site joins the registry with the bytes of its detour, which are *)
(* read back unless a CALL was written; its list is published already.     *)
Register ==
    LET p == control.plan
        op == Operations[p][Head(control.work)]
        read == [c \in Span(op.begin, op.end) |->
                    IF op.scope = "Call" THEN Detour(op.begin) ELSE memory[c]]
    IN  /\ control.at = "Enabled"
        /\ exposed' = exposed \cup {p}
        /\ \/ /\ site' = [site EXCEPT ![op.begin] =
                             [end |-> op.end, original |-> saved[p][Head(control.work)], installed |-> read]]
              /\ Retain(p, op.begin)
              /\ control' = Installing(p, Tail(control.work), control.todo)
           \/ op.scope # "Call" /\ control' = Terminated /\ UNCHANGED <<site, retained>>
        /\ UNCHANGED <<memory, opened, foreign, state, saved, lists, current, threads>>

(* A detour that is there gets the new list. *)
Publish ==
    LET p == control.plan
        s == Operations[p][Head(control.work)].begin
    IN  /\ Operating("Hook") /\ s \in Registered
        /\ Retain(p, s)
        /\ exposed' = exposed \cup {p}
        /\ current' = [current EXCEPT ![s] = p]
        /\ control' = [control EXCEPT !.work = Tail(@)]
        /\ UNCHANGED <<memory, opened, foreign, state, saved, site, lists, threads>>

Install ==
    /\ control.at = "Installing" /\ control.work = <<>>
    /\ exposed' = exposed \cup {control.plan}
    /\ state' = [state EXCEPT ![control.plan] = "Installed"]
    /\ control' = Working(control.todo)
    /\ UNCHANGED <<memory, opened, foreign, saved, hooks, threads>>

Rest ==
    /\ control = Working(<<>>)
    /\ control' = Idle
    /\ UNCHANGED <<memory, opened, foreign, state, saved, exposed, hooks, threads>>

-----------------------------------------------------------------------------
(* Game threads.                                                           *)

Values(f) == lists[f.site][f.list]
Scope(s) == Operation(lists[s][current[s]][1]).scope

Active == SumFunction([t \in Threads |-> Len(stack[t])])

(* The entry of a detour captures the list; "met" are the plans installed  *)
(* at that moment.                                                         *)
Enter(t, s) ==
    /\ Running
    /\ memory[s] = Detour(s)
    /\ Active < MaxActive
    /\ LET caller == IF Scope(s) = "Instruction" THEN NoCaller ELSE Len(stack[t]) + 1
       IN  /\ stack' = [stack EXCEPT ![t] =
                 <<[site |-> s, list |-> current[s], phase |-> "Before", next |-> 1, ran |-> <<>>,
                    caller |-> caller, previous |-> address[t],
                    met |-> {p \in Plans : state[p] = "Installed"}]>> \o @]
           /\ address' = [address EXCEPT ![t] = caller]
    /\ UNCHANGED <<memory, opened, foreign, state, saved, exposed, hooks, control>>

Going(t, phase) == Running /\ stack[t] # <<>> /\ Head(stack[t]).phase = phase

Onward(t, f) ==
    /\ stack' = [stack EXCEPT ![t] = <<f>> \o Tail(@)]
    /\ UNCHANGED <<memory, opened, foreign, state, saved, exposed, hooks, control, address>>

(* An observer's callback runs; a modifier has none here. *)
Observed(f) ==
    LET v == Values(f)[f.next]
    IN  IF Operation(v).modifier THEN f.ran ELSE Append(f.ran, v)

Before(t) ==
    LET f == Head(stack[t])
    IN  /\ Going(t, "Before") /\ f.next <= Len(Values(f))
        /\ Onward(t, [f EXCEPT !.ran = Observed(f), !.next = @ + 1])

Original == <<None, 0>>

Modifiers(values) == SelectSeq(values, LAMBDA v : Operation(v).modifier)

(* The modifier, or the original code if there is none. *)
Modify(t) ==
    LET f == Head(stack[t])
        modifiers == Modifiers(Values(f))
        called == IF modifiers = <<>> THEN Original ELSE Last(modifiers)
    IN  /\ Going(t, "Before") /\ f.next > Len(Values(f))
        /\ Onward(t, [f EXCEPT !.ran = Append(@, called), !.phase = "After", !.next = @ - 1])

After(t) ==
    LET f == Head(stack[t])
    IN  /\ Going(t, "After") /\ f.next > 0
        /\ Onward(t, [f EXCEPT !.ran = Observed(f), !.next = @ - 1])

Return(t) ==
    LET f == Head(stack[t])
    IN  /\ Going(t, "After") /\ f.next = 0
        /\ stack' = [stack EXCEPT ![t] = Tail(@)]
        /\ address' = [address EXCEPT ![t] = f.previous]
        /\ UNCHANGED <<memory, opened, foreign, state, saved, exposed, hooks, control>>

(* Another mod, at any time. *)
Overwrite(c) ==
    /\ Running /\ foreign < MaxForeign /\ memory[c] # Foreign
    /\ memory' = [memory EXCEPT ![c] = Foreign]
    /\ foreign' = foreign + 1
    /\ UNCHANGED <<opened, state, saved, exposed, hooks, control, threads>>

-----------------------------------------------------------------------------

Control ==
    \/ Collect \/ Submit \/ Validate \/ Prepare \/ Revalidate
    \/ Write \/ Enable \/ Register \/ Publish \/ Install \/ Rest

Dispatch(t) ==
    \/ \E s \in Sites : Enter(t, s)
    \/ Before(t) \/ Modify(t) \/ After(t) \/ Return(t)

Next ==
    \/ Control
    \/ \E t \in Threads : Dispatch(t)
    \/ \E c \in Cells : Overwrite(c)

Spec == Init /\ [][Next]_vars

-----------------------------------------------------------------------------
(* Properties. *)

Made(s, p) == lists[s][p] # <<>>

Invocations == UNION {ToSet(stack[t]) : t \in Threads}

(* Every variable keeps its shape; what is retained or current exists, and *)
(* a site is known or current only with both.                              *)
TypeOK ==
    /\ memory \in [Cells -> Contents] /\ opened \subseteq Cells
    /\ foreign \in 0 .. MaxForeign
    /\ state \in [Plans -> PlanStates]
    /\ exposed \subseteq Plans
    /\ \A s \in Sites :
         /\ retained[s] \subseteq {p \in Plans : Made(s, p)}
         /\ current[s] # None => Made(s, current[s])
         /\ s \in Registered => current[s] \in retained[s]
    /\ \A f \in Invocations : f.phase \in {"Before", "After"} /\ f.next \in 0 .. Len(Values(f)) + 1

Position(v) == <<Rank[v[1]], v[2]>>

Earlier(v, w) ==
    \/ Position(v)[1] < Position(w)[1]
    \/ Position(v)[1] = Position(w)[1] /\ Position(v)[2] < Position(w)[2]

InOrder(values) ==
    \A i, j \in DOMAIN values : i < j => Earlier(values[i], values[j])

(* What an invocation has run when it returns: observers in order, the     *)
(* modifier or the original, the same observers backwards; among them all  *)
(* of every plan that was installed when it began.                         *)
Whole(f) ==
    LET n == (Len(f.ran) - 1) \div 2
        before == SubSeq(f.ran, 1, n)
    IN  /\ f.ran = before \o <<f.ran[n + 1]>> \o Reverse(before)
        /\ InOrder(before)
        /\ \A p \in f.met : \A v \in ToSet(HooksAt(p, f.site)) :
              IF Operation(v).modifier THEN f.ran[n + 1] = v ELSE v \in ToSet(before)

(* However lists are replaced meanwhile and invocations nest, an invocation *)
(* uses one list, which still exists, and callbacks of plans that were not *)
(* given up; it runs them in pairs around the original, and its callbacks  *)
(* see the return address of their own invocation.                         *)
InvocationsWhole ==
    \A t \in Threads : stack[t] # <<>> =>
        /\ address[t] = Head(stack[t]).caller
        /\ \A f \in ToSet(stack[t]) :
             /\ Made(f.site, f.list)
             /\ f.list \in retained[f.site] \/ control.at \in {"Enabled", "Terminated"}
             /\ \A v \in ToSet(Values(f)) : state[v[1]] \in {"Installing", "Installed"}
             /\ f.phase = "After" /\ f.next = 0 => Whole(f)

(* A plan that was rejected, at whatever stage, has changed nothing: not a *)
(* cell, no protection, no site, and no list that threads may find.        *)
RejectedUnchanged ==
    /\ Running => opened = {}
    /\ \A p \in Plans : state[p] = "Rejected" =>
         /\ p \notin exposed
         /\ \A c \in Cells : memory[c] # Written(p)
         /\ \A s \in Sites : ~Made(s, p)
    /\ \A s \in Sites \ Registered :
         (\E c \in Cells : memory[c] = Detour(s)) => control.at \in {"Enabled", "Terminated"}

(* What the assertions of prepare() expect of the claims that were         *)
(* compared batches ago: the participants of a list cover the same bytes   *)
(* in the same way, one modifies at most, and they saw the same originals, *)
(* those the site keeps.  Their states do not overlap.                     *)
ListsSound ==
    \A s \in Registered :
        LET values == lists[s][current[s]]
            block == Block(values)
        IN  /\ Len(Modifiers(values)) <= 1
            /\ \A i \in DOMAIN values :
                 LET v == Operation(values[i])
                     offset == block.offsets[i]
                 IN  /\ v.end = site[s].end
                     /\ saved[values[i][1]][values[i][2]] = site[s].original
                     /\ v.size > 0 => offset % v.alignment = 0 /\ offset + v.size <= block.size
                     /\ \A j \in i + 1 .. Len(values) :
                          LET w == Operation(values[j])
                          IN  /\ v.scope = w.scope /\ v.layout = w.layout
                              /\ v.size > 0 /\ w.size > 0 => offset + v.size <= block.offsets[j]

(* A list that replaces another has all its participants, in their order,  *)
(* and a site does not lose its list.                                      *)
ListsGrow ==
    \A s \in Registered :
        /\ s \in Registered'
        /\ current'[s] # current[s] =>
             LET old == lists[s][current[s]]
                 new == lists[s][current'[s]]
             IN  SelectSeq(new, LAMBDA v : v \in ToSet(old)) = old /\ InOrder(new)
=============================================================================
