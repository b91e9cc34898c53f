------------------------------ MODULE LuaFrame ------------------------------
(* One invocation of C++ from Lua: the values the callback holds are indices   *)
(* of the Lua stack, which every operation of the frame grows, reuses and      *)
(* restores under Lua protection.  A binding leaves its results or an error    *)
(* for Lua to consume; other frames leave the stack as they found it.          *)
EXTENDS Integers, Sequences, FiniteSets, TLC

CONSTANTS
    MaxValues,      \* values created while the callback runs
    MaxIterators,   \* nested for_each
    MaxCalls,       \* calls into Lua
    MaxDepth        \* stack depth at which the callback still iterates and selects results

FrameAssumption ==
    MaxValues \in Nat /\ MaxIterators \in Nat
    /\ MaxCalls \in Nat /\ MaxDepth \in Nat

VARIABLES
    frame,      \* [binding, wraps, entry]: what it serves, whether an original was saved, entry_top_
    stack,      \* values from the function's base; a value is a number of its own
    made,       \* values so far
    held,       \* the views the callback may use: [index -> value it stands for]
    iterators,  \* active for_each, innermost last: [key, at]
    pending,    \* pending_: whether the callback has an error
    returns,    \* returns_: [first, count]
    selected,   \* history: the values the callback selected last
    calls,      \* calls that reached Lua
    result      \* what finish_binding returned, or Running

frameVars == <<frame, stack, made, held, iterators, pending, returns, selected, calls, result>>

Nil == 0
Error == -1
Running == -2
Iterating == Len(iterators) > 0
Inner == iterators[Len(iterators)]

\* The author's code runs: outside for_each or in its visitor.
InCallback == result = Running /\ (Iterating => Inner.at = "Visit")

NoReturns == [first |-> 0, count |-> 0]

FrameInit ==
    /\ \E binding, wraps \in BOOLEAN, entry \in 0..1 :
          /\ wraps => binding
          /\ frame = [binding |-> binding, wraps |-> wraps, entry |-> entry]
          /\ stack = [i \in 1..entry |-> i]
          /\ held = IF binding THEN [i \in 1..entry |-> i] ELSE << >>
          /\ made = entry
    /\ iterators = << >> /\ pending = FALSE
    /\ returns = NoReturns /\ selected = << >>
    /\ calls = 0 /\ result = Running
-----------------------------------------------------------------------------
(* Operations under Lua protection.                                           *)

Fresh(count) == [i \in 1..count |-> made + i]

\* What a protected operation leaves above the saved depth: its results, or nothing,
\* or the message of an error that Lua raised.
Done(values) == [success |-> TRUE, above |-> values]
Failures == {[success |-> FALSE, above |-> above] : above \in {<< >>, <<Error>>}}

PushValue == {Done(Fresh(1))} \cup Failures
ClosureOperation == {Done(Fresh(1))} \cup Failures

\* Inspection leaves the stack at its depth even where it looks at a metatable.
ReadValue == {Done(<< >>)} \cup Failures
Registry == {Done(<< >>)} \cup Failures

\* A read replaces the copied table by its result, a write drops everything it pushed.
AccessTable(write) == {Done(IF write THEN << >> ELSE Fresh(1))} \cup Failures

\* Arguments are copies, so what the callback holds stays where it is.
CallFunction == {Done(Fresh(count)) : count \in {n \in 0..2 : made + n <= MaxValues}} \cup Failures

\* The slots of an entry; iterate() refuses what is no table.
Slots == {Done(<<Nil, Nil>>)} \cup Failures

CopyValues(values) == {Done(values)} \cup Failures

\* protect() and fc_lua_restore(): the depth before the operation.
Restored(outcome) == SubSeq(stack \o outcome.above, 1, Len(stack))

\* The results are views of the callback.
Appended(outcome) ==
    /\ outcome.success
    /\ stack' = stack \o outcome.above
    /\ held' = [i \in (Len(stack) + 1)..(Len(stack) + Len(outcome.above)) |-> outcome.above[i - Len(stack)]] @@ held
    /\ made' = made + Len(outcome.above)
    /\ UNCHANGED pending

\* failed(): the first error of the callback stays pending.
Failed(outcome) ==
    /\ ~outcome.success
    /\ pending' = TRUE
    /\ stack' = Restored(outcome)
    /\ UNCHANGED <<held, made>>

\* checked(): the error is the caller's.
Checked(outcome) ==
    /\ ~outcome.success
    /\ stack' = Restored(outcome)
    /\ UNCHANGED <<held, made, pending>>

\* Values of another frame and texts without a buffer are refused as if Lua had failed.
Push ==
    /\ InCallback /\ made < MaxValues
    /\ \E outcome \in PushValue : Appended(outcome) \/ Failed(outcome)
    /\ UNCHANGED <<frame, iterators, returns, selected, calls, result>>

\* global_get() and get()
Get ==
    /\ InCallback /\ made < MaxValues
    /\ \E outcome \in AccessTable(FALSE) : Appended(outcome) \/ Failed(outcome)
    /\ UNCHANGED <<frame, iterators, returns, selected, calls, result>>

\* global_set() and set()
Set ==
    /\ InCallback
    /\ \E outcome \in AccessTable(TRUE) : Appended(outcome) \/ Failed(outcome)
    /\ UNCHANGED <<frame, iterators, returns, selected, calls, result>>

Closure ==
    /\ InCallback /\ made < MaxValues
    /\ \E outcome \in ClosureOperation : Appended(outcome) \/ Failed(outcome)
    /\ UNCHANGED <<frame, iterators, returns, selected, calls, result>>

\* Type and metatable inspection has no Result: its error becomes pending.
Read ==
    /\ InCallback
    /\ \E kind \in {"Type", "Metatable", "Value"}, outcome \in ReadValue :
          Appended(outcome) \/ IF kind = "Value" THEN Checked(outcome) ELSE Failed(outcome)
    /\ UNCHANGED <<frame, iterators, returns, selected, calls, result>>

\* retain_registry(): the reference it makes is the registry's.
Retain ==
    /\ InCallback
    /\ \E outcome \in Registry : Appended(outcome) \/ Checked(outcome)
    /\ UNCHANGED <<frame, iterators, returns, selected, calls, result>>

CallResults ==
    /\ calls < MaxCalls /\ calls' = calls + 1
    /\ \E outcome \in CallFunction : Appended(outcome) \/ Checked(outcome)
    /\ UNCHANGED <<frame, iterators, returns, selected, result>>

\* A pending error refuses calls of values and of retained functions; execute() and
\* original() do not look at it.
Call == InCallback /\ ~pending /\ CallResults
CallRegistry == InCallback /\ ~pending /\ CallResults
Execute == InCallback /\ CallResults

\* Only where a wrapper saved an original.
Original == InCallback /\ frame.wraps /\ CallResults
-----------------------------------------------------------------------------
(* for_each                                                                    *)

IterationBegin ==
    /\ InCallback /\ Len(iterators) < MaxIterators /\ Len(stack) <= MaxDepth
    /\ \E outcome \in Slots :
          \/ /\ outcome.success
             /\ stack' = stack \o outcome.above
             /\ iterators' = Append(iterators, [key |-> Len(stack) + 1, at |-> "Next"])
             /\ UNCHANGED <<held, made, pending>>
          \/ Failed(outcome) /\ UNCHANGED iterators
    /\ UNCHANGED <<frame, returns, selected, calls, result>>

\* The views of the entry visited last expire.
Kept == [i \in DOMAIN held \ {Inner.key, Inner.key + 1} |-> held[i]]
At(step) == [iterators EXCEPT ![Len(iterators)].at = step]

\* The next entry is fetched into temporary slots and moved over the old one.
Fetched == [stack EXCEPT ![Inner.key] = made + 1, ![Inner.key + 1] = made + 2]

IterationNext ==
    /\ result = Running /\ Iterating /\ Inner.at # "End"
    /\ \/ /\ made + 2 <= MaxValues
          /\ stack' = Fetched
          /\ held' = (Inner.key :> made + 1) @@ (Inner.key + 1 :> made + 2) @@ held
          /\ made' = made + 2
          /\ iterators' = At("Visit")
          /\ UNCHANGED pending
       \/ held' = Kept /\ iterators' = At("End") /\ UNCHANGED <<stack, made, pending>>
       \/ /\ \E outcome \in Failures : stack' = Restored(outcome)
          /\ pending' = TRUE
          /\ held' = Kept /\ iterators' = At("End") /\ UNCHANGED made
    /\ UNCHANGED <<frame, returns, selected, calls, result>>

\* Mutant: the slots are dropped with what was appended above them.
ClearedWithResults == SubSeq(stack, 1, Inner.key - 1)

\* The visitor stops, throws or has seen all: the slots are cleared, and dropped
\* unless something was appended above them.
Cleared ==
    IF Len(stack) = Inner.key + 1 THEN SubSeq(stack, 1, Inner.key - 1)
    ELSE [stack EXCEPT ![Inner.key] = Nil, ![Inner.key + 1] = Nil]

IterationEnd ==
    /\ result = Running /\ Iterating /\ Inner.at # "Next"
    /\ \/ stack' = Cleared /\ UNCHANGED pending
       \/ (\E outcome \in Failures : stack' = Restored(outcome)) /\ pending' = TRUE
    /\ held' = Kept
    /\ iterators' = SubSeq(iterators, 1, Len(iterators) - 1)
    /\ UNCHANGED <<frame, made, returns, selected, calls, result>>
-----------------------------------------------------------------------------
(* The results of a binding.                                                   *)

\* push_index(): index zero is nil.
ValueAt(index) == IF index = 0 THEN Nil ELSE stack[index]

\* return_values() copies the selection at once: it may come from an iterator's slots.
ReturnValues ==
    /\ InCallback /\ frame.binding /\ Len(stack) <= MaxDepth
    /\ \E values \in UNION {[1..n -> {0} \cup DOMAIN held] : n \in 0..2} :
       \E outcome \in CopyValues([i \in DOMAIN values |-> ValueAt(values[i])]) :
          \/ /\ outcome.success
             /\ selected' = outcome.above
             /\ stack' = stack \o outcome.above
             /\ returns' = IF values = << >> THEN NoReturns
                           ELSE [first |-> Len(stack) + 1, count |-> Len(values)]
             /\ UNCHANGED <<held, made, pending>>
          \/ values # << >> /\ Failed(outcome) /\ UNCHANGED <<returns, selected>>
    /\ UNCHANGED <<frame, iterators, calls, result>>

\* error()
RaiseError ==
    /\ InCallback /\ ~pending
    /\ pending' = TRUE
    /\ UNCHANGED <<frame, stack, made, held, iterators, returns, selected, calls, result>>

\* A selection still on top is returned in place, another copied there; the copy may fail.
Results ==
    LET last == returns.first + returns.count - 1
    IN  IF returns.count = 0 \/ last = Len(stack) THEN stack
        ELSE stack \o SubSeq(stack, returns.first, last)

\* finish_binding() after the callback returned: C++ is done when Lua leaves with an error.
FinishBinding ==
    /\ InCallback /\ ~Iterating /\ frame.binding
    /\ \/ /\ ~pending
          /\ result' = returns.count /\ stack' = Results
          /\ UNCHANGED pending
       \/ /\ pending \/ Results # stack
          /\ pending' = TRUE
          /\ result' = Error /\ stack' = <<Error>>
    /\ held' = << >>
    /\ UNCHANGED <<frame, made, iterators, returns, selected, calls>>

\* ~Frame() of initializers and deferred calls; a pending error is reported.
FinishOther ==
    /\ InCallback /\ ~Iterating /\ ~frame.binding
    /\ stack' = SubSeq(stack, 1, frame.entry)
    /\ result' = 0 /\ held' = << >>
    /\ UNCHANGED <<frame, made, iterators, pending, returns, selected, calls>>

FrameNext ==
    \/ Push \/ Get \/ Set \/ Closure \/ Read \/ Retain
    \/ Call \/ CallRegistry \/ Execute \/ Original
    \/ IterationBegin \/ IterationNext \/ IterationEnd
    \/ ReturnValues \/ RaiseError \/ FinishBinding \/ FinishOther

FrameSpec == FrameInit /\ [][FrameNext]_frameVars
-----------------------------------------------------------------------------
\* Whatever operations fail, nest or overlap, a view the callback may still use
\* stands for the value it was given, and what Lua takes as the results of a
\* binding is what the callback selected last, unless an error is pending; other
\* frames leave the caller's stack as it was.
ViewsFaithful ==
    /\ \A i \in DOMAIN held : i \in DOMAIN stack /\ stack[i] = held[i]
    /\ result # Running /\ ~frame.binding => stack = [i \in 1..frame.entry |-> i]
    /\ result >= 0 /\ frame.binding =>
          ~pending /\ SubSeq(stack, Len(stack) - result + 1, Len(stack)) = selected
    /\ result = Error => pending /\ stack = <<Error>>
=============================================================================
