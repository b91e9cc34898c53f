--------------------------- MODULE MCLuaBindings ---------------------------
(* Instances of LuaBindings for TLC: one consumer that registers a listener,  *)
(* a wrapping binding and an initializer, and one that registers an adding    *)
(* binding.  A behaviour has one focus, so that the parts of the service are  *)
(* not multiplied with each other: the passes over bindings; one deferred job *)
(* with a retained function and a listener; or three deferred jobs, of which  *)
(* two fit the queue and one runs per pump.                                   *)
EXTENDS LuaBindings

CONSTANTS modA, modB, i1, b1, l1, b2

VARIABLE focus

Focuses == {"Passes", "Work", "Jobs"}

MCDeclares == modA :> <<l1, b1, i1>> @@ modB :> <<b2>>
MCMode == b1 :> "Wrap" @@ b2 :> "Add"

\* The control thread updates when an update has something to do or to tell.
UpdateMatters ==
    control.at = "Idle" /\ control'.at = "Listen" =>
        \/ focus = "Work" /\ events # << >>
        \/ \E i \in DOMAIN jobs : jobs[i].complete
        \/ \E r \in DOMAIN references : references[r].reset /\ ~references[r].held
        \/ focus = "Work" /\ \E k \in DOMAIN listeners : listeners[k].initial
        \/ \E d \in DOMAIN declarations : ~Active(OwnerOf(d))

Allowed ==
    /\ UpdateMatters
    /\ focus = "Passes" =>
        /\ UNCHANGED <<accepted, issued>>
        /\ nextState' < 2
        /\ consumer'[modB] # "Planning" => consumer[modA] \in {"Installed", "Failed"}
        /\ \A b \in Bindings : globals'[b] # globals[b] =>
              globals'[b] # "script" /\ (globals'[b] = "value" => b = b1)
        /\ Len(lua') > Len(lua) /\ lua'[1].at = "Call" => 
              lua'[1].pin # "Run" /\ (lua'[1].pin = "Binding" => LuaIdle)
    /\ focus = "Work" => consumer'[modB] = "Planning" /\ accepted' <= 1
    /\ focus = "Jobs" => consumer'[modA] = "Planning" /\ UNCHANGED issued
    /\ focus \in {"Work", "Jobs"} =>
        /\ UNCHANGED globals
        /\ Len(lua') > Len(lua) /\ lua'[1].at = "Apply" => lua'[1].purpose = "Pump"

MCInit == Init /\ focus \in Focuses
MCNext == Next /\ Allowed /\ UNCHANGED focus
\* Fairness promises the steps an instance lets happen.
MCFairness ==
    /\ WF_vars(LuaStep /\ Allowed)
    /\ WF_vars(ControlStep /\ Allowed)
    /\ SF_vars(Pump /\ Allowed)

MCSpec == MCInit /\ [][MCNext]_<<vars, focus>> /\ MCFairness

-----------------------------------------------------------------------------

(* Nothing the Lua thread is using goes away beneath it, Lua's registry and *)
(* the job budget hold exactly what live records name, and listeners know   *)
(* the live VMs (service.cpp, service_bindings.cpp).                        *)
BindingsSound == RecordsPinned /\ AccountsExact /\ ListenersFollow

(* Nothing runs twice or in the wrong VM, and what was accepted ends.       *)
JobsHandled == RunOnce /\ JobsSettle
=============================================================================
