---------------------------- MODULE StartupProofs ----------------------------
(***************************************************************************)
(* Proofs about Loaders and CoreRuntime, for any threads, copies of the    *)
(* runtime, loaders and proxies found: what startup promises to the game,  *)
(* and that a recursive proxy is retired for good.                         *)
(*                                                                         *)
(* At the end, about Selection, for any catalog, declarations and modules: *)
(* what its patches are bound to.                                          *)
(*                                                                         *)
(* The inductive invariant says what each phase of a copy's control thread *)
(* has done, what a caller of FC_Start knows of its copy, and which calls  *)
(* a thread may be in, from the outermost to the innermost.                *)
(***************************************************************************)
EXTENDS Loaders, Selection, Folding, SequenceTheorems, TLAPS

-----------------------------------------------------------------------------
(* A copy of the runtime. *)

(* What the control thread of a copy has done in each phase; an unstarted  *)
(* copy has done nothing.                                                  *)
PhaseSound(c) ==
    /\ progress[c] = "None" => native[c] = "Nothing" /\ runtime[c].result # "Started"
    /\ progress[c] # "None" => runtime[c].started /\ guard = c /\ game
    /\ progress[c] \in Initializing => runtime[c].result = "Pending"
    /\ progress[c] = "Serving" => runtime[c].result = "Started"
    /\ runtime[c].result # "Pending" => runtime[c].started
    /\ runtime[c].result = "Error" => native[c] = "Nothing"

ObserverSound(c) ==
    /\ native[c] = "Nothing" => galaxy[c] # "Installed"
    /\ progress[c] \in {"None", "Created", "Reporting", "Resolved", "Observed"} =>
          galaxy[c] = "Unselected" /\ limits[c] = 0 /\ native[c] = "Nothing"
    /\ progress[c] = "Selected" =>
          galaxy[c] \in {"Unsupported", "Waiting", "Planning"} /\ native[c] = "Nothing"
    /\ progress[c] \in {"Installed", "Serving"} =>
          galaxy[c] \in {"Unsupported", "Waiting", "Installed", "Failed"}
    /\ limits[c] <= 1
    /\ galaxy[c] \in {"Waiting", "Planning", "Installed", "Failed"} => limits[c] = 1
    /\ galaxy[c] \in {"Planning", "Installed"} => \A f \in GalaxyImages : observations[c][f] = "Good"

(* A caller that waits or was accepted waits for a started copy, in the    *)
(* mode that copy was started in.                                          *)
CallSound(t) ==
    call[t].at \in {"Waiting", "Accepted"} =>
        /\ call[t].copy \in Copies
        /\ runtime[call[t].copy].started /\ runtime[call[t].copy].role = call[t].role
        /\ call[t].at = "Accepted" => runtime[call[t].copy].result = "Started"

CoreSound ==
    /\ CoreTypeOK
    /\ \A c \in Copies : PhaseSound(c) /\ ObserverSound(c)
    /\ \A t \in Threads : CallSound(t)

-----------------------------------------------------------------------------
(* The calls a thread is in. *)

Forwards == {"System", "Proxy", "Failed"}
Tables == [create : Forwards, other : Forwards]

Entries == LoaderEntries \cup ExternalEntries \cup {"Worker", "Host"}
Stages == {"Starting", "Loaded", "Called", "Started", "Chosen", "Running", "Polling", "Done"}
StackFrames ==
    [entry : Entries, at : Stages, target : Forwards, late : BOOLEAN, primary : BOOLEAN]

(* The outermost call, from the game, a host or RconServer's own thread;   *)
(* the code it is forwarded to; the call a proxy makes from inside; and    *)
(* the system's code, where that one always ends.                          *)
Joining == {"Starting", "Loaded", "Called", "Started"}

Outer(f) ==
    \/ f.entry = "Worker" /\ f.at \in {"Polling", "Called", "Done"} /\ ~f.primary
    \/ f.entry = "Host" /\ f.at = "Called" /\ ~f.primary
    \/ f.entry = "GameWinMain" /\ f.at \in Joining /\ ~f.primary
    \/ f.entry = "Create" /\ f.at \in Joining /\ ~f.primary
    \/ f.entry = "Create" /\ f.at = "Chosen" /\ f.primary /\ f.target # "Failed"

Called(f, g) ==
    /\ g.at = "Running" /\ ~g.primary
    /\ \/ f.entry = "GameWinMain" /\ f.at = "Started" /\ g.entry = "Game"
       \/ f.entry = "Create" /\ f.at = "Chosen" /\ g.entry = f.target

Inner(g, h) ==
    /\ g.entry = "Proxy" /\ h.entry = "Create" /\ ~h.primary
    /\ \/ h.at \in Joining
       \/ h.at = "Chosen" /\ h.target = "System"

Innermost(h, k) == h.at = "Chosen" /\ k.entry = "System" /\ k.at = "Running" /\ ~k.primary

Nested(s) ==
    /\ s \in Seq(StackFrames)
    /\ Len(s) <= 4
    /\ Len(s) >= 1 => Outer(s[1])
    /\ Len(s) >= 2 => Called(s[1], s[2])
    /\ Len(s) >= 3 => Inner(s[2], s[3])
    /\ Len(s) >= 4 => Innermost(s[3], s[4])

(* What a call knows: a retired proxy when it left startup, the game it    *)
(* resumes, and the answer of the runtime it started.                      *)
FrameSound(f, answer) ==
    /\ f.late => rejected
    /\ f.late /\ f.at = "Chosen" => f.target = "System"
    /\ f.entry \in LoaderEntries => game
    /\ f.entry \in LoaderEntries /\ f.at \in {"Started", "Chosen"} => once = "Done"
    /\ f.entry \in LoaderEntries /\ f.at = "Called" /\ ended = "No" =>
          answer.at # "None" /\ answer.copy = Adjacent /\ answer.role = "Client"

InPrimary(s) == Len(s) >= 1 /\ s[1].entry = "Create" /\ s[1].at = "Chosen"

StackSound(t) ==
    /\ Nested(stack[t])
    /\ \A i \in DOMAIN stack[t] : FrameSound(stack[t][i], call[t])
    /\ inPrimary[t] <=> InPrimary(stack[t])

LoadersSound ==
    /\ candidate \in ProxyCandidates /\ game \in BOOLEAN /\ rejected \in BOOLEAN
    /\ once \in {"Unset", "Running", "Done"}
    /\ forwarding \in Tables \cup {NoTable}
    /\ inPrimary \in [Threads -> BOOLEAN]
    /\ stack \in [Threads -> Seq(StackFrames)]
    /\ "DInput8" \in loaders => game
    /\ once = "Done" => runtime[Adjacent].result = "Started" /\ runtime[Adjacent].role = "Client"
    /\ \A t \in Threads : StackSound(t)

IInv == CoreSound /\ LoadersSound

-----------------------------------------------------------------------------
(* Steps of the runtime. *)

(* A started copy keeps its mode, a published result stays.                *)
RuntimeKept ==
    \A c \in Copies :
        /\ runtime[c].started => runtime'[c].started /\ runtime'[c].role = runtime[c].role
        /\ runtime[c].result # "Pending" => runtime'[c].result = runtime[c].result

LEMMA CallKept ==
    ASSUME NEW t \in Threads, CallSound(t), RuntimeKept, call'[t] = call[t]
    PROVE  CallSound(t)'
  BY DEF CallSound, RuntimeKept

LEMMA CopyKept ==
    ASSUME NEW c \in Copies, PhaseSound(c), ObserverSound(c), guard' = guard, game => game',
           progress'[c] = progress[c], native'[c] = native[c], runtime'[c] = runtime[c],
           galaxy'[c] = galaxy[c], limits'[c] = limits[c], observations'[c] = observations[c]
    PROVE  PhaseSound(c)' /\ ObserverSound(c)'
  BY DEF PhaseSound, ObserverSound

(* A step of one copy's control thread. *)
LEMMA CopyStep ==
    ASSUME CoreSound, NEW c \in Copies, CoreTypeOK', RuntimeKept,
           UNCHANGED <<guard, call, game>>,
           \A d \in Copies \ {c} :
              /\ progress'[d] = progress[d] /\ native'[d] = native[d] /\ runtime'[d] = runtime[d]
              /\ galaxy'[d] = galaxy[d] /\ limits'[d] = limits[d] /\ observations'[d] = observations[d],
           PhaseSound(c)', ObserverSound(c)'
    PROVE  CoreSound'
  <1>1. ASSUME NEW d \in Copies PROVE PhaseSound(d)' /\ ObserverSound(d)'
    <2>1. CASE d = c BY <2>1
    <2>2. CASE d # c BY <2>2, CopyKept DEF CoreSound
    <2> QED BY <2>1, <2>2
  <1>2. ASSUME NEW t \in Threads PROVE CallSound(t)'
    BY CallKept DEF CoreSound
  <1> QED BY <1>1, <1>2 DEF CoreSound

LEMMA AdvanceStep ==
    ASSUME CoreSound, NEW c \in Copies, UNCHANGED game,
           StartReporting(c) \/ ResolvePatches(c) \/ ObserveImages(c)
    PROVE  CoreSound' /\ RuntimeKept
  <1>1. /\ progress[c] \in {"Created", "Reporting", "Resolved"}
        /\ progress' = [progress EXCEPT ![c] = IF progress[c] = "Created" THEN "Reporting"
                                             ELSE IF progress[c] = "Reporting" THEN "Resolved" ELSE "Observed"]
        /\ UNCHANGED <<ended, guard, runtime, native, call, dlls, observations, galaxy, limits>>
    BY DEF StartReporting, ResolvePatches, ObserveImages, Advance
  <1>2. /\ progress'[c] \in {"Reporting", "Resolved", "Observed"}
        /\ \A d \in Copies \ {c} : progress'[d] = progress[d]
        /\ progress' \in [Copies -> Phases]
    BY <1>1 DEF CoreSound, CoreTypeOK, Phases, Initializing
  <1>3. CoreTypeOK' BY <1>1, <1>2 DEF CoreSound, CoreTypeOK
  <1>4. RuntimeKept BY <1>1 DEF RuntimeKept
  <1>5. PhaseSound(c)'
    BY <1>1, <1>2 DEF CoreSound, PhaseSound, Initializing
  <1>6. ObserverSound(c)'
    BY <1>1, <1>2 DEF CoreSound, ObserverSound
  <1> QED BY <1>1, <1>2, <1>3, <1>4, <1>5, <1>6, CopyStep

(* What the observer's selection and installation may leave. *)
LEMMA SelectedStep ==
    ASSUME NEW s \in [GalaxyImages -> Probes], NEW supported \in BOOLEAN,
           NEW before \in {"Unselected", "Unsupported", "Waiting", "Installed", "Failed"}
    PROVE  LET next == SelectedGalaxy(before, s, supported)
           IN  /\ next \in {"Unsupported", "Waiting", "Planning", "Installed", "Failed"}
               /\ next \in {"Installed", "Failed"} => before = next
               /\ next \in {"Waiting", "Planning"} => supported /\ before \in {"Unselected", "Waiting"}
               /\ next = "Planning" => \A f \in GalaxyImages : s[f] = "Good"
  <1>1. CASE before \in {"Installed", "Failed", "Unsupported"}
    BY <1>1 DEF SelectedGalaxy
  <1>2. CASE before \in {"Unselected", "Waiting"}
    <2> DEFINE found == {s[f] : f \in GalaxyImages}
    <2>1. CASE ~supported \/ "Bad" \in found
      <3>1. SelectedGalaxy(before, s, supported) = "Unsupported" BY <1>2, <2>1 DEF SelectedGalaxy
      <3> QED BY <3>1
    <2>2. CASE supported /\ "Bad" \notin found /\ "Absent" \in found
      <3>1. SelectedGalaxy(before, s, supported) = "Waiting" BY <1>2, <2>2 DEF SelectedGalaxy
      <3> QED BY <1>2, <2>2, <3>1
    <2>3. CASE supported /\ "Bad" \notin found /\ "Absent" \notin found
      <3>1. SelectedGalaxy(before, s, supported) = "Planning" BY <1>2, <2>3 DEF SelectedGalaxy
      <3>2. \A f \in GalaxyImages : s[f] = "Good" BY <2>3 DEF Probes
      <3> QED BY <1>2, <2>3, <3>1, <3>2
    <2> QED BY <2>1, <2>2, <2>3
  <1> QED BY <1>1, <1>2

Done == {"Nothing", "Exposed", "Installed"}

LEMMA InstallStep ==
    ASSUME NEW before, NEW done \in Done, NEW out \in InstallOutcomes(before, done)
    PROVE  /\ out[2] \in Done
           /\ done # "Nothing" => out[2] # "Nothing"
           /\ before = "Planning" => out[1] \in {"Installed", "Failed"} /\ (out[1] = "Installed" => out[2] = "Installed")
           /\ before # "Planning" => out[1] = before
  <1> DEFINE reached == IF done = "Installed" THEN {done} ELSE {done, "Exposed", "Installed"}
  <1>1. \A n \in reached : n \in Done /\ (done # "Nothing" => n # "Nothing") BY DEF Done
  <1>2. CASE before = "Planning"
    <2>1. out \in {<<"Installed", "Installed">>} \cup {<<"Failed", n>> : n \in reached}
      BY <1>2 DEF InstallOutcomes
    <2> HIDE DEF reached
    <2>2. CASE out = <<"Installed", "Installed">> BY <1>2, <2>2 DEF Done
    <2>3. CASE \E n \in reached : out = <<"Failed", n>> BY <1>1, <1>2, <2>3
    <2> QED BY <2>1, <2>2, <2>3
  <1>3. CASE before # "Planning"
    <2>1. out \in {<<before, n>> : n \in reached} BY <1>3 DEF InstallOutcomes
    <2> HIDE DEF reached
    <2> QED BY <1>1, <1>3, <2>1
  <1> QED BY <1>2, <1>3

LEMMA ListedStep ==
    ASSUME dlls \in [GalaxyImages -> Probes], NEW s \in [GalaxyImages -> Probes \cup {"Unlisted"}]
    PROVE  Listed(s) \in [GalaxyImages -> Probes]
  BY DEF Listed, Probes

GalaxyStates == {"Unselected", "Unsupported", "Waiting", "Planning", "Installed", "Failed"}

LEMMA SelectObserversStep ==
    ASSUME CoreSound, NEW c \in Copies, UNCHANGED game, SelectObservers(c)
    PROVE  CoreSound' /\ RuntimeKept
  <1>1. PICK supported \in BOOLEAN :
          LET after == IF supported THEN Listed(observations[c]) ELSE observations[c]
          IN /\ galaxy' = [galaxy EXCEPT ![c] = SelectedGalaxy(@, after, supported)]
             /\ observations' = [observations EXCEPT ![c] = after]
             /\ limits' = [limits EXCEPT ![c] = IF SetsLimits(galaxy[c], supported) THEN @ + 1 ELSE @]
    BY DEF SelectObservers
  <1> DEFINE after == IF supported THEN Listed(observations[c]) ELSE observations[c]
             next == SelectedGalaxy(galaxy[c], after, supported)
  <1>2. /\ progress[c] = "Observed" /\ progress' = [progress EXCEPT ![c] = "Selected"]
        /\ UNCHANGED <<ended, guard, runtime, native, call, dlls>>
    BY DEF SelectObservers, Advance
  <1>3. /\ galaxy[c] = "Unselected" /\ limits[c] = 0 /\ native[c] = "Nothing"
        /\ dlls \in [GalaxyImages -> Probes] /\ observations[c] \in [GalaxyImages -> Probes \cup {"Unlisted"}]
    BY <1>2 DEF CoreSound, ObserverSound, CoreTypeOK
  <1>4. after \in [GalaxyImages -> Probes \cup {"Unlisted"}] /\ (supported => after \in [GalaxyImages -> Probes])
    BY <1>3, ListedStep
  <1>5. /\ next \in {"Unsupported", "Waiting", "Planning"}
        /\ next # "Unsupported" => supported
        /\ next = "Planning" => \A f \in GalaxyImages : after[f] = "Good"
    <2> HIDE DEF after
    <2>1. CASE supported
      <3>1. after \in [GalaxyImages -> Probes] BY <1>4, <2>1
      <3>2. /\ next \in {"Unsupported", "Waiting", "Planning", "Installed", "Failed"}
            /\ next \in {"Installed", "Failed"} => galaxy[c] = next
            /\ next = "Planning" => \A f \in GalaxyImages : after[f] = "Good"
        BY <1>3, <3>1, SelectedStep
      <3> HIDE DEF next
      <3> QED BY <1>3, <2>1, <3>2
    <2>2. CASE ~supported
      <3>1. next = "Unsupported" BY <1>3, <2>2 DEF SelectedGalaxy
      <3> QED BY <3>1
    <2> QED BY <2>1, <2>2
  <1>6. limits'[c] = (IF supported THEN 1 ELSE 0) /\ \A d \in Copies \ {c} : limits'[d] = limits[d]
    BY <1>1, <1>3 DEF SetsLimits, CoreSound, CoreTypeOK
  <1>7. /\ galaxy' = [galaxy EXCEPT ![c] = next] /\ observations' = [observations EXCEPT ![c] = after]
        /\ limits' = [limits EXCEPT ![c] = IF supported THEN 1 ELSE 0]
    BY <1>1, <1>3 DEF SetsLimits, CoreSound, CoreTypeOK
  <1> HIDE DEF next, after
  <1>8. /\ progress'[c] = "Selected" /\ galaxy'[c] = next /\ observations'[c] = after
        /\ \A d \in Copies \ {c} : progress'[d] = progress[d] /\ galaxy'[d] = galaxy[d] /\ observations'[d] = observations[d]
    BY <1>2, <1>7 DEF CoreSound, CoreTypeOK
  <1>9. CoreTypeOK'
    BY <1>2, <1>4, <1>5, <1>7 DEF CoreSound, CoreTypeOK, Phases, Initializing
  <1>10. RuntimeKept BY <1>2 DEF RuntimeKept
  <1>11. PhaseSound(c)'
    BY <1>2, <1>8 DEF CoreSound, PhaseSound, Initializing
  <1>12. ObserverSound(c)'
    BY <1>2, <1>3, <1>5, <1>6, <1>8 DEF ObserverSound
  <1> QED BY <1>2, <1>6, <1>8, <1>9, <1>10, <1>11, <1>12, CopyStep

LEMMA InstallBatchStep ==
    ASSUME CoreSound, NEW c \in Copies, UNCHANGED game, InstallBatch(c)
    PROVE  CoreSound' /\ RuntimeKept
  <1>1. PICK out \in InstallOutcomes(galaxy[c], native[c]) :
          /\ galaxy' = [galaxy EXCEPT ![c] = out[1]]
          /\ native' = [native EXCEPT ![c] = out[2]]
    BY DEF InstallBatch
  <1>2. /\ progress[c] = "Selected" /\ progress' = [progress EXCEPT ![c] = "Installed"]
        /\ UNCHANGED <<ended, guard, runtime, call, dlls, observations, limits>>
    BY DEF InstallBatch, Advance
  <1>3. native[c] \in Done BY DEF CoreSound, CoreTypeOK, Done
  <1>4. /\ out[2] \in Done
        /\ galaxy[c] = "Planning" => out[1] \in {"Installed", "Failed"} /\ (out[1] = "Installed" => out[2] = "Installed")
        /\ galaxy[c] # "Planning" => out[1] = galaxy[c]
    BY <1>3, InstallStep
  <1>5. /\ progress'[c] = "Installed" /\ galaxy'[c] = out[1] /\ native'[c] = out[2]
        /\ \A d \in Copies \ {c} :
             progress'[d] = progress[d] /\ galaxy'[d] = galaxy[d] /\ native'[d] = native[d]
    BY <1>1, <1>2 DEF CoreSound, CoreTypeOK
  <1>6. galaxy[c] \in {"Unsupported", "Waiting", "Planning"} BY <1>2 DEF CoreSound, ObserverSound
  <1>7. CoreTypeOK'
    BY <1>1, <1>2, <1>4, <1>6 DEF CoreSound, CoreTypeOK, Phases, Initializing, Done
  <1>8. RuntimeKept BY <1>2 DEF RuntimeKept
  <1>9. PhaseSound(c)'
    BY <1>2, <1>5 DEF CoreSound, PhaseSound, Initializing
  <1>10. ObserverSound(c)'
    BY <1>2, <1>4, <1>5, <1>6 DEF CoreSound, ObserverSound
  <1> QED BY <1>2, <1>5, <1>7, <1>8, <1>9, <1>10, CopyStep

LEMMA FinishStartStep ==
    ASSUME CoreSound, NEW c \in Copies, UNCHANGED game, FinishStart(c)
    PROVE  CoreSound' /\ RuntimeKept
  <1>1. /\ progress[c] = "Installed" /\ progress' = [progress EXCEPT ![c] = "Serving"]
        /\ runtime' = [runtime EXCEPT ![c].result = "Started"]
        /\ UNCHANGED <<ended, guard, native, call, dlls, observations, galaxy, limits>>
    BY DEF FinishStart, Advance
  <1>2. /\ progress'[c] = "Serving"
        /\ runtime'[c] = [runtime[c] EXCEPT !.result = "Started"]
        /\ \A d \in Copies \ {c} : progress'[d] = progress[d] /\ runtime'[d] = runtime[d]
    BY <1>1 DEF CoreSound, CoreTypeOK
  <1>3. /\ runtime'[c].result = "Started" /\ runtime'[c].role = runtime[c].role
        /\ runtime'[c].started = runtime[c].started
    BY <1>2 DEF CoreSound, CoreTypeOK
  <1>4. runtime[c].result = "Pending" /\ runtime[c].started
    BY <1>1 DEF CoreSound, PhaseSound, Initializing
  <1>5. CoreTypeOK'
    <2>1. runtime' \in [Copies -> [started : BOOLEAN, role : Roles, result : {"Pending", "Started", "Error"}]]
      BY ZenonT(120), <1>1 DEF CoreSound, CoreTypeOK
    <2>2. progress' \in [Copies -> Phases] BY <1>1 DEF CoreSound, CoreTypeOK, Phases
    <2> QED BY <1>1, <2>1, <2>2 DEF CoreSound, CoreTypeOK
  <1>6. RuntimeKept BY <1>2, <1>3, <1>4 DEF RuntimeKept
  <1>7. PhaseSound(c)'
    BY <1>1, <1>2, <1>3, <1>4 DEF CoreSound, PhaseSound, Initializing
  <1>8. ObserverSound(c)'
    BY <1>1, <1>2 DEF CoreSound, ObserverSound
  <1> QED BY <1>1, <1>2, <1>5, <1>6, <1>7, <1>8, CopyStep

LEMMA ControlScanStep ==
    ASSUME CoreSound, NEW c \in Copies, UNCHANGED game, ControlScan(c)
    PROVE  CoreSound' /\ RuntimeKept
  <1> DEFINE refreshed == AwaitedObserved(c)
             after == IF galaxy[c] = "Waiting" THEN Listed(refreshed) ELSE observations[c]
             next == SelectedGalaxy(galaxy[c], after, TRUE)
  <1>1. /\ progress[c] = "Serving" /\ observations' = [observations EXCEPT ![c] = after]
        /\ limits' = [limits EXCEPT ![c] = IF SetsLimits(galaxy[c], TRUE) THEN @ + 1 ELSE @]
        /\ \E out \in InstallOutcomes(next, native[c]) :
             galaxy' = [galaxy EXCEPT ![c] = out[1]] /\ native' = [native EXCEPT ![c] = out[2]]
        /\ UNCHANGED <<ended, guard, runtime, progress, call, dlls>>
    BY DEF ControlScan
  <1>2. /\ galaxy[c] \in {"Unsupported", "Waiting", "Installed", "Failed"}
        /\ dlls \in [GalaxyImages -> Probes] /\ observations[c] \in [GalaxyImages -> Probes \cup {"Unlisted"}]
        /\ native[c] \in Done
    BY <1>1 DEF CoreSound, ObserverSound, CoreTypeOK, Done
  <1>3. refreshed \in [GalaxyImages -> Probes \cup {"Unlisted"}] BY <1>2 DEF AwaitedObserved
  <1>4. /\ after \in [GalaxyImages -> Probes \cup {"Unlisted"}]
        /\ galaxy[c] = "Waiting" => after \in [GalaxyImages -> Probes]
        /\ galaxy[c] # "Waiting" => after = observations[c]
    <2> HIDE DEF refreshed
    <2> QED BY <1>2, <1>3, ListedStep
  <1>5. /\ next \in {"Unsupported", "Waiting", "Planning", "Installed", "Failed"}
        /\ galaxy[c] # "Waiting" => next = galaxy[c]
        /\ next \in {"Installed", "Failed"} => galaxy[c] = next
        /\ next = "Planning" => \A f \in GalaxyImages : after[f] = "Good"
    <2> HIDE DEF after
    <2>1. CASE galaxy[c] = "Waiting"
      <3>1. after \in [GalaxyImages -> Probes] BY <1>4, <2>1
      <3>2. /\ next \in {"Unsupported", "Waiting", "Planning", "Installed", "Failed"}
            /\ next \in {"Installed", "Failed"} => galaxy[c] = next
            /\ next = "Planning" => \A f \in GalaxyImages : after[f] = "Good"
        BY <1>2, <3>1, SelectedStep
      <3> HIDE DEF next
      <3> QED BY <2>1, <3>2
    <2>2. CASE galaxy[c] # "Waiting"
      <3>1. next = galaxy[c] BY <1>2, <2>2 DEF SelectedGalaxy
      <3> HIDE DEF next
      <3> QED BY <1>2, <2>2, <3>1
    <2> QED BY <2>1, <2>2
  <1> HIDE DEF next, after, refreshed
  <1>6. PICK out \in InstallOutcomes(next, native[c]) :
          galaxy' = [galaxy EXCEPT ![c] = out[1]] /\ native' = [native EXCEPT ![c] = out[2]]
    BY <1>1
  <1>7. /\ out[2] \in Done
        /\ native[c] # "Nothing" => out[2] # "Nothing"
        /\ next = "Planning" => out[1] \in {"Installed", "Failed"} /\ (out[1] = "Installed" => out[2] = "Installed")
        /\ next # "Planning" => out[1] = next
    BY <1>2, InstallStep
  <1>8. limits' = limits
    BY <1>1, <1>2 DEF SetsLimits, CoreSound, CoreTypeOK
  <1>9. /\ galaxy'[c] = out[1] /\ native'[c] = out[2] /\ observations'[c] = after
        /\ \A d \in Copies \ {c} :
             galaxy'[d] = galaxy[d] /\ native'[d] = native[d] /\ observations'[d] = observations[d]
    BY <1>1, <1>6 DEF CoreSound, CoreTypeOK
  <1>10. out[1] \in {"Unsupported", "Waiting", "Installed", "Failed"}
    BY <1>5, <1>7
  <1>11. CoreTypeOK'
    BY <1>1, <1>4, <1>6, <1>7, <1>8, <1>10 DEF CoreSound, CoreTypeOK, Done
  <1>12. RuntimeKept BY <1>1 DEF RuntimeKept
  <1>13. PhaseSound(c)'
    BY <1>1, <1>9 DEF CoreSound, PhaseSound, Initializing
  <1>14. limits[c] <= 1 /\ (out[1] \in {"Waiting", "Installed", "Failed"} => limits[c] = 1)
    BY <1>2, <1>5, <1>7 DEF CoreSound, ObserverSound
  <1>15. out[1] = "Installed" => native'[c] # "Nothing" /\ \A f \in GalaxyImages : after[f] = "Good"
    <2>1. CASE next = "Planning" BY <1>5, <1>7, <1>9, <2>1
    <2>2. CASE next # "Planning"
      BY <1>4, <1>5, <1>7, <1>9, <2>2 DEF CoreSound, ObserverSound
    <2> QED BY <2>1, <2>2
  <1>16. ObserverSound(c)'
    BY <1>1, <1>8, <1>9, <1>10, <1>14, <1>15 DEF ObserverSound
  <1> QED BY <1>1, <1>8, <1>9, <1>11, <1>12, <1>13, <1>16, CopyStep

LEMMA ControlThrowsStep ==
    ASSUME CoreSound, NEW c \in Copies, NEW known \in BOOLEAN, UNCHANGED game, ControlThrows(c, known)
    PROVE  CoreSound' /\ RuntimeKept
  <1>1. PICK done \in {native[c], "Exposed"} :
          /\ done # native[c] => progress[c] = "Selected" /\ native[c] = "Nothing"
          /\ native' = [native EXCEPT ![c] = done]
          /\ IF known /\ ~RequiresFatal(runtime[c].result, done)
               THEN runtime' = [runtime EXCEPT ![c].result = "Error"] /\ UNCHANGED ended
               ELSE ended' = "Fatal" /\ UNCHANGED runtime
    BY DEF ControlThrows
  <1>2. /\ progress[c] \in Initializing \cup {"Serving"}
        /\ progress' = [progress EXCEPT ![c] = "Stopped"]
        /\ UNCHANGED <<guard, call, dlls, observations, galaxy, limits>>
    BY DEF ControlThrows
  <1>3. /\ progress'[c] = "Stopped" /\ native'[c] = done
        /\ \A d \in Copies \ {c} :
             progress'[d] = progress[d] /\ native'[d] = native[d] /\ runtime'[d] = runtime[d]
    BY <1>1, <1>2 DEF CoreSound, CoreTypeOK
  <1>4. /\ runtime'[c].started = runtime[c].started /\ runtime'[c].role = runtime[c].role
        /\ runtime[c].result # "Pending" => runtime'[c].result = runtime[c].result
        /\ runtime'[c].result = "Error" => runtime[c].result = "Error" \/ done = "Nothing"
        /\ runtime' \in [Copies -> [started : BOOLEAN, role : Roles, result : {"Pending", "Started", "Error"}]]
    <2>1. CASE known /\ ~RequiresFatal(runtime[c].result, done)
      <3>1. runtime' = [runtime EXCEPT ![c].result = "Error"] /\ runtime[c].result = "Pending" /\ done = "Nothing"
        BY <1>1, <2>1 DEF RequiresFatal
      <3>2. runtime'[c] = [runtime[c] EXCEPT !.result = "Error"]
        BY <3>1 DEF CoreSound, CoreTypeOK
      <3>3. [runtime[c] EXCEPT !.result = "Error"] \in
              [started : BOOLEAN, role : Roles, result : {"Pending", "Started", "Error"}]
        BY DEF CoreSound, CoreTypeOK
      <3>4. runtime' = [runtime EXCEPT ![c] = [runtime[c] EXCEPT !.result = "Error"]]
        BY <3>1
      <3>5. runtime' \in [Copies -> [started : BOOLEAN, role : Roles, result : {"Pending", "Started", "Error"}]]
        BY <3>3, <3>4 DEF CoreSound, CoreTypeOK
      <3> QED BY <3>1, <3>2, <3>5 DEF CoreSound, CoreTypeOK
    <2>2. CASE ~(known /\ ~RequiresFatal(runtime[c].result, done))
      <3>1. runtime' = runtime BY <1>1, <2>2
      <3> QED BY <3>1 DEF CoreSound, CoreTypeOK
    <2> QED BY <2>1, <2>2
  <1>5. done \in Done BY <1>1 DEF CoreSound, CoreTypeOK, Done
  <1>6. CoreTypeOK'
    <2>1. ended' \in {"No", "Fatal", "Startup"} BY <1>1 DEF CoreSound, CoreTypeOK
    <2>2. progress' \in [Copies -> Phases] BY <1>2 DEF CoreSound, CoreTypeOK, Phases
    <2>3. native' \in [Copies -> {"Nothing", "Exposed", "Installed"}]
      BY <1>1, <1>5 DEF CoreSound, CoreTypeOK, Done
    <2> QED BY <1>2, <1>4, <2>1, <2>2, <2>3 DEF CoreSound, CoreTypeOK
  <1>7. RuntimeKept BY <1>3, <1>4 DEF RuntimeKept
  <1>8. PhaseSound(c) /\ ObserverSound(c) BY DEF CoreSound
  <1>9. runtime[c].result = "Error" => done = "Nothing"
    BY <1>1, <1>2, <1>8 DEF PhaseSound, Initializing
  <1>10. PhaseSound(c)'
    BY <1>2, <1>3, <1>4, <1>8, <1>9 DEF PhaseSound, Initializing
  <1>11. done = "Nothing" => native[c] = "Nothing" BY <1>1
  <1>12. ObserverSound(c)'
    BY <1>2, <1>3, <1>8, <1>11 DEF ObserverSound
  <1> QED BY <1>2, <1>3, <1>6, <1>7, <1>10, <1>12, CopyStep

-----------------------------------------------------------------------------
(* Calls of FC_Start. *)

LEMMA GameLoadsStep ==
    ASSUME CoreSound, NEW f \in GalaxyImages, NEW build \in Probes, UNCHANGED game, GameLoads(f, build)
    PROVE  CoreSound' /\ RuntimeKept
  <1>1. /\ dlls' = [dlls EXCEPT ![f] = build]
        /\ UNCHANGED <<ended, guard, runtime, progress, native, call, observations, galaxy, limits>>
    BY DEF GameLoads
  <1>2. CoreTypeOK' BY <1>1 DEF CoreSound, CoreTypeOK
  <1>3. RuntimeKept BY <1>1 DEF RuntimeKept
  <1>4. \A c \in Copies : (PhaseSound(c) /\ ObserverSound(c))' BY <1>1, CopyKept DEF CoreSound
  <1>5. \A t \in Threads : CallSound(t)' BY <1>1, <1>3, CallKept DEF CoreSound
  <1> QED BY <1>2, <1>3, <1>4, <1>5 DEF CoreSound

(* A step of one thread's call that leaves every copy alone. *)
LEMMA CallStep ==
    ASSUME CoreSound, NEW t \in Threads, UNCHANGED <<guard, runtime, progress, native, galaxy, limits, observations, dlls>>,
           game => game', ended' \in {"No", "Fatal", "Startup"},
           NEW answer \in [at : {"None", "Waiting", "Accepted", "Refused"},
                           copy : Copies \cup {NoCopy}, role : Roles],
           call' = [call EXCEPT ![t] = answer],
           answer.at \in {"Waiting", "Accepted"} =>
               /\ answer.copy \in Copies
               /\ runtime[answer.copy].started /\ runtime[answer.copy].role = answer.role
               /\ answer.at = "Accepted" => runtime[answer.copy].result = "Started"
    PROVE  CoreSound' /\ RuntimeKept
  <1>1. CoreTypeOK' BY DEF CoreSound, CoreTypeOK
  <1>2. RuntimeKept BY DEF RuntimeKept
  <1>3. \A c \in Copies : (PhaseSound(c) /\ ObserverSound(c))' BY CopyKept DEF CoreSound
  <1>4. call'[t] = answer /\ \A u \in Threads \ {t} : call'[u] = call[u]
    BY DEF CoreSound, CoreTypeOK
  <1>5. CallSound(t)' BY <1>4 DEF CallSound
  <1>6. \A u \in Threads \ {t} : CallSound(u)' BY <1>2, <1>4, CallKept DEF CoreSound
  <1> QED BY <1>1, <1>2, <1>3, <1>5, <1>6 DEF CoreSound

LEMMA AnswerStep ==
    ASSUME CoreSound, NEW t \in Threads, UNCHANGED game, Answer(t)
    PROVE  /\ CoreSound' /\ RuntimeKept
           /\ call'[t].at \in {"Accepted", "Refused"}
           /\ call'[t].copy = call[t].copy /\ call'[t].role = call[t].role
           /\ \A u \in Threads \ {t} : call'[u] = call[u]
  <1> DEFINE outcome == IF runtime[call[t].copy].result = "Started" THEN "Accepted" ELSE "Refused"
             answer == [call[t] EXCEPT !.at = outcome]
  <1>1. /\ call[t].at = "Waiting" /\ call' = [call EXCEPT ![t].at = outcome]
        /\ UNCHANGED <<ended, guard, runtime, progress, native, dlls, observations, galaxy, limits>>
    BY DEF Answer
  <1>2. call[t] \in [at : {"None", "Waiting", "Accepted", "Refused"}, copy : Copies \cup {NoCopy}, role : Roles]
    BY DEF CoreSound, CoreTypeOK
  <1>3. outcome \in {"Accepted", "Refused"} /\ (outcome = "Accepted" => runtime[call[t].copy].result = "Started")
    OBVIOUS
  <1>4. CallSound(t) BY DEF CoreSound
  <1> HIDE DEF outcome
  <1>5. /\ answer \in [at : {"None", "Waiting", "Accepted", "Refused"}, copy : Copies \cup {NoCopy}, role : Roles]
        /\ answer.at = outcome /\ answer.copy = call[t].copy /\ answer.role = call[t].role
    BY <1>2, <1>3
  <1>6. call' = [call EXCEPT ![t] = answer] BY <1>1
  <1>7. call'[t] = answer /\ \A u \in Threads \ {t} : call'[u] = call[u]
    BY <1>6 DEF CoreSound, CoreTypeOK
  <1> HIDE DEF answer
  <1>8. answer.at \in {"Waiting", "Accepted"} =>
          /\ answer.copy \in Copies
          /\ runtime[answer.copy].started /\ runtime[answer.copy].role = answer.role
          /\ answer.at = "Accepted" => runtime[answer.copy].result = "Started"
    BY <1>1, <1>3, <1>4, <1>5 DEF CallSound
  <1>9. ended' \in {"No", "Fatal", "Startup"} BY <1>1 DEF CoreSound, CoreTypeOK
  <1>10. CoreSound' /\ RuntimeKept
    <2>1. UNCHANGED <<guard, runtime, progress, native, galaxy, limits, observations, dlls>> BY <1>1
    <2> QED BY <2>1, <1>5, <1>6, <1>8, <1>9, CallStep
  <1> QED BY <1>3, <1>5, <1>7, <1>10

(* A first accepted call: without the guard the copy fails at once. *)
LEMMA FirstStartStep ==
    ASSUME CoreSound, NEW t \in Threads, NEW c \in Copies, NEW role \in Roles, game, UNCHANGED game,
           ~runtime[c].started, FirstStart(c, role),
           call' = [call EXCEPT ![t] = [at |-> "Waiting", copy |-> c, role |-> role]],
           UNCHANGED <<ended, native, dlls, observations, galaxy, limits>>
    PROVE  CoreSound' /\ RuntimeKept
  <1>1. PICK result \in {"Pending", "Error"} :
          /\ runtime' = [runtime EXCEPT ![c] = [started |-> TRUE, role |-> role, result |-> result]]
          /\ \/ guard = NoCopy /\ guard' = c /\ progress' = [progress EXCEPT ![c] = "Created"] /\ result = "Pending"
             \/ UNCHANGED <<guard, progress>>
    BY DEF FirstStart
  <1>2. /\ runtime'[c].started /\ runtime'[c].role = role /\ runtime'[c].result = result
        /\ \A d \in Copies \ {c} : runtime'[d] = runtime[d]
    BY <1>1 DEF CoreSound, CoreTypeOK
  <1>3. /\ runtime[c].result = "Pending" /\ progress[c] = "None" /\ native[c] = "Nothing"
        /\ galaxy[c] = "Unselected" /\ limits[c] = 0
    BY DEF CoreSound, PhaseSound, ObserverSound
  <1>4. CoreTypeOK'
    <2>1. runtime' \in [Copies -> [started : BOOLEAN, role : Roles, result : {"Pending", "Started", "Error"}]]
      BY <1>1 DEF CoreSound, CoreTypeOK
    <2>2. progress' \in [Copies -> Phases] /\ guard' \in Copies \cup {NoCopy}
      BY <1>1 DEF CoreSound, CoreTypeOK, Phases, Initializing
    <2>3. call' \in [Threads -> [at : {"None", "Waiting", "Accepted", "Refused"},
                                 copy : Copies \cup {NoCopy}, role : Roles]]
      BY DEF CoreSound, CoreTypeOK
    <2> QED BY <2>1, <2>2, <2>3 DEF CoreSound, CoreTypeOK
  <1>5. RuntimeKept BY <1>2, <1>3 DEF RuntimeKept
  <1>6. PhaseSound(c)' /\ ObserverSound(c)'
    <2>1. CASE UNCHANGED <<guard, progress>>
      BY <1>2, <1>3, <2>1 DEF CoreSound, PhaseSound, ObserverSound, Initializing
    <2>2. CASE guard' = c /\ progress' = [progress EXCEPT ![c] = "Created"] /\ result = "Pending"
      <3>1. progress'[c] = "Created" BY <2>2 DEF CoreSound, CoreTypeOK
      <3> QED BY <1>2, <1>3, <2>2, <3>1 DEF CoreSound, PhaseSound, ObserverSound, Initializing
    <2> QED BY <1>1, <2>1, <2>2
  <1>7. ASSUME NEW d \in Copies, d # c PROVE PhaseSound(d)' /\ ObserverSound(d)'
    <2>1. CASE UNCHANGED <<guard, progress>>
      BY <1>2, <1>7, <2>1, CopyKept DEF CoreSound
    <2>2. CASE guard = NoCopy /\ guard' = c /\ progress' = [progress EXCEPT ![c] = "Created"]
      <3>1. progress[d] = "None" BY <2>2, StartupAssumption DEF CoreSound, PhaseSound
      <3>2. progress'[d] = "None" BY <1>7, <2>2, <3>1 DEF CoreSound, CoreTypeOK
      <3> QED BY <1>2, <1>7, <3>1, <3>2 DEF CoreSound, PhaseSound, ObserverSound, Initializing
    <2> QED BY <1>1, <2>1, <2>2
  <1>8. /\ call'[t].at = "Waiting" /\ call'[t].copy = c /\ call'[t].role = role
        /\ \A u \in Threads \ {t} : call'[u] = call[u]
    BY DEF CoreSound, CoreTypeOK
  <1>9. CallSound(t)' BY <1>2, <1>8 DEF CallSound
  <1>10. \A u \in Threads \ {t} : CallSound(u)' BY <1>5, <1>8, CallKept DEF CoreSound
  <1> QED BY <1>4, <1>5, <1>6, <1>7, <1>9, <1>10 DEF CoreSound

LEMMA StartStep ==
    ASSUME CoreSound, NEW t \in Threads, NEW c \in Copies, NEW role \in Roles, game, UNCHANGED game,
           StartRuntime(t, c, role) \/ RefuseStart(t, c, role)
    PROVE  /\ CoreSound' /\ RuntimeKept /\ UNCHANGED ended
           /\ call'[t].at # "None" /\ call'[t].copy = c /\ call'[t].role = role
           /\ \A u \in Threads \ {t} : call'[u] = call[u]
  <1> DEFINE Answers == [at : {"None", "Waiting", "Accepted", "Refused"}, copy : Copies \cup {NoCopy}, role : Roles]
             refusal == [at |-> "Refused", copy |-> c, role |-> role]
             waiting == [at |-> "Waiting", copy |-> c, role |-> role]
  <1>1. refusal \in Answers /\ waiting \in Answers OBVIOUS
  <1>2. ASSUME NEW answer \in {refusal, waiting}, call' = [call EXCEPT ![t] = answer]
        PROVE  /\ call'[t].at # "None" /\ call'[t].copy = c /\ call'[t].role = role
               /\ \A u \in Threads \ {t} : call'[u] = call[u]
    BY <1>2 DEF CoreSound, CoreTypeOK
  <1>3. ended \in {"No", "Fatal", "Startup"} BY DEF CoreSound, CoreTypeOK
  <1>4. CASE /\ call' = [call EXCEPT ![t] = refusal]
             /\ UNCHANGED <<ended, guard, runtime, progress, native, dlls, observations, galaxy, limits>>
    <2>1. refusal.at = "Refused" OBVIOUS
    <2>2. CoreSound' /\ RuntimeKept
      <3> HIDE DEF refusal
      <3> QED BY <1>1, <1>3, <1>4, <2>1, CallStep
    <2> QED BY <1>2, <1>4, <2>2
  <1>5. CASE /\ call' = [call EXCEPT ![t] = waiting] /\ runtime[c].started /\ runtime[c].role = role
             /\ UNCHANGED <<ended, guard, runtime, progress, native, dlls, observations, galaxy, limits>>
    <2>1. waiting.at = "Waiting" /\ waiting.copy = c /\ waiting.role = role OBVIOUS
    <2>2. CoreSound' /\ RuntimeKept
      <3> HIDE DEF waiting
      <3> QED BY <1>1, <1>3, <1>5, <2>1, CallStep
    <2> QED BY <1>2, <1>5, <2>2
  <1>6. CASE /\ call' = [call EXCEPT ![t] = waiting] /\ ~runtime[c].started /\ FirstStart(c, role)
             /\ UNCHANGED <<ended, native, dlls, observations, galaxy, limits>>
    <2>1. CoreSound' /\ RuntimeKept BY <1>6, FirstStartStep
    <2> QED BY <1>2, <1>6, <2>1
  <1> QED BY <1>4, <1>5, <1>6 DEF StartRuntime, RefuseStart

-----------------------------------------------------------------------------
(* The stack of a thread. *)

LEMMA Depth ==
    ASSUME NEW s, Nested(s)
    PROVE  /\ s \in Seq(StackFrames) /\ Len(s) \in 0 .. 4
           /\ s # <<>> => Len(s) \in 1 .. 4
  <1> DEFINE n == Len(s)
  <1>1. s \in Seq(StackFrames) /\ n <= 4 BY DEF Nested
  <1>2. n \in Nat BY <1>1, LenProperties
  <1>3. s # <<>> => n # 0 BY <1>1, EmptySeq
  <1> HIDE DEF n
  <1>4. n \in 0 .. 4 /\ (s # <<>> => n \in 1 .. 4) BY <1>1, <1>2, <1>3
  <1> QED BY <1>1, <1>4 DEF n

(* Calls come from outside, or from a proxy that runs inside a primary     *)
(* call.                                                                   *)
LEMMA Shapes ==
    ASSUME NEW s, Nested(s), s # <<>>
    PROVE  LET top == s[Len(s)]
           IN  /\ Len(s) \in 1 .. 4
               /\ top.entry \in LoaderEntries => Len(s) \in {1, 3}
               /\ top.entry = "GameWinMain" => Len(s) = 1
               /\ top.entry \in {"Worker", "Host"} => Len(s) = 1
               /\ top.entry = "Game" => Len(s) = 2 /\ s[1].entry = "GameWinMain"
               /\ top.entry = "Proxy" => Len(s) = 2
               /\ top.entry \in {"System", "Proxy"} => Len(s) \in {2, 4}
               /\ top.entry # "Loader"
               /\ Len(s) >= 2 /\ s[2].entry \in {"System", "Proxy"} => InPrimary(s) /\ s[1].primary
               /\ Len(s) >= 3 => InPrimary(s) /\ ~s[3].primary
  <1>1. Len(s) \in 1 .. 4 BY Depth
  <1>2. /\ Outer(s[1])
        /\ Len(s) >= 2 => Called(s[1], s[2])
        /\ Len(s) >= 3 => Inner(s[2], s[3])
        /\ Len(s) >= 4 => Innermost(s[3], s[4])
    BY <1>1 DEF Nested
  <1>3. Len(s) >= 2 /\ s[2].entry \in {"System", "Proxy"} => InPrimary(s) /\ s[1].primary
    BY <1>1, <1>2 DEF Outer, Called, InPrimary, Joining
  <1>4. Len(s) >= 3 => s[2].entry = "Proxy" /\ s[3].entry = "Create" /\ ~s[3].primary
    BY <1>1, <1>2 DEF Inner
  <1>5. CASE Len(s) = 1 BY <1>2, <1>5 DEF Outer, LoaderEntries
  <1>6. CASE Len(s) = 2
    <2>1. s[1] \in StackFrames BY <1>1 DEF Nested
    <2>2. s[1].target \in Forwards BY <2>1 DEF StackFrames
    <2>3. s[2].entry \in {"Game", "System", "Proxy"} /\ (s[2].entry = "Game" => s[1].entry = "GameWinMain")
      BY <1>2, <1>6, <2>2 DEF Called, Outer, Joining, Forwards
    <2> QED BY <1>3, <1>6, <2>3 DEF LoaderEntries
  <1>7. CASE Len(s) = 3 BY <1>3, <1>4, <1>7 DEF LoaderEntries
  <1>8. CASE Len(s) = 4
    <2>1. s[4].entry = "System" BY <1>2, <1>8 DEF Innermost
    <2> QED BY <1>3, <1>4, <1>8, <2>1 DEF LoaderEntries
  <1> QED BY <1>1, <1>5, <1>6, <1>7, <1>8

LEMMA BelowTop ==
    ASSUME NEW s, Nested(s), NEW i \in 1 .. Len(s) - 1
    PROVE  s[i].at # "Called"
  BY DEF Nested, Called, Inner, Innermost

(* The stack r is s with its innermost call moved on to f. *)
Retopped(s, f, r) == r = Append(SubSeq(s, 1, Len(s) - 1), f)

LEMMA RetopSeq ==
    ASSUME NEW s \in Seq(StackFrames), s # <<>>, NEW f \in StackFrames,
           NEW r, Retopped(s, f, r)
    PROVE  /\ r \in Seq(StackFrames) /\ Len(r) = Len(s) /\ r[Len(s)] = f
           /\ \A i \in 1 .. Len(s) - 1 : r[i] = s[i]
  <1> DEFINE n == Len(s)
             b == SubSeq(s, 1, n - 1)
  <1>1. n \in Nat \ {0} /\ \A i \in 1 .. n : s[i] \in StackFrames BY LenProperties, EmptySeq
  <1> HIDE DEF n
  <1>2. \A i \in 1 .. n - 1 : s[i] \in StackFrames BY <1>1
  <1>3. /\ b \in Seq(StackFrames)
        /\ Len(b) = IF 1 <= n - 1 THEN (n - 1) - 1 + 1 ELSE 0
        /\ \A i \in 1 .. (n - 1) - 1 + 1 : b[i] = s[1 + i - 1]
    BY <1>1, <1>2, SubSeqProperties
  <1> HIDE DEF b
  <1>4. Len(b) = n - 1 /\ \A i \in 1 .. n - 1 : b[i] = s[i] BY <1>1, <1>3
  <1>5. r = Append(b, f) BY DEF b, n, Retopped
  <1>6. /\ r \in Seq(StackFrames) /\ Len(r) = Len(b) + 1 /\ r[Len(b) + 1] = f
        /\ \A i \in 1 .. Len(b) : r[i] = b[i]
    BY <1>3, <1>5, AppendProperties
  <1>7. Len(b) + 1 = n BY <1>1, <1>4
  <1>8. r \in Seq(StackFrames) /\ Len(r) = n /\ r[n] = f /\ \A i \in 1 .. n - 1 : r[i] = s[i]
    BY <1>4, <1>6, <1>7
  <1> QED BY <1>8 DEF n

LEMMA RetopNested ==
    ASSUME NEW s, Nested(s), s # <<>>, NEW f \in StackFrames, Len(s) \in {1, 3},
           Len(s) = 1 => Outer(f), Len(s) = 3 => Inner(s[2], f),
           NEW r, Retopped(s, f, r)
    PROVE  /\ Nested(r) /\ Len(r) = Len(s) /\ r[Len(s)] = f
           /\ \A i \in 1 .. Len(s) - 1 : r[i] = s[i]
           /\ Len(s) = 3 => (InPrimary(r) <=> InPrimary(s))
           /\ Len(s) = 1 => (InPrimary(r) <=> f.entry = "Create" /\ f.at = "Chosen")
  <1>1. /\ r \in Seq(StackFrames) /\ Len(r) = Len(s) /\ r[Len(s)] = f
        /\ \A i \in 1 .. Len(s) - 1 : r[i] = s[i]
    <2>1. s \in Seq(StackFrames) BY Depth
    <2> QED BY <2>1, RetopSeq
  <1>2. CASE Len(s) = 1 BY <1>1, <1>2 DEF Nested, InPrimary
  <1>3. CASE Len(s) = 3
    <2>1. r[1] = s[1] /\ r[2] = s[2] /\ r[3] = f BY <1>1, <1>3
    <2> QED BY <1>1, <1>3, <2>1 DEF Nested, InPrimary
  <1> QED BY <1>2, <1>3

(* A call that waits for startup moves on in it. *)
LEMMA JoiningTop ==
    ASSUME NEW s, Nested(s), s # <<>>, s[Len(s)].entry \in LoaderEntries, s[Len(s)].at \in Joining,
           NEW f \in StackFrames, f.entry = s[Len(s)].entry, f.primary = s[Len(s)].primary, f.at \in Joining,
           NEW r, Retopped(s, f, r)
    PROVE  /\ Nested(r) /\ Len(r) = Len(s) /\ r[Len(s)] = f
           /\ \A i \in 1 .. Len(s) - 1 : r[i] = s[i]
           /\ InPrimary(r) <=> InPrimary(s)
  <1>1. Len(s) \in {1, 3} BY Shapes
  <1>2. Len(s) = 1 => Outer(f)
    BY DEF Nested, Outer, Joining, LoaderEntries
  <1>3. Len(s) = 3 => Inner(s[2], f)
    BY DEF Nested, Inner, Joining
  <1>4. f.at # "Chosen" /\ (Len(s) = 1 => ~InPrimary(s)) BY DEF Joining, InPrimary
  <1>5. /\ Nested(r) /\ Len(r) = Len(s) /\ r[Len(s)] = f
        /\ \A i \in 1 .. Len(s) - 1 : r[i] = s[i]
        /\ Len(s) = 3 => (InPrimary(r) <=> InPrimary(s))
        /\ Len(s) = 1 => (InPrimary(r) <=> f.entry = "Create" /\ f.at = "Chosen")
    BY <1>1, <1>2, <1>3, RetopNested
  <1> QED BY <1>1, <1>4, <1>5

(* The stack r is s with the call f entered, or with k calls left. *)
Entered(s, f, r) == r = Append(s, f)
Left(s, k, r) == r = SubSeq(s, 1, k)

LEMMA PushNested ==
    ASSUME NEW s, Nested(s), NEW f \in StackFrames, Len(s) <= 3,
           Len(s) = 0 => Outer(f), Len(s) = 1 => Called(s[1], f),
           Len(s) = 2 => Inner(s[2], f), Len(s) = 3 => Innermost(s[3], f),
           NEW r, Entered(s, f, r)
    PROVE  /\ Nested(r) /\ Len(r) = Len(s) + 1 /\ r[Len(s) + 1] = f
           /\ \A i \in 1 .. Len(s) : r[i] = s[i]
           /\ Len(s) > 0 => (InPrimary(r) <=> InPrimary(s))
           /\ Len(s) = 0 => (InPrimary(r) <=> f.entry = "Create" /\ f.at = "Chosen")
  <1>1. /\ r \in Seq(StackFrames) /\ Len(r) = Len(s) + 1 /\ r[Len(s) + 1] = f
        /\ \A i \in 1 .. Len(s) : r[i] = s[i]
    BY DEF Nested, Entered
  <1>2. Len(s) \in 0 .. 3 BY Depth
  <1>3. CASE Len(s) = 0 BY <1>1, <1>3 DEF Nested, InPrimary
  <1>4. CASE Len(s) = 1 BY <1>1, <1>4 DEF Nested, InPrimary
  <1>5. CASE Len(s) = 2
    <2>1. r[1] = s[1] /\ r[2] = s[2] /\ r[3] = f BY <1>1, <1>5
    <2> QED BY <1>1, <1>5, <2>1 DEF Nested, InPrimary
  <1>6. CASE Len(s) = 3
    <2>1. r[1] = s[1] /\ r[2] = s[2] /\ r[3] = s[3] /\ r[4] = f BY <1>1, <1>6
    <2> QED BY <1>1, <1>6, <2>1 DEF Nested, InPrimary
  <1> QED BY <1>2, <1>3, <1>4, <1>5, <1>6

LEMMA PopNested ==
    ASSUME NEW s, Nested(s), NEW k \in 0 .. Len(s), NEW r, Left(s, k, r)
    PROVE  /\ Nested(r) /\ Len(r) = k /\ \A i \in 1 .. k : r[i] = s[i]
           /\ InPrimary(r) <=> k > 0 /\ InPrimary(s)
  <1>1. r \in Seq(StackFrames) /\ Len(r) = k /\ \A i \in 1 .. k : r[i] = s[i]
    BY DEF Nested, Left
  <1>2. k \in 0 .. 4 /\ Len(s) \in 0 .. 4
    <2> DEFINE n == Len(s)
    <2>1. n \in 0 .. 4 /\ k \in 0 .. n BY Depth
    <2> HIDE DEF n
    <2>2. k \in 0 .. 4 BY <2>1
    <2> QED BY <2>1, <2>2 DEF n
  <1>3. /\ k >= 1 => r[1] = s[1]
        /\ k >= 2 => r[2] = s[2]
        /\ k >= 3 => r[3] = s[3]
        /\ k >= 4 => r[4] = s[4]
    BY <1>1, <1>2
  <1> QED BY <1>1, <1>2, <1>3 DEF Nested, InPrimary

(* What a call knows stays true: only an innermost call awaits an answer. *)
LEMMA FrameKept ==
    ASSUME NEW f, NEW a, NEW b, FrameSound(f, a), rejected => rejected', game => game',
           once = "Done" => once' = "Done", ended = "No",
           \/ f.at # "Called" \/ ended' # "No" \/ a = b
           \/ b.at # "None" /\ b.copy = a.copy /\ b.role = a.role
    PROVE  FrameSound(f, b)'
  BY DEF FrameSound

LEMMA StackKept ==
    ASSUME NEW t \in Threads, StackSound(t), rejected => rejected', game => game',
           once = "Done" => once' = "Done", ended = "No",
           stack'[t] = stack[t], inPrimary'[t] = inPrimary[t],
           \/ ended' # "No" \/ call'[t] = call[t]
           \/ call'[t].at # "None" /\ call'[t].copy = call[t].copy /\ call'[t].role = call[t].role
    PROVE  StackSound(t)'
  <1>1. ASSUME NEW i \in DOMAIN stack[t] PROVE FrameSound(stack[t][i], call[t])'
    <2>1. FrameSound(stack[t][i], call[t]) BY DEF StackSound
    <2> QED BY <2>1 DEF FrameSound
  <1> QED BY <1>1 DEF StackSound, Nested, InPrimary, Outer, Called, Inner, Innermost

-----------------------------------------------------------------------------
(* Steps of the loaders. *)

(* Shared state: a retired proxy stays retired, a loaded game stays loaded *)
(* and startup is done once the runtime beside the loader has started.     *)
SharedKept ==
    /\ UNCHANGED <<loaders, candidate>>
    /\ rejected' \in BOOLEAN /\ (rejected => rejected')
    /\ game' \in BOOLEAN /\ (game => game')
    /\ once' \in {"Unset", "Running", "Done"} /\ (once = "Done" => once' = "Done")
    /\ once' = "Done" =>
         \/ once = "Done"
         \/ runtime'[Adjacent].result = "Started" /\ runtime'[Adjacent].role = "Client"
    /\ forwarding' \in Tables \cup {NoTable}

OthersKept(t) == \A u \in Threads \ {t} : call'[u] = call[u]

LEMMA SharedStep ==
    ASSUME IInv, RuntimeKept, CoreSound', SharedKept,
           stack' \in [Threads -> Seq(StackFrames)], inPrimary' \in [Threads -> BOOLEAN],
           \A t \in Threads : StackSound(t)'
    PROVE  IInv'
  <1>1. once' = "Done" => runtime'[Adjacent].result = "Started" /\ runtime'[Adjacent].role = "Client"
    <2>1. Adjacent \in Copies BY LoaderAssumption
    <2>2. CASE once = "Done"
      <3>1. runtime[Adjacent].result = "Started" /\ runtime[Adjacent].role = "Client"
        BY <2>2 DEF IInv, LoadersSound
      <3>2. runtime[Adjacent].started BY <2>1, <3>1 DEF IInv, CoreSound, PhaseSound
      <3> QED BY <2>1, <3>1, <3>2 DEF RuntimeKept
    <2>3. CASE once # "Done" BY <2>3 DEF SharedKept
    <2> QED BY <2>2, <2>3
  <1> QED BY <1>1 DEF IInv, LoadersSound, SharedKept

LEMMA ThreadStep ==
    ASSUME IInv, ended = "No", CoreSound', RuntimeKept, SharedKept,
           NEW t \in Threads, NEW r, NEW mark \in BOOLEAN, NEW a,
           stack' = [stack EXCEPT ![t] = r], inPrimary' = [inPrimary EXCEPT ![t] = mark],
           call'[t] = a, OthersKept(t),
           Nested(r), mark <=> InPrimary(r), \A i \in 1 .. Len(r) : FrameSound(r[i], a)'
    PROVE  IInv'
  <1>1. r \in Seq(StackFrames) /\ DOMAIN r = 1 .. Len(r)
    <2>1. r \in Seq(StackFrames) BY Depth
    <2> QED BY <2>1, LenProperties
  <1>2. stack \in [Threads -> Seq(StackFrames)] /\ inPrimary \in [Threads -> BOOLEAN]
    BY DEF IInv, LoadersSound
  <1>3. stack' \in [Threads -> Seq(StackFrames)] /\ inPrimary' \in [Threads -> BOOLEAN]
    BY <1>1, <1>2
  <1>4. stack'[t] = r /\ inPrimary'[t] = mark BY <1>2
  <1>5. StackSound(t)'
    <2>1. \A i \in DOMAIN r : FrameSound(r[i], a)' BY <1>1
    <2>2. ASSUME NEW i \in DOMAIN stack'[t] PROVE FrameSound(stack[t][i], call[t])'
      BY <1>4, <2>1 DEF FrameSound
    <2>3. Nested(stack[t])'
      BY <1>4 DEF Nested, Outer, Called, Inner, Innermost
    <2>4. (inPrimary[t] <=> InPrimary(stack[t]))'
      BY <1>4 DEF InPrimary
    <2> QED BY <2>2, <2>3, <2>4 DEF StackSound
  <1>6. ASSUME NEW u \in Threads, u # t PROVE StackSound(u)'
    <2>1. stack'[u] = stack[u] /\ inPrimary'[u] = inPrimary[u] /\ call'[u] = call[u]
      BY <1>2, <1>6 DEF OthersKept
    <2>2. StackSound(u) BY DEF IInv, LoadersSound
    <2> QED BY <2>1, <2>2, StackKept DEF SharedKept
  <1> QED BY <1>3, <1>5, <1>6, SharedStep

(* The frames of a thread, before a step. *)
LEMMA FramesSound ==
    ASSUME IInv, NEW t \in Threads
    PROVE  /\ Nested(stack[t]) /\ stack[t] \in Seq(StackFrames)
           /\ \A i \in 1 .. Len(stack[t]) : FrameSound(stack[t][i], call[t])
           /\ inPrimary[t] <=> InPrimary(stack[t])
  <1>1. StackSound(t) BY DEF IInv, LoadersSound
  <1>2. Nested(stack[t]) BY <1>1 DEF StackSound
  <1>3. stack[t] \in Seq(StackFrames) BY <1>2, Depth
  <1>4. DOMAIN stack[t] = 1 .. Len(stack[t]) BY <1>3, LenProperties
  <1> QED BY <1>1, <1>2, <1>3, <1>4 DEF StackSound

(* The innermost call moves on. *)
LEMMA RetopStep ==
    ASSUME IInv, ended = "No", CoreSound', RuntimeKept, SharedKept,
           NEW t \in Threads, ~OutsideLoaders(t), Len(stack[t]) \in {1, 3},
           NEW f \in StackFrames, Retop(t, f), FrameSound(f, call[t])',
           NEW mark \in BOOLEAN, inPrimary' = [inPrimary EXCEPT ![t] = mark], OthersKept(t),
           Len(stack[t]) = 1 => Outer(f) /\ (mark <=> f.entry = "Create" /\ f.at = "Chosen"),
           Len(stack[t]) = 3 => Inner(stack[t][2], f) /\ (mark <=> inPrimary[t])
    PROVE  IInv'
  <1> SUFFICES ASSUME NEW r, Retopped(stack[t], f, r), NEW a, a = call'[t]
               PROVE  IInv'
    BY DEF Retopped
  <1> DEFINE s == stack[t]
  <1>1. /\ Nested(s) /\ s # <<>> /\ \A i \in 1 .. Len(s) : FrameSound(s[i], call[t])
        /\ inPrimary[t] <=> InPrimary(s)
    BY FramesSound DEF OutsideLoaders
  <1>2. Retopped(s, f, r) OBVIOUS
  <1>3. stack' = [stack EXCEPT ![t] = r] BY DEF Retop, Retopped, Base
  <1>4. /\ Len(s) \in {1, 3}
        /\ Len(s) = 1 => Outer(f) /\ (mark <=> f.entry = "Create" /\ f.at = "Chosen")
        /\ Len(s) = 3 => Inner(s[2], f) /\ (mark <=> inPrimary[t])
    OBVIOUS
  <1> HIDE DEF s
  <1>5. /\ Nested(r) /\ Len(r) = Len(s) /\ r[Len(s)] = f
        /\ \A i \in 1 .. Len(s) - 1 : r[i] = s[i]
        /\ Len(s) = 3 => (InPrimary(r) <=> InPrimary(s))
        /\ Len(s) = 1 => (InPrimary(r) <=> f.entry = "Create" /\ f.at = "Chosen")
    BY <1>1, <1>2, <1>4, RetopNested
  <1>6. ASSUME NEW i \in 1 .. Len(r) PROVE FrameSound(r[i], a)'
    <2>1. CASE i = Len(s) BY <1>5, <1>6, <2>1 DEF FrameSound
    <2>2. CASE i # Len(s)
      <3>1. i \in 1 .. Len(s) - 1 BY <1>5, <2>2, Depth, <1>1
      <3>2. FrameSound(s[i], call[t]) /\ s[i].at # "Called" /\ r[i] = s[i]
        BY <1>1, <1>5, <3>1, BelowTop
      <3> QED BY <3>2, FrameKept DEF SharedKept
    <2> QED BY <2>1, <2>2
  <1>7. mark <=> InPrimary(r) BY <1>1, <1>5, <1>4
  <1> QED BY <1>3, <1>5, <1>6, <1>7, ThreadStep

(* A call moves on in its wait for startup. *)
LEMMA JoiningStep ==
    ASSUME IInv, ended = "No", CoreSound', RuntimeKept, SharedKept,
           NEW t \in Threads, ~OutsideLoaders(t), Top(t).entry \in LoaderEntries, Top(t).at \in Joining,
           NEW f \in StackFrames, f.entry = Top(t).entry, f.primary = Top(t).primary, f.at \in Joining,
           Retop(t, f), FrameSound(f, call[t])', UNCHANGED inPrimary, OthersKept(t)
    PROVE  IInv'
  <1> SUFFICES ASSUME NEW r, r = Append(Base(t), f), NEW a, a = call'[t]
               PROVE  IInv'
    OBVIOUS
  <1> DEFINE s == stack[t]
  <1>1. /\ Nested(s) /\ s # <<>> /\ \A i \in 1 .. Len(s) : FrameSound(s[i], call[t])
        /\ inPrimary[t] <=> InPrimary(s)
    BY FramesSound DEF OutsideLoaders
  <1>2. Retopped(s, f, r) BY DEF Retopped, Base
  <1>3. stack' = [stack EXCEPT ![t] = r] BY DEF Retop
  <1>4. Top(t) = s[Len(s)] BY DEF Top
  <1>5. inPrimary' = [inPrimary EXCEPT ![t] = inPrimary[t]] /\ inPrimary[t] \in BOOLEAN
    BY DEF IInv, LoadersSound
  <1> HIDE DEF s
  <1>6. /\ Nested(r) /\ Len(r) = Len(s) /\ r[Len(s)] = f
        /\ \A i \in 1 .. Len(s) - 1 : r[i] = s[i]
        /\ InPrimary(r) <=> InPrimary(s)
    BY ZenonT(120), <1>1, <1>2, <1>4, JoiningTop
  <1>7. ASSUME NEW i \in 1 .. Len(r) PROVE FrameSound(r[i], a)'
    <2>1. CASE i = Len(s) BY <1>6, <1>7, <2>1 DEF FrameSound
    <2>2. CASE i # Len(s)
      <3>1. i \in 1 .. Len(s) - 1 BY <1>6, <2>2, Depth, <1>1
      <3>2. FrameSound(s[i], call[t]) /\ s[i].at # "Called" /\ r[i] = s[i]
        BY <1>1, <1>6, <3>1, BelowTop
      <3> QED BY <3>2, FrameKept DEF SharedKept
    <2> QED BY <2>1, <2>2
  <1>8. inPrimary[t] <=> InPrimary(r) BY <1>1, <1>6
  <1> QED BY <1>3, <1>5, <1>6, <1>7, <1>8, ThreadStep

(* A call is entered from the innermost one. *)
LEMMA PushStep ==
    ASSUME IInv, ended = "No", CoreSound', RuntimeKept, SharedKept,
           NEW t \in Threads, Len(stack[t]) <= 3, NEW f \in StackFrames, Push(t, f),
           Len(stack[t]) = 0 => Outer(f) /\ f.at # "Chosen",
           Len(stack[t]) = 1 => Called(stack[t][1], f),
           Len(stack[t]) = 2 => Inner(stack[t][2], f),
           Len(stack[t]) = 3 => Innermost(stack[t][3], f),
           FrameSound(f, call[t])', UNCHANGED inPrimary, OthersKept(t),
           call'[t] = call[t] \/ stack[t] = <<>>
    PROVE  IInv'
  <1> SUFFICES ASSUME NEW r, r = Append(stack[t], f), NEW a, a = call'[t]
               PROVE  IInv'
    OBVIOUS
  <1> DEFINE s == stack[t]
  <1>1. /\ Nested(s) /\ \A i \in 1 .. Len(s) : FrameSound(s[i], call[t])
        /\ inPrimary[t] <=> InPrimary(s)
    BY FramesSound
  <1>2. stack' = [stack EXCEPT ![t] = r] BY DEF Push
  <1>3. inPrimary' = [inPrimary EXCEPT ![t] = inPrimary[t]] /\ inPrimary[t] \in BOOLEAN
    BY DEF IInv, LoadersSound
  <1>4. Len(s) \in 0 .. 4 /\ (s = <<>> => Len(s) = 0) BY <1>1, Depth
  <1>5. Entered(s, f, r) BY DEF Entered
  <1> HIDE DEF s
  <1>6. /\ Nested(r) /\ Len(r) = Len(s) + 1 /\ r[Len(s) + 1] = f
        /\ \A i \in 1 .. Len(s) : r[i] = s[i]
        /\ Len(s) > 0 => (InPrimary(r) <=> InPrimary(s))
        /\ Len(s) = 0 => (InPrimary(r) <=> f.entry = "Create" /\ f.at = "Chosen")
    BY <1>1, <1>5, PushNested DEF s
  <1>7. ASSUME NEW i \in 1 .. Len(r) PROVE FrameSound(r[i], a)'
    <2>1. CASE i = Len(s) + 1 BY <1>6, <1>7, <2>1 DEF FrameSound
    <2>2. CASE i # Len(s) + 1
      <3>1. i \in 1 .. Len(s) BY <1>4, <1>6, <2>2
      <3>2. s # <<>> BY <1>4, <3>1
      <3>3. a = call[t] BY <1>7, <3>2 DEF s
      <3>4. FrameSound(s[i], call[t]) /\ r[i] = s[i] BY <1>1, <1>6, <3>1
      <3> QED BY <3>3, <3>4, FrameKept DEF SharedKept
    <2> QED BY <2>1, <2>2
  <1>8. inPrimary[t] <=> InPrimary(r)
    <2>1. CASE Len(s) = 0
      <3>1. ~InPrimary(s) BY <2>1 DEF InPrimary
      <3>2. f.at # "Chosen" BY <2>1 DEF s
      <3> QED BY <1>1, <1>6, <2>1, <3>1, <3>2
    <2>2. CASE Len(s) > 0 BY <1>1, <1>6, <2>2
    <2> QED BY <1>4, <2>1, <2>2
  <1> QED BY <1>2, <1>3, <1>6, <1>7, <1>8, ThreadStep

(* The innermost calls return. *)
LEMMA PopStep ==
    ASSUME IInv, ended = "No", CoreSound', RuntimeKept, SharedKept,
           NEW t \in Threads, NEW k \in 0 .. Len(stack[t]),
           stack' = [stack EXCEPT ![t] = SubSeq(stack[t], 1, k)],
           NEW mark \in BOOLEAN, inPrimary' = [inPrimary EXCEPT ![t] = mark],
           mark <=> k > 0 /\ inPrimary[t],
           OthersKept(t), k = 0 \/ call'[t] = call[t]
    PROVE  IInv'
  <1> SUFFICES ASSUME NEW r, r = SubSeq(stack[t], 1, k), NEW a, a = call'[t]
               PROVE  IInv'
    OBVIOUS
  <1> DEFINE s == stack[t]
  <1>1. /\ Nested(s) /\ \A i \in 1 .. Len(s) : FrameSound(s[i], call[t])
        /\ inPrimary[t] <=> InPrimary(s)
    BY FramesSound
  <1>2. stack' = [stack EXCEPT ![t] = r] OBVIOUS
  <1>3. Len(s) \in 0 .. 4 BY <1>1, Depth
  <1>4. Left(s, k, r) BY DEF Left
  <1> HIDE DEF s
  <1>5. /\ Nested(r) /\ Len(r) = k /\ \A i \in 1 .. k : r[i] = s[i]
        /\ InPrimary(r) <=> k > 0 /\ InPrimary(s)
    BY <1>1, <1>4, PopNested DEF s
  <1>6. ASSUME NEW i \in 1 .. Len(r) PROVE FrameSound(r[i], a)'
    <2>1. i \in 1 .. Len(s) /\ i \in 1 .. k /\ k # 0 BY <1>3, <1>5 DEF s
    <2>2. FrameSound(s[i], call[t]) /\ r[i] = s[i] BY <1>1, <1>5, <2>1
    <2>3. a = call[t] BY <1>6, <2>1
    <2> QED BY <2>2, <2>3, FrameKept DEF SharedKept
  <1>7. mark <=> InPrimary(r) BY <1>1, <1>5
  <1> QED BY <1>2, <1>5, <1>6, <1>7, ThreadStep

-----------------------------------------------------------------------------
(* Startup. *)

LEMMA NothingKept ==
    ASSUME IInv, game => game', UNCHANGED coreVars
    PROVE  CoreSound' /\ RuntimeKept /\ \A t \in Threads : OthersKept(t) /\ call'[t] = call[t]
  <1>1. UNCHANGED <<ended, guard, runtime, progress, native, call, dlls, observations, galaxy, limits>>
    BY DEF coreVars
  <1>2. CoreTypeOK' BY <1>1 DEF IInv, CoreSound, CoreTypeOK
  <1>3. RuntimeKept BY <1>1 DEF RuntimeKept
  <1>4. \A c \in Copies : (PhaseSound(c) /\ ObserverSound(c))' BY <1>1, CopyKept DEF IInv, CoreSound
  <1>5. \A t \in Threads : CallSound(t)' BY <1>1, <1>3, CallKept DEF IInv, CoreSound
  <1>6. \A t \in Threads : OthersKept(t) /\ call'[t] = call[t] BY <1>1 DEF OthersKept
  <1> QED BY <1>2, <1>3, <1>4, <1>5, <1>6 DEF CoreSound

(* The process ends inside a call. *)
LEMMA EndStep ==
    ASSUME IInv, ended = "No", ended' # "No", CoreSound', RuntimeKept, SharedKept,
           UNCHANGED <<stack, inPrimary>>
    PROVE  IInv'
  <1>1. \A t \in Threads : StackSound(t)'
    BY StackKept DEF IInv, LoadersSound, SharedKept
  <1>2. stack' \in [Threads -> Seq(StackFrames)] /\ inPrimary' \in [Threads -> BOOLEAN]
    BY DEF IInv, LoadersSound
  <1> QED BY <1>1, <1>2, SharedStep

(* The innermost call, before a step. *)
LEMMA TopSound ==
    ASSUME IInv, NEW t \in Threads, ~OutsideLoaders(t)
    PROVE  Top(t) \in StackFrames /\ FrameSound(Top(t), call[t])
  <1> DEFINE n == Len(stack[t])
  <1>1. n \in 1 .. 4 /\ stack[t] \in Seq(StackFrames) BY FramesSound, Depth DEF OutsideLoaders
  <1>2. /\ \A i \in 1 .. n : FrameSound(stack[t][i], call[t])
        /\ \A i \in 1 .. n : stack[t][i] \in StackFrames
    BY <1>1, FramesSound, LenProperties
  <1> HIDE DEF n
  <1>3. n \in 1 .. n BY <1>1
  <1>4. Top(t) = stack[t][n] BY DEF Top, n
  <1> QED BY <1>2, <1>3, <1>4

LEMMA LoadRuntimeStep ==
    ASSUME IInv, ended = "No", NEW t \in Threads, LoadRuntime(t)
    PROVE  IInv'
  <1> SUFFICES ASSUME NEW f, f = [Top(t) EXCEPT !.at = "Loaded"]
               PROVE  IInv'
    OBVIOUS
  <1>1. ~OutsideLoaders(t) /\ Top(t).entry \in LoaderEntries /\ Top(t).at = "Starting" BY DEF LoadRuntime, At
  <1>2. Top(t) \in StackFrames /\ FrameSound(Top(t), call[t]) BY <1>1, TopSound
  <1>3. /\ f \in StackFrames /\ f.entry = Top(t).entry /\ f.primary = Top(t).primary
        /\ f.at = "Loaded" /\ f.late = Top(t).late
    BY <1>2 DEF StackFrames, Stages
  <1>4. /\ once = "Unset" /\ once' = "Running"
        /\ UNCHANGED <<guard, runtime, progress, native, call, dlls, observations, galaxy, limits,
                       loaders, candidate, game, forwarding, rejected, inPrimary>>
        /\ \/ Retop(t, f) /\ UNCHANGED ended
           \/ ended' = "Startup" /\ UNCHANGED stack
    BY DEF LoadRuntime, FailStartup, loaderVarsBut
  <1>5. SharedKept BY <1>4 DEF SharedKept, IInv, LoadersSound
  <1>6. CoreSound' /\ RuntimeKept /\ OthersKept(t)
    <2>1. CoreTypeOK' BY <1>4 DEF IInv, CoreSound, CoreTypeOK
    <2> QED BY <1>4, <2>1 DEF IInv, CoreSound, PhaseSound, ObserverSound, CallSound, RuntimeKept, OthersKept, Initializing
  <1>7. CASE ended' = "Startup" /\ UNCHANGED stack BY <1>4, <1>5, <1>6, <1>7, EndStep
  <1>8. CASE Retop(t, f) /\ UNCHANGED ended
    <2>1. FrameSound(f, call[t])' BY <1>1, <1>2, <1>3, <1>4 DEF FrameSound
    <2>2. Top(t).at \in Joining /\ f.at \in Joining BY <1>1, <1>3 DEF Joining
    <2> QED BY <1>1, <1>3, <1>4, <1>5, <1>6, <1>8, <2>1, <2>2, JoiningStep
  <1> QED BY <1>4, <1>7, <1>8

LEMMA StartAdjacentStep ==
    ASSUME IInv, ended = "No", NEW t \in Threads, StartAdjacent(t)
    PROVE  IInv'
  <1> SUFFICES ASSUME NEW f, f = [Top(t) EXCEPT !.at = "Called"]
               PROVE  IInv'
    OBVIOUS
  <1>1. ~OutsideLoaders(t) /\ Top(t).entry \in LoaderEntries /\ Top(t).at = "Loaded" BY DEF StartAdjacent, At
  <1>2. Top(t) \in StackFrames /\ FrameSound(Top(t), call[t]) BY <1>1, TopSound
  <1>3. /\ f \in StackFrames /\ f.entry = Top(t).entry /\ f.primary = Top(t).primary
        /\ f.at = "Called" /\ f.late = Top(t).late
    BY <1>2 DEF StackFrames, Stages
  <1>4. /\ StartRuntime(t, Adjacent, "Client") \/ RefuseStart(t, Adjacent, "Client")
        /\ Retop(t, f) /\ UNCHANGED <<loaders, candidate, game, once, forwarding, rejected, inPrimary>>
    BY DEF StartAdjacent, loaderVarsBut
  <1>5. game BY <1>1, <1>2 DEF FrameSound
  <1>6. /\ CoreSound' /\ RuntimeKept /\ UNCHANGED ended
        /\ call'[t].at # "None" /\ call'[t].copy = Adjacent /\ call'[t].role = "Client"
        /\ OthersKept(t)
    <2>1. Adjacent \in Copies /\ "Client" \in Roles BY LoaderAssumption DEF Roles
    <2> QED BY <1>4, <1>5, <2>1, StartStep DEF IInv, OthersKept
  <1>7. SharedKept BY <1>4 DEF SharedKept, IInv, LoadersSound
  <1>8. FrameSound(f, call[t])' BY <1>1, <1>2, <1>3, <1>4, <1>6 DEF FrameSound
  <1>9. Top(t).at \in Joining /\ f.at \in Joining BY <1>1, <1>3 DEF Joining
  <1> QED BY <1>1, <1>3, <1>4, <1>6, <1>7, <1>8, <1>9, JoiningStep

LEMMA FinishedCall ==
    ASSUME IInv, NEW t \in Threads, call' = [call EXCEPT ![t] = NoCall],
           UNCHANGED <<guard, runtime, progress, native, dlls, observations, galaxy, limits, game>>,
           ended' \in {"No", "Fatal", "Startup"}
    PROVE  CoreSound' /\ RuntimeKept /\ OthersKept(t) /\ call'[t] = NoCall
  <1>1. /\ NoCall \in [at : {"None", "Waiting", "Accepted", "Refused"}, copy : Copies \cup {NoCopy}, role : Roles]
        /\ NoCall.at = "None"
    BY DEF NoCall, Roles
  <1>2. OthersKept(t) /\ call'[t] = NoCall
    BY DEF OthersKept, IInv, CoreSound, CoreTypeOK
  <1> QED BY <1>1, <1>2, CallStep DEF IInv

LEMMA FinishLoadStep ==
    ASSUME IInv, ended = "No", NEW t \in Threads, FinishLoad(t)
    PROVE  IInv'
  <1> SUFFICES ASSUME NEW f, f = [Top(t) EXCEPT !.at = "Started", !.late = rejected]
               PROVE  IInv'
    OBVIOUS
  <1>1. ~OutsideLoaders(t) /\ Top(t).entry \in LoaderEntries /\ Top(t).at = "Called" BY DEF FinishLoad, At
  <1>2. Top(t) \in StackFrames /\ FrameSound(Top(t), call[t]) BY <1>1, TopSound
  <1>3. /\ f \in StackFrames /\ f.entry = Top(t).entry /\ f.primary = Top(t).primary
        /\ f.at = "Started" /\ f.late = rejected
    BY <1>2 DEF StackFrames, Stages, IInv, LoadersSound
  <1>4. /\ call' = [call EXCEPT ![t] = NoCall]
        /\ UNCHANGED <<guard, runtime, progress, native, dlls, observations, galaxy, limits,
                       loaders, candidate, game, forwarding, rejected, inPrimary>>
        /\ \/ call[t].at = "Accepted" /\ once' = "Done" /\ Retop(t, f) /\ UNCHANGED ended
           \/ ended' = "Startup" /\ UNCHANGED <<once, stack>>
    BY DEF FinishLoad, FailStartup, loaderVarsBut
  <1>5. ended' \in {"No", "Fatal", "Startup"} BY <1>4
  <1>6. CoreSound' /\ RuntimeKept /\ OthersKept(t) /\ call'[t] = NoCall BY <1>4, <1>5, FinishedCall
  <1>7. CASE ended' = "Startup" /\ UNCHANGED <<once, stack>>
    <2>1. SharedKept BY <1>4, <1>7 DEF SharedKept, IInv, LoadersSound
    <2> QED BY <1>4, <1>6, <1>7, <2>1, EndStep
  <1>8. CASE call[t].at = "Accepted" /\ once' = "Done" /\ Retop(t, f) /\ UNCHANGED ended
    <2>1. call[t].copy = Adjacent /\ call[t].role = "Client"
      BY <1>1, <1>2 DEF FrameSound
    <2>2. runtime[Adjacent].result = "Started" /\ runtime[Adjacent].role = "Client"
      BY <1>8, <2>1 DEF IInv, CoreSound, CallSound
    <2>3. SharedKept BY <1>4, <1>8, <2>2 DEF SharedKept, IInv, LoadersSound
    <2>4. FrameSound(f, call[t])' BY <1>1, <1>2, <1>3, <1>4, <1>8 DEF FrameSound
    <2>5. Top(t).at \in Joining /\ f.at \in Joining BY <1>1, <1>3 DEF Joining
    <2> QED BY <1>1, <1>3, <1>4, <1>6, <1>8, <2>3, <2>4, <2>5, JoiningStep
  <1> QED BY <1>4, <1>7, <1>8

LEMMA JoinStartedStep ==
    ASSUME IInv, ended = "No", NEW t \in Threads, JoinStarted(t)
    PROVE  IInv'
  <1> SUFFICES ASSUME NEW f, f = [Top(t) EXCEPT !.at = "Started", !.late = rejected]
               PROVE  IInv'
    OBVIOUS
  <1>1. ~OutsideLoaders(t) /\ Top(t).entry \in LoaderEntries /\ Top(t).at = "Starting" BY DEF JoinStarted, At
  <1>2. Top(t) \in StackFrames /\ FrameSound(Top(t), call[t]) BY <1>1, TopSound
  <1>3. /\ f \in StackFrames /\ f.entry = Top(t).entry /\ f.primary = Top(t).primary
        /\ f.at = "Started" /\ f.late = rejected
    BY <1>2 DEF StackFrames, Stages, IInv, LoadersSound
  <1>4. /\ once = "Done" /\ Retop(t, f)
        /\ UNCHANGED <<coreVars, loaders, candidate, game, once, forwarding, rejected, inPrimary>>
    BY DEF JoinStarted, loaderVarsBut
  <1>5. SharedKept BY <1>4 DEF SharedKept, IInv, LoadersSound
  <1>6. CoreSound' /\ RuntimeKept /\ OthersKept(t) BY <1>4, NothingKept
  <1>7. FrameSound(f, call[t])' BY <1>1, <1>2, <1>3, <1>4 DEF FrameSound
  <1>8. Top(t).at \in Joining /\ f.at \in Joining BY <1>1, <1>3 DEF Joining
  <1> QED BY <1>1, <1>3, <1>4, <1>5, <1>6, <1>7, <1>8, JoiningStep

-----------------------------------------------------------------------------
(* DirectInput calls. *)

LEMMA ReturnFailureStep ==
    ASSUME IInv, ended = "No", NEW t \in Threads, ReturnFailure(t)
    PROVE  IInv'
  <1>1. /\ ~OutsideLoaders(t) /\ Top(t).entry = "Create" /\ Top(t).at = "Started"
        /\ stack' = [stack EXCEPT ![t] = Base(t)]
        /\ UNCHANGED <<coreVars, loaders, candidate, game, once, forwarding, rejected, inPrimary>>
    BY DEF ReturnFailure, At, loaderVarsBut
  <1>2. SharedKept BY <1>1 DEF SharedKept, IInv, LoadersSound
  <1>3. CoreSound' /\ RuntimeKept /\ OthersKept(t) /\ call'[t] = call[t] BY <1>1, NothingKept
  <1> DEFINE n == Len(stack[t])
  <1>4. /\ Nested(stack[t]) /\ stack[t] # <<>> /\ (inPrimary[t] <=> InPrimary(stack[t]))
        /\ n \in 1 .. 4 /\ Top(t) = stack[t][n]
    BY <1>1, FramesSound, Depth DEF OutsideLoaders, Top
  <1>5. n \in {1, 3}
    BY <1>1, <1>4, Shapes DEF LoaderEntries
  <1>6. n = 1 => ~inPrimary[t] BY <1>1, <1>4 DEF InPrimary
  <1>7. stack' = [stack EXCEPT ![t] = SubSeq(stack[t], 1, n - 1)] BY <1>1 DEF Base
  <1>8. inPrimary' = [inPrimary EXCEPT ![t] = inPrimary[t]] /\ inPrimary[t] \in BOOLEAN
    BY <1>1 DEF IInv, LoadersSound
  <1> SUFFICES ASSUME NEW k, k = n - 1 PROVE IInv'
    OBVIOUS
  <1>9. k \in 0 .. n /\ (inPrimary[t] <=> k > 0 /\ inPrimary[t])
    <2> HIDE DEF n
    <2> QED BY <1>4, <1>5, <1>6
  <1> QED BY <1>2, <1>3, <1>7, <1>8, <1>9, PopStep

LEMMA RejectChainStep ==
    ASSUME IInv, ended = "No", NEW t \in Threads, RejectChain(t)
    PROVE  IInv'
  <1> SUFFICES ASSUME NEW f, f = [Top(t) EXCEPT !.at = "Chosen", !.target = "System"]
               PROVE  IInv'
    OBVIOUS
  <1>1. /\ ~OutsideLoaders(t) /\ Top(t).entry = "Create" /\ Top(t).at = "Started" /\ inPrimary[t]
        /\ rejected' = TRUE /\ Retop(t, f)
        /\ UNCHANGED <<coreVars, loaders, candidate, game, once, forwarding, inPrimary>>
    BY DEF RejectChain, At, loaderVarsBut
  <1>2. Top(t) \in StackFrames /\ FrameSound(Top(t), call[t]) BY <1>1, TopSound
  <1>3. /\ f \in StackFrames /\ f.entry = "Create" /\ f.primary = Top(t).primary
        /\ f.at = "Chosen" /\ f.late = Top(t).late /\ f.target = "System"
    BY <1>1, <1>2 DEF StackFrames, Stages, Forwards
  <1>4. SharedKept BY <1>1 DEF SharedKept, IInv, LoadersSound
  <1>5. CoreSound' /\ RuntimeKept /\ OthersKept(t) /\ call'[t] = call[t] BY <1>1, NothingKept
  <1> DEFINE s == stack[t]
  <1>6. /\ Nested(s) /\ s # <<>> /\ (inPrimary[t] <=> InPrimary(s)) /\ Top(t) = s[Len(s)]
    BY <1>1, FramesSound DEF OutsideLoaders, Top
  <1> HIDE DEF s
  <1>7. Len(s) = 3
    BY <1>1, <1>6, Shapes DEF LoaderEntries, InPrimary
  <1>8. Inner(s[2], f)
    <2>1. Inner(s[2], s[3]) BY <1>6, <1>7 DEF Nested
    <2> QED BY <1>3, <1>6, <1>7, <2>1 DEF Inner
  <1>9. FrameSound(f, call[t])' BY <1>1, <1>2, <1>3 DEF FrameSound, LoaderEntries
  <1>10. inPrimary' = [inPrimary EXCEPT ![t] = inPrimary[t]] /\ inPrimary[t] \in BOOLEAN
    BY <1>1 DEF IInv, LoadersSound
  <1>11. /\ Len(stack[t]) \in {1, 3}
         /\ Len(stack[t]) = 1 => Outer(f) /\ (inPrimary[t] <=> f.entry = "Create" /\ f.at = "Chosen")
         /\ Len(stack[t]) = 3 => Inner(stack[t][2], f) /\ (inPrimary[t] <=> inPrimary[t])
    BY <1>7, <1>8 DEF s
  <1> QED BY <1>1, <1>3, <1>4, <1>5, <1>9, <1>10, <1>11, RetopStep

LEMMA EnterPrimaryStep ==
    ASSUME IInv, ended = "No", NEW t \in Threads, EnterPrimary(t)
    PROVE  IInv'
  <1> SUFFICES ASSUME NEW f, f = [Top(t) EXCEPT !.at = "Chosen", !.primary = TRUE,
                                                !.target = IF rejected THEN "System" ELSE @]
               PROVE  IInv'
    OBVIOUS
  <1>1. /\ ~OutsideLoaders(t) /\ Top(t).entry = "Create" /\ Top(t).at = "Started"
        /\ Top(t).target # "Failed" /\ ~inPrimary[t]
        /\ inPrimary' = [inPrimary EXCEPT ![t] = TRUE] /\ Retop(t, f)
        /\ UNCHANGED <<coreVars, loaders, candidate, game, once, forwarding, rejected>>
    BY DEF EnterPrimary, At, loaderVarsBut
  <1>2. Top(t) \in StackFrames /\ FrameSound(Top(t), call[t]) BY <1>1, TopSound
  <1>3. /\ f \in StackFrames /\ f.entry = "Create" /\ f.primary /\ f.at = "Chosen"
        /\ f.late = Top(t).late /\ f.target # "Failed" /\ (rejected => f.target = "System")
    BY <1>1, <1>2 DEF StackFrames, Stages, Forwards
  <1>4. SharedKept BY <1>1 DEF SharedKept, IInv, LoadersSound
  <1>5. CoreSound' /\ RuntimeKept /\ OthersKept(t) /\ call'[t] = call[t] BY <1>1, NothingKept
  <1> DEFINE s == stack[t]
  <1>6. /\ Nested(s) /\ s # <<>> /\ (inPrimary[t] <=> InPrimary(s)) /\ Top(t) = s[Len(s)]
    BY <1>1, FramesSound DEF OutsideLoaders, Top
  <1> HIDE DEF s
  <1>7. Len(s) = 1
    BY <1>1, <1>6, Shapes DEF LoaderEntries
  <1>8. Outer(f) BY <1>3 DEF Outer
  <1>9. FrameSound(f, call[t])' BY <1>1, <1>2, <1>3 DEF FrameSound, LoaderEntries
  <1>10. /\ Len(stack[t]) \in {1, 3}
         /\ Len(stack[t]) = 1 => Outer(f) /\ (TRUE <=> f.entry = "Create" /\ f.at = "Chosen")
         /\ Len(stack[t]) = 3 => Inner(stack[t][2], f) /\ (TRUE <=> inPrimary[t])
    BY <1>3, <1>7, <1>8 DEF s
  <1> QED BY <1>1, <1>3, <1>4, <1>5, <1>8, <1>9, <1>10, RetopStep

LEMMA ForwardStep ==
    ASSUME IInv, ended = "No", NEW t \in Threads, Forward(t)
    PROVE  IInv'
  <1> SUFFICES ASSUME NEW g, g = Frame(Top(t).target, "Running") PROVE IInv'
    OBVIOUS
  <1>1. /\ ~OutsideLoaders(t) /\ Top(t).entry = "Create" /\ Top(t).at = "Chosen" /\ Push(t, g)
        /\ UNCHANGED <<coreVars, loaders, candidate, game, once, forwarding, rejected, inPrimary>>
    BY DEF Forward, At, loaderVarsBut
  <1>2. Top(t) \in StackFrames /\ FrameSound(Top(t), call[t]) BY <1>1, TopSound
  <1>3. /\ g.entry = Top(t).target /\ g.at = "Running" /\ ~g.late /\ ~g.primary
        /\ g.entry \in {"System", "Proxy"} => g \in StackFrames
    BY DEF Frame, StackFrames, Stages, Forwards, Entries, ExternalEntries
  <1>4. SharedKept BY <1>1 DEF SharedKept, IInv, LoadersSound
  <1>5. CoreSound' /\ RuntimeKept /\ OthersKept(t) /\ call'[t] = call[t] BY <1>1, NothingKept
  <1> DEFINE s == stack[t]
  <1>6. /\ Nested(s) /\ s # <<>> /\ Top(t) = s[Len(s)]
    BY <1>1, FramesSound DEF OutsideLoaders, Top
  <1> HIDE DEF s
  <1>7. Len(s) \in {1, 3} BY <1>1, <1>6, Shapes DEF LoaderEntries
  <1>8. Len(s) = 1 => Called(s[1], g) /\ g.entry \in {"System", "Proxy"}
    <2>1. Len(s) = 1 => Outer(s[1]) /\ Top(t) = s[1] BY <1>6 DEF Nested
    <2> QED BY <1>1, <1>2, <1>3, <2>1 DEF Outer, Called, StackFrames, Forwards, Joining
  <1>9. Len(s) = 3 => Innermost(s[3], g) /\ g.entry \in {"System", "Proxy"}
    <2>1. Len(s) = 3 => Inner(s[2], s[3]) /\ Top(t) = s[3] BY <1>6 DEF Nested
    <2> QED BY <1>1, <1>3, <2>1 DEF Inner, Innermost, Joining
  <1>10. g \in StackFrames /\ g.entry \in {"System", "Proxy"} BY <1>3, <1>7, <1>8, <1>9
  <1>11. FrameSound(g, call[t])' BY <1>3, <1>10 DEF FrameSound, LoaderEntries
  <1>12. /\ Len(stack[t]) <= 3
         /\ Len(stack[t]) = 0 => Outer(g) /\ g.at # "Chosen"
         /\ Len(stack[t]) = 1 => Called(stack[t][1], g)
         /\ Len(stack[t]) = 2 => Inner(stack[t][2], g)
         /\ Len(stack[t]) = 3 => Innermost(stack[t][3], g)
    <2> DEFINE n == Len(s)
    <2>1. n \in {1, 3} /\ (n = 1 => Called(s[1], g)) /\ (n = 3 => Innermost(s[3], g)) BY <1>7, <1>8, <1>9
    <2> HIDE DEF n
    <2>2. /\ n <= 3 /\ n # 0 /\ n # 2
          /\ n = 1 => Called(s[1], g)
          /\ n = 3 => Innermost(s[3], g)
      BY <2>1
    <2> QED BY <2>2 DEF n, s
  <1> QED BY <1>1, <1>4, <1>5, <1>10, <1>11, <1>12, PushStep

LEMMA ForwardReturnsStep ==
    ASSUME IInv, ended = "No", NEW t \in Threads, ForwardReturns(t)
    PROVE  IInv'
  <1> DEFINE n == Len(stack[t])
  <1>1. /\ ~OutsideLoaders(t) /\ Top(t).entry \in {"System", "Proxy"} /\ Top(t).at = "Running"
        /\ inPrimary' = [inPrimary EXCEPT ![t] = @ /\ ~stack[t][n - 1].primary]
        /\ stack' = [stack EXCEPT ![t] = SubSeq(@, 1, n - 2)]
        /\ UNCHANGED <<coreVars, loaders, candidate, game, once, forwarding, rejected>>
    BY DEF ForwardReturns, At, loaderVarsBut
  <1>2. SharedKept BY <1>1 DEF SharedKept, IInv, LoadersSound
  <1>3. CoreSound' /\ RuntimeKept /\ OthersKept(t) /\ call'[t] = call[t] BY <1>1, NothingKept
  <1>4. /\ Nested(stack[t]) /\ stack[t] # <<>> /\ (inPrimary[t] <=> InPrimary(stack[t]))
        /\ n \in 1 .. 4 /\ Top(t) = stack[t][n]
    BY <1>1, FramesSound, Depth DEF OutsideLoaders, Top
  <1>5. /\ n \in {2, 4}
        /\ n = 2 => stack[t][1].primary
        /\ n = 4 => ~stack[t][3].primary
    BY <1>1, <1>4, Shapes
  <1> SUFFICES ASSUME NEW k, k = n - 2,
                      NEW mark, mark = (inPrimary[t] /\ ~stack[t][n - 1].primary)
               PROVE  IInv'
    OBVIOUS
  <1>6. /\ stack' = [stack EXCEPT ![t] = SubSeq(stack[t], 1, k)]
        /\ inPrimary' = [inPrimary EXCEPT ![t] = mark] /\ mark \in BOOLEAN
    BY <1>1
  <1>7. k \in 0 .. n /\ (mark <=> k > 0 /\ inPrimary[t])
    <2> HIDE DEF n
    <2>1. CASE n = 2
      <3>1. n - 1 = 1 /\ k = 0 /\ k \in 0 .. n /\ ~(k > 0) BY <2>1
      <3>2. ~mark BY <1>5, <2>1, <3>1
      <3> QED BY <3>1, <3>2
    <2>2. CASE n = 4
      <3>1. n - 1 = 3 /\ k \in 0 .. n /\ k > 0 BY <2>2
      <3>2. mark <=> inPrimary[t] BY <1>5, <2>2, <3>1
      <3> QED BY <3>1, <3>2
    <2> QED BY <1>5, <2>1, <2>2
  <1> QED BY <1>2, <1>3, <1>6, <1>7, PopStep

(* A forwarding table leads to the system, to the accepted proxy, or nowhere. *)
LEMMA TableStep ==
    ASSUME NEW table \in {forwarding, ChainTable(candidate), [create |-> "Failed", other |-> "Failed"]},
           Initialized(table) \/ table # forwarding, forwarding \in Tables \cup {NoTable}
    PROVE  table \in Tables /\ Active(table, "create") \in Forwards
  <1>1. ChainTable(candidate) \in Tables
    BY DEF ChainTable, Accepts, Tables, Forwards, SystemTable
  <1>2. [create |-> "Failed", other |-> "Failed"] \in Tables BY DEF Tables, Forwards
  <1>3. table \in Tables
    <2>1. CASE table \in {ChainTable(candidate), [create |-> "Failed", other |-> "Failed"]}
      BY <1>1, <1>2, <2>1
    <2>2. CASE table = forwarding /\ Initialized(table)
      BY <1>1, <1>2, <2>2 DEF Initialized
    <2> QED BY <2>1, <2>2
  <1>4. table["create"] \in Forwards BY <1>3 DEF Tables
  <1> QED BY <1>3, <1>4 DEF Active, Forwards

LEMMA CallCreateStep ==
    ASSUME IInv, ended = "No", NEW t \in Threads, CallCreate(t)
    PROVE  IInv'
  <1>1. PICK table \in {forwarding, ChainTable(candidate), [create |-> "Failed", other |-> "Failed"]} :
          /\ Initialized(table) /\ forwarding' = table
          /\ Push(t, [Frame("Create", "Starting") EXCEPT !.target = Active(table, "create")])
    BY DEF CallCreate
  <1>2. table \in Tables /\ Active(table, "create") \in Forwards
    BY <1>1, TableStep DEF IInv, LoadersSound
  <1> SUFFICES ASSUME NEW f, f = [Frame("Create", "Starting") EXCEPT !.target = Active(table, "create")]
               PROVE  IInv'
    OBVIOUS
  <1>3. /\ "DInput8" \in loaders /\ (~OutsideLoaders(t) => Top(t).entry \in {"Proxy", "Loader"}) /\ Push(t, f)
        /\ UNCHANGED <<coreVars, loaders, candidate, game, once, rejected, inPrimary>>
    BY <1>1 DEF CallCreate, loaderVarsBut
  <1>4. /\ f \in StackFrames /\ f.entry = "Create" /\ f.at = "Starting" /\ ~f.late /\ ~f.primary
    BY <1>2 DEF Frame, StackFrames, Stages, Entries, LoaderEntries
  <1>5. game BY <1>3 DEF IInv, LoadersSound
  <1>6. SharedKept BY <1>1, <1>2, <1>3 DEF SharedKept, IInv, LoadersSound
  <1>7. CoreSound' /\ RuntimeKept /\ OthersKept(t) /\ call'[t] = call[t] BY <1>3, NothingKept
  <1>8. FrameSound(f, call[t])' BY <1>3, <1>4, <1>5 DEF FrameSound
  <1>9. Outer(f) /\ f.at # "Chosen" BY <1>4 DEF Outer, Joining
  <1>10. /\ Len(stack[t]) <= 3
         /\ Len(stack[t]) = 0 => Outer(f) /\ f.at # "Chosen"
         /\ Len(stack[t]) = 1 => Called(stack[t][1], f)
         /\ Len(stack[t]) = 2 => Inner(stack[t][2], f)
         /\ Len(stack[t]) = 3 => Innermost(stack[t][3], f)
    <2> DEFINE n == Len(stack[t])
    <2>1. n = 0 \/ (n = 2 /\ stack[t][2].entry = "Proxy")
      <3>1. CASE OutsideLoaders(t) BY <3>1 DEF OutsideLoaders
      <3>2. CASE ~OutsideLoaders(t)
        <4>1. /\ Nested(stack[t]) /\ stack[t] # <<>> /\ Top(t) = stack[t][n]
          BY <3>2, FramesSound DEF OutsideLoaders, Top
        <4> QED BY <1>3, <3>2, <4>1, Shapes
      <3> QED BY <3>1, <3>2
    <2>2. stack[t][2].entry = "Proxy" => Inner(stack[t][2], f) BY <1>4 DEF Inner, Joining
    <2> HIDE DEF n
    <2>3. n <= 3 /\ n # 1 /\ n # 3 /\ (n = 2 => Inner(stack[t][2], f)) BY <2>1, <2>2
    <2> QED BY <1>9, <2>3 DEF n
  <1> QED BY <1>3, <1>4, <1>6, <1>7, <1>8, <1>10, PushStep

LEMMA CallSecondaryStep ==
    ASSUME IInv, ended = "No", NEW t \in Threads, CallSecondary(t)
    PROVE  IInv'
  <1>1. /\ forwarding = NoTable /\ UNCHANGED <<coreVars, loaders, candidate, game, once, rejected, inPrimary, stack>>
    BY DEF CallSecondary, loaderVarsBut
  <1>2. PICK table \in {ChainTable(candidate), [create |-> "Failed", other |-> "Failed"]} : forwarding' = table
    BY DEF CallSecondary
  <1>3. table \in Tables
    BY DEF ChainTable, Accepts, Tables, Forwards, SystemTable
  <1>4. SharedKept BY <1>1, <1>2, <1>3 DEF SharedKept, IInv, LoadersSound
  <1>5. CoreSound' /\ RuntimeKept /\ \A u \in Threads : call'[u] = call[u] BY <1>1, NothingKept
  <1>6. \A u \in Threads : StackSound(u)'
    BY <1>1, <1>4, <1>5, StackKept DEF IInv, LoadersSound, SharedKept
  <1>7. stack' \in [Threads -> Seq(StackFrames)] /\ inPrimary' \in [Threads -> BOOLEAN]
    BY <1>1 DEF IInv, LoadersSound
  <1> QED BY <1>4, <1>5, <1>6, <1>7, SharedStep

-----------------------------------------------------------------------------
(* The classic game, hosts and RconServer. *)

LEMMA CallGameStep ==
    ASSUME IInv, ended = "No", NEW t \in Threads, CallGame(t)
    PROVE  IInv'
  <1> SUFFICES ASSUME NEW f, f = Frame("GameWinMain", "Starting") PROVE IInv'
    OBVIOUS
  <1>1. /\ stack[t] = <<>>
        /\ \/ game' = TRUE /\ Push(t, f) /\ UNCHANGED ended
           \/ ended' = "Startup" /\ UNCHANGED <<game, stack>>
        /\ UNCHANGED <<guard, runtime, progress, native, call, dlls, observations, galaxy, limits,
                       loaders, candidate, once, forwarding, rejected, inPrimary>>
    BY DEF CallGame, OutsideLoaders, FailStartup, loaderVarsBut
  <1>2. SharedKept BY <1>1 DEF SharedKept, IInv, LoadersSound
  <1>3. CoreSound' /\ RuntimeKept /\ OthersKept(t) /\ call'[t] = call[t]
    <2>1. ended' \in {"No", "Fatal", "Startup"} BY <1>1
    <2>2. CoreTypeOK' BY <1>1, <2>1 DEF IInv, CoreSound, CoreTypeOK
    <2>3. RuntimeKept BY <1>1 DEF RuntimeKept
    <2>4. \A c \in Copies : (PhaseSound(c) /\ ObserverSound(c))' BY <1>1, CopyKept DEF IInv, CoreSound
    <2>5. \A u \in Threads : CallSound(u)' BY <1>1, <2>3, CallKept DEF IInv, CoreSound
    <2> QED BY <1>1, <2>2, <2>3, <2>4, <2>5 DEF CoreSound, OthersKept
  <1>4. CASE ended' = "Startup" /\ UNCHANGED <<game, stack>> BY <1>1, <1>2, <1>3, <1>4, EndStep
  <1>5. CASE game' = TRUE /\ Push(t, f) /\ UNCHANGED ended
    <2>1. /\ f \in StackFrames /\ f.entry = "GameWinMain" /\ f.at = "Starting" /\ ~f.late /\ ~f.primary
      BY DEF Frame, StackFrames, Stages, Entries, LoaderEntries, Forwards
    <2>2. FrameSound(f, call[t])' BY <1>5, <2>1 DEF FrameSound
    <2>3. Outer(f) /\ f.at # "Chosen" BY <2>1 DEF Outer, Joining
    <2>4. Len(stack[t]) = 0 BY <1>1
    <2>5. /\ Len(stack[t]) <= 3
          /\ Len(stack[t]) = 0 => Outer(f) /\ f.at # "Chosen"
          /\ Len(stack[t]) = 1 => Called(stack[t][1], f)
          /\ Len(stack[t]) = 2 => Inner(stack[t][2], f)
          /\ Len(stack[t]) = 3 => Innermost(stack[t][3], f)
      BY <2>3, <2>4
    <2> QED BY <1>1, <1>2, <1>3, <1>5, <2>1, <2>2, <2>5, PushStep
  <1> QED BY <1>1, <1>4, <1>5

LEMMA EnterGameStep ==
    ASSUME IInv, ended = "No", NEW t \in Threads, EnterGame(t)
    PROVE  IInv'
  <1> SUFFICES ASSUME NEW g, g = Frame("Game", "Running") PROVE IInv'
    OBVIOUS
  <1>1. /\ ~OutsideLoaders(t) /\ Top(t).entry = "GameWinMain" /\ Top(t).at = "Started" /\ Push(t, g)
        /\ UNCHANGED <<coreVars, loaders, candidate, game, once, forwarding, rejected, inPrimary>>
    BY DEF EnterGame, At, loaderVarsBut
  <1>2. g \in StackFrames /\ g.entry = "Game" /\ g.at = "Running" /\ ~g.late /\ ~g.primary
    BY DEF Frame, StackFrames, Stages, Forwards, Entries, ExternalEntries
  <1>3. SharedKept BY <1>1 DEF SharedKept, IInv, LoadersSound
  <1>4. CoreSound' /\ RuntimeKept /\ OthersKept(t) /\ call'[t] = call[t] BY <1>1, NothingKept
  <1>5. FrameSound(g, call[t])' BY <1>2 DEF FrameSound, LoaderEntries
  <1>6. Nested(stack[t]) /\ stack[t] # <<>> /\ Top(t) = stack[t][Len(stack[t])]
    BY <1>1, FramesSound DEF OutsideLoaders, Top
  <1>7. Len(stack[t]) = 1 BY <1>1, <1>6, Shapes
  <1>8. Called(stack[t][1], g) BY <1>1, <1>2, <1>6, <1>7 DEF Called
  <1>9. /\ Len(stack[t]) <= 3
        /\ Len(stack[t]) = 0 => Outer(g) /\ g.at # "Chosen"
        /\ Len(stack[t]) = 1 => Called(stack[t][1], g)
        /\ Len(stack[t]) = 2 => Inner(stack[t][2], g)
        /\ Len(stack[t]) = 3 => Innermost(stack[t][3], g)
    BY <1>7, <1>8
  <1> QED BY <1>1, <1>2, <1>3, <1>4, <1>5, <1>9, PushStep

LEMMA GameReturnsStep ==
    ASSUME IInv, ended = "No", NEW t \in Threads, GameReturns(t)
    PROVE  IInv'
  <1> DEFINE n == Len(stack[t])
  <1>1. /\ ~OutsideLoaders(t) /\ Top(t).entry = "Game"
        /\ stack' = [stack EXCEPT ![t] = SubSeq(@, 1, n - 2)]
        /\ UNCHANGED <<coreVars, loaders, candidate, game, once, forwarding, rejected, inPrimary>>
    BY DEF GameReturns, At, loaderVarsBut
  <1>2. SharedKept BY <1>1 DEF SharedKept, IInv, LoadersSound
  <1>3. CoreSound' /\ RuntimeKept /\ OthersKept(t) BY <1>1, NothingKept
  <1>4. /\ Nested(stack[t]) /\ stack[t] # <<>> /\ Top(t) = stack[t][n]
        /\ inPrimary[t] <=> InPrimary(stack[t])
    BY <1>1, FramesSound DEF OutsideLoaders, Top
  <1>5. n = 2 /\ stack[t][1].entry = "GameWinMain" BY <1>1, <1>4, Shapes
  <1>6. ~inPrimary[t] BY <1>4, <1>5 DEF InPrimary
  <1>7. inPrimary' = [inPrimary EXCEPT ![t] = FALSE] BY <1>1, <1>6 DEF IInv, LoadersSound
  <1>8. stack' = [stack EXCEPT ![t] = SubSeq(stack[t], 1, 0)]
    <2>1. n - 2 = 0 BY <1>5
    <2> QED BY <1>1, <2>1
  <1>9. 0 \in 0 .. n /\ (FALSE <=> 0 > 0 /\ inPrimary[t]) BY <1>5
  <1> QED BY <1>2, <1>3, <1>7, <1>8, <1>9, PopStep

LEMMA HostStartStep ==
    ASSUME IInv, ended = "No", NEW t \in Threads, NEW role \in Roles, HostStart(t, role)
    PROVE  IInv'
  <1> SUFFICES ASSUME NEW f, f = Frame("Host", "Called") PROVE IInv'
    OBVIOUS
  <1>1. /\ game /\ stack[t] = <<>> /\ StartRuntime(t, Adjacent, role) /\ Push(t, f)
        /\ UNCHANGED <<loaders, candidate, game, once, forwarding, rejected, inPrimary>>
    BY DEF HostStart, OutsideLoaders, loaderVarsBut
  <1>2. f \in StackFrames /\ f.entry = "Host" /\ f.at = "Called" /\ ~f.late /\ ~f.primary
    BY DEF Frame, StackFrames, Stages, Forwards, Entries
  <1>3. CoreSound' /\ RuntimeKept /\ UNCHANGED ended /\ OthersKept(t)
    <2>1. Adjacent \in Copies BY LoaderAssumption
    <2> QED BY <1>1, <2>1, StartStep DEF IInv, OthersKept
  <1>4. SharedKept BY <1>1 DEF SharedKept, IInv, LoadersSound
  <1>5. FrameSound(f, call[t])' BY <1>2 DEF FrameSound, LoaderEntries
  <1>6. Outer(f) /\ f.at # "Chosen" BY <1>2 DEF Outer
  <1>7. Len(stack[t]) = 0 BY <1>1
  <1>8. /\ Len(stack[t]) <= 3
        /\ Len(stack[t]) = 0 => Outer(f) /\ f.at # "Chosen"
        /\ Len(stack[t]) = 1 => Called(stack[t][1], f)
        /\ Len(stack[t]) = 2 => Inner(stack[t][2], f)
        /\ Len(stack[t]) = 3 => Innermost(stack[t][3], f)
    BY <1>6, <1>7
  <1> QED BY <1>1, <1>2, <1>3, <1>4, <1>5, <1>8, PushStep

LEMMA HostReturnsStep ==
    ASSUME IInv, ended = "No", NEW t \in Threads, HostReturns(t)
    PROVE  IInv'
  <1> DEFINE n == Len(stack[t])
  <1>1. /\ ~OutsideLoaders(t) /\ Top(t).entry = "Host" /\ call' = [call EXCEPT ![t] = NoCall]
        /\ stack' = [stack EXCEPT ![t] = Base(t)]
        /\ UNCHANGED <<ended, guard, runtime, progress, native, dlls, observations, galaxy, limits,
                       loaders, candidate, game, once, forwarding, rejected, inPrimary>>
    BY DEF HostReturns, At, loaderVarsBut
  <1>2. SharedKept BY <1>1 DEF SharedKept, IInv, LoadersSound
  <1>3. CoreSound' /\ RuntimeKept /\ OthersKept(t)
    <2>1. ended' \in {"No", "Fatal", "Startup"} BY <1>1
    <2> QED BY <1>1, <2>1, FinishedCall
  <1>4. /\ Nested(stack[t]) /\ stack[t] # <<>> /\ Top(t) = stack[t][n]
        /\ inPrimary[t] <=> InPrimary(stack[t])
    BY <1>1, FramesSound DEF OutsideLoaders, Top
  <1>5. n = 1 /\ stack[t][1].entry = "Host" BY <1>1, <1>4, Shapes
  <1>6. ~inPrimary[t] BY <1>4, <1>5 DEF InPrimary
  <1>7. inPrimary' = [inPrimary EXCEPT ![t] = FALSE] BY <1>1, <1>6 DEF IInv, LoadersSound
  <1>8. stack' = [stack EXCEPT ![t] = SubSeq(stack[t], 1, 0)]
    <2>1. n - 1 = 0 BY <1>5
    <2> QED BY <1>1, <2>1 DEF Base
  <1>9. 0 \in 0 .. n /\ (FALSE <=> 0 > 0 /\ inPrimary[t]) BY <1>5
  <1> QED BY <1>2, <1>3, <1>7, <1>8, <1>9, PopStep

LEMMA WorkerTop ==
    ASSUME IInv, NEW t \in Threads, ~OutsideLoaders(t), Top(t).entry = "Worker",
           NEW f \in StackFrames, f.entry = "Worker", f.at \in {"Called", "Done"}, ~f.primary
    PROVE  /\ Len(stack[t]) \in {1, 3}
           /\ Len(stack[t]) = 1 => Outer(f) /\ (inPrimary[t] <=> f.entry = "Create" /\ f.at = "Chosen")
           /\ Len(stack[t]) = 3 => Inner(stack[t][2], f) /\ (inPrimary[t] <=> inPrimary[t])
  <1>1. /\ Nested(stack[t]) /\ stack[t] # <<>> /\ Top(t) = stack[t][Len(stack[t])]
        /\ inPrimary[t] <=> InPrimary(stack[t])
    BY FramesSound DEF OutsideLoaders, Top
  <1>2. Len(stack[t]) = 1 BY <1>1, Shapes
  <1>3. ~inPrimary[t] BY <1>1, <1>2 DEF InPrimary
  <1>4. Outer(f) BY DEF Outer
  <1> QED BY <1>2, <1>3, <1>4

LEMMA BootstrapStep ==
    ASSUME IInv, ended = "No", Bootstrap
    PROVE  IInv'
  <1> SUFFICES ASSUME NEW f, f = [Top(Worker) EXCEPT !.at = "Called"] PROVE IInv'
    OBVIOUS
  <1>1. /\ ~OutsideLoaders(Worker) /\ Top(Worker).entry = "Worker" /\ Top(Worker).at = "Polling"
        /\ game /\ StartRuntime(Worker, EmbeddedCopy, "Server") /\ Retop(Worker, f)
        /\ UNCHANGED <<loaders, candidate, game, once, forwarding, rejected, inPrimary>>
    BY DEF Bootstrap, At, loaderVarsBut
  <1>2. Worker \in Threads /\ EmbeddedCopy \in Copies BY LoaderAssumption
  <1>3. Top(Worker) \in StackFrames /\ FrameSound(Top(Worker), call[Worker]) BY <1>1, <1>2, TopSound
  <1>4. /\ f \in StackFrames /\ f.entry = "Worker" /\ f.primary = Top(Worker).primary
        /\ f.at = "Called" /\ f.late = Top(Worker).late
    BY <1>1, <1>3 DEF StackFrames, Stages
  <1>5. CoreSound' /\ RuntimeKept /\ UNCHANGED ended /\ OthersKept(Worker)
    <2>1. "Server" \in Roles BY DEF Roles
    <2> QED BY <1>1, <1>2, <2>1, StartStep DEF IInv, OthersKept
  <1>6. SharedKept BY <1>1 DEF SharedKept, IInv, LoadersSound
  <1>7. FrameSound(f, call[Worker])' BY <1>1, <1>3, <1>4 DEF FrameSound, LoaderEntries
  <1>8. ~f.primary
    <2>1. /\ Nested(stack[Worker]) /\ stack[Worker] # <<>> /\ Top(Worker) = stack[Worker][Len(stack[Worker])]
      BY <1>1, <1>2, FramesSound DEF OutsideLoaders, Top
    <2>2. Len(stack[Worker]) = 1 BY <1>1, <2>1, Shapes
    <2>3. Outer(Top(Worker)) BY <2>1, <2>2 DEF Nested
    <2> QED BY <1>1, <1>4, <2>3 DEF Outer
  <1>9. inPrimary' = [inPrimary EXCEPT ![Worker] = inPrimary[Worker]] /\ inPrimary[Worker] \in BOOLEAN
    BY <1>1, <1>2 DEF IInv, LoadersSound
  <1>10. /\ Len(stack[Worker]) \in {1, 3}
         /\ Len(stack[Worker]) = 1 => Outer(f) /\ (inPrimary[Worker] <=> f.entry = "Create" /\ f.at = "Chosen")
         /\ Len(stack[Worker]) = 3 => Inner(stack[Worker][2], f) /\ (inPrimary[Worker] <=> inPrimary[Worker])
    BY <1>1, <1>2, <1>4, <1>8, WorkerTop
  <1> QED BY <1>1, <1>2, <1>4, <1>5, <1>6, <1>7, <1>9, <1>10, RetopStep

LEMMA FinishBootstrapStep ==
    ASSUME IInv, ended = "No", FinishBootstrap
    PROVE  IInv'
  <1> SUFFICES ASSUME NEW f, f = [Top(Worker) EXCEPT !.at = "Done"] PROVE IInv'
    OBVIOUS
  <1>1. /\ ~OutsideLoaders(Worker) /\ Top(Worker).entry = "Worker" /\ Top(Worker).at = "Called"
        /\ call' = [call EXCEPT ![Worker] = NoCall]
        /\ \/ Retop(Worker, f) /\ UNCHANGED ended
           \/ ended' = "Startup" /\ UNCHANGED stack
        /\ UNCHANGED <<guard, runtime, progress, native, dlls, observations, galaxy, limits,
                       loaders, candidate, game, once, forwarding, rejected, inPrimary>>
    BY DEF FinishBootstrap, At, FailStartup, loaderVarsBut
  <1>2. Worker \in Threads BY LoaderAssumption
  <1>3. Top(Worker) \in StackFrames /\ FrameSound(Top(Worker), call[Worker]) BY <1>1, <1>2, TopSound
  <1>4. /\ f \in StackFrames /\ f.entry = "Worker" /\ f.primary = Top(Worker).primary
        /\ f.at = "Done" /\ f.late = Top(Worker).late
    BY <1>1, <1>3 DEF StackFrames, Stages
  <1>5. CoreSound' /\ RuntimeKept /\ OthersKept(Worker)
    <2>1. ended' \in {"No", "Fatal", "Startup"} BY <1>1
    <2> QED BY <1>1, <1>2, <2>1, FinishedCall
  <1>6. SharedKept BY <1>1 DEF SharedKept, IInv, LoadersSound
  <1>7. CASE ended' = "Startup" /\ UNCHANGED stack BY <1>1, <1>5, <1>6, <1>7, EndStep
  <1>8. CASE Retop(Worker, f) /\ UNCHANGED ended
    <2>1. FrameSound(f, call[Worker])' BY <1>1, <1>3, <1>4 DEF FrameSound, LoaderEntries
    <2>2. ~f.primary
      <3>1. /\ Nested(stack[Worker]) /\ stack[Worker] # <<>> /\ Top(Worker) = stack[Worker][Len(stack[Worker])]
        BY <1>1, <1>2, FramesSound DEF OutsideLoaders, Top
      <3>2. Len(stack[Worker]) = 1 BY <1>1, <3>1, Shapes
      <3>3. Outer(Top(Worker)) BY <3>1, <3>2 DEF Nested
      <3> QED BY <1>1, <1>4, <3>3 DEF Outer
    <2>3. inPrimary' = [inPrimary EXCEPT ![Worker] = inPrimary[Worker]] /\ inPrimary[Worker] \in BOOLEAN
      BY <1>1, <1>2 DEF IInv, LoadersSound
    <2>4. /\ Len(stack[Worker]) \in {1, 3}
          /\ Len(stack[Worker]) = 1 => Outer(f) /\ (inPrimary[Worker] <=> f.entry = "Create" /\ f.at = "Chosen")
          /\ Len(stack[Worker]) = 3 => Inner(stack[Worker][2], f) /\ (inPrimary[Worker] <=> inPrimary[Worker])
      BY <1>1, <1>2, <1>4, <2>2, WorkerTop
    <2> QED BY <1>1, <1>2, <1>4, <1>5, <1>6, <1>8, <2>1, <2>3, <2>4, RetopStep
  <1> QED BY <1>1, <1>7, <1>8

(* A step that leaves every stack alone: of a copy's control thread, of the *)
(* game's images, or an answer to a waiting call.                           *)
LEMMA SharedOnlyStep ==
    ASSUME IInv, ended = "No", CoreSound', RuntimeKept, SharedKept, UNCHANGED <<stack, inPrimary>>,
           \A t \in Threads :
              \/ call'[t] = call[t]
              \/ call'[t].at # "None" /\ call'[t].copy = call[t].copy /\ call'[t].role = call[t].role
    PROVE  IInv'
  <1>1. \A t \in Threads : StackSound(t)'
    BY StackKept DEF IInv, LoadersSound, SharedKept
  <1>2. stack' \in [Threads -> Seq(StackFrames)] /\ inPrimary' \in [Threads -> BOOLEAN]
    BY DEF IInv, LoadersSound
  <1> QED BY <1>1, <1>2, SharedStep

LEMMA LoadGameStep ==
    ASSUME IInv, ended = "No", LoadGame
    PROVE  IInv'
  <1>1. /\ game' = TRUE
        /\ UNCHANGED <<coreVars, loaders, candidate, once, forwarding, rejected, inPrimary, stack>>
    BY DEF LoadGame, loaderVarsBut
  <1>2. SharedKept BY <1>1 DEF SharedKept, IInv, LoadersSound
  <1>3. CoreSound' /\ RuntimeKept /\ \A t \in Threads : call'[t] = call[t] BY <1>1, NothingKept
  <1> QED BY <1>1, <1>2, <1>3, SharedOnlyStep

LEMMA LoaderVarsKept ==
    ASSUME IInv, UNCHANGED loaderVars
    PROVE  SharedKept /\ UNCHANGED <<stack, inPrimary, game>>
  <1>1. UNCHANGED <<loaders, candidate, game, once, forwarding, rejected, inPrimary, stack>>
    BY DEF loaderVars
  <1> QED BY <1>1 DEF SharedKept, IInv, LoadersSound

LEMMA ControlStepStep ==
    ASSUME IInv, ended = "No", NEW c \in Copies, ControlStep(c), UNCHANGED loaderVars
    PROVE  IInv' /\ RuntimeKept
  <1>1. SharedKept /\ UNCHANGED <<stack, inPrimary, game>> BY LoaderVarsKept
  <1>2. CoreSound BY DEF IInv
  <1>3. UNCHANGED call
    BY DEF ControlStep, StartReporting, ResolvePatches, ObserveImages, SelectObservers, InstallBatch,
           FinishStart, ControlScan
  <1>4. CoreSound' /\ RuntimeKept
    <2>1. CASE StartReporting(c) \/ ResolvePatches(c) \/ ObserveImages(c) BY <1>1, <1>2, <2>1, AdvanceStep
    <2>2. CASE SelectObservers(c) BY <1>1, <1>2, <2>2, SelectObserversStep
    <2>3. CASE InstallBatch(c) BY <1>1, <1>2, <2>3, InstallBatchStep
    <2>4. CASE FinishStart(c) BY <1>1, <1>2, <2>4, FinishStartStep
    <2>5. CASE ControlScan(c) BY <1>1, <1>2, <2>5, ControlScanStep
    <2> QED BY <2>1, <2>2, <2>3, <2>4, <2>5 DEF ControlStep
  <1> QED BY <1>1, <1>3, <1>4, SharedOnlyStep

LEMMA ControlThrowsSound ==
    ASSUME IInv, ended = "No", NEW c \in Copies, NEW known \in BOOLEAN, ControlThrows(c, known), UNCHANGED loaderVars
    PROVE  IInv' /\ RuntimeKept
  <1>1. SharedKept /\ UNCHANGED <<stack, inPrimary, game>> BY LoaderVarsKept
  <1>2. CoreSound BY DEF IInv
  <1>3. UNCHANGED call BY DEF ControlThrows
  <1>4. CoreSound' /\ RuntimeKept BY <1>1, <1>2, ControlThrowsStep
  <1> QED BY <1>1, <1>3, <1>4, SharedOnlyStep

LEMMA AnswerSound ==
    ASSUME IInv, ended = "No", NEW t \in Threads, Answer(t), UNCHANGED loaderVars
    PROVE  IInv' /\ RuntimeKept
  <1>1. SharedKept /\ UNCHANGED <<stack, inPrimary, game>> BY LoaderVarsKept
  <1>2. CoreSound BY DEF IInv
  <1>3. /\ CoreSound' /\ RuntimeKept
        /\ call'[t].at \in {"Accepted", "Refused"}
        /\ call'[t].copy = call[t].copy /\ call'[t].role = call[t].role
        /\ \A u \in Threads \ {t} : call'[u] = call[u]
    BY <1>1, <1>2, AnswerStep
  <1>4. call'[t].at # "None" BY <1>3
  <1>5. \A u \in Threads :
           \/ call'[u] = call[u]
           \/ call'[u].at # "None" /\ call'[u].copy = call[u].copy /\ call'[u].role = call[u].role
    BY <1>3, <1>4
  <1> QED BY <1>1, <1>3, <1>5, SharedOnlyStep

LEMMA GameLoadsSound ==
    ASSUME IInv, ended = "No", NEW f \in GalaxyImages, NEW build \in Probes, GameLoads(f, build), UNCHANGED loaderVars
    PROVE  IInv' /\ RuntimeKept
  <1>1. SharedKept /\ UNCHANGED <<stack, inPrimary, game>> BY LoaderVarsKept
  <1>2. CoreSound BY DEF IInv
  <1>3. UNCHANGED call BY DEF GameLoads
  <1>4. CoreSound' /\ RuntimeKept BY <1>1, <1>2, GameLoadsStep
  <1> QED BY <1>1, <1>3, <1>4, SharedOnlyStep

LEMMA StutterStep ==
    ASSUME IInv, UNCHANGED startupVars
    PROVE  IInv'
  <1>1. UNCHANGED loaderVars /\ UNCHANGED coreVars BY DEF startupVars
  <1>2. SharedKept /\ UNCHANGED <<stack, inPrimary, game>> BY <1>1, LoaderVarsKept
  <1>3. CoreSound' /\ RuntimeKept /\ \A t \in Threads : call'[t] = call[t]
    BY <1>1, <1>2, NothingKept
  <1>4. rejected' = rejected /\ once' = once /\ ended' = ended
    BY <1>1 DEF loaderVars, coreVars
  <1>5. ASSUME NEW t \in Threads PROVE StackSound(t)'
    <2>1. StackSound(t) BY DEF IInv, LoadersSound
    <2> QED BY <1>2, <1>3, <1>4, <2>1
        DEF StackSound, FrameSound, Nested, InPrimary, Outer, Called, Inner, Innermost
  <1>6. stack' \in [Threads -> Seq(StackFrames)] /\ inPrimary' \in [Threads -> BOOLEAN]
    BY <1>2 DEF IInv, LoadersSound
  <1> QED BY <1>2, <1>3, <1>5, <1>6, SharedStep

-----------------------------------------------------------------------------
(* The inductive invariant. *)

LEMMA InitSound == StartupInit => IInv
  <1> SUFFICES ASSUME StartupInit PROVE IInv
    OBVIOUS
  <1>1. CoreSound
    <2>1. CoreTypeOK BY DEF StartupInit, CoreInit, CoreTypeOK, Phases, Roles, Probes, NoCall
    <2>2. \A c \in Copies : PhaseSound(c) /\ ObserverSound(c)
      BY DEF StartupInit, CoreInit, PhaseSound, ObserverSound, Initializing
    <2>3. \A t \in Threads : CallSound(t) BY DEF StartupInit, CoreInit, CallSound, NoCall
    <2> QED BY <2>1, <2>2, <2>3 DEF CoreSound
  <1>2. ASSUME NEW t \in Threads
        PROVE  stack[t] \in Seq(StackFrames) /\ StackSound(t)
    <2>1. inPrimary[t] = FALSE BY DEF StartupInit
    <2>2. CASE stack[t] = <<>> BY <2>1, <2>2 DEF StackSound, Nested, InPrimary
    <2>3. CASE stack[t] = <<Frame("Worker", "Polling")>>
      <3> SUFFICES ASSUME NEW f, f = Frame("Worker", "Polling") PROVE stack[t] \in Seq(StackFrames) /\ StackSound(t)
        OBVIOUS
      <3>1. f \in StackFrames /\ f.entry = "Worker" /\ f.at = "Polling" /\ ~f.late /\ ~f.primary
        BY DEF Frame, StackFrames, Stages, Forwards, Entries
      <3>2. stack[t] = <<f>> BY <2>3
      <3>3. /\ stack[t] \in Seq(StackFrames) /\ Len(stack[t]) = 1 /\ stack[t][1] = f /\ DOMAIN stack[t] = {1}
        BY <3>1, <3>2
      <3>4. FrameSound(f, call[t]) BY <3>1 DEF FrameSound, LoaderEntries
      <3>5. Nested(stack[t]) /\ ~InPrimary(stack[t]) BY <3>1, <3>3 DEF Nested, Outer, InPrimary
      <3> QED BY <2>1, <3>3, <3>4, <3>5 DEF StackSound
    <2> QED BY <2>2, <2>3 DEF StartupInit
  <1>3. stack \in [Threads -> Seq(StackFrames)] BY <1>2 DEF StartupInit
  <1> QED BY <1>1, <1>2, <1>3 DEF IInv, LoadersSound, StartupInit

LEMMA LoaderStepStep ==
    ASSUME IInv, ended = "No", NEW t \in Threads, LoaderStep(t)
    PROVE  IInv'
  BY LoadRuntimeStep, StartAdjacentStep, FinishLoadStep, JoinStartedStep, ReturnFailureStep,
     RejectChainStep, EnterPrimaryStep, ForwardStep, EnterGameStep, HostReturnsStep DEF LoaderStep

LEMMA NextSound == IInv /\ [StartupNext]_startupVars => IInv'
  <1> SUFFICES ASSUME IInv, [StartupNext]_startupVars PROVE IInv'
    OBVIOUS
  <1>1. ASSUME NEW c \in Copies, Runs(ControlStep(c) /\ UNCHANGED loaderVars) PROVE IInv'
    BY <1>1, ControlStepStep DEF Runs
  <1>2. ASSUME NEW c \in Copies, NEW known \in BOOLEAN, Runs(ControlThrows(c, known) /\ UNCHANGED loaderVars)
        PROVE  IInv'
    BY <1>2, ControlThrowsSound DEF Runs
  <1>3. ASSUME NEW t \in Threads, Runs(Answer(t) /\ UNCHANGED loaderVars) PROVE IInv'
    BY <1>3, AnswerSound DEF Runs
  <1>4. ASSUME NEW t \in Threads, Runs(LoaderStep(t)) PROVE IInv'
    BY <1>4, LoaderStepStep DEF Runs
  <1>5. ASSUME NEW t \in Threads, Runs(CallCreate(t) \/ CallSecondary(t) \/ CallGame(t)) PROVE IInv'
    BY <1>5, CallCreateStep, CallSecondaryStep, CallGameStep DEF Runs
  <1>6. ASSUME NEW t \in Threads, Runs(ForwardReturns(t) \/ GameReturns(t)) PROVE IInv'
    BY <1>6, ForwardReturnsStep, GameReturnsStep DEF Runs
  <1>7. ASSUME NEW t \in Threads, NEW role \in Roles, Runs(HostStart(t, role)) PROVE IInv'
    BY <1>7, HostStartStep DEF Runs
  <1>8. CASE Runs(Bootstrap \/ FinishBootstrap) BY <1>8, BootstrapStep, FinishBootstrapStep DEF Runs
  <1>9. CASE Runs(LoadGame) BY <1>9, LoadGameStep DEF Runs
  <1>10. ASSUME NEW f \in GalaxyImages, NEW build \in Probes, Runs(GameLoads(f, build) /\ UNCHANGED loaderVars)
         PROVE  IInv'
    BY <1>10, GameLoadsSound DEF Runs
  <1>11. CASE UNCHANGED startupVars BY <1>11, StutterStep
  <1> QED BY <1>1, <1>2, <1>3, <1>4, <1>5, <1>6, <1>7, <1>8, <1>9, <1>10, <1>11 DEF StartupNext

(* The inductive invariant holds in every reachable state: whatever loaders *)
(* and hosts a process has, in whatever order their threads run.            *)
THEOREM StartupInvariant == StartupSpec => []IInv
  BY InitSound, NextSound, PTL DEF StartupSpec

-----------------------------------------------------------------------------
(* What startup promises. *)

LEMMA EntryFollows == IInv => EntryAfterStartup
  <1> SUFFICES ASSUME IInv PROVE EntryAfterStartup
    OBVIOUS
  <1>1. ASSUME NEW t \in Threads, NEW i \in DOMAIN stack[t]
        PROVE  /\ stack[t][i] \in StackFrames
               /\ stack[t][i].entry \in LoaderEntries /\ stack[t][i].at \in {"Started", "Chosen"} => once = "Done"
    <2>1. Nested(stack[t]) /\ FrameSound(stack[t][i], call[t]) BY DEF IInv, LoadersSound, StackSound
    <2>2. stack[t] \in Seq(StackFrames) BY <2>1, Depth
    <2>3. stack[t][i] \in StackFrames BY <2>2, LenProperties
    <2> QED BY <2>1, <2>3 DEF FrameSound
  <1>2. LoadersTypeOK
    <2>1. forwarding \in [create : Destinations \cup {"Unset"}, other : Destinations \cup {"Unset"}]
      <3>1. Forwards \subseteq Destinations BY DEF Forwards, Destinations
      <3>2. forwarding \in Tables \cup {NoTable} BY DEF IInv, LoadersSound
      <3> QED BY <3>1, <3>2 DEF Tables, NoTable
    <2>2. ASSUME NEW t \in Threads, NEW i \in DOMAIN stack[t]
          PROVE  stack[t][i].entry \in LoaderEntries \cup ExternalEntries \cup {"Worker", "Host"}
      BY <1>1 DEF StackFrames, Entries
    <2> QED BY <2>1, <2>2 DEF LoadersTypeOK, IInv, LoadersSound, CoreSound
  <1>3. ASSUME NEW f \in Frames, FrameAt(f).entry \in LoaderEntries, FrameAt(f).at \in {"Started", "Chosen"}
        PROVE  runtime[Adjacent].result = "Started" /\ runtime[Adjacent].role = "Client"
    <2>1. PICK t \in Threads : f \in {t} \X DOMAIN stack[t] BY DEF Frames
    <2>2. FrameAt(f) = stack[t][f[2]] /\ f[2] \in DOMAIN stack[t] BY <2>1 DEF FrameAt
    <2>3. once = "Done" BY <1>1, <1>3, <2>2
    <2> QED BY <2>3 DEF IInv, LoadersSound
  <1>4. \A c \in Copies : progress[c] # "None" => game BY DEF IInv, CoreSound, PhaseSound
  <1> QED BY <1>2, <1>3, <1>4 DEF EntryAfterStartup

LEMMA RuntimeFollows == IInv => OneRuntime /\ ErrorMeansClean /\ GalaxySound
  <1> SUFFICES ASSUME IInv PROVE OneRuntime /\ ErrorMeansClean /\ GalaxySound
    OBVIOUS
  <1>1. \A c \in Copies : PhaseSound(c) /\ ObserverSound(c) BY DEF IInv, CoreSound
  <1>2. OneRuntime
    BY <1>1 DEF OneRuntime, PhaseSound, CallSound, IInv, CoreSound
  <1>3. ErrorMeansClean BY <1>1 DEF ErrorMeansClean, PhaseSound, ObserverSound
  <1>4. GalaxySound BY <1>1 DEF GalaxySound, ObserverSound
  <1> QED BY <1>2, <1>3, <1>4

(* No entry of a game or of DirectInput resumes before the runtime beside   *)
(* its loader has published a successful start, at most one copy of the     *)
(* runtime ever runs, a caller is told of a start in the mode it asked for, *)
(* an error leaves nothing native behind, and Galaxy is installed only on   *)
(* DLLs that were seen to be supported.                                     *)
THEOREM StartupHolds == StartupSpec => []StartupSound
  <1>1. IInv => StartupSound BY EntryFollows, RuntimeFollows DEF StartupSound
  <1> QED BY <1>1, StartupInvariant, PTL

LEMMA RetiredFollows == IInv => ProxyRetired
  <1> SUFFICES ASSUME IInv PROVE ProxyRetired
    OBVIOUS
  <1>1. ASSUME NEW t \in Threads
        PROVE  /\ \A i \in DOMAIN stack[t] :
                    /\ stack[t][i].late /\ stack[t][i].at = "Chosen" => stack[t][i].target = "System"
                    /\ stack[t][i].entry = "Proxy" => i = 2
                    /\ stack[t][i].entry # "Loader"
               /\ inPrimary[t] <=> \E i \in DOMAIN stack[t] : stack[t][i].primary
    <2> DEFINE s == stack[t]
               n == Len(s)
    <2>1. /\ Nested(s) /\ (inPrimary[t] <=> InPrimary(s))
          /\ \A i \in DOMAIN s : FrameSound(s[i], call[t])
      BY DEF IInv, LoadersSound, StackSound
    <2>2. n \in 0 .. 4 /\ DOMAIN s = 1 .. n BY <2>1, Depth, LenProperties
    <2>3. /\ n >= 1 => s[1] \in StackFrames /\ Outer(s[1])
          /\ n >= 2 => Called(s[1], s[2])
          /\ n >= 3 => Inner(s[2], s[3])
          /\ n >= 4 => Innermost(s[3], s[4])
      BY <2>1 DEF Nested
    <2>4. \A i \in DOMAIN s : s[i].late /\ s[i].at = "Chosen" => s[i].target = "System"
      BY <2>1 DEF FrameSound
    <2>5. InPrimary(s) <=> n >= 1 /\ s[1].entry = "Create" /\ s[1].at = "Chosen"
      BY DEF InPrimary
    <2> HIDE DEF n, s
    <2>6. /\ n >= 1 => s[1].entry \notin {"Proxy", "Loader"} /\ (s[1].primary <=> InPrimary(s))
          /\ n >= 2 => s[2].entry # "Loader" /\ ~s[2].primary
          /\ n >= 3 => s[3].entry \notin {"Proxy", "Loader"} /\ ~s[3].primary
          /\ n >= 4 => s[4].entry \notin {"Proxy", "Loader"} /\ ~s[4].primary
      <3>1. n >= 1 => s[1].entry \notin {"Proxy", "Loader"} /\ (s[1].primary <=> InPrimary(s))
        BY <2>3, <2>5 DEF Outer, Joining
      <3>2. n >= 2 => s[2].entry # "Loader" /\ ~s[2].primary
        <4>1. n >= 2 => s[1] \in StackFrames /\ Called(s[1], s[2]) BY <2>2, <2>3
        <4> QED BY <4>1 DEF Called, StackFrames, Forwards
      <3>3. n >= 3 => s[3].entry \notin {"Proxy", "Loader"} /\ ~s[3].primary BY <2>3 DEF Inner
      <3>4. n >= 4 => s[4].entry \notin {"Proxy", "Loader"} /\ ~s[4].primary BY <2>3 DEF Innermost
      <3> QED BY <3>1, <3>2, <3>3, <3>4
    <2>7. \A i \in DOMAIN s : i = 1 \/ i = 2 \/ i = 3 \/ i = 4 BY <2>2
    <2>8. ASSUME NEW i \in DOMAIN s
          PROVE  /\ s[i].entry = "Proxy" => i = 2
                 /\ s[i].entry # "Loader"
                 /\ s[i].primary => i = 1
      BY <2>2, <2>6, <2>7
    <2>9. InPrimary(s) <=> \E i \in DOMAIN s : s[i].primary
      <3>1. ASSUME InPrimary(s) PROVE \E i \in DOMAIN s : s[i].primary
        <4>1. n >= 1 BY <2>5, <3>1
        <4>2. 1 \in DOMAIN s /\ s[1].primary BY <2>2, <2>6, <3>1, <4>1
        <4> QED BY <4>2
      <3>2. ASSUME NEW i \in DOMAIN s, s[i].primary PROVE InPrimary(s)
        <4>1. i = 1 BY <2>8, <3>2
        <4>2. n >= 1 BY <2>2, <3>2, <4>1
        <4> QED BY <2>6, <3>2, <4>1, <4>2
      <3> QED BY <3>1, <3>2
    <2> QED BY <2>1, <2>4, <2>8, <2>9 DEF s
  <1>2. ASSUME NEW f \in Frames, FrameAt(f).late, FrameAt(f).at = "Chosen" PROVE FrameAt(f).target = "System"
    <2>1. PICK t \in Threads : f \in {t} \X DOMAIN stack[t] BY DEF Frames
    <2>2. FrameAt(f) = stack[t][f[2]] /\ f[2] \in DOMAIN stack[t] BY <2>1 DEF FrameAt
    <2> QED BY <1>1, <1>2, <2>2
  <1>3. ASSUME NEW t \in Threads
        PROVE  Cardinality({i \in DOMAIN stack[t] : stack[t][i].entry = "Proxy"}) <= 1
    <2> DEFINE proxies == {i \in DOMAIN stack[t] : stack[t][i].entry = "Proxy"}
    <2>1. proxies \subseteq {2} BY <1>1
    <2>2. IsFiniteSet({2}) /\ Cardinality({2}) = 1 BY FS_Singleton
    <2>3. Cardinality(proxies) <= Cardinality({2}) BY <2>1, <2>2, FS_Subset
    <2> QED BY <2>2, <2>3
  <1>4. forwarding.other # "Loader"
    <2>1. forwarding \in Tables \cup {NoTable} BY DEF IInv, LoadersSound
    <2> QED BY <2>1 DEF Tables, Forwards, NoTable
  <1> QED BY <1>1, <1>2, <1>3, <1>4 DEF ProxyRetired

(* No call that leaves startup after a recursive proxy was retired is      *)
(* forwarded to it, on any thread; a proxy never runs twice on a thread,   *)
(* no export leads back into this loader, and a thread's mark is set       *)
(* exactly while it is in a primary call.                                  *)
THEOREM RetirementHolds == StartupSpec => []ProxyRetired
  BY RetiredFollows, StartupInvariant, PTL

LEMMA ResultsKept == IInv /\ [StartupNext]_startupVars => RuntimeKept
  <1> SUFFICES ASSUME IInv, [StartupNext]_startupVars PROVE RuntimeKept
    OBVIOUS
  <1>1. runtime' = runtime => RuntimeKept BY DEF RuntimeKept
  <1>2. ASSUME NEW c \in Copies, Runs(ControlStep(c) /\ UNCHANGED loaderVars) PROVE RuntimeKept
    BY <1>2, ControlStepStep DEF Runs
  <1>3. ASSUME NEW c \in Copies, NEW known \in BOOLEAN, Runs(ControlThrows(c, known) /\ UNCHANGED loaderVars)
        PROVE  RuntimeKept
    BY <1>3, ControlThrowsSound DEF Runs
  <1>4. ASSUME NEW t \in Threads, Runs(LoaderStep(t)) PROVE RuntimeKept
    <2>1. CASE StartAdjacent(t)
      <3>1. ~OutsideLoaders(t) /\ Top(t).entry \in LoaderEntries BY <2>1 DEF StartAdjacent, At
      <3>2. game BY <3>1, TopSound DEF FrameSound
      <3>3. /\ StartRuntime(t, Adjacent, "Client") \/ RefuseStart(t, Adjacent, "Client")
            /\ UNCHANGED game
        BY <2>1 DEF StartAdjacent
      <3>4. Adjacent \in Copies /\ "Client" \in Roles BY LoaderAssumption DEF Roles
      <3> QED BY <3>2, <3>3, <3>4, StartStep DEF IInv
    <2>2. CASE ~StartAdjacent(t)
      BY <1>1, <1>4, <2>2
         DEF Runs, LoaderStep, LoadRuntime, FinishLoad, JoinStarted, ReturnFailure, RejectChain, EnterPrimary,
             Forward, EnterGame, HostReturns, coreVars
    <2> QED BY <2>1, <2>2
  <1>5. ASSUME NEW t \in Threads, NEW role \in Roles, Runs(HostStart(t, role)) PROVE RuntimeKept
    <2>1. StartRuntime(t, Adjacent, role) /\ game /\ UNCHANGED game BY <1>5 DEF Runs, HostStart
    <2> QED BY <2>1, LoaderAssumption, StartStep DEF IInv
  <1>6. CASE Runs(Bootstrap \/ FinishBootstrap)
    <2>1. CASE Bootstrap
      <3>1. StartRuntime(Worker, EmbeddedCopy, "Server") /\ game /\ UNCHANGED game BY <2>1 DEF Bootstrap
      <3>2. "Server" \in Roles BY DEF Roles
      <3> QED BY <3>1, <3>2, LoaderAssumption, StartStep DEF IInv
    <2>2. CASE FinishBootstrap BY <1>1, <2>2 DEF FinishBootstrap
    <2> QED BY <1>6, <2>1, <2>2 DEF Runs
  <1>7. CASE \/ \E t \in Threads : Runs(Answer(t) /\ UNCHANGED loaderVars)
             \/ \E t \in Threads : Runs(CallCreate(t) \/ CallSecondary(t) \/ CallGame(t))
             \/ \E t \in Threads : Runs(ForwardReturns(t) \/ GameReturns(t))
             \/ Runs(LoadGame)
             \/ \E f \in GalaxyImages, build \in Probes : Runs(GameLoads(f, build) /\ UNCHANGED loaderVars)
             \/ UNCHANGED startupVars
    BY <1>1, <1>7 DEF Runs, Answer, CallCreate, CallSecondary, CallGame, ForwardReturns, GameReturns, LoadGame,
                      GameLoads, startupVars, coreVars
  <1> QED BY <1>2, <1>3, <1>4, <1>5, <1>6, <1>7 DEF StartupNext

(* The result every waiter reads is published once and never replaced, also *)
(* when the control thread fails long after startup.                        *)
THEOREM ResultHolds == StartupSpec => ResultFinal
  <1>1. IInv /\ [StartupNext]_startupVars =>
          [\A c \in Copies : runtime[c].result # "Pending" => runtime'[c].result = runtime[c].result]_startupVars
    BY ResultsKept DEF RuntimeKept
  <1> QED BY <1>1, StartupInvariant, PTL DEF StartupSpec, ResultFinal

-----------------------------------------------------------------------------
(* The inductive invariant of Selection: every recognised module is held    *)
(* and is of its profile alone; what a patch was bound to was recognised as *)
(* what the label accepts; and while a patch is planned, nothing that was   *)
(* seen gives it another meaning.                                           *)

IsSeq(s) == \E S : s \in Seq(S)

ModulesSound ==
    /\ \A m \in mapped : m.base \in 1..(MaxModules + 1) /\ m.build \in Builds
    /\ \E m \in mapped : m.base = Executable.base

(* The outcome and the base of a recognised module. *)
Kept(o, held) ==
    o.outcome \in Profiles => o.base \in held /\ \E m \in mapped : m.base = o.base /\ Fits[m.build] = {o.outcome}

Bindings(p, c, observed) ==
    /\ c.variant \in Applicable(p)
    /\ DOMAIN c.images = DOMAIN Variants[p][c.variant].images
    /\ \A l \in DOMAIN c.images :
          c.images[l] \in DOMAIN observed /\ observed[c.images[l]].outcome \in Variants[p][c.variant].images[l]

OnlyModules(p, c, observed) ==
    \A l \in DOMAIN c.images : \A i \in DOMAIN observed :
        observed[i].outcome \in Variants[p][c.variant].images[l] => observed[i].base = observed[c.images[l]].base

Filled(p, v, observed) ==
    \A l \in DOMAIN Variants[p][v].images : \E i \in DOMAIN observed : observed[i].outcome \in Variants[p][v].images[l]

OnlyVariant(p, c, observed) ==
    \A v \in Applicable(p) \ {c.variant} : Filled(p, v, observed) => Variant(p, v, observed) = "Unavailable"

PatchBound(p) ==
    /\ recordState[p] \in {"Planning", "Installed"} => Bindings(p, choice[p], images)
    /\ recordState[p] = "Planning" =>
          controller.at = "Installing" /\ OnlyModules(p, choice[p], images) /\ OnlyVariant(p, choice[p], images)

SelectionInv ==
    /\ ModulesSound /\ IsSeq(images)
    /\ \A i \in DOMAIN images : Kept(images[i], pinned)
    /\ \A p \in Records : PatchBound(p)

-----------------------------------------------------------------------------
LEMMA SeqPlaces ==
    ASSUME NEW s, IsSeq(s)
    PROVE  Len(s) \in Nat /\ DOMAIN s = 1..Len(s) /\ IsFiniteSet(DOMAIN s) /\ DOMAIN s \subseteq Nat
<1>1. PICK S : s \in Seq(S)
    BY DEF IsSeq
<1>2. Len(s) \in Nat /\ DOMAIN s = 1..Len(s)
    BY <1>1
<1> QED BY <1>2, FS_Interval

LEMMA Appends ==
    ASSUME NEW s, IsSeq(s), NEW x
    PROVE  /\ IsSeq(Append(s, x)) /\ DOMAIN s \subseteq DOMAIN Append(s, x)
           /\ \A i \in DOMAIN s : Append(s, x)[i] = s[i]
           /\ \A i \in DOMAIN Append(s, x) : i \in DOMAIN s \/ Append(s, x)[i] = x
           /\ Append(s, x)[Len(Append(s, x))] = x
<1>1. PICK S : s \in Seq(S)
    BY DEF IsSeq
<1>2. s \in Seq(S \cup {x})
    BY <1>1
<1>3. Append(s, x) \in Seq(S \cup {x}) /\ Len(Append(s, x)) = Len(s) + 1 /\ Len(s) \in Nat
    BY <1>2
<1>4. \A i \in 1..Len(s) : Append(s, x)[i] = s[i]
    BY <1>2
<1>5. Append(s, x)[Len(s) + 1] = x
    BY <1>2
<1>6. DOMAIN s = 1..Len(s) /\ DOMAIN Append(s, x) = 1..(Len(s) + 1)
    BY <1>2, <1>3
<1> QED
    BY <1>3, <1>4, <1>5, <1>6 DEF IsSeq

LEMMA LeastOf ==
    ASSUME NEW S \in SUBSET Nat, S # {}
    PROVE  Min(S) \in S
<1>1. \E x \in S : \A y \in S : x <= y
    BY LeastNumber
<1> QED BY <1>1 DEF Min

LEMMA OneElement ==
    ASSUME NEW S, IsFiniteSet(S), Cardinality(S) = 1
    PROVE  \E x : S = {x}
BY FS_Singleton

-----------------------------------------------------------------------------
LEMMA InspectedKept ==
    ASSUME SelectionAssumption, ModulesSound, NEW m \in mapped, NEW file, NEW executable,
           Pin(Inspected(file, m, executable))
    PROVE  Kept(Inspected(file, m, executable), pinned')
<1> DEFINE o == Inspected(file, m, executable)
<1>1. SUFFICES ASSUME o.outcome \in Profiles
               PROVE  o.base \in pinned' /\ \E n \in mapped : n.base = o.base /\ Fits[n.build] = {o.outcome}
    BY DEF Kept
<1>2. o.outcome = Recognised(m) /\ o.outcome # Failed
    BY <1>1 DEF Inspected, Observation, SelectionAssumption, Failed
<1>3. Cardinality(Fits[m.build]) = 1 /\ o.outcome = CHOOSE p \in Fits[m.build] : TRUE
    BY <1>2 DEF Recognised
<1>4. m.build \in Builds /\ m.base \in 1..(MaxModules + 1)
    BY DEF ModulesSound
<1>5. IsFiniteSet(Fits[m.build])
    BY <1>4, FS_Subset DEF SelectionAssumption
<1>6. Fits[m.build] = {o.outcome}
    BY <1>3, <1>5, OneElement
<1>7. o.base = m.base /\ o.base # 0
    BY <1>2, <1>4 DEF Inspected, Observation, SelectionAssumption
<1>8. o.base \in pinned'
    BY <1>7 DEF Pin
<1> QED BY <1>6, <1>7, <1>8

LEMMA ProbedKept ==
    ASSUME SelectionAssumption, ModulesSound, NEW file, Pin(Probed(file))
    PROVE  Kept(Probed(file), pinned')
<1>1. Absent \notin Profiles /\ Failed \notin Profiles
    BY DEF SelectionAssumption, Absent, Failed
<1>2. CASE Named(file) = {}
    BY <1>1, <1>2 DEF Probed, Observation, Kept
<1>3. CASE Named(file) # {} /\ Cardinality(Named(file)) > 1
    BY <1>1, <1>3 DEF Probed, Observation, Kept
<1>4. CASE Named(file) # {} /\ ~(Cardinality(Named(file)) > 1)
    <2> DEFINE m == CHOOSE n \in Named(file) : TRUE
    <2>1. m \in mapped
        BY <1>4 DEF Named
    <2>2. Probed(file) = Inspected(file, m, FALSE)
        BY <1>4 DEF Probed
    <2> HIDE DEF m
    <2> QED BY <2>1, <2>2, InspectedKept
<1> QED BY <1>2, <1>3, <1>4

LEMMA PinKeeps ==
    ASSUME NEW o, Pin(o)
    PROVE  pinned \subseteq pinned'
BY DEF Pin

-----------------------------------------------------------------------------
LEMMA RequirementReady ==
    ASSUME NEW observed, IsSeq(observed), NEW accepted, Requirement(accepted, observed) = "Ready"
    PROVE  /\ Bound(accepted, observed) \in Matches(accepted, observed)
           /\ \A i \in Matches(accepted, observed) : observed[i].base = observed[Bound(accepted, observed)].base
<1> DEFINE M == Matches(accepted, observed)
           B == MatchedBases(accepted, observed)
<1>1. Cardinality(B) = 1
    BY DEF Requirement
<1>2. M \subseteq DOMAIN observed /\ M \subseteq Nat /\ IsFiniteSet(M)
    BY SeqPlaces, FS_Subset DEF Matches
<1>3. IsFiniteSet(B)
    <2> DEFINE f == [i \in M |-> observed[i].base]
    <2>1. f \in Surjection(M, B)
        BY DEF Surjection, MatchedBases
    <2> HIDE DEF f, M, B
    <2> QED BY <1>2, <2>1, FS_Surjection
<1>4. PICK b : B = {b}
    BY <1>1, <1>3, OneElement
<1>5. \A i \in M : observed[i].base = b
    BY <1>4 DEF MatchedBases
<1>6. M # {}
    BY <1>4 DEF MatchedBases
<1>7. Bound(accepted, observed) \in M
    BY <1>2, <1>6, LeastOf DEF Bound
<1> QED BY <1>5, <1>7

LEMMA RequirementMatched ==
    ASSUME NEW observed, IsSeq(observed), NEW accepted, Matches(accepted, observed) # {}
    PROVE  Requirement(accepted, observed) \in {"Ready", "Unavailable"}
<1> DEFINE M == Matches(accepted, observed)
           B == MatchedBases(accepted, observed)
<1>1. IsFiniteSet(M)
    BY SeqPlaces, FS_Subset DEF Matches
<1>2. IsFiniteSet(B) /\ B # {}
    <2> DEFINE f == [i \in M |-> observed[i].base]
    <2>1. f \in Surjection(M, B)
        BY DEF Surjection, MatchedBases
    <2>2. B # {}
        BY DEF MatchedBases
    <2> HIDE DEF f, M, B
    <2> QED BY <1>1, <2>1, <2>2, FS_Surjection
<1>3. Cardinality(B) \in Nat /\ Cardinality(B) # 0
    BY <1>2, FS_EmptySet, FS_CardinalityType
<1>4. Cardinality(B) = 1 \/ Cardinality(B) > 1
    BY <1>3
<1> QED BY <1>4 DEF Requirement

LEMMA RequirementKinds ==
    ASSUME NEW observed, NEW accepted
    PROVE  Requirement(accepted, observed) \in {"Ready", "Waiting", "Unavailable"}
BY DEF Requirement

LEMMA VariantKinds ==
    ASSUME NEW p, NEW v, NEW observed
    PROVE  /\ Variant(p, v, observed) \in {"Ready", "Waiting", "Unavailable"}
           /\ Variant(p, v, observed) = "Ready" =>
                 \A l \in DOMAIN Variants[p][v].images : Requirement(Variants[p][v].images[l], observed) = "Ready"
           /\ (\A l \in DOMAIN Variants[p][v].images :
                  Requirement(Variants[p][v].images[l], observed) \in {"Ready", "Unavailable"})
                 => Variant(p, v, observed) # "Waiting"
<1> DEFINE labels == {Requirement(accepted, observed) : accepted \in Range(Variants[p][v].images)}
<1>1. \A l \in DOMAIN Variants[p][v].images : Requirement(Variants[p][v].images[l], observed) \in labels
    BY DEF Range
<1>2. \A r \in labels : \E l \in DOMAIN Variants[p][v].images : r = Requirement(Variants[p][v].images[l], observed)
    BY DEF Range
<1>3. labels \subseteq {"Ready", "Waiting", "Unavailable"}
    BY RequirementKinds
<1>4. Variant(p, v, observed) = IF "Unavailable" \in labels \/ ~VariantCanMatch(p, v) THEN "Unavailable"
                                ELSE IF "Waiting" \in labels THEN "Waiting" ELSE "Ready"
    BY DEF Variant
<1> HIDE DEF labels
<1> QED BY <1>1, <1>2, <1>3, <1>4

\* What refresh_selection() binds a patch to that is ready.
LEMMA ReadyBound ==
    ASSUME SelectionAssumption, NEW observed, IsSeq(observed), NEW p \in Records,
           EvaluatePatch(p, observed) = "Ready"
    PROVE  LET c == Selected(p, observed)
           IN  Bindings(p, c, observed) /\ OnlyModules(p, c, observed) /\ OnlyVariant(p, c, observed)
<1> DEFINE R == InState(p, "Ready", observed)
           w == CHOOSE v \in R : TRUE
           c == Selected(p, observed)
<1>1. Cardinality(R) = 1
    BY DEF EvaluatePatch
<1>2. IsFiniteSet(R)
    BY FS_Subset DEF InState, Applicable, SelectionAssumption
<1>3. R = {w} /\ w \in Applicable(p) /\ Variant(p, w, observed) = "Ready"
    <2>1. PICK x : R = {x}
        BY <1>1, <1>2, OneElement
    <2> QED BY <2>1 DEF InState
<1>4. c = [variant |-> w, images |-> [l \in DOMAIN Variants[p][w].images |-> Bound(Variants[p][w].images[l], observed)]]
    BY DEF Selected
<1> HIDE DEF R, w, c
<1>5. ASSUME NEW l \in DOMAIN Variants[p][w].images
      PROVE  /\ c.images[l] \in Matches(Variants[p][w].images[l], observed)
             /\ \A i \in Matches(Variants[p][w].images[l], observed) : observed[i].base = observed[c.images[l]].base
    <2>1. Requirement(Variants[p][w].images[l], observed) = "Ready"
        BY <1>3, VariantKinds
    <2>2. c.images[l] = Bound(Variants[p][w].images[l], observed)
        BY <1>4
    <2> QED BY <2>1, <2>2, RequirementReady
<1>6. c.variant = w /\ DOMAIN c.images = DOMAIN Variants[p][w].images
    BY <1>4
<1>7. Bindings(p, c, observed) /\ OnlyModules(p, c, observed)
    BY <1>3, <1>5, <1>6 DEF Bindings, OnlyModules, Matches
<1>8. ASSUME NEW v \in Applicable(p) \ {w}, Filled(p, v, observed)
      PROVE  Variant(p, v, observed) = "Unavailable"
    <2>1. Variant(p, v, observed) # "Ready"
        BY <1>3 DEF R, InState
    <2>2. \A l \in DOMAIN Variants[p][v].images : Matches(Variants[p][v].images[l], observed) # {}
        BY <1>8 DEF Filled, Matches
    <2>3. \A l \in DOMAIN Variants[p][v].images : Requirement(Variants[p][v].images[l], observed) \in {"Ready", "Unavailable"}
        BY <2>2, RequirementMatched
    <2> QED BY <2>1, <2>3, VariantKinds
<1>9. OnlyVariant(p, c, observed)
    BY <1>6, <1>8 DEF OnlyVariant
<1> QED BY <1>7, <1>9 DEF c

\* A new observation after the others, or in place of an absent one, leaves what was bound as it was.
LEMMA BindingsKept ==
    ASSUME SelectionAssumption, NEW p \in Records, NEW c, NEW observed, NEW later, Bindings(p, c, observed),
           DOMAIN observed \subseteq DOMAIN later,
           \A i \in DOMAIN observed : later[i] = observed[i] \/ observed[i].outcome = Absent
    PROVE  Bindings(p, c, later)
<1>1. c.variant \in DOMAIN Variants[p]
    BY DEF Bindings, Applicable
<1>2. \A l \in DOMAIN Variants[p][c.variant].images : Absent \notin Variants[p][c.variant].images[l]
    BY <1>1 DEF SelectionAssumption, Absent
<1> QED BY <1>2 DEF Bindings

LEMMA PlanningEnds ==
    ASSUME SelectionInv, controller.at # "Installing", NEW p \in Records
    PROVE  recordState[p] # "Planning"
BY DEF SelectionInv, PatchBound

\* refresh_selection(), on observations that keep what was bound.
LEMMA RefreshBinds ==
    ASSUME SelectionAssumption, NEW observed, IsSeq(observed), RefreshChoices(observed), images' = observed,
           controller'.at = "Installing",
           \A p \in Records : recordState[p] = "Installed" => Bindings(p, choice[p], observed)
    PROVE  \A p \in Records : PatchBound(p)'
<1> SUFFICES ASSUME NEW p \in Records PROVE PatchBound(p)'
    OBVIOUS
<1>1. CASE ~Refreshable(p)
    <2>1. recordState'[p] = recordState[p] /\ choice'[p] = choice[p] /\ recordState[p] \in {"Installed", "Failed"}
        BY <1>1 DEF RefreshChoices, Refreshable
    <2> QED BY <2>1 DEF PatchBound
<1>2. CASE Refreshable(p)
    <2>1. recordState'[p] = StateOf(p, observed) /\ choice'[p] = Selected(p, observed)
        BY <1>2 DEF RefreshChoices
    <2>2. CASE EvaluatePatch(p, observed) = "Ready"
        <3>1. LET c == Selected(p, observed)
              IN  Bindings(p, c, observed) /\ OnlyModules(p, c, observed) /\ OnlyVariant(p, c, observed)
            BY <2>2, ReadyBound
        <3> QED BY <2>1, <3>1 DEF PatchBound
    <2>3. CASE EvaluatePatch(p, observed) # "Ready"
        <3>1. StateOf(p, observed) \in {"Waiting", "Failed"}
            BY <2>3 DEF StateOf
        <3> QED BY <2>1, <3>1 DEF PatchBound
    <2> QED BY <2>2, <2>3
<1> QED BY <1>1, <1>2

-----------------------------------------------------------------------------
LEMMA SelectionStarts ==
    ASSUME SelectionAssumption, SelectionInit
    PROVE  SelectionInv
<1>1. PICK b \in Main : mapped = {[base |-> Executable.base, file |-> Executable.file, build |-> b]}
    BY DEF SelectionInit
<1>2. ModulesSound
    BY <1>1 DEF ModulesSound, Executable, SelectionAssumption
<1>3. images = <<>> /\ IsSeq(images)
    BY DEF SelectionInit, IsSeq
<1>4. \A p \in Records : recordState[p] \in {"Discovered", "Failed"}
    BY DEF SelectionInit
<1> QED BY <1>2, <1>3, <1>4 DEF SelectionInv, PatchBound

LEMMA LoadStep ==
    ASSUME SelectionAssumption, SelectionInv, MapModule
    PROVE  SelectionInv'
<1>1. PICK m \in Loads, base \in 1..MaxModules : mapped' = mapped \cup {[base |-> base, file |-> m.file, build |-> m.build]}
    BY DEF MapModule
<1>2. UNCHANGED <<pinned, images, controller, captured, recordState, choice>>
    BY DEF MapModule
<1>3. ModulesSound'
    BY <1>1 DEF SelectionInv, ModulesSound, SelectionAssumption, Executable
<1>4. \A i \in DOMAIN images : Kept(images[i], pinned)'
    BY <1>1, <1>2 DEF SelectionInv, Kept
<1> QED BY <1>2, <1>3, <1>4 DEF SelectionInv, PatchBound

LEMMA UnloadStep ==
    ASSUME SelectionAssumption, SelectionInv, UnmapModule
    PROVE  SelectionInv'
<1>1. PICK m \in mapped : m.base \notin pinned \cup {Executable.base} /\ mapped' = mapped \ {m}
    BY DEF UnmapModule
<1>2. UNCHANGED <<pinned, images, controller, captured, recordState, choice>>
    BY DEF UnmapModule
<1>3. ModulesSound'
    BY <1>1 DEF SelectionInv, ModulesSound
<1>4. \A i \in DOMAIN images : Kept(images[i], pinned)'
    BY <1>1, <1>2 DEF SelectionInv, Kept
<1> QED BY <1>2, <1>3, <1>4 DEF SelectionInv, PatchBound

\* What is observed and what was, after something was observed and held.
LEMMA ObservedKept ==
    ASSUME SelectionInv, UNCHANGED mapped, NEW o, Kept(o, pinned'), Pin(o), IsSeq(images'),
           \A i \in DOMAIN images' : images'[i] = o \/ (i \in DOMAIN images /\ images'[i] = images[i])
    PROVE  ModulesSound' /\ \A i \in DOMAIN images' : Kept(images[i], pinned)'
<1>1. pinned \subseteq pinned'
    BY PinKeeps
<1>2. ModulesSound'
    BY DEF SelectionInv, ModulesSound
<1>3. ASSUME NEW i \in DOMAIN images' PROVE Kept(images[i], pinned)'
    <2>1. CASE images'[i] = o
        BY <2>1 DEF Kept
    <2>2. CASE i \in DOMAIN images /\ images'[i] = images[i]
        <3>1. Kept(images[i], pinned)
            BY <2>2 DEF SelectionInv
        <3> QED BY <1>1, <2>2, <3>1 DEF Kept
    <2> QED BY <2>1, <2>2
<1> QED BY <1>2, <1>3

LEMMA ObserveStep ==
    ASSUME SelectionAssumption, SelectionInv, Observe
    PROVE  SelectionInv'
<1> DEFINE found == Probed(Head(controller.hints))
<1>1. /\ images' = Append(images, found) /\ Pin(found) /\ UNCHANGED <<mapped, captured, recordState, choice>>
      /\ controller.at = "Observing"
    BY DEF Observe
<1>2. Kept(found, pinned')
    BY <1>1, ProbedKept DEF SelectionInv
<1> HIDE DEF found
<1>3. /\ IsSeq(images') /\ DOMAIN images \subseteq DOMAIN images' /\ \A i \in DOMAIN images : images'[i] = images[i]
      /\ \A i \in DOMAIN images' : i \in DOMAIN images \/ images'[i] = found
    BY <1>1, Appends DEF SelectionInv
<1>4. ModulesSound' /\ \A i \in DOMAIN images' : Kept(images[i], pinned)'
    <2>1. \A i \in DOMAIN images' : images'[i] = found \/ (i \in DOMAIN images /\ images'[i] = images[i])
        BY <1>3
    <2> QED BY <1>1, <1>2, <1>3, <2>1, ObservedKept
<1>5. ASSUME NEW p \in Records PROVE PatchBound(p)'
    <2>1. recordState[p] # "Planning"
        BY <1>1, PlanningEnds
    <2>2. recordState[p] = "Installed" => Bindings(p, choice[p], images')
        BY <1>3, BindingsKept DEF SelectionInv, PatchBound
    <2> QED BY <1>1, <2>1, <2>2 DEF PatchBound
<1> QED BY <1>3, <1>4, <1>5 DEF SelectionInv

LEMMA ConfigureStep ==
    ASSUME SelectionAssumption, SelectionInv, Configure
    PROVE  SelectionInv'
<1>2. PICK main \in mapped : images' = Append(images, Inspected(main.file, main, TRUE))
    BY DEF Configure
<1> DEFINE o == Inspected(main.file, main, TRUE)
<1>1. /\ images' = Append(images, o) /\ Pin(Last(images')) /\ RefreshChoices(images')
      /\ UNCHANGED mapped /\ controller'.at = "Installing"
    BY <1>2 DEF Configure
<1>3. /\ IsSeq(images') /\ DOMAIN images \subseteq DOMAIN images' /\ \A i \in DOMAIN images : images'[i] = images[i]
      /\ \A i \in DOMAIN images' : i \in DOMAIN images \/ images'[i] = o
      /\ Last(images') = o
    <2> HIDE DEF o
    <2> QED BY <1>1, Appends DEF SelectionInv, Last
<1>4. Pin(o) /\ Kept(o, pinned')
    BY <1>1, <1>2, <1>3, InspectedKept DEF SelectionInv
<1> HIDE DEF o
<1>5. ModulesSound' /\ \A i \in DOMAIN images' : Kept(images[i], pinned)'
    <2>1. \A i \in DOMAIN images' : images'[i] = o \/ (i \in DOMAIN images /\ images'[i] = images[i])
        BY <1>3
    <2> QED BY <1>1, <1>3, <1>4, <2>1, ObservedKept
<1>6. \A p \in Records : recordState[p] = "Installed" => Bindings(p, choice[p], images')
    BY <1>3, BindingsKept DEF SelectionInv, PatchBound
<1>7. \A p \in Records : PatchBound(p)'
    BY <1>1, <1>3, <1>6, RefreshBinds
<1> QED BY <1>3, <1>5, <1>7 DEF SelectionInv

LEMMA ProbeStep ==
    ASSUME SelectionAssumption, SelectionInv, Probe
    PROVE  SelectionInv'
<1> DEFINE i == Min(NextRetry)
           found == Probed(images[i].file)
<1>1. /\ images' = [images EXCEPT ![i] = found] /\ Pin(found) /\ UNCHANGED <<mapped, captured, recordState, choice>>
      /\ controller.at = "Scanning" /\ NextRetry # {}
    BY DEF Probe
<1>2. Kept(found, pinned')
    BY <1>1, ProbedKept DEF SelectionInv
<1>3. i \in DOMAIN images /\ images[i].outcome = Absent
    <2>1. NextRetry \subseteq Nat
        BY SeqPlaces DEF NextRetry, SelectionInv
    <2>2. i \in NextRetry
        BY <1>1, <2>1, LeastOf
    <2> QED BY <2>2 DEF NextRetry, Retried
<1> HIDE DEF i, found
<1>4. DOMAIN images' = DOMAIN images /\ \A j \in DOMAIN images : images'[j] = IF j = i THEN found ELSE images[j]
    BY <1>1
<1>5. IsSeq(images')
    <2>1. PICK S : images \in Seq(S)
        BY DEF SelectionInv, IsSeq
    <2>2. images' \in Seq(S \cup {found})
        BY <1>1, <1>3, <2>1
    <2> QED BY <2>2 DEF IsSeq
<1>6. ModulesSound' /\ \A j \in DOMAIN images' : Kept(images[j], pinned)'
    <2>1. \A j \in DOMAIN images' : images'[j] = found \/ (j \in DOMAIN images /\ images'[j] = images[j])
        BY <1>4
    <2> QED BY <1>1, <1>2, <1>5, <2>1, ObservedKept
<1>7. ASSUME NEW p \in Records PROVE PatchBound(p)'
    <2>1. recordState[p] # "Planning"
        BY <1>1, PlanningEnds
    <2>2. recordState[p] = "Installed" => Bindings(p, choice[p], images')
        BY <1>3, <1>4, BindingsKept DEF SelectionInv, PatchBound
    <2> QED BY <1>1, <2>1, <2>2 DEF PatchBound
<1> QED BY <1>5, <1>6, <1>7 DEF SelectionInv

LEMMA InstallPatchesStep ==
    ASSUME SelectionInv, Install
    PROVE  SelectionInv'
<1>1. /\ UNCHANGED <<mapped, pinned, images, captured, choice>>
      /\ \E installed \in SUBSET {p \in Records : recordState[p] = "Planning"} :
            recordState' = [p \in Records |->
                IF recordState[p] # "Planning" THEN recordState[p] ELSE IF p \in installed THEN "Installed" ELSE "Failed"]
    BY DEF Install
<1>2. \A p \in Records : /\ recordState'[p] # "Planning"
                         /\ recordState'[p] = "Installed" => recordState[p] \in {"Planning", "Installed"}
    BY <1>1
<1>3. \A p \in Records : PatchBound(p)'
    BY <1>1, <1>2 DEF SelectionInv, PatchBound
<1>4. ModulesSound' /\ \A i \in DOMAIN images : Kept(images[i], pinned)'
    BY <1>1 DEF SelectionInv, ModulesSound, Kept
<1> QED BY <1>1, <1>3, <1>4 DEF SelectionInv

LEMMA EndScanStep ==
    ASSUME SelectionAssumption, SelectionInv, EndScan
    PROVE  SelectionInv'
<1>1. UNCHANGED <<mapped, pinned, images, captured>> /\ controller.at = "Scanning"
    BY DEF EndScan
<1>2. ModulesSound' /\ \A i \in DOMAIN images : Kept(images[i], pinned)'
    BY <1>1 DEF SelectionInv, ModulesSound, Kept
<1>3. CASE controller.changed
    <2>1. RefreshChoices(images) /\ controller'.at = "Installing"
        BY <1>3 DEF EndScan
    <2>2. \A p \in Records : PatchBound(p)'
        BY <1>1, <2>1, RefreshBinds DEF SelectionInv, PatchBound
    <2> QED BY <1>1, <1>2, <2>2 DEF SelectionInv
<1>4. CASE ~controller.changed
    <2>1. UNCHANGED <<recordState, choice>>
        BY <1>4 DEF EndScan
    <2>2. \A p \in Records : PatchBound(p)'
        BY <1>1, <2>1, PlanningEnds DEF SelectionInv, PatchBound
    <2> QED BY <1>1, <1>2, <2>2 DEF SelectionInv
<1> QED BY <1>3, <1>4

LEMMA QuietStep ==
    ASSUME SelectionInv, ProcessAwaited \/ UNCHANGED selectionVars
    PROVE  SelectionInv'
<1>1. UNCHANGED <<mapped, pinned, images, captured, recordState, choice>>
    BY DEF ProcessAwaited, selectionVars
<1>2. \A p \in Records : PatchBound(p)'
    <2>1. CASE UNCHANGED controller
        BY <1>1, <2>1 DEF SelectionInv, PatchBound
    <2>2. CASE ProcessAwaited
        <3>1. controller.at = "Idle"
            BY <2>2 DEF ProcessAwaited
        <3> QED BY <1>1, <3>1, PlanningEnds DEF SelectionInv, PatchBound
    <2> QED BY <2>1, <2>2 DEF selectionVars
<1> QED BY <1>1, <1>2 DEF SelectionInv, ModulesSound, Kept

(* For any catalog, patches and modules that come and go: what an installed *)
(* or planned patch was bound to stays mapped and is of the profile it was  *)
(* taken for, and a planned patch had no other meaning among the modules    *)
(* that were seen.                                                          *)
THEOREM ChoiceHolds == ASSUME SelectionAssumption PROVE SelectionSpec => []ChoiceSound
<1>1. SelectionInit => SelectionInv
    BY SelectionStarts
<1>2. SelectionInv /\ [SelectionNext]_selectionVars => SelectionInv'
    BY LoadStep, UnloadStep, ObserveStep, ConfigureStep, ProbeStep, InstallPatchesStep, EndScanStep, QuietStep
       DEF SelectionNext, SelectionControl
<1>3. SelectionInv => BoundStaysMapped
    <2> SUFFICES ASSUME SelectionInv, NEW p \in ActivePatches, NEW l \in DOMAIN choice[p].images
                 PROVE  LET bound == images[choice[p].images[l]]
                        IN  \E m \in mapped : /\ m.base = bound.base
                                              /\ Fits[m.build] = {bound.outcome}
                                              /\ bound.outcome \in Variants[p][choice[p].variant].images[l]
        BY DEF BoundStaysMapped
    <2>1. p \in Records /\ Bindings(p, choice[p], images)
        BY DEF ActivePatches, SelectionInv, PatchBound
    <2> DEFINE bound == images[choice[p].images[l]]
               v == choice[p].variant
    <2>2. v \in DOMAIN Variants[p] /\ l \in DOMAIN Variants[p][v].images /\ bound.outcome \in Variants[p][v].images[l]
          /\ choice[p].images[l] \in DOMAIN images
        BY <2>1 DEF Bindings, Applicable
    <2>3. bound.outcome \in Profiles
        BY <2>1, <2>2 DEF SelectionAssumption
    <2>4. Kept(bound, pinned)
        BY <2>2 DEF SelectionInv
    <2> QED BY <2>2, <2>3, <2>4 DEF Kept
<1>4. SelectionInv => ChoiceUnambiguous
    BY DEF SelectionInv, PatchBound, ChoiceUnambiguous, OnlyModules, OnlyVariant, Filled, Complete
<1> QED
    BY <1>1, <1>2, <1>3, <1>4, PTL DEF SelectionSpec, ChoiceSound
=============================================================================
