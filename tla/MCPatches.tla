----------------------------- MODULE MCPatches -----------------------------
(* From the start of a process to running patches: loaders and copies of the  *)
(* runtime that start; the plugins of a directory and what they declare; the   *)
(* choice of variants for the Classic game beside two builds of one peer DLL,  *)
(* on the executable of either of two builds; and the life of four patches, an *)
(* observer and a reference to a patch that does not exist.                    *)
(* A behaviour is about one of the four.                                       *)
EXTENDS PatchLifecycle, Plugins, Selection, Loaders

CONSTANTS core, chat, lua, hud, old, observer, peer, dll, t1, t2, worker, adjacent, inRcon

VARIABLE focus  \* "Startup", "Plugins", "Selection" or "Lifecycle"

-----------------------------------------------------------------------------
(* Plugins: one plugin with every combination of sections, keys and            *)
(* memberships and of what an image or a reference may have wrong; and three   *)
(* plugins that may share identifiers with one another or with the embedded    *)
(* one.                                                                        *)

Setting(section, key) == [section |-> section, key |-> key]
Image(label, selectors) == [label |-> label, selectors |-> selectors]
Game == Image("game", <<<<"c", "*">>, <<"*">>>>)
VariantWith(declared) == [settings |-> declared, images |-> <<Game>>, dependsOn |-> << >>]
Patch(id, category, configurable, variants) ==
    [id |-> id, category |-> category, configurable |-> configurable, dependsOn |-> <<<<"B">>, <<"Q", "B">>>>,
     variants |-> variants]
Group(id, category, configurable, members) ==
    [id |-> id, category |-> category, configurable |-> configurable, members |-> members]
Definition(id, categories, patches, groups) ==
    [wellFormed |-> TRUE, id |-> id, categories |-> categories, patches |-> patches, groups |-> groups]

Sections == {<<"A">>, <<"B">>, <<"A", "S">>}
CategoryLists == {<< >>, <<<<"B">>, <<"A", "S">>>>, <<<<"B">>, <<"B">>>>} \cup {<<s>> : s \in Sections}
Assigned == {<< >>, <<"B">>, <<"A", "S">>}
SettingLists ==
    {<< >>, <<Setting("", "Enabled")>>, <<Setting("", "B"), Setting("S", "Enabled")>>, <<Setting("S", "B")>>,
     <<Setting("S", "A"), Setting("S", "A")>>}

PatchA(category, configurable, declared) ==
    Patch("A", category, configurable, <<VariantWith(declared), VariantWith(<<Setting("", "B")>>)>>)
PatchLists ==
    LET first == {PatchA(c, b, s) : c \in Assigned, b \in BOOLEAN, s \in SettingLists}
        second == {Patch("B", c, b, <<VariantWith(<<Setting("", "Enabled")>>)>>) : c \in {<< >>, <<"A", "S">>}, b \in BOOLEAN}
    IN {<<p>> : p \in first} \cup {<<p, q>> : p \in first, q \in second \cup {PatchA(<< >>, FALSE, << >>)}}
GroupLists ==
    {<< >>} \cup {<<Group(i, c, TRUE, <<"A">>)>> : i \in {"A", "B", "G"}, c \in Assigned}
    \cup {<<Group("G", << >>, b, <<"A">>), Group("B", << >>, TRUE, m)>> : b \in BOOLEAN, m \in {<<"A">>, <<"B">>, <<"B", "B">>, << >>}}

One(required, dependsOn) ==
    Definition("P", << >>, <<Patch("A", << >>, TRUE, <<[settings |-> << >>, images |-> required, dependsOn |-> dependsOn]>>)>>, << >>)
ImageFaults ==
    {One(required, << >>) : required \in {<< >>, <<Game, Game>>, <<Image("game", << >>)>>, <<Image("game", <<<< >>>>)>>,
                                        <<Image("game", <<<<"*", "*">>>>)>>, <<Image("game", <<<<"*", "c">>>>)>>}}
    \cup {One(<<Game>>, <<r>>) : r \in {<<"">>, <<"P", "">>, <<"", "A">>, <<"P", "A", "B">>, <<"P", "A">>}}

Wide == {Definition("P", c, p, g) : c \in CategoryLists, p \in PatchLists, g \in GroupLists} \cup ImageFaults

Plain(id) == Definition(id, << >>, <<Patch("A", << >>, TRUE, <<VariantWith(<< >>)>>)>>, << >>)
Broken(id) == [Plain(id) EXCEPT !.wellFormed = FALSE]
EmbeddedPlugin == Plain("Core")

Narrow == {NoLibrary, NoEntry, Refuses, Plain("P"), Plain("Q"), Plain("Core"), Broken("P"), Broken("Core"),
           Definition("Q", <<<<"A">>>>, <<PatchA(<< >>, FALSE, << >>)>>, << >>)}

CoreOnly == {<<EmbeddedPlugin>>}
ThreePaths == 1..3

ThreeOrOne ==
    [ThreePaths -> Narrow] \cup {(1 :> wide) @@ [p \in ThreePaths |-> NoLibrary] : wide \in Wide}

-----------------------------------------------------------------------------
(* PatchLifecycle.  "old" refers to a patch that does not exist.               *)

Names == core :> 1 @@ chat :> 4 @@ lua :> 3 @@ hud :> 2 @@ old :> 5 @@ observer :> 0

ImageNeeds ==
    core :> {} @@ chat :> {dll} @@ lua :> {peer} @@ hud :> {} @@ old :> {} @@ observer :> {peer}

ByPatch(forCore, forChat, forLua, forHud) ==
    core :> forCore @@ chat :> forChat @@ lua :> forLua @@ hud :> forHud @@ old :> {}

\* hud needs lua and lua needs core; so does chat once its image is known.
TreeDepends == ByPatch({}, {}, {core}, {lua})
TreeReadyDepends == ByPatch({}, {core}, {}, {})

Overlap(p, q) == {<<p, q>>, <<q, p>>}
SomeOverlaps == Overlap(lua, chat) \cup Overlap(observer, core)

SomeInterests == ByPatch({chat}, {core, lua}, {}, {})

SomeControls ==
    [ByPatch({"Enabled", "Broken"}, {"Enabled", "Disabled", "BrokenMandatory"},
             {"Enabled"}, {"Enabled"}) EXCEPT ![old] = {"Enabled"}]

-----------------------------------------------------------------------------
(* Selection.                                                                  *)

ProfileFiles ==
    "Classic" :> {"game.dll", "game.original.dll"} @@ "Peer17" :> {"peer.dll"} @@ "Peer18" :> {"peer.dll"}
    @@ "Steam" :> {"game.exe"}

BuildFits ==
    "Classic" :> {"Classic"} @@ "Peer17" :> {"Peer17"} @@ "Peer18" :> {"Peer18"} @@ "Steam" :> {"Steam"}
    @@ "Proxy" :> {} @@ "Both" :> {"Peer17", "Peer18"}

For(roles, labels) == [roles |-> roles, images |-> labels]

\* One variant of any peer; one per peer build; a pair that hints show to overlap; one on the executable.
FourPatches ==
    "any" :> <<For({"Client", "Server"}, <<{"Peer17", "Peer18"}>>)>>
    @@ "each" :> <<For({"Client"}, <<{"Classic"}, {"Peer17"}>>), For({"Client"}, <<{"Peer18"}>>),
                   For({"Server"}, <<{"Classic"}>>)>>
    @@ "both" :> <<For({"Client"}, <<{"Classic"}>>), For({"Client"}, <<{"Peer18"}>>)>>
    @@ "steam" :> <<For({"Client"}, <<{"Steam"}, {"Classic"}>>)>>

SomeLoads ==
    {[file |-> "game.dll", build |-> "Proxy"], [file |-> "game.dll", build |-> "Classic"],
     [file |-> "game.original.dll", build |-> "Classic"],
     [file |-> "peer.dll", build |-> "Peer17"], [file |-> "peer.dll", build |-> "Peer18"],
     [file |-> "peer.dll", build |-> "Both"]}

FourProfiles == {"Classic", "Peer17", "Peer18", "Steam"}
SixBuilds == FourProfiles \cup {"Proxy", "Both"}
TwoMains == {"Steam", "Proxy"}

ASSUME SelectionAssumption

-----------------------------------------------------------------------------
(* Loaders: two game threads, two copies of the runtime and the worker of      *)
(* RconServer.dll.                                                             *)

\* No proxy, a complete one, one without secondary exports, and ones load_optional_chain refuses.
FoundProxies ==
    {[files |-> "None", same |-> FALSE, loads |-> FALSE, create |-> "Missing", other |-> "Missing"],
     [files |-> "One", same |-> FALSE, loads |-> TRUE, create |-> "Own", other |-> "Own"],
     [files |-> "One", same |-> FALSE, loads |-> TRUE, create |-> "Own", other |-> "Missing"],
     [files |-> "One", same |-> FALSE, loads |-> TRUE, create |-> "Own", other |-> "Back"],
     [files |-> "One", same |-> FALSE, loads |-> TRUE, create |-> "Back", other |-> "Own"],
     [files |-> "One", same |-> TRUE, loads |-> TRUE, create |-> "Own", other |-> "Own"],
     [files |-> "Several", same |-> FALSE, loads |-> TRUE, create |-> "Own", other |-> "Own"]}

\* The sets of loaders one process has.
Processes == {{"DInput8"}, {"Classic"}, {"Classic", "Dedicated"}, {"Dedicated", "Host"}, {"DInput8", "Host"}}

\* Each initial state is one set of loaders with one kind of optional DirectInput proxy.
SomeProcess ==
    /\ loaders \in Processes
    /\ candidate \in FoundProxies
    /\ "DInput8" \notin loaders => candidate.files = "None"
    /\ loaders = {"DInput8", "Host"} => candidate.files = "None" \/ (Accepts(candidate) /\ candidate.other = "Own")

\* Galaxy DLLs load only in the process with a single way to start.
GalaxyAlone == dlls' # dlls => loaders = {"Classic"}

-----------------------------------------------------------------------------

mcVars == <<focus, vars, pluginVars, selectionVars, startupVars>>

\* Those that are not in focus rest in one of their initial states.
NoPlugins == supplied = [files |-> [p \in Paths |-> NoLibrary], embedded |-> <<EmbeddedPlugin>>]
NoModules == mapped = {[base |-> Executable.base, file |-> Executable.file, build |-> "Proxy"]}
NoProcess == loaders = {"Classic"} /\ candidate = CHOOSE c \in FoundProxies : c.files = "None"
NoPatches ==
    /\ loaded = [i \in Images |-> "Absent"]
    /\ settings = CHOOSE s \in [Patches -> UNION {Controls[p] : p \in Patches}] : \A p \in Patches : s[p] \in Controls[p]

MCInit ==
    /\ focus \in {"Startup", "Plugins", "Selection", "Lifecycle"}
    /\ IF focus = "Startup" THEN SomeProcess ELSE NoProcess
    /\ IF focus = "Plugins" THEN TRUE ELSE NoPlugins
    /\ IF focus = "Selection" THEN TRUE ELSE NoModules
    \* Of the two images one may have been refused before the start, either later.
    /\ IF focus = "Lifecycle" THEN loaded \in {l \in [Images -> Outcomes] : l[peer] # "Rejected"} ELSE NoPatches
    /\ Init /\ SelectionInit /\ PluginsInit /\ StartupInit

OfLifecycle(A) == focus = "Lifecycle" /\ A /\ UNCHANGED <<focus, pluginVars, selectionVars, startupVars>>
OfSelection(A) == focus = "Selection" /\ A /\ UNCHANGED <<focus, vars, pluginVars, startupVars>>
OfPlugins(A) == focus = "Plugins" /\ A /\ UNCHANGED <<focus, vars, selectionVars, startupVars>>
OfStartup(A) == focus = "Startup" /\ A /\ UNCHANGED <<focus, vars, pluginVars, selectionVars>>

\* Beside an executable that is not recognised, one module is mapped at a time.
Sparse == (\E m \in mapped : m.base = Executable.base /\ Recognised(m) = Failed) => Cardinality(mapped') <= 2

MCNext ==
    \/ OfLifecycle(Next)
    \/ OfSelection(SelectionNext /\ Sparse)
    \/ OfPlugins(PluginsNext)
    \/ OfStartup(StartupNext /\ GalaxyAlone)

\* The control thread runs; in a process that starts, StartupFairness.
MCFairSpec ==
    /\ MCInit /\ [][MCNext]_mcVars
    /\ WF_mcVars(OfLifecycle(Control))
    /\ WF_mcVars(OfSelection(SelectionControl))
    /\ \A c \in Copies : WF_mcVars(OfStartup(Runs(ControlStep(c) /\ UNCHANGED loaderVars)))
    /\ \A t \in Threads : WF_mcVars(OfStartup(Runs(Answer(t) /\ UNCHANGED loaderVars)))
    /\ \A t \in Threads : WF_mcVars(OfStartup(Runs(LoaderStep(t))))
    /\ WF_mcVars(OfStartup(Runs(Bootstrap \/ FinishBootstrap)))

-----------------------------------------------------------------------------

(* LifecycleSound and SubscriptionsAnswered are PatchLifecycle's, ChoiceSound  *)
(* is that of Selection, PluginsAccounted that of Plugins, StartupSound and    *)
(* ProxyRetired are Loaders': outside its focus each looks at an initial       *)
(* state.                                                                      *)

(* Whoever waits for startup is answered, once and for good, and Galaxy DLLs   *)
(* that come after it are still recognized.                                    *)
StartupSettles == ResultFinal /\ (focus = "Startup" => StartAnswered /\ GalaxyResolves)

(* Nothing waits for long once no image can still come: not for an image, and  *)
(* not for what another look at the absent names would decide.                 *)
WaitingEndsBoth ==
    /\ focus = "Lifecycle" => WaitingEnds
    /\ focus = "Selection" => WaitingIsAnswered

-----------------------------------------------------------------------------

(* The settings of a selected variant were captured at startup, as          *)
(* patch_record.cpp:133 says and patch_record.cpp:207 asserts.              *)
SettingsKept == focus = "Selection" => SettingsCaptured
=============================================================================
