SPECIFICATION MCFairSpec
CONSTANTS
    core = core
    chat = chat
    lua = lua
    hud = hud
    old = old
    observer = observer
    peer = peer
    dll = dll
    Patches = {core, chat, lua, hud, old}
    Observers = {observer}
    Images = {peer, dll}
    Rank <- Names
    Needs <- ImageNeeds
    DependsOn <- TreeDepends
    ReadyDependsOn <- TreeReadyDepends
    Unresolved = {old}
    Overlaps <- SomeOverlaps
    FatalPatches = {lua}
    FatalVariants = {hud}
    Interests <- SomeInterests
    Controls <- SomeControls
    Paths <- ThreePaths
    Embedded <- CoreOnly
    Directories <- ThreeOrOne
    Profiles <- FourProfiles
    Filenames <- ProfileFiles
    Executables = {"game.exe"}
    Builds <- SixBuilds
    Fits <- BuildFits
    Records = {"any", "each", "both", "steam"}
    Variants <- FourPatches
    Role = "Client"
    Main <- TwoMains
    Loads <- SomeLoads
    MaxModules = 2
    t1 = t1
    t2 = t2
    worker = worker
    adjacent = adjacent
    inRcon = inRcon
    Threads = {t1, t2, worker}
    Worker = worker
    Copies = {adjacent, inRcon}
    Adjacent = adjacent
    EmbeddedCopy = inRcon
    GalaxyImages = {"Galaxy", "GalaxyPeer"}
INVARIANTS LifecycleSound ChoiceSound PluginsAccounted StartupSound ProxyRetired
PROPERTIES SubscriptionsAnswered WaitingEndsBoth StartupSettles
CHECK_DEADLOCK FALSE
