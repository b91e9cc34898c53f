--------------------------- MODULE MCFoundations ---------------------------
(* Safety of what the patches stand on; a behaviour is about one of six        *)
(* things.                                                                     *)
(*   Files         a client and a server process load one INI file             *)
(*   Hooks         three plans at two detours, entered by two threads          *)
(*   Edits         a plan of one or two edits, encoded and prepared            *)
(*   Dependencies  any dependencies among three patches                        *)
(*   Frame         one invocation of C++ from Lua                              *)
(*   Packet        one packet of Lua multiplayer: tables in tables, every kind *)
(*                 of key and value, strings and tables at the largest count,  *)
(*                 or a listener list                                          *)
EXTENDS Configuration, Dependencies

CONSTANTS V1, V2, client, server, core, chat, lua, t1, t2, d1, d2, d3

VARIABLES
    focus,
    \* the variables of NativeHooks
    memory, opened, foreign, plans, saved, exposed, site, lists, retained, current, control, calling, address,
    \* the variables of NativeEdits
    asked, step, place, fields, reservations, others, occupied, search,
    \* the variables of LuaFrame
    frame, stack, made, held, iterators, pending, returns, chosen, calls, result,
    \* the variables of LuaValues
    input, payload, packet, stage, read

hooksVars == <<memory, opened, foreign, plans, saved, exposed, site, lists, retained, current, control, calling, address>>
editVars == <<asked, step, place, fields, reservations, others, occupied, search>>
frameVars == <<frame, stack, made, held, iterators, pending, returns, chosen, calls, result>>
packetVars == <<input, payload, packet, stage, read>>
mcVars == <<focus, fileVars, hooksVars, editVars, traversalVars, frameVars, packetVars>>

-----------------------------------------------------------------------------
(* Configuration: a client and a server process of one installation load the   *)
(* INI file of a plugin with two variants that share a section and two keys,   *)
(* one of them with different defaults.                                        *)

TwoVariants ==
    V1 :> <<[section |-> "S", key |-> "a", default |-> "1"], [section |-> "S", key |-> "b", default |-> "1"]>> @@
    V2 :> <<[section |-> "S", key |-> "a", default |-> "2"], [section |-> "S", key |-> "b", default |-> "1"],
            [section |-> "T", key |-> "c", default |-> "1"]>>

TwoValid == V1 :> {"1", "3"} @@ V2 :> {"1", "2"}

ProcessSymmetry == Permutations(Processes)

SomeSessions == {{V1}, {V1, V2}}

Section(s) == Header(s, {})
Note(s) == [kind |-> "Note", section |-> s, key |-> "note", value |-> NoValue, by |-> {}]
Broken == [Note("S") EXCEPT !.kind = "Malformed"]
SetA(v) == Assignment("S", "a", v, {})

\* Empty and repeated sections with a key left unset, notes, and files a load rejects.
InitialFiles ==
    {<<Section("S"), Note("S"), Unset("S", "b", {}), Section("T"), Section("S"), SetA("3")>>,
     <<Section("S"), SetA("3"), Section("S"), SetA("1")>>, <<Section("S"), Broken>>}

InstalledInit ==
    /\ ConfigurationInit
    /\ file \in {NoFile} \cup {[exists |-> TRUE, lines |-> l, writer |-> NoProcess] : l \in InitialFiles}
    /\ user = [lines |-> file.lines, in |-> "File"]

\* Bounds of this run: ReplaceFile loses a file before the user edits it, one that has lines of the
\* user, and a behaviour ends when their last copy is deleted.
LossWithin == user.in # "Gone" /\ (user'.in # "File" => user.lines # <<>> /\ edits = 0)

-----------------------------------------------------------------------------
(* NativeHooks.                                                                *)

Names == chat :> 0 @@ core :> 1 @@ lua :> 2

Request(kind, begin, end, evidence) ==
    [kind |-> kind, begin |-> begin, end |-> end, evidence |-> evidence, code |-> FALSE,
     scope |-> "Function", layout |-> 0, modifier |-> FALSE, size |-> 0, alignment |-> 1]

Hook(scope, begin, end, evidence) ==
    [Request("Hook", begin, end, evidence) EXCEPT !.code = TRUE, !.scope = scope, !.layout = 1]

Observer(scope, begin, end, size, alignment) ==
    [Hook(scope, begin, end, begin) EXCEPT !.size = size, !.alignment = alignment]

Modifier(scope, begin, end, evidence) ==
    [Hook(scope, begin, end, evidence) EXCEPT !.modifier = TRUE]

(* core writes twice, and observes and calls a function; chat modifies a   *)
(* CALL and the function, with no room for its state beside that of core;  *)
(* lua observes and modifies the function, which excludes chat.            *)
Requested ==
    core :> <<Observer("Function", 0, 2, 5, 1), Request("Write", 3, 4, 4),
              [Request("Callable", 0, 1, 1) EXCEPT !.layout = 1], Request("Write", 4, 5, 3)>>
    @@ chat :> <<Modifier("Call", 2, 3, 3),
                 [Modifier("Function", 0, 2, 2) EXCEPT !.size = 4, !.alignment = 4]>>
    @@ lua :> <<Observer("Function", 0, 2, 2, 2), Modifier("Function", 0, 2, 0)>>

Hooks == INSTANCE NativeHooks WITH
    Plans <- {core, chat, lua}, Rank <- Names, Operations <- Requested, Size <- 5, MaxState <- 8,
    Threads <- {t1, t2}, MaxActive <- 2, MaxForeign <- 1,
    state <- plans, stack <- calling

ASSUME Hooks!HooksAssumption /\ Hooks!NativeAssumption

-----------------------------------------------------------------------------
(* NativeEdits.                                                                *)

Asked == INSTANCE MCNativeEdits

Edits == INSTANCE NativeEdits WITH
    Machines <- Asked!MCMachines, AddressBits <- Asked!MCAddressBits, RelBits <- 4, ValueBits <- 6,
    Granularity <- 4, Lowest <- Asked!MCLowest, Highest <- Asked!MCHighest, Image <- Asked!MCImage,
    RelaySize <- 2, Requests <- Asked!MCRequests, MaxOccupied <- 1

ASSUME Edits!EditsAssumption

NoEdits == asked = Asked!NothingAsked

-----------------------------------------------------------------------------
(* Dependencies.                                                               *)

Kinds == <<"Disabled", "Waiting", "Planning", "Installed", "Failed">>
AnyKinds == Range(Kinds)

\* The three are alike but for their states: any states, in one order.
AnyStates ==
    \E i, j, k \in DOMAIN Kinds : i <= j /\ j <= k /\ selected = d1 :> Kinds[i] @@ d2 :> Kinds[j] @@ d3 :> Kinds[k]

NoDependencies == selected = [p \in Patches |-> "Disabled"] /\ providers = [p \in Patches |-> {}]

-----------------------------------------------------------------------------
(* LuaFrame and LuaValues.                                                     *)

Value(tag, cells, pairs, metatable) == [tag |-> tag, cells |-> cells, pairs |-> pairs, metatable |-> metatable]
Nil == Value(0, << >>, {}, FALSE)
Table(pairs) == Value(5, << >>, pairs, FALSE)
Number(n) == Value(3, <<n>>, {}, FALSE)
String(cells) == Value(4, cells, {}, FALSE)
True == Value(2, << >>, {}, FALSE)
Function == Value(6, << >>, {}, FALSE)
Entry(k, v) == [key |-> k, value |-> v]
Nested == Table({Entry(Number(5), Table({}))})

Scalars == {Nil, True, Number(5), Number(9), String(<<7, 7>>), String(<<7, 7, 7>>), Function}
Unsupported == {Value(5, << >>, {}, TRUE), Table({Entry(Table({}), True)}), Table({Entry(True, Function)})}
Keys == {True, Number(5), String(<< >>)}
Items == {True, Number(9), String(<<7>>), Table({}), Nested}

MCLuaValueSet ==
    Scalars \cup Unsupported
    \cup {Table({Entry(k, f[k]) : k \in DOMAIN f}) : f \in UNION {[K -> Items] : K \in SUBSET Keys}}

Listener(r, c) == [registration |-> r, channel |-> c]
MCListenerSet ==
    {<< >>, <<Listener(1, <<7>>)>>, <<Listener(1, <<7>>), Listener(2, <<6, 7>>)>>, <<Listener(1, <<7, 7, 7>>)>>,
     <<Listener(1, <<5>>), Listener(2, <<6>>), Listener(3, <<7>>)>>}

Frames == INSTANCE LuaFrame WITH
    MaxValues <- 4, MaxIterators <- 2, MaxCalls <- 1, MaxDepth <- 4, selected <- chosen

Packets == INSTANCE LuaValues WITH
    TableDepth <- 2, CellMax <- 2, MaxPayload <- 12, LuaValueSet <- MCLuaValueSet, ListenerSet <- MCListenerSet,
    CellSet <- {0, 1, 2, 3, 4, 5, 6, 8}

ASSUME Frames!FrameAssumption /\ Packets!ValuesAssumption

NoFrame ==
    /\ frame = [binding |-> FALSE, wraps |-> FALSE, entry |-> 0]
    /\ stack = << >> /\ made = 0 /\ held = << >>

NoPacket == input = [list |-> TRUE, value |-> Nil, listeners |-> << >>] /\ payload = 0

-----------------------------------------------------------------------------

\* What is not in focus rests in one of its initial states.
FoundationsInit ==
    /\ focus \in {"Files", "Hooks", "Edits", "Dependencies", "Frame", "Packet"}
    /\ IF focus = "Files" THEN TRUE ELSE file = NoFile
    /\ IF focus = "Edits" THEN TRUE ELSE NoEdits
    /\ IF focus = "Dependencies" THEN AnyStates ELSE NoDependencies
    /\ IF focus = "Frame" THEN TRUE ELSE NoFrame
    /\ IF focus = "Packet" THEN TRUE ELSE NoPacket
    /\ InstalledInit /\ Hooks!Init /\ Edits!EditsInit /\ TraversalInit /\ Frames!FrameInit /\ Packets!PacketInit

OfFiles(A) == focus = "Files" /\ A /\ UNCHANGED <<focus, hooksVars, editVars, traversalVars, frameVars, packetVars>>
OfHooks(A) == focus = "Hooks" /\ A /\ UNCHANGED <<focus, fileVars, editVars, traversalVars, frameVars, packetVars>>
OfEdits(A) == focus = "Edits" /\ A /\ UNCHANGED <<focus, fileVars, hooksVars, traversalVars, frameVars, packetVars>>
OfOrder(A) == focus = "Dependencies" /\ A /\ UNCHANGED <<focus, fileVars, hooksVars, editVars, frameVars, packetVars>>
OfFrame(A) == focus = "Frame" /\ A /\ UNCHANGED <<focus, fileVars, hooksVars, editVars, traversalVars, packetVars>>
OfPacket(A) == focus = "Packet" /\ A /\ UNCHANGED <<focus, fileVars, hooksVars, editVars, traversalVars, frameVars>>

FoundationsNext ==
    \/ OfFiles(ConfigurationNext /\ LossWithin) \/ OfHooks(Hooks!Next) \/ OfEdits(Edits!EditsNext)
    \/ OfOrder(TraversalNext) \/ OfFrame(Frames!FrameNext) \/ OfPacket(Packets!PacketNext)

FoundationsSpec == FoundationsInit /\ [][FoundationsNext]_mcVars

-----------------------------------------------------------------------------

(* Every line the user wrote stays in the file, whatever loads, fails, races   *)
(* or dies, or in the staged copy while that is all ReplaceFile has left.      *)
FileKept == focus = "Files" => InputKept

(* A failed update preserves usable existing input and removes only output it  *)
(* created itself (storage.cpp:184): the lines the user wrote are not deleted. *)
UpdatesPreserveInput == focus = "Files" => InputPreserved

(* A complete update leaves nothing to add, and a setting nobody assigned has  *)
(* the default of its own variant.                                             *)
DefaultsCaptured == focus = "Files" => UpdateComplete /\ DefaultsKept

(* However lists are replaced and invocations nest, an invocation runs one     *)
(* list; a rejected plan has changed nothing; participants agree.              *)
HooksSound == focus = "Hooks" => Hooks!TypeOK /\ Hooks!InvocationsWhole /\ Hooks!RejectedUnchanged /\ Hooks!ListsSound

(* A list that replaces another has all its participants, in their order.      *)
ParticipantsKept == [][focus = "Hooks" => Hooks!ListsGrow]_mcVars

(* A prepared plan writes what its author meant, at the ends of every range    *)
(* and wherever its storage is; it is refused only if that cannot be.          *)
EditsSound == focus = "Edits" => Edits!EditsRight

(* Lua's values keep their meaning on both ways out of the VM: a view a        *)
(* callback may use stands for the value it was given, whatever fails or       *)
(* nests, and Lua takes the results selected last; exactly what fits a packet  *)
(* is sent and read back as it was, and a packet made otherwise is read only   *)
(* if it is the encoding of what is read.                                      *)
ValuesFaithful ==
    /\ focus = "Frame" => Frames!ViewsFaithful
    /\ focus = "Packet" => Packets!SentIsRead /\ Packets!OnlyEncodingsRead
=============================================================================
