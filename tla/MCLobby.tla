------------------------------ MODULE MCLobby ------------------------------
(* The lobby service: LobbyItems of two patches with one item each and values  *)
(* of one and three units, and LobbyReads of one name in two lobbies with room for *)
(* one request at a time, or for one that evicts what the other left.          *)
(* A behaviour is about one of the two.                                        *)
EXTENDS LobbyItems, TLC

CONSTANTS i1, i2, p1, p2, short, long

VARIABLES
    focus,  \* "Items" or "Reads"
    \* the variables of LobbyReads
    lobby, lastLobby, request, next, cache, order, group, usedByReads, reader, reading, state, outstanding, moves, reads

TwoOwners == (i1 :> p1) @@ (i2 :> p2)
SizeOfValues == [v \in Values |-> IF v = short THEN 1 ELSE 3]

Reads == INSTANCE LobbyReads WITH
    Lobbies <- {1, 2}, Names <- {"n1"}, Patches <- {"p1"}, Capacity <- 5, EntryCost <- 1, MaxPayload <- 1,
    GroupCost <- 1, RequestCost <- 1, Sizes <- {1}, MaxRequests <- 2, MaxChanges <- 2, MaxReads <- 1,
    native <- lobby, last <- lastLobby, used <- usedByReads, control <- reader, patch <- state, changes <- moves

ASSUME Reads!LobbyReadsAssumption

readsVars == <<lobby, lastLobby, request, next, cache, order, group, usedByReads, reader, reading, state, outstanding,
               moves, reads>>
mcVars == <<focus, vars, readsVars>>

MCInit ==
    /\ focus \in {"Items", "Reads"}
    /\ Init /\ Reads!Init
    \* In the first lobby, or in none.
    /\ focus = "Reads" => lobby \in {[available |-> TRUE, lobby |-> 1], [available |-> FALSE, lobby |-> 0]}
    /\ focus = "Items" => lobby = CHOOSE s \in Reads!NativeStates : TRUE
    /\ focus = "Reads" => native = CHOOSE s \in NativeStates : s.owned = 0

OfItems(A) == focus = "Items" /\ A /\ UNCHANGED <<focus, readsVars>>
OfReads(A) == focus = "Reads" /\ A /\ UNCHANGED <<focus, vars>>

\* Lobbies are left once somebody has asked, and the cache is read before that;
\* nobody looks at the lobby of a process that is not available (Seen).
UsefulRead ==
    /\ moves' # moves => next > 1
    /\ reads' # reads => moves = 0
    /\ lobby'.available \/ lobby'.lobby = 0

MCNext == OfItems(Next) \/ OfReads(Reads!Next /\ UsefulRead)

MCFairSpec ==
    /\ MCInit /\ [][MCNext]_mcVars
    /\ WF_mcVars(OfItems(Pump))
    /\ \A p \in Patches : WF_mcVars(OfItems(Ends(p)))
    /\ \A i \in Items : WF_mcVars(OfItems(SecondPasses(i)))
    /\ WF_mcVars(OfReads(Reads!Pass))
    /\ \A l \in {1, 2} : WF_mcVars(OfReads(Reads!Complete(l)))

-----------------------------------------------------------------------------

(* No request is answered from a native request older than the last loss of    *)
(* access or association that the control thread noticed; a lobby has at most  *)
(* one native request outstanding, kept by the group that submitted it; the    *)
(* budget is the sum of what is kept, and an entry is kept exactly while       *)
(* somebody reads it or room allows, whatever is evicted, refused or cancelled. *)
ReadsSound ==
    focus = "Reads" =>
        Reads!TypeOK /\ Reads!NeverStale /\ Reads!OneOutstanding /\ Reads!BudgetExact /\ Reads!ReadersExact

(* Every accepted request is delivered, cancelled or dropped with its patch;   *)
(* an owned lobby comes to hold what the installed patches want there.         *)
LobbySettles ==
    /\ focus = "Reads" => Reads!RefreshAnswered
    /\ focus = "Items" => PublicationSettles
=============================================================================
