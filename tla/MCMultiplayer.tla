--------------------------- MODULE MCMultiplayer ---------------------------
(* Safety of the multiplayer services on larger instances than the runs of     *)
(* their liveness afford: Negotiation of one feature over two attempts and two *)
(* sessions; the message queues of a playing host with both roles of one       *)
(* feature in two registrations; lobby reads of two names that share one       *)
(* budget.  A behaviour is about one of the three.                             *)
EXTENDS Negotiation

VARIABLES
    focus,  \* "Exchanges", "Queues" or "Reads"
    \* the variables of MessageQueues
    selected, frozen, channel, host, local, hellos, incoming, outBytes, inBytes, pump, queueControl, told, sent,
    delivered, events,
    \* the variables of LobbyReads
    lobby, lastLobby, request, next, cache, order, group, used, reader, reading, state, outstanding, moves, reads

SplitObjects ==
    {[id |-> "chat", role |-> {"Client"}, callbacks |-> 1],
     [id |-> "chat", role |-> {"Host"}, callbacks |-> 2]}

Queues == INSTANCE MessageQueues WITH
    Objects <- SplitObjects, Mode <- "Host", Slots <- {1, 2}, LocalSlot <- 1, Batch <- 2, Results <- {"Accepted"},
    ManifestFits <- TRUE, Capacity <- 3, OutRecord <- 1, InRecord <- 1, Sizes <- {1}, HelloCharges <- {2},
    MaxPeers <- 3, MaxSends <- 1, MaxArrivals <- 2, MaxSessions <- 1, MaxFaults <- 0,
    conn <- channel, control <- queueControl, last <- told, count <- events

Reads == INSTANCE LobbyReads WITH
    Lobbies <- {1}, Names <- {"n1", "n2"}, Patches <- {"p1"}, Capacity <- 9, EntryCost <- 1, MaxPayload <- 2,
    GroupCost <- 1, RequestCost <- 1, Sizes <- {1, 2}, MaxRequests <- 2, MaxChanges <- 1, MaxReads <- 1,
    native <- lobby, last <- lastLobby, control <- reader, patch <- state, changes <- moves

ASSUME Reads!LobbyReadsAssumption

readsVars == <<lobby, lastLobby, request, next, cache, order, group, used, reader, reading, state, outstanding, moves,
               reads>>
queuesVars == <<selected, frozen, channel, host, local, hellos, incoming, outBytes, inBytes, pump, queueControl, told,
                sent, delivered, events>>
mcVars == <<focus, vars, readsVars, queuesVars>>

MCInit ==
    /\ focus \in {"Exchanges", "Queues", "Reads"}
    /\ Init /\ Reads!Init /\ Queues!Init
    /\ focus # "Reads" => lobby = CHOOSE s \in Reads!NativeStates : TRUE

\* The two processes together observe three attempts and start three games.
Within ==
    /\ count'.sessions["Host"] + count'.sessions["Client"] <= 3
    /\ peers'["Host"] + peers'["Client"] <= 3

MCNext ==
    /\ UNCHANGED focus
    /\ \/ focus = "Reads" /\ Reads!Next /\ UNCHANGED <<vars, queuesVars>>
       \/ focus = "Queues" /\ Queues!Next /\ UNCHANGED <<vars, readsVars>>
       \/ focus = "Exchanges" /\ Next /\ Within /\ UNCHANGED <<readsVars, queuesVars>>

MCSpec == MCInit /\ [][MCNext]_mcVars

-----------------------------------------------------------------------------

(* AgreementSound, ConfirmedByClient and OutcomeIsFinal are Negotiation's.      *)

(* Every message that arrived is given to the patch once and in order, unless  *)
(* its connection or its feature ends first; then it is not given, nor to      *)
(* another callback of the patch.                                              *)
InboxDelivers ==
    [][focus = "Queues" =>
          /\ Queues!Inbox!Next \/ Queues!Inbox!vars' = Queues!Inbox!vars
          /\ Queues!CallInTime]_mcVars

(* Both budgets of the message queues count exactly what is queued, retained   *)
(* or in a callback's hands, and never more than the limit; the budget that    *)
(* lobby reads share is what their entries, requests and groups hold,          *)
(* whichever of them ends first, and an entry's bytes stay as long as somebody *)
(* reads them.                                                                 *)
BudgetsAccounted ==
    /\ focus = "Queues" => Queues!TypeOK /\ Queues!BudgetsExact
    /\ focus = "Reads" => Reads!TypeOK /\ Reads!BudgetExact /\ Reads!ReadersExact
=============================================================================
