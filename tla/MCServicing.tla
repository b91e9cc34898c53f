----------------------------- MODULE MCServicing -----------------------------
(* What servicing passes bring about, on three instances at once: the message  *)
(* queues of a client with two features, and two of Negotiation.  In one of    *)
(* those another thread may read frames while a frame is submitted, lists may  *)
(* be too long and the network may fail; in the other features fail on a       *)
(* network without faults that one servicing pass reads.                       *)
(* A behaviour is about one of the three; MCMultiplayer has larger instances   *)
(* of both modules for safety.                                                 *)
EXTENDS MessageQueues

CONSTANTS f1, f2, f3, NoFeature

VARIABLES
    focus,  \* "Attempts", "Failures" or "Queues"
    \* the variables of Negotiation
    session, manifest, native, connection, hello, pass, wire, offer, peers, events

Exchange == INSTANCE Negotiation WITH
    Features <- {f1, f2, f3}, MaxManifest <- 2, ReceiveDuringSubmit <- TRUE,
    MaxPeers <- 1, MaxTokens <- 1, MaxSessions <- 1, MaxWire <- 2, MaxFaults <- 1, MaxFails <- 2,
    conn <- connection, count <- events

exchangeVars == <<session, manifest, native, connection, hello, pass, wire, offer, peers, events>>
mcVars == <<focus, vars, exchangeVars>>

-----------------------------------------------------------------------------

\* The features of the queues' client.
ClientObjects ==
    {[id |-> "chat", role |-> {"Client"}, callbacks |-> 1],
     [id |-> "score", role |-> {"Client"}, callbacks |-> 1]}

\* Three features do not fit one frame; what fails is one of two.
Lists == [Attempts |-> {{}, {f1}, {f1, f2, f3}}, Failures |-> {{f1, f2}}]

\* Whether a thread reads p's channel while p's pass submits.
Overlaps(p) == pass[p].at = "Submitting" /\ pass'[p] = pass[p] /\ Len(wire'[p]) < Len(wire[p])

Allowed ==
    /\ \A p \in Exchange!Procs : session'[p] => manifest'[p] \in Lists[focus]
    /\ focus = "Attempts" => \A p \in Exchange!Procs : events'.fails[p] = 0
    /\ focus = "Failures" => /\ \A p \in Exchange!Procs : ~Overlaps(p)
                             /\ events'.faults + events'.retries = 0
                             /\ events'.fails["Host"] + events'.fails["Client"] <= 2

OfExchange(A) == focus \in DOMAIN Lists /\ A /\ Allowed /\ UNCHANGED <<focus, vars>>
OfQueues(A) == focus = "Queues" /\ A /\ UNCHANGED <<focus, exchangeVars>>

\* A session of no feature has no messages.
SomeFeature == selected' => frozen' # {}

MCInit == focus \in {"Queues"} \cup DOMAIN Lists /\ Init /\ Exchange!Init

MCNext == OfExchange(Exchange!Next) \/ OfQueues(Next /\ SomeFeature)

\* The game and the control thread service both, as ServicedSpec and FairSpec say.
MCSpec ==
    /\ MCInit /\ [][MCNext]_mcVars
    /\ \A p \in Exchange!Procs : WF_mcVars(OfExchange(Exchange!Servicing(p)))
    /\ WF_mcVars(OfQueues(Pump)) /\ SF_mcVars(OfQueues(Deliver))
    /\ \A s \in Slots : SF_mcVars(OfQueues(ReadyResolves(s)))

-----------------------------------------------------------------------------

(* BudgetsExact and OutboxDelivers are those of MessageQueues: outside their   *)
(* focus they look at empty queues.                                            *)

(* Two processes whose connections last complete the exchange, and every       *)
(* attempt ends (HandshakeCompletes and AttemptResolves of Negotiation).       *)
NegotiationEnds == focus = "Attempts" => Exchange!HandshakeCompletes /\ Exchange!AttemptResolves

(* A feature one end fails also fails at the other (FailureIsShared).          *)
FailuresShared == focus = "Failures" => Exchange!FailureIsShared

(* Nothing stays queued, nothing keeps its bytes, and the patches' view of     *)
(* each peer catches up with what the service knows.                           *)
QueuesServed == focus = "Queues" => QueuesDrain /\ PatchesAreTold
=============================================================================
