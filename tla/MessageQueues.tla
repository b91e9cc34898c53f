---------------------------- MODULE MessageQueues ----------------------------
(***************************************************************************)
(* The data path of one process's multiplayer service: the messages its    *)
(* patches send wait on their connections, the pump hands them to the      *)
(* transport (or, for the host's own player, to the incoming queue), and   *)
(* deliver() gives what arrived to the patches' callbacks.  Both queues    *)
(* and the retained Hellos are charged to two byte budgets.                *)
(*                                                                         *)
(* Three threads of control meet here: the pump, on the game thread;       *)
(* deliver(), on the control thread; and everything else, a patch's send() *)
(* and fail() included.  The pump's pass holds the service's lock from one *)
(* submission to the next; the other handlers hold it for one step.        *)
(*                                                                         *)
(* The handshake itself is the subject of Negotiation.  Here a connection  *)
(* only becomes ready or established, expires or fails.                    *)
(***************************************************************************)
EXTENDS Naturals, FiniteSets, Sequences, Functions

CONSTANTS
    Objects,       \* registered features: [id, role, callbacks]
    Mode,          \* the game's mode
    Slots,         \* native slots
    LocalSlot,     \* the slot of a playing host's own client
    ManifestFits,  \* whether the frozen feature list fits one frame
    Batch,         \* submissions of one pump
    Results,       \* what the native transport answers to a submission
    \* Bytes.
    Capacity,      \* kQueueBytes
    OutRecord, InRecord,   \* what a message costs beside its payload
    Sizes,         \* payload sizes
    HelloCharges,  \* what retained Hellos cost
    \* Bounds of the model, not of the code.
    MaxPeers, MaxSends, MaxArrivals, MaxSessions,
    MaxFaults      \* failures, and submissions to be repeated, all together

Roles == {"Host", "Client"}
Ids == {o.id : o \in Objects}

ASSUME MessageQueuesAssumption ==
    /\ Objects \subseteq [id : STRING, role : SUBSET Roles \ {{}}, callbacks : Nat]
    /\ IsFiniteSet(Objects)
    \* feature() refuses a role of an ID that is already registered.
    /\ \A o, other \in Objects :
         o # other /\ o.id = other.id => o.role \cap other.role = {}
    /\ Mode \in {"Host", "Client", "Dedicated"}
    /\ IsFiniteSet(Slots)
    /\ ManifestFits \in BOOLEAN
    /\ Batch \in Nat \ {0}
    /\ Results \subseteq {"Accepted", "Retry", "Failed"}
    /\ {Capacity, OutRecord, InRecord} \subseteq Nat \ {0}
    /\ Sizes \subseteq Nat
    /\ HelloCharges \subseteq Nat \ {0}
    /\ {MaxPeers, MaxSends, MaxArrivals, MaxSessions, MaxFaults} \subseteq Nat

VARIABLES
    selected,  \* a session with Galaxy transport runs
    frozen,    \* features of patches that were installed at Game Start
    conn,      \* [Slots -> Connections]
    host,      \* peer ID of the host, 0 if unknown
    local,     \* peer ID of this process's own player, 0 if none
    hellos,    \* [Slots -> Nat]: charge of the Hello retained for the
               \* address that will connect at this slot, 0 if none
    incoming,  \* messages for the patches
    outBytes, inBytes,     \* the two budgets
    pump,      \* the pump's pass
    control,   \* deliver() on the control thread
    last,      \* [Objects -> SUBSET Views]: what patches were told last
    sent,      \* history: numbers of the messages that the transport, or the
               \* local player's queue, took from each connection
    delivered, \* history: numbers of the messages given to a first callback
    count      \* peer IDs given out, messages numbered, bounded events

vars == <<selected, frozen, conn, host, local, hellos, incoming, outBytes,
          inBytes, pump, control, last, sent, delivered, count>>

-----------------------------------------------------------------------------
(* Connections and messages. *)

Phases == {"Pending", "Ready", "Established", "Expired", "Failed"}
Agreements == {"Unavailable", "Pending", "Compatible", "Incompatible", "Failed"}
Views == [peer : Nat, agreement : Agreements]

Outgoing == [n : Nat, feature : Objects, peer : Nat, size : Sizes]
Incoming == [n : Nat, feature : Objects, peer : Nat, connection : Nat, size : Sizes]

Connections ==
    [id : Nat, phase : Phases, supported : SUBSET Ids, failed : SUBSET Ids,
     notice : SUBSET Ids, outgoing : Seq(Outgoing)]

NoConnection ==
    [id |-> 0, phase |-> "Pending", supported |-> {}, failed |-> {},
     notice |-> {}, outgoing |-> <<>>]

(* The bytes a message is charged, and sums of them.  Messages are told    *)
(* apart by their numbers.                                                 *)
OutCharge(m) == OutRecord + m.size
InCharge(m) == InRecord + m.size
OutTotal(messages) == SumFunctionOnSet([m \in messages |-> OutCharge(m)], messages)
InTotal(messages) == SumFunctionOnSet([m \in messages |-> InCharge(m)], messages)
HelloTotal(h) == SumFunctionOnSet(h, Slots)

IsLocal(s) == Mode = "Host" /\ s = LocalSlot
Live == {s \in Slots : conn[s].id # 0}
LiveIds == {conn[s].id : s \in Live}

(* The features this session registered on its connections. *)
Paths == {o.id : o \in frozen}

Applicable ==
    CASE Mode = "Host" -> Roles
      [] Mode = "Client" -> {"Client"}
      [] Mode = "Dedicated" -> {"Host"}

FrozenRoles(o) == IF o \in frozen THEN o.role \cap Applicable ELSE {}

Implementation(id, role) == {o \in Objects : o.id = id /\ role \in FrozenRoles(o)}

(* The slot that serves this feature and peer: none or one. *)
Route(o, peer) ==
    LET toHost == "Client" \in FrozenRoles(o) /\ peer = host
        own == {s \in Live : conn[s].id = local}
    IN  IF peer = 0 THEN {}
        ELSE IF toHost /\ Mode = "Client" THEN {s \in Live : conn[s].id = host}
        ELSE IF toHost /\ own # {} THEN own
        ELSE IF "Host" \in FrozenRoles(o) THEN {s \in Live : conn[s].id = peer}
        ELSE {}

Supports(s, o, peer) ==
    IF IsLocal(s)
    THEN Implementation(o.id, IF peer = host THEN "Host" ELSE "Client") # {}
    ELSE o.id \in conn[s].supported

AgreementAt(s, o, peer) ==
    IF ~IsLocal(s) /\ ~ManifestFits THEN "Unavailable"
    ELSE IF conn[s].phase = "Failed" \/ o.id \in conn[s].failed THEN "Failed"
    ELSE IF conn[s].phase = "Expired" THEN "Incompatible"
    ELSE IF conn[s].phase \in {"Pending", "Ready"} THEN "Pending"
    ELSE IF Supports(s, o, peer) THEN "Compatible" ELSE "Incompatible"

Agreement(o, peer) ==
    IF Route(o, peer) = {} THEN "Unavailable"
    ELSE AgreementAt(CHOOSE s \in Route(o, peer) : TRUE, o, peer)

-----------------------------------------------------------------------------
(* The threads. *)

PumpIdle == [at |-> "Idle"]
Running(todo, peer, n) == [at |-> "Running", todo |-> todo, peer |-> peer, n |-> n]
Submitting(todo, peer, n, sub) ==
    [at |-> "Submitting", todo |-> todo, peer |-> peer, n |-> n, sub |-> sub]

(* What the pump remembers of the frame it submits: a data message (its    *)
(* number is only a label, the code remembers the feature) or a notice.    *)
Frames == [kind : {"Data", "Notice"}, feature : Ids, n : Nat]
Submissions == [frame : Frames, result : {"Accepted", "Retry", "Failed"}]

Pumps ==
    {PumpIdle}
    \cup [at : {"Running"}, todo : SUBSET Nat, peer : Nat, n : 0..Batch]
    \cup [at : {"Submitting"}, todo : SUBSET Nat, peer : Nat, n : 0..Batch,
          sub : Submissions]

ControlIdle == [at |-> "Idle"]
Draining(left) == [at |-> "Draining", left |-> left]
Calling(left, m, callback) ==
    [at |-> "Calling", left |-> left, message |-> m, callback |-> callback]
Controls ==
    {ControlIdle}
    \cup [at : {"Draining"}, left : Nat]
    \cup [at : {"Calling"}, left : Nat, message : Incoming, callback : Nat]

(* Every other handler waits for the lock, or, like send(), gives up.      *)
Unlocked == pump.at # "Running"

Init ==
    /\ selected = FALSE
    /\ frozen = {}
    /\ conn = [s \in Slots |-> NoConnection]
    /\ host = 0 /\ local = 0
    /\ hellos = [s \in Slots |-> 0]
    /\ incoming = <<>>
    /\ outBytes = 0 /\ inBytes = 0
    /\ pump = PumpIdle
    /\ control = ControlIdle
    /\ last = [o \in Objects |-> {}]
    /\ sent = [id \in 1..MaxPeers |-> <<>>] /\ delivered = <<>>
    /\ count = [peers |-> 0, sends |-> 0, arrivals |-> 0, sessions |-> 0, faults |-> 0]

-----------------------------------------------------------------------------
(* Discarding messages.  The code subtracts what it removes from each      *)
(* budget, so the model does too.                                          *)

(* A queue without some of its messages. *)
Without(queue, gone) ==
    LET kept[i \in 0..Len(queue)] ==
          IF i = 0 THEN <<>>
          ELSE IF queue[i] \in gone THEN kept[i - 1] ELSE Append(kept[i - 1], queue[i])
    IN  kept[Len(queue)]

OutOf(S) == SumFunctionOnSet([s \in S |-> OutTotal(Range(conn[s].outgoing))], S)
From(S) == {conn[s].id : s \in S}
Arrived(S) == {m \in Range(incoming) : m.connection \in From(S)}

(* Mutant: incoming messages go without giving back their bytes. *)
DiscardKeepsBytes(S, released) ==
    /\ incoming' = Without(incoming, Arrived(S))
    /\ outBytes' = outBytes - OutOf(S)
    /\ inBytes' = inBytes - released

(* discard_messages() of the connections at S; "released" is what retained *)
(* Hellos give back in the same step.                                      *)
Discard(S, released) ==
    /\ incoming' = Without(incoming, Arrived(S))
    /\ outBytes' = outBytes - OutOf(S)
    /\ inBytes' = inBytes - InTotal(Arrived(S)) - released

(* A failed connection keeps its features' flags and loses its messages.   *)
Failed(c) == [c EXCEPT !.phase = "Failed", !.outgoing = <<>>]

(* expire_hellos(): any retained Hello may have met its deadline.          *)
HellosAfterExpiry ==
    {[s \in Slots |-> IF s \in gone THEN 0 ELSE hellos[s]] : gone \in SUBSET Slots}

NoHellos == [s \in Slots |-> 0]

-----------------------------------------------------------------------------
(* Sessions and native connections.                                        *)

Clear ==
    /\ conn' = [s \in Slots |-> NoConnection]
    /\ host' = 0 /\ local' = 0
    /\ hellos' = NoHellos
    /\ Discard(Live, HelloTotal(hellos))
    /\ UNCHANGED <<pump, control, last, sent, delivered>>

Begin ==
    /\ Unlocked
    /\ count.sessions < MaxSessions
    /\ Clear
    /\ selected' = TRUE
    /\ \E installed \in SUBSET Objects :
         frozen' = {o \in installed : o.role \cap Applicable # {}}
    /\ count' = [count EXCEPT !.sessions = @ + 1]

End ==
    /\ Unlocked
    /\ selected
    /\ Clear
    /\ selected' = FALSE
    /\ frozen' = {}
    /\ UNCHANGED count

(* reset_connections(), after the game's Create(false). *)
Reset ==
    /\ Unlocked
    /\ Live # {}
    /\ Clear
    /\ UNCHANGED <<selected, frozen, count>>

(* connect() of a slot, which replaces what was there under another        *)
(* address.  A client has one connection and a fresh identity for each.    *)
ConnectEnds(s) == IF Mode = "Client" THEN Live ELSE {s} \cap Live

NewPhases(s) == IF IsLocal(s) THEN {"Established"} ELSE {"Pending", "Failed"}

(* The second ID is drawn for the endpoint that has none yet.              *)
DrawsSecond == IF Mode = "Client" THEN host # 0 \/ local = 0 ELSE host = 0

Connect(s) ==
    LET id == count.peers + 1
        second == count.peers + 2
    IN  /\ Unlocked
        /\ selected
        /\ count.peers + (IF DrawsSecond THEN 2 ELSE 1) <= MaxPeers
        /\ \E phase \in NewPhases(s) :
             conn' = [x \in Slots |->
               IF x = s THEN [NoConnection EXCEPT !.id = id, !.phase = phase]
               ELSE IF x \in ConnectEnds(s) THEN NoConnection ELSE conn[x]]
        /\ \E kept \in HellosAfterExpiry :
             /\ hellos' = [kept EXCEPT ![s] = 0]
             /\ Discard(ConnectEnds(s), HelloTotal(hellos) - HelloTotal(hellos'))
        /\ IF Mode = "Client"
           THEN /\ host' = id
                /\ local' = IF DrawsSecond THEN second ELSE local
           ELSE /\ host' = IF DrawsSecond THEN second ELSE host
                /\ local' = IF IsLocal(s) THEN id ELSE local
        /\ count' = [count EXCEPT !.peers = IF DrawsSecond THEN second ELSE id]
        /\ UNCHANGED <<selected, frozen, pump, control, last, sent, delivered>>

Disconnect(s) ==
    /\ Unlocked
    /\ s \in Live
    /\ conn' = [conn EXCEPT ![s] = NoConnection]
    /\ Discard({s}, 0)
    /\ IF conn[s].id = host THEN host' = 0 /\ local' = 0
       ELSE /\ local' = IF conn[s].id = local THEN 0 ELSE local
            /\ UNCHANGED host
    /\ UNCHANGED <<selected, frozen, hellos, pump, control, last, sent, delivered, count>>

(* observe_local() names the endpoint the mode implies. *)
ObserveLocal ==
    /\ Unlocked
    /\ selected
    /\ count.peers < MaxPeers
    /\ \/ Mode # "Client" /\ host = 0 /\ host' = count.peers + 1 /\ UNCHANGED local
       \/ Mode = "Client" /\ local = 0 /\ local' = count.peers + 1 /\ UNCHANGED host
    /\ count' = [count EXCEPT !.peers = @ + 1]
    /\ UNCHANGED <<selected, frozen, conn, hellos, incoming, outBytes, inBytes,
                   pump, control, last, sent, delivered>>

-----------------------------------------------------------------------------
(* What negotiation, the peer and the transport do to a remote connection. *)

Remote(s) == s \in Live /\ ~IsLocal(s)

Negotiate(s) ==
    /\ Unlocked
    /\ Remote(s)
    /\ ManifestFits
    /\ \/ /\ conn[s].phase = "Pending"
          /\ \E supported \in SUBSET Paths :
               conn' = [conn EXCEPT
                 ![s].phase = IF Mode = "Client" THEN "Ready" ELSE "Established",
                 ![s].supported = supported]
       \/ /\ conn[s].phase = "Ready"
          /\ conn' = [conn EXCEPT ![s].phase = "Established"]
       \/ /\ conn[s].phase \in {"Pending", "Ready"}
          /\ conn' = [conn EXCEPT ![s].phase = "Expired"]
    /\ UNCHANGED <<selected, frozen, host, local, hellos, incoming, outBytes,
                   inBytes, pump, control, last, sent, delivered, count>>

(* fail_connection(): the peer's notice, or a refused handshake frame.     *)
ConnectionFails(s) ==
    /\ Unlocked
    /\ Remote(s)
    /\ conn[s].phase # "Failed"
    /\ count.faults < MaxFaults
    /\ count' = [count EXCEPT !.faults = @ + 1]
    /\ conn' = [conn EXCEPT ![s] = Failed(@)]
    /\ Discard({s}, 0)
    /\ UNCHANGED <<selected, frozen, host, local, hellos, pump, control, last, sent, delivered>>

(* carrier_failed(): every remote connection, and the retained Hellos.     *)
CarrierFailed ==
    /\ Unlocked
    /\ count.faults < MaxFaults
    /\ count' = [count EXCEPT !.faults = @ + 1]
    /\ LET remote == {s \in Slots : Remote(s)}
       IN  /\ conn' = [s \in Slots |-> IF s \in remote THEN Failed(conn[s]) ELSE conn[s]]
           /\ Discard(remote, HelloTotal(hellos))
    /\ hellos' = NoHellos
    /\ UNCHANGED <<selected, frozen, host, local, pump, control, last, sent, delivered>>

(* The peer's notice of a failed feature; its messages stay where they are. *)
PeerFails(s) ==
    /\ Unlocked
    /\ Remote(s)
    /\ conn[s].phase = "Established"
    /\ count.faults < MaxFaults
    /\ count' = [count EXCEPT !.faults = @ + 1]
    /\ \E f \in Paths :
         conn' = [conn EXCEPT ![s].failed = @ \cup {f}, ![s].notice = @ \ {f}]
    /\ UNCHANGED <<selected, frozen, host, local, hellos, incoming, outBytes,
                   inBytes, pump, control, last, sent, delivered>>

(* A data frame.  The queue is full for good: reliable delivery is over.   *)
Accepts(s, id) ==
    /\ conn[s].phase \in {"Established", "Ready"}
    /\ id \in (Paths \cap conn[s].supported) \ conn[s].failed

ReceiveData(s) ==
    /\ Unlocked
    /\ Remote(s)
    /\ ManifestFits
    /\ count.arrivals < MaxArrivals
    /\ \E kept \in HellosAfterExpiry, size \in Sizes,
          o \in {x \in Objects : (IF Mode = "Client" THEN "Client" ELSE "Host") \in FrozenRoles(x)} :
         LET m == [n |-> count.arrivals + 1, feature |-> o,
                   peer |-> IF Mode = "Client" THEN host ELSE conn[s].id,
                   connection |-> conn[s].id, size |-> size]
             released == HelloTotal(hellos) - HelloTotal(kept)
         IN  /\ Accepts(s, o.id)
             /\ hellos' = kept
             /\ IF InCharge(m) + inBytes - released <= Capacity
                THEN /\ incoming' = Append(incoming, m)
                     /\ inBytes' = inBytes - released + InCharge(m)
                     /\ count' = [count EXCEPT !.arrivals = @ + 1]
                     /\ UNCHANGED <<conn, outBytes>>
                ELSE /\ conn' = [conn EXCEPT ![s] = Failed(@)]
                     /\ Discard({s}, released)
                     /\ UNCHANGED count
    /\ UNCHANGED <<selected, frozen, host, local, pump, control, last, sent, delivered>>

(* A Hello without a connection is kept if it fits in place of the one it  *)
(* replaces.                                                               *)
RetainHello(s) ==
    /\ Unlocked
    /\ selected
    /\ ManifestFits
    /\ Mode # "Client"
    /\ \E kept \in HellosAfterExpiry, charge \in HelloCharges :
         LET free == HelloTotal(hellos) - HelloTotal(kept)
         IN  IF inBytes - free - kept[s] + charge <= Capacity
             THEN /\ hellos' = [kept EXCEPT ![s] = charge]
                  /\ inBytes' = inBytes - free - kept[s] + charge
             ELSE /\ hellos' = kept
                  /\ inBytes' = inBytes - free
    /\ UNCHANGED <<selected, frozen, conn, host, local, incoming, outBytes,
                   pump, control, last, sent, delivered, count>>

(* Any other frame, and a pump that finds another at work. *)
ExpireHellos ==
    /\ Unlocked
    /\ \E kept \in HellosAfterExpiry :
         /\ hellos' = kept
         /\ inBytes' = inBytes - (HelloTotal(hellos) - HelloTotal(kept))
    /\ UNCHANGED <<selected, frozen, conn, host, local, incoming, outBytes,
                   pump, control, last, sent, delivered, count>>

-----------------------------------------------------------------------------
(* The patches.                                                            *)

(* send() queues a message that both ends agreed on, if it fits; any other *)
(* answer, the one to a held lock included, changes nothing.               *)
Send(o, peer) ==
    /\ Unlocked
    /\ Agreement(o, peer) = "Compatible"
    /\ count.sends < MaxSends
    /\ \E size \in Sizes, s \in Route(o, peer) :
         LET m == [n |-> count.sends + 1, feature |-> o, peer |-> peer, size |-> size]
         IN  /\ outBytes + OutCharge(m) <= Capacity
             /\ conn' = [conn EXCEPT ![s].outgoing = Append(@, m)]
             /\ outBytes' = outBytes + OutCharge(m)
    /\ count' = [count EXCEPT !.sends = @ + 1]
    /\ UNCHANGED <<selected, frozen, host, local, hellos, incoming, inBytes,
                   pump, control, last, sent, delivered>>

(* fail(): the feature's own messages go, and the peer is to be told.      *)
Fail(o, peer) ==
    /\ Unlocked
    /\ count.faults < MaxFaults
    /\ count' = [count EXCEPT !.faults = @ + 1]
    /\ \E s \in Route(o, peer) :
         /\ o.id \in Paths \ conn[s].failed
         /\ LET own == {m \in Range(conn[s].outgoing) : m.feature.id = o.id}
            IN  /\ conn' = [conn EXCEPT
                     ![s].failed = @ \cup {o.id},
                     ![s].notice = IF IsLocal(s) THEN @ ELSE @ \cup {o.id},
                     ![s].outgoing = Without(@, own)]
                /\ outBytes' = outBytes - OutTotal(own)
    /\ UNCHANGED <<selected, frozen, host, local, hellos, incoming, inBytes,
                   pump, control, last, sent, delivered>>

-----------------------------------------------------------------------------
(* The pump.                                                               *)

At(peer) == {s \in Live : conn[s].id = peer}

(* The pass goes over the connections that are there when it starts.       *)
PumpBegin ==
    /\ Unlocked
    /\ pump = PumpIdle
    /\ Live # {}
    /\ \E kept \in HellosAfterExpiry :
         /\ hellos' = kept
         /\ inBytes' = inBytes - (HelloTotal(hellos) - HelloTotal(kept))
    /\ pump' = Running(LiveIds, 0, 0)
    /\ UNCHANGED <<selected, frozen, conn, host, local, incoming, outBytes,
                   control, last, sent, delivered, count>>

(* A frame for this connection: a notice first, then the front message.    *)
FrontFrames(s) ==
    IF ~ManifestFits \/ conn[s].phase # "Established" THEN {}
    ELSE IF conn[s].notice # {}
    THEN {[kind |-> "Notice", feature |-> f, n |-> 0] : f \in conn[s].notice}
    ELSE IF conn[s].outgoing = <<>> THEN {}
    ELSE {[kind |-> "Data", feature |-> Head(conn[s].outgoing).feature.id,
           n |-> Head(conn[s].outgoing).n]}

HasWork(s) == IF IsLocal(s) THEN conn[s].outgoing # <<>> ELSE FrontFrames(s) # {}

(* The front message may no longer be sent. *)
Stale(s) ==
    /\ ~IsLocal(s)
    /\ \E frame \in FrontFrames(s) : frame.kind = "Data"
    /\ Agreement(Head(conn[s].outgoing).feature, Head(conn[s].outgoing).peer) # "Compatible"

PumpNext ==
    /\ pump.at = "Running"
    /\ pump.n = Batch \/ pump.peer = 0 \/ ~\E s \in At(pump.peer) : HasWork(s)
    /\ IF pump.n = Batch \/ pump.todo = {}
       THEN pump' = PumpIdle
       ELSE \E peer \in pump.todo :
              pump' = Running(pump.todo \ {peer}, peer, pump.n)
    /\ UNCHANGED <<selected, frozen, conn, host, local, hellos, incoming,
                   outBytes, inBytes, control, last, sent, delivered, count>>

(* What the transport, or the local queue, has of this connection then. *)
Sent(s, n) == [sent EXCEPT ![conn[s].id] = Append(@, n)]

PumpDrop ==
    /\ pump.at = "Running" /\ pump.n < Batch
    /\ \E s \in At(pump.peer) :
         /\ Stale(s)
         /\ conn' = [conn EXCEPT ![s].outgoing = Tail(@)]
         /\ outBytes' = outBytes - OutCharge(Head(conn[s].outgoing))
    /\ UNCHANGED <<selected, frozen, host, local, hellos, incoming, inBytes,
                   pump, control, last, sent, delivered, count>>

(* The host's own player: the message goes to the incoming queue, to the   *)
(* feature that has the other role.                                        *)
LocalRecipient(m) ==
    Implementation(m.feature.id, IF m.peer = host THEN "Host" ELSE "Client")

PumpLocal ==
    /\ pump.at = "Running" /\ pump.n < Batch
    /\ pump' = [pump EXCEPT !.n = @ + 1]
    /\ \E s \in At(pump.peer) :
         LET m == Head(conn[s].outgoing)
             popped == [conn EXCEPT ![s].outgoing = Tail(@)]
             arrival(o) == [n |-> count.arrivals + 1, feature |-> o,
                            peer |-> IF m.peer = host THEN local ELSE host,
                            connection |-> conn[s].id, size |-> m.size]
         IN  /\ IsLocal(s)
             /\ conn[s].outgoing # <<>>
             /\ IF LocalRecipient(m) = {} \/ Agreement(m.feature, m.peer) # "Compatible"
                THEN /\ conn' = popped
                     /\ outBytes' = outBytes - OutCharge(m)
                     /\ UNCHANGED <<incoming, inBytes, sent, count>>
                ELSE IF inBytes + InRecord + m.size > Capacity
                THEN /\ conn' = [conn EXCEPT ![s] = Failed(@)]
                     /\ Discard({s}, 0)
                     /\ UNCHANGED <<sent, count>>
                ELSE /\ conn' = popped
                     /\ outBytes' = outBytes - OutCharge(m)
                     /\ \E o \in LocalRecipient(m) : incoming' = Append(incoming, arrival(o))
                     /\ inBytes' = inBytes + InRecord + m.size
                     /\ sent' = Sent(s, m.n)
                     /\ count' = [count EXCEPT !.arrivals = @ + 1]
    /\ UNCHANGED <<selected, frozen, host, local, hellos, control, last, delivered>>

(* The lock is released; the transport has the frame if it accepts it.     *)
PumpSubmit ==
    /\ pump.at = "Running" /\ pump.n < Batch
    /\ \E s \in At(pump.peer), result \in Results :
         /\ ~IsLocal(s)
         /\ ~Stale(s)
         /\ \E frame \in FrontFrames(s) :
              /\ pump' = Submitting(pump.todo, pump.peer, pump.n + 1,
                                    [frame |-> frame, result |-> result])
              /\ sent' = IF result = "Accepted" /\ frame.kind = "Data" THEN Sent(s, frame.n) ELSE sent
         /\ result # "Accepted" => count.faults < MaxFaults
         /\ count' = [count EXCEPT !.faults = IF result # "Accepted" THEN @ + 1 ELSE @]
    /\ UNCHANGED <<selected, frozen, conn, host, local, hellos, incoming,
                   outBytes, inBytes, control, last, delivered>>

(* The front message is the submitted one if it is the same feature's: the *)
(* pump is the only one that takes single messages off a queue.            *)
FrontIs(s, frame) ==
    /\ conn[s].outgoing # <<>>
    /\ Head(conn[s].outgoing).feature.id = frame.feature

(* Mutant: whatever is at the front now was the submitted message. *)
SettledAnyFront(s, frame) ==
    IF frame.kind = "Notice"
    THEN /\ conn' = [conn EXCEPT ![s].notice = @ \ {frame.feature}]
         /\ UNCHANGED outBytes
    ELSE IF conn[s].outgoing # <<>>
    THEN /\ conn' = [conn EXCEPT ![s].outgoing = Tail(@)]
         /\ outBytes' = outBytes - OutCharge(Head(conn[s].outgoing))
    ELSE UNCHANGED <<conn, outBytes>>

Settled(s, frame) ==
    IF frame.kind = "Notice"
    THEN /\ conn' = [conn EXCEPT ![s].notice = @ \ {frame.feature}]
         /\ UNCHANGED outBytes
    ELSE IF FrontIs(s, frame)
    THEN /\ conn' = [conn EXCEPT ![s].outgoing = Tail(@)]
         /\ outBytes' = outBytes - OutCharge(Head(conn[s].outgoing))
    ELSE UNCHANGED <<conn, outBytes>>

(* With the lock again: the connection may be gone, or failed.             *)
PumpResume ==
    /\ pump.at = "Submitting"
    /\ LET frame == pump.sub.frame
           result == pump.sub.result
           here == At(pump.peer)
           goesOn == here # {} /\ result = "Accepted"
       IN  /\ pump' = Running(pump.todo, IF goesOn THEN pump.peer ELSE 0, pump.n)
           /\ \/ /\ here = {} \/ result = "Retry"
                 /\ UNCHANGED <<conn, incoming, outBytes, inBytes>>
              \/ \E s \in here :
                   /\ result = "Failed"
                   /\ conn' = [conn EXCEPT ![s] = Failed(@)]
                   /\ Discard({s}, 0)
              \/ \E s \in here :
                   /\ result = "Accepted"
                   /\ Settled(s, frame)
                   /\ UNCHANGED <<incoming, inBytes>>
    /\ UNCHANGED <<selected, frozen, host, local, hellos, control, last, sent, delivered, count>>

-----------------------------------------------------------------------------
(* deliver(), on the control thread.                                       *)

(* The peers a feature hears about, and what they agree on. *)
Heard(o) ==
    LET toHost == IF "Client" \in o.role /\ host # 0 THEN {host} ELSE {}
        toClients == IF "Host" \in o.role /\ Mode # "Client" THEN LiveIds ELSE {}
    IN  {[peer |-> peer, agreement |-> Agreement(o, peer)] : peer \in toHost \cup toClients}

(* Agreement changes are collected at once and told afterwards; the number *)
(* of messages present bounds what this pass delivers.                     *)
DeliverBegin ==
    /\ Unlocked
    /\ control = ControlIdle
    /\ last' = [o \in Objects |-> Heard(o)]
    /\ control' = Draining(Len(incoming))
    /\ UNCHANGED <<selected, frozen, conn, host, local, hellos, incoming,
                   outBytes, inBytes, pump, sent, delivered, count>>

(* Mutant: a message waits until its connection is established. *)
FrontWaitsForAgreement ==
    \/ incoming = <<>>
    \/ Agreement(Head(incoming).feature, Head(incoming).peer) # "Compatible"

(* A message of a connection that is not confirmed yet waits at the front. *)
FrontWaits ==
    \/ incoming = <<>>
    \/ Agreement(Head(incoming).feature, Head(incoming).peer) = "Pending"

DeliverNext ==
    /\ Unlocked
    /\ control.at = "Draining"
    /\ IF control.left = 0 \/ FrontWaits
       THEN /\ control' = ControlIdle
            /\ UNCHANGED incoming
       ELSE /\ control' = Calling(control.left - 1, Head(incoming), 1)
            /\ incoming' = Tail(incoming)
    /\ UNCHANGED <<selected, frozen, conn, host, local, hellos, outBytes,
                   inBytes, pump, last, sent, delivered, count>>

(* Before each callback: the same connection still agrees. *)
StillCurrent(m) ==
    /\ \E s \in Route(m.feature, m.peer) : conn[s].id = m.connection
    /\ Agreement(m.feature, m.peer) = "Compatible"

(* Mutant: only the first callback asks whether the connection still agrees. *)
DeliverCallOnce ==
    /\ Unlocked
    /\ control.at = "Calling"
    /\ control.callback <= control.message.feature.callbacks
    /\ IF control.callback > 1 \/ StillCurrent(control.message)
       THEN /\ delivered' = IF control.callback = 1 THEN Append(delivered, control.message.n) ELSE delivered
            /\ control' = [control EXCEPT !.callback = @ + 1]
       ELSE /\ control' = [control EXCEPT !.callback = control.message.feature.callbacks + 2]
            /\ UNCHANGED delivered
    /\ UNCHANGED <<selected, frozen, conn, host, local, hellos, incoming,
                   outBytes, inBytes, pump, last, sent, count>>

(* One callback, or none of those that are left: the message is skipped. *)
DeliverCall ==
    /\ Unlocked
    /\ control.at = "Calling"
    /\ control.callback <= control.message.feature.callbacks
    /\ IF StillCurrent(control.message)
       THEN /\ delivered' = IF control.callback = 1 THEN Append(delivered, control.message.n) ELSE delivered
            /\ control' = [control EXCEPT !.callback = @ + 1]
       ELSE /\ control' = [control EXCEPT !.callback = control.message.feature.callbacks + 2]
            /\ UNCHANGED delivered
    /\ UNCHANGED <<selected, frozen, conn, host, local, hellos, incoming,
                   outBytes, inBytes, pump, last, sent, count>>

(* Mutant: a message whose connection has ended keeps its bytes. *)
DeliverDoneCurrent ==
    /\ Unlocked
    /\ control.at = "Calling"
    /\ control.callback > control.message.feature.callbacks
    /\ inBytes' = IF StillCurrent(control.message) THEN inBytes - InCharge(control.message) ELSE inBytes
    /\ control' = Draining(control.left)
    /\ UNCHANGED <<selected, frozen, conn, host, local, hellos, incoming,
                   outBytes, pump, last, sent, delivered, count>>

(* Only now does the message leave the budget. *)
DeliverDone ==
    /\ Unlocked
    /\ control.at = "Calling"
    /\ control.callback > control.message.feature.callbacks
    /\ inBytes' = inBytes - InCharge(control.message)
    /\ control' = Draining(control.left)
    /\ UNCHANGED <<selected, frozen, conn, host, local, hellos, incoming,
                   outBytes, pump, last, sent, delivered, count>>

-----------------------------------------------------------------------------

Pump == PumpBegin \/ PumpNext \/ PumpDrop \/ PumpLocal \/ PumpSubmit \/ PumpResume
Deliver == DeliverBegin \/ DeliverNext \/ DeliverCall \/ DeliverDone

Next ==
    \/ Begin \/ End \/ Reset \/ ObserveLocal \/ CarrierFailed \/ ExpireHellos
    \/ \E s \in Slots :
         \/ Connect(s) \/ Disconnect(s) \/ Negotiate(s) \/ ConnectionFails(s)
         \/ PeerFails(s) \/ ReceiveData(s) \/ RetainHello(s)
    \/ \E o \in Objects, peer \in 1..MaxPeers : Send(o, peer) \/ Fail(o, peer)
    \/ Pump \/ Deliver

Spec == Init /\ [][Next]_vars

-----------------------------------------------------------------------------
(* Fairness.  The game services the transport on and on, the control       *)
(* thread delivers on and on, and both get the lock that the other         *)
(* releases in between.  A connection does not stay ready: its submission  *)
(* is answered or its deadline passes (AttemptResolves of Negotiation).    *)

ReadyResolves(s) == conn[s].phase = "Ready" /\ Negotiate(s)

FairSpec ==
    /\ Spec
    /\ WF_vars(Pump)
    /\ SF_vars(Deliver)
    /\ \A s \in Slots : SF_vars(ReadyResolves(s))

-----------------------------------------------------------------------------
(* Properties. *)

Counts == [{"peers", "sends", "arrivals", "sessions", "faults"} -> Nat]

(* Every variable keeps its shape. *)
TypeOK ==
    /\ selected \in BOOLEAN
    /\ frozen \in SUBSET Objects
    /\ conn \in [Slots -> Connections]
    /\ host \in Nat /\ local \in Nat
    /\ hellos \in [Slots -> Nat]
    /\ incoming \in Seq(Incoming)
    /\ outBytes \in Nat /\ inBytes \in Nat
    /\ pump \in Pumps
    /\ control \in Controls
    /\ last \in [Objects -> SUBSET Views]
    /\ sent \in [1..MaxPeers -> Seq(Nat)]
    /\ delivered \in Seq(Nat)
    /\ count \in Counts

(* Both budgets count exactly what is queued, retained or in a callback's  *)
(* hands, and never more than the limit: every path that removes messages  *)
(* gives back what it took, once.                                          *)
BudgetsExact ==
    /\ outBytes = OutOf(Slots)
    /\ inBytes = InTotal(Range(incoming)) + HelloTotal(hellos)
                   + (IF control.at = "Calling" THEN InCharge(control.message) ELSE 0)
    /\ outBytes <= Capacity /\ inBytes <= Capacity

InTransport ==
    IF pump.at = "Submitting" /\ pump.sub.result = "Accepted" THEN {pump.sub.frame.n} ELSE {}

(* What each queue promises, as the abstract Delivery.  A feature on a     *)
(* connection closes when the connection ends, fails or expires, or the    *)
(* feature fails on it.  Of a connection's queue, the message that the     *)
(* transport has accepted has left, although the pump only takes it off    *)
(* when it holds the lock again.                                           *)
Open(id, f) ==
    \E s \in At(id) : conn[s].phase \notin {"Failed", "Expired"} /\ f \notin conn[s].failed

Closed == {t \in (1..count.peers) \X Ids : ~Open(t[1], t[2])}

OnLine(s) ==
    {[n |-> m.n, topic |-> <<conn[s].id, m.feature.id>>] : m \in Range(conn[s].outgoing)}

OutWaiting ==
    [id \in 1..MaxPeers |->
        {m \in UNION {OnLine(s) : s \in At(id)} : m.n \notin InTransport}]

Outbox == INSTANCE Delivery WITH
    Lines <- 1..MaxPeers,
    Topics <- (1..MaxPeers) \X Ids,
    put <- count.sends,
    closed <- Closed,
    waiting <- OutWaiting,
    done <- sent

(* Every message that send() accepted is handed to the transport once and  *)
(* in order, unless its connection or its feature ends first; no message   *)
(* of another feature is lost with it, and none follows the end.           *)
OutboxDelivers == Outbox!Spec

InHand ==
    IF control.at = "Calling" /\ control.callback = 1 THEN {control.message} ELSE {}

InWaiting ==
    [l \in {"incoming"} |->
        {[n |-> m.n, topic |-> <<m.connection, m.feature.id>>] :
           m \in Range(incoming) \cup InHand}]

(* No callback, the first or a later one, is given a message whose         *)
(* connection or feature has ended.                                        *)
CallInTime ==
    control.at = "Calling" /\ control'.at = "Calling" /\ control'.callback = control.callback + 1 =>
        Open(control.message.connection, control.message.feature.id)

Inbox == INSTANCE Delivery WITH
    Lines <- {"incoming"},
    Topics <- (1..MaxPeers) \X Ids,
    put <- count.arrivals,
    closed <- Closed,
    waiting <- InWaiting,
    done <- [l \in {"incoming"} |-> delivered]

(* Every message that arrived is given to the patch once and in order,     *)
(* unless its connection or its feature ends first; then it is not given.  *)
InboxDelivers == Inbox!Spec

Queued(n) == \E s \in Slots : \E m \in Range(conn[s].outgoing) : m.n = n
InboxEmpty == inBytes = HelloTotal(hellos)
PatchesTold == \A o \in Objects : last[o] = Heard(o)

(* Nothing stays queued, and nothing keeps its bytes: outgoing messages    *)
(* are sent or dropped, incoming ones delivered or dropped, even behind a  *)
(* front that has to wait.                                                 *)
QueuesDrain ==
    /\ \A n \in 1..MaxSends : []<>~Queued(n)
    /\ []<>InboxEmpty

(* The patches' view of each peer catches up with what the service knows.  *)
PatchesAreTold == <>[]PatchesTold
=============================================================================
