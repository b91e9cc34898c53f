----------------------------- MODULE Negotiation -----------------------------
(***************************************************************************)
(* Two game processes, a host and one of its clients, whose multiplayer    *)
(* services negotiate the features both have installed.  Each process has  *)
(* its own service: the session and the feature list frozen at Game Start, *)
(* the connection to the other process, and the servicing pass that reads  *)
(* frames and then pumps frames out.  The frames travel over Galaxy's      *)
(* reliable ordered channel, which outlives the game's own connection: a   *)
(* frame of an earlier attempt can arrive in a later one.                  *)
(*                                                                         *)
(* The service's lock makes each handler one step, except that the pump    *)
(* releases it while a frame is submitted: PumpBegin or PumpResume ends at *)
(* such a submission and the next PumpResume continues behind it.          *)
(***************************************************************************)
EXTENDS Connection, Sequences

CONSTANTS
    MaxManifest,   \* features whose list still fits one frame
    Batch,         \* frames read, and frames submitted, per servicing pass
    Results,       \* what the native transport answers to a submission
    ReceiveDuringSubmit, \* whether another thread may call receive() meanwhile
    \* Bounds of the model, not of the code.
    MaxPeers,      \* connection attempts each process observes
    MaxTokens,     \* random tokens each process draws
    MaxSessions,   \* Game Starts of each process
    MaxWire,       \* frames in flight in one direction
    MaxFaults,     \* transport and random generator failures, Create(false)
                   \* calls and submissions to be repeated, all together
    MaxFails       \* calls of a feature's fail() by each process

ASSUME NegotiationAssumption ==
    /\ MaxManifest \in Nat
    /\ Batch \in Nat \ {0}
    /\ Results \subseteq {"Accepted", "Retry", "Failed"}
    /\ ReceiveDuringSubmit \in BOOLEAN
    /\ {MaxPeers, MaxTokens, MaxSessions, MaxWire, MaxFaults, MaxFails} \subseteq Nat

VARIABLES
    session,   \* [Procs -> BOOLEAN]: a session with Galaxy transport runs
    manifest,  \* [Procs -> SUBSET Features]: feature list frozen at Game Start
    native,    \* [Procs -> BOOLEAN]: the game's own record says connected
    conn,      \* [Procs -> Connections]: the service's connection
    hello,     \* the Hello the host retains for a sender without connection
    pass,      \* [Procs -> Passes]: the servicing pass of the game thread
    wire,      \* [Procs -> Seq(Frames)]: frames in flight to a process
    offer,     \* [Procs -> Seq(SUBSET Features)]: history of drawn tokens;
               \* token k was drawn while offer[p][k] was the frozen list
    peers,     \* [Procs -> Nat]: peer IDs given out
    count      \* bounded environment events, by name

service == <<session, manifest, conn, hello, offer, peers>>
vars == <<session, manifest, native, conn, hello, pass, wire, offer, peers, count>>

Procs == {"Host", "Client"}
Server(p) == p = "Host"
Other(p) == IF p = "Host" THEN "Client" ELSE "Host"

NoHello == [client |-> 0, manifest |-> {}, due |-> FALSE]
Hellos == [client : Nat, manifest : SUBSET Features, due : BOOLEAN]

(* "Submitting" is the pump with the lock released. n counts frames read   *)
(* while receiving and frames submitted while pumping.                     *)
Idle == [at |-> "Idle"]
Receiving(n) == [at |-> "Receiving", n |-> n]
Submitting(sub, n) == [at |-> "Submitting", sub |-> sub, n |-> n]
Passes ==
    {Idle} \cup [at : {"Receiving"}, n : Nat]
           \cup [at : {"Submitting"}, sub : Submissions, n : Nat]

Init ==
    /\ session = [p \in Procs |-> FALSE]
    /\ manifest = [p \in Procs |-> {}]
    /\ native = [p \in Procs |-> FALSE]
    /\ conn = [p \in Procs |-> NoConnection]
    /\ hello = NoHello
    /\ pass = [p \in Procs |-> Idle]
    /\ wire = [p \in Procs |-> <<>>]
    /\ offer = [p \in Procs |-> <<>>]
    /\ peers = [p \in Procs |-> 0]
    /\ count = [sessions |-> [p \in Procs |-> 0], fails |-> [p \in Procs |-> 0],
                faults |-> 0, retries |-> 0]

MayFault == count.faults + count.retries < MaxFaults

-----------------------------------------------------------------------------
(* The session. *)

(* A list too long for one frame leaves the session without messaging.     *)
RemoteAvailable(p) == session[p] /\ Cardinality(manifest[p]) <= MaxManifest

(* Game Start freezes the features of the patches installed by now and     *)
(* expires what an earlier session left.                                   *)
Begin(p) ==
    /\ count.sessions[p] < MaxSessions
    /\ \E frozen \in SUBSET Features : manifest' = [manifest EXCEPT ![p] = frozen]
    /\ session' = [session EXCEPT ![p] = TRUE]
    /\ conn' = [conn EXCEPT ![p] = NoConnection]
    /\ hello' = IF Server(p) THEN NoHello ELSE hello
    /\ count' = [count EXCEPT !.sessions[p] = @ + 1]
    /\ UNCHANGED <<native, pass, wire, offer, peers>>

End(p) ==
    /\ session[p]
    /\ session' = [session EXCEPT ![p] = FALSE]
    /\ manifest' = [manifest EXCEPT ![p] = {}]
    /\ conn' = [conn EXCEPT ![p] = NoConnection]
    /\ hello' = IF Server(p) THEN NoHello ELSE hello
    /\ UNCHANGED <<native, pass, wire, offer, peers, count>>

-----------------------------------------------------------------------------
(* Tokens: random nonzero numbers, taken as never drawn before.            *)

(* Draw(p, 0) is a failure of the random generator.                        *)
NextTokens(p) == {0, Len(offer[p]) + 1}

Draw(p, token) ==
    IF token = 0
    THEN /\ MayFault
         /\ count' = [count EXCEPT !.faults = @ + 1]
         /\ UNCHANGED offer
    ELSE /\ Len(offer[p]) < MaxTokens
         /\ offer' = [offer EXCEPT ![p] = Append(@, manifest[p])]
         /\ UNCHANGED count

(* A Hello, from the wire or retained, meets the host's connection c.      *)
HostHello(c, client, list) ==
    IF HelloOpens(c, client)
    THEN \E token \in NextTokens("Host") :
             /\ Draw("Host", token)
             /\ conn' = [conn EXCEPT !["Host"] = AcceptHello(c, client, list, token)]
    ELSE /\ conn' = [conn EXCEPT !["Host"] = c]
         /\ UNCHANGED <<offer, count>>

-----------------------------------------------------------------------------
(* Native connections.                                                     *)

(* connect() for a slot without a live connection.  The client opens the   *)
(* exchange; the host waits for a Hello, or answers the one it retained.   *)
ConnectClient ==
    LET c == NewConnection(peers["Client"] + 1, manifest["Client"])
    IN  /\ \E token \in NextTokens("Client") :
             /\ Draw("Client", token)
             /\ conn' = [conn EXCEPT !["Client"] =
                          IF token = 0
                          THEN FailConnection(c)
                          ELSE [c EXCEPT !.client = token, !.phase = "Hello"]]
        /\ UNCHANGED hello

ConnectHost ==
    LET c == NewConnection(peers["Host"] + 1, manifest["Host"])
    IN  /\ IF hello.client # 0 /\ ~hello.due
           THEN HostHello(c, hello.client, hello.manifest)
           ELSE /\ conn' = [conn EXCEPT !["Host"] = c]
                /\ UNCHANGED <<offer, count>>
        /\ hello' = NoHello

Connect(p) ==
    /\ peers[p] < MaxPeers
    /\ peers' = [peers EXCEPT ![p] = @ + 1]
    /\ IF Server(p) THEN ConnectHost ELSE ConnectClient
    /\ UNCHANGED <<session, manifest>>

(* The game connects a slot; its hook reports it to a running session.     *)
NativeConnect(p) ==
    /\ ~native[p]
    /\ native' = [native EXCEPT ![p] = TRUE]
    /\ IF session[p] THEN Connect(p) ELSE UNCHANGED <<service, count>>
    /\ UNCHANGED <<pass, wire>>

(* The disconnect hook ends the connection at once.                        *)
NativeDisconnect(p) ==
    /\ native[p]
    /\ native' = [native EXCEPT ![p] = FALSE]
    /\ conn' = [conn EXCEPT ![p] = NoConnection]
    /\ UNCHANGED <<session, manifest, hello, pass, wire, offer, peers, count>>

(* Create(false) clears every native record, and the retained Hello.       *)
NativeReset(p) ==
    /\ MayFault
    /\ count' = [count EXCEPT !.faults = @ + 1]
    /\ native' = [native EXCEPT ![p] = FALSE]
    /\ conn' = [conn EXCEPT ![p] = NoConnection]
    /\ hello' = IF Server(p) THEN NoHello ELSE hello
    /\ UNCHANGED <<session, manifest, pass, wire, offer, peers>>

-----------------------------------------------------------------------------
(* The servicing pass: seed the connection from the native record, read    *)
(* frames, pump.                                                           *)

ServiceBegin(p) ==
    /\ pass[p] = Idle
    /\ session[p]
    /\ pass' = [pass EXCEPT ![p] = Receiving(0)]
    /\ IF native[p] /\ conn[p].id = 0 THEN Connect(p) ELSE UNCHANGED <<service, count>>
    /\ UNCHANGED <<native, wire>>

ExpireHello(h) == IF h.due THEN NoHello ELSE h

(* receive() of the frame at the head of the channel: dropped without      *)
(* remote messaging; retained or dropped without a connection; or a step   *)
(* of the connection, behind the deadline.                                 *)
ReceiveUnavailable(p) ==
    /\ ~RemoteAvailable(p)
    /\ UNCHANGED <<conn, hello, offer, count>>

(* The latest Hello is kept under the deadline of the first.               *)
ReceiveUnknown(p, frame) ==
    /\ RemoteAvailable(p)
    /\ conn[p].id = 0
    /\ hello' = IF ~Server(p) THEN hello
                ELSE IF frame.kind = "Hello"
                THEN [ExpireHello(hello) EXCEPT !.client = frame.client,
                                                !.manifest = frame.manifest]
                ELSE ExpireHello(hello)
    /\ UNCHANGED <<conn, offer, count>>

ReceiveConnected(p, frame) ==
    /\ RemoteAvailable(p)
    /\ conn[p].id # 0
    /\ hello' = IF Server(p) THEN ExpireHello(hello) ELSE hello
    /\ LET c == Timeout(conn[p])
       IN  IF frame.kind = "Hello" /\ Server(p) /\ (c.phase = "Established" \/ ~c.due)
           THEN HostHello(c, frame.client, frame.manifest)
           ELSE /\ conn' = [conn EXCEPT ![p] =
                     IF c.phase = "Established" \/ ~c.due
                     THEN AcceptFrame(c, frame, Server(p)) ELSE c]
                /\ UNCHANGED <<offer, count>>

ReceiveFrame(p, frame) ==
    \/ ReceiveUnavailable(p)
    \/ ReceiveUnknown(p, frame)
    \/ ReceiveConnected(p, frame)

Receive(p) ==
    /\ wire[p] # <<>>
    /\ \/ /\ pass[p].at = "Receiving"
          /\ pass[p].n < Batch
          /\ pass' = [pass EXCEPT ![p] = Receiving(@.n + 1)]
       \/ /\ ReceiveDuringSubmit
          /\ pass[p].at = "Submitting"
          /\ UNCHANGED pass
    /\ wire' = [wire EXCEPT ![p] = Tail(@)]
    /\ ReceiveFrame(p, Head(wire[p]))
    /\ UNCHANGED <<session, manifest, native, peers>>

(* An accepted frame is on its way; the other answers are bounded here.    *)
TransportAnswers(p, frame, result) ==
    \/ /\ result = "Accepted"
       /\ Len(wire[Other(p)]) < MaxWire
       /\ wire' = [wire EXCEPT ![Other(p)] = Append(@, frame)]
       /\ UNCHANGED count
    \/ /\ result = "Retry"
       /\ MayFault
       /\ count' = [count EXCEPT !.retries = @ + 1]
       /\ UNCHANGED wire
    \/ /\ result = "Failed"
       /\ MayFault
       /\ count' = [count EXCEPT !.faults = @ + 1]
       /\ UNCHANGED wire

(* The pump with the lock held and connection c stored: submit the next    *)
(* frame, which the transport puts on the wire if it accepts it, or end    *)
(* the pass.                                                               *)
PumpOn(p, c, submitted) ==
    LET choices == IF RemoteAvailable(p) /\ submitted < Batch
                   THEN ControlFrames(c, manifest[p]) ELSE {}
    IN  /\ conn' = [conn EXCEPT ![p] = c]
        /\ IF choices = {}
           THEN /\ pass' = [pass EXCEPT ![p] = Idle]
                /\ UNCHANGED <<wire, count>>
           ELSE \E frame \in choices, result \in Results :
                  /\ pass' = [pass EXCEPT ![p] =
                       Submitting([id |-> c.id, phase |-> c.phase, frame |-> frame,
                                   result |-> result], submitted + 1)]
                  /\ TransportAnswers(p, frame, result)

(* Reading stops at an empty channel or after a full batch.                *)
PumpBegin(p) ==
    /\ pass[p].at = "Receiving"
    /\ wire[p] = <<>> \/ pass[p].n = Batch
    /\ hello' = IF Server(p) THEN ExpireHello(hello) ELSE hello
    /\ PumpOn(p, Timeout(conn[p]), 0)
    /\ UNCHANGED <<session, manifest, native, offer, peers>>

(* The lock is held again: recheck the exchange, apply the answer.         *)
PumpResume(p) ==
    /\ pass[p].at = "Submitting"
    /\ LET sub == pass[p].sub
           c == AfterSubmit(conn[p], sub)
       IN  IF PumpGoesOn(conn[p], sub)
           THEN PumpOn(p, c, pass[p].n)
           ELSE /\ conn' = [conn EXCEPT ![p] = c]
                /\ pass' = [pass EXCEPT ![p] = Idle]
                /\ UNCHANGED <<wire, count>>
    /\ UNCHANGED <<session, manifest, native, hello, offer, peers>>

(* The transport cannot be read, or is gone: every remote connection fails *)
(* and the pass ends.                                                      *)
CarrierFailed(p) ==
    /\ pass[p].at = "Receiving"
    /\ MayFault
    /\ count' = [count EXCEPT !.faults = @ + 1]
    /\ pass' = [pass EXCEPT ![p] = Idle]
    /\ conn' = [conn EXCEPT ![p] = IF @.id # 0 THEN FailConnection(@) ELSE @]
    /\ hello' = IF Server(p) THEN NoHello ELSE hello
    /\ UNCHANGED <<session, manifest, native, wire, offer, peers>>

-----------------------------------------------------------------------------
(* A patch gives up on a feature, from any thread.                         *)
Fail(p) ==
    /\ conn[p].id # 0
    /\ count.fails[p] < MaxFails
    /\ \E f \in conn[p].paths \ conn[p].failed :
         conn' = [conn EXCEPT ![p] = FailPath(@, f)]
    /\ count' = [count EXCEPT !.fails[p] = @ + 1]
    /\ UNCHANGED <<session, manifest, native, hello, pass, wire, offer, peers>>

-----------------------------------------------------------------------------
(* The environment.  A servicing pass samples the clock once, so a         *)
(* deadline passes between two passes of its process; another thread's     *)
(* receive() samples it anew.                                              *)
ClockAdvances(p) ==
    pass[p] = Idle \/ (ReceiveDuringSubmit /\ pass[p].at = "Submitting")

DeadlinePasses(p) ==
    /\ ClockAdvances(p)
    /\ conn[p].id # 0
    /\ conn[p].phase \in Negotiating
    /\ ~conn[p].due
    /\ conn' = [conn EXCEPT ![p].due = TRUE]
    /\ UNCHANGED <<session, manifest, native, hello, pass, wire, offer, peers, count>>

HelloDeadlinePasses ==
    /\ ClockAdvances("Host")
    /\ hello.client # 0
    /\ ~hello.due
    /\ hello' = [hello EXCEPT !.due = TRUE]
    /\ UNCHANGED <<session, manifest, native, conn, pass, wire, offer, peers, count>>

(* A process or its route goes away with the frames still in flight to it. *)
LoseFrames(p) ==
    /\ wire[p] # <<>>
    /\ MayFault
    /\ wire' = [wire EXCEPT ![p] = <<>>]
    /\ count' = [count EXCEPT !.faults = @ + 1]
    /\ UNCHANGED <<session, manifest, native, conn, hello, pass, offer, peers>>

Next ==
    \/ \E p \in Procs :
          \/ Begin(p) \/ End(p)
          \/ NativeConnect(p) \/ NativeDisconnect(p) \/ NativeReset(p)
          \/ ServiceBegin(p) \/ Receive(p) \/ PumpBegin(p) \/ PumpResume(p)
          \/ CarrierFailed(p) \/ Fail(p)
          \/ DeadlinePasses(p) \/ LoseFrames(p)
    \/ HelloDeadlinePasses

Spec == Init /\ [][Next]_vars

-----------------------------------------------------------------------------
(* Fairness.  The game calls its own receive function again and again, so  *)
(* the pass runs to its end.  Nothing else has to happen.                  *)
Servicing(p) == ServiceBegin(p) \/ Receive(p) \/ PumpBegin(p) \/ PumpResume(p)

ServicedSpec == Spec /\ \A p \in Procs : WF_vars(Servicing(p))

-----------------------------------------------------------------------------
(* Properties. *)

Counts ==
    [sessions : [Procs -> Nat], fails : [Procs -> Nat],
     faults : Nat, retries : Nat]

(* Every variable keeps its shape. *)
TypeOK ==
    /\ session \in [Procs -> BOOLEAN]
    /\ manifest \in [Procs -> SUBSET Features]
    /\ native \in [Procs -> BOOLEAN]
    /\ conn \in [Procs -> Connections]
    /\ hello \in Hellos
    /\ pass \in [Procs -> Passes]
    /\ wire \in [Procs -> Seq(Frames)]
    /\ offer \in [Procs -> Seq(SUBSET Features)]
    /\ peers \in [Procs -> Nat]
    /\ count \in Counts

InFlight(p) == {wire[p][i] : i \in 1..Len(wire[p])}

(* The token by which p knows the other process's list.                    *)
RemoteToken(p) == IF Server(p) THEN conn[p].client ELSE conn[p].host

(* An established connection supports exactly the features that both the   *)
(* process's own frozen list and the list the peer froze for this very     *)
(* exchange contain: no frame of an earlier attempt or session, a          *)
(* retained Hello or a replacement Hello leaves it with another list.      *)
AgreementSound ==
    \A p \in Procs : conn[p].phase = "Established" =>
        /\ RemoteToken(p) \in 1..Len(offer[Other(p)])
        /\ conn[p].supported = conn[p].paths \cap offer[Other(p)][RemoteToken(p)]

SameTokens ==
    /\ conn["Host"].client = conn["Client"].client
    /\ conn["Host"].host = conn["Client"].host

Completed ==
    SameTokens /\ \A p \in Procs : conn[p].phase = "Established"

(* When both ends have completed the same exchange, they agree on which    *)
(* features are compatible.                                                *)
SameAgreement ==
    Completed => conn["Host"].supported = conn["Client"].supported

(* The host completes an exchange only with a client that accepted its     *)
(* Welcome: while that client attempt lasts, it holds the same host token  *)
(* and has nothing left to wait for.  A Ready of a replaced Hello or of an *)
(* earlier attempt never confirms a later one.                             *)
ConfirmedByClient ==
    (/\ conn["Host"].phase = "Established"
     /\ conn["Client"].id # 0
     /\ conn["Host"].client = conn["Client"].client) =>
        /\ conn["Host"].host = conn["Client"].host
        /\ conn["Client"].phase \in {"Ready", "Established", "Expired", "Failed"}

(* The outcome of an attempt is final: an answer to a submission, or a     *)
(* late frame, never revives an expired or failed connection, an           *)
(* established one only fails, and a failed feature stays failed.          *)
OutcomeKept(p) ==
    conn[p].id # 0 /\ conn'[p].id = conn[p].id =>
        /\ conn[p].phase = "Established" => conn'[p].phase \in {"Established", "Failed"}
        /\ conn[p].phase = "Expired" => conn'[p].phase \in {"Expired", "Failed"}
        /\ conn[p].phase = "Failed" => conn'[p].phase = "Failed"
        /\ conn[p].failed \subseteq conn'[p].failed

OutcomeIsFinal == [][\A p \in Procs : OutcomeKept(p)]_vars

(* Time passes whatever the pass does; this is strong fairness because the *)
(* model lets it pass between two passes.                                  *)
TimePasses == \A p \in Procs : SF_vars(DeadlinePasses(p))

(* Negotiation never stays pending: every attempt ends established,        *)
(* expired, failed, or replaced, whatever the peer and the network do.     *)
AttemptResolves ==
    TimePasses =>
        \A p \in Procs : \A k \in 1..MaxPeers :
            []<>(conn[p].id # k \/ conn[p].phase \notin Negotiating)

(* Two processes whose native connections last complete the exchange: the  *)
(* Hello may reach the host before the native connection does, a refused   *)
(* frame is submitted again, and the Welcome may arrive while the Hello is *)
(* still being submitted.  Only a fault, or a deadline that passes first,  *)
(* prevents it.                                                            *)
Meeting == \A p \in Procs : RemoteAvailable(p) /\ native[p]

InTime == count.faults = 0 /\ ~hello.due /\ \A p \in Procs : ~conn[p].due

HandshakeCompletes == []InTime /\ <>[]Meeting => <>[]Completed

(* A feature that one end fails, on a connection both ends completed, also *)
(* fails at the other end unless that connection ends: a notice is never   *)
(* forgotten while another is submitted.  It rests on the adapter's single *)
(* servicing pass (ReceiveDuringSubmit = FALSE): a notice that met a       *)
(* client in the middle of its Ready submission would be rejected.         *)
(* While a connection lasts its failed features only grow, so that one     *)
(* that is never shared would stay unshared for ever.                      *)
FailureIsShared ==
    \A p \in Procs : \A f \in Features :
        []<>(\/ ~Completed
             \/ f \notin conn[p].failed \cap conn[Other(p)].paths
             \/ f \in conn[Other(p)].failed)
=============================================================================
