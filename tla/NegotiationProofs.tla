-------------------------- MODULE NegotiationProofs --------------------------
(***************************************************************************)
(* Proofs about Negotiation, for every value of its constants: the type    *)
(* invariant, that an established connection supports what both ends       *)
(* froze for this exchange, and that the host only completes an exchange   *)
(* its client confirmed.                                                   *)
(*                                                                         *)
(* The inductive invariant adds what the steps in between must know: the   *)
(* lists that Hello and Welcome frames carry, on the wire, retained or     *)
(* about to be submitted, are those of their tokens; and a Ready in flight *)
(* was sent by an attempt that accepted this very Welcome.                 *)
(***************************************************************************)
EXTENDS Negotiation, TLAPS

-----------------------------------------------------------------------------
(* What each step of Connection returns: a well-formed connection, and     *)
(* which of its fields the step may change.                                *)

(* The fields that say which exchange a connection is in, and with whom.   *)
SameSupport(c, d) ==
    /\ d.id = c.id /\ d.client = c.client /\ d.host = c.host
    /\ d.paths = c.paths /\ d.supported = c.supported

(* An empty slot, and a new connection in it, are well formed. *)
LEMMA NewConnectionType ==
    ASSUME NEW id \in Nat, NEW featureIds \in SUBSET Features
    PROVE  /\ NoConnection \in Connections
           /\ NewConnection(id, featureIds) \in Connections
           /\ NewConnection(id, featureIds).phase = "AwaitHello"
           /\ NewConnection(id, featureIds).id = id
           /\ NewConnection(id, featureIds).client = 0
           /\ NewConnection(id, featureIds).paths = featureIds
  BY DEF NoConnection, NewConnection, Connections, Phases

(* fail_connection() keeps the exchange and is final. *)
LEMMA FailConnectionStep ==
    ASSUME NEW c \in Connections
    PROVE  /\ FailConnection(c) \in Connections
           /\ [FailConnection(c) EXCEPT !.whole = FALSE] \in Connections
           /\ SameSupport(c, FailConnection(c))
           /\ SameSupport(c, [FailConnection(c) EXCEPT !.whole = FALSE])
           /\ FailConnection(c).phase = "Failed"
           /\ [FailConnection(c) EXCEPT !.whole = FALSE].phase = "Failed"
  BY DEF FailConnection, Connections, Phases, SameSupport

(* A deadline either does nothing or expires a negotiation. *)
LEMMA TimeoutStep ==
    ASSUME NEW c \in Connections
    PROVE  /\ Timeout(c) \in Connections
           /\ SameSupport(c, Timeout(c))
           /\ \/ Timeout(c) = c
              \/ Timeout(c).phase = "Expired" /\ c.phase \in Negotiating
  BY DEF Timeout, Negotiating, Connections, Phases, SameSupport

(* A feature failure changes no phase. *)
LEMMA FailPathStep ==
    ASSUME NEW c \in Connections, NEW f \in Features
    PROVE  /\ FailPath(c, f) \in Connections
           /\ SameSupport(c, FailPath(c, f))
           /\ FailPath(c, f).phase = c.phase
  BY DEF FailPath, Connections, SameSupport

(* A Hello that opens an exchange leaves it informed, or failed. *)
OpenedBy(c, client, list, token, d) ==
    /\ d \in Connections
    /\ d.id = c.id /\ d.paths = c.paths
    /\ \/ d.phase = "Failed"
       \/ /\ token # 0
          /\ d.phase = "Welcome" /\ d.client = client /\ d.host = token
          /\ d.supported = c.paths \cap list

LEMMA AcceptHelloStep ==
    ASSUME NEW c \in Connections, NEW client \in Nat,
           NEW list \in SUBSET Features, NEW token \in Nat
    PROVE  OpenedBy(c, client, list, token, AcceptHello(c, client, list, token))
  BY DEF OpenedBy, AcceptHello, FailConnection, Connections, Phases

(* A frame about the peer's failures fails the connection or a path. *)
LEMMA PeerFailedStep ==
    ASSUME NEW c \in Connections, NEW feature \in Features \cup {NoFeature}
    PROVE  /\ PeerFailed(c, feature) \in Connections
           /\ SameSupport(c, PeerFailed(c, feature))
           /\ PeerFailed(c, feature).phase \in {c.phase, "Failed"}
  BY DEF PeerFailed, FailConnection, Connections, Phases, SameSupport

(* Any other frame: a client accepts a Welcome, a host accepts a Ready, or *)
(* the exchange stays and at most fails.                                   *)
AnsweredBy(c, frame, server, d) ==
    /\ d \in Connections
    /\ \/ /\ AcceptsWelcome(c, frame, server)
          /\ d = [c EXCEPT !.host = frame.host,
                           !.supported = c.paths \cap frame.manifest,
                           !.phase = "Ready"]
       \/ /\ AcceptsReady(c, frame, server)
          /\ d = [c EXCEPT !.phase = "Established"]
       \/ SameSupport(c, d) /\ d.phase \in {c.phase, "Failed"}

LEMMA AcceptFrameStep ==
    ASSUME NEW c \in Connections, NEW frame \in Frames, NEW server \in BOOLEAN
    PROVE  AnsweredBy(c, frame, server, AcceptFrame(c, frame, server))
  <1> DEFINE d == AcceptFrame(c, frame, server)
  <1> frame.feature \in Features \cup {NoFeature} BY DEF Frames
  <1>1. CASE AcceptsWelcome(c, frame, server)
    <2>1. d = [c EXCEPT !.host = frame.host,
                        !.supported = c.paths \cap frame.manifest, !.phase = "Ready"]
      BY <1>1 DEF AcceptFrame, AcceptsWelcome, AcceptsReady, AcceptsFailed
    <2> QED BY ZenonT(120), <1>1, <2>1 DEF AnsweredBy, Connections, Phases, Frames
  <1>2. CASE AcceptsReady(c, frame, server)
    <2>1. d = [c EXCEPT !.phase = "Established"]
      BY <1>2 DEF AcceptFrame, AcceptsWelcome, AcceptsReady, AcceptsFailed
    <2> QED BY <1>2, <2>1 DEF AnsweredBy, Connections, Phases
  <1>3. CASE AcceptsFailed(c, frame)
    <2>1. d = PeerFailed(c, frame.feature)
      BY <1>3 DEF AcceptFrame, AcceptsWelcome, AcceptsReady, AcceptsFailed
    <2> QED BY <2>1, PeerFailedStep DEF AnsweredBy
  <1>4. CASE ~AcceptsWelcome(c, frame, server) /\ ~AcceptsReady(c, frame, server)
             /\ ~AcceptsFailed(c, frame)
    <2>1. d = c
      BY <1>4 DEF AcceptFrame
    <2> QED BY <2>1 DEF AnsweredBy, SameSupport
  <1> QED BY <1>1, <1>2, <1>3, <1>4

(* What the pump chooses names the exchange of the connection and, in a    *)
(* Hello or a Welcome, the list it was given.                              *)
LEMMA ControlFramesStep ==
    ASSUME NEW c \in Connections, NEW list \in SUBSET Features,
           NEW frame \in ControlFrames(c, list)
    PROVE  /\ frame \in Frames
           /\ frame.client = c.client /\ frame.host = c.host
           /\ frame.client # 0
           /\ frame.kind = "Hello" => c.phase = "Hello" /\ frame.manifest = list
           /\ frame.kind = "Welcome" => c.phase = "Welcome" /\ frame.manifest = list
           /\ frame.kind = "Ready" => c.phase = "Ready"
           /\ frame.kind # "Hello" => frame.host # 0
  <1> DEFINE Common(g) == /\ g \in Frames /\ g.client = c.client /\ g.host = c.host
  <1>0. c.notice \subseteq Features BY DEF Connections
  <1>1. ASSUME NEW kind \in Kinds, NEW m \in SUBSET Features,
               NEW f \in Features \cup {NoFeature}
        PROVE  /\ Common(Frame(kind, c, m, f)) /\ Frame(kind, c, m, f).kind = kind
               /\ Frame(kind, c, m, f).manifest = m
    BY DEF Frame, Frames, Connections
  <1>2. CASE c.phase = "Hello"
    <2>1. frame = Frame("Hello", c, list, NoFeature) /\ ValidTokens(frame)
      BY <1>2 DEF ControlFrames
    <2> QED BY <1>1, <1>2, <2>1 DEF ValidTokens, Kinds
  <1>3. CASE c.phase = "Welcome"
    <2>1. frame = Frame("Welcome", c, list, NoFeature) /\ ValidTokens(frame)
      BY <1>3 DEF ControlFrames
    <2> QED BY <1>1, <1>3, <2>1 DEF ValidTokens, Kinds
  <1>4. CASE c.phase = "Ready"
    <2>1. frame = Frame("Ready", c, {}, NoFeature) /\ ValidTokens(frame)
      BY <1>4 DEF ControlFrames
    <2> QED BY <1>1, <1>4, <2>1 DEF ValidTokens, Kinds
  <1>5. CASE c.phase \in {"Established", "Failed"}
    <2>1. /\ ValidTokens(frame)
          /\ \E f \in Features \cup {NoFeature} : frame = Frame("Failed", c, {}, f)
      BY <1>0, <1>5 DEF ControlFrames
    <2> QED BY <1>1, <2>1 DEF ValidTokens, Kinds
  <1>6. CASE c.phase \notin {"Hello", "Welcome", "Ready", "Established", "Failed"}
    BY <1>6 DEF ControlFrames
  <1> QED BY <1>2, <1>3, <1>4, <1>5, <1>6

(* The answer of the transport keeps the exchange; an accepted handshake   *)
(* frame moves the phase on only where the submission left it.             *)
LEMMA AfterSubmitStep ==
    ASSUME NEW c \in Connections, NEW sub \in Submissions
    PROVE  /\ AfterSubmit(c, sub) \in Connections
           /\ SameSupport(c, AfterSubmit(c, sub))
           /\ AfterSubmit(c, sub).phase \in {c.phase, NextPhase(c.phase), "Failed"}
  <1> DEFINE d == AfterSubmit(c, sub)
  <1>1. NextPhase(c.phase) \in Phases
    BY DEF NextPhase, Connections, Phases
  <1>2. CASE ~SameExchange(c, sub) \/ sub.result = "Retry"
    BY <1>2 DEF AfterSubmit, SameSupport
  <1>3. CASE SameExchange(c, sub) /\ sub.result = "Failed"
    <2>1. d = [FailConnection(c) EXCEPT !.whole = FALSE]
      BY <1>3 DEF AfterSubmit
    <2> QED BY <2>1, FailConnectionStep
  <1>4. CASE SameExchange(c, sub) /\ sub.result \notin {"Retry", "Failed"}
    <2>1. CASE sub.frame.kind # "Failed"
      <3>1. d = [c EXCEPT !.phase = IF c.phase = sub.phase THEN NextPhase(c.phase) ELSE c.phase]
        BY <1>4, <2>1 DEF AfterSubmit
      <3> QED BY <1>1, <3>1 DEF Connections, SameSupport
    <2>2. CASE sub.frame.kind = "Failed"
      <3>1. \/ d = [c EXCEPT !.whole = FALSE]
            \/ d = [c EXCEPT !.notice = c.notice \ {sub.frame.feature}]
        BY <1>4, <2>2 DEF AfterSubmit
      <3> QED BY <3>1 DEF Connections, SameSupport
    <2> QED BY <2>1, <2>2
  <1> QED BY <1>2, <1>3, <1>4


-----------------------------------------------------------------------------
(* The inductive invariant.  Its parts are predicates of values, so that   *)
(* the lemmas about them hold before and after a step alike.               *)

(* The token was drawn while this list was frozen. *)
Offered(offers, token, list) == token \in 1..Len(offers) /\ list = offers[token]

InformedBy(c, token, offers) ==
    token \in 1..Len(offers) /\ c.supported = c.paths \cap offers[token]

(* The client attempt cc, if it is the one of this client token, accepted  *)
(* the Welcome with this host token.                                       *)
Confirmed(cc, client, host) ==
    cc.id # 0 /\ cc.client = client =>
        cc.host = host /\ cc.phase \in {"Ready", "Established", "Expired", "Failed"}

(* The host's connection c: it has no client phase; from the Hello on it   *)
(* knows the client's list and its token stands for its own, the list of   *)
(* the session; and it only completes what the client attempt cc           *)
(* confirmed.                                                              *)
HostSound(c, offers, list, cc) ==
    /\ c.phase \notin {"Hello", "AwaitWelcome", "Ready"}
    /\ c.id # 0 => c.paths = list
    /\ c.phase \in {"Welcome", "AwaitReady", "Established"} =>
          /\ c.id # 0
          /\ InformedBy(c, c.client, offers["Client"])
          /\ Offered(offers["Host"], c.host, c.paths)
    /\ c.phase = "Established" => Confirmed(cc, c.client, c.host)

(* The client's connection c: its token stands for its own list, and from  *)
(* the Welcome on it knows the host's.                                     *)
ClientSound(c, offers, list) ==
    /\ c.client \in 0..Len(offers["Client"])
    /\ c.id # 0 => c.paths = list
    /\ c.phase \in {"Hello", "AwaitWelcome", "Ready", "Established"} =>
          c.id # 0 /\ Offered(offers["Client"], c.client, c.paths)
    /\ c.phase \in {"Ready", "Established"} => InformedBy(c, c.host, offers["Host"])

(* A frame in flight to p. *)
FrameSound(p, frame, offers, cc) ==
    /\ p = "Host" /\ frame.kind = "Hello" =>
          Offered(offers["Client"], frame.client, frame.manifest)
    /\ p = "Host" /\ frame.kind = "Ready" =>
          frame.client \in 1..Len(offers["Client"]) /\ Confirmed(cc, frame.client, frame.host)
    /\ p = "Client" /\ frame.kind = "Welcome" =>
          Offered(offers["Host"], frame.host, frame.manifest)

WireSound ==
    \A p \in Procs : \A frame \in InFlight(p) : FrameSound(p, frame, offer, conn["Client"])

HelloSound(h, offers) ==
    h.client # 0 => Offered(offers["Client"], h.client, h.manifest)

ConnectionsSound ==
    /\ HostSound(conn["Host"], offer, manifest["Host"], conn["Client"])
    /\ ClientSound(conn["Client"], offer, manifest["Client"])

IInv ==
    /\ TypeOK
    /\ ConnectionsSound
    /\ WireSound
    /\ HelloSound(hello, offer)

-----------------------------------------------------------------------------
(* Drawn tokens are never forgotten, and a client step keeps what it       *)
(* confirmed for the n tokens drawn so far.                                *)

Offers == [Procs -> Seq(SUBSET Features)]

Grows(offers, more) ==
    \A p \in Procs : /\ Len(offers[p]) <= Len(more[p])
                     /\ \A i \in 1..Len(offers[p]) : more[p][i] = offers[p][i]

KeepsConfirmed(cc, dd, n) ==
    \A client \in 1..n, host \in Nat :
        Confirmed(cc, client, host) => Confirmed(dd, client, host)

LEMMA GrowsRefl ==
    ASSUME NEW offers \in Offers
    PROVE  Grows(offers, offers)
  BY DEF Grows, Offers

LEMMA OfferedGrows ==
    ASSUME NEW offers \in Offers, NEW more \in Offers, Grows(offers, more),
           NEW p \in Procs, NEW token, NEW list, Offered(offers[p], token, list)
    PROVE  Offered(more[p], token, list)
  <1>1. Len(offers[p]) \in Nat /\ Len(more[p]) \in Nat BY DEF Offers
  <1> QED BY <1>1 DEF Offered, Grows

LEMMA InformedByGrows ==
    ASSUME NEW offers \in Offers, NEW more \in Offers, Grows(offers, more),
           NEW p \in Procs, NEW token, NEW c, InformedBy(c, token, offers[p])
    PROVE  InformedBy(c, token, more[p])
  <1>1. Len(offers[p]) \in Nat /\ Len(more[p]) \in Nat BY DEF Offers
  <1> QED BY <1>1 DEF InformedBy, Grows

(* A step that keeps the exchange keeps what the connection knows. *)
SameExchangeStep(c, d) ==
    SameSupport(c, d) /\ d.phase \in {c.phase, NextPhase(c.phase), "Failed", "Expired"}

LEMMA HostKeeps ==
    ASSUME NEW c \in Connections, NEW d \in Connections, SameExchangeStep(c, d),
           NEW offers, NEW list, NEW cc, HostSound(c, offers, list, cc)
    PROVE  HostSound(d, offers, list, cc)
  BY DEF SameExchangeStep, SameSupport, HostSound, InformedBy, NextPhase

LEMMA ClientKeeps ==
    ASSUME NEW c \in Connections, NEW d \in Connections, SameExchangeStep(c, d),
           NEW offers, NEW list, ClientSound(c, offers, list)
    PROVE  ClientSound(d, offers, list)
  BY DEF SameExchangeStep, SameSupport, ClientSound, InformedBy, NextPhase

LEMMA ConfirmedKeeps ==
    ASSUME NEW c \in Connections, NEW d \in Connections, SameExchangeStep(c, d),
           NEW n \in Nat
    PROVE  KeepsConfirmed(c, d, n)
  BY DEF SameExchangeStep, SameSupport, KeepsConfirmed, Confirmed, NextPhase

(* An empty slot has confirmed everything, and so has a fresh attempt. *)
LEMMA ConfirmedFresh ==
    ASSUME NEW cc, NEW dd, NEW n \in Nat, dd.id = 0 \/ dd.client \notin 1..n
    PROVE  KeepsConfirmed(cc, dd, n)
  BY DEF KeepsConfirmed, Confirmed

LEMMA HostGrows ==
    ASSUME NEW c \in Connections, NEW offers \in Offers, NEW more \in Offers,
           Grows(offers, more), NEW list, NEW cc, NEW dd,
           KeepsConfirmed(cc, dd, Len(offers["Client"])),
           HostSound(c, offers, list, cc)
    PROVE  HostSound(c, more, list, dd)
  <1>1. c.client \in Nat /\ c.host \in Nat BY DEF Connections
  <1>2. c.phase \in {"Welcome", "AwaitReady", "Established"} =>
          InformedBy(c, c.client, more["Client"])
    BY InformedByGrows DEF HostSound, Procs
  <1>3. c.phase \in {"Welcome", "AwaitReady", "Established"} =>
          Offered(more["Host"], c.host, c.paths)
    BY OfferedGrows DEF HostSound, Procs
  <1>4. c.phase = "Established" => Confirmed(dd, c.client, c.host)
    BY <1>1 DEF HostSound, InformedBy, KeepsConfirmed
  <1> QED BY <1>2, <1>3, <1>4 DEF HostSound

LEMMA ClientGrows ==
    ASSUME NEW c \in Connections, NEW offers \in Offers, NEW more \in Offers,
           Grows(offers, more), NEW list, ClientSound(c, offers, list)
    PROVE  ClientSound(c, more, list)
  <1>1. c.client \in 0..Len(more["Client"])
    BY DEF ClientSound, Grows, Offers, Procs
  <1> QED BY <1>1, OfferedGrows, InformedByGrows DEF ClientSound, Procs

LEMMA FrameGrows ==
    ASSUME NEW p \in Procs, NEW frame \in Frames,
           NEW offers \in Offers, NEW more \in Offers, Grows(offers, more),
           NEW cc, NEW dd, KeepsConfirmed(cc, dd, Len(offers["Client"])),
           FrameSound(p, frame, offers, cc)
    PROVE  FrameSound(p, frame, more, dd)
  <1>1. frame.client \in Nat /\ frame.host \in Nat BY DEF Frames
  <1>2. p = "Host" /\ frame.kind = "Hello" =>
          Offered(more["Client"], frame.client, frame.manifest)
    BY OfferedGrows DEF FrameSound, Procs
  <1>3. p = "Host" /\ frame.kind = "Ready" =>
          frame.client \in 1..Len(more["Client"]) /\ Confirmed(dd, frame.client, frame.host)
    BY <1>1 DEF FrameSound, KeepsConfirmed, Grows, Procs, Offers
  <1>4. p = "Client" /\ frame.kind = "Welcome" =>
          Offered(more["Host"], frame.host, frame.manifest)
    BY OfferedGrows DEF FrameSound, Procs
  <1> QED BY <1>2, <1>3, <1>4 DEF FrameSound

LEMMA HelloGrows ==
    ASSUME NEW h \in Hellos, NEW offers \in Offers, NEW more \in Offers,
           Grows(offers, more), HelloSound(h, offers)
    PROVE  HelloSound(h, more)
  BY OfferedGrows DEF HelloSound, Procs

(* Appending to a channel and reading its head. *)
LEMMA ChannelAppend ==
    ASSUME NEW s \in Seq(Frames), NEW frame \in Frames
    PROVE  /\ Append(s, frame) \in Seq(Frames)
           /\ \A i \in 1..Len(Append(s, frame)) :
                Append(s, frame)[i] = frame \/ \E j \in 1..Len(s) : Append(s, frame)[i] = s[j]
  OBVIOUS

LEMMA ChannelTail ==
    ASSUME NEW s \in Seq(Frames), s # <<>>
    PROVE  /\ Tail(s) \in Seq(Frames)
           /\ Head(s) = s[1] /\ 1 \in 1..Len(s) /\ Head(s) \in Frames
           /\ \A i \in 1..Len(Tail(s)) : \E j \in 1..Len(s) : Tail(s)[i] = s[j]
  <1>1. \A i \in 1..Len(Tail(s)) : Tail(s)[i] = s[i + 1] /\ i + 1 \in 1..Len(s)
    OBVIOUS
  <1> QED BY <1>1

-----------------------------------------------------------------------------
(* What the parts that several actions share do. *)

LEMMA PassFields ==
    ASSUME NEW q \in Passes
    PROVE  /\ q.at = "Receiving" => q.n \in Nat
           /\ q.at = "Submitting" => q.sub \in Submissions /\ q.n \in Nat
  BY DEF Passes, Idle

LEMMA PassValues ==
    ASSUME NEW n \in Nat, NEW sub \in Submissions
    PROVE  Idle \in Passes /\ Receiving(n) \in Passes /\ Submitting(sub, n) \in Passes
  BY DEF Passes, Idle, Receiving, Submitting

LEMMA CountSteps ==
    ASSUME NEW c \in Counts, NEW p \in Procs
    PROVE  /\ [c EXCEPT !.faults = @ + 1] \in Counts
           /\ [c EXCEPT !.retries = @ + 1] \in Counts
           /\ [c EXCEPT !.sessions[p] = @ + 1] \in Counts
           /\ [c EXCEPT !.fails[p] = @ + 1] \in Counts
  BY DEF Counts

LEMMA DrawStep ==
    ASSUME TypeOK, NEW p \in Procs, NEW token \in NextTokens(p), Draw(p, token)
    PROVE  /\ token \in Nat
           /\ offer' \in Offers
           /\ count' \in Counts
           /\ Grows(offer, offer')
           /\ token # 0 => /\ Offered(offer'[p], token, manifest[p])
                           /\ token = Len(offer[p]) + 1
  <1>0. offer \in Offers /\ offer[p] \in Seq(SUBSET Features) /\ Len(offer[p]) \in Nat
    BY DEF TypeOK, Offers
  <1>1. token \in Nat BY <1>0 DEF NextTokens
  <1>2. CASE token = 0
    <2>1. UNCHANGED offer /\ count' = [count EXCEPT !.faults = @ + 1]
      BY <1>2 DEF Draw
    <2>2. count' \in Counts BY <2>1, CountSteps DEF TypeOK
    <2> QED BY <1>0, <1>1, <1>2, <2>1, <2>2, GrowsRefl
  <1>3. CASE token # 0
    <2>1. /\ offer' = [offer EXCEPT ![p] = Append(@, manifest[p])]
          /\ UNCHANGED count
          /\ token = Len(offer[p]) + 1
      BY <1>3 DEF Draw, NextTokens
    <2>2. manifest[p] \in SUBSET Features BY DEF TypeOK
    <2>3. /\ Append(offer[p], manifest[p]) \in Seq(SUBSET Features)
          /\ Len(Append(offer[p], manifest[p])) = Len(offer[p]) + 1
          /\ Append(offer[p], manifest[p])[Len(offer[p]) + 1] = manifest[p]
          /\ \A i \in 1..Len(offer[p]) : Append(offer[p], manifest[p])[i] = offer[p][i]
      BY <1>0, <2>2
    <2>4. offer' \in Offers BY <1>0, <2>1, <2>3 DEF Offers
    <2>5. \A q \in Procs : offer'[q] = IF q = p THEN Append(offer[p], manifest[p]) ELSE offer[q]
      BY <1>0, <2>1 DEF Offers
    <2>6. Grows(offer, offer')
      <3> SUFFICES ASSUME NEW q \in Procs
                   PROVE  /\ Len(offer[q]) <= Len(offer'[q])
                          /\ \A i \in 1..Len(offer[q]) : offer'[q][i] = offer[q][i]
        BY DEF Grows
      <3>1. CASE q = p
        <4>1. offer'[q] = Append(offer[p], manifest[p]) BY <2>5, <3>1
        <4>2. Len(Append(offer[p], manifest[p])) \in Nat BY <1>0, <2>3
        <4> QED BY <1>0, <2>3, <3>1, <4>1, <4>2
      <3>2. CASE q # p
        <4>1. offer'[q] = offer[q] /\ Len(offer[q]) \in Nat BY <1>0, <2>5, <3>2 DEF Offers
        <4> QED BY <4>1
      <3> QED BY <3>1, <3>2
    <2>7. Offered(offer'[p], token, manifest[p])
      <3>1. offer'[p] = Append(offer[p], manifest[p]) BY <2>5
      <3> QED BY <1>0, <2>1, <2>3, <3>1 DEF Offered
    <2> QED BY <1>1, <2>1, <2>4, <2>6, <2>7 DEF TypeOK
  <1> QED BY <1>2, <1>3

(* A Hello on the host's connection: another connection record, which      *)
(* knows the client's list if it answers.                                  *)
LEMMA HostHelloStep ==
    ASSUME TypeOK, NEW c \in Connections, c.id # 0, NEW client \in Nat, NEW list \in SUBSET Features,
           HostHello(c, client, list)
    PROVE  /\ offer' \in Offers /\ count' \in Counts /\ Grows(offer, offer')
           /\ \E d \in Connections :
                /\ conn' = [conn EXCEPT !["Host"] = d]
                /\ (/\ HostSound(c, offer, manifest["Host"], conn["Client"])
                    /\ Offered(offer["Client"], client, list)) =>
                       HostSound(d, offer', manifest["Host"], conn["Client"])
  <1>0. offer \in Offers /\ "Host" \in Procs /\ "Client" \in Procs
    BY DEF TypeOK, Offers, Procs
  <1>1. CASE HelloOpens(c, client)
    <2>1. PICK token \in NextTokens("Host") :
             /\ Draw("Host", token)
             /\ conn' = [conn EXCEPT !["Host"] = AcceptHello(c, client, list, token)]
      BY <1>1 DEF HostHello
    <2>2. /\ token \in Nat /\ offer' \in Offers /\ count' \in Counts /\ Grows(offer, offer')
          /\ token # 0 => Offered(offer'["Host"], token, manifest["Host"])
      BY <1>0, <2>1, DrawStep
    <2> DEFINE d == AcceptHello(c, client, list, token)
    <2>3. OpenedBy(c, client, list, token, d)
      <3>1. token \in Nat BY <2>2
      <3> QED BY <3>1, AcceptHelloStep
    <2>4. ASSUME HostSound(c, offer, manifest["Host"], conn["Client"]),
                 Offered(offer["Client"], client, list)
          PROVE  HostSound(d, offer', manifest["Host"], conn["Client"])
      <3>1. Offered(offer'["Client"], client, list)
        BY <1>0, <2>2, <2>4, OfferedGrows
      <3> HIDE DEF d
      <3>2. d.id # 0 /\ d.paths = manifest["Host"]
        BY <2>3, <2>4 DEF OpenedBy, HostSound
      <3> QED BY <2>2, <2>3, <3>1, <3>2 DEF OpenedBy, HostSound, InformedBy, Offered
    <2>5. d \in Connections BY <2>3 DEF OpenedBy
    <2> QED BY <2>1, <2>2, <2>4, <2>5
  <1>2. CASE ~HelloOpens(c, client)
    <2>1. conn' = [conn EXCEPT !["Host"] = c] /\ UNCHANGED <<offer, count>>
      BY <1>2 DEF HostHello
    <2> QED BY <1>0, <2>1, GrowsRefl DEF TypeOK
  <1> QED BY <1>1, <1>2

(* The pump stores c and may put one more frame on the wire, which names   *)
(* the exchange of c and carries the list p froze.                         *)
LEMMA PumpOnStep ==
    ASSUME TypeOK, NEW p \in Procs, NEW c \in Connections, NEW submitted \in Nat,
           PumpOn(p, c, submitted)
    PROVE  /\ conn' = [conn EXCEPT ![p] = c]
           /\ pass' \in [Procs -> Passes]
           /\ wire' \in [Procs -> Seq(Frames)]
           /\ count' \in Counts
           /\ \/ UNCHANGED wire
              \/ \E frame \in ControlFrames(c, manifest[p]) :
                   wire' = [wire EXCEPT ![Other(p)] = Append(@, frame)]
  <1>0. /\ manifest[p] \in SUBSET Features /\ Other(p) \in Procs
        /\ wire[Other(p)] \in Seq(Frames) /\ c.id \in Nat /\ c.phase \in Phases
    BY DEF TypeOK, Procs, Other, Connections
  <1>1. CASE pass' = [pass EXCEPT ![p] = Idle] /\ UNCHANGED <<wire, count>>
    <2>1. Idle \in Passes BY DEF Passes
    <2> QED BY <1>1, <2>1 DEF PumpOn, TypeOK
  <1>2. CASE \E frame \in ControlFrames(c, manifest[p]), result \in Results :
               /\ pass' = [pass EXCEPT ![p] =
                     Submitting([id |-> c.id, phase |-> c.phase, frame |-> frame,
                                 result |-> result], submitted + 1)]
               /\ TransportAnswers(p, frame, result)
    <2>1. PICK frame \in ControlFrames(c, manifest[p]), result \in Results :
               /\ pass' = [pass EXCEPT ![p] =
                     Submitting([id |-> c.id, phase |-> c.phase, frame |-> frame,
                                 result |-> result], submitted + 1)]
               /\ TransportAnswers(p, frame, result)
      BY <1>2
    <2>2. frame \in Frames BY <1>0, ControlFramesStep
    <2>3. [id |-> c.id, phase |-> c.phase, frame |-> frame, result |-> result] \in Submissions
      BY <1>0, <2>2, NegotiationAssumption DEF Submissions
    <2>4. pass' \in [Procs -> Passes]
      BY <2>1, <2>3, PassValues DEF TypeOK
    <2>5. \/ wire' = [wire EXCEPT ![Other(p)] = Append(@, frame)] /\ UNCHANGED count
          \/ UNCHANGED wire /\ \/ count' = [count EXCEPT !.retries = @ + 1]
                               \/ count' = [count EXCEPT !.faults = @ + 1]
      BY <2>1 DEF TransportAnswers
    <2>6. Append(wire[Other(p)], frame) \in Seq(Frames) BY <1>0, <2>2
    <2>7. wire' \in [Procs -> Seq(Frames)]
      BY <1>0, <2>5, <2>6 DEF TypeOK
    <2>8. count' \in Counts
      BY <2>5, CountSteps DEF TypeOK
    <2> QED BY <2>1, <2>4, <2>5, <2>7, <2>8 DEF PumpOn
  <1> QED BY <1>1, <1>2 DEF PumpOn
-----------------------------------------------------------------------------
(* What a step does to the connections, as one fact: both stay sound, no   *)
(* token is forgotten, and nothing confirmed is taken back.                *)
ConnectionsKeep ==
    /\ ConnectionsSound'
    /\ Grows(offer, offer')
    /\ KeepsConfirmed(conn["Client"], conn'["Client"], Len(offer["Client"]))

(* The invariant follows from it if the frames that are new are sound.     *)
LEMMA InvariantStep ==
    ASSUME IInv, TypeOK', ConnectionsKeep, HelloSound(hello', offer),
           \A p \in Procs : \A frame \in InFlight(p)' :
               frame \in InFlight(p) \/ FrameSound(p, frame, offer', conn'["Client"])
    PROVE  IInv'
  <1>1. offer \in Offers /\ offer' \in Offers BY DEF IInv, TypeOK, Offers
  <1>2. HelloSound(hello', offer')
    BY <1>1, HelloGrows DEF TypeOK, ConnectionsKeep
  <1>3. ASSUME NEW p \in Procs, NEW frame \in InFlight(p)
        PROVE  FrameSound(p, frame, offer', conn'["Client"])
    <2>1. FrameSound(p, frame, offer, conn["Client"]) BY <1>3 DEF IInv, WireSound
    <2>2. frame \in Frames BY <1>3 DEF IInv, TypeOK, InFlight
    <2> QED BY <1>1, <2>1, <2>2, FrameGrows DEF ConnectionsKeep
  <1>4. WireSound' BY <1>3 DEF WireSound
  <1> QED BY <1>2, <1>4 DEF IInv, ConnectionsKeep

(* A step inside the exchange of one connection. *)
LEMMA KeepOne ==
    ASSUME TypeOK, ConnectionsSound, NEW p \in Procs, NEW d \in Connections,
           SameExchangeStep(conn[p], d), conn' = [conn EXCEPT ![p] = d],
           UNCHANGED <<offer, manifest>>
    PROVE  ConnectionsKeep
  <1>1. /\ offer \in Offers /\ Len(offer["Client"]) \in Nat
        /\ conn["Host"] \in Connections /\ conn["Client"] \in Connections
    BY DEF TypeOK, Offers, Procs
  <1>2. Grows(offer, offer') BY <1>1, GrowsRefl
  <1>3. CASE p = "Host"
    <2>1. conn'["Host"] = d /\ conn'["Client"] = conn["Client"]
      BY <1>3 DEF TypeOK, Procs
    <2>2. KeepsConfirmed(conn["Client"], conn'["Client"], Len(offer["Client"]))
      BY <2>1 DEF KeepsConfirmed
    <2>3. HostSound(d, offer, manifest["Host"], conn["Client"])
      BY <1>1, <1>3, HostKeeps DEF ConnectionsSound
    <2> QED BY <1>2, <2>1, <2>2, <2>3 DEF ConnectionsKeep, ConnectionsSound
  <1>4. CASE p = "Client"
    <2>1. conn'["Client"] = d /\ conn'["Host"] = conn["Host"]
      BY <1>4 DEF TypeOK, Procs
    <2>2. KeepsConfirmed(conn["Client"], d, Len(offer["Client"]))
      BY <1>1, <1>4, ConfirmedKeeps
    <2>3. ClientSound(d, offer, manifest["Client"])
      BY <1>1, <1>4, ClientKeeps DEF ConnectionsSound
    <2>4. HostSound(conn["Host"], offer, manifest["Host"], d)
      BY <1>1, <1>2, <2>2, HostGrows DEF ConnectionsSound
    <2> QED BY <1>2, <2>1, <2>2, <2>3, <2>4 DEF ConnectionsKeep, ConnectionsSound
  <1> QED BY <1>3, <1>4 DEF Procs

LEMMA KeepAll ==
    ASSUME TypeOK, ConnectionsSound, UNCHANGED <<conn, offer, manifest>>
    PROVE  ConnectionsKeep
  <1>1. offer \in Offers BY DEF TypeOK, Offers
  <1>2. KeepsConfirmed(conn["Client"], conn["Client"], Len(offer["Client"]))
    BY DEF KeepsConfirmed
  <1> QED BY <1>1, <1>2, GrowsRefl DEF ConnectionsKeep, ConnectionsSound

(* A slot is emptied, and the feature list of its process may change.      *)
LEMMA KeepReset ==
    ASSUME TypeOK, ConnectionsSound, NEW p \in Procs,
           conn' = [conn EXCEPT ![p] = NoConnection], UNCHANGED offer,
           \A q \in Procs \ {p} : manifest'[q] = manifest[q]
    PROVE  ConnectionsKeep
  <1>1. /\ offer \in Offers /\ Len(offer["Client"]) \in Nat
        /\ conn["Host"] \in Connections /\ conn["Client"] \in Connections
    BY DEF TypeOK, Offers, Procs
  <1>2. Grows(offer, offer') BY <1>1, GrowsRefl
  <1>3. CASE p = "Host"
    <2>1. /\ conn'["Host"] = NoConnection /\ conn'["Client"] = conn["Client"]
          /\ manifest'["Client"] = manifest["Client"]
      BY <1>3 DEF TypeOK, Procs
    <2>2. KeepsConfirmed(conn["Client"], conn'["Client"], Len(offer["Client"]))
      BY <2>1 DEF KeepsConfirmed
    <2>3. HostSound(NoConnection, offer, manifest'["Host"], conn["Client"])
      BY DEF HostSound, NoConnection
    <2> QED BY <1>2, <2>1, <2>2, <2>3 DEF ConnectionsKeep, ConnectionsSound
  <1>4. CASE p = "Client"
    <2>1. /\ conn'["Client"] = NoConnection /\ conn'["Host"] = conn["Host"]
          /\ manifest'["Host"] = manifest["Host"]
      BY <1>4 DEF TypeOK, Procs
    <2>2. KeepsConfirmed(conn["Client"], NoConnection, Len(offer["Client"]))
      BY <1>1, ConfirmedFresh DEF NoConnection
    <2>3. ClientSound(NoConnection, offer, manifest'["Client"])
      BY <1>1 DEF ClientSound, NoConnection
    <2>4. HostSound(conn["Host"], offer, manifest["Host"], NoConnection)
      BY <1>1, <1>2, <2>2, HostGrows DEF ConnectionsSound
    <2> QED BY <1>2, <2>1, <2>2, <2>3, <2>4 DEF ConnectionsKeep, ConnectionsSound
  <1> QED BY <1>3, <1>4 DEF Procs

(* The host, or the client, takes another connection record. *)
LEMMA KeepHost ==
    ASSUME TypeOK, ConnectionsSound, NEW d \in Connections,
           conn' = [conn EXCEPT !["Host"] = d], UNCHANGED manifest,
           offer' \in Offers, Grows(offer, offer'),
           HostSound(d, offer', manifest["Host"], conn["Client"])
    PROVE  ConnectionsKeep
  <1>1. /\ offer \in Offers /\ conn["Client"] \in Connections
        /\ conn'["Host"] = d /\ conn'["Client"] = conn["Client"]
    BY DEF TypeOK, Offers, Procs
  <1>2. KeepsConfirmed(conn["Client"], conn'["Client"], Len(offer["Client"]))
    BY <1>1 DEF KeepsConfirmed
  <1>3. ClientSound(conn["Client"], offer', manifest["Client"])
    BY <1>1, ClientGrows DEF ConnectionsSound
  <1> QED BY <1>1, <1>2, <1>3 DEF ConnectionsKeep, ConnectionsSound

LEMMA KeepClient ==
    ASSUME TypeOK, ConnectionsSound, NEW d \in Connections,
           conn' = [conn EXCEPT !["Client"] = d], UNCHANGED manifest,
           offer' \in Offers, Grows(offer, offer'),
           ClientSound(d, offer', manifest["Client"]),
           KeepsConfirmed(conn["Client"], d, Len(offer["Client"]))
    PROVE  ConnectionsKeep
  <1>1. /\ offer \in Offers /\ conn["Host"] \in Connections
        /\ conn'["Client"] = d /\ conn'["Host"] = conn["Host"]
    BY DEF TypeOK, Offers, Procs
  <1>2. HostSound(conn["Host"], offer', manifest["Host"], d)
    BY <1>1, HostGrows DEF ConnectionsSound
  <1> QED BY <1>1, <1>2 DEF ConnectionsKeep, ConnectionsSound

-----------------------------------------------------------------------------
(* connect(): the client draws its token; the host may answer at once the  *)
(* Hello it retained.                                                      *)
LEMMA ConnectClientStep ==
    ASSUME TypeOK, ConnectClient
    PROVE  /\ conn' \in [Procs -> Connections] /\ offer' \in Offers /\ count' \in Counts
           /\ ConnectionsSound /\ UNCHANGED manifest => ConnectionsKeep
  <1> DEFINE c == NewConnection(peers["Client"] + 1, manifest["Client"])
  <1>0. /\ offer \in Offers /\ "Client" \in Procs /\ Len(offer["Client"]) \in Nat
        /\ peers["Client"] + 1 \in Nat /\ manifest["Client"] \in SUBSET Features
    BY DEF TypeOK, Offers, Procs
  <1>1. PICK token \in NextTokens("Client") :
          /\ Draw("Client", token)
          /\ conn' = [conn EXCEPT !["Client"] =
                         IF token = 0 THEN FailConnection(c)
                         ELSE [c EXCEPT !.client = token, !.phase = "Hello"]]
    BY DEF ConnectClient
  <1>2. /\ token \in Nat /\ offer' \in Offers /\ count' \in Counts /\ Grows(offer, offer')
        /\ token # 0 => /\ Offered(offer'["Client"], token, manifest["Client"])
                        /\ token = Len(offer["Client"]) + 1
    BY <1>0, <1>1, DrawStep
  <1>3. /\ c \in Connections /\ c.client = 0 /\ c.paths = manifest["Client"]
        /\ c.id = peers["Client"] + 1 /\ c.id # 0
    <2>1. peers["Client"] \in Nat BY <1>0 DEF TypeOK
    <2> QED BY <1>0, <2>1, NewConnectionType
  <1>4. CASE token = 0
    <2> HIDE DEF c
    <2>1. /\ FailConnection(c) \in Connections
          /\ FailConnection(c).phase = "Failed" /\ FailConnection(c).client = 0
          /\ FailConnection(c).paths = manifest["Client"]
      BY <1>3, FailConnectionStep DEF SameSupport
    <2>2. conn' = [conn EXCEPT !["Client"] = FailConnection(c)] BY <1>1, <1>4
    <2>3. ClientSound(FailConnection(c), offer', manifest["Client"])
      BY <1>0, <1>2, <2>1 DEF ClientSound, Offers
    <2>4. KeepsConfirmed(conn["Client"], FailConnection(c), Len(offer["Client"]))
      BY <1>0, <2>1, ConfirmedFresh
    <2> QED BY <1>2, <2>1, <2>2, <2>3, <2>4, KeepClient DEF TypeOK
  <1>5. CASE token # 0
    <2> DEFINE d == [c EXCEPT !.client = token, !.phase = "Hello"]
    <2> HIDE DEF c
    <2>1. /\ d \in Connections /\ d.client = token /\ d.phase = "Hello"
          /\ d.id # 0 /\ d.paths = manifest["Client"]
      BY <1>2, <1>3 DEF Connections, Phases
    <2>2. conn' = [conn EXCEPT !["Client"] = d] BY <1>1, <1>5
    <2> HIDE DEF d
    <2>3. ClientSound(d, offer', manifest["Client"])
      BY <1>0, <1>2, <1>5, <2>1 DEF ClientSound, Offered, Offers
    <2>4. KeepsConfirmed(conn["Client"], d, Len(offer["Client"]))
      BY <1>0, <1>2, <1>5, <2>1, ConfirmedFresh
    <2> QED BY <1>2, <2>1, <2>2, <2>3, <2>4, KeepClient DEF TypeOK
  <1> QED BY <1>4, <1>5

LEMMA ConnectHostStep ==
    ASSUME TypeOK, ConnectHost
    PROVE  /\ conn' \in [Procs -> Connections] /\ offer' \in Offers /\ count' \in Counts
           /\ hello' = NoHello
           /\ ConnectionsSound /\ HelloSound(hello, offer) /\ UNCHANGED manifest
                => ConnectionsKeep
  <1> DEFINE c == NewConnection(peers["Host"] + 1, manifest["Host"])
  <1>0. /\ offer \in Offers /\ "Host" \in Procs
        /\ peers["Host"] + 1 \in Nat /\ manifest["Host"] \in SUBSET Features
        /\ hello.client \in Nat /\ hello.manifest \in SUBSET Features
    BY DEF TypeOK, Offers, Procs, Hellos
  <1>1. /\ c \in Connections /\ c.phase = "AwaitHello" /\ c.id # 0
        /\ c.paths = manifest["Host"]
    <2>1. peers["Host"] \in Nat BY <1>0 DEF TypeOK
    <2> QED BY <1>0, <2>1, NewConnectionType
  <1>2. HostSound(c, offer, manifest["Host"], conn["Client"])
    <2> HIDE DEF c
    <2> QED BY <1>1 DEF HostSound
  <1>3. CASE hello.client # 0 /\ ~hello.due
    <2>1. HostHello(c, hello.client, hello.manifest) /\ hello' = NoHello
      BY <1>3 DEF ConnectHost
    <2> HIDE DEF c
    <2>2. /\ offer' \in Offers /\ count' \in Counts /\ Grows(offer, offer')
          /\ \E d \in Connections :
                /\ conn' = [conn EXCEPT !["Host"] = d]
                /\ (/\ HostSound(c, offer, manifest["Host"], conn["Client"])
                    /\ Offered(offer["Client"], hello.client, hello.manifest)) =>
                       HostSound(d, offer', manifest["Host"], conn["Client"])
      BY <1>0, <1>1, <2>1, HostHelloStep
    <2>3. PICK d \in Connections :
                /\ conn' = [conn EXCEPT !["Host"] = d]
                /\ Offered(offer["Client"], hello.client, hello.manifest) =>
                       HostSound(d, offer', manifest["Host"], conn["Client"])
      BY <1>2, <2>2
    <2>4. conn' \in [Procs -> Connections] BY <2>3 DEF TypeOK
    <2>5. ASSUME ConnectionsSound, HelloSound(hello, offer), UNCHANGED manifest
          PROVE  ConnectionsKeep
      <3>1. HostSound(d, offer', manifest["Host"], conn["Client"])
        BY <1>3, <2>3, <2>5 DEF HelloSound
      <3> QED BY <2>2, <2>3, <2>5, <3>1, KeepHost
    <2> QED BY <2>1, <2>2, <2>4, <2>5
  <1>4. CASE ~(hello.client # 0 /\ ~hello.due)
    <2>1. conn' = [conn EXCEPT !["Host"] = c] /\ UNCHANGED <<offer, count>>
          /\ hello' = NoHello
      BY <1>4 DEF ConnectHost
    <2> HIDE DEF c
    <2>2. conn' \in [Procs -> Connections] BY <1>1, <2>1 DEF TypeOK
    <2>3. Grows(offer, offer') BY <1>0, <2>1, GrowsRefl
    <2>4. ASSUME ConnectionsSound, UNCHANGED manifest PROVE ConnectionsKeep
      BY <1>0, <1>1, <1>2, <2>1, <2>3, <2>4, KeepHost
    <2> QED BY <1>0, <2>1, <2>2, <2>4 DEF TypeOK
  <1> QED BY <1>3, <1>4

LEMMA HelloValues ==
    ASSUME NEW h \in Hellos, NEW offers
    PROVE  /\ NoHello \in Hellos /\ HelloSound(NoHello, offers)
           /\ ExpireHello(h) \in Hellos
           /\ HelloSound(h, offers) => HelloSound(ExpireHello(h), offers)
  BY DEF NoHello, Hellos, HelloSound, ExpireHello

LEMMA ConnectStep ==
    ASSUME TypeOK, NEW p \in Procs, Connect(p)
    PROVE  /\ conn' \in [Procs -> Connections] /\ offer' \in Offers /\ count' \in Counts
           /\ peers' \in [Procs -> Nat] /\ hello' \in Hellos
           /\ UNCHANGED <<session, manifest>>
           /\ ConnectionsSound /\ HelloSound(hello, offer)
                => ConnectionsKeep /\ HelloSound(hello', offer)
  <1>1. peers' \in [Procs -> Nat] /\ UNCHANGED <<session, manifest>>
    BY DEF Connect, TypeOK
  <1>2. hello \in Hellos BY DEF TypeOK
  <1>3. CASE p = "Host"
    <2>1. ConnectHost BY <1>3 DEF Connect, Server
    <2> QED BY <1>1, <1>2, <2>1, ConnectHostStep, HelloValues
  <1>4. CASE p = "Client"
    <2>1. ConnectClient BY <1>4 DEF Connect, Server
    <2>2. UNCHANGED hello BY <2>1 DEF ConnectClient
    <2> QED BY <1>1, <1>2, <2>1, <2>2, ConnectClientStep
  <1> QED BY <1>3, <1>4 DEF Procs

-----------------------------------------------------------------------------
(* receive(): a frame that is sound leaves the connections sound.          *)

LEMMA KeepsTransitive ==
    ASSUME NEW cc, NEW dd, NEW ee, NEW n,
           KeepsConfirmed(cc, dd, n), KeepsConfirmed(dd, ee, n)
    PROVE  KeepsConfirmed(cc, ee, n)
  BY DEF KeepsConfirmed

LEMMA TimeoutExchange ==
    ASSUME NEW c \in Connections
    PROVE  Timeout(c) \in Connections /\ SameExchangeStep(c, Timeout(c))
  BY TimeoutStep DEF SameExchangeStep, SameSupport

(* Taking a frame on the connection c, whose deadline has been looked at. *)
LEMMA HostAcceptsFrame ==
    ASSUME TypeOK, NEW c \in Connections, NEW frame \in Frames, NEW d,
           d = AcceptFrame(c, frame, TRUE),
           HostSound(c, offer, manifest["Host"], conn["Client"]),
           FrameSound("Host", frame, offer, conn["Client"])
    PROVE  HostSound(d, offer, manifest["Host"], conn["Client"])
  <1>1. AnsweredBy(c, frame, TRUE, d) BY AcceptFrameStep
  <1>2. CASE AcceptsReady(c, frame, TRUE) /\ d = [c EXCEPT !.phase = "Established"]
    <2>1. /\ d.phase = "Established" /\ d.client = c.client /\ d.host = c.host
          /\ d.supported = c.supported /\ d.paths = c.paths /\ d.id = c.id
      BY <1>2 DEF Connections
    <2>2. /\ frame.kind = "Ready" /\ frame.client = c.client /\ frame.host = c.host
          /\ c.phase \in {"AwaitReady", "Welcome"}
      BY <1>2 DEF AcceptsReady
    <2>3. Confirmed(conn["Client"], d.client, d.host)
      BY <2>1, <2>2 DEF FrameSound
    <2>4. InformedBy(d, d.client, offer["Client"])
      BY <2>1, <2>2 DEF HostSound, InformedBy
    <2>5. Offered(offer["Host"], d.host, d.paths) /\ d.id # 0
      BY <2>1, <2>2 DEF HostSound
    <2> QED BY <2>1, <2>3, <2>4, <2>5 DEF HostSound
  <1>3. CASE SameSupport(c, d) /\ d.phase \in {c.phase, "Failed"}
    BY <1>1, <1>3, HostKeeps DEF SameExchangeStep, AnsweredBy
  <1>4. ~AcceptsWelcome(c, frame, TRUE) BY DEF AcceptsWelcome
  <1> QED BY <1>1, <1>2, <1>3, <1>4 DEF AnsweredBy

LEMMA ClientAcceptsFrame ==
    ASSUME TypeOK, NEW c \in Connections, NEW frame \in Frames, NEW d,
           d = AcceptFrame(c, frame, FALSE),
           ClientSound(c, offer, manifest["Client"]),
           FrameSound("Client", frame, offer, conn["Client"])
    PROVE  /\ ClientSound(d, offer, manifest["Client"])
           /\ KeepsConfirmed(c, d, Len(offer["Client"]))
  <1>0. offer["Client"] \in Seq(SUBSET Features) /\ Len(offer["Client"]) \in Nat
    BY DEF TypeOK, Procs
  <1>1. AnsweredBy(c, frame, FALSE, d) BY AcceptFrameStep
  <1>2. CASE AcceptsWelcome(c, frame, FALSE)
             /\ d = [c EXCEPT !.host = frame.host,
                              !.supported = c.paths \cap frame.manifest,
                              !.phase = "Ready"]
    <2>1. /\ d.phase = "Ready" /\ d.client = c.client /\ d.host = frame.host
          /\ d.supported = c.paths \cap frame.manifest /\ d.paths = c.paths
          /\ d.id = c.id
      BY <1>2 DEF Connections
    <2>2. frame.kind = "Welcome" /\ c.phase \in {"Hello", "AwaitWelcome"}
      BY <1>2 DEF AcceptsWelcome
    <2>3. InformedBy(d, d.host, offer["Host"])
      BY <2>1, <2>2 DEF FrameSound, Offered, InformedBy
    <2>4. ClientSound(d, offer, manifest["Client"])
      BY <2>1, <2>2, <2>3 DEF ClientSound
    <2>5. KeepsConfirmed(c, d, Len(offer["Client"]))
      BY <2>1, <2>2 DEF KeepsConfirmed, Confirmed
    <2> QED BY <2>4, <2>5
  <1>3. CASE SameSupport(c, d) /\ d.phase \in {c.phase, "Failed"}
    <2>1. SameExchangeStep(c, d) BY <1>3 DEF SameExchangeStep
    <2> QED BY <1>0, <1>1, <2>1, ClientKeeps, ConfirmedKeeps DEF AnsweredBy
  <1>4. ~AcceptsReady(c, frame, FALSE) BY DEF AcceptsReady
  <1> QED BY <1>1, <1>2, <1>3, <1>4 DEF AnsweredBy

LEMMA ReceiveUnknownStep ==
    ASSUME TypeOK, NEW p \in Procs, NEW frame \in Frames, ReceiveUnknown(p, frame)
    PROVE  /\ hello' \in Hellos
           /\ HelloSound(hello, offer) /\ FrameSound(p, frame, offer, conn["Client"])
                => HelloSound(hello', offer)
  <1>0. hello \in Hellos /\ frame.client \in Nat /\ frame.manifest \in SUBSET Features
    BY DEF TypeOK, Frames
  <1>1. CASE hello' = hello \/ hello' = ExpireHello(hello)
    BY <1>0, <1>1, HelloValues
  <1>2. CASE p = "Host" /\ frame.kind = "Hello"
             /\ hello' = [ExpireHello(hello) EXCEPT !.client = frame.client,
                                                   !.manifest = frame.manifest]
    <2>1. ExpireHello(hello) \in Hellos BY <1>0, HelloValues
    <2>2. /\ hello' \in Hellos /\ hello'.client = frame.client
          /\ hello'.manifest = frame.manifest
      BY <1>0, <1>2, <2>1 DEF Hellos
    <2> QED BY <1>2, <2>2 DEF FrameSound, HelloSound
  <1> QED BY <1>1, <1>2 DEF ReceiveUnknown, Server

LEMMA ReceiveConnectedStep ==
    ASSUME TypeOK, NEW p \in Procs, NEW frame \in Frames, ReceiveConnected(p, frame)
    PROVE  /\ conn' \in [Procs -> Connections] /\ offer' \in Offers /\ count' \in Counts
           /\ (/\ ConnectionsSound /\ FrameSound(p, frame, offer, conn["Client"])
               /\ UNCHANGED manifest) => ConnectionsKeep
  <1> DEFINE c == Timeout(conn[p])
  <1>0. /\ conn[p] \in Connections /\ offer \in Offers /\ "Host" \in Procs
        /\ frame.client \in Nat /\ frame.manifest \in SUBSET Features
        /\ Len(offer["Client"]) \in Nat
    BY DEF TypeOK, Offers, Frames, Procs
  <1>1. c \in Connections /\ SameExchangeStep(conn[p], c) /\ c.id # 0
    BY <1>0, TimeoutExchange DEF SameExchangeStep, SameSupport, ReceiveConnected
  <1>2. p = "Host" /\ ConnectionsSound => HostSound(c, offer, manifest["Host"], conn["Client"])
    BY <1>0, <1>1, HostKeeps DEF ConnectionsSound
  <1>3. p = "Client" /\ ConnectionsSound =>
          /\ ClientSound(c, offer, manifest["Client"])
          /\ KeepsConfirmed(conn["Client"], c, Len(offer["Client"]))
    BY <1>0, <1>1, ClientKeeps, ConfirmedKeeps DEF ConnectionsSound
  <1>4. CASE p = "Host" /\ HostHello(c, frame.client, frame.manifest) /\ frame.kind = "Hello"
    <2> HIDE DEF c
    <2>1. /\ offer' \in Offers /\ count' \in Counts /\ Grows(offer, offer')
          /\ \E d \in Connections :
                /\ conn' = [conn EXCEPT !["Host"] = d]
                /\ (/\ HostSound(c, offer, manifest["Host"], conn["Client"])
                    /\ Offered(offer["Client"], frame.client, frame.manifest)) =>
                       HostSound(d, offer', manifest["Host"], conn["Client"])
      BY <1>0, <1>1, <1>4, HostHelloStep
    <2>2. PICK d \in Connections :
                /\ conn' = [conn EXCEPT !["Host"] = d]
                /\ (/\ HostSound(c, offer, manifest["Host"], conn["Client"])
                    /\ Offered(offer["Client"], frame.client, frame.manifest)) =>
                       HostSound(d, offer', manifest["Host"], conn["Client"])
      BY <2>1
    <2>3. conn' \in [Procs -> Connections] BY <2>2 DEF TypeOK
    <2>4. ASSUME ConnectionsSound, FrameSound(p, frame, offer, conn["Client"]),
                 UNCHANGED manifest
          PROVE  ConnectionsKeep
      <3>1. HostSound(d, offer', manifest["Host"], conn["Client"])
        BY <1>2, <1>4, <2>2, <2>4 DEF FrameSound
      <3> QED BY <2>1, <2>2, <2>4, <3>1, KeepHost
    <2> QED BY <2>1, <2>3, <2>4
  <1>5. CASE \E d \in {c, AcceptFrame(c, frame, Server(p))} :
               conn' = [conn EXCEPT ![p] = d] /\ UNCHANGED <<offer, count>>
    <2>1. PICK d \in {c, AcceptFrame(c, frame, Server(p))} :
               conn' = [conn EXCEPT ![p] = d] /\ UNCHANGED <<offer, count>>
      BY <1>5
    <2> HIDE DEF c
    <2>2. d \in Connections
      BY <1>1, <2>1, AcceptFrameStep DEF AnsweredBy, Server
    <2>3. Grows(offer, offer') /\ offer' \in Offers BY <1>0, <2>1, GrowsRefl
    <2>4. conn' \in [Procs -> Connections] /\ count' \in Counts
      BY <2>1, <2>2 DEF TypeOK
    <2>5. ASSUME ConnectionsSound, FrameSound(p, frame, offer, conn["Client"]),
                 UNCHANGED manifest
          PROVE  ConnectionsKeep
      <3>1. CASE p = "Host"
        <4>1. HostSound(d, offer, manifest["Host"], conn["Client"])
          BY <1>1, <1>2, <2>1, <2>5, <3>1, HostAcceptsFrame DEF Server
        <4> QED BY <2>1, <2>2, <2>3, <2>5, <3>1, <4>1, KeepHost
      <3>2. CASE p = "Client"
        <4>1. d \in {c, AcceptFrame(c, frame, FALSE)} BY <2>1, <3>2 DEF Server
        <4>2. /\ ClientSound(d, offer, manifest["Client"])
              /\ KeepsConfirmed(c, d, Len(offer["Client"]))
          <5>1. CASE d = c BY <1>3, <2>5, <3>2, <5>1 DEF KeepsConfirmed
          <5>2. CASE d = AcceptFrame(c, frame, FALSE)
            BY <1>1, <1>3, <2>5, <3>2, <5>2, ClientAcceptsFrame
          <5> QED BY <4>1, <5>1, <5>2
        <4>3. KeepsConfirmed(conn["Client"], d, Len(offer["Client"]))
          BY <1>3, <2>5, <3>2, <4>2, KeepsTransitive
        <4> QED BY <2>1, <2>2, <2>3, <2>5, <3>2, <4>2, <4>3, KeepClient
      <3> QED BY <3>1, <3>2 DEF Procs
    <2> QED BY <2>3, <2>4, <2>5
  <1>6. \/ p = "Host" /\ HostHello(c, frame.client, frame.manifest) /\ frame.kind = "Hello"
        \/ \E d \in {c, AcceptFrame(c, frame, Server(p))} :
               conn' = [conn EXCEPT ![p] = d] /\ UNCHANGED <<offer, count>>
    BY DEF ReceiveConnected, Server
  <1> QED BY <1>4, <1>5, <1>6

-----------------------------------------------------------------------------
(* The invariant, one lemma per action.  Each shows that the step keeps    *)
(* the types on their own, and the whole invariant.                        *)

(* No frame is new: the rest is about the connections and the Hello.       *)
LEMMA InvariantStepQuiet ==
    ASSUME TypeOK', UNCHANGED wire,
           IInv => ConnectionsKeep /\ HelloSound(hello', offer)
    PROVE  IInv => IInv'
  BY InvariantStep DEF InFlight

LEMMA BeginStep ==
    ASSUME TypeOK, NEW p \in Procs, Begin(p)
    PROVE  TypeOK' /\ (IInv => IInv')
  <1>1. PICK frozen \in SUBSET Features : manifest' = [manifest EXCEPT ![p] = frozen]
    BY DEF Begin
  <1>2. /\ session' = [session EXCEPT ![p] = TRUE]
        /\ conn' = [conn EXCEPT ![p] = NoConnection]
        /\ hello' \in {hello, NoHello}
        /\ count' = [count EXCEPT !.sessions[p] = @ + 1]
        /\ UNCHANGED <<native, pass, wire, offer, peers>>
    BY DEF Begin
  <1>3. TypeOK'
    BY <1>1, <1>2, CountSteps, NewConnectionType, HelloValues DEF TypeOK
  <1>4. \A q \in Procs \ {p} : manifest'[q] = manifest[q] BY <1>1 DEF TypeOK
  <1>5. IInv => ConnectionsKeep BY <1>2, <1>4, KeepReset DEF IInv
  <1>6. IInv => HelloSound(hello', offer) BY <1>2, HelloValues DEF IInv, TypeOK
  <1> QED BY <1>2, <1>3, <1>5, <1>6, InvariantStepQuiet

LEMMA EndStep ==
    ASSUME TypeOK, NEW p \in Procs, End(p)
    PROVE  TypeOK' /\ (IInv => IInv')
  <1>1. /\ session' = [session EXCEPT ![p] = FALSE]
        /\ manifest' = [manifest EXCEPT ![p] = {}]
        /\ conn' = [conn EXCEPT ![p] = NoConnection]
        /\ hello' \in {hello, NoHello}
        /\ UNCHANGED <<native, pass, wire, offer, peers, count>>
    BY DEF End
  <1>2. TypeOK' BY <1>1, NewConnectionType, HelloValues DEF TypeOK
  <1>3. \A q \in Procs \ {p} : manifest'[q] = manifest[q] BY <1>1 DEF TypeOK
  <1>4. IInv => ConnectionsKeep BY <1>1, <1>3, KeepReset DEF IInv
  <1>5. IInv => HelloSound(hello', offer) BY <1>1, HelloValues DEF IInv, TypeOK
  <1> QED BY <1>1, <1>2, <1>4, <1>5, InvariantStepQuiet

LEMMA NativeConnectStep ==
    ASSUME TypeOK, NEW p \in Procs, NativeConnect(p)
    PROVE  TypeOK' /\ (IInv => IInv')
  <1>1. native' \in [Procs -> BOOLEAN] /\ UNCHANGED <<pass, wire>>
    BY DEF NativeConnect, TypeOK
  <1>2. CASE Connect(p)
    <2>1. TypeOK' BY <1>1, <1>2, ConnectStep DEF TypeOK, Offers
    <2> QED BY <1>1, <1>2, <2>1, ConnectStep, InvariantStepQuiet DEF IInv
  <1>3. CASE UNCHANGED <<service, count>>
    <2>1. UNCHANGED <<session, manifest, conn, hello, offer, peers, count>>
      BY <1>3 DEF service
    <2>2. TypeOK' BY <1>1, <2>1 DEF TypeOK
    <2>3. IInv => ConnectionsKeep BY <2>1, KeepAll DEF IInv
    <2> QED BY <1>1, <2>1, <2>2, <2>3, InvariantStepQuiet DEF IInv
  <1> QED BY <1>2, <1>3 DEF NativeConnect

LEMMA NativeDisconnectStep ==
    ASSUME TypeOK, NEW p \in Procs, NativeDisconnect(p)
    PROVE  TypeOK' /\ (IInv => IInv')
  <1>1. /\ native' = [native EXCEPT ![p] = FALSE]
        /\ conn' = [conn EXCEPT ![p] = NoConnection]
        /\ UNCHANGED <<session, manifest, hello, pass, wire, offer, peers, count>>
    BY DEF NativeDisconnect
  <1>2. TypeOK' BY <1>1, NewConnectionType DEF TypeOK
  <1>3. IInv => ConnectionsKeep BY <1>1, KeepReset DEF IInv
  <1> QED BY <1>1, <1>2, <1>3, InvariantStepQuiet DEF IInv

LEMMA NativeResetStep ==
    ASSUME TypeOK, NEW p \in Procs, NativeReset(p)
    PROVE  TypeOK' /\ (IInv => IInv')
  <1>1. /\ native' = [native EXCEPT ![p] = FALSE]
        /\ conn' = [conn EXCEPT ![p] = NoConnection]
        /\ hello' \in {hello, NoHello}
        /\ count' = [count EXCEPT !.faults = @ + 1]
        /\ UNCHANGED <<session, manifest, pass, wire, offer, peers>>
    BY DEF NativeReset
  <1>2. count' \in Counts
    <2>1. count \in Counts BY DEF TypeOK
    <2> QED BY <1>1, <2>1, CountSteps
  <1>3. TypeOK' BY <1>1, <1>2, NewConnectionType, HelloValues DEF TypeOK
  <1>4. IInv => ConnectionsKeep BY <1>1, KeepReset DEF IInv
  <1>5. IInv => HelloSound(hello', offer) BY <1>1, HelloValues DEF IInv, TypeOK
  <1> QED BY <1>1, <1>3, <1>4, <1>5, InvariantStepQuiet

LEMMA ServiceBeginStep ==
    ASSUME TypeOK, NEW p \in Procs, ServiceBegin(p)
    PROVE  TypeOK' /\ (IInv => IInv')
  <1>1. pass' \in [Procs -> Passes] /\ UNCHANGED <<native, wire>>
    BY DEF ServiceBegin, TypeOK, Passes, Receiving
  <1>2. CASE Connect(p)
    <2>1. TypeOK' BY <1>1, <1>2, ConnectStep DEF TypeOK, Offers
    <2> QED BY <1>1, <1>2, <2>1, ConnectStep, InvariantStepQuiet DEF IInv
  <1>3. CASE UNCHANGED <<service, count>>
    <2>1. UNCHANGED <<session, manifest, conn, hello, offer, peers, count>>
      BY <1>3 DEF service
    <2>2. TypeOK' BY <1>1, <2>1 DEF TypeOK
    <2>3. IInv => ConnectionsKeep BY <2>1, KeepAll DEF IInv
    <2> QED BY <1>1, <2>1, <2>2, <2>3, InvariantStepQuiet DEF IInv
  <1> QED BY <1>2, <1>3 DEF ServiceBegin

LEMMA ReceiveStep ==
    ASSUME TypeOK, NEW p \in Procs, Receive(p)
    PROVE  TypeOK' /\ (IInv => IInv')
  <1> DEFINE frame == Head(wire[p])
  <1>1. /\ wire[p] \in Seq(Frames) /\ wire[p] # <<>>
        /\ wire' = [wire EXCEPT ![p] = Tail(wire[p])]
        /\ ReceiveFrame(p, frame)
        /\ UNCHANGED <<session, manifest, native, peers>>
    BY DEF Receive, TypeOK
  <1>2. /\ Tail(wire[p]) \in Seq(Frames) /\ frame \in Frames
        /\ frame = wire[p][1] /\ 1 \in 1..Len(wire[p])
        /\ \A i \in 1..Len(Tail(wire[p])) : \E j \in 1..Len(wire[p]) : Tail(wire[p])[i] = wire[p][j]
    BY <1>1, ChannelTail
  <1>3. wire' \in [Procs -> Seq(Frames)] BY <1>1, <1>2 DEF TypeOK
  <1>4. pass' \in [Procs -> Passes]
    <2>1. CASE UNCHANGED pass BY <2>1 DEF TypeOK
    <2>2. CASE /\ pass[p].at = "Receiving"
               /\ pass' = [pass EXCEPT ![p] = Receiving(pass[p].n + 1)]
      <3>1. pass[p] \in Passes BY DEF TypeOK
      <3>2. pass[p].n + 1 \in Nat BY <2>2, <3>1, PassFields
      <3>3. Receiving(pass[p].n + 1) \in Passes BY <3>2 DEF Passes, Receiving
      <3> QED BY <2>2, <3>3 DEF TypeOK
    <2> QED BY <2>1, <2>2 DEF Receive
  <1>5. ASSUME NEW q \in Procs, NEW g \in InFlight(q)' PROVE g \in InFlight(q)
    <2>1. CASE q = p
      <3>1. wire'[p] = Tail(wire[p]) BY <1>1 DEF TypeOK
      <3> QED BY <1>2, <1>5, <2>1, <3>1 DEF InFlight
    <2>2. CASE q # p
      <3>1. wire'[q] = wire[q] BY <1>1, <2>2 DEF TypeOK
      <3> QED BY <1>5, <3>1 DEF InFlight
    <2> QED BY <2>1, <2>2
  <1>6. IInv => FrameSound(p, frame, offer, conn["Client"])
    <2>1. frame \in InFlight(p) BY <1>2 DEF InFlight
    <2> QED BY <2>1 DEF IInv, WireSound
  <1> HIDE DEF frame
  <1>7. hello \in Hellos BY DEF TypeOK
  <1>8. CASE ReceiveUnavailable(p)
    <2>1. UNCHANGED <<conn, hello, offer, count>> BY <1>8 DEF ReceiveUnavailable
    <2>2. TypeOK' BY <1>1, <1>3, <1>4, <2>1 DEF TypeOK
    <2>3. IInv => ConnectionsKeep BY <1>1, <2>1, KeepAll DEF IInv
    <2> QED BY <1>5, <2>1, <2>2, <2>3, InvariantStep DEF IInv
  <1>9. CASE ReceiveUnknown(p, frame)
    <2>1. UNCHANGED <<conn, offer, count>> BY <1>9 DEF ReceiveUnknown
    <2>2. TypeOK' BY <1>1, <1>2, <1>3, <1>4, <1>9, <2>1, ReceiveUnknownStep DEF TypeOK
    <2>3. IInv => ConnectionsKeep BY <1>1, <2>1, KeepAll DEF IInv
    <2>4. IInv => HelloSound(hello', offer)
      BY <1>2, <1>6, <1>9, ReceiveUnknownStep DEF IInv
    <2> QED BY <1>5, <2>2, <2>3, <2>4, InvariantStep
  <1>10. CASE ReceiveConnected(p, frame)
    <2>1. hello' \in {hello, ExpireHello(hello)} BY <1>10 DEF ReceiveConnected
    <2>2. TypeOK'
      BY ZenonT(60), <1>1, <1>2, <1>3, <1>4, <1>7, <1>10, <2>1, ReceiveConnectedStep, HelloValues
      DEF TypeOK, Offers
    <2>3. IInv => ConnectionsKeep
      BY <1>1, <1>2, <1>6, <1>10, ReceiveConnectedStep DEF IInv
    <2>4. IInv => HelloSound(hello', offer) BY <1>7, <2>1, HelloValues DEF IInv
    <2> QED BY <1>5, <2>2, <2>3, <2>4, InvariantStep
  <1> QED BY <1>1, <1>8, <1>9, <1>10 DEF ReceiveFrame

(* The pump goes on with a connection of the same exchange; the frame it   *)
(* submits is sound because the connection is.                             *)
LEMMA PumpInvariant ==
    ASSUME TypeOK, NEW p \in Procs, NEW d \in Connections, NEW submitted \in Nat,
           SameExchangeStep(conn[p], d), PumpOn(p, d, submitted),
           UNCHANGED <<offer, manifest>>, IInv
    PROVE  /\ ConnectionsKeep
           /\ \A q \in Procs : \A g \in InFlight(q)' :
                g \in InFlight(q) \/ FrameSound(q, g, offer', conn'["Client"])
  <1>1. /\ conn' = [conn EXCEPT ![p] = d]
        /\ \/ UNCHANGED wire
           \/ \E frame \in ControlFrames(d, manifest[p]) :
                wire' = [wire EXCEPT ![Other(p)] = Append(@, frame)]
    BY PumpOnStep
  <1>2. ConnectionsKeep BY <1>1, KeepOne DEF IInv
  <1>3. CASE UNCHANGED wire BY <1>2, <1>3 DEF InFlight
  <1>4. CASE \E frame \in ControlFrames(d, manifest[p]) :
                wire' = [wire EXCEPT ![Other(p)] = Append(@, frame)]
    <2>1. PICK frame \in ControlFrames(d, manifest[p]) :
                wire' = [wire EXCEPT ![Other(p)] = Append(@, frame)]
      BY <1>4
    <2>2. manifest[p] \in SUBSET Features BY DEF TypeOK
    <2>3. /\ frame \in Frames
          /\ frame.client = d.client /\ frame.host = d.host
          /\ frame.client # 0
          /\ frame.kind = "Hello" => d.phase = "Hello" /\ frame.manifest = manifest[p]
          /\ frame.kind = "Welcome" => d.phase = "Welcome" /\ frame.manifest = manifest[p]
          /\ frame.kind = "Ready" => d.phase = "Ready"
      BY <2>2, ControlFramesStep
    <2>4. conn'[p] = d BY <1>1 DEF TypeOK
    <2>5. FrameSound(Other(p), frame, offer', conn'["Client"])
      <3>1. CASE p = "Host"
        <4>1. HostSound(d, offer', manifest["Host"], conn'["Client"])
          BY <1>2, <2>4, <3>1 DEF ConnectionsKeep, ConnectionsSound
        <4> QED BY <2>3, <3>1, <4>1 DEF FrameSound, HostSound, Offered, Other
      <3>2. CASE p = "Client"
        <4>1. ClientSound(d, offer', manifest["Client"])
          BY <1>2, <2>4, <3>2 DEF ConnectionsKeep, ConnectionsSound
        <4>2. frame.client \in 1..Len(offer'["Client"])
          <5>1. d.client \in Nat /\ Len(offer'["Client"]) \in Nat
            BY DEF Connections, TypeOK, Procs
          <5> QED BY <2>3, <4>1, <5>1 DEF ClientSound
        <4>3. frame.kind = "Ready" => Confirmed(d, frame.client, frame.host)
          BY <2>3 DEF Confirmed
        <4>4. frame.kind = "Hello" => Offered(offer'["Client"], frame.client, frame.manifest)
          BY <2>3, <3>2, <4>1 DEF ClientSound
        <4> QED BY <2>4, <3>2, <4>2, <4>3, <4>4 DEF FrameSound, Other
      <3> QED BY <3>1, <3>2 DEF Procs
    <2>6. ASSUME NEW q \in Procs, NEW g \in InFlight(q)'
          PROVE  g \in InFlight(q) \/ FrameSound(q, g, offer', conn'["Client"])
      <3>1. CASE q = Other(p)
        <4>1. wire'[q] = Append(wire[q], frame) BY <2>1, <3>1 DEF TypeOK
        <4>2. wire[q] \in Seq(Frames) BY DEF TypeOK
        <4>3. PICK i \in 1..Len(Append(wire[q], frame)) : g = Append(wire[q], frame)[i]
          BY <2>6, <4>1 DEF InFlight
        <4>4. g = frame \/ \E j \in 1..Len(wire[q]) : g = wire[q][j]
          BY <2>3, <4>2, <4>3, ChannelAppend
        <4> QED BY <2>5, <3>1, <4>4 DEF InFlight
      <3>2. CASE q # Other(p)
        <4>1. wire'[q] = wire[q] BY <2>1, <3>2 DEF TypeOK
        <4> QED BY <2>6, <4>1 DEF InFlight
      <3> QED BY <3>1, <3>2
    <2> QED BY <1>2, <2>6
  <1> QED BY <1>1, <1>3, <1>4

LEMMA PumpBeginStep ==
    ASSUME TypeOK, NEW p \in Procs, PumpBegin(p)
    PROVE  TypeOK' /\ (IInv => IInv')
  <1> DEFINE d == Timeout(conn[p])
  <1>1. /\ PumpOn(p, d, 0)
        /\ hello' \in {hello, ExpireHello(hello)}
        /\ UNCHANGED <<session, manifest, native, offer, peers>>
    BY DEF PumpBegin
  <1>2. conn[p] \in Connections /\ hello \in Hellos BY DEF TypeOK
  <1>3. d \in Connections /\ SameExchangeStep(conn[p], d) BY <1>2, TimeoutExchange
  <1> HIDE DEF d
  <1>4. conn' \in [Procs -> Connections]
    <2>1. 0 \in Nat OBVIOUS
    <2>2. conn' = [conn EXCEPT ![p] = d] BY <1>1, <1>3, <2>1, PumpOnStep
    <2> QED BY <1>3, <2>2 DEF TypeOK
  <1>5. TypeOK' BY ZenonT(60), <1>1, <1>2, <1>3, <1>4, PumpOnStep, HelloValues DEF TypeOK
  <1>6. IInv => HelloSound(hello', offer) BY <1>1, <1>2, HelloValues DEF IInv
  <1> QED BY <1>1, <1>3, <1>5, <1>6, PumpInvariant, InvariantStep

LEMMA PumpResumeStep ==
    ASSUME TypeOK, NEW p \in Procs, PumpResume(p)
    PROVE  TypeOK' /\ (IInv => IInv')
  <1> DEFINE d == AfterSubmit(conn[p], pass[p].sub)
  <1>1. /\ \/ PumpOn(p, d, pass[p].n)
           \/ /\ conn' = [conn EXCEPT ![p] = d]
              /\ pass' = [pass EXCEPT ![p] = Idle]
              /\ UNCHANGED <<wire, count>>
        /\ UNCHANGED <<session, manifest, native, hello, offer, peers>>
    BY DEF PumpResume
  <1>2. /\ conn[p] \in Connections /\ hello \in Hellos
        /\ pass[p].sub \in Submissions /\ pass[p].n \in Nat
    <2>1. conn[p] \in Connections /\ hello \in Hellos /\ pass[p] \in Passes
      BY DEF TypeOK
    <2>2. pass[p].at = "Submitting" BY DEF PumpResume
    <2> QED BY <2>1, <2>2, PassFields
  <1>3. d \in Connections /\ SameExchangeStep(conn[p], d)
    BY <1>2, AfterSubmitStep DEF SameExchangeStep
  <1> HIDE DEF d
  <1>4. CASE PumpOn(p, d, pass[p].n)
    <2>1. conn' \in [Procs -> Connections]
      <3>1. conn' = [conn EXCEPT ![p] = d] BY <1>2, <1>3, <1>4, PumpOnStep
      <3> QED BY <1>3, <3>1 DEF TypeOK
    <2>2. TypeOK' BY <1>1, <1>2, <1>3, <1>4, <2>1, PumpOnStep DEF TypeOK
    <2>3. IInv => HelloSound(hello', offer) BY <1>1 DEF IInv
    <2> QED BY <1>1, <1>2, <1>3, <1>4, <2>2, <2>3, PumpInvariant, InvariantStep
  <1>5. CASE /\ conn' = [conn EXCEPT ![p] = d]
             /\ pass' = [pass EXCEPT ![p] = Idle]
             /\ UNCHANGED <<wire, count>>
    <2>1. TypeOK' BY <1>1, <1>3, <1>5 DEF TypeOK, Passes
    <2>2. IInv => ConnectionsKeep BY <1>1, <1>3, <1>5, KeepOne DEF IInv
    <2> QED BY <1>1, <1>5, <2>1, <2>2, InvariantStepQuiet DEF IInv
  <1> QED BY <1>1, <1>4, <1>5

LEMMA CarrierFailedStep ==
    ASSUME TypeOK, NEW p \in Procs, CarrierFailed(p)
    PROVE  TypeOK' /\ (IInv => IInv')
  <1>1. PICK d \in {conn[p], FailConnection(conn[p])} :
          /\ conn' = [conn EXCEPT ![p] = d]
          /\ count' = [count EXCEPT !.faults = @ + 1]
          /\ pass' = [pass EXCEPT ![p] = Idle]
          /\ hello' \in {hello, NoHello}
          /\ UNCHANGED <<session, manifest, native, wire, offer, peers>>
    BY DEF CarrierFailed
  <1>2. conn[p] \in Connections /\ hello \in Hellos /\ count \in Counts BY DEF TypeOK
  <1>3. d \in Connections /\ SameExchangeStep(conn[p], d)
    BY ZenonT(60), <1>1, <1>2, FailConnectionStep DEF SameExchangeStep, SameSupport
  <1>4. count' \in Counts BY <1>1, <1>2, CountSteps
  <1>5. TypeOK' BY <1>1, <1>2, <1>3, <1>4, HelloValues DEF TypeOK, Passes
  <1>6. IInv => ConnectionsKeep BY <1>1, <1>3, KeepOne DEF IInv
  <1>7. IInv => HelloSound(hello', offer) BY <1>1, <1>2, HelloValues DEF IInv
  <1> QED BY <1>1, <1>5, <1>6, <1>7, InvariantStepQuiet

LEMMA FailStep ==
    ASSUME TypeOK, NEW p \in Procs, Fail(p)
    PROVE  TypeOK' /\ (IInv => IInv')
  <1>1. /\ count' = [count EXCEPT !.fails[p] = @ + 1]
        /\ UNCHANGED <<session, manifest, native, hello, pass, wire, offer, peers>>
    BY DEF Fail
  <1>2. conn[p] \in Connections /\ conn[p].paths \subseteq Features /\ count \in Counts
    BY DEF TypeOK, Connections
  <1>3. PICK f \in Features : conn' = [conn EXCEPT ![p] = FailPath(conn[p], f)]
    BY <1>2 DEF Fail
  <1>4. /\ FailPath(conn[p], f) \in Connections
        /\ SameExchangeStep(conn[p], FailPath(conn[p], f))
    BY <1>2, FailPathStep DEF SameExchangeStep
  <1>5. count' \in Counts BY <1>1, <1>2, CountSteps
  <1>6. TypeOK' BY <1>1, <1>3, <1>4, <1>5 DEF TypeOK
  <1>7. IInv => ConnectionsKeep BY <1>1, <1>3, <1>4, KeepOne DEF IInv
  <1> QED BY <1>1, <1>6, <1>7, InvariantStepQuiet DEF IInv

LEMMA DeadlineStep ==
    ASSUME TypeOK, NEW p \in Procs, DeadlinePasses(p)
    PROVE  TypeOK' /\ (IInv => IInv')
  <1> DEFINE d == [conn[p] EXCEPT !.due = TRUE]
  <1>1. /\ conn' = [conn EXCEPT ![p] = d]
        /\ UNCHANGED <<session, manifest, native, hello, pass, wire, offer, peers, count>>
    BY DEF DeadlinePasses, TypeOK
  <1>2. conn[p] \in Connections BY DEF TypeOK
  <1>3. d \in Connections /\ SameExchangeStep(conn[p], d)
    BY <1>2 DEF Connections, SameExchangeStep, SameSupport
  <1> HIDE DEF d
  <1>4. TypeOK' BY <1>1, <1>3 DEF TypeOK
  <1>5. IInv => ConnectionsKeep BY <1>1, <1>3, KeepOne DEF IInv
  <1> QED BY <1>1, <1>4, <1>5, InvariantStepQuiet DEF IInv

LEMMA HelloDeadlineStep ==
    ASSUME TypeOK, HelloDeadlinePasses
    PROVE  TypeOK' /\ (IInv => IInv')
  <1>1. /\ hello' = [hello EXCEPT !.due = TRUE]
        /\ UNCHANGED <<session, manifest, native, conn, pass, wire, offer, peers, count>>
    BY DEF HelloDeadlinePasses
  <1>2. hello \in Hellos BY DEF TypeOK
  <1>3. /\ hello' \in Hellos
        /\ hello'.client = hello.client /\ hello'.manifest = hello.manifest
    BY <1>1, <1>2 DEF Hellos
  <1>4. TypeOK' BY <1>1, <1>3 DEF TypeOK
  <1>5. IInv => ConnectionsKeep BY <1>1, KeepAll DEF IInv
  <1>6. IInv => HelloSound(hello', offer) BY <1>3 DEF IInv, HelloSound
  <1> QED BY <1>1, <1>4, <1>5, <1>6, InvariantStepQuiet

LEMMA LoseFramesStep ==
    ASSUME TypeOK, NEW p \in Procs, LoseFrames(p)
    PROVE  TypeOK' /\ (IInv => IInv')
  <1>1. /\ wire' = [wire EXCEPT ![p] = <<>>]
        /\ count' = [count EXCEPT !.faults = @ + 1]
        /\ UNCHANGED <<session, manifest, native, conn, hello, pass, offer, peers>>
    BY DEF LoseFrames
  <1>2. wire \in [Procs -> Seq(Frames)] /\ count \in Counts BY DEF TypeOK
  <1>3. wire' \in [Procs -> Seq(Frames)] /\ \A q \in Procs : wire'[q] \in {wire[q], <<>>}
    BY <1>1, <1>2
  <1>4. count' \in Counts BY <1>1, <1>2, CountSteps
  <1>5. TypeOK' BY <1>1, <1>3, <1>4 DEF TypeOK
  <1>6. IInv => ConnectionsKeep BY <1>1, KeepAll DEF IInv
  <1>7. ASSUME NEW q \in Procs, NEW g \in InFlight(q)' PROVE g \in InFlight(q)
    <2>1. PICK i \in 1..Len(wire'[q]) : g = wire'[q][i] BY <1>7 DEF InFlight
    <2>2. wire'[q] = wire[q] BY <1>3, <2>1
    <2> QED BY <2>1, <2>2 DEF InFlight
  <1> QED BY <1>1, <1>5, <1>6, <1>7, InvariantStep DEF IInv

-----------------------------------------------------------------------------
(* The theorems. *)

LEMMA InitHolds ==
    ASSUME Init
    PROVE  IInv
  <1>1. NoConnection \in Connections /\ NoHello \in Hellos
    BY NewConnectionType, HelloValues DEF NoConnection, Connections, Phases, NoHello, Hellos
  <1>2. <<>> \in Seq(Frames) /\ <<>> \in Seq(SUBSET Features) OBVIOUS
  <1>3. TypeOK BY <1>1, <1>2 DEF Init, TypeOK, Passes, Counts
  <1>4. conn["Host"] = NoConnection /\ conn["Client"] = NoConnection
        /\ offer["Client"] = <<>> /\ hello = NoHello
    BY DEF Init, Procs
  <1>5. ConnectionsSound
    BY <1>4 DEF ConnectionsSound, HostSound, ClientSound, NoConnection
  <1>6. WireSound BY DEF Init, WireSound, InFlight
  <1> QED BY <1>3, <1>4, <1>5, <1>6 DEF IInv, HelloSound, NoHello

LEMMA NextKeeps ==
    ASSUME TypeOK, [Next]_vars
    PROVE  TypeOK' /\ (IInv => IInv')
  <1>1. CASE UNCHANGED vars
    <2>1. TypeOK' BY <1>1 DEF vars, TypeOK
    <2>2. IInv => ConnectionsKeep BY <1>1, KeepAll DEF vars, IInv
    <2> QED BY <1>1, <2>1, <2>2, InvariantStepQuiet DEF vars, IInv
  <1>2. CASE HelloDeadlinePasses BY <1>2, HelloDeadlineStep
  <1>3. ASSUME NEW p \in Procs,
               \/ Begin(p) \/ End(p)
               \/ NativeConnect(p) \/ NativeDisconnect(p) \/ NativeReset(p)
               \/ ServiceBegin(p) \/ Receive(p) \/ PumpBegin(p) \/ PumpResume(p)
               \/ CarrierFailed(p) \/ Fail(p)
               \/ DeadlinePasses(p) \/ LoseFrames(p)
        PROVE  TypeOK' /\ (IInv => IInv')
    <2>1. CASE Begin(p) BY <2>1, BeginStep
    <2>2. CASE End(p) BY <2>2, EndStep
    <2>3. CASE NativeConnect(p) BY <2>3, NativeConnectStep
    <2>4. CASE NativeDisconnect(p) BY <2>4, NativeDisconnectStep
    <2>5. CASE NativeReset(p) BY <2>5, NativeResetStep
    <2>6. CASE ServiceBegin(p) BY <2>6, ServiceBeginStep
    <2>7. CASE Receive(p) BY <2>7, ReceiveStep
    <2>8. CASE PumpBegin(p) BY <2>8, PumpBeginStep
    <2>9. CASE PumpResume(p) BY <2>9, PumpResumeStep
    <2>10. CASE CarrierFailed(p) BY <2>10, CarrierFailedStep
    <2>11. CASE Fail(p) BY <2>11, FailStep
    <2>12. CASE DeadlinePasses(p) BY <2>12, DeadlineStep
    <2>13. CASE LoseFrames(p) BY <2>13, LoseFramesStep
    <2> QED BY <1>3, <2>1, <2>2, <2>3, <2>4, <2>5, <2>6, <2>7, <2>8, <2>9, <2>10,
               <2>11, <2>12, <2>13
  <1> QED BY <1>1, <1>2, <1>3 DEF Next

(* Whatever the constants, every variable of the two services keeps its    *)
(* shape: no handler stores a phase, a token or a list of another kind.    *)
THEOREM TypeCorrect == Spec => []TypeOK
  <1>1. Init => TypeOK BY InitHolds DEF IInv
  <1>2. TypeOK /\ [Next]_vars => TypeOK' BY NextKeeps
  <1> QED BY <1>1, <1>2, PTL DEF Spec

(* The strengthening the safety theorems rest on is invariant.             *)
THEOREM InvariantHolds == Spec => []IInv
  <1>1. Init => IInv BY InitHolds
  <1>2. IInv /\ [Next]_vars => IInv'
    <2>1. IInv => TypeOK BY DEF IInv
    <2> QED BY <2>1, NextKeeps
  <1> QED BY <1>1, <1>2, PTL DEF Spec

(* An established connection of either process supports exactly what its   *)
(* own frozen list has in common with the list the peer froze for this     *)
(* exchange.                                                               *)
THEOREM AgreementIsSound == Spec => []AgreementSound
  <1>1. IInv => AgreementSound
    <2> SUFFICES ASSUME IInv, NEW p \in Procs, conn[p].phase = "Established"
                 PROVE  /\ RemoteToken(p) \in 1..Len(offer[Other(p)])
                        /\ conn[p].supported = conn[p].paths \cap offer[Other(p)][RemoteToken(p)]
      BY DEF AgreementSound
    <2>1. CASE p = "Host"
      <3>1. InformedBy(conn["Host"], conn["Host"].client, offer["Client"])
        BY <2>1 DEF IInv, ConnectionsSound, HostSound
      <3> QED BY <2>1, <3>1 DEF InformedBy, RemoteToken, Other, Server
    <2>2. CASE p = "Client"
      <3>1. InformedBy(conn["Client"], conn["Client"].host, offer["Host"])
        BY <2>2 DEF IInv, ConnectionsSound, ClientSound
      <3> QED BY <2>2, <3>1 DEF InformedBy, RemoteToken, Other, Server
    <2> QED BY <2>1, <2>2 DEF Procs
  <1> QED BY <1>1, InvariantHolds, PTL

(* Two ends that completed the same exchange support the same features.    *)
THEOREM AgreementIsShared == Spec => []SameAgreement
  <1>1. IInv => SameAgreement
    <2> SUFFICES ASSUME IInv, Completed
                 PROVE  conn["Host"].supported = conn["Client"].supported
      BY DEF SameAgreement
    <2> DEFINE h == conn["Host"]
               c == conn["Client"]
    <2>1. h.phase = "Established" /\ c.phase = "Established"
          /\ h.client = c.client /\ h.host = c.host
      BY DEF Completed, SameTokens, Procs
    <2>2. h.supported = h.paths \cap offer["Client"][h.client]
          /\ h.paths = offer["Host"][h.host]
      BY <2>1 DEF IInv, ConnectionsSound, HostSound, InformedBy, Offered
    <2>3. c.supported = c.paths \cap offer["Host"][c.host]
          /\ c.paths = offer["Client"][c.client]
      BY <2>1 DEF IInv, ConnectionsSound, ClientSound, InformedBy, Offered
    <2> HIDE DEF h, c
    <2>4. h.supported = c.supported BY <2>1, <2>2, <2>3
    <2> QED BY <2>4 DEF h, c
  <1> QED BY <1>1, InvariantHolds, PTL

(* The host completes an exchange only with a client that accepted its     *)
(* Welcome.                                                                *)
THEOREM HostIsConfirmed == Spec => []ConfirmedByClient
  <1>1. IInv => ConfirmedByClient
    BY DEF IInv, ConnectionsSound, HostSound, Confirmed, ConfirmedByClient
  <1> QED BY <1>1, InvariantHolds, PTL

-----------------------------------------------------------------------------
(* The outcome of an attempt.  A new attempt takes an ID never given out   *)
(* before, so a record with the same ID is of the same attempt.            *)

IdsKnown == \A p \in Procs : conn[p].id <= peers[p]

(* What a step may make of the record c of an attempt. *)
Later(c, d) ==
    /\ d.id = c.id
    /\ c.phase = "Established" => d.phase \in {"Established", "Failed"}
    /\ c.phase = "Expired" => d.phase \in {"Expired", "Failed"}
    /\ c.phase = "Failed" => d.phase = "Failed"
    /\ c.failed \subseteq d.failed

LEMMA LaterTransitive ==
    ASSUME NEW c, NEW d, NEW e, Later(c, d), Later(d, e)
    PROVE  Later(c, e)
  BY DEF Later

LEMMA LaterSteps ==
    ASSUME NEW c \in Connections
    PROVE  /\ Later(c, c)
           /\ Later(c, FailConnection(c))
           /\ Later(c, [FailConnection(c) EXCEPT !.whole = FALSE])
           /\ Later(c, Timeout(c))
           /\ Later(c, [c EXCEPT !.due = TRUE])
           /\ \A f : Later(c, FailPath(c, f))
           /\ \A f : Later(c, PeerFailed(c, f)) \/ c.phase = "Expired"
  BY DEF Later, FailConnection, Timeout, FailPath, PeerFailed, Connections, Negotiating

LEMMA LaterHello ==
    ASSUME NEW c \in Connections, NEW client, NEW list, NEW token, HelloOpens(c, client)
    PROVE  Later(c, AcceptHello(c, client, list, token))
  BY DEF Later, HelloOpens, AcceptHello, FailConnection, Connections

LEMMA LaterFrame ==
    ASSUME NEW c \in Connections, NEW frame, NEW server
    PROVE  Later(c, AcceptFrame(c, frame, server))
  <1>1. CASE AcceptsWelcome(c, frame, server)
    <2>1. AcceptFrame(c, frame, server) =
            [c EXCEPT !.host = frame.host, !.supported = c.paths \cap frame.manifest, !.phase = "Ready"]
      BY <1>1 DEF AcceptFrame, AcceptsWelcome, AcceptsReady, AcceptsFailed
    <2> QED BY <1>1, <2>1 DEF Later, AcceptsWelcome, Connections
  <1>2. CASE AcceptsReady(c, frame, server)
    <2>1. AcceptFrame(c, frame, server) = [c EXCEPT !.phase = "Established"]
      BY <1>2 DEF AcceptFrame, AcceptsWelcome, AcceptsReady, AcceptsFailed
    <2> QED BY <1>2, <2>1 DEF Later, AcceptsReady, Connections
  <1>3. CASE AcceptsFailed(c, frame)
    <2>1. AcceptFrame(c, frame, server) = PeerFailed(c, frame.feature)
      BY <1>3 DEF AcceptFrame, AcceptsWelcome, AcceptsReady, AcceptsFailed
    <2>2. c.phase = "Established" BY <1>3 DEF AcceptsFailed
    <2> QED BY <2>1, <2>2, LaterSteps
  <1>4. CASE ~AcceptsWelcome(c, frame, server) /\ ~AcceptsReady(c, frame, server) /\ ~AcceptsFailed(c, frame)
    <2>1. AcceptFrame(c, frame, server) = c BY <1>4 DEF AcceptFrame
    <2> QED BY <2>1, LaterSteps
  <1> QED BY <1>1, <1>2, <1>3, <1>4

LEMMA LaterSubmit ==
    ASSUME NEW c \in Connections, NEW sub
    PROVE  Later(c, AfterSubmit(c, sub))
  <1>1. Later(c, c) /\ Later(c, [FailConnection(c) EXCEPT !.whole = FALSE]) BY LaterSteps
  <1>2. Later(c, [c EXCEPT !.phase = IF @ = sub.phase THEN NextPhase(@) ELSE @])
    BY DEF Later, NextPhase, Connections
  <1>3. /\ Later(c, [c EXCEPT !.whole = FALSE])
        /\ Later(c, [c EXCEPT !.notice = @ \ {sub.frame.feature}])
    BY DEF Later, Connections
  <1> QED BY <1>1, <1>2, <1>3 DEF AfterSubmit

(* What a step makes of the slot of p. *)
SlotStep(p) ==
    \/ Later(conn[p], conn'[p]) /\ peers'[p] = peers[p]
    \/ conn'[p] = NoConnection /\ peers'[p] = peers[p]
    \/ conn'[p].id = peers[p] + 1 /\ peers'[p] = peers[p] + 1

LEMMA SlotUnchanged ==
    ASSUME TypeOK, NEW q \in Procs, conn'[q] = conn[q], peers'[q] = peers[q]
    PROVE  SlotStep(q)
  BY LaterSteps DEF SlotStep, TypeOK

LEMMA SlotChanged ==
    ASSUME TypeOK, NEW p \in Procs, NEW d, conn' = [conn EXCEPT ![p] = d],
           Later(conn[p], d) \/ d = NoConnection, UNCHANGED peers
    PROVE  \A q \in Procs : SlotStep(q)
  <1>1. conn'[p] = d /\ \A q \in Procs \ {p} : conn'[q] = conn[q] BY DEF TypeOK
  <1> QED BY <1>1, SlotUnchanged DEF SlotStep

LEMMA ConnectSlots ==
    ASSUME TypeOK, NEW p \in Procs, Connect(p)
    PROVE  \A q \in Procs : SlotStep(q)
  <1> DEFINE c == NewConnection(peers[p] + 1, manifest[p])
  <1>1. /\ peers' = [peers EXCEPT ![p] = @ + 1]
        /\ peers[p] + 1 \in Nat /\ manifest[p] \in SUBSET Features
    BY DEF Connect, TypeOK
  <1>2. c \in Connections /\ c.id = peers[p] + 1 BY <1>1, NewConnectionType
  <1>3. \E d : conn' = [conn EXCEPT ![p] = d] /\ d.id = c.id
    <2>1. CASE p = "Client"
      <3>1. ConnectClient BY <2>1 DEF Connect, Server
      <3> DEFINE b == NewConnection(peers["Client"] + 1, manifest["Client"])
      <3>2. PICK token \in NextTokens("Client") :
              /\ Draw("Client", token)
              /\ conn' = [conn EXCEPT !["Client"] =
                             IF token = 0 THEN FailConnection(b)
                             ELSE [b EXCEPT !.client = token, !.phase = "Hello"]]
        BY <3>1 DEF ConnectClient
      <3>3. b \in Connections /\ b.id = c.id BY <1>2, <2>1
      <3> HIDE DEF b, c
      <3>4. /\ FailConnection(b).id = c.id
            /\ [b EXCEPT !.client = token, !.phase = "Hello"].id = c.id
        BY <3>3 DEF FailConnection, Connections
      <3> QED BY <2>1, <3>2, <3>4
    <2>2. CASE p = "Host"
      <3>1. \/ conn' = [conn EXCEPT !["Host"] = c]
            \/ HostHello(c, hello.client, hello.manifest)
        BY <2>2 DEF Connect, ConnectHost, Server
      <3>2. ASSUME HostHello(c, hello.client, hello.manifest)
            PROVE  \E d : conn' = [conn EXCEPT !["Host"] = d] /\ d.id = c.id
        <4>1. CASE ~HelloOpens(c, hello.client) BY <3>2, <4>1 DEF HostHello
        <4>2. CASE HelloOpens(c, hello.client)
          <5>1. PICK token : conn' = [conn EXCEPT !["Host"] = AcceptHello(c, hello.client, hello.manifest, token)]
            BY <3>2, <4>2 DEF HostHello
          <5>2. AcceptHello(c, hello.client, hello.manifest, token).id = c.id
            BY <1>2, <4>2, LaterHello DEF Later
          <5> QED BY <5>1, <5>2
        <4> QED BY <4>1, <4>2
      <3> QED BY <2>2, <3>1, <3>2
    <2> QED BY <2>1, <2>2 DEF Procs
  <1> HIDE DEF c
  <1>4. /\ conn'[p].id = peers[p] + 1 /\ peers'[p] = peers[p] + 1
        /\ \A q \in Procs \ {p} : conn'[q] = conn[q] /\ peers'[q] = peers[q]
    BY <1>1, <1>2, <1>3 DEF TypeOK
  <1> QED BY <1>4, SlotUnchanged DEF SlotStep

LEMMA ReceiveSlots ==
    ASSUME TypeOK, NEW p \in Procs, Receive(p)
    PROVE  \A q \in Procs : SlotStep(q)
  <1>1. PICK frame : ReceiveFrame(p, frame) BY DEF Receive
  <1>2. UNCHANGED peers BY DEF Receive
  <1>3. conn[p] \in Connections BY DEF TypeOK
  <1>4. CASE UNCHANGED conn BY <1>2, <1>4, SlotUnchanged
  <1>5. CASE ReceiveConnected(p, frame)
    <2> DEFINE c == Timeout(conn[p])
    <2>1. c \in Connections /\ Later(conn[p], c) BY <1>3, TimeoutStep, LaterSteps
    <2>2. \/ Server(p) /\ HostHello(c, frame.client, frame.manifest)
          \/ conn' = [conn EXCEPT ![p] = IF c.phase = "Established" \/ ~c.due
                                         THEN AcceptFrame(c, frame, Server(p)) ELSE c]
      BY <1>5 DEF ReceiveConnected
    <2> HIDE DEF c
    <2>3. CASE conn' = [conn EXCEPT ![p] = IF c.phase = "Established" \/ ~c.due
                                           THEN AcceptFrame(c, frame, Server(p)) ELSE c]
      <3>1. Later(conn[p], AcceptFrame(c, frame, Server(p)))
        BY <2>1, LaterFrame, LaterTransitive
      <3> QED BY <1>2, <2>1, <2>3, <3>1, SlotChanged
    <2>4. CASE Server(p) /\ HostHello(c, frame.client, frame.manifest)
      <3>1. p = "Host" BY <2>4 DEF Server
      <3>2. CASE ~HelloOpens(c, frame.client)
        <4>1. conn' = [conn EXCEPT ![p] = c] BY <2>4, <3>1, <3>2 DEF HostHello
        <4> QED BY <1>2, <2>1, <4>1, SlotChanged
      <3>3. CASE HelloOpens(c, frame.client)
        <4>1. PICK token : conn' = [conn EXCEPT ![p] = AcceptHello(c, frame.client, frame.manifest, token)]
          BY <2>4, <3>1, <3>3 DEF HostHello
        <4>2. Later(conn[p], AcceptHello(c, frame.client, frame.manifest, token))
          BY <2>1, <3>3, LaterHello, LaterTransitive
        <4> QED BY <1>2, <4>1, <4>2, SlotChanged
      <3> QED BY <3>2, <3>3
    <2> QED BY <2>2, <2>3, <2>4
  <1> QED BY <1>1, <1>4, <1>5 DEF ReceiveFrame, ReceiveUnavailable, ReceiveUnknown

LEMMA NextSlots ==
    ASSUME TypeOK, [Next]_vars
    PROVE  \A q \in Procs : SlotStep(q)
  <1>1. CASE UNCHANGED <<conn, peers>> BY <1>1, SlotUnchanged
  <1>2. ASSUME NEW p \in Procs, Begin(p) \/ End(p) \/ NativeDisconnect(p) \/ NativeReset(p)
        PROVE  \A q \in Procs : SlotStep(q)
    <2>1. conn' = [conn EXCEPT ![p] = NoConnection] /\ UNCHANGED peers
      BY <1>2 DEF Begin, End, NativeDisconnect, NativeReset
    <2> QED BY <2>1, SlotChanged
  <1>3. ASSUME NEW p \in Procs, NativeConnect(p) \/ ServiceBegin(p)
        PROVE  \A q \in Procs : SlotStep(q)
    <2>1. Connect(p) \/ UNCHANGED <<conn, peers>>
      BY <1>3 DEF NativeConnect, ServiceBegin, service
    <2> QED BY <2>1, ConnectSlots, SlotUnchanged
  <1>4. ASSUME NEW p \in Procs, Receive(p) PROVE \A q \in Procs : SlotStep(q)
    BY <1>4, ReceiveSlots
  <1>5. ASSUME NEW p \in Procs, PumpBegin(p) PROVE \A q \in Procs : SlotStep(q)
    <2>1. conn' = [conn EXCEPT ![p] = Timeout(conn[p])] /\ UNCHANGED peers
      BY <1>5 DEF PumpBegin, PumpOn
    <2>2. Later(conn[p], Timeout(conn[p])) BY LaterSteps DEF TypeOK
    <2> QED BY <2>1, <2>2, SlotChanged
  <1>6. ASSUME NEW p \in Procs, PumpResume(p) PROVE \A q \in Procs : SlotStep(q)
    <2>1. conn' = [conn EXCEPT ![p] = AfterSubmit(conn[p], pass[p].sub)] /\ UNCHANGED peers
      BY <1>6 DEF PumpResume, PumpOn
    <2>2. Later(conn[p], AfterSubmit(conn[p], pass[p].sub)) BY LaterSubmit DEF TypeOK
    <2> QED BY <2>1, <2>2, SlotChanged
  <1>7. ASSUME NEW p \in Procs, CarrierFailed(p) \/ Fail(p) \/ DeadlinePasses(p)
        PROVE  \A q \in Procs : SlotStep(q)
    <2>1. conn[p] \in Connections BY DEF TypeOK
    <2>2. UNCHANGED peers BY <1>7 DEF CarrierFailed, Fail, DeadlinePasses
    <2>3. \E d : conn' = [conn EXCEPT ![p] = d] /\ Later(conn[p], d)
      <3>1. CASE CarrierFailed(p)
        <4>1. conn' = [conn EXCEPT ![p] = IF conn[p].id # 0 THEN FailConnection(conn[p]) ELSE conn[p]]
          BY <3>1 DEF CarrierFailed
        <4> QED BY <2>1, <4>1, LaterSteps
      <3>2. CASE Fail(p)
        <4>1. \E f : conn' = [conn EXCEPT ![p] = FailPath(conn[p], f)] BY <3>2 DEF Fail
        <4> QED BY <2>1, <4>1, LaterSteps
      <3>3. CASE DeadlinePasses(p)
        <4>1. conn' = [conn EXCEPT ![p] = [conn[p] EXCEPT !.due = TRUE]]
          BY <3>3 DEF DeadlinePasses, TypeOK
        <4> QED BY <2>1, <4>1, LaterSteps
      <3> QED BY <1>7, <3>1, <3>2, <3>3
    <2> QED BY <2>2, <2>3, SlotChanged
  <1>8. ASSUME NEW p \in Procs, LoseFrames(p) PROVE UNCHANGED <<conn, peers>>
    BY <1>8 DEF LoseFrames
  <1>9. CASE HelloDeadlinePasses \/ UNCHANGED vars
    BY <1>1, <1>9 DEF HelloDeadlinePasses, vars
  <1> QED BY <1>1, <1>2, <1>3, <1>4, <1>5, <1>6, <1>7, <1>8, <1>9 DEF Next

LEMMA IdsStep ==
    ASSUME TypeOK, TypeOK', IdsKnown, \A q \in Procs : SlotStep(q)
    PROVE  IdsKnown' /\ \A q \in Procs : OutcomeKept(q)
  <1> SUFFICES ASSUME NEW q \in Procs
               PROVE  conn'[q].id <= peers'[q] /\ OutcomeKept(q)
    BY DEF IdsKnown
  <1>1. /\ peers[q] \in Nat /\ conn[q].id \in Nat /\ conn[q].id <= peers[q]
        /\ conn'[q].id \in Nat
    BY DEF TypeOK, IdsKnown, Connections
  <1>2. CASE Later(conn[q], conn'[q]) /\ peers'[q] = peers[q]
    BY <1>1, <1>2 DEF Later, OutcomeKept
  <1>3. CASE conn'[q] = NoConnection /\ peers'[q] = peers[q]
    BY <1>1, <1>3 DEF NoConnection, OutcomeKept
  <1>4. CASE conn'[q].id = peers[q] + 1 /\ peers'[q] = peers[q] + 1
    BY <1>1, <1>4 DEF OutcomeKept
  <1> QED BY <1>2, <1>3, <1>4 DEF SlotStep

(* The outcome of an attempt is final: no late answer or frame revives an  *)
(* expired or failed connection, an established one only fails, and a      *)
(* failed feature stays failed.                                            *)
THEOREM OutcomeHolds == Spec => OutcomeIsFinal
  <1>1. Init => IdsKnown
    BY DEF Init, IdsKnown, NoConnection
  <1>2. TypeOK /\ TypeOK' /\ IdsKnown /\ [Next]_vars => IdsKnown' /\ [\A p \in Procs : OutcomeKept(p)]_vars
    BY NextSlots, IdsStep
  <1> QED BY <1>1, <1>2, TypeCorrect, PTL DEF Spec, OutcomeIsFinal
=============================================================================
