----------------------------- MODULE Connection -----------------------------
(***************************************************************************)
(* One native connection of the multiplayer service, as a record, and the  *)
(* steps its handlers take on it: the phases of the negotiation, the       *)
(* frames that carry it, the failure flags of its features.  The module    *)
(* has no state of its own; Negotiation keeps the records of a host and of *)
(* a client and decides when each step is taken.                           *)
(*                                                                         *)
(* A token is a positive number and 0 is "none".  A deadline is the flag   *)
(* "due": it has passed for every clock sample taken from now on.          *)
(***************************************************************************)
EXTENDS Naturals, FiniteSets

CONSTANTS Features,    \* the feature IDs a patch may register
          NoFeature    \* the empty ID of a whole-connection failure frame

ASSUME FeaturesAssumption ==
    /\ IsFiniteSet(Features)
    /\ NoFeature \notin Features

Phases == {"AwaitHello", "Hello", "AwaitWelcome", "Welcome", "AwaitReady",
           "Ready", "Established", "Expired", "Failed"}

(* The phases a deadline ends: the negotiation is still open. *)
Negotiating == Phases \ {"Established", "Expired", "Failed"}

Connections ==
    [id : Nat, phase : Phases, due : BOOLEAN, client : Nat, host : Nat,
     paths : SUBSET Features, supported : SUBSET Features,
     failed : SUBSET Features, notice : SUBSET Features, whole : BOOLEAN]

NoConnection ==
    [id |-> 0, phase |-> "AwaitHello", due |-> FALSE, client |-> 0, host |-> 0,
     paths |-> {}, supported |-> {}, failed |-> {}, notice |-> {},
     whole |-> FALSE]

(* What connect() stores before it looks at the mode. *)
NewConnection(id, featureIds) ==
    [NoConnection EXCEPT !.id = id, !.paths = featureIds]

-----------------------------------------------------------------------------
(* Frames.  A frame keeps the fields its kind has and a neutral value in   *)
(* the others, as the parser leaves them.                                  *)

Kinds == {"Hello", "Welcome", "Ready", "Failed"}

Frames ==
    [kind : Kinds, client : Nat, host : Nat, manifest : SUBSET Features,
     feature : Features \cup {NoFeature}]

Frame(kind, c, manifest, feature) ==
    [kind |-> kind, client |-> c.client, host |-> c.host,
     manifest |-> manifest, feature |-> feature]

(* The encoders refuse a frame whose tokens its kind does not allow. *)
ValidTokens(frame) ==
    /\ frame.client # 0
    /\ (frame.kind = "Hello") <=> (frame.host = 0)

(* The control frames the pump may choose for this connection: at most one *)
(* kind, and for feature notices any path that waits for one.              *)
ControlFrames(c, manifest) ==
    LET chosen ==
          CASE c.phase = "Hello"   -> {Frame("Hello", c, manifest, NoFeature)}
            [] c.phase = "Welcome" -> {Frame("Welcome", c, manifest, NoFeature)}
            [] c.phase = "Ready"   -> {Frame("Ready", c, {}, NoFeature)}
            [] c.phase \in {"Established", "Failed"} /\ c.whole ->
                 {Frame("Failed", c, {}, NoFeature)}
            [] c.phase \in {"Established", "Failed"} /\ ~c.whole ->
                 {Frame("Failed", c, {}, f) : f \in c.notice}
            [] OTHER -> {}
    IN  {frame \in chosen : ValidTokens(frame)}

-----------------------------------------------------------------------------
(* Steps of one remote connection. *)

FailConnection(c) == [c EXCEPT !.phase = "Failed", !.whole = TRUE]

Timeout(c) ==
    IF c.due /\ c.phase \in Negotiating THEN [c EXCEPT !.phase = "Expired"] ELSE c

(* fail(): the first failure of a registered path wins and owes a notice. *)
FailPath(c, f) ==
    IF f \in c.paths \ c.failed
    THEN [c EXCEPT !.failed = @ \cup {f}, !.notice = @ \cup {f}]
    ELSE c

(* Whether a Hello with this client token starts a new exchange. *)
HelloOpens(c, client) ==
    /\ c.phase \in {"AwaitHello", "Welcome", "AwaitReady"}
    /\ c.client # client

(* Mutant: a repeated Hello adds to what the first one offered. *)
AcceptHelloAddsUp(c, client, manifest, token) ==
    IF token = 0
    THEN FailConnection(c)
    ELSE [c EXCEPT !.client = client, !.host = token,
                   !.supported = @ \cup (c.paths \cap manifest), !.phase = "Welcome"]

(* The host's step for a Hello that opens an exchange; token 0 says that   *)
(* the random generator failed.                                            *)
AcceptHello(c, client, manifest, token) ==
    IF token = 0
    THEN FailConnection(c)
    ELSE [c EXCEPT !.client = client, !.host = token,
                   !.supported = c.paths \cap manifest, !.phase = "Welcome"]

(* A Failed frame about an established connection: the peer gave up on all *)
(* of it, or on one feature.  Neither answer is sent back.                 *)
PeerFailed(c, feature) ==
    IF feature = NoFeature
    THEN [FailConnection(c) EXCEPT !.whole = FALSE]
    ELSE IF feature \in c.paths
    THEN [c EXCEPT !.failed = @ \cup {feature}, !.notice = @ \ {feature}]
    ELSE c

(* Mutant: a Welcome is refused while the Hello is still being submitted. *)
AcceptsWelcomeLate(c, frame, server) ==
    /\ frame.kind = "Welcome"
    /\ ~server
    /\ frame.client = c.client
    /\ c.phase = "AwaitWelcome"

(* The steps of receive() behind the deadline check, the host's Hello      *)
(* apart: each guard is one of the tests the frame must pass.              *)
AcceptsWelcome(c, frame, server) ==
    /\ frame.kind = "Welcome"
    /\ ~server
    /\ frame.client = c.client
    /\ c.phase \in {"Hello", "AwaitWelcome"}

AcceptsReady(c, frame, server) ==
    /\ frame.kind = "Ready"
    /\ server
    /\ frame.client = c.client
    /\ frame.host = c.host
    /\ c.phase \in {"AwaitReady", "Welcome"}

AcceptsFailed(c, frame) ==
    /\ frame.kind = "Failed"
    /\ frame.client = c.client
    /\ frame.host = c.host
    /\ c.phase = "Established"

AcceptFrame(c, frame, server) ==
    CASE AcceptsWelcome(c, frame, server) ->
           [c EXCEPT !.host = frame.host, !.supported = c.paths \cap frame.manifest,
                     !.phase = "Ready"]
      [] AcceptsReady(c, frame, server) -> [c EXCEPT !.phase = "Established"]
      [] AcceptsFailed(c, frame) -> PeerFailed(c, frame.feature)
      [] OTHER -> c

-----------------------------------------------------------------------------
(* The pump remembers what it submitted while the lock was released. *)

Submissions == [id : Nat, phase : Phases, frame : Frames, result : {"Accepted", "Retry", "Failed"}]

(* The connection is still the one, and in the exchange, of the frame. *)
SameExchange(c, sub) ==
    /\ c.id = sub.id
    /\ c.client = sub.frame.client
    /\ c.host = sub.frame.host

(* Mutant: the host takes its own Welcome for the end of the exchange. *)
NextPhaseWithoutReady(phase) ==
    CASE phase = "Hello"   -> "AwaitWelcome"
      [] phase \in {"Welcome", "Ready"} -> "Established"
      [] OTHER -> phase

(* The phase after native acceptance; an exchange that moved on while the  *)
(* lock was released keeps the phase it has.                               *)
NextPhase(phase) ==
    CASE phase = "Hello"   -> "AwaitWelcome"
      [] phase = "Welcome" -> "AwaitReady"
      [] phase = "Ready"   -> "Established"
      [] OTHER -> phase

(* Mutant: the accepted frame decides the phase, whatever happened since. *)
AfterSubmitOverwrites(c, sub) ==
    IF ~SameExchange(c, sub) \/ sub.result = "Retry" THEN c
    ELSE IF sub.result = "Failed" THEN [FailConnection(c) EXCEPT !.whole = FALSE]
    ELSE IF sub.frame.kind # "Failed" THEN [c EXCEPT !.phase = NextPhase(sub.phase)]
    ELSE IF sub.frame.feature = NoFeature THEN [c EXCEPT !.whole = FALSE]
    ELSE [c EXCEPT !.notice = @ \ {sub.frame.feature}]

(* Mutant: one accepted notice settles all of them. *)
AfterSubmitClearsAll(c, sub) ==
    IF ~SameExchange(c, sub) \/ sub.result = "Retry" THEN c
    ELSE IF sub.result = "Failed" THEN [FailConnection(c) EXCEPT !.whole = FALSE]
    ELSE IF sub.frame.kind # "Failed"
    THEN [c EXCEPT !.phase = IF @ = sub.phase THEN NextPhase(@) ELSE @]
    ELSE [c EXCEPT !.whole = FALSE, !.notice = {}]

AfterSubmit(c, sub) ==
    IF ~SameExchange(c, sub) \/ sub.result = "Retry" THEN c
    ELSE IF sub.result = "Failed" THEN [FailConnection(c) EXCEPT !.whole = FALSE]
    ELSE IF sub.frame.kind # "Failed"
    THEN [c EXCEPT !.phase = IF @ = sub.phase THEN NextPhase(@) ELSE @]
    ELSE IF sub.frame.feature = NoFeature THEN [c EXCEPT !.whole = FALSE]
    ELSE [c EXCEPT !.notice = @ \ {sub.frame.feature}]

(* The pump goes on with this connection only after an accepted frame. *)
PumpGoesOn(c, sub) == SameExchange(c, sub) /\ sub.result = "Accepted"
=============================================================================
