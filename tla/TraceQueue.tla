------------------------------ MODULE TraceQueue ------------------------------
(***************************************************************************)
(* The trace session: channels into which threads copy records without     *)
(* waiting, and one worker that hands them to Windows, channel by channel. *)
(* A channel may be discarded, and the session shut down, with threads in  *)
(* the middle of a call.                                                   *)
(***************************************************************************)
EXTENDS ByteRing, Sequences, SequencesExt, FiniteSets, TLC

CONSTANTS
    Channels,
    Writers,     \* threads
    Usable,      \* cells of a ring
    Sizes,       \* of records, in cells, with their headers
    TraceBatch,  \* records of a channel in one pass
    MaxTraces,   \* calls
    MaxTroubles  \* failures of Windows

ASSUME TraceAssumption ==
    /\ {Usable, TraceBatch, MaxTraces, MaxTroubles} \subseteq Nat /\ TraceBatch > 0
    /\ Sizes \subseteq Nat \ {0}

VARIABLES
    recording,   \* maximum_mib is not zero
    channels,    \* those that were created, in that order
    channel,     \* [Channels -> TraceChannel::State]
    ended,       \* admission_closed
    output,      \* of the session: failed, limited, open, and troubles so far
    writer,      \* [Writers -> where a thread is, with which record]
    begun,       \* number of calls so far
    drainer      \* where the worker is

traceVars == <<recording, channels, channel, ended, output, writer, begun, drainer>>

-----------------------------------------------------------------------------

NewChannel(ring) ==
    [ring |-> ring, disabled |-> FALSE, active |-> {}, accepted |-> 0, written |-> 0, dropped |-> 0,
     refused |-> 0, full |-> 0, warned |-> FALSE, defined |-> FALSE]

Away == [at |-> "Idle"]

TraceInit ==
    /\ recording \in BOOLEAN
    /\ channels = <<>>
    /\ channel = [c \in Channels |-> [NewChannel(NewRing(0)) EXCEPT !.disabled = TRUE]]
    /\ ended = FALSE
    /\ output = [failed |-> FALSE, limited |-> FALSE, open |-> FALSE, closed |-> FALSE, troubles |-> 0]
    /\ writer = [t \in Writers |-> Away] /\ begun = 0
    /\ drainer = [at |-> "None"]

Locked == drainer.at = "Checking"  \* channels_mutex, while the worker looks at every channel

(* create_channel(): without a file limit a channel exists but is disabled. *)
CreateChannel(c) ==
    /\ ~ended /\ ~Locked /\ c \notin ToSet(channels)
    /\ channels' = Append(channels, c)
    /\ IF recording
       THEN /\ channel' = [channel EXCEPT ![c] = NewChannel(NewRing(Usable))]
            /\ drainer' = IF drainer.at = "None" THEN [at |-> "Waiting"] ELSE drainer
       ELSE UNCHANGED <<channel, drainer>>
    /\ UNCHANGED <<recording, ended, output, writer, begun>>

(* discard(), after the handler of the owner is gone. *)
Discard(c) ==
    /\ ~Locked /\ c \in ToSet(channels) /\ ~channel[c].disabled
    /\ channel' = [channel EXCEPT ![c].disabled = TRUE]
    /\ UNCHANGED <<recording, channels, ended, output, writer, begun, drainer>>

TraceShutdown ==
    /\ ~ended /\ ~Locked
    /\ ended' = TRUE
    /\ UNCHANGED <<recording, channels, channel, output, writer, begun, drainer>>

(* check(): anything Windows refuses stops the output for good. *)
Refused(o, kind) == [o EXCEPT ![kind] = TRUE, !.troubles = @ + 1]

Troubles == IF output.troubles < MaxTroubles THEN {"failed", "limited"} ELSE {}

(* close(), when the worker has ended; an open session has to be stopped. *)
Close ==
    LET shut == [output EXCEPT !.closed = TRUE, !.open = FALSE]
    IN  /\ ended /\ drainer.at \in {"None", "Ended"} /\ ~output.closed
        /\ output' \in {shut} \cup IF output.open THEN {Refused(shut, kind) : kind \in Troubles} ELSE {}
        /\ UNCHANGED <<recording, channels, channel, ended, writer, begun, drainer>>

-----------------------------------------------------------------------------
(* TraceChannel::write() *)

Stopped == output.failed \/ output.limited

Begin(t, c, size) ==
    /\ begun < MaxTraces /\ writer[t] = Away /\ c \in ToSet(channels)
    /\ ~channel[c].disabled /\ ~ended
    /\ begun' = begun + 1
    /\ writer' = [writer EXCEPT ![t] = [at |-> "Entering", channel |-> c, size |-> size]]
    /\ UNCHANGED <<recording, channels, channel, ended, output, drainer>>

Moves(t, at) ==
    /\ writer' = [writer EXCEPT ![t].at = at]
    /\ UNCHANGED <<recording, channels, ended, output, begun, drainer>>

EnterChannel(t) ==
    /\ writer[t].at = "Entering"
    /\ channel' = [channel EXCEPT ![writer[t].channel].active = @ \cup {t}]
    /\ Moves(t, "Inside")

(* Mutant: only shutdown is asked about again. *)
OpenStillSession(c) == ~ended

OpenStill(c) == ~channel[c].disabled /\ ~ended

(* Admission is asked again once discard and shutdown can see the thread. *)
Recheck(t) ==
    LET c == writer[t].channel
    IN  /\ writer[t].at = "Inside"
        /\ \/ /\ OpenStill(c) /\ ~Stopped
              /\ Moves(t, "Reserving") /\ UNCHANGED channel
           \/ /\ OpenStill(c) /\ Stopped
              /\ channel' = [channel EXCEPT ![c].dropped = @ + 1, ![c].refused = @ + 1]
              /\ Moves(t, "Leaving")
           \/ ~OpenStill(c) /\ Moves(t, "Leaving") /\ UNCHANGED channel

Reserve(t) ==
    LET c == writer[t].channel
        ring == channel[c].ring
    IN  /\ writer[t].at = "Reserving"
        /\ IF Fits(ring, writer[t].size)
           THEN /\ channel' = [channel EXCEPT ![c].ring = Reserved(ring, writer[t].size)]
                /\ writer' = [writer EXCEPT ![t] =
                      [at |-> "Copying", channel |-> c, size |-> writer[t].size,
                       position |-> ring.tail, n |-> ring.reserved + 1]]
                /\ UNCHANGED <<recording, channels, ended, output, begun, drainer>>
           ELSE /\ channel' = [channel EXCEPT ![c].full = @ + 1, ![c].dropped = @ + 1, ![c].refused = @ + 1]
                /\ Moves(t, "Leaving")

Copy(t) ==
    /\ writer[t].at = "Copying"
    /\ channel' = [channel EXCEPT ![writer[t].channel].ring = CopiedIn(@, writer[t]),
                                  ![writer[t].channel].accepted = @ + 1]
    /\ Moves(t, "Publishing")

PublishTrace(t) ==
    /\ writer[t].at = "Publishing"
    /\ channel' = [channel EXCEPT ![writer[t].channel].ring = Published(@, writer[t])]
    /\ Moves(t, "Leaving")

(* Mutant: a thread that was refused returns early. *)
StayingRefused(t) ==
    IF "position" \in DOMAIN writer[t] THEN channel[writer[t].channel].active \ {t}
    ELSE channel[writer[t].channel].active

Staying(t) == channel[writer[t].channel].active \ {t}

LeaveChannel(t) ==
    /\ writer[t].at = "Leaving"
    /\ channel' = [channel EXCEPT ![writer[t].channel].active = Staying(t)]
    /\ writer' = [writer EXCEPT ![t] = Away]
    /\ UNCHANGED <<recording, channels, ended, output, begun, drainer>>

-----------------------------------------------------------------------------
(* The worker.  "pending" says that complete records were left behind.     *)

AtChannel(todo, pending, last) == [at |-> "Channel", todo |-> todo, pending |-> pending, last |-> last]

DrainerAt(at) == drainer.at = at

Drainer(next) ==
    /\ drainer' = next
    /\ UNCHANGED <<recording, channels, ended, writer, begun>>

(* An event or a second without one; a wait that fails makes this pass the *)
(* last one.                                                               *)
Pass ==
    /\ DrainerAt("Waiting")
    /\ \/ Drainer(AtChannel(channels, FALSE, FALSE)) /\ UNCHANGED output
       \/ /\ output.troubles < MaxTroubles
          /\ output' = Refused(output, "failed")
          /\ Drainer(AtChannel(channels, FALSE, TRUE))
    /\ UNCHANGED channel

Current == Head(drainer.todo)

Deserted(c) == channel[c].disabled /\ channel[c].active = {}

Onward(pending) == Drainer(AtChannel(Tail(drainer.todo), drainer.pending \/ pending, drainer.last))

(* drain(): a discarded channel waits until its threads have left. *)
DrainChannel ==
    /\ DrainerAt("Channel") /\ drainer.todo # <<>>
    /\ IF channel[Current].disabled /\ ~Deserted(Current)
       THEN Onward(FALSE)
       ELSE Drainer([drainer EXCEPT !.at = "Draining"] @@ [left |-> TraceBatch])
    /\ UNCHANGED <<channel, output>>

(* A record leaves the ring before it is written; one of a discarded       *)
(* channel is dropped.                                                     *)
DrainRecord ==
    LET free == Released(channel[Current].ring)
        disabled == channel[Current].disabled
    IN  /\ DrainerAt("Draining") /\ drainer.left > 0
        /\ Complete(channel[Current].ring)
        /\ channel' = [channel EXCEPT ![Current].ring = free,
                                      ![Current].dropped = IF disabled THEN @ + 1 ELSE @]
        /\ Drainer([drainer EXCEPT !.at = IF disabled THEN @ ELSE "Writing", !.left = @ - 1])
        /\ UNCHANGED output

(* open(), definition() and EventWrite(), each of which Windows may refuse. *)
WriteTrace ==
    LET opened == [output EXCEPT !.open = TRUE]
    IN  /\ DrainerAt("Writing")
        /\ \/ /\ ~Stopped
              /\ output' = opened
              /\ channel' = [channel EXCEPT ![Current].written = @ + 1, ![Current].defined = TRUE]
           \/ /\ ~Stopped
              /\ \E kind \in Troubles, o \in {output, opened}, defined \in BOOLEAN :
                   /\ defined => o.open
                   /\ output' = Refused(o, kind)
                   /\ channel' = [channel EXCEPT ![Current].dropped = @ + 1, ![Current].defined = @ \/ defined]
           \/ /\ Stopped
              /\ channel' = [channel EXCEPT ![Current].dropped = @ + 1]
              /\ UNCHANGED output
        /\ Drainer([drainer EXCEPT !.at = "Draining"])

(* The next record is not complete, or the batch is over. *)
DrainEmpty ==
    /\ DrainerAt("Draining")
    /\ \/ /\ drainer.left > 0 /\ ~Complete(channel[Current].ring)
          /\ Drainer([drainer EXCEPT !.at = "Emptied"])
       \/ drainer.left = 0 /\ Onward(Complete(channel[Current].ring))
    /\ UNCHANGED <<channel, output>>

EmptyStill(c) == ~Complete(channel[c].ring)

(* The ring of a deserted channel is given back, unless a thread published *)
(* between the first look and its departure.                               *)
Reclaim ==
    /\ DrainerAt("Emptied")
    /\ channel' = IF Deserted(Current) /\ EmptyStill(Current)
                  THEN [channel EXCEPT ![Current].ring = Reclaimed(@)] ELSE channel
    /\ Onward(Deserted(Current) /\ ~EmptyStill(Current))
    /\ UNCHANGED output

(* queue_warnings(): each channel tells of its losses once. *)
Warned == [c \in Channels |-> [channel[c] EXCEPT !.warned = @ \/ channel[c].full > 0]]

(* health(), which asks Windows too. *)
TellHealth ==
    /\ channel' = Warned
    /\ \/ UNCHANGED output
       \/ output.open /\ ~Stopped /\ \E kind \in Troubles : output' = Refused(output, kind)

(* After all channels, and about once a second with health(). *)
EndPass ==
    /\ DrainerAt("Channel") /\ drainer.todo = <<>>
    /\ TellHealth \/ UNCHANGED <<channel, output>>
    /\ Drainer(IF ended /\ ~drainer.pending THEN [drainer EXCEPT !.at = "Asking"]
               ELSE [drainer EXCEPT !.at = IF drainer.last THEN "Ended" ELSE "Waiting"])

NobodyInside == \A c \in Channels : channel[c].active = {}

NotFinished == [drainer EXCEPT !.at = IF drainer.last THEN "Ended" ELSE "Waiting"]

(* With the lock: whether anybody can still publish, *)
Ask ==
    /\ DrainerAt("Asking")
    /\ Drainer(IF NobodyInside THEN [drainer EXCEPT !.at = "Checking"] ELSE NotFinished)
    /\ UNCHANGED <<channel, output>>

(* then what is left. *)
Check ==
    /\ DrainerAt("Checking")
    /\ IF \E c \in ToSet(channels) : Complete(channel[c].ring)
       THEN Drainer(NotFinished) /\ UNCHANGED <<channel, output>>
       ELSE Drainer([drainer EXCEPT !.at = "Ended"]) /\ TellHealth

-----------------------------------------------------------------------------

Writing(t) ==
    \/ EnterChannel(t) \/ Recheck(t) \/ Reserve(t) \/ Copy(t) \/ PublishTrace(t) \/ LeaveChannel(t)

Drain ==
    \/ Pass \/ DrainChannel \/ DrainRecord \/ WriteTrace \/ DrainEmpty \/ Reclaim
    \/ EndPass \/ Ask \/ Check

TraceNext ==
    \/ \E c \in Channels : CreateChannel(c) \/ Discard(c)
    \/ TraceShutdown \/ Close
    \/ \E t \in Writers : Writing(t) \/ \E c \in Channels, size \in Sizes : Begin(t, c, size)
    \/ Drain

TraceFairness == WF_traceVars(Drain) /\ \A t \in Writers : WF_traceVars(Writing(t))

TraceSpec == TraceInit /\ [][TraceNext]_traceVars
FairTraceSpec == TraceSpec /\ TraceFairness

-----------------------------------------------------------------------------
(* Properties. *)

Inside(c) == {t \in Writers : writer[t].at \in {"Reserving", "Copying", "Publishing"} /\ writer[t].channel = c}

Unaccepted(c) == Cardinality({t \in Inside(c) : writer[t].at = "Copying"})

Extracted(c) == IF DrainerAt("Writing") /\ Current = c THEN 1 ELSE 0

(* The consumer never mistakes a piece of a record for a header or takes   *)
(* one that is not complete; what producers hold was not given away; each  *)
(* record that was accepted is written, dropped or in the ring.            *)
TracesAccounted ==
    \A c \in Channels :
        LET k == channel[c]
        IN  /\ HeadIntact(k.ring)
            /\ k.ring.tail - k.ring.head <= k.ring.usable
            /\ k.accepted + k.refused
                 = k.written + k.dropped + (k.ring.reserved - k.ring.taken - Unaccepted(c)) + Extracted(c)

(* The ring of a discarded channel is only given back when no thread can   *)
(* touch it, and then it is empty; a worker that ended, unless its wait    *)
(* failed, leaves nothing behind and nobody who could add to it.           *)
NothingLeft ==
    /\ \A c \in Channels : channel[c].ring.usable = 0 =>
         Inside(c) = {} /\ channel[c].ring.reserved = channel[c].ring.taken
    /\ DrainerAt("Ended") /\ ~drainer.last =>
         \A c \in Channels : Inside(c) = {} /\ channel[c].ring.reserved = channel[c].ring.taken

(* A discarded channel gives its ring back, and a session that is shut     *)
(* down ends.                                                              *)
TracesEnd ==
    /\ ended /\ drainer.at # "None" ~> drainer.at = "Ended"
    /\ \A c \in Channels :
         recording /\ c \in ToSet(channels) /\ channel[c].disabled
           ~> channel[c].ring.usable = 0 \/ drainer.at = "Ended"
=============================================================================
