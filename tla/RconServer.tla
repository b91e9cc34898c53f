----------------------------- MODULE RconServer -----------------------------
(***************************************************************************)
(* The remote administration service of the GOG game (patches/rcon_server/ *)
(* gog): one worker accepts connections on the loopback listener, reads    *)
(* logins and commands, sends what each connection has queued, and passes  *)
(* on the chat that the game thread captures and the end of a match.       *)
(*                                                                         *)
(* A frame or a packet is a sequence of units, so that a read or a write   *)
(* may end inside one.  What a command does to the game, and the contents  *)
(* of its response, are left out; the worker executes it in the step that  *)
(* handles the connection.                                                 *)
(***************************************************************************)
EXTENDS FiniteSets, Naturals, SequencesExt

CONSTANTS
    Peers,           \* administration tools
    Scripts,         \* the frames a peer may send: sequences of "login", "wrong", "command", "invalid"
    MaxClients, AcceptsPerPoll, FramesPerPoll,
    InputCapacity,   \* units of Client::input_
    OutputLimit,     \* units not sent yet
    ChatCapacity, ChatPumpLimit,
    MaxChat, MaxWins, MaxFailures

ASSUME RconAssumption ==
    /\ MaxClients \in Nat \ {0} /\ AcceptsPerPoll \in Nat \ {0} /\ FramesPerPoll \in Nat \ {0}
    /\ InputCapacity \in Nat /\ InputCapacity >= 2
    /\ OutputLimit \in Nat \ {0} /\ ChatCapacity \in Nat \ {0} /\ ChatPumpLimit \in Nat \ {0}

VARIABLES
    script,     \* frames each peer still sends
    link,       \* each peer's connection: "None", "Waiting", "Open", "Reset" by the peer, "Closed"
    wire,       \* units each peer sent that were not received
    got,        \* units each peer received
    clients,    \* Service::clients_
    worker,     \* the worker: [at, ...]
    game,       \* [winner, chats]: the mission's state and the chat captured so far
    chat,       \* the capture queue: [lock, queue, dropped]
    endgame,    \* [had, pending]
    gone,       \* history: each peer's connection as the service left it
    wonAt,      \* history: the chat captured before the first end of a match
    taken       \* history: the chat drained

connections == <<script, link, wire, got, clients, gone>>
notifications == <<game, chat, endgame, wonAt, taken>>
vars == <<connections, notifications, worker>>

-----------------------------------------------------------------------------
Unit(what, n, part) == <<what, n, part>>
Frame(what) == <<Unit(what, 0, 1), Unit(what, 0, 2)>>
Reply(accepted) == <<Unit(IF accepted THEN "accepted" ELSE "rejected", 0, 2)>>
Answer(n) == <<Unit("answer", n, 1), Unit("answer", n, 2)>>
Chat(n) == <<Unit("chat", n, 1), Unit("chat", n, 2)>>
Endgame == <<Unit("end", 0, 2)>>

(* A connection.  "queued", "count" and "cause" are history: the units it  *)
(* was given to send, the commands executed, and why it was closed.        *)
NewClient(p) ==
    [peer |-> p, valid |-> TRUE, authenticated |-> FALSE, closing |-> FALSE,
     input |-> <<>>, output |-> <<>>, offset |-> 0, count |-> 0, queued |-> <<>>, cause |-> "None"]

Disconnect(c, cause) ==
    IF c.valid THEN [c EXCEPT !.valid = FALSE, !.output = <<>>, !.offset = 0, !.cause = cause] ELSE c

(* Client::queue_packet(): the limit is on what was not sent, and sent *)
(* units are dropped from the front first.                             *)
Unsent(c) == SubSeq(c.output, c.offset + 1, Len(c.output))

Queue(c, packet) ==
    IF Len(Unsent(c)) + Len(packet) > OutputLimit THEN Disconnect(c, "Output")
    ELSE [c EXCEPT !.output = Unsent(c) \o packet, !.offset = 0, !.queued = @ \o packet]

(* Client::process_input(), one frame: a login first, then commands. *)
Complete(c) == Len(c.input) >= 2
Consume(c) == [c EXCEPT !.input = SubSeq(@, 3, Len(@))]

Login(c) ==
    LET accepted == c.input[1][1] = "login"
        queued == Queue(c, Reply(accepted))
    IN  IF ~queued.valid THEN queued
        ELSE [Consume(queued) EXCEPT !.authenticated = accepted, !.closing = ~accepted]

Request(c) ==
    IF c.input[1][1] # "command" THEN Disconnect(c, "Invalid")
    ELSE LET done == [c EXCEPT !.count = @ + 1]
             queued == Queue(done, Answer(c.count + 1))
         IN  IF queued.valid THEN Consume(queued) ELSE queued

Handled(c) == IF c.authenticated THEN Request(c) ELSE Login(c)

Ready(c) == c.valid /\ ~c.closing /\ Complete(c)

(* The whole of it, within what is left of the poll's budget. *)
RECURSIVE Processed(_, _)
Processed(c, budget) ==
    IF budget = 0 \/ ~Ready(c) THEN [client |-> c, budget |-> budget]
    ELSE Processed(Handled(c), budget - 1)

(* Client::receive(): a full buffer, the end of the stream and a failure *)
(* close the connection.                                                 *)
Receive(c, n) ==
    IF Len(c.input) = InputCapacity THEN Disconnect(c, "Input")
    ELSE IF n = 0 THEN Disconnect(c, "Peer")
    ELSE [c EXCEPT !.input = @ \o SubSeq(wire[c.peer], 1, n)]

(* Client::send_pending(), when the socket takes n units. *)
Send(c, n) ==
    LET sent == IF c.offset + n = Len(c.output) THEN [c EXCEPT !.output = <<>>, !.offset = 0]
                ELSE [c EXCEPT !.offset = @ + n]
    IN  IF sent.output = <<>> /\ c.closing THEN Disconnect(sent, "Rejected") ELSE sent

(* Client::handle_events(): buffered frames, what arrives, what is queued. *)
\* Mutant: only new input is processed.
Early_M1(c, events) ==
    IF "hangup" \in events THEN [client |-> Disconnect(c, "Peer"), budget |-> 0]
    ELSE [client |-> c, budget |-> FramesPerPoll]

Early(c, events) ==
    IF "hangup" \in events THEN [client |-> Disconnect(c, "Peer"), budget |-> 0]
    ELSE Processed(c, FramesPerPoll)

Receives(early, events) == early.client.valid /\ "read" \in events

Late(early, events, n) ==
    IF Receives(early, events) THEN Processed(Receive(early.client, n), early.budget).client ELSE early.client

Sends(c, events) == c.valid /\ "write" \in events

Flushed(c, events, n) == IF Sends(c, events) THEN Send(c, n) ELSE c

-----------------------------------------------------------------------------
Waiting == [at |-> "Waiting"]
Polling == [at |-> "Polling"]
Accepting(events, n) == [at |-> "Accepting", events |-> events, n |-> n]
Handling(events, i) == [at |-> "Handling", events |-> events, i |-> i]
Sampling == [at |-> "Sampling"]
Draining == [at |-> "Draining"]
Locked == [at |-> "Locked"]
Broadcasting(batch, empty) == [at |-> "Broadcasting", batch |-> batch, empty |-> empty]
Stopped == [at |-> "Stopped"]

Init ==
    /\ script \in [Peers -> Scripts]
    /\ link = [p \in Peers |-> "None"]
    /\ wire = [p \in Peers |-> <<>>] /\ got = [p \in Peers |-> <<>>]
    /\ clients = <<>>
    /\ gone = [p \in Peers |-> NewClient(p)]
    /\ worker = Waiting
    /\ game = [winner |-> FALSE, chats |-> 0, wins |-> 0]
    /\ chat = [lock |-> "Free", queue |-> <<>>, dropped |-> {}]
    /\ endgame = [had |-> FALSE, pending |-> FALSE]
    /\ wonAt = MaxChat + 1 /\ taken = <<>>

-----------------------------------------------------------------------------
(* The peers and their sockets.                                            *)

Connect(p) ==
    /\ link[p] = "None"
    /\ link' = [link EXCEPT ![p] = "Waiting"]
    /\ UNCHANGED <<script, wire, got, clients, gone, notifications, worker>>

SendFrame(p) ==
    /\ link[p] \in {"Waiting", "Open"} /\ script[p] # <<>>
    /\ wire' = [wire EXCEPT ![p] = @ \o Frame(Head(script[p]))]
    /\ script' = [script EXCEPT ![p] = Tail(@)]
    /\ UNCHANGED <<link, got, clients, gone, notifications, worker>>

(* A peer ends its stream in order, or resets the connection. *)
Leave(p) ==
    /\ link[p] = "Open"
    /\ \E how \in {"Finished", "Reset"} : link' = [link EXCEPT ![p] = how]
    /\ UNCHANGED <<script, wire, got, clients, gone, notifications, worker>>

-----------------------------------------------------------------------------
(* The game thread.  GameBridge::enqueue_chat() does not wait for the lock *)
(* and drops the oldest entry of a full queue.                             *)

CaptureChat ==
    /\ game.chats < MaxChat /\ chat.lock # "Game"
    /\ game' = [game EXCEPT !.chats = @ + 1]
    /\ chat' = IF chat.lock = "Free" THEN [chat EXCEPT !.lock = "Game"]
               ELSE [chat EXCEPT !.dropped = @ \cup {game.chats + 1}]
    /\ UNCHANGED <<connections, endgame, wonAt, taken, worker>>

Pushed(queue, n) ==
    IF Len(queue) = ChatCapacity THEN Append(Tail(queue), n) ELSE Append(queue, n)

StoreChat ==
    /\ chat.lock = "Game"
    /\ chat' = [lock |-> "Free", queue |-> Pushed(chat.queue, game.chats),
                dropped |-> chat.dropped \cup (IF Len(chat.queue) = ChatCapacity THEN {Head(chat.queue)} ELSE {})]
    /\ UNCHANGED <<connections, game, endgame, wonAt, taken, worker>>

(* A team wins; later a new mission starts. *)
Mission ==
    /\ chat.lock # "Game"
    /\ IF game.winner
       THEN game' = [game EXCEPT !.winner = FALSE] /\ UNCHANGED wonAt
       ELSE /\ game.wins < MaxWins
            /\ game' = [game EXCEPT !.winner = TRUE, !.wins = @ + 1]
            /\ wonAt' = IF game.wins = 0 THEN game.chats ELSE wonAt
    /\ UNCHANGED <<connections, chat, endgame, taken, worker>>

-----------------------------------------------------------------------------
(* The worker.                                                             *)

(* Service::activate(): a winner there already is no news. *)
Activate ==
    /\ worker = Waiting
    /\ worker' = Polling
    /\ endgame' = [endgame EXCEPT !.had = game.winner]
    /\ UNCHANGED <<connections, game, chat, wonAt, taken>>

(* poll_sockets(): what is asked of each client and what may be reported. *)
Reported(c, writable) ==
    (IF link[c.peer] = "Reset" THEN {"hangup"} ELSE {})
    \cup (IF ~c.closing /\ (wire[c.peer] # <<>> \/ link[c.peer] = "Finished") THEN {"read"} ELSE {})
    \cup (IF c.output # <<>> /\ writable THEN {"write"} ELSE {})

InBacklog == {p \in Peers : link[p] = "Waiting"}

Poll ==
    /\ worker = Polling
    /\ \E writable \in SUBSET Range([i \in DOMAIN clients |-> clients[i].peer]) :
           LET events == [i \in DOMAIN clients |-> Reported(clients[i], clients[i].peer \in writable)]
           IN  worker' = IF InBacklog # {} THEN Accepting(events, AcceptsPerPoll) ELSE Handling(events, 1)
    /\ UNCHANGED <<connections, notifications>>

(* WSAPoll fails, or reports an error of the listener: the process ends. *)
PollFails ==
    /\ worker = Polling /\ MaxFailures > 0
    /\ worker' = Stopped
    /\ UNCHANGED <<connections, notifications>>

(* accept_clients(), one connection. *)
AcceptClient ==
    /\ worker.at = "Accepting" /\ worker.n > 0
    /\ \E p \in InBacklog :
           IF Len(clients) = MaxClients
           THEN /\ link' = [link EXCEPT ![p] = "Closed"]
                /\ UNCHANGED clients
           ELSE /\ link' = [link EXCEPT ![p] = "Open"]
                /\ clients' = Append(clients, NewClient(p))
    /\ worker' = [worker EXCEPT !.n = @ - 1]
    /\ UNCHANGED <<script, wire, got, gone, notifications>>

EndAccept ==
    /\ worker.at = "Accepting" /\ (worker.n = 0 \/ InBacklog = {})
    /\ worker' = Handling(worker.events, 1)
    /\ UNCHANGED <<connections, notifications>>

(* The i-th descriptor is the i-th client of the poll. *)
HandleClient ==
    /\ worker.at = "Handling" /\ worker.i \in DOMAIN worker.events
    /\ LET c == clients[worker.i]
            events == worker.events[worker.i]
            early == Early(c, events)
            free == InputCapacity - Len(early.client.input)
        IN  \E n \in 0..Len(wire[c.peer]) :
              /\ n <= free
              /\ n = 0 <=> ~Receives(early, events) \/ free = 0 \/ wire[c.peer] = <<>>
              /\ LET late == Late(early, events, n)
                 IN  \E m \in 0..Len(Unsent(late)) :
                       /\ m = 0 <=> ~Sends(late, events) \/ Unsent(late) = <<>>
                       /\ clients' = [clients EXCEPT ![worker.i] = Flushed(late, events, m)]
                       /\ wire' = [wire EXCEPT ![c.peer] = SubSeq(@, n + 1, Len(@))]
                       /\ got' = [got EXCEPT ![c.peer] = @ \o SubSeq(Unsent(late), 1, m)]
    /\ worker' = [worker EXCEPT !.i = @ + 1]
    /\ UNCHANGED <<script, link, gone, notifications>>

EndHandling ==
    /\ worker.at = "Handling" /\ worker.i \notin DOMAIN worker.events
    /\ worker' = Sampling
    /\ UNCHANGED <<connections, notifications>>

(* pump_notifications(): the winner, then the capture queue, if nobody *)
(* holds it, then those who are told.                                  *)
SampleWinner ==
    /\ worker = Sampling
    /\ endgame' = [had |-> game.winner, pending |-> endgame.pending \/ (~endgame.had /\ game.winner)]
    /\ worker' = Draining
    /\ UNCHANGED <<connections, game, chat, wonAt, taken>>

LockChat ==
    /\ worker = Draining
    /\ IF chat.lock = "Free"
       THEN chat' = [chat EXCEPT !.lock = "Worker"] /\ worker' = Locked
       ELSE UNCHANGED chat /\ worker' = Broadcasting(<<>>, FALSE)
    /\ UNCHANGED <<connections, game, endgame, wonAt, taken>>

DrainChat ==
    /\ worker = Locked
    /\ LET n == Min({Len(chat.queue), ChatPumpLimit})
            rest == SubSeq(chat.queue, n + 1, Len(chat.queue))
        IN  /\ worker' = Broadcasting(SubSeq(chat.queue, 1, n), rest = <<>>)
            /\ taken' = taken \o SubSeq(chat.queue, 1, n)
            /\ chat' = [chat EXCEPT !.lock = "Free", !.queue = rest]
    /\ UNCHANGED <<connections, game, endgame, wonAt>>

(* broadcast(): an authenticated client over its limit is disconnected. *)
Broadcast(cs, packet) ==
    [i \in DOMAIN cs |-> IF cs[i].valid /\ cs[i].authenticated THEN Queue(cs[i], packet) ELSE cs[i]]

\* Mutant: the marker does not wait for an empty queue.
Marks_M1(empty) == endgame.pending

Marks(empty) == empty /\ endgame.pending

Tell ==
    /\ worker.at = "Broadcasting"
    /\ LET told == FoldLeft(LAMBDA cs, n : Broadcast(cs, Chat(n)), clients, worker.batch)
            marked == IF Marks(worker.empty) THEN Broadcast(told, Endgame) ELSE told
            left == {marked[i] : i \in DOMAIN marked} \ {c \in Range(marked) : c.valid}
        IN  /\ clients' = SelectSeq(marked, LAMBDA c : c.valid)
            /\ gone' = [p \in Peers |-> IF \E c \in left : c.peer = p
                                        THEN CHOOSE c \in left : c.peer = p ELSE gone[p]]
            /\ link' = [p \in Peers |-> IF \E c \in left : c.peer = p THEN "Closed" ELSE link[p]]
    /\ endgame' = [endgame EXCEPT !.pending = @ /\ ~Marks(worker.empty)]
    /\ worker' = Polling
    /\ UNCHANGED <<script, wire, got, game, chat, wonAt, taken>>

Serve == \/ Poll \/ AcceptClient \/ EndAccept \/ HandleClient \/ EndHandling
         \/ SampleWinner \/ LockChat \/ DrainChat \/ Tell

Next ==
    \/ \E p \in Peers : Connect(p) \/ SendFrame(p) \/ Leave(p)
    \/ CaptureChat \/ StoreChat \/ Mission
    \/ Activate \/ PollFails \/ Serve

Spec == Init /\ [][Next]_vars

(* The worker is a thread of its own, and the game's holds the lock briefly. *)
FairSpec == Spec /\ WF_vars(Serve) /\ WF_vars(StoreChat)
-----------------------------------------------------------------------------
Of(p) ==
    IF \E i \in DOMAIN clients : clients[i].peer = p
    THEN clients[CHOOSE i \in DOMAIN clients : clients[i].peer = p] ELSE gone[p]

(* What a peer received is what was queued for it, in order and without a  *)
(* gap, wherever writes ended inside a packet; while it is connected the   *)
(* rest is waiting (client.cpp:86).                                        *)
OutputInOrder ==
    \A p \in Peers :
        /\ IsPrefix(got[p], Of(p).queued)
        /\ Of(p).valid => got[p] \o Unsent(Of(p)) = Of(p).queued

(* A rejected login is final: the connection gets that one reply, and what *)
(* it sent after it is never looked at (client.cpp:140).                   *)
RejectionFinal ==
    \A p \in Peers : Reply(FALSE)[1] \in Range(Of(p).queued) =>
        Of(p).queued = Reply(FALSE) /\ Of(p).count = 0

(* A peer may send commands faster than they are executed: the frames each *)
(* poll leaves never fill the buffer, which would end the connection.      *)
PipeliningAllowed == \A p \in Peers : Of(p).cause # "Input"

(* Chat reaches every tool in the order it was said, and what was said     *)
(* before the end of a match comes before the marker of it, although it    *)
(* may take several drains (service.cpp:228).                              *)
EndgameAfterChat ==
    \A p \in Peers : \A i, j \in DOMAIN Of(p).queued :
        LET u == Of(p).queued[i]
            v == Of(p).queued[j]
        IN  i < j /\ v[1] = "chat" =>
              /\ u[1] = "end" => v[2] > wonAt
              /\ u[1] = "chat" => u[2] <= v[2]

(* Captured chat is drained once, in order, still queued, or counted as     *)
(* dropped; neither thread waits for the other.                            *)
ChatAccounted ==
    LET kept == taken \o chat.queue
        stored == IF chat.lock = "Game" THEN game.chats - 1 ELSE game.chats
    IN  /\ Range(kept) \cup chat.dropped = 1..stored
        /\ Range(kept) \cap chat.dropped = {}
        /\ \A i, j \in DOMAIN kept : i < j => kept[i] < kept[j]

(* A pending marker is announced once the chat before it is gone.          *)
EndgameAnnounced == endgame.pending ~> ~endgame.pending \/ worker = Stopped

(* A frame in the buffer is handled though the socket reports nothing new: *)
(* the frame limit of a poll leaves it for the next (client.cpp:62).       *)
FrameServed(p) == Ready(Of(p)) ~> (~Ready(Of(p)) \/ worker \in {Stopped, Waiting})
=============================================================================
