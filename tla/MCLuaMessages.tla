--------------------------- MODULE MCLuaMessages ---------------------------
(* Lua multiplayer in three situations, one at a time: two messages, a listener *)
(* or its VM that is replaced, a connection that is replaced.                  *)
EXTENDS LuaMessages

VARIABLES
    focus,  \* the situation of this behaviour
    missed  \* history: the last list taken in on this connection was dropped, as the far patch had
            \* not been told that the peer is compatible

\* The bounds of each situation: [listens, vms, links, sends].
Situations ==
    [Order |-> [listens |-> 1, vms |-> 1, links |-> 1, sends |-> 2],
     Vms   |-> [listens |-> 2, vms |-> 2, links |-> 1, sends |-> 1],
     Links |-> [listens |-> 1, vms |-> 1, links |-> 2, sends |-> 1]]

MCInit == Init /\ focus \in DOMAIN Situations /\ missed = FALSE

\* Only the scripts and the connection are bounded, so no fair action waits for a bound.
Allowed ==
    /\ registrations' <= Situations[focus].listens /\ vms' <= Situations[focus].vms
    /\ links' <= Situations[focus].links
    /\ sending' # sending /\ sending' # None => Len(messages) < Situations[focus].sends

Told == links \in DOMAIN known /\ known[links].agreement = "Compatible"

MCNext ==
    /\ Next /\ Allowed /\ UNCHANGED focus
    /\ missed' = IF links' # links THEN FALSE ELSE IF FarReceive THEN ~Told ELSE missed

MCSpec == MCInit /\ [][MCNext]_<<vars, focus, missed>> /\ Fairness

-----------------------------------------------------------------------------

(* On a connection that lasts, once scripts stop changing their listeners, the *)
(* present list has been sent and taken in, and the peer knows it, whatever    *)
(* was refused or changed meanwhile.  One way of losing it is left out: the    *)
(* list was taken in before the far patch was told of the agreement, which     *)
(* ReadyOfAdvertised is about.                                                 *)
ListsArrive ==
    /\ <>[](Connected /\ ~failed)
    /\ <>[][UNCHANGED announcement]_announcement
    => <>[](/\ sent = [link |-> links, registration |-> announcement.registration]
            /\ outbound = << >> /\ arrived = << >>
            /\ missed \/ Knows(announcement.registration))

(* An accepted message reaches its script or a cause stands against it, and    *)
(* the last list of a process is known to its peer unless it was missed.       *)
MessagesArrive == MessagesSettle /\ ListsArrive
=============================================================================
