---------------------------- MODULE LuaMessages ----------------------------
(* Lua multiplayer between two processes.  The near process has scripts that  *)
(* listen to a channel: it announces the listener's registration to the far   *)
(* process and hands each message that names the registration to the script,  *)
(* through the deferred calls of the Lua bindings.  The far process learns    *)
(* the registration and addresses its messages to it.  In each process the    *)
(* Lua thread and the control thread run concurrently; the runtime calls the  *)
(* control thread with the agreement changes and the messages it collected.   *)
EXTENDS Integers, Sequences, FiniteSets, SequencesExt, FiniteSetsExt, TLC

CONSTANTS
    MaxListens,     \* registrations the near scripts make
    MaxVms,         \* Lua VMs of the near process
    MaxLinks,       \* connections between the processes
    MaxSends,       \* messages the far scripts send
    RetainLimit     \* kRetainedBytes in deliveries

ASSUME MessagesAssumption ==
    /\ MaxListens \in Nat /\ MaxVms \in Nat /\ MaxLinks \in Nat /\ MaxSends \in Nat
    /\ RetainLimit \in Nat \ {0}

VARIABLES
    links,          \* connections so far; the last one is the current one
    phase,          \* of the current connection, as the far process sees it
    failed,         \* one process failed the feature on the current connection
    outbound,       \* announcements accepted by the near runtime, not yet taken in
    arrived,        \* incoming_ of the far process
    known,          \* far peers_: [connection -> [agreement, listener]]
    farLast,        \* far FC_Feature::last
    far,            \* the far control thread
    sending,        \* the far script between its lookup and its submission
    messages,       \* every message accepted, in order: [to, link]
    transit,        \* numbers of the messages on the wire, in order
    incoming,       \* incoming_ of the near process
    vm,             \* the near VM that runs, or 0
    vms,            \* VMs so far
    ended,          \* VMs whose end the control thread has not been told of
    listener,       \* near listeners_: [registration, vm], registration 0 for none
    registrations,  \* next_registration
    announcement,   \* announcement_: [version, registration]
    peers,          \* near peers_: [connection -> [agreement, announced]]
    nearLast,       \* near FC_Feature::last
    near,           \* the near control thread
    jobs,           \* deferred calls not yet destroyed: [message, vm, done]
    retained,       \* retained_bytes_ in deliveries
    handled,        \* history: <<message, registration>> handed to a script
    sent            \* history: [link, registration], the last list submitted

network == <<links, phase, failed>>
farSide == <<known, farLast, far, sending>>
scripts == <<vm, vms, ended, listener, registrations, announcement>>
nearSide == <<peers, nearLast, near, sent>>
work == <<jobs, retained, handled>>
wire == <<outbound, arrived, messages, transit, incoming>>
vars == <<network, wire, farSide, scripts, nearSide, work>>

None == 0
Idle == [at |-> "Idle"]
Connected == phase # "None"
Never == [version |-> -1, registration |-> None]

\* agreement_locked() of the feature, in each process.
FarAgreement == IF ~Connected THEN "Unavailable" ELSE IF failed THEN "Failed"
                ELSE IF phase = "Ready" THEN "Pending" ELSE "Compatible"
NearAgreement == IF ~Connected THEN "Unavailable" ELSE IF failed THEN "Failed" ELSE "Compatible"

Init ==
    /\ links = 0 /\ phase = "None" /\ failed = FALSE
    /\ outbound = << >> /\ arrived = << >>
    /\ known = << >> /\ farLast = << >> /\ far = Idle
    /\ sending = None
    /\ messages = << >> /\ transit = << >> /\ incoming = << >>
    /\ vm = None /\ vms = 0 /\ ended = {}
    /\ listener = [registration |-> None, vm |-> None]
    /\ registrations = 0
    /\ announcement = [version |-> 0, registration |-> None]
    /\ peers = << >> /\ nearLast = << >> /\ near = Idle
    /\ jobs = << >> /\ retained = 0 /\ handled = << >>
    /\ sent = [link |-> 0, registration |-> None]
-----------------------------------------------------------------------------
(* The connection, as the runtimes see it.                                    *)

\* The near process has the far one's Ready, which completes its side.  It may
\* answer while the far one is still in the native call that submitted Ready.
Connect ==
    /\ ~Connected /\ links < MaxLinks
    /\ links' = links + 1
    /\ phase' = "Ready"
    /\ failed' = FALSE
    /\ UNCHANGED <<wire, farSide, scripts, nearSide, work>>

\* The native call that submitted Ready returns.
Establish ==
    /\ phase = "Ready"
    /\ phase' = "Established"
    /\ UNCHANGED <<links, failed, wire, farSide, scripts, nearSide, work>>

\* What was queued for the connection goes with it.
Disconnect ==
    /\ Connected
    /\ phase' = "None"
    /\ outbound' = << >> /\ arrived' = << >> /\ transit' = << >> /\ incoming' = << >>
    /\ UNCHANGED <<links, failed, messages, farSide, scripts, nearSide, work>>

Carry ==
    /\ Connected /\ ~failed
    /\ \/ /\ outbound # << >>
          /\ outbound' = Tail(outbound) /\ arrived' = Append(arrived, Head(outbound))
          /\ UNCHANGED <<messages, transit, incoming>>
       \/ /\ transit # << >>
          /\ transit' = Tail(transit) /\ incoming' = Append(incoming, Head(transit))
          /\ UNCHANGED <<outbound, arrived, messages>>
    /\ UNCHANGED <<network, farSide, scripts, nearSide, work>>
-----------------------------------------------------------------------------
(* deliver() of a runtime: it collects the agreement changes and the number   *)
(* of queued messages under one lock, then calls the patch.                   *)

Agreements(agreement) == IF Connected THEN links :> agreement ELSE << >>

Changes(last, agreement) ==
    {<<l, agreement>> : l \in {l \in {links} : Connected /\ (l \notin DOMAIN last \/ last[l] # agreement)}}
    \cup {<<l, "Unavailable">> : l \in DOMAIN last \ DOMAIN Agreements(agreement)}

\* A pass that finds nothing to do is left out.
FarSample ==
    /\ far.at = "Idle"
    /\ Changes(farLast, FarAgreement) # {} \/ arrived # << >>
    /\ farLast' = Agreements(FarAgreement)
    /\ far' = [at |-> "Deliver", changes |-> Changes(farLast, FarAgreement), left |-> Len(arrived)]
    /\ UNCHANGED <<network, wire, known, sending, scripts, nearSide, work>>

\* peer_changed()
Changed(table, entry, id, agreement) ==
    IF agreement = "Unavailable" THEN [l \in DOMAIN table \ {id} |-> table[l]]
    ELSE IF id \in DOMAIN table /\ agreement = "Compatible"
    THEN [table EXCEPT ![id].agreement = agreement]
    ELSE (id :> [entry EXCEPT !.agreement = agreement]) @@ table

FarChanged ==
    /\ far.at = "Deliver"
    /\ \E c \in far.changes :
          /\ far' = [far EXCEPT !.changes = @ \ {c}]
          /\ known' = Changed(known, [agreement |-> "None", listener |-> None], c[1], c[2])
    /\ UNCHANGED <<network, wire, farLast, sending, scripts, nearSide, work>>

\* receive() of a listener list: it replaces the list of a Compatible peer.
FarReceive ==
    /\ far.at = "Deliver" /\ far.changes = {} /\ far.left > 0
    /\ arrived # << >> /\ FarAgreement # "Pending"
    /\ arrived' = Tail(arrived)
    /\ far' = [far EXCEPT !.left = @ - 1]
    /\ known' = IF FarAgreement = "Compatible" /\ links \in DOMAIN known
                   /\ known[links].agreement = "Compatible"
                THEN [known EXCEPT ![links].listener = Head(arrived)] ELSE known
    /\ UNCHANGED <<network, outbound, messages, transit, incoming, farLast, sending, scripts,
                   nearSide, work>>

FarDone ==
    /\ far.at = "Deliver" /\ far.changes = {}
    /\ far.left = 0 \/ arrived = << >> \/ FarAgreement = "Pending"
    /\ far' = Idle
    /\ UNCHANGED <<network, wire, known, farLast, sending, scripts, nearSide, work>>

\* send(): the registration is copied under the mutex, the message submitted
\* outside it.
LookUp ==
    /\ sending = None /\ Len(messages) < MaxSends
    /\ FarAgreement = "Compatible" /\ links \in DOMAIN known /\ known[links].listener # None
    /\ sending' = known[links].listener
    /\ UNCHANGED <<network, wire, known, farLast, far, scripts, nearSide, work>>

Submit ==
    /\ sending # None
    /\ sending' = None
    /\ IF FarAgreement = "Compatible"
       THEN /\ messages' = Append(messages, [to |-> sending, link |-> links])
            /\ transit' = Append(transit, Len(messages) + 1)
       ELSE UNCHANGED <<messages, transit>>
    /\ UNCHANGED <<network, outbound, arrived, incoming, known, farLast, far, scripts, nearSide,
                   work>>
-----------------------------------------------------------------------------
(* The near scripts.                                                          *)

StartVm ==
    /\ vm = None /\ vms < MaxVms
    /\ vm' = vms + 1 /\ vms' = vms + 1
    /\ UNCHANGED <<network, wire, farSide, ended, listener, registrations, announcement, nearSide,
                   work>>

Announce(registration) ==
    announcement' = [version |-> announcement.version + 1, registration |-> registration]

\* listen(): a channel another live VM owns is refused, but one VM runs at a
\* time; what a VM that ended left behind is replaced.
Listen ==
    /\ vm # None /\ registrations < MaxListens
    /\ registrations' = registrations + 1
    /\ listener' = [registration |-> registrations + 1, vm |-> vm]
    /\ Announce(registrations + 1)
    /\ UNCHANGED <<network, wire, farSide, vm, vms, ended, nearSide, work>>

Close ==
    /\ vm # None /\ listener.registration # None /\ listener.vm = vm
    /\ listener' = [registration |-> None, vm |-> None]
    /\ Announce(None)
    /\ UNCHANGED <<network, wire, farSide, vm, vms, ended, registrations, nearSide, work>>

\* The bindings invalidate the VM's functions and cancel its waiting calls.
EndVm ==
    /\ vm # None
    /\ vm' = None /\ ended' = ended \cup {vm}
    /\ jobs' = [i \in DOMAIN jobs |-> IF jobs[i].vm = vm THEN [jobs[i] EXCEPT !.done = TRUE]
                                                       ELSE jobs[i]]
    /\ UNCHANGED <<network, wire, farSide, vms, listener, registrations, announcement, nearSide,
                   retained, handled>>
-----------------------------------------------------------------------------
(* The near control thread.                                                   *)

\* state_changed()
StateChanged ==
    /\ near.at = "Idle"
    /\ \E v \in ended :
          /\ ended' = ended \ {v}
          /\ IF listener.vm = v
             THEN listener' = [registration |-> None, vm |-> None] /\ Announce(None)
             ELSE UNCHANGED <<listener, announcement>>
    /\ UNCHANGED <<network, wire, farSide, vm, vms, registrations, nearSide, work>>

NearSample ==
    /\ near.at = "Idle"
    /\ \/ Changes(nearLast, NearAgreement) # {} \/ incoming # << >>
       \/ \E l \in DOMAIN peers : peers[l].agreement = "Compatible" /\ peers[l].announced # announcement
       \/ \E i \in DOMAIN jobs : jobs[i].done
    /\ nearLast' = Agreements(NearAgreement)
    /\ near' = [at |-> "Deliver", changes |-> Changes(nearLast, NearAgreement),
                left |-> Len(incoming)]
    /\ UNCHANGED <<sent, network, wire, farSide, scripts, peers, work>>

NearChanged ==
    /\ near.at = "Deliver"
    /\ \E c \in near.changes :
          /\ near' = [near EXCEPT !.changes = @ \ {c}]
          /\ peers' = Changed(peers, [agreement |-> "None", announced |-> Never], c[1], c[2])
    /\ UNCHANGED <<sent, network, wire, farSide, scripts, nearLast, work>>

Compatible(link) ==
    /\ link \in DOMAIN peers /\ peers[link].agreement = "Compatible"
    /\ link = links /\ NearAgreement = "Compatible"

\* Mutant: a delivery is current for whatever listener the channel has.
IsCurrent_M1(delivery) ==
    /\ Compatible(messages[delivery.message].link)
    /\ listener.registration # None /\ delivery.vm = vm

\* current(): the delivery's own listener is still the channel's, its VM lives
\* and its peer is compatible.
IsCurrent(delivery) ==
    /\ Compatible(messages[delivery.message].link)
    /\ listener.registration = delivery.registration /\ delivery.vm = vm

\* receive() of a message: the registration finds the listener.
Route ==
    /\ near.at = "Deliver" /\ near.changes = {} /\ near.left > 0 /\ incoming # << >>
    /\ incoming' = Tail(incoming)
    /\ LET m == Head(incoming)
           delivery == [message |-> m, registration |-> listener.registration,
                        vm |-> listener.vm]
       IN  IF /\ NearAgreement = "Compatible" /\ listener.registration = messages[m].to
              /\ IsCurrent(delivery)
           THEN near' = [at |-> "Queue", delivery |-> delivery, left |-> near.left - 1]
           ELSE near' = [near EXCEPT !.left = @ - 1]
    /\ UNCHANGED <<sent, network, outbound, arrived, messages, transit, farSide, scripts, peers,
                   nearLast, work>>

\* Storage and the bindings' queue take the delivery, or a delivery that is
\* still current fails the feature.  The bindings share their queue with other
\* patches, so they may have no room.
Queue ==
    /\ near.at = "Queue"
    /\ near' = [at |-> "Deliver", changes |-> {}, left |-> near.left]
    /\ \/ /\ retained = RetainLimit
          /\ failed' = (failed \/ (Connected /\ messages[near.delivery.message].link = links))
          /\ UNCHANGED <<jobs, retained>>
       \/ /\ retained < RetainLimit /\ vm = near.delivery.vm
          /\ jobs' = Append(jobs, [message |-> near.delivery.message,
                                   registration |-> near.delivery.registration,
                                   vm |-> vm, done |-> FALSE])
          /\ retained' = retained + 1
          /\ UNCHANGED failed
       \/ /\ retained < RetainLimit
          /\ failed' = (failed \/ IsCurrent(near.delivery))
          /\ UNCHANGED <<jobs, retained>>
    /\ UNCHANGED <<sent, links, phase, wire, farSide, scripts, peers, nearLast, handled>>

NearDelivered ==
    /\ near.at = "Deliver" /\ near.changes = {}
    /\ near.left = 0 \/ incoming = << >>
    /\ near' = [at |-> "Update"]
    /\ UNCHANGED <<sent, network, wire, farSide, scripts, peers, nearLast, work>>

\* update(): the destinations and the latest list are taken under the mutex,
\* sent outside it.
Update ==
    /\ near.at = "Update"
    /\ near' = [at |-> "Announce", latest |-> announcement,
                to |-> {l \in DOMAIN peers : peers[l].agreement = "Compatible"
                                             /\ peers[l].announced # announcement}]
    /\ UNCHANGED <<sent, network, wire, farSide, scripts, peers, nearLast, work>>

\* Mutant: a destination counts as announced to the list current when it is recorded.
SendAnnouncement_M1 ==
    /\ near.at = "Announce"
    /\ \E l \in near.to :
          /\ near' = [near EXCEPT !.to = @ \ {l}]
          /\ IF l = links /\ NearAgreement = "Compatible"
             THEN /\ outbound' = Append(outbound, near.latest.registration)
                  /\ sent' = [link |-> l, registration |-> near.latest.registration]
                  /\ peers' = [peers EXCEPT ![l].announced = announcement]
             ELSE UNCHANGED <<outbound, sent, peers>>
    /\ UNCHANGED <<network, arrived, messages, transit, incoming, farSide, scripts, nearLast, work>>

SendAnnouncement ==
    /\ near.at = "Announce"
    /\ \E l \in near.to :
          /\ near' = [near EXCEPT !.to = @ \ {l}]
          /\ IF l = links /\ NearAgreement = "Compatible"
             THEN /\ outbound' = Append(outbound, near.latest.registration)
                  /\ sent' = [link |-> l, registration |-> near.latest.registration]
                  /\ peers' = [peers EXCEPT ![l].announced = near.latest]
             ELSE UNCHANGED <<outbound, sent, peers>>
    /\ UNCHANGED <<network, arrived, messages, transit, incoming, farSide, scripts, nearLast, work>>

\* The queue is full or busy: the list waits for a later update.
RefuseAnnouncement ==
    /\ near.at = "Announce"
    /\ \E l \in near.to : near' = [near EXCEPT !.to = @ \ {l}]
    /\ UNCHANGED <<sent, network, wire, farSide, scripts, peers, nearLast, work>>

\* What is left of the calls when finished ones are destroyed.
Unfinished(queue) ==
    LET kept[i \in 0..Len(queue)] ==
          IF i = 0 THEN << >>
          ELSE IF queue[i].done THEN kept[i - 1] ELSE Append(kept[i - 1], queue[i])
    IN  kept[Len(queue)]

\* The pass ends; finished calls are destroyed with their deliveries.
NearDone ==
    /\ near.at = "Announce" /\ near.to = {}
    /\ near' = Idle
    /\ jobs' = Unfinished(jobs)
    /\ retained' = retained - Cardinality({i \in DOMAIN jobs : jobs[i].done})
    /\ UNCHANGED <<sent, network, wire, farSide, scripts, peers, nearLast, handled>>

\* deliver(): the first waiting call of the VM runs; it rechecks its delivery,
\* then decodes the value and calls the handler.
HandToScript(i) ==
    IF IsCurrent(jobs[i]) THEN Append(handled, <<jobs[i].message, jobs[i].registration>>)
                          ELSE handled

Deliver ==
    /\ vm # None
    /\ LET waiting == {i \in DOMAIN jobs : jobs[i].vm = vm /\ ~jobs[i].done}
       IN  /\ waiting # {}
           /\ handled' = HandToScript(Min(waiting))
           /\ jobs' = [jobs EXCEPT ![Min(waiting)].done = TRUE]
    /\ UNCHANGED <<network, wire, farSide, scripts, nearSide, retained>>

\* The value does not decode: the peer's messaging fails.
DeliverMalformed ==
    /\ vm # None
    /\ LET waiting == {i \in DOMAIN jobs : jobs[i].vm = vm /\ ~jobs[i].done}
       IN  /\ waiting # {} /\ IsCurrent(jobs[Min(waiting)])
           /\ jobs' = [jobs EXCEPT ![Min(waiting)].done = TRUE]
    /\ failed' = TRUE
    /\ UNCHANGED <<links, phase, wire, farSide, scripts, nearSide, retained, handled>>
-----------------------------------------------------------------------------
FarControl == FarSample \/ FarChanged \/ FarReceive \/ FarDone
NearControl == \/ StateChanged \/ NearSample \/ NearChanged \/ Route \/ Queue \/ NearDelivered
               \/ Update \/ SendAnnouncement \/ NearDone

Next == \/ Connect \/ Establish \/ Disconnect \/ Carry
        \/ FarControl \/ LookUp \/ Submit
        \/ StartVm \/ Listen \/ Close \/ EndVm
        \/ NearControl \/ RefuseAnnouncement \/ Deliver \/ DeliverMalformed

\* Both control threads run, native calls return, the transport carries what it
\* accepted, the game updates its VM.  Announcements are not refused forever.
Fairness ==
    /\ WF_vars(FarControl) /\ WF_vars(NearControl) /\ WF_vars(Establish) /\ WF_vars(Carry)
    /\ WF_vars(Submit) /\ WF_vars(Deliver) /\ SF_vars(SendAnnouncement)

Spec == Init /\ [][Next]_vars /\ Fairness
-----------------------------------------------------------------------------
\* A script is handed the messages addressed to its own registration, in the
\* order sent, each once, and only while that registration, its VM and the
\* connection are current; storage is charged for the calls not yet destroyed.
RoutingSound ==
    /\ \A i \in DOMAIN handled : messages[handled[i][1]].to = handled[i][2]
    /\ \A i, j \in DOMAIN handled : i < j => handled[i][1] < handled[j][1]
    /\ retained = Len(jobs) /\ retained <= RetainLimit

MessagesRouted ==
    /\ []RoutingSound
    /\ [][handled' # handled =>
            LET m == Last(handled')[1]
            IN  listener.registration = messages[m].to /\ listener.vm = vm /\ vm # None
                /\ messages[m].link = links /\ Connected /\ ~failed]_vars

\* An accepted message reaches its script unless its listener was replaced,
\* closed or ended, its connection ended, or the feature failed: nothing is
\* lost in silence.
Explained(m) ==
    m \in DOMAIN messages =>
        \/ \E i \in DOMAIN handled : handled[i][1] = m
        \/ failed \/ ~Connected \/ messages[m].link # links
        \/ listener.registration # messages[m].to

MessagesSettle == \A m \in 1..MaxSends : ~Explained(m) ~> Explained(m)

\* ready() for the near scripts' channel: the far process has the peer as compatible and this list.
Knows(registration) ==
    /\ links \in DOMAIN known
    /\ known[links] = [agreement |-> "Compatible", listener |-> registration]

\* The last list submitted on this connection has been taken in, and the far patch has been told
\* that the peer is compatible.
Advertised ==
    /\ Connected /\ FarAgreement = "Compatible" /\ NearAgreement = "Compatible"
    /\ sent.link = links /\ outbound = << >> /\ arrived = << >>
    /\ far = Idle /\ links \in DOMAIN farLast /\ farLast[links] = "Compatible"

\* What lua_multiplayer.md:134 says of Ready: true when the peer is compatible and has advertised
\* the listener.
ReadyOfAdvertised == Advertised /\ sent.registration # None => Knows(sent.registration)
=============================================================================
