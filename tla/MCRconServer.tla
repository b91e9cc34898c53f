---------------------------- MODULE MCRconServer ----------------------------
(***************************************************************************)
(* Instances of the administration service.  "focus" is chosen once: the   *)
(* connections of three tools to a service for two, one of which only      *)
(* connects and one only logs in, or one tool that follows chat and the    *)
(* end of a match.                                                         *)
(***************************************************************************)
EXTENDS RconServer

CONSTANTS p1, p2, p3
VARIABLE focus

MCScripts ==
    {<<>>, <<"login">>, <<"login", "command", "command">>, <<"wrong", "login", "login">>, <<"login", "invalid">>}

MCInit ==
    /\ Init
    /\ focus \in {"Connections", "Chat"}
    /\ IF focus = "Chat" THEN script = [p \in Peers |-> IF p = p1 THEN <<"login">> ELSE <<>>]
       ELSE /\ script[p2] = <<"login">>
            /\ script[p1] \notin {<<>>, <<"login">>}
            /\ script[p3] = <<>>

\* The sockets matter while the worker looks at them.
MCNext ==
    /\ Next
    /\ UNCHANGED focus
    /\ focus = "Connections" => /\ game'.wins = 0 /\ game'.chats = 0
                                /\ link'[p2] \notin {"Finished", "Reset"}
                                /\ link'[p3] # link[p3] => Len(clients) = MaxClients
    /\ focus = "Chat" => /\ link'[p2] = "None" /\ link'[p3] = "None"
                         /\ link'[p1] \notin {"Finished", "Reset"}
    /\ <<script', link'>> # <<script, link>> /\ UNCHANGED worker => worker.at \in {"Polling", "Handling"}

MCSpec == MCInit /\ [][MCNext]_<<vars, focus>> /\ WF_vars(Serve) /\ WF_vars(StoreChat)

-----------------------------------------------------------------------------

(* Connections: output in order and without a gap, a rejected login final,  *)
(* a peer never cut off for sending ahead.  Events: chat in order, none     *)
(* lost without a count, and the marker of a match's end behind it.         *)
ServiceSound == OutputInOrder /\ RejectionFinal /\ PipeliningAllowed /\ EndgameAfterChat /\ ChatAccounted

(* A frame that is whole is handled and a marker that is pending announced, *)
(* unless the service stops first.  The third tool has no frames.           *)
ServiceProgresses == EndgameAnnounced /\ FrameServed(p1) /\ FrameServed(p2)
=============================================================================
