------------------------------ MODULE RelayPath ------------------------------
(***************************************************************************)
(* A AgentLine server and the relay together: the handlers of RelayService *)
(* and RelayServer over the links of RelayNet, with phones that come and   *)
(* go, links that break or die silently, and a relay that restarts.        *)
(***************************************************************************)
EXTENDS RelayService

vars == <<netVars, relayVars, serviceVars>>

Init == NetInit /\ RelayInit /\ ServiceInit

(* a link dies silently. Only a link with a keepalive on it, or one that   *)
(* was handed off, does so here                                            *)
CutLink(l) ==
    /\ Failing
    /\ local[l] = "open" /\ remote[l] = "open"
    /\ l \in claimed \cup ({waitingWs} \ {None})
    /\ l \notin cut
    /\ cut' = cut \cup {l}
    /\ up' = [up EXCEPT ![l] = <<>>]
    /\ down' = [down EXCEPT ![l] = <<>>]
    /\ UNCHANGED <<local, remote, relayVars, serviceVars>>

RelayNext ==
    \/ \E l \in Links :
        \/ OnRegister(l) /\ UNCHANGED serviceVars
        \/ Registered(l) /\ UNCHANGED serviceVars
        \/ GrantRefused(l) /\ UNCHANGED serviceVars
        \/ UsernameTaken(l) /\ UNCHANGED serviceVars
        \/ RelayPongTimeout(l) /\ UNCHANGED serviceVars
        \/ LinkClosed(l) /\ UNCHANGED serviceVars
        \/ LinkBroken(l) /\ UNCHANGED serviceVars
    \/ \E p \in Phones :
        \/ \E u \in Users : OnClientConnect(p, u) /\ UNCHANGED serviceVars
        \/ Connected(p) /\ UNCHANGED serviceVars
        \/ ConnectRefused(p) /\ UNCHANGED serviceVars
        \/ Forward(p) /\ UNCHANGED serviceVars
        \/ PhoneClosed(p) /\ UNCHANGED serviceVars
    \/ DisconnectServers /\ UNCHANGED serviceVars
    \/ RelayRestart /\ UNCHANGED serviceVars

ServiceNext ==
    \/ Stop
    \/ \E u \in Users : Start(u)
    \/ \E l \in Links :
        \/ HandleOpen(l)
        \/ GrantReady(l)
        \/ GrantFailed(l)
        \/ HandleRegistered(l)
        \/ HandleRejection(l)
        \/ HandleClaimed(l)
        \/ SessionEnds(l)
        \/ ServerEndClosed(l)
        \/ ServerEndBroken(l)
    \/ ReconnectTimer
    \/ HandleKeepaliveTimeout

Next == RelayNext \/ ServiceNext \/ \E l \in Links : CutLink(l)

(* What the relay and the service do about a link of their own accord:     *)
(* messages and close events arrive, the control plane answers, and a dead *)
(* link is pinged                                                          *)
RelayStep(l) ==
    \/ OnRegister(l) \/ Registered(l) \/ UsernameTaken(l)
    \/ RelayPongTimeout(l) \/ LinkClosed(l)

ServiceStep(l) ==
    \/ HandleOpen(l) \/ GrantReady(l)
    \/ HandleRegistered(l) \/ HandleRejection(l) \/ HandleClaimed(l)
    \/ ServerEndClosed(l)

(* a phone's connect is answered, and then it sends its first frame or     *)
(* goes away; nothing obliges a phone that was greeted, a user, a failure  *)
PhoneStep(p) ==
    \/ Connected(p) \/ ConnectRefused(p)
    \/ p \notin greeted /\ connecting[p] = None /\ (Forward(p) \/ PhoneClosed(p))

SystemStep ==
    \/ \E l \in Links : RelayStep(l) /\ UNCHANGED serviceVars
    \/ \E l \in Links : ServiceStep(l)
    \/ \E p \in Phones : PhoneStep(p) /\ UNCHANGED serviceVars
    \/ ReconnectTimer
    \/ waitingWs \in cut /\ HandleKeepaliveTimeout

Fairness == WF_vars(SystemStep)

Spec == Init /\ [][Next]_vars
FairSpec == Spec /\ Fairness

-----------------------------------------------------------------------------
(* Types, and the service's flags. *)
TypeOK == NetTypeOK /\ RelayTypeOK /\ ServiceTypeOK

(* The relay's maps agree: pairs are symmetric, a socket is either waiting *)
(* or paired or neither (connections.ts), and the relay does not ping the  *)
(* link of a pair while it is open (ws-handler.ts).                        *)
MapsAgree ==
    /\ \A s \in Sockets : peer[s] # None => peer[peer[s]] = s
    /\ \A l \in Links :
        /\ active[l] = "paired" <=> peer[l] # None
        /\ active[l] = "waiting" <=> \E u \in Users : waiting[u] = l
        /\ peer[l] # None /\ HasState(l) => l \notin pinging
    /\ \A u, v \in Users : waiting[u] # None /\ waiting[u] = waiting[v] => u = v

(* A service that is enabled has a link or a timer behind it, and a link   *)
(* it believes in has not had its close event.                             *)
ServiceIsDriven ==
    /\ enabled => timer \/ connectingWs # None \/ waitingWs # None
    /\ \A l \in {connectingWs, waitingWs} \ {None} : local[l] \in {"dialing", "open", "closing"}
    /\ keepalive <=> waitingWs # None

(* What the service takes for a waiting link is one at the relay too, or a *)
(* phone was paired with it, or the relay is closing it.                   *)
WaitingIsMutual ==
    waitingWs # None /\ remote[waitingWs] = "open" =>
        waiting[nameOf[waitingWs]] = waitingWs \/ peer[waitingWs] # None

(* When a pair loses one end, the other is closed. *)
PairedEndsOpen ==
    \A s \in Sockets : peer[s] # None => remote[s] # "closed"

(* A phone that asks now is paired with a link that works *)
Reachable ==
    /\ waiting[user] # None
    /\ local[waiting[user]] = "open" /\ remote[waiting[user]] = "open"
    /\ waiting[user] \notin cut

(* A service that stays enabled, under a name that is not another's, can   *)
(* be reached at the relay again and again.                                *)
ReachableAgain == []<>(~enabled \/ owner[user] = "other" \/ Reachable)

=============================================================================
