---------------------------- MODULE RelayService ----------------------------
(***************************************************************************)
(* RelayClientService (packages/server/src/services): keeps one link       *)
(* waiting at the relay, hands a claimed link to the session layer and     *)
(* opens the next, and reconnects after closes, rejections and keepalive   *)
(* timeouts. Handlers of a socket that was replaced still run: the code    *)
(* compares it with the current ones in some handlers and not in others.   *)
(***************************************************************************)
EXTENDS RelayServer

CONSTANT MaxStarts   \* bound on the calls of start and stop

ASSUME StartsAssumption == MaxStarts \in Nat

VARIABLES enabled, connectingWs, waitingWs,
          claimed,      \* links handed off and not closed yet
          handedOff,    \* links whose listeners were removed
          granting,     \* links whose handleOpen awaits its grant
          timer,        \* the reconnect timer is running
          keepalive,    \* the ping interval is running
          user,         \* config.username
          starts

flowVars == <<enabled, connectingWs, waitingWs, timer, keepalive>>
serviceVars == <<flowVars, claimed, handedOff, granting, user, starts>>

ServiceTypeOK ==
    /\ {enabled, timer, keepalive} \subseteq BOOLEAN
    /\ {connectingWs, waitingWs} \subseteq Links \cup {None}
    /\ claimed \subseteq handedOff /\ handedOff \subseteq Links
    /\ granting \subseteq Links
    /\ user \in Users
    /\ starts \in 0..MaxStarts

ServiceInit ==
    /\ enabled = FALSE /\ timer = FALSE /\ keepalive = FALSE
    /\ connectingWs = None /\ waitingWs = None
    /\ claimed = {} /\ handedOff = {} /\ granting = {}
    /\ user \in Users
    /\ starts = 0

-----------------------------------------------------------------------------
(* A link nobody refers to and with nothing left to deliver: its name may  *)
(* stand for a new socket                                                  *)
Spare(l) ==
    /\ local[l] # "dialing"
    /\ l \notin {connectingWs, waitingWs} \cup claimed \cup granting
    /\ l \notin registering
    /\ \A u \in Users : waiting[u] # l
    /\ \A p \in Phones : connecting[p] # l
    /\ peer[l] = None
    /\ up[l] = <<>> /\ down[l] = <<>>

(* which spare name a new socket gets makes no difference *)
HasSpare == \E l \in Links : Spare(l)
SpareLink == CHOOSE l \in Links : Spare(l)

(* new WebSocket(relayUrl): the connecting socket, whatever was before it. *)
(* ends are the links' ends as the caller leaves them.                     *)
Dial(l, ends, name) ==
    /\ connectingWs' = l
    /\ local' = [ends EXCEPT ![l] = "dialing"]
    /\ remote' = [remote EXCEPT ![l] = "unused"]
    /\ UNCHANGED up
    /\ cut' = cut \ {l}
    /\ named' = named \ {l}
    /\ paired' = paired \ {l}
    /\ pinging' = pinging \ {l}
    /\ nameOf' = [nameOf EXCEPT ![l] = name]
    /\ UNCHANGED failures

(* everything a handler leaves alone that does not dial *)
NoDial ==
    UNCHANGED <<remote, up, cut, named, paired, pinging, nameOf>>

(* scheduleReconnect *)
ScheduleReconnect(isEnabled) == timer' = (isEnabled \/ timer)

(* connect(), where "on" is the enabled flag as the caller leaves it; the  *)
(* constructor may throw, which schedules a reconnect                      *)
Connect(on, ends, name, isTimed) ==
    \/ on /\ timer' = isTimed /\ HasSpare /\ Dial(SpareLink, ends, name)
    \/ on /\ timer' = TRUE /\ Failing /\ NoDial /\ local' = ends /\ UNCHANGED connectingWs
    \/ ~on /\ timer' = isTimed /\ NoDial /\ local' = ends
           /\ UNCHANGED <<connectingWs, failures>>

relayKept == <<pairVars, registering, phoneVars, owner>>
offRelay == <<remote, relayVars>>

-----------------------------------------------------------------------------
(* stop: every socket it knows of is closed *)
Known == ({connectingWs, waitingWs} \ {None}) \cup claimed

Stop ==
    /\ enabled /\ starts < MaxStarts
    /\ starts' = starts + 1
    /\ enabled' = FALSE /\ timer' = FALSE /\ keepalive' = FALSE
    /\ connectingWs' = None /\ waitingWs' = None
    /\ claimed' = {}
    /\ local' = Closing(local, Known)
    /\ UNCHANGED <<up, down, cut, failures, offRelay, handedOff, granting, user>>

(* start, updateRelayUrl and updateUsername: stop, then connect. When the  *)
(* constructor throws the connecting socket stays null.                    *)
Start(u) ==
    /\ starts < MaxStarts
    /\ starts' = starts + 1
    /\ user' = u
    /\ enabled' = TRUE /\ keepalive' = FALSE
    /\ waitingWs' = None
    /\ claimed' = {}
    /\ \/ timer' = FALSE /\ HasSpare /\ Dial(SpareLink, Closing(local, Known), u)
       \/ /\ timer' = TRUE /\ Failing /\ NoDial
          /\ local' = Closing(local, Known)
          /\ connectingWs' = None
    /\ handedOff' = handedOff \ {connectingWs'}
    /\ UNCHANGED <<down, relayKept, granting>>

(* the open event: handleOpen asks the control plane for a grant *)
HandleOpen(l) ==
    /\ local[l] = "dialing"
    /\ local' = [local EXCEPT ![l] = "open"]
    /\ remote' = [remote EXCEPT ![l] = "open"]
    /\ granting' = granting \cup {l}
    /\ UNCHANGED <<up, down, cut, failures, relayVars, flowVars, claimed,
                   handedOff, user, starts>>

(* the grant came: register, unless the socket was replaced meanwhile *)
IsCurrent(l) == enabled /\ l = connectingWs

GrantReady(l) ==
    /\ l \in granting
    /\ granting' = granting \ {l}
    /\ up' = IF IsCurrent(l) THEN Sent(up, local, remote, l, "register") ELSE up
    /\ UNCHANGED <<local, down, cut, failures, offRelay, flowVars, claimed,
                   handedOff, user, starts>>

GrantFailed(l) ==
    /\ l \in granting
    /\ Failing
    /\ granting' = granting \ {l}
    /\ local' = Closing(local, {l})
    /\ UNCHANGED <<up, down, cut, offRelay, flowVars, claimed, handedOff, user,
                   starts>>

-----------------------------------------------------------------------------
Receive(l, m) ==
    /\ l \notin handedOff
    /\ down[l] # <<>>
    /\ Head(down[l]) = m
    /\ down' = [down EXCEPT ![l] = Tail(@)]

(* server_registered: whichever link it came on is the waiting one *)
HandleRegistered(l) ==
    /\ Receive(l, "registered")
    /\ connectingWs' = None
    /\ waitingWs' = l
    /\ keepalive' = TRUE
    /\ UNCHANGED <<local, up, cut, failures, offRelay, enabled, timer, claimed,
                   handedOff, granting, user, starts>>

(* handleRejection: a taken name disables the service *)
HandleRejection(l) ==
    /\ local' = Closing(local, {l})
    /\ \/ /\ Receive(l, "taken")
          /\ enabled' = FALSE
          /\ UNCHANGED timer
       \/ /\ Receive(l, "rejected")
          /\ ScheduleReconnect(enabled)
          /\ UNCHANGED enabled
    /\ UNCHANGED <<up, cut, failures, offRelay, connectingWs, waitingWs,
                   keepalive, claimed, handedOff, granting, user, starts>>

(* Mutant: the listeners are not removed *)
HandleClaimedListening(l) ==
    /\ Receive(l, "hello")
    /\ keepalive' = FALSE
    /\ waitingWs' = None
    /\ claimed' = claimed \cup {l}
    /\ Connect(enabled, local, user, timer)
    /\ handedOff' = handedOff \ {connectingWs'}
    /\ UNCHANGED <<relayKept, enabled, granting, user, starts>>

(* handleClaimed: hand the link off, or close it when the session layer    *)
(* throws, and open the next. No link is known to be waiting afterwards,   *)
(* whichever one was.                                                      *)
HandleClaimed(l) ==
    /\ Receive(l, "hello")
    /\ keepalive' = FALSE
    /\ waitingWs' = None
    /\ \/ /\ claimed' = claimed \cup {l}
          /\ Connect(enabled, local, user, timer)
       \/ /\ UNCHANGED claimed
          /\ Connect(enabled, Closing(local, {l}), user, timer)
    /\ handedOff' = (handedOff \cup {l}) \ {connectingWs'}
    /\ UNCHANGED <<relayKept, enabled, granting, user, starts>>

(* the session layer ends a claimed session *)
SessionEnds(l) ==
    /\ l \in claimed
    /\ local[l] = "open"
    /\ local' = Closing(local, {l})
    /\ UNCHANGED <<up, down, cut, failures, offRelay, serviceVars>>

(* Mutant: a waiting link that closes is not replaced *)
HandleLinkCloseIdly(l) ==
    /\ down' = [down EXCEPT ![l] = <<>>]
    /\ local' = [local EXCEPT ![l] = "closed"]
    /\ claimed' = claimed \ {l}
    /\ connectingWs' = IF l = connectingWs THEN None ELSE connectingWs
    /\ waitingWs' = IF l = waitingWs THEN None ELSE waitingWs
    /\ keepalive' = (keepalive /\ l # waitingWs)
    /\ timer' = (timer \/ (enabled /\ l = connectingWs))
    /\ UNCHANGED <<enabled, up, cut, offRelay, handedOff, granting, user, starts>>

(* the close event: claimed links are dropped, and the connecting or the   *)
(* waiting one is replaced after a delay                                   *)
HandleLinkClose(l) ==
    /\ down' = [down EXCEPT ![l] = <<>>]
    /\ local' = [local EXCEPT ![l] = "closed"]
    /\ claimed' = claimed \ {l}
    /\ IF l \in handedOff \/ l \notin {connectingWs, waitingWs}
         THEN UNCHANGED flowVars
         ELSE /\ ScheduleReconnect(enabled)
              /\ IF l = connectingWs
                   THEN connectingWs' = None /\ UNCHANGED <<waitingWs, keepalive>>
                   ELSE waitingWs' = None /\ keepalive' = FALSE
                        /\ UNCHANGED connectingWs
              /\ UNCHANGED enabled
    /\ UNCHANGED <<up, cut, offRelay, handedOff, granting, user, starts>>

ServerEndClosed(l) ==
    /\ MustClose(l, local, remote, down)
    /\ HandleLinkClose(l)
    /\ UNCHANGED failures

ServerEndBroken(l) ==
    /\ local[l] \in {"dialing", "open"}
    /\ Failing
    /\ HandleLinkClose(l)

ReconnectTimer ==
    /\ timer
    /\ Connect(enabled, local, user, FALSE)
    /\ handedOff' = handedOff \ {connectingWs'}
    /\ UNCHANGED <<down, relayKept, enabled, waitingWs, keepalive, claimed,
                   granting, user, starts>>

(* no pong in time, or the clock says the machine slept: the waiting link  *)
(* is closed and forgotten                                                 *)
HandleKeepaliveTimeout ==
    /\ keepalive
    /\ \/ waitingWs \in cut /\ UNCHANGED failures
       \/ Failing
    /\ keepalive' = FALSE
    /\ waitingWs' = None
    /\ local' = Closing(local, {waitingWs})
    /\ ScheduleReconnect(enabled)
    /\ UNCHANGED <<up, down, cut, offRelay, enabled, connectingWs, claimed,
                   handedOff, granting, user, starts>>

=============================================================================
