---------------------------- MODULE RelayServer -----------------------------
(***************************************************************************)
(* The relay: ConnectionManager (packages/relay/src/connections.ts) and    *)
(* the handlers that call it (ws-handler.ts), with grants required as      *)
(* index.ts does. Registration and a phone's connect await the control     *)
(* plane; every other handler may run meanwhile, and nothing is checked    *)
(* again after the await. The pair, pairLookup and the paired flags of     *)
(* both ends are kept apart, as in the code.                               *)
(***************************************************************************)
EXTENDS RelayNet

CONSTANTS Users,       \* relay usernames
          EarlyLeave   \* TRUE: a phone may close while its connect awaits

VARIABLES waiting,      \* username -> its waiting socket, or None
          peer,         \* pairLookup: the other end of a socket's pair
          active,       \* activeServers: "none", "waiting" or "paired"
          named,        \* servers whose state.username is set
          paired,       \* sockets whose state.paired is set
          pinging,      \* links with a ping interval that runs
          registering,  \* links whose registration awaits its grant
          connecting,   \* phone -> the waiting socket it found, or None
          greeted,      \* phones whose first frame was sent
          owner,        \* username -> whose install the registry row names
          nameOf        \* link -> the username it was opened for

relayVars == <<waiting, peer, active, named, paired, pinging, registering,
               connecting, greeted, owner, nameOf>>
pairVars == <<waiting, peer, active>>
phoneVars == <<connecting, greeted>>
nameVars == <<owner, nameOf>>

RelayTypeOK ==
    /\ waiting \in [Users -> Links \cup {None}]
    /\ peer \in [Sockets -> Sockets \cup {None}]
    /\ active \in [Links -> {"none", "waiting", "paired"}]
    /\ named \subseteq Sockets
    /\ paired \subseteq Sockets
    /\ pinging \subseteq Links
    /\ registering \subseteq Links
    /\ connecting \in [Phones -> Links \cup {None}]
    /\ greeted \subseteq Phones
    /\ owner \in [Users -> {"nobody", "us", "other"}]
    /\ nameOf \in [Links -> Users]

RelayInit ==
    /\ waiting = [u \in Users |-> None]
    /\ peer = [s \in Sockets |-> None]
    /\ active = [l \in Links |-> "none"]
    /\ named = {}
    /\ paired = {}
    /\ pinging = {}
    /\ registering = {}
    /\ connecting = [p \in Phones |-> None]
    /\ greeted = {}
    /\ owner \in [Users -> {"nobody", "us", "other"}]
    /\ nameOf \in {[l \in Links |-> u] : u \in Users}

-----------------------------------------------------------------------------
(* onMessage with server_register: the grant is sent to the control plane *)
OnRegister(l) ==
    /\ remote[l] \in {"open", "closing"} /\ up[l] # <<>>
    /\ l \notin paired
    /\ up' = [up EXCEPT ![l] = Tail(@)]
    /\ registering' = registering \cup {l}
    /\ UNCHANGED <<local, remote, down, cut, failures, pairVars, named, paired,
                   pinging, phoneVars, nameVars>>

(* Mutant: the previous waiting socket is left open *)
RegisterBeside(l) ==
    /\ waiting' = [waiting EXCEPT ![nameOf[l]] = l]
    /\ active' = [k \in Links |-> IF k = l THEN "waiting"
                                  ELSE IF k = waiting[nameOf[l]] THEN "none"
                                  ELSE active[k]]
    /\ owner' = [owner EXCEPT ![nameOf[l]] = "us"]
    /\ UNCHANGED remote

(* registerServer: the previous waiting socket of the name is closed and   *)
(* forgotten, the new one is stored whatever became of it meanwhile        *)
RegisterServer(l) ==
    LET u == nameOf[l]
        previous == {waiting[u]} \ {None}
    IN /\ waiting' = [waiting EXCEPT ![u] = l]
       /\ active' = [k \in Links |-> IF k = l THEN "waiting"
                                     ELSE IF k \in previous THEN "none"
                                     ELSE active[k]]
       /\ remote' = Closing(remote, previous)
       /\ owner' = [owner EXCEPT ![u] = "us"]

(* what a handler still writes to after its await: onClose has deleted the *)
(* state of a closed socket, and the next getState makes a fresh one       *)
HasState(s) == remote[s] # "closed"

(* the grant is consumed and the name is ours or free. Of a link that      *)
(* closed meanwhile only the detached state learns its name, and the ping  *)
(* interval that is started is one that nothing stops.                     *)
Registered(l) ==
    /\ l \in registering
    /\ owner[nameOf[l]] # "other"
    /\ registering' = registering \ {l}
    /\ RegisterServer(l)
    /\ named' = IF HasState(l) THEN named \cup {l} ELSE named
    /\ down' = Sent(down, remote, local, l, "registered")
    /\ pinging' = pinging \cup {l}
    /\ UNCHANGED <<local, up, cut, failures, peer, paired, phoneVars, nameOf>>

(* server_rejected and close *)
Refused(l, answer) ==
    /\ l \in registering
    /\ registering' = registering \ {l}
    /\ down' = Sent(down, remote, local, l, answer)
    /\ remote' = Closing(remote, {l})
    /\ UNCHANGED <<local, up, cut, pairVars, named, paired, pinging, phoneVars,
                   nameVars>>

GrantRefused(l) == Failing /\ Refused(l, "rejected")

UsernameTaken(l) ==
    /\ owner[nameOf[l]] = "other"
    /\ Refused(l, "taken")
    /\ UNCHANGED failures

-----------------------------------------------------------------------------
(* client_connect: the socket that waits under the name is noted and the   *)
(* grant is sent to the control plane. (When nobody waits the phone is     *)
(* answered client_error and closed, which leaves the state as it was.)    *)
OnClientConnect(p, u) ==
    /\ remote[p] = "unused"
    /\ waiting[u] # None
    /\ remote' = [remote EXCEPT ![p] = "open"]
    /\ connecting' = [connecting EXCEPT ![p] = waiting[u]]
    /\ UNCHANGED <<local, up, down, cut, failures, pairVars, named, paired,
                   pinging, registering, greeted, nameVars>>

(* the socket waiting NOW under the name the phone asked for *)
NowWaiting(p) == waiting[nameOf[connecting[p]]]

(* connectClient, and the paired flags and ping timers of both ends *)
ConnectClient(p, l) ==
    /\ waiting' = [waiting EXCEPT ![nameOf[l]] = None]
    /\ active' = [active EXCEPT ![l] = "paired"]
    /\ peer' = [peer EXCEPT ![l] = p, ![p] = l]
    /\ named' = named \cup {p}
    /\ paired' = paired \cup {p, l}
    /\ pinging' = IF HasState(l) THEN pinging \ {l} ELSE pinging

Connected(p) ==
    /\ connecting[p] # None
    /\ NowWaiting(p) # None
    /\ ConnectClient(p, NowWaiting(p))
    /\ connecting' = [connecting EXCEPT ![p] = None]
    /\ UNCHANGED <<netVars, registering, greeted, nameVars>>

(* client_error and close: nobody waits any more, the grant is refused, or *)
(* the session of the server noted before the await was revoked, and then  *)
(* that socket is closed as well                                           *)
ConnectRefused(p) ==
    /\ connecting[p] # None
    /\ connecting' = [connecting EXCEPT ![p] = None]
    /\ \/ /\ NowWaiting(p) = None
          /\ remote' = Closing(remote, {p})
          /\ UNCHANGED failures
       \/ /\ Failing
          /\ \E S \in {{p}, {p, connecting[p]}} : remote' = Closing(remote, S)
    /\ UNCHANGED <<local, up, down, cut, pairVars, named, paired, pinging,
                   registering, greeted, nameVars>>

(* disconnectServersBySession, called when an account logs out *)
DisconnectServers ==
    /\ Failing
    /\ remote' = Closing(remote, {l \in Links : active[l] # "none"})
    /\ UNCHANGED <<local, up, down, cut, relayVars>>

(* the phone's first frame, forwarded to the other end of its pair *)
Forward(p) ==
    /\ p \in paired /\ peer[p] # None
    /\ p \notin greeted /\ remote[p] = "open"
    /\ greeted' = greeted \cup {p}
    /\ down' = Sent(down, remote, local, peer[p], "hello")
    /\ UNCHANGED <<local, remote, up, cut, failures, pairVars, named, paired,
                   pinging, registering, connecting, nameVars>>

(* the pong timeout of a waiting link that is silently dead *)
RelayPongTimeout(l) ==
    /\ l \in pinging \cap cut
    /\ remote[l] = "open"
    /\ remote' = Closing(remote, {l})
    /\ UNCHANGED <<local, up, down, cut, failures, relayVars>>

-----------------------------------------------------------------------------
(* handleClose: a waiting socket is forgotten; the other end of a pair is  *)
(* closed and the pair forgotten; a socket that is neither leaves no trace *)
IsWaiting(s) == s \in Links \cap named /\ waiting[nameOf[s]] = s

(* Mutants: only the closed socket's own lookup is deleted; the other end  *)
(* of the pair is not closed                                               *)
HandleCloseHalf(s) ==
    LET gone == IF IsWaiting(s) \/ peer[s] # None THEN {s} ELSE {}
        other == IF IsWaiting(s) THEN {} ELSE {peer[s]} \ {None}
    IN /\ waiting' = [u \in Users |-> IF IsWaiting(s) /\ waiting[u] = s
                                     THEN None ELSE waiting[u]]
       /\ peer' = [t \in Sockets |-> IF t \in gone THEN None ELSE peer[t]]
       /\ active' = [l \in Links |-> IF l \in gone THEN "none" ELSE active[l]]
       /\ remote' = [Closing(remote, other) EXCEPT ![s] = "closed"]

HandleCloseAlone(s) ==
    LET pair == IF ~IsWaiting(s) /\ peer[s] # None THEN {s, peer[s]} ELSE {}
        gone == IF IsWaiting(s) THEN {s} ELSE pair
    IN /\ waiting' = [u \in Users |-> IF IsWaiting(s) /\ waiting[u] = s
                                     THEN None ELSE waiting[u]]
       /\ peer' = [t \in Sockets |-> IF t \in pair THEN None ELSE peer[t]]
       /\ active' = [l \in Links |-> IF l \in gone THEN "none" ELSE active[l]]
       /\ remote' = [remote EXCEPT ![s] = "closed"]

HandleClose(s) ==
    LET pair == IF ~IsWaiting(s) /\ peer[s] # None THEN {s, peer[s]} ELSE {}
        gone == IF IsWaiting(s) THEN {s} ELSE pair
    IN /\ waiting' = [u \in Users |-> IF IsWaiting(s) /\ waiting[u] = s
                                     THEN None ELSE waiting[u]]
       /\ peer' = [t \in Sockets |-> IF t \in pair THEN None ELSE peer[t]]
       /\ active' = [l \in Links |-> IF l \in gone THEN "none" ELSE active[l]]
       /\ remote' = [Closing(remote, pair) EXCEPT ![s] = "closed"]

(* onClose: the ping timers, the bookkeeping and the state go *)
OnClose(s) ==
    /\ remote[s] \in {"open", "closing"}
    /\ HandleClose(s)
    /\ pinging' = pinging \ {s}
    /\ named' = named \ {s}
    /\ paired' = paired \ {s}
    /\ UNCHANGED <<local, down, cut, registering, phoneVars, nameVars>>

LinkClosed(l) ==
    /\ MustClose(l, remote, local, up)
    /\ up' = [up EXCEPT ![l] = <<>>]
    /\ OnClose(l)
    /\ UNCHANGED failures

LinkBroken(l) ==
    /\ Failing
    /\ up' = [up EXCEPT ![l] = <<>>]
    /\ OnClose(l)

PhoneClosed(p) ==
    /\ connecting[p] # None => EarlyLeave
    /\ OnClose(p)
    /\ UNCHANGED <<up, failures>>

(* the relay restarts: sockets and maps are lost, the registry is on disk *)
RelayRestart ==
    /\ Failing
    /\ remote' = [s \in Sockets |->
                    IF remote[s] = "unused" THEN "unused" ELSE "closed"]
    /\ up' = [l \in Links |-> <<>>]
    /\ waiting' = [u \in Users |-> None]
    /\ peer' = [s \in Sockets |-> None]
    /\ active' = [l \in Links |-> "none"]
    /\ named' = {} /\ paired' = {} /\ pinging' = {} /\ registering' = {}
    /\ connecting' = [p \in Phones |-> None]
    /\ UNCHANGED <<local, down, cut, greeted, nameVars>>

=============================================================================
