----------------------------- MODULE ClientStreams -----------------------------
(***************************************************************************)
(* The client's two streams over one socket, in local mode: the activity   *)
(* bus (lib/activityBus.ts) and the session stream of a page               *)
(* (hooks/useSessionStream.ts) subscribe through RelayProtocol on the      *)
(* socket of WebSocketConnection; ConnectionManager decides when the       *)
(* socket is replaced and tells both streams, which subscribe again.       *)
(*                                                                         *)
(* One thread runs everything, so an action is one event with all the      *)
(* callbacks it runs, the manager's part being an action of                *)
(* ConnectionManager; what waits for a promise that has settled runs       *)
(* before the next event. A subscription whose socket is still connecting  *)
(* waits for it, also after the protocol has forgotten it. What the server *)
(* keeps of a forgotten subscription is left out, and so are the pings and *)
(* the stale check (ConnectionManager has them).                           *)
(***************************************************************************)
EXTENDS ConnectionManager

CONSTANTS
    Sockets,      \* WebSockets that may exist at once
    BusSubs,      \* subscription ids of the activity bus
    StreamSubs,   \* subscription ids of the session stream
    MaxCloses,    \* bound: how many sockets fail
    MaxUser       \* bound: pages opened or left, the bus stopped

ASSUME StreamsAssumption ==
    /\ None \notin Sockets \union BusSubs \union StreamSubs
    /\ BusSubs \intersect StreamSubs = {}
    /\ MaxCloses \in Nat /\ MaxUser \in Nat

VARIABLES
    socket,        \* per socket: free, connecting, open, closing, or failed (closed
                   \* before it opened; its promise awaits the connect timeout)
    ws,            \* this.ws
    connecting,    \* connectionPromise: the socket that will settle it, or None
    promise,       \* what has become of each attempt's promise
    attemptOn,     \* the socket a waiting attempt waits for
    registered,    \* protocol.subscriptions
    phase,         \* what has become of each subscription
    on,            \* the socket it waits for or was sent on
    busSub,        \* the activity bus's wsSubscription
    streamSub,     \* the session stream's wsSubscriptionRef
    mounted,       \* the session stream's mountedSessionIdRef names the session
    viewing,       \* a session page is shown
    refused,       \* the server has no process for the session
    closes, user

Subs == BusSubs \union StreamSubs

socketVars == <<socket, ws, connecting>>
attemptVars == <<promise, attemptOn>>
subVars == <<registered, phase, on, busSub, streamSub, mounted, refused>>
boundVars == <<closes, user>>
allVars == <<vars, socketVars, attemptVars, subVars, viewing, boundVars>>

StreamsTypeOK ==
    /\ TypeOK
    /\ socket \in [Sockets -> {"free", "connecting", "open", "closing", "failed"}]
    /\ {ws, connecting} \subseteq Sockets \union {None}
    /\ promise \in [AttemptIds -> {"none", "waiting", "resolved", "rejected"}]
    /\ attemptOn \in [AttemptIds -> Sockets \union {None}]
    /\ registered \subseteq Subs
    /\ phase \in [Subs -> {"free", "waiting", "resolved", "rejected", "sent", "live"}]
    /\ on \in [Subs -> Sockets \union {None}]
    /\ busSub \in BusSubs \union {None}
    /\ streamSub \in StreamSubs \union {None}
    /\ {mounted, viewing, refused} \subseteq BOOLEAN
    /\ closes \in 0..MaxCloses /\ user \in 0..MaxUser

StreamsInit ==
    /\ Init
    /\ socket = [s \in Sockets |-> "free"]
    /\ ws = None /\ connecting = None
    /\ promise = [p \in AttemptIds |-> "none"]
    /\ attemptOn = [p \in AttemptIds |-> None]
    /\ registered = {}
    /\ phase = [i \in Subs |-> "free"]
    /\ on = [i \in Subs |-> None]
    /\ busSub = None /\ streamSub = None
    /\ mounted = FALSE /\ viewing = FALSE /\ refused = FALSE
    /\ closes = 0 /\ user = 0

\* Nothing that awaits a settled promise is left to run.
Quiet ==
    /\ \A p \in AttemptIds : promise[p] \notin {"resolved", "rejected"}
    /\ \A i \in Subs : phase[i] \notin {"resolved", "rejected"}

FreeSockets ==
    {s \in Sockets : /\ socket[s] = "free"
                     /\ \A i \in Subs : phase[i] \in {"sent", "live"} => on[i] # s}

--------------------------------------------------------------------------------
(***************************************************************************)
(* Subscribing.                                                            *)
(***************************************************************************)
\* subscribe...: new ids are registered, and sent when the socket is open; until
\* then they wait for the connection promise, which ensureConnected makes if there
\* is none.
Subscribe(new, ph) ==
    /\ registered' = registered \union new
    /\ \/ /\ new = {} \/ ws # None \/ connecting # None
          /\ UNCHANGED <<socket, connecting>>
       \/ /\ new # {} /\ ws = None /\ connecting = None
          /\ FreeSockets # {}
          /\ connecting' = CHOOSE s \in FreeSockets : TRUE
          /\ socket' = [socket EXCEPT ![connecting'] = "connecting"]
    /\ phase' = [i \in Subs |-> CASE i \in new /\ ws # None -> "sent"
                                  [] i \in new /\ ws = None -> "waiting"
                                  [] OTHER -> ph[i]]
    /\ on' = [i \in Subs |-> CASE i \in new /\ ws # None -> ws
                               [] i \in new /\ ws = None -> connecting'
                               [] OTHER -> on[i]]
    /\ UNCHANGED ws

\* ActivityBus.connect by the manager's listener, when the bus has no subscription.
NewBus ==
    {i \in BusSubs : busSub = None /\ i = CHOOSE j \in BusSubs : phase[j] = "free"}

\* The session stream's connect: not while it has a subscription, and not again
\* for a session it has marked as mounted.
NewStream ==
    IF streamSub = None /\ ~mounted THEN {CHOOSE i \in StreamSubs : phase[i] = "free"} ELSE {}

Only(ids) == IF ids = {} THEN None ELSE CHOOSE i \in ids : TRUE

\* The streams take up the subscriptions `new'.
TakeUp(new) ==
    /\ busSub' = IF new \intersect BusSubs = {} THEN busSub ELSE Only(new \intersect BusSubs)
    /\ streamSub' = IF new \intersect StreamSubs = {} THEN streamSub
                                                     ELSE Only(new \intersect StreamSubs)
    /\ mounted' = (mounted \/ new \intersect StreamSubs # {})
    /\ refused' = (refused /\ new \intersect StreamSubs = {})

\* Mistake: only the bus subscribes again.
ComeUpBus(ph) ==
    LET new == IF state' # state /\ state' = "connected" THEN NewBus ELSE {}
    IN Subscribe(new, ph) /\ TakeUp(new)

\* The listeners of a stateChange to "connected" subscribe again.
ComeUp(ph) ==
    LET new == IF state' # state /\ state' = "connected"
                 THEN NewBus \union (IF viewing THEN NewStream ELSE {})
                 ELSE {}
    IN Subscribe(new, ph) /\ TakeUp(new)

\* Mistake: the stream drops its subscription without closing it.
GoDownUnclosed(kept, b, s, m, ph) ==
    /\ busSub' = b
    /\ streamSub' = IF state' # state THEN None ELSE s
    /\ mounted' = (m /\ state' = state)
    /\ registered' = kept
    /\ phase' = [i \in Subs |-> IF i \notin registered' /\ ph[i] \in {"sent", "live"}
                                  THEN "free" ELSE ph[i]]
    /\ on' = [i \in Subs |-> IF phase'[i] = "free" THEN None ELSE on[i]]
    /\ UNCHANGED refused

\* After the registered subscriptions are `kept', the bus has b and the stream s
\* and its mark m: the stream's listener of any other stateChange closes its
\* subscription and forgets the mark.
GoDown(kept, b, s, m, ph) ==
    /\ busSub' = b
    /\ streamSub' = IF state' # state THEN None ELSE s
    /\ mounted' = (m /\ state' = state)
    /\ registered' = IF state' # state THEN kept \ {s} ELSE kept
    /\ phase' = [i \in Subs |-> IF i \notin registered' /\ ph[i] \in {"sent", "live"}
                                  THEN "free" ELSE ph[i]]
    /\ on' = [i \in Subs |-> IF phase'[i] = "free" THEN None ELSE on[i]]
    /\ UNCHANGED refused

\* handleError of the manager, which ignores it while it is reconnecting.
ManagerHears(retryable) ==
    \/ state # "reconnecting" /\ Report(retryable)
    \/ state = "reconnecting" /\ UNCHANGED vars

\* notifySubscriptionsClosed: every registered subscription ends. The bus does not
\* ask which of its subscriptions it was; the stream does.
AllClosed ==
    GoDown({},
           IF registered \intersect BusSubs # {} THEN None ELSE busSub,
           IF streamSub \in registered THEN None ELSE streamSub,
           mounted /\ streamSub \notin registered,
           phase)

--------------------------------------------------------------------------------
(***************************************************************************)
(* The user.                                                               *)
(***************************************************************************)
\* ActivityBus.connect by a hook; the first call starts the manager.
BusConnect ==
    /\ Quiet
    /\ busSub = None
    /\ \/ started = FALSE /\ Start /\ UNCHANGED user
       \/ started = TRUE /\ UNCHANGED vars /\ user < MaxUser /\ user' = user + 1
    /\ LET new == NewBus \union (IF viewing /\ state' # state THEN NewStream ELSE {})
       IN Subscribe(new, phase) /\ TakeUp(new)
    /\ UNCHANGED <<attemptVars, viewing, closes>>

\* ActivityBus.disconnect: unsubscribes and stops the manager.
BusDisconnect ==
    /\ Quiet
    /\ started = TRUE
    /\ user < MaxUser
    /\ user' = user + 1
    /\ Stop
    /\ GoDown(registered \ {busSub}, None, streamSub, mounted, phase)
    /\ UNCHANGED <<socketVars, attemptVars, viewing, closes>>

\* A session page is opened.
View ==
    /\ Quiet
    /\ viewing = FALSE
    /\ user < MaxUser
    /\ user' = user + 1
    /\ viewing' = TRUE
    /\ Subscribe(NewStream, phase) /\ TakeUp(NewStream)
    /\ UNCHANGED <<vars, attemptVars, closes>>

\* It is left: the cleanup closes the subscription.
Leave ==
    /\ Quiet
    /\ viewing = TRUE
    /\ user < MaxUser
    /\ user' = user + 1
    /\ viewing' = FALSE
    /\ UNCHANGED <<vars, socketVars, attemptVars, closes>>
    /\ GoDown(registered \ {streamSub}, busSub, None, FALSE, phase)

\* The user asks for a new connection.
AskReconnect ==
    /\ Quiet
    /\ started = TRUE
    /\ ForceReconnect
    /\ GoDown(registered, busSub, streamSub, mounted, phase)
    /\ UNCHANGED <<socketVars, attemptVars, viewing, boundVars>>

--------------------------------------------------------------------------------
(***************************************************************************)
(* The socket.                                                             *)
(***************************************************************************)
\* The backoff timer starts an attempt, WebSocketConnection.reconnect: the
\* subscriptions end, the current socket is let go without its handlers, and a
\* new one connects whatever else is connecting. The backoff takes a second, and the
\* close of a socket that was given up while connecting arrives before.
Attempt ==
    /\ Quiet
    /\ BackoffFires
    /\ FreeSockets # {} /\ \A t \in Sockets : socket[t] # "closing"
    /\ LET s == CHOOSE t \in FreeSockets : TRUE
           p == current'
       IN /\ p # None
          /\ socket' = [t \in Sockets |->
                           CASE t = s -> "connecting" [] t = ws -> "free" [] OTHER -> socket[t]]
          /\ ws' = None
          /\ connecting' = s
          /\ promise' = [promise EXCEPT ![p] = "waiting"]
          /\ attemptOn' = [attemptOn EXCEPT ![p] = s]
    /\ AllClosed
    /\ UNCHANGED <<viewing, boundVars>>

\* The promise of socket s settles: what awaits it is due. The one who made it
\* clears connectionPromise, even when that is a newer one.
Settle(s, how) ==
    /\ connecting' = None
    /\ promise' = [p \in AttemptIds |-> IF attemptOn[p] = s THEN how ELSE promise[p]]
    /\ attemptOn' = [p \in AttemptIds |-> IF attemptOn[p] = s THEN None ELSE attemptOn[p]]
    /\ phase' = [i \in Subs |-> IF phase[i] = "waiting" /\ on[i] = s THEN how ELSE phase[i]]
    /\ on' = [i \in Subs |-> IF phase[i] = "waiting" /\ on[i] = s THEN None ELSE on[i]]
    /\ UNCHANGED <<vars, registered, busSub, streamSub, mounted, refused, viewing, boundVars>>

\* onopen.
OpenSocket(s) ==
    /\ Quiet
    /\ socket[s] = "connecting"
    /\ socket' = [socket EXCEPT ![s] = "open"]
    /\ ws' = s
    /\ Settle(s, "resolved")

\* The connect timeout: the socket is not open, and may have failed long ago.
ConnectTimeout(s) ==
    /\ Quiet
    /\ socket[s] \in {"connecting", "failed"}
    /\ socket' = [socket EXCEPT ![s] = IF @ = "failed" THEN "free" ELSE "closing"]
    /\ UNCHANGED ws
    /\ Settle(s, "rejected")

\* Mistake: a close empties protocol.subscriptions and tells nobody.
CloseUnheard(s, retryable) ==
    /\ Quiet
    /\ socket[s] \in {"connecting", "open", "closing"}
    /\ \/ socket[s] = "closing" /\ retryable /\ UNCHANGED closes
       \/ socket[s] # "closing" /\ closes < MaxCloses /\ closes' = closes + 1
    /\ retryable \/ socket[s] = "open"
    /\ socket' = [socket EXCEPT ![s] = IF @ = "connecting" THEN "failed" ELSE "free"]
    /\ ws' = None
    /\ registered' = {}
    /\ UNCHANGED <<vars, connecting, attemptVars, phase, on, busSub, streamSub, mounted,
                   refused, viewing, user>>

\* onclose of a socket that still has its handlers, whichever socket it is. Only
\* the bus reports an error that forbids a retry.
Close(s, retryable) ==
    /\ Quiet
    /\ socket[s] \in {"connecting", "open", "closing"}
    /\ \/ socket[s] = "closing" /\ retryable /\ UNCHANGED closes
       \/ socket[s] # "closing" /\ closes < MaxCloses /\ closes' = closes + 1
    /\ retryable \/ socket[s] = "open"
    /\ socket' = [socket EXCEPT ![s] = IF @ = "connecting" THEN "failed" ELSE "free"]
    /\ ws' = None
    /\ \/ /\ registered \intersect BusSubs # {} \/ (retryable /\ streamSub \in registered)
          /\ ManagerHears(retryable)
       \/ /\ registered \intersect BusSubs = {} /\ ~(retryable /\ streamSub \in registered)
          /\ UNCHANGED vars
    /\ AllClosed
    /\ UNCHANGED <<connecting, attemptVars, viewing, user>>

--------------------------------------------------------------------------------
(***************************************************************************)
(* What awaited a promise.                                                 *)
(***************************************************************************)
AttemptResolved(p) ==
    /\ promise[p] = "resolved"
    /\ promise' = [promise EXCEPT ![p] = "none"]
    /\ AttemptSucceeds(p)
    /\ ComeUp(phase)
    /\ UNCHANGED <<attemptOn, viewing, boundVars>>

AttemptRejected(p) ==
    /\ promise[p] = "rejected"
    /\ promise' = [promise EXCEPT ![p] = "none"]
    /\ AttemptFails(p, TRUE)
    /\ GoDown(registered, busSub, streamSub, mounted, phase)
    /\ UNCHANGED <<attemptOn, socketVars, viewing, boundVars>>

\* The subscribe message is sent.
SubscribeSent(i) ==
    /\ phase[i] = "resolved"
    /\ phase' = [phase EXCEPT ![i] = IF i \in registered THEN "sent" ELSE "free"]
    /\ on' = [on EXCEPT ![i] = IF i \in registered THEN ws ELSE None]
    /\ UNCHANGED <<vars, socketVars, attemptVars, registered, busSub, streamSub, mounted,
                   refused, viewing, boundVars>>

\* onError of a subscription that could not connect, also of one that ended long
\* ago: the stream then ignores it, the bus does not.
SubscribeFails(i) ==
    /\ phase[i] = "rejected"
    /\ \/ /\ i \in BusSubs \/ i = streamSub
          /\ ManagerHears(TRUE)
       \/ /\ i \notin BusSubs /\ i # streamSub
          /\ UNCHANGED vars
    /\ GoDown(registered \ {i},
              IF i \in BusSubs THEN None ELSE busSub,
              IF i = streamSub THEN None ELSE streamSub,
              mounted /\ i # streamSub,
              [phase EXCEPT ![i] = "free"])
    /\ UNCHANGED <<socketVars, attemptVars, viewing, boundVars>>

--------------------------------------------------------------------------------
(***************************************************************************)
(* The server's answers.                                                   *)
(***************************************************************************)
\* Its "connected" event: onOpen marks the manager connected.
Confirm(i) ==
    /\ Quiet
    /\ phase[i] = "sent" /\ i \in registered
    /\ socket[on[i]] = "open"
    /\ Opened
    /\ ComeUp([phase EXCEPT ![i] = "live"])
    /\ UNCHANGED <<attemptVars, viewing, boundVars>>

\* A 404 response: the session has no process. The stream waits for the page.
Refuse(i) ==
    /\ Quiet
    /\ phase[i] = "sent" /\ i = streamSub
    /\ socket[on[i]] = "open"
    /\ user < MaxUser
    /\ user' = user + 1
    /\ registered' = registered \ {i}
    /\ phase' = [phase EXCEPT ![i] = "free"]
    /\ on' = [on EXCEPT ![i] = None]
    /\ streamSub' = None /\ mounted' = FALSE /\ refused' = TRUE
    /\ UNCHANGED <<vars, socketVars, attemptVars, busSub, viewing, closes>>

SystemStep ==
    \/ \E p \in AttemptIds : AttemptResolved(p)
    \/ \E p \in AttemptIds : AttemptRejected(p)
    \/ \E i \in Subs : SubscribeSent(i)
    \/ \E i \in Subs : SubscribeFails(i)
    \/ \E i \in Subs : Confirm(i)
    \/ Attempt
    \/ \E s \in Sockets : OpenSocket(s)
    \/ \E s \in Sockets : ConnectTimeout(s)
    \/ \E s \in Sockets : socket[s] = "closing" /\ Close(s, TRUE)

StreamsNext ==
    \/ SystemStep
    \/ \E s \in Sockets, retryable \in BOOLEAN : Close(s, retryable)
    \/ BusConnect
    \/ BusDisconnect
    \/ View
    \/ Leave
    \/ AskReconnect
    \/ \E i \in Subs : Refuse(i)

StreamsSpec == StreamsInit /\ [][StreamsNext]_allVars

\* Timers fire, sockets open or time out, the server answers.
FairStreams == StreamsSpec /\ WF_allVars(SystemStep)

--------------------------------------------------------------------------------
(***************************************************************************)
(* Properties.                                                             *)
(***************************************************************************)
\* What a stream holds as its subscription the protocol still has registered:
\* otherwise nobody would ever tell the stream that it ended, and it would neither
\* receive events nor subscribe again.
HeldIsRegistered ==
    /\ busSub # None => busSub \in registered
    /\ streamSub # None => streamSub \in registered

\* The session stream has one subscription at a time: every message reaches the
\* page once.
OneStream == registered \intersect StreamSubs = {streamSub} \ {None}

\* Once the bus was started, both streams come back to life, or the manager gave up
\* and said so.
StreamsComeBack ==
    []<>(\/ ~started \/ state = "disconnected"
         \/ /\ busSub # None /\ phase[busSub] = "live" /\ socket[on[busSub]] = "open"
            /\ \/ ~viewing \/ refused
               \/ streamSub # None /\ phase[streamSub] = "live" /\ socket[on[streamSub]] = "open")

================================================================================
