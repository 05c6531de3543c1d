--------------------------- MODULE ConnectionManager ---------------------------
(***************************************************************************)
(* The client's connection state machine, class ConnectionManager of       *)
(* packages/client/src/lib/connection/ConnectionManager.ts.                *)
(*                                                                         *)
(* Consumers (activity bus, session streams) report events, errors and     *)
(* closes; the manager decides when to call the reconnect function it was  *)
(* started with.  The code runs on one thread, so an action is one         *)
(* callback: a consumer's call, a timer that fires, or the settling of the *)
(* promise of a reconnect attempt.                                         *)
(*                                                                         *)
(* Timers are kept apart from the field that remembers them: `live' counts *)
(* the backoff timers that will fire, `backoff' says whether               *)
(* _backoffTimerId names one; `pongTimers' holds the pong timeouts that    *)
(* will fire, `pongTimeout' is the one _pongTimeoutId names (0: null).     *)
(* Elapsed time is one bit: `fresh' is false once staleThresholdMs has     *)
(* passed since _lastEventTime.  The page's hidden time is only logged.    *)
(***************************************************************************)
EXTENDS Naturals, FiniteSets

CONSTANTS
    AttemptIds,   \* promises of the reconnect function that may be pending at once
    None,         \* no promise
    MaxAttempts,  \* config.maxAttempts
    MaxForced,    \* bound: how often forceReconnect is called from outside
    MaxPings      \* bound: how many pings are sent

ASSUME NoneAssumption == None \notin AttemptIds
ASSUME BoundsAssumption == MaxAttempts \in Nat /\ MaxForced \in Nat /\ MaxPings \in Nat

VARIABLES
    state,         \* _state
    attempts,      \* _reconnectAttempts
    started,       \* _started (and _reconnectFn, the stale check, the listener)
    live,          \* backoff timers that will fire
    backoff,       \* _backoffTimerId # null
    current,       \* _reconnectPromise
    inFlight,      \* pending promises of the reconnect function
    heartbeat,     \* _hasReceivedHeartbeat
    fresh,         \* an event came within staleThresholdMs
    pings,         \* _pingCounter
    pendingPing,   \* _pendingPingId, 0 for null
    pongTimeout,   \* _pongTimeoutId, 0 for null
    pongTimers,    \* pong timeouts that will fire
    lost,          \* reconnectFailed told the user, and nothing connected since
    forced         \* calls of forceReconnect from outside

retryVars == <<attempts, live, backoff>>
pingVars == <<pings, pendingPing, pongTimeout, pongTimers>>
eventVars == <<heartbeat, fresh>>
vars == <<state, retryVars, started, current, inFlight, eventVars, pingVars,
          lost, forced>>

Pings == 1 .. MaxPings

TypeOK ==
    /\ state \in {"connected", "reconnecting", "disconnected"}
    /\ attempts \in 0 .. MaxAttempts
    /\ started \in BOOLEAN
    /\ live \in Nat
    /\ backoff \in BOOLEAN
    /\ current \in inFlight \union {None}
    /\ inFlight \subseteq AttemptIds
    /\ heartbeat \in BOOLEAN
    /\ fresh \in BOOLEAN
    /\ pings \in 0 .. MaxPings
    /\ pendingPing \in 0 .. pings
    /\ pongTimeout \in 0 .. pings
    /\ pongTimers \subseteq 1 .. pings
    /\ lost \in BOOLEAN
    /\ forced \in 0 .. MaxForced

Init ==
    /\ state = "disconnected"
    /\ attempts = 0
    /\ started = FALSE
    /\ live = 0
    /\ backoff = FALSE
    /\ current = None
    /\ inFlight = {}
    /\ heartbeat = FALSE
    /\ fresh = FALSE
    /\ pings = 0
    /\ pendingPing = 0
    /\ pongTimeout = 0
    /\ pongTimers = {}
    /\ lost = FALSE
    /\ forced = 0

--------------------------------------------------------------------------------
(***************************************************************************)
(* Private methods.                                                        *)
(***************************************************************************)
\* Mistake: the field is cleared and the timer keeps running.
LiveForgotten == live

\* _cancelBackoff: the timers left when the remembered one is cleared.
LiveUncancelled == IF backoff THEN live - 1 ELSE live

\* Mistake: the field is cleared and the timeout keeps running.
ForgetPongTimeout ==
    /\ pongTimeout' = 0
    /\ UNCHANGED pongTimers

\* _cancelPongTimeout.
CancelPongTimeout ==
    /\ pongTimers' = pongTimers \ {pongTimeout}
    /\ pongTimeout' = 0

\* _setState with the listeners that show or hide the connection.
Becomes(s) ==
    /\ state' = s
    /\ lost' = IF s = "connected" THEN FALSE ELSE lost

\* Mistake: the state changes and reconnectFailed is not emitted.
GiveUpSilently ==
    /\ state' = "disconnected"
    /\ UNCHANGED lost

\* _setState("disconnected") and _emitReconnectFailed.
GiveUp ==
    /\ state' = "disconnected"
    /\ lost' = TRUE

\* Mistake: one attempt too many.
ExhaustedLate(a) == a > MaxAttempts

Exhausted(a) == a >= MaxAttempts

\* Mistake: the attempt is not counted.
Uncounted(a) == a

Counted(a) == a + 1

\* _scheduleReconnect, run in state s after a attempts, with the remembered
\* timer b and n timers live.  A remembered timer is overwritten, not cleared.
ScheduleReconnect(s, a, b, n) ==
    \/ /\ ~started
       /\ Becomes(s)
       /\ attempts' = a
       /\ backoff' = b
       /\ live' = n
    \/ /\ started
       /\ Exhausted(a)
       /\ GiveUp
       /\ attempts' = a
       /\ backoff' = b
       /\ live' = n
    \/ /\ started
       /\ ~Exhausted(a)
       /\ Becomes(s)
       /\ attempts' = Counted(a)
       /\ backoff' = TRUE
       /\ live' = n + 1

\* _startReconnecting.
StartReconnecting(a, b, n) ==
    /\ CancelPongTimeout
    /\ pendingPing' = 0
    /\ ScheduleReconnect("reconnecting", a, b, n)

\* forceReconnect: a pending attempt is superseded, not awaited.
Reconnect ==
    /\ current' = None
    /\ StartReconnecting(0, FALSE, LiveUncancelled)
    /\ UNCHANGED <<started, inFlight, heartbeat, fresh>>

--------------------------------------------------------------------------------
(***************************************************************************)
(* Calls of the consumers.                                                 *)
(***************************************************************************)
Start ==
    /\ ~started
    /\ started' = TRUE
    /\ Becomes("connected")
    /\ fresh' = TRUE
    /\ UNCHANGED <<retryVars, current, inFlight, heartbeat, pingVars, forced>>

\* The attempt counter and the pending ping survive.
Stop ==
    /\ started' = FALSE
    /\ live' = LiveUncancelled
    /\ backoff' = FALSE
    /\ CancelPongTimeout
    /\ current' = None
    /\ heartbeat' = FALSE
    /\ Becomes("disconnected")
    /\ UNCHANGED <<attempts, inFlight, fresh, pings, pendingPing, forced>>

\* recordEvent, and recordHeartbeat when hb.
RecordEvent(hb) ==
    /\ fresh' = TRUE
    /\ heartbeat' = (heartbeat \/ hb)
    /\ UNCHANGED <<state, retryVars, started, current, inFlight, pingVars, lost, forced>>

\* Mistake: the backoff timer is left running.
MarkConnectedStillBackingOff ==
    /\ attempts' = 0
    /\ current' = None
    /\ Becomes("connected")
    /\ UNCHANGED <<live, backoff>>

\* markConnected.
MarkConnected ==
    /\ attempts' = 0
    /\ current' = None
    /\ live' = LiveUncancelled
    /\ backoff' = FALSE
    /\ Becomes("connected")

\* A subscription's onOpen.
Opened ==
    /\ MarkConnected
    /\ UNCHANGED <<started, inFlight, eventVars, pingVars, forced>>

\* A pong with another id than the pending one is ignored.
ReceivePong ==
    /\ pendingPing # 0
    /\ CancelPongTimeout
    /\ pendingPing' = 0
    /\ UNCHANGED <<state, retryVars, started, current, inFlight, eventVars, pings,
                   lost, forced>>

\* handleError and handleClose (a close without an error is retryable).
Report(retryable) ==
    /\ state # "reconnecting"
    /\ \/ /\ ~retryable
          /\ GiveUp
          /\ UNCHANGED <<retryVars, pingVars>>
       \/ /\ retryable
          /\ StartReconnecting(attempts, backoff, live)
          /\ UNCHANGED pings
    /\ UNCHANGED <<started, current, inFlight, eventVars, forced>>

ForceReconnect ==
    /\ forced < MaxForced
    /\ forced' = forced + 1
    /\ Reconnect
    /\ UNCHANGED pings

--------------------------------------------------------------------------------
(***************************************************************************)
(* Timers and promises.                                                    *)
(***************************************************************************)
\* No event for staleThresholdMs.
Silence ==
    /\ fresh
    /\ fresh' = FALSE
    /\ UNCHANGED <<state, retryVars, started, current, inFlight, heartbeat, pingVars,
                   lost, forced>>

\* The backoff timer: _executeReconnect does nothing while an attempt is pending.
BackoffFires ==
    /\ live > 0
    /\ live' = live - 1
    /\ backoff' = FALSE
    /\ \/ /\ started
          /\ current = None
          /\ \E p \in AttemptIds \ inFlight :
                /\ current' = p
                /\ inFlight' = inFlight \union {p}
       \/ /\ ~started \/ current # None
          /\ UNCHANGED <<current, inFlight>>
    /\ UNCHANGED <<state, attempts, started, eventVars, pingVars, lost, forced>>

\* Mistake: an attempt's outcome counts whatever happened since.
NeverSuperseded(p) == FALSE

\* The attempt is not the current one any more.
Superseded(p) == current # p

\* The promise p is fulfilled: .then calls markConnected.
AttemptSucceeds(p) ==
    /\ p \in inFlight
    /\ inFlight' = inFlight \ {p}
    /\ \/ /\ ~Superseded(p)
          /\ MarkConnected
       \/ /\ Superseded(p)
          /\ UNCHANGED <<state, retryVars, current, lost>>
    /\ UNCHANGED <<started, eventVars, pingVars, forced>>

\* The promise p is rejected: .catch schedules the next attempt or gives up.
AttemptFails(p, retryable) ==
    /\ p \in inFlight
    /\ inFlight' = inFlight \ {p}
    /\ \/ /\ ~Superseded(p)
          /\ ~retryable
          /\ current' = None
          /\ GiveUp
          /\ UNCHANGED retryVars
       \/ /\ ~Superseded(p)
          /\ retryable
          /\ current' = None
          /\ ScheduleReconnect(state, attempts, backoff, live)
       \/ /\ Superseded(p)
          /\ UNCHANGED <<state, retryVars, current, lost>>
    /\ UNCHANGED <<started, eventVars, pingVars, forced>>

\* _checkStale, run every staleCheckIntervalMs while started.
StaleCheck ==
    /\ started
    /\ state = "connected"
    /\ heartbeat
    /\ ~fresh
    /\ Reconnect
    /\ UNCHANGED <<pings, forced>>

\* _handleBecameVisible: the ping goes out, and its pong is awaited.
BecameVisible ==
    /\ started
    /\ state = "connected"
    /\ pings < MaxPings
    /\ pings' = pings + 1
    /\ pendingPing' = pings + 1
    /\ pongTimeout' = pings + 1
    /\ pongTimers' = (pongTimers \ {pongTimeout}) \union {pings + 1}
    /\ UNCHANGED <<state, retryVars, started, current, inFlight, eventVars, lost, forced>>

\* _handleBecameVisible when the transport is down and sendPing throws.
PingFails ==
    /\ started
    /\ state = "connected"
    /\ pings < MaxPings
    /\ pings' = pings + 1
    /\ Reconnect
    /\ UNCHANGED forced

\* The pong timeout of ping i.
PongTimesOut(i) ==
    /\ i \in pongTimers
    /\ \/ /\ pendingPing = i
          /\ pongTimers' = pongTimers \ {i}
          /\ pongTimeout' = 0
          /\ pendingPing' = 0
          /\ current' = None
          /\ ScheduleReconnect("reconnecting", 0, FALSE, LiveUncancelled)
       \/ /\ pendingPing # i
          /\ pongTimers' = pongTimers \ {i}
          /\ pongTimeout' = 0
          /\ UNCHANGED <<state, retryVars, current, pendingPing, lost>>
    /\ UNCHANGED <<started, inFlight, eventVars, pings, forced>>

Next ==
    \/ Start
    \/ Stop
    \/ \E hb \in BOOLEAN : RecordEvent(hb)
    \/ Opened
    \/ ReceivePong
    \/ \E retryable \in BOOLEAN : Report(retryable)
    \/ ForceReconnect
    \/ Silence
    \/ BackoffFires
    \/ \E p \in AttemptIds : AttemptSucceeds(p)
    \/ \E p \in AttemptIds, retryable \in BOOLEAN : AttemptFails(p, retryable)
    \/ StaleCheck
    \/ BecameVisible
    \/ PingFails
    \/ \E i \in Pings : PongTimesOut(i)

Spec == Init /\ [][Next]_vars

Settles(p) == AttemptSucceeds(p) \/ \E retryable \in BOOLEAN : AttemptFails(p, retryable)

\* Timers fire. That the transport settles the attempt that the manager waits for is not
\* assumed: WebSocketConnection has a timeout for it, SecureConnection may leave a promise
\* unsettled. The outcomes of superseded attempts change nothing; that they come only
\* gives their names back.
Fairness ==
    /\ WF_vars(BackoffFires)
    /\ \A p \in AttemptIds : WF_vars(Superseded(p) /\ Settles(p))

FairSpec == Spec /\ Fairness

--------------------------------------------------------------------------------
(***************************************************************************)
(* Properties.                                                             *)
(***************************************************************************)
\* A machine that says it is reconnecting has exactly one thing under way: the
\* next attempt's timer or the pending attempt, never neither and never both.
ReconnectingIsDriven ==
    state = "reconnecting" /\ started =>
        /\ live \in {0, 1}
        /\ live = 1 <=> current = None

\* Outside "reconnecting", and when stopped, no reconnect is on its way: no backoff timer,
\* forgotten or remembered, and no attempt whose outcome counts.
SettledIsQuiet ==
    state # "reconnecting" \/ ~started =>
        live = 0 /\ ~backoff /\ current = None

\* Every pong timeout that will fire is the one the manager remembers, and it
\* guards the ping that is pending: an old ping's timeout cannot tear down a
\* connection that a later ping has verified.
ProbeIsTimed ==
    /\ pongTimers = {pongTimeout} \ {0}
    /\ pongTimeout # 0 => started /\ pendingPing = pongTimeout

\* While started, the machine is disconnected only after the user was told so.
GivingUpIsReported == started /\ state = "disconnected" => lost

\* The outcome of an attempt that forceReconnect, stop or an opened subscription
\* superseded never changes the state, the schedule or the current attempt.
OnlyCurrentOutcomeCounts ==
    [][\A p \in inFlight \ inFlight' : p # current =>
            UNCHANGED <<state, attempts, live, current, lost>>]_vars

\* Reconnecting ends: connected again, given up, or stopped. The only thing that can keep
\* the manager reconnecting for ever is one attempt that the transport never settles: its
\* own timers, closes, pings and superseded attempts cannot.
ReconnectingEnds ==
    \/ []<>~(started /\ state = "reconnecting")
    \/ \E p \in AttemptIds : <>[](current = p)

================================================================================
