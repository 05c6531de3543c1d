------------------------ MODULE ConnectionManagerProofs ------------------------
(***************************************************************************)
(* Theorems about ConnectionManager for every bound and every set of       *)
(* attempts.  The invariants are inductive only together: which timers     *)
(* remain after a cancellation depends on the field that remembers them,   *)
(* and what an attempt's outcome does depends on the state it finds.       *)
(***************************************************************************)
EXTENDS ConnectionManager, TLAPS

\* _cancelBackoff can reach every backoff timer: there is at most one, and the
\* field remembers it.
TimerRemembered == live \in {0, 1} /\ (live = 1 <=> backoff)

FlagsOK ==
    /\ started \in BOOLEAN
    /\ backoff \in BOOLEAN
    /\ lost \in BOOLEAN

RetryInv ==
    /\ FlagsOK
    /\ state \in {"connected", "reconnecting", "disconnected"}
    /\ attempts \in 0 .. MaxAttempts
    /\ current \in inFlight \union {None}
    /\ inFlight \subseteq AttemptIds
    /\ TimerRemembered
    /\ ReconnectingIsDriven
    /\ SettledIsQuiet
    /\ GivingUpIsReported

ProbeInv ==
    /\ pings \in 0 .. MaxPings
    /\ pendingPing \in 0 .. pings
    /\ pongTimeout \in 0 .. pings
    /\ pongTimers \subseteq 1 .. pings
    /\ ProbeIsTimed

CountersInv ==
    /\ heartbeat \in BOOLEAN
    /\ fresh \in BOOLEAN
    /\ forced \in 0 .. MaxForced

CInv == RetryInv /\ ProbeInv /\ CountersInv

--------------------------------------------------------------------------------
(***************************************************************************)
(* Timers and attempts.                                                    *)
(***************************************************************************)
LEMMA InitRetry == Init => RetryInv
<1> SUFFICES ASSUME Init PROVE RetryInv
  OBVIOUS
<1>1. attempts \in 0 .. MaxAttempts
  BY BoundsAssumption DEF Init
<1>2. FlagsOK
  BY Zenon DEF Init, FlagsOK
<1>3. TimerRemembered
  BY DEF Init, TimerRemembered
<1>4. ReconnectingIsDriven
  BY DEF Init, ReconnectingIsDriven
<1>5. SettledIsQuiet
  BY DEF Init, SettledIsQuiet
<1>6. GivingUpIsReported
  BY DEF Init, GivingUpIsReported
<1> QED
  BY <1>1, <1>2, <1>3, <1>4, <1>5, <1>6 DEF Init, RetryInv

\* Scheduling from a clean slate: no timer left, no attempt pending.
LEMMA ScheduledAnew ==
    ASSUME RetryInv, NEW a \in 0 .. MaxAttempts,
           ScheduleReconnect("reconnecting", a, FALSE, 0),
           current' = None, started' = started,
           inFlight' \subseteq AttemptIds
    PROVE  RetryInv'
<1>1. FlagsOK'
  BY Zenon DEF RetryInv, FlagsOK, ScheduleReconnect, GiveUp, Becomes
<1>2. attempts' \in 0 .. MaxAttempts
  BY BoundsAssumption DEF ScheduleReconnect, Exhausted, Counted
<1>3. TimerRemembered'
  BY DEF ScheduleReconnect, TimerRemembered
<1>4. ReconnectingIsDriven' /\ SettledIsQuiet' /\ GivingUpIsReported'
  BY DEF ReconnectingIsDriven, SettledIsQuiet, GivingUpIsReported,
         ScheduleReconnect, GiveUp, Becomes
<1> QED
  BY <1>1, <1>2, <1>3, <1>4
     DEF RetryInv, ScheduleReconnect, GiveUp, Becomes

\* forceReconnect finds no timer that it cannot cancel.
LEMMA CancelledAll == RetryInv => LiveUncancelled = 0
BY DEF RetryInv, TimerRemembered, LiveUncancelled

LEMMA ReconnectKeepsRetry ==
    ASSUME RetryInv, Reconnect
    PROVE  RetryInv'
<1>1. 0 \in 0 .. MaxAttempts
  BY BoundsAssumption
<1> QED
  BY <1>1, CancelledAll, ScheduledAnew
     DEF Reconnect, StartReconnecting, RetryInv

LEMMA MarkConnectedKeepsRetry ==
    ASSUME RetryInv, MarkConnected, started' = started,
           inFlight' \subseteq AttemptIds
    PROVE  RetryInv'
<1>1. FlagsOK'
  BY Zenon DEF RetryInv, FlagsOK, MarkConnected, Becomes
<1>2. attempts' \in 0 .. MaxAttempts
  BY BoundsAssumption DEF MarkConnected
<1>3. live' = 0 /\ ~backoff' /\ current' = None /\ state' = "connected"
  BY CancelledAll DEF MarkConnected, Becomes
<1> QED
  BY <1>1, <1>2, <1>3
     DEF RetryInv, TimerRemembered, ReconnectingIsDriven, SettledIsQuiet,
         GivingUpIsReported

LEMMA RetryKept ==
    ASSUME RetryInv, UNCHANGED <<state, retryVars, started, current, lost>>,
           inFlight' \subseteq AttemptIds,
           current \in inFlight' \union {None}
    PROVE  RetryInv'
<1>1. FlagsOK'
  BY Zenon DEF RetryInv, FlagsOK, retryVars
<1> QED
  BY <1>1 DEF retryVars, RetryInv, TimerRemembered, ReconnectingIsDriven,
              SettledIsQuiet, GivingUpIsReported

\* Giving up with no timer left and no attempt pending.
LEMMA GaveUp ==
    ASSUME RetryInv, GiveUp, UNCHANGED retryVars, live = 0, ~backoff,
           current' = None, started' = started, inFlight' \subseteq AttemptIds
    PROVE  RetryInv'
<1>1. FlagsOK'
  BY Zenon DEF RetryInv, FlagsOK, retryVars, GiveUp
<1> QED
  BY <1>1 DEF GiveUp, retryVars, RetryInv, TimerRemembered,
              ReconnectingIsDriven, SettledIsQuiet, GivingUpIsReported

LEMMA StepRetry == RetryInv /\ [Next]_vars => RetryInv'
<1> SUFFICES ASSUME RetryInv, [Next]_vars PROVE RetryInv'
  OBVIOUS
<1>0. current \in inFlight \union {None} /\ inFlight \subseteq AttemptIds
  BY DEF RetryInv
<1>1. CASE UNCHANGED <<state, retryVars, started, current, inFlight, lost>>
  BY <1>0, <1>1, RetryKept
<1>2. CASE Start
  <2>1. FlagsOK'
    BY Zenon, <1>2 DEF Start, Becomes, retryVars, RetryInv, FlagsOK
  <2>2. live = 0 /\ ~backoff /\ current = None
    BY <1>2 DEF Start, RetryInv, SettledIsQuiet
  <2> QED
    BY <1>2, <2>1, <2>2
       DEF Start, Becomes, retryVars, RetryInv, TimerRemembered,
           ReconnectingIsDriven, SettledIsQuiet, GivingUpIsReported
<1>3. CASE Stop
  <2>1. FlagsOK'
    BY Zenon, <1>3 DEF Stop, Becomes, RetryInv, FlagsOK
  <2>2. live' = 0 /\ ~backoff' /\ current' = None /\ ~started'
    BY <1>3, CancelledAll DEF Stop
  <2> QED
    BY <1>3, <2>1, <2>2
       DEF Stop, Becomes, RetryInv, TimerRemembered, ReconnectingIsDriven,
           SettledIsQuiet, GivingUpIsReported
<1>4. CASE Opened
  BY <1>0, <1>4, MarkConnectedKeepsRetry DEF Opened
<1>5. ASSUME NEW retryable \in BOOLEAN, Report(retryable)
      PROVE  RetryInv'
  <2>1. current = None /\ backoff = FALSE /\ live = 0
    BY <1>5 DEF Report, RetryInv, SettledIsQuiet, TimerRemembered
  <2>2. CASE ~retryable /\ GiveUp /\ UNCHANGED retryVars
    BY <1>0, <1>5, <2>1, <2>2, GaveUp DEF Report
  <2>3. CASE StartReconnecting(attempts, backoff, live)
    BY <1>0, <1>5, <2>1, <2>3, ScheduledAnew
       DEF Report, StartReconnecting, RetryInv
  <2> QED
    BY <1>5, <2>2, <2>3 DEF Report
<1>6. CASE ForceReconnect \/ StaleCheck \/ PingFails
  BY <1>6, ReconnectKeepsRetry DEF ForceReconnect, StaleCheck, PingFails
<1>7. CASE BackoffFires
  <2>1. live = 1 /\ current = None /\ state = "reconnecting" /\ started
    BY <1>7 DEF BackoffFires, RetryInv, TimerRemembered, SettledIsQuiet,
                ReconnectingIsDriven
  <2>2. PICK p \in AttemptIds \ inFlight :
            current' = p /\ inFlight' = inFlight \union {p}
    BY <1>7, <2>1 DEF BackoffFires
  <2>3. current' # None
    BY <2>2, NoneAssumption
  <2>4. FlagsOK'
    BY Zenon, <1>7 DEF BackoffFires, RetryInv, FlagsOK
  <2>5. live' = 0 /\ ~backoff'
    BY <1>7, <2>1 DEF BackoffFires
  <2> QED
    BY <1>7, <2>1, <2>2, <2>3, <2>4, <2>5
       DEF BackoffFires, RetryInv, TimerRemembered, ReconnectingIsDriven,
           SettledIsQuiet, GivingUpIsReported
<1>8. ASSUME NEW p \in AttemptIds, AttemptSucceeds(p)
      PROVE  RetryInv'
  <2>1. CASE ~Superseded(p)
    BY <1>0, <1>8, <2>1, MarkConnectedKeepsRetry DEF AttemptSucceeds
  <2>2. CASE Superseded(p)
    BY <1>0, <1>8, <2>2, RetryKept DEF AttemptSucceeds, Superseded
  <2> QED
    BY <2>1, <2>2
<1>9. ASSUME NEW p \in AttemptIds, NEW retryable \in BOOLEAN,
             AttemptFails(p, retryable)
      PROVE  RetryInv'
  <2>1. CASE Superseded(p)
    BY <1>0, <1>9, <2>1, RetryKept DEF AttemptFails, Superseded
  <2>2. CASE ~Superseded(p)
    <3>1. current = p /\ p # None
      BY <2>2, NoneAssumption DEF Superseded
    <3>2. state = "reconnecting" /\ started /\ live = 0 /\ backoff = FALSE
      BY <3>1 DEF RetryInv, SettledIsQuiet, ReconnectingIsDriven, TimerRemembered
    <3>3. CASE retryable
      BY <1>0, <1>9, <2>2, <3>2, <3>3, ScheduledAnew
         DEF AttemptFails, RetryInv
    <3>4. CASE ~retryable
      BY <1>0, <1>9, <2>2, <3>2, <3>4, GaveUp DEF AttemptFails
    <3> QED
      BY <3>3, <3>4
  <2> QED
    BY <2>1, <2>2
<1>10. ASSUME NEW i \in Pings, PongTimesOut(i)
       PROVE  RetryInv'
  <2>1. 0 \in 0 .. MaxAttempts
    BY BoundsAssumption
  <2>2. CASE pendingPing = i
    BY <1>0, <1>10, <2>1, <2>2, CancelledAll, ScheduledAnew DEF PongTimesOut
  <2>3. CASE pendingPing # i
    BY <1>0, <1>10, <2>3, RetryKept DEF PongTimesOut
  <2> QED
    BY <2>2, <2>3
<1> QED
  BY <1>1, <1>2, <1>3, <1>4, <1>5, <1>6, <1>7, <1>8, <1>9, <1>10
     DEF Next, vars, RecordEvent, ReceivePong, Silence, BecameVisible

--------------------------------------------------------------------------------
(***************************************************************************)
(* Pings and their timeouts.                                               *)
(***************************************************************************)
LEMMA InitProbe == Init => ProbeInv
BY BoundsAssumption DEF Init, ProbeInv, ProbeIsTimed

LEMMA ProbeKept ==
    ASSUME ProbeInv, UNCHANGED <<pingVars, started>>
    PROVE  ProbeInv'
BY DEF pingVars, ProbeInv, ProbeIsTimed

\* A cancellation reaches every pong timeout that would fire.
LEMMA ProbeCancelled ==
    ASSUME ProbeInv, CancelPongTimeout, pings' \in pings .. MaxPings,
           pendingPing' \in {0, pendingPing}
    PROVE  ProbeInv'
<1>1. pongTimers' = {} /\ pongTimeout' = 0
  BY DEF CancelPongTimeout, ProbeInv, ProbeIsTimed
<1> QED
  BY <1>1, BoundsAssumption DEF ProbeInv, ProbeIsTimed

LEMMA StepProbe == ProbeInv /\ [Next]_vars => ProbeInv'
<1> SUFFICES ASSUME ProbeInv, [Next]_vars PROVE ProbeInv'
  OBVIOUS
<1>0. pings \in pings .. MaxPings /\ pings + 1 \in pings .. MaxPings + 1
  BY BoundsAssumption DEF ProbeInv
<1>1. CASE UNCHANGED <<pingVars, started>>
  BY <1>1, ProbeKept
<1>2. CASE Start
  BY <1>2 DEF Start, pingVars, ProbeInv, ProbeIsTimed
<1>3. CASE Stop \/ ReceivePong
  BY <1>0, <1>3, ProbeCancelled DEF Stop, ReceivePong
<1>4. ASSUME NEW retryable \in BOOLEAN, Report(retryable)
      PROVE  ProbeInv'
  BY <1>0, <1>1, <1>4, ProbeCancelled DEF Report, StartReconnecting
<1>5. CASE ForceReconnect \/ StaleCheck
  BY <1>0, <1>5, ProbeCancelled
     DEF ForceReconnect, StaleCheck, Reconnect, StartReconnecting
<1>6. CASE PingFails
  <2>1. pings' \in pings .. MaxPings
    BY <1>6, BoundsAssumption DEF PingFails, ProbeInv
  <2> QED
    BY <1>6, <2>1, ProbeCancelled DEF PingFails, Reconnect, StartReconnecting
<1>7. CASE BecameVisible
  <2>1. pings + 1 \in 1 .. MaxPings
    BY <1>7, BoundsAssumption DEF BecameVisible, ProbeInv
  <2>2. pongTimers' = {pings + 1}
    BY <1>7 DEF BecameVisible, ProbeInv, ProbeIsTimed
  <2> QED
    BY <1>7, <2>1, <2>2, BoundsAssumption
       DEF BecameVisible, ProbeInv, ProbeIsTimed
<1>8. ASSUME NEW i \in Pings, PongTimesOut(i)
      PROVE  ProbeInv'
  <2>1. pongTimers' = {} /\ pongTimeout' = 0 /\ pings' = pings
    BY <1>8 DEF PongTimesOut, ProbeInv, ProbeIsTimed
  <2>2. pendingPing' \in {0, pendingPing}
    BY <1>8 DEF PongTimesOut
  <2> QED
    BY <2>1, <2>2, BoundsAssumption DEF ProbeInv, ProbeIsTimed
<1> QED
  BY <1>1, <1>2, <1>3, <1>4, <1>5, <1>6, <1>7, <1>8
     DEF Next, vars, RecordEvent, Opened, Silence, BackoffFires,
         AttemptSucceeds, AttemptFails

--------------------------------------------------------------------------------
(***************************************************************************)
(* The rest, and the theorems.                                             *)
(***************************************************************************)
LEMMA StepCounters == CountersInv /\ [Next]_vars => CountersInv'
<1> SUFFICES ASSUME CountersInv, [Next]_vars PROVE CountersInv'
  OBVIOUS
<1>1. heartbeat' \in BOOLEAN /\ fresh' \in BOOLEAN
  BY Zenon
     DEF CountersInv, Next, vars, eventVars, Start, Stop, RecordEvent, Opened,
         ReceivePong, Report, ForceReconnect, Reconnect, Silence, BackoffFires,
         AttemptSucceeds, AttemptFails, StaleCheck, BecameVisible, PingFails,
         PongTimesOut
<1>2. forced' = forced \/ ForceReconnect
  BY DEF Next, vars, Start, Stop, RecordEvent, Opened, ReceivePong, Report,
         Silence, BackoffFires, AttemptSucceeds, AttemptFails, StaleCheck,
         BecameVisible, PingFails, PongTimesOut
<1>3. forced' \in 0 .. MaxForced
  BY <1>2, BoundsAssumption DEF CountersInv, ForceReconnect
<1> QED
  BY <1>1, <1>3 DEF CountersInv

\* Every call, timer and outcome establishes or keeps CInv.
THEOREM ConnectionInductive == Spec => []CInv
<1>1. Init => CountersInv
  <2>1. Init => heartbeat \in BOOLEAN /\ fresh \in BOOLEAN
    BY Zenon DEF Init
  <2>2. Init => forced \in 0 .. MaxForced
    BY BoundsAssumption DEF Init
  <2> QED
    BY <2>1, <2>2 DEF CountersInv
<1>2. Init => CInv
  BY <1>1, InitRetry, InitProbe DEF CInv
<1>3. CInv /\ [Next]_vars => CInv'
  BY StepRetry, StepProbe, StepCounters DEF CInv
<1> QED
  BY <1>2, <1>3, PTL DEF Spec

\* Every field of the manager keeps its type.
THEOREM ConnectionTyped == Spec => []TypeOK
<1>1. CInv => TypeOK
  BY DEF CInv, RetryInv, FlagsOK, ProbeInv, CountersInv, TimerRemembered, TypeOK
<1> QED
  BY <1>1, ConnectionInductive, PTL

\* While reconnecting there is either a timer or an attempt, never neither and
\* never both: _scheduleReconnect and _executeReconnect hand over to each other.
THEOREM AlwaysDriven == Spec => []ReconnectingIsDriven
<1>1. CInv => ReconnectingIsDriven
  BY DEF CInv, RetryInv
<1> QED
  BY <1>1, ConnectionInductive, PTL

\* Outside reconnecting no timer and no attempt is left by any handler.
THEOREM SettledQuiet == Spec => []SettledIsQuiet
<1>1. CInv => SettledIsQuiet
  BY DEF CInv, RetryInv
<1> QED
  BY <1>1, ConnectionInductive, PTL

\* The only pong timeout that will fire is the one of the pending ping.
THEOREM ProbesTimed == Spec => []ProbeIsTimed
<1>1. CInv => ProbeIsTimed
  BY DEF CInv, ProbeInv
<1> QED
  BY <1>1, ConnectionInductive, PTL

\* A started manager is disconnected only after reconnectFailed was emitted.
THEOREM GivingUpReported == Spec => []GivingUpIsReported
<1>1. CInv => GivingUpIsReported
  BY DEF CInv, RetryInv
<1> QED
  BY <1>1, ConnectionInductive, PTL

\* The continuation of a superseded attempt changes nothing: only the settling
\* of promises removes one, and it compares it with the current attempt first.
THEOREM SupersededIgnored == Spec => OnlyCurrentOutcomeCounts
<1> DEFINE Ignored == \A p \in inFlight \ inFlight' : p # current =>
                          UNCHANGED <<state, attempts, live, current, lost>>
<1>1. ASSUME NEW q \in AttemptIds, AttemptSucceeds(q)
      PROVE  Ignored
  BY <1>1 DEF AttemptSucceeds, Superseded, retryVars
<1>2. ASSUME NEW q \in AttemptIds, NEW retryable \in BOOLEAN,
             AttemptFails(q, retryable)
      PROVE  Ignored
  BY <1>2 DEF AttemptFails, Superseded, retryVars
<1>3. ASSUME inFlight \subseteq inFlight'
      PROVE  Ignored
  BY <1>3
<1>4. [Next]_vars => Ignored
  BY <1>1, <1>2, <1>3
     DEF Next, vars, Start, Stop, RecordEvent, Opened, ReceivePong, Report,
         ForceReconnect, Reconnect, Silence, BackoffFires, StaleCheck,
         BecameVisible, PingFails, PongTimesOut
<1>5. [Next]_vars => [Ignored]_vars
  BY <1>4
<1> QED
  BY <1>5, PTL DEF Spec, OnlyCurrentOutcomeCounts

================================================================================
