-------------------------- MODULE ClientStreamsProofs --------------------------
(***************************************************************************)
(* Theorems about ClientStreams for every number of sockets, subscription  *)
(* ids, failures and visits.  Every event either takes up subscriptions    *)
(* (TakenUp) or ends some (GoneDown, AllGone), and each keeps what the     *)
(* streams hold registered.  Seen from ConnectionManager an event is one   *)
(* of its own steps, or none: its theorems hold of the composition.        *)
(***************************************************************************)
EXTENDS ClientStreams, ConnectionManagerProofs

\* The streams hold only ids of their own kind, which the protocol has registered,
\* and the session stream's is the only one of its kind.
HeldOK ==
    /\ busSub \in BusSubs \union {None}
    /\ streamSub \in StreamSubs \union {None}
    /\ HeldIsRegistered
    /\ OneStream

--------------------------------------------------------------------------------
(***************************************************************************)
(* Subscribing and ending.                                                 *)
(***************************************************************************)
\* Only picks a member.
LEMMA OnlyIsMember ==
    ASSUME NEW ids, ids # {}
    PROVE  Only(ids) \in ids
  BY DEF Only

\* Subscriptions taken up: new stream ids only for a stream that holds none, and
\* never two.
LEMMA TakenUp ==
    ASSUME HeldOK, NEW new, NEW ph,
           Subscribe(new, ph), TakeUp(new),
           new \intersect StreamSubs # {} => streamSub = None,
           \A i, j \in new \intersect StreamSubs : i = j
    PROVE  HeldOK'
<1> DEFINE b == new \intersect BusSubs
           s == new \intersect StreamSubs
<1>1. registered' = registered \union new
  BY DEF Subscribe
<1>2. /\ b = {} => busSub' = busSub
      /\ b # {} => busSub' \in b
  BY OnlyIsMember DEF TakeUp
<1>3. /\ s = {} => streamSub' = streamSub
      /\ s # {} => streamSub' \in s
  BY OnlyIsMember DEF TakeUp
<1>4. busSub' \in BusSubs \union {None} /\ streamSub' \in StreamSubs \union {None}
  BY <1>2, <1>3 DEF HeldOK
<1>5. HeldIsRegistered'
  BY <1>1, <1>2, <1>3 DEF HeldOK, HeldIsRegistered
<1>6. OneStream'
  <2>1. CASE s = {}
    BY <2>1, <1>1, <1>3 DEF HeldOK, OneStream
  <2>2. CASE s # {}
    <3>1. s = {streamSub'}
      BY <2>2, <1>3
    <3>2. registered \intersect StreamSubs = {}
      BY <2>2 DEF HeldOK, OneStream
    <3>3. streamSub' # None
      BY <2>2, <1>3, StreamsAssumption
    <3> QED
      BY <3>1, <3>2, <3>3, <1>1 DEF OneStream
  <2> QED
    BY <2>1, <2>2
<1> QED
  BY <1>4, <1>5, <1>6 DEF HeldOK

\* What the two streams subscribe of their own accord satisfies TakenUp.
LEMMA NewIds ==
    ASSUME HeldOK, NEW new,
           new \in {NewBus, NewStream, {}, NewBus \union NewStream, NewBus \union {}}
    PROVE  /\ new \intersect StreamSubs # {} => streamSub = None
           /\ \A i, j \in new \intersect StreamSubs : i = j
<1>1. NewBus \intersect StreamSubs = {}
  BY StreamsAssumption DEF NewBus
<1>2. \A i, j \in NewStream : i = j
  BY DEF NewStream
<1>3. NewStream # {} => streamSub = None
  BY DEF NewStream
<1> QED
  BY <1>1, <1>2, <1>3

\* Subscriptions ended: the streams go on holding only what is kept.
LEMMA GoneDown ==
    ASSUME NEW kept, NEW b \in BusSubs \union {None}, NEW s \in StreamSubs \union {None},
           NEW m, NEW ph,
           GoDown(kept, b, s, m, ph),
           b # None => b \in kept,
           s # None => s \in kept,
           kept \intersect StreamSubs = {s} \ {None}
    PROVE  HeldOK'
<1>1. busSub' = b /\ streamSub' = IF state' # state THEN None ELSE s
  BY DEF GoDown
<1>2. registered' = IF state' # state THEN kept \ {s} ELSE kept
  BY DEF GoDown
<1>3. b # None => b # s
  BY StreamsAssumption
<1> QED
  BY <1>1, <1>2, <1>3, StreamsAssumption DEF HeldOK, HeldIsRegistered, OneStream

LEMMA AllGone ==
    ASSUME HeldOK, AllClosed
    PROVE  HeldOK'
<1> DEFINE b == IF registered \intersect BusSubs # {} THEN None ELSE busSub
           s == IF streamSub \in registered THEN None ELSE streamSub
<1>1. b = None /\ s = None
  BY DEF HeldOK, HeldIsRegistered
<1>2. GoDown({}, b, s, mounted /\ streamSub \notin registered, phase)
  BY Zenon DEF AllClosed
<1> QED
  BY <1>1, <1>2, GoneDown

--------------------------------------------------------------------------------
(***************************************************************************)
(* What the streams hold.                                                  *)
(***************************************************************************)
LEMMA InitHeld == StreamsInit => HeldOK
  BY DEF StreamsInit, HeldOK, HeldIsRegistered, OneStream

LEMMA StreamsUnchanged ==
    ASSUME HeldOK, UNCHANGED <<registered, busSub, streamSub>>
    PROVE  HeldOK'
  BY DEF HeldOK, HeldIsRegistered, OneStream

LEMMA StepHeld ==
    ASSUME HeldOK, [StreamsNext]_allVars
    PROVE  HeldOK'
<1>1. ASSUME NEW p \in AttemptIds, AttemptResolved(p) PROVE HeldOK'
  <2>1. ComeUp(phase)
    BY <1>1 DEF AttemptResolved
  <2> QED
    BY <2>1, NewIds, TakenUp DEF ComeUp
<1>2. ASSUME NEW p \in AttemptIds, AttemptRejected(p) PROVE HeldOK'
  BY <1>2, GoneDown DEF AttemptRejected, HeldOK, HeldIsRegistered, OneStream
<1>3. ASSUME NEW i \in Subs, SubscribeSent(i) PROVE HeldOK'
  BY <1>3, StreamsUnchanged DEF SubscribeSent
<1>4. ASSUME NEW i \in Subs, SubscribeFails(i) PROVE HeldOK'
  <2> DEFINE b == IF i \in BusSubs THEN None ELSE busSub
             s == IF i = streamSub THEN None ELSE streamSub
  <2>1. GoDown(registered \ {i}, b, s, mounted /\ i # streamSub, [phase EXCEPT ![i] = "free"])
    BY <1>4 DEF SubscribeFails
  <2>2. b \in BusSubs \union {None} /\ s \in StreamSubs \union {None}
    BY DEF HeldOK
  <2>3. b # None => b \in registered \ {i}
    BY DEF HeldOK, HeldIsRegistered
  <2>4. s # None => s \in registered \ {i}
    BY DEF HeldOK, HeldIsRegistered
  <2>5. (registered \ {i}) \intersect StreamSubs = {s} \ {None}
    BY StreamsAssumption DEF HeldOK, OneStream
  <2> HIDE DEF b, s
  <2> QED
    BY <2>1, <2>2, <2>3, <2>4, <2>5, GoneDown
<1>5. ASSUME NEW i \in Subs, Confirm(i) PROVE HeldOK'
  <2>1. ComeUp([phase EXCEPT ![i] = "live"])
    BY <1>5 DEF Confirm
  <2> QED
    BY <2>1, NewIds, TakenUp DEF ComeUp
<1>6. CASE Attempt
  BY <1>6, AllGone DEF Attempt
<1>7. ASSUME NEW s \in Sockets, OpenSocket(s) PROVE HeldOK'
  BY <1>7, StreamsUnchanged DEF OpenSocket, Settle
<1>8. ASSUME NEW s \in Sockets, ConnectTimeout(s) PROVE HeldOK'
  BY <1>8, StreamsUnchanged DEF ConnectTimeout, Settle
<1>9. ASSUME NEW s \in Sockets, NEW retryable \in BOOLEAN, Close(s, retryable)
      PROVE  HeldOK'
  BY <1>9, AllGone DEF Close
<1>10. CASE BusConnect
  <2> DEFINE new == NewBus \union (IF viewing /\ state' # state THEN NewStream ELSE {})
  <2>1. Subscribe(new, phase) /\ TakeUp(new)
    BY <1>10 DEF BusConnect
  <2>2. new \in {NewBus \union NewStream, NewBus \union {}}
    OBVIOUS
  <2> QED
    BY <2>1, <2>2, NewIds, TakenUp
<1>11. CASE BusDisconnect
  <2>1. GoDown(registered \ {busSub}, None, streamSub, mounted, phase)
    BY <1>11 DEF BusDisconnect
  <2>2. streamSub # None => streamSub \in registered \ {busSub}
    BY StreamsAssumption DEF HeldOK, HeldIsRegistered
  <2>3. (registered \ {busSub}) \intersect StreamSubs = {streamSub} \ {None}
    BY StreamsAssumption DEF HeldOK, OneStream
  <2> QED
    BY <2>1, <2>2, <2>3, GoneDown DEF HeldOK
<1>12. CASE View
  BY <1>12, NewIds, TakenUp DEF View
<1>13. CASE Leave
  <2>1. GoDown(registered \ {streamSub}, busSub, None, FALSE, phase)
    BY <1>13 DEF Leave
  <2>2. busSub # None => busSub \in registered \ {streamSub}
    BY StreamsAssumption DEF HeldOK, HeldIsRegistered
  <2>3. (registered \ {streamSub}) \intersect StreamSubs = {None} \ {None}
    BY DEF HeldOK, OneStream
  <2> QED
    BY <2>1, <2>2, <2>3, GoneDown DEF HeldOK
<1>14. CASE AskReconnect
  BY <1>14, GoneDown DEF AskReconnect, HeldOK, HeldIsRegistered, OneStream
<1>15. ASSUME NEW i \in Subs, Refuse(i) PROVE HeldOK'
  <2>1. /\ i = streamSub /\ registered' = registered \ {i}
        /\ streamSub' = None /\ busSub' = busSub
    BY <1>15 DEF Refuse
  <2>2. busSub # None => busSub # i
    BY <2>1, StreamsAssumption DEF HeldOK
  <2> QED
    BY <2>1, <2>2 DEF HeldOK, HeldIsRegistered, OneStream
<1>16. CASE UNCHANGED allVars
  BY <1>16, StreamsUnchanged DEF allVars, subVars
<1> QED
  BY <1>1, <1>2, <1>3, <1>4, <1>5, <1>6, <1>7, <1>8, <1>9, <1>10, <1>11, <1>12,
     <1>13, <1>14, <1>15, <1>16 DEF StreamsNext, SystemStep

LEMMA HeldInductive == StreamsSpec => []HeldOK
  BY InitHeld, StepHeld, PTL DEF StreamsSpec

\* Whatever closes, fails, times out or is left, what the activity bus and the
\* session stream hold as their subscription is still registered with RelayProtocol,
\* so that its end will be told to them.
THEOREM HeldAreRegistered == StreamsSpec => []HeldIsRegistered
<1>1. HeldOK => HeldIsRegistered
  BY DEF HeldOK
<1> QED
  BY HeldInductive, <1>1, PTL

\* The hook useSessionStream never has two subscriptions registered: no reconnect,
\* late error or return to the page doubles the messages of a session.
THEOREM OneStreamOnly == StreamsSpec => []OneStream
<1>1. HeldOK => OneStream
  BY DEF HeldOK
<1> QED
  BY HeldInductive, <1>1, PTL

--------------------------------------------------------------------------------
(***************************************************************************)
(* The manager inside the composition.                                     *)
(***************************************************************************)
LEMMA HearsIsStep ==
    ASSUME NEW retryable \in BOOLEAN, ManagerHears(retryable)
    PROVE  [Next]_vars
  BY DEF ManagerHears, Next

LEMMA StepOfManager ==
    ASSUME [StreamsNext]_allVars
    PROVE  [Next]_vars
<1>1. ASSUME NEW p \in AttemptIds, AttemptResolved(p) PROVE Next
  BY <1>1 DEF AttemptResolved, Next
<1>2. ASSUME NEW p \in AttemptIds, AttemptRejected(p) PROVE Next
  BY <1>2 DEF AttemptRejected, Next
<1>3. ASSUME NEW i \in Subs, SubscribeSent(i) PROVE UNCHANGED vars
  BY <1>3 DEF SubscribeSent
<1>4. ASSUME NEW i \in Subs, SubscribeFails(i) PROVE [Next]_vars
  BY <1>4, HearsIsStep DEF SubscribeFails
<1>5. ASSUME NEW i \in Subs, Confirm(i) PROVE Next
  BY <1>5 DEF Confirm, Next
<1>6. CASE Attempt
  BY <1>6 DEF Attempt, Next
<1>7. ASSUME NEW s \in Sockets, OpenSocket(s) PROVE UNCHANGED vars
  BY <1>7 DEF OpenSocket, Settle
<1>8. ASSUME NEW s \in Sockets, ConnectTimeout(s) PROVE UNCHANGED vars
  BY <1>8 DEF ConnectTimeout, Settle
<1>9. ASSUME NEW s \in Sockets, NEW retryable \in BOOLEAN, Close(s, retryable)
      PROVE  [Next]_vars
  BY <1>9, HearsIsStep DEF Close
<1>10. CASE BusConnect
  BY <1>10 DEF BusConnect, Next
<1>11. CASE BusDisconnect
  BY <1>11 DEF BusDisconnect, Next
<1>12. CASE View
  BY <1>12 DEF View
<1>13. CASE Leave
  BY <1>13 DEF Leave
<1>14. CASE AskReconnect
  BY <1>14 DEF AskReconnect, Next
<1>15. ASSUME NEW i \in Subs, Refuse(i) PROVE UNCHANGED vars
  BY <1>15 DEF Refuse
<1>16. CASE UNCHANGED allVars
  BY <1>16 DEF allVars
<1> QED
  BY <1>1, <1>2, <1>3, <1>4, <1>5, <1>6, <1>7, <1>8, <1>9, <1>10, <1>11, <1>12,
     <1>13, <1>14, <1>15, <1>16 DEF StreamsNext, SystemStep

\* The streams use the manager only through its methods: every behaviour of the
\* composition is one of ConnectionManager alone, with sockets and subscriptions
\* hidden.
THEOREM StreamsUseManager == StreamsSpec => Spec
<1>1. StreamsInit => Init
  BY DEF StreamsInit
<1> QED
  BY <1>1, StepOfManager, PTL DEF StreamsSpec, Spec

================================================================================
