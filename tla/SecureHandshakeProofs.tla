------------------------- MODULE SecureHandshakeProofs -------------------------
(***************************************************************************)
(* KeysAgree and AnswersHold for every number of sockets, sessions and     *)
(* mishaps, and whatever attempts overlap. ServerOK says of one connection *)
(* what the server's handlers keep true across their awaits; ConnectingOK  *)
(* that a socket which has not opened yet has nothing under way;           *)
(* ResumptionOK that a resumption of the socket in use is one of the       *)
(* session that the client still has; KeyOK where the client's key is from.*)
(***************************************************************************)
EXTENDS SecureHandshake, TLAPS

--------------------------------------------------------------------------------
(***************************************************************************)
(* Queues of frames.                                                       *)
(***************************************************************************)
IsQueue(q) == \E S : q \in Seq(S)

Frames(q) == {q[i] : i \in DOMAIN q}

\* The empty queue.
LEMMA EmptyQueue ==
    IsQueue(<<>>) /\ Frames(<<>>) = {}
<1>1. <<>> \in Seq({}) /\ DOMAIN <<>> = {}
  OBVIOUS
<1> QED
  BY <1>1 DEF IsQueue, Frames

\* A queue of one frame.
LEMMA OneFrame ==
    ASSUME NEW m
    PROVE  IsQueue(<<m>>) /\ Frames(<<m>>) = {m}
<1>1. <<m>> \in Seq({m}) /\ DOMAIN <<m>> = {1} /\ <<m>>[1] = m
  OBVIOUS
<1> QED
  BY <1>1 DEF IsQueue, Frames

\* A frame is sent.
LEMMA AppendFrame ==
    ASSUME NEW q, NEW m, IsQueue(q)
    PROVE  IsQueue(Append(q, m)) /\ Frames(Append(q, m)) = Frames(q) \union {m}
<1>1. PICK S : q \in Seq(S)
  BY DEF IsQueue
<1>2. q \in Seq(S \union {m}) /\ m \in S \union {m}
  BY <1>1
<1> DEFINE r == Append(q, m)
<1>3. r \in Seq(S \union {m}) /\ Len(r) = Len(q) + 1 /\ Len(q) \in Nat
  BY <1>2
<1>4. \A i \in 1..Len(q) : r[i] = q[i]
  BY <1>2
<1>5. r[Len(q) + 1] = m
  BY <1>2
<1>6. DOMAIN q = 1..Len(q) /\ DOMAIN r = 1..(Len(q) + 1)
  BY <1>2, <1>3
<1>7. Frames(r) = Frames(q) \union {m}
  BY <1>3, <1>4, <1>5, <1>6 DEF Frames
<1>8. IsQueue(r)
  BY <1>3 DEF IsQueue
<1> QED
  BY <1>7, <1>8

\* A frame is taken.
LEMMA TailFrame ==
    ASSUME NEW q, IsQueue(q), q # <<>>
    PROVE  /\ IsQueue(Tail(q))
           /\ Head(q) \in Frames(q)
           /\ Frames(Tail(q)) \subseteq Frames(q)
<1>1. PICK S : q \in Seq(S)
  BY DEF IsQueue
<1> DEFINE r == Tail(q)
<1>2. r \in Seq(S) /\ Len(r) = Len(q) - 1 /\ Len(q) \in Nat /\ Len(q) >= 1
  BY <1>1
<1>3. DOMAIN q = 1..Len(q) /\ DOMAIN r = 1..Len(r)
  BY <1>1, <1>2
<1>4. \A i \in DOMAIN r : i + 1 \in DOMAIN q /\ r[i] = q[i + 1]
  BY <1>1, <1>2, <1>3
<1>5. Head(q) = q[1] /\ 1 \in DOMAIN q
  BY <1>1, <1>2, <1>3
<1>6. IsQueue(r)
  BY <1>2 DEF IsQueue
<1> HIDE DEF r
<1>7. Head(q) \in Frames(q) /\ Frames(r) \subseteq Frames(q)
  BY <1>4, <1>5 DEF Frames
<1> QED
  BY <1>6, <1>7 DEF r

--------------------------------------------------------------------------------
(***************************************************************************)
(* The inductive invariant.                                                *)
(***************************************************************************)
Shape ==
    /\ DOMAIN socket = Sockets /\ DOMAIN toServer = Sockets /\ DOMAIN toClient = Sockets
    /\ DOMAIN conn = Sockets /\ DOMAIN authState = Sockets /\ DOMAIN serverKey = Sockets
    /\ DOMAIN pendingResumeChallenge = Sockets /\ DOMAIN doing = Sockets
    /\ ws \in MaybeSocket /\ storedSession \in MaybeSession
    /\ \A d \in due : d[1] = "verify" => d[2] \in Sockets /\ d[3] \in MaybeSession
    /\ \A s \in Sockets : IsQueue(toServer[s]) /\ IsQueue(toClient[s])

Does(h, what) == h # None /\ h[1] \in what

Keyed(s, x) == conn[s] = "open" => Established(s) /\ serverKey[s] = <<x, s>>

\* The server's proofs taken on s that convinced the client's session.
Verifying(s) == {d \in due : d[1] = "verify" /\ d[2] = s /\ d[3] # None}

\* A handler that would establish the connection finds it not established, no challenge
\* outlives the handler that used it, and who was told that the connection is established
\* under a key, or is about to be told, is told the truth while it is open.
ServerOK(s) ==
    /\ Does(doing[s], {"challenge", "validate", "prove"}) => ~Established(s)
    /\ Does(doing[s], {"validate"}) => doing[s][2] \in SessionIds
    /\ Established(s) \/ Does(doing[s], {"validate", "resume", "create"}) =>
          pendingResumeChallenge[s] = None
    /\ Does(doing[s], {"resume", "create"}) => Keyed(s, doing[s][2])
    /\ \A m \in Frames(toClient[s]) : m[1] \in {"srp_resumed", "srp_verify"} => Keyed(s, m[2])
    /\ \A d \in Verifying(s) : Keyed(s, d[3])

\* Nothing is under way on a socket that has not opened.
ConnectingOK(s) ==
    socket[s] = "connecting" =>
        /\ conn[s] = "none" /\ doing[s] = None
        /\ ~Established(s) /\ pendingResumeChallenge[s] = None
        /\ toServer[s] = <<>> /\ toClient[s] = <<>>
        /\ Verifying(s) = {}

\* The resumption on s, wherever it has got to, is of the session z.
Carries(s, z) ==
    /\ \A m \in Frames(toServer[s]) : m[1] \in {"srp_resume_init", "srp_resume"} => m[2] = z
    /\ \A m \in Frames(toClient[s]) : m[1] \in {"srp_resume_challenge", "srp_resumed"} => m[2] = z
    /\ pendingResumeChallenge[s] \in {None, z}
    /\ Does(doing[s], {"validate", "resume"}) => doing[s][2] = z

ResumptionOK ==
    connectionState \in Resuming /\ ws \in Sockets /\ storedSession # None =>
        Carries(ws, storedSession)

KeyOK ==
    connectionState = "authenticated" =>
        /\ storedSession # None /\ sessionKey # None
        /\ ws \in Sockets /\ sessionKey[2] = ws /\ conn[ws] = "open" =>
              Established(ws) /\ serverKey[ws] = sessionKey

HandshakeInv ==
    /\ Shape
    /\ \A s \in Sockets : ServerOK(s)
    /\ \A s \in Sockets : ConnectingOK(s)
    /\ ResumptionOK
    /\ KeyOK

--------------------------------------------------------------------------------
(***************************************************************************)
(* Steps of the client.                                                    *)
(***************************************************************************)
SameConnection(s) ==
    /\ conn'[s] = conn[s] /\ doing'[s] = doing[s]
    /\ authState'[s] = authState[s] /\ serverKey'[s] = serverKey[s]
    /\ pendingResumeChallenge'[s] = pendingResumeChallenge[s]

\* Frames of s may have been taken.
Taken(s) ==
    /\ IsQueue(toClient'[s])
    /\ Frames(toClient'[s]) \subseteq Frames(toClient[s])
    /\ toClient[s] = <<>> => toClient'[s] = <<>>

\* Frames may have been sent on s, in a resumption only those of the stored session.
Sending(s) ==
    /\ IsQueue(toServer'[s])
    /\ connectionState' \in Resuming /\ storedSession' # None =>
          \A m \in Frames(toServer'[s]) : m \in Frames(toServer[s]) \/ m[2] = storedSession'
    /\ socket'[s] = "connecting" => toServer'[s] = toServer[s]

\* The client is up under a key of s, and so is the server if s is the socket in use.
NewKey(s, x) ==
    /\ sessionKey' = <<x, s>>
    /\ storedSession' # None
    /\ ws' = s => Keyed(s, x)

\* No socket opens and no attempt begins; the server's proofs taken and the key
\* established are the server's own.
ClientStep ==
    /\ DOMAIN socket' = Sockets /\ DOMAIN toServer' = Sockets /\ DOMAIN toClient' = Sockets
    /\ UNCHANGED serverVars
    /\ storedSession' \in MaybeSession
    /\ \A d \in due' : d[1] = "verify" => d[2] \in Sockets /\ d[3] \in MaybeSession
    /\ \A s \in Sockets : Taken(s) /\ Sending(s)
    /\ \A s \in Sockets : \A d \in Verifying(s)' :
          d \in Verifying(s) \/ (socket[s] # "connecting" /\ Keyed(s, d[3]))
    /\ \A s \in Sockets : socket'[s] = "connecting" => socket[s] = "connecting"
    /\ ws' \in {ws, None}
    /\ connectionState' \in Resuming =>
          connectionState \in Resuming /\ storedSession' \in {storedSession, None}
    /\ connectionState' = "authenticated" =>
          \/ connectionState = "authenticated" /\ UNCHANGED <<sessionKey, storedSession>>
          \/ \E s \in Sockets, x \in SessionIds : NewKey(s, x)

\* None is nothing else.
LEMMA NoneIsNone ==
    /\ None \notin Sockets /\ None \notin SessionIds
    /\ \A x \in SessionIds, s \in Sockets : <<x, s>> # None
  BY HandshakeAssumption

\* Such a step keeps the invariant.
LEMMA ClientStepKeeps ==
    ASSUME HandshakeInv, ClientStep
    PROVE  HandshakeInv'
<1>1. Shape'
  BY NoneIsNone DEF HandshakeInv, Shape, ClientStep, Taken, Sending, serverVars, MaybeSocket
<1>2. \A s \in Sockets : \A x : Keyed(s, x) => Keyed(s, x)'
  BY DEF ClientStep, serverVars, Keyed, Established
<1>3. ASSUME NEW s \in Sockets PROVE ServerOK(s)'
  <2>1. ServerOK(s) /\ Taken(s)
    BY DEF HandshakeInv, ClientStep
  <2>2. \A m \in Frames(toClient'[s]) : m[1] \in {"srp_resumed", "srp_verify"} => Keyed(s, m[2])'
    BY <1>2, <2>1 DEF ServerOK, Taken
  <2>3. \A d \in Verifying(s)' : Keyed(s, d[3])'
    BY <1>2, <2>1 DEF ServerOK, ClientStep
  <2>4. UNCHANGED <<conn, doing, authState, serverKey, pendingResumeChallenge>>
    BY DEF ClientStep, serverVars
  <2>5. (Does(doing[s], {"resume", "create"}) => Keyed(s, doing[s][2]))'
    BY <2>1, <2>4 DEF ServerOK, Does, Keyed, Established
  <2>6. Established(s)' = Established(s)
    BY <2>4 DEF Established
  <2> QED
    BY <2>1, <2>2, <2>3, <2>4, <2>5, <2>6 DEF ServerOK, Does
<1>4. ASSUME NEW s \in Sockets PROVE ConnectingOK(s)'
  <2> SUFFICES ASSUME socket'[s] = "connecting" PROVE ConnectingOK(s)'
    BY DEF ConnectingOK
  <2>1. socket[s] = "connecting" /\ ConnectingOK(s)
    BY DEF HandshakeInv, ClientStep
  <2>2. Verifying(s)' = {}
    BY <2>1 DEF ConnectingOK, ClientStep
  <2>3. UNCHANGED <<conn, doing, authState, serverKey, pendingResumeChallenge>>
    BY DEF ClientStep, serverVars
  <2>4. toServer'[s] = <<>> /\ toClient'[s] = <<>>
    BY <2>1 DEF ConnectingOK, ClientStep, Sending, Taken
  <2> QED
    BY <2>1, <2>2, <2>3, <2>4 DEF ConnectingOK, Established
<1>5. ResumptionOK'
  <2> SUFFICES ASSUME connectionState' \in Resuming, ws' \in Sockets, storedSession' # None
               PROVE  Carries(ws, storedSession)'
    BY DEF ResumptionOK
  <2>1. ws' = ws /\ ws \in Sockets /\ storedSession' = storedSession
    BY NoneIsNone DEF ClientStep
  <2>2. Carries(ws, storedSession)
    BY <2>1 DEF ClientStep, HandshakeInv, ResumptionOK
  <2>3. Taken(ws) /\ Sending(ws)
    BY <2>1 DEF ClientStep
  <2> QED
    BY <2>1, <2>2, <2>3 DEF Carries, Taken, Sending, ClientStep, serverVars
<1>6. KeyOK'
  <2> SUFFICES ASSUME connectionState' = "authenticated"
               PROVE  KeyOK'
    BY DEF KeyOK
  <2>1. CASE connectionState = "authenticated" /\ UNCHANGED <<sessionKey, storedSession>>
    BY <2>1, NoneIsNone DEF KeyOK, HandshakeInv, ClientStep, serverVars, Established
  <2>2. ASSUME NEW s \in Sockets, NEW x \in SessionIds, NewKey(s, x) PROVE KeyOK'
    <3>1. sessionKey'[2] = s /\ sessionKey' # None /\ storedSession' # None
      BY <2>2, NoneIsNone DEF NewKey
    <3>2. ws' = s /\ conn'[s] = "open" => Established(s)' /\ serverKey'[s] = <<x, s>>
      BY <2>2 DEF NewKey, Keyed, ClientStep, serverVars, Established
    <3> QED
      BY <2>2, <3>1, <3>2 DEF KeyOK, NewKey
  <2> QED
    BY <2>1, <2>2 DEF ClientStep
<1> QED
  BY <1>1, <1>3, <1>4, <1>5, <1>6 DEF HandshakeInv

\* Sockets do not start to connect by being closed.
LEMMA ClosingConnectsNone ==
    ASSUME Shape, NEW t, socket' \in {socket, Closing(t)}
    PROVE  /\ DOMAIN socket' = Sockets
           /\ \A s \in Sockets : socket'[s] = "connecting" => socket[s] = "connecting"
  BY DEF Shape, Closing

\* A frame is taken.
LEMMA TakenFrame ==
    ASSUME Shape, NEW s \in Sockets, NEW m, NEW in, Takes(s, m, in)
    PROVE  /\ DOMAIN toClient' = Sockets /\ UNCHANGED serverVars
           /\ \A t \in Sockets : Taken(t)
           /\ m \in Frames(toClient[s]) /\ socket[s] = "open" /\ connectionState \in in
<1>1. IsQueue(toClient[s]) /\ toClient[s] # <<>> /\ m = Head(toClient[s])
  BY DEF Shape, Takes
<1>2. toClient' = [toClient EXCEPT ![s] = Tail(toClient[s])]
  BY DEF Takes
<1>3. ASSUME NEW t \in Sockets PROVE Taken(t)
  <2>1. CASE t = s
    BY <1>1, <1>2, <2>1, TailFrame DEF Taken, Shape
  <2>2. CASE t # s
    BY <1>2, <2>2 DEF Taken, Shape
  <2> QED
    BY <2>1, <2>2
<1>4. m \in Frames(toClient[s])
  BY <1>1, TailFrame
<1> QED
  BY <1>2, <1>3, <1>4 DEF Takes, Shape

\* No frame is taken.
LEMMA NoneTaken ==
    ASSUME Shape, toClient' = toClient
    PROVE  DOMAIN toClient' = Sockets /\ \A s \in Sockets : Taken(s)
  BY DEF Shape, Taken

\* No frame is sent.
LEMMA NoneSent ==
    ASSUME Shape, toServer' = toServer
    PROVE  DOMAIN toServer' = Sockets /\ \A s \in Sockets : Sending(s)
  BY DEF Shape, Sending

\* A frame is sent on the socket in use.
LEMMA OneSent ==
    ASSUME Shape, NEW m, toServer' = Sent(m), UNCHANGED socket,
           connectionState' \in Resuming /\ storedSession' # None => m[2] = storedSession'
    PROVE  DOMAIN toServer' = Sockets /\ \A s \in Sockets : Sending(s)
<1>1. \A s \in Sockets :
          toServer'[s] = toServer[s] \/ (socket[s] = "open" /\ toServer'[s] = Append(toServer[s], m))
  BY DEF Sent
<1>2. ASSUME NEW s \in Sockets PROVE Sending(s)
  <2>1. IsQueue(toServer[s])
    BY DEF Shape
  <2>2. CASE toServer'[s] = toServer[s]
    BY <2>1, <2>2 DEF Sending
  <2>3. CASE socket[s] = "open" /\ toServer'[s] = Append(toServer[s], m)
    <3>1. IsQueue(toServer'[s]) /\ Frames(toServer'[s]) = Frames(toServer[s]) \union {m}
      BY <2>1, <2>3, AppendFrame
    <3> QED
      BY <2>3, <3>1 DEF Sending
  <2> QED
    BY <1>1, <2>2, <2>3
<1> QED
  BY <1>2 DEF Sent, Shape

\* Without a new proof of the server and without a new key the rest is soon seen.
LEMMA QuietClientStep ==
    ASSUME Shape,
           DOMAIN socket' = Sockets /\ DOMAIN toServer' = Sockets /\ DOMAIN toClient' = Sockets,
           UNCHANGED serverVars,
           \A s \in Sockets : Taken(s), \A s \in Sockets : Sending(s),
           \A d \in due' : d \in due \/ d[1] # "verify",
           \A s \in Sockets : socket'[s] = "connecting" => socket[s] = "connecting",
           ws' \in {ws, None}, storedSession' \in {storedSession, None},
           connectionState' \in Resuming => connectionState \in Resuming,
           connectionState' = "authenticated" =>
               connectionState = "authenticated" /\ UNCHANGED <<sessionKey, storedSession>>
    PROVE  ClientStep
<1>1. \A s \in Sockets : \A d \in Verifying(s)' : d \in Verifying(s)
  BY DEF Verifying
<1>2. \A d \in due' : d[1] = "verify" => d[2] \in Sockets /\ d[3] \in MaybeSession
  BY DEF Shape
<1> QED
  BY <1>1, <1>2 DEF ClientStep, Shape, MaybeSession

--------------------------------------------------------------------------------
(***************************************************************************)
(* The client's actions, one by one.                                       *)
(***************************************************************************)
\* The answers to a resumption, and the frames that do not belong.
LEMMA ResumeAnswersKeep ==
    ASSUME HandshakeInv, NEW s \in Sockets,
           \/ \E x \in SessionIds : TakeResumeChallenge(s, x)
           \/ TakeInvalid(s) \/ TakeUnexpected(s) \/ Drop(s)
    PROVE  ClientStep
<1>0. Shape
  BY DEF HandshakeInv
<1>1. ASSUME NEW x \in SessionIds, TakeResumeChallenge(s, x) PROVE ClientStep
  <2>1. /\ DOMAIN toClient' = Sockets /\ UNCHANGED serverVars
        /\ \A t \in Sockets : Taken(t)
        /\ connectionState \in Resuming
    BY <1>0, <1>1, TakenFrame DEF TakeResumeChallenge
  <2>2. UNCHANGED <<ws, sessionKey, storedSession, due>>
    BY <1>1 DEF TakeResumeChallenge
  <2>3. connectionState' \in Resuming
    BY <1>1, <2>1 DEF TakeResumeChallenge, Resuming
  <2>4. CASE storedSession = x
    <3>1. toServer' = Sent(<<"srp_resume", x, s>>) /\ UNCHANGED socket
      BY <1>1, <2>4 DEF TakeResumeChallenge
    <3>2. DOMAIN toServer' = Sockets /\ \A t \in Sockets : Sending(t)
      BY <1>0, <2>2, <2>4, <3>1, OneSent
    <3> QED
      BY <1>0, <2>1, <2>2, <2>3, <3>1, <3>2, QuietClientStep DEF Shape, Resuming
  <2>5. CASE storedSession # x
    <3>1. toServer' = toServer /\ socket' \in {socket, Closing(ws)}
      BY <1>1, <2>5 DEF TakeResumeChallenge
    <3> QED
      BY <1>0, <2>1, <2>2, <2>3, <3>1, NoneSent, ClosingConnectsNone, QuietClientStep DEF Resuming
  <2> QED
    BY <2>4, <2>5
<1>2. ASSUME TakeInvalid(s) PROVE ClientStep
  <2>1. /\ DOMAIN toClient' = Sockets /\ UNCHANGED serverVars
        /\ \A t \in Sockets : Taken(t)
        /\ connectionState \in Resuming
    BY <1>0, <1>2, TakenFrame DEF TakeInvalid
  <2>2. toServer' = toServer /\ ws' = ws /\ socket' \in {socket, Closing(ws)}
    BY <1>2 DEF TakeInvalid, Fail
  <2>3. \A d \in due' : d \in due \/ d[1] # "verify"
    BY <1>2 DEF TakeInvalid, StartFullSrp
  <2>4. storedSession' \in {storedSession, None} /\ connectionState' \in {connectionState, "failed"}
    BY <1>2 DEF TakeInvalid, Fail
  <2> QED
    BY <1>0, <2>1, <2>2, <2>3, <2>4, NoneSent, ClosingConnectsNone, QuietClientStep DEF Resuming
<1>3. ASSUME TakeUnexpected(s) PROVE ClientStep
  <2>1. /\ DOMAIN toClient' = Sockets /\ UNCHANGED serverVars
        /\ \A t \in Sockets : Taken(t)
    BY <1>0, <1>3, TakenFrame DEF TakeUnexpected
  <2>2. /\ toServer' = toServer /\ ws' = ws /\ due' = due /\ storedSession' = storedSession
        /\ socket' = Closing(ws) /\ connectionState' = "failed"
    BY <1>3 DEF TakeUnexpected, Fail
  <2> QED
    BY <1>0, <2>1, <2>2, NoneSent, ClosingConnectsNone, QuietClientStep DEF Resuming
<1>4. ASSUME Drop(s) PROVE ClientStep
  <2>1. /\ IsQueue(toClient[s]) /\ toClient[s] # <<>>
        /\ toClient' = [toClient EXCEPT ![s] = Tail(toClient[s])]
    BY <1>0, <1>4 DEF Drop, Shape
  <2>2. \A t \in Sockets : Taken(t)
    BY <1>0, <2>1, TailFrame DEF Taken, Shape
  <2>3. UNCHANGED <<clientVars, serverVars, toServer, socket, due>>
    BY <1>4 DEF Drop, attemptVars
  <2> QED
    BY <1>0, <2>1, <2>2, <2>3, NoneSent, QuietClientStep DEF clientVars, Shape
<1> QED
  BY <1>1, <1>2, <1>3, <1>4

\* The server's challenge and its proof, and the end of a resumption.
LEMMA EstablishingAnswersKeep ==
    ASSUME HandshakeInv, NEW s \in Sockets,
           \/ \E x \in SessionIds : TakeResumed(s, x) \/ TakeVerify(s, x)
           \/ \E good \in BOOLEAN : TakeSrpChallenge(s, good)
    PROVE  ClientStep
<1>0. Shape /\ ServerOK(s)
  BY DEF HandshakeInv
<1>1. ASSUME NEW x \in SessionIds, TakeResumed(s, x) PROVE ClientStep
  <2> DEFINE m == <<"srp_resumed", x>>
  <2>1. /\ DOMAIN toClient' = Sockets /\ UNCHANGED serverVars
        /\ \A t \in Sockets : Taken(t)
        /\ m \in Frames(toClient[s]) /\ connectionState \in Resuming
    BY <1>0, <1>1, TakenFrame DEF TakeResumed
  <2>2. UNCHANGED <<ws, storedSession, due, socket, toServer>>
    BY <1>1 DEF TakeResumed
  <2>3. \A t \in Sockets : Sending(t)
    BY <1>0, <2>2, NoneSent
  <2>4. DOMAIN socket' = Sockets /\ DOMAIN toServer' = Sockets
    BY <1>0, <2>2 DEF Shape
  <2>5. CASE storedSession = None
    <3>1. connectionState' = connectionState
      BY <1>1, <2>5 DEF TakeResumed
    <3> QED
      BY <1>0, <2>1, <2>2, <2>3, <2>4, <3>1, QuietClientStep DEF Resuming
  <2>6. CASE storedSession # None
    <3>1. sessionKey' = <<storedSession, s>> /\ connectionState' = "authenticated"
      BY <1>1, <2>6 DEF TakeResumed
    <3>2. Keyed(s, x)
      BY <1>0, <2>1 DEF ServerOK
    <3>3. ws = s => storedSession = x
      BY <2>1, <2>6 DEF HandshakeInv, ResumptionOK, Carries
    <3>4. storedSession \in SessionIds
      BY <1>0, <2>6 DEF Shape, MaybeSession
    <3>5. NewKey(s, storedSession)
      BY <2>2, <2>6, <3>1, <3>2, <3>3 DEF NewKey
    <3>6. \A t \in Sockets : \A d \in Verifying(t)' : d \in Verifying(t)
      BY <2>2 DEF Verifying
    <3> QED
      BY <1>0, <2>1, <2>2, <2>3, <2>4, <3>1, <3>4, <3>5, <3>6 DEF ClientStep, Shape, Resuming
  <2> QED
    BY <2>5, <2>6
<1>2. ASSUME NEW x \in SessionIds, TakeVerify(s, x) PROVE ClientStep
  <2> DEFINE m == <<"srp_verify", x>>
             e == <<"verify", s, IF srpSession = s THEN x ELSE None>>
  <2>1. /\ DOMAIN toClient' = Sockets /\ UNCHANGED serverVars
        /\ \A t \in Sockets : Taken(t)
        /\ m \in Frames(toClient[s]) /\ socket[s] = "open"
    BY <1>0, <1>2, TakenFrame DEF TakeVerify
  <2>2. /\ UNCHANGED <<ws, sessionKey, storedSession, connectionState, socket, toServer>>
        /\ due' \subseteq due \union {e}
    BY <1>2 DEF TakeVerify
  <2>3. \A t \in Sockets : Sending(t)
    BY <1>0, <2>2, NoneSent
  <2>4. DOMAIN socket' = Sockets /\ DOMAIN toServer' = Sockets
    BY <1>0, <2>2 DEF Shape
  <2>5. Keyed(s, x)
    BY <1>0, <2>1 DEF ServerOK
  <2>6. ASSUME NEW t \in Sockets, NEW d \in Verifying(t)'
        PROVE  d \in Verifying(t) \/ (socket[t] # "connecting" /\ Keyed(t, d[3]))
    <3>1. d \in due' /\ d[1] = "verify" /\ d[2] = t /\ d[3] # None
      BY <2>6 DEF Verifying
    <3>2. CASE d \in due
      BY <3>1, <3>2 DEF Verifying
    <3>3. CASE d = e
      BY <2>1, <2>5, <3>1, <3>3
    <3> QED
      BY <2>2, <3>1, <3>2, <3>3
  <2>7. \A d \in due' : d[1] = "verify" => d[2] \in Sockets /\ d[3] \in MaybeSession
    BY <1>0, <2>2 DEF Shape, MaybeSession
  <2> QED
    BY <1>0, <2>1, <2>2, <2>3, <2>4, <2>6, <2>7 DEF ClientStep, Shape
<1>3. ASSUME NEW good \in BOOLEAN, TakeSrpChallenge(s, good) PROVE ClientStep
  <2>1. /\ DOMAIN toClient' = Sockets /\ UNCHANGED serverVars
        /\ \A t \in Sockets : Taken(t)
        /\ connectionState = "srp_hello_sent"
    BY <1>0, <1>3, TakenFrame DEF TakeSrpChallenge
  <2>2. /\ UNCHANGED <<ws, storedSession, toServer>>
        /\ socket' \in {socket, Closing(ws)}
        /\ connectionState' \in {connectionState, "failed"}
        /\ due' \subseteq due \union {<<"proof", s, good>>}
    BY <1>3 DEF TakeSrpChallenge, Fail
  <2>3. \A t \in Sockets : Sending(t)
    BY <1>0, <2>2, NoneSent
  <2>4. \A d \in due' : d \in due \/ d[1] # "verify"
    BY <2>2
  <2>5. DOMAIN toServer' = Sockets
    BY <1>0, <2>2 DEF Shape
  <2> QED
    BY <1>0, <2>1, <2>2, <2>3, <2>4, <2>5, ClosingConnectsNone, QuietClientStep DEF Resuming
<1> QED
  BY <1>1, <1>2, <1>3

\* What the client does after an await.
LEMMA DuesKeep ==
    ASSUME HandshakeInv, NEW d \in due, HelloDue(d) \/ ProofDue(d) \/ VerifyDue(d)
    PROVE  ClientStep
<1>0. Shape
  BY DEF HandshakeInv
<1>1. CASE HelloDue(d) \/ ProofDue(d)
  <2>1. PICK m : toServer' = Sent(m)
    BY <1>1 DEF HelloDue, ProofDue
  <2>2. /\ UNCHANGED <<ws, storedSession, socket, toClient, serverVars>>
        /\ connectionState' \in {"srp_hello_sent", "srp_proof_sent"}
        /\ due' \subseteq due
    BY <1>1 DEF HelloDue, ProofDue
  <2>3. connectionState' \notin Resuming /\ connectionState' # "authenticated"
    BY <2>2 DEF Resuming
  <2>4. DOMAIN toServer' = Sockets /\ \A s \in Sockets : Sending(s)
    BY <1>0, <2>1, <2>2, <2>3, OneSent
  <2>5. DOMAIN toClient' = Sockets /\ \A s \in Sockets : Taken(s)
    BY <1>0, <2>2, NoneTaken
  <2>6. DOMAIN socket' = Sockets
    BY <1>0, <2>2 DEF Shape
  <2> QED
    BY <1>0, <2>2, <2>3, <2>4, <2>5, <2>6, QuietClientStep
<1>2. CASE VerifyDue(d)
  <2> DEFINE s == d[2]
             x == d[3]
  <2>1. /\ d[1] = "verify" /\ due' \subseteq due
        /\ UNCHANGED <<ws, toServer, toClient, serverVars>>
    BY <1>2 DEF VerifyDue
  <2>2. DOMAIN toServer' = Sockets /\ \A t \in Sockets : Sending(t)
    <3>1. toServer' = toServer
      BY <2>1
    <3> QED
      BY <1>0, <3>1, NoneSent
  <2>3. DOMAIN toClient' = Sockets /\ \A t \in Sockets : Taken(t)
    BY <1>0, <2>1, NoneTaken
  <2>4. s \in Sockets /\ x \in MaybeSession
    BY <1>0, <2>1 DEF Shape
  <2>5. CASE x # None /\ srpSession = s
    <3>1. /\ sessionKey' = <<x, s>> /\ storedSession' = x
          /\ connectionState' = "authenticated" /\ socket' = socket
      BY <1>2, <2>5, <2>4, NoneIsNone DEF VerifyDue
    <3>2. Keyed(s, x)
      <4>1. d \in Verifying(s)
        BY <2>1, <2>5 DEF Verifying
      <4> QED
        BY <2>4, <4>1 DEF HandshakeInv, ServerOK
    <3>3. x \in SessionIds
      BY <2>4, <2>5 DEF MaybeSession
    <3>4. NewKey(s, x)
      BY <2>5, <3>1, <3>2 DEF NewKey
    <3>5. \A t \in Sockets : \A e \in Verifying(t)' : e \in Verifying(t)
      BY <2>1 DEF Verifying
    <3> QED
      BY <1>0, <2>1, <2>2, <2>3, <2>4, <3>1, <3>3, <3>4, <3>5 DEF ClientStep, Shape, Resuming
  <2>6. CASE ~(x # None /\ srpSession = s)
    <3>1. /\ storedSession' = storedSession /\ sessionKey' = sessionKey
          /\ connectionState' \in {connectionState, "failed"}
          /\ socket' \in {socket, Closing(ws)}
      BY <1>2, <2>6 DEF VerifyDue, Fail
    <3> QED
      BY <1>0, <2>1, <2>2, <2>3, <3>1, ClosingConnectsNone, QuietClientStep DEF Resuming
  <2> QED
    BY <2>5, <2>6
<1> QED
  BY <1>1, <1>2

\* Closes and timeouts.
LEMMA EndsKeep ==
    ASSUME HandshakeInv, NEW s \in Sockets, Closed(s) \/ ConnectTimeout(s) \/ ResumeTimeout(s)
    PROVE  ClientStep
<1>0. Shape
  BY DEF HandshakeInv
<1>1. CASE Closed(s)
  <2>1. /\ toClient' = [toClient EXCEPT ![s] = <<>>]
        /\ socket' = [socket EXCEPT ![s] = "free"]
        /\ ws' \in {ws, None} /\ UNCHANGED <<storedSession, due, toServer, serverVars>>
        /\ \/ UNCHANGED <<sessionKey, connectionState>>
           \/ connectionState' \in {"disconnected", "failed"}
    BY <1>1 DEF Closed
  <2>2. \A t \in Sockets : Taken(t)
    BY <1>0, <2>1, EmptyQueue DEF Taken, Shape
  <2>3. DOMAIN toServer' = Sockets /\ \A t \in Sockets : Sending(t)
    BY <1>0, <2>1, NoneSent
  <2>4. /\ DOMAIN toClient' = Sockets /\ DOMAIN socket' = Sockets
        /\ \A t \in Sockets : socket'[t] = "connecting" => socket[t] = "connecting"
    BY <1>0, <2>1 DEF Shape
  <2> QED
    BY <1>0, <2>1, <2>2, <2>3, <2>4, QuietClientStep DEF Resuming
<1>2. CASE ConnectTimeout(s)
  <2>1. /\ UNCHANGED <<ws, sessionKey, storedSession, due, serverVars, toServer, toClient>>
        /\ connectionState' \in {connectionState, "failed"}
        /\ socket' \in {socket, Closing(s)}
    BY <1>2 DEF ConnectTimeout
  <2> QED
    BY <1>0, <2>1, NoneSent, NoneTaken, ClosingConnectsNone, QuietClientStep DEF Resuming
<1>3. CASE ResumeTimeout(s)
  <2>1. /\ UNCHANGED <<ws, sessionKey, serverVars, toServer, toClient>>
        /\ storedSession' \in {storedSession, None}
        /\ connectionState' \in {connectionState, "failed"}
        /\ socket' \in {socket, Closing(s)}
        /\ connectionState = "authenticated" => UNCHANGED storedSession
        /\ \A d \in due' : d \in due \/ d[1] # "verify"
    BY <1>3 DEF ResumeTimeout, Fail, StartFullSrp, Resuming
  <2> QED
    BY <1>0, <2>1, NoneSent, NoneTaken, ClosingConnectsNone, QuietClientStep DEF Resuming
<1> QED
  BY <1>1, <1>2, <1>3

--------------------------------------------------------------------------------
(***************************************************************************)
(* An attempt begins, and its socket opens.                                *)
(***************************************************************************)
\* A new socket has nothing on it, and the others are as before.
LEMMA ConnectKeeps ==
    ASSUME HandshakeInv, EnsureConnected \/ ForceReconnect
    PROVE  HandshakeInv'
<1>1. PICK sockets, handlers : sockets \in {socket, Closing(ws)} /\ Connect(sockets, handlers)
  BY DEF EnsureConnected, ForceReconnect
<1>2. PICK s \in FreeSockets :
          /\ socket' = [sockets EXCEPT ![s] = "connecting"]
          /\ conn' = [conn EXCEPT ![s] = "none"]
          /\ authState' = [authState EXCEPT ![s] = "unauthenticated"]
          /\ serverKey' = [serverKey EXCEPT ![s] = None]
          /\ pendingResumeChallenge' = [pendingResumeChallenge EXCEPT ![s] = None]
          /\ toServer' = [toServer EXCEPT ![s] = <<>>]
          /\ toClient' = [toClient EXCEPT ![s] = <<>>]
  <2>1. (CHOOSE t \in FreeSockets : TRUE) \in FreeSockets
    BY <1>1 DEF Connect
  <2> QED
    BY <1>1, <2>1 DEF Connect
<1>3. connectionState' = "connecting" /\ UNCHANGED <<storedSession, due, doing>>
  BY <1>1 DEF Connect
<1>4. s \in Sockets /\ doing[s] = None /\ \A d \in due : d[2] # s
  BY DEF FreeSockets
<1>5. Shape
  BY DEF HandshakeInv
<1>6. /\ DOMAIN sockets = Sockets
      /\ \A t \in Sockets : sockets[t] = "connecting" => socket[t] = "connecting"
  BY <1>1, <1>5 DEF Shape, Closing
<1>7. ws' \in MaybeSocket
  BY <1>5 DEF EnsureConnected, ForceReconnect, Shape, MaybeSocket
<1>8. Shape'
  BY <1>2, <1>3, <1>5, <1>6, <1>7, EmptyQueue DEF Shape
<1>9. Verifying(s)' = {} /\ \A t \in Sockets : Verifying(t)' = Verifying(t)
  BY <1>3, <1>4 DEF Verifying
<1>10. /\ conn'[s] = "none" /\ doing'[s] = None /\ ~Established(s)'
       /\ pendingResumeChallenge'[s] = None /\ toServer'[s] = <<>> /\ toClient'[s] = <<>>
  BY <1>2, <1>3, <1>4, <1>5 DEF Shape, Established
<1>11. ASSUME NEW t \in Sockets PROVE ServerOK(t)' /\ ConnectingOK(t)'
  <2>1. CASE t = s
    BY <1>9, <1>10, <2>1, EmptyQueue DEF ServerOK, ConnectingOK, Does, Keyed
  <2>2. CASE t # s
    <3>1. /\ socket'[t] = sockets[t] /\ conn'[t] = conn[t] /\ authState'[t] = authState[t]
          /\ serverKey'[t] = serverKey[t] /\ toServer'[t] = toServer[t]
          /\ pendingResumeChallenge'[t] = pendingResumeChallenge[t]
          /\ toClient'[t] = toClient[t] /\ doing'[t] = doing[t]
      BY <1>2, <1>3, <1>5, <1>6, <2>2 DEF Shape
    <3>2. ServerOK(t) /\ ConnectingOK(t)
      BY DEF HandshakeInv
    <3>3. ServerOK(t)'
      BY <1>9, <3>1, <3>2 DEF ServerOK, Keyed, Established
    <3>4. ConnectingOK(t)'
      BY <1>6, <1>9, <3>1, <3>2 DEF ConnectingOK, Established
    <3> QED
      BY <3>3, <3>4
  <2> QED
    BY <2>1, <2>2
<1>12. ResumptionOK' /\ KeyOK'
  BY <1>3 DEF ResumptionOK, KeyOK, Resuming
<1> QED
  BY <1>8, <1>11, <1>12 DEF HandshakeInv

\* A socket that opens starts the only exchange on it, and the client is not up.
LEMMA OpenKeeps ==
    ASSUME HandshakeInv, NEW s \in Sockets, Open(s)
    PROVE  HandshakeInv'
<1>0. Shape /\ ConnectingOK(s)
  BY DEF HandshakeInv
<1>1. /\ socket[s] = "connecting"
      /\ conn' = [conn EXCEPT ![s] = "open"] /\ socket' = [socket EXCEPT ![s] = "open"]
      /\ ws' = s
      /\ UNCHANGED <<sessionKey, storedSession, toClient, authState, serverKey,
                     pendingResumeChallenge, doing>>
  BY DEF Open
<1>2. /\ doing[s] = None /\ ~Established(s) /\ pendingResumeChallenge[s] = None
      /\ toServer[s] = <<>> /\ toClient[s] = <<>> /\ Verifying(s) = {}
  BY <1>0, <1>1 DEF ConnectingOK
<1> DEFINE m == <<"srp_resume_init", storedSession>>
<1>3. \/ /\ storedSession # None
         /\ toServer' = [toServer EXCEPT ![s] = <<m>>]
         /\ connectionState' = "srp_resume_init_sent" /\ due' = due
      \/ /\ storedSession = None
         /\ toServer' = toServer /\ connectionState' = connectionState
         /\ due' = due \union {<<"hello", s, None>>}
  BY DEF Open, StartFullSrp
<1>4. \A d \in due' : d \in due \/ d[1] # "verify"
  BY <1>3
<1>5. \A t \in Sockets : Verifying(t)' \subseteq Verifying(t)
  BY <1>4 DEF Verifying
<1>6. \A t \in Sockets : IsQueue(toServer'[t])
  BY <1>0, <1>3, OneFrame DEF Shape
<1>7. Shape'
  BY <1>0, <1>1, <1>3, <1>4, <1>6 DEF Shape, MaybeSocket
<1>8. ASSUME NEW t \in Sockets PROVE ServerOK(t)' /\ ConnectingOK(t)'
  <2>1. CASE t = s
    <3>1. socket'[s] = "open" /\ Verifying(s)' = {}
      BY <1>0, <1>1, <1>2, <1>5 DEF Shape
    <3> QED
      BY <1>1, <1>2, <2>1, <3>1, EmptyQueue DEF ServerOK, ConnectingOK, Does, Established
  <2>2. CASE t # s
    <3>1. /\ socket'[t] = socket[t] /\ conn'[t] = conn[t] /\ toServer'[t] = toServer[t]
      BY <1>0, <1>1, <1>3, <2>2 DEF Shape
    <3>2. ServerOK(t) /\ ConnectingOK(t)
      BY DEF HandshakeInv
    <3>3. ServerOK(t)'
      BY <1>1, <1>5, <3>1, <3>2 DEF ServerOK, Keyed, Established
    <3>4. ConnectingOK(t)'
      BY <1>1, <1>5, <3>1, <3>2 DEF ConnectingOK, Established
    <3> QED
      BY <3>3, <3>4
  <2> QED
    BY <2>1, <2>2
<1>9. ResumptionOK'
  <2> SUFFICES ASSUME storedSession # None PROVE Carries(s, storedSession)'
    BY <1>1 DEF ResumptionOK, Carries
  <2>1. Frames(toServer'[s]) = {m}
    BY <1>0, <1>3, OneFrame DEF Shape
  <2> QED
    BY <1>1, <1>2, <2>1, EmptyQueue DEF Carries, Does
<1>10. KeyOK'
  <2>1. connectionState' # "authenticated"
    BY <1>3 DEF HandshakeInv, KeyOK
  <2> QED
    BY <2>1 DEF KeyOK
<1> QED
  BY <1>7, <1>8, <1>9, <1>10 DEF HandshakeInv

--------------------------------------------------------------------------------
(***************************************************************************)
(* Steps of the server.                                                    *)
(***************************************************************************)
\* Whatever else happens on s, an open connection keeps its key, and no resumption of
\* another session comes up.
ServerStep(s) ==
    /\ UNCHANGED <<clientVars, due, socket>>
    /\ Shape'
    /\ socket[s] # "connecting"
    /\ \A t \in Sockets \ {s} : /\ SameConnection(t)
                                /\ toServer'[t] = toServer[t] /\ toClient'[t] = toClient[t]
    /\ ServerOK(s)'
    /\ \A z : Carries(s, z) => Carries(s, z)'
    /\ conn'[s] = "open" =>
          conn[s] = "open" /\ (Established(s) => Established(s)' /\ serverKey'[s] = serverKey[s])

\* Such a step keeps the invariant.
LEMMA ServerStepKeeps ==
    ASSUME HandshakeInv, NEW s \in Sockets, ServerStep(s)
    PROVE  HandshakeInv'
<1>1. UNCHANGED <<connectionState, ws, sessionKey, storedSession, due, socket>>
  BY DEF ServerStep, clientVars
<1>2. \A t \in Sockets : Verifying(t)' = Verifying(t)
  BY <1>1 DEF Verifying
<1>3. ASSUME NEW t \in Sockets, t # s PROVE ServerOK(t)' /\ ConnectingOK(t)'
  <2>1. SameConnection(t) /\ toServer'[t] = toServer[t] /\ toClient'[t] = toClient[t]
    BY <1>3 DEF ServerStep
  <2>2. ServerOK(t) /\ ConnectingOK(t)
    BY DEF HandshakeInv
  <2>3. ServerOK(t)'
    BY <1>2, <2>1, <2>2 DEF ServerOK, SameConnection, Keyed, Established
  <2>4. ConnectingOK(t)'
    BY <1>1, <1>2, <2>1, <2>2 DEF ConnectingOK, SameConnection, Established
  <2> QED
    BY <2>3, <2>4
<1>4. ServerOK(s)' /\ ConnectingOK(s)'
  BY <1>1 DEF ServerStep, ConnectingOK
<1>5. ResumptionOK'
  <2> SUFFICES ASSUME connectionState \in Resuming, ws \in Sockets, storedSession # None,
                      Carries(ws, storedSession)
               PROVE  Carries(ws, storedSession)'
    BY <1>1 DEF ResumptionOK, HandshakeInv
  <2>1. CASE ws = s
    BY <1>1, <2>1 DEF ServerStep, Carries
  <2>2. CASE ws # s
    <3>1. SameConnection(ws) /\ toServer'[ws] = toServer[ws] /\ toClient'[ws] = toClient[ws]
      BY <2>2 DEF ServerStep
    <3> QED
      BY <1>1, <3>1 DEF Carries, SameConnection
  <2> QED
    BY <2>1, <2>2
<1>6. KeyOK'
  <2>1. KeyOK
    BY DEF HandshakeInv
  <2>2. ASSUME ws \in Sockets, conn'[ws] = "open"
        PROVE  conn[ws] = "open" /\ (Established(ws) => Established(ws)' /\ serverKey'[ws] = serverKey[ws])
    <3>1. CASE ws = s
      BY <1>1, <2>2, <3>1 DEF ServerStep, Established
    <3>2. CASE ws # s
      BY <1>1, <2>2, <3>2 DEF ServerStep, SameConnection, Established
    <3> QED
      BY <3>1, <3>2
  <2> QED
    BY <1>1, <2>1, <2>2 DEF KeyOK, Established
<1> QED
  BY <1>3, <1>4, <1>5, <1>6 DEF HandshakeInv, ServerStep

\* An answer is sent, or none since the connection is closed.
LEMMA AnsweredFrame ==
    ASSUME Shape, NEW s \in Sockets, NEW m, toClient' = Answered(s, m)
    PROVE  /\ DOMAIN toClient' = Sockets
           /\ \A t \in Sockets : IsQueue(toClient'[t])
           /\ \A t \in Sockets \ {s} : toClient'[t] = toClient[t]
           /\ Frames(toClient[s]) \subseteq Frames(toClient'[s])
           /\ Frames(toClient'[s]) \subseteq Frames(toClient[s]) \union {m}
<1>1. IsQueue(toClient[s])
  BY DEF Shape
<1>2. toClient'[s] = IF conn[s] = "open" THEN Append(toClient[s], m) ELSE toClient[s]
  BY DEF Answered, Shape
<1>3. /\ IsQueue(toClient'[s])
      /\ Frames(toClient[s]) \subseteq Frames(toClient'[s])
      /\ Frames(toClient'[s]) \subseteq Frames(toClient[s]) \union {m}
  BY <1>1, <1>2, AppendFrame
<1>4. \A t \in Sockets \ {s} : toClient'[t] = toClient[t]
  BY DEF Answered, Shape
<1> QED
  BY <1>3, <1>4 DEF Answered, Shape

\* The server handles a frame of an open connection.
LEMMA HandledFrame ==
    ASSUME HandshakeInv, NEW s \in Sockets, NEW m, Handles(s, m)
    PROVE  /\ UNCHANGED <<clientVars, due, socket>>
           /\ conn[s] = "open" /\ doing[s] = None /\ socket[s] # "connecting"
           /\ DOMAIN toServer' = Sockets
           /\ \A t \in Sockets : IsQueue(toServer'[t])
           /\ \A t \in Sockets \ {s} : toServer'[t] = toServer[t]
           /\ m \in Frames(toServer[s]) /\ Frames(toServer'[s]) \subseteq Frames(toServer[s])
<1>1. Shape /\ ConnectingOK(s)
  BY DEF HandshakeInv
<1>2. IsQueue(toServer[s]) /\ toServer[s] # <<>> /\ m = Head(toServer[s])
  BY <1>1 DEF Shape, Handles
<1>3. toServer' = [toServer EXCEPT ![s] = Tail(toServer[s])]
  BY DEF Handles
<1>4. IsQueue(Tail(toServer[s])) /\ m \in Frames(toServer[s])
      /\ Frames(Tail(toServer[s])) \subseteq Frames(toServer[s])
  BY <1>2, TailFrame
<1>5. \A t \in Sockets : IsQueue(toServer'[t])
  BY <1>1, <1>3, <1>4 DEF Shape
<1>6. conn[s] = "open" /\ doing[s] = None /\ socket[s] # "connecting"
  BY <1>1 DEF Handles, ConnectingOK
<1> QED
  BY <1>1, <1>3, <1>4, <1>5, <1>6 DEF Shape, Handles, attemptVars

--------------------------------------------------------------------------------
(***************************************************************************)
(* The server's actions, one by one.                                       *)
(***************************************************************************)
\* The two frames of a resumption.
LEMMA ResumeCallsKeep ==
    ASSUME HandshakeInv, NEW s \in Sockets, NEW x \in SessionIds,
           HandleSrpResumeInit(s, x) \/ \E of \in Sockets : HandleSrpResume(s, x, of)
    PROVE  ServerStep(s)
<1>0. Shape /\ ServerOK(s)
  BY DEF HandshakeInv
<1>1. CASE HandleSrpResumeInit(s, x)
  <2> DEFINE m == <<"srp_resume_init", x>>
  <2>1. /\ UNCHANGED <<clientVars, due, socket>>
        /\ conn[s] = "open" /\ doing[s] = None /\ socket[s] # "connecting"
        /\ DOMAIN toServer' = Sockets
        /\ \A t \in Sockets : IsQueue(toServer'[t])
        /\ \A t \in Sockets \ {s} : toServer'[t] = toServer[t]
        /\ m \in Frames(toServer[s]) /\ Frames(toServer'[s]) \subseteq Frames(toServer[s])
    BY <1>1, HandledFrame DEF HandleSrpResumeInit
  <2>2. UNCHANGED <<conn, authState, serverKey, doing>>
    BY <1>1 DEF HandleSrpResumeInit
  <2>3. PICK a \in {<<"srp_resume_challenge", x>>, <<"srp_invalid">>} :
            /\ toClient' = Answered(s, a)
            /\ \/ /\ ~Established(s)
                  /\ pendingResumeChallenge' = [pendingResumeChallenge EXCEPT ![s] = x]
               \/ pendingResumeChallenge' = pendingResumeChallenge
    BY <1>1 DEF HandleSrpResumeInit
  <2>4. /\ DOMAIN toClient' = Sockets
        /\ \A t \in Sockets : IsQueue(toClient'[t])
        /\ \A t \in Sockets \ {s} : toClient'[t] = toClient[t]
        /\ Frames(toClient'[s]) \subseteq Frames(toClient[s]) \union {a}
    BY <1>0, <2>3, AnsweredFrame
  <2>5. Shape'
    BY <1>0, <2>1, <2>2, <2>3, <2>4 DEF Shape, clientVars
  <2>6. \A t \in Sockets \ {s} : SameConnection(t)
    BY <1>0, <2>2, <2>3 DEF Shape, SameConnection
  <2>7. pendingResumeChallenge'[s] \in {pendingResumeChallenge[s], x}
        /\ (Established(s) => pendingResumeChallenge'[s] = pendingResumeChallenge[s])
    BY <1>0, <2>3 DEF Shape
  <2>8. Verifying(s)' = Verifying(s)
    BY <2>1 DEF Verifying
  <2>9. ServerOK(s)'
    BY <1>0, <2>1, <2>2, <2>4, <2>7, <2>8 DEF ServerOK, Does, Keyed, Established
  <2>10. ASSUME NEW z, Carries(s, z) PROVE Carries(s, z)'
    <3>1. z = x
      BY <2>1, <2>10 DEF Carries
    <3> QED
      BY <2>1, <2>2, <2>4, <2>7, <2>10, <3>1 DEF Carries
  <2> QED
    BY <2>1, <2>2, <2>4, <2>5, <2>6, <2>9, <2>10 DEF ServerStep, Established
<1>2. ASSUME NEW of \in Sockets, HandleSrpResume(s, x, of) PROVE ServerStep(s)
  <2> DEFINE m == <<"srp_resume", x, of>>
             a == <<"srp_invalid">>
  <2>1. /\ UNCHANGED <<clientVars, due, socket>>
        /\ conn[s] = "open" /\ doing[s] = None /\ socket[s] # "connecting"
        /\ DOMAIN toServer' = Sockets
        /\ \A t \in Sockets : IsQueue(toServer'[t])
        /\ \A t \in Sockets \ {s} : toServer'[t] = toServer[t]
        /\ m \in Frames(toServer[s]) /\ Frames(toServer'[s]) \subseteq Frames(toServer[s])
    BY <1>2, HandledFrame DEF HandleSrpResume
  <2>2. /\ UNCHANGED <<conn, authState, serverKey>>
        /\ pendingResumeChallenge' = [pendingResumeChallenge EXCEPT ![s] = None]
    BY <1>2 DEF HandleSrpResume
  <2>3. \/ /\ pendingResumeChallenge[s] = x
           /\ doing' = [doing EXCEPT ![s] = <<"validate", x>>] /\ toClient' = toClient
        \/ doing' = doing /\ toClient' = Answered(s, a)
    BY <1>2 DEF HandleSrpResume
  <2>4. /\ DOMAIN toClient' = Sockets
        /\ \A t \in Sockets : IsQueue(toClient'[t])
        /\ \A t \in Sockets \ {s} : toClient'[t] = toClient[t]
        /\ Frames(toClient'[s]) \subseteq Frames(toClient[s]) \union {a}
    <3>1. CASE toClient' = toClient
      BY <1>0, <3>1 DEF Shape
    <3>2. CASE toClient' = Answered(s, a)
      BY <1>0, <3>2, AnsweredFrame
    <3> QED
      BY <2>3, <3>1, <3>2
  <2>5. Shape'
    BY <1>0, <2>1, <2>2, <2>3, <2>4 DEF Shape, clientVars
  <2>6. \A t \in Sockets \ {s} : SameConnection(t)
    BY <1>0, <2>2, <2>3 DEF Shape, SameConnection
  <2>7. /\ pendingResumeChallenge'[s] = None
        /\ \/ doing'[s] = <<"validate", x>> /\ ~Established(s)
           \/ doing'[s] = None
    BY <1>0, <2>1, <2>2, <2>3, NoneIsNone DEF Shape, ServerOK
  <2>8. Verifying(s)' = Verifying(s)
    BY <2>1 DEF Verifying
  <2>9. ServerOK(s)'
    BY <1>0, <2>1, <2>2, <2>4, <2>7, <2>8 DEF ServerOK, Does, Keyed, Established
  <2>10. ASSUME NEW z, Carries(s, z) PROVE Carries(s, z)'
    <3>1. z = x
      BY <2>1, <2>10 DEF Carries
    <3> QED
      BY <2>1, <2>4, <2>7, <2>10, <3>1 DEF Carries, Does
  <2> QED
    BY <2>1, <2>2, <2>4, <2>5, <2>6, <2>9, <2>10 DEF ServerStep, Established
<1> QED
  BY <1>1, <1>2

\* The two frames of the password's handshake.
LEMMA SrpCallsKeep ==
    ASSUME HandshakeInv, NEW s \in Sockets,
           HandleSrpHello(s) \/ \E of \in Sockets, good \in BOOLEAN : HandleSrpProof(s, of, good)
    PROVE  ServerStep(s)
<1>0. Shape /\ ServerOK(s)
  BY DEF HandshakeInv
<1>1. PICK m : Handles(s, m)
  BY DEF HandleSrpHello, HandleSrpProof
<1>2. /\ UNCHANGED <<clientVars, due, socket>>
      /\ conn[s] = "open" /\ doing[s] = None /\ socket[s] # "connecting"
      /\ DOMAIN toServer' = Sockets
      /\ \A t \in Sockets : IsQueue(toServer'[t])
      /\ \A t \in Sockets \ {s} : toServer'[t] = toServer[t]
      /\ Frames(toServer'[s]) \subseteq Frames(toServer[s])
  BY <1>1, HandledFrame
<1> DEFINE a == <<"srp_error">>
<1>3. /\ UNCHANGED <<authState, serverKey>>
      /\ conn' \in {conn, [conn EXCEPT ![s] = "closed"]}
      /\ pendingResumeChallenge' \in {pendingResumeChallenge,
                                      [pendingResumeChallenge EXCEPT ![s] = None]}
      /\ toClient' \in {toClient, Answered(s, a)}
      /\ \/ doing' = doing
         \/ /\ ~Established(s)
            /\ \/ doing' = [doing EXCEPT ![s] = <<"challenge", None>>]
               \/ \E b : doing' = [doing EXCEPT ![s] = <<"prove", b>>]
  <2>1. CASE HandleSrpHello(s)
    BY <2>1, Zenon DEF HandleSrpHello
  <2>2. ASSUME NEW of \in Sockets, NEW good \in BOOLEAN, HandleSrpProof(s, of, good)
        PROVE  <1>3!:
    <3>1. /\ UNCHANGED <<conn, serverKey, authState>>
          /\ \/ UNCHANGED <<pendingResumeChallenge, toClient>>
                /\ authState[s] = "srp_waiting_proof"
                /\ doing' = [doing EXCEPT ![s] = <<"prove", good /\ of = s>>]
             \/ /\ pendingResumeChallenge' = [pendingResumeChallenge EXCEPT ![s] = None]
                /\ toClient' = Answered(s, a) /\ doing' = doing
      BY <2>2, Zenon DEF HandleSrpProof
    <3>2. authState[s] = "srp_waiting_proof" => ~Established(s)
      BY DEF Established
    <3> QED
      BY <3>1, <3>2, Zenon
  <2> QED
    BY <2>1, <2>2
<1>4. /\ DOMAIN toClient' = Sockets
      /\ \A t \in Sockets : IsQueue(toClient'[t])
      /\ \A t \in Sockets \ {s} : toClient'[t] = toClient[t]
      /\ Frames(toClient'[s]) \subseteq Frames(toClient[s]) \union {a}
  <2>1. CASE toClient' = toClient
    BY <1>0, <2>1 DEF Shape
  <2>2. CASE toClient' = Answered(s, a)
    BY <1>0, <2>2, AnsweredFrame
  <2> QED
    BY <1>3, <2>1, <2>2
<1>5. Shape'
  BY <1>0, <1>2, <1>3, <1>4 DEF Shape, clientVars
<1>6. \A t \in Sockets \ {s} : SameConnection(t)
  BY <1>0, <1>3 DEF Shape, SameConnection
<1>7. /\ conn'[s] \in {"open", "closed"}
      /\ pendingResumeChallenge'[s] \in {pendingResumeChallenge[s], None}
      /\ \/ doing'[s] = None
         \/ ~Established(s) /\ doing'[s][1] \in {"challenge", "prove"}
  BY <1>0, <1>2, <1>3 DEF Shape
<1>8. Verifying(s)' = Verifying(s)
  BY <1>2 DEF Verifying
<1>9. ServerOK(s)'
  BY <1>0, <1>2, <1>3, <1>4, <1>7, <1>8 DEF ServerOK, Does, Keyed, Established
<1>10. ASSUME NEW z, Carries(s, z) PROVE Carries(s, z)'
  BY <1>2, <1>4, <1>7, <1>10 DEF Carries, Does
<1> QED
  BY <1>2, <1>3, <1>4, <1>5, <1>6, <1>7, <1>9, <1>10 DEF ServerStep, Established

\* A handler goes on after an await.
LEMMA AwaitedHandler ==
    ASSUME HandshakeInv, NEW s \in Sockets, NEW what, Awaited(s, what)
    PROVE  /\ UNCHANGED <<clientVars, due, socket, toServer>>
           /\ socket[s] # "connecting" /\ Does(doing[s], {what})
           /\ Verifying(s)' = Verifying(s)
<1>1. ConnectingOK(s)
  BY DEF HandshakeInv
<1>2. due' = due
  BY DEF Awaited, attemptVars
<1> QED
  BY <1>1, <1>2 DEF Awaited, attemptVars, ConnectingOK, Does, Verifying

\* The saves of a resumption: before the connection is established, and after.
LEMMA ResumeAwaitsKeep ==
    ASSUME HandshakeInv, NEW s \in Sockets, Validated(s) \/ Resumed(s)
    PROVE  ServerStep(s)
<1>0. Shape /\ ServerOK(s)
  BY DEF HandshakeInv
<1> DEFINE x == doing[s][2]
           a == <<"srp_invalid">>
           b == <<"srp_resumed", x>>
<1>1. PICK what \in {"validate", "resume"} : Awaited(s, what)
  BY DEF Validated, Resumed
<1>2. /\ UNCHANGED <<clientVars, due, socket, toServer>>
      /\ socket[s] # "connecting" /\ Does(doing[s], {what})
      /\ Verifying(s)' = Verifying(s)
  BY <1>1, AwaitedHandler
<1>3. pendingResumeChallenge[s] = None
  BY <1>0, <1>2 DEF ServerOK, Does
<1>4. CASE Validated(s)
  <2>1. Does(doing[s], {"validate"}) /\ UNCHANGED <<conn, pendingResumeChallenge>>
    BY <1>4 DEF Validated, Awaited, Does
  <2>2. ~Established(s)
    BY <1>0, <2>1 DEF ServerOK, Does
  <2>3. CASE /\ serverKey' = [serverKey EXCEPT ![s] = <<x, s>>]
             /\ authState' = [authState EXCEPT ![s] = "authenticated"]
             /\ doing' = [doing EXCEPT ![s] = <<"resume", x>>]
             /\ toClient' = toClient
    <3>1. Shape'
      BY <1>0, <1>2, <2>1, <2>3 DEF Shape, clientVars
    <3>2. \A t \in Sockets \ {s} : SameConnection(t)
      BY <1>0, <2>1, <2>3 DEF Shape, SameConnection
    <3>3. serverKey'[s] = <<x, s>> /\ authState'[s] = "authenticated" /\ doing'[s] = <<"resume", x>>
      BY <1>0, <2>3 DEF Shape
    <3>4. x \in SessionIds /\ <<x, s>> # None
      BY <1>0, <2>1, NoneIsNone DEF ServerOK
    <3>5. Established(s)' /\ Keyed(s, x)'
      BY <3>3, <3>4 DEF Established, Keyed
    <3>6. ASSUME conn'[s] = "open"
          PROVE  /\ \A m \in Frames(toClient'[s]) : m[1] \notin {"srp_resumed", "srp_verify"}
                 /\ Verifying(s)' = {}
      BY <1>0, <1>2, <2>1, <2>2, <2>3, <3>6 DEF ServerOK, Keyed
    <3>7. ServerOK(s)'
      BY <1>3, <2>1, <3>3, <3>5, <3>6 DEF ServerOK, Does, Keyed
    <3>8. ASSUME NEW z, Carries(s, z) PROVE Carries(s, z)'
      BY <1>2, <2>1, <2>3, <3>3, <3>8 DEF Carries, Does
    <3> QED
      BY <1>2, <2>1, <2>2, <2>3, <3>1, <3>2, <3>7, <3>8 DEF ServerStep
  <2>4. CASE /\ UNCHANGED <<serverKey, authState>>
             /\ doing' = [doing EXCEPT ![s] = None]
             /\ toClient' = Answered(s, a)
    <3>1. /\ DOMAIN toClient' = Sockets
          /\ \A t \in Sockets : IsQueue(toClient'[t])
          /\ \A t \in Sockets \ {s} : toClient'[t] = toClient[t]
          /\ Frames(toClient'[s]) \subseteq Frames(toClient[s]) \union {a}
      BY <1>0, <2>4, AnsweredFrame
    <3>2. Shape'
      BY <1>0, <1>2, <2>1, <2>4, <3>1 DEF Shape, clientVars
    <3>3. \A t \in Sockets \ {s} : SameConnection(t)
      BY <1>0, <2>1, <2>4 DEF Shape, SameConnection
    <3>4. doing'[s] = None
      BY <1>0, <2>4 DEF Shape
    <3>5. ServerOK(s)'
      BY <1>0, <1>2, <1>3, <2>1, <2>4, <3>1, <3>4 DEF ServerOK, Does, Keyed, Established
    <3>6. ASSUME NEW z, Carries(s, z) PROVE Carries(s, z)'
      BY <1>2, <2>1, <3>1, <3>4, <3>6 DEF Carries, Does
    <3> QED
      BY <1>2, <2>1, <2>4, <3>1, <3>2, <3>3, <3>5, <3>6 DEF ServerStep, Established
  <2> QED
    BY <1>4, <2>3, <2>4 DEF Validated
<1>5. CASE Resumed(s)
  <2>1. /\ Does(doing[s], {"resume"})
        /\ UNCHANGED <<conn, pendingResumeChallenge, serverKey, authState>>
        /\ doing' = [doing EXCEPT ![s] = None]
    BY <1>5 DEF Resumed, Awaited, Does
  <2>2. PICK m \in {a, b} : toClient' = Answered(s, m)
    BY <1>5 DEF Resumed
  <2>3. Keyed(s, x)
    BY <1>0, <2>1 DEF ServerOK, Does
  <2>4. /\ DOMAIN toClient' = Sockets
        /\ \A t \in Sockets : IsQueue(toClient'[t])
        /\ \A t \in Sockets \ {s} : toClient'[t] = toClient[t]
        /\ Frames(toClient'[s]) \subseteq Frames(toClient[s]) \union {m}
    BY <1>0, <2>2, AnsweredFrame
  <2>5. Shape'
    BY <1>0, <1>2, <2>1, <2>4 DEF Shape, clientVars
  <2>6. \A t \in Sockets \ {s} : SameConnection(t)
    BY <1>0, <2>1 DEF Shape, SameConnection
  <2>7. doing'[s] = None
    BY <1>0, <2>1 DEF Shape
  <2>8. \A n \in Frames(toClient'[s]) : n[1] \in {"srp_resumed", "srp_verify"} => Keyed(s, n[2])
    BY <1>0, <2>2, <2>3, <2>4 DEF ServerOK
  <2>9. ServerOK(s)'
    BY <1>0, <1>2, <1>3, <2>1, <2>7, <2>8 DEF ServerOK, Does, Keyed, Established
  <2>10. ASSUME NEW z, Carries(s, z) PROVE Carries(s, z)'
    BY <1>2, <2>1, <2>2, <2>4, <2>7, <2>10 DEF Carries, Does
  <2> QED
    BY <1>2, <2>1, <2>4, <2>5, <2>6, <2>9, <2>10 DEF ServerStep, Established
<1> QED
  BY <1>4, <1>5

\* The password's handshake: after the challenge is made, the proof checked, and the
\* session saved.
LEMMA SrpAwaitsKeep ==
    ASSUME HandshakeInv, NEW s \in Sockets, Challenged(s) \/ Proved(s) \/ Created(s)
    PROVE  ServerStep(s)
<1>0. Shape /\ ServerOK(s)
  BY DEF HandshakeInv
<1>1. PICK what \in {"challenge", "prove", "create"} : Awaited(s, what)
  BY DEF Challenged, Proved, Created
<1>2. /\ UNCHANGED <<clientVars, due, socket, toServer>>
      /\ socket[s] # "connecting" /\ Does(doing[s], {what})
      /\ Verifying(s)' = Verifying(s)
  BY <1>1, AwaitedHandler
<1>3. ASSUME ~Established(s), conn[s] = "open"
      PROVE  /\ \A m \in Frames(toClient[s]) : m[1] \notin {"srp_resumed", "srp_verify"}
             /\ Verifying(s) = {}
  BY <1>0, <1>3 DEF ServerOK, Keyed
<1>4. CASE Challenged(s)
  <2>1. /\ UNCHANGED <<conn, pendingResumeChallenge, serverKey>>
        /\ doing' = [doing EXCEPT ![s] = None]
        /\ authState' = [authState EXCEPT ![s] = "srp_waiting_proof"]
        /\ Does(doing[s], {"challenge"})
    BY <1>4 DEF Challenged, Awaited, Does
  <2> DEFINE a == <<"srp_challenge", password = "right">>
  <2>2. /\ DOMAIN toClient' = Sockets
        /\ \A t \in Sockets : IsQueue(toClient'[t])
        /\ \A t \in Sockets \ {s} : toClient'[t] = toClient[t]
        /\ Frames(toClient'[s]) \subseteq Frames(toClient[s]) \union {a}
    <3>1. toClient' = Answered(s, a)
      BY <1>4, Zenon DEF Challenged
    <3> HIDE DEF a
    <3> QED
      BY <1>0, <3>1, AnsweredFrame
  <2>3. a[1] = "srp_challenge"
    OBVIOUS
  <2> HIDE DEF a
  <2>4. Shape'
    BY <1>0, <1>2, <2>1, <2>2 DEF Shape, clientVars
  <2>5. \A t \in Sockets \ {s} : SameConnection(t)
    BY <1>0, <2>1 DEF Shape, SameConnection
  <2>6. doing'[s] = None /\ ~Established(s) /\ ~Established(s)'
    BY <1>0, <2>1 DEF Shape, ServerOK, Does, Established
  <2>7. ServerOK(s)'
    BY <1>0, <1>2, <1>3, <2>1, <2>2, <2>3, <2>6 DEF ServerOK, Does, Keyed
  <2>8. ASSUME NEW z, Carries(s, z) PROVE Carries(s, z)'
    BY <1>2, <2>1, <2>2, <2>3, <2>6, <2>8 DEF Carries, Does
  <2> QED
    BY <1>2, <2>1, <2>2, <2>4, <2>5, <2>6, <2>7, <2>8 DEF ServerStep
<1>5. CASE Proved(s)
  <2>1. /\ Does(doing[s], {"prove"})
        /\ pendingResumeChallenge' = [pendingResumeChallenge EXCEPT ![s] = None]
    BY <1>5 DEF Proved, Awaited, Does
  <2>2. ~Established(s)
    BY <1>0, <2>1 DEF ServerOK, Does
  <2>3. ASSUME NEW x \in SessionIds,
               /\ serverKey' = [serverKey EXCEPT ![s] = <<x, s>>]
               /\ authState' = [authState EXCEPT ![s] = "authenticated"]
               /\ doing' = [doing EXCEPT ![s] = <<"create", x>>]
               /\ UNCHANGED <<conn, toClient>>
        PROVE  ServerStep(s)
    <3>1. Shape'
      BY <1>0, <1>2, <2>1, <2>3 DEF Shape, clientVars
    <3>2. \A t \in Sockets \ {s} : SameConnection(t)
      BY <1>0, <2>1, <2>3 DEF Shape, SameConnection
    <3>3. /\ serverKey'[s] = <<x, s>> /\ authState'[s] = "authenticated"
          /\ doing'[s] = <<"create", x>> /\ pendingResumeChallenge'[s] = None
      BY <1>0, <2>1, <2>3 DEF Shape
    <3>4. Established(s)' /\ Keyed(s, x)'
      BY <3>3, NoneIsNone DEF Established, Keyed
    <3>5. ServerOK(s)'
      BY <1>2, <1>3, <2>2, <2>3, <3>3, <3>4 DEF ServerOK, Does, Keyed
    <3>6. ASSUME NEW z, Carries(s, z) PROVE Carries(s, z)'
      BY <1>2, <2>3, <3>3, <3>6 DEF Carries, Does
    <3> QED
      BY <1>2, <2>2, <2>3, <3>1, <3>2, <3>5, <3>6 DEF ServerStep
  <2>4. CASE /\ doing' = [doing EXCEPT ![s] = None]
             /\ authState' = [authState EXCEPT ![s] = "unauthenticated"]
             /\ toClient' = Answered(s, <<"srp_error">>)
             /\ conn' = [conn EXCEPT ![s] = "closed"]
             /\ serverKey' = serverKey
    <3>1. /\ DOMAIN toClient' = Sockets
          /\ \A t \in Sockets : IsQueue(toClient'[t])
          /\ \A t \in Sockets \ {s} : toClient'[t] = toClient[t]
          /\ Frames(toClient'[s]) \subseteq Frames(toClient[s]) \union {<<"srp_error">>}
      BY <1>0, <2>4, AnsweredFrame
    <3>2. Shape'
      BY <1>0, <1>2, <2>1, <2>4, <3>1 DEF Shape, clientVars
    <3>3. \A t \in Sockets \ {s} : SameConnection(t)
      BY <1>0, <2>1, <2>4 DEF Shape, SameConnection
    <3>4. /\ doing'[s] = None /\ conn'[s] = "closed" /\ pendingResumeChallenge'[s] = None
      BY <1>0, <2>1, <2>4 DEF Shape
    <3>5. ServerOK(s)'
      BY <3>4 DEF ServerOK, Does, Keyed
    <3>6. ASSUME NEW z, Carries(s, z) PROVE Carries(s, z)'
      BY <1>2, <3>1, <3>4, <3>6 DEF Carries, Does
    <3> QED
      BY <1>2, <3>1, <3>2, <3>3, <3>4, <3>5, <3>6 DEF ServerStep
  <2>5. \/ \E x \in SessionIds :
              /\ serverKey' = [serverKey EXCEPT ![s] = <<x, s>>]
              /\ authState' = [authState EXCEPT ![s] = "authenticated"]
              /\ doing' = [doing EXCEPT ![s] = <<"create", x>>]
              /\ UNCHANGED <<conn, toClient>>
        \/ /\ doing' = [doing EXCEPT ![s] = None]
           /\ authState' = [authState EXCEPT ![s] = "unauthenticated"]
           /\ toClient' = Answered(s, <<"srp_error">>)
           /\ conn' = [conn EXCEPT ![s] = "closed"]
           /\ serverKey' = serverKey
    <3>1. NewSession \subseteq SessionIds
      BY DEF NewSession
    <3> QED
      BY <1>5, <3>1, Zenon DEF Proved
  <2> QED
    BY <2>3, <2>4, <2>5
<1>6. CASE Created(s)
  <2> DEFINE x == doing[s][2]
  <2>1. /\ Does(doing[s], {"create"})
        /\ UNCHANGED <<pendingResumeChallenge, serverKey, authState>>
        /\ doing' = [doing EXCEPT ![s] = None]
        /\ conn' \in {conn, [conn EXCEPT ![s] = "closed"]}
    BY <1>6 DEF Created, Awaited, Does
  <2>2. PICK m \in {<<"srp_verify", x>>, <<"srp_error">>} : toClient' = Answered(s, m)
    BY <1>6 DEF Created
  <2>3. Keyed(s, x) /\ pendingResumeChallenge[s] = None
    BY <1>0, <2>1 DEF ServerOK, Does
  <2>4. /\ DOMAIN toClient' = Sockets
        /\ \A t \in Sockets : IsQueue(toClient'[t])
        /\ \A t \in Sockets \ {s} : toClient'[t] = toClient[t]
        /\ Frames(toClient'[s]) \subseteq Frames(toClient[s]) \union {m}
    BY <1>0, <2>2, AnsweredFrame
  <2>5. Shape'
    BY <1>0, <1>2, <2>1, <2>4 DEF Shape, clientVars
  <2>6. \A t \in Sockets \ {s} : SameConnection(t)
    BY <1>0, <2>1 DEF Shape, SameConnection
  <2>7. doing'[s] = None /\ conn'[s] \in {conn[s], "closed"}
    BY <1>0, <2>1 DEF Shape
  <2>8. \A n \in Frames(toClient'[s]) : n[1] \in {"srp_resumed", "srp_verify"} => Keyed(s, n[2])
    BY <1>0, <2>2, <2>3, <2>4 DEF ServerOK
  <2>9. ServerOK(s)'
    BY <1>0, <1>2, <2>1, <2>3, <2>7, <2>8 DEF ServerOK, Does, Keyed, Established
  <2>10. ASSUME NEW z, Carries(s, z) PROVE Carries(s, z)'
    BY <1>2, <2>1, <2>2, <2>4, <2>7, <2>10 DEF Carries, Does
  <2> QED
    BY <1>2, <2>1, <2>4, <2>5, <2>6, <2>7, <2>9, <2>10 DEF ServerStep, Established
<1> QED
  BY <1>4, <1>5, <1>6

\* The server gives a connection up: no proof came, or its socket is closed.
LEMMA ForgettingKeeps ==
    ASSUME HandshakeInv, NEW s \in Sockets, HandshakeTimeout(s) \/ ServerSeesClose(s)
    PROVE  ServerStep(s)
<1>0. Shape /\ ConnectingOK(s)
  BY DEF HandshakeInv
<1>1. /\ UNCHANGED <<clientVars, due, doing, socket, toClient>>
      /\ toServer' \in {toServer, [toServer EXCEPT ![s] = <<>>]}
      /\ conn[s] = "open" /\ Forgotten(s)
  BY DEF HandshakeTimeout, ServerSeesClose, attemptVars, netVars
<1>2. /\ conn' = [conn EXCEPT ![s] = "closed"]
      /\ pendingResumeChallenge' = [pendingResumeChallenge EXCEPT ![s] = None]
      /\ serverKey' = [serverKey EXCEPT ![s] = None]
      /\ DOMAIN authState' = Sockets
      /\ \A t \in Sockets \ {s} : authState'[t] = authState[t]
  BY <1>0, <1>1 DEF Forgotten, Shape
<1>3. socket[s] # "connecting"
  BY <1>0, <1>1 DEF ConnectingOK
<1>4. Shape'
  BY <1>0, <1>1, <1>2, EmptyQueue DEF Shape, clientVars
<1>5. \A t \in Sockets \ {s} : SameConnection(t) /\ toServer'[t] = toServer[t]
  BY <1>0, <1>1, <1>2 DEF Shape, SameConnection
<1>6. conn'[s] = "closed" /\ pendingResumeChallenge'[s] = None /\ serverKey'[s] = None
  BY <1>0, <1>2 DEF Shape
<1>7. ServerOK(s)'
  BY <1>0, <1>1, <1>6 DEF HandshakeInv, ServerOK, Does, Keyed, Established
<1>8. ASSUME NEW z, Carries(s, z) PROVE Carries(s, z)'
  <2>1. Frames(toServer'[s]) \subseteq Frames(toServer[s])
    BY <1>0, <1>1, EmptyQueue DEF Shape
  <2> QED
    BY <1>1, <1>6, <1>8, <2>1 DEF Carries, Does
<1> QED
  BY <1>1, <1>3, <1>4, <1>5, <1>6, <1>7, <1>8 DEF ServerStep

\* A restart leaves no connection open.
LEMMA RestartKeeps ==
    ASSUME HandshakeInv, Restart
    PROVE  HandshakeInv'
<1>0. Shape
  BY DEF HandshakeInv
<1>1. /\ UNCHANGED <<ws, sessionKey, storedSession, connectionState, due, socket, toClient>>
      /\ conn' = [s \in Sockets |-> IF conn[s] = "open" THEN "closed" ELSE conn[s]]
      /\ toServer' = [s \in Sockets |-> <<>>]
      /\ authState' = [s \in Sockets |-> "unauthenticated"]
      /\ serverKey' = [s \in Sockets |-> None]
      /\ pendingResumeChallenge' = [s \in Sockets |-> None]
      /\ doing' = [s \in Sockets |-> None]
  BY DEF Restart, Changes, attemptVars
<1>2. Shape'
  BY <1>0, <1>1, EmptyQueue DEF Shape
<1>3. \A s \in Sockets : Verifying(s)' = Verifying(s)
  BY <1>1 DEF Verifying
<1>4. ASSUME NEW s \in Sockets PROVE ServerOK(s)' /\ ConnectingOK(s)'
  <2>1. /\ conn'[s] # "open" /\ (conn[s] = "none" => conn'[s] = "none")
        /\ pendingResumeChallenge'[s] = None /\ doing'[s] = None /\ serverKey'[s] = None
        /\ toServer'[s] = <<>>
    BY <1>1
  <2>2. ServerOK(s)'
    BY <2>1 DEF ServerOK, Does, Keyed, Established
  <2>3. ConnectingOK(s)'
    BY <1>1, <1>3, <2>1 DEF HandshakeInv, ConnectingOK, Established
  <2> QED
    BY <2>2, <2>3
<1>5. ResumptionOK'
  BY <1>1, EmptyQueue DEF HandshakeInv, ResumptionOK, Carries, Does
<1>6. KeyOK'
  BY <1>1 DEF HandshakeInv, KeyOK
<1> QED
  BY <1>2, <1>4, <1>5, <1>6 DEF HandshakeInv

\* Revoked sessions and new credentials do not reach an open connection.
LEMMA ChangesKeep ==
    ASSUME HandshakeInv, ChangeCredentials \/ \E x \in SessionIds : Revoke(x)
    PROVE  ClientStep
<1>0. Shape
  BY DEF HandshakeInv
<1>1. UNCHANGED <<ws, sessionKey, storedSession, connectionState, due, socket, toClient, toServer,
                  serverVars>>
  BY DEF ChangeCredentials, Revoke, Changes, attemptVars
<1>2. DOMAIN socket' = Sockets
  BY <1>0, <1>1 DEF Shape
<1> QED
  BY <1>0, <1>1, <1>2, NoneSent, NoneTaken, QuietClientStep

--------------------------------------------------------------------------------
(***************************************************************************)
(* The theorems.                                                           *)
(***************************************************************************)
\* At first nothing is under way.
LEMMA InitEstablishes ==
    ASSUME Init
    PROVE  HandshakeInv
<1>1. Shape
  <2>1. (CHOOSE y \in SessionIds : TRUE) \in SessionIds
    BY HandshakeAssumption
  <2>2. storedSession \in MaybeSession
    BY <2>1 DEF Init, MaybeSession
  <2> QED
    BY <2>2, EmptyQueue DEF Init, Shape, MaybeSocket
<1>2. ASSUME NEW s \in Sockets PROVE ServerOK(s) /\ ConnectingOK(s)
  BY EmptyQueue DEF Init, ServerOK, ConnectingOK, Does, Keyed, Established, Verifying
<1>3. ResumptionOK /\ KeyOK
  BY DEF Init, ResumptionOK, KeyOK, Resuming
<1> QED
  BY <1>1, <1>2, <1>3 DEF HandshakeInv

\* A step that changes nothing.
LEMMA StutterKeeps ==
    ASSUME HandshakeInv, UNCHANGED vars
    PROVE  HandshakeInv'
  BY DEF HandshakeInv, vars, clientVars, attemptVars, serverVars, netVars, Shape, ServerOK,
         ConnectingOK, ResumptionOK, KeyOK, Keyed, Established, Verifying, Carries

\* Every step keeps the invariant.
LEMMA StepKeeps ==
    ASSUME HandshakeInv, [Next]_vars
    PROVE  HandshakeInv'
<1>1. ASSUME NEW s \in Sockets, Open(s) PROVE HandshakeInv'
  BY <1>1, OpenKeeps
<1>2. ASSUME NEW s \in Sockets,
             \/ \E x \in SessionIds : TakeResumeChallenge(s, x)
             \/ TakeInvalid(s) \/ TakeUnexpected(s) \/ Drop(s)
      PROVE  HandshakeInv'
  BY <1>2, ResumeAnswersKeep, ClientStepKeeps
<1>3. ASSUME NEW s \in Sockets,
             \/ \E x \in SessionIds : TakeResumed(s, x) \/ TakeVerify(s, x)
             \/ \E good \in BOOLEAN : TakeSrpChallenge(s, good)
      PROVE  HandshakeInv'
  BY <1>3, EstablishingAnswersKeep, ClientStepKeeps
<1>4. ASSUME NEW d \in due, HelloDue(d) \/ ProofDue(d) \/ VerifyDue(d) PROVE HandshakeInv'
  BY <1>4, DuesKeep, ClientStepKeeps
<1>5. ASSUME NEW s \in Sockets, Closed(s) \/ ConnectTimeout(s) \/ ResumeTimeout(s)
      PROVE  HandshakeInv'
  BY <1>5, EndsKeep, ClientStepKeeps
<1>6. ASSUME NEW s \in Sockets, NEW x \in SessionIds,
             HandleSrpResumeInit(s, x) \/ \E of \in Sockets : HandleSrpResume(s, x, of)
      PROVE  HandshakeInv'
  BY <1>6, ResumeCallsKeep, ServerStepKeeps
<1>7. ASSUME NEW s \in Sockets,
             HandleSrpHello(s) \/ \E of \in Sockets, good \in BOOLEAN : HandleSrpProof(s, of, good)
      PROVE  HandshakeInv'
  BY <1>7, SrpCallsKeep, ServerStepKeeps
<1>8. ASSUME NEW s \in Sockets, Validated(s) \/ Resumed(s) PROVE HandshakeInv'
  BY <1>8, ResumeAwaitsKeep, ServerStepKeeps
<1>9. ASSUME NEW s \in Sockets, Challenged(s) \/ Proved(s) \/ Created(s) PROVE HandshakeInv'
  BY <1>9, SrpAwaitsKeep, ServerStepKeeps
<1>10. ASSUME NEW s \in Sockets, HandshakeTimeout(s) \/ ServerSeesClose(s) PROVE HandshakeInv'
  BY <1>10, ForgettingKeeps, ServerStepKeeps
<1>11. CASE SystemStep
  BY <1>11, <1>1, <1>2, <1>3, <1>4, <1>5, <1>6, <1>7, <1>8, <1>9, <1>10 DEF SystemStep
<1>12. CASE EnsureConnected \/ ForceReconnect
  BY <1>12, ConnectKeeps
<1>13. CASE ChangeCredentials \/ \E x \in SessionIds : Revoke(x)
  BY <1>13, ChangesKeep, ClientStepKeeps
<1> QED
  BY <1>11, <1>12, <1>13, RestartKeeps, StutterKeeps DEF Next

\* However attempts overlap, a connection's handlers find it as they left it, what the
\* server said of a connection is true, and what a client that is up takes for the key
\* of the socket in use is the server's.
THEOREM HandshakeInductive == Spec => []HandshakeInv
<1>1. Init => HandshakeInv
  BY InitEstablishes
<1>2. HandshakeInv /\ [Next]_vars => HandshakeInv'
  BY StepKeeps
<1> QED
  BY <1>1, <1>2, PTL DEF Spec

\* A client that is up has a key, and when it is one of the socket in use, the server
\* has established that connection under it as long as it is open there: whatever
\* overlaps, is lost, cut, late, revoked or restarted, and however many sockets and
\* sessions there are.
THEOREM KeysAlwaysAgree == Spec => []KeysAgree
<1>1. HandshakeInv => KeysAgree
  BY DEF HandshakeInv, Shape, KeyOK, KeysAgree, Connected, MaybeSocket
<1> QED
  BY <1>1, HandshakeInductive, PTL

\* An answer of the server that says a connection is established under a session's key
\* is true until the client reads it or the connection closes.
THEOREM AnswersAlwaysHold == Spec => []AnswersHold
<1>1. ASSUME HandshakeInv PROVE AnswersHold
  <2> SUFFICES ASSUME NEW s \in Sockets, NEW x \in SessionIds, conn[s] = "open",
                      NEW m \in Frames(toClient[s]),
                      m \in {<<"srp_resumed", x>>, <<"srp_verify", x>>}
               PROVE  Established(s) /\ serverKey[s] = <<x, s>>
    BY DEF AnswersHold, Frames
  <2>1. Keyed(s, x)
    BY <1>1 DEF HandshakeInv, ServerOK
  <2> QED
    BY <2>1 DEF Keyed
<1> QED
  BY <1>1, HandshakeInductive, PTL

================================================================================
