---------------------------- MODULE SecureHandshake ----------------------------
(***************************************************************************)
(* How a remote client's SecureConnection and the server's SRP handlers    *)
(* come to share a traffic key, in direct mode: resuming a stored session, *)
(* or the full handshake with the password, on a new WebSocket; with the   *)
(* 5-second timeout of the resume phase, the 30-second one of the attempt, *)
(* sockets that fail, sessions that are revoked and servers that restart.  *)
(*                                                                         *)
(* Every attempt has one socket, after which it is named. An action is one *)
(* callback up to its next await; what a callback still has to do after an *)
(* await is in `due' (client) and `doing' (server). SRP and encryption are *)
(* ideal: a base key is named after the session it is stored under, and a  *)
(* traffic key is a base key with the socket its nonce was issued on.      *)
(***************************************************************************)
EXTENDS Naturals, Sequences, FiniteSets

CONSTANTS
    Sockets,       \* WebSockets that may exist at once
    SessionIds,    \* sessions that may be referred to at once
    None,
    Passwords,     \* what the client may know of the password: none, right
    MaxMishaps     \* bound: sockets cut, saves that fail, answers slower than a timeout,
                   \* sessions revoked, credentials changed, restarts, forced reconnects

ASSUME HandshakeAssumption ==
    /\ None \notin Sockets \union SessionIds \union (SessionIds \X Sockets)
    /\ SessionIds # {}
    /\ Passwords \subseteq {"none", "right"}
    /\ MaxMishaps \in Nat

VARIABLES
    connectionState, ws, sessionKey, storedSession,
    srpSession,         \* <<what, socket>>: the start that made it; then the socket whose
                        \* challenge it answered
    password,           \* none, right, or wrong since the credentials changed
    connectionPromise,  \* the attempt that ensureConnected waits for
    promise,            \* of an attempt: pending; hung, with no timer left to settle it;
                        \* late, when only its authPromise is unsettled; or done
    resumeTimer,        \* sockets whose resume timeout is armed
    handler,            \* what a socket calls: auth, message, or none
    due,                \* <<what, socket, with>>: continuations of awaits
    socket,             \* readyState: free stands for closed too
    toServer, toClient, \* frames in flight
    conn,               \* the server's end: none, open or closed
    authState, serverKey, pendingResumeChallenge,
    doing,              \* <<what, with>>: the await of the server's handler, or None
    sessions,           \* RemoteSessionService.state.sessions
    mishaps

clientVars == <<connectionState, ws, sessionKey, storedSession, srpSession, password>>
attemptVars == <<connectionPromise, promise, resumeTimer, handler, due>>
serverVars == <<conn, authState, serverKey, pendingResumeChallenge, doing>>
netVars == <<socket, toServer, toClient>>
vars == <<clientVars, attemptVars, serverVars, netVars, sessions, mishaps>>

MaybeSocket == Sockets \union {None}
MaybeSession == SessionIds \union {None}
Keys == SessionIds \X Sockets

TypeOK ==
    /\ connectionState \in {"disconnected", "connecting", "srp_resume_init_sent",
                            "srp_resume_proof_sent", "srp_hello_sent", "srp_proof_sent",
                            "authenticated", "failed"}
    /\ {ws, connectionPromise} \subseteq MaybeSocket
    /\ sessionKey \in Keys \union {None}
    /\ storedSession \in MaybeSession
    /\ srpSession \in MaybeSocket \union ({"hello", "lateHello"} \X Sockets)
    /\ password \in {"none", "right", "wrong"}
    /\ promise \in [Sockets -> {"none", "pending", "hung", "late", "done"}]
    /\ resumeTimer \subseteq Sockets
    /\ handler \in [Sockets -> {"none", "auth", "message"}]
    /\ {<<d[1], d[2]>> : d \in due} \subseteq {"hello", "lateHello", "proof", "verify"} \X Sockets
    /\ socket \in [Sockets -> {"free", "connecting", "open", "closing"}]
    /\ conn \in [Sockets -> {"none", "open", "closed"}]
    /\ authState \in [Sockets -> {"unauthenticated", "srp_waiting_proof", "authenticated"}]
    /\ serverKey \in [Sockets -> Keys \union {None}]
    /\ pendingResumeChallenge \in [Sockets -> MaybeSession]
    /\ sessions \subseteq SessionIds
    /\ mishaps \in 0..MaxMishaps

Init ==
    /\ connectionState = "disconnected"
    /\ ws = None /\ sessionKey = None /\ srpSession = None
    /\ password \in Passwords
    /\ LET x == CHOOSE y \in SessionIds : TRUE
       IN storedSession \in {x, None} /\ sessions \in {{x}, {}}
    /\ password = "none" => storedSession # None
    /\ connectionPromise = None
    /\ promise = [s \in Sockets |-> "none"]
    /\ resumeTimer = {} /\ due = {}
    /\ handler = [s \in Sockets |-> "none"]
    /\ socket = [s \in Sockets |-> "free"]
    /\ toServer = [s \in Sockets |-> <<>>]
    /\ toClient = [s \in Sockets |-> <<>>]
    /\ conn = [s \in Sockets |-> "none"]
    /\ authState = [s \in Sockets |-> "unauthenticated"]
    /\ serverKey = [s \in Sockets |-> None]
    /\ pendingResumeChallenge = [s \in Sockets |-> None]
    /\ doing = [s \in Sockets |-> None]
    /\ mishaps = 0

--------------------------------------------------------------------------------
(***************************************************************************)
(* Frames, closes and promises.                                            *)
(***************************************************************************)
\* Something goes wrong.
Mishap ==
    /\ mishaps < MaxMishaps
    /\ mishaps' = mishaps + 1

\* socket.close() of t, if there is one.
Closing(t) ==
    [x \in Sockets |-> IF x = t /\ socket[x] # "free" THEN "closing" ELSE socket[x]]

\* this.ws?.send(m).
Sent(m) ==
    [x \in Sockets |-> IF x = ws /\ socket[x] = "open" /\ conn[x] = "open"
                         THEN Append(toServer[x], m) ELSE toServer[x]]

\* The server answers m on s.
Answered(s, m) ==
    [toClient EXCEPT ![s] = IF conn[s] = "open" THEN Append(@, m) ELSE @]

\* authPromise of the attempts S settles: its timers are cleared, and what ensureConnected
\* waited for clears connectionPromise, even when that is a newer one. The resume
\* timeouts were `timers'.
Settle(S, timers) ==
    /\ promise' = [p \in Sockets |-> IF p \in S /\ promise[p] # "none" THEN "done" ELSE promise[p]]
    /\ connectionPromise' = IF \E p \in S : promise[p] \in {"pending", "hung"}
                              THEN None ELSE connectionPromise
    /\ resumeTimer' = timers \ {p \in S : promise[p] # "done"}

\* The attempt fails, and the socket t is closed.
Fail(s, t, timers) ==
    /\ connectionState' = "failed"
    /\ Settle({s}, timers)
    /\ socket' = Closing(t)

\* startFullSrpHandshake up to its await.
StartFullSrp(s, what) ==
    /\ srpSession' = <<what, s>>
    /\ due' = due \union {<<what, s, None>>}

FreeSockets ==
    {s \in Sockets : /\ socket[s] = "free" /\ conn[s] # "open" /\ doing[s] = None
                     /\ promise[s] \notin {"pending", "hung"} /\ s \notin resumeTimer
                     /\ \A d \in due : d[2] # s}

\* connectAndAuthenticate, when the sockets are as in `sockets' and the handlers `handlers'.
Connect(sockets, handlers) ==
    /\ FreeSockets # {}
    /\ LET s == CHOOSE t \in FreeSockets : TRUE
       IN /\ socket' = [sockets EXCEPT ![s] = "connecting"]
          /\ handler' = [handlers EXCEPT ![s] = "auth"]
          /\ promise' = [promise EXCEPT ![s] = "pending"]
          /\ connectionPromise' = s
          /\ conn' = [conn EXCEPT ![s] = "none"]
          /\ authState' = [authState EXCEPT ![s] = "unauthenticated"]
          /\ serverKey' = [serverKey EXCEPT ![s] = None]
          /\ pendingResumeChallenge' = [pendingResumeChallenge EXCEPT ![s] = None]
          /\ toServer' = [toServer EXCEPT ![s] = <<>>]
          /\ toClient' = [toClient EXCEPT ![s] = <<>>]
    /\ connectionState' = "connecting"
    /\ UNCHANGED <<sessionKey, storedSession, srpSession, password, resumeTimer, due, doing,
                   sessions>>

--------------------------------------------------------------------------------
(***************************************************************************)
(* The client.                                                             *)
(***************************************************************************)
\* ensureConnected, for a fetch or a subscription.
EnsureConnected ==
    /\ ~(connectionState = "authenticated" /\ ws # None /\ socket[ws] = "open")
    /\ connectionPromise = None
    /\ Connect(socket, handler)
    /\ UNCHANGED <<ws, mishaps>>

\* forceReconnect, for the connection manager.
ForceReconnect ==
    /\ Mishap
    /\ ws' = None
    /\ Connect(Closing(ws), [t \in Sockets |-> IF t = ws THEN "none" ELSE handler[t]])

\* onopen: resume the stored session, or log in. Without a password there always is a
\* stored session.
Open(s) ==
    /\ socket[s] = "connecting"
    /\ conn' = [conn EXCEPT ![s] = "open"]
    /\ ws' = s
    /\ socket' = [socket EXCEPT ![s] = "open"]
    /\ \/ /\ storedSession # None
          /\ toServer' = [toServer EXCEPT ![s] = <<<<"srp_resume_init", storedSession>>>>]
          /\ connectionState' = "srp_resume_init_sent"
          /\ resumeTimer' = resumeTimer \union {s}
          /\ UNCHANGED <<srpSession, due>>
       \/ /\ storedSession = None
          /\ StartFullSrp(s, "hello")
          /\ UNCHANGED <<toServer, connectionState, resumeTimer>>
    /\ UNCHANGED <<sessionKey, storedSession, password, handler, toClient, authState, serverKey,
                   pendingResumeChallenge, doing, sessions, promise, connectionPromise, mishaps>>

\* onmessage: takes the frame m from s in the connectionState `in'.
Takes(s, m, in) ==
    /\ socket[s] = "open" /\ handler[s] = "auth"
    /\ toClient[s] # <<>> /\ Head(toClient[s]) = m
    /\ connectionState \in in
    /\ toClient' = [toClient EXCEPT ![s] = Tail(@)]
    /\ UNCHANGED <<password, serverVars, sessions, mishaps>>

Resuming == {"srp_resume_init_sent", "srp_resume_proof_sent"}
Waiting == Resuming \union {"srp_hello_sent", "srp_proof_sent"}

TakeResumeChallenge(s, x) ==
    /\ Takes(s, <<"srp_resume_challenge", x>>, Resuming)
    /\ \/ /\ storedSession = x
          /\ toServer' = Sent(<<"srp_resume", x, s>>)
          /\ connectionState' = "srp_resume_proof_sent"
          /\ Settle({}, resumeTimer \union {s})
          /\ UNCHANGED socket
       \/ /\ storedSession # x
          /\ Settle({s}, resumeTimer \union {s})
          /\ socket' = IF storedSession = None THEN socket ELSE Closing(ws)
          /\ UNCHANGED <<toServer, connectionState>>
    /\ UNCHANGED <<ws, sessionKey, storedSession, srpSession, handler, due>>

\* The key of the stored session and this socket's nonce: the connection is up.
TakeResumed(s, x) ==
    /\ Takes(s, <<"srp_resumed", x>>, Resuming)
    /\ Settle({s}, resumeTimer \union {s})
    /\ \/ /\ storedSession # None
          /\ sessionKey' = <<storedSession, s>>
          /\ connectionState' = "authenticated"
          /\ handler' = [t \in Sockets |-> IF t = ws THEN "message" ELSE handler[t]]
       \/ /\ storedSession = None
          /\ UNCHANGED <<sessionKey, connectionState, handler>>
    /\ UNCHANGED <<ws, storedSession, srpSession, due, socket, toServer>>

\* The server refuses: with a password, log in instead.
TakeInvalid(s) ==
    /\ Takes(s, <<"srp_invalid">>, Resuming)
    /\ \/ /\ password # "none"
          /\ storedSession' = None
          /\ StartFullSrp(s, "hello")
          /\ Settle({}, resumeTimer \union {s})
          /\ UNCHANGED <<connectionState, socket>>
       \/ /\ password = "none"
          /\ Fail(s, ws, resumeTimer \union {s})
          /\ UNCHANGED <<storedSession, srpSession, due>>
    /\ UNCHANGED <<ws, sessionKey, handler, toServer>>

\* generateHello of this.srpSession has ended.
HelloMade == \A d \in due : <<d[1], d[2]>> # srpSession

\* this.srpSession answers, whoever made it; it throws when it made no hello yet.
TakeSrpChallenge(s, good) ==
    /\ Takes(s, <<"srp_challenge", good>>, {"srp_hello_sent"})
    /\ \/ /\ srpSession # None /\ HelloMade
          /\ srpSession' = s
          /\ due' = due \union {<<"proof", s, good>>}
          /\ Settle({}, resumeTimer)
          /\ UNCHANGED <<connectionState, socket>>
       \/ /\ srpSession # None /\ ~HelloMade
          /\ Fail(s, ws, resumeTimer)
          /\ UNCHANGED <<srpSession, due>>
       \/ /\ srpSession = None
          /\ Settle({s}, resumeTimer)
          /\ UNCHANGED <<srpSession, due, connectionState, socket>>
    /\ UNCHANGED <<ws, sessionKey, storedSession, handler, toServer>>

\* The server's proof convinces only the SRP session that answered this socket's
\* challenge.
TakeVerify(s, x) ==
    /\ Takes(s, <<"srp_verify", x>>, {"srp_proof_sent"})
    /\ \/ /\ srpSession # None
          /\ due' = due \union {<<"verify", s, IF srpSession = s THEN x ELSE None>>}
          /\ Settle({}, resumeTimer)
       \/ /\ srpSession = None
          /\ Settle({s}, resumeTimer)
          /\ UNCHANGED due
    /\ UNCHANGED <<ws, sessionKey, storedSession, srpSession, connectionState, handler, socket,
                   toServer>>

Expected(type) ==
    CASE type \in {"srp_resume_challenge", "srp_resumed", "srp_invalid"} -> Resuming
      [] type = "srp_challenge" -> {"srp_hello_sent"}
      [] type = "srp_verify" -> {"srp_proof_sent"}
      [] type = "srp_error" -> {}

\* An error, or a frame that does not belong to the phase.
TakeUnexpected(s) ==
    /\ toClient[s] # <<>>
    /\ connectionState \notin Expected(Head(toClient[s])[1])
    /\ Takes(s, Head(toClient[s]), Waiting)
    /\ Fail(s, ws, IF connectionState \in Resuming THEN resumeTimer \union {s} ELSE resumeTimer)
    /\ UNCHANGED <<ws, sessionKey, storedSession, srpSession, due, handler, toServer>>

\* Handshake frames are dropped once the connection is up, has failed, or connects anew.
Drop(s) ==
    /\ socket[s] = "open" /\ toClient[s] # <<>>
    /\ handler[s] # "auth" \/ connectionState \notin Waiting
    /\ toClient' = [toClient EXCEPT ![s] = Tail(@)]
    /\ UNCHANGED <<clientVars, attemptVars, serverVars, socket, toServer, sessions, mishaps>>

\* After generateHello.
HelloDue(d) ==
    /\ d[1] \in {"hello", "lateHello"}
    /\ due' = due \ {d}
    /\ toServer' = Sent(<<"srp_hello">>)
    /\ connectionState' = "srp_hello_sent"
    /\ UNCHANGED <<ws, sessionKey, storedSession, srpSession, password, connectionPromise,
                   promise, resumeTimer, handler, serverVars, socket, toClient, sessions,
                   mishaps>>

\* After processChallenge.
ProofDue(d) ==
    /\ d[1] = "proof"
    /\ due' = due \ {d}
    /\ toServer' = Sent(<<"srp_proof", d[2], d[3]>>)
    /\ connectionState' = "srp_proof_sent"
    /\ UNCHANGED <<ws, sessionKey, storedSession, srpSession, password, connectionPromise,
                   promise, resumeTimer, handler, serverVars, socket, toClient, sessions,
                   mishaps>>

\* After verifyServer. Another srpSession has no key yet: a whole handshake of it does not
\* fit into one verifyServer.
VerifyDue(d) ==
    /\ d[1] = "verify"
    /\ due' = due \ {d}
    /\ LET s == d[2]
           x == d[3]
       IN \/ /\ x # None /\ srpSession = s
             /\ sessionKey' = <<x, s>>
             /\ storedSession' = x
             /\ connectionState' = "authenticated"
             /\ Settle({s}, resumeTimer)
             /\ UNCHANGED socket
          \/ /\ x = None \/ srpSession = None
             /\ Fail(s, ws, resumeTimer)
             /\ UNCHANGED <<sessionKey, storedSession>>
          \/ /\ x # None /\ srpSession \notin {None, s}
             /\ Settle({s}, resumeTimer)
             /\ UNCHANGED <<sessionKey, storedSession, connectionState, socket>>
    /\ UNCHANGED <<ws, srpSession, password, handler, serverVars, toServer, toClient, sessions,
                   mishaps>>

\* A socket closes: because it was told to, because the server's end is closed and
\* everything before was received, or because the network fails. onclose is
\* handleSocketClose, whichever socket this.ws is.
Closed(s) ==
    /\ socket[s] # "free"
    /\ \/ /\ socket[s] = "closing" \/ (conn[s] = "closed" /\ toClient[s] = <<>>)
          /\ UNCHANGED mishaps
       \/ /\ socket[s] # "closing" /\ conn[s] # "closed"
          /\ Mishap
    /\ socket' = [socket EXCEPT ![s] = "free"]
    /\ toClient' = [toClient EXCEPT ![s] = <<>>]
    /\ handler' = [handler EXCEPT ![s] = "none"]
    /\ \/ /\ handler[s] # "none"
          /\ ws' = None /\ sessionKey' = None /\ srpSession' = None
          /\ \/ /\ connectionState = "authenticated"
                /\ connectionState' = "disconnected"
                /\ UNCHANGED <<promise, connectionPromise, resumeTimer>>
             \/ /\ connectionState # "authenticated"
                /\ connectionState' = "failed"
                /\ Settle({s}, resumeTimer)
       \/ /\ handler[s] = "none"
          /\ UNCHANGED <<ws, sessionKey, srpSession, connectionState, promise,
                         connectionPromise, resumeTimer>>
    /\ UNCHANGED <<storedSession, password, due, toServer, serverVars, sessions>>

--------------------------------------------------------------------------------
(***************************************************************************)
(* Timeouts. One fires when nothing else can happen, or because an answer  *)
(* is slow.                                                                *)
(***************************************************************************)
Quiet ==
    /\ due = {}
    /\ \A s \in Sockets : /\ doing[s] = None
                          /\ socket[s] \in {"free", "open"}
                          /\ socket[s] = "open" => toClient[s] = <<>> /\ conn[s] = "open"
                          /\ conn[s] = "open" => toServer[s] = <<>> /\ socket[s] = "open"

TimePasses ==
    \/ Quiet /\ UNCHANGED mishaps
    \/ ~Quiet /\ Mishap

\* Thirty seconds after the attempt began. When the connection is up, by whichever
\* attempt, nothing is done.
ConnectTimeout(s) ==
    /\ promise[s] = "pending"
    /\ TimePasses
    /\ \/ /\ connectionState # "authenticated"
          /\ connectionState' = "failed"
          /\ socket' = Closing(s)
          /\ promise' = [promise EXCEPT ![s] = "late"]
          /\ connectionPromise' = None
       \/ /\ connectionState = "authenticated"
          /\ promise' = [promise EXCEPT ![s] = "hung"]
          /\ UNCHANGED <<connectionState, socket, connectionPromise>>
    /\ UNCHANGED <<ws, sessionKey, storedSession, srpSession, password, resumeTimer, handler, due,
                   serverVars, toServer, toClient, sessions>>

\* Five seconds after the last frame of the resume phase: log in, or give up.
ResumeTimeout(s) ==
    /\ s \in resumeTimer
    /\ TimePasses
    /\ \/ /\ connectionState \in Resuming /\ password # "none"
          /\ storedSession' = None
          /\ StartFullSrp(s, "lateHello")
          /\ Settle({}, resumeTimer \ {s})
          /\ UNCHANGED <<connectionState, socket>>
       \/ /\ connectionState \in Resuming /\ password = "none"
          /\ Fail(s, s, resumeTimer \ {s})
          /\ UNCHANGED <<storedSession, srpSession, due>>
       \/ /\ connectionState \notin Resuming
          /\ Settle({}, resumeTimer \ {s})
          /\ UNCHANGED <<connectionState, socket, storedSession, srpSession, due>>
    /\ UNCHANGED <<ws, sessionKey, password, handler, serverVars, toServer, toClient, sessions>>

--------------------------------------------------------------------------------
(***************************************************************************)
(* The server. Frames of a connection are handled one after the other.     *)
(***************************************************************************)
Handles(s, m) ==
    /\ conn[s] = "open" /\ doing[s] = None
    /\ toServer[s] # <<>> /\ Head(toServer[s]) = m
    /\ toServer' = [toServer EXCEPT ![s] = Tail(@)]
    /\ UNCHANGED <<clientVars, attemptVars, socket>>

Established(s) == authState[s] = "authenticated" /\ serverKey[s] # None

HandleSrpResumeInit(s, x) ==
    /\ Handles(s, <<"srp_resume_init", x>>)
    /\ \/ /\ ~Established(s) /\ x \in sessions
          /\ pendingResumeChallenge' = [pendingResumeChallenge EXCEPT ![s] = x]
          /\ toClient' = Answered(s, <<"srp_resume_challenge", x>>)
       \/ /\ Established(s) \/ x \notin sessions
          /\ toClient' = Answered(s, <<"srp_invalid">>)
          /\ UNCHANGED pendingResumeChallenge
    /\ UNCHANGED <<conn, authState, serverKey, doing, sessions, mishaps>>

\* The challenge is used up, whatever the proof; a good proof of session x answers
\* the challenge made on this connection. validateProof saves and awaits.
HandleSrpResume(s, x, of) ==
    /\ Handles(s, <<"srp_resume", x, of>>)
    /\ pendingResumeChallenge' = [pendingResumeChallenge EXCEPT ![s] = None]
    /\ \/ /\ pendingResumeChallenge[s] = x /\ of = s /\ x \in sessions
          /\ doing' = [doing EXCEPT ![s] = <<"validate", x>>]
          /\ UNCHANGED toClient
       \/ /\ ~(pendingResumeChallenge[s] = x /\ of = s /\ x \in sessions)
          /\ toClient' = Answered(s, <<"srp_invalid">>)
          /\ UNCHANGED doing
    /\ UNCHANGED <<conn, authState, serverKey, sessions, mishaps>>

\* Mutant: a hello starts over on an established connection.
HandleSrpHelloAnytime(s) ==
    /\ Handles(s, <<"srp_hello">>)
    /\ pendingResumeChallenge' = [pendingResumeChallenge EXCEPT ![s] = None]
    /\ doing' = [doing EXCEPT ![s] = <<"challenge", None>>]
    /\ UNCHANGED <<conn, toClient, authState, serverKey, sessions, mishaps>>

HandleSrpHello(s) ==
    /\ Handles(s, <<"srp_hello">>)
    /\ \/ /\ authState[s] # "srp_waiting_proof" /\ ~Established(s)
          /\ pendingResumeChallenge' = [pendingResumeChallenge EXCEPT ![s] = None]
          /\ doing' = [doing EXCEPT ![s] = <<"challenge", None>>]
          /\ UNCHANGED <<conn, toClient>>
       \/ /\ authState[s] = "srp_waiting_proof" \/ Established(s)
          /\ toClient' = Answered(s, <<"srp_error">>)
          /\ conn' = [conn EXCEPT ![s] = "closed"]
          /\ UNCHANGED <<pendingResumeChallenge, doing>>
    /\ UNCHANGED <<authState, serverKey, sessions, mishaps>>

HandleSrpProof(s, of, good) ==
    /\ Handles(s, <<"srp_proof", of, good>>)
    /\ \/ /\ authState[s] = "srp_waiting_proof"
          /\ doing' = [doing EXCEPT ![s] = <<"prove", good /\ of = s>>]
          /\ UNCHANGED <<pendingResumeChallenge, authState, toClient>>
       \/ /\ authState[s] # "srp_waiting_proof"
          /\ pendingResumeChallenge' = [pendingResumeChallenge EXCEPT ![s] = None]
          /\ toClient' = Answered(s, <<"srp_error">>)
          /\ UNCHANGED <<doing, authState>>
    /\ UNCHANGED <<conn, serverKey, sessions, mishaps>>

\* The handler of s goes on after its await of `what'; saves may fail.
Awaited(s, what) ==
    /\ doing[s] # None /\ doing[s][1] = what
    /\ UNCHANGED <<clientVars, attemptVars, socket, toServer>>

\* Mutant: the answer precedes the save, and the key waits for it.
ValidatedAnswersFirst(s) ==
    /\ Awaited(s, "validate")
    /\ LET x == doing[s][2]
       IN \/ /\ doing' = [doing EXCEPT ![s] = <<"resume", x>>]
             /\ toClient' = Answered(s, <<"srp_resumed", x>>)
             /\ UNCHANGED <<serverKey, authState, mishaps>>
          \/ /\ Mishap
             /\ doing' = [doing EXCEPT ![s] = None]
             /\ toClient' = Answered(s, <<"srp_invalid">>)
             /\ UNCHANGED <<serverKey, authState>>
    /\ UNCHANGED <<conn, pendingResumeChallenge, sessions>>

\* After validateProof: the connection is established under the session's key, even
\* if the session was revoked during the await; then the session is saved again.
Validated(s) ==
    /\ Awaited(s, "validate")
    /\ LET x == doing[s][2]
       IN \/ /\ serverKey' = [serverKey EXCEPT ![s] = <<x, s>>]
             /\ authState' = [authState EXCEPT ![s] = "authenticated"]
             /\ doing' = [doing EXCEPT ![s] = <<"resume", x>>]
             /\ UNCHANGED <<toClient, mishaps>>
          \/ /\ Mishap
             /\ doing' = [doing EXCEPT ![s] = None]
             /\ toClient' = Answered(s, <<"srp_invalid">>)
             /\ UNCHANGED <<serverKey, authState>>
    /\ UNCHANGED <<conn, pendingResumeChallenge, sessions>>

\* After updateLastConnected.
Resumed(s) ==
    /\ Awaited(s, "resume")
    /\ doing' = [doing EXCEPT ![s] = None]
    /\ \/ /\ toClient' = Answered(s, <<"srp_resumed", doing[s][2]>>)
          /\ UNCHANGED mishaps
       \/ /\ Mishap
          /\ toClient' = Answered(s, <<"srp_invalid">>)
    /\ UNCHANGED <<conn, pendingResumeChallenge, serverKey, authState, sessions>>

\* After generateChallenge, with the credentials of now.
Challenged(s) ==
    /\ Awaited(s, "challenge")
    /\ doing' = [doing EXCEPT ![s] = None]
    /\ authState' = [authState EXCEPT ![s] = "srp_waiting_proof"]
    /\ toClient' = Answered(s, <<"srp_challenge", password = "right">>)
    /\ UNCHANGED <<conn, pendingResumeChallenge, serverKey, sessions, mishaps>>

\* A session id that nothing but the server's table refers to stands for a new one.
NewSession ==
    {x \in SessionIds :
        /\ x # storedSession
        /\ \A s \in Sockets : /\ doing[s] = None \/ doing[s][2] # x
                              /\ \A i \in DOMAIN toClient[s] : x # toClient[s][i][Len(toClient[s][i])]
                              /\ \A i \in DOMAIN toServer[s] : Len(toServer[s][i]) = 1 \/ x # toServer[s][i][2]
        /\ \A d \in due : d[3] # x}

\* After verifyProof: the connection is established, and its session created, unless the
\* connection closed meanwhile, which drops what the proof was computed in.
Proved(s) ==
    /\ Awaited(s, "prove")
    /\ pendingResumeChallenge' = [pendingResumeChallenge EXCEPT ![s] = None]
    /\ \/ /\ doing[s][2] /\ conn[s] = "open"
          /\ \E x \in NewSession :
                /\ serverKey' = [serverKey EXCEPT ![s] = <<x, s>>]
                /\ sessions' = sessions \union {x}
                /\ doing' = [doing EXCEPT ![s] = <<"create", x>>]
          /\ authState' = [authState EXCEPT ![s] = "authenticated"]
          /\ UNCHANGED <<conn, toClient>>
       \/ /\ ~(doing[s][2] /\ conn[s] = "open")
          /\ doing' = [doing EXCEPT ![s] = None]
          /\ authState' = [authState EXCEPT ![s] = "unauthenticated"]
          /\ toClient' = Answered(s, <<"srp_error">>)
          /\ conn' = [conn EXCEPT ![s] = "closed"]
          /\ UNCHANGED <<serverKey, sessions>>
    /\ UNCHANGED mishaps

\* After createSession.
Created(s) ==
    /\ Awaited(s, "create")
    /\ doing' = [doing EXCEPT ![s] = None]
    /\ \/ /\ toClient' = Answered(s, <<"srp_verify", doing[s][2]>>)
          /\ UNCHANGED <<conn, mishaps>>
       \/ /\ Mishap
          /\ toClient' = Answered(s, <<"srp_error">>)
          /\ conn' = [conn EXCEPT ![s] = "closed"]
    /\ UNCHANGED <<pendingResumeChallenge, serverKey, authState, sessions>>

\* cleanupSrpConnectionState.
Forgotten(s) ==
    /\ conn' = [conn EXCEPT ![s] = "closed"]
    /\ pendingResumeChallenge' = [pendingResumeChallenge EXCEPT ![s] = None]
    /\ serverKey' = [serverKey EXCEPT ![s] = None]
    /\ authState' = [authState EXCEPT ![s] = IF @ = "authenticated" THEN @ ELSE "unauthenticated"]

\* No proof ten seconds after the challenge.
HandshakeTimeout(s) ==
    /\ conn[s] = "open"
    /\ authState[s] = "srp_waiting_proof" /\ doing[s] = None
    /\ TimePasses
    /\ Forgotten(s)
    /\ UNCHANGED <<clientVars, attemptVars, doing, netVars, sessions>>

\* onClose at the server.
ServerSeesClose(s) ==
    /\ conn[s] = "open" /\ socket[s] \in {"free", "closing"}
    /\ Forgotten(s)
    /\ toServer' = [toServer EXCEPT ![s] = <<>>]
    /\ UNCHANGED <<clientVars, attemptVars, doing, socket, toClient, sessions, mishaps>>

Changes ==
    /\ Mishap
    /\ UNCHANGED <<ws, sessionKey, storedSession, srpSession, connectionState, attemptVars,
                   socket, toClient>>

\* A session is revoked, evicted or expires.
Revoke(x) ==
    /\ Changes
    /\ x \in sessions
    /\ sessions' = sessions \ {x}
    /\ UNCHANGED <<password, serverVars, toServer>>

\* The credentials change, and all sessions of the user are invalidated.
ChangeCredentials ==
    /\ Changes
    /\ password = "right"
    /\ password' = "wrong"
    /\ sessions' = {}
    /\ UNCHANGED <<serverVars, toServer>>

\* The server restarts. Its sessions survive when they are kept on disk.
Restart ==
    /\ Changes
    /\ sessions' \in {sessions, {}}
    /\ conn' = [s \in Sockets |-> IF conn[s] = "open" THEN "closed" ELSE conn[s]]
    /\ toServer' = [s \in Sockets |-> <<>>]
    /\ authState' = [s \in Sockets |-> "unauthenticated"]
    /\ serverKey' = [s \in Sockets |-> None]
    /\ pendingResumeChallenge' = [s \in Sockets |-> None]
    /\ doing' = [s \in Sockets |-> None]
    /\ UNCHANGED password

--------------------------------------------------------------------------------
SystemStep ==
    \/ \E s \in Sockets : Open(s)
    \/ \E s \in Sockets, x \in SessionIds : TakeResumeChallenge(s, x)
    \/ \E s \in Sockets, x \in SessionIds : TakeResumed(s, x)
    \/ \E s \in Sockets : TakeInvalid(s)
    \/ \E s \in Sockets, good \in BOOLEAN : TakeSrpChallenge(s, good)
    \/ \E s \in Sockets, x \in SessionIds : TakeVerify(s, x)
    \/ \E s \in Sockets : TakeUnexpected(s)
    \/ \E s \in Sockets : Drop(s)
    \/ \E d \in due : HelloDue(d)
    \/ \E d \in due : ProofDue(d)
    \/ \E d \in due : VerifyDue(d)
    \/ \E s \in Sockets : ConnectTimeout(s)
    \/ \E s \in Sockets : ResumeTimeout(s)
    \/ \E s \in Sockets, x \in SessionIds : HandleSrpResumeInit(s, x)
    \/ \E s, of \in Sockets, x \in SessionIds : HandleSrpResume(s, x, of)
    \/ \E s \in Sockets : HandleSrpHello(s)
    \/ \E s, of \in Sockets, good \in BOOLEAN : HandleSrpProof(s, of, good)
    \/ \E s \in Sockets : Validated(s)
    \/ \E s \in Sockets : Resumed(s)
    \/ \E s \in Sockets : Challenged(s)
    \/ \E s \in Sockets : Proved(s)
    \/ \E s \in Sockets : Created(s)
    \/ \E s \in Sockets : HandshakeTimeout(s)
    \/ \E s \in Sockets : ServerSeesClose(s)
    \/ \E s \in Sockets : Closed(s)

Next ==
    \/ SystemStep
    \/ EnsureConnected
    \/ ForceReconnect
    \/ \E x \in SessionIds : Revoke(x)
    \/ ChangeCredentials
    \/ Restart

Spec == Init /\ [][Next]_vars

--------------------------------------------------------------------------------
(***************************************************************************)
(* Properties.                                                             *)
(***************************************************************************)
Connected == connectionState = "authenticated" /\ ws # None /\ socket[ws] = "open"

\* A client that is up has a traffic key; and when it is one of the socket in use, the
\* server has established that connection under this very key as long as it is open
\* there, however attempts overlapped, answers were late, saves failed and sessions were
\* revoked meanwhile. (SecureConnection.handleSrpResumeResponse, handleSrpVerify.)
KeysAgree ==
    Connected =>
        /\ sessionKey # None
        /\ sessionKey[2] = ws /\ conn[ws] = "open" =>
              Established(ws) /\ serverKey[ws] = sessionKey

\* What the server says of a connection stays true while it is open: it answers
\* srp_resumed or srp_verify only on a connection that it has established under that
\* session's key, and nothing that it handles before the client reads the answer, from
\* any attempt, gives the connection another key or takes it away.
\* (ws-srp-handlers.ts, handleSrpResume and handleSrpProof.)
AnswersHold ==
    \A s \in Sockets, x \in SessionIds :
        /\ conn[s] = "open"
        /\ \E i \in DOMAIN toClient[s] :
              toClient[s][i] \in {<<"srp_resumed", x>>, <<"srp_verify", x>>}
        => Established(s) /\ serverKey[s] = <<x, s>>
================================================================================
