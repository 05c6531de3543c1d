----------------------------- MODULE Supervisor -----------------------------
(***************************************************************************)
(* The pool of agent processes on the host: class Supervisor of            *)
(* packages/server/src/supervisor/Supervisor.ts and its WorkerQueue.       *)
(*                                                                         *)
(* A request starts a session, resumes one, or sends a message to one.  It *)
(* awaits: the abort of a process it preempts or restarts, the change of   *)
(* the thinking mode, the start of the provider, the real session id.      *)
(* Other requests, and the processes themselves, run in between, so a      *)
(* decision taken before an await is acted on after it.                    *)
(*                                                                         *)
(* A request starts at most one process, which is named after it, and a    *)
(* new session is named after the request that creates it.  What a process *)
(* does is abstracted from AgentProcess to its state and to the "complete" *)
(* event it sends.                                                         *)
(*                                                                         *)
(* "busy" stands for every live state that is not idle (in-turn,           *)
(* waiting-input, hold): the pool only asks whether a process is idle or   *)
(* terminated.  terminateStaleProcesses is a cause of Dies.                *)
(***************************************************************************)
EXTENDS Naturals, FiniteSets, SequencesExt

CONSTANTS
    Requests,       \* calls of startSession, resumeSession, queueMessage...
    Sessions,       \* sessions that exist before the server starts
    None,           \* no process
    MaxWorkers,     \* 0: no limit
    MaxQueueSize,   \* 0: no limit
    LivenessKnown,  \* the provider reports whether its process is alive
    Ops             \* what may happen beyond the ordinary course

(* overlap: two calls for the same session may be in progress together.    *)
(* restart: a message may change the thinking or effort settings.          *)
(* earlyDeath: a process may die before it is registered.                  *)
AllOps == {"overlap", "restart", "earlyDeath"}

ASSUME ConstantsOK ==
    /\ IsFiniteSet(Requests)
    /\ Requests \cap Sessions = {}
    /\ None \notin Requests
    /\ MaxWorkers \in Nat /\ MaxQueueSize \in Nat
    /\ LivenessKnown \in BOOLEAN
    /\ Ops \subseteq AllOps

SessionIds == Sessions \cup Requests

VARIABLES
    processes,         \* the keys of the map of registered processes
    sessionToProcess,
    workerQueue,
    proc,              \* the state of each process; "none" before its start
    stage,             \* where the handling of each request stands
    via,               \* the operation each request is handled by
    session,           \* the session each request is about
    target,            \* the process a request waits for
    draining,          \* requests started by a run of processQueue
    stopping,          \* processes that abortProcess waits for
    inbox              \* the process whose queue got the request's message

poolVars == <<processes, sessionToProcess, workerQueue>>
callVars == <<via, session>>
vars == <<poolVars, proc, stage, callVars, target, draining, stopping, inbox>>

\* Stages in which a request waits for something
Awaiting == {"preempting", "restarting", "toggling", "spawning",
             "identifying"}

-----------------------------------------------------------------------------
Init ==
    /\ processes = {}
    /\ sessionToProcess = [s \in SessionIds |-> None]
    /\ workerQueue = <<>>
    /\ proc = [r \in Requests |-> "none"]
    /\ stage = [r \in Requests |-> "unsent"]
    /\ via = [r \in Requests |-> "none"]
    /\ session = [r \in Requests |-> r]
    /\ target = [r \in Requests |-> None]
    /\ draining = {}
    /\ stopping = {}
    /\ inbox = [r \in Requests |-> None]

-----------------------------------------------------------------------------
(* The pool as a handler has left it so far.  A handler may unregister a   *)
(* process, which runs processQueue up to its first await, before it goes  *)
(* on with its own request; taken holds what processQueue dequeued.        *)

Begin == [reg   |-> processes,
          to    |-> sessionToProcess,
          queue |-> workerQueue,
          taken |-> {}]

\* isAtCapacity
AtCapacity(reg) == MaxWorkers > 0 /\ Cardinality(reg) >= MaxWorkers

\* Mistake: the dequeued request stays in the queue.
DrainedPeeking(P) ==
    IF P.queue # <<>> /\ ~AtCapacity(P.reg)
    THEN [P EXCEPT !.taken = P.taken \cup {Head(P.queue)}]
    ELSE P

\* One round of processQueue's loop: it awaits the start of what it dequeues.
Drained(P) ==
    IF P.queue # <<>> /\ ~AtCapacity(P.reg)
    THEN [P EXCEPT !.queue = Tail(P.queue),
                   !.taken = P.taken \cup {Head(P.queue)}]
    ELSE P

\* Mistake: the session stays mapped to the process.
UnregisteredMapped(P, p) ==
    IF p \in P.reg THEN Drained([P EXCEPT !.reg = P.reg \ {p}]) ELSE P

\* Mistake: processQueue is not called.
UnregisteredQuietly(P, p) ==
    IF p \in P.reg
    THEN [P EXCEPT
             !.reg = P.reg \ {p},
             !.to  = [s \in SessionIds |-> IF P.to[s] = p THEN None
                                                          ELSE P.to[s]]]
    ELSE P

\* unregisterProcess
Unregistered(P, p) ==
    IF p \in P.reg
    THEN Drained([P EXCEPT
             !.reg = P.reg \ {p},
             !.to  = [s \in SessionIds |-> IF P.to[s] = p THEN None
                                                          ELSE P.to[s]]])
    ELSE P

\* registerProcess
Registered(P, p) ==
    [P EXCEPT !.reg = P.reg \cup {p},
              !.to  = [P.to EXCEPT ![session[p]] = p]]

\* What follows the start of request r: processQueue goes on with its loop.
LoopGoesOn(P, r) == IF r \in draining THEN Drained(P) ELSE P

PoolBecomes(P) ==
    /\ processes' = P.reg
    /\ sessionToProcess' = P.to
    /\ workerQueue' = P.queue

\* The stages after processQueue took some requests from the queue
StageAfter(P) ==
    [x \in Requests |-> IF x \in P.taken THEN "spawning" ELSE stage[x]]

\* A handler not about a request ends with pool P.
Ends(P) ==
    /\ PoolBecomes(P)
    /\ stage' = StageAfter(P)
    /\ draining' = draining \cup P.taken

\* A handler about request r ends, or awaits, with r in stage st.
Moves(P, r, st) ==
    /\ PoolBecomes(P)
    /\ stage' = [StageAfter(P) EXCEPT ![r] = st]
    /\ draining' = (draining \ {r}) \cup P.taken

-----------------------------------------------------------------------------
(* Requests                                                                *)

\* The message of request r goes to process p and wakes it when it is idle.
Deliver(P, r, p) ==
    /\ Moves(P, r, "delivered")
    /\ inbox' = [inbox EXCEPT ![r] = p]
    /\ proc' = [proc EXCEPT ![p] = IF @ = "idle" THEN "busy" ELSE @]
    /\ target' = [target EXCEPT ![r] = None]

Await(P, r, st, p) ==
    /\ Moves(P, r, st)
    /\ target' = [target EXCEPT ![r] = p]
    /\ UNCHANGED <<proc, inbox>>

Answer(P, r, st) ==
    /\ Moves(P, r, st)
    /\ target' = [target EXCEPT ![r] = None]
    /\ UNCHANGED <<proc, inbox>>

\* Mistake: one request too many.
QueueOverfull(queue) == MaxQueueSize > 0 /\ Len(queue) > MaxQueueSize

QueueFull(queue) == MaxQueueSize > 0 /\ Len(queue) >= MaxQueueSize

\* How startSession, createSession and resumeSession end: start, preempt or
\* queue.  An idle process may be preempted once it has been idle long enough.
Admit(P, r) ==
    \/ ~AtCapacity(P.reg) /\ Answer(P, r, "spawning")
    \/ /\ AtCapacity(P.reg)
       /\ \E p \in P.reg : proc[p] = "idle" /\ Await(P, r, "preempting", p)
    \/ /\ AtCapacity(P.reg)
       /\ IF QueueFull(P.queue)
          THEN Answer(P, r, "refused")
          ELSE Answer([P EXCEPT !.queue = Append(P.queue, r)], r, "queued")

\* findBySessionId: a queued request for the session answers for this one.
AdmitOnce(P, r, s) ==
    IF \E x \in ToSet(P.queue) : session[x] = s
    THEN Answer(P, r, "duplicate")
    ELSE Admit(P, r)

\* A message for a live process: it may change settings on the way.
Send(P, r, p) ==
    \/ Deliver(P, r, p)
    \/ "restart" \in Ops /\ Await(P, r, "restarting", p)
    \/ "restart" \in Ops /\ Await(P, r, "toggling", p)

\* Mistake: the process the session already has is not looked for.
ResumeAnew(P, r, s) == AdmitOnce(P, r, s)

\* resumeSession, from its first line
ResumeIn(P, r, s) ==
    LET p == P.to[s]
    IN  \/ p \notin P.reg /\ AdmitOnce(P, r, s)
        \/ p \in P.reg /\ proc[p] = "terminated"
             /\ AdmitOnce(Unregistered(P, p), r, s)
        \/ p \in P.reg /\ proc[p] # "terminated" /\ Send(P, r, p)

\* Clients know a session that exists or that was announced.
Known(s) == s \in Requests => stage[s] = "started"

MayCall(r, s) ==
    /\ stage[r] = "unsent"
    /\ Known(s)
    /\ \/ "overlap" \in Ops
       \/ ~\E x \in Requests : session[x] = s /\ stage[x] \in Awaiting

StartSession(r) ==
    /\ stage[r] = "unsent"
    /\ Admit(Begin, r)
    /\ via' = [via EXCEPT ![r] = "start"]
    /\ UNCHANGED <<session, stopping>>

ResumeSession(r, s) ==
    /\ MayCall(r, s)
    /\ ResumeIn(Begin, r, s)
    /\ via' = [via EXCEPT ![r] = "resume"]
    /\ session' = [session EXCEPT ![r] = s]
    /\ UNCHANGED stopping

\* The session must have a process that is not terminated.
QueueMessageToSession(r, s) ==
    /\ MayCall(r, s)
    /\ sessionToProcess[s] \in processes
    /\ proc[sessionToProcess[s]] # "terminated"
    /\ Send(Begin, r, sessionToProcess[s])
    /\ via' = [via EXCEPT ![r] = "message"]
    /\ session' = [session EXCEPT ![r] = s]
    /\ UNCHANGED stopping

\* preemptWorker is over: the aborted process is unregistered, and the request
\* starts without looking at the capacity again.
PreemptEnds(r) ==
    /\ stage[r] = "preempting"
    /\ Answer(Unregistered(Begin, target[r]), r, "spawning")
    /\ UNCHANGED <<callVars, stopping>>

\* The process was aborted because the settings changed.  resumeSession goes
\* on to the line that queues the message unless the process is terminated,
\* which an abort need not make it; queueMessageToSession calls resumeSession,
\* by which the request is handled from then on.
RestartEnds(r) ==
    LET p == target[r]
        P == Unregistered(Begin, p)
    IN  /\ stage[r] = "restarting"
        /\ \/ via[r] = "resume" /\ proc[p] # "terminated" /\ Deliver(P, r, p)
           \/ via[r] = "resume" /\ proc[p] = "terminated"
                /\ AdmitOnce(P, r, session[r])
           \/ via[r] = "message" /\ ResumeIn(P, r, session[r])
        /\ via' = [via EXCEPT ![r] = "resume"]
        /\ UNCHANGED <<session, stopping>>

\* setMaxThinkingTokens is over.
ToggleEnds(r) ==
    LET p == target[r]
    IN  /\ stage[r] = "toggling"
        /\ \/ proc[p] # "terminated" /\ Deliver(Begin, r, p)
           \/ proc[p] = "terminated" /\ via[r] = "resume"
                /\ AdmitOnce(Begin, r, session[r])
           \/ proc[p] = "terminated" /\ via[r] = "message"
                /\ Answer(Begin, r, "refused")
        /\ UNCHANGED <<callVars, stopping>>

CancelQueuedRequest(r) ==
    /\ r \in ToSet(workerQueue)
    /\ Answer([Begin EXCEPT !.queue = RemoveFirst(workerQueue, r)], r,
              "cancelled")
    /\ UNCHANGED <<callVars, stopping>>

-----------------------------------------------------------------------------
(* Starting a process                                                      *)

\* registerProcess(r), and what the caller does after it
Register(r) == Moves(LoopGoesOn(Registered(Begin, r), r), r, "started")

\* The provider has started the process of a resumed session.
SpawnResumed(r) ==
    /\ stage[r] = "spawning"
    /\ via[r] # "start"
    /\ proc' = [proc EXCEPT ![r] = "busy"]
    /\ inbox' = [inbox EXCEPT ![r] = r]
    /\ Register(r)
    /\ UNCHANGED <<callVars, target, stopping>>

\* That of a new session runs unregistered until its session id is known.
SpawnNew(r) ==
    /\ stage[r] = "spawning"
    /\ via[r] = "start"
    /\ proc' = [proc EXCEPT ![r] = "busy"]
    /\ inbox' = [inbox EXCEPT ![r] = r]
    /\ stage' = [stage EXCEPT ![r] = "identifying"]
    /\ UNCHANGED <<poolVars, callVars, target, draining, stopping>>

\* waitForSessionId, with its timeout
Identified(r) ==
    /\ stage[r] = "identifying"
    /\ Register(r)
    /\ UNCHANGED <<proc, inbox, callVars, target, stopping>>

SpawnFails(r) ==
    /\ stage[r] = "spawning"
    /\ Answer(LoopGoesOn(Begin, r), r, "failed")
    /\ UNCHANGED <<callVars, stopping>>

-----------------------------------------------------------------------------
(* Processes                                                               *)

\* A process is looked at while it is registered, starting, or waited for.
Observed(p) ==
    \/ p \in processes
    \/ stage[p] = "identifying"
    \/ \E r \in Requests : target[r] = p

TurnEnds(p) ==
    /\ Observed(p)
    /\ proc[p] = "busy"
    /\ proc' = [proc EXCEPT ![p] = "idle"]
    /\ UNCHANGED <<poolVars, stage, callVars, target, draining, stopping,
                   inbox>>

\* markTerminated: only a registered process has a listener for "complete".
Dies(p) ==
    /\ Observed(p)
    /\ proc[p] # "terminated"
    /\ proc' = [proc EXCEPT ![p] = "terminated"]
    /\ stage[p] = "identifying" => "earlyDeath" \in Ops
    /\ Ends(Unregistered(Begin, p))
    /\ UNCHANGED <<callVars, target, stopping, inbox>>

\* The idle timeout, which keeps a process that is known to be alive
IdleTimeout(p) ==
    /\ p \in processes
    /\ proc[p] = "idle"
    /\ ~LivenessKnown
    /\ Ends(Unregistered(Begin, p))
    /\ UNCHANGED <<proc, callVars, target, stopping, inbox>>

AbortProcess(p) ==
    /\ p \in processes
    /\ stopping' = stopping \cup {p}
    /\ UNCHANGED <<poolVars, proc, stage, callVars, target, draining, inbox>>

AbortProcessEnds(p) ==
    /\ p \in stopping
    /\ stopping' = stopping \ {p}
    /\ Ends(Unregistered(Begin, p))
    /\ UNCHANGED <<proc, callVars, target, inbox>>

-----------------------------------------------------------------------------
ClientStep ==
    \E r \in Requests :
        \/ StartSession(r)
        \/ \E s \in SessionIds :
             ResumeSession(r, s) \/ QueueMessageToSession(r, s)
        \/ CancelQueuedRequest(r)
        \/ AbortProcess(r)

CallStep ==
    \E r \in Requests :
        \/ PreemptEnds(r) \/ RestartEnds(r) \/ ToggleEnds(r)
        \/ SpawnResumed(r) \/ SpawnNew(r) \/ SpawnFails(r) \/ Identified(r)
        \/ AbortProcessEnds(r)

ProcessStep ==
    \E p \in Requests :
        TurnEnds(p) \/ Dies(p) \/ IdleTimeout(p)

Next == ClientStep \/ CallStep \/ ProcessStep

Spec == Init /\ [][Next]_vars

(***************************************************************************)
(* Fairness.  Every await ends: abort() and waitForSessionId have timeouts *)
(* and the provider answers.  Turns end, prompts being answered, and       *)
(* timers run.                                                             *)
(***************************************************************************)
AwaitEnds(r) ==
    \/ PreemptEnds(r) \/ RestartEnds(r) \/ ToggleEnds(r)
    \/ SpawnResumed(r) \/ SpawnNew(r) \/ Identified(r)

Fairness ==
    \A r \in Requests :
        /\ WF_vars(AwaitEnds(r))
        /\ WF_vars(TurnEnds(r))
        /\ WF_vars(IdleTimeout(r))
        /\ WF_vars(AbortProcessEnds(r))

FairSpec == Spec /\ Fairness

-----------------------------------------------------------------------------
(* Type invariant                                                          *)

Stages == {"unsent", "queued", "started", "delivered", "duplicate",
           "refused", "cancelled", "failed"} \cup Awaiting

TypeOK ==
    /\ processes \subseteq Requests
    /\ sessionToProcess \in [SessionIds -> Requests \cup {None}]
    /\ workerQueue \in Seq(Requests)
    /\ MaxQueueSize > 0 => Len(workerQueue) <= MaxQueueSize
    /\ proc \in [Requests -> {"none", "busy", "idle", "terminated"}]
    /\ stage \in [Requests -> Stages]
    /\ via \in [Requests -> {"none", "start", "resume", "message"}]
    /\ session \in [Requests -> SessionIds]
    /\ target \in [Requests -> Requests \cup {None}]
    /\ draining \subseteq Requests
    /\ stopping \subseteq Requests
    /\ inbox \in [Requests -> Requests \cup {None}]

-----------------------------------------------------------------------------
(* Safety, whatever overlaps                                               *)

\* Every entry of sessionToProcess leads to a registered process of that
\* session, across every order in which processes of a session come and go.
MappingSound ==
    \A s \in SessionIds :
        sessionToProcess[s] # None =>
            /\ sessionToProcess[s] \in processes
            /\ session[sessionToProcess[s]] = s

\* Requests wait only for capacity: while one is queued and a worker is free,
\* a run of processQueue is under way, which goes on with the queue.
NoQueueStall ==
    workerQueue # <<>> /\ ~AtCapacity(processes) => draining # {}

\* The queue holds exactly the requests that were answered "queued" and not
\* yet started or cancelled, each once, at most one of them per session.
QueueAccurate ==
    /\ IsInjective(workerQueue)
    /\ ToSet(workerQueue) = {r \in Requests : stage[r] = "queued"}
    /\ \A x, y \in ToSet(workerQueue) : session[x] = session[y] => x = y

-----------------------------------------------------------------------------
(* When two calls for one session do not overlap                           *)

\* A session has at most one process, and the map leads to it, so that two
\* agents never write to one session.
OneProcessPerSession ==
    \A p \in processes : sessionToProcess[session[p]] = p

\* A request that was queued is started or cancelled.
QueueServed ==
    \A r \in Requests : stage[r] = "queued" ~> stage[r] # "queued"

-----------------------------------------------------------------------------
(* What the comments promise and the code does not keep                    *)

\* "Queue message to existing process (if we didn't fall through to restart)":
\* a message is queued only to a process that is registered.
DeliveredToOwned ==
    [][\A r \in Requests :
         stage[r] # "delivered" /\ stage'[r] = "delivered"
           => inbox'[r] \in processes']_vars

=============================================================================
