---------------------------- MODULE AgentProcess ----------------------------
(***************************************************************************)
(* One agent session on the host: class Process of                        *)
(* packages/server/src/supervisor/Process.ts.                              *)
(*                                                                         *)
(* The class is a state machine driven from four sides that interleave at  *)
(* every await: HTTP handlers (send, defer, approve, hold, abort), the     *)
(* loop that reads the provider's iterator (processMessages), the          *)
(* provider's canUseTool callback (handleToolApproval) with the abort      *)
(* signals it carries, and the idle timer.  JavaScript runs one handler at *)
(* a time up to its next await, so an action is one such stretch.          *)
(*                                                                         *)
(* Message texts, ids and timestamps are abstracted to the identities in   *)
(* Messages and Requests.                                                  *)
(***************************************************************************)
EXTENDS Naturals, SequencesExt

CONSTANTS
    Requests,       \* calls of canUseTool the agent may make
    Messages,       \* messages the users may send
    NoRequest,      \* no request is on display
    Tool,           \* Tool[r]: the class of the tool call r is about
    Rule,           \* Rule[r]: what the API caller's permission rules say of r
    Modes,          \* permission modes the users switch between
    Providers,      \* the providers that may run the agent
    LivenessKnown,  \* the provider reports whether its process is alive
    Ops             \* what users and the environment do beyond the basic turn

AllModes == {"default", "acceptEdits", "plan", "bypassPermissions"}

Tools == {"Read", "Edit", "PlanWrite", "Bash", "AskUserQuestion",
          "EnterPlanMode", "ExitPlanMode"}

(* hold: setHold is used.  kill: terminate and abort are used.             *)
(* fail: the iterator may end or throw on its own.                         *)
AllOps == {"hold", "kill", "fail"}

ASSUME ConstantsOK ==
    /\ NoRequest \notin Requests
    /\ Tool \in [Requests -> Tools]
    /\ Rule \in [Requests -> {"none", "allow", "deny"}]
    /\ Modes \subseteq AllModes
    /\ Providers \subseteq {"claude", "codex", "gemini-acp"}
    /\ LivenessKnown \in BOOLEAN
    /\ Ops \subseteq AllOps

VARIABLES
    provider,         \* which one runs this session; never changes
    state,            \* _state.type
    shown,            \* _state.request when state is "waiting-input"
    held,             \* _isHeld
    loop,             \* where processMessages stands
    iteratorDone,
    transportFailed,
    exited,           \* _exitPromise is resolved
    idleTimer,        \* an idle timeout is scheduled
    pending,          \* keys of pendingToolApprovals
    approvalQueue,    \* pendingToolApprovalQueue
    isFirstPending,   \* the flag captured by each request's abort listener
    verdict,          \* what the promise given to each canUseTool call holds
    mode,             \* _permissionMode
    deferredQueue,
    messageQueue,     \* what MessageQueue holds for the agent
    steering,         \* messages inside a steerFn call
    delivered,        \* messages the agent took
    accepted,         \* messages whose sender was told success
    agent,            \* the provider's side: running a turn, waiting, ended
    aborted,          \* abortFn was called
    aborting,         \* abort() waits for the exit promise
    completed,        \* a "complete" event went to the listeners
    killed,           \* history: markTerminated ran
    late,             \* history: messages not done with that had to wait
                      \* while the agent ran a turn for another one
    consumedHeld      \* history: iterator results consumed since the hold

displayVars == <<state, shown>>
loopVars    == <<held, loop, iteratorDone, transportFailed, exited,
                 consumedHeld>>
approvals   == <<pending, approvalQueue, isFirstPending, verdict>>
messages    == <<deferredQueue, messageQueue, steering, delivered, accepted>>
lifeVars    == <<aborted, aborting, completed, killed, late>>
vars == <<provider, displayVars, loopVars, idleTimer, approvals, mode,
          messages, agent, lifeVars>>

-----------------------------------------------------------------------------
(* What differs between providers                                          *)

\* Only Codex offers steer(); only Codex gets deny feedback as a message.
Steers == provider = "codex"
FeedbackAsMessage == provider = "codex"

\* Claude gives every canUseTool call a signal of its own; the others pass
\* the signal of the session's abort controller.
SignalPerCall == provider = "claude"

-----------------------------------------------------------------------------
(* The permission policy                                                   *)

ReadOnly(t)    == t = "Read"
Edits(t)       == t \in {"Edit", "PlanWrite"}
Interactive(t) == t \in {"AskUserQuestion", "ExitPlanMode"}

\* Mistake: bypass mode lets the interactive tools through as well.
AutoAllowedBypassAll(t, m) ==
    \/ m = "bypassPermissions"
    \/ m = "plan" /\ (ReadOnly(t) \/ t = "PlanWrite")
    \/ m = "acceptEdits" /\ (ReadOnly(t) \/ Edits(t))
    \/ m = "default" /\ ReadOnly(t)

\* Does mode m let tool t run without asking?
AutoAllowed(t, m) ==
    \/ m = "bypassPermissions" /\ ~Interactive(t)
    \/ m = "plan" /\ (ReadOnly(t) \/ t = "PlanWrite")
    \/ m = "acceptEdits" /\ (ReadOnly(t) \/ Edits(t))
    \/ m = "default" /\ ReadOnly(t)

\* The mode in force after the user approves a call of tool t.
ModeAfter(t, m) ==
    CASE t = "EnterPlanMode" -> "plan"
      [] t = "ExitPlanMode"  -> "default"
      [] OTHER               -> m

-----------------------------------------------------------------------------
(* Helpers for one handler's effects                                       *)

Open(r) == verdict[r] = "open"

\* Mistake: the old prompt stays attached to the new state.
SetStateKeepingPrompt(s) ==
    /\ state' = s
    /\ UNCHANGED shown

SetState(s) ==
    /\ state' = s
    /\ shown' = NoRequest

Show(r) ==
    /\ state' = "waiting-input"
    /\ shown' = r

\* Mistake: the newest request is shown next.
EmitLastPending(q) ==
    IF q # <<>> THEN Show(Last(q)) ELSE SetState("in-turn")

\* Mistake: after an answer the session goes on, whatever is pending.
EmitNoPending(q) == SetState("in-turn")

\* emitNextPendingApproval over the queue q that is left
EmitNextPending(q) ==
    IF q # <<>> THEN Show(Head(q)) ELSE SetState("in-turn")

Refuses == state = "terminated" \/ transportFailed

\* queueMessage(m): what it does to the message variables ...
QueueMessage(m) ==
    \/ /\ Refuses
       /\ UNCHANGED <<messageQueue, steering, accepted>>
    \/ /\ ~Refuses
       /\ accepted' = accepted \cup {m}
       /\ IF Steers /\ state = "in-turn"
          THEN /\ steering' = steering \cup {m}
               /\ UNCHANGED messageQueue
          ELSE /\ messageQueue' = Append(messageQueue, m)
               /\ UNCHANGED steering

\* A message that comes while a turn runs has to wait for it.
LateWith(m) == IF agent = "turn" THEN late \cup {m} ELSE late

\* Mistake: the state is left alone when a message arrives.
WakeNever == UNCHANGED displayVars

\* ... and to the state: a message wakes an idle process.
WakeIfIdle ==
    IF state = "idle" /\ ~Refuses THEN SetState("in-turn")
                                  ELSE UNCHANGED displayVars

\* Mistake: the fed message is read from the queue and not removed.
TransitionPeeking ==
    IF deferredQueue # <<>>
    THEN /\ QueueMessage(Head(deferredQueue))
         /\ WakeIfIdle
         /\ idleTimer' = FALSE
         /\ UNCHANGED deferredQueue
    ELSE /\ SetState("idle")
         /\ idleTimer' = TRUE
         /\ UNCHANGED <<deferredQueue, messageQueue, steering, accepted>>

\* Mistake: the idle timer is cleared and not started again.
TransitionWithoutTimer ==
    IF deferredQueue # <<>>
    THEN /\ deferredQueue' = Tail(deferredQueue)
         /\ QueueMessage(Head(deferredQueue))
         /\ WakeIfIdle
         /\ idleTimer' = FALSE
    ELSE /\ SetState("idle")
         /\ idleTimer' = FALSE
         /\ UNCHANGED <<deferredQueue, messageQueue, steering, accepted>>

\* Mistake: the deferred queue is not fed.
TransitionUnfed ==
    /\ SetState("idle")
    /\ idleTimer' = TRUE
    /\ UNCHANGED <<deferredQueue, messageQueue, steering, accepted>>

\* transitionToIdle: the next deferred message is fed first.
TransitionToIdle ==
    IF deferredQueue # <<>>
    THEN /\ deferredQueue' = Tail(deferredQueue)
         /\ QueueMessage(Head(deferredQueue))
         /\ WakeIfIdle
         /\ idleTimer' = FALSE
    ELSE /\ SetState("idle")
         /\ idleTimer' = TRUE
         /\ UNCHANGED <<deferredQueue, messageQueue, steering, accepted>>

\* Mistake: the pending approvals are cleared without being resolved.
MarkTerminatedSilently ==
    /\ killed' = TRUE
    /\ IF state = "terminated"
       THEN UNCHANGED <<displayVars, idleTimer, held, pending, approvalQueue,
                        verdict, completed>>
       ELSE /\ SetState("terminated")
            /\ idleTimer' = FALSE
            /\ held' = FALSE
            /\ pending' = {}
            /\ approvalQueue' = <<>>
            /\ completed' = TRUE
            /\ UNCHANGED verdict

\* markTerminated, which also settles whatever the same handler's abortFn left
MarkTerminated ==
    /\ killed' = TRUE
    /\ IF state = "terminated"
       THEN UNCHANGED <<displayVars, idleTimer, held, pending, approvalQueue,
                        verdict, completed>>
       ELSE /\ SetState("terminated")
            /\ idleTimer' = FALSE
            /\ held' = FALSE
            /\ verdict' = [r \in Requests |-> IF r \in pending THEN "deny"
                                                               ELSE verdict[r]]
            /\ pending' = {}
            /\ approvalQueue' = <<>>
            /\ completed' = TRUE

-----------------------------------------------------------------------------
\* The agent runs the turn of the message it was started with, or waits for
\* the first one when createSession made the process; both are "in-turn".
Init ==
    /\ provider \in Providers
    /\ state = "in-turn" /\ shown = NoRequest
    /\ held = FALSE /\ loop = "next"
    /\ iteratorDone = FALSE /\ transportFailed = FALSE /\ exited = FALSE
    /\ idleTimer = FALSE
    /\ pending = {} /\ approvalQueue = <<>>
    /\ isFirstPending = [r \in Requests |-> FALSE]
    /\ verdict = [r \in Requests |-> "none"]
    /\ mode \in Modes
    /\ deferredQueue = <<>> /\ messageQueue = <<>>
    /\ steering = {} /\ delivered = {} /\ accepted = {}
    /\ agent \in {"turn", "waiting"}
    /\ aborted = FALSE /\ aborting = FALSE
    /\ completed = FALSE /\ killed = FALSE /\ late = {}
    /\ consumedHeld = 0

-----------------------------------------------------------------------------
(* HTTP handlers                                                           *)

Send(m) ==
    /\ m \notin accepted
    /\ QueueMessage(m)
    /\ WakeIfIdle
    /\ idleTimer' = (idleTimer /\ (state # "idle" \/ Refuses))
    /\ late' = LateWith(m)
    /\ UNCHANGED <<provider, loopVars, approvals, mode, deferredQueue,
                   delivered, agent, aborted, aborting, completed, killed>>

\* The route refuses when isTerminated; deferMessage itself never does.
Defer(m) ==
    /\ m \notin accepted
    /\ state # "terminated"
    /\ deferredQueue' = Append(deferredQueue, m)
    /\ accepted' = accepted \cup {m}
    /\ UNCHANGED <<provider, displayVars, loopVars, idleTimer, approvals, mode,
                   messageQueue, steering, delivered, agent, lifeVars>>

\* cancelDeferredMessage: the message is withdrawn, as if never sent.
CancelDeferred(m) ==
    /\ m \in ToSet(deferredQueue)
    /\ deferredQueue' = RemoveFirst(deferredQueue, m)
    /\ accepted' = accepted \ {m}
    /\ UNCHANGED <<provider, displayVars, loopVars, idleTimer, approvals, mode,
                   messageQueue, steering, delivered, agent, lifeVars>>

\* The steerFn promise settles; a message the turn did not take is queued.
SteerSettles(m) ==
    /\ m \in steering
    /\ steering' = steering \ {m}
    /\ \/ /\ agent = "turn"
          /\ delivered' = delivered \cup {m}
          /\ UNCHANGED messageQueue
       \/ /\ messageQueue' = Append(messageQueue, m)
          /\ UNCHANGED delivered
    /\ UNCHANGED <<provider, displayVars, loopVars, idleTimer, approvals, mode,
                   deferredQueue, accepted, agent, lifeVars>>

SetPermissionMode(m) ==
    /\ mode' = m
    /\ UNCHANGED <<provider, displayVars, loopVars, idleTimer, approvals,
                   messages, agent, lifeVars>>

\* respondToInput for a request that is pending
Respond(r, answer) ==
    /\ r \in pending
    /\ LET left == RemoveFirst(approvalQueue, r)
       IN  /\ verdict' = [verdict EXCEPT ![r] = answer]
           /\ pending' = pending \ {r}
           /\ approvalQueue' = left
           /\ EmitNextPending(left)
    /\ mode' = IF answer = "allow" THEN ModeAfter(Tool[r], mode) ELSE mode
    /\ UNCHANGED <<provider, isFirstPending, loopVars, deferredQueue,
                   delivered, agent, aborted, aborting, completed, killed>>

RespondPlain(r) ==
    /\ \E answer \in {"allow", "deny"} : Respond(r, answer)
    /\ UNCHANGED <<messageQueue, steering, accepted, idleTimer, late>>

\* Codex: the reason of a denial goes to the agent as a message.
RespondWithFeedback(r, m) ==
    /\ FeedbackAsMessage
    /\ m \notin accepted
    /\ Respond(r, "deny")
    /\ QueueMessage(m)
    /\ idleTimer' = (idleTimer /\ (state # "idle" \/ Refuses))
    /\ late' = LateWith(m)

\* respondToInput for a request that is on display and no longer pending
RespondStale ==
    /\ state = "waiting-input"
    /\ shown \notin pending
    /\ SetState("in-turn")
    /\ UNCHANGED <<provider, loopVars, idleTimer, approvals, mode, messages,
                   agent, lifeVars>>

SetHold ==
    /\ "hold" \in Ops
    /\ ~held
    /\ held' = TRUE
    /\ idleTimer' = FALSE
    /\ SetState("hold")
    /\ consumedHeld' = 0
    /\ UNCHANGED <<provider, loop, iteratorDone, transportFailed, exited,
                   approvals, mode, messages, agent, lifeVars>>

\* Mistake: the waiting loop is not woken.
LoopAsleep == loop

\* _holdResolve and what the loop does next
LoopAwake ==
    IF loop = "holdWait" THEN IF iteratorDone THEN "exited" ELSE "next"
                         ELSE loop

\* Resuming runs the loop's continuation before any other handler.
Resume ==
    /\ held
    /\ held' = FALSE
    /\ loop' = LoopAwake
    /\ exited' = (exited \/ loop' = "exited")
    /\ IF iteratorDone
       THEN TransitionToIdle
       ELSE /\ SetState("in-turn")
            /\ UNCHANGED <<idleTimer, deferredQueue, messageQueue, steering,
                           accepted>>
    /\ UNCHANGED <<provider, iteratorDone, transportFailed, consumedHeld,
                   approvals, mode, delivered, agent, lifeVars>>

\* Mistake: the map is cleared and the queue beside it is not.
SettleWithoutQueue ==
    /\ verdict' = [r \in Requests |-> IF r \in pending THEN "deny"
                                                       ELSE verdict[r]]
    /\ pending' = {}
    /\ UNCHANGED <<approvalQueue, displayVars>>

\* abortFn on a provider whose calls share the session's signal: every
\* listener runs, in the order the requests were made.
SettleBySessionSignal ==
    /\ verdict' = [r \in Requests |-> IF r \in pending THEN "deny"
                                                       ELSE verdict[r]]
    /\ pending' = {}
    /\ approvalQueue' = <<>>
    /\ IF approvalQueue # <<>> /\ isFirstPending[Head(approvalQueue)]
       THEN EmitNextPending(Tail(approvalQueue))
       ELSE UNCHANGED displayVars

\* abort(), up to its await
AbortBegins ==
    /\ "kill" \in Ops
    /\ ~aborting
    /\ idleTimer' = FALSE
    /\ aborted' = TRUE
    /\ aborting' = TRUE
    /\ IF SignalPerCall
       THEN UNCHANGED <<displayVars, pending, approvalQueue, verdict>>
       ELSE SettleBySessionSignal
    /\ UNCHANGED <<provider, loopVars, isFirstPending, mode, messages, agent,
                   completed, killed, late>>

\* abort(), after the exit promise or the five second timeout
AbortEnds ==
    /\ aborting
    /\ aborting' = FALSE
    /\ completed' = TRUE
    /\ UNCHANGED <<provider, displayVars, loopVars, idleTimer, approvals, mode,
                   messages, agent, aborted, killed, late>>

\* terminate(reason): abortFn, then markTerminated, which wakes a held loop.
Terminate ==
    /\ "kill" \in Ops
    /\ aborted' = TRUE
    /\ MarkTerminated
    /\ iteratorDone' = (iteratorDone \/ state # "terminated")
    /\ loop' = IF loop = "holdWait" /\ state # "terminated" THEN "exited"
                                                            ELSE loop
    /\ exited' = (exited \/ state # "terminated")
    /\ UNCHANGED <<provider, transportFailed, consumedHeld, isFirstPending,
                   mode, messages, agent, aborting, late>>

-----------------------------------------------------------------------------
(* The provider's iterator and callbacks                                   *)

\* The agent starts a turn with the next queued message.
AgentTakes ==
    /\ agent = "waiting"
    /\ ~aborted
    /\ messageQueue # <<>>
    /\ delivered' = delivered \cup {Head(messageQueue)}
    /\ messageQueue' = Tail(messageQueue)
    /\ agent' = "turn"
    /\ late' = late \cup ToSet(Tail(messageQueue)) \cup steering
    /\ UNCHANGED <<provider, displayVars, loopVars, idleTimer, approvals, mode,
                   deferredQueue, steering, accepted, aborted, aborting,
                   completed, killed>>

\* canUseTool(r): handleToolApproval decides or asks.
ToolDecided(r) ==
    /\ agent = "turn"
    /\ verdict[r] = "none"
    /\ LET answer == IF aborted THEN "deny"
                     ELSE IF Rule[r] # "none" THEN Rule[r]
                     ELSE "allow"
       IN  /\ aborted \/ Rule[r] # "none" \/ AutoAllowed(Tool[r], mode)
           /\ verdict' = [verdict EXCEPT ![r] = answer]
    /\ UNCHANGED <<provider, displayVars, loopVars, idleTimer, pending,
                   approvalQueue, isFirstPending, mode, messages, agent,
                   lifeVars>>

\* Mistake: a request counts as the first while one other is pending.
AtMostOnePending == Cardinality(pending) <= 1

\* The test behind isFirstPending: nothing else waits for an answer.
NonePending == pending = {}

ToolAsked(r) ==
    /\ agent = "turn"
    /\ verdict[r] = "none"
    /\ ~aborted
    /\ Rule[r] = "none"
    /\ ~AutoAllowed(Tool[r], mode)
    /\ verdict' = [verdict EXCEPT ![r] = "open"]
    /\ isFirstPending' = [isFirstPending EXCEPT ![r] = NonePending]
    /\ pending' = pending \cup {r}
    /\ approvalQueue' = Append(approvalQueue, r)
    /\ IF NonePending THEN Show(r) ELSE UNCHANGED displayVars
    /\ UNCHANGED <<provider, loopVars, idleTimer, mode, messages, agent,
                   lifeVars>>

\* onAbort: the provider cancels one call.
CallAborted(r) ==
    /\ SignalPerCall
    /\ r \in pending
    /\ LET left == RemoveFirst(approvalQueue, r)
       IN  /\ pending' = pending \ {r}
           /\ approvalQueue' = left
           /\ verdict' = [verdict EXCEPT ![r] = "deny"]
           /\ IF isFirstPending[r] THEN EmitNextPending(left)
                                   ELSE UNCHANGED displayVars
    /\ UNCHANGED <<provider, isFirstPending, loopVars, idleTimer, mode,
                   messages, agent, lifeVars>>

\* Mistake: the hold is not looked at before next() is called again.
LoopRoundUnheld ==
    /\ loop' = IF iteratorDone THEN "exited" ELSE "next"
    /\ exited' = (exited \/ iteratorDone)
    /\ consumedHeld' = IF held /\ consumedHeld < 2 THEN consumedHeld + 1
                                                   ELSE consumedHeld
    /\ UNCHANGED <<held, iteratorDone, transportFailed>>

\* The loop goes round after handling one result of next().
LoopRound ==
    /\ loop' = IF iteratorDone THEN "exited" ELSE IF held THEN "holdWait"
                                                          ELSE "next"
    /\ exited' = (exited \/ iteratorDone)
    /\ consumedHeld' = IF held /\ consumedHeld < 2 THEN consumedHeld + 1
                                                   ELSE consumedHeld
    /\ UNCHANGED <<held, iteratorDone, transportFailed>>

\* next() yields an ordinary message, of a turn or before the first one.
IteratorMessage ==
    /\ agent # "ended"
    /\ loop = "next"
    /\ held \/ iteratorDone
    /\ LoopRound
    /\ UNCHANGED <<provider, displayVars, idleTimer, approvals, mode, messages,
                   agent, lifeVars>>

\* next() yields the result that ends the turn; every call was answered.
IteratorResult ==
    /\ agent = "turn"
    /\ loop = "next"
    /\ \A r \in Requests : ~Open(r)
    /\ agent' = "waiting"
    /\ LoopRound
    /\ TransitionToIdle
    /\ late' = late \ delivered
    /\ UNCHANGED <<provider, approvals, mode, delivered, aborted, aborting,
                   completed, killed>>

\* next() says done, or throws an error that is not a termination error.
\* Only "done" records that the iterator is done.
IteratorEnds(finished) ==
    /\ aborted \/ "fail" \in Ops
    /\ loop = "next"
    /\ agent' = "ended"
    /\ iteratorDone' = (iteratorDone \/ finished)
    /\ loop' = "exited"
    /\ exited' = TRUE
    /\ IF state # "waiting-input"
       THEN TransitionToIdle
       ELSE UNCHANGED <<displayVars, idleTimer, deferredQueue, messageQueue,
                        steering, accepted>>
    /\ UNCHANGED <<provider, held, transportFailed, consumedHeld, approvals,
                   mode, delivered, lifeVars>>

\* next() throws because the agent's process is gone.
IteratorDies ==
    /\ aborted \/ "fail" \in Ops
    /\ loop = "next"
    /\ agent' = "ended"
    /\ transportFailed' = TRUE
    /\ MarkTerminated
    /\ iteratorDone' = (iteratorDone \/ state # "terminated")
    /\ loop' = "exited"
    /\ exited' = TRUE
    /\ UNCHANGED <<provider, consumedHeld, isFirstPending, mode, messages,
                   aborted, aborting, late>>

-----------------------------------------------------------------------------
\* The idle timeout.  It re-arms itself while the agent is known to live.
IdleTimeout ==
    /\ idleTimer
    /\ \/ state # "idle"
       \/ agent = "ended"
       \/ ~LivenessKnown
    /\ idleTimer' = FALSE
    /\ completed' = (completed \/ state = "idle")
    /\ UNCHANGED <<provider, displayVars, loopVars, approvals, mode, messages,
                   agent, aborted, aborting, killed, late>>

-----------------------------------------------------------------------------
UserStep ==
    \/ \E m \in Messages : Send(m) \/ Defer(m) \/ CancelDeferred(m)
    \/ \E m \in Modes : SetPermissionMode(m)
    \/ \E r \in Requests : RespondPlain(r)
    \/ \E r \in Requests, m \in Messages : RespondWithFeedback(r, m)
    \/ RespondStale
    \/ SetHold \/ Resume
    \/ AbortBegins \/ AbortEnds \/ Terminate

AgentStep ==
    \/ AgentTakes
    \/ \E r \in Requests : ToolDecided(r) \/ ToolAsked(r) \/ CallAborted(r)
    \/ \E m \in Messages : SteerSettles(m)
    \/ IteratorMessage \/ IteratorResult \/ IteratorDies
    \/ \E finished \in BOOLEAN : IteratorEnds(finished)

Next == UserStep \/ AgentStep \/ IdleTimeout

Spec == Init /\ [][Next]_vars

(***************************************************************************)
(* Fairness.  The event loop runs what is ready; the agent works its queue *)
(* and ends its turns once its calls are answered; somebody answers the    *)
(* prompt on display, and a held session is resumed.                       *)
(***************************************************************************)
Fairness ==
    /\ WF_vars(AgentTakes)
    /\ WF_vars(IteratorResult)
    /\ \A m \in Messages : WF_vars(SteerSettles(m))
    /\ \A r \in Requests : WF_vars(shown = r /\ RespondPlain(r))
    /\ WF_vars(RespondStale)
    /\ WF_vars(Resume)

FairSpec == Spec /\ Fairness

-----------------------------------------------------------------------------
(* Type invariant                                                          *)

States == {"in-turn", "idle", "waiting-input", "hold", "terminated"}

DisplayTypeOK ==
    /\ state \in States
    /\ shown \in Requests \cup {NoRequest}
    /\ state = "waiting-input" <=> shown # NoRequest

LoopTypeOK ==
    /\ held \in BOOLEAN
    /\ loop \in {"next", "holdWait", "exited"}
    /\ iteratorDone \in BOOLEAN /\ transportFailed \in BOOLEAN
    /\ exited \in BOOLEAN
    /\ consumedHeld \in 0..2

ApprovalTypeOK ==
    /\ pending \subseteq Requests
    /\ approvalQueue \in Seq(Requests)
    /\ isFirstPending \in [Requests -> BOOLEAN]
    /\ verdict \in [Requests -> {"none", "open", "allow", "deny"}]
    /\ mode \in AllModes

MessageTypeOK ==
    /\ deferredQueue \in Seq(Messages)
    /\ messageQueue \in Seq(Messages)
    /\ steering \subseteq Messages
    /\ delivered \subseteq Messages
    /\ accepted \subseteq Messages

LifeTypeOK ==
    /\ provider \in Providers
    /\ idleTimer \in BOOLEAN
    /\ agent \in {"turn", "waiting", "ended"}
    /\ aborted \in BOOLEAN /\ aborting \in BOOLEAN
    /\ completed \in BOOLEAN /\ killed \in BOOLEAN

TypeOK ==
    /\ DisplayTypeOK
    /\ LoopTypeOK
    /\ ApprovalTypeOK
    /\ MessageTypeOK
    /\ LifeTypeOK
    /\ late \subseteq Messages

-----------------------------------------------------------------------------
(* Safety, whatever the users, the provider and the timers do              *)

\* The map of pending approvals and the FIFO queue beside it, updated by four
\* handlers, always agree, and no request is queued twice.
ApprovalBookkeeping ==
    /\ IsInjective(approvalQueue)
    /\ ToSet(approvalQueue) = pending

\* A canUseTool promise that is still open is one that a user, a signal or
\* termination can still settle: none is dropped from the map unanswered, and
\* an answered one is not offered again.
NoCallForgotten == \A r \in Requests : Open(r) <=> r \in pending

\* The flag an abort listener captured when its request was made is set only
\* on the request at the head of the queue.
FirstIsHead ==
    \A r \in pending : isFirstPending[r] => r = Head(approvalQueue)

\* setHold pauses the loop before the next call of next(): whatever happens
\* while the session is held, at most the one result already awaited is
\* consumed.
HoldStopsLoop == consumedHeld <= 1

\* A loop that waits for the resume is woken by whatever ends the hold,
\* whether a resume or a termination.
NoLostWakeup == loop = "holdWait" => held /\ ~exited

\* An idle session is never left without somebody to clean it up: its idle
\* timeout runs, an abort is under way, or its listeners were told.
IdleIsReaped == state = "idle" => idleTimer \/ aborting \/ completed

\* Until the session is terminated, a message whose sender was told success is
\* neither lost nor sent twice on its way through the deferred queue, a steer
\* call and the message queue to the agent.
MessagesKeptOnce ==
    LET deferred == ToSet(deferredQueue)
        queued   == ToSet(messageQueue)
        places   == deferred \cup queued \cup steering \cup delivered
    IN  /\ IsInjective(deferredQueue) /\ IsInjective(messageQueue)
        /\ deferred \cap (queued \cup steering \cup delivered) = {}
        /\ queued \cap (steering \cup delivered) = {}
        /\ steering \cap delivered = {}
        /\ places \subseteq accepted
        /\ ~killed => places = accepted

\* Until it is terminated or its iterator ends, a session shown as idle, whose
\* worker may be preempted, has no call waiting for an answer. It has a message
\* on its way to the agent, or a turn running, only if that message had to wait
\* while the agent ran a turn for another.
IdleIsQuiet ==
    state = "idle" /\ agent # "ended" /\ ~killed =>
        /\ pending = {}
        /\ ToSet(messageQueue) \cup steering \subseteq late
        /\ agent = "turn" => late \cap delivered # {}

\* An answer given to the agent is final, and a call that must be interactive
\* (a question, the approval of a plan) is never allowed without being asked,
\* whichever mode is switched on in between.
AnswersAreFinal ==
    [][\A r \in Requests :
         /\ verdict[r] \in {"allow", "deny"} => verdict'[r] = verdict[r]
         /\ verdict[r] = "none" /\ Interactive(Tool[r]) /\ Rule[r] = "none"
               => verdict'[r] # "allow"]_vars

\* With messages in the deferred queue a session does not become idle: it
\* feeds the next one instead.
NeverIdleOverDeferred ==
    [][state # "idle" /\ state' = "idle" => deferredQueue = <<>>]_vars

-----------------------------------------------------------------------------
(* Safety and liveness of a session that is not held, killed or failing,   *)
(* with the session's signal only                                          *)

\* The prompt on display is the oldest pending request, and there is one
\* exactly while requests are pending.
PromptIsOldest ==
    IF pending = {} THEN state # "waiting-input"
                    ELSE state = "waiting-input" /\ shown = Head(approvalQueue)

\* Every tool call that asks is answered, although only the one on display is
\* ever shown to the user.
CallsAnswered == \A r \in Requests : Open(r) ~> ~Open(r)

\* A message that is deferred while the agent runs a turn, or that is still
\* deferred when one runs, leaves the queue: to the agent or cancelled.
DeferredSent ==
    \A m \in Messages :
        m \in ToSet(deferredQueue) /\ agent = "turn"
            ~> m \notin ToSet(deferredQueue)

=============================================================================
