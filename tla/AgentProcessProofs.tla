------------------------- MODULE AgentProcessProofs -------------------------
(***************************************************************************)
(* Proofs about AgentProcess, for any sets of requests and messages, any   *)
(* permission rules and any provider.                                      *)
(*                                                                         *)
(* The inductive invariant IInv is proved part by part: ApprovalInv and    *)
(* LoopInv keep themselves; LifeInv needs ApprovalInv, because a prompt    *)
(* shows the head of the approval queue; MessageInv needs LifeInv, because *)
(* only a terminated session refuses messages; QuietInv needs both. The    *)
(* last theorem is about sessions with one signal for all calls            *)
(* (SharedSignal), with an invariant of its own on top of IInv.            *)
(***************************************************************************)
EXTENDS AgentProcess, QueueLemmas

ApprovalInv ==
    /\ ApprovalTypeOK
    /\ ApprovalBookkeeping
    /\ NoCallForgotten
    /\ FirstIsHead

-----------------------------------------------------------------------------
(* What the handlers do to the approval queue                              *)

LEMMA InitApprovals == Init => ApprovalInv
<1> SUFFICES ASSUME Init PROVE ApprovalInv
  OBVIOUS
<1>1. ApprovalTypeOK /\ NoCallForgotten /\ FirstIsHead
  BY ConstantsOK DEF Init, ApprovalTypeOK, NoCallForgotten, FirstIsHead, Open
<1>2. ApprovalBookkeeping
  BY DEF Init, ApprovalBookkeeping, IsInjective, ToSet
<1> QED
  BY <1>1, <1>2 DEF ApprovalInv

\* Taking one pending request out of the queue, with an answer.
LEMMA RequestSettled ==
    ASSUME ApprovalInv, NEW r \in pending, NEW answer \in {"allow", "deny"},
           mode' \in AllModes,
           verdict' = [verdict EXCEPT ![r] = answer],
           pending' = pending \ {r},
           approvalQueue' = RemoveFirst(approvalQueue, r),
           isFirstPending' = isFirstPending
    PROVE  ApprovalInv'
<1> USE DEF ApprovalInv, ApprovalTypeOK
<1>1. r \in ToSet(approvalQueue) /\ IsInjective(approvalQueue)
  BY DEF ApprovalBookkeeping
<1>2. /\ approvalQueue' \in Seq(Requests)
      /\ IsInjective(approvalQueue')
      /\ ToSet(approvalQueue') = ToSet(approvalQueue) \ {r}
      /\ Head(approvalQueue) # r => Head(approvalQueue') = Head(approvalQueue)
  BY <1>1, RemoveFromQueue
<1>3. ApprovalTypeOK'
  BY <1>2
<1>4. ApprovalBookkeeping'
  BY <1>2 DEF ApprovalBookkeeping
<1>5. NoCallForgotten'
  BY DEF NoCallForgotten, Open
<1>6. FirstIsHead'
  BY <1>2 DEF FirstIsHead
<1> QED
  BY <1>3, <1>4, <1>5, <1>6

\* Denying everything that is pending.
LEMMA AllSettled ==
    ASSUME ApprovalInv,
           mode' = mode,
           verdict' = [r \in Requests |-> IF r \in pending THEN "deny"
                                                           ELSE verdict[r]],
           pending' = {},
           approvalQueue' = <<>>,
           isFirstPending' = isFirstPending
    PROVE  ApprovalInv'
<1> USE DEF ApprovalInv, ApprovalTypeOK
<1>1. ApprovalTypeOK'
  OBVIOUS
<1>2. ApprovalBookkeeping'
  BY DEF ApprovalBookkeeping, IsInjective, ToSet
<1>3. NoCallForgotten' /\ FirstIsHead'
  BY DEF NoCallForgotten, FirstIsHead, Open
<1> QED
  BY <1>1, <1>2, <1>3

LEMMA ApprovalsKept ==
    ASSUME ApprovalInv, UNCHANGED approvals, mode' \in AllModes
    PROVE  ApprovalInv'
BY DEF ApprovalInv, ApprovalTypeOK, ApprovalBookkeeping, NoCallForgotten,
       FirstIsHead, Open, approvals

LEMMA MarkTerminatedKeepsApprovals ==
    ASSUME ApprovalInv, MarkTerminated, mode' = mode,
           isFirstPending' = isFirstPending
    PROVE  ApprovalInv'
<1>1. CASE state = "terminated"
  <2>1. UNCHANGED approvals /\ mode' \in AllModes
    BY <1>1 DEF MarkTerminated, approvals, ApprovalInv, ApprovalTypeOK
  <2> QED
    BY <2>1, ApprovalsKept
<1>2. CASE state # "terminated"
  BY <1>2, AllSettled DEF MarkTerminated
<1> QED
  BY <1>1, <1>2

LEMMA StepApprovals == ApprovalInv /\ [Next]_vars => ApprovalInv'
<1> SUFFICES ASSUME ApprovalInv, [Next]_vars PROVE ApprovalInv'
  OBVIOUS
<1>0. mode \in AllModes /\ pending \subseteq Requests
  BY DEF ApprovalInv, ApprovalTypeOK
<1>1. CASE UNCHANGED vars
  BY <1>0, <1>1, ApprovalsKept DEF vars, approvals
<1>2. ASSUME NEW m \in Messages, Send(m) \/ Defer(m) \/ CancelDeferred(m)
      PROVE  ApprovalInv'
  BY <1>0, <1>2, ApprovalsKept DEF Send, Defer, CancelDeferred
<1>3. ASSUME NEW m \in Modes, SetPermissionMode(m)
      PROVE  ApprovalInv'
  BY <1>3, ApprovalsKept, ConstantsOK DEF SetPermissionMode
<1>4. ASSUME NEW r \in Requests, NEW answer \in {"allow", "deny"},
             Respond(r, answer)
      PROVE  ApprovalInv'
  <2>1. mode' \in AllModes
    BY <1>0, <1>4 DEF Respond, ModeAfter, AllModes
  <2> QED
    BY <1>4, <2>1, RequestSettled DEF Respond
<1>5. CASE RespondStale \/ SetHold \/ Resume \/ AbortEnds
  BY <1>0, <1>5, ApprovalsKept DEF RespondStale, SetHold, Resume, AbortEnds
<1>6. CASE AbortBegins
  <2>1. CASE SignalPerCall
    BY <1>0, <1>6, <2>1, ApprovalsKept DEF AbortBegins, approvals
  <2>2. CASE ~SignalPerCall
    BY <1>6, <2>2, AllSettled DEF AbortBegins, SettleBySessionSignal
  <2> QED
    BY <2>1, <2>2
<1>7. CASE Terminate \/ IteratorDies
  BY <1>7, MarkTerminatedKeepsApprovals DEF Terminate, IteratorDies
<1>8. CASE AgentTakes \/ IteratorMessage \/ IteratorResult \/ IdleTimeout
  BY <1>0, <1>8, ApprovalsKept
     DEF AgentTakes, IteratorMessage, IteratorResult, IdleTimeout
<1>9. ASSUME NEW r \in Requests, ToolDecided(r)
      PROVE  ApprovalInv'
  <2>1. /\ verdict[r] = "none" /\ UNCHANGED mode
        /\ UNCHANGED <<pending, approvalQueue, isFirstPending>>
        /\ \E answer \in {"allow", "deny"} :
             verdict' = [verdict EXCEPT ![r] = answer]
    BY <1>9, ConstantsOK DEF ToolDecided
  <2> QED
    BY <2>1 DEF ApprovalInv, ApprovalTypeOK, ApprovalBookkeeping,
                NoCallForgotten, FirstIsHead, Open
<1>10. ASSUME NEW r \in Requests, ToolAsked(r)
       PROVE  ApprovalInv'
  <2> USE DEF ApprovalInv, ApprovalTypeOK
  <2>1. r \notin pending
    BY <1>10 DEF ToolAsked, NoCallForgotten, Open
  <2>2. r \notin ToSet(approvalQueue) /\ IsInjective(approvalQueue)
    BY <2>1 DEF ApprovalBookkeeping
  <2>3. approvalQueue' = Append(approvalQueue, r)
    BY <1>10 DEF ToolAsked
  <2>4. /\ approvalQueue' \in Seq(Requests)
        /\ IsInjective(approvalQueue')
        /\ ToSet(approvalQueue') = ToSet(approvalQueue) \cup {r}
        /\ approvalQueue # <<>> => Head(approvalQueue') = Head(approvalQueue)
        /\ approvalQueue = <<>> => Head(approvalQueue') = r
    BY <2>2, <2>3, AppendToQueue
  <2>5. pending = {} <=> approvalQueue = <<>>
    BY HeadOfQueue DEF ApprovalBookkeeping
  <2>6. ApprovalTypeOK' /\ NoCallForgotten'
    BY <1>10, <2>4 DEF ToolAsked, NonePending, NoCallForgotten, Open
  <2>7. ApprovalBookkeeping'
    BY <1>10, <2>4 DEF ToolAsked, ApprovalBookkeeping
  <2>8. FirstIsHead'
    BY <1>10, <2>1, <2>4, <2>5 DEF ToolAsked, NonePending, FirstIsHead
  <2> QED
    BY <2>6, <2>7, <2>8
<1>11. ASSUME NEW r \in Requests, CallAborted(r)
       PROVE  ApprovalInv'
  BY <1>0, <1>11, RequestSettled DEF CallAborted
<1>12. ASSUME NEW m \in Messages, SteerSettles(m)
       PROVE  ApprovalInv'
  BY <1>0, <1>12, ApprovalsKept DEF SteerSettles
<1>13. ASSUME NEW finished \in BOOLEAN, IteratorEnds(finished)
       PROVE  ApprovalInv'
  BY <1>0, <1>13, ApprovalsKept DEF IteratorEnds
<1> QED
  BY <1>1, <1>2, <1>3, <1>4, <1>5, <1>6, <1>7, <1>8, <1>9, <1>10, <1>11,
     <1>12, <1>13
     DEF Next, UserStep, AgentStep, RespondPlain, RespondWithFeedback

-----------------------------------------------------------------------------
(* The state on display                                                    *)

LEMMA NextPromptTyped ==
    ASSUME NEW q \in Seq(Requests), EmitNextPending(q)
    PROVE  DisplayTypeOK'
<1>1. q # <<>> => Head(q) \in Requests
  BY HeadOfQueue
<1> QED
  BY <1>1, ConstantsOK
     DEF EmitNextPending, Show, SetState, DisplayTypeOK, States

LEMMA DisplayKept ==
    ASSUME DisplayTypeOK,
           \/ UNCHANGED displayVars
           \/ \E s \in States \ {"waiting-input"} : SetState(s)
           \/ \E r \in Requests : Show(r)
    PROVE  DisplayTypeOK'
BY ConstantsOK DEF displayVars, SetState, Show, DisplayTypeOK, States

LEMMA TransitionTyped ==
    ASSUME DisplayTypeOK, TransitionToIdle
    PROVE  DisplayTypeOK'
<1>1. \/ UNCHANGED displayVars
      \/ \E s \in {"idle", "in-turn"} : SetState(s)
  BY DEF TransitionToIdle, WakeIfIdle
<1> QED
  BY <1>1, DisplayKept DEF States

LEMMA MarkTerminatedTyped ==
    ASSUME DisplayTypeOK, MarkTerminated
    PROVE  DisplayTypeOK'
<1>1. UNCHANGED displayVars \/ SetState("terminated")
  BY DEF MarkTerminated, displayVars
<1> QED
  BY <1>1, DisplayKept DEF States

LEMMA StepDisplay ==
    ApprovalInv /\ DisplayTypeOK /\ [Next]_vars => DisplayTypeOK'
<1> SUFFICES ASSUME ApprovalInv, DisplayTypeOK, [Next]_vars
             PROVE  DisplayTypeOK'
  OBVIOUS
<1>0. /\ approvalQueue \in Seq(Requests)
      /\ \A r \in pending : RemoveFirst(approvalQueue, r) \in Seq(Requests)
      /\ approvalQueue # <<>> => Tail(approvalQueue) \in Seq(Requests)
  BY RemoveFromQueue, TailOfQueue
     DEF ApprovalInv, ApprovalTypeOK, ApprovalBookkeeping
<1>1. CASE UNCHANGED displayVars
  BY <1>1, DisplayKept
<1>2. ASSUME NEW m \in Messages, Send(m)
      PROVE  DisplayTypeOK'
  BY <1>2, DisplayKept DEF Send, WakeIfIdle, States
<1>3. ASSUME NEW r \in Requests, NEW answer \in {"allow", "deny"},
             Respond(r, answer)
      PROVE  DisplayTypeOK'
  BY <1>0, <1>3, NextPromptTyped DEF Respond
<1>4. CASE RespondStale
  BY <1>4, DisplayKept DEF RespondStale, States
<1>5. CASE SetHold
  BY <1>5, DisplayKept DEF SetHold, States
<1>6. CASE Resume
  BY <1>6, DisplayKept, TransitionTyped DEF Resume, States
<1>7. CASE AbortBegins
  BY <1>0, <1>1, <1>7, NextPromptTyped DEF AbortBegins, SettleBySessionSignal
<1>8. CASE Terminate \/ IteratorDies
  BY <1>8, MarkTerminatedTyped DEF Terminate, IteratorDies
<1>9. ASSUME NEW r \in Requests, ToolAsked(r)
      PROVE  DisplayTypeOK'
  BY <1>9, DisplayKept DEF ToolAsked
<1>10. ASSUME NEW r \in Requests, CallAborted(r)
       PROVE  DisplayTypeOK'
  BY <1>0, <1>1, <1>10, NextPromptTyped DEF CallAborted
<1>11. CASE IteratorResult
  BY <1>11, TransitionTyped DEF IteratorResult
<1>12. ASSUME NEW finished \in BOOLEAN, IteratorEnds(finished)
       PROVE  DisplayTypeOK'
  BY <1>1, <1>12, TransitionTyped DEF IteratorEnds, displayVars
<1>13. ASSUME \/ AbortEnds \/ AgentTakes \/ IteratorMessage \/ IdleTimeout
              \/ \E m \in Messages : \/ Defer(m) \/ CancelDeferred(m)
                                     \/ SteerSettles(m)
              \/ \E m \in Modes : SetPermissionMode(m)
              \/ \E r \in Requests : ToolDecided(r)
       PROVE  UNCHANGED displayVars
  BY <1>13 DEF AbortEnds, AgentTakes, IteratorMessage, IdleTimeout, Defer,
     CancelDeferred, SteerSettles, SetPermissionMode, ToolDecided
<1>14. UNCHANGED vars => UNCHANGED displayVars
  BY DEF vars
<1> QED
  BY <1>1, <1>2, <1>3, <1>4, <1>5, <1>6, <1>7, <1>8, <1>9, <1>10, <1>11,
     <1>12, <1>13, <1>14
     DEF Next, UserStep, AgentStep, RespondPlain, RespondWithFeedback

-----------------------------------------------------------------------------
(* The loop that reads the iterator                                        *)

\* The exit promise resolves only when the loop is over or about to be; a loop
\* that goes on to next() during a hold has consumed nothing since it began.
LoopControl ==
    /\ exited => loop = "exited" \/ iteratorDone
    /\ held /\ loop = "next" => consumedHeld = 0

LoopInv ==
    /\ LoopTypeOK
    /\ LoopControl
    /\ NoLostWakeup
    /\ HoldStopsLoop

LEMMA InitLoop == Init => LoopInv
<1>1. Init => /\ ~held /\ loop = "next" /\ consumedHeld = 0
              /\ ~iteratorDone /\ ~transportFailed /\ ~exited
              /\ <<held, iteratorDone, transportFailed, exited>>
                   = <<FALSE, FALSE, FALSE, FALSE>>
  BY DEF Init
<1> QED
  BY <1>1 DEF LoopInv, LoopTypeOK, LoopControl, NoLostWakeup, HoldStopsLoop

LEMMA RoundKeepsLoop ==
    ASSUME LoopInv, loop = "next", LoopRound
    PROVE  LoopInv'
BY DEF LoopRound, LoopInv, LoopTypeOK, LoopControl, NoLostWakeup,
       HoldStopsLoop

LEMMA StepLoop == LoopInv /\ [Next]_vars => LoopInv'
<1> SUFFICES ASSUME LoopInv, [Next]_vars PROVE LoopInv'
  OBVIOUS
<1>1. CASE UNCHANGED loopVars
  BY <1>1 DEF loopVars, LoopInv, LoopTypeOK, LoopControl, NoLostWakeup,
              HoldStopsLoop
<1>2. CASE SetHold
  BY <1>2 DEF SetHold, LoopInv, LoopTypeOK, LoopControl, NoLostWakeup,
              HoldStopsLoop
<1>3. CASE Resume
  BY <1>3 DEF Resume, LoopAwake, LoopInv, LoopTypeOK, LoopControl, NoLostWakeup,
              HoldStopsLoop
<1>4. CASE Terminate
  BY <1>4 DEF Terminate, MarkTerminated, LoopInv, LoopTypeOK, LoopControl,
              NoLostWakeup, HoldStopsLoop
<1>5. CASE IteratorDies
  BY <1>5 DEF IteratorDies, MarkTerminated, LoopInv, LoopTypeOK, LoopControl,
              NoLostWakeup, HoldStopsLoop
<1>6. ASSUME NEW finished \in BOOLEAN, IteratorEnds(finished)
      PROVE  LoopInv'
  BY <1>6 DEF IteratorEnds, LoopInv, LoopTypeOK, LoopControl, NoLostWakeup,
              HoldStopsLoop
<1>7. CASE IteratorMessage \/ IteratorResult
  BY <1>7, RoundKeepsLoop DEF IteratorMessage, IteratorResult
<1>8. ASSUME \/ RespondStale \/ AbortBegins \/ AbortEnds
             \/ AgentTakes \/ IdleTimeout
             \/ \E m \in Messages : \/ Send(m) \/ Defer(m)
                                    \/ CancelDeferred(m) \/ SteerSettles(m)
             \/ \E m \in Modes : SetPermissionMode(m)
             \/ \E r \in Requests, answer \in {"allow", "deny"} :
                  Respond(r, answer)
             \/ \E r \in Requests : \/ ToolDecided(r) \/ ToolAsked(r)
                                    \/ CallAborted(r)
      PROVE  UNCHANGED loopVars
  BY <1>8 DEF RespondStale, AbortBegins, AbortEnds, AgentTakes, IdleTimeout,
     Send, Defer, CancelDeferred, SteerSettles, SetPermissionMode, Respond,
     ToolDecided, ToolAsked, CallAborted
<1>9. UNCHANGED vars => UNCHANGED loopVars
  BY DEF vars
<1> QED
  BY <1>1, <1>2, <1>3, <1>4, <1>5, <1>6, <1>7, <1>8, <1>9
     DEF Next, UserStep, AgentStep, RespondPlain, RespondWithFeedback

-----------------------------------------------------------------------------
(* Who cleans the session up                                               *)

\* Only markTerminated makes a session terminated or its transport failed.
KilledIsTold ==
    state = "terminated" \/ transportFailed => completed /\ killed

LifeInv ==
    /\ LifeTypeOK
    /\ KilledIsTold
    /\ IdleIsReaped

LEMMA InitLife == Init => LifeInv
BY DEF Init, LifeInv, LifeTypeOK, KilledIsTold, IdleIsReaped

LEMMA TransitionKeepsLife ==
    ASSUME LifeInv, TransitionToIdle, agent' \in {"turn", "waiting", "ended"},
           UNCHANGED <<provider, transportFailed, aborted, aborting, completed,
                       killed>>
    PROVE  LifeInv'
BY DEF TransitionToIdle, WakeIfIdle, SetState, displayVars, Refuses, LifeInv,
       LifeTypeOK, KilledIsTold, IdleIsReaped

LEMMA StepLife == LifeInv /\ [Next]_vars => LifeInv'
<1> SUFFICES ASSUME LifeInv, [Next]_vars PROVE LifeInv'
  OBVIOUS
<1> DEFINE relevant == <<provider, state, transportFailed, idleTimer, agent,
                         aborted, aborting, completed, killed>>
<1>1. CASE UNCHANGED relevant
  BY <1>1 DEF LifeInv, LifeTypeOK, KilledIsTold, IdleIsReaped
<1>2. ASSUME NEW m \in Messages, Send(m)
      PROVE  LifeInv'
  BY <1>2 DEF Send, WakeIfIdle, Refuses, SetState, displayVars, loopVars,
              lifeVars, LifeInv, LifeTypeOK, KilledIsTold, IdleIsReaped
<1>3. ASSUME NEW r \in Requests, NEW answer \in {"allow", "deny"},
             Respond(r, answer), idleTimer' \in BOOLEAN
      PROVE  LifeInv'
  BY <1>3 DEF Respond, EmitNextPending, Show, SetState, loopVars, lifeVars,
              LifeInv, LifeTypeOK, KilledIsTold, IdleIsReaped
<1>4. CASE RespondStale
  BY <1>4 DEF RespondStale, SetState, loopVars, lifeVars, LifeInv, LifeTypeOK,
              KilledIsTold, IdleIsReaped
<1>5. CASE SetHold
  BY <1>5 DEF SetHold, SetState, lifeVars, LifeInv, LifeTypeOK, KilledIsTold,
              IdleIsReaped
<1>6. CASE Resume
  <2>1. CASE iteratorDone
    BY <1>6, <2>1, TransitionKeepsLife DEF Resume, lifeVars, LifeInv,
       LifeTypeOK
  <2>2. CASE ~iteratorDone
    BY <1>6, <2>2 DEF Resume, SetState, lifeVars, LifeInv, LifeTypeOK,
       KilledIsTold, IdleIsReaped
  <2> QED
    BY <2>1, <2>2
<1>7. CASE AbortBegins
  BY <1>7 DEF AbortBegins, SettleBySessionSignal, EmitNextPending, Show,
              SetState, displayVars, loopVars, LifeInv, LifeTypeOK,
              KilledIsTold, IdleIsReaped
<1>8. CASE AbortEnds
  BY <1>8 DEF AbortEnds, displayVars, loopVars, LifeInv, LifeTypeOK,
              KilledIsTold, IdleIsReaped
<1>9. CASE Terminate
  BY <1>9 DEF Terminate, MarkTerminated, SetState, displayVars, LifeInv,
              LifeTypeOK, KilledIsTold, IdleIsReaped
<1>10. CASE IteratorDies
  BY <1>10 DEF IteratorDies, MarkTerminated, SetState, displayVars, LifeInv,
               LifeTypeOK, KilledIsTold, IdleIsReaped
<1>11. ASSUME NEW r \in Requests, ToolAsked(r)
       PROVE  LifeInv'
  BY <1>11 DEF ToolAsked, Show, displayVars, loopVars, lifeVars, LifeInv,
               LifeTypeOK, KilledIsTold, IdleIsReaped
<1>12. ASSUME NEW r \in Requests, CallAborted(r)
       PROVE  LifeInv'
  BY <1>12 DEF CallAborted, EmitNextPending, Show, SetState, displayVars,
               loopVars, lifeVars, LifeInv, LifeTypeOK, KilledIsTold,
               IdleIsReaped
<1>13. CASE AgentTakes
  BY <1>13 DEF AgentTakes, displayVars, loopVars, lifeVars, LifeInv,
               LifeTypeOK, KilledIsTold, IdleIsReaped
<1>14. CASE IteratorResult
  BY <1>14, TransitionKeepsLife DEF IteratorResult, LoopRound, lifeVars
<1>15. ASSUME NEW finished \in BOOLEAN, IteratorEnds(finished)
       PROVE  LifeInv'
  <2>1. CASE state # "waiting-input"
    BY <1>15, <2>1, TransitionKeepsLife DEF IteratorEnds, lifeVars
  <2>2. CASE state = "waiting-input"
    BY <1>15, <2>2 DEF IteratorEnds, displayVars, lifeVars, LifeInv,
       LifeTypeOK, KilledIsTold, IdleIsReaped
  <2> QED
    BY <2>1, <2>2
<1>16. CASE IdleTimeout
  BY <1>16 DEF IdleTimeout, displayVars, loopVars, LifeInv, LifeTypeOK,
               KilledIsTold, IdleIsReaped
<1>17. ASSUME \/ IteratorMessage
              \/ \E m \in Messages : \/ Defer(m) \/ CancelDeferred(m)
                                     \/ SteerSettles(m)
              \/ \E m \in Modes : SetPermissionMode(m)
              \/ \E r \in Requests : ToolDecided(r)
       PROVE  UNCHANGED relevant
  BY <1>17 DEF IteratorMessage, LoopRound, Defer, CancelDeferred,
     SteerSettles, SetPermissionMode, ToolDecided, displayVars, loopVars,
     lifeVars
<1>18. UNCHANGED vars => UNCHANGED relevant
  BY DEF vars, displayVars, loopVars, lifeVars
<1>19. idleTimer \in BOOLEAN
  BY DEF LifeInv, LifeTypeOK
<1>20. ASSUME NEW r \in Requests, RespondPlain(r)
       PROVE  LifeInv'
  BY <1>3, <1>19, <1>20 DEF RespondPlain
<1>21. ASSUME NEW r \in Requests, NEW m \in Messages,
              RespondWithFeedback(r, m)
       PROVE  LifeInv'
  BY <1>3, <1>19, <1>21 DEF RespondWithFeedback
<1> QED
  BY <1>1, <1>2, <1>4, <1>5, <1>6, <1>7, <1>8, <1>9, <1>10, <1>11, <1>12,
     <1>13, <1>14, <1>15, <1>16, <1>17, <1>18, <1>20, <1>21
     DEF Next, UserStep, AgentStep

-----------------------------------------------------------------------------
(* Where the users' messages are                                           *)

MessageInv ==
    /\ MessageTypeOK
    /\ MessagesKeptOnce

LEMMA InitMessages == Init => MessageInv
<1>1. IsInjective(<<>>) /\ ToSet(<<>>) = {}
  BY DEF IsInjective, ToSet
<1> QED
  BY <1>1 DEF Init, MessageInv, MessageTypeOK, MessagesKeptOnce

LEMMA MessagesKept ==
    ASSUME MessageInv, UNCHANGED messages, killed => killed'
    PROVE  MessageInv'
BY DEF messages, MessageInv, MessageTypeOK, MessagesKeptOnce

\* A message that goes to the end of the message queue, from wherever it was.
LEMMA MessageAppended ==
    ASSUME MessageInv, NEW m \in Messages,
           m \notin ToSet(messageQueue),
           messageQueue' = Append(messageQueue, m)
    PROVE  /\ messageQueue' \in Seq(Messages)
           /\ IsInjective(messageQueue')
           /\ ToSet(messageQueue') = ToSet(messageQueue) \cup {m}
BY AppendToQueue DEF MessageInv, MessageTypeOK, MessagesKeptOnce

LEMMA NewMessageQueued ==
    ASSUME MessageInv, Refuses => killed, NEW m \in Messages, m \notin accepted,
           QueueMessage(m), UNCHANGED <<deferredQueue, delivered, killed>>
    PROVE  MessageInv'
<1>1. CASE Refuses
  BY <1>1, MessagesKept DEF QueueMessage, messages
<1>2. CASE ~Refuses
  <2>1. /\ m \notin ToSet(messageQueue) /\ m \notin ToSet(deferredQueue)
        /\ m \notin steering /\ m \notin delivered
    BY DEF MessageInv, MessagesKeptOnce
  <2>2. CASE Steers /\ state = "in-turn"
    BY <1>2, <2>1, <2>2
       DEF QueueMessage, MessageInv, MessageTypeOK, MessagesKeptOnce
  <2>3. CASE ~(Steers /\ state = "in-turn")
    <3>1. /\ messageQueue' = Append(messageQueue, m)
          /\ accepted' = accepted \cup {m}
          /\ UNCHANGED steering
      BY <1>2, <2>3 DEF QueueMessage
    <3>2. /\ messageQueue' \in Seq(Messages)
          /\ IsInjective(messageQueue')
          /\ ToSet(messageQueue') = ToSet(messageQueue) \cup {m}
      BY <2>1, <3>1, MessageAppended
    <3> QED
      BY <2>1, <3>1, <3>2 DEF MessageInv, MessageTypeOK, MessagesKeptOnce
  <2> QED
    BY <2>2, <2>3
<1> QED
  BY <1>1, <1>2

\* transitionToIdle moves the first deferred message on, unless the session is
\* terminated and drops it.
LEMMA DeferredFed ==
    ASSUME MessageInv, Refuses => killed, TransitionToIdle,
           UNCHANGED <<delivered, killed>>
    PROVE  MessageInv'
<1>1. CASE deferredQueue = <<>>
  BY <1>1, MessagesKept DEF TransitionToIdle, messages
<1>2. CASE deferredQueue # <<>>
  <2> DEFINE m == Head(deferredQueue)
  <2>1. /\ m \in Messages /\ m \in ToSet(deferredQueue)
        /\ Tail(deferredQueue) \in Seq(Messages)
        /\ IsInjective(Tail(deferredQueue))
        /\ ToSet(Tail(deferredQueue)) = ToSet(deferredQueue) \ {m}
    BY <1>2, TailOfQueue DEF MessageInv, MessageTypeOK, MessagesKeptOnce
  <2>2. deferredQueue' = Tail(deferredQueue) /\ QueueMessage(m)
    BY <1>2 DEF TransitionToIdle
  <2> HIDE DEF m
  <2>3. /\ m \notin ToSet(messageQueue) /\ m \notin steering
        /\ m \notin delivered /\ m \in accepted
    BY <2>1 DEF MessageInv, MessagesKeptOnce
  <2>4. CASE Refuses
    BY <2>1, <2>2, <2>4
       DEF QueueMessage, MessageInv, MessageTypeOK, MessagesKeptOnce
  <2>5. CASE ~Refuses /\ Steers /\ state = "in-turn"
    BY <2>1, <2>2, <2>3, <2>5
       DEF QueueMessage, MessageInv, MessageTypeOK, MessagesKeptOnce
  <2>6. CASE ~Refuses /\ ~(Steers /\ state = "in-turn")
    <3>1. /\ messageQueue' = Append(messageQueue, m)
          /\ accepted' = accepted \cup {m}
          /\ UNCHANGED steering
      BY <2>2, <2>6 DEF QueueMessage
    <3>2. /\ messageQueue' \in Seq(Messages)
          /\ IsInjective(messageQueue')
          /\ ToSet(messageQueue') = ToSet(messageQueue) \cup {m}
      BY <2>1, <2>3, <3>1, MessageAppended
    <3> QED
      BY <2>1, <2>2, <2>3, <3>1, <3>2
         DEF MessageInv, MessageTypeOK, MessagesKeptOnce
  <2> QED
    BY <2>4, <2>5, <2>6
<1> QED
  BY <1>1, <1>2

LEMMA StepMessages == LifeInv /\ MessageInv /\ [Next]_vars => MessageInv'
<1> SUFFICES ASSUME LifeInv, MessageInv, [Next]_vars PROVE MessageInv'
  OBVIOUS
<1>0. Refuses => killed
  BY DEF LifeInv, KilledIsTold, Refuses
<1>1. ASSUME NEW m \in Messages, Send(m)
      PROVE  MessageInv'
  BY <1>0, <1>1, NewMessageQueued DEF Send, lifeVars
<1>2. ASSUME NEW m \in Messages, Defer(m)
      PROVE  MessageInv'
  <2>1. /\ m \notin ToSet(deferredQueue) /\ m \notin ToSet(messageQueue)
        /\ m \notin steering /\ m \notin delivered
    BY <1>2 DEF Defer, MessageInv, MessagesKeptOnce
  <2>2. /\ deferredQueue' \in Seq(Messages)
        /\ IsInjective(deferredQueue')
        /\ ToSet(deferredQueue') = ToSet(deferredQueue) \cup {m}
    BY <1>2, <2>1, AppendToQueue
       DEF Defer, MessageInv, MessageTypeOK, MessagesKeptOnce
  <2> QED
    BY <1>2, <2>1, <2>2
       DEF Defer, lifeVars, MessageInv, MessageTypeOK, MessagesKeptOnce
<1>3. ASSUME NEW m \in Messages, CancelDeferred(m)
      PROVE  MessageInv'
  <2>1. /\ deferredQueue' \in Seq(Messages)
        /\ IsInjective(deferredQueue')
        /\ ToSet(deferredQueue') = ToSet(deferredQueue) \ {m}
    BY <1>3, RemoveFromQueue
       DEF CancelDeferred, MessageInv, MessageTypeOK, MessagesKeptOnce
  <2> QED
    BY <1>3, <2>1
       DEF CancelDeferred, lifeVars, MessageInv, MessageTypeOK,
           MessagesKeptOnce
<1>4. ASSUME NEW m \in Messages, SteerSettles(m)
      PROVE  MessageInv'
  <2>1. m \notin ToSet(messageQueue) /\ m \notin ToSet(deferredQueue)
    BY <1>4 DEF SteerSettles, MessageInv, MessagesKeptOnce
  <2>2. CASE delivered' = delivered \cup {m} /\ UNCHANGED messageQueue
    BY <1>4, <2>1, <2>2
       DEF SteerSettles, lifeVars, MessageInv, MessageTypeOK, MessagesKeptOnce
  <2>3. CASE /\ messageQueue' = Append(messageQueue, m)
             /\ UNCHANGED delivered
    <3>1. /\ messageQueue' \in Seq(Messages)
          /\ IsInjective(messageQueue')
          /\ ToSet(messageQueue') = ToSet(messageQueue) \cup {m}
      BY <2>1, <2>3, MessageAppended
    <3> QED
      BY <1>4, <2>1, <2>3, <3>1
         DEF SteerSettles, lifeVars, MessageInv, MessageTypeOK,
             MessagesKeptOnce
  <2> QED
    BY <1>4, <2>2, <2>3 DEF SteerSettles
<1>5. ASSUME NEW r \in Requests, NEW m \in Messages,
             RespondWithFeedback(r, m)
      PROVE  MessageInv'
  BY <1>0, <1>5, NewMessageQueued DEF RespondWithFeedback, Respond, lifeVars
<1>6. CASE Resume
  <2>1. CASE iteratorDone
    BY <1>0, <1>6, <2>1, DeferredFed DEF Resume, lifeVars
  <2>2. CASE ~iteratorDone
    BY <1>6, <2>2, MessagesKept DEF Resume, messages, lifeVars
  <2> QED
    BY <2>1, <2>2
<1>7. CASE AgentTakes
  <2>1. /\ messageQueue' \in Seq(Messages)
        /\ IsInjective(messageQueue')
        /\ Head(messageQueue) \in ToSet(messageQueue)
        /\ ToSet(messageQueue') = ToSet(messageQueue) \ {Head(messageQueue)}
    BY <1>7, TailOfQueue
       DEF AgentTakes, MessageInv, MessageTypeOK, MessagesKeptOnce
  <2>2. Head(messageQueue) \in Messages
    BY <1>7, HeadOfQueue DEF AgentTakes, MessageInv, MessageTypeOK
  <2> QED
    BY <1>7, <2>1, <2>2
       DEF AgentTakes, lifeVars, MessageInv, MessageTypeOK, MessagesKeptOnce
<1>8. CASE IteratorResult
  BY <1>0, <1>8, DeferredFed DEF IteratorResult, lifeVars
<1>9. ASSUME NEW finished \in BOOLEAN, IteratorEnds(finished)
      PROVE  MessageInv'
  <2>1. CASE state # "waiting-input"
    BY <1>0, <1>9, <2>1, DeferredFed DEF IteratorEnds, lifeVars
  <2>2. CASE state = "waiting-input"
    BY <1>9, <2>2, MessagesKept DEF IteratorEnds, messages, lifeVars
  <2> QED
    BY <2>1, <2>2
<1>10. ASSUME \/ RespondStale \/ SetHold \/ AbortBegins \/ AbortEnds
              \/ Terminate \/ IteratorMessage \/ IteratorDies \/ IdleTimeout
              \/ \E m \in Modes : SetPermissionMode(m)
              \/ \E r \in Requests : \/ RespondPlain(r) \/ ToolDecided(r)
                                     \/ ToolAsked(r) \/ CallAborted(r)
       PROVE  UNCHANGED messages /\ (killed => killed')
  BY <1>10 DEF RespondStale, SetHold, AbortBegins, AbortEnds, Terminate,
     MarkTerminated, IteratorMessage, IteratorDies, IdleTimeout,
     SetPermissionMode, RespondPlain, Respond, ToolDecided, ToolAsked,
     CallAborted, lifeVars, messages
<1>11. UNCHANGED vars => UNCHANGED messages /\ (killed => killed')
  BY DEF vars, lifeVars
<1> QED
  BY <1>1, <1>2, <1>3, <1>4, <1>5, <1>6, <1>7, <1>8, <1>9, <1>10, <1>11,
     MessagesKept DEF Next, UserStep, AgentStep

-----------------------------------------------------------------------------
(* The idle state                                                          *)

(* Unless the session was terminated: while a turn runs, every message on  *)
(* its way waits for it; only a running turn has calls waiting for an      *)
(* answer, and an idle session has none. The iterator is done only in a    *)
(* session that is over.                                                   *)
QuietInv ==
    /\ late \subseteq Messages
    /\ iteratorDone => killed \/ agent = "ended"
    /\ agent = "turn" /\ ~killed =>
           ToSet(messageQueue) \cup steering \subseteq late
    /\ pending # {} /\ agent # "ended" /\ ~killed =>
           agent = "turn" /\ state # "idle"
    /\ IdleIsQuiet

(* What QuietInv looks at *)
quietVars == <<state, agent, killed, late, iteratorDone, pending, messageQueue,
               steering, delivered>>

LEMMA InitQuiet == Init => QuietInv
<1>1. ToSet(<<>>) = {}
  BY DEF ToSet
<1> QED
  BY <1>1 DEF Init, QuietInv, IdleIsQuiet

\* Where a message goes that queueMessage takes
LEMMA QueuedSomewhere ==
    ASSUME MessageInv, NEW m \in Messages, m \notin ToSet(messageQueue),
           QueueMessage(m)
    PROVE  ToSet(messageQueue') \cup steering'
               \subseteq ToSet(messageQueue) \cup steering \cup {m}
<1>1. messageQueue' \in {messageQueue, Append(messageQueue, m)}
      /\ steering' \in {steering, steering \cup {m}}
  BY DEF QueueMessage
<1>2. ToSet(Append(messageQueue, m)) = ToSet(messageQueue) \cup {m}
  BY AppendToQueue DEF MessageInv, MessageTypeOK, MessagesKeptOnce
<1> QED
  BY <1>1, <1>2

LEMMA StepQuiet ==
    ASSUME ApprovalInv, LifeInv, MessageInv, QuietInv, [Next]_vars
    PROVE  QuietInv'
<1>0. /\ messageQueue \in Seq(Messages) /\ deferredQueue \in Seq(Messages)
      /\ steering \subseteq Messages /\ late \subseteq Messages
      /\ pending \subseteq Requests
      /\ \A r \in Requests : verdict[r] = "open" <=> r \in pending
      /\ agent \in {"turn", "waiting", "ended"}
      /\ Refuses => killed
      /\ delivered \cap (ToSet(messageQueue) \cup steering) = {}
      /\ ToSet(messageQueue) \subseteq accepted
  BY DEF QuietInv, ApprovalInv, ApprovalTypeOK, NoCallForgotten, Open, LifeInv,
     LifeTypeOK, KilledIsTold, Refuses, MessageInv, MessageTypeOK,
     MessagesKeptOnce
<1>1. CASE UNCHANGED quietVars
  BY <1>1 DEF QuietInv, IdleIsQuiet, quietVars
<1>2. ASSUME NEW q, EmitNextPending(q)
      PROVE  state' \in {"waiting-input", "in-turn"}
  BY <1>2 DEF EmitNextPending, Show, SetState
<1>3. ASSUME NEW m \in Messages, m \notin accepted, QueueMessage(m), late' = LateWith(m),
             UNCHANGED <<agent, killed, iteratorDone>>, pending' \subseteq pending,
             state' = "idle" => killed
      PROVE  QuietInv'
  <2>1. ToSet(messageQueue') \cup steering'
            \subseteq ToSet(messageQueue) \cup steering \cup {m}
    BY <1>0, <1>3, QueuedSomewhere
  <2> QED
    BY <1>0, <1>3, <2>1 DEF QuietInv, IdleIsQuiet, LateWith
<1>4. ASSUME NEW m \in Messages, Send(m)
      PROVE  QuietInv'
  <2>1. state' = "idle" => killed
    BY <1>0, <1>4 DEF Send, WakeIfIdle, SetState, displayVars
  <2> QED
    BY <1>3, <1>4, <2>1 DEF Send, loopVars, approvals
<1>5. ASSUME NEW r \in Requests, NEW m \in Messages, RespondWithFeedback(r, m)
      PROVE  QuietInv'
  <2>1. state' # "idle" /\ pending' \subseteq pending
    BY <1>2, <1>5 DEF RespondWithFeedback, Respond
  <2> QED
    BY <1>3, <1>5, <2>1 DEF RespondWithFeedback, Respond, loopVars
<1>6. ASSUME UNCHANGED <<agent, killed, late, iteratorDone, messageQueue, steering,
                         delivered>>,
             pending' \subseteq pending, state' = "idle" => state = "idle"
      PROVE  QuietInv'
  BY <1>6 DEF QuietInv, IdleIsQuiet
<1>7. ASSUME NEW r \in Requests, RespondPlain(r) \/ CallAborted(r)
      PROVE  QuietInv'
  <2>1. UNCHANGED <<agent, killed, late, iteratorDone, messageQueue, steering,
                    delivered>>
    BY <1>7 DEF RespondPlain, Respond, CallAborted, loopVars, messages, lifeVars
  <2>2. pending' \subseteq pending /\ (state' = "idle" => state = "idle")
    BY <1>2, <1>7 DEF RespondPlain, Respond, CallAborted, displayVars
  <2> QED
    BY <1>6, <2>1, <2>2
<1>8. CASE RespondStale \/ SetHold
  BY <1>6, <1>8 DEF RespondStale, SetHold, SetState, approvals, loopVars,
     messages, lifeVars
<1>9. CASE AbortBegins
  <2>1. /\ UNCHANGED <<agent, killed, late, iteratorDone, messageQueue, steering,
                       delivered>>
        /\ pending' \subseteq pending
    BY <1>9 DEF AbortBegins, SettleBySessionSignal, loopVars, messages
  <2>2. state' = "idle" => state = "idle"
    BY <1>2, <1>9 DEF AbortBegins, SettleBySessionSignal, displayVars
  <2> QED
    BY <1>6, <2>1, <2>2
<1>10. ASSUME killed' \/ agent' = "ended", late' \subseteq Messages
       PROVE  QuietInv'
  BY <1>10 DEF QuietInv, IdleIsQuiet
<1>11. CASE Terminate \/ IteratorDies
  <2>1. killed' = TRUE /\ late' = late
    BY <1>11 DEF Terminate, IteratorDies, MarkTerminated
  <2> QED
    BY <1>0, <1>10, <2>1
<1>12. ASSUME NEW finished \in BOOLEAN, IteratorEnds(finished)
       PROVE  QuietInv'
  BY <1>0, <1>10, <1>12 DEF IteratorEnds, lifeVars
<1>13. CASE Resume
  <2>1. CASE iteratorDone
    BY <1>0, <1>10, <1>13, <2>1 DEF QuietInv, Resume, lifeVars
  <2>2. CASE ~iteratorDone
    BY <1>6, <1>13, <2>2 DEF Resume, SetState, approvals, lifeVars
  <2> QED
    BY <2>1, <2>2
<1>14. CASE AgentTakes
  <2> DEFINE m == Head(messageQueue)
  <2>1. /\ m \in ToSet(messageQueue) /\ Tail(messageQueue) \in Seq(Messages)
        /\ ToSet(Tail(messageQueue)) = ToSet(messageQueue) \ {m}
    BY <1>0, <1>14, TailOfQueue
       DEF AgentTakes, MessageInv, MessageTypeOK, MessagesKeptOnce
  <2>2. ToSet(messageQueue) \subseteq Messages
    BY DEF MessageInv, MessageTypeOK, ToSet
  <2>3. /\ agent = "waiting" /\ agent' = "turn" /\ steering' = steering
        /\ delivered' = delivered \cup {m} /\ messageQueue' = Tail(messageQueue)
        /\ late' = late \cup ToSet(Tail(messageQueue)) \cup steering
        /\ UNCHANGED <<state, killed, iteratorDone, pending>>
    BY <1>14 DEF AgentTakes, displayVars, loopVars, approvals
  <2> HIDE DEF m
  <2> QED
    BY <1>0, <2>1, <2>2, <2>3 DEF QuietInv, IdleIsQuiet
<1>15. CASE IteratorResult
  <2>1. /\ agent = "turn" /\ agent' = "waiting" /\ late' = late \ delivered
        /\ pending = {} /\ TransitionToIdle
        /\ UNCHANGED <<pending, killed, iteratorDone>>
    BY <1>0, <1>15 DEF IteratorResult, LoopRound, approvals, Open
  <2>2. CASE deferredQueue = <<>>
    BY <1>0, <2>1, <2>2 DEF QuietInv, IdleIsQuiet, TransitionToIdle
  <2>3. CASE deferredQueue # <<>>
    <3>1. state' = "idle" => killed
      BY <1>0, <2>1, <2>3
         DEF TransitionToIdle, WakeIfIdle, SetState, displayVars
    <3> QED
      BY <1>0, <2>1, <3>1 DEF QuietInv, IdleIsQuiet
  <2> QED
    BY <2>2, <2>3
<1>16. ASSUME NEW r \in Requests, ToolAsked(r)
       PROVE  QuietInv'
  <2>1. /\ agent = "turn"
        /\ pending = {} => state' = "waiting-input"
        /\ pending # {} => state' = state
        /\ UNCHANGED <<agent, killed, late, iteratorDone, messageQueue, steering>>
    BY <1>16 DEF ToolAsked, NonePending, Show, displayVars, loopVars, messages,
       lifeVars
  <2> QED
    BY <1>0, <2>1 DEF QuietInv, IdleIsQuiet
<1>17. ASSUME NEW m \in Messages, SteerSettles(m)
       PROVE  QuietInv'
  <2>1. UNCHANGED <<state, agent, killed, late, iteratorDone, pending>>
    BY <1>17 DEF SteerSettles, displayVars, loopVars, approvals, lifeVars
  <2>2. /\ delivered \subseteq delivered'
        /\ ToSet(messageQueue') \cup steering'
             \subseteq ToSet(messageQueue) \cup steering
    <3>1. m \in steering /\ m \notin ToSet(messageQueue)
      BY <1>17 DEF SteerSettles, MessageInv, MessagesKeptOnce
    <3>2. ToSet(Append(messageQueue, m)) = ToSet(messageQueue) \cup {m}
      BY <3>1, AppendToQueue DEF MessageInv, MessageTypeOK, MessagesKeptOnce
    <3> QED
      BY <1>17, <3>1, <3>2 DEF SteerSettles
  <2> QED
    BY <2>1, <2>2 DEF QuietInv, IdleIsQuiet
<1>18. ASSUME \/ AbortEnds \/ IteratorMessage \/ IdleTimeout
              \/ \E m \in Messages : Defer(m) \/ CancelDeferred(m)
              \/ \E m \in Modes : SetPermissionMode(m)
              \/ \E r \in Requests : ToolDecided(r)
       PROVE  UNCHANGED quietVars
  BY <1>18 DEF AbortEnds, IteratorMessage, LoopRound, IdleTimeout, Defer,
     CancelDeferred, SetPermissionMode, ToolDecided, displayVars, loopVars,
     approvals, messages, lifeVars, quietVars
<1>19. UNCHANGED vars => UNCHANGED quietVars
  BY DEF vars, displayVars, loopVars, approvals, messages, lifeVars, quietVars
<1> QED
  BY <1>1, <1>4, <1>5, <1>7, <1>8, <1>9, <1>11, <1>12, <1>13, <1>14, <1>15,
     <1>16, <1>17, <1>18, <1>19 DEF Next, UserStep, AgentStep

-----------------------------------------------------------------------------
(* The theorems                                                            *)

IInv ==
    /\ ApprovalInv
    /\ DisplayTypeOK
    /\ LoopInv
    /\ LifeInv
    /\ MessageInv
    /\ QuietInv

\* Init, and every handler, callback and timer, establishes or keeps IInv.
THEOREM Inductive == Spec => []IInv
<1>1. Init => IInv
  BY InitApprovals, InitLoop, InitLife, InitMessages, InitQuiet
     DEF IInv, Init, DisplayTypeOK, States
<1>2. IInv /\ [Next]_vars => IInv'
  BY StepApprovals, StepDisplay, StepLoop, StepLife, StepMessages, StepQuiet
     DEF IInv
<1> QED
  BY <1>1, <1>2, PTL DEF Spec

\* The session's variables keep their types.
THEOREM TypeCorrect == Spec => []TypeOK
<1>1. IInv => TypeOK
  BY DEF IInv, ApprovalInv, LoopInv, LifeInv, MessageInv, QuietInv, TypeOK
<1> QED
  BY <1>1, Inductive, PTL

\* Whichever of respondToInput, the abort listener, the session's abort and
\* markTerminated settles a call, the map of pending approvals and the queue
\* beside it agree, and nothing is queued twice.
THEOREM ApprovalsTracked == Spec => []ApprovalBookkeeping
<1>1. IInv => ApprovalBookkeeping
  BY DEF IInv, ApprovalInv
<1> QED
  BY <1>1, Inductive, PTL

\* A canUseTool promise is open exactly while somebody can still settle it.
THEOREM OpenCallsTracked == Spec => []NoCallForgotten
<1>1. IInv => NoCallForgotten
  BY DEF IInv, ApprovalInv
<1> QED
  BY <1>1, Inductive, PTL

\* Only the request at the head of the queue has a listener that shows the
\* next one when it is aborted.
THEOREM FlagMarksHead == Spec => []FirstIsHead
<1>1. IInv => FirstIsHead
  BY DEF IInv, ApprovalInv
<1> QED
  BY <1>1, Inductive, PTL

\* After setHold the loop consumes at most the one result it already awaits.
THEOREM HoldPausesLoop == Spec => []HoldStopsLoop
<1>1. IInv => HoldStopsLoop
  BY DEF IInv, LoopInv
<1> QED
  BY <1>1, Inductive, PTL

\* The end of a hold, by resume or by termination, always wakes the loop.
THEOREM HoldWakesLoop == Spec => []NoLostWakeup
<1>1. IInv => NoLostWakeup
  BY DEF IInv, LoopInv
<1> QED
  BY <1>1, Inductive, PTL

\* An idle session has an idle timeout running, an abort under way, or has
\* told the Supervisor that it is complete.
THEOREM IdleSessionsReaped == Spec => []IdleIsReaped
<1>1. IInv => IdleIsReaped
  BY DEF IInv, LifeInv
<1> QED
  BY <1>1, Inductive, PTL

\* A message on its way through the deferred queue, a steer call and the
\* message queue is in one place at a time and, until the session is
\* terminated, every accepted message is in one.
THEOREM MessagesSafe == Spec => []MessagesKeptOnce
<1>1. IInv => MessagesKeptOnce
  BY DEF IInv, MessageInv
<1> QED
  BY <1>1, Inductive, PTL

\* A session shown as idle has no call waiting for an answer, and it has a
\* message on its way to the agent, or a turn running, only if that message had
\* to wait while the agent ran a turn for another: however messages are sent,
\* deferred, steered and withdrawn, and whatever is held, aborted or fails.
THEOREM IdleMeansQuiet == Spec => []IdleIsQuiet
<1>1. IInv => IdleIsQuiet
  BY DEF IInv, QuietInv
<1> QED
  BY <1>1, Inductive, PTL

\* An answer given to the agent is never changed, by a late answer of the user,
\* an abort or a termination, and no handler allows an interactive call without
\* asking.
THEOREM AnswersFinal == Spec => AnswersAreFinal
<1> DEFINE Final(r) ==
             /\ verdict[r] \in {"allow", "deny"} => verdict'[r] = verdict[r]
             /\ verdict[r] = "none" /\ Interactive(Tool[r]) /\ Rule[r] = "none"
                  => verdict'[r] # "allow"
<1>1. ASSUME ApprovalInv, [Next]_vars
      PROVE  \A r \in Requests : Final(r)
  <2> SUFFICES ASSUME NEW r \in Requests PROVE Final(r)
    OBVIOUS
  <2>0. /\ r \in pending <=> verdict[r] = "open"
        /\ verdict \in [Requests -> {"none", "open", "allow", "deny"}]
        /\ pending \subseteq Requests
    BY <1>1 DEF ApprovalInv, ApprovalTypeOK, NoCallForgotten, Open
  <2>1. CASE UNCHANGED verdict
    BY <2>1
  <2>2. ASSUME NEW q \in Requests, NEW answer, q \in pending,
               verdict' = [verdict EXCEPT ![q] = answer]
        PROVE  Final(r)
    BY <2>0, <2>2
  <2>3. CASE verdict' = [q \in Requests |-> IF q \in pending THEN "deny"
                                                             ELSE verdict[q]]
    BY <2>0, <2>3
  <2>4. ASSUME NEW q \in Requests, NEW answer \in {"allow", "deny"},
               Respond(q, answer)
        PROVE  Final(r)
    BY <2>2, <2>4 DEF Respond
  <2>5. ASSUME NEW q \in Requests, ToolDecided(q)
        PROVE  Final(r)
    <3>1. CASE q # r
      BY <2>0, <2>5, <3>1 DEF ToolDecided
    <3>2. CASE q = r
      BY <2>0, <2>5, <3>2
         DEF ToolDecided, AutoAllowed, Interactive, ReadOnly, Edits
    <3> QED
      BY <3>1, <3>2
  <2>6. ASSUME NEW q \in Requests, ToolAsked(q)
        PROVE  Final(r)
    BY <2>0, <2>6 DEF ToolAsked
  <2>7. ASSUME NEW q \in Requests, CallAborted(q)
        PROVE  Final(r)
    BY <2>2, <2>7 DEF CallAborted
  <2>8. ASSUME AbortBegins \/ Terminate \/ IteratorDies
        PROVE  Final(r)
    BY <2>1, <2>3, <2>8
       DEF AbortBegins, SettleBySessionSignal, Terminate, IteratorDies,
           MarkTerminated
  <2>9. ASSUME \/ RespondStale \/ SetHold \/ Resume \/ AbortEnds
               \/ AgentTakes \/ IteratorMessage \/ IteratorResult
               \/ IdleTimeout
               \/ \E m \in Messages : \/ Send(m) \/ Defer(m)
                                      \/ CancelDeferred(m) \/ SteerSettles(m)
               \/ \E m \in Modes : SetPermissionMode(m)
               \/ \E finished \in BOOLEAN : IteratorEnds(finished)
        PROVE  UNCHANGED verdict
    BY <2>9 DEF RespondStale, SetHold, Resume, AbortEnds, AgentTakes,
       IteratorMessage, IteratorResult, IdleTimeout, Send, Defer,
       CancelDeferred, SteerSettles, SetPermissionMode, IteratorEnds, approvals
  <2>10. UNCHANGED vars => UNCHANGED verdict
    BY DEF vars, approvals
  <2> HIDE DEF Final
  <2> QED
    BY <1>1, <2>1, <2>4, <2>5, <2>6, <2>7, <2>8, <2>9, <2>10
       DEF Next, UserStep, AgentStep, RespondPlain, RespondWithFeedback
<1>2. IInv /\ [Next]_vars => [\A r \in Requests : Final(r)]_vars
  BY <1>1 DEF IInv
<1> QED
  BY <1>2, Inductive, PTL DEF Spec, AnswersAreFinal

\* A session never becomes idle while a deferred message waits: every way into
\* the idle state feeds the deferred queue first.
THEOREM DeferredFirst == Spec => NeverIdleOverDeferred
<1> DEFINE Fed == state # "idle" /\ state' = "idle" => deferredQueue = <<>>
<1>1. ASSUME [Next]_vars PROVE Fed
  <2>1. TransitionToIdle => Fed
    BY DEF TransitionToIdle, WakeIfIdle, SetState, displayVars
  <2>2. MarkTerminated => state' = state \/ state' = "terminated"
    BY DEF MarkTerminated, SetState, displayVars
  <2>3. ASSUME NEW q, EmitNextPending(q)
        PROVE  state' \in {"waiting-input", "in-turn"}
    BY <2>3 DEF EmitNextPending, Show, SetState
  <2>4. ASSUME NEW m \in Messages, Send(m) \/ Defer(m) \/ CancelDeferred(m)
                                  \/ SteerSettles(m)
        PROVE  Fed
    BY <2>4 DEF Send, WakeIfIdle, SetState, Defer, CancelDeferred,
       SteerSettles, displayVars
  <2>5. ASSUME NEW r \in Requests, \/ ToolDecided(r) \/ ToolAsked(r)
                                  \/ CallAborted(r)
        PROVE  Fed
    BY <2>3, <2>5 DEF ToolDecided, ToolAsked, CallAborted, Show, displayVars
  <2>6. ASSUME NEW r \in Requests, NEW answer, Respond(r, answer)
        PROVE  Fed
    BY <2>3, <2>6 DEF Respond
  <2>7. CASE RespondStale \/ SetHold \/ AbortEnds \/ AgentTakes
             \/ IteratorMessage \/ IdleTimeout
    BY <2>7 DEF RespondStale, SetHold, AbortEnds, AgentTakes, IteratorMessage,
       IdleTimeout, SetState, displayVars
  <2>8. CASE AbortBegins
    BY <2>3, <2>8 DEF AbortBegins, SettleBySessionSignal, displayVars
  <2>9. CASE Terminate \/ IteratorDies
    BY <2>2, <2>9 DEF Terminate, IteratorDies
  <2>10. CASE Resume
    BY <2>1, <2>10 DEF Resume, SetState
  <2>11. CASE IteratorResult
    BY <2>1, <2>11 DEF IteratorResult
  <2>12. ASSUME NEW finished \in BOOLEAN, IteratorEnds(finished)
         PROVE  Fed
    BY <2>1, <2>12 DEF IteratorEnds, displayVars
  <2>13. ASSUME NEW m \in Modes, SetPermissionMode(m)
         PROVE  Fed
    BY <2>13 DEF SetPermissionMode, displayVars
  <2>14. UNCHANGED vars => Fed
    BY DEF vars, displayVars
  <2> HIDE DEF Fed
  <2> QED
    BY <1>1, <2>4, <2>5, <2>6, <2>7, <2>8, <2>9, <2>10, <2>11, <2>12, <2>13,
       <2>14
       DEF Next, UserStep, AgentStep, RespondPlain, RespondWithFeedback
<1>2. [Next]_vars => [Fed]_vars
  BY <1>1
<1> QED
  BY <1>2, PTL DEF Spec, NeverIdleOverDeferred

-----------------------------------------------------------------------------
(* The prompt on display                                                   *)

(* A session that is neither held nor killed, and whose provider passes    *)
(* the session's signal to canUseTool.  Messages may be sent or deferred   *)
(* at any time and the provider may fail.                                  *)
SharedSignal == Ops \cap {"hold", "kill"} = {} /\ "claude" \notin Providers

PromptInv == ~held /\ PromptIsOldest

LEMMA StepPrompt ==
    ASSUME SharedSignal, IInv, PromptInv, [Next]_vars
    PROVE  PromptInv'
<1>0. /\ approvalQueue \in Seq(Requests) /\ pending \subseteq Requests
      /\ IsInjective(approvalQueue) /\ ToSet(approvalQueue) = pending
      /\ \A r \in Requests : verdict[r] = "open" <=> r \in pending
      /\ provider # "claude" /\ ~held
      /\ pending = {} <=> approvalQueue = <<>>
  BY HeadOfQueue DEF SharedSignal, PromptInv, IInv, ApprovalInv, ApprovalTypeOK,
     ApprovalBookkeeping, NoCallForgotten, Open, LifeInv, LifeTypeOK
<1> USE DEF PromptInv
<1>1. CASE UNCHANGED <<displayVars, pending, approvalQueue, held>>
  BY <1>1 DEF PromptIsOldest, displayVars
<1>2. ASSUME UNCHANGED <<pending, approvalQueue, held>>, TransitionToIdle,
             pending = {}
      PROVE  PromptInv'
  BY <1>2 DEF PromptIsOldest, TransitionToIdle, WakeIfIdle, SetState,
     displayVars
<1>3. ASSUME MarkTerminated, held' = held \/ state # "terminated"
      PROVE  PromptInv'
  BY <1>0, <1>3 DEF PromptIsOldest, MarkTerminated, SetState, displayVars
<1>4. ASSUME NEW m \in Messages, Send(m)
      PROVE  PromptInv'
  BY <1>4 DEF PromptIsOldest, Send, WakeIfIdle, SetState, approvals, loopVars,
     displayVars
<1>5. ASSUME NEW r \in Requests, NEW answer \in {"allow", "deny"},
             Respond(r, answer)
      PROVE  PromptInv'
  <2> DEFINE left == RemoveFirst(approvalQueue, r)
  <2>1. /\ r \in pending /\ pending' = pending \ {r}
        /\ approvalQueue' = left /\ EmitNextPending(left) /\ held' = held
    BY <1>5 DEF Respond, loopVars
  <2>2. left \in Seq(Requests) /\ ToSet(left) = ToSet(approvalQueue) \ {r}
    BY <1>0, <2>1, RemoveFromQueue
  <2> HIDE DEF left
  <2>3. pending' = {} <=> left = <<>>
    BY <1>0, <2>1, <2>2, HeadOfQueue
  <2> QED
    BY <1>0, <2>1, <2>3 DEF PromptIsOldest, EmitNextPending, Show, SetState
<1>6. CASE RespondStale
  BY <1>0, <1>6, HeadOfQueue DEF RespondStale, PromptIsOldest
<1>7. CASE SetHold \/ Resume \/ AbortBegins \/ Terminate
  BY <1>0, <1>7 DEF SharedSignal, SetHold, Resume, AbortBegins, Terminate
<1>8. CASE IteratorResult
  BY <1>0, <1>2, <1>8 DEF IteratorResult, LoopRound, approvals, Open
<1>9. ASSUME NEW finished \in BOOLEAN, IteratorEnds(finished)
      PROVE  PromptInv'
  <2>1. UNCHANGED <<pending, approvalQueue, held>>
    BY <1>9 DEF IteratorEnds, approvals
  <2>2. CASE state = "waiting-input"
    BY <1>1, <1>9, <2>1, <2>2 DEF IteratorEnds
  <2>3. CASE state # "waiting-input"
    BY <1>2, <1>9, <2>1, <2>3 DEF IteratorEnds, PromptIsOldest
  <2> QED
    BY <2>2, <2>3
<1>10. CASE IteratorDies
  BY <1>3, <1>10 DEF IteratorDies, MarkTerminated
<1>11. ASSUME NEW r \in Requests, ToolAsked(r)
       PROVE  PromptInv'
  <2>1. /\ r \notin ToSet(approvalQueue) /\ pending' = pending \cup {r}
        /\ approvalQueue' = Append(approvalQueue, r) /\ held' = held
    BY <1>0, <1>11 DEF ToolAsked, loopVars
  <2>2. /\ approvalQueue # <<>> => Head(approvalQueue') = Head(approvalQueue)
        /\ approvalQueue = <<>> => Head(approvalQueue') = r
    BY <1>0, <2>1, AppendToQueue
  <2> QED
    BY <1>0, <1>11, <2>1, <2>2
       DEF PromptIsOldest, ToolAsked, NonePending, Show, displayVars
<1>12. ASSUME NEW r \in Requests, CallAborted(r)
       PROVE  FALSE
  BY <1>0, <1>12 DEF CallAborted, SignalPerCall
<1>13. ASSUME \/ AbortEnds \/ AgentTakes \/ IteratorMessage \/ IdleTimeout
              \/ \E m \in Messages : \/ Defer(m) \/ CancelDeferred(m)
                                     \/ SteerSettles(m)
              \/ \E m \in Modes : SetPermissionMode(m)
              \/ \E r \in Requests : ToolDecided(r)
       PROVE  UNCHANGED <<displayVars, pending, approvalQueue, held>>
  BY <1>13 DEF AbortEnds, AgentTakes, IteratorMessage, LoopRound, IdleTimeout,
     Defer, CancelDeferred, SteerSettles, SetPermissionMode, ToolDecided,
     approvals, loopVars
<1>14. UNCHANGED vars => UNCHANGED <<displayVars, pending, approvalQueue, held>>
  BY DEF vars, approvals, loopVars
<1> HIDE DEF PromptInv
<1> QED
  BY <1>1, <1>4, <1>5, <1>6, <1>7, <1>8, <1>9, <1>10, <1>11, <1>12, <1>13,
     <1>14 DEF Next, UserStep, AgentStep, RespondPlain, RespondWithFeedback

\* On a provider that shares the session's signal, and without a hold or a
\* kill, the prompt on display is the oldest pending request, and there is one
\* exactly while requests are pending: no order of answers, new calls, messages
\* and failures of the iterator leaves a call without its prompt.
THEOREM OldestIsPrompted ==
    ASSUME SharedSignal
    PROVE  Spec => []PromptIsOldest
<1>1. Init => PromptInv
  BY DEF Init, PromptInv, PromptIsOldest
<1>2. IInv /\ PromptInv /\ [Next]_vars => PromptInv'
  BY SharedSignal, StepPrompt
<1>3. PromptInv => PromptIsOldest
  BY DEF PromptInv
<1> QED
  BY <1>1, <1>2, <1>3, Inductive, PTL DEF Spec

=============================================================================
