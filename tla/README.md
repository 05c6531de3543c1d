# Verification of AgentLine

AgentLine runs coding agents (Claude Code, Codex, Gemini) on a host and lets
their user watch, prompt and approve them from a browser or a phone, directly
or through a relay. This directory holds TLA+ models of its concurrent parts,
the TLC configurations that check them, and proofs checked by TLAPS.

    tlc -workers 2 -config AgentProcessTurn.cfg MCAgentProcess
    tlapm AgentProcessProofs.tla

`PROJECT.json` lists the components, the runs, what each definition models
(file and lines), the hazards that the properties are aimed at, a mutant of the
model for each property, what was found, and the theorems.

## 1. The system

| Component | State | Operations | Hard behaviour | Correct when |
|---|---|---|---|---|
| Agent process (`supervisor/Process.ts`) | state, pending tool approvals and their FIFO, hold, deferred queue, message queue, idle timer | send, defer, approve, hold, abort, terminate; the iterator's messages; `canUseTool` callbacks; idle timer | four sides interleave at every await; flags captured by listeners; timers | calls are answered once, messages are kept once, the prompt shown can be answered, hold pauses, idle sessions are cleaned up |
| Supervisor (`supervisor/Supervisor.ts`, `WorkerQueue.ts`) | map of processes, session map, queue of requests | start, resume, message, cancel, abort; registration and unregistration; `processQueue` | decisions taken before an await and used after it; `processQueue` runs concurrently with itself | one process per session, the limit is kept, no request waits beside a free worker |
| Connection manager (`client/lib/connection/ConnectionManager.ts`) | state, backoff timer, current attempt, pings | start, stop, close, error, event, pong, visibility, force | timers against promises; superseded attempts | reconnecting has a driver, nothing else does; giving up is reported |
| Activity bus, session stream, remote context (client) | subscriptions, last event id | subscribe, resubscribe, replay | connections replaced under a subscription | one live subscription, no event applied to a closed one |
| Secure connection (client) | SRP handshake, keys, sequence numbers, pending requests | connect, resume, request, subscribe, close | timeouts against late answers, resume against full login, superseded sockets | both sides use the same key |
| Relay (`packages/relay`) | waiting servers, pairs, active sockets, registry | register, connect, forward, close, ping | grants are awaited between lookup and use; sockets close in between | a client is paired with one live server; closing one side closes the other |
| Relay client service (server) | connecting, waiting, claimed sockets, reconnect timer | start, stop, claimed, close | awaits, a timer and events of replaced sockets | one connecting or waiting socket while enabled |
| Control plane (relay) | accounts, devices, grants in SQLite | login, bind, issue, consume | grants are single-use | one consumption per grant |
| Coalesced saves (settings, metadata, recents, push...) | state, savePromise, pendingSave | update, save | failures in between; updates during a save | the last update reaches the file |
| Remote sessions and SRP handlers | sessions, keys, expiry | login, resume, revoke, expire | handshake awaits against timeouts | a revoked session is never resumed |
| Watchers, batching, indexes; external session tracker; uploads; file lock | queues, ownership, byte counts | queue, flush, claim, write | state checked before an await and used after it | no event lost, no owned session reported external, limits kept |
| Providers and readers, push, authentication, framing, DAG | mostly data | parse, normalise, send | formats | covered by the repository's unit tests |
| Device bridge (Go), device servers, desktop, mobile, site, UI | native I/O and rendering | - | - | out of scope |

**Interactions.** Routes call the Supervisor, which creates Processes and
subscribes to their events; a Process calls its provider (queue, steer, abort)
and is called by it (`canUseTool`, the iterator). A Process that completes is
unregistered, which frees a worker and runs the queue. Events go over the event
bus to subscribed clients. A client's streams and activity bus report to one
ConnectionManager, which owns reconnecting for all of them. Remote clients
reach the server through the relay, where the server's RelayClientService keeps
one waiting socket and hands over each one that a client claims.

## 2. The plan

The order is by how much of the program rests on a part.

1. `AgentProcess` with `QueueLemmas` and `AgentProcessProofs`; `Supervisor`;
   `ConnectionManager` with `ConnectionManagerProofs`. **Done.**
2. `RelayNet`, `RelayServer`, `RelayService` and `RelayPath`, which composes
   them: a server that keeps running is reachable again. `CoalescedSave` with
   its abstract specification `WriteBehind` and `CoalescedSaveProofs`.
   `ClientStreams`: activity bus and session stream composed with
   `ConnectionManager`. `SecureHandshake`: SRP login and resume of client and
   server. **Done.**
3. Proofs: the relay's maps (`RelayPathProofs`), the pool (`SupervisorProofs`), the
   prompt and the idle state of a session (`AgentProcessProofs`), the streams
   (`ClientStreamsProofs`), the traffic key (`SecureHandshakeProofs`). Every
   invariant that a run checks is a theorem, except `OneProcessPerSession`. **Done.**
4. `ProcessLife`, the abstract life of a process that `Supervisor` uses (busy,
   idle, terminated), implemented by `AgentProcess`. The encrypted traffic after
   the handshake (sequence numbers, replay). Uploads and watchers if they carry
   their weight. Open.

## 3. Agent process

`AgentProcess.tla` models class `Process`. JavaScript runs one callback at a
time up to its next await, so one action is one such stretch, microtasks that
follow at once included: `Resume` does what `setHold(false)` does.

| Actions | Code |
|---|---|
| `Send`, `Defer`, `CancelDeferred`, `SteerSettles` | the message routes, `queueMessage`, `deferMessage`, `cancelDeferredMessage`, the continuation of `steerFn` |
| `ToolDecided`, `ToolAsked`, `CallAborted` | `handleToolApproval`: decided by rules, interactive tools and mode; or asked; and the abort listener of a call |
| `RespondPlain`, `RespondWithFeedback`, `RespondStale` | `respondToInput`, the last for an id that is no longer pending |
| `SetHold`, `Resume`, `LoopRound` | `setHold`, and the hold check at the head of `processMessages`' loop |
| `IteratorMessage`, `IteratorResult`, `IteratorEnds`, `IteratorDies` | what the loop reads from the provider |
| `AbortBegins`, `AbortEnds`, `Terminate`, `IdleTimeout` | `abort` on both sides of its wait, `terminate`, the idle timer |
| `AgentTakes` | the provider taking a message from its `MessageQueue` |

A request stands for one `canUseTool` call, with its class of tool and what the
caller's rules say of it as constants. Public methods may be called at any time,
even after `complete`. The provider is external: it sends a result only when
every call it made is answered, carries one signal per call (Claude) or per
session (Codex, Gemini), steers only when it is Codex, and its iterator ends or
throws only when aborted or when `Ops` has `fail`. `Ops` names what may happen
beyond the basic turn: a hold, a kill, a failure. Messages may be sent and deferred at
any time. A session starts "in-turn", and either its agent runs the turn of its first
message or, as `Supervisor.createSession` makes it, awaits one.

`late` is a history variable: the messages that are not done with and had to wait
because they came, or were left in the queue, while the agent ran a turn for another.

Runs:

- **process_life** (`AgentProcessFull.cfg`, 1,703,488 states): two calls, two
  messages, Claude and Codex, two modes, every operation allowed. Two calls are
  what it takes for one to be answered or aborted behind another; two messages
  for one to wait behind another; Claude and Codex differ in signals and in
  steering. Checks the bookkeeping of approvals (`ApprovalBookkeeping`,
  `NoCallForgotten`, `FirstIsHead`), of messages (`MessagesKeptOnce`,
  `NeverIdleOverDeferred`), hold (`HoldStopsLoop`, `NoLostWakeup`), reaping
  (`IdleIsReaped`), that answers are final and interactive tools are never
  allowed unasked (`AnswersAreFinal`), and what an idle session still has to do
  (`IdleIsQuiet`). A message sent into a running turn is not part of that turn,
  whose result then sets idle while the agent goes on with the message;
  `IdleIsQuiet` says that this is the only work an idle session can have: it never
  waits for an answer, and a message or a turn of it is one that came `late`.
- **process_turn** (`AgentProcessTurn.cfg`, 65,742 states): three calls, two messages,
  the providers with a session-wide signal (Codex, Gemini), `Ops = {}`. Without hold,
  kill and failure, the prompt shown is the oldest call (`PromptIsOldest`), and under
  fairness every call is answered and every message deferred while the agent runs a
  turn leaves the queue (`DeferredSent`). A message deferred while no turn runs, in an
  idle session or in a created one that awaits its first message, is not sent until
  another message starts a turn; `DeferredSent` does not speak of it, see section 11.

Fairness: the agent takes messages and ends turns whose calls are answered, a
steer call settles, users answer the prompt they see and resume what they hold.
The event loop runs what is ready. No fairness on users' sends, on failures or
on aborts; the idle timer needs none.

## 4. Supervisor

`Supervisor.tla` models the pool. A request is one call of `startSession`,
`resumeSession` or `queueMessageToSession`; `stage` says at which await it
stands. It starts at most one process, named after it, and a new session is
named after its request. Handlers may unregister a process in the middle, which
runs `processQueue` up to its first await; a handler is therefore written as a
composition of functions on a pool record (`Begin`, `Unregistered`, `Drained`,
`Registered`), and `taken` holds what was dequeued on the way. A process is
busy, idle or terminated; "busy" stands for every live state that is not idle,
since the pool asks nothing else. Any idle process may or may not have been idle
long enough to be preempted.

| Actions | Code |
|---|---|
| `StartSession`, `ResumeSession`, `QueueMessageToSession` | the public methods up to their first await |
| `PreemptEnds`, `RestartEnds`, `ToggleEnds` | what follows the awaits of `preemptWorker`, of the abort for changed settings, of `setMaxThinkingTokens` |
| `SpawnResumed`, `SpawnNew`, `Identified`, `SpawnFails` | what follows the provider's start and `waitForSessionId`; a start that failed |
| `CancelQueuedRequest`, `AbortProcess`, `AbortProcessEnds` | cancellation and abort |
| `TurnEnds`, `Dies`, `IdleTimeout` | the process events the Supervisor subscribes to; stale termination is a cause of `Dies` |

Runs:

- **pool_overlap** (688,879 states up to symmetry of requests): two workers,
  a queue of one, four requests, calls for one session overlap, settings change,
  processes die before registration. Checks that the session map only names
  registered processes of that session, that the queue is exact, and that no
  request waits beside a free worker unless a run of `processQueue` is under way
  (`NoQueueStall`). Four requests are what it takes to fill the pool and the
  queue and still have one to refuse or to overlap.
- **pool** (102,485 states): one worker, a queue of one, three requests, no
  overlapping calls for one session. Checks `OneProcessPerSession`, which is
  false with overlapping calls (`resumeSession` takes no lock across its
  awaits), and `QueueServed`.
- **restart_delivery**: see section 11.

Fairness: every await ends (`abort` and `waitForSessionId` have timeouts, and
the provider answers), turns end, timers run. `QueueServed` is checked with
`LivenessKnown = FALSE`: an idle timer re-arms for ever while the provider's
process is known to be alive (`Process.ts:1696`), and preemption is tried only
when a request arrives, so otherwise a queued request may wait for ever.

## 5. Connection manager

`ConnectionManager.tla` models the client class. Timers are kept apart from the
fields that remember them (`live` and `backoff`, `pongTimers` and
`pongTimeout`), because forgetting a timer that still fires is what can go
wrong; promises of the reconnect function stay in `inFlight` after they were
superseded. Elapsed time is one bit, `fresh`. `lost` is what the listeners of
`RemoteConnectionContext` tell the user. Consumers may call at any time, also
after `stop`.

- **reconnect** (12,000 states): two attempts before giving up, three promises
  that may be pending at once, two pings, two outside calls of `forceReconnect`.
  Two pings let an old one's timeout meet a new one; three promises let a
  superseded one settle after its successor. Checks `ReconnectingIsDriven`
  (exactly one of timer and attempt), `SettledIsQuiet`, `ProbeIsTimed`,
  `GivingUpIsReported`, `OnlyCurrentOutcomeCounts`, and `ReconnectingEnds`: a manager
  that reconnects is done with it again and again, unless one attempt stays the
  current one for ever.

Fairness: timers fire, and the promise of a superseded attempt settles, which only
returns its name for another. The current attempt need not settle: the manager waits
for it without a timeout of its own, and `SecureConnection` may leave it pending
(`SecureConnection.ts:744` does nothing once another attempt authenticated; in relay
mode the grant is awaited without a timer). Hence the second half of
`ReconnectingEnds`. Attempts are counted, so no fairness on success is needed.

## 6. Relay path

`RelayNet` is the WebSockets between server, relay and phones (external);
`RelayServer` is the relay (`packages/relay/src/connections.ts`,
`ws-handler.ts`); `RelayService` is the server's `RelayClientService`;
`RelayPath` composes them and adds links that die silently. Each module's
variables are one component's state; a handler that touches both ends of a
socket does so through `RelayNet`'s operators `Sent`, `Closing` and `MustClose`.

| Actions | Code |
|---|---|
| `OnRegister`; `Registered`, `GrantRefused`, `UsernameTaken` | `server_register` before its grant is awaited, and the three ways it goes on |
| `OnClientConnect`; `Connected`, `ConnectRefused` | `client_connect`, likewise; the relay looks the waiting socket up again after the await, but does not look at the phone |
| `Forward`, `LinkClosed`, `LinkBroken`, `PhoneClosed`, `RelayPongTimeout`, `DisconnectServers`, `RelayRestart` | frames of a pair, `handleClose`, the ping timer, logout of an account, loss of all maps |
| `Start`, `Stop`, `ReconnectTimer` | `start`, `stop`, `updateUsername`, `connect` and its timer |
| `HandleOpen`; `GrantReady`, `GrantFailed` | `handleOpen` before and after its grant |
| `HandleRegistered`, `HandleRejection`, `HandleClaimed` (with the hand-over that throws), `ServerEndClosed`, `ServerEndBroken`, `HandleKeepaliveTimeout`, `SessionEnds` | the socket handlers |

A link's name is used again for a new socket once nothing refers to it
(`Spare`), so that a server may reconnect without end within three names.

Run **relay_path** (672,134 states): three links (waiting, handed off, and the
one being dialled), a phone, a user, one failure of any kind, two calls of
`start` and `stop`. `MapsAgree`: the relay's four maps describe the same
pairing, and a paired link is not pinged as long as its connection state exists
(`HasState`: `onClose` deletes it, and what a handler starts on it after its await, the
relay cannot find any more). `ServiceIsDriven`: an enabled service has a socket or a timer, and the
socket it remembers has not had its close event. `WaitingIsMutual`: what the
service takes for its waiting socket is waiting or paired at the relay, or being
closed. `ReachableAgain`: an enabled service whose name is free is reachable
again and again. Fairness: what is in flight arrives, the control plane answers,
timers fire; a phone that was greeted may stay for ever, so each phone is obliged
only to its first frame. `ReachableAgain` is stated at the relay's side because
messages slower than the one-second reconnect delay could make the service
believe otherwise for ever.

`EarlyLeave = FALSE` keeps a phone from closing while its connect is awaited;
with it `PairedEndsOpen` fails (**relay_dead_pair**), the other safety
properties were checked and hold. `CutLink` is limited to links that have a
keepalive or were handed off: nothing in the code ends a registration whose
link dies silently.

## 7. Coalesced saves

`CoalescedSave.tla` is `save()` in both forms that the stores have it. States of
a store are numbered; a change and the `save()` after it are one step, as
every method has them; a write truncates the file, then completes or fails; a
crash leaves the file as it is, and a torn file reads as an empty store.
"note" stands for SessionMetadataService, RecentsService, AuthService,
PushService, RemoteAccessService, RemoteSessionService, ProjectMetadataService,
NetworkBindingService, BrowserProfileService and ServerSettingsService; "loop"
for NotificationService.

`WriteBehind.tla` is what a store promises: the file never goes back to an older
state, a crash loses only what was not written or an open write, and, unless a
write failed, the file catches up. The property `StoresBehind` is its `Spec`
under the mapping `value <- state, last <- file`.

- **saves** (4,220 states): both styles, six changes, two failures, two crashes.
  Three changes are what it takes to have one written, one noted and one after;
  two failures and two crashes let each follow the other. Fairness: a write that
  runs ends (the file system answers).
- **failed_save**: see section 11.

## 8. Client streams

`ClientStreams.tla` extends `ConnectionManager`: the activity bus and the session
stream, the local-mode `WebSocketConnection` under them, and the manager above.
`socket`, `ws` and `connecting` are the connection's; `registered`, `phase` and
`on` follow each subscription from the call to the server's answer; `busSub`,
`streamSub` and `mounted` are what the two streams believe. The manager's actions
are those of `ConnectionManager`, conjoined with what its listeners do in the same
step: `ComeUp` when it becomes connected, `GoDown` when a close reaches them.
Continuations of settled promises run before any other callback (`Quiet`).

Run **streams** (509,686 states): one manager attempt before giving up, one forced
reconnect, one close, two acts of the user (start or stop the bus, open or leave a
session). The smaller bound on one kind is paid for by a larger one elsewhere: the
same properties were checked with two attempts and two closes but no forced
reconnect (351,468 states), and the invariants with two attempts and one forced
reconnect (1,516,298 states). `HeldIsRegistered`: a stream never holds a
subscription that nobody would tell it the end of. `OneStream`: a page has one
subscription. `StreamsComeBack`: both streams come back, or the manager gave up
and said so. Fairness: sockets open or time out, the server answers, timers fire.

Left out is `useSessionStream`'s `reconnect()` (179-191, called by `SessionPage` after
a process restart): it closes the subscription and subscribes again from a timer of
50 ms that leaving the page does not clear.

An attempt starts only when no socket is still closing: the backoff is at least a
second. Seen while modelling: the bus's `onError` does not check that it belongs to
the current subscription, and two sockets may be open at once, so an activity event
may come twice.

## 9. Secure handshake

`SecureHandshake.tla` is how a remote client's `SecureConnection` and the server's
SRP handlers come to share a traffic key in direct mode: a stored session is
resumed, or the full handshake with the password is done, on a new WebSocket. Each
attempt is named after its socket. What a callback still has to do after an await
is in `due` (client) and `doing` (server). SRP and encryption are ideal: a base key
is named after the session it belongs to, a traffic key is a base key with the
socket whose nonce it was derived from.

| Actions | Code |
|---|---|
| `EnsureConnected`, `ForceReconnect`, `Open` | `ensureConnected`, `forceReconnect`, `onopen` with the choice between resuming and the full handshake |
| `TakeResumeChallenge`, `TakeResumed`, `TakeInvalid`, `TakeSrpChallenge`, `TakeVerify`, `TakeUnexpected`, `Drop` | the client's message handlers, by the state in which they are called |
| `HelloDue`, `ProofDue`, `VerifyDue` | what follows their awaits |
| `Closed`, `ConnectTimeout`, `ResumeTimeout` | `onclose`, the 30-second timer of an attempt, the 5-second timer of the resume phase |
| `HandleSrpResumeInit`, `HandleSrpResume`, `HandleSrpHello`, `HandleSrpProof`; `Validated`, `Resumed`, `Challenged`, `Proved`, `Created`, `Forgotten` | the four server handlers, each up to its await and after it |
| `HandshakeTimeout`, `ServerSeesClose`, `Revoke`, `ChangeCredentials`, `Restart` | the server's timer, close, and what happens to its sessions |

Run **secure** (3,333,549 states): two sockets, so that a superseded one is still
there when its successor logs in; three sessions, so that the stored, the current
and a newly created one differ; any two mishaps out of a cut, an answer slower than
a timeout, a failed save, a revocation, changed credentials, a restart, a forced
reconnect. Attempts may overlap, as nothing in the code prevents: `forceReconnect` may
come while an attempt of `ensureConnected` is pending, and a new socket may open while
the old one is still closing.

- `KeysAgree`: a client that is up has a traffic key, and when that key is one of the
  socket in use, the server has established this connection under this key as long as
  it is open there. It does not say that the key always is of the socket in use: with
  overlapping attempts it need not be (section 11).
- `AnswersHold`: an answer in flight that tells the client that the connection is
  established under a session's key is true while the connection is open. The server
  awaits between setting the key, saving and answering, and frames of both handshakes
  and of other attempts' timeouts reach it meanwhile; nothing of that may replace the
  key or take it away.

No liveness is stated. An attempt's promise may never settle, and two attempts whose
sockets close late may keep taking each other down (section 11); the model has both, so
that a client that can log in need not be connected again. This is also why
`ConnectionManager` has no fairness for the current attempt.

Assumptions: one `verifyServer` is shorter than a whole other handshake (`VerifyDue`:
an SRP session that was replaced meanwhile has no key yet); two identical
continuations of one socket that are pending at once count as one; a timer fires when
nothing else can happen, or earlier as a mishap.

## 10. Proofs

TLAPS proves, for every value of the constants that satisfies their named
assumptions, that the following are properties of `Spec` (of `StreamsSpec` for the
streams).

- `AgentProcessProofs`: `TypeOK`, `ApprovalBookkeeping`, `NoCallForgotten`,
  `FirstIsHead`, `HoldStopsLoop`, `NoLostWakeup`, `IdleIsReaped`,
  `MessagesKeptOnce`, `IdleIsQuiet`, and the action properties `AnswersAreFinal` and
  `NeverIdleOverDeferred`; under a hypothesis, `PromptIsOldest`. The assumption is
  `ConstantsOK`.
- `SupervisorProofs`: `TypeOK`, `MappingSound`, `NoQueueStall`, `QueueAccurate`, for
  any finite set of requests, any sessions, number of workers and size of the queue.
- `ConnectionManagerProofs`: `TypeOK`, `ReconnectingIsDriven`, `SettledIsQuiet`,
  `ProbeIsTimed`, `GivingUpIsReported` and the action property
  `OnlyCurrentOutcomeCounts`. The assumptions are that the bounds are natural
  numbers and `None` is no attempt.
- `CoalescedSaveProofs`: `TypeOK`, `SavedIsInFile`, and `StoresBehindSafely`, that
  every step of `CoalescedSave` is a step of `WriteBehind` or a stutter. The
  assumption is `SaveAssumption`. That the file catches up is TLC's part.
- `RelayPathProofs`: `TypeOK`, `MapsAgree`, `ServiceIsDriven` and `WaitingIsMutual`,
  for any links, phones and users, any number of failures and restarts, and whether
  or not phones leave early. The assumptions are `NetAssumption` (a socket is a link
  or a phone and not `None`; `MaxFailures` is a natural number) and
  `StartsAssumption`.
- `ClientStreamsProofs`: `HeldIsRegistered`, `OneStream`, and `StreamsUseManager`,
  that every behaviour of the composition is one of `ConnectionManager`, so that what
  is proved of the manager holds of the manager under its streams. The assumption is
  `StreamsAssumption` beside the manager's.
- `SecureHandshakeProofs`: `KeysAgree` and `AnswersHold`, for any number of sockets,
  sessions and mishaps and any overlap of attempts. The assumption is
  `HandshakeAssumption`: `None` is no socket, session or key, and there is a session
  id.
- `QueueLemmas` holds the facts about duplicate-free queues that the first two modules
  rest on: what appending, taking the head and removing one element do to the set and to
  the order.

The inductive invariant of `AgentProcess` is
`ApprovalInv /\ DisplayTypeOK /\ LoopInv /\ LifeInv /\ MessageInv /\ QuietInv`. Each part is
kept by every action given the parts named in its lemma. What had to be added:

- `ApprovalInv` puts the three approval properties and their types together. The
  queue must be duplicate-free for a removal to leave the others, and the flag
  captured by an abort listener belongs to the head only while the map and the
  queue agree.
- `LoopInv` adds `LoopControl`: after the provider's exit the loop has ended or
  the iterator is done, and a held session whose loop is about to read has read
  nothing since the hold. Neither hold property is inductive alone.
- `LifeInv` adds `KilledIsTold`: a session that refuses messages was terminated,
  and its listeners were told. `MessageInv` needs it, since a refused message
  must not count as lost in a session that lives.

- `QuietInv` adds to `IdleIsQuiet` that while the agent runs a turn everything on its
  way to it came late, and that an open call belongs to a turn of a session that is not
  shown as idle. It is why the result of a turn, which sets idle, leaves only late
  messages behind, and why the first late message starts a turn that is itself late.

`PromptIsOldest` is proved under `SharedSignal`: nobody holds or kills the session
and the provider passes one signal to all calls, as the Codex and Gemini adapters do.
With a signal per call it is false (section 11: an aborted call that was not first
when it was asked leaves its prompt). The iterator may fail at any time, which is more
than `process_turn` allows. The invariant adds that the session is not held, so a
prompt is never covered by the hold state.

The invariant of `Supervisor` is `PoolInv /\ CallTypeOK`. `PoolInv` contains the three
properties, the types of the pool, and what a handler relies on after an await: only
started requests name processes, only starting ones belong to a run of
`processQueue`, a session exists or was announced. A handler is a composition of
functions on a pool record, so the proof has an invariant of that record (`PoolOK`)
for the middle of a handler: `Unregistered`, `Drained` and `Registered` keep it, and
each way a handler ends restores `PoolInv`. `NoQueueStall` is why it is needed: in the
middle of a handler a worker may be free beside a waiting request, and what is kept is
that somebody is still going to look.

`OneProcessPerSession` is only model-checked, for calls that do not overlap:
`resumeSession` takes no lock across its awaits, so that as a theorem it would need the
hypothesis that users never overlap their calls, which nothing enforces.

The invariant of `ConnectionManager` is `RetryInv /\ ProbeInv /\ CountersInv`.
`RetryInv` adds `TimerRemembered`: there is at most one backoff timer, and it is
the one the field remembers. Without it a cancellation could leave a forgotten
timer behind and `SettledIsQuiet` would not be kept; with it, every handler that
cancels starts from no timer (`CancelledAll`), which is what the lemmas about
scheduling need. In turn `TimerRemembered` is kept by a failed attempt and a
reported close only because `SettledIsQuiet` and `ReconnectingIsDriven` say that
no timer is running when they schedule one without cancelling.

The invariant of `CoalescedSave` is `SaveInv`: types, and a version being written
exactly while the promise is pending (`FlagsOK`, `DataOK`); the file, what is being
written and the state in that order (`InOrder`); a loop's returned save is in the
file (`LoopSaved`); a rejected promise means that a write was lost
(`RejectedIsLost`). `InOrder` is why a write completing is a `Flush`, which must not
go back; `RejectedIsLost` is why a change after a failure is a `Change`.

The invariant of `RelayPath` is
`NetTypeOK /\ RelayTypeOK /\ ServiceTypeOK /\ StageInv /\ PairInv /\ DriveInv /\ OrderInv /\ MutualInv`.
None of the properties is inductive alone:

- `StageInv`: a link is dialled, then awaits its grant, then has its `register` in
  flight, then awaits the relay's grant, one at a time, and until it is registered it
  is unlinked and nothing was sent to it. `MapsAgree` needs it, since the relay
  checks nothing after its await: a registration that came twice would make a paired
  link wait.
- `PairInv` adds to `MapsAgree` what `handleClose` relies on (a waiting link has its
  name in `state.username`, unless it closed while its registration was awaited) and that a phone whose connect is awaited is not paired.
- `DriveInv` adds that the links the service remembers differ and still have their
  listeners.
- `OrderInv`: `server_registered` reaches the service before a phone's first frame,
  and a refusal comes alone. It is what makes `handleClaimed` safe: the claimed link
  is never the connecting one.
- `MutualInv` is `WaitingIsMutual` from the moment `server_registered` is sent.

The invariant of `ClientStreams` is `HeldOK`: the two properties and the kinds of the
ids that the streams hold. Every event either takes up subscriptions or ends some,
and one lemma for each says that the streams and the protocol agree again at its end;
between the two, in the middle of a handler, they do not.

The invariant of `SecureHandshake` is `HandshakeInv`, and no part of it speaks of
attempts, since they overlap as they like:

- `ServerOK` is about one connection: a handler that will establish it finds it not
  established, no challenge outlives the handler that used it, and whoever was told of
  a key, or is about to be (an await, an answer in flight, a verification at the
  client), is told the truth while the connection is open. `AnswersHold` is a part of
  it; it is not inductive without what the server's awaits rely on.
- `ConnectingOK`: a socket that has not opened has nothing under way.
- `ResumptionOK`: whatever frames of a resumption are on the socket in use are of the
  session that the client still stores. This is why the key that `TakeResumed` derives
  from the stored session is the server's.
- `KeyOK` is `KeysAgree` without the state of the socket, and that an authenticated
  client has a stored session.

Steps are those of the client (`ClientStep`, which leave the server alone) and those of
one connection at the server (`ServerStep`); one lemma each shows that a step of its
kind keeps the invariant, and each action is shown to be one.

Only model-checked, being liveness and outside TLAPS's reach, like `ENABLED`:
`CallsAnswered`, `DeferredSent`, `QueueServed`, `ReconnectingEnds`, `ReachableAgain`,
`StreamsComeBack`, and that the file catches up in `StoresBehind`; and the
invariant `OneProcessPerSession`. The three properties of section 11 are false. What
`NewSession` and `FreeSockets` make of names that are used again is not proved about:
the theorems hold for any number of names.

## 11. Where the code and its comments disagree

Each run below expects TLC to find a violation.

| Run | What happens | What is said |
|---|---|---|
| restart_delivery | A resume with changed settings aborts the old process and then queues the message to it. | `Supervisor.ts:843` "Fall through to start a new session", `:850` "if we didn't fall through to restart" |
| relay_dead_pair | A phone closes while its connect awaits its grant; the relay then pairs the waiting server with the closed socket and nothing closes the server's end. | `connections.ts:257` "closes the other end if paired" |
| failed_save | A write that fails leaves the rejected promise in `savePromise`; every later save only notes that one is wanted. | `SessionMetadataService.ts:270` "If a save is in progress, mark that we need another save" |

Found while modelling, without a run of their own (most of it by TLC,
with properties that are not kept):

| Where | What happens | What is said |
|---|---|---|
| `Process.ts:1260` | Two calls wait, the first is answered, the second is shown and then aborted: its listener captured "not first" when it was asked, so its prompt stays. | `:1259` "If this was the current request being shown, emit the next one" |
| `Process.ts:972` | A message deferred while no turn runs, because the session is idle or because `createSession` made it and it awaits its first message, has no turn end to send it. | "auto-sent when the agent's current turn ends" |
| `Process.ts:541` | A turn that ends during a hold starts the idle timer again. | "Don't auto-complete while held" |
| `Supervisor.ts:127` | Two starts pass the capacity check before either registers. | "Maximum concurrent workers" |
| `Supervisor.ts:1215` | A process that completes before `registerProcess` subscribes stays in the pool. | "Listen for completion to auto-cleanup" |
| `ws-handler.ts:288` | A link closes while its registration awaits its grant: `onClose` deletes its state (547), the ping interval starts on the detached one, and pairing, which fetches a fresh one, stops nothing. | `:423` "Stop ping interval on server (paired connections don't need keepalive from relay)" |
| `ConnectionManager.ts` | A pong timeout armed before a non-retryable close reconnects after it. | `docs/plans/connection-state-machine.md:187` "no retry" |
| `SecureConnection.ts:1248` | `forceReconnect` detaches an attempt's socket; when its successor authenticates, the 30-second timer of the first does nothing, and its promise, on which callers wait, never settles. | `:534` "Ensure connection is authenticated, reconnecting if necessary." |
| `SecureConnection.ts:428` | After a resume timeout the late challenge rejects the attempt without closing its socket; the handshake goes on and authenticates while the retry connects, whose timer then does nothing. | as above |
| `SecureConnection.ts:1248` | Two attempts overlap: the first goes on, on a socket that `forceReconnect` could not close because it had not opened, or on one that no handler lets go of. When it authenticates, or a late `srp_resumed` of it arrives, the client takes the key of that socket (and the session stored meanwhile) for that of the connection in use. | as above |
| `SecureConnection.ts:566` | The late close of a failed attempt's socket clears `ws` and the keys of the attempt that replaced it, whose own late close does the same to the next: retries may keep taking each other down. | as above |

Also seen, and outside the models: `SecureConnection.handleMessage` is async, so a
compressed message may be overtaken by the next, which the server takes for a
replay; in relay mode a failed resume cannot fall back to the full handshake on the
same socket; `subscriptions.ts` sends message events asynchronously and status
events synchronously, so they may change places.

## 12. Bounds

Counters that the code does not bound are bounded by guards: `MaxForced`,
`MaxPings` (`ConnectionManager`), `MaxCloses`, `MaxUser` (`ClientStreams`),
`MaxFailures`, `MaxStarts` (relay), `MaxVersions`, `MaxFailures`, `MaxCrashes`
(`CoalescedSave`), `MaxMishaps` (`SecureHandshake`). Faults are bounded, not ruled
out at any point: each may come at every state, and what follows it runs to its
end without another. `MaxAttempts`, `MaxWorkers` and `MaxQueueSize` are the code's
own. The sets `Requests`, `Messages`, `AttemptIds`, `Sockets`, `Links`, `Phones`,
`BusSubs` and `StreamSubs` bound how much may exist; requests, messages and phones
are used once, sockets, links and sessions again once nothing refers to them.
`consumedHeld` counts to 2, one more than it may reach. Runs set `CHECK_DEADLOCK FALSE`: once its
calls, messages, pings or starts are used up and a session has ended, the model may
really stop.

## 13. Not modelled, and why

- Agent process: the mock-SDK path (a test double of the real one), history
  buckets and streamed text, `modeVersion`, the pass-throughs for interrupt,
  model and thinking: data, or one call each.
- Supervisor: session ids that change after registration, events for the UI,
  the terminated list, start-up reconciliation, executor persistence.
- Connection manager: real durations and jitter, logging of hidden time.
- Relay: the counters of frames, reclaiming of names after days, status pages.
  Control plane: one SQLite transaction per request; only the answer to
  `consumeRelayGrant` is modelled.
- Saves: `setDiskPersistenceEnabled` toggled during a write; what the stores keep.
- Client streams: `useSessionStream`'s `reconnect()` with its 50 ms timer (section 8);
  replay by `lastEventId`, which is the server's, and which
  listener gets which event.
- Secure connection: relay mode, the encrypted traffic after the handshake, clock
  skew, expiry (it acts like a revocation), rate limits.
- Watchers, batching, external tracker, uploads: one counter or one timer and map
  each; their races are listed as hazards. File lock: `proper-lockfile`'s protocol.
- Authentication, push, framing, readers: synchronous checks or data. Device
  bridge, shells, UI and site: I/O and rendering.
