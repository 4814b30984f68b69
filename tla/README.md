# TLA+ models of HClaw

HClaw (called MiniClaw in its code) is a self-hosted workbench that puts Agents behind chat
channels (Feishu, Telegram, Discord, QQ, DingTalk, WeChat, WhatsApp) and a web interface.
One Node process receives messages, runs an Agent per conversation in a container or on the
host, and delivers what the Agent says to the channel the message came from.

What is hard in it is that effects on a channel cannot be undone: a message that was sent
twice stays visible twice, an answer that was lost is lost. The process can crash between
any two steps, the network can lose an acknowledgement, several outputs and several inputs
are in flight at once, and a human operator settles what the program cannot know. The
tables of `channel-reliability-store.ts` exist for this, and the models begin there.

Paths below are relative to the repository; line numbers are those of this commit.

## 1. Inventory

| Component | State | Operations | Interacts with | Hard behaviour | Correct when | Modelled |
|---|---|---|---|---|---|---|
| **Durable outbox** `src/channel-reliability-store.ts`, `src/channel-outbox-delivery.ts` | a row per physical message: status, lease owner, token and expiry, retry time, uploaded key | enqueue, claim, upload, send, complete, fail, restart fence, operator verdict | provider, turns, operator route | crash around a send, lost receipts, stale claims, two processes | nothing is shown twice, receipts are true, verdicts are final | `ChannelOutbox` |
| **Turn ledger and runtime** same store, `src/channel-turn-runtime.ts` | a row per logical input: status, lease; in memory the claim, heartbeat, durability error | start, heartbeat, finalize, complete, fail, cancel, interrupt, retry, wait for user, resume | outbox, cards, message loop, recovery | execution outlives its turn, lost fence, outputs in flight at the end | a known effect is not replayed, an answered input is not retried | `ChannelTurn` |
| **Streaming card** `src/feishu-streaming-card.ts`, table `streaming_cards` | controller state, row with identity and revision | reserve, create, publish, patch, complete, abort, roll back | provider, turn runtime | failed completion, creation in flight, refused events | one card per turn, no card left "generating" | `ChannelTurn`, what the turn depends on |
| **Recovery pass** `src/channel-reliability-recovery.ts` | boot cutoff, one active pass | startup pass, live pass every 15 s, on a Bot becoming ready | cards, turns, provider | lease read before an await, deferral | abandoned work is released, held work is left alone | `ChannelTurn` |
| **Group queue** `src/group-queue.ts` | per chat or lane: runner, parked messages and tasks, retry timer, stop and restart flags, unacknowledged inputs; waiting list, slots, gates | enqueue, run, retry, stop, restart, drain, pause for a mutation, safety block, shutdown | message loop, container runner, routes | lost wake-ups, stop against retry, overlapping mutations, capacity | one runner per key, work that can start does start, gates hold | `GroupQueue` |
| **Delivery cursors, follow-ups** `src/index.ts`, `src/delivery-cursor.ts`, `container/agent-runner/src/ipc-delivery.ts` | three cursors, a ledger of commands ahead of their turn, receipts, turns of the runner, states of message rows | poll, inject, cold start, acknowledge, commit, rewind, queue and release follow-ups, restart | message loop, group queue, runner, web | commits out of order, interrupts, two readers of the same rows | no message is skipped, none committed before it is answered | `DeliveryCursor` |
| **Feishu inbox** same store, `src/feishu.ts`, `src/im-manager.ts` | a row per platform event: status, lease, checkpoint of a slash command | record, claim, defer, ignore, complete, fail, recover, stop | platform, message loop | redelivery, lapsed claims, crash between checkpoints | one event is one effect, and each is answered | `ChannelInbox`, `Inbound` |
| **Message loop, scopes** `src/index.ts`, `src/channel-outbox-runtime-scope.ts` | maps per input, scope per runner and input | start and settle a turn, acknowledge, finally block | all of the above | order of settlement against late callbacks | every input is settled once | its parts in the four models |
| **Provider pool, quota router** `src/provider-pool.ts`, `src/quota-router/` | health, session counts, snapshots | select, report, refresh, decide | runner | refresh during sessions, stale snapshots | failover, fail open (ADR 0004) | no |
| **Proactive messages** `src/proactive-message/` | send history, rate state | decide, send, record | scheduler, transports | check-then-act, timeout | the budget is kept | no |
| **Small utilities** `src/capability-lock.ts`, `src/run-stream-fence.ts`, `src/turn-output-coordinator.ts` and others | locks, generations | acquire, advance | various | interleavings | mutual exclusion, stale generations are ignored | no |
| **Task scheduler, billing** `src/task-scheduler.ts`, `src/billing.ts` | rows in SQL | due, run, record; charge, reset | queue, runner | missed or doubled runs, period boundaries | each due run once, usage once | no |
| **Runner, database, web, transports, memory, plugins, configuration** | processes, SQL, sockets, files | I/O | | | | no |

How they interact. A platform event is recorded in the inbox; its handler stores a message.
The poller of the message loop reads new messages and either writes them as files for the
runner of the chat or asks the group queue for a cold start; the queue decides when a runner
may start. The runner acknowledges what it answered, which moves the cursors. Each input is a
turn in the ledger, and every message the Agent sends goes through the outbox of its turn.
`Inbound` composes the first half of this path, `ChannelTurn` the second.

## 2. Modules

| Module | What it is |
|---|---|
| `ChannelOutbox` | the outbox and the calls that drive it |
| `OutputPromise` | what the outbox promises of an output, without its mechanism |
| `ChannelTurn` | extends `ChannelOutbox` by turns, executions, cards and recovery |
| `GroupQueue` | who runs when: runners, slots, parked work, stops, gates |
| `DeliveryCursor` | how the messages of a chat reach the agent and are ticked off |
| `ImChat` | the steps of `DeliveryCursor` in a chat of an IM channel, with what its surroundings have to keep |
| `ChannelInbox` | the durable inbox of a Feishu account |
| `Inbound` | the composition of `ChannelInbox` and `DeliveryCursor` |
| `ChannelOutboxProofs`, `ChannelTurnProofs`, `GroupQueueProofs`, `MCGroupQueueProofs`, `DeliveryCursorProofs`, `ImChatProofs`, `ChannelInboxProofs`, `InboundProofs` | theorems for all values of the constants |
| `MCChannelOutbox`, `MCChannelTurn`, `MCGroupQueue`, `MCDeliveryCursor`, `MCInbound` | values of the constants and scenes for TLC |

JavaScript runs a segment up to its next `await` without interruption and SQLite transactions
are synchronous, so in every module an action is such a segment: all it reads, decides and
writes happens in one step, and whatever can happen during an `await` happens between steps.

### ChannelOutbox

`outbox[r]` is a row of `channel_outbox`, `call[c]` a suspended call of
`deliverChannelOutboxItem`, `instance[i]` a service process. Every store operation is a
synchronous SQLite transaction and is one step; between two of them stands an `await`.

* `Deliver` is everything up to the first await: the look for an uncertain sibling, the
  idempotent enqueue and the claim by id. `BeginUpload`, `FinishUpload`, `FailUpload`,
  `BeginSend`, `IssueSend` follow the function; `Receipt`, `Rejected`, `Ambiguous` are the
  three ways its send can come back, and `LoseLease` is the early return when a write
  under the claim matches no row.
* `Accept` and `Refuse` are the provider, which may decide a request long after its caller
  is gone. `request[r][k]` remembers what became of the request made under claim `k`,
  `shown[r]` counts what the user saw. Neither exists in the code: they are the world.
* `Lapse` and `BecomeDue` are time. A lease is live or lapsed, a retry due or not; no clock
  is needed because every guard of the code compares one time with now.
* `Start` is the restart fence, `Crash` the end of a process, `Resolve` the operator.

Left out: payloads, routes, hashes, attempt counters, error texts, and `revision` (a row
becomes uncertain at most once, so the operator's CAS on it decides what the status
decides). `renewChannelOutboxLease` has no caller.

### OutputPromise

An output is shown at most once. A verdict is given once, is true, and an output recorded
as failed by the program is never shown afterwards. Several outputs can become unknown at
once (a restart); only an operator decides those. `ChannelOutbox` maps its row status to a
verdict and implements this specification (`KeepsPromise`).

### ChannelTurn

`run[t]` is a row of `turn_runs`; `exec[e]` is one `ChannelTurnRuntime` together with the
runner behind it and the controller of its card; `card[t]` is the row of
`streaming_cards`; `recovery` is the recovery pass.

* `FenceReplay` and `Begin` are `ChannelTurnRuntime.start`: a delivered output or a
  completed card of an earlier execution fences the turn, otherwise it is claimed. The
  queue's first attempt reserves a card. If there is one already the code puts the turn
  back to `retry_wait` in the same block, which changes nothing here.
* `DeliverScoped` is `deliverScopedChannelOutput`, `DeliverMutation` the Feishu capability
  path. Both are a `Deliver` of the outbox with guards of their own.
* `CompleteOutput` is `completeChannelRuntimesForOutput`; `CloseScopes` and `Conclude` are
  the finally block of the message loop, branch by branch.
* `WaitForUser` and `ResumeFromUser` come from card events; `OpenTheCard`, `PublishCard`,
  `EndCard`, `RefuseCardEvent` and `RollBackCard` are the controller as far as the turn
  depends on it. A card event that meets a closed row is refused and leaves the runtime
  `broken` (its `durabilityError`), so that it cannot complete its turn any more.
* `RecoverCard`, `FinishRecovery`, `DeferRecovery`, `ReapTurn` are a live recovery pass,
  which closes one card at a time and awaits the provider; `StartProcess` is startup in the
  order of `main`: cards, delivered effects, expired leases, then the outbox.
* Sends in flight are not part of an execution: they go on (`OutboxOnly`) while it ends
  and the next one begins. That is what most of the properties are about.

The module is about one service process and its restarts (`TurnAssumption`). Several
inputs served by one warm runner are several executions, each with its own turn. Left
out: a lost `streaming_cards` write other than a refused one, cards of channels other than
Feishu (they have no durable row), the notices sent to the user, and `lease_token` (the
owner string of a runtime is unique, so the owner identifies the claim).

### GroupQueue

Handlers of the queue call each other (`runForGroup`'s finally block drains its own key, then
the waiting list, each start of which changes what the next may do). An action therefore edits
a record, `Now`, with the state of all jids, and `Settle` makes the result the next state:
`LeaveMessages`, `LeaveTask`, `DrainGroup`, `DrainWaiting`, `MessageCheck` and `TaskCheck` are
the functions of the code with such a record for an argument.

* A jid is a chat or a lane of a chat; its `Key` is its folder, or itself for a lane.
  `active` are the jids with a runner, `job` says what it executes, `activeContainerCount`
  is the count the code keeps.
* `Succeed`, `Fail`, `GaveUp` and `Throw` are the ends of `runForGroup` and of a task with
  their finally blocks; `RetryFires` is the callback of the retry timer.
* `StopGroup`, `RestartGroup` with its two ends, `StopForMutation` and `StopForMutationReturns`,
  `Pause`, `Resume`, `Discard`, `BlockForSafety`, `UnblockForSafety`, `CancelTask`,
  `ChangeLimit` and `Shutdown` are what routes and settings call. Their preconditions are those
  of the callers (`src/routes/groups.ts:1735–1866`, `src/agent-profile-runtime.ts:225–335`): a
  folder is discarded only while it is idle, and resumed after the stops of its mutation
  returned.
* Two histories: `owesWake` (a slot or key became free and nobody was told) and `halted` (the
  jids given nothing to do since they were stopped).

Left out: query ids and their announcements, detection of stuck runners, the credential
refresh broadcast, the per-user billing limit (off by default), the IPC files. The waiting
list is a set, started in any order, so no property depends on the order of a `Set`.

### DeliveryCursor

A message is its place in the order in which the database returns the rows of one chat; 0 is
`EMPTY_CURSOR`. `seen`, `pull` and `committed` are `globalMessageCursor`, `lastAgentTimestamp`
and `lastCommittedCursor`.

* `Stores(m)` are the ways a message comes in: from a channel, or from the Web page, where it is
  queued behind a running query, injected, answered or left to a cold start.
* `Polls` is one round of the poller; the commands of its batch are answered first, each reply
  awaited (`ReplyAcked`, `ReplyRefused`). `Runs` is `processGroupMessages` with its own batch,
  `Turns` the runner with its turn tracker, `FollowUps(q)` the dispatcher of queued messages.
* A receipt (`pending`) is an input the runner has not acknowledged. `Settle` is
  `commitCursor` with the receipts it confirms and the ledger it flushes.
* `StopGroup` and `Restart` are single steps, what is read at startup included.
* `handled` is history: the messages that are over.

Left out: agent lanes (cursors of their own kind), promotion and reordering of follow-ups,
follow-ups from Feishu, the admission fence of the turn ledger (`src/index.ts:6228–6285`,
`6560–6600`; without it the model allows more), awaits inside the expansion of Web plugins.

### ChannelInbox

`item[e]` is the row of an event: its status, whether its lease has lapsed, its checkpoint,
and where its claimant is waiting. `stale[e]` are handlers whose claim was taken over; they go
on, and what they do without a claim (storing, a reply that arrives) happens.

* `Start` is `processClaimedIncomingMessage` up to its first wait: deferral, refusal, a bare
  mode, a slash command by its checkpoint (`Execute`, `Resend`, `Confirm`, `Abandon`), a
  message with or without a route. Each other step ends with a write to the row.
* `Resume` is what follows a wait while the claim is live; `Drop` what follows when it is not.
* `Lapse`, `BecomeDue`, `TurnGate`, `Rebind`, `Connect`, `Stop`, `StopEnds` and `Crash` are
  time, the startup gate, the user's binding, the connection and the process.

Left out: the cursor of the backfill (a window of time), rows with an invalid payload, an
`onCommand` refused for a sealed user, bare modes and refused events in a connection that is
closing, and the apology of a retry, which nobody waits for.

### Inbound

The steps of both modules, two of which belong to both: `Intake`, in which a handler stores
the message of its event (twice is the same as once), and `HostCrash`. `InboundProofs` shows
that a step of the composition is a step of each part or leaves it alone.

## 3. What the runs check

| Run | Question | Bounds |
|---|---|---|
| `channel_outbox` | is a message shown at most once, are receipts true, claims safe, verdicts final, and is the promise kept? | two rows of one turn (one uploads), two calls with the same owner string in two processes, four claims or fences per row |
| `channel_turn` | the messages and cards of a completed turn are settled, a known effect not replayed, an answered input not retried, a verdict stands, there is one card, recovery leaves held turns alone | two scenes: a turn with a text and a mutation; a turn with a card and a text. Two calls, two executions, crashes, four claims |
| `channel_turn_live` | is a leased turn released when its execution is gone, a turn that waited for its user when its process died, and is a lapsed claim fenced by the next start? | two scenes: a proactive turn with an upload; two turns with cards. Two claims |
| `group_queue` | one runner per key, slots counted, no timer beside a runner, no wake-up lost, limits, gates and stops kept, unacknowledged inputs replayed | five scenes of two jids (two containers under a changing limit, two chats of a folder, a chat and its lane, gates, overlapping mutations) with up to three arrivals and three calls; one retry |
| `group_queue_live` | does parked work start? | two chats for one slot, three arrivals, a restart |
| `delivery_cursor` | is no message forgotten, what is committed over, each receipt tracked, a runner reserved for a Web follow-up given nothing else; is every message over in the end? | fifteen scenes of one to four messages (prompts, commands, Web messages) with up to five faults, one of a kind |
| `inbound` | do commands take effect once, do rows settle truthfully, is every event answered in the end, to the answer of its message? | eleven scenes of one or two events with up to four faults |
| `channel_outbox_orphan`, `group_queue_stopped`, `group_queue_dropped`, `delivery_cursor_mixed`, `inbound_direct` | five statements of the repository that the code does not keep, see below | as small as the counterexample needs |

A scene says who takes part and how often each kind of fault or user action may happen; TLC
starts from every scene. Faults are spent from a budget, never forced, so every subset of them
in every order is checked, while steps of the program itself are free.

Why the bounds are enough. A row's history is a sequence of claims, each ended by a verdict,
a delay or a fence; `MaxToken = 4` (the safety runs) admits a claim, its fence, a second
claim and its fence, which is what "the old claim acts during the new one" needs; liveness
needs one claim and its fence. A claim is made only while its fence still has a token, so the
bound never hides a fence. Two calls show every race of a claim with another, and the owner
string is shared on purpose: one scope makes many calls, so only the token separates them. Two
rows of one turn are needed for siblings; rows of different turns do not meet in the code. Two
executions are one that ends and one that follows. In the queue two jids compete for a key or
for a slot, and a third arrival is one during a run that has work parked behind it; two
overlapping mutations need two pauses. In `DeliveryCursor` three messages give one that is
being answered, one behind it and one that arrives meanwhile; one retry separates the last
attempt from the others. In the inbox two lapses give a handler that lost its claim to one
that lost it too. Most of the safety properties are proved for all sizes (section 4).

`SYMMETRY` (in `ChannelTurn.cfg` only) permutes calls and executions; that run has no liveness
property. `CHECK_DEADLOCK FALSE`: each system may stop, when everything is settled or the
budget of a scene is used up.

Each property of a passing run has a mutant of the code that TLC must catch: a restart fence
that retries `sending`, a start without replay fence, a finally block that keeps its slot, a
pull cursor left behind its receipts, a command that runs again after a crash, and so on; the
mutated operators stand next to the originals, each with a comment.

### Fairness

Safety runs use none; no fault, no user action and no decision of the provider is ever forced.

* `OutboxFairSpec`: time passes (`Lapse`), a process that is down is restarted (a supervisor),
  and a running call goes on, which the timeouts of its transport justify.
* `TurnFairness`: leases that no execution renews lapse, the recovery loop ticks, runners exit
  (the queue kills them after a timeout) and their finally block runs. For
  `WaitingTurnIsReleased` the recovery of a card is strongly fair: its Bot is connected again
  and again and the process lives long enough for the pass to get to it.
* `QueueFairness`: a runner ends, a timer fires, stops and restarts return, a mutation resumes
  its folder or discards it (its finally block). A safety block is never forced to end.
* `CursorFairness`: the poller polls, the queue starts what is due, a runner takes its files,
  ends its turns and exits when it waits for nothing (idle timeout), a reply is sent, the
  dispatcher of follow-ups goes on.
* `IntakeFairness`: the startup gate opens, and per event the recovery loops, the end of a
  handler, the delay of a retry and the lease of a dead handler go on. That the account is
  connected again is an assumption: a removed account never is.

`EveryMessageIsHandled` excludes what the code gives up by design (retries used up, wait for a
next message) and a follow-up left queued when its run ends; `EveryEventIsAnswered` a chat
whose route is taken away.

### Where the code and what is said of it disagree

1. `OrphanedSendIsFenced`: the comment at `src/channel-reliability-store.ts:1947` says a
   `sending` row of a crashed worker is fenced as uncertain. The fence runs only at startup
   and only for leases that have lapsed by then: a service restarted within the lease leaves
   the row in `sending`, and its turn cannot complete.
2. `ParkedWorkStarts` with stops (`group_queue_stopped`): `src/group-queue.ts:2871` says
   skipping a waiting jid is safe because the active runner's finally block drains it. The
   finally blocks (2504–2523, 2664) skip every drain when the run was asked to stop, also for
   work that arrived after the stop and for other jids that wait for the slot.
3. `MutationDropsNothing`: `src/agent-profile-runtime.ts:256` says the resume of a mutation
   cannot drop messages. A preserving stop of an idle jid that waits for its retry timer leaves
   `stopRequested` set; the resume skips the jid because of the timer (2908) and the timer is
   refused because of the flag (2752, 2675).
4. `NoneForgotten` with a mixed batch (`delivery_cursor_mixed`): the comment at
   `src/index.ts:876–885` says the reply to a command moves only `lastAgentTimestamp`, since
   otherwise a crash would lose the earlier messages of the batch. When no runner is up that
   move loses them without a crash: it passes the prompt (17266), and the cold start reads
   after that cursor (5628). The scenes of `delivery_cursor` deliver such a command only when
   everything before it is over.
5. `FirstMessageIsAdmitted`: `tests/feishu-route-safety.test.ts:16` and `src/feishu.ts:2310`
   say the first message of a direct chat registers the chat. The bootstrap expects null from
   the resolver, the callback of `src/im-manager.ts:406–416` throws, and the event is retried
   for ever.

Other observations, for which no statement of the repository was found, or which no run shows.

Outbox and turns:
* An upload is awaited between claim and send, so an output can be sent beside a sibling that
  became uncertain meanwhile (`src/channel-outbox-delivery.ts:262`, against 264–266); a turn
  can be retried before a send in flight becomes uncertain (`src/channel-turn-runtime.ts:93`,
  against `docs/API.md:540`); the Feishu capability path resolves the scope, which lives as
  long as the runner, and does not look at the turn, so that a mutation can be delivered in a
  turn that was completed (`src/index.ts:2581`, 13224).
* A turn whose card had failed before it waited for its user, and whose process then died, has
  neither a lease nor an open card and is found by no pass. `WaitingTurnIsReleased` therefore
  speaks of turns whose card is open.

Queue:
* `QueuedTasksWait` (a jid with parked tasks waits in the list) fails with stops and restarts,
  so the run states it while nobody stopped, restarted or paused anything.
* The end of a run behind a pause or safety block, a discard and a higher limit do not wake
  others (`owesWake` in `NoLostWakeup`). Drains during shutdown still start runners (398 and
  521 do not look at `shuttingDown`, against the comment at 2979). The stop of a lane marks
  the folder of its chat as recently stopped.

Cursors:
* A row stored with an earlier platform time after the poller went past it
  (`src/feishu.ts:2421`, `src/index.ts:17035–17042`, `src/db.ts:4249–4266`) is never read.
  `StoreFromChannel` allows it; the scenes let rows arrive in their order. The same happens to
  an IM message that a Web message moves the process-wide cursor past (`src/web.ts:657`, 665,
  759, 876), which the model of one chat cannot show.
* In a chat with Web and IM messages a follow-up can be lost when it is merged into a turn
  (`src/index.ts:6561–6568`): the poller gives a reserved runner what it finds. A follow-up
  stays queued when its preparation fails and the runner exits; after a restart only the first
  is released.
* `src/group-queue.ts:1119–1121` says a prepared follow-up cannot be bypassed by new input.
  That holds while its runner is reserved, and between messages of the Web page
  (`FollowUpNotBypassed`). When the preparation fails, or the run ends meanwhile
  (`src/index.ts:1659–1710`), the reservation is over and a newer message can be given to the
  runner first. The follow-up is then older than the current input and is refused, its row is
  released behind `pull`, and no cold start reads it, although the comment at 1634–1635 says
  the row is "visible to the normal cold-start reader so it can be recovered safely". The
  scenes in which a run ends or a preparation fails therefore have two messages.
* A cold start does not move `pull` (5628), and messages stored between the two reads of the
  poller are in both: either way a message can be injected twice. An interrupted turn without
  committed text is answered again. A notice of a quota that is not acknowledged strands its
  batch (`PollNoticeFails`, in `Next` and not in the scenes).
* The first message of a chat is not recovered after a crash (17507: its cursor is empty).
* What the poller drops moves `pull` past earlier messages that were left to a cold start
  (`src/index.ts:17084`, 17151, 1005): the cold start does not read them. `hasEarlierPendingMessage`
  keeps only the committed cursor behind them.

Inbox:
* `stop()` clears `connectOptions` while the socket and the loops still run: an event that is
  read then is stored under its raw JID and its checkpoint overwritten, after which a command
  can run again. `EffectsHappenOnce` exempts these events (`astray`).
* The ignore of a rejected binding (`src/feishu.ts:2366–2372`) cannot be reached through
  `im-manager.ts`, whose resolver throws: such events are retried for ever.

## 4. What is proved

`ChannelOutboxProofs` proves, for all rows, turns, calls, processes, owners and `MaxToken`,
under `OutboxAssumption` alone:

| Theorem | Statement |
|---|---|
| `OutboxTypeCorrect` | `OutboxSpec => []OutboxTypeOK` |
| `AtMostOnce` | `OutboxSpec => []ShownAtMostOnce` |
| `ReplayIsSafe` | `OutboxSpec => []ReplayableIsInvisible` |
| `ReceiptsAreTrue` | `OutboxSpec => []DeliveredIsShown` |
| `LiveClaims` | `OutboxSpec => LiveClaimNeverStolen` |
| `VerdictsAreFinal` | `OutboxSpec => VerdictIsFinal` |
| `OutboxKeepsPromise` | `OutboxSpec => KeepsPromise` |

None of the invariants is inductive: that a message is shown once depends on which claim
made which request, and that depends on who may still write. `OutboxIInv` adds what ties
the three together: only a leased row has a lease, and room for its fence; a call's token is
never ahead of its row's; no two calls have one claim; the holder of a live claim knows the
row's status; a call that is sending finds its row `sending`, `uncertain` or settled, and is
alone with it; a request is made once per claim, and of the requests of a row at most one
was not refused; what is shown was accepted, and only that. The proof has a
lemma per action (`DeliverStep`, `ReceiptStep`, ...) and one for each of its parts; the
step lemmas about single rows (`HolderRow`, `StartRows`) are shared. The refinement is
proved by mapping each action to a step or a stutter of `OutputPromise`, with `OutboxIInv`
at hand: a receipt is a `Confirm`, a refusal a `GiveUp`, a restart or a timeout a
`LoseTrack`, the operator an `Overrule`.

`ChannelTurnProofs` proves, for all rows, turns, executions and calls of one process, under
`OutboxAssumption` and `TurnAssumption`:

| Theorem | Statement |
|---|---|
| `TurnTypeCorrect` | `TurnSpec => []TurnTypeOK` |
| `AtMostOnceUnderTurns` | `TurnSpec => []ShownAtMostOnce` |
| `EndedTurnsAreFinal` | `TurnSpec => EndedTurnIsFinal` |
| `CompletionsAreSettled` | `TurnSpec => []CompletedMeansSettled` |
| `AnsweredInputsAreNotRetried` | `TurnSpec => AnsweredIsNotRetried` |
| `KnownEffectsAreNotReplayed` | `TurnSpec => KnownEffectIsNotReplayed` |
| `CardsAreUnique` | `TurnSpec => []OneCardPerTurn` |
| `RecoveredTurnsAreUnheld` | `TurnSpec => []RecoveredTurnIsUnheld` |

Each step of a turn is a step of the outbox or leaves it alone, by the way the module is
composed (`TurnsUseOutbox`), so every theorem of the outbox carries over. `CompletedMeansSettled`
speaks of messages and cards: a mutation can appear in a completed turn (an observation above),
and only what the outbox promises is proved of it. The rest follows from `TurnIInv`: only running and
finalizing turns have a lease; an execution serves a turn that is not waiting for one,
alone, and none outlives its process; a card is asked for by the controller of its
reservation, after which the row stays; a card with an identity has an active controller or
a turn that no execution takes up again; and nobody serves a turn whose card an earlier
process left open. The last two are why the recovery pass may interrupt the turn after its
wait without looking at the lease again: `Begin` claims waiting turns only, and no turn waits
behind a published card. `RunTransitions` states once what a step may do to a turn;
`CompletionsAreSettled` combines it with `VerdictsAreFinal` of the outbox and with
`OutputAppears` (an output appears only through a delivery of an open turn or as a mutation).
TLC agreed that both invariants hold on the safety runs' instances before they were proved.

`GroupQueueProofs` proves, for all jids, folders, tasks, limits and numbers of retries and
pauses, under `QueueAssumption`:

| Theorem | Statement |
|---|---|
| `QueueInvariance` | `Spec => []QueueIInv` |
| `QueueTypes`, `OneRunner`, `SlotCount`, `NoTimerBesideRunner`, `WakeupsAreKept` | `Spec => []` `QueueTypeOK`, `OneRunnerPerKey`, `SlotsAreCounted`, `TimerHasNoRunner`, `NoLostWakeup` |
| `GatesHoldAlways`, `LimitHoldsAlways`, `InputsAreReplayed`, `StopsAreFinal` | `Spec =>` `GatesHold`, `StartsWithinLimit`, `UnacknowledgedIsReplayed`, `StoppedStaysStopped` |

`QueueIInv` is `GateTypes`, `GroupsSound` and `Woken`. The argument follows the shape of the
code: soundness is stated of the record the handlers edit, each edit (`MessageCheck`,
`DrainGroup`, `DrainWaiting`, `LeaveTask`, ...) is shown to keep it and to start only what has
room, an open gate and a free key, and `Settle` carries it over to the next state. A drain of
the waiting list starts a maximal set, which is why what still waits cannot start; every other
step either cannot free a slot or key, or is counted in `owesWake`.

`MCGroupQueueProofs` proves `TasksWait` (`UnstoppedSpec => []QueuedTasksWait`) and, for every
set of scenes, `QueuedTasksWaitInScenes` (`MCSpec => []QueuedTasksWaitUnstopped`). `Spec` does
not imply `QueuedTasksWait`: a message that starts a runner takes its jid off the list although
tasks are queued in it, and if that runner ends while it is being restarted for a sibling jid,
nothing puts the jid back (a trace TLC finds when `QueuedTasksWait` is checked on the scenes of
`group_queue`).
`UnstoppedSpec` is `Spec` without the steps of `stopGroup` (with or without
`preserveQueuedWork`) and `restartGroup`; pauses, the deletion of a workspace, safety blocks,
failures, retries, cancelled tasks, settings and shutdown all remain, as does a graceful restart.
`TaskIInv` adds to `QueueIInv` that nobody is marked as stopped or restarting, that the jids
without a runner that have tasks wait, and that the queues stay empty from a shutdown on (the
drain at the end of a pause would otherwise start one of two tasks and drop its jid from
the list). A jid whose runner ends is the only one whose queue may be unlisted, and `drainGroup`
starts it, lists it again or finds its tasks cancelled.

`DeliveryCursorProofs` proves, for all numbers of messages and retries and every choice of
commands and Web messages, under `CursorAssumption`:

| Theorem | Statement |
|---|---|
| `CursorInvariance` | `Spec => []CursorIInv` |
| `CursorTypesHold`, `ReceiptsAreTracked` | `Spec => []` `CursorTypeOK`, `ReceiptsTracked` |
| `ReceiptsAreApart` | `Spec => []Apart`: a receipt is in the inbox of the runner or in one turn, never in two places |
| `CursorsRewindToCommitted` | `Spec => RewindsToCommitted` |
| `FollowUpsAreNotBypassed` | `Spec => FollowUpNotBypassed` |

`CursorIInv` adds to types and tracking that acknowledgements are of pending receipts, that no
receipt is in two places (without which the end of a turn could acknowledge what another still
holds) and that nothing is held without a runner.

`FollowUpNotBypassed` speaks of a chat in which no channel stores messages (`WebChat`): while a
runner is reserved for a follow-up, all it is given are follow-ups that are being prepared. A
Web message is queued behind a reserved runner, so what could slip in is the poller, the turns
and the replays. `WebIInv` adds to `CursorIInv` that rows do not go away, that who holds a
reservation holds it on a runner that is reserved, and, in such a chat, that every row lies
behind the cursor of the poller, which therefore never has anything. `RowsBefore` says that a
chat that is a Web chat after a step was one before it. What a failed preparation or the end
of the run leaves open is among the observations above.

`ImChatProofs` proves, under `CursorAssumption` and what `ImSpec` assumes of the surroundings, what
the scenes of `delivery_cursor` check of the messages themselves, for any number of them and any
failures, interrupts, stops and restarts of runs:

| Theorem | Statement |
|---|---|
| `ImInvariance` | `ImSpec => []ImIInv` |
| `NothingIsForgotten`, `CommitsAreHandled` | `ImSpec => []` `NoneForgotten`, `CommittedIsHandled` |
| `QuietIsAllCommitted` | `PromptSpec => []QuietIsCommitted` |

`Spec` does not imply them: section 3 lists how the code loses messages. `ImSpec` is `Spec` without
those ways, each of which is a conjunct or a missing action of `ImChat`: nobody writes from the Web
page (merged follow-ups, the process-wide cursor); rows are stored in their order (a platform time
in the past); a command is sent when the prompts before it are over (`delivery_cursor_mixed`); no
notice of the poller is refused (`PollNoticeFails`); what the poller drops has nothing before it
that waits for a cold start; and the host does not crash before the first message of a chat is
pulled. The steps of the runner, the replies and the cold starts are those of `DeliveryCursor`,
unrestricted, so the theorems of `Spec` hold too. `PromptSpec` leaves out commands and drops by the poller as well, with which a
completed command may stay ahead of the committed cursor.

`ImIInv` adds to `CursorIInv` where the cursors can point (`Shape`) and what is kept of every
message that is not over (`Minded`): no tick is on it or beyond it, what is pulled is under a
receipt, what is seen is in somebody's hands, a batch that reaches beyond it holds it unless the
runner has it, a command is replied to before anything behind it is pulled, and a runner whose
prompt holds it is still at the turn of the prompt. The last part is why `commitCursor` may commit
the prompt of the run at every reply. That `flushAcknowledgedIpcDeliveries` does not pass it is
`TakenSkips`: of the receipts it takes, the first that reaches the message in the order of cursors
would have to cover it or find it passed by an earlier one. `PromptIInv` adds for
`QuietIsAllCommitted` that what is pulled or seen and not committed is under a receipt, with a
reader, or due. TLC agreed on both with four messages.

`ChannelInboxProofs` proves `InboxInvariance`, `InboxTypes`, `CommandsRunOnce`
(`Spec => []EffectsHappenOnce`) and `RowsSettleTruthfully` (`Spec => []SettledTruthfully`), for
all events and all their kinds, without an assumption. `InboxIInv` says of every event what its
checkpoint stands for: a command that never ran has none, a reply that was shown left
`pending_reply` for good, at most one handler can be sending, and a row that is over has its
reason. A handler whose claim lapsed may still be sending, so the claimant's and the stale
handlers' places are in it.

`InboundProofs` carries the theorems of both parts over to the composition, under
`CursorAssumption` and `InboundAssumption`; that each of its steps is a step of a part or leaves
the part alone holds by the way it is composed. `CommandsTakeEffectOnce` and `EventsSettleTruthfully` state those of the inbox,
`CursorsKeepTheirPromises` those of the cursors.

Only model-checked: all liveness (fairness and `ENABLED` are beyond the prover); and, for chats
with Web messages, `NoneForgotten`, `CommittedIsHandled` and `QuietIsCommitted`, which hold in the scenes
only (the observations above say what breaks the first of them outside).
No module declares a `RECURSIVE` operator.

## 5. Not modelled

* Provider pool and quota router, small utilities: one synchronous object each, whose steps do
  not meet an `await`; their unit tests reach what a model would.
* Proactive messages: the rate limit that is read before and written after a send, and the
  send that outlives its timeout, are listed as hazards; it would be the
  next module to write.
* The task scheduler and billing live in SQL statements; the queue sees a task, the cursors a
  message that was dropped.
* Backends and patch timers of the streaming card, rendering, splitting: provider calls.
* Process spawning, stream parsing, transports other than Feishu, HTTP routes, authentication,
  configuration, memory, skills and plugins: I/O and formatting. This is most of a repository
  of some 228,000 lines, so the lines the models cover are a small share of it and nearly all
  of the concurrent delivery path.
* A second process in `ChannelTurn` and `GroupQueue`: the service runs as one process. The
  outbox is modelled for two, since a restart may overlap.

## 6. Running

Run inside this directory, `PROJECT.json` names the module of each configuration:

```
tlc -workers 2 -config ChannelOutbox.cfg  MCChannelOutbox    # also ChannelOutboxOrphan
tlc -workers 2 -config ChannelTurn.cfg    MCChannelTurn      # also ChannelTurnLive
tlc -workers 2 -config GroupQueue.cfg     MCGroupQueue       # also ...Live, ...Stopped, ...Dropped
tlc -workers 2 -config DeliveryCursor.cfg MCDeliveryCursor   # also DeliveryCursorMixed
tlc -workers 2 -config Inbound.cfg        MCInbound          # also InboundDirect
for p in ChannelOutbox ChannelTurn GroupQueue MCGroupQueue DeliveryCursor ImChat \
         ChannelInbox Inbound
do tlapm ${p}Proofs.tla; done
```
