--------------------------- MODULE DeliveryCursor ---------------------------
(***************************************************************************)
(* How the messages of one chat reach the agent and are ticked off:         *)
(* src/src/index.ts (cursors, message loop, processGroupMessages, follow-   *)
(* ups), src/src/delivery-cursor.ts, the receipts of src/src/group-queue.ts *)
(* and the turn tracker of src/container/agent-runner/src/ipc-delivery.ts.  *)
(*                                                                         *)
(* A message is its place in the order (timestamp, id) in which SQLite      *)
(* returns the rows of the chat; 0 is EMPTY_CURSOR.  Three cursors walk     *)
(* over the rows: `seen' (globalMessageCursor, read by the poller), `pull'  *)
(* (lastAgentTimestamp, given to an agent) and `committed'                  *)
(* (lastCommittedCursor, what a restart need not read again).  A batch      *)
(* reaches an agent as the prompt of a cold start or, while a runner lives, *)
(* as a file in its inbox with a receipt, which the runner sends back with  *)
(* the result of the turn that consumed it.                                 *)
(***************************************************************************)
EXTENDS Naturals, Sequences

CONSTANTS
    Last,       \* places for messages
    History,    \* how many of them the chat already has
    Commands,   \* plugin commands that are answered without an agent
    Web,        \* messages sent from the Web page; an IM channel stores the others
    MaxTries    \* MAX_RETRIES of the queue

Msgs == 1..Last
Cursors == 0..Last
Readers == {"loop", "run"}
Rows == {"absent", "plain", "queued", "promoting", "released", "cancelled"}

ASSUME CursorAssumption ==
    /\ Last \in Nat /\ MaxTries \in Nat /\ History \in 0..Last
    /\ Commands \subseteq Msgs /\ Web \subseteq Msgs

\* IpcDeliveryReceipt; a deliveryId is a number.
Receipts == [id : Nat, cursor : Msgs, covered : SUBSET Msgs]

VARIABLES
    row,        \* delivery_status of each message ("plain": none)
    seen, pull, committed,
    deferred,   \* DeferredOutOfBandCursorLedger
    fresh,      \* read by the poller, not yet taken up
    batch,      \* what each reader is handing on
    replies,    \* ... and the commands in it whose reply is still to be sent
    check,      \* pendingMessages: a cold start is owed
    retry,      \* ... or will be by the retry timer
    tries,      \* retryCount
    resting     \* history: the retries are used up, the rest waits for a new message

VARIABLES
    runner,     \* "off", "expanding", "busy", "idle", "reserved" (for a follow-up)
    holder,     \* the follow-up that holds the reservation
    current,    \* currentInputCursor
    injected,   \* hasIpcInjectedMessages
    pending,    \* pendingIpcDeliveries
    acked,      \* ... and acknowledgedIpcDeliveryIds
    inbox,      \* files the runner has not accepted
    turns,      \* IpcTurnDeliveryTracker.turns; the cold prompt is a turn without receipts
    outcome,    \* of the current input turn: "open", "answering", "healthy", "interrupted"
    claims,     \* follow-ups being prepared
    timer,      \* a follow-up that could not be prepared is tried again
    handled     \* history: messages that are over (answered, dropped, cancelled)

cursorVars == <<row, seen, pull, committed, deferred>>
readerVars == <<fresh, batch, replies>>
queueVars  == <<check, retry, tries, resting>>
runnerVars == <<runner, holder, current, injected, pending, acked, inbox, turns,
                outcome>>
followVars == <<claims, timer>>
vars == <<cursorVars, readerVars, queueVars, runnerVars, followVars, handled>>

Init ==
    /\ row = [m \in Msgs |-> IF m <= History THEN "plain" ELSE "absent"]
    /\ seen = History /\ pull = History /\ committed = History
    /\ deferred = {}
    /\ fresh = {}
    /\ batch = [who \in Readers |-> {}]
    /\ replies = [who \in Readers |-> {}]
    /\ check = FALSE /\ retry = FALSE /\ tries = 0 /\ resting = FALSE
    /\ runner = "off" /\ holder = 0 /\ current = 0 /\ injected = FALSE
    /\ pending = {} /\ acked = {} /\ inbox = {} /\ turns = <<>>
    /\ outcome = "open"
    /\ claims = {} /\ timer = FALSE
    /\ handled = 1..History

-----------------------------------------------------------------------------
(* Reading the rows *)

Shown == {"plain", "released"}

\* The rows getMessagesSince returns: queued, promoting and cancelled ones are hidden.
Visible == {m \in Msgs : row[m] \in Shown}
Since(c) == {m \in Visible : m > c}

IsLast(c, S) == c \in S /\ \A m \in S : m <= c
IsFirst(c, S) == c \in S /\ \A m \in S : c <= m

\* isCursorAfter: a cursor never moves back.
Later(a, b) == IF a > b THEN a ELSE b
AdvanceNextPullCursorOnly(c) == pull' = Later(pull, c)

-----------------------------------------------------------------------------
(* Committing.  X is the set of positions committed so far, `ledger' the     *)
(* deferred completions; a message is looked up as the step leaves it.        *)

Passed(m, X) == \E x \in X : m <= x

\* Mutant: the ledger is never flushed.
Flushed_Never(X, ledger) == X

\* Mutant: ... or flushed whatever lies before.
Flushed_Eager(X, ledger) == X \cup ledger

\* DeferredOutOfBandCursorLedger.flush: entries with nothing but entries before them.
Flushed(X, ledger) ==
    X \cup {d \in ledger : \A m \in Visible' : m < d => m \in ledger \/ Passed(m, X)}

\* hasUncoveredCursorMessageThrough, negated.
Eligible(r, X) == \A m \in Visible' : m <= r.cursor => m \in r.covered \/ Passed(m, X)

CursorsOf(R) == {r.cursor : r \in R}
Precedes(s, r) == s.cursor < r.cursor \/ (s.cursor = r.cursor /\ s.id < r.id)
Below(r) == {s \in pending : Precedes(s, r)}

\* flushAcknowledgedIpcDeliveries: receipts are committed in the order of their
\* cursors, each flushes the ledger, and the first that is not acknowledged or
\* would pass a message it does not cover holds up the rest.
Taken(X, ledger, acks) ==
    LET Before(r) == IF Below(r) = {} THEN X
                     ELSE Flushed(X \cup CursorsOf(Below(r)), ledger)
    IN {r \in pending : \A s \in Below(r) \cup {r} :
            s \in acks /\ Eligible(s, Before(s))}

Reached(X, ledger, taken) ==
    IF taken = {} THEN X ELSE Flushed(X \cup CursorsOf(taken), ledger)

\* advanceCursors for every position of X, and for `pulled' on the pull side.
AdvanceCursors(X, pulled, ledger) ==
    /\ IsLast(committed', X \cup {committed})
    /\ IsLast(pull', X \cup pulled \cup {pull, committed})
    /\ deferred' = {d \in ledger : d > committed'}

\* commitIpcDeliveryReceipts for the receipts that may be committed now.
Settle(X, pulled, ledger, acks) ==
    LET taken == Taken(X, ledger, acks)
    IN /\ AdvanceCursors(Reached(X, ledger, taken), pulled, ledger)
       /\ pending' = pending \ taken
       /\ acked' = acks \ taken

\* completeOutOfBandMessages(P): P is kept back while an earlier row is uncommitted.
CompleteOutOfBand(P) ==
    LET ledger == deferred \cup P
        held   == \E m \in Visible' : m > committed /\ \A p \in P : m < p
    IN IF held
       THEN /\ AdvanceCursors({committed}, P, ledger)
            /\ UNCHANGED <<pending, acked>>
       ELSE Settle(Flushed({committed}, ledger), P, ledger, acked)

-----------------------------------------------------------------------------
(* Handing a batch to a live runner *)

\* getActiveQueryId is set.
Querying == runner \in {"expanding", "busy", "reserved"}

\* GroupQueue.sendMessage with the admission of processGroupMessages: not
\* before the prompt is built, and never an input older than the current one.
Injectable(c) == runner \in {"busy", "idle", "reserved"} /\ c >= current

Inject(B, c) ==
    LET ids == {0} \cup {r.id : r \in pending}
    IN /\ Injectable(c)
       /\ \E n \in ids :
              LET receipt == [id |-> n + 1, cursor |-> c, covered |-> B]
              IN /\ IsLast(n, ids)
                 /\ pending' = pending \cup {receipt}
                 /\ inbox' = inbox \cup {receipt}
       /\ injected' = TRUE
       /\ current' = c
       /\ pull' = Later(pull, c)
       /\ UNCHANGED <<committed, deferred, acked, turns, outcome>>

\* A query that nobody has reserved runs from now on.
Wake == runner' = IF runner = "idle" THEN "busy" ELSE runner

-----------------------------------------------------------------------------
(* A message is stored *)

\* A Web message is the newest row; a place may stay empty.
IsNext(m) == \A k \in Msgs : k >= m => row[k] = "absent"
Store(m, status) == IsNext(m) /\ row' = [row EXCEPT ![m] = status]

\* An IM channel stores a message with the time of the platform, which may be long
\* past; the poller finds it.
StoreFromChannel(m) ==
    /\ m \notin Web /\ row[m] = "absent"
    /\ row' = [row EXCEPT ![m] = "plain"]
    /\ UNCHANGED <<seen, pull, committed, deferred, readerVars, queueVars,
                   runnerVars, followVars, handled>>

\* handleWebUserMessage, while a query runs: the message waits for its end.
WebQueues(m) ==
    /\ m \in Web /\ Querying /\ Store(m, "queued")
    /\ seen' = Later(seen, m)
    /\ UNCHANGED <<pull, committed, deferred, readerVars, queueVars, runnerVars,
                   followVars, handled>>

WebInjects(m) ==
    /\ m \in Web \ Commands /\ ~Querying /\ Store(m, "plain")
    /\ seen' = Later(seen, m)
    /\ Inject({m}, m) /\ Wake
    /\ UNCHANGED <<readerVars, queueVars, holder, followVars, handled>>

WebIsRefused(m) ==
    /\ m \in Web /\ ~Querying /\ Store(m, "plain")
    /\ seen' = Later(seen, m)
    /\ check' = TRUE
    /\ UNCHANGED <<pull, committed, deferred, readerVars, retry, tries, resting,
                   runnerVars, followVars, handled>>

\* A command is answered while a runner lives, or the quota is used up.
WebAnswers(m) ==
    /\ m \in Web
    /\ Store(m, IF Querying THEN "released" ELSE "plain")
    /\ seen' = Later(seen, m)
    /\ CompleteOutOfBand({m})
    /\ handled' = handled \cup {m}
    /\ UNCHANGED <<readerVars, queueVars, runner, holder, current, injected, inbox,
                   turns, outcome, followVars>>

-----------------------------------------------------------------------------
(* The message loop *)

\* getNewMessages; the global cursor is saved before anything is done with them.
PollReads ==
    /\ fresh = {} /\ batch["loop"] = {}
    /\ fresh' = Since(seen) /\ fresh' # {}
    /\ IsLast(seen', fresh')
    /\ UNCHANGED <<row, pull, committed, deferred, batch, replies, queueVars,
                   runnerVars, followVars, handled>>

\* The owner is not active, or a quota notice was delivered.
PollDrops ==
    /\ fresh # {} /\ fresh' = {}
    /\ UNCHANGED row
    /\ CompleteOutOfBand(fresh)
    /\ handled' = handled \cup fresh
    /\ UNCHANGED <<seen, batch, replies, queueVars, runner, holder, current,
                   injected, inbox, turns, outcome, followVars>>

\* The quota notice was not acknowledged.
PollNoticeFails ==
    /\ fresh # {} /\ fresh' = {}
    /\ UNCHANGED <<cursorVars, batch, replies, queueVars, runnerVars, followVars,
                   handled>>

\* The runner holds the identity of another bot.
PollRestartsRunner ==
    /\ fresh # {} /\ fresh' = {}
    /\ check' = TRUE
    /\ UNCHANGED <<cursorVars, batch, replies, retry, tries, resting, runnerVars,
                   followVars, handled>>

\* The batch is everything since the pull cursor, or else what was just read.
PollTakesUp ==
    LET B == IF Since(pull) = {} THEN fresh ELSE Since(pull)
    IN /\ fresh # {} /\ fresh' = {}
       /\ batch' = [batch EXCEPT !["loop"] = B]
       /\ replies' = [replies EXCEPT !["loop"] = B \cap Commands]
       /\ UNCHANGED <<cursorVars, queueVars, runnerVars, followVars, handled>>

LoopIsDone ==
    /\ batch["loop"] # {} /\ replies["loop"] = {}
    /\ batch' = [batch EXCEPT !["loop"] = {}]

\* What is left of the batch is injected ...
PollInjects ==
    /\ LoopIsDone /\ ~ batch["loop"] \subseteq Commands
    /\ \E c \in batch["loop"] : IsLast(c, batch["loop"]) /\ Inject(batch["loop"], c)
    /\ Wake
    /\ UNCHANGED <<row, seen, fresh, replies, queueVars, holder, followVars, handled>>

\* ... or a cold start is asked for ...
PollIsRefused ==
    /\ LoopIsDone /\ ~ batch["loop"] \subseteq Commands
    /\ check' = TRUE
    /\ UNCHANGED <<cursorVars, fresh, replies, retry, tries, resting, runnerVars,
                   followVars, handled>>

\* ... or nothing is left.
PollAnswered ==
    /\ LoopIsDone /\ batch["loop"] \subseteq Commands
    /\ UNCHANGED <<cursorVars, fresh, replies, queueVars, runnerVars, followVars,
                   handled>>

-----------------------------------------------------------------------------
(* The replies to commands, one after the other                              *)

\* Only a batch that leaves nothing for the agent commits what it answers.
ReplyAcked(who) ==
    \E m \in replies[who] :
        /\ IsFirst(m, replies[who])
        /\ UNCHANGED row
        /\ IF batch[who] \subseteq Commands
           THEN CompleteOutOfBand({m})
           ELSE /\ pull' = Later(pull, m)
                /\ UNCHANGED <<committed, deferred, pending, acked>>
        /\ replies' = [replies EXCEPT ![who] = @ \ {m}]
        /\ handled' = handled \cup {m}
        /\ UNCHANGED <<seen, fresh, batch, queueVars, runner, holder, current,
                       injected, inbox, turns, outcome, followVars>>

\* The loop leaves the rest to a cold start; a run fails (RunFails).
ReplyRefused ==
    /\ replies["loop"] # {}
    /\ batch' = [batch EXCEPT !["loop"] = {}]
    /\ replies' = [replies EXCEPT !["loop"] = {}]
    /\ check' = TRUE
    /\ UNCHANGED <<cursorVars, fresh, retry, tries, resting, runnerVars, followVars,
                   handled>>

-----------------------------------------------------------------------------
(* A run *)

ToSend == batch["run"] \ Commands
ColdCursors == {c \in ToSend : IsLast(c, ToSend)}     \* lastProcessed

\* Mutant: the retry timer is lost.
StartIsDue_NoTimer == check

StartIsDue == check \/ retry

\* runForGroup; without a message to read the run is over at once.
ColdStart ==
    /\ runner = "off" /\ StartIsDue
    /\ check' = FALSE /\ retry' = FALSE /\ resting' = FALSE
    /\ IF Since(pull) = {}
       THEN tries' = 0 /\ UNCHANGED <<batch, replies, runner>>
       ELSE /\ batch' = [batch EXCEPT !["run"] = Since(pull)]
            /\ replies' = [replies EXCEPT !["run"] = Since(pull) \cap Commands]
            /\ runner' = "expanding"
            /\ UNCHANGED tries
    /\ UNCHANGED <<cursorVars, fresh, holder, current, injected, pending, acked,
                   inbox, turns, outcome, followVars, handled>>

\* The prompt goes to a new process.
Launch ==
    /\ runner = "expanding" /\ replies["run"] = {} /\ ToSend # {}
    /\ runner' = "busy"
    /\ current' \in ColdCursors
    /\ turns' = <<{}>>
    /\ outcome' = "open"
    /\ UNCHANGED <<cursorVars, readerVars, queueVars, holder, injected, pending, acked,
                   inbox, followVars, handled>>

\* The runner takes up a file: as a turn of its own behind those it has, or,
\* while it waits, together with all the others.
Accept ==
    /\ inbox # {}
    /\ IF turns = <<>>
       THEN turns' = <<inbox>> /\ inbox' = {}
       ELSE \E r \in inbox :
                /\ \A s \in inbox : r.cursor <= s.cursor
                /\ turns' = Append(turns, {r})
                /\ inbox' = inbox \ {r}
    /\ UNCHANGED <<cursorVars, readerVars, queueVars, runner, holder, current,
                   injected, pending, acked, outcome, followVars, handled>>

Queued == {q \in Msgs : row[q] = "queued"}

\* Mutant: the runner is free until the follow-up is ready.
Reserve_WhenReady(q) == runner' = "idle" /\ holder' = q

\* reserveNextQuery
Reserve(q) == runner' = "reserved" /\ holder' = q

\* dispatchNextQueuedFollowUp on a runner without a query: the first queued
\* message reserves the next one.
Dispatch ==
    \/ Queued = {} /\ runner' = "idle" /\ holder' = 0 /\ UNCHANGED <<row, claims>>
    \/ \E q \in Queued :
           /\ IsFirst(q, Queued)
           /\ row' = [row EXCEPT ![q] = "promoting"]
           /\ claims' = claims \cup {q}
           /\ Reserve(q)

\* markRunnerQueryIdle.
QueryIsIdle ==
    IF runner = "idle" THEN UNCHANGED <<row, claims, runner, holder>> ELSE Dispatch

\* What a turn answers; the first turn of a run is its prompt.
Answered(turn) == IF turn = {} THEN ToSend ELSE UNION {r.covered : r \in turn}

\* A result with the receipts of its turn; after the last turn the query is idle.
TurnEnds ==
    /\ turns # <<>> /\ outcome # "answering"
    /\ IF Len(turns) = 1 THEN QueryIsIdle ELSE UNCHANGED <<row, claims, runner, holder>>
    /\ Settle({committed}, {}, deferred, acked \cup (Head(turns) \cap pending))
    /\ turns' = Tail(turns)
    /\ outcome' = "answering"
    /\ handled' = handled \cup Answered(Head(turns))
    /\ UNCHANGED <<seen, readerVars, queueVars, current, injected, inbox, timer>>

\* commitCursor, when the reply has reached the chat.
ReplyCommits ==
    /\ outcome = "answering"
    /\ UNCHANGED row
    /\ Settle({committed} \cup ColdCursors, {}, deferred, acked)
    /\ outcome' = "healthy"
    /\ UNCHANGED <<seen, readerVars, queueVars, runner, holder, current, injected,
                   inbox, turns, followVars, handled>>

ReplyIsLost ==
    /\ outcome = "answering" /\ outcome' = "healthy"
    /\ UNCHANGED <<cursorVars, readerVars, queueVars, runner, holder, current,
                   injected, pending, acked, inbox, turns, followVars, handled>>

\* Mutant: the later turns are dropped with the current one.
Returned_Dropped == {}

\* requeueIpcInputMessages
Returned == UNION {turns[i] : i \in 2..Len(turns)}

\* A stop of the query or a steer cancels the current turn and returns the later
\* ones to the inbox.
Interrupt ==
    /\ turns # <<>> /\ Querying /\ outcome # "answering"
    /\ Dispatch
    /\ Settle({committed}, {}, deferred, acked \cup (Head(turns) \cap pending))
    /\ inbox' = inbox \cup Returned
    /\ turns' = <<>>
    /\ outcome' = "interrupted"
    /\ handled' = handled \cup Answered(Head(turns))
    /\ UNCHANGED <<seen, readerVars, queueVars, current, injected, timer>>

\* What the agent had written is saved as the reply, unless there is one already.
InterruptCommits ==
    /\ outcome = "interrupted" /\ outcome' = "open"
    /\ UNCHANGED row
    /\ Settle({committed} \cup ColdCursors, {}, deferred, acked)
    /\ UNCHANGED <<seen, readerVars, queueVars, runner, holder, current, injected,
                   inbox, turns, followVars, handled>>

-----------------------------------------------------------------------------
(* The end of a run *)

\* Mutant: unacknowledged receipts leave the pull cursor where it is.
PullAfterRun_Kept(left) == Later(pull, committed')

\* Mutant: ... or rewind it to what was committed before the run's own commit.
PullAfterRun_Stale(left) == IF left = {} THEN Later(pull, committed') ELSE committed

\* recoverUnacknowledgedIpcDeliveries
PullAfterRun(left) == IF left = {} THEN Later(pull, committed') ELSE committed'

\* The finally part of runForGroup.  X is what the run has committed; receipts
\* that are left rewind the pull cursor for a replay from the database.
Exit(X, left) ==
    /\ IsLast(committed', X \cup {committed})
    /\ pull' = PullAfterRun(left)
    /\ deferred' = {d \in deferred : d > committed'}
    /\ runner' = "off" /\ holder' = 0 /\ current' = 0 /\ injected' = FALSE
    /\ pending' = {} /\ acked' = {} /\ inbox' = {} /\ turns' = <<>>
    /\ outcome' = "open"
    /\ batch' = [batch EXCEPT !["run"] = {}]
    /\ replies' = [replies EXCEPT !["run"] = {}]
    /\ UNCHANGED <<seen, fresh, followVars>>

\* commitCursor, then the end of the run.
CommitAndExit ==
    LET X     == {committed} \cup ColdCursors
        taken == Taken(X, deferred, acked)
        left  == pending \ taken
    IN /\ UNCHANGED row
       /\ Exit(Reached(X, deferred, taken), left)
       /\ check' = (check \/ injected \/ left # {})
       /\ tries' = 0
       /\ UNCHANGED <<retry, resting>>

\* The runner has nothing left and is closed (the idle timer, or a new run is due).
Waits == runner \in {"busy", "idle", "reserved"} /\ turns = <<>> /\ inbox = {}

\* The last input turn is completed.
RunnerExits ==
    /\ Waits /\ outcome = "healthy"
    /\ CommitAndExit
    /\ UNCHANGED handled

\* An error that a retry cannot mend: the user is told.
RunGivesUp ==
    /\ runner \in {"busy", "idle", "reserved"}
    /\ CommitAndExit
    /\ handled' = handled \cup ToSend

\* Nothing is left for the agent, or nobody pays for it.
ColdAnswers ==
    /\ runner = "expanding" /\ replies["run"] = {} /\ ToSend = {}
    /\ UNCHANGED row
    /\ Exit({committed}, {})
    /\ tries' = 0
    /\ UNCHANGED <<check, retry, resting, handled>>

ColdDrops ==
    /\ runner = "expanding" /\ replies["run"] = {} /\ ToSend # {}
    /\ UNCHANGED row
    /\ CompleteOutOfBand(ToSend)
    /\ batch' = [batch EXCEPT !["run"] = {}]
    /\ runner' = "off"
    /\ tries' = 0
    /\ handled' = handled \cup ToSend
    /\ UNCHANGED <<seen, fresh, replies, check, retry, resting, holder, current,
                   injected, inbox, turns, outcome, followVars>>

\* Mutant: one retry too many.
MayRetry_OneMore == tries <= MaxTries

MayRetry == tries < MaxTries

\* processGroupMessages returns FALSE: scheduleRetry.
Failure ==
    /\ UNCHANGED row
    /\ Exit({committed}, pending)
    /\ check' = (check \/ injected)
    /\ IF MayRetry
       THEN tries' = tries + 1 /\ retry' = TRUE /\ UNCHANGED resting
       ELSE tries' = 0 /\ resting' = TRUE /\ UNCHANGED retry
    /\ UNCHANGED handled

\* An error, in whatever state.
RunFails == runner # "off" /\ Failure

\* The last input turn was interrupted: it is not healthy.
InterruptedExits == Waits /\ outcome \in {"interrupted", "open"} /\ Failure

\* stopGroup gives up every accepted message and what waits for a cold start.
StopGroup ==
    LET X == IF pending = {} THEN {committed}
             ELSE Flushed({committed} \cup CursorsOf(pending), deferred)
    IN /\ runner \in {"busy", "idle", "reserved"}
       /\ UNCHANGED row
       /\ Exit(X \cup ColdCursors, {})
       /\ check' = FALSE /\ resting' = TRUE
       /\ handled' = handled \cup ToSend \cup UNION {r.covered : r \in pending}
       /\ UNCHANGED <<retry, tries>>

-----------------------------------------------------------------------------
(* Follow-ups, prepared while their reservation holds the runner              *)

Prepared(q) == q \in claims /\ claims' = claims \ {q}

\* releaseQueryReservation; a reservation that has been replaced stays.
ReleaseReservation(q) ==
    IF holder = q THEN runner' = "idle" /\ holder' = 0 ELSE UNCHANGED <<runner, holder>>

\* injectPreparedFollowUp.
FollowUpInjects(q) ==
    /\ Prepared(q) /\ row[q] = "promoting"
    /\ row' = [row EXCEPT ![q] = "released"]
    /\ Inject({q}, q)
    /\ IF holder = q THEN runner' = "busy" /\ holder' = 0 ELSE Wake /\ UNCHANGED holder
    /\ UNCHANGED <<seen, readerVars, queueVars, timer, handled>>

\* Without a runner, or refused: the row is left to a cold start.
FollowUpIsRefused(q) ==
    /\ Prepared(q) /\ row[q] = "promoting"
    /\ row' = [row EXCEPT ![q] = "released"]
    /\ ReleaseReservation(q)
    /\ check' = TRUE
    /\ UNCHANGED <<seen, pull, committed, deferred, readerVars, retry, tries, resting,
                   current, injected, pending, acked, inbox, turns, outcome, timer,
                   handled>>

\* completeFollowUpReply; the next follow-up is due.
FollowUpAnswered(q) ==
    /\ q \in claims \cap Commands /\ row[q] = "promoting"
    /\ LET later == Queued \ {q}
           freed == [row EXCEPT ![q] = "released"]
       IN IF holder # q \/ later = {}
          THEN /\ row' = freed
               /\ claims' = claims \ {q}
               /\ ReleaseReservation(q)
          ELSE \E next \in later :
                   /\ IsFirst(next, later)
                   /\ row' = [freed EXCEPT ![next] = "promoting"]
                   /\ claims' = (claims \ {q}) \cup {next}
                   /\ holder' = next
                   /\ UNCHANGED runner
    /\ CompleteOutOfBand({q})
    /\ handled' = handled \cup {q}
    /\ UNCHANGED <<seen, readerVars, queueVars, current, injected, inbox, turns,
                   outcome, timer>>

\* The reply was refused or the preparation threw: once more in a second.
FollowUpFails(q) ==
    /\ Prepared(q)
    /\ row' = [row EXCEPT ![q] = IF row[q] = "promoting" THEN "queued" ELSE row[q]]
    /\ ReleaseReservation(q)
    /\ timer' = TRUE
    /\ UNCHANGED <<seen, pull, committed, deferred, readerVars, queueVars, current,
                   injected, pending, acked, inbox, turns, outcome, handled>>

\* Cancelled while it was prepared: the next follow-up is due.
FollowUpIsGone(q) ==
    /\ q \in claims /\ row[q] = "cancelled"
    /\ IF holder # q \/ Queued = {}
       THEN /\ claims' = claims \ {q}
            /\ ReleaseReservation(q)
            /\ UNCHANGED row
       ELSE \E next \in Queued :
                /\ IsFirst(next, Queued)
                /\ row' = [row EXCEPT ![next] = "promoting"]
                /\ claims' = (claims \ {q}) \cup {next}
                /\ holder' = next
                /\ UNCHANGED runner
    /\ UNCHANGED <<seen, pull, committed, deferred, readerVars, queueVars, current,
                   injected, pending, acked, inbox, turns, outcome, timer, handled>>

\* The timer of FollowUpFails.
FollowUpTimer ==
    /\ timer /\ timer' = FALSE
    /\ IF runner = "idle" THEN Dispatch ELSE UNCHANGED <<row, claims, runner, holder>>
    /\ UNCHANGED <<seen, pull, committed, deferred, readerVars, queueVars, current,
                   injected, pending, acked, inbox, turns, outcome, handled>>

CancelFollowUp(q) ==
    /\ row[q] \in {"queued", "promoting"}
    /\ row' = [row EXCEPT ![q] = "cancelled"]
    /\ handled' = handled \cup {q}
    /\ UNCHANGED <<seen, pull, committed, deferred, readerVars, queueVars, runnerVars,
                   followVars>>

-----------------------------------------------------------------------------
(* A crash of the host, and its start                                         *)

\* What is durable is the rows and the cursors.  Promoting rows are queued again,
\* the first is released to a cold start; whatever is pulled but not committed is
\* read again, unless the chat has no history.
Restart ==
    LET waiting  == {q \in Msgs : row[q] \in {"queued", "promoting"}}
        released == {q \in waiting : IsFirst(q, waiting)}
    IN /\ row' = [m \in Msgs |-> IF m \in released THEN "released"
                                 ELSE IF m \in waiting THEN "queued" ELSE row[m]]
       /\ pull' = committed
       /\ check' = \/ released # {}
                   \/ /\ committed > 0 \/ pull > committed
                      /\ \E m \in Visible' : m > committed
       /\ deferred' = {} /\ fresh' = {}
       /\ batch' = [who \in Readers |-> {}] /\ replies' = [who \in Readers |-> {}]
       /\ retry' = FALSE /\ tries' = 0 /\ resting' = FALSE
       /\ runner' = "off" /\ holder' = 0 /\ current' = 0 /\ injected' = FALSE
       /\ pending' = {} /\ acked' = {} /\ inbox' = {} /\ turns' = <<>>
       /\ outcome' = "open"
       /\ claims' = {} /\ timer' = FALSE
       /\ UNCHANGED <<seen, committed, handled>>

-----------------------------------------------------------------------------
Stores(m) == StoreFromChannel(m) \/ WebQueues(m) \/ WebInjects(m) \/ WebIsRefused(m)
             \/ WebAnswers(m)
Polls == PollReads \/ PollDrops \/ PollNoticeFails \/ PollRestartsRunner
         \/ PollTakesUp \/ PollInjects \/ PollIsRefused \/ PollAnswered
Replies == (\E who \in Readers : ReplyAcked(who)) \/ ReplyRefused
Turns == Accept \/ TurnEnds \/ ReplyCommits \/ ReplyIsLost \/ Interrupt
         \/ InterruptCommits
Runs == ColdStart \/ Launch \/ ColdAnswers \/ ColdDrops
        \/ RunnerExits \/ RunGivesUp \/ RunFails \/ InterruptedExits \/ StopGroup
FollowUps(q) == FollowUpInjects(q) \/ FollowUpIsRefused(q) \/ FollowUpAnswered(q)
                \/ FollowUpFails(q) \/ FollowUpIsGone(q) \/ CancelFollowUp(q)

Next ==
    \/ \E m \in Msgs : Stores(m) \/ FollowUps(m)
    \/ Polls \/ Replies \/ Turns \/ Runs
    \/ FollowUpTimer
    \/ Restart

Spec == Init /\ [][Next]_vars

-----------------------------------------------------------------------------
(* Properties                                                               *)

\* Each field has its type.
CursorTypeOK ==
    /\ row \in [Msgs -> Rows]
    /\ seen \in Cursors /\ pull \in Cursors /\ committed \in Cursors
    /\ deferred \subseteq Msgs /\ fresh \subseteq Msgs
    /\ batch \in [Readers -> SUBSET Msgs]
    /\ replies \in [Readers -> SUBSET Msgs]
    /\ check \in BOOLEAN /\ retry \in BOOLEAN /\ resting \in BOOLEAN
    /\ tries \in 0..MaxTries
    /\ runner \in {"off", "expanding", "busy", "idle", "reserved"}
    /\ holder \in Cursors /\ current \in Cursors
    /\ injected \in BOOLEAN
    /\ pending \subseteq Receipts /\ acked \subseteq Receipts
    /\ inbox \subseteq Receipts
    /\ turns \in Seq(SUBSET Receipts)
    /\ outcome \in {"open", "answering", "healthy", "interrupted"}
    /\ claims \subseteq Msgs /\ timer \in BOOLEAN
    /\ handled \subseteq Msgs

\* A message that has been seen and is not over is in somebody's hands, or under a
\* receipt whose loss rewinds the pull cursor, or ahead of the pull cursor with a
\* cold start to come (advanceNextPullCursorOnly, recoverUnacknowledgedIpcDeliveries).
NoneForgotten ==
    \A m \in Visible \ handled : m <= seen =>
        \/ m \in fresh \cup batch["loop"] \cup batch["run"]
        \/ \E r \in pending : m <= r.cursor
        \/ m > pull /\ (check \/ retry \/ resting)

\* The cursor a restart trusts never passes a message that is not over
\* (hasUncoveredCursorMessageThrough, hasEarlierCursorMessage).
CommittedIsHandled == \A m \in Visible : m <= committed => m \in handled

\* A receipt that is not acknowledged is a file or belongs to a turn of the runner,
\* whatever is interrupted, merged or returned (IpcTurnDeliveryTracker).
ReceiptsTracked == pending \ acked = inbox \cup UNION {turns[i] : i \in DOMAIN turns}

\* Nothing is under way and nothing waits for a next message.
Quiet == /\ runner = "off" /\ ~check /\ ~retry /\ ~resting
         /\ fresh = {} /\ batch["loop"] = {}

\* When all is quiet a restart reads no message of the agent again.
QuietIsCommitted ==
    Quiet => \A m \in Visible \ Commands : m <= seen => m <= committed

\* No channel stores messages: what the chat did not begin with is from the Web page.
WebChat == \A m \in Msgs \ Web : row[m] = "absent" \/ m <= History

\* While a runner is reserved for a follow-up, a chat with Web messages gives it nothing
\* but follow-ups that are being prepared, so that no message that arrives meanwhile is
\* answered before them (reserveNextQuery).
FollowUpNotBypassed ==
    [][WebChat /\ holder # 0 => \A r \in pending' \ pending : r.cursor \in claims]_vars

\* The committed cursor never moves back, and the pull cursor moves back only to what
\* is committed by then (rewindNextPullCursorToCommitted, isCursorAfter).
RewindsToCommitted ==
    [][/\ committed <= committed'
       /\ pull' < pull => pull' = committed']_vars

CursorFairness ==
    /\ WF_vars(Polls) /\ WF_vars(ColdStart) /\ WF_vars(Launch \/ ColdAnswers)
    /\ WF_vars(\E who \in Readers : ReplyAcked(who))
    /\ WF_vars(Accept) /\ WF_vars(TurnEnds) /\ WF_vars(ReplyCommits \/ ReplyIsLost)
    /\ WF_vars(RunnerExits \/ InterruptedExits) /\ WF_vars(FollowUpTimer)
    /\ \A q \in Msgs : WF_vars(FollowUpInjects(q) \/ FollowUpIsRefused(q)
                               \/ FollowUpAnswered(q) \/ FollowUpIsGone(q))

FairSpec == Spec /\ CursorFairness

\* Every stored message is over in the end, unless the retries are used up, the user
\* stops the runner, or a run ends without its queued follow-ups.
EveryMessageIsHandled ==
    \A m \in Msgs : row[m] # "absent" ~>
        m \in handled \/ resting \/ (row[m] = "queued" /\ runner = "off")
=============================================================================
