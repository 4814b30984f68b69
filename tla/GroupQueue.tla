----------------------------- MODULE GroupQueue -----------------------------
(***************************************************************************)
(* The in-process scheduler of agent runners, src/src/group-queue.ts.       *)
(*                                                                         *)
(* A jid is a chat or a virtual lane of a chat (an agent conversation or a  *)
(* scheduled task).  Jids that share a serialization key share one runner;  *)
(* runners in containers also share a pool of slots.  Work that cannot      *)
(* start is parked in the jid (pendingMessages, pendingTasks) and the jid   *)
(* is put into waitingGroups, to be started by the exit of a runner, by the *)
(* end of a mutation pause or by a retry timer.                             *)
(*                                                                         *)
(* JavaScript runs each handler to its next await without interruption, so  *)
(* an action is such a segment: in particular the whole `finally' block of  *)
(* a runner, with the drain it performs, is one action.                     *)
(***************************************************************************)
EXTENDS Naturals, Sequences, FiniteSets

CONSTANTS
    Chats,       \* registered chat jids
    Lanes,       \* virtual jids, {chat}#agent:{id} and {chat}#task:{id}
    Agents,      \* the lanes that are agent conversations
    Folder,      \* the workspace folder of each jid
    Containers,  \* the folders whose runners are containers (others: host)
    Tasks,       \* ids of queued tasks
    Scheduled,   \* the tasks with a row that can be cancelled; they return void
    Recovery,    \* the task that replays the undelivered input of an agent
    MaxRetries,
    MaxLimit,    \* bound on the setting maxConcurrentContainers
    MaxPauses    \* bound on the overlapping mutation tokens of a folder

Jids == Chats \cup Lanes
Folders == {Folder[j] : j \in Jids}
None == "none"
Messages == "messages"

ASSUME QueueAssumption ==
    /\ IsFiniteSet(Jids)
    /\ Chats \cap Lanes = {}
    /\ Agents \subseteq Lanes
    /\ DOMAIN Folder = Jids
    /\ Folders \cap Jids = {}
    /\ Containers \subseteq Folders
    /\ Scheduled \subseteq Tasks
    /\ Recovery \in Tasks \ Scheduled
    /\ {None, Messages} \cap Tasks = {}
    /\ MaxRetries \in Nat
    /\ MaxLimit \in Nat \ {0}
    /\ MaxPauses \in Nat

\* getSerializationKey: a chat runs in its folder, a lane beside it.
Key(j) == IF j \in Chats THEN Folder[j] ELSE j
Boxed == {j \in Jids : Folder[j] \in Containers}
Family(f) == {j \in Jids : Folder[j] = f}

VARIABLES
    active,                  \* jids with a runner
    registered,              \* ... whose process is known (groupFolder # null)
    givingUp,                \* ... awaiting onMaxRetriesExceeded
    job,                     \* what the runner executes: None, Messages or a task
    pendingMessages,
    pendingTasks,
    retryTimer,              \* None, Messages or the task to replay
    retryCount,
    stopRequested,
    hasIpcInjectedMessages,
    pendingIpcDeliveries,    \* per runner, the jids whose input it has not acknowledged
    waitingGroups,
    activeContainerCount,
    recentlyStoppedFolders,
    owesWake,                \* history: no drainWaiting since a slot or key went unannounced
    halted                   \* history: the jids given nothing to do since they were stopped

VARIABLES
    mutationPauseCounts,
    runtimeSafetyBlocks,
    terminalDiscardMutationKeys,
    mutationPreserveStopJids,
    mutationStoppedFolders,
    restarts                 \* <<requested jid, stopped jid>> of restartGroup calls

VARIABLES
    maxConcurrentContainers,
    cancelled,               \* scheduled tasks no longer active in the database
    shuttingDown

groupVars == <<active, registered, givingUp, job, pendingMessages, pendingTasks,
               retryTimer, retryCount, stopRequested, hasIpcInjectedMessages,
               pendingIpcDeliveries, waitingGroups, activeContainerCount,
               recentlyStoppedFolders, owesWake, halted>>
gateVars == <<mutationPauseCounts, runtimeSafetyBlocks,
              terminalDiscardMutationKeys, mutationPreserveStopJids,
              mutationStoppedFolders>>
settingVars == <<maxConcurrentContainers, cancelled, shuttingDown>>
vars == <<groupVars, gateVars, restarts, settingVars>>

Init ==
    /\ active = {} /\ registered = {} /\ givingUp = {}
    /\ job = [j \in Jids |-> None]
    /\ pendingMessages = {}
    /\ pendingTasks = [j \in Jids |-> <<>>]
    /\ retryTimer = [j \in Jids |-> None]
    /\ retryCount = [j \in Jids |-> 0]
    /\ stopRequested = {}
    /\ hasIpcInjectedMessages = {}
    /\ pendingIpcDeliveries = [j \in Jids |-> {}]
    /\ waitingGroups = {}
    /\ activeContainerCount = 0
    /\ recentlyStoppedFolders = {}
    /\ owesWake = FALSE
    /\ halted = {}
    /\ mutationPauseCounts = [f \in Folders |-> 0]
    /\ runtimeSafetyBlocks = {}
    /\ terminalDiscardMutationKeys = {}
    /\ mutationPreserveStopJids = {}
    /\ mutationStoppedFolders = {}
    /\ restarts = {}
    /\ maxConcurrentContainers \in 1..MaxLimit
    /\ cancelled = {}
    /\ shuttingDown = FALSE

-----------------------------------------------------------------------------
(* A handler changes several fields and then may start runners.  `Now' is  *)
(* the state of the groups as a record, a handler edits it, and Settle      *)
(* makes it the next state.                                                 *)

Gated == {f \in Folders : mutationPauseCounts[f] > 0} \cup runtimeSafetyBlocks

Now == [active |-> active, registered |-> registered, givingUp |-> givingUp,
        job |-> job, pending |-> pendingMessages, queued |-> pendingTasks,
        retry |-> retryTimer, tries |-> retryCount, stop |-> stopRequested,
        injected |-> hasIpcInjectedMessages, owed |-> pendingIpcDeliveries,
        waiting |-> waitingGroups, slots |-> activeContainerCount,
        stopped |-> recentlyStoppedFolders, owes |-> owesWake,
        halted |-> halted, gated |-> Gated]

InQueue(t, q) == \E i \in DOMAIN q : q[i] = t

\* The drains skip the tasks whose row is no longer active.
HasTask(q) == \E i \in DOMAIN q : q[i] \notin cancelled
FirstTask(q) == CHOOSE i \in DOMAIN q : /\ q[i] \notin cancelled
                                        /\ \A k \in 1..(i - 1) : q[k] \in cancelled
Rest(q) == IF HasTask(q) THEN SubSeq(q, FirstTask(q) + 1, Len(q)) ELSE <<>>

\* findActiveRunnerFor
Busy(on, j) == \E i \in on : Key(i) = Key(j)
Runner(j) == IF Busy(active, j) THEN CHOOSE i \in active : Key(i) = Key(j) ELSE j

\* Mutant: one container more than the setting.
Room_OneMore(m, taken, j) == j \in Boxed => m.slots + taken <= maxConcurrentContainers

\* hasCapacityFor, with `taken' slots taken by earlier starts of this drain
Room(m, taken, j) == j \in Boxed => m.slots + taken < maxConcurrentContainers

Closed(m, j) == Folder[j] \in m.gated
Runnable(m, j) == HasTask(m.queued[j]) \/ (j \in m.pending /\ m.retry[j] = None)

\* Mutant: a start leaves the timer armed.
TimersAfterStart_Kept(m, started) == m.retry

\* cancelRetryTimer, of the jids that start
TimersAfterStart(m, started) == [j \in Jids |-> IF j \in started THEN None ELSE m.retry[j]]

\* The synchronous prefix of runForGroup for `msgs' and of runTask for `tsks';
\* the jids of `seen' have had their queue drained.
Settle(m, msgs, tsks, seen) ==
    LET started == msgs \cup tsks
    IN  /\ active' = m.active \cup started
        /\ registered' = m.registered
        /\ givingUp' = m.givingUp
        /\ job' = [j \in Jids |->
                      IF j \in tsks THEN m.queued[j][FirstTask(m.queued[j])]
                      ELSE IF j \in msgs THEN Messages ELSE m.job[j]]
        /\ pendingMessages' = m.pending \ msgs
        /\ pendingTasks' = [j \in Jids |-> IF j \in tsks \cup seen
                                           THEN Rest(m.queued[j]) ELSE m.queued[j]]
        /\ retryTimer' = TimersAfterStart(m, started)
        /\ retryCount' = m.tries
        /\ stopRequested' = m.stop \ started
        /\ hasIpcInjectedMessages' = m.injected
        /\ pendingIpcDeliveries' = m.owed
        /\ waitingGroups' = m.waiting \ (started \cup seen)
        /\ activeContainerCount' = m.slots + Cardinality(started \cap Boxed)
        /\ recentlyStoppedFolders' = m.stopped \ {Key(j) : j \in msgs \cap m.stop}
        /\ owesWake' = m.owes
        /\ halted' = m.halted

Set(m) == Settle(m, {}, {}, {})

\* drainWaiting.  The loop visits the waiting jids in insertion order; the model
\* admits the outcome of every order: `seen' are dropped as having nothing to
\* run, `chosen' start, and every other one is gated, has a runner of its key or
\* has no slot.
DrainWaiting(m) ==
    \E chosen, seen \in SUBSET m.waiting :
        LET slots == Cardinality(chosen \cap Boxed)
            free(j) == ~Closed(m, j) /\ ~Busy(m.active, j)
        IN  /\ \A j \in chosen : free(j) /\ Runnable(m, j)
            /\ \A i, j \in chosen : Key(i) = Key(j) => i = j
            /\ slots > 0 => m.slots + slots <= maxConcurrentContainers
            /\ \A j \in seen : free(j) /\ ~Runnable(m, j) /\ Room(m, 0, j)
            /\ \A j \in m.waiting \ (chosen \cup seen) :
                   free(j) => Busy(chosen, j) \/ ~Room(m, slots, j)
            /\ Settle([m EXCEPT !.owes = FALSE],
                      {j \in chosen : ~HasTask(m.queued[j])},
                      {j \in chosen : HasTask(m.queued[j])},
                      chosen \cup seen)

\* Mutant: only a runner of the jid itself is looked for.
MessageCheck_OwnRunner(m, j) ==
    IF shuttingDown \/ Folder[j] \in terminalDiscardMutationKeys THEN Set(m)
    ELSE IF Closed(m, j) \/ j \in m.active \/ ~Room(m, 0, j)
    THEN Set([m EXCEPT !.pending = @ \cup {j}, !.waiting = @ \cup {j}])
    ELSE Settle(m, {j}, {}, {})

\* Mutant: the pause of a mutation is not looked at.
MessageCheck_Ungated(m, j) ==
    IF shuttingDown \/ Folder[j] \in terminalDiscardMutationKeys THEN Set(m)
    ELSE IF Busy(m.active, j) \/ ~Room(m, 0, j)
    THEN Set([m EXCEPT !.pending = @ \cup {j}, !.waiting = @ \cup {j}])
    ELSE Settle(m, {j}, {}, {})

\* enqueueMessageCheck
MessageCheck(m, j) ==
    IF shuttingDown THEN Set(m)
    ELSE IF Folder[j] \in terminalDiscardMutationKeys
    THEN Set([m EXCEPT !.pending = @ \ {j}, !.waiting = @ \ {j}])
    ELSE IF Closed(m, j) \/ Busy(m.active, j) \/ ~Room(m, 0, j)
    THEN Set([m EXCEPT !.pending = @ \cup {j}, !.waiting = @ \cup {j}])
    ELSE Settle(m, {j}, {}, {})

\* Mutant: the jid of a parked task does not wait.
TaskCheck_Unlisted(m, j, t) ==
    IF \/ shuttingDown
       \/ Folder[j] \in terminalDiscardMutationKeys
       \/ InQueue(t, m.queued[j])
    THEN Set(m)
    ELSE IF Closed(m, j) \/ Busy(m.active, j) \/ ~Room(m, 0, j)
    THEN Set([m EXCEPT !.queued[j] = Append(@, t)])
    ELSE Settle([m EXCEPT !.queued[j] = <<t>> \o @], {}, {j}, {})

\* enqueueTask: a task that starts at once goes before the ones queued.
TaskCheck(m, j, t) ==
    IF \/ shuttingDown
       \/ Folder[j] \in terminalDiscardMutationKeys
       \/ InQueue(t, m.queued[j])
    THEN Set(m)
    ELSE IF Closed(m, j) \/ Busy(m.active, j) \/ ~Room(m, 0, j)
    THEN Set([m EXCEPT !.queued[j] = Append(@, t), !.waiting = @ \cup {j}])
    ELSE Settle([m EXCEPT !.queued[j] = <<t>> \o @], {}, {j}, {})

-----------------------------------------------------------------------------
(* drainGroup and the ends of a runner                                      *)

IsRestarting(j) == \E p \in restarts : p[2] = j
HasWork(m, j) == j \in m.pending \/ m.queued[j] # <<>>

\* A virtual jid with nothing left is deleted from the map of groups.
Collect(m, j) ==
    IF j \in Lanes /\ j \notin m.pending /\ m.retry[j] = None /\ ~IsRestarting(j)
    THEN [m EXCEPT !.tries[j] = 0, !.stop = @ \ {j}, !.injected = @ \ {j},
                   !.owed[j] = {}]
    ELSE m

\* Mutant: a jid with nothing left to do does not look at the others.
DrainGroup_OwnOnly(m, j) ==
    IF shuttingDown THEN Set(m)
    ELSE IF Closed(m, j) \/ Busy(m.active, j) \/ ~Room(m, 0, j)
    THEN Set([m EXCEPT !.waiting = IF HasWork(m, j) THEN @ \cup {j} ELSE @])
    ELSE IF HasTask(m.queued[j]) THEN Settle(m, {}, {j}, {})
    ELSE IF Runnable(m, j) THEN Settle(m, {j}, {}, {j})
    ELSE Set([m EXCEPT !.waiting = @ \ {j}, !.queued[j] = <<>>])

DrainGroup(m, j) ==
    IF shuttingDown THEN Set(m)
    ELSE IF Closed(m, j)
    THEN Set([m EXCEPT !.owes = TRUE,
                       !.waiting = IF HasWork(m, j) THEN @ \cup {j} ELSE @])
    ELSE IF Busy(m.active, j) \/ ~Room(m, 0, j)
    THEN Set([m EXCEPT !.waiting = @ \cup {j}])
    ELSE IF HasTask(m.queued[j]) THEN Settle(m, {}, {j}, {})
    ELSE IF Runnable(m, j) THEN Settle(m, {j}, {}, {j})
    ELSE DrainWaiting(Collect([m EXCEPT !.waiting = @ \ {j}, !.queued[j] = <<>>], j))

\* Mutant: the inputs of agent lanes are not enqueued again.
Recover_ChatsOnly(m, j) ==
    LET back == {c \in m.owed[j] \cap Chats :
                    ~shuttingDown /\ Folder[c] \notin terminalDiscardMutationKeys}
    IN  IF j \notin m.registered THEN m
        ELSE [m EXCEPT !.owed[j] = {}, !.pending = @ \cup back,
                       !.waiting = @ \cup back]

\* recoverUnacknowledgedIpcDeliveries with the callback of index.ts: the inputs a
\* known process has not acknowledged are enqueued again, while it still counts
\* as the runner of its key.
Recover(m, j) ==
    LET back == {c \in m.owed[j] :
                    ~shuttingDown /\ Folder[c] \notin terminalDiscardMutationKeys}
        fresh == {c \in back \cap Lanes : ~InQueue(Recovery, m.queued[c])}
    IN  IF j \notin m.registered THEN m
        ELSE [m EXCEPT !.owed[j] = {},
                       !.pending = @ \cup (back \cap Chats),
                       !.queued = [c \in Jids |-> IF c \in fresh
                                                  THEN Append(@[c], Recovery) ELSE @[c]],
                       !.waiting = @ \cup (back \cap Chats) \cup fresh]

\* Mutant: the slot is not given back.
Leave_KeepsSlot(m, j) == [m EXCEPT !.active = @ \ {j}, !.registered = @ \ {j},
                                   !.givingUp = @ \ {j}, !.job[j] = None]

\* Mutant: the process of the last run is not forgotten.
Leave_KeepsProcess(m, j) == [m EXCEPT !.active = @ \ {j},
                         !.givingUp = @ \ {j}, !.job[j] = None,
                         !.slots = IF j \in Boxed THEN @ - 1 ELSE @]

Leave(m, j) == [m EXCEPT !.active = @ \ {j}, !.registered = @ \ {j},
                         !.givingUp = @ \ {j}, !.job[j] = None,
                         !.slots = IF j \in Boxed THEN @ - 1 ELSE @]

\* The `finally' block of runForGroup.
LeaveMessages(m, j) ==
    LET isStopRequested == \/ j \in m.stop
                           \/ j \in m.registered /\ Folder[j] \in m.stopped
        goesOn == ~isStopRequested \/ j \in mutationPreserveStopJids
        r == Recover(m, j)
        out == Leave([r EXCEPT !.injected = @ \ {j},
                               !.pending = IF j \in r.injected /\ goesOn
                                           THEN @ \cup {j} ELSE @], j)
    IN  IF IsRestarting(j) \/ ~goesOn
        THEN Set([out EXCEPT !.owes = TRUE])
        ELSE DrainGroup(out, j)

\* Mutant: the end of a task drains nothing.
LeaveTask_Undrained(m, j) == Set(Leave(Recover(m, j), j))

\* The `finally' block of runTask.
LeaveTask(m, j) ==
    LET out == Leave(Recover(m, j), j)
    IN  IF j \in m.stop THEN Set([out EXCEPT !.owes = TRUE]) ELSE DrainGroup(out, j)

LeaveRunner(m, j) == IF job[j] = Messages THEN LeaveMessages(m, j) ELSE LeaveTask(m, j)

\* clearRetryTimer
Cleared(m, js) == [m EXCEPT !.retry = [j \in Jids |-> IF j \in js THEN None ELSE @[j]],
                            !.tries = [j \in Jids |-> IF j \in js THEN 0 ELSE @[j]]]

\* Mutant: a run that was asked to stop is retried.
CanScheduleRetry_Stopped(j) == ~shuttingDown /\ ~IsRestarting(j)

CanScheduleRetry(j) == ~shuttingDown /\ j \notin stopRequested /\ ~IsRestarting(j)

Running(j) == j \in active /\ j \notin givingUp

\* processMessages returned true, or the task returned anything but false.
Succeed(j) ==
    /\ Running(j)
    /\ LeaveRunner(Cleared(Now, {j}), j)
    /\ UNCHANGED <<gateVars, restarts, settingVars>>

\* processMessages failed or threw, or the task returned false: scheduleRetry.
Fail(j) ==
    /\ Running(j)
    /\ job[j] \notin Scheduled
    /\ \/ ~CanScheduleRetry(j) /\ LeaveRunner(Now, j)
       \/ \* markContextOverflow: not retried
          CanScheduleRetry(j) /\ LeaveRunner(Cleared(Now, {j}), j)
       \/ /\ CanScheduleRetry(j) /\ retryCount[j] < MaxRetries
          /\ LeaveRunner([Now EXCEPT !.tries[j] = @ + 1, !.retry[j] = job[j]], j)
       \/ /\ CanScheduleRetry(j) /\ retryCount[j] = MaxRetries
          /\ Set([Cleared(Now, {j}) EXCEPT !.givingUp = @ \cup {j}])
    /\ UNCHANGED <<gateVars, restarts, settingVars>>

\* onMaxRetriesExceeded has returned.
GaveUp(j) ==
    /\ j \in givingUp
    /\ LeaveRunner(Now, j)
    /\ UNCHANGED <<gateVars, restarts, settingVars>>

\* A task threw: logged, not retried.
Throw(j) ==
    /\ Running(j)
    /\ job[j] # Messages
    /\ LeaveRunner(Now, j)
    /\ UNCHANGED <<gateVars, restarts, settingVars>>

\* The callback of the retry timer.
RetryFires(j) ==
    /\ retryTimer[j] # None
    /\ LET m == [Now EXCEPT !.retry[j] = None]
       IN  IF ~CanScheduleRetry(j) THEN Set(m)
           ELSE IF retryTimer[j] = Messages THEN MessageCheck(m, j)
           ELSE TaskCheck(m, j, retryTimer[j])
    /\ UNCHANGED <<gateVars, restarts, settingVars>>

-----------------------------------------------------------------------------
(* Work arriving, and what a runner reports                                 *)

EnqueueMessage(c) ==
    /\ c \in Chats
    /\ MessageCheck([Now EXCEPT !.halted = @ \ {c}], c)
    /\ UNCHANGED <<gateVars, restarts, settingVars>>

EnqueueTask(j, t) ==
    /\ t \notin cancelled
    /\ TaskCheck([Now EXCEPT !.halted = @ \ {j}], j, t)
    /\ UNCHANGED <<gateVars, restarts, settingVars>>

\* sendMessage: the input is published to the warm runner of its key.  Neither a
\* stop in progress nor an attempt that is being given up is checked.
SendMessage(c) ==
    LET r == Runner(c)
    IN  /\ Folder[c] \notin Gated \cup terminalDiscardMutationKeys
        /\ r \in active \cap registered
        /\ job[r] = Messages \/ c \in Agents
        /\ Set([Now EXCEPT !.injected = @ \cup {r}, !.owed[r] = @ \cup {c},
                        !.halted = @ \ {c, r}])
        /\ UNCHANGED <<gateVars, restarts, settingVars>>

\* acknowledgeIpcDeliveries
Acknowledge(r, c) ==
    /\ r \in active \cap registered
    /\ c \in pendingIpcDeliveries[r]
    /\ Set([Now EXCEPT !.owed[r] = @ \ {c}])
    /\ UNCHANGED <<gateVars, restarts, settingVars>>

RegisterProcess(j) ==
    /\ Running(j)
    /\ j \notin registered
    /\ Set([Now EXCEPT !.registered = @ \cup {j}])
    /\ UNCHANGED <<gateVars, restarts, settingVars>>

RequestGracefulRestart(j) ==
    /\ j \in active \cap registered
    /\ Set([Now EXCEPT !.pending = @ \cup {j}, !.halted = @ \ {j}])
    /\ UNCHANGED <<gateVars, restarts, settingVars>>

-----------------------------------------------------------------------------
(* Stop and restart                                                         *)

\* The synchronous prefix of stopGroup; the kill and the wait that follow show
\* as an end of the runner.
StopGroup(j) ==
    LET r == Runner(j)
        hit == {j, r}
        marked == {Folder[h] : h \in hit \cap registered}
        resumed == mutationPreserveStopJids \cup {p[i] : p \in restarts, i \in 1..2}
    IN  /\ Set([Cleared(Now, hit) EXCEPT
                   !.stop = @ \cup hit,
                   !.pending = @ \ hit,
                   !.queued = [h \in Jids |-> IF h \in hit THEN <<>> ELSE @[h]],
                   !.waiting = @ \ hit,
                   !.owed[r] = {},
                   !.stopped = @ \cup marked,
                   !.halted = @ \cup (hit \ resumed)])
        /\ mutationStoppedFolders' = mutationStoppedFolders \ marked
        /\ UNCHANGED <<mutationPauseCounts, runtimeSafetyBlocks,
                       terminalDiscardMutationKeys, mutationPreserveStopJids,
                       restarts, settingVars>>

\* parkTaskForMutation: the task a jid is running or is about to replay.
Parked(h) == IF job[h] \in Tasks THEN job[h]
             ELSE IF retryTimer[h] \in Tasks THEN retryTimer[h] ELSE None

\* stopGroup with preserveQueuedWork, called while a mutation holds the gate of a
\* workspace that exists; a lane is stopped when listDescendantJids lists it.
StopForMutation(j) ==
    LET r == Runner(j)
        hit == {j, r}
        marked == {Folder[h] : h \in hit \cap registered}
        idleLane(h) == h \in Lanes \ active /\ pendingTasks[h] # <<>>
        parks(h) == Parked(h) # None \/ idleLane(h)
    IN  /\ Folder[j] \in Gated \ terminalDiscardMutationKeys
        /\ j \in Lanes => j \in active \cup waitingGroups \/ pendingTasks[j] # <<>>
        /\ Set([Now EXCEPT
                   !.stop = @ \cup hit,
                   !.pending = @ \cup {h \in hit : ~parks(h)},
                   !.queued = [h \in Jids |->
                                  IF /\ h \in hit /\ Parked(h) # None
                                     /\ ~InQueue(Parked(h), @[h])
                                  THEN <<Parked(h)>> \o @[h] ELSE @[h]],
                   !.retry = [h \in Jids |-> IF h \in hit /\ @[h] \in Tasks
                                             THEN None ELSE @[h]],
                   !.waiting = @ \cup hit,
                   !.stopped = @ \cup marked,
                   !.halted = @ \ hit])
        /\ mutationPreserveStopJids' = mutationPreserveStopJids \cup {r}
        /\ mutationStoppedFolders' = mutationStoppedFolders \cup marked
        /\ UNCHANGED <<mutationPauseCounts, runtimeSafetyBlocks,
                       terminalDiscardMutationKeys, restarts, settingVars>>

\* stopGroup has waited for the runner, or has run into its timeout.
StopForMutationReturns(r) ==
    /\ r \in mutationPreserveStopJids
    /\ mutationPreserveStopJids' = mutationPreserveStopJids \ {r}
    /\ UNCHANGED <<groupVars, mutationPauseCounts, runtimeSafetyBlocks,
                   terminalDiscardMutationKeys, mutationStoppedFolders, restarts,
                   settingVars>>

\* RECENTLY_STOPPED_WINDOW_MS has passed.
StopWindowPasses(f) ==
    /\ f \in recentlyStoppedFolders
    /\ Set([Now EXCEPT !.stopped = @ \ {f}])
    /\ UNCHANGED <<gateVars, restarts, settingVars>>

\* restartGroup up to its first wait.
RestartGroup(j) ==
    LET r == Runner(j)
    IN  /\ ~IsRestarting(r)
        /\ restarts' = restarts \cup {<<j, r>>}
        /\ Set([Cleared(Now, {r}) EXCEPT !.halted = @ \ {j, r}])
        /\ UNCHANGED <<gateVars, settingVars>>

\* ... once the old runner is gone; the flag is cleared after the new start.
RestartLaunches(p) ==
    /\ p \in restarts
    /\ p[2] \notin active
    /\ MessageCheck(Now, p[1])
    /\ restarts' = restarts \ {p}
    /\ UNCHANGED <<gateVars, settingVars>>

\* ... when it would not go: restartGroup throws.
RestartFails(p) ==
    /\ p \in restarts
    /\ p[2] \in active
    /\ restarts' = restarts \ {p}
    /\ UNCHANGED <<groupVars, gateVars, settingVars>>

-----------------------------------------------------------------------------
(* Mutation pauses, safety blocks, settings and shutdown                    *)

Pause(f) ==
    /\ mutationPauseCounts[f] < MaxPauses
    /\ mutationPauseCounts' = [mutationPauseCounts EXCEPT ![f] = @ + 1]
    /\ UNCHANGED <<groupVars, runtimeSafetyBlocks, terminalDiscardMutationKeys,
                   mutationPreserveStopJids, mutationStoppedFolders, restarts,
                   settingVars>>

\* Everything parked in the jids `js' is dropped.
Emptied(m, js) ==
    [Cleared(m, js) EXCEPT !.pending = @ \ js,
                           !.queued = [j \in Jids |-> IF j \in js THEN <<>> ELSE @[j]],
                           !.waiting = @ \ js]

\* Mutant: the waiting jids are left to the next runner that ends.
Reopened_Undrained(m, f) ==
    Set([m EXCEPT !.waiting = @ \cup {j \in Family(f) : HasWork(m, j)}])

\* Every jid of the folder with work waits again, and the waiting jids drain.
Reopened(m, f) ==
    DrainWaiting([m EXCEPT !.waiting = @ \cup {j \in Family(f) : HasWork(m, j)}])

\* The stop markers of the mutation go with the last token.
Unmarked(m, f) == IF f \in mutationStoppedFolders
                  THEN [m EXCEPT !.stopped = @ \ {f}] ELSE m

\* Mutant: the end of a mutation opens a workspace blocked for safety too.
GateAfterResume_Open(f) == Gated \ {f}

GateAfterResume(f) == IF f \in runtimeSafetyBlocks THEN Gated ELSE Gated \ {f}

\* resumeGroupsAfterMutation, called when the stops of the mutation have returned.
Resume(f) ==
    LET last == mutationPauseCounts[f] = 1
        m == [Unmarked(Now, f) EXCEPT !.gated = GateAfterResume(f)]
    IN  /\ mutationPauseCounts[f] > 0
        /\ last => mutationPreserveStopJids \cap Family(f) = {}
        /\ mutationPauseCounts' = [mutationPauseCounts EXCEPT ![f] = @ - 1]
        /\ mutationStoppedFolders' =
               IF last THEN mutationStoppedFolders \ {f} ELSE mutationStoppedFolders
        /\ \/ ~last /\ UNCHANGED groupVars
           \/ last /\ f \in terminalDiscardMutationKeys /\ Set(Emptied(m, Family(f)))
           \/ last /\ f \notin terminalDiscardMutationKeys /\ Reopened(m, f)
        /\ UNCHANGED <<runtimeSafetyBlocks, terminalDiscardMutationKeys,
                       mutationPreserveStopJids, restarts, settingVars>>

\* discardGroupsAfterMutation, called once the family is confirmed stopped.
Discard(f) ==
    LET last == mutationPauseCounts[f] = 1
        m == IF last THEN Unmarked(Now, f) ELSE Now
    IN  /\ mutationPauseCounts[f] > 0
        /\ active \cap Family(f) = {}
        /\ mutationPauseCounts' = [mutationPauseCounts EXCEPT ![f] = @ - 1]
        /\ terminalDiscardMutationKeys' = terminalDiscardMutationKeys \cup {f}
        /\ mutationPreserveStopJids' = mutationPreserveStopJids \ Family(f)
        /\ mutationStoppedFolders' =
               IF last THEN mutationStoppedFolders \ {f} ELSE mutationStoppedFolders
        /\ Set(Emptied(m, Family(f)))
        /\ UNCHANGED <<runtimeSafetyBlocks, restarts, settingVars>>

BlockForSafety(f) ==
    /\ f \notin runtimeSafetyBlocks
    /\ runtimeSafetyBlocks' = runtimeSafetyBlocks \cup {f}
    /\ UNCHANGED <<groupVars, mutationPauseCounts, terminalDiscardMutationKeys,
                   mutationPreserveStopJids, mutationStoppedFolders, restarts,
                   settingVars>>

UnblockForSafety(f) ==
    /\ f \in runtimeSafetyBlocks
    /\ runtimeSafetyBlocks' = runtimeSafetyBlocks \ {f}
    /\ Reopened([Now EXCEPT !.gated = {g \in Gated :
                    g # f \/ mutationPauseCounts[g] > 0}], f)
    /\ UNCHANGED <<mutationPauseCounts, terminalDiscardMutationKeys,
                   mutationPreserveStopJids, mutationStoppedFolders, restarts,
                   settingVars>>

\* The setting is read at each admission; no drain follows a change.
ChangeLimit(n) ==
    /\ n # maxConcurrentContainers
    /\ maxConcurrentContainers' = n
    /\ Set([Now EXCEPT !.owes = @ \/ n > maxConcurrentContainers])
    /\ UNCHANGED <<gateVars, restarts, cancelled, shuttingDown>>

CancelTask(t) ==
    /\ t \in Scheduled \ cancelled
    /\ cancelled' = cancelled \cup {t}
    /\ UNCHANGED <<groupVars, gateVars, restarts, maxConcurrentContainers, shuttingDown>>

\* The synchronous prefix of shutdown.
Shutdown ==
    /\ ~shuttingDown
    /\ shuttingDown' = TRUE
    /\ Set([Cleared(Now, Jids) EXCEPT !.queued = [j \in Jids |-> <<>>],
                                      !.waiting = {}])
    /\ UNCHANGED <<gateVars, restarts, maxConcurrentContainers, cancelled>>

-----------------------------------------------------------------------------
Arrival(j) ==
    \/ EnqueueMessage(j)
    \/ SendMessage(j)
    \/ \E t \in Tasks : EnqueueTask(j, t)

RunnerEnds(j) == Succeed(j) \/ Fail(j) \/ GaveUp(j) \/ Throw(j)

RunnerReports(j) ==
    \/ RegisterProcess(j)
    \/ \E c \in Jids : Acknowledge(j, c)

Stops(j) == StopGroup(j) \/ StopWindowPasses(Folder[j])

Restarts(j) ==
    \/ RestartGroup(j)
    \/ RequestGracefulRestart(j)
    \/ \E i \in Jids : RestartLaunches(<<j, i>>) \/ RestartFails(<<j, i>>)

Mutations(j) ==
    \/ StopForMutation(j)
    \/ StopForMutationReturns(j)
    \/ Pause(Folder[j]) \/ Resume(Folder[j]) \/ Discard(Folder[j])

Blocks(j) == BlockForSafety(Folder[j]) \/ UnblockForSafety(Folder[j])

Settings ==
    \/ \E n \in 1..MaxLimit : ChangeLimit(n)
    \/ \E t \in Tasks : CancelTask(t)

Next ==
    \/ \E j \in Jids : \/ Arrival(j) \/ RunnerEnds(j) \/ RunnerReports(j)
                       \/ RetryFires(j) \/ Stops(j) \/ Restarts(j)
                       \/ Mutations(j) \/ Blocks(j)
    \/ Settings
    \/ Shutdown

Spec == Init /\ [][Next]_vars
-----------------------------------------------------------------------------
(* Properties                                                               *)

\* Each field has its type; a known process, an attempt being given up and a job
\* belong to a runner.
QueueTypeOK ==
    /\ active \subseteq Jids
    /\ registered \subseteq active
    /\ givingUp \subseteq active
    /\ job \in [Jids -> Tasks \cup {None, Messages}]
    /\ \A j \in Jids : job[j] # None <=> j \in active
    /\ pendingMessages \subseteq Jids
    /\ pendingTasks \in [Jids -> Seq(Tasks)]
    /\ retryTimer \in [Jids -> Tasks \cup {None, Messages}]
    /\ retryCount \in [Jids -> 0..MaxRetries]
    /\ stopRequested \subseteq Jids
    /\ hasIpcInjectedMessages \subseteq Jids
    /\ pendingIpcDeliveries \in [Jids -> SUBSET Jids]
    /\ waitingGroups \subseteq Jids
    /\ activeContainerCount \in Nat
    /\ recentlyStoppedFolders \subseteq Folders
    /\ owesWake \in BOOLEAN
    /\ halted \subseteq Jids
    /\ mutationPauseCounts \in [Folders -> 0..MaxPauses]
    /\ runtimeSafetyBlocks \subseteq Folders
    /\ terminalDiscardMutationKeys \subseteq Folders
    /\ mutationPreserveStopJids \subseteq Jids
    /\ mutationStoppedFolders \subseteq Folders
    /\ restarts \subseteq Jids \X Jids
    /\ maxConcurrentContainers \in 1..MaxLimit
    /\ cancelled \subseteq Scheduled
    /\ shuttingDown \in BOOLEAN

\* Two jids of one serialization key never run at once, whatever mix of direct
\* starts, drains, retries and restarts started them (the race the guards of
\* drainWaiting and runForGroup are about).
OneRunnerPerKey == \A i, j \in active : Key(i) = Key(j) => i = j

\* activeContainerCount is the number of runners in containers: no path of the two
\* `finally' blocks forgets a slot or gives one back twice.
SlotsAreCounted == activeContainerCount = Cardinality(active \cap Boxed)

\* A retry timer never stays armed beside a runner of its jid, which it would
\* otherwise drain and start a second time when it fires.
TimerHasNoRunner == \A j \in Jids : retryTimer[j] # None => j \notin active

\* A waiting jid that could start now is waiting only because some runner ended, or
\* some setting changed, without a drainWaiting: every other step that frees a key,
\* a slot or a gate hands it on.
NoLostWakeup ==
    ~owesWake /\ ~shuttingDown => \A j \in waitingGroups :
        Closed(Now, j) \/ Busy(active, j) \/ ~Room(Now, 0, j)

Started(j) == /\ j \in active'
              /\ j \notin active \/ (j \in registered /\ j \notin registered')

\* No runner starts in a folder behind a mutation pause or a safety block, nor in a
\* workspace that was deleted.
GatesHold ==
    [][\A j \in Jids : Started(j) =>
           Folder[j] \notin Gated' \cup terminalDiscardMutationKeys']_vars

\* The steps that start containers leave no more of them than the setting in force.
StartsWithinLimit ==
    [][activeContainerCount' > activeContainerCount =>
           activeContainerCount' <= maxConcurrentContainers']_vars

\* A runner that ends with inputs it has not acknowledged leaves each of them as
\* work of its jid.
UnacknowledgedIsReplayed ==
    [][\A r \in active : \A c \in pendingIpcDeliveries[r] :
           /\ r \notin active' \/ (r \in registered /\ r \notin registered')
           /\ ~shuttingDown /\ Folder[c] \notin terminalDiscardMutationKeys
           => c \in pendingMessages' \cup active' \/ pendingTasks'[c] # <<>>]_vars

\* A stop is final: with no retry, restart or mutation to bring it back, a stopped
\* jid starts again only for input that arrived after the stop; the end of its
\* own runner, an injected input or a drain for others does not revive it.
StoppedStaysStopped == [][\A j \in halted \cap halted' : ~Started(j)]_vars

\* Tasks are not found again in the database: a task in the queue of an idle jid
\* is one that the next drainWaiting visits.
QueuedTasksWait ==
    \A j \in Jids \ active :
        pendingTasks[j] # <<>> => j \in waitingGroups \/ IsRestarting(j)

\* Work parked for a jid is started, or dropped by a stop or a deletion.
ParkedWorkStarts ==
    \A j \in Jids : HasWork(Now, j) ~> j \in active \/ ~HasWork(Now, j) \/ shuttingDown

\* The end of a mutation leaves no accepted work behind: each jid of the workspace
\* that has some runs, waits for a runner, or has a retry timer that will start it.
MutationDropsNothing ==
    [][\A f \in Folders :
           /\ mutationPauseCounts[f] = 1 /\ mutationPauseCounts'[f] = 0
           /\ f \notin Gated' \cup terminalDiscardMutationKeys'
           => \A j \in Family(f) \ (active' \cup waitingGroups') :
                  j \in pendingMessages' \/ pendingTasks'[j] # <<>> =>
                      retryTimer'[j] # None /\ j \notin stopRequested']_vars

\* Runners and calls in progress end, timers fire.
QueueFairness ==
    \A j \in Jids :
        /\ WF_vars(RunnerEnds(j))
        /\ WF_vars(RetryFires(j))
        /\ WF_vars(StopForMutationReturns(j))
        /\ WF_vars(StopWindowPasses(Folder[j]))
        /\ WF_vars(Resume(Folder[j]) \/ Discard(Folder[j]))
        /\ \A i \in Jids : WF_vars(RestartLaunches(<<j, i>>) \/ RestartFails(<<j, i>>))
=============================================================================
