------------------------- MODULE MCGroupQueueProofs -------------------------
(***************************************************************************)
(* Theorems about the tasks queued in GroupQueue: as long as nobody is       *)
(* stopped or restarted, each task in the queue of an idle jid is one that   *)
(* a drainWaiting will visit.                                                *)
(*                                                                         *)
(* As in GroupQueueProofs, what is kept is stated of the records that the    *)
(* handlers edit: Tidy of the record of the current state, with the          *)
(* invariant of that module, is inductive.                                   *)
(***************************************************************************)
EXTENDS MCGroupQueue, GroupQueueProofs

\* A jid of `m' without a runner, `X' excepted, that has tasks is waiting.
Listed(m, X) == \A j \in Jids \ (m.active \cup X) :
                    m.queued[j] # <<>> => j \in m.waiting

\* shutdown has emptied the queues and nothing fills them again.
Shut(m) == shuttingDown => \A j \in Jids : m.queued[j] = <<>>

Unstopped(m) == m.stop = {} /\ m.stopped = {}

Queues(m) == m.queued \in [Jids -> Seq(Tasks)] /\ m.waiting \subseteq Jids

Tidy(m) == Listed(m, {}) /\ Shut(m) /\ Unstopped(m)

-----------------------------------------------------------------------------
(* The operators of the queue                                               *)

LEMMA NothingLeft ==
    /\ Rest(<<>>) = <<>> /\ ~HasTask(<<>>)
    /\ \A q : ~HasTask(q) => Rest(q) = <<>>
  BY DEF Rest, HasTask

LEMMA SettleTidy ==
    ASSUME NEW m, NEW msgs \in SUBSET Jids, NEW tsks \in SUBSET Jids,
           NEW seen \in SUBSET Jids, Settle(m, msgs, tsks, seen),
           Listed(m, msgs \cup tsks \cup seen), Shut(m), Unstopped(m),
           \A j \in seen : HasTask(m.queued[j]) => j \in msgs \cup tsks
    PROVE  Tidy(After)
<1>1. /\ active' = m.active \cup (msgs \cup tsks)
      /\ pendingTasks' = [j \in Jids |-> IF j \in tsks \cup seen
                                         THEN Rest(m.queued[j]) ELSE m.queued[j]]
      /\ stopRequested' = m.stop \ (msgs \cup tsks)
      /\ waitingGroups' = m.waiting \ ((msgs \cup tsks) \cup seen)
      /\ recentlyStoppedFolders' = m.stopped \ {Key(j) : j \in msgs \cap m.stop}
  BY DEF Settle
<1>2. ASSUME NEW j \in Jids \ active', pendingTasks'[j] # <<>>
      PROVE  j \in waitingGroups'
  <2>1. j \notin m.active /\ j \notin msgs \cup tsks
    BY <1>1
  <2>2. j \notin seen
    <3>1. j \in seen => pendingTasks'[j] = Rest(m.queued[j]) /\ ~HasTask(m.queued[j])
      BY <1>1, <2>1
    <3> QED BY <1>2, <3>1, NothingLeft
  <2>3. m.queued[j] # <<>>
    BY <1>1, <1>2, <2>1, <2>2
  <2> QED BY <1>1, <2>1, <2>2, <2>3 DEF Listed
<1>3. ASSUME shuttingDown, NEW j \in Jids
      PROVE  pendingTasks'[j] = <<>>
  <2>1. m.queued[j] = <<>>
    BY <1>3 DEF Shut
  <2> QED BY <1>1, <2>1, NothingLeft
<1>4. stopRequested' = {} /\ recentlyStoppedFolders' = {}
  BY <1>1 DEF Unstopped
<1> QED BY <1>2, <1>3, <1>4, AfterIsState DEF Tidy, Listed, Shut, Unstopped

LEMMA SetTidy ==
    ASSUME NEW m, Set(m), Tidy(m)
    PROVE  Tidy(After)
<1>1. {} \in SUBSET Jids /\ {} \cup {} \cup {} = {} /\ Settle(m, {}, {}, {})
  BY DEF Set
<1> QED BY <1>1, SettleTidy DEF Tidy

LEMMA OneStartsTidy ==
    ASSUME NEW m, NEW j \in Jids, Listed(m, {j}), Shut(m), Unstopped(m),
           \/ Settle(m, {}, {j}, {})
           \/ Settle(m, {j}, {}, {})
           \/ Settle(m, {j}, {}, {j})
    PROVE  Tidy(After)
<1>1. /\ {} \in SUBSET Jids /\ {j} \in SUBSET Jids
      /\ {} \cup {j} \cup {} = {j} /\ {j} \cup {} \cup {} = {j}
      /\ {j} \cup {} \cup {j} = {j} /\ j \in {j} \cup {}
  OBVIOUS
<1>2. CASE Settle(m, {}, {j}, {})
  BY <1>1, <1>2, SettleTidy
<1>3. CASE Settle(m, {j}, {}, {})
  BY <1>1, <1>3, SettleTidy
<1>4. CASE Settle(m, {j}, {}, {j})
  BY <1>1, <1>4, SettleTidy
<1> QED BY <1>2, <1>3, <1>4

\* The queues of `n' are those of `m', and no one stops to wait.
LEMMA SameQueues ==
    ASSUME NEW m, NEW n, NEW X, Listed(m, X), Shut(m), Unstopped(m),
           n.active = m.active, n.queued = m.queued, m.waiting \subseteq n.waiting,
           n.stop = m.stop, n.stopped = m.stopped
    PROVE  Listed(n, X) /\ Shut(n) /\ Unstopped(n)
  BY DEF Listed, Shut, Unstopped

LEMMA DrainWaitingTidy ==
    ASSUME NEW m, IsState(m), m.waiting \subseteq Jids, Tidy(m), DrainWaiting(m)
    PROVE  Tidy(After)
<1> DEFINE n == [m EXCEPT !.owes = FALSE]
<1>1. /\ n.active = m.active /\ n.queued = m.queued /\ n.waiting = m.waiting
      /\ n.stop = m.stop /\ n.stopped = m.stopped
  BY DEF IsState, Fields
<1>2. PICK chosen \in SUBSET m.waiting, seen \in SUBSET m.waiting :
        /\ \A j \in seen : ~Runnable(m, j)
        /\ Settle(n, {j \in chosen : ~HasTask(m.queued[j])},
                     {j \in chosen : HasTask(m.queued[j])}, chosen \cup seen)
  BY DEF DrainWaiting
<1> DEFINE msgs == {j \in chosen : ~HasTask(m.queued[j])}
           tsks == {j \in chosen : HasTask(m.queued[j])}
<1> HIDE DEF n
<1>3. Listed(n, msgs \cup tsks \cup (chosen \cup seen)) /\ Shut(n) /\ Unstopped(n)
  <2>1. Listed(n, {}) /\ Shut(n) /\ Unstopped(n)
    BY <1>1, SameQueues DEF Tidy
  <2> QED BY <2>1 DEF Listed
<1>4. \A j \in chosen \cup seen : HasTask(n.queued[j]) => j \in msgs \cup tsks
  BY <1>1, <1>2 DEF Runnable
<1>5. /\ msgs \in SUBSET Jids /\ tsks \in SUBSET Jids /\ chosen \cup seen \in SUBSET Jids
  OBVIOUS
<1>6. Settle(n, msgs, tsks, chosen \cup seen)
  BY <1>2
<1> HIDE DEF msgs, tsks
<1> QED BY <1>3, <1>4, <1>5, <1>6, SettleTidy

LEMMA MessageCheckTidy ==
    ASSUME NEW m, IsState(m), Tidy(m), NEW j \in Jids, MessageCheck(m, j),
           Folder[j] \in terminalDiscardMutationKeys => m.queued[j] = <<>>
    PROVE  Tidy(After)
<1> DEFINE less == [m EXCEPT !.pending = @ \ {j}, !.waiting = @ \ {j}]
           more == [m EXCEPT !.pending = @ \cup {j}, !.waiting = @ \cup {j}]
<1>1. CASE Set(m)
  BY <1>1, SetTidy
<1>2. CASE Folder[j] \in terminalDiscardMutationKeys /\ Set(less)
  <2>1. /\ less.active = m.active /\ less.queued = m.queued /\ less.waiting = m.waiting \ {j}
        /\ less.stop = m.stop /\ less.stopped = m.stopped
    BY DEF IsState, Fields
  <2>2. m.queued[j] = <<>>
    BY <1>2
  <2> HIDE DEF less
  <2>3. Tidy(less)
    BY <2>1, <2>2 DEF Tidy, Listed, Shut, Unstopped
  <2> QED BY <1>2, <2>3, SetTidy
<1>3. CASE Set(more)
  <2>1. /\ more.active = m.active /\ more.queued = m.queued /\ more.waiting = m.waiting \cup {j}
        /\ more.stop = m.stop /\ more.stopped = m.stopped
    BY DEF IsState, Fields
  <2> HIDE DEF more
  <2>2. Tidy(more)
    BY <2>1, SameQueues DEF Tidy
  <2> QED BY <1>3, <2>2, SetTidy
<1>4. CASE Settle(m, {j}, {}, {})
  <2>1. Listed(m, {j}) /\ Shut(m) /\ Unstopped(m)
    BY DEF Tidy, Listed
  <2> QED BY <1>4, <2>1, OneStartsTidy
<1> QED BY <1>1, <1>2, <1>3, <1>4 DEF MessageCheck

LEMMA TaskCheckTidy ==
    ASSUME NEW m, IsState(m), m.queued \in [Jids -> Seq(Tasks)], Tidy(m),
           NEW j \in Jids, NEW t \in Tasks, TaskCheck(m, j, t)
    PROVE  Tidy(After)
<1> DEFINE late == [m EXCEPT !.queued[j] = Append(@, t), !.waiting = @ \cup {j}]
           first == [m EXCEPT !.queued[j] = <<t>> \o @]
<1>1. CASE Set(m)
  BY <1>1, SetTidy
<1>2. CASE ~shuttingDown /\ Set(late)
  <2>1. /\ late.active = m.active /\ late.waiting = m.waiting \cup {j}
        /\ late.queued = [m.queued EXCEPT ![j] = Append(@, t)]
        /\ late.stop = m.stop /\ late.stopped = m.stopped
    BY DEF IsState, Fields
  <2> HIDE DEF late
  <2>2. \A i \in Jids : i # j => late.queued[i] = m.queued[i]
    BY <2>1
  <2>3. Tidy(late)
    BY <1>2, <2>1, <2>2 DEF Tidy, Listed, Shut, Unstopped
  <2> QED BY <1>2, <2>3, SetTidy
<1>3. CASE ~shuttingDown /\ Settle(first, {}, {j}, {})
  <2>1. /\ first.active = m.active /\ first.waiting = m.waiting
        /\ first.queued = [m.queued EXCEPT ![j] = <<t>> \o @]
        /\ first.stop = m.stop /\ first.stopped = m.stopped
    BY DEF IsState, Fields
  <2> HIDE DEF first
  <2>2. \A i \in Jids : i # j => first.queued[i] = m.queued[i]
    BY <2>1
  <2>3. Listed(first, {j}) /\ Shut(first) /\ Unstopped(first)
    BY <1>3, <2>1, <2>2 DEF Tidy, Listed, Shut, Unstopped
  <2> QED BY <1>3, <2>3, OneStartsTidy
<1> QED BY <1>1, <1>2, <1>3 DEF TaskCheck

LEMMA CollectTidy ==
    ASSUME NEW m, IsState(m), NEW j, Tidy(m)
    PROVE  /\ IsState(Collect(m, j)) /\ Collect(m, j).waiting = m.waiting
           /\ Tidy(Collect(m, j))
<1> DEFINE n == Collect(m, j)
<1>1. CASE n = m
  BY <1>1
<1>2. CASE n = [m EXCEPT !.tries[j] = 0, !.stop = @ \ {j}, !.injected = @ \ {j},
                         !.owed[j] = {}]
  <2>1. /\ IsState(n) /\ n.active = m.active /\ n.queued = m.queued
        /\ n.waiting = m.waiting /\ n.stop = m.stop \ {j} /\ n.stopped = m.stopped
    BY <1>2 DEF IsState, Fields
  <2> HIDE DEF n
  <2>2. Tidy(n)
    BY <2>1 DEF Tidy, Listed, Shut, Unstopped
  <2> QED BY <2>1, <2>2 DEF n
<1> QED BY <1>1, <1>2 DEF Collect

\* drainGroup of a jid whose runner has just gone.
LEMMA DrainGroupTidy ==
    ASSUME NEW m, IsState(m), Queues(m), NEW j \in Jids,
           Listed(m, {j}), Shut(m), Unstopped(m), DrainGroup(m, j)
    PROVE  Tidy(After)
<1>1. CASE shuttingDown /\ Set(m)
  <2>1. Tidy(m)
    BY <1>1 DEF Tidy, Listed, Shut
  <2> QED BY <1>1, <2>1, SetTidy
<1>2. CASE Set([m EXCEPT !.owes = TRUE,
                         !.waiting = IF HasWork(m, j) THEN @ \cup {j} ELSE @])
  <2> DEFINE n == [m EXCEPT !.owes = TRUE,
                            !.waiting = IF HasWork(m, j) THEN @ \cup {j} ELSE @]
  <2>1. /\ n.active = m.active /\ n.queued = m.queued
        /\ n.waiting = IF HasWork(m, j) THEN m.waiting \cup {j} ELSE m.waiting
        /\ n.stop = m.stop /\ n.stopped = m.stopped
    BY DEF IsState, Fields
  <2>2. Set(n)
    BY <1>2
  <2> HIDE DEF n
  <2>3. m.queued[j] # <<>> => j \in n.waiting
    BY <2>1 DEF HasWork
  <2>4. Tidy(n)
    BY <2>1, <2>3 DEF Tidy, Listed, Shut, Unstopped
  <2> QED BY <2>2, <2>4, SetTidy
<1>3. CASE Set([m EXCEPT !.waiting = @ \cup {j}])
  <2> DEFINE n == [m EXCEPT !.waiting = @ \cup {j}]
  <2>1. /\ n.active = m.active /\ n.queued = m.queued /\ n.waiting = m.waiting \cup {j}
        /\ n.stop = m.stop /\ n.stopped = m.stopped
    BY DEF IsState, Fields
  <2>2. Set(n)
    BY <1>3
  <2> HIDE DEF n
  <2>3. Tidy(n)
    BY <2>1 DEF Tidy, Listed, Shut, Unstopped
  <2> QED BY <2>2, <2>3, SetTidy
<1>4. CASE Settle(m, {}, {j}, {}) \/ Settle(m, {j}, {}, {j})
  BY <1>4, OneStartsTidy
<1>5. CASE DrainWaiting(Collect([m EXCEPT !.waiting = @ \ {j}, !.queued[j] = <<>>], j))
  <2> DEFINE n == [m EXCEPT !.waiting = @ \ {j}, !.queued[j] = <<>>]
  <2>1. /\ IsState(n) /\ n.active = m.active /\ n.queued = [m.queued EXCEPT ![j] = <<>>]
        /\ n.waiting = m.waiting \ {j} /\ n.stop = m.stop /\ n.stopped = m.stopped
    BY DEF IsState, Fields
  <2>2. DrainWaiting(Collect(n, j))
    BY <1>5
  <2> HIDE DEF n
  <2>3. \A i \in Jids : n.queued[i] = IF i = j THEN <<>> ELSE m.queued[i]
    BY <2>1 DEF Queues
  <2>4. Tidy(n)
    BY <2>1, <2>3 DEF Tidy, Listed, Shut, Unstopped
  <2>5. /\ IsState(Collect(n, j)) /\ Collect(n, j).waiting = n.waiting
        /\ Tidy(Collect(n, j))
    BY <2>1, <2>4, CollectTidy
  <2>6. Collect(n, j).waiting \subseteq Jids
    BY <2>1, <2>5 DEF Queues
  <2> QED BY <2>2, <2>5, <2>6, DrainWaitingTidy
<1> QED BY <1>1, <1>2, <1>3, <1>4, <1>5 DEF DrainGroup

LEMMA RecoverTidy ==
    ASSUME NEW m, IsState(m), Queues(m), m.owed \in [Jids -> SUBSET Jids],
           NEW j \in Jids, Tidy(m)
    PROVE  IsState(Recover(m, j)) /\ Queues(Recover(m, j)) /\ Tidy(Recover(m, j))
<1> DEFINE back == {c \in m.owed[j] :
                       ~shuttingDown /\ Folder[c] \notin terminalDiscardMutationKeys}
           fresh == {c \in back \cap Lanes : ~InQueue(Recovery, m.queued[c])}
           queues == [c \in Jids |-> IF c \in fresh THEN Append(m.queued[c], Recovery)
                                     ELSE m.queued[c]]
           n == [m EXCEPT !.owed[j] = {}, !.pending = @ \cup (back \cap Chats),
                          !.queued = queues, !.waiting = @ \cup (back \cap Chats) \cup fresh]
<1>1. CASE Recover(m, j) = m
  BY <1>1
<1>2. CASE Recover(m, j) = n
  <2>1. /\ \A c \in Jids : c \notin fresh => queues[c] = m.queued[c]
        /\ shuttingDown => fresh = {}
        /\ back \subseteq Jids /\ fresh \subseteq back
    OBVIOUS
  <2>q. queues \in [Jids -> Seq(Tasks)]
    <3>1. \A c \in Jids : m.queued[c] \in Seq(Tasks)
                          /\ Append(m.queued[c], Recovery) \in Seq(Tasks)
      BY Names DEF Queues
    <3> HIDE DEF fresh
    <3> QED BY <3>1
  <2> HIDE DEF back, fresh, queues
  <2>2. /\ IsState(n) /\ n.active = m.active /\ n.queued = queues /\ n.stop = m.stop
        /\ n.stopped = m.stopped /\ n.waiting = m.waiting \cup (back \cap Chats) \cup fresh
    BY DEF IsState, Fields
  <2> HIDE DEF n
  <2>3. Tidy(n)
    BY <2>1, <2>2 DEF Tidy, Listed, Shut, Unstopped
  <2>4. Queues(n)
    BY <2>1, <2>q, <2>2 DEF Queues
  <2> QED BY <1>2, <2>2, <2>3, <2>4
<1> QED BY <1>1, <1>2 DEF Recover

\* The `finally' blocks: with no stop and no restart about, each drains.
LEMMA LeaveRunnerTidy ==
    ASSUME NEW m, IsState(m), Queues(m), m.owed \in [Jids -> SUBSET Jids], Tidy(m),
           NEW j \in Jids, restarts = {}, LeaveRunner(m, j)
    PROVE  Tidy(After)
<1> DEFINE r == Recover(m, j)
<1>r. IsState(r) /\ Queues(r) /\ Tidy(r)
  BY RecoverTidy
<1>s. m.stop = {} /\ m.stopped = {} /\ ~IsRestarting(j)
  BY DEF Tidy, Unstopped, IsRestarting
<1> HIDE DEF r
<1>1. ASSUME NEW q, IsState(q), Queues(q), Tidy(q), DrainGroup(Leave(q, j), j)
      PROVE  Tidy(After)
  <2> DEFINE n == Leave(q, j)
  <2>1. /\ IsState(n) /\ n.active = q.active \ {j} /\ n.queued = q.queued
        /\ n.waiting = q.waiting /\ n.stop = q.stop /\ n.stopped = q.stopped
    BY <1>1 DEF Leave, IsState, Fields
  <2>2. DrainGroup(n, j)
    BY <1>1
  <2> HIDE DEF n
  <2>3. Queues(n)
    BY <1>1, <2>1 DEF Queues
  <2>4. Listed(n, {j}) /\ Shut(n) /\ Unstopped(n)
    BY <1>1, <2>1 DEF Tidy, Listed, Shut, Unstopped
  <2> QED BY <2>1, <2>2, <2>3, <2>4, DrainGroupTidy
<1>2. CASE LeaveTask(m, j)
  <2>1. DrainGroup(Leave(r, j), j)
    BY <1>2, <1>s DEF LeaveTask, r
  <2> QED BY <1>1, <1>r, <2>1
<1>3. CASE LeaveMessages(m, j)
  <2> DEFINE q == [r EXCEPT !.injected = @ \ {j},
                            !.pending = IF j \in r.injected THEN @ \cup {j} ELSE @]
  <2>1. DrainGroup(Leave(q, j), j)
    BY <1>3, <1>s DEF LeaveMessages, r
  <2>2. /\ IsState(q) /\ q.active = r.active /\ q.queued = r.queued
        /\ q.waiting = r.waiting
        /\ q.stop = r.stop /\ q.stopped = r.stopped
    BY <1>r DEF IsState, Fields
  <2> HIDE DEF q
  <2>3. Queues(q)
    BY <1>r, <2>2 DEF Queues
  <2>4. Tidy(q)
    BY <1>r, <2>2, SameQueues DEF Tidy
  <2> QED BY <1>1, <2>1, <2>2, <2>3, <2>4
<1> QED BY <1>2, <1>3 DEF LeaveRunner

-----------------------------------------------------------------------------
(* The invariant, step by step                                              *)

TaskIInv == Tidy(Now) /\ restarts = {}

\* A handler's record with the queues and marks of the state.
SameAsNow(m) ==
    /\ IsState(m) /\ m.active = active /\ m.queued = pendingTasks
    /\ m.waiting = waitingGroups /\ m.stop = stopRequested
    /\ m.stopped = recentlyStoppedFolders

LEMMA SameIsTidy ==
    ASSUME QueueIInv, TaskIInv, NEW m, SameAsNow(m)
    PROVE  Tidy(m) /\ Queues(m)
<1>1. /\ m.active = Now.active /\ m.queued = Now.queued /\ Now.waiting \subseteq m.waiting
      /\ m.stop = Now.stop /\ m.stopped = Now.stopped
  BY NowIsState DEF SameAsNow
<1>2. Listed(Now, {}) /\ Shut(Now) /\ Unstopped(Now)
  BY DEF TaskIInv, Tidy
<1>3. Queues(m)
  BY InvFacts, NowIsState DEF Queues, SameAsNow, Parking
<1> QED BY <1>1, <1>2, <1>3, SameQueues DEF Tidy

LEMMA StateIsTidy ==
    ASSUME Tidy(After), shuttingDown' = shuttingDown, restarts' = {}
    PROVE  TaskIInv'
<1>1. Now' = After
  BY DEF Now, After
<1> QED BY <1>1 DEF TaskIInv, Tidy, Listed, Shut, Unstopped

\* A handler that ends in one of the operators of the queue.
LEMMA HandlerIsTidy ==
    ASSUME QueueIInv, TaskIInv, UNCHANGED <<gateVars, restarts, settingVars>>,
           NEW m, SameAsNow(m),
           \/ Set(m)
           \/ \E j \in Jids : MessageCheck(m, j)
           \/ \E j \in Jids, t \in Tasks : TaskCheck(m, j, t)
           \/ \E j \in Jids : m.owed = pendingIpcDeliveries /\ LeaveRunner(m, j)
    PROVE  TaskIInv'
<1>1. /\ Tidy(m) /\ Queues(m) /\ IsState(m) /\ restarts = {} /\ restarts' = {}
      /\ shuttingDown' = shuttingDown
  BY SameIsTidy DEF TaskIInv, SameAsNow, settingVars
<1>2. ASSUME Set(m) PROVE Tidy(After)
  BY <1>1, <1>2, SetTidy
<1>3. ASSUME NEW j \in Jids, MessageCheck(m, j) PROVE Tidy(After)
  <2>1. Folder[j] \in terminalDiscardMutationKeys => m.queued[j] = <<>>
    BY InvFacts, NowIsState DEF Deleted, SameAsNow
  <2> QED BY <1>1, <1>3, <2>1, MessageCheckTidy
<1>4. ASSUME NEW j \in Jids, NEW t \in Tasks, TaskCheck(m, j, t) PROVE Tidy(After)
  BY <1>1, <1>4, TaskCheckTidy DEF Queues
<1>5. ASSUME NEW j \in Jids, m.owed = pendingIpcDeliveries, LeaveRunner(m, j)
      PROVE  Tidy(After)
  <2>1. m.owed \in [Jids -> SUBSET Jids]
    BY <1>5, InvFacts, NowIsState DEF Owed
  <2> QED BY <1>1, <1>5, <2>1, LeaveRunnerTidy
<1>6. Tidy(After)
  BY <1>2, <1>3, <1>4, <1>5
<1> QED BY <1>1, <1>6, StateIsTidy

\* enqueueMessageCheck, enqueueTask, sendMessage and what a runner reports.
LEMMA ArrivesTidy ==
    ASSUME QueueIInv, TaskIInv, NEW j \in Jids,
           Arrival(j) \/ RunnerReports(j) \/ RequestGracefulRestart(j)
    PROVE  TaskIInv'
<1>1. ASSUME EnqueueMessage(j) PROVE TaskIInv'
  <2>1. SameAsNow([Now EXCEPT !.halted = @ \ {j}])
    BY NowIsState DEF SameAsNow, IsState, Fields
  <2> QED BY <1>1, <2>1, HandlerIsTidy DEF EnqueueMessage
<1>2. ASSUME NEW t \in Tasks, EnqueueTask(j, t) PROVE TaskIInv'
  <2>1. SameAsNow([Now EXCEPT !.halted = @ \ {j}])
    BY NowIsState DEF SameAsNow, IsState, Fields
  <2> QED BY <1>2, <2>1, HandlerIsTidy DEF EnqueueTask
<1>3. ASSUME SendMessage(j) PROVE TaskIInv'
  <2> DEFINE r == Runner(j)
             n == [Now EXCEPT !.injected = @ \cup {r}, !.owed[r] = @ \cup {j},
                              !.halted = @ \ {j, r}]
  <2>1. Set(n) /\ UNCHANGED <<gateVars, restarts, settingVars>>
    BY <1>3 DEF SendMessage
  <2>2. SameAsNow(n)
    BY NowIsState DEF SameAsNow, IsState, Fields
  <2> QED BY <2>1, <2>2, HandlerIsTidy
<1>4. ASSUME NEW c \in Jids, Acknowledge(j, c) PROVE TaskIInv'
  <2>1. SameAsNow([Now EXCEPT !.owed[j] = @ \ {c}])
    BY NowIsState DEF SameAsNow, IsState, Fields
  <2> QED BY <1>4, <2>1, HandlerIsTidy DEF Acknowledge
<1>5. ASSUME RegisterProcess(j) PROVE TaskIInv'
  <2>1. SameAsNow([Now EXCEPT !.registered = @ \cup {j}])
    BY NowIsState DEF SameAsNow, IsState, Fields
  <2> QED BY <1>5, <2>1, HandlerIsTidy DEF RegisterProcess
<1>6. ASSUME RequestGracefulRestart(j) PROVE TaskIInv'
  <2>1. SameAsNow([Now EXCEPT !.pending = @ \cup {j}, !.halted = @ \ {j}])
    BY NowIsState DEF SameAsNow, IsState, Fields
  <2> QED BY <1>6, <2>1, HandlerIsTidy DEF RequestGracefulRestart
<1> QED BY <1>1, <1>2, <1>3, <1>4, <1>5, <1>6 DEF Arrival, RunnerReports

LEMMA ClearedIsSame ==
    ASSUME NEW js
    PROVE  SameAsNow(Cleared(Now, js)) /\ Cleared(Now, js).owed = pendingIpcDeliveries
  BY NowIsState DEF SameAsNow, Cleared, IsState, Fields

\* The ends of a runner and the retry timer.
LEMMA EndsTidy ==
    ASSUME QueueIInv, TaskIInv, NEW j \in Jids, RunnerEnds(j) \/ RetryFires(j)
    PROVE  TaskIInv'
<1>1. UNCHANGED <<gateVars, restarts, settingVars>>
  BY DEF RunnerEnds, Succeed, Fail, GaveUp, Throw, RetryFires
<1>2. SameAsNow(Now) /\ Now.owed = pendingIpcDeliveries
  BY NowIsState DEF SameAsNow
<1>3. CASE LeaveRunner(Now, j) \/ LeaveRunner(Cleared(Now, {j}), j)
  BY <1>1, <1>2, <1>3, ClearedIsSame, HandlerIsTidy
<1>4. CASE LeaveRunner([Now EXCEPT !.tries[j] = @ + 1, !.retry[j] = job[j]], j)
  <2> DEFINE n == [Now EXCEPT !.tries[j] = @ + 1, !.retry[j] = job[j]]
  <2>1. SameAsNow(n) /\ n.owed = pendingIpcDeliveries
    BY NowIsState DEF SameAsNow, IsState, Fields
  <2>2. LeaveRunner(n, j)
    BY <1>4
  <2> HIDE DEF n
  <2> QED BY <1>1, <2>1, <2>2, HandlerIsTidy
<1>5. CASE Set([Cleared(Now, {j}) EXCEPT !.givingUp = @ \cup {j}])
  <2> DEFINE m == Cleared(Now, {j})
             n == [m EXCEPT !.givingUp = @ \cup {j}]
  <2>1. SameAsNow(m)
    BY ClearedIsSame
  <2>2. Set(n)
    BY <1>5
  <2> HIDE DEF m
  <2>3. SameAsNow(n)
    BY <2>1 DEF SameAsNow, IsState, Fields
  <2> QED BY <1>1, <2>2, <2>3, HandlerIsTidy
<1>6. CASE RetryFires(j)
  <2> DEFINE n == [Now EXCEPT !.retry[j] = None]
  <2>1. SameAsNow(n)
    BY NowIsState DEF SameAsNow, IsState, Fields
  <2>2. \/ Set(n)
        \/ MessageCheck(n, j)
        \/ retryTimer[j] # None /\ retryTimer[j] # Messages /\ TaskCheck(n, j, retryTimer[j])
    BY <1>6 DEF RetryFires
  <2>3. retryTimer[j] # None /\ retryTimer[j] # Messages => retryTimer[j] \in Tasks
    BY InvFacts, NowIsState DEF Parking, Jobs
  <2> HIDE DEF n
  <2> QED BY <1>1, <2>1, <2>2, <2>3, HandlerIsTidy
<1>7. RunnerEnds(j) =>
          \/ LeaveRunner(Now, j) \/ LeaveRunner(Cleared(Now, {j}), j)
          \/ LeaveRunner([Now EXCEPT !.tries[j] = @ + 1, !.retry[j] = job[j]], j)
          \/ Set([Cleared(Now, {j}) EXCEPT !.givingUp = @ \cup {j}])
  BY DEF RunnerEnds, Succeed, Fail, GaveUp, Throw
<1> QED BY <1>3, <1>4, <1>5, <1>6, <1>7

\* A step that leaves the groups alone.
LEMMA UnchangedTidy ==
    ASSUME TaskIInv, UNCHANGED groupVars, restarts' = restarts, shuttingDown' = shuttingDown
    PROVE  TaskIInv'
<1>1. /\ After.active = Now.active /\ After.queued = Now.queued
      /\ After.waiting = Now.waiting /\ After.stop = Now.stop
      /\ After.stopped = Now.stopped
  BY NowIsState, AfterIsState DEF groupVars
<1>2. Tidy(After)
  BY <1>1, SameQueues DEF TaskIInv, Tidy
<1> QED BY <1>2, StateIsTidy DEF TaskIInv

\* The record of a handler of the gates, which empties or reopens a family.
LEMMA GateTidy ==
    ASSUME QueueIInv, TaskIInv, restarts' = restarts, shuttingDown' = shuttingDown,
           NEW f, NEW m, SameAsNow(m),
           Set(m) \/ Set(Emptied(m, Family(f))) \/ Reopened(m, f)
    PROVE  TaskIInv'
<1>1. Tidy(m) /\ Queues(m) /\ IsState(m)
  BY SameIsTidy DEF SameAsNow
<1>2. CASE Set(m)
  BY <1>1, <1>2, SetTidy, StateIsTidy DEF TaskIInv
<1>3. CASE Set(Emptied(m, Family(f)))
  <2> DEFINE js == Family(f)
             n == Emptied(m, js)
  <2>1. /\ n.active = m.active /\ n.waiting = m.waiting \ js
        /\ n.queued = [j \in Jids |-> IF j \in js THEN <<>> ELSE m.queued[j]]
        /\ n.stop = m.stop /\ n.stopped = m.stopped
    <3> HIDE DEF js
    <3> QED BY <1>1 DEF Emptied, Cleared, IsState, Fields
  <2>2. Set(n)
    BY <1>3
  <2> HIDE DEF js, n
  <2>3. Tidy(n)
    BY <1>1, <2>1 DEF Tidy, Listed, Shut, Unstopped
  <2> QED BY <2>2, <2>3, SetTidy, StateIsTidy DEF TaskIInv
<1>4. CASE Reopened(m, f)
  <2> DEFINE js == {j \in Family(f) : HasWork(m, j)}
             n == [m EXCEPT !.waiting = @ \cup js]
  <2>1. DrainWaiting(n) /\ js \subseteq Jids
    BY <1>4 DEF Reopened, Family
  <2> HIDE DEF js
  <2>2. /\ IsState(n) /\ n.active = m.active /\ n.waiting = m.waiting \cup js
        /\ n.queued = m.queued /\ n.stop = m.stop /\ n.stopped = m.stopped
    BY <1>1 DEF IsState, Fields
  <2> HIDE DEF n
  <2>3. Tidy(n) /\ n.waiting \subseteq Jids
    BY <1>1, <2>1, <2>2, SameQueues DEF Tidy, Queues
  <2> QED BY <2>1, <2>2, <2>3, DrainWaitingTidy, StateIsTidy DEF TaskIInv
<1> QED BY <1>2, <1>3, <1>4

LEMMA GatesTidy ==
    ASSUME QueueIInv, TaskIInv, NEW f,
           Pause(f) \/ Resume(f) \/ Discard(f) \/ BlockForSafety(f) \/ UnblockForSafety(f)
    PROVE  TaskIInv'
<1>s. Now.stopped = {} /\ recentlyStoppedFolders = {}
  BY NowIsState DEF TaskIInv, Tidy, Unstopped
<1>1. CASE Pause(f) \/ BlockForSafety(f)
  BY <1>1, UnchangedTidy DEF Pause, BlockForSafety, settingVars
<1>2. ASSUME Resume(f) PROVE TaskIInv'
  <2> DEFINE u == Unmarked(Now, f)
             m == [u EXCEPT !.gated = GateAfterResume(f)]
  <2>1. SameAsNow(u)
    BY <1>s, NowIsState DEF Unmarked, SameAsNow, IsState, Fields
  <2>2. /\ restarts' = restarts /\ shuttingDown' = shuttingDown
        /\ UNCHANGED groupVars \/ Set(Emptied(m, Family(f))) \/ Reopened(m, f)
    BY <1>2 DEF Resume, settingVars
  <2> HIDE DEF u
  <2>3. SameAsNow(m)
    BY <2>1 DEF SameAsNow, IsState, Fields
  <2> HIDE DEF m
  <2> QED BY <2>2, <2>3, UnchangedTidy, GateTidy
<1>3. ASSUME Discard(f) PROVE TaskIInv'
  <2> DEFINE m == IF mutationPauseCounts[f] = 1 THEN Unmarked(Now, f) ELSE Now
  <2>1. SameAsNow(m)
    BY <1>s, NowIsState DEF Unmarked, SameAsNow, IsState, Fields
  <2>2. /\ restarts' = restarts /\ shuttingDown' = shuttingDown
        /\ Set(Emptied(m, Family(f)))
    BY <1>3 DEF Discard, settingVars
  <2> HIDE DEF m
  <2> QED BY <2>1, <2>2, GateTidy
<1>4. ASSUME UnblockForSafety(f) PROVE TaskIInv'
  <2> DEFINE open == {g \in Gated : g # f \/ mutationPauseCounts[g] > 0}
             m == [Now EXCEPT !.gated = open]
  <2>1. /\ restarts' = restarts /\ shuttingDown' = shuttingDown /\ Reopened(m, f)
    BY <1>4 DEF UnblockForSafety, settingVars
  <2> HIDE DEF open
  <2>2. SameAsNow(m)
    BY NowIsState DEF SameAsNow, IsState, Fields
  <2> HIDE DEF m
  <2> QED BY <2>1, <2>2, GateTidy
<1> QED BY <1>1, <1>2, <1>3, <1>4

LEMMA SettingsTidy ==
    ASSUME QueueIInv, TaskIInv, Settings \/ Shutdown
    PROVE  TaskIInv'
<1>1. ASSUME NEW n, ChangeLimit(n) PROVE TaskIInv'
  <2>1. SameAsNow([Now EXCEPT !.owes = @ \/ n > maxConcurrentContainers])
    BY NowIsState DEF SameAsNow, IsState, Fields
  <2> QED BY <1>1, <2>1, GateTidy DEF ChangeLimit
<1>2. ASSUME NEW t, CancelTask(t) PROVE TaskIInv'
  BY <1>2, UnchangedTidy DEF CancelTask
<1>3. ASSUME Shutdown PROVE TaskIInv'
  <2> DEFINE m == Cleared(Now, Jids)
             n == [m EXCEPT !.queued = [j \in Jids |-> <<>>], !.waiting = {}]
  <2>1. SameAsNow(m)
    BY ClearedIsSame
  <2>2. Set(n) /\ restarts' = restarts
    BY <1>3 DEF Shutdown
  <2> HIDE DEF m
  <2>3. /\ n.queued = [j \in Jids |-> <<>>] /\ n.stop = stopRequested
        /\ n.stopped = recentlyStoppedFolders
    BY <2>1 DEF SameAsNow, IsState, Fields
  <2> HIDE DEF n
  <2>4. \A j \in Jids : pendingTasks'[j] = <<>>
    BY <2>2, <2>3 DEF Set, Settle
  <2>5. stopRequested' = {} /\ recentlyStoppedFolders' = {}
    BY <2>2, <2>3, NowIsState DEF Set, Settle, TaskIInv, Tidy, Unstopped
  <2>6. /\ Now'.queued = pendingTasks' /\ Now'.stop = stopRequested'
        /\ Now'.stopped = recentlyStoppedFolders'
    BY DEF Now
  <2> QED BY <2>2, <2>4, <2>5, <2>6 DEF TaskIInv, Tidy, Listed, Shut, Unstopped
<1> QED BY <1>1, <1>2, <1>3 DEF Settings

-----------------------------------------------------------------------------
(* Behaviours without a stop                                                *)

\* Every step of Next but stopGroup, with or without preserveQueuedWork, and
\* restartGroup.
UnstoppedNext ==
    \/ \E j \in Jids :
           \/ Arrival(j) \/ RunnerEnds(j) \/ RunnerReports(j) \/ RetryFires(j)
           \/ StopWindowPasses(Folder[j]) \/ RequestGracefulRestart(j)
           \/ \E i \in Jids : RestartLaunches(<<j, i>>) \/ RestartFails(<<j, i>>)
           \/ StopForMutationReturns(j)
           \/ Pause(Folder[j]) \/ Resume(Folder[j]) \/ Discard(Folder[j])
           \/ Blocks(j)
    \/ Settings
    \/ Shutdown

UnstoppedSpec == Init /\ [][UnstoppedNext]_vars

LEMMA UnstoppedIsNext == UnstoppedNext => Next
  BY DEF UnstoppedNext, Next, Stops, Restarts, Mutations

LEMMA UnstoppedStep ==
    ASSUME QueueIInv, TaskIInv, UnstoppedNext
    PROVE  TaskIInv'
<1>1. ASSUME NEW j \in Jids, StopWindowPasses(Folder[j]) PROVE FALSE
  BY <1>1, NowIsState DEF StopWindowPasses, TaskIInv, Tidy, Unstopped
<1>2. ASSUME NEW p, RestartLaunches(p) \/ RestartFails(p) PROVE FALSE
  BY <1>2 DEF RestartLaunches, RestartFails, TaskIInv
<1>3. ASSUME NEW j \in Jids, StopForMutationReturns(j) PROVE TaskIInv'
  BY <1>3, UnchangedTidy DEF StopForMutationReturns, settingVars
<1>4. ASSUME NEW j \in Jids,
             Pause(Folder[j]) \/ Resume(Folder[j]) \/ Discard(Folder[j]) \/ Blocks(j)
      PROVE  TaskIInv'
  BY <1>4, GatesTidy DEF Blocks
<1> QED BY <1>1, <1>2, <1>3, <1>4, ArrivesTidy, EndsTidy, SettingsTidy DEF UnstoppedNext

LEMMA InitIsTidy == Init => TaskIInv
<1> SUFFICES ASSUME Init PROVE TaskIInv
  OBVIOUS
<1>1. /\ \A j \in Jids : pendingTasks[j] = <<>>
      /\ stopRequested = {} /\ recentlyStoppedFolders = {} /\ restarts = {}
  BY DEF Init
<1> QED BY <1>1, NowIsState DEF TaskIInv, Tidy, Listed, Shut, Unstopped

LEMMA TidyTasksWait == TaskIInv => QueuedTasksWait
  BY NowIsState DEF TaskIInv, Tidy, Listed, QueuedTasksWait

\* Whatever is enqueued, paused, resumed, deleted, blocked, retried or shut down: as
\* long as nobody calls stopGroup or restartGroup, a task in the queue of an idle
\* jid is in waitingGroups (the parking of enqueueTask, the drain in the `finally'
\* blocks, the inputs replayed to agent lanes).
THEOREM TasksWait == UnstoppedSpec => []QueuedTasksWait
<1>1. Init => QueueIInv /\ TaskIInv
  BY InitInv, InitIsTidy
<1>2. QueueIInv /\ TaskIInv /\ [UnstoppedNext]_vars => (QueueIInv /\ TaskIInv)'
  <2>1. QueueIInv /\ TaskIInv /\ UnstoppedNext => (QueueIInv /\ TaskIInv)'
    BY UnstoppedIsNext, NextStep, UnstoppedStep
  <2>2. QueueIInv /\ TaskIInv /\ UNCHANGED vars => (QueueIInv /\ TaskIInv)'
    <3>1. UNCHANGED vars => UNCHANGED groupVars /\ restarts' = restarts
                            /\ shuttingDown' = shuttingDown
      BY DEF vars, settingVars
    <3> QED BY <3>1, StutterInv, UnchangedTidy
  <2> QED BY <2>1, <2>2
<1> QED BY <1>1, <1>2, TidyTasksWait, PTL DEF UnstoppedSpec

-----------------------------------------------------------------------------
(* The scenes                                                               *)

Unspent == \A k \in {"stop", "restart", "mutation"} : spent[k] = 0

SceneIInv ==
    /\ QueueIInv
    /\ scene \in Scenes
    /\ spent \in [Kinds -> Nat]
    /\ Unspent => TaskIInv

LEMMA SpendCounts ==
    ASSUME spent \in [Kinds -> Nat], NEW k \in Kinds, Spend(k)
    PROVE  /\ spent' \in [Kinds -> Nat] /\ spent'[k] # 0
           /\ Unspent' => Unspent
<1>1. spent' = [spent EXCEPT ![k] = @ + 1]
  BY DEF Spend
<1>2. /\ spent' \in [Kinds -> Nat] /\ spent'[k] = spent[k] + 1
      /\ \A i \in Kinds : i # k => spent'[i] = spent[i]
  BY <1>1
<1>3. {"stop", "restart", "mutation"} \subseteq Kinds
  BY DEF Kinds
<1>4. spent[k] \in Nat
  OBVIOUS
<1>5. spent'[k] # 0
  BY <1>2, <1>4
<1> QED BY <1>2, <1>3, <1>5 DEF Unspent

\* Each step of a scene is one of Next, and one of UnstoppedNext that spends none
\* of the three, or it spends one of them.
LEMMA SceneStep ==
    ASSUME MCNext, scene \in Scenes, spent \in [Kinds -> Nat]
    PROVE  /\ Next /\ scene' \in Scenes /\ spent' \in [Kinds -> Nat]
           /\ Unspent' => Unspent /\ UnstoppedNext
<1>1. scene' = scene /\ scene.jids \subseteq Jids
  BY ScenesAssumption DEF MCNext
<1>2. \/ UNCHANGED spent /\ UnstoppedNext
      \/ \E k \in {"arrival", "block", "setting", "shutdown"} : Spend(k) /\ UnstoppedNext
      \/ \E k \in {"stop", "restart", "mutation"} : Spend(k) /\ Next
  BY <1>1 DEF MCNext, UnstoppedNext, Next, Blocks, Stops, Restarts, Mutations
<1>3. {"arrival", "stop", "restart", "mutation", "block", "setting", "shutdown"} \subseteq Kinds
  BY DEF Kinds
<1>4. CASE UNCHANGED spent /\ UnstoppedNext
  BY <1>1, <1>4, UnstoppedIsNext DEF Unspent
<1>5. ASSUME NEW k \in {"arrival", "block", "setting", "shutdown"}, Spend(k), UnstoppedNext
      PROVE  /\ Next /\ spent' \in [Kinds -> Nat]
             /\ Unspent' => Unspent /\ UnstoppedNext
  <2>1. k \in Kinds
    BY <1>3
  <2> QED BY <1>5, <2>1, UnstoppedIsNext, SpendCounts
<1>6. ASSUME NEW k \in {"stop", "restart", "mutation"}, Spend(k), Next
      PROVE  Next /\ spent' \in [Kinds -> Nat] /\ ~Unspent'
  <2>1. k \in Kinds
    BY <1>3
  <2> QED BY <1>6, <2>1, SpendCounts DEF Unspent
<1> QED BY <1>1, <1>2, <1>4, <1>5, <1>6

\* For every set of scenes, whatever their jids, limits and budgets: while none of
\* the stops, restarts and pauses of the scene has been spent, a task in the queue of
\* an idle jid is in waitingGroups.
THEOREM QueuedTasksWaitInScenes == MCSpec => []QueuedTasksWaitUnstopped
<1>1. MCInit => SceneIInv
  <2> SUFFICES ASSUME MCInit PROVE SceneIInv
    OBVIOUS
  <2>1. Init /\ scene \in Scenes /\ spent = Allow(<<>>)
    BY DEF MCInit
  <2>2. Allow(<<>>) \in [Kinds -> Nat]
    BY DEF Allow
  <2> QED BY <2>1, <2>2, InitInv, InitIsTidy DEF SceneIInv
<1>2. SceneIInv /\ [MCNext]_<<vars, scene, spent>> => SceneIInv'
  <2> SUFFICES ASSUME SceneIInv, [MCNext]_<<vars, scene, spent>> PROVE SceneIInv'
    OBVIOUS
  <2>1. CASE MCNext
    BY <2>1, SceneStep, NextStep, UnstoppedStep DEF SceneIInv
  <2>2. CASE UNCHANGED <<vars, scene, spent>>
    <3>1. UNCHANGED vars /\ UNCHANGED groupVars /\ restarts' = restarts
          /\ shuttingDown' = shuttingDown /\ scene' = scene /\ spent' = spent
      BY <2>2 DEF vars, settingVars
    <3> QED BY <3>1, StutterInv, UnchangedTidy DEF SceneIInv, Unspent
  <2> QED BY <2>1, <2>2
<1>3. SceneIInv => QueuedTasksWaitUnstopped
  BY TidyTasksWait DEF SceneIInv, Unspent, QueuedTasksWaitUnstopped
<1> QED BY <1>1, <1>2, <1>3, PTL DEF MCSpec
=============================================================================
