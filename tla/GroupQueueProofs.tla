-------------------------- MODULE GroupQueueProofs --------------------------
(***************************************************************************)
(* Theorems about GroupQueue, for every set of jids, folders and tasks.     *)
(*                                                                         *)
(* The handlers of the queue edit the record Now and hand it to Settle, so   *)
(* the invariant is stated of such records: Sound(m, ...) for the record     *)
(* of the current state is the inductive invariant, each edit is shown to   *)
(* keep it (with the retry timer of a runner that is about to end excepted), *)
(* and Settle, called with jids that may start, makes it true of the next    *)
(* state, whose record is After.                                            *)
(***************************************************************************)
EXTENDS GroupQueue, Integers, FiniteSetTheorems, WellFoundedInduction, TLAPS

Fields == {"active", "registered", "givingUp", "job", "pending", "queued",
           "retry", "tries", "stop", "injected", "owed", "waiting", "slots",
           "stopped", "owes", "halted", "gated"}
IsState(m) == m = [f \in Fields |-> m[f]]

After == [active |-> active', registered |-> registered', givingUp |-> givingUp',
          job |-> job', pending |-> pendingMessages', queued |-> pendingTasks',
          retry |-> retryTimer', tries |-> retryCount', stop |-> stopRequested',
          injected |-> hasIpcInjectedMessages', owed |-> pendingIpcDeliveries',
          waiting |-> waitingGroups', slots |-> activeContainerCount',
          stopped |-> recentlyStoppedFolders', owes |-> owesWake',
          halted |-> halted', gated |-> Gated']

Jobs == Tasks \cup {None, Messages}

Runners(m) == /\ m.active \subseteq Jids
              /\ m.registered \subseteq m.active
              /\ m.givingUp \subseteq m.active
              /\ m.job \in [Jids -> Jobs]
              /\ \A j \in Jids : m.job[j] # None <=> j \in m.active

Parking(m) == /\ m.pending \subseteq Jids
              /\ m.queued \in [Jids -> Seq(Tasks)]
              /\ m.retry \in [Jids -> Jobs \ Scheduled]
              /\ m.tries \in [Jids -> 0..MaxRetries]
              /\ m.waiting \subseteq Jids

Marks(m) == /\ m.stop \subseteq Jids
            /\ m.injected \subseteq Jids
            /\ m.stopped \subseteq Folders
            /\ m.owes \in BOOLEAN
            /\ m.halted \subseteq Jids

OneKey(m) == \A i, j \in m.active : Key(i) = Key(j) => i = j

Counted(m) == m.slots \in Nat /\ m.slots = Cardinality(m.active \cap Boxed)

\* ... but for the timers of `X'.
Timers(m, X) == \A j \in Jids : m.retry[j] # None => j \notin m.active \/ j \in X

\* The inputs a runner owes are of its key, and it is registered.
Owed(m) == /\ m.owed \in [Jids -> SUBSET Jids]
           /\ \A r \in Jids : \A c \in m.owed[r] :
                  r \in m.registered /\ Key(c) = Key(r)

\* Nothing runs, waits or is retried in the deleted folders `dead'.
Deleted(m, dead) == \A j \in Jids : Folder[j] \in dead =>
    /\ j \notin m.active /\ j \notin m.pending
    /\ m.queued[j] = <<>> /\ m.retry[j] = None

\* A halted jid has nothing to start it, given the restarts `rs' and the stops of
\* mutations `ps' in progress; the runner that it may still have was told to stop.
Halted(m, rs, ps) == \A j \in m.halted :
    /\ j \notin m.pending /\ m.queued[j] = <<>> /\ m.retry[j] = None
    /\ \A r \in Jids : j \notin m.owed[r]
    /\ \A p \in rs : j # p[1]
    /\ j \notin ps
    /\ j \in m.active => j \in m.stop

Sound(m, X, dead, rs, ps) ==
    /\ IsState(m) /\ Runners(m) /\ Parking(m) /\ Marks(m)
    /\ OneKey(m) /\ Counted(m) /\ Timers(m, X) /\ Owed(m)
    /\ Deleted(m, dead) /\ Halted(m, rs, ps)

\* Every waiter is blocked, unless a drain is owed.
Blocked(m, j, limit) == \/ Folder[j] \in m.gated
                        \/ \E i \in m.active : Key(i) = Key(j)
                        \/ j \in Boxed /\ m.slots >= limit
Wake(m, limit) == ~m.owes => \A j \in m.waiting : Blocked(m, j, limit)

\* What a handler that ends in a Settle of `m' does besides: what it starts may
\* start, within the limit, and what it parks stays or starts.
Handed(m, dead) ==
    /\ m.active \subseteq active' /\ registered' = m.registered /\ halted' = m.halted
    /\ \A j \in active' \ m.active : Folder[j] \notin m.gated \cup dead /\ j \notin m.halted
    /\ \/ activeContainerCount' = m.slots
       \/ activeContainerCount' <= maxConcurrentContainers
    /\ m.pending \subseteq pendingMessages' \cup active'
    /\ cancelled \subseteq Scheduled =>
           \A c \in Jids : InQueue(Recovery, m.queued[c]) =>
               c \in active' \/ pendingTasks'[c] # <<>>

-----------------------------------------------------------------------------
(* Keys, tasks and slots                                                    *)

LEMMA Names == /\ None \notin Tasks /\ Messages \notin Tasks /\ None # Messages
               /\ Recovery \in Tasks /\ Recovery \notin Scheduled
  BY QueueAssumption DEF None, Messages

\* Jids of one key live in one folder, so that they run in the same place.
LEMMA KeyOfOneFolder ==
    ASSUME NEW i \in Jids, NEW j \in Jids, Key(i) = Key(j)
    PROVE  Folder[i] = Folder[j] /\ (i \in Boxed <=> j \in Boxed)
<1>1. Folder[i] \in Folders /\ Folder[j] \in Folders
  BY QueueAssumption DEF Folders
<1>2. Folder[i] = Folder[j]
  BY <1>1, QueueAssumption DEF Key, Jids
<1> QED BY <1>2 DEF Boxed

LEMMA TaskToRun ==
    ASSUME NEW q \in Seq(Tasks)
    PROVE  /\ Rest(q) \in Seq(Tasks)
           /\ HasTask(q) => q[FirstTask(q)] \in Tasks
           /\ InQueue(Recovery, q) /\ cancelled \subseteq Scheduled => HasTask(q)
           /\ HasTask(q) => q # <<>>
<1>1. ASSUME HasTask(q)
      PROVE  FirstTask(q) \in DOMAIN q
  <2> DEFINE R == OpToRel(<, Nat)
             T == {i \in DOMAIN q : q[i] \notin cancelled}
  <2>1. T \subseteq Nat /\ T # {}
    BY <1>1 DEF HasTask
  <2>2. PICK i \in T : \A k \in T : <<k, i>> \notin R
    <3> HIDE DEF T
    <3> QED BY <2>1, NatLessThanWellFounded, WFMin
  <2>3. /\ i \in DOMAIN q /\ q[i] \notin cancelled
        /\ \A k \in 1..(i - 1) : q[k] \in cancelled
    <3>1. i \in DOMAIN q /\ q[i] \notin cancelled /\ i \in Nat
      BY <2>1
    <3>2. ASSUME NEW k \in 1..(i - 1), q[k] \notin cancelled PROVE FALSE
      <4>1. k \in DOMAIN q /\ k \in Nat /\ k < i
        BY <3>1
      <4>2. k \in T /\ <<k, i>> \in R
        BY <3>1, <3>2, <4>1 DEF OpToRel
      <4> QED BY <2>2, <4>2
    <3> QED BY <3>1, <3>2
  <2> QED BY <2>3 DEF FirstTask
<1>2. HasTask(q) => q[FirstTask(q)] \in Tasks
  BY <1>1
<1>3. Rest(q) \in Seq(Tasks)
  BY <1>1 DEF Rest
<1>4. InQueue(Recovery, q) /\ cancelled \subseteq Scheduled => HasTask(q)
  BY Names DEF InQueue, HasTask
<1>5. HasTask(q) => q # <<>>
  BY DEF HasTask
<1> QED BY <1>2, <1>3, <1>4, <1>5

LEMMA Slots ==
    ASSUME NEW A \in SUBSET Jids, NEW B \in SUBSET Jids, A \cap B = {}
    PROVE  /\ Cardinality(A \cap Boxed) \in Nat
           /\ Cardinality((A \cup B) \cap Boxed)
                = Cardinality(A \cap Boxed) + Cardinality(B \cap Boxed)
<1> DEFINE a == A \cap Boxed
           b == B \cap Boxed
<1>1. IsFiniteSet(a) /\ IsFiniteSet(b)
  BY QueueAssumption, FS_Subset DEF Boxed
<1>2. a \cap b = {} /\ (A \cup B) \cap Boxed = a \cup b
  OBVIOUS
<1> HIDE DEF a, b
<1>3. Cardinality(a \cup b) = Cardinality(a) + Cardinality(b) - Cardinality(a \cap b)
  BY <1>1, FS_Union
<1>4. Cardinality(a \cap b) = 0
  BY <1>2, FS_EmptySet
<1>5. Cardinality(a) \in Nat /\ Cardinality(b) \in Nat
  BY <1>1, FS_CardinalityType
<1>6. Cardinality(a \cup b) = Cardinality(a) + Cardinality(b)
  BY <1>3, <1>4, <1>5
<1> QED BY <1>2, <1>5, <1>6 DEF a, b

LEMMA OneSlotLess ==
    ASSUME NEW A \in SUBSET Jids, NEW j \in A
    PROVE  /\ Cardinality((A \ {j}) \cap Boxed) \in Nat
           /\ Cardinality((A \ {j}) \cap Boxed)
                = IF j \in Boxed THEN Cardinality(A \cap Boxed) - 1
                  ELSE Cardinality(A \cap Boxed)
<1>1. IsFiniteSet(A \cap Boxed)
  BY QueueAssumption, FS_Subset DEF Boxed
<1>2. (A \ {j}) \cap Boxed = (A \cap Boxed) \ {j} /\ (j \in A \cap Boxed <=> j \in Boxed)
  OBVIOUS
<1>3. IsFiniteSet((A \cap Boxed) \ {j})
  BY <1>1, FS_RemoveElement
<1> QED BY <1>1, <1>2, <1>3, FS_RemoveElement, FS_CardinalityType

-----------------------------------------------------------------------------
(* Settle                                                                   *)

\* The jids of `S' may start in `m'.
MayStart(m, S, dead) ==
    /\ S \subseteq Jids
    /\ \A j \in S : /\ \A i \in m.active : Key(i) # Key(j)
                    /\ Folder[j] \notin dead /\ j \notin m.halted
    /\ \A i, j \in S : Key(i) = Key(j) => i = j

LEMMA AfterIsState ==
    /\ IsState(After)
    /\ After.active = active' /\ After.registered = registered'
    /\ After.givingUp = givingUp' /\ After.job = job'
    /\ After.pending = pendingMessages' /\ After.queued = pendingTasks'
    /\ After.retry = retryTimer' /\ After.tries = retryCount'
    /\ After.stop = stopRequested' /\ After.injected = hasIpcInjectedMessages'
    /\ After.owed = pendingIpcDeliveries' /\ After.waiting = waitingGroups'
    /\ After.slots = activeContainerCount' /\ After.stopped = recentlyStoppedFolders'
    /\ After.owes = owesWake' /\ After.halted = halted' /\ After.gated = Gated'
  BY DEF After, IsState, Fields

LEMMA SettleSound ==
    ASSUME NEW m, NEW X, NEW dead, NEW rs, NEW ps,
           Sound(m, X, dead, rs, ps), X \cap m.active = {},
           NEW msgs \in SUBSET Jids, NEW tsks \in SUBSET Jids, NEW seen \in SUBSET Jids,
           msgs \cap tsks = {}, MayStart(m, msgs \cup tsks, dead),
           \A j \in tsks : HasTask(m.queued[j]),
           Settle(m, msgs, tsks, seen)
    PROVE  Sound(After, {}, dead, rs, ps)
<1> DEFINE started == msgs \cup tsks
<1>a. /\ active' = m.active \cup started
      /\ registered' = m.registered /\ givingUp' = m.givingUp
      /\ job' = [j \in Jids |-> IF j \in tsks THEN m.queued[j][FirstTask(m.queued[j])]
                                ELSE IF j \in msgs THEN Messages ELSE m.job[j]]
      /\ pendingMessages' = m.pending \ msgs
      /\ pendingTasks' = [j \in Jids |-> IF j \in tsks \cup seen
                                         THEN Rest(m.queued[j]) ELSE m.queued[j]]
      /\ retryTimer' = [j \in Jids |-> IF j \in started THEN None ELSE m.retry[j]]
      /\ retryCount' = m.tries /\ stopRequested' = m.stop \ started
      /\ hasIpcInjectedMessages' = m.injected /\ pendingIpcDeliveries' = m.owed
      /\ waitingGroups' = m.waiting \ (started \cup seen)
      /\ activeContainerCount' = m.slots + Cardinality(started \cap Boxed)
      /\ recentlyStoppedFolders' = m.stopped \ {Key(j) : j \in msgs \cap m.stop}
      /\ owesWake' = m.owes /\ halted' = m.halted
  BY DEF Settle, TimersAfterStart
<1>b. \A j \in started : j \notin m.active /\ Folder[j] \notin dead /\ j \notin m.halted
  BY DEF MayStart
<1>c. /\ IsState(m) /\ Runners(m) /\ Parking(m) /\ Marks(m)
      /\ OneKey(m) /\ Counted(m) /\ Timers(m, X) /\ Owed(m)
      /\ Deleted(m, dead) /\ Halted(m, rs, ps)
  BY DEF Sound
<1>d. \A j \in Jids : /\ Rest(m.queued[j]) \in Seq(Tasks)
                      /\ j \in tsks => m.queued[j][FirstTask(m.queued[j])] \in Tasks
  BY <1>c, TaskToRun DEF Parking
<1>1. Runners(After)
  <2>1. active' \subseteq Jids /\ registered' \subseteq active' /\ givingUp' \subseteq active'
    BY <1>a, <1>c DEF Runners
  <2>2. job' \in [Jids -> Jobs]
    BY <1>a, <1>c, <1>d DEF Runners, Jobs
  <2>3. \A j \in Jids : job'[j] # None <=> j \in active'
    BY <1>a, <1>c, <1>d, Names DEF Runners
  <2> QED BY <2>1, <2>2, <2>3, AfterIsState DEF Runners
<1>2. Parking(After)
  <2>1. pendingTasks' \in [Jids -> Seq(Tasks)]
    BY <1>a, <1>c, <1>d DEF Parking
  <2>2. retryTimer' \in [Jids -> Jobs \ Scheduled]
    <3>1. None \in Jobs \ Scheduled
      BY Names, QueueAssumption DEF Jobs
    <3> QED BY <1>a, <1>c, <3>1 DEF Parking
  <2> QED BY <2>1, <2>2, <1>a, <1>c, AfterIsState DEF Parking
<1>3. Marks(After)
  BY <1>a, <1>c, AfterIsState DEF Marks
<1>4. OneKey(After)
  BY <1>a, <1>c, AfterIsState DEF OneKey, MayStart
<1>5. Counted(After)
  <2>1. m.active \in SUBSET Jids /\ started \in SUBSET Jids /\ m.active \cap started = {}
    BY <1>b, <1>c DEF Runners
  <2>2. /\ Cardinality((m.active \cup started) \cap Boxed)
             = Cardinality(m.active \cap Boxed) + Cardinality(started \cap Boxed)
        /\ Cardinality(m.active \cap Boxed) \in Nat
        /\ Cardinality(started \cap Boxed) \in Nat
    <3> HIDE DEF started
    <3> QED BY <2>1, Slots
  <2> QED BY <2>2, <1>a, <1>c, AfterIsState DEF Counted
<1>6. Timers(After, {})
  BY <1>a, <1>c, AfterIsState DEF Timers, Parking
<1>7. Owed(After)
  BY <1>a, <1>c, AfterIsState DEF Owed
<1>8. Deleted(After, dead)
  <2> SUFFICES ASSUME NEW j \in Jids, Folder[j] \in dead
               PROVE  /\ j \notin active' /\ j \notin pendingMessages'
                      /\ pendingTasks'[j] = <<>> /\ retryTimer'[j] = None
    BY AfterIsState DEF Deleted
  <2>1. /\ j \notin m.active /\ j \notin m.pending
        /\ m.queued[j] = <<>> /\ m.retry[j] = None /\ j \notin started
    BY <1>b, <1>c DEF Deleted
  <2>2. Rest(<<>>) = <<>>
    BY DEF Rest, HasTask
  <2> QED BY <2>1, <2>2, <1>a
<1>9. Halted(After, rs, ps)
  <2> SUFFICES ASSUME NEW j \in m.halted
               PROVE  /\ j \notin pendingMessages' /\ pendingTasks'[j] = <<>>
                      /\ retryTimer'[j] = None
                      /\ \A r \in Jids : j \notin pendingIpcDeliveries'[r]
                      /\ \A p \in rs : j # p[1]
                      /\ j \notin ps
                      /\ j \in active' => j \in stopRequested'
    BY <1>a, AfterIsState DEF Halted
  <2>1. /\ j \in Jids /\ j \notin m.pending /\ m.queued[j] = <<>> /\ m.retry[j] = None
        /\ \A r \in Jids : j \notin m.owed[r]
        /\ \A p \in rs : j # p[1]
        /\ j \notin ps
        /\ j \in m.active => j \in m.stop
        /\ j \notin started
    BY <1>b, <1>c DEF Halted, Marks
  <2>2. Rest(<<>>) = <<>>
    BY DEF Rest, HasTask
  <2> QED BY <2>1, <2>2, <1>a
<1> QED BY <1>1, <1>2, <1>3, <1>4, <1>5, <1>6, <1>7, <1>8, <1>9, AfterIsState DEF Sound

LEMMA SettleHanded ==
    ASSUME NEW m, NEW X, NEW dead, NEW rs, NEW ps,
           Sound(m, X, dead, rs, ps),
           NEW msgs \in SUBSET Jids, NEW tsks \in SUBSET Jids, NEW seen \in SUBSET Jids,
           MayStart(m, msgs \cup tsks, dead),
           \A j \in msgs \cup tsks : Folder[j] \notin m.gated,
           \A j \in seen : HasTask(m.queued[j]) => j \in msgs \cup tsks,
           \/ (msgs \cup tsks) \cap Boxed = {}
           \/ m.slots + Cardinality((msgs \cup tsks) \cap Boxed) <= maxConcurrentContainers,
           Settle(m, msgs, tsks, seen)
    PROVE  Handed(m, dead)
<1> DEFINE started == msgs \cup tsks
<1>1. /\ active' = m.active \cup started
      /\ registered' = m.registered /\ halted' = m.halted
      /\ pendingMessages' = m.pending \ msgs
      /\ pendingTasks' = [j \in Jids |-> IF j \in tsks \cup seen
                                         THEN Rest(m.queued[j]) ELSE m.queued[j]]
      /\ activeContainerCount' = m.slots + Cardinality(started \cap Boxed)
  BY DEF Settle
<1>2. \A j \in active' \ m.active : Folder[j] \notin m.gated \cup dead /\ j \notin m.halted
  BY <1>1 DEF MayStart
<1>3. activeContainerCount' = m.slots \/ activeContainerCount' <= maxConcurrentContainers
  <2>1. m.slots \in Nat
    BY DEF Sound, Counted
  <2>2. CASE started \cap Boxed = {}
    <3>1. Cardinality(started \cap Boxed) = 0
      BY <2>2, FS_EmptySet
    <3> QED BY <1>1, <2>1, <3>1
  <2>3. CASE m.slots + Cardinality(started \cap Boxed) <= maxConcurrentContainers
    BY <1>1, <2>3
  <2> QED BY <2>2, <2>3
<1>4. ASSUME cancelled \subseteq Scheduled, NEW c \in Jids, InQueue(Recovery, m.queued[c])
      PROVE  c \in active' \/ pendingTasks'[c] # <<>>
  <2>1. m.queued[c] \in Seq(Tasks)
    BY DEF Sound, Parking
  <2>2. HasTask(m.queued[c]) /\ m.queued[c] # <<>>
    BY <1>4, <2>1, TaskToRun
  <2> QED BY <1>1, <2>2
<1> QED BY <1>1, <1>2, <1>3, <1>4 DEF Handed

-----------------------------------------------------------------------------
(* The handlers that may start runners                                      *)

LEMMA SetSound ==
    ASSUME NEW m, NEW X, NEW dead, NEW rs, NEW ps,
           Sound(m, X, dead, rs, ps), X \cap m.active = {}, Set(m)
    PROVE  Sound(After, {}, dead, rs, ps) /\ Handed(m, dead)
<1>1. MayStart(m, {} \cup {}, dead) /\ Settle(m, {}, {}, {})
  BY DEF MayStart, Set
<1>2. ({} \cup {}) \cap Boxed = {}
  OBVIOUS
<1>3. Sound(After, {}, dead, rs, ps)
  BY <1>1, SettleSound
<1>4. Handed(m, dead)
  BY <1>1, <1>2, SettleHanded
<1> QED BY <1>3, <1>4

LEMMA OneStarts ==
    ASSUME NEW m, NEW X, NEW dead, NEW rs, NEW ps,
           Sound(m, X, dead, rs, ps), X \cap m.active = {},
           maxConcurrentContainers \in Nat,
           NEW j \in Jids, Folder[j] \notin dead, j \notin m.halted,
           ~Closed(m, j), ~Busy(m.active, j), Room(m, 0, j)
    PROVE  /\ MayStart(m, {j}, dead)
           /\ Folder[j] \notin m.gated
           /\ \/ {j} \cap Boxed = {}
              \/ m.slots + Cardinality({j} \cap Boxed) <= maxConcurrentContainers
<1>1. MayStart(m, {j}, dead) /\ Folder[j] \notin m.gated
  BY DEF MayStart, Busy, Closed
<1>2. CASE j \in Boxed
  <2>1. {j} \cap Boxed = {j} /\ Cardinality({j}) = 1
    BY <1>2, FS_Singleton
  <2>2. m.slots \in Nat /\ m.slots < maxConcurrentContainers
    BY <1>2 DEF Sound, Counted, Room
  <2>3. m.slots + 1 <= maxConcurrentContainers
    BY <2>2
  <2> QED BY <1>1, <2>1, <2>3
<1> QED BY <1>1, <1>2

\* `n' has the runners of `m', and the marks on them.
SameRunners(m, n) ==
    /\ n.active = m.active /\ n.registered = m.registered
    /\ n.givingUp = m.givingUp /\ n.job = m.job /\ n.slots = m.slots

SameMarks(m, n) ==
    /\ n.stop = m.stop /\ n.injected = m.injected /\ n.stopped = m.stopped
    /\ n.owed = m.owed /\ n.halted = m.halted /\ n.gated = m.gated

LEMMA EditSound ==
    ASSUME NEW m, NEW n, NEW X, NEW dead, NEW rs, NEW ps,
           NEW dead1, NEW rs1, NEW ps1,
           Sound(m, X, dead, rs, ps), IsState(n), SameRunners(m, n),
           Parking(n), Marks(n), Timers(n, X), Owed(n),
           Deleted(n, dead1), Halted(n, rs1, ps1)
    PROVE  Sound(n, X, dead1, rs1, ps1)
<1>1. Runners(n)
  BY DEF Sound, Runners, SameRunners
<1>2. OneKey(n) /\ Counted(n)
  BY DEF Sound, OneKey, Counted, SameRunners
<1> QED BY <1>1, <1>2 DEF Sound

\* Only what is parked changes, and neither in a deleted folder nor for a halted jid.
LEMMA ParkSound ==
    ASSUME NEW m, NEW n, NEW X, NEW dead, NEW rs, NEW ps,
           Sound(m, X, dead, rs, ps), IsState(n), SameRunners(m, n), SameMarks(m, n),
           n.retry = m.retry, n.tries = m.tries, n.owes \in BOOLEAN,
           n.pending \subseteq Jids, n.waiting \subseteq Jids,
           n.queued \in [Jids -> Seq(Tasks)],
           \A j \in Jids : Folder[j] \in dead \/ j \in m.halted =>
               /\ j \in n.pending => j \in m.pending
               /\ n.queued[j] = m.queued[j] \/ n.queued[j] = <<>>
    PROVE  Sound(n, X, dead, rs, ps)
<1>c. /\ Runners(m) /\ Parking(m) /\ Marks(m) /\ Timers(m, X) /\ Owed(m)
      /\ Deleted(m, dead) /\ Halted(m, rs, ps)
  BY DEF Sound
<1>1. Parking(n)
  BY <1>c DEF Parking
<1>2. Marks(n)
  BY <1>c DEF Marks, SameMarks
<1>3. Timers(n, X)
  BY <1>c DEF Timers, SameRunners
<1>4. Owed(n)
  BY <1>c DEF Owed, SameRunners, SameMarks
<1>5. Deleted(n, dead)
  BY <1>c DEF Deleted, SameRunners
<1>6. Halted(n, rs, ps)
  <2>1. m.halted \subseteq Jids /\ n.halted = m.halted
    BY <1>c DEF Marks, SameMarks
  <2> QED BY <1>c, <2>1 DEF Halted, SameRunners, SameMarks
<1> QED BY <1>1, <1>2, <1>3, <1>4, <1>5, <1>6, EditSound

LEMMA MessageCheckSound ==
    ASSUME NEW m, NEW X, NEW rs, NEW ps,
           Sound(m, X, terminalDiscardMutationKeys, rs, ps), X \cap m.active = {},
           maxConcurrentContainers \in Nat,
           NEW j \in Jids, j \notin m.halted, MessageCheck(m, j)
    PROVE  /\ Sound(After, {}, terminalDiscardMutationKeys, rs, ps)
           /\ Handed(m, terminalDiscardMutationKeys)
<1> DEFINE dead == terminalDiscardMutationKeys
           less == [m EXCEPT !.pending = @ \ {j}, !.waiting = @ \ {j}]
           more == [m EXCEPT !.pending = @ \cup {j}, !.waiting = @ \cup {j}]
<1>c. /\ IsState(m) /\ Runners(m) /\ Parking(m) /\ Marks(m)
      /\ OneKey(m) /\ Counted(m) /\ Timers(m, X) /\ Owed(m)
      /\ Deleted(m, dead) /\ Halted(m, rs, ps)
  BY DEF Sound
<1>1. CASE Set(m)
  BY <1>1, SetSound
<1>2. CASE Folder[j] \in dead /\ Set(less)
  <2>1. /\ IsState(less) /\ SameRunners(m, less) /\ SameMarks(m, less)
        /\ less.pending = m.pending \ {j} /\ less.waiting = m.waiting \ {j}
        /\ less.queued = m.queued /\ less.retry = m.retry /\ less.tries = m.tries
        /\ less.owes = m.owes
    BY <1>c DEF IsState, Fields, SameRunners, SameMarks
  <2> HIDE DEF less
  <2>2. Sound(less, X, dead, rs, ps)
    <3>1. /\ less.pending \subseteq Jids /\ less.waiting \subseteq Jids
          /\ less.queued \in [Jids -> Seq(Tasks)] /\ less.owes \in BOOLEAN
      BY <1>c, <2>1 DEF Parking, Marks
    <3>2. \A i \in Jids : i \in less.pending => i \in m.pending
      BY <2>1
    <3> QED BY <2>1, <3>1, <3>2, ParkSound
  <2>3. Sound(After, {}, dead, rs, ps) /\ Handed(less, dead)
    BY <1>2, <2>1, <2>2, SetSound DEF SameRunners
  <2>4. j \notin m.pending
    BY <1>2, <1>c DEF Deleted
  <2> QED BY <2>1, <2>3, <2>4 DEF Handed, SameRunners, SameMarks
<1>3. CASE Folder[j] \notin dead /\ Set(more)
  <2>1. /\ IsState(more) /\ SameRunners(m, more) /\ SameMarks(m, more)
        /\ more.pending = m.pending \cup {j} /\ more.waiting = m.waiting \cup {j}
        /\ more.queued = m.queued /\ more.retry = m.retry /\ more.tries = m.tries
        /\ more.owes = m.owes
    BY <1>c DEF IsState, Fields, SameRunners, SameMarks
  <2> HIDE DEF more
  <2>2. Sound(more, X, dead, rs, ps)
    <3>1. /\ more.pending \subseteq Jids /\ more.waiting \subseteq Jids
          /\ more.queued \in [Jids -> Seq(Tasks)] /\ more.owes \in BOOLEAN
      BY <1>c, <2>1 DEF Parking, Marks
    <3>2. \A i \in Jids : Folder[i] \in dead \/ i \in m.halted =>
              (i \in more.pending => i \in m.pending)
      BY <1>3, <2>1
    <3> QED BY <2>1, <3>1, <3>2, ParkSound
  <2>3. Sound(After, {}, dead, rs, ps) /\ Handed(more, dead)
    BY <1>3, <2>1, <2>2, SetSound DEF SameRunners
  <2> QED BY <2>1, <2>3 DEF Handed, SameRunners, SameMarks
<1>4. CASE /\ Folder[j] \notin dead /\ ~Closed(m, j) /\ ~Busy(m.active, j) /\ Room(m, 0, j)
           /\ Settle(m, {j}, {}, {})
  <2>1. /\ MayStart(m, {j} \cup {}, dead) /\ Folder[j] \notin m.gated
        /\ \/ ({j} \cup {}) \cap Boxed = {}
           \/ m.slots + Cardinality(({j} \cup {}) \cap Boxed) <= maxConcurrentContainers
    <3>1. {j} \cup {} = {j}
      OBVIOUS
    <3> QED BY <1>4, <3>1, OneStarts
  <2>2. Sound(After, {}, dead, rs, ps)
    BY <1>4, <2>1, SettleSound
  <2>3. Handed(m, dead)
    BY <1>4, <2>1, SettleHanded
  <2> QED BY <2>2, <2>3
<1> QED BY <1>1, <1>2, <1>3, <1>4 DEF MessageCheck

LEMMA TaskCheckSound ==
    ASSUME NEW m, NEW X, NEW rs, NEW ps,
           Sound(m, X, terminalDiscardMutationKeys, rs, ps), X \cap m.active = {},
           maxConcurrentContainers \in Nat, cancelled \subseteq Scheduled,
           NEW j \in Jids, j \notin m.halted, NEW t \in Tasks, t \notin cancelled,
           TaskCheck(m, j, t)
    PROVE  /\ Sound(After, {}, terminalDiscardMutationKeys, rs, ps)
           /\ Handed(m, terminalDiscardMutationKeys)
<1> DEFINE dead == terminalDiscardMutationKeys
           more == [m EXCEPT !.queued[j] = Append(@, t), !.waiting = @ \cup {j}]
           first == [m EXCEPT !.queued[j] = <<t>> \o @]
<1>c. /\ IsState(m) /\ Runners(m) /\ Parking(m) /\ Marks(m)
  BY DEF Sound
<1>1. CASE Set(m)
  BY <1>1, SetSound
<1>2. CASE Folder[j] \notin dead /\ Set(more)
  <2>1. /\ IsState(more) /\ SameRunners(m, more) /\ SameMarks(m, more)
        /\ more.pending = m.pending /\ more.waiting = m.waiting \cup {j}
        /\ more.queued = [m.queued EXCEPT ![j] = Append(@, t)]
        /\ more.retry = m.retry /\ more.tries = m.tries /\ more.owes = m.owes
    BY <1>c DEF IsState, Fields, SameRunners, SameMarks
  <2> HIDE DEF more
  <2>2. more.queued \in [Jids -> Seq(Tasks)]
    BY <1>c, <2>1 DEF Parking
  <2>3. \A i \in Jids : i # j => more.queued[i] = m.queued[i]
    BY <1>c, <2>1 DEF Parking
  <2>4. Sound(more, X, dead, rs, ps)
    <3>1. more.pending \subseteq Jids /\ more.waiting \subseteq Jids /\ more.owes \in BOOLEAN
      BY <1>c, <2>1 DEF Parking, Marks
    <3>2. \A i \in Jids : Folder[i] \in dead \/ i \in m.halted =>
              more.queued[i] = m.queued[i]
      BY <1>2, <2>3
    <3> QED BY <2>1, <2>2, <3>1, <3>2, ParkSound
  <2>5. Sound(After, {}, dead, rs, ps) /\ Handed(more, dead)
    BY <1>2, <2>1, <2>4, SetSound DEF SameRunners
  <2>6. \A c \in Jids : InQueue(Recovery, m.queued[c]) => InQueue(Recovery, more.queued[c])
    <3>1. InQueue(Recovery, m.queued[j]) => InQueue(Recovery, Append(m.queued[j], t))
      BY <1>c DEF InQueue, Parking
    <3> QED BY <1>c, <2>1, <2>3, <3>1 DEF Parking
  <2> QED BY <2>1, <2>5, <2>6 DEF Handed, SameRunners, SameMarks
<1>3. CASE /\ Folder[j] \notin dead /\ ~Closed(m, j) /\ ~Busy(m.active, j) /\ Room(m, 0, j)
           /\ Settle(first, {}, {j}, {})
  <2>1. /\ IsState(first) /\ SameRunners(m, first) /\ SameMarks(m, first)
        /\ first.pending = m.pending /\ first.waiting = m.waiting
        /\ first.queued = [m.queued EXCEPT ![j] = <<t>> \o @]
        /\ first.retry = m.retry /\ first.tries = m.tries /\ first.owes = m.owes
    BY <1>c DEF IsState, Fields, SameRunners, SameMarks
  <2> HIDE DEF first
  <2>2. /\ first.queued \in [Jids -> Seq(Tasks)]
        /\ \A i \in Jids : i # j => first.queued[i] = m.queued[i]
        /\ HasTask(first.queued[j])
    <3>1. m.queued[j] \in Seq(Tasks) /\ first.queued[j] = <<t>> \o m.queued[j]
      BY <1>c, <2>1 DEF Parking
    <3>2. 1 \in DOMAIN first.queued[j] /\ first.queued[j][1] = t
      BY <3>1
    <3>3. <<t>> \o m.queued[j] \in Seq(Tasks)
      BY <3>1
    <3> QED BY <1>c, <2>1, <3>2, <3>3 DEF Parking, HasTask
  <2>3. Sound(first, X, dead, rs, ps)
    <3>1. first.pending \subseteq Jids /\ first.waiting \subseteq Jids /\ first.owes \in BOOLEAN
      BY <1>c, <2>1 DEF Parking, Marks
    <3>2. \A i \in Jids : Folder[i] \in dead \/ i \in m.halted =>
              first.queued[i] = m.queued[i]
      BY <1>3, <2>2
    <3> QED BY <2>1, <2>2, <3>1, <3>2, ParkSound
  <2>4. ~Closed(first, j) /\ ~Busy(first.active, j) /\ Room(first, 0, j) /\ j \notin first.halted
    BY <1>3, <2>1 DEF Closed, Room, SameRunners, SameMarks
  <2>5. /\ MayStart(first, {} \cup {j}, dead) /\ Folder[j] \notin first.gated
        /\ \/ ({} \cup {j}) \cap Boxed = {}
           \/ first.slots + Cardinality(({} \cup {j}) \cap Boxed) <= maxConcurrentContainers
    <3>1. {} \cup {j} = {j}
      OBVIOUS
    <3>2. X \cap first.active = {}
      BY <2>1 DEF SameRunners
    <3> QED BY <1>3, <2>3, <2>4, <3>1, <3>2, OneStarts
  <2>6. X \cap first.active = {}
    BY <2>1 DEF SameRunners
  <2>7. Sound(After, {}, dead, rs, ps)
    BY <1>3, <2>2, <2>3, <2>5, <2>6, SettleSound
  <2>8. Handed(first, dead)
    <3>1. \A i \in {} \cup {j} : Folder[i] \notin first.gated
      BY <2>5
    <3>2. {} \in SUBSET Jids /\ {j} \in SUBSET Jids
      OBVIOUS
    <3>3. \A i \in {} : HasTask(first.queued[i]) => i \in {} \cup {j}
      OBVIOUS
    <3> HIDE DEF dead, first
    <3> QED BY <1>3, <2>3, <2>5, <3>1, <3>2, <3>3, SettleHanded
  <2>9. j \in active'
    BY <1>3 DEF Settle
  <2> QED BY <2>1, <2>2, <2>7, <2>8, <2>9 DEF Handed, SameRunners, SameMarks
<1> QED BY <1>1, <1>2, <1>3 DEF TaskCheck

\* A jid with something to run is neither in a deleted folder nor halted.
LEMMA RunnableMayRun ==
    ASSUME NEW m, NEW X, NEW dead, NEW rs, NEW ps, Sound(m, X, dead, rs, ps),
           NEW j \in Jids, Runnable(m, j)
    PROVE  Folder[j] \notin dead /\ j \notin m.halted
<1>1. m.queued[j] \in Seq(Tasks)
  BY DEF Sound, Parking
<1>2. j \in m.pending \/ m.queued[j] # <<>>
  BY <1>1, TaskToRun DEF Runnable
<1> QED BY <1>2 DEF Sound, Deleted, Halted

LEMMA DrainWaitingSound ==
    ASSUME NEW m, NEW X, NEW dead, NEW rs, NEW ps,
           Sound(m, X, dead, rs, ps), X \cap m.active = {}, DrainWaiting(m)
    PROVE  Sound(After, {}, dead, rs, ps) /\ Handed(m, dead)
<1> DEFINE n == [m EXCEPT !.owes = FALSE]
<1>c. /\ IsState(m) /\ Parking(m) /\ Marks(m)
  BY DEF Sound
<1>1. /\ IsState(n) /\ SameRunners(m, n) /\ SameMarks(m, n) /\ n.owes = FALSE
      /\ n.pending = m.pending /\ n.waiting = m.waiting /\ n.queued = m.queued
      /\ n.retry = m.retry /\ n.tries = m.tries
  BY <1>c DEF IsState, Fields, SameRunners, SameMarks
<1>2. PICK chosen \in SUBSET m.waiting, seen \in SUBSET m.waiting :
        /\ \A j \in chosen : ~Closed(m, j) /\ ~Busy(m.active, j) /\ Runnable(m, j)
        /\ \A i, j \in chosen : Key(i) = Key(j) => i = j
        /\ Cardinality(chosen \cap Boxed) > 0 =>
               m.slots + Cardinality(chosen \cap Boxed) <= maxConcurrentContainers
        /\ \A j \in seen : ~Runnable(m, j)
        /\ Settle(n, {j \in chosen : ~HasTask(m.queued[j])},
                     {j \in chosen : HasTask(m.queued[j])}, chosen \cup seen)
  BY DEF DrainWaiting
<1> DEFINE msgs == {j \in chosen : ~HasTask(m.queued[j])}
           tsks == {j \in chosen : HasTask(m.queued[j])}
<1> HIDE DEF n
<1>3. /\ msgs \in SUBSET Jids /\ tsks \in SUBSET Jids /\ chosen \cup seen \in SUBSET Jids
      /\ msgs \cap tsks = {} /\ msgs \cup tsks = chosen /\ chosen \subseteq Jids
  BY <1>c, <1>2 DEF Parking
<1>4. Sound(n, X, dead, rs, ps)
  BY <1>c, <1>1, ParkSound DEF Parking
<1>5. MayStart(n, msgs \cup tsks, dead)
  <2>1. \A j \in chosen : /\ \A i \in m.active : Key(i) # Key(j)
                          /\ Folder[j] \notin dead /\ j \notin m.halted
    BY <1>2, <1>3, RunnableMayRun DEF Busy
  <2>2. n.active = m.active /\ n.halted = m.halted
    BY <1>1 DEF SameRunners, SameMarks
  <2> QED BY <1>2, <1>3, <2>1, <2>2 DEF MayStart
<1>6. /\ \A j \in msgs \cup tsks : Folder[j] \notin n.gated
      /\ \A j \in tsks : HasTask(n.queued[j])
      /\ X \cap n.active = {}
  BY <1>1, <1>2, <1>3 DEF Closed, SameMarks, SameRunners
<1>7. \A j \in chosen \cup seen : HasTask(n.queued[j]) => j \in msgs \cup tsks
  BY <1>1, <1>2 DEF Runnable
<1>8. \/ (msgs \cup tsks) \cap Boxed = {}
      \/ n.slots + Cardinality((msgs \cup tsks) \cap Boxed) <= maxConcurrentContainers
  <2>1. IsFiniteSet(chosen \cap Boxed)
    BY <1>3, QueueAssumption, FS_Subset DEF Boxed
  <2>2. \/ chosen \cap Boxed = {} \/ Cardinality(chosen \cap Boxed) > 0
    BY <2>1, FS_EmptySet, FS_CardinalityType
  <2> QED BY <1>1, <1>2, <1>3, <2>2 DEF SameRunners
<1>9. Settle(n, msgs, tsks, chosen \cup seen)
  BY <1>2
<1> HIDE DEF msgs, tsks
<1>10. Sound(After, {}, dead, rs, ps)
  BY <1>3, <1>4, <1>5, <1>6, <1>9, SettleSound
<1>11. Handed(n, dead)
  BY <1>3, <1>4, <1>5, <1>6, <1>7, <1>8, <1>9, SettleHanded
<1> QED BY <1>1, <1>10, <1>11 DEF Handed, SameRunners, SameMarks

LEMMA CollectSound ==
    ASSUME NEW m, NEW X, NEW dead, NEW rs, NEW ps, NEW j \in Jids,
           Sound(m, X, dead, rs, ps), j \notin m.active
    PROVE  /\ Sound(Collect(m, j), X, dead, rs, ps)
           /\ SameRunners(m, Collect(m, j)) /\ Collect(m, j).halted = m.halted
           /\ Collect(m, j).gated = m.gated /\ Collect(m, j).owes = m.owes
           /\ Collect(m, j).pending = m.pending /\ Collect(m, j).queued = m.queued
           /\ Collect(m, j).waiting = m.waiting
<1> DEFINE n == Collect(m, j)
<1>c. /\ IsState(m) /\ Runners(m) /\ Parking(m) /\ Marks(m) /\ Timers(m, X) /\ Owed(m)
      /\ Deleted(m, dead) /\ Halted(m, rs, ps)
  BY DEF Sound
<1>1. CASE n = m
  BY <1>1 DEF SameRunners
<1>2. CASE n = [m EXCEPT !.tries[j] = 0, !.stop = @ \ {j}, !.injected = @ \ {j},
                         !.owed[j] = {}]
  <2>1. /\ IsState(n) /\ SameRunners(m, n) /\ n.halted = m.halted /\ n.gated = m.gated
        /\ n.pending = m.pending /\ n.queued = m.queued /\ n.waiting = m.waiting
        /\ n.retry = m.retry /\ n.tries = [m.tries EXCEPT ![j] = 0]
        /\ n.stop = m.stop \ {j} /\ n.injected = m.injected \ {j}
        /\ n.owed = [m.owed EXCEPT ![j] = {}]
        /\ n.stopped = m.stopped /\ n.owes = m.owes
    BY <1>c, <1>2 DEF IsState, Fields, SameRunners
  <2> HIDE DEF n
  <2>2. Parking(n)
    <3>1. n.tries \in [Jids -> 0..MaxRetries]
      BY <1>c, <2>1, QueueAssumption DEF Parking
    <3> QED BY <1>c, <2>1, <3>1 DEF Parking
  <2>3. Marks(n)
    BY <1>c, <2>1 DEF Marks
  <2>4. Timers(n, X)
    BY <1>c, <2>1 DEF Timers, SameRunners
  <2>5. n.owed \in [Jids -> SUBSET Jids] /\ \A r \in Jids : n.owed[r] \subseteq m.owed[r]
    BY <1>c, <2>1 DEF Owed
  <2>6. Owed(n)
    BY <1>c, <2>1, <2>5 DEF Owed, SameRunners
  <2>7. Deleted(n, dead)
    BY <1>c, <2>1 DEF Deleted, SameRunners
  <2>8. Halted(n, rs, ps)
    <3>1. n.stop = m.stop \ {j} /\ n.active = m.active /\ m.halted \subseteq Jids
      BY <1>c, <2>1 DEF SameRunners, Marks
    <3> QED BY <1>c, <2>1, <2>5, <3>1 DEF Halted
  <2>9. Sound(n, X, dead, rs, ps)
    BY <2>1, <2>2, <2>3, <2>4, <2>6, <2>7, <2>8, EditSound
  <2> QED BY <2>1, <2>9 DEF n
<1> QED BY <1>1, <1>2 DEF Collect

LEMMA DrainGroupSound ==
    ASSUME NEW m, NEW X, NEW dead, NEW rs, NEW ps, NEW j \in Jids,
           Sound(m, X, dead, rs, ps), X \cap m.active = {},
           maxConcurrentContainers \in Nat, cancelled \subseteq Scheduled,
           j \notin m.active, Folder[j] \notin dead, DrainGroup(m, j)
    PROVE  Sound(After, {}, dead, rs, ps) /\ Handed(m, dead)
<1>c. /\ IsState(m) /\ Parking(m) /\ Marks(m)
  BY DEF Sound
<1>1. ASSUME NEW n, Set(n), IsState(n), SameRunners(m, n), SameMarks(m, n),
             n.retry = m.retry, n.tries = m.tries, n.owes \in BOOLEAN,
             n.pending = m.pending, n.queued = m.queued, n.waiting \subseteq Jids
      PROVE  Sound(After, {}, dead, rs, ps) /\ Handed(m, dead)
  <2>1. Sound(n, X, dead, rs, ps)
    BY <1>c, <1>1, ParkSound DEF Parking
  <2>2. Sound(After, {}, dead, rs, ps) /\ Handed(n, dead)
    BY <1>1, <2>1, SetSound DEF SameRunners
  <2> QED BY <1>1, <2>2 DEF Handed, SameRunners, SameMarks
<1>2. CASE Set(m)
  BY <1>2, SetSound
<1>3. CASE Set([m EXCEPT !.owes = TRUE,
                         !.waiting = IF HasWork(m, j) THEN @ \cup {j} ELSE @])
  <2> DEFINE w == IF HasWork(m, j) THEN m.waiting \cup {j} ELSE m.waiting
             n == [m EXCEPT !.owes = TRUE, !.waiting = w]
  <2>1. Set(n)
    BY <1>3
  <2>2. w \subseteq Jids
    BY <1>c DEF Parking
  <2> HIDE DEF w
  <2>3. /\ IsState(n) /\ SameRunners(m, n) /\ SameMarks(m, n)
        /\ n.retry = m.retry /\ n.tries = m.tries /\ n.owes = TRUE
        /\ n.pending = m.pending /\ n.queued = m.queued /\ n.waiting = w
    BY <1>c DEF IsState, Fields, SameRunners, SameMarks
  <2> HIDE DEF n
  <2> QED BY <1>1, <2>1, <2>2, <2>3
<1>4. CASE Set([m EXCEPT !.waiting = @ \cup {j}])
  <2> DEFINE n == [m EXCEPT !.waiting = @ \cup {j}]
  <2>3. /\ IsState(n) /\ SameRunners(m, n) /\ SameMarks(m, n)
        /\ n.retry = m.retry /\ n.tries = m.tries /\ n.owes = m.owes
        /\ n.pending = m.pending /\ n.queued = m.queued /\ n.waiting = m.waiting \cup {j}
    BY <1>c DEF IsState, Fields, SameRunners, SameMarks
  <2>4. Set(n)
    BY <1>4
  <2> HIDE DEF n
  <2>5. n.waiting \subseteq Jids /\ n.owes \in BOOLEAN
    BY <1>c, <2>3 DEF Parking, Marks
  <2> QED BY <1>1, <2>3, <2>4, <2>5
<1>5. ASSUME ~Closed(m, j), ~Busy(m.active, j), Room(m, 0, j), Runnable(m, j)
      PROVE  /\ MayStart(m, {j}, dead) /\ \A i \in {j} : Folder[i] \notin m.gated
             /\ \/ {j} \cap Boxed = {}
                \/ m.slots + Cardinality({j} \cap Boxed) <= maxConcurrentContainers
  <2>1. Folder[j] \notin dead /\ j \notin m.halted
    BY <1>5, RunnableMayRun
  <2> QED BY <1>5, <2>1, OneStarts
<1>6. CASE /\ ~Closed(m, j) /\ ~Busy(m.active, j) /\ Room(m, 0, j)
           /\ HasTask(m.queued[j]) /\ Settle(m, {}, {j}, {})
  <2>1. {} \cup {j} = {j} /\ Runnable(m, j)
    BY <1>6 DEF Runnable
  <2>2. {} \in SUBSET Jids /\ {j} \in SUBSET Jids /\ {} \cap {j} = {}
    OBVIOUS
  <2>3. /\ \A i \in {} : HasTask(m.queued[i]) => i \in {} \cup {j}
        /\ \A i \in {j} : HasTask(m.queued[i])
    BY <1>6
  <2>4. /\ MayStart(m, {} \cup {j}, dead) /\ \A i \in {} \cup {j} : Folder[i] \notin m.gated
        /\ \/ ({} \cup {j}) \cap Boxed = {}
           \/ m.slots + Cardinality(({} \cup {j}) \cap Boxed) <= maxConcurrentContainers
    BY <1>5, <1>6, <2>1
  <2>5. Sound(After, {}, dead, rs, ps)
    BY <1>6, <2>2, <2>3, <2>4, SettleSound
  <2>6. Handed(m, dead)
    BY <1>6, <2>2, <2>3, <2>4, SettleHanded
  <2> QED BY <2>5, <2>6
<1>7. CASE /\ ~Closed(m, j) /\ ~Busy(m.active, j) /\ Room(m, 0, j)
           /\ ~HasTask(m.queued[j]) /\ Runnable(m, j) /\ Settle(m, {j}, {}, {j})
  <2>1. {j} \cup {} = {j}
    OBVIOUS
  <2>2. {} \in SUBSET Jids /\ {j} \in SUBSET Jids /\ {j} \cap {} = {}
    OBVIOUS
  <2>3. /\ \A i \in {j} : HasTask(m.queued[i]) => i \in {j} \cup {}
        /\ \A i \in {} : HasTask(m.queued[i])
    BY <1>7
  <2>4. /\ MayStart(m, {j} \cup {}, dead) /\ \A i \in {j} \cup {} : Folder[i] \notin m.gated
        /\ \/ ({j} \cup {}) \cap Boxed = {}
           \/ m.slots + Cardinality(({j} \cup {}) \cap Boxed) <= maxConcurrentContainers
    BY <1>5, <1>7, <2>1
  <2>5. Sound(After, {}, dead, rs, ps)
    BY <1>7, <2>2, <2>3, <2>4, SettleSound
  <2>6. Handed(m, dead)
    BY <1>7, <2>2, <2>3, <2>4, SettleHanded
  <2> QED BY <2>5, <2>6
<1>8. CASE /\ ~HasTask(m.queued[j])
           /\ DrainWaiting(Collect([m EXCEPT !.waiting = @ \ {j}, !.queued[j] = <<>>], j))
  <2> DEFINE n == [m EXCEPT !.waiting = @ \ {j}, !.queued[j] = <<>>]
  <2>1. /\ IsState(n) /\ SameRunners(m, n) /\ SameMarks(m, n)
        /\ n.retry = m.retry /\ n.tries = m.tries /\ n.owes = m.owes
        /\ n.pending = m.pending /\ n.queued = [m.queued EXCEPT ![j] = <<>>]
        /\ n.waiting = m.waiting \ {j}
    BY <1>c DEF IsState, Fields, SameRunners, SameMarks
  <2>2. DrainWaiting(Collect(n, j))
    BY <1>8
  <2> HIDE DEF n
  <2>3. /\ n.queued \in [Jids -> Seq(Tasks)]
        /\ \A i \in Jids : n.queued[i] = m.queued[i] \/ (i = j /\ n.queued[i] = <<>>)
    BY <1>c, <2>1 DEF Parking
  <2>4. Sound(n, X, dead, rs, ps)
    <3>1. n.pending \subseteq Jids /\ n.waiting \subseteq Jids /\ n.owes \in BOOLEAN
      BY <1>c, <2>1 DEF Parking, Marks
    <3> QED BY <2>1, <2>3, <3>1, ParkSound
  <2>5. j \notin n.active /\ X \cap n.active = {}
    BY <2>1 DEF SameRunners
  <2>6. /\ Sound(Collect(n, j), X, dead, rs, ps)
        /\ SameRunners(n, Collect(n, j)) /\ Collect(n, j).halted = n.halted
        /\ Collect(n, j).gated = n.gated
        /\ Collect(n, j).pending = n.pending /\ Collect(n, j).queued = n.queued
    BY <2>4, <2>5, CollectSound
  <2>7. Sound(After, {}, dead, rs, ps) /\ Handed(Collect(n, j), dead)
    BY <2>2, <2>5, <2>6, DrainWaitingSound DEF SameRunners
  <2>8. ASSUME cancelled \subseteq Scheduled, NEW c \in Jids, InQueue(Recovery, m.queued[c])
        PROVE  n.queued[c] = m.queued[c]
    <3>1. HasTask(m.queued[c])
      BY <1>c, <2>8, TaskToRun DEF Parking
    <3> QED BY <1>8, <2>3, <3>1
  <2> QED BY <2>1, <2>6, <2>7, <2>8 DEF Handed, SameRunners, SameMarks
<1> QED BY <1>2, <1>3, <1>4, <1>6, <1>7, <1>8 DEF DrainGroup

-----------------------------------------------------------------------------
(* Wake-ups: no handler leaves a waiter that could start, but for owed drains *)

\* A jid that waits in `m' may go on waiting when the jids of `S' start.
MayWait(m, S, j) ==
    \/ m.owes
    \/ Blocked(m, j, maxConcurrentContainers)
    \/ \E i \in S : Key(i) = Key(j)
    \/ j \in Boxed /\ m.slots + Cardinality(S \cap Boxed) >= maxConcurrentContainers

LEMMA SettleWakes ==
    ASSUME NEW m, NEW msgs \in SUBSET Jids, NEW tsks \in SUBSET Jids, NEW seen \in SUBSET Jids,
           Settle(m, msgs, tsks, seen), m.gated = Gated', m.slots \in Nat,
           maxConcurrentContainers \in Nat,
           maxConcurrentContainers' = maxConcurrentContainers,
           \A j \in m.waiting \ (msgs \cup tsks \cup seen) : MayWait(m, msgs \cup tsks, j)
    PROVE  Wake(After, maxConcurrentContainers')
<1> DEFINE started == msgs \cup tsks
           limit == maxConcurrentContainers
<1>1. /\ active' = m.active \cup started /\ owesWake' = m.owes
      /\ waitingGroups' = m.waiting \ (started \cup seen)
      /\ activeContainerCount' = m.slots + Cardinality(started \cap Boxed)
  BY DEF Settle
<1>2. Cardinality(started \cap Boxed) \in Nat
  <2>1. started \in SUBSET Jids /\ started \cap {} = {}
    OBVIOUS
  <2> HIDE DEF started
  <2> QED BY <2>1, Slots
<1>3. SUFFICES ASSUME ~m.owes, NEW j \in m.waiting \ (started \cup seen)
               PROVE  \/ Folder[j] \in Gated'
                      \/ \E i \in active' : Key(i) = Key(j)
                      \/ j \in Boxed /\ activeContainerCount' >= limit
  BY <1>1, AfterIsState DEF Wake, Blocked
<1>4. CASE Blocked(m, j, limit)
  <2>1. CASE Folder[j] \in m.gated
    BY <2>1
  <2>2. CASE \E i \in m.active : Key(i) = Key(j)
    BY <1>1, <2>2
  <2>3. CASE j \in Boxed /\ m.slots >= limit
    <3>1. m.slots + Cardinality(started \cap Boxed) >= limit
      <4> DEFINE extra == Cardinality(started \cap Boxed)
      <4>1. extra \in Nat
        BY <1>2
      <4> HIDE DEF extra, started
      <4>2. m.slots + extra >= limit
        BY <2>3, <4>1
      <4> QED BY <4>2 DEF extra
    <3> QED BY <1>1, <2>3, <3>1
  <2> QED BY <1>4, <2>1, <2>2, <2>3 DEF Blocked
<1>5. CASE \E i \in started : Key(i) = Key(j)
  BY <1>1, <1>5
<1>6. CASE j \in Boxed /\ m.slots + Cardinality(started \cap Boxed) >= limit
  BY <1>1, <1>6
<1> QED BY <1>3, <1>4, <1>5, <1>6 DEF MayWait

\* A record that was woken and whose waiters only become fewer, or are blocked.
LEMMA SetWakes ==
    ASSUME NEW m, Set(m), m.gated = Gated', m.slots \in Nat,
           maxConcurrentContainers \in Nat,
           maxConcurrentContainers' = maxConcurrentContainers,
           Wake(m, maxConcurrentContainers)
    PROVE  Wake(After, maxConcurrentContainers')
<1>1. Settle(m, {}, {}, {})
  BY DEF Set
<1>2. \A j \in m.waiting \ ({} \cup {} \cup {}) : MayWait(m, {} \cup {}, j)
  BY DEF Wake, MayWait
<1>3. {} \in SUBSET Jids
  OBVIOUS
<1> QED BY <1>1, <1>2, <1>3, SettleWakes, Zenon

\* A jid that cannot start is blocked.
LEMMA CannotStart ==
    ASSUME NEW m, NEW j, m.slots \in Nat, maxConcurrentContainers \in Nat
    PROVE  (Closed(m, j) \/ Busy(m.active, j) \/ ~Room(m, 0, j))
               <=> Blocked(m, j, maxConcurrentContainers)
  BY DEF Closed, Busy, Room, Blocked

\* `n' differs from `m' in what is parked, and its new waiters are blocked.
LEMMA WaitersBlocked ==
    ASSUME NEW m, NEW n, NEW limit, Wake(m, limit),
           n.active = m.active, n.slots = m.slots, n.gated = m.gated,
           n.owes = m.owes \/ n.owes = TRUE,
           \A j \in n.waiting \ m.waiting : m.owes \/ Blocked(m, j, limit)
    PROVE  Wake(n, limit)
  BY DEF Wake, Blocked

LEMMA MessageCheckWakes ==
    ASSUME NEW m, IsState(m), m.slots \in Nat, m.gated = Gated', m.waiting \subseteq Jids,
           maxConcurrentContainers \in Nat,
           maxConcurrentContainers' = maxConcurrentContainers,
           Wake(m, maxConcurrentContainers), NEW j \in Jids, MessageCheck(m, j)
    PROVE  Wake(After, maxConcurrentContainers')
<1> DEFINE limit == maxConcurrentContainers
           less == [m EXCEPT !.pending = @ \ {j}, !.waiting = @ \ {j}]
           more == [m EXCEPT !.pending = @ \cup {j}, !.waiting = @ \cup {j}]
<1>1. CASE Set(m)
  BY <1>1, SetWakes
<1>2. CASE Set(less)
  <2>1. /\ less.active = m.active /\ less.slots = m.slots /\ less.gated = m.gated
        /\ less.owes = m.owes /\ less.waiting = m.waiting \ {j}
    BY DEF IsState, Fields
  <2> HIDE DEF less
  <2>2. Wake(less, limit)
    BY <2>1, WaitersBlocked
  <2> QED BY <1>2, <2>1, <2>2, SetWakes
<1>3. CASE /\ Closed(m, j) \/ Busy(m.active, j) \/ ~Room(m, 0, j)
           /\ Set(more)
  <2>1. /\ more.active = m.active /\ more.slots = m.slots /\ more.gated = m.gated
        /\ more.owes = m.owes /\ more.waiting = m.waiting \cup {j}
    BY DEF IsState, Fields
  <2> HIDE DEF more
  <2>2. Blocked(m, j, limit)
    BY <1>3, CannotStart
  <2>3. Wake(more, limit)
    BY <2>1, <2>2, WaitersBlocked
  <2> QED BY <1>3, <2>1, <2>3, SetWakes
<1>4. CASE Settle(m, {j}, {}, {})
  <2>1. \A i \in m.waiting \ ({j} \cup {} \cup {}) : MayWait(m, {j} \cup {}, i)
    BY DEF Wake, MayWait
  <2>2. {} \in SUBSET Jids /\ {j} \in SUBSET Jids
    OBVIOUS
  <2> QED BY <1>4, <2>1, <2>2, SettleWakes, Zenon
<1> QED BY <1>1, <1>2, <1>3, <1>4 DEF MessageCheck

LEMMA TaskCheckWakes ==
    ASSUME NEW m, IsState(m), m.slots \in Nat, m.gated = Gated', m.waiting \subseteq Jids,
           maxConcurrentContainers \in Nat,
           maxConcurrentContainers' = maxConcurrentContainers,
           Wake(m, maxConcurrentContainers), NEW j \in Jids, NEW t, TaskCheck(m, j, t)
    PROVE  Wake(After, maxConcurrentContainers')
<1> DEFINE limit == maxConcurrentContainers
           first == [m EXCEPT !.queued[j] = <<t>> \o @]
           more == [m EXCEPT !.queued[j] = Append(@, t), !.waiting = @ \cup {j}]
<1>1. CASE Set(m)
  BY <1>1, SetWakes
<1>2. CASE /\ Closed(m, j) \/ Busy(m.active, j) \/ ~Room(m, 0, j)
           /\ Set(more)
  <2>1. /\ more.active = m.active /\ more.slots = m.slots /\ more.gated = m.gated
        /\ more.owes = m.owes /\ more.waiting = m.waiting \cup {j}
    BY DEF IsState, Fields
  <2> HIDE DEF more
  <2>2. Blocked(m, j, limit)
    BY <1>2, CannotStart
  <2>3. Wake(more, limit)
    BY <2>1, <2>2, WaitersBlocked
  <2> QED BY <1>2, <2>1, <2>3, SetWakes
<1>3. CASE Settle(first, {}, {j}, {})
  <2>1. /\ first.active = m.active /\ first.slots = m.slots /\ first.gated = m.gated
        /\ first.owes = m.owes /\ first.waiting = m.waiting
    BY DEF IsState, Fields
  <2> HIDE DEF first
  <2>2. \A i \in first.waiting \ ({} \cup {j} \cup {}) : MayWait(first, {} \cup {j}, i)
    BY <2>1 DEF Wake, Blocked, MayWait
  <2>3. {} \in SUBSET Jids /\ {j} \in SUBSET Jids
    OBVIOUS
  <2>4. first.slots \in Nat /\ first.gated = Gated'
    BY <2>1
  <2> QED BY <1>3, <2>2, <2>3, <2>4, SettleWakes, Zenon
<1> QED BY <1>1, <1>2, <1>3 DEF TaskCheck

\* drainWaiting leaves no waiter that could start, whatever it found.
LEMMA DrainWaitingWakes ==
    ASSUME NEW m, IsState(m), m.slots \in Nat, m.gated = Gated', m.waiting \subseteq Jids,
           maxConcurrentContainers \in Nat,
           maxConcurrentContainers' = maxConcurrentContainers, DrainWaiting(m)
    PROVE  Wake(After, maxConcurrentContainers')
<1> DEFINE limit == maxConcurrentContainers
           n == [m EXCEPT !.owes = FALSE]
<1>1. /\ n.active = m.active /\ n.slots = m.slots /\ n.gated = m.gated
      /\ n.owes = FALSE /\ n.waiting = m.waiting
  BY DEF IsState, Fields
<1>2. PICK chosen \in SUBSET m.waiting, seen \in SUBSET m.waiting :
        /\ \A j \in m.waiting \ (chosen \cup seen) :
               ~Closed(m, j) /\ ~Busy(m.active, j) =>
                   Busy(chosen, j) \/ ~Room(m, Cardinality(chosen \cap Boxed), j)
        /\ Settle(n, {j \in chosen : ~HasTask(m.queued[j])},
                     {j \in chosen : HasTask(m.queued[j])}, chosen \cup seen)
  BY DEF DrainWaiting
<1> DEFINE msgs == {j \in chosen : ~HasTask(m.queued[j])}
           tsks == {j \in chosen : HasTask(m.queued[j])}
<1>3. msgs \cup tsks = chosen /\ msgs \in SUBSET Jids /\ tsks \in SUBSET Jids
      /\ chosen \cup seen \in SUBSET Jids /\ Settle(n, msgs, tsks, chosen \cup seen)
  BY <1>2
<1> HIDE DEF n, msgs, tsks
<1>4. Cardinality(chosen \cap Boxed) \in Nat
  <2>1. chosen \in SUBSET Jids /\ chosen \cap {} = {}
    BY <1>3
  <2> QED BY <2>1, Slots
<1>5. ASSUME NEW j \in n.waiting \ (msgs \cup tsks \cup (chosen \cup seen))
      PROVE  MayWait(n, msgs \cup tsks, j)
  <2>1. CASE Closed(m, j) \/ Busy(m.active, j)
    BY <1>1, <2>1 DEF Closed, Busy, Blocked, MayWait
  <2>2. CASE Busy(chosen, j)
    BY <1>3, <2>2 DEF Busy, MayWait
  <2>3. CASE ~Room(m, Cardinality(chosen \cap Boxed), j)
    <3>1. j \in Boxed /\ ~(m.slots + Cardinality(chosen \cap Boxed) < limit)
      BY <2>3 DEF Room
    <3>2. m.slots + Cardinality(chosen \cap Boxed) >= limit
      BY <1>4, <3>1
    <3> QED BY <1>1, <1>3, <3>1, <3>2 DEF MayWait
  <2> QED BY <1>1, <1>2, <1>3, <2>1, <2>2, <2>3
<1> QED BY <1>1, <1>3, <1>5, SettleWakes

-----------------------------------------------------------------------------
(* The end of a runner                                                      *)

\* Inputs that runner j of `m' has not acknowledged are work of their jids in `n'.
Replayed(m, n, j) ==
    \A c \in m.owed[j] : ~shuttingDown /\ Folder[c] \notin terminalDiscardMutationKeys =>
        c \in n.pending \/ InQueue(Recovery, n.queued[c])

LEMMA RecoverSound ==
    ASSUME NEW m, NEW X, NEW rs, NEW ps, NEW j \in Jids,
           Sound(m, X, terminalDiscardMutationKeys, rs, ps)
    PROVE  /\ Sound(Recover(m, j), X, terminalDiscardMutationKeys, rs, ps)
           /\ SameRunners(m, Recover(m, j))
           /\ Recover(m, j).stop = m.stop /\ Recover(m, j).gated = m.gated
           /\ Recover(m, j).halted = m.halted /\ Recover(m, j).injected = m.injected
           /\ Recover(m, j).owes = m.owes
           /\ Recover(m, j).owed[j] = {} /\ Replayed(m, Recover(m, j), j)
           /\ \A c \in Recover(m, j).waiting \ m.waiting : Key(c) = Key(j) /\ c \in Jids
<1> DEFINE dead == terminalDiscardMutationKeys
           back == {c \in m.owed[j] : ~shuttingDown /\ Folder[c] \notin dead}
           fresh == {c \in back \cap Lanes : ~InQueue(Recovery, m.queued[c])}
           queues == [c \in Jids |-> IF c \in fresh THEN Append(m.queued[c], Recovery)
                                     ELSE m.queued[c]]
           n == Recover(m, j)
<1>c. /\ IsState(m) /\ Runners(m) /\ Parking(m) /\ Marks(m) /\ Timers(m, X) /\ Owed(m)
      /\ Deleted(m, dead) /\ Halted(m, rs, ps)
  BY DEF Sound
<1>1. CASE j \notin m.registered
  <2>1. n = m /\ m.owed[j] = {}
    BY <1>1, <1>c DEF Recover, Owed
  <2> QED BY <2>1 DEF SameRunners, Replayed
<1>2. CASE j \in m.registered
  <2>1. n = [m EXCEPT !.owed[j] = {}, !.pending = @ \cup (back \cap Chats),
                      !.queued = queues, !.waiting = @ \cup (back \cap Chats) \cup fresh]
    BY <1>2 DEF Recover
  <2>2. /\ back \subseteq Jids /\ back \subseteq m.owed[j] /\ fresh \subseteq back
        /\ queues \in [Jids -> Seq(Tasks)]
        /\ \A c \in Jids : /\ c \notin fresh => queues[c] = m.queued[c]
                           /\ c \in fresh => InQueue(Recovery, queues[c])
    <3>1. /\ back \subseteq Jids /\ back \subseteq m.owed[j] /\ fresh \subseteq back
      BY <1>c DEF Owed
    <3>2. ASSUME NEW c \in Jids
          PROVE  /\ queues[c] \in Seq(Tasks)
                 /\ c \notin fresh => queues[c] = m.queued[c]
                 /\ c \in fresh => InQueue(Recovery, queues[c])
      <4>1. m.queued[c] \in Seq(Tasks)
        BY <1>c DEF Parking
      <4>2. Append(m.queued[c], Recovery) \in Seq(Tasks)
        BY <4>1, Names
      <4>3. InQueue(Recovery, Append(m.queued[c], Recovery))
        <5> DEFINE q == Append(m.queued[c], Recovery)
        <5>1. Len(m.queued[c]) + 1 \in DOMAIN q /\ q[Len(m.queued[c]) + 1] = Recovery
          BY <4>1, Names
        <5> QED BY <5>1 DEF InQueue
      <4> QED BY <4>1, <4>2, <4>3
    <3> QED BY <3>1, <3>2
  <2>3. /\ \A c \in back : Folder[c] \notin dead /\ c \notin m.halted /\ Key(c) = Key(j)
        /\ \A c \in back : c \in Chats \/ c \in fresh \/ InQueue(Recovery, m.queued[c])
    BY <1>c, <2>2 DEF Halted, Owed, Jids
  <2> HIDE DEF back, fresh, queues, n
  <2>4. /\ IsState(n) /\ SameRunners(m, n) /\ n.stop = m.stop /\ n.injected = m.injected
        /\ n.stopped = m.stopped /\ n.owes = m.owes /\ n.halted = m.halted
        /\ n.gated = m.gated /\ n.retry = m.retry /\ n.tries = m.tries
        /\ n.owed = [m.owed EXCEPT ![j] = {}]
        /\ n.pending = m.pending \cup (back \cap Chats) /\ n.queued = queues
        /\ n.waiting = m.waiting \cup (back \cap Chats) \cup fresh
    BY <1>c, <2>1 DEF IsState, Fields, SameRunners
  <2>5. /\ n.owed \in [Jids -> SUBSET Jids] /\ n.owed[j] = {}
        /\ \A r \in Jids : n.owed[r] \subseteq m.owed[r]
    BY <1>c, <2>4 DEF Owed
  <2>6. Parking(n) /\ Marks(n)
    BY <1>c, <2>2, <2>4 DEF Parking, Marks
  <2>7. Timers(n, X) /\ Owed(n)
    BY <1>c, <2>4, <2>5 DEF Timers, Owed, SameRunners
  <2>8. Deleted(n, dead)
    BY <1>c, <2>2, <2>3, <2>4 DEF Deleted, SameRunners
  <2>9. Halted(n, rs, ps)
    <3>1. n.stop = m.stop /\ n.active = m.active /\ m.halted \subseteq Jids
      BY <1>c, <2>4 DEF SameRunners, Marks
    <3> QED BY <1>c, <2>2, <2>3, <2>4, <2>5, <3>1 DEF Halted
  <2>10. Sound(n, X, dead, rs, ps)
    BY <2>4, <2>6, <2>7, <2>8, <2>9, EditSound
  <2>11. Replayed(m, n, j)
    <3>1. ASSUME NEW c \in m.owed[j], ~shuttingDown, Folder[c] \notin dead
          PROVE  c \in n.pending \/ InQueue(Recovery, n.queued[c])
      <4>1. c \in back /\ c \in Jids
        BY <3>1, <2>2 DEF back
      <4> QED BY <2>2, <2>3, <2>4, <4>1
    <3> QED BY <3>1 DEF Replayed
  <2>12. \A c \in n.waiting \ m.waiting : Key(c) = Key(j) /\ c \in Jids
    BY <2>2, <2>3, <2>4
  <2> QED BY <2>4, <2>5, <2>10, <2>11, <2>12 DEF n
<1> QED BY <1>1, <1>2

Left(m, n, j) ==
    /\ n.active = m.active \ {j} /\ n.registered = m.registered \ {j}
    /\ n.slots = IF j \in Boxed THEN m.slots - 1 ELSE m.slots
    /\ n.gated = m.gated /\ n.halted = m.halted
    /\ n.pending = m.pending /\ n.queued = m.queued
    /\ n.waiting = m.waiting /\ n.owes = m.owes

LEMMA LeaveSound ==
    ASSUME NEW m, NEW dead, NEW rs, NEW ps, NEW j \in m.active,
           Sound(m, {j}, dead, rs, ps), m.owed[j] = {}
    PROVE  Sound(Leave(m, j), {}, dead, rs, ps) /\ Left(m, Leave(m, j), j)
<1> DEFINE n == Leave(m, j)
<1>c. /\ IsState(m) /\ Runners(m) /\ Parking(m) /\ Marks(m) /\ OneKey(m) /\ Counted(m)
      /\ Timers(m, {j}) /\ Owed(m) /\ Deleted(m, dead) /\ Halted(m, rs, ps)
  BY DEF Sound
<1>1. /\ IsState(n) /\ n.active = m.active \ {j} /\ n.registered = m.registered \ {j}
      /\ n.givingUp = m.givingUp \ {j} /\ n.job = [m.job EXCEPT ![j] = None]
      /\ n.slots = IF j \in Boxed THEN m.slots - 1 ELSE m.slots
      /\ n.gated = m.gated /\ n.halted = m.halted /\ n.pending = m.pending
      /\ n.queued = m.queued /\ n.waiting = m.waiting /\ n.retry = m.retry
      /\ n.tries = m.tries /\ n.stop = m.stop /\ n.injected = m.injected
      /\ n.owed = m.owed /\ n.stopped = m.stopped /\ n.owes = m.owes
  BY <1>c DEF Leave, IsState, Fields
<1> HIDE DEF n
<1>2. Runners(n)
  <2>1. n.job \in [Jids -> Jobs] /\ \A i \in Jids : n.job[i] = IF i = j THEN None ELSE m.job[i]
    BY <1>c, <1>1 DEF Runners, Jobs
  <2> QED BY <1>c, <1>1, <2>1 DEF Runners
<1>3. Parking(n) /\ Marks(n)
  BY <1>c, <1>1 DEF Parking, Marks
<1>4. OneKey(n)
  BY <1>c, <1>1 DEF OneKey
<1>5. Counted(n)
  <2>1. m.active \in SUBSET Jids
    BY <1>c DEF Runners
  <2>2. /\ Cardinality((m.active \ {j}) \cap Boxed) \in Nat
        /\ Cardinality((m.active \ {j}) \cap Boxed)
             = IF j \in Boxed THEN Cardinality(m.active \cap Boxed) - 1
               ELSE Cardinality(m.active \cap Boxed)
    BY <2>1, OneSlotLess
  <2> QED BY <1>c, <1>1, <2>2 DEF Counted
<1>6. Timers(n, {})
  BY <1>c, <1>1 DEF Timers
<1>7. Owed(n)
  BY <1>c, <1>1 DEF Owed
<1>8. Deleted(n, dead)
  BY <1>c, <1>1 DEF Deleted
<1>9. Halted(n, rs, ps)
  BY <1>c, <1>1 DEF Halted
<1> QED BY <1>1, <1>2, <1>3, <1>4, <1>5, <1>6, <1>7, <1>8, <1>9 DEF Sound, Left, n

\* drainGroup after the end of runner j of `q': it hands on the key and the slot.
LEMMA DrainGroupWakes ==
    ASSUME NEW q, NEW out, NEW dead, NEW rs, NEW ps, NEW j \in q.active,
           Runners(q), OneKey(q), Counted(q), Sound(out, {}, dead, rs, ps),
           out.active = q.active \ {j}, out.gated = q.gated, out.owes = q.owes,
           out.waiting = q.waiting,
           out.slots = IF j \in Boxed THEN q.slots - 1 ELSE q.slots,
           q.gated = Gated', ~shuttingDown, maxConcurrentContainers \in Nat,
           maxConcurrentContainers' = maxConcurrentContainers,
           Wake(q, maxConcurrentContainers), DrainGroup(out, j)
    PROVE  Wake(After, maxConcurrentContainers')
<1> DEFINE limit == maxConcurrentContainers
<1>1. /\ out.active = q.active \ {j} /\ out.gated = q.gated /\ out.waiting = q.waiting
      /\ out.slots = IF j \in Boxed THEN q.slots - 1 ELSE q.slots
      /\ out.owes = q.owes
  OBVIOUS
<1>2. /\ IsState(out) /\ out.slots \in Nat /\ q.slots \in Nat /\ out.waiting \subseteq Jids
      /\ q.active \subseteq Jids /\ OneKey(q)
  BY <1>1 DEF Sound, Counted, Parking, Runners
<1>j. j \in Jids /\ ~Busy(out.active, j)
  BY <1>1, <1>2 DEF OneKey, Busy
\* A waiter that j had blocked is of its key, or short of the slot it gave back.
<1>3. ASSUME NEW i \in q.waiting, ~out.owes
      PROVE  \/ Blocked(out, i, limit) \/ Key(i) = Key(j)
             \/ i \in Boxed /\ j \in Boxed /\ out.slots + 1 >= limit
  BY <1>1, <1>2, <1>3 DEF Wake, Blocked
<1>4. CASE \E n : Set(n) /\ n.owes = TRUE
  <2>1. owesWake' = TRUE
    BY <1>4 DEF Set, Settle
  <2> QED BY <2>1, AfterIsState DEF Wake
<1>5. CASE ~Room(out, 0, j) /\ Set([out EXCEPT !.waiting = @ \cup {j}])
  <2> DEFINE n == [out EXCEPT !.waiting = @ \cup {j}]
  <2>1. /\ n.active = out.active /\ n.slots = out.slots /\ n.gated = out.gated
        /\ n.owes = out.owes /\ n.waiting = out.waiting \cup {j}
    BY <1>2 DEF IsState, Fields
  <2>2. Set(n)
    BY <1>5
  <2> HIDE DEF n
  <2>3. j \in Boxed /\ out.slots >= limit
    BY <1>2, <1>5 DEF Room
  <2>4. ASSUME NEW i \in q.waiting \cup {j}, ~out.owes
        PROVE  Blocked(out, i, limit)
    <3>1. CASE Key(i) = Key(j)
      <4>1. i \in Boxed
        BY <1>1, <1>2, <1>j, <2>3, <3>1, KeyOfOneFolder
      <4> QED BY <2>3, <4>1 DEF Blocked
    <3>2. CASE i \in Boxed
      BY <2>3, <3>2 DEF Blocked
    <3> QED BY <1>3, <2>4, <3>1, <3>2
  <2>5. Wake(n, limit)
    BY <1>1, <2>1, <2>4 DEF Wake, Blocked
  <2> QED BY <1>1, <1>2, <2>1, <2>2, <2>5, SetWakes
\* The key and the slot go to j again.
<1>6. ASSUME NEW i \in out.waiting
      PROVE  MayWait(out, {j}, i)
  <2>1. CASE i \in Boxed /\ j \in Boxed /\ out.slots + 1 >= limit
    <3>1. {j} \cap Boxed = {j} /\ Cardinality({j}) = 1
      BY <2>1, FS_Singleton
    <3> QED BY <2>1, <3>1 DEF MayWait
  <2> QED BY <1>1, <1>3, <2>1 DEF MayWait
<1>7. CASE Settle(out, {}, {j}, {})
  <2>1. \A i \in out.waiting \ ({} \cup {j} \cup {}) : MayWait(out, {} \cup {j}, i)
    <3>1. {} \cup {j} = {j}
      OBVIOUS
    <3> QED BY <1>6, <3>1
  <2>2. {} \in SUBSET Jids /\ {j} \in SUBSET Jids /\ out.gated = Gated'
    BY <1>1, <1>j
  <2> QED BY <1>2, <1>7, <2>1, <2>2, SettleWakes, Zenon
<1>8. CASE Settle(out, {j}, {}, {j})
  <2>1. \A i \in out.waiting \ ({j} \cup {} \cup {j}) : MayWait(out, {j} \cup {}, i)
    <3>1. {j} \cup {} = {j}
      OBVIOUS
    <3> QED BY <1>6, <3>1
  <2>2. {} \in SUBSET Jids /\ {j} \in SUBSET Jids /\ out.gated = Gated'
    BY <1>1, <1>j
  <2> QED BY <1>2, <1>8, <2>1, <2>2, SettleWakes, Zenon
<1>9. CASE DrainWaiting(Collect([out EXCEPT !.waiting = @ \ {j}, !.queued[j] = <<>>], j))
  <2> DEFINE n == [out EXCEPT !.waiting = @ \ {j}, !.queued[j] = <<>>]
             c == Collect(n, j)
  <2>1. /\ IsState(n) /\ n.slots = out.slots /\ n.gated = out.gated
        /\ n.waiting = out.waiting \ {j}
    BY <1>2 DEF IsState, Fields
  <2>2. DrainWaiting(c)
    BY <1>9
  <2> HIDE DEF n
  <2>3. /\ IsState(c) /\ c.slots = n.slots /\ c.gated = n.gated /\ c.waiting = n.waiting
    <3>1. CASE c = n
      BY <2>1, <3>1
    <3>2. CASE c = [n EXCEPT !.tries[j] = 0, !.stop = @ \ {j}, !.injected = @ \ {j},
                             !.owed[j] = {}]
      <4> HIDE DEF c
      <4> QED BY <2>1, <3>2 DEF IsState, Fields
    <3> QED BY <3>1, <3>2 DEF Collect
  <2> HIDE DEF c
  <2> QED BY <1>1, <1>2, <2>1, <2>2, <2>3, DrainWaitingWakes
<1>10. CASE Closed(out, j)
  <2> DEFINE n == [out EXCEPT !.owes = TRUE,
                       !.waiting = IF HasWork(out, j) THEN @ \cup {j} ELSE @]
  <2>1. Set(n)
    BY <1>10 DEF DrainGroup
  <2>2. n.owes = TRUE
    BY <1>2 DEF IsState, Fields
  <2> HIDE DEF n
  <2> QED BY <1>4, <2>1, <2>2
<1> QED BY <1>j, <1>5, <1>7, <1>8, <1>9, <1>10 DEF DrainGroup

\* What the end of runner j of `m' does: what Handed says, with its inputs replayed.
Ended(m, j) ==
    /\ m.active \ {j} \subseteq active' /\ registered' = m.registered \ {j}
    /\ halted' = m.halted
    /\ \A k \in active' \ (m.active \ {j}) :
           Folder[k] \notin m.gated \cup terminalDiscardMutationKeys /\ k \notin m.halted
    /\ activeContainerCount' > m.slots => activeContainerCount' <= maxConcurrentContainers
    /\ cancelled \subseteq Scheduled /\ ~shuttingDown => \A c \in m.owed[j] :
           Folder[c] \notin terminalDiscardMutationKeys =>
               c \in pendingMessages' \cup active' \/ pendingTasks'[c] # <<>>

LEMMA HandedEnds ==
    ASSUME NEW m, NEW r, NEW out, NEW j \in Jids, m.slots \in Nat, m.owed[j] \subseteq Jids,
           SameRunners(m, r), r.gated = m.gated, r.halted = m.halted, Replayed(m, r, j),
           out.active = m.active \ {j}, out.registered = m.registered \ {j},
           out.slots = IF j \in Boxed THEN m.slots - 1 ELSE m.slots,
           out.gated = m.gated, out.halted = m.halted,
           r.pending \subseteq out.pending, out.queued = r.queued,
           Handed(out, terminalDiscardMutationKeys)
    PROVE  Ended(m, j)
<1>1. ASSUME cancelled \subseteq Scheduled, ~shuttingDown, NEW c \in m.owed[j],
             Folder[c] \notin terminalDiscardMutationKeys
      PROVE  c \in pendingMessages' \cup active' \/ pendingTasks'[c] # <<>>
  <2>1. c \in r.pending \/ InQueue(Recovery, r.queued[c])
    BY <1>1 DEF Replayed
  <2> QED BY <1>1, <2>1 DEF Handed
<1>2. activeContainerCount' > m.slots => activeContainerCount' <= maxConcurrentContainers
  BY DEF Handed
<1> QED BY <1>1, <1>2 DEF Ended, Handed

LEMMA LeaveRunnerSound ==
    ASSUME NEW m, NEW j \in m.active, maxConcurrentContainers \in Nat,
           cancelled \subseteq Scheduled,
           Sound(m, {j}, terminalDiscardMutationKeys, restarts, mutationPreserveStopJids),
           m.gated = Gated', maxConcurrentContainers' = maxConcurrentContainers,
           ~shuttingDown => Wake(m, maxConcurrentContainers),
           LeaveRunner(m, j)
    PROVE  /\ Sound(After, {}, terminalDiscardMutationKeys, restarts,
                    mutationPreserveStopJids)
           /\ Ended(m, j)
           /\ ~shuttingDown => Wake(After, maxConcurrentContainers')
<1> DEFINE dead == terminalDiscardMutationKeys
           rs == restarts
           ps == mutationPreserveStopJids
           limit == maxConcurrentContainers
           r == Recover(m, j)
<1>c. /\ IsState(m) /\ Runners(m) /\ Parking(m) /\ Marks(m) /\ Counted(m) /\ Owed(m)
      /\ Deleted(m, dead) /\ Halted(m, rs, ps)
  BY DEF Sound
<1>j. j \in Jids /\ Folder[j] \notin dead /\ m.slots \in Nat /\ m.owed[j] \subseteq Jids
  BY <1>c DEF Runners, Deleted, Counted, Owed
<1>r. /\ Sound(r, {j}, dead, rs, ps) /\ SameRunners(m, r)
      /\ r.stop = m.stop /\ r.gated = m.gated /\ r.halted = m.halted
      /\ r.injected = m.injected /\ r.owed[j] = {} /\ Replayed(m, r, j)
      /\ r.owes = m.owes /\ \A c \in r.waiting \ m.waiting : Key(c) = Key(j) /\ c \in Jids
  <2>1. Sound(m, {j}, dead, rs, ps)
    OBVIOUS
  <2> HIDE DEF rs, ps
  <2> QED BY <1>j, <2>1, RecoverSound
<1> HIDE DEF r
\* The inputs that wait again are blocked by j.
<1>w. ~shuttingDown => Wake(r, limit)
  <2>1. \A c \in r.waiting \ m.waiting : Blocked(m, c, limit)
    BY <1>r DEF Blocked
  <2> QED BY <1>r, <2>1, WaitersBlocked DEF SameRunners
\* The last step: with the runner gone, the group is drained or it is not.
<1>1. ASSUME NEW q, Sound(q, {j}, dead, rs, ps), SameRunners(m, q), q.owed[j] = {},
             q.gated = m.gated, q.halted = m.halted,
             r.pending \subseteq q.pending, q.queued = r.queued,
             ~shuttingDown => Wake(q, limit),
             \/ DrainGroup(Leave(q, j), j)
             \/ Set([Leave(q, j) EXCEPT !.owes = TRUE])
      PROVE  /\ Sound(After, {}, dead, rs, ps) /\ Ended(m, j)
             /\ ~shuttingDown => Wake(After, maxConcurrentContainers')
  <2> DEFINE out == Leave(q, j)
  <2>1. /\ Sound(out, {}, dead, rs, ps) /\ out.active = m.active \ {j}
        /\ out.registered = m.registered \ {j}
        /\ out.slots = IF j \in Boxed THEN m.slots - 1 ELSE m.slots
        /\ out.gated = m.gated /\ out.halted = m.halted
        /\ out.pending = q.pending /\ out.queued = q.queued
        /\ out.waiting = q.waiting /\ out.owes = q.owes
    <3>1. j \in q.active
      BY <1>1 DEF SameRunners
    <3>2. Sound(q, {j}, dead, rs, ps) /\ q.owed[j] = {}
      BY <1>1
    <3>3. q.active = m.active /\ q.registered = m.registered /\ q.slots = m.slots
      BY <1>1 DEF SameRunners
    <3>4. Sound(Leave(q, j), {}, dead, rs, ps) /\ Left(q, Leave(q, j), j)
      <4> HIDE DEF out
      <4> QED BY <3>1, <3>2, LeaveSound
    <3>5. q.gated = m.gated /\ q.halted = m.halted
      BY <1>1
    <3> HIDE DEF dead, rs, ps
    <3> QED BY <3>3, <3>4, <3>5 DEF Left
  <2> HIDE DEF out
  <2>2. CASE DrainGroup(out, j)
    <3>1. j \notin out.active /\ {} \cap out.active = {}
      BY <2>1
    <3>2. Sound(After, {}, dead, rs, ps) /\ Handed(out, dead)
      BY <1>j, <2>1, <2>2, <3>1, DrainGroupSound
    <3>3. Ended(m, j)
      BY <1>1, <1>j, <1>r, <2>1, <3>2, HandedEnds
    <3>4. ASSUME ~shuttingDown
          PROVE  Wake(After, maxConcurrentContainers')
      <4>1. /\ Runners(q) /\ OneKey(q) /\ Counted(q) /\ Wake(q, limit) /\ q.gated = Gated'
            /\ j \in q.active
        BY <1>1, <3>4 DEF Sound, SameRunners
      <4>2. /\ Sound(out, {}, dead, rs, ps) /\ out.active = q.active \ {j}
            /\ out.gated = q.gated /\ out.owes = q.owes /\ out.waiting = q.waiting
            /\ out.slots = IF j \in Boxed THEN q.slots - 1 ELSE q.slots
        BY <1>1, <2>1 DEF SameRunners
      <4> QED BY <2>2, <3>4, <4>1, <4>2, DrainGroupWakes
    <3> QED BY <3>2, <3>3, <3>4
  <2>3. CASE Set([out EXCEPT !.owes = TRUE])
    <3> DEFINE w == [out EXCEPT !.owes = TRUE]
    <3>0. Parking(out) /\ IsState(out)
      BY <2>1 DEF Sound
    <3>1. /\ IsState(w) /\ SameRunners(out, w) /\ SameMarks(out, w) /\ w.retry = out.retry
          /\ w.tries = out.tries /\ w.owes = TRUE /\ w.pending = out.pending
          /\ w.waiting = out.waiting /\ w.queued = out.queued
      BY <3>0 DEF IsState, Fields, SameRunners, SameMarks
    <3>2. Set(w)
      BY <2>3
    <3> HIDE DEF w
    <3>3. Sound(w, {}, dead, rs, ps)
      BY <2>1, <3>0, <3>1, ParkSound DEF Parking
    <3>4. Sound(After, {}, dead, rs, ps) /\ Handed(w, dead)
      BY <3>2, <3>3, SetSound
    <3>5. /\ w.active = m.active \ {j} /\ w.registered = m.registered \ {j}
          /\ w.slots = IF j \in Boxed THEN m.slots - 1 ELSE m.slots
          /\ w.gated = m.gated /\ w.halted = m.halted
      BY <2>1, <3>1 DEF SameRunners, SameMarks
    <3>6. Ended(m, j)
      BY <1>1, <1>j, <1>r, <2>1, <3>1, <3>4, <3>5, HandedEnds
    <3>7. owesWake' = TRUE
      BY <3>1, <3>2 DEF Set, Settle
    <3>8. Wake(After, maxConcurrentContainers')
      BY <3>7, AfterIsState DEF Wake
    <3> QED BY <3>4, <3>6, <3>8
  <2> QED BY <1>1, <2>2, <2>3 DEF out
<1>2. CASE LeaveTask(m, j)
  <2>1. \/ DrainGroup(Leave(r, j), j)
        \/ Set([Leave(r, j) EXCEPT !.owes = TRUE])
    BY <1>2 DEF LeaveTask, r
  <2> QED BY <1>1, <1>r, <1>w, <2>1
<1>3. CASE LeaveMessages(m, j)
  <2> DEFINE goesOn == \/ ~(j \in m.stop \/ (j \in m.registered /\ Folder[j] \in m.stopped))
                       \/ j \in mutationPreserveStopJids
             p == IF j \in r.injected /\ goesOn THEN r.pending \cup {j} ELSE r.pending
             q == [r EXCEPT !.injected = @ \ {j},
                            !.pending = IF j \in r.injected /\ goesOn
                                        THEN @ \cup {j} ELSE @]
  <2>1. \/ DrainGroup(Leave(q, j), j)
        \/ Set([Leave(q, j) EXCEPT !.owes = TRUE])
    BY <1>3 DEF LeaveMessages, r
  <2>2. goesOn => j \notin m.halted
    <3>1. j \in m.halted => j \in m.stop /\ j \notin mutationPreserveStopJids
      BY <1>c DEF Halted
    <3> QED BY <3>1
  <2>3. /\ p \subseteq Jids /\ r.pending \subseteq p /\ p \subseteq r.pending \cup {j}
        /\ j \in p => j \in r.pending \/ j \notin m.halted
    BY <1>j, <1>r, <2>2 DEF Sound, Parking
  <2>4. IsState(r) /\ Parking(r) /\ Marks(r) /\ Timers(r, {j}) /\ Owed(r)
        /\ Deleted(r, dead) /\ Halted(r, rs, ps)
    BY <1>r DEF Sound
  <2>5. /\ IsState(q) /\ SameRunners(r, q) /\ q.injected = r.injected \ {j}
        /\ q.pending = p /\ q.queued = r.queued /\ q.waiting = r.waiting
        /\ q.retry = r.retry /\ q.tries = r.tries /\ q.stop = r.stop
        /\ q.stopped = r.stopped /\ q.owes = r.owes /\ q.owed = r.owed
        /\ q.halted = r.halted /\ q.gated = r.gated
    <3> HIDE DEF goesOn
    <3> QED BY <2>4 DEF IsState, Fields, SameRunners
  <2> HIDE DEF p, q, goesOn
  <2>6. Parking(q) /\ Marks(q) /\ Timers(q, {j}) /\ Owed(q)
    BY <2>3, <2>4, <2>5 DEF Parking, Marks, Timers, Owed, SameRunners
  <2>7. Deleted(q, dead)
    BY <1>j, <2>3, <2>4, <2>5 DEF Deleted, SameRunners
  <2>8. Halted(q, rs, ps)
    BY <1>r, <2>3, <2>4, <2>5 DEF Halted, SameRunners
  <2>9. Sound(q, {j}, dead, rs, ps)
    BY <1>r, <2>5, <2>6, <2>7, <2>8, EditSound
  <2>10. ~shuttingDown => Wake(q, limit)
    BY <1>w, <2>5, WaitersBlocked DEF SameRunners
  <2> QED BY <1>1, <1>r, <2>1, <2>3, <2>5, <2>9, <2>10 DEF SameRunners
<1> QED BY <1>2, <1>3 DEF LeaveRunner

-----------------------------------------------------------------------------
(* The invariant                                                            *)

GateTypes ==
    /\ mutationPauseCounts \in [Folders -> 0..MaxPauses]
    /\ runtimeSafetyBlocks \subseteq Folders
    /\ terminalDiscardMutationKeys \subseteq Folders
    /\ mutationPreserveStopJids \subseteq Jids
    /\ mutationStoppedFolders \subseteq Folders
    /\ restarts \subseteq Jids \X Jids
    /\ maxConcurrentContainers \in 1..MaxLimit
    /\ cancelled \subseteq Scheduled
    /\ shuttingDown \in BOOLEAN

GroupsSound == Sound(Now, {}, terminalDiscardMutationKeys, restarts,
                     mutationPreserveStopJids)
Woken == ~shuttingDown => Wake(Now, maxConcurrentContainers)
QueueIInv == GateTypes /\ GroupsSound /\ Woken

SoundAfter == Sound(After, {}, terminalDiscardMutationKeys', restarts',
                    mutationPreserveStopJids')
WokenAfter == ~shuttingDown' => Wake(After, maxConcurrentContainers')

\* What the action properties say of a step.
Orderly ==
    /\ \A j \in Jids : Started(j) =>
           /\ Folder[j] \notin Gated' \cup terminalDiscardMutationKeys'
           /\ j \notin halted \cap halted'
    /\ activeContainerCount' > activeContainerCount =>
           activeContainerCount' <= maxConcurrentContainers'
    /\ \A r \in active : \A c \in pendingIpcDeliveries[r] :
           /\ r \notin active' \/ (r \in registered /\ r \notin registered')
           /\ ~shuttingDown /\ Folder[c] \notin terminalDiscardMutationKeys
           => c \in pendingMessages' \cup active' \/ pendingTasks'[c] # <<>>

LEMMA NowIsState ==
    /\ IsState(Now)
    /\ Now.active = active /\ Now.registered = registered
    /\ Now.givingUp = givingUp /\ Now.job = job
    /\ Now.pending = pendingMessages /\ Now.queued = pendingTasks
    /\ Now.retry = retryTimer /\ Now.tries = retryCount
    /\ Now.stop = stopRequested /\ Now.injected = hasIpcInjectedMessages
    /\ Now.owed = pendingIpcDeliveries /\ Now.waiting = waitingGroups
    /\ Now.slots = activeContainerCount /\ Now.stopped = recentlyStoppedFolders
    /\ Now.owes = owesWake /\ Now.halted = halted /\ Now.gated = Gated
  BY DEF Now, IsState, Fields

LEMMA NextIsAfter ==
    ASSUME GateTypes', SoundAfter, WokenAfter
    PROVE  QueueIInv'
<1>1. Now' = After
  BY DEF Now, After
<1>2. GroupsSound' /\ Woken'
  BY <1>1 DEF GroupsSound, Woken, SoundAfter, WokenAfter
<1> QED BY <1>2 DEF QueueIInv

LEMMA InvFacts ==
    ASSUME QueueIInv
    PROVE  /\ Runners(Now) /\ Parking(Now) /\ Marks(Now) /\ OneKey(Now) /\ Counted(Now)
           /\ Timers(Now, {}) /\ Owed(Now)
           /\ Deleted(Now, terminalDiscardMutationKeys)
           /\ Halted(Now, restarts, mutationPreserveStopJids)
           /\ maxConcurrentContainers \in Nat /\ cancelled \subseteq Scheduled
           /\ activeContainerCount \in Nat
           /\ ~shuttingDown => Wake(Now, maxConcurrentContainers)
<1>1. maxConcurrentContainers \in Nat /\ cancelled \subseteq Scheduled
  BY QueueAssumption DEF QueueIInv, GateTypes
<1>2. activeContainerCount \in Nat
  BY NowIsState DEF QueueIInv, GroupsSound, Sound, Counted
<1> QED BY <1>1, <1>2 DEF QueueIInv, GroupsSound, Sound, Woken

-----------------------------------------------------------------------------
(* The kinds of steps                                                       *)

LEMMA QuietStep ==
    ASSUME QueueIInv, active' = active, registered \subseteq registered',
           activeContainerCount' = activeContainerCount
    PROVE  Orderly
<1>1. activeContainerCount \in Nat /\ active \subseteq Jids
  BY InvFacts, NowIsState DEF Runners
<1> QED BY <1>1 DEF Orderly, Started

\* A handler that ends in a Settle of `m'.
LEMMA HandedStep ==
    ASSUME QueueIInv, NEW m, SameRunners(Now, m), m.gated = Gated',
           terminalDiscardMutationKeys' = terminalDiscardMutationKeys,
           maxConcurrentContainers' = maxConcurrentContainers,
           Handed(m, terminalDiscardMutationKeys)
    PROVE  Orderly
<1>1. /\ m.active = active /\ m.registered = registered /\ m.slots = activeContainerCount
      /\ activeContainerCount \in Nat
  BY InvFacts, NowIsState DEF SameRunners
<1>2. /\ active \subseteq active' /\ registered' = registered /\ halted' = m.halted
      /\ \A j \in active' \ active : /\ Folder[j] \notin Gated' \cup terminalDiscardMutationKeys
                                     /\ j \notin halted'
      /\ \/ activeContainerCount' = activeContainerCount
         \/ activeContainerCount' <= maxConcurrentContainers
  BY <1>1 DEF Handed
<1>3. \A j \in Jids : Started(j) => j \in active' \ active
  BY <1>2 DEF Started
<1> QED BY <1>1, <1>2, <1>3 DEF Orderly

\* The end of runner j of `m'.
LEMMA EndedStep ==
    ASSUME QueueIInv, NEW m, NEW j \in active, SameRunners(Now, m),
           m.gated = Gated', m.halted = halted, m.owed = pendingIpcDeliveries,
           terminalDiscardMutationKeys' = terminalDiscardMutationKeys,
           maxConcurrentContainers' = maxConcurrentContainers, Ended(m, j)
    PROVE  Orderly
<1>1. /\ m.active = active /\ m.registered = registered /\ m.slots = activeContainerCount
      /\ activeContainerCount \in Nat
  BY InvFacts, NowIsState DEF SameRunners
<1>2. /\ active \ {j} \subseteq active' /\ registered' = registered \ {j}
      /\ \A k \in active' \ (active \ {j}) :
             Folder[k] \notin Gated' \cup terminalDiscardMutationKeys /\ k \notin halted
      /\ activeContainerCount' > activeContainerCount =>
             activeContainerCount' <= maxConcurrentContainers
  BY <1>1 DEF Ended
<1>3. \A k \in Jids : Started(k) => k \in active' \ (active \ {j})
  BY <1>2 DEF Started
<1>4. ASSUME NEW r \in active, NEW c \in pendingIpcDeliveries[r],
             r \notin active' \/ (r \in registered /\ r \notin registered'),
             ~shuttingDown, Folder[c] \notin terminalDiscardMutationKeys
      PROVE  c \in pendingMessages' \cup active' \/ pendingTasks'[c] # <<>>
  <2>1. r = j
    BY <1>2, <1>4
  <2>2. cancelled \subseteq Scheduled
    BY InvFacts
  <2> QED BY <1>4, <2>1, <2>2 DEF Ended
<1> QED BY <1>2, <1>3, <1>4 DEF Orderly

\* A handler that starts and ends nothing.
LEMMA EditStep ==
    ASSUME QueueIInv, NEW n, IsState(n), SameRunners(Now, n), Set(n),
           Parking(n), Marks(n), Timers(n, {}), Owed(n),
           Deleted(n, terminalDiscardMutationKeys'),
           Halted(n, restarts', mutationPreserveStopJids'),
           n.gated = Gated', ~shuttingDown' => Wake(n, maxConcurrentContainers')
    PROVE  SoundAfter /\ WokenAfter /\ Orderly
<1> DEFINE dead == terminalDiscardMutationKeys'
           rs == restarts'
           ps == mutationPreserveStopJids'
<1>1. Sound(n, {}, dead, rs, ps)
  BY EditSound DEF QueueIInv, GroupsSound
<1>2. SoundAfter
  <2>1. Sound(n, {}, dead, rs, ps) /\ {} \cap n.active = {}
    BY <1>1
  <2> HIDE DEF dead, rs, ps
  <2>2. Sound(After, {}, dead, rs, ps)
    BY <2>1, SetSound
  <2> QED BY <2>2 DEF SoundAfter, dead, rs, ps
<1>3. /\ active' = n.active /\ registered' = n.registered /\ owesWake' = n.owes
      /\ waitingGroups' = n.waiting
      /\ activeContainerCount' = n.slots
  <2>1. n.slots \in Nat
    BY <1>1 DEF Sound, Counted
  <2>2. ({} \cup {}) \cap Boxed = {} /\ Cardinality({}) = 0
    BY FS_EmptySet
  <2>3. activeContainerCount' = n.slots + Cardinality(({} \cup {}) \cap Boxed)
    BY DEF Set, Settle
  <2> QED BY <2>1, <2>2, <2>3 DEF Set, Settle
<1>4. WokenAfter
  BY <1>3, AfterIsState DEF WokenAfter, Wake, Blocked
<1>5. Orderly
  BY <1>3, NowIsState, QuietStep DEF SameRunners
<1> QED BY <1>2, <1>4, <1>5

\* A step that leaves the groups alone.
LEMMA UnchangedStep ==
    ASSUME QueueIInv, UNCHANGED groupVars,
           Deleted(Now, terminalDiscardMutationKeys'),
           Halted(Now, restarts', mutationPreserveStopJids'),
           ~shuttingDown' => ~shuttingDown, Gated \subseteq Gated',
           maxConcurrentContainers' = maxConcurrentContainers
    PROVE  SoundAfter /\ WokenAfter /\ Orderly
<1>1. /\ After.active = active /\ After.registered = registered
      /\ After.givingUp = givingUp /\ After.job = job
      /\ After.pending = pendingMessages /\ After.queued = pendingTasks
      /\ After.retry = retryTimer /\ After.tries = retryCount
      /\ After.stop = stopRequested /\ After.injected = hasIpcInjectedMessages
      /\ After.owed = pendingIpcDeliveries /\ After.waiting = waitingGroups
      /\ After.slots = activeContainerCount /\ After.stopped = recentlyStoppedFolders
      /\ After.owes = owesWake /\ After.halted = halted /\ After.gated = Gated'
  BY AfterIsState DEF groupVars
<1>2. /\ IsState(After) /\ SameRunners(Now, After) /\ Parking(After) /\ Marks(After)
      /\ Timers(After, {}) /\ Owed(After)
  BY <1>1, AfterIsState, NowIsState, InvFacts
     DEF SameRunners, Parking, Marks, Timers, Owed
<1>3. /\ Deleted(After, terminalDiscardMutationKeys')
      /\ Halted(After, restarts', mutationPreserveStopJids')
  BY <1>1, NowIsState DEF Deleted, Halted
<1>4. SoundAfter
  BY <1>2, <1>3, EditSound DEF QueueIInv, GroupsSound, SoundAfter
<1>5. WokenAfter
  BY <1>1, NowIsState, InvFacts DEF WokenAfter, Wake, Blocked
<1>6. Orderly
  BY QuietStep DEF groupVars
<1> QED BY <1>4, <1>5, <1>6

-----------------------------------------------------------------------------
(* The end of a runner, and the handlers that start runners, as steps        *)

LEMMA ClearedSound ==
    ASSUME NEW m, NEW js, NEW dead, NEW rs, NEW ps, Sound(m, {}, dead, rs, ps)
    PROVE  /\ Sound(Cleared(m, js), {}, dead, rs, ps)
           /\ SameRunners(m, Cleared(m, js)) /\ SameMarks(m, Cleared(m, js))
           /\ Cleared(m, js).pending = m.pending /\ Cleared(m, js).queued = m.queued
           /\ Cleared(m, js).waiting = m.waiting /\ Cleared(m, js).owes = m.owes
           /\ \A i \in Jids : /\ Cleared(m, js).retry[i] = IF i \in js THEN None ELSE m.retry[i]
                              /\ Cleared(m, js).tries[i] = IF i \in js THEN 0 ELSE m.tries[i]
<1> DEFINE n == Cleared(m, js)
<1>c. /\ IsState(m) /\ Runners(m) /\ Parking(m) /\ Marks(m) /\ Timers(m, {}) /\ Owed(m)
      /\ Deleted(m, dead) /\ Halted(m, rs, ps)
  BY DEF Sound
<1>1. /\ IsState(n) /\ SameRunners(m, n) /\ SameMarks(m, n)
      /\ n.pending = m.pending /\ n.queued = m.queued /\ n.waiting = m.waiting
      /\ n.owes = m.owes
      /\ n.retry = [i \in Jids |-> IF i \in js THEN None ELSE m.retry[i]]
      /\ n.tries = [i \in Jids |-> IF i \in js THEN 0 ELSE m.tries[i]]
  BY <1>c DEF Cleared, IsState, Fields, SameRunners, SameMarks
<1> HIDE DEF n
<1>2. Parking(n)
  <2>1. None \in Jobs \ Scheduled /\ 0 \in 0..MaxRetries
    BY Names, QueueAssumption DEF Jobs
  <2> QED BY <1>c, <1>1, <2>1 DEF Parking
<1>3. Marks(n) /\ Timers(n, {}) /\ Owed(n)
  BY <1>c, <1>1 DEF Marks, Timers, Owed, SameRunners, SameMarks
<1>4. Deleted(n, dead) /\ Halted(n, rs, ps)
  <2>1. \A i \in Jids : m.retry[i] = None => n.retry[i] = None
    BY <1>1
  <2>2. m.halted \subseteq Jids
    BY <1>c DEF Marks
  <2>3. Deleted(n, dead)
    BY <1>c, <1>1, <2>1 DEF Deleted, SameRunners
  <2>4. Halted(n, rs, ps)
    BY <1>c, <1>1, <2>1, <2>2 DEF Halted, SameRunners, SameMarks
  <2> QED BY <2>3, <2>4
<1>5. Sound(n, {}, dead, rs, ps)
  BY <1>1, <1>2, <1>3, <1>4, EditSound
<1> QED BY <1>1, <1>5 DEF n

LEMMA EndStep ==
    ASSUME QueueIInv, NEW m, NEW j \in active, SameRunners(Now, m), SameMarks(Now, m),
           Sound(m, {j}, terminalDiscardMutationKeys, restarts, mutationPreserveStopJids),
           m.waiting = waitingGroups, m.owes = owesWake, LeaveRunner(m, j),
           UNCHANGED <<gateVars, restarts, settingVars>>
    PROVE  SoundAfter /\ WokenAfter /\ Orderly
<1>1. /\ m.active = active /\ m.gated = Gated /\ m.halted = halted
      /\ m.owed = pendingIpcDeliveries /\ j \in m.active
  BY NowIsState DEF SameRunners, SameMarks
<1>2. /\ Gated' = Gated /\ terminalDiscardMutationKeys' = terminalDiscardMutationKeys
      /\ restarts' = restarts /\ mutationPreserveStopJids' = mutationPreserveStopJids
      /\ maxConcurrentContainers' = maxConcurrentContainers
      /\ shuttingDown' = shuttingDown
  BY DEF gateVars, settingVars, Gated
<1>3. ~shuttingDown => Wake(m, maxConcurrentContainers)
  <2>1. ~shuttingDown => Wake(Now, maxConcurrentContainers)
    BY InvFacts
  <2> QED BY <2>1, NowIsState, WaitersBlocked DEF SameRunners, SameMarks
<1>4. /\ Sound(After, {}, terminalDiscardMutationKeys, restarts, mutationPreserveStopJids)
      /\ Ended(m, j)
      /\ ~shuttingDown => Wake(After, maxConcurrentContainers')
  BY <1>1, <1>2, <1>3, InvFacts, LeaveRunnerSound
<1>5. Orderly
  BY <1>1, <1>2, <1>4, EndedStep
<1> QED BY <1>2, <1>4, <1>5 DEF SoundAfter, WokenAfter

LEMMA HandlerStep ==
    ASSUME QueueIInv, NEW m, SameRunners(Now, m), m.gated = Gated',
           Sound(m, {}, terminalDiscardMutationKeys, restarts', mutationPreserveStopJids'),
           terminalDiscardMutationKeys' = terminalDiscardMutationKeys,
           maxConcurrentContainers' = maxConcurrentContainers,
           shuttingDown' = shuttingDown,
           \/ DrainWaiting(m)
           \/ /\ ~shuttingDown => Wake(m, maxConcurrentContainers)
              /\ \/ Set(m)
                 \/ \E j \in Jids : j \notin m.halted /\ MessageCheck(m, j)
                 \/ \E j \in Jids, t \in Tasks : j \notin m.halted /\ t \notin cancelled
                                                  /\ TaskCheck(m, j, t)
    PROVE  SoundAfter /\ WokenAfter /\ Orderly
<1> DEFINE dead == terminalDiscardMutationKeys
           rs == restarts'
           ps == mutationPreserveStopJids'
<1>1. /\ maxConcurrentContainers \in Nat /\ {} \cap m.active = {} /\ IsState(m)
      /\ m.slots \in Nat /\ m.waiting \subseteq Jids
  BY InvFacts DEF Sound, Counted, Parking
<1>2. ASSUME Sound(After, {}, dead, rs, ps), Handed(m, dead),
             ~shuttingDown => Wake(After, maxConcurrentContainers')
      PROVE  SoundAfter /\ WokenAfter /\ Orderly
  BY <1>2, HandedStep DEF SoundAfter, WokenAfter
<1>3. Sound(m, {}, dead, rs, ps)
  OBVIOUS
<1>4. CASE DrainWaiting(m)
  <2>1. Sound(After, {}, dead, rs, ps) /\ Handed(m, dead)
    <3> HIDE DEF dead, rs, ps
    <3> QED BY <1>1, <1>3, <1>4, DrainWaitingSound
  <2> QED BY <1>1, <1>2, <1>4, <2>1, DrainWaitingWakes
<1>5. CASE ~shuttingDown => Wake(m, maxConcurrentContainers)
  <2>1. CASE Set(m)
    <3>1. Sound(After, {}, dead, rs, ps) /\ Handed(m, dead)
      <4> HIDE DEF dead, rs, ps
      <4> QED BY <1>1, <1>3, <2>1, SetSound
    <3> QED BY <1>1, <1>2, <1>5, <2>1, <3>1, SetWakes
  <2>2. ASSUME NEW j \in Jids, j \notin m.halted, MessageCheck(m, j)
        PROVE  SoundAfter /\ WokenAfter /\ Orderly
    <3>1. Sound(After, {}, dead, rs, ps) /\ Handed(m, dead)
      <4> HIDE DEF rs, ps
      <4> QED BY <1>1, <1>3, <2>2, MessageCheckSound
    <3> QED BY <1>1, <1>2, <1>5, <2>2, <3>1, MessageCheckWakes
  <2>3. ASSUME NEW j \in Jids, NEW t \in Tasks, j \notin m.halted, t \notin cancelled,
               TaskCheck(m, j, t)
        PROVE  SoundAfter /\ WokenAfter /\ Orderly
    <3>1. Sound(After, {}, dead, rs, ps) /\ Handed(m, dead)
      <4> HIDE DEF rs, ps
      <4> QED BY <1>1, <1>3, <2>3, InvFacts, TaskCheckSound
    <3> QED BY <1>1, <1>2, <1>5, <2>3, <3>1, TaskCheckWakes
  <2> QED BY <1>4, <2>1, <2>2, <2>3
<1> QED BY <1>4, <1>5

-----------------------------------------------------------------------------
(* Runners end, timers fire, work arrives                                   *)

\* What stays when neither gates nor settings change.
LEMMA SameGates ==
    ASSUME UNCHANGED <<gateVars, settingVars>>
    PROVE  /\ Gated' = Gated /\ terminalDiscardMutationKeys' = terminalDiscardMutationKeys
           /\ mutationPreserveStopJids' = mutationPreserveStopJids
           /\ maxConcurrentContainers' = maxConcurrentContainers
           /\ shuttingDown' = shuttingDown
  BY DEF gateVars, settingVars, Gated

\* The runner's own retry timer may be armed while it ends.
LEMMA Excepted ==
    ASSUME NEW m, NEW X, NEW dead, NEW rs, NEW ps, Sound(m, {}, dead, rs, ps)
    PROVE  Sound(m, X, dead, rs, ps)
  BY DEF Sound, Timers

LEMMA EndsPlainly ==
    ASSUME QueueIInv, NEW j \in active, UNCHANGED <<gateVars, restarts, settingVars>>,
           LeaveRunner(Now, j) \/ LeaveRunner(Cleared(Now, {j}), j)
    PROVE  SoundAfter /\ WokenAfter /\ Orderly
<1> DEFINE dead == terminalDiscardMutationKeys
           rs == restarts
           ps == mutationPreserveStopJids
<1>1. Sound(Now, {}, dead, rs, ps)
  BY DEF QueueIInv, GroupsSound
<1>2. Sound(Now, {j}, dead, rs, ps)
  <2> HIDE DEF dead, rs, ps
  <2> QED BY <1>1, Excepted
<1>3. /\ Sound(Cleared(Now, {j}), {}, dead, rs, ps)
      /\ SameRunners(Now, Cleared(Now, {j})) /\ SameMarks(Now, Cleared(Now, {j}))
      /\ Cleared(Now, {j}).waiting = Now.waiting /\ Cleared(Now, {j}).owes = Now.owes
  <2> HIDE DEF dead, rs, ps
  <2> QED BY <1>1, ClearedSound
<1>4. Sound(Cleared(Now, {j}), {j}, dead, rs, ps)
  <2> HIDE DEF dead, rs, ps
  <2> QED BY <1>3, Excepted
<1>5. CASE LeaveRunner(Now, j)
  <2>1. SameRunners(Now, Now) /\ SameMarks(Now, Now)
    BY DEF SameRunners, SameMarks
  <2> QED BY <1>2, <1>5, <2>1, NowIsState, EndStep
<1>6. CASE LeaveRunner(Cleared(Now, {j}), j)
  BY <1>3, <1>4, <1>6, NowIsState, EndStep
<1> QED BY <1>5, <1>6

LEMMA SucceedStep ==
    ASSUME QueueIInv, NEW j \in Jids, Succeed(j)
    PROVE  SoundAfter /\ WokenAfter /\ Orderly
  BY EndsPlainly DEF Succeed, Running

LEMMA ThrowStep ==
    ASSUME QueueIInv, NEW j \in Jids, Throw(j)
    PROVE  SoundAfter /\ WokenAfter /\ Orderly
  BY EndsPlainly DEF Throw, Running

LEMMA GaveUpStep ==
    ASSUME QueueIInv, NEW j \in Jids, GaveUp(j)
    PROVE  SoundAfter /\ WokenAfter /\ Orderly
<1>1. j \in active
  BY InvFacts, NowIsState DEF GaveUp, Runners
<1> QED BY <1>1, EndsPlainly DEF GaveUp

LEMMA FailStep ==
    ASSUME QueueIInv, NEW j \in Jids, Fail(j)
    PROVE  SoundAfter /\ WokenAfter /\ Orderly
<1> DEFINE dead == terminalDiscardMutationKeys
           rs == restarts
           ps == mutationPreserveStopJids
<1>c. /\ Runners(Now) /\ Parking(Now) /\ Marks(Now) /\ Timers(Now, {}) /\ Owed(Now)
      /\ Deleted(Now, dead) /\ Halted(Now, rs, ps)
  BY InvFacts
<1>1. /\ j \in active /\ job[j] \notin Scheduled
      /\ UNCHANGED <<gateVars, restarts, settingVars>>
  BY DEF Fail, Running
<1>2. CASE LeaveRunner(Now, j) \/ LeaveRunner(Cleared(Now, {j}), j)
  BY <1>1, <1>2, EndsPlainly
<1>3. CASE /\ CanScheduleRetry(j) /\ retryCount[j] < MaxRetries
           /\ LeaveRunner([Now EXCEPT !.tries[j] = @ + 1, !.retry[j] = job[j]], j)
  <2> DEFINE n == [Now EXCEPT !.tries[j] = @ + 1, !.retry[j] = job[j]]
  <2>1. /\ IsState(n) /\ SameRunners(Now, n) /\ SameMarks(Now, n)
        /\ n.pending = Now.pending /\ n.queued = Now.queued
        /\ n.waiting = waitingGroups /\ n.owes = owesWake
        /\ n.retry = [retryTimer EXCEPT ![j] = job[j]]
        /\ n.tries = [retryCount EXCEPT ![j] = @ + 1]
    BY NowIsState DEF IsState, Fields, SameRunners, SameMarks
  <2>2. LeaveRunner(n, j)
    BY <1>3
  <2> HIDE DEF n
  <2>3. Parking(n)
    <3>1. job[j] \in Jobs \ Scheduled
      BY <1>c, <1>1, NowIsState DEF Runners
    <3>2. retryCount[j] + 1 \in 0..MaxRetries
      BY <1>c, <1>3, NowIsState, QueueAssumption DEF Parking
    <3>3. /\ n.retry \in [Jids -> Jobs \ Scheduled] /\ n.tries \in [Jids -> 0..MaxRetries]
      BY <1>c, <2>1, <3>1, <3>2, NowIsState DEF Parking
    <3> QED BY <1>c, <2>1, <3>3, NowIsState DEF Parking
  <2>4. Marks(n) /\ Owed(n)
    BY <1>c, <2>1, NowIsState DEF Marks, Owed, SameRunners, SameMarks
  <2>5. Timers(n, {j})
    BY <1>c, <2>1, NowIsState DEF Timers, SameRunners, Parking
  <2>6. Deleted(n, dead)
    <3>1. Folder[j] \notin dead
      BY <1>c, <1>1, NowIsState DEF Deleted
    <3> QED BY <1>c, <2>1, <3>1, NowIsState DEF Deleted, SameRunners
  <2>7. Halted(n, rs, ps)
    <3>1. j \notin halted
      BY <1>c, <1>1, <1>3, NowIsState DEF Halted, CanScheduleRetry
    <3>2. halted \subseteq Jids
      BY <1>c, NowIsState DEF Marks
    <3>3. n.halted = halted /\ \A i \in halted : n.retry[i] = retryTimer[i]
      BY <2>1, <3>1, NowIsState DEF SameMarks
    <3> QED BY <1>c, <2>1, <3>2, <3>3, NowIsState DEF Halted, SameRunners, SameMarks
  <2>8. Sound(n, {j}, dead, rs, ps)
    <3>1. Sound(Now, {j}, dead, rs, ps)
      <4>1. Sound(Now, {}, dead, rs, ps)
        BY DEF QueueIInv, GroupsSound
      <4> HIDE DEF dead, rs, ps
      <4> QED BY <4>1, Excepted
    <3> HIDE DEF dead, rs, ps
    <3> QED BY <2>1, <2>3, <2>4, <2>5, <2>6, <2>7, <3>1, EditSound
  <2> QED BY <1>1, <2>1, <2>2, <2>8, EndStep
<1>4. CASE Set([Cleared(Now, {j}) EXCEPT !.givingUp = @ \cup {j}])
  <2> DEFINE m == Cleared(Now, {j})
             n == [m EXCEPT !.givingUp = @ \cup {j}]
  <2>1. /\ Sound(m, {}, dead, rs, ps) /\ SameRunners(Now, m) /\ SameMarks(Now, m)
        /\ m.waiting = Now.waiting /\ m.owes = Now.owes
    <3>1. Sound(Now, {}, dead, rs, ps)
      BY DEF QueueIInv, GroupsSound
    <3> HIDE DEF dead, rs, ps
    <3> QED BY <3>1, ClearedSound
  <2>2. Set(n)
    BY <1>4
  <2>m. IsState(m) /\ Runners(m) /\ Parking(m) /\ Marks(m) /\ OneKey(m) /\ Counted(m)
        /\ Timers(m, {}) /\ Owed(m) /\ Deleted(m, dead) /\ Halted(m, rs, ps)
    BY <2>1 DEF Sound
  <2> HIDE DEF m
  <2>3. /\ IsState(n) /\ n.active = m.active /\ n.registered = m.registered /\ n.job = m.job
        /\ n.slots = m.slots /\ n.givingUp = m.givingUp \cup {j}
        /\ n.pending = m.pending /\ n.queued = m.queued /\ n.retry = m.retry
        /\ n.tries = m.tries /\ n.stop = m.stop /\ n.injected = m.injected
        /\ n.owed = m.owed /\ n.waiting = m.waiting /\ n.stopped = m.stopped
        /\ n.owes = m.owes /\ n.halted = m.halted /\ n.gated = m.gated
    BY <2>m DEF IsState, Fields
  <2> HIDE DEF n
  <2>4. Runners(n)
    BY <1>1, <2>1, <2>m, <2>3, NowIsState DEF Runners, SameRunners
  <2>5. /\ Parking(n) /\ Marks(n) /\ OneKey(n) /\ Counted(n) /\ Timers(n, {}) /\ Owed(n)
    BY <2>m, <2>3 DEF Parking, Marks, OneKey, Counted, Timers, Owed
  <2>6. Deleted(n, dead) /\ Halted(n, rs, ps)
    BY <2>m, <2>3 DEF Deleted, Halted
  <2>7. Sound(n, {}, dead, rs, ps)
    BY <2>3, <2>4, <2>5, <2>6 DEF Sound
  <2>8. Sound(After, {}, dead, rs, ps)
    <3>1. {} \cap n.active = {}
      OBVIOUS
    <3> HIDE DEF dead, rs, ps
    <3> QED BY <2>2, <2>7, <3>1, SetSound
  <2>9. /\ active' = active /\ registered' = registered /\ owesWake' = owesWake
        /\ waitingGroups' = waitingGroups /\ activeContainerCount' = activeContainerCount
    <3>1. ({} \cup {}) \cap Boxed = {} /\ Cardinality({}) = 0
      BY FS_EmptySet
    <3>2. /\ active' = n.active \cup ({} \cup {}) /\ registered' = n.registered
          /\ owesWake' = n.owes /\ waitingGroups' = n.waiting \ (({} \cup {}) \cup {})
          /\ activeContainerCount' = n.slots + Cardinality(({} \cup {}) \cap Boxed)
      BY <2>2 DEF Set, Settle
    <3>3. n.slots \in Nat
      BY <2>7 DEF Sound, Counted
    <3> QED BY <2>1, <2>3, <3>1, <3>2, <3>3, NowIsState DEF SameRunners
  <2>10. Orderly
    BY <2>9, QuietStep
  <2>11. WokenAfter
    <3>1. ~shuttingDown => Wake(Now, maxConcurrentContainers)
      BY InvFacts
    <3>2. Gated' = Gated /\ maxConcurrentContainers' = maxConcurrentContainers
          /\ shuttingDown' = shuttingDown
      BY <1>1, SameGates
    <3> QED BY <2>9, <3>1, <3>2, NowIsState, AfterIsState DEF WokenAfter, Wake, Blocked
  <2>12. SoundAfter
    BY <1>1, <2>8, SameGates DEF SoundAfter
  <2> QED BY <2>10, <2>11, <2>12
<1> QED BY <1>2, <1>3, <1>4 DEF Fail

\* Only jids that are given something to do cease to be halted.
LEMMA UnhaltedSound ==
    ASSUME NEW m, NEW n, NEW X, NEW dead, NEW rs, NEW ps, NEW js,
           Sound(m, X, dead, rs, ps), IsState(n), SameRunners(m, n),
           n.pending = m.pending, n.queued = m.queued, n.retry = m.retry,
           n.tries = m.tries, n.stop = m.stop, n.injected = m.injected,
           n.owed = m.owed, n.waiting = m.waiting, n.stopped = m.stopped,
           n.owes = m.owes, n.halted = m.halted \ js
    PROVE  Sound(n, X, dead, rs, ps)
<1>1. /\ Runners(m) /\ Parking(m) /\ Marks(m) /\ Timers(m, X) /\ Owed(m)
      /\ Deleted(m, dead) /\ Halted(m, rs, ps)
  BY DEF Sound
<1>2. Parking(n) /\ Marks(n) /\ Timers(n, X) /\ Owed(n)
  BY <1>1 DEF Parking, Marks, Timers, Owed, SameRunners
<1>3. Deleted(n, dead) /\ Halted(n, rs, ps)
  BY <1>1 DEF Deleted, Halted, SameRunners
<1> QED BY <1>2, <1>3, EditSound

LEMMA EnqueueMessageStep ==
    ASSUME QueueIInv, NEW j \in Jids, EnqueueMessage(j)
    PROVE  SoundAfter /\ WokenAfter /\ Orderly
<1> DEFINE n == [Now EXCEPT !.halted = @ \ {j}]
           dead == terminalDiscardMutationKeys
           rs == restarts
           ps == mutationPreserveStopJids
<1>1. MessageCheck(n, j) /\ UNCHANGED <<gateVars, restarts, settingVars>>
  BY DEF EnqueueMessage
<1>2. /\ IsState(n) /\ SameRunners(Now, n) /\ n.gated = Gated
      /\ n.pending = Now.pending /\ n.queued = Now.queued /\ n.retry = Now.retry
      /\ n.tries = Now.tries /\ n.stop = Now.stop /\ n.injected = Now.injected
      /\ n.owed = Now.owed /\ n.waiting = Now.waiting /\ n.stopped = Now.stopped
      /\ n.owes = Now.owes /\ n.halted = Now.halted \ {j}
  BY NowIsState DEF IsState, Fields, SameRunners
<1> HIDE DEF n
<1>3. Sound(n, {}, dead, rs, ps)
  <2>1. Sound(Now, {}, dead, rs, ps)
    BY DEF QueueIInv, GroupsSound
  <2> HIDE DEF dead, rs, ps
  <2> QED BY <1>2, <2>1, UnhaltedSound
<1>4. ~shuttingDown => Wake(n, maxConcurrentContainers)
  BY <1>2, NowIsState, InvFacts, WaitersBlocked DEF SameRunners
<1>5. j \notin n.halted /\ n.gated = Gated'
  BY <1>1, <1>2, SameGates
<1> QED BY <1>1, <1>2, <1>3, <1>4, <1>5, SameGates, HandlerStep

LEMMA EnqueueTaskStep ==
    ASSUME QueueIInv, NEW j \in Jids, NEW t \in Tasks, EnqueueTask(j, t)
    PROVE  SoundAfter /\ WokenAfter /\ Orderly
<1> DEFINE n == [Now EXCEPT !.halted = @ \ {j}]
           dead == terminalDiscardMutationKeys
           rs == restarts
           ps == mutationPreserveStopJids
<1>1. TaskCheck(n, j, t) /\ t \notin cancelled /\ UNCHANGED <<gateVars, restarts, settingVars>>
  BY DEF EnqueueTask
<1>2. /\ IsState(n) /\ SameRunners(Now, n) /\ n.gated = Gated
      /\ n.pending = Now.pending /\ n.queued = Now.queued /\ n.retry = Now.retry
      /\ n.tries = Now.tries /\ n.stop = Now.stop /\ n.injected = Now.injected
      /\ n.owed = Now.owed /\ n.waiting = Now.waiting /\ n.stopped = Now.stopped
      /\ n.owes = Now.owes /\ n.halted = Now.halted \ {j}
  BY NowIsState DEF IsState, Fields, SameRunners
<1> HIDE DEF n
<1>3. Sound(n, {}, dead, rs, ps)
  <2>1. Sound(Now, {}, dead, rs, ps)
    BY DEF QueueIInv, GroupsSound
  <2> HIDE DEF dead, rs, ps
  <2> QED BY <1>2, <2>1, UnhaltedSound
<1>4. ~shuttingDown => Wake(n, maxConcurrentContainers)
  BY <1>2, NowIsState, InvFacts, WaitersBlocked DEF SameRunners
<1>5. j \notin n.halted /\ n.gated = Gated'
  BY <1>1, <1>2, SameGates
<1> QED BY <1>1, <1>2, <1>3, <1>4, <1>5, SameGates, HandlerStep

LEMMA RetryFiresStep ==
    ASSUME QueueIInv, NEW j \in Jids, RetryFires(j)
    PROVE  SoundAfter /\ WokenAfter /\ Orderly
<1> DEFINE n == [Now EXCEPT !.retry[j] = None]
           dead == terminalDiscardMutationKeys
           rs == restarts
           ps == mutationPreserveStopJids
<1>1. /\ retryTimer[j] # None /\ UNCHANGED <<gateVars, restarts, settingVars>>
      /\ \/ Set(n)
         \/ MessageCheck(n, j)
         \/ retryTimer[j] # Messages /\ TaskCheck(n, j, retryTimer[j])
  BY DEF RetryFires
<1>2. /\ IsState(n) /\ SameRunners(Now, n) /\ SameMarks(Now, n)
      /\ n.pending = Now.pending /\ n.queued = Now.queued
      /\ n.retry = [Now.retry EXCEPT ![j] = None]
      /\ n.tries = Now.tries /\ n.waiting = Now.waiting /\ n.owes = Now.owes
  BY NowIsState DEF IsState, Fields, SameRunners, SameMarks
<1> HIDE DEF n
<1>c. /\ Runners(Now) /\ Parking(Now) /\ Marks(Now) /\ Timers(Now, {}) /\ Owed(Now)
      /\ Deleted(Now, dead) /\ Halted(Now, rs, ps)
  BY InvFacts
<1>3. Sound(n, {}, dead, rs, ps)
  <2>1. n.retry \in [Jids -> Jobs \ Scheduled] /\ \A i \in Jids :
            n.retry[i] # None => n.retry[i] = Now.retry[i]
    <3>1. None \in Jobs \ Scheduled
      BY Names, QueueAssumption DEF Jobs
    <3> QED BY <1>c, <1>2, <3>1 DEF Parking
  <2>2. Parking(n) /\ Marks(n) /\ Timers(n, {}) /\ Owed(n)
    BY <1>c, <1>2, <2>1 DEF Parking, Marks, Timers, Owed, SameRunners, SameMarks
  <2>3. Now.halted \subseteq Jids
    BY <1>c DEF Marks
  <2>4. Deleted(n, dead)
    BY <1>c, <1>2, <2>1 DEF Deleted, SameRunners
  <2>5. Halted(n, rs, ps)
    BY <1>c, <1>2, <2>1, <2>3 DEF Halted, SameRunners, SameMarks
  <2>6. Sound(Now, {}, dead, rs, ps)
    BY DEF QueueIInv, GroupsSound
  <2> HIDE DEF dead, rs, ps
  <2> QED BY <1>2, <2>2, <2>4, <2>5, <2>6, EditSound
<1>4. ~shuttingDown => Wake(n, maxConcurrentContainers)
  BY <1>2, NowIsState, InvFacts, WaitersBlocked DEF SameRunners, SameMarks
<1>5. j \notin n.halted
  BY <1>c, <1>1, <1>2, NowIsState DEF Halted, SameMarks
<1>6. retryTimer[j] # Messages => retryTimer[j] \in Tasks /\ retryTimer[j] \notin cancelled
  BY <1>c, <1>1, NowIsState, InvFacts DEF Parking, Jobs
<1>7. \/ Set(n)
      \/ \E i \in Jids : i \notin n.halted /\ MessageCheck(n, i)
      \/ \E i \in Jids, t \in Tasks : i \notin n.halted /\ t \notin cancelled
                                          /\ TaskCheck(n, i, t)
  BY <1>1, <1>5, <1>6
<1>8. n.gated = Gated'
  BY <1>1, <1>2, NowIsState, SameGates DEF SameMarks
<1> QED BY <1>1, <1>2, <1>3, <1>4, <1>7, <1>8, SameGates, HandlerStep

\* The runner of a jid is a jid of its key and of its folder.
LEMMA RunnerOfKey ==
    ASSUME QueueIInv, NEW j \in Jids
    PROVE  /\ Runner(j) \in Jids /\ Key(Runner(j)) = Key(j) /\ Folder[Runner(j)] = Folder[j]
           /\ Runner(j) \in active \/ Runner(j) = j
           /\ \A i \in active : Key(i) = Key(j) => i = Runner(j)
<1>1. active \subseteq Jids /\ \A i, k \in active : Key(i) = Key(k) => i = k
  BY InvFacts, NowIsState DEF Runners, OneKey
<1>2. CASE Busy(active, j)
  <2>1. Runner(j) \in active /\ Key(Runner(j)) = Key(j)
    BY <1>2 DEF Busy, Runner
  <2> QED BY <1>1, <2>1, KeyOfOneFolder
<1>3. CASE ~Busy(active, j)
  BY <1>3 DEF Busy, Runner
<1> QED BY <1>2, <1>3

LEMMA SendMessageStep ==
    ASSUME QueueIInv, NEW c \in Jids, SendMessage(c)
    PROVE  SoundAfter /\ WokenAfter /\ Orderly
<1> DEFINE r == Runner(c)
           n == [Now EXCEPT !.injected = @ \cup {r}, !.owed[r] = @ \cup {c},
                            !.halted = @ \ {c, r}]
<1>1. /\ Folder[c] \notin Gated \cup terminalDiscardMutationKeys /\ r \in active \cap registered
      /\ Set(n) /\ UNCHANGED <<gateVars, restarts, settingVars>>
  BY DEF SendMessage
<1>2. /\ IsState(n) /\ SameRunners(Now, n) /\ n.gated = Gated
      /\ n.pending = Now.pending /\ n.queued = Now.queued /\ n.retry = Now.retry
      /\ n.tries = Now.tries /\ n.stop = Now.stop /\ n.injected = Now.injected \cup {r}
      /\ n.owed = [Now.owed EXCEPT ![r] = @ \cup {c}]
      /\ n.waiting = Now.waiting /\ n.stopped = Now.stopped
      /\ n.owes = Now.owes /\ n.halted = Now.halted \ {c, r}
  BY NowIsState DEF IsState, Fields, SameRunners
<1>r. r \in Jids /\ Key(r) = Key(c) /\ r \in Now.registered
  BY <1>1, RunnerOfKey, NowIsState
<1> HIDE DEF n, r
<1>c. /\ Runners(Now) /\ Parking(Now) /\ Marks(Now) /\ Timers(Now, {}) /\ Owed(Now)
      /\ Deleted(Now, terminalDiscardMutationKeys)
      /\ Halted(Now, restarts, mutationPreserveStopJids)
  BY InvFacts
<1>3. Parking(n) /\ Marks(n) /\ Timers(n, {})
  BY <1>c, <1>2, <1>r DEF Parking, Marks, Timers, SameRunners
<1>4. /\ n.owed \in [Jids -> SUBSET Jids]
      /\ \A k \in Jids : n.owed[k] = IF k = r THEN Now.owed[k] \cup {c} ELSE Now.owed[k]
  <2>1. Now.owed \in [Jids -> SUBSET Jids]
    BY <1>c DEF Owed
  <2>2. Now.owed[r] \cup {c} \in SUBSET Jids
    BY <1>r, <2>1
  <2> DEFINE more == Now.owed[r] \cup {c}
  <2>3. n.owed = [Now.owed EXCEPT ![r] = more]
    BY <1>2
  <2> HIDE DEF more
  <2>4. /\ n.owed \in [Jids -> SUBSET Jids]
        /\ \A k \in Jids : n.owed[k] = IF k = r THEN more ELSE Now.owed[k]
    BY <1>r, <2>1, <2>2, <2>3 DEF more
  <2> QED BY <2>4 DEF more
<1>5. Owed(n)
  BY <1>c, <1>2, <1>4, <1>r DEF Owed, SameRunners
<1>6. Deleted(n, terminalDiscardMutationKeys)
  BY <1>c, <1>2 DEF Deleted, SameRunners
<1>7. Halted(n, restarts, mutationPreserveStopJids)
  BY <1>c, <1>2, <1>4 DEF Halted, SameRunners
<1>8. ~shuttingDown => Wake(n, maxConcurrentContainers)
  BY <1>2, NowIsState, InvFacts, WaitersBlocked DEF SameRunners
<1>9. /\ Deleted(n, terminalDiscardMutationKeys')
      /\ Halted(n, restarts', mutationPreserveStopJids')
      /\ n.gated = Gated'
      /\ ~shuttingDown' => Wake(n, maxConcurrentContainers')
  BY <1>1, <1>2, <1>6, <1>7, <1>8, SameGates
<1> QED BY <1>1, <1>2, <1>3, <1>5, <1>9, EditStep

LEMMA AcknowledgeStep ==
    ASSUME QueueIInv, NEW r \in Jids, NEW c \in Jids, Acknowledge(r, c)
    PROVE  SoundAfter /\ WokenAfter /\ Orderly
<1> DEFINE n == [Now EXCEPT !.owed[r] = @ \ {c}]
<1>1. Set(n) /\ UNCHANGED <<gateVars, restarts, settingVars>>
  BY DEF Acknowledge
<1>2. /\ IsState(n) /\ SameRunners(Now, n) /\ n.gated = Gated
      /\ n.pending = Now.pending /\ n.queued = Now.queued /\ n.retry = Now.retry
      /\ n.tries = Now.tries /\ n.stop = Now.stop /\ n.injected = Now.injected
      /\ n.owed = [Now.owed EXCEPT ![r] = @ \ {c}]
      /\ n.waiting = Now.waiting /\ n.stopped = Now.stopped
      /\ n.owes = Now.owes /\ n.halted = Now.halted
  BY NowIsState DEF IsState, Fields, SameRunners
<1> HIDE DEF n
<1>c. /\ Runners(Now) /\ Parking(Now) /\ Marks(Now) /\ Timers(Now, {}) /\ Owed(Now)
      /\ Deleted(Now, terminalDiscardMutationKeys)
      /\ Halted(Now, restarts, mutationPreserveStopJids)
  BY InvFacts
<1>3. Parking(n) /\ Marks(n) /\ Timers(n, {})
  BY <1>c, <1>2 DEF Parking, Marks, Timers, SameRunners
<1>4. n.owed \in [Jids -> SUBSET Jids] /\ \A k \in Jids : n.owed[k] \subseteq Now.owed[k]
  BY <1>c, <1>2 DEF Owed
<1>5. Owed(n)
  BY <1>c, <1>2, <1>4 DEF Owed, SameRunners
<1>6. Deleted(n, terminalDiscardMutationKeys)
  BY <1>c, <1>2 DEF Deleted, SameRunners
<1>7. Halted(n, restarts, mutationPreserveStopJids)
  BY <1>c, <1>2, <1>4 DEF Halted, SameRunners
<1>8. ~shuttingDown => Wake(n, maxConcurrentContainers)
  BY <1>2, NowIsState, InvFacts, WaitersBlocked DEF SameRunners
<1>9. /\ Deleted(n, terminalDiscardMutationKeys')
      /\ Halted(n, restarts', mutationPreserveStopJids')
      /\ n.gated = Gated'
      /\ ~shuttingDown' => Wake(n, maxConcurrentContainers')
  BY <1>1, <1>2, <1>6, <1>7, <1>8, SameGates
<1> QED BY <1>1, <1>2, <1>3, <1>5, <1>9, EditStep

LEMMA RequestGracefulRestartStep ==
    ASSUME QueueIInv, NEW j \in Jids, RequestGracefulRestart(j)
    PROVE  SoundAfter /\ WokenAfter /\ Orderly
<1> DEFINE n == [Now EXCEPT !.pending = @ \cup {j}, !.halted = @ \ {j}]
<1>1. j \in active /\ Set(n) /\ UNCHANGED <<gateVars, restarts, settingVars>>
  BY DEF RequestGracefulRestart
<1>2. /\ IsState(n) /\ SameRunners(Now, n) /\ n.gated = Gated
      /\ n.pending = Now.pending \cup {j} /\ n.queued = Now.queued /\ n.retry = Now.retry
      /\ n.tries = Now.tries /\ n.stop = Now.stop /\ n.injected = Now.injected
      /\ n.owed = Now.owed
      /\ n.waiting = Now.waiting /\ n.stopped = Now.stopped
      /\ n.owes = Now.owes /\ n.halted = Now.halted \ {j}
  BY NowIsState DEF IsState, Fields, SameRunners
<1> HIDE DEF n
<1>c. /\ Runners(Now) /\ Parking(Now) /\ Marks(Now) /\ Timers(Now, {}) /\ Owed(Now)
      /\ Deleted(Now, terminalDiscardMutationKeys)
      /\ Halted(Now, restarts, mutationPreserveStopJids)
  BY InvFacts
<1>3. Parking(n) /\ Marks(n) /\ Timers(n, {}) /\ Owed(n)
  BY <1>c, <1>2 DEF Parking, Marks, Timers, SameRunners, Owed
<1>6. Deleted(n, terminalDiscardMutationKeys)
  BY <1>c, <1>1, <1>2, NowIsState DEF Deleted, SameRunners
<1>7. Halted(n, restarts, mutationPreserveStopJids)
  BY <1>c, <1>2 DEF Halted, SameRunners
<1>8. ~shuttingDown => Wake(n, maxConcurrentContainers)
  BY <1>2, NowIsState, InvFacts, WaitersBlocked DEF SameRunners
<1>9. /\ Deleted(n, terminalDiscardMutationKeys')
      /\ Halted(n, restarts', mutationPreserveStopJids')
      /\ n.gated = Gated'
      /\ ~shuttingDown' => Wake(n, maxConcurrentContainers')
  BY <1>1, <1>2, <1>6, <1>7, <1>8, SameGates
<1> QED BY <1>1, <1>2, <1>3, <1>9, EditStep

LEMMA RegisterProcessStep ==
    ASSUME QueueIInv, NEW j \in Jids, RegisterProcess(j)
    PROVE  SoundAfter /\ WokenAfter /\ Orderly
<1> DEFINE n == [Now EXCEPT !.registered = @ \cup {j}]
           dead == terminalDiscardMutationKeys
           rs == restarts
           ps == mutationPreserveStopJids
<1>1. j \in active /\ Set(n) /\ UNCHANGED <<gateVars, restarts, settingVars>>
  BY DEF RegisterProcess, Running
<1>2. /\ IsState(n) /\ n.active = active /\ n.registered = registered \cup {j}
      /\ n.givingUp = givingUp /\ n.job = job /\ n.slots = activeContainerCount
      /\ n.pending = Now.pending /\ n.queued = Now.queued /\ n.retry = Now.retry
      /\ n.tries = Now.tries /\ n.stop = Now.stop /\ n.injected = Now.injected
      /\ n.owed = Now.owed /\ n.waiting = Now.waiting /\ n.stopped = Now.stopped
      /\ n.owes = Now.owes /\ n.halted = Now.halted /\ n.gated = Gated
  BY NowIsState DEF IsState, Fields
<1> HIDE DEF n
<1>c. /\ Runners(Now) /\ Parking(Now) /\ Marks(Now) /\ Timers(Now, {}) /\ Owed(Now)
      /\ OneKey(Now) /\ Counted(Now) /\ Deleted(Now, dead) /\ Halted(Now, rs, ps)
  BY InvFacts
<1>3. Runners(n) /\ OneKey(n) /\ Counted(n)
  BY <1>1, <1>2, <1>c, NowIsState DEF Runners, OneKey, Counted
<1>4. Parking(n) /\ Marks(n) /\ Timers(n, {}) /\ Owed(n)
  BY <1>c, <1>2, NowIsState DEF Parking, Marks, Timers, Owed
<1>5. Deleted(n, dead) /\ Halted(n, rs, ps)
  BY <1>c, <1>2, NowIsState DEF Deleted, Halted
<1>6. Sound(n, {}, dead, rs, ps)
  BY <1>2, <1>3, <1>4, <1>5 DEF Sound
<1>7. Sound(After, {}, dead, rs, ps)
  <2>1. {} \cap n.active = {}
    OBVIOUS
  <2> HIDE DEF dead, rs, ps
  <2> QED BY <1>1, <1>6, <2>1, SetSound
<1>8. /\ active' = active /\ registered \subseteq registered' /\ owesWake' = owesWake
      /\ waitingGroups' = waitingGroups /\ activeContainerCount' = activeContainerCount
  <2>1. ({} \cup {}) \cap Boxed = {} /\ Cardinality({}) = 0
    BY FS_EmptySet
  <2>2. /\ active' = n.active \cup ({} \cup {}) /\ registered' = n.registered
        /\ owesWake' = n.owes /\ waitingGroups' = n.waiting \ (({} \cup {}) \cup {})
        /\ activeContainerCount' = n.slots + Cardinality(({} \cup {}) \cap Boxed)
    BY <1>1 DEF Set, Settle
  <2> QED BY <1>2, <2>1, <2>2, NowIsState, InvFacts
<1>9. Orderly
  BY <1>8, QuietStep
<1>10. WokenAfter
  BY <1>1, <1>8, SameGates, InvFacts, NowIsState, AfterIsState DEF WokenAfter, Wake, Blocked
<1> QED BY <1>1, <1>7, <1>9, <1>10, SameGates DEF SoundAfter

-----------------------------------------------------------------------------
(* Stops and restarts                                                       *)

LEMMA StopGroupStep ==
    ASSUME QueueIInv, NEW j \in Jids, StopGroup(j)
    PROVE  SoundAfter /\ WokenAfter /\ Orderly
<1> DEFINE r == Runner(j)
           hit == {j, r}
           marked == {Folder[h] : h \in hit \cap registered}
           resumed == mutationPreserveStopJids \cup {p[i] : p \in restarts, i \in 1..2}
           m == Cleared(Now, hit)
           n == [m EXCEPT !.stop = @ \cup hit, !.pending = @ \ hit,
                          !.queued = [h \in Jids |-> IF h \in hit THEN <<>> ELSE @[h]],
                          !.waiting = @ \ hit, !.owed[r] = {},
                          !.stopped = @ \cup marked,
                          !.halted = @ \cup (hit \ resumed)]
           dead == terminalDiscardMutationKeys
           rs == restarts
           ps == mutationPreserveStopJids
<1>1. /\ Set(n) /\ UNCHANGED <<mutationPauseCounts, runtimeSafetyBlocks,
                               terminalDiscardMutationKeys, mutationPreserveStopJids,
                               restarts, settingVars>>
  BY DEF StopGroup
<1>r. /\ r \in Jids /\ Key(r) = Key(j) /\ (r \in active \/ r = j)
      /\ \A i \in active : Key(i) = Key(j) => i = r
  BY RunnerOfKey
<1>m. Sound(m, {}, dead, rs, ps) /\ SameRunners(Now, m) /\ SameMarks(Now, m)
      /\ m.pending = Now.pending /\ m.queued = Now.queued
      /\ m.waiting = Now.waiting /\ m.owes = Now.owes
      /\ \A h \in hit : m.retry[h] = None
  <2>1. Sound(Now, {}, dead, rs, ps)
    BY DEF QueueIInv, GroupsSound
  <2>2. hit \subseteq Jids
    BY <1>r
  <2> HIDE DEF dead, rs, ps, hit
  <2> QED BY <2>1, <2>2, ClearedSound
<1>n. /\ Runners(m) /\ Parking(m) /\ Marks(m) /\ Timers(m, {}) /\ Owed(m) /\ IsState(m)
      /\ Deleted(m, dead) /\ Halted(m, rs, ps)
  BY <1>m DEF Sound
<1> HIDE DEF m
<1>2. /\ IsState(n) /\ SameRunners(m, n) /\ n.gated = m.gated /\ n.retry = m.retry
      /\ n.tries = m.tries /\ n.injected = m.injected /\ n.owes = m.owes
      /\ n.stop = m.stop \cup hit /\ n.pending = m.pending \ hit
      /\ n.queued = [h \in Jids |-> IF h \in hit THEN <<>> ELSE m.queued[h]]
      /\ n.waiting = m.waiting \ hit /\ n.owed = [m.owed EXCEPT ![r] = {}]
      /\ n.stopped = m.stopped \cup marked /\ n.halted = m.halted \cup (hit \ resumed)
  <2> HIDE DEF hit, marked, resumed, r
  <2> QED BY <1>n DEF IsState, Fields, SameRunners
<1> HIDE DEF n
<1>h. hit \subseteq Jids /\ marked \subseteq Folders
  BY <1>r DEF Folders
<1>3. Parking(n)
  <2>1. n.queued \in [Jids -> Seq(Tasks)]
    BY <1>n, <1>2 DEF Parking
  <2> QED BY <1>n, <1>2, <2>1 DEF Parking
<1>4. Marks(n)
  BY <1>n, <1>2, <1>h DEF Marks
<1>5. Timers(n, {})
  BY <1>n, <1>2 DEF Timers, SameRunners
<1>6. n.owed \in [Jids -> SUBSET Jids] /\ \A k \in Jids : n.owed[k] \subseteq m.owed[k]
      /\ n.owed[r] = {}
  BY <1>n, <1>2, <1>r DEF Owed
<1>7. Owed(n)
  BY <1>n, <1>2, <1>6 DEF Owed, SameRunners
<1>8. Deleted(n, dead)
  BY <1>n, <1>2 DEF Deleted, SameRunners
<1>9. Halted(n, rs, ps)
  <2> SUFFICES ASSUME NEW i \in n.halted
               PROVE  /\ i \notin n.pending /\ n.queued[i] = <<>> /\ n.retry[i] = None
                      /\ \A k \in Jids : i \notin n.owed[k]
                      /\ \A p \in rs : i # p[1]
                      /\ i \notin ps
                      /\ i \in n.active => i \in n.stop
    BY DEF Halted
  <2>1. CASE i \in m.halted
    <3>1. i \in Jids
      BY <1>n, <2>1 DEF Marks
    <3> QED BY <1>n, <1>2, <1>6, <2>1, <3>1 DEF Halted, SameRunners
  <2>2. CASE i \in hit \ resumed
    <3>1. i \in Jids /\ i \in hit /\ Key(i) = Key(j)
      BY <1>h, <1>r, <2>2
    <3>2. i \notin ps /\ \A p \in rs : i # p[1]
      BY <2>2
    <3>3. ASSUME NEW k \in Jids, i \in n.owed[k]
          PROVE  FALSE
      <4>1. k \in m.registered /\ Key(i) = Key(k)
        BY <1>n, <1>6, <3>3 DEF Owed
      <4>2. k \in active
        BY <1>m, <1>n, <4>1, NowIsState DEF Runners, SameRunners
      <4>3. k = r
        BY <1>r, <3>1, <4>1, <4>2
      <4> QED BY <1>6, <3>3, <4>3
    <3>4. n.retry[i] = None
      BY <1>m, <1>2, <3>1
    <3>5. i \in n.stop /\ i \notin n.pending /\ n.queued[i] = <<>>
      BY <1>2, <3>1
    <3> QED BY <3>2, <3>3, <3>4, <3>5
  <2> QED BY <1>2, <2>1, <2>2
<1>10. /\ SameRunners(Now, n) /\ n.gated = Gated'
  <2>1. m.gated = Gated
    BY <1>m, NowIsState DEF SameMarks
  <2> QED BY <1>m, <1>1, <1>2, <2>1, NowIsState DEF SameRunners, Gated
<1>11. /\ dead' = dead /\ rs' = rs /\ ps' = ps /\ shuttingDown' = shuttingDown
       /\ maxConcurrentContainers' = maxConcurrentContainers
  BY <1>1 DEF settingVars
<1>12. ~shuttingDown' => Wake(n, maxConcurrentContainers')
  <2>1. /\ n.active = Now.active /\ n.slots = Now.slots /\ n.gated = Now.gated
        /\ n.owes = Now.owes /\ n.waiting \ Now.waiting = {}
    BY <1>m, <1>2, <1>10 DEF SameRunners, SameMarks
  <2> QED BY <1>11, <2>1, InvFacts, WaitersBlocked
<1>13. Deleted(n, dead') /\ Halted(n, rs', ps')
  BY <1>8, <1>9, <1>11
<1> QED BY <1>1, <1>2, <1>3, <1>4, <1>5, <1>7, <1>10, <1>12, <1>13, EditStep

LEMMA StopForMutationStep ==
    ASSUME QueueIInv, NEW j \in Jids, StopForMutation(j)
    PROVE  SoundAfter /\ WokenAfter /\ Orderly
<1> DEFINE r == Runner(j)
           hit == {j, r}
           marked == {Folder[h] : h \in hit \cap registered}
           parks(h) == Parked(h) # None \/ (h \in Lanes \ active /\ pendingTasks[h] # <<>>)
           kept == {h \in hit : ~parks(h)}
           queue(h) == IF h \in hit /\ Parked(h) # None /\ ~InQueue(Parked(h), pendingTasks[h])
                       THEN <<Parked(h)>> \o pendingTasks[h] ELSE pendingTasks[h]
           n == [Now EXCEPT
                   !.stop = @ \cup hit,
                   !.pending = @ \cup {h \in hit : ~parks(h)},
                   !.queued = [h \in Jids |->
                                  IF /\ h \in hit /\ Parked(h) # None
                                     /\ ~InQueue(Parked(h), @[h])
                                  THEN <<Parked(h)>> \o @[h] ELSE @[h]],
                   !.retry = [h \in Jids |-> IF h \in hit /\ @[h] \in Tasks
                                             THEN None ELSE @[h]],
                   !.waiting = @ \cup hit,
                   !.stopped = @ \cup marked,
                   !.halted = @ \ hit]
           dead == terminalDiscardMutationKeys
           rs == restarts
           ps == mutationPreserveStopJids
<1>1. /\ Folder[j] \in Gated /\ Folder[j] \notin dead
      /\ Set(n) /\ ps' = ps \cup {r}
      /\ UNCHANGED <<mutationPauseCounts, runtimeSafetyBlocks,
                     terminalDiscardMutationKeys, restarts, settingVars>>
  BY DEF StopForMutation
<1>r. r \in Jids /\ Key(r) = Key(j) /\ Folder[r] = Folder[j]
  BY RunnerOfKey
<1>h. hit \subseteq Jids /\ marked \subseteq Folders
      /\ \A h \in hit : Folder[h] \in Gated /\ Folder[h] \notin dead
  BY <1>1, <1>r DEF Folders
<1>c. /\ Runners(Now) /\ Parking(Now) /\ Marks(Now) /\ Timers(Now, {}) /\ Owed(Now)
      /\ Deleted(Now, dead) /\ Halted(Now, rs, ps)
  BY InvFacts
<1>p. \A h \in Jids : Parked(h) # None => Parked(h) \in Tasks
  BY DEF Parked
<1>2. /\ IsState(n) /\ SameRunners(Now, n) /\ n.gated = Gated
      /\ n.tries = Now.tries /\ n.injected = Now.injected /\ n.owes = Now.owes
      /\ n.owed = Now.owed /\ n.stop = Now.stop \cup hit
      /\ n.pending = Now.pending \cup kept
      /\ n.queued = [h \in Jids |-> queue(h)]
      /\ n.retry = [h \in Jids |-> IF h \in hit /\ Now.retry[h] \in Tasks
                                   THEN None ELSE Now.retry[h]]
      /\ n.waiting = Now.waiting \cup hit /\ n.stopped = Now.stopped \cup marked
      /\ n.halted = Now.halted \ hit
  <2> HIDE DEF hit, marked, r, parks
  <2> QED BY NowIsState DEF IsState, Fields, SameRunners
<1> HIDE DEF n, hit, marked, r, parks
<1>3. Parking(n)
  <2>1. \A h \in Jids : queue(h) \in Seq(Tasks)
    <3> SUFFICES ASSUME NEW h \in Jids
                 PROVE  queue(h) \in Seq(Tasks)
      OBVIOUS
    <3>1. pendingTasks[h] \in Seq(Tasks)
      BY <1>c, NowIsState DEF Parking
    <3>2. CASE Parked(h) # None
      <4>1. <<Parked(h)>> \in Seq(Tasks)
        BY <1>p, <3>2
      <4>2. <<Parked(h)>> \o pendingTasks[h] \in Seq(Tasks)
        <5> DEFINE a == <<Parked(h)>>
                   b == pendingTasks[h]
        <5>1. a \in Seq(Tasks) /\ b \in Seq(Tasks)
          BY <3>1, <4>1
        <5> HIDE DEF a, b
        <5>2. a \o b \in Seq(Tasks)
          BY <5>1
        <5> QED BY <5>2 DEF a, b
      <4> QED BY <3>1, <4>2
    <3>3. CASE Parked(h) = None
      BY <3>1, <3>3
    <3> QED BY <3>2, <3>3
  <2> HIDE DEF queue
  <2>2. n.queued \in [Jids -> Seq(Tasks)]
    BY <1>2, <2>1
  <2>3. n.retry \in [Jids -> Jobs \ Scheduled]
    <3>1. None \in Jobs \ Scheduled
      BY Names, QueueAssumption DEF Jobs
    <3> QED BY <1>c, <1>2, <3>1 DEF Parking
  <2>4. n.pending \subseteq Jids /\ n.waiting \subseteq Jids
    BY <1>c, <1>2, <1>h DEF Parking
  <2> QED BY <1>c, <1>2, <2>2, <2>3, <2>4 DEF Parking
<1>4. Marks(n)
  BY <1>c, <1>2, <1>h DEF Marks
<1>5. /\ \A h \in Jids : n.retry[h] # None => n.retry[h] = Now.retry[h]
      /\ \A h \in Jids \ hit : h \in n.pending => h \in Now.pending
      /\ \A h \in Jids \ hit : n.queued[h] = Now.queued[h]
  BY <1>2, NowIsState
<1>6. Timers(n, {}) /\ Owed(n)
  BY <1>c, <1>2, <1>5 DEF Timers, Owed, SameRunners
<1>7. Deleted(n, dead)
  <2>1. \A h \in Jids : Folder[h] \in dead => h \notin hit
    BY <1>h
  <2> QED BY <1>c, <1>2, <1>5, <2>1 DEF Deleted, SameRunners
<1>8. Halted(n, rs, ps \cup {r})
  <2>1. n.halted \subseteq Jids \ hit /\ n.halted \subseteq Now.halted
    BY <1>c, <1>2 DEF Marks
  <2>2. r \in hit
    BY DEF hit
  <2> QED BY <1>c, <1>2, <1>5, <2>1, <2>2 DEF Halted, SameRunners
<1>9. /\ dead' = dead /\ rs' = rs /\ ps' = ps \cup {r} /\ shuttingDown' = shuttingDown
      /\ maxConcurrentContainers' = maxConcurrentContainers /\ Gated' = Gated
  BY <1>1 DEF settingVars, Gated
<1>10. ~shuttingDown' => Wake(n, maxConcurrentContainers')
  <2>1. /\ n.active = Now.active /\ n.slots = Now.slots /\ n.gated = Now.gated
        /\ n.owes = Now.owes
        /\ \A h \in n.waiting \ Now.waiting : Blocked(Now, h, maxConcurrentContainers)
    BY <1>2, <1>h, NowIsState DEF SameRunners, Blocked
  <2> QED BY <1>9, <2>1, InvFacts, WaitersBlocked
<1>11. Deleted(n, dead') /\ Halted(n, rs', ps') /\ n.gated = Gated'
  BY <1>2, <1>7, <1>8, <1>9
<1> QED BY <1>1, <1>2, <1>3, <1>4, <1>6, <1>10, <1>11, EditStep

LEMMA StopForMutationReturnsStep ==
    ASSUME QueueIInv, NEW j \in Jids, StopForMutationReturns(j)
    PROVE  SoundAfter /\ WokenAfter /\ Orderly
<1>1. /\ UNCHANGED groupVars /\ terminalDiscardMutationKeys' = terminalDiscardMutationKeys
      /\ restarts' = restarts /\ mutationPreserveStopJids' \subseteq mutationPreserveStopJids
      /\ Gated' = Gated /\ maxConcurrentContainers' = maxConcurrentContainers
      /\ shuttingDown' = shuttingDown
  BY DEF StopForMutationReturns, settingVars, Gated
<1>2. Halted(Now, restarts', mutationPreserveStopJids')
  BY <1>1, InvFacts DEF Halted
<1> QED BY <1>1, <1>2, InvFacts, UnchangedStep

LEMMA StopWindowPassesStep ==
    ASSUME QueueIInv, NEW f, StopWindowPasses(f)
    PROVE  SoundAfter /\ WokenAfter /\ Orderly
<1> DEFINE n == [Now EXCEPT !.stopped = @ \ {f}]
<1>1. Set(n) /\ UNCHANGED <<gateVars, restarts, settingVars>>
  BY DEF StopWindowPasses
<1>2. /\ IsState(n) /\ SameRunners(Now, n) /\ n.gated = Gated
      /\ n.pending = Now.pending /\ n.queued = Now.queued /\ n.retry = Now.retry
      /\ n.tries = Now.tries /\ n.stop = Now.stop /\ n.injected = Now.injected
      /\ n.owed = Now.owed /\ n.waiting = Now.waiting /\ n.stopped = Now.stopped \ {f}
      /\ n.owes = Now.owes /\ n.halted = Now.halted
  BY NowIsState DEF IsState, Fields, SameRunners
<1> HIDE DEF n
<1>3. Parking(n) /\ Marks(n) /\ Timers(n, {}) /\ Owed(n)
  BY <1>2, InvFacts DEF Parking, Marks, Timers, SameRunners, Owed
<1>4. /\ Deleted(n, terminalDiscardMutationKeys)
      /\ Halted(n, restarts, mutationPreserveStopJids)
  BY <1>2, InvFacts DEF Deleted, Halted, SameRunners
<1>5. ~shuttingDown => Wake(n, maxConcurrentContainers)
  BY <1>2, NowIsState, InvFacts, WaitersBlocked DEF SameRunners
<1>6. /\ Deleted(n, terminalDiscardMutationKeys')
      /\ Halted(n, restarts', mutationPreserveStopJids')
      /\ n.gated = Gated'
      /\ ~shuttingDown' => Wake(n, maxConcurrentContainers')
  BY <1>1, <1>2, <1>4, <1>5, SameGates
<1> QED BY <1>1, <1>2, <1>3, <1>6, EditStep

LEMMA RestartGroupStep ==
    ASSUME QueueIInv, NEW j \in Jids, RestartGroup(j)
    PROVE  SoundAfter /\ WokenAfter /\ Orderly
<1> DEFINE r == Runner(j)
           m == Cleared(Now, {r})
           n == [m EXCEPT !.halted = @ \ {j, r}]
           dead == terminalDiscardMutationKeys
           rs == restarts
           ps == mutationPreserveStopJids
<1>1. Set(n) /\ restarts' = restarts \cup {<<j, r>>} /\ UNCHANGED <<gateVars, settingVars>>
  BY DEF RestartGroup
<1>m. Sound(m, {}, dead, rs, ps) /\ SameRunners(Now, m) /\ SameMarks(Now, m)
      /\ m.waiting = Now.waiting /\ m.owes = Now.owes
  <2>1. Sound(Now, {}, dead, rs, ps)
    BY DEF QueueIInv, GroupsSound
  <2> HIDE DEF dead, rs, ps, r
  <2> QED BY <2>1, ClearedSound
<1>n. /\ Runners(m) /\ Parking(m) /\ Marks(m) /\ Timers(m, {}) /\ Owed(m) /\ IsState(m)
      /\ Deleted(m, dead) /\ Halted(m, rs, ps)
  BY <1>m DEF Sound
<1> HIDE DEF m, r
<1>2. /\ IsState(n) /\ SameRunners(m, n) /\ n.gated = m.gated
      /\ n.pending = m.pending /\ n.queued = m.queued /\ n.retry = m.retry
      /\ n.tries = m.tries /\ n.stop = m.stop /\ n.injected = m.injected
      /\ n.owed = m.owed /\ n.waiting = m.waiting /\ n.stopped = m.stopped
      /\ n.owes = m.owes /\ n.halted = m.halted \ {j, r}
  BY <1>n DEF IsState, Fields, SameRunners
<1> HIDE DEF n
<1>3. Parking(n) /\ Marks(n) /\ Timers(n, {}) /\ Owed(n)
  BY <1>n, <1>2 DEF Parking, Marks, Timers, SameRunners, Owed
<1>4. Deleted(n, dead)
  BY <1>n, <1>2 DEF Deleted, SameRunners
<1>5. Halted(n, rs \cup {<<j, r>>}, ps)
  <2>1. \A p \in rs \cup {<<j, r>>} : p \in rs \/ p[1] = j
    OBVIOUS
  <2>2. n.halted \subseteq m.halted /\ j \notin n.halted
    BY <1>2
  <2> QED BY <1>n, <1>2, <2>1, <2>2 DEF Halted, SameRunners
<1>6. SameRunners(Now, n) /\ n.gated = Gated
  BY <1>m, <1>2, NowIsState DEF SameRunners, SameMarks
<1>7. ~shuttingDown => Wake(n, maxConcurrentContainers)
  BY <1>m, <1>2, <1>6, NowIsState, InvFacts, WaitersBlocked DEF SameRunners
<1>8. /\ Deleted(n, terminalDiscardMutationKeys')
      /\ Halted(n, restarts', mutationPreserveStopJids')
      /\ n.gated = Gated'
      /\ ~shuttingDown' => Wake(n, maxConcurrentContainers')
  BY <1>1, <1>4, <1>5, <1>6, <1>7, SameGates
<1> QED BY <1>1, <1>2, <1>3, <1>6, <1>8, EditStep

LEMMA RestartLaunchesStep ==
    ASSUME QueueIInv, NEW j \in Jids, NEW i \in Jids, RestartLaunches(<<j, i>>)
    PROVE  SoundAfter /\ WokenAfter /\ Orderly
<1> DEFINE p == <<j, i>>
<1>1. p \in restarts /\ p[1] = j /\ MessageCheck(Now, j) /\ restarts' \subseteq restarts
      /\ UNCHANGED <<gateVars, settingVars>>
  BY DEF RestartLaunches
<1>2. j \notin Now.halted
  BY <1>1, InvFacts DEF Halted
<1>3. Halted(Now, restarts', mutationPreserveStopJids')
  BY <1>1, SameGates, InvFacts DEF Halted
<1>4. Sound(Now, {}, terminalDiscardMutationKeys, restarts', mutationPreserveStopJids')
  BY <1>3 DEF QueueIInv, GroupsSound, Sound
<1>5. SameRunners(Now, Now) /\ Now.gated = Gated'
  BY <1>1, SameGates, NowIsState DEF SameRunners
<1> QED BY <1>1, <1>2, <1>4, <1>5, SameGates, InvFacts, HandlerStep

LEMMA RestartFailsStep ==
    ASSUME QueueIInv, NEW p, RestartFails(p)
    PROVE  SoundAfter /\ WokenAfter /\ Orderly
<1>1. /\ UNCHANGED groupVars /\ restarts' \subseteq restarts
      /\ UNCHANGED <<gateVars, settingVars>>
  BY DEF RestartFails
<1>2. /\ Deleted(Now, terminalDiscardMutationKeys')
      /\ Halted(Now, restarts', mutationPreserveStopJids')
      /\ Gated \subseteq Gated' /\ ~shuttingDown' => ~shuttingDown
      /\ maxConcurrentContainers' = maxConcurrentContainers
  BY <1>1, SameGates, InvFacts DEF Halted
<1> QED BY <1>1, <1>2, SameGates, UnchangedStep

-----------------------------------------------------------------------------
(* Pauses, blocks, settings and shutdown                                    *)

\* Dropping what is parked, and marks of stopped folders, keeps a record sound.
LEMMA EmptiedSound ==
    ASSUME NEW m, NEW js \in SUBSET Jids, NEW dead, NEW dead1, NEW rs, NEW ps, NEW ps1,
           Sound(m, {}, dead, rs, ps), ps1 \subseteq ps,
           \A j \in Jids : Folder[j] \in dead1 \ dead => j \in js \ m.active
    PROVE  /\ Sound(Emptied(m, js), {}, dead1, rs, ps1)
           /\ SameRunners(m, Emptied(m, js)) /\ Emptied(m, js).gated = m.gated
           /\ Emptied(m, js).waiting = m.waiting \ js /\ Emptied(m, js).owes = m.owes
<1> DEFINE c == Cleared(m, js)
           n == Emptied(m, js)
<1>1. /\ Sound(c, {}, dead, rs, ps) /\ SameRunners(m, c) /\ SameMarks(m, c)
      /\ c.pending = m.pending /\ c.queued = m.queued
      /\ c.waiting = m.waiting /\ c.owes = m.owes
      /\ \A i \in js : c.retry[i] = None
  BY ClearedSound
<1>c. /\ Runners(c) /\ Parking(c) /\ Marks(c) /\ Timers(c, {}) /\ Owed(c) /\ IsState(c)
      /\ Deleted(c, dead) /\ Halted(c, rs, ps)
  BY <1>1 DEF Sound
<1>2. n = [c EXCEPT !.pending = @ \ js,
                    !.queued = [j \in Jids |-> IF j \in js THEN <<>> ELSE @[j]],
                    !.waiting = @ \ js]
  BY DEF Emptied
<1> HIDE DEF c, n
<1>3. /\ IsState(n) /\ SameRunners(c, n) /\ SameMarks(c, n)
      /\ n.retry = c.retry /\ n.tries = c.tries /\ n.owes = c.owes
      /\ n.pending = c.pending \ js /\ n.waiting = c.waiting \ js
      /\ n.queued = [j \in Jids |-> IF j \in js THEN <<>> ELSE c.queued[j]]
  BY <1>2, <1>c DEF IsState, Fields, SameRunners, SameMarks
<1>4. Parking(n)
  <2>1. n.queued \in [Jids -> Seq(Tasks)]
    BY <1>c, <1>3 DEF Parking
  <2> QED BY <1>c, <1>3, <2>1 DEF Parking
<1>5. Marks(n) /\ Timers(n, {}) /\ Owed(n)
  BY <1>c, <1>3 DEF Marks, Timers, Owed, SameRunners, SameMarks
<1>6. Deleted(n, dead1)
  <2> SUFFICES ASSUME NEW j \in Jids, Folder[j] \in dead1
               PROVE  j \notin n.active /\ j \notin n.pending /\ n.queued[j] = <<>>
                      /\ n.retry[j] = None
    BY DEF Deleted
  <2>1. n.active = m.active
    BY <1>1, <1>3 DEF SameRunners
  <2>2. CASE Folder[j] \in dead
    BY <1>c, <1>1, <1>3, <2>1, <2>2 DEF Deleted, SameRunners
  <2>3. CASE j \in js \ m.active
    BY <1>1, <1>3, <2>1, <2>3
  <2> QED BY <2>2, <2>3
<1>7. Halted(n, rs, ps1)
  <2>1. c.halted \subseteq Jids
    BY <1>c DEF Marks
  <2> QED BY <1>c, <1>3, <2>1 DEF Halted, SameRunners, SameMarks
<1>8. Sound(n, {}, dead1, rs, ps1)
  BY <1>1, <1>3, <1>4, <1>5, <1>6, <1>7, EditSound
<1>9. SameRunners(m, n) /\ n.gated = m.gated /\ n.waiting = m.waiting \ js /\ n.owes = m.owes
  BY <1>1, <1>3 DEF SameRunners, SameMarks
<1> QED BY <1>8, <1>9 DEF n

\* Marks of stopped folders may go, and the gate is no concern of soundness.
LEMMA RegatedSound ==
    ASSUME NEW m, NEW n, NEW dead, NEW rs, NEW ps, Sound(m, {}, dead, rs, ps), IsState(n),
           SameRunners(m, n), n.pending = m.pending, n.queued = m.queued,
           n.retry = m.retry, n.tries = m.tries, n.stop = m.stop, n.injected = m.injected,
           n.owed = m.owed, n.waiting \subseteq Jids, n.stopped \subseteq m.stopped,
           n.owes \in BOOLEAN, n.halted = m.halted
    PROVE  Sound(n, {}, dead, rs, ps)
<1>1. /\ Runners(m) /\ Parking(m) /\ Marks(m) /\ Timers(m, {}) /\ Owed(m)
      /\ Deleted(m, dead) /\ Halted(m, rs, ps)
  BY DEF Sound
<1>2. Parking(n) /\ Marks(n) /\ Timers(n, {}) /\ Owed(n)
  BY <1>1 DEF Parking, Marks, Timers, Owed, SameRunners
<1>3. Deleted(n, dead) /\ Halted(n, rs, ps)
  BY <1>1 DEF Deleted, Halted, SameRunners
<1> QED BY <1>2, <1>3, EditSound

LEMMA UnmarkedFacts ==
    ASSUME QueueIInv, NEW f
    PROVE  /\ IsState(Unmarked(Now, f)) /\ SameRunners(Now, Unmarked(Now, f))
           /\ Unmarked(Now, f).pending = Now.pending /\ Unmarked(Now, f).queued = Now.queued
           /\ Unmarked(Now, f).retry = Now.retry /\ Unmarked(Now, f).tries = Now.tries
           /\ Unmarked(Now, f).stop = Now.stop /\ Unmarked(Now, f).injected = Now.injected
           /\ Unmarked(Now, f).owed = Now.owed /\ Unmarked(Now, f).waiting = Now.waiting
           /\ Unmarked(Now, f).stopped \subseteq Now.stopped
           /\ Unmarked(Now, f).owes = Now.owes /\ Unmarked(Now, f).halted = Now.halted
           /\ Unmarked(Now, f).gated = Gated
<1> DEFINE n == Unmarked(Now, f)
<1>1. CASE n = Now
  BY <1>1, NowIsState DEF SameRunners
<1>2. CASE n = [Now EXCEPT !.stopped = @ \ {f}]
  <2> HIDE DEF n
  <2>1. /\ IsState(n) /\ SameRunners(Now, n)
        /\ n.pending = Now.pending /\ n.queued = Now.queued
        /\ n.retry = Now.retry /\ n.tries = Now.tries
        /\ n.stop = Now.stop /\ n.injected = Now.injected
        /\ n.owed = Now.owed /\ n.waiting = Now.waiting
        /\ n.stopped \subseteq Now.stopped
        /\ n.owes = Now.owes /\ n.halted = Now.halted /\ n.gated = Gated
    BY <1>2, NowIsState DEF IsState, Fields, SameRunners
  <2> QED BY <2>1 DEF n
<1> QED BY <1>1, <1>2 DEF Unmarked

\* drainWaiting once every jid of `js' with work waits.
LEMMA ReopenedStep ==
    ASSUME QueueIInv, NEW m, NEW f, IsState(m), SameRunners(Now, m),
           m.gated = Gated', m.waiting = waitingGroups,
           Sound(m, {}, terminalDiscardMutationKeys, restarts, mutationPreserveStopJids),
           restarts' = restarts, mutationPreserveStopJids' = mutationPreserveStopJids,
           terminalDiscardMutationKeys' = terminalDiscardMutationKeys,
           UNCHANGED settingVars, Reopened(m, f)
    PROVE  SoundAfter /\ WokenAfter /\ Orderly
<1> DEFINE js == {j \in Family(f) : HasWork(m, j)}
           n == [m EXCEPT !.waiting = @ \cup {j \in Family(f) : HasWork(m, j)}]
           dead == terminalDiscardMutationKeys
           rs == restarts
           ps == mutationPreserveStopJids
<1>1. DrainWaiting(n)
  BY DEF Reopened
<1>2. /\ IsState(n) /\ SameRunners(m, n) /\ n.gated = m.gated
      /\ n.pending = m.pending /\ n.queued = m.queued /\ n.retry = m.retry
      /\ n.tries = m.tries /\ n.stop = m.stop /\ n.injected = m.injected
      /\ n.owed = m.owed /\ n.waiting = m.waiting \cup js /\ n.stopped = m.stopped
      /\ n.owes = m.owes /\ n.halted = m.halted
  BY DEF IsState, Fields, SameRunners
<1>3. js \subseteq Jids
  BY DEF Family
<1> HIDE DEF n, js
<1>4. Sound(n, {}, dead, rs, ps)
  <2>1. Sound(m, {}, dead, rs, ps)
    OBVIOUS
  <2>2. n.waiting \subseteq Jids /\ n.owes \in BOOLEAN
    BY <1>2, <1>3, <2>1 DEF Sound, Parking, Marks
  <2>3. n.stopped \subseteq m.stopped
    BY <1>2
  <2> HIDE DEF dead, rs, ps
  <2> QED BY <1>2, <2>1, <2>2, <2>3, RegatedSound
<1>5. SameRunners(Now, n) /\ n.gated = Gated'
  BY <1>2 DEF SameRunners
<1>6. Sound(n, {}, dead, restarts', mutationPreserveStopJids')
  BY <1>4
<1>7. maxConcurrentContainers' = maxConcurrentContainers /\ shuttingDown' = shuttingDown
  BY DEF settingVars
<1> QED BY <1>1, <1>5, <1>6, <1>7, HandlerStep

LEMMA PauseStep ==
    ASSUME QueueIInv, NEW f \in Folders, Pause(f)
    PROVE  SoundAfter /\ WokenAfter /\ Orderly
<1>1. Gated \subseteq Gated'
  BY DEF Pause, Gated, QueueIInv, GateTypes
<1> QED BY <1>1, InvFacts, UnchangedStep DEF Pause, settingVars

LEMMA BlockForSafetyStep ==
    ASSUME QueueIInv, NEW f \in Folders, BlockForSafety(f)
    PROVE  SoundAfter /\ WokenAfter /\ Orderly
<1>1. Gated \subseteq Gated'
  BY DEF BlockForSafety, Gated
<1> QED BY <1>1, InvFacts, UnchangedStep DEF BlockForSafety, settingVars

LEMMA CancelTaskStep ==
    ASSUME QueueIInv, NEW t, CancelTask(t)
    PROVE  SoundAfter /\ WokenAfter /\ Orderly
<1>1. Gated \subseteq Gated'
  BY DEF CancelTask, gateVars, Gated
<1> QED BY <1>1, InvFacts, UnchangedStep DEF CancelTask, gateVars

LEMMA UnblockForSafetyStep ==
    ASSUME QueueIInv, NEW f \in Folders, UnblockForSafety(f)
    PROVE  SoundAfter /\ WokenAfter /\ Orderly
<1> DEFINE open == {g \in Gated : g # f \/ mutationPauseCounts[g] > 0}
           m == [Now EXCEPT !.gated = {g \in Gated : g # f \/ mutationPauseCounts[g] > 0}]
<1>1. /\ runtimeSafetyBlocks' = runtimeSafetyBlocks \ {f} /\ Reopened(m, f)
      /\ mutationPauseCounts' = mutationPauseCounts
      /\ terminalDiscardMutationKeys' = terminalDiscardMutationKeys
      /\ mutationPreserveStopJids' = mutationPreserveStopJids /\ restarts' = restarts
      /\ UNCHANGED settingVars
  BY DEF UnblockForSafety
<1>2. open = Gated'
  BY <1>1 DEF Gated, QueueIInv, GateTypes
<1>3. /\ IsState(m) /\ SameRunners(Now, m) /\ m.gated = open
      /\ m.pending = Now.pending /\ m.queued = Now.queued /\ m.retry = Now.retry
      /\ m.tries = Now.tries /\ m.stop = Now.stop /\ m.injected = Now.injected
      /\ m.owed = Now.owed /\ m.waiting = Now.waiting /\ m.stopped = Now.stopped
      /\ m.owes = Now.owes /\ m.halted = Now.halted
  BY NowIsState DEF IsState, Fields, SameRunners
<1> HIDE DEF m, open
<1>4. Sound(m, {}, terminalDiscardMutationKeys, restarts, mutationPreserveStopJids)
  <2>1. m.waiting \subseteq Jids /\ m.owes \in BOOLEAN /\ m.stopped \subseteq Now.stopped
    BY <1>3, InvFacts DEF Parking, Marks
  <2> QED BY <1>3, <2>1, RegatedSound DEF QueueIInv, GroupsSound
<1>5. m.gated = Gated' /\ m.waiting = waitingGroups
  BY <1>2, <1>3, NowIsState
<1> QED BY <1>1, <1>3, <1>4, <1>5, ReopenedStep

\* Set does not look at the gate.
LEMMA SetRegated ==
    ASSUME NEW m, NEW n, Set(m), SameRunners(m, n), n.pending = m.pending,
           n.queued = m.queued, n.retry = m.retry, n.tries = m.tries, n.stop = m.stop,
           n.injected = m.injected, n.owed = m.owed, n.waiting = m.waiting,
           n.stopped = m.stopped, n.owes = m.owes, n.halted = m.halted
    PROVE  Set(n)
  BY DEF Set, Settle, TimersAfterStart, SameRunners

LEMMA ResumeStep ==
    ASSUME QueueIInv, NEW f \in Folders, Resume(f)
    PROVE  SoundAfter /\ WokenAfter /\ Orderly
<1> DEFINE u == Unmarked(Now, f)
           m == [u EXCEPT !.gated = GateAfterResume(f)]
           n == Emptied(m, Family(f))
           dead == terminalDiscardMutationKeys
           rs == restarts
           ps == mutationPreserveStopJids
           last == mutationPauseCounts[f] = 1
<1>1. /\ mutationPauseCounts[f] > 0
      /\ mutationPauseCounts' = [mutationPauseCounts EXCEPT ![f] = @ - 1]
      /\ UNCHANGED <<runtimeSafetyBlocks, terminalDiscardMutationKeys,
                     mutationPreserveStopJids, restarts, settingVars>>
  BY DEF Resume
<1>2. /\ maxConcurrentContainers' = maxConcurrentContainers /\ shuttingDown' = shuttingDown
      /\ dead' = dead /\ rs' = rs /\ ps' = ps
  BY <1>1 DEF settingVars
<1>g. mutationPauseCounts \in [Folders -> 0..MaxPauses] /\ MaxPauses \in Nat
  BY QueueAssumption DEF QueueIInv, GateTypes
<1>3. IF last THEN Gated' = GateAfterResume(f) ELSE Gated' = Gated
  BY <1>1, <1>g DEF Gated, GateAfterResume
<1>4. CASE ~last /\ UNCHANGED groupVars
  BY <1>2, <1>3, <1>4, InvFacts, UnchangedStep
<1>5. /\ IsState(u) /\ SameRunners(Now, u)
      /\ u.pending = Now.pending /\ u.queued = Now.queued /\ u.retry = Now.retry
      /\ u.tries = Now.tries /\ u.stop = Now.stop /\ u.injected = Now.injected
      /\ u.owed = Now.owed /\ u.waiting = Now.waiting /\ u.stopped \subseteq Now.stopped
      /\ u.owes = Now.owes /\ u.halted = Now.halted
  BY UnmarkedFacts
<1>6. /\ IsState(m) /\ SameRunners(u, m) /\ m.gated = GateAfterResume(f)
      /\ m.pending = u.pending /\ m.queued = u.queued /\ m.retry = u.retry
      /\ m.tries = u.tries /\ m.stop = u.stop /\ m.injected = u.injected
      /\ m.owed = u.owed /\ m.waiting = u.waiting /\ m.stopped = u.stopped
      /\ m.owes = u.owes /\ m.halted = u.halted
  <2> HIDE DEF u
  <2> QED BY <1>5 DEF IsState, Fields, SameRunners
<1>7. SameRunners(Now, m)
  <2> HIDE DEF u, m
  <2> QED BY <1>5, <1>6 DEF SameRunners
<1>d. \/ last /\ f \in dead /\ Set(n)
      \/ last /\ Reopened(m, f)
      \/ ~last /\ UNCHANGED groupVars
  BY DEF Resume
<1> HIDE DEF u, m
<1>8. Sound(m, {}, dead, rs, ps)
  <2>1. m.waiting \subseteq Jids /\ m.owes \in BOOLEAN
    BY <1>5, <1>6, InvFacts DEF Parking, Marks
  <2>2. Sound(Now, {}, dead, rs, ps)
    BY DEF QueueIInv, GroupsSound
  <2>3. /\ m.pending = Now.pending /\ m.queued = Now.queued /\ m.retry = Now.retry
        /\ m.tries = Now.tries /\ m.stop = Now.stop /\ m.injected = Now.injected
        /\ m.owed = Now.owed /\ m.stopped \subseteq Now.stopped /\ m.halted = Now.halted
    BY <1>5, <1>6
  <2> HIDE DEF dead, rs, ps
  <2> QED BY <1>6, <1>7, <2>1, <2>2, <2>3, RegatedSound
<1>9. CASE last /\ Reopened(m, f)
  <2>1. m.waiting = waitingGroups /\ m.gated = Gated'
    BY <1>3, <1>5, <1>6, <1>9, NowIsState
  <2>2. IsState(m) /\ UNCHANGED settingVars
    BY <1>1, <1>6
  <2> QED BY <1>2, <1>7, <1>8, <1>9, <2>1, <2>2, ReopenedStep
<1>10. CASE last /\ f \in dead /\ Set(n)
  <2>1. /\ Sound(n, {}, dead, rs, ps) /\ SameRunners(m, n) /\ n.gated = m.gated
        /\ n.waiting = m.waiting \ Family(f) /\ n.owes = m.owes
    <3>1. Family(f) \in SUBSET Jids
      BY DEF Family
    <3>2. dead \ dead = {} /\ ps \subseteq ps
      OBVIOUS
    <3> HIDE DEF dead, rs, ps
    <3> QED BY <1>8, <3>1, <3>2, EmptiedSound
  <2>2. Set(n)
    BY <1>10
  <2> HIDE DEF n
  <2>3. SameRunners(Now, n) /\ n.gated = Gated'
    BY <1>3, <1>6, <1>7, <1>10, <2>1 DEF SameRunners
  <2>4. ~shuttingDown' => Wake(n, maxConcurrentContainers')
    <3>1. ASSUME NEW j \in n.waiting, Blocked(Now, j, maxConcurrentContainers)
          PROVE  Blocked(n, j, maxConcurrentContainers)
      <4>1. /\ n.active = Now.active /\ n.slots = Now.slots /\ Now.gated = Gated
            /\ n.gated = GateAfterResume(f)
        BY <1>6, <2>1, <2>3, NowIsState DEF SameRunners
      <4>2. Folder[j] # f
        BY <2>1, <3>1, <1>5, <1>6, InvFacts DEF Family, Parking
      <4>3. Folder[j] \in Gated => Folder[j] \in GateAfterResume(f)
        BY <4>2 DEF GateAfterResume
      <4> QED BY <3>1, <4>1, <4>3 DEF Blocked
    <3>2. n.waiting \subseteq Now.waiting /\ n.owes = Now.owes
      BY <1>5, <1>6, <2>1
    <3> QED BY <1>2, <3>1, <3>2, InvFacts DEF Wake
  <2>5. /\ IsState(n) /\ Parking(n) /\ Marks(n) /\ Timers(n, {}) /\ Owed(n)
        /\ Deleted(n, dead') /\ Halted(n, rs', ps')
    BY <1>2, <2>1 DEF Sound
  <2> QED BY <2>2, <2>3, <2>4, <2>5, EditStep
<1> QED BY <1>4, <1>9, <1>10, <1>d

LEMMA DiscardStep ==
    ASSUME QueueIInv, NEW f \in Folders, Discard(f)
    PROVE  SoundAfter /\ WokenAfter /\ Orderly
<1> DEFINE m == IF mutationPauseCounts[f] = 1 THEN Unmarked(Now, f) ELSE Now
           e == Emptied(m, Family(f))
           n == [e EXCEPT !.gated = Gated']
           dead == terminalDiscardMutationKeys
           rs == restarts
           ps == mutationPreserveStopJids
<1>1. /\ mutationPauseCounts[f] > 0 /\ active \cap Family(f) = {}
      /\ mutationPauseCounts' = [mutationPauseCounts EXCEPT ![f] = @ - 1]
      /\ dead' = dead \cup {f} /\ ps' = ps \ Family(f) /\ Set(e)
      /\ UNCHANGED <<runtimeSafetyBlocks, restarts, settingVars>>
  BY DEF Discard
<1>2. /\ maxConcurrentContainers' = maxConcurrentContainers /\ shuttingDown' = shuttingDown
      /\ rs' = rs
  BY <1>1 DEF settingVars
<1>3. /\ IsState(m) /\ SameRunners(Now, m)
      /\ m.pending = Now.pending /\ m.queued = Now.queued /\ m.retry = Now.retry
      /\ m.tries = Now.tries /\ m.stop = Now.stop /\ m.injected = Now.injected
      /\ m.owed = Now.owed /\ m.waiting = Now.waiting /\ m.stopped \subseteq Now.stopped
      /\ m.owes = Now.owes /\ m.halted = Now.halted
  <2>1. SameRunners(Now, Now)
    BY DEF SameRunners
  <2> QED BY <2>1, NowIsState, UnmarkedFacts
<1> HIDE DEF m
<1>4. Sound(m, {}, dead, rs, ps)
  <2>1. m.waiting \subseteq Jids /\ m.owes \in BOOLEAN
    BY <1>3, InvFacts DEF Parking, Marks
  <2>2. Sound(Now, {}, dead, rs, ps)
    BY DEF QueueIInv, GroupsSound
  <2> HIDE DEF dead, rs, ps
  <2> QED BY <1>3, <2>1, <2>2, RegatedSound
<1>5. /\ Sound(e, {}, dead', rs, ps') /\ SameRunners(m, e)
      /\ e.waiting = m.waiting \ Family(f) /\ e.owes = m.owes
  <2>1. Family(f) \in SUBSET Jids /\ ps' \subseteq ps
    BY <1>1 DEF Family
  <2>2. \A j \in Jids : Folder[j] \in dead' \ dead => j \in Family(f) \ m.active
    BY <1>1, <1>3, NowIsState DEF Family, SameRunners
  <2> HIDE DEF dead, rs, ps
  <2> QED BY <1>4, <2>1, <2>2, EmptiedSound
<1>6. IsState(e)
  BY <1>5 DEF Sound
<1> HIDE DEF e
<1>7. /\ IsState(n) /\ SameRunners(e, n) /\ n.pending = e.pending
      /\ n.queued = e.queued /\ n.retry = e.retry /\ n.tries = e.tries /\ n.stop = e.stop
      /\ n.injected = e.injected /\ n.owed = e.owed /\ n.waiting = e.waiting
      /\ n.stopped = e.stopped /\ n.owes = e.owes /\ n.halted = e.halted
      /\ n.gated = Gated'
  BY <1>6 DEF IsState, Fields, SameRunners
<1> HIDE DEF n
<1>8. Set(n)
  BY <1>1, <1>7, SetRegated
<1>9. Sound(n, {}, dead', rs, ps')
  <2>1. n.waiting \subseteq Jids /\ n.owes \in BOOLEAN /\ n.stopped \subseteq e.stopped
    BY <1>5, <1>7 DEF Sound, Parking, Marks
  <2> QED BY <1>5, <1>7, <2>1, RegatedSound
<1>10. /\ IsState(n) /\ Parking(n) /\ Marks(n) /\ Timers(n, {}) /\ Owed(n)
       /\ Deleted(n, dead') /\ Halted(n, rs', ps')
  BY <1>2, <1>9 DEF Sound
<1>11. SameRunners(Now, n) /\ n.gated = Gated'
  BY <1>3, <1>5, <1>7 DEF SameRunners
<1>12. ~shuttingDown' => Wake(n, maxConcurrentContainers')
  <2>1. ASSUME NEW j \in n.waiting, Blocked(Now, j, maxConcurrentContainers)
        PROVE  Blocked(n, j, maxConcurrentContainers)
    <3>1. n.active = Now.active /\ n.slots = Now.slots /\ Now.gated = Gated
      BY <1>11, NowIsState DEF SameRunners
    <3>2. j \in Jids /\ Folder[j] # f
      BY <1>3, <1>5, <1>7, <2>1, InvFacts DEF Family, Parking
    <3>3. Folder[j] \in Gated => Folder[j] \in Gated'
      BY <1>1, <3>2 DEF Gated, Folders, QueueIInv, GateTypes
    <3> QED BY <1>7, <2>1, <3>1, <3>3 DEF Blocked
  <2>2. n.waiting \subseteq Now.waiting /\ n.owes = Now.owes
    BY <1>3, <1>5, <1>7
  <2> QED BY <1>2, <2>1, <2>2, InvFacts DEF Wake
<1> QED BY <1>8, <1>10, <1>11, <1>12, EditStep

LEMMA ChangeLimitStep ==
    ASSUME QueueIInv, NEW limit \in 1..MaxLimit, ChangeLimit(limit)
    PROVE  SoundAfter /\ WokenAfter /\ Orderly
<1> DEFINE n == [Now EXCEPT !.owes = @ \/ limit > maxConcurrentContainers]
<1>1. /\ Set(n) /\ maxConcurrentContainers' = limit
      /\ UNCHANGED <<gateVars, restarts, shuttingDown>>
  BY DEF ChangeLimit
<1>2. /\ IsState(n) /\ SameRunners(Now, n) /\ n.gated = Gated
      /\ n.pending = Now.pending /\ n.queued = Now.queued /\ n.retry = Now.retry
      /\ n.tries = Now.tries /\ n.stop = Now.stop /\ n.injected = Now.injected
      /\ n.owed = Now.owed /\ n.waiting = Now.waiting /\ n.stopped = Now.stopped
      /\ n.halted = Now.halted
      /\ n.owes = (Now.owes \/ limit > maxConcurrentContainers)
  BY NowIsState DEF IsState, Fields, SameRunners
<1> HIDE DEF n
<1>3. Parking(n) /\ Marks(n) /\ Timers(n, {}) /\ Owed(n)
  BY <1>2, InvFacts DEF Parking, Marks, Timers, SameRunners, Owed
<1>4. /\ Deleted(n, terminalDiscardMutationKeys)
      /\ Halted(n, restarts, mutationPreserveStopJids)
  BY <1>2, InvFacts DEF Deleted, Halted, SameRunners
<1>5. /\ Gated' = Gated /\ terminalDiscardMutationKeys' = terminalDiscardMutationKeys
      /\ mutationPreserveStopJids' = mutationPreserveStopJids
      /\ restarts' = restarts /\ shuttingDown' = shuttingDown
  BY <1>1 DEF gateVars, Gated
<1>6. ~shuttingDown' => Wake(n, maxConcurrentContainers')
  <2> SUFFICES ASSUME ~shuttingDown, ~n.owes, NEW j \in n.waiting
               PROVE  Blocked(n, j, limit)
    BY <1>1, <1>5 DEF Wake
  <2>1. ~Now.owes /\ ~(limit > maxConcurrentContainers)
    BY <1>2
  <2>2. Blocked(Now, j, maxConcurrentContainers)
    BY <1>2, <2>1, InvFacts DEF Wake
  <2>3. /\ n.active = Now.active /\ n.slots = Now.slots /\ n.gated = Now.gated
        /\ Now.slots \in Nat /\ limit \in Nat /\ maxConcurrentContainers \in Nat
    BY <1>2, NowIsState, InvFacts, QueueAssumption DEF SameRunners
  <2> QED BY <2>1, <2>2, <2>3 DEF Blocked
<1>7. /\ Deleted(n, terminalDiscardMutationKeys')
      /\ Halted(n, restarts', mutationPreserveStopJids')
      /\ n.gated = Gated'
  BY <1>2, <1>4, <1>5
<1> QED BY <1>1, <1>2, <1>3, <1>6, <1>7, EditStep

LEMMA ShutdownStep ==
    ASSUME QueueIInv, Shutdown
    PROVE  SoundAfter /\ WokenAfter /\ Orderly
<1> DEFINE m == Cleared(Now, Jids)
           n == [m EXCEPT !.queued = [j \in Jids |-> <<>>], !.waiting = {}]
           dead == terminalDiscardMutationKeys
           rs == restarts
           ps == mutationPreserveStopJids
<1>1. Set(n) /\ shuttingDown' = TRUE /\ UNCHANGED <<gateVars, restarts>>
  BY DEF Shutdown
<1>2. Sound(m, {}, dead, rs, ps) /\ SameRunners(Now, m) /\ SameMarks(Now, m)
  <2>1. Sound(Now, {}, dead, rs, ps)
    BY DEF QueueIInv, GroupsSound
  <2> HIDE DEF dead, rs, ps
  <2> QED BY <2>1, ClearedSound
<1>c. /\ IsState(m) /\ Runners(m) /\ Parking(m) /\ Marks(m) /\ Timers(m, {}) /\ Owed(m)
      /\ Deleted(m, dead) /\ Halted(m, rs, ps)
  BY <1>2 DEF Sound
<1> HIDE DEF m
<1>3. /\ IsState(n) /\ SameRunners(m, n) /\ SameMarks(m, n)
      /\ n.pending = m.pending /\ n.queued = [j \in Jids |-> <<>>] /\ n.retry = m.retry
      /\ n.tries = m.tries /\ n.waiting = {} /\ n.owes = m.owes
  BY <1>c DEF IsState, Fields, SameRunners, SameMarks
<1> HIDE DEF n
<1>4. Parking(n) /\ Marks(n) /\ Timers(n, {}) /\ Owed(n)
  <2>1. n.queued \in [Jids -> Seq(Tasks)]
    <3>1. <<>> \in Seq(Tasks)
      OBVIOUS
    <3> QED BY <1>3, <3>1
  <2> QED BY <1>c, <1>3, <2>1 DEF Parking, Marks, Timers, Owed, SameRunners, SameMarks
<1>5. Deleted(n, dead) /\ Halted(n, rs, ps)
  <2>1. m.halted \subseteq Jids
    BY <1>c DEF Marks
  <2> QED BY <1>c, <1>3, <2>1 DEF Deleted, Halted, SameRunners, SameMarks
<1>6. Wake(n, maxConcurrentContainers')
  BY <1>3 DEF Wake
<1>7. /\ Gated' = Gated /\ dead' = dead /\ rs' = rs /\ ps' = ps
  BY <1>1 DEF gateVars, Gated
<1>8. SameRunners(Now, n) /\ n.gated = Gated'
  BY <1>2, <1>3, <1>7, NowIsState DEF SameRunners, SameMarks
<1>9. Deleted(n, dead') /\ Halted(n, rs', ps')
  BY <1>5, <1>7
<1> QED BY <1>1, <1>3, <1>4, <1>6, <1>8, <1>9, EditStep

-----------------------------------------------------------------------------
(* The invariant holds, and what follows from it                            *)

LEMMA InitInv == Init => QueueIInv
<1> SUFFICES ASSUME Init PROVE QueueIInv
  OBVIOUS
<1>1. /\ active = {} /\ registered = {} /\ givingUp = {} /\ job = [j \in Jids |-> None]
      /\ pendingMessages = {} /\ pendingTasks = [j \in Jids |-> <<>>]
      /\ retryTimer = [j \in Jids |-> None] /\ retryCount = [j \in Jids |-> 0]
      /\ stopRequested = {} /\ hasIpcInjectedMessages = {}
      /\ pendingIpcDeliveries = [j \in Jids |-> {}] /\ waitingGroups = {}
      /\ activeContainerCount = 0 /\ recentlyStoppedFolders = {} /\ owesWake = FALSE
      /\ halted = {}
  BY DEF Init
<1>2. GateTypes
  <2>1. 0 \in 0..MaxPauses
    BY QueueAssumption
  <2>2. mutationPauseCounts \in [Folders -> 0..MaxPauses]
    BY <2>1 DEF Init
  <2> QED BY <2>2 DEF Init, GateTypes
<1>3. Runners(Now)
  BY <1>1, NowIsState DEF Runners, Jobs
<1>4. Parking(Now)
  <2>1. None \in Jobs \ Scheduled /\ 0 \in 0..MaxRetries /\ <<>> \in Seq(Tasks)
    BY Names, QueueAssumption DEF Jobs
  <2> QED BY <1>1, <2>1, NowIsState DEF Parking
<1>5. Marks(Now)
  BY <1>1, NowIsState DEF Marks
<1>6. Counted(Now)
  <2>1. {} \cap Boxed = {} /\ Cardinality({}) = 0
    BY FS_EmptySet
  <2> QED BY <1>1, <2>1, NowIsState DEF Counted
<1>7. OneKey(Now) /\ Timers(Now, {}) /\ Owed(Now)
  BY <1>1, NowIsState DEF OneKey, Timers, Owed
<1>8. /\ Deleted(Now, terminalDiscardMutationKeys)
      /\ Halted(Now, restarts, mutationPreserveStopJids)
  BY <1>1, NowIsState DEF Deleted, Halted
<1>9. GroupsSound
  BY <1>3, <1>4, <1>5, <1>6, <1>7, <1>8, NowIsState DEF GroupsSound, Sound
<1>10. Woken
  BY <1>1, NowIsState DEF Woken, Wake
<1> QED BY <1>2, <1>9, <1>10 DEF QueueIInv

LEMMA GateTypesStep ==
    ASSUME QueueIInv, Next
    PROVE  GateTypes'
<1>c. GateTypes /\ MaxPauses \in Nat /\ MaxLimit \in Nat \ {0}
  BY QueueAssumption DEF QueueIInv
<1>1. CASE UNCHANGED <<gateVars, restarts, settingVars>>
  BY <1>c, <1>1 DEF GateTypes, gateVars, settingVars
<1>2. ASSUME NEW j \in Jids, StopGroup(j) PROVE GateTypes'
  BY <1>c, <1>2 DEF StopGroup, GateTypes, settingVars
<1>3. ASSUME NEW j \in Jids, StopForMutation(j) PROVE GateTypes'
  <2>1. /\ mutationPreserveStopJids' = mutationPreserveStopJids \cup {Runner(j)}
        /\ mutationStoppedFolders' = mutationStoppedFolders
               \cup {Folder[h] : h \in {j, Runner(j)} \cap registered}
        /\ UNCHANGED <<mutationPauseCounts, runtimeSafetyBlocks,
                       terminalDiscardMutationKeys, restarts, settingVars>>
    BY <1>3 DEF StopForMutation
  <2>2. Runner(j) \in Jids /\ {Folder[h] : h \in {j, Runner(j)} \cap registered} \subseteq Folders
    BY RunnerOfKey DEF Folders
  <2> QED BY <1>c, <2>1, <2>2 DEF GateTypes, settingVars
<1>4. ASSUME NEW j \in Jids, StopForMutationReturns(j) PROVE GateTypes'
  BY <1>c, <1>4 DEF StopForMutationReturns, GateTypes, settingVars
<1>5. ASSUME NEW j \in Jids, RestartGroup(j) PROVE GateTypes'
  <2>1. Runner(j) \in Jids
    BY RunnerOfKey
  <2>2. restarts' = restarts \cup {<<j, Runner(j)>>} /\ UNCHANGED <<gateVars, settingVars>>
    BY <1>5 DEF RestartGroup
  <2> QED BY <1>c, <2>1, <2>2 DEF GateTypes, gateVars, settingVars
<1>6. ASSUME NEW p, RestartLaunches(p) \/ RestartFails(p) PROVE GateTypes'
  BY <1>c, <1>6 DEF RestartLaunches, RestartFails, GateTypes, gateVars, settingVars
<1>7. ASSUME NEW f \in Folders, Pause(f) PROVE GateTypes'
  <2>1. [mutationPauseCounts EXCEPT ![f] = @ + 1] \in [Folders -> 0..MaxPauses]
    BY <1>c, <1>7 DEF Pause, GateTypes
  <2> QED BY <1>c, <1>7, <2>1 DEF Pause, GateTypes, settingVars
<1>8. ASSUME NEW f \in Folders, Resume(f) PROVE GateTypes'
  <2>1. [mutationPauseCounts EXCEPT ![f] = @ - 1] \in [Folders -> 0..MaxPauses]
    BY <1>c, <1>8 DEF Resume, GateTypes
  <2>2. mutationStoppedFolders' \subseteq Folders
    BY <1>c, <1>8 DEF Resume, GateTypes
  <2>3. /\ mutationPauseCounts' = [mutationPauseCounts EXCEPT ![f] = @ - 1]
        /\ UNCHANGED <<runtimeSafetyBlocks, terminalDiscardMutationKeys,
                       mutationPreserveStopJids, restarts, settingVars>>
    BY <1>8 DEF Resume
  <2> QED BY <1>c, <2>1, <2>2, <2>3 DEF GateTypes, settingVars
<1>9. ASSUME NEW f \in Folders, Discard(f) PROVE GateTypes'
  <2>1. [mutationPauseCounts EXCEPT ![f] = @ - 1] \in [Folders -> 0..MaxPauses]
    BY <1>c, <1>9 DEF Discard, GateTypes
  <2>2. mutationStoppedFolders' \subseteq Folders
    BY <1>c, <1>9 DEF Discard, GateTypes
  <2>3. /\ mutationPauseCounts' = [mutationPauseCounts EXCEPT ![f] = @ - 1]
        /\ terminalDiscardMutationKeys' = terminalDiscardMutationKeys \cup {f}
        /\ mutationPreserveStopJids' \subseteq mutationPreserveStopJids
        /\ UNCHANGED <<runtimeSafetyBlocks, restarts, settingVars>>
    BY <1>9 DEF Discard
  <2> QED BY <1>c, <2>1, <2>2, <2>3 DEF GateTypes, settingVars
<1>10. ASSUME NEW f \in Folders, BlockForSafety(f) \/ UnblockForSafety(f) PROVE GateTypes'
  BY <1>c, <1>10 DEF BlockForSafety, UnblockForSafety, GateTypes, settingVars
<1>11. ASSUME NEW n \in 1..MaxLimit, ChangeLimit(n) PROVE GateTypes'
  BY <1>c, <1>11 DEF ChangeLimit, GateTypes, gateVars
<1>12. ASSUME NEW t \in Tasks, CancelTask(t) PROVE GateTypes'
  BY <1>c, <1>12 DEF CancelTask, GateTypes, gateVars
<1>13. CASE Shutdown
  BY <1>c, <1>13 DEF Shutdown, GateTypes, gateVars
<1>14. \A j \in Jids : Folder[j] \in Folders
  BY DEF Folders
<1>15. ASSUME NEW j \in Jids,
              \/ Arrival(j) \/ RunnerEnds(j) \/ RunnerReports(j) \/ RetryFires(j)
              \/ StopWindowPasses(Folder[j]) \/ RequestGracefulRestart(j)
       PROVE  UNCHANGED <<gateVars, restarts, settingVars>>
  BY <1>15 DEF Arrival, RunnerEnds, RunnerReports, EnqueueMessage, SendMessage, EnqueueTask,
     Succeed, Fail, GaveUp, Throw, RegisterProcess, Acknowledge, RetryFires, StopWindowPasses,
     RequestGracefulRestart
<1> QED BY <1>1, <1>2, <1>3, <1>4, <1>5, <1>6, <1>7, <1>8, <1>9, <1>10, <1>11, <1>12, <1>13,
           <1>14, <1>15 DEF Next, Stops, Restarts, Mutations, Blocks, Settings

LEMMA NextStep ==
    ASSUME QueueIInv, Next
    PROVE  QueueIInv' /\ Orderly
<1>1. \A j \in Jids : Folder[j] \in Folders
  BY DEF Folders
<1> DEFINE Goal == SoundAfter /\ WokenAfter /\ Orderly
<1>2. ASSUME NEW j \in Jids, Arrival(j) \/ RunnerEnds(j) \/ RunnerReports(j) \/ RetryFires(j)
      PROVE  Goal
  BY <1>2, EnqueueMessageStep, SendMessageStep, EnqueueTaskStep, SucceedStep, FailStep,
     GaveUpStep, ThrowStep, RegisterProcessStep, AcknowledgeStep, RetryFiresStep
     DEF Arrival, RunnerEnds, RunnerReports
<1>3. ASSUME NEW j \in Jids, Stops(j) \/ Restarts(j)
      PROVE  Goal
  BY <1>3, StopGroupStep, StopWindowPassesStep, RestartGroupStep, RequestGracefulRestartStep,
     RestartLaunchesStep, RestartFailsStep DEF Stops, Restarts
<1>4. ASSUME NEW j \in Jids, Mutations(j) \/ Blocks(j)
      PROVE  Goal
  BY <1>1, <1>4, StopForMutationStep, StopForMutationReturnsStep, PauseStep, ResumeStep,
     DiscardStep, BlockForSafetyStep, UnblockForSafetyStep DEF Mutations, Blocks
<1>5. ASSUME Settings \/ Shutdown
      PROVE  Goal
  BY <1>5, ChangeLimitStep, CancelTaskStep, ShutdownStep DEF Settings
<1>6. Goal
  BY <1>2, <1>3, <1>4, <1>5 DEF Next
<1> QED BY <1>6, GateTypesStep, NextIsAfter

LEMMA StutterInv ==
    ASSUME QueueIInv, UNCHANGED vars
    PROVE  QueueIInv' /\ Orderly
<1>1. UNCHANGED groupVars /\ UNCHANGED <<gateVars, restarts, settingVars>>
  BY DEF vars
<1>2. GateTypes'
  BY <1>1 DEF QueueIInv, GateTypes, gateVars, settingVars
<1>3. SoundAfter /\ WokenAfter /\ Orderly
  BY <1>1, SameGates, InvFacts, UnchangedStep
<1> QED BY <1>2, <1>3, NextIsAfter

\* The inductive invariant of the queue: the type of its gates, the soundness of its
\* groups and that whoever waits without a drain owed cannot start.
THEOREM QueueInvariance == Spec => []QueueIInv
<1>1. QueueIInv /\ [Next]_vars => QueueIInv'
  BY NextStep, StutterInv
<1> QED BY InitInv, <1>1, PTL DEF Spec

\* Each field has its type; a known process, an attempt being given up and a job
\* belong to a runner of the queue.
THEOREM QueueTypes == Spec => []QueueTypeOK
<1>1. QueueIInv => QueueTypeOK
  <2> SUFFICES ASSUME QueueIInv PROVE QueueTypeOK
    OBVIOUS
  <2>1. /\ Runners(Now) /\ Parking(Now) /\ Marks(Now) /\ Counted(Now) /\ Owed(Now) /\ GateTypes
    BY InvFacts DEF QueueIInv
  <2>2. retryTimer \in [Jids -> Tasks \cup {None, Messages}]
    BY <2>1, NowIsState DEF Parking, Jobs
  <2> QED BY <2>1, <2>2, NowIsState
          DEF QueueTypeOK, Runners, Parking, Marks, Counted, Owed, GateTypes, Jobs
<1> QED BY <1>1, QueueInvariance, PTL

\* Two jids of one serialization key never run at once (the guards of drainWaiting,
\* runForGroup and runTask).
THEOREM OneRunner == Spec => []OneRunnerPerKey
<1>1. QueueIInv => OneRunnerPerKey
  BY InvFacts, NowIsState DEF OneRunnerPerKey, OneKey
<1> QED BY <1>1, QueueInvariance, PTL

\* activeContainerCount is the number of runners in containers: the two `finally'
\* blocks give back each slot exactly once.
THEOREM SlotCount == Spec => []SlotsAreCounted
<1>1. QueueIInv => SlotsAreCounted
  BY InvFacts, NowIsState DEF SlotsAreCounted, Counted
<1> QED BY <1>1, QueueInvariance, PTL

\* A retry timer is never armed beside a runner of its jid (cancelRetryTimer at each
\* start, scheduleRetry at each end).
THEOREM NoTimerBesideRunner == Spec => []TimerHasNoRunner
<1>1. QueueIInv => TimerHasNoRunner
  BY InvFacts, NowIsState DEF TimerHasNoRunner, Timers
<1> QED BY <1>1, QueueInvariance, PTL

\* A waiting jid is gated, has a runner of its key or lacks a slot, unless a drain
\* is owed: drainGroup, drainWaiting and the admissions lose no wake-up.
THEOREM WakeupsAreKept == Spec => []NoLostWakeup
<1>1. QueueIInv => NoLostWakeup
  <2> SUFFICES ASSUME QueueIInv, ~owesWake, ~shuttingDown, NEW j \in waitingGroups
               PROVE  Closed(Now, j) \/ Busy(active, j) \/ ~Room(Now, 0, j)
    BY DEF NoLostWakeup
  <2>1. /\ Blocked(Now, j, maxConcurrentContainers) /\ Now.slots \in Nat
        /\ maxConcurrentContainers \in Nat
    BY InvFacts, NowIsState DEF Wake
  <2> QED BY <2>1, NowIsState, CannotStart
<1> QED BY <1>1, QueueInvariance, PTL

\* No runner starts behind a pause or a safety block, nor in a deleted workspace.
THEOREM GatesHoldAlways == Spec => GatesHold
<1>1. QueueIInv /\ [Next]_vars =>
          [\A j \in Jids : Started(j) =>
               Folder[j] \notin Gated' \cup terminalDiscardMutationKeys']_vars
  BY NextStep DEF Orderly
<1> QED BY <1>1, QueueInvariance, PTL DEF Spec, GatesHold

\* The steps that start containers stay within the setting in force.
THEOREM LimitHoldsAlways == Spec => StartsWithinLimit
<1>1. QueueIInv /\ [Next]_vars =>
          [activeContainerCount' > activeContainerCount =>
               activeContainerCount' <= maxConcurrentContainers']_vars
  BY NextStep DEF Orderly
<1> QED BY <1>1, QueueInvariance, PTL DEF Spec, StartsWithinLimit

\* The inputs that a runner leaves unacknowledged become work of their jids
\* (recoverUnacknowledgedIpcDeliveries in the `finally' blocks).
THEOREM InputsAreReplayed == Spec => UnacknowledgedIsReplayed
<1>1. QueueIInv /\ [Next]_vars =>
          [\A r \in active : \A c \in pendingIpcDeliveries[r] :
               /\ r \notin active' \/ (r \in registered /\ r \notin registered')
               /\ ~shuttingDown /\ Folder[c] \notin terminalDiscardMutationKeys
               => c \in pendingMessages' \cup active' \/ pendingTasks'[c] # <<>>]_vars
  BY NextStep DEF Orderly
<1> QED BY <1>1, QueueInvariance, PTL DEF Spec, UnacknowledgedIsReplayed

\* A stopped jid starts again only for input that arrived after the stop.
THEOREM StopsAreFinal == Spec => StoppedStaysStopped
<1>1. QueueIInv /\ [Next]_vars => [\A j \in halted \cap halted' : ~Started(j)]_vars
  <2>1. ASSUME Orderly, NEW j \in halted \cap halted', j \in Jids PROVE ~Started(j)
    BY <2>1 DEF Orderly
  <2>2. QueueIInv => halted \subseteq Jids
    BY InvFacts, NowIsState DEF Marks
  <2> QED BY <2>1, <2>2, NextStep
<1> QED BY <1>1, QueueInvariance, PTL DEF Spec, StoppedStaysStopped
=============================================================================
