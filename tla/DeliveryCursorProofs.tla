------------------------ MODULE DeliveryCursorProofs ------------------------
(***************************************************************************)
(* Proofs about DeliveryCursor: types, that no receipt is lost or in two    *)
(* places between the queue and the runner, how the cursors move, and that  *)
(* the Web page keeps the order of its follow-ups.                          *)
(***************************************************************************)
EXTENDS DeliveryCursor, SequenceTheorems, TLAPS

-----------------------------------------------------------------------------
(* The inductive invariant *)

\* No receipt is in two places.
Apart ==
    /\ \A i \in DOMAIN turns : turns[i] \cap inbox = {}
    /\ \A i, j \in DOMAIN turns : i # j => turns[i] \cap turns[j] = {}

\* Before a process is there nothing has been given to it.
DownIsEmpty ==
    runner \in {"off", "expanding"} =>
        holder = 0 /\ pending = {} /\ inbox = {} /\ turns = <<>>

CursorIInv ==
    /\ CursorTypeOK
    /\ acked \subseteq pending
    /\ ReceiptsTracked
    /\ Apart
    /\ DownIsEmpty

-----------------------------------------------------------------------------
(* What the operators do *)

LEMMA FlushedIsBounded ==
    ASSUME NEW X, NEW ledger
    PROVE  X \subseteq Flushed(X, ledger) /\ Flushed(X, ledger) \subseteq X \cup ledger
  BY DEF Flushed

LEMMA TakenIsAcknowledged ==
    ASSUME NEW X, NEW ledger, NEW acks
    PROVE  Taken(X, ledger, acks) \subseteq pending \cap acks
  BY DEF Taken

LEMMA ReachedIsBounded ==
    ASSUME NEW X \in SUBSET Cursors, NEW ledger \in SUBSET Msgs,
           pending \subseteq Receipts, NEW taken \in SUBSET pending
    PROVE  Reached(X, ledger, taken) \subseteq Cursors /\ X \subseteq Reached(X, ledger, taken)
  <1>1. CursorsOf(taken) \subseteq Msgs
    BY DEF CursorsOf, Receipts
  <1>2. Msgs \subseteq Cursors
    BY CursorAssumption DEF Msgs, Cursors
  <1>3. Flushed(X \cup CursorsOf(taken), ledger) \subseteq X \cup CursorsOf(taken) \cup ledger
    BY FlushedIsBounded
  <1>4. X \subseteq Flushed(X \cup CursorsOf(taken), ledger)
    BY FlushedIsBounded
  <1> QED
    BY <1>1, <1>2, <1>3, <1>4 DEF Reached

\* What moves forward stays in range.
Forward ==
    /\ committed' \in Cursors /\ pull' \in Cursors
    /\ committed <= committed' /\ pull <= pull'
    /\ deferred' \subseteq Msgs

LEMMA AdvanceIsForward ==
    ASSUME CursorTypeOK, NEW X \in SUBSET Cursors, NEW pulled \in SUBSET Cursors,
           NEW ledger \in SUBSET Msgs, AdvanceCursors(X, pulled, ledger)
    PROVE  Forward
  BY CursorAssumption DEF AdvanceCursors, IsLast, CursorTypeOK, Forward, Cursors, Msgs

\* The receipts that are left: of those, the acknowledged ones are still in `acks'.
Remain(acks) ==
    /\ pending' \subseteq pending
    /\ acked' \subseteq pending'
    /\ pending' \ acked' = pending \ acks

LEMMA SettleKeeps ==
    ASSUME CursorTypeOK, NEW X \in SUBSET Cursors, NEW pulled \in SUBSET Cursors,
           NEW ledger \in SUBSET Msgs, NEW acks \in SUBSET pending,
           Settle(X, pulled, ledger, acks)
    PROVE  Forward /\ Remain(acks)
  <1> DEFINE taken == Taken(X, ledger, acks)
  <1>1. taken \subseteq pending /\ taken \subseteq acks
    BY TakenIsAcknowledged
  <1>2. /\ AdvanceCursors(Reached(X, ledger, taken), pulled, ledger)
        /\ pending' = pending \ taken
        /\ acked' = acks \ taken
    BY DEF Settle
  <1>3. Reached(X, ledger, taken) \in SUBSET Cursors
    BY <1>1, ReachedIsBounded DEF CursorTypeOK
  <1>4. Forward
    BY <1>2, <1>3, AdvanceIsForward
  <1>5. Remain(acks)
    BY <1>1, <1>2 DEF Remain
  <1> QED
    BY <1>4, <1>5

LEMMA CompletionKeeps ==
    ASSUME CursorTypeOK, acked \subseteq pending, NEW P \in SUBSET Msgs,
           CompleteOutOfBand(P)
    PROVE  Forward /\ Remain(acked)
  <1> DEFINE ledger == deferred \cup P
             held   == \E m \in Visible' : m > committed /\ \A p \in P : m < p
  <1>1. /\ ledger \in SUBSET Msgs
        /\ P \in SUBSET Cursors
        /\ {committed} \in SUBSET Cursors
    BY CursorAssumption DEF CursorTypeOK, Cursors, Msgs
  <1>2. CASE held
    <2>1. AdvanceCursors({committed}, P, ledger) /\ UNCHANGED <<pending, acked>>
      BY <1>2 DEF CompleteOutOfBand
    <2>2. Forward
      BY <1>1, <2>1, AdvanceIsForward
    <2> QED
      BY <2>1, <2>2 DEF Remain
  <1>3. CASE ~held
    <2>1. Settle(Flushed({committed}, ledger), P, ledger, acked)
      BY <1>3 DEF CompleteOutOfBand
    <2>2. Flushed({committed}, ledger) \in SUBSET Cursors
      BY <1>1, FlushedIsBounded, CursorAssumption DEF Cursors, Msgs
    <2> QED
      BY <1>1, <2>1, <2>2, SettleKeeps
  <1> QED
    BY <1>2, <1>3

\* A new receipt is one nobody has seen.
Given(r) ==
    /\ r \in Receipts /\ r \notin pending
    /\ pending' = pending \cup {r}
    /\ inbox' = inbox \cup {r}

LEMMA InjectGives ==
    ASSUME CursorTypeOK, NEW B \in SUBSET Msgs, NEW c \in Msgs, Inject(B, c)
    PROVE  /\ \E r \in Receipts : Given(r)
           /\ Forward
           /\ current' = c /\ injected' = TRUE
           /\ runner \in {"busy", "idle", "reserved"}
           /\ UNCHANGED <<acked, turns, outcome>>
  <1> DEFINE ids == {0} \cup {r.id : r \in pending}
  <1>1. PICK n \in ids :
            LET receipt == [id |-> n + 1, cursor |-> c, covered |-> B]
            IN /\ IsLast(n, ids)
               /\ pending' = pending \cup {receipt}
               /\ inbox' = inbox \cup {receipt}
    BY DEF Inject
  <1> DEFINE receipt == [id |-> n + 1, cursor |-> c, covered |-> B]
  <1>2. \A k \in ids : k \in Nat
    BY DEF CursorTypeOK, Receipts
  <1>3. receipt \in Receipts
    BY <1>2 DEF Receipts
  <1>4. receipt \notin pending
    <2>1. SUFFICES ASSUME receipt \in pending PROVE FALSE
      OBVIOUS
    <2>2. n + 1 \in ids
      <3>1. receipt.id = n + 1
        OBVIOUS
      <3> QED
        BY <2>1, <3>1
    <2> QED
      BY <1>1, <1>2, <2>2 DEF IsLast
  <1>5. Forward
    BY CursorAssumption DEF Inject, Forward, Later, CursorTypeOK, Cursors, Msgs
  <1> QED
    BY <1>1, <1>3, <1>4, <1>5 DEF Inject, Given, Injectable

\* The queue and the runner have nothing any more.
Emptied ==
    /\ runner' = "off" /\ holder' = 0 /\ current' = 0 /\ injected' = FALSE
    /\ pending' = {} /\ acked' = {} /\ inbox' = {} /\ turns' = <<>>
    /\ outcome' = "open"
    /\ batch' \in [Readers -> SUBSET Msgs]
    /\ replies' \in [Readers -> SUBSET Msgs]

LEMMA ExitEmpties ==
    ASSUME CursorTypeOK, NEW X \in SUBSET Cursors, NEW left, Exit(X, left)
    PROVE  /\ Emptied
           /\ committed' \in Cursors /\ pull' \in Cursors /\ deferred' \subseteq Msgs
           /\ committed <= committed'
           /\ pull' < pull => pull' = committed'
           /\ UNCHANGED <<seen, fresh, claims, timer>>
  <1>1. committed' \in Cursors /\ committed <= committed'
    BY CursorAssumption DEF Exit, IsLast, CursorTypeOK, Cursors
  <1>2. pull' \in Cursors /\ (pull' < pull => pull' = committed')
    BY <1>1, CursorAssumption DEF Exit, PullAfterRun, Later, CursorTypeOK, Cursors
  <1>3. /\ batch' \in [Readers -> SUBSET Msgs]
        /\ replies' \in [Readers -> SUBSET Msgs]
    BY DEF Exit, CursorTypeOK
  <1> QED
    BY <1>1, <1>2, <1>3 DEF Exit, Emptied, CursorTypeOK, followVars

\* What a run commits when it ends.
LEMMA ColdCursorsAreMsgs ==
    ASSUME CursorTypeOK
    PROVE  /\ ToSend \subseteq Msgs /\ ColdCursors \subseteq Cursors
           /\ ColdCursors \subseteq Msgs /\ {committed} \subseteq Cursors
  BY CursorAssumption DEF CursorTypeOK, ToSend, ColdCursors, IsLast, Readers, Msgs, Cursors

LEMMA CommitAndExitEmpties ==
    ASSUME CursorTypeOK, CommitAndExit
    PROVE  \E left : \E X \in SUBSET Cursors : Exit(X, left)
  <1> DEFINE X == {committed} \cup ColdCursors
             taken == Taken(X, deferred, acked)
  <1>1. X \in SUBSET Cursors /\ deferred \in SUBSET Msgs /\ pending \subseteq Receipts
    BY ColdCursorsAreMsgs DEF CursorTypeOK
  <1>2. taken \in SUBSET pending
    BY TakenIsAcknowledged
  <1>3. Exit(Reached(X, deferred, taken), pending \ taken)
    BY DEF CommitAndExit
  <1> HIDE DEF X, taken
  <1>4. Reached(X, deferred, taken) \in SUBSET Cursors
    BY <1>1, <1>2, ReachedIsBounded
  <1> QED
    BY <1>3, <1>4

\* Where a run ends.
Ends ==
    \/ RunnerExits \/ InterruptedExits \/ RunGivesUp \/ RunFails \/ ColdAnswers
    \/ StopGroup

LEMMA EndsExit ==
    ASSUME CursorTypeOK, Ends
    PROVE  /\ \E left : \E X \in SUBSET Cursors : Exit(X, left)
           /\ row' = row
           /\ check' \in BOOLEAN /\ retry' \in BOOLEAN /\ resting' \in BOOLEAN
           /\ tries' \in 0..MaxTries
           /\ handled' \subseteq Msgs
  <1>1. ToSend \subseteq Msgs /\ ColdCursors \subseteq Cursors /\ {committed} \subseteq Cursors
    BY ColdCursorsAreMsgs
  <1>2. CASE RunnerExits \/ RunGivesUp
    <2>1. CommitAndExit
      BY <1>2 DEF RunnerExits, RunGivesUp
    <2>2. /\ row' = row /\ UNCHANGED <<retry, resting>> /\ check' \in BOOLEAN /\ tries' = 0
      BY <2>1 DEF CommitAndExit
    <2>3. handled' \subseteq Msgs
      BY <1>1, <1>2 DEF RunnerExits, RunGivesUp, CursorTypeOK
    <2> QED
      BY <2>1, <2>2, <2>3, CommitAndExitEmpties, CursorAssumption DEF CursorTypeOK
  <1>3. CASE Failure /\ UNCHANGED handled
    <2>1. /\ row' = row /\ Exit({committed}, pending)
          /\ check' \in BOOLEAN /\ retry' \in BOOLEAN /\ resting' \in BOOLEAN
          /\ handled' \subseteq Msgs
      BY <1>3 DEF Failure, CursorTypeOK
    <2>2. tries' \in 0..MaxTries
      BY <1>3, CursorAssumption DEF Failure, MayRetry, CursorTypeOK
    <2> QED
      BY <1>1, <2>1, <2>2
  <1>4. CASE ColdAnswers
    BY <1>1, <1>4, CursorAssumption DEF ColdAnswers, CursorTypeOK
  <1>5. CASE StopGroup
    <2> DEFINE X == IF pending = {} THEN {committed}
                    ELSE Flushed({committed} \cup CursorsOf(pending), deferred)
    <2>1. CursorsOf(pending) \subseteq Cursors /\ deferred \subseteq Cursors
      BY CursorAssumption DEF CursorsOf, CursorTypeOK, Receipts, Msgs, Cursors
    <2>2. X \cup ColdCursors \in SUBSET Cursors
      BY <1>1, <2>1, FlushedIsBounded
    <2>3. Exit(X \cup ColdCursors, {})
      BY <1>5 DEF StopGroup
    <2>4. UNION {r.covered : r \in pending} \subseteq Msgs
      BY DEF CursorTypeOK, Receipts
    <2>5. handled' \subseteq Msgs
      BY <1>1, <1>5, <2>4 DEF StopGroup, CursorTypeOK
    <2> QED
      BY <1>5, <2>2, <2>3, <2>5 DEF StopGroup, CursorTypeOK
  <1> QED
    BY <1>2, <1>3, <1>4, <1>5 DEF Ends, Failure, RunFails, InterruptedExits

\* The next query is reserved or the runner is idle.
LEMMA DispatchKeeps ==
    ASSUME CursorTypeOK, Dispatch
    PROVE  /\ row' \in [Msgs -> Rows] /\ claims' \subseteq Msgs
           /\ runner' \in {"idle", "reserved"} /\ holder' \in Cursors
  <1>1. CASE runner' = "idle" /\ holder' = 0 /\ UNCHANGED <<row, claims>>
    BY <1>1, CursorAssumption DEF CursorTypeOK, Cursors
  <1>2. ASSUME NEW q \in Queued, Reserve(q), row' = [row EXCEPT ![q] = "promoting"],
               claims' = claims \cup {q}
        PROVE  /\ row' \in [Msgs -> Rows] /\ claims' \subseteq Msgs
               /\ runner' \in {"idle", "reserved"} /\ holder' \in Cursors
    <2>1. q \in Msgs /\ q \in Cursors
      BY CursorAssumption DEF Queued, Msgs, Cursors
    <2>2. row' \in [Msgs -> Rows]
      BY <1>2, <2>1 DEF CursorTypeOK, Rows
    <2> QED
      BY <1>2, <2>1, <2>2 DEF CursorTypeOK, Reserve
  <1> QED
    BY <1>1, <1>2 DEF Dispatch

LEMMA IdleKeeps ==
    ASSUME CursorTypeOK, QueryIsIdle
    PROVE  /\ row' \in [Msgs -> Rows] /\ claims' \subseteq Msgs
           /\ runner' \in {"idle", "reserved"} /\ holder' \in Cursors
  <1>1. CASE runner = "idle"
    BY <1>1 DEF QueryIsIdle, CursorTypeOK
  <1>2. CASE Dispatch
    BY <1>2, DispatchKeeps
  <1> QED
    BY <1>1, <1>2 DEF QueryIsIdle

LEMMA ReleaseKeeps ==
    ASSUME CursorTypeOK, DownIsEmpty, NEW q \in Msgs, ReleaseReservation(q)
    PROVE  /\ runner' \in {"off", "expanding", "busy", "idle", "reserved"}
           /\ holder' \in Cursors
           /\ runner' \in {"off", "expanding"} => runner' = runner /\ holder' = 0
  BY CursorAssumption DEF ReleaseReservation, DownIsEmpty, CursorTypeOK, Msgs, Cursors

-----------------------------------------------------------------------------
(* The receipts in a step *)

\* How the cursors move.
Moves == /\ committed <= committed'
         /\ pull' < pull => pull' = committed'

LEMMA ForwardMoves ==
    ASSUME CursorTypeOK, Forward
    PROVE  Moves
  BY DEF Forward, Moves, CursorTypeOK, Cursors

\* Nothing is given or taken up.
LEMMA RemainKeeps ==
    ASSUME CursorIInv, Remain(acked), UNCHANGED <<inbox, turns>>,
           runner' \in {"off", "expanding"} => runner \in {"off", "expanding"} /\ holder' = 0
    PROVE  acked' \subseteq pending' /\ ReceiptsTracked' /\ Apart' /\ DownIsEmpty'
  <1>1. acked' \subseteq pending' /\ pending' \ acked' = pending \ acked /\ pending' \subseteq pending
    BY DEF Remain
  <1>2. ReceiptsTracked'
    BY <1>1 DEF ReceiptsTracked, CursorIInv
  <1>3. Apart'
    BY DEF Apart, CursorIInv
  <1>4. DownIsEmpty'
    BY <1>1 DEF DownIsEmpty, CursorIInv
  <1> QED
    BY <1>1, <1>2, <1>3, <1>4

LEMMA NoneRemain ==
    ASSUME CursorIInv, UNCHANGED <<pending, acked, inbox, turns>>,
           runner' \in {"off", "expanding"} => runner \in {"off", "expanding"} /\ holder' = 0
    PROVE  acked' \subseteq pending' /\ ReceiptsTracked' /\ Apart' /\ DownIsEmpty'
  <1>1. Remain(acked)
    BY DEF Remain, CursorIInv
  <1> QED
    BY <1>1, RemainKeeps

LEMMA GivenKeeps ==
    ASSUME CursorIInv, NEW r \in Receipts, Given(r), UNCHANGED <<acked, turns>>,
           runner \notin {"off", "expanding"}, runner' \notin {"off", "expanding"}
    PROVE  acked' \subseteq pending' /\ ReceiptsTracked' /\ Apart' /\ DownIsEmpty'
  <1>1. r \notin acked /\ \A i \in DOMAIN turns : r \notin turns[i]
    BY DEF Given, CursorIInv, ReceiptsTracked
  <1>2. acked' \subseteq pending'
    BY DEF Given, CursorIInv
  <1>3. ReceiptsTracked'
    <2>1. pending' \ acked' = (pending \ acked) \cup {r}
      BY <1>1 DEF Given
    <2> QED
      BY <2>1 DEF Given, CursorIInv, ReceiptsTracked
  <1>4. Apart'
    BY <1>1 DEF Apart, CursorIInv, Given
  <1>5. DownIsEmpty'
    BY DEF DownIsEmpty
  <1> QED
    BY <1>2, <1>3, <1>4, <1>5

LEMMA EmptiedKeeps ==
    ASSUME Emptied
    PROVE  acked' \subseteq pending' /\ ReceiptsTracked' /\ Apart' /\ DownIsEmpty'
  BY DEF Emptied, ReceiptsTracked, Apart, DownIsEmpty

-----------------------------------------------------------------------------
(* One lemma per group of actions *)

Tracked == acked \subseteq pending /\ ReceiptsTracked /\ Apart /\ DownIsEmpty

Kept == CursorTypeOK' /\ Tracked' /\ Moves

LEMMA StoreTypes ==
    ASSUME CursorTypeOK, NEW m \in Msgs, NEW status \in Rows, Store(m, status)
    PROVE  row' \in [Msgs -> Rows]
  BY DEF Store, CursorTypeOK

LEMMA SeenIsCursor ==
    ASSUME CursorTypeOK, NEW m \in Msgs
    PROVE  Later(seen, m) \in Cursors /\ m \in Cursors
  BY CursorAssumption DEF Later, CursorTypeOK, Msgs, Cursors

\* A step that leaves the cursors, the receipts and the runner alone.
LEMMA NothingMoves ==
    ASSUME CursorIInv, UNCHANGED <<pull, committed, runnerVars>>
    PROVE  Tracked' /\ Moves
  <1>1. Tracked'
    BY NoneRemain DEF runnerVars, Tracked, CursorIInv, DownIsEmpty
  <1>2. Moves
    BY DEF Moves, CursorIInv, CursorTypeOK, Cursors
  <1> QED
    BY <1>1, <1>2

\* Injections and out-of-band completions, as the actions use them.
LEMMA InjectKeeps ==
    ASSUME CursorIInv, NEW B \in SUBSET Msgs, NEW c \in Msgs, Inject(B, c),
           runner' \in {"busy", "idle", "reserved"}
    PROVE  /\ Tracked' /\ Moves /\ Forward
           /\ pending' \subseteq Receipts /\ acked' \subseteq Receipts
           /\ inbox' \subseteq Receipts
           /\ current' = c /\ injected' = TRUE
           /\ UNCHANGED <<turns, outcome>>
  <1>1. CursorTypeOK
    BY DEF CursorIInv
  <1>2. PICK r \in Receipts : Given(r)
    BY <1>1, InjectGives
  <1>3. /\ Forward /\ current' = c /\ injected' = TRUE
        /\ runner \in {"busy", "idle", "reserved"}
        /\ UNCHANGED <<acked, turns, outcome>>
    BY <1>1, InjectGives
  <1>4. Tracked' /\ Moves
    BY <1>1, <1>2, <1>3, GivenKeeps, ForwardMoves DEF Tracked
  <1> QED
    BY <1>1, <1>2, <1>3, <1>4 DEF Given, CursorTypeOK

LEMMA CompletionTracks ==
    ASSUME CursorIInv, NEW P \in SUBSET Msgs, CompleteOutOfBand(P),
           UNCHANGED <<inbox, turns>>,
           runner' \in {"off", "expanding"} => runner \in {"off", "expanding"} /\ holder' = 0
    PROVE  /\ Tracked' /\ Moves /\ Forward
           /\ pending' \subseteq Receipts /\ acked' \subseteq Receipts
  <1>1. CursorTypeOK /\ acked \subseteq pending
    BY DEF CursorIInv
  <1>2. Forward /\ Remain(acked)
    BY <1>1, CompletionKeeps
  <1>3. Tracked' /\ Moves
    BY <1>1, <1>2, RemainKeeps, ForwardMoves DEF Tracked
  <1> QED
    BY <1>1, <1>2, <1>3 DEF Remain, CursorTypeOK

LEMMA StoresKeep ==
    ASSUME CursorIInv, NEW m \in Msgs, Stores(m)
    PROVE  Kept
  <1>0. CursorTypeOK /\ DownIsEmpty
    BY DEF CursorIInv
  <1>s. Later(seen, m) \in Cursors
    BY <1>0, SeenIsCursor
  <1>1. CASE StoreFromChannel(m)
    <2>1. row' \in [Msgs -> Rows]
      BY <1>0, <1>1 DEF StoreFromChannel, CursorTypeOK, Rows
    <2>2. CursorTypeOK'
      BY <1>0, <1>1, <2>1
         DEF StoreFromChannel, CursorTypeOK, readerVars, queueVars, runnerVars, followVars
    <2> QED
      BY <1>1, <2>2, NothingMoves DEF StoreFromChannel, Kept
  <1>2. CASE WebQueues(m)
    <2>1. row' \in [Msgs -> Rows]
      BY <1>0, <1>2, StoreTypes DEF WebQueues, Rows
    <2>2. CursorTypeOK'
      BY <1>0, <1>s, <1>2, <2>1
         DEF WebQueues, CursorTypeOK, readerVars, queueVars, runnerVars, followVars
    <2> QED
      BY <1>2, <2>2, NothingMoves DEF WebQueues, Kept
  <1>3. CASE WebIsRefused(m)
    <2>1. row' \in [Msgs -> Rows]
      BY <1>0, <1>3, StoreTypes DEF WebIsRefused, Rows
    <2>2. CursorTypeOK'
      BY <1>0, <1>s, <1>3, <2>1
         DEF WebIsRefused, CursorTypeOK, readerVars, runnerVars, followVars
    <2> QED
      BY <1>3, <2>2, NothingMoves DEF WebIsRefused, Kept
  <1>4. CASE WebInjects(m)
    <2>1. row' \in [Msgs -> Rows]
      BY <1>0, <1>4, StoreTypes DEF WebInjects, Rows
    <2>2. runner' \in {"busy", "reserved"}
      BY <1>4 DEF WebInjects, Wake, Inject, Injectable
    <2>3. /\ Tracked' /\ Moves /\ Forward
          /\ pending' \subseteq Receipts /\ acked' \subseteq Receipts
          /\ inbox' \subseteq Receipts
          /\ current' = m /\ injected' = TRUE
          /\ UNCHANGED <<turns, outcome>>
      BY <1>4, <2>2, InjectKeeps DEF WebInjects
    <2>4. CursorTypeOK'
      BY <1>0, <1>s, <1>4, <2>1, <2>2, <2>3, SeenIsCursor
         DEF WebInjects, CursorTypeOK, Forward, readerVars, queueVars, followVars
    <2> QED
      BY <2>3, <2>4 DEF Kept
  <1>5. CASE WebAnswers(m)
    <2>1. row' \in [Msgs -> Rows]
      BY <1>0, <1>5, StoreTypes DEF WebAnswers, Rows
    <2>2. /\ Tracked' /\ Moves /\ Forward
          /\ pending' \subseteq Receipts /\ acked' \subseteq Receipts
      BY <1>0, <1>5, CompletionTracks DEF WebAnswers, DownIsEmpty
    <2>3. CursorTypeOK'
      BY <1>0, <1>s, <1>5, <2>1, <2>2
         DEF WebAnswers, CursorTypeOK, Forward, readerVars, queueVars, followVars
    <2> QED
      BY <2>2, <2>3 DEF Kept
  <1> QED
    BY <1>1, <1>2, <1>3, <1>4, <1>5 DEF Stores

LEMMA PollsKeep ==
    ASSUME CursorIInv, Polls
    PROVE  Kept
  <1>0. CursorTypeOK /\ DownIsEmpty
    BY DEF CursorIInv
  <1>b. batch["loop"] \subseteq Msgs
    BY <1>0 DEF CursorTypeOK, Readers
  <1>1. CASE PollReads
    <2>1. fresh' \subseteq Msgs /\ seen' \in Cursors
      BY <1>1, CursorAssumption DEF PollReads, Since, Visible, IsLast, Msgs, Cursors
    <2>2. CursorTypeOK'
      BY <1>0, <1>1, <2>1 DEF PollReads, CursorTypeOK, queueVars, runnerVars, followVars
    <2> QED
      BY <1>1, <2>2, NothingMoves DEF PollReads, Kept
  <1>2. CASE PollDrops
    <2>1. fresh \in SUBSET Msgs /\ CompleteOutOfBand(fresh)
      BY <1>0, <1>2 DEF PollDrops, CursorTypeOK
    <2>2. /\ Tracked' /\ Moves /\ Forward
          /\ pending' \subseteq Receipts /\ acked' \subseteq Receipts
      BY <1>0, <1>2, <2>1, CompletionTracks DEF PollDrops, DownIsEmpty
    <2>3. CursorTypeOK'
      BY <1>0, <1>2, <2>1, <2>2
         DEF PollDrops, CursorTypeOK, Forward, queueVars, followVars
    <2> QED
      BY <2>2, <2>3 DEF Kept
  <1>3. CASE PollNoticeFails \/ PollRestartsRunner
    <2>1. /\ UNCHANGED <<cursorVars, batch, replies, retry, tries, resting, runnerVars,
                         followVars, handled>>
          /\ fresh' = {} /\ check' \in BOOLEAN
      BY <1>0, <1>3 DEF PollNoticeFails, PollRestartsRunner, CursorTypeOK, queueVars
    <2>2. CursorTypeOK'
      BY <1>0, <2>1 DEF CursorTypeOK, cursorVars, runnerVars, followVars
    <2> QED
      BY <2>1, <2>2, NothingMoves DEF Kept, cursorVars
  <1>4. CASE PollTakesUp
    <2>1. PICK B \in SUBSET Msgs :
              /\ batch' = [batch EXCEPT !["loop"] = B]
              /\ replies' = [replies EXCEPT !["loop"] = B \cap Commands]
      <3>1. Since(pull) \in SUBSET Msgs /\ fresh \in SUBSET Msgs
        BY <1>0 DEF Since, Visible, CursorTypeOK
      <3> QED
        BY <1>4, <3>1 DEF PollTakesUp
    <2>2. fresh' = {}
      BY <1>4 DEF PollTakesUp
    <2>3. /\ batch' \in [Readers -> SUBSET Msgs]
          /\ replies' \in [Readers -> SUBSET Msgs]
          /\ fresh' = {}
      BY <1>0, <2>1, <2>2 DEF CursorTypeOK
    <2>4. CursorTypeOK'
      BY <1>0, <1>4, <2>3
         DEF PollTakesUp, CursorTypeOK, cursorVars, queueVars, runnerVars, followVars
    <2> QED
      BY <1>4, <2>4, NothingMoves DEF PollTakesUp, Kept, cursorVars
  <1>5. CASE PollIsRefused \/ PollAnswered
    <2>1. /\ batch' \in [Readers -> SUBSET Msgs]
          /\ check' \in BOOLEAN
      BY <1>0, <1>5 DEF PollIsRefused, PollAnswered, LoopIsDone, CursorTypeOK, queueVars
    <2>2. CursorTypeOK'
      BY <1>0, <1>5, <2>1
         DEF PollIsRefused, PollAnswered, CursorTypeOK, cursorVars, queueVars, runnerVars,
             followVars
    <2> QED
      BY <1>5, <2>2, NothingMoves DEF PollIsRefused, PollAnswered, Kept, cursorVars
  <1>6. CASE PollInjects
    <2>1. PICK c \in batch["loop"] : Inject(batch["loop"], c)
      BY <1>6 DEF PollInjects
    <2>2. runner' \in {"busy", "idle", "reserved"}
      BY <1>6, <2>1 DEF PollInjects, Wake, Inject, Injectable
    <2>3. /\ Tracked' /\ Moves /\ Forward
          /\ pending' \subseteq Receipts /\ acked' \subseteq Receipts
          /\ inbox' \subseteq Receipts
          /\ current' = c /\ injected' = TRUE
          /\ UNCHANGED <<turns, outcome>>
      BY <1>b, <2>1, <2>2, InjectKeeps
    <2>4. batch' \in [Readers -> SUBSET Msgs] /\ c \in Cursors
      BY <1>0, <1>b, <1>6, SeenIsCursor DEF PollInjects, LoopIsDone, CursorTypeOK
    <2>5. CursorTypeOK'
      BY <1>0, <1>6, <2>2, <2>3, <2>4
         DEF PollInjects, CursorTypeOK, Forward, queueVars, followVars
    <2> QED
      BY <2>3, <2>5 DEF Kept
  <1> QED
    BY <1>1, <1>2, <1>3, <1>4, <1>5, <1>6 DEF Polls

LEMMA RepliesKeep ==
    ASSUME CursorIInv, Replies
    PROVE  Kept
  <1>0. CursorTypeOK /\ DownIsEmpty
    BY DEF CursorIInv
  <1>1. ASSUME NEW who \in Readers, ReplyAcked(who) PROVE Kept
    <2>1. PICK m \in replies[who] :
            /\ UNCHANGED row
            /\ IF batch[who] \subseteq Commands
               THEN CompleteOutOfBand({m})
               ELSE /\ pull' = Later(pull, m)
                    /\ UNCHANGED <<committed, deferred, pending, acked>>
            /\ replies' = [replies EXCEPT ![who] = @ \ {m}]
            /\ handled' = handled \cup {m}
            /\ UNCHANGED <<seen, fresh, batch, queueVars, runner, holder, current,
                           injected, inbox, turns, outcome, followVars>>
      BY <1>1 DEF ReplyAcked
    <2>2. m \in Msgs
      BY <1>0 DEF CursorTypeOK
    <2>3. /\ Tracked' /\ Moves /\ Forward
          /\ pending' \subseteq Receipts /\ acked' \subseteq Receipts
      <3>1. CASE CompleteOutOfBand({m})
        BY <1>0, <2>1, <2>2, <3>1, CompletionTracks DEF DownIsEmpty
      <3>2. CASE /\ pull' = Later(pull, m)
                 /\ UNCHANGED <<committed, deferred, pending, acked>>
        <4>1. Forward
          BY <1>0, <2>2, <3>2, CursorAssumption
             DEF Forward, Later, CursorTypeOK, Msgs, Cursors
        <4>2. Tracked'
          BY <1>0, <2>1, <3>2, NoneRemain DEF Tracked, DownIsEmpty
        <4> QED
          BY <1>0, <3>2, <4>1, <4>2, ForwardMoves DEF CursorTypeOK
      <3> QED
        BY <2>1, <3>1, <3>2
    <2>4. replies' \in [Readers -> SUBSET Msgs]
      BY <1>0, <2>1 DEF CursorTypeOK
    <2>5. CursorTypeOK'
      BY <1>0, <2>1, <2>2, <2>3, <2>4 DEF CursorTypeOK, Forward, queueVars, followVars
    <2> QED
      BY <2>3, <2>5 DEF Kept
  <1>2. CASE ReplyRefused
    <2>1. /\ batch' \in [Readers -> SUBSET Msgs]
          /\ replies' \in [Readers -> SUBSET Msgs]
      BY <1>0, <1>2 DEF ReplyRefused, CursorTypeOK
    <2>2. CursorTypeOK'
      BY <1>0, <1>2, <2>1 DEF ReplyRefused, CursorTypeOK, cursorVars, runnerVars, followVars
    <2> QED
      BY <1>2, <2>2, NothingMoves DEF ReplyRefused, Kept, cursorVars
  <1> QED
    BY <1>1, <1>2 DEF Replies

\* The first turn and the others.
LEMMA TurnsSplit ==
    ASSUME CursorTypeOK, turns # <<>>
    PROVE  /\ DOMAIN turns = 1..Len(turns) /\ Len(turns) \in Nat \ {0}
           /\ Head(turns) = turns[1] /\ Head(turns) \in SUBSET Receipts
           /\ Tail(turns) \in Seq(SUBSET Receipts)
           /\ DOMAIN Tail(turns) = 1..(Len(turns) - 1)
           /\ \A i \in DOMAIN Tail(turns) : Tail(turns)[i] = turns[i + 1]
           /\ \A i \in DOMAIN turns : turns[i] \subseteq Receipts
  <1>1. turns \in Seq(SUBSET Receipts)
    BY DEF CursorTypeOK
  <1>2. DOMAIN turns = 1..Len(turns) /\ Len(turns) \in Nat \ {0}
    BY <1>1, EmptySeq, LenProperties
  <1>3. /\ Head(turns) \in SUBSET Receipts
        /\ Tail(turns) \in Seq(SUBSET Receipts)
        /\ Len(Tail(turns)) = Len(turns) - 1
        /\ \A i \in 1..Len(Tail(turns)) : Tail(turns)[i] = turns[i + 1]
    BY <1>1, HeadTailProperties
  <1>4. DOMAIN Tail(turns) = 1..Len(Tail(turns))
    BY <1>3, LenProperties
  <1>5. Head(turns) = turns[1]
    BY <1>1
  <1>6. \A i \in DOMAIN turns : turns[i] \subseteq Receipts
    BY <1>1, <1>2, ElementOfSeq
  <1> QED
    BY <1>2, <1>3, <1>4, <1>5, <1>6

\* The receipts of the turn that ends are acknowledged.
HeadIsOver == acked \cup (Head(turns) \cap pending)

LEMMA LaterIsLeft ==
    ASSUME CursorIInv, turns # <<>>, Remain(HeadIsOver)
    PROVE  /\ acked' \subseteq pending'
           /\ pending' \ acked' = inbox \cup UNION {turns[i] : i \in 2..Len(turns)}
  <1>1. /\ DOMAIN turns = 1..Len(turns) /\ Len(turns) \in Nat \ {0}
        /\ Head(turns) = turns[1]
    BY TurnsSplit DEF CursorIInv
  <1>2. pending \ HeadIsOver = (pending \ acked) \ turns[1]
    BY <1>1 DEF HeadIsOver
  <1>3. pending \ acked = inbox \cup UNION {turns[i] : i \in DOMAIN turns}
    BY DEF CursorIInv, ReceiptsTracked
  <1>4. \A i \in 2..Len(turns) : i \in DOMAIN turns /\ turns[i] \cap turns[1] = {}
    BY <1>1 DEF CursorIInv, Apart
  <1>5. turns[1] \cap inbox = {} /\ 1 \in DOMAIN turns
    BY <1>1 DEF CursorIInv, Apart
  <1>6. \A i \in DOMAIN turns : i = 1 \/ i \in 2..Len(turns)
    BY <1>1
  <1>7. (pending \ acked) \ turns[1] = inbox \cup UNION {turns[i] : i \in 2..Len(turns)}
    BY <1>3, <1>4, <1>5, <1>6, Zenon
  <1> QED
    BY <1>2, <1>7 DEF Remain

LEMMA TurnsKeep ==
    ASSUME CursorIInv, Turns
    PROVE  Kept
  <1>0. CursorTypeOK /\ DownIsEmpty /\ acked \subseteq pending
    BY DEF CursorIInv
  <1>c. ColdCursors \in SUBSET Cursors /\ {committed} \in SUBSET Cursors /\ {} \in SUBSET Cursors
    BY <1>0, ColdCursorsAreMsgs
  <1>h. ASSUME turns # <<>>
        PROVE  /\ HeadIsOver \in SUBSET pending
               /\ Answered(Head(turns)) \subseteq Msgs
    <2>1. Head(turns) \in SUBSET Receipts
      BY <1>0, <1>h, TurnsSplit
    <2>2. ToSend \subseteq Msgs
      BY <1>0, ColdCursorsAreMsgs
    <2> QED
      BY <1>0, <2>1, <2>2 DEF HeadIsOver, Answered, Receipts
  <1>s. ASSUME NEW X \in SUBSET Cursors, NEW acks \in SUBSET pending,
               Settle(X, {}, deferred, acks)
        PROVE  /\ Forward /\ Remain(acks) /\ Moves
               /\ pending' \subseteq Receipts /\ acked' \subseteq Receipts
    <2>1. Forward /\ Remain(acks)
      BY <1>0, <1>c, <1>s, SettleKeeps DEF CursorTypeOK
    <2> QED
      BY <1>0, <2>1, ForwardMoves DEF Remain, CursorTypeOK
  <1>1. CASE Accept
    <2>1. ~(runner \in {"off", "expanding"})
      BY <1>0, <1>1 DEF Accept, DownIsEmpty
    <2>2. ASSUME turns = <<>>, turns' = <<inbox>>, inbox' = {}
          PROVE  ReceiptsTracked' /\ Apart' /\ turns' \in Seq(SUBSET Receipts)
                 /\ inbox' \subseteq Receipts
      <3>1. DOMAIN turns = {} /\ DOMAIN turns' = {1} /\ turns'[1] = inbox
        BY <2>2
      <3>2. UNCHANGED <<pending, acked>>
        BY <1>1 DEF Accept
      <3>3. ReceiptsTracked'
        BY <3>1, <3>2, <2>2 DEF ReceiptsTracked, CursorIInv
      <3>4. Apart'
        BY <3>1, <2>2 DEF Apart
      <3>5. turns' \in Seq(SUBSET Receipts)
        BY <1>0, <2>2 DEF CursorTypeOK
      <3> QED
        BY <1>0, <2>2, <3>3, <3>4, <3>5 DEF CursorTypeOK
    <2>3. ASSUME NEW r \in inbox, turns' = Append(turns, {r}), inbox' = inbox \ {r}
          PROVE  ReceiptsTracked' /\ Apart' /\ turns' \in Seq(SUBSET Receipts)
                 /\ inbox' \subseteq Receipts
      <3>1. {r} \in SUBSET Receipts /\ turns \in Seq(SUBSET Receipts) /\ inbox' \subseteq Receipts
        BY <1>0, <2>3 DEF CursorTypeOK
      <3>2. /\ turns' \in Seq(SUBSET Receipts)
            /\ Len(turns') = Len(turns) + 1
            /\ \A i \in 1..Len(turns) : turns'[i] = turns[i]
            /\ turns'[Len(turns) + 1] = {r}
        BY <2>3, <3>1, AppendProperties
      <3>3. /\ DOMAIN turns = 1..Len(turns) /\ Len(turns) \in Nat
            /\ DOMAIN turns' = 1..(Len(turns) + 1)
        BY <3>1, <3>2, LenProperties
      <3>4. \A i \in DOMAIN turns' :
               \/ i \in DOMAIN turns /\ turns'[i] = turns[i]
               \/ i = Len(turns) + 1 /\ i \notin DOMAIN turns /\ turns'[i] = {r}
        BY <3>2, <3>3
      <3>5. \A i \in DOMAIN turns : i \in DOMAIN turns' /\ turns'[i] = turns[i]
        BY <3>2, <3>3
      <3>6. Len(turns) + 1 \in DOMAIN turns'
        BY <3>3
      <3> DEFINE now == UNION {turns'[i] : i \in DOMAIN turns'}
                 old == UNION {turns[i] : i \in DOMAIN turns}
      <3>7. now = old \cup {r}
        <4>1. \A x : (\E i \in DOMAIN turns' : x \in turns'[i])
                     <=> (\E i \in DOMAIN turns : x \in turns[i]) \/ x = r
          BY <3>2, <3>4, <3>5, <3>6
        <4>2. \A x : x \in now <=> \E i \in DOMAIN turns' : x \in turns'[i]
          OBVIOUS
        <4>3. \A x : x \in old <=> \E i \in DOMAIN turns : x \in turns[i]
          OBVIOUS
        <4> HIDE DEF now, old
        <4> QED
          BY <4>1, <4>2, <4>3
      <3>8. UNCHANGED <<pending, acked>>
        BY <1>1 DEF Accept
      <3>9. ReceiptsTracked'
        <4>1. pending \ acked = inbox \cup old
          BY DEF ReceiptsTracked, CursorIInv
        <4>2. ReceiptsTracked' <=> pending' \ acked' = inbox' \cup now
          BY DEF ReceiptsTracked
        <4> HIDE DEF now, old
        <4>3. pending' \ acked' = inbox' \cup now
          BY <2>3, <3>7, <3>8, <4>1
        <4> QED
          BY <4>2, <4>3
      <3>10. Apart'
        <4>1. \A i \in DOMAIN turns' : turns'[i] \cap inbox' = {}
          BY <2>3, <3>4 DEF Apart, CursorIInv
        <4>2. \A i, j \in DOMAIN turns' : i # j => turns'[i] \cap turns'[j] = {}
          BY <2>3, <3>4 DEF Apart, CursorIInv
        <4> QED
          BY <4>1, <4>2 DEF Apart
      <3> QED
        BY <3>1, <3>2, <3>9, <3>10
    <2>4. ReceiptsTracked' /\ Apart' /\ turns' \in Seq(SUBSET Receipts) /\ inbox' \subseteq Receipts
      <3>1. CASE turns = <<>>
        BY <1>0, <1>1, <2>2, <3>1 DEF Accept
      <3>2. CASE turns # <<>>
        BY <1>1, <2>3, <3>2 DEF Accept
      <3> QED
        BY <3>1, <3>2
    <2>5. Moves /\ DownIsEmpty' /\ acked' \subseteq pending'
      BY <1>0, <1>1, <2>1 DEF Accept, Moves, DownIsEmpty, CursorTypeOK, Cursors, cursorVars
    <2>6. CursorTypeOK'
      BY <1>0, <1>1, <2>4
         DEF Accept, CursorTypeOK, cursorVars, readerVars, queueVars, followVars
    <2> QED
      BY <2>4, <2>5, <2>6 DEF Kept, Tracked
  <1>2. CASE TurnEnds
    <2>1. turns # <<>> /\ Settle({committed}, {}, deferred, HeadIsOver)
      BY <1>2 DEF TurnEnds, HeadIsOver
    <2>2. /\ Forward /\ Remain(HeadIsOver) /\ Moves
          /\ pending' \subseteq Receipts /\ acked' \subseteq Receipts
      BY <1>c, <1>h, <1>s, <2>1
    <2>3. /\ acked' \subseteq pending'
          /\ pending' \ acked' = inbox \cup UNION {turns[i] : i \in 2..Len(turns)}
      BY <2>1, <2>2, LaterIsLeft
    <2>4. /\ Tail(turns) \in Seq(SUBSET Receipts) /\ Len(turns) \in Nat \ {0}
          /\ DOMAIN turns = 1..Len(turns)
          /\ DOMAIN Tail(turns) = 1..(Len(turns) - 1)
          /\ \A i \in DOMAIN Tail(turns) : Tail(turns)[i] = turns[i + 1]
      BY <1>0, <2>1, TurnsSplit
    <2>5. turns' = Tail(turns) /\ inbox' = inbox
      BY <1>2 DEF TurnEnds
    <2>6. \A i \in DOMAIN turns' : i + 1 \in 2..Len(turns) /\ i + 1 \in DOMAIN turns
                                    /\ turns'[i] = turns[i + 1]
      BY <2>4, <2>5
    <2>7. \A i \in 2..Len(turns) : i - 1 \in DOMAIN turns' /\ turns'[i - 1] = turns[i]
      BY <2>4, <2>5
    <2>8. UNION {turns'[i] : i \in DOMAIN turns'} = UNION {turns[i] : i \in 2..Len(turns)}
      <3>1. \A x : (\E i \in DOMAIN turns' : x \in turns'[i])
                   <=> (\E i \in 2..Len(turns) : x \in turns[i])
        BY <2>6, <2>7
      <3> QED
        BY <3>1
    <2>9. ReceiptsTracked'
      BY <2>3, <2>5, <2>8 DEF ReceiptsTracked
    <2>10. Apart'
      <3>1. \A i \in DOMAIN turns' : turns'[i] \cap inbox' = {}
        BY <2>5, <2>6 DEF Apart, CursorIInv
      <3>2. \A i, j \in DOMAIN turns' : i # j => turns'[i] \cap turns'[j] = {}
        <4>1. \A i, j \in DOMAIN turns' : i # j => i + 1 # j + 1
          BY <2>4, <2>5
        <4> QED
          BY <2>6, <4>1 DEF Apart, CursorIInv
      <3> QED
        BY <3>1, <3>2 DEF Apart
    <2>11. /\ row' \in [Msgs -> Rows] /\ claims' \subseteq Msgs /\ holder' \in Cursors
           /\ runner' \in {"busy", "idle", "reserved"}
      <3>1. runner \in {"busy", "idle", "reserved"}
        BY <1>0, <2>1 DEF DownIsEmpty, CursorTypeOK
      <3>2. CASE Len(turns) = 1
        BY <1>0, <1>2, <3>2, IdleKeeps DEF TurnEnds
      <3>3. CASE Len(turns) # 1
        BY <1>0, <1>2, <3>1, <3>3 DEF TurnEnds, CursorTypeOK
      <3> QED
        BY <3>2, <3>3
    <2>12. handled' \subseteq Msgs
      BY <1>0, <1>2, <1>h, <2>1 DEF TurnEnds, CursorTypeOK
    <2>13. CursorTypeOK'
      BY <1>0, <1>2, <2>2, <2>4, <2>11, <2>12
         DEF TurnEnds, CursorTypeOK, Forward, readerVars, queueVars
    <2> QED
      BY <2>2, <2>3, <2>9, <2>10, <2>11, <2>13 DEF Kept, Tracked, DownIsEmpty
  <1>3. CASE Interrupt
    <2>1. turns # <<>> /\ Settle({committed}, {}, deferred, HeadIsOver)
      BY <1>3 DEF Interrupt, HeadIsOver
    <2>2. /\ Forward /\ Remain(HeadIsOver) /\ Moves
          /\ pending' \subseteq Receipts /\ acked' \subseteq Receipts
      BY <1>c, <1>h, <1>s, <2>1
    <2>3. /\ acked' \subseteq pending'
          /\ pending' \ acked' = inbox \cup UNION {turns[i] : i \in 2..Len(turns)}
      BY <2>1, <2>2, LaterIsLeft
    <2>4. inbox' = inbox \cup UNION {turns[i] : i \in 2..Len(turns)} /\ turns' = <<>>
      BY <1>3 DEF Interrupt, Returned
    <2>5. DOMAIN turns' = {}
      BY <2>4
    <2>6. ReceiptsTracked' /\ Apart'
      BY <2>3, <2>4, <2>5 DEF ReceiptsTracked, Apart
    <2>7. /\ row' \in [Msgs -> Rows] /\ claims' \subseteq Msgs /\ holder' \in Cursors
          /\ runner' \in {"busy", "idle", "reserved"}
      BY <1>0, <1>3, DispatchKeeps DEF Interrupt
    <2>8. inbox' \subseteq Receipts /\ turns' \in Seq(SUBSET Receipts) /\ handled' \subseteq Msgs
      <3>1. inbox' \subseteq Receipts
        BY <2>2, <2>3, <2>4
      <3>2. handled' \subseteq Msgs
        BY <1>0, <1>3, <1>h, <2>1 DEF Interrupt, CursorTypeOK
      <3> QED
        BY <2>4, <3>1, <3>2, EmptySeq
    <2>9. CursorTypeOK'
      BY <1>0, <1>3, <2>2, <2>7, <2>8
         DEF Interrupt, CursorTypeOK, Forward, readerVars, queueVars
    <2> QED
      BY <2>2, <2>3, <2>6, <2>7, <2>9 DEF Kept, Tracked, DownIsEmpty
  <1>4. CASE ReplyCommits \/ InterruptCommits
    <2>1. /\ Settle({committed} \cup ColdCursors, {}, deferred, acked)
          /\ outcome' \in {"healthy", "open"}
          /\ UNCHANGED <<row, seen, readerVars, queueVars, runner, holder, current, injected,
                         inbox, turns, followVars, handled>>
      BY <1>4 DEF ReplyCommits, InterruptCommits
    <2>2. /\ Forward /\ Remain(acked) /\ Moves
          /\ pending' \subseteq Receipts /\ acked' \subseteq Receipts
      BY <1>0, <1>c, <1>s, <2>1
    <2>3. Tracked'
      BY <1>0, <2>1, <2>2, RemainKeeps DEF Tracked, DownIsEmpty
    <2>4. CursorTypeOK'
      BY <1>0, <2>1, <2>2 DEF CursorTypeOK, Forward, readerVars, queueVars, followVars
    <2> QED
      BY <2>2, <2>3, <2>4 DEF Kept
  <1>5. CASE ReplyIsLost
    <2>1. CursorTypeOK'
      BY <1>0, <1>5
         DEF ReplyIsLost, CursorTypeOK, cursorVars, readerVars, queueVars, followVars
    <2>2. Tracked'
      BY <1>0, <1>5, NoneRemain DEF ReplyIsLost, Tracked, DownIsEmpty
    <2>3. Moves
      BY <1>0, <1>5 DEF ReplyIsLost, Moves, CursorTypeOK, Cursors, cursorVars
    <2> QED
      BY <2>1, <2>2, <2>3 DEF Kept
  <1> QED
    BY <1>1, <1>2, <1>3, <1>4, <1>5 DEF Turns

LEMMA EndsKeep ==
    ASSUME CursorIInv, Ends
    PROVE  Kept
  <1>0. CursorTypeOK
    BY DEF CursorIInv
  <1>e. PICK left : \E X \in SUBSET Cursors : Exit(X, left)
    BY <1>0, EndsExit
  <1>1. PICK X \in SUBSET Cursors : Exit(X, left)
    BY <1>e
  <1>2. /\ Emptied
        /\ committed' \in Cursors /\ pull' \in Cursors /\ deferred' \subseteq Msgs
        /\ committed <= committed'
        /\ pull' < pull => pull' = committed'
        /\ UNCHANGED <<seen, fresh, claims, timer>>
    BY <1>0, <1>1, ExitEmpties
  <1>3. /\ row' = row
        /\ check' \in BOOLEAN /\ retry' \in BOOLEAN /\ resting' \in BOOLEAN
        /\ tries' \in 0..MaxTries
        /\ handled' \subseteq Msgs
    BY <1>0, EndsExit
  <1>4. turns' \in Seq(SUBSET Receipts) /\ 0 \in Cursors
    BY <1>2, EmptySeq, CursorAssumption DEF Emptied, Cursors
  <1>5. CursorTypeOK'
    BY <1>0, <1>2, <1>3, <1>4 DEF Emptied, CursorTypeOK
  <1> QED
    BY <1>2, <1>5, EmptiedKeeps DEF Kept, Tracked, Moves

LEMMA RunsKeep ==
    ASSUME CursorIInv, Runs
    PROVE  Kept
  <1>0. CursorTypeOK /\ DownIsEmpty
    BY DEF CursorIInv
  <1>1. CASE ColdStart
    <2>1. Since(pull) \subseteq Msgs
      BY DEF Since, Visible
    <2>2. /\ [batch EXCEPT !["run"] = Since(pull)] \in [Readers -> SUBSET Msgs]
          /\ [replies EXCEPT !["run"] = Since(pull) \cap Commands]
                 \in [Readers -> SUBSET Msgs]
      BY <1>0, <2>1 DEF CursorTypeOK
    <2>0. 0 \in 0..MaxTries
      BY CursorAssumption
    <2>3. /\ batch' \in [Readers -> SUBSET Msgs] /\ replies' \in [Readers -> SUBSET Msgs]
          /\ runner' \in {"off", "expanding"} /\ runner = "off"
          /\ tries' \in 0..MaxTries
      <3>1. CASE Since(pull) = {}
        BY <1>0, <1>1, <2>0, <3>1 DEF ColdStart, CursorTypeOK
      <3>2. CASE Since(pull) # {}
        BY <1>0, <1>1, <2>1, <2>2, <3>2 DEF ColdStart, CursorTypeOK
      <3> QED
        BY <3>1, <3>2
    <2>4. CursorTypeOK'
      BY <1>0, <1>1, <2>3 DEF ColdStart, CursorTypeOK, cursorVars, followVars
    <2>5. Tracked'
      BY <1>0, <1>1, <2>3, NoneRemain DEF ColdStart, Tracked, DownIsEmpty
    <2>6. Moves
      BY <1>0, <1>1 DEF ColdStart, Moves, CursorTypeOK, Cursors, cursorVars
    <2> QED
      BY <2>4, <2>5, <2>6 DEF Kept
  <1>2. CASE Launch
    <2>1. pending = {} /\ inbox = {} /\ turns = <<>> /\ acked = {}
      BY <1>0, <1>2 DEF Launch, DownIsEmpty, CursorIInv
    <2>2. turns' = <<{}>> /\ UNCHANGED <<pending, acked, inbox>>
      BY <1>2 DEF Launch
    <2>3. DOMAIN turns' = {1} /\ turns'[1] = {} /\ turns' \in Seq(SUBSET Receipts)
      BY <2>2
    <2>4. ReceiptsTracked' /\ Apart' /\ acked' \subseteq pending'
      BY <2>1, <2>2, <2>3 DEF ReceiptsTracked, Apart
    <2>5. current' \in Cursors
      BY <1>0, <1>2, ColdCursorsAreMsgs DEF Launch
    <2>6. CursorTypeOK'
      BY <1>0, <1>2, <2>3, <2>5
         DEF Launch, CursorTypeOK, cursorVars, readerVars, queueVars, followVars
    <2>7. DownIsEmpty' /\ Moves
      BY <1>0, <1>2 DEF Launch, DownIsEmpty, Moves, CursorTypeOK, Cursors, cursorVars
    <2> QED
      BY <2>4, <2>6, <2>7 DEF Kept, Tracked
  <1>3. CASE ColdDrops
    <2>1. ToSend \in SUBSET Msgs /\ CompleteOutOfBand(ToSend)
      BY <1>0, <1>3, ColdCursorsAreMsgs DEF ColdDrops
    <2>2. /\ Tracked' /\ Moves /\ Forward
          /\ pending' \subseteq Receipts /\ acked' \subseteq Receipts
      BY <1>0, <1>3, <2>1, CompletionTracks DEF ColdDrops, DownIsEmpty
    <2>3. batch' \in [Readers -> SUBSET Msgs] /\ tries' \in 0..MaxTries
      <3>1. 0 \in 0..MaxTries
        BY CursorAssumption
      <3>2. [batch EXCEPT !["run"] = {}] \in [Readers -> SUBSET Msgs]
        BY <1>0 DEF CursorTypeOK
      <3> QED
        BY <1>3, <3>1, <3>2 DEF ColdDrops
    <2>4. CursorTypeOK'
      BY <1>0, <1>3, <2>1, <2>2, <2>3 DEF ColdDrops, CursorTypeOK, Forward, followVars
    <2> QED
      BY <2>2, <2>4 DEF Kept
  <1>4. CASE Ends
    BY <1>4, EndsKeep
  <1> QED
    BY <1>1, <1>2, <1>3, <1>4 DEF Runs, Ends

LEMMA FollowUpsKeep ==
    ASSUME CursorIInv, NEW q \in Msgs, FollowUps(q)
    PROVE  Kept
  <1>0. CursorTypeOK /\ DownIsEmpty
    BY DEF CursorIInv
  <1>q. q \in Cursors /\ holder \in Cursors
    BY <1>0, SeenIsCursor DEF CursorTypeOK
  <1>1. CASE FollowUpInjects(q)
    <2>1. Inject({q}, q) /\ row' = [row EXCEPT ![q] = "released"]
      BY <1>1 DEF FollowUpInjects
    <2>2. runner' \in {"busy", "idle", "reserved"} /\ holder' \in Cursors
      BY <1>1, <1>q, <2>1, CursorAssumption
         DEF FollowUpInjects, Wake, Inject, Injectable, Cursors
    <2>3. /\ Tracked' /\ Moves /\ Forward
          /\ pending' \subseteq Receipts /\ acked' \subseteq Receipts
          /\ inbox' \subseteq Receipts
          /\ current' = q /\ injected' = TRUE
          /\ UNCHANGED <<turns, outcome>>
      BY <2>1, <2>2, InjectKeeps
    <2>4. row' \in [Msgs -> Rows] /\ claims' \subseteq Msgs
      BY <1>0, <1>1, <2>1 DEF FollowUpInjects, Prepared, CursorTypeOK, Rows
    <2>5. CursorTypeOK'
      BY <1>0, <1>q, <1>1, <2>2, <2>3, <2>4
         DEF FollowUpInjects, CursorTypeOK, Forward, readerVars, queueVars
    <2> QED
      BY <2>3, <2>5 DEF Kept
  <1>2. CASE FollowUpIsRefused(q) \/ FollowUpFails(q)
    <2>1. ReleaseReservation(q)
      BY <1>2 DEF FollowUpIsRefused, FollowUpFails
    <2>2. /\ runner' \in {"off", "expanding", "busy", "idle", "reserved"}
          /\ holder' \in Cursors
          /\ runner' \in {"off", "expanding"} => runner' = runner /\ holder' = 0
      BY <1>0, <2>1, ReleaseKeeps
    <2>3. row' \in [Msgs -> Rows] /\ claims' \subseteq Msgs /\ check' \in BOOLEAN
          /\ timer' \in BOOLEAN
      BY <1>0, <1>2 DEF FollowUpIsRefused, FollowUpFails, Prepared, CursorTypeOK, Rows, queueVars
    <2>4. CursorTypeOK'
      BY <1>0, <1>2, <2>2, <2>3
         DEF FollowUpIsRefused, FollowUpFails, CursorTypeOK, readerVars, queueVars
    <2>5. Tracked'
      BY <1>0, <1>2, <2>2, NoneRemain DEF FollowUpIsRefused, FollowUpFails, Tracked
    <2>6. Moves
      BY <1>0, <1>2 DEF FollowUpIsRefused, FollowUpFails, Moves, CursorTypeOK, Cursors
    <2> QED
      BY <2>4, <2>5, <2>6 DEF Kept
  <1>3. CASE FollowUpAnswered(q)
    <2>1. /\ CompleteOutOfBand({q})
          /\ handled' = handled \cup {q}
          /\ UNCHANGED <<seen, readerVars, queueVars, current, injected, inbox, turns,
                         outcome, timer>>
      BY <1>3 DEF FollowUpAnswered
    <2>2. /\ row' \in [Msgs -> Rows] /\ claims' \subseteq Msgs
          /\ runner' \in {"off", "expanding", "busy", "idle", "reserved"}
          /\ holder' \in Cursors
          /\ runner' \in {"off", "expanding"} => runner' = runner /\ holder' = 0
      <3> DEFINE freed == [row EXCEPT ![q] = "released"]
                 Freed == row' = freed /\ claims' = claims \ {q} /\ ReleaseReservation(q)
                 Handed(next) == /\ holder = q
                                 /\ row' = [freed EXCEPT ![next] = "promoting"]
                                 /\ claims' = (claims \ {q}) \cup {next}
                                 /\ holder' = next /\ runner' = runner
      <3>1. freed \in [Msgs -> Rows]
        BY <1>0 DEF CursorTypeOK, Rows
      <3>2. Freed \/ \E next \in Queued \ {q} : Handed(next)
        BY <1>3 DEF FollowUpAnswered
      <3>3. CASE Freed
        BY <1>0, <3>1, <3>3, ReleaseKeeps DEF CursorTypeOK
      <3>4. CASE \E next \in Queued \ {q} : Handed(next)
        <4>1. PICK next \in Queued \ {q} : Handed(next)
          BY <3>4
        <4>2. next \in Msgs /\ next \in Cursors /\ holder # 0
          BY <4>1, CursorAssumption DEF Queued, Msgs, Cursors
        <4>3. runner \in {"busy", "idle", "reserved"}
          BY <1>0, <4>2 DEF DownIsEmpty, CursorTypeOK
        <4>4. row' \in [Msgs -> Rows]
          BY <3>1, <4>1, <4>2 DEF Rows
        <4> QED
          BY <1>0, <4>1, <4>2, <4>3, <4>4 DEF CursorTypeOK
      <3> QED
        BY <3>2, <3>3, <3>4
    <2>3. /\ Tracked' /\ Moves /\ Forward
          /\ pending' \subseteq Receipts /\ acked' \subseteq Receipts
      BY <2>1, <2>2, CompletionTracks
    <2>4. CursorTypeOK'
      BY <1>0, <2>1, <2>2, <2>3 DEF CursorTypeOK, Forward, readerVars, queueVars
    <2> QED
      BY <2>3, <2>4 DEF Kept
  <1>4. CASE FollowUpIsGone(q)
    <2>1. UNCHANGED <<seen, pull, committed, deferred, readerVars, queueVars, current,
                      injected, pending, acked, inbox, turns, outcome, timer, handled>>
      BY <1>4 DEF FollowUpIsGone
    <2>2. /\ row' \in [Msgs -> Rows] /\ claims' \subseteq Msgs
          /\ runner' \in {"off", "expanding", "busy", "idle", "reserved"}
          /\ holder' \in Cursors
          /\ runner' \in {"off", "expanding"} => runner' = runner /\ holder' = 0
      <3> DEFINE Freed == claims' = claims \ {q} /\ ReleaseReservation(q) /\ row' = row
                 Handed(next) == /\ holder = q
                                 /\ row' = [row EXCEPT ![next] = "promoting"]
                                 /\ claims' = (claims \ {q}) \cup {next}
                                 /\ holder' = next /\ runner' = runner
      <3>1. Freed \/ \E next \in Queued : Handed(next)
        BY <1>4 DEF FollowUpIsGone
      <3>2. CASE Freed
        BY <1>0, <3>2, ReleaseKeeps DEF CursorTypeOK
      <3>3. CASE \E next \in Queued : Handed(next)
        <4>1. PICK next \in Queued : Handed(next)
          BY <3>3
        <4>2. next \in Msgs /\ next \in Cursors /\ holder # 0
          BY <4>1, CursorAssumption DEF Queued, Msgs, Cursors
        <4>3. runner \in {"busy", "idle", "reserved"}
          BY <1>0, <4>2 DEF DownIsEmpty, CursorTypeOK
        <4>4. row' \in [Msgs -> Rows]
          BY <1>0, <4>1, <4>2 DEF CursorTypeOK, Rows
        <4> QED
          BY <1>0, <4>1, <4>2, <4>3, <4>4 DEF CursorTypeOK
      <3> QED
        BY <3>1, <3>2, <3>3
    <2>3. Tracked'
      BY <2>1, <2>2, NoneRemain DEF Tracked
    <2>4. Moves
      BY <1>0, <2>1 DEF Moves, CursorTypeOK, Cursors
    <2>5. CursorTypeOK'
      BY <1>0, <2>1, <2>2 DEF CursorTypeOK, readerVars, queueVars
    <2> QED
      BY <2>3, <2>4, <2>5 DEF Kept
  <1>5. CASE CancelFollowUp(q)
    <2>1. row' \in [Msgs -> Rows] /\ handled' \subseteq Msgs
      BY <1>0, <1>5 DEF CancelFollowUp, CursorTypeOK, Rows
    <2>2. CursorTypeOK'
      BY <1>0, <1>5, <2>1
         DEF CancelFollowUp, CursorTypeOK, readerVars, queueVars, runnerVars, followVars
    <2> QED
      BY <1>5, <2>2, NothingMoves DEF CancelFollowUp, Kept
  <1> QED
    BY <1>1, <1>2, <1>3, <1>4, <1>5 DEF FollowUps

LEMMA TimerKeeps ==
    ASSUME CursorIInv, FollowUpTimer
    PROVE  Kept
  <1>0. CursorTypeOK /\ DownIsEmpty
    BY DEF CursorIInv
  <1>1. UNCHANGED <<seen, pull, committed, deferred, readerVars, queueVars, current,
                    injected, pending, acked, inbox, turns, outcome, handled>>
        /\ timer' = FALSE
    BY DEF FollowUpTimer
  <1>2. /\ row' \in [Msgs -> Rows] /\ claims' \subseteq Msgs
        /\ runner' \in {"off", "expanding", "busy", "idle", "reserved"}
        /\ holder' \in Cursors
        /\ runner' \in {"off", "expanding"} => runner' = runner /\ holder' = 0
    <2>1. CASE Dispatch
      BY <1>0, <2>1, DispatchKeeps
    <2>2. CASE UNCHANGED <<row, claims, runner, holder>>
      BY <1>0, <2>2 DEF CursorTypeOK, DownIsEmpty
    <2> QED
      BY <2>1, <2>2 DEF FollowUpTimer
  <1>3. Tracked'
    BY <1>1, <1>2, NoneRemain DEF Tracked
  <1>4. Moves
    BY <1>0, <1>1 DEF Moves, CursorTypeOK, Cursors
  <1>5. CursorTypeOK'
    BY <1>0, <1>1, <1>2 DEF CursorTypeOK, readerVars, queueVars
  <1> QED
    BY <1>3, <1>4, <1>5 DEF Kept

LEMMA RestartKeeps ==
    ASSUME CursorIInv, Restart
    PROVE  Kept
  <1>0. CursorTypeOK
    BY DEF CursorIInv
  <1>1. row' \in [Msgs -> Rows]
    BY <1>0 DEF Restart, CursorTypeOK, Rows
  <1>2. /\ batch' \in [Readers -> SUBSET Msgs] /\ replies' \in [Readers -> SUBSET Msgs]
        /\ check' \in BOOLEAN
    BY DEF Restart
  <1>3. turns' \in Seq(SUBSET Receipts) /\ 0 \in Cursors /\ 0 \in 0..MaxTries
    BY EmptySeq, CursorAssumption DEF Restart, Cursors
  <1>4. Emptied
    BY <1>2 DEF Restart, Emptied
  <1>5. CursorTypeOK'
    BY <1>0, <1>1, <1>2, <1>3 DEF Restart, CursorTypeOK
  <1>6. Moves
    BY <1>0 DEF Restart, Moves, CursorTypeOK, Cursors
  <1> QED
    BY <1>4, <1>5, <1>6, EmptiedKeeps DEF Kept, Tracked

-----------------------------------------------------------------------------
(* The theorems *)

LEMMA InitHolds == Init => CursorIInv
  <1> SUFFICES ASSUME Init PROVE CursorIInv
    OBVIOUS
  <1>1. row \in [Msgs -> Rows]
    BY DEF Init, Rows
  <1>2. 1..History \subseteq Msgs /\ History \in Cursors /\ 0 \in Cursors /\ 0 \in 0..MaxTries
    BY CursorAssumption DEF Msgs, Cursors
  <1>3. turns \in Seq(SUBSET Receipts)
    BY EmptySeq DEF Init
  <1>4. CursorTypeOK
    BY <1>1, <1>2, <1>3 DEF Init, CursorTypeOK
  <1>5. ReceiptsTracked /\ Apart /\ DownIsEmpty
    BY DEF Init, ReceiptsTracked, Apart, DownIsEmpty
  <1> QED
    BY <1>4, <1>5 DEF Init, CursorIInv

LEMMA StepKeeps ==
    ASSUME CursorIInv, Next
    PROVE  Kept
  BY StoresKeep, FollowUpsKeep, PollsKeep, RepliesKeep, TurnsKeep, RunsKeep, TimerKeeps,
     RestartKeeps
     DEF Next

LEMMA StutterKeeps ==
    ASSUME CursorIInv, UNCHANGED vars
    PROVE  CursorIInv'
  BY DEF vars, cursorVars, readerVars, queueVars, runnerVars, followVars, CursorIInv,
         CursorTypeOK, ReceiptsTracked, Apart, DownIsEmpty

\* The strengthening that every step of the code preserves.
THEOREM CursorInvariance == Spec => []CursorIInv
  <1>1. Init => CursorIInv
    BY InitHolds
  <1>2. CursorIInv /\ [Next]_vars => CursorIInv'
    BY StepKeeps, StutterKeeps DEF Kept, Tracked, CursorIInv
  <1> QED
    BY <1>1, <1>2, PTL DEF Spec

\* Type correctness.
THEOREM CursorTypesHold == Spec => []CursorTypeOK
  <1>1. CursorIInv => CursorTypeOK
    BY DEF CursorIInv
  <1> QED
    BY <1>1, CursorInvariance, PTL

\* No receipt is lost between the queue and the runner, whatever is interrupted,
\* merged, returned or replayed.
THEOREM ReceiptsAreTracked == Spec => []ReceiptsTracked
  <1>1. CursorIInv => ReceiptsTracked
    BY DEF CursorIInv
  <1> QED
    BY <1>1, CursorInvariance, PTL

\* A receipt is a file or belongs to one turn, never to two: an interrupt, a merge or a
\* file that is put back does not leave it in both places (ipc-delivery.ts).
THEOREM ReceiptsAreApart == Spec => []Apart
  <1>1. CursorIInv => Apart
    BY DEF CursorIInv
  <1> QED
    BY <1>1, CursorInvariance, PTL

\* Cursors move back only to what is committed.
THEOREM CursorsRewindToCommitted == Spec => RewindsToCommitted
  <1>1. CursorIInv /\ [Next]_vars => [Moves]_vars
    BY StepKeeps DEF Kept
  <1>2. [Moves]_vars => [/\ committed <= committed'
                         /\ pull' < pull => pull' = committed']_vars
    BY DEF Moves
  <1> QED
    BY <1>1, <1>2, CursorInvariance, PTL DEF Spec, RewindsToCommitted
-----------------------------------------------------------------------------
(* Follow-ups of a chat with Web messages                                   *)

\* A row stays.
HistoryStays == \A m \in Msgs : m <= History => row[m] # "absent"

\* Who holds a reservation holds it on a runner.
HolderReserves == holder # 0 => runner = "reserved"

\* The poller never finds a row of the Web page: its own cursor has passed it.
AllSeen == \A m \in Msgs : row[m] # "absent" => m <= seen
PollerRests == fresh = {} /\ batch["loop"] = {} /\ replies["loop"] = {}

WebIInv ==
    /\ CursorIInv
    /\ HistoryStays
    /\ HolderReserves
    /\ WebChat => AllSeen /\ PollerRests

\* Only follow-ups that are being prepared are given to a reserved runner.
NotBypassed ==
    WebChat /\ holder # 0 => \A r \in pending' \ pending : r.cursor \in claims

RowsStay == \A m \in Msgs : row[m] # "absent" => row'[m] # "absent"

WebKept ==
    /\ RowsStay
    /\ HolderReserves'
    /\ WebChat' => AllSeen' /\ PollerRests'
    /\ NotBypassed

LEMMA RowsBefore ==
    ASSUME RowsStay
    PROVE  /\ HistoryStays => HistoryStays'
           /\ WebChat' => WebChat
  BY DEF RowsStay, HistoryStays, WebChat

\* A step that stores nothing, and what it leaves to the poller.
LEMMA QuietKeeps ==
    ASSUME WebIInv, \A m \in Msgs : row'[m] = "absent" <=> row[m] = "absent",
           UNCHANGED seen, HolderReserves', NotBypassed, PollerRests => PollerRests'
    PROVE  WebKept
  <1>1. RowsStay
    BY DEF RowsStay
  <1>2. AllSeen => AllSeen'
    BY DEF AllSeen
  <1> QED
    BY <1>1, <1>2, RowsBefore DEF WebIInv, WebKept

LEMMA FewerPending ==
    ASSUME pending' \subseteq pending
    PROVE  NotBypassed
  BY DEF NotBypassed

\* Who was given a reservation, or lost it, holds one on a reserved runner.
LEMMA DispatchHolds ==
    ASSUME CursorTypeOK, Dispatch
    PROVE  /\ HolderReserves'
           /\ \A m \in Msgs : row'[m] = "absent" <=> row[m] = "absent"
  <1>1. ASSUME NEW q \in Queued, Reserve(q), row' = [row EXCEPT ![q] = "promoting"]
        PROVE  /\ HolderReserves'
               /\ \A m \in Msgs : row'[m] = "absent" <=> row[m] = "absent"
    <2>1. q \in Msgs /\ row[q] = "queued"
      BY DEF Queued
    <2>2. \A m \in Msgs : row'[m] = IF m = q THEN "promoting" ELSE row[m]
      BY <1>1, <2>1 DEF CursorTypeOK
    <2> QED
      BY <1>1, <2>1, <2>2 DEF Reserve, HolderReserves
  <1> QED
    BY <1>1 DEF Dispatch, HolderReserves

LEMMA IdleHolds ==
    ASSUME CursorTypeOK, HolderReserves, QueryIsIdle
    PROVE  /\ HolderReserves'
           /\ \A m \in Msgs : row'[m] = "absent" <=> row[m] = "absent"
  BY DispatchHolds DEF QueryIsIdle, HolderReserves

LEMMA ReleaseHolds ==
    ASSUME HolderReserves, NEW q, ReleaseReservation(q)
    PROVE  HolderReserves'
  BY DEF HolderReserves, ReleaseReservation

LEMMA SameHolder ==
    ASSUME HolderReserves, UNCHANGED <<runner, holder>>
    PROVE  HolderReserves'
  BY DEF HolderReserves

\* A row that is there gets another status.
LEMMA RowStays ==
    ASSUME CursorTypeOK, NEW q \in Msgs, row[q] # "absent",
           NEW s \in Rows \ {"absent"}, row' = [row EXCEPT ![q] = s]
    PROVE  \A m \in Msgs : row'[m] = "absent" <=> row[m] = "absent"
  BY DEF CursorTypeOK

LEMMA FollowUpsKeepWeb ==
    ASSUME WebIInv, NEW q \in Msgs, FollowUps(q)
    PROVE  WebKept
  <1>1. CursorTypeOK /\ acked \subseteq pending /\ HolderReserves
    BY DEF WebIInv, CursorIInv
  <1>2. /\ UNCHANGED <<seen, readerVars>>
        /\ PollerRests => PollerRests'
    BY DEF FollowUps, FollowUpInjects, FollowUpIsRefused, FollowUpAnswered, FollowUpFails,
           FollowUpIsGone, CancelFollowUp, PollerRests, readerVars
  <1>3. CASE FollowUpInjects(q)
    <2>1. /\ q \in claims /\ row[q] = "promoting"
          /\ row' = [row EXCEPT ![q] = "released"]
          /\ Inject({q}, q)
          /\ IF holder = q THEN runner' = "busy" /\ holder' = 0 ELSE Wake /\ UNCHANGED holder
      BY <1>3 DEF FollowUpInjects, Prepared
    <2>2. PICK n \in {0} \cup {r.id : r \in pending} :
              pending' = pending \cup {[id |-> n + 1, cursor |-> q, covered |-> {q}]}
      BY <2>1 DEF Inject
    <2>3. NotBypassed
      BY <2>1, <2>2 DEF NotBypassed
    <2>4. HolderReserves'
      BY <1>1, <2>1 DEF HolderReserves, Wake
    <2>5. \A m \in Msgs : row'[m] = "absent" <=> row[m] = "absent"
      BY <1>1, <2>1, RowStays DEF Rows
    <2> QED
      BY <1>2, <2>3, <2>4, <2>5, QuietKeeps
  <1>4. CASE FollowUpIsRefused(q)
    <2>1. /\ row[q] = "promoting" /\ row' = [row EXCEPT ![q] = "released"]
          /\ ReleaseReservation(q) /\ UNCHANGED pending
      BY <1>4 DEF FollowUpIsRefused
    <2>2. \A m \in Msgs : row'[m] = "absent" <=> row[m] = "absent"
      BY <1>1, <2>1, RowStays DEF Rows
    <2> QED
      BY <1>1, <1>2, <2>1, <2>2, ReleaseHolds, FewerPending, QuietKeeps
  <1>5. CASE FollowUpAnswered(q)
    <2> DEFINE later == Queued \ {q}
               freed == [row EXCEPT ![q] = "released"]
    <2>1. row[q] = "promoting" /\ CompleteOutOfBand({q})
      BY <1>5 DEF FollowUpAnswered
    <2>2. pending' \subseteq pending
      BY <1>1, <2>1, CompletionKeeps DEF Remain
    <2>3. \A m \in Msgs : freed[m] = IF m = q THEN "released" ELSE row[m]
      BY <1>1 DEF CursorTypeOK
    <2>4. ASSUME row' = freed, ReleaseReservation(q)
          PROVE  /\ HolderReserves'
                 /\ \A m \in Msgs : row'[m] = "absent" <=> row[m] = "absent"
      BY <1>1, <2>1, <2>3, <2>4, ReleaseHolds
    <2>5. ASSUME NEW next \in later, row' = [freed EXCEPT ![next] = "promoting"],
                 holder = q, holder' = next, UNCHANGED runner
          PROVE  /\ HolderReserves'
                 /\ \A m \in Msgs : row'[m] = "absent" <=> row[m] = "absent"
      <3>1. next \in Msgs /\ row[next] = "queued"
        BY DEF Queued
      <3>2. \A m \in Msgs : row'[m] = IF m = next THEN "promoting"
                                      ELSE IF m = q THEN "released" ELSE row[m]
        BY <1>1, <2>5, <3>1 DEF CursorTypeOK
      <3>3. holder # 0
        BY <2>5, CursorAssumption DEF Msgs
      <3> HIDE DEF later, freed
      <3>4. \A m \in Msgs : row'[m] = "absent" <=> row[m] = "absent"
        BY <2>1, <3>1, <3>2
      <3>5. HolderReserves'
        BY <1>1, <2>5, <3>3 DEF HolderReserves
      <3> QED
        BY <3>4, <3>5
    <2>6. \/ row' = freed /\ ReleaseReservation(q)
          \/ \E next \in later :
                /\ row' = [freed EXCEPT ![next] = "promoting"]
                /\ holder = q /\ holder' = next /\ UNCHANGED runner
      BY <1>5 DEF FollowUpAnswered
    <2> HIDE DEF later, freed
    <2> QED
      BY <1>2, <2>2, <2>4, <2>5, <2>6, FewerPending, QuietKeeps
  <1>6. CASE FollowUpFails(q)
    <2>1. /\ row' = [row EXCEPT ![q] = IF row[q] = "promoting" THEN "queued" ELSE row[q]]
          /\ ReleaseReservation(q) /\ UNCHANGED pending
      BY <1>6 DEF FollowUpFails
    <2>2. \A m \in Msgs : row'[m] = "absent" <=> row[m] = "absent"
      BY <1>1, <2>1 DEF CursorTypeOK
    <2> QED
      BY <1>1, <1>2, <2>1, <2>2, ReleaseHolds, FewerPending, QuietKeeps
  <1>7. CASE FollowUpIsGone(q)
    <2>1. row[q] = "cancelled" /\ UNCHANGED pending
      BY <1>7 DEF FollowUpIsGone
    <2>2. ASSUME NEW next \in Queued, row' = [row EXCEPT ![next] = "promoting"],
                 holder = q, holder' = next, UNCHANGED runner
          PROVE  /\ HolderReserves'
                 /\ \A m \in Msgs : row'[m] = "absent" <=> row[m] = "absent"
      <3>1. next \in Msgs /\ row[next] = "queued"
        BY DEF Queued
      <3>2. \A m \in Msgs : row'[m] = "absent" <=> row[m] = "absent"
        BY <1>1, <2>2, <3>1, RowStays DEF Rows
      <3>3. holder # 0
        BY <2>2, CursorAssumption DEF Msgs
      <3> QED
        BY <1>1, <2>2, <3>2, <3>3 DEF HolderReserves
    <2>3. \/ ReleaseReservation(q) /\ UNCHANGED row
          \/ \E next \in Queued :
                /\ row' = [row EXCEPT ![next] = "promoting"]
                /\ holder = q /\ holder' = next /\ UNCHANGED runner
      BY <1>7 DEF FollowUpIsGone
    <2> QED
      BY <1>1, <1>2, <2>1, <2>2, <2>3, ReleaseHolds, FewerPending, QuietKeeps
  <1>8. CASE CancelFollowUp(q)
    <2>1. /\ row[q] # "absent" /\ row' = [row EXCEPT ![q] = "cancelled"]
          /\ UNCHANGED <<runner, holder, pending>>
      BY <1>8 DEF CancelFollowUp, runnerVars
    <2>2. \A m \in Msgs : row'[m] = "absent" <=> row[m] = "absent"
      BY <1>1, <2>1, RowStays DEF Rows
    <2> QED
      BY <1>1, <1>2, <2>1, <2>2, SameHolder, FewerPending, QuietKeeps
  <1> QED
    BY <1>3, <1>4, <1>5, <1>6, <1>7, <1>8 DEF FollowUps

LEMMA StoresKeepWeb ==
    ASSUME WebIInv, NEW m \in Msgs, Stores(m)
    PROVE  WebKept
  <1>1. CursorTypeOK /\ acked \subseteq pending /\ HolderReserves /\ HistoryStays
    BY DEF WebIInv, CursorIInv
  <1>2. CASE StoreFromChannel(m)
    <2>1. /\ m \notin Web /\ row[m] = "absent" /\ row' = [row EXCEPT ![m] = "plain"]
          /\ UNCHANGED <<runner, holder, pending>>
      BY <1>2 DEF StoreFromChannel, runnerVars
    <2>2. \A k \in Msgs : row'[k] = IF k = m THEN "plain" ELSE row[k]
      BY <1>1, <2>1 DEF CursorTypeOK
    <2>3. ~(m <= History)
      BY <1>1, <2>1 DEF HistoryStays
    <2>4. ~WebChat'
      BY <2>1, <2>2, <2>3 DEF WebChat
    <2>5. RowsStay
      BY <2>2 DEF RowsStay
    <2> QED
      BY <1>1, <2>1, <2>4, <2>5, SameHolder, FewerPending DEF WebKept
  <1>3. ASSUME NEW s \in Rows \ {"absent"}, Store(m, s), seen' = Later(seen, m),
               UNCHANGED readerVars
        PROVE  RowsStay /\ (WebChat' => AllSeen' /\ PollerRests')
    <2>1. \A k \in Msgs : row'[k] = IF k = m THEN s ELSE row[k]
      BY <1>1, <1>3 DEF Store, CursorTypeOK
    <2>2. RowsStay
      BY <2>1 DEF RowsStay
    <2>3. seen \in Nat /\ m \in Nat /\ \A k \in Msgs : k \in Nat
      BY <1>1, CursorAssumption DEF CursorTypeOK, Cursors, Msgs
    <2>4. seen' >= seen /\ seen' >= m /\ seen' \in Nat
      BY <1>3, <2>3 DEF Later
    <2>5. AllSeen => AllSeen'
      BY <2>1, <2>3, <2>4 DEF AllSeen
    <2>6. PollerRests => PollerRests'
      BY <1>3 DEF PollerRests, readerVars
    <2> QED
      BY <2>2, <2>5, <2>6, RowsBefore DEF WebIInv
  <1>4. CASE WebQueues(m) \/ WebIsRefused(m)
    <2>1. /\ Store(m, "queued") \/ Store(m, "plain")
          /\ seen' = Later(seen, m)
          /\ UNCHANGED <<readerVars, runner, holder, pending>>
      BY <1>4 DEF WebQueues, WebIsRefused, runnerVars
    <2> QED
      BY <1>1, <1>3, <2>1, SameHolder, FewerPending DEF WebKept, Rows
  <1>5. CASE WebInjects(m)
    <2>1. /\ ~Querying /\ Store(m, "plain") /\ seen' = Later(seen, m) /\ Wake
          /\ UNCHANGED <<readerVars, holder>>
      BY <1>5 DEF WebInjects
    <2>2. holder = 0
      BY <1>1, <2>1 DEF Querying, HolderReserves
    <2> QED
      BY <1>3, <2>1, <2>2 DEF WebKept, Rows, HolderReserves, NotBypassed
  <1>6. CASE WebAnswers(m)
    <2>1. /\ Store(m, IF Querying THEN "released" ELSE "plain")
          /\ seen' = Later(seen, m)
          /\ CompleteOutOfBand({m})
          /\ UNCHANGED <<readerVars, runner, holder>>
      BY <1>6 DEF WebAnswers
    <2>2. pending' \subseteq pending
      BY <1>1, <2>1, CompletionKeeps DEF Remain
    <2> QED
      BY <1>1, <1>3, <2>1, <2>2, SameHolder, FewerPending DEF WebKept, Rows
  <1> QED
    BY <1>2, <1>4, <1>5, <1>6 DEF Stores

\* The poller moves only where a channel has stored a message.
LEMMA PollsKeepWeb ==
    ASSUME WebIInv, Polls
    PROVE  WebKept
  <1>1. CursorTypeOK /\ HolderReserves
    BY DEF WebIInv, CursorIInv
  <1>2. ~WebChat
    <2>1. SUFFICES ASSUME WebChat PROVE FALSE
      OBVIOUS
    <2>2. AllSeen /\ fresh = {} /\ batch["loop"] = {}
      BY <2>1 DEF WebIInv, PollerRests
    <2>3. Since(seen) = {}
      BY <1>1, <2>2, CursorAssumption
         DEF Since, Visible, Shown, AllSeen, CursorTypeOK, Cursors, Msgs
    <2> QED
      BY <2>2, <2>3
         DEF Polls, PollReads, PollDrops, PollNoticeFails, PollRestartsRunner, PollTakesUp,
             PollInjects, PollIsRefused, PollAnswered, LoopIsDone
  <1>3. UNCHANGED row
    BY DEF Polls, PollReads, PollDrops, PollNoticeFails, PollRestartsRunner, PollTakesUp,
           PollInjects, PollIsRefused, PollAnswered, cursorVars
  <1>4. \/ UNCHANGED <<runner, holder>>
        \/ Wake /\ UNCHANGED holder
    BY DEF Polls, PollReads, PollDrops, PollNoticeFails, PollRestartsRunner, PollTakesUp,
           PollInjects, PollIsRefused, PollAnswered, runnerVars
  <1>5. HolderReserves'
    BY <1>1, <1>4 DEF HolderReserves, Wake
  <1>6. RowsStay /\ ~WebChat'
    BY <1>2, <1>3 DEF RowsStay, WebChat
  <1> QED
    BY <1>2, <1>5, <1>6 DEF WebKept, NotBypassed

LEMMA RepliesKeepWeb ==
    ASSUME WebIInv, Replies
    PROVE  WebKept
  <1>1. CursorTypeOK /\ acked \subseteq pending /\ HolderReserves
    BY DEF WebIInv, CursorIInv
  <1>2. ASSUME NEW who \in Readers, ReplyAcked(who)
        PROVE  WebKept
    <2>1. PICK m \in replies[who] :
              /\ IF batch[who] \subseteq Commands
                 THEN CompleteOutOfBand({m})
                 ELSE UNCHANGED <<pending, acked>>
              /\ replies' = [replies EXCEPT ![who] = @ \ {m}]
              /\ UNCHANGED <<row, seen, fresh, batch, runner, holder>>
      BY <1>2 DEF ReplyAcked
    <2>2. m \in Msgs
      BY <1>1 DEF CursorTypeOK
    <2>3. pending' \subseteq pending
      BY <1>1, <2>1, <2>2, CompletionKeeps DEF Remain
    <2>4. PollerRests => PollerRests'
      BY <1>1, <2>1 DEF PollerRests, CursorTypeOK, Readers
    <2> QED
      BY <1>1, <2>1, <2>3, <2>4, SameHolder, FewerPending, QuietKeeps
  <1>3. CASE ReplyRefused
    <2>1. /\ replies["loop"] # {}
          /\ UNCHANGED <<row, seen, runner, holder, pending>>
      BY <1>3 DEF ReplyRefused, cursorVars, runnerVars
    <2> QED
      BY <1>1, <2>1, SameHolder, FewerPending, QuietKeeps DEF PollerRests
  <1> QED
    BY <1>2, <1>3 DEF Replies

LEMMA TurnsKeepWeb ==
    ASSUME WebIInv, Turns
    PROVE  WebKept
  <1>1. CursorTypeOK /\ acked \subseteq pending /\ HolderReserves
    BY DEF WebIInv, CursorIInv
  <1>2. /\ UNCHANGED <<seen, readerVars>>
        /\ PollerRests => PollerRests'
    BY DEF Turns, Accept, TurnEnds, ReplyCommits, ReplyIsLost, Interrupt, InterruptCommits,
           cursorVars, PollerRests, readerVars
  <1>3. \/ QueryIsIdle
        \/ Dispatch
        \/ UNCHANGED <<row, runner, holder>>
    BY DEF Turns, Accept, TurnEnds, ReplyCommits, ReplyIsLost, Interrupt, InterruptCommits,
           cursorVars
  <1>4. /\ HolderReserves'
        /\ \A m \in Msgs : row'[m] = "absent" <=> row[m] = "absent"
    BY <1>1, <1>3, IdleHolds, DispatchHolds, SameHolder
  <1>5. \/ UNCHANGED pending
        \/ \E X \in {{committed}, {committed} \cup ColdCursors} :
           \E acks \in {acked, acked \cup (Head(turns) \cap pending)} :
                Settle(X, {}, deferred, acks)
    BY DEF Turns, Accept, TurnEnds, ReplyCommits, ReplyIsLost, Interrupt, InterruptCommits
  <1>6. pending' \subseteq pending
    <2>1. \A X \in {{committed}, {committed} \cup ColdCursors} : X \in SUBSET Cursors
      BY <1>1, ColdCursorsAreMsgs
    <2>2. \A acks \in {acked, acked \cup (Head(turns) \cap pending)} : acks \in SUBSET pending
      BY <1>1
    <2>3. deferred \in SUBSET Msgs /\ {} \in SUBSET Cursors
      BY <1>1 DEF CursorTypeOK
    <2> QED
      BY <1>1, <1>5, <2>1, <2>2, <2>3, SettleKeeps DEF Remain
  <1> QED
    BY <1>2, <1>4, <1>6, FewerPending, QuietKeeps

LEMMA RunsKeepWeb ==
    ASSUME WebIInv, Runs
    PROVE  WebKept
  <1>1. CursorTypeOK /\ acked \subseteq pending /\ HolderReserves /\ DownIsEmpty
    BY DEF WebIInv, CursorIInv
  <1>2. ASSUME NEW S \in SUBSET Msgs
        PROVE  /\ [batch EXCEPT !["run"] = S]["loop"] = batch["loop"]
               /\ [replies EXCEPT !["run"] = S]["loop"] = replies["loop"]
    BY <1>1 DEF CursorTypeOK, Readers
  <1>3. CASE Ends
    <2>1. PICK left : \E X \in SUBSET Cursors : Exit(X, left)
      BY <1>1, <1>3, EndsExit
    <2>2. /\ holder' = 0 /\ pending' = {}
          /\ batch' = [batch EXCEPT !["run"] = {}]
          /\ replies' = [replies EXCEPT !["run"] = {}]
          /\ UNCHANGED <<seen, fresh>>
      BY <2>1 DEF Exit
    <2>3. row' = row
      BY <1>1, <1>3, EndsExit
    <2>4. PollerRests => PollerRests'
      BY <1>2, <2>2 DEF PollerRests
    <2>5. HolderReserves'
      BY <2>2 DEF HolderReserves
    <2> QED
      BY <2>2, <2>3, <2>4, <2>5, FewerPending, QuietKeeps
  <1>4. CASE ColdStart
    <2>1. /\ UNCHANGED <<row, seen, fresh, holder, pending>>
          /\ runner = "off"
      BY <1>4 DEF ColdStart, cursorVars
    <2>2. HolderReserves'
      BY <1>1, <2>1 DEF HolderReserves
    <2>3. Since(pull) \in SUBSET Msgs /\ Since(pull) \cap Commands \in SUBSET Msgs
      BY DEF Since, Visible
    <2>4. batch'["loop"] = batch["loop"] /\ replies'["loop"] = replies["loop"]
      <3>1. \/ UNCHANGED <<batch, replies>>
            \/ /\ batch' = [batch EXCEPT !["run"] = Since(pull)]
               /\ replies' = [replies EXCEPT !["run"] = Since(pull) \cap Commands]
        BY <1>4 DEF ColdStart
      <3>2. CASE UNCHANGED <<batch, replies>>
        BY <3>2
      <3>3. ASSUME batch' = [batch EXCEPT !["run"] = Since(pull)],
                   replies' = [replies EXCEPT !["run"] = Since(pull) \cap Commands]
            PROVE  batch'["loop"] = batch["loop"] /\ replies'["loop"] = replies["loop"]
        <4>1. batch'["loop"] = batch["loop"]
          BY <1>2, <2>3, <3>3
        <4>2. replies'["loop"] = replies["loop"]
          BY <1>2, <2>3, <3>3
        <4> QED
          BY <4>1, <4>2
      <3> QED
        BY <3>1, <3>2, <3>3
    <2>5. PollerRests => PollerRests'
      BY <2>1, <2>4 DEF PollerRests
    <2> QED
      BY <2>1, <2>2, <2>5, FewerPending, QuietKeeps
  <1>5. CASE Launch
    <2>1. /\ runner = "expanding"
          /\ UNCHANGED <<row, seen, fresh, batch, replies, holder, pending>>
      BY <1>5 DEF Launch, cursorVars, readerVars
    <2>2. HolderReserves'
      BY <1>1, <2>1 DEF HolderReserves
    <2> QED
      BY <2>1, <2>2, FewerPending, QuietKeeps DEF PollerRests
  <1>6. CASE ColdDrops
    <2>1. /\ UNCHANGED <<row, seen, fresh, replies, holder>>
          /\ runner = "expanding"
          /\ CompleteOutOfBand(ToSend)
          /\ batch' = [batch EXCEPT !["run"] = {}]
      BY <1>6 DEF ColdDrops
    <2>2. pending' \subseteq pending
      BY <1>1, <2>1, ColdCursorsAreMsgs, CompletionKeeps DEF Remain
    <2>3. HolderReserves'
      BY <1>1, <2>1 DEF HolderReserves
    <2>4. PollerRests => PollerRests'
      BY <1>2, <2>1 DEF PollerRests
    <2> QED
      BY <2>1, <2>2, <2>3, <2>4, FewerPending, QuietKeeps
  <1> QED
    BY <1>3, <1>4, <1>5, <1>6 DEF Runs, Ends

LEMMA TimerKeepsWeb ==
    ASSUME WebIInv, FollowUpTimer
    PROVE  WebKept
  <1>1. CursorTypeOK /\ HolderReserves
    BY DEF WebIInv, CursorIInv
  <1>2. UNCHANGED <<seen, readerVars, pending>>
    BY DEF FollowUpTimer
  <1>3. Dispatch \/ UNCHANGED <<row, runner, holder>>
    BY DEF FollowUpTimer
  <1>4. /\ HolderReserves'
        /\ \A m \in Msgs : row'[m] = "absent" <=> row[m] = "absent"
    BY <1>1, <1>3, DispatchHolds, SameHolder
  <1> QED
    BY <1>2, <1>4, FewerPending, QuietKeeps DEF PollerRests, readerVars

LEMMA RestartKeepsWeb ==
    ASSUME WebIInv, Restart
    PROVE  WebKept
  <1>1. /\ holder' = 0 /\ pending' = {} /\ UNCHANGED seen
        /\ fresh' = {} /\ batch' = [who \in Readers |-> {}]
        /\ replies' = [who \in Readers |-> {}]
    BY DEF Restart
  <1>2. \A m \in Msgs : row'[m] = "absent" <=> row[m] = "absent"
    BY DEF Restart
  <1>3. PollerRests' /\ HolderReserves'
    BY <1>1 DEF PollerRests, HolderReserves, Readers
  <1> QED
    BY <1>1, <1>2, <1>3, FewerPending, QuietKeeps

LEMMA WebInitHolds == Init => WebIInv
  <1> SUFFICES ASSUME Init PROVE WebIInv
    OBVIOUS
  <1>1. HistoryStays /\ HolderReserves
    BY DEF Init, HistoryStays, HolderReserves
  <1>2. AllSeen /\ PollerRests
    BY DEF Init, AllSeen, PollerRests, Readers
  <1> QED
    BY <1>1, <1>2, InitHolds DEF WebIInv

LEMMA WebStepKeeps ==
    ASSUME WebIInv, Next
    PROVE  WebIInv' /\ NotBypassed
  <1>1. WebKept
    BY StoresKeepWeb, FollowUpsKeepWeb, PollsKeepWeb, RepliesKeepWeb, TurnsKeepWeb,
       RunsKeepWeb, TimerKeepsWeb, RestartKeepsWeb
       DEF Next
  <1>2. CursorIInv'
    BY StepKeeps DEF WebIInv, Kept, Tracked, CursorIInv
  <1>3. HistoryStays'
    BY <1>1, RowsBefore DEF WebKept, WebIInv
  <1> QED
    BY <1>1, <1>2, <1>3 DEF WebKept, WebIInv

LEMMA WebStutterKeeps ==
    ASSUME WebIInv, UNCHANGED vars
    PROVE  WebIInv'
  BY StutterKeeps
     DEF vars, cursorVars, readerVars, runnerVars, WebIInv, HistoryStays, HolderReserves,
         WebChat, AllSeen, PollerRests

\* In a chat with Web messages a runner that is reserved for a follow-up is given only
\* follow-ups that are being prepared (reserveNextQuery), whatever is refused, fails, is
\* cancelled, interrupted or restarted.
THEOREM FollowUpsAreNotBypassed == Spec => FollowUpNotBypassed
  <1>1. Init => WebIInv
    BY WebInitHolds
  <1>2. WebIInv /\ [Next]_vars => WebIInv'
    BY WebStepKeeps, WebStutterKeeps
  <1>3. WebIInv /\ [Next]_vars => [NotBypassed]_vars
    BY WebStepKeeps
  <1>4. [NotBypassed]_vars => [WebChat /\ holder # 0 =>
                                 \A r \in pending' \ pending : r.cursor \in claims]_vars
    BY DEF NotBypassed
  <1> QED
    BY <1>1, <1>2, <1>3, <1>4, PTL DEF Spec, FollowUpNotBypassed
=============================================================================
