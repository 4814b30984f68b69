---------------------------- MODULE ChannelOutbox ----------------------------
(***************************************************************************)
(* The durable outbox of channel output: one row of table channel_outbox   *)
(* per physical message (channel-reliability-store.ts), driven by calls of *)
(* deliverChannelOutboxItem (channel-outbox-delivery.ts).                  *)
(*                                                                         *)
(* Every store operation is one synchronous SQLite transaction, so it is   *)
(* one atomic step here.  A call of deliverChannelOutboxItem is a sequence *)
(* of such steps with an `await' between them; other calls, the lease      *)
(* clock, a crash of the process and the operator run in those gaps.       *)
(*                                                                         *)
(* Time is abstracted to what the guards compare: a lease is "live" until  *)
(* it lapses (lease_expires_at <= now), a retry is due or not              *)
(* (available_at <= now).  The column revision is left out: a row becomes  *)
(* uncertain at most once, so the CAS of an operator's verdict on the      *)
(* revision decides exactly what its test of the status decides.           *)
(***************************************************************************)
EXTENDS Integers

CONSTANTS
  Rows,        \* physical outputs: one (turn_run_id, ordinal) pair each
  Turns,       \* logical turns
  TurnOf,      \* the turn a row belongs to
  UploadRows,  \* the rows delivered with mode upload_then_send
  Calls,       \* concurrent calls of deliverChannelOutboxItem
  Instances,   \* service processes sharing the database
  InstanceOf,  \* the process a call runs in
  Owners,      \* lease owner strings
  OwnerOf,     \* the owner a call claims with (one scope can make many calls)
  NoOwner,     \* lease_owner IS NULL
  NoRow,       \* the row of an idle call
  MaxToken     \* bound: claims and fences of one row that are explored (a claim
               \* is made only while its fence still has a token left)

ASSUME OutboxAssumption ==
  /\ TurnOf \in [Rows -> Turns]
  /\ UploadRows \subseteq Rows
  /\ InstanceOf \in [Calls -> Instances]
  /\ OwnerOf \in [Calls -> Owners]
  /\ NoOwner \notin Owners
  /\ NoRow \notin Rows
  /\ MaxToken \in Nat

VARIABLES
  outbox,    \* outbox[r]: the row, or status "absent" before it is enqueued
  call,      \* call[c]: where the call is suspended, and the claim it made
  instance,  \* instance[i]: is the process running
  request,   \* request[r][k]: the provider request made under claim k of r
  shown,     \* shown[r]: how often the provider made the output visible
  resolved   \* the rows an operator has given a verdict on

outboxVars == <<outbox, call, instance, request, shown, resolved>>

Tokens == 0..MaxToken

Leased    == {"claimed", "uploading", "uploaded", "sending"}
Claimable == {"pending", "retry_wait"}
Settled   == {"delivered", "failed"}   \* nothing writes `cancelled'
Status    == Leased \cup Claimable \cup Settled \cup {"absent", "uncertain"}

\* Nothing of such a row has been handed to the provider, or it was refused.
Replayable == {"absent", "claimed", "uploading", "uploaded"} \cup Claimable

\* The calls that have persisted `sending'.
SendPhase == {"sending", "awaiting"}

Row == [status : Status, lease : {"none", "live", "lapsed"},
        owner : Owners \cup {NoOwner}, token : Tokens,
        due : BOOLEAN, key : BOOLEAN]

Call == [pc : {"idle", "claimed", "uploading", "uploaded"} \cup SendPhase,
         row : Rows \cup {NoRow}, token : Tokens]

IdleCall == [pc |-> "idle", row |-> NoRow, token |-> 0]

OutboxTypeOK ==
  /\ outbox \in [Rows -> Row]
  /\ call \in [Calls -> Call]
  /\ instance \in [Instances -> {"down", "up"}]
  /\ request \in [Rows -> [Tokens -> {"none", "sent", "accepted", "refused"}]]
  /\ shown \in [Rows -> Nat]
  /\ resolved \in SUBSET Rows

\* The row enqueueChannelOutbox inserts, up to its status "pending".
FreshRow == [status |-> "absent", lease |-> "none", owner |-> NoOwner,
             token |-> 0, due |-> TRUE, key |-> FALSE]

OutboxInit ==
  /\ outbox = [r \in Rows |-> FreshRow]
  /\ call = [c \in Calls |-> IdleCall]
  /\ instance = [i \in Instances |-> "down"]
  /\ request = [r \in Rows |-> [k \in Tokens |-> "none"]]
  /\ shown = [r \in Rows |-> 0]
  /\ resolved = {}

-----------------------------------------------------------------------------
(* Helpers *)

\* getUncertainChannelOutboxForTurn
UncertainTurn(t) ==
  \E r \in Rows : TurnOf[r] = t /\ outbox[r].status = "uncertain"

\* The fence in the WHERE clause of every write made under a claim.
Holds(c) ==
  LET row == outbox[call[c].row] IN
  /\ row.owner = OwnerOf[c]
  /\ row.token = call[c].token
  /\ row.lease = "live"

\* A row that leaves its claim: lease_owner = NULL, lease_expires_at = NULL.
Release(row, status) ==
  [row EXCEPT !.status = status, !.lease = "none", !.owner = NoOwner]

\* Mutant: the retry time is looked at before the uncertainty.
Failed_RetryFirst(row, uncertain, retryAt) ==
  [Release(row, IF uncertain \/ retryAt THEN "retry_wait" ELSE "failed")
     EXCEPT !.due = @ /\ ~retryAt]

\* failChannelOutbox: uncertain wins, then a retry time, then failed.
Failed(row, uncertain, retryAt) ==
  [Release(row, IF uncertain THEN "uncertain"
                ELSE IF retryAt THEN "retry_wait" ELSE "failed")
     EXCEPT !.due = @ /\ ~retryAt]

-----------------------------------------------------------------------------
(* deliverChannelOutboxItem *)

\* The synchronous prefix: no uncertain sibling, enqueue (idempotent), claim by
\* id.  A call that returns before it claims changes at most "absent" to
\* "pending", and a fresh row is always claimable, so only claiming calls step.
Deliver(c, r) ==
  /\ call[c].pc = "idle"
  /\ instance[InstanceOf[c]] = "up"
  /\ ~UncertainTurn(TurnOf[r])
  /\ \/ outbox[r].status = "absent"
     \/ /\ outbox[r].status \in Claimable
        /\ outbox[r].due
        /\ outbox[r].owner = NoOwner
  /\ outbox[r].token + 1 < MaxToken
  /\ outbox' = [outbox EXCEPT ![r].status = "claimed", ![r].lease = "live",
                              ![r].owner = OwnerOf[c], ![r].token = @ + 1]
  /\ call' = [call EXCEPT ![c] =
                [pc |-> "claimed", row |-> r, token |-> outbox[r].token + 1]]
  /\ UNCHANGED <<instance, request, shown, resolved>>

NeedsUpload(c) == call[c].row \in UploadRows /\ ~outbox[call[c].row].key

\* markChannelOutboxUploading, then the upload is awaited.
BeginUpload(c) ==
  /\ call[c].pc = "claimed"
  /\ NeedsUpload(c)
  /\ Holds(c)
  /\ outbox' = [outbox EXCEPT ![call[c].row].status = "uploading"]
  /\ call' = [call EXCEPT ![c].pc = "uploading"]
  /\ UNCHANGED <<instance, request, shown, resolved>>

\* The upload resolves with a key: markChannelOutboxUploaded.
FinishUpload(c) ==
  /\ call[c].pc = "uploading"
  /\ Holds(c)
  /\ outbox' = [outbox EXCEPT ![call[c].row].status = "uploaded",
                              ![call[c].row].key = TRUE]
  /\ call' = [call EXCEPT ![c].pc = "uploaded"]
  /\ UNCHANGED <<instance, request, shown, resolved>>

\* The upload rejects, or its key is empty: the row never reached `sending', so
\* the catch block fails it, or delays it when the rejection names a time.
FailUpload(c, retryAt) ==
  /\ call[c].pc = "uploading"
  /\ Holds(c)
  /\ outbox' = [outbox EXCEPT ![call[c].row] = Failed(@, FALSE, retryAt)]
  /\ call' = [call EXCEPT ![c] = IdleCall]
  /\ UNCHANGED <<instance, request, shown, resolved>>

\* markChannelOutboxSending
BeginSend(c) ==
  /\ \/ call[c].pc = "claimed" /\ ~NeedsUpload(c)
     \/ call[c].pc = "uploaded"
  /\ Holds(c)
  /\ outbox' = [outbox EXCEPT ![call[c].row].status = "sending"]
  /\ call' = [call EXCEPT ![c].pc = "sending"]
  /\ UNCHANGED <<instance, request, shown, resolved>>

\* delivery.send: the request leaves the process, without another look at the row.
IssueSend(c) ==
  /\ call[c].pc = "sending"
  /\ request' = [request EXCEPT ![call[c].row][call[c].token] = "sent"]
  /\ call' = [call EXCEPT ![c].pc = "awaiting"]
  /\ UNCHANGED <<outbox, instance, shown, resolved>>

\* Mutant: an empty receipt counts as one.
Receipt_AnyAnswer(c) ==
  /\ call[c].pc = "awaiting"
  /\ Holds(c)
  /\ outbox' = [outbox EXCEPT ![call[c].row] = Release(@, "delivered")]
  /\ call' = [call EXCEPT ![c] = IdleCall]
  /\ UNCHANGED <<instance, request, shown, resolved>>

\* The receipt arrives while the claim is held: completeChannelOutbox.
Receipt(c) ==
  /\ call[c].pc = "awaiting"
  /\ request[call[c].row][call[c].token] = "accepted"
  /\ Holds(c)
  /\ outbox' = [outbox EXCEPT ![call[c].row] = Release(@, "delivered")]
  /\ call' = [call EXCEPT ![c] = IdleCall]
  /\ UNCHANGED <<instance, request, shown, resolved>>

\* Mutant: a timeout is taken for an explicit rejection.
Rejected_OnTimeout(c, retryAt) ==
  /\ call[c].pc = "awaiting"
  /\ Holds(c)
  /\ outbox' = [outbox EXCEPT ![call[c].row] = Failed(@, FALSE, retryAt)]
  /\ call' = [call EXCEPT ![c] = IdleCall]
  /\ UNCHANGED <<instance, request, shown, resolved>>

\* A DefinitiveChannelDeliveryError: the provider is known to show nothing.
Rejected(c, retryAt) ==
  /\ call[c].pc = "awaiting"
  /\ request[call[c].row][call[c].token] = "refused"
  /\ Holds(c)
  /\ outbox' = [outbox EXCEPT ![call[c].row] = Failed(@, FALSE, retryAt)]
  /\ call' = [call EXCEPT ![c] = IdleCall]
  /\ UNCHANGED <<instance, request, shown, resolved>>

\* A timeout, a disconnect or an empty receipt: whatever the provider did, the
\* caller cannot know, and the row is fenced as uncertain.
Ambiguous(c) ==
  /\ call[c].pc = "awaiting"
  /\ Holds(c)
  /\ outbox' = [outbox EXCEPT ![call[c].row] = Failed(@, @.status = "sending", FALSE)]
  /\ call' = [call EXCEPT ![c] = IdleCall]
  /\ UNCHANGED <<instance, request, shown, resolved>>

\* leaseLost: the next write under the claim matches no row, and the call
\* returns.  A call in "sending" issues its request before it writes again.
LoseLease(c) ==
  /\ call[c].pc \in {"claimed", "uploading", "uploaded", "awaiting"}
  /\ ~Holds(c)
  /\ call' = [call EXCEPT ![c] = IdleCall]
  /\ UNCHANGED <<outbox, instance, request, shown, resolved>>

CallStep(c) ==
  \/ \E r \in Rows : Deliver(c, r)
  \/ BeginUpload(c)
  \/ FinishUpload(c)
  \/ \E retryAt \in BOOLEAN : FailUpload(c, retryAt)
  \/ BeginSend(c)
  \/ IssueSend(c)
  \/ Receipt(c)
  \/ \E retryAt \in BOOLEAN : Rejected(c, retryAt)
  \/ Ambiguous(c)
  \/ LoseLease(c)

-----------------------------------------------------------------------------
(* The provider: decides a request at any time after it was sent, also when *)
(* the process that sent it is gone.                                        *)

Accept(r, k) ==
  /\ request[r][k] = "sent"
  /\ request' = [request EXCEPT ![r][k] = "accepted"]
  /\ shown' = [shown EXCEPT ![r] = @ + 1]
  /\ UNCHANGED <<outbox, call, instance, resolved>>

Refuse(r, k) ==
  /\ request[r][k] = "sent"
  /\ request' = [request EXCEPT ![r][k] = "refused"]
  /\ UNCHANGED <<outbox, call, instance, shown, resolved>>

Provider == \E r \in Rows, k \in Tokens : Accept(r, k) \/ Refuse(r, k)

-----------------------------------------------------------------------------
(* Time *)

\* lease_expires_at passes: nothing renews an outbox lease
\* (renewChannelOutboxLease has no caller).
Lapse(r) ==
  /\ outbox[r].lease = "live"
  /\ outbox' = [outbox EXCEPT ![r].lease = "lapsed"]
  /\ UNCHANGED <<call, instance, request, shown, resolved>>

\* available_at passes, which matters while the row waits for a retry.
BecomeDue(r) ==
  /\ outbox[r].status \in Claimable
  /\ ~outbox[r].due
  /\ outbox' = [outbox EXCEPT ![r].due = TRUE]
  /\ UNCHANGED <<call, instance, request, shown, resolved>>

-----------------------------------------------------------------------------
(* The process and the operator *)

\* Mutants: a lapsed `sending' row is retried like the others; live leases are
\* fenced too; rows without a lease are fenced too; `sending' rows are left out.
Reconciled_SendingRetried(row) ==
  IF row.lease # "lapsed" THEN row
  ELSE [Release(row, "retry_wait") EXCEPT !.token = @ + 1, !.due = TRUE]

Reconciled_LiveToo(row) ==
  IF row.lease = "none" THEN row
  ELSE IF row.status = "sending"
       THEN [Release(row, "uncertain") EXCEPT !.token = @ + 1]
       ELSE [Release(row, "retry_wait") EXCEPT !.token = @ + 1, !.due = TRUE]

Reconciled_UnleasedToo(row) ==
  IF row.lease = "live" THEN row
  ELSE IF row.status = "sending"
       THEN [Release(row, "uncertain") EXCEPT !.token = @ + 1]
       ELSE [Release(row, "retry_wait") EXCEPT !.token = @ + 1, !.due = TRUE]

Reconciled_NotSending(row) ==
  IF row.lease # "lapsed" \/ row.status = "sending" THEN row
  ELSE [Release(row, "retry_wait") EXCEPT !.token = @ + 1, !.due = TRUE]

\* One row of reconcileExpiredChannelOutbox.
Reconciled(row) ==
  IF row.lease # "lapsed" THEN row
  ELSE IF row.status = "sending"
       THEN [Release(row, "uncertain") EXCEPT !.token = @ + 1]
       ELSE IF row.status \in Leased
            THEN [Release(row, "retry_wait") EXCEPT !.token = @ + 1, !.due = TRUE]
            ELSE row

\* Startup, up to the point where inbound work resumes.  This is the only place
\* that runs reconcileChannelOutboxDeliveries.
Start(i) ==
  /\ instance[i] = "down"
  /\ instance' = [instance EXCEPT ![i] = "up"]
  /\ outbox' = [r \in Rows |-> Reconciled(outbox[r])]
  /\ UNCHANGED <<call, request, shown, resolved>>

\* The process dies: its calls vanish, its rows and its requests do not.
Crash(i) ==
  /\ instance[i] = "up"
  /\ instance' = [instance EXCEPT ![i] = "down"]
  /\ call' = [c \in Calls |-> IF InstanceOf[c] = i THEN IdleCall ELSE call[c]]
  /\ UNCHANGED <<outbox, request, shown, resolved>>

\* Mutant: the verdict overwrites whatever the row has become since it was listed.
Resolve_AnyStatus(r, verdict) ==
  /\ \E i \in Instances : instance[i] = "up"
  /\ outbox[r].status \in Settled \cup {"uncertain"}
  /\ outbox' = [outbox EXCEPT ![r].status = verdict]
  /\ resolved' = resolved \cup {r}
  /\ UNCHANGED <<call, instance, request, shown>>

\* resolveUncertainChannelOutbox, from the operator's route.
Resolve(r, verdict) ==
  /\ \E i \in Instances : instance[i] = "up"
  /\ outbox[r].status = "uncertain"
  /\ outbox' = [outbox EXCEPT ![r].status = verdict]
  /\ resolved' = resolved \cup {r}
  /\ UNCHANGED <<call, instance, request, shown>>

OutboxNext ==
  \/ \E c \in Calls : CallStep(c)
  \/ Provider
  \/ \E r \in Rows : Lapse(r) \/ BecomeDue(r)
  \/ \E i \in Instances : Start(i) \/ Crash(i)
  \/ \E r \in Rows, verdict \in {"delivered", "failed"} : Resolve(r, verdict)

OutboxSpec == OutboxInit /\ [][OutboxNext]_outboxVars

\* Time passes, a process that is down is started again, and the calls of a
\* running process go on.  Nothing makes a process crash, a provider answer or
\* an operator decide.
OutboxFairness ==
  /\ \A r \in Rows : WF_outboxVars(Lapse(r))
  /\ \A i \in Instances : WF_outboxVars(Start(i))
  /\ \A c \in Calls : WF_outboxVars(BeginSend(c) \/ IssueSend(c) \/ Receipt(c)
                                      \/ Ambiguous(c) \/ LoseLease(c))

OutboxFairSpec == OutboxSpec /\ OutboxFairness

-----------------------------------------------------------------------------
(* Properties *)

\* An output is made visible at most once, whatever crashes, lost receipts,
\* lapsed leases, restarts and retries do: the idempotency boundary that
\* deliverChannelOutboxItem promises.
ShownAtMostOnce == \A r \in Rows : shown[r] <= 1

\* A row the store may hand to another claim (pending, retry_wait, or a claim
\* that has not persisted `sending') has no visible effect and no request the
\* provider could still accept.  reconcileExpiredChannelOutbox and the catch
\* block of deliverChannelOutboxItem rely on it.
ReplayableIsInvisible ==
  \A r \in Rows : outbox[r].status \in Replayable =>
    /\ shown[r] = 0
    /\ \A k \in Tokens : request[r][k] \in {"none", "refused"}

\* A delivered receipt is true, unless an operator wrote it: no stale claim can
\* record delivery of a request that a later claim did not make.
DeliveredIsShown ==
  \A r \in Rows : outbox[r].status = "delivered" /\ r \notin resolved =>
    shown[r] = 1

\* A claim is taken over (by another claim or by the fence of a restart) only
\* after its lease has lapsed or it has given the row up: a second process that
\* starts while the first still works never steals a live delivery.
LiveClaimNeverStolen ==
  [][\A r \in Rows : outbox[r].lease = "live" => outbox'[r].token = outbox[r].token]_outboxVars

\* Settled rows are immutable, and an uncertain row is settled only by an
\* operator: no late receipt, refusal or retry of a fenced claim rewrites history.
VerdictIsFinal ==
  [][\A r \in Rows :
       /\ outbox[r].status \in Settled => outbox'[r] = outbox[r]
       /\ outbox[r].status = "uncertain" /\ outbox'[r].status # "uncertain" =>
            outbox'[r].status \in Settled /\ r \in resolved']_outboxVars

\* The refinement: the outbox implements what it promises (module OutputPromise).
VerdictOf(row) ==
  CASE row.status = "delivered" -> "delivered"
    [] row.status = "failed" -> "failed"
    [] row.status = "uncertain" -> "unknown"
    [] OTHER -> "open"

Promise == INSTANCE OutputPromise WITH
  Outputs <- Rows, visible <- shown, overruled <- resolved,
  verdict <- [r \in Rows |-> VerdictOf(outbox[r])]

\* Every behaviour of the outbox is one of the promise: in particular an output
\* recorded as failed by a refusal is never shown by an older, slower request.
KeepsPromise == Promise!Spec

\* A row whose lease has lapsed while some process is down leaves its claim:
\* that process' next start fences it.
Stranded(r) == outbox[r].status \in Leased /\ outbox[r].lease = "lapsed"

LapsedIsFencedByNextStart ==
  \A r \in Rows :
    Stranded(r) /\ (\E i \in Instances : instance[i] = "down") ~> ~Stranded(r)

\* What reconcileExpiredChannelOutbox says of itself: a `sending' row whose
\* delivery worker crashed is fenced as uncertain.
Orphaned(r) ==
  /\ outbox[r].status = "sending"
  /\ \A c \in Calls : call[c].row # r

OrphanedSendIsFenced == \A r \in Rows : Orphaned(r) ~> outbox[r].status # "sending"
=============================================================================
