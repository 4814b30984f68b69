----------------------------- MODULE ChannelTurn -----------------------------
(***************************************************************************)
(* A logical turn: one inbound channel message, its row in table turn_runs *)
(* (channel-reliability-store.ts), the Agent executions that serve it      *)
(* (ChannelTurnRuntime, and the message loop of index.ts that drives it),  *)
(* the outputs those executions hand to the outbox (ChannelOutbox), its    *)
(* streaming card (table streaming_cards) and the recovery pass over all   *)
(* of them (channel-reliability-recovery.ts).                              *)
(*                                                                         *)
(* A row of turn_runs is leased like a row of the outbox, but its owner is *)
(* a string made for one runtime, which holds one claim at a time: the     *)
(* owner alone identifies a claim, and lease_token is left out.  A         *)
(* synchronous block of the program is one step; the calls that deliver    *)
(* outputs go on while their execution ends and the next one starts.       *)
(*                                                                         *)
(* The module is about one service process and its restarts: blocks that   *)
(* span several transactions are atomic only among the steps of a process. *)
(***************************************************************************)
EXTENDS ChannelOutbox

CONSTANTS
  MutationRows,    \* outputs of the Feishu capability, which has its own path
  ProactiveTurns,  \* turns that answer through tools only
  CardTurns,       \* turns whose first execution reserves a streaming card
  Execs,           \* Agent executions (ChannelTurnRuntime objects)
  NoExec,          \* lease_owner IS NULL
  NoTurn           \* the turn of an idle execution or of an idle recovery pass

ASSUME TurnAssumption ==
  /\ MutationRows \subseteq Rows
  /\ ProactiveTurns \subseteq Turns
  /\ CardTurns \subseteq Turns \ ProactiveTurns
  /\ NoExec \notin Execs
  /\ NoTurn \notin Turns
  /\ \E i \in Instances : Instances = {i}

VARIABLES
  run,       \* run[t]: the row of turn_runs
  exec,      \* exec[e]: the runtime, its runner and its card's controller
  card,      \* card[t]: the row of streaming_cards
  cards,     \* cards[t]: how many cards the provider was asked to create
  recovery   \* the recovery pass: the cards it may close, and the one it awaits

cardVars == <<card, cards, recovery>>
turnOnlyVars == <<run, exec, cardVars>>
turnVars == <<outboxVars, turnOnlyVars>>

TerminalTurn == {"completed", "failed", "interrupted", "cancelled"}
LeasedTurn   == {"running", "finalizing"}
OpenTurn     == LeasedTurn \cup {"queued", "waiting_user", "retry_wait"}

Run == [status : TerminalTurn \cup OpenTurn \cup {"absent"},
        lease : {"none", "live", "lapsed"}, owner : Execs \cup {NoExec}]

\* claim: the runtime believes it holds the turn.  kept: the message loop still
\* has to settle it.  healthy, acked: the Agent finished the input, and its
\* answer was physically delivered (by a row of the outbox or by a card).
\* card: the controller of the reserved card.  broken: a card event could not be
\* persisted (durabilityError).
Exec == [pc : {"idle", "working", "closing"}, turn : Turns \cup {NoTurn},
         claim : BOOLEAN, kept : BOOLEAN, healthy : BOOLEAN, acked : BOOLEAN,
         card : {"none", "idle", "active", "over"}, broken : BOOLEAN]

IdleExec == [pc |-> "idle", turn |-> NoTurn, claim |-> FALSE, kept |-> FALSE,
             healthy |-> FALSE, acked |-> FALSE, card |-> "none", broken |-> FALSE]

\* A card without provider identity is reserved ("creating"), or already marked
\* streaming by an event that came before its creation ("unnamed").  Closed
\* stands for aborted and failed.
Unpublished == {"creating", "unnamed"}
OpenCard    == Unpublished \cup {"streaming", "recovering"}
ClosedCard  == {"completed", "closed"}

TurnTypeOK ==
  /\ OutboxTypeOK
  /\ run \in [Turns -> Run]
  /\ exec \in [Execs -> Exec]
  /\ card \in [Turns -> {"none"} \cup OpenCard \cup ClosedCard]
  /\ cards \in [Turns -> Nat]
  /\ recovery \in [backlog : SUBSET Turns, at : Turns \cup {NoTurn}]

TurnInit ==
  /\ OutboxInit
  /\ run = [t \in Turns |-> [status |-> "absent", lease |-> "none", owner |-> NoExec]]
  /\ exec = [e \in Execs |-> IdleExec]
  /\ card = [t \in Turns |-> "none"]
  /\ cards = [t \in Turns |-> 0]
  /\ recovery = [backlog |-> {}, at |-> NoTurn]

-----------------------------------------------------------------------------
(* Helpers *)

Up == \A i \in Instances : instance[i] = "up"

RowsOf(t) == {r \in Rows : TurnOf[r] = t}

\* The EXISTS of interruptChannelTurnRunWithDeliveredEffect.
HasDeliveredEffect(t) ==
  \/ \E r \in RowsOf(t) : outbox[r].status = "delivered"
  \/ card[t] = "completed"

\* The NOT EXISTS of completeChannelTurnRun.
HasUnsettledOutput(t) ==
  \E r \in RowsOf(t) : outbox[r].status \in Leased \cup Claimable \cup {"uncertain"}

\* A row that leaves its lease.
Released(status) == [status |-> status, lease |-> "none", owner |-> NoExec]

\* The fence in the WHERE clause of every write made under a turn claim; a live
\* lease implies that the status is running or finalizing.
HoldsTurn(e) ==
  /\ exec[e].claim
  /\ run[exec[e].turn].owner = e
  /\ run[exec[e].turn].lease = "live"

\* resumeFromUser would take the turn back before the next transition.
Resumable(e) == ~exec[e].claim /\ run[exec[e].turn].status = "waiting_user"

Served(t) == \E e \in Execs : exec[e].pc # "idle" /\ exec[e].turn = t

-----------------------------------------------------------------------------
(* ChannelTurnRuntime.start, after createChannelTurnRun *)

\* A delivered effect survives from an earlier execution: the turn is fenced, and
\* no execution begins.  A group has one execution at a time.
FenceReplay(t) ==
  /\ Up /\ ~Served(t)
  /\ run[t].status \in OpenTurn
  /\ HasDeliveredEffect(t)
  /\ run' = [run EXCEPT ![t] = Released("interrupted")]
  /\ UNCHANGED <<outboxVars, exec, cardVars>>

\* Mutant: the claim is not preceded by the fence.
Begin_Unfenced(e, t, reserve) ==
  /\ Up /\ ~Served(t)
  /\ exec[e].pc = "idle"
  /\ run[t].status \in {"absent", "queued", "retry_wait"}
  /\ reserve => t \in CardTurns /\ card[t] = "none"
  /\ run' = [run EXCEPT ![t] = [status |-> "running", lease |-> "live", owner |-> e]]
  /\ exec' = [exec EXCEPT ![e] =
       [IdleExec EXCEPT !.pc = "working", !.turn = t, !.claim = TRUE, !.kept = TRUE,
                        !.card = IF reserve THEN "idle" ELSE "none"]]
  /\ card' = [card EXCEPT ![t] = IF reserve THEN "creating" ELSE @]
  /\ UNCHANGED <<outboxVars, cards, recovery>>

\* Otherwise the turn is claimed if it can be, and its Agent runs.  The queue's
\* first attempt reserves a card (and goes back to retry_wait at once if there is
\* one already); its retries run without.
Begin(e, t, reserve) ==
  /\ Up /\ ~Served(t)
  /\ exec[e].pc = "idle"
  /\ ~HasDeliveredEffect(t)
  /\ run[t].status \in {"absent", "queued", "retry_wait"}
  /\ reserve => t \in CardTurns /\ card[t] = "none"
  /\ run' = [run EXCEPT ![t] = [status |-> "running", lease |-> "live", owner |-> e]]
  /\ exec' = [exec EXCEPT ![e] =
       [IdleExec EXCEPT !.pc = "working", !.turn = t, !.claim = TRUE, !.kept = TRUE,
                        !.card = IF reserve THEN "idle" ELSE "none"]]
  /\ card' = [card EXCEPT ![t] = IF reserve THEN "creating" ELSE @]
  /\ UNCHANGED <<outboxVars, cards, recovery>>

-----------------------------------------------------------------------------
(* While the Agent runs *)

\* deliverScopedChannelOutput: the scope lives as long as the runner, so the turn
\* itself has to be open.
DeliverScoped(e, c, r) ==
  /\ exec[e].pc = "working" /\ exec[e].turn = TurnOf[r]
  /\ r \notin MutationRows
  /\ run[TurnOf[r]].status \notin TerminalTurn
  /\ Deliver(c, r)
  /\ UNCHANGED turnOnlyVars

\* Mutant: a scope that resolves is enough.
DeliverScoped_AnyTurn(e, c, r) ==
  /\ exec[e].pc = "working" /\ exec[e].turn = TurnOf[r]
  /\ Deliver(c, r)
  /\ UNCHANGED turnOnlyVars

\* Case feishu_capability of processTaskIpc: the scope has to resolve, the turn is
\* not looked at.
DeliverMutation(e, c, r) ==
  /\ exec[e].pc = "working" /\ exec[e].turn = TurnOf[r]
  /\ r \in MutationRows
  /\ Deliver(c, r)
  /\ UNCHANGED turnOnlyVars

\* The answer's physical delivery is acknowledged: an output of the turn was
\* delivered, or its card was completed.
Acknowledge(e) ==
  /\ exec[e].pc = "working" /\ ~exec[e].acked
  /\ HasDeliveredEffect(exec[e].turn)
  /\ exec' = [exec EXCEPT ![e].acked = TRUE]
  /\ UNCHANGED <<outboxVars, run, cardVars>>

\* waitForUser, from a card that asks a question.  The event is persisted after the
\* turn was released, and refused if the card is closed.
WaitForUser(e) ==
  LET t == exec[e].turn IN
  /\ exec[e].pc = "working" /\ exec[e].kept /\ exec[e].card # "none"
  /\ HoldsTurn(e)
  /\ run' = [run EXCEPT ![t] = Released("waiting_user")]
  /\ card' = [card EXCEPT ![t] = IF @ = "creating" THEN "unnamed" ELSE @]
  /\ exec' = [exec EXCEPT ![e].claim = FALSE, ![e].broken = @ \/ card[t] \in ClosedCard]
  /\ UNCHANGED <<outboxVars, cards, recovery>>

\* resumeFromUser: queued and claimed again in one block, without the fence of start.
ResumeFromUser(e) ==
  LET t == exec[e].turn IN
  /\ exec[e].pc = "working" /\ exec[e].kept /\ exec[e].card # "none"
  /\ Resumable(e)
  /\ run' = [run EXCEPT ![t] = [status |-> "running", lease |-> "live", owner |-> e]]
  /\ exec' = [exec EXCEPT ![e].claim = TRUE, ![e].broken = @ \/ card[t] \in ClosedCard]
  /\ UNCHANGED <<outboxVars, cardVars>>

\* The heartbeat finds its lease gone.
LoseFence(e) ==
  /\ exec[e].pc # "idle" /\ exec[e].claim
  /\ ~HoldsTurn(e)
  /\ exec' = [exec EXCEPT ![e].claim = FALSE]
  /\ UNCHANGED <<outboxVars, run, cardVars>>

-----------------------------------------------------------------------------
(* The streaming card (StreamingCardController and onCardEvent)           *)

\* beginCreation: the provider is asked for a card.
OpenTheCard(e) ==
  /\ exec[e].pc = "working" /\ exec[e].card = "idle"
  /\ exec' = [exec EXCEPT ![e].card = "active"]
  /\ cards' = [cards EXCEPT ![exec[e].turn] = @ + 1]
  /\ UNCHANGED <<outboxVars, run, card, recovery>>

\* Its identity is persisted.
PublishCard(e) ==
  /\ exec[e].pc # "idle" /\ exec[e].card = "active"
  /\ card[exec[e].turn] \in Unpublished
  /\ card' = [card EXCEPT ![exec[e].turn] = "streaming"]
  /\ UNCHANGED <<outboxVars, run, exec, cards, recovery>>

\* complete and abort, or a creation that failed.  A completion that fails leaves the
\* row closed and the controller active, for an abort to follow.
EndCard(e, status, controller) ==
  /\ exec[e].pc # "idle" /\ exec[e].card = "active"
  /\ card[exec[e].turn] \in OpenCard
  /\ \/ status = "completed" /\ card[exec[e].turn] = "streaming" /\ controller = "over"
     \/ status = "closed" /\ controller \in {"active", "over"}
  /\ card' = [card EXCEPT ![exec[e].turn] = status]
  /\ exec' = [exec EXCEPT ![e].card = controller]
  /\ UNCHANGED <<outboxVars, run, cards, recovery>>

\* An event of a controller whose row is closed is refused.
RefuseCardEvent(e) ==
  /\ exec[e].pc # "idle" /\ exec[e].card = "active"
  /\ card[exec[e].turn] \in ClosedCard
  /\ exec' = [exec EXCEPT ![e].card = "over", ![e].broken = TRUE]
  /\ UNCHANGED <<outboxVars, run, cardVars>>

\* Mutant: a controller that is already creating its card does not count.
RollBackCard_Active(e) ==
  LET t == exec[e].turn IN
  /\ exec[e].pc = "working" /\ exec[e].card \in {"idle", "active"}
  /\ card[t] = "creating"
  /\ HoldsTurn(e)
  /\ \A r \in RowsOf(t) : outbox[r].status \notin {"claimed", "sending", "uncertain", "delivered"}
  /\ card' = [card EXCEPT ![t] = "none"]
  /\ exec' = [exec EXCEPT ![e].card = "none"]
  /\ UNCHANGED <<outboxVars, run, cards, recovery>>

\* rollbackUnpublishedStreamingCardReservation, for a controller that was never
\* activated.
RollBackCard(e) ==
  LET t == exec[e].turn IN
  /\ exec[e].pc = "working" /\ exec[e].card = "idle"
  /\ card[t] = "creating"
  /\ HoldsTurn(e)
  /\ \A r \in RowsOf(t) : outbox[r].status \notin {"claimed", "sending", "uncertain", "delivered"}
  /\ card' = [card EXCEPT ![t] = "none"]
  /\ exec' = [exec EXCEPT ![e].card = "none"]
  /\ UNCHANGED <<outboxVars, run, cards, recovery>>

-----------------------------------------------------------------------------
(* The end of an input and of an execution *)

\* runtime.interrupt, which needs no claim.
Interrupt(t) ==
  run' = [run EXCEPT ![t] = IF @.status \in OpenTurn THEN Released("interrupted") ELSE @]

\* Mutant: only an uncertain output is looked at.
Completes_DespiteInFlight(e) ==
  HoldsTurn(e) /\ ~exec[e].broken /\ ~UncertainTurn(exec[e].turn)

\* markFinalizing && complete: a turn with an unsettled output stays finalizing, and
\* so does one whose card is not durable.
Completes(e) == HoldsTurn(e) /\ ~exec[e].broken /\ ~HasUnsettledOutput(exec[e].turn)

TryComplete(e) ==
  run' = [run EXCEPT ![exec[e].turn] =
            IF Completes(e) THEN Released("completed")
            ELSE IF HoldsTurn(e) THEN [@ EXCEPT !.status = "finalizing"]
            ELSE @]

\* completeChannelRuntimesForOutput, on an output with inputTurnCompleted.
CompleteOutput(e) ==
  /\ exec[e].pc = "working" /\ exec[e].kept
  /\ LET t == exec[e].turn
         Settle(kept, claim) == exec' =
           [exec EXCEPT ![e].healthy = TRUE, ![e].kept = kept, ![e].claim = claim]
     IN
     \/ /\ UncertainTurn(t)
        /\ Interrupt(t)
        /\ \E kept \in BOOLEAN : Settle(kept, FALSE)  \* kept if the notice failed
     \/ /\ ~UncertainTurn(t)
        /\ t \notin ProactiveTurns /\ ~exec[e].acked
        /\ Settle(TRUE, exec[e].claim)
        /\ UNCHANGED run
     \/ /\ ~UncertainTurn(t)
        /\ t \in ProactiveTurns \/ exec[e].acked
        /\ TryComplete(e)
        /\ Settle(~Completes(e), exec[e].claim /\ ~Completes(e))
  /\ UNCHANGED <<outboxVars, cardVars>>

\* The runner has exited: the finally block unbinds the scopes.  Calls in flight
\* are not waited for.
CloseScopes(e) ==
  /\ exec[e].pc = "working"
  /\ exec' = [exec EXCEPT ![e].pc = "closing"]
  /\ UNCHANGED <<outboxVars, run, cardVars>>

\* Mutant: the transition is written by id, without the fence of the claim.
Finish_Unfenced(e, status) == run' = [run EXCEPT ![exec[e].turn] = Released(status)]

\* runtime.cancel and runtime.fail
Finish(e, status) ==
  run' = [run EXCEPT ![exec[e].turn] =
            IF HoldsTurn(e) \/ Resumable(e) THEN Released(status) ELSE @]

\* runtime.retry: a finalizing turn cannot be retried.
Retry(e) ==
  run' = [run EXCEPT ![exec[e].turn] =
            IF (HoldsTurn(e) /\ @.status = "running") \/ Resumable(e)
            THEN Released("retry_wait") ELSE @]

Answered(e) == exec[e].healthy /\ (exec[e].acked \/ exec[e].turn \in ProactiveTurns)

\* Mutant: an answered input that cannot be completed yet is retried.
Conclude_RetryUnsettled(e, discard) ==
  /\ exec[e].pc = "closing" /\ exec[e].card # "active"
  /\ LET t == exec[e].turn IN
     IF ~exec[e].kept THEN UNCHANGED run
     ELSE IF UncertainTurn(t) THEN Interrupt(t)
     ELSE IF discard THEN Finish(e, "cancelled")
     ELSE IF Answered(e) /\ Completes(e) THEN TryComplete(e)
     ELSE Retry(e)
  /\ exec' = [exec EXCEPT ![e] = IdleExec]
  /\ UNCHANGED <<outboxVars, cardVars>>

\* The rest of the finally block: an active card is ended first, then the turn is
\* settled if that was not done before.
Conclude(e, discard) ==
  /\ exec[e].pc = "closing" /\ exec[e].card # "active"
  /\ LET t == exec[e].turn IN
     IF ~exec[e].kept THEN UNCHANGED run
     ELSE IF UncertainTurn(t) THEN Interrupt(t)
     ELSE IF discard THEN Finish(e, "cancelled")
     ELSE IF Answered(e) THEN TryComplete(e)
     ELSE IF t \in ProactiveTurns /\ exec[e].acked THEN Finish(e, "failed")
     ELSE Retry(e)
  /\ exec' = [exec EXCEPT ![e] = IdleExec]
  /\ UNCHANGED <<outboxVars, cardVars>>

ExecStep(e) ==
  \/ \E t \in Turns, reserve \in BOOLEAN : Begin(e, t, reserve)
  \/ \E c \in Calls, r \in Rows : DeliverScoped(e, c, r) \/ DeliverMutation(e, c, r)
  \/ Acknowledge(e)
  \/ WaitForUser(e)
  \/ ResumeFromUser(e)
  \/ LoseFence(e)
  \/ OpenTheCard(e)
  \/ PublishCard(e)
  \/ \E status \in ClosedCard, controller \in {"active", "over"} :
       EndCard(e, status, controller)
  \/ RefuseCardEvent(e)
  \/ RollBackCard(e)
  \/ CompleteOutput(e)
  \/ CloseScopes(e)
  \/ \E discard \in BOOLEAN : Conclude(e, discard)

-----------------------------------------------------------------------------
(* Time, recovery and the process *)

\* lease_expires_at of a turn passes: its process died, or stalled past its
\* heartbeats.
LapseTurn(t) ==
  /\ run[t].lease = "live"
  /\ run' = [run EXCEPT ![t].lease = "lapsed"]
  /\ UNCHANGED <<outboxVars, exec, cardVars>>

\* Mutant: only running turns are looked for.
ReapTurn_RunningOnly(t) ==
  /\ Up /\ recovery.at = NoTurn
  /\ run[t].lease = "lapsed" /\ run[t].status = "running"
  /\ run' = [run EXCEPT ![t] = Released("interrupted")]
  /\ UNCHANGED <<outboxVars, exec, cardVars>>

\* The end of a pass, which runs every 15 s: interruptExpiredChannelTurnRuns.
ReapTurn(t) ==
  /\ Up /\ recovery.at = NoTurn
  /\ run[t].lease = "lapsed"
  /\ run' = [run EXCEPT ![t] = Released("interrupted")]
  /\ UNCHANGED <<outboxVars, exec, cardVars>>

\* Mutant: the pass does not look at the lease of the turn.
RecoverCard_AnyLease(t) ==
  /\ Up /\ recovery.at = NoTurn
  /\ t \in recovery.backlog /\ card[t] \in OpenCard
  /\ IF card[t] \in Unpublished
     THEN /\ card' = [card EXCEPT ![t] = "closed"]
          /\ Interrupt(t)
          /\ UNCHANGED recovery
     ELSE /\ card' = [card EXCEPT ![t] = "recovering"]
          /\ recovery' = [recovery EXCEPT !.at = t]
          /\ UNCHANGED run
  /\ UNCHANGED <<outboxVars, exec, cards>>

\* Mutant: only cards of turns that are leased, and lapsed, are looked at.
RecoverCard_LeasedOnly(t) ==
  /\ Up /\ recovery.at = NoTurn
  /\ t \in recovery.backlog /\ card[t] \in OpenCard
  /\ run[t].lease = "lapsed"
  /\ card' = [card EXCEPT ![t] = "recovering"]
  /\ recovery' = [recovery EXCEPT !.at = t]
  /\ UNCHANGED <<outboxVars, run, exec, cards>>

\* The pass takes a card that is older than the process and whose turn nobody holds:
\* without identity it is closed at once, and its turn interrupted; otherwise it is
\* claimed, and the provider is asked to close it.
RecoverCard(t) ==
  /\ Up /\ recovery.at = NoTurn
  /\ t \in recovery.backlog /\ card[t] \in OpenCard
  /\ run[t].lease # "live"
  /\ IF card[t] \in Unpublished
     THEN /\ card' = [card EXCEPT ![t] = "closed"]
          /\ Interrupt(t)
          /\ UNCHANGED recovery
     ELSE /\ card' = [card EXCEPT ![t] = "recovering"]
          /\ recovery' = [recovery EXCEPT !.at = t]
          /\ UNCHANGED run
  /\ UNCHANGED <<outboxVars, exec, cards>>

\* The provider closed it.
FinishRecovery(t) ==
  /\ recovery.at = t
  /\ card' = [card EXCEPT ![t] = "closed"]
  /\ Interrupt(t)
  /\ recovery' = [recovery EXCEPT !.at = NoTurn]
  /\ UNCHANGED <<outboxVars, exec, cards>>

\* It could not: its Bot is not ready.
DeferRecovery(t) ==
  /\ recovery.at = t
  /\ card' = [card EXCEPT ![t] = "streaming"]
  /\ recovery' = [recovery EXCEPT !.at = NoTurn]
  /\ UNCHANGED <<outboxVars, run, exec, cards>>

\* Startup, in the order of main, before inbound work resumes: a pass over all open
\* cards (closed: those it could close), then the bulk fence of delivered effects
\* and the reaper, then the fence of the outbox.
Recoverable == {t \in Turns : card[t] \in OpenCard /\ run[t].lease # "live"}

Fenced(t, closed) ==
  IF \/ run[t].status \in OpenTurn /\ run[t].lease # "live"
          /\ (t \in closed \/ HasDeliveredEffect(t))
     \/ run[t].lease = "lapsed"
  THEN Released("interrupted") ELSE run[t]

StartProcess(i, closed) ==
  /\ Start(i)
  /\ closed \subseteq Recoverable
  /\ \A t \in Recoverable : card[t] \in Unpublished => t \in closed
  /\ run' = [t \in Turns |-> Fenced(t, closed)]
  /\ card' = [t \in Turns |-> IF t \in closed THEN "closed" ELSE card[t]]
  /\ recovery' = [backlog |-> {t \in Turns : card'[t] \in OpenCard}, at |-> NoTurn]
  /\ UNCHANGED <<exec, cards>>

CrashProcess(i) ==
  /\ Crash(i)
  /\ exec' = [e \in Execs |-> IdleExec]
  /\ recovery' = [backlog |-> {}, at |-> NoTurn]
  /\ UNCHANGED <<run, card, cards>>

\* The steps of the outbox that no execution takes: calls under way, the provider,
\* time and the operator.
CallContinues(c) ==
  \/ BeginUpload(c) \/ FinishUpload(c) \/ BeginSend(c) \/ IssueSend(c) \/ Receipt(c)
  \/ Ambiguous(c) \/ LoseLease(c)
  \/ \E retryAt \in BOOLEAN : FailUpload(c, retryAt) \/ Rejected(c, retryAt)

OutboxOnly ==
  /\ \/ \E c \in Calls : CallContinues(c)
     \/ Provider
     \/ \E r \in Rows : Lapse(r) \/ BecomeDue(r)
     \/ \E r \in Rows, verdict \in {"delivered", "failed"} : Resolve(r, verdict)
  /\ UNCHANGED turnOnlyVars

TurnNext ==
  \/ \E e \in Execs : ExecStep(e)
  \/ \E t \in Turns : FenceReplay(t) \/ LapseTurn(t) \/ ReapTurn(t)
  \/ \E t \in Turns : RecoverCard(t) \/ FinishRecovery(t) \/ DeferRecovery(t)
  \/ \E i \in Instances, closed \in SUBSET Turns : StartProcess(i, closed)
  \/ \E i \in Instances : CrashProcess(i)
  \/ OutboxOnly

TurnSpec == TurnInit /\ [][TurnNext]_turnVars

\* The lease of a turn that nobody renews runs out: no execution holds its claim.
LapseAbandoned(t) ==
  (\A e \in Execs : ~(exec[e].turn = t /\ HoldsTurn(e))) /\ LapseTurn(t)

\* Time passes, the recovery loop ticks, a process that is down is restarted and a
\* runner exits in the end (it has timeouts); the finally block then runs.  The
\* recovery pass gets, again and again, to a card whose Bot is connected.
TurnFairness ==
  /\ \A t \in Turns : WF_turnVars(LapseAbandoned(t)) /\ WF_turnVars(ReapTurn(t))
  /\ \A t \in Turns : SF_turnVars(RecoverCard(t)) /\ SF_turnVars(FinishRecovery(t))
  /\ \A i \in Instances : WF_turnVars(\E closed \in SUBSET Turns : StartProcess(i, closed))
  /\ \A e \in Execs :
       /\ WF_turnVars(CloseScopes(e))
       /\ WF_turnVars(EndCard(e, "closed", "over") \/ RefuseCardEvent(e))
       /\ WF_turnVars(\E discard \in BOOLEAN : Conclude(e, discard))

TurnFairSpec == TurnSpec /\ TurnFairness

-----------------------------------------------------------------------------
(* Properties *)

\* A completed turn has no message or card in flight, waiting or unknown, and none
\* appears later, although its runner goes on and its scope outlives it
\* (completeChannelRuntimesForOutput).  Mutations of the Feishu capability are not meant:
\* their path does not look at the turn (DeliverMutation), and one may appear at any time.
CompletedMeansSettled ==
  \A t \in Turns : run[t].status = "completed" =>
    \A r \in RowsOf(t) \ MutationRows :
      outbox[r].status \in Settled \cup {"absent"}

\* An effect that is known to be visible stays known, across late answers, recovery
\* passes, crashes and restarts, and no Agent execution ever begins on its turn.
Begins(e) == exec[e].pc = "idle" /\ exec'[e].pc = "working"

KnownEffectIsNotReplayed ==
  [][\A t \in Turns : HasDeliveredEffect(t) =>
       /\ HasDeliveredEffect(t)'
       /\ \A e \in Execs : Begins(e) => exec'[e].turn # t]_turnVars

\* An input the Agent finished and whose answer was delivered is not handed to
\* another execution: while an output in flight refuses its completion the turn is
\* left finalizing, and from there it can only complete or be interrupted.
AnsweredIsNotRetried ==
  [][\A e \in Execs :
       /\ exec[e].pc # "idle" /\ Answered(e)
       /\ run'[exec[e].turn].status = "retry_wait"
       => run[exec[e].turn].status = "retry_wait"]_turnVars

\* A turn that has ended keeps its verdict against late executions, the reaper, the
\* card pass and a restart.
EndedTurnIsFinal ==
  [][\A t \in Turns : run[t].status \in TerminalTurn => run'[t] = run[t]]_turnVars

\* The provider is asked for at most one card per turn, whatever crashes, retries,
\* rollbacks of a reservation and recovery passes do: the turn's card id is
\* deterministic, and a reservation is given back only before its creation.
OneCardPerTurn == \A t \in Turns : cards[t] <= 1

\* While the recovery pass waits for the provider to close a card, its turn has no
\* holder: the interruption that follows needs no look at the lease, although it
\* was last looked at before the wait.
RecoveredTurnIsUnheld ==
  \A t \in Turns : recovery.at = t => run[t].lease # "live"

\* A leased turn whose execution is gone does not stay leased.
AbandonedTurnIsReleased ==
  \A t \in Turns :
    run[t].status \in LeasedTurn /\ ~Served(t) ~> run[t].status \notin LeasedTurn \/ Served(t)

\* A turn that waited for its user when its process died, with its card still open,
\* does not wait for ever: the card is closed, and the turn with it.  (A turn whose
\* card had already failed is found by no pass.)
Forsaken(t) == run[t].status = "waiting_user" /\ ~Served(t) /\ card[t] \in OpenCard

WaitingTurnIsReleased ==
  \A t \in Turns : Forsaken(t) ~> run[t].status # "waiting_user"
=============================================================================
