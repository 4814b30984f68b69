-------------------------- MODULE ChannelTurnProofs --------------------------
(***************************************************************************)
(* Proofs about ChannelTurn: that turns use the outbox only through its    *)
(* own operations, so that what ChannelOutboxProofs proves holds under     *)
(* executions, cards and recovery passes, and what turns add to it.        *)
(***************************************************************************)
EXTENDS ChannelTurn, ChannelOutboxProofs

-----------------------------------------------------------------------------
(* The inductive invariant of turns, over the one of the outbox *)

TurnTypes ==
  /\ run \in [Turns -> Run]
  /\ exec \in [Execs -> Exec]
  /\ card \in [Turns -> {"none"} \cup OpenCard \cup ClosedCard]
  /\ cards \in [Turns -> Nat]
  /\ recovery \in [backlog : SUBSET Turns, at : Turns \cup {NoTurn}]

\* What Begin claims, and the cards that have an identity.
Waiting == {"absent", "queued", "retry_wait"}
Named   == {"streaming", "recovering"}

LeaseIsHeld ==
  \A t \in Turns : run[t].lease # "none" => run[t].status \in LeasedTurn

\* An execution is idle or serves a turn that is not waiting for one, alone; none
\* outlives its process.
ExecShape ==
  \A e \in Execs :
    \/ exec[e].pc = "idle" /\ exec[e].turn = NoTurn
    \/ /\ exec[e].pc # "idle"
       /\ exec[e].turn \in Turns
       /\ run[exec[e].turn].status \notin Waiting

OneExec ==
  \A e, f \in Execs :
    exec[e].turn \in Turns /\ exec[e].turn = exec[f].turn => e = f

DownIsIdle ==
  \A i \in Instances : instance[i] = "down" => \A e \in Execs : exec[e].pc = "idle"

\* The provider is asked once: by the controller of the reservation, after which
\* the row stays.
CardCount ==
  /\ \A t \in Turns : cards[t] \in {0, 1} /\ (card[t] = "none" => cards[t] = 0)
  /\ \A e \in Execs : exec[e].turn \in Turns =>
       /\ exec[e].card # "none" => card[exec[e].turn] # "none"
       /\ exec[e].card = "idle" => cards[exec[e].turn] = 0

\* A card with an identity has an active controller or a turn that no execution
\* takes up again.
NamedCard ==
  /\ \A t \in Turns : card[t] \in Named => run[t].status \notin Waiting
  /\ \A e \in Execs : exec[e].turn \in Turns =>
       (card[exec[e].turn] \in Named => exec[e].card = "active")

\* Nobody serves a turn whose card was left open by an earlier process.
BacklogShape ==
  /\ \A t \in recovery.backlog :
       /\ card[t] # "none"
       /\ card[t] \in OpenCard =>
            /\ run[t].status \notin Waiting
            /\ \A e \in Execs : exec[e].turn # t
  /\ \A t \in Turns : recovery.at = t =>
       t \in recovery.backlog /\ card[t] = "recovering" /\ run[t].lease # "live"

TurnIInv ==
  /\ TurnTypes
  /\ LeaseIsHeld
  /\ ExecShape
  /\ OneExec
  /\ DownIsIdle
  /\ CardCount
  /\ NamedCard
  /\ BacklogShape

-----------------------------------------------------------------------------
(* Turns over the outbox *)

LEMMA TurnStepIsOutboxStep == [TurnNext]_turnVars => [OutboxNext]_outboxVars
  <1> SUFFICES ASSUME [TurnNext]_turnVars PROVE [OutboxNext]_outboxVars
    OBVIOUS
  <1>1. CASE UNCHANGED turnVars
    BY <1>1 DEF turnVars
  <1>2. ASSUME NEW e \in Execs, ExecStep(e) PROVE [OutboxNext]_outboxVars
    <2>1. ASSUME NEW c \in Calls, NEW r \in Rows, Deliver(c, r)
          PROVE  OutboxNext
      BY <2>1 DEF OutboxNext, CallStep
    <2>2. CASE \E c \in Calls, r \in Rows : DeliverScoped(e, c, r) \/ DeliverMutation(e, c, r)
      BY <2>1, <2>2 DEF DeliverScoped, DeliverMutation
    <2>3. CASE \E t \in Turns, reserve \in BOOLEAN : Begin(e, t, reserve)
      BY <2>3 DEF Begin
    <2>4. CASE Acknowledge(e) \/ WaitForUser(e) \/ ResumeFromUser(e) \/ LoseFence(e)
      BY <2>4 DEF Acknowledge, WaitForUser, ResumeFromUser, LoseFence
    <2>5. CASE OpenTheCard(e) \/ PublishCard(e) \/ RefuseCardEvent(e) \/ RollBackCard(e)
      BY <2>5 DEF OpenTheCard, PublishCard, RefuseCardEvent, RollBackCard
    <2>6. CASE \E status \in ClosedCard, controller \in {"active", "over"} :
                 EndCard(e, status, controller)
      BY <2>6 DEF EndCard
    <2>7. CASE CompleteOutput(e) \/ CloseScopes(e)
      BY <2>7 DEF CompleteOutput, CloseScopes
    <2>8. CASE \E discard \in BOOLEAN : Conclude(e, discard)
      BY <2>8 DEF Conclude
    <2> QED
      BY <1>2, <2>2, <2>3, <2>4, <2>5, <2>6, <2>7, <2>8 DEF ExecStep
  <1>3. ASSUME NEW t \in Turns,
               \/ FenceReplay(t) \/ LapseTurn(t) \/ ReapTurn(t)
               \/ RecoverCard(t) \/ FinishRecovery(t) \/ DeferRecovery(t)
        PROVE  UNCHANGED outboxVars
    BY <1>3 DEF FenceReplay, LapseTurn, ReapTurn, RecoverCard, FinishRecovery, DeferRecovery
  <1>4. ASSUME NEW i \in Instances, NEW closed \in SUBSET Turns, StartProcess(i, closed)
        PROVE  OutboxNext
    BY <1>4 DEF StartProcess, OutboxNext
  <1>5. ASSUME NEW i \in Instances, CrashProcess(i) PROVE OutboxNext
    BY <1>5 DEF CrashProcess, OutboxNext
  <1>6. CASE OutboxOnly
    BY <1>6 DEF OutboxOnly, CallContinues, OutboxNext, CallStep
  <1> QED
    BY <1>1, <1>2, <1>3, <1>4, <1>5, <1>6 DEF TurnNext

\* Executions, fences, cards and recovery passes use the outbox only through its
\* own operations, so that its theorems can be cited.
LEMMA TurnsUseOutbox == TurnSpec => OutboxSpec
  <1>1. TurnInit => OutboxInit
    BY DEF TurnInit
  <1> QED
    BY <1>1, TurnStepIsOutboxStep, PTL DEF TurnSpec, OutboxSpec

\* Hence under turns, too, an output is made visible at most once.
THEOREM AtMostOnceUnderTurns == TurnSpec => []ShownAtMostOnce
  BY TurnsUseOutbox, AtMostOnce, PTL

-----------------------------------------------------------------------------
(* The invariant is inductive.  Each lemma takes one operation, or several that
   write the same variables. *)

USE TurnAssumption DEF Run, Waiting, Named, LeasedTurn, OpenTurn,
  TerminalTurn, OpenCard, ClosedCard, Unpublished, Released, cardVars, turnOnlyVars

LEMMA TurnIInvInit == TurnInit => TurnIInv
  BY DEF TurnInit, OutboxInit, Exec, IdleExec, TurnIInv, TurnTypes, LeaseIsHeld, ExecShape, OneExec,
     DownIsIdle, CardCount, NamedCard, BacklogShape

\* The runtimes stay runtimes when a field of one is written.
LEMMA ExecWrites ==
  ASSUME NEW m \in [Execs -> Exec], NEW e \in Execs, NEW b \in BOOLEAN
  PROVE  /\ [m EXCEPT ![e].claim = b] \in [Execs -> Exec]
         /\ [m EXCEPT ![e].kept = b] \in [Execs -> Exec]
         /\ [m EXCEPT ![e].healthy = b] \in [Execs -> Exec]
         /\ [m EXCEPT ![e].acked = b] \in [Execs -> Exec]
         /\ [m EXCEPT ![e].broken = b] \in [Execs -> Exec]
         /\ \A s \in {"none", "idle", "active", "over"} :
              [m EXCEPT ![e].card = s] \in [Execs -> Exec]
         /\ [m EXCEPT ![e].pc = "closing"] \in [Execs -> Exec]
         /\ [m EXCEPT ![e] = IdleExec] \in [Execs -> Exec]
  BY DEF Exec, IdleExec

LEMMA InterruptWrites ==
  ASSUME TurnIInv, NEW t \in Turns, Interrupt(t)
  PROVE  run' \in [Turns -> Run] /\ LeaseIsHeld'
  BY DEF TurnIInv, TurnTypes, LeaseIsHeld, Interrupt

LEMMA FinishWrites ==
  ASSUME TurnIInv, NEW e \in Execs, exec[e].turn \in Turns,
         NEW status \in {"cancelled", "failed"}, Finish(e, status)
  PROVE  /\ run' \in [Turns -> Run]
         /\ LeaseIsHeld'
         /\ \A t \in Turns :
              /\ t # exec[e].turn => run'[t] = run[t]
              /\ run'[t].lease = "live" => run[t].lease = "live"
              /\ run'[t].status \in Waiting => run[t].status \in Waiting
  BY DEF TurnIInv, TurnTypes, LeaseIsHeld, Finish

\* The transitions an execution writes at its end concern its turn alone, never
\* renew a lease, and only a retry lets the turn wait for an execution again.
LEMMA RunWrites ==
  ASSUME TurnIInv, NEW e \in Execs, exec[e].pc # "idle",
         \/ UNCHANGED run
         \/ Interrupt(exec[e].turn)
         \/ TryComplete(e)
         \/ Finish(e, "cancelled")
         \/ Finish(e, "failed")
         \/ Retry(e)
  PROVE  /\ run' \in [Turns -> Run]
         /\ LeaseIsHeld'
         /\ \A t \in Turns :
              /\ t # exec[e].turn => run'[t] = run[t]
              /\ run'[t].lease = "live" => run[t].lease = "live"
              /\ run'[t].status \in Waiting /\ run[t].status \notin Waiting => Retry(e)
  <1> USE DEF TurnIInv, TurnTypes, ExecShape, LeaseIsHeld, HoldsTurn
  <1>0. exec[e].turn \in Turns /\ run[exec[e].turn] \in Run
    OBVIOUS
  <1>1. CASE UNCHANGED run
    BY <1>1
  <1>2. CASE Interrupt(exec[e].turn)
    BY <1>0, <1>2 DEF Interrupt
  <1>3. CASE TryComplete(e)
    BY <1>0, <1>3 DEF TryComplete
  <1>4. ASSUME NEW status \in {"cancelled", "failed"}, Finish(e, status)
        PROVE  /\ run' \in [Turns -> Run]
               /\ LeaseIsHeld'
               /\ \A t \in Turns :
                    /\ t # exec[e].turn => run'[t] = run[t]
                    /\ run'[t].lease = "live" => run[t].lease = "live"
                    /\ run'[t].status \in Waiting => run[t].status \in Waiting
    BY <1>0, <1>4, FinishWrites
  <1>5. CASE Retry(e)
    BY <1>0, <1>5 DEF Retry, Resumable
  <1> QED
    BY <1>1, <1>2, <1>3, <1>4, <1>5

LEMMA BeginStep ==
  ASSUME TurnIInv, NEW e \in Execs, NEW t \in Turns, NEW reserve \in BOOLEAN,
         Begin(e, t, reserve)
  PROVE  TurnIInv'
  <1> USE DEF Begin, Served, Up, TurnIInv, TurnTypes, LeaseIsHeld, ExecShape,
      OneExec, DownIsIdle, CardCount, NamedCard, BacklogShape
  <1>1. PICK s \in {"none", "idle"} :
          /\ s = IF reserve THEN "idle" ELSE "none"
          /\ exec' = [exec EXCEPT ![e] =
               [IdleExec EXCEPT !.pc = "working", !.turn = t, !.claim = TRUE,
                                !.kept = TRUE, !.card = s]]
    OBVIOUS
  <1> DEFINE x(claim, kept) == [IdleExec EXCEPT !.pc = "working", !.turn = t,
                                  !.claim = claim, !.kept = kept, !.card = s]
  <1>2. \A claim, kept \in BOOLEAN :
          /\ x(claim, kept) \in Exec
          /\ x(claim, kept).pc = "working"
          /\ x(claim, kept).turn = t
          /\ x(claim, kept).card = s
    BY DEF Exec, IdleExec
  <1>3. exec' = [exec EXCEPT ![e] = x(TRUE, TRUE)]
    BY <1>1
  <1> HIDE DEF x
  <1>4. TurnTypes' /\ LeaseIsHeld'
    <2>1. exec' \in [Execs -> Exec]
      <3>1. x(TRUE, TRUE) \in Exec
        BY <1>2, Zenon
      <3>2. \A y \in Exec : [exec EXCEPT ![e] = y] \in [Execs -> Exec]
        OBVIOUS
      <3>3. [exec EXCEPT ![e] = x(TRUE, TRUE)] \in [Execs -> Exec]
        BY <3>1, <3>2, Zenon
      <3> QED
        BY <1>3, <3>3, Zenon
    <2>2. card' \in [Turns -> {"none"} \cup OpenCard \cup ClosedCard]
      OBVIOUS
    <2>3. run' \in [Turns -> Run] /\ LeaseIsHeld'
      OBVIOUS
    <2> QED
      BY <2>1, <2>2, <2>3
  <1>5. ExecShape' /\ OneExec' /\ DownIsIdle'
    BY <1>3, <1>2 DEF outboxVars
  <1>6. CardCount'
    BY <1>1, <1>3, <1>2
  <1>7. NamedCard' /\ BacklogShape'
    BY <1>3, <1>2
  <1> QED
    BY <1>4, <1>5, <1>6, <1>7

LEMMA FlagStep ==
  ASSUME TurnIInv, NEW e \in Execs, Acknowledge(e) \/ LoseFence(e) \/ CloseScopes(e)
  PROVE  TurnIInv'
  <1> USE DEF TurnIInv, TurnTypes, LeaseIsHeld, ExecShape, OneExec, DownIsIdle,
      CardCount, NamedCard, BacklogShape
  <1>1. exec' \in [Execs -> Exec]
    <2>1. CASE Acknowledge(e)
      BY <2>1, ExecWrites DEF Acknowledge
    <2>2. CASE LoseFence(e)
      BY <2>2, ExecWrites DEF LoseFence
    <2>3. CASE CloseScopes(e)
      BY <2>3, ExecWrites DEF CloseScopes
    <2> QED
      BY <2>1, <2>2, <2>3
  <1>2. UNCHANGED <<instance, run, card, cards, recovery>>
    BY DEF Acknowledge, LoseFence, CloseScopes, outboxVars
  <1>3. \A f \in Execs : /\ exec'[f].turn = exec[f].turn
                         /\ exec'[f].card = exec[f].card
                         /\ (exec'[f].pc = "idle") <=> (exec[f].pc = "idle")
    BY DEF Acknowledge, LoseFence, CloseScopes, Exec
  <1>4. TurnTypes' /\ LeaseIsHeld'
    BY <1>1, <1>2
  <1>5. ExecShape' /\ OneExec' /\ DownIsIdle'
    BY <1>2, <1>3
  <1>6. CardCount' /\ NamedCard' /\ BacklogShape'
    BY <1>2, <1>3
  <1> QED
    BY <1>4, <1>5, <1>6

LEMMA UserStep ==
  ASSUME TurnIInv, NEW e \in Execs, WaitForUser(e) \/ ResumeFromUser(e)
  PROVE  TurnIInv'
  <1> USE DEF TurnIInv, TurnTypes, LeaseIsHeld, ExecShape, OneExec, DownIsIdle,
      CardCount, NamedCard, BacklogShape, HoldsTurn, Resumable
  <1>1. exec[e].pc # "idle" /\ exec[e].turn \in Turns /\ UNCHANGED <<instance, cards, recovery>>
    BY DEF WaitForUser, ResumeFromUser, outboxVars
  <1>2. PICK p \in BOOLEAN, b \in BOOLEAN :
          exec' = [exec EXCEPT ![e].claim = p, ![e].broken = b]
    <2>1. CASE WaitForUser(e)
      <3>1. PICK b \in BOOLEAN : exec' = [exec EXCEPT ![e].claim = FALSE, ![e].broken = b]
        BY <2>1 DEF WaitForUser
      <3> QED
        BY <3>1
    <2>2. CASE ResumeFromUser(e)
      <3>1. PICK b \in BOOLEAN : exec' = [exec EXCEPT ![e].claim = TRUE, ![e].broken = b]
        BY <2>2 DEF ResumeFromUser
      <3> QED
        BY <3>1
    <2> QED
      BY <2>1, <2>2
  <1>3. exec' \in [Execs -> Exec]
    <2> DEFINE y == [exec EXCEPT ![e].claim = p]
    <2>1. y \in [Execs -> Exec]
      BY ExecWrites
    <2>2. [y EXCEPT ![e].broken = b] \in [Execs -> Exec]
      BY <2>1, ExecWrites
    <2> QED
      BY <1>2, <2>2
  <1>4. \A f \in Execs : /\ exec'[f].turn = exec[f].turn
                         /\ exec'[f].card = exec[f].card
                         /\ exec'[f].pc = exec[f].pc
    BY <1>2 DEF Exec
  <1>5. CASE WaitForUser(e)
    <2>1. TurnTypes' /\ LeaseIsHeld'
      BY <1>1, <1>3, <1>5 DEF WaitForUser
    <2>2. ExecShape' /\ OneExec' /\ DownIsIdle'
      BY <1>1, <1>4, <1>5 DEF WaitForUser
    <2>3. CardCount' /\ NamedCard' /\ BacklogShape'
      BY <1>1, <1>4, <1>5 DEF WaitForUser
    <2> QED
      BY <2>1, <2>2, <2>3
  <1>6. CASE ResumeFromUser(e)
    <2>1. TurnTypes' /\ LeaseIsHeld'
      BY <1>1, <1>3, <1>6 DEF ResumeFromUser
    <2>2. ExecShape' /\ OneExec' /\ DownIsIdle'
      BY <1>1, <1>4, <1>6 DEF ResumeFromUser
    <2>3. CardCount' /\ NamedCard' /\ BacklogShape'
      BY <1>1, <1>4, <1>6 DEF ResumeFromUser
    <2> QED
      BY <2>1, <2>2, <2>3
  <1> QED
    BY <1>5, <1>6

LEMMA CardStep ==
  ASSUME TurnIInv, NEW e \in Execs,
         \/ OpenTheCard(e) \/ PublishCard(e) \/ RefuseCardEvent(e) \/ RollBackCard(e)
         \/ \E status \in ClosedCard, controller \in {"active", "over"} :
              EndCard(e, status, controller)
  PROVE  TurnIInv'
  <1> USE DEF TurnIInv, TurnTypes, LeaseIsHeld, ExecShape, OneExec, DownIsIdle,
      CardCount, NamedCard, BacklogShape
  <1>1. CASE OpenTheCard(e)
    <2> USE <1>1 DEF OpenTheCard, outboxVars, Exec
    <2>1. TurnTypes' /\ LeaseIsHeld' /\ ExecShape' /\ OneExec' /\ DownIsIdle'
      OBVIOUS
    <2>2. CardCount' /\ NamedCard' /\ BacklogShape'
      OBVIOUS
    <2> QED
      BY <2>1, <2>2
  <1>2. CASE PublishCard(e)
    BY <1>2 DEF PublishCard, outboxVars
  <1>3. CASE RefuseCardEvent(e)
    <2> USE <1>3 DEF RefuseCardEvent, outboxVars
    <2> DEFINE y == [exec EXCEPT ![e].card = "over"]
    <2>1. y \in [Execs -> Exec]
      BY ExecWrites
    <2>2. [y EXCEPT ![e].broken = TRUE] \in [Execs -> Exec]
      BY <2>1, ExecWrites
    <2>3. TurnTypes' /\ LeaseIsHeld'
      BY <2>2
    <2>4. \A f \in Execs : /\ exec'[f].turn = exec[f].turn
                           /\ exec'[f].pc = exec[f].pc
                           /\ exec'[f].card = IF f = e THEN "over" ELSE exec[f].card
      BY DEF Exec
    <2> QED
      BY <2>3, <2>4
  <1>4. CASE RollBackCard(e)
    <2> USE <1>4 DEF RollBackCard, outboxVars
    <2>1. exec' \in [Execs -> Exec]
      BY ExecWrites
    <2>2. \A f \in Execs : exec'[f].turn = exec[f].turn /\ exec'[f].pc = exec[f].pc
      BY DEF Exec
    <2>3. card' \in [Turns -> {"none"} \cup OpenCard \cup ClosedCard]
      OBVIOUS
    <2>4. TurnTypes' /\ LeaseIsHeld'
      BY <2>1, <2>3
    <2>5. ExecShape' /\ OneExec' /\ DownIsIdle'
      BY <2>2
    <2>6. CardCount' /\ NamedCard' /\ BacklogShape'
      BY DEF Exec
    <2> QED
      BY <2>4, <2>5, <2>6
  <1>5. ASSUME NEW status \in ClosedCard, NEW controller \in {"active", "over"},
               EndCard(e, status, controller)
        PROVE  TurnIInv'
    <2> USE <1>5 DEF EndCard, outboxVars
    <2>1. exec' \in [Execs -> Exec]
      BY ExecWrites
    <2>2. \A f \in Execs : exec'[f].turn = exec[f].turn /\ exec'[f].pc = exec[f].pc
      BY DEF Exec
    <2>3. card' \in [Turns -> {"none"} \cup OpenCard \cup ClosedCard]
      OBVIOUS
    <2>4. TurnTypes' /\ LeaseIsHeld'
      BY <2>1, <2>3
    <2>5. ExecShape' /\ OneExec' /\ DownIsIdle'
      BY <2>2
    <2>6. CardCount' /\ NamedCard' /\ BacklogShape'
      BY DEF Exec
    <2> QED
      BY <2>4, <2>5, <2>6
  <1> HIDE DEF TurnIInv
  <1> QED
    BY <1>1, <1>2, <1>3, <1>4, <1>5

LEMMA CompleteOutputStep ==
  ASSUME TurnIInv, NEW e \in Execs, CompleteOutput(e)
  PROVE  TurnIInv'
  <1> USE DEF TurnIInv, TurnTypes
  <1>1. exec[e].pc # "idle" /\ exec[e].turn \in Turns /\ UNCHANGED <<instance, card, cards, recovery>>
    BY DEF CompleteOutput, outboxVars, ExecShape
  <1>2. UNCHANGED run \/ Interrupt(exec[e].turn) \/ TryComplete(e)
    BY DEF CompleteOutput
  <1>3. \A t \in Turns : run'[t].status \in Waiting => run[t].status \in Waiting
    BY <1>1, <1>2 DEF Interrupt, TryComplete
  <1> USE DEF ExecShape, OneExec, DownIsIdle, CardCount, NamedCard, BacklogShape
  <1>4. PICK kept \in BOOLEAN, claim \in BOOLEAN :
          exec' = [exec EXCEPT ![e].healthy = TRUE, ![e].kept = kept, ![e].claim = claim]
    <2>0. exec[e].claim \in BOOLEAN
      BY DEF Exec
    <2>1. CASE \E kept \in BOOLEAN :
                 exec' = [exec EXCEPT ![e].healthy = TRUE, ![e].kept = kept, ![e].claim = FALSE]
      BY <2>1
    <2>2. CASE exec' = [exec EXCEPT ![e].healthy = TRUE, ![e].kept = TRUE,
                                    ![e].claim = exec[e].claim]
      BY <2>0, <2>2
    <2>3. CASE exec' = [exec EXCEPT ![e].healthy = TRUE, ![e].kept = ~Completes(e),
                                    ![e].claim = exec[e].claim /\ ~Completes(e)]
      <3> DEFINE kept  == ~Completes(e)
                 claim == exec[e].claim /\ ~Completes(e)
      <3>1. kept \in BOOLEAN /\ claim \in BOOLEAN
        BY <2>0
      <3>2. exec' = [exec EXCEPT ![e].healthy = TRUE, ![e].kept = kept, ![e].claim = claim]
        BY <2>3
      <3> HIDE DEF kept, claim
      <3> QED
        BY <3>1, <3>2
    <2> QED
      BY <2>1, <2>2, <2>3 DEF CompleteOutput
  <1>5. exec' \in [Execs -> Exec]
    <2> DEFINE y == [exec EXCEPT ![e].healthy = TRUE]
               z == [y EXCEPT ![e].kept = kept]
    <2>1. y \in [Execs -> Exec]
      BY ExecWrites
    <2>2. z \in [Execs -> Exec]
      BY <2>1, ExecWrites
    <2>3. [z EXCEPT ![e].claim = claim] \in [Execs -> Exec]
      BY <2>2, ExecWrites
    <2> QED
      BY <1>4, <2>3
  <1>6. \A f \in Execs : /\ exec'[f].turn = exec[f].turn
                         /\ exec'[f].card = exec[f].card
                         /\ exec'[f].pc = exec[f].pc
    BY <1>4 DEF Exec
  <1>7. TurnTypes' /\ LeaseIsHeld'
    BY <1>1, <1>2, <1>5, RunWrites
  <1>8. \A t \in Turns : run'[t].lease = "live" => run[t].lease = "live"
    BY <1>1, <1>2, RunWrites
  <1>9. ExecShape' /\ OneExec' /\ DownIsIdle' /\ CardCount'
    BY <1>1, <1>6, <1>3
  <1>10. NamedCard' /\ BacklogShape'
    BY <1>1, <1>6, <1>3, <1>8
  <1> QED
    BY <1>7, <1>9, <1>10

LEMMA ConcludeStep ==
  ASSUME TurnIInv, NEW e \in Execs, NEW discard \in BOOLEAN, Conclude(e, discard)
  PROVE  TurnIInv'
  <1> USE DEF TurnIInv, TurnTypes, ExecShape, OneExec, DownIsIdle, CardCount,
      NamedCard, BacklogShape
  <1>1. /\ exec[e].pc # "idle" /\ exec[e].turn \in Turns /\ exec[e].card # "active"
        /\ exec' = [exec EXCEPT ![e] = IdleExec]
        /\ UNCHANGED <<instance, card, cards, recovery>>
    BY DEF Conclude, outboxVars
  <1>2. \/ UNCHANGED run \/ Interrupt(exec[e].turn) \/ TryComplete(e)
        \/ Finish(e, "cancelled") \/ Finish(e, "failed") \/ Retry(e)
    BY DEF Conclude
  <1>3. \A t \in Turns :
          /\ t # exec[e].turn => run'[t] = run[t]
          /\ run'[t].lease = "live" => run[t].lease = "live"
    BY <1>1, <1>2, RunWrites
  <1>4. TurnTypes' /\ LeaseIsHeld'
    BY <1>1, <1>2, RunWrites, ExecWrites
  <1>5. exec'[e] = IdleExec /\ \A f \in Execs : f # e => exec'[f] = exec[f]
    BY <1>1
  <1>6. ExecShape' /\ OneExec' /\ DownIsIdle' /\ CardCount'
    BY <1>1, <1>3, <1>5 DEF IdleExec
  <1>7. NamedCard' /\ BacklogShape'
    BY <1>1, <1>3, <1>5 DEF IdleExec
  <1> QED
    BY <1>4, <1>6, <1>7

LEMMA TurnFenceStep ==
  ASSUME TurnIInv, NEW t \in Turns, FenceReplay(t) \/ LapseTurn(t) \/ ReapTurn(t)
  PROVE  TurnIInv'
  <1> USE DEF FenceReplay, LapseTurn, ReapTurn, outboxVars, Served, TurnIInv, TurnTypes,
      LeaseIsHeld, ExecShape, OneExec, DownIsIdle, CardCount, NamedCard, BacklogShape
  <1>1. TurnTypes' /\ LeaseIsHeld'
    <2>1. CASE FenceReplay(t)
      BY <2>1
    <2>2. CASE LapseTurn(t)
      BY <2>2
    <2>3. CASE ReapTurn(t)
      BY <2>3
    <2> QED
      BY <2>1, <2>2, <2>3
  <1>2. ExecShape' /\ OneExec' /\ DownIsIdle' /\ CardCount'
    OBVIOUS
  <1>3. NamedCard' /\ BacklogShape'
    OBVIOUS
  <1> QED
    BY <1>1, <1>2, <1>3

LEMMA RecoveryStep ==
  ASSUME TurnIInv, NEW t \in Turns, RecoverCard(t) \/ FinishRecovery(t) \/ DeferRecovery(t)
  PROVE  TurnIInv'
  <1> USE DEF TurnIInv, TurnTypes, LeaseIsHeld, ExecShape, OneExec, DownIsIdle,
      CardCount, NamedCard, BacklogShape, outboxVars, Interrupt
  <1>1. CASE RecoverCard(t)
    <2> USE <1>1 DEF RecoverCard
    <2>1. TurnTypes' /\ LeaseIsHeld'
      <3>1. CASE card[t] \in Unpublished
        <4>1. run' \in [Turns -> Run] /\ LeaseIsHeld'
          BY <3>1, InterruptWrites
        <4>2. card' \in [Turns -> {"none"} \cup OpenCard \cup ClosedCard]
          BY <3>1
        <4>3. UNCHANGED <<exec, cards, recovery>>
          BY <3>1
        <4> QED
          BY <4>1, <4>2, <4>3
      <3>2. CASE card[t] \notin Unpublished
        BY <3>2
      <3> QED
        BY <3>1, <3>2
    <2>2. ExecShape' /\ OneExec' /\ DownIsIdle' /\ CardCount'
      OBVIOUS
    <2>3. NamedCard' /\ BacklogShape'
      OBVIOUS
    <2> QED
      BY <2>1, <2>2, <2>3
  <1>2. CASE FinishRecovery(t)
    BY <1>2 DEF FinishRecovery
  <1>3. CASE DeferRecovery(t)
    BY <1>3 DEF DeferRecovery
  <1> QED
    BY <1>1, <1>2, <1>3

LEMMA ProcessStep ==
  ASSUME TurnIInv, NEW i \in Instances,
         \/ CrashProcess(i)
         \/ \E closed \in SUBSET Turns : StartProcess(i, closed)
  PROVE  TurnIInv'
  <1> USE DEF TurnIInv, TurnTypes, LeaseIsHeld, ExecShape, OneExec, DownIsIdle,
      CardCount, NamedCard, BacklogShape
  <1>1. CASE CrashProcess(i)
    <2> USE <1>1 DEF CrashProcess, Crash
    <2>1. TurnTypes' /\ LeaseIsHeld'
      BY DEF IdleExec, Exec
    <2>2. ExecShape' /\ OneExec' /\ DownIsIdle' /\ CardCount'
      BY DEF IdleExec
    <2>3. NamedCard' /\ BacklogShape'
      BY DEF IdleExec
    <2> QED
      BY <2>1, <2>2, <2>3
  <1>2. ASSUME NEW closed \in SUBSET Turns, StartProcess(i, closed)
        PROVE  TurnIInv'
    <2> USE <1>2 DEF StartProcess, Start, Recoverable, Fenced
    <2>1. TurnTypes' /\ LeaseIsHeld'
      OBVIOUS
    <2>2. ExecShape' /\ OneExec' /\ DownIsIdle' /\ CardCount'
      OBVIOUS
    <2>3. NamedCard' /\ BacklogShape'
      OBVIOUS
    <2> QED
      BY <2>1, <2>2, <2>3
  <1> QED
    BY <1>1, <1>2

\* Deliveries and the steps of the outbox alone touch nothing the invariant is about.
LEMMA OutboxOnlyStep ==
  ASSUME TurnIInv, UNCHANGED <<turnOnlyVars, instance>>
  PROVE  TurnIInv'
  BY DEF TurnIInv, TurnTypes, LeaseIsHeld, ExecShape, OneExec, DownIsIdle, CardCount,
     NamedCard, BacklogShape

LEMMA TurnIInvStep == TurnIInv /\ [TurnNext]_turnVars => TurnIInv'
  <1> SUFFICES ASSUME TurnIInv, [TurnNext]_turnVars PROVE TurnIInv'
    OBVIOUS
  <1>1. CASE UNCHANGED turnVars
    BY <1>1, OutboxOnlyStep DEF turnVars, outboxVars, turnOnlyVars
  <1>2. ASSUME NEW e \in Execs, ExecStep(e) PROVE TurnIInv'
    <2>1. ASSUME NEW c \in Calls, NEW r \in Rows, DeliverScoped(e, c, r) \/ DeliverMutation(e, c, r)
          PROVE  TurnIInv'
      BY <2>1, OutboxOnlyStep DEF DeliverScoped, DeliverMutation, Deliver
    <2> QED
      BY <1>2, <2>1, BeginStep, FlagStep, UserStep, CardStep, CompleteOutputStep,
         ConcludeStep DEF ExecStep
  <1>3. CASE OutboxOnly
    <2>1. UNCHANGED <<turnOnlyVars, instance>>
      BY <1>3 DEF OutboxOnly, CallContinues, BeginUpload, FinishUpload, BeginSend, IssueSend,
         Receipt, Ambiguous, LoseLease, FailUpload, Rejected, Provider, Accept, Refuse,
         Lapse, BecomeDue, Resolve
    <2> QED
      BY <2>1, OutboxOnlyStep
  <1> QED
    BY <1>1, <1>2, <1>3, TurnFenceStep, RecoveryStep, ProcessStep DEF TurnNext

LEMMA TurnIInvariant == TurnSpec => []TurnIInv
  BY TurnIInvInit, TurnIInvStep, PTL DEF TurnSpec

-----------------------------------------------------------------------------
(* What a step does to a turn *)

\* A verdict stays; a turn completes only over settled outputs; and only a retry of
\* an input that was not answered makes it wait again.
Transition(t) ==
  /\ run[t].status \in TerminalTurn => run'[t] = run[t]
  /\ run'[t].status = "completed" /\ run[t].status # "completed" =>
       ~HasUnsettledOutput(t) /\ UNCHANGED outboxVars
  /\ run'[t].status = "retry_wait" /\ run[t].status # "retry_wait" =>
       \E e \in Execs : exec[e].turn = t /\ exec[e].pc # "idle" /\ ~Answered(e)

LEMMA RunTransitions ==
  ASSUME TurnIInv, TurnNext, NEW t \in Turns
  PROVE  Transition(t)
  <1> USE DEF TurnIInv, TurnTypes, LeaseIsHeld, Transition
  <1>1. CASE UNCHANGED run
    BY <1>1
  <1>2. ASSUME NEW e \in Execs, NEW u \in Turns, NEW reserve \in BOOLEAN, Begin(e, u, reserve)
        PROVE  Transition(t)
    BY <1>2 DEF Begin
  <1>3. ASSUME NEW e \in Execs, WaitForUser(e) \/ ResumeFromUser(e)
        PROVE  Transition(t)
    <2>1. CASE WaitForUser(e)
      BY <2>1 DEF WaitForUser, HoldsTurn, ExecShape
    <2>2. CASE ResumeFromUser(e)
      BY <2>2 DEF ResumeFromUser, Resumable, ExecShape
    <2> QED
      BY <1>3, <2>1, <2>2
  <1>4. ASSUME NEW e \in Execs, CompleteOutput(e)
        PROVE  Transition(t)
    <2>1. UNCHANGED outboxVars
      BY <1>4 DEF CompleteOutput
    <2>2. UNCHANGED run \/ Interrupt(exec[e].turn) \/ TryComplete(e)
      BY <1>4 DEF CompleteOutput
    <2> QED
      BY <2>1, <2>2, <1>1 DEF Interrupt, TryComplete, Completes, HoldsTurn
  <1>5. ASSUME NEW e \in Execs, NEW discard \in BOOLEAN, Conclude(e, discard)
        PROVE  Transition(t)
    <2>1. UNCHANGED outboxVars /\ exec[e].pc # "idle"
      BY <1>5 DEF Conclude
    <2>2. \/ UNCHANGED run
          \/ Interrupt(exec[e].turn)
          \/ TryComplete(e)
          \/ Finish(e, "cancelled") \/ Finish(e, "failed")
          \/ ~Answered(e) /\ Retry(e)
      BY <1>5 DEF Conclude
    <2>3. CASE Interrupt(exec[e].turn) \/ TryComplete(e)
      BY <2>1, <2>3 DEF Interrupt, TryComplete, Completes, HoldsTurn
    <2>4. ASSUME NEW status \in {"cancelled", "failed"}, Finish(e, status)
          PROVE  Transition(t)
      BY <2>4 DEF Finish, HoldsTurn, Resumable
    <2>5. CASE ~Answered(e) /\ Retry(e)
      BY <2>1, <2>5 DEF Retry, HoldsTurn, Resumable
    <2> QED
      BY <1>1, <2>2, <2>3, <2>4, <2>5
  <1>6. ASSUME NEW u \in Turns, FenceReplay(u) \/ LapseTurn(u) \/ ReapTurn(u)
        PROVE  Transition(t)
    BY <1>6 DEF FenceReplay, LapseTurn, ReapTurn
  <1>7. ASSUME NEW u \in Turns, RecoverCard(u) \/ FinishRecovery(u)
        PROVE  Transition(t)
    <2>1. UNCHANGED run \/ Interrupt(u)
      BY <1>7 DEF RecoverCard, FinishRecovery
    <2> QED
      BY <1>1, <2>1 DEF Interrupt
  <1>8. ASSUME NEW i \in Instances, NEW closed \in SUBSET Turns, StartProcess(i, closed)
        PROVE  Transition(t)
    BY <1>8 DEF StartProcess, Fenced
  <1>9. ASSUME NEW e \in Execs, ExecStep(e)
        PROVE  Transition(t)
    <2>1. ASSUME \/ Acknowledge(e) \/ LoseFence(e) \/ OpenTheCard(e) \/ PublishCard(e)
                 \/ RefuseCardEvent(e) \/ RollBackCard(e) \/ CloseScopes(e)
          PROVE  UNCHANGED run
      BY <2>1 DEF Acknowledge, LoseFence, OpenTheCard, PublishCard, RefuseCardEvent,
         RollBackCard, CloseScopes
    <2>2. ASSUME NEW status \in ClosedCard, NEW controller \in {"active", "over"},
                 EndCard(e, status, controller)
          PROVE  UNCHANGED run
      BY <2>2 DEF EndCard
    <2>3. ASSUME NEW c \in Calls, NEW r \in Rows, DeliverScoped(e, c, r) \/ DeliverMutation(e, c, r)
          PROVE  UNCHANGED run
      BY <2>3 DEF DeliverScoped, DeliverMutation
    <2> QED
      BY <1>1, <1>2, <1>3, <1>4, <1>5, <1>9, <2>1, <2>2, <2>3 DEF ExecStep
  <1> QED
    BY <1>1, <1>6, <1>7, <1>8, <1>9 DEF TurnNext, DeferRecovery, CrashProcess, OutboxOnly

\* An output appears only through a delivery of an open turn, or as a mutation.
LEMMA OutputAppears ==
  ASSUME OutboxIInv, TurnNext, NEW r \in Rows,
         outbox[r].status = "absent", outbox'[r].status # "absent"
  PROVE  UNCHANGED run /\ (r \in MutationRows \/ run[TurnOf[r]].status \notin TerminalTurn)
  <1> USE DEF OutboxIInv, OutboxTypeOK
  <1>1. ASSUME NEW c \in Calls, CallContinues(c)
        PROVE  FALSE
    <2>1. CASE Holding(c)
      BY <2>1, HoldingWrites DEF Leased
    <2>2. CASE UNCHANGED outbox
      BY <2>2
    <2> QED
      BY <1>1, <2>1, <2>2 DEF CallContinues, Holding, IssueSend, LoseLease
  <1>2. CASE UNCHANGED outbox
    BY <1>2
  <1>3. ASSUME NEW q \in Rows, Lapse(q) \/ BecomeDue(q)
        PROVE  FALSE
    <2>1. outbox[q].status # "absent"
      BY <1>3 DEF Lapse, BecomeDue, ClaimInv, LeaseShape, Leased, Claimable
    <2>2. \A p \in Rows : p # q => outbox'[p] = outbox[p]
      BY <1>3 DEF Lapse, BecomeDue
    <2> QED
      BY <2>1, <2>2
  <1>4. ASSUME NEW q \in Rows, NEW verdict \in {"delivered", "failed"}, Resolve(q, verdict)
        PROVE  FALSE
    BY <1>4 DEF Resolve
  <1>5. ASSUME NEW i \in Instances, Start(i)
        PROVE  FALSE
    <2>1. outbox'[r] = outbox[r] \/ outbox[r].lease = "lapsed"
      BY <1>5, StartRows
    <2> QED
      BY <2>1 DEF ClaimInv, LeaseShape, Leased
  <1>6. ASSUME NEW e \in Execs, NEW c \in Calls, NEW q \in Rows,
               DeliverScoped(e, c, q) \/ DeliverMutation(e, c, q)
        PROVE  UNCHANGED run /\ (r \in MutationRows \/ run[TurnOf[r]].status \notin TerminalTurn)
    <2>1. \A p \in Rows : p # q => outbox'[p] = outbox[p]
      BY <1>6 DEF DeliverScoped, DeliverMutation, Deliver
    <2>2. r = q
      BY <2>1
    <2> QED
      BY <1>6, <2>2 DEF DeliverScoped, DeliverMutation
  <1>7. ASSUME NEW e \in Execs, ExecStep(e)
        PROVE  \/ UNCHANGED outbox
               \/ \E c \in Calls, q \in Rows : DeliverScoped(e, c, q) \/ DeliverMutation(e, c, q)
    BY <1>7 DEF ExecStep, Begin, Acknowledge, WaitForUser, ResumeFromUser, LoseFence,
       OpenTheCard, PublishCard, EndCard, RefuseCardEvent, RollBackCard, CompleteOutput,
       CloseScopes, Conclude, outboxVars
  <1>8. CASE OutboxOnly
    <2>1. ASSUME Provider PROVE UNCHANGED outbox
      BY <2>1 DEF Provider, Accept, Refuse
    <2> QED
      BY <1>1, <1>2, <1>3, <1>4, <1>8, <2>1 DEF OutboxOnly
  <1>9. ASSUME NEW t \in Turns,
               \/ FenceReplay(t) \/ LapseTurn(t) \/ ReapTurn(t)
               \/ RecoverCard(t) \/ FinishRecovery(t) \/ DeferRecovery(t)
        PROVE  UNCHANGED outbox
    BY <1>9 DEF FenceReplay, LapseTurn, ReapTurn, RecoverCard, FinishRecovery,
       DeferRecovery, outboxVars
  <1>10. ASSUME NEW i \in Instances, CrashProcess(i)
         PROVE  UNCHANGED outbox
    BY <1>10 DEF CrashProcess, Crash
  <1>11. ASSUME NEW i \in Instances, NEW closed \in SUBSET Turns, StartProcess(i, closed)
         PROVE  FALSE
    BY <1>5, <1>11 DEF StartProcess
  <1> QED
    BY <1>2, <1>6, <1>7, <1>8, <1>9, <1>10, <1>11 DEF TurnNext

\* A completed card is closed to its controller, to the rollback of its reservation
\* and to every recovery pass.
LEMMA CompletedCardStays ==
  ASSUME TurnIInv, TurnNext, NEW t \in Turns, card[t] = "completed"
  PROVE  card'[t] = "completed"
  <1> USE DEF TurnIInv, TurnTypes
  <1>1. CASE UNCHANGED card
    BY <1>1
  <1>2. ASSUME NEW e \in Execs, NEW u \in Turns, NEW reserve \in BOOLEAN, Begin(e, u, reserve)
        PROVE  card'[t] = "completed"
    BY <1>2 DEF Begin
  <1>3. ASSUME NEW e \in Execs, WaitForUser(e) \/ PublishCard(e) \/ RollBackCard(e)
        PROVE  card'[t] = "completed"
    BY <1>3 DEF WaitForUser, PublishCard, RollBackCard, ExecShape
  <1>4. ASSUME NEW e \in Execs, NEW status \in ClosedCard, NEW controller \in {"active", "over"},
               EndCard(e, status, controller)
        PROVE  card'[t] = "completed"
    BY <1>4 DEF EndCard, ExecShape
  <1>5. ASSUME NEW u \in Turns, RecoverCard(u)
        PROVE  card'[t] = "completed"
    <2>1. card[u] \in OpenCard /\ \E s \in {"closed", "recovering"} : card' = [card EXCEPT ![u] = s]
      BY <1>5 DEF RecoverCard
    <2> QED
      BY <2>1
  <1>6. ASSUME NEW u \in Turns, FinishRecovery(u) \/ DeferRecovery(u)
        PROVE  card'[t] = "completed"
    BY <1>6 DEF FinishRecovery, DeferRecovery, BacklogShape
  <1>7. ASSUME NEW i \in Instances, NEW closed \in SUBSET Turns, StartProcess(i, closed)
        PROVE  card'[t] = "completed"
    BY <1>7 DEF StartProcess, Recoverable
  <1>8. ASSUME NEW e \in Execs, ExecStep(e)
        PROVE  card'[t] = "completed"
    <2>1. ASSUME \/ Acknowledge(e) \/ ResumeFromUser(e) \/ LoseFence(e) \/ OpenTheCard(e)
                 \/ RefuseCardEvent(e) \/ CompleteOutput(e) \/ CloseScopes(e)
          PROVE  UNCHANGED card
      BY <2>1 DEF Acknowledge, ResumeFromUser, LoseFence, OpenTheCard, RefuseCardEvent,
         CompleteOutput, CloseScopes
    <2>2. ASSUME NEW discard \in BOOLEAN, Conclude(e, discard) PROVE UNCHANGED card
      BY <2>2 DEF Conclude
    <2>3. ASSUME NEW c \in Calls, NEW r \in Rows, DeliverScoped(e, c, r) \/ DeliverMutation(e, c, r)
          PROVE  UNCHANGED card
      BY <2>3 DEF DeliverScoped, DeliverMutation
    <2> QED
      BY <1>1, <1>2, <1>3, <1>4, <1>8, <2>1, <2>2, <2>3 DEF ExecStep
  <1>9. ASSUME NEW u \in Turns, FenceReplay(u) \/ LapseTurn(u) \/ ReapTurn(u)
        PROVE  UNCHANGED card
    BY <1>9 DEF FenceReplay, LapseTurn, ReapTurn
  <1> QED
    BY <1>1, <1>5, <1>6, <1>7, <1>8, <1>9 DEF TurnNext, CrashProcess, OutboxOnly

\* Only Begin makes an idle execution work.
LEMMA BeginningsAreBegins ==
  ASSUME TurnIInv, TurnNext, NEW e \in Execs, Begins(e)
  PROVE  \E t \in Turns, reserve \in BOOLEAN : Begin(e, t, reserve)
  <1> USE DEF Begins, TurnIInv, TurnTypes
  <1>1. ASSUME UNCHANGED exec PROVE FALSE
    BY <1>1
  <1>2. ASSUME NEW f \in Execs, exec[f].pc # "idle", \A g \in Execs : g # f => exec'[g] = exec[g]
        PROVE  FALSE
    BY <1>2
  <1>3. ASSUME NEW f \in Execs, NEW t \in Turns, NEW reserve \in BOOLEAN, Begin(f, t, reserve)
        PROVE  f = e
    BY <1>3 DEF Begin
  <1>4. ASSUME NEW f \in Execs, ExecStep(f)
        PROVE  \E t \in Turns, reserve \in BOOLEAN : Begin(e, t, reserve)
    <2>1. ASSUME \/ Acknowledge(f) \/ WaitForUser(f) \/ ResumeFromUser(f) \/ LoseFence(f)
                 \/ OpenTheCard(f) \/ RefuseCardEvent(f) \/ RollBackCard(f) \/ CloseScopes(f)
          PROVE  FALSE
      BY <1>2, <2>1 DEF Acknowledge, WaitForUser, ResumeFromUser, LoseFence, OpenTheCard,
         RefuseCardEvent, RollBackCard, CloseScopes
    <2>2. ASSUME PublishCard(f) PROVE FALSE
      BY <1>1, <2>2 DEF PublishCard
    <2>3. ASSUME NEW status \in ClosedCard, NEW controller \in {"active", "over"},
                 EndCard(f, status, controller)
          PROVE  FALSE
      BY <1>2, <2>3 DEF EndCard
    <2>4. ASSUME CompleteOutput(f) PROVE FALSE
      <3>1. exec[f].pc # "idle"
        BY <2>4 DEF CompleteOutput
      <3>2. PICK kept, claim :
              exec' = [exec EXCEPT ![f].healthy = TRUE, ![f].kept = kept, ![f].claim = claim]
        BY <2>4 DEF CompleteOutput
      <3> QED
        BY <1>2, <3>1, <3>2
    <2>5. ASSUME NEW discard \in BOOLEAN, Conclude(f, discard) PROVE FALSE
      BY <1>2, <2>5 DEF Conclude
    <2>6. ASSUME NEW c \in Calls, NEW r \in Rows, DeliverScoped(f, c, r) \/ DeliverMutation(f, c, r)
          PROVE  FALSE
      BY <1>1, <2>6 DEF DeliverScoped, DeliverMutation
    <2> QED
      BY <1>3, <1>4, <2>1, <2>2, <2>3, <2>4, <2>5, <2>6 DEF ExecStep
  <1>5. ASSUME NEW t \in Turns,
               \/ FenceReplay(t) \/ LapseTurn(t) \/ ReapTurn(t)
               \/ RecoverCard(t) \/ FinishRecovery(t) \/ DeferRecovery(t)
        PROVE  UNCHANGED exec
    BY <1>5 DEF FenceReplay, LapseTurn, ReapTurn, RecoverCard, FinishRecovery, DeferRecovery
  <1>6. ASSUME NEW i \in Instances, NEW closed \in SUBSET Turns, StartProcess(i, closed)
        PROVE  UNCHANGED exec
    BY <1>6 DEF StartProcess
  <1>7. ASSUME NEW i \in Instances, CrashProcess(i) PROVE FALSE
    BY <1>7 DEF CrashProcess, IdleExec
  <1>8. CASE OutboxOnly
    BY <1>1, <1>8 DEF OutboxOnly
  <1> QED
    BY <1>1, <1>4, <1>5, <1>6, <1>7, <1>8 DEF TurnNext

-----------------------------------------------------------------------------
(* The theorems about turns *)

HIDE DEF cardVars, turnOnlyVars

\* The tables of turns, executions and cards stay well-formed, and the outbox with
\* them.
THEOREM TurnTypeCorrect == TurnSpec => []TurnTypeOK
  <1>1. TurnIInv /\ OutboxTypeOK => TurnTypeOK
    BY DEF TurnIInv, TurnTypes, TurnTypeOK
  <1> QED
    BY <1>1, TurnIInvariant, TurnsUseOutbox, OutboxTypeCorrect, PTL

\* A turn that has ended keeps its verdict, whoever comes late.
THEOREM EndedTurnsAreFinal == TurnSpec => EndedTurnIsFinal
  <1> DEFINE Kept == \A t \in Turns : run[t].status \in TerminalTurn => run'[t] = run[t]
  <1>1. TurnIInv /\ [TurnNext]_turnVars => [Kept]_turnVars
    BY RunTransitions DEF Transition
  <1> QED
    BY <1>1, TurnIInvariant, PTL DEF TurnSpec, EndedTurnIsFinal

\* A turn completes over settled messages and cards only, and none appears in it later
\* (mutations apart, whose path does not look at the turn).
THEOREM CompletionsAreSettled == TurnSpec => []CompletedMeansSettled
  <1> DEFINE Kept == \A r \in Rows :
        /\ outbox[r].status \in Settled => outbox'[r] = outbox[r]
        /\ outbox[r].status = "uncertain" /\ outbox'[r].status # "uncertain" =>
             outbox'[r].status \in Settled /\ r \in resolved'
  <1>1. TurnInit => CompletedMeansSettled
    BY DEF TurnInit, CompletedMeansSettled
  <1>2. /\ CompletedMeansSettled /\ TurnIInv /\ OutboxIInv /\ OutboxIInv'
        /\ [TurnNext]_turnVars /\ [Kept]_outboxVars
        => CompletedMeansSettled'
    <2> SUFFICES ASSUME CompletedMeansSettled, TurnIInv, OutboxIInv,
                        TurnNext, Kept \/ UNCHANGED outboxVars,
                        NEW t \in Turns, run'[t].status = "completed",
                        NEW r \in RowsOf(t) \ MutationRows
                 PROVE  outbox'[r].status \in Settled \cup {"absent"}
      BY DEF CompletedMeansSettled, turnVars, turnOnlyVars, outboxVars, RowsOf
    <2>1. r \in Rows /\ TurnOf[r] = t
      BY DEF RowsOf
    <2>2. CASE run[t].status = "completed"
      <3>1. outbox[r].status \in Settled \cup {"absent"}
        BY <2>2 DEF CompletedMeansSettled
      <3>2. CASE outbox[r].status \in Settled
        BY <2>1, <3>2 DEF outboxVars
      <3>3. CASE outbox[r].status = "absent"
        BY <2>1, <2>2, <3>3, OutputAppears
      <3> QED
        BY <3>1, <3>2, <3>3
    <2>3. CASE run[t].status # "completed"
      <3>1. ~HasUnsettledOutput(t) /\ outbox'[r] = outbox[r]
        BY <2>3, RunTransitions DEF Transition, outboxVars
      <3>2. outbox[r].status \in Status
        BY <2>1 DEF OutboxIInv, OutboxTypeOK, Row
      <3> QED
        BY <2>1, <3>1, <3>2 DEF HasUnsettledOutput, RowsOf, Status
    <2> QED
      BY <2>2, <2>3
  <1>3. TurnSpec => [][Kept]_outboxVars
    BY TurnsUseOutbox, VerdictsAreFinal, PTL DEF VerdictIsFinal
  <1>4. TurnSpec => []OutboxIInv
    BY TurnsUseOutbox, OutboxIInvariant, PTL
  <1> QED
    BY <1>1, <1>2, <1>3, <1>4, TurnIInvariant, PTL DEF TurnSpec

\* An effect that is known to be visible stays known, and no execution begins on its
\* turn: a delivered row is final, a completed card too, and Begin looks at both.
THEOREM KnownEffectsAreNotReplayed == TurnSpec => KnownEffectIsNotReplayed
  <1> DEFINE Kept == \A r \in Rows :
        /\ outbox[r].status \in Settled => outbox'[r] = outbox[r]
        /\ outbox[r].status = "uncertain" /\ outbox'[r].status # "uncertain" =>
             outbox'[r].status \in Settled /\ r \in resolved'
      Known == \A t \in Turns : HasDeliveredEffect(t) =>
        /\ HasDeliveredEffect(t)'
        /\ \A e \in Execs : Begins(e) => exec'[e].turn # t
  <1>1. TurnIInv /\ [TurnNext]_turnVars /\ [Kept]_outboxVars => [Known]_turnVars
    <2> SUFFICES ASSUME TurnIInv, TurnNext, Kept \/ UNCHANGED outboxVars,
                        NEW t \in Turns, HasDeliveredEffect(t)
                 PROVE  /\ HasDeliveredEffect(t)'
                        /\ \A e \in Execs : Begins(e) => exec'[e].turn # t
      OBVIOUS
    <2>1. HasDeliveredEffect(t)'
      <3>1. ASSUME NEW r \in RowsOf(t), outbox[r].status = "delivered"
            PROVE  outbox'[r].status = "delivered"
        BY <3>1 DEF RowsOf, Settled, outboxVars
      <3> QED
        BY <3>1, CompletedCardStays DEF HasDeliveredEffect, RowsOf
    <2>2. ASSUME NEW e \in Execs, Begins(e), exec'[e].turn = t PROVE FALSE
      <3>1. PICK u \in Turns, reserve \in BOOLEAN : Begin(e, u, reserve)
        BY <2>2, BeginningsAreBegins
      <3>2. u = t
        BY <2>2, <3>1 DEF Begin, IdleExec, TurnIInv, TurnTypes
      <3> QED
        BY <3>1, <3>2 DEF Begin
    <2> QED
      BY <2>1, <2>2
  <1>2. TurnSpec => [][Kept]_outboxVars
    BY TurnsUseOutbox, VerdictsAreFinal, PTL DEF VerdictIsFinal
  <1> QED
    BY <1>1, <1>2, TurnIInvariant, PTL DEF TurnSpec, KnownEffectIsNotReplayed

\* An input that was answered is not handed to another execution.
THEOREM AnsweredInputsAreNotRetried == TurnSpec => AnsweredIsNotRetried
  <1> DEFINE Kept == \A e \in Execs :
        /\ exec[e].pc # "idle" /\ Answered(e)
        /\ run'[exec[e].turn].status = "retry_wait"
        => run[exec[e].turn].status = "retry_wait"
  <1>1. TurnIInv /\ [TurnNext]_turnVars => [Kept]_turnVars
    <2> SUFFICES ASSUME TurnIInv, TurnNext, NEW e \in Execs,
                        exec[e].pc # "idle", Answered(e),
                        run'[exec[e].turn].status = "retry_wait",
                        run[exec[e].turn].status # "retry_wait"
                 PROVE  FALSE
      OBVIOUS
    <2>1. exec[e].turn \in Turns
      BY DEF TurnIInv, ExecShape
    <2>2. PICK f \in Execs : exec[f].turn = exec[e].turn /\ ~Answered(f)
      BY <2>1, RunTransitions DEF Transition
    <2>3. f = e
      BY <2>1, <2>2 DEF TurnIInv, OneExec
    <2> QED
      BY <2>2, <2>3
  <1> QED
    BY <1>1, TurnIInvariant, PTL DEF TurnSpec, AnsweredIsNotRetried

\* The provider is asked for at most one card per turn.
THEOREM CardsAreUnique == TurnSpec => []OneCardPerTurn
  <1>1. TurnIInv => OneCardPerTurn
    BY DEF TurnIInv, CardCount, OneCardPerTurn
  <1> QED
    BY <1>1, TurnIInvariant, PTL

\* Nobody takes up a turn whose card the recovery pass is closing.
THEOREM RecoveredTurnsAreUnheld == TurnSpec => []RecoveredTurnIsUnheld
  <1>1. TurnIInv => RecoveredTurnIsUnheld
    BY DEF TurnIInv, BacklogShape, RecoveredTurnIsUnheld
  <1> QED
    BY <1>1, TurnIInvariant, PTL
=============================================================================
