----------------------- MODULE ChannelOutboxProofs -----------------------
(***************************************************************************)
(* Proofs about ChannelOutbox, for every set of rows, calls and processes. *)
(*                                                                         *)
(* ShownAtMostOnce is not inductive: that a row is shown once follows from *)
(* where its requests can come from.  The strengthening OutboxIInv says    *)
(* that tokens identify claims (ClaimsDistinct), that the holder of a live *)
(* claim knows the status of its row (HolderKnowsStatus), that only one    *)
(* call per row is ever past `sending' (OneSender), and that every other   *)
(* request of such a row has been refused (OneRequest, SenderRequest), and *)
(* that the row is then sending, uncertain or an operator's (SenderStatus).*)
(***************************************************************************)
EXTENDS ChannelOutbox, TLAPS

Busy(c) == call[c].pc # "idle"

LeaseShape ==
  \A r \in Rows : outbox[r].lease # "none" =>
    outbox[r].status \in Leased /\ outbox[r].token < MaxToken

ClaimShape ==
  \A c \in Calls : Busy(c) =>
    call[c].row \in Rows /\ call[c].token <= outbox[call[c].row].token

ClaimsDistinct ==
  \A c, d \in Calls : Busy(c) /\ Busy(d) /\ call[c].row = call[d].row
                      /\ call[c].token = call[d].token => c = d

HolderKnowsStatus ==
  \A c \in Calls :
    Busy(c) /\ outbox[call[c].row].lease # "none"
            /\ outbox[call[c].row].token = call[c].token =>
      outbox[call[c].row].status =
        IF call[c].pc = "awaiting" THEN "sending" ELSE call[c].pc

SenderStatus ==
  \A c \in Calls : call[c].pc \in SendPhase =>
    \/ outbox[call[c].row].status \in {"sending", "uncertain"}
    \/ outbox[call[c].row].status \in {"delivered", "failed"} /\ call[c].row \in resolved

OneSender ==
  \A c, d \in Calls : call[c].pc \in SendPhase /\ call[d].pc \in SendPhase
                      /\ call[c].row = call[d].row => c = d

SenderRequest ==
  \A c \in Calls : call[c].pc \in SendPhase =>
    \A k \in Tokens : k # call[c].token \/ call[c].pc = "sending" =>
      request[call[c].row][k] \in {"none", "refused"}

OneRequest ==
  \A r \in Rows : \A j, k \in Tokens :
    request[r][j] \in {"sent", "accepted"} /\ request[r][k] \in {"sent", "accepted"} =>
      j = k

ShownIsAccepted ==
  \A r \in Rows :
    \/ shown[r] = 0 /\ \A k \in Tokens : request[r][k] # "accepted"
    \/ shown[r] = 1 /\ \E k \in Tokens : request[r][k] = "accepted"

FailedIsInvisible ==
  \A r \in Rows : outbox[r].status = "failed" /\ r \notin resolved =>
    shown[r] = 0 /\ \A k \in Tokens : request[r][k] \in {"none", "refused"}

ClaimInv ==
  /\ LeaseShape
  /\ ClaimShape
  /\ ClaimsDistinct
  /\ HolderKnowsStatus
  /\ SenderStatus
  /\ OneSender
  /\ SenderRequest
  /\ OneRequest
  /\ ShownIsAccepted
  /\ ReplayableIsInvisible
  /\ DeliveredIsShown
  /\ FailedIsInvisible

OutboxIInv == OutboxTypeOK /\ ClaimInv

-----------------------------------------------------------------------------
(* What a step does to one row *)

\* Two facts about the row a call works on, while the call holds its claim.
LEMMA HolderRow ==
  ASSUME OutboxIInv, NEW c \in Calls, Busy(c), Holds(c)
  PROVE  /\ call[c].row \in Rows
         /\ outbox[call[c].row] \in Row
         /\ outbox[call[c].row].lease = "live"
         /\ outbox[call[c].row].token = call[c].token
         /\ outbox[call[c].row].status =
              IF call[c].pc = "awaiting" THEN "sending" ELSE call[c].pc
  <1>1. call[c].row \in Rows
    BY DEF OutboxIInv, ClaimInv, ClaimShape
  <1>2. outbox[call[c].row] \in Row
    BY <1>1 DEF OutboxIInv, ClaimInv, OutboxTypeOK
  <1>3. /\ outbox[call[c].row].lease = "live"
        /\ outbox[call[c].row].token = call[c].token
    BY DEF Holds
  <1> QED
    BY <1>1, <1>2, <1>3 DEF OutboxIInv, ClaimInv, HolderKnowsStatus

\* What the fence of a restart does to each row.
LEMMA StartRows ==
  ASSUME OutboxIInv, NEW i \in Instances, Start(i)
  PROVE  \A r \in Rows :
           /\ outbox'[r] \in Row
           /\ \/ outbox'[r] = outbox[r]
              \/ /\ outbox[r].lease = "lapsed"
                 /\ outbox'[r].lease = "none"
                 /\ outbox'[r].token = outbox[r].token + 1
                 /\ \/ outbox[r].status = "sending" /\ outbox'[r].status = "uncertain"
                    \/ /\ outbox[r].status \in {"claimed", "uploading", "uploaded"}
                       /\ outbox'[r].status = "retry_wait"
  <1> SUFFICES ASSUME NEW r \in Rows
               PROVE  /\ outbox'[r] \in Row
                      /\ \/ outbox'[r] = outbox[r]
                         \/ /\ outbox[r].lease = "lapsed"
                            /\ outbox'[r].lease = "none"
                            /\ outbox'[r].token = outbox[r].token + 1
                            /\ \/ /\ outbox[r].status = "sending"
                                  /\ outbox'[r].status = "uncertain"
                               \/ /\ outbox[r].status \in {"claimed", "uploading", "uploaded"}
                                  /\ outbox'[r].status = "retry_wait"
    OBVIOUS
  <1> DEFINE row == outbox[r]
             uncertain == [Release(row, "uncertain") EXCEPT !.token = @ + 1]
             retry == [Release(row, "retry_wait") EXCEPT !.token = @ + 1, !.due = TRUE]
  <1>1. row \in Row
    BY DEF OutboxIInv, ClaimInv, OutboxTypeOK
  <1>2. outbox'[r] = Reconciled(row)
    BY DEF Start
  <1>3. CASE row.lease # "lapsed"
    BY <1>1, <1>2, <1>3 DEF Reconciled
  <1>4. CASE row.lease = "lapsed"
    <2>1. row.status \in Leased /\ row.token < MaxToken
      BY <1>4 DEF OutboxIInv, ClaimInv, LeaseShape
    <2>2. row.token + 1 \in Tokens
      BY <1>1, <2>1, OutboxAssumption DEF Row, Tokens
    <2>3. /\ uncertain \in Row /\ uncertain.lease = "none"
          /\ uncertain.token = row.token + 1 /\ uncertain.status = "uncertain"
      BY <1>1, <2>2 DEF Row, Release, Status
    <2>4. /\ retry \in Row /\ retry.lease = "none"
          /\ retry.token = row.token + 1 /\ retry.status = "retry_wait"
      BY <1>1, <2>2 DEF Row, Release, Status, Claimable
    <2>5. CASE row.status = "sending"
      <3>1. outbox'[r] = uncertain
        BY <1>2, <1>4, <2>5 DEF Reconciled
      <3> QED
        BY <1>4, <2>3, <2>5, <3>1
    <2>6. CASE row.status # "sending"
      <3>1. outbox'[r] = retry
        BY <1>2, <1>4, <2>1, <2>6 DEF Reconciled
      <3>2. row.status \in {"claimed", "uploading", "uploaded"}
        BY <2>1, <2>6 DEF Leased
      <3> QED
        BY <1>4, <2>4, <3>1, <3>2
    <2> QED
      BY <2>5, <2>6
  <1> QED
    BY <1>3, <1>4

\* The rows the actions write are rows.
LEMMA RowUpdates ==
  ASSUME NEW row \in Row, NEW s \in Status, NEW b \in BOOLEAN
  PROVE  /\ [row EXCEPT !.status = s] \in Row
         /\ [row EXCEPT !.status = s, !.key = TRUE] \in Row
         /\ [row EXCEPT !.lease = "lapsed"] \in Row
         /\ [row EXCEPT !.due = TRUE] \in Row
         /\ Release(row, s) \in Row
         /\ \A u \in BOOLEAN : Failed(row, u, b) \in Row
  <1>1. \A t \in Status : Release(row, t) \in Row
    BY DEF Row, Release
  <1>2. ASSUME NEW u \in BOOLEAN PROVE Failed(row, u, b) \in Row
    <2> DEFINE t == IF u THEN "uncertain" ELSE IF b THEN "retry_wait" ELSE "failed"
    <2>1. t \in Status
      BY DEF Status, Claimable, Settled
    <2>2. Release(row, t) \in Row /\ Release(row, t).due \in BOOLEAN
      BY <1>1, <2>1 DEF Row
    <2>3. [Release(row, t) EXCEPT !.due = @ /\ ~b] \in Row
      BY <2>2 DEF Row
    <2> QED
      BY <2>3 DEF Failed
  <1>3. /\ [row EXCEPT !.status = s] \in Row
        /\ [row EXCEPT !.status = s, !.key = TRUE] \in Row
        /\ [row EXCEPT !.lease = "lapsed"] \in Row
        /\ [row EXCEPT !.due = TRUE] \in Row
    BY DEF Row
  <1> QED
    BY <1>1, <1>2, <1>3

LEMMA SomeStatuses ==
  {"claimed", "uploading", "uploaded", "sending", "delivered", "failed",
   "uncertain", "retry_wait"} \subseteq Status
  BY DEF Status, Leased, Claimable, Settled

\* A step that writes one row with a row, or one call with a call, keeps types.
LEMMA OneRow ==
  ASSUME OutboxTypeOK, NEW r \in Rows, NEW row \in Row,
         outbox' = [outbox EXCEPT ![r] = row]
  PROVE  outbox' \in [Rows -> Row]
  BY DEF OutboxTypeOK

LEMMA OneCall ==
  ASSUME OutboxTypeOK, NEW c \in Calls, NEW cl \in Call,
         call' = [call EXCEPT ![c] = cl]
  PROVE  call' \in [Calls -> Call]
  BY DEF OutboxTypeOK

LEMMA CallUpdates ==
  ASSUME NEW cl \in Call
  PROVE  /\ IdleCall \in Call
         /\ \A s \in {"uploading", "uploaded"} \cup SendPhase : [cl EXCEPT !.pc = s] \in Call
  BY OutboxAssumption DEF Call, IdleCall, Tokens, SendPhase

\* Every step keeps the types: one step of the proof per action.
LEMMA OutboxTypeStep == OutboxIInv /\ [OutboxNext]_outboxVars => OutboxTypeOK'
  <1> SUFFICES ASSUME OutboxIInv, [OutboxNext]_outboxVars PROVE OutboxTypeOK'
    OBVIOUS
  <1>0. OutboxTypeOK
    BY DEF OutboxIInv, ClaimInv
  <1>1. ASSUME NEW c \in Calls, NEW r \in Rows, Deliver(c, r) PROVE OutboxTypeOK'
    <2>1. outbox[r] \in Row
      BY <1>0 DEF OutboxTypeOK
    <2>2. outbox[r].token + 1 \in Tokens
      BY <1>1, <2>1, OutboxAssumption DEF Deliver, Row, Tokens
    <2>3. [outbox[r] EXCEPT !.status = "claimed", !.lease = "live",
                            !.owner = OwnerOf[c], !.token = @ + 1] \in Row
      BY <2>1, <2>2, OutboxAssumption DEF Row, Status, Leased
    <2>4. outbox' = [outbox EXCEPT ![r] =
            [outbox[r] EXCEPT !.status = "claimed", !.lease = "live",
                              !.owner = OwnerOf[c], !.token = @ + 1]]
      BY <1>0, <1>1 DEF Deliver, OutboxTypeOK
    <2>5. [pc |-> "claimed", row |-> r, token |-> outbox[r].token + 1] \in Call
      BY <2>2 DEF Call
    <2> QED
      BY <1>0, <1>1, <2>3, <2>4, <2>5 DEF Deliver, OutboxTypeOK
  <1>2. ASSUME NEW c \in Calls, BeginUpload(c)
        PROVE  OutboxTypeOK'
    <2> DEFINE row == [outbox[call[c].row] EXCEPT !.status = "uploading"]
    <2>1. Holds(c) /\ Busy(c)
      BY <1>2 DEF BeginUpload, Busy
    <2>2. call[c].row \in Rows /\ outbox[call[c].row] \in Row /\ call[c] \in Call
      BY <1>0, <2>1, HolderRow DEF OutboxTypeOK
    <2>3. row \in Row
      BY <2>2, RowUpdates, SomeStatuses
    <2>4. outbox' = [outbox EXCEPT ![call[c].row] = row]
      BY <1>0, <1>2, <2>2 DEF BeginUpload, OutboxTypeOK
    <2>5. outbox' \in [Rows -> Row]
      BY <1>0, <2>2, <2>3, <2>4, OneRow
    <2>6. call' = [call EXCEPT ![c] = [call[c] EXCEPT !.pc = "uploading"]] /\ [call[c] EXCEPT !.pc = "uploading"] \in Call
      BY <1>0, <1>2, <2>2, CallUpdates DEF BeginUpload, OutboxTypeOK, SendPhase
    <2>7. call' \in [Calls -> Call]
      BY <1>0, <2>6, OneCall
    <2> QED
      BY <1>0, <1>2, <2>5, <2>7 DEF BeginUpload, OutboxTypeOK
  <1>3. ASSUME NEW c \in Calls, FinishUpload(c)
        PROVE  OutboxTypeOK'
    <2> DEFINE row == [outbox[call[c].row] EXCEPT !.status = "uploaded", !.key = TRUE]
    <2>1. Holds(c) /\ Busy(c)
      BY <1>3 DEF FinishUpload, Busy
    <2>2. call[c].row \in Rows /\ outbox[call[c].row] \in Row /\ call[c] \in Call
      BY <1>0, <2>1, HolderRow DEF OutboxTypeOK
    <2>3. row \in Row
      BY <2>2, RowUpdates, SomeStatuses
    <2>4. outbox' = [outbox EXCEPT ![call[c].row] = row]
      BY <1>0, <1>3, <2>2 DEF FinishUpload, OutboxTypeOK
    <2>5. outbox' \in [Rows -> Row]
      BY <1>0, <2>2, <2>3, <2>4, OneRow
    <2>6. call' = [call EXCEPT ![c] = [call[c] EXCEPT !.pc = "uploaded"]] /\ [call[c] EXCEPT !.pc = "uploaded"] \in Call
      BY <1>0, <1>3, <2>2, CallUpdates DEF FinishUpload, OutboxTypeOK, SendPhase
    <2>7. call' \in [Calls -> Call]
      BY <1>0, <2>6, OneCall
    <2> QED
      BY <1>0, <1>3, <2>5, <2>7 DEF FinishUpload, OutboxTypeOK
  <1>4. ASSUME NEW c \in Calls, NEW retryAt \in BOOLEAN, FailUpload(c, retryAt)
        PROVE  OutboxTypeOK'
    <2> DEFINE row == Failed(outbox[call[c].row], FALSE, retryAt)
    <2>1. Holds(c) /\ Busy(c)
      BY <1>4 DEF FailUpload, Busy
    <2>2. call[c].row \in Rows /\ outbox[call[c].row] \in Row /\ call[c] \in Call
      BY <1>0, <2>1, HolderRow DEF OutboxTypeOK
    <2>3. row \in Row
      BY <2>2, RowUpdates, SomeStatuses
    <2>4. outbox' = [outbox EXCEPT ![call[c].row] = row]
      BY <1>0, <1>4, <2>2 DEF FailUpload, OutboxTypeOK
    <2>5. outbox' \in [Rows -> Row]
      BY <1>0, <2>2, <2>3, <2>4, OneRow
    <2>6. call' = [call EXCEPT ![c] = IdleCall] /\ IdleCall \in Call
      BY <1>0, <1>4, <2>2, CallUpdates DEF FailUpload, OutboxTypeOK, SendPhase
    <2>7. call' \in [Calls -> Call]
      BY <1>0, <2>6, OneCall
    <2> QED
      BY <1>0, <1>4, <2>5, <2>7 DEF FailUpload, OutboxTypeOK
  <1>5. ASSUME NEW c \in Calls, BeginSend(c)
        PROVE  OutboxTypeOK'
    <2> DEFINE row == [outbox[call[c].row] EXCEPT !.status = "sending"]
    <2>1. Holds(c) /\ Busy(c)
      BY <1>5 DEF BeginSend, Busy
    <2>2. call[c].row \in Rows /\ outbox[call[c].row] \in Row /\ call[c] \in Call
      BY <1>0, <2>1, HolderRow DEF OutboxTypeOK
    <2>3. row \in Row
      BY <2>2, RowUpdates, SomeStatuses
    <2>4. outbox' = [outbox EXCEPT ![call[c].row] = row]
      BY <1>0, <1>5, <2>2 DEF BeginSend, OutboxTypeOK
    <2>5. outbox' \in [Rows -> Row]
      BY <1>0, <2>2, <2>3, <2>4, OneRow
    <2>6. call' = [call EXCEPT ![c] = [call[c] EXCEPT !.pc = "sending"]] /\ [call[c] EXCEPT !.pc = "sending"] \in Call
      BY <1>0, <1>5, <2>2, CallUpdates DEF BeginSend, OutboxTypeOK, SendPhase
    <2>7. call' \in [Calls -> Call]
      BY <1>0, <2>6, OneCall
    <2> QED
      BY <1>0, <1>5, <2>5, <2>7 DEF BeginSend, OutboxTypeOK
  <1>6. ASSUME NEW c \in Calls, Receipt(c)
        PROVE  OutboxTypeOK'
    <2> DEFINE row == Release(outbox[call[c].row], "delivered")
    <2>1. Holds(c) /\ Busy(c)
      BY <1>6 DEF Receipt, Busy
    <2>2. call[c].row \in Rows /\ outbox[call[c].row] \in Row /\ call[c] \in Call
      BY <1>0, <2>1, HolderRow DEF OutboxTypeOK
    <2>3. row \in Row
      BY <2>2, RowUpdates, SomeStatuses
    <2>4. outbox' = [outbox EXCEPT ![call[c].row] = row]
      BY <1>0, <1>6, <2>2 DEF Receipt, OutboxTypeOK
    <2>5. outbox' \in [Rows -> Row]
      BY <1>0, <2>2, <2>3, <2>4, OneRow
    <2>6. call' = [call EXCEPT ![c] = IdleCall] /\ IdleCall \in Call
      BY <1>0, <1>6, <2>2, CallUpdates DEF Receipt, OutboxTypeOK, SendPhase
    <2>7. call' \in [Calls -> Call]
      BY <1>0, <2>6, OneCall
    <2> QED
      BY <1>0, <1>6, <2>5, <2>7 DEF Receipt, OutboxTypeOK
  <1>7. ASSUME NEW c \in Calls, NEW retryAt \in BOOLEAN, Rejected(c, retryAt)
        PROVE  OutboxTypeOK'
    <2> DEFINE row == Failed(outbox[call[c].row], FALSE, retryAt)
    <2>1. Holds(c) /\ Busy(c)
      BY <1>7 DEF Rejected, Busy
    <2>2. call[c].row \in Rows /\ outbox[call[c].row] \in Row /\ call[c] \in Call
      BY <1>0, <2>1, HolderRow DEF OutboxTypeOK
    <2>3. row \in Row
      BY <2>2, RowUpdates, SomeStatuses
    <2>4. outbox' = [outbox EXCEPT ![call[c].row] = row]
      BY <1>0, <1>7, <2>2 DEF Rejected, OutboxTypeOK
    <2>5. outbox' \in [Rows -> Row]
      BY <1>0, <2>2, <2>3, <2>4, OneRow
    <2>6. call' = [call EXCEPT ![c] = IdleCall] /\ IdleCall \in Call
      BY <1>0, <1>7, <2>2, CallUpdates DEF Rejected, OutboxTypeOK, SendPhase
    <2>7. call' \in [Calls -> Call]
      BY <1>0, <2>6, OneCall
    <2> QED
      BY <1>0, <1>7, <2>5, <2>7 DEF Rejected, OutboxTypeOK
  <1>8. ASSUME NEW c \in Calls, Ambiguous(c)
        PROVE  OutboxTypeOK'
    <2> DEFINE row == Failed(outbox[call[c].row], outbox[call[c].row].status = "sending", FALSE)
    <2>1. Holds(c) /\ Busy(c)
      BY <1>8 DEF Ambiguous, Busy
    <2>2. call[c].row \in Rows /\ outbox[call[c].row] \in Row /\ call[c] \in Call
      BY <1>0, <2>1, HolderRow DEF OutboxTypeOK
    <2>3. row \in Row
      BY <2>2, RowUpdates, SomeStatuses
    <2>4. outbox' = [outbox EXCEPT ![call[c].row] = row]
      BY <1>0, <1>8, <2>2 DEF Ambiguous, OutboxTypeOK
    <2>5. outbox' \in [Rows -> Row]
      BY <1>0, <2>2, <2>3, <2>4, OneRow
    <2>6. call' = [call EXCEPT ![c] = IdleCall] /\ IdleCall \in Call
      BY <1>0, <1>8, <2>2, CallUpdates DEF Ambiguous, OutboxTypeOK, SendPhase
    <2>7. call' \in [Calls -> Call]
      BY <1>0, <2>6, OneCall
    <2> QED
      BY <1>0, <1>8, <2>5, <2>7 DEF Ambiguous, OutboxTypeOK
  <1>9. ASSUME NEW c \in Calls, IssueSend(c) PROVE OutboxTypeOK'
    <2>1. call[c] \in Call /\ call[c].row \in Rows
      BY <1>9 DEF OutboxIInv, ClaimInv, OutboxTypeOK, ClaimShape, IssueSend, Busy
    <2>2. call[c].token \in Tokens
      BY <2>1 DEF Call
    <2>3. request' \in [Rows -> [Tokens -> {"none", "sent", "accepted", "refused"}]]
      BY <1>0, <1>9, <2>1, <2>2 DEF IssueSend, OutboxTypeOK
    <2>4. call' = [call EXCEPT ![c] = [call[c] EXCEPT !.pc = "awaiting"]]
      BY <1>0, <1>9 DEF IssueSend, OutboxTypeOK
    <2>5. call' \in [Calls -> Call]
      BY <1>0, <2>1, <2>4, CallUpdates, OneCall DEF SendPhase
    <2> QED
      BY <1>0, <1>9, <2>3, <2>5 DEF IssueSend, OutboxTypeOK
  <1>10. ASSUME NEW c \in Calls, LoseLease(c) PROVE OutboxTypeOK'
    <2>1. IdleCall \in Call
      BY OutboxAssumption DEF IdleCall, Call, Tokens
    <2> QED
      BY <1>0, <1>10, <2>1 DEF LoseLease, OutboxTypeOK
  <1>11. ASSUME NEW r \in Rows, NEW k \in Tokens, Accept(r, k) \/ Refuse(r, k)
        PROVE  OutboxTypeOK'
    <2>1. shown' \in [Rows -> Nat]
      BY <1>0, <1>11 DEF Accept, Refuse, OutboxTypeOK
    <2>2. PICK v \in {"accepted", "refused"} : request' = [request EXCEPT ![r][k] = v]
      BY <1>11 DEF Accept, Refuse
    <2>3. [request[r] EXCEPT ![k] = v]
            \in [Tokens -> {"none", "sent", "accepted", "refused"}]
      BY <1>0 DEF OutboxTypeOK
    <2>4. request' \in [Rows -> [Tokens -> {"none", "sent", "accepted", "refused"}]]
      BY <1>0, <2>2, <2>3 DEF OutboxTypeOK
    <2> QED
      BY <1>0, <1>11, <2>1, <2>4 DEF Accept, Refuse, OutboxTypeOK
  <1>12. ASSUME NEW r \in Rows, Lapse(r)
        PROVE  OutboxTypeOK'
    <2>1. outbox[r] \in Row
      BY <1>0 DEF OutboxTypeOK
    <2>2. [outbox[r] EXCEPT !.lease = "lapsed"] \in Row
      BY <2>1, RowUpdates, SomeStatuses
    <2>3. outbox' = [outbox EXCEPT ![r] = [outbox[r] EXCEPT !.lease = "lapsed"]]
      BY <1>0, <1>12 DEF Lapse, OutboxTypeOK
    <2>4. outbox' \in [Rows -> Row]
      BY <1>0, <2>2, <2>3, OneRow
    <2> QED
      BY <1>0, <1>12, <2>4 DEF Lapse, OutboxTypeOK
  <1>13. ASSUME NEW r \in Rows, BecomeDue(r)
        PROVE  OutboxTypeOK'
    <2>1. outbox[r] \in Row
      BY <1>0 DEF OutboxTypeOK
    <2>2. [outbox[r] EXCEPT !.due = TRUE] \in Row
      BY <2>1, RowUpdates, SomeStatuses
    <2>3. outbox' = [outbox EXCEPT ![r] = [outbox[r] EXCEPT !.due = TRUE]]
      BY <1>0, <1>13 DEF BecomeDue, OutboxTypeOK
    <2>4. outbox' \in [Rows -> Row]
      BY <1>0, <2>2, <2>3, OneRow
    <2> QED
      BY <1>0, <1>13, <2>4 DEF BecomeDue, OutboxTypeOK
  <1>14. ASSUME NEW r \in Rows, NEW verdict \in {"delivered", "failed"}, Resolve(r, verdict)
        PROVE  OutboxTypeOK'
    <2>1. outbox[r] \in Row
      BY <1>0 DEF OutboxTypeOK
    <2>2. [outbox[r] EXCEPT !.status = verdict] \in Row
      BY <2>1, RowUpdates, SomeStatuses
    <2>3. outbox' = [outbox EXCEPT ![r] = [outbox[r] EXCEPT !.status = verdict]]
      BY <1>0, <1>14 DEF Resolve, OutboxTypeOK
    <2>4. outbox' \in [Rows -> Row]
      BY <1>0, <2>2, <2>3, OneRow
    <2> QED
      BY <1>0, <1>14, <2>4 DEF Resolve, OutboxTypeOK
  <1>15. ASSUME NEW i \in Instances, Start(i) PROVE OutboxTypeOK'
    BY <1>0, <1>15, StartRows DEF Start, OutboxTypeOK
  <1>16. ASSUME NEW i \in Instances, Crash(i) PROVE OutboxTypeOK'
    <2>1. IdleCall \in Call
      BY OutboxAssumption DEF IdleCall, Call, Tokens
    <2> QED
      BY <1>0, <1>16, <2>1 DEF Crash, OutboxTypeOK
  <1>17. CASE UNCHANGED outboxVars
    BY <1>0, <1>17 DEF outboxVars, OutboxTypeOK
  <1> QED
    BY <1>1, <1>2, <1>3, <1>4, <1>5, <1>6, <1>7, <1>8, <1>9, <1>10, <1>11,
       <1>12, <1>13, <1>14, <1>15, <1>16, <1>17 DEF OutboxNext, CallStep,
       Provider


\* What was shown depends only on which requests were accepted.
LEMMA SameAccepted ==
  ASSUME ShownIsAccepted, UNCHANGED shown,
         \A r \in Rows, k \in Tokens : request'[r][k] = "accepted" <=> request[r][k] = "accepted"
  PROVE  ShownIsAccepted'
  BY DEF ShownIsAccepted


LEMMA DeliverStep ==
  ASSUME OutboxIInv, NEW c \in Calls, NEW r \in Rows, Deliver(c, r)
  PROVE  ClaimInv'
  <1> USE DEF OutboxIInv, ClaimInv, OutboxTypeOK, Row, Call, Tokens, Status,
     Leased, Claimable, Settled, SendPhase, Replayable, IdleCall, Busy, Release,
     Failed, Deliver
  <1>1. LeaseShape'
    BY OutboxAssumption DEF LeaseShape
  <1>2. ClaimShape'
    BY OutboxAssumption DEF ClaimShape
  <1>3. ClaimsDistinct'
    BY OutboxAssumption DEF ClaimsDistinct, ClaimShape
  <1>4. HolderKnowsStatus'
    BY OutboxAssumption DEF HolderKnowsStatus, LeaseShape, ClaimShape,
       ClaimsDistinct
  <1>5. SenderStatus'
    <2>1. \A d \in Calls : call[d].pc \in SendPhase => call[d].row # r
      BY DEF SenderStatus
    <2>2. \A d \in Calls : call'[d].pc \in SendPhase => call'[d] = call[d]
      OBVIOUS
    <2>3. \A q \in Rows : q # r => outbox'[q] = outbox[q]
      OBVIOUS
    <2> QED
      BY <2>1, <2>2, <2>3 DEF SenderStatus, ClaimShape
  <1>6. OneSender'
    BY OutboxAssumption DEF OneSender, ClaimShape, HolderKnowsStatus,
       LeaseShape, SenderStatus
  <1>7. SenderRequest'
    BY OutboxAssumption DEF SenderRequest, ClaimShape, OneSender,
       HolderKnowsStatus, LeaseShape, ReplayableIsInvisible
  <1>8. ReplayableIsInvisible'
    BY OutboxAssumption DEF ReplayableIsInvisible, ClaimShape, SenderRequest,
       ShownIsAccepted
  <1>9. DeliveredIsShown'
    BY OutboxAssumption DEF DeliveredIsShown, ClaimShape, ShownIsAccepted
  <1>10. FailedIsInvisible'
    BY OutboxAssumption DEF FailedIsInvisible, ClaimShape, ShownIsAccepted,
       SenderRequest, SenderStatus
  <1>11. OneRequest' /\ ShownIsAccepted'
    BY DEF OneRequest, ShownIsAccepted
  <1> QED BY <1>1, <1>2, <1>3, <1>4, <1>5, <1>6, <1>7, <1>8, <1>9, <1>10, <1>11
     DEF ClaimInv

LEMMA BeginUploadStep ==
  ASSUME OutboxIInv, NEW c \in Calls, BeginUpload(c)
  PROVE  ClaimInv'
  <1> USE DEF OutboxIInv, ClaimInv, OutboxTypeOK, Row, Call, Tokens, Status,
     Leased, Claimable, Settled, SendPhase, Replayable, IdleCall, Busy, Release,
     Failed, BeginUpload, Holds, NeedsUpload
  <1>1. LeaseShape'
    BY OutboxAssumption, HolderRow DEF LeaseShape
  <1>2. ClaimShape'
    BY OutboxAssumption, HolderRow DEF ClaimShape
  <1>3. ClaimsDistinct'
    BY OutboxAssumption, HolderRow DEF ClaimsDistinct, ClaimShape
  <1>4. HolderKnowsStatus'
    BY OutboxAssumption, HolderRow DEF HolderKnowsStatus, LeaseShape,
       ClaimShape, ClaimsDistinct
  <1>5. SenderStatus'
    <2>1. outbox[call[c].row].status \in {"claimed", "uploading"}
      BY HolderRow
    <2>2. \A d \in Calls : call[d].pc \in SendPhase => call[d].row # call[c].row
      BY <2>1 DEF SenderStatus
    <2>3. \A d \in Calls : call'[d].pc \in SendPhase => call'[d] = call[d]
      OBVIOUS
    <2>4. \A r \in Rows : r # call[c].row => outbox'[r] = outbox[r]
      OBVIOUS
    <2> QED
      BY <2>2, <2>3, <2>4 DEF SenderStatus, ClaimShape
  <1>6. OneSender'
    BY OutboxAssumption, HolderRow DEF OneSender, ClaimShape, HolderKnowsStatus,
       LeaseShape, SenderStatus
  <1>7. SenderRequest'
    BY OutboxAssumption, HolderRow DEF SenderRequest, ClaimShape, OneSender,
       HolderKnowsStatus, LeaseShape, ReplayableIsInvisible
  <1>8. ReplayableIsInvisible'
    <2>1. outbox[call[c].row].status = "claimed"
      BY HolderRow
    <2>2. \A r \in Rows : outbox'[r].status \in Replayable => outbox[r].status \in Replayable
      BY <2>1
    <2> QED
      BY <2>2 DEF ReplayableIsInvisible
  <1>9. DeliveredIsShown'
    BY OutboxAssumption, HolderRow DEF DeliveredIsShown, ClaimShape,
       ShownIsAccepted
  <1>10. FailedIsInvisible'
    BY OutboxAssumption, HolderRow DEF FailedIsInvisible, ClaimShape,
       ShownIsAccepted, SenderRequest, SenderStatus
  <1>11. OneRequest' /\ ShownIsAccepted'
    BY DEF OneRequest, ShownIsAccepted
  <1> QED BY <1>1, <1>2, <1>3, <1>4, <1>5, <1>6, <1>7, <1>8, <1>9, <1>10, <1>11
     DEF ClaimInv

LEMMA FinishUploadStep ==
  ASSUME OutboxIInv, NEW c \in Calls, FinishUpload(c)
  PROVE  ClaimInv'
  <1> USE DEF OutboxIInv, ClaimInv, OutboxTypeOK, Row, Call, Tokens, Status,
     Leased, Claimable, Settled, SendPhase, Replayable, IdleCall, Busy, Release,
     Failed, FinishUpload, Holds, NeedsUpload
  <1>1. LeaseShape'
    BY OutboxAssumption, HolderRow DEF LeaseShape
  <1>2. ClaimShape'
    BY OutboxAssumption, HolderRow DEF ClaimShape
  <1>3. ClaimsDistinct'
    BY OutboxAssumption, HolderRow DEF ClaimsDistinct, ClaimShape
  <1>4. HolderKnowsStatus'
    <2>1. /\ outbox' = [outbox EXCEPT ![call[c].row].status = "uploaded",
                                      ![call[c].row].key = TRUE]
          /\ call' = [call EXCEPT ![c].pc = "uploaded"]
      OBVIOUS
    <2>2. \A r \in Rows : /\ outbox'[r].lease = outbox[r].lease
                          /\ outbox'[r].token = outbox[r].token
                          /\ outbox'[r].status = IF r = call[c].row THEN "uploaded"
                                                 ELSE outbox[r].status
      BY <2>1, HolderRow
    <2>3. \A d \in Calls : /\ call'[d].row = call[d].row
                           /\ call'[d].token = call[d].token
                           /\ call'[d].pc = IF d = c THEN "uploaded" ELSE call[d].pc
      BY <2>1
    <2>4. Busy(c) /\ call[c].token = outbox[call[c].row].token
      OBVIOUS
    <2>5. \A d \in Calls : Busy(d) /\ d # c /\ call[d].row = call[c].row =>
                             call[d].token # outbox[call[c].row].token
      BY <2>4 DEF ClaimsDistinct
    <2>6. HolderKnowsStatus
      OBVIOUS
    <2>7. ASSUME NEW d \in Calls, d # c, call[d].row \in Rows, Busy(d),
                 outbox[call[d].row].lease # "none",
                 outbox[call[d].row].token = call[d].token
          PROVE  /\ call[d].row # call[c].row
                 /\ outbox[call[d].row].status =
                      IF call[d].pc = "awaiting" THEN "sending" ELSE call[d].pc
      BY <2>5, <2>6, <2>7 DEF HolderKnowsStatus
    <2>8. \A d \in Calls : Busy(d)' => Busy(d) /\ call[d].row \in Rows
      BY <2>3 DEF ClaimShape
    <2> HIDE DEF FinishUpload, Holds, OutboxIInv, ClaimInv, OutboxTypeOK, Busy
    <2> QED
      BY <2>2, <2>3, <2>7, <2>8 DEF HolderKnowsStatus
  <1>5. SenderStatus'
    <2>1. outbox[call[c].row].status \in {"claimed", "uploading"}
      BY HolderRow
    <2>2. \A d \in Calls : call[d].pc \in SendPhase => call[d].row # call[c].row
      BY <2>1 DEF SenderStatus
    <2>3. \A d \in Calls : call'[d].pc \in SendPhase => call'[d] = call[d]
      OBVIOUS
    <2>4. \A r \in Rows : r # call[c].row => outbox'[r] = outbox[r]
      OBVIOUS
    <2> QED
      BY <2>2, <2>3, <2>4 DEF SenderStatus, ClaimShape
  <1>6. OneSender'
    BY OutboxAssumption, HolderRow DEF OneSender, ClaimShape, HolderKnowsStatus,
       LeaseShape, SenderStatus
  <1>7. SenderRequest'
    BY OutboxAssumption, HolderRow DEF SenderRequest, ClaimShape, OneSender,
       HolderKnowsStatus, LeaseShape, ReplayableIsInvisible
  <1>8. ReplayableIsInvisible'
    <2>1. outbox[call[c].row].status = "uploading"
      BY HolderRow
    <2>2. \A r \in Rows : outbox'[r].status \in Replayable => outbox[r].status \in Replayable
      BY <2>1
    <2> QED
      BY <2>2 DEF ReplayableIsInvisible
  <1>9. DeliveredIsShown'
    BY OutboxAssumption, HolderRow DEF DeliveredIsShown, ClaimShape,
       ShownIsAccepted
  <1>10. FailedIsInvisible'
    BY OutboxAssumption, HolderRow DEF FailedIsInvisible, ClaimShape,
       ShownIsAccepted, SenderRequest, SenderStatus
  <1>11. OneRequest' /\ ShownIsAccepted'
    BY DEF OneRequest, ShownIsAccepted
  <1> QED BY <1>1, <1>2, <1>3, <1>4, <1>5, <1>6, <1>7, <1>8, <1>9, <1>10, <1>11
     DEF ClaimInv

LEMMA FailUploadStep ==
  ASSUME OutboxIInv, NEW c \in Calls, NEW retryAt \in BOOLEAN, FailUpload(c, retryAt)
  PROVE  ClaimInv'
  <1> USE DEF OutboxIInv, ClaimInv, OutboxTypeOK, Row, Call, Tokens, Status,
     Leased, Claimable, Settled, SendPhase, Replayable, IdleCall, Busy, Release,
     Failed, FailUpload, Holds, NeedsUpload
  <1>1. LeaseShape'
    BY OutboxAssumption, HolderRow DEF LeaseShape
  <1>2. ClaimShape'
    BY OutboxAssumption, HolderRow DEF ClaimShape
  <1>3. ClaimsDistinct'
    BY OutboxAssumption, HolderRow DEF ClaimsDistinct, ClaimShape
  <1>4. HolderKnowsStatus'
    BY OutboxAssumption, HolderRow DEF HolderKnowsStatus, LeaseShape,
       ClaimShape, ClaimsDistinct
  <1>5. SenderStatus'
    <2>1. outbox[call[c].row].status \in {"claimed", "uploading"}
      BY HolderRow
    <2>2. \A d \in Calls : call[d].pc \in SendPhase => call[d].row # call[c].row
      BY <2>1 DEF SenderStatus
    <2>3. \A d \in Calls : call'[d].pc \in SendPhase => call'[d] = call[d]
      OBVIOUS
    <2>4. \A r \in Rows : r # call[c].row => outbox'[r] = outbox[r]
      OBVIOUS
    <2> QED
      BY <2>2, <2>3, <2>4 DEF SenderStatus, ClaimShape
  <1>6. OneSender'
    BY OutboxAssumption, HolderRow DEF OneSender, ClaimShape, HolderKnowsStatus,
       LeaseShape, SenderStatus
  <1>7. SenderRequest'
    BY OutboxAssumption, HolderRow DEF SenderRequest, ClaimShape, OneSender,
       HolderKnowsStatus, LeaseShape, ReplayableIsInvisible
  <1>8. ReplayableIsInvisible'
    <2>1. outbox[call[c].row].status = "uploading" /\ call[c].row \in Rows
      BY HolderRow
    <2>2. /\ shown[call[c].row] = 0
          /\ \A k \in Tokens : request[call[c].row][k] \in {"none", "refused"}
      BY <2>1, HolderRow DEF ReplayableIsInvisible
    <2>3. \A r \in Rows : r # call[c].row => outbox'[r] = outbox[r]
      OBVIOUS
    <2> QED
      BY <2>2, <2>3 DEF ReplayableIsInvisible
  <1>9. DeliveredIsShown'
    BY OutboxAssumption, HolderRow DEF DeliveredIsShown, ClaimShape,
       ShownIsAccepted
  <1>10. FailedIsInvisible'
    <2>1. outbox[call[c].row].status = "uploading" /\ call[c].row \in Rows
      BY HolderRow
    <2>2. /\ shown[call[c].row] = 0
          /\ \A k \in Tokens : request[call[c].row][k] \in {"none", "refused"}
      BY <2>1, HolderRow DEF ReplayableIsInvisible
    <2>3. \A r \in Rows : r # call[c].row => outbox'[r] = outbox[r]
      OBVIOUS
    <2> QED
      BY <2>2, <2>3 DEF FailedIsInvisible
  <1>11. OneRequest' /\ ShownIsAccepted'
    BY DEF OneRequest, ShownIsAccepted
  <1> QED BY <1>1, <1>2, <1>3, <1>4, <1>5, <1>6, <1>7, <1>8, <1>9, <1>10, <1>11
     DEF ClaimInv

LEMMA BeginSendStep ==
  ASSUME OutboxIInv, NEW c \in Calls, BeginSend(c)
  PROVE  ClaimInv'
  <1> USE DEF OutboxIInv, ClaimInv, OutboxTypeOK, Row, Call, Tokens, Status,
     Leased, Claimable, Settled, SendPhase, Replayable, IdleCall, Busy, Release,
     Failed, BeginSend, Holds, NeedsUpload
  <1>1. LeaseShape'
    BY OutboxAssumption, HolderRow DEF LeaseShape
  <1>2. ClaimShape'
    BY OutboxAssumption, HolderRow DEF ClaimShape
  <1>3. ClaimsDistinct'
    BY OutboxAssumption, HolderRow DEF ClaimsDistinct, ClaimShape
  <1>4. HolderKnowsStatus'
    BY OutboxAssumption, HolderRow DEF HolderKnowsStatus, LeaseShape,
       ClaimShape, ClaimsDistinct
  <1>5. SenderStatus'
    BY OutboxAssumption, HolderRow DEF SenderStatus, LeaseShape, ClaimShape,
       ClaimsDistinct, HolderKnowsStatus, OneSender
  <1>6. OneSender'
    <2>1. outbox[call[c].row].status \in {"claimed", "uploaded"}
      BY HolderRow
    <2>2. \A d \in Calls : call[d].pc \in SendPhase => call[d].row # call[c].row
      BY <2>1 DEF SenderStatus
    <2>3. /\ call'[c].row = call[c].row
          /\ \A d \in Calls : d # c => call'[d] = call[d]
      OBVIOUS
    <2> QED
      BY <2>2, <2>3 DEF OneSender
  <1>7. SenderRequest'
    BY OutboxAssumption, HolderRow DEF SenderRequest, ClaimShape, OneSender,
       HolderKnowsStatus, LeaseShape, ReplayableIsInvisible
  <1>8. ReplayableIsInvisible'
    BY OutboxAssumption, HolderRow DEF ReplayableIsInvisible, ClaimShape,
       SenderRequest, ShownIsAccepted
  <1>9. DeliveredIsShown'
    BY OutboxAssumption, HolderRow DEF DeliveredIsShown, ClaimShape,
       ShownIsAccepted
  <1>10. FailedIsInvisible'
    BY OutboxAssumption, HolderRow DEF FailedIsInvisible, ClaimShape,
       ShownIsAccepted, SenderRequest, SenderStatus
  <1>11. OneRequest' /\ ShownIsAccepted'
    BY DEF OneRequest, ShownIsAccepted
  <1> QED BY <1>1, <1>2, <1>3, <1>4, <1>5, <1>6, <1>7, <1>8, <1>9, <1>10, <1>11
     DEF ClaimInv

LEMMA IssueSendStep ==
  ASSUME OutboxIInv, NEW c \in Calls, IssueSend(c)
  PROVE  ClaimInv'
  <1> USE DEF OutboxIInv, ClaimInv, OutboxTypeOK, Row, Call, Tokens, Status,
     Leased, Claimable, Settled, SendPhase, Replayable, IdleCall, Busy, Release,
     Failed, IssueSend
  <1>1. ClaimShape'
    BY OutboxAssumption DEF ClaimShape
  <1>2. ClaimsDistinct'
    BY OutboxAssumption DEF ClaimsDistinct, ClaimShape
  <1>3. HolderKnowsStatus'
    BY OutboxAssumption DEF HolderKnowsStatus, LeaseShape, ClaimShape,
       ClaimsDistinct
  <1>4. SenderStatus'
    BY OutboxAssumption DEF SenderStatus, LeaseShape, ClaimShape,
       ClaimsDistinct, HolderKnowsStatus, OneSender
  <1>5. OneSender'
    BY OutboxAssumption DEF OneSender, ClaimShape, HolderKnowsStatus,
       LeaseShape, SenderStatus
  <1>6. SenderRequest'
    BY OutboxAssumption DEF SenderRequest, ClaimShape, OneSender,
       HolderKnowsStatus, LeaseShape, ReplayableIsInvisible
  <1>7. OneRequest'
    BY OutboxAssumption DEF OneRequest, ClaimShape, SenderRequest
  <1>8. ShownIsAccepted'
    <2>1. call[c].row \in Rows /\ call[c].token \in Tokens
      BY DEF ClaimShape
    <2>2. request[call[c].row][call[c].token] # "accepted"
      BY <2>1 DEF SenderRequest
    <2>3. \A r \in Rows, k \in Tokens : request'[r][k] =
            IF r = call[c].row /\ k = call[c].token THEN "sent" ELSE request[r][k]
      BY <2>1
    <2>4. \A r \in Rows, k \in Tokens :
            request'[r][k] = "accepted" <=> request[r][k] = "accepted"
      BY <2>2, <2>3
    <2> QED
      BY <2>4, SameAccepted
  <1>9. ReplayableIsInvisible'
    <2>1. outbox[call[c].row].status \notin Replayable
      BY DEF SenderStatus
    <2>2. \A r \in Rows : r # call[c].row => request'[r] = request[r]
      OBVIOUS
    <2> QED
      BY <2>1, <2>2 DEF ReplayableIsInvisible
  <1>10. FailedIsInvisible'
    <2>1. outbox[call[c].row].status # "failed" \/ call[c].row \in resolved
      BY DEF SenderStatus
    <2>2. \A r \in Rows : r # call[c].row => request'[r] = request[r]
      OBVIOUS
    <2> QED
      BY <2>1, <2>2 DEF FailedIsInvisible
  <1>11. LeaseShape' /\ DeliveredIsShown'
    BY DEF LeaseShape, DeliveredIsShown
  <1> QED BY <1>1, <1>2, <1>3, <1>4, <1>5, <1>6, <1>7, <1>8, <1>9, <1>10, <1>11
     DEF ClaimInv

LEMMA ReceiptStep ==
  ASSUME OutboxIInv, NEW c \in Calls, Receipt(c)
  PROVE  ClaimInv'
  <1> USE DEF OutboxIInv, ClaimInv, OutboxTypeOK, Row, Call, Tokens, Status,
     Leased, Claimable, Settled, SendPhase, Replayable, IdleCall, Busy, Release,
     Failed, Receipt, Holds, NeedsUpload
  <1>1. LeaseShape'
    BY OutboxAssumption, HolderRow DEF LeaseShape
  <1>2. ClaimShape'
    BY OutboxAssumption, HolderRow DEF ClaimShape
  <1>3. ClaimsDistinct'
    BY OutboxAssumption, HolderRow DEF ClaimsDistinct, ClaimShape
  <1>4. HolderKnowsStatus'
    BY OutboxAssumption, HolderRow DEF HolderKnowsStatus, LeaseShape,
       ClaimShape, ClaimsDistinct
  <1>5. SenderStatus'
    BY OutboxAssumption, HolderRow DEF SenderStatus, LeaseShape, ClaimShape,
       ClaimsDistinct, HolderKnowsStatus, OneSender
  <1>6. OneSender'
    BY OutboxAssumption, HolderRow DEF OneSender, ClaimShape, HolderKnowsStatus,
       LeaseShape, SenderStatus
  <1>7. SenderRequest'
    BY OutboxAssumption, HolderRow DEF SenderRequest, ClaimShape, OneSender,
       HolderKnowsStatus, LeaseShape, ReplayableIsInvisible
  <1>8. ReplayableIsInvisible'
    BY OutboxAssumption, HolderRow DEF ReplayableIsInvisible, ClaimShape,
       SenderRequest, ShownIsAccepted
  <1>9. DeliveredIsShown'
    BY OutboxAssumption, HolderRow DEF DeliveredIsShown, ClaimShape,
       ShownIsAccepted
  <1>10. FailedIsInvisible'
    BY OutboxAssumption, HolderRow DEF FailedIsInvisible, ClaimShape,
       ShownIsAccepted, SenderRequest, SenderStatus
  <1>11. OneRequest' /\ ShownIsAccepted'
    BY DEF OneRequest, ShownIsAccepted
  <1> QED BY <1>1, <1>2, <1>3, <1>4, <1>5, <1>6, <1>7, <1>8, <1>9, <1>10, <1>11
     DEF ClaimInv

LEMMA RejectedStep ==
  ASSUME OutboxIInv, NEW c \in Calls, NEW retryAt \in BOOLEAN, Rejected(c, retryAt)
  PROVE  ClaimInv'
  <1> USE DEF OutboxIInv, ClaimInv, OutboxTypeOK, Row, Call, Tokens, Status,
     Leased, Claimable, Settled, SendPhase, Replayable, IdleCall, Busy, Release,
     Failed, Rejected, Holds, NeedsUpload
  <1>1. LeaseShape'
    BY OutboxAssumption, HolderRow DEF LeaseShape
  <1>2. ClaimShape'
    BY OutboxAssumption, HolderRow DEF ClaimShape
  <1>3. ClaimsDistinct'
    BY OutboxAssumption, HolderRow DEF ClaimsDistinct, ClaimShape
  <1>4. HolderKnowsStatus'
    BY OutboxAssumption, HolderRow DEF HolderKnowsStatus, LeaseShape,
       ClaimShape, ClaimsDistinct
  <1>5. SenderStatus'
    BY OutboxAssumption, HolderRow DEF SenderStatus, LeaseShape, ClaimShape,
       ClaimsDistinct, HolderKnowsStatus, OneSender
  <1>6. OneSender'
    BY OutboxAssumption, HolderRow DEF OneSender, ClaimShape, HolderKnowsStatus,
       LeaseShape, SenderStatus
  <1>7. SenderRequest'
    BY OutboxAssumption, HolderRow DEF SenderRequest, ClaimShape, OneSender,
       HolderKnowsStatus, LeaseShape, ReplayableIsInvisible
  <1>8. ReplayableIsInvisible'
    <2>1. outbox[call[c].row].status = "sending" /\ call[c].row \in Rows
      BY HolderRow
    <2>2. /\ shown[call[c].row] = 0
          /\ \A k \in Tokens : request[call[c].row][k] \in {"none", "refused"}
      BY <2>1, HolderRow DEF SenderRequest, ShownIsAccepted
    <2>3. \A r \in Rows : r # call[c].row => outbox'[r] = outbox[r]
      OBVIOUS
    <2> QED
      BY <2>2, <2>3 DEF ReplayableIsInvisible
  <1>9. DeliveredIsShown'
    BY OutboxAssumption, HolderRow DEF DeliveredIsShown, ClaimShape,
       ShownIsAccepted
  <1>10. FailedIsInvisible'
    <2>1. outbox[call[c].row].status = "sending" /\ call[c].row \in Rows
      BY HolderRow
    <2>2. /\ shown[call[c].row] = 0
          /\ \A k \in Tokens : request[call[c].row][k] \in {"none", "refused"}
      BY <2>1, HolderRow DEF SenderRequest, ShownIsAccepted
    <2>3. \A r \in Rows : r # call[c].row => outbox'[r] = outbox[r]
      OBVIOUS
    <2> QED
      BY <2>2, <2>3 DEF FailedIsInvisible
  <1>11. OneRequest' /\ ShownIsAccepted'
    BY DEF OneRequest, ShownIsAccepted
  <1> QED BY <1>1, <1>2, <1>3, <1>4, <1>5, <1>6, <1>7, <1>8, <1>9, <1>10, <1>11
     DEF ClaimInv

LEMMA AmbiguousStep ==
  ASSUME OutboxIInv, NEW c \in Calls, Ambiguous(c)
  PROVE  ClaimInv'
  <1> USE DEF OutboxIInv, ClaimInv, OutboxTypeOK, Row, Call, Tokens, Status,
     Leased, Claimable, Settled, SendPhase, Replayable, IdleCall, Busy, Release,
     Failed, Ambiguous, Holds, NeedsUpload
  <1>1. LeaseShape'
    BY OutboxAssumption, HolderRow DEF LeaseShape
  <1>2. ClaimShape'
    BY OutboxAssumption, HolderRow DEF ClaimShape
  <1>3. ClaimsDistinct'
    BY OutboxAssumption, HolderRow DEF ClaimsDistinct, ClaimShape
  <1>4. HolderKnowsStatus'
    BY OutboxAssumption, HolderRow DEF HolderKnowsStatus, LeaseShape,
       ClaimShape, ClaimsDistinct
  <1>5. SenderStatus'
    BY OutboxAssumption, HolderRow DEF SenderStatus, LeaseShape, ClaimShape,
       ClaimsDistinct, HolderKnowsStatus, OneSender
  <1>6. OneSender'
    BY OutboxAssumption, HolderRow DEF OneSender, ClaimShape, HolderKnowsStatus,
       LeaseShape, SenderStatus
  <1>7. SenderRequest'
    BY OutboxAssumption, HolderRow DEF SenderRequest, ClaimShape, OneSender,
       HolderKnowsStatus, LeaseShape, ReplayableIsInvisible
  <1>8. ReplayableIsInvisible'
    BY OutboxAssumption, HolderRow DEF ReplayableIsInvisible, ClaimShape,
       SenderRequest, ShownIsAccepted
  <1>9. DeliveredIsShown'
    BY OutboxAssumption, HolderRow DEF DeliveredIsShown, ClaimShape,
       ShownIsAccepted
  <1>10. FailedIsInvisible'
    BY OutboxAssumption, HolderRow DEF FailedIsInvisible, ClaimShape,
       ShownIsAccepted, SenderRequest, SenderStatus
  <1>11. OneRequest' /\ ShownIsAccepted'
    BY DEF OneRequest, ShownIsAccepted
  <1> QED BY <1>1, <1>2, <1>3, <1>4, <1>5, <1>6, <1>7, <1>8, <1>9, <1>10, <1>11
     DEF ClaimInv

LEMMA LoseLeaseStep ==
  ASSUME OutboxIInv, NEW c \in Calls, LoseLease(c)
  PROVE  ClaimInv'
  <1> USE DEF OutboxIInv, ClaimInv, OutboxTypeOK, Row, Call, Tokens, Status,
     Leased, Claimable, Settled, SendPhase, Replayable, IdleCall, Busy, Release,
     Failed, LoseLease
  <1>1. ClaimShape'
    BY OutboxAssumption DEF ClaimShape
  <1>2. ClaimsDistinct'
    BY OutboxAssumption DEF ClaimsDistinct, ClaimShape
  <1>3. HolderKnowsStatus'
    BY OutboxAssumption DEF HolderKnowsStatus, LeaseShape, ClaimShape,
       ClaimsDistinct
  <1>4. SenderStatus'
    BY OutboxAssumption DEF SenderStatus, LeaseShape, ClaimShape,
       ClaimsDistinct, HolderKnowsStatus, OneSender
  <1>5. OneSender'
    BY OutboxAssumption DEF OneSender, ClaimShape, HolderKnowsStatus,
       LeaseShape, SenderStatus
  <1>6. SenderRequest'
    BY OutboxAssumption DEF SenderRequest, ClaimShape, OneSender,
       HolderKnowsStatus, LeaseShape, ReplayableIsInvisible
  <1>7. LeaseShape' /\ OneRequest' /\ ShownIsAccepted' /\ ReplayableIsInvisible' /\ DeliveredIsShown' /\ FailedIsInvisible'
    BY DEF LeaseShape, OneRequest, ShownIsAccepted, ReplayableIsInvisible,
       DeliveredIsShown, FailedIsInvisible
  <1> QED BY <1>1, <1>2, <1>3, <1>4, <1>5, <1>6, <1>7 DEF ClaimInv

LEMMA AcceptStep ==
  ASSUME OutboxIInv, NEW r \in Rows, NEW k \in Tokens, Accept(r, k)
  PROVE  ClaimInv'
  <1> USE DEF OutboxIInv, ClaimInv, OutboxTypeOK, Row, Call, Tokens, Status,
     Leased, Claimable, Settled, SendPhase, Replayable, IdleCall, Busy, Release,
     Failed, Accept
  <1>1. SenderRequest'
    BY OutboxAssumption DEF SenderRequest, ClaimShape, OneSender,
       HolderKnowsStatus, LeaseShape, ReplayableIsInvisible
  <1>2. OneRequest'
    BY OutboxAssumption DEF OneRequest, ClaimShape, SenderRequest
  <1>3. ShownIsAccepted'
    BY OutboxAssumption DEF ShownIsAccepted, ClaimShape, SenderRequest,
       OneRequest
  <1>4. ReplayableIsInvisible'
    <2>1. request[r][k] = "sent"
      OBVIOUS
    <2>2. \A q \in Rows : q # r => request'[q] = request[q] /\ shown'[q] = shown[q]
      OBVIOUS
    <2>3. outbox[r].status \notin Replayable
      BY <2>1 DEF ReplayableIsInvisible
    <2> QED
      BY <2>2, <2>3 DEF ReplayableIsInvisible
  <1>5. DeliveredIsShown'
    <2>1. request[r][k] = "sent"
      OBVIOUS
    <2>2. \A q \in Rows : q # r => request'[q] = request[q] /\ shown'[q] = shown[q]
      OBVIOUS
    <2>3. \A j \in Tokens : request[r][j] # "accepted"
      BY <2>1 DEF OneRequest
    <2>6. shown[r] = 0 \/ \E j \in Tokens : request[r][j] = "accepted"
      BY DEF ShownIsAccepted
    <2>4. shown[r] # 1
      BY <2>3, <2>6
    <2>5. outbox[r].status # "delivered" \/ r \in resolved
      BY <2>4 DEF DeliveredIsShown
    <2> QED
      BY <2>2, <2>5 DEF DeliveredIsShown
  <1>6. FailedIsInvisible'
    <2>1. request[r][k] = "sent"
      OBVIOUS
    <2>2. \A q \in Rows : q # r => request'[q] = request[q] /\ shown'[q] = shown[q]
      OBVIOUS
    <2>3. outbox[r].status # "failed" \/ r \in resolved
      BY <2>1 DEF FailedIsInvisible
    <2> QED
      BY <2>2, <2>3 DEF FailedIsInvisible
  <1>7. LeaseShape' /\ ClaimShape' /\ ClaimsDistinct' /\ HolderKnowsStatus' /\ SenderStatus' /\ OneSender'
    BY DEF LeaseShape, ClaimShape, ClaimsDistinct, HolderKnowsStatus,
       SenderStatus, OneSender
  <1> QED BY <1>1, <1>2, <1>3, <1>4, <1>5, <1>6, <1>7 DEF ClaimInv

LEMMA RefuseStep ==
  ASSUME OutboxIInv, NEW r \in Rows, NEW k \in Tokens, Refuse(r, k)
  PROVE  ClaimInv'
  <1> USE DEF OutboxIInv, ClaimInv, OutboxTypeOK, Row, Call, Tokens, Status,
     Leased, Claimable, Settled, SendPhase, Replayable, IdleCall, Busy, Release,
     Failed, Refuse
  <1>1. SenderRequest'
    BY OutboxAssumption DEF SenderRequest, ClaimShape, OneSender,
       HolderKnowsStatus, LeaseShape, ReplayableIsInvisible
  <1>2. OneRequest'
    BY OutboxAssumption DEF OneRequest, ClaimShape, SenderRequest
  <1>3. ShownIsAccepted'
    <2> SUFFICES ASSUME NEW q \in Rows
                 PROVE  \/ shown[q] = 0 /\ \A j \in Tokens : request'[q][j] # "accepted"
                        \/ shown[q] = 1 /\ \E j \in Tokens : request'[q][j] = "accepted"
      BY DEF ShownIsAccepted
    <2>1. \A j \in Tokens : request'[q][j] = "accepted" <=> request[q][j] = "accepted"
      OBVIOUS
    <2> QED
      BY <2>1 DEF ShownIsAccepted
  <1>4. ReplayableIsInvisible'
    BY OutboxAssumption DEF ReplayableIsInvisible, ClaimShape, SenderRequest,
       ShownIsAccepted
  <1>5. FailedIsInvisible'
    BY OutboxAssumption DEF FailedIsInvisible, ClaimShape, ShownIsAccepted,
       SenderRequest, SenderStatus
  <1>6. LeaseShape' /\ ClaimShape' /\ ClaimsDistinct' /\ HolderKnowsStatus' /\ SenderStatus' /\ OneSender' /\ DeliveredIsShown'
    BY DEF LeaseShape, ClaimShape, ClaimsDistinct, HolderKnowsStatus,
       SenderStatus, OneSender, DeliveredIsShown
  <1> QED BY <1>1, <1>2, <1>3, <1>4, <1>5, <1>6 DEF ClaimInv

LEMMA LapseStep ==
  ASSUME OutboxIInv, NEW r \in Rows, Lapse(r)
  PROVE  ClaimInv'
  <1> USE DEF OutboxIInv, ClaimInv, OutboxTypeOK, Row, Call, Tokens, Status,
     Leased, Claimable, Settled, SendPhase, Replayable, IdleCall, Busy, Release,
     Failed, Lapse
  <1>1. LeaseShape'
    BY OutboxAssumption DEF LeaseShape
  <1>2. ClaimShape'
    BY OutboxAssumption DEF ClaimShape
  <1>3. HolderKnowsStatus'
    BY OutboxAssumption DEF HolderKnowsStatus, LeaseShape, ClaimShape,
       ClaimsDistinct
  <1>4. SenderStatus'
    BY OutboxAssumption DEF SenderStatus, LeaseShape, ClaimShape,
       ClaimsDistinct, HolderKnowsStatus, OneSender
  <1>5. ReplayableIsInvisible'
    BY OutboxAssumption DEF ReplayableIsInvisible, ClaimShape, SenderRequest,
       ShownIsAccepted
  <1>6. DeliveredIsShown'
    BY OutboxAssumption DEF DeliveredIsShown, ClaimShape, ShownIsAccepted
  <1>7. FailedIsInvisible'
    BY OutboxAssumption DEF FailedIsInvisible, ClaimShape, ShownIsAccepted,
       SenderRequest, SenderStatus
  <1>8. ClaimsDistinct' /\ OneSender' /\ SenderRequest' /\ OneRequest' /\ ShownIsAccepted'
    BY DEF ClaimsDistinct, OneSender, SenderRequest, OneRequest, ShownIsAccepted
  <1> QED BY <1>1, <1>2, <1>3, <1>4, <1>5, <1>6, <1>7, <1>8 DEF ClaimInv

LEMMA BecomeDueStep ==
  ASSUME OutboxIInv, NEW r \in Rows, BecomeDue(r)
  PROVE  ClaimInv'
  <1> USE DEF OutboxIInv, ClaimInv, OutboxTypeOK, Row, Call, Tokens, Status,
     Leased, Claimable, Settled, SendPhase, Replayable, IdleCall, Busy, Release,
     Failed, BecomeDue
  <1>1. LeaseShape'
    <2>1. \A q \in Rows : /\ outbox'[q].lease = outbox[q].lease
                         /\ outbox'[q].status = outbox[q].status
                         /\ outbox'[q].token = outbox[q].token
      OBVIOUS
    <2> QED
      BY <2>1 DEF LeaseShape
  <1>2. ClaimShape'
    <2>1. \A q \in Rows : outbox'[q].token = outbox[q].token
      OBVIOUS
    <2> QED
      BY <2>1 DEF ClaimShape
  <1>3. HolderKnowsStatus'
    BY OutboxAssumption DEF HolderKnowsStatus, LeaseShape, ClaimShape,
       ClaimsDistinct
  <1>4. SenderStatus'
    BY OutboxAssumption DEF SenderStatus, LeaseShape, ClaimShape,
       ClaimsDistinct, HolderKnowsStatus, OneSender
  <1>5. ReplayableIsInvisible'
    BY OutboxAssumption DEF ReplayableIsInvisible, ClaimShape, SenderRequest,
       ShownIsAccepted
  <1>6. DeliveredIsShown'
    BY OutboxAssumption DEF DeliveredIsShown, ClaimShape, ShownIsAccepted
  <1>7. FailedIsInvisible'
    BY OutboxAssumption DEF FailedIsInvisible, ClaimShape, ShownIsAccepted,
       SenderRequest, SenderStatus
  <1>8. ClaimsDistinct' /\ OneSender' /\ SenderRequest' /\ OneRequest' /\ ShownIsAccepted'
    BY DEF ClaimsDistinct, OneSender, SenderRequest, OneRequest, ShownIsAccepted
  <1> QED BY <1>1, <1>2, <1>3, <1>4, <1>5, <1>6, <1>7, <1>8 DEF ClaimInv

LEMMA StartStep ==
  ASSUME OutboxIInv, NEW i \in Instances, Start(i)
  PROVE  ClaimInv'
  <1> USE DEF OutboxIInv, ClaimInv, OutboxTypeOK, Row, Call, Tokens, Status,
     Leased, Claimable, Settled, SendPhase, Replayable, IdleCall, Busy, Release,
     Failed, Start
  <1>1. LeaseShape'
    BY OutboxAssumption, StartRows DEF LeaseShape
  <1>2. ClaimShape'
    <2> SUFFICES ASSUME NEW c \in Calls, Busy(c)
                 PROVE  call[c].row \in Rows /\ call[c].token <= outbox'[call[c].row].token
      BY DEF ClaimShape
    <2>1. call[c].row \in Rows /\ call[c].token <= outbox[call[c].row].token
      BY DEF ClaimShape
    <2>2. \/ outbox'[call[c].row].token = outbox[call[c].row].token
          \/ outbox'[call[c].row].token = outbox[call[c].row].token + 1
      BY <2>1, StartRows
    <2> QED
      BY <2>1, <2>2, OutboxAssumption
  <1>3. HolderKnowsStatus'
    <2> HIDE DEF OutboxTypeOK, Row, Call, Tokens, Status, Leased, Claimable, Settled,
         SendPhase, Replayable, IdleCall, Release, Failed
    <2> SUFFICES ASSUME NEW c \in Calls, Busy(c), outbox'[call[c].row].lease # "none",
                        outbox'[call[c].row].token = call[c].token
                 PROVE  outbox'[call[c].row].status =
                          IF call[c].pc = "awaiting" THEN "sending" ELSE call[c].pc
      BY DEF HolderKnowsStatus
    <2>1. call[c].row \in Rows
      BY DEF ClaimShape
    <2>2. outbox'[call[c].row] = outbox[call[c].row]
      BY <2>1, StartRows
    <2>3. /\ outbox[call[c].row].lease # "none"
          /\ outbox[call[c].row].token = call[c].token
      BY <2>2
    <2>4. outbox[call[c].row].status = IF call[c].pc = "awaiting" THEN "sending" ELSE call[c].pc
      BY <2>3 DEF HolderKnowsStatus
    <2> QED
      BY <2>2, <2>4
  <1>4. SenderStatus'
    <2>1. \A c \in Calls : call[c].pc \in SendPhase =>
            /\ call[c].row \in Rows
            /\ \/ outbox'[call[c].row] = outbox[call[c].row]
               \/ outbox[call[c].row].status = "sending" /\ outbox'[call[c].row].status = "uncertain"
               \/ outbox[call[c].row].status \in {"claimed", "uploading", "uploaded"}
      BY StartRows DEF ClaimShape
    <2> QED
      BY <2>1 DEF SenderStatus
  <1>5. ReplayableIsInvisible'
    <2>1. \A q \in Rows : outbox'[q].status \in Replayable => outbox[q].status \in Replayable
      BY StartRows
    <2> QED
      BY <2>1 DEF ReplayableIsInvisible
  <1>6. DeliveredIsShown'
    <2>1. \A q \in Rows : outbox'[q].status = "delivered" => outbox[q].status = "delivered"
      BY StartRows
    <2> QED
      BY <2>1 DEF DeliveredIsShown
  <1>7. FailedIsInvisible'
    <2>1. \A q \in Rows : outbox'[q].status = "failed" => outbox[q].status = "failed"
      BY StartRows
    <2> QED
      BY <2>1 DEF FailedIsInvisible
  <1>8. ClaimsDistinct' /\ OneSender' /\ SenderRequest' /\ OneRequest' /\ ShownIsAccepted'
    BY DEF ClaimsDistinct, OneSender, SenderRequest, OneRequest, ShownIsAccepted
  <1> QED BY <1>1, <1>2, <1>3, <1>4, <1>5, <1>6, <1>7, <1>8 DEF ClaimInv

LEMMA CrashStep ==
  ASSUME OutboxIInv, NEW i \in Instances, Crash(i)
  PROVE  ClaimInv'
  <1> USE DEF OutboxIInv, ClaimInv, OutboxTypeOK, Row, Call, Tokens, Status,
     Leased, Claimable, Settled, SendPhase, Replayable, IdleCall, Busy, Release,
     Failed, Crash
  <1>1. ClaimShape'
    BY OutboxAssumption DEF ClaimShape
  <1>2. ClaimsDistinct'
    BY OutboxAssumption DEF ClaimsDistinct, ClaimShape
  <1>3. HolderKnowsStatus'
    BY OutboxAssumption DEF HolderKnowsStatus, LeaseShape, ClaimShape,
       ClaimsDistinct
  <1>4. SenderStatus'
    BY OutboxAssumption DEF SenderStatus, LeaseShape, ClaimShape,
       ClaimsDistinct, HolderKnowsStatus, OneSender
  <1>5. OneSender'
    BY OutboxAssumption DEF OneSender, ClaimShape, HolderKnowsStatus,
       LeaseShape, SenderStatus
  <1>6. SenderRequest'
    BY OutboxAssumption DEF SenderRequest, ClaimShape, OneSender,
       HolderKnowsStatus, LeaseShape, ReplayableIsInvisible
  <1>7. LeaseShape' /\ OneRequest' /\ ShownIsAccepted' /\ ReplayableIsInvisible' /\ DeliveredIsShown' /\ FailedIsInvisible'
    BY DEF LeaseShape, OneRequest, ShownIsAccepted, ReplayableIsInvisible,
       DeliveredIsShown, FailedIsInvisible
  <1> QED BY <1>1, <1>2, <1>3, <1>4, <1>5, <1>6, <1>7 DEF ClaimInv

LEMMA ResolveStep ==
  ASSUME OutboxIInv, NEW r \in Rows, NEW verdict \in {"delivered", "failed"}, Resolve(r, verdict)
  PROVE  ClaimInv'
  <1> USE DEF OutboxIInv, ClaimInv, OutboxTypeOK, Row, Call, Tokens, Status,
     Leased, Claimable, Settled, SendPhase, Replayable, IdleCall, Busy, Release,
     Failed, Resolve
  <1>1. LeaseShape'
    BY OutboxAssumption DEF LeaseShape
  <1>2. ClaimShape'
    BY OutboxAssumption DEF ClaimShape
  <1>3. HolderKnowsStatus'
    <2>1. outbox[r].lease = "none"
      BY DEF LeaseShape
    <2>2. \A q \in Rows : /\ outbox'[q].lease = outbox[q].lease
                          /\ outbox'[q].token = outbox[q].token
                          /\ q # r => outbox'[q] = outbox[q]
      OBVIOUS
    <2> QED
      BY <2>1, <2>2 DEF HolderKnowsStatus, ClaimShape
  <1>4. SenderStatus'
    BY OutboxAssumption DEF SenderStatus, LeaseShape, ClaimShape,
       ClaimsDistinct, HolderKnowsStatus, OneSender
  <1>5. ReplayableIsInvisible'
    BY OutboxAssumption DEF ReplayableIsInvisible, ClaimShape, SenderRequest,
       ShownIsAccepted
  <1>6. DeliveredIsShown'
    BY OutboxAssumption DEF DeliveredIsShown, ClaimShape, ShownIsAccepted
  <1>7. FailedIsInvisible'
    BY OutboxAssumption DEF FailedIsInvisible, ClaimShape, ShownIsAccepted,
       SenderRequest, SenderStatus
  <1>8. ClaimsDistinct' /\ OneSender' /\ SenderRequest' /\ OneRequest' /\ ShownIsAccepted'
    BY DEF ClaimsDistinct, OneSender, SenderRequest, OneRequest, ShownIsAccepted
  <1> QED BY <1>1, <1>2, <1>3, <1>4, <1>5, <1>6, <1>7, <1>8 DEF ClaimInv

-----------------------------------------------------------------------------
(* The inductive invariant *)

LEMMA OutboxIInvInit == OutboxInit => OutboxIInv
  <1> SUFFICES ASSUME OutboxInit PROVE OutboxIInv
    OBVIOUS
  <1>1. OutboxTypeOK
    BY OutboxAssumption DEF OutboxInit, FreshRow, OutboxTypeOK, Row, Status, Tokens, Call, IdleCall
  <1>2. \A c \in Calls : call[c].pc = "idle"
    BY DEF OutboxInit, IdleCall
  <1>3. /\ ClaimShape /\ ClaimsDistinct /\ HolderKnowsStatus
        /\ SenderStatus /\ OneSender /\ SenderRequest
    BY <1>2 DEF ClaimShape, ClaimsDistinct, HolderKnowsStatus, SenderStatus, OneSender,
                SenderRequest, SendPhase, Busy
  <1>4. \A r \in Rows : /\ outbox[r].status = "absent" /\ outbox[r].lease = "none"
                        /\ shown[r] = 0
                        /\ \A k \in Tokens : request[r][k] = "none"
    BY DEF OutboxInit, FreshRow
  <1>5. /\ LeaseShape /\ OneRequest /\ ShownIsAccepted
        /\ ReplayableIsInvisible /\ DeliveredIsShown /\ FailedIsInvisible
    BY <1>4 DEF LeaseShape, OneRequest, ShownIsAccepted, ReplayableIsInvisible,
                DeliveredIsShown, FailedIsInvisible
  <1> QED
    BY <1>1, <1>3, <1>5 DEF OutboxIInv, ClaimInv

LEMMA OutboxIInvStep == OutboxIInv /\ [OutboxNext]_outboxVars => OutboxIInv'
  <1> SUFFICES ASSUME OutboxIInv, [OutboxNext]_outboxVars PROVE OutboxIInv'
    OBVIOUS
  <1>1. OutboxTypeOK'
    BY OutboxTypeStep
  <1>2. ClaimInv'
    <2>1. CASE \E c \in Calls : CallStep(c)
      BY <2>1, DeliverStep, BeginUploadStep, FinishUploadStep, FailUploadStep,
         BeginSendStep, IssueSendStep, ReceiptStep, RejectedStep, AmbiguousStep,
         LoseLeaseStep DEF CallStep
    <2>2. CASE Provider
      BY <2>2, AcceptStep, RefuseStep DEF Provider
    <2>3. CASE \E r \in Rows : Lapse(r) \/ BecomeDue(r)
      BY <2>3, LapseStep, BecomeDueStep
    <2>4. CASE \E i \in Instances : Start(i) \/ Crash(i)
      BY <2>4, StartStep, CrashStep
    <2>5. CASE \E r \in Rows, verdict \in {"delivered", "failed"} : Resolve(r, verdict)
      BY <2>5, ResolveStep
    <2>6. CASE UNCHANGED outboxVars
      BY <2>6 DEF outboxVars, OutboxIInv, ClaimInv, Busy, LeaseShape, ClaimShape,
         ClaimsDistinct, HolderKnowsStatus, SenderStatus, OneSender, SenderRequest,
         OneRequest, ShownIsAccepted, ReplayableIsInvisible, DeliveredIsShown,
         FailedIsInvisible
    <2> QED
      BY <2>1, <2>2, <2>3, <2>4, <2>5, <2>6 DEF OutboxNext
  <1> QED
    BY <1>1, <1>2 DEF OutboxIInv

LEMMA OutboxIInvariant == OutboxSpec => []OutboxIInv
  BY OutboxIInvInit, OutboxIInvStep, PTL DEF OutboxSpec

-----------------------------------------------------------------------------
(* The theorems *)

\* Every row, claim and request of the outbox stays well formed.
THEOREM OutboxTypeCorrect == OutboxSpec => []OutboxTypeOK
  <1>1. OutboxIInv => OutboxTypeOK
    BY DEF OutboxIInv
  <1> QED
    BY <1>1, OutboxIInvariant, PTL

\* deliverChannelOutboxItem makes an output visible at most once, for any number
\* of concurrent calls and processes, and whatever crashes, lapses or is retried.
THEOREM AtMostOnce == OutboxSpec => []ShownAtMostOnce
  <1>1. OutboxIInv => ShownAtMostOnce
    <2> SUFFICES ASSUME OutboxIInv, NEW r \in Rows PROVE shown[r] <= 1
      BY DEF ShownAtMostOnce
    <2>1. shown[r] \in {0, 1}
      BY DEF OutboxIInv, ClaimInv, ShownIsAccepted
    <2> QED
      BY <2>1
  <1> QED
    BY <1>1, OutboxIInvariant, PTL

\* What claimChannelOutbox may claim again has had no visible effect, so retrying
\* it is safe.
THEOREM ReplayIsSafe == OutboxSpec => []ReplayableIsInvisible
  <1>1. OutboxIInv => ReplayableIsInvisible
    BY DEF OutboxIInv, ClaimInv
  <1> QED
    BY <1>1, OutboxIInvariant, PTL

\* completeChannelOutbox records only deliveries that happened.
THEOREM ReceiptsAreTrue == OutboxSpec => []DeliveredIsShown
  <1>1. OutboxIInv => DeliveredIsShown
    BY DEF OutboxIInv, ClaimInv
  <1> QED
    BY <1>1, OutboxIInvariant, PTL

-----------------------------------------------------------------------------
(* What a step may never do *)

\* The steps a call makes under the claim it holds.
Holding(c) ==
  \/ BeginUpload(c) \/ FinishUpload(c) \/ BeginSend(c) \/ Receipt(c) \/ Ambiguous(c)
  \/ \E retryAt \in BOOLEAN : FailUpload(c, retryAt) \/ Rejected(c, retryAt)

\* Such a step leaves every other row alone, keeps the token, and works on a row
\* that is neither settled nor uncertain.
LEMMA HoldingWrites ==
  ASSUME OutboxIInv, NEW c \in Calls, Holding(c)
  PROVE  /\ \A r \in Rows : outbox'[r].token = outbox[r].token
         /\ \A r \in Rows : r # call[c].row => outbox'[r] = outbox[r]
         /\ outbox[call[c].row].status \in Leased
  <1>1. Busy(c) /\ Holds(c)
    BY DEF Holding, Busy, BeginUpload, FinishUpload, BeginSend, Receipt, Ambiguous,
           FailUpload, Rejected
  <1>2. /\ call[c].row \in Rows
        /\ outbox[call[c].row] \in Row
        /\ outbox[call[c].row].status \in Leased
    BY <1>1, HolderRow DEF OutboxIInv, ClaimInv, LeaseShape
  <1>3. PICK row :
          /\ outbox' = [outbox EXCEPT ![call[c].row] = row]
          /\ row.token = outbox[call[c].row].token
    <2> DEFINE old == outbox[call[c].row]
    <2>1. CASE BeginUpload(c)
      <3> WITNESS [old EXCEPT !.status = "uploading"]
      <3> QED
        BY <1>2, <2>1 DEF BeginUpload, Row
    <2>2. CASE FinishUpload(c)
      <3> WITNESS [old EXCEPT !.status = "uploaded", !.key = TRUE]
      <3> QED
        BY <1>2, <2>2 DEF FinishUpload, Row
    <2>3. CASE BeginSend(c)
      <3> WITNESS [old EXCEPT !.status = "sending"]
      <3> QED
        BY <1>2, <2>3 DEF BeginSend, Row
    <2>4. CASE Receipt(c)
      <3> WITNESS Release(old, "delivered")
      <3> QED
        BY <1>2, <2>4 DEF Receipt, Release, Row
    <2>5. CASE Ambiguous(c)
      <3> WITNESS Failed(old, old.status = "sending", FALSE)
      <3> QED
        BY <1>2, <2>5 DEF Ambiguous, Failed, Release, Row
    <2>6. ASSUME NEW retryAt \in BOOLEAN, FailUpload(c, retryAt) \/ Rejected(c, retryAt)
          PROVE  \E row : /\ outbox' = [outbox EXCEPT ![call[c].row] = row]
                          /\ row.token = outbox[call[c].row].token
      <3> WITNESS Failed(old, FALSE, retryAt)
      <3> QED
        BY <1>2, <2>6 DEF FailUpload, Rejected, Failed, Release, Row
    <2> QED
      BY <2>1, <2>2, <2>3, <2>4, <2>5, <2>6 DEF Holding
  <1>4. \A r \in Rows : outbox'[r] = IF r = call[c].row THEN row ELSE outbox[r]
    BY <1>2, <1>3 DEF OutboxIInv, OutboxTypeOK
  <1> QED
    BY <1>2, <1>3, <1>4

\* A row changes its token only when it is claimed or fenced, and then its claim
\* had lapsed or been given up: a live delivery is never stolen by another process.
THEOREM LiveClaims == OutboxSpec => LiveClaimNeverStolen
  <1> DEFINE Kept == \A r \in Rows :
                       outbox[r].lease = "live" => outbox'[r].token = outbox[r].token
  <1>1. OutboxIInv /\ [OutboxNext]_outboxVars => [Kept]_outboxVars
    <2> SUFFICES ASSUME OutboxIInv, OutboxNext PROVE Kept
      OBVIOUS
    <2>1. CASE \E c \in Calls : CallStep(c)
      <3>1. PICK c \in Calls : CallStep(c)
        BY <2>1
      <3>2. CASE \E r \in Rows : Deliver(c, r)
        <4>1. PICK r \in Rows : Deliver(c, r)
          BY <3>2
        <4>2. outbox[r].status \notin Leased
          BY <4>1 DEF Deliver, Leased, Claimable
        <4>3. outbox[r].lease # "live"
          BY <4>2 DEF OutboxIInv, ClaimInv, LeaseShape
        <4>4. \A q \in Rows : q # r => outbox'[q] = outbox[q]
          BY <4>1 DEF Deliver, OutboxIInv, OutboxTypeOK
        <4> QED
          BY <4>3, <4>4
      <3>3. CASE UNCHANGED outbox
        BY <3>3
      <3>4. CASE Holding(c)
        BY <3>4, HoldingWrites
      <3> QED
        BY <3>1, <3>2, <3>3, <3>4 DEF CallStep, Holding, IssueSend, LoseLease
    <2>2. CASE Provider \/ \E i \in Instances : Crash(i)
      BY <2>2 DEF Provider, Accept, Refuse, Crash
    <2>3. CASE \E r \in Rows : Lapse(r) \/ BecomeDue(r)
      <3>1. PICK r \in Rows : Lapse(r) \/ BecomeDue(r)
        BY <2>3
      <3>2. CASE Lapse(r)
        BY <3>2 DEF Lapse, OutboxIInv, OutboxTypeOK, Row
      <3>3. CASE BecomeDue(r)
        BY <3>3 DEF BecomeDue, OutboxIInv, OutboxTypeOK, Row
      <3> QED
        BY <3>1, <3>2, <3>3
    <2>4. CASE \E i \in Instances : Start(i)
      <3>1. \A r \in Rows : outbox'[r] = outbox[r] \/ outbox[r].lease = "lapsed"
        BY <2>4, StartRows
      <3> QED
        BY <3>1
    <2>5. CASE \E r \in Rows, verdict \in {"delivered", "failed"} : Resolve(r, verdict)
      BY <2>5 DEF Resolve, OutboxIInv, OutboxTypeOK, Row
    <2> QED
      BY <2>1, <2>2, <2>3, <2>4, <2>5 DEF OutboxNext
  <1> QED
    BY <1>1, OutboxIInvariant, PTL DEF OutboxSpec, LiveClaimNeverStolen

\* A settled row never changes again, and only an operator settles an uncertain
\* one: no late receipt or retry of a fenced claim rewrites history.
THEOREM VerdictsAreFinal == OutboxSpec => VerdictIsFinal
  <1> DEFINE Kept == \A r \in Rows :
        /\ outbox[r].status \in Settled => outbox'[r] = outbox[r]
        /\ outbox[r].status = "uncertain" /\ outbox'[r].status # "uncertain" =>
             outbox'[r].status \in Settled /\ r \in resolved'
  <1>1. OutboxIInv /\ [OutboxNext]_outboxVars => [Kept]_outboxVars
    <2> SUFFICES ASSUME OutboxIInv, OutboxNext PROVE Kept
      OBVIOUS
    <2>1. CASE \E c \in Calls : CallStep(c)
      <3>1. PICK c \in Calls : CallStep(c)
        BY <2>1
      <3>2. CASE \E r \in Rows : Deliver(c, r)
        <4>1. PICK r \in Rows : Deliver(c, r)
          BY <3>2
        <4>2. outbox[r].status \notin Settled \cup {"uncertain"}
          BY <4>1 DEF Deliver, Settled, Claimable
        <4>3. \A q \in Rows : q # r => outbox'[q] = outbox[q]
          BY <4>1 DEF Deliver, OutboxIInv, OutboxTypeOK
        <4> QED
          BY <4>2, <4>3
      <3>3. CASE UNCHANGED outbox
        BY <3>3
      <3>4. CASE Holding(c)
        <4>1. outbox[call[c].row].status \notin Settled \cup {"uncertain"}
          BY <3>4, HoldingWrites DEF Leased, Settled
        <4>2. \A r \in Rows : r # call[c].row => outbox'[r] = outbox[r]
          BY <3>4, HoldingWrites
        <4> QED
          BY <4>1, <4>2
      <3> QED
        BY <3>1, <3>2, <3>3, <3>4 DEF CallStep, Holding, IssueSend, LoseLease
    <2>2. CASE Provider \/ \E i \in Instances : Crash(i)
      BY <2>2 DEF Provider, Accept, Refuse, Crash
    <2>3. ASSUME NEW r \in Rows, Lapse(r) PROVE Kept
      <3>1. outbox[r].status \in Leased
        BY <2>3 DEF Lapse, OutboxIInv, ClaimInv, LeaseShape
      <3>2. \A q \in Rows : q # r => outbox'[q] = outbox[q]
        BY <2>3 DEF Lapse, OutboxIInv, OutboxTypeOK
      <3> QED
        BY <3>1, <3>2 DEF Leased, Settled
    <2>4. ASSUME NEW r \in Rows, BecomeDue(r) PROVE Kept
      <3>1. outbox[r].status \notin Settled \cup {"uncertain"}
        BY <2>4 DEF BecomeDue, Claimable, Settled
      <3>2. \A q \in Rows : outbox'[q].status = outbox[q].status
        BY <2>4 DEF BecomeDue, OutboxIInv, OutboxTypeOK, Row
      <3>3. \A q \in Rows : q # r => outbox'[q] = outbox[q]
        BY <2>4 DEF BecomeDue, OutboxIInv, OutboxTypeOK
      <3> QED
        BY <3>1, <3>2, <3>3
    <2>5. CASE \E i \in Instances : Start(i)
      <3>1. \A r \in Rows : outbox'[r] = outbox[r] \/ outbox[r].lease = "lapsed"
        BY <2>5, StartRows
      <3>2. \A r \in Rows : outbox[r].lease = "lapsed" =>
                              outbox[r].status \notin Settled \cup {"uncertain"}
        BY DEF OutboxIInv, ClaimInv, LeaseShape, Leased, Settled
      <3> QED
        BY <3>1, <3>2
    <2>6. ASSUME NEW r \in Rows, NEW verdict \in {"delivered", "failed"}, Resolve(r, verdict)
          PROVE  Kept
      <3>1. /\ outbox[r].status = "uncertain" /\ r \in resolved'
            /\ outbox'[r].status = verdict
        BY <2>6 DEF Resolve, OutboxIInv, OutboxTypeOK, Row
      <3>2. \A q \in Rows : q # r => outbox'[q] = outbox[q]
        BY <2>6 DEF Resolve, OutboxIInv, OutboxTypeOK
      <3> QED
        BY <3>1, <3>2 DEF Settled
    <2> QED
      BY <2>1, <2>2, <2>3, <2>4, <2>5, <2>6 DEF OutboxNext
  <1> QED
    BY <1>1, OutboxIInvariant, PTL DEF OutboxSpec, VerdictIsFinal

-----------------------------------------------------------------------------
(* The refinement *)

Verdict == [r \in Rows |-> VerdictOf(outbox[r])]

\* A step that shows nothing, overrules nothing and moves no row to another
\* verdict stutters in the promise.
LEMMA VerdictKept ==
  ASSUME \A r \in Rows : VerdictOf(outbox'[r]) = VerdictOf(outbox[r]),
         UNCHANGED <<shown, resolved>>
  PROVE  UNCHANGED <<shown, Verdict, resolved>>
  BY DEF Verdict

\* A step that gives one row a new verdict changes that place of the mapping.
LEMMA VerdictMoved ==
  ASSUME NEW r \in Rows, \A q \in Rows : q # r => outbox'[q] = outbox[q]
  PROVE  Verdict' = [Verdict EXCEPT ![r] = VerdictOf(outbox'[r])]
  BY DEF Verdict

\* The same, for a row that stays with its verdict.
LEMMA OneVerdictKept ==
  ASSUME NEW r \in Rows, \A q \in Rows : q # r => outbox'[q] = outbox[q],
         VerdictOf(outbox'[r]) = VerdictOf(outbox[r]),
         UNCHANGED <<shown, resolved>>
  PROVE  UNCHANGED <<shown, Verdict, resolved>>
  BY VerdictKept

\* What the writes of a call make of the verdict of its row.
LEMMA HoldingVerdicts ==
  ASSUME OutboxIInv, NEW c \in Calls, Holding(c)
  PROVE  LET r == call[c].row IN
         /\ r \in Rows
         /\ VerdictOf(outbox[r]) = "open"
         /\ UNCHANGED <<shown, resolved>>
         /\ \/ VerdictOf(outbox'[r]) = "open"
            \/ VerdictOf(outbox'[r]) = "delivered" /\ shown[r] = 1
            \/ VerdictOf(outbox'[r]) = "failed" /\ shown[r] = 0
            \/ VerdictOf(outbox'[r]) = "unknown"
  <1> DEFINE r == call[c].row
  <1>1. Busy(c) /\ Holds(c)
    BY DEF Holding, Busy, BeginUpload, FinishUpload, BeginSend, Receipt, Ambiguous,
           FailUpload, Rejected
  <1>2. /\ r \in Rows /\ outbox[r] \in Row
        /\ outbox[r].status = IF call[c].pc = "awaiting" THEN "sending" ELSE call[c].pc
        /\ outbox[r].status \in Leased
        /\ call[c] \in Call
    BY <1>1, HolderRow DEF OutboxIInv, OutboxTypeOK, ClaimInv, LeaseShape
  <1>3. outbox \in [Rows -> Row]
    BY DEF OutboxIInv, OutboxTypeOK
  <1>4. UNCHANGED <<shown, resolved>>
    BY DEF Holding, BeginUpload, FinishUpload, BeginSend, Receipt, Ambiguous,
           FailUpload, Rejected
  <1>5. VerdictOf(outbox[r]) = "open"
    BY <1>2 DEF VerdictOf, Leased
  <1>6. ASSUME BeginUpload(c) \/ FinishUpload(c) \/ BeginSend(c)
        PROVE  VerdictOf(outbox'[r]) = "open"
    <2>1. outbox'[r].status \in {"uploading", "uploaded", "sending"}
      BY <1>2, <1>3, <1>6 DEF BeginUpload, FinishUpload, BeginSend, Row
    <2> QED
      BY <2>1 DEF VerdictOf
  <1>7. ASSUME Receipt(c)
        PROVE  VerdictOf(outbox'[r]) = "delivered" /\ shown[r] = 1
    <2>1. outbox'[r].status = "delivered"
      BY <1>2, <1>3, <1>7 DEF Receipt, Release, Row
    <2>2. call[c].token \in Tokens /\ request[r][call[c].token] = "accepted"
      BY <1>2, <1>7 DEF Receipt, Call
    <2>3. shown[r] = 1
      BY <1>2, <2>2 DEF OutboxIInv, ClaimInv, ShownIsAccepted
    <2> QED
      BY <2>1, <2>3 DEF VerdictOf
  <1>8. ASSUME Ambiguous(c)
        PROVE  VerdictOf(outbox'[r]) = "unknown"
    <2>1. outbox[r].status = "sending"
      BY <1>2, <1>8 DEF Ambiguous
    <2>2. outbox'[r] = Failed(outbox[r], TRUE, FALSE)
      BY <1>2, <1>3, <1>8, <2>1 DEF Ambiguous
    <2>3. outbox'[r].status = "uncertain"
      BY <1>2, <2>2 DEF Failed, Release, Row
    <2> QED
      BY <2>3 DEF VerdictOf
  <1>9. ASSUME NEW retryAt \in BOOLEAN, FailUpload(c, retryAt) \/ Rejected(c, retryAt)
        PROVE  VerdictOf(outbox'[r]) \in {"open", "failed"} /\ shown[r] = 0
    <2>1. outbox'[r] = Failed(outbox[r], FALSE, retryAt)
      BY <1>2, <1>3, <1>9 DEF FailUpload, Rejected
    <2>2. outbox'[r].status \in {"retry_wait", "failed"}
      BY <1>2, <2>1 DEF Failed, Release, Row
    <2>3. CASE FailUpload(c, retryAt)
      <3>1. outbox[r].status \in Replayable
        BY <1>2, <2>3 DEF FailUpload, Replayable
      <3>2. shown[r] = 0
        BY <1>2, <3>1 DEF OutboxIInv, ClaimInv, ReplayableIsInvisible
      <3> QED
        BY <2>2, <3>2 DEF VerdictOf
    <2>4. CASE Rejected(c, retryAt)
      <3>1. \A k \in Tokens : request[r][k] # "accepted"
        BY <1>2, <2>4 DEF Rejected, SendPhase, OutboxIInv, ClaimInv, SenderRequest
      <3>2. shown[r] = 0
        BY <1>2, <3>1 DEF OutboxIInv, ClaimInv, ShownIsAccepted
      <3> QED
        BY <2>2, <3>2 DEF VerdictOf
    <2> QED
      BY <1>9, <2>3, <2>4
  <1> QED
    BY <1>2, <1>4, <1>5, <1>6, <1>7, <1>8, <1>9 DEF Holding

LEMMA PromiseInit == OutboxInit => Promise!Init
  BY DEF OutboxInit, FreshRow, Promise!Init, VerdictOf

LEMMA PromiseStep ==
  ASSUME OutboxIInv, [OutboxNext]_outboxVars
  PROVE  [Promise!Next]_<<shown, Verdict, resolved>>
  <1>0. outbox \in [Rows -> Row] /\ shown \in [Rows -> Nat] /\ resolved \in SUBSET Rows
    BY DEF OutboxIInv, OutboxTypeOK
  <1>1. ASSUME NEW c \in Calls, CallStep(c)
        PROVE  [Promise!Next]_<<shown, Verdict, resolved>>
    <2>1. CASE \E r \in Rows : Deliver(c, r)
      <3>1. PICK r \in Rows : Deliver(c, r)
        BY <2>1
      <3>2. outbox[r].status \in {"absent"} \cup Claimable /\ outbox'[r].status = "claimed"
        BY <1>0, <3>1 DEF Deliver, Row
      <3>3. VerdictOf(outbox'[r]) = VerdictOf(outbox[r])
        BY <3>2 DEF VerdictOf, Claimable
      <3>4. \A q \in Rows : q # r => outbox'[q] = outbox[q]
        BY <1>0, <3>1 DEF Deliver
      <3> QED
        BY <3>1, <3>3, <3>4, OneVerdictKept DEF Deliver
    <2>2. CASE IssueSend(c) \/ LoseLease(c)
      BY <2>2, VerdictKept DEF IssueSend, LoseLease
    <2>3. CASE Holding(c)
      <3> DEFINE r == call[c].row
      <3>1. \A q \in Rows : q # r => outbox'[q] = outbox[q]
        BY <2>3, HoldingWrites
      <3>2. r \in Rows /\ VerdictOf(outbox[r]) = "open" /\ UNCHANGED <<shown, resolved>>
        BY <2>3, HoldingVerdicts
      <3>3. Verdict[r] = "open"
        BY <3>2 DEF Verdict
      <3>4. Verdict' = [Verdict EXCEPT ![r] = VerdictOf(outbox'[r])]
        BY <3>1, <3>2, VerdictMoved
      <3>5. CASE VerdictOf(outbox'[r]) = "open"
        BY <3>1, <3>2, <3>5, OneVerdictKept
      <3>6. CASE VerdictOf(outbox'[r]) = "delivered" /\ shown[r] = 1
        BY <3>2, <3>3, <3>4, <3>6 DEF Promise!Next, Promise!Confirm, Verdict
      <3>7. CASE VerdictOf(outbox'[r]) = "failed" /\ shown[r] = 0
        BY <3>2, <3>3, <3>4, <3>7 DEF Promise!Next, Promise!GiveUp, Verdict
      <3>8. CASE VerdictOf(outbox'[r]) = "unknown"
        <4> DEFINE lost == {r}
        <4>1. lost \in SUBSET {o \in Rows : Verdict[o] = "open"}
          BY <3>2, <3>3
        <4>2. Verdict' = [o \in Rows |-> IF o \in lost THEN "unknown" ELSE Verdict[o]]
          BY <3>2, <3>4, <3>8 DEF Verdict
        <4> QED
          BY <3>2, <4>1, <4>2 DEF Promise!Next, Promise!LoseTrack, Verdict
      <3> QED
        BY <2>3, <3>5, <3>6, <3>7, <3>8, HoldingVerdicts
    <2> QED
      BY <1>1, <2>1, <2>2, <2>3 DEF CallStep, Holding
  <1>2. ASSUME NEW r \in Rows, NEW k \in Tokens, Accept(r, k)
        PROVE  [Promise!Next]_<<shown, Verdict, resolved>>
    <2>1. \A j \in Tokens : request[r][j] # "accepted"
      BY <1>2 DEF Accept, OutboxIInv, ClaimInv, OneRequest
    <2>2. shown[r] = 0
      BY <2>1 DEF OutboxIInv, ClaimInv, ShownIsAccepted
    <2>3. outbox[r].status \in {"delivered", "failed"} => r \in resolved
      BY <1>2, <2>2 DEF Accept, OutboxIInv, ClaimInv, DeliveredIsShown, FailedIsInvisible
    <2>4. Verdict[r] \in {"open", "unknown"} \/ r \in resolved
      BY <2>3 DEF Verdict, VerdictOf
    <2>5. shown' = [shown EXCEPT ![r] = 1] /\ UNCHANGED <<outbox, resolved>>
      BY <1>0, <1>2, <2>2 DEF Accept
    <2>6. UNCHANGED Verdict
      BY <2>5 DEF Verdict
    <2> QED
      BY <2>2, <2>4, <2>5, <2>6 DEF Promise!Next, Promise!Show, Verdict
  <1>3. ASSUME NEW r \in Rows, NEW k \in Tokens, Refuse(r, k)
        PROVE  [Promise!Next]_<<shown, Verdict, resolved>>
    BY <1>3, VerdictKept DEF Refuse
  <1>4. ASSUME NEW r \in Rows, Lapse(r) \/ BecomeDue(r)
        PROVE  [Promise!Next]_<<shown, Verdict, resolved>>
    <2>1. \A q \in Rows : q # r => outbox'[q] = outbox[q]
      BY <1>0, <1>4 DEF Lapse, BecomeDue
    <2>2. outbox'[r].status = outbox[r].status
      <3>1. CASE Lapse(r)
        BY <1>0, <3>1 DEF Lapse, Row
      <3>2. CASE BecomeDue(r)
        BY <1>0, <3>2 DEF BecomeDue, Row
      <3> QED
        BY <1>4, <3>1, <3>2
    <2>3. VerdictOf(outbox'[r]) = VerdictOf(outbox[r])
      BY <2>2 DEF VerdictOf
    <2> QED
      BY <1>4, <2>1, <2>3, OneVerdictKept DEF Lapse, BecomeDue
  <1>5. ASSUME NEW i \in Instances, Start(i)
        PROVE  [Promise!Next]_<<shown, Verdict, resolved>>
    <2> DEFINE lost == {r \in Rows : outbox[r].status = "sending"
                                     /\ outbox'[r].status = "uncertain"}
    <2>1. lost \in SUBSET {o \in Rows : Verdict[o] = "open"}
      BY DEF Verdict, VerdictOf
    <2>2. \A r \in Rows :
            Verdict'[r] = IF r \in lost THEN "unknown" ELSE Verdict[r]
      <3> SUFFICES ASSUME NEW r \in Rows
                   PROVE  VerdictOf(outbox'[r]) =
                            IF r \in lost THEN "unknown" ELSE VerdictOf(outbox[r])
        BY DEF Verdict
      <3>1. CASE r \in lost
        BY <3>1 DEF VerdictOf
      <3>2. CASE r \notin lost
        <4>1. \/ outbox'[r] = outbox[r]
              \/ /\ outbox[r].status \in {"claimed", "uploading", "uploaded"}
                 /\ outbox'[r].status = "retry_wait"
          BY <1>5, <3>2, StartRows
        <4> QED
          BY <3>2, <4>1 DEF VerdictOf
      <3> QED
        BY <3>1, <3>2
    <2>3. Verdict' = [o \in Rows |-> IF o \in lost THEN "unknown" ELSE Verdict[o]]
      BY <2>2 DEF Verdict
    <2>4. UNCHANGED <<shown, resolved>>
      BY <1>5 DEF Start
    <2> QED
      BY <2>1, <2>3, <2>4 DEF Promise!Next, Promise!LoseTrack, Verdict
  <1>6. ASSUME NEW i \in Instances, Crash(i)
        PROVE  [Promise!Next]_<<shown, Verdict, resolved>>
    BY <1>6, VerdictKept DEF Crash
  <1>7. ASSUME NEW r \in Rows, NEW verdict \in {"delivered", "failed"}, Resolve(r, verdict)
        PROVE  [Promise!Next]_<<shown, Verdict, resolved>>
    <2>1. /\ outbox[r].status = "uncertain" /\ outbox'[r].status = verdict
          /\ \A q \in Rows : q # r => outbox'[q] = outbox[q]
      BY <1>0, <1>7 DEF Resolve, Row
    <2>2. Verdict[r] = "unknown"
      BY <2>1 DEF Verdict, VerdictOf
    <2>3. VerdictOf(outbox'[r]) = verdict
      BY <2>1 DEF VerdictOf
    <2>4. Verdict' = [Verdict EXCEPT ![r] = verdict]
      BY <2>1, <2>3, VerdictMoved
    <2> QED
      BY <1>7, <2>2, <2>4 DEF Resolve, Promise!Next, Promise!Overrule, Verdict
  <1>8. CASE UNCHANGED outboxVars
    BY <1>8, VerdictKept DEF outboxVars
  <1> QED
    BY <1>1, <1>2, <1>3, <1>4, <1>5, <1>6, <1>7, <1>8 DEF OutboxNext, Provider

\* The outbox implements its promise: seen from the user, the ledger and the
\* operator, every behaviour is one of OutputPromise.
THEOREM OutboxKeepsPromise == OutboxSpec => KeepsPromise
  <1>1. OutboxIInv /\ [OutboxNext]_outboxVars => [Promise!Next]_Promise!promiseVars
    BY PromiseStep DEF Promise!promiseVars, Verdict
  <1> QED
    BY <1>1, PromiseInit, OutboxIInvariant, PTL DEF OutboxSpec, KeepsPromise, Promise!Spec
=============================================================================
