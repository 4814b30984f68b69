------------------------- MODULE ChannelInboxProofs -------------------------
(***************************************************************************)
(* For any number of events: the fields of the inbox keep their types, a     *)
(* slash command runs once and its reply is shown once, and a row is over    *)
(* only for a reason.                                                        *)
(*                                                                         *)
(* The inductive invariant says of each event what its checkpoint stands     *)
(* for, and that no second handler can be sending the reply.                 *)
(***************************************************************************)
EXTENDS ChannelInbox, TLAPS

\* What the place of the claimant says about the event.
Situated(e) ==
    /\ item[e].place \in {"command", "apology"} => item[e].checkpoint = "executing"
    /\ item[e].place = "deliver" => item[e].checkpoint = "pending_reply"
    /\ item[e].place \in {"command", "apology", "deliver", "reply"} =>
           e \in Slash /\ (e \in Known => ran[e] > 0)
    /\ item[e].place = "hint" => e \in Bare
    /\ item[e].place = "card" => e \in stored
    /\ item[e].place = "finish" => e \in stored \cup astray \/ shown[e] > 0

\* What the checkpoint says about the command ...
RanOnce(e) ==
    /\ e \notin Slash \cap Known => ran[e] = 0
    /\ e \notin astray => ran[e] <= 1
    /\ e \notin astray /\ item[e].checkpoint = "none" => ran[e] = 0
    /\ e \in Known /\ item[e].checkpoint # "none" => ran[e] > 0

\* ... and about its reply: only one handler can be sending it, and none after it was
\* shown.
ShownOnce(e) ==
    /\ shown[e] > 0 \/ Replying(e) => e \in Slash
    /\ e \notin astray => shown[e] <= 1
    /\ e \notin astray /\ shown[e] > 0 =>
           item[e].checkpoint \in {"sending_reply", "reply_acknowledged"}
    /\ e \notin astray /\ Replying(e) =>
           item[e].checkpoint = "sending_reply" /\ shown[e] = 0
    /\ e \notin astray => item[e].place # "reply" \/ "reply" \notin stale[e]
    /\ item[e].checkpoint = "reply_acknowledged" => shown[e] > 0

\* Why the row is over.
Settled(e) ==
    /\ item[e].status = "processed" => e \in stored \cup astray \cup Bare \/ shown[e] > 0
    /\ item[e].status = "failed" => e \in Slash
    /\ item[e].status = "failed" /\ e \in Known => ran[e] > 0

\* Nothing happened before the event was recorded.
Recorded(e) ==
    item[e].status = "absent" =>
        item[e].place = "none" /\ stale[e] = {} /\ ran[e] = 0 /\ shown[e] = 0

Sound(e) == Recorded(e) /\ Situated(e) /\ RanOnce(e) /\ ShownOnce(e) /\ Settled(e)

InboxIInv == InboxTypeOK /\ \A e \in Events : Sound(e)
-----------------------------------------------------------------------------
(* One event at a time *)

\* Nothing Sound(d) speaks of changes.
Untouched(d) ==
    /\ item'[d] = item[d] /\ stale'[d] = stale[d]
    /\ ran'[d] = ran[d] /\ shown'[d] = shown[d]
    /\ (d \in stored') = (d \in stored) /\ (d \in astray') = (d \in astray)

LEMMA UntouchedKeeps ==
  ASSUME NEW d \in Events, Sound(d), Untouched(d)
  PROVE  Sound(d)'
BY DEF Sound, Untouched, Recorded, Situated, RanOnce, ShownOnce, Settled, Replying

\* A step of one event keeps the invariant if it does so for that event.
LEMMA OneEvent ==
  ASSUME InboxIInv, NEW e \in Events, InboxTypeOK', Sound(e)',
         \A d \in Events \ {e} : Untouched(d)
  PROVE  InboxIInv'
<1>1. ASSUME NEW d \in Events, d # e PROVE Sound(d)'
  BY <1>1, UntouchedKeeps DEF InboxIInv
<1> QED BY <1>1 DEF InboxIInv

-----------------------------------------------------------------------------
(* What one event does *)

LEMMA ArriveKeeps ==
  ASSUME InboxIInv, NEW e \in Events, Arrive(e) PROVE InboxIInv'
<1> USE DEF Arrive, Put, Row
<1>1. InboxTypeOK'
  BY DEF InboxIInv, InboxTypeOK, Rows, Statuses, Places, Checkpoints
<1>2. Sound(e)'
  BY DEF InboxIInv, InboxTypeOK, Sound, Recorded, Situated, RanOnce, ShownOnce, Settled, Replying
<1>3. \A d \in Events \ {e} : Untouched(d)
  BY DEF InboxIInv, InboxTypeOK, Untouched
<1> QED BY <1>1, <1>2, <1>3, OneEvent

LEMMA DeferKeeps ==
  ASSUME InboxIInv, NEW e \in Events, Defer(e) PROVE InboxIInv'
<1> USE DEF Defer, Takes, Claim, Put, Retry, Row
<1>1. InboxTypeOK'
  BY DEF InboxIInv, InboxTypeOK, Rows, Statuses, Places, Checkpoints
<1>2. Sound(e)'
  BY DEF InboxIInv, InboxTypeOK, Sound, Recorded, Situated, RanOnce, ShownOnce, Settled, Replying
<1>3. \A d \in Events \ {e} : Untouched(d)
  BY DEF InboxIInv, InboxTypeOK, Untouched
<1> QED BY <1>1, <1>2, <1>3, OneEvent

LEMMA IgnoreKeeps ==
  ASSUME InboxIInv, NEW e \in Events, Ignore(e) PROVE InboxIInv'
<1> USE DEF Ignore, Takes, Claim, Put, Finish, Row
<1>1. InboxTypeOK'
  BY DEF InboxIInv, InboxTypeOK, Rows, Statuses, Places, Checkpoints
<1>2. Sound(e)'
  BY DEF InboxIInv, InboxTypeOK, Sound, Recorded, Situated, RanOnce, ShownOnce, Settled, Replying
<1>3. \A d \in Events \ {e} : Untouched(d)
  BY DEF InboxIInv, InboxTypeOK, Untouched
<1> QED BY <1>1, <1>2, <1>3, OneEvent

LEMMA HintKeeps ==
  ASSUME InboxIInv, NEW e \in Events, Hint(e) PROVE InboxIInv'
<1> USE DEF Hint, Admits, Takes, Claim, Put, Hold, Row
<1>1. InboxTypeOK'
  BY DEF InboxIInv, InboxTypeOK, Rows, Statuses, Places, Checkpoints
<1>2. Sound(e)'
  BY DEF InboxIInv, InboxTypeOK, Sound, Recorded, Situated, RanOnce, ShownOnce, Settled, Replying
<1>3. \A d \in Events \ {e} : Untouched(d)
  BY DEF InboxIInv, InboxTypeOK, Untouched
<1> QED BY <1>1, <1>2, <1>3, OneEvent

LEMMA ExecuteKeeps ==
  ASSUME InboxIInv, NEW e \in Events, Execute(e) PROVE InboxIInv'
<1> USE DEF Execute, Admits, Takes, Claim, Fresh, Twice, Put, Hold, Row
<1>1. InboxTypeOK'
  BY DEF InboxIInv, InboxTypeOK, Rows, Statuses, Places, Checkpoints
<1>2. Sound(e)'
  BY DEF InboxIInv, InboxTypeOK, Sound, Recorded, Situated, RanOnce, ShownOnce, Settled, Replying
<1>3. \A d \in Events \ {e} : Untouched(d)
  BY DEF InboxIInv, InboxTypeOK, Untouched
<1> QED BY <1>1, <1>2, <1>3, OneEvent

LEMMA ResendKeeps ==
  ASSUME InboxIInv, NEW e \in Events, Resend(e) PROVE InboxIInv'
<1> USE DEF Resend, Admits, Takes, Claim, Put, Hold, Row
<1>1. InboxTypeOK'
  BY DEF InboxIInv, InboxTypeOK, Rows, Statuses, Places, Checkpoints
<1>2. Sound(e)'
  BY DEF InboxIInv, InboxTypeOK, Sound, Recorded, Situated, RanOnce, ShownOnce, Settled, Replying
<1>3. \A d \in Events \ {e} : Untouched(d)
  BY DEF InboxIInv, InboxTypeOK, Untouched
<1> QED BY <1>1, <1>2, <1>3, OneEvent

LEMMA ConfirmKeeps ==
  ASSUME InboxIInv, NEW e \in Events, Confirm(e) PROVE InboxIInv'
<1> USE DEF Confirm, Admits, Takes, Claim, Put, Finish, Row
<1>1. InboxTypeOK'
  BY DEF InboxIInv, InboxTypeOK, Rows, Statuses, Places, Checkpoints
<1>2. Sound(e)'
  BY DEF InboxIInv, InboxTypeOK, Sound, Recorded, Situated, RanOnce, ShownOnce, Settled, Replying
<1>3. \A d \in Events \ {e} : Untouched(d)
  BY DEF InboxIInv, InboxTypeOK, Untouched
<1> QED BY <1>1, <1>2, <1>3, OneEvent

LEMMA AbandonKeeps ==
  ASSUME InboxIInv, NEW e \in Events, Abandon(e) PROVE InboxIInv'
<1> USE DEF Abandon, Admits, Takes, Claim, Put, Finish, Row
<1>1. InboxTypeOK'
  BY DEF InboxIInv, InboxTypeOK, Rows, Statuses, Places, Checkpoints
<1>2. Sound(e)'
  BY DEF InboxIInv, InboxTypeOK, Sound, Recorded, Situated, RanOnce, ShownOnce, Settled, Replying
<1>3. \A d \in Events \ {e} : Untouched(d)
  BY DEF InboxIInv, InboxTypeOK, Untouched
<1> QED BY <1>1, <1>2, <1>3, OneEvent

LEMMA ReadKeeps ==
  ASSUME InboxIInv, NEW e \in Events, Read(e) PROVE InboxIInv'
<1> USE DEF Read, Admits, Takes, Claim, Put, Hold, Row
<1>1. InboxTypeOK'
  BY DEF InboxIInv, InboxTypeOK, Rows, Statuses, Places, Checkpoints
<1>2. Sound(e)'
  BY DEF InboxIInv, InboxTypeOK, Sound, Recorded, Situated, RanOnce, ShownOnce, Settled, Replying
<1>3. \A d \in Events \ {e} : Untouched(d)
  BY DEF InboxIInv, InboxTypeOK, Untouched
<1> QED BY <1>1, <1>2, <1>3, OneEvent

LEMMA RejectKeeps ==
  ASSUME InboxIInv, NEW e \in Events, Reject(e) PROVE InboxIInv'
<1> USE DEF Reject, Admits, Takes, Claim, Put, Retry, Row
<1>1. InboxTypeOK'
  BY DEF InboxIInv, InboxTypeOK, Rows, Statuses, Places, Checkpoints
<1>2. Sound(e)'
  BY DEF InboxIInv, InboxTypeOK, Sound, Recorded, Situated, RanOnce, ShownOnce, Settled, Replying
<1>3. \A d \in Events \ {e} : Untouched(d)
  BY DEF InboxIInv, InboxTypeOK, Untouched
<1> QED BY <1>1, <1>2, <1>3, OneEvent

LEMMA ReadRawKeeps ==
  ASSUME InboxIInv, NEW e \in Events, ReadRaw(e) PROVE InboxIInv'
<1> USE DEF ReadRaw, Claim, Put, Hold, Row
<1>1. InboxTypeOK'
  BY DEF InboxIInv, InboxTypeOK, Rows, Statuses, Places, Checkpoints
<1>2. Sound(e)'
  BY DEF InboxIInv, InboxTypeOK, Sound, Recorded, Situated, RanOnce, ShownOnce, Settled, Replying
<1>3. \A d \in Events \ {e} : Untouched(d)
  BY DEF InboxIInv, InboxTypeOK, Untouched
<1> QED BY <1>1, <1>2, <1>3, OneEvent

LEMMA CommandRepliesKeeps ==
  ASSUME InboxIInv, NEW e \in Events, CommandReplies(e) PROVE InboxIInv'
<1> USE DEF CommandReplies, Resumes, Put, Hold, Row
<1>1. InboxTypeOK'
  BY DEF InboxIInv, InboxTypeOK, Rows, Statuses, Places, Checkpoints
<1>2. Sound(e)'
  BY DEF InboxIInv, InboxTypeOK, Sound, Recorded, Situated, RanOnce, ShownOnce, Settled, Replying
<1>3. \A d \in Events \ {e} : Untouched(d)
  BY DEF InboxIInv, InboxTypeOK, Untouched
<1> QED BY <1>1, <1>2, <1>3, OneEvent

LEMMA SendReplyKeeps ==
  ASSUME InboxIInv, NEW e \in Events, SendReply(e) PROVE InboxIInv'
<1> USE DEF SendReply, Resumes, Put, Hold, Row
<1>1. InboxTypeOK'
  BY DEF InboxIInv, InboxTypeOK, Rows, Statuses, Places, Checkpoints
<1>2. Sound(e)'
  BY DEF InboxIInv, InboxTypeOK, Sound, Recorded, Situated, RanOnce, ShownOnce, Settled, Replying
<1>3. \A d \in Events \ {e} : Untouched(d)
  BY DEF InboxIInv, InboxTypeOK, Untouched
<1> QED BY <1>1, <1>2, <1>3, OneEvent

LEMMA CommandIsUnknownKeeps ==
  ASSUME InboxIInv, NEW e \in Events, CommandIsUnknown(e) PROVE InboxIInv'
<1> USE DEF CommandIsUnknown, Resumes, Put, Hold, Retry, Row
<1>1. InboxTypeOK'
  <2>1. \E row \in Rows : item' = [item EXCEPT ![e] = row]
    <3>1. CASE Put(e, Row("ignored", FALSE, "none", "none"))
      BY <3>1 DEF Rows, Statuses, Places, Checkpoints
    <3>2. CASE Hold(e, "read", "none")
      BY <3>2 DEF Rows, Statuses, Places, Checkpoints
    <3>3. CASE Retry(e, "none")
      BY <3>3 DEF Rows, Statuses, Places, Checkpoints
    <3> QED BY <3>1, <3>2, <3>3
  <2>2. item' \in [Events -> Rows]
    BY <2>1 DEF InboxIInv, InboxTypeOK
  <2> QED BY <2>2 DEF InboxIInv, InboxTypeOK
<1>2. Sound(e)'
  BY DEF InboxIInv, InboxTypeOK, Sound, Recorded, Situated, RanOnce, ShownOnce, Settled, Replying
<1>3. \A d \in Events \ {e} : Untouched(d)
  BY DEF InboxIInv, InboxTypeOK, Untouched
<1> QED BY <1>1, <1>2, <1>3, OneEvent

LEMMA CommandThrowsKeeps ==
  ASSUME InboxIInv, NEW e \in Events, CommandThrows(e) PROVE InboxIInv'
<1> USE DEF CommandThrows, Resumes, Put, Hold, Row
<1>1. InboxTypeOK'
  BY DEF InboxIInv, InboxTypeOK, Rows, Statuses, Places, Checkpoints
<1>2. Sound(e)'
  BY DEF InboxIInv, InboxTypeOK, Sound, Recorded, Situated, RanOnce, ShownOnce, Settled, Replying
<1>3. \A d \in Events \ {e} : Untouched(d)
  BY DEF InboxIInv, InboxTypeOK, Untouched
<1> QED BY <1>1, <1>2, <1>3, OneEvent

LEMMA ApologyEndsKeeps ==
  ASSUME InboxIInv, NEW e \in Events, ApologyEnds(e) PROVE InboxIInv'
<1> USE DEF ApologyEnds, Resumes, Put, Finish, Row
<1>1. InboxTypeOK'
  BY DEF InboxIInv, InboxTypeOK, Rows, Statuses, Places, Checkpoints
<1>2. Sound(e)'
  BY DEF InboxIInv, InboxTypeOK, Sound, Recorded, Situated, RanOnce, ShownOnce, Settled, Replying
<1>3. \A d \in Events \ {e} : Untouched(d)
  BY DEF InboxIInv, InboxTypeOK, Untouched
<1> QED BY <1>1, <1>2, <1>3, OneEvent

LEMMA ReplyArrivesKeeps ==
  ASSUME InboxIInv, NEW e \in Events, ReplyArrives(e) PROVE InboxIInv'
<1> USE DEF ReplyArrives, Resumes, Twice, Put, Hold, Row
<1>1. InboxTypeOK'
  BY DEF InboxIInv, InboxTypeOK, Rows, Statuses, Places, Checkpoints
<1>2. Sound(e)'
  BY DEF InboxIInv, InboxTypeOK, Sound, Recorded, Situated, RanOnce, ShownOnce, Settled, Replying
<1>3. \A d \in Events \ {e} : Untouched(d)
  BY DEF InboxIInv, InboxTypeOK, Untouched
<1> QED BY <1>1, <1>2, <1>3, OneEvent

LEMMA ReplyIsRejectedKeeps ==
  ASSUME InboxIInv, NEW e \in Events, ReplyIsRejected(e) PROVE InboxIInv'
<1> USE DEF ReplyIsRejected, Resumes, Put, Retry, Row
<1>1. InboxTypeOK'
  BY DEF InboxIInv, InboxTypeOK, Rows, Statuses, Places, Checkpoints
<1>2. Sound(e)'
  BY DEF InboxIInv, InboxTypeOK, Sound, Recorded, Situated, RanOnce, ShownOnce, Settled, Replying
<1>3. \A d \in Events \ {e} : Untouched(d)
  BY DEF InboxIInv, InboxTypeOK, Untouched
<1> QED BY <1>1, <1>2, <1>3, OneEvent

LEMMA ReplyIsUncertainKeeps ==
  ASSUME InboxIInv, NEW e \in Events, ReplyIsUncertain(e) PROVE InboxIInv'
<1> USE DEF ReplyIsUncertain, Resumes, Twice, Put, Finish, Row
<1>1. InboxTypeOK'
  BY DEF InboxIInv, InboxTypeOK, Rows, Statuses, Places, Checkpoints
<1>2. Sound(e)'
  BY DEF InboxIInv, InboxTypeOK, Sound, Recorded, Situated, RanOnce, ShownOnce, Settled, Replying
<1>3. \A d \in Events \ {e} : Untouched(d)
  BY DEF InboxIInv, InboxTypeOK, Untouched
<1> QED BY <1>1, <1>2, <1>3, OneEvent

LEMMA HintEndsKeeps ==
  ASSUME InboxIInv, NEW e \in Events, HintEnds(e) PROVE InboxIInv'
<1> USE DEF HintEnds, Resumes, Put, Finish, Retry, Row
<1>1. InboxTypeOK'
  <2>1. CASE Finish(e, "processed")
    BY <2>1 DEF InboxIInv, InboxTypeOK, Rows, Statuses, Places, Checkpoints
  <2>2. CASE Retry(e, item[e].checkpoint)
    BY <2>2 DEF InboxIInv, InboxTypeOK, Rows, Statuses, Places, Checkpoints
  <2> QED BY <2>1, <2>2
<1>2. Sound(e)'
  BY DEF InboxIInv, InboxTypeOK, Sound, Recorded, Situated, RanOnce, ShownOnce, Settled, Replying
<1>3. \A d \in Events \ {e} : Untouched(d)
  BY DEF InboxIInv, InboxTypeOK, Untouched
<1> QED BY <1>1, <1>2, <1>3, OneEvent

LEMMA ReadFailsKeeps ==
  ASSUME InboxIInv, NEW e \in Events, ReadFails(e) PROVE InboxIInv'
<1> USE DEF ReadFails, Resumes, Put, Retry, Row
<1>1. InboxTypeOK'
  BY DEF InboxIInv, InboxTypeOK, Rows, Statuses, Places, Checkpoints
<1>2. Sound(e)'
  BY DEF InboxIInv, InboxTypeOK, Sound, Recorded, Situated, RanOnce, ShownOnce, Settled, Replying
<1>3. \A d \in Events \ {e} : Untouched(d)
  BY DEF InboxIInv, InboxTypeOK, Untouched
<1> QED BY <1>1, <1>2, <1>3, OneEvent

LEMMA CardEndsKeeps ==
  ASSUME InboxIInv, NEW e \in Events, CardEnds(e) PROVE InboxIInv'
<1> USE DEF CardEnds, Resumes, Put, Finish, Retry, Row
<1>1. InboxTypeOK'
  <2>1. CASE Finish(e, "processed")
    BY <2>1 DEF InboxIInv, InboxTypeOK, Rows, Statuses, Places, Checkpoints
  <2>2. CASE Retry(e, item[e].checkpoint)
    BY <2>2 DEF InboxIInv, InboxTypeOK, Rows, Statuses, Places, Checkpoints
  <2> QED BY <2>1, <2>2
<1>2. Sound(e)'
  BY DEF InboxIInv, InboxTypeOK, Sound, Recorded, Situated, RanOnce, ShownOnce, Settled, Replying
<1>3. \A d \in Events \ {e} : Untouched(d)
  BY DEF InboxIInv, InboxTypeOK, Untouched
<1> QED BY <1>1, <1>2, <1>3, OneEvent

LEMMA CompleteKeeps ==
  ASSUME InboxIInv, NEW e \in Events, Complete(e) PROVE InboxIInv'
<1> USE DEF Complete, Resumes, Put, Finish, Row
<1>1. InboxTypeOK'
  BY DEF InboxIInv, InboxTypeOK, Rows, Statuses, Places, Checkpoints
<1>2. Sound(e)'
  BY DEF InboxIInv, InboxTypeOK, Sound, Recorded, Situated, RanOnce, ShownOnce, Settled, Replying
<1>3. \A d \in Events \ {e} : Untouched(d)
  BY DEF InboxIInv, InboxTypeOK, Untouched
<1> QED BY <1>1, <1>2, <1>3, OneEvent

LEMMA StoreReadKeeps ==
  ASSUME InboxIInv, NEW e \in Events, StoreRead(e) PROVE InboxIInv'
<1> USE DEF StoreRead, Resumes, Put, Hold, Row
<1>1. InboxTypeOK'
  BY DEF InboxIInv, InboxTypeOK, Rows, Statuses, Places, Checkpoints
<1>2. Sound(e)'
  BY DEF InboxIInv, InboxTypeOK, Sound, Recorded, Situated, RanOnce, ShownOnce, Settled, Replying
<1>3. \A d \in Events \ {e} : Untouched(d)
  BY DEF InboxIInv, InboxTypeOK, Untouched
<1> QED BY <1>1, <1>2, <1>3, OneEvent

LEMMA StoreWithoutClaimKeeps ==
  ASSUME InboxIInv, NEW e \in Events, StoreWithoutClaim(e) PROVE InboxIInv'
<1> USE DEF StoreWithoutClaim, Drop
<1>1. InboxTypeOK'
  BY DEF InboxIInv, InboxTypeOK, Rows, Statuses, Places, Checkpoints
<1>2. Sound(e)'
  <2>1. CASE item[e].place = "read" /\ item' = [item EXCEPT ![e].place = "none"] /\ UNCHANGED stale
    BY <2>1 DEF InboxIInv, InboxTypeOK, Rows, Sound, Recorded, Situated, RanOnce, ShownOnce, Settled, Replying
  <2>2. CASE "read" \in stale[e] /\ stale' = [stale EXCEPT ![e] = @ \ {"read"}] /\ UNCHANGED item
    BY <2>2 DEF InboxIInv, InboxTypeOK, Sound, Recorded, Situated, RanOnce, ShownOnce, Settled, Replying
  <2> QED BY <2>1, <2>2
<1>3. \A d \in Events \ {e} : Untouched(d)
  BY DEF InboxIInv, InboxTypeOK, Untouched
<1> QED BY <1>1, <1>2, <1>3, OneEvent

LEMMA StoreRawKeeps ==
  ASSUME InboxIInv, NEW e \in Events, StoreRaw(e) PROVE InboxIInv'
<1> USE DEF StoreRaw, Resumes, Drop, Put, Hold, Row
<1>1. InboxTypeOK'
  <2>1. CASE Resumes(e, "rawRead") /\ Hold(e, "finish", "none")
    BY <2>1 DEF InboxIInv, InboxTypeOK, Rows, Statuses, Places, Checkpoints
  <2>2. CASE Drop(e, "rawRead")
    BY <2>2 DEF InboxIInv, InboxTypeOK, Rows, Statuses, Places, Checkpoints
  <2> QED BY <2>1, <2>2
<1>2. Sound(e)'
  <2>1. CASE Resumes(e, "rawRead") /\ Hold(e, "finish", "none")
    BY <2>1 DEF InboxIInv, InboxTypeOK, Rows, Sound, Recorded, Situated, RanOnce, ShownOnce, Settled, Replying
  <2>2. CASE item[e].place = "rawRead" /\ item' = [item EXCEPT ![e].place = "none"] /\ UNCHANGED stale
    BY <2>2 DEF InboxIInv, InboxTypeOK, Rows, Sound, Recorded, Situated, RanOnce, ShownOnce, Settled, Replying
  <2>3. CASE "rawRead" \in stale[e] /\ stale' = [stale EXCEPT ![e] = @ \ {"rawRead"}] /\ UNCHANGED item
    BY <2>3 DEF InboxIInv, InboxTypeOK, Sound, Recorded, Situated, RanOnce, ShownOnce, Settled, Replying
  <2> QED BY <2>1, <2>2, <2>3
<1>3. \A d \in Events \ {e} : Untouched(d)
  BY DEF InboxIInv, InboxTypeOK, Untouched
<1> QED BY <1>1, <1>2, <1>3, OneEvent

LEMMA LapseKeeps ==
  ASSUME InboxIInv, NEW e \in Events, Lapse(e) PROVE InboxIInv'
<1> USE DEF Lapse
<1>1. InboxTypeOK'
  <2>1. item[e] \in Rows
    BY DEF InboxIInv, InboxTypeOK
  <2>2. [item[e] EXCEPT !.lapsed = TRUE] \in Rows
    BY <2>1 DEF Rows
  <2> QED BY <2>2 DEF InboxIInv, InboxTypeOK
<1>2. Sound(e)'
  BY DEF InboxIInv, InboxTypeOK, Sound, Recorded, Situated, RanOnce, ShownOnce, Settled, Replying
<1>3. \A d \in Events \ {e} : Untouched(d)
  BY DEF InboxIInv, InboxTypeOK, Untouched
<1> QED BY <1>1, <1>2, <1>3, OneEvent

LEMMA BecomeDueKeeps ==
  ASSUME InboxIInv, NEW e \in Events, BecomeDue(e) PROVE InboxIInv'
<1> USE DEF BecomeDue
<1>1. InboxTypeOK'
  BY DEF InboxIInv, InboxTypeOK, Rows, Statuses, Places, Checkpoints
<1>2. Sound(e)'
  BY DEF InboxIInv, InboxTypeOK, Sound, Recorded, Situated, RanOnce, ShownOnce, Settled, Replying
<1>3. \A d \in Events \ {e} : Untouched(d)
  BY DEF InboxIInv, InboxTypeOK, Untouched
<1> QED BY <1>1, <1>2, <1>3, OneEvent

LEMMA RebindKeeps ==
  ASSUME InboxIInv, NEW e \in Events, Rebind(e) PROVE InboxIInv'
<1>1. InboxTypeOK'
  BY DEF Rebind, InboxIInv, InboxTypeOK
<1>2. \A d \in Events : Untouched(d)
  BY DEF Rebind, Untouched
<1> QED BY <1>1, <1>2, UntouchedKeeps DEF InboxIInv

LEMMA EndWithoutClaimKeeps ==
  ASSUME InboxIInv, NEW e \in Events, NEW place \in Places, EndWithoutClaim(e, place)
  PROVE  InboxIInv'
<1> USE DEF EndWithoutClaim, Twice
<1>1. InboxTypeOK'
  <2>1. item' \in [Events -> Rows]
    <3>1. item[e] \in Rows
      BY DEF InboxIInv, InboxTypeOK
    <3>2. [item[e] EXCEPT !.place = "none"] \in Rows
      BY <3>1 DEF Rows
    <3> QED BY <3>2 DEF Drop, InboxIInv, InboxTypeOK
  <2>2. stale' \in [Events -> SUBSET Places]
    BY DEF Drop, InboxIInv, InboxTypeOK
  <2>3. shown' \in [Events -> 0..2]
    BY DEF InboxIInv, InboxTypeOK
  <2> QED BY <2>1, <2>2, <2>3 DEF InboxIInv, InboxTypeOK
<1>2. Sound(e)'
  <2>1. CASE item[e].place = place /\ item' = [item EXCEPT ![e].place = "none"] /\ UNCHANGED stale
    BY <2>1 DEF InboxIInv, InboxTypeOK, Rows, Places, Sound, Recorded, Situated, RanOnce, ShownOnce, Settled, Replying
  <2>2. CASE place \in stale[e] /\ stale' = [stale EXCEPT ![e] = @ \ {place}] /\ UNCHANGED item
    BY <2>2 DEF InboxIInv, InboxTypeOK, Places, Sound, Recorded, Situated, RanOnce, ShownOnce, Settled, Replying
  <2> QED BY <2>1, <2>2 DEF Drop
<1>3. \A d \in Events \ {e} : Untouched(d)
  BY DEF Drop, InboxIInv, InboxTypeOK, Untouched
<1> QED BY <1>1, <1>2, <1>3, OneEvent

-----------------------------------------------------------------------------
(* The service and the host *)

LEMMA ServiceKeeps ==
  ASSUME InboxIInv, ServiceStep PROVE InboxIInv'
<1>1. InboxTypeOK'
  BY DEF ServiceStep, TurnGate, Connect, Stop, StopEnds, InboxIInv, InboxTypeOK
<1>2. \A d \in Events : Untouched(d)
  BY DEF ServiceStep, TurnGate, Connect, Stop, StopEnds, Untouched
<1> QED BY <1>1, <1>2, UntouchedKeeps DEF InboxIInv

LEMMA CrashKeeps ==
  ASSUME InboxIInv, Crash PROVE InboxIInv'
<1>1. PICK late \in SUBSET {e \in Events : Replying(e)} :
        shown' = [e \in Events |-> IF e \in late THEN Twice(shown[e]) ELSE shown[e]]
  BY DEF Crash
<1>2. item' \in [Events -> Rows]
  BY DEF Crash, InboxIInv, InboxTypeOK, Rows
<1>3. InboxTypeOK'
  <2>1. shown' \in [Events -> 0..2]
    BY <1>1 DEF InboxIInv, InboxTypeOK, Twice
  <2>2. stale' \in [Events -> SUBSET Places]
    BY DEF Crash
  <2> QED BY <1>2, <2>1, <2>2 DEF Crash, InboxIInv, InboxTypeOK
<1>4. ASSUME NEW e \in Events PROVE Sound(e)'
  <2>1. item[e] \in Rows /\ Sound(e)
    BY DEF InboxIInv, InboxTypeOK
  <2>2. /\ item'[e].place = "none" /\ stale'[e] = {}
        /\ item'[e].checkpoint = item[e].checkpoint /\ item'[e].status = item[e].status
        /\ ran'[e] = ran[e] /\ (e \in stored' <=> e \in stored) /\ (e \in astray' <=> e \in astray)
    BY <2>1 DEF Crash, Rows
  <2>3. CASE e \in late
    <3>1. Replying(e) /\ shown'[e] = Twice(shown[e])
      BY <1>1, <2>3
    <3> QED BY <2>1, <2>2, <3>1 DEF Twice, Sound, Recorded, Situated, RanOnce, ShownOnce, Settled, Replying
  <2>4. CASE e \notin late
    <3>1. shown'[e] = shown[e]
      BY <1>1, <2>4
    <3> QED BY <2>1, <2>2, <3>1 DEF Sound, Recorded, Situated, RanOnce, ShownOnce, Settled, Replying
  <2> QED BY <2>3, <2>4
<1> QED BY <1>3, <1>4 DEF InboxIInv

-----------------------------------------------------------------------------
(* The invariant *)

LEMMA StartKeeps ==
  ASSUME InboxIInv, NEW e \in Events, Start(e) PROVE InboxIInv'
BY DeferKeeps, IgnoreKeeps, HintKeeps, ExecuteKeeps, ResendKeeps, ConfirmKeeps,
   AbandonKeeps, ReadKeeps, RejectKeeps, ReadRawKeeps DEF Start

LEMMA ResumeKeeps ==
  ASSUME InboxIInv, NEW e \in Events, Resume(e) PROVE InboxIInv'
BY CommandRepliesKeeps, CommandIsUnknownKeeps, CommandThrowsKeeps, SendReplyKeeps,
   ApologyEndsKeeps, ReplyArrivesKeeps, ReplyIsRejectedKeeps, ReplyIsUncertainKeeps,
   HintEndsKeeps, ReadFailsKeeps, CardEndsKeeps, CompleteKeeps DEF Resume

\* The invariant holds throughout.
THEOREM InboxInvariance == Spec => []InboxIInv
<1>1. Init => InboxIInv
  <2> SUFFICES ASSUME Init PROVE InboxIInv
    OBVIOUS
  <2>1. InboxTypeOK
    <3>1. Row("absent", FALSE, "none", "none") \in Rows
      BY DEF Row, Rows, Statuses, Checkpoints
    <3>2. item \in [Events -> Rows] /\ stale \in [Events -> SUBSET Places]
      BY <3>1 DEF Init
    <3>3. ran \in [Events -> 0..2] /\ shown \in [Events -> 0..2]
      BY DEF Init
    <3> QED BY <3>2, <3>3 DEF Init, InboxTypeOK
  <2>2. ASSUME NEW e \in Events PROVE Sound(e)
    BY DEF Init, Row, Sound, Recorded, Situated, RanOnce, ShownOnce, Settled, Replying
  <2> QED BY <2>1, <2>2 DEF InboxIInv
<1>2. InboxIInv /\ [Next]_inboxVars => InboxIInv'
  <2> SUFFICES ASSUME InboxIInv, [Next]_inboxVars PROVE InboxIInv'
    OBVIOUS
  <2>1. ASSUME NEW e \in Events, InboxStep(e) PROVE InboxIInv'
    BY <2>1, ArriveKeeps, StartKeeps, ResumeKeeps, StoreRawKeeps, LapseKeeps,
       BecomeDueKeeps, RebindKeeps, EndWithoutClaimKeeps DEF InboxStep
  <2>2. ASSUME NEW e \in Events, Store(e) PROVE InboxIInv'
    BY <2>2, StoreReadKeeps, StoreWithoutClaimKeeps DEF Store
  <2>3. CASE UNCHANGED inboxVars
    <3>1. InboxTypeOK'
      BY <2>3 DEF inboxVars, InboxIInv, InboxTypeOK
    <3>2. \A d \in Events : Untouched(d)
      BY <2>3 DEF inboxVars, Untouched
    <3> QED BY <3>1, <3>2, UntouchedKeeps DEF InboxIInv
  <2> QED BY <2>1, <2>2, <2>3, ServiceKeeps, CrashKeeps DEF Next
<1> QED BY <1>1, <1>2, PTL DEF Spec

\* Rows, handlers and histories keep their types (the inbox table and its claims).
THEOREM InboxTypes == Spec => []InboxTypeOK
<1>1. InboxIInv => InboxTypeOK
  BY DEF InboxIInv
<1> QED BY <1>1, InboxInvariance, PTL

\* A command runs once and its reply is shown once, unless a connection that was being
\* stopped took it for text (the checkpoints of a slash command in feishu.ts).
THEOREM CommandsRunOnce == Spec => []EffectsHappenOnce
<1>1. InboxIInv => EffectsHappenOnce
  BY DEF InboxIInv, Sound, RanOnce, ShownOnce, EffectsHappenOnce
<1> QED BY <1>1, InboxInvariance, PTL

\* A row is over only for a reason (completeClaimedInbound, failClaimedInbound).
THEOREM RowsSettleTruthfully == Spec => []SettledTruthfully
<1>1. InboxIInv => SettledTruthfully
  BY DEF InboxIInv, Sound, Settled, SettledTruthfully
<1> QED BY <1>1, InboxInvariance, PTL
=============================================================================
